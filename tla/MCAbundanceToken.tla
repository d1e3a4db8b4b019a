-------------------------- MODULE MCAbundanceToken --------------------------
(***************************************************************************)
(* Instances of AbundanceToken for TLC, with amounts the token must refuse. *)
(***************************************************************************)
EXTENDS AbundanceToken

MintChoices  == {-1, 2}
SpendChoices == {-1, 0, 1}
GrantChoices == {-1, 0, 2}
=============================================================================
