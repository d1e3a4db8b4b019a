--------------------------- MODULE ConservedSupply ---------------------------
(***************************************************************************)
(* What every token of this repository promises of its supply: it is issued *)
(* to a holder, retired by one or moved between two, never copied or lost.  *)
(***************************************************************************)
EXTENDS Integers

CONSTANTS Holders

VARIABLES holdings,   \* what each holder has
          supply      \* what has been issued and not retired

supplyVars == <<holdings, supply>>

SupplyInit ==
  /\ holdings = [holder \in Holders |-> 0]
  /\ supply = 0

Issue(to) ==
  LET amount == supply' - supply
  IN  /\ amount >= 0
      /\ holdings' = [holdings EXCEPT ![to] = @ + amount]

Retire(from) ==
  LET amount == supply - supply'
  IN  /\ amount \in 0 .. holdings[from]
      /\ holdings' = [holdings EXCEPT ![from] = @ - amount]

Move(from, to, amount) ==
  /\ amount \in 0 .. holdings[from]
  /\ holdings' = IF from = to THEN holdings
                 ELSE [holdings EXCEPT ![from] = @ - amount, ![to] = @ + amount]
  /\ UNCHANGED supply

\* What a holder has and gives away.
Given(from) == holdings[from] - holdings'[from]

SupplyNext ==
  \E holder \in Holders :
    \/ Issue(holder)
    \/ Retire(holder)
    \/ \E to \in Holders : Move(holder, to, Given(holder))

SupplySpec == SupplyInit /\ [][SupplyNext]_supplyVars
=============================================================================
