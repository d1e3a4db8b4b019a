----------------------------- MODULE EscrowVault -----------------------------
(***************************************************************************)
(* What an escrow contract promises about each escrow it keeps, whatever    *)
(* fees, ballots and pauses stand behind it: the deposit is locked once,    *)
(* leaves in payments while nobody disputes it, is frozen by a dispute, and *)
(* then leaves in one final payment.  Nothing leaves a settled escrow.      *)
(***************************************************************************)
EXTENDS Integers

CONSTANTS Ids,     \* the escrow identifiers
          Amounts  \* the amounts a vault can hold

VARIABLES phase,    \* "None", "Active", "Disputed" or "Settled", by escrow
          locked    \* the tokens the vault still holds for the escrow

vaultVars == <<phase, locked>>

VaultInit ==
  /\ phase = [id \in Ids |-> "None"]
  /\ locked = [id \in Ids |-> 0]

\* A deposit opens the escrow.
Deposit(id) ==
  /\ phase[id] = "None"
  /\ phase' = [phase EXCEPT ![id] = "Active"]
  /\ \E amount \in Amounts \ {0} : locked' = [locked EXCEPT ![id] = amount]

\* A payment out of an undisputed escrow; the one that empties it settles it.
Pay(id) ==
  /\ phase[id] = "Active"
  /\ \E rest \in Amounts :
       /\ rest < locked[id]
       /\ locked' = [locked EXCEPT ![id] = rest]
       /\ phase' = [phase EXCEPT ![id] = IF rest = 0 THEN "Settled" ELSE @]

\* A dispute freezes what is left, and something is left.
Freeze(id) ==
  /\ phase[id] = "Active"
  /\ locked[id] > 0
  /\ phase' = [phase EXCEPT ![id] = "Disputed"]
  /\ UNCHANGED locked

\* The dispute is decided and all that is left is paid at once.
Award(id) ==
  /\ phase[id] = "Disputed"
  /\ phase' = [phase EXCEPT ![id] = "Settled"]
  /\ locked' = [locked EXCEPT ![id] = 0]

VaultNext == \E id \in Ids : Deposit(id) \/ Pay(id) \/ Freeze(id) \/ Award(id)

VaultSpec == VaultInit /\ [][VaultNext]_vaultVars
=============================================================================
