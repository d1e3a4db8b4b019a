---------------------------- MODULE SecretBallot ----------------------------
(***************************************************************************)
(* What a commit-reveal ballot promises: each voter seals one choice while  *)
(* nobody's is known, opens exactly what was sealed or stays out, and the   *)
(* ballot is closed once, by the majority of the choices opened by then.    *)
(* There are no seals, windows, stakes or salts here: how a contract makes  *)
(* choices binding and keeps late ones out is its own affair.               *)
(***************************************************************************)
EXTENDS FiniteSets, Integers

CONSTANTS Ballots, Voters

VARIABLES sealed,    \* what each voter chose in each ballot, or "None"
          opened,    \* the voters whose choice is known, by ballot
          outcome    \* of each ballot, "None" while it is open

secretVars == <<sealed, opened, outcome>>

Choices == {"For", "Against"}

BallotInit ==
  /\ sealed = [ballot \in Ballots |-> [voter \in Voters |-> "None"]]
  /\ opened = [ballot \in Ballots |-> {}]
  /\ outcome = [ballot \in Ballots |-> "None"]

\* A voter chooses, once, before any choice is known.
Seal(ballot, voter) ==
  /\ outcome[ballot] = "None"
  /\ opened[ballot] = {}
  /\ sealed[ballot][voter] = "None"
  /\ \E choice \in Choices : sealed' = [sealed EXCEPT ![ballot][voter] = choice]
  /\ UNCHANGED <<opened, outcome>>

\* The choice becomes known, as it was sealed.
Open(ballot, voter) ==
  /\ outcome[ballot] = "None"
  /\ sealed[ballot][voter] \in Choices
  /\ voter \notin opened[ballot]
  /\ opened' = [opened EXCEPT ![ballot] = @ \union {voter}]
  /\ UNCHANGED <<sealed, outcome>>

VotersFor(ballot, choice) == {voter \in opened[ballot] : sealed[ballot][voter] = choice}

\* The opened choices decide, ties for "For".
Close(ballot) ==
  /\ outcome[ballot] = "None"
  /\ opened[ballot] # {}
  /\ outcome' = [outcome EXCEPT ![ballot] =
       IF Cardinality(VotersFor(ballot, "For")) >= Cardinality(VotersFor(ballot, "Against"))
         THEN "For" ELSE "Against"]
  /\ UNCHANGED <<sealed, opened>>

BallotNext ==
  \E ballot \in Ballots :
    \/ \E voter \in Voters : Seal(ballot, voter) \/ Open(ballot, voter)
    \/ Close(ballot)

BallotSpec == BallotInit /\ [][BallotNext]_secretVars
=============================================================================
