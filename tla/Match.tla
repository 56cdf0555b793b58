------------------------------- MODULE Match --------------------------------
(***************************************************************************)
(* What the client promises about a match: enemies are destroyed one by    *)
(* one, every destroyed enemy is worth one point on the server, never      *)
(* before it is destroyed and never twice, and the match is only won when  *)
(* every enemy is destroyed and counted.  Any other end may come at any    *)
(* time, and after the end nothing happens.                                *)
(***************************************************************************)
EXTENDS Naturals

CONSTANTS
  Formation,     \* how many enemies there are
  OtherEnds      \* the ways a match ends without being won

VARIABLES destroyed, scored, outcome

matchVars == <<destroyed, scored, outcome>>

Init == destroyed = 0 /\ scored = 0 /\ outcome = "running"

Destroy ==
  /\ outcome = "running"
  /\ destroyed < Formation
  /\ destroyed' = destroyed + 1
  /\ UNCHANGED <<scored, outcome>>

Score ==
  /\ outcome = "running"
  /\ scored < destroyed
  /\ scored' = scored + 1
  /\ UNCHANGED <<destroyed, outcome>>

Win ==
  /\ outcome = "running"
  /\ scored = Formation
  /\ outcome' = "winner"
  /\ UNCHANGED <<destroyed, scored>>

Stop ==
  /\ outcome = "running"
  /\ outcome' \in OtherEnds
  /\ UNCHANGED <<destroyed, scored>>

Next == Destroy \/ Score \/ Win \/ Stop

\* The safety half of the promise.
Safety == Init /\ [][Next]_matchVars

\* A destroyed enemy is counted in the end, unless the match ends first.
Spec == Safety /\ WF_matchVars(Score)
=============================================================================
