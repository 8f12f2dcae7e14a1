------------------------------ MODULE TurnQueue ------------------------------
(***************************************************************************)
(* What the agent loop promises of its turns: they are admitted in order,  *)
(* run one at a time in that order, and end once; a turn still waiting can *)
(* be withdrawn.                                                           *)
(***************************************************************************)
EXTENDS Filtering

CONSTANT MaxTurns   \* bound on turns admitted

VARIABLES
  waiting,   \* turns admitted and not started, oldest first
  running,   \* the turn that runs, 0 for none
  over       \* turns that ended or were withdrawn

queueVars == <<waiting, running, over>>

Waits == Elems(waiting)

Init == waiting = <<>> /\ running = 0 /\ over = {}

\* Turns are numbered in the order of their admission.
AdmitTurn(t) ==
  /\ \A u \in Waits \cup over \cup {running} : u < t
  /\ waiting' = Append(waiting, t)
  /\ UNCHANGED <<running, over>>

StartNext ==
  /\ running = 0 /\ waiting # <<>>
  /\ running' = Head(waiting)
  /\ waiting' = Tail(waiting)
  /\ UNCHANGED over

Finish ==
  /\ running # 0
  /\ over' = over \cup {running}
  /\ running' = 0
  /\ UNCHANGED waiting

Withdraw(S) ==
  /\ waiting' = Without(waiting, S)
  /\ over' = over \cup S
  /\ UNCHANGED running

Next ==
  \/ \E t \in 1..MaxTurns : AdmitTurn(t)
  \/ StartNext \/ Finish
  \/ \E S \in SUBSET Waits : Withdraw(S)

Spec == Init /\ [][Next]_queueVars
=============================================================================
