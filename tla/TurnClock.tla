------------------------------ MODULE TurnClock ------------------------------
(***************************************************************************)
(* Turn identity (agent-core-v2, agent/loop/turnOps.ts and the reservation *)
(* of ids in loopService.ts).  The loop reserves an id when it admits a    *)
(* turn; the persisted TurnModel only counts: turn.prompt carries no id,   *)
(* and its reducer is expected to arrive at the id the loop reserved.      *)
(* The records of the model are only buffered when they are dispatched: a  *)
(* crash restores the model as of the last flush, or as of any record      *)
(* appended since.                                                         *)
(***************************************************************************)
EXTENDS Naturals, Sequences

CONSTANTS
  MaxTurns,     \* bound on turns admitted
  MaxCrashes,   \* bound on process crashes
  NoTurn        \* no turn is active

ASSUME ClockAssumption ==
  MaxTurns \in Nat /\ MaxCrashes \in Nat /\ NoTurn \notin Nat

VARIABLES
  next,       \* TurnModel.nextTurnId
  cancelled,  \* TurnModel.cancelledTurnIds
  restorable, \* the models a restore may rebuild: flushed, and after each record since
  reserved,   \* nextReservedTurnId, 0 for undefined
  queued,     \* ids of pendingTurns
  active,     \* id of the active turn
  made,       \* turns admitted so far
  floor,      \* history: one more than the last id the model counts as started
  crashes     \* crashes so far

vars == <<next, cancelled, restorable, reserved, queued, active, made, floor, crashes>>

model == <<next, cancelled, floor>>

Init ==
  /\ next = 0 /\ cancelled = {} /\ reserved = 0 /\ queued = <<>> /\ active = NoTurn
  /\ made = 0 /\ floor = 0 /\ crashes = 0
  /\ restorable = {<<0, {}, 0>>}

\* A record of the model is buffered: what a later flush writes may end with it.
Dispatch == restorable' = restorable \cup {model'}

\* advanceTurnClock(): the first id from n on that was not cancelled.
AdvanceOnce(n, C) == next' = n /\ cancelled' = {c \in C : c >= n}   \* mutant: no skipping
AdvanceTurnClock(n, C) ==
  \E m \in n..(n + MaxTurns) :
    /\ m \notin C /\ \A k \in n..(m - 1) : k \in C
    /\ next' = m
    /\ cancelled' = {c \in C : c >= m}

\* reserveTurnId().
ReserveFromModel == next   \* mutant: the reservations of queued turns are forgotten
ReservedId == IF reserved > next THEN reserved ELSE next

\* startTurn() of the turn with this id: turn.prompt advances the model.
StartTurn(id, rest) ==
  /\ AdvanceTurnClock(next + 1, cancelled)
  /\ active' = id
  /\ queued' = rest
  /\ floor' = id + 1
  /\ Dispatch

\* createPendingTurn() and the pumpTurns() that follows it.
AdmitTurn ==
  /\ made < MaxTurns
  /\ made' = made + 1
  /\ reserved' = ReservedId + 1
  /\ IF active = NoTurn /\ queued = <<>>
       THEN StartTurn(ReservedId, <<>>)
       ELSE /\ queued' = Append(queued, ReservedId)
            /\ UNCHANGED <<next, cancelled, restorable, active, floor>>
  /\ UNCHANGED crashes

\* runTurn() ends: the active turn is released ...
EndTurn ==
  /\ active # NoTurn
  /\ active' = NoTurn
  /\ UNCHANGED <<next, cancelled, restorable, reserved, queued, made, floor, crashes>>

\* ... and, once turn.ended has been published, the next one starts.
PumpTurn ==
  /\ active = NoTurn /\ queued # <<>>
  /\ StartTurn(Head(queued), Tail(queued))
  /\ UNCHANGED <<reserved, made, crashes>>

\* The reducer of turn.cancel for a turn that was active or queued.
CancelTurn(id) ==
  IF id < next THEN UNCHANGED <<next, cancelled>>
               ELSE AdvanceTurnClock(next, cancelled \cup {id})

CancelActive ==
  /\ active # NoTurn
  /\ CancelTurn(active)
  /\ UNCHANGED <<reserved, queued, active, made, floor, crashes>>
  /\ Dispatch

\* pendingTurns.splice(index, 1).
RemoveAtHole(s, i) == [s EXCEPT ![i] = NoTurn]   \* mutant: delete instead of splice
RemoveAt(s, i) == [j \in 1..(Len(s) - 1) |-> IF j < i THEN s[j] ELSE s[j + 1]]

CancelQueued(i) ==
  /\ queued' = RemoveAt(queued, i)
  /\ CancelTurn(queued[i])
  /\ UNCHANGED <<reserved, active, made, floor, crashes>>
  /\ Dispatch

\* The reducer of context.append_loop_event, for an event of the active turn.
LoopEvent ==
  /\ active # NoTurn
  /\ IF active >= next THEN AdvanceTurnClock(active + 1, cancelled)
                       ELSE UNCHANGED <<next, cancelled>>
  /\ UNCHANGED <<reserved, queued, active, made, floor, crashes>>
  /\ Dispatch

\* AppendLogStore.flush() of the wire log: every buffered record is in the file.
Flush ==
  /\ restorable # {model}
  /\ restorable' = {model}
  /\ UNCHANGED <<next, cancelled, reserved, queued, active, made, floor, crashes>>

\* The process dies with the records it had only buffered, or with the end of them;
\* the next one restores the TurnModel from the wire log.
Crash ==
  /\ crashes < MaxCrashes
  /\ crashes' = crashes + 1
  /\ \E m \in restorable :
       /\ next' = m[1] /\ cancelled' = m[2] /\ floor' = m[3]
       /\ restorable' = {m}
  /\ reserved' = 0 /\ queued' = <<>> /\ active' = NoTurn
  /\ UNCHANGED made

Next ==
  \/ AdmitTurn \/ EndTurn \/ PumpTurn
  \/ CancelActive \/ (\E i \in DOMAIN queued : CancelQueued(i)) \/ LoopEvent
  \/ Flush \/ Crash

Spec == Init /\ [][Next]_vars

-----------------------------------------------------------------------------
(* Properties.                                                               *)

\* The type invariant of the clock.
TypeOK ==
  /\ next \in Nat /\ cancelled \subseteq Nat /\ reserved \in Nat
  /\ restorable \subseteq Nat \X (SUBSET Nat) \X Nat
  /\ queued \in Seq(Nat) /\ active \in Nat \cup {NoTurn}
  /\ made \in 0..MaxTurns /\ floor \in Nat
  /\ crashes \in 0..MaxCrashes

Waiting == {queued[i] : i \in DOMAIN queued}

\* The reservations and the clock fit together: queued ids ascend, lie below the
\* next reservation and above every id started, and every id between the model's
\* count and the next reservation is queued or recorded as cancelled.  Wherever a
\* crash cuts the log, the model it restores counts past the turns whose records
\* it still has and stands at no cancelled id.
Alignment ==
  /\ next \notin cancelled /\ floor <= next
  /\ \A m \in restorable : m[1] \notin m[2] /\ m[3] <= m[1]
  /\ active # NoTurn => active < next
  /\ \A i \in DOMAIN queued : queued[i] >= floor /\ queued[i] < reserved
  /\ \A i, j \in DOMAIN queued : i < j => queued[i] < queued[j]
  /\ \A k \in next..(reserved - 1) : k \in Waiting \cup cancelled

Starts == active' # active /\ active' # NoTurn

\* A turn never starts under the id of an earlier one of which the log has a record,
\* and the model's count stays ahead of all of those, whatever end of the log a
\* crash loses.  (The id of a turn whose records died unflushed is handed out again.)
IdsAscend == [][(Starts => active' >= floor) /\ floor' <= next']_vars

\* Until the process crashes, the count kept by the turn.prompt reducer is the id
\* the loop reserved, whichever of the turns queued in between were cancelled: so
\* records without an id are attributed to the right turn, and a cancelled id is
\* skipped.
CountIsId == [][Starts /\ crashes = 0 => active' = next]_vars
=============================================================================
