--------------------------- MODULE AgentLoopProofs ---------------------------
(***************************************************************************)
(* For any number of requests, turns, steps, leases and waiters: a lease   *)
(* excludes turns and no settled() promise sleeps on an idle loop (Inv);   *)
(* promises, steps, requests and turns are all accounted for, and the loop *)
(* implements TurnQueue (LoopInv).                                         *)
(***************************************************************************)
EXTENDS AgentLoop, FilteringProofs, FiniteSetTheorems, TLAPS

\* The places at which no turn is active.
Quiet == {"idle", "pump", "release", "ended"}

\* The run stands at one of its own places exactly while a turn is active.
PlaceOfTurn == active = 0 <=> pc \in Quiet

\* A lease is held only while nothing is under way, and a call that is under way
\* (pumpTurns() after a turn was queued, releaseQuiescence()) excludes leases and
\* disposal: without this neither property is inductive, since a pump could find
\* itself forbidden and leave its waiters asleep.
Exclusion ==
  /\ depth > 0 => pc = "idle" /\ releasing = <<>> /\ pendingTurns = <<>>
  /\ pc \in {"pump", "release"} \/ releasing # <<>> => depth = 0 /\ ~disposing
  /\ pc = "pump" => pendingTurns # <<>>

Counters ==
  /\ turns \in Nat /\ depth \in Nat /\ waiters \in Nat
  /\ pendingTurns \in Seq(Nat \ {0})

Inv == Counters /\ PlaceOfTurn /\ Exclusion /\ WaitersServed

\* A loop that has just been constructed satisfies the invariant.
LEMMA InitInv ==
  ASSUME Init
  PROVE  Inv
BY DEF Init, Inv, Counters, PlaceOfTurn, Quiet, Exclusion, WaitersServed

\* A step of run() from await to await: it leaves the loop's own state alone.
LEMMA RunKeepsInv ==
  ASSUME Inv, pc \notin Quiet, pc' \notin Quiet, UNCHANGED <<loopVars, turns>>
  PROVE  Inv'
BY DEF loopVars, Inv, Counters, PlaceOfTurn, Quiet, Exclusion, WaitersServed

\* handleLoopStepError() and run()'s return stay inside the run.
LEMMA ThrowStays ==
  ASSUME NEW e, Throw(e)
  PROVE  pc' \notin Quiet
BY DEF Throw, Return, Quiet

\* finishStep() stays inside the run and leaves the loop's own state alone.
LEMMA FinishStays ==
  ASSUME NEW reason, FinishStep(reason)
  PROVE  pc' \notin Quiet /\ UNCHANGED <<loopVars, turns>>
BY ThrowStays DEF FinishStep, Quiet, RunFrame

\* createAndQueueTurn(): the turn queued is one to pump, or a turn is active.
LEMMA CreateKeepsInv ==
  ASSUME Inv, NEW r, CreateAndQueueTurn(r), depth = 0, ~disposing,
         UNCHANGED <<active, depth, disposing, waiters>>,
         releasing' = releasing \/ releasing # <<>>
  PROVE  Inv'
<1>1. turns \in Nat /\ pendingTurns \in Seq(Nat \ {0})
  BY DEF Inv, Counters
<1>2. turns' = turns + 1 /\ pendingTurns' = Append(pendingTurns, turns + 1)
  BY DEF CreateAndQueueTurn, CreatePendingTurn, QueueTurn
<1>3. /\ turns' \in Nat /\ pendingTurns' \in Seq(Nat \ {0}) /\ pendingTurns' # <<>>
  BY <1>1, <1>2
<1>4. pc' = IF active = 0 THEN "pump" ELSE pc
  BY DEF CreateAndQueueTurn, QueuedPumped
<1> QED
  BY <1>3, <1>4 DEF Inv, Counters, PlaceOfTurn, Quiet, Exclusion, WaitersServed

\* admit() of a request, given where the caller stands if no turn is made.
LEMMA AdmitKeepsInv ==
  ASSUME Inv, NEW r, NEW k, NEW p, Admit(r, k, p), depth = 0, ~disposing,
         UNCHANGED <<active, held, depth, disposing, waiters>>,
         releasing' = releasing \/ releasing # <<>>,
         active = 0 <=> p \in Quiet, p # "pump", pc = "release" => p = "release" \/ active # 0
  PROVE  Inv'
<1>1. CASE CreateAndQueueTurn(r)
  BY <1>1, CreateKeepsInv
<1>2. CASE UNCHANGED <<turns, pendingTurns>> /\ pc' = p
  BY <1>2 DEF Inv, Counters, PlaceOfTurn, Quiet, Exclusion, WaitersServed
<1> QED
  BY <1>1, <1>2 DEF Admit

\* enqueue(), from a sender or from the continuation aspect.
LEMMA SubmitKeepsInv ==
  ASSUME Inv, NEW k, NEW p, Submit(k, p), ~disposing,
         pc \notin {"pump", "release"}, p \notin {"pump", "release"},
         active = 0 <=> p \in Quiet, depth > 0 => p = pc
  PROVE  Inv'
<1> DEFINE r == born + 1
<1>1. UNCHANGED <<active, releasing, depth, disposing, waiters>>
  BY DEF Submit
<1>2. CASE depth > 0 /\ held' = Append(held, r) /\ pc' = p /\ UNCHANGED <<turns, pendingTurns>>
  <2>1. PlaceOfTurn' /\ Counters' /\ Exclusion'
    BY <1>1, <1>2 DEF Inv, Counters, PlaceOfTurn, Quiet, Exclusion
  <2>2. held' # <<>>
    BY <1>2
  <2> QED
    BY <2>1, <2>2 DEF Inv, WaitersServed
<1>3. CASE depth = 0 /\ Admit(r, k, p) /\ UNCHANGED held
  BY <1>1, <1>3, AdmitKeepsInv
<1>4. CASE depth = 0 /\ pc' = p /\ UNCHANGED <<turns, pendingTurns, held>>
  BY <1>1, <1>4 DEF Inv, Counters, PlaceOfTurn, Quiet, Exclusion, WaitersServed
<1> QED
  BY <1>2, <1>3, <1>4 DEF Submit

\* enqueue() called by a sender, also from a subscriber of turn.ended.
LEMMA EnqueueKeepsInv ==
  ASSUME Inv, NEW k, Enqueue(k)
  PROVE  Inv'
BY SubmitKeepsInv DEF Enqueue, CanCall, Inv, PlaceOfTurn

\* cancelQueuedTurn() wakes the waiters if it took the last thing to wait for.
LEMMA CancelQueuedKeepsInv ==
  ASSUME Inv, NEW i \in DOMAIN pendingTurns, CancelQueued(i)
  PROVE  Inv'
<1> DEFINE rest == Without(pendingTurns, {pendingTurns[i]})
<1>1. pendingTurns \in Seq(Nat \ {0}) /\ Len(pendingTurns) \in Nat /\ Len(pendingTurns) > 0
  BY DEF Inv, Counters
<1>3. rest \in Seq(Nat \ {0})
  BY <1>1, WithoutElems
<1>4. /\ pendingTurns' = rest /\ MaybeSettle(active, rest, held) /\ CanCall
      /\ UNCHANGED <<turns, active, held, releasing, depth, disposing, pc>>
  BY DEF CancelQueued
<1>5. depth = 0
  BY <1>1 DEF Inv, Counters, Exclusion
<1>6. waiters' \in Nat /\ (waiters' > 0 => active # 0 \/ rest # <<>> \/ held # <<>>)
  BY <1>4 DEF MaybeSettle, Inv, Counters
<1> HIDE DEF rest
<1> QED
  BY <1>3, <1>4, <1>5, <1>6
  DEF Inv, Counters, PlaceOfTurn, Quiet, Exclusion, WaitersServed, CanCall

\* abortRequest() of a held admission wakes the waiters if it was the last one.
LEMMA AbortKeepsInv ==
  ASSUME Inv, NEW r, AbortRequest(r)
  PROVE  Inv'
<1>1. /\ UNCHANGED <<turns, pendingTurns, active, releasing, depth, disposing, pc>>
      /\ \/ MaybeSettle(active, pendingTurns, held')
         \/ UNCHANGED <<held, waiters>>
      /\ pc # "release"
  BY DEF AbortRequest, AbortHeldWakes, turnVars, CanCall
<1>2. CASE MaybeSettle(active, pendingTurns, held')
  BY <1>1, <1>2
  DEF MaybeSettle, Inv, Counters, PlaceOfTurn, Quiet, Exclusion, WaitersServed
<1>3. CASE UNCHANGED <<held, waiters>>
  BY <1>1, <1>3 DEF Inv, Counters, PlaceOfTurn, Quiet, Exclusion, WaitersServed
<1> QED
  BY <1>1, <1>2, <1>3

\* tryAcquireQuiescence() gives a lease only when nothing runs or waits to run.
LEMMA AcquireKeepsInv ==
  ASSUME Inv, AcquireQuiescence
  PROVE  Inv'
<1>1. /\ active = 0 /\ pendingTurns = <<>> /\ releasing = <<>>
      /\ pc \notin {"pump", "release", "started", "ended", "begin"}
  BY DEF AcquireQuiescence, CanLease, HasPendingRequests, Outside, CanCall, Publishing
<1>2. pc = "idle"
  BY <1>1 DEF Inv, PlaceOfTurn, Quiet
<1> QED
  BY <1>1, <1>2 DEF AcquireQuiescence, turnVars, Inv, Counters, PlaceOfTurn, Quiet, Exclusion,
     WaitersServed

\* releaseQuiescence() hands the held admissions to its loop.
LEMMA ReleaseKeepsInv ==
  ASSUME Inv, ReleaseQuiescence
  PROVE  Inv'
<1>1. /\ depth \in Nat /\ depth > 0 /\ depth' = depth - 1
      /\ pc = "idle" /\ active = 0 /\ releasing = <<>> /\ pendingTurns = <<>>
      /\ UNCHANGED <<turns, pendingTurns, active, disposing>>
  BY DEF ReleaseQuiescence, Leased, turnVars, Inv, Counters, PlaceOfTurn, Quiet, Exclusion
<1>2. CASE depth > 1 \/ disposing
  <2>1. UNCHANGED <<held, releasing, waiters, pc>>
    BY <1>2 DEF ReleaseQuiescence
  <2> QED
    BY <1>1, <2>1 DEF Inv, Counters, PlaceOfTurn, Quiet, Exclusion, WaitersServed
<1>3. CASE ~(depth > 1 \/ disposing)
  <2>1. pc' = "release" /\ MaybeSettle(active, pendingTurns, held)
    BY <1>1, <1>3 DEF ReleaseQuiescence
  <2> QED
    BY <1>1, <1>3, <2>1
    DEF MaybeSettle, Inv, Counters, PlaceOfTurn, Quiet, Exclusion, WaitersServed
<1> QED
  BY <1>2, <1>3

\* One held admission: a turn is made, or the loop of releaseQuiescence() goes on.
LEMMA AdmitHeldKeepsInv ==
  ASSUME Inv, AdmitHeld
  PROVE  Inv'
<1> DEFINE r == Head(releasing)
           p == IF active = 0 THEN "release" ELSE pc
<1>1. /\ releasing # <<>> /\ pc \notin {"pump", "begin", "started", "ended"}
      /\ UNCHANGED <<active, held, depth, disposing, waiters>>
  BY DEF AdmitHeld, Publishing
<1>2. depth = 0 /\ ~disposing
  BY <1>1 DEF Inv, Exclusion
<1>3. (active = 0 <=> p \in Quiet) /\ p # "pump" /\ (pc = "release" => p = "release" \/ active # 0)
  BY <1>1 DEF Inv, PlaceOfTurn, Quiet
<1>4. CASE Admit(r, kind[r], p)
  BY <1>1, <1>2, <1>3, <1>4, AdmitKeepsInv
<1>5. CASE pc' = p /\ UNCHANGED <<turns, pendingTurns>>
  BY <1>1, <1>2, <1>5 DEF Inv, Counters, PlaceOfTurn, Quiet, Exclusion, WaitersServed
<1> QED
  BY <1>4, <1>5 DEF AdmitHeld

\* dispose() wakes the waiters unless a turn is still active.
LEMMA DisposeKeepsInv ==
  ASSUME Inv, Dispose
  PROVE  Inv'
<1>1. /\ pendingTurns' = <<>> /\ held' = <<>> /\ MaybeSettle(active, <<>>, <<>>)
      /\ UNCHANGED <<turns, active, releasing, depth, pc>>
      /\ releasing = <<>> /\ pc \notin {"pump", "release"}
  BY DEF Dispose, Outside, CanCall, Publishing
<1> QED
  BY <1>1 DEF MaybeSettle, Inv, Counters, PlaceOfTurn, Quiet, Exclusion, WaitersServed

\* pumpTurns(): it may always pump when it was called for a queued turn or at the
\* end of releaseQuiescence(), and wakes the waiters if nothing is left.
LEMMA PumpKeepsInv ==
  ASSUME Inv, Pump
  PROVE  Inv'
<1>1. /\ pc \in {"pump", "ended", "release"} /\ (pc = "release" => releasing = <<>>)
      /\ UNCHANGED <<turns, held, releasing, depth, disposing>>
  BY DEF Pump
<1>2. active = 0 /\ depth = 0
  BY <1>1 DEF Inv, Counters, PlaceOfTurn, Quiet, Exclusion
<1>3. CASE ~MayPump /\ pc' = "idle" /\ UNCHANGED <<pendingTurns, active, waiters>>
  <2>1. pc = "ended"
    BY <1>1, <1>2, <1>3 DEF MayPump, Inv, Exclusion
  <2> QED
    BY <1>1, <1>2, <1>3, <2>1 DEF Inv, Counters, PlaceOfTurn, Quiet, Exclusion, WaitersServed
<1>4. CASE /\ pendingTurns = <<>> /\ MaybeSettle(active, pendingTurns, held)
           /\ pc' = "idle" /\ UNCHANGED <<pendingTurns, active>>
  BY <1>1, <1>2, <1>4
  DEF MaybeSettle, Inv, Counters, PlaceOfTurn, Quiet, Exclusion, WaitersServed
<1>5. CASE pendingTurns # <<>> /\ StartTurn
  <2>1. /\ pendingTurns' = Tail(pendingTurns) /\ active' = Head(pendingTurns)
        /\ pc' = "started" /\ waiters' = waiters
    BY <1>5 DEF StartTurn
  <2>2. pendingTurns \in Seq(Nat \ {0}) /\ pendingTurns # <<>>
    BY <1>5 DEF Inv, Counters
  <2>3. pendingTurns' \in Seq(Nat \ {0}) /\ active' # 0
    BY <2>1, <2>2
  <2> QED
    BY <1>1, <1>2, <2>1, <2>3
    DEF Inv, Counters, PlaceOfTurn, Quiet, Exclusion, WaitersServed
<1> QED
  BY <1>3, <1>4, <1>5 DEF Pump, runVars

\* releaseActiveTurn() wakes the waiters unless turns or admissions are left.
LEMMA EndKeepsInv ==
  ASSUME Inv, NEW type, ReleaseActiveTurn(type), pc \notin Quiet
  PROVE  Inv'
<1>1. /\ active' = 0 /\ pc' = "ended" /\ MaybeSettle(0, pendingTurns, held)
      /\ UNCHANGED <<turns, pendingTurns, held, releasing, depth, disposing>>
  BY DEF ReleaseActiveTurn
<1> QED
  BY <1>1 DEF MaybeSettle, Inv, Counters, PlaceOfTurn, Quiet, Exclusion, WaitersServed

\* Every public call keeps the invariant.
LEMMA CallKeepsInv ==
  ASSUME Inv, Call
  PROVE  Inv'
<1>1. CASE \E k \in SenderKinds : Enqueue(k)
  BY <1>1, EnqueueKeepsInv
<1>2. CASE CancelActive
  BY <1>2 DEF CancelActive, loopVars, Inv, Counters, PlaceOfTurn, Quiet, Exclusion, WaitersServed
<1>3. CASE \E i \in DOMAIN pendingTurns : CancelQueued(i)
  BY <1>3, CancelQueuedKeepsInv
<1>4. CASE \E r \in Reqs : CancelStep(r)
  BY <1>4 DEF CancelStep, turnVars, loopVars, Inv, Counters, PlaceOfTurn, Quiet, Exclusion,
     WaitersServed
<1>5. CASE \E r \in Reqs : AbortRequest(r)
  BY <1>5, AbortKeepsInv
<1>6. CASE AcquireQuiescence
  BY <1>6, AcquireKeepsInv
<1>7. CASE AwaitSettled
  BY <1>7 DEF AwaitSettled, turnVars, Inv, Counters, PlaceOfTurn, Quiet, Exclusion, WaitersServed
<1>8. CASE Dispose
  BY <1>8, DisposeKeepsInv
<1> QED
  BY <1>1, <1>2, <1>3, <1>4, <1>5, <1>6, <1>7, <1>8 DEF Call

\* Every continuation of the loop's own code keeps the invariant.
LEMMA RunStepsKeepInv ==
  ASSUME Inv, Run
  PROVE  Inv'
<1>1. CASE Pump
  BY <1>1, PumpKeepsInv
<1>2. CASE AdmitHeld
  BY <1>2, AdmitHeldKeepsInv
<1>3. CASE StartFails \/ EndTurn
  BY <1>3, EndKeepsInv DEF StartFails, EndTurn, Quiet
<1>4. CASE Begin
  <2>1. pc \notin Quiet /\ UNCHANGED <<loopVars, turns>>
    BY <1>4 DEF Begin, Quiet
  <2>2. pc' \notin Quiet
    BY <1>4 DEF Begin, BeginStep, Return, Quiet
  <2> QED
    BY <2>1, <2>2, RunKeepsInv
<1>5. CASE HookDone \/ \E e \in {"retryable", "fatal", "abort"} : StepFails(e)
  <2>1. pc \notin Quiet /\ pc' \notin Quiet
    BY <1>5, ThrowStays DEF HookDone, StepFails, Resumes, Quiet
  <2>2. UNCHANGED <<loopVars, turns>>
    BY <1>5 DEF HookDone, StepFails, RunFrame
  <2> QED
    BY <2>1, <2>2, RunKeepsInv
<1>6. CASE (\E f \in {"completed", "filtered"} : Answered(f)) \/ \E b \in BOOLEAN : ToolsDone(b)
  <2>1. pc \notin Quiet
    BY <1>6 DEF Answered, ToolsDone, Resumes, Quiet
  <2>2. PICK reason : FinishStep(reason)
    BY <1>6 DEF Answered, ToolsDone
  <2> QED
    BY <2>1, <2>2, FinishStays, RunKeepsInv
<1>7. CASE CallTools
  BY <1>7, RunKeepsInv DEF CallTools, Resumes, RunFrame, Quiet
<1>8. CASE \E b \in BOOLEAN : StepHooks(b)
  <2>1. PICK b \in BOOLEAN : StepHooks(b)
    BY <1>8
  <2>2. pc = "after"
    BY <2>1 DEF StepHooks, Resumes
  <2>3. active # 0 /\ depth = 0
    BY <2>2 DEF Inv, Counters, PlaceOfTurn, Quiet, Exclusion
  <2>4. CASE Submit(AskKind, "wrap") /\ ~disposing
    BY <2>2, <2>3, <2>4, SubmitKeepsInv DEF Quiet
  <2>5. CASE (Return("cancelled") \/ pc' = "wrap") /\ RunFrame
    BY <2>2, <2>5, RunKeepsInv DEF Return, RunFrame, Quiet
  <2> QED
    BY <2>1, <2>4, <2>5 DEF StepHooks
<1>9. CASE StepHookFails
  <2>1. pc \notin Quiet /\ pc' \notin Quiet
    BY <1>9, ThrowStays DEF StepHookFails, Resumes, Quiet
  <2> QED
    BY <1>9, <2>1, RunKeepsInv DEF StepHookFails, RunFrame
<1>10. CASE StepDone
  <2>1. pc \notin Quiet /\ pc' \notin Quiet
    BY <1>10 DEF StepDone, Resumes, Return, Quiet
  <2> QED
    BY <1>10, <2>1, RunKeepsInv DEF StepDone
<1>11. CASE Recovered \/ BackoffAborted
  <2>1. pc \notin Quiet /\ pc' \notin Quiet
    BY <1>11 DEF Recovered, BackoffAborted, Resumes, Return, Quiet
  <2> QED
    BY <1>11, <2>1, RunKeepsInv DEF Recovered, BackoffAborted, RunFrame
<1> QED
  BY <1>1, <1>2, <1>3, <1>4, <1>5, <1>6, <1>7, <1>8, <1>9, <1>10, <1>11 DEF Run

\* The invariant is inductive.
LEMMA StepKeepsInv ==
  ASSUME Inv, [Next]_vars
  PROVE  Inv'
<1>1. CASE UNCHANGED vars
  BY <1>1 DEF vars, turnVars, loopVars, Inv, Counters, PlaceOfTurn, Quiet, Exclusion, WaitersServed
<1> QED
  BY <1>1, CallKeepsInv, RunStepsKeepInv, ReleaseKeepsInv DEF Next

\* While a quiescence lease is held no turn is active or queued: the undo that
\* holds it has the context for itself, however many leases, held admissions,
\* cancellations and re-entrant calls there are.
THEOREM LeaseExclusive == Spec => []LeaseExcludesTurns
<1>1. Init => Inv
  BY InitInv
<1>2. Inv /\ [Next]_vars => Inv'
  BY StepKeepsInv
<1>3. Inv => LeaseExcludesTurns
  BY DEF Inv, PlaceOfTurn, Quiet, Exclusion, LeaseExcludesTurns
<1> QED
  BY <1>1, <1>2, <1>3, PTL DEF Spec

\* A settled() promise waits only for a turn, an admission or a release under way:
\* agentLifecycle.remove never waits for a wake-up that has already happened.
THEOREM NoLostWakeup == Spec => []WaitersServed
<1>1. Init => Inv
  BY InitInv
<1>2. Inv /\ [Next]_vars => Inv'
  BY StepKeepsInv
<1>3. Inv => WaitersServed
  BY DEF Inv
<1> QED
  BY <1>1, <1>2, <1>3, PTL DEF Spec

-----------------------------------------------------------------------------
(* Requests, steps and turns.                                                *)

\* The type invariant in parts.
ReqTypes ==
  /\ kind \in [Reqs -> Kinds \cup {"none"}]
  /\ rstate \in [Reqs -> {"none", "pending", "materialized", "aborted"}]
  /\ assign \in [Reqs -> {"none", "waiting", "resolved", "rejected"}]
  /\ job \in [Reqs -> Turns \cup {0}] /\ delivered \in [Reqs -> Nat]
  /\ step \in [Reqs -> {"none", "queued", "running", "completed", "cancelled"}]
  /\ result \in [Reqs -> {"open", "completed", "cancelled"}]
TurnTypes ==
  /\ tstate \in [Turns -> Terminal \cup {"none", "queued", "running"}]
  /\ queue \in [Turns -> Seq(Reqs)] /\ stop \in [Turns -> BOOLEAN]
LineTypes ==
  /\ pendingTurns \in Seq(Turns) /\ active \in Turns \cup {0}
  /\ standalone \in Seq(Reqs) /\ held \in Seq(Reqs) /\ releasing \in Seq(Reqs)
LoopTypes == depth \in 0..MaxLeases /\ disposing \in BOOLEAN /\ waiters \in 0..MaxWaiters
RunTypes ==
  /\ pc \in Pcs /\ steps \in Nat /\ current \in Reqs \cup {0}
  /\ finish \in {"completed", "filtered", "tool_calls", "stop"}
  /\ lastFailed \in Reqs \cup {0} /\ attempts \in 0..MaxAttempts /\ outcome \in Terminal
Types == ReqTypes /\ TurnTypes /\ LineTypes /\ LoopTypes /\ RunTypes

Waiting == Elems(held) \cup Elems(releasing) \cup Elems(standalone)
Ends == {"completed", "cancelled"}

\* What there is of a request: nothing before it is enqueued; an open promise as
\* long as it waits in a line of the loop; a job and a step once it is assigned.
KnownAt(r) ==
  /\ r > born <=> kind[r] = "none"
  /\ r > born <=> rstate[r] = "none"
  /\ r > born <=> assign[r] = "none"
  /\ job[r] # 0 <=> assign[r] = "resolved"
  /\ job[r] # 0 <=> step[r] # "none"
  /\ job[r] <= turns
WaitsAt(r) ==
  /\ assign[r] = "waiting" <=> rstate[r] = "pending" /\ r \in Waiting
  /\ r \in Waiting => r <= born /\ job[r] = 0 /\ rstate[r] # "materialized"
QueuedAt(r) == \A t \in Turns : r \in Elems(queue[t]) => job[r] = t

\* A step that is over has a settled result and a request that is over, only the
\* current driver's runs, and none survives its turn.
StepAt(r) ==
  /\ delivered[r] = IF rstate[r] = "materialized" THEN 1 ELSE 0
  /\ step[r] \in Ends => result[r] # "open" /\ rstate[r] # "pending"
  /\ step[r] = "running" => r = current
  /\ job[r] # 0 /\ tstate[job[r]] \in Terminal => step[r] \in Ends
RequestAt(r) == KnownAt(r) /\ WaitsAt(r) /\ QueuedAt(r) /\ StepAt(r)

\* The driver of the step under way belongs to the active turn and was delivered.
CurrentAt ==
  /\ current # 0 =>
       /\ active # 0 /\ job[current] = active /\ rstate[current] = "materialized"
       /\ step[current] \in {"running", "cancelled"}
       /\ MaxSteps > 0 /\ steps > MaxSteps => kind[current] = "landing"
  /\ pc \in {"started", "begin", "resume"} => current = 0
  /\ pc \in {"hook", "llm", "tools", "after", "wrap", "recover"} => current # 0

Ordered(s) == \A i, j \in DOMAIN s : i < j => s[i] < s[j]

\* A request waits in one line, and in one place of those of a lease.
LinesApart ==
  /\ Ordered(held) /\ Ordered(releasing)
  /\ Elems(held) \cap Elems(releasing) = {}
  /\ Elems(standalone) \cap (Elems(held) \cup Elems(releasing)) = {}

\* The queue of turns ascends and holds exactly the turns that are queued.
TurnsInOrder ==
  /\ Ordered(pendingTurns)
  /\ \A t \in Turns : tstate[t] = "none" <=> t > turns
  /\ \A t \in Turns : tstate[t] = "queued" <=> t \in Elems(pendingTurns)
  /\ \A t \in Turns : tstate[t] = "running" <=> t = active

\* Requests come from senders or from the aspects, and each turn was made for one of
\* the former: the bounds on both bound the numbers of requests and turns.  When the
\* model calls tools there is room for the continuation that it will ask for.
Senders == {r \in Reqs : kind[r] \in SenderKinds}
Asked == {r \in Reqs : kind[r] \in {"continuation", "landing"}}
Room == pc = "tools" \/ (pc = "after" /\ finish = "tool_calls") => Cardinality(Asked) < MaxConts
Counted ==
  /\ Room
  /\ born \in 0..(MaxSent + MaxConts) /\ turns \in 0..MaxSent
  /\ 1..born \subseteq Senders \cup Asked
  /\ Cardinality(Senders) <= MaxSent /\ Cardinality(Asked) <= MaxConts
  /\ \A t \in 1..turns : \E r \in Senders : job[r] = t

Requests == \A r \in Reqs : RequestAt(r)
LoopInv == Inv /\ Types /\ Requests /\ LinesApart /\ CurrentAt /\ TurnsInOrder /\ Counted

\* Numbers of requests and turns begin with 1.
LEMMA Numbers ==
  /\ Reqs \subseteq Nat \ {0} /\ Turns \subseteq Nat \ {0} /\ 0 \notin Reqs /\ 0 \notin Turns
  /\ Reqs \cup {0} = 0..(MaxSent + MaxConts) /\ Turns \cup {0} = 0..MaxSent
  /\ IsFiniteSet(Reqs) /\ IsFiniteSet(Turns)
  /\ \A n \in Nat : n < MaxSent => n + 1 \in Turns
  /\ \A n \in Nat : n < MaxSent + MaxConts => n + 1 \in Reqs
  /\ \A n \in Nat : n <= MaxSent + MaxConts => \A i \in 1..n : i \in Reqs
<1>1. MaxSent \in Nat /\ MaxConts \in Nat
  BY LoopAssumption
<1>2. IsFiniteSet(Reqs)
  BY <1>1, FS_Interval, 1 \in Int, MaxSent + MaxConts \in Int DEF Reqs
<1>3. IsFiniteSet(Turns)
  BY <1>1, FS_Interval, 1 \in Int, MaxSent \in Int DEF Turns
<1> QED
  BY <1>1, <1>2, <1>3 DEF Reqs, Turns

\* The type invariant follows.
LEMMA TypesHold ==
  ASSUME Types, Counted
  PROVE  TypeOK
BY Numbers DEF Types, ReqTypes, TurnTypes, LineTypes, LoopTypes, RunTypes, Counted, TypeOK

\* There is a number left for a request that a sender may still send, or that an
\* aspect may still ask for.
LEMMA RoomForRequest ==
  ASSUME Counted, Cardinality(Senders) < MaxSent \/ Cardinality(Asked) < MaxConts
  PROVE  born + 1 \in Reqs
<1>1. /\ IsFiniteSet(Senders) /\ IsFiniteSet(Asked)
      /\ Cardinality(Senders) \in Nat /\ Cardinality(Asked) \in Nat
  BY Numbers, FS_Subset, FS_CardinalityType DEF Senders, Asked
<1>2. /\ IsFiniteSet(Senders \cup Asked) /\ Cardinality(Senders \cap Asked) \in Nat
      /\ Cardinality(Senders \cup Asked)
           = Cardinality(Senders) + Cardinality(Asked) - Cardinality(Senders \cap Asked)
  BY <1>1, FS_Union, FS_Subset, FS_CardinalityType, Senders \cap Asked \in SUBSET Senders
<1>3. Cardinality(1..born) <= Cardinality(Senders \cup Asked)
  BY <1>2, FS_Subset DEF Counted
<1>4. born \in Nat /\ Cardinality(1..born) = born
  BY FS_Interval, 1 \in Int, born \in Int DEF Counted
<1>5. Cardinality(Senders \cup Asked) \in Nat
  BY <1>2, FS_CardinalityType
<1>6. MaxSent \in Nat /\ MaxConts \in Nat
  BY LoopAssumption
<1>7. born < MaxSent + MaxConts
  BY <1>1, <1>2, <1>3, <1>4, <1>5, <1>6 DEF Counted
<1> QED
  BY <1>4, <1>7, Numbers

\* There is a number left for the turn that a sender's request without a job asks for.
LEMMA RoomForTurn ==
  ASSUME Counted, Requests,
         \/ Cardinality(Senders) < MaxSent
         \/ \E r \in Senders : job[r] = 0
  PROVE  turns + 1 \in Turns
<1> DEFINE S == {r \in Senders : job[r] \in 1..turns}
           f == [r \in S |-> job[r]]
<1>0. turns \in Nat /\ MaxSent \in Nat
  BY LoopAssumption DEF Counted
<1>1. IsFiniteSet(Senders) /\ Cardinality(Senders) \in Nat
  BY Numbers, FS_Subset, FS_CardinalityType DEF Senders
<1>2. IsFiniteSet(S) /\ Cardinality(S) <= Cardinality(Senders) /\ Cardinality(S) \in Nat
      /\ (Cardinality(Senders) = Cardinality(S) => Senders = S)
  BY <1>1, FS_Subset, FS_CardinalityType
<1>3. f \in Surjection(S, 1..turns)
  <2>1. f \in [S -> 1..turns]
    OBVIOUS
  <2>2. \A t \in 1..turns : \E r \in S : f[r] = t
    BY DEF Counted
  <2> QED
    BY <2>1, <2>2 DEF Surjection
<1>4. Cardinality(1..turns) <= Cardinality(S)
  BY <1>2, <1>3, FS_Surjection
<1>5. Cardinality(1..turns) = turns
  BY <1>0, FS_Interval, 1 \in Int, turns \in Int
<1>6. (\E r \in Senders : job[r] = 0) => Cardinality(S) # Cardinality(Senders)
  BY <1>2
<1>7. turns < MaxSent
  BY <1>0, <1>1, <1>2, <1>4, <1>5, <1>6 DEF Counted
<1> QED
  BY <1>0, <1>7, Numbers

\* What is pushed to an ascending line keeps it so if it is newer than all of it.
LEMMA AppendOrdered ==
  ASSUME NEW s \in Seq(Nat), Ordered(s), NEW x \in Nat, \A y \in Elems(s) : y < x
  PROVE  Ordered(Append(s, x))
<1>1. PICK u : u = Append(s, x)
  OBVIOUS
<1>2. PICK n \in Nat : n = Len(s)
  OBVIOUS
<1>3. DOMAIN s = 1..n /\ DOMAIN u = 1..(n + 1) /\ u[n + 1] = x /\ \A i \in 1..n : u[i] = s[i] /\ s[i] < x
  BY <1>1, <1>2 DEF Elems
<1>4. ASSUME NEW i \in 1..(n + 1), NEW j \in 1..(n + 1), i < j
      PROVE  u[i] < u[j]
  <2>1. i \in 1..n
    BY <1>4
  <2>2. j \in 1..n \/ j = n + 1
    BY <1>4
  <2> QED
    BY <1>3, <1>4, <2>1, <2>2 DEF Ordered
<1> QED
  BY <1>1, <1>3, <1>4 DEF Ordered

\* The sequence of one element.
LEMMA OneElem ==
  ASSUME NEW T, NEW x \in T
  PROVE  <<x>> \in Seq(T) /\ Elems(<<x>>) = {x}
<1>1. <<x>> \in Seq(T)
  OBVIOUS
<1>2. DOMAIN <<x>> = {1} /\ <<x>>[1] = x
  OBVIOUS
<1> QED
  BY <1>1, <1>2 DEF Elems

\* StepRequestQueue without what was aborted.
LEMMA LiveFacts ==
  ASSUME NEW s \in Seq(Reqs)
  PROVE  /\ Live(s) \in Seq(Reqs) /\ Elems(s) \subseteq Reqs
         /\ Elems(Live(s)) = {q \in Elems(s) : rstate[q] # "aborted"}
<1>1. Live(s) \in Seq(Reqs) /\ Elems(Live(s)) = Elems(s) \ {r \in Reqs : rstate[r] = "aborted"}
  BY WithoutElems DEF Live
<1>2. Elems(s) \subseteq Reqs
  BY DEF Elems
<1> QED
  BY <1>1, <1>2

\* The requests of G get a step each in turn t.
Assigns(t, G) ==
  /\ queue' \in [Turns -> Seq(Reqs)]
  /\ \A u \in Turns : Elems(queue'[u]) = IF u = t THEN Elems(queue[u]) \cup G ELSE Elems(queue[u])
  /\ job' = [q \in Reqs |-> IF q \in G THEN t ELSE job[q]]
  /\ step' = [q \in Reqs |-> IF q \in G THEN "queued" ELSE step[q]]
  /\ assign' = [q \in Reqs |-> IF q \in G THEN "resolved" ELSE assign[q]]

\* assignStep() of a sequence.
LEMMA AssignFacts ==
  ASSUME TurnTypes, NEW t \in Turns, NEW rs \in Seq(Reqs), AssignSteps(t, rs)
  PROVE  Assigns(t, Elems(rs))
<1>1. queue \in [Turns -> Seq(Reqs)] /\ queue' = [queue EXCEPT ![t] = @ \o rs]
  BY DEF TurnTypes, AssignSteps
<1>2. PICK q \in Seq(Reqs) : q = queue[t]
  BY <1>1
<1>3. q \o rs \in Seq(Reqs) /\ Elems(q \o rs) = Elems(q) \cup Elems(rs)
  BY ConcatElems
<1>4. queue' \in [Turns -> Seq(Reqs)] /\ queue'[t] = q \o rs /\ \A u \in Turns \ {t} : queue'[u] = queue[u]
  BY <1>1, <1>2, <1>3
<1>5. \A u \in Turns : Elems(queue'[u]) = IF u = t THEN Elems(queue[u]) \cup Elems(rs) ELSE Elems(queue[u])
  BY <1>2, <1>3, <1>4
<1> QED
  BY <1>4, <1>5 DEF Assigns, AssignSteps

\* admit() assigns the request to a new turn, with what was standing by, or to the
\* active one, or lets it stand by.
NewTurn(r) ==
  /\ turns + 1 \in Turns /\ turns' = turns + 1
  /\ Assigns(turns + 1, {r} \cup {q \in Elems(standalone) : rstate[q] # "aborted"})
  /\ tstate' = [tstate EXCEPT ![turns + 1] = "queued"]
  /\ pendingTurns' = Append(pendingTurns, turns + 1)
  /\ standalone' = <<>>
  /\ pc' = IF active = 0 THEN "pump" ELSE pc
Joins(r) ==
  /\ active # 0 /\ Assigns(active, {r})
  /\ UNCHANGED <<turns, tstate, standalone, pendingTurns>>
StandsBy(r) ==
  /\ active = 0
  /\ standalone' = Append(standalone, r) /\ assign' = [assign EXCEPT ![r] = "waiting"]
  /\ UNCHANGED <<queue, job, step, turns, tstate, pendingTurns>>

\* An admission does one of the three: it opens a turn, joins the active one, or stands by.
LEMMA AdmitFacts ==
  ASSUME TurnTypes, LineTypes, NEW r \in Reqs, NEW k \in Kinds, NEW p, Admit(r, k, p),
         k \in {"prompt", "notification"} => turns + 1 \in Turns
  PROVE  NewTurn(r) \/ (Joins(r) /\ pc' = p) \/ (StandsBy(r) /\ pc' = p)
<1>1. CASE Admission(k) \in {"newTurn", "activeOrNewTurn"} /\ CreateAndQueueTurn(r)
  <2>1. k \in {"prompt", "notification"}
    BY <1>1 DEF Admission, Kinds
  <2>2. turns + 1 \in Turns /\ standalone \in Seq(Reqs)
    BY <2>1 DEF LineTypes
  <2>3. PICK w \in Seq(Reqs) : w = Live(standalone)
    BY <2>2, LiveFacts
  <2>4. PICK v : v = <<r>>
    OBVIOUS
  <2>5. v \in Seq(Reqs) /\ Elems(v) = {r}
    BY <2>4, OneElem
  <2>6. v \o w \in Seq(Reqs) /\ Elems(v \o w) = {r} \cup Elems(w)
    BY <2>3, <2>5, ConcatElems
  <2>7. AssignSteps(turns + 1, v \o w)
    BY <1>1, <2>3, <2>4 DEF CreateAndQueueTurn, CreatePendingTurn
  <2>8. Assigns(turns + 1, Elems(v \o w))
    BY <2>2, <2>6, <2>7, AssignFacts
  <2>9. {r} \cup Elems(w) = {r} \cup {q \in Elems(standalone) : rstate[q] # "aborted"}
    BY <2>2, <2>3, LiveFacts
  <2>10. Assigns(turns + 1, {r} \cup {q \in Elems(standalone) : rstate[q] # "aborted"})
    BY <2>6, <2>8, <2>9
  <2> QED
    BY <1>1, <2>2, <2>10 DEF NewTurn, CreateAndQueueTurn, CreatePendingTurn, QueueTurn, QueuedPumped
<1>2. CASE /\ active # 0 /\ AssignSteps(active, <<r>>) /\ pc' = p
           /\ UNCHANGED <<turns, tstate, standalone, pendingTurns>>
  <2>1. PICK v : v = <<r>>
    OBVIOUS
  <2>2. v \in Seq(Reqs) /\ Elems(v) = {r} /\ active \in Turns
    BY <1>2, <2>1, OneElem DEF LineTypes
  <2>3. Assigns(active, Elems(v))
    BY <1>2, <2>1, <2>2, AssignFacts
  <2> QED
    BY <1>2, <2>2, <2>3 DEF Joins
<1>3. CASE StandsBy(r) /\ pc' = p
  BY <1>3
<1> QED
  BY <1>1, <1>2, <1>3 DEF Admit, StandsBy

\* A request that stays as it is.
LEMMA RequestKept ==
  ASSUME NEW q \in Reqs, RequestAt(q), LineTypes,
         kind'[q] = kind[q], rstate'[q] = rstate[q], assign'[q] = assign[q], job'[q] = job[q],
         step'[q] = step[q], result'[q] = result[q], delivered'[q] = delivered[q],
         q > born' <=> q > born, turns <= turns', job[q] \in Nat, turns \in Nat, turns' \in Nat,
         born \in Nat, born' \in Nat,
         \/ q \in Waiting' <=> q \in Waiting
         \/ rstate[q] # "pending" /\ (q \in Waiting' => q \in Waiting),
         \A u \in Turns : q \in Elems(queue'[u]) => q \in Elems(queue[u]) \/ job[q] = u,
         step[q] = "running" => q = current',
         job[q] # 0 /\ tstate'[job[q]] \in Terminal =>
           tstate[job[q]] \in Terminal \/ step[q] \in Ends
  PROVE  RequestAt(q)'
<1>0. q \in Nat
  BY Numbers
<1>1. KnownAt(q)'
  BY <1>0 DEF RequestAt, KnownAt
<1>2. WaitsAt(q)'
  BY <1>0 DEF RequestAt, WaitsAt, KnownAt
<1>3. QueuedAt(q)'
  BY DEF RequestAt, QueuedAt
<1>4. StepAt(q)'
  BY DEF RequestAt, StepAt
<1> QED
  BY <1>1, <1>2, <1>3, <1>4 DEF RequestAt

-----------------------------------------------------------------------------
(* What settles requests.                                                  *)

\* What is left of requests and queues when some requests with a job may be aborted.
Drops ==
  /\ queue' \in [Turns -> Seq(Reqs)]
  /\ rstate' \in [Reqs -> {"none", "pending", "materialized", "aborted"}]
  /\ \A u \in Turns : Elems(queue'[u]) \subseteq Elems(queue[u])
  /\ \A q \in Reqs :
       rstate'[q] = rstate[q] \/ (rstate[q] = "pending" /\ rstate'[q] = "aborted" /\ job[q] # 0)

\* What Step.cancel(), the end of a run and what touches no request have in common:
\* besides, some steps may come to an end.
Settles ==
  /\ Drops
  /\ step' \in [Reqs -> {"none", "queued", "running", "completed", "cancelled"}]
  /\ result' \in [Reqs -> {"open", "completed", "cancelled"}]
  /\ \A q \in Reqs :
       \/ step'[q] = step[q] /\ result'[q] = result[q]
       \/ /\ step[q] # "none" /\ step'[q] \in Ends
          /\ result'[q] # "open" /\ rstate'[q] # "pending"

\* One request under such a step.
LEMMA RequestSettles ==
  ASSUME NEW q \in Reqs, RequestAt(q), Settles, Waiting' = Waiting,
         UNCHANGED <<born, kind, assign, job, delivered, turns>>,
         step'[q] = "running" => q = current',
         job[q] # 0 /\ tstate'[job[q]] \in Terminal =>
           tstate[job[q]] \in Terminal \/ step'[q] \in Ends
  PROVE  RequestAt(q)'
<1>1. rstate'[q] = rstate[q] \/ (rstate[q] = "pending" /\ rstate'[q] = "aborted" /\ job[q] # 0)
  BY DEF Settles, Drops
<1>2. \/ step'[q] = step[q] /\ result'[q] = result[q]
      \/ /\ step[q] # "none" /\ step'[q] \in Ends
         /\ result'[q] # "open" /\ rstate'[q] # "pending"
  BY DEF Settles
<1>3. KnownAt(q)'
  BY <1>1, <1>2 DEF RequestAt, KnownAt, Ends
<1>4. WaitsAt(q)'
  BY <1>1 DEF RequestAt, WaitsAt
<1>5. QueuedAt(q)'
  BY DEF RequestAt, QueuedAt, Settles, Drops
<1>6. StepAt(q)'
  BY <1>1, <1>2 DEF RequestAt, StepAt, Ends
<1> QED
  BY <1>3, <1>4, <1>5, <1>6 DEF RequestAt

\* Nothing of it happens.
LEMMA NothingSettles ==
  ASSUME Types, UNCHANGED <<rstate, step, result, queue>>
  PROVE  Settles
BY DEF Types, ReqTypes, TurnTypes, Settles, Drops

\* Step.cancel() of some steps.
LEMMA CancelSettles ==
  ASSUME Types, Requests, NEW C \in SUBSET Reqs, CancelSteps(C),
         queue' \in [Turns -> Seq(Reqs)],
         \A u \in Turns : Elems(queue'[u]) \subseteq Elems(queue[u])
  PROVE  Settles
<1>1. PICK open : open = {r \in C : step[r] \in {"queued", "running"}}
  OBVIOUS
<1>2. /\ step' = [r \in Reqs |-> IF r \in open THEN "cancelled" ELSE step[r]]
      /\ result' = [r \in Reqs |-> IF r \in open /\ result[r] = "open" THEN "cancelled" ELSE result[r]]
      /\ rstate' = Aborted(open)
  BY <1>1 DEF CancelSteps
<1>3. /\ rstate' \in [Reqs -> {"none", "pending", "materialized", "aborted"}]
      /\ step' \in [Reqs -> {"none", "queued", "running", "completed", "cancelled"}]
      /\ result' \in [Reqs -> {"open", "completed", "cancelled"}]
  BY <1>2 DEF Aborted, Types, ReqTypes
<1>4. ASSUME NEW q \in Reqs
      PROVE  rstate'[q] = rstate[q] \/ (rstate[q] = "pending" /\ rstate'[q] = "aborted" /\ job[q] # 0)
  <2>1. q \in open => job[q] # 0
    BY <1>1 DEF Requests, RequestAt, KnownAt
  <2> QED
    BY <1>2, <2>1 DEF Aborted
<1>5. ASSUME NEW q \in Reqs
      PROVE  \/ step'[q] = step[q] /\ result'[q] = result[q]
             \/ /\ step[q] \in {"queued", "running"} /\ step'[q] \in Ends
                /\ result'[q] # "open" /\ rstate'[q] # "pending"
  BY <1>1, <1>2 DEF Aborted, Ends
<1> QED
  BY <1>3, <1>4, <1>5 DEF Settles, Drops

\* run() returns: what is left of the turn's own requests is aborted.
LEMMA ReturnDrops ==
  ASSUME Types, Requests, active # 0, NEW type, Return(type)
  PROVE  Drops
<1>1. PICK D : D = {r \in Elems(queue[active]) : TurnScoped(kind[r]) /\ rstate[r] = "pending"}
  OBVIOUS
<1>2. PICK A : A = {r \in Reqs : rstate'[r] = "aborted"}
  OBVIOUS
<1>3. rstate' = Aborted(D) /\ queue' = [queue EXCEPT ![active] = Without(@, A)]
  BY <1>1, <1>2 DEF Return
<1>4. active \in Turns /\ queue \in [Turns -> Seq(Reqs)]
  BY DEF Types, LineTypes, TurnTypes
<1>5. PICK s \in Seq(Reqs) : s = queue[active]
  BY <1>4
<1>6. Without(s, A) \in Seq(Reqs) /\ Elems(Without(s, A)) \subseteq Elems(s)
  BY WithoutElems
<1>7. /\ queue' \in [Turns -> Seq(Reqs)] /\ queue'[active] = Without(s, A)
      /\ \A u \in Turns \ {active} : queue'[u] = queue[u]
  BY <1>3, <1>4, <1>5, <1>6
<1>8. \A u \in Turns : Elems(queue'[u]) \subseteq Elems(queue[u])
  BY <1>5, <1>6, <1>7
<1>9. \A q \in Reqs : q \in D => job[q] # 0
  BY <1>1, <1>4, Numbers DEF Requests, RequestAt, QueuedAt
<1>10. rstate' \in [Reqs -> {"none", "pending", "materialized", "aborted"}]
  BY <1>3 DEF Aborted, Types, ReqTypes
<1>11. \A q \in Reqs :
         rstate'[q] = rstate[q] \/ (rstate[q] = "pending" /\ rstate'[q] = "aborted" /\ job[q] # 0)
  BY <1>3, <1>9 DEF Aborted
<1> QED
  BY <1>7, <1>8, <1>10, <1>11 DEF Drops

\* The places of the run between taking a step and the end of it.
InStep == {"hook", "llm", "tools", "after", "wrap", "recover"}

\* The lines of turns and requests, and what counts them, stay as they are.
Still ==
  UNCHANGED <<born, kind, assign, job, turns, tstate, pendingTurns, active, standalone,
              held, releasing>>

\* A step that is still, and keeps to its room, keeps the parts of the invariant about lines.
LEMMA StillHolds ==
  ASSUME LoopInv, Still, Room'
  PROVE  LineTypes' /\ LinesApart' /\ TurnsInOrder' /\ Counted' /\ Waiting' = Waiting
<1>1. LineTypes' /\ Waiting' = Waiting
  BY DEF LoopInv, Types, LineTypes, Still, Waiting
<1>2. LinesApart'
  BY DEF LoopInv, LinesApart, Still
<1>3. TurnsInOrder'
  BY DEF LoopInv, TurnsInOrder, Still
<1>4. Senders' = Senders /\ Asked' = Asked
  BY DEF Still, Senders, Asked
<1>5. Counted'
  BY <1>4 DEF LoopInv, Counted, Still
<1> QED
  BY <1>1, <1>2, <1>3, <1>5

\* A step that only settles requests, and gives up the current driver only if its
\* step is over.
LEMMA CarriedOn ==
  ASSUME LoopInv, Inv', Settles, Still, UNCHANGED <<steps, delivered>>,
         stop' \in [Turns -> BOOLEAN], LoopTypes', RunTypes', Room',
         \/ /\ current' = current
            /\ current # 0 => step'[current] # "completed"
            /\ pc' \in {"started", "begin", "resume"} => current = 0
            /\ pc' \in InStep => current # 0
         \/ current' = 0 /\ step'[current] # "running" /\ pc' \notin InStep
  PROVE  LoopInv'
<1>1. LineTypes' /\ LinesApart' /\ TurnsInOrder' /\ Counted' /\ Waiting' = Waiting
  BY StillHolds
<1>2. ReqTypes' /\ TurnTypes'
  BY DEF LoopInv, Types, ReqTypes, TurnTypes, Still, Settles, Drops
<1>3. ASSUME NEW q \in Reqs
      PROVE  RequestAt(q)'
  <2>1. RequestAt(q)
    BY DEF LoopInv, Requests
  <2>2. step'[q] = "running" => step[q] = "running" /\ q = current /\ q = current'
    BY <2>1 DEF Settles, RequestAt, StepAt, Ends
  <2>3. tstate' = tstate /\ UNCHANGED <<born, kind, assign, job, delivered, turns>>
    BY DEF Still
  <2> QED
    BY <1>1, <2>1, <2>2, <2>3, RequestSettles
<1>4. CurrentAt'
  <2>1. CASE current' = 0
    BY <2>1 DEF CurrentAt, InStep
  <2>2. CASE current' = current /\ current # 0
    <3>1. current \in Reqs
      BY <2>2 DEF LoopInv, Types, RunTypes
    <3>2. rstate'[current] = rstate[current] /\ step'[current] \in {"running", "cancelled"}
      BY <2>2, <3>1 DEF LoopInv, CurrentAt, Settles, Drops, Ends
    <3> QED
      BY <2>2, <3>2 DEF LoopInv, CurrentAt, Still
  <2> QED
    BY <2>1, <2>2
<1> QED
  BY <1>1, <1>2, <1>3, <1>4 DEF LoopInv, Types, Requests

-----------------------------------------------------------------------------
(* The steps of a run.                                                     *)

\* A step of the run that leaves all but the queue of its turn alone, on its way from
\* pc to pc'.
RunMoves ==
  /\ (\E type \in Terminal : Return(type)) \/ (UNCHANGED <<rstate, queue, outcome>> /\ pc' # "returning")
  /\ \/ current' = current /\ pc' \in (InStep \cup {"returning"})
     \/ current' = 0 /\ step[current] = "cancelled" /\ pc' = "resume"
  /\ lastFailed' \in Reqs \cup {0} /\ attempts' \in 0..MaxAttempts

\* handleLoopStepError().
LEMMA ThrowMoves ==
  ASSUME LoopInv, NEW e, Throw(e)
  PROVE  RunMoves /\ pc' \in {"returning", "resume", "recover"}
<1>1. attempts \in 0..MaxAttempts /\ MaxAttempts \in Nat \ {0} /\ stop \in [Turns -> BOOLEAN]
      /\ lastFailed \in Reqs \cup {0} /\ current \in Reqs \cup {0}
  BY LoopAssumption DEF LoopInv, Types, RunTypes, TurnTypes
<1>2. ASSUME NEW type \in {"cancelled", "failed"}, Return(type), current' = current,
             lastFailed' \in Reqs \cup {0}, attempts' \in 0..MaxAttempts
      PROVE  RunMoves /\ pc' \in {"returning", "resume", "recover"}
  <2>1. pc' = "returning" /\ type \in Terminal
    BY <1>2 DEF Return, Terminal
  <2> QED
    BY <1>2, <2>1 DEF RunMoves
<1>3. CASE /\ step[current] = "cancelled" /\ current' = 0 /\ pc' = "resume"
           /\ UNCHANGED <<rstate, queue, outcome, lastFailed, attempts>>
  BY <1>1, <1>3 DEF RunMoves
<1>4. CASE Return("cancelled") /\ UNCHANGED <<current, lastFailed, attempts>>
  BY <1>1, <1>2, <1>4
<1>5. CASE /\ FailedAttempts < MaxAttempts /\ lastFailed' = current /\ attempts' = FailedAttempts
           /\ pc' = "recover" /\ UNCHANGED <<rstate, queue, outcome, current>>
  <2>1. FailedAttempts \in 0..MaxAttempts
    BY <1>1, <1>5 DEF FailedAttempts
  <2> QED
    BY <1>1, <1>5, <2>1 DEF RunMoves, InStep
<1>6. CASE ResetAttempts /\ Return("failed") /\ UNCHANGED current
  <2>1. lastFailed' \in Reqs \cup {0} /\ attempts' \in 0..MaxAttempts
    BY <1>1, <1>6 DEF ResetAttempts
  <2> QED
    BY <1>2, <1>6, <2>1
<1>7. CASE Return("failed") /\ UNCHANGED <<current, lastFailed, attempts>>
  BY <1>1, <1>2, <1>7
<1> QED
  BY <1>3, <1>4, <1>5, <1>6, <1>7 DEF Throw

\* Steps of the run that neither begin nor complete a step.
LEMMA RunMovesKeep ==
  ASSUME LoopInv, Inv', RunMoves, RunFrame, UNCHANGED step, pc \in InStep,
         finish' \in {"completed", "filtered", "tool_calls", "stop"}, Room'
  PROVE  LoopInv'
<1>1. current # 0 /\ active # 0
  BY DEF LoopInv, CurrentAt, InStep
<1>2. Settles
  <2>1. CASE \E type \in Terminal : Return(type)
    <3>1. Drops
      BY <1>1, <2>1, ReturnDrops DEF LoopInv
    <3> QED
      BY <3>1 DEF LoopInv, Types, ReqTypes, RunFrame, Settles
  <2>2. CASE UNCHANGED <<rstate, queue>>
    BY <2>2, NothingSettles DEF LoopInv, RunFrame
  <2> QED
    BY <2>1, <2>2 DEF RunMoves
<1>3. /\ Still /\ UNCHANGED <<steps, delivered>> /\ stop' \in [Turns -> BOOLEAN] /\ LoopTypes'
  BY DEF RunFrame, loopVars, Still, LoopInv, Types, TurnTypes, LoopTypes
<1>4. outcome' \in Terminal
  BY DEF RunMoves, Return, LoopInv, Types, RunTypes
<1>5. current' \in Reqs \cup {0} /\ pc' \in Pcs
  BY DEF RunMoves, LoopInv, Types, RunTypes, InStep, Pcs
<1>6. RunTypes'
  BY <1>3, <1>4, <1>5 DEF RunMoves, LoopInv, Types, RunTypes
<1>7. \/ /\ current' = current
         /\ current # 0 => step'[current] # "completed"
         /\ pc' \in {"started", "begin", "resume"} => current = 0
         /\ pc' \in InStep => current # 0
      \/ current' = 0 /\ step'[current] # "running" /\ pc' \notin InStep
  BY <1>1 DEF RunMoves, InStep, LoopInv, CurrentAt
<1> QED
  BY <1>2, <1>3, <1>6, <1>7, CarriedOn

\* What leaves the room for a continuation alone.
LEMMA NoRoomNeeded ==
  ASSUME pc' \notin {"tools", "after"}
  PROVE  Room'
BY DEF Room

\* A step of the run that does nothing but move on.
LEMMA GoesOn ==
  ASSUME LoopInv, pc' \in InStep, UNCHANGED <<rstate, queue, outcome, current>>,
         UNCHANGED <<lastFailed, attempts>> \/ ResetAttempts
  PROVE  RunMoves
<1>1. 0 \in 0..MaxAttempts
  BY LoopAssumption
<1> QED
  BY <1>1 DEF LoopInv, Types, RunTypes, RunMoves, ResetAttempts, InStep

\* onWillBeginStep ran.
LEMMA HookDoneKeeps ==
  ASSUME LoopInv, Inv', HookDone
  PROVE  LoopInv'
<1>1. pc = "hook" /\ UNCHANGED <<step, finish>> /\ RunFrame
  BY DEF HookDone, Resumes
<1>2. RunMoves /\ pc' \in {"returning", "resume", "recover", "llm"}
  <2>1. CASE Throw("abort")
    BY <2>1, ThrowMoves
  <2>2. CASE pc' = "llm" /\ UNCHANGED <<rstate, queue, outcome, current, lastFailed, attempts>>
    BY <2>2, GoesOn DEF InStep
  <2> QED
    BY <2>1, <2>2 DEF HookDone
<1>3. finish' \in {"completed", "filtered", "tool_calls", "stop"}
  BY <1>1 DEF LoopInv, Types, RunTypes
<1> QED
  BY <1>1, <1>2, <1>3, RunMovesKeep, NoRoomNeeded DEF InStep

\* A hook, the model or a tool fails.
LEMMA StepFailsKeeps ==
  ASSUME LoopInv, Inv', NEW e, StepFails(e)
  PROVE  LoopInv'
<1>1. pc \in {"hook", "llm", "tools"} /\ UNCHANGED <<step, finish>> /\ RunFrame /\ Throw(e)
  BY DEF StepFails, Resumes
<1>2. RunMoves /\ pc' \in {"returning", "resume", "recover"}
  BY <1>1, ThrowMoves
<1>3. finish' \in {"completed", "filtered", "tool_calls", "stop"}
  BY <1>1 DEF LoopInv, Types, RunTypes
<1> QED
  BY <1>1, <1>2, <1>3, RunMovesKeep, NoRoomNeeded DEF InStep

\* finishStep(), with a reason that asks for another step only after tool calls.
LEMMA FinishStepKeeps ==
  ASSUME LoopInv, Inv', pc \in {"llm", "tools"}, NEW reason \in {"completed", "filtered", "tool_calls"},
         reason = "tool_calls" => pc = "tools", FinishStep(reason)
  PROVE  LoopInv'
<1>1. UNCHANGED step /\ RunFrame /\ finish' = reason
  BY DEF FinishStep
<1>2. RunMoves /\ pc' \in {"returning", "resume", "recover", "after"}
  <2>1. CASE Throw("abort")
    BY <2>1, ThrowMoves
  <2>2. CASE pc' = "after" /\ UNCHANGED <<rstate, queue, outcome, current, lastFailed, attempts>>
    BY <2>2, GoesOn DEF InStep
  <2> QED
    BY <2>1, <2>2 DEF FinishStep
<1>3. Asked' = Asked
  BY <1>1 DEF Asked, RunFrame
<1>4. Room'
  BY <1>1, <1>2, <1>3 DEF LoopInv, Counted, Room
<1> QED
  BY <1>1, <1>2, <1>4, RunMovesKeep DEF InStep

\* The model asks for tool calls.
LEMMA CallToolsKeeps ==
  ASSUME LoopInv, Inv', CallTools
  PROVE  LoopInv'
<1>1. pc = "llm" /\ pc' = "tools" /\ UNCHANGED <<step, finish>> /\ RunFrame
      /\ Cardinality(Asked) < MaxConts
      /\ UNCHANGED <<rstate, queue, outcome, current, lastFailed, attempts>>
  BY DEF CallTools, Resumes, Asked
<1>2. RunMoves
  BY <1>1, GoesOn DEF InStep
<1>3. Asked' = Asked
  BY <1>1 DEF Asked, RunFrame
<1>4. Room'
  BY <1>1, <1>3 DEF Room
<1>5. finish' \in {"completed", "filtered", "tool_calls", "stop"}
  BY <1>1 DEF LoopInv, Types, RunTypes
<1> QED
  BY <1>1, <1>2, <1>4, <1>5, RunMovesKeep DEF InStep

\* A hook rejects after the step.
LEMMA StepHookFailsKeeps ==
  ASSUME LoopInv, Inv', StepHookFails
  PROVE  LoopInv'
<1>1. pc = "after" /\ UNCHANGED <<step, finish>> /\ RunFrame
  BY DEF StepHookFails, Resumes
<1>2. RunMoves /\ pc' \in {"returning", "resume", "recover", "wrap"}
  <2>1. CASE Throw("abort")
    BY <2>1, ThrowMoves
  <2>2. CASE pc' = "wrap" /\ UNCHANGED <<rstate, queue, outcome, current, lastFailed, attempts>>
    BY <2>2, GoesOn DEF InStep
  <2> QED
    BY <2>1, <2>2 DEF StepHookFails
<1>3. finish' \in {"completed", "filtered", "tool_calls", "stop"}
  BY <1>1 DEF LoopInv, Types, RunTypes
<1> QED
  BY <1>1, <1>2, <1>3, RunMovesKeep, NoRoomNeeded DEF InStep

\* The hooks after a step that ask for no other.
LEMMA NoStepAskedKeeps ==
  ASSUME LoopInv, Inv', pc = "after", UNCHANGED <<step, current>>, RunFrame, ResetAttempts,
         finish' \in {"completed", "filtered", "tool_calls", "stop"},
         Return("cancelled") \/ (pc' = "wrap" /\ UNCHANGED <<rstate, queue, outcome>>)
  PROVE  LoopInv'
<1>1. RunMoves /\ pc' \in {"returning", "wrap"}
  <2>1. CASE Return("cancelled")
    <3>1. 0 \in 0..MaxAttempts /\ "cancelled" \in Terminal
      BY LoopAssumption DEF Terminal
    <3>2. pc' = "returning"
      BY <2>1 DEF Return
    <3> QED
      BY <2>1, <3>1, <3>2 DEF RunMoves, ResetAttempts
  <2>2. CASE pc' = "wrap" /\ UNCHANGED <<rstate, queue, outcome>>
    BY <2>2, GoesOn DEF InStep
  <2> QED
    BY <2>1, <2>2
<1> QED
  BY <1>1, RunMovesKeep, NoRoomNeeded DEF InStep

\* The turn is cancelled during the backoff of a retry.
LEMMA BackoffAbortedKeeps ==
  ASSUME LoopInv, Inv', BackoffAborted
  PROVE  LoopInv'
<1>1. pc = "recover" /\ Return("cancelled") /\ RunFrame
      /\ UNCHANGED <<step, current, finish, lastFailed, attempts>>
  BY DEF BackoffAborted, Resumes
<1>2. pc' = "returning" /\ "cancelled" \in Terminal
  BY <1>1 DEF Return, Terminal
<1>3. RunMoves /\ finish' \in {"completed", "filtered", "tool_calls", "stop"}
  BY <1>1, <1>2 DEF RunMoves, LoopInv, Types, RunTypes
<1> QED
  BY <1>1, <1>2, <1>3, RunMovesKeep, NoRoomNeeded DEF InStep

\* The next driver is in the queue.
LEMMA DriverInQueue ==
  ASSUME NEW q \in Seq(Reqs), q # <<>>
  PROVE  Driver(q) \in Elems(q)
<1>1. PICK n \in Nat : n = Len(q)
  OBVIOUS
<1>2. DOMAIN q = 1..n /\ n >= 1
  BY <1>1
<1>3. PICK D : D = {i \in DOMAIN q : ~Mergeable(kind[q[i]])}
  OBVIOUS
<1>4. Driver(q) = IF D = {} THEN q[1] ELSE q[CHOOSE i \in D : \A j \in D : i <= j]
  BY <1>3 DEF Driver
<1>5. CASE D = {}
  BY <1>2, <1>4, <1>5 DEF Elems
<1>6. CASE D # {}
  <2>1. D \subseteq Nat
    BY <1>2, <1>3
  <2>2. \E i \in D : \A j \in D : i <= j
    BY <1>6, <2>1, LeastNatural
  <2>3. PICK c : c = CHOOSE i \in D : \A j \in D : i <= j
    OBVIOUS
  <2>4. c \in D
    BY <2>2, <2>3
  <2>5. Driver(q) = q[c] /\ c \in DOMAIN q
    BY <1>3, <1>4, <1>6, <2>3, <2>4
  <2> QED
    BY <2>5 DEF Elems
<1> QED
  BY <1>5, <1>6

\* A step of the run that touches the requests of its own turn: the others are kept.
LEMMA OtherRequestKept ==
  ASSUME LoopInv, Still, NEW q \in Reqs,
         rstate'[q] = rstate[q], step'[q] = step[q], result'[q] = result[q],
         step[q] = "running" => q = current',
         \A u \in Turns : q \in Elems(queue'[u]) => q \in Elems(queue[u]),
         delivered'[q] = delivered[q]
  PROVE  RequestAt(q)'
<1>1. RequestAt(q) /\ UNCHANGED <<born, kind, assign, job, turns, tstate, held, standalone, releasing>>
  BY DEF LoopInv, Requests, Still
<1>2. KnownAt(q)'
  BY <1>1 DEF RequestAt, KnownAt
<1>3. WaitsAt(q)'
  BY <1>1 DEF RequestAt, WaitsAt, Waiting
<1>4. QueuedAt(q)'
  BY <1>1 DEF RequestAt, QueuedAt
<1>5. StepAt(q)'
  BY <1>1 DEF RequestAt, StepAt
<1> QED
  BY <1>2, <1>3, <1>4, <1>5 DEF RequestAt

\* The next batch is taken: each request of it enters the context, or did so before a
\* retry, and the driver's step runs.
LEMMA BeginStepKeeps ==
  ASSUME LoopInv, Inv', pc \in {"started", "begin", "resume"}, NEW q, q = Live(queue[active]),
         q # <<>>, NEW d, d = Driver(q), ~OverBudget(d), BeginStep(q, d),
         UNCHANGED <<born, kind, assign, job, result, turns, tstate, stop, loopVars,
                     finish, lastFailed, attempts>>
  PROVE  LoopInv'
<1>1. current = 0 /\ active # 0 /\ active \in Turns /\ queue \in [Turns -> Seq(Reqs)]
  BY DEF LoopInv, Inv, PlaceOfTurn, Quiet, CurrentAt, Types, LineTypes, TurnTypes
<1>2. PICK s \in Seq(Reqs) : s = queue[active]
  BY <1>1
<1>3. q \in Seq(Reqs) /\ Elems(q) = {r \in Elems(s) : rstate[r] # "aborted"} /\ Elems(q) \subseteq Reqs
  BY <1>2, LiveFacts
<1>4. d \in Elems(q)
  BY <1>3, DriverInQueue
<1>5. PICK batch : batch = {r \in Elems(q) : r = d \/ Mergeable(kind[r])}
  OBVIOUS
<1>6. /\ queue' = [queue EXCEPT ![active] = Without(q, batch)]
      /\ step' = [step EXCEPT ![d] = "running"]
      /\ rstate' = [r \in Reqs |-> IF r \in batch THEN "materialized" ELSE rstate[r]]
      /\ delivered' = [r \in Reqs |-> delivered[r] + (IF r \in batch /\ Materializes(r) THEN 1 ELSE 0)]
      /\ steps' = steps + 1 /\ current' = d /\ pc' = "hook" /\ UNCHANGED outcome
  BY <1>5 DEF BeginStep
<1>7. batch \subseteq Reqs /\ d \in batch /\ d \in Reqs /\ d # 0
  BY <1>3, <1>4, <1>5, Numbers
<1>8. \A r \in batch : job[r] = active /\ rstate[r] \in {"pending", "materialized"} /\ r \notin Waiting
                       /\ r <= born
  <2> SUFFICES ASSUME NEW r \in batch
               PROVE  /\ job[r] = active /\ rstate[r] \in {"pending", "materialized"}
                      /\ r \notin Waiting /\ r <= born
    OBVIOUS
  <2>1. r \in Reqs /\ RequestAt(r) /\ r \in Elems(queue[active]) /\ rstate[r] # "aborted"
    BY <1>2, <1>3, <1>5, <1>7 DEF LoopInv, Requests
  <2>2. job[r] = active /\ r \notin Waiting
    BY <1>1, <2>1 DEF RequestAt, QueuedAt, WaitsAt
  <2>3. r \in Nat /\ born \in Nat
    BY <2>1, Numbers DEF LoopInv, Counted
  <2>4. rstate[r] # "none" /\ r <= born
    BY <1>1, <2>1, <2>2, <2>3 DEF RequestAt, KnownAt
  <2>5. rstate[r] \in {"none", "pending", "materialized", "aborted"}
    BY <2>1 DEF LoopInv, Types, ReqTypes
  <2> QED
    BY <2>1, <2>2, <2>4, <2>5
<1>9. Without(q, batch) \in Seq(Reqs) /\ Elems(Without(q, batch)) \subseteq Elems(s)
  BY <1>3, WithoutElems
<1>10. /\ queue' \in [Turns -> Seq(Reqs)]
       /\ \A u \in Turns : Elems(queue'[u]) \subseteq Elems(queue[u])
  <2>1. queue'[active] = Without(q, batch) /\ \A u \in Turns \ {active} : queue'[u] = queue[u]
    BY <1>1, <1>6
  <2>2. queue' \in [Turns -> Seq(Reqs)]
    BY <1>1, <1>6, <1>9
  <2> QED
    BY <1>2, <1>9, <2>1, <2>2
<1>11. Still /\ Room' /\ LoopTypes'
  BY <1>6 DEF Still, loopVars, Room, LoopInv, Types, LoopTypes
<1>12. LineTypes' /\ LinesApart' /\ TurnsInOrder' /\ Counted' /\ Waiting' = Waiting
  BY <1>11, StillHolds
<1>13. ReqTypes' /\ TurnTypes' /\ RunTypes'
  <2>1. delivered' \in [Reqs -> Nat]
    BY <1>6 DEF LoopInv, Types, ReqTypes
  <2>2. ReqTypes'
    BY <1>6, <1>7, <2>1 DEF LoopInv, Types, ReqTypes
  <2>3. TurnTypes' /\ RunTypes'
    BY <1>6, <1>7, <1>10 DEF LoopInv, Types, TurnTypes, RunTypes, Pcs
  <2> QED
    BY <2>2, <2>3
<1>14. ASSUME NEW r \in Reqs
       PROVE  RequestAt(r)'
  <2>0. RequestAt(r) /\ step[r] # "running" /\ r # 0
    BY <1>1, Numbers DEF LoopInv, Requests, RequestAt, StepAt
  <2>1. CASE r \notin batch
    <3>1. /\ rstate'[r] = rstate[r] /\ step'[r] = step[r] /\ result'[r] = result[r]
          /\ delivered'[r] = delivered[r]
      BY <1>6, <1>7, <2>1 DEF LoopInv, Types, ReqTypes
    <3> QED
      BY <1>10, <1>11, <2>0, <3>1, OtherRequestKept
  <2>2. CASE r \in batch
    <3>1. job[r] = active /\ rstate[r] \in {"pending", "materialized"} /\ r \notin Waiting
          /\ tstate[active] = "running" /\ r <= born
      BY <1>1, <1>8, <2>2 DEF LoopInv, TurnsInOrder
    <3>2. /\ rstate'[r] = "materialized" /\ delivered'[r] = 1
          /\ IF r = d THEN step'[r] = "running" ELSE step'[r] = step[r]
      BY <1>6, <1>7, <2>0, <2>2, <3>1 DEF RequestAt, StepAt, Materializes, LoopInv, Types, ReqTypes
    <3>3. UNCHANGED <<born, kind, assign, job, turns, tstate, result>>
      OBVIOUS
    <3>4. KnownAt(r)'
      BY <1>1, <2>0, <3>1, <3>2, <3>3 DEF RequestAt, KnownAt
    <3>5. WaitsAt(r)'
      BY <1>12, <2>0, <3>1, <3>2, <3>3 DEF RequestAt, WaitsAt
    <3>6. QueuedAt(r)'
      BY <1>10, <2>0, <3>3 DEF RequestAt, QueuedAt
    <3>7. StepAt(r)'
      BY <1>6, <2>0, <3>1, <3>2, <3>3 DEF RequestAt, StepAt, Ends, Terminal
    <3> QED
      BY <3>4, <3>5, <3>6, <3>7 DEF RequestAt
  <2> QED
    BY <2>1, <2>2
<1>15. CurrentAt'
  <2>1. job[d] = active /\ rstate'[d] = "materialized" /\ step'[d] = "running"
    BY <1>6, <1>7, <1>8 DEF LoopInv, Types, ReqTypes
  <2>2. MaxSteps > 0 /\ steps + 1 > MaxSteps => kind[d] = "landing"
    BY LoopAssumption DEF OverBudget, LoopInv, Types, RunTypes
  <2> QED
    BY <1>1, <1>6, <1>7, <2>1, <2>2 DEF CurrentAt, loopVars
<1> QED
  BY <1>11, <1>12, <1>13, <1>14, <1>15 DEF LoopInv, Types, Requests

\* beginLoopStep().
LEMMA BeginKeeps ==
  ASSUME LoopInv, Inv', Begin
  PROVE  LoopInv'
<1>1. /\ pc \in {"started", "begin", "resume"}
      /\ UNCHANGED <<born, kind, assign, job, result, turns, tstate, stop, loopVars,
                     finish, lastFailed, attempts>>
  BY DEF Begin, Resumes
<1>2. current = 0 /\ active # 0
  BY <1>1 DEF LoopInv, Inv, PlaceOfTurn, Quiet, CurrentAt
<1>3. CASE (\E type \in Terminal : Return(type)) /\ UNCHANGED <<step, delivered, steps, current>>
  <2>1. Drops
    BY <1>2, <1>3, ReturnDrops DEF LoopInv
  <2>2. Settles
    BY <1>1, <1>3, <2>1 DEF LoopInv, Types, ReqTypes, Settles
  <2>3. pc' = "returning" /\ outcome' \in Terminal
    BY <1>3 DEF Return
  <2>4. Still /\ LoopTypes' /\ stop' \in [Turns -> BOOLEAN] /\ Room'
    BY <1>1, <1>3, <2>3 DEF Still, loopVars, LoopInv, Types, LoopTypes, TurnTypes, Room
  <2>5. RunTypes'
    BY <1>1, <1>3, <2>3 DEF LoopInv, Types, RunTypes, Pcs
  <2> QED
    BY <1>2, <1>3, <2>2, <2>3, <2>4, <2>5, CarriedOn DEF InStep
<1>4. PICK q : q = Live(queue[active])
  OBVIOUS
<1>5. PICK d : d = Driver(q)
  OBVIOUS
<1>6. CASE q # <<>> /\ ~OverBudget(d) /\ BeginStep(q, d)
  BY <1>1, <1>4, <1>5, <1>6, BeginStepKeeps
<1> QED
  BY <1>3, <1>4, <1>5, <1>6 DEF Begin, Terminal

\* completeLoopStep().
LEMMA StepDoneKeeps ==
  ASSUME LoopInv, Inv', StepDone
  PROVE  LoopInv'
<1>1. /\ pc = "wrap"
      /\ step' = [step EXCEPT ![current] = "completed"]
      /\ result' = [result EXCEPT ![current] = IF @ = "open" THEN "completed" ELSE @]
      /\ current' = 0
      /\ UNCHANGED <<born, kind, assign, job, delivered, turns, tstate, stop, loopVars,
                     steps, finish, lastFailed, attempts>>
  BY DEF StepDone, Resumes
<1>2. (\E type \in Terminal : Return(type)) \/ (pc' = "begin" /\ UNCHANGED <<rstate, queue, outcome>>)
  BY DEF StepDone, Terminal
<1>3. /\ current # 0 /\ active # 0 /\ current \in Reqs /\ rstate[current] = "materialized"
      /\ step[current] \in {"running", "cancelled"}
  BY <1>1 DEF LoopInv, CurrentAt, Types, RunTypes
<1>4. Drops
  <2>1. CASE \E type \in Terminal : Return(type)
    BY <1>3, <2>1, ReturnDrops DEF LoopInv
  <2>2. CASE UNCHANGED <<rstate, queue>>
    BY <2>2 DEF LoopInv, Types, ReqTypes, TurnTypes, Drops
  <2> QED
    BY <1>2, <2>1, <2>2
<1>5. Settles
  <2>1. rstate'[current] # "pending"
    BY <1>3, <1>4 DEF Drops
  <2>2. step'[current] = "completed" /\ result'[current] # "open"
    BY <1>1, <1>3 DEF LoopInv, Types, ReqTypes
  <2>3. \A q \in Reqs \ {current} : step'[q] = step[q] /\ result'[q] = result[q]
    BY <1>1, <1>3 DEF LoopInv, Types, ReqTypes
  <2>4. /\ step' \in [Reqs -> {"none", "queued", "running", "completed", "cancelled"}]
        /\ result' \in [Reqs -> {"open", "completed", "cancelled"}]
    BY <1>1, <1>3 DEF LoopInv, Types, ReqTypes
  <2> QED
    BY <1>3, <1>4, <2>1, <2>2, <2>3, <2>4 DEF Settles, Ends
<1>6. pc' \in {"begin", "returning"} /\ outcome' \in Terminal
  BY <1>2 DEF Return, LoopInv, Types, RunTypes
<1>7. Still /\ LoopTypes' /\ stop' \in [Turns -> BOOLEAN] /\ Room'
  BY <1>1, <1>6 DEF Still, loopVars, LoopInv, Types, LoopTypes, TurnTypes, Room
<1>8. RunTypes'
  BY <1>1, <1>6 DEF LoopInv, Types, RunTypes, Pcs
<1>9. step'[current] # "running" /\ pc' \notin InStep
  BY <1>1, <1>3, <1>6 DEF InStep, LoopInv, Types, ReqTypes
<1> QED
  BY <1>1, <1>5, <1>7, <1>8, <1>9, CarriedOn

\* stepRetry.recover(): the driver, delivered already, is queued again.
LEMMA RecoveredKeeps ==
  ASSUME LoopInv, Inv', Recovered
  PROVE  LoopInv'
<1>1. pc = "recover" /\ UNCHANGED <<finish, lastFailed, attempts>> /\ RunFrame
  BY DEF Recovered, Resumes
<1>2. /\ current # 0 /\ active # 0 /\ current \in Reqs /\ rstate[current] = "materialized"
      /\ step[current] \in {"running", "cancelled"} /\ job[current] = active /\ active \in Turns
  BY <1>1 DEF LoopInv, CurrentAt, Types, RunTypes, LineTypes
<1>3. finish' \in {"completed", "filtered", "tool_calls", "stop"}
  BY <1>1 DEF LoopInv, Types, RunTypes
<1>4. CASE Return("failed") /\ UNCHANGED <<step, current>>
  <2>1. pc' = "returning" /\ "failed" \in Terminal
    BY <1>4 DEF Return, Terminal
  <2>2. RunMoves
    BY <1>1, <1>4, <2>1 DEF RunMoves, LoopInv, Types, RunTypes
  <2> QED
    BY <1>1, <1>3, <1>4, <2>1, <2>2, RunMovesKeep, NoRoomNeeded DEF InStep
<1>5. CASE /\ step[current] # "cancelled" /\ step' = [step EXCEPT ![current] = "queued"]
           /\ queue' = [queue EXCEPT ![active] = <<current>> \o @]
           /\ current' = 0 /\ pc' = "resume" /\ UNCHANGED <<rstate, outcome>>
  <2>1. queue \in [Turns -> Seq(Reqs)]
    BY DEF LoopInv, Types, TurnTypes
  <2>2. PICK s \in Seq(Reqs) : s = queue[active]
    BY <1>2, <2>1
  <2>3. PICK v : v = <<current>>
    OBVIOUS
  <2>4. v \in Seq(Reqs) /\ Elems(v) = {current}
    BY <1>2, <2>3, OneElem
  <2>5. v \o s \in Seq(Reqs) /\ Elems(v \o s) = {current} \cup Elems(s)
    BY <2>4, ConcatElems
  <2>6. /\ queue' \in [Turns -> Seq(Reqs)] /\ queue'[active] = v \o s
        /\ \A u \in Turns \ {active} : queue'[u] = queue[u]
    BY <1>2, <1>5, <2>1, <2>2, <2>3, <2>5
  <2>7. \A u \in Turns, r \in Reqs :
          r \in Elems(queue'[u]) => r \in Elems(queue[u]) \/ (r = current /\ u = active)
    BY <2>2, <2>5, <2>6
  <2>8. UNCHANGED <<born, kind, assign, job, result, delivered, turns, tstate, stop, steps>>
        /\ Still /\ Room' /\ LoopTypes'
    BY <1>1, <1>5 DEF RunFrame, loopVars, Still, Room, LoopInv, Types, LoopTypes
  <2>9. LineTypes' /\ LinesApart' /\ TurnsInOrder' /\ Counted' /\ Waiting' = Waiting
    BY <2>8, StillHolds
  <2>10. ReqTypes' /\ TurnTypes' /\ RunTypes'
    <3>1. ReqTypes'
      BY <1>2, <1>5, <2>8 DEF LoopInv, Types, ReqTypes
    <3>2. TurnTypes' /\ RunTypes'
      BY <1>1, <1>5, <2>6, <2>8 DEF LoopInv, Types, TurnTypes, RunTypes, Pcs
    <3> QED
      BY <3>1, <3>2
  <2>11. step'[current] = "queued" /\ \A r \in Reqs \ {current} : step'[r] = step[r]
    BY <1>2, <1>5 DEF LoopInv, Types, ReqTypes
  <2>12. ASSUME NEW r \in Reqs
         PROVE  RequestAt(r)'
    <3>1. RequestAt(r)
      BY DEF LoopInv, Requests
    <3>2. CASE r # current
      <4>1. step[r] # "running" /\ step'[r] = step[r] /\ rstate'[r] = rstate[r]
            /\ result'[r] = result[r] /\ delivered'[r] = delivered[r]
        BY <1>5, <2>8, <2>11, <3>1, <3>2 DEF RequestAt, StepAt
      <4> QED
        BY <2>7, <2>8, <3>2, <4>1, OtherRequestKept
    <3>3. CASE r = current
      <4>1. tstate[active] = "running"
        BY <1>2 DEF LoopInv, TurnsInOrder
      <4>2. KnownAt(r)'
        BY <1>2, <1>5, <2>8, <2>11, <3>1, <3>3 DEF RequestAt, KnownAt
      <4>3. WaitsAt(r)'
        BY <1>5, <2>8, <2>9, <3>1 DEF RequestAt, WaitsAt
      <4>4. QueuedAt(r)'
        BY <1>2, <2>7, <2>8, <3>1, <3>3 DEF RequestAt, QueuedAt
      <4>5. StepAt(r)'
        BY <1>2, <1>5, <2>8, <2>11, <3>1, <3>3, <4>1 DEF RequestAt, StepAt, Ends, Terminal
      <4> QED
        BY <4>2, <4>3, <4>4, <4>5 DEF RequestAt
    <3> QED
      BY <3>2, <3>3
  <2>13. CurrentAt'
    BY <1>5 DEF CurrentAt
  <2> QED
    BY <2>8, <2>9, <2>10, <2>12, <2>13 DEF LoopInv, Types, Requests
<1> QED
  BY <1>4, <1>5 DEF Recovered

-----------------------------------------------------------------------------
(* Turns that start and end.                                               *)

\* What shift() and filter() leave of an ascending line ascends.
LEMMA TailOrdered ==
  ASSUME NEW s \in Seq(Nat), s # <<>>, Ordered(s)
  PROVE  Ordered(Tail(s)) /\ Elems(Tail(s)) = Elems(s) \ {Head(s)}
<1>1. PICK n \in Nat : n = Len(s)
  OBVIOUS
<1>2. PICK u : u = Tail(s)
  OBVIOUS
<1>3. /\ n >= 1 /\ DOMAIN s = 1..n /\ DOMAIN u = 1..(n - 1)
      /\ \A i \in 1..(n - 1) : u[i] = s[i + 1] /\ i + 1 \in 1..n
  BY <1>1, <1>2
<1>4. ASSUME NEW i \in 1..(n - 1), NEW j \in 1..(n - 1), i < j
      PROVE  u[i] < u[j]
  <2>1. i + 1 \in DOMAIN s /\ j + 1 \in DOMAIN s /\ i + 1 < j + 1
    BY <1>3, <1>4
  <2>2. s[i + 1] < s[j + 1]
    BY <2>1 DEF Ordered
  <2> QED
    BY <1>3, <2>2
<1>5. Ordered(u)
  BY <1>3, <1>4 DEF Ordered
<1>6. \A i, j \in 1..Len(s) : i < j => s[i] < s[j]
  BY <1>1, <1>3 DEF Ordered
<1>7. Elems(Tail(s)) = Elems(s) \ {Head(s)}
  BY <1>6, TailAscends
<1> QED
  BY <1>2, <1>5, <1>7

\* Taking elements out of an ordered line leaves it ordered.
LEMMA WithoutOrdered ==
  ASSUME NEW s \in Seq(Nat), Ordered(s), NEW S
  PROVE  Ordered(Without(s, S)) /\ Elems(Without(s, S)) = Elems(s) \ S
<1>1. PICK w : w = Without(s, S)
  OBVIOUS
<1>2. \A i, j \in DOMAIN s : i < j => s[i] < s[j]
  BY DEF Ordered
<1>3. \A i, j \in DOMAIN w : i < j => w[i] < w[j]
  BY <1>1, <1>2, WithoutAscends
<1> QED
  BY <1>1, <1>3, WithoutElems DEF Ordered

\* Sequences of requests and turns are sequences of numbers.
LEMMA Numbered ==
  /\ \A s \in Seq(Reqs) : s \in Seq(Nat)
  /\ \A s \in Seq(Turns) : s \in Seq(Nat)
<1>1. ASSUME NEW S, S \subseteq Nat, NEW s \in Seq(S)
      PROVE  s \in Seq(Nat)
  <2>1. Len(s) \in Nat /\ s \in [1..Len(s) -> S]
    OBVIOUS
  <2>2. s \in [1..Len(s) -> Nat]
    BY <1>1, <2>1
  <2> QED
    BY <2>1, <2>2
<1>2. Reqs \subseteq Nat /\ Turns \subseteq Nat
  BY Numbers
<1> QED
  BY <1>1, <1>2

\* The counts stay as they are.
LEMMA CountedKept ==
  ASSUME Counted, UNCHANGED <<born, kind, job, turns>>, Room'
  PROVE  Counted'
<1>1. Senders' = Senders /\ Asked' = Asked
  BY DEF Senders, Asked
<1> QED
  BY <1>1 DEF Counted

\* startTurn().
LEMMA StartTurnKeeps ==
  ASSUME LoopInv, Inv', StartTurn, active = 0, pendingTurns # <<>>,
         UNCHANGED <<reqVars, turns, queue, stop, standalone, held, releasing, depth, disposing>>
  PROVE  LoopInv'
<1>1. PICK t : t = Head(pendingTurns)
  OBVIOUS
<1>2. /\ pendingTurns' = Tail(pendingTurns) /\ tstate' = [tstate EXCEPT ![t] = "running"]
      /\ active' = t /\ steps' = 0 /\ current' = 0 /\ lastFailed' = 0 /\ attempts' = 0
      /\ pc' = "started" /\ UNCHANGED <<waiters, finish, outcome>>
  BY <1>1 DEF StartTurn, ResetAttempts
<1>3. UNCHANGED <<born, kind, rstate, assign, job, step, result, delivered>>
  BY DEF reqVars
<1>4. pendingTurns \in Seq(Turns) /\ pendingTurns \in Seq(Nat) /\ Ordered(pendingTurns)
  BY Numbered DEF LoopInv, Types, LineTypes, TurnsInOrder
<1>5. Tail(pendingTurns) \in Seq(Turns) /\ t \in Turns /\ t \in Elems(pendingTurns)
  BY <1>1, <1>4, TailElems
<1>6. Ordered(Tail(pendingTurns)) /\ Elems(Tail(pendingTurns)) = Elems(pendingTurns) \ {t}
  BY <1>1, <1>4, TailOrdered
<1>7. tstate[t] = "queued" /\ current = 0 /\ 0 \notin Turns /\ 0 \notin Reqs
  BY <1>5, Numbers DEF LoopInv, TurnsInOrder, CurrentAt
<1>8. TurnsInOrder'
  <2>1. Ordered(pendingTurns')
    BY <1>2, <1>6
  <2>2. tstate'[t] = "running" /\ \A u \in Turns \ {t} : tstate'[u] = tstate[u]
    BY <1>2, <1>5 DEF LoopInv, Types, TurnTypes
  <2>3. \A u \in Turns : tstate'[u] = "none" <=> u > turns'
    BY <1>5, <1>7, <2>2 DEF LoopInv, TurnsInOrder
  <2>4. \A u \in Turns : tstate'[u] = "queued" <=> u \in Elems(pendingTurns')
    BY <1>2, <1>5, <1>6, <2>2 DEF LoopInv, TurnsInOrder
  <2>5. \A u \in Turns : tstate'[u] = "running" <=> u = active'
    BY <1>2, <1>7, <2>2 DEF LoopInv, TurnsInOrder
  <2> QED
    BY <2>1, <2>3, <2>4, <2>5 DEF TurnsInOrder
<1>9. Waiting' = Waiting /\ LinesApart' /\ Room' /\ CurrentAt'
  BY <1>2 DEF Waiting, LinesApart, LoopInv, Room, CurrentAt
<1>10. Counted'
  BY <1>3, <1>9, CountedKept DEF LoopInv
<1>11. 0 \in 0..MaxAttempts
  BY LoopAssumption
<1>12. Types'
  <2>1. ReqTypes' /\ LoopTypes' /\ RunTypes'
    BY <1>2, <1>3, <1>11 DEF LoopInv, Types, ReqTypes, LoopTypes, RunTypes, Pcs
  <2>2. TurnTypes' /\ LineTypes'
    BY <1>2, <1>5 DEF LoopInv, Types, TurnTypes, LineTypes
  <2> QED
    BY <2>1, <2>2 DEF Types
<1>13. Settles
  BY <1>3, NothingSettles DEF LoopInv
<1>14. ASSUME NEW q \in Reqs
       PROVE  RequestAt(q)'
  <2>1. RequestAt(q) /\ step[q] # "running"
    BY <1>7 DEF LoopInv, Requests, RequestAt, StepAt
  <2>2. job[q] # 0 /\ tstate'[job[q]] \in Terminal => tstate[job[q]] \in Terminal
    BY <1>2, <1>5 DEF LoopInv, Types, TurnTypes, ReqTypes, Terminal
  <2> QED
    BY <1>3, <1>9, <1>13, <2>1, <2>2, RequestSettles
<1> QED
  BY <1>8, <1>9, <1>10, <1>12, <1>14 DEF LoopInv, Requests

\* pumpTurns().
LEMMA PumpKeeps ==
  ASSUME LoopInv, Inv', Pump
  PROVE  LoopInv'
<1>1. UNCHANGED <<reqVars, turns, queue, stop, standalone, held, releasing, depth, disposing>>
  BY DEF Pump
<1>2. CASE UNCHANGED <<pendingTurns, tstate, active, runVars>> /\ pc' = "idle" /\ waiters' \in {0, waiters}
  <2>1. Settles
    BY <1>1, NothingSettles DEF LoopInv, reqVars
  <2>2. Still /\ Room' /\ stop' \in [Turns -> BOOLEAN]
    BY <1>1, <1>2 DEF Still, reqVars, Room, LoopInv, Types, TurnTypes
  <2>3. LoopTypes'
    BY <1>1, <1>2, LoopAssumption DEF LoopInv, Types, LoopTypes
  <2>4. RunTypes' /\ UNCHANGED <<steps, current, delivered, step>>
    BY <1>1, <1>2 DEF LoopInv, Types, RunTypes, runVars, reqVars, Pcs
  <2>5. current # 0 => step'[current] # "completed"
    BY <2>4 DEF LoopInv, CurrentAt
  <2> QED
    BY <1>2, <2>1, <2>2, <2>3, <2>4, <2>5, CarriedOn DEF InStep
<1>3. CASE MayPump /\ pendingTurns # <<>> /\ StartTurn
  BY <1>1, <1>3, StartTurnKeeps DEF MayPump
<1> QED
  BY <1>2, <1>3 DEF Pump, MaybeSettle

\* releaseActiveTurn(): what is left of the turn's steps is cancelled with it.
LEMMA EndKeeps ==
  ASSUME LoopInv, Inv', pc \notin Quiet, NEW type \in Terminal, ReleaseActiveTurn(type)
  PROVE  LoopInv'
<1>1. active # 0 /\ active \in Turns /\ 0 \notin Turns
  BY Numbers DEF LoopInv, Inv, PlaceOfTurn, Types, LineTypes
<1>2. /\ tstate' = [tstate EXCEPT ![active] = type] /\ CancelSteps(StepsOf({active}))
      /\ active' = 0 /\ waiters' \in {0, waiters} /\ pc' = "ended"
      /\ queue' = [queue EXCEPT ![active] = <<>>]
      /\ current' = 0 /\ steps' = 0 /\ finish' = "completed" /\ outcome' = "completed"
      /\ UNCHANGED <<born, kind, assign, job, delivered, turns, stop, pendingTurns,
                     standalone, held, releasing, depth, disposing, lastFailed, attempts>>
  BY DEF ReleaseActiveTurn, ReleaseSteps, MaybeSettle
<1>3. queue' \in [Turns -> Seq(Reqs)] /\ \A u \in Turns : Elems(queue'[u]) \subseteq Elems(queue[u])
  <2>1. queue'[active] = <<>> /\ \A u \in Turns \ {active} : queue'[u] = queue[u]
    BY <1>1, <1>2 DEF LoopInv, Types, TurnTypes
  <2>2. Elems(<<>>) = {}
    BY DEF Elems
  <2>3. queue' \in [Turns -> Seq(Reqs)]
    BY <1>1, <1>2 DEF LoopInv, Types, TurnTypes
  <2> QED
    BY <2>1, <2>2, <2>3
<1>4. Settles
  <2>1. StepsOf({active}) \in SUBSET Reqs
    BY DEF StepsOf
  <2> QED
    BY <1>2, <1>3, <2>1, CancelSettles DEF LoopInv
<1>5. tstate'[active] = type /\ tstate[active] = "running" /\ \A u \in Turns \ {active} : tstate'[u] = tstate[u]
  BY <1>1, <1>2 DEF LoopInv, Types, TurnTypes, TurnsInOrder
<1>6. TurnsInOrder'
  BY <1>1, <1>2, <1>5 DEF LoopInv, TurnsInOrder, Terminal
<1>7. Waiting' = Waiting /\ LinesApart' /\ Room' /\ CurrentAt'
  BY <1>2 DEF Waiting, LinesApart, LoopInv, Room, CurrentAt
<1>8. Counted'
  BY <1>2, <1>7, CountedKept DEF LoopInv
<1>9. Types'
  <2>1. ReqTypes' /\ RunTypes'
    BY <1>2, <1>4 DEF LoopInv, Types, ReqTypes, RunTypes, Pcs, Settles, Drops, Terminal
  <2>2. TurnTypes' /\ LineTypes'
    BY <1>1, <1>2, <1>3 DEF LoopInv, Types, TurnTypes, LineTypes
  <2>3. LoopTypes'
    BY <1>2, LoopAssumption DEF LoopInv, Types, LoopTypes
  <2> QED
    BY <2>1, <2>2, <2>3 DEF Types
<1>10. ASSUME NEW q \in Reqs
       PROVE  RequestAt(q)'
  <2>1. RequestAt(q)
    BY DEF LoopInv, Requests
  <2>2. job[q] = active => step'[q] \in Ends
    <3> SUFFICES ASSUME job[q] = active
                 PROVE  step'[q] \in Ends
      OBVIOUS
    <3>1. step[q] \in {"queued", "running", "completed", "cancelled"}
      BY <1>1, <2>1 DEF RequestAt, KnownAt, LoopInv, Types, ReqTypes
    <3> QED
      BY <1>2, <3>1 DEF CancelSteps, StepsOf, Ends
  <2>3. step'[q] # "running"
    <3>1. CASE step[q] = "running"
      <4>1. job[q] = active
        BY <2>1, <3>1, Numbers DEF RequestAt, StepAt, LoopInv, CurrentAt
      <4> QED
        BY <2>2, <4>1 DEF Ends
    <3> QED
      BY <1>4, <3>1 DEF Settles, Ends
  <2>4. job[q] # 0 /\ tstate'[job[q]] \in Terminal => tstate[job[q]] \in Terminal \/ step'[q] \in Ends
    BY <1>5, <2>2 DEF LoopInv, Types, ReqTypes
  <2> QED
    BY <1>2, <1>4, <1>7, <2>1, <2>3, <2>4, RequestSettles
<1> QED
  BY <1>6, <1>7, <1>8, <1>9, <1>10 DEF LoopInv, Requests

-----------------------------------------------------------------------------
(* Calls that cancel, lease and wait.                                      *)

\* A call that leaves the run alone.
Undisturbed == UNCHANGED <<pc, steps, current, finish, lastFailed, attempts, outcome>>

\* Such a call keeps the types of the run and the room that is left.
LEMMA UndisturbedFacts ==
  ASSUME LoopInv, Undisturbed, UNCHANGED kind
  PROVE  RunTypes' /\ Room'
<1>1. Asked' = Asked
  BY DEF Asked
<1> QED
  BY <1>1 DEF LoopInv, Types, RunTypes, Undisturbed, Counted, Room

\* A call that touches neither requests nor lines: cancelActiveTurn(), settled(),
\* tryAcquireQuiescence().
LEMMA PlainCallKeeps ==
  ASSUME LoopInv, Inv', stop' \in [Turns -> BOOLEAN], LoopTypes',
         UNCHANGED <<reqVars, turns, tstate, queue, pendingTurns, active, standalone, held,
                     releasing, pc, runVars>>
  PROVE  LoopInv'
<1>1. UNCHANGED <<born, kind, rstate, assign, job, step, result, delivered>> /\ Undisturbed
  BY DEF reqVars, runVars, Undisturbed
<1>2. Settles /\ Still
  BY <1>1, NothingSettles DEF LoopInv, Still
<1>3. RunTypes' /\ Room'
  BY <1>1, UndisturbedFacts
<1>4. /\ current # 0 => step'[current] # "completed"
      /\ pc' \in {"started", "begin", "resume"} => current = 0
      /\ pc' \in InStep => current # 0
  BY <1>1 DEF LoopInv, CurrentAt, InStep
<1> QED
  BY <1>1, <1>2, <1>3, <1>4, CarriedOn DEF Undisturbed

\* cancelActiveTurn() keeps the invariant.
LEMMA CancelActiveKeeps ==
  ASSUME LoopInv, Inv', CancelActive
  PROVE  LoopInv'
<1>1. stop' \in [Turns -> BOOLEAN] /\ LoopTypes'
  BY DEF CancelActive, loopVars, LoopInv, Types, TurnTypes, LoopTypes
<1> QED
  BY <1>1, PlainCallKeeps DEF CancelActive, loopVars

\* tryAcquireQuiescence() keeps the invariant.
LEMMA AcquireKeeps ==
  ASSUME LoopInv, Inv', AcquireQuiescence
  PROVE  LoopInv'
<1>1. stop' \in [Turns -> BOOLEAN] /\ LoopTypes'
  BY LoopAssumption DEF AcquireQuiescence, turnVars, LoopInv, Types, TurnTypes, LoopTypes
<1> QED
  BY <1>1, PlainCallKeeps DEF AcquireQuiescence, turnVars

\* settled() keeps the invariant.
LEMMA AwaitKeeps ==
  ASSUME LoopInv, Inv', AwaitSettled
  PROVE  LoopInv'
<1>1. stop' \in [Turns -> BOOLEAN] /\ LoopTypes'
  BY LoopAssumption DEF AwaitSettled, turnVars, LoopInv, Types, TurnTypes, LoopTypes
<1> QED
  BY <1>1, PlainCallKeeps DEF AwaitSettled, turnVars

\* cancelStep().
LEMMA CancelStepKeeps ==
  ASSUME LoopInv, Inv', NEW r \in Reqs, CancelStep(r)
  PROVE  LoopInv'
<1>1. CancelSteps({r}) /\ UNCHANGED <<born, kind, assign, job, delivered, turnVars, loopVars, pc, runVars>>
  BY DEF CancelStep
<1>2. Undisturbed /\ Still /\ stop' = stop /\ LoopTypes' /\ queue' = queue
  BY <1>1 DEF Undisturbed, Still, runVars, turnVars, loopVars, LoopInv, Types, LoopTypes
<1>3. Settles
  BY <1>1, <1>2, CancelSettles DEF LoopInv, Types, TurnTypes
<1>4. RunTypes' /\ Room'
  BY <1>1, <1>2, UndisturbedFacts
<1>5. current # 0 => step'[current] # "completed"
  BY <1>1 DEF CancelSteps, LoopInv, CurrentAt, Types, RunTypes, ReqTypes
<1>6. /\ pc' \in {"started", "begin", "resume"} => current = 0
      /\ pc' \in InStep => current # 0
  BY <1>2 DEF LoopInv, CurrentAt, InStep, Undisturbed
<1>7. stop' \in [Turns -> BOOLEAN]
  BY <1>2 DEF LoopInv, Types, TurnTypes
<1> QED
  BY <1>1, <1>2, <1>3, <1>4, <1>5, <1>6, <1>7, CarriedOn DEF Undisturbed

\* The driver of the step under way under a call that may cancel steps.
LEMMA CurrentKept ==
  ASSUME LoopInv, Undisturbed, UNCHANGED <<job, kind, active>>,
         \A q \in Reqs : rstate'[q] = rstate[q] \/ rstate[q] = "pending",
         \A q \in Reqs : step'[q] = step[q] \/ step'[q] = "cancelled"
  PROVE  CurrentAt'
<1>1. CASE current # 0
  <2>1. current \in Reqs /\ rstate[current] = "materialized"
    BY <1>1 DEF LoopInv, CurrentAt, Types, RunTypes
  <2>2. rstate'[current] = "materialized" /\ step'[current] \in {"running", "cancelled"}
    BY <1>1, <2>1 DEF LoopInv, CurrentAt
  <2> QED
    BY <1>1, <2>2 DEF LoopInv, CurrentAt, Undisturbed
<1> QED
  BY <1>1 DEF LoopInv, CurrentAt, Undisturbed

\* cancelQueuedTurn().
LEMMA CancelQueuedKeeps ==
  ASSUME LoopInv, Inv', NEW i \in DOMAIN pendingTurns, CancelQueued(i)
  PROVE  LoopInv'
<1>1. PICK t : t = pendingTurns[i]
  OBVIOUS
<1>2. /\ pendingTurns' = Without(pendingTurns, {t})
      /\ tstate' = [tstate EXCEPT ![t] = "cancelled"]
      /\ CancelSteps(StepsOf({t}))
      /\ stop' = [stop EXCEPT ![t] = TRUE] /\ waiters' \in {0, waiters}
      /\ UNCHANGED <<born, kind, assign, job, delivered, turns, queue, active,
                     standalone, held, releasing, depth, disposing, pc, runVars>>
  BY <1>1 DEF CancelQueued, MaybeSettle
<1>3. pendingTurns \in Seq(Turns) /\ pendingTurns \in Seq(Nat) /\ Ordered(pendingTurns)
  BY Numbered DEF LoopInv, Types, LineTypes, TurnsInOrder
<1>4. t \in Turns /\ t \in Elems(pendingTurns)
  BY <1>1, <1>3 DEF Elems
<1>5. /\ pendingTurns' \in Seq(Turns) /\ Ordered(pendingTurns')
      /\ Elems(pendingTurns') = Elems(pendingTurns) \ {t}
  BY <1>2, <1>3, WithoutOrdered, WithoutElems
<1>6. Undisturbed
  BY <1>2 DEF Undisturbed, runVars
<1>7. Settles
  <2>1. StepsOf({t}) \in SUBSET Reqs /\ queue' \in [Turns -> Seq(Reqs)]
    BY <1>2 DEF StepsOf, LoopInv, Types, TurnTypes
  <2> QED
    BY <1>2, <2>1, CancelSettles DEF LoopInv
<1>8. /\ tstate'[t] = "cancelled" /\ tstate[t] = "queued"
      /\ \A u \in Turns \ {t} : tstate'[u] = tstate[u]
  BY <1>2, <1>4 DEF LoopInv, Types, TurnTypes, TurnsInOrder
<1>9. TurnsInOrder'
  BY <1>2, <1>4, <1>5, <1>8 DEF LoopInv, TurnsInOrder
<1>10. Waiting' = Waiting /\ LinesApart'
  BY <1>2 DEF Waiting, LinesApart, LoopInv
<1>11. RunTypes' /\ Room'
  BY <1>2, <1>6, UndisturbedFacts
<1>12. Counted'
  BY <1>2, <1>11, CountedKept DEF LoopInv
<1>13. Types'
  <2>1. ReqTypes' /\ LoopTypes'
    BY <1>2, <1>7, LoopAssumption DEF LoopInv, Types, ReqTypes, LoopTypes, Settles, Drops
  <2>2. TurnTypes' /\ LineTypes'
    BY <1>2, <1>4, <1>5 DEF LoopInv, Types, TurnTypes, LineTypes, Terminal
  <2> QED
    BY <1>11, <2>1, <2>2 DEF Types
<1>14. \A q \in Reqs : step'[q] = step[q] \/ step'[q] = "cancelled"
  BY <1>2 DEF CancelSteps
<1>15. CurrentAt'
  <2>1. \A q \in Reqs : rstate'[q] = rstate[q] \/ rstate[q] = "pending"
    BY <1>7 DEF Settles, Drops
  <2> QED
    BY <1>2, <1>6, <1>14, <2>1, CurrentKept
<1>16. ASSUME NEW q \in Reqs
       PROVE  RequestAt(q)'
  <2>1. RequestAt(q)
    BY DEF LoopInv, Requests
  <2>2. step'[q] = "running" => q = current'
    BY <1>6, <1>14, <2>1 DEF RequestAt, StepAt, Undisturbed
  <2>3. job[q] = t => step'[q] \in Ends
    <3> SUFFICES ASSUME job[q] = t
                 PROVE  step'[q] \in Ends
      OBVIOUS
    <3>1. step[q] \in {"queued", "running", "completed", "cancelled"}
      BY <1>4, <2>1, Numbers DEF RequestAt, KnownAt, LoopInv, Types, ReqTypes
    <3> QED
      BY <1>2, <3>1 DEF CancelSteps, StepsOf, Ends
  <2>4. job[q] # 0 /\ tstate'[job[q]] \in Terminal => tstate[job[q]] \in Terminal \/ step'[q] \in Ends
    BY <1>8, <2>3 DEF LoopInv, Types, ReqTypes
  <2> QED
    BY <1>2, <1>7, <1>10, <2>1, <2>2, <2>4, RequestSettles
<1> QED
  BY <1>9, <1>10, <1>12, <1>13, <1>15, <1>16 DEF LoopInv, Requests

\* abortRequest() of a request without a step.
LEMMA AbortRequestKeeps ==
  ASSUME LoopInv, Inv', NEW r \in Reqs, AbortRequest(r)
  PROVE  LoopInv'
<1>1. /\ assign[r] = "waiting" /\ rstate[r] = "pending"
      /\ rstate' = [rstate EXCEPT ![r] = "aborted"] /\ assign' = [assign EXCEPT ![r] = "rejected"]
      /\ (held' = Without(held, {r}) \/ UNCHANGED held) /\ waiters' \in {0, waiters}
      /\ UNCHANGED <<born, kind, job, step, result, delivered, turnVars, pendingTurns, active,
                     standalone, releasing, depth, disposing, pc, runVars>>
  BY DEF AbortRequest, AbortHeldWakes, MaybeSettle
<1>2. UNCHANGED <<turns, tstate, queue, stop>> /\ Undisturbed
  BY <1>1 DEF turnVars, runVars, Undisturbed
<1>3. r \in Waiting /\ job[r] = 0 /\ r <= born
  BY <1>1 DEF LoopInv, Requests, RequestAt, WaitsAt
<1>4. held \in Seq(Reqs) /\ held \in Seq(Nat) /\ Ordered(held)
  BY Numbered DEF LoopInv, Types, LineTypes, LinesApart
<1>5. held' \in Seq(Reqs) /\ Ordered(held') /\ Elems(held) \ {r} \subseteq Elems(held')
      /\ Elems(held') \subseteq Elems(held)
  <2>1. CASE held' = Without(held, {r})
    BY <1>4, <2>1, WithoutElems, WithoutOrdered
  <2> QED
    BY <1>1, <1>4, <2>1
<1>6. LinesApart' /\ Waiting' \subseteq Waiting /\ Waiting \ {r} \subseteq Waiting'
  BY <1>1, <1>5 DEF LoopInv, LinesApart, Waiting
<1>7. RunTypes' /\ Room'
  BY <1>1, <1>2, UndisturbedFacts
<1>8. Counted' /\ TurnsInOrder'
  <2>1. Counted'
    BY <1>1, <1>2, <1>7, CountedKept DEF LoopInv
  <2>2. TurnsInOrder'
    BY <1>1, <1>2 DEF LoopInv, TurnsInOrder
  <2> QED
    BY <2>1, <2>2
<1>9. Types'
  <2>1. ReqTypes' /\ LoopTypes'
    BY <1>1, LoopAssumption DEF LoopInv, Types, ReqTypes, LoopTypes
  <2>2. TurnTypes' /\ LineTypes'
    BY <1>1, <1>2, <1>5 DEF LoopInv, Types, TurnTypes, LineTypes
  <2> QED
    BY <1>7, <2>1, <2>2 DEF Types
<1>10. /\ rstate'[r] = "aborted" /\ assign'[r] = "rejected"
       /\ \A q \in Reqs \ {r} : rstate'[q] = rstate[q] /\ assign'[q] = assign[q]
  BY <1>1 DEF LoopInv, Types, ReqTypes
<1>11. CurrentAt'
  BY <1>1, <1>2, <1>10, CurrentKept
<1>12. ASSUME NEW q \in Reqs
       PROVE  RequestAt(q)'
  <2>1. RequestAt(q) /\ current' = current
    BY <1>2 DEF LoopInv, Requests, Undisturbed
  <2>2. rstate'[q] = rstate[q] \/ (rstate[q] = "pending" /\ rstate'[q] = "aborted")
    BY <1>1, <1>10
  <2>3. KnownAt(q)'
    BY <1>1, <1>2, <1>10, <2>1 DEF RequestAt, KnownAt
  <2>4. WaitsAt(q)'
    BY <1>1, <1>2, <1>3, <1>6, <1>10, <2>1 DEF RequestAt, WaitsAt
  <2>5. QueuedAt(q)'
    BY <1>1, <1>2, <2>1 DEF RequestAt, QueuedAt
  <2>6. StepAt(q)'
    BY <1>1, <1>2, <2>1, <2>2 DEF RequestAt, StepAt
  <2> QED
    BY <2>3, <2>4, <2>5, <2>6 DEF RequestAt
<1> QED
  BY <1>6, <1>8, <1>9, <1>11, <1>12 DEF LoopInv, Requests

\* releaseQuiescence().
LEMMA ReleaseQuiescenceKeeps ==
  ASSUME LoopInv, Inv', ReleaseQuiescence
  PROVE  LoopInv'
<1>1. /\ depth > 0 /\ depth' = depth - 1 /\ releasing = <<>>
      /\ \/ UNCHANGED <<held, releasing, waiters, pc>>
         \/ releasing' = held /\ held' = <<>> /\ waiters' \in {0, waiters} /\ pc' \in {"release", pc}
      /\ UNCHANGED <<reqVars, turnVars, pendingTurns, active, standalone, disposing, runVars>>
  BY DEF ReleaseQuiescence, Leased, Outside, CanCall, MaybeSettle
<1>2. UNCHANGED <<born, kind, rstate, assign, job, step, result, delivered>>
      /\ UNCHANGED <<turns, tstate, queue, stop>>
      /\ UNCHANGED <<steps, current, finish, lastFailed, attempts, outcome>>
  BY <1>1 DEF reqVars, turnVars, runVars
<1>3. Elems(<<>>) = {} /\ <<>> \in Seq(Reqs) /\ Ordered(<<>>)
  BY DEF Elems, Ordered
<1>4. Waiting' = Waiting
  BY <1>1, <1>3 DEF Waiting
<1>5. LinesApart'
  <2>1. CASE UNCHANGED <<held, releasing>>
    BY <1>1, <2>1 DEF LoopInv, LinesApart
  <2>2. CASE releasing' = held /\ held' = <<>>
    BY <1>1, <1>3, <2>2 DEF LoopInv, LinesApart
  <2> QED
    BY <1>1, <2>1, <2>2
<1>6. Asked' = Asked
  BY <1>2 DEF Asked
<1>7. Room' /\ pc' \in Pcs
  BY <1>1, <1>2, <1>6 DEF LoopInv, Counted, Room, Types, RunTypes, Pcs
<1>8. Counted' /\ TurnsInOrder'
  <2>1. Counted'
    BY <1>2, <1>7, CountedKept DEF LoopInv
  <2>2. TurnsInOrder'
    BY <1>1, <1>2 DEF LoopInv, TurnsInOrder
  <2> QED
    BY <2>1, <2>2
<1>9. Types'
  <2>1. ReqTypes' /\ RunTypes'
    BY <1>2, <1>7 DEF LoopInv, Types, ReqTypes, RunTypes
  <2>2. TurnTypes' /\ LineTypes'
    BY <1>1, <1>2, <1>3 DEF LoopInv, Types, TurnTypes, LineTypes
  <2>3. LoopTypes'
    BY <1>1, LoopAssumption DEF LoopInv, Types, LoopTypes
  <2> QED
    BY <2>1, <2>2, <2>3 DEF Types
<1>10. CurrentAt'
  BY <1>1, <1>2 DEF LoopInv, CurrentAt
<1>11. Settles
  BY <1>2, NothingSettles DEF LoopInv
<1>12. ASSUME NEW q \in Reqs
       PROVE  RequestAt(q)'
  <2>1. RequestAt(q)
    BY DEF LoopInv, Requests
  <2>2. step'[q] = "running" => q = current'
    BY <1>2, <2>1 DEF RequestAt, StepAt
  <2> QED
    BY <1>2, <1>4, <1>11, <2>1, <2>2, RequestSettles
<1> QED
  BY <1>5, <1>8, <1>9, <1>10, <1>12 DEF LoopInv, Requests

\* dispose(): all that waits is refused, all that is queued is cancelled.
LEMMA DisposeKeeps ==
  ASSUME LoopInv, Inv', Dispose
  PROVE  LoopInv'
<1>1. PICK gone : gone = Elems(pendingTurns)
  OBVIOUS
<1>2. PICK open : open = {r \in StepsOf(gone) : step[r] \in {"queued", "running"}}
  OBVIOUS
<1>3. PICK waiting : waiting = Elems(standalone) \cup Elems(held)
  OBVIOUS
<1>4. /\ releasing = <<>> /\ disposing' = TRUE /\ pendingTurns' = <<>>
      /\ tstate' = [t \in Turns |-> IF t \in gone THEN "cancelled" ELSE tstate[t]]
      /\ stop' = [t \in Turns |-> stop[t] \/ t \in gone \/ t = active]
      /\ step' = [r \in Reqs |-> IF r \in open THEN "cancelled" ELSE step[r]]
      /\ result' = [r \in Reqs |-> IF r \in open /\ result[r] = "open" THEN "cancelled" ELSE result[r]]
      /\ rstate' = Aborted(open \cup waiting)
      /\ assign' = [r \in Reqs |-> IF r \in waiting /\ assign[r] = "waiting" THEN "rejected" ELSE assign[r]]
      /\ standalone' = <<>> /\ held' = <<>> /\ waiters' \in {0, waiters}
      /\ UNCHANGED <<born, kind, job, delivered, turns, queue, active, releasing, depth, pc, runVars>>
  BY <1>1, <1>2, <1>3 DEF Dispose, Outside, CanCall, MaybeSettle
<1>5. Elems(<<>>) = {} /\ <<>> \in Seq(Reqs) /\ <<>> \in Seq(Turns) /\ Ordered(<<>>)
  BY DEF Elems, Ordered
<1>6. Waiting = waiting /\ Waiting' = {}
  BY <1>3, <1>4, <1>5 DEF Waiting
<1>7. LinesApart' /\ Undisturbed
  BY <1>4, <1>5 DEF LinesApart, runVars, Undisturbed
<1>8. RunTypes' /\ Room'
  BY <1>4, <1>7, UndisturbedFacts
<1>9. Counted'
  BY <1>4, <1>8, CountedKept DEF LoopInv
<1>10. \A t \in Turns : t \in gone <=> tstate[t] = "queued"
  BY <1>1 DEF LoopInv, TurnsInOrder
<1>11. TurnsInOrder'
  BY <1>4, <1>5, <1>10 DEF LoopInv, TurnsInOrder
<1>12. Types'
  <2>1. ReqTypes' /\ LoopTypes'
    BY <1>4, LoopAssumption DEF LoopInv, Types, ReqTypes, LoopTypes, Aborted
  <2>2. TurnTypes' /\ LineTypes'
    BY <1>4, <1>5 DEF LoopInv, Types, TurnTypes, LineTypes, Terminal
  <2> QED
    BY <1>8, <2>1, <2>2 DEF Types
<1>13. \A q \in Reqs : rstate'[q] = rstate[q] \/ (rstate[q] = "pending" /\ rstate'[q] = "aborted")
  BY <1>4 DEF Aborted
<1>14. \A q \in Reqs : step'[q] = step[q] \/ step'[q] = "cancelled"
  BY <1>4
<1>15. CurrentAt'
  BY <1>4, <1>7, <1>13, <1>14, CurrentKept
<1>16. ASSUME NEW q \in Reqs
       PROVE  RequestAt(q)'
  <2>1. RequestAt(q)
    BY DEF LoopInv, Requests
  <2>2. IF q \in open
          THEN step[q] \in {"queued", "running"} /\ step'[q] = "cancelled" /\ result'[q] # "open"
               /\ rstate'[q] # "pending"
          ELSE step'[q] = step[q] /\ result'[q] = result[q]
    BY <1>2, <1>4 DEF Aborted
  <2>3. assign'[q] = IF q \in waiting /\ assign[q] = "waiting" THEN "rejected" ELSE assign[q]
    BY <1>4
  <2>4. q \in waiting => rstate'[q] # "pending"
    BY <1>4 DEF Aborted
  <2>5. KnownAt(q)'
    BY <1>4, <1>13, <2>1, <2>2, <2>3 DEF RequestAt, KnownAt
  <2>6. WaitsAt(q)'
    BY <1>4, <1>6, <1>13, <2>1, <2>3, <2>4 DEF RequestAt, WaitsAt
  <2>7. QueuedAt(q)'
    BY <1>4, <2>1 DEF RequestAt, QueuedAt
  <2>8. job[q] \in gone => step'[q] \in Ends
    <3> SUFFICES ASSUME job[q] \in gone
                 PROVE  step'[q] \in Ends
      OBVIOUS
    <3>1. job[q] # 0
      BY <1>1, Numbers DEF LoopInv, Types, LineTypes, Elems
    <3>2. step[q] \in {"queued", "running", "completed", "cancelled"}
      BY <2>1, <3>1 DEF RequestAt, KnownAt, LoopInv, Types, ReqTypes
    <3> QED
      BY <1>2, <2>2, <3>2 DEF StepsOf, Ends
  <2>9. job[q] # 0 /\ tstate'[job[q]] \in Terminal => tstate[job[q]] \in Terminal \/ step'[q] \in Ends
    BY <1>4, <2>8 DEF LoopInv, Types, ReqTypes
  <2>10. current' = current /\ delivered' = delivered /\ job' = job
    BY <1>4, <1>7 DEF Undisturbed
  <2>11. StepAt(q)'
    BY <1>13, <2>1, <2>2, <2>9, <2>10 DEF RequestAt, StepAt, Ends
  <2> QED
    BY <2>5, <2>6, <2>7, <2>11 DEF RequestAt
<1> QED
  BY <1>7, <1>9, <1>11, <1>12, <1>15, <1>16 DEF LoopInv, Requests

-----------------------------------------------------------------------------
(* Admission.                                                              *)

\* A request as it gets its step.
LEMMA AssignedAt ==
  ASSUME NEW q \in Reqs, NEW t \in Turns, job'[q] = t, step'[q] = "queued",
         assign'[q] = "resolved", rstate'[q] = "pending", kind'[q] # "none", delivered'[q] = 0,
         q \notin Waiting', born' \in Nat, q <= born', t <= turns', tstate'[t] \notin Terminal,
         \A u \in Turns : q \in Elems(queue'[u]) => u = t
  PROVE  RequestAt(q)'
<1>1. q \in Nat /\ t # 0
  BY Numbers
<1>2. KnownAt(q)'
  BY <1>1 DEF KnownAt
<1>3. WaitsAt(q)'
  BY DEF WaitsAt
<1>4. QueuedAt(q)'
  BY DEF QueuedAt
<1>5. StepAt(q)'
  BY DEF StepAt, Ends
<1> QED
  BY <1>2, <1>3, <1>4, <1>5 DEF RequestAt

\* A request as it comes to wait.
LEMMA WaitingAt ==
  ASSUME NEW q \in Reqs, job'[q] = 0, step'[q] = "none", assign'[q] = "waiting",
         rstate'[q] = "pending", kind'[q] # "none", delivered'[q] = 0,
         q \in Waiting', born' \in Nat, q <= born', turns' \in Nat,
         \A u \in Turns : q \notin Elems(queue'[u])
  PROVE  RequestAt(q)'
<1>1. q \in Nat
  BY Numbers
<1>2. KnownAt(q)'
  BY <1>1 DEF KnownAt
<1>3. WaitsAt(q)'
  BY DEF WaitsAt
<1>4. QueuedAt(q)'
  BY DEF QueuedAt
<1>5. StepAt(q)'
  BY DEF StepAt, Ends
<1> QED
  BY <1>2, <1>3, <1>4, <1>5 DEF RequestAt

\* The state around admit(): r is new, or has just left the held admissions.
Admits(r) ==
  /\ r \in Reqs /\ job[r] = 0 /\ step[r] = "none" /\ delivered[r] = 0
  /\ kind'[r] \in Kinds /\ rstate'[r] = "pending"
  /\ \A q \in Reqs \ {r} : kind'[q] = kind[q] /\ rstate'[q] = rstate[q]
  /\ born' \in Nat /\ r <= born' /\ \A q \in Reqs \ {r} : q > born' <=> q > born
  /\ r \notin Elems(standalone) \cup Elems(held') \cup Elems(releasing')
  /\ Elems(held') \cup Elems(releasing') = (Elems(held) \cup Elems(releasing)) \ {r}
  /\ UNCHANGED <<result, delivered, active, current>>

\* What admit() does to a request that is neither the one admitted nor assigned with it.
LEMMA OthersUnderAdmit ==
  ASSUME LoopInv, NEW r, Admits(r), NEW q \in Reqs \ {r},
         assign'[q] = assign[q], job'[q] = job[q], step'[q] = step[q],
         turns' \in Nat, turns <= turns',
         \/ q \in Waiting' <=> q \in Waiting
         \/ rstate[q] # "pending" /\ (q \in Waiting' => q \in Waiting),
         \A u \in Turns : q \in Elems(queue'[u]) => q \in Elems(queue[u]),
         job[q] # 0 => tstate'[job[q]] = tstate[job[q]]
  PROVE  RequestAt(q)'
<1>1. RequestAt(q) /\ LineTypes /\ job[q] \in Nat /\ turns \in Nat /\ born \in Nat
  BY Numbers DEF LoopInv, Requests, Types, ReqTypes, Counted
<1>2. /\ kind'[q] = kind[q] /\ rstate'[q] = rstate[q] /\ result'[q] = result[q]
      /\ delivered'[q] = delivered[q] /\ current' = current /\ born' \in Nat
      /\ q > born' <=> q > born
  BY DEF Admits
<1>3. step[q] = "running" => q = current'
  BY <1>1, <1>2 DEF RequestAt, StepAt
<1> QED
  BY <1>1, <1>2, <1>3, RequestKept

\* The requests after a turn was made.
LEMMA NewTurnRequests ==
  ASSUME LoopInv, NEW r, Admits(r), NewTurn(r)
  PROVE  Requests'
<1>1. PICK G : G = {r} \cup {q \in Elems(standalone) : rstate[q] # "aborted"}
  OBVIOUS
<1>2. PICK t : t = turns + 1
  OBVIOUS
<1>3. /\ t \in Turns /\ turns' = t /\ Assigns(t, G) /\ tstate' = [tstate EXCEPT ![t] = "queued"]
      /\ standalone' = <<>>
  BY <1>1, <1>2 DEF NewTurn
<1>4. turns \in Nat /\ turns' \in Nat /\ turns <= turns' /\ turns < t
  BY <1>2, <1>3 DEF LoopInv, Counted
<1>5. Waiting' = (Elems(held) \cup Elems(releasing)) \ {r}
  BY <1>3 DEF Admits, Waiting, Elems
<1>6. \A q \in G : q \in Reqs /\ job[q] = 0 /\ rstate'[q] = "pending" /\ delivered[q] = 0
                   /\ kind'[q] # "none" /\ q <= born' /\ q \notin Waiting'
  <2> SUFFICES ASSUME NEW q \in G
               PROVE  /\ q \in Reqs /\ job[q] = 0 /\ rstate'[q] = "pending" /\ delivered[q] = 0
                      /\ kind'[q] # "none" /\ q <= born' /\ q \notin Waiting'
    OBVIOUS
  <2>1. CASE q = r
    BY <1>5, <2>1 DEF Admits, Kinds
  <2>2. CASE q # r
    <3>1. q \in Elems(standalone) /\ rstate[q] # "aborted" /\ q \in Reqs /\ q \in Waiting
      BY <1>1, <2>2 DEF LoopInv, Types, LineTypes, Elems, Waiting
    <3>2. RequestAt(q) /\ born \in Nat /\ q \in Nat
      BY <3>1, Numbers DEF LoopInv, Requests, Counted
    <3>3. q <= born /\ job[q] = 0 /\ rstate[q] # "materialized"
      BY <3>1, <3>2 DEF RequestAt, WaitsAt
    <3>4. rstate[q] # "none" /\ kind[q] # "none"
      BY <3>2, <3>3 DEF RequestAt, KnownAt
    <3>5. rstate[q] = "pending"
      BY <3>1, <3>3, <3>4 DEF LoopInv, Types, ReqTypes
    <3>6. delivered[q] = 0
      BY <3>2, <3>5 DEF RequestAt, StepAt
    <3>7. q \notin Waiting'
      BY <1>5, <3>1 DEF LoopInv, LinesApart
    <3>8. rstate'[q] = "pending" /\ kind'[q] = kind[q] /\ q <= born'
      BY <2>2, <3>1, <3>2, <3>3, <3>5 DEF Admits
    <3> QED
      BY <3>1, <3>3, <3>4, <3>6, <3>7, <3>8
  <2> QED
    BY <2>1, <2>2
<1>7. /\ \A q \in Reqs : job'[q] = IF q \in G THEN t ELSE job[q]
      /\ \A q \in Reqs : step'[q] = IF q \in G THEN "queued" ELSE step[q]
      /\ \A q \in Reqs : assign'[q] = IF q \in G THEN "resolved" ELSE assign[q]
      /\ \A u \in Turns : Elems(queue'[u]) = IF u = t THEN Elems(queue[u]) \cup G ELSE Elems(queue[u])
  BY <1>3 DEF Assigns
<1>8. tstate'[t] = "queued" /\ \A u \in Turns \ {t} : tstate'[u] = tstate[u]
  BY <1>3 DEF LoopInv, Types, TurnTypes
<1>9. ASSUME NEW q \in Reqs
      PROVE  RequestAt(q)'
  <2>1. RequestAt(q)
    BY DEF LoopInv, Requests
  <2>2. CASE q \in G
    <3>1. \A u \in Turns : q \in Elems(queue'[u]) => u = t
      BY <1>6, <1>7, <2>1, <2>2, Numbers DEF RequestAt, QueuedAt
    <3>2. delivered'[q] = 0 /\ born' \in Nat /\ tstate'[t] \notin Terminal
      BY <1>6, <1>8, <2>2 DEF Admits, Terminal
    <3>3. t <= turns'
      BY <1>3, <1>4
    <3> QED
      BY <1>3, <1>6, <1>7, <2>2, <3>1, <3>2, <3>3, AssignedAt
  <2>3. CASE q \notin G
    <3>1. q # r
      BY <1>1, <2>3
    <3>2. /\ assign'[q] = assign[q] /\ job'[q] = job[q] /\ step'[q] = step[q]
          /\ \A u \in Turns : q \in Elems(queue'[u]) => q \in Elems(queue[u])
      BY <1>7, <2>3
    <3>3. \/ q \in Waiting' <=> q \in Waiting
          \/ rstate[q] # "pending" /\ (q \in Waiting' => q \in Waiting)
      BY <1>1, <1>5, <2>3, <3>1 DEF Waiting
    <3>4. job[q] # 0 => tstate'[job[q]] = tstate[job[q]]
      <4>1. job[q] \in Turns \cup {0} /\ job[q] \in Nat /\ t \in Nat
        BY <1>2, <1>4, Numbers DEF LoopInv, Types, ReqTypes
      <4>2. job[q] # t
        BY <1>4, <2>1, <4>1 DEF RequestAt, KnownAt
      <4> QED
        BY <1>8, <4>1, <4>2
    <3> QED
      BY <1>4, <3>1, <3>2, <3>3, <3>4, OthersUnderAdmit
  <2> QED
    BY <2>2, <2>3
<1> QED
  BY <1>9 DEF Requests

\* The requests after one has joined the active turn.
LEMMA JoinsRequests ==
  ASSUME LoopInv, NEW r, Admits(r), Joins(r)
  PROVE  Requests'
<1>1. /\ active \in Turns /\ active # 0 /\ Assigns(active, {r})
      /\ UNCHANGED <<turns, tstate, standalone, pendingTurns>> /\ turns \in Nat
  BY DEF Joins, LoopInv, Types, LineTypes, Counted
<1>2. Waiting' = Waiting \ {r}
  BY <1>1 DEF Admits, Waiting
<1>3. /\ \A q \in Reqs : job'[q] = IF q = r THEN active ELSE job[q]
      /\ \A q \in Reqs : step'[q] = IF q = r THEN "queued" ELSE step[q]
      /\ \A q \in Reqs : assign'[q] = IF q = r THEN "resolved" ELSE assign[q]
      /\ \A u \in Turns : Elems(queue'[u]) = IF u = active THEN Elems(queue[u]) \cup {r} ELSE Elems(queue[u])
  BY <1>1 DEF Assigns
<1>4. active <= turns /\ tstate[active] = "running"
  BY <1>1, Numbers DEF LoopInv, TurnsInOrder
<1>5. ASSUME NEW q \in Reqs
      PROVE  RequestAt(q)'
  <2>1. RequestAt(q)
    BY DEF LoopInv, Requests
  <2>2. CASE q = r
    <3>1. /\ job[q] = 0 /\ delivered'[q] = 0 /\ rstate'[q] = "pending" /\ kind'[q] # "none"
          /\ born' \in Nat /\ q <= born' /\ q \notin Waiting'
      BY <1>2, <2>2 DEF Admits, Kinds
    <3>2. \A u \in Turns : q \in Elems(queue'[u]) => u = active
      BY <1>3, <2>1, <3>1, Numbers DEF RequestAt, QueuedAt
    <3>3. active <= turns' /\ tstate'[active] \notin Terminal
      BY <1>1, <1>4 DEF Terminal
    <3> QED
      BY <1>1, <1>3, <2>2, <3>1, <3>2, <3>3, AssignedAt
  <2>3. CASE q # r
    <3>1. /\ assign'[q] = assign[q] /\ job'[q] = job[q] /\ step'[q] = step[q]
          /\ \A u \in Turns : q \in Elems(queue'[u]) => q \in Elems(queue[u])
      BY <1>3, <2>3
    <3>2. q \in Waiting' <=> q \in Waiting
      BY <1>2, <2>3
    <3> QED
      BY <1>1, <2>3, <3>1, <3>2, OthersUnderAdmit
  <2> QED
    BY <2>2, <2>3
<1> QED
  BY <1>5 DEF Requests

\* The requests after one has come to stand by.
LEMMA StandsByRequests ==
  ASSUME LoopInv, NEW r, Admits(r), StandsBy(r)
  PROVE  Requests'
<1>1. /\ standalone' = Append(standalone, r) /\ assign' = [assign EXCEPT ![r] = "waiting"]
      /\ UNCHANGED <<queue, job, step, turns, tstate, pendingTurns>>
      /\ r \in Reqs /\ standalone \in Seq(Reqs) /\ turns \in Nat
  BY DEF StandsBy, Admits, LoopInv, Types, LineTypes, Counted
<1>2. Elems(standalone') = Elems(standalone) \cup {r}
  BY <1>1, AppendElems
<1>3. Waiting' = Waiting \cup {r}
  BY <1>1, <1>2 DEF Admits, Waiting
<1>4. assign'[r] = "waiting" /\ \A q \in Reqs \ {r} : assign'[q] = assign[q]
  BY <1>1 DEF LoopInv, Types, ReqTypes
<1>5. ASSUME NEW q \in Reqs
      PROVE  RequestAt(q)'
  <2>1. RequestAt(q)
    BY DEF LoopInv, Requests
  <2>2. CASE q = r
    <3>1. /\ job'[q] = 0 /\ step'[q] = "none" /\ delivered'[q] = 0 /\ rstate'[q] = "pending"
          /\ kind'[q] # "none" /\ born' \in Nat /\ q <= born' /\ q \in Waiting'
      BY <1>1, <1>3, <2>2 DEF Admits, Kinds
    <3>2. \A u \in Turns : q \notin Elems(queue'[u])
      BY <1>1, <2>1, <3>1, Numbers DEF RequestAt, QueuedAt
    <3> QED
      BY <1>1, <1>4, <2>2, <3>1, <3>2, WaitingAt
  <2>3. CASE q # r
    <3>1. q \in Waiting' <=> q \in Waiting
      BY <1>3, <2>3
    <3> QED
      BY <1>1, <1>4, <2>3, <3>1, OthersUnderAdmit
  <2> QED
    BY <2>2, <2>3
<1> QED
  BY <1>5 DEF Requests

\* admit() in any of its forms.
AdmitsAs(r) == Admits(r) /\ (NewTurn(r) \/ Joins(r) \/ StandsBy(r))

\* It leaves the requests that have a job alone, and yields values of their types.
LEMMA AdmittedJobs ==
  ASSUME LoopInv, NEW r, AdmitsAs(r)
  PROVE  /\ \A q \in Reqs : job[q] # 0 => q # r /\ job'[q] = job[q] /\ step'[q] = step[q]
         /\ assign' \in [Reqs -> {"none", "waiting", "resolved", "rejected"}]
         /\ job' \in [Reqs -> Turns \cup {0}]
         /\ step' \in [Reqs -> {"none", "queued", "running", "completed", "cancelled"}]
         /\ queue' \in [Turns -> Seq(Reqs)] /\ r \in Reqs
<1>1. ReqTypes /\ TurnTypes /\ r \in Reqs /\ job[r] = 0
  BY DEF LoopInv, Types, AdmitsAs, Admits
<1>2. ASSUME NEW t \in Turns, NEW G, Assigns(t, G), \A q \in G : q \in Reqs => job[q] = 0
      PROVE  /\ \A q \in Reqs : job[q] # 0 => job'[q] = job[q] /\ step'[q] = step[q]
             /\ assign' \in [Reqs -> {"none", "waiting", "resolved", "rejected"}]
             /\ job' \in [Reqs -> Turns \cup {0}]
             /\ step' \in [Reqs -> {"none", "queued", "running", "completed", "cancelled"}]
             /\ queue' \in [Turns -> Seq(Reqs)]
  <2>1. assign' \in [Reqs -> {"none", "waiting", "resolved", "rejected"}]
    BY <1>1, <1>2 DEF Assigns, ReqTypes
  <2>2. job' \in [Reqs -> Turns \cup {0}]
    BY <1>1, <1>2 DEF Assigns, ReqTypes
  <2>3. step' \in [Reqs -> {"none", "queued", "running", "completed", "cancelled"}]
    BY <1>1, <1>2 DEF Assigns, ReqTypes
  <2>4. \A q \in Reqs : job[q] # 0 => job'[q] = job[q] /\ step'[q] = step[q]
    BY <1>2 DEF Assigns
  <2> QED
    BY <1>2, <2>1, <2>2, <2>3, <2>4 DEF Assigns
<1>3. CASE NewTurn(r)
  <2>1. PICK G : G = {r} \cup {q \in Elems(standalone) : rstate[q] # "aborted"}
    OBVIOUS
  <2>2. turns + 1 \in Turns /\ Assigns(turns + 1, G)
    BY <1>3, <2>1 DEF NewTurn
  <2>3. \A q \in G : q \in Reqs => job[q] = 0
    BY <1>1, <2>1 DEF LoopInv, Requests, RequestAt, WaitsAt, Waiting
  <2> QED
    BY <1>1, <1>2, <2>2, <2>3
<1>4. CASE Joins(r)
  <2>1. active \in Turns /\ Assigns(active, {r})
    BY <1>4 DEF Joins, LoopInv, Types, LineTypes
  <2> QED
    BY <1>1, <1>2, <2>1
<1>5. CASE StandsBy(r)
  BY <1>1, <1>5 DEF StandsBy, ReqTypes, TurnTypes
<1> QED
  BY <1>3, <1>4, <1>5 DEF AdmitsAs

\* The turns and the lines after it.
LEMMA AdmittedLines ==
  ASSUME LoopInv, NEW r, AdmitsAs(r)
  PROVE  /\ TurnsInOrder' /\ pendingTurns' \in Seq(Turns) /\ standalone' \in Seq(Reqs)
         /\ tstate' \in [Turns -> Terminal \cup {"none", "queued", "running"}]
         /\ Elems(standalone') \cap (Elems(held') \cup Elems(releasing')) = {}
<1>1. /\ standalone \in Seq(Reqs) /\ pendingTurns \in Seq(Turns) /\ r \in Reqs
      /\ tstate \in [Turns -> Terminal \cup {"none", "queued", "running"}]
      /\ turns \in Nat /\ active' = active
  BY DEF LoopInv, Types, LineTypes, TurnTypes, AdmitsAs, Admits, Counted
<1>2. CASE NewTurn(r)
  <2>1. PICK t : t = turns + 1
    OBVIOUS
  <2>2. /\ t \in Turns /\ turns' = t /\ tstate' = [tstate EXCEPT ![t] = "queued"]
        /\ pendingTurns' = Append(pendingTurns, t) /\ standalone' = <<>>
    BY <1>2, <2>1 DEF NewTurn
  <2>3. /\ pendingTurns' \in Seq(Turns) /\ pendingTurns \in Seq(Nat) /\ t \in Nat
        /\ Elems(pendingTurns') = Elems(pendingTurns) \cup {t}
    BY <1>1, <2>1, <2>2, AppendElems, Numbered
  <2>4. /\ tstate'[t] = "queued" /\ \A u \in Turns \ {t} : tstate'[u] = tstate[u]
        /\ tstate' \in [Turns -> Terminal \cup {"none", "queued", "running"}]
    BY <1>1, <2>2
  <2>5. tstate[t] = "none" /\ \A u \in Turns : u \in Nat
    BY <1>1, <2>1, <2>2, Numbers DEF LoopInv, TurnsInOrder
  <2>6. \A u \in Elems(pendingTurns) : u < t
    <3> SUFFICES ASSUME NEW u \in Elems(pendingTurns)
                 PROVE  u < t
      OBVIOUS
    <3>1. u \in Turns
      BY <1>1 DEF Elems
    <3>2. tstate[u] = "queued"
      BY <3>1 DEF LoopInv, TurnsInOrder
    <3>3. ~ (u > turns) /\ u \in Nat
      BY <2>5, <3>1, <3>2 DEF LoopInv, TurnsInOrder
    <3> QED
      BY <1>1, <2>1, <3>3
  <2>7. Ordered(pendingTurns')
    BY <2>2, <2>3, <2>6, AppendOrdered DEF LoopInv, TurnsInOrder
  <2>8. \A u \in Turns : tstate'[u] = "none" <=> u > turns'
    <3> SUFFICES ASSUME NEW u \in Turns
                 PROVE  tstate'[u] = "none" <=> u > turns'
      OBVIOUS
    <3>1. CASE u = t
      BY <2>2, <2>3, <2>4, <3>1
    <3>2. CASE u # t
      <4>1. tstate[u] = "none" <=> u > turns
        BY DEF LoopInv, TurnsInOrder
      <4>2. u \in Nat /\ tstate'[u] = tstate[u]
        BY <2>4, <2>5, <3>2
      <4> QED
        BY <1>1, <2>1, <2>2, <3>2, <4>1, <4>2
    <3> QED
      BY <3>1, <3>2
  <2>9. \A u \in Turns : tstate'[u] = "queued" <=> u \in Elems(pendingTurns')
    BY <2>3, <2>4 DEF LoopInv, TurnsInOrder
  <2>10. \A u \in Turns : tstate'[u] = "running" <=> u = active'
    BY <1>1, <2>2, <2>4, <2>5 DEF LoopInv, TurnsInOrder
  <2>11. TurnsInOrder'
    BY <2>7, <2>8, <2>9, <2>10 DEF TurnsInOrder
  <2> QED
    BY <2>2, <2>3, <2>4, <2>11 DEF Elems
<1>3. CASE Joins(r) \/ StandsBy(r)
  <2>1. UNCHANGED <<turns, tstate, pendingTurns>>
    BY <1>3 DEF Joins, StandsBy
  <2>2. TurnsInOrder'
    BY <1>1, <2>1 DEF LoopInv, TurnsInOrder
  <2>3. standalone' \in Seq(Reqs) /\ Elems(standalone') \subseteq Elems(standalone) \cup {r}
    <3>1. CASE standalone' = standalone
      BY <1>1, <3>1
    <3>2. CASE standalone' = Append(standalone, r)
      BY <1>1, <3>2, AppendElems
    <3> QED
      BY <1>3, <3>1, <3>2 DEF Joins, StandsBy
  <2>4. Elems(standalone') \cap (Elems(held') \cup Elems(releasing')) = {}
    BY <2>3 DEF AdmitsAs, Admits, LoopInv, LinesApart
  <2> QED
    BY <1>1, <2>1, <2>2, <2>3, <2>4
<1> QED
  BY <1>2, <1>3 DEF AdmitsAs

\* Every turn was made for the request of a sender: the bound on both stays true.
LEMMA AdmittedCounts ==
  ASSUME LoopInv, NEW r, AdmitsAs(r), NewTurn(r) => r \in Senders', Senders \subseteq Senders',
         born' \in 0..(MaxSent + MaxConts), 1..born' \subseteq Senders' \cup Asked',
         Cardinality(Senders') <= MaxSent, Cardinality(Asked') <= MaxConts, Room'
  PROVE  Counted'
<1>1. turns \in Nat /\ turns \in 0..MaxSent /\ MaxSent \in Nat
  BY LoopAssumption DEF LoopInv, Counted
<1>2. ASSUME NEW t \in 1..turns
      PROVE  \E q \in Senders' : job'[q] = t
  <2>1. PICK q \in Senders : job[q] = t
    BY DEF LoopInv, Counted
  <2>2. q \in Reqs /\ job[q] # 0
    BY <1>1, <2>1 DEF Senders
  <2>3. job'[q] = job[q]
    BY <2>2, AdmittedJobs
  <2> QED
    BY <2>1, <2>3
<1>3. CASE NewTurn(r)
  <2>1. turns' = turns + 1 /\ turns + 1 \in Turns /\ turns + 1 \in 0..MaxSent
    BY <1>1, <1>3, Numbers DEF NewTurn
  <2>2. job'[r] = turns + 1
    BY <1>3, AdmittedJobs DEF NewTurn, Assigns
  <2>3. \A t \in 1..turns' : t \in 1..turns \/ t = turns + 1
    BY <1>1, <2>1
  <2>4. \A t \in 1..turns' : \E q \in Senders' : job'[q] = t
    BY <1>2, <1>3, <2>2, <2>3
  <2> QED
    BY <2>1, <2>4 DEF Counted
<1>4. CASE turns' = turns
  BY <1>1, <1>2, <1>4 DEF Counted
<1> QED
  BY <1>3, <1>4 DEF AdmitsAs, Joins, StandsBy

\* admit() keeps the invariant.
LEMMA AdmitKeeps ==
  ASSUME LoopInv, Inv', NEW r, AdmitsAs(r), NewTurn(r) => r \in Senders', Senders \subseteq Senders',
         born' \in 0..(MaxSent + MaxConts), 1..born' \subseteq Senders' \cup Asked',
         Cardinality(Senders') <= MaxSent, Cardinality(Asked') <= MaxConts, Room',
         kind' \in [Reqs -> Kinds \cup {"none"}],
         rstate' \in [Reqs -> {"none", "pending", "materialized", "aborted"}],
         held' \in Seq(Reqs), releasing' \in Seq(Reqs), Ordered(held'), Ordered(releasing'),
         Elems(held') \cap Elems(releasing') = {},
         UNCHANGED <<stop, steps>>, LoopTypes', RunTypes',
         pc' \in {"started", "begin", "resume"} => current = 0, pc' \in InStep => current # 0
  PROVE  LoopInv'
<1>1. Requests'
  BY NewTurnRequests, JoinsRequests, StandsByRequests DEF AdmitsAs
<1>2. Counted'
  BY AdmittedCounts
<1>3. TurnsInOrder' /\ LinesApart'
  BY AdmittedLines DEF LinesApart
<1>4. Types'
  <2>1. UNCHANGED <<result, delivered, active>>
    BY DEF AdmitsAs, Admits
  <2>2. ReqTypes'
    BY <2>1, AdmittedJobs DEF LoopInv, Types, ReqTypes
  <2>3. TurnTypes' /\ LineTypes'
    BY <2>1, AdmittedJobs, AdmittedLines DEF LoopInv, Types, TurnTypes, LineTypes
  <2> QED
    BY <2>2, <2>3 DEF Types
<1>5. CurrentAt'
  <2>1. current' = current /\ active' = active
    BY DEF AdmitsAs, Admits
  <2>2. CASE current # 0
    <3>1. current \in Reqs /\ job[current] # 0
      BY <2>2 DEF LoopInv, CurrentAt, Types, RunTypes
    <3>2. current # r /\ job'[current] = job[current] /\ step'[current] = step[current]
      BY <3>1, AdmittedJobs
    <3>3. kind'[current] = kind[current] /\ rstate'[current] = rstate[current]
      BY <3>1, <3>2 DEF AdmitsAs, Admits
    <3> QED
      BY <2>1, <2>2, <3>2, <3>3 DEF LoopInv, CurrentAt
  <2>3. CASE current = 0
    BY <2>1, <2>3 DEF CurrentAt, InStep
  <2> QED
    BY <2>2, <2>3
<1> QED
  BY <1>1, <1>2, <1>3, <1>4, <1>5 DEF LoopInv

\* What a request that waits is.
LEMMA WaitingFacts ==
  ASSUME LoopInv, NEW r \in Waiting
  PROVE  /\ r \in Reqs /\ RequestAt(r) /\ r <= born /\ job[r] = 0 /\ step[r] = "none"
         /\ kind[r] \in Kinds /\ rstate[r] \in {"pending", "aborted"} /\ delivered[r] = 0
         /\ rstate[r] = "pending" => assign[r] = "waiting"
         /\ \A u \in Turns : r \notin Elems(queue[u])
<1>1. r \in Reqs
  BY DEF Waiting, LoopInv, Types, LineTypes, Elems
<1>2. RequestAt(r) /\ r \in Nat /\ born \in Nat
  BY <1>1, Numbers DEF LoopInv, Requests, Counted
<1>3. r <= born /\ job[r] = 0 /\ rstate[r] # "materialized"
  BY <1>2 DEF RequestAt, WaitsAt
<1>4. kind[r] # "none" /\ rstate[r] # "none" /\ step[r] = "none"
  BY <1>2, <1>3 DEF RequestAt, KnownAt
<1>5. kind[r] \in Kinds /\ rstate[r] \in {"pending", "aborted"}
  BY <1>1, <1>3, <1>4 DEF LoopInv, Types, ReqTypes
<1>6. delivered[r] = 0
  BY <1>2, <1>5 DEF RequestAt, StepAt
<1>7. rstate[r] = "pending" => assign[r] = "waiting"
  BY <1>2 DEF RequestAt, WaitsAt
<1>8. \A u \in Turns : r \notin Elems(queue[u])
  BY <1>2, <1>3, Numbers DEF RequestAt, QueuedAt
<1> QED
  BY <1>1, <1>2, <1>3, <1>4, <1>5, <1>6, <1>7, <1>8

\* A request of a sender that asks for a turn finds a number for it.
LEMMA TurnForWaiting ==
  ASSUME LoopInv, NEW r \in Waiting, kind[r] \in {"prompt", "notification"}
  PROVE  turns + 1 \in Turns /\ r \in Senders
<1>1. r \in Reqs /\ r <= born /\ job[r] = 0 /\ r \in 1..born
  BY WaitingFacts, Numbers DEF LoopInv, Counted
<1>2. r \in Senders
  BY <1>1 DEF LoopInv, Counted, Asked
<1> QED
  BY <1>1, <1>2, RoomForTurn DEF LoopInv

\* One held admission is dropped: it was aborted, or is refused now.
LEMMA HeldDroppedKeeps ==
  ASSUME LoopInv, Inv', NEW r, r = Head(releasing), releasing # <<>>, releasing' = Tail(releasing),
         pc \notin {"begin", "started", "ended"}, pc' \in {"release", pc},
         rstate' = [rstate EXCEPT ![r] = "aborted"],
         (assign' = assign /\ rstate[r] = "aborted") \/ assign' = [assign EXCEPT ![r] = "rejected"],
         UNCHANGED <<born, kind, job, step, result, delivered, turnVars, pendingTurns, active,
                     standalone, held, depth, disposing, waiters, runVars>>
  PROVE  LoopInv'
<1>1. releasing \in Seq(Reqs) /\ releasing \in Seq(Nat) /\ Ordered(releasing)
  BY Numbered DEF LoopInv, Types, LineTypes, LinesApart
<1>2. /\ Ordered(releasing') /\ Elems(releasing') = Elems(releasing) \ {r}
      /\ releasing' \in Seq(Reqs) /\ r \in Reqs /\ r \in Elems(releasing)
  BY <1>1, TailOrdered, TailElems
<1>3. UNCHANGED <<turns, tstate, queue, stop>>
      /\ UNCHANGED <<steps, current, finish, lastFailed, attempts, outcome>>
  BY DEF turnVars, runVars
<1>4. r \in Waiting /\ LinesApart' /\ Waiting' = Waiting \ {r}
  BY <1>2 DEF LoopInv, LinesApart, Waiting
<1>5. /\ rstate'[r] = "aborted" /\ assign'[r] # "waiting" /\ assign'[r] # "resolved" /\ assign'[r] # "none"
      /\ \A q \in Reqs \ {r} : rstate'[q] = rstate[q] /\ assign'[q] = assign[q]
  <2>1. job[r] = 0 /\ rstate[r] # "none" /\ RequestAt(r)
    BY <1>4, WaitingFacts
  <2>2. rstate[r] = "aborted" => assign[r] \notin {"waiting", "resolved", "none"}
    BY <1>2, <2>1 DEF RequestAt, KnownAt, WaitsAt
  <2> QED
    BY <1>2, <2>2 DEF LoopInv, Types, ReqTypes
<1>6. Asked' = Asked
  BY DEF Asked
<1>7. Room' /\ pc' \in Pcs
  BY <1>3, <1>6 DEF LoopInv, Counted, Room, Types, RunTypes, Pcs
<1>8. Counted' /\ TurnsInOrder'
  <2>1. Counted'
    BY <1>3, <1>7, CountedKept DEF LoopInv
  <2>2. TurnsInOrder'
    BY <1>3 DEF LoopInv, TurnsInOrder
  <2> QED
    BY <2>1, <2>2
<1>9. Types'
  <2>1. ReqTypes'
    BY <1>2 DEF LoopInv, Types, ReqTypes
  <2>2. RunTypes' /\ LoopTypes'
    BY <1>3, <1>7 DEF LoopInv, Types, RunTypes, LoopTypes
  <2>3. TurnTypes' /\ LineTypes'
    BY <1>2, <1>3 DEF LoopInv, Types, TurnTypes, LineTypes
  <2> QED
    BY <2>1, <2>2, <2>3 DEF Types
<1>10. CurrentAt'
  <2>1. CASE current # 0
    <3>1. current \in Reqs /\ current # r
      BY <1>4, <2>1, WaitingFacts DEF LoopInv, CurrentAt, Types, RunTypes
    <3> QED
      BY <1>3, <1>5, <2>1, <3>1 DEF LoopInv, CurrentAt
  <2>2. CASE current = 0
    BY <1>3, <2>2 DEF LoopInv, CurrentAt
  <2> QED
    BY <2>1, <2>2
<1>11. ASSUME NEW q \in Reqs
       PROVE  RequestAt(q)'
  <2>1. RequestAt(q)
    BY DEF LoopInv, Requests
  <2>2. CASE q = r
    <3>0. job[q] = 0 /\ rstate[q] # "none" /\ delivered[q] = 0 /\ step[q] = "none"
      BY <1>4, <2>2, WaitingFacts
    <3>1. KnownAt(q)'
      BY <1>3, <1>5, <2>1, <2>2, <3>0 DEF RequestAt, KnownAt
    <3>2. WaitsAt(q)'
      BY <1>4, <1>5, <2>2 DEF WaitsAt
    <3>3. QueuedAt(q)'
      BY <1>3, <2>1 DEF RequestAt, QueuedAt
    <3>4. StepAt(q)'
      BY <1>3, <1>5, <2>2, <3>0 DEF StepAt, Ends
    <3> QED
      BY <3>1, <3>2, <3>3, <3>4 DEF RequestAt
  <2>3. CASE q # r
    <3>1. rstate'[q] = rstate[q] /\ assign'[q] = assign[q] /\ (q \in Waiting' <=> q \in Waiting)
      BY <1>4, <1>5, <2>3
    <3>2. KnownAt(q)'
      BY <1>3, <2>1, <3>1 DEF RequestAt, KnownAt
    <3>3. WaitsAt(q)'
      BY <1>3, <2>1, <3>1 DEF RequestAt, WaitsAt
    <3>4. QueuedAt(q)'
      BY <1>3, <2>1 DEF RequestAt, QueuedAt
    <3>5. StepAt(q)'
      BY <1>3, <2>1, <3>1 DEF RequestAt, StepAt
    <3> QED
      BY <3>2, <3>3, <3>4, <3>5 DEF RequestAt
  <2> QED
    BY <2>2, <2>3
<1> QED
  BY <1>4, <1>8, <1>9, <1>10, <1>11 DEF LoopInv, Requests

\* One held admission.
LEMMA AdmitHeldKeeps ==
  ASSUME LoopInv, Inv', AdmitHeld
  PROVE  LoopInv'
<1>1. PICK r : r = Head(releasing)
  OBVIOUS
<1>2. PICK p : p = IF active = 0 THEN "release" ELSE pc
  OBVIOUS
<1>3. /\ releasing # <<>> /\ pc \notin {"pump", "begin", "started", "ended"}
      /\ releasing' = Tail(releasing)
      /\ UNCHANGED <<born, kind, result, delivered, stop, active, held, depth, disposing, waiters, runVars>>
  BY DEF AdmitHeld, Publishing
<1>4. releasing \in Seq(Reqs) /\ releasing \in Seq(Nat) /\ Ordered(releasing)
  BY Numbered DEF LoopInv, Types, LineTypes, LinesApart
<1>5. /\ Ordered(releasing') /\ Elems(releasing') = Elems(releasing) \ {r}
      /\ releasing' \in Seq(Reqs) /\ r \in Reqs /\ r \in Elems(releasing)
  BY <1>1, <1>3, <1>4, TailOrdered, TailElems
<1>6. r \in Waiting /\ r \notin Elems(held) /\ r \notin Elems(standalone)
      /\ held \in Seq(Reqs) /\ Ordered(held) /\ Elems(held) \cap Elems(releasing') = {}
  BY <1>5 DEF LoopInv, LinesApart, Waiting, Types, LineTypes
<1>7. CASE /\ rstate[r] = "aborted" /\ pc' = p
           /\ UNCHANGED <<rstate, assign, job, step, queue, turns, tstate, standalone, pendingTurns>>
  <2>1. rstate' = [rstate EXCEPT ![r] = "aborted"]
    BY <1>5, <1>7 DEF LoopInv, Types, ReqTypes
  <2>2. pc' \in {"release", pc} /\ UNCHANGED turnVars
    BY <1>2, <1>3, <1>7 DEF turnVars
  <2> QED
    BY <1>1, <1>3, <1>7, <2>1, <2>2, HeldDroppedKeeps
<1>8. CASE /\ rstate[r] # "aborted" /\ rstate' = Aborted({r}) /\ RejectAssignment(r) /\ pc' = p
           /\ UNCHANGED <<job, step, queue, turns, tstate, standalone, pendingTurns>>
  <2>1. rstate[r] = "pending"
    BY <1>6, <1>8, WaitingFacts
  <2>2. rstate' = [rstate EXCEPT ![r] = "aborted"]
    BY <1>5, <1>8, <2>1 DEF Aborted, LoopInv, Types, ReqTypes
  <2>3. pc' \in {"release", pc} /\ UNCHANGED turnVars /\ assign' = [assign EXCEPT ![r] = "rejected"]
    BY <1>2, <1>3, <1>8 DEF turnVars, RejectAssignment
  <2> QED
    BY <1>1, <1>3, <1>8, <2>2, <2>3, HeldDroppedKeeps
<1>9. CASE rstate[r] # "aborted" /\ Admit(r, kind[r], p) /\ UNCHANGED rstate
  <2>1. /\ r \in Reqs /\ r <= born /\ job[r] = 0 /\ step[r] = "none" /\ kind[r] \in Kinds
        /\ rstate[r] = "pending" /\ delivered[r] = 0
    BY <1>6, <1>9, WaitingFacts
  <2>2. kind[r] \in {"prompt", "notification"} => turns + 1 \in Turns /\ r \in Senders
    BY <1>6, TurnForWaiting
  <2>3. TurnTypes /\ LineTypes
    BY DEF LoopInv, Types
  <2>4. NewTurn(r) \/ (Joins(r) /\ pc' = p) \/ (StandsBy(r) /\ pc' = p)
    BY <1>9, <2>1, <2>2, <2>3, AdmitFacts
  <2>5. UNCHANGED <<steps, current, finish, lastFailed, attempts, outcome>>
    BY <1>3 DEF runVars
  <2>5a. born \in Nat
    BY DEF LoopInv, Counted
  <2>6. Admits(r)
    BY <1>3, <1>5, <1>6, <1>9, <2>1, <2>5, <2>5a DEF Admits
  <2>7. Senders' = Senders /\ Asked' = Asked
    BY <1>3 DEF Senders, Asked
  <2>8. NewTurn(r) => r \in Senders'
    <3>1. NewTurn(r) => kind[r] \in {"prompt", "notification"}
      <4>1. Admission(kind[r]) \in {"newTurn", "activeOrNewTurn"} => kind[r] \in {"prompt", "notification"}
        BY <2>1 DEF Admission, Kinds
      <4>2. NewTurn(r) => turns' # turns
        BY DEF NewTurn, LoopInv, Counted
      <4> QED
        BY <1>9, <4>1, <4>2 DEF Admit
    <3> QED
      BY <2>2, <2>7, <3>1
  <2>9. pc' \in {"pump", "release", pc}
    BY <1>2, <2>4 DEF NewTurn
  <2>10. Room' /\ RunTypes' /\ LoopTypes'
    BY <1>3, <2>5, <2>7, <2>9 DEF LoopInv, Counted, Room, Types, RunTypes, LoopTypes, Pcs
  <2>11. /\ pc' \in {"started", "begin", "resume"} => current = 0
         /\ pc' \in InStep => current # 0
    BY <2>9 DEF LoopInv, CurrentAt, InStep
  <2>12. /\ born' \in 0..(MaxSent + MaxConts) /\ 1..born' \subseteq Senders' \cup Asked'
         /\ Cardinality(Senders') <= MaxSent /\ Cardinality(Asked') <= MaxConts
    BY <1>3, <2>7 DEF LoopInv, Counted
  <2>13. /\ kind' \in [Reqs -> Kinds \cup {"none"}]
         /\ rstate' \in [Reqs -> {"none", "pending", "materialized", "aborted"}]
    BY <1>3, <1>9 DEF LoopInv, Types, ReqTypes
  <2>14. AdmitsAs(r)
    BY <2>4, <2>6 DEF AdmitsAs
  <2> QED
    BY <1>3, <1>5, <1>6, <2>5, <2>7, <2>8, <2>10, <2>11, <2>12, <2>13, <2>14, AdmitKeeps
<1> QED
  BY <1>1, <1>2, <1>7, <1>8, <1>9 DEF AdmitHeld

\* The next number, before the request that gets it is enqueued.
LEMMA FreshFacts ==
  ASSUME LoopInv, NEW r \in Reqs, r = born + 1
  PROVE  /\ RequestAt(r) /\ born \in Nat /\ r > born
         /\ kind[r] = "none" /\ rstate[r] = "none" /\ assign[r] = "none" /\ job[r] = 0
         /\ step[r] = "none" /\ delivered[r] = 0 /\ r \notin Waiting
         /\ \A q \in Waiting : q < r
         /\ \A u \in Turns : r \notin Elems(queue[u])
         /\ \A q \in Reqs \ {r} : q > r <=> q > born
<1>1. RequestAt(r) /\ born \in Nat /\ r > born /\ \A q \in Reqs : q \in Nat
  BY Numbers DEF LoopInv, Requests, Counted
<1>2. kind[r] = "none" /\ rstate[r] = "none" /\ assign[r] = "none" /\ job[r] = 0 /\ step[r] = "none"
  BY <1>1 DEF RequestAt, KnownAt
<1>3. delivered[r] = 0
  BY <1>1, <1>2 DEF RequestAt, StepAt
<1>4. \A q \in Waiting : q < r
  <2> SUFFICES ASSUME NEW q \in Waiting
               PROVE  q < r
    OBVIOUS
  <2>1. q \in Reqs /\ q <= born
    BY WaitingFacts
  <2> QED
    BY <1>1, <2>1
<1>5. r \notin Waiting
  BY <1>1, <1>4
<1>6. \A u \in Turns : r \notin Elems(queue[u])
  BY <1>1, <1>2, Numbers DEF RequestAt, QueuedAt
<1>7. \A q \in Reqs \ {r} : q > r <=> q > born
  BY <1>1
<1> QED
  BY <1>1, <1>2, <1>3, <1>4, <1>5, <1>6, <1>7

\* The senders' and the aspects' requests after one more was enqueued.
LEMMA FreshCounts ==
  ASSUME LoopInv, NEW r \in Reqs, r = born + 1, born' = r, NEW k, kind' = [kind EXCEPT ![r] = k],
         \/ k \in SenderKinds /\ Cardinality(Senders) < MaxSent
         \/ k \in {"continuation", "landing"} /\ Cardinality(Asked) < MaxConts
  PROVE  /\ k \in Kinds /\ kind' \in [Reqs -> Kinds \cup {"none"}]
         /\ born' \in 0..(MaxSent + MaxConts) /\ 1..born' \subseteq Senders' \cup Asked'
         /\ Senders \subseteq Senders'
         /\ Cardinality(Senders') <= MaxSent /\ Cardinality(Asked') <= MaxConts
         /\ k \in SenderKinds => r \in Senders' /\ Asked' = Asked
<1>1. /\ kind \in [Reqs -> Kinds \cup {"none"}] /\ kind[r] = "none" /\ born \in Nat
      /\ SenderKinds \subseteq Kinds \ {"continuation", "landing"} /\ "none" \notin Kinds
      /\ MaxSent \in Nat /\ MaxConts \in Nat
  BY FreshFacts, LoopAssumption DEF LoopInv, Types, ReqTypes, Kinds
<1>2. k \in Kinds /\ kind'[r] = k /\ \A q \in Reqs \ {r} : kind'[q] = kind[q]
  BY <1>1 DEF Kinds
<1>3. kind' \in [Reqs -> Kinds \cup {"none"}]
  BY <1>1, <1>2
<1>4. r \notin Senders /\ r \notin Asked
  BY <1>1 DEF Senders, Asked
<1>5. /\ IsFiniteSet(Senders) /\ IsFiniteSet(Asked)
      /\ Cardinality(Senders) \in Nat /\ Cardinality(Asked) \in Nat
  BY Numbers, FS_Subset, FS_CardinalityType DEF Senders, Asked
<1>6. IF k \in SenderKinds THEN Senders' = Senders \cup {r} /\ Asked' = Asked
                           ELSE Senders' = Senders /\ Asked' = Asked \cup {r}
  <2>1. CASE k \in SenderKinds
    <3>1. k \notin {"continuation", "landing"}
      BY <1>1, <2>1
    <3>2. Senders' = Senders \cup {r}
      BY <1>2, <2>1 DEF Senders
    <3>3. Asked' = Asked
      BY <1>1, <1>2, <3>1 DEF Asked
    <3> QED
      BY <2>1, <3>2, <3>3
  <2>2. CASE k \in {"continuation", "landing"}
    <3>1. k \notin SenderKinds
      BY <1>1, <2>2
    <3>2. Senders' = Senders
      BY <1>1, <1>2, <3>1 DEF Senders
    <3>3. Asked' = Asked \cup {r}
      BY <1>2, <2>2 DEF Asked
    <3> QED
      BY <3>1, <3>2, <3>3
  <2> QED
    BY <2>1, <2>2
<1>7. /\ Cardinality(Senders \cup {r}) = Cardinality(Senders) + 1
      /\ Cardinality(Asked \cup {r}) = Cardinality(Asked) + 1
  BY <1>4, <1>5, FS_AddElement
<1>8. Cardinality(Senders') <= MaxSent /\ Cardinality(Asked') <= MaxConts
  <2>1. Cardinality(Senders) <= MaxSent /\ Cardinality(Asked) <= MaxConts
    BY DEF LoopInv, Counted
  <2>2. CASE k \in SenderKinds
    <3>1. Cardinality(Senders') = Cardinality(Senders) + 1 /\ Cardinality(Senders) < MaxSent
      BY <1>1, <1>6, <1>7, <2>2
    <3> QED
      BY <1>1, <1>5, <1>6, <2>1, <2>2, <3>1
  <2>3. CASE k \notin SenderKinds
    <3>1. Cardinality(Asked') = Cardinality(Asked) + 1 /\ Cardinality(Asked) < MaxConts
      BY <1>6, <1>7, <2>3
    <3> QED
      BY <1>1, <1>5, <1>6, <2>1, <2>3, <3>1
  <2> QED
    BY <2>2, <2>3
<1>9. born' \in 0..(MaxSent + MaxConts)
  BY Numbers
<1>10. 1..born' \subseteq Senders' \cup Asked'
  <2>1. \A q \in 1..born' : q \in 1..born \/ q = r
    BY <1>1
  <2>2. r \in Senders' \cup Asked' /\ Senders \subseteq Senders' /\ Asked \subseteq Asked'
    BY <1>6
  <2> QED
    BY <2>1, <2>2 DEF LoopInv, Counted
<1> QED
  BY <1>2, <1>3, <1>6, <1>8, <1>9, <1>10

\* A request is held under a lease, or refused.
LEMMA SubmittedAside ==
  ASSUME LoopInv, Inv', NEW r \in Reqs, r = born + 1, born' = r, NEW k,
         kind' = [kind EXCEPT ![r] = k],
         \/ k \in SenderKinds /\ Cardinality(Senders) < MaxSent
         \/ k \in {"continuation", "landing"} /\ Cardinality(Asked) < MaxConts,
         rstate' = [rstate EXCEPT ![r] = "pending"],
         \/ held' = Append(held, r) /\ assign' = [assign EXCEPT ![r] = "waiting"]
         \/ held' = held /\ assign' = [assign EXCEPT ![r] = "rejected"],
         UNCHANGED <<job, step, result, delivered, turns, tstate, queue, stop, pendingTurns, active,
                     standalone, releasing, depth, disposing, waiters, steps, current>>,
         RunTypes', Room', pc' \in {"started", "begin", "resume"} => current = 0,
         pc' \in InStep => current # 0
  PROVE  LoopInv'
<1>1. /\ born \in Nat /\ kind[r] = "none" /\ rstate[r] = "none" /\ job[r] = 0 /\ step[r] = "none"
      /\ delivered[r] = 0 /\ r \notin Waiting /\ \A q \in Waiting : q < r
      /\ \A u \in Turns : r \notin Elems(queue[u])
      /\ \A q \in Reqs \ {r} : q > r <=> q > born
      /\ r \in Nat
  BY FreshFacts, Numbers
<1>2. held \in Seq(Reqs) /\ held \in Seq(Nat) /\ Ordered(held)
  BY Numbered DEF LoopInv, Types, LineTypes, LinesApart
<1>3. held' \in Seq(Reqs) /\ Ordered(held')
      /\ Elems(held') = IF held' = held THEN Elems(held) ELSE Elems(held) \cup {r}
  <2>1. CASE held' = Append(held, r)
    <3>1. \A q \in Elems(held) : q < r
      BY <1>1 DEF Waiting
    <3>2. Elems(held') = Elems(held) \cup {r} /\ held' \in Seq(Reqs) /\ r \notin Elems(held)
      BY <1>1, <1>2, <2>1, AppendElems DEF Waiting
    <3>3. Ordered(held') /\ held' # held
      BY <1>1, <1>2, <2>1, <3>1, <3>2, AppendOrdered
    <3> QED
      BY <3>2, <3>3
  <2>2. CASE held' = held
    BY <1>2, <2>2
  <2> QED
    BY <2>1, <2>2
<1>4. LinesApart'
  BY <1>1, <1>3 DEF LoopInv, LinesApart, Waiting
<1>5. Waiting' = IF held' = held THEN Waiting ELSE Waiting \cup {r}
  BY <1>3 DEF Waiting
<1>6. /\ k \in Kinds /\ kind' \in [Reqs -> Kinds \cup {"none"}]
      /\ born' \in 0..(MaxSent + MaxConts) /\ 1..born' \subseteq Senders' \cup Asked'
      /\ Senders \subseteq Senders'
      /\ Cardinality(Senders') <= MaxSent /\ Cardinality(Asked') <= MaxConts
  BY FreshCounts
<1>7. Counted'
  BY <1>6 DEF LoopInv, Counted
<1>8. TurnsInOrder'
  BY DEF LoopInv, TurnsInOrder
<1>9. Types'
  <2>1. ReqTypes'
    BY <1>6 DEF LoopInv, Types, ReqTypes
  <2>2. TurnTypes' /\ LineTypes' /\ LoopTypes'
    BY <1>3 DEF LoopInv, Types, TurnTypes, LineTypes, LoopTypes
  <2> QED
    BY <2>1, <2>2 DEF Types
<1>10. /\ kind'[r] = k /\ rstate'[r] = "pending" /\ k # "none"
       /\ assign'[r] = IF held' = held THEN "rejected" ELSE "waiting"
       /\ \A q \in Reqs \ {r} : kind'[q] = kind[q] /\ rstate'[q] = rstate[q] /\ assign'[q] = assign[q]
  <2>1. held' = Append(held, r) => held' # held
    BY <1>1, <1>2, AppendElems DEF Waiting
  <2>2. k # "none" /\ ReqTypes
    BY <1>6 DEF Kinds, LoopInv, Types
  <2> QED
    BY <2>1, <2>2 DEF ReqTypes
<1>11. CurrentAt'
  <2>1. CASE current # 0
    <3>1. current \in Reqs /\ current # r
      BY <1>1, <2>1 DEF LoopInv, CurrentAt, Types, RunTypes
    <3> QED
      BY <1>10, <2>1, <3>1 DEF LoopInv, CurrentAt
  <2>2. CASE current = 0
    BY <2>2 DEF LoopInv, CurrentAt, InStep
  <2> QED
    BY <2>1, <2>2
<1>12. ASSUME NEW q \in Reqs
       PROVE  RequestAt(q)'
  <2>1. RequestAt(q)
    BY DEF LoopInv, Requests
  <2>2. CASE q # r
    <3>1. /\ kind'[q] = kind[q] /\ rstate'[q] = rstate[q] /\ assign'[q] = assign[q]
          /\ q > born' <=> q > born
          /\ q \in Waiting' <=> q \in Waiting
      BY <1>1, <1>5, <1>10, <2>2
    <3>2. KnownAt(q)'
      BY <2>1, <3>1 DEF RequestAt, KnownAt
    <3>3. WaitsAt(q)'
      <4>1. born \in Nat /\ born' \in Nat /\ q \in Nat
        BY <1>1, Numbers
      <4> QED
        BY <2>1, <3>1, <4>1 DEF RequestAt, WaitsAt
    <3>4. QueuedAt(q)'
      BY <2>1 DEF RequestAt, QueuedAt
    <3>5. StepAt(q)'
      BY <2>1, <3>1 DEF RequestAt, StepAt
    <3> QED
      BY <3>2, <3>3, <3>4, <3>5 DEF RequestAt
  <2>3. CASE q = r
    <3>1. turns \in Nat
      BY DEF LoopInv, Counted
    <3>2. KnownAt(q)'
      BY <1>1, <1>10, <2>3, <3>1 DEF KnownAt
    <3>3. WaitsAt(q)'
      BY <1>1, <1>5, <1>10, <2>3 DEF WaitsAt
    <3>4. QueuedAt(q)'
      BY <1>1, <2>3 DEF QueuedAt
    <3>5. StepAt(q)'
      BY <1>1, <1>10, <2>3 DEF StepAt, Ends
    <3> QED
      BY <3>2, <3>3, <3>4, <3>5 DEF RequestAt
  <2> QED
    BY <2>2, <2>3
<1> QED
  BY <1>4, <1>7, <1>8, <1>9, <1>11, <1>12 DEF LoopInv, Requests

\* enqueue().
LEMMA SubmitKeeps ==
  ASSUME LoopInv, Inv', NEW k, NEW p, Submit(k, p), UNCHANGED <<steps, current>>,
         \/ k \in SenderKinds /\ Cardinality(Senders) < MaxSent /\ UNCHANGED finish /\ p = pc
         \/ k \in {"continuation", "landing"} /\ Cardinality(Asked) < MaxConts /\ p = "wrap"
            /\ active # 0 /\ current # 0,
         finish' \in {"completed", "filtered", "tool_calls", "stop"},
         lastFailed' \in Reqs \cup {0}, attempts' \in 0..MaxAttempts, outcome' = outcome
  PROVE  LoopInv'
<1>1. PICK r : r = born + 1
  OBVIOUS
<1>2. r \in Reqs
  BY <1>1, RoomForRequest DEF LoopInv
<1>3. /\ born' = r /\ kind' = [kind EXCEPT ![r] = k] /\ rstate' = [rstate EXCEPT ![r] = "pending"]
      /\ UNCHANGED <<result, delivered, stop, active, releasing, depth, disposing, waiters>>
  BY <1>1 DEF Submit
<1>4. /\ k \in Kinds /\ kind' \in [Reqs -> Kinds \cup {"none"}]
      /\ born' \in 0..(MaxSent + MaxConts) /\ 1..born' \subseteq Senders' \cup Asked'
      /\ Senders \subseteq Senders'
      /\ Cardinality(Senders') <= MaxSent /\ Cardinality(Asked') <= MaxConts
      /\ k \in SenderKinds => r \in Senders' /\ Asked' = Asked
  BY <1>1, <1>2, <1>3, FreshCounts
<1>5. ASSUME pc' = p \/ (k \in SenderKinds /\ pc' = "pump")
      PROVE  /\ RunTypes' /\ Room'
             /\ pc' \in {"started", "begin", "resume"} => current = 0
             /\ pc' \in InStep => current # 0
  <2>1. pc' \in Pcs
    BY <1>5 DEF LoopInv, Types, RunTypes, Pcs
  <2>2. RunTypes'
    BY <2>1 DEF LoopInv, Types, RunTypes
  <2>3. Room'
    BY <1>4, <1>5 DEF LoopInv, Counted, Room
  <2> QED
    BY <1>5, <2>2, <2>3 DEF LoopInv, CurrentAt, InStep
<1>6. CASE /\ pc' = p
           /\ UNCHANGED <<queue, job, step, turns, tstate, standalone, pendingTurns>>
           /\ \/ held' = Append(held, r) /\ assign' = [assign EXCEPT ![r] = "waiting"]
              \/ held' = held /\ assign' = [assign EXCEPT ![r] = "rejected"]
  <2>1. /\ RunTypes' /\ Room'
        /\ pc' \in {"started", "begin", "resume"} => current = 0
        /\ pc' \in InStep => current # 0
    BY <1>5, <1>6
  <2> QED
    BY <1>1, <1>2, <1>3, <1>6, <2>1, SubmittedAside
<1>7. CASE depth = 0 /\ Admit(r, k, p) /\ UNCHANGED held
  <2>1. k \in {"prompt", "notification"} => k \in SenderKinds /\ Cardinality(Senders) < MaxSent
    OBVIOUS
  <2>2. k \in {"prompt", "notification"} => turns + 1 \in Turns
    BY <2>1, RoomForTurn DEF LoopInv
  <2>3. TurnTypes /\ LineTypes
    BY DEF LoopInv, Types
  <2>4. NewTurn(r) \/ (Joins(r) /\ pc' = p) \/ (StandsBy(r) /\ pc' = p)
    BY <1>2, <1>4, <1>7, <2>2, <2>3, AdmitFacts
  <2>5. NewTurn(r) => k \in {"prompt", "notification"} /\ k \in SenderKinds /\ r \in Senders'
    <3>1. Admission(k) \in {"newTurn", "activeOrNewTurn"} => k \in {"prompt", "notification"}
      BY <1>4 DEF Admission, Kinds
    <3>2. NewTurn(r) => turns' # turns
      BY DEF NewTurn, LoopInv, Counted
    <3> QED
      BY <1>4, <1>7, <2>1, <3>1, <3>2 DEF Admit
  <2>6. pc' = p \/ (k \in SenderKinds /\ pc' = "pump")
    BY <2>4, <2>5 DEF NewTurn
  <2>7. /\ job[r] = 0 /\ step[r] = "none" /\ delivered[r] = 0 /\ r \notin Waiting /\ born \in Nat
        /\ \A q \in Reqs \ {r} : q > r <=> q > born
    BY <1>1, <1>2, FreshFacts
  <2>8. /\ kind'[r] = k /\ rstate'[r] = "pending"
        /\ \A q \in Reqs \ {r} : kind'[q] = kind[q] /\ rstate'[q] = rstate[q]
        /\ rstate' \in [Reqs -> {"none", "pending", "materialized", "aborted"}]
    BY <1>2, <1>3 DEF LoopInv, Types, ReqTypes
  <2>9. Admits(r)
    <3>1. /\ r \notin Elems(standalone) \cup Elems(held') \cup Elems(releasing')
          /\ Elems(held') \cup Elems(releasing') = (Elems(held) \cup Elems(releasing)) \ {r}
      BY <1>3, <1>7, <2>7 DEF Waiting
    <3>2. born' \in Nat /\ r <= born'
      BY <1>1, <1>3, <2>7
    <3> QED
      BY <1>2, <1>3, <1>4, <2>7, <2>8, <3>1, <3>2 DEF Admits
  <2>10. AdmitsAs(r)
    BY <2>4, <2>9 DEF AdmitsAs
  <2>11. /\ held' \in Seq(Reqs) /\ releasing' \in Seq(Reqs) /\ Ordered(held') /\ Ordered(releasing')
         /\ Elems(held') \cap Elems(releasing') = {} /\ LoopTypes' /\ UNCHANGED <<stop, steps>>
    BY <1>3, <1>7 DEF LoopInv, LinesApart, Types, LineTypes, LoopTypes
  <2>12. /\ RunTypes' /\ Room'
         /\ pc' \in {"started", "begin", "resume"} => current = 0
         /\ pc' \in InStep => current # 0
    BY <1>5, <2>6
  <2> QED
    BY <1>4, <2>5, <2>8, <2>10, <2>11, <2>12, AdmitKeeps
<1> QED
  BY <1>1, <1>6, <1>7 DEF Submit

\* enqueue() by a sender.
LEMMA EnqueueKeeps ==
  ASSUME LoopInv, Inv', NEW k \in SenderKinds, Enqueue(k)
  PROVE  LoopInv'
<1>1. /\ Submit(k, pc) /\ Cardinality(Senders) < MaxSent
      /\ UNCHANGED <<steps, current, finish, lastFailed, attempts, outcome>>
  BY DEF Enqueue, Senders, runVars
<1>2. /\ finish' \in {"completed", "filtered", "tool_calls", "stop"}
      /\ lastFailed' \in Reqs \cup {0} /\ attempts' \in 0..MaxAttempts
  BY <1>1 DEF LoopInv, Types, RunTypes
<1> QED
  BY <1>1, <1>2, SubmitKeeps

\* The hooks after a step.
LEMMA StepHooksKeeps ==
  ASSUME LoopInv, Inv', NEW b \in BOOLEAN, StepHooks(b)
  PROVE  LoopInv'
<1>1. pc = "after" /\ ResetAttempts /\ finish' \in {"completed", "filtered", "tool_calls", "stop"}
      /\ finish' \in {finish, "stop"}
  BY DEF StepHooks, Resumes, LoopInv, Types, RunTypes
<1>2. CASE Asks /\ Submit(AskKind, "wrap") /\ UNCHANGED <<steps, current, outcome>>
  <2>1. finish = "tool_calls" /\ AskKind \in {"continuation", "landing"}
    BY <1>2 DEF Asks, AskKind
  <2>2. Cardinality(Asked) < MaxConts /\ active # 0 /\ current # 0
    BY <1>1, <2>1 DEF LoopInv, Counted, Room, CurrentAt
  <2>3. lastFailed' \in Reqs \cup {0} /\ attempts' \in 0..MaxAttempts
    BY <1>1, LoopAssumption DEF ResetAttempts
  <2> QED
    BY <1>1, <1>2, <2>1, <2>2, <2>3, SubmitKeeps
<1>3. CASE /\ Return("cancelled") \/ (pc' = "wrap" /\ UNCHANGED <<rstate, queue, outcome>>)
           /\ UNCHANGED <<step, current>> /\ RunFrame
  BY <1>1, <1>3, NoStepAskedKeeps
<1> QED
  BY <1>2, <1>3 DEF StepHooks

-----------------------------------------------------------------------------
(* The invariant and what follows from it.                                 *)

\* A loop that has just been constructed.
LEMMA InitLoop ==
  ASSUME Init
  PROVE  LoopInv
<1>1. Elems(<<>>) = {} /\ Ordered(<<>>) /\ <<>> \in Seq(Reqs) /\ <<>> \in Seq(Turns)
  BY DEF Elems, Ordered
<1>2. /\ MaxSent \in Nat /\ MaxConts \in Nat /\ MaxAttempts \in Nat /\ MaxLeases \in Nat
      /\ MaxWaiters \in Nat /\ SenderKinds \subseteq Kinds \ {"continuation", "landing"}
  BY LoopAssumption
<1>3. Inv
  BY InitInv
<1>4. Types
  <2>1. ReqTypes /\ RunTypes
    BY <1>2 DEF Init, ReqTypes, RunTypes, Pcs, Terminal
  <2>2. queue \in [Turns -> Seq(Reqs)] /\ tstate \in [Turns -> Terminal \cup {"none", "queued", "running"}]
    BY <1>1 DEF Init
  <2>3. stop \in [Turns -> BOOLEAN] /\ disposing \in BOOLEAN
    BY DEF Init
  <2>4. LineTypes /\ depth \in 0..MaxLeases /\ waiters \in 0..MaxWaiters
    BY <1>1, <1>2 DEF Init, LineTypes
  <2> QED
    BY <2>1, <2>2, <2>3, <2>4 DEF Types, TurnTypes, LoopTypes
<1>5. Requests
  <2> SUFFICES ASSUME NEW q \in Reqs
               PROVE  RequestAt(q)
    BY DEF Requests
  <2>1. q \in Nat /\ q > 0
    BY Numbers
  <2>2. Waiting = {}
    BY <1>1 DEF Init, Waiting
  <2>3. KnownAt(q) /\ WaitsAt(q)
    BY <2>1, <2>2 DEF Init, KnownAt, WaitsAt
  <2>4. QueuedAt(q) /\ StepAt(q)
    BY <1>1 DEF Init, QueuedAt, StepAt, Ends
  <2> QED
    BY <2>3, <2>4 DEF RequestAt
<1>6. LinesApart /\ CurrentAt
  BY <1>1 DEF Init, LinesApart, CurrentAt
<1>7. TurnsInOrder
  BY <1>1, Numbers DEF Init, TurnsInOrder
<1>8. Counted
  <2>1. Senders = {} /\ Asked = {}
    BY <1>2 DEF Init, Senders, Asked, Kinds
  <2>2. Cardinality({}) = 0
    BY FS_EmptySet
  <2>3. Room
    BY DEF Init, Room
  <2> QED
    BY <1>2, <2>1, <2>2, <2>3 DEF Init, Counted
<1> QED
  BY <1>3, <1>4, <1>5, <1>6, <1>7, <1>8 DEF LoopInv

\* A public call keeps the invariant.
LEMMA CallKeeps ==
  ASSUME LoopInv, Inv', Call
  PROVE  LoopInv'
<1>1. CASE \E k \in SenderKinds : Enqueue(k)
  BY <1>1, EnqueueKeeps
<1>2. CASE CancelActive
  BY <1>2, CancelActiveKeeps
<1>3. CASE \E i \in DOMAIN pendingTurns : CancelQueued(i)
  BY <1>3, CancelQueuedKeeps
<1>4. CASE \E r \in Reqs : CancelStep(r) \/ AbortRequest(r)
  BY <1>4, CancelStepKeeps, AbortRequestKeeps
<1>5. CASE AcquireQuiescence \/ AwaitSettled \/ Dispose
  BY <1>5, AcquireKeeps, AwaitKeeps, DisposeKeeps
<1> QED
  BY <1>1, <1>2, <1>3, <1>4, <1>5 DEF Call

\* A continuation of the loop's own code keeps the invariant.
LEMMA RunKeeps ==
  ASSUME LoopInv, Inv', Run
  PROVE  LoopInv'
<1>1. CASE Pump \/ AdmitHeld \/ Begin
  BY <1>1, PumpKeeps, AdmitHeldKeeps, BeginKeeps
<1>2. CASE StartFails
  <2>1. pc \notin Quiet
    BY <1>2 DEF StartFails, Quiet
  <2>2. PICK type \in Terminal : ReleaseActiveTurn(type)
    BY <1>2 DEF StartFails, Terminal
  <2> QED
    BY <2>1, <2>2, EndKeeps
<1>3. CASE EndTurn
  <2>1. pc \notin Quiet /\ outcome \in Terminal /\ ReleaseActiveTurn(outcome)
    BY <1>3 DEF EndTurn, Quiet, LoopInv, Types, RunTypes
  <2> QED
    BY <2>1, EndKeeps
<1>4. CASE HookDone \/ \E e \in {"retryable", "fatal", "abort"} : StepFails(e)
  BY <1>4, HookDoneKeeps, StepFailsKeeps
<1>5. CASE \E f \in {"completed", "filtered"} : Answered(f)
  <2>1. PICK f \in {"completed", "filtered"} : pc = "llm" /\ FinishStep(f)
    BY <1>5 DEF Answered, Resumes
  <2> QED
    BY <2>1, FinishStepKeeps
<1>6. CASE CallTools
  BY <1>6, CallToolsKeeps
<1>7. CASE \E b \in BOOLEAN : ToolsDone(b)
  <2>1. pc = "tools" /\ (FinishStep("completed") \/ FinishStep("tool_calls"))
    BY <1>7 DEF ToolsDone, Resumes
  <2> QED
    BY <2>1, FinishStepKeeps
<1>8. CASE \E b \in BOOLEAN : StepHooks(b)
  BY <1>8, StepHooksKeeps
<1>9. CASE StepHookFails \/ StepDone \/ Recovered \/ BackoffAborted
  BY <1>9, StepHookFailsKeeps, StepDoneKeeps, RecoveredKeeps, BackoffAbortedKeeps
<1> QED
  BY <1>1, <1>2, <1>3, <1>4, <1>5, <1>6, <1>7, <1>8, <1>9 DEF Run

\* The invariant of the whole state is inductive.
LEMMA StepKeepsLoop ==
  ASSUME LoopInv, [Next]_vars
  PROVE  LoopInv'
<1>1. Inv'
  BY StepKeepsInv DEF LoopInv
<1>2. CASE UNCHANGED vars
  <2>1. UNCHANGED <<reqVars, turns, tstate, queue, stop, pendingTurns, active, standalone, held,
                    releasing, depth, disposing, waiters, pc, runVars>>
    BY <1>2 DEF vars, turnVars, loopVars
  <2>2. stop' \in [Turns -> BOOLEAN] /\ LoopTypes'
    BY <2>1 DEF LoopInv, Types, TurnTypes, LoopTypes
  <2> QED
    BY <1>1, <2>1, <2>2, PlainCallKeeps
<1> QED
  BY <1>1, <1>2, CallKeeps, RunKeeps, ReleaseQuiescenceKeeps DEF Next

\* The invariant of the loop's whole state holds, for any number of requests, turns,
\* steps, attempts, leases and waiters.
LEMMA LoopInvHolds == Spec => []LoopInv
<1>1. Init => LoopInv
  BY InitLoop
<1>2. LoopInv /\ [Next]_vars => LoopInv'
  BY StepKeepsLoop
<1> QED
  BY <1>1, <1>2, PTL DEF Spec

\* The state of the loop keeps its types and its bounds, the bounds on requests and
\* turns included: no call numbers a request or a turn that is not there.
THEOREM TypeCorrect == Spec => []TypeOK
<1>1. LoopInv => TypeOK
  BY TypesHold DEF LoopInv
<1> QED
  BY <1>1, LoopInvHolds, PTL

\* An `assigned' promise is open exactly as long as its request waits in a line.
THEOREM PromisesKept == Spec => []AssignmentsKept
<1>1. LoopInv => AssignmentsKept
  BY DEF LoopInv, Requests, RequestAt, WaitsAt, Waiting, AssignmentsKept
<1> QED
  BY <1>1, LoopInvHolds, PTL

\* A turn that is over has settled all its steps and dropped all its requests.
THEOREM NothingLeft == Spec => []TurnsLeaveNothing
<1>1. LoopInv => TurnsLeaveNothing
  BY DEF LoopInv, Requests, RequestAt, StepAt, Ends, TurnsLeaveNothing
<1> QED
  BY <1>1, LoopInvHolds, PTL

\* A request enters the context once if it was materialized and never if it was not,
\* however often its step is retried, merged or cancelled.
THEOREM EntersOnce == Spec => []DeliveredOnce
<1>1. LoopInv => DeliveredOnce
  BY DEF LoopInv, Requests, RequestAt, StepAt, DeliveredOnce
<1> QED
  BY <1>1, LoopInvHolds, PTL

\* Only the driver of the active turn's step runs, past the ceiling only a landing.
THEOREM OneStepRuns == Spec => []RunningIsCurrent
<1>1. ASSUME LoopInv
      PROVE  RunningIsCurrent
  <2>1. ASSUME NEW r \in Reqs, step[r] = "running"
        PROVE  r = current /\ job[r] = active
    <3>1. r = current /\ r # 0
      BY <1>1, <2>1, Numbers DEF LoopInv, Requests, RequestAt, StepAt
    <3> QED
      BY <1>1, <3>1 DEF LoopInv, CurrentAt
  <2>2. MaxSteps > 0 /\ steps > MaxSteps /\ current # 0 => kind[current] = "landing"
    BY <1>1 DEF LoopInv, CurrentAt
  <2> QED
    BY <2>1, <2>2 DEF RunningIsCurrent
<1> QED
  BY <1>1, LoopInvHolds, PTL

-----------------------------------------------------------------------------
(* The loop implements the queue of turns.                                 *)

\* The operators that TurnQueue has from Filtering are the loop's own.
LEMMA QueueOperators ==
  /\ \A s : Queue!Elems(s) = Elems(s)
  /\ \A s, S : Queue!Without(s, S) = Without(s, S)
<1>1. \A s : Queue!Elems(s) = Elems(s)
  BY DEF Queue!Elems, Elems
<1>2. \A s, S : Queue!Without(s, S) = Without(s, S)
  BY DEF Queue!Without, Without
<1> QED
  BY <1>1, <1>2

\* What leaves the turns alone is a stutter of the queue.
LEMMA QueueStutters ==
  ASSUME UNCHANGED <<pendingTurns, active, tstate>>
  PROVE  UNCHANGED Queue!queueVars
BY DEF Queue!queueVars, Over

\* A turn is made: it is younger than every other.
LEMMA AdmitMaps ==
  ASSUME LoopInv, LoopInv', NEW r, CreateAndQueueTurn(r), active' = active
  PROVE  Queue!Next
<1>1. PICK t : t = turns + 1
  OBVIOUS
<1>2. /\ turns' = t /\ tstate' = [tstate EXCEPT ![t] = "queued"]
      /\ pendingTurns' = Append(pendingTurns, t)
  BY <1>1 DEF CreateAndQueueTurn, CreatePendingTurn, QueueTurn
<1>3. turns \in Nat /\ t \in 1..MaxSent /\ t \in Turns /\ t \in Nat
  BY <1>1, <1>2, LoopAssumption DEF LoopInv, Counted, Turns
<1>4. \A u \in Turns : tstate[u] # "none" => u < t
  BY <1>1, <1>3, Numbers DEF LoopInv, TurnsInOrder
<1>5. Over' = Over
  <2>1. tstate'[t] = "queued" /\ \A u \in Turns \ {t} : tstate'[u] = tstate[u]
    BY <1>2, <1>3 DEF LoopInv, Types, TurnTypes
  <2>2. tstate[t] = "none"
    BY <1>1, <1>3 DEF LoopInv, TurnsInOrder
  <2> QED
    BY <2>1, <2>2 DEF Over, Terminal
<1>6. \A u \in Elems(pendingTurns) \cup Over \cup {active} : u < t
  <2>1. \A u \in Elems(pendingTurns) : u \in Turns /\ tstate[u] = "queued"
    BY DEF LoopInv, Types, LineTypes, TurnsInOrder, Elems
  <2>2. \A u \in Over : u \in Turns /\ tstate[u] # "none"
    BY DEF Over, Terminal
  <2>3. active = 0 \/ (active \in Turns /\ tstate[active] = "running")
    BY DEF LoopInv, Types, LineTypes, TurnsInOrder
  <2>4. 0 < t
    BY <1>3
  <2> QED
    BY <1>4, <2>1, <2>2, <2>3, <2>4
<1>7. Queue!AdmitTurn(t)
  BY <1>2, <1>5, <1>6, QueueOperators DEF Queue!AdmitTurn, Queue!Waits
<1> QED
  BY <1>3, <1>7 DEF Queue!Next

\* enqueue() and the admission of a held request.
LEMMA SubmitMaps ==
  ASSUME LoopInv, LoopInv', NEW k, NEW p, Submit(k, p)
  PROVE  Queue!Next \/ UNCHANGED Queue!queueVars
<1>1. active' = active /\ ((\E r : CreateAndQueueTurn(r)) \/ UNCHANGED <<tstate, pendingTurns>>)
  BY DEF Submit, Admit
<1> QED
  BY <1>1, AdmitMaps, QueueStutters

\* So does the admission of a request that a lease held back.
LEMMA AdmitHeldMaps ==
  ASSUME LoopInv, LoopInv', AdmitHeld
  PROVE  Queue!Next \/ UNCHANGED Queue!queueVars
<1>1. active' = active /\ ((\E r : CreateAndQueueTurn(r)) \/ UNCHANGED <<tstate, pendingTurns>>)
  BY DEF AdmitHeld, Admit
<1> QED
  BY <1>1, AdmitMaps, QueueStutters

\* cancelQueuedTurn() and dispose() withdraw turns that wait.
LEMMA WithdrawMaps ==
  ASSUME LoopInv, NEW S \in SUBSET Elems(pendingTurns), pendingTurns' = Without(pendingTurns, S),
         \A u \in Turns : tstate'[u] = IF u \in S THEN "cancelled" ELSE tstate[u], active' = active
  PROVE  Queue!Next
<1>1. S \subseteq Turns
  BY DEF LoopInv, Types, LineTypes, Elems
<1>2. Over' = Over \cup S
  BY <1>1 DEF Over, Terminal
<1>3. Queue!Withdraw(S)
  BY <1>2, QueueOperators DEF Queue!Withdraw
<1>4. S \in SUBSET Queue!Waits
  BY QueueOperators DEF Queue!Waits
<1> QED
  BY <1>3, <1>4 DEF Queue!Next

\* cancelQueuedTurn() withdraws the one turn.
LEMMA CancelQueuedMaps ==
  ASSUME LoopInv, NEW i \in DOMAIN pendingTurns, CancelQueued(i)
  PROVE  Queue!Next
<1>1. PICK t : t = pendingTurns[i]
  OBVIOUS
<1>2. /\ pendingTurns' = Without(pendingTurns, {t}) /\ tstate' = [tstate EXCEPT ![t] = "cancelled"]
      /\ active' = active
  BY <1>1 DEF CancelQueued
<1>3. {t} \in SUBSET Elems(pendingTurns)
  BY <1>1 DEF Elems
<1>4. t \in Turns /\ \A u \in Turns : tstate'[u] = IF u \in {t} THEN "cancelled" ELSE tstate[u]
  BY <1>2, <1>3 DEF LoopInv, Types, LineTypes, TurnTypes, Elems
<1> QED
  BY <1>2, <1>3, <1>4, WithdrawMaps

\* dispose() withdraws all that wait.
LEMMA DisposeMaps ==
  ASSUME LoopInv, Dispose
  PROVE  Queue!Next
<1>1. PICK gone : gone = Elems(pendingTurns)
  OBVIOUS
<1>2. /\ pendingTurns' = <<>> /\ active' = active
      /\ tstate' = [t \in Turns |-> IF t \in gone THEN "cancelled" ELSE tstate[t]]
  BY <1>1 DEF Dispose
<1>3. Without(pendingTurns, gone) = <<>>
  <2>1. pendingTurns \in Seq(Turns)
    BY DEF LoopInv, Types, LineTypes
  <2>2. PICK w : w = Without(pendingTurns, gone)
    OBVIOUS
  <2>3. w \in Seq(Turns) /\ Elems(w) = {}
    BY <1>1, <2>1, <2>2, WithoutElems
  <2> QED
    BY <2>2, <2>3, EmptyElems
<1>4. \A u \in Turns : tstate'[u] = IF u \in gone THEN "cancelled" ELSE tstate[u]
  BY <1>2
<1> QED
  BY <1>1, <1>2, <1>3, <1>4, WithdrawMaps

\* pumpTurns() starts the oldest turn that waits.
LEMMA PumpMaps ==
  ASSUME LoopInv, Pump
  PROVE  Queue!Next \/ UNCHANGED Queue!queueVars
<1>1. CASE UNCHANGED <<pendingTurns, tstate, active>>
  BY <1>1, QueueStutters
<1>2. CASE MayPump /\ pendingTurns # <<>> /\ StartTurn
  <2>1. PICK t : t = Head(pendingTurns)
    OBVIOUS
  <2>2. /\ active = 0 /\ active' = t /\ pendingTurns' = Tail(pendingTurns)
        /\ tstate' = [tstate EXCEPT ![t] = "running"]
    BY <1>2, <2>1 DEF MayPump, StartTurn
  <2>3. pendingTurns \in Seq(Turns)
    BY DEF LoopInv, Types, LineTypes
  <2>4. t \in Turns /\ t \in Elems(pendingTurns)
    BY <1>2, <2>1, <2>3, TailElems
  <2>5. /\ tstate[t] = "queued" /\ tstate'[t] = "running"
        /\ \A u \in Turns \ {t} : tstate'[u] = tstate[u]
    BY <2>2, <2>4 DEF LoopInv, TurnsInOrder, Types, TurnTypes
  <2>6. Over' = Over
    BY <2>5 DEF Over, Terminal
  <2>7. Queue!StartNext
    BY <1>2, <2>1, <2>2, <2>6 DEF Queue!StartNext
  <2> QED
    BY <2>7 DEF Queue!Next
<1> QED
  BY <1>1, <1>2 DEF Pump, runVars

\* releaseActiveTurn() finishes it.
LEMMA EndMaps ==
  ASSUME LoopInv, NEW type \in Terminal, ReleaseActiveTurn(type), pc \notin Quiet
  PROVE  Queue!Next
<1>1. active # 0 /\ active \in Turns
  BY DEF LoopInv, Inv, PlaceOfTurn, Types, LineTypes
<1>2. active' = 0 /\ tstate' = [tstate EXCEPT ![active] = type] /\ UNCHANGED pendingTurns
  BY DEF ReleaseActiveTurn
<1>3. tstate'[active] = type /\ \A u \in Turns \ {active} : tstate'[u] = tstate[u]
  BY <1>1, <1>2 DEF LoopInv, Types, TurnTypes
<1>4. Over' = Over \cup {active}
  BY <1>1, <1>3 DEF Over
<1>5. Queue!Finish
  BY <1>1, <1>2, <1>4 DEF Queue!Finish
<1> QED
  BY <1>5 DEF Queue!Next

\* Every step of the loop is a step of the queue of turns, or none.
LEMMA StepMaps ==
  ASSUME LoopInv, LoopInv', [Next]_vars
  PROVE  Queue!Next \/ UNCHANGED Queue!queueVars
<1>1. CASE \E k \in SenderKinds : Enqueue(k)
  BY <1>1, SubmitMaps DEF Enqueue
<1>2. CASE CancelActive \/ AcquireQuiescence \/ AwaitSettled \/ ReleaseQuiescence
  BY <1>2, QueueStutters DEF CancelActive, AcquireQuiescence, AwaitSettled, ReleaseQuiescence,
     turnVars, loopVars
<1>3. CASE \E i \in DOMAIN pendingTurns : CancelQueued(i)
  BY <1>3, CancelQueuedMaps
<1>4. CASE \E r \in Reqs : CancelStep(r) \/ AbortRequest(r)
  BY <1>4, QueueStutters DEF CancelStep, AbortRequest, turnVars, loopVars
<1>5. CASE Dispose
  BY <1>5, DisposeMaps
<1>6. CASE Pump
  BY <1>6, PumpMaps
<1>7. CASE AdmitHeld
  BY <1>7, AdmitHeldMaps
<1>8. CASE StartFails \/ EndTurn
  <2>1. pc \notin Quiet
    BY <1>8 DEF StartFails, EndTurn, Quiet
  <2>2. PICK type \in Terminal : ReleaseActiveTurn(type)
    BY <1>8 DEF StartFails, EndTurn, Terminal, LoopInv, Types, RunTypes
  <2> QED
    BY <2>1, <2>2, EndMaps
<1>9. CASE Begin \/ StepDone
  BY <1>9, QueueStutters DEF Begin, StepDone, loopVars
<1>10. CASE \/ HookDone \/ (\E e \in {"retryable", "fatal", "abort"} : StepFails(e))
            \/ (\E f \in {"completed", "filtered"} : Answered(f))
            \/ CallTools \/ (\E b \in BOOLEAN : ToolsDone(b))
            \/ StepHookFails \/ Recovered \/ BackoffAborted
  <2>1. RunFrame
    BY <1>10 DEF HookDone, StepFails, Answered, CallTools, ToolsDone, FinishStep, StepHookFails,
                 Recovered, BackoffAborted
  <2> QED
    BY <2>1, QueueStutters DEF RunFrame, loopVars
<1>11. CASE \E b \in BOOLEAN : StepHooks(b)
  <2>1. Submit(AskKind, "wrap") \/ RunFrame
    BY <1>11 DEF StepHooks
  <2> QED
    BY <2>1, SubmitMaps, QueueStutters DEF RunFrame, loopVars
<1>12. CASE UNCHANGED vars
  BY <1>12, QueueStutters DEF vars, turnVars, loopVars
<1> QED
  BY <1>1, <1>2, <1>3, <1>4, <1>5, <1>6, <1>7, <1>8, <1>9, <1>10, <1>11, <1>12 DEF Next, Call, Run

\* The loop implements TurnQueue: turns start one at a time, in the order they were
\* admitted, and never after they were withdrawn.
THEOREM QueueImplemented == Spec => ImplementsTurnQueue
<1>1. Init => Queue!Init
  BY DEF Init, Queue!Init, Over, Terminal
<1>2. LoopInv /\ LoopInv' /\ [Next]_vars => [Queue!Next]_(Queue!queueVars)
  BY StepMaps
<1> QED
  BY <1>1, <1>2, LoopInvHolds, PTL DEF Spec, ImplementsTurnQueue, Queue!Spec
=============================================================================
