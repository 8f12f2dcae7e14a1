------------------------------ MODULE AgentLoop ------------------------------
(***************************************************************************)
(* The loop of one agent (agent-core-v2, agent/loop/loopService.ts): a     *)
(* FIFO of turns, each with its own queue of step requests, the run that   *)
(* drains the queue of the active turn one batch per step, and the aspects *)
(* that drive it (loopContinuation, stepRetry).                            *)
(*                                                                         *)
(* Every action is a synchronous segment of the code, or a part of one     *)
(* that no other code can interrupt: while pc is "pump", "begin" or        *)
(* "release", or held admissions are being released, the call is not over  *)
(* and only the action that continues it is enabled.  At "started" and     *)
(* "ended" the loop is publishing turn.started / turn.ended, and a         *)
(* subscriber may call it back.  At every other pc the run awaits.         *)
(***************************************************************************)
EXTENDS Naturals, Sequences, FiniteSets, Filtering

CONSTANTS
  SenderKinds,   \* the kinds of request that prompt, task, hooks send
  MaxSent,       \* bound on the requests they send
  MaxConts,      \* bound on continuation and landing requests
  MaxSteps,      \* the composed ceiling on steps per turn, 0 for none
  MaxAttempts,   \* maxAttemptsPerStep
  MaxLeases,     \* bound on simultaneous quiescence leases
  MaxWaiters     \* bound on simultaneous settled() promises

Kinds == {"prompt", "steer", "notification", "stop_hook", "continuation", "landing"}
Reqs == 1..(MaxSent + MaxConts)
Turns == 1..MaxSent
Terminal == {"completed", "failed", "cancelled"}

ASSUME LoopAssumption ==
  /\ SenderKinds \subseteq Kinds \ {"continuation", "landing"}
  /\ MaxSent \in Nat /\ MaxConts \in Nat /\ MaxSteps \in Nat
  /\ MaxAttempts \in Nat \ {0} /\ MaxLeases \in Nat /\ MaxWaiters \in Nat

VARIABLES
  born,          \* number of requests enqueued; request r is the r-th
  kind,          \* r -> its kind, "none" before it is enqueued
  rstate,        \* r -> StepRequest.state
  assign,        \* r -> the state of its `assigned' promise
  job,           \* r -> the turn it was assigned to, 0 for none
  step,          \* r -> the state of its Step
  result,        \* r -> the state of its Step's result promise
  delivered,     \* history: r -> times its messages went to the context
  turns,         \* number of turns created; turn t is the t-th
  tstate,        \* t -> Turn.state
  queue,         \* t -> its StepRequestQueue
  stop,          \* t -> its abort controller has fired
  pendingTurns,  \* turns admitted and not started
  active,        \* activeTurnJob, 0 for none
  standalone,    \* standaloneStepQueue
  held,          \* heldAdmissions
  releasing,     \* held admissions spliced off by releaseQuiescence
  depth,         \* quiescenceDepth
  disposing,
  waiters,       \* number of settleWaiters
  pc,            \* where the current call, or the run, stands
  steps,         \* steps of the run so far
  current,       \* driver of the step being run, 0 for none
  finish,        \* finish reason of that step
  lastFailed,    \* stepRetry.lastFailedDriverId, 0 for none
  attempts,      \* stepRetry.failedAttempts
  outcome        \* type of the result run() returned

reqVars == <<born, kind, rstate, assign, job, step, result, delivered>>
turnVars == <<turns, tstate, queue, stop>>
loopVars == <<pendingTurns, active, standalone, held, releasing, depth, disposing, waiters>>
runVars == <<steps, current, finish, lastFailed, attempts, outcome>>
vars == <<reqVars, turnVars, loopVars, pc, runVars>>

\* The queue semantics each sender gives its requests.
Admission(k) ==
  CASE k = "prompt" -> "newTurn"
    [] k = "notification" -> "activeOrNewTurn"
    [] k = "steer" -> "activeTurnOnly"
    [] OTHER -> "activeOrNextTurn"
Mergeable(k) == k \in {"steer", "notification", "stop_hook"}
TurnScoped(k) == k \notin {"steer", "notification"}

Init ==
  /\ born = 0
  /\ kind = [r \in Reqs |-> "none"] /\ rstate = [r \in Reqs |-> "none"]
  /\ assign = [r \in Reqs |-> "none"] /\ job = [r \in Reqs |-> 0]
  /\ step = [r \in Reqs |-> "none"] /\ result = [r \in Reqs |-> "open"]
  /\ delivered = [r \in Reqs |-> 0]
  /\ turns = 0
  /\ tstate = [t \in Turns |-> "none"]
  /\ queue = [t \in Turns |-> <<>>] /\ stop = [t \in Turns |-> FALSE]
  /\ pendingTurns = <<>> /\ active = 0 /\ standalone = <<>>
  /\ held = <<>> /\ releasing = <<>> /\ depth = 0
  /\ disposing = FALSE /\ waiters = 0
  /\ pc = "idle" /\ steps = 0 /\ current = 0 /\ finish = "completed"
  /\ lastFailed = 0 /\ attempts = 0 /\ outcome = "completed"

\* A public call can be made: nothing synchronous is under way, or it is
\* publishing an event to its subscribers.
Publishing == pc \in {"started", "ended"}
CanCall == pc \notin {"pump", "begin", "release"} /\ (Publishing \/ releasing = <<>>)
Outside == CanCall /\ ~Publishing

\* StepRequestQueue: the requests that still count, and the next driver.
Live(q) == Without(q, {r \in Reqs : rstate[r] = "aborted"})
Driver(q) ==
  LET drivers == {i \in DOMAIN q : ~Mergeable(kind[q[i]])} IN
  IF drivers = {} THEN q[1] ELSE q[CHOOSE i \in drivers : \A j \in drivers : i <= j]

\* hasPendingRequests().
HasPendingRequests ==
  \/ IF active = 0 THEN FALSE ELSE Live(queue[active]) # <<>>
  \/ Live(standalone) # <<>>
  \/ pendingTurns # <<>>
  \/ held # <<>>

\* maybeSettle(), in a state with this active turn, pending turns and held admissions.
MaybeSettle(a, ts, h) ==
  waiters' = IF a = 0 /\ ts = <<>> /\ h = <<>> THEN 0 ELSE waiters

Aborted(C) == [r \in Reqs |-> IF r \in C /\ rstate[r] = "pending" THEN "aborted" ELSE rstate[r]]

\* Step.cancel() of the steps of C that are not over.
CancelSteps(C) ==
  LET open == {r \in C : step[r] \in {"queued", "running"}} IN
  /\ step' = [r \in Reqs |-> IF r \in open THEN "cancelled" ELSE step[r]]
  /\ result' = [r \in Reqs |-> IF r \in open /\ result[r] = "open" THEN "cancelled" ELSE result[r]]
  /\ rstate' = Aborted(open)

StepsOf(S) == {r \in Reqs : job[r] \in S}

-----------------------------------------------------------------------------
(* Admission.                                                                *)

\* assignStep() for each of rs, in order.
AssignSteps(t, rs) ==
  /\ queue' = [queue EXCEPT ![t] = @ \o rs]
  /\ job' = [r \in Reqs |-> IF r \in Elems(rs) THEN t ELSE job[r]]
  /\ step' = [r \in Reqs |-> IF r \in Elems(rs) THEN "queued" ELSE step[r]]
  /\ assign' = [r \in Reqs |-> IF r \in Elems(rs) THEN "resolved" ELSE assign[r]]

\* pendingTurns.push().
QueueTurnFirst(ts, t) == <<t>> \o ts   \* mutant: unshift instead of push
QueueTurn(ts, t) == Append(ts, t)

\* pumpTurns() right after a turn was queued: it is synchronous on an idle loop.
QueuedUnpumped == pc   \* mutant: nobody starts the turn
QueuedPumped == IF active = 0 THEN "pump" ELSE pc

\* createPendingTurn(): the new turn takes the standalone requests with it.
CreatePendingTurn(t, r) ==
  /\ turns' = t
  /\ tstate' = [tstate EXCEPT ![t] = "queued"]
  /\ AssignSteps(t, <<r>> \o Live(standalone))
  /\ standalone' = <<>>

CreateAndQueueTurn(r) ==
  /\ CreatePendingTurn(turns + 1, r)
  /\ pendingTurns' = QueueTurn(pendingTurns, turns + 1)
  /\ pc' = QueuedPumped

\* admit() of a request of kind k, up to a refusal; p is the pc if no turn is made.
Admit(r, k, p) ==
  \/ /\ Admission(k) = "newTurn" \/ (Admission(k) = "activeOrNewTurn" /\ active = 0)
     /\ CreateAndQueueTurn(r)
  \/ /\ Admission(k) # "newTurn" /\ active # 0
     /\ AssignSteps(active, <<r>>)
     /\ pc' = p
     /\ UNCHANGED <<turns, tstate, standalone, pendingTurns>>
  \/ /\ Admission(k) = "activeOrNextTurn" /\ active = 0
     /\ standalone' = Append(standalone, r)
     /\ assign' = [assign EXCEPT ![r] = "waiting"]
     /\ pc' = p
     /\ UNCHANGED <<queue, job, step, turns, tstate, pendingTurns>>
Refused(k) == Admission(k) = "activeTurnOnly" /\ active = 0

\* enqueue(): held under a lease, otherwise admitted; a refusal throws.
Submit(k, p) ==
  LET r == born + 1 IN
  /\ born' = r
  /\ kind' = [kind EXCEPT ![r] = k]
  /\ rstate' = [rstate EXCEPT ![r] = "pending"]
  /\ \/ /\ depth > 0
        /\ held' = Append(held, r)
        /\ assign' = [assign EXCEPT ![r] = "waiting"]
        /\ pc' = p
        /\ UNCHANGED <<queue, job, step, turns, tstate, standalone, pendingTurns>>
     \/ /\ depth = 0
        /\ Admit(r, k, p)
        /\ UNCHANGED held
     \/ /\ depth = 0 /\ Refused(k)
        /\ assign' = [assign EXCEPT ![r] = "rejected"]
        /\ pc' = p
        /\ UNCHANGED <<queue, job, step, turns, tstate, standalone, pendingTurns, held>>
  /\ UNCHANGED <<result, delivered, stop, active, releasing, depth, disposing, waiters>>

Enqueue(k) ==
  /\ CanCall /\ ~disposing
  /\ Cardinality({r \in Reqs : kind[r] \in SenderKinds}) < MaxSent
  /\ Submit(k, pc)
  /\ UNCHANGED runVars

-----------------------------------------------------------------------------
(* Cancellation, leases and disposal.                                        *)

\* cancelActiveTurn().
CancelActive ==
  /\ CanCall /\ active # 0
  /\ ~stop[active]
  /\ stop' = [stop EXCEPT ![active] = TRUE]
  /\ UNCHANGED <<reqVars, turns, tstate, queue, loopVars, pc, runVars>>

\* cancelQueuedTurn().
CancelQueued(i) ==
  LET t == pendingTurns[i]
      rest == Without(pendingTurns, {t}) IN
  /\ CanCall
  /\ pendingTurns' = rest
  /\ tstate' = [tstate EXCEPT ![t] = "cancelled"]
  /\ CancelSteps(StepsOf({t}))
  /\ stop' = [stop EXCEPT ![t] = TRUE]
  /\ MaybeSettle(active, rest, held)
  /\ UNCHANGED <<born, kind, assign, job, delivered, turns, queue, active,
                 standalone, held, releasing, depth, disposing, pc, runVars>>

\* cancelStep(), through the Step handle or through the receipt's abort().
CancelStep(r) ==
  /\ CanCall /\ step[r] \in {"queued", "running"}
  /\ CancelSteps({r})
  /\ UNCHANGED <<born, kind, assign, job, delivered, turnVars, loopVars, pc, runVars>>

\* abortRequest() of a request without a step: held, being released, or standalone.
\* (Of the request a queued turn was created for it is CancelQueued, of any
\* other request with a step CancelStep.)
AbortHeldAsleep(r) == UNCHANGED waiters   \* mutant: nobody wakes settled()
AbortHeldWakes(r) == MaybeSettle(active, pendingTurns, held')
AbortRequest(r) ==
  /\ CanCall /\ assign[r] = "waiting" /\ rstate[r] = "pending"
  /\ rstate' = [rstate EXCEPT ![r] = "aborted"]
  /\ assign' = [assign EXCEPT ![r] = "rejected"]
  /\ IF r \in Elems(held)
       THEN held' = Without(held, {r}) /\ AbortHeldWakes(r)
       ELSE UNCHANGED <<held, waiters>>
  /\ UNCHANGED <<born, kind, job, step, result, delivered, turnVars, pendingTurns, active,
                 standalone, releasing, depth, disposing, pc, runVars>>

\* tryAcquireQuiescence() that returns a lease.
LeaseUnderTurn == ~HasPendingRequests   \* mutant: an active turn is not looked at
CanLease == active = 0 /\ ~HasPendingRequests
AcquireQuiescence ==
  /\ Outside /\ ~disposing
  /\ CanLease
  /\ depth < MaxLeases
  /\ depth' = depth + 1
  /\ UNCHANGED <<reqVars, turnVars, pendingTurns, active, standalone, held, releasing,
                 disposing, waiters, pc, runVars>>

\* A lease is disposed once; a call without one returns.
LeaseForgotten == TRUE   \* mutant
Leased == depth > 0

\* releaseQuiescence(): its first pumpTurns() finds no turn to start (see
\* LeaseExcludesTurns); then the held admissions are spliced off.
ReleaseQuiescence ==
  /\ Outside /\ Leased
  /\ depth' = depth - 1
  /\ IF depth > 1 \/ disposing
       THEN UNCHANGED <<held, releasing, waiters, pc>>
       ELSE /\ MaybeSettle(active, pendingTurns, held)
            /\ releasing' = held /\ held' = <<>>
            /\ pc' = IF active = 0 THEN "release" ELSE pc
  /\ UNCHANGED <<reqVars, turnVars, pendingTurns, active, standalone, disposing, runVars>>

RefusalSwallowed(r) == UNCHANGED assign   \* mutant: the sender is never told
RejectAssignment(r) == assign' = [assign EXCEPT ![r] = "rejected"]

\* One iteration of its loop; a refused request is aborted.
AdmitHeld ==
  LET r == Head(releasing)
      p == IF active = 0 THEN "release" ELSE pc IN
  /\ releasing # <<>> /\ pc \notin {"pump", "begin"} /\ ~Publishing
  /\ releasing' = Tail(releasing)
  /\ \/ /\ rstate[r] = "aborted"
        /\ pc' = p
        /\ UNCHANGED <<rstate, assign, job, step, queue, turns, tstate, standalone,
                       pendingTurns>>
     \/ /\ rstate[r] # "aborted"
        /\ Admit(r, kind[r], p)
        /\ UNCHANGED rstate
     \/ /\ rstate[r] # "aborted" /\ Refused(kind[r])
        /\ rstate' = Aborted({r})
        /\ RejectAssignment(r)
        /\ pc' = p
        /\ UNCHANGED <<job, step, queue, turns, tstate, standalone, pendingTurns>>
  /\ UNCHANGED <<born, kind, result, delivered, stop, active, held, depth, disposing,
                 waiters, runVars>>

\* settled(), when it has to wait.
AwaitSettled ==
  /\ Outside /\ waiters < MaxWaiters
  /\ active # 0 \/ pendingTurns # <<>> \/ held # <<>>
  /\ waiters' = waiters + 1
  /\ UNCHANGED <<reqVars, turnVars, pendingTurns, active, standalone, held, releasing, depth,
                 disposing, pc, runVars>>

\* dispose(): cancel the queued turns and the active one, refuse what waits.
Dispose ==
  LET gone == Elems(pendingTurns)
      waiting == Elems(standalone) \cup Elems(held)
      open == {r \in StepsOf(gone) : step[r] \in {"queued", "running"}} IN
  /\ Outside /\ ~disposing
  /\ disposing' = TRUE
  /\ pendingTurns' = <<>>
  /\ tstate' = [t \in Turns |-> IF t \in gone THEN "cancelled" ELSE tstate[t]]
  /\ stop' = [t \in Turns |-> stop[t] \/ t \in gone \/ t = active]
  /\ step' = [r \in Reqs |-> IF r \in open THEN "cancelled" ELSE step[r]]
  /\ result' = [r \in Reqs |-> IF r \in open /\ result[r] = "open" THEN "cancelled" ELSE result[r]]
  /\ rstate' = Aborted(open \cup waiting)
  /\ assign' = [r \in Reqs |-> IF r \in waiting /\ assign[r] = "waiting" THEN "rejected" ELSE assign[r]]
  /\ standalone' = <<>> /\ held' = <<>>
  /\ MaybeSettle(active, <<>>, <<>>)
  /\ UNCHANGED <<born, kind, job, delivered, turns, queue, active, releasing, depth,
                 pc, runVars>>

-----------------------------------------------------------------------------
(* Starting and ending turns.                                                *)

\* stepRetry.resetAttempts(), at turn.started, after a step and on giving up.
ResetAttempts == lastFailed' = 0 /\ attempts' = 0

\* pumpTurns() starts a turn only then.
MayPump == ~disposing /\ depth = 0 /\ active = 0

\* startTurn() up to turn.started, at which stepRetry resets its count.
StartTurn ==
  /\ pendingTurns' = Tail(pendingTurns)
  /\ tstate' = [tstate EXCEPT ![Head(pendingTurns)] = "running"]
  /\ active' = Head(pendingTurns)
  /\ steps' = 0 /\ current' = 0 /\ ResetAttempts
  /\ pc' = "started"
  /\ UNCHANGED <<waiters, finish, outcome>>

Pump ==
  /\ pc \in {"pump", "ended"} \/ (pc = "release" /\ releasing = <<>>)
  /\ \/ /\ ~MayPump
        /\ pc' = "idle"
        /\ UNCHANGED <<pendingTurns, tstate, active, waiters, runVars>>
     \/ /\ MayPump /\ pendingTurns = <<>>
        /\ MaybeSettle(active, pendingTurns, held)
        /\ pc' = "idle"
        /\ UNCHANGED <<pendingTurns, tstate, active, runVars>>
     \/ /\ MayPump /\ pendingTurns # <<>>
        /\ StartTurn
  /\ UNCHANGED <<reqVars, turns, queue, stop, standalone, held, releasing, depth, disposing>>

\* The finally block of runTurn() up to turn.ended: releaseActiveTurn().  The job
\* with its queue, and the locals of run(), are garbage from here on.
ReleaseKeepsSteps(C) == UNCHANGED <<step, result, rstate>>   \* mutant
ReleaseSteps(C) == CancelSteps(C)
ReleaseActiveTurn(type) ==
  /\ tstate' = [tstate EXCEPT ![active] = type]
  /\ ReleaseSteps(StepsOf({active}))
  /\ active' = 0
  /\ MaybeSettle(0, pendingTurns, held)
  /\ pc' = "ended"
  /\ queue' = [queue EXCEPT ![active] = <<>>]
  /\ current' = 0 /\ steps' = 0 /\ finish' = "completed" /\ outcome' = "completed"
  /\ UNCHANGED <<born, kind, assign, job, delivered, turns, stop, pendingTurns,
                 standalone, held, releasing, depth, disposing, lastFailed, attempts>>

\* prepareTurnConfig() throws before the run begins.
StartFails ==
  /\ pc = "started"
  /\ ReleaseActiveTurn(IF stop[active] THEN "cancelled" ELSE "failed")

EndTurn ==
  /\ pc = "returning" /\ releasing = <<>>
  /\ ReleaseActiveTurn(outcome)

-----------------------------------------------------------------------------
(* The run of the active turn.                                               *)

\* run() returns: its finally block aborts the turn-scoped requests left.
Return(type) ==
  LET dropped == {r \in Elems(queue[active]) : TurnScoped(kind[r]) /\ rstate[r] = "pending"} IN
  /\ outcome' = type
  /\ rstate' = Aborted(dropped)
  /\ queue' = [queue EXCEPT ![active] = Without(@, {r \in Reqs : rstate'[r] = "aborted"})]
  /\ pc' = "returning"

\* beginLoopStep(): the turn ends, or the next batch is taken and materialized.
OverBudgetByOne(d) == MaxSteps > 0 /\ steps > MaxSteps /\ kind[d] # "landing"   \* mutant
OverBudget(d) == MaxSteps > 0 /\ steps >= MaxSteps /\ kind[d] # "landing"
MaterializeAgain(r) == TRUE   \* mutant: a retried request is appended again
Materializes(r) == rstate[r] = "pending"

BeginStep(q, d) ==
  LET batch == {r \in Elems(q) : r = d \/ Mergeable(kind[r])} IN
  /\ queue' = [queue EXCEPT ![active] = Without(q, batch)]
  /\ step' = [step EXCEPT ![d] = "running"]
  /\ rstate' = [r \in Reqs |-> IF r \in batch THEN "materialized" ELSE rstate[r]]
  /\ delivered' = [r \in Reqs |-> delivered[r] + (IF r \in batch /\ Materializes(r) THEN 1 ELSE 0)]
  /\ steps' = steps + 1
  /\ current' = d
  /\ pc' = "hook"
  /\ UNCHANGED outcome

Begin ==
  LET q == Live(queue[active]) IN
  /\ pc \in {"started", "begin"} \/ (pc = "resume" /\ releasing = <<>>)
  /\ \/ /\ stop[active]
        /\ Return("cancelled")
        /\ UNCHANGED <<step, delivered, steps, current>>
     \/ /\ ~stop[active] /\ q = <<>>
        /\ Return("completed")
        /\ UNCHANGED <<step, delivered, steps, current>>
     \/ /\ ~stop[active] /\ q # <<>>
        /\ OverBudget(Driver(q))
        /\ Return("failed")
        /\ UNCHANGED <<step, delivered, steps, current>>
     \/ /\ ~stop[active] /\ q # <<>>
        /\ ~OverBudget(Driver(q))
        /\ BeginStep(q, Driver(q))
  /\ UNCHANGED <<born, kind, assign, job, result, turns, tstate, stop, loopVars,
                 finish, lastFailed, attempts>>

\* stepRetry: failures in a row of the current driver, this one included.
FailedAttempts == IF lastFailed = current THEN attempts + 1 ELSE 1

\* handleLoopStepError(): a cancelled step gives way to the next one, a stopped
\* turn returns, stepRetry backs off, any other error fails the turn.
Throw(e) ==
  LET cut == step[current] = "cancelled" IN
  \/ /\ cut /\ ~stop[active]
     /\ current' = 0 /\ pc' = "resume"
     /\ UNCHANGED <<rstate, queue, outcome, lastFailed, attempts>>
  \/ /\ stop[active] \/ (e = "abort" /\ ~cut)
     /\ Return("cancelled")
     /\ UNCHANGED <<current, lastFailed, attempts>>
  \/ /\ e = "retryable" /\ ~cut /\ ~stop[active] /\ FailedAttempts < MaxAttempts
     /\ lastFailed' = current /\ attempts' = FailedAttempts
     /\ pc' = "recover"
     /\ UNCHANGED <<rstate, queue, outcome, current>>
  \/ /\ e = "retryable" /\ ~cut /\ ~stop[active] /\ FailedAttempts >= MaxAttempts
     /\ ResetAttempts
     /\ Return("failed")
     /\ UNCHANGED current
  \/ /\ e = "fatal" /\ ~cut /\ ~stop[active]
     /\ Return("failed")
     /\ UNCHANGED <<current, lastFailed, attempts>>

\* The signal of the step: AbortSignal.any of the turn's and the step's own.
Signalled == stop[active] \/ step[current] = "cancelled"

\* A continuation of executeLoopStep() resumes at pc = p.
Resumes(p) == pc = p /\ releasing = <<>>
RunFrame ==
  UNCHANGED <<born, kind, assign, job, result, delivered, turns, tstate, stop,
              loopVars, steps>>

\* A hook, the model request or the tool executor rejects with error e.
StepFails(e) ==
  /\ Resumes("hook") \/ Resumes("llm") \/ Resumes("tools")
  /\ Throw(e)
  /\ UNCHANGED <<step, finish>> /\ RunFrame

\* onWillBeginStep ran: beginStep() checks the signal, the request goes out.
HookDone ==
  /\ Resumes("hook")
  /\ IF Signalled
       THEN Throw("abort")
       ELSE pc' = "llm" /\ UNCHANGED <<rstate, queue, outcome, current, lastFailed, attempts>>
  /\ UNCHANGED <<step, finish>> /\ RunFrame

\* finishStep() checks the signal once more before step.end.
FinishStep(reason) ==
  /\ finish' = reason
  /\ IF Signalled
       THEN Throw("abort")
       ELSE pc' = "after" /\ UNCHANGED <<rstate, queue, outcome, current, lastFailed, attempts>>
  /\ UNCHANGED step /\ RunFrame

Answered(reason) == Resumes("llm") /\ FinishStep(reason)

\* The model answers with tool calls (bounded, as each asks for a continuation).
CallTools ==
  /\ Resumes("llm")
  /\ Cardinality({r \in Reqs : kind[r] \in {"continuation", "landing"}}) < MaxConts
  /\ pc' = "tools"
  /\ UNCHANGED <<rstate, queue, outcome, current, lastFailed, attempts, step, finish>>
  /\ RunFrame

ToolsDone(stopTurn) ==
  Resumes("tools") /\ FinishStep(IF stopTurn THEN "completed" ELSE "tool_calls")

\* onDidFinishStep: stepRetry forgets its count, and loopContinuation asks for the
\* next step or, at the ceiling, for a landing, unless a hook had stopped the turn
\* by then; one that runs after it may stop the turn all the same.
Asks == finish = "tool_calls" /\ (MaxSteps = 0 \/ steps <= MaxSteps)
AskKind == IF MaxSteps > 0 /\ steps = MaxSteps THEN "landing" ELSE "continuation"
StepHooks(stopTurn) ==
  /\ Resumes("after")
  /\ finish' = IF stopTurn /\ finish # "filtered" THEN "stop" ELSE finish
  /\ \/ /\ Asks /\ ~disposing
        /\ Submit(AskKind, "wrap")
        /\ ResetAttempts
        /\ UNCHANGED <<steps, current, outcome>>
     \/ /\ Asks /\ disposing   \* enqueue() throws; dispose() stopped the turn
        /\ Return("cancelled")
        /\ ResetAttempts
        /\ UNCHANGED <<step, current>> /\ RunFrame
     \/ /\ ~Asks \/ stopTurn
        /\ pc' = "wrap" /\ ResetAttempts
        /\ UNCHANGED <<rstate, queue, outcome, current, step>> /\ RunFrame

\* A hook rejects: runAfterStep() lets an abort error through, and any error if the
\* step was cut short.
StepHookFails ==
  /\ Resumes("after")
  /\ \/ Throw("abort")
     \/ /\ ~Signalled /\ pc' = "wrap"
        /\ UNCHANGED <<rstate, queue, outcome, current, lastFailed, attempts>>
  /\ UNCHANGED <<step, finish>> /\ RunFrame

\* completeLoopStep().
StepDone ==
  /\ Resumes("wrap")
  /\ step' = [step EXCEPT ![current] = "completed"]
  /\ result' = [result EXCEPT ![current] = IF @ = "open" THEN "completed" ELSE @]
  /\ current' = 0
  /\ CASE finish = "filtered" -> Return(IF stop[active] THEN "cancelled" ELSE "failed")
       [] finish = "stop" -> Return("completed")
       [] OTHER -> pc' = "begin" /\ UNCHANGED <<rstate, queue, outcome>>
  /\ UNCHANGED <<born, kind, assign, job, delivered, turns, tstate, stop, loopVars,
                 steps, finish, lastFailed, attempts>>

\* stepRetry.recover() after its backoff: the failed driver goes to the head.
Recovered ==
  /\ Resumes("recover")
  /\ IF step[current] = "cancelled"
       THEN /\ Return("failed")
            /\ UNCHANGED <<step, current>>
       ELSE /\ step' = [step EXCEPT ![current] = "queued"]
            /\ queue' = [queue EXCEPT ![active] = <<current>> \o @]
            /\ current' = 0 /\ pc' = "resume"
            /\ UNCHANGED <<rstate, outcome>>
  /\ UNCHANGED <<finish, lastFailed, attempts>> /\ RunFrame

\* The turn is cancelled during the backoff.
BackoffAborted ==
  /\ Resumes("recover") /\ stop[active]
  /\ Return("cancelled")
  /\ UNCHANGED <<step, current, finish, lastFailed, attempts>> /\ RunFrame

-----------------------------------------------------------------------------
Call ==
  \/ \E k \in SenderKinds : Enqueue(k)
  \/ CancelActive \/ \E i \in DOMAIN pendingTurns : CancelQueued(i)
  \/ \E r \in Reqs : CancelStep(r) \/ AbortRequest(r)
  \/ AcquireQuiescence \/ AwaitSettled \/ Dispose

Run ==
  \/ Pump \/ AdmitHeld \/ StartFails \/ EndTurn \/ Begin
  \/ HookDone \/ (\E e \in {"retryable", "fatal", "abort"} : StepFails(e))
  \/ (\E f \in {"completed", "filtered"} : Answered(f))
  \/ CallTools \/ (\E b \in BOOLEAN : ToolsDone(b) \/ StepHooks(b))
  \/ StepHookFails \/ StepDone \/ Recovered \/ BackoffAborted

Next == Call \/ Run \/ ReleaseQuiescence

Spec == Init /\ [][Next]_vars

\* The event loop runs every continuation, hooks, model requests and tools settle,
\* and a lease is disposed in a finally block.  Nobody has to call the loop.
FairSpec == Spec /\ WF_vars(Run) /\ WF_vars(ReleaseQuiescence)

-----------------------------------------------------------------------------
(* Properties.                                                               *)

Pcs == {"idle", "pump", "release", "started", "begin", "resume", "hook", "llm", "tools",
        "after", "wrap", "recover", "returning", "ended"}

\* The type invariant of the loop's state.
TypeOK ==
  /\ born \in 0..(MaxSent + MaxConts) /\ kind \in [Reqs -> Kinds \cup {"none"}]
  /\ rstate \in [Reqs -> {"none", "pending", "materialized", "aborted"}]
  /\ assign \in [Reqs -> {"none", "waiting", "resolved", "rejected"}]
  /\ job \in [Reqs -> 0..MaxSent] /\ delivered \in [Reqs -> Nat]
  /\ step \in [Reqs -> {"none", "queued", "running", "completed", "cancelled"}]
  /\ result \in [Reqs -> {"open", "completed", "cancelled"}]
  /\ turns \in 0..MaxSent /\ tstate \in [Turns -> Terminal \cup {"none", "queued", "running"}]
  /\ queue \in [Turns -> Seq(Reqs)] /\ stop \in [Turns -> BOOLEAN]
  /\ pendingTurns \in Seq(Turns) /\ active \in 0..MaxSent
  /\ standalone \in Seq(Reqs) /\ held \in Seq(Reqs) /\ releasing \in Seq(Reqs)
  /\ depth \in 0..MaxLeases /\ disposing \in BOOLEAN /\ waiters \in 0..MaxWaiters
  /\ pc \in Pcs /\ steps \in Nat /\ current \in 0..(MaxSent + MaxConts)
  /\ finish \in {"completed", "filtered", "tool_calls", "stop"}
  /\ lastFailed \in 0..(MaxSent + MaxConts) /\ attempts \in 0..MaxAttempts
  /\ outcome \in Terminal

\* While undo holds a quiescence lease no turn runs and none is queued, so that
\* nobody reads or extends the context it is cutting: tryAcquireQuiescence().
LeaseExcludesTurns == depth > 0 => active = 0 /\ pendingTurns = <<>>

\* No settled() promise, which agentLifecycle.remove awaits, sleeps on an idle loop.
WaitersServed ==
  waiters > 0 => active # 0 \/ pendingTurns # <<>> \/ held # <<>> \/ pc = "release"

\* An `assigned' promise is open exactly as long as some queue still holds its
\* request: no admission, refusal, lease or disposal forgets one.
AssignmentsKept ==
  \A r \in Reqs : assign[r] = "waiting" <=>
    rstate[r] = "pending" /\ r \in Elems(held) \cup Elems(releasing) \cup Elems(standalone)

\* A turn that is over leaves nothing behind: all its steps have settled results
\* and none of its requests can still enter the context.
TurnsLeaveNothing ==
  \A r \in Reqs : job[r] # 0 /\ tstate[job[r]] \in Terminal =>
    step[r] \in {"completed", "cancelled"} /\ result[r] # "open" /\ rstate[r] # "pending"

\* However often a step is retried, merged or cancelled, its request enters the
\* context once if it was materialized and never if it was aborted.
DeliveredOnce ==
  \A r \in Reqs : delivered[r] = IF rstate[r] = "materialized" THEN 1 ELSE 0

\* Only the driver of the active turn's step is running, and past the ceiling of
\* steps per turn that is the landing request.
RunningIsCurrent ==
  /\ \A r \in Reqs : step[r] = "running" => r = current /\ job[r] = active
  /\ MaxSteps > 0 /\ steps > MaxSteps /\ current # 0 => kind[current] = "landing"

\* What the loop promises of its turns: TurnQueue.
Over == {t \in Turns : tstate[t] \in Terminal}
Queue == INSTANCE TurnQueue WITH
  waiting <- pendingTurns, running <- active, over <- Over, MaxTurns <- MaxSent

\* Turns start one at a time, in the order they were admitted, and never after
\* they were cancelled: the loop implements TurnQueue.
ImplementsTurnQueue == Queue!Spec

\* Every admitted turn ends, whatever fails, is retried or cancelled.
TurnsEnd == \A t \in Turns : tstate[t] = "queued" ~> tstate[t] \in Terminal

\* Requests that are not turn-scoped carry over when a turn ends.
SteersCarryOver ==
  [][\A r \in Reqs :
       active # 0 /\ active' = 0 /\ rstate[r] = "pending" /\ ~TurnScoped(kind[r])
         => rstate'[r] = "pending"]_vars

\* Cancelling a running step does not fail its turn.
StepCancelKeepsTurn ==
  [][pc' = "returning" /\ outcome' = "failed" /\ pc # "returning" /\ current # 0
       => step[current] # "cancelled"]_vars
=============================================================================
