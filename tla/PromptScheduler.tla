--------------------------- MODULE PromptScheduler ---------------------------
(***************************************************************************)
(* The per-agent prompt scheduler (agent-core-v2,                          *)
(* agent/prompt/promptService.ts): an active slot and a FIFO of prompts on *)
(* top of the agent loop.  Of the loop it uses what TurnQueue promises,    *)
(* which AgentLoop implements; of full compaction only whether one is      *)
(* running and the event that it finished.                                 *)
(*                                                                         *)
(* pc is the place of the one startNext() that got past its guard: "start" *)
(* (a synchronous segment: nothing else runs), "hook", "admit" and         *)
(* "assigned" (it awaits the hook, the admission, the assignment).         *)
(***************************************************************************)
EXTENDS Naturals, Sequences, FiniteSets, Filtering

CONSTANTS
  MaxPrompts,      \* bound on prompts enqueued
  MaxOthers,       \* bound on turns that other senders open
  MaxCompactions   \* bound on compactions begun

ASSUME SchedulerAssumption ==
  MaxPrompts \in Nat /\ MaxOthers \in Nat /\ MaxCompactions \in Nat

Prompts == 1..MaxPrompts
MaxTurns == MaxPrompts + MaxOthers

VARIABLES
  count,        \* prompts enqueued; prompt p is the p-th
  state,        \* p -> Record.state, "none" before enqueue()
  launched,     \* p -> its `launched' promise: open, turn or undefined
  completion,   \* p -> its `completion' promise: open, or the state it resolved to
  pending,      \* the FIFO
  active,       \* the active prompt, 0 for none
  steered,      \* p -> prompts that were steered into it
  item,         \* the prompt being launched, 0 if `launching' is false
  pc,
  steering,     \* prompts of the steer() that awaits its assignment
  into,         \* the turn that one was assigned to
  lost,         \* history: prompts of a steer() that threw after taking them
  turnOf,       \* p -> the turn it was launched as, 0 for none
  waiting, running, over,   \* the loop: TurnQueue
  disposed,     \* the loop was disposed
  compacting,   \* fullCompaction.compacting is not null
  begun,        \* compactions begun
  unwinding     \* cancelled compactions whose worker has not finished

promptVars == <<count, state, launched, completion, pending, active, steered, item, pc,
                steering, into, lost, turnOf>>
loopVars == <<waiting, running, over, disposed>>
compactionVars == <<compacting, begun, unwinding>>
vars == <<promptVars, loopVars, compactionVars>>

Loop == INSTANCE TurnQueue

Init ==
  /\ count = 0
  /\ state = [p \in Prompts |-> "none"]
  /\ launched = [p \in Prompts |-> "open"] /\ completion = [p \in Prompts |-> "open"]
  /\ pending = <<>> /\ active = 0 /\ steered = [p \in Prompts |-> {}]
  /\ item = 0 /\ pc = "idle" /\ steering = {} /\ into = 0 /\ lost = {}
  /\ turnOf = [p \in Prompts |-> 0]
  /\ Loop!Init /\ disposed = FALSE
  /\ compacting = FALSE /\ begun = 0 /\ unwinding = 0

CanRun == pc # "start"

\* A compaction holds the context of an idle loop: prompts wait for it.
HeldByCompaction == compacting /\ running = 0

\* The guard of startNext(), for the active slot and the item launched by then.
MayStartIgnoringActive(a, i) == i = 0   \* mutant
MayStart(a, i) == a = 0 /\ i = 0

\* A call of startNext() at the end of a synchronous segment.
CallStartNext(a, i) == pc' = IF MayStart(a, i) THEN "start" ELSE pc

\* The prompts of S are over, with this state.
Complete(S, s) ==
  /\ state' = [p \in Prompts |-> IF p \in S THEN s ELSE state[p]]
  /\ completion' = [p \in Prompts |-> IF p \in S THEN s ELSE completion[p]]
Launch(S, how) ==
  launched' = [p \in Prompts |-> IF p \in S /\ launched[p] = "open" THEN how ELSE launched[p]]

-----------------------------------------------------------------------------
\* enqueue().
PushFirst(s, p) == <<p>> \o s   \* mutant: unshift instead of push
Push(s, p) == Append(s, p)
Enqueue ==
  LET p == count + 1 IN
  /\ CanRun /\ count < MaxPrompts
  /\ count' = p
  /\ state' = [state EXCEPT ![p] = "pending"]
  /\ pending' = Push(pending, p)
  /\ IF HeldByCompaction THEN UNCHANGED pc ELSE CallStartNext(active, item)
  /\ UNCHANGED <<launched, completion, active, steered, item, steering, into, lost, turnOf,
                 loopVars, compactionVars>>

\* startNext() up to its first await.
StartNext ==
  /\ pc = "start"
  /\ \/ /\ pending = <<>>
        /\ pc' = "idle"
        /\ UNCHANGED <<pending, item>>
     \/ /\ pending # <<>> /\ ~HeldByCompaction
        /\ item' = Head(pending) /\ pending' = Tail(pending)
        /\ pc' = "hook"
  /\ UNCHANGED <<count, state, launched, completion, active, steered, steering, into, lost,
                 turnOf, loopVars, compactionVars>>

\* With a prompt pending that a compaction holds, startNext() puts the prompt back
\* and returns through its finally block, which calls startNext() again: a
\* recursion without an await in which the compaction cannot come to an end.
Recurse ==
  /\ pc = "start" /\ pending # <<>> /\ HeldByCompaction
  /\ UNCHANGED vars

\* startNext() ends without an active prompt; its finally block calls it again.
LaunchEnds(s) ==
  /\ Complete({item}, s)
  /\ Launch({item}, "undefined")
  /\ item' = 0
  /\ CallStartNext(active, 0)
  /\ UNCHANGED <<count, pending, active, steered, steering, into, lost, turnOf, loopVars,
                 compactionVars>>

Blocked == pc = "hook" /\ LaunchEnds("blocked")

\* The hook rejects, enqueue() throws, or the assignment is rejected.
LaunchFails ==
  /\ pc = "hook" \/ (pc = "admit" /\ disposed)
  /\ LaunchEnds("failed")

\* The hook let the prompt pass: loop.enqueue(), which admits it at once or, under
\* a quiescence lease, when that is released.
HookPassed ==
  /\ pc = "hook" /\ ~disposed
  /\ pc' = "admit"
  /\ UNCHANGED <<count, state, launched, completion, pending, active, steered, item,
                 steering, into, lost, turnOf, loopVars, compactionVars>>

NextTurn == 1 + Cardinality((Loop!Waits \cup over \cup {running}) \ {0})
Admitted ==
  /\ pc = "admit" /\ ~disposed
  /\ Loop!AdmitTurn(NextTurn)
  /\ turnOf' = [turnOf EXCEPT ![item] = NextTurn]
  /\ pc' = "assigned"
  /\ UNCHANGED <<count, state, launched, completion, pending, active, steered, item,
                 steering, into, lost, disposed, compactionVars>>

Assigned ==
  /\ pc = "assigned"
  /\ state' = [state EXCEPT ![item] = "running"]
  /\ Launch({item}, "turn")
  /\ active' = item /\ item' = 0
  /\ pc' = "idle"
  /\ UNCHANGED <<count, completion, pending, steered, steering, into, lost, turnOf,
                 loopVars, compactionVars>>

\* settle(), two microtasks after the turn ended: not before a steer() into that
\* turn, which awaits a promise already resolved, has gone on.
SettleAlone(p) == {p}   \* mutant: the steered prompts are forgotten
SettlesWith(p) == {p} \cup steered[p]
Settle(result) ==
  /\ CanRun /\ active # 0
  /\ turnOf[active] \in over
  /\ steering # {} => into # turnOf[active]
  /\ Complete(SettlesWith(active), result)
  /\ steered' = [steered EXCEPT ![active] = {}]
  /\ active' = 0
  /\ CallStartNext(0, item)
  /\ UNCHANGED <<count, launched, pending, item, steering, into, lost, turnOf, loopVars,
                 compactionVars>>

-----------------------------------------------------------------------------
\* steer() up to the assignment.  If the loop refuses it, because the turn of the
\* active prompt ended and settle() has not run, the prompts are gone.
Steer(S) ==
  /\ CanRun /\ active # 0 /\ steering = {}
  /\ S # {}
  /\ pending' = Without(pending, S)
  /\ \/ /\ running # 0 /\ ~disposed
        /\ steering' = S /\ into' = running
        /\ UNCHANGED lost
     \/ /\ running = 0 \/ disposed
        /\ lost' = lost \cup S
        /\ UNCHANGED <<steering, into>>
  /\ UNCHANGED <<count, state, launched, completion, active, steered, item, pc, turnOf,
                 loopVars, compactionVars>>

\* The rest of steer(); without an active prompt it throws.
SteerAssigned ==
  /\ CanRun /\ steering # {}
  /\ state' = [p \in Prompts |-> IF p \in steering THEN "steered" ELSE state[p]]
  /\ Launch(steering, "turn")
  /\ steering' = {} /\ into' = 0
  /\ IF active = 0
       THEN lost' = lost \cup steering /\ UNCHANGED steered
       ELSE steered' = [steered EXCEPT ![active] = @ \cup steering] /\ UNCHANGED lost
  /\ UNCHANGED <<count, completion, pending, active, item, pc, turnOf, loopVars,
                 compactionVars>>

\* abort() of pending prompts.
AbortUnlaunched(S) == UNCHANGED launched   \* mutant: whoever awaits the launch hangs
AbortLaunch(S) == Launch(S, "undefined")
AbortAll(S) ==
  /\ pending' = Without(pending, S)
  /\ Complete(S, "cancelled")
  /\ AbortLaunch(S)

Abort(p) ==
  /\ CanRun
  /\ AbortAll({p})
  /\ UNCHANGED <<count, active, steered, item, pc, steering, into, lost, turnOf, loopVars,
                 compactionVars>>

\* abort() of the active prompt: loop.cancel() takes a turn that waits out of the
\* queue; a running one is signalled, and ends when its run notices.
CancelActive ==
  IF active # 0 /\ turnOf[active] \in Loop!Waits
    THEN Loop!Withdraw({turnOf[active]})
    ELSE UNCHANGED <<waiting, running, over>>

AbortActive ==
  /\ CanRun /\ active # 0 /\ turnOf[active] \in Loop!Waits
  /\ CancelActive
  /\ UNCHANGED <<promptVars, disposed, compactionVars>>

\* clear().
Clear ==
  /\ CanRun
  /\ AbortAll(Elems(pending))
  /\ CancelActive
  /\ UNCHANGED <<count, active, steered, item, pc, steering, into, lost, turnOf, disposed,
                 compactionVars>>

-----------------------------------------------------------------------------
(* The environment: the loop, its other senders, and full compaction.        *)

\* inject(), retry() and the notifications of tasks open turns of their own.
OtherTurn ==
  /\ CanRun /\ ~disposed
  /\ NextTurn <= MaxOthers + Cardinality({p \in Prompts : turnOf[p] # 0})
  /\ Loop!AdmitTurn(NextTurn)
  /\ UNCHANGED <<promptVars, disposed, compactionVars>>

TurnStarts ==
  /\ CanRun /\ ~disposed
  /\ Loop!StartNext
  /\ UNCHANGED <<promptVars, disposed, compactionVars>>

TurnEnds ==
  /\ CanRun
  /\ Loop!Finish
  /\ UNCHANGED <<promptVars, disposed, compactionVars>>

DisposeLoop ==
  /\ CanRun /\ ~disposed
  /\ disposed' = TRUE
  /\ Loop!Withdraw(Loop!Waits)
  /\ UNCHANGED <<promptVars, compactionVars>>

\* A manual compaction on an idle loop, or an automatic one during a turn.
BeginCompaction ==
  /\ CanRun /\ ~compacting /\ begun < MaxCompactions
  /\ compacting' = TRUE /\ begun' = begun + 1
  /\ UNCHANGED <<promptVars, loopVars, unwinding>>

\* onDidFinishCompaction calls startNext().
FinishUnheard == UNCHANGED pc   \* mutant: the scheduler does not subscribe
FinishStartsNext == CallStartNext(active, item)

\* markCompleted() and the finally block of the worker.
CompactionDone ==
  /\ CanRun /\ compacting
  /\ compacting' = FALSE
  /\ FinishStartsNext
  /\ UNCHANGED <<count, state, launched, completion, pending, active, steered, item,
                 steering, into, lost, turnOf, loopVars, begun, unwinding>>

\* cancelActive().
CancelCompaction ==
  /\ CanRun /\ compacting
  /\ compacting' = FALSE /\ unwinding' = unwinding + 1
  /\ UNCHANGED <<promptVars, loopVars, begun>>

\* The worker of a cancelled compaction gets to its finally block, once.
Unwinds == unwinding > 0
CompactionUnwound ==
  /\ CanRun /\ Unwinds
  /\ unwinding' = unwinding - 1
  /\ FinishStartsNext
  /\ UNCHANGED <<count, state, launched, completion, pending, active, steered, item,
                 steering, into, lost, turnOf, loopVars, compacting, begun>>

-----------------------------------------------------------------------------
Call ==
  \/ Enqueue \/ AbortActive \/ Clear
  \/ (\E S \in SUBSET Elems(pending) : Steer(S))
  \/ (\E p \in Elems(pending) : Abort(p))
  \/ OtherTurn \/ DisposeLoop \/ BeginCompaction \/ CancelCompaction

Launching == Blocked \/ LaunchFails \/ HookPassed \/ Admitted \/ Assigned
Settling == \E r \in {"completed", "failed", "cancelled"} : Settle(r)
LoopRuns == TurnStarts \/ TurnEnds
CompactionRuns == CompactionDone \/ CompactionUnwound

Next ==
  \/ Call \/ StartNext \/ Recurse \/ Launching \/ Settling \/ SteerAssigned
  \/ LoopRuns \/ CompactionRuns

Spec == Init /\ [][Next]_vars

\* The event loop runs every continuation, the submit hook settles, leases are
\* released, turns end (TurnsEnd of AgentLoop) and compactions come to an end.
FairSpec ==
  /\ Spec
  /\ WF_vars(StartNext) /\ WF_vars(Launching) /\ WF_vars(Settling) /\ WF_vars(SteerAssigned)
  /\ WF_vars(LoopRuns) /\ WF_vars(CompactionRuns)

-----------------------------------------------------------------------------
(* Properties.                                                               *)

States == {"pending", "running", "steered", "completed", "failed", "cancelled", "blocked"}
Final == {"completed", "failed", "cancelled", "blocked"}

\* The type invariant of the scheduler.
TypeOK ==
  /\ count \in 0..MaxPrompts /\ state \in [Prompts -> States \cup {"none"}]
  /\ launched \in [Prompts -> {"open", "turn", "undefined"}]
  /\ completion \in [Prompts -> Final \cup {"open"}]
  /\ pending \in Seq(Prompts) /\ active \in 0..MaxPrompts
  /\ steered \in [Prompts -> SUBSET Prompts] /\ item \in 0..MaxPrompts
  /\ pc \in {"idle", "start", "hook", "admit", "assigned"}
  /\ steering \subseteq Prompts /\ into \in 0..MaxTurns /\ lost \subseteq Prompts
  /\ turnOf \in [Prompts -> 0..MaxTurns]
  /\ disposed \in BOOLEAN /\ compacting \in BOOLEAN
  /\ begun \in 0..MaxCompactions /\ unwinding \in 0..MaxCompactions

\* The places where a prompt can be, as far as the scheduler will ever look.
Places(p) ==
  {x \in {"pending", "item", "active", "steered", "steering", "lost"} :
     CASE x = "pending" -> p \in Elems(pending)
       [] x = "item" -> p = item
       [] x = "active" -> p = active
       [] x = "steered" -> active # 0 /\ p \in steered[active]
       [] x = "steering" -> p \in steering
       [] OTHER -> p \in lost}

\* A prompt whose completion is open is in exactly one place, from which it goes
\* on, and one whose completion resolved is in none: no launch, block, failure,
\* steer, abort or settle forgets a handle or settles it twice.
EachInOnePlace ==
  \A p \in 1..count : Cardinality(Places(p)) = IF completion[p] = "open" THEN 1 ELSE 0

\* Prompts run one at a time: the loop never has two unfinished turns of prompts,
\* whatever finishes, settles or is enqueued while one is being launched.
OneTurnAtATime ==
  Cardinality({p \in Prompts : turnOf[p] # 0 /\ turnOf[p] \notin over}) <= 1

\* Prompts are launched in the order they were enqueued: what is pending is younger
\* than what was launched, and ascends.
InOrder ==
  /\ \A i, j \in DOMAIN pending : i < j => pending[i] < pending[j]
  /\ \A p \in Prompts, q \in Elems(pending) : p = item \/ turnOf[p] # 0 => p < q

\* Whoever awaits `launched' is answered before, or with, the completion.
LaunchAnswered == \A p \in Prompts : completion[p] # "open" => launched[p] # "open"

\* The state in which only Recurse is enabled.
Recursing == pc = "start" /\ pending # <<>> /\ HeldByCompaction

\* Every prompt's completion resolves, unless a steer() that threw took it along or
\* startNext() recurses under a compaction.
PromptsSettle ==
  \A p \in Prompts : count >= p ~> completion[p] # "open" \/ p \in lost \/ Recursing

\* A prompt that waits for a compaction is launched, or taken back, once that is over.
LaunchesAfterCompaction ==
  \A p \in Prompts : (p \in Elems(pending) /\ compacting) ~> p \notin Elems(pending)
=============================================================================
