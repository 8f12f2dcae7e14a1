---------------------------- MODULE ToolExecutor ----------------------------
(***************************************************************************)
(* The tool calls of one model response: AgentToolExecutorService prepares *)
(* them one after the other (toolExecutorService.ts), ToolScheduler runs   *)
(* those whose accesses do not conflict (toolScheduler.ts), the results    *)
(* are finalized and yielded in completion order, and the toolDedupe       *)
(* participant answers repeated calls of a step with the first one's       *)
(* result (toolDedupeService.ts).  What becomes of the announced calls and *)
(* of the yielded results in the history is in ContextHistory.             *)
(*                                                                         *)
(* One action is one synchronous segment of the code.  Whatever a tool, a  *)
(* hook or an approver decides is a nondeterministic choice; the signal of *)
(* the turn may be aborted at any moment.                                  *)
(***************************************************************************)
EXTENDS Naturals, Sequences

CONSTANTS
    MaxCalls,       \* bound on the tool calls of all responses together
    Keys,           \* tool name and arguments of a call, as toolDedupe keys it
    AccessOf,       \* the accesses a call of that key declares
    PlanWrites,     \* keys of a Write or Edit of nothing but the plan file
    MaxSteps        \* bound on the steps of a behaviour

ASSUME ToolAssumption ==
    MaxCalls \in Nat \ {0} /\ MaxSteps \in Nat /\ PlanWrites \subseteq Keys

VARIABLES
    step,           \* steps begun
    phase,          \* "idle", "preparing", "running"
    aborted,        \* the signal of the turn
    batch,          \* key of each call of the response, in order
    asked,          \* calls of all responses so far
    prep,           \* the call being prepared
    asking,         \* its adjudication is awaited
    stopBatch,      \* an earlier call stops the batch
    prepared,       \* per call: "none", "settled" (a result is known), "run"
    active, queued, \* the scheduler's tasks
    body,           \* the tool itself: "none", "running", "ended"
    raw,            \* result of the task, or "none"
    fin,            \* finalization of the result: "no", "begun", "yielded"
    deferred,       \* toolDedupe.stepDeferreds: "absent", "open" or a result
    keyed,          \* toolDedupe.callKeyByCallId: calls it has checked
    synthetic,      \* toolDedupe.syntheticCallIds: those it answers itself
    outright        \* history: calls allowed before toolDedupe was asked

schedVars == <<active, queued, body, raw>>
dedupeVars == <<deferred, keyed, synthetic, outright>>
prepVars == <<batch, asked, prep, asking, stopBatch, prepared>>
vars == <<step, phase, aborted, prepVars, schedVars, fin, dedupeVars>>

Results == {"output", "refused", "aborted", "placeholder"}

\* The calls of the response, and of all responses.
Batch == DOMAIN batch
Calls == 1..MaxCalls

----------------------------------------------------------------------------
(* ToolAccesses (toolContract.ts): an access is to everything, or reads or  *)
(* writes one path, with what is below it when it is recursive.             *)

All == [all |-> TRUE, writes |-> TRUE, path |-> <<>>, recursive |-> TRUE]
File(w, p, r) == [all |-> FALSE, writes |-> w, path |-> p, recursive |-> r]

Below(p, q) == Len(p) < Len(q) /\ SubSeq(q, 1, Len(p)) = p

FileAccessesOverlap(a, b) ==
    \/ a.path = b.path
    \/ a.recursive /\ Below(a.path, b.path)
    \/ b.recursive /\ Below(b.path, a.path)

ResourceAccessesConflict(a, b) ==
    \/ a.all \/ b.all
    \/ (a.writes \/ b.writes) /\ FileAccessesOverlap(a, b)

Conflict(left, right) ==
    \E a \in left, b \in right : ResourceAccessesConflict(a, b)

\* A task that only hands over a known result accesses nothing.
Accesses(c) == IF prepared[c] = "run" THEN AccessOf[batch[c]] ELSE {}

----------------------------------------------------------------------------
Init ==
    /\ step = 0 /\ phase = "idle" /\ aborted = FALSE
    /\ batch = <<>> /\ asked = 0
    /\ prep = 1 /\ asking = FALSE /\ stopBatch = FALSE
    /\ prepared = [c \in Calls |-> "none"]
    /\ active = {} /\ queued = {}
    /\ body = [c \in Calls |-> "none"]
    /\ raw = [c \in Calls |-> "none"]
    /\ fin = [c \in Calls |-> "no"]
    /\ deferred = [k \in Keys |-> "absent"]
    /\ keyed = {} /\ synthetic = {} /\ outright = {}

(* The loop around the executor. *)

\* What execute() keeps of a batch.
ResetBatch ==
    /\ prep' = 1 /\ asking' = FALSE /\ stopBatch' = FALSE
    /\ prepared' = [c \in Calls |-> "none"]
    /\ active' = {} /\ queued' = {}
    /\ body' = [c \in Calls |-> "none"]
    /\ raw' = [c \in Calls |-> "none"]
    /\ fin' = [c \in Calls |-> "no"]

\* onWillBeginStep lets toolDedupe forget the previous step, the response
\* arrives with tool calls, and execute() is called.  A turn whose signal was
\* aborted is over: the step is a new turn's.
BeginStep ==
    /\ phase = "idle" /\ step < MaxSteps
    /\ step' = step + 1 /\ phase' = "preparing" /\ aborted' = FALSE
    /\ \E n \in 1..(MaxCalls - asked) :
         /\ batch' \in [1..n -> Keys]
         /\ asked' = asked + n
    /\ deferred' = [k \in Keys |-> "absent"]
    /\ keyed' = {} /\ synthetic' = {} /\ outright' = {}
    /\ UNCHANGED <<prep, asking, stopBatch, prepared, schedVars, fin>>

Abort ==
    /\ phase # "idle" /\ ~aborted /\ aborted' = TRUE
    /\ UNCHANGED <<step, phase, prepVars, schedVars, fin, dedupeVars>>

----------------------------------------------------------------------------
(* prepareToolCall *)

Preparing == phase = "preparing" /\ prep \in Batch /\ ~asking

\* The call is announced (dispatchToolCall) and answered without running a
\* tool; execute() goes on to the next one.
Settle(result, stop) ==
    /\ prep' = prep + 1
    /\ prepared' = [prepared EXCEPT ![prep] = "settled"]
    /\ raw' = [raw EXCEPT ![prep] = result]
    /\ stopBatch' = (stopBatch \/ stop)
    /\ UNCHANGED <<step, phase, aborted, batch, asked, active, queued, body, fin>>

PrepareSkipped ==
    /\ Preparing /\ stopBatch
    /\ Settle("refused", FALSE)
    /\ UNCHANGED <<asking, dedupeVars>>

\* No such tool, denied by the guard, invalid arguments, or the tool cannot
\* resolve the execution.
PrepareRejected ==
    /\ Preparing /\ ~stopBatch
    /\ Settle("refused", FALSE)
    /\ UNCHANGED <<asking, dedupeVars>>

PrepareAborted ==
    /\ Preparing /\ ~stopBatch /\ aborted
    /\ Settle("aborted", FALSE)
    /\ UNCHANGED <<asking, dedupeVars>>

\* The tool resolves to a result, or a listener ahead of toolDedupe vetoes;
\* either may stop the turn.
PrepareSynthetic(stop) ==
    /\ Preparing /\ ~stopBatch /\ ~aborted
    /\ Settle("refused", stop)
    /\ UNCHANGED <<asking, dedupeVars>>

\* mutant
CheckForgotten(c) ==
    keyed' = keyed \cup {c} /\ UNCHANGED <<deferred, synthetic, outright>>

\* toolDedupe.checkToolCall: a key seen in this step is answered by it.
CheckToolCall(c) ==
    /\ keyed' = keyed \cup {c} /\ UNCHANGED outright
    /\ IF deferred[batch[c]] # "absent"
       THEN synthetic' = synthetic \cup {c} /\ UNCHANGED deferred
       ELSE /\ deferred' = [deferred EXCEPT ![batch[c]] = "open"]
            /\ UNCHANGED synthetic

PrepareDuplicate ==
    /\ Preparing /\ ~stopBatch /\ ~aborted
    /\ deferred[batch[prep]] # "absent"
    /\ CheckToolCall(prep)
    /\ Settle("placeholder", FALSE)
    /\ UNCHANGED asking

\* The first call of its key passes toolDedupe; listeners, deferred
\* adjudications and onWillExecuteTool participants are awaited.
PrepareAsks ==
    /\ Preparing /\ ~stopBatch /\ ~aborted
    /\ deferred[batch[prep]] = "absent"
    /\ CheckToolCall(prep)
    /\ asking' = TRUE
    /\ UNCHANGED <<step, phase, aborted, batch, asked, prep, stopBatch, prepared,
                   schedVars, fin>>

\* The plan guard, registered ahead of toolDedupe, allows a write of the plan
\* file for good: nobody behind it is asked, toolDedupe neither, and only the
\* onWillExecuteTool participants are awaited.
PrepareOutright ==
    /\ Preparing /\ ~stopBatch /\ ~aborted
    /\ batch[prep] \in PlanWrites
    /\ outright' = outright \cup {prep} /\ asking' = TRUE
    /\ UNCHANGED <<step, phase, aborted, batch, asked, prep, stopBatch, prepared,
                   schedVars, fin, deferred, keyed, synthetic>>

\* A later veto, for instance the user's; the signal is not read again.
PrepareVetoed(stop) ==
    /\ asking /\ prep \notin outright /\ asking' = FALSE
    /\ Settle("refused", stop)
    /\ UNCHANGED dedupeVars

PrepareAllowed(stop) ==
    /\ asking /\ asking' = FALSE
    /\ prep' = prep + 1
    /\ prepared' = [prepared EXCEPT ![prep] = "run"]
    /\ stopBatch' = stop
    /\ UNCHANGED <<step, phase, aborted, batch, asked, schedVars, fin, 
                   dedupeVars>>

\* The adjudication throws: execute() fails, and with it the step.
PrepareThrows ==
    /\ asking /\ phase' = "idle"
    /\ batch' = <<>> /\ ResetBatch
    /\ UNCHANGED <<step, aborted, asked, dedupeVars>>

----------------------------------------------------------------------------
(* executeBatch and the scheduler *)

\* mutant
IsBlockedByActive(c, running, waiting) ==
    \E d \in running : Conflict(Accesses(c), Accesses(d))

\* add() and startQueuedTasks() start a task unless it conflicts with an
\* active task or with one queued before it.
IsBlocked(c, running, waiting) ==
    \E d \in running \cup {e \in waiting : e < c} :
       Conflict(Accesses(c), Accesses(d))

\* start() calls runSingleExecution, which runs no tool once aborted.
Runs(c) == prepared[c] = "run" /\ ~aborted

StartTasks(S) ==
    /\ body' = [c \in Calls |->
                  IF c \in S /\ Runs(c) THEN "running" ELSE body[c]]
    /\ raw' = [c \in Calls |->
                 IF c \in S /\ prepared[c] = "run" /\ ~Runs(c)
                 THEN "aborted" ELSE raw[c]]

ExecuteBatch ==
    LET S == {c \in Batch : ~IsBlocked(c, {}, Batch)}
    IN  /\ phase = "preparing" /\ prep > Len(batch)
        /\ phase' = "running"
        /\ active' = S /\ queued' = Batch \ S
        /\ StartTasks(S)
        /\ stopBatch' = FALSE
        /\ UNCHANGED <<step, aborted, batch, asked, prep, asking, prepared,
                       fin, dedupeVars>>

\* The tool returns or throws.  A task that gave up on it ignores the result.
ToolEnds(c) ==
    /\ body[c] = "running"
    /\ body' = [body EXCEPT ![c] = "ended"]
    /\ raw' = [raw EXCEPT ![c] = IF @ = "none" THEN "output" ELSE @]
    /\ UNCHANGED <<step, phase, aborted, prepVars, active, queued, fin, 
                   dedupeVars>>

\* raceWithAbortGrace: the task gives up on a tool that ignores the abort.
GraceExpires(c) ==
    /\ phase = "running" /\ aborted
    /\ body[c] = "running" /\ raw[c] = "none"
    /\ raw' = [raw EXCEPT ![c] = "aborted"]
    /\ UNCHANGED <<step, phase, aborted, prepVars, active, queued, body, fin, dedupeVars>>

\* finish(): the settled task makes room for queued ones.
FinishTask(c) ==
    LET left == active \ {c}
        S == {d \in queued : ~IsBlocked(d, left, queued)}
    IN  /\ c \in active /\ raw[c] # "none"
        /\ active' = left \cup S /\ queued' = queued \ S
        /\ StartTasks(S)
        /\ UNCHANGED <<step, phase, aborted, prepVars, fin, dedupeVars>>

----------------------------------------------------------------------------
(* Finalization, in completion order: hooks.onDidExecuteTool *)

IsDuplicate(c) ==
    IF c \in keyed THEN c \in synthetic ELSE deferred[batch[c]] # "absent"

\* mutant
ResolveOutput(c) ==
    deferred' = [deferred EXCEPT ![batch[c]] =
                   IF raw[c] = "output" THEN raw[c] ELSE "open"]

\* finalizeResult of the first call of its key hands its result to the
\* duplicates.
ResolveDeferred(c) == deferred' = [deferred EXCEPT ![batch[c]] = raw[c]]

\* toolDedupe's hook: registerSkipped keys a call that was settled before
\* toolDedupe saw it, finalizeResult answers it.
Finalize(c) ==
    /\ phase = "running" /\ c \notin queued
    /\ raw[c] # "none" /\ fin[c] = "no"
    /\ keyed' = keyed \cup {c}
    /\ IF IsDuplicate(c)
       THEN synthetic' = synthetic \cup {c} /\ UNCHANGED deferred
       ELSE ResolveDeferred(c) /\ UNCHANGED synthetic
    /\ fin' = [fin EXCEPT ![c] = "begun"]
    /\ UNCHANGED <<step, phase, aborted, prepVars, schedVars, outright>>

\* A duplicate waits for the result of the call it repeats.
Answer(c) == IF c \in synthetic THEN deferred[batch[c]] ELSE raw[c]

\* The remaining hooks run, or one fails and its error stands in for the
\* result; a result is yielded either way.
Yield(c) ==
    /\ phase = "running" /\ fin[c] = "begun" /\ Answer(c) # "open"
    /\ fin' = [fin EXCEPT ![c] = "yielded"]
    /\ UNCHANGED <<step, phase, aborted, prepVars, schedVars, dedupeVars>>

\* The last result was yielded and execute() returns.
EndBatch ==
    /\ phase = "running" /\ \A c \in Batch : fin[c] = "yielded"
    /\ phase' = "idle" /\ batch' = <<>> /\ ResetBatch
    /\ UNCHANGED <<step, aborted, asked, dedupeVars>>

----------------------------------------------------------------------------
\* Steps of the executor that wait for nobody else.
Prepare ==
    \/ PrepareSkipped \/ PrepareRejected \/ PrepareAborted
    \/ \E stop \in BOOLEAN : PrepareSynthetic(stop)
    \/ PrepareDuplicate \/ PrepareAsks \/ PrepareOutright

Adjudicate ==
    \/ \E stop \in BOOLEAN : PrepareVetoed(stop) \/ PrepareAllowed(stop)
    \/ PrepareThrows

Continue(c) ==
    \/ GraceExpires(c) \/ FinishTask(c)
    \/ Finalize(c) \/ Yield(c)

Next ==
    \/ BeginStep \/ Abort
    \/ Prepare \/ Adjudicate \/ ExecuteBatch \/ EndBatch
    \/ \E c \in Calls : ToolEnds(c) \/ Continue(c)

Spec == Init /\ [][Next]_vars

\* The event loop runs what is ready and fires the grace timer; an approval
\* is withdrawn when the signal is aborted.  Tools and approvers promise
\* nothing; but resolveExecution and what the onWillExecuteTool participants
\* wait for, which no abort cuts short, are taken to settle.
FairSpec ==
    /\ Spec
    /\ WF_vars(Prepare) /\ WF_vars(ExecuteBatch) /\ WF_vars(EndBatch)
    /\ WF_vars(aborted /\ Adjudicate)
    /\ \A c \in Calls : WF_vars(Continue(c))

----------------------------------------------------------------------------
TypeOK ==
    /\ step \in 0..MaxSteps /\ prep \in 1..(MaxCalls + 1) /\ asked \in 0..MaxCalls
    /\ phase \in {"idle", "preparing", "running"}
    /\ aborted \in BOOLEAN /\ asking \in BOOLEAN /\ stopBatch \in BOOLEAN
    /\ batch \in Seq(Keys) /\ Batch \subseteq Calls
    /\ prepared \in [Calls -> {"none", "settled", "run"}]
    /\ active \subseteq Calls /\ queued \subseteq Calls
    /\ body \in [Calls -> {"none", "running", "ended"}]
    /\ raw \in [Calls -> Results \cup {"none"}]
    /\ fin \in [Calls -> {"no", "begun", "yielded"}]
    /\ deferred \in [Keys -> Results \cup {"absent", "open"}]
    /\ keyed \subseteq Calls /\ synthetic \subseteq Calls /\ outright \subseteq Calls

\* Conflicting tools of a response run one at a time and in the order the
\* model asked for them: a tool has begun only if every earlier call it
\* conflicts with has really ended, also when the turn was aborted and the
\* scheduler no longer waits for a tool that ignores the abort
\* (toolScheduler.ts add/finish, runSingleExecution's check of the signal).
ConflictsSerialized ==
    \A c, d \in Batch :
       /\ c < d /\ prepared[c] = "run" /\ body[d] # "none"
       /\ Conflict(AccessOf[batch[c]], AccessOf[batch[d]])
       => body[c] = "ended"

\* Of the identical calls of a step that toolDedupe is asked about only one runs
\* its tool, wherever among them the plan guard lets others through, and no call,
\* those others included, is answered with the empty placeholder that stands for
\* a duplicate's result (toolDedupeService.ts checkToolCall and finalizeResult).
DuplicatesShareOneRun ==
    /\ \A c, d \in Batch \ outright :
         c # d /\ batch[c] = batch[d] => body[c] = "none" \/ body[d] = "none"
    /\ \A c \in Batch : fin[c] = "yielded" => Answer(c) # "placeholder"

\* "Same-step duplicates are vetoed" (toolDedupeService.ts:4-6): not so when the
\* plan guard allowed one of them before toolDedupe was asked.
DuplicatesVetoed ==
    \A c, d \in Batch :
       c # d /\ batch[c] = batch[d] => body[c] = "none" \/ body[d] = "none"

Busy == phase # "idle"

\* Somebody outside the executor is awaited: a tool, or whoever adjudicates.
OutsiderAwaited ==
    ~aborted /\ (asking \/ \E c \in Calls : body[c] = "running" /\ raw[c] = "none")

\* A batch comes to an end: it can only be kept up by a tool or an
\* adjudication, and by these no longer once the turn is aborted; no call
\* waits for another's result, for its turn or for the grace timer forever
\* (toolExecutorService.ts execute, raceWithAbortGrace).
BatchEnds == []<>(~Busy \/ OutsiderAwaited)
=============================================================================
