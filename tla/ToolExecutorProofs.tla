------------------------- MODULE ToolExecutorProofs -------------------------
(***************************************************************************)
(* For any number of calls and steps and any table of accesses: the tools  *)
(* of a response that conflict run one at a time and in order, and         *)
(* of identical calls that toolDedupe is asked about only one runs.        *)
(***************************************************************************)
EXTENDS ToolExecutor, TLAPS

\* Where the batch stands: the calls before prep are prepared, and the scheduler
\* has tasks and the tools have begun only once all of them are.
Stages ==
  /\ phase # "running" => active = {} /\ queued = {} /\ \A c \in Calls : body[c] = "none"
  /\ phase = "idle" => batch = <<>>
  /\ phase = "running" => prep = Len(batch) + 1
  /\ asking => phase = "preparing" /\ prep \in Batch
  /\ prep <= Len(batch) + 1
  /\ \A c \in Calls : prepared[c] = "none" <=> c >= prep

\* What a task of the scheduler has done: a queued one nothing, one that is gone
\* has a result; a result that is not the tool's own stands only for a turn that
\* was aborted.  The last two are why the scheduler may forget a tool that has not
\* ended: nothing is started behind it.
Tasks ==
  /\ active \cup queued \subseteq Batch
  /\ \A c \in Calls :
       /\ body[c] # "none" => prepared[c] = "run" /\ c \notin queued
       /\ prepared[c] = "none" => raw[c] = "none"
       /\ prepared[c] = "run" /\ (phase # "running" \/ c \in queued) => raw[c] = "none"
       /\ prepared[c] = "run" /\ raw[c] # "none" => body[c] = "ended" \/ aborted
       /\ phase = "running" /\ c \in Batch /\ c \notin active \cup queued => raw[c] # "none"

\* The type invariant in three parts.
Sizes ==
  /\ step \in 0..MaxSteps /\ prep \in 1..(MaxCalls + 1) /\ asked \in 0..MaxCalls
  /\ batch \in Seq(Keys) /\ Batch \subseteq Calls
  /\ active \subseteq Calls /\ queued \subseteq Calls

Flags ==
  /\ phase \in {"idle", "preparing", "running"}
  /\ aborted \in BOOLEAN /\ asking \in BOOLEAN /\ stopBatch \in BOOLEAN

Maps ==
  /\ prepared \in [Calls -> {"none", "settled", "run"}]
  /\ body \in [Calls -> {"none", "running", "ended"}]
  /\ raw \in [Calls -> Results \cup {"none"}]
  /\ fin \in [Calls -> {"no", "begun", "yielded"}]
  /\ deferred \in [Keys -> Results \cup {"absent", "open"}]
  /\ keyed \subseteq Calls /\ synthetic \subseteq Calls /\ outright \subseteq Calls

Inv == Sizes /\ Flags /\ Maps /\ Stages /\ Tasks /\ ConflictsSerialized


\* ToolAccesses.conflict does not depend on the order of its arguments.
LEMMA ConflictSymmetric ==
  ASSUME NEW s, NEW t, Conflict(s, t)
  PROVE  Conflict(t, s)
BY DEF Conflict, ResourceAccessesConflict, FileAccessesOverlap

\* The batch of a step that has not begun.
LEMMA EmptyBatch == <<>> \in Seq(Keys) /\ Len(<<>>) = 0 /\ DOMAIN <<>> = {}
OBVIOUS

\* An executor without a batch satisfies the invariant.
LEMMA EmptyInv ==
  ASSUME batch = <<>>, phase = "idle", prep = 1, asking = FALSE, stopBatch = FALSE,
         step \in 0..MaxSteps, asked \in 0..MaxCalls, aborted \in BOOLEAN,
         prepared = [c \in Calls |-> "none"], active = {}, queued = {},
         body = [c \in Calls |-> "none"], raw = [c \in Calls |-> "none"],
         fin = [c \in Calls |-> "no"],
         deferred \in [Keys -> Results \cup {"absent", "open"}],
         keyed \subseteq Calls, synthetic \subseteq Calls, outright \subseteq Calls
  PROVE  Inv
<1>1. batch \in Seq(Keys) /\ Len(batch) = 0 /\ Batch = {}
  BY EmptyBatch DEF Batch
<1>2. Sizes /\ Flags /\ Maps
  <2>1. Sizes
    BY <1>1, ToolAssumption DEF Sizes
  <2>2. Flags
    BY DEF Flags
  <2>3. Maps
    BY DEF Maps
  <2> QED
    BY <2>1, <2>2, <2>3
<1>3. Stages
  BY <1>1, ToolAssumption DEF Stages, Calls
<1>4. Tasks /\ ConflictsSerialized
  BY <1>1 DEF Tasks, ConflictsSerialized
<1> QED
  BY <1>2, <1>3, <1>4 DEF Inv

\* A new executor satisfies the invariant.
LEMMA InitInv ==
  ASSUME Init
  PROVE  Inv
<1>1. step \in 0..MaxSteps /\ asked \in 0..MaxCalls
  BY ToolAssumption DEF Init
<1>2. /\ aborted \in BOOLEAN
      /\ keyed \subseteq Calls /\ synthetic \subseteq Calls /\ outright \subseteq Calls
      /\ deferred \in [Keys -> Results \cup {"absent", "open"}]
  BY DEF Init
<1> QED
  BY <1>1, <1>2, EmptyInv DEF Init

\* A response arrives: nothing of the step before is left.
LEMMA BeginStepKeepsInv ==
  ASSUME Inv, BeginStep
  PROVE  Inv'
<1>1. PICK n \in 1..(MaxCalls - asked) : batch' \in [1..n -> Keys] /\ asked' = asked + n
  BY DEF BeginStep
<1>2. /\ n \in Nat /\ batch' \in Seq(Keys) /\ Len(batch') = n /\ DOMAIN batch' = 1..n
      /\ n <= MaxCalls /\ asked' \in 0..MaxCalls
  BY <1>1, ToolAssumption DEF Inv, Sizes, Flags, Maps
<1>3. /\ prep = 1 /\ step' \in 0..MaxSteps
      /\ \A c \in Calls : prepared[c] = "none" /\ raw[c] = "none" /\ body[c] = "none"
  BY ToolAssumption DEF BeginStep, Inv, Sizes, Stages, Tasks, Calls
<1>4. Sizes' /\ Flags'
  <2>1. Sizes'
    BY <1>2, <1>3, ToolAssumption DEF BeginStep, schedVars, Inv, Sizes, Batch, Calls
  <2>2. Flags'
    BY DEF BeginStep, Inv, Flags
  <2> QED
    BY <2>1, <2>2
<1>5. Maps'
  BY DEF BeginStep, schedVars, Inv, Maps
<1>6. Stages'
  BY <1>2, <1>3 DEF BeginStep, schedVars, Inv, Stages, Batch, Calls
<1>7. Tasks' /\ ConflictsSerialized'
  <2>1. \A c \in Calls : prepared'[c] = "none" /\ raw'[c] = "none" /\ body'[c] = "none"
    BY <1>3 DEF BeginStep, schedVars
  <2>2. phase' = "preparing" /\ active' = {} /\ queued' = {} /\ Batch' \subseteq Calls
    BY <1>4 DEF BeginStep, schedVars, Inv, Stages, Sizes
  <2> QED
    BY <2>1, <2>2 DEF Tasks, ConflictsSerialized
<1> QED
  BY <1>4, <1>5, <1>6, <1>7 DEF Inv

\* An abort starts nothing and takes no result away.
LEMMA AbortKeepsInv ==
  ASSUME Inv, Abort
  PROVE  Inv'
BY DEF Abort, prepVars, schedVars, dedupeVars,
       Inv, Sizes, Flags, Maps, Stages, Tasks, ConflictsSerialized, Batch, Calls

\* A call is answered without running a tool.
LEMMA SettleKeepsInv ==
  ASSUME Inv, NEW result \in Results, NEW stop \in BOOLEAN, Settle(result, stop),
         phase = "preparing", prep \in Batch, asking' = FALSE,
         deferred' \in [Keys -> Results \cup {"absent", "open"}],
         keyed' \subseteq Calls, synthetic' \subseteq Calls, outright' \subseteq Calls
  PROVE  Inv'
<1>0. stopBatch' \in BOOLEAN
  BY DEF Settle, Inv, Sizes, Flags, Maps
<1>1. Sizes' /\ Flags' /\ Maps'
  <2>1. Sizes'
    BY ToolAssumption DEF Settle, Inv, Sizes, Batch, Calls
  <2>2. Flags'
    BY <1>0 DEF Settle, Inv, Flags
  <2>3. Maps'
    BY DEF Settle, Inv, Maps
  <2> QED
    BY <2>1, <2>2, <2>3
<1>2. Stages'
  BY DEF Settle, Inv, Sizes, Flags, Maps, Stages, Batch, Calls
<1>3. Tasks' /\ ConflictsSerialized'
  BY DEF Settle, Inv, Sizes, Flags, Maps, Stages, Tasks, ConflictsSerialized, Batch, Calls, Results
<1> QED
  BY <1>1, <1>2, <1>3 DEF Inv

\* prepareToolCall(), up to the adjudication it awaits.
LEMMA PrepareKeepsInv ==
  ASSUME Inv, Prepare
  PROVE  Inv'
<1>1. /\ phase = "preparing" /\ prep \in Batch /\ ~asking /\ prep \in Calls
      /\ batch[prep] \in Keys
  <2>1. Preparing
    BY DEF Prepare, PrepareSkipped, PrepareRejected, PrepareAborted, PrepareSynthetic,
           PrepareDuplicate, PrepareAsks, PrepareOutright
  <2> QED
    BY <2>1 DEF Preparing, Inv, Sizes, Batch
<1>2. CASE PrepareSkipped \/ PrepareRejected \/ PrepareAborted
           \/ \E stop \in BOOLEAN : PrepareSynthetic(stop)
  <2>1. /\ UNCHANGED <<deferred, keyed, synthetic, outright, asking>>
        /\ \E r \in Results, stop \in BOOLEAN : Settle(r, stop)
    BY <1>2 DEF PrepareSkipped, PrepareRejected, PrepareAborted, PrepareSynthetic,
                dedupeVars, Results
  <2> QED
    BY <1>1, <2>1, SettleKeepsInv DEF Inv, Sizes, Flags, Maps
<1>3. CheckToolCall(prep) =>
        /\ deferred' \in [Keys -> Results \cup {"absent", "open"}]
        /\ keyed' \subseteq Calls /\ synthetic' \subseteq Calls /\ outright' \subseteq Calls
  <2>1. /\ deferred \in [Keys -> Results \cup {"absent", "open"}]
        /\ keyed \subseteq Calls /\ synthetic \subseteq Calls /\ outright \subseteq Calls
    BY DEF Inv, Maps
  <2>2. [deferred EXCEPT ![batch[prep]] = "open"] \in [Keys -> Results \cup {"absent", "open"}]
    BY <2>1
  <2> QED
    BY <1>1, <2>1, <2>2 DEF CheckToolCall
<1>4. CASE PrepareDuplicate
  BY <1>1, <1>3, <1>4, SettleKeepsInv DEF PrepareDuplicate, Results, Inv, Sizes, Flags, Maps
<1>5. CASE PrepareAsks
  BY <1>1, <1>3, <1>5
  DEF PrepareAsks, schedVars, Inv, Sizes, Flags, Maps, Stages, Tasks, ConflictsSerialized, Batch, Calls
<1>6. CASE PrepareOutright
  <2>1. outright' \subseteq Calls
    BY <1>1, <1>6 DEF PrepareOutright, Inv, Maps
  <2> QED
    BY <1>1, <1>6, <2>1
    DEF PrepareOutright, schedVars, Inv, Sizes, Flags, Maps, Stages, Tasks, ConflictsSerialized, Batch, Calls
<1> QED
  BY <1>2, <1>4, <1>5, <1>6 DEF Prepare

\* execute() returns or throws: it leaves nothing behind.
LEMMA ResetKeepsInv ==
  ASSUME Inv, ResetBatch, phase' = "idle", batch' = <<>>,
         UNCHANGED <<step, aborted, asked, dedupeVars>>
  PROVE  Inv'
<1>1. /\ step' \in 0..MaxSteps /\ asked' \in 0..MaxCalls /\ aborted' \in BOOLEAN
      /\ deferred' \in [Keys -> Results \cup {"absent", "open"}]
      /\ keyed' \subseteq Calls /\ synthetic' \subseteq Calls /\ outright' \subseteq Calls
  BY DEF dedupeVars, Inv, Sizes, Flags, Maps
<1>2. batch' \in Seq(Keys) /\ Len(batch') = 0 /\ Batch' = {}
  BY EmptyBatch DEF Batch
<1>3. Sizes' /\ Flags' /\ Maps'
  <2>1. Sizes'
    BY <1>1, <1>2, ToolAssumption DEF ResetBatch, Sizes
  <2>2. Flags'
    BY <1>1 DEF ResetBatch, Flags
  <2>3. Maps'
    BY <1>1 DEF ResetBatch, Maps
  <2> QED
    BY <2>1, <2>2, <2>3
<1>4. Stages'
  BY <1>2, ToolAssumption DEF ResetBatch, Stages, Calls
<1>5. Tasks' /\ ConflictsSerialized'
  BY <1>2 DEF ResetBatch, Tasks, ConflictsSerialized
<1> QED
  BY <1>3, <1>4, <1>5 DEF Inv

\* The adjudication of a call comes to an end.
LEMMA AdjudicateKeepsInv ==
  ASSUME Inv, Adjudicate
  PROVE  Inv'
<1>1. phase = "preparing" /\ prep \in Batch /\ asking
  BY DEF Adjudicate, PrepareVetoed, PrepareAllowed, PrepareThrows, Inv, Stages
<1>2. CASE \E stop \in BOOLEAN : PrepareVetoed(stop)
  BY <1>1, <1>2, SettleKeepsInv DEF PrepareVetoed, dedupeVars, Inv, Sizes, Flags, Maps, Results
<1>3. CASE \E stop \in BOOLEAN : PrepareAllowed(stop)
  <2>1. Sizes' /\ Flags' /\ Maps'
    <3>1. Sizes'
      BY <1>1, <1>3, ToolAssumption DEF PrepareAllowed, schedVars, Inv, Sizes, Batch, Calls
    <3>2. Flags' /\ Maps'
      BY <1>3 DEF PrepareAllowed, schedVars, dedupeVars, Inv, Flags, Maps
    <3> QED
      BY <3>1, <3>2
  <2>2. Stages' /\ Tasks' /\ ConflictsSerialized'
    BY <1>1, <1>3
    DEF PrepareAllowed, schedVars, Inv, Sizes, Flags, Maps, Stages, Tasks, ConflictsSerialized, Batch,
        Calls
  <2> QED
    BY <2>1, <2>2 DEF Inv
<1>4. CASE PrepareThrows
  BY <1>4, ResetKeepsInv DEF PrepareThrows
<1> QED
  BY <1>2, <1>3, <1>4 DEF Adjudicate

\* add() and startQueuedTasks(): what is started has no conflict with what is
\* active or queued before it, and no tool is started once aborted.
LEMMA StartKeepsInv ==
  ASSUME Inv, NEW left, NEW waiting, NEW S,
         left \subseteq Batch, waiting \subseteq Batch, S \subseteq waiting,
         \A c \in S : ~IsBlocked(c, left, waiting),
         \A c \in Calls : prepared[c] = "run" /\ c \in waiting => raw[c] = "none" /\ body[c] = "none",
         \A c \in Batch : c \notin left /\ c \notin waiting => raw[c] # "none",
         prep = Len(batch) + 1, phase' = "running",
         active' = left \cup S, queued' = waiting \ S, StartTasks(S),
         stopBatch' \in BOOLEAN,
         UNCHANGED <<step, aborted, batch, asked, prep, asking, prepared, fin, dedupeVars>>,
         ~asking
  PROVE  Inv'
<1>1. Sizes' /\ Flags' /\ Maps'
  <2>1. Sizes'
    BY DEF Inv, Sizes, Batch
  <2>2. Flags'
    BY DEF Inv, Flags
  <2>3. Maps'
    BY DEF Inv, Maps, StartTasks, dedupeVars, Results
  <2> QED
    BY <2>1, <2>2, <2>3
<1>2. Stages'
  BY DEF Inv, Stages, Batch
<1>3. \A c \in Calls : body'[c] = IF c \in S /\ Runs(c) THEN "running" ELSE body[c]
  BY DEF StartTasks
<1>4. \A c \in Calls : raw'[c] = IF c \in S /\ prepared[c] = "run" /\ ~Runs(c)
                                THEN "aborted" ELSE raw[c]
  BY DEF StartTasks
<1>5. Tasks'
  <2>1. (active \cup queued \subseteq Batch)'
    BY DEF Batch
  <2>2. ASSUME NEW c \in Calls
        PROVE  /\ body'[c] # "none" => prepared'[c] = "run" /\ c \notin queued'
               /\ prepared'[c] = "none" => raw'[c] = "none"
               /\ prepared'[c] = "run" /\ c \in queued' => raw'[c] = "none"
    BY <1>3, <1>4 DEF Inv, Tasks, Runs
  <2>3. ASSUME NEW c \in Calls
        PROVE  prepared'[c] = "run" /\ raw'[c] # "none" => body'[c] = "ended" \/ aborted'
    BY <1>3, <1>4 DEF Inv, Tasks, Runs
  <2>4. ASSUME NEW c \in Calls, c \in Batch', c \notin active' \cup queued'
        PROVE  raw'[c] # "none"
    BY <1>4, <2>4 DEF Batch
  <2> QED
    BY <2>1, <2>2, <2>3, <2>4 DEF Tasks
<1>6. ConflictsSerialized'
  <2> SUFFICES ASSUME NEW c \in Batch, NEW d \in Batch, c < d, prepared[c] = "run",
                      body'[d] # "none", Conflict(AccessOf[batch[c]], AccessOf[batch[d]])
               PROVE  body'[c] = "ended"
    BY DEF ConflictsSerialized, Batch
  <2>1. c \in Calls /\ d \in Calls
    BY DEF Inv, Sizes
  <2>2. CASE body[d] # "none"
    <3>1. body[c] = "ended"
      BY <2>2 DEF Inv, ConflictsSerialized
    <3> QED
      BY <1>3, <2>1, <3>1
  <2>3. CASE body[d] = "none"
    <3>1. d \in S /\ prepared[d] = "run" /\ ~aborted
      BY <1>3, <2>1, <2>3 DEF Runs
    <3>2. Conflict(Accesses(d), Accesses(c))
      BY <3>1, ConflictSymmetric DEF Accesses
    <3>3. c \notin left /\ c \notin waiting
      BY <3>1, <3>2 DEF IsBlocked
    <3>4. body[c] = "ended"
      BY <2>1, <3>1, <3>3 DEF Inv, Tasks
    <3> QED
      BY <1>3, <2>1, <3>3, <3>4
  <2> QED
    BY <2>2, <2>3
<1> QED
  BY <1>1, <1>2, <1>5, <1>6 DEF Inv

\* executeBatch(): all tasks are new.
LEMMA ExecuteBatchKeepsInv ==
  ASSUME Inv, ExecuteBatch
  PROVE  Inv'
<1> DEFINE S == {c \in Batch : ~IsBlocked(c, {}, Batch)}
<1>1. prep = Len(batch) + 1 /\ ~asking
  BY DEF ExecuteBatch, Inv, Sizes, Flags, Stages, Batch
<1>2. \A c \in Calls : body[c] = "none" /\ (prepared[c] = "run" => raw[c] = "none")
  BY DEF ExecuteBatch, Inv, Stages, Tasks
<1>3. active' = {} \cup S /\ queued' = Batch \ S /\ StartTasks(S) /\ stopBatch' \in BOOLEAN
  BY DEF ExecuteBatch
<1> QED
  BY <1>1, <1>2, <1>3, StartKeepsInv DEF ExecuteBatch

\* finish(): the queued tasks are started that the settled one was blocking.
LEMMA FinishTaskKeepsInv ==
  ASSUME Inv, NEW c \in Calls, FinishTask(c)
  PROVE  Inv'
<1> DEFINE left == active \ {c}
           S == {d \in queued : ~IsBlocked(d, left, queued)}
<1>1. phase = "running" /\ prep = Len(batch) + 1 /\ ~asking
  BY DEF FinishTask, Inv, Flags, Stages
<1>2. \A d \in Calls : prepared[d] = "run" /\ d \in queued => raw[d] = "none" /\ body[d] = "none"
  BY DEF Inv, Tasks
<1>3. \A d \in Batch : d \notin left /\ d \notin queued => raw[d] # "none"
  BY <1>1 DEF FinishTask, Inv, Sizes, Tasks
<1>4. left \subseteq Batch /\ queued \subseteq Batch /\ stopBatch' \in BOOLEAN
  BY DEF FinishTask, prepVars, Inv, Tasks, Flags
<1>5. /\ active' = left \cup S /\ queued' = queued \ S /\ StartTasks(S)
      /\ UNCHANGED <<step, phase, aborted, prepVars, fin, dedupeVars>>
  BY DEF FinishTask
<1> QED
  BY <1>1, <1>2, <1>3, <1>4, <1>5, StartKeepsInv DEF prepVars

\* A tool ends, or the task gives up on it because of the abort.
LEMMA ToolKeepsInv ==
  ASSUME Inv, NEW c \in Calls, ToolEnds(c) \/ GraceExpires(c)
  PROVE  Inv'
<1>1. /\ body[c] = "running" /\ prepared[c] = "run" /\ c \notin queued /\ phase = "running"
      /\ UNCHANGED <<step, phase, aborted, prepVars, active, queued, fin, dedupeVars>>
  BY DEF ToolEnds, GraceExpires, Inv, Flags, Stages, Tasks
<1>2. /\ body' \in [Calls -> {"none", "running", "ended"}]
      /\ raw' \in [Calls -> Results \cup {"none"}]
  BY DEF ToolEnds, GraceExpires, Inv, Maps, Results
<1>3. Sizes' /\ Flags' /\ Maps'
  BY <1>1, <1>2 DEF prepVars, dedupeVars, Inv, Sizes, Flags, Maps, Batch
<1>4. /\ \A d \in Calls : d # c => body'[d] = body[d] /\ raw'[d] = raw[d]
      /\ body'[c] \in {"running", "ended"} /\ raw'[c] # "none"
      /\ body'[c] = "ended" \/ aborted
  BY DEF ToolEnds, GraceExpires, Inv, Maps
<1>5. Stages' /\ Tasks'
  BY <1>1, <1>4 DEF prepVars, Inv, Stages, Tasks, Batch
<1>6. ConflictsSerialized'
  BY <1>1, <1>4 DEF prepVars, Inv, ConflictsSerialized, Batch, Sizes
<1> QED
  BY <1>3, <1>5, <1>6 DEF Inv

\* Finalization leaves the scheduler alone.
LEMMA FinalizeKeepsInv ==
  ASSUME Inv, NEW c \in Calls, Finalize(c) \/ Yield(c)
  PROVE  Inv'
<1>1. UNCHANGED <<step, phase, aborted, prepVars, schedVars>>
  BY DEF Finalize, Yield
<1>2. c \in Batch => batch[c] \in Keys
  BY DEF Inv, Sizes, Batch
<1>3. Maps'
  BY <1>1, <1>2 DEF Finalize, Yield, ResolveDeferred, prepVars, schedVars, dedupeVars, Inv, Maps
<1>4. Sizes' /\ Flags'
  BY <1>1 DEF prepVars, schedVars, Inv, Sizes, Flags, Batch
<1>5. Stages' /\ Tasks' /\ ConflictsSerialized'
  BY <1>1 DEF prepVars, schedVars, Inv, Stages, Tasks, ConflictsSerialized, Batch
<1> QED
  BY <1>3, <1>4, <1>5 DEF Inv

\* Every step of the executor and of its surroundings keeps the invariant.
LEMMA StepKeepsInv ==
  ASSUME Inv, [Next]_vars
  PROVE  Inv'
<1>1. CASE BeginStep
  BY <1>1, BeginStepKeepsInv
<1>2. CASE Abort
  BY <1>2, AbortKeepsInv
<1>3. CASE Prepare
  BY <1>3, PrepareKeepsInv
<1>4. CASE Adjudicate
  BY <1>4, AdjudicateKeepsInv
<1>5. CASE ExecuteBatch
  BY <1>5, ExecuteBatchKeepsInv
<1>6. CASE EndBatch
  BY <1>6, ResetKeepsInv DEF EndBatch
<1>7. CASE \E c \in Calls : ToolEnds(c) \/ Continue(c)
  BY <1>7, ToolKeepsInv, FinishTaskKeepsInv, FinalizeKeepsInv DEF Continue
<1>8. CASE UNCHANGED vars
  <2>1. UNCHANGED <<step, phase, aborted, prepVars, schedVars, fin, dedupeVars>>
    BY <1>8 DEF vars
  <2>2. Sizes' /\ Flags' /\ Maps'
    BY <2>1 DEF prepVars, schedVars, dedupeVars, Inv, Sizes, Flags, Maps, Batch
  <2>3. Stages' /\ Tasks' /\ ConflictsSerialized'
    BY <2>1 DEF prepVars, schedVars, Inv, Stages, Tasks, ConflictsSerialized, Batch
  <2> QED
    BY <2>2, <2>3 DEF Inv
<1> QED
  BY <1>1, <1>2, <1>3, <1>4, <1>5, <1>6, <1>7, <1>8 DEF Next

\* The executor's invariant holds throughout.
LEMMA AlwaysInv == Spec => []Inv
<1>1. Init => Inv
  BY InitInv
<1>2. Inv /\ [Next]_vars => Inv'
  BY StepKeepsInv
<1> QED
  BY <1>1, <1>2, PTL DEF Spec

-----------------------------------------------------------------------------
(* toolDedupe *)

\* A placeholder is the raw result of a duplicate only, and no call's key is
\* resolved with one.
Placeholders ==
  /\ synthetic \subseteq keyed
  /\ \A c \in Calls : raw[c] = "placeholder" => c \in synthetic
  /\ \A k \in Keys : deferred[k] # "placeholder"

\* A call that runs, or that may still be allowed to, has taken its key unless it
\* was let through outright: the key stays taken for the whole step, and no other
\* call of the step that toolDedupe was asked about has it.
KeysTaken ==
  /\ asking /\ prep \notin outright =>
       /\ deferred[batch[prep]] # "absent"
       /\ \A c \in Batch \ outright : batch[c] = batch[prep] => prepared[c] # "run"
  /\ \A c \in Batch \ outright : prepared[c] = "run" => deferred[batch[c]] # "absent"
  /\ \A c, d \in Batch \ outright :
       c # d /\ batch[c] = batch[d] => prepared[c] # "run" \/ prepared[d] # "run"

DedupeInv == Placeholders /\ KeysTaken

\* checkToolCall() and the preparation around it.
LEMMA PrepareKeepsDedupe ==
  ASSUME Inv, DedupeInv, Prepare
  PROVE  DedupeInv'
<1>1. /\ phase = "preparing" /\ prep \in Batch /\ ~asking /\ prep \in Calls
      /\ batch[prep] \in Keys /\ batch' = batch
  <2>1. Preparing /\ batch' = batch
    BY DEF Prepare, PrepareSkipped, PrepareRejected, PrepareAborted, PrepareSynthetic,
           PrepareDuplicate, PrepareAsks, PrepareOutright, Settle
  <2> QED
    BY <2>1 DEF Preparing, Inv, Sizes, Batch
<1>2. CASE PrepareSkipped \/ PrepareRejected \/ PrepareAborted
           \/ \E stop \in BOOLEAN : PrepareSynthetic(stop)
  <2>1. /\ UNCHANGED <<deferred, keyed, synthetic, outright, asking>>
        /\ \E r \in Results \ {"placeholder"} :
             /\ raw' = [raw EXCEPT ![prep] = r]
             /\ prepared' = [prepared EXCEPT ![prep] = "settled"]
    BY <1>2 DEF PrepareSkipped, PrepareRejected, PrepareAborted, PrepareSynthetic, Settle,
                dedupeVars, Results
  <2>2. Placeholders'
    BY <2>1 DEF Inv, Maps, DedupeInv, Placeholders
  <2>3. KeysTaken'
    BY <1>1, <2>1 DEF Inv, Maps, DedupeInv, KeysTaken, Batch
  <2> QED
    BY <2>2, <2>3 DEF DedupeInv
<1>3. CASE PrepareDuplicate
  <2>1. /\ UNCHANGED <<deferred, outright, asking>> /\ keyed' = keyed \cup {prep}
        /\ synthetic' = synthetic \cup {prep}
        /\ raw' = [raw EXCEPT ![prep] = "placeholder"]
        /\ prepared' = [prepared EXCEPT ![prep] = "settled"]
    BY <1>3 DEF PrepareDuplicate, CheckToolCall, Settle
  <2>2. Placeholders'
    BY <2>1 DEF Inv, Maps, DedupeInv, Placeholders
  <2>3. KeysTaken'
    BY <1>1, <2>1 DEF Inv, Maps, DedupeInv, KeysTaken, Batch
  <2> QED
    BY <2>2, <2>3 DEF DedupeInv
<1>4. CASE PrepareAsks
  <2>1. /\ deferred[batch[prep]] = "absent" /\ keyed' = keyed \cup {prep}
        /\ deferred' = [deferred EXCEPT ![batch[prep]] = "open"]
        /\ UNCHANGED <<synthetic, outright, raw, prepared, prep>>
    BY <1>4 DEF PrepareAsks, CheckToolCall, schedVars
  <2>2. Placeholders'
    BY <2>1 DEF Inv, Maps, DedupeInv, Placeholders
  <2>3. KeysTaken'
    BY <1>1, <2>1 DEF Inv, Sizes, Maps, DedupeInv, KeysTaken, Batch
  <2> QED
    BY <2>2, <2>3 DEF DedupeInv
<1>5. CASE PrepareOutright
  <2>1. /\ UNCHANGED <<deferred, keyed, synthetic, raw, prepared, prep>>
        /\ outright' = outright \cup {prep}
    BY <1>5 DEF PrepareOutright, schedVars
  <2>2. Placeholders'
    BY <2>1 DEF DedupeInv, Placeholders
  <2>3. KeysTaken'
    BY <1>1, <2>1 DEF DedupeInv, KeysTaken, Batch
  <2> QED
    BY <2>2, <2>3 DEF DedupeInv
<1> QED
  BY <1>2, <1>3, <1>4, <1>5 DEF Prepare

\* Nothing of the dedupe state is read before the next step forgets it.
LEMMA ResetKeepsDedupe ==
  ASSUME DedupeInv, ResetBatch, batch' = <<>>, UNCHANGED dedupeVars
  PROVE  DedupeInv'
<1>1. Batch' = {}
  BY EmptyBatch DEF Batch
<1>2. Placeholders'
  BY DEF ResetBatch, dedupeVars, DedupeInv, Placeholders
<1>3. KeysTaken'
  BY <1>1 DEF ResetBatch, KeysTaken
<1> QED
  BY <1>2, <1>3 DEF DedupeInv

\* The call that was asked about is the only one of its key, or it was let through.
LEMMA AdjudicateKeepsDedupe ==
  ASSUME Inv, DedupeInv, Adjudicate
  PROVE  DedupeInv'
<1>1. asking /\ prep \in Batch
  BY DEF Adjudicate, PrepareVetoed, PrepareAllowed, PrepareThrows, Inv, Stages
<1>2. CASE \E stop \in BOOLEAN : PrepareVetoed(stop)
  <2>1. /\ UNCHANGED <<deferred, keyed, synthetic, outright, batch>> /\ asking' = FALSE
        /\ raw' = [raw EXCEPT ![prep] = "refused"]
        /\ prepared' = [prepared EXCEPT ![prep] = "settled"]
    BY <1>2 DEF PrepareVetoed, Settle, dedupeVars
  <2>2. Placeholders'
    BY <2>1 DEF Inv, Maps, DedupeInv, Placeholders
  <2>3. KeysTaken'
    BY <2>1 DEF Inv, Maps, DedupeInv, KeysTaken, Batch
  <2> QED
    BY <2>2, <2>3 DEF DedupeInv
<1>3. CASE \E stop \in BOOLEAN : PrepareAllowed(stop)
  <2>1. /\ UNCHANGED <<deferred, keyed, synthetic, outright, batch, raw>> /\ asking' = FALSE
        /\ prepared' = [prepared EXCEPT ![prep] = "run"]
    BY <1>3 DEF PrepareAllowed, dedupeVars, schedVars
  <2>2. Placeholders'
    BY <2>1 DEF DedupeInv, Placeholders
  <2>3. KeysTaken'
    BY <1>1, <2>1 DEF Inv, Maps, DedupeInv, KeysTaken, Batch
  <2> QED
    BY <2>2, <2>3 DEF DedupeInv
<1>4. CASE PrepareThrows
  BY <1>4, ResetKeepsDedupe DEF PrepareThrows
<1> QED
  BY <1>2, <1>3, <1>4 DEF Adjudicate

\* finalizeResult(): the key of a call is resolved with a result, never freed.
LEMMA FinalizeKeepsDedupe ==
  ASSUME Inv, DedupeInv, NEW c \in Calls, Finalize(c)
  PROVE  DedupeInv'
<1>1. /\ UNCHANGED <<raw, prepared, batch, asking, prep, outright>> /\ keyed' = keyed \cup {c}
      /\ raw[c] # "none"
  BY DEF Finalize, prepVars, schedVars
<1>2. CASE IsDuplicate(c)
  BY <1>1, <1>2 DEF Finalize, DedupeInv, Placeholders, KeysTaken, Batch
<1>3. CASE ~IsDuplicate(c)
  <2>1. deferred' = [deferred EXCEPT ![batch[c]] = raw[c]] /\ UNCHANGED synthetic
    BY <1>3 DEF Finalize, ResolveDeferred
  <2>2. c \notin synthetic
    BY <1>3 DEF IsDuplicate, DedupeInv, Placeholders
  <2>3. raw[c] # "placeholder" /\ raw[c] # "absent"
    BY <1>1, <2>2 DEF DedupeInv, Placeholders, Inv, Maps, Results
  <2>4. Placeholders'
    BY <1>1, <2>1, <2>3 DEF Inv, Maps, DedupeInv, Placeholders
  <2>5. \A k \in Keys : deferred[k] # "absent" => deferred'[k] # "absent"
    BY <2>1, <2>3 DEF Inv, Maps
  <2>6. \A d \in Batch : batch[d] \in Keys
    BY DEF Inv, Sizes, Batch
  <2>7. asking => batch[prep] \in Keys
    BY <2>6 DEF Inv, Stages
  <2>8. KeysTaken'
    BY <1>1, <2>5, <2>6, <2>7 DEF DedupeInv, KeysTaken, Batch
  <2> QED
    BY <2>4, <2>8 DEF DedupeInv
<1> QED
  BY <1>2, <1>3

\* The scheduler makes no placeholder and touches no key.
LEMMA SchedKeepsDedupe ==
  ASSUME Inv, DedupeInv,
         UNCHANGED <<deferred, keyed, synthetic, outright, batch, asking, prep, prepared>>,
         \A c \in Calls : raw'[c] = raw[c] \/ raw'[c] \in {"aborted", "output"}
  PROVE  DedupeInv'
BY DEF DedupeInv, Placeholders, KeysTaken, Batch

\* Every step keeps the dedupe invariant.
LEMMA StepKeepsDedupe ==
  ASSUME Inv, DedupeInv, [Next]_vars
  PROVE  DedupeInv'
<1>1. CASE BeginStep
  <2>1. /\ deferred' = [k \in Keys |-> "absent"] /\ keyed' = {} /\ synthetic' = {}
        /\ ~asking' /\ \A c \in Calls : prepared'[c] = "none" /\ raw'[c] = "none"
    <3>1. ~asking /\ prep = 1
      BY <1>1 DEF BeginStep, Inv, Stages, Sizes
    <3>2. \A c \in Calls : prepared[c] = "none" /\ raw[c] = "none"
      BY <3>1 DEF Inv, Stages, Tasks, Calls
    <3> QED
      BY <1>1, <3>1, <3>2 DEF BeginStep, schedVars
  <2>2. Batch' \subseteq Calls
    BY <1>1, BeginStepKeepsInv DEF Inv, Sizes
  <2> QED
    BY <2>1, <2>2 DEF DedupeInv, Placeholders, KeysTaken
<1>2. CASE Abort
  BY <1>2, SchedKeepsDedupe DEF Abort, prepVars, schedVars, dedupeVars
<1>3. CASE Prepare
  BY <1>3, PrepareKeepsDedupe
<1>4. CASE Adjudicate
  BY <1>4, AdjudicateKeepsDedupe
<1>5. CASE ExecuteBatch
  BY <1>5, SchedKeepsDedupe DEF ExecuteBatch, StartTasks, dedupeVars
<1>6. CASE EndBatch
  BY <1>6, ResetKeepsDedupe DEF EndBatch
<1>7. ASSUME NEW c \in Calls, ToolEnds(c) \/ Continue(c)
      PROVE  DedupeInv'
  <2>1. CASE ToolEnds(c) \/ GraceExpires(c)
    BY <2>1, SchedKeepsDedupe DEF ToolEnds, GraceExpires, prepVars, dedupeVars, Inv, Maps
  <2>2. CASE FinishTask(c)
    BY <2>2, SchedKeepsDedupe DEF FinishTask, StartTasks, prepVars, dedupeVars
  <2>3. CASE Finalize(c)
    BY <2>3, FinalizeKeepsDedupe
  <2>4. CASE Yield(c)
    BY <2>4, SchedKeepsDedupe DEF Yield, prepVars, schedVars, dedupeVars
  <2> QED
    BY <1>7, <2>1, <2>2, <2>3, <2>4 DEF Continue
<1>8. CASE UNCHANGED vars
  BY <1>8, SchedKeepsDedupe DEF vars, prepVars, schedVars, dedupeVars
<1> QED
  BY <1>1, <1>2, <1>3, <1>4, <1>5, <1>6, <1>7, <1>8 DEF Next

-----------------------------------------------------------------------------
\* The state of the executor is well formed.
THEOREM TypeCorrect == Spec => []TypeOK
<1>1. Inv => TypeOK
  BY DEF Inv, TypeOK, Sizes, Flags, Maps
<1> QED
  BY <1>1, AlwaysInv, PTL

\* Conflicting tools of a response run one at a time and in the order the model
\* asked for them, whatever is aborted and whenever the scheduler gives up on a
\* tool (toolScheduler.ts add and finish, runSingleExecution, raceWithAbortGrace).
THEOREM Serialized == Spec => []ConflictsSerialized
<1>1. Inv => ConflictsSerialized
  BY DEF Inv
<1> QED
  BY <1>1, AlwaysInv, PTL

\* Of the identical calls of a step that toolDedupe is asked about only one runs its
\* tool, whichever others the plan guard lets through, and no call is answered with
\* the placeholder (toolDedupeService.ts checkToolCall and finalizeResult).
THEOREM SharedRun == Spec => []DuplicatesShareOneRun
<1>1. Init => DedupeInv
  <2>1. Init => Batch = {} /\ ~asking
    BY EmptyBatch DEF Init, Batch
  <2> QED
    BY <2>1 DEF Init, DedupeInv, Placeholders, KeysTaken
<1>2. Inv /\ DedupeInv /\ [Next]_vars => DedupeInv'
  BY StepKeepsDedupe
<1>3. Inv /\ DedupeInv => DuplicatesShareOneRun
  <2> SUFFICES ASSUME Inv, DedupeInv
               PROVE  DuplicatesShareOneRun
    OBVIOUS
  <2>1. \A c \in Batch : c \in Calls /\ batch[c] \in Keys
    BY DEF Inv, Sizes, Batch
  <2>2. \A c, d \in Batch \ outright :
          c # d /\ batch[c] = batch[d] => body[c] = "none" \/ body[d] = "none"
    BY <2>1 DEF Inv, Tasks, DedupeInv, KeysTaken
  <2>3. \A c \in Batch : Answer(c) # "placeholder"
    BY <2>1 DEF Answer, DedupeInv, Placeholders
  <2> QED
    BY <2>2, <2>3 DEF DuplicatesShareOneRun
<1> QED
  BY <1>1, <1>2, <1>3, AlwaysInv, PTL DEF Spec
=============================================================================
