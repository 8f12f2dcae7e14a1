------------------------------ MODULE AppendLog ------------------------------
(***************************************************************************)
(* The append-log store of agent-core-v2 (persistence/backends/node-fs/    *)
(* appendLogStore.ts) for one (scope, key), over the file storage service  *)
(* (fileStorageService.ts).                                                *)
(*                                                                         *)
(* Every action is one synchronous segment of the JavaScript code: what    *)
(* runs between two awaits, or from a public call to its first await.  A   *)
(* LogState object of the code is a generation g \in Gens; its fields are  *)
(* the functions below at g.  The flush promise of a generation is owned   *)
(* by one operation at a time, whose program counter is pc[g]; rewrites    *)
(* called meanwhile wait behind it in rewrites[g].                         *)
(***************************************************************************)
EXTENDS Naturals, Sequences, Filtering

CONSTANTS
  MaxRecords,   \* bound on append() calls
  MaxGens,      \* bound on LogState objects of one process lifetime
  MaxRefs,      \* bound on simultaneously acquired handles
  MaxRewrites,  \* bound on rewrite() calls of one process lifetime
  MaxFailures,  \* bound on storage operations that reject
  MaxCrashes,   \* bound on process crashes
  TornWrites,   \* may an interrupted append leave a partial last line?
  LateRewrite,  \* may rewrite() be called before the generation is ready?
  Corrupt,      \* a terminated line that JSON.parse rejects
  Torn,         \* an unterminated last line that JSON.parse rejects
  NoTail        \* the file ends with a newline (or is empty)

Gens == 1..MaxGens
Records == 1..MaxRecords
Pcs == {"idle", "ready", "append", "wait", "write", "finish"}

ASSUME BoundsAssumption ==
  /\ MaxRecords \in Nat /\ MaxGens \in Nat /\ MaxRefs \in Nat
  /\ MaxRewrites \in Nat /\ MaxFailures \in Nat /\ MaxCrashes \in Nat
  /\ TornWrites \in BOOLEAN /\ LateRewrite \in BOOLEAN
ASSUME MarkerAssumption ==
  /\ Corrupt \notin Nat /\ Torn \notin Nat /\ NoTail \notin Nat
  /\ Torn # NoTail

VARIABLES
  file,       \* the log file: [lines, tail]
  cur,        \* the generation the logs map holds, 0 for none
  made,       \* number of generations created since the process started
  pending,    \* g -> records accepted and not known to be durable
  scheduled,  \* g -> flushScheduled: a flush microtask is queued
  failed,     \* g -> storageFailure # undefined
  epoch,      \* g -> cutoverEpoch
  refs,       \* g -> refCount
  retired,    \* g -> retired
  settled,    \* g -> the retirement promise has resolved
  prev,       \* g -> the generation whose retirement is g's ready promise
  pc,         \* g -> where the owner of the flush promise stands
  batch,      \* g -> records the owner is writing
  seen,       \* g -> cutoverEpoch read when the owner's drain began
  err,        \* g -> the owner's operation has failed
  mark,       \* g -> records a flush() caller awaits through the owner
  rewrites,   \* g -> rewrites waiting behind the owner: <<[recs, mark]>>
  accepted,   \* number of append() calls; record r is the r-th
  acked,      \* history: records a resolved flush() has reported durable
  lost,       \* history: records that only memory held when it crashed
  failures,   \* storage operations that have rejected
  crashes,    \* crashes so far
  cutovers    \* rewrite() calls since the process started

genVars == <<pending, scheduled, failed, epoch, refs, retired, settled, prev>>
opVars == <<pc, batch, seen, err, mark, rewrites>>
faults == <<failures, crashes, cutovers>>
histVars == <<accepted, acked, lost, faults>>
vars == <<file, cur, made, genVars, opVars, histVars>>

-----------------------------------------------------------------------------
(* The file.  A record appended after an unterminated tail joins that line.  *)

FileAppend(f, recs) ==
  [lines |-> f.lines \o (IF f.tail = NoTail THEN recs ELSE <<Corrupt>> \o Tail(recs)),
   tail  |-> NoTail]

FilePrefix(f, recs, k) == IF k = 0 THEN f ELSE FileAppend(f, SubSeq(recs, 1, k))

\* f with part of the line of r written: it may lack no more than its newline.
TornLine(f, r) ==
  {[f EXCEPT !.tail = t] : t \in IF f.tail = NoTail THEN {Torn, r} ELSE {Torn}}

\* What an append of recs that did not return success may have left behind: a
\* prefix of the lines and, with TornWrites, part of the next one.
Interrupted(f, recs) ==
  {FilePrefix(f, recs, k) : k \in 0..Len(recs)} \cup
  (IF TornWrites
     THEN UNION {TornLine(FilePrefix(f, recs, k), recs[k + 1]) : k \in 0..(Len(recs) - 1)}
     ELSE {})

Replaced(recs) == [lines |-> recs, tail |-> NoTail]

\* Records read() finds: every terminated line, and the tail when it parses.
RecordsOf(f) == (Elems(f.lines) \ {Corrupt}) \cup ({f.tail} \ {Torn, NoTail})
InFile == RecordsOf(file)

\* read() returns all of them, or throws on a corrupted line.
Readable == Corrupt \notin Elems(file.lines)

Decoded == Without(file.lines, {Corrupt})
             \o (IF file.tail \in {Torn, NoTail} THEN <<>> ELSE <<file.tail>>)

-----------------------------------------------------------------------------
Empty(x) == [g \in Gens |-> x]

Init ==
  /\ cur = 0 /\ made = 0
  /\ pending = Empty(<<>>) /\ scheduled = Empty(FALSE) /\ failed = Empty(FALSE)
  /\ epoch = Empty(0) /\ refs = Empty(0)
  /\ retired = Empty(FALSE) /\ settled = Empty(FALSE) /\ prev = Empty(0)
  /\ pc = Empty("idle") /\ batch = Empty(<<>>) /\ seen = Empty(0)
  /\ err = Empty(FALSE) /\ mark = Empty({}) /\ rewrites = Empty(<<>>)
  /\ file = [lines |-> <<>>, tail |-> NoTail]
  /\ accepted = 0 /\ acked = {} /\ lost = {}
  /\ failures = 0 /\ crashes = 0 /\ cutovers = 0

\* state(): the map's entry, replaced when there is none or it is retired.  The
\* replacement becomes ready when the retirement of the one it replaces resolves.
NeedsNew == IF cur = 0 THEN TRUE ELSE retired[cur]
Target == IF NeedsNew THEN made + 1 ELSE cur
StateUnchained ==   \* mutant: a replacement that is ready at once
  /\ Target \in Gens /\ cur' = Target
  /\ made' = IF NeedsNew THEN made + 1 ELSE made
  /\ UNCHANGED prev
State ==
  /\ Target \in Gens
  /\ cur' = Target
  /\ made' = IF NeedsNew THEN made + 1 ELSE made
  /\ prev' = IF NeedsNew THEN [prev EXCEPT ![Target] = cur] ELSE prev

ReadyAtOnce(g) == TRUE   \* mutant: a replacement that does not wait
Ready(g) == IF prev[g] = 0 THEN TRUE ELSE settled[prev[g]]

\* A rewrite was called since the owner's drain began.
CutOverIgnored(g) == FALSE   \* mutant
CutOver(g) == epoch[g] # seen[g]

\* A storage operation of g has rejected: nobody can tell what it wrote.
StickyForgotten(g) == UNCHANGED failed   \* mutant
Sticky(g) == failed' = [failed EXCEPT ![g] = TRUE]

\* The handles of g not disposed yet: toDisposable() runs its function once.
HeldOrDisposed(g) == TRUE   \* mutant
Held(g) == refs[g] > 0

\* flushState(): join the owner, reject after a storage failure, or own a drain.
\* A caller that gets a promise awaits the records of `awaited' through it.
FlushState(g, awaited) ==
  LET joined == Len(rewrites[g]) IN
  \/ /\ pc[g] # "idle"
     /\ IF joined = 0
          THEN /\ mark' = [mark EXCEPT ![g] = @ \cup awaited]
               /\ UNCHANGED rewrites
          ELSE /\ rewrites' = [rewrites EXCEPT ![g][joined].mark = @ \cup awaited]
               /\ UNCHANGED mark
     /\ UNCHANGED <<pc, seen>>
  \/ /\ pc[g] = "idle" /\ failed[g]
     /\ UNCHANGED <<pc, seen, mark, rewrites>>
  \/ /\ pc[g] = "idle" /\ ~failed[g]
     /\ pc' = [pc EXCEPT ![g] = "ready"]
     /\ seen' = [seen EXCEPT ![g] = epoch[g]]
     /\ mark' = [mark EXCEPT ![g] = awaited]
     /\ UNCHANGED rewrites

-----------------------------------------------------------------------------
(* Public calls.                                                             *)

\* append(): buffer the record and schedule a flush microtask, unless one is
\* queued or some operation owns the flush.
AppendRecord ==
  /\ accepted < MaxRecords
  /\ State
  /\ accepted' = accepted + 1
  /\ pending' = [pending EXCEPT ![Target] = Append(@, accepted + 1)]
  /\ scheduled' = [scheduled EXCEPT ![Target] = @ \/ pc[Target] = "idle"]
  /\ UNCHANGED <<file, failed, epoch, refs, retired, settled, opVars, acked, lost, faults>>

\* The microtask queued by scheduleFlush.
RunScheduledFlush(g) ==
  /\ scheduled[g]
  /\ scheduled' = [scheduled EXCEPT ![g] = FALSE]
  /\ FlushState(g, {})
  /\ UNCHANGED <<file, cur, made, pending, failed, epoch, refs, retired, settled,
                 prev, batch, err, histVars>>

\* flush() and close(): await every buffer of the map.
Flush ==
  /\ cur # 0
  /\ FlushState(cur, Elems(pending[cur]))
  /\ UNCHANGED <<file, cur, made, genVars, batch, err, histVars>>

\* read(): like flush, on a buffer it creates if there is none; then streams
\* the file (InFile and Readable say what the stream yields).
Read ==
  /\ State
  /\ FlushState(Target, Elems(pending[Target]))
  /\ UNCHANGED <<file, pending, scheduled, failed, epoch, refs, retired, settled,
                 batch, err, histVars>>

\* What a caller of rewrite() passes for g: as the contract of the interface
\* asks, the log's records without the outstanding ones.
Compacted(g) ==
  {Without(Decoded, Elems(pending[g]))} \cap Seq(Records)

\* rewrite(): replace the durable history by recs.
Rewrite(recs) ==
  LET g == Target IN
  /\ cutovers < MaxRewrites
  /\ LateRewrite \/ (IF NeedsNew THEN cur = 0 ELSE Ready(cur))
  /\ State
  /\ epoch' = [epoch EXCEPT ![g] = @ + 1]
  /\ IF pc[g] = "idle"
       THEN /\ pc' = [pc EXCEPT ![g] = "wait"]
            /\ batch' = [batch EXCEPT ![g] = recs]
            /\ mark' = [mark EXCEPT ![g] = {}]
            /\ UNCHANGED rewrites
       ELSE /\ rewrites' = [rewrites EXCEPT ![g] = Append(@, [recs |-> recs, mark |-> {}])]
            /\ UNCHANGED <<pc, batch, mark>>
  /\ cutovers' = cutovers + 1
  /\ UNCHANGED <<file, pending, scheduled, failed, refs, retired, settled,
                 seen, err, accepted, acked, lost, failures, crashes>>

\* acquire().
Acquire ==
  /\ State
  /\ refs[Target] < MaxRefs
  /\ refs' = [refs EXCEPT ![Target] = @ + 1]
  /\ UNCHANGED <<file, pending, scheduled, failed, epoch, retired, settled, opVars, histVars>>

\* release(): the last handle retires the generation and starts its last flush.
Release(g) ==
  /\ Held(g)
  /\ refs' = [refs EXCEPT ![g] = @ - 1]
  /\ IF refs[g] > 1
       THEN UNCHANGED <<retired, pc, seen, mark, rewrites>>
       ELSE /\ retired' = [retired EXCEPT ![g] = TRUE]
            /\ FlushState(g, {})
  /\ UNCHANGED <<file, cur, made, pending, scheduled, failed, epoch, settled, prev,
                 batch, err, histVars>>

-----------------------------------------------------------------------------
(* Continuations of the asynchronous operations.                             *)

\* settleRetiredState(), after its flush settled either way.
Settle(g) ==
  /\ retired[g] /\ ~settled[g] /\ pc[g] = "idle"
  /\ settled' = [settled EXCEPT ![g] = TRUE]
  /\ cur' = IF cur = g THEN 0 ELSE cur
  /\ UNCHANGED <<file, made, pending, scheduled, failed, epoch, refs, retired, prev,
                 opVars, histVars>>

\* drain() once ready has resolved: give way to a rewrite called meanwhile, or
\* hand everything pending to storage.append.
DrainBegin(g) ==
  /\ pc[g] = "ready" /\ Ready(g)
  /\ IF CutOver(g) \/ pending[g] = <<>>
       THEN /\ pc' = [pc EXCEPT ![g] = "finish"]
            /\ UNCHANGED batch
       ELSE /\ pc' = [pc EXCEPT ![g] = "append"]
            /\ batch' = [batch EXCEPT ![g] = pending[g]]
  /\ UNCHANGED <<file, cur, made, genVars, seen, err, mark, rewrites, histVars>>

Rest(g) == SubSeq(pending[g], Len(batch[g]) + 1, Len(pending[g]))

\* storage.append resolves: drop the batch from the buffer, unless a rewrite was
\* called while it was in flight, and go on with what arrived meanwhile.
DrainAppended(g) ==
  /\ pc[g] = "append"
  /\ file' = FileAppend(file, batch[g])
  /\ IF CutOver(g)
       THEN /\ pc' = [pc EXCEPT ![g] = "finish"]
            /\ UNCHANGED <<pending, batch>>
       ELSE /\ pending' = [pending EXCEPT ![g] = Rest(g)]
            /\ IF Rest(g) = <<>>
                 THEN /\ pc' = [pc EXCEPT ![g] = "finish"]
                      /\ UNCHANGED batch
                 ELSE /\ batch' = [batch EXCEPT ![g] = Rest(g)]
                      /\ UNCHANGED pc
  /\ UNCHANGED <<cur, made, scheduled, failed, epoch, refs, retired, settled, prev,
                 seen, err, mark, rewrites, histVars>>

\* storage.append rejects, whatever it wrote.
DrainFailed(g) ==
  /\ pc[g] = "append"
  /\ failures < MaxFailures
  /\ failures' = failures + 1
  /\ file' \in Interrupted(file, batch[g])
  /\ Sticky(g)
  /\ err' = [err EXCEPT ![g] = TRUE]
  /\ pc' = [pc EXCEPT ![g] = "finish"]
  /\ UNCHANGED <<cur, made, pending, scheduled, epoch, refs, retired, settled, prev,
                 batch, seen, mark, rewrites, accepted, acked, lost, crashes, cutovers>>

\* The rewrite's turn has come: the prior owner settled, or ready resolved.
RewriteBegin(g) ==
  /\ pc[g] = "wait" /\ Ready(g)
  /\ pc' = [pc EXCEPT ![g] = "write"]
  /\ UNCHANGED <<file, cur, made, genVars, batch, seen, err, mark, rewrites, histVars>>

\* storage.write resolves: the file was replaced, a past failure is forgiven.
RewriteWritten(g) ==
  /\ pc[g] = "write"
  /\ file' = Replaced(batch[g])
  /\ failed' = [failed EXCEPT ![g] = FALSE]
  /\ pc' = [pc EXCEPT ![g] = "finish"]
  /\ UNCHANGED <<cur, made, pending, scheduled, epoch, refs, retired, settled, prev,
                 batch, seen, err, mark, rewrites, histVars>>

\* storage.write rejects, before or after its rename.
RewriteFailed(g) ==
  /\ pc[g] = "write"
  /\ failures < MaxFailures
  /\ failures' = failures + 1
  /\ file' \in {file, Replaced(batch[g])}
  /\ Sticky(g)
  /\ err' = [err EXCEPT ![g] = TRUE]
  /\ pc' = [pc EXCEPT ![g] = "finish"]
  /\ UNCHANGED <<cur, made, pending, scheduled, epoch, refs, retired, settled, prev,
                 batch, seen, mark, rewrites, accepted, acked, lost, crashes, cutovers>>

\* An owner that nobody took over from, and that did not fail, goes on while
\* records are pending.
GoesOnNever(g) == FALSE   \* mutant
GoesOn(g) == rewrites[g] = <<>> /\ ~err[g] /\ pending[g] # <<>>

\* What its callers learn when it settles: that their records are durable, or
\* the error.
ReportedAlways(g) == acked \cup mark[g]   \* mutant: the error is swallowed
Reported(g) == IF err[g] THEN acked ELSE acked \cup mark[g]

\* finishOwnedFlush(): drain again, or settle, which lets the next rewrite in.
FinishOwned(g) ==
  /\ pc[g] = "finish"
  /\ \/ /\ GoesOn(g)
        /\ pc' = [pc EXCEPT ![g] = "ready"]
        /\ seen' = [seen EXCEPT ![g] = epoch[g]]
        /\ UNCHANGED <<batch, err, mark, rewrites, acked>>
     \/ /\ ~GoesOn(g)
        /\ acked' = Reported(g)
        /\ err' = [err EXCEPT ![g] = FALSE]
        /\ UNCHANGED seen
        /\ IF rewrites[g] = <<>>
             THEN /\ pc' = [pc EXCEPT ![g] = "idle"]
                  /\ batch' = [batch EXCEPT ![g] = <<>>]
                  /\ mark' = [mark EXCEPT ![g] = {}]
                  /\ UNCHANGED rewrites
             ELSE /\ pc' = [pc EXCEPT ![g] = "wait"]
                  /\ batch' = [batch EXCEPT ![g] = Head(rewrites[g]).recs]
                  /\ mark' = [mark EXCEPT ![g] = Head(rewrites[g]).mark]
                  /\ rewrites' = [rewrites EXCEPT ![g] = Tail(@)]
  /\ UNCHANGED <<file, cur, made, genVars, accepted, lost, faults>>

\* The process dies and starts again; a storage operation in flight may have
\* taken effect in whole or in part.
Crash ==
  /\ crashes < MaxCrashes
  /\ crashes' = crashes + 1 /\ cutovers' = 0
  /\ \/ UNCHANGED file
     \/ \E g \in Gens : pc[g] = "append" /\ file' \in Interrupted(file, batch[g])
     \/ \E g \in Gens : pc[g] = "write" /\ file' = Replaced(batch[g])
  /\ lost' = lost \cup UNION {Elems(pending[g]) : g \in Gens}
  /\ cur' = 0 /\ made' = 0
  /\ pending' = Empty(<<>>) /\ scheduled' = Empty(FALSE) /\ failed' = Empty(FALSE)
  /\ epoch' = Empty(0) /\ refs' = Empty(0)
  /\ retired' = Empty(FALSE) /\ settled' = Empty(FALSE) /\ prev' = Empty(0)
  /\ pc' = Empty("idle") /\ batch' = Empty(<<>>) /\ seen' = Empty(0)
  /\ err' = Empty(FALSE) /\ mark' = Empty({}) /\ rewrites' = Empty(<<>>)
  /\ UNCHANGED <<accepted, acked, failures>>

Continue(g) ==
  \/ RunScheduledFlush(g) \/ Settle(g)
  \/ DrainBegin(g) \/ DrainAppended(g) \/ DrainFailed(g)
  \/ RewriteBegin(g) \/ RewriteWritten(g) \/ RewriteFailed(g)
  \/ FinishOwned(g)

Next ==
  \/ AppendRecord \/ Flush \/ Read \/ Acquire
  \/ Target \in Gens /\ \E recs \in Compacted(Target) : Rewrite(recs)
  \/ \E g \in Gens : Release(g)
  \/ \E g \in Gens : Continue(g)
  \/ Crash

Spec == Init /\ [][Next]_vars

\* Microtasks run and storage operations settle: the event loop and the
\* operating system guarantee it.  Nobody has to call the store.
FairSpec == Spec /\ \A g \in Gens : WF_vars(Continue(g))

-----------------------------------------------------------------------------
(* Properties.                                                               *)

FileState == [lines : Seq(Records \cup {Corrupt}), tail : Records \cup {Torn, NoTail}]

ControlTypes ==
  /\ cur \in 0..MaxGens /\ made \in 0..MaxGens
  /\ scheduled \in [Gens -> BOOLEAN] /\ failed \in [Gens -> BOOLEAN]
  /\ epoch \in [Gens -> Nat] /\ refs \in [Gens -> 0..MaxRefs]
  /\ retired \in [Gens -> BOOLEAN] /\ settled \in [Gens -> BOOLEAN]
  /\ prev \in [Gens -> 0..MaxGens]
  /\ pc \in [Gens -> Pcs] /\ seen \in [Gens -> Nat] /\ err \in [Gens -> BOOLEAN]
  /\ accepted \in 0..MaxRecords
  /\ failures \in 0..MaxFailures /\ crashes \in 0..MaxCrashes
  /\ cutovers \in 0..MaxRewrites

QueuedRewrite == [recs : Seq(Records), mark : SUBSET Records]

DataTypes ==
  /\ file \in FileState
  /\ pending \in [Gens -> Seq(Records)] /\ batch \in [Gens -> Seq(Records)]
  /\ mark \in [Gens -> SUBSET Records]
  /\ rewrites \in [Gens -> Seq(QueuedRewrite)]
  /\ acked \subseteq Records /\ lost \subseteq Records

\* The type invariant; reference counts stay within the handles given out.
TypeOK == ControlTypes /\ DataTypes

InStorage(g) == pc[g] \in {"append", "write"}

\* Generations retire in the order they were made, each settled before the next
\* one reaches storage.
Chain ==
  /\ cur \in {0, made}
  /\ cur = 0 => \A g \in 1..made : settled[g]
  /\ \A g \in Gens : g < made => retired[g]
  /\ \A g \in Gens : g > made => ~retired[g] /\ refs[g] = 0
  /\ \A g \in Gens : prev[g] # 0 => g <= made /\ prev[g] + 1 = g
  /\ \A g \in Gens : g <= made /\ Ready(g) => \A h \in 1..(g - 1) : settled[h]

\* A generation that has not been made yet has no operation; the ones that have
\* passed `ready', or failed, or settled, were ready.
GateAt(g) ==
  /\ g > made => pc[g] = "idle" /\ ~failed[g] /\ ~scheduled[g]
  /\ pc[g] \in {"append", "write", "finish"} => Ready(g)
  /\ failed[g] \/ settled[g] => Ready(g)
  /\ retired[g] /\ pc[g] = "idle" => Ready(g) /\ (pending[g] = <<>> \/ failed[g])
  /\ err[g] => failed[g] /\ pc[g] = "finish"
  /\ pc[g] = "append" => batch[g] # <<>>
Gate == \A g \in Gens : GateAt(g)

\* A settled generation has nothing left to write.
Spent ==
  \A g \in Gens : settled[g] =>
    /\ retired[g] /\ rewrites[g] = <<>>
    /\ pending[g] = <<>> \/ failed[g]
    /\ pc[g] \in {"idle", "ready", "finish"}
    /\ failed[g] => pc[g] = "idle"

\* Nobody waits behind an owner that is gone, no record without a flush to come.
Served ==
  \A g \in Gens : pc[g] = "idle" =>
    rewrites[g] = <<>> /\ (scheduled[g] \/ pending[g] = <<>> \/ failed[g])

\* A replacement buffer waits for the one it replaces to settle, and a settled
\* buffer never writes again: state(), drain(), settleRetiredState().
HandoffOrder == Chain /\ Gate /\ Spent /\ Served

\* At most one storage operation is in flight for the key, also while a retired
\* buffer hands over to its replacement: per-key storage ordering.
OneStorageOperation ==
  \A g, h \in Gens : InStorage(g) /\ InStorage(h) => g = h

\* The file never holds a record twice nor out of append order, whatever
\* failed, was rewritten, handed over or crashed on the way: an ambiguous
\* failure is sticky, so that no later flush repeats data already written.
OrderedOnce ==
  \A i, j \in DOMAIN Decoded : i < j => Decoded[i] < Decoded[j]

\* A record append() accepted is in the file or still buffered, also across
\* rewrites and handovers.  Only a crash takes what was still buffered.
NothingDropped ==
  \A r \in 1..accepted :
    \/ r \in InFile
    \/ \E g \in Gens : r \in Elems(pending[g])
    \/ r \in lost

\* When a flush() or read() resolves, the records that were in the buffer at its
\* call are in the file, whichever failures, hand-overs and later appends it shared
\* its promise with; a rewrite that waits behind it is the exception.
FlushReportsDurable ==
  [][(\A g \in Gens : rewrites[g] = <<>>) => (acked' \ acked) \subseteq InFile]_vars

\* The same without the exception, and for good: a rewrite keeps the shared flush
\* pending until the drain after it is durable.
FlushedIsDurable == acked \subseteq InFile

\* The log stays readable: a torn last line is dropped, and no step turns it
\* into a corrupted line, on which read() throws.
LogReadable == Readable

\* Every accepted record reaches the file, unless its buffer failed or the
\* process crashed: no append is left without a flush that will take it.
EventuallyWritten ==
  \A r \in Records :
    (accepted >= r) ~> \/ r \in InFile \/ r \in lost
                       \/ \E g \in Gens : failed[g] /\ r \in Elems(pending[g])
=============================================================================
