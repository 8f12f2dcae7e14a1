------------------------------- MODULE MiniDb -------------------------------
(***************************************************************************)
(* The write path of minidb: the write-ahead log (wal.ts), the in-memory   *)
(* store whose values may live on disk (store.ts, value-reader.ts), online *)
(* compaction (compaction.ts, snapshot.ts) and recovery (recovery.ts), as  *)
(* set(), del() and batch() of index.ts drive them.                        *)
(*                                                                         *)
(* A write is a function from keys to "set" or "del": set() and del() are  *)
(* batches of one operation.  The i-th commit writes the value i.  A file  *)
(* is a sequence of frames of length one, so that an offset is a frame     *)
(* number.  Files are numbered by the compaction that wrote them: snapAt   *)
(* and walAt say which of them db.snapshot and db.wal name, reader which   *)
(* of them the value reader has open.                                      *)
(***************************************************************************)
EXTENDS Naturals, FiniteSets, Sequences, Filtering

CONSTANTS
  Keys, Writers,
  Batches,          \* may a write touch several keys?
  MaxCommits,       \* bound on commits
  MaxCompactions,   \* bound on compactions, failed ones included
  MaxPasses,        \* bound on pre-copy passes of one compaction
  MaxFaults,        \* bound on rejected writev calls, compactions that throw, crashes
  DiskFailures,     \* may writev reject when values live on disk?
  Overlapped,       \* may writev reject while later frames are queued?
  EarlyAppend,      \* may a late writer reach the new log before it is open?
  CompactUnopened,  \* may compact() be called while the log could not be opened?
  None              \* no record, no location

ASSUME BoundAssumption ==
  /\ MaxCommits \in Nat /\ MaxCompactions \in Nat /\ MaxPasses \in Nat
  /\ MaxFaults \in Nat
  /\ Batches \in BOOLEAN /\ DiskFailures \in BOOLEAN
  /\ Overlapped \in BOOLEAN /\ EarlyAppend \in BOOLEAN /\ CompactUnopened \in BOOLEAN

Locations == [file : {"snapshot", "wal"}, off : Nat]
Records == [val : Nat, loc : Locations \cup {None}, by : Nat]
ASSUME NoneAssumption == None \notin Locations /\ None \notin Records

VARIABLES
  disk,       \* valueMode = 'disk'
  store,      \* key -> None or [val, loc, by]; by stands for the record's seq
  wal,        \* db.wal: the current WAL object
  snapFile, walFile, snapAt, walAt, reader,   \* files, see above
  cpc,        \* next step of the compaction, "idle" for none
  cmp,        \* its locals: [n, base, copied, appended, passes, todo, locs, rotated]
  lock,       \* _rotateLock # null
  wpc,        \* writer -> next step of its call
  call,       \* writer -> [ops, id, off, prev] of its call
  issued,     \* history: the operations of every commit, in order
  acked,      \* history: key -> last acknowledged commit that touched it
  compactions,  \* compactions so far
  faults,     \* faults so far
  rejected,   \* history: a rollback may have left what no file holds: a writev has
              \* rejected, or late writers of one key were refused together
  unopened    \* history: the log a failed rotation needed could not be opened

fileVars == <<snapFile, walFile, snapAt, walAt, reader>>
boundVars == <<compactions, faults, rejected, unopened>>
vars == <<disk, store, wal, fileVars, cpc, cmp, lock, wpc, call, issued, acked, boundVars>>

Numbers == 0..MaxCompactions
Ops == {f \in UNION {[D -> {"set", "del"}] : D \in SUBSET Keys \ {{}}} :
          Batches \/ \E k \in Keys : DOMAIN f = {k}}

-----------------------------------------------------------------------------
(* Frames and replay *)

FrameOf(ops, i) == [k \in DOMAIN ops |-> IF ops[k] = "set" THEN i ELSE 0]
Torn == [k \in {} |-> 0]   \* part of a frame: recovery skips it

\* Number of the last frame of file that touches k, 0 for none.
LastFrame(file, k) ==
  LET at == {i \in DOMAIN file : k \in DOMAIN file[i]}
  IN IF at = {} THEN 0 ELSE CHOOSE i \in at : \A j \in at : j <= i

\* recover(): the snapshot, then every frame of the log; the last one wins.
Recovered(snap, log, k) ==
  LET w == LastFrame(log, k)
      s == LastFrame(snap, k)
  IN IF w # 0 THEN [file |-> "wal", off |-> w - 1, val |-> log[w][k]]
     ELSE IF s # 0 THEN [file |-> "snapshot", off |-> s - 1, val |-> snap[s][k]]
     ELSE [file |-> "wal", off |-> 0, val |-> 0]

\* A torn tail is truncated so that the next writer appends cleanly.
Truncated(log) ==
  IF log # <<>> /\ log[Len(log)] = Torn THEN SubSeq(log, 1, Len(log) - 1) ELSE log

RecoveredRecord(snap, log, k) ==
  LET r == Recovered(snap, log, k)
  IN IF r.val = 0 THEN None
     ELSE [val |-> r.val, by |-> 0,
           loc |-> IF disk THEN [file |-> r.file, off |-> r.off] ELSE None]

\* What the value reader finds at a location.
FrameAt(loc) ==
  LET f == IF loc.file = "wal" THEN walFile[reader.wal] ELSE snapFile[reader.snap]
  IN IF loc.off + 1 \in DOMAIN f THEN f[loc.off + 1] ELSE Torn

-----------------------------------------------------------------------------
NewWal(open, size) ==
  [open |-> open, closed |-> FALSE, sealed |-> FALSE, size |-> size, next |-> size,
   queue |-> <<>>, batch |-> <<>>]
NoCompaction ==
  [n |-> 0, base |-> 0, copied |-> 0, appended |-> FALSE, passes |-> 0, todo |-> {},
   locs |-> [k \in Keys |-> None], rotated |-> FALSE]
NoCall == [ops |-> Torn, id |-> 0, off |-> 0, prev |-> Torn]

Init ==
  /\ disk \in BOOLEAN
  /\ store = [k \in Keys |-> None]
  /\ wal = NewWal(TRUE, 0)
  /\ snapFile = [n \in Numbers |-> <<>>] /\ walFile = [n \in Numbers |-> <<>>]
  /\ snapAt = 0 /\ walAt = 0 /\ reader = [snap |-> 0, wal |-> 0]
  /\ cpc = "idle" /\ cmp = NoCompaction /\ lock = FALSE
  /\ wpc = [w \in Writers |-> "idle"] /\ call = [w \in Writers |-> NoCall]
  /\ issued = <<>> /\ acked = [k \in Keys |-> 0]
  /\ compactions = 0 /\ faults = 0 /\ rejected = FALSE /\ unopened = FALSE

\* wal.flush() returns when nothing is queued or being written.
Drained == wal.queue = <<>> /\ wal.batch = <<>>

\* The snapshot iterates over the live map: a key removed and set again
\* meanwhile is a new entry, which the iteration still reaches.
StoreBecomes(s) ==
  /\ store' = s
  /\ cmp' = IF cpc = "snapshot"
              THEN [cmp EXCEPT !.todo = @ \cup {k \in Keys : store[k] # None /\ s[k] = None}]
              ELSE cmp

-----------------------------------------------------------------------------
(* Writers *)

\* batch() up to its gate: a write called during the rotation parks.
Call(w) ==
  /\ wpc[w] = "idle"
  /\ Len(issued) + Cardinality({v \in Writers : wpc[v] \notin {"idle", "queued"}}) < MaxCommits
  /\ wpc' = [wpc EXCEPT ![w] = IF lock THEN "parked" ELSE "ready"]
  /\ UNCHANGED <<disk, store, wal, fileVars, cpc, cmp, lock, call, issued, acked, boundVars>>

\* The operations of a call are chosen when it first tries to commit.
Chosen(w) == IF wpc[w] = "again" THEN {call[w].ops} ELSE Ops

Applied(ops, i) ==
  [k \in Keys |-> IF k \notin DOMAIN ops THEN store[k]
                  ELSE IF ops[k] = "set" THEN [val |-> i, loc |-> None, by |-> i]
                  ELSE None]

\* restoreKey() of a key of a write whose frame was rejected: skipped when the key
\* has changed since the write applied its operation.
Matches(c, k, record) ==
  /\ k \in DOMAIN c.ops
  /\ IF record = None THEN c.ops[k] = "del" ELSE c.ops[k] = "set" /\ record.by = c.id
Before(c, k) == IF c.prev[k] = None THEN None ELSE [c.prev[k] EXCEPT !.by = 0]

\* What writers restore[k] of ws have made of key k, the last of them last.
Restored(ws, k, restore) ==
  IF restore = {} THEN store[k]
  ELSE LET j == CHOOSE i \in restore : \A h \in restore : h <= i IN Before(call[ws[j]], k)

\* The writers of ws that restore k: each looks at what those before it have left.
Restoring(ws, k, restore) ==
  \A j \in DOMAIN ws :
    j \in restore <=> Matches(call[ws[j]], k, Restored(ws, k, {i \in restore : i < j}))

\* Applied and rolled back with no other write of these keys in between: the
\* records have new seqs.
Touched(ops) ==
  [k \in Keys |-> IF k \in DOMAIN ops /\ store[k] # None
                    THEN [store[k] EXCEPT !.by = 0] ELSE store[k]]

\* The commit body: append and apply in one synchronous segment.
Commit(w, ops) ==
  LET i == Len(issued) + 1
  IN /\ wpc[w] \in {"ready", "again"}
     /\ ~wal.closed /\ ~wal.sealed
     /\ wal.open \/ EarlyAppend
     /\ issued' = Append(issued, ops)
     /\ wal' = [wal EXCEPT !.queue = Append(@, w), !.next = @ + 1]
     /\ call' = [call EXCEPT ![w] = [ops |-> ops, id |-> i, off |-> wal.next,
                                     prev |-> [k \in DOMAIN ops |-> store[k]]]]
     /\ wpc' = [wpc EXCEPT ![w] = "queued"]
     /\ StoreBecomes(Applied(ops, i))
     /\ UNCHANGED <<disk, fileVars, cpc, lock, acked, boundVars>>

\* appendLoc() rejects; retryOnWalSeal() tries once more after the rotation.
Retries(w) == wpc[w] = "ready" /\ (lock \/ ~wal.closed)
CommitRejected(w, ops) ==
  /\ wpc[w] \in {"ready", "again"}
  /\ wal.closed \/ wal.sealed
  /\ IF Retries(w)
       THEN wpc' = [wpc EXCEPT ![w] = "retry"] /\ call' = [call EXCEPT ![w].ops = ops]
       ELSE wpc' = [wpc EXCEPT ![w] = "idle"] /\ call' = [call EXCEPT ![w] = NoCall]
  /\ StoreBecomes(Touched(ops))
  /\ UNCHANGED <<disk, wal, fileVars, cpc, lock, issued, acked, boundVars>>

\* Two of them resumed one after the other: both have applied when the first rolls
\* back.  Of a key they share, it finds the second's record and leaves it alone; the
\* second then puts back what it had applied over, the first's never logged write,
\* which takes a number like one that was.  Two deletes look alike: the first brings
\* the key back for both.
Contested(first, second) ==
  {k \in DOMAIN first \cap DOMAIN second : first[k] = "set" \/ second[k] = "set"}
LeftBehind(first, second, i) ==
  [k \in Keys |-> IF k \notin Contested(first, second)
                    THEN IF k \in DOMAIN first THEN Touched(first)[k] ELSE Touched(second)[k]
                  ELSE IF first[k] = "set" THEN [val |-> i, loc |-> None, by |-> 0]
                  ELSE None]
CommitsRejected(v, w, first, second) ==
  /\ v # w /\ {wpc[v], wpc[w]} \subseteq {"ready", "again"}
  /\ wal.closed \/ wal.sealed
  /\ Contested(first, second) # {}
  /\ wpc' = [x \in Writers |-> IF x \notin {v, w} THEN wpc[x]
                               ELSE IF Retries(x) THEN "retry" ELSE "idle"]
  /\ call' = [x \in Writers |-> IF x \notin {v, w} THEN call[x]
                                ELSE IF ~Retries(x) THEN NoCall
                                ELSE [call[x] EXCEPT !.ops = IF x = v THEN first ELSE second]]
  /\ StoreBecomes(LeftBehind(first, second, Len(issued) + 1))
  /\ issued' = Append(issued, first)
  /\ rejected' = TRUE
  /\ UNCHANGED <<disk, wal, fileVars, cpc, lock, acked, compactions, faults, unopened>>

-----------------------------------------------------------------------------
(* The write-ahead log *)

FlushBatch ==
  /\ wal.batch = <<>> /\ wal.queue # <<>>
  /\ wal' = [wal EXCEPT !.batch = wal.queue, !.queue = <<>>]
  /\ UNCHANGED <<disk, store, fileVars, cpc, cmp, lock, wpc, call, issued, acked, boundVars>>

Frames(ws) == [j \in DOMAIN ws |-> FrameOf(call[ws[j]].ops, call[ws[j]].id)]
Done(ws) ==
  /\ wpc' = [w \in Writers |-> IF w \in Elems(ws) THEN "idle" ELSE wpc[w]]
  /\ call' = [w \in Writers |-> IF w \in Elems(ws) THEN NoCall ELSE call[w]]

\* publishWalRef(): the value now lives at the offset its append predicted,
\* unless the record has changed since.
Published(w, k) ==
  /\ disk /\ k \in DOMAIN call[w].ops
  /\ store[k] # None
  /\ store[k].by = call[w].id
FlushLands ==
  LET ws == wal.batch
  IN /\ wal.batch # <<>> /\ wal.open
     /\ walFile' = [walFile EXCEPT ![walAt] = @ \o Frames(ws)]
     /\ wal' = [wal EXCEPT !.batch = <<>>, !.size = @ + Len(ws)]
     /\ acked' = [k \in Keys |->
          LET ids == {call[w].id : w \in {v \in Elems(ws) : k \in DOMAIN call[v].ops}} \cup {acked[k]}
          IN CHOOSE i \in ids : \A j \in ids : j <= i]
     /\ StoreBecomes([k \in Keys |->
          IF \E w \in Elems(ws) : Published(w, k)
            THEN LET w == CHOOSE v \in Elems(ws) : Published(v, k)
                 IN [val |-> store[k].val, by |-> 0,
                     loc |-> [file |-> "wal", off |-> call[w].off]]
            ELSE store[k]])
     /\ Done(ws)
     /\ UNCHANGED <<disk, snapFile, snapAt, walAt, reader, cpc, lock, issued, boundVars>>

\* writev rejects after n frames and perhaps part of another, or the fsync after all
\* of them; size counts them, nextOffset is not corrected.  The writers roll back in append order.
FlushFails(n, torn) ==
  LET ws == wal.batch
      landed == SubSeq(Frames(ws), 1, n) \o (IF torn THEN <<Torn>> ELSE <<>>)
  IN /\ wal.batch # <<>>
     /\ IF wal.open
          THEN /\ faults < MaxFaults /\ faults' = faults + 1
               /\ disk => DiskFailures
               /\ wal.queue = <<>> \/ Overlapped
          ELSE n = 0 /\ ~torn /\ UNCHANGED faults
     /\ n < Len(ws) \/ ~torn
     /\ walFile' = [walFile EXCEPT ![walAt] = @ \o landed]
     /\ wal' = [wal EXCEPT !.batch = <<>>, !.size = @ + Len(landed)]
     /\ \E restore \in [Keys -> SUBSET DOMAIN ws] :
          /\ \A k \in Keys : Restoring(ws, k, restore[k])
          /\ StoreBecomes([k \in Keys |-> Restored(ws, k, restore[k])])
     /\ Done(ws)
     /\ rejected' = TRUE
     /\ UNCHANGED <<disk, snapFile, snapAt, walAt, reader, cpc, lock, issued, acked,
                    compactions, unopened>>

-----------------------------------------------------------------------------
(* compact(): fence, fuzzy snapshot, pre-copy, rotation *)

Goto(s) == cpc' = s
Current == walFile[walAt]

StartCompaction ==
  /\ cpc = "idle"
  /\ compactions < MaxCompactions
  /\ unopened => CompactUnopened
  /\ compactions' = compactions + 1
  /\ cmp' = [NoCompaction EXCEPT !.n = compactions + 1]
  /\ Goto("fence")
  /\ UNCHANGED <<disk, store, wal, fileVars, lock, wpc, call, issued, acked, faults, rejected,
                 unopened>>

Fence ==
  /\ cpc = "fence" /\ Drained
  /\ cmp' = [cmp EXCEPT !.base = wal.size, !.copied = wal.size, !.todo = Keys]
  /\ Goto("snapshot")
  /\ UNCHANGED <<disk, store, wal, fileVars, lock, wpc, call, issued, acked, boundVars>>

\* The value of a record: in memory, or what is on disk at its location.
Materialized(k) ==
  IF store[k].loc = None THEN store[k].val
  ELSE LET f == FrameAt(store[k].loc) IN IF k \in DOMAIN f THEN f[k] ELSE 0

\* Writers run between any two entries of the iteration.  It cannot go on when a
\* value is not where its record says: the positioned read throws.
Readable(k) == store[k].loc # None => FrameAt(store[k].loc) # Torn
SnapshotEntry(k) ==
  /\ cpc = "snapshot"
  /\ k \in cmp.todo /\ store[k] # None /\ Readable(k)
  /\ snapFile' = [snapFile EXCEPT ![cmp.n] = Append(@, [j \in {k} |-> Materialized(k)])]
  /\ cmp' = [cmp EXCEPT !.todo = @ \ {k},
               !.locs[k] = [file |-> "snapshot", off |-> Len(snapFile[cmp.n])]]
  /\ UNCHANGED <<disk, store, wal, walFile, snapAt, walAt, reader, cpc, lock, wpc, call,
                 issued, acked, boundVars>>

SnapshotDone ==
  /\ cpc = "snapshot"
  /\ \A k \in cmp.todo : store[k] = None
  /\ Goto("precopy")
  /\ UNCHANGED <<disk, store, wal, fileVars, cmp, lock, wpc, call, issued, acked, boundVars>>

CopyTail ==
  /\ walFile' = [walFile EXCEPT ![cmp.n] = @ \o SubSeq(Current, cmp.copied + 1, wal.size)]
  /\ UNCHANGED <<disk, store, wal, snapFile, snapAt, walAt, reader, lock, wpc, call, issued,
                 acked, boundVars>>

PreCopy ==
  /\ cpc = "precopy" /\ Drained
  /\ wal.size > cmp.copied /\ cmp.passes < MaxPasses
  /\ cmp' = [cmp EXCEPT !.copied = wal.size, !.appended = TRUE, !.passes = @ + 1]
  /\ CopyTail
  /\ UNCHANGED cpc

\* A pass found little left, or the passes do not converge: lock and seal.
SealNothing == FALSE   \* mutant
Seal == TRUE
Rotate ==
  /\ cpc = "precopy" /\ Drained
  /\ lock' = TRUE
  /\ wal' = [wal EXCEPT !.sealed = Seal]
  /\ Goto("drain")
  /\ UNCHANGED <<disk, store, fileVars, cmp, wpc, call, issued, acked, boundVars>>

DrainCopy ==
  /\ cpc = "drain" /\ Drained
  /\ ~(wal.size = cmp.copied /\ cmp.appended)
  /\ cmp' = [cmp EXCEPT !.copied = wal.size, !.appended = TRUE]
  /\ CopyTail
  /\ UNCHANGED cpc

DrainDone ==
  /\ cpc = "drain" /\ Drained
  /\ wal.size = cmp.copied /\ cmp.appended
  /\ Goto("close")
  /\ UNCHANGED <<disk, store, wal, fileVars, cmp, lock, wpc, call, issued, acked, boundVars>>

\* wal.close(): closed at once; it returns when what is queued is flushed.
CloseWal ==
  /\ cpc = "close"
  /\ wal' = [wal EXCEPT !.closed = TRUE]
  /\ Goto("renameSnapshot")
  /\ UNCHANGED <<disk, store, fileVars, cmp, lock, wpc, call, issued, acked, boundVars>>

WalFirst ==   \* mutant: the two renames swapped
  /\ walAt' = IF cpc = "renameSnapshot" THEN cmp.n ELSE walAt
  /\ snapAt' = IF cpc = "renameWal" THEN cmp.n ELSE snapAt
SnapshotFirst ==
  /\ snapAt' = IF cpc = "renameSnapshot" THEN cmp.n ELSE snapAt
  /\ walAt' = IF cpc = "renameWal" THEN cmp.n ELSE walAt

RenameSnapshot ==
  /\ cpc = "renameSnapshot" /\ Drained
  /\ SnapshotFirst
  /\ Goto("renameWal")
  /\ UNCHANGED <<disk, store, wal, snapFile, walFile, reader, cmp, lock, wpc, call, issued,
                 acked, boundVars>>

RenameWal ==
  /\ cpc = "renameWal"
  /\ SnapshotFirst
  /\ cmp' = [cmp EXCEPT !.rotated = TRUE]
  /\ Goto("swap")
  /\ UNCHANGED <<disk, store, wal, snapFile, walFile, reader, lock, wpc, call, issued, acked,
                 boundVars>>

\* db.wal is the new object before the new object has opened its file.
SwapWal ==
  /\ cpc = "swap"
  /\ wal' = NewWal(FALSE, 0)
  /\ Goto("open")
  /\ UNCHANGED <<disk, store, fileVars, cmp, lock, wpc, call, issued, acked, boundVars>>

\* remap(): log locations past the fence move with the log, the others are
\* found in the new snapshot.
RemapUnshifted(k) ==   \* mutant
  IF store[k].loc.file = "wal" /\ store[k].loc.off >= cmp.base THEN store[k].loc
  ELSE IF cmp.locs[k] # None THEN cmp.locs[k] ELSE store[k].loc
Remap(k) ==
  IF store[k].loc.file = "wal" /\ store[k].loc.off >= cmp.base
    THEN [store[k].loc EXCEPT !.off = @ - cmp.base]
  ELSE IF cmp.locs[k] # None THEN cmp.locs[k]
  ELSE store[k].loc
Remapped ==
  /\ store' = [k \in Keys |-> IF store[k] = None THEN None
                 ELSE IF store[k].loc = None THEN store[k]
                 ELSE [store[k] EXCEPT !.loc = Remap(k)]]
  /\ reader' = [snap |-> snapAt, wal |-> walAt]

\* The rotation lock is released: parked writers and retries go on.
UnlockUnresolved ==   \* mutant: the lock is dropped, its promise never resolves
  /\ lock' = FALSE
  /\ cmp' = NoCompaction
  /\ Goto("idle")
  /\ UNCHANGED wpc
Unlock ==
  /\ lock' = FALSE
  /\ cmp' = NoCompaction
  /\ Goto("idle")
  /\ wpc' = [w \in Writers |-> CASE wpc[w] = "parked" -> "ready"
                                 [] wpc[w] = "retry" -> "again"
                                 [] OTHER -> wpc[w]]

\* open() reads the size of the file; frames queued before keep their offsets.
Opened(w, size) == [w EXCEPT !.open = TRUE, !.size = size, !.next = size]

FinishCompaction ==
  /\ cpc = "open"
  /\ wal' = Opened(wal, Len(Current))
  /\ Remapped
  /\ Unlock
  /\ UNCHANGED <<disk, snapFile, walFile, snapAt, walAt, call, issued, acked, boundVars>>

-----------------------------------------------------------------------------
(* A compaction that throws *)

Rotating == cpc \in {"drain", "close", "renameSnapshot", "renameWal", "swap", "open"}

\* Before the rotation nothing has to be undone; inside it the old log is
\* closed and a new object is opened on whatever db.wal names.
CompactionThrows ==
  /\ cpc \in {"fence", "snapshot", "precopy"} \/ Rotating
  /\ faults < MaxFaults
  /\ faults' = faults + 1
  /\ IF Rotating
       THEN /\ wal' = [wal EXCEPT !.closed = TRUE]
            /\ Goto("rollback")
            /\ UNCHANGED <<cmp, lock, wpc>>
       ELSE Unlock /\ UNCHANGED wal
  /\ UNCHANGED <<disk, store, fileVars, call, issued, acked, compactions, rejected, unopened>>

RollForward ==
  /\ cpc = "rollback" /\ Drained
  /\ wal' = NewWal(TRUE, Len(Current))
  /\ IF cmp.rotated THEN Remapped ELSE UNCHANGED <<store, reader>>
  /\ Unlock
  /\ UNCHANGED <<disk, snapFile, walFile, snapAt, walAt, call, issued, acked, boundVars>>

\* The fresh log cannot be opened either: the database stays unwritable.
RollForwardFails ==
  /\ cpc = "rollback" /\ Drained
  /\ unopened' = TRUE
  /\ Unlock
  /\ UNCHANGED <<disk, store, wal, fileVars, call, issued, acked, compactions,
                 faults, rejected>>

-----------------------------------------------------------------------------
\* The process dies with some of its batch written; the next one removes the
\* temporary files, replays, truncates a torn tail and opens its reader.
Crash(n) ==
  /\ faults < MaxFaults
  /\ n \in 0..Len(wal.batch)
  /\ n > 0 => wal.open
  /\ faults' = faults + 1 /\ unopened' = FALSE
  /\ LET log == Truncated(Current \o SubSeq(Frames(wal.batch), 1, n))
     IN /\ walFile' = [walFile EXCEPT ![walAt] = log]
        /\ wal' = NewWal(TRUE, Len(log))
        /\ store' = [k \in Keys |-> RecoveredRecord(snapFile[snapAt], log, k)]
  /\ reader' = [snap |-> snapAt, wal |-> walAt]
  /\ cpc' = "idle" /\ cmp' = NoCompaction /\ lock' = FALSE
  /\ wpc' = [w \in Writers |-> "idle"] /\ call' = [w \in Writers |-> NoCall]
  /\ UNCHANGED <<disk, snapFile, snapAt, walAt, issued, acked, compactions, rejected>>

WalStep == FlushBatch \/ FlushLands
               \/ \E n \in 0..Len(wal.batch), torn \in BOOLEAN : FlushFails(n, torn)
WriterStep(w) == \E ops \in Chosen(w) : Commit(w, ops) \/ CommitRejected(w, ops)
CompactionStep ==
  \/ Fence \/ (\E k \in Keys : SnapshotEntry(k)) \/ SnapshotDone \/ Rotate
  \/ DrainCopy \/ DrainDone \/ CloseWal \/ RenameSnapshot \/ RenameWal \/ SwapWal \/ FinishCompaction
  \/ RollForward

Next ==
  \/ \E w \in Writers : Call(w) \/ WriterStep(w)
  \/ \E v, w \in Writers : \E first \in Chosen(v), second \in Chosen(w) :
       CommitsRejected(v, w, first, second)
  \/ WalStep
  \/ StartCompaction \/ CompactionStep \/ PreCopy
  \/ CompactionThrows \/ RollForwardFails
  \/ \E n \in 0..Len(wal.batch) : Crash(n)

Spec == Init /\ [][Next]_vars

-----------------------------------------------------------------------------
Effect(i, k) == IF i = 0 THEN 0 ELSE IF issued[i][k] = "set" THEN i ELSE 0

\* An acknowledged write survives a crash at any moment: replaying the snapshot
\* and the log that are on disk gives, for every key, the effect of the last
\* acknowledged write that touched it or of a later one.  It is what the order
\* of the two renames, the fence, the seal and the copy of the tail are for
\* (compaction.ts, "Crash safety").
AckedSurvive ==
  \A k \in Keys :
    \E i \in acked[k]..Len(issued) :
      /\ i = acked[k] \/ k \in DOMAIN issued[i]
      /\ Recovered(snapFile[snapAt], Current, k).val = Effect(i, k)

\* A value that lives on disk is read back: every location in the store names a
\* frame of the file the reader has open, and that frame holds the value the
\* record stands for (publishWalRef, remap, reopenBoth), after a failed rotation
\* too.
PointersRead ==
  \A k \in Keys : store[k] # None => Materialized(k) = store[k].val

\* What is applied is what is durable: with no frame on its way and no rollback
\* before that may have left something else (rejected), replaying the files gives
\* what the store holds.  A write refused by the sealed log alone leaves nothing.
MemoryIsDurable ==
  Drained /\ ~rejected =>
    \A k \in Keys :
      Recovered(snapFile[snapAt], Current, k).val = (IF store[k] = None THEN 0 ELSE store[k].val)

\* What the comment at index.ts:742 promises of a failed append: memory never
\* diverges from what is durable, whoever else was refused.
NeverDiverges ==
  Drained /\ faults = 0 =>
    \A k \in Keys :
      Recovered(snapFile[snapAt], Current, k).val = (IF store[k] = None THEN 0 ELSE store[k].val)

\* No writer is left behind by a rotation, a failed one included: who waits for
\* the rotation lock waits for a compaction that will still release it, and the
\* log stays closed or sealed only while that compaction runs or after it could
\* not open a log at all (compaction.ts, "must not leave writers parked forever").
NobodyLeftParked ==
  /\ (\E w \in Writers : wpc[w] \in {"parked", "retry"}) => lock
  /\ lock => Rotating \/ cpc = "rollback"
  /\ wal.sealed \/ wal.closed => lock \/ unopened
=============================================================================
