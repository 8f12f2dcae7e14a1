--------------------------- MODULE AppendLogProofs ---------------------------
(***************************************************************************)
(* Proofs about AppendLog.                                                 *)
(***************************************************************************)
EXTENDS AppendLog, FilteringProofs, TLAPS

USE DEF Gens, Records, Pcs, faults
USE BoundsAssumption

\* FlushState keeps the types.
LEMMA FlushStateTypes ==
  ASSUME ControlTypes, NEW g \in Gens, NEW A, FlushState(g, A)
  PROVE  pc' \in [Gens -> Pcs] /\ seen' \in [Gens -> Nat]
  BY DEF ControlTypes, FlushState

\* state() yields a generation within the bound and a well-typed predecessor.
LEMMA StateTypes ==
  ASSUME ControlTypes, State
  PROVE  /\ Target \in Gens /\ cur' \in 0..MaxGens /\ made' \in 0..MaxGens
         /\ prev' \in [Gens -> 0..MaxGens]
<1>1. Target \in Gens
  BY DEF State
<1>2. cur' \in 0..MaxGens /\ made' \in 0..MaxGens
  BY DEF ControlTypes, State, Target, NeedsNew
<1>3. prev' \in [Gens -> 0..MaxGens]
  BY <1>1 DEF ControlTypes, State
<1> QED
  BY <1>1, <1>2, <1>3

\* A store that has just been constructed is well typed.
LEMMA ControlInit == Init => ControlTypes
  BY DEF Init, ControlTypes, Empty

\* No synchronous segment of the store takes a flag, counter, reference count or
\* program counter out of its type; release() in particular never goes below zero.
LEMMA ControlStep ==
  ASSUME ControlTypes, [Next]_vars
  PROVE  ControlTypes'
<1> USE DEF genVars, opVars, histVars
<1>1. CASE AppendRecord
  <2>1. scheduled' \in [Gens -> BOOLEAN]
    BY <1>1, StateTypes DEF AppendRecord, ControlTypes
  <2>2. accepted' \in 0..MaxRecords
    BY <1>1 DEF AppendRecord, ControlTypes
  <2> QED
    BY <1>1, <2>1, <2>2, StateTypes DEF AppendRecord, ControlTypes
<1>2. CASE Flush
  <2>1. cur \in Gens
    BY <1>2 DEF Flush, ControlTypes
  <2> QED
    BY <1>2, <2>1, FlushStateTypes DEF Flush, ControlTypes
<1>3. CASE Read
  BY <1>3, StateTypes, FlushStateTypes DEF Read, ControlTypes
<1>4. CASE Acquire
  <2>a. Target \in Gens
    BY <1>4, StateTypes DEF Acquire
  <2>b. refs[Target] \in 0..MaxRefs
    BY <2>a DEF ControlTypes
  <2>1. Target \in Gens /\ refs[Target] + 1 \in 0..MaxRefs
    BY <1>4, <2>a, <2>b DEF Acquire
  <2>2. refs' \in [Gens -> 0..MaxRefs]
    BY <1>4, <2>1 DEF Acquire, ControlTypes
  <2> QED
    BY <1>4, <2>2, StateTypes DEF Acquire, ControlTypes
<1>5. ASSUME NEW recs \in Compacted(Target), Rewrite(recs)
      PROVE  ControlTypes'
  <2>1. Target \in Gens
    BY <1>5, StateTypes DEF Rewrite
  <2>2. pc' \in [Gens -> Pcs]
    <3>1. pc' = [pc EXCEPT ![Target] = "wait"] \/ pc' = pc
      BY <1>5 DEF Rewrite
    <3> QED
      BY <2>1, <3>1 DEF ControlTypes
  <2>4. epoch[Target] + 1 \in Nat
    BY <2>1 DEF ControlTypes
  <2>5. epoch' \in [Gens -> Nat]
    BY <1>5, <2>1, <2>4 DEF Rewrite, ControlTypes
  <2>3. cutovers' \in 0..MaxRewrites
    BY <1>5 DEF Rewrite, ControlTypes
  <2> QED
    BY <1>5, <2>2, <2>3, <2>5, StateTypes DEF Rewrite, ControlTypes
<1>6. ASSUME NEW g \in Gens, Release(g)
      PROVE  ControlTypes'
  <2>1. pc' \in [Gens -> Pcs] /\ seen' \in [Gens -> Nat]
    BY <1>6, FlushStateTypes DEF Release, ControlTypes
  <2>2. refs[g] - 1 \in 0..MaxRefs
    <3>1. refs[g] > 0
      BY <1>6 DEF Release, Held
    <3>2. refs[g] \in 0..MaxRefs
      BY DEF ControlTypes
    <3> QED
      BY <3>1, <3>2
  <2>3. refs' \in [Gens -> 0..MaxRefs] /\ retired' \in [Gens -> BOOLEAN]
    BY <1>6, <2>2 DEF Release, ControlTypes
  <2> QED
    BY <1>6, <2>1, <2>3 DEF Release, ControlTypes
<1>7. ASSUME NEW g \in Gens, Continue(g)
      PROVE  ControlTypes'
  <2>1. CASE RunScheduledFlush(g)
    BY <2>1, FlushStateTypes DEF RunScheduledFlush, ControlTypes
  <2>2. CASE Settle(g)
    BY <2>2, SMTT(60) DEF Settle, ControlTypes
  <2>3. CASE DrainBegin(g)
    BY <2>3 DEF DrainBegin, ControlTypes
  <2>4. CASE DrainAppended(g)
    BY <2>4 DEF DrainAppended, ControlTypes
  <2>5. CASE DrainFailed(g)
    <3>1. failures' \in 0..MaxFailures
      BY <2>5 DEF DrainFailed, ControlTypes
    <3> QED
      BY <2>5, <3>1 DEF DrainFailed, Sticky, ControlTypes
  <2>6. CASE RewriteBegin(g)
    BY <2>6 DEF RewriteBegin, ControlTypes
  <2>7. CASE RewriteWritten(g)
    BY <2>7 DEF RewriteWritten, ControlTypes
  <2>8. CASE RewriteFailed(g)
    <3>1. failures' \in 0..MaxFailures
      BY <2>8 DEF RewriteFailed, ControlTypes
    <3> QED
      BY <2>8, <3>1 DEF RewriteFailed, Sticky, ControlTypes
  <2>9. CASE FinishOwned(g)
    BY <2>9 DEF FinishOwned, ControlTypes
  <2> QED
    BY <1>7, <2>1, <2>2, <2>3, <2>4, <2>5, <2>6, <2>7, <2>8, <2>9 DEF Continue
<1>8. CASE Crash
  BY <1>8 DEF Crash, ControlTypes, Empty
<1>9. CASE UNCHANGED vars
  BY <1>9 DEF vars, ControlTypes
<1> QED
  BY <1>1, <1>2, <1>3, <1>4, <1>5, <1>6, <1>7, <1>8, <1>9 DEF Next

-----------------------------------------------------------------------------
(* The types of the data.                                                    *)

\* storage.append() of records gives a file of terminated lines, whatever tail it
\* found.
LEMMA AppendTyped ==
  ASSUME NEW f \in FileState, NEW recs \in Seq(Records), recs # <<>>
  PROVE  FileAppend(f, recs) \in FileState
<1>1. recs \in Seq(Records \cup {Corrupt})
  OBVIOUS
<1>2. Tail(recs) \in Seq(Records \cup {Corrupt})
  BY <1>1
<1>3. f.lines \in Seq(Records \cup {Corrupt})
  BY DEF FileState
<1>4. <<Corrupt>> \o Tail(recs) \in Seq(Records \cup {Corrupt})
  <2>1. <<Corrupt>> \in Seq(Records \cup {Corrupt})
    OBVIOUS
  <2> QED
    BY <1>2, <2>1
<1>5. CASE f.tail = NoTail
  BY <1>1, <1>3, <1>5 DEF FileState, FileAppend
<1>6. CASE f.tail # NoTail
  BY <1>3, <1>4, <1>6 DEF FileState, FileAppend
<1> QED
  BY <1>5, <1>6

\* So does an append that got only as far as its first k lines.
LEMMA PrefixTyped ==
  ASSUME NEW f \in FileState, NEW recs \in Seq(Records), NEW k \in 0..Len(recs)
  PROVE  FilePrefix(f, recs, k) \in FileState
<1>1. CASE k = 0
  BY <1>1 DEF FilePrefix
<1>2. CASE k # 0
  <2>1. SubSeq(recs, 1, k) \in Seq(Records) /\ SubSeq(recs, 1, k) # <<>>
    BY <1>2
  <2> QED
    BY <1>2, <2>1, AppendTyped DEF FilePrefix
<1> QED
  BY <1>1, <1>2

\* What an append that rejected or crashed leaves behind is still a file.
LEMMA InterruptedTyped ==
  ASSUME NEW f \in FileState, NEW recs \in Seq(Records)
  PROVE  Interrupted(f, recs) \subseteq FileState
<1>1. \A k \in 0..Len(recs) : FilePrefix(f, recs, k) \in FileState
  BY PrefixTyped
<1>2. ASSUME NEW base \in FileState, NEW r \in Records
      PROVE  TornLine(base, r) \subseteq FileState
  BY DEF TornLine, FileState
<1>3. \A k \in 0..(Len(recs) - 1) : recs[k + 1] \in Records
  OBVIOUS
<1>4. UNION {TornLine(FilePrefix(f, recs, k), recs[k + 1]) : k \in 0..(Len(recs) - 1)} \subseteq FileState
  <2> SUFFICES ASSUME NEW k \in 0..(Len(recs) - 1)
               PROVE  TornLine(FilePrefix(f, recs, k), recs[k + 1]) \subseteq FileState
    OBVIOUS
  <2>1. FilePrefix(f, recs, k) \in FileState
    BY <1>1
  <2> QED
    BY <1>2, <1>3, <2>1
<1> QED
  BY <1>1, <1>4 DEF Interrupted

\* The records of a buffer are records.
LEMMA RangeTyped ==
  ASSUME NEW s \in Seq(Records)
  PROVE  Elems(s) \subseteq Records
  BY DEF Elems

\* A flush() that joins the last queued rewrite leaves the queue well typed.
LEMMA JoinTyped ==
  ASSUME NEW q \in Seq(QueuedRewrite), NEW n \in 1..Len(q), NEW A \in SUBSET Records
  PROVE  [q EXCEPT ![n].mark = @ \cup A] \in Seq(QueuedRewrite)
<1>1. q[n] \in QueuedRewrite
  OBVIOUS
<1>2. [q[n] EXCEPT !.mark = @ \cup A] \in QueuedRewrite
  BY <1>1 DEF QueuedRewrite
<1> QED
  BY <1>2

\* flushState() adds its caller's records to the promise it shares.
LEMMA FlushStateData ==
  ASSUME DataTypes, NEW g \in Gens, NEW A \in SUBSET Records, FlushState(g, A)
  PROVE  /\ mark' \in [Gens -> SUBSET Records]
         /\ rewrites' \in [Gens -> Seq(QueuedRewrite)]
<1>1. mark' \in [Gens -> SUBSET Records]
  BY DEF DataTypes, FlushState
<1>2. rewrites' \in [Gens -> Seq(QueuedRewrite)]
  <2> DEFINE n == Len(rewrites[g])
  <2>1. rewrites \in [Gens -> Seq(QueuedRewrite)] /\ rewrites[g] \in Seq(QueuedRewrite)
    BY DEF DataTypes
  <2>2. \/ rewrites' = rewrites
        \/ n # 0 /\ rewrites' = [rewrites EXCEPT ![g][n].mark = @ \cup A]
    BY DEF FlushState
  <2>3. CASE n # 0 /\ rewrites' = [rewrites EXCEPT ![g][n].mark = @ \cup A]
    <3>1. n \in 1..Len(rewrites[g])
      BY <2>1, <2>3
    <3>2. [rewrites[g] EXCEPT ![n].mark = @ \cup A] \in Seq(QueuedRewrite)
      BY <2>1, <3>1, JoinTyped
    <3>3. rewrites' = [rewrites EXCEPT ![g] = [rewrites[g] EXCEPT ![n].mark = @ \cup A]]
      BY <2>3
    <3> QED
      BY <2>1, <3>2, <3>3
  <2> QED
    BY <2>1, <2>2, <2>3
<1> QED
  BY <1>1, <1>2

\* The atomic replacement of the file by a rewrite gives a file.
LEMMA ReplacedTyped ==
  ASSUME NEW recs \in Seq(Records)
  PROVE  Replaced(recs) \in FileState
<1>1. recs \in Seq(Records \cup {Corrupt})
  OBVIOUS
<1> QED
  BY <1>1 DEF Replaced, FileState

\* The buffers and the file of a new store are well typed.
LEMMA DataInit == Init => DataTypes
  BY DEF Init, DataTypes, Empty, FileState

\* No segment takes the file, a buffer, a batch or the queued rewrites out of
\* their types: an append that resolves always had a batch (Gate).
LEMMA DataStep ==
  ASSUME ControlTypes, DataTypes, Gate, [Next]_vars
  PROVE  DataTypes'
<1> USE DEF genVars, opVars, histVars
<1>1. CASE AppendRecord
  <2>1. Target \in Gens
    BY <1>1, StateTypes DEF AppendRecord
  <2>3. accepted + 1 \in Records
    BY <1>1 DEF AppendRecord, ControlTypes
  <2>2. pending' \in [Gens -> Seq(Records)]
    BY <1>1, <2>1, <2>3 DEF AppendRecord, DataTypes
  <2> QED
    BY <1>1, <2>2 DEF AppendRecord, DataTypes
<1>2. CASE Flush
  <2>3. cur # 0
    BY <1>2 DEF Flush
  <2>1. cur \in Gens
    BY <2>3 DEF ControlTypes
  <2>2. Elems(pending[cur]) \in SUBSET Records
    BY <2>1, RangeTyped DEF DataTypes
  <2> QED
    BY <1>2, <2>1, <2>2, FlushStateData DEF Flush, DataTypes
<1>3. CASE Read
  <2>1. Target \in Gens
    BY <1>3, StateTypes DEF Read
  <2>2. Elems(pending[Target]) \in SUBSET Records
    BY <2>1, RangeTyped DEF DataTypes
  <2> QED
    BY <1>3, <2>1, <2>2, FlushStateData DEF Read, DataTypes
<1>4. CASE Acquire
  BY <1>4 DEF Acquire, DataTypes
<1>5. ASSUME NEW recs \in Compacted(Target), Rewrite(recs)
      PROVE  DataTypes'
  <2>1. Target \in Gens /\ recs \in Seq(Records)
    BY <1>5, StateTypes DEF Rewrite, Compacted
  <2>2. [recs |-> recs, mark |-> {}] \in QueuedRewrite
    BY <2>1 DEF QueuedRewrite
  <2>3. \/ /\ batch' = [batch EXCEPT ![Target] = recs]
           /\ mark' = [mark EXCEPT ![Target] = {}]
           /\ rewrites' = rewrites
        \/ /\ rewrites' = [rewrites EXCEPT ![Target] = Append(@, [recs |-> recs, mark |-> {}])]
           /\ batch' = batch /\ mark' = mark
    BY <1>5 DEF Rewrite
  <2>4. /\ batch' \in [Gens -> Seq(Records)] /\ mark' \in [Gens -> SUBSET Records]
        /\ rewrites' \in [Gens -> Seq(QueuedRewrite)]
    <3>1. Append(rewrites[Target], [recs |-> recs, mark |-> {}]) \in Seq(QueuedRewrite)
      BY <2>1, <2>2 DEF DataTypes
    <3> QED
      BY <2>1, <2>3, <3>1 DEF DataTypes
  <2> QED
    BY <1>5, <2>4 DEF Rewrite, DataTypes
<1>6. ASSUME NEW g \in Gens, Release(g)
      PROVE  DataTypes'
  <2>1. /\ mark' \in [Gens -> SUBSET Records]
        /\ rewrites' \in [Gens -> Seq(QueuedRewrite)]
    BY <1>6, FlushStateData DEF Release, DataTypes
  <2> QED
    BY <1>6, <2>1 DEF Release, DataTypes
<1>7. ASSUME NEW g \in Gens, Continue(g)
      PROVE  DataTypes'
  <2>a. batch[g] \in Seq(Records) /\ pending[g] \in Seq(Records) /\ file \in FileState
    BY DEF DataTypes
  <2>b. Replaced(batch[g]) \in FileState
    BY <2>a, ReplacedTyped
  <2>1. CASE RunScheduledFlush(g)
    BY <2>1, FlushStateData DEF RunScheduledFlush, DataTypes
  <2>2. CASE Settle(g)
    BY <2>2 DEF Settle, DataTypes
  <2>3. CASE DrainBegin(g)
    BY <2>3 DEF DrainBegin, DataTypes
  <2>4. CASE DrainAppended(g)
    <3>1. file' \in FileState
      <4>1. batch[g] # <<>> /\ file' = FileAppend(file, batch[g])
        BY <2>4 DEF DrainAppended, Gate, GateAt
      <4> QED
        BY <2>a, <4>1, AppendTyped
    <3>2. Rest(g) \in Seq(Records)
      BY <2>a DEF Rest
    <3>3. pending' \in [Gens -> Seq(Records)] /\ batch' \in [Gens -> Seq(Records)]
      BY <2>4, <3>2 DEF DrainAppended, DataTypes
    <3> QED
      BY <2>4, <3>1, <3>3 DEF DrainAppended, DataTypes
  <2>5. CASE DrainFailed(g)
    <3>1. file' \in FileState
      BY <2>5, <2>a, InterruptedTyped DEF DrainFailed
    <3> QED
      BY <2>5, <3>1 DEF DrainFailed, DataTypes
  <2>6. CASE RewriteBegin(g)
    BY <2>6 DEF RewriteBegin, DataTypes
  <2>7. CASE RewriteWritten(g)
    BY <2>7, <2>b DEF RewriteWritten, DataTypes
  <2>8. CASE RewriteFailed(g)
    BY <2>8, <2>b DEF RewriteFailed, DataTypes
  <2>9. CASE FinishOwned(g)
    <3>1. acked' \subseteq Records
      BY <2>9 DEF FinishOwned, Reported, DataTypes
    <3>2. CASE rewrites[g] = <<>> \/ GoesOn(g)
      <4>3. \/ batch' = batch /\ mark' = mark
            \/ batch' = [batch EXCEPT ![g] = <<>>] /\ mark' = [mark EXCEPT ![g] = {}]
        BY <2>9, <3>2 DEF FinishOwned
      <4>4. batch' \in [Gens -> Seq(Records)]
        <5>1. <<>> \in Seq(Records) /\ batch \in [Gens -> Seq(Records)]
          BY DEF DataTypes
        <5> QED
          BY <4>3, <5>1
      <4>1. mark' \in [Gens -> SUBSET Records]
        BY <4>3 DEF DataTypes
      <4>2. rewrites' = rewrites
        BY <2>9, <3>2 DEF FinishOwned
      <4> QED
        BY <2>9, <3>1, <4>1, <4>2, <4>4 DEF FinishOwned, DataTypes
    <3>3. CASE rewrites[g] # <<>> /\ ~GoesOn(g)
      <4>1. rewrites[g] \in Seq(QueuedRewrite)
        BY DEF DataTypes
      <4>2. Head(rewrites[g]) \in QueuedRewrite /\ Tail(rewrites[g]) \in Seq(QueuedRewrite)
        BY <3>3, <4>1
      <4>3. Head(rewrites[g]).recs \in Seq(Records) /\ Head(rewrites[g]).mark \in SUBSET Records
        BY <4>2 DEF QueuedRewrite
      <4> QED
        BY <2>9, <3>1, <3>3, <4>2, <4>3 DEF FinishOwned, DataTypes
    <3> QED
      BY <3>2, <3>3
  <2> QED
    BY <1>7, <2>1, <2>2, <2>3, <2>4, <2>5, <2>6, <2>7, <2>8, <2>9 DEF Continue
<1>8. CASE Crash
  <2>1. \A g \in Gens : Interrupted(file, batch[g]) \subseteq FileState
    BY InterruptedTyped DEF DataTypes
  <2>2. \A g \in Gens : Replaced(batch[g]) \in FileState
    BY ReplacedTyped DEF DataTypes
  <2>3. file' \in FileState
    <3>1. \/ file' = file
          \/ \E g \in Gens : file' \in Interrupted(file, batch[g])
          \/ \E g \in Gens : file' = Replaced(batch[g])
      BY <1>8 DEF Crash
    <3> QED
      BY <2>1, <2>2, <3>1 DEF DataTypes
  <2>4. \A g \in Gens : Elems(pending[g]) \subseteq Records
    BY RangeTyped DEF DataTypes
  <2>5. lost' \subseteq Records
    BY <1>8, <2>4 DEF Crash, DataTypes
  <2>6. /\ pending' = Empty(<<>>) /\ batch' = Empty(<<>>) /\ mark' = Empty({})
        /\ rewrites' = Empty(<<>>) /\ acked' = acked
    BY <1>8 DEF Crash
  <2>7. <<>> \in Seq(Records) /\ <<>> \in Seq(QueuedRewrite)
    OBVIOUS
  <2>8. /\ pending' \in [Gens -> Seq(Records)] /\ batch' \in [Gens -> Seq(Records)]
        /\ mark' \in [Gens -> SUBSET Records] /\ rewrites' \in [Gens -> Seq(QueuedRewrite)]
    BY <2>6, <2>7 DEF Empty
  <2> QED
    BY <2>3, <2>5, <2>6, <2>8 DEF DataTypes
<1>9. CASE UNCHANGED vars
  BY <1>9 DEF vars, DataTypes
<1> QED
  BY <1>1, <1>2, <1>3, <1>4, <1>5, <1>6, <1>7, <1>8, <1>9 DEF Next

\* flushState() moves only the program counter of its own generation, and only
\* from idle to a drain, when no storage failure is sticky.
LEMMA FlushStateEffect ==
  ASSUME ControlTypes, DataTypes, NEW g \in Gens, NEW A, FlushState(g, A)
  PROVE  /\ \A h \in Gens \ {g} : pc'[h] = pc[h] /\ rewrites'[h] = rewrites[h]
         /\ pc[g] # "idle" => pc'[g] = pc[g]
         /\ pc[g] = "idle" /\ failed[g] => pc'[g] = "idle"
         /\ pc[g] = "idle" /\ ~failed[g] => pc'[g] = "ready"
         /\ rewrites[g] = <<>> => rewrites'[g] = <<>>
<1>1. \/ pc[g] # "idle" /\ pc' = pc
      \/ pc[g] = "idle" /\ failed[g] /\ pc' = pc
      \/ pc[g] = "idle" /\ ~failed[g] /\ pc' = [pc EXCEPT ![g] = "ready"]
  BY DEF FlushState
<1>2. \/ rewrites' = rewrites
      \/ Len(rewrites[g]) # 0 /\ rewrites' = [rewrites EXCEPT ![g][Len(rewrites[g])].mark = @ \cup A]
  BY DEF FlushState
<1>3. \A h \in Gens \ {g} : rewrites'[h] = rewrites[h]
  BY <1>2 DEF DataTypes
<1>4. rewrites[g] = <<>> => rewrites'[g] = <<>>
  BY <1>2 DEF DataTypes
<1> QED
  BY <1>1, <1>3, <1>4 DEF ControlTypes

\* The hand-over order holds of a new store.
LEMMA HandoffInit == Init => HandoffOrder
  BY DEF Init, HandoffOrder, Chain, Gate, GateAt, Spent, Served, Empty, Ready

\* The part of the state that Chain speaks of.
LEMMA ChainKept ==
  ASSUME ControlTypes, Chain, UNCHANGED <<cur, made, prev, retired, settled>>,
         \A g \in Gens : refs'[g] = 0 \/ g <= made
  PROVE  Chain'
  BY DEF ControlTypes, Chain, Ready

\* A generation whose own fields a step leaves alone keeps its place at the gate.
LEMMA GateKept ==
  ASSUME ControlTypes, Chain, Spent, NEW g \in Gens, GateAt(g),
         g <= made => Ready(g)' = Ready(g), made' \in Nat, made <= made',
         pc'[g] = pc[g], failed'[g] = failed[g], scheduled'[g] = scheduled[g],
         settled'[g] = settled[g], retired'[g] = retired[g], err'[g] = err[g],
         pending'[g] = pending[g] \/ ~retired[g], batch'[g] = batch[g]
  PROVE  GateAt(g)'
<1>1. CASE g > made
  BY <1>1 DEF GateAt, Chain, Spent, ControlTypes
<1>2. CASE g <= made
  <2>1. Ready(g)' = Ready(g) /\ ~(g > made')
    BY <1>2 DEF ControlTypes
  <2> QED
    BY <2>1, Zenon DEF GateAt
<1> QED
  BY <1>1, <1>2 DEF ControlTypes

\* state() keeps the chain: a replacement is made only for a retired generation,
\* and waits for it.
LEMMA StateChain ==
  ASSUME ControlTypes, Chain, Gate, Spent, State, UNCHANGED <<retired, settled>>,
         \A g \in Gens : g # Target => refs'[g] = refs[g]
  PROVE  /\ Chain' 
         /\ \A g \in Gens : g <= made => Ready(g)' = Ready(g)
         /\ made <= made' /\ Target <= made' /\ Target \in Gens
         /\ ~retired[Target] /\ ~settled[Target]
<1>1. CASE cur # 0 /\ ~retired[cur]
  <2>1. cur' = cur /\ made' = made /\ prev' = prev /\ Target = cur
    BY <1>1 DEF State, Target, NeedsNew
  <2>2. cur = made
    BY <1>1 DEF Chain
  <2>3. \A g \in Gens : Ready(g)' = Ready(g)
    BY <2>1 DEF Ready
  <2>4. \A g \in Gens : refs'[g] = refs[g] \/ g = made
    BY <2>1, <2>2
  <2>5. made \in Gens /\ ~retired[made] /\ made \in Nat
    BY <1>1, <2>2 DEF ControlTypes
  <2>6. \A g \in Gens : refs'[g] = 0 \/ g <= made
    BY <2>4, <2>5 DEF Chain
  <2>7. Chain'
    BY <2>1, <2>6, ChainKept
  <2>8. ~settled[made]
    BY <2>5 DEF Spent
  <2> QED
    BY <2>1, <2>2, <2>3, <2>5, <2>7, <2>8
<1>2. CASE cur = 0 \/ retired[cur]
  <2>1. /\ cur' = made + 1 /\ made' = made + 1 /\ prev' = [prev EXCEPT ![made + 1] = cur]
        /\ Target = made + 1 /\ made + 1 \in Gens
    BY <1>2 DEF State, Target, NeedsNew
  <2>2. cur = 0 => \A h \in 1..made : settled[h]
    BY DEF Chain
  <2>3. CASE cur # 0
    <3>1. cur = made /\ retired[made]
      BY <1>2, <2>3 DEF Chain
    <3>2. settled[made] => \A h \in 1..made : settled[h]
      <4>1. made \in Gens
        BY <2>3, <3>1 DEF ControlTypes
      <4>2. settled[made] => \A h \in 1..(made - 1) : settled[h]
        BY <4>1 DEF Chain, Gate, GateAt
      <4> QED
        BY <4>1, <4>2
    <3>3. \A g \in Gens : prev'[g] = IF g = made + 1 THEN made ELSE prev[g]
      BY <2>1, <3>1 DEF ControlTypes
    <3>4. \A g \in Gens : g # made + 1 => Ready(g)' = Ready(g)
      BY <3>3 DEF Ready
    <3>5. \A g \in Gens : g = made + 1 /\ Ready(g)' => \A h \in 1..made : settled[h]
      BY <2>1, <2>3, <3>1, <3>2, <3>3 DEF Ready
    <3>6. \A g \in Gens : g <= made' /\ Ready(g)' => \A h \in 1..(g - 1) : settled'[h]
      <4> SUFFICES ASSUME NEW g \in Gens, g <= made + 1, Ready(g)'
                   PROVE  \A h \in 1..(g - 1) : settled[h]
        BY <2>1
      <4>1. CASE g = made + 1
        BY <3>5, <4>1 DEF ControlTypes
      <4>2. CASE g # made + 1
        <5>1. g <= made /\ Ready(g)
          BY <3>4, <4>2 DEF ControlTypes
        <5> QED
          BY <5>1 DEF Chain
      <4> QED
        BY <4>1, <4>2
    <3>7. \A g \in Gens : prev'[g] # 0 => g <= made' /\ prev'[g] + 1 = g
      <4>1. made \in Nat /\ \A g \in Gens : prev[g] # 0 => g <= made /\ prev[g] + 1 = g
        BY DEF ControlTypes, Chain
      <4> QED
        BY <2>1, <3>3, <4>1
    <3>8. \A g \in Gens : (g < made' => retired'[g]) /\ (g > made' => ~retired'[g] /\ refs'[g] = 0)
      <4>1. /\ \A g \in Gens : (g < made => retired[g]) /\ (g > made => ~retired[g] /\ refs[g] = 0)
            /\ made \in Nat /\ retired[made]
        BY <3>1 DEF ControlTypes, Chain
      <4>2. \A g \in Gens : /\ g < made + 1 => g < made \/ g = made
                            /\ g > made + 1 => g > made /\ g # made + 1
        BY <4>1
      <4>3. \A g \in Gens : g < made + 1 => retired[g]
        BY <4>1, <4>2
      <4>4. \A g \in Gens : g > made + 1 => ~retired[g] /\ refs'[g] = 0
        BY <2>1, <4>1, <4>2
      <4> QED
        BY <2>1, <4>3, <4>4
    <3>9. Chain'
      BY <2>1, <3>6, <3>7, <3>8 DEF Chain
    <3> QED
      BY <2>1, <3>4, <3>9 DEF ControlTypes, Chain, Spent
  <2>4. CASE cur = 0
    <3>3. \A g \in Gens : prev'[g] = IF g = made + 1 THEN 0 ELSE prev[g]
      BY <2>1, <2>4 DEF ControlTypes
    <3>4. \A g \in Gens : g # made + 1 => Ready(g)' = Ready(g)
      BY <3>3 DEF Ready
    <3>6. \A g \in Gens : g <= made' /\ Ready(g)' => \A h \in 1..(g - 1) : settled'[h]
      BY <2>1, <2>2, <2>4, <3>4 DEF ControlTypes, Chain
    <3>7. \A g \in Gens : prev'[g] # 0 => g <= made' /\ prev'[g] + 1 = g
      BY <2>1, <3>3 DEF ControlTypes, Chain
    <3>5. \A g \in 1..made : retired[g]
      <4>1. 1..made \subseteq Gens
        BY DEF ControlTypes
      <4>2. \A g \in 1..made : settled[g]
        BY <2>2, <2>4
      <4> QED
        BY <4>1, <4>2 DEF Spent
    <3>8. \A g \in Gens : (g < made' => retired'[g]) /\ (g > made' => ~retired'[g] /\ refs'[g] = 0)
      BY <2>1, <2>4, <3>5 DEF ControlTypes, Chain
    <3>9. Chain'
      BY <2>1, <3>6, <3>7, <3>8 DEF Chain
    <3> QED
      BY <2>1, <3>4, <3>9 DEF ControlTypes, Chain, Spent
  <2> QED
    BY <2>3, <2>4
<1> QED
  BY <1>1, <1>2

\* Every segment of the store keeps the hand-over order.
LEMMA HandoffStep ==
  ASSUME ControlTypes, DataTypes, HandoffOrder, [Next]_vars
  PROVE  HandoffOrder'
<1> USE DEF genVars, opVars, histVars
<1>c. Chain /\ Gate /\ Spent /\ Served
  BY DEF HandoffOrder
<1>1. CASE AppendRecord
  <2>1. /\ Chain' /\ \A g \in Gens : g <= made => Ready(g)' = Ready(g)
        /\ made <= made' /\ Target <= made' /\ Target \in Gens
        /\ ~retired[Target] /\ ~settled[Target]
    BY <1>1, <1>c, StateChain DEF AppendRecord
  <2>2. \A g \in Gens : g # Target => pending'[g] = pending[g] /\ scheduled'[g] = scheduled[g]
    BY <1>1 DEF AppendRecord, ControlTypes, DataTypes
  <2>3. Gate'
    <3> SUFFICES ASSUME NEW g \in Gens
                 PROVE  GateAt(g)'
      BY DEF Gate
    <3>1. CASE g # Target
      BY <1>1, <1>c, <2>1, <2>2, <3>1, GateKept, StateTypes DEF AppendRecord, Gate
    <3>2. CASE g = Target
      <4>a. made' \in 0..MaxGens /\ retired' = retired /\ settled' = settled
        BY <1>1, StateTypes DEF AppendRecord
      <4>1. ~(g > made') /\ ~retired'[g] /\ ~settled'[g]
        BY <2>1, <3>2, <4>a
      <4>2. CASE g > made
        BY <1>1, <1>c, <4>1, <4>2 DEF AppendRecord, Gate, GateAt
      <4>3. CASE g <= made
        BY <1>1, <1>c, <2>1, <4>1, <4>3 DEF AppendRecord, Gate, GateAt
      <4> QED
        BY <4>2, <4>3 DEF ControlTypes
    <3> QED
      BY <3>1, <3>2
  <2>4. Spent'
    BY <1>1, <1>c, <2>1, <2>2 DEF AppendRecord, Spent
  <2>5. Served'
    <3>1. scheduled'[Target] = (scheduled[Target] \/ pc[Target] = "idle")
      BY <1>1, <2>1 DEF AppendRecord, ControlTypes
    <3> QED
      BY <1>1, <1>c, <2>1, <2>2, <3>1 DEF AppendRecord, Served
  <2> QED
    BY <2>1, <2>3, <2>4, <2>5 DEF HandoffOrder
<1>2. CASE Flush
  <2>1. cur \in Gens /\ FlushState(cur, Elems(pending[cur]))
    BY <1>2 DEF Flush, ControlTypes
  <2>2. Chain'
    <3>1. UNCHANGED <<cur, made, prev, retired, settled, refs>>
      BY <1>2 DEF Flush
    <3>2. \A g \in Gens : refs[g] = 0 \/ g <= made
      BY <1>c DEF Chain, ControlTypes
    <3> QED
      BY <1>c, <3>1, <3>2, ChainKept
  <2>3. Gate'
    <3> SUFFICES ASSUME NEW g \in Gens
                 PROVE  GateAt(g)'
      BY DEF Gate
    <3>1. Ready(g)' = Ready(g)
      BY <1>2 DEF Flush, Ready
    <3>2. CASE g # cur
      BY <1>2, <1>c, <2>1, <3>1, <3>2, FlushStateEffect DEF Flush, Gate, GateAt
    <3>3. CASE g = cur
      <4>1. UNCHANGED <<made, pending, batch, failed, scheduled, settled, retired, err>>
        BY <1>2 DEF Flush
      <4>2. /\ pc[g] # "idle" => pc'[g] = pc[g]
            /\ pc[g] = "idle" => pc'[g] \in {"idle", "ready"}
        BY <2>1, <3>3, FlushStateEffect DEF ControlTypes
      <4>3. GateAt(g) /\ ~(g > made)
        BY <1>c, <2>1, <3>3 DEF Gate, Chain, ControlTypes
      <4> QED
        BY <3>1, <4>1, <4>2, <4>3 DEF GateAt
    <3> QED
      BY <3>2, <3>3
  <2>4. Spent'
    BY <1>2, <1>c, <2>1, FlushStateEffect DEF Flush, Spent
  <2>5. Served'
    BY <1>2, <1>c, <2>1, FlushStateEffect DEF Flush, Served
  <2> QED
    BY <2>2, <2>3, <2>4, <2>5 DEF HandoffOrder
<1>3. CASE Read
  <2>1. /\ Chain' /\ \A g \in Gens : g <= made => Ready(g)' = Ready(g)
        /\ made <= made' /\ Target <= made' /\ Target \in Gens
        /\ ~retired[Target] /\ ~settled[Target]
    BY <1>3, <1>c, StateChain DEF Read
  <2>2. made' \in 0..MaxGens /\ UNCHANGED <<pending, scheduled, failed, retired, settled, batch, err>>
    BY <1>3, StateTypes DEF Read
  <2>3. FlushState(Target, Elems(pending[Target]))
    BY <1>3 DEF Read
  <2>4. Gate'
    <3> SUFFICES ASSUME NEW g \in Gens
                 PROVE  GateAt(g)'
      BY DEF Gate
    <3>1. CASE g # Target
      BY <1>c, <2>1, <2>2, <2>3, <3>1, FlushStateEffect, GateKept DEF Gate
    <3>2. CASE g = Target
      <4>1. ~(g > made') /\ ~retired'[g] /\ ~settled'[g]
        BY <2>1, <2>2, <3>2
      <4>2. CASE g > made
        BY <1>c, <2>1, <2>2, <2>3, <3>2, <4>1, <4>2, FlushStateEffect DEF Gate, GateAt
      <4>3. CASE g <= made
        BY <1>c, <2>1, <2>2, <2>3, <3>2, <4>1, <4>3, FlushStateEffect DEF Gate, GateAt
      <4> QED
        BY <4>2, <4>3 DEF ControlTypes
    <3> QED
      BY <3>1, <3>2
  <2>5. Spent'
    <3>1. \A g \in Gens \ {Target} : pc'[g] = pc[g] /\ rewrites'[g] = rewrites[g]
      BY <2>1, <2>3, FlushStateEffect
    <3> QED
      BY <1>c, <2>1, <2>2, <3>1 DEF Spent
  <2>6. Served'
    BY <1>c, <2>1, <2>2, <2>3, FlushStateEffect DEF Served
  <2> QED
    BY <2>1, <2>4, <2>5, <2>6 DEF HandoffOrder
<1>4. CASE Acquire
  <2>1. /\ Chain' /\ \A g \in Gens : g <= made => Ready(g)' = Ready(g)
        /\ made <= made'
    <3>1. Target \in Gens
      BY <1>4, StateTypes DEF Acquire
    <3>2. \A g \in Gens : g # Target => refs'[g] = refs[g]
      BY <1>4, <3>1 DEF Acquire, ControlTypes
    <3> QED
      BY <1>4, <1>c, <3>2, StateChain DEF Acquire
  <2>2. /\ made' \in 0..MaxGens
        /\ UNCHANGED <<pending, scheduled, failed, retired, settled, batch, err, pc, rewrites>>
    BY <1>4, StateTypes DEF Acquire
  <2>3. Gate'
    BY <1>c, <2>1, <2>2, GateKept DEF Gate
  <2>4. Spent' /\ Served'
    BY <1>c, <2>2 DEF Spent, Served
  <2> QED
    BY <2>1, <2>3, <2>4 DEF HandoffOrder
<1>5. ASSUME NEW recs \in Compacted(Target), Rewrite(recs)
      PROVE  HandoffOrder'
  <2>1. /\ Chain' /\ \A g \in Gens : g <= made => Ready(g)' = Ready(g)
        /\ made <= made' /\ Target <= made' /\ Target \in Gens
        /\ ~retired[Target] /\ ~settled[Target]
    BY <1>5, <1>c, StateChain DEF Rewrite
  <2>2. made' \in 0..MaxGens /\ UNCHANGED <<pending, scheduled, failed, retired, settled, err>>
    BY <1>5, StateTypes DEF Rewrite
  <2>3. \/ /\ pc[Target] = "idle" /\ pc' = [pc EXCEPT ![Target] = "wait"]
           /\ batch' = [batch EXCEPT ![Target] = recs] /\ rewrites' = rewrites
        \/ /\ pc[Target] # "idle" /\ UNCHANGED <<pc, batch>>
           /\ rewrites' = [rewrites EXCEPT ![Target] = Append(@, [recs |-> recs, mark |-> {}])]
    BY <1>5 DEF Rewrite
  <2>4. /\ \A g \in Gens \ {Target} :
             pc'[g] = pc[g] /\ batch'[g] = batch[g] /\ rewrites'[g] = rewrites[g]
        /\ pc[Target] = "idle" => pc'[Target] = "wait" /\ rewrites'[Target] = rewrites[Target]
        /\ pc[Target] # "idle" => pc'[Target] = pc[Target] /\ batch'[Target] = batch[Target]
    BY <2>1, <2>3 DEF ControlTypes, DataTypes
  <2>5. Gate'
    <3> SUFFICES ASSUME NEW g \in Gens
                 PROVE  GateAt(g)'
      BY DEF Gate
    <3>1. CASE g # Target
      BY <1>c, <2>1, <2>2, <2>4, <3>1, GateKept DEF Gate
    <3>2. CASE g = Target
      <4>1. ~(g > made') /\ ~retired'[g] /\ ~settled'[g]
        BY <2>1, <2>2, <3>2
      <4>2. CASE g > made
        BY <1>c, <2>1, <2>2, <2>4, <3>2, <4>1, <4>2 DEF Gate, GateAt
      <4>3. CASE g <= made
        BY <1>c, <2>1, <2>2, <2>4, <3>2, <4>1, <4>3 DEF Gate, GateAt
      <4> QED
        BY <4>2, <4>3 DEF ControlTypes
    <3> QED
      BY <3>1, <3>2
  <2>6. Spent'
    BY <1>c, <2>1, <2>2, <2>4 DEF Spent
  <2>7. Served'
    BY <1>c, <2>1, <2>2, <2>4 DEF Served
  <2> QED
    BY <2>1, <2>5, <2>6, <2>7 DEF HandoffOrder
<1>6. ASSUME NEW g \in Gens, Release(g)
      PROVE  HandoffOrder'
  <2>1. g <= made
    BY <1>6, <1>c DEF Release, Held, Chain, ControlTypes
  <2>2. UNCHANGED <<cur, made, prev, settled, pending, scheduled, failed, batch, err>>
    BY <1>6 DEF Release
  <2>3. \A h \in Gens \ {g} : refs'[h] = refs[h] /\ retired'[h] = retired[h]
    BY <1>6 DEF Release, ControlTypes
  <2>4. \A h \in Gens : Ready(h)' = Ready(h)
    BY <2>2 DEF Ready
  <2>5. \A h \in Gens \ {g} : pc'[h] = pc[h] /\ rewrites'[h] = rewrites[h]
    BY <1>6, FlushStateEffect DEF Release
  <2>6. \/ retired'[g] = retired[g] /\ UNCHANGED <<pc, rewrites>>
        \/ /\ retired'[g] 
           /\ pc[g] # "idle" => pc'[g] = pc[g]
           /\ pc[g] = "idle" /\ failed[g] => pc'[g] = "idle"
           /\ pc[g] = "idle" /\ ~failed[g] => pc'[g] = "ready"
           /\ rewrites[g] = <<>> => rewrites'[g] = <<>>
    BY <1>6, FlushStateEffect DEF Release, ControlTypes
  <2>7. Chain'
    <3>1. \A h \in Gens : retired[h] => retired'[h]
      BY <2>3, <2>6
    <3> QED
      BY <1>c, <2>1, <2>2, <2>3, <2>4, <3>1 DEF Chain, ControlTypes
  <2>8. Gate'
    <3> SUFFICES ASSUME NEW h \in Gens
                 PROVE  GateAt(h)'
      BY DEF Gate
    <3>1. CASE h # g
      BY <1>c, <2>2, <2>3, <2>4, <2>5, <3>1 DEF Gate, GateAt
    <3>2. CASE h = g
      BY <1>c, <2>1, <2>2, <2>4, <2>6, <3>2, SMTT(60) DEF Gate, GateAt, ControlTypes
    <3> QED
      BY <3>1, <3>2
  <2>9. Spent' /\ Served'
    BY <1>c, <2>2, <2>3, <2>5, <2>6 DEF Spent, Served
  <2> QED
    BY <2>7, <2>8, <2>9 DEF HandoffOrder
<1>7. ASSUME NEW g \in Gens, Continue(g)
      PROVE  HandoffOrder'
  <2>a. ASSUME UNCHANGED <<cur, made, prev, retired, settled, refs>>
        PROVE  Chain' /\ \A h \in Gens : Ready(h)' = Ready(h)
    BY <1>c, <2>a, ChainKept DEF Chain, ControlTypes, Ready
  <2>b. pc[g] # "idle" \/ scheduled[g] \/ retired[g]
    BY <1>7 DEF Continue, RunScheduledFlush, Settle, DrainBegin, DrainAppended, DrainFailed,
         RewriteBegin, RewriteWritten, RewriteFailed, FinishOwned
  <2>c. g <= made
    <3>1. g > made => pc[g] = "idle" /\ ~scheduled[g] /\ ~retired[g]
      BY <1>c DEF Gate, GateAt, Chain
    <3>2. g \in Nat /\ made \in Nat
      BY DEF ControlTypes
    <3> QED
      BY <2>b, <3>1, <3>2
  <2>1. CASE RunScheduledFlush(g)
    <3>1. UNCHANGED <<cur, made, prev, retired, settled, refs, pending, failed, batch, err>>
      BY <2>1 DEF RunScheduledFlush
    <3>2. \A h \in Gens \ {g} : /\ scheduled'[h] = scheduled[h]
                                /\ pc'[h] = pc[h] /\ rewrites'[h] = rewrites[h]
      BY <2>1, FlushStateEffect DEF RunScheduledFlush, ControlTypes
    <3>3. FlushState(g, {})
      BY <2>1 DEF RunScheduledFlush
    <3>4. Gate'
      <4> SUFFICES ASSUME NEW h \in Gens
                   PROVE  GateAt(h)'
        BY DEF Gate
      <4>1. Ready(h)' = Ready(h) /\ GateAt(h)
        BY <1>c, <2>a, <3>1 DEF Gate
      <4>2. CASE h # g
        BY <3>1, <3>2, <4>1, <4>2 DEF GateAt
      <4>3. CASE h = g
        <5>1. ~(h > made')
          BY <2>c, <3>1, <4>3 DEF ControlTypes
        <5>2. /\ pc[h] # "idle" => pc'[h] = pc[h]
              /\ pc[h] = "idle" /\ failed[h] => pc'[h] = "idle"
              /\ pc[h] = "idle" /\ ~failed[h] => pc'[h] = "ready"
          BY <3>3, <4>3, FlushStateEffect
        <5> QED
          BY <3>1, <4>1, <5>1, <5>2 DEF GateAt
      <4> QED
        BY <4>2, <4>3
    <3>5. Spent' /\ Served'
      BY <1>c, <3>1, <3>2, <3>3, FlushStateEffect DEF Spent, Served
    <3> QED
      BY <2>a, <3>1, <3>4, <3>5 DEF HandoffOrder
  <2>2. CASE Settle(g)
    <3>1. /\ UNCHANGED <<made, prev, retired, refs, pending, scheduled, failed, pc, batch, err, rewrites>>
          /\ cur' = (IF cur = g THEN 0 ELSE cur) /\ settled' = [settled EXCEPT ![g] = TRUE]
          /\ retired[g] /\ pc[g] = "idle"
      BY <2>2 DEF Settle
    <3>2. settled'[g] /\ \A h \in Gens \ {g} : settled'[h] = settled[h]
      BY <3>1 DEF ControlTypes
    <3>3. \A h \in Gens : Ready(h) => Ready(h)'
      BY <3>1, <3>2 DEF Ready
    <3>4. \A h \in 1..g : settled'[h]
      BY <1>c, <2>c, <3>1, <3>2 DEF Chain, Gate, GateAt, ControlTypes
    <3>5. \A h \in Gens : Ready(h)' /\ ~Ready(h) => prev[h] = g
      <4>1. \A h \in Gens : prev[h] = 0 \/ prev[h] \in Gens
        BY DEF ControlTypes
      <4>2. prev' = prev
        BY <3>1
      <4> QED
        BY <3>2, <4>1, <4>2 DEF Ready
    <3>6. Chain'
      <4>1. \A h \in Gens : h <= made /\ Ready(h)' => \A i \in 1..(h - 1) : settled'[i]
        <5> SUFFICES ASSUME NEW h \in Gens, h <= made, Ready(h)'
                     PROVE  \A i \in 1..(h - 1) : settled'[i]
          OBVIOUS
        <5>1. CASE Ready(h)
          <6>1. \A i \in 1..(h - 1) : settled[i]
            BY <1>c, <5>1 DEF Chain
          <6> QED
            BY <3>2, <6>1
        <5>2. CASE ~Ready(h)
          <6>1. prev[h] = g
            BY <3>5, <5>2
          <6>2. g + 1 = h
            BY <1>c, <6>1 DEF Chain
          <6> QED
            BY <3>4, <6>2
        <5> QED
          BY <5>1, <5>2
      <4>2. cur' = 0 => \A h \in 1..made : settled'[h]
        <5>1. cur = g => g = made
          BY <1>c DEF Chain
        <5>2. cur = 0 => \A h \in 1..made : settled[h]
          BY <1>c DEF Chain
        <5>3. 1..made \subseteq Gens
          BY DEF ControlTypes
        <5>4. CASE cur = 0
          BY <3>2, <5>2, <5>3, <5>4
        <5>5. CASE cur = g
          BY <3>4, <5>1, <5>5
        <5> QED
          BY <3>1, <5>4, <5>5
      <4> QED
        BY <1>c, <3>1, <4>1, <4>2 DEF Chain
    <3>7. Gate'
      BY <1>c, <3>1, <3>2, <3>3 DEF Gate, GateAt
    <3>8. Spent' /\ Served'
      BY <1>c, <3>1, <3>2 DEF Gate, GateAt, Spent, Served
    <3> QED
      BY <3>6, <3>7, <3>8 DEF HandoffOrder
  <2>3. CASE DrainBegin(g)
    <3>1. /\ UNCHANGED <<cur, made, prev, retired, settled, refs, pending, scheduled, failed, err, rewrites>>
          /\ pc[g] = "ready" /\ Ready(g)
      BY <2>3 DEF DrainBegin
    <3>2. /\ \A h \in Gens \ {g} : pc'[h] = pc[h] /\ batch'[h] = batch[h]
          /\ \/ pc'[g] = "finish"
             \/ pc'[g] = "append" /\ pending[g] # <<>> /\ batch'[g] = pending[g]
      BY <2>3 DEF DrainBegin, ControlTypes, DataTypes
    <3>3. Gate'
      BY <1>c, <2>a, <2>c, <3>1, <3>2 DEF Gate, GateAt, ControlTypes
    <3>4. Spent' /\ Served'
      BY <1>c, <3>1, <3>2 DEF Spent, Served
    <3> QED
      BY <2>a, <3>1, <3>3, <3>4 DEF HandoffOrder
  <2>4. CASE DrainAppended(g)
    <3>1. /\ UNCHANGED <<cur, made, prev, retired, settled, refs, scheduled, failed, err, rewrites>>
          /\ pc[g] = "append"
      BY <2>4 DEF DrainAppended
    <3>2. \A h \in Gens \ {g} : pc'[h] = pc[h] /\ batch'[h] = batch[h] /\ pending'[h] = pending[h]
      BY <2>4 DEF DrainAppended, ControlTypes, DataTypes
    <3>3. \/ pc'[g] = "finish"
          \/ pc'[g] = "append" /\ batch'[g] # <<>>
      BY <2>4 DEF DrainAppended, ControlTypes, DataTypes
    <3>4. Gate'
      BY <1>c, <2>a, <2>c, <3>1, <3>2, <3>3 DEF Gate, GateAt, ControlTypes
    <3>5. Spent' /\ Served'
      BY <1>c, <3>1, <3>2, <3>3 DEF Spent, Served
    <3> QED
      BY <2>a, <3>1, <3>4, <3>5 DEF HandoffOrder
  <2>5. CASE DrainFailed(g) \/ RewriteFailed(g)
    <3>1. /\ UNCHANGED <<cur, made, prev, retired, settled, refs, pending, scheduled, batch, rewrites>>
          /\ pc[g] \in {"append", "write"}
      BY <2>5 DEF DrainFailed, RewriteFailed
    <3>2. /\ \A h \in Gens \ {g} : pc'[h] = pc[h] /\ failed'[h] = failed[h] /\ err'[h] = err[h]
          /\ pc'[g] = "finish" /\ failed'[g] /\ err'[g]
      BY <2>5 DEF DrainFailed, RewriteFailed, Sticky, ControlTypes
    <3>3. Gate'
      BY <1>c, <2>a, <2>c, <3>1, <3>2 DEF Gate, GateAt, ControlTypes
    <3>4. Spent' /\ Served'
      BY <1>c, <3>1, <3>2 DEF Spent, Served
    <3> QED
      BY <2>a, <3>1, <3>3, <3>4 DEF HandoffOrder
  <2>6. CASE RewriteBegin(g) \/ RewriteWritten(g)
    <3>1. /\ UNCHANGED <<cur, made, prev, retired, settled, refs, pending, scheduled, batch, err, rewrites>>
          /\ pc[g] \in {"wait", "write"} /\ Ready(g)
      BY <1>c, <2>6 DEF RewriteBegin, RewriteWritten, Gate, GateAt
    <3>2. /\ \A h \in Gens \ {g} : pc'[h] = pc[h] /\ failed'[h] = failed[h]
          /\ pc'[g] \in {"write", "finish"}
          /\ failed'[g] => failed[g]
      BY <2>6 DEF RewriteBegin, RewriteWritten, ControlTypes
    <3>3. Gate'
      BY <1>c, <2>a, <2>c, <3>1, <3>2 DEF Gate, GateAt, ControlTypes
    <3>4. Spent' /\ Served'
      BY <1>c, <3>1, <3>2 DEF Spent, Served
    <3> QED
      BY <2>a, <3>1, <3>3, <3>4 DEF HandoffOrder
  <2>7. CASE FinishOwned(g)
    <3>1. /\ UNCHANGED <<cur, made, prev, retired, settled, refs, pending, scheduled, failed>>
          /\ pc[g] = "finish"
      BY <2>7 DEF FinishOwned
    <3>2. \A h \in Gens \ {g} : /\ pc'[h] = pc[h] /\ batch'[h] = batch[h]
                                /\ err'[h] = err[h] /\ rewrites'[h] = rewrites[h]
      BY <2>7 DEF FinishOwned, ControlTypes, DataTypes
    <3>3. \/ pc'[g] = "ready" /\ ~err'[g] /\ rewrites'[g] = rewrites[g] /\ pending[g] # <<>>
               /\ (settled[g] => failed[g])
          \/ /\ pc'[g] = "idle" /\ ~err'[g] /\ rewrites'[g] = <<>>
             /\ pending[g] = <<>> \/ failed[g]
          \/ pc'[g] = "wait" /\ ~err'[g] /\ rewrites[g] # <<>>
      BY <1>c, <2>7 DEF FinishOwned, GoesOn, Gate, GateAt, Spent, ControlTypes, DataTypes
    <3>4. Gate'
      BY <1>c, <2>a, <2>c, <3>1, <3>2, <3>3 DEF Gate, GateAt, ControlTypes
    <3>5. Spent' /\ Served'
      BY <1>c, <3>1, <3>2, <3>3 DEF Spent, Served
    <3> QED
      BY <2>a, <3>1, <3>4, <3>5 DEF HandoffOrder
  <2> QED
    BY <1>7, <2>1, <2>2, <2>3, <2>4, <2>5, <2>6, <2>7 DEF Continue
<1>8. CASE Crash
  <2>1. /\ cur' = 0 /\ made' = 0
        /\ \A g \in Gens : /\ pending'[g] = <<>> /\ ~scheduled'[g] /\ ~failed'[g] /\ refs'[g] = 0
                           /\ ~retired'[g] /\ ~settled'[g] /\ prev'[g] = 0
                           /\ pc'[g] = "idle" /\ ~err'[g] /\ rewrites'[g] = <<>>
    BY <1>8 DEF Crash, Empty
  <2> QED
    BY <2>1 DEF HandoffOrder, Chain, Gate, GateAt, Spent, Served, Ready
<1>9. CASE UNCHANGED vars
  BY <1>9 DEF vars, HandoffOrder, Chain, Gate, GateAt, Spent, Served, Ready
<1> QED
  BY <1>1, <1>2, <1>3, <1>4, <1>5, <1>6, <1>7, <1>8, <1>9 DEF Next

\* Everything the induction needs at once.
Inv == ControlTypes /\ DataTypes /\ HandoffOrder

\* The inductive invariant of the store: types and hand-over order together.
THEOREM Invariance == Spec => []Inv
<1>1. Init => Inv
  BY ControlInit, DataInit, HandoffInit DEF Inv
<1>2. Inv /\ [Next]_vars => Inv'
  BY ControlStep, DataStep, HandoffStep DEF Inv, HandoffOrder
<1> QED
  BY <1>1, <1>2, PTL DEF Spec

\* The store's state is always well typed: no reference count of release() drops
\* below zero, and what drain() and rewrite() write are sequences of records.
THEOREM TypeCorrect == Spec => []TypeOK
<1>1. Inv => TypeOK
  BY DEF Inv, TypeOK
<1> QED
  BY <1>1, Invariance, PTL

\* A replacement buffer made by state() waits for the one it replaces, and a
\* settled buffer never writes again, for any number of generations.
THEOREM HandoffOrdered == Spec => []HandoffOrder
<1>1. Inv => HandoffOrder
  BY DEF Inv
<1> QED
  BY <1>1, Invariance, PTL

\* Two generations in storage at once would both be ready, so that the older one
\* has settled, and a settled one is not in storage.
LEMMA Exclusion == ControlTypes /\ HandoffOrder => OneStorageOperation
<1> SUFFICES ASSUME ControlTypes, HandoffOrder, NEW g \in Gens, NEW h \in Gens,
                    InStorage(g), InStorage(h), g < h
             PROVE  FALSE
  BY DEF OneStorageOperation
<1>1. Ready(h) /\ h <= made
  <2>1. GateAt(h)
    BY DEF HandoffOrder, Gate
  <2>2. Ready(h) /\ ~(h > made)
    BY <2>1 DEF InStorage, GateAt
  <2> QED
    BY <2>2 DEF ControlTypes
<1>2. settled[g]
  BY <1>1 DEF HandoffOrder, Chain
<1> QED
  BY <1>2 DEF InStorage, HandoffOrder, Spent

\* At most one storage operation of drain() or rewrite() is in flight for a key,
\* over any number of hand-overs, rewrites, failures and crashes.
THEOREM StorageExclusive == Spec => []OneStorageOperation
<1>1. Inv => OneStorageOperation
  BY Exclusion DEF Inv
<1> QED
  BY <1>1, Invariance, PTL

-----------------------------------------------------------------------------
USE MarkerAssumption

\* Two sets of records, all of the one before all of the other.
Before(A, B) == \A a \in A, b \in B : a < b

Ascends(s) == \A i, j \in DOMAIN s : i < j => s[i] < s[j]

\* The records among the lines of s ascend.
Rising(s) ==
  \A i, j \in DOMAIN s : i < j /\ s[i] # Corrupt /\ s[j] # Corrupt => s[i] < s[j]

\* The records of a file ascend, its last one in the tail if that parses.
FileOrdered(f) ==
  /\ Rising(f.lines)
  /\ f.tail \notin {Torn, NoTail} => Before(Elems(f.lines) \ {Corrupt}, {f.tail})


\* Lines written after lines that hold smaller records only.
LEMMA RisingConcat ==
  ASSUME NEW T, NEW s \in Seq(T), NEW t \in Seq(T), Rising(s), Rising(t),
         Before(Elems(s) \ {Corrupt}, Elems(t) \ {Corrupt})
  PROVE  Rising(s \o t)
<1>1. PICK m \in Nat, n \in Nat : m = Len(s) /\ n = Len(t)
  OBVIOUS
<1>2. PICK u : u = s \o t
  OBVIOUS
<1>3. /\ DOMAIN s = 1..m /\ DOMAIN t = 1..n /\ DOMAIN u = 1..(m + n)
      /\ \A i \in 1..m : u[i] = s[i]
      /\ \A i \in (m + 1)..(m + n) : u[i] = t[i - m] /\ i - m \in 1..n
      /\ \A i \in 1..n : u[m + i] = t[i] /\ m + i \in 1..(m + n)
  BY <1>1, <1>2
<1>4. \A i \in 1..(m + n) : i \in 1..m \/ i \in (m + 1)..(m + n)
  OBVIOUS
<1>5. Rising(u)
  <2> SUFFICES ASSUME NEW i \in 1..(m + n), NEW j \in 1..(m + n), i < j,
                      u[i] # Corrupt, u[j] # Corrupt
               PROVE  u[i] < u[j]
    BY <1>3 DEF Rising
  <2>1. CASE j \in 1..m
    <3>1. i \in 1..m
      BY <2>1
    <3> QED
      BY <1>3, <2>1, <3>1 DEF Rising
  <2>2. CASE i \in (m + 1)..(m + n)
    <3>1. j \in (m + 1)..(m + n)
      BY <2>2
    <3>2. PICK a \in 1..n, b \in 1..n : a = i - m /\ b = j - m
      BY <1>3, <2>2, <3>1
    <3>3. a < b /\ u[i] = t[a] /\ u[j] = t[b]
      BY <1>3, <2>2, <3>1, <3>2
    <3> QED
      BY <1>3, <3>3 DEF Rising
  <2>3. CASE i \in 1..m /\ j \in (m + 1)..(m + n)
    BY <1>3, <2>3 DEF Before, Elems
  <2> QED
    BY <1>4, <2>1, <2>2, <2>3
<1> QED
  BY <1>2, <1>5

\* Records are no marker, and a sequence of them that ascends rises.
LEMMA RecordsRise ==
  ASSUME NEW recs \in Seq(Records), Ascends(recs)
  PROVE  /\ recs \in Seq(Records \cup {Corrupt}) /\ Rising(recs)
         /\ Elems(recs) \ {Corrupt} = Elems(recs)
<1>1. recs \in Seq(Records \cup {Corrupt}) /\ Rising(recs)
  BY DEF Ascends, Rising
<1>2. Elems(recs) \subseteq Records
  BY RangeTyped
<1>3. Corrupt \notin Records
  OBVIOUS
<1> QED
  BY <1>1, <1>2, <1>3

\* What storage.append leaves of f when it takes records larger than all of f's.
Extended(fn, f, recs) ==
  FileOrdered(fn) /\ RecordsOf(fn) \subseteq RecordsOf(f) \cup Elems(recs)

\* The whole append.
LEMMA AppendExtends ==
  ASSUME NEW f \in FileState, NEW recs \in Seq(Records), recs # <<>>,
         FileOrdered(f), Ascends(recs), Before(RecordsOf(f), Elems(recs))
  PROVE  Extended(FileAppend(f, recs), f, recs) /\ FileAppend(f, recs).tail = NoTail
<1>0. /\ f.lines \in Seq(Records \cup {Corrupt}) /\ Rising(f.lines)
      /\ recs \in Seq(Records \cup {Corrupt}) /\ Rising(recs)
      /\ Elems(recs) \ {Corrupt} = Elems(recs)
  BY RecordsRise DEF FileState, FileOrdered
<1>1. PICK t : t = IF f.tail = NoTail THEN recs ELSE <<Corrupt>> \o Tail(recs)
  OBVIOUS
<1>2. t \in Seq(Records \cup {Corrupt}) /\ Rising(t) /\ Elems(t) \ {Corrupt} \subseteq Elems(recs)
  <2>1. CASE f.tail = NoTail
    BY <1>0, <1>1, <2>1
  <2>2. CASE f.tail # NoTail
    <3>1. PICK n \in Nat : n = Len(recs) /\ n > 0
      OBVIOUS
    <3>2. t = <<Corrupt>> \o Tail(recs) /\ t \in Seq(Records \cup {Corrupt})
      <4>1. Tail(recs) \in Seq(Records \cup {Corrupt}) /\ <<Corrupt>> \in Seq(Records \cup {Corrupt})
        BY <1>0
      <4> QED
        BY <1>1, <2>2, <4>1
    <3>3. Len(t) = n /\ t[1] = Corrupt /\ \A i \in 2..n : t[i] = recs[i]
      BY <3>1, <3>2
    <3>4. DOMAIN t = 1..n /\ DOMAIN recs = 1..n
      BY <3>1, <3>2, <3>3
    <3>5. \A i \in 1..n : t[i] = Corrupt \/ (t[i] = recs[i] /\ recs[i] # Corrupt)
      BY <3>1, <3>3, <3>4
    <3>6. Rising(t)
      BY <1>0, <3>4, <3>5 DEF Rising
    <3>7. Elems(t) \ {Corrupt} \subseteq Elems(recs)
      BY <3>4, <3>5 DEF Elems
    <3> QED
      BY <3>2, <3>6, <3>7
  <2> QED
    BY <2>1, <2>2
<1>3. Before(Elems(f.lines) \ {Corrupt}, Elems(t) \ {Corrupt})
  BY <1>2 DEF Before, RecordsOf
<1>4. Rising(f.lines \o t) /\ Elems(f.lines \o t) = Elems(f.lines) \cup Elems(t)
  <2>1. PICK s : s = f.lines
    OBVIOUS
  <2>4. PICK T : T = Records \cup {Corrupt}
    OBVIOUS
  <2>2. s \in Seq(T)
    BY <1>0, <2>1, <2>4
  <2>3. t \in Seq(T)
    BY <1>2, <2>4
  <2>5. Rising(s)
    BY <1>0, <2>1
  <2>6. Rising(t)
    BY <1>2
  <2>7. Before(Elems(s) \ {Corrupt}, Elems(t) \ {Corrupt})
    BY <1>3, <2>1
  <2>8. Rising(s \o t)
    BY <2>2, <2>3, <2>5, <2>6, <2>7, RisingConcat, Zenon
  <2>9. Elems(s \o t) = Elems(s) \cup Elems(t)
    BY <2>2, <2>3, ConcatElems
  <2> QED
    BY <2>1, <2>8, <2>9
<1>5. FileAppend(f, recs).lines = f.lines \o t /\ FileAppend(f, recs).tail = NoTail
  BY <1>1 DEF FileAppend
<1>6. RecordsOf(FileAppend(f, recs)) = Elems(f.lines \o t) \ {Corrupt}
  BY <1>5 DEF RecordsOf
<1> QED
  BY <1>2, <1>4, <1>5, <1>6 DEF Extended, FileOrdered, RecordsOf

\* The first k records of an ascending sequence, and the one after them.
LEMMA PrefixFacts ==
  ASSUME NEW recs \in Seq(Records), Ascends(recs), NEW k \in 0..Len(recs)
  PROVE  LET p == SubSeq(recs, 1, k) IN
         /\ p \in Seq(Records) /\ Ascends(p) /\ Elems(p) \subseteq Elems(recs) /\ Len(p) = k
         /\ k < Len(recs) => recs[k + 1] \in Elems(recs) /\ Before(Elems(p), {recs[k + 1]})
<1>1. PICK p : p = SubSeq(recs, 1, k)
  OBVIOUS
<1>2. /\ p \in Seq(Records) /\ DOMAIN p = 1..k /\ Len(p) = k /\ DOMAIN recs = 1..Len(recs)
      /\ \A i \in 1..k : p[i] = recs[i] /\ i \in 1..Len(recs)
      /\ Len(recs) \in Nat
  BY <1>1
<1>3. Ascends(p)
  BY <1>2 DEF Ascends
<1>4. Elems(p) \subseteq Elems(recs)
  BY <1>2 DEF Elems
<1>5. k < Len(recs) => recs[k + 1] \in Elems(recs) /\ Before(Elems(p), {recs[k + 1]})
  <2> SUFFICES ASSUME k < Len(recs)
               PROVE  recs[k + 1] \in Elems(recs) /\ \A i \in 1..k : recs[i] < recs[k + 1]
    BY <1>2 DEF Elems, Before
  <2>1. k + 1 \in 1..Len(recs) /\ \A i \in 1..k : i < k + 1 /\ i \in 1..Len(recs)
    BY <1>2
  <2> QED
    BY <1>2, <2>1 DEF Ascends, Elems
<1> QED
  BY <1>1, <1>2, <1>3, <1>4, <1>5

\* An append that got as far as its first k records.
LEMMA PrefixExtends ==
  ASSUME NEW f \in FileState, NEW recs \in Seq(Records),
         FileOrdered(f), Ascends(recs), Before(RecordsOf(f), Elems(recs)),
         NEW k \in 0..Len(recs)
  PROVE  Extended(FilePrefix(f, recs, k), f, SubSeq(recs, 1, k))
<1>1. CASE k = 0
  BY <1>1 DEF FilePrefix, Extended
<1>2. CASE k # 0
  <2>1. PICK p : p = SubSeq(recs, 1, k)
    OBVIOUS
  <2>2. p \in Seq(Records) /\ Ascends(p) /\ Elems(p) \subseteq Elems(recs) /\ Len(p) = k
    BY <2>1, PrefixFacts
  <2>3. p # <<>> /\ Before(RecordsOf(f), Elems(p))
    BY <1>2, <2>2 DEF Before
  <2>4. FilePrefix(f, recs, k) = FileAppend(f, p)
    BY <1>2, <2>1 DEF FilePrefix
  <2> QED
    BY <2>1, <2>2, <2>3, <2>4, AppendExtends
<1> QED
  BY <1>1, <1>2

\* Part of one more line, whose record is larger than all of the file's.
LEMMA TornExtends ==
  ASSUME NEW f \in FileState, FileOrdered(f), NEW r \in Records, Before(RecordsOf(f), {r}),
         NEW fn \in TornLine(f, r)
  PROVE  FileOrdered(fn) /\ RecordsOf(fn) \subseteq RecordsOf(f) \cup {r}
<1>1. fn.lines = f.lines /\ (fn.tail = Torn \/ (f.tail = NoTail /\ fn.tail = r))
  BY DEF TornLine, FileState
<1> QED
  BY <1>1 DEF FileOrdered, RecordsOf, Before

\* Whatever an append that rejected or crashed left behind.
LEMMA InterruptedExtends ==
  ASSUME NEW f \in FileState, NEW recs \in Seq(Records),
         FileOrdered(f), Ascends(recs), Before(RecordsOf(f), Elems(recs)),
         NEW fn \in Interrupted(f, recs)
  PROVE  Extended(fn, f, recs)
<1>1. ASSUME NEW k \in 0..Len(recs), fn = FilePrefix(f, recs, k)
      PROVE  Extended(fn, f, recs)
  BY <1>1, PrefixExtends, PrefixFacts DEF Extended
<1>2. ASSUME NEW k \in 0..(Len(recs) - 1), fn \in TornLine(FilePrefix(f, recs, k), recs[k + 1])
      PROVE  Extended(fn, f, recs)
  <2>1. PICK p : p = SubSeq(recs, 1, k)
    OBVIOUS
  <2>2. PICK b : b = FilePrefix(f, recs, k)
    OBVIOUS
  <2>3. k \in 0..Len(recs) /\ k < Len(recs) /\ recs[k + 1] \in Records
    OBVIOUS
  <2>4. /\ Elems(p) \subseteq Elems(recs) /\ recs[k + 1] \in Elems(recs)
        /\ Before(Elems(p), {recs[k + 1]})
    BY <2>1, <2>3, PrefixFacts
  <2>5. b \in FileState /\ FileOrdered(b) /\ RecordsOf(b) \subseteq RecordsOf(f) \cup Elems(p)
    BY <2>1, <2>2, <2>3, PrefixTyped, PrefixExtends DEF Extended
  <2>6. Before(RecordsOf(b), {recs[k + 1]})
    BY <2>4, <2>5 DEF Before
  <2>7. FileOrdered(fn) /\ RecordsOf(fn) \subseteq RecordsOf(b) \cup {recs[k + 1]}
    BY <1>2, <2>2, <2>3, <2>5, <2>6, TornExtends
  <2> QED
    BY <2>4, <2>5, <2>7 DEF Extended
<1> QED
  BY <1>1, <1>2 DEF Interrupted

\* A rewrite leaves its records and nothing else.
LEMMA ReplacedOrdered ==
  ASSUME NEW recs \in Seq(Records), Ascends(recs)
  PROVE  FileOrdered(Replaced(recs)) /\ RecordsOf(Replaced(recs)) = Elems(recs)
<1>1. Replaced(recs).lines = recs /\ Replaced(recs).tail = NoTail
  BY DEF Replaced
<1> QED
  BY <1>1, RecordsRise DEF FileOrdered, RecordsOf

\* What read() yields of an ordered file: its records, ascending.
LEMMA DecodedFacts ==
  ASSUME file \in FileState, FileOrdered(file)
  PROVE  Decoded \in Seq(Records) /\ Ascends(Decoded) /\ Elems(Decoded) = InFile
<1>1. PICK w : w = Without(file.lines, {Corrupt})
  OBVIOUS
<1>2. file.lines \in Seq(Records \cup {Corrupt}) /\ file.tail \in Records \cup {Torn, NoTail}
  BY DEF FileState
<1>3. w \in Seq(Records \cup {Corrupt}) /\ Elems(w) = Elems(file.lines) \ {Corrupt}
  BY <1>1, <1>2, WithoutElems
<1>4. w \in Seq(Records)
  <2>1. \A i \in DOMAIN w : w[i] \in Records
    BY <1>3 DEF Elems
  <2> QED
    BY <1>3, <2>1
<1>5. Ascends(w)
  BY <1>1, <1>2, WithoutRises DEF Ascends, FileOrdered, Rising
<1>6. CASE file.tail \in {Torn, NoTail}
  <2>1. Decoded = w
    BY <1>1, <1>4, <1>6 DEF Decoded
  <2> QED
    BY <1>3, <1>4, <1>5, <1>6, <2>1 DEF InFile, RecordsOf
<1>7. CASE file.tail \notin {Torn, NoTail}
  <2>1. PICK t : t = <<file.tail>>
    OBVIOUS
  <2>2. Decoded = w \o t /\ t \in Seq(Records) /\ Len(t) = 1 /\ t[1] = file.tail
    BY <1>1, <1>2, <1>7, <2>1 DEF Decoded
  <2>3. Elems(t) = {file.tail} /\ Ascends(t)
    BY <2>2 DEF Elems, Ascends
  <2>4. Before(Elems(w), Elems(t))
    BY <1>3, <1>7, <2>3 DEF FileOrdered
  <2>5. Rising(w) /\ Rising(t)
    BY <1>5, <2>3 DEF Rising, Ascends
  <2>6. Rising(w \o t) /\ Elems(w \o t) = Elems(w) \cup Elems(t)
    <3>1. PICK T : T = Records
      OBVIOUS
    <3>2. w \in Seq(T)
      BY <1>4, <3>1
    <3>3. t \in Seq(T)
      BY <2>2, <3>1
    <3>4. Rising(w)
      BY <2>5
    <3>5. Rising(t)
      BY <2>5
    <3>6. Before(Elems(w) \ {Corrupt}, Elems(t) \ {Corrupt})
      BY <2>4 DEF Before
    <3>7. Rising(w \o t)
      BY <3>2, <3>3, <3>4, <3>5, <3>6, RisingConcat, Zenon
    <3>8. Elems(w \o t) = Elems(w) \cup Elems(t)
      BY <3>2, <3>3, ConcatElems
    <3> QED
      BY <3>7, <3>8
  <2>7. w \o t \in Seq(Records)
    BY <1>4, <2>2
  <2>8. Ascends(w \o t)
    <3>1. PICK u \in Seq(Records) : u = w \o t /\ Rising(u)
      BY <2>6, <2>7
    <3>2. \A i \in DOMAIN u : u[i] \in Records
      OBVIOUS
    <3>3. \A i \in DOMAIN u : u[i] # Corrupt
      BY <3>2
    <3> QED
      BY <3>1, <3>3 DEF Ascends, Rising
  <2> QED
    BY <1>3, <1>7, <2>2, <2>3, <2>6, <2>7, <2>8 DEF InFile, RecordsOf
<1> QED
  BY <1>6, <1>7

\* The compaction a caller passes to rewrite(): the file's records that are not
\* outstanding.
LEMMA CompactedFacts ==
  ASSUME file \in FileState, FileOrdered(file), NEW g \in Gens, NEW recs \in Compacted(g)
  PROVE  recs \in Seq(Records) /\ Ascends(recs) /\ Elems(recs) = InFile \ Elems(pending[g])
<1>1. PICK d : d = Decoded
  OBVIOUS
<1>2. d \in Seq(Records) /\ Ascends(d) /\ Elems(d) = InFile
  BY <1>1, DecodedFacts
<1>3. recs = Without(d, Elems(pending[g]))
  BY <1>1 DEF Compacted
<1>4. recs \in Seq(Records) /\ Elems(recs) = InFile \ Elems(pending[g])
  BY <1>2, <1>3, WithoutElems
<1>5. Ascends(recs)
  BY <1>2, <1>3, WithoutRises DEF Ascends
<1> QED
  BY <1>4, <1>5

-----------------------------------------------------------------------------
\* The buffers hold accepted records in append order, an older generation's before
\* a newer one's.
Buffers ==
  /\ \A g \in Gens : Ascends(pending[g]) /\ Elems(pending[g]) \subseteq 1..accepted
  /\ \A g \in Gens : g > made => pending[g] = <<>>
  /\ \A g, h \in Gens : g < h => Before(Elems(pending[g]), Elems(pending[h]))

\* The file is ordered, and what it holds comes before what is only buffered.
FileFits ==
  /\ FileOrdered(file) /\ InFile \subseteq 1..accepted
  /\ \A g \in Gens : ~settled[g] => Before(InFile \ Elems(pending[g]), Elems(pending[g]))

\* A generation that neither failed nor gives way to a rewrite has nothing in its
\* buffer that the file holds already.
CleanAt(g) ==
  ~settled[g] /\ ~failed[g] /\ pc[g] \notin {"wait", "write"} /\ rewrites[g] = <<>> =>
    InFile \cap Elems(pending[g]) = {}

\* What storage.append is writing is the head of the buffer, and newer than the file.
Heads(b, p) == Len(b) <= Len(p) /\ \A i \in 1..Len(b) : b[i] = p[i]
AppendAt(g) ==
  pc[g] = "append" => Heads(batch[g], pending[g]) /\ Before(InFile, Elems(batch[g]))

\* Records that may replace the file when it is g's turn: older than all that is
\* buffered from g on.
Replacement(recs, g) ==
  /\ Ascends(recs) /\ Elems(recs) \subseteq 1..accepted
  /\ \A h \in Gens : h >= g => Before(Elems(recs), Elems(pending[h]))
QueuedRecs(g) == {rewrites[g][i].recs : i \in DOMAIN rewrites[g]}
RewriteAt(g) ==
  /\ pc[g] \in {"wait", "write"} => Replacement(batch[g], g)
  /\ \A recs \in QueuedRecs(g) : Replacement(recs, g)

\* After a storage failure only a rewrite moves a generation on; a drain that no
\* rewrite waits behind has seen the current cutoverEpoch.
StuckAt(g) ==
  /\ failed[g] => pc[g] \in {"idle", "wait", "write"} \/ err[g]
  /\ pc[g] \in {"ready", "append"} =>
       seen[g] <= epoch[g] /\ (rewrites[g] = <<>> <=> seen[g] = epoch[g])

PlaceAt(g) == CleanAt(g) /\ AppendAt(g) /\ RewriteAt(g) /\ StuckAt(g)

Order == Buffers /\ FileFits /\ \A g \in Gens : PlaceAt(g)

\* A record newer than all of a sequence goes to its end.
LEMMA AppendAscends ==
  ASSUME NEW s \in Seq(Records), Ascends(s), NEW x \in Records, Before(Elems(s), {x})
  PROVE  Ascends(Append(s, x)) /\ Elems(Append(s, x)) = Elems(s) \cup {x}
<1>1. PICK u : u = Append(s, x)
  OBVIOUS
<1>2. PICK n \in Nat : n = Len(s)
  OBVIOUS
<1>3. DOMAIN s = 1..n /\ DOMAIN u = 1..(n + 1) /\ u[n + 1] = x /\ \A i \in 1..n : u[i] = s[i]
  BY <1>1, <1>2
<1>4. \A i \in 1..(n + 1) : i \in 1..n \/ i = n + 1
  OBVIOUS
<1>5. Elems(u) = Elems(s) \cup {x}
  BY <1>1, AppendElems
<1>6. Ascends(u)
  <2>1. \A i \in 1..n : s[i] < x
    BY <1>3 DEF Before, Elems
  <2>2. \A i, j \in 1..n : i < j => s[i] < s[j]
    BY <1>3 DEF Ascends
  <2> SUFFICES ASSUME NEW i \in 1..(n + 1), NEW j \in 1..(n + 1), i < j
               PROVE  u[i] < u[j]
    BY <1>3 DEF Ascends
  <2>3. i \in 1..n
    OBVIOUS
  <2> QED
    BY <1>3, <1>4, <2>1, <2>2, <2>3
<1> QED
  BY <1>1, <1>5, <1>6

\* A buffer, its head and the rest of it.
LEMMA RestFacts ==
  ASSUME NEW p \in Seq(Records), Ascends(p), NEW b \in Seq(Records), Heads(b, p)
  PROVE  LET r == SubSeq(p, Len(b) + 1, Len(p)) IN
         /\ Ascends(b) /\ Elems(b) \subseteq Elems(p)
         /\ r \in Seq(Records) /\ Ascends(r) /\ Elems(r) \subseteq Elems(p)
         /\ Before(Elems(b), Elems(r)) /\ Elems(p) = Elems(b) \cup Elems(r)
         /\ b # <<>> => Elems(b) # {}
<1>1. PICK r : r = SubSeq(p, Len(b) + 1, Len(p))
  OBVIOUS
<1>2. PICK m \in Nat, n \in Nat : m = Len(b) /\ n = Len(p) /\ m <= n
  <2>1. Len(b) \in Nat /\ Len(p) \in Nat
    OBVIOUS
  <2> QED
    BY <2>1 DEF Heads
<1>a. \A i \in 1..m : b[i] = p[i] /\ i \in 1..n
  BY <1>2 DEF Heads
<1>b. \A i \in 1..(n - m) : m + i \in 1..n
  BY <1>2
<1>3. /\ DOMAIN p = 1..n /\ DOMAIN b = 1..m /\ DOMAIN r = 1..(n - m) /\ r \in Seq(Records)
      /\ \A i \in 1..(n - m) : r[i] = p[m + i] /\ m + i \in 1..n
      /\ \A i \in 1..m : b[i] = p[i] /\ i \in 1..n
  <2>1. r \in Seq(Records) /\ Len(r) = n - m
    <3>1. m + 1 \in 1..(n + 1) /\ \A i \in (m + 1)..n : p[i] \in Records
      BY <1>2
    <3>2. m + 1 <= n \/ n - m = 0
      BY <1>2
    <3>3. r = SubSeq(p, m + 1, n) /\ r \in Seq(Records)
      BY <1>1, <1>2, <3>1
    <3>4. Len(r) = IF m + 1 <= n THEN n - (m + 1) + 1 ELSE 0
      BY <1>2, <3>1, <3>3
    <3> QED
      BY <1>2, <3>2, <3>3, <3>4
  <2>2. \A i \in 1..(n - m) : r[i] = p[m + i]
    BY <1>1, <1>2
  <2> QED
    BY <1>2, <1>a, <1>b, <2>1, <2>2
<1>4. \A i, j \in 1..n : i < j => p[i] < p[j]
  BY <1>3 DEF Ascends
<1>5. Ascends(b) /\ Elems(b) \subseteq Elems(p)
  <2>1. Ascends(b)
    BY <1>3, <1>4 DEF Ascends
  <2> QED
    BY <1>3, <2>1 DEF Elems
<1>6. Ascends(r)
  <2> SUFFICES ASSUME NEW i \in 1..(n - m), NEW j \in 1..(n - m), i < j
               PROVE  r[i] < r[j]
    BY <1>3 DEF Ascends
  <2>1. PICK k \in 1..n, l \in 1..n : k = m + i /\ l = m + j
    BY <1>3
  <2>2. k < l /\ r[i] = p[k] /\ r[j] = p[l]
    BY <1>3, <2>1
  <2> QED
    BY <1>4, <2>2
<1>7. Elems(r) \subseteq Elems(p)
  BY <1>3 DEF Elems
<1>8. Before(Elems(b), Elems(r))
  <2> SUFFICES ASSUME NEW i \in 1..m, NEW j \in 1..(n - m)
               PROVE  b[i] < r[j]
    BY <1>3 DEF Before, Elems
  <2>1. PICK l \in 1..n : l = m + j
    BY <1>3
  <2>2. i \in 1..n /\ i < l /\ b[i] = p[i] /\ r[j] = p[l]
    BY <1>3, <2>1
  <2> QED
    BY <1>4, <2>2
<1>9. \A i \in 1..n : p[i] \in Elems(b) \cup Elems(r)
  <2> SUFFICES ASSUME NEW i \in 1..n
               PROVE  p[i] \in Elems(b) \cup Elems(r)
    OBVIOUS
  <2>1. CASE i \in 1..m
    BY <1>3, <2>1 DEF Elems
  <2>2. CASE i \notin 1..m
    <3>1. PICK j \in 1..(n - m) : m + j = i
      <4>1. i - m \in 1..(n - m) /\ m + (i - m) = i
        BY <2>2
      <4> QED
        BY <4>1
    <3> QED
      BY <1>3, <3>1 DEF Elems
  <2> QED
    BY <2>1, <2>2
<1>10. b # <<>> => Elems(b) # {}
  <2> SUFFICES ASSUME b # <<>>
               PROVE  1 \in 1..m
    BY <1>3 DEF Elems
  <2> QED
    BY <1>2
<1>11. Elems(p) = Elems(b) \cup Elems(r)
  BY <1>3, <1>5, <1>7, <1>9 DEF Elems
<1> QED
  BY <1>1, <1>3, <1>5, <1>6, <1>7, <1>8, <1>10, <1>11

\* A generation that a step does not move keeps its place, if the step only adds
\* new records to buffers and writes nothing of them.
LEMMA PlaceKept ==
  ASSUME ControlTypes, ControlTypes', DataTypes, NEW k \in Gens, PlaceAt(k),
         pc'[k] = pc[k], batch'[k] = batch[k], seen'[k] = seen[k], epoch'[k] = epoch[k],
         failed'[k] = failed[k], err'[k] = err[k], settled[k] => settled'[k],
         QueuedRecs(k)' \subseteq QueuedRecs(k), (rewrites'[k] = <<>>) <=> (rewrites[k] = <<>>),
         accepted <= accepted',
         \A h \in Gens : h >= k =>
           Elems(pending'[h]) \subseteq Elems(pending[h]) \cup {x \in Nat : x > accepted},
         pending'[k] = pending[k] \/ \E x : pending'[k] = Append(pending[k], x),
         ~settled[k] => InFile' \cap Elems(pending'[k]) \subseteq InFile \cap Elems(pending[k]),
         pc[k] = "append" => InFile' = InFile
  PROVE  PlaceAt(k)'
<1>1. CleanAt(k)'
  BY DEF PlaceAt, CleanAt
<1>2. AppendAt(k)'
  <2> SUFFICES ASSUME pc[k] = "append"
               PROVE  Heads(batch[k], pending'[k]) /\ Before(InFile', Elems(batch[k]))
    BY DEF AppendAt
  <2>1. Heads(batch[k], pending[k]) /\ Before(InFile, Elems(batch[k]))
    BY DEF PlaceAt, AppendAt
  <2>2. Heads(batch[k], pending'[k])
    <3>1. batch[k] \in Seq(Records) /\ pending[k] \in Seq(Records)
      BY DEF DataTypes
    <3>2. CASE pending'[k] = pending[k]
      BY <2>1, <3>2
    <3>3. ASSUME NEW x, pending'[k] = Append(pending[k], x)
          PROVE  Heads(batch[k], pending'[k])
      <4>1. PICK s \in Seq(Records), b \in Seq(Records), n \in Nat, m \in Nat :
              s = pending[k] /\ b = batch[k] /\ n = Len(s) /\ m = Len(b)
        BY <3>1
      <4>2. m <= n /\ \A i \in 1..m : b[i] = s[i] /\ i \in 1..n
        BY <2>1, <4>1 DEF Heads
      <4>3. Len(Append(s, x)) = n + 1 /\ \A i \in 1..n : Append(s, x)[i] = s[i]
        BY <4>1
      <4> QED
        BY <3>3, <4>1, <4>2, <4>3 DEF Heads
    <3> QED
      BY <3>2, <3>3
  <2> QED
    BY <2>1, <2>2
<1>3. ASSUME NEW recs, Replacement(recs, k)
      PROVE  Replacement(recs, k)'
  <2>1. accepted \in Nat /\ accepted' \in Nat
    BY DEF ControlTypes
  <2>2. Ascends(recs) /\ Elems(recs) \subseteq 1..accepted'
    BY <1>3, <2>1 DEF Replacement
  <2>3. ASSUME NEW h \in Gens, h >= k
        PROVE  Before(Elems(recs), Elems(pending'[h]))
    BY <1>3, <2>1, <2>3, SMTT(60) DEF Replacement, Before
  <2> QED
    BY <2>2, <2>3 DEF Replacement
<1>4. RewriteAt(k)'
  BY <1>3 DEF PlaceAt, RewriteAt
<1>5. StuckAt(k)'
  BY DEF PlaceAt, StuckAt
<1> QED
  BY <1>1, <1>2, <1>4, <1>5 DEF PlaceAt

-----------------------------------------------------------------------------
\* A segment that writes no file, drops nothing from a buffer and accepts nothing.
Quiet ==
  /\ UNCHANGED <<file, pending, accepted>> /\ made <= made'
  /\ \A g \in Gens : settled[g] => settled'[g]

\* The segments that are not quiet.
LEMMA StepKinds ==
  ASSUME ControlTypes, DataTypes, HandoffOrder, [Next]_vars
  PROVE  \/ Quiet \/ AppendRecord \/ Crash
         \/ \E g \in Gens : \/ DrainAppended(g) \/ DrainFailed(g)
                            \/ RewriteWritten(g) \/ RewriteFailed(g)
<1> USE DEF genVars, opVars, histVars
<1>0. made \in Nat /\ made <= made
  BY DEF ControlTypes
<1>1. ASSUME State, UNCHANGED <<file, pending, accepted, settled>>
      PROVE  Quiet
  BY <1>0, <1>1 DEF Quiet, State
<1>2. Read => Quiet
  BY <1>1 DEF Read
<1>3. Acquire => Quiet
  BY <1>1 DEF Acquire
<1>4. \A recs \in Compacted(Target) : Rewrite(recs) => Quiet
  BY <1>1 DEF Rewrite
<1>5. ASSUME UNCHANGED <<file, pending, accepted, made, settled>>
      PROVE  Quiet
  BY <1>0, <1>5 DEF Quiet
<1>6. Flush => Quiet
  BY <1>5 DEF Flush
<1>7. \A g \in Gens : Release(g) => Quiet
  BY <1>5 DEF Release
<1>8. UNCHANGED vars => Quiet
  BY <1>5 DEF vars
<1>9. ASSUME NEW g \in Gens, Settle(g)
      PROVE  Quiet
  BY <1>0, <1>9 DEF Settle, Quiet, ControlTypes
<1>10. ASSUME NEW g \in Gens,
              RunScheduledFlush(g) \/ DrainBegin(g) \/ RewriteBegin(g) \/ FinishOwned(g)
       PROVE  Quiet
  BY <1>5, <1>10 DEF RunScheduledFlush, DrainBegin, RewriteBegin, FinishOwned
<1>11. ASSUME NEW g \in Gens, Continue(g)
       PROVE  \/ Quiet \/ DrainAppended(g) \/ DrainFailed(g)
              \/ RewriteWritten(g) \/ RewriteFailed(g)
  BY <1>9, <1>10, <1>11 DEF Continue
<1> QED
  BY <1>2, <1>3, <1>4, <1>6, <1>7, <1>8, <1>11 DEF Next

\* What a storage append in flight knows of the buffer it empties.
LEMMA AppendFacts ==
  ASSUME DataTypes, Buffers, NEW g \in Gens, PlaceAt(g), pc[g] = "append"
  PROVE  /\ batch[g] \in Seq(Records) /\ Ascends(batch[g])
         /\ Elems(batch[g]) \subseteq Elems(pending[g]) /\ Before(InFile, Elems(batch[g]))
         /\ Rest(g) \in Seq(Records) /\ Ascends(Rest(g)) /\ Elems(Rest(g)) \subseteq Elems(pending[g])
         /\ Before(Elems(batch[g]), Elems(Rest(g)))
         /\ Elems(pending[g]) = Elems(batch[g]) \cup Elems(Rest(g))
         /\ batch[g] # <<>> => Elems(batch[g]) # {}
<1>1. batch[g] \in Seq(Records) /\ pending[g] \in Seq(Records) /\ Ascends(pending[g])
  BY DEF DataTypes, Buffers
<1>2. Heads(batch[g], pending[g]) /\ Before(InFile, Elems(batch[g]))
  BY DEF PlaceAt, AppendAt
<1>3. PICK p \in Seq(Records), b \in Seq(Records) : p = pending[g] /\ b = batch[g]
  BY <1>1
<1>4. Ascends(p) /\ Heads(b, p)
  BY <1>1, <1>2, <1>3
<1>5. PICK r : r = SubSeq(p, Len(b) + 1, Len(p))
  OBVIOUS
<1>6. /\ Ascends(b) /\ Elems(b) \subseteq Elems(p)
      /\ r \in Seq(Records) /\ Ascends(r) /\ Elems(r) \subseteq Elems(p)
      /\ Before(Elems(b), Elems(r)) /\ Elems(p) = Elems(b) \cup Elems(r)
      /\ b # <<>> => Elems(b) # {}
  BY <1>4, <1>5, RestFacts
<1>7. Rest(g) = r
  BY <1>3, <1>5 DEF Rest
<1> QED
  BY <1>2, <1>3, <1>6, <1>7

\* The buffers keep their order.
LEMMA BuffersStep ==
  ASSUME ControlTypes, ControlTypes', DataTypes, HandoffOrder, Order, [Next]_vars
  PROVE  Buffers'
<1>0. Buffers /\ \A g \in Gens : PlaceAt(g)
  BY DEF Order
<1>a. /\ made \in Nat /\ made' \in Nat /\ accepted \in Nat /\ accepted' \in Nat
      /\ pending \in [Gens -> Seq(Records)]
  BY DEF ControlTypes, DataTypes
<1>1. CASE Quiet
  BY <1>0, <1>a, <1>1 DEF Quiet, Buffers
<1>2. CASE AppendRecord
  <2>1. /\ accepted' = accepted + 1 /\ accepted + 1 \in Records
        /\ pending' = [pending EXCEPT ![Target] = Append(@, accepted + 1)]
        /\ State /\ UNCHANGED <<retired, settled, refs>>
    BY <1>2, <1>a DEF AppendRecord
  <2>2. Target \in Gens /\ made <= made' /\ Target <= made'
    BY <2>1, StateChain DEF HandoffOrder
  <2>3. PICK s \in Seq(Records) : s = pending[Target]
    BY <1>a, <2>2
  <2>4. Ascends(s) /\ Elems(s) \subseteq 1..accepted /\ Before(Elems(s), {accepted + 1})
    BY <1>0, <1>a, <2>2, <2>3 DEF Buffers, Before
  <2>5. Ascends(Append(s, accepted + 1)) /\ Elems(Append(s, accepted + 1)) = Elems(s) \cup {accepted + 1}
    BY <2>1, <2>4, AppendAscends
  <2>6. /\ pending'[Target] = Append(s, accepted + 1)
        /\ \A h \in Gens \ {Target} : pending'[h] = pending[h]
    BY <1>a, <2>1, <2>2, <2>3
  <2>e. \A h \in Gens : /\ Ascends(pending[h]) /\ Elems(pending[h]) \subseteq 1..accepted
                        /\ h > made => pending[h] = <<>>
    BY <1>0 DEF Buffers
  <2>f. 1..accepted \subseteq 1..(accepted + 1) /\ accepted + 1 \in 1..(accepted + 1)
    BY <1>a
  <2>7. \A g \in Gens : Ascends(pending'[g]) /\ Elems(pending'[g]) \subseteq 1..accepted'
    <3> SUFFICES ASSUME NEW g \in Gens
                 PROVE  Ascends(pending'[g]) /\ Elems(pending'[g]) \subseteq 1..(accepted + 1)
      BY <2>1
    <3>1. CASE g = Target
      <4>1. PICK u : u = Append(s, accepted + 1)
        OBVIOUS
      <4>2. Ascends(u) /\ Elems(u) \subseteq 1..(accepted + 1)
        BY <2>4, <2>5, <2>f, <4>1
      <4> QED
        BY <2>6, <3>1, <4>1, <4>2
    <3>2. CASE g # Target
      BY <2>6, <2>e, <2>f, <3>2
    <3> QED
      BY <3>1, <3>2
  <2>8. ASSUME NEW g \in Gens, g > made'
        PROVE  pending'[g] = <<>>
    <3>1. made \in Nat /\ made' \in Nat /\ Target \in Nat
      BY <2>2 DEF ControlTypes
    <3>2. g > made /\ g # Target
      BY <2>2, <2>8, <3>1
    <3> QED
      BY <2>6, <2>e, <3>2
  <2>9. ASSUME NEW g \in Gens, NEW h \in Gens, g < h
        PROVE  Before(Elems(pending'[g]), Elems(pending'[h]))
    <3>1. Before(Elems(pending[g]), Elems(pending[h])) /\ Elems(pending[g]) \subseteq 1..accepted
      BY <1>0, <2>9 DEF Buffers
    <3>2. CASE h = Target
      <4>1. g # Target
        BY <2>9, <3>2
      <4>2. /\ pending'[g] = pending[g]
            /\ Elems(pending'[h]) = Elems(pending[h]) \cup {accepted + 1}
        BY <2>3, <2>5, <2>6, <3>2, <4>1
      <4>3. \A a \in Elems(pending[g]) : a < accepted + 1
        BY <1>a, <3>1
      <4> QED
        BY <3>1, <4>2, <4>3 DEF Before
    <3>3. CASE g = Target
      <4>1. h # Target /\ pending'[h] = <<>>
        <5>1. Target >= made
          <6>1. CASE NeedsNew
            BY <1>a, <6>1 DEF Target
          <6>2. CASE ~NeedsNew
            <7>1. cur \in {0, made}
              BY DEF HandoffOrder, Chain
            <7> QED
              BY <1>a, <6>2, <7>1 DEF Target, NeedsNew
          <6> QED
            BY <6>1, <6>2
        <5>2. h # Target /\ h > made
          BY <1>a, <2>2, <2>9, <3>3, <5>1
        <5> QED
          BY <2>6, <2>e, <5>2
      <4> QED
        BY <4>1 DEF Before, Elems
    <3>4. CASE g # Target /\ h # Target
      BY <2>6, <3>1, <3>4
    <3> QED
      BY <3>2, <3>3, <3>4
  <2> QED
    BY <2>7, <2>8, <2>9 DEF Buffers
<1>3. ASSUME NEW g \in Gens, DrainAppended(g)
      PROVE  Buffers'
  <2>1. pc[g] = "append" /\ made' = made /\ accepted' = accepted
    BY <1>3 DEF DrainAppended, histVars
  <2>2. pending'[g] \in {pending[g], Rest(g)} /\ \A h \in Gens \ {g} : pending'[h] = pending[h]
    BY <1>3, <1>a DEF DrainAppended
  <2>3. /\ \A h \in Gens : Elems(pending'[h]) \subseteq Elems(pending[h])
        /\ \A h \in Gens : Ascends(pending'[h])
    BY <1>0, <2>1, <2>2, AppendFacts DEF Buffers
  <2>4. \A h \in Gens : h > made => pending'[h] = pending[h]
    <3>1. ~(g > made)
      BY <2>1 DEF HandoffOrder, Gate, GateAt
    <3> QED
      BY <2>2, <3>1
  <2> QED
    BY <1>0, <2>1, <2>3, <2>4 DEF Buffers, Before
<1>4. ASSUME NEW g \in Gens, DrainFailed(g) \/ RewriteWritten(g) \/ RewriteFailed(g)
      PROVE  Buffers'
  <2>1. UNCHANGED <<pending, made, accepted>>
    BY <1>4 DEF DrainFailed, RewriteWritten, RewriteFailed, histVars
  <2> QED
    BY <1>0, <2>1 DEF Buffers
<1>5. CASE Crash
  <2>1. \A g \in Gens : pending'[g] = <<>>
    BY <1>5 DEF Crash, Empty
  <2>2. Ascends(<<>>) /\ Elems(<<>>) = {}
    BY DEF Ascends, Elems
  <2> QED
    BY <2>1, <2>2 DEF Buffers, Before
<1> QED
  BY <1>1, <1>2, <1>3, <1>4, <1>5, StepKinds

\* The generation that a storage operation belongs to has settled predecessors, is
\* the only one in storage, and has not settled.
LEMMA WriterFacts ==
  ASSUME ControlTypes, HandoffOrder, NEW g \in Gens, InStorage(g)
  PROVE  /\ g <= made /\ ~settled[g]
         /\ \A h \in Gens : h < g => settled[h]
         /\ \A h \in Gens \ {g} : ~InStorage(h)
<1>1. g <= made /\ Ready(g)
  BY DEF HandoffOrder, Gate, GateAt, InStorage, ControlTypes
<1>2. ~settled[g]
  BY DEF HandoffOrder, Spent, InStorage
<1>3. \A h \in Gens : h < g => settled[h]
  BY <1>1 DEF HandoffOrder, Chain
<1> QED
  BY <1>1, <1>2, <1>3, Exclusion DEF OneStorageOperation

\* What a file-writing segment of g leaves in the file: what was there and records
\* of g's buffer, or the records of a rewrite.
LEMMA WrittenFacts ==
  ASSUME ControlTypes, DataTypes, HandoffOrder, Order, NEW g \in Gens,
         DrainAppended(g) \/ DrainFailed(g) \/ RewriteWritten(g) \/ RewriteFailed(g)
  PROVE  /\ InStorage(g) /\ FileOrdered(file')
         /\ \/ InFile' \subseteq InFile \cup Elems(batch[g]) /\ pc[g] = "append"
            \/ InFile' = InFile /\ pc[g] = "write"
            \/ InFile' = Elems(batch[g]) /\ pc[g] = "write" /\ Replacement(batch[g], g)
<1>0. /\ file \in FileState /\ FileOrdered(file) /\ batch[g] \in Seq(Records)
      /\ Buffers /\ PlaceAt(g)
  BY DEF DataTypes, Order, FileFits
<1>1. ASSUME pc[g] = "append"
      PROVE  Ascends(batch[g]) /\ Before(RecordsOf(file), Elems(batch[g]))
  BY <1>0, <1>1, AppendFacts DEF InFile
<1>2. CASE DrainAppended(g)
  <2>1. pc[g] = "append" /\ file' = FileAppend(file, batch[g]) /\ batch[g] # <<>>
    BY <1>2 DEF DrainAppended, HandoffOrder, Gate, GateAt
  <2>2. Extended(file', file, batch[g])
    BY <1>0, <1>1, <2>1, AppendExtends
  <2> QED
    BY <2>1, <2>2 DEF Extended, InFile, InStorage
<1>3. CASE DrainFailed(g)
  <2>1. pc[g] = "append" /\ file' \in Interrupted(file, batch[g])
    BY <1>3 DEF DrainFailed
  <2>2. Extended(file', file, batch[g])
    BY <1>0, <1>1, <2>1, InterruptedExtends
  <2> QED
    BY <2>1, <2>2 DEF Extended, InFile, InStorage
<1>4. CASE RewriteWritten(g) \/ RewriteFailed(g)
  <2>1. pc[g] = "write" /\ file' \in {file, Replaced(batch[g])}
    BY <1>4 DEF RewriteWritten, RewriteFailed
  <2>2. Replacement(batch[g], g) /\ Ascends(batch[g])
    BY <1>0, <2>1 DEF PlaceAt, RewriteAt, Replacement
  <2>3. FileOrdered(Replaced(batch[g])) /\ RecordsOf(Replaced(batch[g])) = Elems(batch[g])
    BY <1>0, <2>2, ReplacedOrdered
  <2> QED
    BY <1>0, <2>1, <2>2, <2>3 DEF InFile, InStorage
<1> QED
  BY <1>2, <1>3, <1>4

\* The file stays ordered, and what it holds stays before what is only buffered.
LEMMA FileStep ==
  ASSUME ControlTypes, ControlTypes', DataTypes, HandoffOrder, Order, [Next]_vars
  PROVE  FileFits'
<1>0. Buffers /\ FileFits /\ \A g \in Gens : PlaceAt(g)
  BY DEF Order
<1>a. /\ accepted \in Nat /\ accepted' \in Nat /\ pending \in [Gens -> Seq(Records)]
      /\ file \in FileState
  BY DEF ControlTypes, DataTypes
<1>1. CASE Quiet
  <2>1. InFile' = InFile
    BY <1>1 DEF Quiet, InFile
  <2> QED
    BY <1>0, <1>1, <2>1 DEF Quiet, FileFits
<1>2. CASE AppendRecord
  <2>1. /\ accepted' = accepted + 1 /\ State /\ UNCHANGED <<file, settled>>
        /\ pending' = [pending EXCEPT ![Target] = Append(@, accepted + 1)]
    BY <1>2 DEF AppendRecord
  <2>2. Target \in Gens
    BY <2>1, StateTypes
  <2>3. InFile' = InFile
    BY <2>1 DEF InFile
  <2>4. ASSUME NEW h \in Gens, ~settled[h]
        PROVE  Before(InFile \ Elems(pending'[h]), Elems(pending'[h]))
    <3>1. Elems(pending'[h]) \in {Elems(pending[h]), Elems(pending[h]) \cup {accepted + 1}}
      <4>1. accepted + 1 \in Records
        BY <1>2, <1>a DEF AppendRecord
      <4>2. CASE h = Target
        <5>1. PICK s \in Seq(Records) : s = pending[h] /\ pending'[h] = Append(s, accepted + 1)
          BY <1>a, <2>1, <4>2
        <5> QED
          BY <4>1, <5>1, AppendElems
      <4>3. CASE h # Target
        BY <1>a, <2>1, <2>2, <4>3
      <4> QED
        BY <4>2, <4>3
    <3>2. Before(InFile \ Elems(pending[h]), Elems(pending[h])) /\ InFile \subseteq 1..accepted
      BY <1>0, <2>4 DEF FileFits
    <3> QED
      BY <1>a, <3>1, <3>2 DEF Before
  <2> QED
    <3>1. FileOrdered(file') /\ InFile \subseteq 1..(accepted + 1) /\ settled' = settled
      BY <1>0, <1>a, <2>1 DEF FileFits
    <3> QED
      BY <2>1, <2>3, <2>4, <3>1 DEF FileFits
<1>3. ASSUME NEW g \in Gens,
             DrainAppended(g) \/ DrainFailed(g) \/ RewriteWritten(g) \/ RewriteFailed(g)
      PROVE  FileFits'
  <2>1. /\ InStorage(g) /\ FileOrdered(file')
        /\ \/ InFile' \subseteq InFile \cup Elems(batch[g]) /\ pc[g] = "append"
           \/ InFile' = InFile /\ pc[g] = "write"
           \/ InFile' = Elems(batch[g]) /\ pc[g] = "write" /\ Replacement(batch[g], g)
    BY <1>3, WrittenFacts
  <2>2. UNCHANGED <<accepted, settled>>
    BY <1>3 DEF DrainAppended, DrainFailed, RewriteWritten, RewriteFailed, histVars
  <2>3. \/ UNCHANGED pending
        \/ /\ pc[g] = "append" /\ pending'[g] = Rest(g) /\ batch[g] # <<>>
           /\ \A h \in Gens \ {g} : pending'[h] = pending[h]
    BY <1>3, <1>a DEF DrainAppended, DrainFailed, RewriteWritten, RewriteFailed,
         HandoffOrder, Gate, GateAt
  <2>4. pc[g] = "append" => /\ Elems(batch[g]) \subseteq Elems(pending[g])
                            /\ Before(InFile, Elems(batch[g])) /\ Before(Elems(batch[g]), Elems(Rest(g)))
                            /\ batch[g] # <<>> => Elems(batch[g]) # {}
    BY <1>0, AppendFacts
  <2>5. InFile' \subseteq 1..accepted
    BY <1>0, <2>1, <2>4 DEF FileFits, Buffers, Replacement
  <2>6. ASSUME NEW h \in Gens, ~settled[h]
        PROVE  Before(InFile' \ Elems(pending'[h]), Elems(pending'[h]))
    <3>1. h >= g /\ Before(InFile \ Elems(pending[h]), Elems(pending[h]))
      BY <1>0, <2>1, <2>6, WriterFacts DEF FileFits
    <3>2. h # g => Before(Elems(pending[g]), Elems(pending[h]))
      BY <1>0, <3>1 DEF Buffers
    <3>3. CASE pending'[h] = pending[h]
      <4>1. CASE InFile' \subseteq InFile \cup Elems(batch[g]) /\ pc[g] = "append"
        BY <2>4, <3>1, <3>2, <3>3, <4>1 DEF Before
      <4>2. CASE InFile' = InFile
        BY <3>1, <3>3, <4>2
      <4>3. CASE InFile' = Elems(batch[g]) /\ Replacement(batch[g], g)
        BY <3>1, <3>3, <4>3 DEF Before, Replacement
      <4> QED
        BY <2>1, <4>1, <4>2, <4>3
    <3>4. CASE h = g /\ pc[g] = "append" /\ pending'[g] = Rest(g) /\ batch[g] # <<>>
      <4>1. PICK m : m \in Elems(batch[g])
        BY <2>4, <3>4
      <4>2. Before(InFile, Elems(Rest(g)))
        <5> SUFFICES ASSUME NEW a \in InFile, NEW b \in Elems(Rest(g))
                     PROVE  a < b
          BY DEF Before
        <5>1. a < m /\ m < b
          BY <2>4, <3>4, <4>1 DEF Before
        <5>2. a \in Nat /\ m \in Nat /\ b \in Nat
          <6>1. Elems(batch[g]) \subseteq Records /\ Elems(Rest(g)) \subseteq Records
            BY <1>0, <3>4, AppendFacts, RangeTyped
          <6>2. a \in 1..accepted
            BY <1>0 DEF FileFits
          <6> QED
            BY <4>1, <6>1, <6>2
        <5> QED
          BY <5>1, <5>2
      <4> QED
        BY <2>1, <2>4, <3>4, <4>2 DEF Before
    <3> QED
      BY <2>3, <3>3, <3>4
  <2> QED
    BY <2>1, <2>2, <2>5, <2>6 DEF FileFits
<1>4. CASE Crash
  <2>1. accepted' = accepted /\ \A h \in Gens : Elems(pending'[h]) = {}
    BY <1>4 DEF Crash, Empty, Elems
  <2>2. FileOrdered(file') /\ InFile' \subseteq 1..accepted
    <3>1. CASE UNCHANGED file
      BY <1>0, <3>1 DEF FileFits, InFile
    <3>2. ASSUME NEW g \in Gens, pc[g] = "append", file' \in Interrupted(file, batch[g])
          PROVE  FileOrdered(file') /\ InFile' \subseteq 1..accepted
      <4>1. /\ batch[g] \in Seq(Records) /\ Ascends(batch[g])
            /\ Elems(batch[g]) \subseteq Elems(pending[g]) /\ Before(InFile, Elems(batch[g]))
        BY <1>0, <3>2, AppendFacts
      <4>2. Extended(file', file, batch[g])
        BY <1>0, <1>a, <3>2, <4>1, InterruptedExtends DEF FileFits, InFile
      <4> QED
        BY <1>0, <4>1, <4>2 DEF Extended, InFile, FileFits, Buffers
    <3>3. ASSUME NEW g \in Gens, pc[g] = "write", file' = Replaced(batch[g])
          PROVE  FileOrdered(file') /\ InFile' \subseteq 1..accepted
      <4>1. batch[g] \in Seq(Records) /\ Replacement(batch[g], g)
        BY <1>0, <3>3 DEF DataTypes, PlaceAt, RewriteAt
      <4> QED
        BY <3>3, <4>1, ReplacedOrdered DEF InFile, Replacement
    <3> QED
      BY <1>4, <3>1, <3>2, <3>3 DEF Crash
  <2> QED
    BY <2>1, <2>2 DEF FileFits, Before
<1> QED
  BY <1>1, <1>2, <1>3, <1>4, StepKinds

-----------------------------------------------------------------------------
\* A flush() that joins a queued rewrite leaves the records of the rewrites alone.
LEMMA FlushQueued ==
  ASSUME DataTypes, NEW g \in Gens, NEW A, FlushState(g, A), NEW h \in Gens
  PROVE  /\ QueuedRecs(h)' = QueuedRecs(h)
         /\ (rewrites'[h] = <<>>) <=> (rewrites[h] = <<>>)
<1>1. PICK n : n = Len(rewrites[g])
  OBVIOUS
<1>2. CASE UNCHANGED rewrites
  BY <1>2 DEF QueuedRecs
<1>3. CASE n # 0 /\ rewrites' = [rewrites EXCEPT ![g][n].mark = @ \cup A]
  <2>1. \A k \in Gens : k # g => rewrites'[k] = rewrites[k]
    BY <1>3 DEF DataTypes
  <2>2. CASE h = g
    <3>1. PICK q \in Seq(QueuedRewrite) : q = rewrites[g]
      BY DEF DataTypes
    <3>2. rewrites'[g] = [q EXCEPT ![n].mark = @ \cup A]
      BY <1>3, <3>1 DEF DataTypes
    <3>3. PICK p : p = rewrites'[g]
      OBVIOUS
    <3>7. n \in Nat \ {0} /\ DOMAIN q = 1..n /\ \A i \in 1..n : q[i] \in QueuedRewrite
      BY <1>1, <1>3, <3>1
    <3>8. PICK e : e = [q[n] EXCEPT !.mark = @ \cup A]
      OBVIOUS
    <3>9. e.recs = q[n].recs
      BY <3>7, <3>8 DEF QueuedRewrite
    <3>10. p = [q EXCEPT ![n] = e]
      BY <3>2, <3>3, <3>8
    <3>11. DOMAIN p = 1..n /\ \A i \in 1..n : p[i] = IF i = n THEN e ELSE q[i]
      BY <3>1, <3>7, <3>10
    <3>4. /\ DOMAIN p = DOMAIN q /\ DOMAIN q = 1..n /\ n \in Nat \ {0}
          /\ \A i \in 1..n : p[i].recs = q[i].recs
      BY <3>7, <3>9, <3>11
    <3>5. p # <<>> /\ q # <<>>
      BY <3>4
    <3>6. {p[i].recs : i \in DOMAIN p} = {q[i].recs : i \in DOMAIN q}
      BY <3>4
    <3>12. QueuedRecs(g) = {q[i].recs : i \in DOMAIN q} /\ QueuedRecs(g)' = {p[i].recs : i \in DOMAIN p}
      BY <3>1, <3>3 DEF QueuedRecs
    <3> QED
      BY <2>2, <3>1, <3>3, <3>5, <3>6, <3>12
  <2>3. CASE h # g
    BY <2>1, <2>3 DEF QueuedRecs
  <2> QED
    BY <2>2, <2>3
<1> QED
  BY <1>1, <1>2, <1>3 DEF FlushState

\* flushState() keeps every generation in its place: a drain it starts sees the
\* current cutoverEpoch, and starts only when no failure is sticky.
LEMMA FlushPlaces ==
  ASSUME ControlTypes, ControlTypes', DataTypes, HandoffOrder, Order,
         NEW g \in Gens, NEW A, FlushState(g, A),
         UNCHANGED <<file, pending, failed, epoch, batch, err, accepted, settled>>
  PROVE  \A h \in Gens : PlaceAt(h)'
<1>1. /\ \A h \in Gens : /\ QueuedRecs(h)' = QueuedRecs(h)
                         /\ (rewrites'[h] = <<>>) <=> (rewrites[h] = <<>>)
      /\ InFile' = InFile /\ accepted \in Nat
  <2>1. InFile' = InFile
    BY DEF InFile
  <2>2. accepted \in Nat
    BY DEF ControlTypes
  <2> QED
    BY <2>1, <2>2, FlushQueued
<1>2. ASSUME NEW h \in Gens, pc'[h] = pc[h], seen'[h] = seen[h]
      PROVE  PlaceAt(h)'
  BY <1>1, <1>2, PlaceKept DEF Order
<1>3. \A h \in Gens \ {g} : pc'[h] = pc[h] /\ seen'[h] = seen[h]
  BY DEF FlushState, ControlTypes
<1>4. CASE UNCHANGED <<pc, seen>>
  BY <1>2, <1>4
<1>5. CASE pc[g] = "idle" /\ ~failed[g] /\ pc'[g] = "ready" /\ seen'[g] = epoch[g]
  <2>1. rewrites'[g] = <<>> /\ rewrites[g] = <<>>
    BY <1>1, <1>5 DEF HandoffOrder, Served
  <2>2. CleanAt(g)'
    BY <1>1, <1>5, <2>1 DEF Order, PlaceAt, CleanAt
  <2>3. AppendAt(g)'
    BY <1>5 DEF AppendAt
  <2>4. \A recs : Replacement(recs, g)' = Replacement(recs, g)
    BY DEF Replacement
  <2>5. RewriteAt(g)'
    BY <1>1, <1>5, <2>4 DEF Order, PlaceAt, RewriteAt
  <2>6. StuckAt(g)'
    BY <1>5, <2>1 DEF StuckAt, ControlTypes
  <2>7. PlaceAt(g)'
    BY <2>2, <2>3, <2>5, <2>6 DEF PlaceAt
  <2> QED
    BY <1>2, <1>3, <2>7
<1>6. UNCHANGED <<pc, seen>> \/ (pc[g] = "idle" /\ ~failed[g] /\ pc'[g] = "ready" /\ seen'[g] = epoch[g])
  BY DEF FlushState, ControlTypes
<1> QED
  BY <1>4, <1>5, <1>6

\* A new record stays behind everything the file and the rewrites hold.
LEMMA AppendPlaces ==
  ASSUME ControlTypes, ControlTypes', DataTypes, HandoffOrder, Order, AppendRecord
  PROVE  \A h \in Gens : PlaceAt(h)'
<1>1. /\ State /\ UNCHANGED <<file, settled, failed, epoch, pc, batch, seen, err, rewrites>>
      /\ accepted' = accepted + 1 /\ accepted + 1 \in Records
      /\ pending' = [pending EXCEPT ![Target] = Append(@, accepted + 1)]
  BY DEF AppendRecord, opVars, ControlTypes
<1>2. Target \in Gens /\ accepted \in Nat /\ InFile' = InFile
  <2>1. Target \in Gens
    BY <1>1, StateTypes
  <2>2. accepted \in Nat
    BY DEF ControlTypes
  <2>3. InFile' = InFile
    BY <1>1 DEF InFile
  <2> QED
    BY <2>1, <2>2, <2>3
<1>3. /\ pending'[Target] = Append(pending[Target], accepted + 1)
      /\ \A h \in Gens \ {Target} : pending'[h] = pending[h]
      /\ pending[Target] \in Seq(Records)
  BY <1>1, <1>2 DEF DataTypes
<1>4. Elems(pending'[Target]) = Elems(pending[Target]) \cup {accepted + 1}
  BY <1>1, <1>3, AppendElems
<1>5. InFile \subseteq 1..accepted
  BY DEF Order, FileFits
<1>6. \A h \in Gens : /\ Elems(pending'[h]) \subseteq Elems(pending[h]) \cup {x \in Nat : x > accepted}
                      /\ InFile' \cap Elems(pending'[h]) \subseteq InFile \cap Elems(pending[h])
                      /\ pending'[h] = pending[h] \/ \E x : pending'[h] = Append(pending[h], x)
  <2> SUFFICES ASSUME NEW h \in Gens
               PROVE  /\ Elems(pending'[h]) \subseteq Elems(pending[h]) \cup {x \in Nat : x > accepted}
                      /\ InFile \cap Elems(pending'[h]) \subseteq InFile \cap Elems(pending[h])
                      /\ pending'[h] = pending[h] \/ \E x : pending'[h] = Append(pending[h], x)
    BY <1>2
  <2>1. CASE h = Target
    <3>1. accepted + 1 > accepted /\ accepted + 1 \in Nat /\ accepted + 1 \notin InFile
      BY <1>2, <1>5
    <3> QED
      BY <1>3, <1>4, <2>1, <3>1
  <2>2. CASE h # Target
    BY <1>3, <2>2
  <2> QED
    BY <2>1, <2>2
<1>7. \A h \in Gens : QueuedRecs(h)' = QueuedRecs(h)
  BY <1>1 DEF QueuedRecs
<1>8. accepted <= accepted'
  BY <1>1, <1>2
<1> QED
  BY <1>1, <1>2, <1>6, <1>7, <1>8, PlaceKept DEF Order

\* Nothing moves at all, but a generation may settle.
LEMMA StillPlaces ==
  ASSUME ControlTypes, ControlTypes', DataTypes, Order,
         UNCHANGED <<file, pending, failed, epoch, accepted, opVars>>,
         \A g \in Gens : settled[g] => settled'[g]
  PROVE  \A h \in Gens : PlaceAt(h)'
<1>1. /\ \A h \in Gens : QueuedRecs(h)' = QueuedRecs(h)
      /\ InFile' = InFile /\ accepted \in Nat
      /\ UNCHANGED <<pc, batch, seen, err, rewrites>>
  BY DEF InFile, ControlTypes, QueuedRecs, opVars
<1> QED
  BY <1>1, PlaceKept DEF Order

\* A quiet segment of g leaves every other generation in its place.
LEMMA OthersPlaces ==
  ASSUME ControlTypes, ControlTypes', DataTypes, Order, NEW g \in Gens,
         UNCHANGED <<file, pending, accepted, settled>>,
         \A h \in Gens \ {g} :
           /\ pc'[h] = pc[h] /\ batch'[h] = batch[h] /\ seen'[h] = seen[h]
           /\ epoch'[h] = epoch[h] /\ failed'[h] = failed[h] /\ err'[h] = err[h]
           /\ rewrites'[h] = rewrites[h]
  PROVE  /\ \A h \in Gens \ {g} : PlaceAt(h)'
         /\ \A recs : Replacement(recs, g)' = Replacement(recs, g)
         /\ InFile' = InFile
<1>1. /\ \A h \in Gens \ {g} : QueuedRecs(h)' = QueuedRecs(h)
      /\ InFile' = InFile /\ accepted \in Nat
  <2>1. \A h \in Gens \ {g} : QueuedRecs(h)' = QueuedRecs(h)
    BY DEF QueuedRecs
  <2>2. InFile' = InFile
    BY DEF InFile
  <2>3. accepted \in Nat
    BY DEF ControlTypes
  <2> QED
    BY <2>1, <2>2, <2>3
<1>2. \A h \in Gens \ {g} : PlaceAt(h)'
  BY <1>1, PlaceKept DEF Order
<1> QED
  BY <1>1, <1>2 DEF Replacement

-----------------------------------------------------------------------------
\* rewrite(): the compaction it is given is older than everything outstanding, and
\* an operation that owns the flush will find its epoch outdated.
LEMMA RewritePlaces ==
  ASSUME ControlTypes, ControlTypes', DataTypes, HandoffOrder, Order,
         NEW recs \in Compacted(Target), Rewrite(recs)
  PROVE  \A h \in Gens : PlaceAt(h)'
<1>1. /\ State /\ UNCHANGED <<file, pending, accepted, settled, retired, refs, failed, err, seen>>
      /\ epoch' = [epoch EXCEPT ![Target] = @ + 1]
      /\ \/ /\ pc[Target] = "idle" /\ pc' = [pc EXCEPT ![Target] = "wait"]
            /\ batch' = [batch EXCEPT ![Target] = recs] /\ UNCHANGED rewrites
         \/ /\ pc[Target] # "idle" /\ UNCHANGED <<pc, batch>>
            /\ rewrites' = [rewrites EXCEPT ![Target] = Append(@, [recs |-> recs, mark |-> {}])]
  BY DEF Rewrite
<1>2. PICK g \in Gens : g = Target /\ ~settled[g] /\ g >= made
  <2>1. Target \in Gens /\ ~settled[Target]
    BY <1>1, StateChain DEF HandoffOrder
  <2>2. Target >= made
    <3>1. CASE NeedsNew
      BY <3>1 DEF Target, ControlTypes
    <3>2. CASE ~NeedsNew
      <4>1. cur \in {0, made} /\ made \in Nat
        BY DEF HandoffOrder, Chain, ControlTypes
      <4> QED
        BY <3>2, <4>1 DEF Target, NeedsNew
    <3> QED
      BY <3>1, <3>2
  <2> QED
    BY <2>1, <2>2
<1>3. \A h \in Gens \ {g} :
        /\ pc'[h] = pc[h] /\ batch'[h] = batch[h] /\ seen'[h] = seen[h]
        /\ epoch'[h] = epoch[h] /\ failed'[h] = failed[h] /\ err'[h] = err[h]
        /\ rewrites'[h] = rewrites[h]
  <2> SUFFICES ASSUME NEW h \in Gens, h # g
               PROVE  /\ pc'[h] = pc[h] /\ batch'[h] = batch[h] /\ seen'[h] = seen[h]
                      /\ epoch'[h] = epoch[h] /\ failed'[h] = failed[h] /\ err'[h] = err[h]
                      /\ rewrites'[h] = rewrites[h]
    OBVIOUS
  <2>1. pc'[h] = pc[h] /\ batch'[h] = batch[h]
    BY <1>1, <1>2 DEF ControlTypes, DataTypes
  <2>2. rewrites'[h] = rewrites[h]
    BY <1>1, <1>2 DEF DataTypes
  <2>3. seen'[h] = seen[h] /\ epoch'[h] = epoch[h] /\ failed'[h] = failed[h] /\ err'[h] = err[h]
    BY <1>1, <1>2 DEF ControlTypes
  <2> QED
    BY <2>1, <2>2, <2>3
<1>4. /\ \A h \in Gens \ {g} : PlaceAt(h)'
      /\ \A r : Replacement(r, g)' = Replacement(r, g)
      /\ InFile' = InFile
  BY <1>1, <1>3, OthersPlaces
<1>5. Replacement(recs, g)
  <2>1. recs \in Seq(Records) /\ Ascends(recs) /\ Elems(recs) = InFile \ Elems(pending[g])
    BY <1>2, CompactedFacts DEF DataTypes, Order, FileFits
  <2>2. InFile \subseteq 1..accepted /\ Before(InFile \ Elems(pending[g]), Elems(pending[g]))
    BY <1>2 DEF Order, FileFits
  <2>3. \A h \in Gens : h >= g /\ h # g => pending[h] = <<>>
    BY <1>2 DEF Order, Buffers, ControlTypes
  <2>4. Elems(<<>>) = {}
    BY DEF Elems
  <2> QED
    BY <2>1, <2>2, <2>3, <2>4 DEF Replacement, Before
<1>6. PlaceAt(g)'
  <2>0. PlaceAt(g) /\ GateAt(g) /\ epoch[g] \in Nat /\ seen[g] \in Nat /\ epoch'[g] = epoch[g] + 1
    BY <1>1, <1>2 DEF Order, HandoffOrder, Gate, ControlTypes
  <2>1. CASE pc[g] = "idle"
    <3>1. pc'[g] = "wait" /\ batch'[g] = recs /\ rewrites'[g] = rewrites[g]
      BY <1>1, <1>2, <2>1 DEF ControlTypes, DataTypes
    <3>2. QueuedRecs(g)' = QueuedRecs(g)
      BY <3>1 DEF QueuedRecs
    <3>3. RewriteAt(g)'
      BY <1>4, <1>5, <2>0, <3>1, <3>2 DEF PlaceAt, RewriteAt
    <3> QED
      BY <3>1, <3>3 DEF PlaceAt, CleanAt, AppendAt, StuckAt
  <2>2. CASE pc[g] # "idle"
    <3>1. pc'[g] = pc[g] /\ batch'[g] = batch[g] /\ seen'[g] = seen[g] /\ pending'[g] = pending[g]
          /\ failed'[g] = failed[g] /\ err'[g] = err[g]
      BY <1>1, <1>2, <2>2
    <3>a. PICK q \in Seq(QueuedRewrite) : q = rewrites[g]
      BY DEF DataTypes
    <3>b. PICK x : x = [recs |-> recs, mark |-> {}]
      OBVIOUS
    <3>2. q = rewrites[g] /\ x = [recs |-> recs, mark |-> {}]
      BY <3>a, <3>b
    <3>3. rewrites'[g] = Append(q, x) /\ x.recs = recs
      BY <1>1, <1>2, <2>2, <3>2 DEF DataTypes
    <3>4. PICK p : p = Append(q, x)
      OBVIOUS
    <3>5. p # <<>> /\ \A i \in DOMAIN p : p[i] = x \/ (i \in DOMAIN q /\ p[i] = q[i])
      BY <3>2, <3>4
    <3>6. \A r \in QueuedRecs(g)' : r = recs \/ r \in QueuedRecs(g)
      <4>1. QueuedRecs(g)' = {p[i].recs : i \in DOMAIN p} /\ QueuedRecs(g) = {q[i].recs : i \in DOMAIN q}
        BY <3>2, <3>3, <3>4 DEF QueuedRecs
      <4> QED
        BY <3>3, <3>5, <4>1
    <3>7. RewriteAt(g)'
      BY <1>4, <1>5, <2>0, <3>1, <3>6 DEF PlaceAt, RewriteAt
    <3>8. CleanAt(g)'
      BY <3>3, <3>4, <3>5 DEF CleanAt
    <3>9. AppendAt(g)'
      BY <1>4, <2>0, <3>1 DEF PlaceAt, AppendAt
    <3>10. StuckAt(g)'
      <4>1. seen[g] <= epoch[g] => seen[g] <= epoch[g] + 1 /\ seen[g] # epoch[g] + 1
        BY <2>0
      <4>2. rewrites'[g] # <<>>
        BY <3>3, <3>4, <3>5
      <4> QED
        BY <2>0, <3>1, <4>1, <4>2 DEF PlaceAt, StuckAt
    <3> QED
      BY <3>7, <3>8, <3>9, <3>10 DEF PlaceAt
  <2> QED
    BY <2>1, <2>2
<1> QED
  BY <1>2, <1>4, <1>6

\* drain(), once ready: it writes only what the file does not hold, since no
\* rewrite waits and no failure is sticky.
LEMMA DrainPlaces ==
  ASSUME ControlTypes, ControlTypes', DataTypes, HandoffOrder, Order,
         NEW g \in Gens, DrainBegin(g)
  PROVE  \A h \in Gens : PlaceAt(h)'
<1>1. /\ UNCHANGED <<file, pending, accepted, settled, epoch, failed, seen, err, rewrites>>
      /\ pc[g] = "ready"
      /\ \/ pc' = [pc EXCEPT ![g] = "finish"] /\ UNCHANGED batch
         \/ /\ ~CutOver(g) /\ pending[g] # <<>> /\ pc' = [pc EXCEPT ![g] = "append"]
            /\ batch' = [batch EXCEPT ![g] = pending[g]]
  BY DEF DrainBegin, genVars, histVars
<1>2. \A h \in Gens \ {g} : pc'[h] = pc[h] /\ batch'[h] = batch[h]
  BY <1>1 DEF ControlTypes, DataTypes
<1>3. /\ \A h \in Gens \ {g} : PlaceAt(h)'
      /\ \A r : Replacement(r, g)' = Replacement(r, g)
      /\ InFile' = InFile
  BY <1>1, <1>2, OthersPlaces
<1>4. PlaceAt(g) /\ GateAt(g)
  BY DEF Order, HandoffOrder, Gate
<1>5. ~failed[g] /\ QueuedRecs(g)' = QueuedRecs(g) /\ pc'[g] \in {"finish", "append"}
  BY <1>1, <1>4 DEF PlaceAt, StuckAt, GateAt, QueuedRecs, ControlTypes
<1>6. RewriteAt(g)'
  BY <1>3, <1>4, <1>5 DEF PlaceAt, RewriteAt
<1>7. CleanAt(g)'
  BY <1>1, <1>3, <1>4 DEF PlaceAt, CleanAt
<1>8. StuckAt(g)'
  BY <1>1, <1>4, <1>5 DEF PlaceAt, StuckAt
<1>9. AppendAt(g)'
  <2> SUFFICES ASSUME pc'[g] = "append"
               PROVE  Heads(batch'[g], pending[g]) /\ Before(InFile, Elems(batch'[g]))
    BY <1>1, <1>3 DEF AppendAt
  <2>1. ~CutOver(g) /\ pending[g] # <<>> /\ batch'[g] = pending[g]
    BY <1>1 DEF ControlTypes, DataTypes
  <2>2. rewrites[g] = <<>> /\ ~settled[g]
    BY <1>1, <1>4, <1>5, <2>1 DEF PlaceAt, StuckAt, CutOver, HandoffOrder, Spent
  <2>3. InFile \cap Elems(pending[g]) = {}
    BY <1>1, <1>4, <1>5, <2>2 DEF PlaceAt, CleanAt
  <2>4. Before(InFile \ Elems(pending[g]), Elems(pending[g]))
    BY <2>2 DEF Order, FileFits
  <2>5. Before(InFile, Elems(pending[g]))
    BY <2>3, <2>4 DEF Before
  <2>6. Heads(pending[g], pending[g])
    <3>1. Len(pending[g]) \in Nat
      BY DEF DataTypes
    <3> QED
      BY <3>1 DEF Heads
  <2> QED
    BY <2>1, <2>5, <2>6
<1> QED
  BY <1>3, <1>6, <1>7, <1>8, <1>9 DEF PlaceAt

\* A rewrite whose turn has come, or the end of an owned operation.
LEMMA TurnPlaces ==
  ASSUME ControlTypes, ControlTypes', DataTypes, HandoffOrder, Order,
         NEW g \in Gens, RewriteBegin(g) \/ FinishOwned(g)
  PROVE  \A h \in Gens : PlaceAt(h)'
<1>1. UNCHANGED <<file, pending, accepted, settled, epoch, failed>>
  BY DEF RewriteBegin, FinishOwned, genVars, histVars
<1>2. \A h \in Gens \ {g} : /\ pc'[h] = pc[h] /\ batch'[h] = batch[h] /\ seen'[h] = seen[h]
                            /\ err'[h] = err[h] /\ rewrites'[h] = rewrites[h]
  <2>1. CASE RewriteBegin(g)
    BY <2>1 DEF RewriteBegin, ControlTypes
  <2>2. CASE FinishOwned(g)
    <3>0. /\ \E p \in Pcs : pc' = [pc EXCEPT ![g] = p]
          /\ UNCHANGED seen \/ seen' = [seen EXCEPT ![g] = epoch[g]]
          /\ UNCHANGED err \/ err' = [err EXCEPT ![g] = FALSE]
      BY <2>2 DEF FinishOwned, Pcs
    <3>1. \A h \in Gens \ {g} : pc'[h] = pc[h] /\ seen'[h] = seen[h] /\ err'[h] = err[h]
      BY <3>0 DEF ControlTypes
    <3>2. \A h \in Gens \ {g} : batch'[h] = batch[h] /\ rewrites'[h] = rewrites[h]
      BY <2>2 DEF FinishOwned, DataTypes
    <3> QED
      BY <3>1, <3>2
  <2> QED
    BY <2>1, <2>2
<1>3. /\ \A h \in Gens \ {g} : PlaceAt(h)'
      /\ \A r : Replacement(r, g)' = Replacement(r, g)
      /\ InFile' = InFile
  BY <1>1, <1>2, OthersPlaces
<1>4. PlaceAt(g) /\ GateAt(g)
  BY DEF Order, HandoffOrder, Gate
<1>5. CASE RewriteBegin(g)
  <2>1. /\ pc[g] = "wait" /\ pc'[g] = "write" /\ UNCHANGED <<batch, seen, err, rewrites>>
    BY <1>5 DEF RewriteBegin, ControlTypes
  <2>2. QueuedRecs(g)' = QueuedRecs(g)
    BY <2>1 DEF QueuedRecs
  <2>3. RewriteAt(g)'
    BY <1>3, <1>4, <2>1, <2>2 DEF PlaceAt, RewriteAt
  <2>4. PlaceAt(g)'
    BY <2>1, <2>3 DEF PlaceAt, CleanAt, AppendAt, StuckAt
  <2> QED
    BY <1>3, <2>4
<1>6. CASE FinishOwned(g)
  <2>1. pc[g] = "finish" /\ (failed[g] => err[g])
    BY <1>4, <1>6 DEF FinishOwned, PlaceAt, StuckAt
  <2>2. CASE GoesOn(g)
    <3>1. /\ pc'[g] = "ready" /\ seen'[g] = epoch[g] /\ UNCHANGED <<rewrites, err>>
          /\ rewrites[g] = <<>> /\ ~err[g]
      BY <1>6, <2>2 DEF FinishOwned, GoesOn, ControlTypes
    <3>2. QueuedRecs(g)' = QueuedRecs(g)
      BY <3>1 DEF QueuedRecs
    <3>3. RewriteAt(g)'
      BY <1>3, <1>4, <3>1, <3>2 DEF PlaceAt, RewriteAt
    <3>4. CleanAt(g)'
      BY <1>1, <1>3, <1>4, <2>1, <3>1 DEF PlaceAt, CleanAt
    <3>5. StuckAt(g)'
      BY <1>1, <2>1, <3>1 DEF StuckAt, ControlTypes
    <3> QED
      BY <1>3, <3>1, <3>3, <3>4, <3>5 DEF PlaceAt, AppendAt
  <2>3. CASE ~GoesOn(g) /\ rewrites[g] = <<>>
    <3>1. pc'[g] = "idle" /\ UNCHANGED rewrites
      BY <1>6, <2>3 DEF FinishOwned, ControlTypes
    <3>2. QueuedRecs(g)' = QueuedRecs(g)
      BY <3>1 DEF QueuedRecs
    <3>3. RewriteAt(g)'
      BY <1>3, <1>4, <3>1, <3>2 DEF PlaceAt, RewriteAt
    <3>4. CleanAt(g)'
      BY <1>1, <1>3, <1>4, <2>1, <3>1 DEF PlaceAt, CleanAt
    <3> QED
      BY <1>3, <3>1, <3>3, <3>4 DEF PlaceAt, AppendAt, StuckAt
  <2>4. CASE ~GoesOn(g) /\ rewrites[g] # <<>>
    <3>1. /\ pc'[g] = "wait" /\ batch'[g] = Head(rewrites[g]).recs
          /\ rewrites'[g] = Tail(rewrites[g])
      <4>1. /\ pc' = [pc EXCEPT ![g] = "wait"]
            /\ batch' = [batch EXCEPT ![g] = Head(rewrites[g]).recs]
            /\ rewrites' = [rewrites EXCEPT ![g] = Tail(@)]
        BY <1>6, <2>4 DEF FinishOwned
      <4> QED
        BY <4>1 DEF ControlTypes, DataTypes
    <3>2. PICK q \in Seq(QueuedRewrite) : q = rewrites[g] /\ q # <<>>
      BY <2>4 DEF DataTypes
    <3>3. PICK p : p = Tail(q)
      OBVIOUS
    <3>4. /\ 1 \in DOMAIN q /\ Head(q) = q[1]
          /\ \A i \in DOMAIN p : i + 1 \in DOMAIN q /\ p[i] = q[i + 1]
      BY <3>2, <3>3
    <3>5. /\ QueuedRecs(g) = {q[i].recs : i \in DOMAIN q}
          /\ QueuedRecs(g)' = {p[i].recs : i \in DOMAIN p}
      BY <3>1, <3>2, <3>3 DEF QueuedRecs
    <3>6. batch'[g] \in QueuedRecs(g) /\ QueuedRecs(g)' \subseteq QueuedRecs(g)
      BY <3>1, <3>2, <3>4, <3>5
    <3>7. RewriteAt(g)'
      BY <1>3, <1>4, <3>6 DEF PlaceAt, RewriteAt
    <3> QED
      BY <1>3, <3>1, <3>7 DEF PlaceAt, CleanAt, AppendAt, StuckAt
  <2> QED
    BY <2>2, <2>3, <2>4
<1> QED
  BY <1>5, <1>6

\* What a storage operation of g leaves in the file disturbs no other generation:
\* the older ones have settled, and the newer ones hold newer records.
LEMMA WrittenPlaces ==
  ASSUME ControlTypes, ControlTypes', DataTypes, HandoffOrder, Order, Buffers', FileFits',
         NEW g \in Gens,
         DrainAppended(g) \/ DrainFailed(g) \/ RewriteWritten(g) \/ RewriteFailed(g)
  PROVE  \A h \in Gens : PlaceAt(h)'
<1>1. /\ UNCHANGED <<accepted, settled, epoch, seen, rewrites>>
      /\ \A h \in Gens \ {g} :
           /\ pc'[h] = pc[h] /\ batch'[h] = batch[h] /\ failed'[h] = failed[h]
           /\ err'[h] = err[h] /\ pending'[h] = pending[h]
  <2>1. UNCHANGED <<accepted, settled, epoch, seen, rewrites>>
    BY DEF DrainAppended, DrainFailed, RewriteWritten, RewriteFailed, histVars
  <2>2. CASE DrainAppended(g)
    <3>1. /\ pc' = [pc EXCEPT ![g] = "finish"] \/ UNCHANGED pc
          /\ pending' = [pending EXCEPT ![g] = Rest(g)] \/ UNCHANGED pending
          /\ batch' = [batch EXCEPT ![g] = Rest(g)] \/ UNCHANGED batch
          /\ UNCHANGED <<failed, err>>
      BY <2>2 DEF DrainAppended
    <3>2. /\ \A h \in Gens \ {g} : pc'[h] = pc[h]
          /\ \A h \in Gens \ {g} : pending'[h] = pending[h]
          /\ \A h \in Gens \ {g} : batch'[h] = batch[h]
      BY <3>1 DEF ControlTypes, DataTypes
    <3> QED
      BY <2>1, <3>1, <3>2
  <2>3. CASE DrainFailed(g) \/ RewriteWritten(g) \/ RewriteFailed(g)
    <3>1. /\ pc' = [pc EXCEPT ![g] = "finish"]
          /\ UNCHANGED <<pending, batch>>
          /\ \E b \in BOOLEAN : failed' = [failed EXCEPT ![g] = b]
          /\ err' = [err EXCEPT ![g] = TRUE] \/ UNCHANGED err
      BY <2>3 DEF DrainFailed, RewriteWritten, RewriteFailed, Sticky
    <3>2. /\ \A h \in Gens \ {g} : pc'[h] = pc[h]
          /\ \A h \in Gens \ {g} : failed'[h] = failed[h]
          /\ \A h \in Gens \ {g} : err'[h] = err[h]
      BY <3>1 DEF ControlTypes
    <3> QED
      BY <2>1, <3>1, <3>2
  <2> QED
    BY <2>2, <2>3
<1>2. /\ InStorage(g)
      /\ \/ InFile' \subseteq InFile \cup Elems(batch[g]) /\ pc[g] = "append"
         \/ InFile' = InFile /\ pc[g] = "write"
         \/ InFile' = Elems(batch[g]) /\ pc[g] = "write" /\ Replacement(batch[g], g)
  BY WrittenFacts
<1>3. /\ PlaceAt(g) /\ GateAt(g) /\ ~settled[g] /\ g \in Gens
      /\ \A h \in Gens : h < g => settled[h]
      /\ \A h \in Gens \ {g} : ~InStorage(h)
  BY <1>2, WriterFacts DEF Order, HandoffOrder, Gate
<1>4. pc[g] = "append" => /\ Elems(batch[g]) \subseteq Elems(pending[g])
                          /\ Elems(Rest(g)) \subseteq Elems(pending[g])
                          /\ Before(InFile, Elems(batch[g]))
  BY <1>3, AppendFacts DEF Order
<1>5. \A h \in Gens : Elems(pending'[h]) \subseteq Elems(pending[h])
  <2>1. pending'[g] = pending[g] \/ (pc[g] = "append" /\ pending'[g] = Rest(g))
    BY DEF DrainAppended, DrainFailed, RewriteWritten, RewriteFailed, DataTypes
  <2> QED
    BY <1>1, <1>4, <2>1
<1>6. accepted \in Nat /\ \A h \in Gens : QueuedRecs(h)' = QueuedRecs(h)
  BY <1>1 DEF ControlTypes, QueuedRecs
<1>7. ASSUME NEW h \in Gens, h # g
      PROVE  PlaceAt(h)'
  <2>1. ~settled[h] => InFile' \cap Elems(pending'[h]) \subseteq InFile \cap Elems(pending[h])
    <3> SUFFICES ASSUME ~settled[h]
                 PROVE  InFile' \cap Elems(pending[h]) \subseteq InFile \cap Elems(pending[h])
      BY <1>1, <1>7
    <3>1. g < h /\ Before(Elems(pending[g]), Elems(pending[h]))
      BY <1>3, <1>7 DEF Order, Buffers
    <3>2. Elems(pending[h]) \subseteq Nat
      BY RangeTyped DEF DataTypes
    <3>3. CASE InFile' \subseteq InFile \cup Elems(batch[g]) /\ pc[g] = "append"
      <4>1. \A x \in Elems(batch[g]) : x \notin Elems(pending[h])
        <5> SUFFICES ASSUME NEW x \in Elems(batch[g]), x \in Elems(pending[h])
                     PROVE  FALSE
          OBVIOUS
        <5>1. x < x /\ x \in Nat
          BY <1>4, <3>1, <3>2, <3>3 DEF Before
        <5> QED
          BY <5>1
      <4> QED
        BY <3>3, <4>1
    <3>4. CASE InFile' = InFile
      BY <3>4
    <3>5. CASE InFile' = Elems(batch[g]) /\ Replacement(batch[g], g)
      <4>1. Before(Elems(batch[g]), Elems(pending[h]))
        BY <3>1, <3>5 DEF Replacement
      <4>2. \A x \in Elems(batch[g]) : x \notin Elems(pending[h])
        <5> SUFFICES ASSUME NEW x \in Elems(batch[g]), x \in Elems(pending[h])
                     PROVE  FALSE
          OBVIOUS
        <5>1. x < x /\ x \in Nat
          BY <3>2, <4>1 DEF Before
        <5> QED
          BY <5>1
      <4> QED
        BY <3>5, <4>2
    <3> QED
      BY <1>2, <3>3, <3>4, <3>5
  <2>2. pc[h] # "append"
    BY <1>3, <1>7 DEF InStorage
  <2>3. PlaceAt(h)
    BY DEF Order
  <2> QED
    <3>1. /\ pc'[h] = pc[h] /\ batch'[h] = batch[h] /\ seen'[h] = seen[h]
          /\ epoch'[h] = epoch[h] /\ failed'[h] = failed[h] /\ err'[h] = err[h]
          /\ (settled[h] => settled'[h]) /\ pending'[h] = pending[h]
          /\ ((rewrites'[h] = <<>>) <=> (rewrites[h] = <<>>)) /\ h \in Gens
      BY <1>1, <1>7
    <3>2. QueuedRecs(h)' \subseteq QueuedRecs(h) /\ accepted <= accepted'
      BY <1>1, <1>6, <1>7
    <3>3. \A k \in Gens : k >= h =>
            Elems(pending'[k]) \subseteq Elems(pending[k]) \cup {x \in Nat : x > accepted}
      BY <1>5
    <3> QED
      BY <2>1, <2>2, <2>3, <3>1, <3>2, <3>3, PlaceKept
<1>8. \A recs : Replacement(recs, g) => Replacement(recs, g)'
  BY <1>1, <1>5 DEF Replacement, Before
<1>9. \A recs \in QueuedRecs(g)' : Replacement(recs, g)'
  BY <1>3, <1>6, <1>8 DEF PlaceAt, RewriteAt
<1>10. CASE DrainAppended(g)
  <2>1. /\ pc[g] = "append" /\ batch[g] # <<>> /\ ~err[g] /\ ~failed[g]
        /\ failed'[g] = failed[g] /\ err'[g] = err[g]
        /\ \/ CutOver(g) /\ pc'[g] = "finish"
           \/ /\ ~CutOver(g) /\ pending'[g] = Rest(g)
              /\ pc'[g] = "finish" \/ (pc'[g] = "append" /\ batch'[g] = Rest(g))
    BY <1>3, <1>10 DEF DrainAppended, GateAt, PlaceAt, StuckAt, ControlTypes, DataTypes
  <2>2. RewriteAt(g)'
    BY <1>9, <2>1 DEF RewriteAt
  <2>3. StuckAt(g)'
    BY <1>1, <1>3, <2>1 DEF PlaceAt, StuckAt
  <2>4. CASE CutOver(g) /\ pc'[g] = "finish"
    <3>1. rewrites[g] # <<>>
      BY <1>3, <2>1, <2>4 DEF PlaceAt, StuckAt, CutOver
    <3>2. CleanAt(g)' /\ AppendAt(g)'
      BY <1>1, <2>4, <3>1 DEF CleanAt, AppendAt
    <3> QED
      BY <1>7, <2>2, <2>3, <3>2 DEF PlaceAt
  <2>5. CASE /\ pending'[g] = Rest(g)
             /\ pc'[g] = "finish" \/ (pc'[g] = "append" /\ batch'[g] = Rest(g))
    <3>1. Before(InFile', Elems(Rest(g)))
      <4>1. /\ Before(Elems(batch[g]), Elems(Rest(g))) /\ Elems(batch[g]) # {}
            /\ Elems(batch[g]) \subseteq Nat /\ Elems(Rest(g)) \subseteq Nat
        <5>1. batch[g] \in Seq(Records) /\ Rest(g) \in Seq(Records)
          BY <1>3, <2>1, AppendFacts DEF Order
        <5> QED
          BY <1>3, <2>1, <5>1, AppendFacts, RangeTyped DEF Order
      <4>2. PICK m : m \in Elems(batch[g])
        BY <4>1
      <4>3. InFile \subseteq Nat
        BY DEF Order, FileFits
      <4>4. \A a \in InFile, b \in Elems(Rest(g)) : a < b
        <5> SUFFICES ASSUME NEW a \in InFile, NEW b \in Elems(Rest(g))
                     PROVE  a < b
          OBVIOUS
        <5>1. a < m /\ m < b /\ a \in Nat /\ b \in Nat /\ m \in Nat
          BY <1>4, <2>1, <4>1, <4>2, <4>3 DEF Before
        <5> QED
          BY <5>1
      <4> QED
        BY <1>2, <2>1, <4>1, <4>4 DEF Before
    <3>2. CleanAt(g)'
      <4>1. \A x \in InFile' : x \notin Elems(Rest(g))
        <5> SUFFICES ASSUME NEW x \in InFile', x \in Elems(Rest(g))
                     PROVE  FALSE
          OBVIOUS
        <5>1. x < x /\ x \in Nat
          BY <3>1 DEF Before, FileFits
        <5> QED
          BY <5>1
      <4> QED
        BY <2>5, <4>1 DEF CleanAt
    <3>3. AppendAt(g)'
      <4> SUFFICES ASSUME pc'[g] = "append"
                   PROVE  Heads(Rest(g), Rest(g)) /\ Before(InFile', Elems(Rest(g)))
        BY <2>5 DEF AppendAt
      <4>1. Len(Rest(g)) \in Nat
        BY <1>3, <2>1, AppendFacts DEF Order
      <4> QED
        BY <3>1, <4>1 DEF Heads
    <3> QED
      BY <1>7, <2>2, <2>3, <3>2, <3>3 DEF PlaceAt
  <2> QED
    BY <1>7, <2>1, <2>4, <2>5
<1>11. CASE DrainFailed(g) \/ RewriteFailed(g)
  <2>1. pc'[g] = "finish" /\ failed'[g] /\ err'[g]
    BY <1>11 DEF DrainFailed, RewriteFailed, Sticky, ControlTypes
  <2>2. PlaceAt(g)'
    BY <1>9, <2>1 DEF PlaceAt, CleanAt, AppendAt, RewriteAt, StuckAt
  <2> QED
    BY <1>7, <2>2
<1>12. CASE RewriteWritten(g)
  <2>1. pc'[g] = "finish" /\ ~failed'[g] /\ pc[g] = "write" /\ pending'[g] = pending[g]
    BY <1>12 DEF RewriteWritten, ControlTypes
  <2>2. InFile' = Elems(batch[g]) /\ Replacement(batch[g], g)
    <3>1. Replacement(batch[g], g) /\ batch[g] \in Seq(Records) /\ file' = Replaced(batch[g])
      BY <1>3, <1>12, <2>1 DEF PlaceAt, RewriteAt, DataTypes, RewriteWritten
    <3> QED
      BY <3>1, ReplacedOrdered DEF InFile, Replacement
  <2>3. CleanAt(g)'
    <3>1. \A x \in InFile' : x \notin Elems(pending[g])
      <4> SUFFICES ASSUME NEW x \in InFile', x \in Elems(pending[g])
                   PROVE  FALSE
        OBVIOUS
      <4>1. x < x /\ x \in Nat
        BY <1>3, <2>2 DEF Replacement, Before, FileFits
      <4> QED
        BY <4>1
    <3> QED
      BY <2>1, <3>1 DEF CleanAt
  <2>4. PlaceAt(g)'
    BY <1>9, <2>1, <2>3 DEF PlaceAt, AppendAt, RewriteAt, StuckAt
  <2> QED
    BY <1>7, <2>4
<1> QED
  BY <1>10, <1>11, <1>12

\* Every generation keeps its place.
LEMMA PlacesStep ==
  ASSUME ControlTypes, ControlTypes', DataTypes, HandoffOrder, Order, Buffers', FileFits',
         [Next]_vars
  PROVE  \A h \in Gens : PlaceAt(h)'
<1> USE DEF genVars, histVars
<1>1. CASE AppendRecord
  BY <1>1, AppendPlaces
<1>2. CASE Flush
  <2>1. cur \in Gens
    BY <1>2 DEF Flush, ControlTypes
  <2> QED
    BY <1>2, <2>1, FlushPlaces DEF Flush
<1>3. CASE Read
  BY <1>3, StateTypes, FlushPlaces DEF Read
<1>4. CASE Acquire
  <2>1. UNCHANGED <<file, pending, failed, epoch, accepted, opVars, settled>>
    BY <1>4 DEF Acquire
  <2> QED
    BY <2>1, StillPlaces
<1>5. ASSUME NEW recs \in Compacted(Target), Rewrite(recs)
      PROVE  \A h \in Gens : PlaceAt(h)'
  BY <1>5, RewritePlaces
<1>6. ASSUME NEW g \in Gens, Release(g)
      PROVE  \A h \in Gens : PlaceAt(h)'
  <2>1. UNCHANGED <<file, pending, failed, epoch, batch, err, accepted, settled>>
    BY <1>6 DEF Release
  <2>2. UNCHANGED opVars \/ FlushState(g, {})
    BY <1>6 DEF Release, opVars
  <2> QED
    BY <2>1, <2>2, StillPlaces, FlushPlaces
<1>7. ASSUME NEW g \in Gens, Continue(g)
      PROVE  \A h \in Gens : PlaceAt(h)'
  <2>1. CASE RunScheduledFlush(g)
    BY <2>1, FlushPlaces DEF RunScheduledFlush
  <2>2. CASE Settle(g)
    <3>1. /\ UNCHANGED <<file, pending, failed, epoch, accepted, opVars>>
          /\ \A h \in Gens : settled[h] => settled'[h]
      BY <2>2 DEF Settle, ControlTypes
    <3> QED
      BY <3>1, StillPlaces
  <2> QED
    BY <1>7, <2>1, <2>2, DrainPlaces, TurnPlaces, WrittenPlaces DEF Continue
<1>8. CASE Crash
  <2>1. \A g \in Gens : /\ pending'[g] = <<>> /\ ~failed'[g] /\ pc'[g] = "idle"
                        /\ rewrites'[g] = <<>>
    BY <1>8 DEF Crash, Empty
  <2> QED
    BY <2>1 DEF PlaceAt, CleanAt, AppendAt, RewriteAt, StuckAt, QueuedRecs, Elems
<1>9. CASE UNCHANGED vars
  BY <1>9, StillPlaces DEF vars
<1> QED
  BY <1>1, <1>2, <1>3, <1>4, <1>5, <1>6, <1>7, <1>8, <1>9 DEF Next

\* The order holds of a new store.
LEMMA OrderInit == Init => Order
<1> SUFFICES ASSUME Init
             PROVE  Order
  OBVIOUS
<1>1. /\ \A g \in Gens : /\ pending[g] = <<>> /\ ~failed[g] /\ pc[g] = "idle"
                         /\ rewrites[g] = <<>>
      /\ file.lines = <<>> /\ file.tail = NoTail
  BY DEF Init, Empty
<1>2. Elems(<<>>) = {} /\ Ascends(<<>>) /\ Rising(<<>>)
  BY DEF Elems, Ascends, Rising
<1>3. \A g \in Gens : PlaceAt(g)
  BY <1>1, <1>2 DEF PlaceAt, CleanAt, AppendAt, RewriteAt, StuckAt, QueuedRecs
<1>4. Buffers
  BY <1>1, <1>2 DEF Buffers, Before
<1>5. FileFits
  BY <1>1, <1>2 DEF FileFits, FileOrdered, InFile, RecordsOf, Before
<1> QED
  BY <1>3, <1>4, <1>5 DEF Order

\* Types, hand-over order and the order of the records are inductive together.
LEMMA InductionStep ==
  ASSUME Inv, Order, [Next]_vars
  PROVE  Inv' /\ Order'
<1>1. Inv'
  BY ControlStep, DataStep, HandoffStep DEF Inv, HandoffOrder
<1>2. Buffers' /\ FileFits'
  BY <1>1, BuffersStep, FileStep DEF Inv
<1>3. \A h \in Gens : PlaceAt(h)'
  BY <1>1, <1>2, PlacesStep DEF Inv
<1> QED
  BY <1>1, <1>2, <1>3 DEF Order

\* The file of the store never holds a record twice nor out of append order, for any
\* number of records, generations, rewrites, failures and crashes.
THEOREM FileOrderKept == Spec => []OrderedOnce
<1>1. Init => Inv /\ Order
  BY ControlInit, DataInit, HandoffInit, OrderInit DEF Inv
<1>2. Inv /\ Order /\ [Next]_vars => Inv' /\ Order'
  BY InductionStep
<1>3. Inv /\ Order => OrderedOnce
  BY DecodedFacts DEF Inv, DataTypes, Order, FileFits, OrderedOnce, Ascends
<1> QED
  BY <1>1, <1>2, <1>3, PTL DEF Spec

-----------------------------------------------------------------------------
\* What an append in one piece adds to a file without a torn tail.
LEMMA WholeAppend ==
  ASSUME NEW f \in FileState, f.tail = NoTail, NEW recs \in Seq(Records)
  PROVE  /\ FileAppend(f, recs).tail = NoTail
         /\ RecordsOf(FileAppend(f, recs)) = RecordsOf(f) \cup Elems(recs)
<1>1. PICK s \in Seq(Records \cup {Corrupt}), t \in Seq(Records \cup {Corrupt}) :
        s = f.lines /\ t = recs
  <2>1. f.lines \in Seq(Records \cup {Corrupt}) /\ recs \in Seq(Records \cup {Corrupt})
    BY DEF FileState
  <2> QED
    BY <2>1
<1>2. Elems(s \o t) = Elems(s) \cup Elems(t)
  BY ConcatElems
<1>3. FileAppend(f, recs).lines = s \o t /\ FileAppend(f, recs).tail = NoTail
  BY <1>1 DEF FileAppend
<1>4. Elems(recs) \subseteq Records /\ Corrupt \notin Records
  BY RangeTyped
<1> QED
  BY <1>1, <1>2, <1>3, <1>4 DEF RecordsOf

\* Without torn writes an append that failed or crashed took nothing away.
LEMMA WholeInterrupted ==
  ASSUME ~TornWrites, NEW f \in FileState, f.tail = NoTail, NEW recs \in Seq(Records),
         NEW fn \in Interrupted(f, recs)
  PROVE  fn.tail = NoTail /\ RecordsOf(f) \subseteq RecordsOf(fn)
<1>1. PICK k \in 0..Len(recs) : fn = FilePrefix(f, recs, k)
  BY DEF Interrupted
<1>2. CASE k = 0
  BY <1>1, <1>2 DEF FilePrefix
<1>3. CASE k # 0
  <2>1. PICK p \in Seq(Records) : p = SubSeq(recs, 1, k)
    <3>1. SubSeq(recs, 1, k) \in Seq(Records)
      BY <1>3
    <3> QED
      BY <3>1
  <2>2. fn = FileAppend(f, p)
    BY <1>1, <1>3, <2>1 DEF FilePrefix
  <2> QED
    BY <2>2, WholeAppend
<1> QED
  BY <1>2, <1>3

\* No append was torn: the file ends with its last line.
Whole == file.tail = NoTail

\* How a step changes the file when no write is torn.
LEMMA WholeStep ==
  ASSUME ~TornWrites, ControlTypes, DataTypes, HandoffOrder, Order, Whole, [Next]_vars
  PROVE  /\ Whole'
         /\ \/ InFile \subseteq InFile'
            \/ \E g \in Gens : pc[g] = "write" /\ InFile' = Elems(batch[g])
         /\ \A g \in Gens : DrainAppended(g) => InFile' = InFile \cup Elems(batch[g])
<1>0. file \in FileState /\ file.tail = NoTail /\ \A g \in Gens : batch[g] \in Seq(Records)
  BY DEF DataTypes, Whole
<1>a. ASSUME NEW g \in Gens, DrainAppended(g)
      PROVE  Whole' /\ InFile' = InFile \cup Elems(batch[g])
  <2>1. file' = FileAppend(file, batch[g])
    BY <1>a DEF DrainAppended
  <2> QED
    BY <1>0, <2>1, WholeAppend DEF Whole, InFile
<1>b. ASSUME NEW g \in Gens, file' \in Interrupted(file, batch[g])
      PROVE  Whole' /\ InFile \subseteq InFile'
  BY <1>0, <1>b, WholeInterrupted DEF Whole, InFile
<1>c. ASSUME NEW g \in Gens, pc[g] = "write", file' = Replaced(batch[g])
      PROVE  Whole' /\ InFile' = Elems(batch[g])
  <2>1. Ascends(batch[g])
    BY <1>c DEF Order, PlaceAt, RewriteAt, Replacement
  <2> QED
    BY <1>0, <1>c, <2>1, ReplacedOrdered DEF Whole, InFile, Replaced
<1>d. ASSUME UNCHANGED file
      PROVE  Whole' /\ InFile \subseteq InFile'
  BY <1>0, <1>d DEF Whole, InFile
<1>e. ASSUME NEW g \in Gens, DrainFailed(g) \/ RewriteWritten(g) \/ RewriteFailed(g)
      PROVE  \/ UNCHANGED file
             \/ file' \in Interrupted(file, batch[g])
             \/ pc[g] = "write" /\ file' = Replaced(batch[g])
  BY <1>e DEF DrainFailed, RewriteWritten, RewriteFailed
<1>f. Crash => \/ UNCHANGED file
               \/ \E g \in Gens : file' \in Interrupted(file, batch[g])
               \/ \E g \in Gens : pc[g] = "write" /\ file' = Replaced(batch[g])
  BY DEF Crash
<1>g. AppendRecord => UNCHANGED file
  BY DEF AppendRecord
<1>h. Quiet => UNCHANGED file
  BY DEF Quiet
<1>1. CASE \E g \in Gens : DrainAppended(g)
  BY <1>1, <1>a
<1>2. CASE ~\E g \in Gens : DrainAppended(g)
  <2>1. \/ UNCHANGED file
        \/ \E g \in Gens : file' \in Interrupted(file, batch[g])
        \/ \E g \in Gens : pc[g] = "write" /\ file' = Replaced(batch[g])
    BY <1>2, <1>e, <1>f, <1>g, <1>h, StepKinds
  <2> QED
    BY <1>2, <1>b, <1>c, <1>d, <2>1
<1> QED
  BY <1>1, <1>2

\* Only a crash takes readiness from a generation that was made.
LEMMA ReadyKept ==
  ASSUME ControlTypes, DataTypes, HandoffOrder, [Next]_vars, ~Crash
  PROVE  /\ \A h \in Gens : h <= made /\ Ready(h) => Ready(h)'
         /\ made <= made'
<1> USE DEF genVars, opVars, histVars
<1>0. made \in Nat
  BY DEF ControlTypes
<1>c. Chain /\ Gate /\ Spent
  BY DEF HandoffOrder
<1>1. ASSUME State, UNCHANGED <<retired, settled, refs>>
      PROVE  /\ \A h \in Gens : h <= made /\ Ready(h) => Ready(h)'
             /\ made <= made'
  BY <1>c, <1>1, StateChain
<1>2. ASSUME UNCHANGED <<made, prev>>, \A h \in Gens : settled[h] => settled'[h]
      PROVE  /\ \A h \in Gens : h <= made /\ Ready(h) => Ready(h)'
             /\ made <= made'
  <2>1. \A h \in Gens : prev[h] # 0 => prev[h] \in Gens
    BY DEF ControlTypes
  <2> QED
    BY <1>0, <1>2, <2>1 DEF Ready
<1>3. CASE AppendRecord
  BY <1>1, <1>3 DEF AppendRecord
<1>4. CASE Read
  BY <1>1, <1>4 DEF Read
<1>5. CASE Acquire
  <2>1. Target \in Gens /\ State /\ \A h \in Gens : h # Target => refs'[h] = refs[h]
    BY <1>5, StateTypes DEF Acquire, ControlTypes
  <2> QED
    BY <1>c, <1>5, <2>1, StateChain DEF Acquire
<1>6. ASSUME NEW recs \in Compacted(Target), Rewrite(recs)
      PROVE  /\ \A h \in Gens : h <= made /\ Ready(h) => Ready(h)'
             /\ made <= made'
  BY <1>1, <1>6 DEF Rewrite
<1>7. CASE Flush
  BY <1>2, <1>7 DEF Flush
<1>8. ASSUME NEW g \in Gens, Release(g)
      PROVE  /\ \A h \in Gens : h <= made /\ Ready(h) => Ready(h)'
             /\ made <= made'
  BY <1>2, <1>8 DEF Release
<1>9. ASSUME NEW g \in Gens, Continue(g)
      PROVE  /\ \A h \in Gens : h <= made /\ Ready(h) => Ready(h)'
             /\ made <= made'
  <2>1. CASE Settle(g)
    BY <1>2, <2>1 DEF Settle, ControlTypes
  <2>2. CASE ~Settle(g)
    BY <1>2, <1>9, <2>2 DEF Continue, RunScheduledFlush, DrainBegin, DrainAppended,
         DrainFailed, RewriteBegin, RewriteWritten, RewriteFailed, FinishOwned
  <2> QED
    BY <2>1, <2>2
<1>10. CASE UNCHANGED vars
  BY <1>2, <1>10 DEF vars
<1> QED
  BY <1>3, <1>4, <1>5, <1>6, <1>7, <1>8, <1>9, <1>10 DEF Next

-----------------------------------------------------------------------------
\* Every accepted record is in S, or buffered, or was lost by a crash.
Covers(S) ==
  \A r \in 1..accepted :
    r \in S \/ r \in lost \/ \E g \in Gens : r \in Elems(pending[g])

\* A rewrite that waits or writes is ready, and drops nothing.
KeepsAt(g) ==
  /\ pc[g] \in {"wait", "write"} => Ready(g) /\ Covers(Elems(batch[g]))
  /\ \A recs \in QueuedRecs(g) : Ready(g) /\ Covers(Elems(recs))

Coverage == Covers(InFile) /\ \A g \in Gens : KeepsAt(g)

\* What covers keeps covering, while the buffers and the file only grow.
LEMMA CoversKept ==
  ASSUME NEW S, NEW S1, Covers(S), S \subseteq S1, lost \subseteq lost',
         \A h \in Gens : Elems(pending[h]) \subseteq Elems(pending'[h]) \cup lost' \cup S1,
         \A r \in 1..accepted' : r \in 1..accepted \/ \E h \in Gens : r \in Elems(pending'[h])
  PROVE  \A r \in 1..accepted' :
           r \in S1 \/ r \in lost' \/ \E g \in Gens : r \in Elems(pending'[g])
  BY DEF Covers

\* A rewrite that no longer has any record of a generation to write.
LEMMA QueueMade ==
  ASSUME ControlTypes, DataTypes, HandoffOrder, NEW k \in Gens, pc[k] # "idle" \/ QueuedRecs(k) # {}
  PROVE  k <= made /\ pc[k] # "idle"
<1>1. pc[k] # "idle"
  <2>1. rewrites[k] = <<>> => QueuedRecs(k) = {}
    BY DEF QueuedRecs
  <2> QED
    BY <2>1 DEF HandoffOrder, Served
<1> QED
  BY <1>1 DEF HandoffOrder, Gate, GateAt, ControlTypes

\* What FinishOwned hands to the next rewrite, and what Rewrite queues.
LEMMA QueueMoves ==
  ASSUME ControlTypes, DataTypes, HandoffOrder, [Next]_vars, ~Crash, NEW k \in Gens
  PROVE  /\ \A recs \in QueuedRecs(k)' :
              recs \in QueuedRecs(k) \/ (k = Target /\ recs \in Compacted(k) /\ Rewrite(recs))
         /\ pc'[k] \in {"wait", "write"} =>
              \/ pc[k] \in {"wait", "write"} /\ batch'[k] = batch[k]
              \/ batch'[k] \in QueuedRecs(k)
              \/ k = Target /\ batch'[k] \in Compacted(k) /\ Rewrite(batch'[k])
<1> USE DEF genVars, opVars, histVars
<1>0. rewrites \in [Gens -> Seq(QueuedRewrite)] /\ pc \in [Gens -> Pcs] /\ batch \in [Gens -> Seq(Records)]
  BY DEF ControlTypes, DataTypes
<1>1. ASSUME UNCHANGED <<pc, batch, rewrites>>
      PROVE  /\ QueuedRecs(k)' = QueuedRecs(k)
             /\ pc'[k] = pc[k] /\ batch'[k] = batch[k]
  BY <1>1 DEF QueuedRecs
<1>2. ASSUME NEW g \in Gens, NEW A, FlushState(g, A), UNCHANGED batch
      PROVE  /\ QueuedRecs(k)' = QueuedRecs(k)
             /\ pc'[k] \in {pc[k], "ready"} /\ batch'[k] = batch[k]
  <2>1. QueuedRecs(k)' = QueuedRecs(k)
    BY <1>2, FlushQueued
  <2>2. pc'[k] \in {pc[k], "ready"}
    BY <1>0, <1>2 DEF FlushState
  <2> QED
    BY <1>2, <2>1, <2>2
<1>3. CASE AppendRecord \/ Acquire \/ UNCHANGED vars
  <2>1. UNCHANGED <<pc, batch, rewrites>>
    BY <1>3 DEF AppendRecord, Acquire, vars
  <2> QED
    BY <1>1, <2>1
<1>4. CASE Flush
  <2>1. cur \in Gens
    BY <1>4 DEF Flush, ControlTypes
  <2> QED
    BY <1>2, <1>4, <2>1 DEF Flush
<1>5. CASE Read
  BY <1>2, <1>5, StateTypes DEF Read
<1>6. ASSUME NEW recs \in Compacted(Target), Rewrite(recs)
      PROVE  /\ \A r \in QueuedRecs(k)' : r \in QueuedRecs(k) \/ (k = Target /\ r = recs)
             /\ pc'[k] \in {"wait", "write"} =>
                  \/ pc[k] \in {"wait", "write"} /\ batch'[k] = batch[k]
                  \/ k = Target /\ batch'[k] = recs
  <2>0. Target \in Gens
    BY <1>6, StateTypes DEF Rewrite
  <2>1. CASE pc[Target] = "idle"
    <3>1. /\ pc' = [pc EXCEPT ![Target] = "wait"] /\ batch' = [batch EXCEPT ![Target] = recs]
          /\ UNCHANGED rewrites
      BY <1>6, <2>1 DEF Rewrite
    <3>2. QueuedRecs(k)' = QueuedRecs(k)
      BY <3>1 DEF QueuedRecs
    <3> QED
      BY <1>0, <2>0, <3>1, <3>2
  <2>2. CASE pc[Target] # "idle"
    <3>1. /\ UNCHANGED <<pc, batch>>
          /\ rewrites' = [rewrites EXCEPT ![Target] = Append(@, [recs |-> recs, mark |-> {}])]
      BY <1>6, <2>2 DEF Rewrite
    <3>2. CASE k # Target
      <4>1. rewrites'[k] = rewrites[k]
        BY <1>0, <2>0, <3>1, <3>2
      <4>2. QueuedRecs(k)' = QueuedRecs(k)
        BY <4>1 DEF QueuedRecs
      <4> QED
        BY <3>1, <4>2
    <3>3. CASE k = Target
      <4>1. PICK q \in Seq(QueuedRewrite) : q = rewrites[k]
        BY <1>0
      <4>2. PICK x : x = [recs |-> recs, mark |-> {}]
        OBVIOUS
      <4>3. PICK p : p = Append(q, x)
        OBVIOUS
      <4>4. \A i \in DOMAIN p : p[i] = x \/ (i \in DOMAIN q /\ p[i] = q[i])
        BY <4>1, <4>3
      <4>5. rewrites'[k] = p /\ x.recs = recs
        BY <1>0, <3>1, <3>3, <4>1, <4>2, <4>3
      <4>6. QueuedRecs(k)' = {p[i].recs : i \in DOMAIN p} /\ QueuedRecs(k) = {q[i].recs : i \in DOMAIN q}
        BY <4>1, <4>5 DEF QueuedRecs
      <4>7. \A r \in QueuedRecs(k)' : r \in QueuedRecs(k) \/ r = recs
        BY <4>4, <4>5, <4>6
      <4> QED
        BY <3>1, <3>3, <4>7
    <3> QED
      BY <3>2, <3>3
  <2> QED
    BY <2>1, <2>2
<1>7. ASSUME NEW g \in Gens, Release(g)
      PROVE  /\ QueuedRecs(k)' = QueuedRecs(k)
             /\ pc'[k] \in {pc[k], "ready"} /\ batch'[k] = batch[k]
  <2>1. UNCHANGED batch /\ (UNCHANGED <<pc, rewrites>> \/ FlushState(g, {}))
    BY <1>7 DEF Release
  <2> QED
    BY <1>1, <1>2, <2>1
<1>8. ASSUME NEW g \in Gens, Continue(g)
      PROVE  /\ QueuedRecs(k)' \subseteq QueuedRecs(k)
             /\ pc'[k] \in {"wait", "write"} =>
                  \/ pc[k] \in {"wait", "write"} /\ batch'[k] = batch[k]
                  \/ batch'[k] \in QueuedRecs(k)
  <2>1. CASE RunScheduledFlush(g)
    BY <1>2, <2>1 DEF RunScheduledFlush
  <2>2. CASE FinishOwned(g)
    <3>1. CASE k # g
      <4>1. pc'[k] = pc[k] /\ batch'[k] = batch[k] /\ rewrites'[k] = rewrites[k]
        <5>1. pc'[k] = pc[k]
          BY <1>0, <2>2, <3>1 DEF FinishOwned
        <5>2. batch'[k] = batch[k]
          BY <1>0, <2>2, <3>1 DEF FinishOwned
        <5>3. rewrites'[k] = rewrites[k]
          BY <1>0, <2>2, <3>1 DEF FinishOwned
        <5> QED
          BY <5>1, <5>2, <5>3
      <4> QED
        BY <4>1 DEF QueuedRecs
    <3>2. CASE k = g /\ UNCHANGED rewrites /\ pc'[g] \in {"ready", "idle"}
      BY <3>2 DEF QueuedRecs
    <3>3. CASE /\ k = g /\ rewrites[g] # <<>> /\ batch' = [batch EXCEPT ![g] = Head(rewrites[g]).recs]
               /\ rewrites' = [rewrites EXCEPT ![g] = Tail(@)]
      <4>1. PICK q \in Seq(QueuedRewrite) : q = rewrites[g] /\ q # <<>>
        BY <1>0, <3>3
      <4>2. PICK p : p = Tail(q)
        OBVIOUS
      <4>3. /\ 1 \in DOMAIN q /\ Head(q) = q[1]
            /\ \A i \in DOMAIN p : i + 1 \in DOMAIN q /\ p[i] = q[i + 1]
        BY <4>1, <4>2
      <4>4. batch'[g] = q[1].recs /\ rewrites'[g] = p
        BY <1>0, <3>3, <4>1, <4>2, <4>3
      <4>5. /\ QueuedRecs(g) = {q[i].recs : i \in DOMAIN q}
            /\ QueuedRecs(g)' = {p[i].recs : i \in DOMAIN p}
        BY <4>1, <4>4 DEF QueuedRecs
      <4>6. batch'[g] \in QueuedRecs(g) /\ QueuedRecs(g)' \subseteq QueuedRecs(g)
        BY <4>3, <4>4, <4>5
      <4> QED
        BY <3>3, <4>6
    <3>4. \/ UNCHANGED rewrites /\ pc'[g] \in {"ready", "idle"}
          \/ /\ rewrites[g] # <<>> /\ batch' = [batch EXCEPT ![g] = Head(rewrites[g]).recs]
             /\ rewrites' = [rewrites EXCEPT ![g] = Tail(@)]
      BY <1>0, <2>2 DEF FinishOwned
    <3> QED
      BY <3>1, <3>2, <3>3, <3>4
  <2>3. CASE ~RunScheduledFlush(g) /\ ~FinishOwned(g)
    <3>1. UNCHANGED rewrites
      BY <1>8, <2>3 DEF Continue, Settle, DrainBegin, DrainAppended,
         DrainFailed, RewriteBegin, RewriteWritten, RewriteFailed
    <3>2. pc'[k] \in {"wait", "write"} => pc[k] \in {"wait", "write"} /\ batch'[k] = batch[k]
      <4>1. CASE Settle(g) \/ DrainBegin(g) \/ DrainAppended(g)
        <5>1. k # g => pc'[k] = pc[k] /\ batch'[k] = batch[k]
          BY <1>0, <4>1 DEF Settle, DrainBegin, DrainAppended
        <5>2. pc'[g] \notin {"wait", "write"}
          BY <1>0, <4>1 DEF Settle, DrainBegin, DrainAppended
        <5> QED
          BY <5>1, <5>2
      <4>2. CASE DrainFailed(g) \/ RewriteBegin(g) \/ RewriteWritten(g) \/ RewriteFailed(g)
        <5>1. UNCHANGED batch /\ \E p \in {"finish", "write"} : pc' = [pc EXCEPT ![g] = p]
          BY <4>2 DEF DrainFailed, RewriteBegin, RewriteWritten, RewriteFailed
        <5>2. pc'[g] = "write" => pc[g] = "wait"
          BY <1>0, <4>2 DEF DrainFailed, RewriteBegin, RewriteWritten, RewriteFailed
        <5> QED
          BY <1>0, <5>1, <5>2
      <4> QED
        BY <1>8, <2>3, <4>1, <4>2 DEF Continue
    <3> QED
      BY <3>1, <3>2 DEF QueuedRecs
  <2> QED
    BY <2>1, <2>2, <2>3
<1> QED
  BY <1>1, <1>3, <1>4, <1>5, <1>6, <1>7, <1>8, <1>2 DEF Next

-----------------------------------------------------------------------------
\* Only a crash loses records, and only finishing an operation reports any.
LEMMA HistoryKept ==
  ASSUME [Next]_vars, ~Crash
  PROVE  lost' = lost /\ (acked' = acked \/ \E g \in Gens : FinishOwned(g))
<1> USE DEF histVars
<1>1. AppendRecord \/ Flush \/ Read \/ Acquire => UNCHANGED <<lost, acked>>
  BY DEF AppendRecord, Flush, Read, Acquire
<1>2. \A recs \in Compacted(Target) : Rewrite(recs) => UNCHANGED <<lost, acked>>
  BY DEF Rewrite
<1>3. \A g \in Gens : Release(g) => UNCHANGED <<lost, acked>>
  BY DEF Release
<1>4. \A g \in Gens : Continue(g) => lost' = lost /\ (acked' = acked \/ FinishOwned(g))
  BY DEF Continue, RunScheduledFlush, Settle, DrainBegin, DrainAppended,
         DrainFailed, RewriteBegin, RewriteWritten, RewriteFailed, FinishOwned
<1>5. UNCHANGED vars => UNCHANGED <<lost, acked>>
  BY DEF vars
<1> QED
  BY <1>1, <1>2, <1>3, <1>4, <1>5 DEF Next

\* Apart from a crash, only a drain that is not cut over takes records out of a
\* buffer.
LEMMA BuffersGrow ==
  ASSUME ControlTypes, ControlTypes', DataTypes, HandoffOrder, [Next]_vars, ~Crash,
         ~\E g \in Gens : DrainAppended(g) /\ ~CutOver(g)
  PROVE  /\ \A h \in Gens : Elems(pending[h]) \subseteq Elems(pending'[h])
         /\ \A r \in 1..accepted' : r \in 1..accepted \/ \E h \in Gens : r \in Elems(pending'[h])
<1>1. CASE AppendRecord
  <2>1. /\ State /\ accepted' = accepted + 1 /\ accepted + 1 \in Records
        /\ pending' = [pending EXCEPT ![Target] = Append(@, accepted + 1)]
    BY <1>1 DEF AppendRecord, ControlTypes
  <2>6. PICK g \in Gens : g = Target
    BY <2>1, StateTypes
  <2>7. pending' = [pending EXCEPT ![g] = Append(@, accepted + 1)]
    BY <2>1, <2>6
  <2>2. PICK s \in Seq(Records) : s = pending[g]
    BY DEF DataTypes
  <2>3. pending'[g] = Append(s, accepted + 1) /\ \A h \in Gens \ {g} : pending'[h] = pending[h]
    BY <2>2, <2>7 DEF DataTypes
  <2>4. Elems(pending'[g]) = Elems(pending[g]) \cup {accepted + 1}
    <3>1. Elems(Append(s, accepted + 1)) = Elems(s) \cup {accepted + 1}
      BY <2>1, AppendElems
    <3> QED
      BY <2>2, <2>3, <3>1
  <2>5. \A r \in 1..(accepted + 1) : r \in 1..accepted \/ r = accepted + 1
    BY DEF ControlTypes
  <2> QED
    BY <2>1, <2>3, <2>4, <2>5
<1>2. CASE ~AppendRecord
  <2>1. ASSUME NEW g \in Gens, DrainAppended(g)
        PROVE  UNCHANGED <<pending, accepted>>
    BY <2>1 DEF DrainAppended, histVars
  <2>2. ASSUME NEW g \in Gens, DrainFailed(g) \/ RewriteWritten(g) \/ RewriteFailed(g)
        PROVE  UNCHANGED <<pending, accepted>>
    BY <2>2 DEF DrainFailed, RewriteWritten, RewriteFailed, histVars
  <2>3. UNCHANGED <<pending, accepted>>
    BY <1>2, <2>1, <2>2, StepKinds DEF Quiet
  <2> QED
    BY <2>3
<1> QED
  BY <1>1, <1>2

\* A drain that is not cut over has no rewrite behind it, nor does any other
\* generation with records to write.
LEMMA DrainAlone ==
  ASSUME ControlTypes, DataTypes, HandoffOrder, Order, Coverage, NEW g \in Gens,
         DrainAppended(g), ~CutOver(g), NEW k \in Gens
  PROVE  QueuedRecs(k) = {} /\ pc[k] \notin {"wait", "write"}
<1>1. pc[g] = "append"
  BY DEF DrainAppended
<1>2. ~settled[g] /\ \A h \in Gens : h < g => settled[h]
  BY <1>1, WriterFacts DEF InStorage
<1>3. CASE k = g
  <2>1. rewrites[g] = <<>>
    BY <1>1 DEF Order, PlaceAt, StuckAt, CutOver
  <2> QED
    BY <1>1, <1>3, <2>1 DEF QueuedRecs
<1>4. CASE k < g
  <2>1. settled[k]
    BY <1>2, <1>4
  <2> QED
    BY <2>1 DEF HandoffOrder, Spent, QueuedRecs
<1>5. CASE k > g
  <2> SUFFICES ASSUME QueuedRecs(k) # {} \/ pc[k] \in {"wait", "write"}
               PROVE  FALSE
    OBVIOUS
  <2>1. k <= made
    BY QueueMade
  <2>2. Ready(k)
    BY DEF Coverage, KeepsAt
  <2>3. settled[g]
    BY <1>5, <2>1, <2>2 DEF HandoffOrder, Chain
  <2> QED
    BY <1>2, <2>3
<1> QED
  BY <1>3, <1>4, <1>5

\* A rewrite that is called only when its generation is ready finds it ready.
LEMMA RewriteReady ==
  ASSUME ~LateRewrite, ControlTypes, DataTypes, HandoffOrder, [Next]_vars, ~Crash,
         NEW t \in Gens, t = Target, NEW recs \in Compacted(t), Rewrite(recs)
  PROVE  Ready(t)'
<1>1. State /\ (IF NeedsNew THEN cur = 0 ELSE Ready(cur))
  BY DEF Rewrite
<1>2. CASE NeedsNew
  <2>1. prev' = [prev EXCEPT ![t] = 0]
    BY <1>1, <1>2 DEF State
  <2>2. prev'[t] = 0
    BY <2>1 DEF ControlTypes
  <2> QED
    BY <2>2 DEF Ready
<1>3. CASE ~NeedsNew
  <2>1. t = cur /\ Ready(t)
    BY <1>1, <1>3 DEF Target
  <2>2. cur \in {0, made} /\ made \in Nat
    BY DEF HandoffOrder, Chain, ControlTypes
  <2>3. t <= made
    BY <2>1, <2>2
  <2> QED
    BY <2>1, <2>3, ReadyKept
<1> QED
  BY <1>2, <1>3

\* No record leaves the buffers, the file and the rewrites to come.
LEMMA CoverageStep ==
  ASSUME ~TornWrites, ~LateRewrite, ControlTypes, ControlTypes', DataTypes, HandoffOrder,
         Order, Whole, Coverage, [Next]_vars
  PROVE  Coverage'
<1>0. /\ InFile \subseteq InFile' \/ \E g \in Gens : pc[g] = "write" /\ InFile' = Elems(batch[g])
      /\ \A g \in Gens : DrainAppended(g) => InFile' = InFile \cup Elems(batch[g])
  BY WholeStep
<1>a. \E S : Covers(S) /\ S \subseteq InFile'
  BY <1>0 DEF Coverage, KeepsAt
<1>1. CASE Crash
  <2>1. accepted' = accepted /\ lost' = lost \cup UNION {Elems(pending[g]) : g \in Gens}
    BY <1>1 DEF Crash
  <2>2. \A r \in 1..accepted' : r \in InFile' \/ r \in lost'
    BY <1>a, <2>1 DEF Covers
  <2>3. \A k \in Gens : pc'[k] = "idle" /\ rewrites'[k] = <<>>
    BY <1>1 DEF Crash, Empty
  <2>4. \A k \in Gens : KeepsAt(k)'
    BY <2>3 DEF KeepsAt, QueuedRecs
  <2> QED
    BY <2>2, <2>4 DEF Coverage, Covers
<1>2. ASSUME ~Crash, NEW g \in Gens, DrainAppended(g), ~CutOver(g)
      PROVE  Coverage'
  <2>1. /\ pc[g] = "append" /\ pending' = [pending EXCEPT ![g] = Rest(g)] /\ UNCHANGED rewrites
        /\ pc'[g] \in {"finish", "append"} /\ \A k \in Gens \ {g} : pc'[k] = pc[k]
        /\ UNCHANGED <<accepted, lost>>
    BY <1>2 DEF DrainAppended, ControlTypes, histVars
  <2>2. \A k \in Gens : pc'[k] \notin {"wait", "write"} /\ QueuedRecs(k)' = {}
    <3> TAKE k \in Gens
    <3>1. QueuedRecs(k) = {} /\ pc[k] \notin {"wait", "write"}
      BY <1>2, DrainAlone
    <3>2. QueuedRecs(k)' = QueuedRecs(k)
      BY <2>1 DEF QueuedRecs
    <3>3. pc'[k] \notin {"wait", "write"}
      BY <2>1, <3>1
    <3> QED
      BY <3>1, <3>2, <3>3
  <2>3. \A k \in Gens : KeepsAt(k)'
    BY <2>2 DEF KeepsAt
  <2>4. Elems(pending[g]) = Elems(batch[g]) \cup Elems(Rest(g))
    BY <2>1, AppendFacts DEF Order
  <2>5. /\ pending'[g] = Rest(g) /\ \A h \in Gens \ {g} : pending'[h] = pending[h]
        /\ InFile' = InFile \cup Elems(batch[g])
    BY <1>0, <1>2, <2>1 DEF DataTypes
  <2>6. \A r \in 1..accepted :
          r \in InFile' \/ r \in lost \/ \E h \in Gens : r \in Elems(pending'[h])
    BY <2>4, <2>5 DEF Coverage, Covers
  <2> QED
    BY <2>1, <2>3, <2>6 DEF Coverage, Covers
<1>3. CASE ~Crash /\ ~\E g \in Gens : DrainAppended(g) /\ ~CutOver(g)
  <2>1. /\ \A h \in Gens : Elems(pending[h]) \subseteq Elems(pending'[h])
        /\ \A r \in 1..accepted' : r \in 1..accepted \/ \E h \in Gens : r \in Elems(pending'[h])
        /\ lost' = lost
    BY <1>3, BuffersGrow, HistoryKept
  <2>2. ASSUME NEW S, Covers(S)
        PROVE  \A r \in 1..accepted' :
                 r \in S \/ r \in lost' \/ \E h \in Gens : r \in Elems(pending'[h])
    BY <2>1, <2>2 DEF Covers
  <2>3. Covers(InFile)'
    BY <1>a, <2>2 DEF Covers
  <2>4. ASSUME NEW k \in Gens
        PROVE  KeepsAt(k)'
    <3>1. ASSUME NEW recs, Rewrite(recs), k = Target, recs \in Compacted(k)
          PROVE  Ready(k)' /\ Covers(Elems(recs))
      <4>1. Elems(recs) = InFile \ Elems(pending[k])
        BY <3>1, CompactedFacts DEF DataTypes, Order, FileFits
      <4>2. Ready(k)'
        BY <1>3, <3>1, RewriteReady
      <4> QED
        BY <4>1, <4>2 DEF Coverage, Covers
    <3>2. Ready(k) /\ (pc[k] # "idle" \/ QueuedRecs(k) # {}) => Ready(k)'
      BY <1>3, QueueMade, ReadyKept
    <3>3. ASSUME NEW recs \in QueuedRecs(k)
          PROVE  Ready(k)' /\ Covers(Elems(recs))
      BY <3>2 DEF Coverage, KeepsAt
    <3>4. \A recs \in QueuedRecs(k)' : Ready(k)' /\ Covers(Elems(recs))
      BY <1>3, <3>1, <3>3, QueueMoves
    <3>5. ASSUME pc'[k] \in {"wait", "write"}
          PROVE  Ready(k)' /\ Covers(Elems(batch'[k]))
      <4>1. CASE pc[k] \in {"wait", "write"} /\ batch'[k] = batch[k]
        BY <3>2, <4>1 DEF Coverage, KeepsAt
      <4> QED
        BY <1>3, <3>1, <3>3, <3>5, <4>1, QueueMoves
    <3> QED
      BY <2>2, <3>4, <3>5 DEF KeepsAt, Covers
  <2> QED
    BY <2>3, <2>4 DEF Coverage
<1> QED
  BY <1>1, <1>2, <1>3

\* Each accepted record stays in the file, in a buffer, or was only in memory when
\* the process crashed, whatever rewrites and hand-overs come between.
THEOREM NothingLost ==
  ASSUME ~TornWrites, ~LateRewrite
  PROVE  Spec => []NothingDropped
<1> DEFINE Kept == Inv /\ Order /\ Whole /\ Coverage
<1>1. Init => Kept
  <2> SUFFICES ASSUME Init
               PROVE  Kept
    OBVIOUS
  <2>1. Inv /\ Order
    BY ControlInit, DataInit, HandoffInit, OrderInit DEF Inv
  <2>2. Whole /\ Coverage
    <3>1. /\ accepted = 0 /\ file.tail = NoTail
          /\ \A g \in Gens : pc[g] = "idle" /\ rewrites[g] = <<>>
      BY DEF Init, Empty
    <3> QED
      BY <3>1 DEF Whole, Coverage, Covers, KeepsAt, QueuedRecs
  <2> QED
    BY <2>1, <2>2
<1>2. Kept /\ [Next]_vars => Kept'
  <2> SUFFICES ASSUME Kept, [Next]_vars
               PROVE  Kept'
    OBVIOUS
  <2>1. Inv' /\ Order'
    BY InductionStep
  <2> QED
    BY <2>1, WholeStep, CoverageStep DEF Inv
<1>3. Kept => NothingDropped
  BY DEF Coverage, Covers, NothingDropped
<1> QED
  BY <1>1, <1>2, <1>3, PTL DEF Spec

-----------------------------------------------------------------------------
\* The records awaited through a generation are still buffered, or in the file.  As
\* long as it has written nothing, and behind every rewrite, they are buffered.
QueuedMarks(g) == {rewrites[g][i].mark : i \in DOMAIN rewrites[g]}
MarkAt(g) ==
  /\ mark[g] \subseteq Elems(pending[g]) \cup InFile
  /\ pc[g] \in {"wait", "write"} \/ ~Ready(g) => mark[g] \subseteq Elems(pending[g])
  /\ pc[g] = "idle" \/ settled[g] => mark[g] = {}
  /\ \A m \in QueuedMarks(g) : m \subseteq Elems(pending[g])

\* The buffer that the map holds has not settled.
CurOpen == cur # 0 => ~settled[cur]

Marks == CurOpen /\ \A g \in Gens : MarkAt(g)

\* The buffer of the map is replaced before, or removed when, it settles.
LEMMA CurOpenStep ==
  ASSUME ControlTypes, DataTypes, HandoffOrder, CurOpen, [Next]_vars
  PROVE  CurOpen'
<1> USE DEF genVars, opVars, histVars
<1>1. ASSUME State, UNCHANGED <<retired, settled>>, \A g \in Gens : g # Target => refs'[g] = refs[g]
      PROVE  CurOpen'
  <2>1. ~settled[Target] /\ cur' = Target
    BY <1>1, StateChain DEF HandoffOrder, State
  <2> QED
    BY <1>1, <2>1 DEF CurOpen
<1>2. ASSUME UNCHANGED <<cur, settled>>
      PROVE  CurOpen'
  BY <1>2 DEF CurOpen
<1>3. CASE AppendRecord
  BY <1>1, <1>3 DEF AppendRecord
<1>4. CASE Read
  BY <1>1, <1>4 DEF Read
<1>5. CASE Acquire
  <2>1. Target \in Gens /\ State /\ UNCHANGED <<retired, settled>> /\ \A h \in Gens : h # Target => refs'[h] = refs[h]
    BY <1>5, StateTypes DEF Acquire, ControlTypes
  <2> QED
    BY <1>1, <2>1
<1>6. ASSUME NEW recs \in Compacted(Target), Rewrite(recs)
      PROVE  CurOpen'
  BY <1>1, <1>6 DEF Rewrite
<1>7. CASE Flush
  BY <1>2, <1>7 DEF Flush
<1>8. ASSUME NEW g \in Gens, Release(g)
      PROVE  CurOpen'
  BY <1>2, <1>8 DEF Release
<1>9. ASSUME NEW g \in Gens, Continue(g)
      PROVE  CurOpen'
  <2>1. CASE Settle(g)
    BY <2>1 DEF Settle, ControlTypes, CurOpen
  <2>2. CASE ~Settle(g)
    BY <1>2, <1>9, <2>2 DEF Continue, RunScheduledFlush, DrainBegin, DrainAppended,
         DrainFailed, RewriteBegin, RewriteWritten, RewriteFailed, FinishOwned
  <2> QED
    BY <2>1, <2>2
<1>10. CASE Crash
  BY <1>10 DEF Crash, CurOpen
<1>11. CASE UNCHANGED vars
  BY <1>2, <1>11 DEF vars
<1> QED
  BY <1>3, <1>4, <1>5, <1>6, <1>7, <1>8, <1>9, <1>10, <1>11 DEF Next

\* A generation that a step does not move.
LEMMA MarkKept ==
  ASSUME ControlTypes, ControlTypes', HandoffOrder, NEW k \in Gens, MarkAt(k),
         mark'[k] = mark[k], QueuedMarks(k)' \subseteq QueuedMarks(k),
         Elems(pending[k]) \subseteq Elems(pending'[k]),
         InFile \subseteq InFile' \/ mark[k] \subseteq Elems(pending[k]),
         pc'[k] \in {"wait", "write"} => pc[k] \in {"wait", "write"},
         pc'[k] = "idle" => pc[k] = "idle",
         k <= made /\ Ready(k) => Ready(k)',
         settled'[k] => settled[k] \/ pc[k] = "idle"
  PROVE  MarkAt(k)'
<1>1. k > made => mark[k] = {}
  BY DEF MarkAt, HandoffOrder, Gate, GateAt
<1>2. k <= made \/ k > made
  BY DEF ControlTypes
<1>3. mark'[k] \subseteq Elems(pending'[k]) \cup InFile'
  BY DEF MarkAt
<1>4. pc'[k] \in {"wait", "write"} \/ ~Ready(k)' => mark'[k] \subseteq Elems(pending'[k])
  BY <1>1, <1>2 DEF MarkAt
<1>5. pc'[k] = "idle" \/ settled'[k] => mark'[k] = {}
  BY DEF MarkAt
<1>6. \A m \in QueuedMarks(k)' : m \subseteq Elems(pending'[k])
  BY DEF MarkAt
<1> QED
  BY <1>3, <1>4, <1>5, <1>6 DEF MarkAt

\* A flush() that joins the last queued rewrite awaits its records through it.
LEMMA FlushJoins ==
  ASSUME DataTypes, NEW g \in Gens, NEW A, FlushState(g, A), NEW h \in Gens
  PROVE  \A m \in QueuedMarks(h)' :
           m \in QueuedMarks(h) \/ (h = g /\ \E m0 \in QueuedMarks(h) : m = m0 \cup A)
<1>1. PICK n : n = Len(rewrites[g])
  OBVIOUS
<1>2. CASE UNCHANGED rewrites
  BY <1>2 DEF QueuedMarks
<1>3. CASE n # 0 /\ rewrites' = [rewrites EXCEPT ![g][n].mark = @ \cup A]
  <2>1. \A k \in Gens : k # g => rewrites'[k] = rewrites[k]
    BY <1>3 DEF DataTypes
  <2>2. CASE h = g
    <3>1. PICK q \in Seq(QueuedRewrite) : q = rewrites[g]
      BY DEF DataTypes
    <3>2. rewrites'[g] = [q EXCEPT ![n].mark = @ \cup A]
      BY <1>3, <3>1 DEF DataTypes
    <3>3. PICK p : p = rewrites'[g]
      OBVIOUS
    <3>4. n \in Nat \ {0} /\ DOMAIN q = 1..n /\ \A i \in 1..n : q[i] \in QueuedRewrite
      BY <1>1, <1>3, <3>1
    <3>5. PICK e : e = [q[n] EXCEPT !.mark = @ \cup A]
      OBVIOUS
    <3>6. e.mark = q[n].mark \cup A
      BY <3>4, <3>5 DEF QueuedRewrite
    <3>7. p = [q EXCEPT ![n] = e]
      BY <3>2, <3>3, <3>5
    <3>8. DOMAIN p = 1..n /\ \A i \in 1..n : p[i] = IF i = n THEN e ELSE q[i]
      BY <3>1, <3>4, <3>7
    <3>9. QueuedMarks(g) = {q[i].mark : i \in DOMAIN q} /\ QueuedMarks(g)' = {p[i].mark : i \in DOMAIN p}
      BY <3>1, <3>3 DEF QueuedMarks
    <3>10. \A i \in 1..n : p[i].mark = q[i].mark \/ p[i].mark = q[n].mark \cup A
      BY <3>6, <3>8
    <3>11. n \in 1..n
      BY <3>4
    <3>12. \A i \in 1..n : q[i].mark \in QueuedMarks(g)
      BY <3>4, <3>9
    <3>13. ASSUME NEW m \in QueuedMarks(g)'
           PROVE  m \in QueuedMarks(g) \/ \E m0 \in QueuedMarks(g) : m = m0 \cup A
      <4>1. PICK i \in 1..n : m = p[i].mark
        BY <3>8, <3>9, <3>13
      <4>2. CASE p[i].mark = q[i].mark
        BY <3>12, <4>1, <4>2
      <4>3. CASE p[i].mark = q[n].mark \cup A
        BY <3>11, <3>12, <4>1, <4>3
      <4> QED
        BY <3>10, <4>2, <4>3
    <3> QED
      BY <2>2, <3>13
  <2>3. CASE h # g
    BY <2>1, <2>3 DEF QueuedMarks
  <2> QED
    BY <2>2, <2>3
<1> QED
  BY <1>1, <1>2, <1>3 DEF FlushState

\* flushState() awaits only what is buffered.
LEMMA FlushMarks ==
  ASSUME ControlTypes, ControlTypes', DataTypes, HandoffOrder, Marks,
         NEW g \in Gens, NEW A, FlushState(g, A), A \subseteq Elems(pending[g]),
         settled[g] => A = {}, UNCHANGED <<file, pending, settled>>,
         \A h \in Gens : h <= made /\ Ready(h) => Ready(h)'
  PROVE  \A h \in Gens : MarkAt(h)'
<1>1. InFile' = InFile /\ \A h \in Gens : MarkAt(h)
  BY DEF InFile, Marks
<1>2. \A h \in Gens \ {g} : pc'[h] = pc[h] /\ mark'[h] = mark[h] /\ QueuedMarks(h)' \subseteq QueuedMarks(h)
  <2>1. \A h \in Gens \ {g} : QueuedMarks(h)' \subseteq QueuedMarks(h)
    BY FlushJoins
  <2>2. \A h \in Gens \ {g} : pc'[h] = pc[h]
    BY DEF FlushState, ControlTypes
  <2>3. \A h \in Gens \ {g} : mark'[h] = mark[h]
    BY DEF FlushState, DataTypes
  <2> QED
    BY <2>1, <2>2, <2>3
<1>3. \A h \in Gens \ {g} : MarkAt(h)'
  BY <1>1, <1>2, MarkKept
<1>4. MarkAt(g)'
  <2>1. \A m \in QueuedMarks(g)' : m \subseteq Elems(pending[g])
    BY <1>1, FlushJoins DEF MarkAt
  <2>2. CASE pc[g] # "idle" /\ UNCHANGED pc /\ mark'[g] \in {mark[g], mark[g] \cup A}
    <3>1. g <= made
      BY <2>2 DEF HandoffOrder, Gate, GateAt, ControlTypes
    <3> QED
      BY <1>1, <2>1, <2>2, <3>1 DEF MarkAt
  <2>3. CASE pc[g] = "idle" /\ pc'[g] = "ready" /\ mark'[g] = A
    BY <2>1, <2>3 DEF MarkAt
  <2>4. CASE pc[g] = "idle" /\ UNCHANGED <<pc, mark>>
    BY <1>1, <2>1, <2>4 DEF MarkAt
  <2>5. \/ pc[g] # "idle" /\ UNCHANGED pc /\ mark'[g] \in {mark[g], mark[g] \cup A}
        \/ pc[g] = "idle" /\ pc'[g] = "ready" /\ mark'[g] = A
        \/ pc[g] = "idle" /\ UNCHANGED <<pc, mark>>
    <3>1. pc \in [Gens -> Pcs] /\ mark \in [Gens -> SUBSET Records]
      BY DEF ControlTypes, DataTypes
    <3> QED
      BY <3>1 DEF FlushState
  <2> QED
    BY <2>2, <2>3, <2>4, <2>5
<1> QED
  BY <1>3, <1>4

-----------------------------------------------------------------------------
\* While a rewrite replaces the file, whatever is awaited is buffered: the older
\* generations have settled, and the newer ones have written nothing.
LEMMA WriteMarks ==
  ASSUME ControlTypes, HandoffOrder, Marks, NEW g \in Gens, pc[g] = "write", NEW h \in Gens
  PROVE  mark[h] \subseteq Elems(pending[h])
<1>1. ~settled[g] /\ (h < g => settled[h])
  BY WriterFacts DEF InStorage
<1>2. MarkAt(h)
  BY DEF Marks
<1>3. CASE h < g
  BY <1>1, <1>2, <1>3 DEF MarkAt
<1>4. CASE h = g
  BY <1>2, <1>4 DEF MarkAt
<1>5. CASE h > g
  <2>1. CASE h <= made
    <3>1. ~Ready(h)
      BY <1>1, <1>5, <2>1 DEF HandoffOrder, Chain
    <3> QED
      BY <1>2, <3>1 DEF MarkAt
  <2>2. CASE h > made
    BY <1>2, <2>2 DEF HandoffOrder, Gate, GateAt, MarkAt
  <2>3. made \in Nat /\ h \in Nat
    BY DEF ControlTypes
  <2> QED
    BY <2>1, <2>2, <2>3
<1>6. h \in Nat /\ g \in Nat
  OBVIOUS
<1> QED
  BY <1>3, <1>4, <1>5, <1>6

\* A rewrite() awaits nothing itself.
LEMMA RewriteMarks ==
  ASSUME ControlTypes, ControlTypes', DataTypes, HandoffOrder, Marks, [Next]_vars, ~Crash,
         NEW recs \in Compacted(Target), Rewrite(recs)
  PROVE  \A h \in Gens : MarkAt(h)'
<1>1. /\ UNCHANGED <<file, pending, settled>>
      /\ \/ /\ pc[Target] = "idle" /\ pc' = [pc EXCEPT ![Target] = "wait"]
            /\ mark' = [mark EXCEPT ![Target] = {}] /\ UNCHANGED rewrites
         \/ /\ pc[Target] # "idle" /\ UNCHANGED <<pc, mark>>
            /\ rewrites' = [rewrites EXCEPT ![Target] = Append(@, [recs |-> recs, mark |-> {}])]
  BY DEF Rewrite
<1>2. PICK g \in Gens : g = Target
  BY StateTypes DEF Rewrite
<1>3. InFile' = InFile /\ \A h \in Gens : MarkAt(h) /\ (h <= made /\ Ready(h) => Ready(h)')
  BY <1>1, ReadyKept DEF InFile, Marks
<1>4. ASSUME NEW h \in Gens, h # g
      PROVE  MarkAt(h)'
  <2>1. pc'[h] = pc[h] /\ mark'[h] = mark[h] /\ rewrites'[h] = rewrites[h]
    BY <1>1, <1>2, <1>4 DEF ControlTypes, DataTypes
  <2>2. QueuedMarks(h)' = QueuedMarks(h)
    BY <2>1 DEF QueuedMarks
  <2> QED
    BY <1>1, <1>3, <2>1, <2>2, MarkKept
<1>5. MarkAt(g)'
  <2>1. CASE pc[g] = "idle"
    <3>1. mark'[g] = {} /\ rewrites' = rewrites
      BY <1>1, <1>2, <2>1 DEF DataTypes
    <3>2. QueuedMarks(g)' = QueuedMarks(g)
      BY <3>1 DEF QueuedMarks
    <3> QED
      BY <1>1, <1>3, <3>1, <3>2 DEF MarkAt
  <2>2. CASE pc[g] # "idle"
    <3>1. PICK q \in Seq(QueuedRewrite) : q = rewrites[g]
      BY DEF DataTypes
    <3>2. PICK x : x = [recs |-> recs, mark |-> {}]
      OBVIOUS
    <3>3. PICK p : p = Append(q, x)
      OBVIOUS
    <3>4. \A i \in DOMAIN p : p[i] = x \/ (i \in DOMAIN q /\ p[i] = q[i])
      BY <3>1, <3>3
    <3>5. rewrites'[g] = p /\ x.mark = {}
      BY <1>1, <1>2, <2>2, <3>1, <3>2, <3>3 DEF DataTypes
    <3>6. QueuedMarks(g)' = {p[i].mark : i \in DOMAIN p} /\ QueuedMarks(g) = {q[i].mark : i \in DOMAIN q}
      BY <3>1, <3>5 DEF QueuedMarks
    <3>7. \A m \in QueuedMarks(g)' : m \in QueuedMarks(g) \/ m = {}
      BY <3>4, <3>5, <3>6
    <3>8. pc'[g] = pc[g] /\ mark'[g] = mark[g]
      BY <1>1, <1>2, <2>2
    <3>9. g <= made
      BY <2>2 DEF HandoffOrder, Gate, GateAt, ControlTypes
    <3> QED
      BY <1>1, <1>3, <3>7, <3>8, <3>9 DEF MarkAt
  <2> QED
    BY <2>1, <2>2
<1> QED
  BY <1>4, <1>5

\* finishOwnedFlush() leaves nothing awaited when it settles, and what was awaited
\* behind it is buffered.
LEMMA FinishMarks ==
  ASSUME ControlTypes, ControlTypes', DataTypes, HandoffOrder, Marks, NEW g \in Gens, FinishOwned(g)
  PROVE  \A h \in Gens : MarkAt(h)'
<1>1. UNCHANGED <<file, pending, settled, made, prev>> /\ pc[g] = "finish"
  BY DEF FinishOwned, genVars
<1>2. /\ InFile' = InFile /\ \A h \in Gens : MarkAt(h) /\ (Ready(h) <=> Ready(h)')
  BY <1>1 DEF InFile, Marks, Ready
<1>3. \A h \in Gens \ {g} : pc'[h] = pc[h] /\ mark'[h] = mark[h] /\ rewrites'[h] = rewrites[h]
  <2>1. \A h \in Gens \ {g} : pc'[h] = pc[h]
    BY DEF FinishOwned, ControlTypes
  <2>2. \A h \in Gens \ {g} : mark'[h] = mark[h] /\ rewrites'[h] = rewrites[h]
    BY DEF FinishOwned, DataTypes
  <2> QED
    BY <2>1, <2>2
<1>4. ASSUME NEW h \in Gens, h # g
      PROVE  MarkAt(h)'
  <2>1. QueuedMarks(h)' = QueuedMarks(h)
    BY <1>3, <1>4 DEF QueuedMarks
  <2> QED
    BY <1>1, <1>2, <1>3, <1>4, <2>1, MarkKept
<1>5. Ready(g)
  BY <1>1 DEF HandoffOrder, Gate, GateAt
<1>6. MarkAt(g)'
  <2>1. CASE GoesOn(g)
    <3>1. pc'[g] = "ready" /\ UNCHANGED <<mark, rewrites>>
      BY <2>1 DEF FinishOwned, ControlTypes
    <3>2. QueuedMarks(g)' = QueuedMarks(g)
      BY <3>1 DEF QueuedMarks
    <3> QED
      BY <1>1, <1>2, <1>5, <3>1, <3>2, MarkKept
  <2>2. CASE ~GoesOn(g) /\ rewrites[g] = <<>>
    <3>1. mark'[g] = {} /\ UNCHANGED rewrites
      BY <2>2 DEF FinishOwned, DataTypes
    <3>2. QueuedMarks(g)' = QueuedMarks(g)
      BY <3>1 DEF QueuedMarks
    <3> QED
      BY <1>1, <1>2, <3>1, <3>2 DEF MarkAt
  <2>3. CASE ~GoesOn(g) /\ rewrites[g] # <<>>
    <3>1. /\ pc' = [pc EXCEPT ![g] = "wait"]
          /\ mark' = [mark EXCEPT ![g] = Head(rewrites[g]).mark]
          /\ rewrites' = [rewrites EXCEPT ![g] = Tail(@)]
      BY <2>3 DEF FinishOwned
    <3>2. PICK q \in Seq(QueuedRewrite) : q = rewrites[g] /\ q # <<>>
      BY <2>3 DEF DataTypes
    <3>3. PICK p : p = Tail(q)
      OBVIOUS
    <3>4. /\ 1 \in DOMAIN q /\ Head(q) = q[1]
          /\ \A i \in DOMAIN p : i + 1 \in DOMAIN q /\ p[i] = q[i + 1]
      BY <3>2, <3>3
    <3>5. pc'[g] = "wait" /\ mark'[g] = q[1].mark /\ rewrites'[g] = p
      BY <3>1, <3>2, <3>3, <3>4 DEF ControlTypes, DataTypes
    <3>6. /\ QueuedMarks(g) = {q[i].mark : i \in DOMAIN q}
          /\ QueuedMarks(g)' = {p[i].mark : i \in DOMAIN p}
      BY <3>2, <3>5 DEF QueuedMarks
    <3>7. mark'[g] \in QueuedMarks(g) /\ QueuedMarks(g)' \subseteq QueuedMarks(g)
      BY <3>4, <3>5, <3>6
    <3>8. ~settled[g]
      BY <2>3 DEF HandoffOrder, Spent
    <3> QED
      BY <1>1, <1>2, <3>5, <3>7, <3>8 DEF MarkAt
  <2> QED
    BY <2>1, <2>2, <2>3
<1> QED
  BY <1>4, <1>6

\* storage.append moves records from the buffer to the file, or leaves both alone.
LEMMA AppendMarks ==
  ASSUME ~TornWrites, ControlTypes, ControlTypes', DataTypes, HandoffOrder, Order, Whole, Marks,
         NEW g \in Gens, DrainAppended(g) \/ DrainFailed(g)
  PROVE  \A h \in Gens : MarkAt(h)'
<1>1. UNCHANGED <<settled, made, prev, mark, rewrites>> /\ pc[g] = "append"
  BY DEF DrainAppended, DrainFailed
<1>2. \A h \in Gens : /\ MarkAt(h) /\ QueuedMarks(h)' = QueuedMarks(h)
                      /\ mark'[h] = mark[h] /\ (Ready(h) => Ready(h)')
                      /\ settled'[h] = settled[h]
  BY <1>1 DEF Marks, QueuedMarks, Ready
<1>3. \A h \in Gens \ {g} : pc'[h] = pc[h] /\ pending'[h] = pending[h]
  <2>1. \A h \in Gens \ {g} : pc'[h] = pc[h]
    BY DEF DrainAppended, DrainFailed, ControlTypes
  <2>2. \A h \in Gens \ {g} : pending'[h] = pending[h]
    BY DEF DrainAppended, DrainFailed, DataTypes
  <2> QED
    BY <2>1, <2>2
<1>4. pc'[g] \in {"finish", "append"}
  BY DEF DrainAppended, DrainFailed, ControlTypes
<1>0. [Next]_vars
  BY DEF Next, Continue
<1>5. InFile \subseteq InFile' /\ (DrainAppended(g) => InFile' = InFile \cup Elems(batch[g]))
  <2>1. CASE DrainAppended(g)
    BY <1>0, <2>1, WholeStep
  <2>2. CASE ~DrainAppended(g)
    <3>1. file' \in Interrupted(file, batch[g]) /\ file \in FileState /\ batch[g] \in Seq(Records)
      BY <2>2 DEF DrainFailed, DataTypes
    <3> QED
      BY <2>2, <3>1, WholeInterrupted DEF Whole, InFile
  <2> QED
    BY <2>1, <2>2
<1>6. ASSUME NEW h \in Gens, pending'[h] = pending[h]
      PROVE  MarkAt(h)'
  BY <1>1, <1>2, <1>3, <1>4, <1>5, <1>6, MarkKept
<1>7. CASE pending'[g] = pending[g]
  BY <1>3, <1>6, <1>7
<1>8. CASE pending'[g] # pending[g]
  <2>1. DrainAppended(g) /\ ~CutOver(g) /\ pending'[g] = Rest(g)
    BY <1>8 DEF DrainAppended, DrainFailed, DataTypes
  <2>2. Elems(pending[g]) = Elems(batch[g]) \cup Elems(Rest(g))
    BY <1>1, AppendFacts DEF Order
  <2>3. rewrites[g] = <<>>
    BY <1>1, <2>1 DEF Order, PlaceAt, StuckAt, CutOver
  <2>4. QueuedMarks(g) = {}
    BY <2>3 DEF QueuedMarks
  <2>5. Ready(g) /\ ~settled[g]
    BY <1>1 DEF HandoffOrder, Gate, GateAt, Spent
  <2>6. mark'[g] \subseteq Elems(pending'[g]) \cup InFile'
    BY <1>2, <1>5, <2>1, <2>2 DEF MarkAt
  <2>7. MarkAt(g)'
    BY <1>2, <1>4, <2>4, <2>5, <2>6 DEF MarkAt
  <2> QED
    BY <1>3, <1>6, <2>7
<1> QED
  BY <1>7, <1>8

\* Every step keeps what is awaited in a buffer or in the file.
LEMMA MarksStep ==
  ASSUME ~TornWrites, ControlTypes, ControlTypes', DataTypes, HandoffOrder, Order, Whole, Marks,
         [Next]_vars
  PROVE  Marks'
<1> USE DEF genVars, histVars
<1>0. CurOpen'
  BY CurOpenStep DEF Marks
<1> SUFFICES \A h \in Gens : MarkAt(h)'
  BY <1>0 DEF Marks
<1>8. CASE Crash
  <2>1. \A g \in Gens : mark'[g] = {} /\ rewrites'[g] = <<>>
    BY <1>8 DEF Crash, Empty
  <2> QED
    BY <2>1 DEF MarkAt, QueuedMarks
<1>a. ASSUME ~Crash, UNCHANGED <<mark, rewrites>>,
             \A h \in Gens : /\ Elems(pending[h]) \subseteq Elems(pending'[h])
                             /\ InFile \subseteq InFile' \/ mark[h] \subseteq Elems(pending[h])
                             /\ pc'[h] \in {"wait", "write"} => pc[h] \in {"wait", "write"}
                             /\ pc'[h] = "idle" => pc[h] = "idle"
                             /\ settled'[h] => settled[h] \/ pc[h] = "idle"
      PROVE  \A h \in Gens : MarkAt(h)'
  <2>1. \A h \in Gens : MarkAt(h) /\ QueuedMarks(h)' = QueuedMarks(h) /\ (h <= made /\ Ready(h) => Ready(h)')
    BY <1>a, ReadyKept DEF Marks, QueuedMarks
  <2> QED
    BY <1>a, <2>1, MarkKept
<1>b. UNCHANGED file => InFile' = InFile
  BY DEF InFile
<1>1. CASE AppendRecord /\ ~Crash
  <2>1. \A h \in Gens : Elems(pending[h]) \subseteq Elems(pending'[h])
    <3>1. ~\E g \in Gens : DrainAppended(g) /\ ~CutOver(g)
      <4>1. accepted \in Nat /\ accepted' = accepted + 1
        BY <1>1 DEF AppendRecord, ControlTypes
      <4>2. \A g \in Gens : DrainAppended(g) => accepted' = accepted
        BY DEF DrainAppended
      <4> QED
        BY <4>1, <4>2
    <3> QED
      BY <1>1, <3>1, BuffersGrow
  <2>2. UNCHANGED <<file, mark, rewrites, pc, settled>>
    BY <1>1 DEF AppendRecord, opVars
  <2> QED
    BY <1>1, <1>a, <1>b, <2>1, <2>2
<1>2. CASE Flush /\ ~Crash
  <2>1. cur \in Gens /\ ~settled[cur]
    BY <1>2 DEF Flush, ControlTypes, Marks, CurOpen
  <2> QED
    BY <1>2, <2>1, FlushMarks, ReadyKept DEF Flush
<1>3. CASE Read /\ ~Crash
  <2>1. Target \in Gens /\ ~settled[Target]
    BY <1>3, StateChain DEF Read, HandoffOrder
  <2> QED
    BY <1>3, <2>1, FlushMarks, ReadyKept DEF Read
<1>4. CASE (Acquire \/ UNCHANGED vars) /\ ~Crash
  <2>1. UNCHANGED <<file, pending, mark, rewrites, pc, settled>>
    BY <1>4 DEF Acquire, opVars, vars
  <2> QED
    BY <1>4, <1>a, <1>b, <2>1
<1>5. ASSUME ~Crash, NEW recs \in Compacted(Target), Rewrite(recs)
      PROVE  \A h \in Gens : MarkAt(h)'
  BY <1>5, RewriteMarks
<1>6. ASSUME ~Crash, NEW g \in Gens, Release(g)
      PROVE  \A h \in Gens : MarkAt(h)'
  <2>1. UNCHANGED <<file, pending, settled>> /\ (UNCHANGED <<pc, mark, rewrites>> \/ FlushState(g, {}))
    BY <1>6 DEF Release
  <2>2. CASE UNCHANGED <<pc, mark, rewrites>>
    BY <1>6, <1>a, <1>b, <2>1, <2>2
  <2>3. CASE FlushState(g, {})
    BY <1>6, <2>1, <2>3, FlushMarks, ReadyKept
  <2> QED
    BY <2>1, <2>2, <2>3
<1>7. ASSUME ~Crash, NEW g \in Gens, Continue(g)
      PROVE  \A h \in Gens : MarkAt(h)'
  <2>1. CASE RunScheduledFlush(g)
    BY <1>7, <2>1, FlushMarks, ReadyKept DEF RunScheduledFlush
  <2>2. CASE Settle(g)
    <3>1. UNCHANGED <<file, pending, mark, rewrites, pc>> /\ pc[g] = "idle"
      BY <2>2 DEF Settle, opVars
    <3>2. \A h \in Gens \ {g} : settled'[h] = settled[h]
      BY <2>2 DEF Settle, ControlTypes
    <3> QED
      BY <1>7, <1>a, <1>b, <3>1, <3>2
  <2>3. CASE DrainBegin(g) \/ RewriteBegin(g)
    <3>1. UNCHANGED <<file, pending, mark, rewrites, settled>>
      BY <2>3 DEF DrainBegin, RewriteBegin
    <3>2. \A h \in Gens : /\ pc'[h] \in {"wait", "write"} => pc[h] \in {"wait", "write"}
                          /\ pc'[h] = "idle" => pc[h] = "idle"
      BY <2>3 DEF DrainBegin, RewriteBegin, ControlTypes
    <3> QED
      BY <1>7, <1>a, <1>b, <3>1, <3>2
  <2>4. CASE DrainAppended(g) \/ DrainFailed(g)
    BY <2>4, AppendMarks
  <2>5. CASE RewriteWritten(g) \/ RewriteFailed(g)
    <3>1. UNCHANGED <<pending, mark, rewrites, settled>> /\ pc[g] = "write" /\ pc' = [pc EXCEPT ![g] = "finish"]
      BY <2>5 DEF RewriteWritten, RewriteFailed
    <3>2. \A h \in Gens : /\ pc'[h] \in {"wait", "write"} => pc[h] \in {"wait", "write"}
                          /\ pc'[h] = "idle" => pc[h] = "idle"
      BY <3>1 DEF ControlTypes
    <3>3. \A h \in Gens : mark[h] \subseteq Elems(pending[h])
      BY <3>1, WriteMarks
    <3> QED
      BY <1>7, <1>a, <3>1, <3>2, <3>3
  <2>6. CASE FinishOwned(g)
    BY <2>6, FinishMarks
  <2> QED
    BY <1>7, <2>1, <2>2, <2>3, <2>4, <2>5, <2>6 DEF Continue
<1> QED
  BY <1>1, <1>2, <1>3, <1>4, <1>5, <1>6, <1>7, <1>8 DEF Next

\* A flush() or read() that resolves has its records in the file: the promise it
\* joined is not kept by a retry, a hand-over or a failed write that lost them.
THEOREM FlushDurable ==
  ASSUME ~TornWrites
  PROVE  Spec => FlushReportsDurable
<1> DEFINE Kept == Inv /\ Order /\ Whole /\ Marks
           Durable == (\A g \in Gens : rewrites[g] = <<>>) => (acked' \ acked) \subseteq InFile
<1>1. Init => Kept
  <2> SUFFICES ASSUME Init
               PROVE  Kept
    OBVIOUS
  <2>1. Inv /\ Order
    BY ControlInit, DataInit, HandoffInit, OrderInit DEF Inv
  <2>2. Whole /\ Marks
    <3>1. /\ cur = 0 /\ file.tail = NoTail
          /\ \A g \in Gens : mark[g] = {} /\ rewrites[g] = <<>>
      BY DEF Init, Empty
    <3> QED
      BY <3>1 DEF Whole, Marks, CurOpen, MarkAt, QueuedMarks
  <2> QED
    BY <2>1, <2>2
<1>2. Kept /\ [Next]_vars => Kept'
  <2> SUFFICES ASSUME Kept, [Next]_vars
               PROVE  Kept'
    OBVIOUS
  <2>1. Inv' /\ Order'
    BY InductionStep
  <2> QED
    BY <2>1, WholeStep, MarksStep DEF Inv
<1>3. Kept /\ [Next]_vars => [Durable]_vars
  <2> SUFFICES ASSUME Kept, [Next]_vars, \A g \in Gens : rewrites[g] = <<>>
               PROVE  (acked' \ acked) \subseteq InFile
    BY DEF Durable
  <2>1. CASE acked' = acked
    BY <2>1
  <2>2. ASSUME NEW g \in Gens, FinishOwned(g)
        PROVE  (acked' \ acked) \subseteq InFile
    <3>1. CASE GoesOn(g) \/ err[g]
      BY <2>2, <3>1 DEF FinishOwned, Reported
    <3>2. CASE ~GoesOn(g) /\ ~err[g]
      <4>1. pending[g] = <<>> /\ acked' = acked \cup mark[g]
        BY <2>2, <3>2 DEF FinishOwned, Reported, GoesOn
      <4>2. Elems(pending[g]) = {}
        BY <4>1 DEF Elems
      <4>3. mark[g] \subseteq InFile
        BY <4>2 DEF Marks, MarkAt
      <4> QED
        BY <4>1, <4>3
    <3> QED
      BY <3>1, <3>2
  <2>3. Crash => acked' = acked
    BY DEF Crash
  <2> QED
    BY <2>1, <2>2, <2>3, HistoryKept
<1>4. [][Durable]_vars <=> FlushReportsDurable
  BY DEF FlushReportsDurable, Durable
<1> QED
  BY <1>1, <1>2, <1>3, <1>4, PTL DEF Spec

=============================================================================
