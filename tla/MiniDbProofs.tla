---------------------------- MODULE MiniDbProofs ----------------------------
(***************************************************************************)
(* Proofs about minidb, for any number of processes, writers, keys,        *)
(* commits, compactions, faults and crashes.                               *)
(*                                                                         *)
(* The lock file (LockFile): the lock has one holder, and the file tells   *)
(* the truth about the living, provided that every process has one         *)
(* LockFile on the path, that no process dies while its bid is in the file *)
(* unverified, and that release() waits for a renew().  TLC refutes the    *)
(* properties without each of the three.                                   *)
(*                                                                         *)
(* The write path (MiniDb): acknowledged writes survive, what is applied   *)
(* is durable, value pointers read back, as far as Orderly says; and       *)
(* nobody is left parked, without any assumption.  The argument is in      *)
(* Inv: what is known of a key (KeyValue, KeySnap) is a fact about         *)
(* sequences of commits and frames, proved without the state variables     *)
(* first; the steps of the program then only have to say which of these    *)
(* facts they use.                                                         *)
(***************************************************************************)
EXTENDS LockFile, MiniDb, FilteringProofs, SequenceTheorems, TLAPS

-----------------------------------------------------------------------------
(* The lock file *)

OneUserPerProcess == \A u, v \in Users : Owner[u] = Owner[v] => u = v

LockOrderly == OneUserPerProcess /\ ~BidDropped /\ ~ScanFails /\ ~LateRenew

\* The lock file names a process whose bid has landed.
BidInFile == \E u \in Users : Mine(u) /\ Bidding(u)

\* A contender is visible from before it looks at the lock until it is done.
Registered ==
  \A u \in Users :
    pc[u] \in {"reap", "create", "inspect", "gate"} \/ Contends(u) => u \in watches

Mortal == \A u \in Users : pc[u] = "dead" <=> Owner[u] \notin alive

\* The file that is bid for is a dead process's until a bid has landed and names a
\* bidder from then on: nobody joins the bidders while there is a bid.
BidsAreForDead ==
  /\ \A u \in Users : Contends(u) => DeadLock \/ BidInFile
  /\ \A u \in Users : Bidding(u) => BidInFile

\* Who is about to claim has listed everybody who contends with it.
ListingComplete ==
  \A u, v \in Users : u # v /\ pc[u] = "check" /\ Contends(v) => v \in listing[u]

\* The holder's process is in the file, and nobody is left who would overwrite it.
HolderAlone ==
  \A u \in Users : held[u] =>
    /\ Mine(u) /\ pc[u] \in {"leave", "idle", "release", "unlink"}
    /\ \A v \in Users : ~Contends(v)

\* A live process is in the file for a reason.
LiveForReason == lockFile \in alive => orphan \/ \E u \in Users : Mine(u) /\ (held[u] \/ Bidding(u))

\* renew() and release() are the holder's, one at a time.
HolderOnly ==
  /\ \A u \in Users : renewing[u] => held[u] /\ pc[u] = "idle"
  /\ \A u \in Users : pc[u] \in {"release", "unlink"} => held[u]

LockInv ==
  /\ TypeOK /\ Registered /\ Mortal /\ BidsAreForDead /\ ListingComplete
  /\ HolderAlone /\ LiveForReason /\ HolderOnly

\* The places of a user, as far as the lock depends on them.
LEMMA Living ==
  ASSUME LockInv, NEW u \in Users, Contends(u) \/ Bidding(u) \/ held[u]
  PROVE  Owner[u] \in alive
BY DEF LockInv, Mortal, Contends, Bidding, HolderAlone

\* While a bid is in the file or the lock is held, the file does not name a dead
\* process.
LEMMA NotDead ==
  ASSUME LockInv, BidInFile \/ \E u \in Users : held[u]
  PROVE  lockFile \in alive /\ lockFile # NoLock /\ ~DeadLock
<1>1. PICK u \in Users : Mine(u) /\ (Bidding(u) \/ held[u])
  BY DEF BidInFile, LockInv, HolderAlone
<1>2. Owner[u] \in alive
  BY <1>1, Living
<1> QED
  BY <1>1, <1>2, MarkerAssumption DEF Mine, DeadLock, LockInv, TypeOK

\* A fresh directory, or one a dead process left its lock in.
LEMMA LockInitInv ==
  ASSUME LockInit
  PROVE  LockInv
<1>1. TypeOK
  <2>1. pc \in [Users -> Pcs] /\ attempts \in [Users -> 0..MaxAttempts]
    BY LockBounds DEF LockInit, Pcs
  <2> QED
    <3>1. /\ held \in [Users -> BOOLEAN] /\ renewing \in [Users -> BOOLEAN]
          /\ listing \in [Users -> SUBSET Users]
      BY DEF LockInit
    <3>2. /\ lockFile \in {Stale, NoLock} /\ watches = {} /\ strays = {} /\ alive = Procs
          /\ orphan \in BOOLEAN /\ crashes = 0 /\ failures = 0
      BY DEF LockInit
    <3> QED
      BY <2>1, <3>1, <3>2, LockBounds DEF TypeOK
<1>2. Mortal
  BY OwnerAssumption DEF LockInit, Mortal
<1>3. lockFile \notin alive
  BY MarkerAssumption DEF LockInit
<1> QED
  BY <1>1, <1>2, <1>3
  DEF LockInit, LockInv, Registered, Contends, BidsAreForDead, Bidding, ListingComplete,
      HolderAlone, LiveForReason, HolderOnly

\* A user that is not at a bid, or drops one nobody contends with, moves to a place
\* that is not one, and the file, the holders and the processes stay as they are.
LEMMA MoveKeepsInv ==
  ASSUME LockInv, NEW u \in Users, NEW s \in Pcs, MoveTo(u, s), pc[u] # "dead", s # "dead",
         \/ ~Bidding(u)
         \/ pc[u] = "settle" /\ ~Mine(u)
         \/ orphan' /\ \A v \in Users \ {u} : ~Contends(v),
         s \notin {"rename", "settle", "scan", "check"},
         held[u] => s \in {"leave", "idle", "release", "unlink"} /\ ~renewing[u],
         s \in {"release", "unlink"} => held[u],
         \A v \in Users \ {u} : v \in watches /\ pc[v] # "dead" => v \in watches',
         s \in {"reap", "create", "inspect", "gate"} => u \in watches',
         watches' \subseteq Users, strays' \subseteq Users,
         orphan' \in BOOLEAN, orphan => orphan',
         attempts' \in [Users -> 0..MaxAttempts], failures' \in 0..MaxFailures,
         UNCHANGED <<lockFile, alive, listing, held, renewing, crashes>>
  PROVE  LockInv'
<1>1. /\ pc \in [Users -> Pcs] /\ pc' = [pc EXCEPT ![u] = s]
      /\ pc'[u] = s /\ \A v \in Users : v # u => pc'[v] = pc[v]
  BY DEF MoveTo, LockInv, TypeOK
<1>2. TypeOK'
  BY <1>1 DEF LockInv, TypeOK
<1>3. Registered' /\ Mortal'
  BY <1>1 DEF LockInv, Registered, Mortal, Contends
<1>4. \A v \in Users : /\ Contends(v)' => Contends(v) /\ v # u
                       /\ Bidding(v)' => Bidding(v) /\ v # u
                       /\ Mine(v)' <=> Mine(v)
                       /\ v # u /\ Bidding(v) => Bidding(v)'
  BY <1>1 DEF Contends, Bidding, Mine
<1>5. ListingComplete' /\ HolderAlone' /\ HolderOnly'
  BY <1>1, <1>4 DEF LockInv, ListingComplete, HolderAlone, HolderOnly
<1>6. CASE Bidding(u) => ~Mine(u)
  <2>1. (DeadLock <=> DeadLock') /\ (BidInFile => BidInFile')
    BY <1>4, <1>6 DEF DeadLock, BidInFile
  <2>2. BidsAreForDead'
    BY <1>4, <2>1 DEF LockInv, BidsAreForDead
  <2>3. LiveForReason'
    BY <1>4, <1>6 DEF LockInv, LiveForReason
  <2> QED
    BY <1>2, <1>3, <1>5, <2>2, <2>3 DEF LockInv
<1>7. CASE orphan' /\ \A v \in Users \ {u} : ~Contends(v)
  <2>1. \A v \in Users : ~Contends(v)' /\ ~Bidding(v)'
    BY <1>4, <1>7 DEF Contends, Bidding
  <2> QED
    BY <1>2, <1>3, <1>5, <1>7, <2>1 DEF LockInv, BidsAreForDead, LiveForReason
<1> QED
  BY <1>6, <1>7

\* acquire() up to the decision to bid, losing a bid, and leaving.
LEMMA ApproachKeepsInv ==
  ASSUME LockInv, NEW u \in Users,
         \/ BeginAcquire(u) \/ ReapDeadWatches(u) \/ Inspect(u) \/ Leave(u)
         \/ (GateInspect(u) /\ ~DeadLock)
         \/ (SettleInspect(u) /\ ~Mine(u))
         \/ (TryCreate(u) /\ lockFile # NoLock)
  PROVE  LockInv'
<1>1. \A v \in Users : v \in DeadWatches => pc[v] = "dead"
  BY DEF DeadWatches, LockInv, Mortal
<1>2. HolderAlone /\ HolderOnly /\ Registered /\ TypeOK
  BY DEF LockInv
<1>3. CASE BeginAcquire(u)
  BY <1>2, <1>3, MoveKeepsInv, LockBounds
  DEF BeginAcquire, At, Bidding, Pcs, TypeOK, HolderOnly
<1>4. CASE ReapDeadWatches(u)
  BY <1>1, <1>2, <1>4, MoveKeepsInv
  DEF ReapDeadWatches, Reap, At, Bidding, Pcs, TypeOK, HolderAlone, Registered
<1>5. CASE Inspect(u)
  BY <1>2, <1>5, MoveKeepsInv
  DEF Inspect, At, Bidding, Pcs, TypeOK, HolderAlone, Registered
<1>7. CASE Leave(u)
  BY <1>2, <1>7, MoveKeepsInv
  DEF Leave, At, Bidding, Pcs, TypeOK, HolderAlone, HolderOnly
<1>8. CASE GateInspect(u) /\ ~DeadLock
  BY <1>2, <1>8, MoveKeepsInv
  DEF GateInspect, At, Bidding, Pcs, TypeOK, HolderAlone
<1>9. CASE SettleInspect(u) /\ ~Mine(u)
  BY <1>2, <1>9, MoveKeepsInv
  DEF SettleInspect, At, Bidding, Pcs, TypeOK, HolderAlone
<1>10. CASE TryCreate(u) /\ lockFile # NoLock
  BY <1>2, <1>10, MoveKeepsInv
  DEF TryCreate, At, Bidding, Pcs, TypeOK, HolderAlone, Registered
<1> QED
  BY <1>3, <1>4, <1>5, <1>7, <1>8, <1>9, <1>10

\* A file operation fails and nobody gives the lock up.
LEMMA FailureKeepsInv ==
  ASSUME LockInv, OneUserPerProcess, ~BidDropped, NEW u \in Users,
         \/ WatchFails(u) \/ AcquireThrows(u) \/ RenameRefused(u) \/ WatchStays(u)
         \/ ReleaseThrows(u)
  PROVE  LockInv'
<1>1. HolderAlone /\ HolderOnly /\ Registered /\ TypeOK
  BY DEF LockInv
<1>2. failures' \in 0..MaxFailures
  BY <1>1, LockBounds
  DEF WatchFails, AcquireThrows, RenameRefused, WatchStays, ReleaseThrows, Fails, TypeOK
<1>3. CASE WatchFails(u)
  <2>1. MoveTo(u, "idle") /\ attempts' \in [Users -> 0..MaxAttempts]
    BY <1>1, <1>3, LockBounds DEF WatchFails, At, MoveTo, TypeOK
  <2> QED
    BY <1>1, <1>2, <1>3, <2>1, MoveKeepsInv DEF WatchFails, At, Bidding, Pcs, TypeOK
<1>4. CASE AcquireThrows(u)
  <2>1. Bidding(u) /\ Mine(u) => orphan' /\ \A v \in Users \ {u} : ~Contends(v)
    BY <1>4 DEF AcquireThrows, MayDrop, Rivals, Bidding, At, OneUserPerProcess
  <2>2. orphan' \in BOOLEAN /\ (orphan => orphan')
    BY <1>4 DEF AcquireThrows
  <2>3. /\ MoveTo(u, "leave") /\ pc[u] # "dead"
        /\ \/ ~Bidding(u)
           \/ pc[u] = "settle" /\ ~Mine(u)
           \/ orphan' /\ \A v \in Users \ {u} : ~Contends(v)
    BY <1>4, <2>1 DEF AcquireThrows, Bidding
  <2>4. ~held[u]
    BY <1>1, <1>4 DEF AcquireThrows, HolderAlone
  <2>5. /\ UNCHANGED <<lockFile, watches, strays, alive, listing, held, renewing, crashes>>
        /\ attempts' \in [Users -> 0..MaxAttempts]
        /\ watches' \subseteq Users /\ strays' \subseteq Users
    BY <1>1, <1>4 DEF AcquireThrows, TypeOK
  <2> QED
    BY <1>2, <2>2, <2>3, <2>4, <2>5, MoveKeepsInv DEF Pcs
<1>5. CASE RenameRefused(u)
  BY <1>1, <1>2, <1>5, MoveKeepsInv
  DEF RenameRefused, At, Bidding, Pcs, TypeOK, HolderAlone, Registered, Contends
<1>6. CASE WatchStays(u)
  BY <1>1, <1>2, <1>6, MoveKeepsInv
  DEF WatchStays, At, Bidding, Pcs, TypeOK, HolderAlone, HolderOnly
<1>7. CASE ReleaseThrows(u)
  BY <1>1, <1>2, <1>7, MoveKeepsInv
  DEF ReleaseThrows, At, Bidding, Pcs, TypeOK, HolderAlone, HolderOnly
<1> QED
  BY <1>3, <1>4, <1>5, <1>6, <1>7

\* tryCreate() links the file: with no file there is no contender.
LEMMA CreateKeepsInv ==
  ASSUME LockInv, NEW u \in Users, TryCreate(u), lockFile = NoLock
  PROVE  LockInv'
<1>1. \A v \in Users : ~Contends(v) /\ ~Bidding(v)
  BY NotDead DEF LockInv, BidsAreForDead, DeadLock, Contends, Bidding
<1>2. \A v \in Users : ~held[v]
  BY NotDead
<1>3. /\ pc' = [pc EXCEPT ![u] = "leave"] /\ held' = [held EXCEPT ![u] = TRUE]
      /\ lockFile' = Owner[u] /\ orphan' = FALSE /\ pc[u] = "create"
      /\ UNCHANGED <<watches, strays, alive, listing, renewing, attempts, crashes, failures>>
  BY DEF TryCreate, MoveTo, At
<1>4. /\ pc'[u] = "leave" /\ \A v \in Users : v # u => pc'[v] = pc[v]
      /\ held'[u] /\ \A v \in Users : v # u => ~held'[v]
  BY <1>2, <1>3 DEF LockInv, TypeOK
<1>5. TypeOK'
  BY <1>3, OwnerAssumption DEF LockInv, TypeOK, Pcs
<1>6. \A v \in Users : ~Contends(v)' /\ ~Bidding(v)'
  BY <1>1, <1>4 DEF Contends, Bidding
<1>7. Registered' /\ Mortal'
  BY <1>3, <1>4, <1>6 DEF LockInv, Registered, Mortal
<1>8. BidsAreForDead' /\ ListingComplete' /\ HolderAlone' /\ LiveForReason'
  BY <1>3, <1>4, <1>6
  DEF BidsAreForDead, ListingComplete, HolderAlone, LiveForReason, Mine
<1>9. HolderOnly'
  BY <1>2, <1>3, <1>4 DEF LockInv, HolderOnly
<1> QED
  BY <1>5, <1>7, <1>8, <1>9 DEF LockInv

\* The gate is passed only while the file names a dead process: nobody bids yet and
\* nobody holds the lock.
LEMMA GateKeepsInv ==
  ASSUME LockInv, NEW u \in Users, GateInspect(u), DeadLock
  PROVE  LockInv'
<1>1. (\A v \in Users : ~held[v]) /\ ~BidInFile
  BY NotDead
<1>2. \A v \in Users : ~Bidding(v)
  BY <1>1 DEF LockInv, BidsAreForDead
<1>3. /\ pc' = [pc EXCEPT ![u] = "rename"] /\ pc[u] = "gate"
      /\ UNCHANGED <<lockFile, orphan, watches, strays, alive, listing, held, renewing, attempts, crashes, failures>>
  BY DEF GateInspect, MoveTo, At
<1>4. pc'[u] = "rename" /\ \A v \in Users : v # u => pc'[v] = pc[v]
  BY <1>3 DEF LockInv, TypeOK
<1>5. TypeOK'
  BY <1>3 DEF LockInv, TypeOK, Pcs
<1>6. (\A v \in Users : ~Bidding(v)') /\ DeadLock'
  BY <1>2, <1>3, <1>4 DEF Bidding, DeadLock
<1>7. Registered' /\ Mortal'
  BY <1>3, <1>4 DEF LockInv, Registered, Mortal, Contends
<1>8. BidsAreForDead' /\ ListingComplete'
  BY <1>6 DEF BidsAreForDead, ListingComplete, Bidding
<1>9. HolderAlone' /\ LiveForReason' /\ HolderOnly'
  BY <1>1, <1>3, <1>4, <1>6 DEF LockInv, HolderAlone, LiveForReason, HolderOnly, DeadLock
<1> QED
  BY <1>5, <1>7, <1>8, <1>9 DEF LockInv

\* The bid lands, over the dead process's file or over another bid.
LEMMA BidKeepsInv ==
  ASSUME LockInv, NEW u \in Users, RenameBid(u)
  PROVE  LockInv'
<1>1. /\ pc' = [pc EXCEPT ![u] = "settle"] /\ pc[u] = "rename" /\ lockFile' = Owner[u]
      /\ orphan' = FALSE
      /\ UNCHANGED <<watches, strays, alive, listing, held, renewing, attempts, crashes, failures>>
  BY DEF RenameBid, MoveTo, At
<1>2. pc'[u] = "settle" /\ \A v \in Users : v # u => pc'[v] = pc[v]
  BY <1>1 DEF LockInv, TypeOK
<1>3. \A v \in Users : ~held[v]
  BY <1>1 DEF LockInv, HolderAlone, Contends
<1>4. TypeOK'
  BY <1>1, OwnerAssumption DEF LockInv, TypeOK, Pcs
<1>5. BidInFile' /\ \A v \in Users : Contends(v)' <=> Contends(v)
  BY <1>1, <1>2 DEF BidInFile, Mine, Bidding, Contends
<1>6. Registered' /\ Mortal'
  BY <1>1, <1>2, <1>5 DEF LockInv, Registered, Mortal
<1>7. BidsAreForDead' /\ ListingComplete'
  BY <1>1, <1>2, <1>5 DEF LockInv, BidsAreForDead, ListingComplete
<1>8. HolderAlone' /\ LiveForReason' /\ HolderOnly'
  BY <1>1, <1>2, <1>3, <1>5 DEF LockInv, HolderAlone, LiveForReason, HolderOnly, BidInFile
<1> QED
  BY <1>4, <1>6, <1>7, <1>8 DEF LockInv

\* A bidder goes on: it found its bid in the file, listed the watches, or has to
\* wait for a contender.
LEMMA WaitKeepsInv ==
  ASSUME LockInv, OneUserPerProcess, ~ScanFails, NEW u \in Users,
         \/ SettleInspect(u) /\ Mine(u)
         \/ ReadWatches(u)
         \/ CheckWatches(u) /\ InFlight(u) # {}
  PROVE  LockInv'
<1>1. PICK s \in {"settle", "scan", "check"} : pc' = [pc EXCEPT ![u] = s]
  BY DEF SettleInspect, ReadWatches, CheckWatches, MoveTo
<1>2. /\ Bidding(u)
      /\ s = "check" => pc[u] = "scan"
      /\ UNCHANGED <<lockFile, orphan, alive, held, renewing, attempts, crashes, failures>>
  <2>1. pc'[u] = s
    BY <1>1 DEF LockInv, TypeOK
  <2> QED
    BY <2>1 DEF SettleInspect, ReadWatches, CheckWatches, MoveTo, At, Bidding, LockInv, TypeOK
<1>3. pc'[u] = s /\ \A v \in Users : v # u => pc'[v] = pc[v]
  BY <1>1 DEF LockInv, TypeOK
<1>4. /\ watches' \subseteq watches /\ strays' \subseteq strays
      /\ \A v \in Users : v \in watches /\ Owner[v] \in alive => v \in watches'
  BY DEF SettleInspect, ReadWatches, CheckWatches, InFlight, Reap
<1>5. /\ listing' \in [Users -> SUBSET Users]
      /\ \A v \in Users : v # u => listing'[v] = listing[v]
      /\ s = "check" => listing'[u] = Foreign(u)
  <2>1. CASE pc[u] = "scan"
    BY <2>1 DEF SettleInspect, ReadWatches, CheckWatches, At, Foreign, LockInv, TypeOK
  <2>2. CASE pc[u] # "scan"
    <3>1. listing' = listing \/ listing' = [listing EXCEPT ![u] = {}]
      BY <2>2 DEF SettleInspect, ReadWatches, CheckWatches, At
    <3> QED
      BY <1>2, <2>2, <3>1 DEF LockInv, TypeOK
  <2> QED
    BY <2>1, <2>2
<1>6. TypeOK'
  BY <1>1, <1>2, <1>4, <1>5 DEF LockInv, TypeOK, Pcs
<1>7. \A v \in Users : /\ Contends(v)' <=> Contends(v)
                       /\ Bidding(v)' <=> Bidding(v)
                       /\ Mine(v)' <=> Mine(v)
  BY <1>1, <1>2, <1>3 DEF Contends, Bidding, Mine
<1>8. Mortal' /\ Registered'
  <2>1. Mortal'
    BY <1>1, <1>2, <1>3 DEF LockInv, Mortal, Bidding
  <2>2. \A v \in Users : pc[v] # "dead" /\ v \in watches => v \in watches'
    BY <1>4 DEF LockInv, Mortal
  <2>3. Registered'
    BY <1>1, <1>3, <1>7, <2>2 DEF LockInv, Registered, Contends
  <2> QED
    BY <2>1, <2>3
<1>9. BidsAreForDead'
  BY <1>2, <1>7 DEF LockInv, BidsAreForDead, BidInFile, DeadLock
<1>10. ListingComplete'
  <2> SUFFICES ASSUME NEW v \in Users, NEW w \in Users, v # w, pc'[v] = "check", Contends(w)'
               PROVE  w \in listing'[v]
    BY DEF ListingComplete
  <2>1. CASE v # u
    BY <1>3, <1>5, <1>7, <2>1 DEF LockInv, ListingComplete
  <2>2. CASE v = u
    <3>1. w \in watches /\ Owner[w] # Owner[u]
      BY <1>7, <2>2 DEF LockInv, Registered, OneUserPerProcess
    <3> QED
      BY <1>3, <1>5, <2>2, <3>1 DEF Foreign
  <2> QED
    BY <2>1, <2>2
<1>11. HolderAlone' /\ LiveForReason' /\ HolderOnly'
  BY <1>2, <1>3, <1>7
  DEF LockInv, HolderAlone, LiveForReason, HolderOnly, Bidding, Contends
<1> QED
  BY <1>6, <1>8, <1>9, <1>10, <1>11 DEF LockInv

\* A bidder that lists no live contender is the only one, so the file is its own:
\* the claim does not read it again.
LEMMA ClaimKeepsInv ==
  ASSUME LockInv, NEW u \in Users, CheckWatches(u), InFlight(u) = {}
  PROVE  LockInv'
<1>1. /\ pc' = [pc EXCEPT ![u] = "leave"] /\ pc[u] = "check"
      /\ held' = [held EXCEPT ![u] = TRUE] /\ listing' = [listing EXCEPT ![u] = {}]
      /\ watches' \subseteq watches /\ strays' \subseteq strays
      /\ \A v \in watches : v \in listing[u] \/ v \in watches'
      /\ UNCHANGED <<lockFile, orphan, alive, renewing, attempts, crashes, failures>>
  BY DEF CheckWatches, MoveTo, At, Reap
<1>2. \A v \in Users : v \in listing[u] => Owner[v] \notin alive
  BY DEF InFlight
<1>3. \A v \in Users : v # u => ~Contends(v)
  BY <1>1, <1>2, Living DEF LockInv, ListingComplete
<1>4. Contends(u) /\ Bidding(u)
  BY <1>1 DEF Contends, Bidding
<1>5. BidInFile /\ \A v \in Users : ~held[v]
  BY <1>4 DEF LockInv, BidsAreForDead, HolderAlone
<1>6. Mine(u)
  BY <1>3, <1>5 DEF BidInFile, Bidding, Contends
<1>7. /\ pc'[u] = "leave" /\ \A v \in Users : v # u => pc'[v] = pc[v]
      /\ held'[u] /\ \A v \in Users : v # u => ~held'[v]
  BY <1>1, <1>5 DEF LockInv, TypeOK
<1>8. TypeOK'
  BY <1>1 DEF LockInv, TypeOK, Pcs
<1>9. \A v \in Users : ~Contends(v)' /\ ~Bidding(v)'
  BY <1>3, <1>7 DEF Contends, Bidding
<1>10. Registered' /\ Mortal'
  BY <1>1, <1>2, <1>7, <1>9 DEF LockInv, Registered, Mortal
<1>11. BidsAreForDead' /\ ListingComplete' /\ HolderAlone' /\ LiveForReason'
  BY <1>1, <1>6, <1>7, <1>9
  DEF BidsAreForDead, ListingComplete, HolderAlone, LiveForReason, Mine, Contends, Bidding
<1>12. HolderOnly'
  BY <1>1, <1>5, <1>7 DEF LockInv, HolderOnly
<1> QED
  BY <1>8, <1>10, <1>11, <1>12 DEF LockInv

\* renew() writes what is in the file already, or nothing.
LEMMA RenewKeepsInv ==
  ASSUME LockInv, NEW u \in Users, RenewBegin(u) \/ RenewRename(u) \/ RenewFails(u)
  PROVE  LockInv'
<1>1. /\ held[u] /\ pc[u] = "idle" /\ lockFile' = lockFile
      /\ \E b \in BOOLEAN : renewing' = [renewing EXCEPT ![u] = b]
      /\ UNCHANGED <<orphan, watches, strays, alive, pc, listing, held, attempts, crashes>>
      /\ failures' \in 0..MaxFailures
  <2>1. held[u] /\ pc[u] = "idle" /\ Mine(u)
    BY DEF RenewBegin, RenewRename, RenewFails, At, LockInv, HolderOnly, HolderAlone
  <2>2. failures' \in 0..MaxFailures
    BY LockBounds DEF RenewBegin, RenewRename, RenewFails, Fails, LockInv, TypeOK
  <2> QED
    BY <2>1, <2>2 DEF RenewBegin, RenewRename, RenewFails, Mine
<1>2. TypeOK'
  BY <1>1 DEF LockInv, TypeOK
<1>3. HolderOnly'
  BY <1>1 DEF LockInv, HolderOnly, TypeOK
<1> QED
  BY <1>1, <1>2, <1>3
  DEF LockInv, Registered, Mortal, BidsAreForDead, ListingComplete, HolderAlone, LiveForReason,
      Contends, Bidding, Mine, BidInFile, DeadLock

\* release() begins, and finds its own process in the file.
LEMMA ReleaseBeginKeepsInv ==
  ASSUME LockInv, ~LateRenew, NEW u \in Users, ReleaseBegin(u) \/ ReleaseInspect(u)
  PROVE  LockInv'
<1>1. HolderOnly /\ HolderAlone
  BY DEF LockInv
<1>2. CASE ReleaseBegin(u)
  BY <1>1, <1>2, MoveKeepsInv
  DEF ReleaseBegin, MayRelease, At, Bidding, Pcs, LockInv, TypeOK
<1>3. CASE ReleaseInspect(u)
  BY <1>1, <1>3, MoveKeepsInv
  DEF ReleaseInspect, At, Bidding, Pcs, LockInv, TypeOK, HolderOnly, HolderAlone
<1> QED
  BY <1>2, <1>3

\* The holder removes the file, or gives the lock up without: nobody is left who
\* contends for it.
LEMMA ReleaseKeepsInv ==
  ASSUME LockInv, OneUserPerProcess, ~LateRenew, NEW u \in Users,
         ReleaseUnlink(u) \/ ReleaseSync(u) \/ UnlinkFails(u) \/ SyncFails(u)
  PROVE  LockInv'
<1>1. held[u] /\ Mine(u) /\ ~renewing[u] /\ \A v \in Users : ~Contends(v)
  BY DEF ReleaseUnlink, ReleaseSync, UnlinkFails, SyncFails, MayRelease, At, LockInv, HolderOnly,
     HolderAlone
<1>2. /\ pc' = [pc EXCEPT ![u] = "idle"]
      /\ (lockFile' = NoLock /\ orphan' = FALSE) \/ (lockFile' = lockFile /\ orphan' = TRUE)
      /\ held' = [held EXCEPT ![u] = FALSE] /\ pc[u] \in {"idle", "unlink"}
      /\ UNCHANGED <<watches, strays, alive, listing, renewing, attempts, crashes>>
      /\ failures' \in 0..MaxFailures
  <2>1. pc[u] = "idle" => pc = [pc EXCEPT ![u] = "idle"]
    BY DEF LockInv, TypeOK
  <2>2. failures \in 0..MaxFailures /\ orphan \in BOOLEAN
    BY DEF LockInv, TypeOK
  <2>3. CASE ReleaseUnlink(u) \/ ReleaseSync(u)
    BY <1>1, <2>1, <2>2, <2>3 DEF ReleaseUnlink, ReleaseSync, MayRelease, MoveTo, At
  <2>4. CASE UnlinkFails(u) \/ SyncFails(u)
    <3>1. orphan' = TRUE
      BY <1>1, <2>4 DEF UnlinkFails, SyncFails
    <3>2. failures' \in 0..MaxFailures
      BY <2>2, <2>4, LockBounds DEF UnlinkFails, SyncFails, Fails
    <3> QED
      BY <2>1, <2>4, <3>1, <3>2 DEF UnlinkFails, SyncFails, MayRelease, MoveTo, At
  <2> QED
    BY <2>3, <2>4
<1>3. /\ pc'[u] = "idle" /\ \A v \in Users : v # u => pc'[v] = pc[v]
      /\ ~held'[u] /\ \A v \in Users : v # u => held'[v] = held[v]
  BY <1>2 DEF LockInv, TypeOK
<1>4. \A v \in Users : v # u => ~held[v]
  BY <1>1 DEF LockInv, HolderAlone, Mine, OneUserPerProcess
<1>5. TypeOK'
  BY <1>2 DEF LockInv, TypeOK, Pcs
<1>6. \A v \in Users : ~Contends(v)' /\ ~Bidding(v)'
  BY <1>1, <1>3 DEF Contends, Bidding
<1>7. lockFile' \in alive' => orphan'
  BY <1>2, MarkerAssumption DEF LockInv, TypeOK
<1>8. Registered' /\ Mortal'
  BY <1>2, <1>3, <1>6 DEF LockInv, Registered, Mortal
<1>9. BidsAreForDead' /\ ListingComplete' /\ LiveForReason' /\ HolderAlone'
  BY <1>3, <1>4, <1>6, <1>7
  DEF BidsAreForDead, ListingComplete, LiveForReason, HolderAlone, Bidding
<1>10. HolderOnly'
  BY <1>1, <1>2, <1>3 DEF LockInv, HolderOnly
<1> QED
  BY <1>5, <1>8, <1>9, <1>10 DEF LockInv

\* A process dies: what it held becomes a dead process's lock.
LEMMA LockCrashKeepsInv ==
  ASSUME LockInv, ~BidDropped, NEW p \in Procs, ProcessDies(p)
  PROVE  LockInv'
<1>1. /\ p \in alive /\ alive' = alive \ {p} /\ crashes' = crashes + 1 /\ crashes < MaxCrashes
      /\ \A u \in Users : Owner[u] = p /\ Bidding(u) => Rivals(u) = {}
      /\ pc' = [u \in Users |-> IF Owner[u] = p THEN "dead" ELSE pc[u]]
      /\ held' = [u \in Users |-> held[u] /\ Owner[u] # p]
      /\ renewing' = [u \in Users |-> renewing[u] /\ Owner[u] # p]
      /\ listing' = [u \in Users |-> IF Owner[u] = p THEN {} ELSE listing[u]]
      /\ UNCHANGED <<lockFile, orphan, watches, strays, attempts, failures>>
  BY DEF ProcessDies, MayDrop
<1>2. \A u \in Users : /\ pc'[u] = IF Owner[u] = p THEN "dead" ELSE pc[u]
                       /\ held'[u] <=> held[u] /\ Owner[u] # p
                       /\ renewing'[u] <=> renewing[u] /\ Owner[u] # p
                       /\ listing'[u] = IF Owner[u] = p THEN {} ELSE listing[u]
  BY <1>1
<1>3. TypeOK'
  <2>1. crashes' \in 0..MaxCrashes
    BY <1>1, LockBounds DEF LockInv, TypeOK
  <2>2. pc' \in [Users -> Pcs] /\ listing' \in [Users -> SUBSET Users]
    BY <1>1 DEF LockInv, TypeOK, Pcs
  <2>3. held' \in [Users -> BOOLEAN] /\ renewing' \in [Users -> BOOLEAN]
    BY <1>1 DEF LockInv, TypeOK
  <2> QED
    BY <1>1, <2>1, <2>2, <2>3 DEF LockInv, TypeOK
<1>4. \A u \in Users : /\ Contends(u)' => Contends(u) /\ Owner[u] # p
                       /\ Bidding(u)' <=> Bidding(u) /\ Owner[u] # p
                       /\ Mine(u)' <=> Mine(u)
  BY <1>1, <1>2 DEF Contends, Bidding, Mine
<1>5. BidsAreForDead'
  <2>1. CASE \E u \in Users : Owner[u] = p /\ Bidding(u)
    <3>1. \A v \in Users : ~Contends(v)'
      BY <1>1, <1>4, <2>1 DEF Rivals
    <3> QED
      BY <3>1 DEF BidsAreForDead, Contends, Bidding
  <2>2. CASE \A u \in Users : Owner[u] = p => ~Bidding(u)
    <3>1. (DeadLock => DeadLock') /\ (BidInFile => BidInFile')
      BY <1>1, <1>4, <2>2 DEF DeadLock, BidInFile
    <3> QED
      BY <1>4, <3>1 DEF LockInv, BidsAreForDead
  <2> QED
    BY <2>1, <2>2
<1>6. Registered' /\ Mortal'
  BY <1>1, <1>2, <1>4 DEF LockInv, Registered, Mortal
<1>7. ListingComplete'
  BY <1>2, <1>4 DEF LockInv, ListingComplete
<1>8. HolderAlone' /\ HolderOnly'
  BY <1>2, <1>4 DEF LockInv, HolderAlone, HolderOnly
<1>9. LiveForReason'
  BY <1>1, <1>2, <1>4 DEF LockInv, LiveForReason, Mine
<1> QED
  BY <1>3, <1>5, <1>6, <1>7, <1>8, <1>9 DEF LockInv

\* Every step keeps the invariant.
LEMMA LockStepKeepsInv ==
  ASSUME LockOrderly, LockInv, [LockNext]_lockVars
  PROVE  LockInv'
<1>1. ASSUME NEW u \in Users,
             \/ BeginAcquire(u) \/ AcquireStep(u) \/ FailureStep(u)
             \/ RenewBegin(u) \/ ReleaseBegin(u) \/ ReleaseSync(u) \/ HolderStep(u)
      PROVE  LockInv'
  BY <1>1, ApproachKeepsInv, FailureKeepsInv, CreateKeepsInv, GateKeepsInv, BidKeepsInv, WaitKeepsInv,
     ClaimKeepsInv, RenewKeepsInv, ReleaseBeginKeepsInv, ReleaseKeepsInv
  DEF AcquireStep, HolderStep, FailureStep, LockOrderly
<1>2. CASE \E p \in Procs : ProcessDies(p)
  BY <1>2, LockCrashKeepsInv DEF LockOrderly
<1>3. CASE UNCHANGED lockVars
  BY <1>3
  DEF lockVars, LockInv, TypeOK, Registered, Mortal, BidsAreForDead, ListingComplete, HolderAlone,
      LiveForReason, HolderOnly, Contends, Bidding, Mine, BidInFile, DeadLock
<1> QED
  BY <1>1, <1>2, <1>3 DEF LockNext

\* The invariant holds throughout.
LEMMA LockAlwaysInv ==
  ASSUME LockOrderly
  PROVE  LockSpec => []LockInv
<1>1. LockInit => LockInv
  BY LockInitInv
<1>2. LockInv /\ [LockNext]_lockVars => LockInv'
  BY LockStepKeepsInv
<1> QED
  BY <1>1, <1>2, PTL DEF LockSpec

\* Two processes never hold the lock at the same time, however many race for the
\* lock of a dead one and wherever they are descheduled (lockfile.ts acquire).
THEOREM Exclusive ==
  ASSUME LockOrderly
  PROVE  LockSpec => []OneHolder
<1>1. LockInv => OneHolder
  BY DEF LockInv, HolderAlone, Mine, LockOrderly, OneUserPerProcess, OneHolder
<1> QED
  BY <1>1, LockAlwaysInv, PTL

\* The lock file names the holder's process while there is one, and a live process
\* only if that holds the lock, is verifying its bid, or gave the lock up by a file
\* operation that failed (lockfile.ts release, renew).
THEOREM Truthful ==
  ASSUME LockOrderly
  PROVE  LockSpec => []LockTellsTruth
<1>1. LockInv => LockTellsTruth
  BY DEF LockInv, HolderAlone, LiveForReason, LockTellsTruth
<1> QED
  BY <1>1, LockAlwaysInv, PTL

-----------------------------------------------------------------------------
(* Frames, files and what replaying them yields, for any sequence of frames *)

Frame == UNION {[D -> Nat] : D \in SUBSET Keys}
Touches(file, k) == \E i \in DOMAIN file : k \in DOMAIN file[i]
LastVal(file, k) == IF LastFrame(file, k) = 0 THEN 0 ELSE file[LastFrame(file, k)][k]
Replayed(snap, log, k) == IF Touches(log, k) THEN LastVal(log, k) ELSE LastVal(snap, k)

\* The frame a value is read from.
Reads(file, off, k, v) ==
  off + 1 \in DOMAIN file /\ k \in DOMAIN file[off + 1] /\ file[off + 1][k] = v

\* A bounded set of natural numbers has a greatest element.
LEMMA GreatestNatural ==
  ASSUME NEW n \in Nat, NEW S, S \subseteq 0..n, S # {}
  PROVE  \E g \in S : \A i \in S : i <= g
<1> DEFINE R == {n - i : i \in S}
<1>1. R \subseteq Nat /\ R # {}
  <2>1. \A i \in S : n - i \in Nat
    OBVIOUS
  <2>2. PICK i \in S : TRUE
    OBVIOUS
  <2>3. n - i \in R
    OBVIOUS
  <2> QED
    BY <2>1, <2>3
<1>2. PICK r \in R : \A q \in R : r <= q
  <2> HIDE DEF R
  <2> QED
    BY <1>1, LeastNatural
<1>3. PICK g \in S : r = n - g
  OBVIOUS
<1>4. \A i \in S : n - g <= n - i
  BY <1>2, <1>3
<1>5. \A i \in S : i \in Nat
  OBVIOUS
<1> HIDE DEF R
<1>6. ASSUME NEW i \in S
      PROVE  i <= g
  <2>1. PICK a \in Nat, b \in Nat : a = i /\ b = g
    BY <1>3, <1>5
  <2>2. n - b <= n - a
    BY <1>4, <2>1
  <2>3. a <= b
    BY <2>2
  <2> QED
    BY <2>1, <2>3
<1> QED
  BY <1>3, <1>6

\* The last frame of a file that touches a key.
LEMMA LastFrameIs ==
  ASSUME NEW T, NEW file \in Seq(T), NEW k
  PROVE  /\ Touches(file, k) =>
              /\ LastFrame(file, k) \in DOMAIN file /\ k \in DOMAIN file[LastFrame(file, k)]
              /\ \A i \in DOMAIN file : k \in DOMAIN file[i] => i <= LastFrame(file, k)
         /\ ~Touches(file, k) => LastFrame(file, k) = 0
         /\ LastFrame(file, k) \in Nat
<1> DEFINE at == {i \in DOMAIN file : k \in DOMAIN file[i]}
<1>1. PICK n \in Nat : n = Len(file) /\ DOMAIN file = 1..n
  OBVIOUS
<1>2. at \subseteq 0..n
  BY <1>1
<1>3. LastFrame(file, k) = IF at = {} THEN 0 ELSE CHOOSE i \in at : \A j \in at : j <= i
  BY DEF LastFrame
<1>4. at # {} => \E i \in at : \A j \in at : j <= i
  <2> HIDE DEF at
  <2> QED
    BY <1>2, GreatestNatural
<1>5. at # {} <=> Touches(file, k)
  BY DEF Touches
<1>6. at # {} => LastFrame(file, k) \in at /\ \A j \in at : j <= LastFrame(file, k)
  <2> HIDE DEF at
  <2> QED
    BY <1>3, <1>4
<1>7. LastFrame(file, k) \in Nat /\ (at = {} => LastFrame(file, k) = 0)
  BY <1>1, <1>3, <1>6
<1>8. \A i \in DOMAIN file : k \in DOMAIN file[i] => i \in at
  OBVIOUS
<1> QED
  BY <1>5, <1>6, <1>7, <1>8

\* Whatever comes last is what counts.
LEMMA LastValIs ==
  ASSUME NEW T, NEW file \in Seq(T), NEW k, NEW i \in DOMAIN file, k \in DOMAIN file[i],
         \A j \in DOMAIN file : k \in DOMAIN file[j] => j <= i
  PROVE  LastFrame(file, k) = i /\ LastVal(file, k) = file[i][k]
<1>1. Touches(file, k)
  BY DEF Touches
<1>2. /\ LastFrame(file, k) \in DOMAIN file /\ k \in DOMAIN file[LastFrame(file, k)]
      /\ i <= LastFrame(file, k)
  BY <1>1, LastFrameIs
<1>3. DOMAIN file = 1..Len(file) /\ Len(file) \in Nat
  OBVIOUS
<1>4. LastFrame(file, k) <= i
  BY <1>2
<1>5. LastFrame(file, k) = i /\ i # 0
  BY <1>2, <1>3, <1>4
<1> QED
  BY <1>5 DEF LastVal

\* Appending to a file.
LEMMA ConcatTouches ==
  ASSUME NEW T, NEW f \in Seq(T), NEW g \in Seq(T), NEW k
  PROVE  /\ Touches(f \o g, k) <=> Touches(f, k) \/ Touches(g, k)
         /\ LastVal(f \o g, k) = IF Touches(g, k) THEN LastVal(g, k) ELSE LastVal(f, k)
<1>1. PICK m \in Nat, n \in Nat : m = Len(f) /\ n = Len(g)
  OBVIOUS
<1>2. PICK h : h = f \o g
  OBVIOUS
<1>3. /\ DOMAIN f = 1..m /\ DOMAIN g = 1..n /\ DOMAIN h = 1..(m + n) /\ h \in Seq(T)
      /\ \A i \in 1..m : h[i] = f[i] /\ i \in 1..(m + n)
      /\ \A i \in 1..n : h[m + i] = g[i] /\ m + i \in 1..(m + n)
  BY <1>1, <1>2
<1>4. \A i \in 1..(m + n) : i \in 1..m \/ (i - m \in 1..n /\ i = m + (i - m))
  OBVIOUS
<1>5. Touches(h, k) <=> Touches(f, k) \/ Touches(g, k)
  <2>1. ASSUME Touches(h, k), ~Touches(f, k)
        PROVE  Touches(g, k)
    <3>1. PICK i \in 1..(m + n) : k \in DOMAIN h[i]
      BY <1>3, <2>1 DEF Touches
    <3>2. i \notin 1..m
      BY <1>3, <2>1, <3>1 DEF Touches
    <3>3. PICK j \in 1..n : i = m + j
      BY <1>4, <3>2
    <3>4. h[i] = g[j]
      BY <1>3, <3>3
    <3> QED
      BY <1>3, <3>1, <3>4 DEF Touches
  <2>2. Touches(f, k) \/ Touches(g, k) => Touches(h, k)
    BY <1>3 DEF Touches
  <2> QED
    BY <2>1, <2>2
<1>6. CASE Touches(g, k)
  <2>1. PICK i \in 1..n : /\ i = LastFrame(g, k) /\ k \in DOMAIN g[i]
                          /\ \A j \in 1..n : k \in DOMAIN g[j] => j <= i
    BY <1>3, <1>6, LastFrameIs
  <2>2. \A j \in 1..(m + n) : k \in DOMAIN h[j] => j <= m + i
    <3> SUFFICES ASSUME NEW j \in 1..(m + n), k \in DOMAIN h[j], j \notin 1..m
                 PROVE  j <= m + i
      OBVIOUS
    <3>1. PICK l \in 1..n : l = j - m /\ j = m + l
      BY <1>4
    <3>2. k \in DOMAIN g[l]
      BY <1>3, <3>1
    <3>3. l <= i
      BY <2>1, <3>2
    <3> QED
      BY <3>1, <3>3
  <2>3. LastVal(h, k) = h[m + i][k] /\ LastVal(g, k) = g[i][k]
    <3>1. m + i \in DOMAIN h /\ k \in DOMAIN h[m + i]
      BY <1>3, <2>1
    <3>2. \A j \in DOMAIN h : k \in DOMAIN h[j] => j <= m + i
      BY <1>3, <2>2
    <3>3. LastVal(h, k) = h[m + i][k]
      BY <1>3, <3>1, <3>2, LastValIs
    <3>4. LastVal(g, k) = g[i][k]
      <4>1. i \in DOMAIN g /\ k \in DOMAIN g[i] /\ \A j \in DOMAIN g : k \in DOMAIN g[j] => j <= i
        BY <1>3, <2>1
      <4> QED
        BY <4>1, LastValIs
    <3> QED
      BY <3>3, <3>4
  <2> QED
    BY <1>2, <1>3, <1>5, <1>6, <2>3
<1>7. CASE ~Touches(g, k) /\ Touches(f, k)
  <2>1. PICK i \in 1..m : /\ i = LastFrame(f, k) /\ k \in DOMAIN f[i]
                          /\ \A j \in 1..m : k \in DOMAIN f[j] => j <= i
    BY <1>3, <1>7, LastFrameIs
  <2>2. \A j \in 1..(m + n) : k \in DOMAIN h[j] => j \in 1..m
    BY <1>3, <1>4, <1>7 DEF Touches
  <2>3. \A j \in 1..(m + n) : k \in DOMAIN h[j] => j <= i
    BY <1>3, <2>1, <2>2
  <2>4. LastVal(h, k) = h[i][k] /\ LastVal(f, k) = f[i][k]
    <3>1. i \in DOMAIN h /\ k \in DOMAIN h[i] /\ \A j \in DOMAIN h : k \in DOMAIN h[j] => j <= i
      BY <1>3, <2>1, <2>3
    <3>2. LastVal(h, k) = h[i][k]
      BY <1>3, <3>1, LastValIs
    <3>3. LastVal(f, k) = f[i][k]
      BY <1>3, <2>1, LastValIs
    <3> QED
      BY <3>2, <3>3
  <2> QED
    BY <1>2, <1>3, <1>5, <1>7, <2>1, <2>4
<1>8. CASE ~Touches(g, k) /\ ~Touches(f, k)
  BY <1>2, <1>3, <1>5, <1>8, LastFrameIs DEF LastVal
<1> QED
  BY <1>6, <1>7, <1>8

\* A file nothing was written to.
LEMMA EmptyTouches ==
  ASSUME NEW k
  PROVE  ~Touches(<<>>, k) /\ LastVal(<<>>, k) = 0 /\ <<>> \in Seq(Frame)
<1>1. ~Touches(<<>>, k) /\ <<>> \in Seq(Frame)
  BY DEF Touches
<1> QED
  BY <1>1, LastFrameIs DEF LastVal

\* A key no frame touches has no value in a file.
LEMMA UntouchedVal ==
  ASSUME NEW T, NEW file \in Seq(T), NEW k, ~Touches(file, k)
  PROVE  LastVal(file, k) = 0
BY LastFrameIs DEF LastVal

\* What recover() finds is what replaying the two files yields, and where it found it.
LEMMA RecoveredIs ==
  ASSUME NEW T, NEW snap \in Seq(T), NEW log \in Seq(T), NEW k
  PROVE  LET r == Recovered(snap, log, k)
         IN /\ r.val = Replayed(snap, log, k)
            /\ r.file \in {"wal", "snapshot"} /\ r.off \in Nat
            /\ r.val # 0 => Reads(IF r.file = "wal" THEN log ELSE snap, r.off, k, r.val)
<1> DEFINE w == LastFrame(log, k)
           s == LastFrame(snap, k)
<1>1. /\ w \in Nat /\ s \in Nat
      /\ (w # 0 <=> Touches(log, k)) /\ (s # 0 <=> Touches(snap, k))
      /\ w # 0 => w \in DOMAIN log /\ k \in DOMAIN log[w]
      /\ s # 0 => s \in DOMAIN snap /\ k \in DOMAIN snap[s]
  BY LastFrameIs
<1>2. Recovered(snap, log, k) =
        IF w # 0 THEN [file |-> "wal", off |-> w - 1, val |-> log[w][k]]
        ELSE IF s # 0 THEN [file |-> "snapshot", off |-> s - 1, val |-> snap[s][k]]
        ELSE [file |-> "wal", off |-> 0, val |-> 0]
  BY DEF Recovered
<1>3. LastVal(log, k) = (IF w = 0 THEN 0 ELSE log[w][k]) /\ LastVal(snap, k) = (IF s = 0 THEN 0 ELSE snap[s][k])
  BY DEF LastVal
<1> HIDE DEF w, s
<1>4. CASE w # 0
  BY <1>1, <1>2, <1>3, <1>4 DEF Replayed, Reads
<1>5. CASE w = 0 /\ s # 0
  BY <1>1, <1>2, <1>3, <1>5 DEF Replayed, Reads
<1>6. CASE w = 0 /\ s = 0
  BY <1>1, <1>2, <1>3, <1>6 DEF Replayed, Reads
<1> QED
  BY <1>4, <1>5, <1>6

\* What is left of a file after its first n frames.
After(s, n) == SubSeq(s, n + 1, Len(s))

\* Appending leaves the parts of a file as they are.
LEMMA ConcatParts ==
  ASSUME NEW T, NEW s \in Seq(T), NEW t \in Seq(T), NEW a \in Nat, NEW b \in Nat,
         a <= b, b <= Len(s)
  PROVE  /\ SubSeq(s \o t, a + 1, b) = SubSeq(s, a + 1, b)
         /\ After(s \o t, a) = After(s, a) \o t
         /\ SubSeq(s, a + 1, b) \in Seq(T) /\ After(s, a) \in Seq(T)
<1>1. PICK m \in Nat, n \in Nat : m = Len(s) /\ n = Len(t)
  OBVIOUS
<1>2. SubSeq(s, a + 1, b) \in Seq(T) /\ After(s, a) \in Seq(T)
  <2>1. (\A i \in (a + 1)..b : s[i] \in T) /\ (\A i \in (a + 1)..Len(s) : s[i] \in T)
    OBVIOUS
  <2>2. a + 1 \in Int /\ b \in Int /\ Len(s) \in Int
    OBVIOUS
  <2> QED
    BY <2>1, <2>2, SubSeqProperties DEF After
<1>3. SubSeq(s \o t, a + 1, b) = SubSeq(s, a + 1, b)
  <2>1. CASE a = b
    <3>1. a + 1 \in Int /\ b \in Int /\ b < a + 1
      BY <2>1
    <3> QED
      BY <3>1, SubSeqEmpty
  <2>2. CASE a # b
    <3>1. a + 1 \in 1..Len(s) /\ b \in 1..Len(s)
      BY <2>2
    <3> QED
      BY <3>1, SubSeqOfConcat1
  <2> QED
    BY <2>1, <2>2
<1>4. After(s \o t, a) = After(s, a) \o t
  <2>1. PICK u : u = s \o t
    OBVIOUS
  <2>2. /\ u \in Seq(T) /\ Len(u) = m + n
        /\ \A i \in 1..(m + n) : u[i] = IF i <= m THEN s[i] ELSE t[i - m]
    BY <1>1, <2>1, ConcatProperties
  <2>3. PICK x : x = After(s, a)
    OBVIOUS
  <2>4. x \in Seq(T) /\ Len(x) = m - a /\ \A i \in 1..(m - a) : x[i] = s[a + i]
    <3>1. a + 1 \in Int /\ m \in Int /\ \A i \in (a + 1)..m : s[i] \in T
      BY <1>1
    <3>2. /\ SubSeq(s, a + 1, m) \in Seq(T)
          /\ Len(SubSeq(s, a + 1, m)) = IF a + 1 <= m THEN m - (a + 1) + 1 ELSE 0
          /\ \A i \in 1..(m - (a + 1) + 1) : SubSeq(s, a + 1, m)[i] = s[(a + 1) + i - 1]
      BY <3>1, SubSeqProperties
    <3> QED
      BY <1>1, <2>3, <3>2 DEF After
  <2>5. PICK y : y = After(u, a)
    OBVIOUS
  <2>6. y \in Seq(T) /\ Len(y) = m + n - a /\ \A i \in 1..(m + n - a) : y[i] = u[a + i]
    <3>1. a + 1 \in Int /\ m + n \in Int /\ \A i \in (a + 1)..(m + n) : u[i] \in T
      BY <1>1, <2>2
    <3>2. /\ SubSeq(u, a + 1, m + n) \in Seq(T)
          /\ Len(SubSeq(u, a + 1, m + n)) = IF a + 1 <= m + n THEN m + n - (a + 1) + 1 ELSE 0
          /\ \A i \in 1..(m + n - (a + 1) + 1) : SubSeq(u, a + 1, m + n)[i] = u[(a + 1) + i - 1]
      BY <3>1, SubSeqProperties
    <3> QED
      BY <1>1, <2>2, <2>5, <3>2 DEF After
  <2>7. PICK z : z = x \o t
    OBVIOUS
  <2>8. /\ z \in Seq(T) /\ Len(z) = m - a + n
        /\ \A i \in 1..(m - a + n) : z[i] = IF i <= m - a THEN x[i] ELSE t[i - (m - a)]
    <3>0. m - a \in Nat
      BY <1>1
    <3>1. PICK r \in Nat : r = m - a
      BY <3>0
    <3>2. x \in Seq(T) /\ t \in Seq(T) /\ Len(x) = r /\ Len(t) = n
      BY <1>1, <2>4, <3>1
    <3>3. /\ x \o t \in Seq(T) /\ Len(x \o t) = Len(x) + Len(t)
          /\ \A i \in 1..(Len(x) + Len(t)) : (x \o t)[i] = IF i <= Len(x) THEN x[i] ELSE t[i - Len(x)]
      BY <3>2, ConcatProperties, Zenon
    <3> QED
      BY <2>7, <3>1, <3>2, <3>3
  <2>9. \A i \in 1..(m + n - a) : y[i] = z[i]
    <3> SUFFICES ASSUME NEW i \in 1..(m + n - a)
                 PROVE  y[i] = z[i]
      OBVIOUS
    <3>1. y[i] = u[a + i] /\ a + i \in 1..(m + n)
      BY <2>6
    <3>2. CASE i <= m - a
      <4>1. i \in 1..(m - a) /\ i \in 1..(m - a + n) /\ a + i <= m
        BY <1>1, <3>2
      <4>2. z[i] = x[i] /\ x[i] = s[a + i]
        BY <2>4, <2>8, <3>2, <4>1
      <4>3. u[a + i] = s[a + i]
        BY <2>2, <3>1, <4>1
      <4> QED
        BY <3>1, <4>2, <4>3
    <3>3. CASE ~(i <= m - a)
      <4>2. /\ i \in 1..(m - a + n) /\ ~(a + i <= m) /\ a + i - m = i - (m - a)
        BY <1>1, <3>3
      <4>3. u[a + i] = t[a + i - m]
        BY <2>2, <3>1, <4>2
      <4>4. z[i] = t[i - (m - a)]
        BY <2>8, <3>3, <4>2
      <4>1. u[a + i] = t[a + i - m] /\ z[i] = t[i - (m - a)] /\ a + i - m = i - (m - a)
        BY <4>2, <4>3, <4>4
      <4> QED
        BY <3>1, <4>1
    <3> QED
      BY <3>2, <3>3
  <2>10. Len(y) = Len(z) /\ \A i \in 1..Len(y) : y[i] = z[i]
    BY <2>6, <2>8, <2>9
  <2>11. y = z
    BY <2>6, <2>8, <2>10, SeqEqual
  <2> QED
    BY <2>1, <2>3, <2>5, <2>7, <2>11
<1> QED
  BY <1>2, <1>3, <1>4

\* Copying on from where the last copy ended.
LEMMA CopyOn ==
  ASSUME NEW T, NEW s \in Seq(T), NEW a \in Nat, NEW b \in Nat, a <= b, b <= Len(s)
  PROVE  SubSeq(s, a + 1, b) \o After(s, b) = After(s, a)
<1>1. a + 1 \in 1..(Len(s) + 1) /\ b \in ((a + 1) - 1)..Len(s) /\ Len(s) \in b..Len(s)
  OBVIOUS
<1> QED
  BY <1>1, ConcatAdjacentSubSeq DEF After

\* A key that the rest of a file touches has its value there.
LEMMA AfterTouches ==
  ASSUME NEW T, NEW s \in Seq(T), NEW a \in Nat, a <= Len(s), NEW k
  PROVE  /\ Touches(After(s, a), k) => Touches(s, k) /\ LastVal(s, k) = LastVal(After(s, a), k)
         /\ After(s, a) \in Seq(T)
<1>1. SubSeq(s, 0 + 1, a) \o After(s, a) = After(s, 0) /\ After(s, 0) = s
  <2>1. After(s, 0) = s
    BY SubSeqFull DEF After
  <2> QED
    BY <2>1, CopyOn
<1>2. SubSeq(s, 0 + 1, a) \in Seq(T) /\ After(s, a) \in Seq(T)
  BY ConcatParts
<1>3. PICK p \in Seq(T), q \in Seq(T) : p = SubSeq(s, 0 + 1, a) /\ q = After(s, a) /\ s = p \o q
  BY <1>1, <1>2
<1>4. /\ Touches(p \o q, k) <=> Touches(p, k) \/ Touches(q, k)
      /\ LastVal(p \o q, k) = IF Touches(q, k) THEN LastVal(q, k) ELSE LastVal(p, k)
  BY ConcatTouches
<1>5. Touches(q, k) => Touches(s, k) /\ LastVal(s, k) = LastVal(q, k)
  BY <1>3, <1>4, Zenon
<1> QED
  BY <1>2, <1>3, <1>5, Zenon

\* Where a value is read from when its file grows, and when its head is cut off.
LEMMA ConcatReads ==
  ASSUME NEW T, NEW s \in Seq(T), NEW t \in Seq(T), NEW off \in Nat, NEW k, NEW v, Reads(s, off, k, v)
  PROVE  Reads(s \o t, off, k, v)
<1>1. PICK u : u = s \o t
  OBVIOUS
<1>2. PICK m \in Nat, n \in Nat : m = Len(s) /\ n = Len(t)
  OBVIOUS
<1>3. off + 1 \in 1..m
  BY <1>2 DEF Reads
<1>4. off + 1 \in DOMAIN u /\ u[off + 1] = s[off + 1]
  BY <1>1, <1>2, <1>3
<1> QED
  BY <1>1, <1>4 DEF Reads

\* A frame that is read past a point of a file is read in what follows that point.
LEMMA AfterReads ==
  ASSUME NEW T, NEW s \in Seq(T), NEW a \in Nat, a <= Len(s), NEW off \in Nat, NEW k, NEW v,
         Reads(s, off, k, v), off >= a
  PROVE  Reads(After(s, a), off - a, k, v) /\ off - a \in Nat
<1>1. PICK m \in Nat : m = Len(s)
  OBVIOUS
<1>2. PICK x : x = After(s, a)
  OBVIOUS
<1>3. x \in Seq(T) /\ Len(x) = m - a /\ \A i \in 1..(m - a) : x[i] = s[a + i]
  <2>1. a + 1 \in Int /\ m \in Int /\ \A i \in (a + 1)..m : s[i] \in T
    BY <1>1
  <2>2. /\ SubSeq(s, a + 1, m) \in Seq(T)
        /\ Len(SubSeq(s, a + 1, m)) = IF a + 1 <= m THEN m - (a + 1) + 1 ELSE 0
        /\ \A i \in 1..(m - (a + 1) + 1) : SubSeq(s, a + 1, m)[i] = s[(a + 1) + i - 1]
    BY <2>1, SubSeqProperties
  <2> QED
    BY <1>1, <1>2, <2>2 DEF After
<1>4. PICK i \in 1..(m - a) : i = off - a + 1 /\ a + i = off + 1
  <2>1. off + 1 \in 1..m
    BY <1>1 DEF Reads
  <2> QED
    BY <1>1, <2>1
<1>5. DOMAIN x = 1..(m - a) /\ x[i] = s[off + 1]
  BY <1>3, <1>4
<1>6. k \in DOMAIN s[off + 1] /\ s[off + 1][k] = v
  BY DEF Reads
<1>7. (off - a) + 1 = i
  BY <1>1, <1>4
<1>8. Reads(x, off - a, k, v)
  BY <1>5, <1>6, <1>7 DEF Reads
<1> QED
  BY <1>2, <1>8

\* A torn frame is skipped, and removed at the end of a log.
LEMMA TornSkipped ==
  ASSUME NEW log \in Seq(Frame), NEW k
  PROVE  /\ Torn \in Frame /\ k \notin DOMAIN Torn
         /\ ~Touches(<<Torn>>, k)
         /\ Truncated(log) \in Seq(Frame)
         /\ Touches(Truncated(log), k) <=> Touches(log, k)
         /\ LastVal(Truncated(log), k) = LastVal(log, k)
<1>1. Torn \in Frame /\ k \notin DOMAIN Torn
  <2>1. Torn \in [{} -> Nat] /\ {} \in SUBSET Keys
    BY DEF Torn
  <2> QED
    BY <2>1 DEF Torn, Frame
<1>2. ~Touches(<<Torn>>, k) /\ <<Torn>> \in Seq(Frame)
  <2>1. <<Torn>> \in Seq(Frame) /\ DOMAIN <<Torn>> = {1} /\ <<Torn>>[1] = Torn
    BY <1>1
  <2> QED
    BY <1>1, <2>1 DEF Touches
<1>3. CASE log # <<>> /\ log[Len(log)] = Torn
  <2>1. Len(log) >= 1 /\ Len(log) \in Nat
    BY <1>3
  <2>2. 1 \in 1..Len(log) /\ Len(log) \in 1..Len(log)
    BY <2>1
  <2>3. SubSeq(log, 1, Len(log)) = SubSeq(log, 1, Len(log) - 1) \o <<log[Len(log)]>>
    BY <2>2, SubSeqRecursiveSecond, Zenon
  <2>4. SubSeq(log, 1, Len(log)) = log
    BY SubSeqFull, Zenon
  <2>5. SubSeq(log, 1, Len(log) - 1) \in Seq(Frame)
    BY <2>1
  <2>6. PICK p \in Seq(Frame), q \in Seq(Frame) :
          p = SubSeq(log, 1, Len(log) - 1) /\ q = <<Torn>> /\ log = p \o q /\ Truncated(log) = p
    BY <1>2, <1>3, <2>3, <2>4, <2>5 DEF Truncated
  <2>7. /\ Touches(p \o q, k) <=> Touches(p, k) \/ Touches(q, k)
        /\ LastVal(p \o q, k) = IF Touches(q, k) THEN LastVal(q, k) ELSE LastVal(p, k)
    BY ConcatTouches
  <2> QED
    BY <1>1, <1>2, <2>6, <2>7, Zenon
<1>4. CASE ~(log # <<>> /\ log[Len(log)] = Torn)
  BY <1>1, <1>2, <1>4 DEF Truncated
<1> QED
  BY <1>3, <1>4

-----------------------------------------------------------------------------
(* The commits on their way, as the sequence of the calls that made them *)

OpsSet == UNION {[D -> {"set", "del"}] : D \in SUBSET Keys}
Prevs == UNION {[D -> Records \cup {None}] : D \in SUBSET Keys}
Calls == [ops : OpsSet, id : Nat, off : Nat, prev : Prevs]

Val(r) == IF r = None THEN 0 ELSE r.val
EffectOf(iss, i, k) == IF i = 0 THEN 0 ELSE IF iss[i][k] = "set" THEN i ELSE 0
Hits(iss, i, k) == i = 0 \/ k \in DOMAIN iss[i]
Written(p) == [j \in DOMAIN p |-> FrameOf(p[j].ops, p[j].id)]

\* The commits on their way are the last ones, in their order.
Queued(iss, p) ==
  /\ \A i, j \in DOMAIN p : i < j => p[i].id < p[j].id
  /\ \A j \in DOMAIN p :
       /\ p[j].id \in 1..Len(iss) /\ p[j].ops = iss[p[j].id]
       /\ DOMAIN p[j].prev = DOMAIN p[j].ops

\* What a frame holds.
LEMMA FrameOfIs ==
  ASSUME NEW ops \in OpsSet, NEW i \in Nat
  PROVE  FrameOf(ops, i) \in Frame /\ DOMAIN FrameOf(ops, i) = DOMAIN ops
<1>1. PICK D \in SUBSET Keys : ops \in [D -> {"set", "del"}]
  BY DEF OpsSet
<1>2. FrameOf(ops, i) \in [D -> Nat]
  BY <1>1 DEF FrameOf
<1> QED
  BY <1>1, <1>2 DEF Frame, FrameOf

\* The frames of the first n commits on their way.
LEMMA WrittenIs ==
  ASSUME NEW iss \in Seq(OpsSet), NEW p \in Seq(Calls), Queued(iss, p), NEW n \in 0..Len(p), NEW k
  PROVE  /\ Written(p) \in Seq(Frame) /\ Len(Written(p)) = Len(p)
         /\ SubSeq(Written(p), 1, n) \in Seq(Frame) /\ Len(SubSeq(Written(p), 1, n)) = n
         /\ \A j \in 1..n : SubSeq(Written(p), 1, n)[j] = FrameOf(p[j].ops, p[j].id)
         /\ Touches(SubSeq(Written(p), 1, n), k) <=> \E j \in 1..n : k \in DOMAIN p[j].ops
<1>1. PICK m \in Nat : m = Len(p)
  OBVIOUS
<1>2. DOMAIN p = 1..m /\ \A j \in 1..m : p[j] \in Calls
  BY <1>1
<1>3. \A j \in 1..m : FrameOf(p[j].ops, p[j].id) \in Frame /\ DOMAIN FrameOf(p[j].ops, p[j].id) = DOMAIN p[j].ops
  BY <1>2, FrameOfIs DEF Calls
<1>4. PICK w : w = Written(p)
  OBVIOUS
<1>5. w \in [1..m -> Frame] /\ \A j \in 1..m : w[j] = FrameOf(p[j].ops, p[j].id)
  BY <1>2, <1>3, <1>4 DEF Written
<1>6. w \in Seq(Frame) /\ Len(w) = m
  BY <1>5
<1>7. PICK s : s = SubSeq(w, 1, n)
  OBVIOUS
<1>8. s \in Seq(Frame) /\ Len(s) = n /\ DOMAIN s = 1..n /\ \A j \in 1..n : s[j] = w[j]
  BY <1>1, <1>6, <1>7
<1>9. Touches(s, k) <=> \E j \in 1..n : k \in DOMAIN p[j].ops
  <2>1. \A j \in 1..n : j \in 1..m
    BY <1>1
  <2>2. \A j \in 1..n : DOMAIN s[j] = DOMAIN p[j].ops
    BY <1>3, <1>5, <1>8, <2>1
  <2> QED
    BY <1>8, <2>2 DEF Touches
<1> QED
  BY <1>1, <1>4, <1>5, <1>6, <1>7, <1>8, <1>9

\* The last of them that touches a key is its value.
LEMMA WrittenVal ==
  ASSUME NEW iss \in Seq(OpsSet), NEW p \in Seq(Calls), Queued(iss, p), NEW n \in 0..Len(p), NEW k,
         Touches(SubSeq(Written(p), 1, n), k)
  PROVE  \E j \in 1..n :
           /\ k \in DOMAIN p[j].ops /\ \A i \in 1..n : k \in DOMAIN p[i].ops => i <= j
           /\ LastVal(SubSeq(Written(p), 1, n), k) = EffectOf(iss, p[j].id, k)
<1>1. PICK m \in Nat : m = Len(p)
  OBVIOUS
<1>2. DOMAIN p = 1..m /\ \A j \in 1..m : p[j] \in Calls
  BY <1>1
<1>3. PICK s : s = SubSeq(Written(p), 1, n)
  OBVIOUS
<1>4. s \in Seq(Frame) /\ DOMAIN s = 1..n /\ \A j \in 1..n : s[j] = FrameOf(p[j].ops, p[j].id)
  <2>1. s \in Seq(Frame) /\ Len(s) = n /\ \A j \in 1..n : s[j] = FrameOf(p[j].ops, p[j].id)
    BY <1>3, WrittenIs
  <2> QED
    BY <2>1
<1>5. \A j \in 1..n : DOMAIN s[j] = DOMAIN p[j].ops
  <2>1. \A j \in 1..n : p[j].ops \in OpsSet /\ p[j].id \in Nat
    BY <1>1, <1>2 DEF Calls
  <2> QED
    BY <1>4, <2>1, FrameOfIs
<1>6. PICK j \in 1..n : /\ k \in DOMAIN s[j] /\ \A i \in 1..n : k \in DOMAIN s[i] => i <= j
                        /\ LastVal(s, k) = s[j][k]
  <2>1. /\ LastFrame(s, k) \in 1..n /\ k \in DOMAIN s[LastFrame(s, k)]
        /\ \A i \in 1..n : k \in DOMAIN s[i] => i <= LastFrame(s, k)
    BY <1>3, <1>4, LastFrameIs
  <2>2. LastVal(s, k) = s[LastFrame(s, k)][k]
    BY <2>1 DEF LastVal
  <2> QED
    BY <2>1, <2>2
<1>7. s[j][k] = EffectOf(iss, p[j].id, k)
  <2>1. p[j].id \in 1..Len(iss) /\ p[j].ops = iss[p[j].id]
    <3>1. j \in DOMAIN p
      BY <1>1, <1>2
    <3> QED
      BY <3>1 DEF Queued
  <2>2. k \in DOMAIN p[j].ops
    BY <1>5, <1>6
  <2>3. s[j][k] = IF p[j].ops[k] = "set" THEN p[j].id ELSE 0
    BY <1>4, <2>2 DEF FrameOf
  <2> QED
    BY <2>1, <2>3 DEF EffectOf
<1> QED
  BY <1>3, <1>5, <1>6, <1>7

-----------------------------------------------------------------------------
(* What is known of one key: iss are the commits, p the ones on their way, a *)
(* the last acknowledged one that touched it, v its value in memory, d the   *)
(* value that replaying the files yields.                                    *)

Waits(p, k) == \E j \in DOMAIN p : k \in DOMAIN p[j].ops

\* v is the effect of a commit that is none of those before a or of the first n
\* on their way.
Recent(iss, a, p, n, k, v) ==
  \E i \in 0..Len(iss) :
    /\ a <= i /\ Hits(iss, i, k) /\ v = EffectOf(iss, i, k)
    /\ \A j \in 1..n : k \in DOMAIN p[j].ops => p[j].id <= i

\* Memory holds the last commit, or the one before those that are rejected.
InMemory(iss, p, k, v) ==
  \A j \in DOMAIN p :
    /\ k \in DOMAIN p[j].ops
    /\ \A i \in DOMAIN p : k \in DOMAIN p[i].ops => i <= j
    => v = EffectOf(iss, p[j].id, k)

KeyValue(iss, p, k, a, v, d, rej) ==
  /\ a \in 0..Len(iss) /\ Hits(iss, a, k)
  /\ \A j \in DOMAIN p : k \in DOMAIN p[j].ops =>
       a < p[j].id /\ Recent(iss, a, p, j - 1, k, Val(p[j].prev[k]))
  /\ Recent(iss, a, p, Len(p), k, v)
  /\ Recent(iss, a, p, 0, k, d)
  /\ ~rej => (Waits(p, k) \/ v = d) /\ InMemory(iss, p, k, v)

\* A value is as recent after another commit, and without those on their way.
LEMMA RecentStays ==
  ASSUME NEW iss \in Seq(OpsSet), NEW a, NEW p, NEW n \in Nat, NEW k, NEW v,
         Recent(iss, a, p, n, k, v)
  PROVE  /\ \A q : Recent(iss, a, q, 0, k, v)
         /\ \A ops \in OpsSet : \A q : (\A j \in 1..n : q[j] = p[j]) => Recent(Append(iss, ops), a, q, n, k, v)
<1>1. PICK i \in 0..Len(iss) : /\ a <= i /\ Hits(iss, i, k) /\ v = EffectOf(iss, i, k)
                               /\ \A j \in 1..n : k \in DOMAIN p[j].ops => p[j].id <= i
  BY DEF Recent
<1>2. \A q : Recent(iss, a, q, 0, k, v)
  BY <1>1 DEF Recent
<1>3. ASSUME NEW ops \in OpsSet, NEW q, \A j \in 1..n : q[j] = p[j]
      PROVE  Recent(Append(iss, ops), a, q, n, k, v)
  <2>1. PICK t : t = Append(iss, ops)
    OBVIOUS
  <2>2. Len(t) = Len(iss) + 1 /\ \A j \in 1..Len(iss) : t[j] = iss[j]
    BY <2>1
  <2>3. i \in 0..Len(t) /\ Hits(t, i, k) /\ v = EffectOf(t, i, k)
    BY <1>1, <2>2 DEF Hits, EffectOf
  <2>4. Recent(t, a, q, n, k, v)
    BY <1>1, <1>3, <2>3 DEF Recent
  <2> QED
    BY <2>1, <2>4
<1> QED
  BY <1>2, <1>3

\* append and apply.
LEMMA CommitKeepsValue ==
  ASSUME NEW iss \in Seq(OpsSet), NEW p \in Seq(Calls), Queued(iss, p), NEW k, NEW a, NEW v, NEW d,
         NEW rej \in BOOLEAN, KeyValue(iss, p, k, a, v, d, rej),
         NEW ops \in OpsSet, NEW c \in Calls, c.ops = ops, c.id = Len(iss) + 1, NEW w,
         IF k \in DOMAIN ops THEN /\ w = (IF ops[k] = "set" THEN Len(iss) + 1 ELSE 0)
                                  /\ Val(c.prev[k]) = v
                             ELSE w = v
  PROVE  KeyValue(Append(iss, ops), Append(p, c), k, a, w, d, rej)
<1>1. PICK t, q : t = Append(iss, ops) /\ q = Append(p, c)
  OBVIOUS
<1>2. PICK m \in Nat, n \in Nat : m = Len(iss) /\ n = Len(p)
  OBVIOUS
<1>3. /\ Len(t) = m + 1 /\ t[m + 1] = ops /\ \A j \in 1..m : t[j] = iss[j]
      /\ DOMAIN p = 1..n /\ DOMAIN q = 1..(n + 1) /\ Len(q) = n + 1 /\ q[n + 1] = c
      /\ \A j \in 1..n : q[j] = p[j]
  BY <1>1, <1>2
<1>4. \A j \in 1..n : p[j].id \in 1..m
  BY <1>2, <1>3 DEF Queued
<1>5. a \in 0..Len(t) /\ Hits(t, a, k)
  BY <1>2, <1>3 DEF KeyValue, Hits
<1>6. \A j \in 0..n : \A x : Recent(iss, a, p, j, k, x) => Recent(t, a, q, j, k, x)
  <2> SUFFICES ASSUME NEW j \in 0..n, NEW x, Recent(iss, a, p, j, k, x)
               PROVE  Recent(t, a, q, j, k, x)
    OBVIOUS
  <2>1. j \in Nat /\ \A i \in 1..j : q[i] = p[i]
    BY <1>2, <1>3
  <2> QED
    BY <1>1, <2>1, RecentStays
<1>7. \A j \in 1..n : k \in DOMAIN p[j].ops =>
        a < p[j].id /\ Recent(iss, a, p, j - 1, k, Val(p[j].prev[k]))
  BY <1>3 DEF KeyValue
<1>8. \A j \in 1..n : k \in DOMAIN q[j].ops =>
        a < q[j].id /\ Recent(t, a, q, j - 1, k, Val(q[j].prev[k]))
  <2> SUFFICES ASSUME NEW j \in 1..n, k \in DOMAIN q[j].ops
               PROVE  a < q[j].id /\ Recent(t, a, q, j - 1, k, Val(q[j].prev[k]))
    OBVIOUS
  <2>1. q[j] = p[j] /\ j - 1 \in 0..n
    BY <1>3
  <2> QED
    BY <1>6, <1>7, <2>1
<1>9. /\ Recent(iss, a, p, n, k, v) /\ Recent(iss, a, p, 0, k, d)
      /\ ~rej => (Waits(p, k) \/ v = d) /\ InMemory(iss, p, k, v)
      /\ a \in 0..m
  BY <1>2 DEF KeyValue
<1>10. Recent(t, a, q, n, k, v) /\ Recent(t, a, q, 0, k, d)
  <2>1. n \in 0..n /\ 0 \in 0..n
    OBVIOUS
  <2> QED
    BY <1>6, <1>9, <2>1
<1>11. k \in DOMAIN c.ops => a < c.id /\ Recent(t, a, q, n, k, Val(c.prev[k]))
  BY <1>2, <1>9, <1>10
<1>12. Recent(t, a, q, n + 1, k, w)
  <2>1. CASE k \in DOMAIN ops
    <3>1. w = EffectOf(t, m + 1, k) /\ Hits(t, m + 1, k)
      BY <1>2, <1>3, <2>1 DEF EffectOf, Hits
    <3>2. m + 1 \in 0..Len(t) /\ a <= m + 1 /\ \A j \in 1..(n + 1) : k \in DOMAIN q[j].ops => q[j].id <= m + 1
      BY <1>2, <1>3, <1>4, <1>9
    <3> QED
      BY <3>1, <3>2 DEF Recent
  <2>2. CASE k \notin DOMAIN ops
    <3>1. w = v /\ k \notin DOMAIN q[n + 1].ops
      BY <1>3, <2>2
    <3>2. \A j \in 1..(n + 1) : k \in DOMAIN q[j].ops => j \in 1..n
      BY <3>1
    <3> QED
      BY <1>10, <3>1, <3>2 DEF Recent
  <2> QED
    BY <2>1, <2>2
<1>13. ASSUME ~rej
       PROVE  (Waits(q, k) \/ w = d) /\ InMemory(t, q, k, w)
  <2>1. CASE k \in DOMAIN ops
    <3>1. Waits(q, k)
      <4>1. n + 1 \in DOMAIN q /\ k \in DOMAIN q[n + 1].ops
        BY <1>2, <1>3, <2>1
      <4> QED
        BY <4>1 DEF Waits
    <3>2. w = EffectOf(t, m + 1, k) /\ q[n + 1].id = m + 1 /\ k \in DOMAIN q[n + 1].ops
      BY <1>2, <1>3, <2>1 DEF EffectOf
    <3>3. \A j \in 1..(n + 1) : n + 1 <= j => j = n + 1
      OBVIOUS
    <3>4. n + 1 \in 1..(n + 1)
      OBVIOUS
    <3>5. InMemory(t, q, k, w)
      BY <1>3, <3>2, <3>3, <3>4, Zenon DEF InMemory
    <3> QED
      BY <3>1, <3>5
  <2>2. CASE k \notin DOMAIN ops
    <3>1. w = v /\ k \notin DOMAIN q[n + 1].ops
      BY <1>3, <2>2
    <3>2. \A j \in 1..(n + 1) : k \in DOMAIN q[j].ops => j \in 1..n /\ q[j] = p[j]
      BY <1>3, <3>1
    <3>3. \A j \in 1..n : j \in 1..(n + 1) /\ q[j] = p[j]
      BY <1>3
    <3>4. Waits(p, k) => Waits(q, k)
      BY <1>3, <3>3 DEF Waits
    <3>5. \A j \in 1..n : EffectOf(t, p[j].id, k) = EffectOf(iss, p[j].id, k)
      BY <1>3, <1>4 DEF EffectOf
    <3>6. InMemory(t, q, k, w)
      <4> SUFFICES ASSUME NEW j \in 1..(n + 1), k \in DOMAIN q[j].ops,
                          \A i \in 1..(n + 1) : k \in DOMAIN q[i].ops => i <= j
                   PROVE  w = EffectOf(t, q[j].id, k)
        BY <1>3 DEF InMemory
      <4>1. j \in 1..n /\ q[j] = p[j]
        BY <3>2
      <4>2. \A i \in 1..n : k \in DOMAIN p[i].ops => i <= j
        BY <3>3
      <4>3. v = EffectOf(iss, p[j].id, k)
        BY <1>3, <1>9, <1>13, <4>1, <4>2 DEF InMemory
      <4> QED
        BY <3>1, <3>5, <4>1, <4>3
    <3> QED
      BY <1>9, <1>13, <3>1, <3>4, <3>6
  <2> QED
    BY <2>1, <2>2
<1>14. \A j \in DOMAIN q : k \in DOMAIN q[j].ops =>
         a < q[j].id /\ Recent(t, a, q, j - 1, k, Val(q[j].prev[k]))
  <2> SUFFICES ASSUME NEW j \in 1..(n + 1), k \in DOMAIN q[j].ops
               PROVE  a < q[j].id /\ Recent(t, a, q, j - 1, k, Val(q[j].prev[k]))
    BY <1>3
  <2>1. CASE j \in 1..n
    BY <1>8, <2>1
  <2>2. CASE j = n + 1
    <3>1. q[j] = c /\ j - 1 = n
      BY <1>3, <2>2
    <3> QED
      BY <1>11, <3>1
  <2> QED
    BY <2>1, <2>2
<1>15. KeyValue(t, q, k, a, w, d, rej)
  BY <1>3, <1>5, <1>10, <1>12, <1>13, <1>14 DEF KeyValue
<1> QED
  BY <1>1, <1>15

\* The commits among the first n on their way that touch k have left b in the files and
\* x as their last id.
Landed(iss, p, n, k, a, d, x, b) ==
  \/ /\ \A j \in 1..n : k \notin DOMAIN p[j].ops
     /\ x = a /\ b = d
  \/ \E j \in 1..n : /\ k \in DOMAIN p[j].ops
                     /\ \A i \in 1..n : k \in DOMAIN p[i].ops => i <= j
                     /\ x = p[j].id /\ b = EffectOf(iss, p[j].id, k)

\* What landed is recent; it is acknowledged or not.
LEMMA LandedRecent ==
  ASSUME NEW iss \in Seq(OpsSet), NEW p \in Seq(Calls), Queued(iss, p), NEW k, NEW a, NEW v, NEW d,
         NEW rej, KeyValue(iss, p, k, a, v, d, rej),
         NEW n \in 0..Len(p), NEW x, NEW b, Landed(iss, p, n, k, a, d, x, b)
  PROVE  /\ \A q : Recent(iss, a, q, 0, k, b) /\ Recent(iss, x, q, 0, k, b)
         /\ x \in 0..Len(iss) /\ Hits(iss, x, k) /\ a <= x
<1>1. PICK m \in Nat, l \in Nat : m = Len(iss) /\ l = Len(p)
  OBVIOUS
<1>2. /\ DOMAIN p = 1..l /\ a \in 0..m /\ Hits(iss, a, k) /\ Recent(iss, a, p, 0, k, d)
      /\ \A j \in 1..l : k \in DOMAIN p[j].ops => a < p[j].id
  BY <1>1 DEF KeyValue
<1>3. \A j \in 1..l : p[j].id \in 1..m /\ p[j].ops = iss[p[j].id]
  BY <1>1, <1>2 DEF Queued
<1>4. CASE x = a /\ b = d
  <2>1. 0 \in Nat
    OBVIOUS
  <2>2. \A q : Recent(iss, a, q, 0, k, d)
    BY <1>2, <2>1, RecentStays
  <2>3. x \in 0..Len(iss) /\ Hits(iss, x, k) /\ a <= x
    BY <1>1, <1>2, <1>4
  <2> QED
    BY <1>4, <2>2, <2>3, Zenon
<1>5. CASE \E j \in 1..n : k \in DOMAIN p[j].ops /\ x = p[j].id /\ b = EffectOf(iss, p[j].id, k)
  <2>1. PICK j \in 1..l : k \in DOMAIN p[j].ops /\ x = p[j].id /\ b = EffectOf(iss, p[j].id, k)
    BY <1>1, <1>5
  <2>2. x \in 1..m /\ k \in DOMAIN iss[x] /\ a < x /\ b = EffectOf(iss, x, k)
    BY <1>2, <1>3, <2>1
  <2>3. x \in 0..Len(iss) /\ Hits(iss, x, k) /\ a <= x /\ x <= x
    BY <1>1, <1>2, <2>2 DEF Hits
  <2>4. \A q : Recent(iss, a, q, 0, k, b) /\ Recent(iss, x, q, 0, k, b)
    BY <2>2, <2>3 DEF Recent
  <2> QED
    BY <2>3, <2>4
<1> QED
  BY <1>4, <1>5 DEF Landed

\* A batch has landed and is acknowledged.
LEMMA LandingKeepsValue ==
  ASSUME NEW iss \in Seq(OpsSet), NEW p \in Seq(Calls), Queued(iss, p), NEW k, NEW a, NEW v, NEW d,
         NEW rej \in BOOLEAN, KeyValue(iss, p, k, a, v, d, rej),
         NEW n \in 0..Len(p), NEW x, NEW b, Landed(iss, p, n, k, a, d, x, b),
         NEW q \in Seq(Calls), Len(q) = Len(p) - n, \A j \in 1..Len(q) : q[j] = p[n + j]
  PROVE  KeyValue(iss, q, k, x, v, b, rej)
<1>1. PICK m \in Nat, l \in Nat : m = Len(iss) /\ l = Len(p)
  OBVIOUS
<1>2. /\ DOMAIN p = 1..l /\ DOMAIN q = 1..(l - n) /\ Len(q) = l - n
      /\ \A j \in 1..(l - n) : q[j] = p[n + j] /\ n + j \in 1..l
  BY <1>1
<1>3. /\ a \in 0..m
      /\ \A j \in 1..l : k \in DOMAIN p[j].ops =>
           a < p[j].id /\ Recent(iss, a, p, j - 1, k, Val(p[j].prev[k]))
      /\ Recent(iss, a, p, l, k, v)
      /\ ~rej => (Waits(p, k) \/ v = d) /\ InMemory(iss, p, k, v)
  BY <1>1, <1>2 DEF KeyValue
<1>4. /\ \A j \in 1..l : p[j].id \in 1..m
      /\ \A i, j \in 1..l : i < j => p[i].id < p[j].id
  BY <1>1, <1>2 DEF Queued
<1>5. Recent(iss, x, q, 0, k, b) /\ x \in 0..m /\ Hits(iss, x, k) /\ a <= x
  BY <1>1, LandedRecent
<1>6. x = a \/ \E j \in 1..n : k \in DOMAIN p[j].ops /\ x = p[j].id
  BY DEF Landed
<1>7. \A j \in (n + 1)..l : k \in DOMAIN p[j].ops => x < p[j].id
  <2> SUFFICES ASSUME NEW j \in (n + 1)..l, k \in DOMAIN p[j].ops
               PROVE  x < p[j].id
    OBVIOUS
  <2>1. j \in 1..l /\ \A i \in 1..n : i \in 1..l /\ i < j
    BY <1>1
  <2> QED
    BY <1>3, <1>4, <1>6, <2>1
<1>8. ASSUME NEW j \in n..l, NEW w, Recent(iss, a, p, j, k, w)
      PROVE  Recent(iss, x, q, j - n, k, w)
  <2>1. PICK i \in 0..m : /\ a <= i /\ Hits(iss, i, k) /\ w = EffectOf(iss, i, k)
                          /\ \A h \in 1..j : k \in DOMAIN p[h].ops => p[h].id <= i
    BY <1>1, <1>8 DEF Recent
  <2>2. x <= i
    <3>1. \A h \in 1..n : h \in 1..j
      BY <1>1
    <3> QED
      BY <1>6, <2>1, <3>1
  <2>3. \A h \in 1..(j - n) : k \in DOMAIN q[h].ops => q[h].id <= i
    <3> SUFFICES ASSUME NEW h \in 1..(j - n), k \in DOMAIN q[h].ops
                 PROVE  q[h].id <= i
      OBVIOUS
    <3>1. n + h \in 1..j /\ h \in 1..(l - n)
      BY <1>1
    <3> QED
      BY <1>2, <2>1, <3>1
  <2> QED
    BY <1>1, <2>1, <2>2, <2>3 DEF Recent
<1>9. Recent(iss, x, q, Len(q), k, v)
  <2>1. l \in n..l
    BY <1>1
  <2> QED
    BY <1>2, <1>3, <1>8, <2>1
<1>10. \A j \in DOMAIN q : k \in DOMAIN q[j].ops =>
         x < q[j].id /\ Recent(iss, x, q, j - 1, k, Val(q[j].prev[k]))
  <2> SUFFICES ASSUME NEW j \in 1..(l - n), k \in DOMAIN q[j].ops
               PROVE  x < q[j].id /\ Recent(iss, x, q, j - 1, k, Val(q[j].prev[k]))
    BY <1>2
  <2>1. PICK h \in (n + 1)..l : h = n + j /\ q[j] = p[h] /\ h \in 1..l /\ h - 1 \in n..l /\ (h - 1) - n = j - 1
    BY <1>1, <1>2
  <2> QED
    BY <1>3, <1>7, <1>8, <2>1
<1>11. ASSUME ~rej
       PROVE  (Waits(q, k) \/ v = b) /\ InMemory(iss, q, k, v)
  <2>1. ASSUME ~Waits(q, k)
        PROVE  v = b
    <3>0. \A j \in (n + 1)..l : k \notin DOMAIN p[j].ops
      <4> SUFFICES ASSUME NEW j \in (n + 1)..l, k \in DOMAIN p[j].ops
                   PROVE  FALSE
        OBVIOUS
      <4>1. PICK h \in 1..(l - n) : n + h = j
        <5>1. j - n \in 1..(l - n) /\ n + (j - n) = j
          BY <1>1
        <5> QED
          BY <5>1
      <4> QED
        BY <1>2, <2>1, <4>1 DEF Waits
    <3>1. \A j \in 1..l : j \in 1..n \/ j \in (n + 1)..l
      BY <1>1
    <3>2. CASE \A j \in 1..n : k \notin DOMAIN p[j].ops
      <4>1. ~Waits(p, k)
        BY <1>2, <3>0, <3>1, <3>2 DEF Waits
      <4>2. b = d
        BY <3>2 DEF Landed
      <4> QED
        BY <1>3, <1>11, <4>1, <4>2
    <3>3. CASE \E j \in 1..n : k \in DOMAIN p[j].ops
      <4>1. PICK j \in 1..n : /\ k \in DOMAIN p[j].ops /\ b = EffectOf(iss, p[j].id, k)
                              /\ \A i \in 1..n : k \in DOMAIN p[i].ops => i <= j
        BY <3>3 DEF Landed
      <4>2. j \in 1..l /\ \A i \in 1..l : k \in DOMAIN p[i].ops => i <= j
        BY <1>1, <3>0, <3>1, <4>1
      <4> QED
        BY <1>2, <1>3, <1>11, <4>1, <4>2 DEF InMemory
    <3> QED
      BY <3>2, <3>3
  <2>2. InMemory(iss, q, k, v)
    <3> SUFFICES ASSUME NEW j \in 1..(l - n), k \in DOMAIN q[j].ops,
                        \A i \in 1..(l - n) : k \in DOMAIN q[i].ops => i <= j
                 PROVE  v = EffectOf(iss, q[j].id, k)
      BY <1>2 DEF InMemory
    <3>1. PICK h \in 1..l : h = n + j /\ q[j] = p[h]
      BY <1>2
    <3>2. \A i \in 1..l : k \in DOMAIN p[i].ops => i <= h
      <4> SUFFICES ASSUME NEW i \in 1..l, k \in DOMAIN p[i].ops, ~(i <= h)
                   PROVE  FALSE
        OBVIOUS
      <4>1. i - n \in 1..(l - n) /\ n + (i - n) = i
        BY <1>1, <3>1
      <4>2. q[i - n] = p[i]
        BY <1>2, <4>1
      <4>3. i - n <= j
        BY <4>1, <4>2
      <4> QED
        BY <1>1, <3>1, <4>3
    <3> QED
      BY <1>2, <1>3, <1>11, <3>1, <3>2 DEF InMemory
  <2> QED
    BY <2>1, <2>2
<1> QED
  BY <1>1, <1>5, <1>9, <1>10, <1>11 DEF KeyValue

\* A batch was rejected and rolled back: the value is that of before one of its commits.
LEMMA RollbackKeepsValue ==
  ASSUME NEW iss \in Seq(OpsSet), NEW p \in Seq(Calls), Queued(iss, p), NEW k, NEW a, NEW v, NEW d,
         NEW rej, KeyValue(iss, p, k, a, v, d, rej),
         NEW n \in 0..Len(p), NEW x, NEW b, Landed(iss, p, n, k, a, d, x, b),
         NEW w, w = v \/ \E j \in DOMAIN p : k \in DOMAIN p[j].ops /\ w = Val(p[j].prev[k])
  PROVE  KeyValue(iss, <<>>, k, a, w, b, TRUE)
<1>1. Recent(iss, a, <<>>, 0, k, b)
  BY LandedRecent
<1>2. Recent(iss, a, <<>>, 0, k, w)
  <2>1. CASE w = v
    <3>1. Recent(iss, a, p, Len(p), k, v) /\ Len(p) \in Nat
      BY DEF KeyValue
    <3> QED
      BY <2>1, <3>1, RecentStays
  <2>2. CASE \E j \in DOMAIN p : k \in DOMAIN p[j].ops /\ w = Val(p[j].prev[k])
    <3>1. PICK j \in DOMAIN p : k \in DOMAIN p[j].ops /\ w = Val(p[j].prev[k])
      BY <2>2
    <3>2. Recent(iss, a, p, j - 1, k, w) /\ j - 1 \in Nat
      BY <3>1 DEF KeyValue
    <3> QED
      BY <3>2, RecentStays
  <2> QED
    BY <2>1, <2>2
<1>3. a \in 0..Len(iss) /\ Hits(iss, a, k)
  BY DEF KeyValue
<1>4. Len(<<>>) = 0 /\ DOMAIN <<>> = {}
  OBVIOUS
<1> QED
  BY <1>1, <1>2, <1>3, <1>4 DEF KeyValue

\* The store is what the files yield: after a crash.
LEMMA RestartKeepsValue ==
  ASSUME NEW iss, NEW k, NEW a, NEW b, NEW rej, a \in 0..Len(iss), Hits(iss, a, k),
         Recent(iss, a, <<>>, 0, k, b)
  PROVE  KeyValue(iss, <<>>, k, a, b, b, rej)
<1>1. Len(<<>>) = 0 /\ DOMAIN <<>> = {}
  OBVIOUS
<1>2. InMemory(iss, <<>>, k, b)
  BY <1>1 DEF InMemory
<1> QED
  BY <1>1, <1>2 DEF KeyValue

\* Other files take the place of the old ones while nothing is on its way.
LEMMA RenameKeepsValue ==
  ASSUME NEW iss, NEW k, NEW a, NEW v, NEW d, NEW rej, KeyValue(iss, <<>>, k, a, v, d, rej),
         NEW b, Recent(iss, a, <<>>, 0, k, b), ~rej => v = b
  PROVE  KeyValue(iss, <<>>, k, a, v, b, rej)
BY DEF KeyValue

-----------------------------------------------------------------------------
(* What the new snapshot knows of one key, with the tail of the log past the *)
(* fence: open says that the iteration is under way, todo that it still has  *)
(* to reach the key.                                                         *)

KeySnap(iss, p, k, a, v, tail, snap, open, todo, rej) ==
  /\ open /\ ~todo => Touches(snap, k)
  /\ ~Touches(tail, k) =>
       /\ Touches(snap, k) \/ ~open => Recent(iss, a, <<>>, 0, k, LastVal(snap, k))
       /\ ~rej /\ ~Waits(p, k) =>
            IF open /\ todo THEN ~Touches(snap, k) ELSE LastVal(snap, k) = v

\* A commit that touches the key will be in the tail.
LEMMA CommitKeepsSnap ==
  ASSUME NEW iss \in Seq(OpsSet), NEW p \in Seq(Calls), NEW k, NEW a, NEW v, NEW tail, NEW snap,
         NEW open \in BOOLEAN, NEW todo \in BOOLEAN, NEW rej \in BOOLEAN,
         KeySnap(iss, p, k, a, v, tail, snap, open, todo, rej),
         NEW ops \in OpsSet, NEW c \in Calls, c.ops = ops, NEW w, NEW later \in BOOLEAN,
         todo => later, k \notin DOMAIN ops => w = v /\ later = todo
  PROVE  KeySnap(Append(iss, ops), Append(p, c), k, a, w, tail, snap, open, later, rej)
<1>1. Recent(iss, a, <<>>, 0, k, LastVal(snap, k)) => Recent(Append(iss, ops), a, <<>>, 0, k, LastVal(snap, k))
  BY RecentStays
<1>2. PICK q : q = Append(p, c)
  OBVIOUS
<1>3. ~Waits(q, k) => ~Waits(p, k) /\ k \notin DOMAIN ops
  <2>1. PICK n \in Nat : n = Len(p)
    OBVIOUS
  <2>2. DOMAIN p = 1..n /\ DOMAIN q = 1..(n + 1) /\ q[n + 1] = c /\ \A j \in 1..n : q[j] = p[j] /\ j \in 1..(n + 1)
    BY <1>2, <2>1
  <2>3. n + 1 \in 1..(n + 1)
    OBVIOUS
  <2> QED
    BY <2>2, <2>3 DEF Waits
<1> QED
  BY <1>1, <1>2, <1>3 DEF KeySnap

\* q are the calls that are left of p when the first n have landed.
Leaves(iss, p, n, k, a, d, x, b, q) ==
  /\ iss \in Seq(OpsSet) /\ p \in Seq(Calls) /\ Queued(iss, p) /\ n \in 0..Len(p)
  /\ Landed(iss, p, n, k, a, d, x, b)
  /\ q \in Seq(Calls) /\ Len(q) = Len(p) - n /\ \A j \in 1..Len(q) : q[j] = p[n + j]

\* What lands is in the tail.
LEMMA LandingKeepsSnap ==
  ASSUME NEW iss, NEW p, NEW k, NEW a, NEW v, NEW d, NEW n, NEW x, NEW b, NEW q,
         Leaves(iss, p, n, k, a, d, x, b, q),
         NEW tail \in Seq(Frame), NEW snap,
         NEW open \in BOOLEAN, NEW todo \in BOOLEAN, NEW rej \in BOOLEAN,
         KeySnap(iss, p, k, a, v, tail, snap, open, todo, rej)
  PROVE  KeySnap(iss, q, k, x, v, tail \o SubSeq(Written(p), 1, n), snap, open, todo, rej)
<1>7. /\ iss \in Seq(OpsSet) /\ p \in Seq(Calls) /\ Queued(iss, p) /\ n \in 0..Len(p)
      /\ Landed(iss, p, n, k, a, d, x, b)
      /\ q \in Seq(Calls) /\ Len(q) = Len(p) - n /\ \A j \in 1..Len(q) : q[j] = p[n + j]
  BY DEF Leaves
<1>1. PICK s \in Seq(Frame) : s = SubSeq(Written(p), 1, n)
  BY <1>7, WrittenIs
<1>2. Touches(s, k) <=> \E j \in 1..n : k \in DOMAIN p[j].ops
  BY <1>1, <1>7, WrittenIs
<1>3. Touches(tail \o s, k) <=> Touches(tail, k) \/ Touches(s, k)
  BY ConcatTouches
<1>4. ASSUME ~Touches(s, k)
      PROVE  x = a /\ (Waits(p, k) => Waits(q, k))
  <2>1. x = a
    BY <1>2, <1>4, <1>7 DEF Landed
  <2>2. PICK l \in Nat : l = Len(p)
    BY <1>7
  <2>3. DOMAIN p = 1..l /\ DOMAIN q = 1..(l - n) /\ \A j \in 1..(l - n) : q[j] = p[n + j]
    BY <1>7, <2>2
  <2>4. \A j \in 1..l : j \in 1..n \/ (j - n \in 1..(l - n) /\ n + (j - n) = j)
    BY <1>7, <2>2
  <2>5. \A j \in 1..l : j \in 1..n \/ \E h \in 1..(l - n) : q[h] = p[j]
    BY <2>3, <2>4
  <2> QED
    BY <1>2, <1>4, <2>1, <2>3, <2>5 DEF Waits
<1>5. ~Touches(tail \o s, k) => ~Touches(tail, k) /\ ~Touches(s, k)
  BY <1>3
<1> HIDE <1>3
<1>6. KeySnap(iss, q, k, x, v, tail \o s, snap, open, todo, rej)
  BY <1>4, <1>5 DEF KeySnap
<1> QED
  BY <1>1, <1>6

\* Nothing is known of the snapshot when the iteration begins.
LEMMA FenceMakesSnap ==
  ASSUME NEW iss, NEW p, NEW k, NEW a, NEW v, NEW tail, NEW rej
  PROVE  KeySnap(iss, p, k, a, v, tail, <<>>, TRUE, TRUE, rej)
BY EmptyTouches DEF KeySnap

\* An entry of another key.
LEMMA EntryOfAnother ==
  ASSUME NEW snap \in Seq(Frame), NEW e \in Frame, NEW k, k \notin DOMAIN e
  PROVE  /\ Touches(Append(snap, e), k) <=> Touches(snap, k)
         /\ LastVal(Append(snap, e), k) = LastVal(snap, k)
<1>1. <<e>> \in Seq(Frame) /\ DOMAIN <<e>> = {1} /\ <<e>>[1] = e
  OBVIOUS
<1>2. ~Touches(<<e>>, k)
  BY <1>1 DEF Touches
<1>3. Append(snap, e) = snap \o <<e>>
  BY AppendIsConcat, Zenon
<1>4. /\ Touches(snap \o <<e>>, k) <=> Touches(snap, k) \/ Touches(<<e>>, k)
      /\ LastVal(snap \o <<e>>, k) = IF Touches(<<e>>, k) THEN LastVal(<<e>>, k) ELSE LastVal(snap, k)
  BY <1>1, ConcatTouches
<1> QED
  BY <1>2, <1>3, <1>4, Zenon

\* The entry of a key is its value of that moment.
LEMMA EntryOfKey ==
  ASSUME NEW snap \in Seq(Frame), NEW e \in Frame, NEW k \in DOMAIN e
  PROVE  /\ Touches(Append(snap, e), k)
         /\ LastVal(Append(snap, e), k) = e[k]
         /\ Reads(Append(snap, e), Len(snap), k, e[k])
<1>1. PICK n \in Nat : n = Len(snap)
  OBVIOUS
<1>2. PICK t : t = Append(snap, e)
  OBVIOUS
<1>3. t \in Seq(Frame) /\ DOMAIN t = 1..(n + 1) /\ t[n + 1] = e /\ n + 1 \in 1..(n + 1)
  BY <1>1, <1>2
<1>4. \A j \in DOMAIN t : k \in DOMAIN t[j] => j <= n + 1
  BY <1>3
<1>5. n + 1 \in DOMAIN t /\ k \in DOMAIN t[n + 1]
  BY <1>3
<1>6. Touches(t, k)
  BY <1>5 DEF Touches
<1>7. LastVal(t, k) = t[n + 1][k]
  BY <1>3, <1>4, <1>5, LastValIs
<1> QED
  BY <1>1, <1>2, <1>3, <1>5, <1>6, <1>7 DEF Reads

\* A key that is written to the snapshot is done with.
LEMMA EntryKeepsSnap ==
  ASSUME NEW iss \in Seq(OpsSet), NEW p \in Seq(Calls), NEW k, NEW a, NEW v, NEW d, NEW rej,
         KeyValue(iss, p, k, a, v, d, rej),
         NEW tail, NEW snap \in Seq(Frame), NEW e \in Frame, k \in DOMAIN e, e[k] = v
  PROVE  KeySnap(iss, p, k, a, v, tail, Append(snap, e), TRUE, FALSE, rej)
<1>1. Touches(Append(snap, e), k) /\ LastVal(Append(snap, e), k) = v
  BY EntryOfKey
<1>2. Recent(iss, a, p, Len(p), k, v) /\ Len(p) \in Nat
  BY DEF KeyValue
<1>3. Recent(iss, a, <<>>, 0, k, v)
  BY <1>2, RecentStays
<1> QED
  BY <1>1, <1>3 DEF KeySnap

\* The iteration ends when the keys it has not reached are gone.
LEMMA EndKeepsSnap ==
  ASSUME NEW iss \in Seq(OpsSet), NEW p \in Seq(Calls), NEW k, NEW a, NEW v, NEW d, NEW rej \in BOOLEAN,
         KeyValue(iss, p, k, a, v, d, rej),
         NEW tail, NEW snap \in Seq(Frame), NEW todo \in BOOLEAN,
         KeySnap(iss, p, k, a, v, tail, snap, TRUE, todo, rej), todo => v = 0
  PROVE  KeySnap(iss, p, k, a, v, tail, snap, FALSE, todo, rej)
<1>1. ~Touches(snap, k) => LastVal(snap, k) = 0
  BY UntouchedVal
<1>2. Recent(iss, a, p, Len(p), k, v) /\ Len(p) \in Nat
  BY DEF KeyValue
<1>3. Recent(iss, a, <<>>, 0, k, v)
  BY <1>2, RecentStays
<1> QED
  BY <1>1, <1>3 DEF KeySnap

\* The new snapshot with the old log, or with the tail of the old log, replays to what
\* the old files did or to something as recent.
LEMMA NewFilesReplay ==
  ASSUME NEW iss, NEW k, NEW a, NEW v, NEW rej \in BOOLEAN, NEW log \in Seq(Frame), NEW n \in Nat, n <= Len(log),
         NEW snap \in Seq(Frame), NEW was,
         KeyValue(iss, <<>>, k, a, v, Replayed(was, log, k), rej), NEW todo,
         KeySnap(iss, <<>>, k, a, v, After(log, n), snap, FALSE, todo, rej),
         NEW now, now = log \/ now = After(log, n)
  PROVE  KeyValue(iss, <<>>, k, a, v, Replayed(snap, now, k), rej)
<1>1. /\ Recent(iss, a, <<>>, 0, k, Replayed(was, log, k))
      /\ ~rej => v = Replayed(was, log, k)
  <2>1. ~Waits(<<>>, k)
    BY DEF Waits
  <2> QED
    BY <2>1 DEF KeyValue
<1>2. Touches(After(log, n), k) => Touches(log, k) /\ LastVal(log, k) = LastVal(After(log, n), k)
  BY AfterTouches
<1>3. CASE Touches(now, k)
  <2>1. Replayed(snap, now, k) = Replayed(was, log, k)
    BY <1>2, <1>3 DEF Replayed
  <2> QED
    BY <1>1, <2>1, RenameKeepsValue
<1>4. CASE ~Touches(now, k)
  <2>1. ~Touches(After(log, n), k) /\ Replayed(snap, now, k) = LastVal(snap, k)
    BY <1>2, <1>4 DEF Replayed
  <2>2. Recent(iss, a, <<>>, 0, k, LastVal(snap, k)) /\ (~rej => LastVal(snap, k) = v)
    <3>1. ~Waits(<<>>, k)
      BY DEF Waits
    <3> QED
      BY <2>1, <3>1 DEF KeySnap
  <2> QED
    BY <2>1, <2>2, RenameKeepsValue
<1> QED
  BY <1>3, <1>4

-----------------------------------------------------------------------------
(* Types *)

Cpcs == {"idle", "fence", "snapshot", "precopy", "drain", "close", "renameSnapshot", "renameWal",
         "swap", "open", "rollback"}
Wpcs == {"idle", "parked", "ready", "queued", "retry", "again"}
Wals == [open : BOOLEAN, closed : BOOLEAN, sealed : BOOLEAN, size : Nat, next : Nat,
         queue : Seq(Writers), batch : Seq(Writers)]
Cmps == [n : Numbers, base : Nat, copied : Nat, appended : BOOLEAN, passes : Nat, todo : SUBSET Keys,
         locs : [Keys -> Locations \cup {None}], rotated : BOOLEAN]
Stores == [Keys -> Records \cup {None}]

FilesTyped ==
  /\ snapFile \in [Numbers -> Seq(Frame)] /\ walFile \in [Numbers -> Seq(Frame)]
  /\ snapAt \in Numbers /\ walAt \in Numbers
  /\ reader \in [snap : Numbers, wal : Numbers]
DataTyped ==
  /\ disk \in BOOLEAN /\ rejected \in BOOLEAN
  /\ store \in Stores /\ issued \in Seq(OpsSet) /\ call \in [Writers -> Calls]
FlowTyped ==
  /\ wal \in Wals /\ cpc \in Cpcs /\ cmp \in Cmps /\ wpc \in [Writers -> Wpcs]
  /\ lock \in BOOLEAN /\ unopened \in BOOLEAN /\ compactions \in Numbers
Typed == FilesTyped /\ DataTyped /\ FlowTyped

Pend == wal.batch \o wal.queue
Waiting == [j \in DOMAIN Pend |-> call[Pend[j]]]

\* A writer whose frame is on its way waits for it.
QueueSound ==
  /\ Queued(issued, Waiting)
  /\ \A j \in DOMAIN Pend : wpc[Pend[j]] = "queued"
  /\ disk => /\ wal.next = wal.size + Len(Pend)
             /\ \A j \in DOMAIN Pend : call[Pend[j]].off = wal.size + j - 1

\* A store never holds anything but records and None.
LEMMA StoreBecomesTyped ==
  ASSUME Typed, NEW s \in Stores, StoreBecomes(s)
  PROVE  store' = s /\ cmp' \in Cmps /\ cmp.n = cmp'.n /\ cmp'.rotated = cmp.rotated
         /\ cmp'.base = cmp.base /\ cmp'.copied = cmp.copied /\ cmp'.locs = cmp.locs
         /\ cmp'.todo = IF cpc = "snapshot" THEN cmp.todo \cup {k \in Keys : store[k] # None /\ s[k] = None}
                                            ELSE cmp.todo
BY DEF StoreBecomes, Typed, FlowTyped, Cmps

\* p are the writers b and q name, x their calls.
Lined(b, q, c, p, x) ==
  /\ p \in Seq(Writers) /\ x \in Seq(Calls)
  /\ Len(b) \in Nat /\ Len(q) \in Nat /\ Len(p) \in Nat /\ Len(p) = Len(b) + Len(q) /\ Len(x) = Len(p)
  /\ DOMAIN p = 1..Len(p) /\ DOMAIN x = 1..Len(p)
  /\ \A j \in 1..Len(p) : x[j] = c[p[j]] /\ p[j] \in Writers
  /\ (b = <<>> /\ q = <<>>) <=> Len(p) = 0
  /\ Len(p) = 0 => x = <<>> /\ DOMAIN p = {} /\ DOMAIN x = {}
  /\ \A j \in 1..Len(b) : p[j] = b[j]
  /\ \A j \in 1..Len(q) : p[Len(b) + j] = q[j]

\* A function on the first numbers is a sequence.
LEMMA FunctionIsSeq ==
  ASSUME NEW T, NEW l \in Nat, NEW x \in [1..l -> T]
  PROVE  x \in Seq(T) /\ Len(x) = l /\ DOMAIN x = 1..l
OBVIOUS

\* The calls of the writers in a line.
IsLine(p, b, q) == p = b \o q
\* A line of writers and their calls.
LEMMA LinedUp ==
  ASSUME NEW b \in Seq(Writers), NEW q \in Seq(Writers), NEW c \in [Writers -> Calls],
         NEW p, IsLine(p, b, q), NEW x, x = [j \in DOMAIN p |-> c[p[j]]]
  PROVE  Lined(b, q, c, p, x)
<1>3. PICK m \in Nat, n \in Nat, l \in Nat : m = Len(b) /\ n = Len(q) /\ l = m + n
  <2>1. Len(b) \in Nat /\ Len(q) \in Nat
    OBVIOUS
  <2> QED
    BY <2>1
<1>4. /\ p \in Seq(Writers) /\ Len(p) = m + n
      /\ \A j \in 1..(m + n) : p[j] = IF j <= m THEN b[j] ELSE q[j - m]
  BY <1>3, ConcatProperties DEF IsLine
<1>5. Len(p) = l /\ DOMAIN p = 1..l /\ \A j \in 1..l : p[j] \in Writers
  BY <1>3, <1>4
<1>7. x \in [1..l -> Calls] /\ \A j \in 1..l : x[j] = c[p[j]]
  BY <1>5
<1>8. x \in Seq(Calls) /\ Len(x) = l /\ DOMAIN x = 1..l
  BY <1>7, FunctionIsSeq
<1>9. (b = <<>> /\ q = <<>>) <=> l = 0
  <2>1. \A s \in Seq(Writers) : s = <<>> <=> Len(s) = 0
    BY EmptySeq
  <2> QED
    BY <1>3, <2>1
<1>10. l = 0 => x = <<>> /\ 1..l = {}
  <2>1. \A s \in Seq(Calls) : s = <<>> <=> Len(s) = 0
    BY EmptySeq
  <2> QED
    BY <1>8, <2>1
<1>11. /\ \A j \in 1..m : p[j] = b[j]
       /\ \A j \in 1..n : p[m + j] = q[j]
  <2>1. \A j \in 1..m : j \in 1..(m + n) /\ j <= m
    BY <1>3
  <2>2. \A j \in 1..n : m + j \in 1..(m + n) /\ ~(m + j <= m) /\ (m + j) - m = j
    BY <1>3
  <2> QED
    BY <1>4, <2>1, <2>2
<1> QED
  BY <1>3, <1>4, <1>5, <1>7, <1>8, <1>9, <1>10, <1>11 DEF Lined

\* The commits on their way are calls of writers.
LEMMA PendLined ==
  /\ Typed => Lined(wal.batch, wal.queue, call, Pend, Waiting)
  /\ Typed' => Lined(wal.batch, wal.queue, call, Pend, Waiting)'
<1>1. ASSUME Typed
      PROVE  Lined(wal.batch, wal.queue, call, Pend, Waiting)
  <2>1. wal.batch \in Seq(Writers) /\ wal.queue \in Seq(Writers) /\ call \in [Writers -> Calls]
    BY <1>1 DEF Typed, FlowTyped, DataTyped, Wals
  <2>2. Pend = wal.batch \o wal.queue /\ Waiting = [j \in DOMAIN Pend |-> call[Pend[j]]]
    BY DEF Pend, Waiting
  <2> QED
    BY <2>1, <2>2, LinedUp DEF IsLine
<1>2. ASSUME Typed'
      PROVE  Lined(wal.batch, wal.queue, call, Pend, Waiting)'
  <2>1. wal'.batch \in Seq(Writers) /\ wal'.queue \in Seq(Writers) /\ call' \in [Writers -> Calls]
    BY <1>2 DEF Typed, FlowTyped, DataTyped, Wals
  <2>2. Pend' = wal'.batch \o wal'.queue /\ Waiting' = [j \in DOMAIN Pend' |-> call'[Pend'[j]]]
    BY DEF Pend, Waiting
  <2>3. Lined(wal'.batch, wal'.queue, call', Pend', Waiting')
    BY <2>1, <2>2, LinedUp DEF IsLine
  <2> QED
    BY <2>3
<1> QED
  BY <1>1, <1>2

\* The writers whose frames are on their way, and their calls.
LEMMA PendTyped ==
  ASSUME Typed
  PROVE  /\ Pend \in Seq(Writers) /\ Waiting \in Seq(Calls)
         /\ Len(Pend) \in Nat /\ Len(Waiting) = Len(Pend)
         /\ DOMAIN Pend = 1..Len(Pend) /\ DOMAIN Waiting = 1..Len(Pend)
         /\ Len(Pend) = Len(wal.batch) + Len(wal.queue) /\ Len(wal.batch) \in Nat /\ Len(wal.queue) \in Nat
         /\ \A j \in DOMAIN Pend : Waiting[j] = call[Pend[j]] /\ Pend[j] \in Writers
         /\ Drained <=> Len(Pend) = 0
         /\ Drained => Waiting = <<>> /\ DOMAIN Pend = {} /\ DOMAIN Waiting = {}
BY PendLined DEF Lined, Drained

\* Values the first state and every step give to the variables.
LEMMA Torns ==
  Torn \in OpsSet /\ Torn \in Prevs /\ NoCall \in Calls /\ Torn \in Frame /\ DOMAIN Torn = {}
<1>1. DOMAIN Torn = {} /\ {} \in SUBSET Keys
  BY DEF Torn
<1>2. Torn \in [{} -> {"set", "del"}] /\ Torn \in [{} -> Nat] /\ Torn \in [{} -> Records \cup {None}]
  BY DEF Torn
<1>3. Torn \in OpsSet /\ Torn \in Frame /\ Torn \in Prevs
  BY <1>1, <1>2 DEF OpsSet, Frame, Prevs
<1> QED
  BY <1>1, <1>3 DEF NoCall, Calls

\* A new log object.
LEMMA NewWalTyped ==
  ASSUME NEW open \in BOOLEAN, NEW size \in Nat
  PROVE  /\ NewWal(open, size) \in Wals
         /\ NewWal(open, size).batch = <<>> /\ NewWal(open, size).queue = <<>>
         /\ NewWal(open, size).size = size /\ NewWal(open, size).next = size
         /\ NewWal(open, size).open = open /\ ~NewWal(open, size).closed /\ ~NewWal(open, size).sealed
BY DEF NewWal, Wals

\* No compaction.
LEMMA NoCompactionTyped ==
  NoCompaction \in Cmps
BY BoundAssumption DEF NoCompaction, Cmps, Numbers

\* A new database is of the right types.
LEMMA InitTyped ==
  ASSUME Init
  PROVE  Typed
<1>1. 0 \in Numbers /\ <<>> \in Seq(Frame) /\ <<>> \in Seq(OpsSet)
  BY BoundAssumption DEF Numbers
<1>2. FilesTyped
  BY <1>1 DEF Init, FilesTyped
<1>3. DataTyped
  BY <1>1, Torns DEF Init, DataTyped, Stores
<1>4. wal \in Wals /\ cmp \in Cmps
  BY NewWalTyped, NoCompactionTyped DEF Init
<1>5. FlowTyped
  BY <1>1, <1>4 DEF Init, FlowTyped, Cpcs, Wpcs
<1> QED
  BY <1>2, <1>3, <1>5 DEF Typed

\* What a writer may commit.
LEMMA ChosenTyped ==
  ASSUME Typed, NEW w \in Writers, NEW ops \in Chosen(w)
  PROVE  ops \in OpsSet
<1>1. CASE wpc[w] = "again"
  BY <1>1 DEF Chosen, Typed, DataTyped, Calls
<1>2. CASE wpc[w] # "again"
  <2>1. ops \in Ops
    BY <1>2 DEF Chosen
  <2> QED
    BY <2>1 DEF Ops, OpsSet
<1> QED
  BY <1>1, <1>2

\* The operations of a write.
LEMMA OpsDomain ==
  ASSUME NEW ops \in OpsSet
  PROVE  DOMAIN ops \in SUBSET Keys /\ ops \in [DOMAIN ops -> {"set", "del"}]
BY DEF OpsSet

\* The store after the operations of a write, and after their rollback.
LEMMA AppliedTyped ==
  ASSUME Typed, NEW ops \in OpsSet, NEW i \in Nat
  PROVE  /\ Applied(ops, i) \in Stores
         /\ \A k \in Keys :
              IF k \in DOMAIN ops
                THEN Val(Applied(ops, i)[k]) = (IF ops[k] = "set" THEN i ELSE 0)
                ELSE Applied(ops, i)[k] = store[k]
         /\ \A k \in Keys : Applied(ops, i)[k] # None /\ k \in DOMAIN ops =>
              ops[k] = "set" /\ Applied(ops, i)[k] = [val |-> i, loc |-> None, by |-> i]
<1>1. [val |-> i, loc |-> None, by |-> i] \in Records
  BY DEF Records
<1>2. [val |-> i, loc |-> None, by |-> i] # None
  BY <1>1, NoneAssumption
<1>3. store \in Stores
  BY DEF Typed, DataTyped
<1>4. Applied(ops, i) \in Stores
  BY <1>1, <1>3 DEF Applied, Stores
<1>5. \A k \in Keys :
        Applied(ops, i)[k] = IF k \notin DOMAIN ops THEN store[k]
                             ELSE IF ops[k] = "set" THEN [val |-> i, loc |-> None, by |-> i] ELSE None
  BY DEF Applied
<1>6. \A k \in Keys : k \in DOMAIN ops => Val(Applied(ops, i)[k]) = (IF ops[k] = "set" THEN i ELSE 0)
  BY <1>2, <1>5 DEF Val
<1> QED
  BY <1>2, <1>4, <1>5, <1>6

\* Applying a write and rolling it back at once leaves the values as they are.
LEMMA TouchedTyped ==
  ASSUME Typed, NEW ops
  PROVE  /\ Touched(ops) \in Stores
         /\ \A k \in Keys :
              \/ Touched(ops)[k] = store[k]
              \/ /\ store[k] # None /\ Touched(ops)[k] = [store[k] EXCEPT !.by = 0]
                 /\ Touched(ops)[k] # None /\ Touched(ops)[k].by = 0
                 /\ Touched(ops)[k].val = store[k].val /\ Touched(ops)[k].loc = store[k].loc
         /\ \A k \in Keys : Touched(ops)[k] = None <=> store[k] = None
<1>1. \A k \in Keys : store[k] # None => store[k] \in Records
  BY DEF Typed, DataTyped, Stores
<1>2. \A r \in Records : /\ [r EXCEPT !.by = 0] \in Records /\ [r EXCEPT !.by = 0] # None
                         /\ [r EXCEPT !.by = 0].by = 0
                         /\ [r EXCEPT !.by = 0].val = r.val /\ [r EXCEPT !.by = 0].loc = r.loc
  <2>1. \A r \in Records : [r EXCEPT !.by = 0] \in Records
    BY DEF Records
  <2>2. \A r \in Records : /\ [r EXCEPT !.by = 0].by = 0
                           /\ [r EXCEPT !.by = 0].val = r.val /\ [r EXCEPT !.by = 0].loc = r.loc
    BY DEF Records
  <2> QED
    BY <2>1, <2>2, NoneAssumption
<1>3. \A k \in Keys :
        Touched(ops)[k] = IF k \in DOMAIN ops /\ store[k] # None THEN [store[k] EXCEPT !.by = 0] ELSE store[k]
  BY DEF Touched
<1>4. Touched(ops) \in Stores
  <2>1. \A k \in Keys : Touched(ops)[k] \in Records \cup {None}
    BY <1>1, <1>2, <1>3
  <2>2. Touched(ops) = [k \in Keys |-> Touched(ops)[k]]
    BY DEF Touched
  <2> QED
    BY <2>1, <2>2 DEF Stores
<1>5. ASSUME NEW k \in Keys
      PROVE  /\ \/ Touched(ops)[k] = store[k]
                \/ /\ store[k] # None /\ Touched(ops)[k] = [store[k] EXCEPT !.by = 0]
                   /\ Touched(ops)[k] # None /\ Touched(ops)[k].by = 0
                   /\ Touched(ops)[k].val = store[k].val /\ Touched(ops)[k].loc = store[k].loc
             /\ Touched(ops)[k] = None <=> store[k] = None
  <2>1. CASE k \in DOMAIN ops /\ store[k] # None
    <3>1. PICK r \in Records : r = store[k]
      BY <1>1, <2>1
    <3>2. Touched(ops)[k] = [r EXCEPT !.by = 0]
      BY <1>3, <2>1, <3>1
    <3> QED
      BY <1>2, <2>1, <3>1, <3>2
  <2>2. CASE ~(k \in DOMAIN ops /\ store[k] # None)
    <3>1. Touched(ops)[k] = store[k]
      BY <1>3, <2>2
    <3> QED
      BY <3>1
  <2> QED
    BY <2>1, <2>2
<1> QED
  BY <1>4, <1>5

\* The frames of the batch are those of the first commits on their way.
LEMMA BatchFrames ==
  ASSUME Typed, QueueSound
  PROVE  /\ Len(wal.batch) \in 0..Len(Waiting)
         /\ Frames(wal.batch) = SubSeq(Written(Waiting), 1, Len(wal.batch))
         /\ Frames(wal.batch) \in Seq(Frame) /\ Len(Frames(wal.batch)) = Len(wal.batch)
         /\ \A n \in 0..Len(wal.batch) :
              /\ SubSeq(Frames(wal.batch), 1, n) = SubSeq(Written(Waiting), 1, n)
              /\ SubSeq(Frames(wal.batch), 1, n) \in Seq(Frame)
              /\ Len(SubSeq(Frames(wal.batch), 1, n)) = n
         /\ \A j \in 1..Len(wal.batch) : wal.batch[j] = Pend[j] /\ Waiting[j] = call[wal.batch[j]]
<1>1. wal.batch \in Seq(Writers) /\ wal.queue \in Seq(Writers)
  BY DEF Typed, FlowTyped, Wals
<1>2. PICK b \in Seq(Writers), q \in Seq(Writers) : b = wal.batch /\ q = wal.queue
  BY <1>1
<1>3. PICK m \in Nat, n \in Nat, l \in Nat : m = Len(b) /\ n = Len(q) /\ l = m + n
  <2>1. Len(b) \in Nat /\ Len(q) \in Nat
    OBVIOUS
  <2> QED
    BY <2>1
<1>4. /\ Waiting \in Seq(Calls) /\ Len(Waiting) = l /\ DOMAIN Waiting = 1..l
      /\ \A j \in 1..l : Waiting[j] = call[Pend[j]]
  <2>1. /\ Waiting \in Seq(Calls) /\ Len(Waiting) = Len(Pend) /\ DOMAIN Waiting = DOMAIN Pend
        /\ Len(Pend) = Len(wal.batch) + Len(wal.queue)
        /\ \A j \in DOMAIN Pend : Waiting[j] = call[Pend[j]]
    BY PendTyped
  <2>2. Len(Waiting) = l
    BY <1>2, <1>3, <2>1
  <2>3. DOMAIN Waiting = 1..Len(Waiting)
    BY <2>1
  <2> QED
    BY <2>1, <2>2, <2>3
<1>5. \A j \in 1..m : b[j] = Pend[j]
  <2>1. PICK p : p = b \o q
    OBVIOUS
  <2>2. \A j \in 1..(m + n) : p[j] = IF j <= m THEN b[j] ELSE q[j - m]
    BY <1>3, <2>1, ConcatProperties
  <2>3. p = Pend
    BY <1>2, <2>1, Zenon DEF Pend
  <2> QED
    BY <1>3, <2>2, <2>3
<1>6. Queued(issued, Waiting) /\ issued \in Seq(OpsSet)
  BY DEF QueueSound, Typed, DataTyped
<1>7. PICK x : x = Written(Waiting)
  OBVIOUS
<1>8. /\ x \in Seq(Frame) /\ Len(x) = l
      /\ \A h \in 0..l : SubSeq(x, 1, h) \in Seq(Frame) /\ Len(SubSeq(x, 1, h)) = h
      /\ \A h \in 0..l : \A j \in 1..h : SubSeq(x, 1, h)[j] = FrameOf(Waiting[j].ops, Waiting[j].id)
  <2>1. ASSUME NEW h \in 0..l
        PROVE  /\ x \in Seq(Frame) /\ Len(x) = l
               /\ SubSeq(x, 1, h) \in Seq(Frame) /\ Len(SubSeq(x, 1, h)) = h
               /\ \A j \in 1..h : SubSeq(x, 1, h)[j] = FrameOf(Waiting[j].ops, Waiting[j].id)
    <3>1. h \in 0..Len(Waiting) /\ Waiting \in Seq(Calls)
      BY <1>4
    <3> QED
      BY <1>4, <1>6, <1>7, <3>1, WrittenIs
  <2>2. 0 \in 0..l
    OBVIOUS
  <2> QED
    BY <2>1, <2>2
<1>9. PICK f : f = Frames(b)
  OBVIOUS
<1>10. DOMAIN f = 1..m /\ \A j \in 1..m : f[j] = FrameOf(Waiting[j].ops, Waiting[j].id)
  BY <1>3, <1>4, <1>5, <1>9 DEF Frames
<1>11. m \in 0..l
  BY <1>3
<1>12. f \in Seq(Frame) /\ Len(f) = m
  <2>1. \A j \in 1..m : f[j] \in Frame
    <3> SUFFICES ASSUME NEW j \in 1..m
                 PROVE  f[j] \in Frame
      OBVIOUS
    <3>1. j \in 1..l
      BY <1>3
    <3>2. Waiting[j] \in Calls
      BY <1>4, <3>1
    <3> QED
      BY <1>10, <3>2, FrameOfIs DEF Calls
  <2>2. f = [j \in 1..m |-> f[j]]
    BY <1>3, <1>9, <1>10 DEF Frames
  <2>3. f \in [1..m -> Frame]
    BY <2>1, <2>2
  <2> QED
    BY <2>3
<1>13. ASSUME NEW h \in 0..m
       PROVE  SubSeq(f, 1, h) = SubSeq(x, 1, h)
  <2>1. PICK s : s = SubSeq(f, 1, h)
    OBVIOUS
  <2>2. s \in Seq(Frame) /\ Len(s) = h /\ \A j \in 1..h : s[j] = f[j]
    BY <1>12, <2>1
  <2>3. h \in 0..l /\ \A j \in 1..h : j \in 1..m
    BY <1>11
  <2>4. PICK t : t = SubSeq(x, 1, h)
    OBVIOUS
  <2>5. t \in Seq(Frame) /\ Len(t) = h /\ \A j \in 1..h : t[j] = FrameOf(Waiting[j].ops, Waiting[j].id)
    BY <1>8, <2>3, <2>4
  <2>6. \A j \in 1..h : s[j] = t[j]
    BY <1>10, <2>2, <2>3, <2>5
  <2> QED
    BY <2>1, <2>2, <2>4, <2>5, <2>6, SeqEqual
<1>14. f = SubSeq(x, 1, m)
  <2>1. SubSeq(f, 1, Len(f)) = f
    BY <1>12, SubSeqFull
  <2>2. m \in 0..m
    BY <1>3
  <2> QED
    BY <1>12, <1>13, <2>1, <2>2
<1>15. \A h \in 0..m : SubSeq(f, 1, h) \in Seq(Frame) /\ Len(SubSeq(f, 1, h)) = h
  <2>1. \A h \in 0..m : h \in 0..l
    BY <1>11
  <2> QED
    BY <1>8, <1>13, <2>1
<1>16. Len(wal.batch) \in 0..Len(Waiting)
  BY <1>2, <1>3, <1>4, <1>11
<1>17. /\ Frames(wal.batch) = SubSeq(Written(Waiting), 1, Len(wal.batch))
       /\ Frames(wal.batch) \in Seq(Frame) /\ Len(Frames(wal.batch)) = Len(wal.batch)
  BY <1>2, <1>3, <1>7, <1>9, <1>12, <1>14
<1>18. \A h \in 0..Len(wal.batch) :
         /\ SubSeq(Frames(wal.batch), 1, h) = SubSeq(Written(Waiting), 1, h)
         /\ SubSeq(Frames(wal.batch), 1, h) \in Seq(Frame)
         /\ Len(SubSeq(Frames(wal.batch), 1, h)) = h
  BY <1>2, <1>3, <1>7, <1>9, <1>13, <1>15
<1>19. \A j \in 1..Len(wal.batch) : wal.batch[j] = Pend[j] /\ Waiting[j] = call[wal.batch[j]]
  <2>1. \A j \in 1..m : j \in 1..l
    BY <1>3
  <2> QED
    BY <1>2, <1>3, <1>4, <1>5, <2>1
<1> QED
  BY <1>16, <1>17, <1>18, <1>19

-----------------------------------------------------------------------------
(* The inductive invariant *)

\* The new log is in its place and the pointers still name the old one.
Ahead == cpc \in {"swap", "open"} \/ (cpc = "rollback" /\ cmp.rotated)
\* A compaction has passed its fence.
Loaded == cpc \notin {"idle", "fence"}
Old == walFile[reader.wal]

ControlSound ==
  /\ lock <=> Rotating \/ cpc = "rollback"
  /\ \A w \in Writers : wpc[w] \in {"parked", "retry"} => lock
  /\ cpc \in {"idle", "fence", "snapshot", "precopy"} /\ ~unopened => ~wal.closed /\ ~wal.sealed
  /\ unopened => cpc = "idle" /\ wal.closed
  /\ cpc \in {"drain", "close"} => wal.sealed
  /\ cpc \in {"renameSnapshot", "renameWal", "swap", "rollback"} => wal.closed
  /\ cpc = "open" => ~wal.open /\ ~wal.closed /\ ~wal.sealed
  /\ cpc \in {"swap", "open"} => cmp.rotated
  /\ cpc \notin {"swap", "open", "rollback"} => ~cmp.rotated

\* What is written goes to the log that db.wal has open.
WalSound ==
  /\ ~Drained => wal.open
  /\ ~Ahead /\ ~unopened => wal.open /\ wal.size = Len(Current)
  /\ Ahead \/ unopened \/ cpc \in {"close", "renameSnapshot", "renameWal"} => Drained

\* Which compaction wrote the files that are named, and which the reader has open.
FileSound ==
  /\ \A m \in Numbers : m > compactions => snapFile[m] = <<>> /\ walFile[m] = <<>>
  /\ snapAt <= compactions /\ walAt <= compactions
  /\ reader.snap <= compactions /\ reader.wal <= compactions
  /\ cpc # "idle" => /\ cmp.n = compactions
                     /\ reader.wal < cmp.n /\ reader.snap < cmp.n
                     /\ ~Ahead => walAt < cmp.n
  /\ cpc \in {"fence", "snapshot", "precopy", "drain", "close", "renameSnapshot"} => snapAt < cmp.n
  /\ cpc = "renameWal" \/ Ahead => snapAt = cmp.n
  /\ Ahead => walAt = cmp.n
  /\ ~Ahead /\ ~unopened => reader.wal = walAt
  /\ cpc = "fence" => snapFile[cmp.n] = <<>> /\ walFile[cmp.n] = <<>>

\* The new log is the part of the old one from the fence to where the copy has come.
CopySound ==
  Loaded => /\ cmp.base <= cmp.copied /\ cmp.copied <= Len(Old)
            /\ walFile[cmp.n] = SubSeq(Old, cmp.base + 1, cmp.copied)
            /\ cpc \in {"close", "renameSnapshot", "renameWal"} \/ Ahead => cmp.copied = Len(Old)

ValueSound ==
  \A k \in Keys :
    KeyValue(issued, Waiting, k, acked[k], Val(store[k]), Replayed(snapFile[snapAt], Current, k), rejected)
SnapSound ==
  Loaded => \A k \in Keys :
    KeySnap(issued, Waiting, k, acked[k], Val(store[k]), After(Old, cmp.base), snapFile[cmp.n],
            cpc = "snapshot", k \in cmp.todo, rejected)

\* The value of a record on disk is where its location says, and will be where the remap
\* says that it is.
KeyLoc(r, k, log, snap) ==
  r # None /\ r.loc # None => Reads(IF r.loc.file = "wal" THEN log ELSE snap, r.loc.off, k, r.val)
KeyMap(r, k, base, loc, snap, ahead) ==
  r # None /\ r.loc # None /\ ~(r.loc.file = "wal" /\ r.loc.off >= base) /\ ~ahead =>
    loc # None /\ loc.file = "snapshot" /\ Reads(snap, loc.off, k, r.val)
LocSound ==
  /\ \A k \in Keys : KeyLoc(store[k], k, Old, snapFile[reader.snap])
  /\ Loaded => \A k \in Keys :
       KeyMap(store[k], k, cmp.base, cmp.locs[k], snapFile[cmp.n], cpc = "snapshot" /\ k \in cmp.todo)
MemorySound ==
  ~disk =>
    /\ \A k \in Keys : store[k] # None => store[k].loc = None
    /\ \A j \in DOMAIN Waiting : \A k \in DOMAIN Waiting[j].ops :
         Waiting[j].prev[k] # None => Waiting[j].prev[k].loc = None

\* A record that says which commit made it holds what that commit set.
BySound ==
  \A k \in Keys : store[k] # None /\ store[k].by # 0 =>
    /\ store[k].by \in 1..Len(issued) /\ k \in DOMAIN issued[store[k].by]
    /\ issued[store[k].by][k] = "set" /\ store[k].val = store[k].by

KeysSound == ValueSound /\ SnapSound /\ LocSound /\ MemorySound /\ BySound
Inv == Typed /\ QueueSound /\ ControlSound /\ WalSound /\ FileSound /\ CopySound /\ KeysSound

\* What the runs and the theorems leave out.
Orderly == ~DiskFailures /\ ~Overlapped /\ ~EarlyAppend /\ ~CompactUnopened

\* A new database.
LEMMA InitInv ==
  ASSUME Init
  PROVE  Inv
<1>1. Typed
  BY InitTyped
<1>2. /\ wal = NewWal(TRUE, 0) /\ wal.batch = <<>> /\ wal.queue = <<>> /\ wal.size = 0 /\ wal.next = 0
      /\ wal.open /\ ~wal.closed /\ ~wal.sealed
  <2>1. 0 \in Nat /\ TRUE \in BOOLEAN
    OBVIOUS
  <2>2. wal = NewWal(TRUE, 0)
    BY DEF Init
  <2> QED
    BY <2>1, <2>2, NewWalTyped
<1>3. Drained /\ Waiting = <<>> /\ Len(Pend) = 0 /\ DOMAIN Pend = {} /\ DOMAIN Waiting = {}
  <2>1. Drained
    BY <1>2 DEF Drained
  <2> QED
    BY <1>1, <2>1, PendTyped
<1>4. QueueSound
  <2>1. Queued(issued, Waiting)
    <3>1. DOMAIN Waiting = {}
      BY <1>3
    <3> QED
      BY <3>1 DEF Queued
  <2>2. wal.next = wal.size + Len(Pend)
    <3>1. wal.next = 0 /\ wal.size = 0
      BY <1>2
    <3>2. Len(Pend) = 0
      BY <1>3
    <3> QED
      BY <3>1, <3>2
  <2> QED
    BY <1>3, <2>1, <2>2 DEF QueueSound
<1>5. cpc = "idle" /\ ~unopened /\ compactions = 0 /\ lock = FALSE /\ ~cmp.rotated
  BY DEF Init, NoCompaction
<1>6. ControlSound
  <2>1. \A w \in Writers : wpc[w] = "idle"
    BY DEF Init
  <2> QED
    BY <1>2, <1>5, <2>1 DEF ControlSound, Rotating
<1>7. /\ \A m \in Numbers : snapFile[m] = <<>> /\ walFile[m] = <<>>
      /\ snapAt = 0 /\ walAt = 0 /\ reader.snap = 0 /\ reader.wal = 0 /\ 0 \in Numbers
  BY BoundAssumption DEF Init, Numbers
<1>8. WalSound
  BY <1>2, <1>3, <1>5, <1>7 DEF WalSound, Ahead, Current
<1>9. FileSound
  BY <1>5, <1>7 DEF FileSound, Ahead
<1>10. CopySound /\ ~Loaded
  BY <1>5 DEF CopySound, Loaded
<1>11. issued = <<>> /\ store = [k \in Keys |-> None] /\ acked = [k \in Keys |-> 0]
  BY DEF Init
<1>12. ValueSound
  <2> SUFFICES ASSUME NEW k \in Keys
               PROVE  KeyValue(issued, Waiting, k, acked[k], Val(store[k]),
                               Replayed(snapFile[snapAt], Current, k), rejected)
    BY DEF ValueSound
  <2>1. acked[k] = 0 /\ Val(store[k]) = 0
    BY <1>11 DEF Val
  <2>2. Replayed(snapFile[snapAt], Current, k) = 0
    BY <1>7, EmptyTouches DEF Replayed, Current
  <2>3. Len(issued) = 0 /\ 0 \in 0..Len(issued) /\ 0 <= 0
    BY <1>11
  <2>4. Hits(issued, 0, k) /\ Recent(issued, 0, <<>>, 0, k, 0)
    BY <2>3 DEF Hits, Recent, EffectOf
  <2>5. KeyValue(issued, <<>>, k, 0, 0, 0, rejected)
    BY <2>3, <2>4, RestartKeepsValue
  <2> QED
    BY <1>3, <2>1, <2>2, <2>5
<1>13. SnapSound /\ LocSound /\ MemorySound /\ BySound
  <2>1. \A k \in Keys : store[k] = None
    BY <1>11
  <2>2. DOMAIN Waiting = {}
    BY <1>3
  <2> QED
    BY <1>10, <2>1, <2>2 DEF SnapSound, LocSound, MemorySound, BySound, KeyLoc
<1> QED
  BY <1>1, <1>4, <1>6, <1>8, <1>9, <1>10, <1>12, <1>13 DEF Inv, KeysSound

\* Keys are left alone by a step that changes no value, no file that is read and no
\* acknowledgement.
LEMMA KeysStay ==
  ASSUME KeysSound, Waiting' = Waiting,
         UNCHANGED <<disk, store, issued, acked, rejected, reader, snapFile, snapAt>>,
         Old' = Old, Current' = Current,
         Loaded' => /\ Loaded /\ UNCHANGED <<cmp.base, cmp.n, cmp.todo, cmp.locs>>
                    /\ cpc' = "snapshot" <=> cpc = "snapshot"
  PROVE  KeysSound'
<1>1. ValueSound'
  BY DEF KeysSound, ValueSound
<1>2. SnapSound'
  <2> SUFFICES ASSUME Loaded', NEW k \in Keys
               PROVE  KeySnap(issued, Waiting, k, acked[k], Val(store[k]), After(Old, cmp.base), snapFile[cmp.n],
                              cpc = "snapshot", k \in cmp.todo, rejected)'
    BY DEF SnapSound
  <2>1. KeySnap(issued, Waiting, k, acked[k], Val(store[k]), After(Old, cmp.base), snapFile[cmp.n],
                cpc = "snapshot", k \in cmp.todo, rejected)
    BY DEF KeysSound, SnapSound
  <2> QED
    BY <2>1 DEF KeySnap
<1>3. LocSound'
  BY DEF KeysSound, LocSound, KeyMap, KeyLoc
<1>4. MemorySound' /\ BySound'
  BY DEF KeysSound, MemorySound, BySound
<1> QED
  BY <1>1, <1>2, <1>3, <1>4 DEF KeysSound

-----------------------------------------------------------------------------
(* Steps preserve the types *)

\* The log after a batch, a copy or a crash, and what a rollback writes, are files.
LEMMA CurrentTyped ==
  ASSUME Typed
  PROVE  /\ Current \in Seq(Frame) /\ Old \in Seq(Frame) /\ snapFile[snapAt] \in Seq(Frame)
         /\ \A k \in Keys : store[k] # None => store[k] \in Records
         /\ \A s : s \in Seq(Frame) => [walFile EXCEPT ![walAt] = s] \in [Numbers -> Seq(Frame)]
BY DEF Typed, FilesTyped, DataTyped, Stores, Current, Old

\* The end of a compaction.
LEMMA UnlockTyped ==
  ASSUME Typed, Unlock
  PROVE  cmp' \in Cmps /\ wpc' \in [Writers -> Wpcs] /\ lock' = FALSE /\ cpc' = "idle" /\ ~cmp'.rotated
<1>1. cmp' = NoCompaction /\ lock' = FALSE /\ cpc' = "idle"
  BY DEF Unlock, Goto
<1>2. wpc' \in [Writers -> Wpcs]
  <2>1. wpc \in [Writers -> Wpcs]
    BY DEF Typed, FlowTyped
  <2>2. wpc' = [w \in Writers |-> CASE wpc[w] = "parked" -> "ready"
                                    [] wpc[w] = "retry" -> "again"
                                    [] OTHER -> wpc[w]]
    BY DEF Unlock
  <2> QED
    BY <2>1, <2>2 DEF Wpcs
<1> QED
  BY <1>1, <1>2, NoCompactionTyped DEF NoCompaction

\* Writers whose frames are written or rejected are idle again.
LEMMA DoneTyped ==
  ASSUME Typed, NEW ws, Done(ws)
  PROVE  wpc' \in [Writers -> Wpcs] /\ call' \in [Writers -> Calls]
<1>1. wpc \in [Writers -> Wpcs] /\ call \in [Writers -> Calls]
  BY DEF Typed, FlowTyped, DataTyped
<1>2. wpc' \in [Writers -> Wpcs]
  BY <1>1 DEF Done, Wpcs
<1>3. call' \in [Writers -> Calls]
  BY <1>1, Torns DEF Done
<1> QED
  BY <1>2, <1>3

\* A rollback leaves a key alone or gives it what it was before one of the writes.
LEMMA RestoredIs ==
  ASSUME Typed, QueueSound, NEW k \in Keys, NEW restore \in SUBSET DOMAIN wal.batch,
         Restoring(wal.batch, k, restore)
  PROVE  \/ Restored(wal.batch, k, restore) = store[k]
         \/ \E j \in 1..Len(wal.batch) :
              /\ j \in DOMAIN Waiting /\ k \in DOMAIN Waiting[j].ops
              /\ Waiting[j].prev[k] \in Records \cup {None}
              /\ Restored(wal.batch, k, restore) =
                   IF Waiting[j].prev[k] = None THEN None ELSE [Waiting[j].prev[k] EXCEPT !.by = 0]
<1>1. PICK m \in Nat : m = Len(wal.batch)
  <2>1. Len(wal.batch) \in Nat
    BY PendTyped
  <2> QED
    BY <2>1
<1>2. DOMAIN wal.batch = 1..m
  BY <1>1 DEF Typed, FlowTyped, Wals
<1>3. CASE restore = {}
  BY <1>3 DEF Restored
<1>4. ASSUME restore # {}
      PROVE  \E j \in 1..m :
              /\ j \in DOMAIN Waiting /\ k \in DOMAIN Waiting[j].ops
              /\ Waiting[j].prev[k] \in Records \cup {None}
              /\ Restored(wal.batch, k, restore) =
                   IF Waiting[j].prev[k] = None THEN None ELSE [Waiting[j].prev[k] EXCEPT !.by = 0]
  <2>1. PICK j : j = CHOOSE i \in restore : \A h \in restore : h <= i
    OBVIOUS
  <2>2. j \in restore
    <3>1. restore \subseteq 0..m
      BY <1>2
    <3>2. \E i \in restore : \A h \in restore : h <= i
      BY <1>4, <3>1, GreatestNatural
    <3> QED
      BY <2>1, <3>2
  <2>3. j \in 1..m /\ Restored(wal.batch, k, restore) = Before(call[wal.batch[j]], k)
    BY <1>2, <1>4, <2>1, <2>2 DEF Restored
  <2>4. k \in DOMAIN call[wal.batch[j]].ops
    BY <1>2, <2>2, <2>3 DEF Restoring, Matches
  <2>5. Waiting[j] = call[wal.batch[j]] /\ j \in DOMAIN Waiting
    <3>1. Len(wal.batch) \in 0..Len(Waiting) /\ DOMAIN Waiting = 1..Len(Waiting) /\ Len(Waiting) \in Nat
      BY BatchFrames, PendTyped
    <3>2. j \in DOMAIN Waiting
      BY <1>1, <2>3, <3>1
    <3> QED
      BY <1>1, <2>3, <3>2, BatchFrames
  <2>6. Waiting[j] \in Calls
    BY <2>5, PendTyped
  <2>7. DOMAIN Waiting[j].prev = DOMAIN Waiting[j].ops
    BY <2>5 DEF QueueSound, Queued
  <2>8. Waiting[j].prev[k] \in Records \cup {None}
    <3>1. Waiting[j].prev \in Prevs /\ k \in DOMAIN Waiting[j].prev
      BY <2>4, <2>5, <2>6, <2>7 DEF Calls
    <3>2. PICK D \in SUBSET Keys : Waiting[j].prev \in [D -> Records \cup {None}]
      BY <3>1 DEF Prevs
    <3> QED
      BY <3>1, <3>2
  <2> QED
    BY <2>3, <2>4, <2>5, <2>8 DEF Before
<1> QED
  BY <1>1, <1>3, <1>4

\* The value of a key in a file is a number.
LEMMA LastValTyped ==
  ASSUME NEW file \in Seq(Frame), NEW k
  PROVE  LastVal(file, k) \in Nat
<1>1. LastFrame(file, k) = 0 \/ (LastFrame(file, k) \in DOMAIN file /\ k \in DOMAIN file[LastFrame(file, k)])
  BY LastFrameIs
<1>2. \A i \in DOMAIN file : file[i] \in Frame
  OBVIOUS
<1>3. \A f \in Frame : k \in DOMAIN f => f[k] \in Nat
  BY DEF Frame
<1> QED
  BY <1>1, <1>2, <1>3 DEF LastVal

\* The record a restart makes of a key.
LEMMA RecoveredTyped ==
  ASSUME disk \in BOOLEAN, NEW snap \in Seq(Frame), NEW log \in Seq(Frame), NEW k
  PROVE  /\ RecoveredRecord(snap, log, k) \in Records \cup {None}
         /\ Val(RecoveredRecord(snap, log, k)) = Replayed(snap, log, k)
         /\ KeyLoc(RecoveredRecord(snap, log, k), k, log, snap)
         /\ RecoveredRecord(snap, log, k) # None =>
              /\ RecoveredRecord(snap, log, k).by = 0
              /\ ~disk => RecoveredRecord(snap, log, k).loc = None
<1>1. PICK r : r = Recovered(snap, log, k)
  OBVIOUS
<1>2. /\ r.val = Replayed(snap, log, k) /\ r.file \in {"wal", "snapshot"} /\ r.off \in Nat
      /\ r.val # 0 => Reads(IF r.file = "wal" THEN log ELSE snap, r.off, k, r.val)
  BY <1>1, RecoveredIs
<1>3. r.val \in Nat
  BY <1>2, LastValTyped DEF Replayed
<1>4. PICK loc : loc = IF disk THEN [file |-> r.file, off |-> r.off] ELSE None
  OBVIOUS
<1>5. /\ loc \in Locations \cup {None}
      /\ ~disk => loc = None
      /\ loc # None => loc.file = r.file /\ loc.off = r.off
  BY <1>2, <1>4 DEF Locations
<1>6. RecoveredRecord(snap, log, k) = IF r.val = 0 THEN None ELSE [val |-> r.val, by |-> 0, loc |-> loc]
  BY <1>1, <1>4 DEF RecoveredRecord
<1>7. [val |-> r.val, by |-> 0, loc |-> loc] \in Records
  <2>1. \A v \in Nat : \A l \in Locations \cup {None} : [val |-> v, by |-> 0, loc |-> l] \in Records
    BY DEF Records
  <2> QED
    BY <1>3, <1>5, <2>1
<1>8. [val |-> r.val, by |-> 0, loc |-> loc] # None
  BY <1>7, NoneAssumption
<1>9. CASE r.val = 0
  BY <1>2, <1>6, <1>9 DEF Val, KeyLoc
<1>10. CASE r.val # 0
  <2>1. PICK e \in Records : /\ e = RecoveredRecord(snap, log, k) /\ e # None
                             /\ e.val = r.val /\ e.by = 0 /\ e.loc = loc
    BY <1>6, <1>7, <1>8, <1>10
  <2>2. KeyLoc(e, k, log, snap)
    BY <1>2, <1>5, <1>10, <2>1 DEF KeyLoc
  <2>3. Val(e) = Replayed(snap, log, k)
    BY <1>2, <2>1 DEF Val
  <2>4. ~disk => e.loc = None
    BY <1>5, <2>1
  <2> QED
    BY <2>1, <2>2, <2>3, <2>4
<1> QED
  BY <1>9, <1>10

\* The locations after the remap name frames of the new files.
LEMMA RemappedIs ==
  ASSUME Typed, Remapped, NEW new, new = After(Old, cmp.base), cmp.base <= Len(Old),
         \A k \in Keys : KeyLoc(store[k], k, Old, snapFile[reader.snap]),
         \A k \in Keys : KeyMap(store[k], k, cmp.base, cmp.locs[k], snapFile[cmp.n], FALSE)
  PROVE  /\ store' \in Stores /\ reader' = [snap |-> snapAt, wal |-> walAt]
         /\ \A k \in Keys :
              /\ store'[k] = None <=> store[k] = None
              /\ store[k] # None => /\ store'[k].val = store[k].val /\ store'[k].by = store[k].by
                                    /\ store'[k].loc = None <=> store[k].loc = None
              /\ KeyLoc(store'[k], k, new, snapFile[cmp.n])
<1>1. reader' = [snap |-> snapAt, wal |-> walAt]
  BY DEF Remapped
<1>2. store' = [k \in Keys |-> IF store[k] = None THEN None
                  ELSE IF store[k].loc = None THEN store[k]
                  ELSE [store[k] EXCEPT !.loc = Remap(k)]]
  BY DEF Remapped
<1>3. cmp.base \in Nat /\ Old \in Seq(Frame) /\ cmp.locs \in [Keys -> Locations \cup {None}]
  BY CurrentTyped DEF Typed, FlowTyped, Cmps
<1>4. ASSUME NEW k \in Keys
      PROVE  /\ store'[k] \in Records \cup {None}
             /\ store'[k] = None <=> store[k] = None
             /\ store[k] # None => /\ store'[k].val = store[k].val /\ store'[k].by = store[k].by
                                   /\ store'[k].loc = None <=> store[k].loc = None
             /\ KeyLoc(store'[k], k, new, snapFile[cmp.n])
  <2>1. CASE store[k] = None
    BY <1>2, <2>1 DEF KeyLoc
  <2>2. CASE store[k] # None /\ store[k].loc = None
    <3>1. store[k] \in Records
      BY <2>2, CurrentTyped
    <3> QED
      BY <1>2, <2>2, <3>1 DEF KeyLoc
  <2>3. CASE store[k] # None /\ store[k].loc # None
    <3>1. PICK r \in Records, l \in Locations : r = store[k] /\ l = r.loc
      BY <2>3, CurrentTyped DEF Records
    <3>2. PICK x : x = Remap(k)
      OBVIOUS
    <3>3. x \in Locations /\ Reads(IF x.file = "wal" THEN new ELSE snapFile[cmp.n], x.off, k, r.val)
      <4>1. CASE l.file = "wal" /\ l.off >= cmp.base
        <5>1. x = [l EXCEPT !.off = l.off - cmp.base]
          BY <3>1, <3>2, <4>1 DEF Remap
        <5>2. l.off \in Nat /\ Reads(Old, l.off, k, r.val)
          BY <2>3, <3>1, <4>1 DEF KeyLoc, Locations
        <5>3. Reads(new, l.off - cmp.base, k, r.val) /\ l.off - cmp.base \in Nat
          BY <1>3, <4>1, <5>2, AfterReads
        <5>4. x \in Locations /\ x.file = "wal" /\ x.off = l.off - cmp.base
          BY <4>1, <5>1, <5>3 DEF Locations
        <5> QED
          BY <5>3, <5>4
      <4>2. CASE ~(l.file = "wal" /\ l.off >= cmp.base)
        <5>1. /\ cmp.locs[k] # None /\ cmp.locs[k].file = "snapshot"
              /\ Reads(snapFile[cmp.n], cmp.locs[k].off, k, r.val)
          BY <2>3, <3>1, <4>2 DEF KeyMap
        <5>2. x = cmp.locs[k]
          BY <3>1, <3>2, <4>2, <5>1 DEF Remap
        <5>3. cmp.locs[k] \in Locations
          BY <1>3, <5>1
        <5> QED
          BY <5>1, <5>2, <5>3
      <4> QED
        BY <4>1, <4>2
    <3>4. store'[k] = [r EXCEPT !.loc = x]
      BY <1>2, <2>3, <3>1, <3>2
    <3>5. /\ [r EXCEPT !.loc = x] \in Records /\ [r EXCEPT !.loc = x].loc = x
          /\ [r EXCEPT !.loc = x].val = r.val /\ [r EXCEPT !.loc = x].by = r.by
      BY <3>3 DEF Records
    <3>6. [r EXCEPT !.loc = x] # None /\ x # None
      BY <3>3, <3>5, NoneAssumption
    <3>7. PICK e \in Records : e = store'[k] /\ e # None /\ e.loc = x /\ e.val = r.val /\ e.by = r.by
      BY <3>4, <3>5, <3>6
    <3>8. KeyLoc(e, k, new, snapFile[cmp.n])
      BY <3>3, <3>7 DEF KeyLoc
    <3> QED
      BY <2>3, <3>1, <3>6, <3>7, <3>8
  <2> QED
    BY <2>1, <2>2, <2>3
<1>5. store' \in Stores
  <2>1. \A k \in Keys : store'[k] \in Records \cup {None}
    BY <1>4
  <2>2. store' = [k \in Keys |-> store'[k]]
    BY <1>2
  <2> QED
    BY <2>1, <2>2 DEF Stores
<1> QED
  BY <1>1, <1>4, <1>5

\* Writers.
LEMMA CallTyped ==
  ASSUME Typed, NEW w \in Writers, Call(w)
  PROVE  Typed'
<1>1. wpc' \in [Writers -> Wpcs]
  BY DEF Typed, FlowTyped, Call, Wpcs
<1> QED
  BY <1>1 DEF Typed, FilesTyped, DataTyped, FlowTyped, Call, fileVars, boundVars

\* A commit.
LEMMA CommitTyped ==
  ASSUME Typed, NEW w \in Writers, NEW ops \in OpsSet, Commit(w, ops)
  PROVE  Typed' /\ store' = Applied(ops, Len(issued) + 1)
<1>1. PICK i \in Nat : i = Len(issued) + 1
  <2>1. Len(issued) \in Nat
    BY DEF Typed, DataTyped
  <2> QED
    BY <2>1
<1>2. StoreBecomes(Applied(ops, i)) /\ Applied(ops, i) \in Stores
  BY <1>1, AppliedTyped DEF Commit
<1>3. store' \in Stores /\ store' = Applied(ops, i) /\ cmp' \in Cmps
  BY <1>2, StoreBecomesTyped
<1>4. wal' \in Wals
  <2>1. wal \in Wals /\ wal' = [wal EXCEPT !.queue = Append(wal.queue, w), !.next = wal.next + 1]
    BY DEF Commit, Typed, FlowTyped
  <2>2. Append(wal.queue, w) \in Seq(Writers) /\ wal.next + 1 \in Nat
    BY <2>1 DEF Wals
  <2> QED
    BY <2>1, <2>2 DEF Wals
<1>5. call' \in [Writers -> Calls]
  <2>1. PICK prev : prev = [k \in DOMAIN ops |-> store[k]]
    OBVIOUS
  <2>2. DOMAIN ops \in SUBSET Keys
    BY OpsDomain
  <2>3. prev \in [DOMAIN ops -> Records \cup {None}]
    BY <2>1, <2>2 DEF Typed, DataTyped, Stores
  <2>4. prev \in Prevs
    BY <2>2, <2>3 DEF Prevs
  <2>5. wal.next \in Nat /\ call \in [Writers -> Calls]
    BY DEF Typed, FlowTyped, DataTyped, Wals
  <2>6. PICK c : c = [ops |-> ops, id |-> i, off |-> wal.next, prev |-> prev]
    OBVIOUS
  <2>7. c \in Calls
    BY <2>4, <2>5, <2>6 DEF Calls
  <2>8. call' = [call EXCEPT ![w] = c]
    BY <1>1, <2>1, <2>6 DEF Commit
  <2> QED
    BY <2>5, <2>7, <2>8
<1>6. wpc' \in [Writers -> Wpcs]
  BY DEF Typed, FlowTyped, Commit, Wpcs
<1>7. issued' \in Seq(OpsSet)
  BY DEF Typed, DataTyped, Commit
<1>8. FilesTyped'
  BY DEF Typed, FilesTyped, Commit, fileVars
<1>9. DataTyped'
  BY <1>3, <1>5, <1>7 DEF Typed, DataTyped, Commit, boundVars
<1>10. FlowTyped'
  BY <1>3, <1>4, <1>6 DEF Typed, FlowTyped, Commit, boundVars
<1> QED
  BY <1>1, <1>3, <1>8, <1>9, <1>10 DEF Typed

\* A commit that a sealed or closed log rejects.
LEMMA RejectedTyped ==
  ASSUME Typed, NEW w \in Writers, NEW ops \in OpsSet, CommitRejected(w, ops)
  PROVE  Typed' /\ store' = Touched(ops)
<1>1. StoreBecomes(Touched(ops)) /\ Touched(ops) \in Stores
  BY TouchedTyped DEF CommitRejected
<1>2. store' \in Stores /\ store' = Touched(ops) /\ cmp' \in Cmps
  BY <1>1, StoreBecomesTyped
<1>3. wpc' \in [Writers -> Wpcs]
  BY DEF Typed, FlowTyped, CommitRejected, Wpcs
<1>4. call' \in [Writers -> Calls]
  <2>1. call \in [Writers -> Calls]
    BY DEF Typed, DataTyped
  <2>2. CASE Retries(w)
    <3>1. call' = [call EXCEPT ![w] = [call[w] EXCEPT !.ops = ops]]
      BY <2>2 DEF CommitRejected
    <3>2. [call[w] EXCEPT !.ops = ops] \in Calls
      BY <2>1 DEF Calls
    <3> QED
      BY <2>1, <3>1, <3>2
  <2>3. CASE ~Retries(w)
    BY <2>1, <2>3, Torns DEF CommitRejected
  <2> QED
    BY <2>2, <2>3
<1>5. FilesTyped'
  BY DEF Typed, FilesTyped, CommitRejected, fileVars
<1>6. DataTyped'
  BY <1>2, <1>4 DEF Typed, DataTyped, CommitRejected, boundVars
<1>7. FlowTyped'
  BY <1>2, <1>3 DEF Typed, FlowTyped, CommitRejected, boundVars
<1> QED
  BY <1>2, <1>5, <1>6, <1>7 DEF Typed

-----------------------------------------------------------------------------
(* The log *)

\* What is queued becomes the batch that is written.
LEMMA FlushBatchTyped ==
  ASSUME Typed, FlushBatch
  PROVE  Typed'
<1>1. wal' \in Wals
  <2>1. wal \in Wals /\ wal' = [wal EXCEPT !.batch = wal.queue, !.queue = <<>>]
    BY DEF FlushBatch, Typed, FlowTyped
  <2>2. wal.queue \in Seq(Writers) /\ <<>> \in Seq(Writers)
    BY <2>1 DEF Wals
  <2> QED
    BY <2>1, <2>2 DEF Wals
<1> QED
  BY <1>1 DEF Typed, FilesTyped, DataTyped, FlowTyped, FlushBatch, fileVars, boundVars

\* What publishing makes of a record.
PublishedStore(ws) ==
  [k \in Keys |->
     IF \E w \in Elems(ws) : Published(w, k)
       THEN LET w == CHOOSE v \in Elems(ws) : Published(v, k)
            IN [val |-> store[k].val, by |-> 0, loc |-> [file |-> "wal", off |-> call[w].off]]
       ELSE store[k]]

\* publishWalRef() leaves a value alone and says where it is in the log.
LEMMA PublishedIs ==
  ASSUME Typed, QueueSound
  PROVE  /\ PublishedStore(wal.batch) \in Stores
         /\ \A k \in Keys :
              \/ PublishedStore(wal.batch)[k] = store[k]
              \/ \E j \in 1..Len(wal.batch) :
                   /\ Published(wal.batch[j], k) /\ PublishedStore(wal.batch)[k] # None
                   /\ PublishedStore(wal.batch)[k] =
                        [val |-> store[k].val, by |-> 0,
                         loc |-> [file |-> "wal", off |-> call[wal.batch[j]].off]]
<1>1. PICK b \in Seq(Writers) : b = wal.batch
  BY DEF Typed, FlowTyped, Wals
<1>2. PICK s : s = PublishedStore(b)
  OBVIOUS
<1>3. ASSUME NEW k \in Keys
      PROVE  /\ s[k] \in Records \cup {None}
             /\ \/ s[k] = store[k]
                \/ \E j \in 1..Len(b) :
                     /\ Published(b[j], k) /\ s[k] # None
                     /\ s[k] = [val |-> store[k].val, by |-> 0,
                                loc |-> [file |-> "wal", off |-> call[b[j]].off]]
  <2>1. CASE \E w \in Elems(b) : Published(w, k)
    <3>1. PICK w \in Elems(b) : /\ Published(w, k)
                                /\ s[k] = [val |-> store[k].val, by |-> 0,
                                           loc |-> [file |-> "wal", off |-> call[w].off]]
      BY <1>2, <2>1 DEF PublishedStore
    <3>2. PICK j \in 1..Len(b) : w = b[j]
      BY DEF Elems
    <3>3. call[w].off \in Nat /\ store[k].val \in Nat
      <4>1. w \in Writers /\ call[w] \in Calls
        BY <3>2 DEF Typed, DataTyped
      <4>2. store[k] \in Records
        BY <3>1, CurrentTyped DEF Published
      <4> QED
        BY <4>1, <4>2 DEF Calls, Records
    <3>4. s[k] \in Records
      <4>1. \A v \in Nat : \A o \in Nat :
              [val |-> v, by |-> 0, loc |-> [file |-> "wal", off |-> o]] \in Records
        BY DEF Records, Locations
      <4> QED
        BY <3>1, <3>3, <4>1
    <3> QED
      BY <3>1, <3>2, <3>4, NoneAssumption
  <2>2. CASE ~\E w \in Elems(b) : Published(w, k)
    <3>1. s[k] = store[k]
      BY <1>2, <2>2 DEF PublishedStore
    <3> QED
      BY <3>1 DEF Typed, DataTyped, Stores
  <2> QED
    BY <2>1, <2>2
<1>4. s \in Stores
  <2>1. \A k \in Keys : s[k] \in Records \cup {None}
    BY <1>3
  <2>2. s = [k \in Keys |-> s[k]]
    BY <1>2 DEF PublishedStore
  <2> QED
    BY <2>1, <2>2 DEF Stores
<1> QED
  BY <1>1, <1>2, <1>3, <1>4

\* A batch that lands.
LEMMA FlushLandsTyped ==
  ASSUME Typed, QueueSound, FlushLands
  PROVE  Typed' /\ store' = PublishedStore(wal.batch)
         /\ Current' = Current \o Frames(wal.batch)
<1>1. StoreBecomes(PublishedStore(wal.batch)) /\ PublishedStore(wal.batch) \in Stores
  BY PublishedIs, Zenon DEF FlushLands, PublishedStore
<1>2. store' \in Stores /\ store' = PublishedStore(wal.batch) /\ cmp' \in Cmps
  BY <1>1, StoreBecomesTyped
<1>3. wpc' \in [Writers -> Wpcs] /\ call' \in [Writers -> Calls]
  BY DoneTyped DEF FlushLands
<1>4. PICK f \in Seq(Frame) : f = Frames(wal.batch)
  BY BatchFrames
<1>5. Current \o f \in Seq(Frame)
  BY CurrentTyped
<1>6. walFile' = [walFile EXCEPT ![walAt] = Current \o f] /\ walAt' = walAt
  BY <1>4 DEF FlushLands, Current
<1>7. FilesTyped'
  BY <1>5, <1>6, CurrentTyped DEF Typed, FilesTyped, FlushLands
<1>8. DataTyped'
  BY <1>2, <1>3 DEF Typed, DataTyped, FlushLands, boundVars
<1>9. wal' \in Wals
  <2>1. wal \in Wals /\ wal' = [wal EXCEPT !.batch = <<>>, !.size = wal.size + Len(wal.batch)]
    BY DEF FlushLands, Typed, FlowTyped
  <2>2. wal.size + Len(wal.batch) \in Nat /\ <<>> \in Seq(Writers)
    BY <2>1 DEF Wals
  <2> QED
    BY <2>1, <2>2 DEF Wals
<1>10. FlowTyped'
  BY <1>2, <1>3, <1>9 DEF Typed, FlowTyped, FlushLands, boundVars
<1>11. Current' = Current \o f
  BY <1>6 DEF Current, Typed, FilesTyped
<1> QED
  BY <1>2, <1>4, <1>7, <1>8, <1>10, <1>11 DEF Typed

\* What a rejected batch leaves: some of its frames, perhaps part of another, and the
\* store that the rollback of each of its writes makes.
LEMMA FlushFailsTyped ==
  ASSUME Typed, QueueSound, NEW n \in 0..Len(wal.batch), NEW torn \in BOOLEAN, FlushFails(n, torn)
  PROVE  /\ Typed'
         /\ \E t \in Seq(Frame) :
              /\ \A k : ~Touches(t, k)
              /\ Current' = Current \o (SubSeq(Frames(wal.batch), 1, n) \o t)
              /\ wal' = [wal EXCEPT !.batch = <<>>,
                           !.size = wal.size + Len(SubSeq(Frames(wal.batch), 1, n) \o t)]
         /\ \A k \in Keys :
              \/ store'[k] = store[k]
              \/ \E j \in DOMAIN Waiting :
                   /\ k \in DOMAIN Waiting[j].ops /\ Waiting[j].prev[k] \in Records \cup {None}
                   /\ store'[k] = IF Waiting[j].prev[k] = None THEN None
                                  ELSE [Waiting[j].prev[k] EXCEPT !.by = 0]
         /\ StoreBecomes(store')
<1>1. PICK m \in Nat : m = Len(wal.batch)
  <2>1. Len(wal.batch) \in Nat
    BY PendTyped
  <2> QED
    BY <2>1
<1>2. n \in 0..m
  BY <1>1
<1>3. PICK f \in Seq(Frame) : f = SubSeq(Frames(wal.batch), 1, n)
  BY <1>1, <1>2, BatchFrames
<1>4. PICK t \in Seq(Frame) : t = (IF torn THEN <<Torn>> ELSE <<>>) /\ \A k : ~Touches(t, k)
  <2>1. <<Torn>> \in Seq(Frame) /\ <<>> \in Seq(Frame)
    BY Torns
  <2>2. \A k : ~Touches(<<Torn>>, k) /\ ~Touches(<<>>, k)
    BY <2>1, TornSkipped, EmptyTouches
  <2> QED
    BY <2>1, <2>2
<1>5. PICK g \in Seq(Frame) : g = f \o t
  <2>1. f \o t \in Seq(Frame)
    OBVIOUS
  <2> QED
    BY <2>1
<1>6. walFile' = [walFile EXCEPT ![walAt] = Current \o g] /\ walAt' = walAt
  BY <1>3, <1>4, <1>5 DEF FlushFails, Current
<1>7. wal' = [wal EXCEPT !.batch = <<>>, !.size = wal.size + Len(g)]
  BY <1>3, <1>4, <1>5 DEF FlushFails
<1>8. PICK restore \in [Keys -> SUBSET DOMAIN wal.batch] :
        /\ \A k \in Keys : Restoring(wal.batch, k, restore[k])
        /\ StoreBecomes([k \in Keys |-> Restored(wal.batch, k, restore[k])])
  BY DEF FlushFails
<1>9. PICK s : s = [k \in Keys |-> Restored(wal.batch, k, restore[k])]
  OBVIOUS
<1>10. \A k \in Keys :
         \/ s[k] = store[k]
         \/ \E j \in DOMAIN Waiting :
              /\ k \in DOMAIN Waiting[j].ops /\ Waiting[j].prev[k] \in Records \cup {None}
              /\ s[k] = IF Waiting[j].prev[k] = None THEN None ELSE [Waiting[j].prev[k] EXCEPT !.by = 0]
  <2> SUFFICES ASSUME NEW k \in Keys
               PROVE  \/ s[k] = store[k]
                      \/ \E j \in DOMAIN Waiting :
                           /\ k \in DOMAIN Waiting[j].ops /\ Waiting[j].prev[k] \in Records \cup {None}
                           /\ s[k] = IF Waiting[j].prev[k] = None THEN None
                                     ELSE [Waiting[j].prev[k] EXCEPT !.by = 0]
    OBVIOUS
  <2>1. restore[k] \in SUBSET DOMAIN wal.batch /\ s[k] = Restored(wal.batch, k, restore[k])
    BY <1>9
  <2> QED
    BY <1>8, <2>1, RestoredIs
<1>11. s \in Stores
  <2>1. \A r \in Records : [r EXCEPT !.by = 0] \in Records
    BY DEF Records
  <2>2. \A k \in Keys : store[k] \in Records \cup {None}
    BY DEF Typed, DataTyped, Stores
  <2>3. \A k \in Keys : s[k] \in Records \cup {None}
    BY <1>10, <2>1, <2>2
  <2>4. s = [k \in Keys |-> s[k]]
    BY <1>9
  <2> QED
    BY <2>3, <2>4 DEF Stores
<1>12. store' = s /\ cmp' \in Cmps
  BY <1>8, <1>9, <1>11, StoreBecomesTyped
<1>13. wpc' \in [Writers -> Wpcs] /\ call' \in [Writers -> Calls]
  BY DoneTyped DEF FlushFails
<1>14. Current \o g \in Seq(Frame)
  <2>1. Current \in Seq(Frame)
    BY CurrentTyped
  <2> QED
    BY <2>1
<1>15. FilesTyped'
  <2>1. [walFile EXCEPT ![walAt] = Current \o g] \in [Numbers -> Seq(Frame)]
    BY <1>14, CurrentTyped
  <2>2. UNCHANGED <<snapFile, snapAt, walAt, reader>>
    BY DEF FlushFails
  <2>3. walFile' \in [Numbers -> Seq(Frame)]
    BY <1>6, <2>1
  <2> QED
    BY <2>2, <2>3 DEF Typed, FilesTyped
<1>16. DataTyped'
  BY <1>11, <1>12, <1>13 DEF Typed, DataTyped, FlushFails
<1>17. wal' \in Wals
  <2>1. wal \in Wals
    BY DEF Typed, FlowTyped
  <2>2. wal.size + Len(g) \in Nat /\ <<>> \in Seq(Writers)
    BY <2>1 DEF Wals
  <2> QED
    BY <1>7, <2>1, <2>2 DEF Wals
<1>18. FlowTyped'
  BY <1>12, <1>13, <1>17 DEF Typed, FlowTyped, FlushFails
<1>19. Current' = Current \o g
  BY <1>6 DEF Current, Typed, FilesTyped
<1>20. Typed'
  BY <1>15, <1>16, <1>18 DEF Typed
<1>21. StoreBecomes(store')
  BY <1>8, <1>9, <1>12
<1>22. \E u \in Seq(Frame) :
         /\ \A k : ~Touches(u, k)
         /\ Current' = Current \o (f \o u)
         /\ wal' = [wal EXCEPT !.batch = <<>>, !.size = wal.size + Len(f \o u)]
  BY <1>4, <1>5, <1>7, <1>19
<1> QED
  BY <1>3, <1>10, <1>12, <1>20, <1>21, <1>22

-----------------------------------------------------------------------------
(* The compaction *)

\* Steps that only move the compaction on, and those that also set the lock or the log.
LEMMA MovesTyped ==
  ASSUME Typed,
         \/ SnapshotDone \/ DrainDone \/ Rotate \/ CloseWal \/ SwapWal
  PROVE  /\ Typed'
         /\ UNCHANGED <<disk, store, fileVars, cmp, wpc, call, issued, acked, boundVars>>
         /\ (wal'.batch = wal.batch /\ wal'.queue = wal.queue) \/ SwapWal
<1>1. UNCHANGED <<disk, store, fileVars, cmp, wpc, call, issued, acked, boundVars>>
  BY DEF SnapshotDone, DrainDone, Rotate, CloseWal, SwapWal
<1>2. cpc' \in Cpcs /\ lock' \in BOOLEAN
  BY DEF SnapshotDone, DrainDone, Rotate, CloseWal, SwapWal, Goto, Cpcs, Typed, FlowTyped
<1>3. wal' \in Wals /\ ((wal'.batch = wal.batch /\ wal'.queue = wal.queue) \/ SwapWal)
  <2>1. wal \in Wals
    BY DEF Typed, FlowTyped
  <2>2. [wal EXCEPT !.sealed = TRUE] \in Wals /\ [wal EXCEPT !.closed = TRUE] \in Wals
    BY <2>1 DEF Wals
  <2>3. NewWal(FALSE, 0) \in Wals
    BY NewWalTyped
  <2>4. CASE SwapWal
    BY <2>3, <2>4 DEF SwapWal
  <2>5. CASE CloseWal
    BY <2>1, <2>2, <2>5 DEF CloseWal, Wals
  <2>6. CASE Rotate
    BY <2>1, <2>2, <2>6 DEF Rotate, Seal, Wals
  <2>7. CASE SnapshotDone \/ DrainDone
    BY <2>1, <2>7 DEF SnapshotDone, DrainDone
  <2> QED
    BY <2>4, <2>5, <2>6, <2>7
<1> QED
  BY <1>1, <1>2, <1>3 DEF Typed, FilesTyped, DataTyped, FlowTyped, fileVars, boundVars

\* A compaction begins.
LEMMA StartTyped ==
  ASSUME Typed, StartCompaction
  PROVE  Typed' /\ cmp'.n = compactions' /\ compactions' = compactions + 1 /\ ~cmp'.rotated
<1>1. compactions + 1 \in Numbers /\ NoCompaction \in Cmps
  BY BoundAssumption, NoCompactionTyped DEF StartCompaction, Typed, FlowTyped, Numbers
<1>2. PICK n \in Numbers : n = compactions + 1
  BY <1>1
<1>3. cmp' = [NoCompaction EXCEPT !.n = n] /\ cmp' \in Cmps /\ cmp'.n = n
  BY <1>1, <1>2 DEF StartCompaction, Cmps
<1>4. ~cmp'.rotated
  BY <1>1, <1>3 DEF NoCompaction, Cmps
<1> QED
  BY <1>1, <1>2, <1>3, <1>4
  DEF StartCompaction, Goto, Typed, FilesTyped, DataTyped, FlowTyped, Cpcs, fileVars

\* The fence of a compaction.
LEMMA FenceTyped ==
  ASSUME Typed, Fence
  PROVE  /\ Typed' /\ cmp'.base = wal.size /\ cmp'.copied = wal.size /\ cmp'.todo = Keys
         /\ cmp'.n = cmp.n /\ cmp'.rotated = cmp.rotated /\ cmp'.locs = cmp.locs
<1>1. cmp \in Cmps /\ wal.size \in Nat
  BY DEF Typed, FlowTyped, Wals
<1>2. cmp' = [cmp EXCEPT !.base = wal.size, !.copied = wal.size, !.todo = Keys]
  BY DEF Fence
<1>3. /\ cmp' \in Cmps /\ cmp'.base = wal.size /\ cmp'.copied = wal.size /\ cmp'.todo = Keys
      /\ cmp'.n = cmp.n /\ cmp'.rotated = cmp.rotated /\ cmp'.locs = cmp.locs
  BY <1>1, <1>2 DEF Cmps
<1> QED
  BY <1>3 DEF Fence, Goto, Typed, FilesTyped, DataTyped, FlowTyped, Cpcs, fileVars, boundVars

\* A pass of the copy, and the last one of the rotation.
LEMMA CopyTyped ==
  ASSUME Typed, wal.size <= Len(Current), cmp.copied <= Len(Current), PreCopy \/ DrainCopy
  PROVE  /\ Typed' /\ cmp'.copied = wal.size
         /\ cmp'.base = cmp.base /\ cmp'.todo = cmp.todo
         /\ cmp'.n = cmp.n /\ cmp'.rotated = cmp.rotated /\ cmp'.locs = cmp.locs
         /\ walFile' = [walFile EXCEPT ![cmp.n] = walFile[cmp.n] \o SubSeq(Current, cmp.copied + 1, wal.size)]
         /\ UNCHANGED <<disk, store, wal, snapFile, snapAt, walAt, reader, cpc, lock, wpc, call, issued,
                        acked, boundVars>>
<1>1. cmp \in Cmps /\ wal.size \in Nat
  BY DEF Typed, FlowTyped, Wals
<1>2. \A p \in Nat : [cmp EXCEPT !.copied = wal.size, !.appended = TRUE, !.passes = p] \in Cmps
  BY <1>1 DEF Cmps
<1>3. cmp.passes \in Nat /\ cmp.passes + 1 \in Nat
  BY <1>1 DEF Cmps
<1>4. \/ cmp' = [cmp EXCEPT !.copied = wal.size, !.appended = TRUE, !.passes = cmp.passes + 1]
      \/ cmp' = [cmp EXCEPT !.copied = wal.size, !.appended = TRUE, !.passes = cmp.passes]
  <2>1. CASE PreCopy
    BY <2>1 DEF PreCopy
  <2>2. CASE DrainCopy
    <3>1. cmp' = [cmp EXCEPT !.copied = wal.size, !.appended = TRUE]
      BY <2>2 DEF DrainCopy
    <3> QED
      BY <1>1, <3>1 DEF Cmps
  <2> QED
    BY <2>1, <2>2
<1>5. cmp' \in Cmps
  BY <1>2, <1>3, <1>4
<1>6. /\ cmp'.copied = wal.size /\ cmp'.base = cmp.base /\ cmp'.todo = cmp.todo
      /\ cmp'.n = cmp.n /\ cmp'.rotated = cmp.rotated /\ cmp'.locs = cmp.locs
  BY <1>1, <1>4 DEF Cmps
<1>7. /\ walFile' = [walFile EXCEPT ![cmp.n] = walFile[cmp.n] \o SubSeq(Current, cmp.copied + 1, wal.size)]
      /\ UNCHANGED <<disk, store, wal, snapFile, snapAt, walAt, reader, cpc, lock, wpc, call, issued,
                     acked, boundVars>>
  BY DEF PreCopy, DrainCopy, CopyTail
<1>8. walFile' \in [Numbers -> Seq(Frame)]
  <2>1. PICK c \in Seq(Frame) : c = Current
    BY CurrentTyped
  <2>2. SubSeq(c, cmp.copied + 1, wal.size) \in Seq(Frame)
    <3>1. cmp.copied \in Nat
      BY <1>1 DEF Cmps
    <3>2. PICK l \in Nat : l = Len(c)
      OBVIOUS
    <3>3. \A i \in (cmp.copied + 1)..wal.size : c[i] \in Frame
      <4>1. \A i \in (cmp.copied + 1)..wal.size : i \in 1..l
        BY <1>1, <2>1, <3>1, <3>2
      <4> QED
        BY <3>2, <4>1
    <3> QED
      BY <1>1, <3>1, <3>3, SubSeqProperties
  <2>3. PICK g \in Seq(Frame) : g = SubSeq(c, cmp.copied + 1, wal.size)
    BY <2>2
  <2>4. cmp.n \in Numbers /\ walFile[cmp.n] \in Seq(Frame)
    BY <1>1 DEF Cmps, Typed, FilesTyped
  <2>5. walFile[cmp.n] \o g \in Seq(Frame)
    BY <2>4
  <2> QED
    BY <1>7, <2>1, <2>3, <2>4, <2>5 DEF Typed, FilesTyped
<1> QED
  BY <1>5, <1>6, <1>7, <1>8 DEF Typed, FilesTyped, DataTyped, FlowTyped, boundVars

\* What the value reader finds for a key is its value.
LEMMA MaterializedIs ==
  ASSUME Typed, LocSound, NEW k \in Keys, store[k] # None
  PROVE  Materialized(k) = store[k].val /\ store[k].val \in Nat
<1>1. store[k] \in Records
  BY CurrentTyped
<1>2. CASE store[k].loc = None
  BY <1>1, <1>2 DEF Materialized, Records
<1>3. CASE store[k].loc # None
  <2>1. PICK loc : loc = store[k].loc
    OBVIOUS
  <2>2. KeyLoc(store[k], k, Old, snapFile[reader.snap])
    BY DEF LocSound
  <2>3. PICK file : file = IF loc.file = "wal" THEN Old ELSE snapFile[reader.snap]
    OBVIOUS
  <2>4. Reads(file, loc.off, k, store[k].val)
    BY <1>3, <2>1, <2>2, <2>3 DEF KeyLoc
  <2>5. FrameAt(loc) = file[loc.off + 1] /\ k \in DOMAIN file[loc.off + 1] /\ file[loc.off + 1][k] = store[k].val
    BY <2>3, <2>4 DEF FrameAt, Reads, Old
  <2> QED
    BY <1>1, <1>3, <2>1, <2>5 DEF Materialized, Records
<1> QED
  BY <1>2, <1>3

\* An entry of the snapshot holds the value of its key, read from disk where it lives there.
LEMMA EntryTyped ==
  ASSUME Typed, LocSound, NEW k \in Keys, SnapshotEntry(k)
  PROVE  /\ Typed'
         /\ \E e \in Frame :
              /\ DOMAIN e = {k} /\ e[k] = store[k].val /\ store[k] # None
              /\ snapFile' = [snapFile EXCEPT ![cmp.n] = Append(snapFile[cmp.n], e)]
         /\ cmp'.todo = cmp.todo \ {k}
         /\ cmp'.locs = [cmp.locs EXCEPT ![k] = [file |-> "snapshot", off |-> Len(snapFile[cmp.n])]]
         /\ cmp'.base = cmp.base /\ cmp'.copied = cmp.copied
         /\ cmp'.n = cmp.n /\ cmp'.rotated = cmp.rotated
         /\ UNCHANGED <<disk, store, wal, walFile, snapAt, walAt, reader, cpc, lock, wpc, call,
                        issued, acked, boundVars>>
<1>1. cmp \in Cmps /\ cmp.n \in Numbers /\ cmp.todo \in SUBSET Keys /\ cmp.locs \in [Keys -> Locations \cup {None}]
  BY DEF Typed, FlowTyped, Cmps
<1>2. PICK s \in Seq(Frame) : s = snapFile[cmp.n]
  BY <1>1 DEF Typed, FilesTyped
<1>3. PICK loc \in Locations : loc = [file |-> "snapshot", off |-> Len(s)]
  <2>1. [file |-> "snapshot", off |-> Len(s)] \in Locations
    BY DEF Locations
  <2> QED
    BY <2>1
<1>4. PICK e : e = [j \in {k} |-> Materialized(k)]
  OBVIOUS
<1>5. e \in Frame /\ DOMAIN e = {k} /\ e[k] = store[k].val /\ store[k] # None
  <2>1. Materialized(k) = store[k].val /\ store[k].val \in Nat /\ store[k] # None
    BY MaterializedIs DEF SnapshotEntry
  <2>2. e \in [{k} -> Nat] /\ {k} \in SUBSET Keys
    BY <1>4, <2>1
  <2> QED
    BY <1>4, <2>1, <2>2 DEF Frame
<1>6. snapFile' = [snapFile EXCEPT ![cmp.n] = Append(s, e)]
  BY <1>2, <1>4 DEF SnapshotEntry
<1>7. PICK locs \in [Keys -> Locations \cup {None}] : locs = [cmp.locs EXCEPT ![k] = loc]
  BY <1>1
<1>8. cmp' = [cmp EXCEPT !.todo = cmp.todo \ {k}, !.locs = locs]
  BY <1>2, <1>3, <1>7 DEF SnapshotEntry
<1>9. /\ cmp' \in Cmps /\ cmp'.todo = cmp.todo \ {k} /\ cmp'.locs = locs
      /\ cmp'.base = cmp.base /\ cmp'.copied = cmp.copied /\ cmp'.n = cmp.n /\ cmp'.rotated = cmp.rotated
  BY <1>1, <1>8 DEF Cmps
<1>10. UNCHANGED <<disk, store, wal, walFile, snapAt, walAt, reader, cpc, lock, wpc, call,
                   issued, acked, boundVars>>
  BY DEF SnapshotEntry
<1>11. snapFile' \in [Numbers -> Seq(Frame)]
  <2>1. Append(s, e) \in Seq(Frame)
    BY <1>5
  <2> QED
    BY <1>6, <2>1 DEF Typed, FilesTyped
<1>12. Typed'
  BY <1>9, <1>10, <1>11 DEF Typed, FilesTyped, DataTyped, FlowTyped, boundVars
<1> QED
  BY <1>2, <1>3, <1>5, <1>6, <1>7, <1>9, <1>10, <1>12

\* The two renames.
LEMMA RenamesTyped ==
  ASSUME Typed, RenameSnapshot \/ RenameWal
  PROVE  /\ Typed'
         /\ snapAt' = (IF cpc = "renameSnapshot" THEN cmp.n ELSE snapAt)
         /\ walAt' = (IF cpc = "renameWal" THEN cmp.n ELSE walAt)
         /\ cmp'.base = cmp.base /\ cmp'.copied = cmp.copied /\ cmp'.todo = cmp.todo
         /\ cmp'.locs = cmp.locs /\ cmp'.n = cmp.n
         /\ UNCHANGED <<disk, store, wal, snapFile, walFile, reader, lock, wpc, call, issued, acked,
                        boundVars>>
<1>1. cmp \in Cmps /\ cmp.n \in Numbers
  BY DEF Typed, FlowTyped, Cmps
<1>2. cmp' = cmp \/ cmp' = [cmp EXCEPT !.rotated = TRUE]
  BY DEF RenameSnapshot, RenameWal
<1>3. /\ cmp' \in Cmps
      /\ cmp'.base = cmp.base /\ cmp'.copied = cmp.copied /\ cmp'.todo = cmp.todo
      /\ cmp'.locs = cmp.locs /\ cmp'.n = cmp.n
  BY <1>1, <1>2 DEF Cmps
<1>4. /\ UNCHANGED <<disk, store, wal, snapFile, walFile, reader, lock, wpc, call, issued, acked,
                     boundVars>>
      /\ SnapshotFirst /\ cpc' \in Cpcs
  BY DEF RenameSnapshot, RenameWal, Goto, Cpcs
<1> QED
  BY <1>1, <1>3, <1>4 DEF SnapshotFirst, Typed, FilesTyped, DataTyped, FlowTyped, boundVars

\* The new log: what it is when it opens the file that db.wal names.
LEMMA OpenedTyped ==
  ASSUME Typed
  PROVE  /\ Len(Current) \in Nat /\ NewWal(TRUE, Len(Current)) \in Wals
         /\ Opened(wal, Len(Current)) \in Wals
         /\ Opened(wal, Len(Current)).open /\ Opened(wal, Len(Current)).size = Len(Current)
         /\ Opened(wal, Len(Current)).next = Len(Current)
         /\ Opened(wal, Len(Current)).batch = wal.batch /\ Opened(wal, Len(Current)).queue = wal.queue
         /\ Opened(wal, Len(Current)).closed = wal.closed /\ Opened(wal, Len(Current)).sealed = wal.sealed
<1>1. PICK n \in Nat : n = Len(Current)
  <2>1. Len(Current) \in Nat
    BY CurrentTyped
  <2> QED
    BY <2>1
<1>2. NewWal(TRUE, n) \in Wals
  BY NewWalTyped
<1>3. wal \in Wals /\ Opened(wal, n) = [wal EXCEPT !.open = TRUE, !.size = n, !.next = n]
  BY DEF Opened, Typed, FlowTyped
<1>4. /\ Opened(wal, n) \in Wals /\ Opened(wal, n).open /\ Opened(wal, n).size = n /\ Opened(wal, n).next = n
      /\ Opened(wal, n).batch = wal.batch /\ Opened(wal, n).queue = wal.queue
      /\ Opened(wal, n).closed = wal.closed /\ Opened(wal, n).sealed = wal.sealed
  BY <1>3 DEF Wals
<1> QED
  BY <1>1, <1>2, <1>4

\* Where the new files are and the old ones are still read: the new log is the rest of
\* the old one, and the remap holds.
LEMMA AheadFiles ==
  ASSUME Inv, Ahead
  PROVE  /\ Loaded /\ cpc # "snapshot" /\ snapAt = cmp.n /\ walAt = cmp.n /\ Drained
         /\ Current = After(Old, cmp.base) /\ cmp.base <= Len(Old) /\ cmp.base \in Nat
         /\ \A k \in Keys : KeyMap(store[k], k, cmp.base, cmp.locs[k], snapFile[cmp.n], FALSE)
         /\ \A k \in Keys : KeyLoc(store[k], k, Old, snapFile[reader.snap])
<1>1. Loaded /\ cpc # "snapshot"
  BY DEF Ahead, Loaded
<1>2. snapAt = cmp.n /\ walAt = cmp.n /\ Drained
  BY DEF Inv, FileSound, WalSound
<1>3. cmp.base \in Nat /\ cmp.copied \in Nat /\ Len(Old) \in Nat
  BY CurrentTyped DEF Inv, Typed, FlowTyped, Cmps
<1>4. /\ cmp.base <= cmp.copied /\ cmp.copied = Len(Old)
      /\ walFile[cmp.n] = SubSeq(Old, cmp.base + 1, cmp.copied)
  BY <1>1 DEF Inv, CopySound
<1>5. Current = After(Old, cmp.base)
  BY <1>2, <1>4 DEF Current, After
<1>6. \A k \in Keys : KeyMap(store[k], k, cmp.base, cmp.locs[k], snapFile[cmp.n], FALSE)
  BY <1>1 DEF Inv, KeysSound, LocSound, KeyMap
<1>7. \A k \in Keys : KeyLoc(store[k], k, Old, snapFile[reader.snap])
  BY DEF Inv, KeysSound, LocSound
<1> QED
  BY <1>1, <1>2, <1>3, <1>4, <1>5, <1>6, <1>7

\* The end of a compaction that reopens a log, with the pointers remapped or left alone.
LEMMA EndTyped ==
  ASSUME Inv, FinishCompaction \/ RollForward
  PROVE  /\ Typed' /\ Drained /\ wal'.open /\ wal'.size = Len(Current) /\ wal'.next = Len(Current)
         /\ wal'.batch = wal.batch /\ wal'.queue = wal.queue
         /\ lock' = FALSE /\ cpc' = "idle" /\ ~cmp'.rotated /\ Unlock
         /\ UNCHANGED <<disk, snapFile, walFile, snapAt, walAt, call, issued, acked, boundVars>>
         /\ \/ ~Ahead /\ UNCHANGED <<store, reader>>
            \/ Ahead /\ Remapped
<1>1. /\ Unlock
      /\ UNCHANGED <<disk, snapFile, walFile, snapAt, walAt, call, issued, acked, boundVars>>
  BY DEF FinishCompaction, RollForward
<1>2. \/ ~Ahead /\ UNCHANGED <<store, reader>>
      \/ Ahead /\ Remapped
  BY DEF FinishCompaction, RollForward, Ahead
<1>3. store' \in Stores /\ reader' \in [snap : Numbers, wal : Numbers]
  <2>1. CASE ~Ahead /\ UNCHANGED <<store, reader>>
    BY <2>1 DEF Inv, Typed, FilesTyped, DataTyped
  <2>2. CASE Ahead /\ Remapped
    <3>1. store' \in Stores /\ reader' = [snap |-> snapAt, wal |-> walAt]
      <4>1. PICK new : new = After(Old, cmp.base)
        OBVIOUS
      <4> QED
        BY <2>2, <4>1, AheadFiles, RemappedIs DEF Inv
    <3> QED
      BY <3>1 DEF Inv, Typed, FilesTyped
  <2> QED
    BY <1>2, <2>1, <2>2
<1>4. cmp' \in Cmps /\ wpc' \in [Writers -> Wpcs] /\ lock' = FALSE /\ cpc' = "idle" /\ ~cmp'.rotated
  BY <1>1, UnlockTyped DEF Inv
<1>5. Drained
  <2>1. CASE FinishCompaction
    <3>1. Ahead
      BY <2>1 DEF FinishCompaction, Ahead
    <3> QED
      BY <3>1 DEF Inv, WalSound
  <2>2. CASE RollForward
    BY <2>2 DEF RollForward
  <2> QED
    BY <2>1, <2>2
<1>6. /\ wal' \in Wals /\ wal'.open /\ wal'.size = Len(Current) /\ wal'.next = Len(Current)
      /\ wal'.batch = wal.batch /\ wal'.queue = wal.queue
  <2>1. CASE FinishCompaction
    BY <2>1, OpenedTyped DEF FinishCompaction, Inv
  <2>2. CASE RollForward
    <3>1. wal' = NewWal(TRUE, Len(Current)) /\ Len(Current) \in Nat
      BY <2>2, OpenedTyped DEF RollForward, Inv
    <3> QED
      BY <1>5, <3>1, NewWalTyped DEF Drained
  <2> QED
    BY <2>1, <2>2
<1>7. FilesTyped'
  BY <1>1, <1>3 DEF Inv, Typed, FilesTyped
<1>8. DataTyped'
  BY <1>1, <1>3 DEF Inv, Typed, DataTyped, boundVars
<1>9. FlowTyped'
  BY <1>1, <1>4, <1>6 DEF Inv, Typed, FlowTyped, boundVars, Cpcs
<1> QED
  BY <1>1, <1>2, <1>4, <1>5, <1>6, <1>7, <1>8, <1>9 DEF Typed

\* A compaction that throws, and a rollback that cannot open a log.
LEMMA ThrowsTyped ==
  ASSUME Typed, CompactionThrows
  PROVE  /\ Typed'
         /\ UNCHANGED <<disk, store, fileVars, call, issued, acked, compactions, rejected, unopened>>
         /\ \/ /\ Rotating /\ cpc' = "rollback" /\ UNCHANGED <<cmp, lock, wpc>>
               /\ wal' = [wal EXCEPT !.closed = TRUE]
            \/ /\ cpc \in {"fence", "snapshot", "precopy"} /\ Unlock /\ UNCHANGED wal
<1>1. UNCHANGED <<disk, store, fileVars, call, issued, acked, compactions, rejected, unopened>>
  BY DEF CompactionThrows
<1>2. \/ /\ Rotating /\ cpc' = "rollback" /\ UNCHANGED <<cmp, lock, wpc>>
         /\ wal' = [wal EXCEPT !.closed = TRUE]
      \/ /\ cpc \in {"fence", "snapshot", "precopy"} /\ Unlock /\ UNCHANGED wal
  BY DEF CompactionThrows, Goto
<1>3. FlowTyped'
  <2>1. CASE /\ Rotating /\ cpc' = "rollback" /\ UNCHANGED <<cmp, lock, wpc>>
             /\ wal' = [wal EXCEPT !.closed = TRUE]
    <3>1. wal' \in Wals
      BY <2>1 DEF Typed, FlowTyped, Wals
    <3> QED
      BY <1>1, <2>1, <3>1 DEF Typed, FlowTyped, Cpcs
  <2>2. CASE Unlock /\ UNCHANGED wal
    BY <1>1, <2>2, UnlockTyped DEF Typed, FlowTyped, Cpcs
  <2> QED
    BY <1>2, <2>1, <2>2
<1> QED
  BY <1>1, <1>2, <1>3 DEF Typed, FilesTyped, DataTyped, fileVars

\* The fresh log of a rollback cannot be opened.
LEMMA FailsTyped ==
  ASSUME Typed, RollForwardFails
  PROVE  Typed'
<1>1. FlowTyped'
  BY UnlockTyped DEF RollForwardFails, Typed, FlowTyped, Cpcs
<1> QED
  BY <1>1 DEF RollForwardFails, Typed, FilesTyped, DataTyped, fileVars

\* A crash with n frames of the batch written.
LEMMA CrashTyped ==
  ASSUME Typed, QueueSound, NEW n \in 0..Len(wal.batch), Crash(n)
  PROVE  /\ Typed' /\ wal' = NewWal(TRUE, Len(Current'))
         /\ Current' = Truncated(Current \o SubSeq(Frames(wal.batch), 1, n))
         /\ \A k \in Keys : store'[k] = RecoveredRecord(snapFile[snapAt], Current', k)
         /\ UNCHANGED <<disk, snapFile, snapAt, walAt, issued, acked, compactions, rejected>>
         /\ reader' = [snap |-> snapAt, wal |-> walAt] /\ ~cmp'.rotated
<1>1. PICK f \in Seq(Frame) : f = SubSeq(Frames(wal.batch), 1, n)
  BY BatchFrames
<1>2. PICK log \in Seq(Frame) : log = Truncated(Current \o f)
  <2>1. Current \o f \in Seq(Frame)
    BY CurrentTyped
  <2> QED
    BY <2>1, TornSkipped
<1>3. /\ walFile' = [walFile EXCEPT ![walAt] = log]
      /\ wal' = NewWal(TRUE, Len(log))
      /\ store' = [k \in Keys |-> RecoveredRecord(snapFile[snapAt], log, k)]
  BY <1>1, <1>2 DEF Crash, Current
<1>4. /\ UNCHANGED <<disk, snapFile, snapAt, walAt, issued, acked, compactions, rejected>>
      /\ reader' = [snap |-> snapAt, wal |-> walAt]
      /\ cpc' = "idle" /\ cmp' = NoCompaction /\ lock' = FALSE /\ unopened' = FALSE
      /\ wpc' = [w \in Writers |-> "idle"] /\ call' = [w \in Writers |-> NoCall]
  BY DEF Crash
<1>5. Current' = log
  BY <1>3, <1>4 DEF Current, Typed, FilesTyped
<1>6. FilesTyped'
  BY <1>3, <1>4, CurrentTyped DEF Typed, FilesTyped
<1>7. store' \in Stores
  <2>1. \A k \in Keys : RecoveredRecord(snapFile[snapAt], log, k) \in Records \cup {None}
    BY CurrentTyped, RecoveredTyped DEF Typed, DataTyped
  <2> QED
    BY <1>3, <2>1 DEF Stores
<1>8. DataTyped'
  BY <1>4, <1>7, Torns DEF Typed, DataTyped
<1>9. FlowTyped'
  <2>1. wal' \in Wals /\ cmp' \in Cmps
    <3>1. Len(log) \in Nat /\ TRUE \in BOOLEAN
      OBVIOUS
    <3> QED
      BY <1>3, <1>4, <3>1, NewWalTyped, NoCompactionTyped
  <2> QED
    BY <1>4, <2>1 DEF Typed, FlowTyped, Cpcs, Wpcs
<1>10. ~cmp'.rotated
  BY <1>4 DEF NoCompaction
<1> QED
  BY <1>1, <1>2, <1>3, <1>4, <1>5, <1>6, <1>8, <1>9, <1>10 DEF Typed

-----------------------------------------------------------------------------
(* The control of the compaction *)

\* Steps that leave the compaction where it is.
LEMMA ControlStays ==
  ASSUME ControlSound, UNCHANGED <<cpc, lock, unopened>>, cmp'.rotated = cmp.rotated,
         wal'.open = wal.open, wal'.closed = wal.closed, wal'.sealed = wal.sealed,
         \A w \in Writers : wpc'[w] \in {"parked", "retry"} => lock
  PROVE  ControlSound'
BY DEF ControlSound, Rotating

\* Writers leave the compaction where it is.
LEMMA WritersControl ==
  ASSUME Inv, Orderly, NEW w \in Writers, NEW ops \in OpsSet,
         Call(w) \/ Commit(w, ops) \/ CommitRejected(w, ops)
  PROVE  ControlSound'
<1>1. UNCHANGED <<cpc, lock, unopened>>
  BY DEF Call, Commit, CommitRejected, boundVars
<1>2. cmp'.rotated = cmp.rotated
  <2>1. CASE Call(w)
    BY <2>1 DEF Call
  <2>2. CASE Commit(w, ops)
    BY <2>2, StoreBecomesTyped, CommitTyped DEF Commit, StoreBecomes, Inv, Typed, FlowTyped, Cmps
  <2>3. CASE CommitRejected(w, ops)
    BY <2>3 DEF CommitRejected, StoreBecomes, Inv, Typed, FlowTyped, Cmps
  <2> QED
    BY <2>1, <2>2, <2>3
<1>3. wal'.open = wal.open /\ wal'.closed = wal.closed /\ wal'.sealed = wal.sealed
  BY DEF Call, Commit, CommitRejected, Inv, Typed, FlowTyped, Wals
<1>4. \A v \in Writers : wpc[v] \in {"parked", "retry"} => lock
  BY DEF Inv, ControlSound
<1>5. wpc \in [Writers -> Wpcs]
  BY DEF Inv, Typed, FlowTyped
<1>6. \A v \in Writers : wpc'[v] \in {"parked", "retry"} => lock
  <2>1. CASE Call(w)
    BY <1>4, <1>5, <2>1 DEF Call
  <2>2. CASE Commit(w, ops)
    BY <1>4, <1>5, <2>2 DEF Commit
  <2>3. CASE CommitRejected(w, ops)
    <3>1. CASE Retries(w)
      <4>1. lock
        <5>1. lock \/ (~wal.closed /\ wal.sealed)
          BY <2>3, <3>1 DEF CommitRejected, Retries
        <5>2. ~wal.closed /\ wal.sealed => lock
          BY DEF Inv, ControlSound, Rotating, Typed, FlowTyped, Cpcs
        <5> QED
          BY <5>1, <5>2
      <4> QED
        BY <4>1
    <3>2. CASE ~Retries(w)
      BY <1>4, <1>5, <2>3, <3>2 DEF CommitRejected
    <3> QED
      BY <3>1, <3>2
  <2> QED
    BY <2>1, <2>2, <2>3
<1> QED
  BY <1>1, <1>2, <1>3, <1>6, ControlStays DEF Inv

\* So does the log.
LEMMA LogControl ==
  ASSUME Inv, Orderly,
         FlushBatch \/ FlushLands \/ \E n \in 0..Len(wal.batch), torn \in BOOLEAN : FlushFails(n, torn)
  PROVE  ControlSound'
<1>1. UNCHANGED <<cpc, lock, unopened>>
  BY DEF FlushBatch, FlushLands, FlushFails, boundVars
<1>2. cmp'.rotated = cmp.rotated
  BY DEF FlushBatch, FlushLands, FlushFails, StoreBecomes, Inv, Typed, FlowTyped, Cmps
<1>3. wal'.open = wal.open /\ wal'.closed = wal.closed /\ wal'.sealed = wal.sealed
  BY DEF FlushBatch, FlushLands, FlushFails, Inv, Typed, FlowTyped, Wals
<1>4. \A v \in Writers : wpc[v] \in {"parked", "retry"} => lock
  BY DEF Inv, ControlSound
<1>5. \A v \in Writers : wpc'[v] \in {"parked", "retry"} => lock
  BY <1>4 DEF FlushBatch, FlushLands, FlushFails, Done
<1> QED
  BY <1>1, <1>2, <1>3, <1>5, ControlStays DEF Inv

\* Copies and snapshot entries change no control.
LEMMA EntryControl ==
  ASSUME Inv, (\E k \in Keys : SnapshotEntry(k)) \/ PreCopy \/ DrainCopy
  PROVE  ControlSound'
<1>1. UNCHANGED <<cpc, lock, unopened, wal, wpc>>
  BY DEF SnapshotEntry, PreCopy, DrainCopy, CopyTail, boundVars
<1>2. cmp'.rotated = cmp.rotated
  BY DEF SnapshotEntry, PreCopy, DrainCopy, Inv, Typed, FlowTyped, Cmps
<1>3. \A v \in Writers : wpc'[v] \in {"parked", "retry"} => lock
  BY <1>1 DEF Inv, ControlSound
<1> QED
  BY <1>1, <1>2, <1>3, ControlStays DEF Inv

\* Steps that move it on.
LEMMA MovesControl ==
  ASSUME Inv, Orderly,
         \/ StartCompaction \/ Fence \/ SnapshotDone \/ Rotate \/ DrainDone \/ CloseWal
         \/ RenameSnapshot \/ RenameWal \/ SwapWal
  PROVE  ControlSound'
<1>1. ControlSound /\ wal \in Wals /\ cmp \in Cmps
  BY DEF Inv, Typed, FlowTyped
<1>2. CASE StartCompaction
  <2>1. cpc = "idle" /\ cpc' = "fence" /\ ~unopened /\ UNCHANGED <<wal, lock, wpc, unopened>>
    BY <1>2 DEF StartCompaction, Goto, Orderly
  <2>2. ~cmp'.rotated
    BY <1>2, StartTyped DEF Inv
  <2> QED
    BY <1>1, <2>1, <2>2 DEF ControlSound, Rotating
<1>3. CASE Fence
  <2>1. cpc = "fence" /\ cpc' = "snapshot" /\ UNCHANGED <<wal, lock, wpc, unopened>>
    BY <1>3 DEF Fence, Goto, boundVars
  <2>2. cmp'.rotated = cmp.rotated
    BY <1>3, FenceTyped DEF Inv
  <2> QED
    BY <1>1, <2>1, <2>2 DEF ControlSound, Rotating
<1>4. CASE SnapshotDone
  <2>1. cpc = "snapshot" /\ cpc' = "precopy" /\ UNCHANGED <<wal, lock, wpc, unopened, cmp>>
    BY <1>4 DEF SnapshotDone, Goto, boundVars
  <2> QED
    BY <1>1, <2>1 DEF ControlSound, Rotating
<1>5. CASE Rotate
  <2>1. cpc = "precopy" /\ cpc' = "drain" /\ lock' = TRUE /\ UNCHANGED <<wpc, unopened, cmp>>
    BY <1>5 DEF Rotate, Goto, boundVars
  <2>2. wal'.open = wal.open /\ wal'.closed = wal.closed /\ wal'.sealed
    BY <1>1, <1>5 DEF Rotate, Seal, Wals
  <2> QED
    BY <1>1, <2>1, <2>2 DEF ControlSound, Rotating
<1>6. CASE DrainDone
  <2>1. cpc = "drain" /\ cpc' = "close" /\ UNCHANGED <<wal, lock, wpc, unopened, cmp>>
    BY <1>6 DEF DrainDone, Goto, boundVars
  <2> QED
    BY <1>1, <2>1 DEF ControlSound, Rotating
<1>7. CASE CloseWal
  <2>1. cpc = "close" /\ cpc' = "renameSnapshot" /\ UNCHANGED <<lock, wpc, unopened, cmp>>
    BY <1>7 DEF CloseWal, Goto, boundVars
  <2>2. wal'.open = wal.open /\ wal'.closed /\ wal'.sealed = wal.sealed
    BY <1>1, <1>7 DEF CloseWal, Wals
  <2> QED
    BY <1>1, <2>1, <2>2 DEF ControlSound, Rotating
<1>8. CASE RenameSnapshot
  <2>1. cpc = "renameSnapshot" /\ cpc' = "renameWal" /\ UNCHANGED <<wal, lock, wpc, unopened, cmp>>
    BY <1>8 DEF RenameSnapshot, Goto, boundVars
  <2> QED
    BY <1>1, <2>1 DEF ControlSound, Rotating
<1>9. CASE RenameWal
  <2>1. cpc = "renameWal" /\ cpc' = "swap" /\ UNCHANGED <<wal, lock, wpc, unopened>>
    BY <1>9 DEF RenameWal, Goto, boundVars
  <2>2. cmp'.rotated
    BY <1>1, <1>9 DEF RenameWal, Cmps
  <2> QED
    BY <1>1, <2>1, <2>2 DEF ControlSound, Rotating
<1>10. CASE SwapWal
  <2>1. cpc = "swap" /\ cpc' = "open" /\ UNCHANGED <<lock, wpc, unopened, cmp>>
    BY <1>10 DEF SwapWal, Goto, boundVars
  <2>2. ~wal'.open /\ ~wal'.closed /\ ~wal'.sealed
    BY <1>10 DEF SwapWal, NewWal
  <2> QED
    BY <1>1, <2>1, <2>2 DEF ControlSound, Rotating
<1> QED
  BY <1>2, <1>3, <1>4, <1>5, <1>6, <1>7, <1>8, <1>9, <1>10

\* The lock is released: nobody waits for it.
LEMMA UnlockFrees ==
  ASSUME Typed, Unlock
  PROVE  \A w \in Writers : wpc'[w] \notin {"parked", "retry"}
<1>1. wpc' = [w \in Writers |-> CASE wpc[w] = "parked" -> "ready"
                                  [] wpc[w] = "retry" -> "again"
                                  [] OTHER -> wpc[w]]
  BY DEF Unlock
<1> QED
  BY <1>1

\* The ends of a compaction.
LEMMA EndsControl ==
  ASSUME Inv, Orderly,
         \/ FinishCompaction \/ RollForward \/ CompactionThrows \/ RollForwardFails
         \/ \E n \in 0..Len(wal.batch) : Crash(n)
  PROVE  ControlSound'
<1>1. ControlSound /\ wal \in Wals /\ cmp \in Cmps /\ Typed
  BY DEF Inv, Typed, FlowTyped
<1>2. CASE FinishCompaction \/ RollForward
  <2>1. lock' = FALSE /\ cpc' = "idle" /\ ~cmp'.rotated /\ Unlock /\ unopened' = unopened
    BY <1>2, EndTyped DEF boundVars
  <2>2. ~unopened
    BY <1>1, <1>2 DEF FinishCompaction, RollForward, ControlSound
  <2>3. ~wal'.closed /\ ~wal'.sealed
    <3>1. CASE FinishCompaction
      BY <1>1, <3>1, OpenedTyped DEF FinishCompaction, ControlSound
    <3>2. CASE RollForward
      BY <3>2 DEF RollForward, NewWal
    <3> QED
      BY <1>2, <3>1, <3>2
  <2> QED
    BY <1>1, <2>1, <2>2, <2>3, UnlockFrees DEF ControlSound, Rotating
<1>3. CASE CompactionThrows
  <2>1. /\ \/ /\ Rotating /\ cpc' = "rollback" /\ UNCHANGED <<cmp, lock, wpc>>
              /\ wal' = [wal EXCEPT !.closed = TRUE]
           \/ /\ cpc \in {"fence", "snapshot", "precopy"} /\ Unlock /\ UNCHANGED wal
        /\ unopened' = unopened
    BY <1>1, <1>3, ThrowsTyped
  <2>2. CASE /\ Rotating /\ cpc' = "rollback" /\ UNCHANGED <<cmp, lock, wpc>>
             /\ wal' = [wal EXCEPT !.closed = TRUE]
    <3>1. wal'.closed
      BY <1>1, <2>2 DEF Wals
    <3> QED
      BY <1>1, <2>1, <2>2, <3>1 DEF ControlSound, Rotating
  <2>3. CASE /\ cpc \in {"fence", "snapshot", "precopy"} /\ Unlock /\ UNCHANGED wal
    <3>1. lock' = FALSE /\ cpc' = "idle" /\ ~cmp'.rotated
      BY <1>1, <2>3, UnlockTyped
    <3> QED
      BY <1>1, <2>1, <2>3, <3>1, UnlockFrees DEF ControlSound, Rotating
  <2> QED
    BY <2>1, <2>2, <2>3
<1>4. CASE RollForwardFails
  <2>1. lock' = FALSE /\ cpc' = "idle" /\ ~cmp'.rotated /\ Unlock /\ unopened' = TRUE
        /\ wal' = wal /\ cpc = "rollback"
    BY <1>1, <1>4, UnlockTyped DEF RollForwardFails
  <2> QED
    BY <1>1, <2>1, UnlockFrees DEF ControlSound, Rotating
<1>5. CASE \E n \in 0..Len(wal.batch) : Crash(n)
  <2>1. PICK n \in 0..Len(wal.batch) : Crash(n)
    BY <1>5
  <2>2. /\ cpc' = "idle" /\ lock' = FALSE /\ unopened' = FALSE
        /\ wpc' = [w \in Writers |-> "idle"]
    BY <2>1 DEF Crash
  <2>3. ~cmp'.rotated /\ ~wal'.closed /\ ~wal'.sealed
    BY <2>1 DEF Crash, NoCompaction, NewWal
  <2> QED
    BY <2>2, <2>3 DEF ControlSound, Rotating
<1> QED
  BY <1>2, <1>3, <1>4, <1>5

-----------------------------------------------------------------------------
(* The log that is written *)

\* Steps that leave the compaction where it is, and let nothing be written to a log that
\* is not open.
LEMMA WalStays ==
  ASSUME WalSound, UNCHANGED <<cpc, unopened>>, cmp'.rotated = cmp.rotated,
         wal'.open = wal.open,
         wal.size = Len(Current) => wal'.size = Len(Current'),
         Drained' \/ (~Drained /\ ~Drained') \/ (wal.open /\ ~Ahead /\ ~unopened /\ cpc \notin {"close", "renameSnapshot", "renameWal"})
  PROVE  WalSound'
BY DEF WalSound, Ahead

\* Writers reach the log only while it is open.
LEMMA WritersWal ==
  ASSUME Inv, Orderly, NEW w \in Writers, NEW ops \in OpsSet,
         Call(w) \/ Commit(w, ops) \/ CommitRejected(w, ops)
  PROVE  WalSound'
<1>1. UNCHANGED <<cpc, unopened, walFile, walAt>> /\ Current' = Current
  BY DEF Call, Commit, CommitRejected, boundVars, fileVars, Current
<1>2. cmp'.rotated = cmp.rotated
  <2>1. CASE Call(w)
    BY <2>1 DEF Call
  <2>2. CASE Commit(w, ops)
    BY <2>2 DEF Commit, StoreBecomes, Inv, Typed, FlowTyped, Cmps
  <2>3. CASE CommitRejected(w, ops)
    BY <2>3 DEF CommitRejected, StoreBecomes, Inv, Typed, FlowTyped, Cmps
  <2> QED
    BY <2>1, <2>2, <2>3
<1>3. wal'.open = wal.open /\ wal'.size = wal.size
  BY DEF Call, Commit, CommitRejected, Inv, Typed, FlowTyped, Wals
<1>4. (Drained' /\ Drained) \/ (~Drained /\ ~Drained') \/ (wal.open /\ ~Ahead /\ ~unopened /\ cpc \notin {"close", "renameSnapshot", "renameWal"})
  <2>1. CASE Call(w) \/ CommitRejected(w, ops)
    BY <2>1 DEF Call, CommitRejected, Drained
  <2>2. CASE Commit(w, ops)
    <3>1. ~wal.closed /\ ~wal.sealed /\ wal.open
      BY <2>2 DEF Commit, Orderly
    <3>2. ~unopened /\ cpc \notin {"close", "renameSnapshot", "renameWal", "swap", "rollback", "open"}
      BY <3>1 DEF Inv, ControlSound
    <3> QED
      BY <3>1, <3>2 DEF Ahead
  <2> QED
    BY <2>1, <2>2
<1> QED
  BY <1>1, <1>2, <1>3, <1>4, WalStays DEF Inv

\* What is written goes to the log that is named and open.
LEMMA LogWal ==
  ASSUME Inv, Orderly,
         FlushBatch \/ FlushLands \/ \E n \in 0..Len(wal.batch), torn \in BOOLEAN : FlushFails(n, torn)
  PROVE  WalSound' /\ wal.open /\ ~Ahead /\ ~unopened /\ wal.size = Len(Current)
         /\ cpc \notin {"close", "renameSnapshot", "renameWal"}
<1>1. ~Drained
  BY DEF FlushBatch, FlushLands, FlushFails, Drained
<1>2. wal.open /\ ~Ahead /\ ~unopened /\ wal.size = Len(Current) /\ cpc \notin {"close", "renameSnapshot", "renameWal"}
  BY <1>1 DEF Inv, WalSound
<1>3. UNCHANGED <<cpc, unopened>>
  BY DEF FlushBatch, FlushLands, FlushFails, boundVars
<1>4. cmp'.rotated = cmp.rotated
  BY DEF FlushBatch, FlushLands, FlushFails, StoreBecomes, Inv, Typed, FlowTyped, Cmps
<1>5. wal'.open = wal.open
  BY DEF FlushBatch, FlushLands, FlushFails, Inv, Typed, FlowTyped, Wals
<1>6. wal'.size = Len(Current')
  <2>1. CASE FlushBatch
    <3>1. wal'.size = wal.size /\ Current' = Current
      BY <2>1 DEF FlushBatch, fileVars, Current, Inv, Typed, FlowTyped, Wals
    <3> QED
      BY <1>2, <3>1
  <2>2. CASE FlushLands
    <3>1. Current' = Current \o Frames(wal.batch)
      BY <2>2, FlushLandsTyped DEF Inv
    <3>2. wal'.size = wal.size + Len(wal.batch)
      BY <2>2 DEF FlushLands, Inv, Typed, FlowTyped, Wals
    <3>3. PICK f \in Seq(Frame), c \in Seq(Frame) : f = Frames(wal.batch) /\ c = Current /\ Len(f) = Len(wal.batch)
      BY BatchFrames, CurrentTyped DEF Inv
    <3>4. Current' = c \o f
      BY <3>1, <3>3
    <3>5. wal'.size = wal.size + Len(f)
      BY <3>2, <3>3
    <3>6. wal.size = Len(c)
      BY <1>2, <3>3
    <3> QED
      BY <3>4, <3>5, <3>6
  <2>3. CASE \E n \in 0..Len(wal.batch), torn \in BOOLEAN : FlushFails(n, torn)
    <3>1. PICK n \in 0..Len(wal.batch), torn \in BOOLEAN : FlushFails(n, torn)
      BY <2>3
    <3>2. PICK t \in Seq(Frame) :
            /\ Current' = Current \o (SubSeq(Frames(wal.batch), 1, n) \o t)
            /\ wal' = [wal EXCEPT !.batch = <<>>,
                         !.size = wal.size + Len(SubSeq(Frames(wal.batch), 1, n) \o t)]
      BY <3>1, FlushFailsTyped DEF Inv
    <3>3. n \in 0..Len(wal.batch)
      <4>1. Len(wal.batch) \in Nat
        BY PendTyped DEF Inv
      <4> QED
        BY <4>1
    <3>4. PICK f \in Seq(Frame), c \in Seq(Frame) : f = SubSeq(Frames(wal.batch), 1, n) /\ c = Current
      BY <3>3, BatchFrames, CurrentTyped DEF Inv
    <3>5. PICK g \in Seq(Frame) : g = f \o t
      <4>1. f \o t \in Seq(Frame)
        OBVIOUS
      <4> QED
        BY <4>1
    <3>6. wal'.size = wal.size + Len(g) /\ Current' = c \o g
      BY <3>2, <3>4, <3>5 DEF Inv, Typed, FlowTyped, Wals
    <3> QED
      BY <1>2, <3>4, <3>6
  <2> QED
    BY <2>1, <2>2, <2>3
<1>7. WalSound'
  BY <1>2, <1>3, <1>4, <1>5, <1>6, WalStays DEF Inv
<1> QED
  BY <1>2, <1>7

\* Copies and snapshot entries leave the log alone.
LEMMA EntryWal ==
  ASSUME Inv, (\E k \in Keys : SnapshotEntry(k)) \/ PreCopy \/ DrainCopy
  PROVE  WalSound' /\ Current' = Current /\ Old' = Old
<1>1. UNCHANGED <<cpc, unopened, wal, walAt, reader>>
  BY DEF SnapshotEntry, PreCopy, DrainCopy, CopyTail, boundVars
<1>2. cmp'.rotated = cmp.rotated
  BY DEF SnapshotEntry, PreCopy, DrainCopy, Inv, Typed, FlowTyped, Cmps
<1>3. Current' = Current /\ Old' = Old
  <2>1. CASE \E k \in Keys : SnapshotEntry(k)
    BY <2>1 DEF SnapshotEntry, Current, Old
  <2>2. CASE PreCopy \/ DrainCopy
    <3>1. cpc \in {"precopy", "drain"}
      BY <2>2 DEF PreCopy, DrainCopy
    <3>2. walAt < cmp.n /\ reader.wal < cmp.n
      BY <3>1 DEF Inv, FileSound, Ahead
    <3>3. cmp.n \in Nat /\ walAt \in Nat /\ reader.wal \in Nat /\ walAt \in Numbers /\ reader.wal \in Numbers
      BY DEF Inv, Typed, FilesTyped, FlowTyped, Cmps, Numbers
    <3>4. walAt # cmp.n /\ reader.wal # cmp.n
      BY <3>2, <3>3
    <3>5. \A g : walFile' = [walFile EXCEPT ![cmp.n] = g] => walFile'[walAt] = walFile[walAt] /\ walFile'[reader.wal] = walFile[reader.wal]
      BY <3>3, <3>4 DEF Inv, Typed, FilesTyped
    <3>6. \E g : walFile' = [walFile EXCEPT ![cmp.n] = g]
      BY <2>2 DEF PreCopy, DrainCopy, CopyTail
    <3> QED
      BY <1>1, <3>5, <3>6 DEF Current, Old
  <2> QED
    BY <2>1, <2>2
<1>4. (Drained' /\ Drained) \/ (~Drained' /\ ~Drained)
  BY <1>1 DEF Drained
<1> QED
  BY <1>1, <1>2, <1>3, <1>4, WalStays DEF Inv

\* A step of the compaction finds the log as it needs it.
LEMMA MovesWal ==
  ASSUME Inv, Orderly,
         \/ StartCompaction \/ Fence \/ SnapshotDone \/ Rotate \/ DrainDone \/ CloseWal
         \/ RenameSnapshot \/ RenameWal \/ SwapWal
  PROVE  WalSound'
<1>1. WalSound /\ ControlSound /\ wal \in Wals /\ cmp \in Cmps
  BY DEF Inv, Typed, FlowTyped
<1>2. UNCHANGED <<walFile, unopened, reader>>
  BY DEF StartCompaction, Fence, SnapshotDone, Rotate, DrainDone, CloseWal, RenameSnapshot, RenameWal, SwapWal,
         fileVars, boundVars
<1>3. CASE StartCompaction \/ Fence \/ SnapshotDone
  <2>1. /\ UNCHANGED <<wal, walAt>> /\ cpc \in {"idle", "fence", "snapshot"}
        /\ cpc' \in {"fence", "snapshot", "precopy"} /\ ~unopened
    BY <1>1, <1>3 DEF StartCompaction, Fence, SnapshotDone, Goto, fileVars, Orderly, ControlSound
  <2> QED
    BY <1>1, <1>2, <2>1 DEF WalSound, Ahead, Drained, Current
<1>4. CASE Rotate
  <2>1. cpc = "precopy" /\ cpc' = "drain" /\ UNCHANGED <<walAt, cmp>> /\ ~unopened
    BY <1>1, <1>4 DEF Rotate, Goto, fileVars, ControlSound
  <2>2. wal'.open = wal.open /\ wal'.size = wal.size /\ wal'.batch = wal.batch /\ wal'.queue = wal.queue
    BY <1>1, <1>4 DEF Rotate, Wals
  <2> QED
    BY <1>1, <1>2, <2>1, <2>2 DEF WalSound, Ahead, Drained, Current
<1>5. CASE DrainDone \/ CloseWal \/ RenameSnapshot
  <2>1. /\ UNCHANGED <<walAt, cmp>> /\ cpc \in {"drain", "close", "renameSnapshot"} /\ ~unopened
        /\ cpc' \in {"close", "renameSnapshot", "renameWal"}
    BY <1>1, <1>5 DEF DrainDone, CloseWal, RenameSnapshot, SnapshotFirst, Goto, fileVars, ControlSound
  <2>2. wal'.open = wal.open /\ wal'.size = wal.size /\ wal'.batch = wal.batch /\ wal'.queue = wal.queue
    BY <1>1, <1>5 DEF DrainDone, CloseWal, RenameSnapshot, Wals
  <2>3. Drained
    BY <1>1, <1>5 DEF WalSound, DrainDone, CloseWal, RenameSnapshot
  <2> QED
    BY <1>1, <1>2, <2>1, <2>2, <2>3 DEF WalSound, Ahead, Drained, Current
<1>6. CASE RenameWal
  <2>1. /\ cpc = "renameWal" /\ cpc' = "swap" /\ UNCHANGED wal /\ ~unopened
    BY <1>1, <1>6 DEF RenameWal, Goto, ControlSound
  <2>2. Drained
    BY <1>1, <2>1 DEF WalSound
  <2> QED
    BY <1>1, <1>2, <2>1, <2>2 DEF WalSound, Ahead, Drained
<1>7. CASE SwapWal
  <2>1. cpc' = "open" /\ wal'.batch = <<>> /\ wal'.queue = <<>>
    BY <1>7 DEF SwapWal, Goto, NewWal
  <2> QED
    BY <2>1 DEF WalSound, Ahead, Drained
<1> QED
  BY <1>3, <1>4, <1>5, <1>6, <1>7

\* The ends of a compaction leave an open log, or none.
LEMMA EndsWal ==
  ASSUME Inv, Orderly,
         \/ FinishCompaction \/ RollForward \/ CompactionThrows \/ RollForwardFails
         \/ \E n \in 0..Len(wal.batch) : Crash(n)
  PROVE  WalSound'
<1>1. WalSound /\ ControlSound /\ wal \in Wals /\ cmp \in Cmps /\ Typed
  BY DEF Inv, Typed, FlowTyped
<1>2. CASE FinishCompaction \/ RollForward
  <2>1. /\ cpc' = "idle" /\ ~cmp'.rotated /\ UNCHANGED <<walFile, walAt, unopened>>
        /\ wal'.open /\ wal'.size = Len(Current) /\ wal'.batch = wal.batch /\ wal'.queue = wal.queue /\ Drained
    BY <1>2, EndTyped DEF boundVars
  <2> QED
    BY <2>1 DEF WalSound, Ahead, Drained, Current
<1>3. CASE CompactionThrows
  <2>1. /\ UNCHANGED <<walFile, walAt, unopened>>
        /\ \/ /\ Rotating /\ cpc' = "rollback" /\ UNCHANGED <<cmp, lock, wpc>>
              /\ wal' = [wal EXCEPT !.closed = TRUE]
           \/ /\ cpc \in {"fence", "snapshot", "precopy"} /\ Unlock /\ UNCHANGED wal
    BY <1>1, <1>3, ThrowsTyped DEF fileVars
  <2>2. CASE /\ Rotating /\ cpc' = "rollback" /\ UNCHANGED <<cmp, lock, wpc>>
             /\ wal' = [wal EXCEPT !.closed = TRUE]
    <3>1. wal'.open = wal.open /\ wal'.size = wal.size /\ wal'.batch = wal.batch /\ wal'.queue = wal.queue
      BY <1>1, <2>2 DEF Wals
    <3>2. cpc \in {"swap", "open"} <=> (Rotating /\ cmp.rotated)
      BY <1>1 DEF Rotating, ControlSound
    <3>3. ~unopened
      BY <1>1, <2>2 DEF Rotating, ControlSound
    <3> QED
      BY <1>1, <2>1, <2>2, <3>1, <3>2, <3>3 DEF WalSound, Ahead, Rotating, Drained, Current
  <2>3. CASE /\ cpc \in {"fence", "snapshot", "precopy"} /\ Unlock /\ UNCHANGED wal
    <3>1. cpc' = "idle"
      BY <2>3 DEF Unlock, Goto
    <3> QED
      BY <1>1, <2>1, <2>3, <3>1 DEF WalSound, Ahead, Drained, Current
  <2> QED
    BY <2>1, <2>2, <2>3
<1>4. CASE RollForwardFails
  <2>1. cpc' = "idle" /\ unopened' = TRUE /\ Drained /\ wal' = wal
    BY <1>4 DEF RollForwardFails, Unlock, Goto
  <2> QED
    BY <2>1 DEF WalSound, Ahead, Drained
<1>5. CASE \E n \in 0..Len(wal.batch) : Crash(n)
  <2>1. PICK n \in 0..Len(wal.batch) : Crash(n)
    BY <1>5
  <2>2. Typed' /\ wal' = NewWal(TRUE, Len(Current')) /\ cpc' = "idle" /\ unopened' = FALSE
    BY <2>1, CrashTyped DEF Crash, Inv
  <2>3. wal'.open /\ wal'.size = Len(Current') /\ wal'.batch = <<>> /\ wal'.queue = <<>>
    BY <2>2 DEF NewWal
  <2> QED
    BY <2>2, <2>3 DEF WalSound, Ahead, Drained
<1> QED
  BY <1>2, <1>3, <1>4, <1>5

-----------------------------------------------------------------------------
(* The files *)

\* A step that writes to no file a compaction will use.
LEMMA FileStays ==
  ASSUME FileSound, UNCHANGED <<snapAt, walAt, reader, cpc, unopened, compactions>>,
         cmp'.n = cmp.n, cmp'.rotated = cmp.rotated,
         \A m \in Numbers : m > compactions => snapFile'[m] = snapFile[m] /\ walFile'[m] = walFile[m],
         cpc = "fence" => snapFile'[cmp.n] = snapFile[cmp.n] /\ walFile'[cmp.n] = walFile[cmp.n]
  PROVE  FileSound'
BY DEF FileSound, Ahead

\* A step that leaves the old and the new log alone.
LEMMA CopyStays ==
  ASSUME CopySound, UNCHANGED cpc, cmp'.n = cmp.n, cmp'.rotated = cmp.rotated,
         cmp'.base = cmp.base, cmp'.copied = cmp.copied,
         Old' = Old, walFile'[cmp.n] = walFile[cmp.n]
  PROVE  CopySound'
BY DEF CopySound, Ahead, Loaded

\* Nothing of the control changes when the store does.
LEMMA StoreBecomesFlow ==
  ASSUME Typed, NEW s, StoreBecomes(s)
  PROVE  /\ cmp'.n = cmp.n /\ cmp'.rotated = cmp.rotated /\ cmp'.base = cmp.base
         /\ cmp'.copied = cmp.copied /\ cmp'.locs = cmp.locs
         /\ cmp'.todo = IF cpc = "snapshot" THEN cmp.todo \cup {k \in Keys : store[k] # None /\ s[k] = None}
                                            ELSE cmp.todo
BY DEF StoreBecomes, Typed, FlowTyped, Cmps

\* The same of the store as it is after the step.
LEMMA StoreChanges ==
  ASSUME Typed, StoreBecomes(store')
  PROVE  /\ cmp'.n = cmp.n /\ cmp'.rotated = cmp.rotated /\ cmp'.base = cmp.base
         /\ cmp'.copied = cmp.copied /\ cmp'.locs = cmp.locs
         /\ cmp'.todo = IF cpc = "snapshot" THEN cmp.todo \cup {k \in Keys : store[k] # None /\ store'[k] = None}
                                            ELSE cmp.todo
BY DEF StoreBecomes, Typed, FlowTyped, Cmps

\* Writers and the queue touch no file.
LEMMA WritersFiles ==
  ASSUME Inv, Orderly, NEW w \in Writers, NEW ops \in OpsSet,
         Call(w) \/ Commit(w, ops) \/ CommitRejected(w, ops) \/ FlushBatch
  PROVE  FileSound' /\ CopySound'
<1>1. UNCHANGED <<fileVars, cpc, unopened, compactions>> /\ Old' = Old
  BY DEF Call, Commit, CommitRejected, FlushBatch, boundVars, fileVars, Old
<1>2. cmp'.n = cmp.n /\ cmp'.rotated = cmp.rotated /\ cmp'.base = cmp.base /\ cmp'.copied = cmp.copied
  <2>1. CASE Call(w) \/ FlushBatch
    BY <2>1 DEF Call, FlushBatch
  <2>2. CASE Commit(w, ops)
    BY <2>2, StoreBecomesFlow DEF Commit, Inv
  <2>3. CASE CommitRejected(w, ops)
    BY <2>3, StoreBecomesFlow DEF CommitRejected, Inv
  <2> QED
    BY <2>1, <2>2, <2>3
<1> QED
  BY <1>1, <1>2, FileStays, CopyStays DEF Inv, fileVars

\* What is written to the log leaves the new files alone and is past what was copied.
LEMMA GrowingFiles ==
  ASSUME Inv, ~Ahead, ~unopened, cpc \notin {"close", "renameSnapshot", "renameWal"},
         UNCHANGED <<snapFile, snapAt, walAt, reader, cpc, unopened, compactions>>,
         cmp'.n = cmp.n, cmp'.rotated = cmp.rotated, cmp'.base = cmp.base, cmp'.copied = cmp.copied,
         NEW f \in Seq(Frame), walFile' = [walFile EXCEPT ![walAt] = Current \o f]
  PROVE  /\ FileSound' /\ CopySound' /\ Old = Current /\ Old' = Old \o f /\ Current' = Current \o f
         /\ Loaded => After(Old, cmp.base)' = After(Old, cmp.base) \o f
<1>1. reader.wal = walAt /\ walAt \in Numbers /\ walFile \in [Numbers -> Seq(Frame)]
  BY DEF Inv, FileSound, Typed, FilesTyped
<1>2. PICK c \in Seq(Frame) : c = Old /\ c = Current
  BY <1>1, CurrentTyped DEF Old, Current, Inv
<1>3. Old' = c \o f /\ Current' = c \o f
  BY <1>1, <1>2 DEF Old, Current
<1>4. compactions \in Nat /\ walAt \in Nat /\ walAt <= compactions /\ cmp.n \in Numbers /\ cmp.n \in Nat
  BY BoundAssumption DEF Inv, FileSound, Typed, FilesTyped, FlowTyped, Cmps, Numbers
<1>5. \A m \in Numbers : m # walAt => walFile'[m] = walFile[m]
  BY <1>1
<1>6. cpc # "idle" => cmp.n # walAt
  BY <1>4 DEF Inv, FileSound
<1>7. FileSound'
  <2>1. \A m \in Numbers : m > compactions => snapFile'[m] = snapFile[m] /\ walFile'[m] = walFile[m]
    BY <1>4, <1>5 DEF Numbers
  <2>2. cpc = "fence" => walFile'[cmp.n] = walFile[cmp.n]
    BY <1>4, <1>5, <1>6
  <2> QED
    BY <2>1, <2>2, FileStays DEF Inv
<1>8. ASSUME Loaded
      PROVE  CopySound' /\ After(Old, cmp.base)' = After(c, cmp.base) \o f
  <2>1. PICK a \in Nat, b \in Nat, l \in Nat : a = cmp.base /\ b = cmp.copied /\ l = Len(c)
    <3>1. cmp.base \in Nat /\ cmp.copied \in Nat /\ Len(c) \in Nat
      BY DEF Inv, Typed, FlowTyped, Cmps
    <3> QED
      BY <3>1
  <2>2. a <= b /\ b <= l /\ walFile[cmp.n] = SubSeq(c, a + 1, b)
    BY <1>2, <1>8, <2>1 DEF Inv, CopySound
  <2>3. SubSeq(c \o f, a + 1, b) = SubSeq(c, a + 1, b) /\ After(c \o f, a) = After(c, a) \o f
    <3>1. a <= b /\ b <= Len(c)
      BY <2>1, <2>2
    <3> QED
      BY <3>1, ConcatParts, SMTT(60)
  <2>4. walFile'[cmp.n] = walFile[cmp.n]
    BY <1>4, <1>5, <1>6, <1>8 DEF Loaded
  <2>5. b <= Len(c \o f)
    <3>1. PICK h : h = c \o f
      OBVIOUS
    <3>2. Len(h) = l + Len(f) /\ Len(f) \in Nat
      BY <2>1, <3>1
    <3> QED
      BY <2>2, <3>1, <3>2
  <2>6. CopySound'
    <3>1. Loaded' /\ ~Ahead' /\ cpc' \notin {"close", "renameSnapshot", "renameWal"}
      BY <1>8 DEF Loaded, Ahead
    <3>2. cmp'.base = a /\ cmp'.copied = b /\ walFile'[cmp'.n] = SubSeq(c \o f, a + 1, b)
      BY <2>1, <2>2, <2>3, <2>4
    <3> QED
      BY <1>3, <2>2, <2>5, <3>1, <3>2 DEF CopySound
  <2>7. After(Old, cmp.base)' = After(c \o f, a)
    BY <1>3, <2>1 DEF After
  <2> QED
    BY <2>1, <2>3, <2>6, <2>7
<1>9. ~Loaded => CopySound'
  BY DEF Loaded, CopySound
<1> QED
  BY <1>2, <1>3, <1>7, <1>8, <1>9

\* A batch that lands is appended to the log that is read.
LEMMA LandsFiles ==
  ASSUME Inv, Orderly, FlushLands
  PROVE  /\ FileSound' /\ CopySound' /\ Old = Current
         /\ Old' = Old \o Frames(wal.batch) /\ Current' = Current \o Frames(wal.batch)
         /\ Loaded => After(Old, cmp.base)' = After(Old, cmp.base) \o Frames(wal.batch)
<1>1. /\ ~Ahead /\ ~unopened /\ cpc \notin {"close", "renameSnapshot", "renameWal"}
  BY LogWal
<1>2. /\ UNCHANGED <<snapFile, snapAt, walAt, reader, cpc, unopened, compactions>>
      /\ walFile' = [walFile EXCEPT ![walAt] = Current \o Frames(wal.batch)]
  BY DEF FlushLands, boundVars, Current
<1>3. PICK f \in Seq(Frame) : f = Frames(wal.batch)
  BY BatchFrames DEF Inv
<1>4. /\ cmp'.n = cmp.n /\ cmp'.rotated = cmp.rotated /\ cmp'.base = cmp.base /\ cmp'.copied = cmp.copied
  BY StoreBecomesFlow DEF FlushLands, Inv
<1> QED
  BY <1>1, <1>2, <1>3, <1>4, GrowingFiles

\* So is the part of a rejected batch that was written, and perhaps a torn frame.
LEMMA FailsFiles ==
  ASSUME Inv, Orderly, NEW n \in 0..Len(wal.batch), NEW torn \in BOOLEAN, FlushFails(n, torn)
  PROVE  /\ FileSound' /\ CopySound' /\ Old = Current
         /\ \E t \in Seq(Frame) :
              /\ \A k : ~Touches(t, k)
              /\ Old' = Old \o (SubSeq(Frames(wal.batch), 1, n) \o t)
              /\ Current' = Current \o (SubSeq(Frames(wal.batch), 1, n) \o t)
              /\ Loaded => After(Old, cmp.base)' = After(Old, cmp.base) \o (SubSeq(Frames(wal.batch), 1, n) \o t)
<1>1. /\ ~Ahead /\ ~unopened /\ cpc \notin {"close", "renameSnapshot", "renameWal"}
  BY LogWal
<1>2. PICK t \in Seq(Frame) :
        /\ \A k : ~Touches(t, k)
        /\ Current' = Current \o (SubSeq(Frames(wal.batch), 1, n) \o t)
  BY FlushFailsTyped DEF Inv
<1>3. n \in 0..Len(wal.batch)
  <2>1. Len(wal.batch) \in Nat
    BY PendTyped DEF Inv
  <2> QED
    BY <2>1
<1>4. PICK f \in Seq(Frame) : f = SubSeq(Frames(wal.batch), 1, n)
  BY <1>3, BatchFrames DEF Inv
<1>5. PICK g \in Seq(Frame) : g = f \o t
  <2>1. f \o t \in Seq(Frame)
    OBVIOUS
  <2> QED
    BY <2>1
<1>6. /\ UNCHANGED <<snapFile, snapAt, walAt, reader, cpc, unopened, compactions>>
      /\ \E h : walFile' = [walFile EXCEPT ![walAt] = h]
  BY DEF FlushFails
<1>7. walFile' = [walFile EXCEPT ![walAt] = Current \o g]
  <2>1. Current' = Current \o g
    BY <1>2, <1>4, <1>5
  <2> QED
    BY <1>6, <2>1 DEF Current, Inv, Typed, FilesTyped
<1>8. cmp'.n = cmp.n /\ cmp'.rotated = cmp.rotated /\ cmp'.base = cmp.base /\ cmp'.copied = cmp.copied
  BY StoreBecomesFlow, FlushFailsTyped DEF Inv
<1>9. /\ FileSound' /\ CopySound' /\ Old = Current /\ Old' = Old \o g /\ Current' = Current \o g
      /\ Loaded => After(Old, cmp.base)' = After(Old, cmp.base) \o g
  BY <1>1, <1>6, <1>7, <1>8, GrowingFiles
<1> QED
  BY <1>2, <1>4, <1>5, <1>9

\* A snapshot entry goes to a file nobody reads yet.
LEMMA EntryFiles ==
  ASSUME Inv, NEW k \in Keys, SnapshotEntry(k)
  PROVE  FileSound' /\ CopySound' /\ snapFile'[snapAt] = snapFile[snapAt] /\ snapFile'[reader.snap] = snapFile[reader.snap]
<1>1. cpc = "snapshot"
  BY DEF SnapshotEntry
<1>2. /\ \E e : snapFile' = [snapFile EXCEPT ![cmp.n] = Append(snapFile[cmp.n], e)]
      /\ cmp'.base = cmp.base /\ cmp'.copied = cmp.copied
      /\ cmp'.n = cmp.n /\ cmp'.rotated = cmp.rotated
      /\ UNCHANGED <<walFile, snapAt, walAt, reader, cpc, boundVars>>
  BY EntryTyped DEF Inv, KeysSound
<1>3. cmp.n = compactions /\ reader.snap < cmp.n /\ snapAt < cmp.n
  BY <1>1 DEF Inv, FileSound
<1>4. /\ snapFile \in [Numbers -> Seq(Frame)] /\ reader.snap \in Numbers /\ snapAt \in Numbers /\ cmp.n \in Numbers
      /\ reader.snap \in Nat /\ snapAt \in Nat /\ cmp.n \in Nat
  BY BoundAssumption DEF Inv, Typed, FilesTyped, FlowTyped, Cmps, Numbers
<1>5. \A m \in Numbers : m # cmp.n => snapFile'[m] = snapFile[m]
  BY <1>2, <1>4
<1>6. FileSound'
  <2>1. \A m \in Numbers : m > compactions => snapFile'[m] = snapFile[m] /\ walFile'[m] = walFile[m]
    BY <1>2, <1>3, <1>4, <1>5 DEF Numbers
  <2> QED
    BY <1>1, <1>2, <2>1, FileStays DEF Inv, boundVars
<1>7. CopySound'
  BY <1>2, CopyStays DEF Inv, Old
<1> QED
  BY <1>3, <1>4, <1>5, <1>6, <1>7

\* A copy goes to a file nobody reads yet, and continues where the last one ended.
LEMMA CopyFiles ==
  ASSUME Inv, PreCopy \/ DrainCopy
  PROVE  FileSound' /\ CopySound' /\ Old' = Old /\ Current' = Current
<1>1. cpc \in {"precopy", "drain"} /\ Drained
  BY DEF PreCopy, DrainCopy
<1>2. Loaded /\ ~Ahead /\ ~unopened /\ Old = Current /\ wal.size = Len(Current)
  <2>1. Loaded /\ ~Ahead /\ ~unopened
    BY <1>1 DEF Loaded, Ahead, Inv, ControlSound
  <2> QED
    BY <2>1 DEF Inv, WalSound, FileSound, Old, Current
<1>3. PICK a \in Nat, b \in Nat, l \in Nat : a = cmp.base /\ b = cmp.copied /\ l = Len(Old)
  <2>1. cmp.base \in Nat /\ cmp.copied \in Nat /\ Len(Old) \in Nat
    BY CurrentTyped DEF Inv, Typed, FlowTyped, Cmps
  <2> QED
    BY <2>1
<1>4. a <= b /\ b <= l /\ walFile[cmp.n] = SubSeq(Old, a + 1, b)
  BY <1>2, <1>3 DEF Inv, CopySound
<1>5. Old' = Old /\ Current' = Current
  BY EntryWal
<1>6. /\ cmp'.copied = l /\ cmp'.base = a /\ cmp'.n = cmp.n /\ cmp'.rotated = cmp.rotated
      /\ walFile' = [walFile EXCEPT ![cmp.n] = walFile[cmp.n] \o SubSeq(Old, b + 1, l)]
      /\ UNCHANGED <<snapFile, snapAt, walAt, reader, cpc, boundVars>>
  <2>1. wal.size <= Len(Current) /\ cmp.copied <= Len(Current)
    BY <1>2, <1>3, <1>4
  <2> QED
    BY <1>2, <1>3, <2>1, CopyTyped DEF Inv
<1>7. walFile'[cmp.n] = SubSeq(Old, a + 1, l)
  <2>1. PICK c \in Seq(Frame) : c = Old
    BY CurrentTyped DEF Inv
  <2>2. SubSeq(c, a + 1, b) \o SubSeq(c, b + 1, l) = SubSeq(c, a + 1, l)
    <3>1. a <= b /\ b <= Len(c)
      BY <1>3, <1>4, <2>1
    <3>2. SubSeq(c, a + 1, b) \o After(c, b) = After(c, a)
      BY <3>1, CopyOn, Zenon
    <3> QED
      BY <1>3, <2>1, <3>2 DEF After
  <2>3. walFile'[cmp.n] = walFile[cmp.n] \o SubSeq(Old, b + 1, l)
    BY <1>6 DEF Inv, Typed, FilesTyped, FlowTyped, Cmps
  <2> QED
    BY <1>4, <2>1, <2>2, <2>3
<1>8. CopySound'
  <2>1. a <= l /\ l <= l
    BY <1>4
  <2>2. /\ cmp'.base <= cmp'.copied /\ cmp'.copied <= Len(Old') /\ cmp'.copied = Len(Old')
        /\ walFile'[cmp'.n] = SubSeq(Old', cmp'.base + 1, cmp'.copied)
    BY <1>3, <1>5, <1>6, <1>7, <2>1
  <2> QED
    BY <2>2 DEF CopySound
<1>9. FileSound'
  <2>1. cmp.n = compactions /\ cmp.n \in Nat /\ walFile \in [Numbers -> Seq(Frame)]
    BY <1>1 DEF Inv, FileSound, Typed, FilesTyped, FlowTyped, Cmps, Numbers
  <2>2. \A m \in Numbers : m > compactions => m # cmp.n
    BY <2>1 DEF Numbers
  <2>3. \A m \in Numbers : m # cmp.n => walFile'[m] = walFile[m]
    BY <1>6, <2>1
  <2> QED
    BY <1>1, <1>6, <2>2, <2>3, FileStays DEF Inv, boundVars
<1> QED
  BY <1>5, <1>8, <1>9

\* The steps of a compaction from its fence to the swap of the log.
LEMMA MovesFiles ==
  ASSUME Inv, Orderly,
         \/ StartCompaction \/ Fence \/ SnapshotDone \/ Rotate \/ DrainDone \/ CloseWal
         \/ RenameSnapshot \/ RenameWal \/ SwapWal
  PROVE  FileSound' /\ CopySound'
<1>1. FileSound /\ CopySound /\ ControlSound /\ WalSound /\ Typed
  BY DEF Inv
<1>2. UNCHANGED <<snapFile, walFile, reader, unopened>>
  BY DEF StartCompaction, Fence, SnapshotDone, Rotate, DrainDone, CloseWal, RenameSnapshot, RenameWal, SwapWal,
         fileVars, boundVars
<1>3. /\ compactions \in Nat /\ snapAt \in Nat /\ walAt \in Nat /\ reader.wal \in Nat /\ reader.snap \in Nat
      /\ cmp.n \in Nat /\ Numbers \subseteq Nat
  BY <1>1, BoundAssumption DEF Typed, FilesTyped, FlowTyped, Cmps, Numbers
<1>4. CASE StartCompaction
  <2>1. /\ cpc = "idle" /\ cpc' = "fence" /\ ~unopened /\ cmp'.n = compactions' /\ compactions' = compactions + 1
        /\ compactions' \in Numbers /\ UNCHANGED <<snapAt, walAt>>
    <3>1. Typed' /\ cmp'.n = compactions' /\ compactions' = compactions + 1
      BY <1>1, <1>4, StartTyped
    <3> QED
      BY <1>4, <3>1 DEF StartCompaction, Goto, Orderly, fileVars, Typed, FlowTyped
  <2>2. snapFile[cmp'.n] = <<>> /\ walFile[cmp'.n] = <<>>
    <3>1. cmp'.n \in Numbers /\ cmp'.n > compactions
      BY <1>3, <2>1
    <3> QED
      BY <1>1, <3>1 DEF FileSound
  <2>3. \A m \in Numbers : m > compactions' => snapFile[m] = <<>> /\ walFile[m] = <<>>
    <3>1. \A m \in Numbers : m > compactions' => m > compactions
      BY <1>3, <2>1
    <3> QED
      BY <1>1, <3>1 DEF FileSound
  <2>4. /\ snapAt < compactions' /\ walAt < compactions' /\ reader.snap < compactions' /\ reader.wal < compactions'
        /\ reader.wal = walAt
    BY <1>1, <1>3, <2>1 DEF FileSound, Ahead
  <2>5. /\ snapAt <= compactions' /\ walAt <= compactions' /\ reader.snap <= compactions' /\ reader.wal <= compactions'
    BY <1>3, <2>1, <2>4
  <2>6. ~Ahead' /\ ~Loaded'
    BY <2>1 DEF Ahead, Loaded
  <2> QED
    BY <1>2, <2>1, <2>2, <2>3, <2>4, <2>5, <2>6 DEF FileSound, CopySound
<1>5. CASE Fence
  <2>1. /\ cpc = "fence" /\ cpc' = "snapshot" /\ Drained /\ ~unopened /\ UNCHANGED <<snapAt, walAt, compactions>>
    BY <1>1, <1>5 DEF Fence, Goto, fileVars, boundVars, ControlSound
  <2>2. cmp'.base = wal.size /\ cmp'.copied = wal.size /\ cmp'.n = cmp.n
    BY <1>1, <1>5, FenceTyped
  <2>3. wal.size = Len(Old) /\ walFile[cmp.n] = <<>>
    BY <1>1, <2>1 DEF FileSound, WalSound, Ahead, Old, Current
  <2>4. SubSeq(Old, wal.size + 1, wal.size) = <<>>
    <3>1. PICK n \in Nat : n = wal.size
      BY <1>1 DEF Typed, FlowTyped, Wals
    <3>2. SubSeq(Old, n + 1, n) = <<>>
      <4>1. n + 1 \in Int /\ n \in Int /\ n < n + 1
        BY <3>1
      <4> QED
        BY <4>1, SubSeqEmpty
    <3> QED
      BY <3>1, <3>2
  <2>5. CopySound'
    <3>1. wal.size <= wal.size
      BY <1>1 DEF Typed, FlowTyped, Wals
    <3>2. Old' = Old /\ walFile'[cmp'.n] = <<>>
      BY <1>2, <2>2, <2>3 DEF Old
    <3>3. /\ cmp'.base <= cmp'.copied /\ cmp'.copied <= Len(Old') /\ cmp'.copied = Len(Old')
          /\ walFile'[cmp'.n] = SubSeq(Old', cmp'.base + 1, cmp'.copied)
      BY <2>2, <2>3, <2>4, <3>1, <3>2
    <3> QED
      BY <3>3 DEF CopySound
  <2>6. FileSound'
    BY <1>1, <1>2, <2>1, <2>2 DEF FileSound, Ahead
  <2> QED
    BY <2>5, <2>6
<1>6. CASE SnapshotDone \/ Rotate
  <2>1. /\ cpc \in {"snapshot", "precopy"} /\ cpc' \in {"precopy", "drain"}
        /\ UNCHANGED <<snapAt, walAt, compactions, cmp>>
    BY <1>6 DEF SnapshotDone, Rotate, Goto, fileVars, boundVars
  <2>2. Loaded /\ ~Ahead /\ ~Ahead' /\ Old' = Old /\ ~unopened
    BY <1>1, <1>2, <2>1 DEF Loaded, Ahead, Old, ControlSound
  <2>3. FileSound'
    BY <1>1, <1>2, <2>1, <2>2 DEF FileSound
  <2>4. CopySound'
    BY <1>1, <1>2, <2>1, <2>2 DEF CopySound
  <2> QED
    BY <2>3, <2>4
<1>7. CASE DrainDone \/ CloseWal
  <2>1. /\ cpc \in {"drain", "close"} /\ cpc' \in {"close", "renameSnapshot"}
        /\ UNCHANGED <<snapAt, walAt, compactions, cmp>>
    BY <1>7 DEF DrainDone, CloseWal, Goto, fileVars, boundVars
  <2>2. Loaded /\ ~Ahead /\ ~Ahead' /\ Old' = Old /\ ~unopened
    BY <1>1, <1>2, <2>1 DEF Loaded, Ahead, Old, ControlSound
  <2>3. FileSound'
    BY <1>1, <1>2, <2>1, <2>2 DEF FileSound
  <2>4. cmp.copied = Len(Old)
    <3>1. CASE DrainDone
      BY <1>1, <2>2, <3>1 DEF DrainDone, WalSound, FileSound, Old, Current
    <3>2. CASE CloseWal
      <4>1. cpc = "close"
        BY <3>2 DEF CloseWal
      <4> QED
        BY <1>1, <2>2, <4>1 DEF CopySound
    <3> QED
      BY <1>7, <3>1, <3>2
  <2>5. CopySound'
    BY <1>1, <1>2, <2>1, <2>2, <2>4 DEF CopySound
  <2> QED
    BY <2>3, <2>5
<1>8. CASE RenameSnapshot \/ RenameWal
  <2>1. /\ cpc \in {"renameSnapshot", "renameWal"} /\ cpc' = (IF cpc = "renameSnapshot" THEN "renameWal" ELSE "swap")
        /\ snapAt' = (IF cpc = "renameSnapshot" THEN cmp.n ELSE snapAt)
        /\ walAt' = (IF cpc = "renameWal" THEN cmp.n ELSE walAt)
        /\ cmp'.base = cmp.base /\ cmp'.copied = cmp.copied /\ cmp'.n = cmp.n /\ compactions' = compactions
    BY <1>1, <1>8, RenamesTyped DEF RenameSnapshot, RenameWal, Goto, boundVars
  <2>2. Loaded /\ ~Ahead /\ Old' = Old /\ ~unopened
    BY <1>1, <1>2, <2>1 DEF Loaded, Ahead, Old, ControlSound
  <2>3. cpc' = "swap" <=> Ahead'
    BY <2>1 DEF Ahead
  <2>4. CopySound'
    BY <1>1, <1>2, <2>1, <2>2 DEF CopySound
  <2>5. cmp.n <= compactions /\ cmp.n = compactions
    BY <1>1, <1>3, <2>1 DEF FileSound
  <2>6. FileSound'
    BY <1>1, <1>2, <2>1, <2>2, <2>3, <2>5 DEF FileSound
  <2> QED
    BY <2>4, <2>6
<1>9. CASE SwapWal
  <2>1. cpc = "swap" /\ cpc' = "open" /\ UNCHANGED <<snapAt, walAt, compactions, cmp>>
    BY <1>9 DEF SwapWal, Goto, fileVars, boundVars
  <2>2. Loaded /\ Ahead /\ Ahead' /\ Old' = Old
    BY <1>2, <2>1 DEF Loaded, Ahead, Old
  <2>3. FileSound'
    BY <1>1, <1>2, <2>1, <2>2 DEF FileSound
  <2>4. CopySound'
    BY <1>1, <1>2, <2>1, <2>2 DEF CopySound
  <2> QED
    BY <2>3, <2>4
<1> QED
  BY <1>4, <1>5, <1>6, <1>7, <1>8, <1>9

\* The ends of a compaction.
LEMMA EndsFiles ==
  ASSUME Inv, Orderly,
         \/ FinishCompaction \/ RollForward \/ CompactionThrows \/ RollForwardFails
         \/ \E n \in 0..Len(wal.batch) : Crash(n)
  PROVE  FileSound' /\ CopySound'
<1>1. FileSound /\ CopySound /\ ControlSound /\ WalSound /\ Typed
  BY DEF Inv
<1>2. CASE FinishCompaction \/ RollForward
  <2>1. /\ UNCHANGED <<snapFile, walFile, snapAt, walAt, compactions, unopened>> /\ cpc' = "idle" /\ ~cmp'.rotated
        /\ \/ ~Ahead /\ UNCHANGED reader
           \/ Ahead /\ Remapped
    BY <1>2, EndTyped DEF boundVars
  <2>2. ~unopened
    BY <1>1, <1>2 DEF FinishCompaction, RollForward, ControlSound
  <2>3. reader'.wal = walAt /\ reader'.snap <= compactions /\ reader'.wal <= compactions
    <3>1. CASE ~Ahead /\ UNCHANGED reader
      BY <1>1, <2>2, <3>1 DEF FileSound
    <3>2. CASE Ahead /\ Remapped
      <4>1. reader' = [snap |-> snapAt, wal |-> walAt]
        BY <3>2 DEF Remapped
      <4> QED
        BY <1>1, <4>1 DEF FileSound
    <3> QED
      BY <2>1, <3>1, <3>2
  <2> QED
    BY <1>1, <2>1, <2>2, <2>3 DEF FileSound, CopySound, Loaded, Ahead
<1>3. CASE CompactionThrows
  <2>1. /\ UNCHANGED <<snapFile, walFile, snapAt, walAt, reader, compactions, unopened>>
        /\ \/ /\ Rotating /\ cpc' = "rollback" /\ UNCHANGED cmp
           \/ /\ cpc \in {"fence", "snapshot", "precopy"} /\ Unlock
    BY <1>1, <1>3, ThrowsTyped DEF fileVars
  <2>2. CASE Rotating /\ cpc' = "rollback" /\ UNCHANGED cmp
    <3>1. Ahead <=> Ahead'
      BY <1>1, <2>2 DEF Ahead, Rotating, ControlSound
    <3>2. Loaded /\ ~unopened /\ cpc # "idle"
      BY <1>1, <2>2 DEF Loaded, Rotating, ControlSound
    <3>3. FileSound'
      BY <1>1, <2>1, <2>2, <3>1, <3>2 DEF FileSound
    <3>4. CopySound'
      BY <1>1, <2>1, <2>2, <3>1, <3>2 DEF CopySound, Old
    <3> QED
      BY <3>3, <3>4
  <2>3. CASE cpc \in {"fence", "snapshot", "precopy"} /\ Unlock
    <3>1. cpc' = "idle"
      BY <2>3 DEF Unlock, Goto
    <3>2. ~Ahead /\ ~Ahead' /\ ~Loaded'
      BY <2>3, <3>1 DEF Ahead, Loaded
    <3> QED
      BY <1>1, <2>1, <3>1, <3>2 DEF FileSound, CopySound
  <2> QED
    BY <2>1, <2>2, <2>3
<1>4. CASE RollForwardFails
  <2>1. /\ UNCHANGED <<snapFile, walFile, snapAt, walAt, reader, compactions>> /\ unopened' = TRUE
        /\ cpc' = "idle"
    BY <1>4 DEF RollForwardFails, fileVars, Unlock, Goto
  <2> QED
    BY <1>1, <2>1 DEF FileSound, CopySound, Loaded, Ahead
<1>5. CASE \E n \in 0..Len(wal.batch) : Crash(n)
  <2>1. PICK n \in 0..Len(wal.batch) : Crash(n)
    BY <1>5
  <2>2. /\ \E log : walFile' = [walFile EXCEPT ![walAt] = log]
        /\ reader' = [snap |-> snapAt, wal |-> walAt]
        /\ cpc' = "idle" /\ unopened' = FALSE
        /\ UNCHANGED <<snapFile, snapAt, walAt, compactions>>
    BY <2>1 DEF Crash
  <2>3. walAt <= compactions /\ walAt \in Nat /\ compactions \in Nat /\ Numbers \subseteq Nat
        /\ walFile \in [Numbers -> Seq(Frame)]
    BY <1>1, BoundAssumption DEF FileSound, Typed, FilesTyped, FlowTyped, Numbers
  <2>4. \A m \in Numbers : m > compactions => m # walAt
    BY <2>3
  <2>5. \A m \in Numbers : m > compactions => walFile'[m] = walFile[m]
    BY <2>2, <2>3, <2>4
  <2>6. FileSound'
    BY <1>1, <2>2, <2>5 DEF FileSound, Ahead
  <2>7. CopySound'
    BY <2>2 DEF CopySound, Loaded
  <2> QED
    BY <2>6, <2>7
<1> QED
  BY <1>2, <1>3, <1>4, <1>5

-----------------------------------------------------------------------------
(* The commits on their way *)

\* Steps that leave them alone.
LEMMA QueueStays ==
  ASSUME QueueSound, UNCHANGED <<issued, disk>>, Pend' = Pend, wal'.next = wal.next, wal'.size = wal.size,
         \A j \in DOMAIN Pend : call'[Pend[j]] = call[Pend[j]] /\ wpc'[Pend[j]] = "queued"
  PROVE  QueueSound' /\ Waiting' = Waiting
<1>1. Waiting' = Waiting
  <2>1. [j \in DOMAIN Pend |-> call'[Pend[j]]] = [j \in DOMAIN Pend |-> call[Pend[j]]]
    OBVIOUS
  <2> QED
    BY <2>1 DEF Waiting
<1>2. \A j \in DOMAIN Pend' : wpc'[Pend'[j]] = "queued"
  OBVIOUS
<1>3. disk' => /\ wal'.next = wal'.size + Len(Pend')
               /\ \A j \in DOMAIN Pend' : call'[Pend'[j]].off = wal'.size + j - 1
  BY DEF QueueSound
<1>4. Queued(issued, Waiting)'
  BY <1>1 DEF QueueSound
<1> QED
  BY <1>1, <1>2, <1>3, <1>4 DEF QueueSound

\* Steps that leave none.
LEMMA QueueDrained ==
  ASSUME Typed', Drained', disk' => wal'.next = wal'.size
  PROVE  QueueSound' /\ Waiting' = <<>>
<1>1. Lined(wal.batch, wal.queue, call, Pend, Waiting)'
  BY PendLined
<1>2. Len(Pend') = 0
  BY <1>1 DEF Lined, Drained
<1>3. Waiting' = <<>> /\ DOMAIN Pend' = {} /\ DOMAIN Waiting' = {}
  BY <1>1, <1>2 DEF Lined
<1>4. Queued(issued, Waiting)'
  BY <1>3 DEF Queued
<1>5. disk' => wal'.next = wal'.size + Len(Pend')
  <2>1. wal'.size \in Nat
    BY DEF Typed, FlowTyped, Wals
  <2> QED
    BY <1>2, <2>1
<1> QED
  BY <1>3, <1>4, <1>5 DEF QueueSound

\* Nobody waits for a commit but those who are queued.
LEMMA PendWaits ==
  ASSUME Typed, QueueSound, NEW w \in Writers, wpc[w] # "queued"
  PROVE  \A j \in DOMAIN Pend : Pend[j] # w
BY DEF QueueSound

\* A call changes nothing of what is on its way.
LEMMA CallQueue ==
  ASSUME Inv, NEW w \in Writers, Call(w)
  PROVE  QueueSound' /\ Waiting' = Waiting
<1>1. \A j \in DOMAIN Pend : Pend[j] # w /\ Pend[j] \in Writers /\ wpc[Pend[j]] = "queued"
  BY PendWaits, PendTyped DEF Call, Inv, QueueSound
<1>2. UNCHANGED <<issued, disk, wal, call>> /\ Pend' = Pend
  BY DEF Call, Pend
<1>3. \A j \in DOMAIN Pend : wpc'[Pend[j]] = "queued"
  BY <1>1 DEF Call, Inv, Typed, FlowTyped
<1> QED
  BY <1>2, <1>3, QueueStays DEF Inv

\* Nor does a rejected commit.
LEMMA RejectedQueue ==
  ASSUME Inv, NEW w \in Writers, NEW ops \in OpsSet, CommitRejected(w, ops)
  PROVE  QueueSound' /\ Waiting' = Waiting
<1>1. \A j \in DOMAIN Pend : Pend[j] # w /\ Pend[j] \in Writers /\ wpc[Pend[j]] = "queued"
  BY PendWaits, PendTyped DEF CommitRejected, Inv, QueueSound
<1>2. UNCHANGED <<issued, disk, wal>> /\ Pend' = Pend
  BY DEF CommitRejected, Pend
<1>3. \A j \in DOMAIN Pend : wpc'[Pend[j]] = "queued" /\ call'[Pend[j]] = call[Pend[j]]
  <2>1. wpc \in [Writers -> Wpcs] /\ call \in [Writers -> Calls]
    BY DEF Inv, Typed, FlowTyped, DataTyped
  <2> QED
    BY <1>1, <2>1 DEF CommitRejected
<1> QED
  BY <1>2, <1>3, QueueStays DEF Inv

\* Nor does the start of a write.
LEMMA BatchQueue ==
  ASSUME Inv, FlushBatch
  PROVE  QueueSound' /\ Waiting' = Waiting
<1>1. wal \in Wals /\ wal.queue \in Seq(Writers) /\ wal.batch = <<>>
  BY DEF Inv, Typed, FlowTyped, Wals, FlushBatch
<1>2. wal'.batch = wal.queue /\ wal'.queue = <<>> /\ wal'.next = wal.next /\ wal'.size = wal.size
  BY <1>1 DEF FlushBatch, Wals
<1>3. wal.queue \o <<>> = <<>> \o wal.queue
  BY <1>1, ConcatEmptySeq, Zenon
<1>4. Pend' = Pend
  BY <1>1, <1>2, <1>3 DEF Pend
<1>5. UNCHANGED <<issued, disk, call, wpc>>
  BY DEF FlushBatch
<1>6. \A j \in DOMAIN Pend : wpc[Pend[j]] = "queued"
  BY DEF Inv, QueueSound
<1> QED
  BY <1>2, <1>4, <1>5, <1>6, QueueStays DEF Inv

\* The compaction leaves the line alone while there is one.
LEMMA MovesQueue ==
  ASSUME Inv, Typed', Orderly,
         \/ StartCompaction \/ Fence \/ SnapshotDone \/ Rotate \/ DrainDone \/ CloseWal
         \/ RenameSnapshot \/ RenameWal \/ SwapWal \/ PreCopy \/ DrainCopy
         \/ \E k \in Keys : SnapshotEntry(k)
  PROVE  QueueSound' /\ Waiting' = Waiting
<1>1. UNCHANGED <<issued, disk, call, wpc>>
  BY DEF StartCompaction, Fence, SnapshotDone, Rotate, DrainDone, CloseWal, RenameSnapshot, RenameWal,
         SwapWal, PreCopy, DrainCopy, SnapshotEntry, CopyTail
<1>2. CASE ~SwapWal
  <2>1. wal'.batch = wal.batch /\ wal'.queue = wal.queue /\ wal'.next = wal.next /\ wal'.size = wal.size
    BY <1>2 DEF StartCompaction, Fence, SnapshotDone, Rotate, DrainDone, CloseWal, RenameSnapshot, RenameWal,
         PreCopy, DrainCopy, SnapshotEntry, CopyTail, Inv, Typed, FlowTyped, Wals
  <2>2. Pend' = Pend
    BY <2>1 DEF Pend
  <2>3. \A j \in DOMAIN Pend : wpc[Pend[j]] = "queued"
    BY DEF Inv, QueueSound
  <2> QED
    BY <1>1, <2>1, <2>2, <2>3, QueueStays DEF Inv
<1>3. CASE SwapWal
  <2>1. Drained' /\ wal'.next = wal'.size
    BY <1>3 DEF SwapWal, NewWal, Drained
  <2>2. Drained
    BY <1>3 DEF SwapWal, Inv, WalSound, Ahead
  <2>3. Waiting = <<>>
    BY <2>2, PendTyped DEF Inv
  <2> QED
    BY <2>1, <2>3, QueueDrained
<1> QED
  BY <1>2, <1>3

\* Nor do the ends of a compaction, which find nothing on its way.
LEMMA EndsQueue ==
  ASSUME Inv, Typed', Orderly,
         FinishCompaction \/ RollForward \/ CompactionThrows \/ RollForwardFails
  PROVE  QueueSound' /\ Waiting' = Waiting
<1>1. CASE FinishCompaction \/ RollForward
  <2>1. Drained /\ Drained' /\ wal'.next = wal'.size
    BY <1>1, EndTyped DEF Drained
  <2>2. Waiting = <<>>
    BY <2>1, PendTyped DEF Inv
  <2> QED
    BY <2>1, <2>2, QueueDrained
<1>2. CASE CompactionThrows \/ RollForwardFails
  <2>1. UNCHANGED <<issued, disk, call>>
    BY <1>2 DEF CompactionThrows, RollForwardFails
  <2>2. wal'.batch = wal.batch /\ wal'.queue = wal.queue /\ wal'.next = wal.next /\ wal'.size = wal.size
    BY <1>2 DEF CompactionThrows, RollForwardFails, Inv, Typed, FlowTyped, Wals
  <2>3. Pend' = Pend
    BY <2>2 DEF Pend
  <2>4. \A j \in DOMAIN Pend : Pend[j] \in Writers /\ wpc[Pend[j]] = "queued"
    BY PendTyped DEF Inv, QueueSound
  <2>5. UNCHANGED wpc \/ Unlock
    BY <1>2 DEF CompactionThrows, RollForwardFails
  <2>6. \A j \in DOMAIN Pend : wpc'[Pend[j]] = "queued"
    BY <2>4, <2>5 DEF Unlock
  <2> QED
    BY <2>1, <2>2, <2>3, <2>6, QueueStays DEF Inv
<1> QED
  BY <1>1, <1>2

\* After a crash nothing is on its way.
LEMMA CrashQueue ==
  ASSUME Inv, NEW n \in 0..Len(wal.batch), Crash(n)
  PROVE  QueueSound' /\ Waiting' = <<>>
<1>1. Typed' /\ wal' = NewWal(TRUE, Len(Current'))
  BY CrashTyped DEF Inv
<1>2. Drained' /\ wal'.next = wal'.size
  BY <1>1 DEF NewWal, Drained
<1> QED
  BY <1>1, <1>2, QueueDrained

\* After a rejected batch nothing is on its way: only values in memory are rolled back.
LEMMA FailsQueue ==
  ASSUME Inv, Orderly, NEW n \in 0..Len(wal.batch), NEW torn \in BOOLEAN, FlushFails(n, torn)
  PROVE  QueueSound' /\ Waiting' = <<>> /\ ~disk /\ wal.queue = <<>>
<1>1. wal.open
  BY LogWal
<1>2. ~disk /\ wal.queue = <<>>
  BY <1>1 DEF FlushFails, Orderly
<1>3. Typed'
  BY FlushFailsTyped DEF Inv
<1>4. Drained'
  BY <1>2 DEF FlushFails, Drained, Inv, Typed, FlowTyped, Wals
<1>5. disk' = disk
  BY DEF FlushFails
<1> QED
  BY <1>2, <1>3, <1>4, <1>5, QueueDrained

\* One more in the line.
Joins(b, q, c, p, x, w, d, r, y) ==
  /\ q \in Seq(Writers) /\ w \in Writers
  /\ Lined(b, q, c, p, x) /\ Lined(b, Append(q, w), d, r, y)
  /\ \A j \in DOMAIN p : d[p[j]] = c[p[j]]
\* A writer joins the line with its call.
LEMMA LineGrows ==
  ASSUME NEW b, NEW q, NEW c, NEW p, NEW x, NEW w, NEW d, NEW r, NEW y, Joins(b, q, c, p, x, w, d, r, y)
  PROVE  /\ y = Append(x, d[w]) /\ Len(r) = Len(p) + 1 /\ r[Len(p) + 1] = w /\ DOMAIN r = 1..(Len(p) + 1)
         /\ \A j \in DOMAIN p : r[j] = p[j]
         /\ d[w] \in Calls
<1>11. /\ q \in Seq(Writers) /\ w \in Writers /\ Lined(b, q, c, p, x) /\ Lined(b, Append(q, w), d, r, y)
       /\ \A j \in DOMAIN p : d[p[j]] = c[p[j]]
  BY DEF Joins
<1>1. PICK m \in Nat, n \in Nat, l \in Nat : m = Len(b) /\ n = Len(q) /\ l = Len(p) /\ l = m + n
  BY <1>11 DEF Lined
<1>2. PICK s : s = Append(q, w)
  OBVIOUS
<1>3. Len(s) = n + 1 /\ s[n + 1] = w /\ \A j \in 1..n : s[j] = q[j]
  BY <1>1, <1>2, <1>11
<1>4. /\ Len(r) = l + 1 /\ DOMAIN r = 1..(l + 1) /\ DOMAIN p = 1..l
      /\ \A j \in 1..m : r[j] = b[j] /\ p[j] = b[j]
      /\ \A j \in 1..(n + 1) : r[m + j] = s[j]
      /\ \A j \in 1..n : p[m + j] = q[j]
  <2>1. Lined(b, s, d, r, y)
    BY <1>2, <1>11
  <2>2. Len(r) = m + (n + 1) /\ m + (n + 1) = l + 1
    BY <1>1, <1>3, <2>1 DEF Lined
  <2>3. DOMAIN r = 1..(l + 1) /\ Len(r) = l + 1
    BY <2>1, <2>2 DEF Lined
  <2>4. \A j \in 1..m : r[j] = b[j]
    BY <1>1, <2>1 DEF Lined
  <2>5. \A j \in 1..(n + 1) : r[m + j] = s[j]
    BY <1>1, <1>3, <2>1 DEF Lined
  <2>6. DOMAIN p = 1..l /\ (\A j \in 1..m : p[j] = b[j]) /\ (\A j \in 1..n : p[m + j] = q[j])
    BY <1>1, <1>11 DEF Lined
  <2> QED
    BY <2>3, <2>4, <2>5, <2>6
<1>5. r[l + 1] = w
  <2>1. n + 1 \in 1..(n + 1) /\ m + (n + 1) = l + 1
    BY <1>1
  <2> QED
    BY <1>3, <1>4, <2>1
<1>6. \A j \in 1..l : r[j] = p[j]
  <2> SUFFICES ASSUME NEW j \in 1..l
               PROVE  r[j] = p[j]
    OBVIOUS
  <2>1. CASE j <= m
    <3>1. j \in 1..m
      BY <1>1, <2>1
    <3> QED
      BY <1>4, <3>1
  <2>2. CASE ~(j <= m)
    <3>1. PICK i \in 1..n : m + i = j /\ i \in 1..(n + 1)
      <4>1. j - m \in 1..n /\ m + (j - m) = j /\ j - m \in 1..(n + 1)
        BY <1>1, <2>2
      <4> QED
        BY <4>1
    <3>2. r[m + i] = s[i] /\ p[m + i] = q[i] /\ s[i] = q[i]
      BY <1>3, <1>4, <3>1
    <3> QED
      BY <3>1, <3>2
  <2> QED
    BY <2>1, <2>2
<1>7. /\ x \in Seq(Calls) /\ Len(x) = l /\ y \in Seq(Calls) /\ Len(y) = l + 1
      /\ \A j \in 1..l : x[j] = c[p[j]]
      /\ \A j \in 1..(l + 1) : y[j] = d[r[j]]
  BY <1>1, <1>4, <1>11 DEF Lined
<1>8. d[w] \in Calls /\ y[l + 1] = d[w]
  <2>1. l + 1 \in 1..(l + 1)
    BY <1>1
  <2> QED
    BY <1>5, <1>7, <2>1
<1>9. \A j \in 1..l : y[j] = x[j]
  BY <1>4, <1>6, <1>7, <1>11
<1>10. y = Append(x, d[w])
  <2>1. PICK z : z = Append(x, d[w])
    OBVIOUS
  <2>2. z \in Seq(Calls) /\ Len(z) = l + 1 /\ z[l + 1] = d[w] /\ \A j \in 1..l : z[j] = x[j]
    BY <1>7, <1>8, <2>1
  <2>3. \A j \in 1..(l + 1) : z[j] = y[j]
    <3>1. \A j \in 1..(l + 1) : j \in 1..l \/ j = l + 1
      BY <1>1
    <3> QED
      BY <1>8, <1>9, <2>2, <3>1
  <2> QED
    BY <1>7, <2>1, <2>2, <2>3, SeqEqual
<1> QED
  BY <1>1, <1>4, <1>5, <1>6, <1>8, <1>10

\* The calls of those in line p behind the first n stay the same.
KeepsFrom(n, p, c, d) == \A j \in (n + 1)..Len(p) : d[p[j]] = c[p[j]]

\* The head of the line leaves it.
LEMMA LineShrinks ==
  ASSUME NEW b, NEW q, NEW c, NEW p, NEW x, Lined(b, q, c, p, x),
         NEW d, NEW r, NEW y, Lined(<<>>, q, d, r, y),
         KeepsFrom(Len(b), p, c, d)
  PROVE  /\ y \in Seq(Calls) /\ Len(y) = Len(x) - Len(b) /\ Len(r) = Len(p) - Len(b) /\ DOMAIN r = 1..Len(r)
         /\ \A j \in 1..Len(r) : r[j] = p[Len(b) + j] /\ y[j] = x[Len(b) + j]
<1>1. PICK m \in Nat, n \in Nat, l \in Nat : m = Len(b) /\ n = Len(q) /\ l = Len(p) /\ l = m + n
  BY DEF Lined
<1>2. Len(<<>>) = 0
  OBVIOUS
<1>3. /\ Len(r) = n /\ DOMAIN r = 1..n /\ Len(y) = n /\ y \in Seq(Calls) /\ Len(x) = l
      /\ \A j \in 1..n : r[0 + j] = q[j] /\ p[m + j] = q[j] /\ y[j] = d[r[j]]
      /\ \A j \in 1..l : x[j] = c[p[j]]
  BY <1>1, <1>2 DEF Lined
<1>4. \A j \in 1..n : r[j] = p[m + j] /\ y[j] = x[m + j]
  <2> SUFFICES ASSUME NEW j \in 1..n
               PROVE  r[j] = p[m + j] /\ y[j] = x[m + j]
    OBVIOUS
  <2>1. 0 + j = j /\ m + j \in 1..l /\ m + j \in (m + 1)..l
    BY <1>1
  <2>2. r[j] = p[m + j]
    BY <1>3, <2>1
  <2>3. d[p[m + j]] = c[p[m + j]] /\ x[m + j] = c[p[m + j]]
    BY <1>1, <1>3, <2>1 DEF KeepsFrom
  <2> QED
    BY <1>3, <2>2, <2>3
<1> QED
  BY <1>1, <1>3, <1>4

\* They are still the last commits, in their order.
LEMMA QueuedGrows ==
  ASSUME NEW iss \in Seq(OpsSet), NEW p \in Seq(Calls), Queued(iss, p), NEW c \in Calls,
         c.id = Len(iss) + 1, DOMAIN c.prev = DOMAIN c.ops
  PROVE  Queued(Append(iss, c.ops), Append(p, c))
<1>1. PICK m \in Nat, n \in Nat : m = Len(iss) /\ n = Len(p)
  OBVIOUS
<1>2. PICK t, q : t = Append(iss, c.ops) /\ q = Append(p, c)
  OBVIOUS
<1>3. /\ Len(t) = m + 1 /\ t[m + 1] = c.ops /\ \A j \in 1..m : t[j] = iss[j]
      /\ DOMAIN p = 1..n /\ DOMAIN q = 1..(n + 1) /\ q[n + 1] = c /\ \A j \in 1..n : q[j] = p[j]
  BY <1>1, <1>2 DEF Calls
<1>4. /\ \A i, j \in 1..n : i < j => p[i].id < p[j].id
      /\ \A j \in 1..n : p[j].id \in 1..m /\ p[j].ops = iss[p[j].id] /\ DOMAIN p[j].prev = DOMAIN p[j].ops
  BY <1>1, <1>3 DEF Queued
<1>5. \A j \in 1..(n + 1) : j \in 1..n \/ j = n + 1
  BY <1>1
<1>6. \A i, j \in 1..(n + 1) : i < j => q[i].id < q[j].id
  <2> SUFFICES ASSUME NEW i \in 1..(n + 1), NEW j \in 1..(n + 1), i < j
               PROVE  q[i].id < q[j].id
    OBVIOUS
  <2>1. i \in 1..n
    BY <1>1
  <2>2. CASE j \in 1..n
    BY <1>3, <1>4, <2>1, <2>2
  <2>3. CASE j = n + 1
    BY <1>1, <1>3, <1>4, <2>1, <2>3
  <2> QED
    BY <1>5, <2>2, <2>3
<1>7. \A j \in 1..(n + 1) : q[j].id \in 1..(m + 1) /\ q[j].ops = t[q[j].id] /\ DOMAIN q[j].prev = DOMAIN q[j].ops
  <2> SUFFICES ASSUME NEW j \in 1..(n + 1)
               PROVE  q[j].id \in 1..(m + 1) /\ q[j].ops = t[q[j].id] /\ DOMAIN q[j].prev = DOMAIN q[j].ops
    OBVIOUS
  <2>1. CASE j \in 1..n
    <3>1. q[j] = p[j] /\ p[j].id \in 1..m
      BY <1>3, <1>4, <2>1
    <3>2. p[j].id \in 1..(m + 1) /\ t[p[j].id] = iss[p[j].id]
      BY <1>3, <3>1
    <3> QED
      BY <1>4, <2>1, <3>1, <3>2
  <2>2. CASE j = n + 1
    <3>1. q[j] = c /\ c.id = m + 1 /\ m + 1 \in 1..(m + 1)
      BY <1>1, <1>3, <2>2
    <3> QED
      BY <1>3, <3>1
  <2> QED
    BY <1>5, <2>1, <2>2
<1>8. Queued(t, q)
  BY <1>3, <1>6, <1>7 DEF Queued
<1> QED
  BY <1>2, <1>8

\* The calls behind the first n are in order as before.
LEMMA QueuedShrinks ==
  ASSUME NEW iss, NEW p \in Seq(Calls), Queued(iss, p), NEW n \in 0..Len(p),
         NEW q \in Seq(Calls), Len(q) = Len(p) - n, \A j \in 1..Len(q) : q[j] = p[n + j]
  PROVE  Queued(iss, q)
<1>1. PICK l \in Nat : l = Len(p)
  OBVIOUS
<1>2. DOMAIN p = 1..l /\ DOMAIN q = 1..(l - n) /\ Len(q) = l - n
  BY <1>1
<1>3. \A j \in 1..(l - n) : q[j] = p[n + j] /\ n + j \in 1..l
  BY <1>1, <1>2
<1>4. \A i, j \in 1..(l - n) : i < j => n + i < n + j
  BY <1>1
<1>5. \A i, j \in DOMAIN q : i < j => q[i].id < q[j].id
  <2> SUFFICES ASSUME NEW i \in 1..(l - n), NEW j \in 1..(l - n), i < j
               PROVE  q[i].id < q[j].id
    BY <1>2
  <2>1. PICK u \in 1..l, v \in 1..l : u = n + i /\ v = n + j /\ u < v /\ q[i] = p[u] /\ q[j] = p[v]
    BY <1>3, <1>4
  <2> QED
    BY <1>2, <2>1 DEF Queued
<1>6. \A j \in DOMAIN q : /\ q[j].id \in 1..Len(iss) /\ q[j].ops = iss[q[j].id]
                          /\ DOMAIN q[j].prev = DOMAIN q[j].ops
  <2> SUFFICES ASSUME NEW j \in 1..(l - n)
               PROVE  /\ q[j].id \in 1..Len(iss) /\ q[j].ops = iss[q[j].id]
                      /\ DOMAIN q[j].prev = DOMAIN q[j].ops
    BY <1>2
  <2>1. PICK u \in 1..l : q[j] = p[u]
    BY <1>3
  <2> QED
    BY <1>2, <2>1 DEF Queued
<1> QED
  BY <1>5, <1>6 DEF Queued

\* A commit joins what is on its way, as the last.
LEMMA CommitQueue ==
  ASSUME Inv, NEW w \in Writers, NEW ops \in OpsSet, Commit(w, ops)
  PROVE  /\ QueueSound' /\ Waiting' = Append(Waiting, call'[w]) /\ issued' = Append(issued, ops)
         /\ call'[w] \in Calls /\ call'[w].ops = ops /\ call'[w].id = Len(issued) + 1
         /\ call'[w].prev = [k \in DOMAIN ops |-> store[k]]
<1>1. Typed /\ Typed' /\ QueueSound
  BY CommitTyped DEF Inv
<1>2. wal.queue \in Seq(Writers) /\ wal.next \in Nat /\ wal.size \in Nat
  BY <1>1 DEF Typed, FlowTyped, Wals
<1>3. wal'.batch = wal.batch /\ wal'.queue = Append(wal.queue, w) /\ wal'.next = wal.next + 1 /\ wal'.size = wal.size
  BY <1>1 DEF Commit, Typed, FlowTyped, Wals
<1>4. PICK c : c = [ops |-> ops, id |-> Len(issued) + 1, off |-> wal.next, prev |-> [k \in DOMAIN ops |-> store[k]]]
  OBVIOUS
<1>5. /\ call' = [call EXCEPT ![w] = c] /\ wpc' = [wpc EXCEPT ![w] = "queued"]
      /\ issued' = Append(issued, ops) /\ disk' = disk
  BY <1>4 DEF Commit
<1>6. call \in [Writers -> Calls] /\ wpc \in [Writers -> Wpcs]
  BY <1>1 DEF Typed, FlowTyped, DataTyped
<1>7. \A j \in DOMAIN Pend : Pend[j] # w /\ Pend[j] \in Writers /\ wpc[Pend[j]] = "queued"
  <2>1. wpc[w] # "queued"
    BY DEF Commit
  <2> QED
    BY <1>1, <2>1, PendWaits, PendTyped DEF QueueSound
<1>8. \A j \in DOMAIN Pend : call'[Pend[j]] = call[Pend[j]] /\ wpc'[Pend[j]] = "queued"
  BY <1>5, <1>6, <1>7
<1>9. call'[w] = c /\ wpc'[w] = "queued"
  BY <1>5, <1>6
<1>10. /\ Lined(wal.batch, wal.queue, call, Pend, Waiting)
       /\ Lined(wal.batch, Append(wal.queue, w), call', Pend', Waiting')
  <2>1. Lined(wal'.batch, wal'.queue, call', Pend', Waiting')
    BY <1>1, PendLined
  <2> QED
    BY <1>1, <1>3, <2>1, PendLined
<1>11. PICK l \in Nat : l = Len(Pend) /\ DOMAIN Pend = 1..l
  BY <1>1, PendTyped
<1>18. PICK p, r : p = Pend /\ r = Pend'
  OBVIOUS
<1>19. PICK size \in Nat, next \in Nat : size = wal.size /\ next = wal.next /\ wal'.size = size /\ wal'.next = next + 1
  BY <1>2, <1>3
<1>12. /\ Waiting' = Append(Waiting, c) /\ c \in Calls
       /\ Len(r) = l + 1 /\ r[l + 1] = w /\ DOMAIN r = 1..(l + 1) /\ DOMAIN p = 1..l
       /\ \A j \in 1..l : r[j] = p[j]
  <2>1. PICK b, q, e, d, x, y : /\ b = wal.batch /\ q = wal.queue /\ e = call /\ d = call'
                                  /\ x = Waiting /\ y = Waiting'
    OBVIOUS
  <2>2. Lined(b, q, e, p, x) /\ Lined(b, Append(q, w), d, r, y)
    BY <1>10, <1>18, <2>1
  <2>3. \A j \in DOMAIN p : d[p[j]] = e[p[j]]
    BY <1>8, <1>18, <2>1
  <2>4. q \in Seq(Writers)
    BY <1>2, <2>1
  <2>5. /\ y = Append(x, d[w]) /\ Len(r) = Len(p) + 1 /\ r[Len(p) + 1] = w /\ DOMAIN r = 1..(Len(p) + 1)
        /\ \A j \in DOMAIN p : r[j] = p[j]
        /\ d[w] \in Calls
    <3>1. Joins(b, q, e, p, x, w, d, r, y)
      BY <2>2, <2>3, <2>4 DEF Joins
    <3> QED
      BY <3>1, LineGrows
  <2>6. Len(p) = l /\ DOMAIN p = 1..l
    BY <1>11, <1>18
  <2>7. d[w] = c
    BY <1>9, <2>1
  <2> QED
    BY <2>1, <2>5, <2>6, <2>7
<1>13. Queued(issued', Waiting')
  <2>1. /\ Queued(issued, Waiting) /\ Waiting \in Seq(Calls) /\ issued \in Seq(OpsSet)
        /\ c.id = Len(issued) + 1 /\ DOMAIN c.prev = DOMAIN c.ops /\ c.ops = ops
    BY <1>1, <1>4, PendTyped DEF QueueSound, Typed, DataTyped
  <2>2. Queued(Append(issued, c.ops), Append(Waiting, c))
    BY <1>12, <2>1, QueuedGrows
  <2> QED
    BY <1>5, <1>12, <2>1, <2>2
<1>14. \A j \in 1..(l + 1) : j \in 1..l \/ j = l + 1
  BY <1>11
<1>15. \A j \in 1..(l + 1) : wpc'[r[j]] = "queued"
  BY <1>8, <1>9, <1>11, <1>18, <1>12, <1>14
<1>16. ASSUME disk
       PROVE  /\ wal'.next = wal'.size + (l + 1)
              /\ \A j \in 1..(l + 1) : call'[r[j]].off = wal'.size + j - 1
  <2>0. next = size + l
    BY <1>1, <1>11, <1>19, <1>16 DEF QueueSound
  <2>1. \A j \in 1..l : call[p[j]].off = size + j - 1
    BY <1>1, <1>11, <1>18, <1>19, <1>16 DEF QueueSound
  <2>2. wal'.next = wal'.size + (l + 1)
    BY <1>19, <2>0
  <2>3. \A j \in 1..l : call'[r[j]].off = wal'.size + j - 1
    BY <1>19, <1>8, <1>11, <1>18, <1>12, <2>1
  <2>4. call'[r[l + 1]].off = wal'.size + (l + 1) - 1
    <3>1. call'[r[l + 1]].off = next
      BY <1>4, <1>19, <1>9, <1>12
    <3> QED
      BY <1>19, <2>0, <3>1
  <2> QED
    BY <1>14, <2>2, <2>3, <2>4
<1>17. QueueSound'
  BY <1>5, <1>18, <1>12, <1>13, <1>15, <1>16 DEF QueueSound
<1> QED
  BY <1>4, <1>5, <1>9, <1>12, <1>17

\* Frames that land move from the line to the file.
LEMMA SumShifts ==
  ASSUME NEW h \in Nat, NEW l \in Nat, NEW m \in Nat
  PROVE  h + l = (h + m) + (l - m) /\ \A j \in Nat : h + (m + j) - 1 = (h + m) + j - 1
OBVIOUS

\* What lands leaves the line, and nothing else does.
LEMMA LandsQueue ==
  ASSUME Inv, Orderly, FlushLands
  PROVE  /\ QueueSound' /\ issued' = issued
         /\ Waiting' \in Seq(Calls) /\ Len(Waiting') = Len(Waiting) - Len(wal.batch)
         /\ \A j \in 1..Len(Waiting') : Waiting'[j] = Waiting[Len(wal.batch) + j]
<1>1. Typed /\ Typed' /\ QueueSound
  BY FlushLandsTyped DEF Inv
<1>2. wal.queue \in Seq(Writers) /\ wal.next \in Nat /\ wal.size \in Nat
  BY <1>1 DEF Typed, FlowTyped, Wals
<1>18. PICK p : p = Pend
  OBVIOUS
<1>3. PICK m \in Nat, l \in Nat : m = Len(wal.batch) /\ p = Pend /\ l = Len(p) /\ DOMAIN p = 1..l /\ m <= l
  <2>1. PICK n \in Nat, h \in Nat : n = Len(wal.batch) /\ h = Len(wal.queue) /\ Len(Pend) = n + h /\ Len(Pend) \in Nat
                                    /\ DOMAIN Pend = 1..Len(Pend)
    BY <1>1, PendTyped
  <2>2. n <= n + h
    OBVIOUS
  <2> QED
    BY <1>18, <2>1, <2>2
<1>4. wal'.batch = <<>> /\ wal'.queue = wal.queue /\ wal'.next = wal.next /\ wal'.size = wal.size + m
  BY <1>1, <1>3 DEF FlushLands, Typed, FlowTyped, Wals
<1>19. PICK size \in Nat, next \in Nat : size = wal.size /\ next = wal.next /\ wal'.size = size + m /\ wal'.next = next
  BY <1>2, <1>4
<1>5. issued' = issued /\ disk' = disk /\ Done(wal.batch)
  BY DEF FlushLands
<1>6. \A j \in 1..l : Waiting[j] = call[p[j]] /\ p[j] \in Writers /\ wpc[p[j]] = "queued" /\ Waiting[j] \in Calls
  BY <1>1, <1>3, PendTyped DEF QueueSound
<1>7. \A j \in (m + 1)..l : p[j] \notin Elems(wal.batch)
  <2> SUFFICES ASSUME NEW j \in (m + 1)..l, p[j] \in Elems(wal.batch)
               PROVE  FALSE
    OBVIOUS
  <2>1. PICK i \in 1..m : wal.batch[i] = p[j]
    BY <1>1, <1>3 DEF Elems, Typed, FlowTyped, Wals
  <2>2. p[i] = p[j] /\ i \in 1..l /\ j \in 1..l /\ i < j
    <3>1. wal.batch[i] = Pend[i]
      BY <1>1, <1>3, BatchFrames
    <3> QED
      BY <1>3, <2>1, <3>1
  <2>3. Waiting[i].id < Waiting[j].id
    BY <1>1, <1>3, <2>2, PendTyped DEF QueueSound, Queued
  <2>4. Waiting[i] = Waiting[j] /\ Waiting[j].id \in Nat
    BY <1>6, <2>2 DEF Calls
  <2> QED
    BY <2>3, <2>4
<1>8. \A j \in (m + 1)..l : call'[p[j]] = call[p[j]] /\ wpc'[p[j]] = "queued"
  <2>1. \A j \in (m + 1)..l : j \in 1..l
    BY <1>3
  <2> QED
    BY <1>5, <1>6, <1>7, <2>1 DEF Done
<1>9. PICK r : r = Pend'
  OBVIOUS
<1>10. /\ Waiting' \in Seq(Calls) /\ Len(Waiting') = Len(Waiting) - m /\ Len(r) = l - m /\ DOMAIN r = 1..(l - m)
       /\ \A j \in 1..(l - m) : r[j] = p[m + j] /\ Waiting'[j] = Waiting[m + j]
  <2>1. Lined(wal.batch, wal.queue, call, Pend, Waiting) /\ Lined(wal'.batch, wal'.queue, call', Pend', Waiting')
    BY <1>1, PendLined
  <2>2. PICK b, q, e, d, x, y : /\ b = wal.batch /\ q = wal.queue /\ e = call /\ d = call'
                               /\ x = Waiting /\ y = Waiting'
    OBVIOUS
  <2>3. Lined(b, q, e, p, x) /\ Lined(<<>>, q, d, r, y)
    BY <1>3, <1>4, <1>9, <2>1, <2>2
  <2>4. KeepsFrom(Len(b), p, e, d)
    BY <1>3, <1>8, <2>2 DEF KeepsFrom
  <2>5. /\ y \in Seq(Calls) /\ Len(y) = Len(x) - Len(b) /\ Len(r) = Len(p) - Len(b)
        /\ DOMAIN r = 1..Len(r)
        /\ \A j \in 1..Len(r) : r[j] = p[Len(b) + j] /\ y[j] = x[Len(b) + j]
    BY <2>3, <2>4, LineShrinks
  <2>6. Len(b) = m /\ Len(p) = l /\ x = Waiting /\ y = Waiting'
    BY <1>3, <2>2
  <2>7. /\ y \in Seq(Calls) /\ Len(y) = Len(x) - m /\ Len(r) = l - m /\ DOMAIN r = 1..(l - m)
        /\ \A j \in 1..(l - m) : r[j] = p[m + j] /\ y[j] = x[m + j]
    BY <2>5, <2>6, Zenon
  <2> QED
    BY <2>6, <2>7
<1>11. Len(Waiting) = l /\ Waiting \in Seq(Calls)
  BY <1>1, <1>3, PendTyped
<1>12. \A j \in 1..Len(Waiting') : Waiting'[j] = Waiting[m + j]
  BY <1>10, <1>11
<1>13. Queued(issued', Waiting')
  <2>1. m \in 0..Len(Waiting) /\ Queued(issued, Waiting)
    BY <1>1, <1>3, <1>11 DEF QueueSound
  <2> QED
    BY <1>5, <1>10, <1>11, <1>12, <2>1, QueuedShrinks
<1>14. \A j \in 1..(l - m) : m + j \in (m + 1)..l /\ m + j \in 1..l
  BY <1>3
<1>15. \A j \in 1..(l - m) : wpc'[r[j]] = "queued"
  BY <1>8, <1>10, <1>14
<1>16. ASSUME disk
       PROVE  /\ wal'.next = wal'.size + (l - m)
              /\ \A j \in 1..(l - m) : call'[r[j]].off = wal'.size + j - 1
  <2>0. next = size + l
    BY <1>1, <1>3, <1>19, <1>16 DEF QueueSound
  <2>1. \A j \in 1..l : call[p[j]].off = size + j - 1
    BY <1>1, <1>3, <1>19, <1>16 DEF QueueSound
  <2>2. wal'.next = wal'.size + (l - m)
    <3>2. size + l = (size + m) + (l - m)
      BY SumShifts
    <3> QED
      BY <1>19, <2>0, <3>2
  <2>3. \A j \in 1..(l - m) : call'[r[j]].off = size + (m + j) - 1
    BY <1>8, <1>10, <1>14, <2>1
  <2>4. \A j \in 1..(l - m) : size + (m + j) - 1 = wal'.size + j - 1
    <3>1. \A j \in Nat : size + (m + j) - 1 = (size + m) + j - 1
      BY SumShifts
    <3>2. \A j \in 1..(l - m) : j \in Nat
      OBVIOUS
    <3> QED
      BY <1>19, <3>1, <3>2
  <2> QED
    BY <2>2, <2>3, <2>4
<1>17. QueueSound'
  BY <1>5, <1>9, <1>10, <1>13, <1>15, <1>16 DEF QueueSound
<1> QED
  BY <1>3, <1>5, <1>10, <1>12, <1>17

-----------------------------------------------------------------------------
(* What is known of the keys *)

\* What has landed of the first commits on their way, and what the files then yield.
LEMMA LandedSome ==
  ASSUME NEW iss \in Seq(OpsSet), NEW p \in Seq(Calls), Queued(iss, p), NEW n \in 0..Len(p),
         NEW k, NEW a, NEW s \in Seq(Frame), NEW f \in Seq(Frame), NEW g, g = SubSeq(Written(p), 1, n)
  PROVE  /\ g \in Seq(Frame)
         /\ \E x : Landed(iss, p, n, k, a, Replayed(s, f, k), x, Replayed(s, f \o g, k))
<1>1. g \in Seq(Frame) /\ (Touches(g, k) <=> \E j \in 1..n : k \in DOMAIN p[j].ops)
  BY WrittenIs
<1>2. /\ Touches(f \o g, k) <=> Touches(f, k) \/ Touches(g, k)
      /\ LastVal(f \o g, k) = IF Touches(g, k) THEN LastVal(g, k) ELSE LastVal(f, k)
  <2>1. \A h \in Seq(Frame) :
          /\ Touches(f \o h, k) <=> Touches(f, k) \/ Touches(h, k)
          /\ LastVal(f \o h, k) = IF Touches(h, k) THEN LastVal(h, k) ELSE LastVal(f, k)
    BY ConcatTouches
  <2> QED
    BY <1>1, <2>1
<1>3. CASE Touches(g, k)
  <2>1. PICK j \in 1..n : /\ k \in DOMAIN p[j].ops /\ \A i \in 1..n : k \in DOMAIN p[i].ops => i <= j
                          /\ LastVal(g, k) = EffectOf(iss, p[j].id, k)
    BY <1>3, WrittenVal
  <2>2. Replayed(s, f \o g, k) = EffectOf(iss, p[j].id, k)
    BY <1>2, <1>3, <2>1 DEF Replayed
  <2> QED
    BY <1>1, <2>1, <2>2 DEF Landed
<1>4. CASE ~Touches(g, k)
  <2>1. Replayed(s, f \o g, k) = Replayed(s, f, k)
    BY <1>2, <1>4 DEF Replayed
  <2> QED
    BY <1>1, <1>4, <2>1 DEF Landed
<1> QED
  BY <1>3, <1>4

\* Steps that leave them alone.
LEMMA StillKeys ==
  ASSUME Inv, Orderly, Waiting' = Waiting,
         \/ \E w \in Writers : Call(w)
         \/ FlushBatch \/ StartCompaction \/ Rotate \/ DrainDone \/ CloseWal \/ SwapWal
         \/ CompactionThrows \/ RollForwardFails
  PROVE  KeysSound'
<1>1. UNCHANGED <<disk, store, issued, acked, rejected, snapFile, walFile, snapAt, walAt, reader>>
  BY DEF Call, FlushBatch, StartCompaction, Rotate, DrainDone, CloseWal, SwapWal, CompactionThrows,
         RollForwardFails, fileVars, boundVars
<1>2. Loaded' => Loaded /\ cmp' = cmp /\ (cpc' = "snapshot" <=> cpc = "snapshot")
  <2>1. CASE (\E w \in Writers : Call(w)) \/ FlushBatch
    BY <2>1 DEF Call, FlushBatch, Loaded
  <2>2. CASE StartCompaction
    BY <2>2 DEF StartCompaction, Goto, Loaded
  <2>3. CASE Rotate \/ DrainDone \/ CloseWal \/ SwapWal
    BY <2>3 DEF Rotate, DrainDone, CloseWal, SwapWal, Goto, Loaded
  <2>4. CASE CompactionThrows \/ RollForwardFails
    BY <2>4 DEF CompactionThrows, RollForwardFails, Unlock, Rotating, Goto, Loaded
  <2> QED
    BY <2>1, <2>2, <2>3, <2>4
<1>3. KeysSound
  BY DEF Inv
<1>4. Old' = Old /\ Current' = Current
  BY <1>1 DEF Old, Current
<1> QED
  BY <1>1, <1>2, <1>3, <1>4, KeysStay

\* Copies of the log change no value.
LEMMA CopyKeys ==
  ASSUME Inv, Orderly, Waiting' = Waiting, PreCopy \/ DrainCopy
  PROVE  KeysSound'
<1>1. UNCHANGED <<disk, store, issued, acked, rejected, snapFile, snapAt, reader, cpc>>
  BY DEF PreCopy, DrainCopy, CopyTail, boundVars
<1>2. cmp'.base = cmp.base /\ cmp'.n = cmp.n /\ cmp'.todo = cmp.todo /\ cmp'.locs = cmp.locs
  <2>1. cmp \in Cmps
    BY DEF Inv, Typed, FlowTyped
  <2> QED
    BY <2>1 DEF PreCopy, DrainCopy, Cmps
<1>3. Old' = Old /\ Current' = Current
  BY CopyFiles
<1>4. KeysSound
  BY DEF Inv
<1>5. Loaded' => Loaded
  BY <1>1 DEF Loaded
<1> QED
  BY <1>1, <1>2, <1>3, <1>4, <1>5, KeysStay

\* append and apply.
LEMMA CommitKeys ==
  ASSUME Inv, Orderly, NEW w \in Writers, NEW ops \in OpsSet, Commit(w, ops)
  PROVE  KeysSound'
<1>1. /\ Typed /\ Typed' /\ QueueSound /\ ValueSound /\ SnapSound /\ LocSound /\ MemorySound /\ BySound
      /\ store' = Applied(ops, Len(issued) + 1)
  BY CommitTyped DEF Inv, KeysSound
<1>2. PICK c \in Calls : /\ c = call'[w] /\ c.ops = ops /\ c.id = Len(issued) + 1
                         /\ c.prev = [k \in DOMAIN ops |-> store[k]]
                         /\ Waiting' = Append(Waiting, c) /\ issued' = Append(issued, ops)
  BY CommitQueue
<1>3. /\ Waiting \in Seq(Calls) /\ issued \in Seq(OpsSet) /\ Queued(issued, Waiting)
      /\ rejected \in BOOLEAN /\ store \in Stores /\ cmp \in Cmps
  BY <1>1, PendTyped DEF Typed, DataTyped, FlowTyped, QueueSound
<1>4. /\ UNCHANGED <<disk, acked, rejected, snapFile, walFile, snapAt, walAt, reader, cpc>>
      /\ StoreBecomes(store')
  BY <1>1 DEF Commit, fileVars, boundVars
<1>5. /\ cmp'.n = cmp.n /\ cmp'.base = cmp.base /\ cmp'.locs = cmp.locs
      /\ cmp'.todo = IF cpc = "snapshot" THEN cmp.todo \cup {k \in Keys : store[k] # None /\ store'[k] = None}
                                         ELSE cmp.todo
  BY <1>1, <1>4, StoreChanges
<1>6. Old' = Old /\ Current' = Current /\ (Loaded' <=> Loaded)
  BY <1>4 DEF Old, Current, Loaded
<1>7. PICK i \in Nat : i = Len(issued) + 1 /\ i # 0
  <2>1. Len(issued) \in Nat
    BY <1>3
  <2> QED
    BY <2>1
<1>8. ASSUME NEW k \in Keys
      PROVE  /\ k \in DOMAIN ops => /\ Val(store'[k]) = (IF ops[k] = "set" THEN Len(issued) + 1 ELSE 0)
                                    /\ Val(c.prev[k]) = Val(store[k])
                                    /\ store'[k] # None => /\ ops[k] = "set"
                                                           /\ store'[k] = [val |-> i, loc |-> None, by |-> i]
             /\ k \notin DOMAIN ops => store'[k] = store[k]
  BY <1>1, <1>2, <1>3, <1>7, AppliedTyped
<1>9. ValueSound'
  <2> SUFFICES ASSUME NEW k \in Keys
               PROVE  KeyValue(issued', Waiting', k, acked'[k], Val(store'[k]),
                               Replayed(snapFile'[snapAt'], Current', k), rejected')
    BY DEF ValueSound
  <2>1. KeyValue(issued, Waiting, k, acked[k], Val(store[k]), Replayed(snapFile[snapAt], Current, k), rejected)
    BY <1>1 DEF ValueSound
  <2>2. IF k \in DOMAIN ops THEN /\ Val(store'[k]) = (IF ops[k] = "set" THEN Len(issued) + 1 ELSE 0)
                                 /\ Val(c.prev[k]) = Val(store[k])
                            ELSE Val(store'[k]) = Val(store[k])
    BY <1>8
  <2>3. KeyValue(Append(issued, ops), Append(Waiting, c), k, acked[k], Val(store'[k]),
                 Replayed(snapFile[snapAt], Current, k), rejected)
    <3>0. PICK iss \in Seq(OpsSet), p \in Seq(Calls) : iss = issued /\ p = Waiting
      BY <1>3
    <3>1. PICK a, v, d, w0 :
            /\ a = acked[k] /\ v = Val(store[k]) /\ w0 = Val(store'[k])
            /\ d = Replayed(snapFile[snapAt], Current, k)
      OBVIOUS
    <3>2. KeyValue(Append(iss, ops), Append(p, c), k, a, w0, d, rejected)
      <4>1. Queued(iss, p) /\ KeyValue(iss, p, k, a, v, d, rejected) /\ c.id = Len(iss) + 1
        BY <1>2, <1>3, <2>1, <3>0, <3>1
      <4>2. IF k \in DOMAIN ops THEN w0 = (IF ops[k] = "set" THEN Len(iss) + 1 ELSE 0) /\ Val(c.prev[k]) = v
                                ELSE w0 = v
        BY <2>2, <3>0, <3>1
      <4> QED
        BY <1>2, <1>3, <4>1, <4>2, CommitKeepsValue
    <3> QED
      BY <3>0, <3>1, <3>2
  <2> QED
    BY <1>2, <1>4, <1>6, <2>3
<1>10. SnapSound'
  <2> SUFFICES ASSUME Loaded, NEW k \in Keys
               PROVE  KeySnap(issued', Waiting', k, acked'[k], Val(store'[k]), After(Old', cmp'.base), snapFile'[cmp'.n],
                              cpc' = "snapshot", k \in cmp'.todo, rejected')
    BY <1>6 DEF SnapSound
  <2>1. KeySnap(issued, Waiting, k, acked[k], Val(store[k]), After(Old, cmp.base), snapFile[cmp.n],
                cpc = "snapshot", k \in cmp.todo, rejected)
    BY <1>1 DEF SnapSound
  <2>2. /\ (k \in cmp.todo) => (k \in cmp'.todo)
        /\ k \notin DOMAIN ops => Val(store'[k]) = Val(store[k]) /\ (k \in cmp'.todo) = (k \in cmp.todo)
    <3>1. (k \in cmp.todo) => (k \in cmp'.todo)
      BY <1>5
    <3>2. ASSUME k \notin DOMAIN ops
          PROVE  Val(store'[k]) = Val(store[k]) /\ (k \in cmp'.todo) = (k \in cmp.todo)
      <4>1. store'[k] = store[k]
        BY <1>8, <3>2
      <4>2. (k \in cmp'.todo) <=> (k \in cmp.todo)
        BY <1>5, <4>1
      <4> QED
        BY <4>1, <4>2
    <3> QED
      BY <3>1, <3>2
  <2>3. PICK open \in BOOLEAN, todo \in BOOLEAN, later \in BOOLEAN :
          open = (cpc = "snapshot") /\ todo = (k \in cmp.todo) /\ later = (k \in cmp'.todo)
    <3>1. (cpc = "snapshot") \in BOOLEAN /\ (k \in cmp.todo) \in BOOLEAN /\ (k \in cmp'.todo) \in BOOLEAN
      OBVIOUS
    <3> QED
      BY <3>1, Zenon
  <2>4. KeySnap(issued, Waiting, k, acked[k], Val(store[k]), After(Old, cmp.base), snapFile[cmp.n], open, todo, rejected)
    BY <2>1, <2>3
  <2>5. (todo => later) /\ (k \notin DOMAIN ops => Val(store'[k]) = Val(store[k]) /\ later = todo)
    BY <2>2, <2>3
  <2>6. KeySnap(Append(issued, ops), Append(Waiting, c), k, acked[k], Val(store'[k]), After(Old, cmp.base),
                snapFile[cmp.n], open, later, rejected)
    BY <1>2, <1>3, <2>4, <2>5, CommitKeepsSnap
  <2>7. /\ issued' = Append(issued, ops) /\ Waiting' = Append(Waiting, c) /\ acked' = acked
        /\ After(Old', cmp'.base) = After(Old, cmp.base) /\ snapFile'[cmp'.n] = snapFile[cmp.n]
        /\ (cpc' = "snapshot") = open /\ (k \in cmp'.todo) = later /\ rejected' = rejected
    BY <1>2, <1>4, <1>5, <1>6, <2>3
  <2> QED
    BY <2>6, <2>7
<1>11. LocSound'
  <2>1. \A k \in Keys : store'[k] = store[k] \/ store'[k] = None \/ (store'[k] # None /\ store'[k].loc = None)
    BY <1>8
  <2>2. \A k \in Keys : KeyLoc(store'[k], k, Old', snapFile'[reader'.snap])
    BY <1>1, <1>4, <1>6, <2>1 DEF LocSound, KeyLoc
  <2>3. ASSUME Loaded', NEW k \in Keys
        PROVE  KeyMap(store'[k], k, cmp'.base, cmp'.locs[k], snapFile'[cmp'.n], cpc' = "snapshot" /\ k \in cmp'.todo)
    <3>1. KeyMap(store[k], k, cmp.base, cmp.locs[k], snapFile[cmp.n], cpc = "snapshot" /\ k \in cmp.todo)
      BY <1>1, <1>6, <2>3 DEF LocSound
    <3>2. (cpc = "snapshot" /\ k \in cmp.todo) => (cpc' = "snapshot" /\ k \in cmp'.todo)
      BY <1>4, <1>5
    <3>3. CASE store'[k] = store[k]
      BY <1>4, <1>5, <3>1, <3>2, <3>3 DEF KeyMap
    <3>4. CASE store'[k] = None \/ (store'[k] # None /\ store'[k].loc = None)
      BY <3>4 DEF KeyMap
    <3> QED
      BY <2>1, <3>3, <3>4
  <2> QED
    BY <2>2, <2>3 DEF LocSound
<1>12. MemorySound'
  <2> SUFFICES ASSUME ~disk
               PROVE  /\ \A k \in Keys : store'[k] # None => store'[k].loc = None
                      /\ \A j \in DOMAIN Waiting' : \A k \in DOMAIN Waiting'[j].ops :
                           Waiting'[j].prev[k] # None => Waiting'[j].prev[k].loc = None
    BY <1>4 DEF MemorySound
  <2>1. /\ \A k \in Keys : store[k] # None => store[k].loc = None
        /\ \A j \in DOMAIN Waiting : \A k \in DOMAIN Waiting[j].ops :
             Waiting[j].prev[k] # None => Waiting[j].prev[k].loc = None
    BY <1>1 DEF MemorySound
  <2>2. \A k \in Keys : store'[k] # None => store'[k].loc = None
    BY <1>8, <2>1
  <2>8. PICK p, q : p = Waiting /\ q = Waiting'
    OBVIOUS
  <2>9. PICK n \in Nat : n = Len(Waiting)
    BY <1>3
  <2>3. n = Len(Waiting) /\ p = Waiting /\ q = Waiting'
    BY <2>8, <2>9
  <2>4. DOMAIN p = 1..n /\ DOMAIN q = 1..(n + 1) /\ q[n + 1] = c /\ \A j \in 1..n : q[j] = p[j]
    BY <1>2, <1>3, <2>3
  <2>5. \A j \in 1..(n + 1) : j \in 1..n \/ j = n + 1
    BY <2>3
  <2>6. \A k \in DOMAIN ops : k \in Keys /\ c.prev[k] = store[k]
    BY <1>2, OpsDomain
  <2>7. \A j \in DOMAIN q : \A k \in DOMAIN q[j].ops : q[j].prev[k] # None => q[j].prev[k].loc = None
    <3> SUFFICES ASSUME NEW j \in 1..(n + 1), NEW k \in DOMAIN q[j].ops, q[j].prev[k] # None
                 PROVE  q[j].prev[k].loc = None
      BY <2>4
    <3>1. CASE j \in 1..n
      BY <2>1, <2>3, <2>4, <3>1
    <3>2. CASE j = n + 1
      <4>1. q[j] = c /\ k \in DOMAIN ops
        BY <1>2, <2>4, <3>2
      <4> QED
        BY <2>1, <2>6, <4>1
    <3> QED
      BY <2>5, <3>1, <3>2
  <2> QED
    BY <2>2, <2>3, <2>7
<1>13. BySound'
  <2> SUFFICES ASSUME NEW k \in Keys, store'[k] # None, store'[k].by # 0
               PROVE  /\ store'[k].by \in 1..Len(issued') /\ k \in DOMAIN issued'[store'[k].by]
                      /\ issued'[store'[k].by][k] = "set" /\ store'[k].val = store'[k].by
    BY DEF BySound
  <2>5. PICK s, t : s = issued /\ t = issued'
    OBVIOUS
  <2>6. PICK n \in Nat : n = Len(issued)
    BY <1>3
  <2>1. n = Len(issued) /\ s = issued /\ t = issued'
    BY <2>5, <2>6
  <2>2. Len(t) = n + 1 /\ t[n + 1] = ops /\ i = n + 1 /\ \A j \in 1..n : t[j] = s[j]
    BY <1>2, <1>3, <1>7, <2>1
  <2>3. CASE k \in DOMAIN ops
    <3>1. ops[k] = "set" /\ store'[k].by = i /\ store'[k].val = i
      BY <1>8, <2>3
    <3>2. i \in 1..Len(t) /\ t[i] = ops
      BY <2>1, <2>2
    <3> QED
      BY <2>1, <2>3, <3>1, <3>2
  <2>4. CASE k \notin DOMAIN ops
    <3>1. store'[k] = store[k]
      BY <1>8, <2>4
    <3>2. /\ store'[k].by \in 1..n /\ k \in DOMAIN s[store'[k].by]
          /\ s[store'[k].by][k] = "set" /\ store'[k].val = store'[k].by
      BY <1>1, <2>1, <3>1 DEF BySound
    <3>3. store'[k].by \in 1..Len(t)
      BY <2>1, <2>2, <3>2
    <3> QED
      BY <2>1, <2>2, <3>2, <3>3
  <2> QED
    BY <2>3, <2>4
<1> QED
  BY <1>9, <1>10, <1>11, <1>12, <1>13 DEF KeysSound

\* A rejected append changes nothing but the sequence numbers of the records it touched.
LEMMA RejectedKeys ==
  ASSUME Inv, Orderly, NEW w \in Writers, NEW ops \in OpsSet, CommitRejected(w, ops)
  PROVE  KeysSound'
<1>1. /\ Typed /\ Typed' /\ ValueSound /\ SnapSound /\ LocSound /\ MemorySound /\ BySound
      /\ store' = Touched(ops)
  BY RejectedTyped DEF Inv, KeysSound
<1>2. Waiting' = Waiting
  BY RejectedQueue
<1>3. /\ UNCHANGED <<disk, issued, acked, rejected, snapFile, walFile, snapAt, walAt, reader, cpc>>
      /\ StoreBecomes(store')
  BY <1>1 DEF CommitRejected, fileVars, boundVars
<1>4. /\ cmp'.n = cmp.n /\ cmp'.base = cmp.base /\ cmp'.locs = cmp.locs
      /\ cmp'.todo = IF cpc = "snapshot" THEN cmp.todo \cup {k \in Keys : store[k] # None /\ store'[k] = None}
                                         ELSE cmp.todo
  BY <1>1, <1>3, StoreChanges
<1>5. Old' = Old /\ Current' = Current /\ (Loaded' <=> Loaded)
  BY <1>3 DEF Old, Current, Loaded
<1>6. \A k \in Keys : /\ store'[k] = None <=> store[k] = None
                      /\ store[k] # None => /\ store'[k].val = store[k].val /\ store'[k].loc = store[k].loc
                                            /\ store'[k].by = store[k].by \/ store'[k].by = 0
  <2>1. \A k \in Keys :
          /\ \/ Touched(ops)[k] = store[k]
             \/ /\ store[k] # None /\ Touched(ops)[k] # None /\ Touched(ops)[k].by = 0
                /\ Touched(ops)[k].val = store[k].val /\ Touched(ops)[k].loc = store[k].loc
          /\ Touched(ops)[k] = None <=> store[k] = None
    <3>1. Typed
      BY <1>1
    <3>2. PICK t : t = Touched(ops)
      OBVIOUS
    <3>3. \A k \in Keys :
            /\ \/ t[k] = store[k]
               \/ /\ store[k] # None /\ t[k] = [store[k] EXCEPT !.by = 0]
                  /\ t[k] # None /\ t[k].by = 0
                  /\ t[k].val = store[k].val /\ t[k].loc = store[k].loc
            /\ t[k] = None <=> store[k] = None
      BY <3>1, <3>2, TouchedTyped
    <3> QED
      BY <3>2, <3>3
  <2>2. PICK t : t = Touched(ops) /\ t = store'
    BY <1>1
  <2>3. \A k \in Keys :
          /\ \/ t[k] = store[k]
             \/ /\ store[k] # None /\ t[k] # None /\ t[k].by = 0
                /\ t[k].val = store[k].val /\ t[k].loc = store[k].loc
          /\ t[k] = None <=> store[k] = None
    BY <2>1, <2>2
  <2> QED
    BY <2>2, <2>3
<1>7. cmp'.todo = cmp.todo
  BY <1>4, <1>6
<1>8. \A k \in Keys : Val(store'[k]) = Val(store[k])
  BY <1>6 DEF Val
<1>9. ValueSound'
  <2> SUFFICES ASSUME NEW k \in Keys
               PROVE  KeyValue(issued', Waiting', k, acked'[k], Val(store'[k]),
                               Replayed(snapFile'[snapAt'], Current', k), rejected')
    BY DEF ValueSound
  <2> QED
    BY <1>1, <1>2, <1>3, <1>5, <1>8 DEF ValueSound
<1>10. SnapSound'
  <2> SUFFICES ASSUME Loaded, NEW k \in Keys
               PROVE  KeySnap(issued', Waiting', k, acked'[k], Val(store'[k]), After(Old', cmp'.base), snapFile'[cmp'.n],
                              cpc' = "snapshot", k \in cmp'.todo, rejected')
    BY <1>5 DEF SnapSound
  <2>1. KeySnap(issued, Waiting, k, acked[k], Val(store[k]), After(Old, cmp.base), snapFile[cmp.n],
                cpc = "snapshot", k \in cmp.todo, rejected)
    BY <1>1 DEF SnapSound
  <2> QED
    BY <1>2, <1>3, <1>4, <1>5, <1>7, <1>8, <2>1
<1>11. LocSound'
  <2>1. \A k \in Keys : KeyLoc(store'[k], k, Old', snapFile'[reader'.snap])
    BY <1>1, <1>3, <1>5, <1>6 DEF LocSound, KeyLoc
  <2>2. ASSUME Loaded', NEW k \in Keys
        PROVE  KeyMap(store'[k], k, cmp'.base, cmp'.locs[k], snapFile'[cmp'.n], cpc' = "snapshot" /\ k \in cmp'.todo)
    <3>1. KeyMap(store[k], k, cmp.base, cmp.locs[k], snapFile[cmp.n], cpc = "snapshot" /\ k \in cmp.todo)
      BY <1>1, <1>5, <2>2 DEF LocSound
    <3> QED
      BY <1>3, <1>4, <1>6, <1>7, <3>1 DEF KeyMap
  <2> QED
    BY <2>1, <2>2 DEF LocSound
<1>12. MemorySound'
  BY <1>1, <1>2, <1>3, <1>6 DEF MemorySound
<1>13. BySound'
  BY <1>1, <1>3, <1>6 DEF BySound
<1> QED
  BY <1>9, <1>10, <1>11, <1>12, <1>13 DEF KeysSound

\* A write is acknowledged when its frame has landed.
LEMMA AckedIs ==
  ASSUME Inv, FlushLands, NEW k \in Keys, NEW d, NEW x, NEW b,
         Landed(issued, Waiting, Len(wal.batch), k, acked[k], d, x, b)
  PROVE  acked'[k] = x
<1>1. Typed /\ QueueSound /\ ValueSound
  BY DEF Inv, KeysSound
<1>2. PICK m \in Nat : m = Len(wal.batch)
  BY <1>1 DEF Typed, FlowTyped, Wals
<1>3. /\ Waiting \in Seq(Calls) /\ DOMAIN Waiting = 1..Len(Waiting) /\ m <= Len(Waiting) /\ Len(Waiting) \in Nat
      /\ \A j \in 1..m : j \in DOMAIN Waiting /\ wal.batch[j] \in Writers /\ Waiting[j] = call[wal.batch[j]]
  <2>1. Waiting \in Seq(Calls) /\ DOMAIN Waiting = 1..Len(Waiting) /\ Len(Waiting) \in Nat
    BY <1>1, PendTyped
  <2>2. m \in 0..Len(Waiting) /\ \A j \in 1..m : Waiting[j] = call[wal.batch[j]]
    BY <1>1, <1>2, BatchFrames
  <2>3. \A j \in 1..m : wal.batch[j] \in Writers
    BY <1>1, <1>2 DEF Typed, FlowTyped, Wals
  <2> QED
    BY <2>1, <2>2, <2>3
<1>4. PICK ids : ids = {call[w].id : w \in {v \in Elems(wal.batch) : k \in DOMAIN call[v].ops}} \cup {acked[k]}
  OBVIOUS
<1>5. acked'[k] = CHOOSE i \in ids : \A j \in ids : j <= i
  BY <1>4 DEF FlushLands
<1>6. \A i \in ids : i = acked[k] \/ \E j \in 1..m : k \in DOMAIN Waiting[j].ops /\ i = Waiting[j].id
  <2> SUFFICES ASSUME NEW w \in Elems(wal.batch), k \in DOMAIN call[w].ops
               PROVE  \E j \in 1..m : k \in DOMAIN Waiting[j].ops /\ call[w].id = Waiting[j].id
    BY <1>4
  <2>1. PICK j \in 1..m : wal.batch[j] = w
    BY <1>1, <1>2 DEF Elems, Typed, FlowTyped, Wals
  <2> QED
    BY <1>3, <2>1
<1>7. \A j \in 1..m : k \in DOMAIN Waiting[j].ops => Waiting[j].id \in ids
  <2> SUFFICES ASSUME NEW j \in 1..m, k \in DOMAIN Waiting[j].ops
               PROVE  Waiting[j].id \in ids
    OBVIOUS
  <2>1. wal.batch[j] \in Elems(wal.batch)
    BY <1>1, <1>2 DEF Elems, Typed, FlowTyped, Wals
  <2> QED
    BY <1>3, <1>4, <2>1
<1>8. /\ acked[k] \in Nat /\ \A j \in DOMAIN Waiting : Waiting[j].id \in Nat
      /\ \A j \in DOMAIN Waiting : k \in DOMAIN Waiting[j].ops => acked[k] < Waiting[j].id
      /\ \A i, j \in DOMAIN Waiting : i < j => Waiting[i].id < Waiting[j].id
  <2>1. KeyValue(issued, Waiting, k, acked[k], Val(store[k]), Replayed(snapFile[snapAt], Current, k), rejected)
    BY <1>1 DEF ValueSound
  <2>2. \A j \in DOMAIN Waiting : Waiting[j].id \in Nat
    <3>1. \A j \in DOMAIN Waiting : Waiting[j] \in Calls
      BY <1>3
    <3> QED
      BY <3>1 DEF Calls
  <2>3. acked[k] \in Nat /\ \A j \in DOMAIN Waiting : k \in DOMAIN Waiting[j].ops => acked[k] < Waiting[j].id
    BY <1>1, <2>1 DEF KeyValue, Typed, DataTyped
  <2> QED
    BY <1>1, <2>2, <2>3 DEF QueueSound, Queued
<1>9. x \in ids /\ \A i \in ids : i \in Nat /\ i <= x
  <2>1. CASE (\A j \in 1..m : k \notin DOMAIN Waiting[j].ops) /\ x = acked[k]
    <3>1. acked[k] \in ids
      BY <1>4
    <3>2. \A i \in ids : i = x
      BY <1>6, <2>1
    <3> QED
      BY <1>8, <2>1, <3>1, <3>2
  <2>2. ASSUME NEW j \in 1..m, k \in DOMAIN Waiting[j].ops, x = Waiting[j].id,
               \A i \in 1..m : k \in DOMAIN Waiting[i].ops => i <= j
        PROVE  x \in ids /\ \A i \in ids : i \in Nat /\ i <= x
    <3>1. x \in ids /\ x \in Nat /\ j \in DOMAIN Waiting
      BY <1>3, <1>7, <1>8, <2>2
    <3>2. acked[k] < x
      BY <1>8, <2>2, <3>1
    <3>3. \A i \in 1..m : k \in DOMAIN Waiting[i].ops => Waiting[i].id \in Nat /\ Waiting[i].id <= x
      <4> SUFFICES ASSUME NEW i \in 1..m, k \in DOMAIN Waiting[i].ops
                   PROVE  Waiting[i].id \in Nat /\ Waiting[i].id <= x
        OBVIOUS
      <4>1. i \in Nat /\ j \in Nat /\ i <= j /\ i \in DOMAIN Waiting
        BY <1>2, <1>3, <2>2
      <4>2. Waiting[i].id \in Nat
        BY <1>8, <4>1
      <4>3. CASE i = j
        BY <2>2, <3>1, <4>3
      <4>4. CASE i # j
        <5>1. i < j
          BY <4>1, <4>4
        <5>2. Waiting[i].id < x
          BY <1>8, <2>2, <3>1, <4>1, <5>1
        <5> QED
          BY <3>1, <4>2, <5>2
      <4> QED
        BY <4>2, <4>3, <4>4
    <3> QED
      BY <1>6, <1>8, <3>1, <3>2, <3>3
  <2> QED
    BY <1>2, <2>1, <2>2 DEF Landed
<1>10. \A i \in ids : (\A j \in ids : j <= i) => i = x
  BY <1>9
<1> QED
  BY <1>5, <1>9, <1>10

\* What publishing leaves of a record: its value, and a location that the log just got.
LEMMA PublishedReads ==
  ASSUME Inv, Orderly, FlushLands, NEW k \in Keys
  PROVE  /\ store'[k] = None <=> store[k] = None
         /\ Val(store'[k]) = Val(store[k])
         /\ \/ store'[k] = store[k]
            \/ /\ disk /\ store'[k] # None /\ store'[k].by = 0
               /\ store'[k].loc # None /\ store'[k].loc.file = "wal" /\ store'[k].loc.off \in Nat
               /\ store'[k].loc.off >= Len(Current)
               /\ Reads(Old', store'[k].loc.off, k, store'[k].val)
<1>1. Typed /\ QueueSound /\ BySound /\ store' = PublishedStore(wal.batch)
  BY FlushLandsTyped DEF Inv, KeysSound
<1>2. Old' = Old \o Frames(wal.batch) /\ Old = Current /\ wal.size = Len(Current)
  BY LandsFiles, LogWal
<1>3. PICK m \in Nat : m = Len(wal.batch)
  BY <1>1 DEF Typed, FlowTyped, Wals
<1>4. CASE store'[k] = store[k]
  BY <1>4
<1>5. CASE store'[k] # store[k]
  <2>1. PICK j \in 1..m : /\ Published(wal.batch[j], k) /\ store'[k] # None
                          /\ store'[k] = [val |-> store[k].val, by |-> 0,
                                          loc |-> [file |-> "wal", off |-> call[wal.batch[j]].off]]
    BY <1>1, <1>3, <1>5, PublishedIs
  <2>2. PICK c : c = call[wal.batch[j]]
    OBVIOUS
  <2>3. disk /\ k \in DOMAIN c.ops /\ store[k] # None /\ store[k].by = c.id
    BY <2>1, <2>2 DEF Published
  <2>4. /\ m <= Len(Waiting) /\ Len(Waiting) \in Nat /\ DOMAIN Waiting = 1..Len(Waiting)
        /\ Waiting \in Seq(Calls) /\ j \in DOMAIN Waiting /\ Waiting[j] = c
        /\ wal.batch[j] = Pend[j] /\ j \in DOMAIN Pend
    <3>1. /\ Waiting \in Seq(Calls) /\ DOMAIN Waiting = 1..Len(Waiting) /\ Len(Waiting) \in Nat
          /\ DOMAIN Pend = DOMAIN Waiting
      BY <1>1, PendTyped
    <3>2. m \in 0..Len(Waiting) /\ Waiting[j] = call[wal.batch[j]] /\ wal.batch[j] = Pend[j]
      BY <1>1, <1>3, BatchFrames
    <3> QED
      BY <2>2, <3>1, <3>2
  <2>5. /\ c.id \in 1..Len(issued) /\ c.ops = issued[c.id] /\ c \in Calls
        /\ c.off = wal.size + j - 1
    <3>1. c.id \in 1..Len(issued) /\ c.ops = issued[c.id]
      BY <1>1, <2>4 DEF QueueSound, Queued
    <3>2. call[Pend[j]].off = wal.size + j - 1
      BY <1>1, <2>3, <2>4 DEF QueueSound
    <3>3. c \in Calls
      BY <2>4
    <3> QED
      BY <2>2, <2>4, <3>1, <3>2, <3>3
  <2>6. c.id # 0 /\ store[k].val = c.id /\ c.ops[k] = "set"
    <3>1. c.id # 0
      BY <2>5
    <3> QED
      BY <1>1, <2>3, <2>5, <3>1 DEF BySound
  <2>7. PICK n \in Nat, s \in Seq(Frame), f \in Seq(Frame) :
          n = Len(s) /\ s = Current /\ f = Frames(wal.batch) /\ Len(f) = m
    <3>1. Current \in Seq(Frame) /\ Frames(wal.batch) \in Seq(Frame) /\ Len(Frames(wal.batch)) = m
      BY <1>1, <1>3, CurrentTyped, BatchFrames
    <3>2. Len(Current) \in Nat
      BY <3>1
    <3> QED
      BY <3>1, <3>2
  <2>8. f[j] = FrameOf(c.ops, c.id) /\ j \in DOMAIN f
    <3>1. j \in DOMAIN wal.batch
      BY <1>1, <1>3 DEF Typed, FlowTyped, Wals
    <3> QED
      BY <2>2, <2>7, <3>1 DEF Frames
  <2>9. k \in DOMAIN f[j] /\ f[j][k] = c.id
    BY <2>3, <2>6, <2>8 DEF FrameOf
  <2>10. PICK g : g = s \o f
    OBVIOUS
  <2>11. n + j \in DOMAIN g /\ g[n + j] = f[j]
    BY <1>3, <2>7, <2>8, <2>10
  <2>12. PICK o \in Nat : o = n + j - 1 /\ o + 1 = n + j /\ o >= n /\ o = c.off
    <3>1. c.off = n + j - 1
      BY <1>2, <2>5, <2>7
    <3>2. n + j - 1 \in Nat /\ (n + j - 1) + 1 = n + j /\ n + j - 1 >= n
      BY <1>3, <2>7
    <3> QED
      BY <3>1, <3>2
  <2>13. Reads(g, o, k, c.id)
    BY <2>9, <2>11, <2>12 DEF Reads
  <2>14. /\ store'[k].val = store[k].val /\ store'[k].by = 0
         /\ store'[k].loc = [file |-> "wal", off |-> o]
    BY <2>1, <2>2, <2>12
  <2>15. store'[k].loc # None
    <3>1. [file |-> "wal", off |-> o] \in Locations
      BY DEF Locations
    <3> QED
      BY <2>14, <3>1, NoneAssumption
  <2>16. g = Old'
    BY <1>2, <2>7, <2>10
  <2>17. Val(store'[k]) = Val(store[k])
    BY <2>1, <2>3, <2>14 DEF Val
  <2> QED
    BY <2>1, <2>3, <2>6, <2>7, <2>12, <2>13, <2>14, <2>15, <2>16, <2>17
<1> QED
  BY <1>4, <1>5

\* A batch lands.
LEMMA LandsKeys ==
  ASSUME Inv, Orderly, FlushLands
  PROVE  KeysSound'
<1>1. /\ Typed /\ Typed' /\ QueueSound /\ ValueSound /\ SnapSound /\ LocSound /\ MemorySound /\ BySound
      /\ store' = PublishedStore(wal.batch) /\ CopySound
  BY FlushLandsTyped DEF Inv, KeysSound
<1>2. /\ Old' = Old \o Frames(wal.batch) /\ Current' = Current \o Frames(wal.batch) /\ Old = Current
      /\ Loaded => After(Old, cmp.base)' = After(Old, cmp.base) \o Frames(wal.batch)
  BY LandsFiles
<1>3. /\ UNCHANGED <<disk, issued, rejected, snapFile, snapAt, walAt, reader, cpc>>
      /\ StoreBecomes(store')
  BY <1>1 DEF FlushLands, boundVars, PublishedStore
<1>4. PICK m \in Nat, l \in Nat : m = Len(wal.batch) /\ l = Len(Waiting) /\ m \in 0..l
  <2>1. Len(wal.batch) \in Nat /\ Len(Waiting) \in Nat /\ Len(wal.batch) \in 0..Len(Waiting)
    BY <1>1, PendTyped, BatchFrames
  <2> QED
    BY <2>1
<1>5. PICK p \in Seq(Calls), q \in Seq(Calls) :
        /\ p = Waiting /\ q = Waiting' /\ Len(p) = l
        /\ Len(q) = Len(p) - m /\ \A j \in 1..Len(q) : q[j] = p[m + j]
  <2>1. /\ Waiting' \in Seq(Calls) /\ Len(Waiting') = Len(Waiting) - m
        /\ \A j \in 1..Len(Waiting') : Waiting'[j] = Waiting[m + j]
    BY <1>4, LandsQueue
  <2>2. Waiting \in Seq(Calls)
    BY <1>1, PendTyped
  <2> QED
    BY <1>4, <2>1, <2>2
<1>6. /\ issued \in Seq(OpsSet) /\ Queued(issued, p) /\ m \in 0..Len(p)
      /\ rejected \in BOOLEAN /\ store \in Stores /\ cmp \in Cmps
  BY <1>1, <1>4, <1>5 DEF Typed, DataTyped, FlowTyped, QueueSound
<1>7. PICK f \in Seq(Frame), c \in Seq(Frame), s \in Seq(Frame) :
        f = Frames(wal.batch) /\ f = SubSeq(Written(p), 1, m) /\ c = Current /\ s = snapFile[snapAt]
  <2>1. Frames(wal.batch) \in Seq(Frame) /\ Frames(wal.batch) = SubSeq(Written(p), 1, m)
    BY <1>1, <1>4, <1>5, BatchFrames
  <2> QED
    BY <1>1, <2>1, CurrentTyped
<1>8. \A k \in Keys : /\ store'[k] = None <=> store[k] = None
                      /\ Val(store'[k]) = Val(store[k])
                      /\ \/ store'[k] = store[k]
                         \/ /\ disk /\ store'[k] # None /\ store'[k].by = 0
                            /\ store'[k].loc # None /\ store'[k].loc.file = "wal" /\ store'[k].loc.off \in Nat
                            /\ store'[k].loc.off >= Len(Current)
                            /\ Reads(Old', store'[k].loc.off, k, store'[k].val)
  BY PublishedReads
<1>9. /\ cmp'.n = cmp.n /\ cmp'.base = cmp.base /\ cmp'.locs = cmp.locs /\ cmp'.todo = cmp.todo
      /\ (Loaded' <=> Loaded)
  <2>1. /\ cmp'.n = cmp.n /\ cmp'.base = cmp.base /\ cmp'.locs = cmp.locs
        /\ cmp'.todo = IF cpc = "snapshot" THEN cmp.todo \cup {k \in Keys : store[k] # None /\ store'[k] = None}
                                           ELSE cmp.todo
    BY <1>1, <1>3, StoreChanges
  <2>2. {k \in Keys : store[k] # None /\ store'[k] = None} = {}
    BY <1>8
  <2> QED
    BY <1>3, <2>1, <2>2 DEF Loaded
<1>10. ASSUME NEW k \in Keys
       PROVE  /\ Landed(issued, p, m, k, acked[k], Replayed(s, c, k), acked'[k], Replayed(s, c \o f, k))
              /\ KeyValue(issued, p, k, acked[k], Val(store[k]), Replayed(s, c, k), rejected)
  <2>1. KeyValue(issued, p, k, acked[k], Val(store[k]), Replayed(s, c, k), rejected)
    BY <1>1, <1>5, <1>7 DEF ValueSound
  <2>2. PICK x : Landed(issued, p, m, k, acked[k], Replayed(s, c, k), x, Replayed(s, c \o f, k))
    BY <1>6, <1>7, LandedSome
  <2>3. acked'[k] = x
    BY <1>4, <1>5, <2>2, AckedIs
  <2> QED
    BY <2>1, <2>2, <2>3
<1>11. ValueSound'
  <2> SUFFICES ASSUME NEW k \in Keys
               PROVE  KeyValue(issued', Waiting', k, acked'[k], Val(store'[k]),
                               Replayed(snapFile'[snapAt'], Current', k), rejected')
    BY DEF ValueSound
  <2>1. PICK x, a, v, d, b : /\ x = acked'[k] /\ a = acked[k] /\ v = Val(store[k])
                            /\ d = Replayed(s, c, k) /\ b = Replayed(s, c \o f, k)
    OBVIOUS
  <2>2. Landed(issued, p, m, k, a, d, x, b) /\ KeyValue(issued, p, k, a, v, d, rejected)
    BY <1>10, <2>1
  <2>3. KeyValue(issued, q, k, x, v, b, rejected)
    BY <1>5, <1>6, <2>2, LandingKeepsValue
  <2>4. Replayed(snapFile'[snapAt'], Current', k) = b
    BY <1>2, <1>3, <1>7, <2>1
  <2> QED
    BY <1>3, <1>5, <1>8, <2>1, <2>3, <2>4
<1>12. SnapSound'
  <2> SUFFICES ASSUME Loaded, NEW k \in Keys
               PROVE  KeySnap(issued', Waiting', k, acked'[k], Val(store'[k]), After(Old', cmp'.base), snapFile'[cmp'.n],
                              cpc' = "snapshot", k \in cmp'.todo, rejected')
    BY <1>9 DEF SnapSound
  <2>1. PICK x, a, v, d, b : /\ x = acked'[k] /\ a = acked[k] /\ v = Val(store[k])
                            /\ d = Replayed(s, c, k) /\ b = Replayed(s, c \o f, k)
    OBVIOUS
  <2>2. Landed(issued, p, m, k, a, d, x, b) /\ KeyValue(issued, p, k, a, v, d, rejected)
    BY <1>10, <2>1
  <2>3. PICK open \in BOOLEAN, todo \in BOOLEAN : open = (cpc = "snapshot") /\ todo = (k \in cmp.todo)
    <3>1. (cpc = "snapshot") \in BOOLEAN /\ (k \in cmp.todo) \in BOOLEAN
      OBVIOUS
    <3> QED
      BY <3>1, Zenon
  <2>4. PICK tail \in Seq(Frame) : tail = After(Old, cmp.base)
    <3>1. cmp.base \in Nat /\ cmp.base <= Len(Old) /\ Old \in Seq(Frame) /\ Len(Old) \in Nat
      <4>1. cmp.base \in Nat /\ cmp.copied \in Nat /\ cmp.base <= cmp.copied /\ cmp.copied <= Len(Old)
        BY <1>1, <1>6 DEF CopySound, Cmps
      <4>2. Old \in Seq(Frame)
        BY <1>1, CurrentTyped
      <4> QED
        BY <4>1, <4>2
    <3> QED
      BY <3>1, AfterTouches
  <2>5. PICK snap : snap = snapFile[cmp.n]
    OBVIOUS
  <2>6. KeySnap(issued, p, k, a, v, tail, snap, open, todo, rejected)
    BY <1>1, <1>5, <2>1, <2>3, <2>4, <2>5 DEF SnapSound
  <2>7. KeySnap(issued, q, k, x, v, tail \o SubSeq(Written(p), 1, m), snap, open, todo, rejected)
    <3>1. PICK iss \in Seq(OpsSet), rej \in BOOLEAN : iss = issued /\ rej = rejected
      BY <1>6
    <3>2. /\ Queued(iss, p) /\ KeyValue(iss, p, k, a, v, d, rej) /\ Landed(iss, p, m, k, a, d, x, b)
          /\ KeySnap(iss, p, k, a, v, tail, snap, open, todo, rej)
      BY <1>6, <2>2, <2>6, <3>1
    <3>3. Len(q) = Len(p) - m /\ (\A j \in 1..Len(q) : q[j] = p[m + j]) /\ m \in 0..Len(p)
      BY <1>5, <1>6
    <3>5. Leaves(iss, p, m, k, a, d, x, b, q)
      BY <3>2, <3>3 DEF Leaves
    <3>4. KeySnap(iss, q, k, x, v, tail \o SubSeq(Written(p), 1, m), snap, open, todo, rej)
      BY <3>2, <3>5, LandingKeepsSnap
    <3> QED
      BY <3>1, <3>4
  <2>8. After(Old', cmp'.base) = tail \o SubSeq(Written(p), 1, m)
    BY <1>2, <1>7, <1>9, <2>4
  <2>9. /\ issued' = issued /\ Waiting' = q /\ acked'[k] = x /\ Val(store'[k]) = v /\ snapFile'[cmp'.n] = snap
        /\ (cpc' = "snapshot") = open /\ (k \in cmp'.todo) = todo /\ rejected' = rejected
    BY <1>3, <1>5, <1>8, <1>9, <2>1, <2>3, <2>5
  <2> QED
    BY <2>7, <2>8, <2>9
<1>13. LocSound'
  <2>1. ASSUME NEW k \in Keys
        PROVE  KeyLoc(store'[k], k, Old', snapFile'[reader'.snap])
    <3> SUFFICES ASSUME store'[k] # None, store'[k].loc # None
                 PROVE  Reads(IF store'[k].loc.file = "wal" THEN Old' ELSE snapFile'[reader'.snap],
                              store'[k].loc.off, k, store'[k].val)
      BY DEF KeyLoc
    <3>1. CASE store'[k] = store[k]
      <4>1. Reads(IF store[k].loc.file = "wal" THEN Old ELSE snapFile[reader.snap], store[k].loc.off, k, store[k].val)
        BY <1>1, <3>1 DEF LocSound, KeyLoc
      <4>2. store[k].loc.off \in Nat
        <5>1. store[k] \in Records /\ store[k].loc # None
          BY <1>1, <3>1, CurrentTyped
        <5> QED
          BY <5>1 DEF Records, Locations
      <4>3. PICK o \in Nat : o = store[k].loc.off
        BY <4>2
      <4>5. PICK v : v = store[k].val
        OBVIOUS
      <4>4. Reads(c, o, k, v) => Reads(c \o f, o, k, v)
        BY ConcatReads
      <4> QED
        BY <1>2, <1>3, <1>7, <3>1, <4>1, <4>3, <4>4, <4>5
    <3>2. CASE store'[k] # store[k]
      BY <1>8, <3>2
    <3> QED
      BY <3>1, <3>2
  <2>2. ASSUME Loaded', NEW k \in Keys
        PROVE  KeyMap(store'[k], k, cmp'.base, cmp'.locs[k], snapFile'[cmp'.n], cpc' = "snapshot" /\ k \in cmp'.todo)
    <3>1. KeyMap(store[k], k, cmp.base, cmp.locs[k], snapFile[cmp.n], cpc = "snapshot" /\ k \in cmp.todo)
      BY <1>1, <1>9, <2>2 DEF LocSound
    <3>2. CASE store'[k] = store[k]
      BY <1>3, <1>9, <3>1, <3>2 DEF KeyMap
    <3>3. CASE store'[k] # store[k]
      <4>1. cmp.base \in Nat /\ cmp.copied \in Nat /\ cmp.base <= cmp.copied /\ cmp.copied <= Len(Current)
        BY <1>1, <1>2, <1>6, <1>9, <2>2 DEF CopySound, Cmps
      <4>2. store'[k].loc.file = "wal" /\ store'[k].loc.off \in Nat /\ store'[k].loc.off >= Len(Current) /\ Len(Current) \in Nat
        BY <1>7, <1>8, <3>3
      <4>3. store'[k].loc.off >= cmp.base
        BY <4>1, <4>2
      <4> QED
        BY <1>9, <4>2, <4>3 DEF KeyMap
    <3> QED
      BY <3>2, <3>3
  <2> QED
    BY <2>1, <2>2 DEF LocSound
<1>14. MemorySound'
  <2> SUFFICES ASSUME ~disk
               PROVE  /\ \A k \in Keys : store'[k] # None => store'[k].loc = None
                      /\ \A j \in DOMAIN q : \A k \in DOMAIN q[j].ops :
                           q[j].prev[k] # None => q[j].prev[k].loc = None
    BY <1>3, <1>5 DEF MemorySound
  <2>1. /\ \A k \in Keys : store[k] # None => store[k].loc = None
        /\ \A j \in DOMAIN p : \A k \in DOMAIN p[j].ops :
             p[j].prev[k] # None => p[j].prev[k].loc = None
    BY <1>1, <1>5 DEF MemorySound
  <2>2. \A j \in DOMAIN q : m + j \in DOMAIN p /\ q[j] = p[m + j]
    <3>1. DOMAIN p = 1..l /\ DOMAIN q = 1..(l - m) /\ Len(q) = l - m
      BY <1>4, <1>5
    <3>2. \A j \in 1..(l - m) : m + j \in 1..l
      BY <1>4
    <3> QED
      BY <1>5, <3>1, <3>2
  <2>3. \A k \in Keys : store'[k] # None => store'[k].loc = None
    BY <1>8, <2>1
  <2>4. \A j \in DOMAIN q : \A k \in DOMAIN q[j].ops : q[j].prev[k] # None => q[j].prev[k].loc = None
    BY <2>1, <2>2
  <2> QED
    BY <2>3, <2>4
<1>15. BySound'
  BY <1>1, <1>3, <1>8 DEF BySound
<1> QED
  BY <1>11, <1>12, <1>13, <1>14, <1>15 DEF KeysSound

-----------------------------------------------------------------------------
(* A rejected batch *)

\* A rejected batch is rolled back.
LEMMA FailsKeys ==
  ASSUME Inv, Orderly, NEW n \in 0..Len(wal.batch), NEW torn \in BOOLEAN, FlushFails(n, torn)
  PROVE  KeysSound'
<1>1. /\ Typed /\ Typed' /\ QueueSound /\ ValueSound /\ SnapSound /\ LocSound /\ MemorySound /\ BySound
      /\ CopySound /\ StoreBecomes(store')
      /\ \A k \in Keys :
           \/ store'[k] = store[k]
           \/ \E j \in DOMAIN Waiting :
                /\ k \in DOMAIN Waiting[j].ops /\ Waiting[j].prev[k] \in Records \cup {None}
                /\ store'[k] = IF Waiting[j].prev[k] = None THEN None ELSE [Waiting[j].prev[k] EXCEPT !.by = 0]
  BY FlushFailsTyped DEF Inv, KeysSound
<1>2. Waiting' = <<>> /\ ~disk
  BY FailsQueue
<1>3. /\ UNCHANGED <<disk, issued, acked, snapFile, snapAt, walAt, reader, cpc>> /\ rejected' = TRUE
  BY DEF FlushFails
<1>4. PICK t \in Seq(Frame) :
        /\ \A k : ~Touches(t, k)
        /\ Old' = Old \o (SubSeq(Frames(wal.batch), 1, n) \o t)
        /\ Current' = Current \o (SubSeq(Frames(wal.batch), 1, n) \o t)
        /\ Loaded => After(Old, cmp.base)' = After(Old, cmp.base) \o (SubSeq(Frames(wal.batch), 1, n) \o t)
  BY FailsFiles
<1>5. PICK m \in Nat : m = Len(wal.batch) /\ m \in 0..Len(Waiting) /\ n \in 0..m
  <2>1. Len(wal.batch) \in Nat
    BY <1>1 DEF Typed, FlowTyped, Wals
  <2>2. Len(wal.batch) \in 0..Len(Waiting)
    BY <1>1, BatchFrames
  <2>3. n \in 0..Len(wal.batch)
    BY <2>1
  <2> QED
    BY <2>1, <2>2, <2>3
<1>6. PICK p \in Seq(Calls) : p = Waiting /\ Queued(issued, p) /\ n \in 0..Len(p)
  <2>1. Waiting \in Seq(Calls) /\ Len(Waiting) \in Nat
    BY <1>1, PendTyped
  <2>2. n \in 0..Len(Waiting)
    BY <1>5, <2>1
  <2> QED
    BY <1>1, <2>1, <2>2 DEF QueueSound
<1>7. issued \in Seq(OpsSet) /\ rejected \in BOOLEAN /\ store \in Stores /\ cmp \in Cmps
  BY <1>1 DEF Typed, DataTyped, FlowTyped
<1>8. PICK f \in Seq(Frame), c \in Seq(Frame), s \in Seq(Frame) :
        f = SubSeq(Frames(wal.batch), 1, n) /\ f = SubSeq(Written(p), 1, n) /\ c = Current /\ s = snapFile[snapAt]
  <2>1. SubSeq(Frames(wal.batch), 1, n) \in Seq(Frame) /\ SubSeq(Frames(wal.batch), 1, n) = SubSeq(Written(p), 1, n)
    BY <1>1, <1>5, <1>6, BatchFrames
  <2> QED
    BY <1>1, <2>1, CurrentTyped
<1>9. /\ \A k \in Keys : store[k] # None => store[k].loc = None
      /\ \A j \in DOMAIN p : \A k \in DOMAIN p[j].ops : p[j].prev[k] # None => p[j].prev[k].loc = None
  BY <1>1, <1>2, <1>6 DEF MemorySound
<1>10. ASSUME NEW k \in Keys
       PROVE  /\ \/ store'[k] = store[k]
                 \/ store'[k] # None => store'[k].by = 0
              /\ store'[k] # None => store'[k].loc = None
              /\ \/ Val(store'[k]) = Val(store[k])
                 \/ \E j \in DOMAIN p : k \in DOMAIN p[j].ops /\ Val(store'[k]) = Val(p[j].prev[k])
  <2>1. CASE store'[k] = store[k]
    BY <1>9, <2>1
  <2>2. ASSUME NEW j \in DOMAIN p, k \in DOMAIN p[j].ops, p[j].prev[k] \in Records \cup {None},
               store'[k] = IF p[j].prev[k] = None THEN None ELSE [p[j].prev[k] EXCEPT !.by = 0]
        PROVE  /\ store'[k] # None => store'[k].by = 0
               /\ store'[k] # None => store'[k].loc = None
               /\ Val(store'[k]) = Val(p[j].prev[k])
    <3>1. CASE p[j].prev[k] = None
      BY <2>2, <3>1 DEF Val
    <3>2. CASE p[j].prev[k] # None
      <4>1. PICK r \in Records : r = p[j].prev[k] /\ r.loc = None
        BY <1>9, <2>2, <3>2
      <4>2. store'[k] = [r EXCEPT !.by = 0]
        BY <2>2, <3>2, <4>1
      <4>3. store'[k].by = 0 /\ store'[k].loc = None /\ store'[k].val = r.val /\ store'[k] # None
        <5>1. [r EXCEPT !.by = 0] \in Records
          BY DEF Records
        <5>2. [r EXCEPT !.by = 0].by = 0 /\ [r EXCEPT !.by = 0].loc = r.loc /\ [r EXCEPT !.by = 0].val = r.val
          BY DEF Records
        <5> QED
          BY <4>1, <4>2, <5>1, <5>2, NoneAssumption
      <4> QED
        BY <3>2, <4>1, <4>3 DEF Val
    <3> QED
      BY <3>1, <3>2
  <2> QED
    BY <1>1, <1>6, <2>1, <2>2
<1>11. PICK g \in Seq(Frame) : /\ g = f \o t /\ Old' = Old \o g /\ Current' = Current \o g
                               /\ Loaded => After(Old, cmp.base)' = After(Old, cmp.base) \o g
  <2>1. f \o t \in Seq(Frame)
    OBVIOUS
  <2> QED
    BY <1>4, <1>8, <2>1
<1>12. \A k : Replayed(s, c \o g, k) = Replayed(s, c \o f, k)
  <2> SUFFICES ASSUME NEW k
               PROVE  Replayed(s, c \o g, k) = Replayed(s, c \o f, k)
    OBVIOUS
  <2>1. \A a \in Seq(Frame), b \in Seq(Frame) :
          /\ Touches(a \o b, k) <=> Touches(a, k) \/ Touches(b, k)
          /\ LastVal(a \o b, k) = IF Touches(b, k) THEN LastVal(b, k) ELSE LastVal(a, k)
    BY ConcatTouches
  <2>2. /\ Touches(f \o t, k) <=> Touches(f, k)
        /\ LastVal(f \o t, k) = LastVal(f, k)
    BY <1>4, <2>1
  <2>3. /\ Touches(c \o g, k) <=> Touches(c, k) \/ Touches(g, k)
        /\ LastVal(c \o g, k) = IF Touches(g, k) THEN LastVal(g, k) ELSE LastVal(c, k)
    BY <2>1
  <2>4. /\ Touches(c \o f, k) <=> Touches(c, k) \/ Touches(f, k)
        /\ LastVal(c \o f, k) = IF Touches(f, k) THEN LastVal(f, k) ELSE LastVal(c, k)
    BY <2>1
  <2>5. (Touches(g, k) <=> Touches(f, k)) /\ LastVal(g, k) = LastVal(f, k)
    BY <1>11, <2>2
  <2>6. (Touches(c \o g, k) <=> Touches(c \o f, k)) /\ LastVal(c \o g, k) = LastVal(c \o f, k)
    BY <2>3, <2>4, <2>5
  <2> QED
    BY <2>6 DEF Replayed
<1>13. ValueSound'
  <2> SUFFICES ASSUME NEW k \in Keys
               PROVE  KeyValue(issued', Waiting', k, acked'[k], Val(store'[k]),
                               Replayed(snapFile'[snapAt'], Current', k), rejected')
    BY DEF ValueSound
  <2>1. PICK a, v, d, b, w : /\ a = acked[k] /\ v = Val(store[k]) /\ w = Val(store'[k])
                            /\ d = Replayed(s, c, k) /\ b = Replayed(s, c \o f, k)
    OBVIOUS
  <2>2. KeyValue(issued, p, k, a, v, d, rejected)
    BY <1>1, <1>6, <1>8, <2>1 DEF ValueSound
  <2>3. PICK x : Landed(issued, p, n, k, a, d, x, b)
    BY <1>6, <1>7, <1>8, <2>1, LandedSome
  <2>4. w = v \/ \E j \in DOMAIN p : k \in DOMAIN p[j].ops /\ w = Val(p[j].prev[k])
    BY <1>10, <2>1
  <2>5. KeyValue(issued, <<>>, k, a, w, b, TRUE)
    BY <1>6, <1>7, <2>2, <2>3, <2>4, RollbackKeepsValue
  <2>6. Replayed(snapFile'[snapAt'], Current', k) = b
    BY <1>3, <1>8, <1>11, <1>12, <2>1
  <2> QED
    BY <1>2, <1>3, <2>1, <2>5, <2>6
<1>14. /\ cmp'.n = cmp.n /\ cmp'.base = cmp.base /\ cmp'.locs = cmp.locs
       /\ cmp'.todo = (IF cpc = "snapshot" THEN cmp.todo \cup {k \in Keys : store[k] # None /\ store'[k] = None}
                                           ELSE cmp.todo)
       /\ (Loaded' <=> Loaded)
  <2>1. /\ cmp'.n = cmp.n /\ cmp'.base = cmp.base /\ cmp'.locs = cmp.locs
        /\ cmp'.todo = (IF cpc = "snapshot" THEN cmp.todo \cup {k \in Keys : store[k] # None /\ store'[k] = None}
                                            ELSE cmp.todo)
    BY <1>1, StoreBecomesFlow
  <2> QED
    BY <1>3, <2>1 DEF Loaded
<1>15. SnapSound'
  <2> SUFFICES ASSUME Loaded, NEW k \in Keys
               PROVE  KeySnap(issued', Waiting', k, acked'[k], Val(store'[k]), After(Old', cmp'.base), snapFile'[cmp'.n],
                              cpc' = "snapshot", k \in cmp'.todo, rejected')
    BY <1>14 DEF SnapSound
  <2>1. PICK a, v, w, snap : a = acked[k] /\ v = Val(store[k]) /\ w = Val(store'[k]) /\ snap = snapFile[cmp.n]
    OBVIOUS
  <2>3. PICK open \in BOOLEAN, todo \in BOOLEAN, later \in BOOLEAN :
          open = (cpc = "snapshot") /\ todo = (k \in cmp.todo) /\ later = (k \in cmp'.todo)
    <3>1. (cpc = "snapshot") \in BOOLEAN /\ (k \in cmp.todo) \in BOOLEAN /\ (k \in cmp'.todo) \in BOOLEAN
      OBVIOUS
    <3> QED
      BY <3>1, Zenon
  <2>4. PICK tail \in Seq(Frame) : tail = After(Old, cmp.base)
    <3>1. cmp.base \in Nat /\ cmp.base <= Len(Old) /\ Old \in Seq(Frame) /\ Len(Old) \in Nat
      <4>1. cmp.base \in Nat /\ cmp.copied \in Nat /\ cmp.base <= cmp.copied /\ cmp.copied <= Len(Old)
        BY <1>1, <1>7 DEF CopySound, Cmps
      <4>2. Old \in Seq(Frame)
        BY <1>1, CurrentTyped
      <4> QED
        BY <4>1, <4>2
    <3> QED
      BY <3>1, AfterTouches
  <2>6. KeySnap(issued, p, k, a, v, tail, snap, open, todo, rejected)
    BY <1>1, <1>6, <2>1, <2>3, <2>4 DEF SnapSound
  <2>7. todo => later
    BY <1>14, <2>3
  <2>8. KeySnap(issued, <<>>, k, a, w, tail \o g, snap, open, later, TRUE)
    <3>1. ~Touches(tail \o g, k) => ~Touches(tail, k)
      BY ConcatTouches
    <3> QED
      BY <2>6, <2>7, <3>1 DEF KeySnap
  <2>9. /\ issued' = issued /\ Waiting' = <<>> /\ acked'[k] = a /\ Val(store'[k]) = w /\ snapFile'[cmp'.n] = snap
        /\ (cpc' = "snapshot") = open /\ (k \in cmp'.todo) = later /\ rejected' = TRUE
        /\ After(Old', cmp'.base) = tail \o g
    BY <1>2, <1>3, <1>11, <1>14, <2>1, <2>3, <2>4
  <2> QED
    BY <2>8, <2>9
<1>16. \A k \in Keys : store'[k] # None => store'[k].loc = None
  BY <1>10
<1>17. LocSound'
  BY <1>16 DEF LocSound, KeyLoc, KeyMap
<1>18. MemorySound'
  BY <1>2, <1>16 DEF MemorySound
<1>19. BySound'
  BY <1>1, <1>3, <1>10 DEF BySound
<1> QED
  BY <1>13, <1>15, <1>17, <1>18, <1>19 DEF KeysSound

-----------------------------------------------------------------------------
(* The compaction and recovery *)

\* Where a value is read from when an entry is appended to its file.
LEMMA AppendReads ==
  ASSUME NEW s \in Seq(Frame), NEW e \in Frame, NEW off, NEW k, NEW v, Reads(s, off, k, v)
  PROVE  Reads(Append(s, e), off, k, v)
<1>1. PICK n \in Nat : n = Len(s) /\ DOMAIN s = 1..n
  OBVIOUS
<1>2. PICK t : t = Append(s, e)
  OBVIOUS
<1>3. off + 1 \in 1..n /\ k \in DOMAIN s[off + 1] /\ s[off + 1][k] = v
  BY <1>1 DEF Reads
<1>4. \A i \in 1..n : i \in DOMAIN t /\ t[i] = s[i]
  BY <1>1, <1>2
<1>5. Reads(t, off, k, v)
  BY <1>3, <1>4 DEF Reads
<1> QED
  BY <1>2, <1>5

\* The fence.
LEMMA FenceKeys ==
  ASSUME Inv, Orderly, Fence
  PROVE  KeysSound'
<1>1. /\ Typed /\ Typed' /\ ValueSound /\ LocSound /\ MemorySound /\ BySound
      /\ cmp'.base = wal.size /\ cmp'.todo = Keys /\ cmp'.n = cmp.n
  BY FenceTyped DEF Inv, KeysSound
<1>2. Waiting' = Waiting
  BY <1>1, MovesQueue
<1>3. /\ UNCHANGED <<disk, store, issued, acked, rejected, snapFile, walFile, snapAt, walAt, reader>>
      /\ cpc = "fence" /\ cpc' = "snapshot"
  BY DEF Fence, Goto, fileVars, boundVars
<1>4. Old' = Old /\ Current' = Current
  BY <1>3 DEF Old, Current
<1>5. snapFile'[cmp'.n] = <<>>
  BY <1>1, <1>3 DEF Inv, FileSound
<1>6. ValueSound'
  BY <1>1, <1>2, <1>3, <1>4 DEF ValueSound
<1>7. SnapSound'
  <2> SUFFICES ASSUME NEW k \in Keys
               PROVE  KeySnap(issued', Waiting', k, acked'[k], Val(store'[k]), After(Old', cmp'.base), snapFile'[cmp'.n],
                              cpc' = "snapshot", k \in cmp'.todo, rejected')
    BY DEF SnapSound
  <2>1. PICK iss, p, a, v, tail, rej : /\ iss = issued' /\ p = Waiting' /\ a = acked'[k] /\ v = Val(store'[k])
                                       /\ tail = After(Old', cmp'.base) /\ rej = rejected'
    OBVIOUS
  <2>2. KeySnap(iss, p, k, a, v, tail, <<>>, TRUE, TRUE, rej)
    BY FenceMakesSnap
  <2>3. (cpc' = "snapshot") = TRUE /\ (k \in cmp'.todo) = TRUE
    BY <1>1, <1>3
  <2> QED
    BY <1>5, <2>1, <2>2, <2>3
<1>8. LocSound'
  <2>1. \A k \in Keys : KeyLoc(store'[k], k, Old', snapFile'[reader'.snap])
    BY <1>1, <1>3, <1>4 DEF LocSound
  <2>2. \A k \in Keys : cpc' = "snapshot" /\ k \in cmp'.todo
    BY <1>1, <1>3
  <2> QED
    BY <2>1, <2>2 DEF LocSound, KeyMap
<1>9. MemorySound' /\ BySound'
  BY <1>1, <1>2, <1>3 DEF MemorySound, BySound
<1> QED
  BY <1>6, <1>7, <1>8, <1>9 DEF KeysSound

\* An entry of the snapshot.
LEMMA EntryKeys ==
  ASSUME Inv, Orderly, NEW k \in Keys, SnapshotEntry(k)
  PROVE  KeysSound'
<1>1. /\ Typed /\ Typed' /\ ValueSound /\ SnapSound /\ LocSound /\ MemorySound /\ BySound
  BY EntryTyped DEF Inv, KeysSound
<1>2. /\ cmp'.todo = cmp.todo \ {k}
      /\ cmp'.locs = [cmp.locs EXCEPT ![k] = [file |-> "snapshot", off |-> Len(snapFile[cmp.n])]]
      /\ cmp'.base = cmp.base /\ cmp'.n = cmp.n
      /\ UNCHANGED <<disk, store, wal, walFile, snapAt, walAt, reader, cpc, issued, acked, boundVars>>
  BY <1>1, EntryTyped
<1>3. PICK e \in Frame : /\ DOMAIN e = {k} /\ e[k] = store[k].val /\ store[k] # None
                         /\ snapFile' = [snapFile EXCEPT ![cmp.n] = Append(snapFile[cmp.n], e)]
  BY <1>1, EntryTyped
<1>4. Waiting' = Waiting
  BY <1>1, MovesQueue
<1>5. /\ Old' = Old /\ Current' = Current
      /\ snapFile'[snapAt] = snapFile[snapAt] /\ snapFile'[reader.snap] = snapFile[reader.snap]
  BY EntryWal, EntryFiles
<1>6. PICK s \in Seq(Frame) : s = snapFile[cmp.n] /\ snapFile'[cmp.n] = Append(s, e)
  <2>1. cmp.n \in Numbers /\ snapFile \in [Numbers -> Seq(Frame)]
    BY <1>1 DEF Typed, FilesTyped, FlowTyped, Cmps
  <2> QED
    BY <1>3, <2>1
<1>7. /\ issued \in Seq(OpsSet) /\ Waiting \in Seq(Calls) /\ rejected \in BOOLEAN /\ cmp \in Cmps
      /\ cpc = "snapshot" /\ Loaded
  <2>1. cpc = "snapshot"
    BY DEF SnapshotEntry
  <2> QED
    BY <1>1, <2>1, PendTyped DEF Typed, DataTyped, FlowTyped, Loaded
<1>8. ValueSound'
  BY <1>1, <1>2, <1>4, <1>5 DEF ValueSound, boundVars
<1>9. SnapSound'
  <2> SUFFICES ASSUME NEW h \in Keys
               PROVE  KeySnap(issued', Waiting', h, acked'[h], Val(store'[h]), After(Old', cmp'.base), snapFile'[cmp'.n],
                              cpc' = "snapshot", h \in cmp'.todo, rejected')
    BY DEF SnapSound
  <2>1. PICK a, v, d, tail : /\ a = acked[h] /\ v = Val(store[h]) /\ d = Replayed(snapFile[snapAt], Current, h)
                            /\ tail = After(Old, cmp.base)
    OBVIOUS
  <2>2. KeyValue(issued, Waiting, h, a, v, d, rejected)
    BY <1>1, <2>1 DEF ValueSound
  <2>3. KeySnap(issued, Waiting, h, a, v, tail, s, cpc = "snapshot", h \in cmp.todo, rejected)
    BY <1>1, <1>6, <1>7, <2>1 DEF SnapSound
  <2>4. CASE h = k
    <3>1. h \in DOMAIN e /\ e[h] = v
      BY <1>3, <2>1, <2>4 DEF Val
    <3>2. KeySnap(issued, Waiting, h, a, v, tail, Append(s, e), TRUE, FALSE, rejected)
      BY <1>7, <2>2, <3>1, EntryKeepsSnap
    <3>3. (cpc' = "snapshot") = TRUE /\ (h \in cmp'.todo) = FALSE
      BY <1>2, <1>7, <2>4
    <3> QED
      BY <1>2, <1>4, <1>5, <1>6, <2>1, <3>2, <3>3 DEF boundVars
  <2>5. CASE h # k
    <3>1. /\ Touches(Append(s, e), h) <=> Touches(s, h)
          /\ LastVal(Append(s, e), h) = LastVal(s, h)
      BY <1>3, <2>5, EntryOfAnother
    <3>2. (h \in cmp'.todo) <=> (h \in cmp.todo)
      BY <1>2, <2>5
    <3>3. KeySnap(issued, Waiting, h, a, v, tail, Append(s, e), cpc = "snapshot", h \in cmp'.todo, rejected)
      BY <2>3, <3>1, <3>2 DEF KeySnap
    <3> QED
      BY <1>2, <1>4, <1>5, <1>6, <2>1, <3>3 DEF boundVars
  <2> QED
    BY <2>4, <2>5
<1>10. LocSound'
  <2>1. \A h \in Keys : KeyLoc(store'[h], h, Old', snapFile'[reader'.snap])
    BY <1>1, <1>2, <1>5 DEF LocSound
  <2>2. ASSUME NEW h \in Keys
        PROVE  KeyMap(store'[h], h, cmp'.base, cmp'.locs[h], snapFile'[cmp'.n], cpc' = "snapshot" /\ h \in cmp'.todo)
    <3>1. cmp.locs \in [Keys -> Locations \cup {None}]
      BY <1>7 DEF Cmps
    <3>2. CASE h = k
      <4>1. PICK o \in Nat : o = Len(s) /\ cmp'.locs[k] = [file |-> "snapshot", off |-> o]
        BY <1>2, <1>6, <3>1
      <4>2. [file |-> "snapshot", off |-> o] \in Locations
        BY DEF Locations
      <4>3. cmp'.locs[k] # None /\ cmp'.locs[k].file = "snapshot" /\ cmp'.locs[k].off = o
        BY <4>1, <4>2, NoneAssumption
      <4>4. Reads(Append(s, e), o, k, e[k])
        BY <1>3, <4>1, EntryOfKey
      <4> QED
        BY <1>2, <1>3, <1>6, <3>2, <4>3, <4>4 DEF KeyMap
    <3>3. CASE h # k
      <4>1. KeyMap(store[h], h, cmp.base, cmp.locs[h], s, cpc = "snapshot" /\ h \in cmp.todo)
        BY <1>1, <1>6, <1>7 DEF LocSound
      <4>2. cmp'.locs[h] = cmp.locs[h] /\ ((h \in cmp'.todo) <=> (h \in cmp.todo))
        BY <1>2, <3>1, <3>3
      <4>3. \A off, v : Reads(s, off, h, v) => Reads(Append(s, e), off, h, v)
        BY AppendReads
      <4> QED
        BY <1>2, <1>6, <4>1, <4>2, <4>3 DEF KeyMap
    <3> QED
      BY <3>2, <3>3
  <2> QED
    BY <2>1, <2>2 DEF LocSound
<1>11. MemorySound' /\ BySound'
  BY <1>1, <1>2, <1>4 DEF MemorySound, BySound
<1> QED
  BY <1>8, <1>9, <1>10, <1>11 DEF KeysSound

\* The iteration ends.
LEMMA DoneKeys ==
  ASSUME Inv, Orderly, SnapshotDone
  PROVE  KeysSound'
<1>1. /\ Typed /\ Typed' /\ ValueSound /\ SnapSound /\ LocSound /\ MemorySound /\ BySound
      /\ UNCHANGED <<disk, store, fileVars, cmp, issued, acked, boundVars>>
  BY MovesTyped DEF Inv, KeysSound
<1>2. Waiting' = Waiting
  BY <1>1, MovesQueue
<1>3. cpc = "snapshot" /\ cpc' = "precopy" /\ Loaded /\ \A k \in cmp.todo : store[k] = None
  BY DEF SnapshotDone, Goto, Loaded
<1>4. Old' = Old /\ Current' = Current
  BY <1>1 DEF Old, Current, fileVars
<1>5. ValueSound'
  BY <1>1, <1>2, <1>4 DEF ValueSound, fileVars, boundVars
<1>6. /\ issued \in Seq(OpsSet) /\ Waiting \in Seq(Calls) /\ rejected \in BOOLEAN
      /\ snapFile[cmp.n] \in Seq(Frame)
  BY <1>1, PendTyped DEF Typed, DataTyped, FilesTyped, FlowTyped, Cmps
<1>7. SnapSound'
  <2> SUFFICES ASSUME NEW k \in Keys
               PROVE  KeySnap(issued', Waiting', k, acked'[k], Val(store'[k]), After(Old', cmp'.base), snapFile'[cmp'.n],
                              cpc' = "snapshot", k \in cmp'.todo, rejected')
    BY DEF SnapSound
  <2>1. PICK a, v, d, tail : /\ a = acked[k] /\ v = Val(store[k]) /\ d = Replayed(snapFile[snapAt], Current, k)
                            /\ tail = After(Old, cmp.base)
    OBVIOUS
  <2>2. PICK todo \in BOOLEAN : todo = (k \in cmp.todo)
    <3>1. (k \in cmp.todo) \in BOOLEAN
      OBVIOUS
    <3> QED
      BY <3>1, Zenon
  <2>3. KeyValue(issued, Waiting, k, a, v, d, rejected)
    BY <1>1, <2>1 DEF ValueSound
  <2>4. PICK s \in Seq(Frame) : s = snapFile[cmp.n]
    BY <1>6
  <2>5. KeySnap(issued, Waiting, k, a, v, tail, s, TRUE, todo, rejected)
    <3>1. (cpc = "snapshot") = TRUE
      BY <1>3
    <3> QED
      BY <1>1, <1>3, <2>1, <2>2, <2>4, <3>1 DEF SnapSound
  <2>6. todo => v = 0
    BY <1>3, <2>1, <2>2 DEF Val
  <2>7. KeySnap(issued, Waiting, k, a, v, tail, s, FALSE, todo, rejected)
    BY <1>6, <2>3, <2>5, <2>6, EndKeepsSnap
  <2>8. (cpc' = "snapshot") = FALSE
    BY <1>3
  <2> QED
    BY <1>1, <1>2, <1>4, <2>1, <2>2, <2>4, <2>7, <2>8 DEF fileVars, boundVars
<1>8. LocSound'
  <2>1. \A k \in Keys : KeyLoc(store'[k], k, Old', snapFile'[reader'.snap])
    BY <1>1, <1>4 DEF LocSound, fileVars
  <2>2. ASSUME NEW k \in Keys
        PROVE  KeyMap(store'[k], k, cmp'.base, cmp'.locs[k], snapFile'[cmp'.n], cpc' = "snapshot" /\ k \in cmp'.todo)
    <3>1. KeyMap(store[k], k, cmp.base, cmp.locs[k], snapFile[cmp.n], cpc = "snapshot" /\ k \in cmp.todo)
      BY <1>1, <1>3 DEF LocSound
    <3>2. k \in cmp.todo => store[k] = None
      BY <1>3
    <3> QED
      BY <1>1, <3>1, <3>2 DEF KeyMap, fileVars
  <2> QED
    BY <2>1, <2>2 DEF LocSound
<1>9. MemorySound' /\ BySound'
  BY <1>1, <1>2 DEF MemorySound, BySound
<1> QED
  BY <1>5, <1>7, <1>8, <1>9 DEF KeysSound

\* The two renames: the new snapshot with the old log, and then with the new one.
LEMMA RenameKeys ==
  ASSUME Inv, Orderly, RenameSnapshot \/ RenameWal
  PROVE  KeysSound'
<1>1. /\ Typed /\ Typed' /\ ValueSound /\ SnapSound /\ LocSound /\ MemorySound /\ BySound
      /\ snapAt' = (IF cpc = "renameSnapshot" THEN cmp.n ELSE snapAt)
      /\ walAt' = (IF cpc = "renameWal" THEN cmp.n ELSE walAt)
      /\ cmp'.base = cmp.base /\ cmp'.todo = cmp.todo /\ cmp'.locs = cmp.locs /\ cmp'.n = cmp.n
      /\ UNCHANGED <<disk, store, snapFile, walFile, reader, issued, acked, boundVars>>
  BY RenamesTyped DEF Inv, KeysSound
<1>2. /\ cpc \in {"renameSnapshot", "renameWal"} /\ cpc' \in {"renameWal", "swap"}
      /\ Loaded /\ Loaded' /\ ~Ahead /\ ~unopened /\ Drained
  <2>1. cpc \in {"renameSnapshot", "renameWal"} /\ cpc' \in {"renameWal", "swap"}
    BY DEF RenameSnapshot, RenameWal, Goto
  <2> QED
    BY <2>1 DEF Loaded, Ahead, Inv, ControlSound, WalSound
<1>3. Waiting = <<>> /\ Waiting' = <<>>
  <2>1. Waiting = <<>>
    BY <1>1, <1>2, PendTyped
  <2> QED
    BY <1>1, <2>1, MovesQueue
<1>4. PICK f \in Seq(Frame), n \in Nat, s \in Seq(Frame) :
        /\ f = Old /\ f = Current /\ n = cmp.base /\ n <= Len(f) /\ s = snapFile[cmp.n]
        /\ walFile[cmp.n] = After(f, n)
  <2>1. Old = Current /\ Old \in Seq(Frame)
    BY <1>1, <1>2, CurrentTyped DEF Inv, FileSound, Old, Current
  <2>2. /\ cmp.base \in Nat /\ cmp.copied \in Nat /\ cmp.base <= cmp.copied /\ cmp.copied = Len(Old)
        /\ walFile[cmp.n] = SubSeq(Old, cmp.base + 1, cmp.copied)
    BY <1>1, <1>2 DEF Inv, CopySound, Typed, FlowTyped, Cmps
  <2>3. snapFile[cmp.n] \in Seq(Frame)
    BY <1>1 DEF Typed, FilesTyped, FlowTyped, Cmps
  <2> QED
    BY <2>1, <2>2, <2>3 DEF After
<1>5. Old' = f
  BY <1>1, <1>4 DEF Old
<1>6. snapAt' = cmp.n /\ (Current' = f \/ Current' = After(f, n))
  <2>1. cpc = "renameWal" => snapAt = cmp.n
    BY DEF Inv, FileSound
  <2>2. CASE cpc = "renameSnapshot"
    BY <1>1, <1>4, <2>2 DEF Current
  <2>3. CASE cpc = "renameWal"
    BY <1>1, <1>4, <2>1, <2>3 DEF Current
  <2> QED
    BY <1>2, <2>2, <2>3
<1>7. rejected \in BOOLEAN /\ rejected' = rejected
  BY <1>1 DEF Typed, DataTyped, boundVars
<1>8. ASSUME NEW k \in Keys
      PROVE  KeySnap(issued, <<>>, k, acked[k], Val(store[k]), After(f, n), s, FALSE, k \in cmp.todo, rejected)
  <2>1. (cpc = "snapshot") = FALSE
    BY <1>2
  <2> QED
    BY <1>1, <1>2, <1>3, <1>4, <2>1 DEF SnapSound
<1>9. ValueSound'
  <2> SUFFICES ASSUME NEW k \in Keys
               PROVE  KeyValue(issued', Waiting', k, acked'[k], Val(store'[k]),
                               Replayed(snapFile'[snapAt'], Current', k), rejected')
    BY DEF ValueSound
  <2>1. PICK iss, a, v, was, todo, now : /\ iss = issued /\ a = acked[k] /\ v = Val(store[k])
                                        /\ was = snapFile[snapAt] /\ todo = (k \in cmp.todo) /\ now = Current'
    OBVIOUS
  <2>2. KeyValue(iss, <<>>, k, a, v, Replayed(was, f, k), rejected)
    BY <1>1, <1>3, <1>4, <2>1 DEF ValueSound
  <2>3. KeySnap(iss, <<>>, k, a, v, After(f, n), s, FALSE, todo, rejected)
    BY <1>8, <2>1
  <2>4. KeyValue(iss, <<>>, k, a, v, Replayed(s, now, k), rejected)
    BY <1>4, <1>6, <1>7, <2>1, <2>2, <2>3, NewFilesReplay
  <2> QED
    BY <1>1, <1>3, <1>4, <1>6, <1>7, <2>1, <2>4
<1>10. SnapSound'
  <2> SUFFICES ASSUME NEW k \in Keys
               PROVE  KeySnap(issued', Waiting', k, acked'[k], Val(store'[k]), After(Old', cmp'.base), snapFile'[cmp'.n],
                              cpc' = "snapshot", k \in cmp'.todo, rejected')
    BY DEF SnapSound
  <2>1. (cpc' = "snapshot") = FALSE
    BY <1>2
  <2> QED
    BY <1>1, <1>3, <1>4, <1>5, <1>7, <1>8, <2>1
<1>11. LocSound'
  <2>1. \A k \in Keys : KeyLoc(store'[k], k, Old', snapFile'[reader'.snap])
    BY <1>1, <1>4, <1>5 DEF LocSound
  <2>2. cpc' # "snapshot" /\ cpc # "snapshot"
    BY <1>2
  <2>3. \A k \in Keys :
          KeyMap(store'[k], k, cmp'.base, cmp'.locs[k], snapFile'[cmp'.n], cpc' = "snapshot" /\ k \in cmp'.todo)
    BY <1>1, <1>2, <2>2 DEF LocSound, KeyMap
  <2> QED
    BY <2>1, <2>3 DEF LocSound
<1>12. MemorySound' /\ BySound'
  BY <1>1, <1>3 DEF MemorySound, BySound
<1> QED
  BY <1>9, <1>10, <1>11, <1>12 DEF KeysSound

\* The end of a compaction: the pointers follow the files.
LEMMA EndKeys ==
  ASSUME Inv, Orderly, FinishCompaction \/ RollForward
  PROVE  KeysSound'
<1>1. /\ Typed /\ Typed' /\ ValueSound /\ LocSound /\ MemorySound /\ BySound /\ KeysSound /\ Drained
      /\ cpc' = "idle" /\ ~Loaded'
      /\ UNCHANGED <<disk, snapFile, walFile, snapAt, walAt, issued, acked, rejected>>
      /\ \/ ~Ahead /\ UNCHANGED <<store, reader>>
         \/ Ahead /\ Remapped
  BY EndTyped DEF Inv, KeysSound, Loaded, boundVars
<1>2. Waiting' = Waiting
  BY <1>1, EndsQueue
<1>3. Current' = Current
  BY <1>1 DEF Current
<1>4. CASE ~Ahead /\ UNCHANGED <<store, reader>>
  <2>1. Old' = Old
    BY <1>1, <1>4 DEF Old
  <2> QED
    BY <1>1, <1>2, <1>3, <1>4, <2>1, KeysStay
<1>5. CASE Ahead /\ Remapped
  <2>1. /\ snapAt = cmp.n /\ Current = After(Old, cmp.base) /\ cmp.base <= Len(Old)
        /\ \A k \in Keys : KeyMap(store[k], k, cmp.base, cmp.locs[k], snapFile[cmp.n], FALSE)
        /\ \A k \in Keys : KeyLoc(store[k], k, Old, snapFile[reader.snap])
    BY <1>5, AheadFiles
  <2>2. PICK new : new = After(Old, cmp.base)
    OBVIOUS
  <2>3. /\ reader' = [snap |-> snapAt, wal |-> walAt]
        /\ \A k \in Keys :
             /\ store'[k] = None <=> store[k] = None
             /\ store[k] # None => /\ store'[k].val = store[k].val /\ store'[k].by = store[k].by
                                   /\ store'[k].loc = None <=> store[k].loc = None
             /\ KeyLoc(store'[k], k, new, snapFile[cmp.n])
    BY <1>1, <1>5, <2>1, <2>2, RemappedIs
  <2>4. Old' = new /\ snapFile'[reader'.snap] = snapFile[cmp.n]
    BY <1>1, <2>1, <2>2, <2>3 DEF Old, Current
  <2>5. \A k \in Keys : Val(store'[k]) = Val(store[k])
    BY <2>3 DEF Val
  <2>6. ValueSound'
    BY <1>1, <1>2, <1>3, <2>5 DEF ValueSound
  <2>7. SnapSound'
    BY <1>1 DEF SnapSound
  <2>8. LocSound'
    BY <1>1, <2>3, <2>4 DEF LocSound
  <2>9. MemorySound'
    BY <1>1, <1>2, <2>3 DEF MemorySound
  <2>10. BySound'
    BY <1>1, <2>3 DEF BySound
  <2> QED
    BY <2>6, <2>7, <2>8, <2>9, <2>10 DEF KeysSound
<1> QED
  BY <1>1, <1>4, <1>5

\* A crash: what is replayed is as recent as what was acknowledged.
LEMMA CrashKeys ==
  ASSUME Inv, Orderly, NEW n \in 0..Len(wal.batch), Crash(n)
  PROVE  KeysSound'
<1>1. /\ Typed /\ Typed' /\ QueueSound /\ ValueSound
      /\ Current' = Truncated(Current \o SubSeq(Frames(wal.batch), 1, n))
      /\ \A k \in Keys : store'[k] = RecoveredRecord(snapFile[snapAt], Current', k)
      /\ UNCHANGED <<disk, snapFile, snapAt, walAt, issued, acked, rejected>>
      /\ reader' = [snap |-> snapAt, wal |-> walAt]
  BY CrashTyped DEF Inv, KeysSound
<1>2. Waiting' = <<>>
  BY CrashQueue
<1>3. cpc' = "idle" /\ ~Loaded'
  BY DEF Crash, Loaded
<1>4. PICK p \in Seq(Calls) : p = Waiting /\ Queued(issued, p) /\ n \in 0..Len(p)
  <2>1. Waiting \in Seq(Calls) /\ Len(Waiting) \in Nat
    BY <1>1, PendTyped
  <2>2. PICK m \in Nat : m = Len(wal.batch) /\ m \in 0..Len(Waiting)
    <3>1. Len(wal.batch) \in Nat /\ Len(wal.batch) \in 0..Len(Waiting)
      BY <1>1, BatchFrames DEF Typed, FlowTyped, Wals
    <3> QED
      BY <3>1
  <2>3. n \in 0..Len(Waiting)
    BY <2>1, <2>2
  <2> QED
    BY <1>1, <2>1, <2>3 DEF QueueSound
<1>5. PICK f \in Seq(Frame), c \in Seq(Frame), s \in Seq(Frame) :
        f = SubSeq(Frames(wal.batch), 1, n) /\ f = SubSeq(Written(p), 1, n) /\ c = Current /\ s = snapFile[snapAt]
  <2>1. SubSeq(Frames(wal.batch), 1, n) \in Seq(Frame) /\ SubSeq(Frames(wal.batch), 1, n) = SubSeq(Written(p), 1, n)
    BY <1>1, <1>4, BatchFrames
  <2> QED
    BY <1>1, <2>1, CurrentTyped
<1>6. PICK g \in Seq(Frame), log \in Seq(Frame) : g = c \o f /\ log = Truncated(g) /\ log = Current'
  <2>1. c \o f \in Seq(Frame)
    OBVIOUS
  <2>2. PICK g \in Seq(Frame) : g = c \o f
    BY <2>1
  <2>3. Truncated(g) \in Seq(Frame)
    BY TornSkipped
  <2> QED
    BY <1>1, <1>5, <2>2, <2>3
<1>7. \A k : Replayed(s, log, k) = Replayed(s, g, k)
  <2> SUFFICES ASSUME NEW k
               PROVE  Replayed(s, log, k) = Replayed(s, g, k)
    OBVIOUS
  <2>1. (Touches(log, k) <=> Touches(g, k)) /\ LastVal(log, k) = LastVal(g, k)
    BY <1>6, TornSkipped
  <2> QED
    BY <2>1 DEF Replayed
<1>8. issued \in Seq(OpsSet) /\ rejected \in BOOLEAN /\ disk \in BOOLEAN
  BY <1>1 DEF Typed, DataTyped
<1>9. ASSUME NEW k \in Keys
      PROVE  /\ Val(store'[k]) = Replayed(s, log, k)
             /\ KeyLoc(store'[k], k, log, s)
             /\ store'[k] # None => store'[k].by = 0 /\ (~disk => store'[k].loc = None)
  <2>1. store'[k] = RecoveredRecord(s, log, k)
    BY <1>1, <1>5, <1>6
  <2>2. /\ Val(RecoveredRecord(s, log, k)) = Replayed(s, log, k)
        /\ KeyLoc(RecoveredRecord(s, log, k), k, log, s)
        /\ RecoveredRecord(s, log, k) # None =>
             /\ RecoveredRecord(s, log, k).by = 0
             /\ ~disk => RecoveredRecord(s, log, k).loc = None
    BY <1>8, RecoveredTyped
  <2> QED
    BY <2>1, <2>2
<1>10. ValueSound'
  <2> SUFFICES ASSUME NEW k \in Keys
               PROVE  KeyValue(issued', Waiting', k, acked'[k], Val(store'[k]),
                               Replayed(snapFile'[snapAt'], Current', k), rejected')
    BY DEF ValueSound
  <2>1. PICK a, v, d, b : /\ a = acked[k] /\ v = Val(store[k])
                         /\ d = Replayed(s, c, k) /\ b = Replayed(s, c \o f, k)
    OBVIOUS
  <2>2. KeyValue(issued, p, k, a, v, d, rejected)
    BY <1>1, <1>4, <1>5, <2>1 DEF ValueSound
  <2>3. PICK x : Landed(issued, p, n, k, a, d, x, b)
    BY <1>4, <1>5, <1>8, <2>1, LandedSome
  <2>4. Recent(issued, a, <<>>, 0, k, b)
    BY <1>4, <1>8, <2>2, <2>3, LandedRecent
  <2>5. KeyValue(issued, <<>>, k, a, b, b, rejected)
    BY <2>2, <2>4, RestartKeepsValue DEF KeyValue
  <2>6. Val(store'[k]) = b /\ Replayed(snapFile'[snapAt'], Current', k) = b
    BY <1>1, <1>5, <1>6, <1>7, <1>9, <2>1
  <2> QED
    BY <1>1, <1>2, <2>1, <2>5, <2>6
<1>11. SnapSound'
  BY <1>3 DEF SnapSound
<1>12. LocSound'
  <2>1. Old' = log /\ snapFile'[reader'.snap] = s
    BY <1>1, <1>5, <1>6 DEF Old, Current
  <2> QED
    BY <1>3, <1>9, <2>1 DEF LocSound
<1>13. MemorySound'
  BY <1>1, <1>2, <1>9 DEF MemorySound
<1>14. BySound'
  BY <1>9 DEF BySound
<1> QED
  BY <1>10, <1>11, <1>12, <1>13, <1>14 DEF KeysSound

-----------------------------------------------------------------------------
(* Two writers of a key that are refused together *)

\* A record that a rollback has left as it was, or made anew.
Same(r, s) ==
  /\ r = None <=> s = None
  /\ s # None => r.val = s.val /\ r.loc = s.loc /\ (r.by = s.by \/ r.by = 0)
\* What a write that was not logged has left of key k.
Unlogged(r, ops, i, k) ==
  /\ k \in DOMAIN ops /\ Val(r) = (IF ops[k] = "set" THEN i ELSE 0)
  /\ r # None => r.by = 0 /\ r.loc = None

\* Touched() leaves every record as it was, or makes it anew.
LEMMA TouchedSame ==
  ASSUME Typed, NEW ops, NEW k \in Keys
  PROVE  Touched(ops)[k] \in Records \cup {None} /\ Same(Touched(ops)[k], store[k])
<1>1. PICK t \in Stores : t = Touched(ops)
  BY TouchedTyped
<1>2. /\ \/ t[k] = store[k]
         \/ t[k] # None /\ store[k] # None /\ t[k].by = 0 /\ t[k].val = store[k].val /\ t[k].loc = store[k].loc
      /\ t[k] = None <=> store[k] = None
  BY <1>1, TouchedTyped
<1>3. t[k] \in Records \cup {None}
  BY <1>1 DEF Stores
<1>4. Same(t[k], store[k])
  BY <1>2 DEF Same
<1> QED
  BY <1>1, <1>3, <1>4

\* The store when both have rolled back.
LEMMA LeftTyped ==
  ASSUME Typed, NEW first \in OpsSet, NEW second \in OpsSet, NEW i \in Nat
  PROVE  /\ LeftBehind(first, second, i) \in Stores
         /\ \A k \in Keys : \/ Same(LeftBehind(first, second, i)[k], store[k])
                            \/ Unlogged(LeftBehind(first, second, i)[k], first, i, k)
<1>1. PICK r \in Records : r = [val |-> i, loc |-> None, by |-> 0]
  BY DEF Records
<1>2. r # None /\ r.val = i /\ r.loc = None /\ r.by = 0
  BY <1>1, NoneAssumption
<1>3. PICK t : t = LeftBehind(first, second, i)
  OBVIOUS
<1>4. t = [k \in Keys |-> t[k]]
  BY <1>3 DEF LeftBehind
<1>5. ASSUME NEW k \in Keys
      PROVE  t[k] \in Records \cup {None} /\ (Same(t[k], store[k]) \/ Unlogged(t[k], first, i, k))
  <2>1. t[k] = IF k \notin Contested(first, second)
                 THEN IF k \in DOMAIN first THEN Touched(first)[k] ELSE Touched(second)[k]
               ELSE IF first[k] = "set" THEN r ELSE None
    BY <1>1, <1>3 DEF LeftBehind
  <2>2. CASE k \notin Contested(first, second)
    <3>1. t[k] = Touched(first)[k] \/ t[k] = Touched(second)[k]
      BY <2>1, <2>2
    <3> QED
      BY <3>1, TouchedSame
  <2>3. CASE k \in Contested(first, second)
    <3>1. k \in DOMAIN first
      BY <2>3 DEF Contested
    <3>2. t[k] = IF first[k] = "set" THEN r ELSE None
      BY <2>1, <2>3
    <3>3. Unlogged(t[k], first, i, k)
      BY <1>2, <3>1, <3>2 DEF Unlogged, Val
    <3> QED
      BY <3>2, <3>3
  <2> QED
    BY <2>2, <2>3
<1>6. t \in Stores
  BY <1>4, <1>5 DEF Stores
<1> QED
  BY <1>3, <1>5, <1>6

\* Both commits are refused.
LEMMA PairTyped ==
  ASSUME Typed, NEW v \in Writers, NEW w \in Writers, NEW first \in OpsSet, NEW second \in OpsSet,
         CommitsRejected(v, w, first, second)
  PROVE  Typed' /\ store' = LeftBehind(first, second, Len(issued) + 1)
<1>1. PICK i \in Nat : i = Len(issued) + 1
  BY DEF Typed, DataTyped
<1>2. StoreBecomes(LeftBehind(first, second, i)) /\ LeftBehind(first, second, i) \in Stores
  BY <1>1, LeftTyped DEF CommitsRejected
<1>3. store' \in Stores /\ store' = LeftBehind(first, second, i) /\ cmp' \in Cmps
  BY <1>2, StoreBecomesTyped
<1>4. wpc' \in [Writers -> Wpcs]
  BY DEF Typed, FlowTyped, CommitsRejected, Wpcs
<1>5. call' \in [Writers -> Calls]
  <2>1. call \in [Writers -> Calls] /\ NoCall \in Calls
    BY Torns DEF Typed, DataTyped
  <2>2. \A x \in Writers : \A ops \in OpsSet : [call[x] EXCEPT !.ops = ops] \in Calls
    BY <2>1 DEF Calls
  <2>3. \A x \in Writers : [call[x] EXCEPT !.ops = IF x = v THEN first ELSE second] \in Calls
    BY <2>2
  <2> QED
    BY <2>1, <2>3 DEF CommitsRejected
<1>6. issued' \in Seq(OpsSet)
  BY DEF Typed, DataTyped, CommitsRejected
<1>7. FilesTyped'
  BY DEF Typed, FilesTyped, CommitsRejected, fileVars
<1>8. DataTyped'
  BY <1>3, <1>5, <1>6 DEF Typed, DataTyped, CommitsRejected
<1>9. FlowTyped'
  BY <1>3, <1>4 DEF Typed, FlowTyped, CommitsRejected
<1> QED
  BY <1>1, <1>3, <1>7, <1>8, <1>9 DEF Typed

\* They leave the compaction, the log and the files where they are.
LEMMA PairFlow ==
  ASSUME Inv, NEW v \in Writers, NEW w \in Writers, NEW first \in OpsSet, NEW second \in OpsSet,
         CommitsRejected(v, w, first, second)
  PROVE  ControlSound' /\ WalSound' /\ FileSound' /\ CopySound'
<1>1. UNCHANGED <<fileVars, wal, cpc, lock, unopened, compactions>> /\ Old' = Old /\ Current' = Current
  BY DEF CommitsRejected, fileVars, Old, Current
<1>2. cmp'.n = cmp.n /\ cmp'.rotated = cmp.rotated /\ cmp'.base = cmp.base /\ cmp'.copied = cmp.copied
  BY StoreBecomesFlow DEF CommitsRejected, Inv
<1>3. (\E x \in {v, w} : Retries(x)) => lock
  <2>1. ASSUME NEW x \in Writers, Retries(x)
        PROVE  lock
    <3>1. lock \/ (~wal.closed /\ wal.sealed)
      BY <2>1 DEF CommitsRejected, Retries
    <3>2. ~wal.closed /\ wal.sealed => lock
      BY DEF Inv, ControlSound, Rotating, Typed, FlowTyped, Cpcs
    <3> QED
      BY <3>1, <3>2
  <2> QED
    BY <2>1
<1>4. \A x \in Writers : wpc'[x] \in {"parked", "retry"} => lock
  <2>1. \A x \in Writers : wpc[x] \in {"parked", "retry"} => lock
    BY DEF Inv, ControlSound
  <2> QED
    BY <1>3, <2>1 DEF CommitsRejected
<1>5. ControlSound'
  BY <1>1, <1>2, <1>4, ControlStays DEF Inv
<1>6. WalSound'
  BY <1>1, <1>2, WalStays DEF Inv, Drained
<1> QED
  BY <1>1, <1>2, <1>5, <1>6, FileStays, CopyStays DEF Inv, fileVars

\* Nothing of what is on its way changes.
LEMMA PairQueue ==
  ASSUME Inv, NEW v \in Writers, NEW w \in Writers, NEW first \in OpsSet, NEW second \in OpsSet,
         CommitsRejected(v, w, first, second)
  PROVE  QueueSound' /\ Waiting' = Waiting
<1>1. /\ UNCHANGED <<disk, wal>> /\ Pend' = Pend /\ issued' = Append(issued, first)
      /\ \A x \in Writers \ {v, w} : wpc'[x] = wpc[x] /\ call'[x] = call[x]
      /\ wpc[v] # "queued" /\ wpc[w] # "queued"
  BY DEF CommitsRejected, Pend
<1>2. \A j \in DOMAIN Pend : wpc[Pend[j]] = "queued" /\ Pend[j] \in Writers \ {v, w}
  BY <1>1, PendTyped DEF Inv, QueueSound
<1>3. \A j \in DOMAIN Pend : wpc'[Pend[j]] = "queued" /\ call'[Pend[j]] = call[Pend[j]]
  BY <1>1, <1>2
<1>4. Waiting' = Waiting
  <2>1. [j \in DOMAIN Pend |-> call'[Pend[j]]] = [j \in DOMAIN Pend |-> call[Pend[j]]]
    BY <1>3
  <2> QED
    BY <1>1, <2>1 DEF Waiting
<1>5. Queued(issued', Waiting)
  <2>0. PICK iss \in Seq(OpsSet) : iss = issued
    BY DEF Inv, Typed, DataTyped
  <2>5. PICK t : t = Append(iss, first)
    OBVIOUS
  <2>1. iss = issued /\ t = Append(iss, first)
    BY <2>0, <2>5
  <2>2. Len(t) = Len(iss) + 1 /\ Len(iss) \in Nat /\ \A j \in 1..Len(iss) : t[j] = iss[j]
    BY <2>1
  <2>3. Queued(iss, Waiting)
    BY <2>1 DEF Inv, QueueSound
  <2>4. Queued(t, Waiting)
    BY <2>2, <2>3 DEF Queued
  <2> QED
    BY <1>1, <2>1, <2>4
<1>6. disk' => /\ wal'.next = wal'.size + Len(Pend')
               /\ \A j \in DOMAIN Pend' : call'[Pend'[j]].off = wal'.size + j - 1
  BY <1>1, <1>3 DEF Inv, QueueSound
<1> QED
  BY <1>1, <1>3, <1>4, <1>5, <1>6 DEF QueueSound

\* The value is as it was, or that of the write that was not logged.
LEMMA PairKeepsValue ==
  ASSUME NEW iss \in Seq(OpsSet), NEW p \in Seq(Calls), Queued(iss, p), NEW k, NEW a, NEW v, NEW d,
         NEW rej, KeyValue(iss, p, k, a, v, d, rej), NEW ops \in OpsSet, NEW x,
         x = v \/ (k \in DOMAIN ops /\ x = (IF ops[k] = "set" THEN Len(iss) + 1 ELSE 0))
  PROVE  KeyValue(Append(iss, ops), p, k, a, x, d, TRUE)
<1>0. PICK t : t = Append(iss, ops)
  OBVIOUS
<1>8. PICK m \in Nat, n \in Nat : m = Len(iss) /\ n = Len(p)
  OBVIOUS
<1>1. t = Append(iss, ops) /\ m = Len(iss) /\ n = Len(p)
  BY <1>0, <1>8
<1>2. /\ Len(t) = m + 1 /\ t[m + 1] = ops /\ \A j \in 1..m : t[j] = iss[j]
      /\ DOMAIN p = 1..n
  BY <1>1
<1>3. a \in 0..m /\ a \in 0..Len(t) /\ Hits(t, a, k)
  BY <1>1, <1>2 DEF KeyValue, Hits
<1>4. \A j \in Nat : \A y : Recent(iss, a, p, j, k, y) => Recent(t, a, p, j, k, y)
  BY <1>1, RecentStays
<1>5. \A j \in DOMAIN p : k \in DOMAIN p[j].ops =>
        a < p[j].id /\ Recent(t, a, p, j - 1, k, Val(p[j].prev[k]))
  <2> SUFFICES ASSUME NEW j \in DOMAIN p, k \in DOMAIN p[j].ops
               PROVE  a < p[j].id /\ Recent(t, a, p, j - 1, k, Val(p[j].prev[k]))
    OBVIOUS
  <2>1. j - 1 \in Nat
    BY <1>2
  <2>2. a < p[j].id /\ Recent(iss, a, p, j - 1, k, Val(p[j].prev[k]))
    BY DEF KeyValue
  <2> QED
    BY <1>4, <2>1, <2>2
<1>6. Recent(t, a, p, 0, k, d)
  BY <1>4 DEF KeyValue
<1>7. Recent(t, a, p, n, k, x)
  <2>1. CASE x = v
    <3>1. Recent(iss, a, p, n, k, v)
      BY <1>1 DEF KeyValue
    <3> QED
      BY <1>1, <1>4, <2>1, <3>1
  <2>2. CASE k \in DOMAIN ops /\ x = (IF ops[k] = "set" THEN Len(iss) + 1 ELSE 0)
    <3>1. \A j \in 1..n : p[j].id <= m + 1
      BY <1>1, <1>2 DEF Queued
    <3>2. m + 1 \in 0..Len(t) /\ a <= m + 1 /\ Hits(t, m + 1, k) /\ x = EffectOf(t, m + 1, k)
      BY <1>1, <1>2, <1>3, <2>2 DEF Hits, EffectOf
    <3> QED
      BY <3>1, <3>2 DEF Recent
  <2> QED
    BY <2>1, <2>2
<1> QED
  BY <1>1, <1>3, <1>5, <1>6, <1>7 DEF KeyValue

\* What is known of the keys afterwards.
LEMMA PairKeys ==
  ASSUME Inv, NEW v \in Writers, NEW w \in Writers, NEW first \in OpsSet, NEW second \in OpsSet,
         CommitsRejected(v, w, first, second)
  PROVE  KeysSound'
<1>1. /\ Typed /\ Typed' /\ QueueSound /\ ValueSound /\ SnapSound /\ LocSound /\ MemorySound /\ BySound
      /\ store' = LeftBehind(first, second, Len(issued) + 1)
  BY PairTyped DEF Inv, KeysSound
<1>2. Waiting' = Waiting
  BY PairQueue
<1>3. /\ UNCHANGED <<disk, acked, snapFile, walFile, snapAt, walAt, reader, cpc>>
      /\ issued' = Append(issued, first) /\ rejected' = TRUE /\ StoreBecomes(store')
  BY <1>1 DEF CommitsRejected, fileVars
<1>4. /\ cmp'.n = cmp.n /\ cmp'.base = cmp.base /\ cmp'.locs = cmp.locs /\ \A k \in cmp.todo : k \in cmp'.todo
  BY <1>1, <1>3, StoreChanges
<1>5. Old' = Old /\ Current' = Current /\ (Loaded' <=> Loaded)
  BY <1>3 DEF Old, Current, Loaded
<1>6. PICK i \in Nat : i = Len(issued) + 1
  BY <1>1 DEF Typed, DataTyped
<1>7. \A k \in Keys : Same(store'[k], store[k]) \/ Unlogged(store'[k], first, i, k)
  BY <1>1, <1>6, LeftTyped
<1>8. /\ Waiting \in Seq(Calls) /\ issued \in Seq(OpsSet) /\ Queued(issued, Waiting)
  BY <1>1, PendTyped DEF Typed, DataTyped, QueueSound
<1>9. ValueSound'
  <2> SUFFICES ASSUME NEW k \in Keys
               PROVE  KeyValue(issued', Waiting', k, acked'[k], Val(store'[k]),
                               Replayed(snapFile'[snapAt'], Current', k), rejected')
    BY DEF ValueSound
  <2>1. PICK a, x, y, d : /\ a = acked[k] /\ x = Val(store[k]) /\ y = Val(store'[k])
                          /\ d = Replayed(snapFile[snapAt], Current, k)
    OBVIOUS
  <2>2. KeyValue(issued, Waiting, k, a, x, d, rejected)
    BY <1>1, <2>1 DEF ValueSound
  <2>3. y = x \/ (k \in DOMAIN first /\ y = (IF first[k] = "set" THEN Len(issued) + 1 ELSE 0))
    BY <1>6, <1>7, <2>1 DEF Same, Unlogged, Val
  <2>4. KeyValue(Append(issued, first), Waiting, k, a, y, d, TRUE)
    BY <1>8, <2>2, <2>3, PairKeepsValue
  <2> QED
    BY <1>2, <1>3, <1>5, <2>1, <2>4
<1>10. SnapSound'
  <2> SUFFICES ASSUME Loaded, NEW k \in Keys
               PROVE  KeySnap(issued', Waiting', k, acked'[k], Val(store'[k]), After(Old', cmp'.base), snapFile'[cmp'.n],
                              cpc' = "snapshot", k \in cmp'.todo, rejected')
    BY <1>5 DEF SnapSound
  <2>1. PICK a, snap, tail : a = acked[k] /\ snap = snapFile[cmp.n] /\ tail = After(Old, cmp.base)
    OBVIOUS
  <2>2. KeySnap(issued, Waiting, k, a, Val(store[k]), tail, snap, cpc = "snapshot", k \in cmp.todo, rejected)
    BY <1>1, <2>1 DEF SnapSound
  <2>3. Recent(issued, a, <<>>, 0, k, LastVal(snap, k)) => Recent(Append(issued, first), a, <<>>, 0, k, LastVal(snap, k))
    BY <1>8, RecentStays
  <2>4. KeySnap(Append(issued, first), Waiting, k, a, Val(store'[k]), tail, snap, cpc = "snapshot", k \in cmp'.todo, TRUE)
    BY <1>4, <2>2, <2>3 DEF KeySnap
  <2> QED
    BY <1>2, <1>3, <1>4, <1>5, <2>1, <2>4
<1>11. LocSound'
  <2>1. \A k \in Keys : KeyLoc(store'[k], k, Old', snapFile'[reader'.snap])
    BY <1>1, <1>3, <1>5, <1>7 DEF LocSound, KeyLoc, Same, Unlogged
  <2>2. ASSUME Loaded', NEW k \in Keys
        PROVE  KeyMap(store'[k], k, cmp'.base, cmp'.locs[k], snapFile'[cmp'.n], cpc' = "snapshot" /\ k \in cmp'.todo)
    <3>1. KeyMap(store[k], k, cmp.base, cmp.locs[k], snapFile[cmp.n], cpc = "snapshot" /\ k \in cmp.todo)
      BY <1>1, <1>5, <2>2 DEF LocSound
    <3> QED
      BY <1>3, <1>4, <1>7, <3>1 DEF KeyMap, Same, Unlogged
  <2> QED
    BY <2>1, <2>2 DEF LocSound
<1>12. MemorySound'
  BY <1>1, <1>2, <1>3, <1>7 DEF MemorySound, Same, Unlogged
<1>13. BySound'
  <2> SUFFICES ASSUME NEW k \in Keys, store'[k] # None, store'[k].by # 0
               PROVE  /\ store'[k].by \in 1..Len(issued') /\ k \in DOMAIN issued'[store'[k].by]
                      /\ issued'[store'[k].by][k] = "set" /\ store'[k].val = store'[k].by
    BY DEF BySound
  <2>1. store[k] # None /\ store'[k].by = store[k].by /\ store'[k].val = store[k].val
    BY <1>7 DEF Same, Unlogged
  <2>6. PICK s, t : s = issued /\ t = issued'
    OBVIOUS
  <2>2. s \in Seq(OpsSet) /\ s = issued /\ t = Append(s, first) /\ t = issued'
    BY <1>3, <1>8, <2>6
  <2>8. s \in Seq(OpsSet) /\ t = Append(s, first)
    BY <2>2
  <2>3. Len(t) = Len(s) + 1 /\ Len(s) \in Nat /\ \A j \in 1..Len(s) : t[j] = s[j]
    BY <2>8
  <2>4. /\ store[k].by \in 1..Len(s) /\ k \in DOMAIN s[store[k].by]
        /\ s[store[k].by][k] = "set" /\ store[k].val = store[k].by
    BY <1>1, <2>1, <2>2 DEF BySound
  <2>7. PICK b \in 1..Len(s) : b = store[k].by
    BY <2>4
  <2>5. b \in 1..Len(t) /\ t[b] = s[b]
    BY <2>3, <2>7
  <2> QED
    BY <2>1, <2>2, <2>4, <2>5, <2>7
<1> QED
  BY <1>9, <1>10, <1>11, <1>12, <1>13 DEF KeysSound

-----------------------------------------------------------------------------
(* Every step preserves the invariant *)

\* Steps of the writers and of the log.
LEMMA WritersInv ==
  ASSUME Inv, Orderly, NEW w \in Writers, Call(w) \/ WriterStep(w)
  PROVE  Inv'
<1>1. Typed
  BY DEF Inv
<1>2. CASE Call(w)
  <2>1. Torn \in OpsSet
    BY Torns
  <2>2. Typed' /\ QueueSound' /\ Waiting' = Waiting
    BY <1>1, <1>2, CallTyped, CallQueue
  <2>3. ControlSound' /\ WalSound' /\ FileSound' /\ CopySound'
    BY <1>2, <2>1, WritersControl, WritersWal, WritersFiles
  <2>4. KeysSound'
    BY <1>2, <2>2, StillKeys
  <2> QED
    BY <2>2, <2>3, <2>4 DEF Inv
<1>3. ASSUME NEW ops \in Chosen(w), Commit(w, ops)
      PROVE  Inv'
  <2>1. ops \in OpsSet
    BY <1>1, ChosenTyped
  <2>2. Typed' /\ QueueSound'
    BY <1>1, <1>3, <2>1, CommitTyped, CommitQueue
  <2>3. ControlSound' /\ WalSound' /\ FileSound' /\ CopySound'
    BY <1>3, <2>1, WritersControl, WritersWal, WritersFiles
  <2>4. KeysSound'
    BY <1>3, <2>1, CommitKeys
  <2> QED
    BY <2>2, <2>3, <2>4 DEF Inv
<1>4. ASSUME NEW ops \in Chosen(w), CommitRejected(w, ops)
      PROVE  Inv'
  <2>1. ops \in OpsSet
    BY <1>1, ChosenTyped
  <2>2. Typed' /\ QueueSound'
    BY <1>1, <1>4, <2>1, RejectedTyped, RejectedQueue
  <2>3. ControlSound' /\ WalSound' /\ FileSound' /\ CopySound'
    BY <1>4, <2>1, WritersControl, WritersWal, WritersFiles
  <2>4. KeysSound'
    BY <1>4, <2>1, RejectedKeys
  <2> QED
    BY <2>2, <2>3, <2>4 DEF Inv
<1> QED
  BY <1>2, <1>3, <1>4 DEF WriterStep

\* Two writers that are refused together.
LEMMA PairInv ==
  ASSUME Inv, NEW v \in Writers, NEW w \in Writers, NEW first \in Chosen(v), NEW second \in Chosen(w),
         CommitsRejected(v, w, first, second)
  PROVE  Inv'
<1>1. first \in OpsSet /\ second \in OpsSet
  BY ChosenTyped DEF Inv
<1> QED
  BY <1>1, PairTyped, PairQueue, PairFlow, PairKeys DEF Inv

\* Steps of the write-ahead log.
LEMMA LogInv ==
  ASSUME Inv, Orderly, WalStep
  PROVE  Inv'
<1>1. Typed /\ QueueSound
  BY DEF Inv
<1>2. CASE FlushBatch
  <2>1. Typed' /\ QueueSound' /\ Waiting' = Waiting
    BY <1>1, <1>2, FlushBatchTyped, BatchQueue
  <2>2. ControlSound' /\ WalSound'
    BY <1>2, LogControl, LogWal
  <2>3. FileSound' /\ CopySound'
    <3>1. PICK w \in Writers : TRUE
      <4>1. wal.queue \in Seq(Writers) /\ wal.queue # <<>>
        BY <1>1, <1>2 DEF FlushBatch, Typed, FlowTyped, Wals
      <4>2. Len(wal.queue) # 0
        BY <4>1, EmptySeq
      <4>3. 1 \in DOMAIN wal.queue
        BY <4>1, <4>2
      <4>4. wal.queue[1] \in Writers
        BY <4>1, <4>3, ElementOfSeq
      <4> QED
        BY <4>4
    <3> QED
      BY <1>2, <3>1, Torns, WritersFiles
  <2>4. KeysSound'
    BY <1>2, <2>1, StillKeys
  <2> QED
    BY <2>1, <2>2, <2>3, <2>4 DEF Inv
<1>3. CASE FlushLands
  <2>1. Typed' /\ QueueSound'
    BY <1>1, <1>3, FlushLandsTyped, LandsQueue
  <2>2. ControlSound' /\ WalSound' /\ FileSound' /\ CopySound'
    BY <1>3, LogControl, LogWal, LandsFiles
  <2>3. KeysSound'
    BY <1>3, LandsKeys
  <2> QED
    BY <2>1, <2>2, <2>3 DEF Inv
<1>4. ASSUME NEW n \in 0..Len(wal.batch), NEW torn \in BOOLEAN, FlushFails(n, torn)
      PROVE  Inv'
  <2>1. Typed' /\ QueueSound'
    BY <1>1, <1>4, FlushFailsTyped, FailsQueue
  <2>2. ControlSound' /\ WalSound' /\ FileSound' /\ CopySound'
    BY <1>4, LogControl, LogWal, FailsFiles
  <2>3. KeysSound'
    BY <1>4, FailsKeys
  <2> QED
    BY <2>1, <2>2, <2>3 DEF Inv
<1> QED
  BY <1>2, <1>3, <1>4 DEF WalStep

\* Steps of the compaction.
LEMMA GoesInv ==
  ASSUME Inv, Orderly,
         \/ StartCompaction \/ Fence \/ SnapshotDone \/ Rotate \/ DrainDone \/ CloseWal
         \/ RenameSnapshot \/ RenameWal \/ SwapWal
  PROVE  Inv'
<1>1. Typed'
  BY StartTyped, FenceTyped, MovesTyped, RenamesTyped DEF Inv
<1>2. QueueSound' /\ Waiting' = Waiting
  BY <1>1, MovesQueue
<1>3. ControlSound' /\ WalSound' /\ FileSound' /\ CopySound'
  BY MovesControl, MovesWal, MovesFiles
<1>4. KeysSound'
  BY <1>2, StillKeys, FenceKeys, DoneKeys, RenameKeys
<1> QED
  BY <1>1, <1>2, <1>3, <1>4 DEF Inv

\* Copies of the log and entries of the snapshot.
LEMMA CopiesInv ==
  ASSUME Inv, Orderly, PreCopy \/ DrainCopy \/ \E k \in Keys : SnapshotEntry(k)
  PROVE  Inv'
<1>1. CASE PreCopy \/ DrainCopy
  <2>1. Loaded /\ ~Ahead /\ ~unopened
    BY <1>1 DEF PreCopy, DrainCopy, Loaded, Ahead, Inv, ControlSound
  <2>2. /\ wal.size = Len(Current) /\ Len(Current) \in Nat /\ cmp.copied <= Len(Old) /\ Old = Current
    BY <2>1, OpenedTyped DEF Inv, WalSound, FileSound, CopySound, Old, Current
  <2>3. wal.size <= Len(Current) /\ cmp.copied <= Len(Current)
    BY <2>2
  <2>4. Typed'
    BY <1>1, <2>3, CopyTyped DEF Inv
  <2>5. QueueSound' /\ Waiting' = Waiting
    BY <1>1, <2>4, MovesQueue
  <2>6. ControlSound' /\ WalSound' /\ FileSound' /\ CopySound'
    BY <1>1, EntryControl, EntryWal, CopyFiles
  <2>7. KeysSound'
    BY <1>1, <2>5, CopyKeys
  <2> QED
    BY <2>4, <2>5, <2>6, <2>7 DEF Inv
<1>2. ASSUME NEW k \in Keys, SnapshotEntry(k)
      PROVE  Inv'
  <2>1. Typed'
    BY <1>2, EntryTyped DEF Inv, KeysSound
  <2>2. QueueSound'
    BY <1>2, <2>1, MovesQueue
  <2>3. ControlSound' /\ WalSound' /\ FileSound' /\ CopySound'
    BY <1>2, EntryControl, EntryWal, EntryFiles
  <2>4. KeysSound'
    BY <1>2, EntryKeys
  <2> QED
    BY <2>1, <2>2, <2>3, <2>4 DEF Inv
<1> QED
  BY <1>1, <1>2

\* The ends of a compaction, and a crash.
LEMMA EndsInv ==
  ASSUME Inv, Orderly,
         \/ FinishCompaction \/ RollForward \/ CompactionThrows \/ RollForwardFails
         \/ \E n \in 0..Len(wal.batch) : Crash(n)
  PROVE  Inv'
<1>1. ControlSound' /\ WalSound' /\ FileSound' /\ CopySound'
  BY EndsControl, EndsWal, EndsFiles
<1>2. CASE FinishCompaction \/ RollForward \/ CompactionThrows \/ RollForwardFails
  <2>1. Typed'
    BY <1>2, EndTyped, ThrowsTyped, FailsTyped DEF Inv
  <2>2. QueueSound' /\ Waiting' = Waiting
    BY <1>2, <2>1, EndsQueue
  <2>3. KeysSound'
    BY <1>2, <2>2, EndKeys, StillKeys
  <2> QED
    BY <1>1, <2>1, <2>2, <2>3 DEF Inv
<1>3. ASSUME NEW n \in 0..Len(wal.batch), Crash(n)
      PROVE  Inv'
  <2>1. Typed' /\ QueueSound' /\ KeysSound'
    BY <1>3, CrashTyped, CrashQueue, CrashKeys DEF Inv
  <2> QED
    BY <1>1, <2>1 DEF Inv
<1> QED
  BY <1>2, <1>3

\* A step that changes nothing.
LEMMA StutterInv ==
  ASSUME Inv, UNCHANGED vars
  PROVE  Inv'
<1>1. /\ UNCHANGED <<disk, store, wal, snapFile, walFile, snapAt, walAt, reader, cpc, cmp, lock, wpc, call>>
      /\ UNCHANGED <<issued, acked, compactions, faults, rejected, unopened>>
  BY DEF vars, fileVars, boundVars
<1>2. Typed'
  BY <1>1 DEF Inv, Typed, FilesTyped, DataTyped, FlowTyped
<1>3. Pend' = Pend /\ Waiting' = Waiting /\ Current' = Current /\ Old' = Old
      /\ (Drained' <=> Drained) /\ (Ahead' <=> Ahead) /\ (Loaded' <=> Loaded) /\ (Rotating' <=> Rotating)
  BY <1>1 DEF Pend, Waiting, Current, Old, Drained, Ahead, Loaded, Rotating
<1>4. QueueSound'
  BY <1>1, <1>3 DEF Inv, QueueSound
<1>5. ControlSound' /\ WalSound'
  BY <1>1, <1>3 DEF Inv, ControlSound, WalSound
<1>6. FileSound' /\ CopySound'
  BY <1>1, <1>3 DEF Inv, FileSound, CopySound
<1>7. KeysSound'
  BY <1>1, <1>3, KeysStay DEF Inv
<1> QED
  BY <1>2, <1>4, <1>5, <1>6, <1>7 DEF Inv

\* Every step keeps the invariant.
LEMMA NextInv ==
  ASSUME Inv, Orderly, [Next]_vars
  PROVE  Inv'
<1>1. CASE \E w \in Writers : Call(w) \/ WriterStep(w)
  BY <1>1, WritersInv
<1>2. CASE WalStep
  BY <1>2, LogInv
<1>6. CASE \E v, w \in Writers : \E first \in Chosen(v), second \in Chosen(w) :
             CommitsRejected(v, w, first, second)
  BY <1>6, PairInv
<1>3. CASE StartCompaction \/ CompactionStep \/ PreCopy \/ CompactionThrows \/ RollForwardFails
  BY <1>3, GoesInv, CopiesInv, EndsInv DEF CompactionStep
<1>4. CASE \E n \in 0..Len(wal.batch) : Crash(n)
  BY <1>4, EndsInv
<1>5. CASE UNCHANGED vars
  BY <1>5, StutterInv
<1> QED
  BY <1>1, <1>2, <1>3, <1>4, <1>5, <1>6 DEF Next

-----------------------------------------------------------------------------
(* What the invariant says *)

\* The values of a key, one of which is what replaying the files yields.
LEMMA Survives ==
  ASSUME NEW iss, NEW p, NEW k, NEW a, NEW v, NEW d, NEW rej, Len(iss) \in Nat,
         KeyValue(iss, p, k, a, v, d, rej)
  PROVE  \E i \in a..Len(iss) : (i = a \/ k \in DOMAIN iss[i]) /\ d = EffectOf(iss, i, k)
<1>1. PICK i \in 0..Len(iss) : a <= i /\ Hits(iss, i, k) /\ d = EffectOf(iss, i, k)
  BY DEF KeyValue, Recent
<1>2. a \in 0..Len(iss)
  BY DEF KeyValue
<1>3. i \in a..Len(iss)
  BY <1>1, <1>2
<1>4. i = a \/ k \in DOMAIN iss[i]
  <2>1. CASE i = 0
    BY <1>1, <1>2, <2>1
  <2>2. CASE i # 0
    BY <1>1, <2>2 DEF Hits
  <2> QED
    BY <2>1, <2>2
<1> QED
  BY <1>1, <1>3, <1>4

\* The files as recovery finds them.
LEMMA RecoveredNow ==
  ASSUME Inv, NEW k \in Keys
  PROVE  Recovered(snapFile[snapAt], Current, k).val = Replayed(snapFile[snapAt], Current, k)
<1>1. snapFile[snapAt] \in Seq(Frame) /\ Current \in Seq(Frame)
  BY DEF Inv, Typed, FilesTyped, Current
<1> QED
  BY <1>1, RecoveredIs

\* The invariant says that an acknowledged write survives.
LEMMA InvSurvives ==
  ASSUME Inv
  PROVE  AckedSurvive
<1> SUFFICES ASSUME NEW k \in Keys
             PROVE  \E i \in acked[k]..Len(issued) :
                      /\ i = acked[k] \/ k \in DOMAIN issued[i]
                      /\ Recovered(snapFile[snapAt], Current, k).val = Effect(i, k)
  BY DEF AckedSurvive
<1>1. Len(issued) \in Nat
  BY DEF Inv, Typed, DataTyped
<1>2. PICK d : d = Replayed(snapFile[snapAt], Current, k)
  OBVIOUS
<1>3. KeyValue(issued, Waiting, k, acked[k], Val(store[k]), d, rejected)
  BY <1>2 DEF Inv, KeysSound, ValueSound
<1>4. PICK i \in acked[k]..Len(issued) : (i = acked[k] \/ k \in DOMAIN issued[i]) /\ d = EffectOf(issued, i, k)
  BY <1>1, <1>3, Survives
<1>5. EffectOf(issued, i, k) = Effect(i, k)
  BY DEF EffectOf, Effect
<1> QED
  BY <1>2, <1>4, <1>5, RecoveredNow

\* The invariant says that what is applied is what is durable.
LEMMA InvDurable ==
  ASSUME Inv
  PROVE  MemoryIsDurable
<1> SUFFICES ASSUME Drained, ~rejected, NEW k \in Keys
             PROVE  Recovered(snapFile[snapAt], Current, k).val = Val(store[k])
  BY DEF MemoryIsDurable, Val
<1>1. Pend = <<>> /\ DOMAIN Waiting = {}
  <2>1. Pend = <<>> \o <<>>
    BY DEF Pend, Drained
  <2>2. Pend = <<>>
    BY <2>1
  <2>3. DOMAIN Pend = {}
    BY <2>2
  <2> QED
    BY <2>2, <2>3 DEF Waiting
<1>2. ~Waits(Waiting, k)
  BY <1>1 DEF Waits
<1>3. PICK d : d = Replayed(snapFile[snapAt], Current, k)
  OBVIOUS
<1>4. KeyValue(issued, Waiting, k, acked[k], Val(store[k]), d, rejected)
  BY <1>3 DEF Inv, KeysSound, ValueSound
<1>5. Val(store[k]) = d
  BY <1>2, <1>4 DEF KeyValue
<1> QED
  BY <1>3, <1>5, RecoveredNow

\* The invariant holds throughout.
LEMMA AlwaysInv ==
  ASSUME Orderly
  PROVE  Spec => []Inv
<1>1. Init => Inv
  BY InitInv
<1>2. Inv /\ [Next]_vars => Inv'
  BY NextInv
<1> QED
  BY <1>1, <1>2, PTL DEF Spec

\* For any number of keys, writers, commits and compactions: an acknowledged write
\* survives a crash at any moment, in particular between the rename of the snapshot
\* and the rename of the log (compaction.ts, "Crash safety").
THEOREM Survival ==
  ASSUME Orderly
  PROVE  Spec => []AckedSurvive
<1>1. Inv => AckedSurvive
  BY InvSurvives
<1> QED
  BY <1>1, AlwaysInv, PTL

\* With nothing on its way, no writev rejected before and no two writes of a key
\* refused together, replaying the files yields the store, at whatever step of a
\* compaction (wal.ts flush, compaction.ts).
THEOREM Durability ==
  ASSUME Orderly
  PROVE  Spec => []MemoryIsDurable
<1>1. Inv => MemoryIsDurable
  BY InvDurable
<1> QED
  BY <1>1, AlwaysInv, PTL

\* Every location in the store reads back the value of its record, on the files the
\* value reader has open (publishWalRef, remapLocs, reopenBoth).
THEOREM Pointers ==
  ASSUME Orderly
  PROVE  Spec => []PointersRead
<1>1. Inv => PointersRead
  BY MaterializedIs DEF Inv, KeysSound, PointersRead
<1> QED
  BY <1>1, AlwaysInv, PTL

-----------------------------------------------------------------------------
(* Who waits for a rotation *)

\* The lock is held exactly while the log is being rotated, who waits for it waits then,
\* and a log that takes no frames is on its way to be replaced, or given up.
Released ==
  /\ cpc \in Cpcs
  /\ wal.closed \in BOOLEAN /\ wal.sealed \in BOOLEAN
  /\ {"closed", "sealed"} \subseteq DOMAIN wal /\ DOMAIN wpc = Writers
  /\ lock \in BOOLEAN /\ (lock <=> Rotating \/ cpc = "rollback")
  /\ \A w \in Writers : wpc[w] \in {"parked", "retry"} => lock
  /\ wal.closed => lock \/ unopened
  /\ wal.sealed => lock \/ wal.closed
  /\ cpc = "rollback" => wal.closed
  /\ cpc = "open" => ~wal.closed /\ ~wal.sealed

\* A new log takes frames.
LEMMA NewWalReleased ==
  ASSUME NEW open \in BOOLEAN, NEW size
  PROVE  LET w == NewWal(open, size)
         IN ~w.closed /\ ~w.sealed /\ w.closed \in BOOLEAN /\ w.sealed \in BOOLEAN
            /\ {"closed", "sealed"} \subseteq DOMAIN w
BY DEF NewWal

\* A writer waits only for a lock that is held.
LEMMA WriterReleased ==
  ASSUME Released, NEW w \in Writers, NEW ops, Call(w) \/ Commit(w, ops) \/ CommitRejected(w, ops)
  PROVE  Released'
<1>1. UNCHANGED <<cpc, lock, unopened>> /\ (Rotating' <=> Rotating)
  BY DEF Call, Commit, CommitRejected, boundVars, Rotating
<1>2. wal'.closed = wal.closed /\ wal'.sealed = wal.sealed /\ DOMAIN wal' = DOMAIN wal
  BY DEF Call, Commit, CommitRejected, Released
<1>3. DOMAIN wpc' = Writers /\ \A v \in Writers : v # w => wpc'[v] = wpc[v]
  BY DEF Call, Commit, CommitRejected, Released
<1>4. wpc'[w] \in {"parked", "retry"} => lock
  <2>1. CASE Call(w)
    BY <2>1 DEF Call, Released
  <2>2. CASE Commit(w, ops)
    BY <2>2 DEF Commit, Released
  <2>3. CASE CommitRejected(w, ops)
    BY <2>3 DEF CommitRejected, Retries, Released
  <2> QED
    BY <2>1, <2>2, <2>3
<1> QED
  BY <1>1, <1>2, <1>3, <1>4 DEF Released

\* Nor do two that are refused together.
LEMMA PairReleased ==
  ASSUME Released, NEW v \in Writers, NEW w \in Writers, NEW first, NEW second,
         CommitsRejected(v, w, first, second)
  PROVE  Released'
<1>1. UNCHANGED <<wal, cpc, lock, unopened>> /\ (Rotating' <=> Rotating)
  BY DEF CommitsRejected, Rotating
<1>2. DOMAIN wpc' = Writers /\ \A x \in Writers : wpc'[x] \in {"parked", "retry"} => lock
  BY DEF CommitsRejected, Retries, Released
<1> QED
  BY <1>1, <1>2 DEF Released

\* Writing the log parks nobody.
LEMMA LogReleased ==
  ASSUME Released, WalStep
  PROVE  Released'
<1>1. UNCHANGED <<cpc, lock, unopened>> /\ (Rotating' <=> Rotating)
  BY DEF WalStep, FlushBatch, FlushLands, FlushFails, boundVars, Rotating
<1>2. wal'.closed = wal.closed /\ wal'.sealed = wal.sealed /\ DOMAIN wal' = DOMAIN wal
  BY DEF WalStep, FlushBatch, FlushLands, FlushFails, Released
<1>3. DOMAIN wpc' = Writers /\ \A v \in Writers : wpc'[v] = wpc[v] \/ wpc'[v] = "idle"
  BY DEF WalStep, FlushBatch, FlushLands, FlushFails, Done, Released
<1> QED
  BY <1>1, <1>2, <1>3 DEF Released

\* Who waited goes on when the lock is released.
LEMMA UnlockReleased ==
  ASSUME Released, Unlock, wal'.closed \in BOOLEAN, wal'.sealed \in BOOLEAN,
         {"closed", "sealed"} \subseteq DOMAIN wal',
         wal'.closed => unopened', wal'.sealed => wal'.closed
  PROVE  Released'
<1>1. cpc' = "idle" /\ lock' = FALSE /\ ~Rotating'
  BY DEF Unlock, Goto, Rotating
<1>2. DOMAIN wpc' = Writers /\ \A w \in Writers : wpc'[w] \notin {"parked", "retry"}
  BY DEF Unlock, Released
<1> QED
  BY <1>1, <1>2 DEF Released, Cpcs

\* Steps of a compaction that neither take nor release the lock.
LEMMA CompactionReleased ==
  ASSUME Released,
         \/ StartCompaction \/ Fence \/ SnapshotDone \/ PreCopy \/ DrainCopy \/ DrainDone
         \/ RenameSnapshot \/ RenameWal \/ \E k \in Keys : SnapshotEntry(k)
  PROVE  Released'
<1>1. UNCHANGED <<wal, lock, wpc, unopened>>
  BY DEF StartCompaction, Fence, SnapshotDone, PreCopy, DrainCopy, DrainDone, RenameSnapshot,
         RenameWal, SnapshotEntry, CopyTail, boundVars
<1>2. cpc' \in Cpcs /\ cpc' \notin {"open", "rollback"}
      /\ (Rotating' <=> Rotating) /\ cpc # "rollback"
  BY DEF StartCompaction, Fence, SnapshotDone, PreCopy, DrainCopy, DrainDone, RenameSnapshot,
         RenameWal, SnapshotEntry, CopyTail, Goto, Rotating, Cpcs
<1> QED
  BY <1>1, <1>2 DEF Released

\* Steps that take the lock, close the log or replace it.
LEMMA RotationReleased ==
  ASSUME Released, Rotate \/ CloseWal \/ SwapWal
  PROVE  Released'
<1>1. UNCHANGED <<wpc, unopened>> /\ cpc' \in {"drain", "renameSnapshot", "open"} /\ lock' = TRUE
  BY DEF Rotate, CloseWal, SwapWal, Goto, Released, Rotating, boundVars
<1>2. Rotating' /\ cpc' \in Cpcs /\ cpc' # "rollback"
  BY <1>1 DEF Rotating, Cpcs
<1>3. /\ wal'.closed \in BOOLEAN /\ wal'.sealed \in BOOLEAN
      /\ {"closed", "sealed"} \subseteq DOMAIN wal'
      /\ cpc' = "open" => ~wal'.closed /\ ~wal'.sealed
  BY NewWalReleased DEF Rotate, CloseWal, SwapWal, Goto, Seal, Released
<1> QED
  BY <1>1, <1>2, <1>3 DEF Released

\* A compaction ends, throws, or is rolled forward, or the process dies.
LEMMA EndReleased ==
  ASSUME Released,
         \/ FinishCompaction \/ RollForward \/ CompactionThrows \/ RollForwardFails
         \/ \E n \in 0..Len(wal.batch) : Crash(n)
  PROVE  Released'
<1>1. CASE FinishCompaction
  <2>1. /\ wal'.closed = wal.closed /\ wal'.sealed = wal.sealed /\ DOMAIN wal' = DOMAIN wal
        /\ ~wal.closed /\ ~wal.sealed /\ Unlock
    BY <1>1 DEF FinishCompaction, Opened, Released
  <2> QED
    BY <2>1, UnlockReleased DEF Released
<1>2. CASE RollForward
  <2>1. Unlock /\ wal' = NewWal(TRUE, Len(Current))
    BY <1>2 DEF RollForward
  <2> QED
    BY <2>1, NewWalReleased, UnlockReleased
<1>3. CASE CompactionThrows
  <2>1. CASE Rotating
    <3>1. /\ UNCHANGED <<lock, wpc, unopened>> /\ cpc' = "rollback" /\ lock
          /\ wal' = [wal EXCEPT !.closed = TRUE]
      BY <1>3, <2>1 DEF CompactionThrows, Goto, Released
    <3>2. wal'.closed = TRUE /\ wal'.sealed = wal.sealed /\ DOMAIN wal' = DOMAIN wal
      BY <3>1 DEF Released
    <3> QED
      BY <3>1, <3>2 DEF Released, Cpcs, Rotating
  <2>2. CASE ~Rotating
    <3>1. Unlock /\ UNCHANGED <<wal, unopened>> /\ ~lock
      BY <1>3, <2>2 DEF CompactionThrows, Released
    <3> QED
      BY <3>1, UnlockReleased DEF Released
  <2> QED
    BY <2>1, <2>2
<1>4. CASE RollForwardFails
  <2>1. Unlock /\ UNCHANGED wal /\ unopened' = TRUE /\ wal.closed
    BY <1>4 DEF RollForwardFails, Released
  <2> QED
    BY <2>1, UnlockReleased DEF Released
<1>5. ASSUME NEW n \in 0..Len(wal.batch), Crash(n)
      PROVE  Released'
  <2>1. /\ cpc' = "idle" /\ lock' = FALSE /\ wpc' = [w \in Writers |-> "idle"]
        /\ \E size : wal' = NewWal(TRUE, size)
    BY <1>5 DEF Crash
  <2> QED
    BY <2>1, NewWalReleased DEF Released, Cpcs, Rotating
<1> QED
  BY <1>1, <1>2, <1>3, <1>4, <1>5

\* Every step keeps it, whatever fails.
LEMMA StepReleased ==
  ASSUME Released, [Next]_vars
  PROVE  Released'
<1>1. CASE \E w \in Writers : Call(w) \/ WriterStep(w)
  BY <1>1, WriterReleased DEF WriterStep
<1>2. CASE WalStep
  BY <1>2, LogReleased
<1>6. CASE \E v, w \in Writers : \E first \in Chosen(v), second \in Chosen(w) :
             CommitsRejected(v, w, first, second)
  BY <1>6, PairReleased
<1>3. CASE StartCompaction \/ CompactionStep \/ PreCopy
  BY <1>3, CompactionReleased, RotationReleased, EndReleased DEF CompactionStep
<1>4. CASE CompactionThrows \/ RollForwardFails \/ \E n \in 0..Len(wal.batch) : Crash(n)
  BY <1>4, EndReleased
<1>5. CASE UNCHANGED vars
  BY <1>5 DEF vars, boundVars, Released, Rotating
<1> QED
  BY <1>1, <1>2, <1>3, <1>4, <1>5, <1>6 DEF Next

\* Nobody is left parked, whatever fails and with no assumption: who waits for the
\* rotation lock waits for a compaction that will still release it (compaction.ts,
\* "must not leave writers parked forever").
THEOREM Unparked == Spec => []NobodyLeftParked
<1>1. Init => Released
  <2> SUFFICES ASSUME Init
               PROVE  Released
    OBVIOUS
  <2>1. /\ ~wal.closed /\ ~wal.sealed /\ wal.closed \in BOOLEAN /\ wal.sealed \in BOOLEAN
        /\ {"closed", "sealed"} \subseteq DOMAIN wal
    BY NewWalReleased DEF Init
  <2>2. cpc = "idle" /\ lock = FALSE /\ DOMAIN wpc = Writers /\ \A w \in Writers : wpc[w] = "idle"
    BY DEF Init
  <2> QED
    BY <2>1, <2>2 DEF Released, Cpcs, Rotating
<1>2. Released /\ [Next]_vars => Released'
  BY StepReleased
<1>3. Released => NobodyLeftParked
  BY DEF Released, NobodyLeftParked
<1> QED
  BY <1>1, <1>2, <1>3, PTL DEF Spec
=============================================================================
