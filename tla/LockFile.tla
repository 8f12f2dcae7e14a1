------------------------------ MODULE LockFile ------------------------------
(***************************************************************************)
(* The exclusive lock file of minidb (packages/minidb/src/lockfile.ts):    *)
(* processes that create it, take it over from a dead owner, renew it and  *)
(* release it, over a file system whose link and rename are atomic.        *)
(*                                                                         *)
(* A user is one LockFile object, Owner[u] the process it lives in.  The   *)
(* lock file holds the pid of a process.  A process registers a watch file *)
(* for the whole of an acquire(); every action below is what happens       *)
(* between two awaits of one user, or the file operation it awaits, which  *)
(* may fail.                                                               *)
(***************************************************************************)
EXTENDS Naturals

CONSTANTS
  Users,        \* LockFile objects
  Procs,        \* pids of processes of the model
  Owner,        \* user -> the process it lives in
  Stale,        \* a pid that is no longer alive, or unparsable content
  NoLock,       \* the lock file does not exist
  MaxAttempts,  \* bound on acquire() calls of one user
  MaxCrashes,   \* bound on processes that die
  MaxFailures,  \* bound on file operations that fail
  BidDropped,   \* may a landed bid be given up while another process contends?
  ScanFails,    \* may the readdir for watches fail?
  LateRenew     \* may release() run while a renew() is in flight?

ASSUME OwnerAssumption == Owner \in [Users -> Procs]
ASSUME MarkerAssumption == Stale \notin Procs /\ NoLock \notin Procs /\ Stale # NoLock
ASSUME LockBounds ==
  /\ MaxAttempts \in Nat /\ MaxCrashes \in Nat /\ MaxFailures \in Nat
  /\ BidDropped \in BOOLEAN /\ ScanFails \in BOOLEAN /\ LateRenew \in BOOLEAN

VARIABLES
  lockFile,  \* content of the lock file: a process, Stale or NoLock
  orphan,    \* history: a failure has left in the file a process that gave the lock up
  watches,   \* users whose acquire() has its watch file
  strays,    \* users of whom an earlier acquire() has left a watch file
  alive,     \* processes that are alive
  pc,        \* user -> next step of its acquire() or release()
  listing,   \* user -> foreign watches its last readdir returned
  held,      \* user -> LockFile.held
  renewing,  \* user -> a renew() has written its tmp file and not renamed it
  attempts,  \* user -> acquire() calls so far
  crashes, failures

lockVars == <<lockFile, orphan, watches, strays, alive, pc, listing, held, renewing,
              attempts, crashes, failures>>

Pcs == {"idle", "reap", "create", "inspect", "gate", "rename", "settle", "scan",
        "check", "leave", "release", "unlink", "dead"}

LockInit ==
  /\ lockFile \in {NoLock, Stale}
  /\ orphan = FALSE
  /\ watches = {} /\ strays = {}
  /\ alive = Procs
  /\ pc = [u \in Users |-> "idle"]
  /\ listing = [u \in Users |-> {}]
  /\ held = [u \in Users |-> FALSE]
  /\ renewing = [u \in Users |-> FALSE]
  /\ attempts = [u \in Users |-> 0]
  /\ crashes = 0 /\ failures = 0

At(u, s) == pc[u] = s
MoveTo(u, s) == pc' = [pc EXCEPT ![u] = s]

\* inspect(): null when the file is gone, alive by the pid it names.
DeadLock == lockFile # NoLock /\ lockFile \notin alive
Mine(u) == lockFile = Owner[u]

\* The bid of u has landed and is not yet verified.
Bidding(u) == pc[u] \in {"settle", "scan", "check"}
DeadWatches == {u \in watches \cup strays : Owner[u] \notin alive}

\* A user that may still overwrite the lock file, or claim it, without another
\* look at its content; and its rivals in other processes.
Contends(u) == pc[u] \in {"rename", "settle", "scan", "check"}
Rivals(u) == {v \in Users : Owner[v] # Owner[u] /\ Contends(v)}
MayDrop(u) == Bidding(u) => BidDropped \/ Rivals(u) = {}

\* A file operation fails, with something other than what the code expects of it.
Fails == failures < MaxFailures /\ failures' = failures + 1

-----------------------------------------------------------------------------
(* acquire() *)

\* The watch is registered before the lock is touched.
BeginUnwatched(u) ==   \* mutant
  /\ At(u, "idle") /\ ~held[u] /\ attempts[u] < MaxAttempts
  /\ attempts' = [attempts EXCEPT ![u] = @ + 1]
  /\ MoveTo(u, "reap")
  /\ UNCHANGED <<lockFile, orphan, watches, strays, alive, listing, held, renewing, crashes, failures>>
BeginAcquire(u) ==
  /\ At(u, "idle") /\ ~held[u]
  /\ attempts[u] < MaxAttempts
  /\ attempts' = [attempts EXCEPT ![u] = @ + 1]
  /\ watches' = watches \cup {u}
  /\ MoveTo(u, "reap")
  /\ UNCHANGED <<lockFile, orphan, strays, alive, listing, held, renewing, crashes, failures>>

\* The watch cannot be written, or not to its end: acquire() throws before the try.
WatchFails(u) ==
  /\ At(u, "idle") /\ ~held[u]
  /\ attempts[u] < MaxAttempts
  /\ attempts' = [attempts EXCEPT ![u] = @ + 1]
  /\ strays' \in {strays, strays \cup {u}}
  /\ Fails
  /\ UNCHANGED <<lockFile, orphan, watches, alive, pc, listing, held, renewing, crashes>>

\* Somewhere from tryCreate() to the inspect() of a landed bid an operation throws.
\* The finally block follows; a bid that has landed stays in the file.
AcquireThrows(u) ==
  /\ pc[u] \in {"create", "inspect", "gate", "rename", "settle"} /\ MayDrop(u)
  /\ orphan' = (orphan \/ (At(u, "settle") /\ Mine(u)))
  /\ Fails
  /\ MoveTo(u, "leave")
  /\ UNCHANGED <<lockFile, watches, strays, alive, listing, held, renewing, attempts, crashes>>

\* A dead process's watch that cannot be unlinked is left where it is.
Reap(u, found) ==
  \E reaped \in SUBSET found : watches' = watches \ reaped /\ strays' = strays \ reaped

ReapDeadWatches(u) ==
  /\ At(u, "reap")
  /\ Reap(u, {v \in DeadWatches : Owner[v] # Owner[u]})
  /\ MoveTo(u, "create")
  /\ UNCHANGED <<lockFile, orphan, alive, listing, held, renewing, attempts, crashes, failures>>

\* tryCreate(): link() fails with EEXIST when the lock file exists.
TryCreate(u) ==
  /\ At(u, "create")
  /\ IF lockFile = NoLock
       THEN /\ lockFile' = Owner[u]
            /\ held' = [held EXCEPT ![u] = TRUE]
            /\ orphan' = FALSE
            /\ MoveTo(u, "leave")
       ELSE MoveTo(u, "inspect") /\ UNCHANGED <<lockFile, orphan, held>>
  /\ UNCHANGED <<watches, strays, alive, listing, renewing, attempts, crashes, failures>>

\* Only a dead owner's lock is bid for.  The bid is a file of this attempt alone.
Inspect(u) ==
  /\ At(u, "inspect")
  /\ MoveTo(u, IF DeadLock THEN "gate" ELSE "leave")
  /\ UNCHANGED <<lockFile, orphan, watches, strays, alive, listing, held, renewing, attempts, crashes, failures>>

GateInspect(u) ==
  /\ At(u, "gate")
  /\ MoveTo(u, IF DeadLock THEN "rename" ELSE "leave")
  /\ UNCHANGED <<lockFile, orphan, watches, strays, alive, listing, held, renewing, attempts, crashes, failures>>

RenameBid(u) ==
  /\ At(u, "rename")
  /\ lockFile' = Owner[u] /\ orphan' = FALSE
  /\ MoveTo(u, "settle")
  /\ UNCHANGED <<watches, strays, alive, listing, held, renewing, attempts, crashes, failures>>

\* Windows refuses while a co-racer has the file open: inspect again.
RenameRefused(u) ==
  /\ At(u, "rename")
  /\ Fails
  /\ MoveTo(u, "gate")
  /\ UNCHANGED <<lockFile, orphan, watches, strays, alive, listing, held, renewing, attempts, crashes>>

SettleInspect(u) ==
  /\ At(u, "settle")
  /\ MoveTo(u, IF Mine(u) THEN "scan" ELSE "leave")
  /\ UNCHANGED <<lockFile, orphan, watches, strays, alive, listing, held, renewing, attempts, crashes, failures>>

ForeignMissed(u) == {}   \* mutant: claims without looking for watches
Foreign(u) == {v \in watches \cup strays : Owner[v] # Owner[u]}
ReadWatches(u) ==
  /\ At(u, "scan")
  /\ \E failed \in {FALSE, ScanFails} :   \* a readdir that fails found nothing
       /\ listing' = [listing EXCEPT ![u] = IF failed THEN {} ELSE Foreign(u)]
       /\ IF failed THEN Fails ELSE UNCHANGED failures
  /\ MoveTo(u, "check")
  /\ UNCHANGED <<lockFile, orphan, watches, strays, alive, held, renewing, attempts, crashes>>

\* hasLiveForeignWatch() stops at the first live one; dead ones met before it
\* are reaped.
InFlightOrDead(u) == listing[u]   \* mutant: a dead contender's watch counts
InFlight(u) == {v \in listing[u] : Owner[v] \in alive}
CheckWatches(u) ==
  /\ At(u, "check")
  /\ IF InFlight(u) = {}
       THEN /\ held' = [held EXCEPT ![u] = TRUE]
            /\ MoveTo(u, "leave")
       ELSE /\ MoveTo(u, "settle")
            /\ UNCHANGED held
  /\ Reap(u, listing[u] \ InFlight(u))
  /\ listing' = [listing EXCEPT ![u] = {}]
  /\ UNCHANGED <<lockFile, orphan, alive, renewing, attempts, crashes, failures>>

\* The finally block: the watch goes, and acquire() returns held[u].
Leave(u) ==
  /\ At(u, "leave")
  /\ watches' = watches \ {u}
  /\ MoveTo(u, "idle")
  /\ UNCHANGED strays
  /\ UNCHANGED <<lockFile, orphan, alive, listing, held, renewing, attempts, crashes, failures>>

\* ... or cannot be unlinked, which is ignored.
WatchStays(u) ==
  /\ At(u, "leave")
  /\ watches' = watches \ {u} /\ strays' = strays \cup {u}
  /\ Fails
  /\ MoveTo(u, "idle")
  /\ UNCHANGED <<lockFile, orphan, alive, listing, held, renewing, attempts, crashes>>

-----------------------------------------------------------------------------
(* renew() on the lease timer, release() from close() and from the exit hook *)

RenewBegin(u) ==
  /\ At(u, "idle") /\ held[u] /\ ~renewing[u]
  /\ renewing' = [renewing EXCEPT ![u] = TRUE]
  /\ UNCHANGED <<lockFile, orphan, watches, strays, alive, pc, listing, held, attempts, crashes, failures>>

RenewRename(u) ==
  /\ renewing[u]
  /\ lockFile' = Owner[u]
  /\ renewing' = [renewing EXCEPT ![u] = FALSE]
  /\ UNCHANGED orphan
  /\ UNCHANGED <<watches, strays, alive, pc, listing, held, attempts, crashes, failures>>

RenewFails(u) ==
  /\ renewing[u]
  /\ renewing' = [renewing EXCEPT ![u] = FALSE]
  /\ Fails
  /\ UNCHANGED <<lockFile, orphan, watches, strays, alive, pc, listing, held, attempts, crashes>>

MayRelease(u) == At(u, "idle") /\ held[u] /\ (LateRenew \/ ~renewing[u])

ReleaseBegin(u) ==
  /\ MayRelease(u)
  /\ MoveTo(u, "release")
  /\ UNCHANGED <<lockFile, orphan, watches, strays, alive, listing, held, renewing, attempts, crashes, failures>>

ReleaseInspect(u) ==
  /\ At(u, "release")
  /\ IF Mine(u)
       THEN MoveTo(u, "unlink") /\ UNCHANGED held
       ELSE MoveTo(u, "idle") /\ held' = [held EXCEPT ![u] = FALSE]
  /\ UNCHANGED <<lockFile, orphan, watches, strays, alive, listing, renewing, attempts, crashes, failures>>

\* inspect() throws out of release(): the lock stays held.
ReleaseThrows(u) ==
  /\ At(u, "release")
  /\ Fails
  /\ MoveTo(u, "idle")
  /\ UNCHANGED <<lockFile, orphan, watches, strays, alive, listing, held, renewing, attempts, crashes>>

\* unlink removes whatever is at the path by then.
ReleaseUnlink(u) ==
  /\ At(u, "unlink")
  /\ lockFile' = NoLock /\ orphan' = FALSE
  /\ held' = [held EXCEPT ![u] = FALSE]
  /\ MoveTo(u, "idle")
  /\ UNCHANGED <<watches, strays, alive, listing, renewing, attempts, crashes, failures>>

\* An unlink that fails, or an inspection in the exit hook that does, is ignored: the
\* lock counts as released and the file still names the process.
UnlinkFails(u) ==
  /\ At(u, "unlink")
  /\ orphan' = (orphan \/ Mine(u))
  /\ held' = [held EXCEPT ![u] = FALSE]
  /\ Fails
  /\ MoveTo(u, "idle")
  /\ UNCHANGED <<lockFile, watches, strays, alive, listing, renewing, attempts, crashes>>
SyncFails(u) ==
  /\ MayRelease(u) /\ ~renewing[u]
  /\ orphan' = (orphan \/ Mine(u))
  /\ held' = [held EXCEPT ![u] = FALSE]
  /\ Fails
  /\ UNCHANGED <<lockFile, watches, strays, alive, pc, listing, renewing, attempts, crashes>>

\* The exit hook runs when nothing else of the process is pending.
ReleaseSync(u) ==
  /\ MayRelease(u) /\ ~renewing[u]
  /\ IF Mine(u) THEN lockFile' = NoLock /\ orphan' = FALSE ELSE UNCHANGED <<lockFile, orphan>>
  /\ held' = [held EXCEPT ![u] = FALSE]
  /\ UNCHANGED <<watches, strays, alive, pc, listing, renewing, attempts, crashes, failures>>

\* A process dies between two steps: its files stay, its memory is gone.
ProcessDies(p) ==
  /\ p \in alive
  /\ crashes < MaxCrashes
  /\ \A u \in Users : Owner[u] = p => MayDrop(u)
  /\ crashes' = crashes + 1
  /\ alive' = alive \ {p}
  /\ pc' = [u \in Users |-> IF Owner[u] = p THEN "dead" ELSE pc[u]]
  /\ held' = [u \in Users |-> held[u] /\ Owner[u] # p]
  /\ renewing' = [u \in Users |-> renewing[u] /\ Owner[u] # p]
  /\ listing' = [u \in Users |-> IF Owner[u] = p THEN {} ELSE listing[u]]
  /\ UNCHANGED <<lockFile, orphan, watches, strays, attempts, failures>>

AcquireStep(u) ==
  \/ ReapDeadWatches(u) \/ TryCreate(u) \/ Inspect(u) \/ GateInspect(u)
  \/ RenameBid(u) \/ SettleInspect(u) \/ ReadWatches(u) \/ CheckWatches(u)
  \/ Leave(u)
HolderStep(u) ==
  \/ RenewRename(u) \/ ReleaseInspect(u) \/ ReleaseUnlink(u)
FailureStep(u) ==
  \/ WatchFails(u) \/ AcquireThrows(u) \/ RenameRefused(u) \/ WatchStays(u)
  \/ RenewFails(u) \/ ReleaseThrows(u) \/ UnlinkFails(u) \/ SyncFails(u)

LockNext ==
  \/ \E u \in Users :
       \/ BeginAcquire(u) \/ AcquireStep(u) \/ FailureStep(u)
       \/ RenewBegin(u) \/ ReleaseBegin(u) \/ ReleaseSync(u) \/ HolderStep(u)
  \/ \E p \in Procs : ProcessDies(p)

LockSpec == LockInit /\ [][LockNext]_lockVars

\* An acquire() or release() under way goes on while its process lives.
FairSpec == LockSpec /\ \A u \in Users : WF_lockVars(AcquireStep(u)) /\ WF_lockVars(HolderStep(u))

-----------------------------------------------------------------------------
TypeOK ==
  /\ lockFile \in Procs \cup {Stale, NoLock}
  /\ orphan \in BOOLEAN
  /\ watches \subseteq Users /\ strays \subseteq Users
  /\ alive \subseteq Procs
  /\ pc \in [Users -> Pcs]
  /\ listing \in [Users -> SUBSET Users]
  /\ held \in [Users -> BOOLEAN]
  /\ renewing \in [Users -> BOOLEAN]
  /\ attempts \in [Users -> 0..MaxAttempts]
  /\ crashes \in 0..MaxCrashes /\ failures \in 0..MaxFailures

\* Two LockFile objects never hold the lock at the same time: not after a dead
\* owner's lock was raced for, whatever bidder is descheduled between its last
\* inspection and its rename (acquire: the watch check).
OneHolder == \A u, v \in Users : held[u] /\ held[v] => u = v

\* The lock file tells the truth about the living: it names the process of the
\* holder while there is one, and it names a live process only if that process
\* holds the lock, is still settling its bid, or has given the lock up by a file
\* operation that failed (release, or the inspection of a landed bid).  A file that
\* named a live process for no such reason could not be acquired by anyone.
LockTellsTruth ==
  /\ \A u \in Users : held[u] => Mine(u)
  /\ lockFile \in alive => orphan \/ \E u \in Users : Mine(u) /\ (held[u] \/ Bidding(u))

\* Contenders that wait for each other's watches do not wait for ever: once a
\* bid has landed, a live user comes to hold the lock, or the file again names a
\* process that died; unless a failure has left the bid, or the watch of a live
\* process, behind.
TakeoverCompletes ==
  (\E u \in Users : Bidding(u)) ~>
    \/ (\E u \in Users : held[u]) \/ DeadLock
    \/ orphan \/ (\E u \in strays : Owner[u] \in alive)
=============================================================================
