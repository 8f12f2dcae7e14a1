-------------------------- MODULE TaskManagerProofs --------------------------
(***************************************************************************)
(* For any tasks and any number of crashes, undos, failed writes and       *)
(* cancelled notifications: the end of a task on disk is final, and no     *)
(* conversation reports the end of a task twice.                           *)
(*                                                                         *)
(* The argument is about what the process, the documents and the journal   *)
(* say of a task, Infos(t): as long as it runs none of them says it ended, *)
(* and all that say it ended say the same (OneEnd).  So a restored process *)
(* knows an end by the key under which it was reported.                    *)
(***************************************************************************)
EXTENDS TaskManager, TLAPS

\* The types.
InfoT == [status : Terminal \cup {"none", "running"}, fg : BOOLEAN, suppressed : BOOLEAN]

EntryT ==
  [status : Terminal \cup {"running"}, fg : BOOLEAN, timer : BOOLEAN, auto : BOOLEAN,
   timedOut : BOOLEAN, stopping : SUBSET Terminal, persisting : BOOLEAN,
   suppressed : BOOLEAN, settling : BOOLEAN, queue : Seq(InfoT),
   caller : {"none", "waiting", "detached", "released", "returned"},
   tool : {"no", "suppressing", "stopping", "returned"}]

Hows == Terminal \cup {"result", "stopped"}

SnapshotT == [info : [Tasks -> InfoT], told : Seq(Tasks \X Hows)]

EntryTypes == entry \in [Tasks -> EntryT \cup {NoEntry}]

RecordTypes ==
  /\ ghost \in [Tasks -> InfoT] /\ doc \in [Tasks -> InfoT]
  /\ journal \in Seq(SnapshotT) /\ journal # <<>>

NoticeTypes ==
  /\ building \in [Tasks -> {"no", "notify", "restore"}]
  /\ pending \subseteq Tasks /\ restoring \subseteq Tasks /\ lost \subseteq Tasks
  /\ mode \in {"live", "replay", "losing", "cut", "notifying"}

Lives(t) == entry[t].status # "none"

Snapshots == {journal[i] : i \in DOMAIN journal}

LiveInfos(t) ==
  IF Lives(t) THEN {Info(entry[t])} \cup {entry[t].queue[i] : i \in DOMAIN entry[t].queue}
              ELSE {}

\* What is said of a task: on disk, in memory, in what a replay could yield.
Infos(t) == {doc[t], ghost[t]} \cup {s.info[t] : s \in Snapshots} \cup LiveInfos(t)

\* All that say that a task ended say the same.
OneEndOf(t) == \A x, y \in Infos(t) : IsEnded(x) /\ IsEnded(y) => x = y

\* Nothing is said of a task before it is registered, and no end while it runs.
YoungOf(t) ==
  /\ t \notin registered => ~Lives(t) /\ \A x \in Infos(t) : x.status = "none"
  /\ Running(t) => \A x \in Infos(t) : ~IsEnded(x)

\* No document or journal knows a task in the foreground as a background task.
AllForeground(t) == \A x \in Infos(t) : x.status = "none" \/ x.fg
ForegroundOf(t) == Lives(t) /\ entry[t].fg => AllForeground(t)

\* The write of the end is the last of the queue.
EndLastOf(t) ==
  Lives(t) => /\ IsEnded(doc[t]) => entry[t].queue = <<>>
              /\ \A i \in DOMAIN entry[t].queue :
                   IsEnded(entry[t].queue[i]) => i = Len(entry[t].queue)

\* Who waits for a task, and what is recorded of its end.
LiveOf(t) ==
  Lives(t) => /\ entry[t].caller \in {"waiting", "released", "returned"} => entry[t].fg
              /\ entry[t].tool # "no" => entry[t].suppressed
              /\ entry[t].settling => IsEnded(entry[t])
              /\ IsEnded(entry[t]) /\ ~entry[t].settling /\ ~entry[t].fg =>
                   IsEnded(Now.info[t])
GhostOf(t) ==
  /\ IsEnded(ghost[t]) => IsEnded(Now.info[t]) \/ IsEnded(doc[t])
  /\ t \in lost => IsEnded(ghost[t])
  /\ mode = "losing" /\ ghost[t].status = "running" =>
       ~IsEnded(doc[t]) /\ ~IsEnded(Now.info[t])
  /\ mode = "replay" => ghost[t].status = "none"

LifeOf(t) ==
  OneEndOf(t) /\ YoungOf(t) /\ ForegroundOf(t) /\ EndLastOf(t) /\ LiveOf(t) /\ GhostOf(t)
Lifecycle == \A t \in Tasks : LifeOf(t)

\* A restore begins with nothing in memory.
Restarting ==
  mode \in {"replay", "losing"} =>
    /\ \A t \in Tasks : ~Lives(t) /\ building[t] = "no"
    /\ pending = {} /\ restoring = {} /\ Len(journal) = 1

\* A notification that is built or requested is of an end in the background, and
\* a requested one was not delivered.
NoticeOf(t) ==
  /\ building[t] = "notify" \/ t \in pending =>
       IsEnded(entry[t]) /\ ~entry[t].settling /\ ~entry[t].fg
  /\ building[t] = "restore" \/ t \in restoring => t \in Listed
  /\ t \in pending => /\ ~entry[t].suppressed /\ t \in scheduled
                      /\ <<t, entry[t].status>> \notin delivered
Notices ==
  /\ \A t \in Tasks : NoticeOf(t)
  /\ mode # "replay" => Keys(Now.told) \subseteq delivered

\* What has to be so for an end to have been reported in the snapshot s.
Grounds(s, t, how) ==
  /\ t \in registered /\ (Lives(t) => IsEnded(entry[t]))
  /\ how = "result" => AllForeground(t) /\ (Lives(t) => entry[t].caller = "returned")
  /\ how = "stopped" =>
       /\ Lives(t) => entry[t].tool = "returned"
       /\ AllForeground(t) \/ (IsEnded(s.info[t]) /\ s.info[t].suppressed)
  /\ how \in Terminal =>
       \/ \E x \in {s.info[t], doc[t]} : x.status = how /\ ~x.fg /\ ~x.suppressed
       \/ /\ t \in early
          /\ \A x \in Infos(t) : IsEnded(x) => x.status \in {how, "lost"}
          /\ Lives(t) => ~entry[t].fg /\ ~entry[t].suppressed
Grounded ==
  \A s \in Snapshots : \A i \in DOMAIN s.told : Grounds(s, s.told[i][1], s.told[i][2])

\* ToldOnce of any snapshot.
Apart(a, b) ==
  a[1] = b[1] => {a[2], b[2]} = {"result", "stopped"} \/ (b[2] = "lost" /\ b[1] \in early)
ToldOnceEach ==
  \A s \in Snapshots : \A i, j \in DOMAIN s.told : i < j => Apart(s.told[i], s.told[j])

Inv ==
  /\ EntryTypes /\ RecordTypes /\ NoticeTypes /\ Lifecycle /\ Restarting
  /\ Notices /\ Grounded /\ ToldOnceEach

-----------------------------------------------------------------------------
(* The journal.                                                              *)

\* The state now is one of the snapshots.
LEMMA NowIsSnapshot ==
  ASSUME RecordTypes
  PROVE  /\ Now \in Snapshots /\ Now \in SnapshotT /\ Snapshots \subseteq SnapshotT
         /\ DOMAIN journal = 1..Len(journal) /\ Len(journal) \in Nat \ {0}
<1>1. /\ journal \in Seq(SnapshotT) /\ Len(journal) \in Nat \ {0}
      /\ DOMAIN journal = 1..Len(journal)
  BY DEF RecordTypes
<1>2. Len(journal) \in DOMAIN journal /\ \A i \in DOMAIN journal : journal[i] \in SnapshotT
  BY <1>1
<1> QED
  BY <1>1, <1>2 DEF Now, Snapshots

\* A record is one more snapshot, and the state now.
LEMMA DispatchFacts ==
  ASSUME RecordTypes, NEW s \in SnapshotT, Dispatch(s)
  PROVE  /\ journal' \in Seq(SnapshotT) /\ journal' # <<>>
         /\ Snapshots' = Snapshots \cup {s} /\ Now' = s
<1>1. /\ journal \in Seq(SnapshotT) /\ Len(journal) \in Nat /\ DOMAIN journal = 1..Len(journal)
      /\ journal' = Append(journal, s)
  BY DEF RecordTypes, Dispatch
<1>2. /\ journal' \in Seq(SnapshotT) /\ Len(journal') = Len(journal) + 1
      /\ DOMAIN journal' = 1..(Len(journal) + 1) /\ journal'[Len(journal) + 1] = s
      /\ \A i \in 1..Len(journal) : journal'[i] = journal[i]
  BY <1>1
<1>3. Snapshots' = Snapshots \cup {s}
  BY <1>1, <1>2 DEF Snapshots
<1>4. journal' # <<>>
  BY <1>1, <1>2
<1> QED
  BY <1>2, <1>3, <1>4 DEF Now

\* Infos of other tasks stay, when one task's infos change.
LEMMA RecordedFacts ==
  ASSUME RecordTypes, NEW t \in Tasks, NEW x \in InfoT
  PROVE  /\ Recorded(t, x) \in SnapshotT /\ Recorded(t, x).told = Now.told
         /\ Recorded(t, x).info[t] = x
         /\ \A u \in Tasks : u # t => Recorded(t, x).info[u] = Now.info[u]
<1>1. Now \in SnapshotT
  BY NowIsSnapshot
<1> QED
  BY <1>1 DEF SnapshotT, Recorded

\* What telling the session of a task writes: the notice at the end, the rest as it was.
LEMMA ToldFacts ==
  ASSUME RecordTypes, NEW t \in Tasks, NEW how \in Hows
  PROVE  /\ Told(t, how) \in SnapshotT /\ Told(t, how).info = Now.info
         /\ DOMAIN Told(t, how).told = 1..(Len(Now.told) + 1)
         /\ DOMAIN Now.told = 1..Len(Now.told) /\ Len(Now.told) \in Nat
         /\ Told(t, how).told[Len(Now.told) + 1] = <<t, how>>
         /\ \A i \in 1..Len(Now.told) : Told(t, how).told[i] = Now.told[i]
         /\ Keys(Told(t, how).told) \subseteq Keys(Now.told) \cup {<<t, how>>}
         /\ how \notin Terminal => Keys(Told(t, how).told) \subseteq Keys(Now.told)
<1>1. Now \in SnapshotT /\ Now.told \in Seq(Tasks \X Hows) /\ <<t, how>> \in Tasks \X Hows
  BY NowIsSnapshot DEF SnapshotT
<1>2. /\ Told(t, how).info = Now.info /\ Told(t, how).told = Append(Now.told, <<t, how>>)
      /\ Told(t, how) \in SnapshotT
  <2>1. Append(Now.told, <<t, how>>) \in Seq(Tasks \X Hows)
    BY <1>1
  <2> QED
    BY <1>1, <2>1 DEF SnapshotT, Told
<1>3. /\ DOMAIN Told(t, how).told = 1..(Len(Now.told) + 1)
      /\ DOMAIN Now.told = 1..Len(Now.told) /\ Len(Now.told) \in Nat
      /\ Told(t, how).told[Len(Now.told) + 1] = <<t, how>>
      /\ \A i \in 1..Len(Now.told) : Told(t, how).told[i] = Now.told[i]
  BY <1>1, <1>2
<1>4. Keys(Told(t, how).told) \subseteq Keys(Now.told) \cup {<<t, how>>}
  BY <1>3 DEF Keys
<1>5. how \notin Terminal => <<t, how>> \notin Keys(Told(t, how).told)
  BY DEF Keys
<1> QED
  BY <1>2, <1>3, <1>4, <1>5

\* An entry of the running service.
LEMMA EntryFacts ==
  ASSUME EntryTypes, NEW t \in Tasks
  PROVE  /\ Lives(t) => entry[t] \in EntryT
         /\ ~Lives(t) => entry[t] = NoEntry
         /\ Running(t) \/ IsEnded(entry[t]) <=> Lives(t)
         /\ Running(t) => ~IsEnded(entry[t])
BY DEF EntryTypes, Lives, EntryT, NoEntry, Running, IsEnded, Terminal

-----------------------------------------------------------------------------
(* What keeps the parts of the invariant, task by task.                      *)

\* The same entry, or none.
SameLife(u) ==
  Lives(u)' => /\ Lives(u)
               /\ entry'[u].status = entry[u].status /\ entry'[u].fg = entry[u].fg
               /\ entry'[u].suppressed = entry[u].suppressed
               /\ entry[u].caller = "returned" => entry'[u].caller = "returned"
               /\ entry[u].tool = "returned" => entry'[u].tool = "returned"

\* Nothing new is said of the task, except that what ran is lost.
NoNews(u) ==
  \A x \in Infos(u)' :
    \/ x \in Infos(u) \/ x.status = "none"
    \/ x.status = "lost" /\ \E y \in Infos(u) : y.status # "none" /\ y.fg = x.fg

\* What was reported with reason stays so, in a snapshot that says no less.
LEMMA GroundsFrame ==
  ASSUME NEW s, NEW r, NEW u, NEW how, Grounds(s, u, how),
         u \in registered', SameLife(u), NoNews(u), early \subseteq early',
         IsEnded(doc[u]) => doc'[u] = doc[u],
         IsEnded(s.info[u]) => r.info[u] = s.info[u]
  PROVE  Grounds(r, u, how)'
<1>1. u \in registered' /\ (Lives(u)' => IsEnded(entry'[u]))
  BY DEF Grounds, SameLife, IsEnded
<1>2. AllForeground(u) => AllForeground(u)'
  BY DEF AllForeground, NoNews
<1>3. how = "result" => AllForeground(u)' /\ (Lives(u)' => entry'[u].caller = "returned")
  BY <1>2 DEF Grounds, SameLife
<1>4. how = "stopped" =>
        /\ Lives(u)' => entry'[u].tool = "returned"
        /\ AllForeground(u)' \/ (IsEnded(r.info[u]) /\ r.info[u].suppressed)
  BY <1>2 DEF Grounds, SameLife
<1>5. ASSUME how \in Terminal
      PROVE  \/ \E x \in {r.info[u], doc'[u]} : x.status = how /\ ~x.fg /\ ~x.suppressed
             \/ /\ u \in early'
                /\ \A x \in Infos(u)' : IsEnded(x) => x.status \in {how, "lost"}
                /\ Lives(u)' => ~entry'[u].fg /\ ~entry'[u].suppressed
  <2>1. CASE \E x \in {s.info[u], doc[u]} : x.status = how /\ ~x.fg /\ ~x.suppressed
    BY <1>5, <2>1 DEF IsEnded
  <2>2. CASE /\ u \in early
             /\ \A x \in Infos(u) : IsEnded(x) => x.status \in {how, "lost"}
             /\ Lives(u) => ~entry[u].fg /\ ~entry[u].suppressed
    <3>1. \A x \in Infos(u)' : IsEnded(x) => x.status \in {how, "lost"}
      BY <2>2 DEF NoNews, IsEnded, Terminal
    <3> QED
      BY <2>2, <3>1 DEF SameLife
  <2> QED
    BY <1>5, <2>1, <2>2 DEF Grounds
<1> QED
  BY <1>1, <1>3, <1>4, <1>5 DEF Grounds, IsEnded

\* Nothing new is said of the task, and its entry goes on as it was.
LEMMA LifeFrame ==
  ASSUME NEW u \in Tasks, LifeOf(u), SameLife(u),
         Lives(u)' => /\ entry'[u].settling = entry[u].settling
                      /\ entry'[u].queue = entry[u].queue
                      /\ entry'[u].caller \in {"waiting", "released", "returned"} => entry'[u].fg
                      /\ entry'[u].tool # "no" => entry'[u].suppressed,
         u \in registered => u \in registered', ~Lives(u) => ~Lives(u)',
         doc'[u] = doc[u], ghost'[u] = ghost[u],
         Infos(u)' \subseteq Infos(u) \cup {NoInfo},
         IsEnded(Now.info[u]) => IsEnded(Now'.info[u]), u \in lost' => u \in lost,
         u \in registered' => u \in registered,
         mode' \in {"losing", "replay"} => mode' = mode /\ Now'.info[u] = Now.info[u]
  PROVE  LifeOf(u)'
<1>0. ~IsEnded(NoInfo) /\ NoInfo.status = "none"
  BY DEF IsEnded, Terminal, NoInfo
<1>1. OneEndOf(u)' /\ YoungOf(u)'
  BY <1>0 DEF LifeOf, OneEndOf, YoungOf, SameLife, Running, Lives, IsEnded
<1>2. ForegroundOf(u)'
  BY <1>0 DEF LifeOf, ForegroundOf, AllForeground, SameLife
<1>3. EndLastOf(u)' /\ LiveOf(u)'
  BY DEF LifeOf, EndLastOf, LiveOf, SameLife, IsEnded
<1>4. GhostOf(u)'
  BY DEF LifeOf, GhostOf
<1> QED
  BY <1>1, <1>2, <1>3, <1>4 DEF LifeOf

-----------------------------------------------------------------------------
(* Steps of a task that runs: it is registered, detached, stopped, settled.  *)

\* Nothing is said of its end so far.
LEMMA NothingSaid ==
  ASSUME Inv, NEW t \in Tasks, Running(t) \/ t \notin registered
  PROVE  /\ \A x \in Infos(t) : ~IsEnded(x)
         /\ building[t] = "no" /\ t \notin pending \cup restoring \cup lost /\ t \notin Listed
         /\ \A s \in Snapshots : \A i \in DOMAIN s.told : s.told[i][1] # t
         /\ Lives(t) => Running(t) /\ t \in registered
<1>1. LifeOf(t) /\ NoticeOf(t) /\ EntryTypes /\ building[t] \in {"no", "notify", "restore"}
  BY DEF Inv, Lifecycle, Notices, NoticeTypes
<1>2. Lives(t) => Running(t) /\ t \in registered
  BY <1>1, EntryFacts DEF LifeOf, YoungOf
<1>3. \A x \in Infos(t) : ~IsEnded(x)
  BY <1>1 DEF LifeOf, YoungOf, IsEnded, Terminal
<1>4. ~IsEnded(GetTask(t)) /\ ~IsEnded(ghost[t]) /\ ~IsEnded(entry[t])
  BY <1>1, <1>2, <1>3, EntryFacts DEF GetTask, Infos, LiveInfos, Lives
<1>5. t \notin Listed /\ t \notin lost
  BY <1>1, <1>4 DEF Listed, LifeOf, GhostOf
<1>6. building[t] = "no" /\ t \notin pending \cup restoring
  BY <1>1, <1>4, <1>5 DEF NoticeOf
<1>7. ASSUME NEW s \in Snapshots, NEW i \in DOMAIN s.told, s.told[i][1] = t
      PROVE  FALSE
  BY <1>2, <1>4, <1>7 DEF Inv, Grounded, Grounds, Running, Lives
<1> QED
  BY <1>2, <1>3, <1>5, <1>6, <1>7

\* The queue of writes of a task that runs.
QueueGrows(t) ==
  \/ Running(t) /\ entry'[t].queue = entry[t].queue
  \/ Running(t) /\ entry'[t].queue = Append(entry[t].queue, Info(entry'[t]))
  \/ ~Lives(t) /\ entry'[t].queue \in {<<>>, Append(<<>>, Info(entry'[t]))}

\* A queue that grows so adds at most the task as it now is, and an ended entry stays last.
LEMMA QueueFacts ==
  ASSUME EntryTypes, NEW t \in Tasks, QueueGrows(t), entry'[t] \in EntryT,
         Running(t) => \A i \in DOMAIN entry[t].queue : ~IsEnded(entry[t].queue[i])
  PROVE  /\ LiveInfos(t)' \subseteq LiveInfos(t) \cup {Info(entry'[t])}
         /\ Info(entry'[t]) \in LiveInfos(t)'
         /\ \A i \in DOMAIN entry'[t].queue :
              IsEnded(entry'[t].queue[i]) => i = Len(entry'[t].queue)
<1>1. Lives(t)'
  BY DEF Lives, EntryT, Terminal
<1>2. Info(entry'[t]) \in InfoT
  BY DEF Info, InfoT, EntryT
<1>3. CASE Running(t) /\ entry'[t].queue = entry[t].queue
  BY <1>1, <1>3 DEF LiveInfos, Lives, Running
<1>4. CASE Running(t) /\ entry'[t].queue = Append(entry[t].queue, Info(entry'[t]))
  <2>1. entry[t].queue \in Seq(InfoT) /\ Lives(t)
    BY <1>4, EntryFacts DEF EntryT
  <2>0. Info(entry'[t]) \in InfoT /\ entry'[t].queue = Append(entry[t].queue, Info(entry'[t]))
    BY <1>2, <1>4
  <2>2. /\ DOMAIN entry[t].queue = 1..Len(entry[t].queue) /\ Len(entry[t].queue) \in Nat
        /\ Len(entry'[t].queue) = Len(entry[t].queue) + 1
        /\ DOMAIN entry'[t].queue = 1..(Len(entry[t].queue) + 1)
        /\ entry'[t].queue[Len(entry[t].queue) + 1] = Info(entry'[t])
        /\ \A i \in 1..Len(entry[t].queue) : entry'[t].queue[i] = entry[t].queue[i]
    BY <2>0, <2>1
  <2>3. LiveInfos(t)' \subseteq LiveInfos(t) \cup {Info(entry'[t])}
    <3>1. \A i \in 1..Len(entry[t].queue) : entry[t].queue[i] \in LiveInfos(t)
      BY <2>1, <2>2 DEF LiveInfos
    <3>2. \A i \in DOMAIN entry'[t].queue :
            entry'[t].queue[i] \in LiveInfos(t) \cup {Info(entry'[t])}
      <4> SUFFICES ASSUME NEW i \in DOMAIN entry'[t].queue
                   PROVE  entry'[t].queue[i] \in LiveInfos(t) \cup {Info(entry'[t])}
        OBVIOUS
      <4>1. PICK n \in Nat : n = Len(entry[t].queue)
        BY <2>2
      <4>2. i \in 1..n \/ i = n + 1
        BY <2>2, <4>1
      <4> QED
        BY <2>2, <3>1, <4>1, <4>2
    <3> QED
      BY <1>1, <3>2 DEF LiveInfos
  <2>4. \A i \in DOMAIN entry'[t].queue :
          IsEnded(entry'[t].queue[i]) => i = Len(entry'[t].queue)
    BY <1>4, <2>2
  <2> QED
    BY <1>1, <2>3, <2>4 DEF LiveInfos
<1>5. CASE ~Lives(t) /\ entry'[t].queue \in {<<>>, Append(<<>>, Info(entry'[t]))}
  <2>1. \/ DOMAIN entry'[t].queue = {}
        \/ /\ DOMAIN entry'[t].queue = {1} /\ entry'[t].queue[1] = Info(entry'[t])
           /\ Len(entry'[t].queue) = 1
    <3>1. \A x \in InfoT : DOMAIN Append(<<>>, x) = {1} /\ Append(<<>>, x)[1] = x
                            /\ Len(Append(<<>>, x)) = 1
      OBVIOUS
    <3>2. DOMAIN <<>> = {}
      OBVIOUS
    <3> QED
      BY <1>2, <1>5, <3>1, <3>2
  <2>2. \A i \in DOMAIN entry'[t].queue :
          entry'[t].queue[i] = Info(entry'[t]) /\ i = Len(entry'[t].queue)
    BY <2>1
  <2> QED
    BY <1>1, <2>2 DEF LiveInfos
<1> QED
  BY <1>3, <1>4, <1>5 DEF QueueGrows

\* A step of a task that runs or is new, and that records at most what the task now is,
\* keeps the invariant.
LEMMA RunningStep ==
  ASSUME Inv, NEW t \in Tasks, Running(t) \/ t \notin registered,
         mode \notin {"replay", "losing"},
         EntryTypes', entry'[t] \in EntryT,
         \A u \in Tasks : u # t => entry'[u] = entry[u],
         registered' = registered \cup {t},
         UNCHANGED <<notices, recovery, doc, early>>,
         \/ UNCHANGED journal
         \/ ~IsEnded(entry'[t]) /\ Dispatch(Recorded(t, Info(entry'[t]))),
         IsEnded(entry'[t]) <=> entry'[t].settling, QueueGrows(t),
         entry'[t].fg /\ Running(t) => entry[t].fg,
         entry'[t].caller \in {"waiting", "released", "returned"} => entry'[t].fg,
         entry'[t].tool # "no" => entry'[t].suppressed
  PROVE  Inv'
<1> DEFINE e == Info(entry'[t])
<1>0. EntryTypes /\ RecordTypes /\ NoticeTypes /\ Lifecycle /\ Notices /\ Grounded /\ ToldOnceEach
  BY DEF Inv
<1>1. /\ \A x \in Infos(t) : ~IsEnded(x)
      /\ building[t] = "no" /\ t \notin pending \cup restoring \cup lost /\ t \notin Listed
      /\ \A s \in Snapshots : \A i \in DOMAIN s.told : s.told[i][1] # t
      /\ Lives(t) => Running(t) /\ t \in registered
  BY NothingSaid
<1>2. e \in InfoT /\ e.status = entry'[t].status /\ e.fg = entry'[t].fg /\ Lives(t)'
  BY DEF Info, InfoT, EntryT, Lives, Terminal
<1>3. /\ Recorded(t, e) \in SnapshotT /\ Recorded(t, e).told = Now.told
      /\ Recorded(t, e).info[t] = e
      /\ \A u \in Tasks : u # t => Recorded(t, e).info[u] = Now.info[u]
  BY <1>0, <1>2, RecordedFacts
<1>4. Now \in Snapshots /\ Snapshots \subseteq SnapshotT
  BY <1>0, NowIsSnapshot
<1>5. /\ RecordTypes'
      /\ \/ Snapshots' = Snapshots /\ Now' = Now
         \/ ~IsEnded(e) /\ Snapshots' = Snapshots \cup {Recorded(t, e)} /\ Now' = Recorded(t, e)
  <2>1. CASE UNCHANGED journal
    BY <1>0, <2>1 DEF RecordTypes, recovery, Snapshots, Now
  <2>2. CASE ~IsEnded(entry'[t]) /\ Dispatch(Recorded(t, e))
    <3>1. /\ journal' \in Seq(SnapshotT) /\ journal' # <<>>
          /\ Snapshots' = Snapshots \cup {Recorded(t, e)} /\ Now' = Recorded(t, e)
      BY <1>0, <1>3, <2>2, DispatchFacts
    <3>2. ~IsEnded(e)
      BY <1>2, <2>2 DEF IsEnded
    <3> QED
      BY <1>0, <3>1, <3>2 DEF RecordTypes, recovery
  <2> QED
    BY <2>1, <2>2
<1> HIDE DEF e
<1>6. /\ LiveInfos(t)' \subseteq LiveInfos(t) \cup {e} /\ e \in LiveInfos(t)'
      /\ \A i \in DOMAIN entry'[t].queue :
           IsEnded(entry'[t].queue[i]) => i = Len(entry'[t].queue)
  <2>1. Running(t) => \A i \in DOMAIN entry[t].queue : ~IsEnded(entry[t].queue[i])
    BY <1>1 DEF Infos, LiveInfos, Running, Lives
  <2> QED
    BY <1>0, <2>1, QueueFacts DEF e
<1>7. Infos(t)' \subseteq Infos(t) \cup {e}
  BY <1>3, <1>5, <1>6 DEF Infos, recovery
<1>8. ASSUME NEW u \in Tasks, u # t
      PROVE  Infos(u)' \subseteq Infos(u) /\ Now'.info[u] = Now.info[u] /\ entry'[u] = entry[u]
  <2>1. LiveInfos(u)' = LiveInfos(u) /\ entry'[u] = entry[u]
    BY <1>8 DEF LiveInfos, Lives
  <2> QED
    BY <1>3, <1>4, <1>5, <1>8, <2>1 DEF Infos, recovery
<1>9. NoticeTypes' /\ mode' = mode
  BY <1>0 DEF NoticeTypes, notices, recovery
<1>10. LifeOf(t)'
  <2>1. \A x \in Infos(t)' : IsEnded(x) => x = e
    BY <1>1, <1>7
  <2>2. OneEndOf(t)'
    BY <2>1 DEF OneEndOf
  <2>3. YoungOf(t)'
    BY <1>2, <2>1 DEF YoungOf, Running, IsEnded, Terminal
  <2>4. ForegroundOf(t)'
    <3>1. entry'[t].fg => AllForeground(t)
      BY <1>0, <1>1 DEF Lifecycle, LifeOf, ForegroundOf, YoungOf, AllForeground, Running, Lives
    <3> QED
      BY <1>2, <1>7, <3>1 DEF ForegroundOf, AllForeground
  <2>5. EndLastOf(t)' /\ LiveOf(t)'
    BY <1>1, <1>6 DEF EndLastOf, LiveOf, Infos
  <2>6. GhostOf(t)'
    BY <1>1, <1>9 DEF GhostOf, recovery, Infos
  <2> QED
    BY <2>2, <2>3, <2>4, <2>5, <2>6 DEF LifeOf
<1>11. Lifecycle'
  <2>1. ASSUME NEW u \in Tasks, u # t
        PROVE  LifeOf(u)'
    <3>1. SameLife(u) /\ (Lives(u)' <=> Lives(u))
      BY <1>8, <2>1 DEF SameLife, Lives
    <3>2. Lives(u)' => /\ entry'[u].caller \in {"waiting", "released", "returned"} => entry'[u].fg
                       /\ entry'[u].tool # "no" => entry'[u].suppressed
      BY <1>0, <1>8, <2>1, <3>1 DEF Lifecycle, LifeOf, LiveOf
    <3>3. ghost' = ghost /\ lost' = lost /\ LifeOf(u)
      BY <1>0 DEF recovery, Lifecycle
    <3> QED
      BY <1>8, <1>9, <2>1, <3>1, <3>2, <3>3, LifeFrame
  <2> QED
    BY <1>10, <2>1 DEF Lifecycle
<1>12. Restarting'
  BY <1>9 DEF Restarting
<1>13. Notices'
  <2>1. UNCHANGED <<building, pending, scheduled, delivered, restoring>>
    BY DEF notices, recovery
  <2>2. NoticeOf(t)'
    BY <1>1, <2>1 DEF NoticeOf
  <2>3. ASSUME NEW u \in Tasks, u # t
        PROVE  NoticeOf(u)'
    <3>1. GetTask(u)' = GetTask(u) /\ entry'[u] = entry[u]
      BY <1>8, <2>3 DEF GetTask, recovery
    <3> QED
      BY <1>0, <2>1, <3>1 DEF Notices, NoticeOf, Listed
  <2>4. Now'.told = Now.told
    BY <1>3, <1>5
  <2> QED
    BY <1>0, <1>9, <2>1, <2>2, <2>3, <2>4 DEF Notices, Keys
<1>14. Grounded'
  <2> SUFFICES ASSUME NEW r \in Snapshots', NEW i \in DOMAIN r.told
               PROVE  Grounds(r, r.told[i][1], r.told[i][2])'
    BY DEF Grounded
  <2>1. PICK s \in Snapshots : s.told = r.told /\ \A u \in Tasks : u # t => r.info[u] = s.info[u]
    BY <1>3, <1>4, <1>5
  <2> DEFINE u == r.told[i][1]
  <2>2. Grounds(s, u, r.told[i][2]) /\ u # t
    BY <1>0, <1>1, <2>1 DEF Grounded
  <2>3. u \in Tasks
    <3>1. r.told \in Seq(Tasks \X Hows)
      BY <1>4, <2>1 DEF SnapshotT
    <3> QED
      BY <3>1
  <2>4. SameLife(u) /\ NoNews(u) /\ u \in registered' /\ doc'[u] = doc[u]
    BY <1>8, <2>2, <2>3 DEF SameLife, Lives, NoNews, Grounds
  <2> QED
    BY <2>1, <2>2, <2>3, <2>4, GroundsFrame
<1>15. ToldOnceEach'
  <2>1. \A r \in Snapshots' : \E s \in Snapshots : s.told = r.told
    BY <1>3, <1>4, <1>5
  <2>2. \A a, b : Apart(a, b)' <=> Apart(a, b)
    BY DEF Apart
  <2> QED
    BY <1>0, <2>1, <2>2 DEF ToldOnceEach
<1> QED
  BY <1>5, <1>9, <1>11, <1>12, <1>13, <1>14, <1>15 DEF Inv

\* A task of this process, outside a restore.
LEMMA RunsOutsideRestore ==
  ASSUME Inv, NEW t \in Tasks, Lives(t)
  PROVE  /\ mode \notin {"replay", "losing"} /\ entry[t] \in EntryT /\ t \in registered
         /\ LiveOf(t) /\ EntryTypes /\ RecordTypes
BY EntryFacts DEF Inv, Restarting, Lifecycle, LifeOf, YoungOf

\* An entry is replaced.
LEMMA EntrySet ==
  ASSUME EntryTypes, NEW t \in Tasks, NEW e \in EntryT, entry' = [entry EXCEPT ![t] = e]
  PROVE  /\ EntryTypes' /\ entry'[t] = e /\ \A u \in Tasks : u # t => entry'[u] = entry[u]
BY DEF EntryTypes

\* persistLive.
LEMMA PersistFacts ==
  ASSUME NEW e \in EntryT
  PROVE  /\ PersistLive(e) \in EntryT /\ Info(PersistLive(e)) = Info(e)
         /\ PersistLive(e) = [e EXCEPT !.queue = Append(e.queue, Info(e))]
         /\ PersistLive(e).queue = Append(e.queue, Info(e))
         /\ PersistLive(e).status = e.status /\ PersistLive(e).fg = e.fg
         /\ PersistLive(e).settling = e.settling /\ PersistLive(e).caller = e.caller
         /\ PersistLive(e).tool = e.tool /\ PersistLive(e).suppressed = e.suppressed
<1>1. Info(e) \in InfoT
  BY DEF Info, InfoT, EntryT
<1>2. Append(e.queue, Info(e)) \in Seq(InfoT)
  BY <1>1 DEF EntryT
<1> QED
  BY <1>2 DEF PersistLive, Info, EntryT

\* registerTask.
LEMMA RegisterKeepsInv ==
  ASSUME Inv, NEW t \in Tasks, NEW fg \in BOOLEAN, NEW timer \in BOOLEAN, NEW auto \in BOOLEAN,
         Register(t, fg, timer, auto)
  PROVE  Inv'
<1> DEFINE e == [status |-> "running", fg |-> fg, timer |-> timer, auto |-> auto,
                 timedOut |-> FALSE, stopping |-> {}, persisting |-> ~fg,
                 suppressed |-> FALSE, settling |-> FALSE, queue |-> <<>>,
                 caller |-> IF fg THEN "waiting" ELSE "none", tool |-> "no"]
           n == IF fg THEN e ELSE PersistLive(e)
<1>1. /\ mode = "live" /\ t \notin registered /\ registered' = registered \cup {t}
      /\ entry' = [entry EXCEPT ![t] = n]
      /\ UNCHANGED journal \/ Dispatch(Recorded(t, Info(e)))
      /\ UNCHANGED <<notices, recovery, doc, early>>
  BY DEF Register
<1>2. /\ e \in EntryT /\ e.status = "running" /\ e.fg = fg /\ e.suppressed = FALSE
      /\ e.settling = FALSE /\ e.queue = <<>> /\ e.tool = "no"
      /\ e.caller \in {"waiting", "released", "returned"} => e.fg
  <2>1. <<>> \in Seq(InfoT)
    OBVIOUS
  <2> QED
    BY <2>1 DEF EntryT
<1> HIDE DEF e
<1>3. /\ n \in EntryT /\ Info(n) = Info(e) /\ n.status = "running" /\ n.fg = fg /\ ~n.settling
      /\ n.tool = "no" /\ n.queue \in {<<>>, Append(<<>>, Info(n))}
      /\ n.caller \in {"waiting", "released", "returned"} => n.fg
  BY <1>2, PersistFacts
<1> HIDE DEF n
<1>4. ~Lives(t) /\ EntryTypes
  BY <1>1 DEF Inv, Lifecycle, LifeOf, YoungOf
<1>5. EntryTypes' /\ entry'[t] = n /\ \A u \in Tasks : u # t => entry'[u] = entry[u]
  BY <1>1, <1>3, <1>4, EntrySet
<1>6. QueueGrows(t) /\ ~Running(t) /\ ~IsEnded(n) /\ entry'[t] \in EntryT
  BY <1>3, <1>4, <1>5 DEF QueueGrows, Lives, Running, IsEnded, Terminal
<1>7. UNCHANGED journal \/ (~IsEnded(entry'[t]) /\ Dispatch(Recorded(t, Info(entry'[t]))))
  BY <1>1, <1>3, <1>5, <1>6
<1>8. /\ IsEnded(entry'[t]) <=> entry'[t].settling
      /\ entry'[t].fg /\ Running(t) => entry[t].fg
      /\ entry'[t].caller \in {"waiting", "released", "returned"} => entry'[t].fg
      /\ entry'[t].tool # "no" => entry'[t].suppressed
  BY <1>3, <1>5, <1>6
<1> QED
  BY <1>1, <1>5, <1>6, <1>7, <1>8, RunningStep

\* detachEntry.
LEMMA DetachKeepsInv ==
  ASSUME Inv, NEW t \in Tasks, NEW timer \in BOOLEAN, DetachEntry(t, timer)
  PROVE  Inv'
<1> DEFINE e == [entry[t] EXCEPT !.fg = FALSE, !.timer = timer,
                                 !.persisting = TRUE, !.caller = "detached"]
           n == PersistLive(e)
<1>1. /\ Running(t) /\ entry' = [entry EXCEPT ![t] = n] /\ Dispatch(Recorded(t, Info(e)))
      /\ UNCHANGED <<notices, recovery, registered, doc, early>>
  BY DEF DetachEntry, audit
<1>2. /\ mode \notin {"replay", "losing"} /\ entry[t] \in EntryT /\ t \in registered
      /\ LiveOf(t) /\ EntryTypes /\ Lives(t) /\ entry[t].status = "running"
  BY <1>1, RunsOutsideRestore DEF Running, Lives
<1>3. /\ e \in EntryT /\ e.status = "running" /\ e.fg = FALSE /\ e.caller = "detached"
      /\ e.settling = entry[t].settling /\ e.queue = entry[t].queue
      /\ e.tool = entry[t].tool /\ e.suppressed = entry[t].suppressed
  BY <1>2 DEF EntryT
<1> HIDE DEF e
<1>4. /\ n \in EntryT /\ Info(n) = Info(e) /\ n.status = "running" /\ n.fg = FALSE
      /\ n.caller = "detached" /\ n.settling = entry[t].settling
      /\ n.tool = entry[t].tool /\ n.suppressed = entry[t].suppressed
      /\ n.queue = Append(entry[t].queue, Info(n))
  BY <1>3, PersistFacts
<1> HIDE DEF n
<1>5. EntryTypes' /\ entry'[t] = n /\ \A u \in Tasks : u # t => entry'[u] = entry[u]
  BY <1>1, <1>2, <1>4, EntrySet
<1>6. ~IsEnded(entry'[t]) /\ ~IsEnded(entry[t]) /\ QueueGrows(t) /\ entry'[t] \in EntryT
  BY <1>1, <1>2, <1>4, <1>5 DEF QueueGrows, IsEnded, Terminal
<1>7. /\ IsEnded(entry'[t]) <=> entry'[t].settling
      /\ entry'[t].fg /\ Running(t) => entry[t].fg
      /\ entry'[t].caller \in {"waiting", "released", "returned"} => entry'[t].fg
      /\ entry'[t].tool # "no" => entry'[t].suppressed
  BY <1>2, <1>4, <1>5, <1>6 DEF LiveOf, EntryT
<1>8. ~IsEnded(entry'[t]) /\ Dispatch(Recorded(t, Info(entry'[t])))
  BY <1>1, <1>4, <1>5, <1>6
<1>9. registered' = registered \cup {t}
  BY <1>1, <1>2
<1> QED
  BY <1>1, <1>2, <1>5, <1>6, <1>7, <1>8, <1>9, RunningStep

\* A running task's entry changes, and nothing else: its queue may grow.
LEMMA EntryStep ==
  ASSUME Inv, NEW t \in Tasks, Running(t), NEW e \in EntryT,
         entry' = [entry EXCEPT ![t] = e],
         UNCHANGED <<notices, recovery, audit, doc, journal>>,
         e.queue \in {entry[t].queue, Append(entry[t].queue, Info(e))},
         IsEnded(e) <=> e.settling, e.fg = entry[t].fg,
         e.caller = entry[t].caller,
         e.tool # "no" => e.suppressed
  PROVE  Inv'
<1>1. /\ mode \notin {"replay", "losing"} /\ entry[t] \in EntryT /\ t \in registered
      /\ LiveOf(t) /\ EntryTypes /\ Lives(t)
  BY RunsOutsideRestore DEF Running, Lives
<1>2. EntryTypes' /\ entry'[t] = e /\ \A u \in Tasks : u # t => entry'[u] = entry[u]
  BY <1>1, EntrySet
<1>3. QueueGrows(t) /\ entry'[t] \in EntryT
  BY <1>2 DEF QueueGrows
<1>4. /\ IsEnded(entry'[t]) <=> entry'[t].settling
      /\ entry'[t].fg /\ Running(t) => entry[t].fg
      /\ entry'[t].caller \in {"waiting", "released", "returned"} => entry'[t].fg
      /\ entry'[t].tool # "no" => entry'[t].suppressed
  BY <1>1, <1>2 DEF LiveOf
<1>5. registered' = registered \cup {t} /\ UNCHANGED <<notices, recovery, doc, early>>
  BY <1>1 DEF audit
<1> QED
  BY <1>1, <1>2, <1>3, <1>4, <1>5, RunningStep

\* PersistOutput, Terminate, StopToolSuppresses and SettleTask.
LEMMA RunningKeepsInv ==
  ASSUME Inv, NEW t \in Tasks, Running(t),
         UNCHANGED <<notices, recovery, audit, doc, journal>>,
         \/ PersistOutput(t) \/ StopToolSuppresses(t)
         \/ \E s \in Terminal : Terminate(t, s) \/ SettleTask(t, s)
  PROVE  Inv'
<1>1. /\ entry[t] \in EntryT /\ EntryTypes /\ LiveOf(t) /\ Lives(t) /\ ~IsEnded(entry[t])
      /\ entry[t].status = "running"
  BY RunsOutsideRestore, EntryFacts DEF Running, Lives
<1>2. /\ ~entry[t].settling /\ (entry[t].tool # "no" => entry[t].suppressed)
      /\ entry[t].settling \in BOOLEAN
  BY <1>1 DEF LiveOf, EntryT
<1>3. CASE PersistOutput(t)
  <2> DEFINE e == [entry[t] EXCEPT !.persisting = TRUE]
  <2>1. entry' = [entry EXCEPT ![t] = e]
    BY <1>3 DEF PersistOutput
  <2>2. /\ e \in EntryT /\ e.queue = entry[t].queue /\ e.settling = entry[t].settling
        /\ e.fg = entry[t].fg /\ e.caller = entry[t].caller /\ e.tool = entry[t].tool
        /\ e.suppressed = entry[t].suppressed /\ e.status = entry[t].status
    BY <1>1 DEF EntryT
  <2> HIDE DEF e
  <2>3. IsEnded(e) <=> e.settling
    BY <1>1, <1>2, <2>2 DEF IsEnded
  <2> QED
    BY <1>2, <2>1, <2>2, <2>3, EntryStep
<1>4. CASE StopToolSuppresses(t)
  <2> DEFINE e == [entry[t] EXCEPT !.suppressed = TRUE, !.tool = "suppressing"]
             n == PersistLive(e)
  <2>1. entry' = [entry EXCEPT ![t] = n]
    BY <1>4 DEF StopToolSuppresses
  <2>2. /\ e \in EntryT /\ e.queue = entry[t].queue /\ e.settling = entry[t].settling
        /\ e.fg = entry[t].fg /\ e.caller = entry[t].caller
        /\ e.suppressed /\ e.status = entry[t].status
    BY <1>1 DEF EntryT
  <2> HIDE DEF e
  <2>3. /\ n \in EntryT /\ n.queue = Append(entry[t].queue, Info(n))
        /\ n.settling = entry[t].settling /\ n.fg = entry[t].fg
        /\ n.caller = entry[t].caller /\ n.suppressed /\ n.status = entry[t].status
    BY <2>2, PersistFacts
  <2> HIDE DEF n
  <2>4. IsEnded(n) <=> n.settling
    BY <1>1, <1>2, <2>3 DEF IsEnded
  <2> QED
    BY <2>1, <2>3, <2>4, EntryStep
<1>5. ASSUME NEW s \in Terminal, Terminate(t, s)
      PROVE  Inv'
  <2> DEFINE e == [entry[t] EXCEPT !.timer = FALSE, !.timedOut = @ \/ s = "timed_out",
                                   !.stopping = @ \cup {s}]
  <2>1. entry' = [entry EXCEPT ![t] = e]
    BY <1>1, <1>5 DEF Terminate, EntryTypes, EntryT
  <2>2. /\ e \in EntryT /\ e.queue = entry[t].queue /\ e.settling = entry[t].settling
        /\ e.fg = entry[t].fg /\ e.caller = entry[t].caller /\ e.tool = entry[t].tool
        /\ e.suppressed = entry[t].suppressed /\ e.status = entry[t].status
    BY <1>1 DEF EntryT
  <2> HIDE DEF e
  <2>3. IsEnded(e) <=> e.settling
    BY <1>1, <1>2, <2>2 DEF IsEnded
  <2> QED
    BY <1>2, <2>1, <2>2, <2>3, EntryStep
<1>6. ASSUME NEW s \in Terminal, SettleTask(t, s)
      PROVE  Inv'
  <2> DEFINE e == [entry[t] EXCEPT !.status = s, !.timer = FALSE, !.settling = TRUE]
             n == IF e.persisting THEN PersistLive(e) ELSE e
  <2>1. entry' = [entry EXCEPT ![t] = n]
    BY <1>6 DEF SettleTask
  <2>2. /\ e \in EntryT /\ e.queue = entry[t].queue /\ e.settling /\ e.status = s
        /\ e.fg = entry[t].fg /\ e.caller = entry[t].caller /\ e.tool = entry[t].tool
        /\ e.suppressed = entry[t].suppressed
    BY <1>1 DEF EntryT
  <2> HIDE DEF e
  <2>3. /\ n \in EntryT /\ n.queue \in {entry[t].queue, Append(entry[t].queue, Info(n))}
        /\ n.settling /\ n.status = s
        /\ n.fg = entry[t].fg /\ n.caller = entry[t].caller /\ n.tool = entry[t].tool
        /\ n.suppressed = entry[t].suppressed
    BY <2>2, PersistFacts
  <2> HIDE DEF n
  <2>4. IsEnded(n) <=> n.settling
    BY <2>3 DEF IsEnded
  <2> QED
    BY <1>2, <2>1, <2>3, <2>4, EntryStep
<1> QED
  BY <1>3, <1>4, <1>5, <1>6

-----------------------------------------------------------------------------
(* Steps that report an end, and steps that report nothing.                  *)

\* r says no more than s, and knows the ends that s knows.
Covers(s, r) ==
  /\ DOMAIN r.told \subseteq DOMAIN s.told /\ \A i \in DOMAIN r.told : r.told[i] = s.told[i]
  /\ \A u \in Tasks : IsEnded(s.info[u]) => r.info[u] = s.info[u]

\* What is known of the tasks stays, or is lost.
Keeps ==
  /\ registered' = registered /\ early \subseteq early'
  /\ \A u \in Tasks : SameLife(u) /\ NoNews(u) /\ (IsEnded(doc[u]) => doc'[u] = doc[u])

\* What was reported in s was reported with reason, and is still.
LEMMA ReportedStays ==
  ASSUME RecordTypes, Grounded, ToldOnceEach, Keeps, NEW s \in Snapshots, NEW r, Covers(s, r)
  PROVE  /\ \A i \in DOMAIN r.told : Grounds(r, r.told[i][1], r.told[i][2])'
         /\ \A i, j \in DOMAIN r.told : i < j => Apart(r.told[i], r.told[j])'
<1>1. s \in SnapshotT /\ s.told \in Seq(Tasks \X Hows)
  BY NowIsSnapshot DEF SnapshotT
<1>2. ASSUME NEW i \in DOMAIN r.told
      PROVE  Grounds(r, r.told[i][1], r.told[i][2])'
  <2>1. Grounds(s, r.told[i][1], r.told[i][2]) /\ r.told[i][1] \in Tasks
    BY <1>1 DEF Covers, Grounded
  <2>2. r.told[i][1] \in registered'
    BY <2>1 DEF Grounds, Keeps
  <2> QED
    BY <2>1, <2>2, GroundsFrame DEF Keeps, Covers
<1>3. ASSUME NEW i \in DOMAIN r.told, NEW j \in DOMAIN r.told, i < j
      PROVE  Apart(r.told[i], r.told[j])'
  BY <1>3 DEF Covers, ToldOnceEach, Apart, Keeps
<1> QED
  BY <1>2, <1>3

\* A step that reports nothing.
LEMMA QuietStep ==
  ASSUME RecordTypes, Grounded, ToldOnceEach, Keeps,
         \A r \in Snapshots' : \E s \in Snapshots : Covers(s, r)
  PROVE  Grounded' /\ ToldOnceEach'
<1>1. ASSUME NEW r \in Snapshots'
      PROVE  /\ \A i \in DOMAIN r.told : Grounds(r, r.told[i][1], r.told[i][2])'
             /\ \A i, j \in DOMAIN r.told : i < j => Apart(r.told[i], r.told[j])'
  <2>1. PICK s \in Snapshots : Covers(s, r)
    BY <1>1
  <2> QED
    BY <2>1, ReportedStays
<1> QED
  BY <1>1 DEF Grounded, ToldOnceEach

\* A snapshot covers itself.
LEMMA CoversItself ==
  ASSUME NEW s
  PROVE  Covers(s, s)
BY DEF Covers

\* A step that reports the end of t, with reason and for the first time.
LEMMA TellStep ==
  ASSUME RecordTypes, Grounded, ToldOnceEach, Keeps, NEW t \in Tasks, NEW how \in Hows,
         NEW n, n = Told(t, how), Dispatch(n), Grounds(n, t, how)',
         \A i \in 1..Len(Now.told) : Apart(n.told[i], <<t, how>>)'
  PROVE  Grounded' /\ ToldOnceEach'
<1>1. /\ n \in SnapshotT /\ n.info = Now.info
      /\ DOMAIN n.told = 1..(Len(Now.told) + 1)
      /\ DOMAIN Now.told = 1..Len(Now.told) /\ Len(Now.told) \in Nat
      /\ n.told[Len(Now.told) + 1] = <<t, how>>
      /\ \A i \in 1..Len(Now.told) : n.told[i] = Now.told[i]
  BY ToldFacts
<1>2. Snapshots' = Snapshots \cup {n}
  BY <1>1, DispatchFacts
<1>3. ASSUME NEW r \in Snapshots
      PROVE  /\ \A i \in DOMAIN r.told : Grounds(r, r.told[i][1], r.told[i][2])'
             /\ \A i, j \in DOMAIN r.told : i < j => Apart(r.told[i], r.told[j])'
  BY <1>3, ReportedStays, CoversItself
<1>4. ASSUME NEW m, m = Now
      PROVE  /\ \A i \in 1..Len(m.told) : Grounds(n, n.told[i][1], n.told[i][2])'
             /\ \A i, j \in 1..Len(m.told) : i < j => Apart(n.told[i], n.told[j])'
  <2> DEFINE r == [info |-> n.info, told |-> m.told]
  <2>1. Covers(m, r) /\ m \in Snapshots /\ DOMAIN m.told = 1..Len(m.told)
    BY <1>1, <1>4, NowIsSnapshot DEF Covers
  <2>2. /\ \A i \in DOMAIN r.told : Grounds(r, r.told[i][1], r.told[i][2])'
        /\ \A i, j \in DOMAIN r.told : i < j => Apart(r.told[i], r.told[j])'
    BY <2>1, ReportedStays
  <2>3. \A i \in 1..Len(m.told) : r.told[i] = n.told[i]
    BY <1>1, <1>4
  <2>4. ASSUME NEW a, NEW b, Grounds(r, a, b)'
        PROVE  Grounds(n, a, b)'
    BY <2>4 DEF Grounds
  <2> HIDE DEF r
  <2>5. DOMAIN r.told = 1..Len(m.told)
    BY <2>1 DEF r
  <2> QED
    BY <2>2, <2>3, <2>4, <2>5
<1>5. \A i \in DOMAIN n.told : Grounds(n, n.told[i][1], n.told[i][2])'
  BY <1>1, <1>4
<1>6. \A i, j \in DOMAIN n.told : i < j => Apart(n.told[i], n.told[j])'
  <2> SUFFICES ASSUME NEW i \in DOMAIN n.told, NEW j \in DOMAIN n.told, i < j
               PROVE  Apart(n.told[i], n.told[j])'
    OBVIOUS
  <2>1. PICK k \in Nat : k = Len(Now.told)
    BY <1>1
  <2>2. i \in 1..k /\ (j \in 1..k \/ j = k + 1)
    BY <1>1, <2>1
  <2>3. CASE j \in 1..k
    <3>1. PICK m : m = Now
      OBVIOUS
    <3>2. \A a, b \in 1..Len(m.told) : a < b => Apart(n.told[a], n.told[b])'
      BY <1>4, <3>1
    <3> QED
      BY <2>1, <2>2, <2>3, <3>1, <3>2
  <2>4. CASE j = k + 1
    <3>1. n.told[j] = <<t, how>>
      BY <1>1, <2>1, <2>4
    <3> QED
      BY <2>1, <2>2, <3>1
  <2> QED
    BY <2>2, <2>3, <2>4
<1> QED
  BY <1>2, <1>3, <1>5, <1>6 DEF Grounded, ToldOnceEach

\* The entry is there or not as before, with the same infos.
KeptEntry(u) ==
  /\ SameLife(u) /\ (Lives(u) <=> Lives(u)')
  /\ Lives(u)' => /\ entry'[u].settling = entry[u].settling /\ entry'[u].queue = entry[u].queue
                  /\ entry'[u].caller \in {"waiting", "released", "returned"} => entry'[u].fg
                  /\ entry'[u].tool # "no" => entry'[u].suppressed

\* An entry that is kept leaves what is known of its task as it was.
LEMMA KeptFacts ==
  ASSUME EntryTypes, EntryTypes', NEW u \in Tasks, KeptEntry(u), ghost'[u] = ghost[u]
  PROVE  LiveInfos(u)' = LiveInfos(u) /\ GetTask(u)' = GetTask(u)
<1>1. CASE Lives(u)
  <2>1. Lives(u)' /\ Info(entry'[u]) = Info(entry[u]) /\ entry'[u].queue = entry[u].queue
    BY <1>1 DEF KeptEntry, SameLife, Info
  <2> QED
    BY <1>1, <2>1 DEF LiveInfos, GetTask, Lives
<1>2. CASE ~Lives(u)
  BY <1>2 DEF KeptEntry, LiveInfos, GetTask, Lives
<1> QED
  BY <1>1, <1>2

\* Entries, documents and ghosts are as before, and the state now knows no less.
LEMMA KeptLives ==
  ASSUME Inv, EntryTypes', RecordTypes',
         \A u \in Tasks : KeptEntry(u),
         UNCHANGED <<doc, ghost, registered>>, lost' \subseteq lost, early \subseteq early',
         \A r \in Snapshots' : \A u \in Tasks : \E s \in Snapshots : r.info[u] = s.info[u],
         \A u \in Tasks : Now'.info[u] = Now.info[u],
         mode' = mode \/ mode' \notin {"losing", "replay"}
  PROVE  Lifecycle' /\ Keeps
<1>0. EntryTypes /\ RecordTypes /\ Lifecycle
  BY DEF Inv
<1>1. ASSUME NEW u \in Tasks
      PROVE  Infos(u)' \subseteq Infos(u)
  <2>1. LiveInfos(u)' = LiveInfos(u)
    BY <1>0, KeptFacts
  <2> QED
    BY <2>1 DEF Infos
<1>2. ASSUME NEW u \in Tasks
      PROVE  LifeOf(u)'
  <2>1. /\ SameLife(u) /\ (Lives(u) <=> Lives(u)')
        /\ Lives(u)' => /\ entry'[u].settling = entry[u].settling
                        /\ entry'[u].queue = entry[u].queue
                        /\ entry'[u].caller \in {"waiting", "released", "returned"} => entry'[u].fg
                        /\ entry'[u].tool # "no" => entry'[u].suppressed
    BY DEF KeptEntry
  <2>2. LifeOf(u)
    BY <1>0 DEF Lifecycle
  <2> QED
    BY <1>1, <2>1, <2>2, LifeFrame
<1>3. Keeps
  BY <1>1 DEF Keeps, KeptEntry, NoNews
<1> QED
  BY <1>2, <1>3 DEF Lifecycle

\* Notifications of a task whose entry is as before.
LEMMA NoticeFrame ==
  ASSUME EntryTypes, EntryTypes', NEW u \in Tasks, NoticeOf(u), KeptEntry(u), ghost'[u] = ghost[u],
         building'[u] \in {building[u], "no"}, u \in restoring' => u \in restoring,
         u \in pending' => /\ u \in pending /\ u \in scheduled'
                           /\ <<u, entry[u].status>> \notin delivered'
  PROVE  NoticeOf(u)'
<1>1. GetTask(u)' = GetTask(u)
  BY KeptFacts
<1>2. IsEnded(entry[u]) =>
        /\ entry'[u].status = entry[u].status /\ entry'[u].fg = entry[u].fg
        /\ entry'[u].suppressed = entry[u].suppressed /\ entry'[u].settling = entry[u].settling
  BY EntryFacts DEF KeptEntry, SameLife
<1>3. u \in Listed => u \in Listed'
  BY <1>1 DEF Listed
<1>4. (building[u] = "notify" \/ u \in pending)' =>
        (IsEnded(entry[u]) /\ ~entry[u].settling /\ ~entry[u].fg)'
  BY <1>2 DEF NoticeOf, IsEnded
<1>5. (building[u] = "restore" \/ u \in restoring)' => u \in Listed'
  BY <1>3 DEF NoticeOf
<1>6. u \in pending' => /\ ~entry'[u].suppressed /\ u \in scheduled'
                        /\ <<u, entry'[u].status>> \notin delivered'
  BY <1>2 DEF NoticeOf
<1> QED
  BY <1>4, <1>5, <1>6 DEF NoticeOf

\* Changes of an entry that nothing is said about.
LEMMA EntryKept ==
  ASSUME Inv, NEW t \in Tasks, NEW e \in EntryT, Lives(t), entry' = [entry EXCEPT ![t] = e],
         e.status = entry[t].status, e.fg = entry[t].fg, e.suppressed = entry[t].suppressed,
         e.settling = entry[t].settling, e.queue = entry[t].queue,
         e.caller = entry[t].caller \/ (e.caller = "returned" /\ e.fg),
         e.tool = entry[t].tool \/ (e.suppressed /\ entry[t].tool # "returned")
  PROVE  EntryTypes' /\ entry'[t] = e /\ \A u \in Tasks : KeptEntry(u)
<1>1. EntryTypes /\ \A u \in Tasks : LiveOf(u)
  BY DEF Inv, Lifecycle, LifeOf
<1>2. EntryTypes' /\ entry'[t] = e /\ \A u \in Tasks : u # t => entry'[u] = entry[u]
  BY <1>1, EntrySet
<1>3. KeptEntry(t)
  BY <1>1, <1>2 DEF KeptEntry, SameLife, Lives, LiveOf
<1>4. \A u \in Tasks : u # t => KeptEntry(u)
  BY <1>1, <1>2 DEF KeptEntry, SameLife, Lives, LiveOf
<1> QED
  BY <1>2, <1>3, <1>4

\* The same entries.
LEMMA SameEntries ==
  ASSUME Inv, UNCHANGED entry
  PROVE  EntryTypes' /\ \A u \in Tasks : KeptEntry(u)
BY DEF Inv, EntryTypes, Lifecycle, LifeOf, LiveOf, KeptEntry, SameLife, Lives

\* What the running process knows of a task is one of its infos.
LEMMA GetTaskSaid ==
  ASSUME NEW t \in Tasks
  PROVE  GetTask(t) \in Infos(t) /\ (Lives(t) => Info(entry[t]) = GetTask(t))
BY DEF GetTask, Infos, LiveInfos, Lives

\* What the state now tells of the end of a task, and why.
LEMMA ToldNow ==
  ASSUME Inv, NEW i \in DOMAIN Now.told
  PROVE  Now.told[i][1] \in Tasks /\ Now.told[i][2] \in Hows
         /\ Grounds(Now, Now.told[i][1], Now.told[i][2])
<1>1. RecordTypes /\ Grounded
  BY DEF Inv
<1>2. Now \in Snapshots /\ Now.told \in Seq(Tasks \X Hows)
  BY <1>1, NowIsSnapshot DEF SnapshotT
<1> QED
  BY <1>1, <1>2 DEF Grounded

\* A notified end is the end that is known, unless it was reported early.
LEMMA NotifiedEnd ==
  ASSUME Inv, NEW t \in Tasks, NEW how \in Terminal, Grounds(Now, t, how), IsEnded(GetTask(t))
  PROVE  /\ Lives(t) => ~entry[t].fg /\ ~entry[t].suppressed
         /\ GetTask(t).status = how \/ (t \in early /\ GetTask(t).status = "lost")
<1>1. RecordTypes /\ OneEndOf(t)
  BY DEF Inv, Lifecycle, LifeOf
<1>2. Now \in Snapshots
  BY <1>1, NowIsSnapshot
<1>3. GetTask(t) \in Infos(t) /\ (Lives(t) => Info(entry[t]) = GetTask(t))
  BY GetTaskSaid
<1>4. CASE \E x \in {Now.info[t], doc[t]} : x.status = how /\ ~x.fg /\ ~x.suppressed
  <2>1. PICK x \in {Now.info[t], doc[t]} : x.status = how /\ ~x.fg /\ ~x.suppressed
    BY <1>4
  <2>2. x \in Infos(t) /\ IsEnded(x)
    BY <1>2, <2>1 DEF Infos, IsEnded
  <2>3. x = GetTask(t)
    BY <1>1, <1>3, <2>2 DEF OneEndOf
  <2> QED
    BY <1>3, <2>1, <2>3 DEF Info
<1>5. CASE /\ t \in early
           /\ \A x \in Infos(t) : IsEnded(x) => x.status \in {how, "lost"}
           /\ Lives(t) => ~entry[t].fg /\ ~entry[t].suppressed
  BY <1>3, <1>5
<1> QED
  BY <1>4, <1>5 DEF Grounds

\* The call that waited for the task reports its end.
LEMMA CallerReturnsKeepsInv ==
  ASSUME Inv, NEW t \in Tasks, CallerReturns(t)
  PROVE  Inv'
<1> DEFINE e == [entry[t] EXCEPT !.caller = "returned"]
<1>1. /\ IsEnded(entry[t]) /\ entry[t].caller = "released" /\ mode = "live"
      /\ entry' = [entry EXCEPT ![t] = e] /\ Dispatch(Told(t, "result"))
      /\ UNCHANGED <<building, pending, scheduled, delivered, ghost, mode, restoring, lost,
                      registered, early, doc>>
  BY DEF CallerReturns, notices, recovery, audit
<1>2. /\ EntryTypes /\ RecordTypes /\ NoticeTypes /\ Notices /\ Grounded /\ ToldOnceEach
      /\ Lives(t) /\ entry[t] \in EntryT /\ LiveOf(t) /\ entry[t].fg /\ t \in registered
  BY <1>1, EntryFacts, RunsOutsideRestore DEF Inv, LiveOf
<1>3. /\ e \in EntryT /\ e.status = entry[t].status /\ e.fg = entry[t].fg
      /\ e.suppressed = entry[t].suppressed /\ e.settling = entry[t].settling
      /\ e.queue = entry[t].queue /\ e.caller = "returned" /\ e.tool = entry[t].tool
  BY <1>2 DEF EntryT
<1> HIDE DEF e
<1>4. EntryTypes' /\ entry'[t] = e /\ \A u \in Tasks : KeptEntry(u)
  BY <1>1, <1>2, <1>3, EntryKept
<1>5. PICK n : n = Told(t, "result")
  OBVIOUS
<1>6. /\ n \in SnapshotT /\ n.info = Now.info
      /\ DOMAIN Now.told = 1..Len(Now.told)
      /\ \A i \in 1..Len(Now.told) : n.told[i] = Now.told[i]
      /\ Keys(n.told) \subseteq Keys(Now.told)
  BY <1>2, <1>5, ToldFacts DEF Hows, Terminal
<1>7. /\ journal' \in Seq(SnapshotT) /\ journal' # <<>>
      /\ Snapshots' = Snapshots \cup {n} /\ Now' = n /\ Now \in Snapshots
  BY <1>1, <1>2, <1>5, <1>6, DispatchFacts, NowIsSnapshot
<1>8. RecordTypes' /\ NoticeTypes' /\ Restarting'
  BY <1>1, <1>2, <1>7 DEF RecordTypes, NoticeTypes, Restarting
<1>9. Lifecycle' /\ Keeps
  BY <1>1, <1>4, <1>6, <1>7, <1>8, KeptLives
<1>10. Grounds(n, t, "result")'
  <2>1. Lives(t)' /\ entry'[t].fg /\ entry'[t].caller = "returned" /\ IsEnded(entry'[t])
    BY <1>1, <1>2, <1>3, <1>4 DEF Lives, IsEnded
  <2>2. AllForeground(t)'
    BY <1>9, <2>1 DEF Lifecycle, LifeOf, ForegroundOf
  <2> QED
    BY <1>1, <1>2, <2>1, <2>2 DEF Grounds, Terminal
<1>11. ASSUME NEW i \in 1..Len(Now.told)
       PROVE  Apart(n.told[i], <<t, "result">>)'
  <2>1. Now.told[i][2] \in Hows /\ Grounds(Now, Now.told[i][1], Now.told[i][2])
    BY <1>6, ToldNow
  <2>2. Now.told[i][1] = t => Now.told[i][2] # "result"
    BY <1>1, <1>2, <2>1 DEF Grounds
  <2>3. IsEnded(GetTask(t))
    BY <1>1, <1>2, GetTaskSaid DEF Info, IsEnded
  <2>4. Now.told[i][1] = t => Now.told[i][2] \notin Terminal
    BY <1>2, <2>1, <2>3, NotifiedEnd
  <2>5. Now.told[i][1] = t => Now.told[i][2] = "stopped"
    BY <2>1, <2>2, <2>4 DEF Hows
  <2> QED
    BY <1>6, <2>5 DEF Apart
<1>12. Grounded' /\ ToldOnceEach'
  BY <1>1, <1>2, <1>5, <1>9, <1>10, <1>11, TellStep DEF Hows
<1>13. Notices'
  <2>1. \A u \in Tasks : NoticeOf(u)'
    BY <1>1, <1>2, <1>4, NoticeFrame DEF Notices, NoticeOf
  <2> QED
    BY <1>1, <1>2, <1>6, <1>7, <2>1 DEF Notices
<1> QED
  BY <1>4, <1>8, <1>9, <1>12, <1>13 DEF Inv

\* The result of TaskStop reports the end: the notification is suppressed by then.
LEMMA StopToolReturnsKeepsInv ==
  ASSUME Inv, NEW t \in Tasks, StopToolReturns(t)
  PROVE  Inv'
<1> DEFINE e == [entry[t] EXCEPT !.tool = "returned"]
<1>1. /\ IsEnded(entry[t]) /\ entry[t].tool = "stopping" /\ ~entry[t].settling
      /\ entry' = [entry EXCEPT ![t] = e] /\ Dispatch(Told(t, "stopped"))
      /\ UNCHANGED <<building, pending, scheduled, delivered, ghost, mode, restoring, lost,
                      registered, early, doc>>
  BY DEF StopToolReturns, notices, recovery, audit
<1>2. /\ EntryTypes /\ RecordTypes /\ NoticeTypes /\ Notices /\ Grounded /\ ToldOnceEach
      /\ Lives(t) /\ entry[t] \in EntryT /\ LiveOf(t) /\ entry[t].suppressed /\ t \in registered
      /\ mode \notin {"replay", "losing"}
  BY <1>1, EntryFacts, RunsOutsideRestore DEF Inv, LiveOf
<1>3. /\ e \in EntryT /\ e.status = entry[t].status /\ e.fg = entry[t].fg
      /\ e.suppressed = entry[t].suppressed /\ e.settling = entry[t].settling
      /\ e.queue = entry[t].queue /\ e.caller = entry[t].caller /\ e.tool = "returned"
  BY <1>2 DEF EntryT
<1> HIDE DEF e
<1>4. EntryTypes' /\ entry'[t] = e /\ \A u \in Tasks : KeptEntry(u)
  BY <1>1, <1>2, <1>3, EntryKept
<1>5. PICK n : n = Told(t, "stopped")
  OBVIOUS
<1>6. /\ n \in SnapshotT /\ n.info = Now.info
      /\ DOMAIN Now.told = 1..Len(Now.told)
      /\ \A i \in 1..Len(Now.told) : n.told[i] = Now.told[i]
      /\ Keys(n.told) \subseteq Keys(Now.told)
  BY <1>2, <1>5, ToldFacts DEF Hows, Terminal
<1>7. /\ journal' \in Seq(SnapshotT) /\ journal' # <<>>
      /\ Snapshots' = Snapshots \cup {n} /\ Now' = n /\ Now \in Snapshots
  BY <1>1, <1>2, <1>5, <1>6, DispatchFacts, NowIsSnapshot
<1>8. RecordTypes' /\ NoticeTypes' /\ Restarting'
  BY <1>1, <1>2, <1>7 DEF RecordTypes, NoticeTypes, Restarting
<1>9. Lifecycle' /\ Keeps
  BY <1>1, <1>4, <1>6, <1>7, <1>8, KeptLives
<1>10. Grounds(n, t, "stopped")'
  <2>1. Lives(t)' /\ entry'[t].tool = "returned" /\ IsEnded(entry'[t])
    BY <1>1, <1>2, <1>3, <1>4 DEF Lives, IsEnded
  <2>2. CASE entry[t].fg
    <3>1. AllForeground(t)'
      BY <1>3, <1>4, <1>9, <2>1, <2>2 DEF Lifecycle, LifeOf, ForegroundOf
    <3> QED
      BY <1>1, <1>2, <2>1, <3>1 DEF Grounds, Terminal
  <2>3. CASE ~entry[t].fg
    <3>1. IsEnded(Now.info[t]) /\ Now.info[t] \in Infos(t) /\ Info(entry[t]) \in Infos(t)
      BY <1>1, <1>2, <1>7, <2>3 DEF LiveOf, Infos, LiveInfos
    <3>2. IsEnded(Info(entry[t])) /\ Info(entry[t]).suppressed
      BY <1>1, <1>2 DEF IsEnded, Info
    <3>3. n.info[t] = Info(entry[t])
      BY <1>6, <3>1, <3>2 DEF Inv, Lifecycle, LifeOf, OneEndOf
    <3> QED
      BY <1>1, <1>2, <2>1, <3>2, <3>3 DEF Grounds, Terminal, IsEnded
  <2> QED
    BY <2>2, <2>3
<1>11. ASSUME NEW i \in 1..Len(Now.told)
       PROVE  Apart(n.told[i], <<t, "stopped">>)'
  <2>1. Now.told[i][2] \in Hows /\ Grounds(Now, Now.told[i][1], Now.told[i][2])
    BY <1>6, ToldNow
  <2>2. Now.told[i][1] = t => Now.told[i][2] # "stopped"
    BY <1>1, <1>2, <2>1 DEF Grounds
  <2>3. IsEnded(GetTask(t))
    BY <1>1, <1>2, GetTaskSaid DEF Info, IsEnded
  <2>4. Now.told[i][1] = t => Now.told[i][2] \notin Terminal
    BY <1>2, <2>1, <2>3, NotifiedEnd
  <2>5. Now.told[i][1] = t => Now.told[i][2] = "result"
    BY <2>1, <2>2, <2>4 DEF Hows
  <2> QED
    BY <1>6, <2>5 DEF Apart
<1>12. Grounded' /\ ToldOnceEach'
  BY <1>1, <1>2, <1>5, <1>9, <1>10, <1>11, TellStep DEF Hows
<1>13. Notices'
  <2>1. \A u \in Tasks : NoticeOf(u)'
    BY <1>1, <1>2, <1>4, NoticeFrame DEF Notices, NoticeOf
  <2> QED
    BY <1>1, <1>2, <1>6, <1>7, <2>1 DEF Notices
<1> QED
  BY <1>4, <1>8, <1>9, <1>12, <1>13 DEF Inv

\* A notification of an end that is known in the background, not suppressed and not
\* yet delivered.
LEMMA NotifyStep ==
  ASSUME Inv, NEW t \in Tasks, NEW how, how = StatusOf(t),
         mode \notin {"replay", "losing"},
         IsEnded(GetTask(t)), ~GetTask(t).fg, ~Suppressed(t), <<t, how>> \notin delivered,
         IsEnded(Now.info[t]) \/ IsEnded(doc[t]) \/ t \in early',
         Dispatch(Told(t, how)), early \subseteq early',
         UNCHANGED <<entry, recovery, registered, doc>>
  PROVE  /\ EntryTypes' /\ RecordTypes' /\ Lifecycle' /\ Restarting'
         /\ Grounded' /\ ToldOnceEach' /\ Keys(Now'.told) \subseteq delivered \cup {<<t, how>>}
<1>1. /\ EntryTypes /\ RecordTypes /\ Notices /\ Grounded /\ ToldOnceEach /\ LifeOf(t)
      /\ UNCHANGED <<ghost, mode, restoring, lost>>
      /\ Keys(Now.told) \subseteq delivered
  BY DEF Inv, Lifecycle, recovery, Notices
<1>2. EntryTypes' /\ \A u \in Tasks : KeptEntry(u)
  BY SameEntries
<1>3. how \in Terminal /\ how \in Hows /\ how = GetTask(t).status /\ ~GetTask(t).suppressed
  BY DEF StatusOf, Suppressed, IsEnded, Hows
<1>4. PICK n : n = Told(t, how)
  OBVIOUS
<1>5. /\ n \in SnapshotT /\ n.info = Now.info
      /\ DOMAIN Now.told = 1..Len(Now.told)
      /\ \A i \in 1..Len(Now.told) : n.told[i] = Now.told[i]
      /\ Keys(n.told) \subseteq Keys(Now.told) \cup {<<t, how>>}
  BY <1>1, <1>3, <1>4, ToldFacts
<1>6. /\ journal' \in Seq(SnapshotT) /\ journal' # <<>>
      /\ Snapshots' = Snapshots \cup {n} /\ Now' = n /\ Now \in Snapshots
  BY <1>1, <1>4, <1>5, DispatchFacts, NowIsSnapshot
<1>7. RecordTypes' /\ Restarting'
  BY <1>1, <1>6 DEF RecordTypes, Restarting
<1>8. Lifecycle' /\ Keeps
  BY <1>1, <1>2, <1>5, <1>6, <1>7, KeptLives
<1>9. GetTask(t) \in Infos(t) /\ (Lives(t) => Info(entry[t]) = GetTask(t))
  BY GetTaskSaid
<1>10. t \in registered
  BY <1>1, <1>9 DEF LifeOf, YoungOf, IsEnded, Terminal
<1>11. Lives(t) => IsEnded(entry[t]) /\ ~entry[t].fg /\ ~entry[t].suppressed
  BY <1>3, <1>9 DEF Info, IsEnded
<1>12. Grounds(n, t, how)'
  <2>1. how # "result" /\ how # "stopped"
    BY <1>3 DEF Terminal
  <2>2. CASE IsEnded(Now.info[t]) \/ IsEnded(doc[t])
    <3>1. Now.info[t] \in Infos(t) /\ doc[t] \in Infos(t)
      BY <1>6 DEF Infos
    <3>2. Now.info[t] = GetTask(t) \/ doc[t] = GetTask(t)
      BY <1>1, <1>9, <2>2, <3>1 DEF LifeOf, OneEndOf
    <3>3. \E x \in {n.info[t], doc'[t]} : x.status = how /\ ~x.fg /\ ~x.suppressed
      BY <1>3, <1>5, <3>2
    <3> QED
      BY <1>10, <1>11, <2>1, <3>3 DEF Grounds, Lives, IsEnded
  <2>3. CASE t \in early'
    <3>1. GetTask(t)' = GetTask(t) /\ GetTask(t)' \in Infos(t)'
      BY <1>1, <1>9 DEF GetTask, Infos, LiveInfos, Lives
    <3>2. \A x \in Infos(t)' : IsEnded(x) => x = GetTask(t)
      BY <1>8, <3>1 DEF Lifecycle, LifeOf, OneEndOf
    <3>3. \A x \in Infos(t)' : IsEnded(x) => x.status \in {how, "lost"}
      BY <1>3, <3>2
    <3> QED
      BY <1>10, <1>11, <2>1, <2>3, <3>3 DEF Grounds, Lives, IsEnded
  <2> QED
    BY <2>2, <2>3
<1>13. ASSUME NEW i \in 1..Len(Now.told)
       PROVE  Apart(n.told[i], <<t, how>>)'
  <2>1. /\ Now.told[i][1] \in Tasks /\ Now.told[i][2] \in Hows
        /\ Grounds(Now, Now.told[i][1], Now.told[i][2])
    BY <1>5, ToldNow
  <2>2. Now.told[i][1] = t => Now.told[i][2] # "result"
    BY <1>3, <1>9, <2>1 DEF Grounds, AllForeground, IsEnded, Terminal
  <2>3. Now.told[i][1] = t => Now.told[i][2] # "stopped"
    <3>1. SUFFICES ASSUME Now.told[i][1] = t, Now.told[i][2] = "stopped"
                   PROVE  FALSE
      OBVIOUS
    <3>2. ~AllForeground(t)
      BY <1>3, <1>9 DEF AllForeground, IsEnded, Terminal
    <3>3. IsEnded(Now.info[t]) /\ Now.info[t].suppressed
      BY <2>1, <3>1, <3>2 DEF Grounds
    <3>4. Now.info[t] = GetTask(t)
      BY <1>1, <1>6, <1>9, <3>3 DEF LifeOf, OneEndOf, Infos
    <3> QED
      BY <1>3, <3>3, <3>4
  <2>4. Now.told[i][1] = t /\ Now.told[i][2] \in Terminal => t \in early /\ how = "lost"
    <3>1. SUFFICES ASSUME Now.told[i][1] = t, Now.told[i][2] \in Terminal
                   PROVE  t \in early /\ how = "lost"
      OBVIOUS
    <3>2. how = Now.told[i][2] \/ (t \in early /\ how = "lost")
      BY <1>3, <2>1, <3>1, NotifiedEnd
    <3>3. <<t, Now.told[i][2]>> \in Keys(Now.told)
      <4>1. Now.told \in Seq(Tasks \X Hows)
        BY <1>1, NowIsSnapshot DEF SnapshotT
      <4>2. Now.told[i] = <<t, Now.told[i][2]>>
        BY <1>5, <3>1, <4>1
      <4> QED
        BY <1>5, <3>1, <4>2 DEF Keys
    <3> QED
      BY <1>1, <3>2, <3>3
  <2>5. Now.told[i][1] = t => t \in early /\ how = "lost"
    BY <2>1, <2>2, <2>3, <2>4 DEF Hows
  <2> QED
    BY <1>5, <2>5 DEF Apart
<1>14. Grounded' /\ ToldOnceEach'
  BY <1>1, <1>3, <1>4, <1>8, <1>12, <1>13, TellStep
<1> QED
  BY <1>1, <1>2, <1>5, <1>6, <1>7, <1>8, <1>14

\* The loop delivers a requested notification.
LEMMA DeliverKeepsInv ==
  ASSUME Inv, NEW t \in Tasks, Deliver(t)
  PROVE  Inv'
<1>1. /\ mode = "live" /\ t \in pending /\ Dispatch(Told(t, StatusOf(t)))
      /\ pending' = pending \ {t} /\ scheduled' = scheduled \ {t}
      /\ delivered' = delivered \cup {<<t, StatusOf(t)>>}
      /\ UNCHANGED <<entry, recovery, registered, early, building, doc>>
      /\ UNCHANGED <<ghost, mode, restoring, lost>>
  BY DEF Deliver, audit, recovery
<1>2. /\ EntryTypes /\ NoticeTypes /\ Notices /\ LifeOf(t) /\ NoticeOf(t)
  BY DEF Inv, Lifecycle, Notices
<1>3. /\ IsEnded(entry[t]) /\ ~entry[t].settling /\ ~entry[t].fg /\ ~entry[t].suppressed
      /\ <<t, entry[t].status>> \notin delivered /\ Lives(t)
  BY <1>1, <1>2, EntryFacts DEF NoticeOf
<1>4. /\ IsEnded(GetTask(t)) /\ ~GetTask(t).fg /\ ~Suppressed(t) /\ StatusOf(t) = entry[t].status
  BY <1>3 DEF GetTask, Info, Suppressed, StatusOf, IsEnded, Lives
<1>5. IsEnded(Now.info[t])
  BY <1>2, <1>3 DEF LifeOf, LiveOf
<1>6. /\ EntryTypes' /\ RecordTypes' /\ Lifecycle' /\ Restarting'
      /\ Grounded' /\ ToldOnceEach' /\ Keys(Now'.told) \subseteq delivered \cup {<<t, StatusOf(t)>>}
  <2>1. PICK how : how = StatusOf(t)
    OBVIOUS
  <2>2. <<t, how>> \notin delivered /\ Dispatch(Told(t, how)) /\ early \subseteq early'
    BY <1>1, <1>3, <1>4, <2>1
  <2>3. mode \notin {"replay", "losing"}
    BY <1>1
  <2> QED
    BY <1>1, <1>4, <1>5, <2>1, <2>2, <2>3, NotifyStep
<1>7. NoticeTypes'
  BY <1>1, <1>2 DEF NoticeTypes
<1>8. ASSUME NEW u \in Tasks
      PROVE  NoticeOf(u)'
  <2>1. KeptEntry(u)
    BY <1>1, SameEntries
  <2>2. u \in pending' => /\ u \in pending /\ u \in scheduled'
                          /\ <<u, entry[u].status>> \notin delivered'
    BY <1>1, <1>2 DEF Notices, NoticeOf
  <2> QED
    BY <1>1, <1>2, <1>6, <2>1, <2>2, NoticeFrame DEF Notices
<1>9. Notices'
  BY <1>1, <1>6, <1>8 DEF Notices
<1> QED
  BY <1>6, <1>7, <1>9 DEF Inv

\* Nothing is recorded, and entries say what they said.
LEMMA StillStep ==
  ASSUME Inv, EntryTypes', \A u \in Tasks : KeptEntry(u),
         UNCHANGED <<doc, ghost, lost, registered, early, journal>>,
         mode' = mode \/ mode' \notin {"losing", "replay"}
  PROVE  RecordTypes' /\ Lifecycle' /\ Grounded' /\ ToldOnceEach' /\ Now' = Now
<1>1. RecordTypes /\ Grounded /\ ToldOnceEach
  BY DEF Inv
<1>2. RecordTypes' /\ Now' = Now /\ Snapshots' = Snapshots
  BY <1>1 DEF RecordTypes, Now, Snapshots
<1>3. Lifecycle' /\ Keeps
  BY <1>2, KeptLives
<1>4. Grounded' /\ ToldOnceEach'
  BY <1>1, <1>2, <1>3, QuietStep, CoversItself
<1> QED
  BY <1>2, <1>3, <1>4

\* A notification was built.
LEMMA BuildDoneKeepsInv ==
  ASSUME Inv, NEW t \in Tasks, BuildDone(t)
  PROVE  Inv'
<1> DEFINE wanted == ~Suppressed(t) /\ ~IsScheduledOrDelivered(t)
           direct == building[t] = "restore"
           unrecorded == IsEnded(entry[t]) /\ entry[t].settling
           enqueued == IF wanted /\ ~direct THEN {t} ELSE {}
<1>1. /\ building[t] # "no" /\ building' = [building EXCEPT ![t] = "no"]
      /\ scheduled' = scheduled \cup enqueued /\ pending' = pending \cup enqueued
      /\ UNCHANGED <<entry, recovery, doc, registered>>
      /\ UNCHANGED <<ghost, mode, restoring, lost>>
  BY DEF BuildDone, recovery
<1>2. /\ EntryTypes /\ NoticeTypes /\ Notices /\ LifeOf(t) /\ NoticeOf(t) /\ Restarting
  BY DEF Inv, Lifecycle, Notices
<1>3. mode \notin {"replay", "losing"}
  BY <1>1, <1>2 DEF Restarting
<1>4. building[t] \in {"notify", "restore"} /\ \A u \in Tasks : building'[u] \in {building[u], "no"}
  BY <1>1, <1>2 DEF NoticeTypes
<1>5. NoticeTypes' /\ \A u \in Tasks : KeptEntry(u)
  BY <1>1, <1>2, SameEntries DEF NoticeTypes
<1>6. CASE wanted /\ direct
  <2>1. /\ Dispatch(Told(t, StatusOf(t))) /\ delivered' = delivered \cup {<<t, StatusOf(t)>>}
        /\ early' = IF unrecorded THEN early \cup {t} ELSE early
        /\ pending' = pending /\ scheduled' = scheduled
        /\ t \notin scheduled /\ <<t, StatusOf(t)>> \notin delivered
    BY <1>1, <1>6 DEF BuildDone, IsScheduledOrDelivered
  <2>2. IsEnded(GetTask(t)) /\ ~GetTask(t).fg /\ ~Suppressed(t)
    BY <1>2, <1>6 DEF NoticeOf, Listed
  <2>3. IsEnded(Now.info[t]) \/ IsEnded(doc[t]) \/ t \in early'
    <3>1. CASE Lives(t)
      <4>1. IsEnded(entry[t]) /\ ~entry[t].fg
        BY <2>2, <3>1, GetTaskSaid DEF Info, IsEnded
      <4> QED
        BY <1>2, <2>1, <3>1, <4>1 DEF LifeOf, LiveOf
    <3>2. CASE ~Lives(t)
      <4>1. IsEnded(ghost[t])
        BY <2>2, <3>2 DEF GetTask, Lives
      <4> QED
        BY <1>2, <4>1 DEF LifeOf, GhostOf
    <3> QED
      BY <3>1, <3>2
  <2>4. /\ EntryTypes' /\ RecordTypes' /\ Lifecycle' /\ Restarting'
        /\ Grounded' /\ ToldOnceEach' /\ Keys(Now'.told) \subseteq delivered \cup {<<t, StatusOf(t)>>}
    <3>1. PICK how : how = StatusOf(t)
      OBVIOUS
    <3>2. /\ <<t, how>> \notin delivered /\ Dispatch(Told(t, how)) /\ early \subseteq early'
      BY <2>1, <3>1
    <3> QED
      BY <1>1, <1>3, <2>2, <2>3, <3>1, <3>2, NotifyStep
  <2>5. ASSUME NEW u \in Tasks
        PROVE  NoticeOf(u)'
    <3>1. u \in pending' => /\ u \in pending /\ u \in scheduled'
                            /\ <<u, entry[u].status>> \notin delivered'
      BY <1>2, <2>1 DEF Notices, NoticeOf
    <3> QED
      BY <1>1, <1>2, <1>4, <1>5, <2>4, <3>1, NoticeFrame DEF Notices
  <2>6. Notices'
    BY <2>1, <2>4, <2>5 DEF Notices
  <2> QED
    BY <1>5, <2>4, <2>6 DEF Inv
<1>7. CASE ~(wanted /\ direct)
  <2>1. UNCHANGED <<journal, delivered, early>>
    BY <1>7 DEF BuildDone
  <2>2. EntryTypes' /\ RecordTypes' /\ Lifecycle' /\ Grounded' /\ ToldOnceEach' /\ Now' = Now
    BY <1>1, <1>5, <2>1, SameEntries, StillStep
  <2>3. ASSUME NEW u \in Tasks
        PROVE  NoticeOf(u)'
    <3>1. CASE u \in enqueued
      <4>1. u = t /\ building[t] = "notify" /\ wanted /\ building'[t] = "no" /\ t \in scheduled'
        BY <1>1, <1>2, <1>4, <3>1 DEF NoticeTypes
      <4>2. IsEnded(entry[t]) /\ ~entry[t].settling /\ ~entry[t].fg /\ Lives(t)
        BY <1>2, <4>1, EntryFacts DEF NoticeOf
      <4>3. ~entry[t].suppressed /\ <<t, entry[t].status>> \notin delivered
        BY <4>1, <4>2, GetTaskSaid DEF Suppressed, IsScheduledOrDelivered, StatusOf, Info
      <4>4. GetTask(t)' = GetTask(t)
        BY <1>1 DEF GetTask
      <4>5. t \in restoring' => t \in Listed'
        BY <1>1, <1>2, <4>4 DEF NoticeOf, Listed
      <4> QED
        BY <1>1, <2>1, <4>1, <4>2, <4>3, <4>5 DEF NoticeOf
    <3>2. CASE u \notin enqueued
      <4>1. u \in pending' => /\ u \in pending /\ u \in scheduled'
                              /\ <<u, entry[u].status>> \notin delivered'
        BY <1>1, <1>2, <2>1, <3>2 DEF Notices, NoticeOf
      <4> QED
        BY <1>1, <1>2, <1>4, <1>5, <2>2, <4>1, NoticeFrame DEF Notices
    <3> QED
      BY <3>1, <3>2
  <2>4. Notices'
    BY <1>1, <1>2, <2>1, <2>2, <2>3 DEF Notices
  <2>5. Restarting'
    BY <1>1, <1>3 DEF Restarting
  <2> QED
    BY <1>5, <2>2, <2>4, <2>5 DEF Inv
<1> QED
  BY <1>6, <1>7

\* The rest of TaskStop's request.
LEMMA StopToolStopsKeepsInv ==
  ASSUME Inv, NEW t \in Tasks, StopToolStops(t)
  PROVE  Inv'
<1> DEFINE e == [entry[t] EXCEPT !.tool = "stopping", !.timer = FALSE,
                                 !.stopping = IF Running(t) THEN @ \cup {"killed"} ELSE @]
<1>1. /\ Lives(t) /\ entry[t].tool = "suppressing"
      /\ UNCHANGED <<building, pending, scheduled, delivered, ghost, mode, restoring, lost,
                      registered, early, doc, journal>>
  BY DEF StopToolStops, notices, recovery, audit, Lives
<1>2. /\ EntryTypes /\ NoticeTypes /\ Notices /\ entry[t] \in EntryT /\ LiveOf(t)
      /\ mode \notin {"replay", "losing"}
  BY <1>1, RunsOutsideRestore DEF Inv
<1>3. entry' = [entry EXCEPT ![t] = e]
  BY <1>2 DEF StopToolStops, EntryTypes, EntryT
<1>4. /\ e \in EntryT /\ e.status = entry[t].status /\ e.fg = entry[t].fg
      /\ e.suppressed = entry[t].suppressed /\ e.settling = entry[t].settling
      /\ e.queue = entry[t].queue /\ e.caller = entry[t].caller /\ e.suppressed
  BY <1>1, <1>2 DEF EntryT, LiveOf, Terminal
<1> HIDE DEF e
<1>5. EntryTypes' /\ \A u \in Tasks : KeptEntry(u)
  BY <1>1, <1>3, <1>4, EntryKept
<1>6. RecordTypes' /\ Lifecycle' /\ Grounded' /\ ToldOnceEach' /\ Now' = Now
  BY <1>1, <1>5, StillStep
<1>7. \A u \in Tasks : NoticeOf(u)'
  BY <1>1, <1>2, <1>5, NoticeFrame DEF Notices, NoticeOf
<1>8. Notices' /\ NoticeTypes' /\ Restarting'
  BY <1>1, <1>2, <1>6, <1>7 DEF Notices, NoticeTypes, Restarting
<1> QED
  BY <1>5, <1>6, <1>8 DEF Inv

\* The user cancels the turn of a notification.
LEMMA CancelRequestKeepsInv ==
  ASSUME Inv, NEW t \in Tasks, CancelRequest(t)
  PROVE  Inv'
<1>1. /\ pending' = pending \ {t} /\ scheduled' = scheduled \ {t}
      /\ UNCHANGED <<entry, building, delivered, ghost, mode, restoring, lost, registered, early,
                      doc, journal>>
      /\ mode = "live"
  BY DEF CancelRequest, recovery, audit
<1>2. EntryTypes /\ NoticeTypes /\ Notices
  BY DEF Inv
<1>3. EntryTypes' /\ \A u \in Tasks : KeptEntry(u)
  BY <1>1, SameEntries
<1>4. RecordTypes' /\ Lifecycle' /\ Grounded' /\ ToldOnceEach' /\ Now' = Now
  BY <1>1, <1>3, StillStep
<1>5. \A u \in Tasks : NoticeOf(u)'
  BY <1>1, <1>2, <1>3, NoticeFrame DEF Notices, NoticeOf
<1>6. Notices' /\ NoticeTypes' /\ Restarting'
  BY <1>1, <1>2, <1>4, <1>5 DEF Notices, NoticeTypes, Restarting
<1> QED
  BY <1>3, <1>4, <1>6 DEF Inv

\* A restore looks at the next task.
LEMMA RestoreNotificationKeepsInv ==
  ASSUME Inv, NEW t \in Tasks, RestoreNotification(t)
  PROVE  Inv'
<1>1. /\ mode = "notifying" /\ t \in restoring /\ restoring' = restoring \ {t}
      /\ building' = building \/ building' = [building EXCEPT ![t] = "restore"]
      /\ UNCHANGED <<entry, ghost, mode, lost, pending, scheduled, delivered, registered, early,
                      doc, journal>>
  BY DEF RestoreNotification, audit
<1>2. EntryTypes /\ NoticeTypes /\ Notices /\ NoticeOf(t)
  BY DEF Inv, Notices
<1>3. EntryTypes' /\ \A u \in Tasks : KeptEntry(u)
  BY <1>1, SameEntries
<1>4. RecordTypes' /\ Lifecycle' /\ Grounded' /\ ToldOnceEach' /\ Now' = Now
  BY <1>1, <1>3, StillStep
<1>5. \A u \in Tasks : u # t => NoticeOf(u)'
  BY <1>1, <1>2, <1>3, NoticeFrame DEF Notices, NoticeOf, NoticeTypes
<1>6. NoticeOf(t)'
  <2>1. t \in Listed' /\ building'[t] \in {building[t], "restore"}
    BY <1>1, <1>2 DEF NoticeOf, Listed, GetTask, NoticeTypes
  <2> QED
    BY <1>1, <1>2, <2>1 DEF NoticeOf
<1>7. Notices' /\ NoticeTypes' /\ Restarting'
  BY <1>1, <1>2, <1>4, <1>5, <1>6 DEF Notices, NoticeTypes, Restarting
<1> QED
  BY <1>3, <1>4, <1>7 DEF Inv

\* The end of a restore keeps the invariant, and so does an undo that gives up
\* after the cut: what counts as delivered is then more than what is told.
LEMMA RestoreDoneKeepsInv ==
  ASSUME Inv, RestoreDone \/ UndoFlushFails
  PROVE  Inv'
<1>1. /\ mode \in {"notifying", "cut"} /\ mode' = "live"
      /\ UNCHANGED <<entry, building, pending, scheduled, delivered, ghost, restoring, lost,
                      registered, early, doc, journal>>
  BY DEF RestoreDone, UndoFlushFails, notices, audit
<1>2. EntryTypes /\ NoticeTypes /\ Notices
  BY DEF Inv
<1>3. EntryTypes' /\ \A u \in Tasks : KeptEntry(u)
  BY <1>1, SameEntries
<1>4. RecordTypes' /\ Lifecycle' /\ Grounded' /\ ToldOnceEach' /\ Now' = Now
  BY <1>1, <1>3, StillStep
<1>5. \A u \in Tasks : NoticeOf(u)'
  BY <1>1, <1>2, <1>3, NoticeFrame DEF Notices, NoticeOf
<1>6. Notices' /\ NoticeTypes' /\ Restarting'
  BY <1>1, <1>2, <1>4, <1>5 DEF Notices, NoticeTypes, Restarting
<1> QED
  BY <1>3, <1>4, <1>6 DEF Inv

\* After an undo, what counts as delivered is what the conversation still tells.
LEMMA ReconcileAfterUndoKeepsInv ==
  ASSUME Inv, ReconcileAfterUndo
  PROVE  Inv'
<1>1. /\ mode = "cut" /\ mode' = "notifying" /\ delivered' = Keys(Now.told)
      /\ scheduled' = {t \in scheduled \cap pending : <<t, StatusOf(t)>> \notin Keys(Now.told)}
      /\ restoring' = Listed
      /\ UNCHANGED <<entry, building, pending, ghost, lost, registered, early, doc, journal>>
  BY DEF ReconcileAfterUndo, audit
<1>2. EntryTypes /\ NoticeTypes /\ Notices
  BY DEF Inv
<1>3. EntryTypes' /\ \A u \in Tasks : KeptEntry(u)
  BY <1>1, SameEntries
<1>4. RecordTypes' /\ Lifecycle' /\ Grounded' /\ ToldOnceEach' /\ Now' = Now
  BY <1>1, <1>3, StillStep
<1>5. Listed' = Listed /\ Keys(Now.told) \subseteq delivered
  BY <1>1, <1>2 DEF Listed, GetTask, Notices
<1>6. ASSUME NEW u \in Tasks
      PROVE  NoticeOf(u)'
  <2>1. NoticeOf(u)
    BY <1>2 DEF Notices
  <2>2. ASSUME u \in pending
        PROVE  u \in scheduled' /\ <<u, entry[u].status>> \notin delivered'
    <3>1. StatusOf(u) = entry[u].status
      BY <1>2, <2>1, <2>2, EntryFacts, GetTaskSaid DEF NoticeOf, StatusOf, Info
    <3> QED
      BY <1>1, <1>5, <2>1, <2>2, <3>1 DEF NoticeOf
  <2> QED
    BY <1>1, <1>5, <2>1, <2>2 DEF NoticeOf
<1>7. Notices' /\ NoticeTypes' /\ Restarting'
  BY <1>1, <1>2, <1>4, <1>6 DEF Notices, NoticeTypes, Restarting, Listed
<1> QED
  BY <1>3, <1>4, <1>7 DEF Inv

\* An undo cuts off the end of the conversation.
LEMMA UndoCutKeepsInv ==
  ASSUME Inv, NEW kept \in 0..Len(Now.told), UndoCut(kept)
  PROVE  Inv'
<1> DEFINE n == [Now EXCEPT !.told = SubSeq(@, 1, kept)]
<1>1. /\ mode = "live" /\ mode' = "cut" /\ Dispatch(n)
      /\ UNCHANGED <<entry, building, pending, scheduled, delivered, ghost, restoring, lost,
                      registered, early, doc>>
  BY DEF UndoCut, notices, audit
<1>2. EntryTypes /\ RecordTypes /\ NoticeTypes /\ Notices /\ Grounded /\ ToldOnceEach
  BY DEF Inv
<1>3. /\ Now \in Snapshots /\ Now \in SnapshotT /\ Now.told \in Seq(Tasks \X Hows)
      /\ Len(Now.told) \in Nat /\ DOMAIN Now.told = 1..Len(Now.told)
  BY <1>2, NowIsSnapshot DEF SnapshotT
<1>4. /\ SubSeq(Now.told, 1, kept) \in Seq(Tasks \X Hows)
      /\ DOMAIN SubSeq(Now.told, 1, kept) = 1..kept
      /\ \A i \in 1..kept : SubSeq(Now.told, 1, kept)[i] = Now.told[i]
  BY <1>3
<1>5. n \in SnapshotT /\ n.info = Now.info /\ n.told = SubSeq(Now.told, 1, kept)
  BY <1>3, <1>4 DEF SnapshotT
<1> HIDE DEF n
<1>6. Covers(Now, n) /\ Keys(n.told) \subseteq Keys(Now.told)
  BY <1>3, <1>4, <1>5 DEF Covers, Keys
<1>7. /\ journal' \in Seq(SnapshotT) /\ journal' # <<>>
      /\ Snapshots' = Snapshots \cup {n} /\ Now' = n
  BY <1>1, <1>2, <1>5, DispatchFacts
<1>8. EntryTypes' /\ \A u \in Tasks : KeptEntry(u)
  BY <1>1, SameEntries
<1>9. RecordTypes'
  BY <1>1, <1>2, <1>7 DEF RecordTypes
<1>10. Lifecycle' /\ Keeps
  <2>1. \A r \in Snapshots' : \A u \in Tasks : \E s \in Snapshots : r.info[u] = s.info[u]
    BY <1>3, <1>5, <1>7
  <2>2. mode' \notin {"losing", "replay"} /\ \A u \in Tasks : Now'.info[u] = Now.info[u]
    BY <1>1, <1>5, <1>7
  <2> QED
    BY <1>1, <1>8, <1>9, <2>1, <2>2, KeptLives
<1>11. Grounded' /\ ToldOnceEach'
  <2>1. \A r \in Snapshots' : \E s \in Snapshots : Covers(s, r)
    BY <1>3, <1>6, <1>7, CoversItself
  <2> QED
    BY <1>2, <1>10, <2>1, QuietStep
<1>12. \A u \in Tasks : NoticeOf(u)'
  BY <1>1, <1>2, <1>8, NoticeFrame DEF Notices, NoticeOf
<1>13. Notices' /\ NoticeTypes' /\ Restarting'
  BY <1>1, <1>2, <1>6, <1>7, <1>12 DEF Notices, NoticeTypes, Restarting
<1> QED
  BY <1>8, <1>9, <1>10, <1>11, <1>13 DEF Inv

\* The journal reaches the disk: only the state now is left to replay.
LEMMA FlushJournalKeepsInv ==
  ASSUME Inv, FlushJournal
  PROVE  Inv'
<1>1. /\ Len(journal) > 1 /\ journal' = <<Now>>
      /\ UNCHANGED <<entry, building, pending, scheduled, delivered, ghost, mode, restoring, lost,
                      registered, early, doc>>
  BY DEF FlushJournal, notices, recovery, audit
<1>2. EntryTypes /\ RecordTypes /\ NoticeTypes /\ Notices /\ Grounded /\ ToldOnceEach /\ Restarting
  BY DEF Inv
<1>3. Now \in Snapshots /\ Now \in SnapshotT /\ mode \notin {"replay", "losing"}
  BY <1>1, <1>2, NowIsSnapshot DEF Restarting
<1>4. journal' \in Seq(SnapshotT) /\ journal' # <<>> /\ Snapshots' = {Now} /\ Now' = Now
  <2>1. <<Now>> \in Seq(SnapshotT) /\ Len(<<Now>>) = 1 /\ DOMAIN <<Now>> = {1} /\ <<Now>>[1] = Now
    BY <1>3
  <2>2. Snapshots' = {Now}
    BY <1>1, <2>1 DEF Snapshots
  <2>3. Now' = journal'[Len(journal')]
    BY DEF Now
  <2> QED
    BY <1>1, <2>1, <2>2, <2>3
<1>5. EntryTypes' /\ \A u \in Tasks : KeptEntry(u)
  BY <1>1, SameEntries
<1>6. RecordTypes'
  BY <1>1, <1>2, <1>4 DEF RecordTypes
<1>7. Lifecycle' /\ Keeps
  BY <1>1, <1>3, <1>4, <1>5, <1>6, KeptLives
<1>8. Grounded' /\ ToldOnceEach'
  BY <1>2, <1>3, <1>4, <1>7, QuietStep, CoversItself
<1>9. \A u \in Tasks : NoticeOf(u)'
  BY <1>1, <1>2, <1>5, NoticeFrame DEF Notices, NoticeOf
<1>10. Notices' /\ NoticeTypes' /\ Restarting'
  BY <1>1, <1>2, <1>3, <1>4, <1>9 DEF Notices, NoticeTypes, Restarting
<1> QED
  BY <1>5, <1>6, <1>7, <1>8, <1>10 DEF Inv

\* settleTask goes on once the end was written: the end is recorded.
LEMMA SettleContinuesKeepsInv ==
  ASSUME Inv, NEW t \in Tasks, SettleContinues(t)
  PROVE  Inv'
<1> DEFINE e == [entry[t] EXCEPT !.settling = FALSE,
                                 !.caller = IF @ = "waiting" THEN "released" ELSE @]
           x == Info(entry[t])
<1>1. /\ IsEnded(entry[t]) /\ entry[t].settling
      /\ UNCHANGED <<pending, scheduled, delivered, ghost, mode, restoring, lost,
                      registered, early, doc>>
      /\ \/ entry[t].fg /\ UNCHANGED <<journal, building>>
         \/ /\ ~entry[t].fg /\ Dispatch(Recorded(t, x))
            /\ \/ building' = building
               \/ building' = [building EXCEPT ![t] = "notify"]
  BY DEF SettleContinues, recovery, audit
<1>2. /\ EntryTypes /\ RecordTypes /\ NoticeTypes /\ Notices /\ Lifecycle
      /\ Grounded /\ ToldOnceEach /\ LifeOf(t) /\ NoticeOf(t)
      /\ Lives(t) /\ entry[t] \in EntryT /\ mode \notin {"replay", "losing"} /\ ~Running(t)
  BY <1>1, EntryFacts, RunsOutsideRestore DEF Inv, Lifecycle, Notices
<1>3. entry' = [entry EXCEPT ![t] = e]
  BY <1>2 DEF SettleContinues, EntryTypes, EntryT
<1>4. /\ e \in EntryT /\ e.status = entry[t].status /\ e.fg = entry[t].fg
      /\ e.suppressed = entry[t].suppressed /\ e.settling = FALSE /\ e.queue = entry[t].queue
      /\ e.caller = (IF entry[t].caller = "waiting" THEN "released" ELSE entry[t].caller)
      /\ e.tool = entry[t].tool
  BY <1>2 DEF EntryT
<1> HIDE DEF e
<1>5. EntryTypes' /\ entry'[t] = e /\ \A u \in Tasks : u # t => entry'[u] = entry[u]
  BY <1>2, <1>3, <1>4, EntrySet
<1>6. /\ x \in InfoT /\ IsEnded(x) /\ Info(entry'[t]) = x /\ x \in Infos(t)
      /\ Lives(t)' /\ IsEnded(entry'[t]) /\ ~Running(t)'
  BY <1>1, <1>2, <1>4, <1>5
  DEF InfoT, EntryT, Info, IsEnded, Infos, LiveInfos, Lives, Running
<1> HIDE DEF x
<1>7. Now \in Snapshots /\ Now \in SnapshotT
  BY <1>2, NowIsSnapshot
<1>8. PICK n : n = Recorded(t, x)
  OBVIOUS
<1>9. /\ n \in SnapshotT /\ n.told = Now.told /\ n.info[t] = x
      /\ \A u \in Tasks : u # t => n.info[u] = Now.info[u]
  BY <1>2, <1>6, <1>8, RecordedFacts
<1>10. Covers(Now, n)
  <2>1. IsEnded(Now.info[t]) => Now.info[t] = x
    BY <1>2, <1>6, <1>7 DEF LifeOf, OneEndOf, Infos
  <2> QED
    BY <1>9, <2>1 DEF Covers
<1>11. /\ RecordTypes'
       /\ \/ entry[t].fg /\ Snapshots' = Snapshots /\ Now' = Now
          \/ ~entry[t].fg /\ Snapshots' = Snapshots \cup {n} /\ Now' = n
  <2>1. CASE entry[t].fg /\ UNCHANGED journal
    BY <1>1, <1>2, <2>1 DEF RecordTypes, Snapshots, Now
  <2>2. CASE ~entry[t].fg /\ Dispatch(n)
    BY <1>1, <1>2, <1>9, <2>2, DispatchFacts DEF RecordTypes
  <2> QED
    BY <1>1, <1>8, <2>1, <2>2
<1>12. ASSUME NEW u \in Tasks
       PROVE  Infos(u)' \subseteq Infos(u)
  <2>1. LiveInfos(u)' \subseteq Infos(u)
    BY <1>2, <1>4, <1>5, <1>6 DEF LiveInfos, Lives, Infos
  <2>2. \A r \in Snapshots' : r.info[u] \in Infos(u)
    BY <1>6, <1>7, <1>9, <1>11 DEF Infos
  <2> QED
    BY <1>1, <2>1, <2>2 DEF Infos
<1>13. \A u \in Tasks : SameLife(u)
  BY <1>2, <1>4, <1>5 DEF SameLife, Lives
<1>14. Keeps
  BY <1>1, <1>12, <1>13 DEF Keeps, NoNews
<1>15. LifeOf(t)'
  <2>1. OneEndOf(t)' /\ YoungOf(t)' /\ ForegroundOf(t)'
    BY <1>1, <1>2, <1>4, <1>5, <1>6, <1>12
    DEF LifeOf, OneEndOf, YoungOf, ForegroundOf, AllForeground
  <2>2. EndLastOf(t)'
    BY <1>1, <1>2, <1>4, <1>5 DEF LifeOf, EndLastOf
  <2>3. LiveOf(t)'
    BY <1>2, <1>4, <1>5, <1>6, <1>9, <1>11 DEF LifeOf, LiveOf
  <2>4. GhostOf(t)'
    BY <1>1, <1>2, <1>6, <1>9, <1>11 DEF LifeOf, GhostOf
  <2> QED
    BY <2>1, <2>2, <2>3, <2>4 DEF LifeOf
<1>16. ASSUME NEW u \in Tasks, u # t
       PROVE  KeptEntry(u)
  BY <1>2, <1>5, <1>16 DEF KeptEntry, SameLife, Lives, Lifecycle, LifeOf, LiveOf
<1>17. Lifecycle'
  <2>1. ASSUME NEW u \in Tasks, u # t
        PROVE  LifeOf(u)'
    <3>1. Now'.info[u] = Now.info[u] /\ LifeOf(u)
      BY <1>2, <1>9, <1>11, <2>1 DEF Lifecycle
    <3> QED
      BY <1>1, <1>12, <1>16, <2>1, <3>1, LifeFrame DEF KeptEntry
  <2> QED
    BY <1>15, <2>1 DEF Lifecycle
<1>18. Grounded' /\ ToldOnceEach'
  BY <1>2, <1>7, <1>10, <1>11, <1>14, QuietStep, CoversItself
<1>19. \A u \in Tasks : u # t => NoticeOf(u)'
  <2>1. \A u \in Tasks : u # t => building'[u] = building[u]
    BY <1>1, <1>2 DEF NoticeTypes
  <2> QED
    BY <1>1, <1>2, <1>5, <1>16, <2>1, NoticeFrame DEF Notices, NoticeOf
<1>20. NoticeOf(t)'
  <2>1. building'[t] = "notify" => ~entry[t].fg
    BY <1>1, <1>2 DEF NoticeOf, NoticeTypes
  <2>2. building'[t] = "restore" => building[t] = "restore"
    BY <1>1, <1>2 DEF NoticeTypes
  <2>3. GetTask(t)' = GetTask(t)
    BY <1>2, <1>6 DEF GetTask, Lives, x
  <2>4. t \in Listed => t \in Listed'
    BY <2>3 DEF Listed
  <2> QED
    BY <1>1, <1>2, <1>4, <1>5, <1>6, <2>1, <2>2, <2>4 DEF NoticeOf
<1>21. NoticeTypes' /\ Restarting' /\ Notices'
  <2>1. Now'.told = Now.told
    BY <1>9, <1>11
  <2> QED
    BY <1>1, <1>2, <1>19, <1>20, <2>1 DEF NoticeTypes, Restarting, Notices
<1> QED
  BY <1>5, <1>11, <1>17, <1>18, <1>21 DEF Inv

\* The rest of a queue.
LEMMA TailFacts ==
  ASSUME NEW q \in Seq(InfoT), q # <<>>
  PROVE  /\ Len(q) \in Nat \ {0} /\ DOMAIN q = 1..Len(q)
         /\ Head(q) = q[1] /\ Head(q) \in InfoT /\ Tail(q) \in Seq(InfoT)
         /\ Len(Tail(q)) = Len(q) - 1 /\ DOMAIN Tail(q) = 1..(Len(q) - 1)
         /\ \A i \in 1..(Len(q) - 1) : Tail(q)[i] = q[i + 1]
OBVIOUS

\* When the end is the last of a queue, it is the last of the rest.
LEMMA EndStaysLast ==
  ASSUME NEW q \in Seq(InfoT), q # <<>>,
         \A i \in DOMAIN q : IsEnded(q[i]) => i = Len(q)
  PROVE  /\ IsEnded(q[1]) => Tail(q) = <<>>
         /\ \A i \in DOMAIN Tail(q) : IsEnded(Tail(q)[i]) => i = Len(Tail(q))
<1>1. /\ Len(q) \in Nat \ {0} /\ DOMAIN q = 1..Len(q) /\ Tail(q) \in Seq(InfoT)
      /\ Len(Tail(q)) = Len(q) - 1 /\ DOMAIN Tail(q) = 1..(Len(q) - 1)
      /\ \A i \in 1..(Len(q) - 1) : Tail(q)[i] = q[i + 1]
  BY TailFacts
<1>2. 1 \in DOMAIN q
  BY <1>1
<1>3. IsEnded(q[1]) => Len(q) = 1
  BY <1>2
<1>4. \A r \in Seq(InfoT) : Len(r) = 0 => r = <<>>
  OBVIOUS
<1>5. Len(q) = 1 => Tail(q) = <<>>
  BY <1>1, <1>4
<1>6. ASSUME NEW i \in DOMAIN Tail(q), IsEnded(Tail(q)[i])
      PROVE  i = Len(Tail(q))
  <2>1. i \in 1..(Len(q) - 1) /\ i + 1 \in DOMAIN q
    BY <1>1
  <2>2. IsEnded(q[i + 1])
    BY <1>1, <1>6, <2>1
  <2>3. i + 1 = Len(q)
    BY <2>1, <2>2
  <2> QED
    BY <1>1, <2>1, <2>3
<1> QED
  BY <1>3, <1>5, <1>6

\* A write of the queue ends, or fails.
LEMMA WriteTaskKeepsInv ==
  ASSUME Inv, NEW t \in Tasks, NEW fails \in BOOLEAN, WriteTask(t, fails)
  PROVE  Inv' /\ (IsEnded(doc[t]) => doc'[t] = doc[t])
<1>0. PICK q : q = entry[t].queue
  OBVIOUS
<1> DEFINE e == [entry[t] EXCEPT !.queue = Tail(q)]
<1>1. /\ Lives(t) /\ q # <<>>
      /\ \/ doc' = doc
         \/ doc' = [doc EXCEPT ![t] = Head(q)]
      /\ UNCHANGED <<building, pending, scheduled, delivered, ghost, mode, restoring, lost,
                      registered, early, journal>>
  BY <1>0 DEF WriteTask, notices, recovery, audit, Lives
<1>2. /\ EntryTypes /\ RecordTypes /\ NoticeTypes /\ Notices /\ Lifecycle
      /\ Grounded /\ ToldOnceEach /\ LifeOf(t) /\ NoticeOf(t)
      /\ entry[t] \in EntryT /\ mode \notin {"replay", "losing"}
  BY <1>1, RunsOutsideRestore, EntryFacts DEF Inv, Lifecycle, Notices
<1>3. entry' = [entry EXCEPT ![t] = e]
  BY <1>0, <1>2 DEF WriteTask, EntryTypes
<1>4. /\ q \in Seq(InfoT) /\ Len(q) \in Nat \ {0} /\ DOMAIN q = 1..Len(q)
      /\ Head(q) = q[1] /\ Head(q) \in InfoT /\ Tail(q) \in Seq(InfoT)
      /\ Len(Tail(q)) = Len(q) - 1 /\ DOMAIN Tail(q) = 1..(Len(q) - 1)
      /\ \A i \in 1..(Len(q) - 1) : Tail(q)[i] = q[i + 1]
  <2>1. q \in Seq(InfoT) /\ q # <<>>
    BY <1>0, <1>1, <1>2 DEF EntryT
  <2> QED
    BY <2>1, TailFacts
<1>5. /\ e \in EntryT /\ e.status = entry[t].status /\ e.fg = entry[t].fg
      /\ e.suppressed = entry[t].suppressed /\ e.settling = entry[t].settling
      /\ e.queue = Tail(q) /\ e.caller = entry[t].caller /\ e.tool = entry[t].tool
  BY <1>2, <1>4 DEF EntryT
<1> HIDE DEF e
<1>6. EntryTypes' /\ entry'[t] = e /\ \A u \in Tasks : u # t => entry'[u] = entry[u]
  BY <1>2, <1>3, <1>5, EntrySet
<1>7. /\ Lives(t)' /\ Info(entry'[t]) = Info(entry[t]) /\ GetTask(t)' = GetTask(t)
  BY <1>1, <1>5, <1>6 DEF Lives, Info, GetTask
<1>8. ~IsEnded(doc[t])
  BY <1>0, <1>1, <1>2 DEF LifeOf, EndLastOf
<1>9. /\ RecordTypes' /\ Snapshots' = Snapshots /\ Now' = Now
      /\ \A u \in Tasks : u # t => doc'[u] = doc[u]
      /\ doc'[t] \in {doc[t], q[1]}
  BY <1>1, <1>2, <1>4 DEF RecordTypes, Snapshots, Now
<1>10. ASSUME NEW u \in Tasks
       PROVE  Infos(u)' \subseteq Infos(u)
  <2>1. CASE u = t
    <3>1. \A i \in 1..Len(q) : q[i] \in LiveInfos(t)
      BY <1>0, <1>1, <1>4 DEF LiveInfos
    <3>2. LiveInfos(t)' \subseteq LiveInfos(t)
      <4>1. \A i \in DOMAIN entry'[t].queue : entry'[t].queue[i] \in LiveInfos(t)
        BY <1>4, <1>5, <1>6, <3>1
      <4> QED
        BY <1>1, <1>7, <4>1 DEF LiveInfos
    <3>3. doc'[t] \in Infos(t)
      BY <1>4, <1>9, <3>1 DEF Infos
    <3> QED
      BY <1>1, <1>9, <2>1, <3>2, <3>3 DEF Infos
  <2>2. CASE u # t
    <3>1. LiveInfos(u)' = LiveInfos(u)
      BY <1>6, <2>2 DEF LiveInfos, Lives
    <3> QED
      BY <1>1, <1>9, <2>2, <3>1 DEF Infos
  <2> QED
    BY <2>1, <2>2
<1>11. \A u \in Tasks : SameLife(u)
  BY <1>1, <1>5, <1>6 DEF SameLife, Lives
<1>12. Keeps
  BY <1>1, <1>8, <1>9, <1>10, <1>11 DEF Keeps, NoNews
<1>13. LifeOf(t)'
  <2>1. OneEndOf(t)' /\ YoungOf(t)' /\ ForegroundOf(t)'
    BY <1>1, <1>2, <1>5, <1>6, <1>7, <1>10
    DEF LifeOf, OneEndOf, YoungOf, ForegroundOf, AllForeground, Running
  <2>2. EndLastOf(t)'
    <3>1. \A i \in DOMAIN q : IsEnded(q[i]) => i = Len(q)
      BY <1>0, <1>1, <1>2, <1>4 DEF LifeOf, EndLastOf
    <3>2. /\ IsEnded(q[1]) => Tail(q) = <<>>
          /\ \A i \in DOMAIN Tail(q) : IsEnded(Tail(q)[i]) => i = Len(Tail(q))
      BY <1>1, <1>4, <3>1, EndStaysLast
    <3> QED
      BY <1>5, <1>6, <1>8, <1>9, <3>2 DEF EndLastOf
  <2>3. LiveOf(t)'
    BY <1>1, <1>2, <1>5, <1>6, <1>9 DEF LifeOf, LiveOf, IsEnded
  <2>4. GhostOf(t)'
    BY <1>1, <1>2, <1>8, <1>9 DEF LifeOf, GhostOf
  <2> QED
    BY <2>1, <2>2, <2>3, <2>4 DEF LifeOf
<1>14. ASSUME NEW u \in Tasks, u # t
       PROVE  KeptEntry(u)
  BY <1>2, <1>6, <1>14 DEF KeptEntry, SameLife, Lives, Lifecycle, LifeOf, LiveOf
<1>15. Lifecycle'
  <2>1. ASSUME NEW u \in Tasks, u # t
        PROVE  LifeOf(u)'
    <3>1. LifeOf(u) /\ doc'[u] = doc[u]
      BY <1>2, <1>9, <2>1 DEF Lifecycle
    <3> QED
      BY <1>1, <1>9, <1>10, <1>14, <2>1, <3>1, LifeFrame DEF KeptEntry
  <2> QED
    BY <1>13, <2>1 DEF Lifecycle
<1>16. Grounded' /\ ToldOnceEach'
  BY <1>2, <1>9, <1>12, QuietStep, CoversItself
<1>17. \A u \in Tasks : u # t => NoticeOf(u)'
  BY <1>1, <1>2, <1>6, <1>14, NoticeFrame DEF Notices, NoticeOf
<1>18. NoticeOf(t)'
  <2>1. t \in Listed => t \in Listed'
    BY <1>7 DEF Listed
  <2> QED
    BY <1>1, <1>2, <1>5, <1>6, <2>1 DEF NoticeOf, IsEnded
<1>19. NoticeTypes' /\ Restarting' /\ Notices'
  BY <1>1, <1>2, <1>9, <1>17, <1>18 DEF NoticeTypes, Restarting, Notices
<1> QED
  BY <1>6, <1>8, <1>9, <1>15, <1>16, <1>19 DEF Inv

-----------------------------------------------------------------------------
(* Crash and restore.                                                        *)

\* A crash leaves the documents and one of the snapshots.
LEMMA CrashKeepsInv ==
  ASSUME Inv, NEW k \in DOMAIN journal, Crash(k)
  PROVE  Inv'
<1>0. PICK s : s = journal[k]
  OBVIOUS
<1>1. /\ journal' = <<s>> /\ entry' = [u \in Tasks |-> NoEntry]
      /\ ghost' = [u \in Tasks |-> NoInfo] /\ building' = [u \in Tasks |-> "no"]
      /\ pending' = {} /\ scheduled' = {} /\ delivered' = {}
      /\ mode' = "replay" /\ restoring' = {} /\ lost' = {}
      /\ UNCHANGED <<doc, registered, early>>
  BY <1>0 DEF Crash
<1>2. /\ EntryTypes /\ RecordTypes /\ NoticeTypes /\ Lifecycle /\ Grounded /\ ToldOnceEach
      /\ s \in Snapshots /\ s \in SnapshotT
  BY <1>0, NowIsSnapshot DEF Inv, Snapshots
<1>3. NoInfo \in InfoT /\ ~IsEnded(NoInfo) /\ NoInfo.status = "none"
  BY DEF NoInfo, InfoT, IsEnded, Terminal
<1>4. /\ journal' \in Seq(SnapshotT) /\ journal' # <<>> /\ Len(journal') = 1
      /\ Snapshots' = {s} /\ Now' = s
  <2>1. <<s>> \in Seq(SnapshotT) /\ Len(<<s>>) = 1 /\ DOMAIN <<s>> = {1} /\ <<s>>[1] = s
    BY <1>2
  <2>2. Snapshots' = {s}
    BY <1>1, <2>1 DEF Snapshots
  <2>3. Now' = journal'[Len(journal')]
    BY DEF Now
  <2> QED
    BY <1>1, <2>1, <2>2, <2>3
<1>5. EntryTypes' /\ \A u \in Tasks : ~Lives(u)'
  BY <1>1 DEF EntryTypes, Lives, NoEntry
<1>6. RecordTypes'
  BY <1>1, <1>2, <1>3, <1>4 DEF RecordTypes
<1>7. ASSUME NEW u \in Tasks
      PROVE  Infos(u)' \subseteq Infos(u) \cup {NoInfo}
  BY <1>1, <1>2, <1>4, <1>5 DEF Infos, LiveInfos
<1>8. Keeps
  BY <1>1, <1>3, <1>5, <1>7 DEF Keeps, SameLife, NoNews
<1>9. ASSUME NEW u \in Tasks
      PROVE  LifeOf(u)'
  <2>1. LifeOf(u)
    BY <1>2 DEF Lifecycle
  <2>2. OneEndOf(u)' /\ YoungOf(u)'
    BY <1>1, <1>3, <1>5, <1>7, <2>1 DEF LifeOf, OneEndOf, YoungOf, Running, Lives
  <2>3. ForegroundOf(u)' /\ EndLastOf(u)' /\ LiveOf(u)'
    BY <1>5 DEF ForegroundOf, EndLastOf, LiveOf
  <2>4. GhostOf(u)'
    BY <1>1, <1>3 DEF GhostOf
  <2> QED
    BY <2>2, <2>3, <2>4 DEF LifeOf
<1>10. Grounded' /\ ToldOnceEach'
  BY <1>2, <1>4, <1>8, QuietStep, CoversItself
<1>11. NoticeTypes' /\ Restarting' /\ Notices'
  <2>1. \A u \in Tasks : building'[u] = "no"
    BY <1>1
  <2>2. Restarting'
    BY <1>1, <1>4, <1>5, <2>1 DEF Restarting
  <2>3. Notices'
    BY <1>1, <2>1 DEF Notices, NoticeOf
  <2> QED
    BY <1>1, <2>2, <2>3 DEF NoticeTypes
<1> QED
  BY <1>5, <1>6, <1>9, <1>10, <1>11 DEF Inv, Lifecycle

\* What the journal knows and what the documents know is merged.
LEMMA LoadFromDiskKeepsInv ==
  ASSUME Inv, LoadFromDisk
  PROVE  Inv'
<1>1. /\ mode = "replay" /\ mode' = "losing" /\ delivered' = Keys(Now.told)
      /\ ghost' = [u \in Tasks |-> NewerRestoredTask(Now.info[u], doc[u])]
      /\ UNCHANGED <<entry, building, pending, scheduled, restoring, lost,
                      registered, early, doc, journal>>
  BY DEF LoadFromDisk, audit
<1>2. /\ EntryTypes /\ RecordTypes /\ NoticeTypes /\ Lifecycle /\ Restarting
      /\ Grounded /\ ToldOnceEach /\ Now \in Snapshots /\ Now \in SnapshotT
  BY NowIsSnapshot DEF Inv
<1>3. ASSUME NEW u \in Tasks
      PROVE  /\ ghost'[u] \in {Now.info[u], doc[u]}
             /\ ghost'[u].status = "running" => ~IsEnded(doc[u]) /\ ~IsEnded(Now.info[u])
  BY <1>1 DEF NewerRestoredTask, IsEnded, Terminal
<1>4. Snapshots' = Snapshots /\ Now' = Now
  BY <1>1 DEF Snapshots, Now
<1>5. EntryTypes' /\ \A u \in Tasks : ~Lives(u) /\ ~Lives(u)' /\ KeptEntry(u)
  BY <1>1, <1>2, SameEntries DEF Restarting, Lives
<1>6. RecordTypes'
  <2>1. \A u \in Tasks : ghost'[u] \in InfoT
    BY <1>2, <1>3 DEF RecordTypes, SnapshotT
  <2> QED
    BY <1>1, <1>2, <2>1 DEF RecordTypes
<1>7. ASSUME NEW u \in Tasks
      PROVE  Infos(u)' \subseteq Infos(u)
  BY <1>1, <1>2, <1>3, <1>4, <1>5 DEF Infos, LiveInfos
<1>8. Keeps
  BY <1>1, <1>5, <1>7 DEF Keeps, KeptEntry, NoNews
<1>9. ASSUME NEW u \in Tasks
      PROVE  LifeOf(u)'
  <2>1. LifeOf(u)
    BY <1>2 DEF Lifecycle
  <2>2. OneEndOf(u)' /\ YoungOf(u)'
    BY <1>1, <1>5, <1>7, <2>1 DEF LifeOf, OneEndOf, YoungOf, Running, Lives
  <2>3. ForegroundOf(u)' /\ EndLastOf(u)' /\ LiveOf(u)'
    BY <1>5 DEF ForegroundOf, EndLastOf, LiveOf
  <2>4. u \notin lost
    BY <1>1, <2>1 DEF LifeOf, GhostOf, IsEnded, Terminal
  <2>5. GhostOf(u)'
    BY <1>1, <1>3, <1>4, <2>4 DEF GhostOf
  <2> QED
    BY <2>2, <2>3, <2>5 DEF LifeOf
<1>10. Grounded' /\ ToldOnceEach'
  BY <1>2, <1>4, <1>8, QuietStep, CoversItself
<1>11. NoticeTypes' /\ Restarting' /\ Notices'
  <2>1. pending' = {} /\ restoring' = {} /\ \A u \in Tasks : building'[u] = "no"
    BY <1>1, <1>2 DEF Restarting
  <2>2. Restarting'
    BY <1>1, <1>2, <1>5, <2>1 DEF Restarting
  <2>3. Notices'
    BY <1>1, <1>4, <2>1 DEF Notices, NoticeOf
  <2> QED
    BY <1>1, <1>2, <2>2, <2>3 DEF NoticeTypes
<1> QED
  BY <1>5, <1>6, <1>9, <1>10, <1>11 DEF Inv, Lifecycle

\* A task of which nothing says that it ended is lost.
LEMMA MarkLostKeepsInv ==
  ASSUME Inv, NEW t \in Tasks, MarkLost(t)
  PROVE  Inv' /\ \A u \in Tasks : IsEnded(doc[u]) => doc'[u] = doc[u]
<1> DEFINE x == [ghost[t] EXCEPT !.status = "lost"]
<1>1. /\ mode = "losing" /\ ghost[t].status = "running" /\ lost' = lost \cup {t}
      /\ ghost' = [ghost EXCEPT ![t].status = "lost"] /\ doc' = [doc EXCEPT ![t] = ghost'[t]]
      /\ UNCHANGED <<entry, building, pending, scheduled, delivered, mode, restoring,
                      registered, early, journal>>
  BY DEF MarkLost, notices, audit
<1>2. /\ EntryTypes /\ RecordTypes /\ NoticeTypes /\ Lifecycle /\ Restarting /\ Notices
      /\ Grounded /\ ToldOnceEach /\ LifeOf(t) /\ Now \in Snapshots
  BY NowIsSnapshot DEF Inv, Lifecycle
<1>3. /\ x \in InfoT /\ IsEnded(x) /\ x.status = "lost" /\ x.fg = ghost[t].fg
      /\ ghost'[t] = x /\ doc'[t] = x
      /\ \A u \in Tasks : u # t => ghost'[u] = ghost[u] /\ doc'[u] = doc[u]
  BY <1>1, <1>2 DEF RecordTypes, InfoT, IsEnded, Terminal
<1> HIDE DEF x
<1>4. RecordTypes'
  <2>1. ghost' = [ghost EXCEPT ![t] = x] /\ doc' = [doc EXCEPT ![t] = x]
    BY <1>1, <1>2, <1>3 DEF x, RecordTypes
  <2> QED
    BY <1>1, <1>2, <1>3, <2>1 DEF RecordTypes
<1>5. Snapshots' = Snapshots /\ Now' = Now /\ Snapshots = {Now}
  <2>1. Len(journal) = 1 /\ DOMAIN journal = {1}
    BY <1>1, <1>2, NowIsSnapshot DEF Restarting
  <2> QED
    BY <1>1, <2>1 DEF Snapshots, Now
<1>6. EntryTypes' /\ \A u \in Tasks : ~Lives(u) /\ ~Lives(u)' /\ KeptEntry(u)
  BY <1>1, <1>2, SameEntries DEF Restarting, Lives
<1>7. ~IsEnded(doc[t]) /\ ~IsEnded(Now.info[t]) /\ ~IsEnded(ghost[t]) /\ t \in registered
  BY <1>1, <1>2 DEF LifeOf, GhostOf, YoungOf, Infos, IsEnded, Terminal
<1>8. Infos(t)' = {x, Now.info[t]} /\ Now.info[t] \in Infos(t) /\ ghost[t] \in Infos(t)
  BY <1>3, <1>5, <1>6 DEF Infos, LiveInfos
<1>9. ASSUME NEW u \in Tasks, u # t
      PROVE  Infos(u)' = Infos(u)
  BY <1>3, <1>5, <1>6, <1>9 DEF Infos, LiveInfos
<1>10. Keeps
  <2>1. NoNews(t)
    BY <1>1, <1>3, <1>8 DEF NoNews
  <2>2. \A u \in Tasks : u # t => NoNews(u)
    BY <1>9 DEF NoNews
  <2>3. \A u \in Tasks : IsEnded(doc[u]) => doc'[u] = doc[u]
    BY <1>3, <1>7
  <2> QED
    BY <1>1, <1>6, <2>1, <2>2, <2>3 DEF Keeps, KeptEntry
<1>11. LifeOf(t)'
  <2>1. OneEndOf(t)'
    BY <1>7, <1>8 DEF OneEndOf
  <2>2. YoungOf(t)'
    BY <1>1, <1>6, <1>7 DEF YoungOf, Running, Lives
  <2>3. ForegroundOf(t)' /\ EndLastOf(t)' /\ LiveOf(t)'
    BY <1>6 DEF ForegroundOf, EndLastOf, LiveOf
  <2>4. GhostOf(t)'
    BY <1>1, <1>3 DEF GhostOf
  <2> QED
    BY <2>1, <2>2, <2>3, <2>4 DEF LifeOf
<1>12. ASSUME NEW u \in Tasks, u # t
       PROVE  LifeOf(u)'
  BY <1>1, <1>2, <1>3, <1>5, <1>6, <1>9, <1>12, LifeFrame DEF Lifecycle, KeptEntry
<1>13. Lifecycle'
  BY <1>11, <1>12 DEF Lifecycle
<1>14. Grounded' /\ ToldOnceEach'
  BY <1>2, <1>5, <1>10, QuietStep, CoversItself
<1>15. NoticeTypes' /\ Restarting' /\ Notices'
  <2>1. pending' = {} /\ restoring' = {} /\ \A u \in Tasks : building'[u] = "no"
    BY <1>1, <1>2 DEF Restarting
  <2>2. Restarting'
    BY <1>1, <1>2, <1>6, <2>1 DEF Restarting
  <2>3. Notices'
    BY <1>1, <1>2, <1>5, <2>1 DEF Notices, NoticeOf
  <2> QED
    BY <1>1, <1>2, <2>2, <2>3 DEF NoticeTypes
<1> QED
  BY <1>4, <1>6, <1>10, <1>13, <1>14, <1>15 DEF Inv, Keeps

\* The losses are recorded.
LEMMA ReconcileKeepsInv ==
  ASSUME Inv, Reconcile
  PROVE  Inv'
<1>0. PICK n : n = [Now EXCEPT !.info = [u \in Tasks |-> IF u \in lost THEN ghost[u] ELSE @[u]]]
  OBVIOUS
<1>1. /\ mode = "losing" /\ mode' = "notifying" /\ restoring' = Listed
      /\ UNCHANGED journal \/ Dispatch(n)
      /\ UNCHANGED <<entry, building, pending, scheduled, delivered, ghost, lost,
                      registered, early, doc>>
  BY <1>0 DEF Reconcile, notices, audit
<1>2. /\ EntryTypes /\ RecordTypes /\ NoticeTypes /\ Lifecycle /\ Restarting /\ Notices
      /\ Grounded /\ ToldOnceEach /\ Now \in Snapshots /\ Now \in SnapshotT
  BY NowIsSnapshot DEF Inv
<1>3. /\ n \in SnapshotT /\ n.told = Now.told
      /\ \A u \in Tasks : n.info[u] = IF u \in lost THEN ghost[u] ELSE Now.info[u]
  BY <1>0, <1>2 DEF SnapshotT, RecordTypes
<1>4. ASSUME NEW u \in Tasks
      PROVE  IsEnded(Now.info[u]) => n.info[u] = Now.info[u]
  <2>1. LifeOf(u) /\ Now.info[u] \in Infos(u) /\ ghost[u] \in Infos(u)
    BY <1>2 DEF Lifecycle, Infos
  <2> QED
    BY <1>3, <2>1 DEF LifeOf, OneEndOf, GhostOf
<1>5. Covers(Now, n)
  BY <1>3, <1>4 DEF Covers
<1>6. /\ RecordTypes' /\ Now' \in {Now, n} /\ Snapshots' \subseteq Snapshots \cup {n}
  <2>1. CASE UNCHANGED journal
    BY <1>1, <1>2, <2>1 DEF RecordTypes, Snapshots, Now
  <2>2. CASE Dispatch(n)
    BY <1>1, <1>2, <1>3, <2>2, DispatchFacts DEF RecordTypes
  <2> QED
    BY <1>1, <2>1, <2>2
<1>7. EntryTypes' /\ \A u \in Tasks : KeptEntry(u)
  BY <1>1, SameEntries
<1>8. ASSUME NEW u \in Tasks
      PROVE  Infos(u)' \subseteq Infos(u)
  <2>1. LiveInfos(u)' = LiveInfos(u)
    BY <1>1, <1>2, <1>7, KeptFacts
  <2>2. \A r \in Snapshots' : r.info[u] \in Infos(u)
    BY <1>2, <1>3, <1>6 DEF Infos
  <2> QED
    BY <1>1, <2>1, <2>2 DEF Infos
<1>9. Keeps
  BY <1>1, <1>7, <1>8 DEF Keeps, KeptEntry, NoNews
<1>10. ASSUME NEW u \in Tasks
       PROVE  LifeOf(u)'
  <2>1. IsEnded(Now.info[u]) => IsEnded(Now'.info[u])
    BY <1>4, <1>6
  <2> QED
    BY <1>1, <1>2, <1>7, <1>8, <2>1, LifeFrame DEF Lifecycle, KeptEntry
<1>11. Grounded' /\ ToldOnceEach'
  <2>1. \A r \in Snapshots' : \E s \in Snapshots : Covers(s, r)
    BY <1>2, <1>5, <1>6, CoversItself
  <2> QED
    BY <1>2, <1>9, <2>1, QuietStep
<1>12. NoticeTypes' /\ Restarting' /\ Notices'
  <2>1. pending' = {} /\ Listed' = Listed /\ \A u \in Tasks : building'[u] = "no"
    BY <1>1, <1>2 DEF Restarting, Listed, GetTask
  <2>2. Now'.told = Now.told
    BY <1>3, <1>6
  <2>3. Notices'
    BY <1>1, <1>2, <2>1, <2>2 DEF Notices, NoticeOf
  <2> QED
    BY <1>1, <1>2, <2>3 DEF NoticeTypes, Restarting, Listed
<1> QED
  BY <1>6, <1>7, <1>10, <1>11, <1>12 DEF Inv, Lifecycle

-----------------------------------------------------------------------------
(* The theorems.                                                             *)

\* At first nothing is said of any task.
LEMMA InitInv ==
  ASSUME Init
  PROVE  Inv
<1>1. PICK first : first = [info |-> [t \in Tasks |-> NoInfo], told |-> <<>>]
  OBVIOUS
<1>2. NoInfo \in InfoT /\ ~IsEnded(NoInfo) /\ NoInfo.status = "none"
  BY DEF NoInfo, InfoT, IsEnded, Terminal
<1>3. /\ first \in SnapshotT /\ DOMAIN first.told = {}
      /\ first.told = <<>> /\ \A t \in Tasks : first.info[t] = NoInfo
  BY <1>1, <1>2 DEF SnapshotT
<1>4. /\ journal \in Seq(SnapshotT) /\ journal # <<>> /\ Len(journal) = 1
      /\ Snapshots = {first} /\ Now = first
  <2>1. /\ <<first>> \in Seq(SnapshotT) /\ Len(<<first>>) = 1
        /\ DOMAIN <<first>> = {1} /\ <<first>>[1] = first
    BY <1>3
  <2>2. journal = <<first>>
    BY <1>1 DEF Init
  <2> QED
    BY <2>1, <2>2 DEF Snapshots, Now
<1>5. EntryTypes /\ RecordTypes /\ NoticeTypes /\ \A t \in Tasks : ~Lives(t)
  BY <1>2, <1>4 DEF Init, EntryTypes, RecordTypes, NoticeTypes, Lives, NoEntry
<1>6. \A t \in Tasks : Infos(t) = {NoInfo}
  BY <1>3, <1>4, <1>5 DEF Init, Infos, LiveInfos
<1>7. ASSUME NEW t \in Tasks
      PROVE  LifeOf(t)
  <2>1. OneEndOf(t) /\ YoungOf(t)
    BY <1>2, <1>5, <1>6 DEF OneEndOf, YoungOf, Running, Lives
  <2>2. ForegroundOf(t) /\ EndLastOf(t) /\ LiveOf(t)
    BY <1>5 DEF ForegroundOf, EndLastOf, LiveOf
  <2>3. GhostOf(t)
    BY <1>2 DEF Init, GhostOf
  <2> QED
    BY <2>1, <2>2, <2>3 DEF LifeOf
<1>8. Restarting /\ Grounded /\ ToldOnceEach
  BY <1>3, <1>4 DEF Init, Restarting, Grounded, ToldOnceEach
<1>9. Notices
  BY <1>3, <1>4 DEF Init, Notices, NoticeOf, Keys
<1> QED
  BY <1>5, <1>7, <1>8, <1>9 DEF Inv, Lifecycle

\* A step of a task that runs: it ends or is asked to, or writes its output.
LEMMA TaskStep ==
  ASSUME Inv, NEW t \in Tasks,
         \/ PersistOutput(t) \/ TimeoutFires(t) \/ Stop(t) \/ StopToolSuppresses(t)
         \/ \E s \in {"completed", "failed", "killed"} : TaskEnds(t, s)
         \/ \E s \in {"killed", "timed_out"} : GraceOver(t, s)
  PROVE  Inv' /\ doc' = doc
<1>1. CASE PersistOutput(t) \/ StopToolSuppresses(t)
  BY <1>1, RunningKeepsInv DEF PersistOutput, StopToolSuppresses
<1>2. CASE TimeoutFires(t)
  <2>1. CASE \E timer \in BOOLEAN : DetachEntry(t, timer)
    BY <2>1, DetachKeepsInv DEF DetachEntry
  <2>2. CASE Running(t) /\ Terminate(t, "timed_out")
    BY <2>2, RunningKeepsInv DEF Terminate, Terminal
  <2> QED
    BY <1>2, <2>1, <2>2 DEF TimeoutFires, Detach
<1>3. CASE Stop(t)
  BY <1>3, RunningKeepsInv DEF Stop, Terminate, Terminal
<1>4. CASE \E s \in {"completed", "failed", "killed"} : TaskEnds(t, s)
  BY <1>4, RunningKeepsInv DEF TaskEnds, Terminal
<1>5. CASE \E s \in {"killed", "timed_out"} : GraceOver(t, s)
  BY <1>5, RunningKeepsInv DEF GraceOver, Terminal
<1> QED
  BY <1>1, <1>2, <1>3, <1>4, <1>5

\* Every step keeps the invariant, and the ends on disk.
LEMMA StepKeepsInv ==
  ASSUME Inv, [Next]_vars
  PROVE  Inv' /\ \A t \in Tasks : IsEnded(doc[t]) => doc'[t] = doc[t]
<1>1. ASSUME NEW t \in Tasks, NEW fg \in BOOLEAN, NEW timer \in BOOLEAN, NEW auto \in BOOLEAN,
             Register(t, fg, timer, auto)
      PROVE  Inv' /\ doc' = doc
  BY <1>1, RegisterKeepsInv DEF Register
<1>2. ASSUME NEW t \in Tasks, Detach(t)
      PROVE  Inv' /\ doc' = doc
  BY <1>2, DetachKeepsInv DEF Detach, DetachEntry
<1>3. ASSUME NEW t \in Tasks, CallerReturns(t) \/ StopToolReturns(t) \/ StopToolStops(t)
      PROVE  Inv' /\ doc' = doc
  BY <1>3, CallerReturnsKeepsInv, StopToolReturnsKeepsInv, StopToolStopsKeepsInv
  DEF CallerReturns, StopToolReturns, StopToolStops
<1>4. ASSUME NEW t \in Tasks, NEW fails \in BOOLEAN, WriteTask(t, fails)
      PROVE  Inv' /\ \A u \in Tasks : IsEnded(doc[u]) => doc'[u] = doc[u]
  <2>1. \A u \in Tasks : u # t => doc'[u] = doc[u]
    BY <1>4 DEF WriteTask, Inv, RecordTypes
  <2> QED
    BY <1>4, <2>1, WriteTaskKeepsInv
<1>5. ASSUME NEW t \in Tasks, CancelRequest(t) \/ Deliver(t) \/ BuildDone(t)
      PROVE  Inv' /\ doc' = doc
  BY <1>5, CancelRequestKeepsInv, DeliverKeepsInv, BuildDoneKeepsInv
  DEF CancelRequest, Deliver, BuildDone
<1>6. ASSUME NEW t \in Tasks, SettleContinues(t) \/ RestoreNotification(t)
      PROVE  Inv' /\ doc' = doc
  BY <1>6, SettleContinuesKeepsInv, RestoreNotificationKeepsInv
  DEF SettleContinues, RestoreNotification
<1>7. ASSUME NEW t \in Tasks, MarkLost(t)
      PROVE  Inv' /\ \A u \in Tasks : IsEnded(doc[u]) => doc'[u] = doc[u]
  BY <1>7, MarkLostKeepsInv
<1>8. ASSUME Restores \/ UndoFlushFails \/ FlushJournal
      PROVE  Inv' /\ doc' = doc
  BY <1>8, LoadFromDiskKeepsInv, ReconcileKeepsInv, ReconcileAfterUndoKeepsInv,
     RestoreDoneKeepsInv, FlushJournalKeepsInv
  DEF Restores, LoadFromDisk, Reconcile, ReconcileAfterUndo, UndoFlushFails, RestoreDone, FlushJournal
<1>9. ASSUME NEW kept \in 0..Len(Now.told), UndoCut(kept)
      PROVE  Inv' /\ doc' = doc
  BY <1>9, UndoCutKeepsInv DEF UndoCut
<1>10. ASSUME NEW k \in DOMAIN journal, Crash(k)
       PROVE  Inv' /\ doc' = doc
  BY <1>10, CrashKeepsInv DEF Crash
<1>11. CASE UNCHANGED vars
  <2>1. UNCHANGED <<entry, building, pending, scheduled, delivered, ghost, mode, restoring, lost,
                    registered, early, doc, journal>>
    BY <1>11 DEF vars, notices, recovery, audit
  <2>2. EntryTypes' /\ \A u \in Tasks : KeptEntry(u)
    BY <2>1, SameEntries
  <2>3. RecordTypes' /\ Lifecycle' /\ Grounded' /\ ToldOnceEach' /\ Now' = Now
    BY <2>1, <2>2, StillStep
  <2>4. \A u \in Tasks : NoticeOf(u)'
    BY <2>1, <2>2, NoticeFrame DEF Inv, Notices, NoticeOf
  <2>5. Notices' /\ NoticeTypes' /\ Restarting'
    BY <2>1, <2>3, <2>4 DEF Inv, Notices, NoticeTypes, Restarting, Lives
  <2> QED
    BY <2>1, <2>2, <2>3, <2>5 DEF Inv
<1> QED
  BY <1>1, <1>2, <1>3, <1>4, <1>5, <1>6, <1>7, <1>8, <1>9, <1>10, <1>11, TaskStep
  DEF Next, Continues

\* The invariant of every reachable state.
LEMMA AlwaysInv == Spec => []Inv
<1>1. Init => Inv
  BY InitInv
<1>2. Inv /\ [Next]_vars => Inv'
  BY StepKeepsInv
<1> QED
  BY <1>1, <1>2, PTL DEF Spec

\* No conversation reports the end of a task twice, whatever was detached while it
\* was being stopped or settled, cut off by an undo, cut short by a crash, or not
\* written, with the exception ToldOnce names.
THEOREM ReportedOnce == Spec => []ToldOnce
<1>1. Inv => ToldOnce
  <2> SUFFICES ASSUME Inv
               PROVE  ToldOnce
    OBVIOUS
  <2>1. Now \in Snapshots /\ ToldOnceEach
    BY NowIsSnapshot DEF Inv
  <2> QED
    BY <2>1 DEF ToldOnceEach, Apart, ToldOnce
<1> QED
  BY <1>1, AlwaysInv, PTL

\* The end of a task on disk is final: neither a queued write nor a restore that
\* declares tasks lost replaces it by another status.
THEOREM EndIsFinal == Spec => RecordedEndIsFinal
<1>1. Inv /\ [Next]_vars =>
        [\A t \in Tasks : IsEnded(doc[t]) => doc'[t].status = doc[t].status]_vars
  BY StepKeepsInv
<1> QED
  BY <1>1, AlwaysInv, PTL DEF Spec, RecordedEndIsFinal
=============================================================================
