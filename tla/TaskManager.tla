---------------------------- MODULE TaskManager ----------------------------
(***************************************************************************)
(* The background tasks of an agent (agent/task/taskService.ts): commands  *)
(* and subagents that run for a waiting tool call, are moved to the        *)
(* background by the user or by a timeout, are stopped, end, and are then  *)
(* reported to the conversation - to the waiting call, by the result of    *)
(* TaskStop, or by a notification - across crashes, undos and failed       *)
(* writes.                                                                 *)
(*                                                                         *)
(* What survives a crash is, per task, the document the service writes,    *)
(* and a prefix of the wire journal.  `journal` is the sequence of states  *)
(* a replay of the journal could still end in: its first element is on     *)
(* disk, its last is the state now.  Everything else is process memory.    *)
(* Each action is a segment between two awaits of the code.                *)
(***************************************************************************)
EXTENDS Naturals, Sequences, FiniteSets

CONSTANTS
    Tasks,          \* task ids, each used once
    MaxCrashes,     \* bound on the crashes
    MaxUndos,       \* bound on the undos
    MaxFailures,    \* bound on the writes of documents that fail
    MaxCancels      \* bound on the notifications the user cancels

ASSUME TaskAssumption ==
    {MaxCrashes, MaxUndos, MaxFailures, MaxCancels} \subseteq Nat

VARIABLES
    entry,          \* the running service's ManagedTask of each id
    ghost,          \* infos of tasks of an earlier process
    building,       \* who is building the notification of each task
    pending,        \* tasks with a notification request in the loop
    scheduled,      \* scheduledNotificationKeys
    delivered,      \* deliveredNotificationKeys
    mode,           \* "live", "replay", "losing", "cut", "notifying"
    restoring,      \* tasks a restore of notifications has still to look at
    lost,           \* tasks this restore declared lost
    doc,            \* the document of each task on disk
    journal,        \* see above
    registered,     \* audit: ids used so far
    early,          \* audit: tasks an undo reported before the journal knew
    cancelled,      \* audit: tasks whose request the user cancelled
    cutOff,         \* audit: notifications an undo cut off and left at that
    budget          \* crashes, undos, failures and cancels so far

notices == <<building, pending, scheduled, delivered, cancelled>>
recovery == <<ghost, mode, restoring, lost>>
audit == <<registered, early, cutOff>>
vars == <<entry, notices, recovery, audit, doc, journal, budget>>

Terminal == {"completed", "failed", "killed", "timed_out", "lost"}

NoEntry == [status |-> "none"]
NoInfo == [status |-> "none", fg |-> FALSE, suppressed |-> FALSE]

IsEnded(x) == x.status \in Terminal

\* toInfo.
Info(e) == [status |-> e.status, fg |-> e.fg, suppressed |-> e.suppressed]

\* persistLive: a write of the task as it is now joins its queue.
PersistLive(e) == [e EXCEPT !.queue = Append(@, Info(e))]

\* The state of the wire models now, and after one more record.
Now == journal[Len(journal)]
Recorded(t, info) == [Now EXCEPT !.info[t] = info]
Told(t, how) == [Now EXCEPT !.told = Append(@, <<t, how>>)]
Dispatch(state) == journal' = Append(journal, state)

\* The notifications among what was told.
Keys(told) == {told[i] : i \in DOMAIN told} \cap (Tasks \X Terminal)

Spend(what, max) ==
    budget[what] < max /\ budget' = [budget EXCEPT ![what] = @ + 1]

----------------------------------------------------------------------------
Init ==
    /\ entry = [t \in Tasks |-> NoEntry]
    /\ ghost = [t \in Tasks |-> NoInfo]
    /\ building = [t \in Tasks |-> "no"]
    /\ pending = {} /\ scheduled = {} /\ delivered = {}
    /\ mode = "live" /\ restoring = {} /\ lost = {}
    /\ doc = [t \in Tasks |-> NoInfo]
    /\ journal = <<[info |-> [t \in Tasks |-> NoInfo], told |-> <<>>]>>
    /\ registered = {} /\ early = {} /\ cancelled = {} /\ cutOff = {}
    /\ budget = [crashes |-> 0, undos |-> 0, failures |-> 0, cancels |-> 0]

----------------------------------------------------------------------------
(* Registering, detaching, stopping *)

Running(t) == entry[t].status = "running"

\* registerTask: a task in the background is persisted and recorded at once.
Register(t, fg, timer, auto) ==
    LET e == [status |-> "running", fg |-> fg, timer |-> timer, auto |-> auto,
              timedOut |-> FALSE, stopping |-> {}, persisting |-> ~fg,
              suppressed |-> FALSE, settling |-> FALSE, queue |-> <<>>,
              caller |-> IF fg THEN "waiting" ELSE "none", tool |-> "no"]
    IN  /\ mode = "live" /\ t \notin registered
        /\ registered' = registered \cup {t}
        /\ entry' = [entry EXCEPT ![t] =
                       IF fg THEN e ELSE PersistLive(e)]
        /\ IF fg THEN UNCHANGED journal ELSE Dispatch(Recorded(t, Info(e)))
        /\ UNCHANGED <<notices, recovery, doc, early, cutOff, budget>>

\* The output outgrew what is kept in memory, or the caller asked for it.
PersistOutput(t) ==
    /\ Running(t) /\ ~entry[t].persisting
    /\ entry' = [entry EXCEPT ![t].persisting = TRUE]
    /\ UNCHANGED <<notices, recovery, audit, doc, journal, budget>>

\* detachEntry: the waiting call returns, the task goes on.
DetachEntry(t, timer) ==
    LET e == [entry[t] EXCEPT !.fg = FALSE, !.timer = timer,
                              !.persisting = TRUE, !.caller = "detached"]
    IN  /\ Running(t) /\ entry[t].fg
        /\ entry' = [entry EXCEPT ![t] = PersistLive(e)]
        /\ Dispatch(Recorded(t, Info(e)))
        /\ UNCHANGED <<notices, recovery, audit, doc, budget>>

Detach(t) == \E timer \in BOOLEAN : DetachEntry(t, timer)

\* terminateWithGrace, up to its first await.
Terminate(t, status) ==
    /\ entry' = [entry EXCEPT ![t].timer = FALSE,
                              ![t].timedOut = @ \/ status = "timed_out",
                              ![t].stopping = @ \cup {status}]
    /\ UNCHANGED <<notices, recovery, audit, doc, journal, budget>>

\* The timer of armManagerTimeout.
TimeoutFires(t) ==
    /\ Running(t) /\ entry[t].timer
    /\ IF entry[t].auto /\ entry[t].fg THEN Detach(t)
                                       ELSE Terminate(t, "timed_out")

\* stop, stopByUser, or the turn of the waiting call is aborted
\* (installForegroundSignal).
Stop(t) ==
    Running(t) /\ "killed" \notin entry[t].stopping /\ Terminate(t, "killed")

\* taskStopTool: the notification is suppressed, and that written, first.
StopToolSuppresses(t) ==
    LET e == [entry[t] EXCEPT !.suppressed = TRUE, !.tool = "suppressing"]
    IN  /\ mode = "live" /\ Running(t) /\ entry[t].tool = "no"
        /\ entry' = [entry EXCEPT ![t] = PersistLive(e)]
        /\ UNCHANGED <<notices, recovery, audit, doc, journal, budget>>

StopToolStops(t) ==
    /\ entry[t].status # "none" /\ entry[t].tool = "suppressing"
    /\ \A i \in DOMAIN entry[t].queue :
         entry[t].queue[i] # [Info(entry[t]) EXCEPT !.status = "running"]
    /\ entry' = [entry EXCEPT
                    ![t].tool = "stopping", ![t].timer = FALSE,
                    ![t].stopping = IF Running(t) THEN @ \cup {"killed"} ELSE @]
    /\ UNCHANGED <<notices, recovery, audit, doc, journal, budget>>

\* stop returned: the result of TaskStop reports the end.  It awaited the queue
\* of writes, as settleTask did before it.
StopToolReturns(t) ==
    /\ IsEnded(entry[t]) /\ entry[t].tool = "stopping" /\ entry[t].queue = <<>>
    /\ ~entry[t].settling
    /\ entry' = [entry EXCEPT ![t].tool = "returned"]
    /\ Dispatch(Told(t, "stopped"))
    /\ UNCHANGED <<notices, recovery, audit, doc, budget>>

----------------------------------------------------------------------------
(* Ending *)

\* settleTask, up to its await: the end is written if output was.
SettleTask(t, status) ==
    LET e == [entry[t] EXCEPT !.status = status, !.timer = FALSE,
                              !.settling = TRUE]
    IN  entry' = [entry EXCEPT ![t] =
                    IF e.persisting THEN PersistLive(e) ELSE e]

\* The task settles by itself, or in answer to the abort.
TaskEnds(t, status) ==
    /\ Running(t)
    /\ status = "killed" => entry[t].stopping # {}
    /\ SettleTask(t, IF status = "killed" /\ entry[t].timedOut THEN "timed_out"
                                                              ELSE status)
    /\ UNCHANGED <<notices, recovery, audit, doc, journal, budget>>

\* The grace is over, forceStop has run, and the task has not settled.
GraceOver(t, status) ==
    /\ Running(t) /\ status \in entry[t].stopping
    /\ SettleTask(t, status)
    /\ UNCHANGED <<notices, recovery, audit, doc, journal, budget>>

\* The synchronous start of buildAgentTaskNotificationContext.
GetTask(t) == IF entry[t].status = "none" THEN ghost[t] ELSE Info(entry[t])

StatusOf(t) == GetTask(t).status
Suppressed(t) == GetTask(t).suppressed

IsScheduledOrDelivered(t) ==
    t \in scheduled \/ <<t, StatusOf(t)>> \in delivered

MayBuild(t) ==
    ~Suppressed(t) /\ building[t] = "no" /\ ~IsScheduledOrDelivered(t)

\* The rest of settleTask: fireTerminalEffects, then the waiting call.
SettleContinues(t) ==
    /\ IsEnded(entry[t]) /\ entry[t].settling
    /\ \A i \in DOMAIN entry[t].queue : ~IsEnded(entry[t].queue[i])
    /\ entry' = [entry EXCEPT
                    ![t].settling = FALSE,
                    ![t].caller = IF @ = "waiting" THEN "released" ELSE @]
    /\ IF entry[t].fg THEN UNCHANGED <<journal, building>>
       ELSE /\ Dispatch(Recorded(t, Info(entry[t])))
            /\ building' = IF MayBuild(t) THEN [building EXCEPT ![t] = "notify"]
                                          ELSE building
    /\ UNCHANGED <<recovery, audit, pending, scheduled, delivered, cancelled,
                   doc, budget>>

\* The call that waited for the task returns its end.
CallerReturns(t) ==
    /\ mode = "live" /\ IsEnded(entry[t]) /\ entry[t].caller = "released"
    /\ entry' = [entry EXCEPT ![t].caller = "returned"]
    /\ Dispatch(Told(t, "result"))
    /\ UNCHANGED <<notices, recovery, audit, doc, budget>>

\* The next write of persistLive's queue; a failure is swallowed.
WriteTask(t, fails) ==
    /\ entry[t].status # "none" /\ entry[t].queue # <<>>
    /\ entry' = [entry EXCEPT ![t].queue = Tail(@)]
    /\ IF fails THEN Spend("failures", MaxFailures) /\ UNCHANGED doc
       ELSE doc' = [doc EXCEPT ![t] = Head(entry[t].queue)] /\ UNCHANGED budget
    /\ UNCHANGED <<notices, recovery, audit, journal>>

----------------------------------------------------------------------------
(* Notifications *)

\* The output has been read: the notification is enqueued, or appended when a
\* restore builds it, unless that is no longer wanted.
BuildDone(t) ==
    /\ building[t] # "no" /\ building' = [building EXCEPT ![t] = "no"]
    /\ LET wanted == ~Suppressed(t) /\ ~IsScheduledOrDelivered(t)
           direct == building[t] = "restore"
           unrecorded == IsEnded(entry[t]) /\ entry[t].settling
           enqueued == IF wanted /\ ~direct THEN {t} ELSE {}
       IN  /\ scheduled' = scheduled \cup enqueued
           /\ pending' = pending \cup enqueued
           /\ IF wanted /\ direct
              THEN /\ Dispatch(Told(t, StatusOf(t)))
                   /\ delivered' = delivered \cup {<<t, StatusOf(t)>>}
                   /\ early' = IF unrecorded THEN early \cup {t} ELSE early
              ELSE UNCHANGED <<journal, delivered, early>>
    /\ UNCHANGED <<entry, recovery, doc, registered, cutOff, cancelled, budget>>

\* The loop puts the message in the context (materializeRequest);
\* markDeliveredNotification.
Deliver(t) ==
    /\ mode = "live" /\ t \in pending
    /\ pending' = pending \ {t} /\ scheduled' = scheduled \ {t}
    /\ delivered' = delivered \cup {<<t, StatusOf(t)>>}
    /\ Dispatch(Told(t, StatusOf(t)))
    /\ UNCHANGED <<entry, recovery, audit, building, doc, cancelled, budget>>

\* The turn queued for the notification is cancelled; clearPendingNotification.
CancelRequest(t) ==
    /\ mode = "live" /\ t \in pending /\ Spend("cancels", MaxCancels)
    /\ pending' = pending \ {t} /\ scheduled' = scheduled \ {t}
    /\ cancelled' = cancelled \cup {t}
    /\ UNCHANGED <<entry, recovery, audit, building, delivered, doc, journal>>

\* list(false), restricted to the tasks that ended in the background.
Listed == {t \in Tasks : IsEnded(GetTask(t)) /\ ~GetTask(t).fg}

\* One round of the loop of restoreAgentTaskNotificationsNow.
RestoreNotification(t) ==
    /\ mode = "notifying" /\ t \in restoring
    /\ \A u \in Tasks : building[u] # "restore"
    /\ restoring' = restoring \ {t}
    /\ building' = IF MayBuild(t) THEN [building EXCEPT ![t] = "restore"]
                                  ELSE building
    /\ UNCHANGED <<entry, audit, ghost, mode, lost, pending, scheduled,
                   delivered, cancelled, doc, journal, budget>>

RestoreDone ==
    /\ mode = "notifying" /\ restoring = {}
    /\ \A u \in Tasks : building[u] # "restore"
    /\ mode' = "live"
    /\ UNCHANGED <<entry, notices, audit, ghost, restoring, lost, doc, journal,
                   budget>>

----------------------------------------------------------------------------
(* Undo *)

\* undoNow: only while the loop is idle, which it then stays; the cut.
UndoCut(kept) ==
    /\ mode = "live" /\ pending = {} /\ Spend("undos", MaxUndos)
    /\ \A t \in Tasks : entry[t].status # "none" =>
         /\ entry[t].caller \notin {"waiting", "released"}
         /\ entry[t].tool \notin {"suppressing", "stopping"}
    /\ Dispatch([Now EXCEPT !.told = SubSeq(@, 1, kept)])
    /\ mode' = "cut"
    /\ UNCHANGED <<entry, notices, audit, ghost, restoring, lost, doc>>

\* mutant: a request that joined the queue during the undo is forgotten
ReconcileForgetful ==
    /\ mode = "cut" /\ mode' = "notifying"
    /\ delivered' = Keys(Now.told) /\ scheduled' = {}
    /\ restoring' = Listed /\ cancelled' = {} /\ cutOff' = {}
    /\ UNCHANGED <<entry, registered, early, ghost, lost, building, pending, doc, journal,
                   budget>>

\* mutant: the notifications the undo cut off are not restored
ReconcileOnly ==
    /\ mode = "cut" /\ mode' = "notifying"
    /\ delivered' = Keys(Now.told)
    /\ scheduled' = {t \in scheduled \cap pending :
                       <<t, StatusOf(t)>> \notin Keys(Now.told)}
    /\ UNCHANGED <<entry, audit, ghost, lost, restoring, building, pending,
                   cancelled, doc, journal, budget>>

\* reconcileNotificationDeliveryAfterUndo, up to the restore.
ReconcileAfterUndo ==
    /\ mode = "cut" /\ mode' = "notifying"
    /\ delivered' = Keys(Now.told)
    /\ scheduled' = {t \in scheduled \cap pending :
                       <<t, StatusOf(t)>> \notin Keys(Now.told)}
    /\ restoring' = Listed /\ cancelled' = {} /\ cutOff' = {}
    /\ UNCHANGED <<entry, registered, early, ghost, lost, building, pending, doc, journal,
                   budget>>

\* flushAfterCommit rejects: undoNow throws, what was cut stays cut, and the
\* participants are not reconciled.
UndoFlushFails ==
    /\ mode = "cut" /\ mode' = "live"
    /\ cutOff' = cutOff \cup
         {t \in Tasks : <<t, StatusOf(t)>> \in delivered \ Keys(Now.told)}
    /\ UNCHANGED <<entry, notices, registered, early, ghost, restoring, lost, doc,
                   journal, budget>>

----------------------------------------------------------------------------
(* Crash and restore *)

FlushJournal ==
    /\ Len(journal) > 1 /\ journal' = <<Now>>
    /\ UNCHANGED <<entry, notices, recovery, audit, doc, budget>>

\* The process dies; some prefix of the journal is replayed.
Crash(k) ==
    /\ Spend("crashes", MaxCrashes)
    /\ journal' = <<journal[k]>>
    /\ entry' = [t \in Tasks |-> NoEntry]
    /\ ghost' = [t \in Tasks |-> NoInfo]
    /\ building' = [t \in Tasks |-> "no"]
    /\ pending' = {} /\ scheduled' = {} /\ delivered' = {}
    /\ mode' = "replay" /\ restoring' = {} /\ lost' = {}
    /\ cancelled' = {} /\ cutOff' = {}
    /\ UNCHANGED <<doc, registered, early>>

\* mutant: what the journal knows is preferred to the document
JournalFirst(existing, loaded) ==
    IF existing.status = "none" THEN loaded ELSE existing

NewerRestoredTask(existing, loaded) ==
    IF loaded.status = "none" \/ (IsEnded(existing) /\ ~IsEnded(loaded))
    THEN existing ELSE loaded

\* onDidRestore, restoreGhostsFromWire, loadFromDisk.
LoadFromDisk ==
    /\ mode = "replay" /\ mode' = "losing"
    /\ delivered' = Keys(Now.told)
    /\ ghost' = [t \in Tasks |-> NewerRestoredTask(Now.info[t], doc[t])]
    /\ UNCHANGED <<entry, audit, restoring, lost, building, pending, scheduled,
                   cancelled, doc, journal, budget>>

\* markLoadedTasksLost: what still ran is lost.
MarkLost(t) ==
    /\ mode = "losing" /\ ghost[t].status = "running"
    /\ ghost' = [ghost EXCEPT ![t].status = "lost"]
    /\ doc' = [doc EXCEPT ![t] = ghost'[t]]
    /\ lost' = lost \cup {t}
    /\ UNCHANGED <<entry, notices, audit, mode, restoring, journal, budget>>

\* The rest of reconcile: the losses are recorded, then the notifications
\* that are still owed are restored.
Reconcile ==
    /\ mode = "losing" /\ \A t \in Tasks : ghost[t].status # "running"
    /\ mode' = "notifying" /\ restoring' = Listed
    /\ IF lost = {} THEN UNCHANGED journal
       ELSE Dispatch([Now EXCEPT !.info = [t \in Tasks |->
                        IF t \in lost THEN ghost[t] ELSE @[t]]])
    /\ UNCHANGED <<entry, notices, audit, ghost, lost, doc, budget>>

----------------------------------------------------------------------------
Continues(t) ==
    \/ WriteTask(t, FALSE) \/ SettleContinues(t) \/ BuildDone(t) \/ Deliver(t)
    \/ RestoreNotification(t) \/ MarkLost(t) \/ StopToolStops(t)

Restores == LoadFromDisk \/ Reconcile \/ ReconcileAfterUndo \/ RestoreDone

Next ==
    \/ \E t \in Tasks :
         \/ \E fg, timer, auto \in BOOLEAN : Register(t, fg, timer, auto)
         \/ PersistOutput(t) \/ Detach(t) \/ TimeoutFires(t)
         \/ Stop(t) \/ CallerReturns(t)
         \/ StopToolSuppresses(t) \/ StopToolReturns(t)
         \/ \E s \in {"completed", "failed", "killed"} : TaskEnds(t, s)
         \/ \E s \in {"killed", "timed_out"} : GraceOver(t, s)
         \/ WriteTask(t, TRUE) \/ CancelRequest(t) \/ Continues(t)
    \/ Restores \/ FlushJournal
    \/ \E kept \in 0..Len(Now.told) : UndoCut(kept)
    \/ UndoFlushFails
    \/ \E k \in DOMAIN journal : Crash(k)

Spec == Init /\ [][Next]_vars

\* Promises that were resolved are continued, writes end, the loop gets to
\* the requests it holds and a restore that began goes on; tasks may run for
\* ever and the user may do nothing.
FairSpec == /\ Spec /\ WF_vars(Restores)
            /\ \A t \in Tasks : /\ WF_vars(WriteTask(t, FALSE))
                                /\ WF_vars(SettleContinues(t))
                                /\ WF_vars(BuildDone(t)) /\ WF_vars(Deliver(t))
                                /\ WF_vars(RestoreNotification(t))
                                /\ WF_vars(MarkLost(t))

----------------------------------------------------------------------------
\* In no conversation is the end of a task reported twice: there is one
\* notification, and none when the call that waited for the task or TaskStop
\* has reported the end - whatever was detached while it was being stopped or
\* settled, cut off by an undo, cut short by a crash, or not written
\* (fireTerminalEffects, buildAgentTaskNotificationContext, reconcile).  The
\* one exception: an undo lists a task from the moment it settles
\* (restoreAgentTaskNotificationsNow), so it may report an end that a crash
\* then leaves unrecorded, and the next process reports the task lost.
ToldOnce ==
    \A i, j \in DOMAIN Now.told :
      i < j /\ Now.told[i][1] = Now.told[j][1] =>
        \/ {Now.told[i][2], Now.told[j][2]} = {"result", "stopped"}
        \/ Now.told[j][2] = "lost" /\ Now.told[j][1] \in early

\* The end of a task on disk is final: no queued write puts an older state
\* over it, and no restore declares lost a task that ended (persistLive's
\* queue, newerRestoredTask, markLoadedTasksLost).
RecordedEndIsFinal ==
    [][\A t \in Tasks : IsEnded(doc[t]) => doc'[t].status = doc[t].status]_vars

\* Every end is reported: a call does not wait for ever for a task that
\* ended, and a task that ended in the background, or with an earlier
\* process, gets its notification, unless that was suppressed or cancelled.  One
\* that was delivered and is cut off by an undo is given again, but not after an
\* undo whose records could not be flushed (undoNow, flushAfterCommit): then only
\* the next undo or restart remembers it.
Unreported(t) ==
    \/ IsEnded(entry[t]) /\ entry[t].fg /\ entry[t].caller = "waiting"
    \/ /\ t \in Listed \ (cancelled \cup cutOff) /\ ~Suppressed(t)
       /\ \A i \in DOMAIN Now.told : Now.told[i][1] # t

EndIsTold == \A t \in Tasks : []<>~Unreported(t)
=============================================================================
