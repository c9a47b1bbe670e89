--------------------------- MODULE InventoryLoad ---------------------------
(***************************************************************************)
(* Loading the mod list off the GUI thread: the worker that AsyncTask runs *)
(* (AsyncTask.hpp) over CatalogInventoryService::getInventory, the model   *)
(* that owns it (InventoryModel), and the window that shows its progress   *)
(* and lets the user cancel it (MainWindow).                               *)
(*                                                                         *)
(* Two kinds of process.  Each load k in Tasks has a worker thread.  The   *)
(* GUI thread runs one handler at a time; a handler that destroys          *)
(* m_load_task blocks in the jthread destructor until that worker has      *)
(* returned, so such a handler is two steps: one that requests the stop    *)
(* and starts to join, and JoinDone, which is the rest of the handler.     *)
(* Between the threads: the stop flag of each load, and the queue of       *)
(* events posted with Qt::QueuedConnection to the model.                   *)
(***************************************************************************)
EXTENDS Naturals, Sequences, FiniteSets

CONSTANTS
    MaxReloads,          \* bound on the calls of InventoryModel::reload()
    CatalogErrors        \* what IPackageCatalog::list() may return as error

PortErrors ==
    {"AlreadyExists", "NotFound", "InvalidFormat", "UnsupportedSchemaVersion",
     "IoError"}

ASSUME ReloadsAssumption == MaxReloads \in Nat
ASSUME ErrorsAssumption == CatalogErrors \subseteq PortErrors

Tasks == 1 .. MaxReloads
NoTask == 0                          \* a null m_load_task

\* The overlay: the percentage it shows and the load whose progress that is.
Hidden == [of |-> NoTask, percent |-> 0]
Overlays == [of : Tasks, percent : {10, 100}] \union {Hidden}

VARIABLES
    task,                \* m_load_task: the load the model owns, or NoTask
    victim,              \* the load whose thread the GUI thread is joining
    stopped,             \* loads whose stop was requested
    wpc, result,         \* per load: where its worker is, what it has so far
    queue,               \* events posted to the model, oldest first
    gui,                 \* "idle" (in the event loop), "joining" or "closed"
    after,               \* the rest of the handler that is joining
    reloads,             \* loads started
    mods,                \* the load whose packages are in m_mods, 0 for none
    overlay,             \* what the progress overlay shows, and (history) of which load
    dialogs,             \* open "Scan Failed" message boxes
    \* history
    reported,            \* loads one of whose callbacks has run
    silenced,            \* loads stopped before their worker read the flag last
    abandoned,           \* loads given up by Cancel, by Quit or for a newer load
    notified             \* reloads when scanCompleted or scanFailed was last emitted

worker == <<wpc, result>>
window == <<mods, overlay, dialogs, notified>>
history == <<reported, silenced, abandoned>>
vars == <<task, victim, stopped, worker, queue, gui, after, reloads, window,
          history>>

InventoryErrors ==
    {"Cancelled", "SourceUnavailable", "CorruptMetadata", "Internal"}
Outcomes == {"ok", "exception"} \union InventoryErrors
Results ==
    {"none"} \union PortErrors \union Outcomes
BeforeGate == {"start", "announce", "list", "recheck", "conclude", "gate"}
WorkerStates == BeforeGate \union {"none", "post", "done"}
Events ==
    [kind : {"progress"}, task : Tasks, what : {10, 100}]
      \union [kind : {"result"}, task : Tasks, what : Outcomes]

IsResult(e) == e.kind = "result"
Live(k) == wpc[k] \notin {"none", "done"}

Init ==
    /\ task = NoTask /\ victim = NoTask /\ stopped = {}
    /\ wpc = [k \in Tasks |-> "none"]
    /\ result = [k \in Tasks |-> "none"]
    /\ queue = <<>>
    /\ gui = "idle" /\ after = "cancel"
    /\ reloads = 0 /\ mods = 0
    /\ overlay = Hidden /\ dialogs = 0
    /\ reported = {} /\ silenced = {} /\ abandoned = {} /\ notified = 0

-----------------------------------------------------------------------------
(* The worker thread of load k.                                            *)

Goto(k, from, to) == wpc[k] = from /\ wpc' = [wpc EXCEPT ![k] = to]

\* Posting ahead of what is queued already (a mutated form).
PostFirst(event) == queue' = <<event>> \o queue

\* QMetaObject::invokeMethod(model, ..., Qt::QueuedConnection).
Post(event) == queue' = Append(queue, event)

\* Everything a worker step never touches.
GuiSide == <<task, victim, stopped, gui, after, reloads, window, history>>

\* getInventory's first look at the stop token.
Start(k) ==
    /\ IF k \in stopped
       THEN Goto(k, "start", "gate") /\ result' = [result EXCEPT ![k] = "Cancelled"]
       ELSE Goto(k, "start", "announce") /\ UNCHANGED result
    /\ UNCHANGED <<queue, GuiSide>>

\* A blocking connection would wait for the event loop (a mutated form).
AnnounceAndWait(k) ==
    /\ gui = "idle"
    /\ Goto(k, "announce", "list")
    /\ Post([kind |-> "progress", task |-> k, what |-> 10])
    /\ UNCHANGED <<result, GuiSide>>

\* "Reading catalog...", posted whatever the stop token says by now.
Announce(k) ==
    /\ Goto(k, "announce", "list")
    /\ Post([kind |-> "progress", task |-> k, what |-> 10])
    /\ UNCHANGED <<result, GuiSide>>

\* m_catalog->list(): packages, an error, or an exception that leaves
\* getInventory for the handlers of AsyncTask.
List(k) ==
    /\ \/ /\ \E r \in {"ok"} \union CatalogErrors : result' = [result EXCEPT ![k] = r]
          /\ Goto(k, "list", "recheck")
       \/ /\ result' = [result EXCEPT ![k] = "exception"]
          /\ Goto(k, "list", "gate")
    /\ UNCHANGED <<queue, GuiSide>>

\* The second look at the stop token.
Recheck(k) ==
    /\ IF k \in stopped
       THEN Goto(k, "recheck", "gate") /\ result' = [result EXCEPT ![k] = "Cancelled"]
       ELSE Goto(k, "recheck", "conclude") /\ UNCHANGED result
    /\ UNCHANGED <<queue, GuiSide>>

InventoryErrorOf(e) ==
    CASE e \in {"NotFound", "IoError"} -> "SourceUnavailable"
      [] e \in {"InvalidFormat", "UnsupportedSchemaVersion"} -> "CorruptMetadata"
      [] OTHER -> "Internal"

\* The end of getInventory: the error translated, or "Catalog loaded." posted.
Conclude(k) ==
    /\ Goto(k, "conclude", "gate")
    /\ IF result[k] = "ok"
       THEN /\ Post([kind |-> "progress", task |-> k, what |-> 100])
            /\ UNCHANGED result
       ELSE /\ result' = [result EXCEPT ![k] = InventoryErrorOf(result[k])]
            /\ UNCHANGED queue
    /\ UNCHANGED GuiSide

\* Mutated forms of the check below: none, and one that loses exceptions.
GateAlwaysOpen(k) ==
    /\ Goto(k, "gate", "post")
    /\ UNCHANGED <<result, queue, GuiSide>>

GateDropsExceptions(k) ==
    /\ Goto(k, "gate", IF k \in stopped \/ result[k] = "exception" THEN "done" ELSE "post")
    /\ UNCHANGED <<result, queue, GuiSide>>

\* AsyncTask reads the stop token once more before it posts a callback ...
Gate(k) ==
    /\ Goto(k, "gate", IF k \in stopped THEN "done" ELSE "post")
    /\ UNCHANGED <<result, queue, GuiSide>>

\* ... and then posts it: a stop in between is not noticed.
PostResult(k) ==
    /\ Goto(k, "post", "done")
    /\ Post([kind |-> "result", task |-> k, what |-> result[k]])
    /\ UNCHANGED <<result, GuiSide>>

Worker(k) ==
    \/ Start(k) \/ Announce(k) \/ List(k) \/ Recheck(k) \/ Conclude(k)
    \/ Gate(k) \/ PostResult(k)

-----------------------------------------------------------------------------
(* The GUI thread.                                                         *)

\* The task is dropped without waiting for its thread (a mutated form).
ResetWithoutJoin(rest) ==
    /\ task' = NoTask
    /\ victim' = NoTask
    /\ stopped' = stopped \union ({task} \ {NoTask})
    /\ silenced' = silenced \union {k \in Tasks : k = task /\ wpc[k] \in BeforeGate}
    /\ gui' = "joining"
    /\ after' = rest

\* m_load_task.reset(): the pointer is null before the old task is destroyed,
\* and ~AsyncTask requests the stop and joins.  With a null m_load_task there
\* is nothing to wait for.
ResetTask(rest) ==
    /\ task' = NoTask
    /\ victim' = task
    /\ stopped' = stopped \union ({task} \ {NoTask})
    /\ silenced' = silenced \union {k \in Tasks : k = task /\ wpc[k] \in BeforeGate}
    /\ gui' = "joining"
    /\ after' = rest

Abandon == abandoned' = abandoned \union ({task} \ {NoTask})

\* InventoryModel::reload() begins by cancelling the load in progress.
Reload ==
    /\ gui = "idle"
    /\ reloads < MaxReloads
    /\ ResetTask("reload")
    /\ Abandon
    /\ UNCHANGED <<worker, queue, reloads, window, reported>>

\* The Cancel button, which is on the overlay and out of reach under a dialog.
CancelClick ==
    /\ gui = "idle"
    /\ overlay # Hidden /\ dialogs = 0
    /\ ResetTask("cancel")
    /\ Abandon
    /\ UNCHANGED <<worker, queue, reloads, window, reported>>

\* Quit: the event loop ends and ~InventoryModel cancels the load.
Quit ==
    /\ gui = "idle"
    /\ dialogs = 0
    /\ ResetTask("destroy")
    /\ Abandon
    /\ UNCHANGED <<worker, queue, reloads, window, reported>>

\* A posted scanProgress: the window shows the overlay, whoever it is for.
ShowProgress ==
    /\ Head(queue).kind = "progress"
    /\ overlay' = [of |-> Head(queue).task, percent |-> Head(queue).what]
    /\ UNCHANGED <<task, victim, stopped, worker, gui, after, reloads, mods,
                   dialogs, notified, history>>

\* on_success or on_error.  m_load_task.reset() is applied to the task the
\* model owns now, which may be a newer one than the load that reports.
FinishLoad ==
    LET e == Head(queue) IN
    /\ IsResult(e)
    /\ mods' = IF e.what = "ok" THEN e.task ELSE mods
    /\ reported' = reported \union {e.task}
    /\ ResetTask(IF e.what \in {"ok", "Cancelled"} THEN "completed" ELSE "failed")
    /\ UNCHANGED <<worker, reloads, overlay, dialogs, notified, abandoned>>

\* Events reach the model in the order they were posted, dialog or not.
Deliver ==
    /\ gui = "idle"
    /\ queue # <<>>
    /\ queue' = Tail(queue)
    /\ ShowProgress \/ FinishLoad

\* The rest of reload(), once the old thread has returned: a new AsyncTask.
StartTask ==
    /\ after = "reload"
    /\ reloads' = reloads + 1
    /\ task' = reloads + 1
    /\ wpc' = [wpc EXCEPT ![reloads + 1] = "start"]
    /\ gui' = "idle"
    /\ UNCHANGED <<queue, overlay, dialogs, notified>>

\* The rest of onCancelClicked: the overlay goes away, no signal is emitted.
EndCancel ==
    /\ after = "cancel"
    /\ overlay' = Hidden
    /\ gui' = "idle"
    /\ UNCHANGED <<task, wpc, queue, reloads, dialogs, notified>>

\* The window closes the overlay on failures only (a mutated form).
FinishedLeavesOverlay ==
    /\ after \in {"completed", "failed"}
    /\ dialogs' = IF after = "failed" THEN dialogs + 1 ELSE dialogs
    /\ notified' = reloads
    /\ gui' = "idle"
    /\ overlay' = IF after = "failed" THEN Hidden ELSE overlay
    /\ UNCHANGED <<task, wpc, queue, reloads>>

\* scanCompleted or scanFailed: the overlay goes away, and a failure opens a
\* message box with an event loop of its own.
Finished ==
    /\ after \in {"completed", "failed"}
    /\ overlay' = Hidden
    /\ dialogs' = IF after = "failed" THEN dialogs + 1 ELSE dialogs
    /\ notified' = reloads
    /\ gui' = "idle"
    /\ UNCHANGED <<task, wpc, queue, reloads>>

\* ~QObject: events still posted to the model are never delivered.
Destroy ==
    /\ after = "destroy"
    /\ queue' = <<>>
    /\ gui' = "closed"
    /\ UNCHANGED <<task, wpc, reloads, overlay, dialogs, notified>>

\* The jthread destructor returns when the thread has.
JoinDone ==
    /\ gui = "joining"
    /\ victim # NoTask => wpc[victim] = "done"
    /\ victim' = NoTask
    /\ StartTask \/ EndCancel \/ Finished \/ Destroy
    /\ UNCHANGED <<stopped, result, after, mods, history>>

DismissDialog ==
    /\ gui = "idle"
    /\ dialogs > 0
    /\ dialogs' = dialogs - 1
    /\ UNCHANGED <<task, victim, stopped, worker, queue, gui, after, reloads,
                   mods, overlay, notified, history>>

Terminated == gui = "closed" /\ UNCHANGED vars

Next ==
    \/ \E k \in Tasks : Worker(k)
    \/ Reload \/ CancelClick \/ Quit \/ Deliver \/ JoinDone \/ DismissDialog
    \/ Terminated

Spec == Init /\ [][Next]_vars

\* Threads run, the event loop runs, a join of a finished thread returns; the
\* user owes nothing.
Fairness ==
    /\ \A k \in Tasks : WF_vars(Worker(k))
    /\ WF_vars(Deliver)
    /\ WF_vars(JoinDone)

FairSpec == Spec /\ Fairness

-----------------------------------------------------------------------------
(* Properties.                                                             *)

TypeOK ==
    /\ task \in Tasks \union {NoTask} /\ victim \in Tasks \union {NoTask}
    /\ stopped \subseteq Tasks
    /\ wpc \in [Tasks -> WorkerStates]
    /\ result \in [Tasks -> Results]
    /\ queue \in Seq(Events)
    /\ gui \in {"idle", "joining", "closed"}
    /\ after \in {"reload", "cancel", "completed", "failed", "destroy"}
    /\ reloads \in 0 .. MaxReloads /\ mods \in 0 .. MaxReloads
    /\ overlay \in Overlays /\ dialogs \in Nat
    /\ reported \subseteq Tasks /\ silenced \subseteq Tasks
    /\ abandoned \subseteq Tasks
    /\ notified \in 0 .. MaxReloads

(* A running worker is the load the model owns or the one the GUI thread   *)
(* is waiting for: ~AsyncTask leaves no thread behind, so there is never   *)
(* more than one reader of the catalog, and none when the model is gone.   *)
WorkerIsOwned ==
    \A k \in Tasks : Live(k) => k = task \/ (gui = "joining" /\ k = victim)

(* Once the model is destroyed no thread can post to it and no event that  *)
(* was posted is left to run on it (the lambdas capture a raw `this`).     *)
NothingOutlivesModel ==
    gui = "closed" => queue = <<>> /\ \A k \in Tasks : ~Live(k)

(* A load stopped before its worker read the stop token for the last time  *)
(* never runs a callback: none is queued and none has run.                 *)
StoppedEarlyStaysSilent ==
    \A k \in silenced :
        /\ k \notin reported /\ wpc[k] # "post"
        /\ \A i \in DOMAIN queue : IsResult(queue[i]) => queue[i].task # k

(* The Cancelled error never arrives at the model, although on_success has *)
(* a branch for it: whoever computes it has seen a stop, and AsyncTask     *)
(* then sees it too.                                                       *)
CancelledNeverDelivered ==
    \A i \in DOMAIN queue : IsResult(queue[i]) => queue[i].what # "Cancelled"

(* Whatever the order of the stop, the reads of the token, the end of the   *)
(* worker and the event loop: a load whose stop is seen at the last of     *)
(* these reads runs no callback, on_success with a Cancelled included.     *)
StoppedLoadsStaySilent == StoppedEarlyStaysSilent /\ CancelledNeverDelivered

(* No load runs two callbacks: at most one is queued, none after one ran.  *)
ReportsAtMostOnce ==
    \A i \in DOMAIN queue : IsResult(queue[i]) =>
        /\ queue[i].task \notin reported
        /\ \A j \in DOMAIN queue :
              IsResult(queue[j]) /\ queue[j].task = queue[i].task => j = i

\* A load that was dropped for the late callback of an older one, given up before.
Displaced(k) == \E j \in reported \cap abandoned : j < k

(* While the GUI is responsive, an overlay (and its Cancel button) that     *)
(* shows the progress of a load that is over shows that of one given up or  *)
(* displaced, late; and no progress, however late, brings the overlay back  *)
(* for a load that has reported, or for one older than a load that has.     *)
OverlayStandsForLoad ==
    gui = "idle" /\ overlay # Hidden =>
        /\ overlay.of = task \/ overlay.of \in abandoned \/ Displaced(overlay.of)
        /\ \A k \in reported : k < overlay.of

(* What async_task_test.cpp says of cancelling: "Cancellation stops        *)
(* execution and does not trigger callbacks".  The callback that runs      *)
(* belongs to no load that was given up before.                            *)
CancelledTaskNeverReports ==
    [][\A k \in reported' \ reported : k \notin abandoned]_vars

\* The list as a viewer sees it.
Feed == INSTANCE InventoryFeed
          WITH shown <- mods, issued <- reloads, open <- (gui # "closed")

(* The list never goes back to an older load, shows only loads that were   *)
(* issued, and is left alone after the model is destroyed.                 *)
ImplementsFeed == Feed!Spec

(* The GUI thread does not hang in the destructor of a task.               *)
JoinReturns == gui = "joining" ~> gui # "joining"

(* After every reload the window is told that a scan ended, unless the     *)
(* load was given up.                                                      *)
ReloadNotified ==
    \A k \in Tasks : reloads >= k ~> notified >= k \/ k \in abandoned

(* Every load runs one of its own callbacks, unless it was given up or      *)
(* displaced: FinishLoad drops the task the model owns, whoever reports.    *)
(* ReloadNotified does without the second exception: the window is told of  *)
(* an end of the scan then too.                                            *)
ReloadAnswered ==
    \A k \in Tasks :
        task = k ~> k \in reported \union abandoned \/ Displaced(k)
=============================================================================
