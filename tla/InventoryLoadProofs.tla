------------------------ MODULE InventoryLoadProofs ------------------------
(***************************************************************************)
(* Theorems about InventoryLoad for every number of reloads and every set  *)
(* of catalog errors.  IInv is the inductive invariant all of them rest    *)
(* on; the step lemma below has one case per action.                       *)
(***************************************************************************)
EXTENDS InventoryLoad, TLAPS

\* Only the newest load can be running, and it is either the one the model
\* owns or the one the GUI thread is joining.
Ownership ==
    /\ \A k \in Tasks : Live(k) =>
          k = reloads /\ (k = task \/ (gui = "joining" /\ k = victim))
    /\ \A k \in Tasks : wpc[k] = "none" <=> k > reloads
    /\ task # NoTask => task = reloads
    /\ victim # NoTask => gui = "joining" /\ victim = reloads
    /\ gui # "idle" => task = NoTask
    /\ gui = "joining" /\ after = "reload" => reloads < MaxReloads
    /\ gui = "closed" => queue = <<>>

\* What a worker carries to the gate is an outcome of getInventory, and
\* Cancelled only if its stop was requested.
Answers ==
    \A k \in Tasks :
        /\ wpc[k] \in {"recheck", "conclude"} =>
              result[k] \in {"ok"} \union CatalogErrors
        /\ wpc[k] \in {"gate", "post"} => result[k] \in Outcomes
        /\ wpc[k] = "gate" /\ result[k] = "Cancelled" => k \in stopped
        /\ wpc[k] = "post" => result[k] # "Cancelled"

\* Stopped before the last look at the token: no way to a callback.
Silence ==
    /\ silenced \subseteq stopped
    /\ StoppedEarlyStaysSilent

\* Callbacks are queued by finished workers only, oldest load first, and
\* behind every load that has reported.
Ordering ==
    /\ \A i \in DOMAIN queue : IsResult(queue[i]) =>
          /\ wpc[queue[i].task] = "done"
          /\ \A k \in reported : k < queue[i].task
          /\ \A j \in DOMAIN queue :
                IsResult(queue[j]) /\ i < j => queue[i].task < queue[j].task
    /\ \A k \in reported : wpc[k] = "done"
    /\ mods \in reported \union {0}

IInv ==
    /\ TypeOK
    /\ Ownership
    /\ Answers
    /\ Silence
    /\ Ordering
    /\ CancelledNeverDelivered

-----------------------------------------------------------------------------
(* Sequences.                                                              *)

\* What posting does to the queue.
LEMMA AppendFacts ==
    ASSUME NEW S, NEW q \in Seq(S), NEW e \in S
    PROVE  /\ Append(q, e) \in Seq(S)
           /\ DOMAIN Append(q, e) = 1 .. Len(q) + 1
           /\ DOMAIN q = 1 .. Len(q) /\ Len(q) \in Nat
           /\ \A i \in 1 .. Len(q) : Append(q, e)[i] = q[i]
           /\ Append(q, e)[Len(q) + 1] = e
  OBVIOUS

\* What delivering its first event does to the queue.
LEMMA TailFacts ==
    ASSUME NEW S, NEW q \in Seq(S), q # <<>>
    PROVE  /\ Tail(q) \in Seq(S)
           /\ Head(q) = q[1] /\ 1 \in DOMAIN q /\ Head(q) \in S
           /\ \A i \in DOMAIN Tail(q) :
                 i + 1 \in DOMAIN q /\ i \in Nat /\ i >= 1 /\ Tail(q)[i] = q[i + 1]
  OBVIOUS

-----------------------------------------------------------------------------
(* The invariant.                                                          *)

\* Nothing is running and nothing is queued at first.
LEMMA InitIInv == Init => IInv
  BY ReloadsAssumption
     DEF Init, IInv, TypeOK, Ownership, Answers, Silence, Ordering, Live,
         StoppedEarlyStaysSilent, CancelledNeverDelivered, Tasks, NoTask, Overlays,
         WorkerStates, BeforeGate, Results, Events

-----------------------------------------------------------------------------
(* Steps of a worker.                                                      *)

\* Worker k, which is running, goes on to another place or finishes.
Moves(k) ==
    /\ Live(k)
    /\ \E to \in WorkerStates \ {"none"} : wpc' = [wpc EXCEPT ![k] = to]
    /\ UNCHANGED GuiSide

\* Every worker action of AsyncTask and getInventory is such a move.
LEMMA WorkerMoves ==
    ASSUME NEW k \in Tasks, Worker(k)
    PROVE  Moves(k)
  BY DEF Worker, Start, Announce, List, Recheck, Conclude, Gate, PostResult, Goto,
         Moves, Live, WorkerStates, BeforeGate

\* Its step leaves one owner for every running worker.
LEMMA MoveKeepsOwnership ==
    ASSUME IInv, NEW k \in Tasks, Moves(k)
    PROVE  Ownership'
  <1>1. gui # "closed"
    BY DEF IInv, Ownership, Moves, Tasks, NoTask
  <1>2. /\ task' = task /\ victim' = victim /\ gui' = gui /\ after' = after
        /\ reloads' = reloads
    BY DEF Moves, GuiSide
  <1>3. \A j \in Tasks : (Live(j))' => Live(j)
    BY DEF IInv, TypeOK, Moves, Live
  <1>4. \A j \in Tasks : wpc'[j] = "none" <=> wpc[j] = "none"
    BY DEF IInv, TypeOK, Moves, Live
  <1>5. QED
    BY <1>1, <1>2, <1>3, <1>4 DEF IInv, Ownership

\* A step that posts nothing and does not leave for "post" after a stop.
LEMMA QuietMove ==
    ASSUME IInv, NEW k \in Tasks, Moves(k), UNCHANGED queue,
           wpc'[k] = "post" => k \notin stopped
    PROVE  Silence' /\ Ordering' /\ CancelledNeverDelivered'
  <1>1. /\ stopped' = stopped /\ silenced' = silenced /\ reported' = reported
        /\ mods' = mods /\ queue' = queue
    BY DEF Moves, GuiSide, history, window
  <1>2. \A j \in Tasks : wpc'[j] = wpc[j] \/ j = k
    BY DEF IInv, TypeOK, Moves
  <1>3. wpc[k] # "done"
    BY DEF Moves, Live
  <1>4. Silence'
    BY <1>1, <1>2 DEF IInv, TypeOK, Silence, StoppedEarlyStaysSilent
  <1>5. \A i \in DOMAIN queue : IsResult(queue[i]) => queue[i].task \in Tasks
    BY DEF IInv, TypeOK, Events
  <1>6. Ordering'
    <2>1. \A j \in Tasks : wpc[j] = "done" => wpc'[j] = "done"
      BY <1>2, <1>3
    <2>2. \A i \in DOMAIN queue : IsResult(queue[i]) => wpc'[queue[i].task] = "done"
      BY <1>5, <2>1 DEF IInv, Ordering
    <2>3. \A j \in reported : wpc'[j] = "done"
      BY <2>1 DEF IInv, TypeOK, Ordering
    <2>4. QED
      BY <1>1, <2>2, <2>3 DEF IInv, Ordering, IsResult
  <1>7. QED
    BY <1>1, <1>4, <1>6 DEF IInv, CancelledNeverDelivered

\* Posting progress keeps all that is said of results.
LEMMA ProgressMove ==
    ASSUME IInv, NEW k \in Tasks, Moves(k), NEW e \in Events, ~IsResult(e), Post(e),
           wpc'[k] # "post"
    PROVE  Silence' /\ Ordering' /\ CancelledNeverDelivered'
  <1>1. /\ stopped' = stopped /\ silenced' = silenced /\ reported' = reported
        /\ mods' = mods
    BY DEF Moves, GuiSide, history, window
  <1>2. \A j \in Tasks : wpc'[j] = wpc[j] \/ j = k
    BY DEF IInv, TypeOK, Moves
  <1>3. wpc[k] # "done"
    BY DEF Moves, Live
  <1>4. \A i \in DOMAIN queue' : IsResult(queue'[i]) =>
            i \in DOMAIN queue /\ queue'[i] = queue[i]
    BY AppendFacts DEF IInv, TypeOK, Post
  <1>5. \A i \in DOMAIN queue : IsResult(queue[i]) => queue[i].task \in Tasks
    BY DEF IInv, TypeOK, Events
  <1>6. Silence'
    BY <1>1, <1>2, <1>4 DEF IInv, TypeOK, Silence, StoppedEarlyStaysSilent
  <1>7. Ordering'
    <2>1. \A j \in Tasks : wpc[j] = "done" => wpc'[j] = "done"
      BY <1>2, <1>3
    <2>2. ASSUME NEW i \in DOMAIN queue', IsResult(queue'[i])
          PROVE  /\ wpc'[queue'[i].task] = "done"
                 /\ \A j \in reported : j < queue'[i].task
                 /\ \A j \in DOMAIN queue' :
                       IsResult(queue'[j]) /\ i < j => queue'[i].task < queue'[j].task
      <3>1. i \in DOMAIN queue /\ IsResult(queue[i]) /\ queue'[i] = queue[i]
        BY <1>4, <2>2
      <3>2. wpc'[queue'[i].task] = "done"
        BY <1>5, <2>1, <3>1 DEF IInv, Ordering
      <3>3. QED
        BY <1>4, <3>1, <3>2 DEF IInv, Ordering
    <2>3. \A j \in reported : wpc'[j] = "done"
      BY <2>1 DEF IInv, TypeOK, Ordering
    <2>4. QED
      BY <1>1, <2>2, <2>3 DEF IInv, Ordering, IsResult
  <1>8. CancelledNeverDelivered'
    BY <1>4 DEF IInv, CancelledNeverDelivered, IsResult
  <1>9. QED
    BY <1>6, <1>7, <1>8

\* getInventory's first look at the token keeps the invariant.
LEMMA StartStep ==
    ASSUME IInv, NEW k \in Tasks, Start(k)
    PROVE  IInv'
  <1>1. Moves(k)
    BY WorkerMoves DEF Worker
  <1>2. TypeOK'
    BY DEF IInv, TypeOK, Start, Goto, GuiSide, window, history, WorkerStates,
           BeforeGate, Results, Outcomes, InventoryErrors
  <1>3. Answers'
    BY DEF IInv, TypeOK, Answers, Start, Goto, GuiSide, Outcomes, InventoryErrors
  <1>4. QED
    BY <1>1, <1>2, <1>3, MoveKeepsOwnership, QuietMove
       DEF IInv, TypeOK, Start, Goto

\* Posting "Reading catalog..." keeps it.
LEMMA AnnounceStep ==
    ASSUME IInv, NEW k \in Tasks, Announce(k)
    PROVE  IInv'
  <1> DEFINE e == [kind |-> "progress", task |-> k, what |-> 10]
  <1>1. Moves(k)
    BY WorkerMoves DEF Worker
  <1>2. e \in Events /\ ~IsResult(e) /\ Post(e)
    BY DEF Events, IsResult, Announce
  <1>3. queue' \in Seq(Events)
    BY <1>2, AppendFacts DEF IInv, TypeOK, Post
  <1>4. TypeOK'
    BY <1>3 DEF IInv, TypeOK, Announce, Goto, GuiSide, window, history, WorkerStates,
           BeforeGate
  <1>5. Answers'
    BY DEF IInv, TypeOK, Answers, Announce, Goto, GuiSide
  <1>6. wpc'[k] # "post"
    BY DEF IInv, TypeOK, Announce, Goto
  <1>7. Ownership'
    BY <1>1, MoveKeepsOwnership
  <1>8. QED
    BY <1>1, <1>2, <1>4, <1>5, <1>6, <1>7, ProgressMove DEF IInv

\* The answer of the catalog, or its exception, keeps it.
LEMMA ListStep ==
    ASSUME IInv, NEW k \in Tasks, List(k)
    PROVE  IInv'
  <1>1. Moves(k)
    BY WorkerMoves DEF Worker
  <1>2. PICK r \in {"ok", "exception"} \union CatalogErrors :
            /\ result' = [result EXCEPT ![k] = r]
            /\ r = "exception" => wpc' = [wpc EXCEPT ![k] = "gate"]
            /\ r # "exception" => wpc' = [wpc EXCEPT ![k] = "recheck"]
    BY ErrorsAssumption DEF List, Goto, PortErrors
  <1>3. UNCHANGED queue /\ UNCHANGED GuiSide
    BY DEF List
  <1>4. TypeOK'
    BY <1>2, <1>3, ErrorsAssumption
       DEF IInv, TypeOK, GuiSide, window, history, WorkerStates, BeforeGate, Results,
           Outcomes
  <1>5. Answers'
    BY <1>2, <1>3 DEF IInv, TypeOK, Answers, GuiSide, Outcomes
  <1>6. QED
    BY <1>1, <1>2, <1>3, <1>4, <1>5, MoveKeepsOwnership, QuietMove DEF IInv, TypeOK

\* The second look at the token keeps it.
LEMMA RecheckStep ==
    ASSUME IInv, NEW k \in Tasks, Recheck(k)
    PROVE  IInv'
  <1>1. Moves(k)
    BY WorkerMoves DEF Worker
  <1>2. TypeOK'
    BY DEF IInv, TypeOK, Recheck, Goto, GuiSide, window, history, WorkerStates,
           BeforeGate, Results, Outcomes, InventoryErrors
  <1>3. Answers'
    BY DEF IInv, TypeOK, Answers, Recheck, Goto, GuiSide, Outcomes, InventoryErrors
  <1>4. QED
    BY <1>1, <1>2, <1>3, MoveKeepsOwnership, QuietMove
       DEF IInv, TypeOK, Recheck, Goto

\* Translating the error, or posting "Catalog loaded.", keeps it.
LEMMA ConcludeStep ==
    ASSUME IInv, NEW k \in Tasks, Conclude(k)
    PROVE  IInv'
  <1>1. Moves(k)
    BY WorkerMoves DEF Worker
  <1>2. wpc' = [wpc EXCEPT ![k] = "gate"] /\ UNCHANGED GuiSide
    BY DEF Conclude, Goto
  <1>3. Ownership'
    BY <1>1, MoveKeepsOwnership
  <1>4. CASE result[k] = "ok"
    <2> DEFINE e == [kind |-> "progress", task |-> k, what |-> 100]
    <2>1. e \in Events /\ ~IsResult(e) /\ Post(e) /\ UNCHANGED result
      BY <1>4 DEF Events, IsResult, Conclude
    <2>2. queue' \in Seq(Events)
      BY <2>1, AppendFacts DEF IInv, TypeOK, Post
    <2>3. TypeOK'
      BY <1>2, <2>1, <2>2 DEF IInv, TypeOK, GuiSide, window, history, WorkerStates,
             BeforeGate
    <2>4. Answers'
      BY <1>2, <1>4, <2>1 DEF IInv, TypeOK, Answers, GuiSide, Outcomes
    <2>5. wpc'[k] # "post"
      BY <1>2 DEF IInv, TypeOK
    <2>6. QED
      BY <1>1, <1>3, <2>1, <2>3, <2>4, <2>5, ProgressMove DEF IInv
  <1>5. CASE result[k] # "ok"
    <2>1. /\ result' = [result EXCEPT ![k] = InventoryErrorOf(result[k])]
          /\ UNCHANGED queue
      BY <1>5 DEF Conclude
    <2>2. InventoryErrorOf(result[k]) \in InventoryErrors \ {"Cancelled"}
      BY DEF InventoryErrorOf, InventoryErrors
    <2>3. TypeOK'
      BY <1>2, <2>1, <2>2 DEF IInv, TypeOK, GuiSide, window, history, WorkerStates,
             BeforeGate, Results, Outcomes
    <2>4. Answers'
      BY <1>2, <2>1, <2>2 DEF IInv, TypeOK, Answers, GuiSide, Outcomes
    <2>5. wpc'[k] # "post"
      BY <1>2 DEF IInv, TypeOK
    <2>6. QED
      BY <1>1, <1>3, <2>1, <2>3, <2>4, <2>5, QuietMove DEF IInv
  <1>6. QED
    BY <1>4, <1>5

\* AsyncTask's own look at the token keeps it: a stopped load goes no further.
LEMMA GateStep ==
    ASSUME IInv, NEW k \in Tasks, Gate(k)
    PROVE  IInv'
  <1>1. Moves(k)
    BY WorkerMoves DEF Worker
  <1>2. TypeOK'
    BY DEF IInv, TypeOK, Gate, Goto, GuiSide, window, history, WorkerStates,
           BeforeGate
  <1>3. Answers'
    BY DEF IInv, TypeOK, Answers, Gate, Goto, GuiSide
  <1>4. QED
    BY <1>1, <1>2, <1>3, MoveKeepsOwnership, QuietMove DEF IInv, TypeOK, Gate, Goto

\* The one step that queues a callback: its worker is the newest load, was not
\* stopped before the gate, and every callback before it is of an older load.
LEMMA PostResultStep ==
    ASSUME IInv, NEW k \in Tasks, PostResult(k)
    PROVE  IInv'
  <1> DEFINE e == [kind |-> "result", task |-> k, what |-> result[k]]
  <1>1. Moves(k)
    BY WorkerMoves DEF Worker
  <1>2. wpc[k] = "post" /\ wpc' = [wpc EXCEPT ![k] = "done"] /\ UNCHANGED <<result, GuiSide>>
    BY DEF PostResult, Goto
  <1>3. e \in Events /\ queue' = Append(queue, e) /\ e.what # "Cancelled"
    BY <1>2 DEF IInv, Answers, Events, PostResult, Post
  <1>4. /\ DOMAIN queue' = 1 .. Len(queue) + 1
        /\ DOMAIN queue = 1 .. Len(queue) /\ Len(queue) \in Nat
        /\ \A i \in DOMAIN queue : queue'[i] = queue[i]
        /\ queue'[Len(queue) + 1] = e
        /\ queue' \in Seq(Events)
    BY <1>3, AppendFacts DEF IInv, TypeOK
  <1>5. /\ stopped' = stopped /\ silenced' = silenced /\ reported' = reported
        /\ mods' = mods /\ reloads' = reloads
    BY <1>2 DEF GuiSide, history, window
  <1>6. \A j \in Tasks : wpc[j] = "done" => j < k
    BY <1>2 DEF IInv, Ownership, TypeOK, Live, Tasks
  <1>7. \A i \in DOMAIN queue : IsResult(queue[i]) => queue[i].task \in Tasks
    BY DEF IInv, TypeOK, Events
  <1>8. k \notin silenced
    BY <1>2 DEF IInv, Silence, StoppedEarlyStaysSilent
  <1>9. TypeOK'
    BY <1>2, <1>4 DEF IInv, TypeOK, GuiSide, window, history, WorkerStates
  <1>10. Ownership'
    BY <1>1, MoveKeepsOwnership
  <1>11. Answers'
    BY <1>2 DEF IInv, TypeOK, Answers, GuiSide
  <1>12. Silence'
    BY <1>2, <1>3, <1>4, <1>5, <1>8 DEF IInv, TypeOK, Silence, StoppedEarlyStaysSilent
  <1>13. Ordering'
    <2>1. \A j \in reported : j < k
      BY <1>6 DEF IInv, TypeOK, Ordering
    <2>2. \A i \in DOMAIN queue : IsResult(queue[i]) => queue[i].task < k
      BY <1>6, <1>7 DEF IInv, Ordering
    <2>3. \A j \in Tasks : wpc[j] = "done" => wpc'[j] = "done"
      BY <1>2 DEF IInv, TypeOK
    <2>4. wpc'[k] = "done"
      BY <1>2 DEF IInv, TypeOK
    <2>5. \A i \in DOMAIN queue' : i \in DOMAIN queue \/ i = Len(queue) + 1
      BY <1>4
    <2>6. ASSUME NEW i \in DOMAIN queue', IsResult(queue'[i])
          PROVE  /\ wpc'[queue'[i].task] = "done"
                 /\ \A j \in reported : j < queue'[i].task
                 /\ \A j \in DOMAIN queue' :
                       IsResult(queue'[j]) /\ i < j => queue'[i].task < queue'[j].task
      BY <1>3, <1>4, <1>7, <2>1, <2>2, <2>3, <2>4, <2>5, <2>6 DEF IInv, Ordering, IsResult
    <2>7. QED
      BY <1>5, <2>3, <2>6 DEF IInv, TypeOK, Ordering, IsResult
  <1>14. CancelledNeverDelivered'
    BY <1>3, <1>4 DEF IInv, CancelledNeverDelivered, IsResult
  <1>15. QED
    BY <1>9, <1>10, <1>11, <1>12, <1>13, <1>14 DEF IInv

-----------------------------------------------------------------------------
(* Steps of the GUI thread.                                                *)

\* Handlers the user starts: the task is given up, nothing else changes.
LEMMA GiveUpStep ==
    ASSUME IInv, gui = "idle", NEW rest \in {"reload", "cancel", "destroy"},
           ResetTask(rest), rest = "reload" => reloads < MaxReloads, Abandon,
           UNCHANGED <<worker, queue, reloads, window, reported>>
    PROVE  IInv'
  <1>1. /\ wpc' = wpc /\ result' = result /\ queue' = queue /\ reloads' = reloads
        /\ mods' = mods /\ reported' = reported
    BY DEF worker, window
  <1>2. stopped' \subseteq Tasks /\ silenced' \subseteq Tasks /\ abandoned' \subseteq Tasks
    BY DEF IInv, TypeOK, ResetTask, Abandon, NoTask
  <1>3. TypeOK'
    BY <1>1, <1>2 DEF IInv, TypeOK, ResetTask, worker, window, NoTask
  <1>4. Ownership'
    BY <1>1 DEF IInv, Ownership, ResetTask, Live
  <1>5. Answers'
    BY <1>1 DEF IInv, Answers, ResetTask
  <1>6. Silence'
    <2>1. silenced' \subseteq stopped'
      BY DEF IInv, Silence, ResetTask, Tasks, NoTask
    <2>2. \A k \in silenced' : k \in silenced \/ wpc[k] \in BeforeGate
      BY DEF ResetTask
    <2>3. QED
      BY <1>1, <2>1, <2>2 DEF IInv, Silence, StoppedEarlyStaysSilent, Ordering, BeforeGate
  <1>7. Ordering' /\ CancelledNeverDelivered'
    BY <1>1 DEF IInv, Ordering, CancelledNeverDelivered
  <1>8. QED
    BY <1>3, <1>4, <1>5, <1>6, <1>7 DEF IInv

\* Delivering progress keeps it: the queue only gets shorter.
LEMMA ShowProgressStep ==
    ASSUME IInv, gui = "idle", queue # <<>>, queue' = Tail(queue), ShowProgress
    PROVE  IInv'
  <1>1. /\ queue' \in Seq(Events) /\ Head(queue) \in Events
        /\ \A i \in DOMAIN queue' :
              i + 1 \in DOMAIN queue /\ i \in Nat /\ queue'[i] = queue[i + 1]
    BY TailFacts DEF IInv, TypeOK
  <1>2. /\ UNCHANGED <<task, victim, stopped, worker, gui, after, reloads, history>>
        /\ mods' = mods /\ wpc' = wpc /\ silenced' = silenced /\ reported' = reported
    BY DEF ShowProgress, worker, history
  <1>3. overlay' \in Overlays
    BY <1>1 DEF ShowProgress, Events, Overlays
  <1>4. TypeOK'
    BY <1>1, <1>2, <1>3 DEF IInv, TypeOK, ShowProgress, worker, history
  <1>5. Ownership'
    BY <1>2 DEF IInv, Ownership, Live
  <1>6. Answers'
    BY <1>2 DEF IInv, Answers, worker
  <1>7. Silence'
    BY <1>1, <1>2 DEF IInv, Silence, StoppedEarlyStaysSilent, history
  <1>8. Ordering' /\ CancelledNeverDelivered'
    BY <1>1, <1>2 DEF IInv, TypeOK, Ordering, CancelledNeverDelivered, IsResult
  <1>9. QED
    BY <1>4, <1>5, <1>6, <1>7, <1>8 DEF IInv

\* The callback of the oldest load in the queue: the ones behind it are newer.
LEMMA FinishLoadStep ==
    ASSUME IInv, gui = "idle", queue # <<>>, queue' = Tail(queue), FinishLoad
    PROVE  IInv'
  <1> DEFINE e == Head(queue)
             rest == IF e.what \in {"ok", "Cancelled"} THEN "completed" ELSE "failed"
  <1>1. /\ queue' \in Seq(Events) /\ e \in Events /\ e = queue[1] /\ 1 \in DOMAIN queue
        /\ \A i \in DOMAIN queue' :
              i + 1 \in DOMAIN queue /\ i \in Nat /\ i >= 1 /\ queue'[i] = queue[i + 1]
    BY TailFacts DEF IInv, TypeOK
  <1>2. /\ IsResult(e) /\ mods' \in {mods, e.task} /\ reported' = reported \union {e.task}
        /\ ResetTask(rest) /\ wpc' = wpc /\ result' = result
        /\ UNCHANGED <<reloads, overlay, dialogs, notified, abandoned>>
    BY DEF FinishLoad, worker
  <1>3. /\ e.task \in Tasks /\ wpc[e.task] = "done" /\ e.task \notin silenced
    BY <1>1, <1>2 DEF IInv, Events, Ordering, Silence, StoppedEarlyStaysSilent
  <1>4. stopped' \subseteq Tasks /\ silenced' \subseteq Tasks
    BY <1>2 DEF IInv, TypeOK, ResetTask, NoTask
  <1>5. TypeOK'
    <2>0. reported' \subseteq Tasks
      BY <1>2, <1>3 DEF IInv, TypeOK
    <2>1. mods' \in 0 .. MaxReloads
      <3>1. e.task \in 0 .. MaxReloads
        BY <1>3, ReloadsAssumption DEF Tasks
      <3>2. QED
        BY <1>2, <3>1 DEF IInv, TypeOK
    <2>2. /\ task' \in Tasks \union {NoTask} /\ victim' \in Tasks \union {NoTask}
          /\ gui' = "joining" /\ after' \in {"completed", "failed"}
      BY <1>2 DEF IInv, TypeOK, ResetTask
    <2>3. QED
      BY <1>1, <1>2, <1>4, <2>0, <2>1, <2>2 DEF IInv, TypeOK
  <1>6. Ownership'
    BY <1>2 DEF IInv, Ownership, ResetTask, Live
  <1>7. Answers'
    BY <1>2 DEF IInv, Answers, ResetTask
  <1>8. Silence'
    <2>1. silenced' \subseteq stopped'
      BY <1>2 DEF IInv, Silence, ResetTask, Tasks, NoTask
    <2>2. \A k \in silenced' : k \in silenced \/ wpc[k] \in BeforeGate
      BY <1>2 DEF ResetTask
    <2>3. \A k \in silenced' : k \notin reported' /\ wpc'[k] # "post"
      BY <1>2, <1>3, <2>2 DEF IInv, Silence, StoppedEarlyStaysSilent, Ordering, BeforeGate
    <2>4. \A k \in silenced' : \A i \in DOMAIN queue : IsResult(queue[i]) => queue[i].task # k
      BY <2>2 DEF IInv, Silence, StoppedEarlyStaysSilent, Ordering, BeforeGate
    <2>5. QED
      BY <1>1, <2>1, <2>3, <2>4 DEF Silence, StoppedEarlyStaysSilent
  <1>9. Ordering'
    <2>1. \A i \in DOMAIN queue' : IsResult(queue'[i]) =>
            wpc[queue'[i].task] = "done" /\ \A k \in reported : k < queue'[i].task
      BY <1>1 DEF IInv, Ordering
    <2>2. \A i \in DOMAIN queue' : IsResult(queue'[i]) => e.task < queue'[i].task
      BY <1>1, <1>2 DEF IInv, Ordering
    <2>3. \A i, j \in DOMAIN queue' :
            IsResult(queue'[i]) /\ IsResult(queue'[j]) /\ i < j => queue'[i].task < queue'[j].task
      BY <1>1 DEF IInv, Ordering
    <2>4. QED
      BY <1>2, <1>3, <2>1, <2>2, <2>3 DEF IInv, Ordering, IsResult
  <1>10. CancelledNeverDelivered'
    BY <1>1 DEF IInv, CancelledNeverDelivered, IsResult
  <1>11. QED
    BY <1>5, <1>6, <1>7, <1>8, <1>9, <1>10 DEF IInv

\* A new load: the joined one is done, so no other worker is running.
LEMMA StartTaskStep ==
    ASSUME IInv, JoinDone, StartTask
    PROVE  IInv'
  <1> DEFINE k == reloads + 1
  <1>1. /\ gui = "joining" /\ victim' = NoTask /\ queue' = queue /\ gui' = "idle"
        /\ reloads' = k /\ task' = k /\ wpc' = [wpc EXCEPT ![k] = "start"]
        /\ UNCHANGED <<stopped, result, after, mods, reported, silenced, abandoned>>
    BY DEF JoinDone, StartTask, history
  <1>2. k \in Tasks /\ wpc[k] = "none" /\ k \in Nat
    BY <1>1, ReloadsAssumption DEF IInv, Ownership, TypeOK, Tasks, JoinDone, StartTask
  <1>3. \A j \in Tasks : ~Live(j)
    BY <1>1 DEF IInv, Ownership, Live, JoinDone, NoTask, TypeOK, Tasks
  <1>4. \A j \in Tasks : wpc'[j] = IF j = k THEN "start" ELSE wpc[j]
    BY <1>1 DEF IInv, TypeOK
  <1>5. TypeOK'
    BY <1>1, <1>2, ReloadsAssumption
       DEF IInv, TypeOK, Tasks, WorkerStates, BeforeGate, StartTask, JoinDone
  <1>6. Ownership'
    <2>1. \A j \in Tasks : (Live(j))' => j = k
      BY <1>3, <1>4 DEF Live
    <2>2. \A j \in Tasks : wpc'[j] = "none" <=> j > k
      BY <1>2, <1>4 DEF IInv, Ownership, TypeOK, Tasks
    <2>3. QED
      BY <1>1, <2>1, <2>2 DEF Ownership
  <1>7. Answers'
    BY <1>1, <1>4 DEF IInv, Answers
  <1>8. Silence'
    BY <1>1, <1>4 DEF IInv, TypeOK, Silence, StoppedEarlyStaysSilent
  <1>9. \A i \in DOMAIN queue : IsResult(queue[i]) => queue[i].task \in Tasks
    BY DEF IInv, TypeOK, Events
  <1>10. Ordering'
    BY <1>1, <1>2, <1>4, <1>9 DEF IInv, TypeOK, Ordering, IsResult
  <1>11. CancelledNeverDelivered'
    BY <1>1 DEF IInv, CancelledNeverDelivered, IsResult
  <1>12. QED
    BY <1>5, <1>6, <1>7, <1>8, <1>10, <1>11 DEF IInv

\* The handlers that end without a new load; the last one drops the queue.
LEMMA HandlerEndStep ==
    ASSUME IInv, JoinDone, EndCancel \/ Finished \/ Destroy
    PROVE  IInv'
  <1>1. /\ gui = "joining" /\ victim' = NoTask /\ task' = task /\ wpc' = wpc
        /\ gui' = "closed" <=> queue' = <<>> /\ Destroy
        /\ reloads' = reloads
        /\ UNCHANGED <<stopped, result, after, mods, reported, silenced, abandoned>>
    BY DEF JoinDone, EndCancel, Finished, Destroy, history
  <1>2. queue' = queue \/ queue' = <<>>
    BY DEF EndCancel, Finished, Destroy
  <1>3. \A j \in Tasks : ~Live(j)
    BY <1>1 DEF IInv, Ownership, Live, JoinDone, NoTask, TypeOK, Tasks
  <1>4. TypeOK'
    <2>1. queue' \in Seq(Events)
      <3>1. <<>> \in Seq(Events)
        OBVIOUS
      <3>2. QED
        BY <1>2, <3>1 DEF IInv, TypeOK
    <2>2. /\ overlay' \in Overlays /\ notified' \in 0 .. MaxReloads
          /\ gui' \in {"idle", "closed"}
      BY <1>1 DEF IInv, TypeOK, Overlays, EndCancel, Finished, Destroy
    <2>3. dialogs' \in Nat
      BY DEF IInv, TypeOK, EndCancel, Finished, Destroy
    <2>4. QED
      BY <1>1, <2>1, <2>2, <2>3 DEF IInv, TypeOK
  <1>5. Ownership'
    BY <1>1, <1>3 DEF IInv, Ownership, Live, EndCancel, Finished, Destroy
  <1>6. Answers'
    BY <1>1 DEF IInv, Answers
  <1>7. Silence'
    BY <1>1, <1>2 DEF IInv, Silence, StoppedEarlyStaysSilent
  <1>8. Ordering' /\ CancelledNeverDelivered'
    BY <1>1, <1>2 DEF IInv, Ordering, CancelledNeverDelivered
  <1>9. QED
    BY <1>4, <1>5, <1>6, <1>7, <1>8 DEF IInv

\* Closing a message box keeps it.
LEMMA DismissDialogStep ==
    ASSUME IInv, DismissDialog
    PROVE  IInv'
  <1>1. dialogs' \in Nat
    BY DEF IInv, TypeOK, DismissDialog
  <1>2. QED
    BY <1>1 DEF IInv, TypeOK, Ownership, Live, Answers, Silence, StoppedEarlyStaysSilent,
           Ordering, CancelledNeverDelivered, DismissDialog, worker, history

\* Every step keeps the invariant.
LEMMA StepIInv ==
    ASSUME IInv, [Next]_vars
    PROVE  IInv'
  <1>1. ASSUME NEW k \in Tasks, Worker(k)
        PROVE  IInv'
    BY <1>1, StartStep, AnnounceStep, ListStep, RecheckStep, ConcludeStep, GateStep,
       PostResultStep DEF Worker
  <1>2. CASE Reload
    BY <1>2, GiveUpStep DEF Reload
  <1>3. CASE CancelClick
    BY <1>3, GiveUpStep DEF CancelClick
  <1>4. CASE Quit
    BY <1>4, GiveUpStep DEF Quit
  <1>5. CASE Deliver
    BY <1>5, ShowProgressStep, FinishLoadStep DEF Deliver
  <1>6. CASE JoinDone
    BY <1>6, StartTaskStep, HandlerEndStep DEF JoinDone
  <1>7. CASE DismissDialog
    BY <1>7, DismissDialogStep
  <1>8. CASE UNCHANGED vars
    BY <1>8 DEF IInv, TypeOK, Ownership, Live, Answers, Silence, StoppedEarlyStaysSilent,
           Ordering, CancelledNeverDelivered, vars, worker, window, history
  <1>9. QED
    BY <1>1, <1>2, <1>3, <1>4, <1>5, <1>6, <1>7, <1>8 DEF Next, Terminated

\* IInv holds in every reachable state, for all loads and threads.
THEOREM Invariance == Spec => []IInv
  <1>1. Init => IInv
    BY InitIInv
  <1>2. IInv /\ [Next]_vars => IInv'
    BY StepIInv
  <1>3. QED
    BY <1>1, <1>2, PTL DEF Spec

-----------------------------------------------------------------------------
(* What follows from it.                                                   *)

\* TypeOK for every number of reloads: in particular a callback is handed a
\* package list, an exception or an error of InventoryService, never an error
\* of the catalog port.
THEOREM TypeCorrect == Spec => []TypeOK
  BY Invariance, PTL DEF IInv

\* A running worker is the load the model owns or the one being joined:
\* ~AsyncTask leaves no thread behind.
THEOREM WorkersAreOwned == Spec => []WorkerIsOwned
  <1>1. IInv => WorkerIsOwned
    BY DEF IInv, Ownership, WorkerIsOwned
  <1>2. QED
    BY <1>1, Invariance, PTL

\* After ~InventoryModel no thread is running and no lambda with its `this` is
\* queued.
THEOREM NothingIsLeftBehind == Spec => []NothingOutlivesModel
  <1>1. IInv => NothingOutlivesModel
    BY DEF IInv, Ownership, NothingOutlivesModel, Tasks, NoTask
  <1>2. QED
    BY <1>1, Invariance, PTL

\* A load stopped before AsyncTask reads the token last runs no callback, and the
\* branch of on_success for InventoryError::Cancelled is never taken.
THEOREM StoppedLoadsAreSilent == Spec => []StoppedLoadsStaySilent
  <1>1. IInv => StoppedLoadsStaySilent
    BY DEF IInv, Silence, StoppedLoadsStaySilent
  <1>2. QED
    BY <1>1, Invariance, PTL

\* No load runs two callbacks.
THEOREM LoadsReportOnce == Spec => []ReportsAtMostOnce
  <1>1. IInv => ReportsAtMostOnce
    <2> SUFFICES ASSUME IInv, NEW i \in DOMAIN queue, IsResult(queue[i])
                 PROVE  /\ queue[i].task \notin reported
                        /\ \A j \in DOMAIN queue :
                              IsResult(queue[j]) /\ queue[j].task = queue[i].task => j = i
      BY DEF ReportsAtMostOnce
    <2>1. queue[i].task \in Nat
      BY DEF IInv, TypeOK, Events, IsResult, Tasks
    <2>2. queue[i].task \notin reported
      BY <2>1 DEF IInv, Ordering
    <2>3. \A j \in DOMAIN queue : j \in Nat /\ i \in Nat
      BY DEF IInv, TypeOK
    <2>4. \A j \in DOMAIN queue :
             IsResult(queue[j]) /\ queue[j].task = queue[i].task => ~(i < j) /\ ~(j < i)
      BY <2>1 DEF IInv, Ordering
    <2>5. QED
      BY <2>2, <2>3, <2>4
  <1>2. QED
    BY <1>1, Invariance, PTL

-----------------------------------------------------------------------------
(* The refinement: what a viewer sees is a feed.                           *)

\* Every step is a step of the feed or leaves what a viewer sees alone.  The
\* only one that shows a load delivers the oldest callback queued, and the
\* invariant has it newer than every load that reported before.
LEMMA StepsOfFeed ==
    ASSUME IInv, IInv', [Next]_vars
    PROVE  [Feed!Next]_(Feed!vars)
  <1> USE DEF Feed!vars
  <1>1. CASE UNCHANGED <<mods, reloads, gui>>
    BY <1>1
  <1>2. ASSUME NEW k \in Tasks, Worker(k)
        PROVE  UNCHANGED <<mods, reloads, gui>>
    BY <1>2, WorkerMoves DEF Moves, GuiSide, window
  <1>3. CASE Reload \/ CancelClick \/ Quit \/ DismissDialog
    <2>1. UNCHANGED <<mods, reloads>> /\ gui # "closed" /\ gui' # "closed"
      BY <1>3 DEF Reload, CancelClick, Quit, DismissDialog, ResetTask, window
    <2>2. QED
      BY <2>1
  <1>4. CASE Deliver
    <2>1. CASE ShowProgress
      BY <1>4, <2>1, <1>1 DEF ShowProgress
    <2>2. CASE FinishLoad
      <3> DEFINE e == Head(queue)
      <3>1. /\ IsResult(e) /\ reloads' = reloads /\ gui = "idle" /\ gui' = "joining"
            /\ mods' = mods \/ mods' = e.task
        BY <1>4, <2>2 DEF Deliver, FinishLoad, ResetTask
      <3>2. e = queue[1] /\ 1 \in DOMAIN queue /\ e \in Events
        BY <1>4, TailFacts DEF Deliver, IInv, TypeOK
      <3>3. e.task \in Tasks /\ wpc[e.task] = "done"
        BY <3>1, <3>2 DEF IInv, Ordering, Events
      <3>4. e.task <= reloads
        BY <3>3 DEF IInv, TypeOK, Ownership, Tasks
      <3>5. mods < e.task
        BY <3>1, <3>2, <3>3 DEF IInv, Ordering, Tasks
      <3>6. CASE mods' = mods
        BY <3>1, <3>6
      <3>7. CASE mods' = e.task
        <4>1. Feed!Show(e.task)
          BY <3>1, <3>4, <3>5, <3>7 DEF Feed!Show
        <4>2. QED
          BY <4>1, <3>3 DEF Feed!Next, Tasks
      <3>8. QED
        BY <3>1, <3>6, <3>7
    <2>3. QED
      BY <1>4, <2>1, <2>2 DEF Deliver
  <1>5. CASE JoinDone
    <2>1. gui = "joining" /\ mods' = mods
      BY <1>5 DEF JoinDone
    <2>2. CASE StartTask
      <3>1. Feed!Issue
        BY <1>5, <2>1, <2>2 DEF Feed!Issue, StartTask, JoinDone, IInv, Ownership
      <3>2. QED
        BY <3>1 DEF Feed!Next
    <2>3. CASE EndCancel \/ Finished
      BY <2>1, <2>3 DEF EndCancel, Finished
    <2>4. CASE Destroy
      <3>1. Feed!Close
        BY <2>1, <2>4 DEF Feed!Close, Destroy
      <3>2. QED
        BY <3>1 DEF Feed!Next
    <2>5. QED
      BY <1>5, <2>2, <2>3, <2>4 DEF JoinDone
  <1>6. CASE UNCHANGED vars
    BY <1>6, <1>1 DEF vars, window
  <1>7. QED
    BY <1>1, <1>2, <1>3, <1>4, <1>5, <1>6 DEF Next, Terminated

\* The list only moves on to newer loads that were issued, and is left alone
\* once the model is destroyed.
THEOREM FeedRefinement == Spec => ImplementsFeed
  <1>1. Init => Feed!Init
    BY DEF Init, Feed!Init
  <1>2. IInv /\ IInv' /\ [Next]_vars => [Feed!Next]_(Feed!vars)
    BY StepsOfFeed
  <1>3. QED
    BY <1>1, <1>2, Invariance, PTL DEF Spec, ImplementsFeed, Feed!Spec

-----------------------------------------------------------------------------
(* The overlay.                                                            *)

\* Everything queued is newer than what has reported, and behind a callback
\* there is nothing but events of newer loads.
QueueMovesOn ==
    \A i \in DOMAIN queue :
        /\ queue[i].task <= reloads
        /\ \A k \in reported : k < queue[i].task
        /\ \A j \in DOMAIN queue : IsResult(queue[i]) /\ i < j => queue[i].task < queue[j].task

\* Every load that was started is the one the model owns or has come to an end.
EndsAreKnown ==
    \A k \in Tasks : k <= reloads => k \in {task} \union reported \union abandoned \/ Displaced(k)

\* The overlay is of a load newer than those that have reported, or it is about
\* to be hidden.
OverlayMovesOn ==
    overlay # Hidden =>
        /\ overlay.of \in Tasks /\ overlay.of <= reloads
        /\ \/ \A k \in reported : k < overlay.of
           \/ gui = "closed"
           \/ gui = "joining" /\ after \in {"completed", "failed"}

OverlayInv == QueueMovesOn /\ EndsAreKnown /\ OverlayMovesOn

\* Loads that have reported or have a callback in the queue are older than one
\* that is running.
LEMMA OlderThanLive ==
    ASSUME IInv, NEW k \in Tasks, Live(k)
    PROVE  /\ k = reloads
           /\ \A j \in Tasks : wpc[j] = "done" => j < k
           /\ \A j \in reported : j < k
<1>1. k = reloads BY DEF IInv, Ownership
<1>2. wpc[k] # "done" BY DEF Live
<1>3. \A j \in Tasks : wpc[j] = "done" => ~(j > reloads) /\ j # k BY <1>2 DEF IInv, Ownership
<1>4. \A j \in Tasks : wpc[j] = "done" => j < k BY <1>1, <1>3 DEF Tasks
<1>5. \A j \in reported : j \in Tasks /\ wpc[j] = "done" BY DEF IInv, TypeOK, Ordering
<1> QED BY <1>1, <1>4, <1>5

\* What a step that touches neither loads nor overlay has to keep.
LEMMA OverlayUntouched ==
    ASSUME OverlayInv, UNCHANGED <<task, overlay, gui, after, reloads, reported, abandoned>>,
           QueueMovesOn'
    PROVE  OverlayInv'
BY DEF OverlayInv, EndsAreKnown, OverlayMovesOn, Displaced

\* Posting an event of a running load.
LEMMA OverlayPost ==
    ASSUME IInv, QueueMovesOn, NEW k \in Tasks, Live(k), NEW e \in Events, e.task = k, Post(e),
           UNCHANGED <<reloads, reported>>
    PROVE  QueueMovesOn'
<1>1. queue \in Seq(Events) BY DEF IInv, TypeOK
<1>2. /\ DOMAIN queue' = 1 .. Len(queue) + 1 /\ DOMAIN queue = 1 .. Len(queue)
      /\ Len(queue) \in Nat /\ queue'[Len(queue) + 1] = e
      /\ \A i \in 1 .. Len(queue) : queue'[i] = queue[i]
  BY <1>1, AppendFacts DEF Post
<1>3. k = reloads /\ k <= reloads BY OlderThanLive DEF Tasks
<1>4. \A i \in DOMAIN queue : IsResult(queue[i]) => queue[i].task < k
  <2> SUFFICES ASSUME NEW i \in DOMAIN queue, IsResult(queue[i]) PROVE queue[i].task < k
    OBVIOUS
  <2>1. wpc[queue[i].task] = "done" BY DEF IInv, Ordering
  <2>2. queue[i].task \in Tasks BY <1>1 DEF Events
  <2> QED BY <2>1, <2>2, OlderThanLive
<1>5. ASSUME NEW i \in DOMAIN queue'
      PROVE  /\ queue'[i].task <= reloads
             /\ \A j \in reported : j < queue'[i].task
             /\ \A j \in DOMAIN queue' :
                   IsResult(queue'[i]) /\ i < j => queue'[i].task < queue'[j].task
  <2>1. CASE i = Len(queue) + 1
    <3>1. queue'[i] = e /\ \A j \in DOMAIN queue' : ~(i < j) BY <1>2, <2>1
    <3> QED BY <1>3, <3>1, OlderThanLive
  <2>2. CASE i \in 1 .. Len(queue)
    <3>1. queue'[i] = queue[i] /\ i \in DOMAIN queue BY <1>2, <2>2
    <3>2. ASSUME NEW j \in DOMAIN queue', IsResult(queue'[i]), i < j
          PROVE  queue'[i].task < queue'[j].task
      <4>1. CASE j = Len(queue) + 1
        <5>1. queue'[j].task = k BY <1>2, <4>1
        <5> QED BY <1>4, <3>1, <3>2, <5>1
      <4>2. CASE j \in 1 .. Len(queue)
        <5>1. queue'[j] = queue[j] /\ j \in DOMAIN queue BY <1>2, <4>2
        <5> QED BY <3>1, <3>2, <5>1 DEF QueueMovesOn
      <4> QED BY <1>2, <4>1, <4>2
    <3> QED BY <3>1, <3>2 DEF QueueMovesOn
  <2> QED BY <1>2, <2>1, <2>2
<1> QED BY <1>5 DEF QueueMovesOn, IsResult

LEMMA OverlayWorker ==
    ASSUME IInv, OverlayInv, NEW k \in Tasks, Worker(k)
    PROVE  OverlayInv'
<1>1. UNCHANGED <<task, overlay, gui, after, reloads, reported, abandoned>> /\ Live(k)
  BY WorkerMoves DEF Moves, GuiSide, window, history
<1>2. queue' = queue => QueueMovesOn' BY <1>1 DEF OverlayInv, QueueMovesOn, IsResult
<1>3. ASSUME NEW e \in Events, e.task = k, Post(e) PROVE QueueMovesOn'
  BY <1>1, <1>3, OverlayPost DEF OverlayInv
<1>4. QueueMovesOn'
  <2>1. CASE Start(k) \/ List(k) \/ Recheck(k) \/ Gate(k)
    BY <1>2, <2>1 DEF Start, List, Recheck, Gate
  <2>2. CASE Announce(k)
    <3> DEFINE e == [kind |-> "progress", task |-> k, what |-> 10]
    <3>1. e \in Events /\ e.task = k BY DEF Events
    <3> QED BY <1>3, <2>2, <3>1 DEF Announce
  <2>3. CASE Conclude(k)
    <3> DEFINE e == [kind |-> "progress", task |-> k, what |-> 100]
    <3>1. e \in Events /\ e.task = k BY DEF Events
    <3> QED BY <1>2, <1>3, <2>3, <3>1 DEF Conclude
  <2>4. CASE PostResult(k)
    <3> DEFINE e == [kind |-> "result", task |-> k, what |-> result[k]]
    <3>1. e \in Events /\ e.task = k BY <2>4 DEF Events, IInv, Answers, PostResult, Goto
    <3> QED BY <1>3, <2>4, <3>1 DEF PostResult
  <2> QED BY <2>1, <2>2, <2>3, <2>4 DEF Worker
<1> QED BY <1>1, <1>4, OverlayUntouched

\* A handler that gives the load up, if there is one.
LEMMA OverlayGiveUp ==
    ASSUME IInv, OverlayInv, gui = "idle", NEW rest, ResetTask(rest), Abandon,
           UNCHANGED <<queue, reloads, window, reported>>
    PROVE  OverlayInv'
<1>1. /\ abandoned \subseteq abandoned' /\ (task # NoTask => task \in abandoned')
      /\ reported' = reported /\ reloads' = reloads /\ overlay' = overlay /\ queue' = queue
  BY DEF Abandon, window
<1>2. QueueMovesOn' BY <1>1 DEF OverlayInv, QueueMovesOn, IsResult
<1>3. EndsAreKnown'
  <2>1. \A k \in Tasks : k # NoTask BY DEF Tasks, NoTask
  <2>2. \A k : Displaced(k) => Displaced(k)' BY <1>1 DEF Displaced
  <2> QED BY <1>1, <2>1, <2>2 DEF OverlayInv, EndsAreKnown
<1>4. OverlayMovesOn' BY <1>1 DEF OverlayInv, OverlayMovesOn
<1> QED BY <1>2, <1>3, <1>4 DEF OverlayInv

\* An event is delivered: what is behind it is as new as it, or newer.
LEMMA OverlayDeliver == ASSUME IInv, OverlayInv, Deliver PROVE OverlayInv'
<1> DEFINE e == Head(queue)
<1>1. queue \in Seq(Events) /\ queue # <<>> /\ gui = "idle" /\ queue' = Tail(queue)
  BY DEF IInv, TypeOK, Deliver
<1>2. /\ e = queue[1] /\ 1 \in DOMAIN queue /\ e \in Events
      /\ \A i \in DOMAIN queue' :
            i + 1 \in DOMAIN queue /\ i \in Nat /\ i >= 1 /\ queue'[i] = queue[i + 1]
  BY <1>1, TailFacts
<1>3. e.task \in Tasks /\ e.task <= reloads /\ \A k \in reported : k < e.task
  BY <1>2 DEF OverlayInv, QueueMovesOn, Events
<1>4. reloads' = reloads /\ abandoned' = abandoned
  BY DEF Deliver, ShowProgress, FinishLoad, history
<1>5. ASSUME NEW i \in DOMAIN queue'
      PROVE  /\ queue'[i].task <= reloads
             /\ \A k \in reported : k < queue'[i].task
             /\ \A j \in DOMAIN queue' :
                   IsResult(queue'[i]) /\ i < j => queue'[i].task < queue'[j].task
             /\ IsResult(e) => e.task < queue'[i].task
  <2>1. i + 1 \in DOMAIN queue /\ queue'[i] = queue[i + 1] /\ 1 < i + 1 BY <1>2
  <2>2. ASSUME NEW j \in DOMAIN queue', IsResult(queue'[i]), i < j
        PROVE  queue'[i].task < queue'[j].task
    <3>1. j + 1 \in DOMAIN queue /\ queue'[j] = queue[j + 1] /\ i + 1 < j + 1
      BY <1>2, <2>2
    <3> QED BY <2>1, <2>2, <3>1 DEF OverlayInv, QueueMovesOn
  <2> QED BY <1>2, <2>1, <2>2 DEF OverlayInv, QueueMovesOn
<1>6. CASE ShowProgress
  <2>1. /\ UNCHANGED <<task, gui, after, reported>>
        /\ overlay' = [of |-> e.task, percent |-> e.what]
    BY <1>6 DEF ShowProgress, history
  <2>2. overlay'.of = e.task BY <2>1
  <2>3. QueueMovesOn' BY <1>4, <1>5, <2>1 DEF QueueMovesOn, IsResult
  <2>4. EndsAreKnown' BY <1>4, <2>1 DEF OverlayInv, EndsAreKnown, Displaced
  <2>5. OverlayMovesOn' BY <1>3, <1>4, <2>1, <2>2 DEF OverlayMovesOn
  <2> QED BY <2>3, <2>4, <2>5 DEF OverlayInv
<1>7. CASE FinishLoad
  <2>1. /\ IsResult(e) /\ task' = NoTask /\ gui' = "joining" /\ overlay' = overlay
        /\ after' \in {"completed", "failed"} /\ reported' = reported \union {e.task}
    BY <1>7 DEF FinishLoad, ResetTask
  <2>2. QueueMovesOn' BY <1>4, <1>5, <2>1 DEF QueueMovesOn, IsResult
  <2>3. OverlayMovesOn' BY <1>4, <2>1 DEF OverlayInv, OverlayMovesOn
  <2>4. \A k : Displaced(k) => Displaced(k)' BY <1>4, <2>1 DEF Displaced
  <2>5. ASSUME NEW t \in Tasks, t = task, t # e.task PROVE Displaced(t)'
    <3>1. t = reloads /\ t \in Nat /\ e.task < t
      BY <1>3, <2>5 DEF IInv, Ownership, TypeOK, Tasks, NoTask
    <3>2. e.task \notin reported BY <1>3 DEF Tasks
    <3>3. e.task \in abandoned \/ Displaced(e.task)
      BY <1>3, <2>5, <3>2 DEF OverlayInv, EndsAreKnown
    <3>4. CASE e.task \in abandoned BY <1>4, <2>1, <3>1, <3>4 DEF Displaced
    <3>5. CASE Displaced(e.task)
      <4>1. PICK j \in reported \intersect abandoned : j < e.task BY <3>5 DEF Displaced
      <4>2. j \in Tasks BY <4>1 DEF IInv, TypeOK
      <4>3. j < t BY <1>3, <3>1, <4>1, <4>2 DEF Tasks
      <4> QED BY <1>4, <2>1, <4>1, <4>3 DEF Displaced
    <3> QED BY <3>3, <3>4, <3>5
  <2>6. EndsAreKnown'
    <3> SUFFICES ASSUME NEW k \in Tasks, k <= reloads, k \notin reported', k \notin abandoned
                 PROVE  Displaced(k)'
      BY <1>4 DEF EndsAreKnown
    <3>1. k \notin reported /\ k # e.task BY <2>1
    <3>2. k = task \/ Displaced(k) BY <3>1 DEF OverlayInv, EndsAreKnown
    <3>3. CASE k = task BY <2>5, <3>1, <3>3
    <3>4. CASE Displaced(k) BY <2>4, <3>4
    <3> QED BY <3>2, <3>3, <3>4
  <2> QED BY <2>2, <2>3, <2>6 DEF OverlayInv
<1> QED BY <1>6, <1>7 DEF Deliver

LEMMA OverlayJoinDone == ASSUME IInv, OverlayInv, JoinDone PROVE OverlayInv'
<1>1. gui = "joining" /\ UNCHANGED <<after, reported, abandoned>> /\ task = NoTask
  BY DEF JoinDone, history, IInv, Ownership
<1>2. reloads \in Nat BY DEF IInv, TypeOK
<1>3. \A k : Displaced(k)' <=> Displaced(k) BY <1>1 DEF Displaced
<1>4. \A k \in Tasks : k \in Nat /\ k # NoTask BY DEF Tasks, NoTask
<1>5. \A i \in DOMAIN queue : queue[i].task \in Tasks BY DEF IInv, TypeOK, Events
<1>6. CASE StartTask
  <2>1. /\ task' = reloads + 1 /\ reloads' = reloads + 1 /\ gui' = "idle"
        /\ queue' = queue /\ overlay' = overlay /\ after = "reload"
    BY <1>6 DEF StartTask
  <2>2. \A k \in Nat : k <= reloads => k <= reloads' BY <1>2, <2>1
  <2>3. QueueMovesOn'
    BY <1>1, <1>4, <1>5, <2>1, <2>2 DEF OverlayInv, QueueMovesOn, IsResult
  <2>4. EndsAreKnown'
    <3>1. \A k \in Tasks : k <= reloads' => k <= reloads \/ k = task'
      BY <1>2, <1>4, <2>1
    <3> QED BY <1>1, <1>3, <1>4, <3>1 DEF OverlayInv, EndsAreKnown
  <2>5. OverlayMovesOn' BY <1>1, <1>4, <2>1, <2>2 DEF OverlayInv, OverlayMovesOn
  <2> QED BY <2>3, <2>4, <2>5 DEF OverlayInv
<1>7. CASE EndCancel \/ Finished
  <2>1. overlay' = Hidden /\ UNCHANGED <<task, reloads, queue>>
    BY <1>7 DEF EndCancel, Finished
  <2>2. QueueMovesOn' BY <1>1, <2>1 DEF OverlayInv, QueueMovesOn, IsResult
  <2>3. EndsAreKnown' BY <1>1, <1>3, <2>1 DEF OverlayInv, EndsAreKnown
  <2> QED BY <2>1, <2>2, <2>3 DEF OverlayInv, OverlayMovesOn
<1>8. CASE Destroy
  <2>1. gui' = "closed" /\ queue' = <<>> /\ UNCHANGED <<task, reloads, overlay>>
    BY <1>8 DEF Destroy
  <2>2. QueueMovesOn' BY <2>1 DEF QueueMovesOn
  <2>3. EndsAreKnown' BY <1>1, <1>3, <2>1 DEF OverlayInv, EndsAreKnown
  <2>4. OverlayMovesOn' BY <2>1 DEF OverlayInv, OverlayMovesOn
  <2> QED BY <2>2, <2>3, <2>4 DEF OverlayInv
<1> QED BY <1>6, <1>7, <1>8 DEF JoinDone

LEMMA StepOverlay ==
    ASSUME IInv, OverlayInv, [Next]_vars
    PROVE  OverlayInv'
<1>1. ASSUME NEW k \in Tasks, Worker(k) PROVE OverlayInv' BY <1>1, OverlayWorker
<1>2. CASE Reload \/ CancelClick \/ Quit
  BY <1>2, OverlayGiveUp DEF Reload, CancelClick, Quit
<1>3. CASE Deliver BY <1>3, OverlayDeliver
<1>4. CASE JoinDone BY <1>4, OverlayJoinDone
<1>5. CASE DismissDialog \/ UNCHANGED vars
  <2>1. UNCHANGED <<queue, task, overlay, gui, after, reloads, reported, abandoned>>
    BY <1>5 DEF DismissDialog, vars, worker, window, history
  <2>2. QueueMovesOn' BY <2>1 DEF OverlayInv, QueueMovesOn, IsResult
  <2> QED BY <2>1, <2>2, OverlayUntouched
<1> QED BY <1>1, <1>2, <1>3, <1>4, <1>5 DEF Next, Terminated

\* An overlay that is not of the load the model owns is of a load given up or
\* displaced, and never of one that has reported or of an older one, for any
\* number of reloads.
THEOREM OverlaysStandForLoads == Spec => []OverlayStandsForLoad
<1>1. Init => OverlayInv
  <2> SUFFICES ASSUME Init PROVE OverlayInv OBVIOUS
  <2>1. QueueMovesOn /\ OverlayMovesOn BY DEF Init, QueueMovesOn, OverlayMovesOn
  <2>2. EndsAreKnown BY DEF Init, EndsAreKnown, Tasks
  <2> QED BY <2>1, <2>2 DEF OverlayInv
<1>2. IInv /\ OverlayInv /\ [Next]_vars => OverlayInv'
  BY StepOverlay
<1>3. IInv /\ OverlayInv => OverlayStandsForLoad
  <2> SUFFICES ASSUME IInv, OverlayInv, gui = "idle", overlay # Hidden
               PROVE  /\ \/ overlay.of = task \/ overlay.of \in abandoned
                         \/ Displaced(overlay.of)
                      /\ \A k \in reported : k < overlay.of
    BY DEF OverlayStandsForLoad
  <2>1. /\ overlay.of \in Tasks /\ overlay.of <= reloads
        /\ \A k \in reported : k < overlay.of
    BY DEF OverlayInv, OverlayMovesOn
  <2>2. overlay.of \notin reported BY <2>1 DEF Tasks
  <2> QED BY <2>1, <2>2 DEF OverlayInv, EndsAreKnown
<1> QED BY <1>1, <1>2, <1>3, Invariance, PTL DEF Spec
=============================================================================
