# Verification of Fast Mod Manager

TLA+ models of the parts of Fast Mod Manager in which something can go wrong
that a unit test hardly reaches, the TLC runs that check them on small
instances, and theorems about them proved with TLAPS for all instances.
Sources are named relative to the root of the repository's `src/` tree.

## The system

The program is a Qt application over a domain library. What runs today is the
list of installed packages: `main` puts a JSON catalog and an inventory service
into a registry, the model loads the list on a worker thread, the window shows
it. Planning what a game directory will look like (dependency graph, ownership,
conflicts, namespace), profiles, staging and archive reading are libraries that
are tested and not yet wired to the window, and so is the client of the Rust
core.

| part | state | operations | interacts with |
|---|---|---|---|
| `ui/AsyncTask.hpp` | a `jthread` and its stop token | start, cancel, destructor (stop and join) | posts callbacks to the model's event queue |
| `ui/InventoryModel.cpp` | `m_load_task`, `m_mods` | `reload`, `cancelReload`, callbacks | owns the task; emits progress, completed, failed |
| `ui/MainWindow.cpp` | overlay, message boxes | handlers of the three signals, Cancel | reloads once, on start (`InventoryWidget`) |
| `application/CatalogInventoryService.hpp` | none | `getInventory` | worker thread; lists the catalog |
| `infrastructure/JsonPackageCatalog.cpp` | the file, a mutex per object | `get list add remove contains` | file system; other objects and programs on the same file |
| `domain/PackageDependencyGraph.cpp` | none (a pure function) | `create` | its order ranks the ownership graph |
| `domain/PackageRootMapping.hpp`, `FileOwnershipGraph.cpp`, `ConflictResolution.cpp`, `CompiledNamespace.cpp` | none | `map`, `create`, `compile`, `mapSources` | a pipeline: each takes the result of the one before |
| `infrastructure/JsonProfilePersistence.cpp` | two files per profile | load and save of metadata and state | file system |
| `infrastructure/StagingRepositoryImpl.cpp` | the staging directory | `stagePackage` | file system |
| `infrastructure/LibArchiveReader.cpp`, `core/PathNormalizer.cpp` | a tree under construction | `readTree` | libarchive |
| `infrastructure/GameFsClient.hpp`, `rust/fmm-core` | a handle | create, move, destroy, `applyPlan` | the Rust library, which only checks its arguments |
| `GameCatalogImpl`, `ActiveGameSelectionImpl`, `ServiceRegistry`, `ProfileIdentity` | small containers | register, look up, set | one thread, start-up |

What is hard, and what would make each part correct:

* **Inventory loading.** Two threads, a stop flag that is read at three places,
  an event queue that keeps results after their load was cancelled, a join on
  the GUI thread. Correct: no thread and no callback without an owner, no
  callback twice, never back to an older list, no hang, the end of every scan
  told to the window.
* **Catalog.** Threads on one object, objects that know nothing of each other,
  I/O errors, crashes, files from elsewhere, conversions that lose bytes.
  Correct: an atomic set of packages, whole or untouched whatever happens.
* **Dependency graph.** Sequential; hard because its correctness is a graph
  argument: `resolveOrder` never checks that it placed everything.
* **Planning pipeline.** Sequential; each stage relies on what the one before
  found, and all of them on the byte-wise order of paths. Correct: every
  obstruction is found, planning stops for a conflict and for nothing else, the
  strongest claim wins every path, the result is a tree.
* **Profiles.** Files written in place, through a buffer, by anybody, with
  crashes and errors that nobody looks at. Correct: what is loaded was saved,
  and what was saved can be loaded.
* **Staging.** Read errors that look like the end of the file, a last write
  whose failure is ignored, a source that changes after it was checked.
  Correct: a success is a copy of the source from its beginning, whole unless a
  read failed, and then its last progress tells; the checksum is that of the copy;
  a failure leaves nothing; every call returns.
* **Archives.** Paths from elsewhere, in any order. Correct: a path that leads
  out is refused and no other, and what the tree says follows from the entries.
* **GameFs client.** A pointer that moves. Correct: one owner, freed once.

## Modules

| module | what it is |
|---|---|
| `InventoryLoad` | worker threads, model, event queue and window |
| `InventoryFeed` | abstract: a list that only moves to newer loads |
| `MCInventoryLoad` | its instances |
| `InventoryLoadProofs` | theorems about `InventoryLoad` |
| `PackageGraph` | `PackageDependencyGraph::create`, one loop iteration per step |
| `MCPackageGraph` | its inputs |
| `PackageGraphProofs` | theorems about `PackageGraph` |
| `PackageCatalog` | the JSON catalog with its mutex, file, errors and crashes |
| `CatalogStore` | abstract: an atomic set of packages with distinct ids |
| `PackageCatalogProofs` | theorems about `PackageCatalog` |
| `MCPackageCatalog` | its instances |
| `GamePaths` | paths as byte strings, their order, their ancestors |
| `FileOwnership` | claims, nodes, collisions, obstructions |
| `ConflictResolution` | priorities, the decision on a path, diagnostics |
| `CompiledNamespace` | entries, synthetic directories, sources |
| `PackagePlans` | plans of packages, their root mappings, the claims made from them |
| `GamePlan` | the calls on each other's results, one loop iteration per step |
| `MCGamePlan` | its inputs |
| `GamePlanProofs` | lemmas about names, the byte-wise order, sorting and the range search; theorems about `GamePlan` |
| `ProfileFiles` | the two JSON files of a profile, written in place |
| `MCProfileFiles` | its instances |
| `ProfileFilesProofs` | theorems about `ProfileFiles` |
| `StagingCopy` | `stagePackage`: the checks, the copy loop, the clean-up |
| `MCStagingCopy` | its instance |
| `StagingCopyProofs` | theorems about `StagingCopy` |
| `ArchiveTree` | `readTree` with the path normaliser and the tree, `detectFormat` |
| `MCArchiveTree` | its archives |
| `ArchiveTreeProofs` | theorems about `ArchiveTree` |
| `GameFsClient` | the client's special members, `applyPlan`, the three functions in Rust |
| `GameFsClientProofs` | theorems about `GameFsClient` |

A definition marked "a mutated form" is not part of a specification: it is a
bug that could have been made in the operation it stands before, and is there to
show which property notices it.

### InventoryLoad

Each load `k` has a worker whose `wpc[k]` walks through `getInventory` (`Start`,
`Announce`, `List`, `Recheck`, `Conclude`) and then through AsyncTask (`Gate`
reads the token, `PostResult` posts). The GUI thread runs handlers. A handler
that drops `m_load_task` blocks in `~jthread`, so it is two steps: one that
requests the stop and sets `gui = "joining"`, and `JoinDone`, which runs once
that worker is done and holds the rest of the handler (`StartTask`,
`EndCancel`, `Finished`, `Destroy`). `Deliver` takes the oldest event: progress
(`ShowProgress`) or one of the callbacks (`FinishLoad`, which resets whatever
task the model owns *now*). `stopped` holds the stop flags; `reported`,
`silenced`, `abandoned` and `notified` are history for the properties.

The list of packages is the number of the load it came from; messages are
reduced to percentages; `list()` answers `ok`, any error of the port, or throws.
`overlay` is the percentage that the overlay shows, and of which load: the
window does not look at whose progress it is told, so that an overlay can come
late. `OverlayStandsForLoad` says how late: an overlay that is not of the load
the model owns is of one that was given up, or of one that was displaced (dropped
for the callback of an older load that had been given up), and no progress brings
it back for a load that has reported, or for an older one.
A "Scan Failed" box runs an event loop of its own, so events are delivered
while it is open but the window below is out of reach. The window is destroyed
before the model, as members of Bootstrapper; when the event loop has ended
nothing is delivered, so Quit goes straight to `~InventoryModel`. The message
boxes of the prerequisite check are not modelled.

### PackageGraph

`pc` says which of the five loops runs: index, dependencies, constraints,
search, order. A node is a position in the list of enabled packages. `path` and
`todo` are the stack of `findCycle` (the nodes, and per node the children its
frame has yet to look at: adjacency lists are sorted before the search, so the
next child is the smallest); `StartSearch` is one iteration of its outer loop,
which looks at every position once and passes over the nodes reached before.
`ready` and `resolved` the state of
`resolveOrder`. `indegrees` is shared by building and ordering, as in the code,
which hands its vector over.

### PackageCatalog

A call goes `called`, `locked`, `found` (the file exists), `saving`, `written`
(the temporary file), `done`; its answer is set in the step that decides it and
the mutex is released by `Return`, which is the destructor of the lock. Each
step that touches the file may fail instead. Creating the directory, opening
the temporary file and writing it are one step (`WriteTemporary`): nobody else
looks at that file, and all three fail in the same way. `Commit` is the rename.
`Crash` ends the calls of all threads of an object and frees its mutex; it
leaves the file as it is. A left-over temporary file has a random name and is
never read, so it is not part of the state. A loss of power after which the
file system forgets a rename is not modelled.

Texts are abstract values with a function `AsText` that says what is left of
one when it has been a `QString`; paths are sequences of bytes and are really
encoded to and decoded from hex digits. `AsStored` is what a package is after
that, stated without the conversions: the same path, and texts as QStrings. The
JSON itself is reduced to what
`load` distinguishes: no file, something that is not such a document, the
schema number (counted in halves, so that 1.5 exists), and entries whose fields
may be missing, empty or not hex.

### GamePlan

`GamePlan` maps plans to claims and calls `FileOwnershipGraph::create`,
`ConflictResolutionReport::create`, `NamespaceCompilationResult::compile` and
`CompiledNamespace::mapSources` one after the other; `pc` is the loop that runs,
`cursor` its position, and the other variables are the members of the objects
built so far. What one iteration does is an operator of the module of that
stage. `path` and `source` of a claim
are byte strings with their real order: much here depends on what sorts before
a slash. `std::stable_sort` is the choice of a sorted permutation, of which there
is one. An optional is a set with one element at most. Entries, diagnostics and
obstructions are sets: the code keeps them in the order of their paths, of
which each has one. The explanations of the compiler are members of the
entries they explain, and their kind follows from the origin.

Claims come from two places. `MapPlan` makes them from plans of packages as
`mapClaims` of `tests/integration/namespace_planning_test.cpp` does, which is the
only caller of `PackageRootMapping::map` so far: every entry must lie under
exactly one root. As nothing binds the application to that function, claims can
also be given directly, and are then arbitrary: any path, any kind, repeated
ones too, of packages that may not be enabled. The order of the packages has
each of them once (`PlanAssumption`); that `PackageGraph` makes no other is
`OrdersArePermutations`. The priorities and the snapshot are arbitrary lists.

### ProfileFiles

A call goes `called`, `found`, `reading` (a load) or `called`, `made`, `opened`,
`buffered` (a save). `OpenToWrite` empties the file. `Write` of a document that
fits into the buffer of a QFile does nothing to the file and `Flush`, the
destructor, puts it there; a longer document goes to the file at once, whole or
in part. Bytes go over what is there from the beginning, so that of two callers
with the file open the shorter document can leave a tail of the longer one
(`Over`). Every step of I/O can fail and every caller can crash. What a file
holds is reduced to what the loads tell apart: missing, empty, damaged, or a
document with a version (in halves), with a text or without. `AsText` is as in
`PackageCatalog`. `asked`, `undisturbed` and `kept` are history. That
`open(WriteOnly)` empties before anything is written, and that the bytes of one
`write` are not mixed with those of another, is taken from QFile.

### StagingCopy

One action per check, then `MakeDirectory`, `OpenCopy`, the loop of `Read` and
`Write`, and `Close`. Files are sequences of buffers of `BUFFER_SIZE`, of which
only the last can be short (a member of `Tails`), which is what the QFile of the
copy holds back until it is closed. `copied` is what was read and hashed,
`staged` what is in the file. The digest is the content it belongs to. The
source can be rewritten, removed or put back at any moment (`SourceChanges`).
`trouble` tells for each call what went wrong unseen: a source that changed, a
read error, a last write lost in `close`, a directory that could not be removed. A
property exempts only the one that bears on it: after a read error a success
still has the beginning of the source, and says so with a last progress
below the size; the checksum describes the copy even if the source changed.
Not modelled: names that are not UTF-8 (the open fails), and a progress callback
that throws.

### ArchiveTree

What libarchive gives is the input: whether the file opens, and a list of
headers with a path or without. `normalizeArchiveEntry` works on characters.
The tree is the set of its nodes with their paths, which loses only the order of
children. `handle` says whether the `struct archive` was freed. `isalpha` of a
byte beyond 127, whose value depends on the locale, is left out.

### GameFsClient

A client is not alive, or alive with a context or with a null handle. A context
stands for one call of `fmm_context_create`: the contexts of the Rust core have no
contents (a boxed unit), so nothing can tell two of them apart but who made
them. `HandedOver` is what the client passes to the core; `misuses` collects
contexts passed after they were freed. Of a plan only the number of its files
matters: the core checks pointers and reads texts, and a text that is not UTF-8
is read as the empty one.

## Runs

| run | instance | question |
|---|---|---|
| `load` | 3 reloads at any moment, 2 errors, fair | ownership, silence after a stop, whose progress the overlay shows, the list never goes back (refinement of `InventoryFeed`), joins return, the window is told, every load answers unless given up or displaced |
| `cancel_silent` | 1 reload | *violated*: a cancelled load still runs its callback |
| `graph` | up to 3 of 2 ids and an unknown one, 2 dependencies, 1 constraint; all dependency graphs on 4 packages, 1 constraint; fair | which fault is reported; repeated edges lose no package; orders obey and are least, cycles are real, `create` returns |
| `catalog_store` | 1 object, 2 threads, 4 packages (two with one id, one invalid), 12 files | refinement of `CatalogStore`; damaged files stay |
| `catalog_shared` | 2 objects, 3 packages (two with one id, one of them with texts that are not UTF-8) | what survives without mutual exclusion, and what a success has put into the file |
| `catalog_twins` | 1 thread, ids that are not UTF-8 | *violated*: see below |
| `plan` | four families: (a) all sets of up to 4 of 16 claims of one package, in two orders; (b) lists of up to 3 claims of 2 packages (3 kinds, 2 paths, repetitions), one not enabled, under 8 lists of priorities; (c) 4 lists of claims with up to 2 plans of up to 2 entries, under right and wrong ids; (d) one plan with up to 2 entries and 2 of 5 roots, two plans under roots that lead to one place | (a) obstructions are complete, the namespace is a tree; (b) planning is blocked by incomplete priorities and conflicts only, the strongest claim wins; (c) where the contents come from; (d) where entries go, and that their sources are found |
| `profile` | 2 callers, 2 files, 8 requests, 11 contents of a file at first | what a load can give, what a save is worth |
| `profile_state` | 1 file, 2 requests | *violated*: see below |
| `staging` | 1 call, 5 sources, 2 limits, fair | what a success, the checksum and the staging root are worth |
| `archive` | all paths of up to 5 of 5 characters; up to 3 of 12 entries on nested paths; up to 3 of 5 entries that end the call or are skipped | which paths are refused, what the tree says, that the archive is freed |
| `client` | 3 clients, 3 contexts, up to 2 files | one owner, freed once, plans reach owners |

Bounds. `MaxReloads` bounds the reloads: with three there is a load that
reported, one that is being joined and one that is new, and with two every race
between an old and a new load exists. Four packages have every kind of cycle
with a tail and a chord; three positions with two ids have every way of
repeating one. Two threads are enough for a lost update and two objects for
writes based on old reads; crashes and errors are not bounded. Four claims are
enough for a path, two paths below it and one that sorts between them; the paths
of family (a) are the root, `a`, `a-`, `a/b`, `a-/b`, `a/b/a`, `/a` and `a/`. Three
claims are enough for a winner and a weaker claim that is repeated. The loops of
`create` end on their own and the catalog has no counters. Two callers are enough
for a profile file that is opened while it is written, and a third client is
enough to move a handle on. A staging call shares nothing with another one but
the source, which changes at any moment anyway, so one call stands for many;
two buffers are enough for a loop that goes round, stops in the middle, and ends
with a full buffer or a tail. Three entries are enough for a file, a child of it
and the same path again; five characters for `a/../` and `a/..` with separators of
both kinds.

Fairness. Threads that are started run, the event loop goes on delivering, a
join returns when its thread has ended, a staging call that runs goes on, and so
do the loops of `create`. The user owes nothing: no reload, no Cancel and no
Quit is ever required. Of the catalog no liveness is claimed: its calls are
sequences of steps without a loop, the mutex is released by a destructor, and
`std::mutex` promises no order among waiters.

### What the violated runs show

* `cancel_silent`: AsyncTask reads the token and then posts. If Cancel comes in
  between, or while the result is queued, the callback runs all the same: the
  list is filled and `scanCompleted` is emitted after the user cancelled.
  `tests/unit/async_task_test.cpp:70` is called "Cancellation stops execution
  and does not trigger callbacks".
* `catalog_twins`: bytes that are not UTF-8 become U+FFFD in the file (of ids,
  names, versions, sources and references; paths are kept), so that two ids can
  become the same one. `add` compares the new id before the conversion with the
  old ones after it, accepts the second, and writes a file with a duplicate,
  which every later call refuses.
  `tests/unit/json_package_catalog_test.cpp:95`: "JsonPackageCatalog rejects
  duplicate package IDs".
* `profile_state`: of a `ProfileState` only the game is written; the enabled
  packages and the load order are gone after a save and a load that both
  succeed. `tests/unit/json_profile_persistence_test.cpp:77`: "Saving and loading
  state successfully preserves state"; the test sets only the game.

Seen while modelling, without a statement in the repository to hold it against:
a late callback of a cancelled load resets a *newer* task (only with more than
one reload, which the window never asks for); queued progress shows the overlay
again after Cancel; the `Cancelled` branch of the model's callback is never
reached (`StoppedLoadsStaySilent`); two programs can lose each other's catalog
updates; a package whose id is not UTF-8 is added with success under another
id; metadata with the default version 0 is saved with success and refused by
every load; profiles with one name and different parents have the same files; a
crash while a profile is saved loses the old contents with the new; a staged copy
after a read error is a success with the checksum of the truncated contents; a
source can outgrow the limit between the check and the copy; a file of an archive
that comes before its own children stays a file with children; the format of an
archive whose first header carries a warning is not detected.

## Proofs

Assumed are only the named assumptions of the modules: a number of reloads that
is a natural number and errors that are the port's (`InventoryLoad`), inputs
that are lists of the right types (`PackageGraph`, `GamePlan`; of the latter also that
the order has each package once and that claims are given or mapped, not both),
for the catalog that every thread has an object, texts stay texts and packages
are packages, for profiles that texts stay texts, requests are of their types
and metadata have a version and a text, for staging that the sources are
buffers of which only the last can be short, and for the client that a null
handle is no context. Type correctness is proved of every one of these modules;
where a run checks it, it is as an invariant that something else can break.

**InventoryLoadProofs.** `IInv` strengthens `TypeOK`, `WorkerIsOwned` and the
other invariants by what ties them together: loads beyond `reloads` have not
started; a worker that passed the gate was not stopped before; a load whose
worker has not posted yet has no result in the queue; results are queued oldest
first and only when nothing newer has been shown. One lemma per action. From it
follow type correctness, the safety invariants of `load`, and that every step of
`InventoryLoad` is a step of `InventoryFeed` or a stutter (`FeedRefinement`). The
overlay needs an invariant of its own, `OverlayInv`: what is queued is of loads
newer than all that have reported, and behind a callback there is nothing but
events of newer loads (`QueueMovesOn`), so no progress of a load follows its
callback; every load that was started is the one the model owns or its end is
known (`EndsAreKnown`); and the overlay is newer than all that have reported
unless it is about to be hidden (`OverlayMovesOn`).

**PackageGraphProofs.** `IInv` has one conjunct per data structure: `Indexed`
(ids and nodes), `EdgesAreRequired`, `Counted` (an indegree is the number of
unplaced predecessors), `Stacked` (the stack is a path, finished nodes point to
finished nodes), `Placed` and `Rooted`. That no package is lost would seem to
need an induction over the graph. It does not: the search finishes a node only
after everything it points to, so it keeps `Rooted`, every non-empty set of
finished nodes has a member that no other member points to. When `ready` runs
empty, all nodes are finished, and if some were not placed they would have such
a member; its predecessors are all placed, so its indegree is 0, so it is
ready. From `IInv` follow that cycles are real, orders obey the arguments, and
orders are permutations of the enabled packages, for lists of any length. That
the search leaves no node out when its outer loop ends is `Reached`: all nodes
before the position of the loop have been visited.

`FaultInv` says of the three loops over the arguments that every fault of them
is still ahead: what was passed over had none, since an id is indexed by a
package that was read before. So the fault that stops `create` is the first one
(`FirstFaultsAreReported`). `LeastInv` compares the order so far with every
order that obeys the edges: either the other one begins with it, or the order so
far has the smaller node where they first differ. The other order is an injection
of the nodes into themselves, so it is onto: the predecessors of its next node
all have a place in it, an earlier one, and are placed in the order so far. So
that node is in `ready`, and the loop takes the least of `ready`
(`OrdersAreLeast`).

**PackageCatalogProofs.** `PathsSurvive`: decoding what was encoded gives the
bytes back, for every path. `IInv` says that a call past `Lock` holds the mutex
of its object, and that the list it is about to save is valid and has what the
call asked for. With `CommitOnly` (the file changes, and an add or a remove
succeeds, in `Commit` and nowhere else) it gives `ChangesOnlyWithSuccess` for any
number of threads and objects, and `StaysLoadable` and `SuccessIsInFile` under
the premise `TextsSurvive`, that every text is the same after it has been a
`QString`; `catalog_twins` shows what fails without it.
Under `OneObject` the mutex gives more: `Current`, a list about to be saved is
an update of what the file holds now. From it follow `DamageIsKept` and, with
`TextsSurvive` and a file that begins with packages the store knows
(`KnownFiles`), that the catalog implements `CatalogStore`: a call takes effect
where it answers, which for an add or a remove is `Commit`, and every other
step is a stutter. With two objects `Current` is false, and so would be the
refinement.

**GamePlanProofs.** The order of paths
is irreflexive and transitive, and the paths that begin with a prefix are an
interval of it (`PrefixesAreIntervals`); so in a list of nodes in that order the
search from the lower bound on finds all that lie below a path, and nothing
else (`DescendantsAreAll`, `DescendantsAreBelow`), whatever sorts before a slash.
A list that is sorted as `SortClaims` leaves it has every claim once
(`SortingsHoldAll`).

`GraphInv` says of each of the first loops what it has done so far: `Sorting`
(every claim is owned and `sorted` is a sorting), `Grouping` (the nodes are in
order, and each covers exactly the claims on its path, of those that were
reached), `Searching` (the obstructions are those of the nodes looked at).
`PlanInv` goes on to the end: `Mapping` (claim and entry of a plan, one for the
other), `Colliding`, `Accepting` (the priorities are a permutation), `Deciding`
and `Compiling` (decisions, diagnostics, `blocking` and entries as functions of
the nodes), `Failing` (what an error means). From it:

* A decision is unresolved exactly where there is a conflict on the path
  (`UnresolvedMeansConflict`), and every other decision becomes one entry, for
  the strongest claim (`DecisionsBecomeEntries`). This needs that some claim has
  the highest rank (a bounded set of numbers has a largest one) and that two
  claims of one rank are of one package.
* Hence planning stops for a conflict and for nothing else (`ConflictsBlock`):
  past the check there is none, so the compiler never meets a decision it would
  refuse.
* Past the check nothing lies below a claim that is no directory, so what lies
  above an entry is a claimed directory or one the compiler adds, and ancestors
  of ancestors are ancestors: the namespace is a tree (`NamespaceTree`).
* Two entries of a plan with one path and two kinds are mapped to one path and
  are claims of one package there; if the path were won by one of them, it would
  be ambiguous. So a winner has one kind in its plan, and mapped claims find
  their sources (`ClaimsAreSourced`), also in plans that contradict themselves.

`EntriesMoved` needs a path as the list of its names, where the code works on
characters. The slashes cut a path, the cuts are numbered by their rank, and the
names lie between them: the names of `a/b` are those of `a` and then those of
`b`, and joining the names gives the path back. So to begin with the names of a
root is to be the root or to lie below it, which is what the code asks with a
prefix and a slash, and a name that only begins like the root's does not.
`MoveInv` says that the claims made so far are the entries of the plans read so
far, moved.

**ProfileFilesProofs.** `Inv` says that a document in a file was asked for
(`AskedFor`), that a save which is still undisturbed finds its file empty and is
the only one to have it open (`Alone`), and that a save which was kept is what
the file holds (`Kept`). From it follow `LoadsGiveWhatWasSaved` and
`SavesCanBeLoaded`, for any callers, crashes and short writes.

**StagingCopyProofs.** Per call, `Tidy` (when the directory is there), `Written`
(what is in the file is what was read, but for tails at the end that the QFile
holds back), `Undisturbed` (while nobody changes the source it is what was
measured, and what was read is its beginning) and `Told` (what a success leaves:
the beginning in the file, the last progress, and what a failed read or close
takes from them). From it follow the safety properties of `staging`, for sources
and buffers of any length.

**GameFsClientProofs.** `Ownership`: the handles of living clients are distinct
unless null, and the contexts that exist are those that have a client. It gives
that contexts have one owner, that plans reach the core through living contexts
only, and that a move frees no context but that of the client it replaces.

**ArchiveTreeProofs.** The segments of a path and the nodes after each segment
are recursive functions on `0 .. n`; that such a function exists and obeys its
equation is proved once (`RecursionExists`), and what it computes by the
least number at which it would not. The argument has three parts:

* The segments are what lies between slashes. Each of the four searches of the
  normaliser finds two dots with a slash or an end of the path on both sides, and
  together they find every such place. So the normaliser refuses a path exactly if
  it is absolute or one of its parts is `..`, for paths of any length and any mix
  of the two separators (`RefusedExactly`).
* What the normaliser leaves are names, never empty, `.` or `..`. So the filter that
  `insertIntoTree` has of its own changes nothing, and every node has a path of
  names (`ArchiveTypes`).
* The iterations of `insertIntoTree` are at different depths and do not meet: all
  but the last add the nodes above that are missing, the last adds its own or
  marks it as a directory. Hence the tree of one entry more is the tree so far
  with that entry inserted, and `ArchiveInv` keeps it equal to the tree that
  `TreeIsThatOfItsEntries` describes without any insertion (`TreeOfTheEntries`).

Only model-checked: the liveness properties (there is no ENABLED and no fairness
in the prover). Every invariant and every action property of a passing run is
also a theorem.

## Not modelled

* `GameCatalogImpl`, `ActiveGameSelectionImpl`, `ServiceRegistry`: containers with
  one assignment per operation, used by one thread during start-up. A property
  of them would restate the assignment.
* Game plugins and the prerequisite check: reading of files, an interface
  without an implementation, and one comparison of a version number.
* `main` and `Bootstrapper`: wiring. The order in which the window and the model
  are destroyed is used in `InventoryLoad`.
* Ports, `PlannerInput` and `GameFsPlan`: interfaces and records without code that
  runs; the checks of `ProfileIdentity::create` are a precondition of `ProfileFiles`.
* The layout of the widgets.
* What libarchive, Qt and the file system do inside: they appear as answers that
  may come, also unfavourable ones.

What could be added: a composition of the profile files with the planning, as
soon as the application reads priorities from a profile.
