---------------------------- MODULE PackageGraph ----------------------------
(***************************************************************************)
(* PackageDependencyGraph::create: the enabled packages, the dependencies  *)
(* between them and the ordering constraints go in, a load order or the    *)
(* first error comes out.  Five loops run one after the other: index the   *)
(* packages, add an edge per dependency, add an edge per constraint, look  *)
(* for a cycle with an explicit stack (findCycle), and order the packages  *)
(* by repeatedly taking the first one that nothing holds back              *)
(* (resolveOrder).  A step is one iteration; a node is a position in the   *)
(* list of enabled packages, counted from 1.                               *)
(***************************************************************************)
EXTENDS Naturals, Sequences, FiniteSets

CONSTANTS
    PackageIds,          \* the ids packages can have
    Inputs               \* the arguments considered

Dependencies == [dependent : PackageIds, required : PackageIds]
Constraints == [before : PackageIds, after : PackageIds]

ASSUME InputsAssumption ==
    Inputs \subseteq [enabled : Seq(PackageIds), dependencies : Seq(Dependencies),
                     constraints : Seq(Constraints)]

VARIABLES
    enabled, dependencies, constraints,      \* the arguments
    pc,                  \* the loop that is running, or "done"
    next,                \* the position that loop is at
    indexes,             \* package id -> node
    edges,               \* set of <<source, target>>: source is placed first
    indegrees,           \* node -> edges into it from nodes not yet placed
    states,              \* node -> how far findCycle is with it
    path,                \* the nodes on findCycle's stack, bottom first
    todo,                \* node -> children its stack frame has yet to look at
    ready,               \* nodes nothing holds back any more
    resolved,            \* the order so far, as nodes
    error, culprits      \* the error code, or "none", and the ids it names

inputs == <<enabled, dependencies, constraints>>
building == <<indexes, edges, indegrees>>
searching == <<states, path, todo>>
ordering == <<ready, resolved>>
outcome == <<error, culprits>>
vars == <<inputs, pc, next, building, searching, ordering, outcome>>

ErrorCodes ==
    {"DuplicateEnabledPackage", "DependentPackageNotEnabled",
     "RequiredPackageNotEnabled", "OrderingPackageNotEnabled", "SelfDependency",
     "SelfOrdering", "Cycle"}

Nodes == 1 .. Len(enabled)
Children(n) == {m \in Nodes : <<n, m>> \in edges}
First(n, S) == n \in S /\ \A m \in S : n <= m        \* of an ordered container
Id(n) == enabled[n]
Top == path[Len(path)]

Init ==
    /\ \E i \in Inputs : /\ enabled = i.enabled /\ dependencies = i.dependencies
                          /\ constraints = i.constraints
    /\ pc = "index" /\ next = 1
    /\ indexes = [p \in {} |-> 0]
    /\ edges = {}
    /\ indegrees = [n \in Nodes |-> 0]
    /\ states = [n \in Nodes |-> "Unvisited"]
    /\ path = <<>> /\ todo = [n \in Nodes |-> {}]
    /\ ready = {} /\ resolved = <<>>
    /\ error = "none" /\ culprits = <<>>

-----------------------------------------------------------------------------

Fail(code, ids) ==
    /\ error' = code
    /\ culprits' = ids
    /\ pc' = "done"
    /\ UNCHANGED <<inputs, next, building, searching, ordering>>

\* indexes.emplace: the first of two equal ids is the one that stays.
IndexPackage ==
    /\ pc = "index"
    /\ next <= Len(enabled)
    /\ IF Id(next) \in DOMAIN indexes
       THEN Fail("DuplicateEnabledPackage", <<Id(next)>>)
       ELSE /\ indexes' = [p \in DOMAIN indexes \union {Id(next)} |->
                             IF p = Id(next) THEN next ELSE indexes[p]]
            /\ next' = next + 1
            /\ UNCHANGED <<inputs, pc, edges, indegrees, searching, ordering, outcome>>

\* An edge given twice counts twice (a mutated form).
AddEdgeCountsTwice(source, target) ==
    /\ edges' = edges \union {<<source, target>>}
    /\ indegrees' = [indegrees EXCEPT ![target] = @ + 1]

\* One more edge, unless it is there already: an edge given twice must not
\* count twice in the indegree.
AddEdge(source, target) ==
    /\ edges' = edges \union {<<source, target>>}
    /\ indegrees' = IF <<source, target>> \in edges THEN indegrees
                    ELSE [indegrees EXCEPT ![target] = @ + 1]

\* The required package is looked up first (a mutated form).
LinkDependencySwapped ==
    /\ pc = "dependencies"
    /\ next <= Len(dependencies)
    /\ LET d == dependencies[next] IN
       IF d.required \notin DOMAIN indexes
       THEN Fail("RequiredPackageNotEnabled", <<d.required>>)
       ELSE IF d.dependent \notin DOMAIN indexes
       THEN Fail("DependentPackageNotEnabled", <<d.dependent>>)
       ELSE IF indexes[d.dependent] = indexes[d.required]
       THEN Fail("SelfDependency", <<d.dependent>>)
       ELSE /\ AddEdge(indexes[d.required], indexes[d.dependent])
            /\ next' = next + 1
            /\ UNCHANGED <<inputs, pc, indexes, searching, ordering, outcome>>

LinkDependency ==
    /\ pc = "dependencies"
    /\ next <= Len(dependencies)
    /\ LET d == dependencies[next] IN
       IF d.dependent \notin DOMAIN indexes
       THEN Fail("DependentPackageNotEnabled", <<d.dependent>>)
       ELSE IF d.required \notin DOMAIN indexes
       THEN Fail("RequiredPackageNotEnabled", <<d.required>>)
       ELSE IF indexes[d.dependent] = indexes[d.required]
       THEN Fail("SelfDependency", <<d.dependent>>)
       ELSE /\ AddEdge(indexes[d.required], indexes[d.dependent])
            /\ next' = next + 1
            /\ UNCHANGED <<inputs, pc, indexes, searching, ordering, outcome>>

LinkConstraint ==
    /\ pc = "constraints"
    /\ next <= Len(constraints)
    /\ LET c == constraints[next] IN
       IF c.before \notin DOMAIN indexes
       THEN Fail("OrderingPackageNotEnabled", <<c.before>>)
       ELSE IF c.after \notin DOMAIN indexes
       THEN Fail("OrderingPackageNotEnabled", <<c.after>>)
       ELSE IF indexes[c.before] = indexes[c.after]
       THEN Fail("SelfOrdering", <<c.before>>)
       ELSE /\ AddEdge(indexes[c.before], indexes[c.after])
            /\ next' = next + 1
            /\ UNCHANGED <<inputs, pc, indexes, searching, ordering, outcome>>

\* A loop over a list is through: the next one starts at its beginning.
EndLoop ==
    /\ \/ pc = "index" /\ next > Len(enabled) /\ pc' = "dependencies"
       \/ pc = "dependencies" /\ next > Len(dependencies) /\ pc' = "constraints"
       \/ pc = "constraints" /\ next > Len(constraints) /\ pc' = "search"
    /\ next' = 1
    /\ UNCHANGED <<inputs, building, searching, ordering, outcome>>

-----------------------------------------------------------------------------
(* findCycle.                                                              *)

Push(n) ==
    /\ states' = [states EXCEPT ![n] = "Visiting"]
    /\ path' = Append(path, n)

\* One iteration of the outer loop: a node some search has reached is passed over.
StartSearch ==
    /\ pc = "search" /\ path = <<>>
    /\ next <= Len(enabled)
    /\ \/ /\ states[next] = "Unvisited"
          /\ Push(next)
          /\ todo' = [todo EXCEPT ![next] = Children(next)]
       \/ /\ states[next] # "Unvisited"
          /\ UNCHANGED searching
    /\ next' = next + 1
    /\ UNCHANGED <<inputs, pc, building, ordering, outcome>>

\* All children of the top frame have been looked at.
FinishNode ==
    /\ pc = "search" /\ path # <<>>
    /\ todo[Top] = {}
    /\ states' = [states EXCEPT ![Top] = "Visited"]
    /\ path' = SubSeq(path, 1, Len(path) - 1)
    /\ UNCHANGED <<inputs, pc, next, building, todo, ordering, outcome>>

\* The way back to the child left out (a mutated form).
CycleWithoutReturn(child) ==
    LET start == CHOOSE i \in DOMAIN path : path[i] = child IN
    [i \in 1 .. Len(path) - start + 1 |-> Id(path[start + i - 1])]

\* The path from the child round to the child again.
CycleThrough(child) ==
    LET start == CHOOSE i \in DOMAIN path : path[i] = child IN
    [i \in 1 .. Len(path) - start + 1 |-> Id(path[start + i - 1])] \o <<Id(child)>>

\* The frame is not moved on to its next child (a mutated form).
LookAtChildStays ==
    /\ pc = "search" /\ path # <<>>
    /\ \E child \in todo[Top] :
         /\ First(child, todo[Top])
         /\ \/ /\ states[child] = "Unvisited"
               /\ Push(child)
               /\ todo' = [todo EXCEPT ![child] = Children(child)]
               /\ UNCHANGED <<inputs, pc, next, building, ordering, outcome>>
            \/ /\ states[child] = "Visiting"
               /\ Fail("Cycle", CycleThrough(child))
            \/ /\ states[child] = "Visited"
               /\ UNCHANGED vars

\* The top frame looks at its next child.
LookAtChild ==
    /\ pc = "search" /\ path # <<>>
    /\ \E child \in todo[Top] :
         LET rest == [todo EXCEPT ![Top] = @ \ {child}] IN
         /\ First(child, todo[Top])
         /\ \/ /\ states[child] = "Unvisited"
               /\ Push(child)
               /\ todo' = [rest EXCEPT ![child] = Children(child)]
               /\ UNCHANGED <<inputs, pc, next, building, ordering, outcome>>
            \/ /\ states[child] = "Visiting"
               /\ Fail("Cycle", CycleThrough(child))
            \/ /\ states[child] = "Visited"
               /\ todo' = rest
               /\ UNCHANGED <<inputs, pc, next, building, states, path, ordering, outcome>>

-----------------------------------------------------------------------------
(* resolveOrder.                                                           *)

EndSearch ==
    /\ pc = "search" /\ path = <<>>
    /\ next > Len(enabled)
    /\ ready' = {n \in Nodes : indegrees[n] = 0}
    /\ pc' = "order"
    /\ UNCHANGED <<inputs, next, building, searching, resolved, outcome>>

\* Dependents are released with a first dependency placed (a mutated form).
TakeReadyEarly ==
    /\ pc = "order"
    /\ \E package \in ready :
         /\ First(package, ready)
         /\ resolved' = Append(resolved, package)
         /\ indegrees' = [n \in Nodes |-> IF n \in Children(package) THEN 0 ELSE indegrees[n]]
         /\ ready' = (ready \ {package})
                       \union {n \in Children(package) : indegrees[n] > 0}
    /\ UNCHANGED <<inputs, pc, next, indexes, edges, searching, outcome>>

\* Any ready package is taken (a mutated form: an unordered set).
TakeAnyReady ==
    /\ pc = "order"
    /\ \E package \in ready :
         /\ resolved' = Append(resolved, package)
         /\ indegrees' = [n \in Nodes |-> IF n \in Children(package)
                                          THEN indegrees[n] - 1 ELSE indegrees[n]]
         /\ ready' = (ready \ {package})
                       \union {n \in Children(package) : indegrees[n] = 1}
    /\ UNCHANGED <<inputs, pc, next, indexes, edges, searching, outcome>>

\* The first of the ready packages is placed, its dependents count down.
TakeReady ==
    /\ pc = "order"
    /\ \E package \in ready :
         /\ First(package, ready)
         /\ resolved' = Append(resolved, package)
         /\ indegrees' = [n \in Nodes |-> IF n \in Children(package)
                                          THEN indegrees[n] - 1 ELSE indegrees[n]]
         /\ ready' = (ready \ {package})
                       \union {n \in Children(package) : indegrees[n] = 1}
    /\ UNCHANGED <<inputs, pc, next, indexes, edges, searching, outcome>>

Succeed ==
    /\ pc = "order" /\ ready = {}
    /\ pc' = "done"
    /\ UNCHANGED <<inputs, next, building, searching, ordering, outcome>>

Create ==
    \/ IndexPackage \/ LinkDependency \/ LinkConstraint \/ EndLoop
    \/ StartSearch \/ FinishNode \/ LookAtChild
    \/ EndSearch \/ TakeReady \/ Succeed

Returned == pc = "done" /\ UNCHANGED vars

Next == Create \/ Returned

Spec == Init /\ [][Next]_vars
FairSpec == Spec /\ WF_vars(Create)

-----------------------------------------------------------------------------
(* Properties.                                                             *)

Elements(list) == {list[i] : i \in DOMAIN list}
ResolvedOrder == [i \in DOMAIN resolved |-> Id(resolved[i])]
Returns(code) == pc = "done" /\ error = code

\* What the arguments ask for, as pairs of ids: the first before the second.
Required ==
    {<<d.required, d.dependent>> : d \in Elements(dependencies)}
      \union {<<c.before, c.after>> : c \in Elements(constraints)}

TypeOK ==
    /\ enabled \in Seq(PackageIds) /\ dependencies \in Seq(Dependencies)
    /\ constraints \in Seq(Constraints)
    /\ pc \in {"index", "dependencies", "constraints", "search", "order", "done"}
    /\ next \in Nat \ {0}
    /\ DOMAIN indexes \subseteq PackageIds
    /\ indexes \in [DOMAIN indexes -> Nodes]
    /\ edges \subseteq Nodes \X Nodes
    /\ indegrees \in [Nodes -> Nat]
    /\ states \in [Nodes -> {"Unvisited", "Visiting", "Visited"}]
    /\ path \in Seq(Nodes)
    /\ todo \in [Nodes -> SUBSET Nodes]
    /\ ready \subseteq Nodes
    /\ resolved \in Seq(Nodes)
    /\ error \in ErrorCodes \union {"none"}
    /\ culprits \in Seq(PackageIds)

(* A load order has every enabled package exactly once: none is dropped    *)
(* because its indegree never came down to zero, none is placed twice.     *)
OrderIsPermutation ==
    Returns("none") =>
        /\ Len(ResolvedOrder) = Len(enabled)
        /\ Elements(ResolvedOrder) = Elements(enabled)
        /\ \A i, j \in DOMAIN ResolvedOrder :
              ResolvedOrder[i] = ResolvedOrder[j] => i = j

(* A load order puts every dependency before its dependent and obeys every *)
(* ordering constraint, as they were given.                                *)
OrderObeysInputs ==
    Returns("none") =>
        \A pair \in Required : \E i, j \in DOMAIN ResolvedOrder :
            i < j /\ ResolvedOrder[i] = pair[1] /\ ResolvedOrder[j] = pair[2]

(* A reported cycle is one: it leads from an id back to that id along      *)
(* pairs the arguments ask for and passes no id twice, so a request that   *)
(* has an order is never refused.                                          *)
CycleIsReal ==
    Returns("Cycle") =>
        /\ Len(culprits) >= 3 /\ culprits[1] = culprits[Len(culprits)]
        /\ \A i \in 1 .. Len(culprits) - 1 : <<culprits[i], culprits[i + 1]>> \in Required
        /\ \A i, j \in 1 .. Len(culprits) - 1 : culprits[i] = culprits[j] => i = j

(* Of all orders that obey the arguments the one returned prefers earlier  *)
(* enabled packages: the first position where another one differs has a    *)
(* package that was enabled later.                                         *)
OrderIsLeast ==
    Returns("none") =>
        \A other \in [Nodes -> Nodes] :
            (/\ \A i, j \in Nodes : other[i] = other[j] => i = j
             /\ \A i, j \in Nodes : <<other[i], other[j]>> \in edges => i < j)
            => \/ other = resolved
               \/ \E i \in Nodes : /\ resolved[i] < other[i]
                                   /\ \A j \in 1 .. i - 1 : resolved[j] = other[j]

\* The errors of single arguments, each with the loop and position it is at.
Enabled(id) == id \in Elements(enabled)
Faults ==
    {<<1, i, "DuplicateEnabledPackage", enabled[i]>> :
        i \in {i \in DOMAIN enabled : \E j \in 1 .. i - 1 : enabled[j] = enabled[i]}}
    \union
    {<<2, i, "DependentPackageNotEnabled", dependencies[i].dependent>> :
        i \in {i \in DOMAIN dependencies : ~Enabled(dependencies[i].dependent)}}
    \union
    {<<2, i, "RequiredPackageNotEnabled", dependencies[i].required>> :
        i \in {i \in DOMAIN dependencies : /\ Enabled(dependencies[i].dependent)
                                           /\ ~Enabled(dependencies[i].required)}}
    \union
    {<<2, i, "SelfDependency", dependencies[i].required>> :
        i \in {i \in DOMAIN dependencies :
                 /\ Enabled(dependencies[i].dependent)
                 /\ dependencies[i].dependent = dependencies[i].required}}
    \union
    {<<3, i, "OrderingPackageNotEnabled",
       IF Enabled(constraints[i].before) THEN constraints[i].after ELSE constraints[i].before>> :
        i \in {i \in DOMAIN constraints : ~(/\ Enabled(constraints[i].before)
                                            /\ Enabled(constraints[i].after))}}
    \union
    {<<3, i, "SelfOrdering", constraints[i].before>> :
        i \in {i \in DOMAIN constraints : /\ Enabled(constraints[i].before)
                                          /\ constraints[i].before = constraints[i].after}}

(* The error returned is the first one in the order of the arguments, with *)
(* the id it is about; a cycle is looked for only in faultless arguments.  *)
FirstFaultIsReported ==
    pc = "done" =>
        \/ error \in {"none", "Cycle"} /\ Faults = {}
        \/ \E f \in Faults :
              /\ error = f[3] /\ culprits = <<f[4]>>
              /\ \A g \in Faults : f[1] < g[1] \/ (f[1] = g[1] /\ f[2] <= g[2])

(* create returns on every input: the search visits every node once.       *)
Terminates == <>(pc = "done")
=============================================================================
