------------------------- MODULE PackageGraphProofs -------------------------
(***************************************************************************)
(* Theorems about PackageGraph for every set of inputs: what create        *)
(* returns is type correct, a load order has every enabled package once,   *)
(* obeys the arguments and is the least that does, a reported cycle is a   *)
(* real one, and a refused argument is the first that is wrong.            *)
(*                                                                         *)
(* The argument that no package is lost needs no induction over the graph: *)
(* the search keeps Rooted (every non-empty set of finished nodes has one  *)
(* that nothing else in the set points to), because it finishes a node     *)
(* only after all nodes it points to.  When the ready set runs empty, the  *)
(* nodes not yet placed would be a set without such a node.                *)
(***************************************************************************)
EXTENDS PackageGraph, FiniteSetTheorems, SequenceTheorems, TLAPS

Before == {"index", "dependencies", "constraints"}
Fine == error \in {"none", "Cycle"}

\* The edges into n that still hold it back.
Waiting(n) == {m \in Nodes : <<m, n>> \in edges /\ m \notin Elements(resolved)}
Visited == {n \in Nodes : states[n] = "Visited"}

\* A dependency or constraint that asks for p before q has its edge.
Linked(p, q) == \E e \in edges : Id(e[1]) = p /\ Id(e[2]) = q

Phases ==
    /\ pc # "done" => error = "none"
    /\ pc = "index" => edges = {} /\ next <= Len(enabled) + 1
    /\ pc = "dependencies" => next <= Len(dependencies) + 1
    /\ pc = "constraints" => next <= Len(constraints) + 1
    /\ pc \in Before \union {"search"} => resolved = <<>>
    /\ pc \in Before => path = <<>> /\ \A n \in Nodes : states[n] = "Unvisited"

\* Ids and nodes determine each other as far as the packages are indexed.
Indexed ==
    /\ \A p \in DOMAIN indexes : enabled[indexes[p]] = p
    /\ pc = "index" =>
          \A n \in 1 .. next - 1 : enabled[n] \in DOMAIN indexes /\ indexes[enabled[n]] = n
    /\ pc # "index" /\ Fine =>
          \A n \in Nodes : enabled[n] \in DOMAIN indexes /\ indexes[enabled[n]] = n

\* The edges are what the arguments read so far ask for.
EdgesAreRequired ==
    /\ \A e \in edges : e[1] # e[2] /\ <<Id(e[1]), Id(e[2])>> \in Required
    /\ pc = "dependencies" =>
          \A i \in 1 .. next - 1 : Linked(dependencies[i].required, dependencies[i].dependent)
    /\ pc \notin {"index", "dependencies"} /\ Fine =>
          \A i \in DOMAIN dependencies :
              Linked(dependencies[i].required, dependencies[i].dependent)
    /\ pc = "constraints" =>
          \A i \in 1 .. next - 1 : Linked(constraints[i].before, constraints[i].after)
    /\ pc \notin Before /\ Fine =>
          \A i \in DOMAIN constraints : Linked(constraints[i].before, constraints[i].after)

Counted == \A n \in Nodes : indegrees[n] = Cardinality(Waiting(n))

\* The stack is a path; what is finished points to finished nodes only, and a
\* node on the stack has looked at finished children and the node above it.
Stacked ==
    /\ \A i, j \in DOMAIN path : path[i] = path[j] => i = j
    /\ \A n \in Nodes : states[n] = "Visiting" <=> n \in Elements(path)
    /\ \A i \in 1 .. Len(path) - 1 : <<path[i], path[i + 1]>> \in edges
    /\ \A i \in DOMAIN path :
          /\ todo[path[i]] \subseteq Children(path[i])
          /\ \A c \in Children(path[i]) \ todo[path[i]] :
                c \in Visited \/ (i < Len(path) /\ c = path[i + 1])
    /\ \A n \in Visited : Children(n) \subseteq Visited

Rooted == \A S \in SUBSET Visited : S # {} => \E n \in S : \A m \in S : <<m, n>> \notin edges

\* Every node placed comes after all that point to it; what is ready is what
\* has nothing left to wait for.
Placed ==
    /\ \A i, j \in DOMAIN resolved : resolved[i] = resolved[j] => i = j
    /\ \A i \in DOMAIN resolved : \A m \in Nodes :
          <<m, resolved[i]>> \in edges => \E j \in DOMAIN resolved : j < i /\ resolved[j] = m
    /\ pc = "order" => ready = {n \in Nodes \ Elements(resolved) : indegrees[n] = 0}
    /\ pc = "order" => Visited = Nodes
    /\ Returns("none") => Nodes \subseteq Elements(resolved)

\* The loop over the starting nodes has left no unvisited node behind.
Reached ==
    pc = "search" =>
        /\ next <= Len(enabled) + 1
        /\ \A n \in Nodes : n < next => states[n] # "Unvisited"

IInv ==
    /\ TypeOK
    /\ Phases
    /\ Indexed
    /\ EdgesAreRequired
    /\ Counted
    /\ Stacked
    /\ Rooted
    /\ Placed
    /\ CycleIsReal

-----------------------------------------------------------------------------
(* Facts about the data.                                                   *)

\* The types of the arguments and the finiteness of the graph.
LEMMA InputTypes ==
    ASSUME TypeOK
    PROVE  /\ enabled \in Seq(PackageIds) /\ dependencies \in Seq(Dependencies)
           /\ constraints \in Seq(Constraints)
           /\ Len(enabled) \in Nat /\ Nodes = DOMAIN enabled /\ Nodes \subseteq Nat
           /\ \A n \in Nodes : Id(n) \in PackageIds
           /\ IsFiniteSet(Nodes)
  <1>1. /\ enabled \in Seq(PackageIds) /\ dependencies \in Seq(Dependencies)
        /\ constraints \in Seq(Constraints)
    BY DEF TypeOK
  <1>2. Len(enabled) \in Nat /\ Nodes = DOMAIN enabled /\ Nodes \subseteq Nat
    BY <1>1 DEF Nodes
  <1>3. \A n \in Nodes : Id(n) \in PackageIds
    BY <1>1, <1>2 DEF Id
  <1>4. IsFiniteSet(Nodes)
    BY <1>2, FS_Interval DEF Nodes
  <1>5. QED
    BY <1>1, <1>2, <1>3, <1>4

\* Appending to a sequence (a push, or a package placed).
LEMMA AppendFacts ==
    ASSUME NEW S, NEW q \in Seq(S), NEW x \in S
    PROVE  /\ Append(q, x) \in Seq(S) /\ Len(q) \in Nat /\ Len(Append(q, x)) = Len(q) + 1
           /\ DOMAIN q = 1 .. Len(q) /\ DOMAIN Append(q, x) = 1 .. Len(q) + 1
           /\ \A i \in 1 .. Len(q) : Append(q, x)[i] = q[i]
           /\ Append(q, x)[Len(q) + 1] = x
           /\ Elements(Append(q, x)) = Elements(q) \union {x}
  BY DEF Elements

\* Taking the last element away (FinishNode pops the stack).
LEMMA FrontFacts ==
    ASSUME NEW S, NEW q \in Seq(S), q # <<>>
    PROVE  /\ SubSeq(q, 1, Len(q) - 1) \in Seq(S)
           /\ Len(q) \in Nat \ {0} /\ Len(SubSeq(q, 1, Len(q) - 1)) = Len(q) - 1
           /\ DOMAIN SubSeq(q, 1, Len(q) - 1) = 1 .. Len(q) - 1 /\ DOMAIN q = 1 .. Len(q)
           /\ \A i \in 1 .. Len(q) - 1 : SubSeq(q, 1, Len(q) - 1)[i] = q[i]
  <1>1. Len(q) \in Nat \ {0} /\ DOMAIN q = 1 .. Len(q)
    OBVIOUS
  <1>2. \A i \in 1 .. Len(q) - 1 : q[i] \in S
    BY <1>1
  <1>3. QED
    BY <1>1, <1>2, SubSeqProperties

\* Waiting is a finite set, so that its cardinality is a number.
LEMMA WaitingFinite ==
    ASSUME TypeOK, NEW n \in Nodes
    PROVE  IsFiniteSet(Waiting(n)) /\ Cardinality(Waiting(n)) \in Nat
  <1>1. IsFiniteSet(Waiting(n))
    BY InputTypes, FS_Subset DEF Waiting
  <1>2. QED
    BY <1>1, FS_CardinalityType

-----------------------------------------------------------------------------
(* The steps.                                                              *)

\* create starts with every part of the invariant true: nothing is linked yet.
LEMMA InitIInv == Init => IInv
  <1> SUFFICES ASSUME Init
               PROVE  IInv
    OBVIOUS
  <1>1. /\ enabled \in Seq(PackageIds) /\ Len(enabled) \in Nat
        /\ dependencies \in Seq(Dependencies) /\ constraints \in Seq(Constraints)
    BY InputsAssumption DEF Init
  <1>2. TypeOK
    BY <1>1 DEF Init, TypeOK
  <1>3. Phases /\ Indexed /\ EdgesAreRequired /\ Placed /\ CycleIsReal
    BY <1>1 DEF Init, Phases, Before, Indexed, EdgesAreRequired, Placed, CycleIsReal, Returns
  <1>4. Counted
    <2>1. \A n \in Nodes : Waiting(n) = {}
      BY DEF Init, Waiting
    <2>2. QED
      BY <2>1, FS_EmptySet DEF Init, Counted
  <1>5. Visited = {}
    BY DEF Init, Visited
  <1>6. Stacked
    BY <1>5 DEF Init, Stacked, Elements
  <1>7. Rooted
    BY <1>5 DEF Rooted
  <1>8. QED
    BY <1>2, <1>3, <1>4, <1>6, <1>7 DEF IInv

\* What the graph algorithms rely on depends on these variables only.
LEMMA GraphUnchanged ==
    ASSUME IInv, UNCHANGED <<inputs, edges, indegrees, searching, resolved>>
    PROVE  Counted' /\ Stacked' /\ Rooted'
  <1>1. Nodes' = Nodes /\ Visited' = Visited
    BY DEF inputs, searching, Nodes, Visited
  <1>2. \A n \in Nodes : Children(n)' = Children(n) /\ Waiting(n)' = Waiting(n)
    BY <1>1 DEF Children, Waiting, Elements
  <1>3. Counted'
    BY <1>1, <1>2 DEF IInv, Counted
  <1>4. /\ path' = path /\ todo' = todo /\ states' = states /\ edges' = edges
        /\ Elements(path)' = Elements(path)
    BY DEF searching, Elements
  <1>5. \A i \in DOMAIN path : path[i] \in Nodes
    BY DEF IInv, TypeOK
  <1>6. \A n \in Visited : n \in Nodes
    BY DEF Visited
  <1>7. Stacked'
    BY <1>1, <1>2, <1>4, <1>5, <1>6 DEF IInv, Stacked
  <1>8. Rooted'
    BY <1>1, <1>4 DEF IInv, Rooted
  <1>9. QED
    BY <1>3, <1>7, <1>8

\* An error that is not a cycle ends the call with everything else as it was.
LEMMA FailStep ==
    ASSUME IInv, pc # "done", NEW code \in ErrorCodes \ {"Cycle"}, NEW p \in PackageIds,
           Fail(code, <<p>>)
    PROVE  IInv'
  <1> DEFINE ids == <<p>>
  <1>1. /\ UNCHANGED <<inputs, next, building, searching, ordering>>
        /\ pc' = "done" /\ error' = code /\ culprits' = ids
    BY DEF Fail
  <1>0. ids \in Seq(PackageIds)
    OBVIOUS
  <1> HIDE DEF ids
  <1>2. TypeOK'
    BY <1>0, <1>1 DEF IInv, TypeOK, inputs, building, searching, ordering, Nodes
  <1>3. ~Fine' /\ ~(Returns("none"))' /\ ~(Returns("Cycle"))'
    BY <1>1 DEF Fine, Returns, ErrorCodes
  <1>4. Phases' /\ CycleIsReal'
    BY <1>1, <1>3 DEF Phases, Before, CycleIsReal
  <1>5. Indexed'
    BY <1>1, <1>3 DEF IInv, Indexed, inputs, building
  <1>6. EdgesAreRequired'
    BY <1>1, <1>3 DEF IInv, EdgesAreRequired, Id, Required, Elements, inputs, building, Before
  <1>7. Placed'
    BY <1>1, <1>3 DEF IInv, Placed, Nodes, inputs, building, ordering
  <1>8. Counted' /\ Stacked' /\ Rooted'
    BY <1>1, GraphUnchanged DEF building, ordering
  <1>9. QED
    BY <1>2, <1>4, <1>5, <1>6, <1>7, <1>8 DEF IInv

\* Indexing a package keeps ids and nodes in step; an id met before is an error.
LEMMA IndexPackageStep ==
    ASSUME IInv, IndexPackage
    PROVE  IInv'
  <1>1. pc = "index" /\ next \in Nodes /\ Id(next) \in PackageIds
    BY InputTypes DEF IndexPackage, IInv, TypeOK, Nodes
  <1>2. CASE Id(next) \in DOMAIN indexes
    <2>1. Fail("DuplicateEnabledPackage", <<Id(next)>>)
      BY <1>2 DEF IndexPackage
    <2>2. "DuplicateEnabledPackage" \in ErrorCodes \ {"Cycle"} /\ pc # "done"
      BY <1>1 DEF ErrorCodes
    <2>3. QED
      BY <1>1, <2>1, <2>2, FailStep
  <1>3. CASE Id(next) \notin DOMAIN indexes
    <2>1. /\ indexes' = [p \in DOMAIN indexes \union {Id(next)} |->
                           IF p = Id(next) THEN next ELSE indexes[p]]
          /\ next' = next + 1
          /\ UNCHANGED <<inputs, pc, edges, indegrees, searching, ordering, outcome>>
      BY <1>3 DEF IndexPackage
    <2>2. TypeOK'
      <3>1. /\ DOMAIN indexes' \subseteq PackageIds
            /\ indexes' \in [DOMAIN indexes' -> Nodes]
        BY <1>1, <2>1 DEF IInv, TypeOK
      <3>2. /\ next \in Nat \ {0} /\ next' \in Nat \ {0}
            /\ pc \in {"index", "dependencies", "constraints", "search", "order", "done"}
        BY <2>1 DEF IInv, TypeOK
      <3>3. Nodes' = Nodes
        BY <2>1 DEF inputs, Nodes
      <3>4. QED
        BY <2>1, <3>1, <3>2, <3>3 DEF IInv, TypeOK, inputs, searching, ordering, outcome
    <2>3. Phases'
      BY <1>1, <2>1 DEF IInv, Phases, TypeOK, Before, inputs, searching, ordering, outcome, Nodes
    <2>4. Indexed'
      <3>1. \A p \in DOMAIN indexes' : enabled[indexes'[p]] = p
        BY <2>1 DEF IInv, Indexed, Id
      <3>2. \A n \in 1 .. next : enabled[n] \in DOMAIN indexes' /\ indexes'[enabled[n]] = n
        <4> SUFFICES ASSUME NEW n \in 1 .. next
                     PROVE  enabled[n] \in DOMAIN indexes' /\ indexes'[enabled[n]] = n
          OBVIOUS
        <4>1. CASE n = next
          BY <2>1, <4>1 DEF Id
        <4>2. CASE n # next
          <5>1. n \in 1 .. next - 1
            BY <4>2, <1>1 DEF IInv, TypeOK
          <5>2. enabled[n] \in DOMAIN indexes /\ indexes[enabled[n]] = n
            BY <1>1, <5>1 DEF IInv, Indexed
          <5>3. QED
            BY <1>3, <2>1, <5>2
        <4>3. QED
          BY <4>1, <4>2
      <3>3. next' - 1 = next
        BY <2>1 DEF IInv, TypeOK
      <3>4. QED
        BY <1>1, <2>1, <3>1, <3>2, <3>3 DEF Indexed, inputs
    <2>5. EdgesAreRequired'
      BY <1>1, <2>1 DEF IInv, Phases, EdgesAreRequired, Before
    <2>6. Placed' /\ CycleIsReal'
      BY <1>1, <2>1 DEF IInv, Placed, CycleIsReal, Returns, Nodes, inputs, ordering, outcome
    <2>7. Counted' /\ Stacked' /\ Rooted'
      BY <2>1, GraphUnchanged DEF ordering
    <2>8. QED
      BY <2>2, <2>3, <2>4, <2>5, <2>6, <2>7 DEF IInv
  <1>4. QED
    BY <1>2, <1>3

\* An edge that is new adds one node to wait for; a repeated one changes nothing.
LEMMA AddEdgeStep ==
    ASSUME IInv, pc \in {"dependencies", "constraints"},
           NEW p \in DOMAIN indexes, NEW q \in DOMAIN indexes, indexes[p] # indexes[q],
           <<p, q>> \in Required, AddEdge(indexes[p], indexes[q]), next' = next + 1,
           UNCHANGED <<inputs, pc, indexes, searching, ordering, outcome>>
    PROVE  /\ Counted' /\ Stacked' /\ Rooted' /\ Placed' /\ Indexed' /\ CycleIsReal'
           /\ edges' \subseteq Nodes \X Nodes /\ indegrees' \in [Nodes -> Nat]
           /\ \A e \in edges' : e[1] # e[2] /\ <<Id(e[1]), Id(e[2])>> \in Required
           /\ Linked(p, q)'
           /\ \A a, b : Linked(a, b) => Linked(a, b)'
  <1> DEFINE source == indexes[p]
             target == indexes[q]
  <1>1. /\ source \in Nodes /\ target \in Nodes /\ source # target
        /\ Id(source) = p /\ Id(target) = q
    BY DEF IInv, TypeOK, Indexed, Id
  <1>2. /\ edges' = edges \union {<<source, target>>}
        /\ indegrees' = IF <<source, target>> \in edges THEN indegrees
                        ELSE [indegrees EXCEPT ![target] = indegrees[target] + 1]
        /\ Nodes' = Nodes /\ enabled' = enabled /\ pc' = pc
        /\ path = <<>> /\ path' = path /\ states' = states /\ todo' = todo
        /\ resolved = <<>> /\ resolved' = resolved /\ ready' = ready
    BY DEF AddEdge, IInv, Phases, Before, Nodes, inputs, searching, ordering
  <1>3. edges' \subseteq Nodes \X Nodes /\ indegrees' \in [Nodes -> Nat]
    BY <1>1, <1>2 DEF IInv, TypeOK
  <1>4. \A e \in edges' : e[1] # e[2] /\ <<Id(e[1]), Id(e[2])>> \in Required
    BY <1>1, <1>2 DEF IInv, EdgesAreRequired
  <1>5. Linked(p, q)'
    BY <1>1, <1>2 DEF Linked, Id
  <1>6. \A a, b : Linked(a, b) => Linked(a, b)'
    BY <1>2 DEF Linked, Id
  <1>7. Counted'
    <2> SUFFICES ASSUME NEW n \in Nodes
                 PROVE  indegrees'[n] = Cardinality(Waiting(n)')
      BY <1>2 DEF Counted
    <2>1. indegrees[n] = Cardinality(Waiting(n))
      BY DEF IInv, Counted
    <2>2. Elements(resolved) = {} /\ Elements(resolved)' = {}
      BY <1>2 DEF Elements
    <2>3. CASE <<source, target>> \in edges
      <3>1. Waiting(n)' = Waiting(n)
        BY <1>2, <2>3 DEF Waiting, Elements
      <3>2. QED
        BY <1>2, <2>1, <2>3, <3>1
    <2>4. CASE <<source, target>> \notin edges /\ n # target
      <3>1. Waiting(n)' = Waiting(n)
        BY <1>2, <2>4 DEF Waiting, Elements
      <3>2. indegrees'[n] = indegrees[n]
        BY <1>2, <2>4 DEF IInv, TypeOK
      <3>3. QED
        BY <2>1, <3>1, <3>2
    <2>5. CASE <<source, target>> \notin edges /\ n = target
      <3>1. Waiting(n)' = Waiting(n) \union {source} /\ source \notin Waiting(n)
        BY <1>1, <1>2, <2>2, <2>5 DEF Waiting
      <3>2. Cardinality(Waiting(n) \union {source}) = Cardinality(Waiting(n)) + 1
        BY <3>1, WaitingFinite, FS_AddElement DEF IInv
      <3>3. indegrees'[n] = indegrees[n] + 1
        BY <1>1, <1>2, <2>5 DEF IInv, TypeOK
      <3>4. QED
        BY <2>1, <3>1, <3>2, <3>3
    <2>6. QED
      BY <2>3, <2>4, <2>5
  <1>8. Visited = {} /\ Visited' = {}
    BY <1>2 DEF IInv, Phases, Before, Visited
  <1>9. Stacked'
    BY <1>2, <1>8 DEF IInv, Stacked, Elements
  <1>10. Rooted'
    BY <1>8 DEF Rooted
  <1>11. Placed' /\ Indexed' /\ CycleIsReal'
    BY <1>2 DEF IInv, Placed, Indexed, CycleIsReal, Returns, Fine, outcome
  <1>12. QED
    BY <1>3, <1>4, <1>5, <1>6, <1>7, <1>9, <1>10, <1>11

\* A dependency adds the edge it asks for, or is an error.
LEMMA LinkDependencyStep ==
    ASSUME IInv, LinkDependency
    PROVE  IInv'
  <1> DEFINE d == dependencies[next]
  <1>1. /\ pc = "dependencies" /\ next \in DOMAIN dependencies
        /\ d.dependent \in PackageIds /\ d.required \in PackageIds
    <2>1. pc = "dependencies" /\ next \in DOMAIN dependencies
      BY InputTypes DEF LinkDependency, IInv, TypeOK
    <2>2. d \in Dependencies
      BY <2>1, InputTypes DEF IInv
    <2>3. QED
      BY <2>1, <2>2 DEF Dependencies
  <1>2. CASE d.dependent \notin DOMAIN indexes
    <2>1. Fail("DependentPackageNotEnabled", <<d.dependent>>)
      BY <1>2 DEF LinkDependency
    <2>2. "DependentPackageNotEnabled" \in ErrorCodes \ {"Cycle"} /\ pc # "done"
      BY <1>1 DEF ErrorCodes
    <2>3. QED
      BY <1>1, <2>1, <2>2, FailStep
  <1>3. CASE d.dependent \in DOMAIN indexes /\ d.required \notin DOMAIN indexes
    <2>1. Fail("RequiredPackageNotEnabled", <<d.required>>)
      BY <1>3 DEF LinkDependency
    <2>2. "RequiredPackageNotEnabled" \in ErrorCodes \ {"Cycle"} /\ pc # "done"
      BY <1>1 DEF ErrorCodes
    <2>3. QED
      BY <1>1, <2>1, <2>2, FailStep
  <1>4. CASE /\ d.dependent \in DOMAIN indexes /\ d.required \in DOMAIN indexes
             /\ indexes[d.dependent] = indexes[d.required]
    <2>1. Fail("SelfDependency", <<d.dependent>>)
      BY <1>4 DEF LinkDependency
    <2>2. "SelfDependency" \in ErrorCodes \ {"Cycle"} /\ pc # "done"
      BY <1>1 DEF ErrorCodes
    <2>3. QED
      BY <1>1, <2>1, <2>2, FailStep
  <1>5. CASE /\ d.dependent \in DOMAIN indexes /\ d.required \in DOMAIN indexes
             /\ indexes[d.dependent] # indexes[d.required]
    <2>0. PICK p \in DOMAIN indexes, q \in DOMAIN indexes : p = d.required /\ q = d.dependent
      BY <1>5
    <2>1. /\ AddEdge(indexes[p], indexes[q]) /\ indexes[p] # indexes[q]
          /\ next' = next + 1 /\ pc \in {"dependencies", "constraints"}
          /\ UNCHANGED <<inputs, pc, indexes, searching, ordering, outcome>>
      BY <1>1, <1>5, <2>0 DEF LinkDependency
    <2>2. <<p, q>> \in Required
      BY <1>1, <2>0 DEF Required, Elements
    <2>3. /\ Counted' /\ Stacked' /\ Rooted' /\ Placed' /\ Indexed' /\ CycleIsReal'
          /\ edges' \subseteq Nodes \X Nodes /\ indegrees' \in [Nodes -> Nat]
          /\ \A e \in edges' : e[1] # e[2] /\ <<Id(e[1]), Id(e[2])>> \in Required
          /\ Linked(p, q)'
          /\ \A a, b : Linked(a, b) => Linked(a, b)'
      BY <2>1, <2>2, AddEdgeStep
    <2>4. TypeOK'
      <3>1. next' \in Nat \ {0} /\ Nodes' = Nodes
        BY <2>1 DEF IInv, TypeOK, Nodes, inputs
      <3>2. QED
        BY <2>1, <2>3, <3>1 DEF IInv, TypeOK, inputs, searching, ordering, outcome
    <2>5. Phases'
      BY <1>1, <2>1, InputTypes
         DEF IInv, TypeOK, Phases, Before, inputs, searching, ordering, outcome, Nodes
    <2>6. EdgesAreRequired'
      <3>1. \A e \in edges' : e[1] # e[2] /\ (<<Id(e[1]), Id(e[2])>> \in Required)'
        BY <2>1, <2>3 DEF Id, Required, Elements, inputs
      <3>2. \A i \in 1 .. next :
              Linked(dependencies[i].required, dependencies[i].dependent)'
        <4> SUFFICES ASSUME NEW i \in 1 .. next
                     PROVE  Linked(dependencies[i].required, dependencies[i].dependent)'
          OBVIOUS
        <4>1. CASE i = next
          BY <2>0, <2>1, <2>3, <4>1 DEF inputs
        <4>2. CASE i # next
          <5>1. i \in 1 .. next - 1
            BY <4>2 DEF IInv, TypeOK
          <5>2. Linked(dependencies[i].required, dependencies[i].dependent)
            BY <1>1, <5>1 DEF IInv, EdgesAreRequired
          <5>3. QED
            BY <2>1, <2>3, <5>2 DEF inputs
        <4>3. QED
          BY <4>1, <4>2
      <3>3. next' - 1 = next /\ pc' = "dependencies"
        BY <1>1, <2>1 DEF IInv, TypeOK
      <3>4. QED
        BY <3>1, <3>2, <3>3, <2>1 DEF EdgesAreRequired, Before, inputs
    <2>7. QED
      BY <2>3, <2>4, <2>5, <2>6 DEF IInv
  <1>6. QED
    BY <1>2, <1>3, <1>4, <1>5

\* A constraint adds the edge it asks for, or is an error.
LEMMA LinkConstraintStep ==
    ASSUME IInv, LinkConstraint
    PROVE  IInv'
  <1> DEFINE c == constraints[next]
  <1>1. /\ pc = "constraints" /\ next \in DOMAIN constraints
        /\ c.before \in PackageIds /\ c.after \in PackageIds
    <2>1. pc = "constraints" /\ next \in DOMAIN constraints
      BY InputTypes DEF LinkConstraint, IInv, TypeOK
    <2>2. c \in Constraints
      BY <2>1, InputTypes DEF IInv
    <2>3. QED
      BY <2>1, <2>2 DEF Constraints
  <1>2. CASE c.before \notin DOMAIN indexes
    <2>1. Fail("OrderingPackageNotEnabled", <<c.before>>)
      BY <1>2 DEF LinkConstraint
    <2>2. "OrderingPackageNotEnabled" \in ErrorCodes \ {"Cycle"} /\ pc # "done"
      BY <1>1 DEF ErrorCodes
    <2>3. QED
      BY <1>1, <2>1, <2>2, FailStep
  <1>3. CASE c.before \in DOMAIN indexes /\ c.after \notin DOMAIN indexes
    <2>1. Fail("OrderingPackageNotEnabled", <<c.after>>)
      BY <1>3 DEF LinkConstraint
    <2>2. "OrderingPackageNotEnabled" \in ErrorCodes \ {"Cycle"} /\ pc # "done"
      BY <1>1 DEF ErrorCodes
    <2>3. QED
      BY <1>1, <2>1, <2>2, FailStep
  <1>4. CASE /\ c.before \in DOMAIN indexes /\ c.after \in DOMAIN indexes
             /\ indexes[c.before] = indexes[c.after]
    <2>1. Fail("SelfOrdering", <<c.before>>)
      BY <1>4 DEF LinkConstraint
    <2>2. "SelfOrdering" \in ErrorCodes \ {"Cycle"} /\ pc # "done"
      BY <1>1 DEF ErrorCodes
    <2>3. QED
      BY <1>1, <2>1, <2>2, FailStep
  <1>5. CASE /\ c.before \in DOMAIN indexes /\ c.after \in DOMAIN indexes
             /\ indexes[c.before] # indexes[c.after]
    <2>0. PICK p \in DOMAIN indexes, q \in DOMAIN indexes : p = c.before /\ q = c.after
      BY <1>5
    <2>1. /\ AddEdge(indexes[p], indexes[q]) /\ indexes[p] # indexes[q]
          /\ next' = next + 1 /\ pc \in {"dependencies", "constraints"}
          /\ UNCHANGED <<inputs, pc, indexes, searching, ordering, outcome>>
      BY <1>1, <1>5, <2>0 DEF LinkConstraint
    <2>2. <<p, q>> \in Required
      BY <1>1, <2>0 DEF Required, Elements
    <2>3. /\ Counted' /\ Stacked' /\ Rooted' /\ Placed' /\ Indexed' /\ CycleIsReal'
          /\ edges' \subseteq Nodes \X Nodes /\ indegrees' \in [Nodes -> Nat]
          /\ \A e \in edges' : e[1] # e[2] /\ <<Id(e[1]), Id(e[2])>> \in Required
          /\ Linked(p, q)'
          /\ \A a, b : Linked(a, b) => Linked(a, b)'
      BY <2>1, <2>2, AddEdgeStep
    <2>4. TypeOK'
      <3>1. next' \in Nat \ {0} /\ Nodes' = Nodes
        BY <2>1 DEF IInv, TypeOK, Nodes, inputs
      <3>2. QED
        BY <2>1, <2>3, <3>1 DEF IInv, TypeOK, inputs, searching, ordering, outcome
    <2>5. Phases'
      BY <1>1, <2>1, InputTypes
         DEF IInv, TypeOK, Phases, Before, inputs, searching, ordering, outcome, Nodes
    <2>6. EdgesAreRequired'
      <3>1. \A e \in edges' : e[1] # e[2] /\ (<<Id(e[1]), Id(e[2])>> \in Required)'
        BY <2>1, <2>3 DEF Id, Required, Elements, inputs
      <3>2. \A i \in 1 .. next : Linked(constraints[i].before, constraints[i].after)'
        <4> SUFFICES ASSUME NEW i \in 1 .. next
                     PROVE  Linked(constraints[i].before, constraints[i].after)'
          OBVIOUS
        <4>1. CASE i = next
          BY <2>0, <2>1, <2>3, <4>1 DEF inputs
        <4>2. CASE i # next
          <5>1. i \in 1 .. next - 1
            BY <4>2 DEF IInv, TypeOK
          <5>2. Linked(constraints[i].before, constraints[i].after)
            BY <1>1, <5>1 DEF IInv, EdgesAreRequired
          <5>3. QED
            BY <2>1, <2>3, <5>2 DEF inputs
        <4>3. QED
          BY <4>1, <4>2
      <3>3. \A i \in DOMAIN dependencies :
              Linked(dependencies[i].required, dependencies[i].dependent)'
        <4>1. Fine
          BY <1>1 DEF IInv, Phases, Fine
        <4>2. \A i \in DOMAIN dependencies :
                Linked(dependencies[i].required, dependencies[i].dependent)
          BY <1>1, <4>1 DEF IInv, EdgesAreRequired
        <4>3. QED
          BY <2>1, <2>3, <4>2 DEF inputs
      <3>4. next' - 1 = next /\ pc' = "constraints"
        BY <1>1, <2>1 DEF IInv, TypeOK
      <3>5. QED
        BY <3>1, <3>2, <3>3, <3>4, <2>1 DEF EdgesAreRequired, Before, inputs
    <2>7. QED
      BY <2>3, <2>4, <2>5, <2>6 DEF IInv
  <1>6. QED
    BY <1>2, <1>3, <1>4, <1>5

\* The end of a loop means that its whole list has been read.
LEMMA EndLoopStep ==
    ASSUME IInv, EndLoop
    PROVE  IInv'
  <1>1. /\ UNCHANGED <<inputs, building, searching, ordering, outcome>> /\ next' = 1
        /\ pc \in Before /\ pc' \in {"dependencies", "constraints", "search"}
        /\ pc' = "dependencies" => pc = "index" /\ next > Len(enabled)
        /\ pc' = "constraints" => pc = "dependencies" /\ next > Len(dependencies)
        /\ pc' = "search" => pc = "constraints" /\ next > Len(constraints)
    BY DEF EndLoop, Before
  <1>2. error = "none" /\ Fine /\ Fine'
    BY <1>1 DEF IInv, Phases, Before, Fine, outcome
  <1>3. TypeOK'
    BY <1>1 DEF IInv, TypeOK, inputs, building, searching, ordering, outcome, Nodes
  <1>4. Phases'
    BY <1>1, InputTypes
       DEF IInv, TypeOK, Phases, Before, inputs, building, searching, ordering, outcome, Nodes
  <1>5. Indexed'
    <2> SUFFICES \A n \in Nodes : enabled[n] \in DOMAIN indexes /\ indexes[enabled[n]] = n
      BY <1>1 DEF IInv, Indexed, Nodes, inputs, building
    <2>1. CASE pc = "index"
      <3>1. next - 1 = Len(enabled)
        BY <1>1, <2>1, InputTypes DEF IInv, TypeOK, Phases
      <3>2. QED
        BY <2>1, <3>1 DEF IInv, Indexed, Nodes
    <2>2. CASE pc # "index"
      BY <1>2, <2>2 DEF IInv, Indexed
    <2>3. QED
      BY <2>1, <2>2
  <1>6. EdgesAreRequired'
    <2>1. \A a, b : Linked(a, b)' <=> Linked(a, b)
      BY <1>1 DEF Linked, Id, inputs, building
    <2>2. Len(dependencies) \in Nat /\ DOMAIN dependencies = 1 .. Len(dependencies)
          /\ Len(constraints) \in Nat /\ DOMAIN constraints = 1 .. Len(constraints)
      BY InputTypes DEF IInv
    <2>3. \A e \in edges : e[1] # e[2] /\ (<<Id(e[1]), Id(e[2])>> \in Required)'
      BY <1>1 DEF IInv, EdgesAreRequired, Id, Required, Elements, inputs
    <2>4. pc' \in {"constraints", "search"} =>
            \A i \in DOMAIN dependencies :
              Linked(dependencies[i].required, dependencies[i].dependent)
      <3>1. CASE pc = "dependencies" /\ next > Len(dependencies)
        <4>1. next - 1 = Len(dependencies)
          BY <2>2, <3>1 DEF IInv, TypeOK, Phases
        <4>2. QED
          BY <2>2, <3>1, <4>1 DEF IInv, EdgesAreRequired
      <3>2. CASE pc = "constraints"
        BY <1>2, <3>2 DEF IInv, EdgesAreRequired
      <3>3. QED
        BY <1>1, <3>1, <3>2
    <2>5. pc' = "search" =>
            \A i \in DOMAIN constraints : Linked(constraints[i].before, constraints[i].after)
      <3>1. CASE pc = "constraints" /\ next > Len(constraints)
        <4>1. next - 1 = Len(constraints)
          BY <2>2, <3>1 DEF IInv, TypeOK, Phases
        <4>2. QED
          BY <2>2, <3>1, <4>1 DEF IInv, EdgesAreRequired
      <3>2. QED
        BY <1>1, <3>1
    <2>6. dependencies' = dependencies /\ constraints' = constraints /\ edges' = edges
      BY <1>1 DEF inputs, building
    <2>7. QED
      BY <1>1, <2>1, <2>3, <2>4, <2>5, <2>6 DEF EdgesAreRequired, Before
  <1>7. Placed' /\ CycleIsReal'
    BY <1>1 DEF IInv, Placed, CycleIsReal, Returns, Nodes, Before, inputs, building, ordering
  <1>8. Counted' /\ Stacked' /\ Rooted'
    BY <1>1, GraphUnchanged DEF building, ordering
  <1>9. QED
    BY <1>3, <1>4, <1>5, <1>6, <1>7, <1>8 DEF IInv

\* Putting an unvisited node on the stack, alone or on the node that points to
\* it, keeps the stack a path.
LEMMA PushStep ==
    ASSUME IInv, pc = "search", NEW n \in Nodes, states[n] = "Unvisited", Push(n),
           NEW rest \in [Nodes -> SUBSET Nodes],
           \/ path = <<>> /\ rest = todo
           \/ /\ path # <<>> /\ n \in todo[Top]
              /\ rest = [todo EXCEPT ![Top] = todo[Top] \ {n}],
           todo' = [rest EXCEPT ![n] = Children(n)], next' \in Nat \ {0},
           UNCHANGED <<inputs, pc, building, ordering, outcome>>
    PROVE  IInv'
  <1> DEFINE L == Len(path)
  <1>1. /\ path \in Seq(Nodes) /\ L \in Nat /\ DOMAIN path = 1 .. L
        /\ \A i \in 1 .. L : path[i] \in Nodes
        /\ path' = Append(path, n) /\ path' \in Seq(Nodes) /\ Len(path') = L + 1
        /\ DOMAIN path' = 1 .. L + 1 /\ path'[L + 1] = n
        /\ \A i \in 1 .. L : path'[i] = path[i]
        /\ Elements(path') = Elements(path) \union {n}
    BY AppendFacts DEF IInv, TypeOK, Push
  <1>2. /\ states' = [states EXCEPT ![n] = "Visiting"]
        /\ Nodes' = Nodes /\ edges' = edges /\ resolved' = resolved /\ indegrees' = indegrees
    BY DEF Push, inputs, building, ordering, Nodes
  <1>3. Visited' = Visited /\ n \notin Visited
    BY <1>2 DEF IInv, TypeOK, Visited
  <1>4. \A m \in Nodes : Children(m)' = Children(m) /\ Waiting(m)' = Waiting(m)
    BY <1>2 DEF Children, Waiting, Elements
  <1>5. n \notin Elements(path)
    BY DEF IInv, Stacked
  <1>6. \A i \in 1 .. L : path[i] # n
    BY <1>1, <1>5 DEF Elements
  <1>7. todo' \in [Nodes -> SUBSET Nodes]
    BY DEF Children
  <1>8. TypeOK'
    BY <1>1, <1>2, <1>7 DEF IInv, TypeOK, inputs, building, ordering, outcome
  <1>9. Phases' /\ Indexed' /\ CycleIsReal'
    BY <1>2 DEF IInv, Phases, Indexed, CycleIsReal, Returns, Fine, Before, Required, Elements,
                inputs, building, ordering, outcome
  <1>10. EdgesAreRequired'
    BY <1>2 DEF IInv, EdgesAreRequired, Id, Required, Elements, Linked, Fine, Before,
                inputs, outcome
  <1>11. Counted' /\ Rooted'
    BY <1>2, <1>3, <1>4 DEF IInv, Counted, Rooted
  <1>12. Placed'
    BY <1>2, <1>3 DEF IInv, Placed, Returns, Elements, ordering, outcome
  <1>13. Stacked'
    <2>1. \A i, j \in DOMAIN path' : path'[i] = path'[j] => i = j
      BY <1>1, <1>6 DEF IInv, Stacked
    <2>2. \A m \in Nodes : states'[m] = "Visiting" <=> m \in Elements(path')
      BY <1>1, <1>2 DEF IInv, TypeOK, Stacked
    <2>3. \A i \in 1 .. Len(path') - 1 : <<path'[i], path'[i + 1]>> \in edges
      <3> SUFFICES ASSUME NEW i \in 1 .. L
                   PROVE  <<path'[i], path'[i + 1]>> \in edges
        BY <1>1
      <3>1. CASE i < L
        <4>1. i \in 1 .. L - 1 /\ i + 1 \in 1 .. L
          BY <1>1, <3>1
        <4>2. QED
          BY <1>1, <4>1 DEF IInv, Stacked
      <3>2. CASE i = L
        <4>1. path # <<>> /\ n \in todo[Top] /\ Top = path[L]
          BY <1>1, <3>2 DEF Top
        <4>2. n \in Children(path[L])
          BY <1>1, <3>2, <4>1 DEF IInv, Stacked
        <4>3. QED
          BY <1>1, <3>2, <4>2 DEF Children
      <3>3. L \in Nat /\ i \in 1 .. L
        BY <1>1
      <3>4. QED
        BY <3>1, <3>2, <3>3
    <2>4. ASSUME NEW i \in DOMAIN path'
          PROVE  /\ todo'[path'[i]] \subseteq Children(path'[i])
                 /\ \A c \in Children(path'[i]) \ todo'[path'[i]] :
                       c \in Visited \/ (i < Len(path') /\ c = path'[i + 1])
      <3>1. CASE i = L + 1
        <4>1. todo'[path'[i]] = Children(path'[i])
          BY <1>1, <3>1
        <4>2. QED
          BY <4>1
      <3>2. CASE i = L /\ path # <<>>
        <4>1. i \in 1 .. L /\ Top = path[i] /\ path'[i] = path[i] /\ path[i] # n
          BY <1>1, <1>6, <2>4, <3>2 DEF Top
        <4>2. todo'[path[i]] = todo[path[i]] \ {n}
          BY <1>1, <3>2, <4>1 DEF IInv, TypeOK
        <4>3. /\ todo[path[i]] \subseteq Children(path[i])
              /\ \A c \in Children(path[i]) \ todo[path[i]] : c \in Visited
          BY <1>1, <3>2, <4>1 DEF IInv, Stacked
        <4>4. i < Len(path') /\ path'[i + 1] = n
          BY <1>1, <3>2
        <4>5. QED
          BY <4>1, <4>2, <4>3, <4>4
      <3>3. CASE i < L
        <4>1. i \in 1 .. L /\ i + 1 \in 1 .. L /\ path # <<>> /\ Top = path[L] /\ L \in 1 .. L
          BY <1>1, <2>4, <3>3 DEF Top
        <4>2. path[i] # path[L] /\ path[i] # n
          BY <1>1, <1>6, <3>3, <4>1 DEF IInv, Stacked
        <4>3. todo'[path[i]] = todo[path[i]]
          BY <1>1, <4>1, <4>2 DEF IInv, TypeOK
        <4>4. /\ todo[path[i]] \subseteq Children(path[i])
              /\ \A c \in Children(path[i]) \ todo[path[i]] :
                    c \in Visited \/ (i < L /\ c = path[i + 1])
          BY <1>1, <4>1 DEF IInv, Stacked
        <4>5. i < Len(path') /\ path'[i] = path[i] /\ path'[i + 1] = path[i + 1]
          BY <1>1, <4>1
        <4>6. QED
          BY <4>3, <4>4, <4>5
      <3>4. i = L + 1 \/ (i = L /\ path # <<>>) \/ i < L
        BY <1>1, <2>4
      <3>5. QED
        BY <3>1, <3>2, <3>3, <3>4
    <2>5. \A m \in Visited : Children(m) \subseteq Visited
      BY DEF IInv, Stacked
    <2>6. \A i \in DOMAIN path' : path'[i] \in Nodes
      BY <1>1
    <2>7. \A m \in Visited : m \in Nodes
      BY DEF Visited
    <2>8. Elements(path)' = Elements(path')
      BY DEF Elements
    <2>9. QED
      BY <1>2, <1>3, <1>4, <2>1, <2>2, <2>3, <2>4, <2>5, <2>6, <2>7, <2>8 DEF Stacked
  <1>14. QED
    BY <1>8, <1>9, <1>10, <1>11, <1>12, <1>13 DEF IInv

\* The search takes up an unvisited node with an empty stack, or passes over one
\* that has been visited.
LEMMA StartSearchStep ==
    ASSUME IInv, StartSearch
    PROVE  IInv'
  <1>1. /\ pc = "search" /\ path = <<>> /\ todo \in [Nodes -> SUBSET Nodes]
        /\ next \in Nodes /\ next' \in Nat \ {0}
        /\ UNCHANGED <<inputs, pc, building, ordering, outcome>>
    BY InputTypes DEF StartSearch, IInv, TypeOK, Nodes
  <1>2. CASE states[next] = "Unvisited"
    <2>1. Push(next) /\ todo' = [todo EXCEPT ![next] = Children(next)]
      BY <1>2 DEF StartSearch
    <2>2. QED
      BY <1>1, <1>2, <2>1, PushStep
  <1>3. CASE UNCHANGED searching
    <2>1. Counted' /\ Stacked' /\ Rooted'
      BY <1>1, <1>3, GraphUnchanged DEF building, ordering
    <2>2. TypeOK' /\ Phases' /\ Indexed' /\ CycleIsReal'
      BY <1>1, <1>3 DEF IInv, TypeOK, Phases, Indexed, CycleIsReal, Returns, Fine, Before,
                  Nodes, Required, Elements, inputs, building, searching, ordering, outcome
    <2>3. EdgesAreRequired'
      BY <1>1 DEF IInv, EdgesAreRequired, Id, Required, Elements, Linked, Fine, Before,
                  inputs, building, outcome
    <2>4. Placed'
      BY <1>1, <1>3 DEF IInv, Placed, Returns, Elements, Nodes, Visited, inputs, building,
                  searching, ordering, outcome
    <2>5. QED
      BY <2>1, <2>2, <2>3, <2>4 DEF IInv
  <1>4. QED
    BY <1>2, <1>3 DEF StartSearch

\* A node is finished when all nodes it points to are: no finished node can
\* point to it, and with it the finished nodes stay Rooted.
LEMMA FinishNodeStep ==
    ASSUME IInv, FinishNode
    PROVE  IInv'
  <1> DEFINE L == Len(path)
  <1>1. /\ pc = "search" /\ path # <<>> /\ todo[Top] = {}
        /\ states' = [states EXCEPT ![Top] = "Visited"]
        /\ path' = SubSeq(path, 1, L - 1)
        /\ UNCHANGED <<inputs, pc, next, building, todo, ordering, outcome>>
    BY DEF FinishNode
  <1>2. /\ L \in Nat \ {0} /\ DOMAIN path = 1 .. L /\ \A i \in 1 .. L : path[i] \in Nodes
        /\ path' \in Seq(Nodes) /\ Len(path') = L - 1 /\ DOMAIN path' = 1 .. L - 1
        /\ \A i \in 1 .. L - 1 : path'[i] = path[i] /\ i \in 1 .. L /\ i + 1 \in 1 .. L
        /\ L \in 1 .. L /\ Top = path[L]
    <2>1. path \in Seq(Nodes)
      BY DEF IInv, TypeOK
    <2>2. QED
      BY <1>1, <2>1, FrontFacts DEF Top
  <1>3. /\ Nodes' = Nodes /\ edges' = edges /\ resolved' = resolved /\ indegrees' = indegrees
        /\ todo' = todo
    BY <1>1 DEF inputs, building, ordering, Nodes
  <1>4. Top \in Nodes /\ states[Top] = "Visiting" /\ Top \notin Visited
    BY <1>2 DEF IInv, Stacked, Elements, Visited
  <1>5. Visited' = Visited \union {Top}
    BY <1>1, <1>3, <1>4 DEF IInv, TypeOK, Visited
  <1>6. Children(Top) \subseteq Visited
    BY <1>1, <1>2 DEF IInv, Stacked
  <1>7. \A m \in Nodes : Children(m)' = Children(m) /\ Waiting(m)' = Waiting(m)
    BY <1>3 DEF Children, Waiting, Elements
  <1>8. TypeOK'
    BY <1>1, <1>2, <1>3, <1>4 DEF IInv, TypeOK, inputs, building, ordering, outcome
  <1>9. Phases' /\ Indexed' /\ CycleIsReal'
    BY <1>1, <1>3 DEF IInv, Phases, Indexed, CycleIsReal, Returns, Fine, Before, Required,
                      Elements, inputs, building, ordering, outcome
  <1>10. EdgesAreRequired'
    BY <1>1, <1>3 DEF IInv, EdgesAreRequired, Id, Required, Elements, Linked, Fine, Before,
                      inputs, outcome
  <1>11. Counted'
    BY <1>3, <1>7 DEF IInv, Counted
  <1>12. Placed'
    BY <1>1, <1>3 DEF IInv, Placed, Returns, Elements, ordering, outcome
  <1>13. Stacked'
    <2>1. \A i, j \in DOMAIN path' : path'[i] = path'[j] => i = j
      BY <1>2 DEF IInv, Stacked
    <2>2. \A m \in Nodes : states'[m] = "Visiting" <=> m \in Elements(path')
      <3>1. \A m \in Nodes : m \in Elements(path') <=> m \in Elements(path) /\ m # Top
        <4>1. \A i \in 1 .. L : i \in 1 .. L - 1 \/ i = L
          <5>1. L \in Nat \ {0}
            BY <1>2
          <5>2. QED
            BY <5>1
        <4>2. \A i \in 1 .. L - 1 : path[i] # Top
          BY <1>2 DEF IInv, Stacked
        <4>3. QED
          BY <1>2, <4>1, <4>2 DEF Elements
      <3>2. QED
        BY <1>1, <1>4, <3>1 DEF IInv, TypeOK, Stacked
    <2>3. \A i \in 1 .. Len(path') - 1 : <<path'[i], path'[i + 1]>> \in edges
      <3> SUFFICES ASSUME NEW i \in 1 .. L - 2
                   PROVE  <<path'[i], path'[i + 1]>> \in edges
        BY <1>2
      <3>1. i \in 1 .. L - 1 /\ i + 1 \in 1 .. L - 1
        BY <1>2
      <3>2. QED
        BY <1>2, <3>1 DEF IInv, Stacked
    <2>4. ASSUME NEW i \in DOMAIN path'
          PROVE  /\ todo[path'[i]] \subseteq Children(path'[i])
                 /\ \A c \in Children(path'[i]) \ todo[path'[i]] :
                       c \in Visited \union {Top} \/ (i < Len(path') /\ c = path'[i + 1])
      <3>1. i \in 1 .. L - 1 /\ path'[i] = path[i]
        BY <1>2, <2>4
      <3>2. /\ todo[path[i]] \subseteq Children(path[i])
            /\ \A c \in Children(path[i]) \ todo[path[i]] : c \in Visited \/ c = path[i + 1]
        BY <1>2, <3>1 DEF IInv, Stacked
      <3>3. path[i + 1] = Top \/ (i < Len(path') /\ path[i + 1] = path'[i + 1])
        BY <1>2, <3>1
      <3>4. QED
        BY <3>1, <3>2, <3>3
    <2>5. \A m \in Visited' : Children(m) \subseteq Visited'
      BY <1>5, <1>6 DEF IInv, Stacked
    <2>6. \A i \in DOMAIN path' : path'[i] \in Nodes
      BY <1>2
    <2>7. \A m \in Visited' : m \in Nodes
      BY <1>3 DEF Visited
    <2>8. Elements(path)' = Elements(path')
      BY DEF Elements
    <2>9. QED
      BY <1>3, <1>5, <1>7, <2>1, <2>2, <2>3, <2>4, <2>5, <2>6, <2>7, <2>8 DEF Stacked
  <1>14. Rooted'
    <2> SUFFICES ASSUME NEW S \in SUBSET (Visited \union {Top}), S # {}
                 PROVE  \E n \in S : \A m \in S : <<m, n>> \notin edges
      BY <1>3, <1>5 DEF Rooted
    <2>1. CASE Top \in S
      <3>1. \A m \in Visited \union {Top} : m \in Nodes /\ Top \notin Children(m)
        BY <1>4, <1>6 DEF IInv, Stacked, Visited
      <3>2. \A m \in S : <<m, Top>> \notin edges
        BY <1>4, <3>1 DEF Children
      <3>3. QED
        BY <2>1, <3>2
    <2>2. CASE Top \notin S
      BY <2>2 DEF IInv, Rooted
    <2>3. QED
      BY <2>1, <2>2
  <1>15. QED
    BY <1>8, <1>9, <1>10, <1>11, <1>12, <1>13, <1>14 DEF IInv

\* The path from the child to the top of the stack closes into a cycle.
LEMMA CycleFound ==
    ASSUME IInv, pc = "search", path # <<>>, NEW child \in todo[Top],
           states[child] = "Visiting", Fail("Cycle", CycleThrough(child))
    PROVE  IInv'
  <1> DEFINE L == Len(path)
             start == CHOOSE i \in DOMAIN path : path[i] = child
             K == L - start + 1
             walk == [i \in 1 .. K |-> Id(path[start + i - 1])]
             ids == CycleThrough(child)
  <1>1. /\ UNCHANGED <<inputs, next, building, searching, ordering>>
        /\ pc' = "done" /\ error' = "Cycle" /\ culprits' = ids
    BY DEF Fail
  <1>2. /\ L \in Nat \ {0} /\ DOMAIN path = 1 .. L /\ \A i \in 1 .. L : path[i] \in Nodes
        /\ Top = path[L] /\ L \in 1 .. L
    BY DEF IInv, TypeOK, Top
  <1>3. child \in Children(Top) /\ child \in Nodes
    BY <1>2 DEF IInv, Stacked, TypeOK
  <1>4. <<Top, child>> \in edges /\ Top # child
    BY <1>3 DEF Children, IInv, EdgesAreRequired
  <1>5. child \in Elements(path)
    BY <1>3 DEF IInv, Stacked
  <1>6. start \in 1 .. L /\ path[start] = child
    BY <1>2, <1>5 DEF Elements
  <1> HIDE DEF start
  <1>7. start < L /\ K \in Nat /\ K >= 2
    BY <1>2, <1>4, <1>6
  <1>8. \A i \in 1 .. K : start + i - 1 \in 1 .. L /\ path[start + i - 1] \in Nodes
    BY <1>2, <1>6, <1>7
  <1>9. \A n \in Nodes : Id(n) \in PackageIds
    BY InputTypes DEF IInv
  <1>10. walk \in Seq(PackageIds) /\ Len(walk) = K /\ <<Id(child)>> \in Seq(PackageIds)
    BY <1>3, <1>7, <1>8, <1>9
  <1>11. ids = walk \o <<Id(child)>>
    BY DEF CycleThrough, start
  <1> HIDE DEF ids
  <1>12. /\ ids \in Seq(PackageIds) /\ Len(ids) = K + 1
         /\ \A i \in 1 .. K : ids[i] = Id(path[start + i - 1])
         /\ ids[K + 1] = Id(child)
    BY <1>7, <1>10, <1>11
  <1>13. \A i \in 1 .. K : <<ids[i], ids[i + 1]>> \in Required
    <2> SUFFICES ASSUME NEW i \in 1 .. K
                 PROVE  <<ids[i], ids[i + 1]>> \in Required
      OBVIOUS
    <2> DEFINE a == start + i - 1
    <2>1. CASE i = K
      <3>1. a = L /\ ids[i] = Id(path[a]) /\ ids[i + 1] = Id(child)
        BY <1>2, <1>6, <1>12, <2>1
      <3>2. QED
        BY <1>2, <1>4, <3>1 DEF IInv, EdgesAreRequired
    <2>2. CASE i # K
      <3>1. i + 1 \in 1 .. K /\ start + (i + 1) - 1 = a + 1 /\ a \in 1 .. L - 1
        BY <1>2, <1>6, <1>7, <2>2
      <3>2. ids[i] = Id(path[a]) /\ ids[i + 1] = Id(path[a + 1])
        BY <1>12, <3>1
      <3>3. <<path[a], path[a + 1]>> \in edges
        BY <3>1 DEF IInv, Stacked
      <3>4. QED
        BY <3>2, <3>3 DEF IInv, EdgesAreRequired
    <2>3. QED
      BY <2>1, <2>2
  <1>14. \A i, j \in 1 .. K : ids[i] = ids[j] => i = j
    <2> SUFFICES ASSUME NEW i \in 1 .. K, NEW j \in 1 .. K, ids[i] = ids[j]
                 PROVE  i = j
      OBVIOUS
    <2> DEFINE a == start + i - 1
               b == start + j - 1
    <2>1. a \in 1 .. L /\ b \in 1 .. L /\ path[a] \in Nodes /\ path[b] \in Nodes
      BY <1>8
    <2>2. enabled[path[a]] = enabled[path[b]]
      BY <1>12 DEF Id
    <2>3. Fine /\ pc # "index"
      BY DEF IInv, Phases, Fine
    <2>4. indexes[enabled[path[a]]] = path[a] /\ indexes[enabled[path[b]]] = path[b]
      BY <2>1, <2>3 DEF IInv, Indexed
    <2>5. path[a] = path[b]
      BY <2>2, <2>4
    <2>6. a = b
      BY <1>2, <2>1, <2>5 DEF IInv, Stacked
    <2>7. QED
      BY <1>2, <1>6, <2>6
  <1>15. CycleIsReal'
    <2>1. Required' = Required
      BY <1>1 DEF Required, Elements, inputs
    <2>2. ids[1] = ids[Len(ids)]
      <3>1. 1 \in 1 .. K /\ start + 1 - 1 = start
        BY <1>6, <1>7
      <3>2. QED
        BY <1>6, <1>12, <3>1
    <2>3. Len(ids) >= 3 /\ Len(ids) - 1 = K
      BY <1>7, <1>12
    <2>4. QED
      BY <1>1, <1>13, <1>14, <2>1, <2>2, <2>3 DEF CycleIsReal
  <1>16. TypeOK'
    BY <1>1, <1>12 DEF IInv, TypeOK, ErrorCodes, inputs, building, searching, ordering, Nodes
  <1>17. ~(Returns("none"))' /\ Fine
    BY <1>1 DEF Returns, IInv, Phases, Fine
  <1>18. Phases'
    BY <1>1 DEF Phases, Before
  <1>19. Indexed'
    BY <1>1, <1>17 DEF IInv, Indexed, inputs, building, Nodes
  <1>20. EdgesAreRequired'
    BY <1>1, <1>17 DEF IInv, EdgesAreRequired, Id, Required, Elements, Linked, inputs,
                       building, Before
  <1>21. Placed'
    BY <1>1, <1>17 DEF IInv, Placed, Nodes, inputs, building, ordering
  <1>22. Counted' /\ Stacked' /\ Rooted'
    BY <1>1, GraphUnchanged DEF building, ordering
  <1>23. QED
    BY <1>15, <1>16, <1>18, <1>19, <1>20, <1>21, <1>22 DEF IInv

\* A finished child is only crossed off.
LEMMA CrossOffChild ==
    ASSUME IInv, pc = "search", path # <<>>, NEW child \in todo[Top],
           states[child] = "Visited", todo' = [todo EXCEPT ![Top] = todo[Top] \ {child}],
           UNCHANGED <<inputs, pc, next, building, states, path, ordering, outcome>>
    PROVE  IInv'
  <1> DEFINE L == Len(path)
  <1>1. /\ Nodes' = Nodes /\ edges' = edges /\ resolved' = resolved /\ indegrees' = indegrees
        /\ path' = path /\ states' = states
    BY DEF inputs, building, ordering, Nodes
  <1>2. /\ L \in Nat \ {0} /\ DOMAIN path = 1 .. L /\ \A i \in 1 .. L : path[i] \in Nodes
        /\ Top = path[L] /\ L \in 1 .. L
    BY DEF IInv, TypeOK, Top
  <1>3. child \in Visited
    BY <1>2 DEF IInv, TypeOK, Visited
  <1>4. Visited' = Visited
    BY <1>1 DEF Visited
  <1>5. \A m \in Nodes : Children(m)' = Children(m) /\ Waiting(m)' = Waiting(m)
    BY <1>1 DEF Children, Waiting, Elements
  <1>6. TypeOK'
    BY <1>1, <1>2 DEF IInv, TypeOK, inputs, building, ordering, outcome
  <1>7. Phases' /\ Indexed' /\ CycleIsReal'
    BY <1>1 DEF IInv, Phases, Indexed, CycleIsReal, Returns, Fine, Before, Required,
                Elements, inputs, building, ordering, outcome
  <1>8. EdgesAreRequired'
    BY <1>1 DEF IInv, EdgesAreRequired, Id, Required, Elements, Linked, Fine, Before,
                inputs, outcome
  <1>9. Counted' /\ Rooted'
    BY <1>1, <1>4, <1>5 DEF IInv, Counted, Rooted
  <1>10. Placed'
    BY <1>1, <1>4 DEF IInv, Placed, Returns, Elements, ordering, outcome
  <1>11. Stacked'
    <2>1. ASSUME NEW i \in DOMAIN path
          PROVE  /\ todo'[path[i]] \subseteq Children(path[i])
                 /\ \A c \in Children(path[i]) \ todo'[path[i]] :
                       c \in Visited \/ (i < Len(path) /\ c = path[i + 1])
      <3>1. todo'[path[i]] = todo[path[i]] \/ todo'[path[i]] = todo[path[i]] \ {child}
        BY <1>2, <2>1 DEF IInv, TypeOK
      <3>2. QED
        BY <1>3, <2>1, <3>1 DEF IInv, Stacked
    <2>2. \A i \in DOMAIN path : path[i] \in Nodes
      BY <1>2
    <2>3. \A m \in Visited : m \in Nodes
      BY DEF Visited
    <2>4. Elements(path)' = Elements(path)
      BY <1>1 DEF Elements
    <2>5. QED
      BY <1>1, <1>4, <1>5, <2>1, <2>2, <2>3, <2>4 DEF IInv, Stacked
  <1>12. QED
    BY <1>6, <1>7, <1>8, <1>9, <1>10, <1>11 DEF IInv

\* A child is pushed, closes a cycle, or is crossed off because it is finished.
LEMMA LookAtChildStep ==
    ASSUME IInv, LookAtChild
    PROVE  IInv'
  <1>1. pc = "search" /\ path # <<>> /\ Top \in Nodes /\ todo[Top] \subseteq Nodes
    BY DEF LookAtChild, IInv, TypeOK, Top
  <1>2. PICK child \in todo[Top] :
            \/ /\ states[child] = "Unvisited"
               /\ Push(child)
               /\ todo' = [[todo EXCEPT ![Top] = todo[Top] \ {child}]
                              EXCEPT ![child] = Children(child)]
               /\ UNCHANGED <<inputs, pc, next, building, ordering, outcome>>
            \/ /\ states[child] = "Visiting"
               /\ Fail("Cycle", CycleThrough(child))
            \/ /\ states[child] = "Visited"
               /\ todo' = [todo EXCEPT ![Top] = todo[Top] \ {child}]
               /\ UNCHANGED <<inputs, pc, next, building, states, path, ordering, outcome>>
    BY DEF LookAtChild
  <1>3. CASE states[child] = "Unvisited"
    <2> DEFINE rest == [todo EXCEPT ![Top] = todo[Top] \ {child}]
    <2>1. rest \in [Nodes -> SUBSET Nodes]
      BY <1>1 DEF IInv, TypeOK
    <2>2. /\ Push(child) /\ todo' = [rest EXCEPT ![child] = Children(child)]
          /\ UNCHANGED <<inputs, pc, next, building, ordering, outcome>>
      BY <1>2, <1>3
    <2>3. next' \in Nat \ {0}
      BY <2>2 DEF IInv, TypeOK
    <2>4. QED
      BY <1>1, <1>3, <2>1, <2>2, <2>3, PushStep
  <1>4. CASE states[child] = "Visiting"
    BY <1>1, <1>2, <1>4, CycleFound
  <1>5. CASE states[child] = "Visited"
    BY <1>1, <1>2, <1>5, CrossOffChild
  <1>6. QED
    BY <1>2, <1>3, <1>4, <1>5

\* When the search is over every node is finished, so that Rooted covers all nodes.
LEMMA EndSearchStep ==
    ASSUME IInv, Reached, EndSearch
    PROVE  IInv'
  <1>1. /\ pc = "search" /\ path = <<>> /\ \A n \in Nodes : states[n] # "Unvisited"
        /\ ready' = {n \in Nodes : indegrees[n] = 0} /\ pc' = "order"
        /\ UNCHANGED <<inputs, next, building, searching, resolved, outcome>>
    <2>1. next > Len(enabled) /\ next \in Nat /\ Len(enabled) \in Nat
      BY InputTypes DEF EndSearch, IInv, TypeOK
    <2>2. \A n \in Nodes : n < next
      BY <2>1 DEF Nodes
    <2>3. QED
      BY <2>2 DEF EndSearch, Reached
  <1>2. /\ Nodes' = Nodes /\ indegrees' = indegrees /\ edges' = edges /\ resolved = <<>>
        /\ Elements(resolved)' = {} /\ error = "none"
    BY <1>1 DEF IInv, Phases, Before, Elements, Nodes, inputs, building
  <1>3. Visited' = Nodes
    <2>1. Elements(path) = {}
      BY <1>1 DEF Elements
    <2>2. \A n \in Nodes : states[n] = "Visited"
      BY <1>1, <2>1 DEF IInv, TypeOK, Stacked
    <2>3. QED
      BY <1>1, <1>2, <2>2 DEF Visited, searching
  <1>4. TypeOK'
    BY <1>1, <1>2 DEF IInv, TypeOK, inputs, building, searching, outcome
  <1>5. Phases' /\ Indexed' /\ CycleIsReal'
    BY <1>1, <1>2 DEF IInv, Phases, Indexed, CycleIsReal, Returns, Fine, Before, inputs,
                      building, outcome
  <1>6. EdgesAreRequired'
    BY <1>1, <1>2 DEF IInv, EdgesAreRequired, Id, Required, Elements, Linked, Fine, Before,
                      inputs, outcome
  <1>7. Placed'
    BY <1>1, <1>2, <1>3 DEF IInv, Placed, Returns, outcome
  <1>8. Counted' /\ Stacked' /\ Rooted'
    BY <1>1, GraphUnchanged DEF building
  <1>9. QED
    BY <1>4, <1>5, <1>6, <1>7, <1>8 DEF IInv

\* The node placed is one node less to wait for, for each of its children, and
\* a child whose count comes down to zero is ready.
LEMMA TakeReadyStep ==
    ASSUME IInv, TakeReady
    PROVE  IInv'
  <1>1. PICK p \in ready :
            /\ resolved' = Append(resolved, p)
            /\ indegrees' = [n \in Nodes |-> IF n \in Children(p) THEN indegrees[n] - 1
                                             ELSE indegrees[n]]
            /\ ready' = (ready \ {p}) \union {n \in Children(p) : indegrees[n] = 1}
    BY DEF TakeReady
  <1>2. /\ pc = "order" /\ pc' = "order" /\ edges' = edges /\ Nodes' = Nodes /\ error = "none"
        /\ UNCHANGED <<inputs, next, indexes, searching, outcome>>
    BY DEF TakeReady, Nodes, inputs, IInv, Phases
  <1>3. /\ p \in Nodes /\ p \notin Elements(resolved) /\ indegrees[p] = 0
    BY <1>2 DEF IInv, Placed
  <1>4. /\ resolved' \in Seq(Nodes) /\ Len(resolved) \in Nat
        /\ DOMAIN resolved = 1 .. Len(resolved) /\ DOMAIN resolved' = 1 .. Len(resolved) + 1
        /\ \A i \in 1 .. Len(resolved) : resolved'[i] = resolved[i]
        /\ resolved'[Len(resolved) + 1] = p
        /\ Elements(resolved') = Elements(resolved) \union {p}
    BY <1>1, <1>3, AppendFacts DEF IInv, TypeOK
  <1>5. Elements(resolved)' = Elements(resolved')
    BY DEF Elements
  <1>6. \A n \in Nodes : n \in Children(p) <=> p \in Waiting(n)
    BY <1>3 DEF Children, Waiting
  <1>7. \A n \in Nodes : Waiting(n)' = Waiting(n) \ {p}
    BY <1>2, <1>4, <1>5 DEF Waiting
  <1>8. \A n \in Nodes :
            /\ indegrees[n] = Cardinality(Waiting(n))
            /\ indegrees'[n] = Cardinality(Waiting(n) \ {p}) /\ indegrees'[n] \in Nat
            /\ n \in Children(p) => indegrees[n] >= 1
    <2> SUFFICES ASSUME NEW n \in Nodes
                 PROVE  /\ indegrees[n] = Cardinality(Waiting(n))
                        /\ indegrees'[n] = Cardinality(Waiting(n) \ {p})
                        /\ indegrees'[n] \in Nat
                        /\ n \in Children(p) => indegrees[n] >= 1
      OBVIOUS
    <2>1. indegrees[n] = Cardinality(Waiting(n))
      BY DEF IInv, Counted
    <2>2. IsFiniteSet(Waiting(n)) /\ Cardinality(Waiting(n)) \in Nat
      BY WaitingFinite DEF IInv
    <2>3. CASE n \in Children(p)
      <3>1. /\ IsFiniteSet(Waiting(n) \ {p})
            /\ Cardinality(Waiting(n) \ {p}) = Cardinality(Waiting(n)) - 1
        BY <1>6, <2>2, <2>3, FS_RemoveElement
      <3>2. Cardinality(Waiting(n) \ {p}) \in Nat
        BY <3>1, FS_CardinalityType
      <3>3. indegrees'[n] = indegrees[n] - 1
        BY <1>1, <2>3
      <3>4. QED
        BY <2>1, <2>2, <3>1, <3>2, <3>3
    <2>4. CASE n \notin Children(p)
      <3>1. Waiting(n) \ {p} = Waiting(n)
        BY <1>6, <2>4
      <3>2. indegrees'[n] = indegrees[n]
        BY <1>1, <2>4
      <3>3. QED
        BY <2>1, <2>2, <2>4, <3>1, <3>2
    <2>5. QED
      BY <2>3, <2>4
  <1>9. Counted'
    BY <1>2, <1>7, <1>8 DEF Counted
  <1>10. ready' \subseteq Nodes /\ indegrees' \in [Nodes -> Nat]
    <2>1. \A n \in Nodes : indegrees'[n] \in Nat
      BY <1>8
    <2>2. indegrees' = [n \in Nodes |-> indegrees'[n]]
      BY <1>1
    <2>3. QED
      BY <1>1, <2>1, <2>2 DEF IInv, TypeOK, Children
  <1>11. TypeOK'
    BY <1>2, <1>4, <1>10 DEF IInv, TypeOK, inputs, searching, outcome
  <1>12. Visited' = Visited /\ \A m \in Nodes : Children(m)' = Children(m)
    BY <1>2 DEF Visited, Children, searching
  <1>13. Phases' /\ Indexed' /\ CycleIsReal'
    BY <1>2 DEF IInv, Phases, Indexed, CycleIsReal, Returns, Fine, Before, inputs, outcome
  <1>14. EdgesAreRequired'
    BY <1>2 DEF IInv, EdgesAreRequired, Id, Required, Elements, Linked, Fine, Before,
                inputs, outcome
  <1>15. Rooted'
    BY <1>2, <1>12 DEF IInv, Rooted
  <1>16. Stacked'
    <2>1. \A i \in DOMAIN path : path[i] \in Nodes
      BY DEF IInv, TypeOK
    <2>2. \A m \in Visited : m \in Nodes
      BY DEF Visited
    <2>3. path' = path /\ todo' = todo /\ states' = states /\ Elements(path)' = Elements(path)
      BY <1>2 DEF searching, Elements
    <2>4. QED
      BY <1>2, <1>12, <2>1, <2>2, <2>3 DEF IInv, Stacked
  <1>17. Placed'
    <2>1. \A i, j \in DOMAIN resolved' : resolved'[i] = resolved'[j] => i = j
      BY <1>3, <1>4 DEF IInv, Placed, Elements
    <2>2. ASSUME NEW i \in DOMAIN resolved', NEW m \in Nodes, <<m, resolved'[i]>> \in edges
          PROVE  \E j \in DOMAIN resolved' : j < i /\ resolved'[j] = m
      <3>1. CASE i = Len(resolved) + 1
        <4>1. Waiting(p) = {}
          <5>1. IsFiniteSet(Waiting(p)) /\ Cardinality(Waiting(p)) = 0
            BY <1>3, <1>8, WaitingFinite DEF IInv
          <5>2. QED
            BY <5>1, FS_EmptySet
        <4>2. m \in Elements(resolved)
          BY <1>4, <2>2, <3>1, <4>1 DEF Waiting
        <4>3. QED
          BY <1>4, <3>1, <4>2 DEF Elements
      <3>2. CASE i # Len(resolved) + 1
        <4>1. i \in 1 .. Len(resolved) /\ resolved'[i] = resolved[i]
          BY <1>4, <2>2, <3>2
        <4>2. PICK j \in DOMAIN resolved : j < i /\ resolved[j] = m
          BY <1>4, <2>2, <4>1 DEF IInv, Placed
        <4>3. QED
          BY <1>4, <4>2
      <3>3. QED
        BY <3>1, <3>2
    <2>3. ready' = {n \in Nodes \ Elements(resolved') : indegrees'[n] = 0}
      <3>1. \A n \in Children(p) : n \in Nodes /\ n # p /\ n \notin Elements(resolved)
        <4> SUFFICES ASSUME NEW n \in Children(p), n = p \/ n \in Elements(resolved)
                     PROVE  FALSE
          BY DEF Children
        <4>1. <<p, n>> \in edges
          BY DEF Children
        <4>2. n # p
          BY <4>1 DEF IInv, EdgesAreRequired
        <4>3. p \in Elements(resolved)
          BY <1>3, <4>1, <4>2 DEF IInv, Placed, Elements
        <4>4. QED
          BY <1>3, <4>3
      <3>2. ready = {n \in Nodes \ Elements(resolved) : indegrees[n] = 0}
        BY <1>2 DEF IInv, Placed
      <3>3. \A n \in Nodes : indegrees[n] \in Nat
        BY DEF IInv, TypeOK
      <3>4. ASSUME NEW n \in ready'
            PROVE  n \in Nodes \ Elements(resolved') /\ indegrees'[n] = 0
        <4>1. CASE n \in ready \ {p}
          <5>1. n \notin Children(p)
            <6>1. n \in Nodes /\ indegrees[n] = 0
              BY <3>2, <4>1
            <6>2. n \in Children(p) => indegrees[n] >= 1
              BY <1>8, <6>1
            <6>3. QED
              BY <6>1, <6>2
          <5>2. QED
            BY <1>1, <1>4, <3>2, <4>1, <5>1
        <4>2. CASE n \in Children(p) /\ indegrees[n] = 1
          BY <1>1, <1>4, <3>1, <4>2
        <4>3. QED
          BY <1>1, <3>4, <4>1, <4>2
      <3>5. ASSUME NEW n \in Nodes \ Elements(resolved'), indegrees'[n] = 0
            PROVE  n \in ready'
        <4>1. CASE n \in Children(p)
          BY <1>1, <3>3, <3>5, <4>1
        <4>2. CASE n \notin Children(p)
          BY <1>1, <1>4, <3>2, <3>5, <4>2
        <4>3. QED
          BY <4>1, <4>2
      <3>6. QED
        BY <1>10, <3>4, <3>5
    <2>4. Visited' = Nodes
      BY <1>2, <1>12 DEF IInv, Placed
    <2>5. QED
      BY <1>2, <1>5, <2>1, <2>2, <2>3, <2>4 DEF Placed, Returns
  <1>18. QED
    BY <1>9, <1>11, <1>13, <1>14, <1>15, <1>16, <1>17 DEF IInv

\* With nothing ready and a Rooted graph, nothing is left.
LEMMA SucceedStep ==
    ASSUME IInv, Succeed
    PROVE  IInv'
  <1>1. /\ pc = "order" /\ ready = {} /\ pc' = "done" /\ error = "none"
        /\ UNCHANGED <<inputs, next, building, searching, ordering, outcome>>
    BY DEF Succeed, IInv, Phases
  <1>2. Nodes \subseteq Elements(resolved)
    <2> DEFINE Left == Nodes \ Elements(resolved)
    <2> SUFFICES ASSUME Left # {}
                 PROVE  FALSE
      OBVIOUS
    <2>1. Left \in SUBSET Visited
      BY <1>1 DEF IInv, Placed
    <2>2. PICK n \in Left : \A m \in Left : <<m, n>> \notin edges
      BY <2>1 DEF IInv, Rooted
    <2>3. Waiting(n) = {}
      BY <2>2 DEF Waiting
    <2>4. indegrees[n] = 0
      BY <2>3, FS_EmptySet DEF IInv, Counted
    <2>5. n \in ready
      BY <1>1, <2>4 DEF IInv, Placed
    <2>6. QED
      BY <1>1, <2>5
  <1>3. TypeOK'
    BY <1>1 DEF IInv, TypeOK, inputs, building, searching, ordering, outcome, Nodes
  <1>4. Phases' /\ Indexed' /\ CycleIsReal'
    BY <1>1 DEF IInv, Phases, Indexed, CycleIsReal, Returns, Fine, Before, Nodes, inputs,
                building, ordering, outcome
  <1>5. EdgesAreRequired'
    BY <1>1 DEF IInv, EdgesAreRequired, Id, Required, Elements, Linked, Fine, Before,
                inputs, building, outcome
  <1>6. Placed'
    BY <1>1, <1>2 DEF IInv, Placed, Returns, Elements, Nodes, inputs, building, ordering
  <1>7. Counted' /\ Stacked' /\ Rooted'
    BY <1>1, GraphUnchanged DEF building, ordering
  <1>8. QED
    BY <1>3, <1>4, <1>5, <1>6, <1>7 DEF IInv

\* Every step of create keeps the invariant.
LEMMA StepIInv ==
    ASSUME IInv, Reached, [Next]_vars
    PROVE  IInv'
  <1>1. CASE Create
    BY <1>1, IndexPackageStep, LinkDependencyStep, LinkConstraintStep, EndLoopStep,
       StartSearchStep, FinishNodeStep, LookAtChildStep, EndSearchStep, TakeReadyStep,
       SucceedStep DEF Create
  <1>2. CASE UNCHANGED vars
    <2>1. Counted' /\ Stacked' /\ Rooted'
      BY <1>2, GraphUnchanged DEF vars, building, ordering
    <2>2. TypeOK' /\ Phases' /\ Indexed' /\ CycleIsReal'
      BY <1>2 DEF IInv, TypeOK, Phases, Indexed, CycleIsReal, Returns, Fine, Before, Nodes,
                  Required, Elements, vars, inputs, building, searching, ordering, outcome
    <2>3. EdgesAreRequired'
      BY <1>2 DEF IInv, EdgesAreRequired, Id, Required, Elements, Linked, Fine, Before,
                  vars, inputs, building, outcome
    <2>4. Placed'
      BY <1>2 DEF IInv, Placed, Returns, Elements, Nodes, Visited, vars, inputs, building,
                  searching, ordering, outcome
    <2>5. QED
      BY <2>1, <2>2, <2>3, <2>4 DEF IInv
  <1>3. QED
    BY <1>1, <1>2 DEF Next, Returned

\* No step takes a node back to unvisited.
LEMMA StepReached ==
    ASSUME IInv, Reached, [Next]_vars
    PROVE  Reached'
  <1>1. CASE StartSearch
    <2>1. next' = next + 1 /\ next \in Nat /\ Len(enabled)' = Len(enabled)
          /\ Len(enabled) \in Nat /\ next <= Len(enabled) /\ Nodes' = Nodes
          /\ \A n \in Nodes : n \in Nat
      BY <1>1, InputTypes DEF StartSearch, IInv, TypeOK, Nodes, inputs
    <2>2. ASSUME NEW n \in Nodes, n < next'
          PROVE  states'[n] # "Unvisited"
      <3>1. n = next \/ n < next
        BY <2>1, <2>2
      <3>2. n < next => states[n] # "Unvisited"
        BY <1>1 DEF Reached, StartSearch
      <3>3. QED
        BY <1>1, <3>1, <3>2 DEF StartSearch, Push, searching, IInv, TypeOK
    <2>3. QED
      BY <2>1, <2>2 DEF Reached
  <1>2. CASE FinishNode \/ LookAtChild
    <2>1. pc' = "search" => next' = next /\ UNCHANGED inputs /\ pc = "search"
      BY <1>2 DEF FinishNode, LookAtChild, Fail
    <2>2. ASSUME NEW n \in Nodes, states[n] # "Unvisited", pc' = "search"
          PROVE  states'[n] # "Unvisited"
      BY <1>2, <2>2 DEF FinishNode, LookAtChild, Push, Fail, IInv, TypeOK
    <2>3. QED
      BY <2>1, <2>2 DEF Reached, inputs, Nodes
  <1>3. CASE EndLoop
    <2>1. next' = 1 /\ Len(enabled)' \in Nat /\ \A n \in Nodes' : n >= 1
      BY <1>3, InputTypes DEF EndLoop, IInv, Nodes, inputs
    <2>2. \A n \in Nodes' : ~(n < next')
      BY <2>1 DEF Nodes
    <2>3. QED
      BY <2>1, <2>2 DEF Reached
  <1>4. CASE IndexPackage \/ LinkDependency \/ LinkConstraint \/ EndSearch \/ TakeReady
             \/ Succeed
    <2>1. pc' # "search"
      BY <1>4 DEF IndexPackage, LinkDependency, LinkConstraint, EndSearch, TakeReady,
                  Succeed, Fail
    <2>2. QED
      BY <2>1 DEF Reached
  <1>5. CASE UNCHANGED vars
    BY <1>5 DEF Reached, vars, inputs, searching, Nodes
  <1>6. QED
    BY <1>1, <1>2, <1>3, <1>4, <1>5 DEF Next, Create, Returned

\* IInv holds in every state of every call of create.
THEOREM Invariance == Spec => []IInv
  <1>1. Init => IInv /\ Reached
    BY InitIInv DEF Init, Reached
  <1>2. IInv /\ Reached /\ [Next]_vars => IInv' /\ Reached'
    BY StepIInv, StepReached
  <1>3. QED
    BY <1>1, <1>2, PTL DEF Spec

-----------------------------------------------------------------------------
(* What create returns.                                                    *)

\* TypeOK for all inputs: in particular no indegree is ever counted below zero
\* (the code's are unsigned).
THEOREM TypeCorrect == Spec => []TypeOK
  BY Invariance, PTL DEF IInv

\* A Cycle error names a real cycle of the arguments: a request that has an
\* order is never refused.
THEOREM CyclesAreReal == Spec => []CycleIsReal
  BY Invariance, PTL DEF IInv

\* The order returned puts what is required first, whatever was asked for.
THEOREM OrdersObeyInputs == Spec => []OrderObeysInputs
  <1>1. ASSUME IInv, Returns("none"), NEW pair \in Required
        PROVE  \E i, j \in DOMAIN ResolvedOrder :
                  i < j /\ ResolvedOrder[i] = pair[1] /\ ResolvedOrder[j] = pair[2]
    <2>1. pc = "done" /\ Fine
      BY <1>1 DEF Returns, Fine
    <2>2. Linked(pair[1], pair[2])
      BY <1>1, <2>1 DEF IInv, EdgesAreRequired, Before, Required, Elements
    <2>3. PICK e \in edges : Id(e[1]) = pair[1] /\ Id(e[2]) = pair[2]
      BY <2>2 DEF Linked
    <2>4. e[1] \in Nodes /\ e[2] \in Nodes /\ e = <<e[1], e[2]>>
      BY <1>1 DEF IInv, TypeOK
    <2>5. PICK j \in DOMAIN resolved : resolved[j] = e[2]
      BY <1>1, <2>4 DEF IInv, Placed, Elements
    <2>6. PICK i \in DOMAIN resolved : i < j /\ resolved[i] = e[1]
      BY <1>1, <2>4, <2>5 DEF IInv, Placed
    <2>7. QED
      BY <2>3, <2>5, <2>6 DEF ResolvedOrder
  <1>2. IInv => OrderObeysInputs
    BY <1>1 DEF OrderObeysInputs
  <1>3. QED
    BY <1>2, Invariance, PTL

\* The order returned has every enabled package exactly once.
THEOREM OrdersArePermutations == Spec => []OrderIsPermutation
  <1>1. ASSUME IInv, Returns("none")
        PROVE  /\ Len(ResolvedOrder) = Len(enabled)
               /\ Elements(ResolvedOrder) = Elements(enabled)
               /\ \A i, j \in DOMAIN ResolvedOrder :
                     ResolvedOrder[i] = ResolvedOrder[j] => i = j
    <2> DEFINE K == Len(resolved)
    <2>1. /\ resolved \in Seq(Nodes) /\ K \in Nat /\ DOMAIN resolved = 1 .. K
          /\ \A i \in 1 .. K : resolved[i] \in Nodes
          /\ \A i, j \in 1 .. K : resolved[i] = resolved[j] => i = j
          /\ \A n \in Nodes : \E i \in 1 .. K : resolved[i] = n
      <3>1. resolved \in Seq(Nodes)
        BY <1>1 DEF IInv, TypeOK
      <3>2. /\ K \in Nat /\ DOMAIN resolved = 1 .. K
            /\ \A i \in 1 .. K : resolved[i] \in Nodes
        BY <3>1
      <3>3. \A i, j \in DOMAIN resolved : resolved[i] = resolved[j] => i = j
        BY <1>1 DEF IInv, Placed
      <3>4. Nodes \subseteq {resolved[i] : i \in DOMAIN resolved}
        BY <1>1 DEF IInv, Placed, Elements
      <3>5. \A n \in Nodes : \E i \in DOMAIN resolved : resolved[i] = n
        BY <3>4
      <3>6. QED
        BY <3>1, <3>2, <3>3, <3>5
    <2>2. DOMAIN ResolvedOrder = 1 .. K /\ Len(ResolvedOrder) = K
      BY <2>1 DEF ResolvedOrder
    <2>3. K = Len(enabled)
      <3>1. resolved \in Bijection(1 .. K, Nodes)
        BY <2>1 DEF Bijection, Injection, Surjection, IsInjective
      <3>2. Cardinality(Nodes) = Cardinality(1 .. K)
        BY <2>1, <3>1, FS_Interval, FS_Bijection DEF ExistsBijection
      <3>3. Cardinality(1 .. K) = K /\ Cardinality(Nodes) = Len(enabled)
        <4>1. \A k \in Nat : Cardinality(1 .. k) = k
          BY FS_Interval
        <4>2. K \in Nat /\ Len(enabled) \in Nat
          BY <1>1, <2>1, InputTypes DEF IInv
        <4>3. QED
          BY <4>1, <4>2 DEF Nodes
      <3>4. QED
        BY <3>2, <3>3
    <2>4. \A m, n \in Nodes : Id(m) = Id(n) => m = n
      BY <1>1 DEF IInv, Indexed, Returns, Fine, Id
    <2>5. \A i, j \in DOMAIN ResolvedOrder : ResolvedOrder[i] = ResolvedOrder[j] => i = j
      BY <2>1, <2>2, <2>4 DEF ResolvedOrder
    <2>6. Elements(ResolvedOrder) = Elements(enabled)
      <3>1. Nodes = DOMAIN enabled
        BY <1>1, InputTypes DEF IInv
      <3>2. \A i \in 1 .. K : ResolvedOrder[i] = enabled[resolved[i]]
        BY <2>1 DEF ResolvedOrder, Id
      <3>3. QED
        BY <2>1, <2>2, <3>1, <3>2 DEF Elements
    <2>7. QED
      BY <2>2, <2>3, <2>5, <2>6
  <1>2. IInv => OrderIsPermutation
    BY <1>1 DEF OrderIsPermutation
  <1>3. QED
    BY <1>2, Invariance, PTL

-----------------------------------------------------------------------------
(* The first fault is the one reported.                                    *)

\* A fault of the arguments that no loop has come to yet.
Ahead(g) ==
    \/ pc = "index" /\ (g[1] > 1 \/ g[2] >= next)
    \/ pc = "dependencies" /\ (g[1] > 2 \/ (g[1] = 2 /\ g[2] >= next))
    \/ pc = "constraints" /\ g[1] = 3 /\ g[2] >= next

\* While create runs no fault has been passed over: ids are indexed by what was
\* read already, and what was read already has no fault.
FaultInv ==
    /\ pc = "index" => \A p \in DOMAIN indexes : indexes[p] < next
    /\ pc # "done" => \A g \in Faults : Ahead(g)
    /\ FirstFaultIsReported

\* What is wrong where, and in which loop.
LEMMA FaultsByLoop ==
    ASSUME TypeOK, NEW g \in Faults
    PROVE  /\ g[1] \in {1, 2, 3} /\ g[2] \in Nat
           /\ g[1] = 1 => /\ g[2] \in Nodes
                          /\ \E j \in 1 .. g[2] - 1 : enabled[j] = enabled[g[2]]
           /\ g[1] = 2 => /\ g[2] \in DOMAIN dependencies
                          /\ \/ ~Enabled(dependencies[g[2]].dependent)
                             \/ ~Enabled(dependencies[g[2]].required)
                             \/ dependencies[g[2]].dependent = dependencies[g[2]].required
           /\ g[1] = 3 => /\ g[2] \in DOMAIN constraints
                          /\ \/ ~Enabled(constraints[g[2]].before)
                             \/ ~Enabled(constraints[g[2]].after)
                             \/ constraints[g[2]].before = constraints[g[2]].after
<1>1. /\ DOMAIN enabled \subseteq Nat /\ DOMAIN enabled = Nodes
      /\ DOMAIN dependencies \subseteq Nat /\ DOMAIN constraints \subseteq Nat
  BY InputTypes
<1> QED BY <1>1 DEF Faults

\* The faults do not depend on how far create is.
LEMMA FaultsUnchanged ==
    ASSUME UNCHANGED inputs
    PROVE  Faults' = Faults
  BY DEF inputs, Faults, Enabled, Elements

\* After the first loop the index holds the enabled packages.
LEMMA IndexedIsEnabled ==
    ASSUME IInv, pc \in {"dependencies", "constraints"}, NEW p
    PROVE  p \in DOMAIN indexes <=> Enabled(p)
<1>1. Fine BY DEF IInv, Phases, Fine
<1>2. Nodes = DOMAIN enabled BY InputTypes DEF IInv
<1>3. ASSUME p \in DOMAIN indexes PROVE Enabled(p)
  <2>1. indexes[p] \in Nodes /\ enabled[indexes[p]] = p
    BY <1>3 DEF IInv, TypeOK, Indexed
  <2> QED BY <1>2, <2>1 DEF Enabled, Elements
<1>4. ASSUME Enabled(p) PROVE p \in DOMAIN indexes
  <2>1. PICK n \in DOMAIN enabled : enabled[n] = p BY <1>4 DEF Enabled, Elements
  <2> QED BY <1>1, <1>2, <2>1 DEF IInv, Indexed
<1> QED BY <1>3, <1>4

\* To fail with the fault that is next is to report the first fault.
LEMMA FailWithFault ==
    ASSUME IInv, FaultInv, NEW k \in {1, 2, 3}, NEW code \in ErrorCodes, NEW p,
           k = CASE pc = "index" -> 1 [] pc = "dependencies" -> 2 [] OTHER -> 3,
           pc \in Before, <<k, next, code, p>> \in Faults, Fail(code, <<p>>)
    PROVE  FaultInv'
<1>1. pc' = "done" /\ error' = code /\ culprits' = <<p>> /\ Faults' = Faults
  BY FaultsUnchanged DEF Fail
<1> DEFINE f == <<k, next, code, p>>
<1>2. \A g \in Faults : k < g[1] \/ (k = g[1] /\ next <= g[2])
  <2> SUFFICES ASSUME NEW g \in Faults PROVE k < g[1] \/ (k = g[1] /\ next <= g[2])
    OBVIOUS
  <2>1. g[1] \in {1, 2, 3} /\ g[2] \in Nat BY FaultsByLoop DEF IInv
  <2>2. Ahead(g) BY DEF FaultInv, Before
  <2>3. next \in Nat BY DEF IInv, TypeOK
  <2> QED BY <2>1, <2>2, <2>3 DEF Ahead, Before
<1>3. /\ f \in Faults' /\ error' = f[3] /\ culprits' = <<f[4]>>
      /\ \A g \in Faults' : f[1] < g[1] \/ (f[1] = g[1] /\ f[2] <= g[2])
  BY <1>1, <1>2
<1> HIDE DEF f
<1>4. FirstFaultIsReported' BY <1>3 DEF FirstFaultIsReported
<1> QED BY <1>1, <1>4 DEF FaultInv

\* One more package is indexed, or it is the first that was enabled twice.
LEMMA FaultIndex == ASSUME IInv, FaultInv, IndexPackage PROVE FaultInv'
<1>1. pc = "index" /\ next \in Nodes /\ next \in Nat /\ Nodes = DOMAIN enabled
  BY InputTypes DEF IndexPackage, IInv, TypeOK, Nodes
<1>2. Id(next) \in DOMAIN indexes <=> \E j \in 1 .. next - 1 : enabled[j] = enabled[next]
  <2>1. ASSUME Id(next) \in DOMAIN indexes
        PROVE  \E j \in 1 .. next - 1 : enabled[j] = enabled[next]
    <3>1. /\ indexes[Id(next)] \in Nodes /\ indexes[Id(next)] < next
          /\ enabled[indexes[Id(next)]] = Id(next)
      BY <1>1, <2>1 DEF IInv, TypeOK, Indexed, FaultInv
    <3>2. indexes[Id(next)] \in 1 .. next - 1
      BY <1>1, <3>1, InputTypes DEF IInv, Nodes
    <3> QED BY <3>1, <3>2 DEF Id
  <2>2. ASSUME NEW j \in 1 .. next - 1, enabled[j] = enabled[next]
        PROVE  Id(next) \in DOMAIN indexes
    BY <1>1, <2>2 DEF IInv, Indexed, Id
  <2> QED BY <2>1, <2>2
<1>3. CASE Id(next) \in DOMAIN indexes
  <2>1. Fail("DuplicateEnabledPackage", <<Id(next)>>) BY <1>3 DEF IndexPackage
  <2>2. <<1, next, "DuplicateEnabledPackage", Id(next)>> \in Faults
    BY <1>1, <1>2, <1>3 DEF Faults, Id
  <2> QED BY <1>1, <2>1, <2>2, FailWithFault DEF ErrorCodes, Before
<1>4. CASE Id(next) \notin DOMAIN indexes
  <2>1. /\ indexes' = [p \in DOMAIN indexes \union {Id(next)} |->
                         IF p = Id(next) THEN next ELSE indexes[p]]
        /\ next' = next + 1 /\ pc' = "index" /\ Faults' = Faults
    BY <1>1, <1>4, FaultsUnchanged DEF IndexPackage
  <2>2. \A p \in DOMAIN indexes' : indexes'[p] < next'
    <3>1. \A p \in DOMAIN indexes : indexes[p] < next /\ indexes[p] \in Nat
      BY <1>1, InputTypes DEF FaultInv, IInv, TypeOK
    <3> QED BY <1>1, <2>1, <3>1
  <2>3. ASSUME NEW g \in Faults PROVE g[1] > 1 \/ g[2] >= next + 1
    <3>1. g[1] > 1 \/ g[2] >= next BY <1>1, <2>3 DEF FaultInv, Ahead
    <3>2. ~(g[1] = 1 /\ g[2] = next) BY <1>2, <1>4, <2>3, FaultsByLoop DEF IInv
    <3>3. g[1] \in {1, 2, 3} /\ g[2] \in Nat BY <2>3, FaultsByLoop DEF IInv
    <3> QED BY <1>1, <3>1, <3>2, <3>3
  <2> QED BY <2>1, <2>2, <2>3 DEF FaultInv, Ahead, FirstFaultIsReported
<1> QED BY <1>3, <1>4

\* One more dependency is linked, or it is the first fault.
LEMMA FaultDependency == ASSUME IInv, FaultInv, LinkDependency PROVE FaultInv'
<1> DEFINE d == dependencies[next]
<1>1. pc = "dependencies" /\ next \in DOMAIN dependencies /\ next \in Nat /\ pc \in Before
  BY InputTypes DEF LinkDependency, IInv, TypeOK, Before
<1>2. /\ d.dependent \in DOMAIN indexes <=> Enabled(d.dependent)
      /\ d.required \in DOMAIN indexes <=> Enabled(d.required)
  BY <1>1, IndexedIsEnabled
<1>3. d.dependent \in DOMAIN indexes /\ d.required \in DOMAIN indexes =>
        (indexes[d.dependent] = indexes[d.required] <=> d.dependent = d.required)
  BY DEF IInv, Indexed
<1>4. CASE ~Enabled(d.dependent)
  <2>1. Fail("DependentPackageNotEnabled", <<d.dependent>>)
    BY <1>2, <1>4 DEF LinkDependency
  <2>2. <<2, next, "DependentPackageNotEnabled", d.dependent>> \in Faults
    BY <1>1, <1>4 DEF Faults
  <2> QED BY <1>1, <2>1, <2>2, FailWithFault DEF ErrorCodes
<1>5. CASE Enabled(d.dependent) /\ ~Enabled(d.required)
  <2>1. Fail("RequiredPackageNotEnabled", <<d.required>>)
    BY <1>2, <1>5 DEF LinkDependency
  <2>2. <<2, next, "RequiredPackageNotEnabled", d.required>> \in Faults
    BY <1>1, <1>5 DEF Faults
  <2> QED BY <1>1, <2>1, <2>2, FailWithFault DEF ErrorCodes
<1>6. CASE Enabled(d.dependent) /\ d.dependent = d.required
  <2>1. Fail("SelfDependency", <<d.required>>)
    BY <1>2, <1>3, <1>6 DEF LinkDependency
  <2>2. <<2, next, "SelfDependency", d.required>> \in Faults
    BY <1>1, <1>6 DEF Faults
  <2> QED BY <1>1, <2>1, <2>2, FailWithFault DEF ErrorCodes
<1>7. CASE Enabled(d.dependent) /\ Enabled(d.required) /\ d.dependent # d.required
  <2>1. next' = next + 1 /\ pc' = "dependencies" /\ Faults' = Faults
    BY <1>1, <1>2, <1>3, <1>7, FaultsUnchanged DEF LinkDependency
  <2>2. ASSUME NEW g \in Faults PROVE g[1] > 2 \/ (g[1] = 2 /\ g[2] >= next + 1)
    <3>1. g[1] > 2 \/ (g[1] = 2 /\ g[2] >= next) BY <1>1, <2>2 DEF FaultInv, Ahead
    <3>2. ~(g[1] = 2 /\ g[2] = next) BY <1>7, <2>2, FaultsByLoop DEF IInv
    <3>3. g[1] \in {1, 2, 3} /\ g[2] \in Nat BY <2>2, FaultsByLoop DEF IInv
    <3> QED BY <1>1, <3>1, <3>2, <3>3
  <2> QED BY <2>1, <2>2 DEF FaultInv, Ahead, FirstFaultIsReported
<1> QED BY <1>4, <1>5, <1>6, <1>7

\* One more constraint is linked, or it is the first fault.
LEMMA FaultConstraint == ASSUME IInv, FaultInv, LinkConstraint PROVE FaultInv'
<1> DEFINE c == constraints[next]
<1>1. pc = "constraints" /\ next \in DOMAIN constraints /\ next \in Nat /\ pc \in Before
  BY InputTypes DEF LinkConstraint, IInv, TypeOK, Before
<1>2. /\ c.before \in DOMAIN indexes <=> Enabled(c.before)
      /\ c.after \in DOMAIN indexes <=> Enabled(c.after)
  BY <1>1, IndexedIsEnabled
<1>3. c.before \in DOMAIN indexes /\ c.after \in DOMAIN indexes =>
        (indexes[c.before] = indexes[c.after] <=> c.before = c.after)
  BY DEF IInv, Indexed
<1>4. CASE ~(Enabled(c.before) /\ Enabled(c.after))
  <2> DEFINE p == IF Enabled(c.before) THEN c.after ELSE c.before
  <2>1. Fail("OrderingPackageNotEnabled", <<p>>) BY <1>2, <1>4 DEF LinkConstraint
  <2>2. <<3, next, "OrderingPackageNotEnabled", p>> \in Faults BY <1>1, <1>4 DEF Faults
  <2> QED BY <1>1, <2>1, <2>2, FailWithFault DEF ErrorCodes
<1>5. CASE Enabled(c.before) /\ c.before = c.after
  <2>1. Fail("SelfOrdering", <<c.before>>) BY <1>2, <1>3, <1>5 DEF LinkConstraint
  <2>2. <<3, next, "SelfOrdering", c.before>> \in Faults BY <1>1, <1>5 DEF Faults
  <2> QED BY <1>1, <2>1, <2>2, FailWithFault DEF ErrorCodes
<1>6. CASE Enabled(c.before) /\ Enabled(c.after) /\ c.before # c.after
  <2>1. next' = next + 1 /\ pc' = "constraints" /\ Faults' = Faults
    BY <1>1, <1>2, <1>3, <1>6, FaultsUnchanged DEF LinkConstraint
  <2>2. ASSUME NEW g \in Faults PROVE g[1] = 3 /\ g[2] >= next + 1
    <3>1. g[1] = 3 /\ g[2] >= next BY <1>1, <2>2 DEF FaultInv, Ahead
    <3>2. ~(g[1] = 3 /\ g[2] = next) BY <1>6, <2>2, FaultsByLoop DEF IInv
    <3>3. g[2] \in Nat BY <2>2, FaultsByLoop DEF IInv
    <3> QED BY <1>1, <3>1, <3>2, <3>3
  <2> QED BY <2>1, <2>2 DEF FaultInv, Ahead, FirstFaultIsReported
<1> QED BY <1>4, <1>5, <1>6

\* The end of a loop leaves no fault behind it.
LEMMA FaultEndLoop == ASSUME IInv, FaultInv, EndLoop PROVE FaultInv'
<1>1. /\ next' = 1 /\ Faults' = Faults /\ next \in Nat
      /\ \/ pc = "index" /\ next > Len(enabled) /\ pc' = "dependencies"
         \/ pc = "dependencies" /\ next > Len(dependencies) /\ pc' = "constraints"
         \/ pc = "constraints" /\ next > Len(constraints) /\ pc' = "search"
  BY FaultsUnchanged DEF EndLoop, IInv, TypeOK
<1>2. ASSUME NEW g \in Faults PROVE Ahead(g)'
  <2>1. Ahead(g) BY <1>1, <1>2 DEF FaultInv
  <2>2. /\ g[1] \in {1, 2, 3} /\ g[2] \in Nat
        /\ g[1] = 1 => g[2] \in Nodes
        /\ g[1] = 2 => g[2] \in DOMAIN dependencies
        /\ g[1] = 3 => g[2] \in DOMAIN constraints
    BY <1>2, FaultsByLoop DEF IInv
  <2>3. /\ g[1] = 1 => g[2] >= 1 /\ g[2] <= Len(enabled)
        /\ g[1] = 2 => g[2] >= 1 /\ g[2] <= Len(dependencies)
        /\ g[1] = 3 => g[2] >= 1 /\ g[2] <= Len(constraints)
        /\ Len(enabled) \in Nat /\ Len(dependencies) \in Nat /\ Len(constraints) \in Nat
    BY <2>2, InputTypes DEF IInv, Nodes
  <2> QED BY <1>1, <2>1, <2>2, <2>3 DEF Ahead
<1> QED BY <1>1, <1>2 DEF FaultInv, FirstFaultIsReported

\* The graph algorithms run on faultless arguments only.
LEMMA FaultLater ==
    ASSUME IInv, FaultInv, UNCHANGED inputs, pc \in {"search", "order"},
           \/ pc' \in {"search", "order"}
           \/ pc' = "done" /\ error' \in {"none", "Cycle"}
    PROVE  FaultInv'
<1>1. Faults = {} BY DEF FaultInv, Ahead
<1>2. Faults' = {} BY <1>1, FaultsUnchanged
<1> QED BY <1>2 DEF FaultInv, FirstFaultIsReported

LEMMA StepFault == ASSUME IInv, FaultInv, [Next]_vars PROVE FaultInv'
<1>1. CASE StartSearch \/ FinishNode \/ LookAtChild \/ EndSearch \/ TakeReady \/ Succeed
  <2>1. pc \in {"search", "order"} /\ UNCHANGED inputs /\ error = "none"
    BY <1>1
    DEF StartSearch, FinishNode, LookAtChild, EndSearch, TakeReady, Succeed, Fail, IInv, Phases
  <2>2. \/ pc' \in {"search", "order"}
        \/ pc' = "done" /\ error' \in {"none", "Cycle"}
    BY <1>1, <2>1
    DEF StartSearch, FinishNode, LookAtChild, EndSearch, TakeReady, Succeed, Fail, outcome
  <2> QED BY <2>1, <2>2, FaultLater
<1>2. CASE UNCHANGED vars
  <2>1. UNCHANGED <<inputs, pc, next, indexes, error, culprits>>
    BY <1>2 DEF vars, building, outcome
  <2>2. Faults' = Faults BY <2>1, FaultsUnchanged
  <2> QED BY <2>1, <2>2 DEF FaultInv, Ahead, FirstFaultIsReported
<1> QED
  BY <1>1, <1>2, FaultIndex, FaultDependency, FaultConstraint, FaultEndLoop
  DEF Next, Create, Returned

\* The error returned is the first fault of the arguments, for lists of any
\* length, and a cycle is only looked for when they have none.
THEOREM FirstFaultsAreReported == Spec => []FirstFaultIsReported
<1>1. Init => FaultInv
  <2> SUFFICES ASSUME Init PROVE FaultInv OBVIOUS
  <2>1. TypeOK BY InitIInv DEF IInv
  <2>2. pc = "index" /\ next = 1 /\ DOMAIN indexes = {} BY DEF Init
  <2>3. \A g \in Faults : g[1] > 1 \/ g[2] >= 1
    BY <2>1, FaultsByLoop, InputTypes DEF Nodes
  <2> QED BY <2>2, <2>3 DEF FaultInv, Ahead, FirstFaultIsReported
<1>2. IInv /\ FaultInv /\ [Next]_vars => FaultInv' BY StepFault
<1>3. FaultInv => FirstFaultIsReported BY DEF FaultInv
<1> QED BY <1>1, <1>2, <1>3, Invariance, PTL DEF Spec

-----------------------------------------------------------------------------
(* The order is the least one.                                             *)

\* Another order of all nodes that the edges allow.
Obeys(other) ==
    /\ \A i, j \in Nodes : other[i] = other[j] => i = j
    /\ \A i, j \in Nodes : <<other[i], other[j]>> \in edges => i < j

\* The order so far is the beginning of the other one, or smaller where they
\* first differ.
LeastSoFar(other) ==
    \/ \A i \in DOMAIN resolved : resolved[i] = other[i]
    \/ \E i \in DOMAIN resolved : /\ resolved[i] < other[i]
                                  /\ \A j \in 1 .. i - 1 : resolved[j] = other[j]

LeastInv ==
    pc = "order" \/ Returns("none") =>
        \A other \in [Nodes -> Nodes] : Obeys(other) => LeastSoFar(other)

\* An order is no longer than the list, and shorter while a node is missing.
LEMMA OrderFits ==
    ASSUME IInv
    PROVE  /\ Len(resolved) \in Nat /\ DOMAIN resolved = 1 .. Len(resolved)
           /\ \A i \in DOMAIN resolved : resolved[i] \in Nodes
           /\ Len(resolved) <= Len(enabled)
           /\ Len(resolved) = Len(enabled) => Nodes \subseteq Elements(resolved)
           /\ Nodes \subseteq Elements(resolved) => Len(resolved) = Len(enabled)
<1> DEFINE K == Len(resolved)
<1>1. resolved \in Seq(Nodes) BY DEF IInv, TypeOK
<1>2. K \in Nat /\ DOMAIN resolved = 1 .. K /\ \A i \in 1 .. K : resolved[i] \in Nodes
  BY <1>1
<1>3. \A i, j \in 1 .. K : resolved[i] = resolved[j] => i = j
  BY <1>2 DEF IInv, Placed
<1>4. resolved \in [1 .. K -> Nodes] BY <1>1, <1>2
<1>5. resolved \in Injection(1 .. K, Nodes)
  BY <1>3, <1>4 DEF Injection, IsInjective
<1>6. IsFiniteSet(Nodes) /\ Len(enabled) \in Nat BY InputTypes DEF IInv
<1>7. \A k \in Nat : Cardinality(1 .. k) = k BY FS_Interval
<1>8. Cardinality(1 .. K) = K /\ Cardinality(Nodes) = Len(enabled)
  BY <1>2, <1>6, <1>7 DEF Nodes
<1>9. K <= Len(enabled) /\ (K = Len(enabled) <=> resolved \in Surjection(1 .. K, Nodes))
  BY <1>5, <1>6, <1>8, FS_Injection
<1>10. resolved \in Surjection(1 .. K, Nodes) <=> \A n \in Nodes : \E i \in 1 .. K : resolved[i] = n
  BY <1>4 DEF Surjection
<1>11. Nodes \subseteq Elements(resolved) <=> \A n \in Nodes : \E i \in 1 .. K : resolved[i] = n
  BY <1>2 DEF Elements
<1> QED BY <1>2, <1>9, <1>10, <1>11

\* An order of all nodes has each of them somewhere.
LEMMA OrdersAreOnto ==
    ASSUME TypeOK, NEW other \in [Nodes -> Nodes], Obeys(other), NEW n \in Nodes
    PROVE  \E i \in Nodes : other[i] = n
<1>1. other \in Injection(Nodes, Nodes) BY DEF Obeys, Injection, IsInjective
<1>2. other \in Surjection(Nodes, Nodes) BY <1>1, InputTypes, FS_Injection
<1> QED BY <1>2 DEF Surjection

\* The node placed is the first of all that any order could have there.
LEMMA LeastTake == ASSUME IInv, LeastInv, TakeReady PROVE LeastInv'
<1> DEFINE K == Len(resolved)
<1>1. PICK p \in ready :
        First(p, ready) /\ resolved' = Append(resolved, p)
  BY DEF TakeReady
<1>2. pc = "order" /\ edges' = edges /\ Nodes' = Nodes
  BY DEF TakeReady, Nodes, inputs
<1>3. ready = {n \in Nodes \ Elements(resolved) : indegrees[n] = 0}
  BY <1>2 DEF IInv, Placed
<1>4. /\ K \in Nat /\ DOMAIN resolved = 1 .. K /\ DOMAIN resolved' = 1 .. K + 1
      /\ \A i \in 1 .. K : resolved'[i] = resolved[i]
      /\ resolved'[K + 1] = p /\ p \in Nodes
  BY <1>1, <1>3, AppendFacts DEF IInv, TypeOK
<1>5. K + 1 \in Nodes
  <2>1. ~(Nodes \subseteq Elements(resolved)) BY <1>3
  <2> QED BY <2>1, OrderFits, InputTypes DEF IInv, Nodes
<1> SUFFICES ASSUME NEW other \in [Nodes -> Nodes], Obeys(other)
             PROVE  LeastSoFar(other)'
  BY <1>2 DEF LeastInv, Obeys
<1>6. LeastSoFar(other) BY <1>2 DEF LeastInv
<1>7. CASE \A i \in DOMAIN resolved : resolved[i] = other[i]
  <2> DEFINE q == other[K + 1]
  <2>1. q \in Nodes BY <1>5
  <2>2. 1 .. K \subseteq Nodes BY <1>4, <1>5, InputTypes DEF IInv, Nodes
  <2>3. q \notin Elements(resolved)
    <3> SUFFICES ASSUME NEW i \in 1 .. K, resolved[i] = q PROVE FALSE
      BY <1>4 DEF Elements
    <3>1. other[i] = other[K + 1] /\ i \in Nodes BY <1>4, <1>7, <2>2
    <3>2. i = K + 1 BY <1>5, <3>1 DEF Obeys
    <3> QED BY <1>4, <3>2
  <2>4. Waiting(q) = {}
    <3> SUFFICES ASSUME NEW m \in Waiting(q) PROVE FALSE OBVIOUS
    <3>1. m \in Nodes /\ <<m, q>> \in edges /\ m \notin Elements(resolved)
      BY DEF Waiting
    <3>2. PICK i \in Nodes : other[i] = m BY <3>1, OrdersAreOnto DEF IInv
    <3>3. i < K + 1 BY <1>5, <3>1, <3>2 DEF Obeys
    <3>4. i \in 1 .. K BY <1>4, <3>3, InputTypes DEF IInv, Nodes
    <3>5. resolved[i] = m BY <1>4, <1>7, <3>2, <3>4
    <3> QED BY <1>4, <3>1, <3>4, <3>5 DEF Elements
  <2>5. q \in ready
    BY <1>3, <2>1, <2>3, <2>4, FS_EmptySet DEF IInv, Counted
  <2>6. p <= q BY <1>1, <2>5 DEF First
  <2>7. CASE p = q BY <1>4, <1>7, <2>7 DEF LeastSoFar
  <2>8. CASE p # q
    <3>1. p < q BY <1>4, <2>1, <2>6, <2>8, InputTypes DEF IInv
    <3>2. /\ K + 1 \in DOMAIN resolved' /\ resolved'[K + 1] < other[K + 1]
          /\ \A j \in 1 .. (K + 1) - 1 : resolved'[j] = other[j]
      BY <1>4, <1>7, <3>1
    <3> HIDE DEF K
    <3> QED BY <3>2 DEF LeastSoFar
  <2> QED BY <2>7, <2>8
<1>8. CASE \E i \in DOMAIN resolved : /\ resolved[i] < other[i]
                                      /\ \A j \in 1 .. i - 1 : resolved[j] = other[j]
  <2>1. PICK i \in 1 .. K : resolved[i] < other[i] /\ \A j \in 1 .. i - 1 : resolved[j] = other[j]
    BY <1>4, <1>8
  <2>2. \A j \in 1 .. i - 1 : j \in 1 .. K BY <1>4, <2>1
  <2>3. /\ i \in DOMAIN resolved' /\ resolved'[i] < other[i]
        /\ \A j \in 1 .. i - 1 : resolved'[j] = other[j]
    BY <1>4, <2>1, <2>2
  <2> QED BY <2>3 DEF LeastSoFar
<1> QED BY <1>6, <1>7, <1>8 DEF LeastSoFar

LEMMA StepLeast == ASSUME IInv, LeastInv, [Next]_vars PROVE LeastInv'
<1>1. CASE TakeReady BY <1>1, LeastTake
<1>2. CASE EndSearch
  <2>1. resolved' = <<>>
    BY <1>2 DEF EndSearch, IInv, Phases
  <2> QED BY <2>1 DEF LeastInv, LeastSoFar
<1>3. CASE Succeed \/ UNCHANGED vars
  <2>1. /\ edges' = edges /\ Nodes' = Nodes /\ resolved' = resolved /\ error' = error
        /\ pc' = pc \/ (pc = "order" /\ pc' = "done")
    BY <1>3 DEF Succeed, vars, inputs, building, ordering, outcome, Nodes
  <2> QED BY <2>1 DEF LeastInv, LeastSoFar, Obeys, Returns
<1>4. CASE IndexPackage \/ LinkDependency \/ LinkConstraint \/ EndLoop \/ StartSearch
           \/ FinishNode \/ LookAtChild
  <2>1. pc' # "order" /\ (pc' = "done" => error' # "none")
    BY <1>4
    DEF IndexPackage, LinkDependency, LinkConstraint, EndLoop, StartSearch, FinishNode,
        LookAtChild, Fail
  <2> QED BY <2>1 DEF LeastInv, Returns
<1> QED BY <1>1, <1>2, <1>3, <1>4 DEF Next, Create, Returned

\* No order that obeys the arguments prefers earlier enabled packages more: the
\* one returned is determined by the arguments alone.
THEOREM OrdersAreLeast == Spec => []OrderIsLeast
<1>1. Init => LeastInv BY DEF Init, LeastInv, Returns
<1>2. IInv /\ LeastInv /\ [Next]_vars => LeastInv' BY StepLeast
<1>3. IInv /\ LeastInv => OrderIsLeast
  <2> SUFFICES ASSUME IInv, LeastInv, Returns("none"),
                      NEW other \in [Nodes -> Nodes], Obeys(other)
               PROVE  \/ other = resolved
                      \/ \E i \in Nodes : /\ resolved[i] < other[i]
                                          /\ \A j \in 1 .. i - 1 : resolved[j] = other[j]
    BY DEF OrderIsLeast, Obeys
  <2>1. DOMAIN resolved = Nodes
    BY OrderFits DEF IInv, Placed, Nodes
  <2>2. resolved \in [Nodes -> Nodes]
    BY <2>1 DEF IInv, TypeOK
  <2>3. LeastSoFar(other) BY DEF LeastInv
  <2>4. (\A i \in Nodes : resolved[i] = other[i]) => other = resolved BY <2>2
  <2> QED BY <2>1, <2>3, <2>4 DEF LeastSoFar
<1> QED BY <1>1, <1>2, <1>3, Invariance, PTL DEF Spec
=============================================================================
