--------------------------- MODULE GamePlanProofs ---------------------------
(***************************************************************************)
(* Theorems about GamePlan, for all packages, plans, claims and            *)
(* priorities.  First what the operators of GamePaths and FileOwnership    *)
(* return: the order of paths, the sorted claims, the nodes taken from     *)
(* them, and the range of nodes that buildObstructions finds.              *)
(***************************************************************************)
EXTENDS GamePlan, FiniteSetTheorems, SequenceTheorems, WellFoundedInduction, TLAPS

(* Natural numbers have a least one: intervals from 0 are ordered by being  *)
(* subsets.                                                                *)
LEMMA LeastNatural ==
    ASSUME NEW S \in SUBSET Nat, S # {}
    PROVE  \E n \in S : \A m \in S : n <= m
<1> DEFINE T == {0 .. n : n \in S}
<1>1. T \subseteq FiniteSubsetsOf(Nat)
  <2> SUFFICES ASSUME NEW n \in S PROVE 0 .. n \in FiniteSubsetsOf(Nat)
    OBVIOUS
  <2>1. IsFiniteSet(0 .. n) /\ 0 .. n \subseteq Nat BY FS_Interval
  <2> QED BY <2>1 DEF FiniteSubsetsOf
<1>2. T # {} OBVIOUS
<1> HIDE DEF T
<1>3. PICK x \in T : \A y \in T : ~(<<y, x>> \in StrictSubsetOrdering(Nat))
  <2>1. IsWellFoundedOn(StrictSubsetOrdering(Nat), FiniteSubsetsOf(Nat))
    BY FS_StrictSubsetOrderingWellFounded
  <2> QED BY <1>1, <1>2, <2>1, WFMin
<1>4. PICK n \in S : x = 0 .. n BY DEF T
<1>5. ASSUME NEW m \in S, ~(n <= m) PROVE FALSE
  <2>1. 0 .. m \in T BY DEF T
  <2>2. 0 .. m \subseteq 0 .. n /\ 0 .. m # 0 .. n
    <3>1. n \in 0 .. n /\ n \notin 0 .. m BY <1>5
    <3> QED BY <1>5, <3>1
  <2>3. <<0 .. m, 0 .. n>> \in StrictSubsetOrdering(Nat)
    BY <2>2 DEF StrictSubsetOrdering
  <2> QED BY <1>3, <1>4, <2>1, <2>3
<1> QED BY <1>5

LEMMA StartsWith ==
    ASSUME NEW path \in Seq(Nat), NEW prefix \in Seq(Nat)
    PROVE  starts_with(path, prefix) <=>
             /\ Len(prefix) <= Len(path)
             /\ \A k \in 1 .. Len(prefix) : prefix[k] = path[k]
<1> DEFINE n == Len(prefix)
<1>1. SubSeq(prefix, 1, n) = prefix
  OBVIOUS
<1>2. ASSUME n <= Len(path)
      PROVE  prefix = SubSeq(path, 1, n) <=> \A k \in 1 .. n : prefix[k] = path[k]
  <2>1. /\ SubSeq(path, 1, n) \in Seq(Nat) /\ Len(SubSeq(path, 1, n)) = n
        /\ \A k \in 1 .. n : SubSeq(path, 1, n)[k] = path[k]
    BY <1>2
  <2> HIDE DEF n
  <2>2. DOMAIN prefix = 1 .. n /\ DOMAIN SubSeq(path, 1, n) = 1 .. n
    BY <2>1 DEF n
  <2> QED BY <2>1, <2>2
<1> QED BY <1>1, <1>2 DEF starts_with, IsPrefix

LEMMA LessIsIrreflexive ==
    ASSUME NEW x \in Seq(Nat)
    PROVE  ~bytesLess(x, x)
BY DEF bytesLess

LEMMA LessIsTransitive ==
    ASSUME NEW x \in Seq(Nat), NEW y \in Seq(Nat), NEW z \in Seq(Nat),
           bytesLess(x, y), bytesLess(y, z)
    PROVE  bytesLess(x, z)
<1>1. PICK m \in 0 .. Len(x) :
        /\ m <= Len(y)
        /\ \A k \in 1 .. m : x[k] = y[k]
        /\ \/ m = Len(x) /\ m < Len(y)
           \/ m < Len(x) /\ m < Len(y) /\ x[m + 1] < y[m + 1]
  BY DEF bytesLess
<1>2. PICK n \in 0 .. Len(y) :
        /\ n <= Len(z)
        /\ \A k \in 1 .. n : y[k] = z[k]
        /\ \/ n = Len(y) /\ n < Len(z)
           \/ n < Len(y) /\ n < Len(z) /\ y[n + 1] < z[n + 1]
  BY DEF bytesLess
<1> DEFINE l == IF m <= n THEN m ELSE n
<1>3. l \in 0 .. Len(x) /\ l <= Len(z) BY <1>1, <1>2
<1>4. \A k \in 1 .. l : x[k] = z[k] BY <1>1, <1>2
<1>5. \/ l = Len(x) /\ l < Len(z)
      \/ l < Len(x) /\ l < Len(z) /\ x[l + 1] < z[l + 1]
  <2>1. CASE m < n BY <1>1, <1>2, <2>1
  <2>2. CASE m = n BY <1>1, <1>2, <2>2
  <2>3. CASE n < m BY <1>1, <1>2, <2>3
  <2> QED BY <2>1, <2>2, <2>3
<1> QED BY <1>3, <1>4, <1>5 DEF bytesLess

(* What lies between a prefix and a path that starts with it starts with it.*)
LEMMA PrefixesAreIntervals ==
    ASSUME NEW x \in Seq(Nat), NEW y \in Seq(Nat), NEW p \in Seq(Nat),
           ~bytesLess(x, p), bytesLess(x, y), starts_with(y, p)
    PROVE  starts_with(x, p)
<1>1. Len(p) <= Len(y) /\ \A k \in 1 .. Len(p) : p[k] = y[k] BY StartsWith
<1>2. PICK n \in 0 .. Len(x) :
        /\ n <= Len(y)
        /\ \A k \in 1 .. n : x[k] = y[k]
        /\ \/ n = Len(x) /\ n < Len(y)
           \/ n < Len(x) /\ n < Len(y) /\ x[n + 1] < y[n + 1]
  BY DEF bytesLess
<1>3. n >= Len(p)
  <2> SUFFICES ASSUME n < Len(p) PROVE bytesLess(x, p)
    OBVIOUS
  <2>1. \A k \in 1 .. n : x[k] = p[k] BY <1>1, <1>2
  <2>2. p[n + 1] = y[n + 1] BY <1>1
  <2> QED BY <1>1, <1>2, <2>1, <2>2 DEF bytesLess
<1> QED BY <1>1, <1>2, <1>3, StartsWith

LEMMA PrefixIsNotAfter ==
    ASSUME NEW y \in Seq(Nat), NEW p \in Seq(Nat), starts_with(y, p)
    PROVE  ~bytesLess(y, p)
<1>1. Len(p) <= Len(y) /\ \A k \in 1 .. Len(p) : p[k] = y[k] BY StartsWith
<1>2. ASSUME NEW n \in 0 .. Len(y), n < Len(p) PROVE y[n + 1] = p[n + 1]
  BY <1>1, <1>2
<1> QED BY <1>1, <1>2 DEF bytesLess

-----------------------------------------------------------------------------
(* The range of nodes below a path.                                        *)

InOrder(ns) ==
    \A k, l \in DOMAIN ns : k < l => bytesLess(ns[k].path, ns[l].path)

(* buildObstructions' search, from lower_bound on, finds every node below.  *)
LEMMA DescendantsAreAll ==
    ASSUME NEW ns, NEW a \in DOMAIN ns,
           NEW n \in Nat, DOMAIN ns = 1 .. n,
           \A l \in DOMAIN ns : ns[l].path \in Seq(Nat), InOrder(ns),
           ns[a].path # Root, NEW k \in DOMAIN ns
    PROVE  starts_with(ns[k].path, Append(ns[a].path, Slash)) =>
               ns[k].path \in Descendants(ns, a)
<1> DEFINE prefix == Append(ns[a].path, Slash)
           S == {f \in 1 .. k : ~bytesLess(ns[f].path, prefix)}
<1> SUFFICES ASSUME starts_with(ns[k].path, prefix)
             PROVE  ns[k].path \in Descendants(ns, a)
  OBVIOUS
<1>1. prefix \in Seq(Nat) BY DEF Slash
<1>2. k \in S /\ S \in SUBSET Nat
  <2>1. k \in 1 .. k OBVIOUS
  <2>2. ~bytesLess(ns[k].path, prefix)
    <3> HIDE DEF prefix
    <3> QED BY <1>1, PrefixIsNotAfter
  <2> QED BY <2>1, <2>2
<1>3. PICK first \in S : \A m \in S : first <= m BY <1>2, LeastNatural
<1>4. IsLowerBound(ns, prefix, first) BY <1>3 DEF IsLowerBound
<1>5. ASSUME NEW l \in first .. k PROVE starts_with(ns[l].path, prefix)
  <2>0. first \in DOMAIN ns /\ l \in DOMAIN ns
    <3>1. first \in 1 .. k BY DEF S
    <3> HIDE DEF S
    <3> QED BY <3>1
  <2>1. CASE l = k BY <2>1
  <2>2. CASE l # k
    <3>1. bytesLess(ns[l].path, ns[k].path) BY <2>0, <2>2, <1>5 DEF InOrder
    <3>2. ~bytesLess(ns[l].path, prefix)
      <4>1. CASE l = first BY <4>1
      <4>2. CASE l # first
        <5>1. bytesLess(ns[first].path, ns[l].path) BY <2>0, <4>2, <1>5 DEF InOrder
        <5>2. ~bytesLess(ns[first].path, prefix) BY DEF S
        <5> HIDE DEF prefix, S
        <5> QED BY <5>1, <5>2, <1>1, <2>0, LessIsTransitive
      <4> QED BY <4>1, <4>2
    <3> HIDE DEF prefix
    <3> QED BY <3>1, <3>2, <1>1, <2>0, PrefixesAreIntervals
  <2> QED BY <2>1, <2>2
<1> QED BY <1>4, <1>5 DEF Descendants

(* And none that is not below.                                             *)
LEMMA DescendantsAreBelow ==
    ASSUME NEW ns, NEW a \in DOMAIN ns, ns[a].path # Root,
           NEW n \in Nat, DOMAIN ns = 1 .. n,
           NEW path \in Descendants(ns, a)
    PROVE  \E k \in DOMAIN ns :
              path = ns[k].path /\ starts_with(path, Append(ns[a].path, Slash))
<1>1. PICK k \in DOMAIN ns :
        /\ path = ns[k].path
        /\ \E first \in 1 .. k : \A l \in first .. k :
              starts_with(ns[l].path, Append(ns[a].path, Slash))
  BY DEF Descendants
<1> QED BY <1>1

-----------------------------------------------------------------------------
(* The claims on one path.                                                 *)

EndsAt(perm, cs, n, first, last) ==
    /\ last \in first .. n
    /\ \A k \in first .. last : cs[perm[k]].path = cs[perm[first]].path
    /\ last < n => cs[perm[last + 1]].path # cs[perm[first]].path

LEMMA LastOfNodeExists ==
    ASSUME NEW perm, NEW cs, NEW n \in Nat, NEW first \in 1 .. n, Len(perm) = n
    PROVE  EndsAt(perm, cs, n, first, LastOfNode(perm, cs, first))
<1> DEFINE Here(k) == cs[perm[k]].path = cs[perm[first]].path
           Ends == {k \in first .. n : k < n => ~Here(k + 1)}
<1>1. n \in Ends /\ Ends \in SUBSET Nat OBVIOUS
<1>2. PICK last \in Ends : \A k \in Ends : last <= k BY <1>1, LeastNatural
<1> DEFINE Off == {k \in first .. last : ~Here(k)}
<1>3. Off = {}
  <2> SUFFICES ASSUME Off # {} PROVE FALSE OBVIOUS
  <2>1. PICK k \in Off : \A l \in Off : k <= l
    <3>1. Off \in SUBSET Nat OBVIOUS
    <3> HIDE DEF Off
    <3> QED BY <3>1, LeastNatural
  <2>2. Here(first) OBVIOUS
  <2>3. k # first BY <2>2
  <2> HIDE DEF Here
  <2>4. k - 1 \in first .. n /\ (k - 1) + 1 = k BY <2>3
  <2>5. k - 1 \in Ends BY <2>4
  <2> QED BY <2>4, <2>5, <1>2
<1>4. \E l \in first .. n :
         /\ \A k \in first .. l : cs[perm[k]].path = cs[perm[first]].path
         /\ l < n => cs[perm[l + 1]].path # cs[perm[first]].path
  BY <1>3
<1> QED BY <1>4 DEF LastOfNode, EndsAt

-----------------------------------------------------------------------------
(* The sorted claims.                                                      *)

Owned(ord, cs) == \A i \in DOMAIN cs : Has(ord, cs[i].package)

LEMMA RanksAreNumbers ==
    ASSUME NEW P, NEW ord \in Seq(P), NEW package, Has(ord, package)
    PROVE  Rank(ord, package) \in DOMAIN ord /\ ord[Rank(ord, package)] = package
BY DEF Has, Rank

(* What stable_sort returns has every claim once, and their paths never    *)
(* fall.                                                                   *)
LEMMA SortingsHoldAll ==
    ASSUME NEW P, NEW ord \in Seq(P), NEW cs \in Seq(Claims(P)), Owned(ord, cs),
           NEW s \in Sortings(ord, cs)
    PROVE  /\ s \in Seq(DOMAIN cs) /\ Len(s) = Len(cs)
           /\ \A i \in DOMAIN cs : \E k \in DOMAIN s : s[k] = i
           /\ \A k, l \in DOMAIN s : k # l => s[k] # s[l]
           /\ \A k, l \in DOMAIN s : k < l =>
                 \/ cs[s[k]].path = cs[s[l]].path
                 \/ bytesLess(cs[s[k]].path, cs[s[l]].path)
<1> DEFINE n == Len(cs)
<1>1. DOMAIN cs = 1 .. n /\ n \in Nat /\ s \in [1 .. n -> 1 .. n]
  BY DEF Sortings
<1>2. s \in Seq(DOMAIN cs) /\ Len(s) = n /\ DOMAIN s = 1 .. n
  <2> HIDE DEF n
  <2> QED BY <1>1
<1>3. \A k, l \in 1 .. n : k < l => ClaimLess(ord, cs, s[k], s[l])
  BY <1>1 DEF Sortings
<1>4. ASSUME NEW i \in 1 .. n PROVE ~ClaimLess(ord, cs, i, i)
  <2>0. cs[i] \in Claims(P) BY <1>1
  <2>1. cs[i].path \in Seq(Nat) BY <2>0 DEF Claims
  <2>2. Rank(ord, cs[i].package) \in Nat
    BY RanksAreNumbers DEF Owned
  <2> HIDE DEF n
  <2> QED BY <2>1, <2>2, <1>4, LessIsIrreflexive DEF ClaimLess
<1> HIDE DEF n
<1>5. \A k, l \in 1 .. n : k # l => s[k] # s[l]
  <2> SUFFICES ASSUME NEW k \in 1 .. n, NEW l \in 1 .. n, k < l, s[k] = s[l]
               PROVE  FALSE
    BY <1>1
  <2>1. s[k] \in 1 .. n BY <1>1
  <2> QED BY <1>3, <1>4, <2>1
<1>6. s \in Injection(1 .. n, 1 .. n)
  BY <1>1, <1>5 DEF Injection, IsInjective
<1>7. s \in Surjection(1 .. n, 1 .. n)
  <2>1. IsFiniteSet(1 .. n) BY <1>1, FS_Interval
  <2> QED BY <1>6, <2>1, FS_Injection
<1>8. \A i \in 1 .. n : \E k \in 1 .. n : s[k] = i
  BY <1>7 DEF Surjection
<1>9. \A k, l \in 1 .. n : k < l =>
         \/ cs[s[k]].path = cs[s[l]].path
         \/ bytesLess(cs[s[k]].path, cs[s[l]].path)
  BY <1>3 DEF ClaimLess
<1>10. Len(cs) = n BY DEF n
<1> QED BY <1>1, <1>2, <1>5, <1>8, <1>9, <1>10

-----------------------------------------------------------------------------
(* What holds of the graph at every point of the planning.                 *)

TypedInputs ==
    /\ order \in Seq(PackageIds) /\ IsOrder(order)
    /\ plans \in Seq(AllPlans) /\ claims \in Seq(Claims(PackageIds))
    /\ priority \in Seq(PackageIds)
    /\ snapshot \in Seq([lookup : PackageIds, plan : AllPlans])

Pcs ==
    {"mapping", "claims", "nodes", "obstructions", "policy", "decisions", "report", "check",
     "compile", "ancestors", "sources", "done", "failed"}
Typed ==
    /\ TypedInputs /\ pc \in Pcs /\ cursor \in Nat \ {0}
    /\ pc \in {"claims", "policy", "report", "check"} => cursor = 1

PathAt(j) == claims[sorted[j]].path
Nodes == [path : Seq(Nat), claims : Seq(Claims(PackageIds))]

(* The node k has the claims from first to last of the sorted ones, which  *)
(* are those on its path.                                                  *)
Covers(k, first, last) ==
    /\ nodes[k] = Node(sorted, claims, first, last)
    /\ \A j \in 1 .. Len(claims) : PathAt(j) = nodes[k].path <=> j \in first .. last

(* The first n of the sorted claims have been put into nodes.              *)
Grouped(n) ==
    /\ nodes \in Seq(Nodes) /\ InOrder(nodes)
    /\ \A k \in DOMAIN nodes : \E first, last \in 1 .. n : first <= last /\ Covers(k, first, last)
    /\ \A j \in 1 .. n : \E k \in DOMAIN nodes : nodes[k].path = PathAt(j)
    /\ \A j \in n + 1 .. Len(claims) : \A k \in DOMAIN nodes : bytesLess(nodes[k].path, PathAt(j))

Sorting ==
    pc \notin {"mapping", "claims", "failed"} =>
        Owned(order, claims) /\ sorted \in Sortings(order, claims)
Grouping ==
    /\ pc \in {"mapping", "claims"} => nodes = <<>>
    /\ pc = "nodes" => cursor <= Len(claims) + 1 /\ Grouped(cursor - 1)
    /\ pc \notin {"mapping", "claims", "nodes", "failed"} => Grouped(Len(claims))
Found(n) == UNION {ObstructionsOf(nodes, k) : k \in 1 .. n}
Searching ==
    /\ pc \in {"mapping", "claims", "nodes"} => obstructions = {}
    /\ pc = "obstructions" => cursor <= Len(nodes) + 1 /\ obstructions = Found(cursor - 1)
    /\ GraphIsBuilt => obstructions = Found(Len(nodes))

GraphInv == Typed /\ Sorting /\ Grouping /\ Searching

-----------------------------------------------------------------------------
LEMMA GraphInvInit == Init => GraphInv
<1> SUFFICES ASSUME Init PROVE GraphInv OBVIOUS
<1> USE PlanAssumption
<1>1. TypedInputs
  BY DEF Init, TypedInputs
<1>2. Typed BY <1>1 DEF Typed, Pcs, Init
<1>3. pc \in {"mapping", "claims"} BY DEF Init
<1> QED BY <1>2, <1>3 DEF GraphInv, Sorting, Grouping, Searching, GraphIsBuilt, Init

-----------------------------------------------------------------------------
(* Mapping keeps the types.                                                *)

LEMMA MapGivesPaths ==
    ASSUME NEW mapping \in RootMappings, NEW path \in Seq(Nat)
    PROVE  map(mapping, path) \subseteq Seq(Nat)
<1> DEFINE root == mapping.package_root
           suffix == SubSeq(path, Len(root) + 2, Len(path))
<1>1. mapping.game_root \in Seq(Nat) /\ root \in Seq(Nat) BY DEF RootMappings
<1>2. suffix \in Seq(Nat)
  <2>1. ASSUME NEW a \in Nat, a >= 1 PROVE SubSeq(path, a, Len(path)) \in Seq(Nat) BY <2>1
  <2>2. Len(root) + 2 \in Nat /\ Len(root) + 2 >= 1 BY <1>1
  <2> QED BY <2>1, <2>2
<1>3. mapping.game_root \o <<Slash>> \o suffix \in Seq(Nat)
  <2>1. <<Slash>> \in Seq(Nat) BY DEF Slash
  <2> HIDE DEF suffix
  <2>2. mapping.game_root \o <<Slash>> \in Seq(Nat) BY <1>1, <2>1
  <2> QED BY <1>2, <2>2
<1> HIDE DEF suffix
<1>4. map(mapping, path)
         \in {{}, {mapping.game_root}, {suffix}, {mapping.game_root \o <<Slash>> \o suffix}}
  BY Zenon DEF map, suffix
<1> QED BY <1>1, <1>2, <1>3, <1>4

LEMMA ClaimsForAreClaims ==
    ASSUME NEW plan \in AllPlans, MappingFaults(plan) = {}
    PROVE  ClaimsFor(plan) \in Seq(Claims(PackageIds))
<1>1. /\ plan.package \in PackageIds /\ plan.entries \in Seq(LayoutEntries)
      /\ plan.mappings \in Seq(RootMappings)
  BY DEF AllPlans, Plans
<1>2. ASSUME NEW i \in DOMAIN plan.entries PROVE ClaimFor(plan, i) \in Claims(PackageIds)
  <2> DEFINE entry == plan.entries[i]
             k == CHOOSE k \in Applying(plan, entry.path) : TRUE
  <2>0. entry \in LayoutEntries BY <1>1
  <2>1. entry.path \in Seq(Nat) /\ entry.kind \in Kinds BY <2>0 DEF LayoutEntries
  <2>2. Applying(plan, entry.path) # {} BY DEF MappingFaults, IsUnmapped
  <2>3. k \in DOMAIN plan.mappings /\ map(plan.mappings[k], entry.path) # {}
    BY <2>2 DEF Applying
  <2>4. plan.mappings[k] \in RootMappings BY <1>1, <2>3
  <2> DEFINE path == CHOOSE p \in map(plan.mappings[k], entry.path) : TRUE
  <2>5. path \in Seq(Nat)
    <3>1. path \in map(plan.mappings[k], entry.path) BY <2>3
    <3> QED BY <3>1, <2>1, <2>4, MapGivesPaths
  <2>6. ClaimFor(plan, i)
           = [package |-> plan.package, source |-> entry.path, path |-> path, kind |-> entry.kind]
    BY DEF ClaimFor
  <2> QED BY <1>1, <2>1, <2>5, <2>6 DEF Claims
<1>3. DOMAIN plan.entries = 1 .. Len(plan.entries) /\ Len(plan.entries) \in Nat BY <1>1
<1> QED BY <1>2, <1>3 DEF ClaimsFor

-----------------------------------------------------------------------------
(* The steps up to the graph.                                              *)

LEMMA GraphInvFail ==
    ASSUME GraphInv, pc' = "failed", UNCHANGED <<inputs, cursor>>
    PROVE  GraphInv'
<1>1. Typed' BY DEF GraphInv, Typed, TypedInputs, inputs, Pcs
<1> QED BY <1>1 DEF GraphInv, Sorting, Grouping, Searching, GraphIsBuilt

LEMMA GraphInvMapPlan == ASSUME GraphInv, MapPlan PROVE GraphInv'
<1>1. pc = "mapping" /\ pc' = "mapping" BY DEF MapPlan
<1>2. Typed'
  <2>1. plans[cursor] \in AllPlans BY DEF GraphInv, Typed, TypedInputs, MapPlan
  <2>2. ClaimsFor(plans[cursor]) \in Seq(Claims(PackageIds))
    BY <2>1, ClaimsForAreClaims DEF MapPlan
  <2> QED BY <2>2 DEF GraphInv, Typed, TypedInputs, MapPlan
<1> QED BY <1>1, <1>2 DEF GraphInv, Sorting, Grouping, Searching, GraphIsBuilt, MapPlan, graph

LEMMA GraphInvSortClaims == ASSUME GraphInv, SortClaims PROVE GraphInv'
<1>1. pc = "claims" /\ pc' = "nodes" BY DEF SortClaims
<1>2. Typed' BY DEF GraphInv, Typed, TypedInputs, SortClaims, inputs, Pcs
<1>3. Sorting'
  BY DEF Sorting, SortClaims, inputs, Unowned, Owned
<1>4. Grouped(0)'
  <2>1. nodes' = <<>> /\ claims' = claims BY <1>1 DEF GraphInv, Grouping, SortClaims, inputs
  <2>2. nodes' \in Seq(Nodes) /\ DOMAIN nodes' = {} BY <2>1
  <2> QED BY <2>1, <2>2 DEF Grouped, InOrder
<1>5. Grouping'
  <2>1. cursor' = 1 /\ claims' = claims BY DEF GraphInv, Typed, SortClaims, inputs
  <2>2. Len(claims) \in Nat BY DEF GraphInv, Typed, TypedInputs
  <2>3. (cursor - 1)' = 0 BY <2>1
  <2> QED BY <1>1, <1>4, <2>1, <2>2, <2>3 DEF Grouping
<1> QED BY <1>1, <1>2, <1>3, <1>5 DEF GraphInv, Searching, GraphIsBuilt, SortClaims

(* The sorted claims, as TakeNode finds them.                              *)
LEMMA SortedClaims ==
    ASSUME Typed, Sorting, pc \notin {"mapping", "claims", "failed"}
    PROVE  /\ sorted \in Seq(DOMAIN claims) /\ Len(sorted) = Len(claims)
           /\ \A i \in DOMAIN claims : \E k \in DOMAIN sorted : sorted[k] = i
           /\ \A k, l \in DOMAIN sorted : k # l => sorted[k] # sorted[l]
           /\ \A k, l \in 1 .. Len(claims) : k < l =>
                 PathAt(k) = PathAt(l) \/ bytesLess(PathAt(k), PathAt(l))
           /\ \A k \in 1 .. Len(claims) : PathAt(k) \in Seq(Nat)
<1>1. /\ order \in Seq(PackageIds) /\ claims \in Seq(Claims(PackageIds))
      /\ Owned(order, claims) /\ sorted \in Sortings(order, claims)
  BY DEF Typed, TypedInputs, Sorting
<1>2. /\ sorted \in Seq(DOMAIN claims) /\ Len(sorted) = Len(claims)
      /\ \A i \in DOMAIN claims : \E k \in DOMAIN sorted : sorted[k] = i
      /\ \A k, l \in DOMAIN sorted : k # l => sorted[k] # sorted[l]
      /\ \A k, l \in DOMAIN sorted : k < l =>
            PathAt(k) = PathAt(l) \/ bytesLess(PathAt(k), PathAt(l))
  <2> HIDE DEF PathAt
  <2> QED BY <1>1, SortingsHoldAll DEF PathAt
<1>3. DOMAIN sorted = 1 .. Len(claims) BY <1>2
<1>4. ASSUME NEW k \in 1 .. Len(claims) PROVE PathAt(k) \in Seq(Nat)
  <2>1. sorted[k] \in DOMAIN claims BY <1>2, <1>3
  <2>2. claims[sorted[k]] \in Claims(PackageIds) BY <1>1, <2>1
  <2> QED BY <2>2 DEF PathAt, Claims
<1> QED BY <1>2, <1>3, <1>4

LEMMA NodeIsNode ==
    ASSUME Typed, Sorting, pc \notin {"mapping", "claims", "failed"},
           NEW first \in 1 .. Len(claims), NEW last \in first .. Len(claims)
    PROVE  /\ Node(sorted, claims, first, last) \in Nodes
           /\ Node(sorted, claims, first, last).path = PathAt(first)
           /\ Len(Node(sorted, claims, first, last).claims) = last - first + 1
           /\ \A m \in 1 .. last - first + 1 :
                 Node(sorted, claims, first, last).claims[m] = claims[sorted[first + m - 1]]
<1> DEFINE list == [k \in 1 .. last - first + 1 |-> claims[sorted[first + k - 1]]]
<1>1. \A j \in 1 .. Len(claims) : claims[sorted[j]] \in Claims(PackageIds)
  <2> TAKE j \in 1 .. Len(claims)
  <2>0. sorted \in Seq(DOMAIN claims) /\ DOMAIN sorted = 1 .. Len(claims) BY SortedClaims
  <2>1. sorted[j] \in DOMAIN claims BY <2>0
  <2> QED BY <2>1 DEF Typed, TypedInputs
<1>2. Len(claims) \in Nat BY DEF Typed, TypedInputs
<1>3. \A k \in 1 .. last - first + 1 : first + k - 1 \in 1 .. Len(claims) BY <1>2
<1>4. list \in Seq(Claims(PackageIds)) /\ Len(list) = last - first + 1
  <2>1. last - first + 1 \in Nat BY <1>2
  <2> QED BY <1>1, <1>3, <2>1
<1>5. \A m \in 1 .. last - first + 1 : list[m] = claims[sorted[first + m - 1]] OBVIOUS
<1>6. PathAt(first) \in Seq(Nat) BY SortedClaims
<1>7. Node(sorted, claims, first, last) = [path |-> PathAt(first), claims |-> list]
  BY DEF Node, PathAt
<1> HIDE DEF list
<1> QED BY <1>4, <1>5, <1>6, <1>7 DEF Nodes

LEMMA GroupedGrows ==
    ASSUME Typed, Sorting, pc = "nodes", cursor <= Len(sorted), Grouped(cursor - 1),
           TakeNode
    PROVE  cursor' \in 2 .. Len(claims) + 1 /\ Grouped(cursor - 1)'
<1> DEFINE n == Len(claims)
           last == LastOfNode(sorted, claims, cursor)
           node == Node(sorted, claims, cursor, last)
           path == PathAt(cursor)
<1>1. n \in Nat /\ cursor \in 1 .. n /\ Len(sorted) = n
  BY SortedClaims DEF Typed, TypedInputs
<1>2. /\ last \in cursor .. n
      /\ \A j \in cursor .. last : PathAt(j) = path
      /\ last < n => PathAt(last + 1) # path
  <2> HIDE DEF n
  <2>1. EndsAt(sorted, claims, n, cursor, last) BY <1>1, LastOfNodeExists
  <2> HIDE DEF last
  <2> QED BY <2>1 DEF EndsAt, PathAt
<1> HIDE DEF last
<1>3. node \in Nodes /\ node.path = path
  BY <1>1, <1>2, NodeIsNode
<1>4. /\ \A k, l \in 1 .. n : k < l => PathAt(k) = PathAt(l) \/ bytesLess(PathAt(k), PathAt(l))
      /\ \A k \in 1 .. n : PathAt(k) \in Seq(Nat)
  BY SortedClaims
<1>5. /\ nodes' = Append(nodes, node) /\ cursor' = last + 1
      /\ claims' = claims /\ sorted' = sorted
  BY DEF TakeNode, inputs, last
<1> HIDE DEF n, node, path
<1>6. ASSUME NEW j \in last + 1 .. n PROVE bytesLess(path, PathAt(j))
  <2>1. last + 1 \in 1 .. n /\ cursor < last + 1 /\ last < n BY <1>1, <1>2
  <2>2. bytesLess(path, PathAt(last + 1)) BY <1>1, <1>2, <1>4, <2>1 DEF path
  <2>3. CASE j = last + 1 BY <2>2, <2>3
  <2>4. CASE j # last + 1
    <3>1. j \in 1 .. n /\ last + 1 < j BY <1>1, <1>2, <2>4
    <3>2. PathAt(last + 1) = PathAt(j) \/ bytesLess(PathAt(last + 1), PathAt(j))
      BY <1>4, <2>1, <3>1
    <3>3. path \in Seq(Nat) /\ PathAt(last + 1) \in Seq(Nat) /\ PathAt(j) \in Seq(Nat)
      BY <1>1, <1>4, <2>1, <3>1 DEF path
    <3> QED BY <2>2, <3>2, <3>3, LessIsTransitive
  <2> QED BY <2>3, <2>4
<1>7. \A k \in DOMAIN nodes : bytesLess(nodes[k].path, path)
  BY <1>1 DEF Grouped, n, path
<1>8. ASSUME NEW j \in 1 .. n PROVE PathAt(j) = path <=> j \in cursor .. last
  <2>0. path \in Seq(Nat) BY <1>1, <1>4 DEF path
  <2>1. CASE j < cursor
    <3>1. j \in 1 .. cursor - 1 BY <1>1, <2>1
    <3>2. PICK k \in DOMAIN nodes : nodes[k].path = PathAt(j) BY <3>1 DEF Grouped
    <3>3. bytesLess(PathAt(j), path) BY <1>7, <3>2
    <3>4. PathAt(j) # path BY <2>0, <3>3, LessIsIrreflexive
    <3> QED BY <1>1, <1>2, <2>1, <3>4
  <2>2. CASE j \in cursor .. last BY <1>2, <2>2
  <2>3. CASE j > last
    <3>1. j \in last + 1 .. n BY <1>1, <1>2, <2>3
    <3>2. bytesLess(path, PathAt(j)) BY <1>6, <3>1
    <3>3. PathAt(j) # path BY <2>0, <3>2, LessIsIrreflexive
    <3> QED BY <1>1, <1>2, <2>3, <3>3
  <2> QED BY <1>1, <1>2, <2>1, <2>2, <2>3
<1>9. cursor' \in 2 .. n + 1 /\ (cursor - 1)' = last BY <1>1, <1>2, <1>5
<1> DEFINE m == Len(nodes)
<1>10. nodes \in Seq(Nodes) /\ m \in Nat /\ DOMAIN nodes = 1 .. m BY DEF Grouped
<1>11. /\ nodes' \in Seq(Nodes) /\ DOMAIN nodes' = 1 .. m + 1
       /\ \A k \in 1 .. m : nodes'[k] = nodes[k]
       /\ nodes'[m + 1] = node
  BY <1>3, <1>5, <1>10
<1> HIDE DEF m
<1>12. InOrder(nodes')
  <2> SUFFICES ASSUME NEW k \in 1 .. m + 1, NEW l \in 1 .. m + 1, k < l
               PROVE  bytesLess(nodes'[k].path, nodes'[l].path)
    BY <1>11 DEF InOrder
  <2>1. k \in 1 .. m BY <1>10
  <2>2. CASE l = m + 1 BY <1>3, <1>7, <1>10, <1>11, <2>1, <2>2
  <2>3. CASE l \in 1 .. m
    <3>1. bytesLess(nodes[k].path, nodes[l].path) BY <1>10, <2>1, <2>3 DEF Grouped, InOrder
    <3> QED BY <1>11, <2>1, <2>3, <3>1
  <2> QED BY <1>10, <2>2, <2>3
<1>13. ASSUME NEW k \in 1 .. m + 1
       PROVE  \E first, final \in 1 .. last : first <= final /\
                 /\ nodes'[k] = Node(sorted, claims, first, final)
                 /\ \A j \in 1 .. n : PathAt(j) = nodes'[k].path <=> j \in first .. final
  <2>1. CASE k = m + 1
    <3>1. cursor \in 1 .. last /\ last \in 1 .. last /\ cursor <= last BY <1>1, <1>2
    <3> QED BY <1>3, <1>8, <1>11, <2>1, <3>1 DEF node
  <2>2. CASE k \in 1 .. m
    <3>1. PICK first, final \in 1 .. cursor - 1 : first <= final /\ Covers(k, first, final)
      BY <1>10, <2>2 DEF Grouped
    <3>2. first \in 1 .. last /\ final \in 1 .. last BY <1>1, <1>2
    <3> QED BY <1>11, <2>2, <3>1, <3>2 DEF Covers, n
  <2> QED BY <1>10, <2>1, <2>2
<1>14. ASSUME NEW j \in 1 .. last PROVE \E k \in 1 .. m + 1 : nodes'[k].path = PathAt(j)
  <2>1. CASE j < cursor
    <3>1. j \in 1 .. cursor - 1 BY <1>1, <1>2, <2>1
    <3>2. PICK k \in 1 .. m : nodes[k].path = PathAt(j) BY <1>10, <3>1 DEF Grouped
    <3> QED BY <1>10, <1>11, <3>2
  <2>2. CASE j >= cursor
    <3>1. PathAt(j) = path BY <1>1, <1>2, <2>2
    <3> QED BY <1>3, <1>10, <1>11, <3>1
  <2> QED BY <1>1, <1>2, <2>1, <2>2
<1>15. ASSUME NEW j \in last + 1 .. n, NEW k \in 1 .. m + 1
       PROVE  bytesLess(nodes'[k].path, PathAt(j))
  <2>1. CASE k = m + 1 BY <1>3, <1>6, <1>11, <2>1
  <2>2. CASE k \in 1 .. m
    <3>1. j \in cursor .. n BY <1>1, <1>2
    <3>2. j \in (cursor - 1) + 1 .. Len(claims) BY <1>1, <3>1 DEF n
    <3>3. bytesLess(nodes[k].path, PathAt(j)) BY <1>10, <2>2, <3>2 DEF Grouped
    <3> QED BY <1>11, <2>2, <3>3
  <2> QED BY <1>10, <2>1, <2>2
<1>16. (\A j : PathAt(j)' = PathAt(j)) /\ n = Len(claims') BY <1>5 DEF PathAt, n
<1>17. ASSUME NEW k \in DOMAIN nodes'
       PROVE  \E first, final \in 1 .. last : first <= final /\ Covers(k, first, final)'
  BY <1>5, <1>11, <1>13, <1>16 DEF Covers
<1> QED BY <1>9, <1>11, <1>12, <1>14, <1>15, <1>16, <1>17 DEF Grouped, n

LEMMA GraphInvTakeNode == ASSUME GraphInv, TakeNode PROVE GraphInv'
<1>1. pc = "nodes" /\ pc' = "nodes" /\ claims' = claims /\ order' = order /\ sorted' = sorted
  BY DEF TakeNode, inputs
<1>2. cursor' \in 2 .. Len(claims) + 1 /\ Grouped(cursor - 1)'
  <2>1. cursor <= Len(sorted) BY DEF TakeNode
  <2> QED BY <1>1, <2>1, GroupedGrows DEF GraphInv, Grouping
<1>3. Typed'
  <2>1. cursor' \in Nat \ {0} BY <1>2 DEF GraphInv, Typed, TypedInputs
  <2> QED BY <1>1, <2>1 DEF GraphInv, Typed, TypedInputs, TakeNode, inputs
<1>4. Sorting' BY <1>1 DEF GraphInv, Sorting
<1>5. Grouping'
  <2>1. cursor' <= Len(claims) + 1 BY <1>2 DEF GraphInv, Typed, TypedInputs
  <2> QED BY <1>1, <1>2, <2>1 DEF Grouping
<1>6. Searching' BY <1>1 DEF GraphInv, Searching, GraphIsBuilt, TakeNode
<1> QED BY <1>3, <1>4, <1>5, <1>6 DEF GraphInv

(* A step that leaves what is given, the sorted claims and the nodes alone. *)
LEMMA GroupedStays ==
    ASSUME claims' = claims, sorted' = sorted, nodes' = nodes
    PROVE  /\ \A n : Grouped(n)' = Grouped(n)
           /\ \A n : Found(n)' = Found(n)
BY DEF Grouped, Covers, PathAt, Found

LEMMA GraphInvLookBelow == ASSUME GraphInv, LookBelow PROVE GraphInv'
<1>1. /\ pc = "obstructions" /\ pc' = "obstructions" /\ cursor' = cursor + 1
      /\ UNCHANGED <<order, plans, priority, snapshot, claims, sorted, nodes>>
  BY DEF LookBelow, inputs
<1>2. Typed' BY <1>1 DEF GraphInv, Typed, TypedInputs
<1>3. cursor \in Nat \ {0} /\ cursor <= Len(nodes) /\ nodes \in Seq(Nodes)
  BY <1>1 DEF GraphInv, Typed, Grouping, Grouped, LookBelow
<1>4. obstructions' = Found(cursor)
  <2>1. obstructions' = Found(cursor - 1) \union ObstructionsOf(nodes, cursor)
    BY <1>1 DEF LookBelow, GraphInv, Searching
  <2>2. 1 .. cursor = (1 .. cursor - 1) \union {cursor} BY <1>3
  <2>3. Found(cursor) = Found(cursor - 1) \union ObstructionsOf(nodes, cursor)
    BY <2>2 DEF Found
  <2> QED BY <2>1, <2>3
<1>5. Sorting' BY <1>1 DEF GraphInv, Sorting
<1>6. Grouping' BY <1>1, GroupedStays DEF GraphInv, Grouping
<1>7. Searching'
  <2>1. cursor' <= Len(nodes) + 1 /\ (cursor - 1)' = cursor BY <1>1, <1>3
  <2> QED BY <1>1, <1>4, <2>1, GroupedStays DEF Searching, GraphIsBuilt
<1> QED BY <1>2, <1>5, <1>6, <1>7 DEF GraphInv

(* What comes after the graph leaves it alone.                             *)
LEMMA GraphInvLater ==
    ASSUME GraphInv, GraphIsBuilt, GraphIsBuilt', pc' \in Pcs,
           UNCHANGED <<inputs, graph>>, cursor' \in Nat \ {0},
           pc' \in {"policy", "report", "check"} => cursor' = 1
    PROVE  GraphInv'
<1>1. UNCHANGED <<order, plans, priority, snapshot, claims, sorted, nodes, obstructions>>
  BY DEF inputs, graph
<1>2. Typed' BY <1>1 DEF GraphInv, Typed, TypedInputs, GraphIsBuilt
<1>3. Sorting' BY <1>1 DEF GraphInv, Sorting, GraphIsBuilt
<1>4. Grouping' BY <1>1, GroupedStays DEF GraphInv, Grouping, GraphIsBuilt
<1>5. Searching' BY <1>1, GroupedStays DEF GraphInv, Searching, GraphIsBuilt
<1> QED BY <1>2, <1>3, <1>4, <1>5 DEF GraphInv

LEMMA GraphInvEndLoop == ASSUME GraphInv, EndLoop PROVE GraphInv'
<1>1. /\ UNCHANGED <<order, plans, priority, snapshot, claims, sorted, nodes, obstructions>>
      /\ cursor' = 1
  BY DEF EndLoop, inputs, graph
<1>2. Typed' BY <1>1 DEF GraphInv, Typed, TypedInputs, EndLoop, Pcs
<1>3. CASE pc = "mapping"
  <2>1. pc' = "claims" BY <1>3 DEF EndLoop
  <2> QED BY <1>1, <1>2, <1>3, <2>1 DEF GraphInv, Sorting, Grouping, Searching, GraphIsBuilt
<1>4. CASE pc = "nodes"
  <2>1. pc' = "obstructions" /\ cursor > Len(sorted) BY <1>4 DEF EndLoop
  <2>2. Sorting' BY <1>1, <1>4, <2>1 DEF GraphInv, Sorting
  <2>3. cursor - 1 = Len(claims) /\ cursor \in Nat /\ Len(claims) \in Nat
    <3>1. Len(sorted) = Len(claims) BY <1>4, SortedClaims DEF GraphInv
    <3> QED BY <1>4, <2>1, <3>1 DEF GraphInv, Typed, TypedInputs, Grouping
  <2>4. Grouping' BY <1>1, <1>4, <2>1, <2>3, GroupedStays DEF GraphInv, Grouping
  <2>5. Searching'
    <3>1. nodes \in Seq(Nodes) BY <1>4 DEF GraphInv, Grouping, Grouped
    <3>2. Found(0) = {} BY DEF Found
    <3>3. (cursor - 1)' = 0 /\ cursor' <= Len(nodes) + 1 BY <1>1, <3>1
    <3> QED BY <1>1, <1>4, <2>1, <3>2, <3>3, GroupedStays DEF GraphInv, Searching, GraphIsBuilt
  <2> QED BY <1>2, <2>2, <2>4, <2>5 DEF GraphInv
<1>5. CASE pc = "obstructions"
  <2>1. pc' = "policy" /\ cursor > Len(nodes) BY <1>5 DEF EndLoop
  <2>2. nodes \in Seq(Nodes) BY <1>5 DEF GraphInv, Grouping, Grouped
  <2>3. cursor - 1 = Len(nodes) BY <1>5, <2>1, <2>2 DEF GraphInv, Searching, Typed
  <2>4. Sorting' BY <1>1, <1>5, <2>1 DEF GraphInv, Sorting
  <2>5. Grouping' BY <1>1, <1>5, <2>1, GroupedStays DEF GraphInv, Grouping
  <2>6. Searching'
    BY <1>1, <1>5, <2>1, <2>3, GroupedStays DEF GraphInv, Searching, GraphIsBuilt
  <2> QED BY <1>2, <2>4, <2>5, <2>6 DEF GraphInv
<1>6. CASE pc \in {"decisions", "compile"}
  <2>1. GraphIsBuilt /\ GraphIsBuilt' /\ pc' \in Pcs
    BY <1>6 DEF EndLoop, GraphIsBuilt, Pcs
  <2> QED BY <1>1, <2>1, GraphInvLater DEF EndLoop
<1> QED BY <1>3, <1>4, <1>5, <1>6 DEF EndLoop

LEMMA GraphInvNext == GraphInv /\ [Next]_vars => GraphInv'
<1> SUFFICES ASSUME GraphInv, [Next]_vars PROVE GraphInv' OBVIOUS
<1>1. ASSUME NEW code, NEW index, NEW package, NEW path, Fail(code, index, package, path)
      PROVE  GraphInv'
  BY <1>1, GraphInvFail DEF Fail
<1>2. CASE RejectEntryOfPlan BY <1>1, <1>2 DEF RejectEntryOfPlan
<1>3. CASE RejectClaim BY <1>1, <1>3 DEF RejectClaim
<1>4. CASE RejectPriority BY <1>1, <1>4 DEF RejectPriority
<1>5. CASE RejectConflicts BY <1>1, <1>5 DEF RejectConflicts
<1>6. CASE RejectSnapshot BY <1>1, <1>6 DEF RejectSnapshot
<1>7. CASE RejectEntry BY <1>1, <1>7 DEF RejectEntry
<1>8. CASE MapPlan BY <1>8, GraphInvMapPlan
<1>9. CASE SortClaims BY <1>9, GraphInvSortClaims
<1>10. CASE TakeNode BY <1>10, GraphInvTakeNode
<1>11. CASE LookBelow BY <1>11, GraphInvLookBelow
<1>12. CASE EndLoop BY <1>12, GraphInvEndLoop
<1>13. cursor \in Nat \ {0} /\ (pc \in {"policy", "report", "check"} => cursor = 1)
  BY DEF GraphInv, Typed
<1>14. CASE AcceptPriority
  BY <1>13, <1>14, GraphInvLater DEF AcceptPriority, GraphIsBuilt, Pcs
<1>15. CASE Decide BY <1>13, <1>15, GraphInvLater DEF Decide, GraphIsBuilt, Pcs
<1>16. CASE ReportObstructions
  BY <1>13, <1>16, GraphInvLater DEF ReportObstructions, GraphIsBuilt, Pcs
<1>17. CASE StartCompiling
  BY <1>13, <1>17, GraphInvLater DEF StartCompiling, GraphIsBuilt, Pcs
<1>18. CASE CompileNext
  <2>1. CASE \E code, index, package, path : Fail(code, index, package, path)
    BY <1>1, <2>1
  <2>2. CASE UNCHANGED <<inputs, pc, graph>> /\ cursor' = cursor + 1 /\ pc = "compile"
    BY <1>13, <2>2, GraphInvLater DEF GraphIsBuilt, Pcs
  <2> QED BY <1>18, <2>1, <2>2 DEF CompileNext
<1>19. CASE AddAncestors BY <1>13, <1>19, GraphInvLater DEF AddAncestors, GraphIsBuilt, Pcs
<1>20. CASE MapSources BY <1>13, <1>20, GraphInvLater DEF MapSources, GraphIsBuilt, Pcs
<1>21. CASE UNCHANGED vars
  <2>1. UNCHANGED <<order, plans, priority, snapshot, claims, sorted, nodes, obstructions, pc,
                    cursor>>
    BY <1>21 DEF vars, inputs, graph
  <2>2. Typed' BY <2>1 DEF GraphInv, Typed, TypedInputs
  <2>3. Sorting' BY <2>1 DEF GraphInv, Sorting
  <2>4. Grouping' BY <2>1, GroupedStays DEF GraphInv, Grouping
  <2>5. Searching' BY <2>1, GroupedStays DEF GraphInv, Searching, GraphIsBuilt
  <2> QED BY <2>2, <2>3, <2>4, <2>5 DEF GraphInv
<1> QED
  BY <1>2, <1>3, <1>4, <1>5, <1>6, <1>7, <1>8, <1>9, <1>10, <1>11, <1>12, <1>14, <1>15,
     <1>16, <1>17, <1>18, <1>19, <1>20, <1>21
  DEF Next, Returned

(* For all that the planning may be given, at every point of building the   *)
(* graph: the claims are sorted, the nodes hold those that were taken, and  *)
(* the obstructions are those of the nodes that were looked at.             *)
THEOREM GraphInvariant == Spec => []GraphInv
<1> QED BY GraphInvInit, GraphInvNext, PTL DEF Spec

-----------------------------------------------------------------------------
(* What the finished graph says of the claims.                             *)

(* The claims of a node are those on its path, each once.                  *)
Numbering(k, g) ==
    /\ g \in [DOMAIN nodes[k].claims -> On(nodes[k].path)]
    /\ \A m \in DOMAIN nodes[k].claims : nodes[k].claims[m] = claims[g[m]]
    /\ \A i \in On(nodes[k].path) : \E m \in DOMAIN nodes[k].claims : g[m] = i
    /\ \A l, m \in DOMAIN nodes[k].claims : l # m => g[l] # g[m]

LEMMA NodesAreNodes ==
    ASSUME GraphInv, GraphIsBuilt
    PROVE  /\ nodes \in Seq(Nodes) /\ InOrder(nodes)
           /\ \A k \in DOMAIN nodes :
                 nodes[k].path \in Seq(Nat) /\ nodes[k].claims \in Seq(Claims(PackageIds))
<1>1. nodes \in Seq(Nodes) /\ InOrder(nodes) BY DEF GraphInv, Grouping, Grouped, GraphIsBuilt
<1>2. \A k \in DOMAIN nodes : nodes[k] \in Nodes BY <1>1
<1> QED BY <1>1, <1>2 DEF Nodes

LEMMA PathsHaveNodes ==
    ASSUME GraphInv, GraphIsBuilt, NEW path \in Paths
    PROVE  \E k \in DOMAIN nodes : nodes[k].path = path
<1>1. PICK i \in DOMAIN claims : claims[i].path = path BY DEF Paths
<1>2. pc \notin {"mapping", "claims", "failed"} /\ Typed /\ Sorting
  BY DEF GraphIsBuilt, GraphInv
<1>3. PICK j \in DOMAIN sorted : sorted[j] = i BY <1>2, SortedClaims
<1>4. DOMAIN sorted = 1 .. Len(claims) BY <1>2, SortedClaims
<1> QED BY <1>1, <1>3, <1>4 DEF GraphInv, Grouping, Grouped, GraphIsBuilt, PathAt

LEMMA NodesHoldTheirClaims ==
    ASSUME GraphInv, GraphIsBuilt, NEW k \in DOMAIN nodes
    PROVE  /\ nodes[k].path \in Paths /\ nodes[k].claims # <<>>
           /\ \E g : Numbering(k, g)
<1> DEFINE n == Len(claims)
<1>1. pc \notin {"mapping", "claims", "failed"} /\ Typed /\ Sorting
  BY DEF GraphIsBuilt, GraphInv
<1>2. PICK first, last \in 1 .. n : first <= last /\ Covers(k, first, last)
  BY DEF GraphInv, Grouping, Grouped, GraphIsBuilt
<1>3. n \in Nat /\ last \in first .. n BY <1>1, <1>2 DEF Typed, TypedInputs
<1>4. /\ nodes[k].path = PathAt(first)
      /\ nodes[k].claims \in Seq(Claims(PackageIds))
      /\ Len(nodes[k].claims) = last - first + 1
      /\ \A m \in 1 .. last - first + 1 :
            nodes[k].claims[m] = claims[sorted[first + m - 1]]
  <2>1. nodes[k] = Node(sorted, claims, first, last) BY <1>2 DEF Covers
  <2>2. nodes[k].claims \in Seq(Claims(PackageIds)) BY NodesAreNodes
  <2> QED BY <1>1, <1>2, <1>3, <2>1, <2>2, NodeIsNode
<1>5. DOMAIN nodes[k].claims = 1 .. last - first + 1 BY <1>4
<1>6. /\ DOMAIN sorted = 1 .. n
      /\ \A j \in 1 .. n : sorted[j] \in DOMAIN claims
      /\ \A i \in DOMAIN claims : \E j \in DOMAIN sorted : sorted[j] = i
      /\ \A j, l \in DOMAIN sorted : j # l => sorted[j] # sorted[l]
  <2>1. sorted \in Seq(DOMAIN claims) /\ DOMAIN sorted = 1 .. n BY <1>1, SortedClaims
  <2>2. \A j \in 1 .. n : sorted[j] \in DOMAIN claims BY <2>1
  <2>3. \A i \in DOMAIN claims : \E j \in DOMAIN sorted : sorted[j] = i
    BY <1>1, SortedClaims
  <2>4. \A j, l \in DOMAIN sorted : j # l => sorted[j] # sorted[l] BY <1>1, SortedClaims
  <2> QED BY <2>1, <2>2, <2>3, <2>4
<1>7. \A j \in 1 .. n : PathAt(j) = nodes[k].path <=> j \in first .. last
  BY <1>2 DEF Covers
<1> HIDE DEF n
<1>8. \A m \in 1 .. last - first + 1 : first + m - 1 \in first .. last /\ first + m - 1 \in 1 .. n
  BY <1>3
<1>9. nodes[k].path \in Paths
  BY <1>2, <1>4, <1>6 DEF Paths, PathAt
<1> DEFINE g == [m \in DOMAIN nodes[k].claims |-> sorted[first + m - 1]]
<1>10. Numbering(k, g)
  <2>1. ASSUME NEW m \in DOMAIN nodes[k].claims
        PROVE  g[m] \in On(nodes[k].path) /\ nodes[k].claims[m] = claims[g[m]]
    <3>1. first + m - 1 \in first .. last /\ first + m - 1 \in 1 .. n BY <1>5, <1>8
    <3>2. PathAt(first + m - 1) = nodes[k].path BY <1>7, <3>1
    <3> QED BY <1>4, <1>5, <1>6, <3>1, <3>2 DEF On, PathAt
  <2>2. ASSUME NEW i \in On(nodes[k].path) PROVE \E m \in DOMAIN nodes[k].claims : g[m] = i
    <3>1. i \in DOMAIN claims /\ claims[i].path = nodes[k].path BY DEF On
    <3>2. PICK j \in 1 .. n : sorted[j] = i BY <1>6, <3>1
    <3>3. j \in first .. last BY <1>7, <3>1, <3>2 DEF PathAt
    <3>4. j - first + 1 \in 1 .. last - first + 1 /\ first + (j - first + 1) - 1 = j
      BY <1>3, <3>3
    <3> QED BY <1>5, <3>2, <3>4
  <2>3. ASSUME NEW l \in DOMAIN nodes[k].claims, NEW m \in DOMAIN nodes[k].claims, l # m
        PROVE  g[l] # g[m]
    <3>1. first + l - 1 \in 1 .. n /\ first + m - 1 \in 1 .. n /\ first + l - 1 # first + m - 1
      BY <1>3, <1>5, <1>8, <2>3
    <3> QED BY <1>6, <3>1
  <2> HIDE DEF g
  <2>4. g \in [DOMAIN nodes[k].claims -> On(nodes[k].path)] BY <2>1 DEF g
  <2> QED BY <2>1, <2>2, <2>3, <2>4 DEF Numbering
<1>11. nodes[k].claims # <<>> BY <1>3, <1>4
<1> HIDE DEF g
<1> QED BY <1>9, <1>10, <1>11

(* A path lies below another one where it starts with it and a slash.      *)
LEMMA AboveIsPrefix ==
    ASSUME NEW above \in Seq(Nat), above # Root, NEW below \in Seq(Nat)
    PROVE  IsAbove(above, below) <=> starts_with(below, Append(above, Slash))
<1> DEFINE prefix == Append(above, Slash)
<1>1. /\ prefix \in Seq(Nat) /\ Len(prefix) = Len(above) + 1
      /\ prefix[Len(above) + 1] = Slash
      /\ \A k \in 1 .. Len(above) : prefix[k] = above[k]
  BY DEF Slash
<1>2. DOMAIN above = 1 .. Len(above) /\ Len(above) \in Nat /\ Len(below) \in Nat OBVIOUS
<1> HIDE DEF prefix
<1>3. starts_with(below, prefix) <=>
         /\ Len(above) + 1 <= Len(below)
         /\ \A k \in 1 .. Len(above) + 1 : prefix[k] = below[k]
  BY <1>1, StartsWith
<1>4. (\A k \in 1 .. Len(above) + 1 : prefix[k] = below[k]) <=>
         below[Len(above) + 1] = Slash /\ \A k \in 1 .. Len(above) : above[k] = below[k]
  <2>1. \A k : k \in 1 .. Len(above) + 1 <=> k \in 1 .. Len(above) \/ k = Len(above) + 1
    BY <1>2
  <2> QED BY <1>1, <2>1
<1>5. IsAbove(above, below) <=>
         /\ Len(above) < Len(below) /\ below[Len(above) + 1] = Slash
         /\ \A k \in 1 .. Len(above) : above[k] = below[k]
  BY <1>2 DEF IsAbove
<1> QED BY <1>2, <1>3, <1>4, <1>5 DEF prefix

(* The search of buildObstructions, node by node.                          *)
LEMMA DescendantsAreThoseBelow ==
    ASSUME GraphInv, GraphIsBuilt, NEW a \in DOMAIN nodes, NEW path \in Seq(Nat)
    PROVE  path \in Descendants(nodes, a) <=> path \in Paths /\ IsAbove(nodes[a].path, path)
<1>1. /\ nodes \in Seq(Nodes) /\ InOrder(nodes)
      /\ \A k \in DOMAIN nodes : nodes[k].path \in Seq(Nat)
  BY NodesAreNodes
<1>2. DOMAIN nodes = 1 .. Len(nodes) /\ Len(nodes) \in Nat BY <1>1
<1>3. \A k \in DOMAIN nodes : nodes[k].path \in Paths BY NodesHoldTheirClaims
<1>4. CASE nodes[a].path = Root
  <2>1. Descendants(nodes, a) = {nodes[k].path : k \in DOMAIN nodes} \ {Root}
    BY <1>4 DEF Descendants
  <2>2. path \in Paths <=> \E k \in DOMAIN nodes : nodes[k].path = path
    BY <1>3, PathsHaveNodes
  <2> QED BY <1>4, <2>1, <2>2 DEF IsAbove
<1>5. CASE nodes[a].path # Root
  <2>1. ASSUME path \in Descendants(nodes, a)
        PROVE  path \in Paths /\ IsAbove(nodes[a].path, path)
    <3>1. PICK k \in DOMAIN nodes :
            path = nodes[k].path /\ starts_with(path, Append(nodes[a].path, Slash))
      BY <1>2, <1>5, <2>1, DescendantsAreBelow
    <3> QED BY <1>1, <1>3, <1>5, <3>1, AboveIsPrefix
  <2>2. ASSUME path \in Paths, IsAbove(nodes[a].path, path)
        PROVE  path \in Descendants(nodes, a)
    <3>1. PICK k \in DOMAIN nodes : nodes[k].path = path BY <2>2, PathsHaveNodes
    <3>2. starts_with(path, Append(nodes[a].path, Slash))
      BY <1>1, <1>5, <2>2, AboveIsPrefix
    <3> QED BY <1>1, <1>2, <1>5, <3>1, <3>2, DescendantsAreAll
  <2> QED BY <2>1, <2>2
<1> QED BY <1>4, <1>5

LEMMA GraphHasObstructions == GraphInv => ObstructionsAreComplete
<1> SUFFICES ASSUME GraphInv, GraphIsBuilt, NEW above \in Paths, NEW below \in Paths
             PROVE  [ancestor |-> above, descendant |-> below] \in obstructions
                      <=> Obstructed(above, below)
  BY DEF ObstructionsAreComplete
<1> DEFINE pair == [ancestor |-> above, descendant |-> below]
<1>1. above \in Seq(Nat) /\ below \in Seq(Nat)
  <2>1. \A i \in DOMAIN claims : claims[i] \in Claims(PackageIds)
    BY DEF GraphInv, Typed, TypedInputs
  <2> QED BY <2>1 DEF Paths, Claims
<1>2. obstructions = Found(Len(nodes)) BY DEF GraphInv, Searching
<1>3. DOMAIN nodes = 1 .. Len(nodes) /\ InOrder(nodes) /\ Len(nodes) \in Nat
  BY NodesAreNodes
<1>4. pair \in obstructions <=>
        \E k \in DOMAIN nodes :
           /\ nodes[k].path = above /\ containsNonDirectory(nodes[k].claims)
           /\ below \in Descendants(nodes, k)
  <2>1. \A k \in DOMAIN nodes : pair \in ObstructionsOf(nodes, k) <=>
           /\ nodes[k].path = above /\ containsNonDirectory(nodes[k].claims)
           /\ below \in Descendants(nodes, k)
    BY DEF ObstructionsOf
  <2> QED BY <1>2, <1>3, <2>1 DEF Found
<1>5. ASSUME NEW k \in DOMAIN nodes, nodes[k].path = above
      PROVE  containsNonDirectory(nodes[k].claims)
               <=> \E i \in On(above) : claims[i].kind # "Directory"
  <2>1. PICK g : Numbering(k, g) BY NodesHoldTheirClaims
  <2> QED BY <1>5, <2>1 DEF Numbering, containsNonDirectory
<1>6. PICK a \in DOMAIN nodes : nodes[a].path = above BY PathsHaveNodes
<1>7. \A k \in DOMAIN nodes : nodes[k].path = above =>
          (below \in Descendants(nodes, k) <=> IsAbove(above, below))
  BY <1>1, DescendantsAreThoseBelow
<1> QED BY <1>4, <1>5, <1>6, <1>7 DEF Obstructed

(* buildObstructions finds every pair of a claim that is no directory and   *)
(* a claim below it, and no other, for all claims.                         *)
THEOREM ObstructionsComplete == Spec => []ObstructionsAreComplete
<1> QED BY GraphHasObstructions, GraphInvariant, PTL

-----------------------------------------------------------------------------
(* What is decided on a node.                                              *)

RankOf(package) == Rank(priority, package)

LEMMA ClaimsAreRanked ==
    ASSUME GraphInv, GraphIsBuilt, IsComplete, NEW i \in DOMAIN claims
    PROVE  /\ RankOf(claims[i].package) \in Nat /\ RankOf(claims[i].package) <= Len(priority)
           /\ priority[RankOf(claims[i].package)] = claims[i].package
<1>1. Owned(order, claims) BY DEF GraphInv, Sorting, GraphIsBuilt
<1>2. Has(priority, claims[i].package) BY <1>1 DEF Owned, Has, IsComplete
<1>3. priority \in Seq(PackageIds) BY DEF GraphInv, Typed, TypedInputs
<1>4. /\ Rank(priority, claims[i].package) \in DOMAIN priority
      /\ priority[Rank(priority, claims[i].package)] = claims[i].package
  BY <1>2, <1>3, RanksAreNumbers
<1> QED BY <1>3, <1>4 DEF RankOf

(* The list of claims of a node, seen from the claims that were given.      *)
LEMMA ClaimsOfNode ==
    ASSUME GraphInv, GraphIsBuilt, NEW k \in DOMAIN nodes, NEW g, Numbering(k, g)
    PROVE  /\ nodes[k].claims \in Seq(Claims(PackageIds)) /\ Len(nodes[k].claims) \in Nat \ {0}
           /\ \A m \in DOMAIN nodes[k].claims :
                 /\ g[m] \in DOMAIN claims /\ g[m] \in On(nodes[k].path)
                 /\ nodes[k].claims[m] = claims[g[m]]
                 /\ nodes[k].claims[m].path = nodes[k].path
<1>1. nodes[k].claims \in Seq(Claims(PackageIds)) /\ nodes[k].claims # <<>>
  BY NodesAreNodes, NodesHoldTheirClaims
<1>2. Len(nodes[k].claims) \in Nat \ {0} BY <1>1
<1>3. \A m \in DOMAIN nodes[k].claims :
         g[m] \in On(nodes[k].path) /\ nodes[k].claims[m] = claims[g[m]]
  BY DEF Numbering
<1> QED BY <1>1, <1>2, <1>3 DEF On

(* Ranks are bounded, so that some claim of a node has the highest.         *)
LEMMA SomeClaimIsStrongest ==
    ASSUME GraphInv, GraphIsBuilt, IsComplete, NEW k \in DOMAIN nodes
    PROVE  Strongest(nodes[k].claims, priority) # {}
<1>1. PICK g : Numbering(k, g) BY NodesHoldTheirClaims
<1> DEFINE list == nodes[k].claims
           R(m) == RankOf(list[m].package)
           top == Len(priority)
           S == {top - R(m) : m \in DOMAIN list}
<1>2. \A m \in DOMAIN list : R(m) \in Nat /\ R(m) <= top
  <2> TAKE m \in DOMAIN list
  <2>1. g[m] \in DOMAIN claims /\ list[m] = claims[g[m]] BY <1>1, ClaimsOfNode
  <2> QED BY <2>1, ClaimsAreRanked
<1>3. top \in Nat BY DEF GraphInv, Typed, TypedInputs
<1>4. DOMAIN list # {}
  <2>1. list \in Seq(Claims(PackageIds)) /\ Len(list) \in Nat \ {0} BY <1>1, ClaimsOfNode
  <2> HIDE DEF list
  <2>2. DOMAIN list = 1 .. Len(list) BY <2>1
  <2>3. 1 \in 1 .. Len(list) BY <2>1
  <2> QED BY <2>2, <2>3
<1> HIDE DEF R, top, list
<1>5. S \in SUBSET Nat /\ S # {} BY <1>2, <1>3, <1>4
<1> HIDE DEF S
<1>6. PICK n \in S : \A m \in S : n <= m BY <1>5, LeastNatural
<1>7. PICK best \in DOMAIN list : n = top - R(best) BY DEF S
<1>8. ASSUME NEW m \in DOMAIN list PROVE R(m) <= R(best)
  <2>1. top - R(m) \in S BY DEF S
  <2>2. top - R(best) <= top - R(m) BY <1>6, <1>7, <2>1
  <2> QED BY <1>2, <1>3, <2>2
<1> QED BY <1>8 DEF Strongest, R, list, RankOf

LEMMA FirstOfOne == ASSUME NEW w \in Nat PROVE First({w}) = w
BY DEF First

(* decide leaves a path unresolved where there is a conflict on it.         *)
Ambiguous(list) == \E i, j \in Strongest(list, priority) : i # j
LEMMA UnresolvedMeansConflict ==
    ASSUME GraphInv, GraphIsBuilt, IsComplete, NEW k \in DOMAIN nodes
    PROVE  LET list == nodes[k].claims  path == nodes[k].path
           IN  /\ decide(nodes[k], priority).decision.kind = "Unresolved" <=>
                     /\ Len(list) # 1 /\ containsNonDirectory(list)
                     /\ containsDirectory(list) \/ Ambiguous(list)
               /\ containsNonDirectory(list) <=> \E i \in On(path) : claims[i].kind # "Directory"
               /\ containsDirectory(list) <=> \E i \in On(path) : claims[i].kind = "Directory"
               /\ decide(nodes[k], priority).decision.kind = "Unresolved"
                     <=> IsMixed(path) \/ IsAmbiguous(path)
<1> DEFINE list == nodes[k].claims
           path == nodes[k].path
<1>1. PICK g : Numbering(k, g) BY NodesHoldTheirClaims
<1>2. /\ list \in Seq(Claims(PackageIds)) /\ Len(list) \in Nat \ {0}
      /\ \A m \in DOMAIN list : g[m] \in DOMAIN claims /\ g[m] \in On(path)
                                /\ list[m] = claims[g[m]]
  BY <1>1, ClaimsOfNode
<1>3. /\ \A i \in On(path) : \E m \in DOMAIN list : g[m] = i
      /\ \A l, m \in DOMAIN list : l # m => g[l] # g[m]
  BY <1>1 DEF Numbering
<1>4. decide(nodes[k], priority).decision.kind = "Unresolved" <=>
         /\ Len(list) # 1 /\ containsNonDirectory(list)
         /\ containsDirectory(list) \/ Ambiguous(list)
  BY DEF decide, Decision, Ambiguous
<1> HIDE DEF list, path
<1>5. containsNonDirectory(list) <=> \E i \in On(path) : claims[i].kind # "Directory"
  BY <1>2, <1>3 DEF containsNonDirectory
<1>6. containsDirectory(list) <=> \E i \in On(path) : claims[i].kind = "Directory"
  BY <1>2, <1>3 DEF containsDirectory
<1>7. IsMixed(path) <=> containsNonDirectory(list) /\ containsDirectory(list)
  BY <1>5, <1>6 DEF IsMixed
<1>8. DOMAIN list = 1 .. Len(list) BY <1>2
<1>9. ASSUME NEW i \in DOMAIN list, NEW j \in DOMAIN list, i # j PROVE Len(list) # 1
  BY <1>2, <1>8, <1>9
<1>10. IsMixed(path) => Len(list) # 1
  BY <1>7, <1>9 DEF containsNonDirectory, containsDirectory
<1>11. \A m \in DOMAIN list : /\ RankOf(list[m].package) \in Nat
                             /\ priority[RankOf(list[m].package)] = list[m].package
  BY <1>2, ClaimsAreRanked
<1>12. Ambiguous(list) <=>
          \E i, j \in On(path) :
             /\ i # j /\ claims[i].package = claims[j].package
             /\ \A l \in On(path) : RankOf(claims[l].package) <= RankOf(claims[i].package)
  <2>1. ASSUME Ambiguous(list)
        PROVE  \E i, j \in On(path) :
             /\ i # j /\ claims[i].package = claims[j].package
             /\ \A l \in On(path) : RankOf(claims[l].package) <= RankOf(claims[i].package)
    <3>1. PICK l, m \in Strongest(list, priority) : l # m BY <2>1 DEF Ambiguous
    <3>2. /\ l \in DOMAIN list /\ m \in DOMAIN list
          /\ \A j \in DOMAIN list : /\ RankOf(list[j].package) <= RankOf(list[l].package)
                                    /\ RankOf(list[j].package) <= RankOf(list[m].package)
      BY <3>1 DEF Strongest, RankOf
    <3>3. RankOf(list[l].package) = RankOf(list[m].package) BY <1>11, <3>2
    <3>4. list[l].package = list[m].package BY <1>11, <3>2, <3>3
    <3>5. g[l] \in On(path) /\ g[m] \in On(path) /\ g[l] # g[m]
          /\ claims[g[l]].package = claims[g[m]].package
      BY <1>2, <1>3, <3>1, <3>2, <3>4
    <3>6. ASSUME NEW i \in On(path)
          PROVE  RankOf(claims[i].package) <= RankOf(claims[g[l]].package)
      <4>1. PICK j \in DOMAIN list : g[j] = i BY <1>3
      <4> QED BY <1>2, <3>2, <4>1
    <3> QED BY <3>5, <3>6
  <2>2. ASSUME NEW i \in On(path), NEW j \in On(path), i # j,
               claims[i].package = claims[j].package,
               \A l \in On(path) : RankOf(claims[l].package) <= RankOf(claims[i].package)
        PROVE  Ambiguous(list)
    <3>1. PICK l, m \in DOMAIN list : g[l] = i /\ g[m] = j BY <1>3
    <3>2. \A n \in DOMAIN list : /\ RankOf(list[n].package) <= RankOf(list[l].package)
                                 /\ RankOf(list[n].package) <= RankOf(list[m].package)
      BY <1>2, <2>2, <3>1
    <3>3. l \in Strongest(list, priority) /\ m \in Strongest(list, priority) /\ l # m
      BY <2>2, <3>1, <3>2 DEF Strongest, RankOf
    <3> QED BY <3>3 DEF Ambiguous
  <2> QED BY <2>1, <2>2
<1>13. IsAmbiguous(path) <=> ~containsDirectory(list) /\ Ambiguous(list)
  BY <1>6, <1>12 DEF IsAmbiguous, RankOf
<1>14. Ambiguous(list) => Len(list) # 1
  BY <1>9 DEF Ambiguous, Strongest
<1>15. containsDirectory(list) \/ containsNonDirectory(list)
  <2>1. 1 \in DOMAIN list BY <1>2, <1>8
  <2> QED BY <2>1 DEF containsDirectory, containsNonDirectory
<1> QED BY <1>4, <1>5, <1>6, <1>7, <1>10, <1>13, <1>14, <1>15 DEF list, path

(* A decision that was made becomes one entry, for the strongest claim.     *)
Wins(e, path) ==
    /\ e.path = path
    /\ {e.contenders[k] : k \in DOMAIN e.contenders} = {claims[i] : i \in On(path)}
    /\ \/ e.kind = "Directory" /\ \A i \in On(path) : claims[i].kind = "Directory"
       \/ \E i \in On(path) :
             /\ e.selected = {claims[i]} /\ e.explained = {claims[i]}
             /\ e.kind = claims[i].kind /\ e.kind # "Directory"
             /\ \A j \in On(path) \ {i} :
                   Rank(priority, claims[j].package) < Rank(priority, claims[i].package)

WellMade(e) == e.source = {} /\ (e.kind = "Directory" => e.selected = {})

LEMMA DecisionsBecomeEntries ==
    ASSUME GraphInv, GraphIsBuilt, IsComplete, NEW k \in DOMAIN nodes,
           decide(nodes[k], priority).decision.kind # "Unresolved"
    PROVE  \E e : /\ compileDecision(decide(nodes[k], priority).decision) = {e}
                  /\ Wins(e, nodes[k].path) /\ WellMade(e)
<1> DEFINE list == nodes[k].claims
           path == nodes[k].path
           d == decide(nodes[k], priority)
           decision == d.decision
           strongest == Strongest(list, priority)
<1>1. PICK g : Numbering(k, g) BY NodesHoldTheirClaims
<1>2. /\ list \in Seq(Claims(PackageIds)) /\ Len(list) \in Nat \ {0}
      /\ \A m \in DOMAIN list : /\ g[m] \in DOMAIN claims /\ g[m] \in On(path)
                                /\ list[m] = claims[g[m]] /\ list[m].path = path
  BY <1>1, ClaimsOfNode
<1>3. /\ \A i \in On(path) : \E m \in DOMAIN list : g[m] = i
      /\ \A l, m \in DOMAIN list : l # m => g[l] # g[m]
  BY <1>1 DEF Numbering
<1>4. {list[m] : m \in DOMAIN list} = {claims[i] : i \in On(path)}
  <2> HIDE DEF list, path
  <2> QED BY <1>2, <1>3
<1>5. DOMAIN list = 1 .. Len(list)
  <2> HIDE DEF list
  <2> QED BY <1>2
<1>6. /\ containsNonDirectory(list) <=> \E i \in On(path) : claims[i].kind # "Directory"
      /\ Len(list) = 1 \/ ~containsNonDirectory(list)
            \/ (~containsDirectory(list) /\ ~Ambiguous(list))
  <2>1. decision.kind # "Unresolved" OBVIOUS
  <2> HIDE DEF decision
  <2>2. /\ decision.kind = "Unresolved" <=>
                     /\ Len(list) # 1 /\ containsNonDirectory(list)
                     /\ containsDirectory(list) \/ Ambiguous(list)
        /\ containsNonDirectory(list) <=> \E i \in On(path) : claims[i].kind # "Directory"
    BY UnresolvedMeansConflict, Zenon DEF decision
  <2> HIDE DEF list, path
  <2> QED BY <2>1, <2>2, Zenon
<1>7. CASE Len(list) = 1
  <2>1. decision = Decision(nodes[k], "SingleClaim", {list[1]}) BY <1>7 DEF decide
  <2>2. /\ decision.path = path /\ decision.kind = "SingleClaim"
        /\ decision.claims = list /\ decision.selected = {list[1]}
    BY <2>1 DEF Decision
  <2>3. 1 \in DOMAIN list /\ \A m \in DOMAIN list : m = 1
    <3> HIDE DEF list
    <3> QED BY <1>5, <1>7
  <2>4. list[1].path = path /\ g[1] \in On(path) /\ list[1] = claims[g[1]] BY <1>2, <2>3
  <2>5. \A i \in On(path) : i = g[1]
    <3> HIDE DEF list, path
    <3> QED BY <1>3, <2>3
  <2> DEFINE e == IF list[1].kind = "Directory"
                  THEN Entry(path, "Directory", "SingleClaim", {}, list, {list[1]})
                  ELSE Entry(path, list[1].kind, "SingleClaim", {list[1]}, list, {list[1]})
  <2>6. compileDecision(decision) = {e}
    <3>1. {c \in {list[1]} : c.path = path} = {list[1]} BY <2>4
    <3> HIDE DEF decision, list, path
    <3> QED BY <1>7, <2>2, <3>1 DEF compileDecision
  <2>7. Wins(e, path) /\ WellMade(e)
    <3> HIDE DEF list, path
    <3>1. CASE list[1].kind = "Directory"
      BY <1>4, <2>4, <2>5, <3>1 DEF Wins, WellMade, Entry
    <3>2. CASE list[1].kind # "Directory"
      BY <1>4, <2>4, <2>5, <3>2 DEF Wins, WellMade, Entry
    <3> QED BY <3>1, <3>2
  <2> QED BY <2>6, <2>7
<1>8. CASE Len(list) # 1 /\ ~containsNonDirectory(list)
  <2>1. decision = Decision(nodes[k], "MergedDirectories", {}) BY <1>8 DEF decide
  <2>2. /\ decision.path = path /\ decision.kind = "MergedDirectories"
        /\ decision.claims = list /\ decision.selected = {}
    BY <2>1 DEF Decision
  <2> DEFINE e == Entry(path, "Directory", "MergedDirectories", {}, list, {})
  <2>3. list # <<>> BY NodesHoldTheirClaims
  <2>4. compileDecision(decision) = {e}
    <3> HIDE DEF decision, list, path
    <3> QED BY <1>8, <2>2, <2>3 DEF compileDecision
  <2>5. Wins(e, path) /\ WellMade(e)
    <3> HIDE DEF list, path
    <3> QED BY <1>4, <1>6, <1>8 DEF Wins, WellMade, Entry
  <2> QED BY <2>4, <2>5
<1>9. CASE Len(list) # 1 /\ containsNonDirectory(list)
  <2>1. ~containsDirectory(list) /\ ~Ambiguous(list) BY <1>6, <1>9
  <2>2. PICK w : w \in strongest BY SomeClaimIsStrongest
  <2>3. strongest = {w} BY <2>1, <2>2 DEF Ambiguous
  <2>4. w \in DOMAIN list /\ w \in Nat
    <3>1. w \in DOMAIN list BY <2>2 DEF Strongest
    <3> QED BY <1>5, <3>1
  <2>5. First(strongest) = w BY <2>3, <2>4, FirstOfOne
  <2>6. decision = Decision(nodes[k], "PriorityWinner", {list[w]})
    BY <1>9, <2>1, <2>5 DEF decide, Ambiguous
  <2>7. /\ decision.path = path /\ decision.kind = "PriorityWinner"
        /\ decision.claims = list /\ decision.selected = {list[w]}
    BY <2>6 DEF Decision
  <2>8. /\ list[w].path = path /\ g[w] \in On(path) /\ list[w] = claims[g[w]]
        /\ list[w].kind # "Directory"
    BY <1>2, <2>1, <2>4 DEF containsDirectory
  <2> DEFINE e == Entry(path, list[w].kind, "PriorityWinner", {list[w]}, list, {list[w]})
  <2>9. compileDecision(decision) = {e}
    <3>1. {c \in {c \in {list[w]} : c.path = path} : c.kind # "Directory"} = {list[w]}
      BY <2>8
    <3> HIDE DEF decision, list, path
    <3> QED BY <2>7, <3>1 DEF compileDecision
  <2>10. ASSUME NEW j \in On(path), j # g[w]
         PROVE  RankOf(claims[j].package) < RankOf(claims[g[w]].package)
    <3>1. PICK m \in DOMAIN list : g[m] = j BY <1>3
    <3>2. m \notin strongest BY <2>3, <2>10, <3>1
    <3>3. PICK l \in DOMAIN list : ~(RankOf(list[l].package) <= RankOf(list[m].package))
      BY <3>2 DEF Strongest, RankOf
    <3>4. RankOf(list[l].package) <= RankOf(list[w].package)
      BY <2>2 DEF Strongest, RankOf
    <3>5. /\ RankOf(list[l].package) \in Nat /\ RankOf(list[m].package) \in Nat
          /\ RankOf(list[w].package) \in Nat
      BY <1>2, <2>4, ClaimsAreRanked
    <3>6. list[m] = claims[j] BY <1>2, <3>1
    <3> HIDE DEF list
    <3> QED BY <2>8, <3>3, <3>4, <3>5, <3>6
  <2>11. Wins(e, path) /\ WellMade(e)
    <3> HIDE DEF list, path
    <3> QED BY <1>4, <2>8, <2>10 DEF Wins, WellMade, Entry, RankOf
  <2> QED BY <2>9, <2>11
<1> QED BY <1>7, <1>8, <1>9

-----------------------------------------------------------------------------
(* The rest of the invariant: the report, the entries and the errors.       *)

Early == {"mapping", "claims", "nodes", "obstructions", "policy"}
Outcome(k) == decide(nodes[k], priority)
Unsolved(n) == \E k \in 1 .. n : Outcome(k).decision.kind = "Unresolved"
Said(n) == UNION {Outcome(k).diagnostics : k \in 1 .. n}
Made(n) == UNION {compileDecision(decisions[k]) : k \in 1 .. n}
DecisionsOf(n) == [k \in 1 .. n |-> Outcome(k).decision]

Colliding ==
    /\ pc \in {"mapping", "claims"} => collisions = {}
    /\ pc \notin {"mapping", "claims", "failed"} =>
          collisions = {nodes[k].path : k \in {k \in DOMAIN nodes : IsExactCollision(nodes[k])}}
Accepting == pc \in {"decisions", "report"} \/ IsReported => IsComplete
Deciding ==
    /\ blocking \in BOOLEAN
    /\ pc \in Early => decisions = <<>> /\ diagnostics = {} /\ ~blocking
    /\ pc = "decisions" =>
          /\ cursor <= Len(nodes) + 1 /\ decisions = DecisionsOf(cursor - 1)
          /\ diagnostics = Said(cursor - 1) /\ (blocking <=> Unsolved(cursor - 1))
    /\ pc = "report" =>
          /\ decisions = DecisionsOf(Len(nodes)) /\ diagnostics = Said(Len(nodes))
          /\ blocking <=> Unsolved(Len(nodes))
    /\ IsReported =>
          /\ decisions = DecisionsOf(Len(nodes))
          /\ diagnostics = Said(Len(nodes)) \union ObstructionDiagnostics(obstructions)
          /\ blocking <=> Unsolved(Len(nodes)) \/ obstructions # {}
    /\ pc \in {"compile", "ancestors", "sources", "done"} => ~blocking

Namespace ==
    Made(Len(nodes)) \union {SyntheticEntry(path) : path \in syntheticAncestors(decisions)}
Final(e) == IF e.kind = "Directory" THEN e ELSE Sourced(snapshot, e)
Compiling ==
    /\ pc \in Early \union {"decisions", "report", "check"} => entries = {}
    /\ pc = "compile" => cursor <= Len(nodes) + 1 /\ entries = Made(cursor - 1)
    /\ pc = "ancestors" => entries = Made(Len(nodes))
    /\ pc = "sources" => entries = Namespace
    /\ pc = "done" => /\ entries = {Final(e) : e \in Namespace}
                      /\ SnapshotFaults(snapshot) = {}
                      /\ \A e \in Namespace : EntryFault(snapshot, e) = {}

Mapped(n) ==
    /\ \A i \in DOMAIN claims : \E p \in 1 .. n : \E e \in DOMAIN plans[p].entries :
          claims[i] = ClaimFor(plans[p], e)
    /\ \A p \in 1 .. n : \E base \in Nat : \A e \in DOMAIN plans[p].entries :
          base + e \in DOMAIN claims /\ claims[base + e] = ClaimFor(plans[p], e)
Mapping ==
    plans # <<>> =>
        /\ pc = "mapping" => cursor <= Len(plans) + 1 /\ Mapped(cursor - 1)
        /\ pc \notin {"mapping", "failed"} => Mapped(Len(plans))

HasPlanTwice == \E i, j \in DOMAIN plans : i # j /\ plans[i].package = plans[j].package
Failing ==
    /\ pc # "failed" => error = NoError
    /\ error.call = "policy" => ~IsComplete
    /\ error.code = "BlockingConflicts" => IsConflicting
    /\ error.code # "InvalidResolvedDecision"
    /\ error.code = "InvalidEntryKind" => error.package # {}
    /\ error.call = "sources" /\ IsPlanOfAll => HasPlanTwice

PlanInv ==
    GraphInv /\ Colliding /\ Accepting /\ Deciding /\ Compiling /\ Mapping /\ Failing

LEMMA PlanInvInit == Init => PlanInv
<1> SUFFICES ASSUME Init PROVE PlanInv OBVIOUS
<1>1. pc \in {"mapping", "claims"} BY DEF Init
<1>2. Colliding /\ Accepting /\ Deciding /\ Compiling
  BY <1>1 DEF Init, Colliding, Accepting, Deciding, Compiling, IsReported, Early
<1>3. Failing BY DEF Init, Failing, NoError, Error
<1>4. Mapping
  <2> SUFFICES ASSUME plans # <<>>
               PROVE  pc = "mapping" /\ cursor <= Len(plans) + 1 /\ Mapped(cursor - 1)
    BY DEF Mapping
  <2>1. pc = "mapping" /\ cursor = 1 /\ claims = <<>> BY PlanAssumption DEF Init
  <2>2. plans \in Seq(AllPlans) BY GraphInvInit DEF GraphInv, Typed, TypedInputs
  <2>3. Mapped(0) BY <2>1 DEF Mapped
  <2>4. cursor - 1 = 0 /\ cursor <= Len(plans) + 1 BY <2>1, <2>2
  <2> QED BY <2>1, <2>3, <2>4
<1> QED BY <1>2, <1>3, <1>4, GraphInvInit DEF PlanInv

(* The loops before the report.                                            *)
LEMMA EarlyStep ==
    ASSUME PlanInv, pc \in Early, pc' \in Early, UNCHANGED <<report, entries, error>>
    PROVE  Accepting' /\ Deciding' /\ Compiling' /\ Failing'
<1>1. Accepting' /\ Deciding' /\ Compiling'
  BY DEF PlanInv, Accepting, Deciding, Compiling, Early, IsReported, report
<1>2. error = NoError BY DEF PlanInv, Failing, Early
<1>3. Failing' BY <1>2 DEF Failing, NoError, Error
<1> QED BY <1>1, <1>3

LEMMA PlanInvMapPlan == ASSUME PlanInv, MapPlan PROVE PlanInv'
<1>1. /\ pc = "mapping" /\ pc' = "mapping" /\ cursor' = cursor + 1 /\ cursor <= Len(plans)
      /\ plans' = plans /\ claims' = claims \o ClaimsFor(plans[cursor])
      /\ UNCHANGED <<graph, report, entries, error>>
  BY DEF MapPlan
<1>2. GraphInv' BY GraphInvMapPlan DEF PlanInv
<1>3. Accepting' /\ Deciding' /\ Compiling' /\ Failing'
  <2>1. pc \in Early /\ pc' \in Early BY <1>1 DEF Early
  <2> QED BY <1>1, <2>1, EarlyStep
<1>4. Colliding' BY <1>1 DEF PlanInv, Colliding, graph
<1>5. ASSUME plans # <<>> PROVE cursor' <= Len(plans) + 1 /\ Mapped(cursor - 1)'
  <2>1. /\ cursor \in Nat \ {0} /\ plans \in Seq(AllPlans) /\ claims \in Seq(Claims(PackageIds))
    BY DEF PlanInv, GraphInv, Typed, TypedInputs
  <2> DEFINE plan == plans[cursor]
             new == ClaimsFor(plan)
             old == Len(claims)
  <2>2. plan \in AllPlans /\ plan.entries \in Seq(LayoutEntries)
    <3>1. plan \in AllPlans BY <1>1, <2>1
    <3> HIDE DEF plan
    <3> QED BY <3>1 DEF AllPlans, Plans
  <2>3. /\ new \in Seq(Claims(PackageIds)) /\ DOMAIN new = DOMAIN plan.entries
        /\ \A e \in DOMAIN plan.entries : new[e] = ClaimFor(plan, e)
    <3>1. MappingFaults(plan) = {} BY DEF MapPlan
    <3>2. new \in Seq(Claims(PackageIds)) BY <2>2, <3>1, ClaimsForAreClaims
    <3> QED BY <3>2 DEF ClaimsFor
  <2> HIDE DEF new, plan
  <2>4. /\ claims' \in Seq(Claims(PackageIds)) /\ Len(claims') = old + Len(new)
        /\ \A i \in 1 .. old : claims'[i] = claims[i]
        /\ \A e \in 1 .. Len(new) : claims'[old + e] = new[e]
    BY <1>1, <2>1, <2>3 DEF new, plan
  <2>5. /\ DOMAIN new = 1 .. Len(new) /\ DOMAIN claims = 1 .. old
        /\ DOMAIN claims' = 1 .. old + Len(new) /\ old \in Nat /\ Len(new) \in Nat
    BY <2>1, <2>3, <2>4
  <2>6. Mapped(cursor - 1) BY <1>1, <1>5 DEF PlanInv, Mapping
  <2>7. \A i \in 1 .. old : \E p \in 1 .. cursor - 1 : \E e \in DOMAIN plans[p].entries :
            claims[i] = ClaimFor(plans[p], e)
    BY <2>5, <2>6 DEF Mapped
  <2>8. \A p \in 1 .. cursor - 1 : \E base \in Nat : \A e \in DOMAIN plans[p].entries :
            base + e \in 1 .. old /\ claims[base + e] = ClaimFor(plans[p], e)
    BY <2>5, <2>6 DEF Mapped
  <2> HIDE DEF old
  <2>9. \A i \in 1 .. old + Len(new) : \E p \in 1 .. cursor : \E e \in DOMAIN plans[p].entries :
            claims'[i] = ClaimFor(plans[p], e)
    <3> TAKE i \in 1 .. old + Len(new)
    <3>1. CASE i \in 1 .. old BY <2>1, <2>4, <2>7, <3>1
    <3>2. CASE i > old
      <4>1. i - old \in 1 .. Len(new) /\ old + (i - old) = i BY <2>5, <3>2
      <4>2. claims'[i] = ClaimFor(plan, i - old) /\ i - old \in DOMAIN plan.entries
        BY <2>3, <2>4, <2>5, <4>1
      <4>3. cursor \in 1 .. cursor BY <2>1
      <4> QED BY <4>2, <4>3 DEF plan
    <3> QED BY <2>5, <3>1, <3>2
  <2>10. \A p \in 1 .. cursor : \E base \in Nat : \A e \in DOMAIN plans[p].entries :
            base + e \in 1 .. old + Len(new) /\ claims'[base + e] = ClaimFor(plans[p], e)
    <3> TAKE p \in 1 .. cursor
    <3>1. CASE p = cursor
      <4>1. \A e \in DOMAIN plan.entries :
               old + e \in 1 .. old + Len(new) /\ claims'[old + e] = ClaimFor(plan, e)
        BY <2>3, <2>4, <2>5
      <4> QED BY <2>5, <3>1, <4>1 DEF plan
    <3>2. CASE p # cursor
      <4>1. p \in 1 .. cursor - 1 BY <2>1, <3>2
      <4>2. 1 .. old \subseteq 1 .. old + Len(new) BY <2>5
      <4> QED BY <2>4, <2>8, <4>1, <4>2
    <3> QED BY <3>1, <3>2
  <2>11. (cursor - 1)' = cursor /\ cursor' <= Len(plans) + 1 BY <1>1, <2>1
  <2>12. /\ \A i \in DOMAIN claims' : \E p \in 1 .. cursor' - 1 :
              \E e \in DOMAIN plans'[p].entries : claims'[i] = ClaimFor(plans'[p], e)
         /\ \A p \in 1 .. cursor' - 1 : \E base \in Nat : \A e \in DOMAIN plans'[p].entries :
              base + e \in DOMAIN claims' /\ claims'[base + e] = ClaimFor(plans'[p], e)
    <3>1. DOMAIN claims' = 1 .. old + Len(new) /\ plans' = plans BY <1>1, <2>5
    <3>2. cursor' - 1 = cursor BY <1>1, <2>1
    <3>3. ASSUME NEW i \in DOMAIN claims'
          PROVE  \E p \in 1 .. cursor' - 1 :
                    \E e \in DOMAIN plans'[p].entries : claims'[i] = ClaimFor(plans'[p], e)
      BY <2>9, <3>1, <3>2, Zenon
    <3>4. ASSUME NEW p \in 1 .. cursor' - 1
          PROVE  \E base \in Nat : \A e \in DOMAIN plans'[p].entries :
              base + e \in DOMAIN claims' /\ claims'[base + e] = ClaimFor(plans'[p], e)
      BY <2>10, <3>1, <3>2, Zenon
    <3> QED BY <3>3, <3>4
  <2> QED BY <2>11, <2>12 DEF Mapped
<1>6. Mapping' BY <1>1, <1>5 DEF Mapping
<1> QED BY <1>2, <1>3, <1>4, <1>6 DEF PlanInv

LEMMA MappingLater ==
    ASSUME Mapping, UNCHANGED <<plans, claims>>, pc \notin {"mapping", "failed"}, pc' # "mapping"
    PROVE  Mapping'
<1>1. \A n : Mapped(n)' = Mapped(n) BY DEF Mapped
<1> QED BY <1>1 DEF Mapping

LEMMA CollidingLater ==
    ASSUME Colliding, UNCHANGED <<nodes, collisions>>,
           pc \notin {"mapping", "claims", "failed"}, pc' \notin {"mapping", "claims"}
    PROVE  Colliding'
BY DEF Colliding

LEMMA PlanInvSortClaims == ASSUME PlanInv, SortClaims PROVE PlanInv'
<1>1. /\ pc = "claims" /\ pc' = "nodes"
      /\ UNCHANGED <<plans, claims, nodes, collisions, report, entries, error>>
  BY DEF SortClaims, inputs
<1>2. Accepting' /\ Deciding' /\ Compiling' /\ Failing' BY <1>1, EarlyStep DEF Early
<1>3. Mapping' BY <1>1, MappingLater DEF PlanInv
<1>4. Colliding'
  <2>1. nodes = <<>> /\ collisions = {}
    BY <1>1 DEF PlanInv, GraphInv, Grouping, Colliding
  <2> QED BY <1>1, <2>1 DEF Colliding
<1> QED BY <1>2, <1>3, <1>4, GraphInvSortClaims DEF PlanInv

LEMMA PlanInvTakeNode == ASSUME PlanInv, TakeNode PROVE PlanInv'
<1> DEFINE node == Node(sorted, claims, cursor, LastOfNode(sorted, claims, cursor))
           m == Len(nodes)
<1>1. /\ pc = "nodes" /\ pc' = "nodes" /\ nodes' = Append(nodes, node)
      /\ collisions' = collisions \union (IF IsExactCollision(node) THEN {node.path} ELSE {})
      /\ UNCHANGED <<plans, claims, report, entries, error>>
  BY DEF TakeNode, inputs
<1>2. Accepting' /\ Deciding' /\ Compiling' /\ Failing' BY <1>1, EarlyStep DEF Early
<1>3. Mapping' BY <1>1, MappingLater DEF PlanInv
<1> HIDE DEF node
<1>4. Colliding'
  <2>1. nodes \in Seq(Nodes) BY <1>1 DEF PlanInv, GraphInv, Grouping, Grouped
  <2>2. /\ DOMAIN nodes = 1 .. m /\ DOMAIN nodes' = 1 .. m + 1 /\ m \in Nat
        /\ \A k \in 1 .. m : nodes'[k] = nodes[k]
        /\ nodes'[m + 1] = node
    BY <1>1, <2>1
  <2> HIDE DEF m
  <2>3. collisions = {nodes[k].path : k \in {k \in 1 .. m : IsExactCollision(nodes[k])}}
    BY <1>1, <2>2 DEF PlanInv, Colliding
  <2>4. 1 .. m + 1 = (1 .. m) \union {m + 1} BY <2>2
  <2>5. {nodes'[k].path : k \in {k \in 1 .. m + 1 : IsExactCollision(nodes'[k])}}
           = {nodes[k].path : k \in {k \in 1 .. m : IsExactCollision(nodes[k])}}
               \union (IF IsExactCollision(node) THEN {node.path} ELSE {})
    BY <2>2, <2>4
  <2> QED BY <1>1, <2>2, <2>3, <2>5 DEF Colliding
<1> QED BY <1>2, <1>3, <1>4, GraphInvTakeNode DEF PlanInv

LEMMA PlanInvLookBelow == ASSUME PlanInv, LookBelow PROVE PlanInv'
<1>1. /\ pc = "obstructions" /\ pc' = "obstructions"
      /\ UNCHANGED <<plans, claims, nodes, collisions, report, entries, error>>
  BY DEF LookBelow, inputs
<1>2. Accepting' /\ Deciding' /\ Compiling' /\ Failing' BY <1>1, EarlyStep DEF Early
<1>3. Mapping' /\ Colliding' BY <1>1, MappingLater, CollidingLater DEF PlanInv
<1> QED BY <1>2, <1>3, GraphInvLookBelow DEF PlanInv

(* A call that fails: what its error must mean.                            *)
LEMMA PlanInvFail ==
    ASSUME PlanInv, NEW code, NEW index, NEW package, NEW path,
           pc # "failed", Fail(code, index, package, path),
           pc = "policy" => ~IsComplete,
           code = "BlockingConflicts" => IsConflicting,
           code # "InvalidResolvedDecision",
           code = "InvalidEntryKind" => package # {},
           pc = "sources" /\ IsPlanOfAll => HasPlanTwice
    PROVE  PlanInv'
<1>1. /\ pc' = "failed" /\ UNCHANGED <<inputs, cursor, graph, report, entries>>
      /\ error' = Error(pc, code, index, package, path)
  BY DEF Fail
<1>2. /\ error'.call = pc /\ error'.code = code /\ error'.package = package
  BY <1>1 DEF Error
<1>3. /\ IsComplete' = IsComplete /\ IsConflicting' = IsConflicting
      /\ IsPlanOfAll' = IsPlanOfAll /\ HasPlanTwice' = HasPlanTwice
  BY <1>1 DEF inputs, IsComplete, IsConflicting, IsPlanOfAll, HasPlanTwice, Paths, On,
              IsMixed, IsAmbiguous, Obstructed
<1>4. Failing' BY <1>1, <1>2, <1>3 DEF Failing
<1>5. Colliding' /\ Accepting' /\ Compiling' /\ Mapping'
  BY <1>1 DEF Colliding, Accepting, Compiling, Mapping, IsReported, Early
<1>6. Deciding' BY <1>1 DEF PlanInv, Deciding, report, IsReported, Early
<1> QED BY <1>1, <1>4, <1>5, <1>6, GraphInvFail DEF PlanInv

(* The calls that fail.                                                    *)

LEMMA PlanInvRejectEarly ==
    ASSUME PlanInv, RejectEntryOfPlan \/ RejectClaim
    PROVE  PlanInv'
<1>1. CASE RejectEntryOfPlan
  <2>1. /\ pc = "mapping"
        /\ \E package, path : \/ Fail("MissingMapping", 0, package, path)
                              \/ Fail("AmbiguousMapping", 0, package, path)
    BY <1>1 DEF RejectEntryOfPlan
  <2> QED BY <2>1, PlanInvFail
<1>2. CASE RejectClaim
  <2>1. /\ pc = "claims"
        /\ \E index, package, path : Fail("ClaimPackageNotEnabled", index, package, path)
    BY <1>2 DEF RejectClaim
  <2> QED BY <2>1, PlanInvFail
<1> QED BY <1>1, <1>2

LEMMA PlanInvRejectPriority == ASSUME PlanInv, RejectPriority PROVE PlanInv'
<1>1. pc = "policy" BY DEF RejectPriority
<1>2. /\ PolicyFaults(order, priority) # {} \/ {k \in DOMAIN order : ~Has(priority, order[k])} # {}
      /\ \E code \in {"DuplicatePackage", "UnknownPackage", "MissingPackage"} :
            \E index, package, path : Fail(code, index, package, path)
  BY DEF RejectPriority
<1>3. priority \in Seq(PackageIds) BY DEF PlanInv, GraphInv, Typed, TypedInputs
<1>4. ~IsComplete
  <2>1. ASSUME NEW i \in PolicyFaults(order, priority), IsComplete PROVE FALSE
    <3>1. i \in DOMAIN priority /\ (IsDuplicate(priority, i) \/ ~Has(order, priority[i]))
      BY DEF PolicyFaults
    <3>2. Has(order, priority[i]) BY <2>1, <3>1 DEF IsComplete, Has
    <3>3. PICK j \in 1 .. i - 1 : priority[j] = priority[i] BY <3>1, <3>2 DEF IsDuplicate
    <3>4. j \in DOMAIN priority /\ j # i BY <1>3, <3>1
    <3> QED BY <2>1, <3>1, <3>3, <3>4 DEF IsComplete, IsOrder
  <2>2. ASSUME NEW k \in DOMAIN order, ~Has(priority, order[k]), IsComplete PROVE FALSE
    BY <2>2 DEF IsComplete, Has
  <2> QED BY <1>2, <2>1, <2>2
<1> QED BY <1>1, <1>2, <1>4, PlanInvFail

(* The user is stopped for a conflict and for nothing else.                *)
LEMMA BlockingMeansConflict ==
    ASSUME PlanInv, IsReported
    PROVE  /\ blocking => IsConflicting
           /\ ~blocking => ~IsConflicting
<1>1. GraphInv /\ GraphIsBuilt /\ IsComplete /\ ObstructionsAreComplete
  BY GraphHasObstructions DEF PlanInv, Accepting, IsReported, GraphIsBuilt
<1>2. blocking <=> Unsolved(Len(nodes)) \/ obstructions # {} BY DEF PlanInv, Deciding
<1>3. DOMAIN nodes = 1 .. Len(nodes) /\ Len(nodes) \in Nat BY <1>1, NodesAreNodes
<1>4. Unsolved(Len(nodes)) <=> \E path \in Paths : IsMixed(path) \/ IsAmbiguous(path)
  <2>1. \A k \in DOMAIN nodes :
           Outcome(k).decision.kind = "Unresolved"
              <=> IsMixed(nodes[k].path) \/ IsAmbiguous(nodes[k].path)
    BY <1>1, UnresolvedMeansConflict DEF Outcome
  <2>2. \A k \in DOMAIN nodes : nodes[k].path \in Paths BY <1>1, NodesHoldTheirClaims
  <2>3. \A path \in Paths : \E k \in DOMAIN nodes : nodes[k].path = path BY <1>1, PathsHaveNodes
  <2> QED BY <1>3, <2>1, <2>2, <2>3 DEF Unsolved
<1>5. obstructions # {} <=> \E above, below \in Paths : Obstructed(above, below)
  <2>1. ASSUME NEW o \in obstructions
        PROVE  \E above, below \in Paths : Obstructed(above, below)
    <3>1. PICK k \in DOMAIN nodes : o \in ObstructionsOf(nodes, k)
      BY <1>1, <1>3 DEF GraphInv, Searching, Found
    <3>2. PICK below \in Descendants(nodes, k) :
            o = [ancestor |-> nodes[k].path, descendant |-> below]
      BY <3>1 DEF ObstructionsOf
    <3>3. below \in Paths
      <4>1. \E l \in DOMAIN nodes : below = nodes[l].path BY <3>2 DEF Descendants
      <4> QED BY <1>1, <4>1, NodesHoldTheirClaims
    <3>4. nodes[k].path \in Paths BY <1>1, NodesHoldTheirClaims
    <3> QED BY <1>1, <3>2, <3>3, <3>4 DEF ObstructionsAreComplete
  <2>2. ASSUME NEW above \in Paths, NEW below \in Paths, Obstructed(above, below)
        PROVE  obstructions # {}
    BY <1>1, <2>2 DEF ObstructionsAreComplete
  <2> QED BY <2>1, <2>2
<1> QED BY <1>2, <1>4, <1>5 DEF IsConflicting

LEMMA PlanInvRejectConflicts == ASSUME PlanInv, RejectConflicts PROVE PlanInv'
<1>1. pc = "check" /\ blocking /\ Fail("BlockingConflicts", 0, {}, {}) BY DEF RejectConflicts
<1>2. IsConflicting BY <1>1, BlockingMeansConflict DEF IsReported
<1> QED BY <1>1, <1>2, PlanInvFail

Compiles == pc \in {"compile", "ancestors", "sources", "done"}

LEMMA Unblocked ==
    ASSUME PlanInv, Compiles
    PROVE  /\ GraphInv /\ GraphIsBuilt /\ IsComplete /\ ~IsConflicting
           /\ decisions = DecisionsOf(Len(nodes))
           /\ DOMAIN nodes = 1 .. Len(nodes) /\ Len(nodes) \in Nat
           /\ \A k \in DOMAIN nodes :
                 /\ decisions[k] = Outcome(k).decision /\ decisions[k].path = nodes[k].path
                 /\ \E e : /\ compileDecision(decisions[k]) = {e}
                           /\ Wins(e, nodes[k].path) /\ WellMade(e)
<1>1. GraphInv /\ GraphIsBuilt /\ IsComplete /\ IsReported
  BY DEF PlanInv, Accepting, IsReported, GraphIsBuilt, Compiles
<1>2. /\ decisions = DecisionsOf(Len(nodes)) /\ ~blocking
      /\ ~Unsolved(Len(nodes)) /\ ~IsConflicting
  BY <1>1, BlockingMeansConflict DEF PlanInv, Deciding, Compiles
<1>3. DOMAIN nodes = 1 .. Len(nodes) /\ Len(nodes) \in Nat BY <1>1, NodesAreNodes
<1>4. ASSUME NEW k \in DOMAIN nodes
      PROVE  /\ decisions[k] = Outcome(k).decision /\ decisions[k].path = nodes[k].path
             /\ \E e : /\ compileDecision(decisions[k]) = {e}
                       /\ Wins(e, nodes[k].path) /\ WellMade(e)
  <2>1. decisions[k] = Outcome(k).decision BY <1>2, <1>3 DEF DecisionsOf
  <2>2. Outcome(k).decision.kind # "Unresolved" BY <1>2, <1>3 DEF Unsolved
  <2>3. Outcome(k).decision.path = nodes[k].path BY DEF Outcome, decide, Decision
  <2> QED BY <1>1, <2>1, <2>2, <2>3, DecisionsBecomeEntries DEF Outcome
<1> QED BY <1>1, <1>2, <1>3, <1>4

LEMMA MadeEntries ==
    ASSUME PlanInv, Compiles
    PROVE  /\ \A e \in Made(Len(nodes)) : \E k \in DOMAIN nodes :
                 Wins(e, nodes[k].path) /\ WellMade(e) /\ compileDecision(decisions[k]) = {e}
           /\ \A path \in Paths : \E e \in Made(Len(nodes)) : Wins(e, path)
<1>1. ASSUME NEW e \in Made(Len(nodes))
      PROVE  \E k \in DOMAIN nodes :
                Wins(e, nodes[k].path) /\ WellMade(e) /\ compileDecision(decisions[k]) = {e}
  <2>1. PICK k \in DOMAIN nodes : e \in compileDecision(decisions[k])
    BY Unblocked DEF Made
  <2>2. PICK f : compileDecision(decisions[k]) = {f} /\ Wins(f, nodes[k].path) /\ WellMade(f)
    BY Unblocked
  <2> QED BY <2>1, <2>2
<1>2. ASSUME NEW path \in Paths PROVE \E e \in Made(Len(nodes)) : Wins(e, path)
  <2>1. PICK k \in DOMAIN nodes : nodes[k].path = path BY Unblocked, PathsHaveNodes
  <2>2. PICK f : compileDecision(decisions[k]) = {f} /\ Wins(f, nodes[k].path)
    BY Unblocked
  <2>3. f \in Made(Len(nodes)) BY <2>2, Unblocked DEF Made
  <2> QED BY <2>1, <2>2, <2>3
<1> QED BY <1>1, <1>2

LEMMA SyntheticIsWellMade ==
    ASSUME NEW path
    PROVE  /\ SyntheticEntry(path).path = path /\ SyntheticEntry(path).kind = "Directory"
           /\ WellMade(SyntheticEntry(path))
BY DEF SyntheticEntry, Entry, WellMade

(* Planned entries are found where they were planned: of one path of a plan *)
(* two entries make two claims of one package, of which none would win.     *)
LEMMA PlannedSourcesAreFound ==
    ASSUME PlanInv, pc = "sources", IsPlanOfAll, SnapshotFaults(snapshot) = {},
           NEW e, NEW path, Wins(e, path), WellMade(e)
    PROVE  EntryFault(snapshot, e) = {}
<1>1. CASE e.kind = "Directory"
  BY <1>1 DEF WellMade, EntryFault, IsMalformed
<1>2. CASE e.kind # "Directory"
  <2>1. PICK i \in On(path) :
          /\ e.selected = {claims[i]} /\ e.kind = claims[i].kind
          /\ \A j \in On(path) \ {i} :
                Rank(priority, claims[j].package) < Rank(priority, claims[i].package)
    BY <1>2 DEF Wins
  <2> DEFINE c == claims[i]
  <2>2. i \in DOMAIN claims /\ c.path = path BY DEF On
  <2>3. Mapped(Len(plans)) BY DEF PlanInv, Mapping, IsPlanOfAll
  <2>4. PICK p \in 1 .. Len(plans) : \E x \in DOMAIN plans[p].entries : c = ClaimFor(plans[p], x)
    BY <2>2, <2>3 DEF Mapped
  <2>5. PICK x \in DOMAIN plans[p].entries : c = ClaimFor(plans[p], x) BY <2>4
  <2> DEFINE plan == plans[p]
             Target(y) == LET path_y == plan.entries[y].path
                              mapping == plan.mappings[CHOOSE k \in Applying(plan, path_y) : TRUE]
                          IN  CHOOSE q \in map(mapping, path_y) : TRUE
  <2>6. \A y : /\ ClaimFor(plan, y).package = plan.package
               /\ ClaimFor(plan, y).source = plan.entries[y].path
               /\ ClaimFor(plan, y).kind = plan.entries[y].kind
               /\ ClaimFor(plan, y).path = Target(y)
    BY DEF ClaimFor
  <2> HIDE DEF Target
  <2>7. PICK base \in Nat : \A y \in DOMAIN plan.entries :
          base + y \in DOMAIN claims /\ claims[base + y] = ClaimFor(plan, y)
    BY <2>3 DEF Mapped
  <2>8. p \in DOMAIN plans /\ plans \in Seq(AllPlans)
    BY DEF PlanInv, GraphInv, Typed, TypedInputs
  <2>9. p \in DOMAIN snapshot /\ snapshot[p] = [lookup |-> plan.package, plan |-> plan]
    <3>1. snapshot[p] = [lookup |-> plan.package, plan |-> plan] BY <2>8 DEF IsPlanOfAll
    <3>2. DOMAIN snapshot = 1 .. Len(snapshot)
      BY DEF PlanInv, GraphInv, Typed, TypedInputs
    <3> QED BY <2>8, <3>1, <3>2 DEF IsPlanOfAll
  <2> HIDE DEF plan, c
  <2>10. /\ c.package = plan.package /\ c.source = plan.entries[x].path
         /\ c.kind = plan.entries[x].kind /\ c.path = Target(x)
    BY <2>5, <2>6 DEF plan
  <2>11. \A q \in DOMAIN snapshot : snapshot[q].lookup = plan.package => q = p
    <3>1. DOMAIN snapshot = 1 .. Len(snapshot) /\ snapshot[p].lookup = plan.package
      <4>1. DOMAIN snapshot = 1 .. Len(snapshot)
        BY DEF PlanInv, GraphInv, Typed, TypedInputs
      <4> QED BY <2>9, <4>1
    <3> SUFFICES ASSUME NEW q \in DOMAIN snapshot, snapshot[q].lookup = plan.package, q # p
                 PROVE  FALSE
      OBVIOUS
    <3>2. CASE q < p
      <4>1. q \in 1 .. p - 1 BY <3>1, <3>2
      <4>2. p \in SnapshotFaults(snapshot) BY <2>9, <3>1, <4>1 DEF SnapshotFaults
      <4> QED BY <4>2
    <3>3. CASE q > p
      <4>1. p \in 1 .. q - 1 BY <2>9, <3>1, <3>3
      <4>2. q \in SnapshotFaults(snapshot) BY <2>9, <3>1, <4>1 DEF SnapshotFaults
      <4> QED BY <4>2
    <3>4. q \in Nat /\ p \in Nat BY <2>9, <3>1
    <3> QED BY <3>2, <3>3, <3>4
  <2>12. PlanOf(snapshot, c.package) = plan
    <3>1. (CHOOSE q \in DOMAIN snapshot : snapshot[q].lookup = c.package) = p
      BY <2>9, <2>10, <2>11
    <3>2. snapshot[p].plan = plan BY <2>9
    <3> QED BY <3>1, <3>2, Zenon DEF PlanOf
  <2>13. ASSUME NEW y \in DOMAIN plan.entries, plan.entries[y].path = c.source
         PROVE  plan.entries[y].kind = c.kind
    <3>1. /\ claims[base + y].package = c.package /\ claims[base + y].kind = plan.entries[y].kind
          /\ claims[base + y].path = Target(y) /\ base + y \in DOMAIN claims
      BY <2>6, <2>7, <2>10 DEF plan
    <3>2. Target(y) = Target(x) BY <2>10, <2>13 DEF Target
    <3>3. base + y \in On(path) BY <2>2, <2>10, <3>1, <3>2 DEF On
    <3>4. RankOf(c.package) \in Nat
      <4>1. GraphInv /\ GraphIsBuilt /\ IsComplete BY Unblocked DEF Compiles
      <4> QED BY <2>2, <4>1, ClaimsAreRanked DEF c
    <3>5. base + y = i
      <4> SUFFICES ASSUME base + y # i PROVE FALSE OBVIOUS
      <4>1. RankOf(claims[base + y].package) < RankOf(c.package) BY <2>1, <3>3 DEF RankOf, c
      <4> QED BY <3>1, <3>4, <4>1
    <3> QED BY <3>1, <3>5 DEF c
  <2>14. KindsOf(plan, c.source) = {c.kind}
    <3>1. x \in DOMAIN plan.entries BY DEF plan
    <3> QED BY <2>10, <2>13, <3>1 DEF KindsOf
  <2>15. e.selected = {c} /\ e.kind = c.kind BY <2>1 DEF c
  <2>16. ~IsMalformed(e) BY <1>2, <2>15 DEF IsMalformed
  <2>17. (CHOOSE d \in e.selected : TRUE) = c BY <2>15
  <2>18. \E q \in DOMAIN snapshot : snapshot[q].lookup = c.package BY <2>9, <2>10
  <2> QED BY <1>2, <2>12, <2>14, <2>15, <2>16, <2>17, <2>18 DEF EntryFault
<1> QED BY <1>1, <1>2

LEMMA PlanInvRejectSources ==
    ASSUME PlanInv, RejectSnapshot \/ RejectEntry
    PROVE  PlanInv'
<1>1. CASE RejectSnapshot
  <2>1. /\ pc = "sources" /\ SnapshotFaults(snapshot) # {}
        /\ \E code \in {"MismatchedPackageId", "DuplicatePackage"} :
              \E package, path : Fail(code, 0, package, path)
    BY <1>1 DEF RejectSnapshot
  <2>2. ASSUME IsPlanOfAll PROVE HasPlanTwice
    <3>1. PICK i \in DOMAIN snapshot :
            \/ IsMismatched(snapshot[i])
            \/ \E j \in 1 .. i - 1 : snapshot[j].lookup = snapshot[i].lookup
      BY <2>1 DEF SnapshotFaults
    <3>2. DOMAIN snapshot = 1 .. Len(snapshot) /\ DOMAIN plans = 1 .. Len(plans)
      BY DEF PlanInv, GraphInv, Typed, TypedInputs
    <3>3. /\ DOMAIN snapshot = DOMAIN plans
          /\ \A j \in DOMAIN plans : /\ snapshot[j].lookup = plans[j].package
                                     /\ snapshot[j].plan = plans[j]
      BY <2>2, <3>2 DEF IsPlanOfAll
    <3>4. PICK j \in 1 .. i - 1 : snapshot[j].lookup = snapshot[i].lookup
      BY <3>1, <3>3 DEF IsMismatched
    <3>5. j \in DOMAIN plans /\ i \in DOMAIN plans /\ j # i BY <3>1, <3>2, <3>3
    <3> QED BY <3>3, <3>4, <3>5 DEF HasPlanTwice
  <2> QED BY <2>1, <2>2, PlanInvFail
<1>2. CASE RejectEntry
  <2>1. pc = "sources" /\ SnapshotFaults(snapshot) = {} BY <1>2 DEF RejectEntry
  <2>0. PICK e \in entries : \E fault \in EntryFault(snapshot, e) :
          Fail(fault.code, 0, fault.package, {e.path})
    BY <1>2 DEF RejectEntry
  <2>2. PICK fault \in EntryFault(snapshot, e) : Fail(fault.code, 0, fault.package, {e.path})
    BY <2>0
  <2>3. e \in Made(Len(nodes))
    <3>1. entries = Namespace BY <2>1 DEF PlanInv, Compiling
    <3>2. ASSUME NEW path, e = SyntheticEntry(path) PROVE FALSE
      <4>1. EntryFault(snapshot, e) = {}
        BY <3>2, SyntheticIsWellMade DEF WellMade, EntryFault, IsMalformed
      <4> QED BY <2>2, <4>1
    <3> QED BY <3>1, <3>2 DEF Namespace
  <2>4. PICK k \in DOMAIN nodes : Wins(e, nodes[k].path) /\ WellMade(e)
    BY <2>1, <2>3, MadeEntries DEF Compiles
  <2>5. ~IsMalformed(e) BY <2>4 DEF Wins, WellMade, IsMalformed
  <2>6. /\ fault.code \in {"MissingPackage", "MissingSourceEntry", "InvalidEntryKind"}
        /\ fault.package # {}
    BY <2>2, <2>5 DEF EntryFault
  <2>7. ~IsPlanOfAll BY <2>1, <2>2, <2>4, PlannedSourcesAreFound
  <2> QED BY <2>1, <2>2, <2>6, <2>7, PlanInvFail
<1> QED BY <1>1, <1>2

-----------------------------------------------------------------------------
(* The steps from the report on.                                           *)

LEMMA LateFailing ==
    ASSUME PlanInv, pc # "failed", UNCHANGED error PROVE Failing'
<1>1. error = NoError BY DEF PlanInv, Failing
<1> QED BY <1>1 DEF Failing, NoError, Error

(* Nothing changes what is given, nor the graph.                           *)
LEMMA LateStep ==
    ASSUME PlanInv, GraphIsBuilt, GraphIsBuilt', UNCHANGED <<inputs, graph, error>>
    PROVE  /\ Mapping' /\ Colliding' /\ Failing' /\ (IsComplete => IsComplete')
           /\ \A n : /\ DecisionsOf(n)' = DecisionsOf(n) /\ Said(n)' = Said(n)
                     /\ Unsolved(n)' = Unsolved(n)
           /\ nodes' = nodes /\ obstructions' = obstructions /\ snapshot' = snapshot
<1>1. UNCHANGED <<order, plans, priority, snapshot, claims, nodes, collisions, obstructions>>
  BY DEF inputs, graph
<1>2. Mapping' /\ Colliding' /\ Failing'
  BY <1>1, MappingLater, CollidingLater, LateFailing DEF PlanInv, GraphIsBuilt
<1>3. IsComplete => IsComplete' BY <1>1 DEF IsComplete
<1>4. \A n : /\ DecisionsOf(n)' = DecisionsOf(n) /\ Said(n)' = Said(n)
             /\ Unsolved(n)' = Unsolved(n)
  BY <1>1 DEF DecisionsOf, Said, Unsolved, Outcome
<1> QED BY <1>1, <1>2, <1>3, <1>4

LEMMA PlanInvEndLoop == ASSUME PlanInv, EndLoop PROVE PlanInv'
<1>1. GraphInv' BY GraphInvEndLoop DEF PlanInv
<1>2. /\ UNCHANGED <<inputs, graph, report, entries, error>> /\ cursor' = 1
      /\ UNCHANGED <<plans, claims, nodes, collisions>>
  BY DEF EndLoop, inputs, graph
<1>3. CASE pc = "mapping"
  <2>1. pc' = "claims" /\ cursor > Len(plans) BY <1>3 DEF EndLoop
  <2>2. Accepting' /\ Deciding' /\ Compiling' /\ Failing' BY <1>2, <1>3, <2>1, EarlyStep DEF Early
  <2>3. Colliding' BY <1>2, <1>3, <2>1 DEF PlanInv, Colliding
  <2>4. Mapping'
    <3> SUFFICES ASSUME plans # <<>> PROVE Mapped(Len(plans))'
      BY <1>2, <2>1 DEF Mapping
    <3>1. cursor - 1 = Len(plans) /\ Mapped(cursor - 1)
      <4>1. cursor <= Len(plans) + 1 /\ Mapped(cursor - 1)
        BY <1>2, <1>3 DEF PlanInv, Mapping
      <4>2. cursor \in Nat /\ Len(plans) \in Nat
        BY DEF PlanInv, GraphInv, Typed, TypedInputs
      <4> QED BY <2>1, <4>1, <4>2
    <3>2. Mapped(Len(plans)) BY <3>1
    <3> QED BY <1>2, <3>2 DEF Mapped
  <2> QED BY <1>1, <2>2, <2>3, <2>4 DEF PlanInv
<1>4. CASE pc \in {"nodes", "obstructions"}
  <2>1. pc' \in {"obstructions", "policy"} BY <1>4 DEF EndLoop
  <2>2. Accepting' /\ Deciding' /\ Compiling' /\ Failing' BY <1>2, <1>4, <2>1, EarlyStep DEF Early
  <2>3. Mapping' /\ Colliding' BY <1>2, <1>4, <2>1, MappingLater, CollidingLater DEF PlanInv
  <2> QED BY <1>1, <2>2, <2>3 DEF PlanInv
<1>5. CASE pc = "decisions"
  <2>1. pc' = "report" /\ cursor > Len(nodes) BY <1>5 DEF EndLoop
  <2>2. GraphIsBuilt /\ GraphIsBuilt' BY <1>5, <2>1 DEF GraphIsBuilt
  <2>3. nodes \in Seq(Nodes) /\ cursor \in Nat
    BY <2>2, NodesAreNodes DEF PlanInv, GraphInv, Typed
  <2>4. cursor - 1 = Len(nodes) BY <1>5, <2>1, <2>3 DEF PlanInv, Deciding
  <2>5. Accepting' BY <1>5, <2>1, <2>2, <1>2, LateStep DEF PlanInv, Accepting
  <2>6. Deciding'
    <3>1. /\ decisions' = decisions /\ diagnostics' = diagnostics /\ blocking' = blocking
      BY <1>2 DEF report
    <3>2. /\ decisions = DecisionsOf(Len(nodes)) /\ diagnostics = Said(Len(nodes))
          /\ (blocking <=> Unsolved(Len(nodes))) /\ blocking \in BOOLEAN
      BY <1>5, <2>4 DEF PlanInv, Deciding
    <3>3. /\ nodes' = nodes /\ DecisionsOf(Len(nodes))' = DecisionsOf(Len(nodes))
          /\ Said(Len(nodes))' = Said(Len(nodes))
          /\ Unsolved(Len(nodes))' = Unsolved(Len(nodes))
      BY <1>2, <2>2, LateStep
    <3>4. /\ pc' \notin Early /\ pc' # "decisions" /\ ~IsReported'
          /\ pc' \notin {"compile", "ancestors", "sources", "done"}
      BY <2>1 DEF Early, IsReported
    <3>5. decisions' = DecisionsOf(Len(nodes))' /\ diagnostics' = Said(Len(nodes))'
      BY <3>1, <3>2, <3>3
    <3>6. blocking' \in BOOLEAN BY <3>1, <3>2
    <3>7. blocking' <=> Unsolved(Len(nodes))' BY <3>1, <3>2, <3>3, Zenon
    <3> QED BY <3>4, <3>5, <3>6, <3>7, Zenon DEF Deciding
  <2>7. Compiling' BY <1>2, <1>5, <2>1 DEF PlanInv, Compiling, Early
  <2> QED BY <1>1, <1>2, <2>2, <2>5, <2>6, <2>7, LateStep DEF PlanInv
<1>6. CASE pc = "compile"
  <2>1. pc' = "ancestors" /\ cursor > Len(decisions) BY <1>6 DEF EndLoop
  <2>2. GraphIsBuilt /\ GraphIsBuilt' BY <1>6, <2>1 DEF GraphIsBuilt
  <2>3. nodes \in Seq(Nodes) /\ cursor \in Nat
    BY <2>2, NodesAreNodes DEF PlanInv, GraphInv, Typed
  <2>4. Len(decisions) = Len(nodes)
    <3>1. decisions = DecisionsOf(Len(nodes)) BY <1>6, Unblocked DEF Compiles
    <3> QED BY <2>3, <3>1 DEF DecisionsOf
  <2>5. cursor - 1 = Len(nodes) BY <1>6, <2>1, <2>3, <2>4 DEF PlanInv, Compiling
  <2>6. Accepting' BY <1>6, <2>1, <2>2, <1>2, LateStep DEF PlanInv, Accepting, IsReported
  <2>7. decisions' = decisions /\ diagnostics' = diagnostics /\ blocking' = blocking
    BY <1>2 DEF report
  <2>8. Deciding'
    <3>1. /\ decisions = DecisionsOf(Len(nodes))
          /\ diagnostics = Said(Len(nodes)) \union ObstructionDiagnostics(obstructions)
          /\ blocking <=> Unsolved(Len(nodes)) \/ obstructions # {}
          /\ ~blocking /\ blocking \in BOOLEAN
      BY <1>6 DEF PlanInv, Deciding, IsReported
    <3>2. /\ nodes' = nodes /\ obstructions' = obstructions
          /\ DecisionsOf(Len(nodes))' = DecisionsOf(Len(nodes))
          /\ Said(Len(nodes))' = Said(Len(nodes))
          /\ Unsolved(Len(nodes))' = Unsolved(Len(nodes))
      BY <1>2, <2>2, LateStep
    <3> QED BY <2>1, <2>7, <3>1, <3>2 DEF Deciding, IsReported, Early
  <2>9. Compiling'
    <3>1. entries = Made(Len(nodes)) BY <1>6, <2>5 DEF PlanInv, Compiling
    <3> QED BY <1>2, <2>1, <2>7, <3>1 DEF Compiling, Made, Early
  <2> QED BY <1>1, <1>2, <2>2, <2>6, <2>8, <2>9, LateStep DEF PlanInv
<1> QED BY <1>3, <1>4, <1>5, <1>6 DEF EndLoop

LEMMA PlanInvAcceptPriority == ASSUME PlanInv, AcceptPriority PROVE PlanInv'
<1>1. /\ pc = "policy" /\ pc' = "decisions"
      /\ UNCHANGED <<inputs, cursor, graph, report, entries, error>>
  BY DEF AcceptPriority
<1>2. GraphIsBuilt /\ GraphIsBuilt' BY <1>1 DEF GraphIsBuilt
<1>3. GraphInv' BY <1>1, <1>2, GraphInvLater DEF PlanInv, GraphInv, Typed, Pcs
<1>4. IsComplete
  <2>1. /\ PolicyFaults(order, priority) = {} /\ \A k \in DOMAIN order : Has(priority, order[k])
    BY DEF AcceptPriority
  <2>2. priority \in Seq(PackageIds) BY DEF PlanInv, GraphInv, Typed, TypedInputs
  <2>3. \A i \in DOMAIN priority : ~IsDuplicate(priority, i) /\ Has(order, priority[i])
    BY <2>1 DEF PolicyFaults
  <2>4. ASSUME NEW i \in DOMAIN priority, NEW j \in DOMAIN priority, i < j,
               priority[i] = priority[j]
        PROVE  FALSE
    <3>1. i \in 1 .. j - 1 BY <2>2, <2>4
    <3>2. IsDuplicate(priority, j) BY <2>4, <3>1 DEF IsDuplicate
    <3> QED BY <2>3, <3>2
  <2>5. IsOrder(priority)
    <3> SUFFICES ASSUME NEW i \in DOMAIN priority, NEW j \in DOMAIN priority,
                        priority[i] = priority[j], i # j
                 PROVE  FALSE
      BY DEF IsOrder
    <3>1. i < j \/ j < i BY <2>2
    <3> QED BY <2>4, <3>1
  <2> QED BY <2>1, <2>3, <2>5 DEF IsComplete, Has
<1>5. IsComplete' /\ Mapping' /\ Colliding' /\ Failing' BY <1>1, <1>2, <1>4, LateStep
<1>6. Deciding'
  <2>1. /\ decisions = <<>> /\ diagnostics = {} /\ ~blocking /\ blocking \in BOOLEAN
        /\ cursor = 1
    BY <1>1 DEF PlanInv, GraphInv, Typed, Deciding, Early
  <2>2. nodes \in Seq(Nodes) BY <1>2, NodesAreNodes DEF PlanInv
  <2>3. DecisionsOf(0)' = <<>> /\ Said(0)' = {} /\ ~Unsolved(0)'
    BY DEF DecisionsOf, Said, Unsolved
  <2>4. /\ decisions' = <<>> /\ diagnostics' = {} /\ ~blocking' /\ blocking' \in BOOLEAN
        /\ cursor' = 1 /\ (cursor - 1)' = 0 /\ cursor' <= Len(nodes') + 1
    BY <1>1, <2>1, <2>2 DEF report, graph
  <2> QED BY <1>1, <2>3, <2>4 DEF Deciding, IsReported, Early
<1>7. Compiling' BY <1>1 DEF PlanInv, Compiling, Early
<1> QED BY <1>3, <1>5, <1>6, <1>7 DEF PlanInv, Accepting

LEMMA PlanInvDecide == ASSUME PlanInv, Decide PROVE PlanInv'
<1> DEFINE d == decide(nodes[cursor], priority)
<1>1. /\ pc = "decisions" /\ pc' = "decisions" /\ cursor' = cursor + 1 /\ cursor <= Len(nodes)
      /\ decisions' = Append(decisions, d.decision)
      /\ diagnostics' = diagnostics \union d.diagnostics
      /\ blocking' = (blocking \/ d.decision.kind = "Unresolved")
      /\ UNCHANGED <<inputs, graph, entries, error>>
  BY DEF Decide
<1>2. GraphIsBuilt /\ GraphIsBuilt' BY <1>1 DEF GraphIsBuilt
<1>3. cursor \in Nat \ {0} /\ nodes \in Seq(Nodes)
  BY <1>2, NodesAreNodes DEF PlanInv, GraphInv, Typed
<1>4. GraphInv' BY <1>1, <1>2, <1>3, GraphInvLater DEF PlanInv, Pcs
<1>5. IsComplete' /\ Mapping' /\ Colliding' /\ Failing'
  BY <1>1, <1>2, LateStep DEF PlanInv, Accepting
<1>6. d = Outcome(cursor) BY DEF Outcome
<1> HIDE DEF d
<1>7. Deciding'
  <2>1. /\ decisions = DecisionsOf(cursor - 1) /\ diagnostics = Said(cursor - 1)
        /\ (blocking <=> Unsolved(cursor - 1)) /\ blocking \in BOOLEAN
    BY <1>1 DEF PlanInv, Deciding
  <2>2. 1 .. cursor = (1 .. cursor - 1) \union {cursor} BY <1>3
  <2>3. Append(decisions, d.decision) = DecisionsOf(cursor)
    <3>1. /\ DecisionsOf(cursor - 1) = [k \in 1 .. cursor - 1 |-> Outcome(k).decision]
          /\ DecisionsOf(cursor) = [k \in 1 .. cursor |-> Outcome(k).decision]
      BY DEF DecisionsOf
    <3>2. Len(decisions) = cursor - 1 BY <1>3, <2>1, <3>1
    <3> QED BY <1>3, <1>6, <2>1, <3>1, <3>2
  <2>4. diagnostics \union d.diagnostics = Said(cursor) BY <1>6, <2>1, <2>2 DEF Said
  <2>5. (blocking \/ d.decision.kind = "Unresolved") <=> Unsolved(cursor)
    BY <1>6, <2>1, <2>2 DEF Unsolved
  <2>6. /\ nodes' = nodes /\ priority' = priority /\ (cursor - 1)' = cursor
        /\ cursor' <= Len(nodes') + 1
    BY <1>1, <1>3 DEF inputs, graph
  <2>7. /\ DecisionsOf(cursor - 1)' = DecisionsOf(cursor)
        /\ Said(cursor - 1)' = Said(cursor)
        /\ Unsolved(cursor - 1)' <=> Unsolved(cursor)
    BY <2>6 DEF DecisionsOf, Said, Unsolved, Outcome
  <2>8. decisions' = DecisionsOf(cursor) /\ diagnostics' = Said(cursor) BY <1>1, <2>3, <2>4
  <2>9. blocking' \in BOOLEAN /\ (blocking' <=> Unsolved(cursor)) BY <1>1, <2>1, <2>5
  <2> QED BY <1>1, <2>6, <2>7, <2>8, <2>9 DEF Deciding, IsReported, Early
<1>8. Compiling' BY <1>1 DEF PlanInv, Compiling, Early
<1> QED BY <1>4, <1>5, <1>7, <1>8 DEF PlanInv, Accepting

LEMMA PlanInvReportObstructions == ASSUME PlanInv, ReportObstructions PROVE PlanInv'
<1>1. /\ pc = "report" /\ pc' = "check" /\ decisions' = decisions
      /\ diagnostics' = diagnostics \union ObstructionDiagnostics(obstructions)
      /\ blocking' = (blocking \/ obstructions # {})
      /\ UNCHANGED <<inputs, cursor, graph, entries, error>>
  BY DEF ReportObstructions
<1>2. GraphIsBuilt /\ GraphIsBuilt' BY <1>1 DEF GraphIsBuilt
<1>3. GraphInv' BY <1>1, <1>2, GraphInvLater DEF PlanInv, GraphInv, Typed, Pcs
<1>4. IsComplete' /\ Mapping' /\ Colliding' /\ Failing'
  BY <1>1, <1>2, LateStep DEF PlanInv, Accepting
<1>5. Deciding'
  <2>1. /\ decisions = DecisionsOf(Len(nodes)) /\ diagnostics = Said(Len(nodes))
        /\ (blocking <=> Unsolved(Len(nodes))) /\ blocking \in BOOLEAN
    BY <1>1 DEF PlanInv, Deciding
  <2>2. /\ nodes' = nodes /\ obstructions' = obstructions
        /\ DecisionsOf(Len(nodes))' = DecisionsOf(Len(nodes))
        /\ Said(Len(nodes))' = Said(Len(nodes))
        /\ Unsolved(Len(nodes))' = Unsolved(Len(nodes))
    BY <1>1, <1>2, LateStep
  <2>3. /\ decisions' = DecisionsOf(Len(nodes))
        /\ diagnostics' = Said(Len(nodes)) \union ObstructionDiagnostics(obstructions)
    BY <1>1, <2>1
  <2>4. blocking' \in BOOLEAN /\ (blocking' <=> Unsolved(Len(nodes)) \/ obstructions # {})
    BY <1>1, <2>1
  <2> QED BY <1>1, <2>2, <2>3, <2>4 DEF Deciding, IsReported, Early
<1>6. Compiling' BY <1>1 DEF PlanInv, Compiling, Early
<1> QED BY <1>3, <1>4, <1>5, <1>6 DEF PlanInv, Accepting

(* The report stays as it is.                                              *)
LEMMA ReportKept ==
    ASSUME PlanInv, IsReported, IsReported', UNCHANGED <<inputs, graph, report, error>>,
           Compiles' => ~blocking
    PROVE  /\ GraphIsBuilt /\ GraphIsBuilt' /\ Mapping' /\ Colliding' /\ Failing'
           /\ Accepting' /\ Deciding'
           /\ nodes' = nodes /\ decisions' = decisions /\ snapshot' = snapshot
           /\ \A n : Made(n)' = Made(n)
<1>1. GraphIsBuilt /\ GraphIsBuilt' BY DEF GraphIsBuilt, IsReported
<1>2. IsComplete' /\ Mapping' /\ Colliding' /\ Failing'
  BY <1>1, LateStep DEF PlanInv, Accepting
<1>3. decisions' = decisions /\ diagnostics' = diagnostics /\ blocking' = blocking
  BY DEF report
<1>4. /\ decisions = DecisionsOf(Len(nodes))
      /\ diagnostics = Said(Len(nodes)) \union ObstructionDiagnostics(obstructions)
      /\ blocking <=> Unsolved(Len(nodes)) \/ obstructions # {}
      /\ blocking \in BOOLEAN
  BY DEF PlanInv, Deciding
<1>5. /\ nodes' = nodes /\ obstructions' = obstructions /\ snapshot' = snapshot
      /\ DecisionsOf(Len(nodes))' = DecisionsOf(Len(nodes))
      /\ Said(Len(nodes))' = Said(Len(nodes))
      /\ Unsolved(Len(nodes))' = Unsolved(Len(nodes))
  BY <1>1, LateStep
<1>6. Deciding'
  BY <1>3, <1>4, <1>5 DEF Deciding, IsReported, Early, Compiles
<1>7. \A n : Made(n)' = Made(n) BY <1>3 DEF Made
<1> QED BY <1>1, <1>2, <1>3, <1>5, <1>6, <1>7 DEF Accepting

LEMMA PlanInvStartCompiling == ASSUME PlanInv, StartCompiling PROVE PlanInv'
<1>1. /\ pc = "check" /\ pc' = "compile" /\ ~blocking
      /\ UNCHANGED <<inputs, cursor, graph, report, entries, error>>
  BY DEF StartCompiling
<1>2. /\ GraphIsBuilt /\ GraphIsBuilt' /\ Mapping' /\ Colliding' /\ Failing'
      /\ Accepting' /\ Deciding' /\ nodes' = nodes
  BY <1>1, ReportKept DEF IsReported
<1>3. GraphInv' BY <1>1, <1>2, GraphInvLater DEF PlanInv, GraphInv, Typed, Pcs
<1>4. Compiling'
  <2>1. entries = {} /\ cursor = 1
    BY <1>1 DEF PlanInv, GraphInv, Typed, Compiling, Early
  <2>2. nodes \in Seq(Nodes) BY <1>2, NodesAreNodes DEF PlanInv
  <2>3. Made(0)' = {} BY DEF Made
  <2>4. entries' = {} /\ (cursor - 1)' = 0 /\ cursor' <= Len(nodes') + 1
    BY <1>1, <1>2, <2>1, <2>2
  <2> QED BY <1>1, <2>3, <2>4 DEF Compiling, Early
<1> QED BY <1>2, <1>3, <1>4 DEF PlanInv

LEMMA PlanInvCompileNext == ASSUME PlanInv, CompileNext PROVE PlanInv'
<1>1. pc = "compile" /\ cursor <= Len(decisions) BY DEF CompileNext
<1>2. /\ decisions = DecisionsOf(Len(nodes)) /\ Len(nodes) \in Nat
      /\ cursor \in Nat \ {0} /\ DOMAIN nodes = 1 .. Len(nodes)
  BY <1>1, Unblocked DEF Compiles, PlanInv, GraphInv, Typed
<1>3. cursor \in DOMAIN nodes /\ cursor <= Len(nodes) BY <1>1, <1>2 DEF DecisionsOf
<1>4. compileDecision(decisions[cursor]) # {}
  <2>1. \E e : compileDecision(decisions[cursor]) = {e}
    BY <1>1, <1>3, Unblocked DEF Compiles
  <2> QED BY <2>1
<1>5. /\ entries' = entries \union compileDecision(decisions[cursor])
      /\ cursor' = cursor + 1 /\ UNCHANGED <<inputs, pc, graph, report, error>>
  BY <1>4 DEF CompileNext
<1>6. /\ GraphIsBuilt /\ GraphIsBuilt' /\ Mapping' /\ Colliding' /\ Failing'
      /\ Accepting' /\ Deciding' /\ nodes' = nodes /\ \A n : Made(n)' = Made(n)
  <2>1. ~blocking BY <1>1, Unblocked DEF PlanInv, Deciding
  <2> QED BY <1>1, <1>5, <2>1, ReportKept DEF IsReported
<1>7. GraphInv' BY <1>1, <1>2, <1>5, <1>6, GraphInvLater DEF PlanInv, Pcs
<1>8. Compiling'
  <2>1. entries = Made(cursor - 1) BY <1>1 DEF PlanInv, Compiling
  <2>2. 1 .. cursor = (1 .. cursor - 1) \union {cursor} BY <1>2
  <2>3. entries' = Made(cursor) BY <1>5, <2>1, <2>2 DEF Made
  <2>4. (cursor - 1)' = cursor /\ cursor' <= Len(nodes') + 1 BY <1>2, <1>3, <1>5, <1>6
  <2>5. Made(cursor - 1)' = Made(cursor) BY <1>5, <2>4 DEF Made, report
  <2> QED BY <1>1, <1>5, <2>3, <2>4, <2>5 DEF Compiling, Early
<1> QED BY <1>6, <1>7, <1>8 DEF PlanInv

LEMMA PlanInvAddAncestors == ASSUME PlanInv, AddAncestors PROVE PlanInv'
<1>1. /\ pc = "ancestors" /\ pc' = "sources"
      /\ entries' = entries \union {SyntheticEntry(path) : path \in syntheticAncestors(decisions)}
      /\ UNCHANGED <<inputs, cursor, graph, report, error>>
  BY DEF AddAncestors
<1>2. /\ GraphIsBuilt /\ GraphIsBuilt' /\ Mapping' /\ Colliding' /\ Failing'
      /\ Accepting' /\ Deciding' /\ nodes' = nodes /\ decisions' = decisions
      /\ \A n : Made(n)' = Made(n)
  <2>1. ~blocking BY <1>1 DEF PlanInv, Deciding
  <2> QED BY <1>1, <2>1, ReportKept DEF IsReported
<1>3. GraphInv' BY <1>1, <1>2, GraphInvLater DEF PlanInv, GraphInv, Typed, Pcs
<1>4. Compiling'
  <2>1. entries' = Namespace BY <1>1 DEF PlanInv, Compiling, Namespace
  <2>2. Namespace' = Namespace BY <1>2 DEF Namespace, Made
  <2> QED BY <1>1, <2>1, <2>2 DEF Compiling, Early
<1> QED BY <1>2, <1>3, <1>4 DEF PlanInv

LEMMA PlanInvMapSources == ASSUME PlanInv, MapSources PROVE PlanInv'
<1>1. /\ pc = "sources" /\ pc' = "done" /\ SnapshotFaults(snapshot) = {}
      /\ \A e \in entries : EntryFault(snapshot, e) = {}
      /\ entries' = {Final(e) : e \in entries}
      /\ UNCHANGED <<inputs, cursor, graph, report, error>>
  BY DEF MapSources, Final
<1>2. /\ GraphIsBuilt /\ GraphIsBuilt' /\ Mapping' /\ Colliding' /\ Failing'
      /\ Accepting' /\ Deciding' /\ nodes' = nodes /\ decisions' = decisions
      /\ snapshot' = snapshot
  <2>1. ~blocking BY <1>1 DEF PlanInv, Deciding
  <2> QED BY <1>1, <2>1, ReportKept DEF IsReported
<1>3. GraphInv' BY <1>1, <1>2, GraphInvLater DEF PlanInv, GraphInv, Typed, Pcs
<1>4. Compiling'
  <2>1. entries = Namespace BY <1>1 DEF PlanInv, Compiling
  <2>2. Namespace' = Namespace BY <1>2 DEF Namespace, Made
  <2>3. entries' = {Final(e) : e \in Namespace}' BY <1>1, <1>2, <2>1, <2>2 DEF Final
  <2>4. SnapshotFaults(snapshot)' = {} /\ \A e \in Namespace' : EntryFault(snapshot, e)' = {}
    BY <1>1, <1>2, <2>1, <2>2
  <2> QED BY <1>1, <2>3, <2>4 DEF Compiling, Early
<1> QED BY <1>2, <1>3, <1>4 DEF PlanInv

LEMMA PlanInvStutter == ASSUME PlanInv, UNCHANGED vars PROVE PlanInv'
<1>1. UNCHANGED <<order, plans, priority, snapshot, claims, pc, cursor, sorted, nodes, collisions,
                  obstructions, decisions, diagnostics, blocking, entries, error>>
  BY DEF vars, inputs, graph, report
<1>2. GraphInv' BY GraphInvNext DEF PlanInv
<1>3. Colliding' /\ Accepting' /\ Mapping' /\ Failing'
  <2>1. Colliding' /\ Accepting' BY <1>1 DEF PlanInv, Colliding, Accepting, IsReported, IsComplete
  <2>2. Mapping' BY <1>1 DEF PlanInv, Mapping, Mapped
  <2>3. /\ IsComplete' = IsComplete /\ IsConflicting' = IsConflicting
        /\ IsPlanOfAll' = IsPlanOfAll /\ HasPlanTwice' = HasPlanTwice
    BY <1>1 DEF IsComplete, IsConflicting, IsPlanOfAll, HasPlanTwice, Paths, On,
                IsMixed, IsAmbiguous, Obstructed
  <2>4. Failing' BY <1>1, <2>3 DEF PlanInv, Failing
  <2> QED BY <2>1, <2>2, <2>4
<1>4. Deciding' /\ Compiling'
  BY <1>1 DEF PlanInv, Deciding, Compiling, IsReported, DecisionsOf, Said, Unsolved, Outcome,
              Made, Namespace, Final
<1> QED BY <1>2, <1>3, <1>4 DEF PlanInv

LEMMA PlanInvNext == PlanInv /\ [Next]_vars => PlanInv'
<1> SUFFICES ASSUME PlanInv, [Next]_vars PROVE PlanInv' OBVIOUS
<1>1. CASE RejectEntryOfPlan \/ RejectClaim BY <1>1, PlanInvRejectEarly
<1>2. CASE MapPlan BY <1>2, PlanInvMapPlan
<1>3. CASE SortClaims BY <1>3, PlanInvSortClaims
<1>4. CASE TakeNode BY <1>4, PlanInvTakeNode
<1>5. CASE LookBelow BY <1>5, PlanInvLookBelow
<1>6. CASE RejectPriority BY <1>6, PlanInvRejectPriority
<1>7. CASE AcceptPriority BY <1>7, PlanInvAcceptPriority
<1>8. CASE Decide BY <1>8, PlanInvDecide
<1>9. CASE ReportObstructions BY <1>9, PlanInvReportObstructions
<1>10. CASE RejectConflicts BY <1>10, PlanInvRejectConflicts
<1>11. CASE StartCompiling BY <1>11, PlanInvStartCompiling
<1>12. CASE CompileNext BY <1>12, PlanInvCompileNext
<1>13. CASE AddAncestors BY <1>13, PlanInvAddAncestors
<1>14. CASE RejectSnapshot \/ RejectEntry BY <1>14, PlanInvRejectSources
<1>15. CASE MapSources BY <1>15, PlanInvMapSources
<1>16. CASE EndLoop BY <1>16, PlanInvEndLoop
<1>17. CASE Returned \/ UNCHANGED vars BY <1>17, PlanInvStutter DEF Returned
<1> QED
  BY <1>1, <1>2, <1>3, <1>4, <1>5, <1>6, <1>7, <1>8, <1>9, <1>10, <1>11, <1>12, <1>13, <1>14,
     <1>15, <1>16, <1>17 DEF Next

(* What the report, the namespace and an error are made of, at every point  *)
(* of the planning, for all that it may be given.                          *)
THEOREM PlanInvariant == Spec => []PlanInv
<1> QED BY PlanInvInit, PlanInvNext, PTL DEF Spec

-----------------------------------------------------------------------------
(* What follows from the invariant.                                        *)

LEMMA OutcomeOfNode ==
    ASSUME NEW k, Len(nodes[k].claims) \in Nat \ {0}
    PROVE  LET o == Outcome(k)  collides == IsExactCollision(nodes[k]) IN
           /\ \A d \in o.diagnostics : d.path = nodes[k].path /\ d.related = {}
           /\ collides <=> o.diagnostics # {}
           /\ o.decision.kind = "Unresolved" <=> \E d \in o.diagnostics : d.code \in Errors
<1> DEFINE list == nodes[k].claims
           path == nodes[k].path
           o == Outcome(k)
<1>1. CASE Len(list) = 1
  <2>1. o.diagnostics = {} /\ o.decision.kind = "SingleClaim"
    BY <1>1 DEF Outcome, decide, Decision
  <2> QED BY <1>1, <2>1 DEF IsExactCollision
<1>2. CASE Len(list) # 1 /\ ~containsNonDirectory(list)
  <2>1. o.diagnostics = {} /\ o.decision.kind = "MergedDirectories"
    BY <1>2 DEF Outcome, decide, Decision
  <2> QED BY <1>2, <2>1 DEF IsExactCollision
<1>3. CASE Len(list) # 1 /\ containsNonDirectory(list)
  <2>0. IsExactCollision(nodes[k]) BY <1>3 DEF IsExactCollision
  <2>1. \/ /\ o.decision.kind = "Unresolved"
           /\ \E code \in Errors : o.diagnostics = {Diagnostic(code, path, {}, {})}
        \/ /\ o.decision.kind = "PriorityWinner"
           /\ \E winner : o.diagnostics
                             = {Diagnostic("ExactPathWinnerSelected", path, {}, winner)}
    BY <1>3 DEF Outcome, decide, Decision, Errors
  <2> HIDE DEF o, path
  <2>2. CASE /\ o.decision.kind = "Unresolved"
             /\ \E code \in Errors : o.diagnostics = {Diagnostic(code, path, {}, {})}
    BY <2>0, <2>2 DEF Diagnostic, o, path
  <2>3. CASE /\ o.decision.kind = "PriorityWinner"
             /\ \E winner : o.diagnostics
                               = {Diagnostic("ExactPathWinnerSelected", path, {}, winner)}
    BY <2>0, <2>3 DEF Diagnostic, Errors, o, path
  <2> QED BY <2>1, <2>2, <2>3
<1> QED BY <1>1, <1>2, <1>3

LEMMA ReportTellsCollisions ==
    ASSUME PlanInv, IsReported
    PROVE  /\ collisions = {d.path : d \in {d \in diagnostics : d.related = {}}}
           /\ blocking <=> HasError(diagnostics)
<1>1. GraphInv /\ GraphIsBuilt BY DEF PlanInv, IsReported, GraphIsBuilt
<1>2. /\ diagnostics = Said(Len(nodes)) \union ObstructionDiagnostics(obstructions)
      /\ blocking <=> Unsolved(Len(nodes)) \/ obstructions # {}
  BY DEF PlanInv, Deciding
<1>3. collisions = {nodes[k].path : k \in {k \in DOMAIN nodes : IsExactCollision(nodes[k])}}
  BY DEF PlanInv, Colliding, IsReported
<1>4. DOMAIN nodes = 1 .. Len(nodes) BY <1>1, NodesAreNodes
<1>5. \A k \in DOMAIN nodes :
         /\ \A d \in Outcome(k).diagnostics : d.path = nodes[k].path /\ d.related = {}
         /\ IsExactCollision(nodes[k]) <=> Outcome(k).diagnostics # {}
         /\ Outcome(k).decision.kind = "Unresolved"
               <=> \E d \in Outcome(k).diagnostics : d.code \in Errors
  <2> TAKE k \in DOMAIN nodes
  <2>1. PICK g : Numbering(k, g) BY <1>1, NodesHoldTheirClaims
  <2>2. Len(nodes[k].claims) \in Nat \ {0} BY <1>1, <2>1, ClaimsOfNode
  <2> QED BY <2>2, OutcomeOfNode
<1>6. \A d \in ObstructionDiagnostics(obstructions) : d.related # {} /\ d.code \in Errors
  BY DEF ObstructionDiagnostics, Diagnostic, Errors
<1>7. obstructions # {} <=> ObstructionDiagnostics(obstructions) # {}
  BY DEF ObstructionDiagnostics
<1>8. \A d : d \in Said(Len(nodes)) <=> \E k \in DOMAIN nodes : d \in Outcome(k).diagnostics
  BY <1>4 DEF Said
<1>9. collisions = {d.path : d \in {d \in diagnostics : d.related = {}}}
  <2>1. ASSUME NEW path \in collisions
        PROVE  path \in {d.path : d \in {d \in diagnostics : d.related = {}}}
    <3>1. PICK k \in DOMAIN nodes : path = nodes[k].path /\ IsExactCollision(nodes[k])
      BY <1>3
    <3>2. PICK d \in Outcome(k).diagnostics : d.path = path /\ d.related = {}
      BY <1>5, <3>1
    <3>3. d \in diagnostics BY <1>2, <1>8, <3>2
    <3> QED BY <3>2, <3>3
  <2>2. ASSUME NEW d \in diagnostics, d.related = {} PROVE d.path \in collisions
    <3>1. PICK k \in DOMAIN nodes : d \in Outcome(k).diagnostics
      BY <1>2, <1>6, <1>8, <2>2
    <3>2. d.path = nodes[k].path /\ IsExactCollision(nodes[k]) BY <1>5, <3>1
    <3> QED BY <1>3, <3>2
  <2> QED BY <2>1, <2>2
<1>10. Unsolved(Len(nodes)) <=> \E d \in Said(Len(nodes)) : d.code \in Errors
  BY <1>4, <1>5, <1>8 DEF Unsolved
<1>11. blocking <=> HasError(diagnostics) BY <1>2, <1>6, <1>7, <1>10 DEF HasError
<1> QED BY <1>9, <1>11

LEMMA InvBlocks == PlanInv => BlockedByConflictsOnly
<1> SUFFICES ASSUME PlanInv PROVE BlockedByConflictsOnly OBVIOUS
<1>1. Accepting /\ Failing BY DEF PlanInv
<1>2. Compiles => ~IsConflicting BY Unblocked
<1>3. IsReported => /\ collisions = {d.path : d \in {d \in diagnostics : d.related = {}}}
                    /\ (blocking <=> HasError(diagnostics))
  BY ReportTellsCollisions
<1> QED BY <1>1, <1>2, <1>3 DEF BlockedByConflictsOnly, Accepting, Failing, Compiles

(* ConflictResolutionPolicy, ConflictResolutionReport and the compiler: for *)
(* all claims and priorities, the planning is stopped for incomplete        *)
(* priorities and for a conflict that is told as an error, and for nothing  *)
(* else, and the compiler has no decision to refuse.                        *)
THEOREM ConflictsBlock == Spec => []BlockedByConflictsOnly
<1> QED BY InvBlocks, PlanInvariant, PTL

(* mapClaims and mapSources: the plans that claims were mapped from contain *)
(* every source, for all plans.                                             *)
THEOREM ClaimsAreSourced == Spec => []PlansSourceTheirClaims
<1>1. PlanInv => PlansSourceTheirClaims
  BY DEF PlanInv, Failing, HasPlanTwice, PlansSourceTheirClaims
<1> QED BY <1>1, PlanInvariant, PTL

(* An entry with its source is the entry otherwise.                        *)
LEMMA FinalKeeps ==
    ASSUME NEW e
    PROVE  /\ Final(e).path = e.path /\ Final(e).kind = e.kind
           /\ Final(e).selected = e.selected /\ Final(e).contenders = e.contenders
           /\ Final(e).explained = e.explained
BY DEF Final, Sourced, WithSource

LEMMA EntriesOfNamespace ==
    ASSUME PlanInv, IsCompiled
    PROVE  /\ Compiles
           /\ \A e \in entries : \E f \in Namespace : e = f \/ e = Final(f)
           /\ \A f \in Namespace : \E e \in entries : e = f \/ e = Final(f)
           /\ \/ entries = Namespace
              \/ entries = {Final(f) : f \in Namespace}
BY DEF PlanInv, Compiling, IsCompiled, Compiles

LEMMA InvWins == PlanInv => StrongestClaimsWin
<1> SUFFICES ASSUME PlanInv, IsCompiled, NEW path \in Paths
             PROVE  \E e \in entries : Wins(e, path)
  BY DEF StrongestClaimsWin, Wins
<1>1. PICK f \in Made(Len(nodes)) : Wins(f, path)
  BY EntriesOfNamespace, MadeEntries
<1>2. PICK e \in entries : e = f \/ e = Final(f)
  BY <1>1, EntriesOfNamespace DEF Namespace
<1>3. Wins(Final(f), path)
  <2> DEFINE h == Final(f)
  <2>1. /\ h.path = f.path /\ h.kind = f.kind /\ h.selected = f.selected
        /\ h.contenders = f.contenders /\ h.explained = f.explained
    BY FinalKeeps
  <2> HIDE DEF h
  <2>2. Wins(h, path)
    <3>1. /\ h.path = path
          /\ {h.contenders[k] : k \in DOMAIN h.contenders} = {claims[i] : i \in On(path)}
      BY <1>1, <2>1, Zenon DEF Wins
    <3>2. CASE f.kind = "Directory" /\ \A i \in On(path) : claims[i].kind = "Directory"
      BY <2>1, <3>1, <3>2, Zenon DEF Wins
    <3>3. CASE \E i \in On(path) :
                 /\ f.selected = {claims[i]} /\ f.explained = {claims[i]}
                 /\ f.kind = claims[i].kind /\ f.kind # "Directory"
                 /\ \A j \in On(path) \ {i} :
                       Rank(priority, claims[j].package) < Rank(priority, claims[i].package)
      <4>1. PICK i \in On(path) :
                 /\ h.selected = {claims[i]} /\ h.explained = {claims[i]}
                 /\ h.kind = claims[i].kind /\ h.kind # "Directory"
                 /\ \A j \in On(path) \ {i} :
                       Rank(priority, claims[j].package) < Rank(priority, claims[i].package)
        BY <2>1, <3>3, Zenon
      <4> QED BY <3>1, <4>1, Zenon DEF Wins
    <3> QED BY <1>1, <3>2, <3>3, Zenon DEF Wins
  <2> QED BY <2>2 DEF h
<1> QED BY <1>1, <1>2, <1>3

(* For all claims and priorities, the claim that wins a path is the one the *)
(* priorities say, and the namespace explains it by all that contended.     *)
THEOREM StrongestWin == Spec => []StrongestClaimsWin
<1> QED BY InvWins, PlanInvariant, PTL

LEMMA InvSources == PlanInv => SourcesAreReal
<1> SUFFICES ASSUME PlanInv, pc = "done", NEW e \in entries, e.kind # "Directory"
             PROVE  \E c \in e.selected, i \in DOMAIN snapshot :
                LET plan == snapshot[i].plan IN
                /\ plan.package = c.package
                /\ e.source = {[package |-> c.package, path |-> c.source,
                                location |-> plan.location]}
                /\ {plan.entries[k].kind : k \in
                       {k \in DOMAIN plan.entries : plan.entries[k].path = c.source}} = {e.kind}
  BY DEF SourcesAreReal
<1>1. PICK f \in Namespace : e = Final(f) BY DEF PlanInv, Compiling
<1>2. SnapshotFaults(snapshot) = {} /\ EntryFault(snapshot, f) = {}
  BY DEF PlanInv, Compiling
<1>3. f.kind = e.kind /\ f.selected = e.selected BY <1>1, FinalKeeps
<1>4. f \in Made(Len(nodes))
  BY <1>3, SyntheticIsWellMade DEF Namespace
<1>5. PICK path : Wins(f, path) BY <1>4, MadeEntries DEF Compiles
<1>6. PICK j \in On(path) : f.selected = {claims[j]} /\ claims[j].kind = f.kind
  BY <1>3, <1>5 DEF Wins
<1> DEFINE c == claims[j]
           i == CHOOSE i \in DOMAIN snapshot : snapshot[i].lookup = c.package
           plan == snapshot[i].plan
<1>7. (CHOOSE d \in f.selected : TRUE) = c /\ ~IsMalformed(f)
  BY <1>3, <1>6 DEF IsMalformed
<1> HIDE DEF c
<1>8. /\ \E q \in DOMAIN snapshot : snapshot[q].lookup = c.package
      /\ KindsOf(PlanOf(snapshot, c.package), c.source) = {f.kind}
  BY <1>2, <1>3, <1>7 DEF EntryFault
<1>9. i \in DOMAIN snapshot /\ snapshot[i].lookup = c.package BY <1>8
<1>10. PlanOf(snapshot, c.package) = plan BY DEF PlanOf
<1> HIDE DEF i
<1>11. plan.package = c.package BY <1>2, <1>9 DEF SnapshotFaults, IsMismatched
<1>12. e.source = {[package |-> c.package, path |-> c.source, location |-> plan.location]}
  <2>1. e = WithSource(f, {[package |-> d.package, path |-> d.source,
                            location |-> PlanOf(snapshot, d.package).location] : d \in f.selected})
    BY <1>1, <1>3 DEF Final, Sourced
  <2>2. f.selected = {c} BY <1>6 DEF c
  <2> HIDE DEF plan
  <2> QED BY <1>10, <2>1, <2>2 DEF WithSource
<1>13. {plan.entries[k].kind : k \in
           {k \in DOMAIN plan.entries : plan.entries[k].path = c.source}} = {e.kind}
  BY <1>3, <1>8, <1>10 DEF KindsOf
<1>14. c \in e.selected BY <1>3, <1>6 DEF c
<1> QED BY <1>9, <1>11, <1>12, <1>13, <1>14

(* For all snapshots, every entry that is no directory comes from an entry  *)
(* of that kind of the plan of the package that won.                        *)
THEOREM SourcesReal == Spec => []SourcesAreReal
<1> QED BY InvSources, PlanInvariant, PTL

-----------------------------------------------------------------------------
(* The namespace is a tree.                                                *)

LEMMA AncestorsAreAbove ==
    ASSUME NEW path \in Seq(Nat), NEW a \in AncestorPaths(path)
    PROVE  /\ a \in Seq(Nat) /\ a # Root /\ IsAbove(a, path) /\ path # Root
           /\ \A b \in AncestorPaths(a) : b \in AncestorPaths(path)
<1>1. PICK n \in 2 .. Len(path) : path[n] = Slash /\ a = SubSeq(path, 1, n - 1)
  BY DEF AncestorPaths
<1>2. Len(path) \in Nat /\ n \in Nat OBVIOUS
<1>3. /\ a \in Seq(Nat) /\ Len(a) = n - 1 /\ \A k \in 1 .. n - 1 : a[k] = path[k]
  BY <1>1
<1>4. DOMAIN a = 1 .. n - 1 BY <1>3
<1>5. a # Root /\ path # Root BY <1>1, <1>2, <1>3 DEF Root
<1>6. IsAbove(a, path) BY <1>1, <1>2, <1>3, <1>4, <1>5 DEF IsAbove
<1>7. ASSUME NEW b \in AncestorPaths(a) PROVE b \in AncestorPaths(path)
  <2>1. PICK m \in 2 .. n - 1 : a[m] = Slash /\ b = SubSeq(a, 1, m - 1)
    BY <1>3 DEF AncestorPaths
  <2>2. m \in 2 .. Len(path) /\ path[m] = Slash BY <1>2, <1>3, <2>1
  <2>3. SubSeq(a, 1, m - 1) = SubSeq(path, 1, m - 1)
    <3>1. m - 1 \in 0 .. Len(a) /\ m - 1 \in 0 .. Len(path) BY <1>2, <1>3, <2>1
    <3> HIDE DEF Root
    <3>2. SubSeq(a, 1, m - 1) = [k \in 1 .. m - 1 |-> a[k]]
      BY <1>3, <3>1
    <3>3. SubSeq(path, 1, m - 1) = [k \in 1 .. m - 1 |-> path[k]]
      BY <3>1
    <3>4. \A k \in 1 .. m - 1 : a[k] = path[k] BY <1>2, <1>3, <2>1
    <3> QED BY <3>2, <3>3, <3>4
  <2> QED BY <2>1, <2>2, <2>3 DEF AncestorPaths
<1> QED BY <1>3, <1>5, <1>6, <1>7

LEMMA AboveIsTransitive ==
    ASSUME NEW x \in Seq(Nat), NEW y \in Seq(Nat), NEW z \in Seq(Nat),
           IsAbove(x, y), IsAbove(y, z), y # Root, z # Root
    PROVE  IsAbove(x, z)
<1>1. CASE x = Root BY <1>1 DEF IsAbove
<1>2. CASE x # Root
  <2>1. /\ Len(x) < Len(y) /\ y[Len(x) + 1] = Slash /\ \A k \in DOMAIN x : x[k] = y[k]
        /\ Len(y) < Len(z) /\ \A k \in DOMAIN y : y[k] = z[k]
    BY <1>2 DEF IsAbove
  <2>2. Len(x) + 1 \in DOMAIN y /\ DOMAIN x \subseteq DOMAIN y BY <2>1
  <2>3. Len(x) < Len(z) /\ z[Len(x) + 1] = Slash /\ \A k \in DOMAIN x : x[k] = z[k]
    BY <2>1, <2>2
  <2> QED BY <1>2, <2>3 DEF IsAbove
<1> QED BY <1>1, <1>2

LEMMA OccupiedAreClaimed ==
    ASSUME PlanInv, Compiles
    PROVE  /\ {decisions[k].path : k \in DOMAIN decisions} = Paths
           /\ Paths \subseteq Seq(Nat)
<1>1. DOMAIN decisions = DOMAIN nodes BY Unblocked DEF DecisionsOf
<1>2. \A k \in DOMAIN nodes : decisions[k].path = nodes[k].path /\ nodes[k].path \in Paths
  BY Unblocked, NodesHoldTheirClaims
<1>3. \A path \in Paths : \E k \in DOMAIN nodes : nodes[k].path = path
  BY Unblocked, PathsHaveNodes
<1>4. Paths \subseteq Seq(Nat)
  <2> SUFFICES ASSUME NEW i \in DOMAIN claims PROVE claims[i].path \in Seq(Nat) BY DEF Paths
  <2>1. claims \in Seq(Claims(PackageIds)) BY DEF PlanInv, GraphInv, Typed, TypedInputs
  <2>2. claims[i] \in Claims(PackageIds) BY <2>1
  <2> QED BY <2>2 DEF Claims
<1> QED BY <1>1, <1>2, <1>3, <1>4

LEMMA SyntheticAreUnclaimed ==
    ASSUME PlanInv, Compiles, NEW a
    PROVE  a \in syntheticAncestors(decisions)
              <=> a \notin Paths /\ \E path \in Paths : a \in AncestorPaths(path)
<1> DEFINE occupied == {decisions[k].path : k \in DOMAIN decisions}
<1>1. syntheticAncestors(decisions) = (UNION {AncestorPaths(p) : p \in occupied}) \ occupied
  BY DEF syntheticAncestors
<1>2. occupied = Paths BY OccupiedAreClaimed
<1> HIDE DEF occupied
<1> QED BY <1>1, <1>2

(* A claim that is no directory has no claim below it.                     *)
LEMMA FilesAreLeaves ==
    ASSUME PlanInv, Compiles, NEW above \in Paths, NEW below \in Paths, IsAbove(above, below),
           NEW i \in On(above)
    PROVE  claims[i].kind = "Directory"
BY Unblocked DEF IsConflicting, Obstructed

LEMMA NodesAreDistinct ==
    ASSUME PlanInv, Compiles, NEW k \in DOMAIN nodes, NEW l \in DOMAIN nodes,
           nodes[k].path = nodes[l].path
    PROVE  k = l
<1>1. InOrder(nodes) /\ nodes[k].path \in Seq(Nat) /\ DOMAIN nodes = 1 .. Len(nodes)
      /\ Len(nodes) \in Nat
  BY Unblocked, NodesAreNodes
<1>2. ~(k < l) /\ ~(l < k) BY <1>1, LessIsIrreflexive DEF InOrder
<1> QED BY <1>1, <1>2

LEMMA KindsOfEntries ==
    ASSUME PlanInv, Compiles, NEW e \in Namespace
    PROVE  \/ /\ e.path \in Paths /\ e \in Made(Len(nodes)) /\ Wins(e, e.path)
           \/ /\ e.path \notin Paths /\ e = SyntheticEntry(e.path) /\ e.kind = "Directory"
              /\ \E path \in Paths : e.path \in AncestorPaths(path)
<1>1. CASE e \in Made(Len(nodes))
  <2>1. PICK k \in DOMAIN nodes : Wins(e, nodes[k].path) BY <1>1, MadeEntries
  <2>2. e.path = nodes[k].path BY <2>1 DEF Wins
  <2>3. nodes[k].path \in Paths BY Unblocked, NodesHoldTheirClaims
  <2> QED BY <1>1, <2>1, <2>2, <2>3
<1>2. ASSUME NEW path \in syntheticAncestors(decisions), e = SyntheticEntry(path)
      PROVE  /\ e.path \notin Paths /\ e = SyntheticEntry(e.path) /\ e.kind = "Directory"
             /\ \E p \in Paths : e.path \in AncestorPaths(p)
  <2>1. e.path = path /\ e.kind = "Directory" BY <1>2, SyntheticIsWellMade
  <2>2. path \notin Paths /\ \E p \in Paths : path \in AncestorPaths(p)
    BY SyntheticAreUnclaimed
  <2> QED BY <1>2, <2>1, <2>2
<1> QED BY <1>1, <1>2 DEF Namespace

LEMMA AncestorsHaveDirectories ==
    ASSUME PlanInv, Compiles, NEW path \in Paths, NEW a \in AncestorPaths(path)
    PROVE  \E d \in Namespace : d.path = a /\ d.kind = "Directory"
<1>1. path \in Seq(Nat) BY OccupiedAreClaimed
<1>2. IsAbove(a, path) BY <1>1, AncestorsAreAbove
<1>3. CASE a \in Paths
  <2>1. PICK d \in Made(Len(nodes)) : Wins(d, a) BY <1>3, MadeEntries
  <2>2. d.path = a /\ d.kind = "Directory"
    <3>1. \A i \in On(a) : claims[i].kind = "Directory" BY <1>2, <1>3, FilesAreLeaves
    <3> QED BY <2>1, <3>1 DEF Wins
  <2> QED BY <2>1, <2>2 DEF Namespace
<1>4. CASE a \notin Paths
  <2>1. a \in syntheticAncestors(decisions)
    BY <1>4, SyntheticAreUnclaimed
  <2>2. SyntheticEntry(a) \in Namespace BY <2>1 DEF Namespace
  <2> QED BY <2>2, SyntheticIsWellMade
<1> QED BY <1>3, <1>4

IsTree(es) ==
    /\ \A e, f \in es : e.path = f.path => e = f
    /\ \A e \in es : \A k \in 2 .. Len(e.path) :
          e.path[k] = Slash =>
              \E d \in es : d.path = SubSeq(e.path, 1, k - 1) /\ d.kind = "Directory"
    /\ \A e, f \in es : IsAbove(e.path, f.path) => e.kind = "Directory"
    /\ \A e \in es : e.path \in Paths \/ \E path \in Paths : IsAbove(e.path, path)

LEMMA CompiledIsTree == ASSUME PlanInv, Compiles PROVE IsTree(Namespace)
<1>1. ASSUME NEW e \in Namespace, NEW f \in Namespace, e.path = f.path PROVE e = f
  <2>1. CASE e.path \notin Paths
    <3>1. e = SyntheticEntry(e.path) /\ f = SyntheticEntry(f.path)
      BY <1>1, <2>1, KindsOfEntries
    <3> QED BY <1>1, <3>1
  <2>2. CASE e.path \in Paths
    <3>1. e \in Made(Len(nodes)) /\ f \in Made(Len(nodes)) BY <1>1, <2>2, KindsOfEntries
    <3>2. PICK k \in DOMAIN nodes : e.path = nodes[k].path /\ compileDecision(decisions[k]) = {e}
      BY <3>1, MadeEntries DEF Wins
    <3>3. PICK l \in DOMAIN nodes : f.path = nodes[l].path /\ compileDecision(decisions[l]) = {f}
      BY <3>1, MadeEntries DEF Wins
    <3>4. k = l BY <1>1, <3>2, <3>3, NodesAreDistinct
    <3> QED BY <3>2, <3>3, <3>4
  <2> QED BY <2>1, <2>2
<1>2. ASSUME NEW e \in Namespace, NEW k \in 2 .. Len(e.path), e.path[k] = Slash
      PROVE  \E d \in Namespace : d.path = SubSeq(e.path, 1, k - 1) /\ d.kind = "Directory"
  <2>1. SubSeq(e.path, 1, k - 1) \in AncestorPaths(e.path) BY <1>2 DEF AncestorPaths
  <2>2. \E path \in Paths : SubSeq(e.path, 1, k - 1) \in AncestorPaths(path)
    <3>1. CASE e.path \in Paths BY <2>1, <3>1
    <3>2. CASE e.path \notin Paths
      <4>1. PICK path \in Paths : e.path \in AncestorPaths(path) BY <3>2, KindsOfEntries
      <4>2. path \in Seq(Nat) BY OccupiedAreClaimed
      <4> QED BY <2>1, <4>1, <4>2, AncestorsAreAbove
    <3> QED BY <3>1, <3>2
  <2> QED BY <2>2, AncestorsHaveDirectories
<1>3. ASSUME NEW e \in Namespace, NEW f \in Namespace, IsAbove(e.path, f.path)
      PROVE  e.kind = "Directory"
  <2> SUFFICES ASSUME e.path \in Paths, Wins(e, e.path) PROVE e.kind = "Directory"
    BY KindsOfEntries
  <2>1. \E path \in Paths : IsAbove(e.path, path)
    <3>1. CASE f.path \in Paths BY <1>3, <3>1
    <3>2. CASE f.path \notin Paths
      <4>1. PICK path \in Paths : f.path \in AncestorPaths(path) BY <3>2, KindsOfEntries
      <4>2. path \in Seq(Nat) /\ e.path \in Seq(Nat) BY OccupiedAreClaimed
      <4>3. f.path \in Seq(Nat) /\ f.path # Root /\ IsAbove(f.path, path) /\ path # Root
        BY <4>1, <4>2, AncestorsAreAbove
      <4>4. IsAbove(e.path, path) BY <1>3, <4>2, <4>3, AboveIsTransitive
      <4> QED BY <4>4
    <3> QED BY <3>1, <3>2
  <2>2. \A i \in On(e.path) : claims[i].kind = "Directory" BY <2>1, FilesAreLeaves
  <2> QED BY <2>2 DEF Wins
<1>4. ASSUME NEW e \in Namespace
      PROVE  e.path \in Paths \/ \E path \in Paths : IsAbove(e.path, path)
  <2> SUFFICES ASSUME e.path \notin Paths PROVE \E path \in Paths : IsAbove(e.path, path)
    OBVIOUS
  <2>1. PICK path \in Paths : e.path \in AncestorPaths(path) BY KindsOfEntries
  <2>2. path \in Seq(Nat) BY OccupiedAreClaimed
  <2> QED BY <2>1, <2>2, AncestorsAreAbove
<1> QED BY <1>1, <1>2, <1>3, <1>4 DEF IsTree

LEMMA InvTree == PlanInv => NamespaceIsTree
<1> SUFFICES ASSUME PlanInv, IsCompiled PROVE IsTree(entries)
  BY DEF NamespaceIsTree, IsTree
<1>1. Compiles BY DEF Compiles, IsCompiled
<1>2. CASE entries = Namespace BY <1>1, <1>2, CompiledIsTree
<1>3. CASE entries = {Final(f) : f \in Namespace}
  <2>1. IsTree(Namespace) BY <1>1, CompiledIsTree
  <2>2. \A f : Final(f).path = f.path /\ Final(f).kind = f.kind BY FinalKeeps
  <2> HIDE DEF Final
  <2> QED BY <1>3, <2>1, <2>2 DEF IsTree
<1> QED BY <1>2, <1>3, EntriesOfNamespace

(* For all claims and priorities, the namespace is a tree of directories    *)
(* with files as its leaves, and nothing but what was claimed and what lies *)
(* above it.                                                                *)
THEOREM NamespaceTree == Spec => []NamespaceIsTree
<1> QED BY InvTree, PlanInvariant, PTL

-----------------------------------------------------------------------------
(* The names of a path.                                                    *)

LEMMA SequencesAreEqual ==
    ASSUME NEW S, NEW s \in Seq(S), NEW t \in Seq(S), Len(s) = Len(t),
           \A n \in 1 .. Len(s) : s[n] = t[n]
    PROVE  s = t
OBVIOUS

LEMMA ConcatenationIs ==
    ASSUME NEW S, NEW s \in Seq(S), NEW t \in Seq(S)
    PROVE  /\ s \o t \in Seq(S) /\ Len(s \o t) = Len(s) + Len(t)
           /\ \A n \in 1 .. Len(s) : (s \o t)[n] = s[n]
           /\ \A n \in 1 .. Len(t) : (s \o t)[Len(s) + n] = t[n]
OBVIOUS

(* A part of a sequence that lies in a part that is like another sequence. *)
LEMMA PartsAgree ==
    ASSUME NEW s \in Seq(Nat), NEW t \in Seq(Nat), NEW o \in Nat,
           o + Len(t) <= Len(s), \A n \in 1 .. Len(t) : s[o + n] = t[n],
           NEW i \in 1 .. Len(t) + 1, NEW j \in 0 .. Len(t),
           NEW k, NEW l, k = o + i, l = o + j
    PROVE  SubSeq(s, k, l) = SubSeq(t, i, j)
<1> DEFINE z == IF i <= j THEN j - i + 1 ELSE 0
           u == SubSeq(s, o + i, o + j)  v == SubSeq(t, i, j)
<1>1. Len(s) \in Nat /\ Len(t) \in Nat /\ z \in Nat OBVIOUS
<1>2. u \in Seq(Nat) /\ Len(u) = z /\ \A n \in 1 .. z : u[n] = s[o + i + n - 1]
  BY <1>1
<1>3. v \in Seq(Nat) /\ Len(v) = z /\ \A n \in 1 .. z : v[n] = t[i + n - 1]
  BY <1>1
<1> HIDE DEF u, v
<1>4. ASSUME NEW n \in 1 .. z PROVE u[n] = v[n]
  <2>1. i + n - 1 \in 1 .. Len(t) /\ o + i + n - 1 = o + (i + n - 1) BY <1>1
  <2> HIDE DEF z
  <2> QED BY <1>2, <1>3, <2>1
<1> HIDE DEF z
<1>5. u = v BY <1>1, <1>2, <1>3, <1>4, SequencesAreEqual
<1> QED BY <1>5 DEF u, v

Below(S, c) == {d \in S : d < c}

LEMMA BelowIsLess ==
    ASSUME NEW S \in SUBSET Nat, IsFiniteSet(S), NEW c \in S, NEW d \in S, c < d
    PROVE  /\ Cardinality(Below(S, c)) \in Nat /\ Cardinality(Below(S, d)) \in Nat
           /\ Cardinality(Below(S, c)) < Cardinality(Below(S, d))
<1>1. /\ Below(S, d) \in SUBSET S /\ Below(S, c) \in SUBSET Below(S, d)
      /\ c \in Below(S, d) /\ c \notin Below(S, c)
  <2>1. ASSUME NEW e \in S, e < c PROVE e < d
    <3>1. e \in Nat /\ c \in Nat /\ d \in Nat OBVIOUS
    <3> QED BY <2>1, <3>1
  <2>2. ~(c < c) OBVIOUS
  <2> QED BY <2>1, <2>2 DEF Below
<1>2. IsFiniteSet(Below(S, d)) BY <1>1, FS_Subset
<1>3. IsFiniteSet(Below(S, c)) /\ Cardinality(Below(S, c)) <= Cardinality(Below(S, d))
      /\ Cardinality(Below(S, c)) # Cardinality(Below(S, d))
  BY <1>1, <1>2, FS_Subset
<1>4. Cardinality(Below(S, c)) \in Nat /\ Cardinality(Below(S, d)) \in Nat
  BY <1>2, <1>3, FS_CardinalityType
<1> QED BY <1>3, <1>4

LEMMA BelowIsRank ==
    ASSUME NEW S \in SUBSET Nat, IsFiniteSet(S), NEW c \in S
    PROVE  Cardinality(Below(S, c)) \in 0 .. Cardinality(S) - 1
<1>1. Below(S, c) \in SUBSET S /\ c \notin Below(S, c) BY DEF Below
<1>2. /\ IsFiniteSet(Below(S, c)) /\ Cardinality(Below(S, c)) <= Cardinality(S)
      /\ Cardinality(Below(S, c)) # Cardinality(S)
  BY <1>1, FS_Subset
<1>3. Cardinality(Below(S, c)) \in Nat /\ Cardinality(S) \in Nat BY <1>2, FS_CardinalityType
<1> QED BY <1>2, <1>3

(* Of a finite set, every number below its size is the rank of an element,  *)
(* and of one only.                                                        *)
LEMMA RanksAreOnto ==
    ASSUME NEW S \in SUBSET Nat, IsFiniteSet(S), NEW n \in 1 .. Cardinality(S)
    PROVE  \E c \in S : Cardinality(Below(S, c)) = n - 1
<1> DEFINE N == Cardinality(S)
           f == [c \in S |-> Cardinality(Below(S, c))]
<1>1. N \in Nat BY FS_CardinalityType
<1>2. f \in [S -> 0 .. N - 1] BY BelowIsRank
<1>3. ASSUME NEW c \in S, NEW d \in S, f[c] = f[d] PROVE c = d
  <2>1. CASE c < d BY <1>3, <2>1, BelowIsLess
  <2>2. CASE d < c BY <1>3, <2>2, BelowIsLess
  <2> QED BY <2>1, <2>2
<1>4. f \in Injection(S, 0 .. N - 1)
  <2> HIDE DEF f
  <2> QED BY <1>2, <1>3 DEF Injection, IsInjective
<1>5. IsFiniteSet(0 .. N - 1) /\ Cardinality(0 .. N - 1) = N
  <2> HIDE DEF N
  <2> QED BY <1>1, FS_Interval
<1>6. f \in Surjection(S, 0 .. N - 1)
  <2> HIDE DEF f
  <2> QED BY <1>4, <1>5, FS_Injection
<1>7. n - 1 \in 0 .. N - 1 BY <1>1
<1>8. \E c \in S : f[c] = n - 1
  <2> HIDE DEF f, N
  <2> QED BY <1>6, <1>7 DEF Surjection
<1> QED BY <1>8

LEMMA RanksAreOne ==
    ASSUME NEW S \in SUBSET Nat, IsFiniteSet(S), NEW c \in S, NEW d \in S,
           Cardinality(Below(S, c)) = Cardinality(Below(S, d))
    PROVE  c = d
<1>1. CASE c < d BY <1>1, BelowIsLess
<1>2. CASE d < c BY <1>2, BelowIsLess
<1> QED BY <1>1, <1>2

(* Where a path is cut into its names.                                     *)
Cuts(path) == {0, Len(path) + 1} \union {k \in DOMAIN path : path[k] = Slash}
Cut(path, n) == CHOOSE c \in Cuts(path) : Cardinality({d \in Cuts(path) : d < c}) = n - 1
CutsOf(path) == Cardinality(Cuts(path))

LEMMA NamesAreCut ==
    ASSUME NEW path
    PROVE  Names(path) = [n \in 1 .. CutsOf(path) - 1 |->
                             SubSeq(path, Cut(path, n) + 1, Cut(path, n + 1) - 1)]
BY DEF Names, Cuts, Cut, CutsOf

LEMMA CutsAreFinite ==
    ASSUME NEW path \in Seq(Nat)
    PROVE  /\ Cuts(path) \in SUBSET (0 .. Len(path) + 1) /\ Cuts(path) \in SUBSET Nat
           /\ IsFiniteSet(Cuts(path)) /\ CutsOf(path) \in Nat \ {0, 1}
<1>1. Cuts(path) \in SUBSET (0 .. Len(path) + 1) BY DEF Cuts
<1>2. IsFiniteSet(0 .. Len(path) + 1) BY FS_Interval
<1>3. IsFiniteSet(Cuts(path)) BY <1>1, <1>2, FS_Subset
<1>4. CutsOf(path) \in Nat BY <1>3, FS_CardinalityType DEF CutsOf
<1>5. CutsOf(path) \notin {0, 1}
  <2>1. 0 \in Cuts(path) /\ Len(path) + 1 \in Cuts(path) /\ Len(path) + 1 # 0 BY DEF Cuts
  <2> HIDE DEF Cuts
  <2>2. CutsOf(path) # 0 BY <1>3, <2>1, FS_EmptySet DEF CutsOf
  <2>3. CutsOf(path) # 1 BY <1>3, <2>1, FS_Singleton DEF CutsOf
  <2> QED BY <2>2, <2>3
<1> QED BY <1>1, <1>3, <1>4, <1>5

LEMMA CutIsRanked ==
    ASSUME NEW path \in Seq(Nat), NEW n \in 1 .. CutsOf(path)
    PROVE  /\ Cut(path, n) \in Cuts(path)
           /\ Cardinality(Below(Cuts(path), Cut(path, n))) = n - 1
<1>1. \E c \in Cuts(path) : Cardinality(Below(Cuts(path), c)) = n - 1
  BY CutsAreFinite, RanksAreOnto DEF CutsOf
<1> QED BY <1>1 DEF Cut, Below

LEMMA CutIsTheOne ==
    ASSUME NEW path \in Seq(Nat), NEW n \in 1 .. CutsOf(path), NEW c \in Cuts(path),
           Cardinality(Below(Cuts(path), c)) = n - 1
    PROVE  Cut(path, n) = c
<1>1. Cut(path, n) \in Cuts(path) /\ Cardinality(Below(Cuts(path), Cut(path, n))) = n - 1
  BY CutIsRanked
<1>2. Cuts(path) \in SUBSET Nat /\ IsFiniteSet(Cuts(path)) BY CutsAreFinite
<1> QED BY <1>1, <1>2, RanksAreOne

LEMMA CutsAreInOrder ==
    ASSUME NEW path \in Seq(Nat), NEW m \in 1 .. CutsOf(path), NEW n \in 1 .. CutsOf(path),
           m < n
    PROVE  Cut(path, m) < Cut(path, n)
<1> DEFINE c == Cut(path, m)  d == Cut(path, n)
<1>1. /\ c \in Cuts(path) /\ Cardinality(Below(Cuts(path), c)) = m - 1
      /\ d \in Cuts(path) /\ Cardinality(Below(Cuts(path), d)) = n - 1
  BY CutIsRanked
<1>2. Cuts(path) \in SUBSET Nat /\ IsFiniteSet(Cuts(path)) BY CutsAreFinite
<1> HIDE DEF c, d
<1>3. c # d /\ c \in Nat /\ d \in Nat BY <1>1, <1>2
<1>4. ~(d < c)
  <2> SUFFICES ASSUME d < c PROVE FALSE OBVIOUS
  <2>1. Cardinality(Below(Cuts(path), d)) < Cardinality(Below(Cuts(path), c))
    BY <1>1, <1>2, BelowIsLess
  <2> QED BY <1>1, <2>1
<1>5. c < d BY <1>3, <1>4
<1> QED BY <1>5 DEF c, d

(* They begin before the path and end after it; between lie its slashes.   *)
LEMMA CutsAreSlashes ==
    ASSUME NEW path \in Seq(Nat)
    PROVE  /\ Cut(path, 1) = 0 /\ Cut(path, CutsOf(path)) = Len(path) + 1
           /\ \A n \in 2 .. CutsOf(path) - 1 :
                 Cut(path, n) \in 1 .. Len(path) /\ path[Cut(path, n)] = Slash
<1> DEFINE N == CutsOf(path)  S == Cuts(path)
<1>1. S \in SUBSET (0 .. Len(path) + 1) /\ IsFiniteSet(S) /\ N \in Nat \ {0, 1}
  BY CutsAreFinite
<1>2. 0 \in S /\ Len(path) + 1 \in S BY DEF Cuts
<1>3. Cut(path, 1) = 0
  <2>1. Below(S, 0) = {} BY <1>1 DEF Below
  <2>2. Cardinality(Below(S, 0)) = 0 BY <2>1, FS_EmptySet
  <2>3. Cardinality(Below(S, 0)) = 1 - 1 /\ 1 \in 1 .. N BY <1>1, <2>2
  <2> QED BY <1>2, <2>3, CutIsTheOne
<1>4. Cut(path, N) = Len(path) + 1
  <2>1. Below(S, Len(path) + 1) = S \ {Len(path) + 1} BY <1>1 DEF Below
  <2>2. Cardinality(Below(S, Len(path) + 1)) = N - 1
    BY <1>1, <1>2, <2>1, FS_RemoveElement DEF CutsOf
  <2>3. N \in 1 .. N BY <1>1
  <2> QED BY <1>1, <1>2, <2>2, <2>3, CutIsTheOne
<1>5. ASSUME NEW n \in 2 .. N - 1
      PROVE  Cut(path, n) \in 1 .. Len(path) /\ path[Cut(path, n)] = Slash
  <2>1. 1 \in 1 .. N /\ n \in 1 .. N /\ N \in 1 .. N /\ 1 < n /\ n < N BY <1>1, <1>5
  <2>2. Cut(path, n) \in S /\ Cut(path, 1) < Cut(path, n) /\ Cut(path, n) < Cut(path, N)
    BY <2>1, CutIsRanked, CutsAreInOrder
  <2>3. Cut(path, n) # 0 /\ Cut(path, n) # Len(path) + 1 BY <1>1, <1>3, <1>4, <2>2
  <2> QED BY <2>2, <2>3 DEF Cuts
<1> QED BY <1>3, <1>4, <1>5

LEMMA NamesAreNames ==
    ASSUME NEW path \in Seq(Nat)
    PROVE  /\ Names(path) \in Seq(Seq(Nat)) /\ Len(Names(path)) = CutsOf(path) - 1
           /\ CutsOf(path) - 1 \in Nat \ {0}
           /\ \A n \in 1 .. CutsOf(path) - 1 :
                 /\ Names(path)[n] = SubSeq(path, Cut(path, n) + 1, Cut(path, n + 1) - 1)
                 /\ Cut(path, n) \in 0 .. Len(path) /\ Cut(path, n + 1) \in 1 .. Len(path) + 1
                 /\ Cut(path, n) < Cut(path, n + 1)
<1> DEFINE N == CutsOf(path)
<1>1. N \in Nat \ {0, 1} /\ Cuts(path) \in SUBSET (0 .. Len(path) + 1) BY CutsAreFinite
<1>2. ASSUME NEW n \in 1 .. N - 1
      PROVE  /\ Cut(path, n) \in 0 .. Len(path) /\ Cut(path, n + 1) \in 1 .. Len(path) + 1
             /\ Cut(path, n) < Cut(path, n + 1)
  <2>1. n \in 1 .. N /\ n + 1 \in 1 .. N /\ n < n + 1 BY <1>1, <1>2
  <2>2. Cut(path, n) < Cut(path, n + 1) BY <2>1, CutsAreInOrder
  <2>3. Cut(path, n) \in 0 .. Len(path) + 1 /\ Cut(path, n + 1) \in 0 .. Len(path) + 1
    BY <1>1, <2>1, CutIsRanked
  <2> QED BY <2>2, <2>3
<1>3. ASSUME NEW n \in 1 .. N - 1
      PROVE  SubSeq(path, Cut(path, n) + 1, Cut(path, n + 1) - 1) \in Seq(Nat)
  BY <1>2, <1>3
<1>4. Names(path) = [n \in 1 .. N - 1 |->
                        SubSeq(path, Cut(path, n) + 1, Cut(path, n + 1) - 1)]
  BY NamesAreCut
<1> HIDE DEF N
<1>5. Names(path) \in Seq(Seq(Nat)) /\ Len(Names(path)) = N - 1
  <2>1. Names(path) \in [1 .. N - 1 -> Seq(Nat)] BY <1>3, <1>4
  <2>2. N - 1 \in Nat /\ DOMAIN Names(path) = 1 .. N - 1 BY <1>1, <1>4
  <2>3. Names(path) \in Seq(Seq(Nat)) BY <2>1, <2>2
  <2> QED BY <2>2, <2>3
<1>6. \A n \in 1 .. N - 1 :
         Names(path)[n] = SubSeq(path, Cut(path, n) + 1, Cut(path, n + 1) - 1)
  BY <1>4
<1>7. N - 1 \in Nat \ {0} BY <1>1
<1> QED BY <1>2, <1>5, <1>6, <1>7 DEF N
(* A path of two paths has the names of both.                              *)
Under(a, b) == a \o <<Slash>> \o b

LEMMA CutsOfTwo ==
    ASSUME NEW a \in Seq(Nat), NEW b \in Seq(Nat)
    PROVE  /\ Under(a, b) \in Seq(Nat) /\ Len(Under(a, b)) = Len(a) + 1 + Len(b)
           /\ \A k \in 1 .. Len(a) : Under(a, b)[k] = a[k]
           /\ Under(a, b)[Len(a) + 1] = Slash
           /\ \A k \in 1 .. Len(b) : Under(a, b)[Len(a) + 1 + k] = b[k]
           /\ Cuts(Under(a, b)) = Cuts(a) \union {Len(a) + 1 + c : c \in Cuts(b)}
<1> DEFINE path == Under(a, b)
<1>1. /\ path \in Seq(Nat) /\ Len(path) = Len(a) + 1 + Len(b)
      /\ \A k \in 1 .. Len(a) : path[k] = a[k]
      /\ path[Len(a) + 1] = Slash
      /\ \A k \in 1 .. Len(b) : path[Len(a) + 1 + k] = b[k]
  BY DEF Slash, Under
<1>2. /\ DOMAIN path = 1 .. Len(path) /\ DOMAIN a = 1 .. Len(a) /\ DOMAIN b = 1 .. Len(b)
      /\ Len(a) \in Nat /\ Len(b) \in Nat
  BY <1>1
<1>3. ASSUME NEW k \in Cuts(path)
      PROVE  k \in Cuts(a) \union {Len(a) + 1 + c : c \in Cuts(b)}
  <2>1. k = 0 \/ k = Len(path) + 1 \/ (k \in 1 .. Len(path) /\ path[k] = Slash)
    BY <1>2 DEF Cuts
  <2>2. CASE k = 0 BY <2>2 DEF Cuts
  <2>3. CASE k = Len(path) + 1
    <3>1. Len(b) + 1 \in Cuts(b) /\ k = Len(a) + 1 + (Len(b) + 1) BY <1>1, <1>2, <2>3 DEF Cuts
    <3> QED BY <3>1
  <2>4. CASE k \in 1 .. Len(path) /\ path[k] = Slash
    <3>1. CASE k <= Len(a) BY <1>1, <1>2, <2>4, <3>1 DEF Cuts
    <3>2. CASE k = Len(a) + 1 BY <3>2 DEF Cuts
    <3>3. CASE k > Len(a) + 1
      <4>1. k - Len(a) - 1 \in 1 .. Len(b) /\ k = Len(a) + 1 + (k - Len(a) - 1)
        BY <1>1, <1>2, <2>4, <3>3
      <4>2. b[k - Len(a) - 1] = Slash BY <1>1, <2>4, <4>1
      <4>3. k - Len(a) - 1 \in Cuts(b) BY <1>2, <4>1, <4>2 DEF Cuts
      <4> QED BY <4>1, <4>3
    <3> QED BY <1>2, <2>4, <3>1, <3>2, <3>3
  <2> QED BY <2>1, <2>2, <2>3, <2>4
<1>4. ASSUME NEW k \in Cuts(a) PROVE k \in Cuts(path)
  <2>1. k = 0 \/ k = Len(a) + 1 \/ (k \in 1 .. Len(a) /\ a[k] = Slash) BY <1>2 DEF Cuts
  <2> QED BY <1>1, <1>2, <2>1 DEF Cuts
<1>5. ASSUME NEW c \in Cuts(b) PROVE Len(a) + 1 + c \in Cuts(path)
  <2>1. c = 0 \/ c = Len(b) + 1 \/ (c \in 1 .. Len(b) /\ b[c] = Slash) BY <1>2 DEF Cuts
  <2>2. CASE c = 0
    <3>1. Len(a) + 1 + c = Len(a) + 1 /\ Len(a) + 1 \in 1 .. Len(path) BY <1>1, <1>2, <2>2
    <3> QED BY <1>1, <1>2, <3>1 DEF Cuts
  <2>3. CASE c = Len(b) + 1
    <3>1. Len(a) + 1 + c = Len(path) + 1 BY <1>1, <1>2, <2>3
    <3> QED BY <3>1 DEF Cuts
  <2>4. CASE c \in 1 .. Len(b) /\ b[c] = Slash
    <3>1. path[Len(a) + 1 + c] = Slash /\ Len(a) + 1 + c \in 1 .. Len(path)
      BY <1>1, <1>2, <2>4
    <3> QED BY <1>2, <3>1 DEF Cuts
  <2> QED BY <2>1, <2>2, <2>3, <2>4
<1>6. Cuts(path) = Cuts(a) \union {Len(a) + 1 + c : c \in Cuts(b)} BY <1>3, <1>4, <1>5
<1> QED BY <1>1, <1>6

LEMMA RanksOfTwo ==
    ASSUME NEW a \in Seq(Nat), NEW b \in Seq(Nat)
    PROVE  /\ \A c \in Cuts(a) : Below(Cuts(Under(a, b)), c) = Below(Cuts(a), c)
           /\ \A c \in Cuts(b) :
                 Cardinality(Below(Cuts(Under(a, b)), Len(a) + 1 + c))
                     = CutsOf(a) - 1 + Cardinality(Below(Cuts(b), c))
<1> DEFINE path == Under(a, b)
<1> DEFINE n == Len(a) + 1
<1>1. /\ Cuts(path) = Cuts(a) \union {n + c : c \in Cuts(b)}
      /\ Cuts(a) \in SUBSET (0 .. n) /\ Cuts(b) \in SUBSET Nat
      /\ IsFiniteSet(Cuts(a)) /\ IsFiniteSet(Cuts(b)) /\ CutsOf(a) \in Nat
      /\ n \in Nat /\ n \in Cuts(a)
  <2>1. n \in Cuts(a) BY DEF Cuts
  <2>2. Cuts(path) = Cuts(a) \union {n + c : c \in Cuts(b)} BY CutsOfTwo
  <2>3. /\ Cuts(a) \in SUBSET (0 .. n) /\ IsFiniteSet(Cuts(a)) /\ CutsOf(a) \in Nat
        /\ Cuts(b) \in SUBSET Nat /\ IsFiniteSet(Cuts(b))
    BY CutsAreFinite
  <2>4. n \in Nat OBVIOUS
  <2> QED BY <2>1, <2>2, <2>3, <2>4
<1> HIDE DEF n
<1>2. ASSUME NEW c \in Cuts(a) PROVE Below(Cuts(path), c) = Below(Cuts(a), c)
  <2>1. \A d \in Cuts(b) : ~(n + d < c) BY <1>1
  <2> QED BY <1>1, <2>1 DEF Below
<1>3. ASSUME NEW c \in Cuts(b)
      PROVE  Cardinality(Below(Cuts(path), n + c))
                 = CutsOf(a) - 1 + Cardinality(Below(Cuts(b), c))
  <2> DEFINE L == Cuts(a) \ {n}
             B == Below(Cuts(b), c)
             R == {n + d : d \in B}
  <2>1. Below(Cuts(path), n + c) = L \union R
    <3>1. \A d \in Cuts(b) : n + d < n + c <=> d < c BY <1>1
    <3>2. \A d \in Cuts(a) : d < n + c <=> (d # n \/ 0 < c) BY <1>1
    <3>3. 0 \in Cuts(b) BY DEF Cuts
    <3>4. ASSUME 0 < c PROVE n \in R
      <4>1. 0 \in B BY <3>3, <3>4 DEF Below
      <4>2. n + 0 \in R BY <4>1
      <4> QED BY <1>1, <4>2
    <3>5. ASSUME NEW d \in Below(Cuts(path), n + c) PROVE d \in L \union R
      <4>1. d \in Cuts(path) /\ d < n + c BY <3>5 DEF Below
      <4>2. CASE d \in Cuts(a) BY <3>2, <3>4, <4>1, <4>2
      <4>3. CASE d \in {n + e : e \in Cuts(b)} BY <3>1, <4>1, <4>3 DEF Below
      <4> QED BY <1>1, <4>1, <4>2, <4>3
    <3>6. ASSUME NEW d \in L PROVE d \in Below(Cuts(path), n + c)
      BY <1>1, <3>2, <3>6 DEF Below
    <3>7. ASSUME NEW d \in R PROVE d \in Below(Cuts(path), n + c)
      BY <1>1, <3>1, <3>7 DEF Below
    <3> QED BY <3>5, <3>6, <3>7
  <2>2. B \in SUBSET Nat /\ IsFiniteSet(B) /\ Cardinality(B) \in Nat
    <3>1. B \in SUBSET Cuts(b) BY DEF Below
    <3> HIDE DEF B
    <3> QED BY <1>1, <3>1, FS_Subset, FS_CardinalityType
  <2> HIDE DEF B
  <2>3. IsFiniteSet(R) /\ Cardinality(R) = Cardinality(B)
    <3> DEFINE f == [d \in B |-> n + d]
    <3>1. f \in Bijection(B, R)
      <4>1. f \in [B -> R] OBVIOUS
      <4>2. \A d, e \in B : f[d] = f[e] => d = e BY <1>1, <2>2
      <4>3. \A r \in R : \E d \in B : f[d] = r OBVIOUS
      <4> HIDE DEF f, R
      <4> QED BY <4>1, <4>2, <4>3 DEF Bijection, Injection, Surjection, IsInjective
    <3>2. ExistsBijection(B, R) BY <3>1 DEF ExistsBijection
    <3> HIDE DEF R
    <3> QED BY <2>2, <3>2, FS_Bijection
  <2>4. IsFiniteSet(L) /\ Cardinality(L) = CutsOf(a) - 1
    BY <1>1, FS_RemoveElement DEF CutsOf
  <2>5. L \intersect R = {} BY <1>1, <2>2
  <2> HIDE DEF L, R
  <2>6. Cardinality(L \intersect R) = 0 BY <2>5, FS_EmptySet
  <2>7. Cardinality(L \union R) = Cardinality(L) + Cardinality(R) - 0
    BY <2>3, <2>4, <2>6, FS_Union
  <2>8. Cardinality(L \union R) = CutsOf(a) - 1 + Cardinality(B)
    BY <1>1, <2>2, <2>3, <2>4, <2>7
  <2> QED BY <2>1, <2>8 DEF B
<1> QED BY <1>2, <1>3 DEF n
LEMMA NamesOfTwo ==
    ASSUME NEW a \in Seq(Nat), NEW b \in Seq(Nat)
    PROVE  Names(Under(a, b)) = Names(a) \o Names(b)
<1> DEFINE path == Under(a, b)
<1> DEFINE p == CutsOf(a) - 1  q == CutsOf(b) - 1  l == Len(a) + 1
<1>1. /\ path \in Seq(Nat) /\ Len(path) = Len(a) + 1 + Len(b)
      /\ \A k \in 1 .. Len(a) : path[k] = a[k]
      /\ \A k \in 1 .. Len(b) : path[Len(a) + 1 + k] = b[k]
      /\ Cuts(path) = Cuts(a) \union {Len(a) + 1 + c : c \in Cuts(b)}
  BY CutsOfTwo
<1>2. /\ CutsOf(a) = p + 1 /\ CutsOf(b) = q + 1 /\ p \in Nat \ {0} /\ q \in Nat \ {0}
      /\ Len(a) \in Nat /\ Len(b) \in Nat
      /\ CutsOf(path) \in Nat \ {0, 1} /\ l \in Nat
  BY <1>1, CutsAreFinite
<1>3. CutsOf(path) = p + q + 1
  <2>1. /\ Len(b) + 1 \in Cuts(b) /\ Len(a) + 1 + (Len(b) + 1) = Len(path) + 1
    BY <1>1, <1>2 DEF Cuts
  <2>2. Cardinality(Below(Cuts(path), Len(path) + 1))
            = CutsOf(a) - 1 + Cardinality(Below(Cuts(b), Len(b) + 1))
    BY <2>1, RanksOfTwo
  <2>3. Cardinality(Below(Cuts(path), Len(path) + 1)) = CutsOf(path) - 1
    <3>1. CutsOf(path) \in 1 .. CutsOf(path) BY <1>2
    <3>2. Cut(path, CutsOf(path)) = Len(path) + 1 BY <1>1, CutsAreSlashes
    <3> QED BY <1>1, <3>1, <3>2, CutIsRanked
  <2>4. Cardinality(Below(Cuts(b), Len(b) + 1)) = CutsOf(b) - 1
    BY <1>2, CutIsRanked, CutsAreSlashes
  <2> HIDE DEF p, q
  <2> QED BY <1>2, <2>2, <2>3, <2>4 DEF p, q
<1>4. ASSUME NEW n \in 1 .. p + 1 PROVE Cut(path, n) = Cut(a, n)
  <2>1. n \in 1 .. CutsOf(a) /\ n \in 1 .. CutsOf(path) BY <1>2, <1>3
  <2>2. Cut(a, n) \in Cuts(a) /\ Cardinality(Below(Cuts(a), Cut(a, n))) = n - 1
    BY <2>1, CutIsRanked
  <2>3. Cut(a, n) \in Cuts(path) /\ Cardinality(Below(Cuts(path), Cut(a, n))) = n - 1
    BY <1>1, <2>2, RanksOfTwo
  <2> QED BY <1>1, <2>1, <2>3, CutIsTheOne
<1>5. ASSUME NEW n \in 1 .. q + 1 PROVE Cut(path, p + n) = l + Cut(b, n)
  <2>1. n \in 1 .. CutsOf(b) /\ p + n \in 1 .. CutsOf(path) BY <1>2, <1>3
  <2>2. Cut(b, n) \in Cuts(b) /\ Cardinality(Below(Cuts(b), Cut(b, n))) = n - 1
    BY <2>1, CutIsRanked
  <2>3. Cardinality(Below(Cuts(path), l + Cut(b, n))) = p + (n - 1)
    BY <2>2, RanksOfTwo
  <2>4. l + Cut(b, n) \in Cuts(path) BY <1>1, <2>2
  <2>5. p + (n - 1) = (p + n) - 1 BY <1>2, <2>1
  <2> HIDE DEF p, q, l
  <2> QED BY <1>1, <2>1, <2>3, <2>4, <2>5, CutIsTheOne
<1> HIDE DEF p, q
<1>6. /\ Names(a) \in Seq(Seq(Nat)) /\ Len(Names(a)) = p
      /\ Names(b) \in Seq(Seq(Nat)) /\ Len(Names(b)) = q
      /\ Names(path) \in Seq(Seq(Nat)) /\ Len(Names(path)) = p + q
  <2>1. CutsOf(path) - 1 = p + q BY <1>2, <1>3
  <2> QED BY <1>1, <2>1, NamesAreNames DEF p, q
<1>7. ASSUME NEW n \in 1 .. p PROVE Names(path)[n] = Names(a)[n]
  <2>0. n \in 1 .. p + 1 /\ n + 1 \in 1 .. p + 1 /\ n \in 1 .. CutsOf(a) - 1
        /\ n \in 1 .. CutsOf(path) - 1
    BY <1>2, <1>3, <1>7
  <2> DEFINE c == Cut(a, n)  d == Cut(a, n + 1)
  <2>1. /\ Names(a)[n] = SubSeq(a, c + 1, d - 1)
        /\ c \in 0 .. Len(a) /\ d \in 1 .. Len(a) + 1
    BY <2>0, NamesAreNames
  <2>2. Names(path)[n] = SubSeq(path, c + 1, d - 1)
    <3>1. Names(path)[n] = SubSeq(path, Cut(path, n) + 1, Cut(path, n + 1) - 1)
      BY <1>1, <2>0, NamesAreNames
    <3>2. Cut(path, n) = Cut(a, n) /\ Cut(path, n + 1) = Cut(a, n + 1) BY <1>4, <2>0
    <3> QED BY <3>1, <3>2
  <2> HIDE DEF c, d
  <2>3. SubSeq(path, c + 1, d - 1) = SubSeq(a, c + 1, d - 1)
    <3>1. c + 1 \in 1 .. Len(a) + 1 /\ d - 1 \in 0 .. Len(a) /\ 0 + Len(a) <= Len(path)
      BY <1>1, <1>2, <2>1
    <3>2. ASSUME NEW k \in 1 .. Len(a) PROVE path[0 + k] = a[k]
      <4>1. 0 + k = k OBVIOUS
      <4> QED BY <1>1, <4>1
    <3> DEFINE i == c + 1  j == d - 1
    <3>3. i \in 1 .. Len(a) + 1 /\ j \in 0 .. Len(a) /\ i = 0 + i /\ j = 0 + j BY <3>1
    <3>4. path \in Seq(Nat) /\ 0 + Len(a) <= Len(path) BY <1>1, <3>1
    <3> HIDE DEF i, j, path
    <3>5. SubSeq(path, i, j) = SubSeq(a, i, j) BY <3>2, <3>3, <3>4, PartsAgree
    <3> QED BY <3>5 DEF i, j, path
  <2> QED BY <2>1, <2>2, <2>3
<1>8. ASSUME NEW n \in 1 .. q PROVE Names(path)[p + n] = Names(b)[n]
  <2>0. n \in 1 .. q + 1 /\ n + 1 \in 1 .. q + 1 /\ n \in 1 .. CutsOf(b) - 1
        /\ p + n \in 1 .. CutsOf(path) - 1 /\ p + (n + 1) = p + n + 1
    BY <1>2, <1>3, <1>8
  <2> DEFINE c == Cut(b, n)  d == Cut(b, n + 1)
  <2>1. /\ Names(b)[n] = SubSeq(b, c + 1, d - 1)
        /\ c \in 0 .. Len(b) /\ d \in 1 .. Len(b) + 1
    BY <2>0, NamesAreNames
  <2>2. Names(path)[p + n] = SubSeq(path, l + (c + 1), l + (d - 1))
    <3>1. Names(path)[p + n]
              = SubSeq(path, Cut(path, p + n) + 1, Cut(path, p + n + 1) - 1)
      BY <1>1, <2>0, NamesAreNames
    <3>2. Cut(path, p + n) = l + Cut(b, n) /\ Cut(path, p + n + 1) = l + Cut(b, n + 1)
      BY <1>5, <2>0
    <3>3. Cut(path, p + n) + 1 = l + (c + 1) /\ Cut(path, p + n + 1) - 1 = l + (d - 1)
      <4>1. c \in Nat /\ d \in Nat BY <1>2, <2>1
      <4> HIDE DEF c, d, l
      <4> QED BY <1>2, <3>2, <4>1 DEF c, d
    <3> QED BY <3>1, <3>3
  <2> HIDE DEF c, d
  <2>3. SubSeq(path, l + (c + 1), l + (d - 1)) = SubSeq(b, c + 1, d - 1)
    <3>1. /\ c + 1 \in 1 .. Len(b) + 1 /\ d - 1 \in 0 .. Len(b)
          /\ l + Len(b) <= Len(path)
      BY <1>1, <1>2, <2>1
    <3>2. \A k \in 1 .. Len(b) : path[l + k] = b[k] BY <1>1
    <3> DEFINE i == c + 1  j == d - 1  k == l + i  m == l + j
    <3>3. path \in Seq(Nat) BY <1>1
    <3>4. i \in 1 .. Len(b) + 1 /\ j \in 0 .. Len(b) /\ k = l + i /\ m = l + j BY <3>1
    <3> HIDE DEF i, j, k, m, l, path
    <3>6. l \in Nat /\ l + Len(b) <= Len(path) BY <1>2, <3>1
    <3>5. SubSeq(path, k, m) = SubSeq(b, i, j)
      BY ONLY <3>2, <3>3, <3>4, <3>6, b \in Seq(Nat), PartsAgree
    <3> QED BY <3>5 DEF i, j, k, m
  <2> QED BY <2>1, <2>2, <2>3
<1>9. /\ Names(a) \o Names(b) \in Seq(Seq(Nat)) /\ Len(Names(a) \o Names(b)) = p + q
      /\ \A n \in 1 .. p : (Names(a) \o Names(b))[n] = Names(a)[n]
      /\ \A n \in 1 .. q : (Names(a) \o Names(b))[p + n] = Names(b)[n]
  <2> DEFINE x == Names(a)  y == Names(b)
  <2> HIDE DEF x, y
  <2> DEFINE Paths0 == Seq(Nat)
  <2>1. x \in Seq(Paths0) /\ y \in Seq(Paths0) /\ Len(x) = p /\ Len(y) = q
    BY <1>6 DEF x, y
  <2> HIDE DEF Paths0
  <2>2. /\ x \o y \in Seq(Paths0) /\ Len(x \o y) = Len(x) + Len(y)
        /\ \A n \in 1 .. Len(x) : (x \o y)[n] = x[n]
        /\ \A n \in 1 .. Len(y) : (x \o y)[Len(x) + n] = y[n]
    <3>1. x \in Seq(Paths0) BY <2>1
    <3>2. y \in Seq(Paths0) BY <2>1
    <3> QED BY ONLY <3>1, <3>2, ConcatenationIs
  <2>3. /\ x \o y \in Seq(Paths0) /\ Len(x \o y) = p + q
        /\ \A n \in 1 .. p : (x \o y)[n] = x[n]
        /\ \A n \in 1 .. q : (x \o y)[p + n] = y[n]
    BY <2>1, <2>2
  <2> QED BY <2>3 DEF x, y, Paths0
<1>10. ASSUME NEW n \in 1 .. p + q PROVE Names(path)[n] = (Names(a) \o Names(b))[n]
  <2>1. CASE n <= p
    <3>1. n \in 1 .. p BY <1>2, <2>1
    <3> QED BY <1>7, <1>9, <3>1
  <2>2. CASE n > p
    <3>1. PICK m \in 1 .. q : n = p + m
      <4>1. n - p \in 1 .. q /\ n = p + (n - p) BY <1>2, <2>2
      <4> QED BY <4>1
    <3> QED BY <1>8, <1>9, <3>1, Zenon
  <2>3. n <= p \/ n > p BY <1>2
  <2> QED BY <2>1, <2>2, <2>3, Zenon
<1> QED BY <1>6, <1>9, <1>10, SequencesAreEqual

(* The sequences of names joined so far.                                   *)
IsJoining(u, names) ==
    u = [n \in DOMAIN names |->
            IF n = 1 THEN names[1] ELSE u[n - 1] \o <<Slash>> \o names[n]]

LEMMA JoiningExists ==
    ASSUME NEW names \in Seq(Seq(Nat)), names # <<>>
    PROVE  \E u : /\ IsJoining(u, names) /\ u \in [1 .. Len(names) -> Seq(Nat)]
                  /\ Joined(names) = u[Len(names)]
<1> DEFINE L == Len(names)
           Eq(f, n) == f = [k \in 1 .. n |->
                              IF k = 1 THEN names[1] ELSE f[k - 1] \o <<Slash>> \o names[k]]
           Missing == {n \in 0 .. L : ~\E f \in [1 .. n -> Seq(Nat)] : Eq(f, n)}
<1>0. L \in Nat \ {0} /\ DOMAIN names = 1 .. L /\ \A k \in 1 .. L : names[k] \in Seq(Nat)
  OBVIOUS
<1> HIDE DEF L
<1>1. Missing = {}
  <2> SUFFICES ASSUME Missing # {} PROVE FALSE OBVIOUS
  <2>1. PICK n \in Missing : \A m \in Missing : n <= m
    <3> HIDE DEF Eq
    <3>1. 0 .. L \subseteq Nat BY <1>0
    <3>2. Missing \subseteq 0 .. L BY Zenon
    <3> HIDE DEF Missing
    <3> QED BY <3>1, <3>2, LeastNatural
  <2>2. n # 0
    <3> SUFFICES \E f \in [1 .. 0 -> Seq(Nat)] : Eq(f, 0) OBVIOUS
    <3> DEFINE f == [k \in 1 .. 0 |-> <<>>]
    <3>1. f \in [1 .. 0 -> Seq(Nat)] OBVIOUS
    <3>2. Eq(f, 0) OBVIOUS
    <3> HIDE DEF f
    <3> QED BY <3>1, <3>2
  <2>3. n \in 1 .. L /\ n - 1 \in 0 .. L BY <1>0, <2>2
  <2>4. n - 1 \notin Missing
    <3> HIDE DEF Missing
    <3> QED BY <2>1, <2>3
  <2>5. PICK f \in [1 .. n - 1 -> Seq(Nat)] : Eq(f, n - 1) BY <2>3, <2>4
  <2> DEFINE g == [k \in 1 .. n |->
                      IF k < n THEN f[k]
                      ELSE IF k = 1 THEN names[1] ELSE f[k - 1] \o <<Slash>> \o names[k]]
  <2>6. g \in [1 .. n -> Seq(Nat)]
    <3> SUFFICES ASSUME NEW k \in 1 .. n PROVE g[k] \in Seq(Nat) OBVIOUS
    <3>1. CASE k < n BY <2>3, <3>1
    <3>2. CASE k = n /\ k = 1 BY <1>0, <2>3, <3>2
    <3>3. CASE k = n /\ k # 1
      <4>1. f[k - 1] \in Seq(Nat) /\ names[k] \in Seq(Nat) BY <1>0, <2>3, <3>3
      <4>2. g[k] = f[k - 1] \o <<Slash>> \o names[k]
        <5>1. ~(k < n) BY <2>3, <3>3
        <5> QED BY <3>3, <5>1, Zenon
      <4> HIDE DEF g
      <4> QED BY <4>1, <4>2 DEF Slash
    <3> QED BY <2>3, <3>1, <3>2, <3>3
  <2>7. ASSUME NEW k \in 1 .. n
        PROVE  g[k] = IF k = 1 THEN names[1] ELSE g[k - 1] \o <<Slash>> \o names[k]
    <3>1. k # 1 => k - 1 \in 1 .. n /\ k - 1 < n /\ g[k - 1] = f[k - 1] BY <2>3
    <3>2. CASE k < n
      <4>1. k \in 1 .. n - 1 BY <2>3, <3>2
      <4>2. f[k] = IF k = 1 THEN names[1] ELSE f[k - 1] \o <<Slash>> \o names[k]
        BY <2>5, <4>1
      <4>3. g[k] = f[k] BY <3>2
      <4> HIDE DEF g
      <4> QED BY <3>1, <4>2, <4>3
    <3>3. CASE k = n
      <4>1. g[k] = IF k = 1 THEN names[1] ELSE f[k - 1] \o <<Slash>> \o names[k]
        BY <2>3, <3>3
      <4> HIDE DEF g
      <4> QED BY <3>1, <4>1
    <3> QED BY <2>3, <3>2, <3>3
  <2>8. Eq(g, n)
    <3>1. g = [k \in 1 .. n |-> g[k]] BY <2>6
    <3> HIDE DEF g
    <3> QED BY <2>7, <3>1
  <2> HIDE DEF g, Eq
  <2> QED BY <2>1, <2>6, <2>8
<1>2. PICK f \in [1 .. L -> Seq(Nat)] : Eq(f, L)
  <2>1. L \in 0 .. L BY <1>0
  <2> HIDE DEF Eq
  <2> QED BY <1>1, <2>1
<1>3. IsJoining(f, names) BY <1>0, <1>2 DEF IsJoining
<1> DEFINE u == CHOOSE u : IsJoining(u, names)
<1>4. IsJoining(u, names) BY <1>3
<1>5. Joined(names) = u[L] BY DEF Joined, IsJoining, L
<1>6. u \in [1 .. L -> Seq(Nat)]
  <2> HIDE DEF u
  <2>1. u = [n \in 1 .. L |-> IF n = 1 THEN names[1] ELSE u[n - 1] \o <<Slash>> \o names[n]]
    BY <1>0, <1>4 DEF IsJoining
  <2>0. DOMAIN u = 1 .. L BY <2>1
  <2> DEFINE Bad == {n \in 1 .. L : u[n] \notin Seq(Nat)}
  <2>2. Bad = {}
    <3> SUFFICES ASSUME Bad # {} PROVE FALSE OBVIOUS
    <3>1. PICK n \in Bad : \A m \in Bad : n <= m
      <4>1. Bad \in SUBSET Nat BY <1>0
      <4> HIDE DEF Bad
      <4> QED BY <4>1, LeastNatural
    <3>2. u[n] = IF n = 1 THEN names[1] ELSE u[n - 1] \o <<Slash>> \o names[n] BY <2>1
    <3>3. names[n] \in Seq(Nat) /\ names[1] \in Seq(Nat) BY <1>0
    <3>4. n # 1 BY <3>2, <3>3
    <3>5. n - 1 \in 1 .. L /\ ~(n <= n - 1) BY <1>0, <3>4
    <3>6. u[n - 1] \in Seq(Nat) BY <3>1, <3>5
    <3>7. u[n - 1] \o <<Slash>> \o names[n] \in Seq(Nat) BY <3>3, <3>6 DEF Slash
    <3> QED BY <3>2, <3>4, <3>7
  <2>3. u = [n \in 1 .. L |-> u[n]] BY <2>1, <2>0
  <2> QED BY <2>2, <2>3
<1> HIDE DEF u
<1> QED BY <1>4, <1>5, <1>6 DEF L
(* Joining the names of a path gives it back.                              *)
LEMMA PiecesAreWhole ==
    ASSUME NEW s \in Seq(Nat), NEW c \in 1 .. Len(s), NEW d \in 1 .. Len(s) + 1, c < d
    PROVE  SubSeq(s, 1, c - 1) \o <<s[c]>> \o SubSeq(s, c + 1, d - 1) = SubSeq(s, 1, d - 1)
<1> DEFINE b == c - 1  e == d - 1
<1>1. /\ b \in 1 - 1 .. Len(s) /\ c \in b .. Len(s) /\ e \in c .. Len(s) /\ b + 1 = c
      /\ c \in 1 - 1 .. Len(s) /\ 1 \in 1 .. Len(s) + 1
  OBVIOUS
<1> HIDE DEF b, e
<1>2. SubSeq(s, 1, b) \o SubSeq(s, b + 1, c) = SubSeq(s, 1, c)
  BY ONLY <1>1, s \in Seq(Nat), ConcatAdjacentSubSeq
<1>3. SubSeq(s, 1, c) \o SubSeq(s, c + 1, e) = SubSeq(s, 1, e)
  BY ONLY <1>1, s \in Seq(Nat), ConcatAdjacentSubSeq
<1>4. SubSeq(s, c, c) = <<s[c]>>
  <2> DEFINE u == SubSeq(s, c, c)
  <2>1. c \in Nat /\ c <= Len(s) /\ c >= 1 OBVIOUS
  <2>3. u \in Seq(Nat) BY <2>1
  <2>4. Len(u) = c - c + 1 BY <2>1
  <2>5. u[1] = s[c + 1 - 1] BY <2>1, <2>4
  <2>6. Len(u) = 1 /\ u[1] = s[c] BY <2>1, <2>4, <2>5
  <2> HIDE DEF u
  <2>2. u = <<u[1]>> BY <2>3, <2>6
  <2> QED BY <2>6, <2>2 DEF u
<1> QED BY <1>1, <1>2, <1>3, <1>4 DEF b, e

LEMMA JoiningGoesOn ==
    ASSUME NEW names \in Seq(Seq(Nat)), NEW u, IsJoining(u, names)
    PROVE  /\ names # <<>> => u[1] = names[1]
           /\ \A n \in 2 .. Len(names) : u[n] = u[n - 1] \o <<Slash>> \o names[n]
<1>1. DOMAIN names = 1 .. Len(names) OBVIOUS
<1>2. \A n \in 1 .. Len(names) :
         u[n] = IF n = 1 THEN names[1] ELSE u[n - 1] \o <<Slash>> \o names[n]
  BY <1>1 DEF IsJoining
<1>3. \A n \in 2 .. Len(names) : n \in 1 .. Len(names) /\ n # 1 BY <1>1
<1>4. names # <<>> => 1 \in 1 .. Len(names) OBVIOUS
<1> QED BY <1>2, <1>3, <1>4, Zenon

LEMMA JoinedNames ==
    ASSUME NEW path \in Seq(Nat)
    PROVE  Joined(Names(path)) = path
<1> DEFINE names == Names(path)  L == CutsOf(path) - 1
           To(n) == SubSeq(path, 1, Cut(path, n + 1) - 1)
<1>1. /\ names \in Seq(Seq(Nat)) /\ Len(names) = L /\ L \in Nat \ {0}
      /\ \A n \in 1 .. L :
            /\ names[n] = SubSeq(path, Cut(path, n) + 1, Cut(path, n + 1) - 1)
            /\ Cut(path, n) \in 0 .. Len(path) /\ Cut(path, n + 1) \in 1 .. Len(path) + 1
            /\ Cut(path, n) < Cut(path, n + 1)
  BY NamesAreNames
<1>2. /\ Cut(path, 1) = 0 /\ Cut(path, L + 1) = Len(path) + 1
      /\ \A n \in 2 .. L : Cut(path, n) \in 1 .. Len(path) /\ path[Cut(path, n)] = Slash
  <2>1. CutsOf(path) = L + 1 BY CutsAreFinite
  <2> QED BY <2>1, CutsAreSlashes
<1> HIDE DEF names, L
<1>3. names # <<>> BY <1>1
<1>4. PICK u : IsJoining(u, names) /\ Joined(names) = u[L] BY <1>1, <1>3, JoiningExists
<1>5. /\ u[1] = names[1]
      /\ \A n \in 2 .. L : u[n] = u[n - 1] \o <<Slash>> \o names[n]
  BY <1>1, <1>3, <1>4, JoiningGoesOn
<1> DEFINE Bad == {n \in 1 .. L : u[n] # To(n)}
<1>6. Bad = {}
  <2> SUFFICES ASSUME Bad # {} PROVE FALSE OBVIOUS
  <2>1. PICK n \in Bad : \A m \in Bad : n <= m
    <3>1. Bad \in SUBSET Nat BY <1>1
    <3> HIDE DEF Bad
    <3> QED BY <3>1, LeastNatural
  <2>2. n # 1
    <3>1. 1 \in 1 .. L /\ 0 + 1 = 1 BY <1>1
    <3>2. u[1] = To(1) BY <1>1, <1>2, <1>5, <3>1
    <3> QED BY <3>2
  <2>3. n \in 2 .. L /\ n - 1 \in 1 .. L /\ n \in 1 .. L /\ (n - 1) + 1 = n /\ ~(n <= n - 1)
    BY <1>1, <2>2
  <2>4. u[n - 1] = To(n - 1) BY <2>1, <2>3
  <2> DEFINE c == Cut(path, n)  d == Cut(path, n + 1)
  <2>5. To(n - 1) = SubSeq(path, 1, c - 1) BY <2>3
  <2>6. /\ c \in 1 .. Len(path) /\ path[c] = Slash /\ d \in 1 .. Len(path) + 1 /\ c < d
        /\ names[n] = SubSeq(path, c + 1, d - 1)
    BY <1>1, <1>2, <2>3
  <2>7. u[n] = SubSeq(path, 1, c - 1) \o <<path[c]>> \o SubSeq(path, c + 1, d - 1)
    BY <1>5, <2>3, <2>4, <2>5, <2>6
  <2>8. To(n) = SubSeq(path, 1, d - 1) OBVIOUS
  <2>9. u[n] # To(n) OBVIOUS
  <2> HIDE DEF c, d, To
  <2> QED BY <2>6, <2>7, <2>8, <2>9, PiecesAreWhole
<1>7. u[L] = To(L)
  <2>1. L \in 1 .. L BY <1>1
  <2> QED BY <1>6, <2>1
<1>8. To(L) = SubSeq(path, 1, Len(path)) BY <1>2
<1>9. SubSeq(path, 1, Len(path)) = path OBVIOUS
<1> QED BY <1>4, <1>7, <1>8, <1>9 DEF names

LEMMA UnderIsPath ==
    ASSUME NEW a \in Seq(Nat), NEW b \in Seq(Nat)
    PROVE  Under(a, b) \in Seq(Nat)
BY DEF Under, Slash

LEMMA ConcatenationsAssociate ==
    ASSUME NEW x \in Seq(Nat), NEW y \in Seq(Nat), NEW z \in Seq(Nat)
    PROVE  (x \o y) \o z = x \o (y \o z)
OBVIOUS

LEMMA UnderIsUnder ==
    ASSUME NEW a \in Seq(Nat), NEW b \in Seq(Nat), NEW c \in Seq(Nat)
    PROVE  Under(Under(a, b), c) = Under(a, Under(b, c))
<1> DEFINE s == <<Slash>>  x == a \o s  xb == x \o b  bs == b \o s
<1>1. s \in Seq(Nat) BY DEF Slash
<1> HIDE DEF s
<1>2. x \in Seq(Nat) /\ bs \in Seq(Nat) BY <1>1
<1> HIDE DEF x, bs
<1>3. xb \o s = x \o bs
  <2>0. x \in Seq(Nat) BY <1>2
  <2>3. b \in Seq(Nat) OBVIOUS
  <2>1. (x \o b) \o s = x \o (b \o s) BY ONLY <1>1, <2>0, <2>3
  <2> QED BY <2>1 DEF bs
<1>4. (x \o bs) \o c = x \o (bs \o c) BY <1>2, ConcatenationsAssociate
<1>5. Under(Under(a, b), c) = (xb \o s) \o c /\ Under(a, Under(b, c)) = x \o (bs \o c)
  BY DEF Under, s, x, bs
<1> HIDE DEF xb
<1> QED BY <1>3, <1>4, <1>5

(* What joins the first names of several is where what joins all of them    *)
(* begins, up to a slash.                                                  *)
LEMMA JoinedBegin ==
    ASSUME NEW names \in Seq(Seq(Nat)), NEW m \in 1 .. Len(names) - 1
    PROVE  \E rest \in Seq(Nat) : Joined(names) = Under(Joined(SubSeq(names, 1, m)), rest)
<1> DEFINE L == Len(names)  first == SubSeq(names, 1, m)
<1>1. /\ L \in Nat /\ first \in Seq(Seq(Nat)) /\ Len(first) = m /\ m \in 1 .. L
      /\ \A k \in 1 .. m : first[k] = names[k]
  OBVIOUS
<1>2. names # <<>> /\ first # <<>>
  <2>1. L # 0 /\ m # 0 BY <1>1
  <2>2. Len(<<>>) = 0 OBVIOUS
  <2> HIDE DEF first
  <2> QED BY <1>1, <2>1, <2>2
<1>3. \A k \in 1 .. L : names[k] \in Seq(Nat) OBVIOUS
<1> HIDE DEF L, first
<1>4. PICK u : IsJoining(u, names) /\ u \in [1 .. L -> Seq(Nat)] /\ Joined(names) = u[L]
  BY <1>2, JoiningExists DEF L
<1>5. PICK v : IsJoining(v, first) /\ v \in [1 .. m -> Seq(Nat)] /\ Joined(first) = v[m]
  BY <1>1, <1>2, JoiningExists
<1>6. u[1] = names[1] /\ \A n \in 2 .. L : u[n] = u[n - 1] \o <<Slash>> \o names[n]
  BY <1>2, <1>4, JoiningGoesOn DEF L
<1>7. v[1] = first[1] /\ \A n \in 2 .. m : v[n] = v[n - 1] \o <<Slash>> \o first[n]
  BY <1>1, <1>2, <1>5, JoiningGoesOn
<1>8. v[m] = u[m]
  <2> DEFINE Bad == {n \in 1 .. m : v[n] # u[n]}
  <2>1. Bad = {}
    <3> SUFFICES ASSUME Bad # {} PROVE FALSE OBVIOUS
    <3>1. PICK n \in Bad : \A k \in Bad : n <= k
      <4>1. Bad \in SUBSET Nat BY <1>1
      <4> HIDE DEF Bad
      <4> QED BY <4>1, LeastNatural
    <3>2. n # 1
      <4>1. 1 \in 1 .. m BY <1>1
      <4>2. v[1] = u[1] BY <1>1, <1>6, <1>7, <4>1
      <4> QED BY <4>2
    <3>3. n \in 2 .. m /\ n \in 2 .. L /\ n - 1 \in 1 .. m /\ ~(n <= n - 1) /\ n \in 1 .. m
      BY <1>1, <3>2
    <3>4. v[n - 1] = u[n - 1] /\ first[n] = names[n] BY <1>1, <3>1, <3>3
    <3>5. v[n] = v[n - 1] \o <<Slash>> \o first[n] BY <1>7, <3>3, Zenon
    <3>6. u[n] = u[n - 1] \o <<Slash>> \o names[n] BY <1>6, <3>3, Zenon
    <3>7. v[n] = u[n] BY <3>4, <3>5, <3>6
    <3> QED BY <3>7
  <2>2. m \in 1 .. m BY <1>1
  <2> QED BY <2>1, <2>2
<1> DEFINE Begins(n) == \E rest \in Seq(Nat) : u[n] = Under(u[m], rest)
           Off == {n \in m + 1 .. L : ~Begins(n)}
<1>9. Off = {}
  <2> SUFFICES ASSUME Off # {} PROVE FALSE OBVIOUS
  <2>1. PICK n \in Off : \A k \in Off : n <= k
    <3>1. m + 1 .. L \subseteq Nat BY <1>1
    <3>2. Off \subseteq m + 1 .. L OBVIOUS
    <3> HIDE DEF Off
    <3> QED BY <3>1, <3>2, LeastNatural
  <2>2. n \in m + 1 .. L /\ ~Begins(n) OBVIOUS
  <2>3. /\ n \in 2 .. L /\ n - 1 \in 1 .. L /\ n \in 1 .. L /\ ~(n <= n - 1)
        /\ n - 1 = m \/ n - 1 \in m + 1 .. L
    BY <1>1, <2>2
  <2>4. u[n] = Under(u[n - 1], names[n])
    <3>1. u[n] = u[n - 1] \o <<Slash>> \o names[n] BY <1>6, <2>3, Zenon
    <3> QED BY <3>1 DEF Under
  <2>5. u[m] \in Seq(Nat) /\ u[n - 1] \in Seq(Nat) /\ names[n] \in Seq(Nat)
    BY <1>1, <1>3, <1>4, <2>3
  <2>6. CASE n - 1 = m
    <3>1. u[n] = Under(u[m], names[n]) BY <2>4, <2>6
    <3> QED BY <2>2, <2>5, <3>1
  <2>7. CASE n - 1 \in m + 1 .. L
    <3>1. Begins(n - 1)
      <4> HIDE DEF Begins
      <4> QED BY <2>1, <2>3, <2>7
    <3>2. PICK rest \in Seq(Nat) : u[n - 1] = Under(u[m], rest) BY <3>1
    <3>3. u[n] = Under(u[m], Under(rest, names[n]))
      <4>1. Under(Under(u[m], rest), names[n]) = Under(u[m], Under(rest, names[n]))
        BY <2>5, UnderIsUnder
      <4> QED BY <2>4, <3>2, <4>1
    <3>4. Under(rest, names[n]) \in Seq(Nat) BY <2>5, UnderIsPath
    <3> QED BY <2>2, <3>3, <3>4
  <2> QED BY <2>3, <2>6, <2>7
<1>10. L \in m + 1 .. L BY <1>1 DEF L
<1>11. Begins(L)
  <2> HIDE DEF Begins
  <2> QED BY <1>9, <1>10
<1> QED BY <1>4, <1>5, <1>8, <1>11 DEF first

(* Starting with the names of a root is being that root or a path under it.*)
LEMMA StartsWithAny ==
    ASSUME NEW S, NEW path \in Seq(S), NEW prefix \in Seq(S)
    PROVE  starts_with(path, prefix) <=>
             Len(prefix) <= Len(path) /\ prefix = SubSeq(path, 1, Len(prefix))
<1>1. SubSeq(prefix, 1, Len(prefix)) = prefix OBVIOUS
<1> QED BY <1>1 DEF starts_with, IsPrefix

LEMMA BelowIsUnder ==
    ASSUME NEW path \in Seq(Nat), NEW root \in Seq(Nat)
    PROVE  IsBelow(path, root) <=>
             /\ SubSeq(path, Len(root) + 2, Len(path)) \in Seq(Nat)
             /\ path = Under(root, SubSeq(path, Len(root) + 2, Len(path)))
<1> DEFINE n == Len(root)  rest == SubSeq(path, n + 2, Len(path))
<1>1. n \in Nat /\ Len(path) \in Nat OBVIOUS
<1>2. ASSUME IsBelow(path, root) PROVE rest \in Seq(Nat) /\ path = Under(root, rest)
  <2>1. /\ Len(path) > n /\ path[n + 1] = Slash
        /\ \A k \in 1 .. n : root[k] = path[k]
    BY <1>2, StartsWith DEF IsBelow
  <2>2. /\ rest \in Seq(Nat) /\ Len(rest) = Len(path) - n - 1
        /\ \A k \in 1 .. Len(path) - n - 1 : rest[k] = path[n + 1 + k]
    <3>1. n + 2 \in 1 .. Len(path) + 1 BY <1>1, <2>1
    <3> HIDE DEF n
    <3> QED BY <1>1, <2>1, <3>1
  <2> HIDE DEF rest
  <2>3. /\ Under(root, rest) \in Seq(Nat) /\ Len(Under(root, rest)) = n + 1 + Len(rest)
        /\ \A k \in 1 .. n : Under(root, rest)[k] = root[k]
        /\ Under(root, rest)[n + 1] = Slash
        /\ \A k \in 1 .. Len(rest) : Under(root, rest)[n + 1 + k] = rest[k]
    BY <2>2, CutsOfTwo
  <2> HIDE DEF n
  <2>4. ASSUME NEW k \in 1 .. Len(path) PROVE path[k] = Under(root, rest)[k]
    <3>1. CASE k <= n
      <4>1. k \in 1 .. n BY <1>1, <3>1
      <4> QED BY <2>1, <2>3, <4>1
    <3>2. CASE k = n + 1 BY <2>1, <2>3, <3>2
    <3>3. CASE k > n + 1
      <4>1. PICK j \in 1 .. Len(path) - n - 1 : k = n + 1 + j
        <5>1. k - n - 1 \in 1 .. Len(path) - n - 1 /\ k = n + 1 + (k - n - 1) BY <1>1, <3>3
        <5> QED BY <5>1
      <4>2. rest[j] = path[n + 1 + j] BY <2>2
      <4>3. Under(root, rest)[n + 1 + j] = rest[j] BY <2>2, <2>3
      <4> QED BY <4>1, <4>2, <4>3
    <3>4. k <= n \/ k = n + 1 \/ k > n + 1 BY <1>1
    <3> QED BY <3>1, <3>2, <3>3, <3>4
  <2>5. Len(path) = Len(Under(root, rest)) BY <1>1, <2>2, <2>3
  <2>6. path = Under(root, rest) BY <2>3, <2>4, <2>5, SequencesAreEqual
  <2> QED BY <2>2, <2>6
<1>3. ASSUME rest \in Seq(Nat), path = Under(root, rest) PROVE IsBelow(path, root)
  <2>1. /\ Len(path) = n + 1 + Len(rest) /\ path[n + 1] = Slash
        /\ \A k \in 1 .. n : path[k] = root[k]
    <3> HIDE DEF rest
    <3>1. /\ Len(Under(root, rest)) = n + 1 + Len(rest) /\ Under(root, rest)[n + 1] = Slash
          /\ \A k \in 1 .. n : Under(root, rest)[k] = root[k]
      BY <1>3, CutsOfTwo
    <3> QED BY <1>3, <3>1
  <2>2. Len(rest) \in Nat BY <1>3
  <2> HIDE DEF rest
  <2>3. Len(path) > n /\ n <= Len(path) BY <1>1, <2>1, <2>2
  <2>4. starts_with(path, root) BY <2>1, <2>3, StartsWith
  <2> QED BY <2>1, <2>3, <2>4 DEF IsBelow
<1> QED BY <1>2, <1>3

(* What is left of a path under a root.                                    *)
LEMMA RestOfUnder ==
    ASSUME NEW a \in Seq(Nat), NEW b \in Seq(Nat)
    PROVE  SubSeq(Under(a, b), Len(a) + 2, Len(Under(a, b))) = b
<1> DEFINE s == Under(a, b)  l == Len(a) + 1  n == Len(b)
<1>1. /\ s \in Seq(Nat) /\ Len(s) = l + n /\ l \in Nat /\ n \in Nat
  <2>1. Under(a, b) \in Seq(Nat) BY CutsOfTwo
  <2>2. Len(Under(a, b)) = Len(a) + 1 + Len(b) BY CutsOfTwo
  <2> QED BY <2>1, <2>2
<1>2. \A j \in 1 .. Len(b) : s[l + j] = b[j] BY CutsOfTwo
<1>3. SubSeq(b, 1, n) = b OBVIOUS
<1>4. Len(a) + 2 = l + 1 OBVIOUS
<1> HIDE DEF s, l
<1>5. l + Len(b) <= Len(s) /\ 1 \in 1 .. Len(b) + 1 /\ n \in 0 .. Len(b) BY <1>1
<1> DEFINE k == l + 1  m == l + n
<1>6. k = l + 1 /\ m = l + n OBVIOUS
<1> HIDE DEF k, m, n
<1>7. SubSeq(s, k, m) = SubSeq(b, 1, n)
  BY ONLY <1>1, <1>2, <1>5, <1>6, b \in Seq(Nat), PartsAgree
<1>8. Len(s) = m /\ Len(a) + 2 = k BY <1>1, <1>4, <1>6
<1> QED BY <1>3, <1>7, <1>8 DEF s

LEMMA NamesBegin ==
    ASSUME NEW path \in Seq(Nat), NEW root \in Seq(Nat)
    PROVE  starts_with(Names(path), Names(root)) <=> path = root \/ IsBelow(path, root)
<1> DEFINE x == Names(path)  y == Names(root)
<1>1. /\ x \in Seq(Seq(Nat)) /\ y \in Seq(Seq(Nat)) /\ Len(x) \in Nat \ {0}
      /\ Len(y) \in Nat \ {0}
      /\ Joined(x) = path /\ Joined(y) = root
  BY NamesAreNames, JoinedNames
<1>2. ASSUME starts_with(x, y) PROVE path = root \/ IsBelow(path, root)
  <2> HIDE DEF x, y
  <2>1. Len(y) <= Len(x) /\ y = SubSeq(x, 1, Len(y)) BY <1>1, <1>2, StartsWithAny
  <2>2. CASE Len(y) = Len(x)
    <3>1. SubSeq(x, 1, Len(x)) = x BY <1>1
    <3>2. y = x BY <2>1, <2>2, <3>1
    <3> QED BY <1>1, <3>2
  <2>3. CASE Len(y) # Len(x)
    <3>1. Len(y) \in 1 .. Len(x) - 1 BY <1>1, <2>1, <2>3
    <3>2. PICK rest \in Seq(Nat) : Joined(x) = Under(Joined(SubSeq(x, 1, Len(y))), rest)
      BY <1>1, <3>1, JoinedBegin
    <3>3. path = Under(root, rest) BY <1>1, <2>1, <3>2
    <3>4. SubSeq(path, Len(root) + 2, Len(path)) = rest BY <3>3, RestOfUnder
    <3> QED BY <3>3, <3>4, BelowIsUnder
  <2> QED BY <2>2, <2>3
<1>3. ASSUME path = root PROVE starts_with(x, y)
  <2>1. x = y BY <1>3
  <2> HIDE DEF x, y
  <2>2. SubSeq(y, 1, Len(y)) = y BY <1>1
  <2> QED BY <1>1, <2>1, <2>2, StartsWithAny
<1>4. ASSUME IsBelow(path, root) PROVE starts_with(x, y)
  <2> DEFINE rest == SubSeq(path, Len(root) + 2, Len(path))  z == Names(rest)
  <2>1. rest \in Seq(Nat) /\ path = Under(root, rest) BY <1>4, BelowIsUnder
  <2> HIDE DEF rest
  <2>2. x = y \o z BY <2>1, NamesOfTwo
  <2>3. z \in Seq(Seq(Nat)) BY <2>1, NamesAreNames
  <2> HIDE DEF x, y, z
  <2>4. Len(x) = Len(y) + Len(z) /\ Len(z) \in Nat /\ SubSeq(x, 1, Len(y)) = y
    <3>1. Len(y) \in 1 .. Len(y) /\ 1 \in 1 .. Len(y) BY <1>1
    <3>2. SubSeq(y \o z, 1, Len(y)) = SubSeq(y, 1, Len(y))
      BY <1>1, <2>3, <3>1, SubSeqOfConcat1
    <3>3. SubSeq(y, 1, Len(y)) = y BY <1>1
    <3>4. Len(y \o z) = Len(y) + Len(z) BY <1>1, <2>3
    <3>5. Len(z) \in Nat BY <2>3
    <3> QED BY <2>2, <3>2, <3>3, <3>4, <3>5
  <2>5. Len(y) <= Len(x) BY <1>1, <2>4
  <2>6. x \in Seq(Seq(Nat)) /\ y \in Seq(Seq(Nat)) BY <1>1
  <2> QED BY ONLY <2>4, <2>5, <2>6, StartsWithAny
<1> QED BY <1>2, <1>3, <1>4

LEMMA RestOfConcatenation ==
    ASSUME NEW S, NEW s \in Seq(S), NEW t \in Seq(S)
    PROVE  SubSeq(s \o t, Len(s) + 1, Len(s \o t)) = t
OBVIOUS

(* Where a mapping takes a path, said with names.                          *)
LEMMA MapsByNames ==
    ASSUME NEW mapping \in RootMappings, NEW path \in Seq(Nat)
    PROVE  LET root == mapping.package_root IN
           /\ root # Root /\ starts_with(Names(path), Names(root)) =>
                 map(mapping, path) = {Replaced(mapping, path)}
           /\ ~(root # Root /\ starts_with(Names(path), Names(root))) => map(mapping, path) = {}
<1> DEFINE root == mapping.package_root  game == mapping.game_root
           names == Names(path)
           rest == SubSeq(path, Len(root) + 2, Len(path))
           kept == SubSeq(names, Len(Names(root)) + 1, Len(names))
<1>1. root \in Seq(Nat) /\ game \in Seq(Nat) BY DEF RootMappings
<1>2. starts_with(Names(path), Names(root)) <=> path = root \/ IsBelow(path, root)
  BY <1>1, NamesBegin
<1>3. Replaced(mapping, path) = Joined(NamesOf(game) \o kept) BY DEF Replaced
<1>4. map(mapping, path)
        = IF root = Root THEN {}
          ELSE IF path = root THEN {game}
          ELSE IF ~IsBelow(path, root) THEN {}
          ELSE IF game = Root THEN {rest}
          ELSE {Under(game, rest)}
  BY DEF map, Under
<1>5. names \in Seq(Seq(Nat)) /\ Names(root) \in Seq(Seq(Nat)) /\ Names(game) \in Seq(Seq(Nat))
  BY <1>1, NamesAreNames
<1>6. NamesOf(game) \in Seq(Seq(Nat)) /\ Joined(NamesOf(game)) = game
  <2>1. CASE game = Root
    <3>1. NamesOf(game) = <<>> BY <2>1 DEF NamesOf
    <3>2. Joined(<<>>) = Root BY DEF Joined
    <3> QED BY <2>1, <3>1, <3>2
  <2>2. CASE game # Root
    <3>1. NamesOf(game) = Names(game) BY <2>2 DEF NamesOf
    <3> QED BY <1>1, <1>5, <3>1, JoinedNames
  <2> QED BY <2>1, <2>2
<1>7. ASSUME path = root PROVE Replaced(mapping, path) = game
  <2>1. names = Names(root) BY <1>7
  <2> HIDE DEF names
  <2>2. SubSeq(names, Len(names) + 1, Len(names)) = <<>> BY <1>5
  <2>3. kept = <<>> BY <2>1, <2>2
  <2> HIDE DEF kept
  <2> DEFINE g == NamesOf(game)
  <2>4. g \in Seq(Seq(Nat)) BY <1>6
  <2> HIDE DEF g
  <2>5. g \o <<>> = g BY <2>4
  <2> QED BY <1>3, <1>6, <2>3, <2>5 DEF g
<1>8. ASSUME IsBelow(path, root)
      PROVE  Replaced(mapping, path) = IF game = Root THEN rest ELSE Under(game, rest)
  <2>1. rest \in Seq(Nat) /\ path = Under(root, rest) BY <1>1, <1>8, BelowIsUnder
  <2> HIDE DEF rest
  <2> DEFINE r == Names(root)  t == Names(rest)
  <2>2. names = r \o t BY <1>1, <2>1, NamesOfTwo
  <2>3. r \in Seq(Seq(Nat)) /\ t \in Seq(Seq(Nat)) BY <1>5, <2>1, NamesAreNames
  <2>4. kept = t
    <3> HIDE DEF names, r, t
    <3>1. SubSeq(r \o t, Len(r) + 1, Len(r \o t)) = t BY <2>3, RestOfConcatenation
    <3> QED BY <2>2, <3>1 DEF r
  <2> HIDE DEF kept
  <2>5. CASE game = Root
    <3>1. NamesOf(game) = <<>> BY <2>5 DEF NamesOf
    <3>2. <<>> \o t = t
      <4> HIDE DEF t
      <4> QED BY <2>3
    <3>3. Joined(t) = rest BY <2>1, JoinedNames
    <3> QED BY <1>3, <2>4, <2>5, <3>1, <3>2, <3>3
  <2>6. CASE game # Root
    <3>1. NamesOf(game) = Names(game) BY <2>6 DEF NamesOf
    <3>2. Names(game) \o t = Names(Under(game, rest)) BY <1>1, <2>1, NamesOfTwo
    <3>3. Joined(Names(Under(game, rest))) = Under(game, rest)
      BY <1>1, <2>1, UnderIsPath, JoinedNames
    <3> QED BY <1>3, <2>4, <2>6, <3>1, <3>2, <3>3
  <2> QED BY <2>5, <2>6
<1> HIDE DEF rest
<1>9. CASE root # Root /\ starts_with(Names(path), Names(root))
  <2>1. CASE path = root BY <1>4, <1>7, <1>9, <2>1
  <2>2. CASE path # root /\ IsBelow(path, root) BY <1>4, <1>8, <1>9, <2>2
  <2> QED BY <1>2, <1>9, <2>1, <2>2
<1>10. CASE ~(root # Root /\ starts_with(Names(path), Names(root)))
  <2>1. map(mapping, path) = {} BY <1>2, <1>4, <1>10
  <2> QED BY <1>10, <2>1
<1> QED BY <1>9, <1>10

LEMMA RootsAreThoseApplying ==
    ASSUME NEW plan \in AllPlans, NEW path \in Seq(Nat)
    PROVE  /\ RootsOver(plan, path) = Applying(plan, path)
           /\ IsFiniteSet(RootsOver(plan, path))
           /\ \A k \in Applying(plan, path) :
                 map(plan.mappings[k], path) = {Replaced(plan.mappings[k], path)}
<1>1. /\ plan.mappings \in Seq(RootMappings)
      /\ DOMAIN plan.mappings = 1 .. Len(plan.mappings) /\ Len(plan.mappings) \in Nat
  BY DEF AllPlans, Plans
<1>2. \A k \in DOMAIN plan.mappings : plan.mappings[k] \in RootMappings BY <1>1
<1>3. ASSUME NEW k \in DOMAIN plan.mappings
      PROVE  /\ k \in RootsOver(plan, path) <=> map(plan.mappings[k], path) # {}
             /\ k \in RootsOver(plan, path) =>
                   map(plan.mappings[k], path) = {Replaced(plan.mappings[k], path)}
  <2> DEFINE mapping == plan.mappings[k]
  <2>1. mapping \in RootMappings BY <1>2
  <2>2. k \in RootsOver(plan, path) <=>
           mapping.package_root # Root /\ starts_with(Names(path), Names(mapping.package_root))
    BY DEF RootsOver
  <2> HIDE DEF mapping
  <2>3. /\ k \in RootsOver(plan, path) => map(mapping, path) = {Replaced(mapping, path)}
        /\ ~(k \in RootsOver(plan, path)) => map(mapping, path) = {}
    BY <2>1, <2>2, MapsByNames
  <2> QED BY <2>3 DEF mapping
<1>4. RootsOver(plan, path) \subseteq DOMAIN plan.mappings BY DEF RootsOver
<1>5. RootsOver(plan, path) = Applying(plan, path) BY <1>3, <1>4 DEF Applying
<1>6. IsFiniteSet(1 .. Len(plan.mappings)) BY <1>1, FS_Interval
<1>7. IsFiniteSet(RootsOver(plan, path)) BY <1>1, <1>4, <1>6, FS_Subset
<1> QED BY <1>3, <1>4, <1>5, <1>7

LEMMA FaultsHaveNotOneRoot ==
    ASSUME NEW plan \in AllPlans, NEW e \in DOMAIN plan.entries
    PROVE  /\ plan.entries[e].path \in Seq(Nat)
           /\ e \in MappingFaults(plan)
                 <=> Cardinality(RootsOver(plan, plan.entries[e].path)) # 1
<1> DEFINE path == plan.entries[e].path
<1>1. path \in Seq(Nat)
  <2>1. plan.entries[e] \in LayoutEntries BY DEF AllPlans, Plans
  <2> QED BY <2>1 DEF LayoutEntries
<1> DEFINE A == Applying(plan, path)
<1>2. RootsOver(plan, path) = A /\ IsFiniteSet(A) BY <1>1, RootsAreThoseApplying
<1>3. Cardinality(A) = 1 <=> \E x : A = {x} BY <1>2, FS_Singleton
<1>4. e \in MappingFaults(plan) <=> (A = {} \/ \E k, l \in A : k # l)
  BY DEF MappingFaults, IsUnmapped, IsMappedTwice
<1> HIDE DEF A
<1>5. (\E x : A = {x}) <=> ~(A = {} \/ \E k, l \in A : k # l)
  <2>1. ASSUME ~(A = {} \/ \E k, l \in A : k # l) PROVE \E x : A = {x}
    <3>1. PICK x \in A : TRUE BY <2>1
    <3>2. A = {x} BY <2>1, <3>1
    <3> QED BY <3>2
  <2> QED BY <2>1
<1> QED BY <1>1, <1>2, <1>3, <1>4, <1>5

LEMMA ClaimIsMoved ==
    ASSUME NEW i \in DOMAIN plans, plans[i] \in AllPlans, NEW e \in DOMAIN plans[i].entries,
           HasOneRoot(i, e)
    PROVE  ClaimFor(plans[i], e) = MovedEntry(i, e)
<1> DEFINE plan == plans[i]  entry == plan.entries[e]  A == Applying(plan, entry.path)
           k == CHOOSE k \in A : TRUE
<1>1. entry.path \in Seq(Nat) BY FaultsHaveNotOneRoot
<1>2. RootsOver(plan, entry.path) = A BY <1>1, RootsAreThoseApplying
<1>3. A # {}
  <2>1. Cardinality(A) = 1 BY <1>2 DEF HasOneRoot
  <2> HIDE DEF A
  <2> QED BY <2>1, FS_EmptySet
<1>4. k \in A BY <1>3
<1>5. map(plan.mappings[k], entry.path) = {Replaced(plan.mappings[k], entry.path)}
  BY <1>1, <1>4, RootsAreThoseApplying
<1>6. (CHOOSE p \in map(plan.mappings[k], entry.path) : TRUE)
          = Replaced(plan.mappings[k], entry.path)
  <2> DEFINE z == Replaced(plan.mappings[k], entry.path)
  <2> HIDE DEF z
  <2>1. (CHOOSE p \in {z} : TRUE) = z OBVIOUS
  <2> QED BY <1>5, <2>1 DEF z
<1>7. ClaimFor(plan, e)
        = [package |-> plan.package, source |-> entry.path,
           path |-> CHOOSE p \in map(plan.mappings[k], entry.path) : TRUE,
           kind |-> entry.kind]
  BY DEF ClaimFor
<1>8. MovedEntry(i, e)
        = [package |-> plan.package, source |-> entry.path, kind |-> entry.kind,
           path |-> Replaced(plan.mappings[k], entry.path)]
  BY <1>2 DEF MovedEntry
<1> HIDE DEF k, plan, entry, A
<1> QED BY <1>6, <1>7, <1>8 DEF plan

-----------------------------------------------------------------------------
(* Every entry of the plans is claimed once, under its one root.           *)

EntriesUpTo(n) == UNION {({i} \X DOMAIN plans[i].entries) : i \in 1 .. n}
Moved(n) ==
    /\ \A x \in EntriesUpTo(n) : HasOneRoot(x[1], x[2])
    /\ {claims[j] : j \in DOMAIN claims} = {MovedEntry(x[1], x[2]) : x \in EntriesUpTo(n)}
    /\ IsFiniteSet(EntriesUpTo(n)) /\ Len(claims) = Cardinality(EntriesUpTo(n))
MoveInv ==
    /\ plans # <<>> /\ pc = "mapping" => cursor <= Len(plans) + 1 /\ Moved(cursor - 1)
    /\ plans # <<>> /\ pc # "mapping" /\ error.call # "mapping" => Moved(Len(plans))
    /\ error.call = "mapping" => \E x \in EntriesOfPlans : ~HasOneRoot(x[1], x[2])

LEMMA EntryOfPlans ==
    ASSUME NEW n, NEW x
    PROVE  x \in EntriesUpTo(n) <=>
              \E i \in 1 .. n : \E e \in DOMAIN plans[i].entries : x = <<i, e>>
BY DEF EntriesUpTo

LEMMA MoveInvInit == Init => MoveInv
<1> SUFFICES ASSUME Init PROVE MoveInv OBVIOUS
<1>1. error.call = "none" BY DEF Init, NoError, Error
<1>2. plans \in Seq(AllPlans) BY GraphInvInit DEF GraphInv, Typed, TypedInputs
<1>3. ASSUME plans # <<>> PROVE pc = "mapping" /\ cursor <= Len(plans) + 1 /\ Moved(cursor - 1)
  <2>1. pc = "mapping" /\ cursor = 1 /\ claims = <<>> BY <1>3, PlanAssumption DEF Init
  <2>2. EntriesUpTo(0) = {} BY DEF EntriesUpTo
  <2>3. IsFiniteSet({}) /\ Cardinality({}) = 0 BY FS_EmptySet
  <2>4. Moved(0)
    <3>1. DOMAIN claims = {} /\ Len(claims) = 0 BY <2>1
    <3> QED BY <2>2, <2>3, <3>1 DEF Moved
  <2>5. cursor - 1 = 0 /\ cursor <= Len(plans) + 1 BY <1>2, <2>1
  <2> QED BY <2>1, <2>4, <2>5
<1> QED BY <1>1, <1>3 DEF MoveInv

LEMMA MoveInvMapPlan == ASSUME PlanInv, MoveInv, MapPlan PROVE MoveInv'
<1> DEFINE plan == plans[cursor]  new == ClaimsFor(plan)  old == Len(claims)
           E == EntriesUpTo(cursor - 1)  F == {cursor} \X DOMAIN plan.entries
<1>1. /\ pc = "mapping" /\ pc' = "mapping" /\ cursor' = cursor + 1 /\ cursor <= Len(plans)
      /\ plans' = plans /\ claims' = claims \o new /\ error' = error
      /\ MappingFaults(plan) = {}
  BY DEF MapPlan
<1>2. /\ cursor \in Nat \ {0} /\ plans \in Seq(AllPlans) /\ claims \in Seq(Claims(PackageIds))
      /\ error = NoError
  BY <1>1 DEF PlanInv, GraphInv, Typed, TypedInputs, Failing
<1>3. cursor \in 1 .. Len(plans) /\ DOMAIN plans = 1 .. Len(plans) /\ plans # <<>>
  BY <1>1, <1>2
<1>4. plan \in AllPlans /\ plan.entries \in Seq(LayoutEntries)
  <2>1. plan \in AllPlans BY <1>2, <1>3
  <2> HIDE DEF plan
  <2> QED BY <2>1 DEF AllPlans, Plans
<1>5. ASSUME NEW e \in DOMAIN plan.entries
      PROVE  HasOneRoot(cursor, e) /\ new[e] = MovedEntry(cursor, e)
  <2>1. HasOneRoot(cursor, e) BY <1>1, <1>4, FaultsHaveNotOneRoot DEF HasOneRoot
  <2>2. ClaimFor(plan, e) = MovedEntry(cursor, e) BY <1>3, <1>4, <2>1, ClaimIsMoved
  <2> QED BY <2>1, <2>2 DEF ClaimsFor
<1>6. /\ new \in Seq(Claims(PackageIds)) /\ DOMAIN new = DOMAIN plan.entries
      /\ DOMAIN new = 1 .. Len(new) /\ Len(new) \in Nat /\ old \in Nat
      /\ DOMAIN claims = 1 .. old
  <2>1. new \in Seq(Claims(PackageIds)) BY <1>1, <1>4, ClaimsForAreClaims
  <2>2. DOMAIN new = DOMAIN plan.entries BY DEF ClaimsFor
  <2> HIDE DEF new
  <2> QED BY <1>2, <2>1, <2>2
<1>7. Moved(cursor - 1) BY <1>1, <1>3 DEF MoveInv
<1> HIDE DEF new, plan
<1>8. /\ Len(claims') = old + Len(new) /\ DOMAIN claims' = 1 .. old + Len(new)
      /\ \A j \in 1 .. old : claims'[j] = claims[j]
      /\ \A e \in 1 .. Len(new) : claims'[old + e] = new[e]
  BY <1>1, <1>2, <1>6
<1>9. EntriesUpTo(cursor) = E \union F
  <2>1. 1 .. cursor = 1 .. (cursor - 1) \union {cursor} BY <1>2
  <2> QED BY <2>1 DEF EntriesUpTo, plan
<1>10. E \intersect F = {}
  <2>1. ASSUME NEW x \in E, x \in F PROVE FALSE
    <3>1. PICK i \in 1 .. cursor - 1 : \E e \in DOMAIN plans[i].entries : x = <<i, e>>
      BY EntryOfPlans
    <3>2. x[1] = i /\ x[1] = cursor BY <2>1, <3>1
    <3> QED BY <1>2, <3>1, <3>2
  <2> QED BY <2>1
<1>11. IsFiniteSet(F) /\ Cardinality(F) = Len(new)
  <2>1. IsFiniteSet({cursor}) /\ Cardinality({cursor}) = 1 BY FS_Singleton
  <2> DEFINE m == Len(new)
  <2>2. m \in Nat /\ DOMAIN plan.entries = 1 .. m BY <1>6
  <2>3. F = {cursor} \X (1 .. m) BY <2>2, Zenon
  <2> HIDE DEF m, F
  <2>4. IsFiniteSet(1 .. m) /\ Cardinality(1 .. m) = m
    <3>1. /\ IsFiniteSet(1 .. m)
          /\ Cardinality(1 .. m) = IF 1 > m THEN 0 ELSE m - 1 + 1
      BY <2>2, FS_Interval
    <3> QED BY <2>2, <3>1
  <2> DEFINE A == {cursor}  B == 1 .. m
  <2> HIDE DEF A, B
  <2>7. IsFiniteSet(A \X B) /\ Cardinality(A \X B) = Cardinality(A) * Cardinality(B)
    <3>1. IsFiniteSet(A) /\ IsFiniteSet(B) BY <2>1, <2>4 DEF A, B
    <3> QED BY ONLY <3>1, FS_Product
  <2>5. IsFiniteSet(F) /\ Cardinality(F) = 1 * m BY <2>1, <2>3, <2>4, <2>7 DEF A, B
  <2>6. 1 * m = m BY <2>2
  <2> QED BY <2>5, <2>6 DEF m
<1>12. IsFiniteSet(E) /\ Cardinality(E) = old BY <1>7 DEF Moved
<1> HIDE DEF E, F
<1>13. IsFiniteSet(EntriesUpTo(cursor)) /\ Cardinality(EntriesUpTo(cursor)) = old + Len(new)
  <2>1. Cardinality(E \intersect F) = 0 BY <1>10, FS_EmptySet
  <2>2. IsFiniteSet(E \union F) /\ Cardinality(E \union F) = old + Len(new) - 0
    BY <1>11, <1>12, <2>1, FS_Union
  <2> QED BY <1>6, <1>9, <2>2
<1>14. \A x \in EntriesUpTo(cursor) : HasOneRoot(x[1], x[2])
  <2>1. \A x \in E : HasOneRoot(x[1], x[2]) BY <1>7 DEF Moved, E
  <2>2. \A x \in F : HasOneRoot(x[1], x[2]) BY <1>5 DEF F
  <2> QED BY <1>9, <2>1, <2>2
<1>15. {claims'[j] : j \in DOMAIN claims'} = {MovedEntry(x[1], x[2]) : x \in EntriesUpTo(cursor)}
  <2> DEFINE Old == {claims[j] : j \in DOMAIN claims}  New == {new[e] : e \in 1 .. Len(new)}
  <2>1. {claims'[j] : j \in DOMAIN claims'} = Old \union New
    <3>1. ASSUME NEW j \in DOMAIN claims' PROVE claims'[j] \in Old \union New
      <4>1. CASE j <= old
        <5>1. j \in 1 .. old BY <1>8, <4>1
        <5> QED BY <1>6, <1>8, <5>1
      <4>2. CASE j > old
        <5>1. j - old \in 1 .. Len(new) /\ old + (j - old) = j BY <1>6, <1>8, <4>2
        <5>2. claims'[j] = new[j - old] BY <1>8, <5>1
        <5> QED BY <5>1, <5>2
      <4>3. j <= old \/ j > old BY <1>6, <1>8
      <4> QED BY <4>1, <4>2, <4>3
    <3>2. ASSUME NEW j \in DOMAIN claims PROVE claims[j] \in {claims'[k] : k \in DOMAIN claims'}
      <4>1. j \in 1 .. old /\ j \in DOMAIN claims' BY <1>6, <1>8
      <4> QED BY <1>8, <4>1
    <3>3. ASSUME NEW e \in 1 .. Len(new)
          PROVE  new[e] \in {claims'[k] : k \in DOMAIN claims'}
      <4>1. old + e \in DOMAIN claims' /\ claims'[old + e] = new[e] BY <1>6, <1>8
      <4> QED BY <4>1
    <3> QED BY <3>1, <3>2, <3>3
  <2>2. Old = {MovedEntry(x[1], x[2]) : x \in E} BY <1>7 DEF Moved, E
  <2>3. New = {MovedEntry(x[1], x[2]) : x \in F}
    <3>1. ASSUME NEW e \in 1 .. Len(new) PROVE new[e] \in {MovedEntry(x[1], x[2]) : x \in F}
      <4>1. <<cursor, e>> \in F BY <1>6 DEF F
      <4>2. new[e] = MovedEntry(<<cursor, e>>[1], <<cursor, e>>[2]) BY <1>5, <1>6
      <4> QED BY <4>1, <4>2
    <3>2. ASSUME NEW x \in F PROVE MovedEntry(x[1], x[2]) \in New
      <4>1. PICK e \in DOMAIN plan.entries : x[1] = cursor /\ x[2] = e BY DEF F
      <4> QED BY <1>5, <1>6, <4>1
    <3> QED BY <3>1, <3>2
  <2> HIDE DEF Old, New
  <2> QED BY <1>9, <2>1, <2>2, <2>3
<1>16. cursor' - 1 = cursor /\ cursor' <= Len(plans') + 1 BY <1>1, <1>2
<1>17. Moved(cursor - 1)'
  <2>1. EntriesUpTo(cursor - 1)' = EntriesUpTo(cursor) BY <1>1, <1>16 DEF EntriesUpTo
  <2>2. /\ \A i, e : HasOneRoot(i, e)' = HasOneRoot(i, e)
        /\ \A i, e : MovedEntry(i, e)' = MovedEntry(i, e)
    BY <1>1 DEF HasOneRoot, MovedEntry
  <2>3. /\ \A x \in EntriesUpTo(cursor - 1)' : HasOneRoot(x[1], x[2])'
        /\ {MovedEntry(x[1], x[2])' : x \in EntriesUpTo(cursor - 1)'}
              = {MovedEntry(x[1], x[2]) : x \in EntriesUpTo(cursor)}
    BY <1>14, <2>1, <2>2
  <2> QED BY <1>8, <1>13, <1>15, <2>1, <2>3 DEF Moved
<1>18. error'.call = "none" BY <1>1, <1>2 DEF NoError, Error
<1> QED BY <1>1, <1>16, <1>17, <1>18 DEF MoveInv

LEMMA MoveInvReject == ASSUME PlanInv, MoveInv, RejectEntryOfPlan PROVE MoveInv'
<1> DEFINE plan == plans[cursor]
<1>1. /\ pc = "mapping" /\ pc' = "failed" /\ cursor <= Len(plans) /\ MappingFaults(plan) # {}
      /\ plans' = plans
  BY DEF RejectEntryOfPlan, Fail, inputs
<1>2. error'.call = "mapping" BY <1>1 DEF RejectEntryOfPlan, Fail, Error
<1>3. cursor \in Nat \ {0} /\ plans \in Seq(AllPlans)
  BY DEF PlanInv, GraphInv, Typed, TypedInputs
<1>4. cursor \in DOMAIN plans /\ plan \in AllPlans BY <1>1, <1>3
<1>5. PICK e \in DOMAIN plan.entries : e \in MappingFaults(plan) BY <1>1 DEF MappingFaults
<1>6. ~HasOneRoot(cursor, e) BY <1>4, <1>5, FaultsHaveNotOneRoot DEF HasOneRoot
<1>7. <<cursor, e>> \in EntriesOfPlans BY <1>4, <1>5 DEF EntriesOfPlans
<1>8. \E x \in EntriesOfPlans : ~HasOneRoot(x[1], x[2]) BY <1>6, <1>7
<1>9. (\E x \in EntriesOfPlans : ~HasOneRoot(x[1], x[2]))'
  BY <1>1, <1>8 DEF EntriesOfPlans, HasOneRoot
<1> QED BY <1>1, <1>2, <1>9 DEF MoveInv

LEMMA MoveInvLater ==
    ASSUME MoveInv, UNCHANGED <<plans, claims>>, pc # "mapping", pc' # "mapping",
           error' = error \/ (error.call # "mapping" /\ error'.call # "mapping")
    PROVE  MoveInv'
<1>1. \A n : Moved(n)' = Moved(n)
  BY DEF Moved, EntriesUpTo, HasOneRoot, MovedEntry
<1>2. (\E x \in EntriesOfPlans : ~HasOneRoot(x[1], x[2]))'
         = \E x \in EntriesOfPlans : ~HasOneRoot(x[1], x[2])
  BY DEF EntriesOfPlans, HasOneRoot
<1>3. Len(plans)' = Len(plans) OBVIOUS
<1> QED BY <1>1, <1>2, <1>3 DEF MoveInv

LEMMA MoveInvEndLoop == ASSUME PlanInv, MoveInv, EndLoop PROVE MoveInv'
<1>1. UNCHANGED <<plans, claims, error>> /\ pc' # "mapping" BY DEF EndLoop, inputs
<1>2. CASE pc # "mapping" BY <1>1, <1>2, MoveInvLater
<1>3. CASE pc = "mapping"
  <2>1. error.call = "none" BY <1>3 DEF PlanInv, Failing, NoError, Error
  <2>2. cursor > Len(plans) BY <1>3 DEF EndLoop
  <2>3. cursor \in Nat /\ Len(plans) \in Nat BY DEF PlanInv, GraphInv, Typed, TypedInputs
  <2>4. plans # <<>> => Moved(Len(plans))
    <3> SUFFICES ASSUME plans # <<>> PROVE Moved(Len(plans)) OBVIOUS
    <3>1. cursor <= Len(plans) + 1 /\ Moved(cursor - 1) BY <1>3 DEF MoveInv
    <3>2. cursor - 1 = Len(plans) BY <2>2, <2>3, <3>1
    <3> QED BY <3>1, <3>2
  <2>5. Moved(Len(plans))' = Moved(Len(plans))
    BY <1>1 DEF Moved, EntriesUpTo, HasOneRoot, MovedEntry
  <2> QED BY <1>1, <2>1, <2>4, <2>5 DEF MoveInv
<1> QED BY <1>2, <1>3

(* Of the other actions, none runs while the plans are mapped.             *)
LEMMA OthersRunLater ==
    ASSUME \/ RejectClaim \/ SortClaims \/ TakeNode \/ LookBelow
           \/ RejectPriority \/ AcceptPriority \/ Decide \/ ReportObstructions
           \/ RejectConflicts \/ StartCompiling \/ CompileNext \/ AddAncestors
           \/ RejectSnapshot \/ RejectEntry \/ MapSources
    PROVE  /\ UNCHANGED <<plans, claims>> /\ pc \notin {"mapping", "failed"} /\ pc' # "mapping"
           /\ error' = error \/ error'.call = pc
<1>1. ASSUME NEW code, NEW index, NEW package, NEW path, Fail(code, index, package, path)
      PROVE  UNCHANGED <<plans, claims>> /\ pc' = "failed" /\ error'.call = pc
  BY <1>1 DEF Fail, Error, inputs
<1>2. CASE RejectClaim BY <1>1, <1>2 DEF RejectClaim
<1>3. CASE SortClaims \/ TakeNode \/ LookBelow
  BY <1>3 DEF SortClaims, TakeNode, LookBelow, inputs
<1>4. CASE RejectPriority BY <1>1, <1>4 DEF RejectPriority
<1>5. CASE AcceptPriority \/ Decide \/ ReportObstructions
  BY <1>5 DEF AcceptPriority, Decide, ReportObstructions, inputs
<1>6. CASE RejectConflicts BY <1>1, <1>6 DEF RejectConflicts
<1>7. CASE StartCompiling \/ AddAncestors BY <1>7 DEF StartCompiling, AddAncestors, inputs
<1>8. CASE CompileNext BY <1>1, <1>8 DEF CompileNext, inputs
<1>9. CASE RejectSnapshot BY <1>1, <1>9 DEF RejectSnapshot
<1>10. CASE RejectEntry BY <1>1, <1>10 DEF RejectEntry
<1>11. CASE MapSources BY <1>11 DEF MapSources, inputs
<1> QED BY <1>2, <1>3, <1>4, <1>5, <1>6, <1>7, <1>8, <1>9, <1>10, <1>11

LEMMA MoveInvNext == PlanInv /\ MoveInv /\ [Next]_vars => MoveInv'
<1> SUFFICES ASSUME PlanInv, MoveInv, [Next]_vars PROVE MoveInv' OBVIOUS
<1>1. CASE RejectEntryOfPlan BY <1>1, MoveInvReject
<1>2. CASE MapPlan BY <1>2, MoveInvMapPlan
<1>3. CASE EndLoop BY <1>3, MoveInvEndLoop
<1>4. CASE Returned \/ UNCHANGED vars
  <2>1. UNCHANGED <<plans, claims, pc, cursor, error>> BY <1>4 DEF Returned, vars, inputs
  <2>2. \A n : Moved(n)' = Moved(n)
    BY <2>1 DEF Moved, EntriesUpTo, HasOneRoot, MovedEntry
  <2>3. (\E x \in EntriesOfPlans : ~HasOneRoot(x[1], x[2]))'
           = \E x \in EntriesOfPlans : ~HasOneRoot(x[1], x[2])
    BY <2>1 DEF EntriesOfPlans, HasOneRoot
  <2> QED BY <2>1, <2>2, <2>3 DEF MoveInv
<1>5. CASE \/ RejectClaim \/ SortClaims \/ TakeNode \/ LookBelow
           \/ RejectPriority \/ AcceptPriority \/ Decide \/ ReportObstructions
           \/ RejectConflicts \/ StartCompiling \/ CompileNext \/ AddAncestors
           \/ RejectSnapshot \/ RejectEntry \/ MapSources
  <2>1. /\ UNCHANGED <<plans, claims>> /\ pc \notin {"mapping", "failed"} /\ pc' # "mapping"
        /\ error' = error \/ error'.call = pc
    BY <1>5, OthersRunLater
  <2>2. error.call # "mapping" BY <2>1 DEF PlanInv, Failing, NoError, Error
  <2> QED BY <2>1, <2>2, MoveInvLater
<1> QED BY <1>1, <1>2, <1>3, <1>4, <1>5 DEF Next

(* PackageRootMapping::map and mapClaims: whatever the plans contain, every *)
(* entry is claimed once, moved name by name with the one root it lies      *)
(* under, and the mapping fails only for an entry with no root, or two.     *)
THEOREM EntriesMoved == Spec => []EntriesMoveWithTheirRoot
<1>1. PlanInv /\ MoveInv => EntriesMoveWithTheirRoot
  <2> SUFFICES ASSUME PlanInv, MoveInv PROVE EntriesMoveWithTheirRoot OBVIOUS
  <2>1. EntriesUpTo(Len(plans)) = EntriesOfPlans
    <3>1. plans \in Seq(AllPlans) BY DEF PlanInv, GraphInv, Typed, TypedInputs
    <3>2. DOMAIN plans = 1 .. Len(plans) BY <3>1
    <3> QED BY <3>2 DEF EntriesUpTo, EntriesOfPlans
  <2>2. plans # <<>> /\ pc # "mapping" /\ error.call # "mapping" => Moved(Len(plans))
    BY DEF MoveInv
  <2>3. error.call = "mapping" => \E x \in EntriesOfPlans : ~HasOneRoot(x[1], x[2])
    BY DEF MoveInv
  <2> QED BY <2>1, <2>2, <2>3 DEF EntriesMoveWithTheirRoot, Moved
<1> QED BY <1>1, PlanInvariant, MoveInvInit, MoveInvNext, PTL DEF Spec
=============================================================================
