--------------------------- MODULE FileOwnership ---------------------------
(***************************************************************************)
(* What FileOwnershipGraph::create is built from.  A claim says that a     *)
(* package wants to put an entry at a path of the game directory; a node   *)
(* collects the claims on one path.  The packages are given in the order   *)
(* of the dependency graph, which has each of them once.                   *)
(***************************************************************************)
EXTENDS GamePaths

Kinds == {"RegularFile", "Directory", "SymbolicLink"}

Claims(PackageIds) ==
    [package : PackageIds, source : Seq(Nat), path : Seq(Nat), kind : Kinds]

\* package_ranks.
Rank(order, package) == CHOOSE i \in DOMAIN order : order[i] = package
Has(order, package) == \E i \in DOMAIN order : order[i] = package

containsNonDirectory(claims) == \E i \in DOMAIN claims : claims[i].kind # "Directory"
containsDirectory(claims) == \E i \in DOMAIN claims : claims[i].kind = "Directory"

\* The order of the claims: by path, then by rank, then as they were given.
ClaimLess(order, claims, i, j) ==
    LET c == claims[i]  d == claims[j] IN
    \/ bytesLess(c.path, d.path)
    \/ /\ c.path = d.path
       /\ \/ Rank(order, c.package) < Rank(order, d.package)
          \/ c.package = d.package /\ i < j

\* What stable_sort makes of the indexes of the claims.
Sortings(order, claims) ==
    {s \in [DOMAIN claims -> DOMAIN claims] :
        \A k, l \in DOMAIN claims : k < l => ClaimLess(order, claims, s[k], s[l])}

\* The last of the claims in a row, from first on, that are on the same path.
LastOfNode(sorted, claims, first) ==
    CHOOSE last \in first .. Len(sorted) :
        /\ \A k \in first .. last : claims[sorted[k]].path = claims[sorted[first]].path
        /\ last < Len(sorted) => claims[sorted[last + 1]].path # claims[sorted[first]].path

Node(sorted, claims, first, last) ==
    [path |-> claims[sorted[first]].path,
     claims |-> [k \in 1 .. last - first + 1 |-> claims[sorted[first + k - 1]]]]

IsExactCollision(node) == Len(node.claims) > 1 /\ containsNonDirectory(node.claims)

-----------------------------------------------------------------------------

\* std::ranges::lower_bound: the first node that is not before the path.
IsLowerBound(nodes, path, first) ==
    /\ ~bytesLess(nodes[first].path, path)
    /\ \A k \in 1 .. first - 1 : bytesLess(nodes[k].path, path)

\* The search begins right after the ancestor (a mutated form).
DescendantsInARow(nodes, ancestor) ==
    {nodes[k].path : k \in
        {k \in ancestor + 1 .. Len(nodes) :
            \A l \in ancestor + 1 .. k :
                starts_with(nodes[l].path, Append(nodes[ancestor].path, Slash))}}

\* The paths below the path of a node, as a range of the sorted nodes.
Descendants(nodes, ancestor) ==
    LET path == nodes[ancestor].path
        prefix == Append(path, Slash)
    IN  IF path = Root THEN {nodes[k].path : k \in DOMAIN nodes} \ {Root}
        ELSE {nodes[k].path : k \in
                {k \in DOMAIN nodes : \E first \in 1 .. k :
                    /\ IsLowerBound(nodes, prefix, first)
                    /\ \A l \in first .. k : starts_with(nodes[l].path, prefix)}}

\* What buildObstructions adds for one node.
ObstructionsOf(nodes, ancestor) ==
    IF containsNonDirectory(nodes[ancestor].claims)
    THEN {[ancestor |-> nodes[ancestor].path, descendant |-> path] :
             path \in Descendants(nodes, ancestor)}
    ELSE {}
=============================================================================
