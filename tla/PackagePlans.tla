---------------------------- MODULE PackagePlans ----------------------------
(***************************************************************************)
(* The plan of a package: what is in it, and which of its directories go   *)
(* where in the game directory.  The claims of the packages are made from  *)
(* their plans; so far only the integration test does it (mapClaims).      *)
(* An optional value is a set of one element at most.                      *)
(***************************************************************************)
EXTENDS FileOwnership

RootMappings == [package_root : Seq(Nat), game_root : Seq(Nat)]
LayoutEntries == [path : Seq(Nat), kind : Kinds]
Plans(PackageIds, Locations) ==
    [package : PackageIds, location : Locations, entries : Seq(LayoutEntries),
     mappings : Seq(RootMappings)]

\* The first bytes of a name taken for a directory (a mutated form).
IsAnywhereBelow(path, root) == Len(path) > Len(root) /\ starts_with(path, root)

IsBelow(path, root) ==
    Len(path) > Len(root) /\ starts_with(path, root) /\ path[Len(root) + 1] = Slash

\* PackageRootMapping::map.
map(mapping, path) ==
    LET root == mapping.package_root
        suffix == SubSeq(path, Len(root) + 2, Len(path))
    IN  IF root = Root THEN {}
        ELSE IF path = root THEN {mapping.game_root}
        ELSE IF ~IsBelow(path, root) THEN {}
        ELSE IF mapping.game_root = Root THEN {suffix}
        ELSE {mapping.game_root \o <<Slash>> \o suffix}

\* The mappings of a plan that apply to one of its paths.
Applying(plan, path) == {k \in DOMAIN plan.mappings : map(plan.mappings[k], path) # {}}

IsUnmapped(plan, i) == Applying(plan, plan.entries[i].path) = {}
IsMappedTwice(plan, i) == \E k, l \in Applying(plan, plan.entries[i].path) : k # l

\* The entries that mapClaims refuses.
MappingFaults(plan) ==
    {i \in DOMAIN plan.entries : IsUnmapped(plan, i) \/ IsMappedTwice(plan, i)}

\* The source named by where it goes (a mutated form).
ClaimByTarget(plan, i) ==
    LET entry == plan.entries[i]
        mapping == plan.mappings[CHOOSE k \in Applying(plan, entry.path) : TRUE]
        path == CHOOSE p \in map(mapping, entry.path) : TRUE
    IN  [package |-> plan.package, source |-> path, path |-> path, kind |-> entry.kind]

\* The claim on the place where an entry goes.
ClaimFor(plan, i) ==
    LET entry == plan.entries[i]
        mapping == plan.mappings[CHOOSE k \in Applying(plan, entry.path) : TRUE]
    IN  [package |-> plan.package, source |-> entry.path,
         path |-> CHOOSE p \in map(mapping, entry.path) : TRUE, kind |-> entry.kind]

ClaimsFor(plan) == [i \in DOMAIN plan.entries |-> ClaimFor(plan, i)]
=============================================================================
