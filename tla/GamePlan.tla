------------------------------ MODULE GamePlan ------------------------------
(***************************************************************************)
(* From the plans of the enabled packages to the contents of the game      *)
(* directory: mapClaims, FileOwnershipGraph::create,                       *)
(* ConflictResolutionReport::create, NamespaceCompilationResult::compile   *)
(* and CompiledNamespace::mapSources, each on the result of the one        *)
(* before, one iteration of a loop at a time.  Nothing makes a caller get  *)
(* its claims from plans, so they may be given as well.  A call that fails *)
(* ends the planning.                                                      *)
(***************************************************************************)
EXTENDS CompiledNamespace, PackagePlans, FiniteSets

CONSTANTS
    PackageIds,          \* the packages there are
    Locations,           \* where packages are kept
    Inputs               \* what the planning may be given: the order of a
                         \* dependency graph, plans or claims, priorities and
                         \* the plans to look sources up in

IsOrder(list) == \A i, j \in DOMAIN list : list[i] = list[j] => i = j
AllPlans == Plans(PackageIds, Locations)

ASSUME PlanAssumption ==
    /\ Inputs \subseteq [order : Seq(PackageIds), plans : Seq(AllPlans),
                        claims : Seq(Claims(PackageIds)), priority : Seq(PackageIds),
                        snapshot : Seq([lookup : PackageIds, plan : AllPlans])]
    /\ \A input \in Inputs :
          IsOrder(input.order) /\ (input.plans = <<>> \/ input.claims = <<>>)

VARIABLES
    order, plans, priority, snapshot,       \* what is given
    claims,                                 \* given, or mapped from the plans
    pc,                                     \* the loop that runs
    cursor,                                 \* where it is
    sorted,                                 \* the indexes of the claims, sorted
    nodes, collisions, obstructions,        \* the ownership graph
    decisions, diagnostics, blocking,       \* the report
    entries,                                \* the namespace
    error                                   \* the error that ended it, or NoError

inputs == <<order, plans, priority, snapshot, claims>>
graph == <<sorted, nodes, collisions, obstructions>>
report == <<decisions, diagnostics, blocking>>
vars == <<inputs, pc, cursor, graph, report, entries, error>>

\* What failed, and with what; an index is 0, a set empty, where it has none.
\* What these determine is left out: the id of the plan under another id, the
\* path in the package of a claim.
Error(call, code, index, package, path) ==
    [call |-> call, code |-> code, index |-> index, package |-> package, path |-> path]
NoError == Error("none", "none", 0, {}, {})

Init ==
    /\ \E input \in Inputs :
          /\ order = input.order /\ plans = input.plans /\ claims = input.claims
          /\ priority = input.priority /\ snapshot = input.snapshot
    /\ pc = (IF plans = <<>> THEN "claims" ELSE "mapping")
    /\ cursor = 1
    /\ sorted = <<>> /\ nodes = <<>> /\ collisions = {} /\ obstructions = {}
    /\ decisions = <<>> /\ diagnostics = {} /\ blocking = FALSE
    /\ entries = {}
    /\ error = NoError

Fail(code, index, package, path) ==
    /\ error' = Error(pc, code, index, package, path)
    /\ pc' = "failed"
    /\ UNCHANGED <<inputs, cursor, graph, report, entries>>

-----------------------------------------------------------------------------
(* mapClaims.                                                              *)

RejectEntryOfPlan ==
    /\ pc = "mapping"
    /\ cursor <= Len(plans)
    /\ LET plan == plans[cursor]
           i == First(MappingFaults(plan))
       IN  /\ MappingFaults(plan) # {}
           /\ Fail(IF IsUnmapped(plan, i) THEN "MissingMapping" ELSE "AmbiguousMapping",
                   0, {plan.package}, {plan.entries[i].path})

MapPlan ==
    /\ pc = "mapping"
    /\ cursor <= Len(plans)
    /\ MappingFaults(plans[cursor]) = {}
    /\ claims' = claims \o ClaimsFor(plans[cursor])
    /\ cursor' = cursor + 1
    /\ UNCHANGED <<order, plans, priority, snapshot, pc, graph, report, entries, error>>

-----------------------------------------------------------------------------
(* FileOwnershipGraph::create.                                             *)

Unowned == {i \in DOMAIN claims : ~Has(order, claims[i].package)}

RejectClaim ==
    /\ pc = "claims"
    /\ Unowned # {}
    /\ LET i == First(Unowned)
       IN  Fail("ClaimPackageNotEnabled", i, {claims[i].package}, {})

SortClaims ==
    /\ pc = "claims"
    /\ Unowned = {}
    /\ sorted' \in Sortings(order, claims)
    /\ pc' = "nodes"
    /\ UNCHANGED <<inputs, cursor, nodes, collisions, obstructions, report, entries, error>>

TakeNode ==
    /\ pc = "nodes"
    /\ cursor <= Len(sorted)
    /\ LET last == LastOfNode(sorted, claims, cursor)
           node == Node(sorted, claims, cursor, last)
       IN  /\ nodes' = Append(nodes, node)
           /\ collisions' = collisions \union (IF IsExactCollision(node) THEN {node.path} ELSE {})
           /\ cursor' = last + 1
    /\ UNCHANGED <<inputs, pc, sorted, obstructions, report, entries, error>>

LookBelow ==
    /\ pc = "obstructions"
    /\ cursor <= Len(nodes)
    /\ obstructions' = obstructions \union ObstructionsOf(nodes, cursor)
    /\ cursor' = cursor + 1
    /\ UNCHANGED <<inputs, pc, sorted, nodes, collisions, report, entries, error>>

-----------------------------------------------------------------------------
(* ConflictResolutionReport::create.                                       *)

RejectPriority ==
    /\ pc = "policy"
    /\ LET faults == PolicyFaults(order, priority)
           i == First(faults)
           missing == {k \in DOMAIN order : ~Has(priority, order[k])}
       IN  \/ /\ faults # {}
              /\ Fail(IF IsDuplicate(priority, i) THEN "DuplicatePackage" ELSE "UnknownPackage",
                      i, {priority[i]}, {})
           \/ /\ faults = {} /\ missing # {}
              /\ Fail("MissingPackage", 0, {order[First(missing)]}, {})

AcceptPriority ==
    /\ pc = "policy"
    /\ PolicyFaults(order, priority) = {}
    /\ \A k \in DOMAIN order : Has(priority, order[k])
    /\ pc' = "decisions"
    /\ UNCHANGED <<inputs, cursor, graph, report, entries, error>>

Decide ==
    /\ pc = "decisions"
    /\ cursor <= Len(nodes)
    /\ LET d == decide(nodes[cursor], priority)
       IN  /\ decisions' = Append(decisions, d.decision)
           /\ diagnostics' = diagnostics \union d.diagnostics
           /\ blocking' = (blocking \/ d.decision.kind = "Unresolved")
    /\ cursor' = cursor + 1
    /\ UNCHANGED <<inputs, pc, graph, entries, error>>

\* An obstruction is only told (a mutated form).
ReportObstructionsOnly ==
    /\ pc = "report"
    /\ diagnostics' = diagnostics \union ObstructionDiagnostics(obstructions)
    /\ pc' = "check"
    /\ UNCHANGED <<inputs, cursor, graph, decisions, blocking, entries, error>>

ReportObstructions ==
    /\ pc = "report"
    /\ diagnostics' = diagnostics \union ObstructionDiagnostics(obstructions)
    /\ blocking' = (blocking \/ obstructions # {})
    /\ pc' = "check"
    /\ UNCHANGED <<inputs, cursor, graph, decisions, entries, error>>

-----------------------------------------------------------------------------
(* NamespaceCompilationResult::compile.                                    *)

RejectConflicts ==
    /\ pc = "check"
    /\ blocking
    /\ Fail("BlockingConflicts", 0, {}, {})

StartCompiling ==
    /\ pc = "check"
    /\ ~blocking
    /\ pc' = "compile"
    /\ UNCHANGED <<inputs, cursor, graph, report, entries, error>>

CompileNext ==
    /\ pc = "compile"
    /\ cursor <= Len(decisions)
    /\ LET compiled == compileDecision(decisions[cursor])
       IN  \/ /\ compiled = {}
              /\ Fail("InvalidResolvedDecision", 0, {}, {})
           \/ /\ compiled # {}
              /\ entries' = entries \union compiled
              /\ cursor' = cursor + 1
              /\ UNCHANGED <<inputs, pc, graph, report, error>>

AddAncestors ==
    /\ pc = "ancestors"
    /\ entries' = entries \union {SyntheticEntry(path) : path \in syntheticAncestors(decisions)}
    /\ pc' = "sources"
    /\ UNCHANGED <<inputs, cursor, graph, report, error>>

-----------------------------------------------------------------------------
(* CompiledNamespace::mapSources.                                          *)

RejectSnapshot ==
    /\ pc = "sources"
    /\ SnapshotFaults(snapshot) # {}
    /\ LET record == snapshot[First(SnapshotFaults(snapshot))]
       IN  Fail(IF IsMismatched(record) THEN "MismatchedPackageId" ELSE "DuplicatePackage",
                0, {record.lookup}, {})

\* The entry that comes first is the one the error names.
RejectEntry ==
    /\ pc = "sources"
    /\ SnapshotFaults(snapshot) = {}
    /\ \E e \in entries :
          /\ \A f \in entries : bytesLess(f.path, e.path) => EntryFault(snapshot, f) = {}
          /\ \E fault \in EntryFault(snapshot, e) : Fail(fault.code, 0, fault.package, {e.path})

MapSources ==
    /\ pc = "sources"
    /\ SnapshotFaults(snapshot) = {}
    /\ \A e \in entries : EntryFault(snapshot, e) = {}
    /\ entries' = {IF e.kind = "Directory" THEN e ELSE Sourced(snapshot, e) : e \in entries}
    /\ pc' = "done"
    /\ UNCHANGED <<inputs, cursor, graph, report, error>>

-----------------------------------------------------------------------------

EndLoop ==
    /\ \/ pc = "mapping" /\ cursor > Len(plans) /\ pc' = "claims"
       \/ pc = "nodes" /\ cursor > Len(sorted) /\ pc' = "obstructions"
       \/ pc = "obstructions" /\ cursor > Len(nodes) /\ pc' = "policy"
       \/ pc = "decisions" /\ cursor > Len(nodes) /\ pc' = "report"
       \/ pc = "compile" /\ cursor > Len(decisions) /\ pc' = "ancestors"
    /\ cursor' = 1
    /\ UNCHANGED <<inputs, graph, report, entries, error>>

Returned == pc \in {"done", "failed"} /\ UNCHANGED vars

Next ==
    \/ RejectEntryOfPlan \/ MapPlan
    \/ RejectClaim \/ SortClaims \/ TakeNode \/ LookBelow
    \/ RejectPriority \/ AcceptPriority \/ Decide \/ ReportObstructions
    \/ RejectConflicts \/ StartCompiling \/ CompileNext \/ AddAncestors
    \/ RejectSnapshot \/ RejectEntry \/ MapSources
    \/ EndLoop \/ Returned

Spec == Init /\ [][Next]_vars

-----------------------------------------------------------------------------
(* Properties.                                                             *)

Paths == {claims[i].path : i \in DOMAIN claims}
On(path) == {i \in DOMAIN claims : claims[i].path = path}
IsAbove(path, other) ==
    IF path = Root THEN other # Root
    ELSE /\ Len(path) < Len(other) /\ other[Len(path) + 1] = Slash
         /\ \A k \in DOMAIN path : path[k] = other[k]

GraphIsBuilt == pc \notin {"mapping", "claims", "nodes", "obstructions", "failed"}
IsReported == pc \in {"check", "compile", "ancestors", "sources", "done"}
IsCompiled == pc \in {"sources", "done"}

\* A path as the names between its slashes; that of the game root has none.
Names(path) ==
    LET cuts == {0, Len(path) + 1} \union {k \in DOMAIN path : path[k] = Slash}
        Cut(n) == CHOOSE c \in cuts : Cardinality({d \in cuts : d < c}) = n - 1
    IN  [n \in 1 .. Cardinality(cuts) - 1 |-> SubSeq(path, Cut(n) + 1, Cut(n + 1) - 1)]
NamesOf(path) == IF path = Root THEN <<>> ELSE Names(path)

Joined(names) ==
    LET upTo[n \in DOMAIN names] ==
            IF n = 1 THEN names[1] ELSE upTo[n - 1] \o <<Slash>> \o names[n]
    IN  IF names = <<>> THEN Root ELSE upTo[Len(names)]

\* The roots a path lies under, name by name, and where they take it.
RootsOver(plan, path) ==
    {k \in DOMAIN plan.mappings :
        /\ plan.mappings[k].package_root # Root
        /\ starts_with(Names(path), Names(plan.mappings[k].package_root))}
Replaced(mapping, path) ==
    LET names == Names(path)
    IN  Joined(NamesOf(mapping.game_root)
               \o SubSeq(names, Len(Names(mapping.package_root)) + 1, Len(names)))

EntriesOfPlans == UNION {{i} \X DOMAIN plans[i].entries : i \in DOMAIN plans}
HasOneRoot(i, e) == Cardinality(RootsOver(plans[i], plans[i].entries[e].path)) = 1
MovedEntry(i, e) ==
    LET plan == plans[i]  entry == plan.entries[e] IN
    [package |-> plan.package, source |-> entry.path, kind |-> entry.kind,
     path |-> Replaced(plan.mappings[CHOOSE k \in RootsOver(plan, entry.path) : TRUE],
                       entry.path)]

\* PackageRootMapping::map and mapClaims: a name that only begins like that of
\* a root does not lie under it.  Every entry of the plans is claimed once, with
\* the names of its root replaced by those it goes to, and the mapping fails
\* only for an entry that has no root, or two.
EntriesMoveWithTheirRoot ==
    /\ plans # <<>> /\ pc # "mapping" /\ error.call # "mapping" =>
          /\ \A x \in EntriesOfPlans : HasOneRoot(x[1], x[2])
          /\ {claims[j] : j \in DOMAIN claims}
                 = {MovedEntry(x[1], x[2]) : x \in EntriesOfPlans}
          /\ Len(claims) = Cardinality(EntriesOfPlans)
    /\ error.call = "mapping" => \E x \in EntriesOfPlans : ~HasOneRoot(x[1], x[2])

\* From plans to sources: of claims that were mapped from the very plans that
\* mapSources is given, every source is found, whatever the plans contain (also
\* one path twice, as two kinds); it fails only for two plans of one package.
IsPlanOfAll ==
    /\ plans # <<>> /\ Len(snapshot) = Len(plans)
    /\ \A i \in DOMAIN plans : snapshot[i] = [lookup |-> plans[i].package, plan |-> plans[i]]
PlansSourceTheirClaims ==
    IsPlanOfAll /\ error.call = "sources" =>
        \E i, j \in DOMAIN plans : i # j /\ plans[i].package = plans[j].package

\* buildObstructions: the range search finds every pair of a claim that is no
\* directory and a claim below it, also when other names sort in between, and
\* finds no other.
Obstructed(above, below) ==
    IsAbove(above, below) /\ \E i \in On(above) : claims[i].kind # "Directory"
ObstructionsAreComplete ==
    GraphIsBuilt =>
        \A above, below \in Paths :
            [ancestor |-> above, descendant |-> below] \in obstructions
                <=> Obstructed(above, below)

\* The priorities name every package of the graph once.
IsComplete ==
    /\ IsOrder(priority)
    /\ {priority[i] : i \in DOMAIN priority} = {order[i] : i \in DOMAIN order}

\* What the user must sort out: a directory over a file, a package that is the
\* strongest on a path and claims it twice, a claim below one that is no
\* directory.
IsMixed(path) ==
    \E i, j \in On(path) : claims[i].kind = "Directory" /\ claims[j].kind # "Directory"
IsAmbiguous(path) ==
    /\ \A i \in On(path) : claims[i].kind # "Directory"
    /\ \E i, j \in On(path) :
          /\ i # j /\ claims[i].package = claims[j].package
          /\ \A k \in On(path) :
                Rank(priority, claims[k].package) <= Rank(priority, claims[i].package)
IsConflicting ==
    \/ \E path \in Paths : IsMixed(path) \/ IsAmbiguous(path)
    \/ \E above, below \in Paths : Obstructed(above, below)

\* The planning gets to the compiler exactly when the priorities are complete and
\* there is no such conflict, which the report else tells as an error.  It says
\* something about a path exactly when the graph has it among its exact
\* collisions, although each finds out on its own, and the compiler never meets a
\* decision or an entry it has to refuse: its own checks (invalidDecision,
\* InvalidEntryKind without a package) never fail.
BlockedByConflictsOnly ==
    /\ pc = "decisions" \/ IsReported => IsComplete
    /\ error.call = "policy" => ~IsComplete
    /\ IsReported => collisions = {d.path : d \in {d \in diagnostics : d.related = {}}}
    /\ pc \in {"compile", "ancestors", "sources", "done"} => ~IsConflicting
    /\ error.code = "BlockingConflicts" => IsConflicting
    /\ IsReported => (blocking <=> HasError(diagnostics))
    /\ error.code # "InvalidResolvedDecision"
    /\ error.code = "InvalidEntryKind" => error.package # {}

\* The namespace is a tree: one entry for a path, directories above every
\* entry, down to the last missing one, and nothing but what was claimed and
\* what lies above it.
NamespaceIsTree ==
    IsCompiled =>
        /\ \A e, f \in entries : e.path = f.path => e = f
        /\ \A e \in entries : \A k \in 2 .. Len(e.path) :
              e.path[k] = Slash =>
                  \E d \in entries : d.path = SubSeq(e.path, 1, k - 1) /\ d.kind = "Directory"
        /\ \A e, f \in entries : IsAbove(e.path, f.path) => e.kind = "Directory"
        /\ \A e \in entries : e.path \in Paths \/ \E path \in Paths : IsAbove(e.path, path)

\* Every claimed path is in the namespace, as a directory if all claims are,
\* else as the one claim whose package comes last in the priorities, whatever
\* the order of the dependencies and of the claims; and it is explained by all
\* the claims that contended.
StrongestClaimsWin ==
    IsCompiled =>
        \A path \in Paths : \E e \in entries :
            /\ e.path = path
            /\ {e.contenders[k] : k \in DOMAIN e.contenders} = {claims[i] : i \in On(path)}
            /\ \/ e.kind = "Directory" /\ \A i \in On(path) : claims[i].kind = "Directory"
               \/ \E i \in On(path) :
                     /\ e.selected = {claims[i]} /\ e.explained = {claims[i]}
                     /\ e.kind = claims[i].kind /\ e.kind # "Directory"
                     /\ \A j \in On(path) \ {i} :
                           Rank(priority, claims[j].package) < Rank(priority, claims[i].package)

\* Every entry that is no directory comes from an entry of that kind of the
\* plan of the package that won the path, and has the location of that plan.
SourcesAreReal ==
    pc = "done" =>
        \A e \in entries : e.kind # "Directory" =>
            \E c \in e.selected, i \in DOMAIN snapshot :
                LET plan == snapshot[i].plan IN
                /\ plan.package = c.package
                /\ e.source = {[package |-> c.package, path |-> c.source,
                                location |-> plan.location]}
                /\ {plan.entries[k].kind : k \in
                       {k \in DOMAIN plan.entries : plan.entries[k].path = c.source}} = {e.kind}
=============================================================================
