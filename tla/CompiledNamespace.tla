------------------------- MODULE CompiledNamespace -------------------------
(***************************************************************************)
(* What NamespaceCompilationResult::compile and                            *)
(* CompiledNamespace::mapSources are built from.  The entries of a         *)
(* namespace are a set here: the code sorts them by their paths, of which  *)
(* each has one entry.  An entry carries its explanation (the claims that  *)
(* contended, and the one that is named as selected); its kind is that of  *)
(* the origin.  An optional value is a set of one element at most.         *)
(***************************************************************************)
EXTENDS ConflictResolution

Origins == {"SingleClaim", "MergedDirectories", "PriorityWinner", "SyntheticDirectory"}

Entry(path, kind, origin, selected, contenders, explained) ==
    [path |-> path, kind |-> kind, origin |-> origin, selected |-> selected,
     contenders |-> contenders, explained |-> explained, source |-> {}]

WithSource(entry, source) ==
    [path |-> entry.path, kind |-> entry.kind, origin |-> entry.origin,
     selected |-> entry.selected, contenders |-> entry.contenders,
     explained |-> entry.explained, source |-> source]

\* compileDecision: the entry, or none when the decision is not valid.
compileDecision(d) ==
    LET directory(explained) ==
            Entry(d.path, "Directory", d.kind, {}, d.claims, explained)
        selected(c) == Entry(d.path, c.kind, d.kind, d.selected, d.claims, d.selected)
        onPath == {c \in d.selected : c.path = d.path}
    IN  CASE d.kind = "SingleClaim" ->
                 IF Len(d.claims) = 1
                 THEN {IF c.kind = "Directory" THEN directory(d.selected) ELSE selected(c) :
                          c \in onPath}
                 ELSE {}
          [] d.kind = "MergedDirectories" ->
                 IF d.claims # <<>> /\ d.selected = {} /\ ~containsNonDirectory(d.claims)
                 THEN {directory({})}
                 ELSE {}
          [] d.kind = "PriorityWinner" ->
                 {selected(c) : c \in {c \in onPath : c.kind # "Directory"}}
          [] d.kind = "Unresolved" -> {}

\* Only the directory right above an entry is made (a mutated form).
syntheticParents(decisions) ==
    LET occupied == {decisions[k].path : k \in DOMAIN decisions}
    IN  (UNION {{a \in AncestorPaths(p) : \A b \in AncestorPaths(p) : Len(b) <= Len(a)} :
                    p \in occupied}) \ occupied

\* The directories nobody claims that lie above a claimed path.
syntheticAncestors(decisions) ==
    LET occupied == {decisions[k].path : k \in DOMAIN decisions}
    IN  (UNION {AncestorPaths(p) : p \in occupied}) \ occupied

SyntheticEntry(path) == Entry(path, "Directory", "SyntheticDirectory", {}, <<>>, {})

-----------------------------------------------------------------------------
(* Where the contents of the entries come from.  The snapshot is a list of *)
(* the packages' plans, each under the id it was looked up with.           *)

IsMismatched(record) == record.lookup # record.plan.package
SnapshotFaults(snapshot) ==
    {i \in DOMAIN snapshot :
        \/ IsMismatched(snapshot[i])
        \/ \E j \in 1 .. i - 1 : snapshot[j].lookup = snapshot[i].lookup}

\* entry_kinds: the kinds a plan gives to one of its paths.
KindsOf(plan, path) ==
    {plan.entries[i].kind : i \in {i \in DOMAIN plan.entries : plan.entries[i].path = path}}

PlanOf(snapshot, package) ==
    snapshot[CHOOSE i \in DOMAIN snapshot : snapshot[i].lookup = package].plan

\* An entry that the compiler should not have made.
IsMalformed(entry) ==
    IF entry.kind = "Directory" THEN entry.selected # {} \/ entry.source # {}
    ELSE \A c \in entry.selected : c.kind # entry.kind

\* The code of the error for an entry and the package it names, or none.
EntryFault(snapshot, entry) ==
    IF IsMalformed(entry) THEN {[code |-> "InvalidEntryKind", package |-> {}]}
    ELSE IF entry.kind = "Directory" THEN {}
    ELSE LET c == CHOOSE c \in entry.selected : TRUE
             kinds == KindsOf(PlanOf(snapshot, c.package), c.source)
             Fault(code) == {[code |-> code, package |-> {c.package}]}
         IN  IF \A i \in DOMAIN snapshot : snapshot[i].lookup # c.package
             THEN Fault("MissingPackage")
             ELSE IF kinds = {} THEN Fault("MissingSourceEntry")
             ELSE IF kinds # {entry.kind} THEN Fault("InvalidEntryKind")
             ELSE {}

\* The package with the claim, not its plan, names the location (a mutated form).
SourcedByFirst(snapshot, entry) ==
    WithSource(entry,
        {[package |-> c.package, path |-> c.source, location |-> snapshot[1].plan.location] :
            c \in entry.selected})

Sourced(snapshot, entry) ==
    WithSource(entry,
        {[package |-> c.package, path |-> c.source,
          location |-> PlanOf(snapshot, c.package).location] : c \in entry.selected})
=============================================================================
