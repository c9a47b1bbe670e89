------------------------- MODULE ConflictResolution -------------------------
(***************************************************************************)
(* What ConflictResolutionPolicy::create and                               *)
(* ConflictResolutionReport::create are built from: for every path which   *)
(* claim wins, and what the user is told.  Priorities are a list of the    *)
(* packages, the last one the strongest; it has nothing to do with the     *)
(* order of the dependencies.  An optional value is a set of one element   *)
(* at most.                                                                *)
(***************************************************************************)
EXTENDS FileOwnership

DecisionKinds == {"SingleClaim", "MergedDirectories", "PriorityWinner", "Unresolved"}
Warnings == {"ExactPathWinnerSelected"}
Errors == {"MixedEntryKinds", "AmbiguousHighestPriorityClaim", "PathObstruction"}

\* The claims it has are those on its two paths, its severity and remediation
\* follow from the code.
Diagnostic(code, path, related, selected) ==
    [code |-> code, path |-> path, related |-> related, selected |-> selected]

\* The first entry of the list of priorities that cannot stand.
IsDuplicate(priority, i) == \E j \in 1 .. i - 1 : priority[j] = priority[i]
PolicyFaults(order, priority) ==
    {i \in DOMAIN priority : IsDuplicate(priority, i) \/ ~Has(order, priority[i])}
First(indexes) == CHOOSE i \in indexes : \A j \in indexes : i <= j

\* The last of the strongest, because >= stands for > (a mutated form).
LastStrongest(claims, priority) ==
    {i \in DOMAIN claims : \A j \in DOMAIN claims :
        \/ Rank(priority, claims[j].package) < Rank(priority, claims[i].package)
        \/ claims[j].package = claims[i].package /\ j <= i}

\* The claims of the package with the highest priority.
Strongest(claims, priority) ==
    {i \in DOMAIN claims :
        \A j \in DOMAIN claims :
            Rank(priority, claims[j].package) <= Rank(priority, claims[i].package)}

Decision(node, kind, selected) ==
    [path |-> node.path, kind |-> kind, claims |-> node.claims, selected |-> selected]

\* The decision on a path and what is said about it.
decide(node, priority) ==
    LET claims == node.claims
        strongest == Strongest(claims, priority)
        winner == {claims[First(strongest)]}
        Silent(kind, selected) ==
            [decision |-> Decision(node, kind, selected), diagnostics |-> {}]
        Unresolved(code) ==
            [decision |-> Decision(node, "Unresolved", {}),
             diagnostics |-> {Diagnostic(code, node.path, {}, {})}]
    IN  IF Len(claims) = 1 THEN Silent("SingleClaim", {claims[1]})
        ELSE IF ~containsNonDirectory(claims) THEN Silent("MergedDirectories", {})
        ELSE IF containsDirectory(claims) THEN Unresolved("MixedEntryKinds")
        ELSE IF \E i, j \in strongest : i # j THEN Unresolved("AmbiguousHighestPriorityClaim")
        ELSE [decision |-> Decision(node, "PriorityWinner", winner),
              diagnostics |->
                  {Diagnostic("ExactPathWinnerSelected", node.path, {}, winner)}]

ObstructionDiagnostics(obstructions) ==
    {Diagnostic("PathObstruction", o.ancestor, {o.descendant}, {}) : o \in obstructions}

\* ConflictDiagnosticSeverity::Error.
HasError(diagnostics) == \E d \in diagnostics : d.code \in Errors
=============================================================================
