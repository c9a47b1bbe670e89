----------------------------- MODULE MCGamePlan -----------------------------
(* Instances of GamePlan for TLC. *)
EXTENDS GamePlan, SequencesExt, FiniteSetsExt

\* 45 is the minus sign, which sorts before the slash (47), 97 and 98 letters.
A == <<97>>
AMinus == <<97, 45>>
AB == <<97, 47, 98>>
AMinusB == <<97, 45, 47, 98>>
ABA == <<97, 47, 98, 47, 97>>
SlashA == <<47, 97>>
ASlash == <<97, 47>>

Claim(package, path, kind) ==
    [package |-> package, source |-> path, path |-> path, kind |-> kind]
ClaimsOf(packages, paths, kinds) ==
    {Claim(package, path, kind) : package \in packages, path \in paths, kind \in kinds}
UpTo(n, S) == UNION {[1 .. k -> S] : k \in 0 .. n}

OneOrder == {<<"p">>}
Orders == {<<"p", "q">>, <<"q", "p">>}
BadPriorities == {<<>>, <<"p">>, <<"q", "q">>, <<"p", "r">>, <<"r", "r", "q">>, <<"q", "p", "p">>}
Priorities == Orders \union BadPriorities
NoSnapshot == {<<>>}

\* Sets of claims, listed in one order and in its reverse.
TreeClaims == ClaimsOf({"p"}, {Root, A, AMinus, AB, AMinusB, ABA, SlashA, ASlash},
                       {"RegularFile", "Directory"})
TreeClaimLists ==
    LET lists == {SetToSeq(S) : S \in UNION {kSubset(k, TreeClaims) : k \in 0 .. 4}}
    IN  lists \union {Reverse(list) : list \in lists}

WinnerClaimLists ==
    UpTo(3, ClaimsOf({"p", "q"}, {A, AB}, Kinds)) \union UpTo(2, ClaimsOf({"p", "r"}, {A}, Kinds))

SourceClaimLists ==
    {<<>>, <<Claim("p", A, "RegularFile")>>, <<Claim("p", AB, "Directory")>>,
     <<Claim("p", A, "RegularFile"), Claim("q", AMinus, "SymbolicLink")>>}
Plan(package, kinds) ==
    [package |-> package, location |-> IF package = "p" THEN "staging" ELSE "store",
     entries |-> [i \in DOMAIN kinds |-> [path |-> IF package = "p" THEN A ELSE AMinus,
                                          kind |-> kinds[i]]],
     mappings |-> <<>>]
Records ==
    {[lookup |-> id, plan |-> Plan(package, kinds)] :
        id \in {"p", "q"}, package \in {"p", "q"}, kinds \in UpTo(2, Kinds)}
Snapshots == UpTo(2, Records)


\* Plans whose entries lie under a root, beside it under a name that begins like
\* it, and nowhere, with up to two roots, one below the other.
Mapping(package_root, game_root) == [package_root |-> package_root, game_root |-> game_root]
MappingLists ==
    UpTo(2, {Mapping(A, Root), Mapping(A, AB), Mapping(AB, A), Mapping(Root, A),
             Mapping(ASlash, AMinus)})
MappedPlan(package, paths, kinds, mappings) ==
    [package |-> package, location |-> "store",
     entries |-> [i \in DOMAIN paths |-> [path |-> paths[i], kind |-> kinds[i]]],
     mappings |-> mappings]
OnePlan ==
    {<<MappedPlan("p", paths, [i \in DOMAIN paths |-> "RegularFile"], mappings)>> :
        paths \in UpTo(2, {A, AB, AMinus, AMinusB, ABA, ASlash}), mappings \in MappingLists}
TwoPlans ==
    {<<MappedPlan("p", paths, kinds, <<Mapping(A, game_root)>>),
       MappedPlan(package, <<path>>, <<kind>>, <<Mapping(A, game_root)>>)>> :
        paths \in {<<AB, AB>>, <<A, AB>>}, kinds \in [1 .. 2 -> Kinds],
        path \in {A, AB}, kind \in Kinds,
        game_root \in {Root, AMinusB}, package \in {"p", "q", "r"}}

InputsOf(orders, claimLists, priorities, snapshots) ==
    [order : orders, plans : {<<>>}, claims : claimLists, priority : priorities,
     snapshot : snapshots]
\* The snapshot of the plans, and one that lacks the last of them.
SnapshotOf(p) == [i \in DOMAIN p |-> [lookup |-> p[i].package, plan |-> p[i]]]
InputsWith(orders, p) ==
    {[order |-> o, plans |-> p, claims |-> <<>>, priority |-> o, snapshot |-> s] :
        o \in orders, s \in {SnapshotOf(p), Front(SnapshotOf(p))}}
MCInputs ==
    InputsOf(OneOrder, TreeClaimLists, OneOrder, NoSnapshot)
        \union InputsOf(Orders, WinnerClaimLists, Priorities, NoSnapshot)
        \union InputsOf(Orders, SourceClaimLists, Orders, Snapshots)
        \union UNION {InputsWith(OneOrder, p) : p \in OnePlan}
        \union UNION {InputsWith(Orders, p) : p \in TwoPlans}
=============================================================================
