--------------------------- MODULE MCPackageGraph ---------------------------
(* Inputs for the model checker.                                           *)
EXTENDS PackageGraph

Ids == {"a", "b", "c"}
SmallEnabled == {<<>>, <<"a">>, <<"a", "b">>, <<"b", "a">>, <<"a", "b", "a">>, <<"b", "b">>}

UpTo(n, S) == UNION {[1 .. k -> S] : k \in 0 .. n}
SomeDependencies == UpTo(2, [dependent : Ids, required : Ids])
SomeConstraints == UpTo(1, [before : Ids, after : Ids])

InputsOf(enabledLists, dependencyLists, constraintLists) ==
    [enabled : enabledLists, dependencies : dependencyLists, constraints : constraintLists]

\* Four packages and every set of dependencies between them, with a constraint
\* that repeats one of them, contradicts one, or adds to them.
Four == {"a", "b", "c", "d"}
FourEnabled == {<<"c", "a", "d", "b">>}
Needs(p, q) == [dependent |-> p, required |-> q]
AllDependencies ==
    <<Needs("a", "b"), Needs("a", "c"), Needs("a", "d"), Needs("b", "a"),
      Needs("b", "c"), Needs("b", "d"), Needs("c", "a"), Needs("c", "b"),
      Needs("c", "d"), Needs("d", "a"), Needs("d", "b"), Needs("d", "c")>>
EveryGraph ==
    {SelectSeq(AllDependencies, LAMBDA d : d \in chosen) :
        chosen \in SUBSET {AllDependencies[i] : i \in DOMAIN AllDependencies}}
OneConstraint == {<<[before |-> "b", after |-> "a"]>>}
MCInputs ==
    InputsOf(SmallEnabled, SomeDependencies, SomeConstraints)
        \union InputsOf(FourEnabled, EveryGraph, OneConstraint)
=============================================================================
