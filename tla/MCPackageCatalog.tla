-------------------------- MODULE MCPackageCatalog --------------------------
(* Instances of PackageCatalog for TLC. *)
EXTENDS PackageCatalog

CONSTANTS t1, t2, o1, o2

\* "?" is U+FFFD; "x" and "y" are not UTF-8 and become it.
MCTexts == {"", "a", "b", "x", "y", "?"}
MCAsText == [s \in MCTexts |-> IF s \in {"x", "y"} THEN "?" ELSE s]

Package(id, name, path, ref) == [id |-> id, name |-> name, path |-> path, ref |-> ref]
\* 47 is the slash, 255 a byte that is in no UTF-8 text.
PackageA == Package("a", "a", <<47, 255>>, Missing)
OtherA == Package("a", "b", Missing, "b")
UnclearA == Package("a", "x", <<47, 255>>, "y")
PackageB == Package("b", "b", <<47>>, "a")
Nameless == Package("b", "", <<47>>, Missing)
PackageX == Package("x", "a", <<47>>, Missing)
PackageY == Package("y", "b", <<47>>, Missing)

Absent == [form |-> "absent", schema |-> 0, entries |-> <<>>]
Garbage == [form |-> "garbage", schema |-> 0, entries |-> <<>>]
Schema(halves) == [Document(<<PackageA>>) EXCEPT !.schema = halves]
Hex(digits) == [Document(<<PackageA>>) EXCEPT !.entries[1].path = digits]

GoodFiles == {Absent, Document(<<>>), Document(<<PackageA>>), Document(<<PackageB, OtherA>>)}
BadFiles ==
    {Garbage, Schema(0), Schema(3), Schema(4), Document(<<PackageA, OtherA>>),
     Document(<<Nameless>>), Hex(<<2, 15, 15>>), Hex(<<2, 16>>)}

MCOneObject == [t \in Threads |-> o1]
MCTwoObjects == [t \in Threads |-> IF t = t2 THEN o2 ELSE o1]
MCStoreFiles == GoodFiles \union BadFiles
MCTextFiles == {Absent}
MCSharedFiles == {Absent, Document(<<PackageA>>)}
MCStorePackages == {PackageA, OtherA, PackageB, Nameless}
MCSharedPackages == {PackageA, UnclearA, PackageB}
MCTextPackages == {PackageA, PackageX, PackageY}
=============================================================================
