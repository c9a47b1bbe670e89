---------------------------- MODULE MCArchiveTree ----------------------------
(* An instance of ArchiveTree for TLC. *)
EXTENDS ArchiveTree

UpTo(n, S) == UNION {[1 .. k -> S] : k \in 0 .. n}
Archive(opens, entries) == [opens |-> opens, format |-> "Zip", entries |-> entries]
Entry(header, path, directory, size) ==
    [header |-> header, path |-> path, directory |-> directory, size |-> size]

\* Every short path, alone in an archive.
PathArchives ==
    {Archive(TRUE, <<Entry("OK", {raw}, FALSE, 1)>>) : raw \in UpTo(5, {"a", "/", "\\", ".", ":"})}

\* Every order of up to three entries on paths above, below and beside each other.
A == <<"a">>
AB == <<"a", "/", "b">>
ABSlash == <<".", "/", "a", "\\", "b", "/">>
TreeEntries ==
    {Entry("OK", {raw}, directory, size) :
        raw \in {A, AB, ABSlash}, directory \in BOOLEAN, size \in {1, 2}}
TreeArchives == {Archive(TRUE, entries) : entries \in UpTo(3, TreeEntries)}

\* Entries that end the call, or are skipped, at every place.
OddEntries ==
    {Entry("bad", {A}, FALSE, 1), Entry("WARN", {AB}, FALSE, 1), Entry("OK", {}, FALSE, 1),
     Entry("OK", {<<".", ".", "/", "a">>}, FALSE, 1), Entry("OK", {AB}, FALSE, 2)}
OddArchives == {Archive(opens, entries) : opens \in BOOLEAN, entries \in UpTo(3, OddEntries)}

MCArchives == PathArchives \union TreeArchives \union OddArchives
=============================================================================
