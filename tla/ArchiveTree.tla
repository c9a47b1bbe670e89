----------------------------- MODULE ArchiveTree -----------------------------
(***************************************************************************)
(* LibArchiveReader::readTree, with the normaliser of entry paths and the  *)
(* insertion into the tree, and LibArchivePackageDetector::detectFormat.   *)
(* A step is the opening of the archive or one iteration of the loop over  *)
(* its entries.  Texts are sequences of characters.                        *)
(***************************************************************************)
EXTENDS Integers, Sequences, SequencesExt, FiniteSetsExt

CONSTANTS
    Letters,             \* the letters that can begin a drive
    Archives             \* the archives considered

Separators == {"/", "\\"}
Characters == Letters \union Separators \union {".", ":"}
Formats == {"Zip", "SevenZip", "Rar", "Unknown"}
Optional(S) == {o \in SUBSET S : \A a, b \in o : a = b}
Entries == [header : {"OK", "WARN", "bad"}, path : Optional(Seq(Characters)),
            directory : BOOLEAN, size : Nat]

Files == [opens : BOOLEAN, format : Formats, entries : Seq(Entries)]

ASSUME ArchivesAssumption == Archives \subseteq Files

VARIABLES
    archive, operation,  \* the file, and what is asked about it
    pc, next,            \* where the call is, the entry it reads next
    handle,              \* the struct archive: "none", "open", "freed" or worse
    tree,                \* path -> node, as a set of records: one per path
    format,              \* what detectFormat found
    error                \* the error, or "none"

vars == <<archive, operation, pc, next, handle, tree, format, error>>
input == <<archive, operation>>

-----------------------------------------------------------------------------
(* PathNormalizer::normalizeArchiveEntry.                                  *)

\* The parts of a text between the slashes: those of its first n characters.
SegmentsUpTo(text) ==
    LET upTo[n \in 0 .. Len(text)] ==
            IF n = 0 THEN <<<<>>>>
            ELSE IF text[n] = "/" THEN Append(upTo[n - 1], <<>>)
            ELSE Append(Front(upTo[n - 1]), Append(Last(upTo[n - 1]), text[n]))
    IN  upTo
Segments(text) == SegmentsUpTo(text)[Len(text)]

\* The segments but those that are not names, in their order.
WithoutUpTo(segments, nameless) ==
    LET upTo[n \in 0 .. Len(segments)] ==
            IF n = 0 THEN <<>>
            ELSE IF segments[n] \in nameless THEN upTo[n - 1]
            ELSE Append(upTo[n - 1], segments[n])
    IN  upTo
Without(segments, nameless) == WithoutUpTo(segments, nameless)[Len(segments)]

ToSlashes(raw) == [i \in DOMAIN raw |-> IF raw[i] = "\\" THEN "/" ELSE raw[i]]

DotDot == <<".", ".">>
Finds(text, part) ==
    \E i \in 1 .. Len(text) - Len(part) + 1 : SubSeq(text, i, i + Len(part) - 1) = part

\* The end of the path forgotten (a mutated form).
IsTraversalInside(view) ==
    \/ view = DotDot \/ IsPrefix(<<".", ".", "/">>, view)
    \/ Finds(view, <<"/", ".", ".", "/">>)

IsTraversal(view) ==
    \/ view = DotDot
    \/ IsPrefix(<<".", ".", "/">>, view) \/ IsSuffix(<<"/", ".", ".">>, view)
    \/ Finds(view, <<"/", ".", ".", "/">>)

IsAbsolute(text) ==
    \/ text[1] = "/"
    \/ Len(text) >= 2 /\ text[1] \in Letters /\ text[2] = ":"

\* The error, or the segments that are left; a join and a split later they are
\* the same.
normalizeArchiveEntry(raw) ==
    LET text == ToSlashes(raw)
        Answer(code, segments) == [error |-> code, segments |-> segments]
    IN  CASE text = <<>> -> Answer("none", <<>>)
          [] text # <<>> /\ IsAbsolute(text) -> Answer("AbsoluteNotAllowed", <<>>)
          [] text # <<>> /\ ~IsAbsolute(text) /\ IsTraversal(text) ->
                Answer("TraversalNotAllowed", <<>>)
          [] OTHER ->
                Answer("none", Without(Segments(text), {<<>>, <<".">>}))

-----------------------------------------------------------------------------
(* insertIntoTree.                                                         *)

Node(path, directory, size) == [path |-> path, directory |-> directory, size |-> size]
NodesAt(nodes, path) == {n \in nodes : n.path = path}

\* A node that is there stays as it is (a mutated form).
VisitNodeOnce(nodes, path, last, entry) ==
    IF NodesAt(nodes, path) # {} THEN nodes
    ELSE nodes \union {Node(path, ~last \/ entry.directory,
                            IF last /\ ~entry.directory THEN entry.size ELSE 0)}

\* One iteration of the loop over the segments: find the node or add it.
VisitNode(nodes, path, last, entry) ==
    IF NodesAt(nodes, path) = {}
    THEN nodes \union {Node(path, ~last \/ entry.directory,
                            IF last /\ ~entry.directory THEN entry.size ELSE 0)}
    ELSE IF last /\ entry.directory
    THEN {IF n.path = path THEN [n EXCEPT !.directory = TRUE] ELSE n : n \in nodes}
    ELSE nodes

\* The nodes after each iteration.
Visited(nodes, named, entry) ==
    LET visited[i \in 0 .. Len(named)] ==
            IF i = 0 THEN nodes
            ELSE VisitNode(visited[i - 1], SubSeq(named, 1, i), i = Len(named), entry)
    IN  visited

insertIntoTree(nodes, segments, entry) ==
    LET named == Without(segments, {<<>>, <<".">>, DotDot})
    IN  Visited(nodes, named, entry)[Len(named)]

-----------------------------------------------------------------------------
(* The calls.                                                              *)

Init ==
    /\ archive \in Archives /\ operation \in {"readTree", "detectFormat"}
    /\ pc = "open" /\ next = 1
    /\ handle = "open"                                   \* archive_read_new
    /\ tree = {} /\ format = "Unknown" /\ error = "none"

\* The handle kept (a mutated form).
ReturnOnly(code) == pc' = "done" /\ error' = code /\ UNCHANGED handle

\* archive_read_free and return.
FreeAndReturn(code) ==
    /\ pc' = "done" /\ error' = code
    /\ handle' = IF handle = "open" THEN "freed" ELSE "freed twice"

Open ==
    /\ pc = "open"
    /\ IF archive.opens
       THEN pc' = operation /\ UNCHANGED <<handle, error>>
       ELSE FreeAndReturn("IoError")
    /\ UNCHANGED <<input, next, tree, format>>

\* A bad header, or an entry whose path is refused.
Refuse(code) == FreeAndReturn(code) /\ UNCHANGED <<next, tree>>

\* One iteration of the loop of readTree.  An entry without a name is skipped.
NextEntry ==
    /\ pc = "readTree"
    /\ IF next > Len(archive.entries) THEN FreeAndReturn("none") /\ UNCHANGED <<next, tree>>
       ELSE LET entry == archive.entries[next]
                normalized == {normalizeArchiveEntry(raw) : raw \in entry.path}
            IN  IF entry.header = "bad" THEN Refuse("CorruptHeader")
                ELSE IF \E n \in normalized : n.error # "none" THEN Refuse("InvalidFormat")
                ELSE /\ tree' = (UNION {insertIntoTree(tree, n.segments, entry) : n \in normalized})
                                  \union (IF normalized = {} THEN tree ELSE {})
                     /\ next' = next + 1
                     /\ UNCHANGED <<pc, handle, error>>
    /\ UNCHANGED <<input, format>>

\* The format of an archive whose first header is read without a warning.
Detect ==
    /\ pc = "detectFormat"
    /\ format' = IF archive.entries # <<>> /\ archive.entries[1].header = "OK"
                 THEN archive.format ELSE "Unknown"
    /\ FreeAndReturn("none")
    /\ UNCHANGED <<input, next, tree>>

Done == pc = "done" /\ UNCHANGED vars

Next == Open \/ NextEntry \/ Detect \/ Done

Spec == Init /\ [][Next]_vars

-----------------------------------------------------------------------------
(* Properties.                                                             *)

(* The members have their types, and every way out of both calls frees the  *)
(* archive, once.                                                          *)
TypeOK ==
    /\ archive \in Files /\ operation \in {"readTree", "detectFormat"}
    /\ pc \in {"open", "readTree", "detectFormat", "done"} /\ next \in 1 .. Len(archive.entries) + 1
    /\ handle = IF pc = "done" THEN "freed" ELSE "open"
    /\ \A n \in tree : /\ n.path \in Seq(Seq(Characters \ Separators) \ {<<>>}) \ {<<>>}
                       /\ n.directory \in BOOLEAN /\ n.size \in Nat
    /\ format \in Formats
    /\ error \in {"none", "IoError", "CorruptHeader", "InvalidFormat"}

\* What lies between two separators of a path, or a separator and an end.
Parts(raw) ==
    LET IsEdge(i) == i \notin DOMAIN raw \/ raw[i] \in Separators
        IsPart(i, j) == /\ i <= j /\ IsEdge(i - 1) /\ IsEdge(j + 1)
                        /\ \A k \in i .. j : ~IsEdge(k)
    IN  {SubSeq(raw, p[1], p[2]) :
            p \in {q \in (DOMAIN raw) \X (DOMAIN raw) : IsPart(q[1], q[2])}}
LeadsOut(raw) ==
    \/ DotDot \in Parts(raw)
    \/ raw # <<>> /\ (raw[1] \in Separators \/ (Len(raw) > 1 /\ raw[1] \in Letters /\ raw[2] = ":"))

(* An archive is refused exactly at its first path that leads out of it: the *)
(* searches for "../" and the like miss no part that is "..", whatever mix   *)
(* of separators is around it, and take no name like "..a" for one.          *)
RefusedWhereItLeadsOut ==
    /\ \A i \in 1 .. next - 1 : \A raw \in archive.entries[i].path : ~LeadsOut(raw)
    /\ error = "InvalidFormat" => \E raw \in archive.entries[next].path : LeadsOut(raw)

(* The tree has the paths of the entries read and all their ancestors.  A    *)
(* path is a directory if an entry says so or if the first entry at or below *)
(* it is below it; it has the size of that first entry if it is a file: a    *)
(* file that comes before its own children stays one, and of two files with  *)
(* one path the first counts.                                               *)
TreeIsThatOfItsEntries ==
    LET paths(i) == {normalizeArchiveEntry(raw).segments : raw \in archive.entries[i].path}
        at(p) == {i \in 1 .. next - 1 : p \in paths(i)}
        first(p) == Min({i \in 1 .. next - 1 : \E s \in paths(i) : IsPrefix(p, s)})
        all == UNION {UNION {{SubSeq(s, 1, n) : n \in 1 .. Len(s)} : s \in paths(i)} :
                         i \in 1 .. next - 1}
        entry(i) == archive.entries[i]
    IN  operation = "readTree" =>
            tree = {Node(p, first(p) \notin at(p) \/ \E i \in at(p) : entry(i).directory,
                         IF first(p) \in at(p) /\ ~entry(first(p)).directory
                         THEN entry(first(p)).size ELSE 0) : p \in all}
=============================================================================
