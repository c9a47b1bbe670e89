----------------------------- MODULE GamePaths -----------------------------
(***************************************************************************)
(* Paths in a package and in the game directory: byte strings, of which    *)
(* only the slash has a meaning.  Nothing normalises them here.            *)
(***************************************************************************)
EXTENDS Integers, SequencesExt

Slash == 47
Root == <<>>

\* bytesLess: byte by byte, and a path after what it starts with.
bytesLess(left, right) ==
    \E n \in 0 .. Len(left) :
        /\ n <= Len(right)
        /\ \A k \in 1 .. n : left[k] = right[k]
        /\ \/ n = Len(left) /\ n < Len(right)
           \/ n < Len(left) /\ n < Len(right) /\ left[n + 1] < right[n + 1]

starts_with(path, prefix) == IsPrefix(prefix, path)

\* The part of the path before one of its slashes, but never nothing.
AncestorPaths(path) ==
    {SubSeq(path, 1, n - 1) : n \in {k \in 2 .. Len(path) : path[k] = Slash}}
=============================================================================
