---------------------------- MODULE MCStagingCopy ----------------------------
(* An instance of StagingCopy for TLC. *)
EXTENDS StagingCopy

CONSTANT c1

\* Files of no buffer, of one, of a tail only, and of two of each kind.
MCSources == {<<>>, <<"A">>, <<"t">>, <<"A", "B">>, <<"B", "t">>}
=============================================================================
