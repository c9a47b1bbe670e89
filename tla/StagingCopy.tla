----------------------------- MODULE StagingCopy -----------------------------
(***************************************************************************)
(* StagingRepositoryImpl::stagePackage: checks on the source, a directory  *)
(* of its own in the staging root, and a loop that copies a buffer at a    *)
(* time and hashes what it copies.  Other calls run at the same time, the  *)
(* source can change, devices fail, and the program can crash.             *)
(***************************************************************************)
EXTENDS Naturals, Sequences, FiniteSets

CONSTANTS
    Calls,               \* calls of stagePackage
    Buffers,             \* full buffers of the source, by what is in them
    Tails,               \* last buffers, of no more than a QFile holds back
    Sources,             \* what the source file may hold
    Limits               \* maximal sizes that a policy may set, in buffers

ASSUME SourcesAssumption ==
    /\ Sources \subseteq Seq(Buffers \union Tails) /\ Buffers \cap Tails = {}
    /\ \A s \in Sources : \A i \in DOMAIN s : s[i] \in Tails => i = Len(s)
ASSUME LimitsAssumption == Limits \subseteq Nat

VARIABLES
    present, source,     \* the source file
    directories,         \* calls whose directory is in the staging root
    pc,                  \* call -> where it is
    policy,              \* call -> the size allowed, whether the extension is, the checksum
    size,                \* call -> file_size
    copied,              \* call -> the buffers read, of which the digest is made
    staged,              \* call -> those that are in the staged file, and not in a buffer
    progress,            \* call -> bytes_copied of the last progress callback
    answer,              \* call -> the error, or "ok"
    checksum,            \* call -> the content its digest belongs to, if there is one
    \* history
    opened,              \* call -> what the source held when it was opened
    trouble              \* call -> what failed, or changed, without failing the call

vars == <<present, source, directories, pc, policy, size, copied, staged, progress,
          answer, checksum, opened, trouble>>
file == <<present, source>>
loop == <<copied, staged, progress>>
fixed == <<policy, size, opened>>
result == <<answer, checksum>>

Policies == [limit : Limits, allowed : BOOLEAN, require_checksum : BOOLEAN]
ImportErrors ==
    {"FileNotFound", "AccessDenied", "UnsupportedFormat", "ExceedsSizeLimit", "StagingFailed"}
Troubles == {"source", "read", "close", "remove"}
Content == Seq(Buffers \union Tails)
PerCall(value) == [c \in Calls |-> value]

Init ==
    /\ present \in BOOLEAN /\ source \in Sources
    /\ directories = {}
    /\ pc = PerCall("called")
    /\ policy \in [Calls -> Policies]
    /\ size = PerCall(0)
    /\ copied = PerCall(<<>>) /\ staged = PerCall(<<>>)
    /\ progress = PerCall(0)
    /\ answer = PerCall("none") /\ checksum = PerCall({})
    /\ opened = PerCall(<<>>) /\ trouble = PerCall({})

Suffer(c, what) == trouble' = [trouble EXCEPT ![c] = @ \union {what}]
Running(c) == pc[c] \notin {"done", "crashed"}
Goto(c, from, to) == pc[c] = from /\ pc' = [pc EXCEPT ![c] = to] /\ UNCHANGED result
Fail(c, from, error) ==
    /\ pc[c] = from
    /\ pc' = [pc EXCEPT ![c] = "done"]
    /\ answer' = [answer EXCEPT ![c] = error]
    /\ UNCHANGED checksum

-----------------------------------------------------------------------------
(* The checks.                                                             *)

\* exists, which throws if it cannot find out.
Look(c) ==
    /\ \/ present /\ Goto(c, "called", "exists")
       \/ ~present /\ Fail(c, "called", "FileNotFound")
       \/ Fail(c, "called", "exception")
    /\ UNCHANGED <<file, directories, fixed, loop, trouble>>

\* file_size, and the two checks that need nothing else.
Measure(c) ==
    /\ \/ /\ present
          /\ size' = [size EXCEPT ![c] = Len(source)]
          /\ IF Len(source) > policy[c].limit THEN Fail(c, "exists", "ExceedsSizeLimit")
             ELSE IF ~policy[c].allowed THEN Fail(c, "exists", "UnsupportedFormat")
             ELSE Goto(c, "exists", "measured")
       \/ Fail(c, "exists", "AccessDenied") /\ UNCHANGED size
    /\ UNCHANGED <<file, directories, policy, opened, loop, trouble>>

\* The source changed after it was measured: nothing looks again.
OpenSource(c) ==
    /\ \/ /\ present /\ Goto(c, "measured", "opened")
          /\ opened' = [opened EXCEPT ![c] = source]
          /\ IF Len(source) = size[c] THEN UNCHANGED trouble ELSE Suffer(c, "source")
       \/ Fail(c, "measured", "AccessDenied") /\ UNCHANGED <<opened, trouble>>
    /\ UNCHANGED <<file, directories, policy, size, loop>>

-----------------------------------------------------------------------------
(* The copy.                                                               *)

\* A directory with a name nobody else has.
MakeDirectory(c) ==
    /\ \/ Goto(c, "opened", "made") /\ directories' = directories \union {c}
       \/ Fail(c, "opened", "StagingFailed") /\ UNCHANGED directories
    /\ UNCHANGED <<file, fixed, loop, trouble>>

\* remove_all, whose failure is not looked at, and StagingFailed.
Withdraw(c, from) ==
    /\ Fail(c, from, "StagingFailed")
    /\ \/ directories' = directories \ {c} /\ UNCHANGED trouble
       \/ UNCHANGED directories /\ Suffer(c, "remove")

\* The directory left where it is (a mutated form).
OpenCopyOrLeave(c) ==
    /\ \/ Goto(c, "made", "reading") /\ UNCHANGED <<directories, trouble>>
       \/ Fail(c, "made", "StagingFailed") /\ UNCHANGED <<directories, trouble>>
    /\ UNCHANGED <<file, fixed, loop>>

OpenCopy(c) ==
    /\ \/ Goto(c, "made", "reading") /\ UNCHANGED <<directories, trouble>>
       \/ Withdraw(c, "made")
    /\ UNCHANGED <<file, fixed, loop>>

\* A buffer that is not full ends the loop (a mutated form).
ReadFullBuffers(c) ==
    /\ LET position == Len(copied[c]) + 1 IN
       \/ /\ position \in DOMAIN source /\ source[position] \notin Tails
          /\ Goto(c, "reading", "writing")
          /\ copied' = [copied EXCEPT ![c] = Append(@, source[position])]
       \/ /\ position \in DOMAIN source => source[position] \in Tails
          /\ Goto(c, "reading", "closing")
          /\ UNCHANGED copied
    /\ UNCHANGED <<file, directories, fixed, staged, progress, trouble>>

\* An error while reading starts the copy again (a mutated form).
ReadOrStartAgain(c) ==
    /\ LET position == Len(copied[c]) + 1 IN
       \/ /\ position \in DOMAIN source
          /\ \/ /\ Goto(c, "reading", "writing")
                /\ copied' = [copied EXCEPT ![c] = Append(@, source[position])]
                /\ UNCHANGED staged
             \/ /\ Goto(c, "reading", "reading")
                /\ copied' = [copied EXCEPT ![c] = <<>>] /\ staged' = [staged EXCEPT ![c] = <<>>]
       \/ /\ position \notin DOMAIN source
          /\ Goto(c, "reading", "closing") /\ UNCHANGED <<copied, staged>>
    /\ UNCHANGED <<file, directories, fixed, progress, trouble>>

\* atEnd, read and addData.  A read that fails gives an empty buffer, which
\* ends the loop as the end of the file does.
Read(c) ==
    /\ LET position == Len(copied[c]) + 1 IN
       \/ /\ position \in DOMAIN source
          /\ Goto(c, "reading", "writing")
          /\ copied' = [copied EXCEPT ![c] = Append(@, source[position])]
          /\ UNCHANGED trouble
       \/ /\ Goto(c, "reading", "closing")
          /\ IF position \in DOMAIN source THEN Suffer(c, "read") ELSE UNCHANGED trouble
          /\ UNCHANGED copied
    /\ UNCHANGED <<file, directories, fixed, staged, progress>>

\* A full buffer goes to the file at once, after what was held back, and a short
\* write is noticed.  A tail is held back in the buffer of the QFile.
Write(c) ==
    /\ LET held == copied[c] # <<>> /\ copied[c][Len(copied[c])] \in Tails IN
       \/ /\ Goto(c, "writing", "reading")
          /\ staged' = IF held THEN staged ELSE [staged EXCEPT ![c] = copied[c]]
          /\ progress' = [progress EXCEPT ![c] = Len(copied[c])]
          /\ UNCHANGED <<directories, trouble>>
       \/ /\ ~held /\ Withdraw(c, "writing")
          /\ UNCHANGED <<staged, progress>>
    /\ UNCHANGED <<file, fixed, copied>>

\* A digest of the source as it is now (a mutated form).
DigestOf(c) == source

\* What has been added to the QCryptographicHash.  Different contents are taken
\* to have different digests.
Digest(c) == copied[c]

\* close writes the tail that was held back, and its failure is not looked at.
Close(c) ==
    /\ pc[c] = "closing"
    /\ pc' = [pc EXCEPT ![c] = "done"]
    /\ answer' = [answer EXCEPT ![c] = "ok"]
    /\ checksum' = [checksum EXCEPT ![c] = IF policy[c].require_checksum THEN {Digest(c)} ELSE {}]
    /\ \/ staged' = [staged EXCEPT ![c] = copied[c]] /\ UNCHANGED trouble
       \/ staged[c] # copied[c] /\ Suffer(c, "close") /\ UNCHANGED staged
    /\ UNCHANGED <<file, directories, fixed, copied, progress>>

-----------------------------------------------------------------------------
(* What happens around the calls.                                          *)

\* The source is written or removed by somebody else.  Calls that have it open
\* go on with it; whether a tail became longer after it was read is not told.
SourceChanges ==
    /\ \/ ~present /\ present' = TRUE /\ UNCHANGED source
       \/ present /\ present' = FALSE /\ UNCHANGED source
       \/ source' \in Sources \ {source} /\ UNCHANGED present
    /\ trouble' = [c \in Calls |->
                     IF source' = source \/ pc[c] \in {"called", "exists", "done"} THEN trouble[c]
                     ELSE trouble[c] \union {"source"}]
    /\ UNCHANGED <<directories, pc, fixed, loop, result>>

Crash(c) ==
    /\ Running(c)
    /\ pc' = [pc EXCEPT ![c] = "crashed"]
    /\ UNCHANGED <<file, directories, fixed, loop, result, trouble>>

Step(c) ==
    \/ Look(c) \/ Measure(c) \/ OpenSource(c) \/ MakeDirectory(c) \/ OpenCopy(c)
    \/ Read(c) \/ Write(c) \/ Close(c)

Next == (\E c \in Calls : Step(c) \/ Crash(c)) \/ SourceChanges

Spec == Init /\ [][Next]_vars

\* A call that runs goes on.
FairSpec == Spec /\ \A c \in Calls : WF_vars(Step(c))

-----------------------------------------------------------------------------
(* Properties.                                                             *)

TypeOK ==
    /\ present \in BOOLEAN /\ source \in Sources /\ directories \subseteq Calls
    /\ pc \in [Calls -> {"called", "exists", "measured", "opened", "made", "reading",
                         "writing", "closing", "done", "crashed"}]
    /\ policy \in [Calls -> Policies] /\ size \in [Calls -> Nat]
    /\ copied \in [Calls -> Content] /\ staged \in [Calls -> Content]
    /\ progress \in [Calls -> Nat]
    /\ answer \in [Calls -> ImportErrors \union {"none", "ok", "exception"}]
    /\ checksum \in [Calls -> SUBSET Content]
    /\ opened \in [Calls -> Content] /\ trouble \in [Calls -> SUBSET Troubles]

(* A call that succeeds while nobody changes the source has staged it from  *)
(* the beginning, within the limit, and all of it unless a read or the last *)
(* write failed, which does not make the call fail.  After a failed read    *)
(* the last progress says less than the size; what it says is in the file,  *)
(* except for a tail lost when the file was closed.                         *)
SuccessIsWhole ==
    \A c \in Calls : answer[c] = "ok" /\ "source" \notin trouble[c] =>
        /\ size[c] = Len(opened[c]) /\ size[c] <= policy[c].limit
        /\ progress[c] = size[c] \/ (progress[c] < size[c] /\ "read" \in trouble[c])
        /\ \E n \in 0 .. progress[c] :
              /\ staged[c] = SubSeq(opened[c], 1, n)
              /\ \A i \in n + 1 .. progress[c] :
                    "close" \in trouble[c] /\ opened[c][i] \in Tails

(* The checksum is that of the staged file, of a truncated or mixed copy    *)
(* too, except that the tails lost when the file was closed are in it.      *)
ChecksumDescribesCopy ==
    \A c \in Calls : \A content \in checksum[c] :
        \E n \in 0 .. Len(content) :
            /\ staged[c] = SubSeq(content, 1, n)
            /\ \A i \in n + 1 .. Len(content) : "close" \in trouble[c] /\ content[i] \in Tails

(* A call that returns has a directory in the staging root exactly if it    *)
(* succeeded, whatever else went wrong, unless remove_all failed: on every  *)
(* way out after MakeDirectory the directory is taken back.                 *)
FailureLeavesNothing ==
    \A c \in Calls : pc[c] = "done" /\ "remove" \notin trouble[c] =>
        (c \in directories <=> answer[c] = "ok")

(* Every call that is not cut off returns, on whatever device and source:   *)
(* a read error does not keep the loop alive.                              *)
EveryCallReturns == \A c \in Calls : <>(~Running(c))
=============================================================================
