-------------------------- MODULE StagingCopyProofs --------------------------
(***************************************************************************)
(* What stagePackage promises, for any number of calls at once and sources *)
(* of any length that change at any moment: what a success staged is known *)
(* from the troubles it met, its checksum describes it, and a failure      *)
(* leaves nothing.                                                         *)
(***************************************************************************)
EXTENDS StagingCopy, TLAPS

Before == {"called", "exists", "measured", "opened"}
Copying == {"made", "reading", "writing", "closing"}

\* `s` is the beginning of `w`.
Begins(s, w) == Len(s) <= Len(w) /\ \A i \in 1 .. Len(s) : s[i] = w[i]

\* Of the first n buffers of w, s has all but some tails at the end.
HeldBack(s, w, n) ==
    /\ Len(s) <= n /\ \A i \in 1 .. Len(s) : s[i] = w[i]
    /\ \A i \in 1 .. n : i > Len(s) => w[i] \in Tails

\* The directory is there while the copy is made, and for the one that succeeds.
Tidy(c) ==
    /\ pc[c] \in Before => c \notin directories
    /\ pc[c] \in Copying => c \in directories
    /\ pc[c] = "done" /\ "remove" \notin trouble[c] => (c \in directories <=> answer[c] = "ok")
    /\ pc[c] # "done" => answer[c] # "ok" /\ checksum[c] = {}

\* What is in the file is what was read, up to the tails a QFile holds back.
Written(c) ==
    /\ pc[c] \in Before \union {"made"} => copied[c] = <<>> /\ staged[c] = <<>> /\ progress[c] = 0
    /\ pc[c] \in {"reading", "closing"} => HeldBack(staged[c], copied[c], Len(copied[c]))
    /\ pc[c] = "writing" =>
          Len(copied[c]) > 0 /\ HeldBack(staged[c], copied[c], Len(copied[c]) - 1)
    /\ pc[c] = "done" =>
          \A content \in checksum[c] :
              /\ content = copied[c] /\ Begins(staged[c], content)
              /\ \A i \in 1 .. Len(content) :
                    i > Len(staged[c]) => "close" \in trouble[c] /\ content[i] \in Tails

\* A success is the beginning of what was opened, and tells how much of it.
Told(c) ==
    /\ size[c] = Len(opened[c]) /\ size[c] <= policy[c].limit
    /\ progress[c] = size[c] \/ (progress[c] < size[c] /\ "read" \in trouble[c])
    /\ Len(staged[c]) <= progress[c]
    /\ Begins(staged[c], opened[c])
    /\ \A i \in 1 .. progress[c] :
          i > Len(staged[c]) => "close" \in trouble[c] /\ opened[c][i] \in Tails

\* While nobody changes it the source is the one that was measured and opened,
\* and what was read is its beginning.
Undisturbed(c) ==
    /\ pc[c] \in {"measured", "opened"} \union Copying => size[c] <= policy[c].limit
    /\ pc[c] \in {"reading", "closing"} => progress[c] = Len(copied[c])
    /\ pc[c] = "writing" => progress[c] = Len(copied[c]) - 1
    /\ "source" \notin trouble[c] =>
          /\ pc[c] = "measured" => Len(source) = size[c]
          /\ pc[c] \in {"opened"} \union Copying =>
                /\ opened[c] = source /\ size[c] = Len(source)
                /\ Begins(copied[c], source)
          /\ pc[c] = "closing" => Len(copied[c]) = Len(source) \/ "read" \in trouble[c]
          /\ pc[c] = "done" /\ answer[c] = "ok" => Told(c)

Inv == TypeOK /\ \A c \in Calls : Tidy(c) /\ Written(c) /\ Undisturbed(c)

-----------------------------------------------------------------------------
(* Sequences.                                                              *)

LEMMA SequencesAreEqual ==
    ASSUME NEW S, NEW s \in Seq(S), NEW t \in Seq(S), Len(s) = Len(t),
           \A i \in 1 .. Len(s) : s[i] = t[i]
    PROVE  s = t
OBVIOUS

LEMMA BeginningsAreSubSeqs ==
    ASSUME NEW S, NEW s \in Seq(S), NEW w \in Seq(S), Begins(s, w)
    PROVE  Len(s) \in 0 .. Len(w) /\ s = SubSeq(w, 1, Len(s))
<1>1. Len(s) \in 0 .. Len(w) BY DEF Begins
<1>2. SubSeq(w, 1, Len(s)) \in Seq(S) /\ Len(SubSeq(w, 1, Len(s))) = Len(s)
  BY <1>1
<1>3. \A i \in 1 .. Len(s) : s[i] = SubSeq(w, 1, Len(s))[i]
  BY <1>1 DEF Begins
<1> QED BY <1>1, <1>2, <1>3, SequencesAreEqual

LEMMA AppendedBuffers ==
    ASSUME NEW S, NEW s \in Seq(S), NEW b \in S
    PROVE  /\ Append(s, b) \in Seq(S) /\ Len(Append(s, b)) = Len(s) + 1
           /\ \A i \in 1 .. Len(s) : Append(s, b)[i] = s[i]
           /\ Append(s, b)[Len(s) + 1] = b
OBVIOUS

LEMMA SourcesAreContents ==
    /\ Sources \subseteq Content
    /\ \A s \in Sources : \A i \in DOMAIN s : s[i] \in Buffers \union Tails
BY SourcesAssumption DEF Content

-----------------------------------------------------------------------------
(* The invariant.                                                          *)

LEMMA InvInit == Init => Inv
<1> SUFFICES ASSUME Init PROVE Inv
  OBVIOUS
<1>1. <<>> \in Content BY DEF Content
<1>2. TypeOK BY <1>1 DEF Init, PerCall, TypeOK
<1>3. ASSUME NEW c \in Calls PROVE Tidy(c) /\ Written(c) /\ Undisturbed(c)
  <2>1. pc[c] = "called" /\ copied[c] = <<>> /\ staged[c] = <<>> /\ progress[c] = 0
        /\ answer[c] = "none" /\ checksum[c] = {} /\ c \notin directories
    BY DEF Init, PerCall
  <2> QED BY <2>1 DEF Tidy, Written, Undisturbed, Before, Copying
<1> QED BY <1>2, <1>3 DEF Inv

\* What a call keeps of its own is kept by the steps of other calls.
LEMMA OthersAreKept ==
    ASSUME Inv, NEW c \in Calls, Step(c) \/ Crash(c), NEW d \in Calls \ {c}
    PROVE  Tidy(d)' /\ Written(d)' /\ Undisturbed(d)'
<1>1. /\ pc'[d] = pc[d] /\ answer'[d] = answer[d] /\ checksum'[d] = checksum[d]
      /\ policy'[d] = policy[d] /\ size'[d] = size[d] /\ opened'[d] = opened[d]
      /\ copied'[d] = copied[d] /\ staged'[d] = staged[d] /\ progress'[d] = progress[d]
      /\ source' = source
      /\ d \in directories' <=> d \in directories
      /\ trouble'[d] = trouble[d]
  <2>1. CASE Look(c)
    BY <2>1 DEF Look, Inv, TypeOK, Goto, Fail, file, loop, fixed, result
  <2>2. CASE Measure(c)
    BY <2>2 DEF Measure, Inv, TypeOK, Goto, Fail, file, loop, fixed, result
  <2>3. CASE OpenSource(c)
    BY <2>3 DEF OpenSource, Suffer, Inv, TypeOK, Goto, Fail, file, loop, fixed, result
  <2>4. CASE MakeDirectory(c)
    BY <2>4 DEF MakeDirectory, Inv, TypeOK, Goto, Fail, file, loop, fixed, result
  <2>5. CASE OpenCopy(c)
    BY <2>5 DEF OpenCopy, Withdraw, Suffer, Inv, TypeOK, Goto, Fail, file, loop, fixed, result
  <2>6. CASE Read(c)
    BY <2>6 DEF Read, Suffer, Inv, TypeOK, Goto, Fail, file, loop, fixed, result
  <2>7. CASE Write(c)
    BY <2>7 DEF Write, Withdraw, Suffer, Inv, TypeOK, Goto, Fail, file, loop, fixed, result
  <2>8. CASE Close(c)
    BY <2>8 DEF Close, Suffer, Inv, TypeOK, file, loop, fixed, result
  <2>9. CASE Crash(c)
    BY <2>9 DEF Crash, Inv, TypeOK, file, loop, fixed, result
  <2> QED BY <2>1, <2>2, <2>3, <2>4, <2>5, <2>6, <2>7, <2>8, <2>9 DEF Step
<1>2. Tidy(d)' BY <1>1 DEF Inv, Tidy
<1>3. Written(d)' BY <1>1 DEF Inv, Written
<1>4. Undisturbed(d)' BY <1>1 DEF Inv, Undisturbed, Told
<1> QED BY <1>2, <1>3, <1>4

\* A call that returns an error before it has made anything, or gives up.
LEMMA OwnFail ==
    ASSUME Inv, NEW c \in Calls, NEW from \in Before,
           NEW error \in ImportErrors \union {"exception"},
           Fail(c, from, error), UNCHANGED <<file, directories, policy, opened, loop, trouble>>,
           size' \in [Calls -> Nat]
    PROVE  TypeOK' /\ Tidy(c)' /\ Written(c)' /\ Undisturbed(c)'
<1>1. /\ pc[c] = from /\ pc'[c] = "done" /\ answer'[c] = error /\ error # "ok"
      /\ checksum' = checksum
  BY DEF Fail, Inv, TypeOK, ImportErrors
<1>2. TypeOK' BY DEF Inv, TypeOK, Fail, file, loop
<1>3. checksum[c] = {} /\ c \notin directories BY <1>1 DEF Inv, Tidy, Before
<1>4. Tidy(c)' BY <1>1, <1>3 DEF Tidy, Before, Copying
<1>5. Written(c)' BY <1>1, <1>3 DEF Written, Before
<1>6. Undisturbed(c)' BY <1>1 DEF Undisturbed, Copying
<1> QED BY <1>2, <1>4, <1>5, <1>6

LEMMA OwnLook ==
    ASSUME Inv, NEW c \in Calls, Look(c)
    PROVE  TypeOK' /\ Tidy(c)' /\ Written(c)' /\ Undisturbed(c)'
<1>1. CASE Goto(c, "called", "exists")
  <2>1. pc[c] = "called" /\ pc'[c] = "exists" /\ UNCHANGED <<answer, checksum>>
    BY <1>1 DEF Goto, result, Inv, TypeOK
  <2>2. UNCHANGED <<file, directories, fixed, loop, trouble>> BY DEF Look
  <2>3. TypeOK' BY <1>1, <2>2 DEF Inv, TypeOK, Goto, result, file, fixed, loop
  <2>4. Tidy(c)' /\ Written(c)' /\ Undisturbed(c)'
    BY <2>1, <2>2 DEF Inv, Tidy, Written, Undisturbed, Before, Copying, file, fixed, loop
  <2> QED BY <2>3, <2>4
<1>2. ASSUME NEW error \in {"FileNotFound", "exception"}, Fail(c, "called", error)
      PROVE  TypeOK' /\ Tidy(c)' /\ Written(c)' /\ Undisturbed(c)'
  <2>1. error \in ImportErrors \union {"exception"} /\ "called" \in Before
    BY DEF ImportErrors, Before
  <2>2. UNCHANGED <<file, directories, policy, opened, loop, trouble>> /\ size' \in [Calls -> Nat]
    BY DEF Look, fixed, Inv, TypeOK
  <2> QED BY <1>2, <2>1, <2>2, OwnFail
<1> QED BY <1>1, <1>2 DEF Look

LEMMA OwnMeasure ==
    ASSUME Inv, NEW c \in Calls, Measure(c)
    PROVE  TypeOK' /\ Tidy(c)' /\ Written(c)' /\ Undisturbed(c)'
<1>1. source \in Content /\ Len(source) \in Nat
  BY SourcesAreContents DEF Inv, TypeOK, Content
<1>2. UNCHANGED <<file, directories, policy, opened, loop, trouble>> BY DEF Measure
<1>3. ASSUME NEW error \in {"ExceedsSizeLimit", "UnsupportedFormat", "AccessDenied"},
             Fail(c, "exists", error),
             size' = [size EXCEPT ![c] = Len(source)] \/ size' = size
      PROVE  TypeOK' /\ Tidy(c)' /\ Written(c)' /\ Undisturbed(c)'
  <2>1. error \in ImportErrors \union {"exception"} /\ "exists" \in Before
    BY DEF ImportErrors, Before
  <2>2. size' \in [Calls -> Nat] BY <1>1, <1>3 DEF Inv, TypeOK
  <2> QED BY <1>2, <1>3, <2>1, <2>2, OwnFail
<1>4. CASE /\ size' = [size EXCEPT ![c] = Len(source)] /\ Goto(c, "exists", "measured")
           /\ ~(Len(source) > policy[c].limit)
  <2>1. /\ pc[c] = "exists" /\ pc'[c] = "measured" /\ UNCHANGED <<answer, checksum>>
        /\ size'[c] = Len(source)
    BY <1>4 DEF Goto, result, Inv, TypeOK
  <2>2. TypeOK' BY <1>1, <1>2, <1>4 DEF Inv, TypeOK, Goto, result, file, loop
  <2>3. Tidy(c)' /\ Written(c)'
    BY <1>2, <2>1 DEF Inv, Tidy, Written, Before, Copying, file, loop
  <2>4. policy[c].limit \in Nat BY LimitsAssumption DEF Inv, TypeOK, Policies
  <2>5. size'[c] <= policy'[c].limit BY <1>1, <1>2, <1>4, <2>1, <2>4
  <2>6. Undisturbed(c)' BY <1>2, <2>1, <2>5 DEF Undisturbed, Copying, file
  <2> QED BY <2>2, <2>3, <2>6
<1> QED BY <1>3, <1>4 DEF Measure

LEMMA OwnOpenSource ==
    ASSUME Inv, NEW c \in Calls, OpenSource(c)
    PROVE  TypeOK' /\ Tidy(c)' /\ Written(c)' /\ Undisturbed(c)'
<1>1. UNCHANGED <<file, directories, policy, size, loop>> BY DEF OpenSource
<1>2. CASE Fail(c, "measured", "AccessDenied") /\ UNCHANGED <<opened, trouble>>
  <2>1. "AccessDenied" \in ImportErrors \union {"exception"} /\ "measured" \in Before
    BY DEF ImportErrors, Before
  <2>2. size' \in [Calls -> Nat] BY <1>1 DEF Inv, TypeOK
  <2> QED BY <1>1, <1>2, <2>1, <2>2, OwnFail
<1>3. CASE /\ Goto(c, "measured", "opened") /\ opened' = [opened EXCEPT ![c] = source]
           /\ IF Len(source) = size[c] THEN UNCHANGED trouble ELSE Suffer(c, "source")
  <2>1. /\ pc[c] = "measured" /\ pc'[c] = "opened" /\ UNCHANGED <<answer, checksum>>
        /\ opened'[c] = source /\ source' = source
    BY <1>1, <1>3 DEF Goto, result, Inv, TypeOK, file
  <2>2. source \in Content BY SourcesAreContents DEF Inv, TypeOK
  <2>3. TypeOK'
    BY <1>1, <1>3, <2>2 DEF Inv, TypeOK, Goto, Suffer, Troubles, result, file, loop
  <2>4. Tidy(c)' /\ Written(c)'
    BY <1>1, <2>1 DEF Inv, Tidy, Written, Before, Copying, loop
  <2>5. "source" \notin trouble'[c] => size[c] = Len(source)
    BY <1>3 DEF Suffer, Inv, TypeOK
  <2>6. copied[c] = <<>> BY <2>1 DEF Inv, Written, Before
  <2>7. Begins(copied[c], source)
    BY <2>2, <2>6 DEF Begins, Content
  <2>8. Undisturbed(c)'
    BY <1>1, <2>1, <2>5, <2>7 DEF Inv, Undisturbed, Copying, loop
  <2> QED BY <2>3, <2>4, <2>8
<1> QED BY <1>2, <1>3 DEF OpenSource

LEMMA OwnMakeDirectory ==
    ASSUME Inv, NEW c \in Calls, MakeDirectory(c)
    PROVE  TypeOK' /\ Tidy(c)' /\ Written(c)' /\ Undisturbed(c)'
<1>1. UNCHANGED <<file, fixed, loop, trouble>> BY DEF MakeDirectory
<1>2. CASE Fail(c, "opened", "StagingFailed") /\ UNCHANGED directories
  <2>1. "StagingFailed" \in ImportErrors \union {"exception"} /\ "opened" \in Before
    BY DEF ImportErrors, Before
  <2>2. size' \in [Calls -> Nat] BY <1>1 DEF Inv, TypeOK, fixed
  <2> QED BY <1>1, <1>2, <2>1, <2>2, OwnFail DEF fixed
<1>3. CASE Goto(c, "opened", "made") /\ directories' = directories \union {c}
  <2>1. pc[c] = "opened" /\ pc'[c] = "made" /\ UNCHANGED <<answer, checksum>>
    BY <1>3 DEF Goto, result, Inv, TypeOK
  <2>2. TypeOK' BY <1>1, <1>3 DEF Inv, TypeOK, Goto, result, file, fixed, loop
  <2>3. Tidy(c)' /\ Written(c)'
    BY <1>1, <1>3, <2>1 DEF Inv, Tidy, Written, Before, Copying, loop
  <2>4. Undisturbed(c)'
    BY <1>1, <2>1 DEF Inv, Undisturbed, Copying, file, fixed, loop
  <2> QED BY <2>2, <2>3, <2>4
<1> QED BY <1>2, <1>3 DEF MakeDirectory

\* A call that gives up what it has begun.
LEMMA OwnWithdraw ==
    ASSUME Inv, NEW c \in Calls, NEW from \in Copying, Withdraw(c, from),
           UNCHANGED <<file, fixed, loop>>
    PROVE  TypeOK' /\ Tidy(c)' /\ Written(c)' /\ Undisturbed(c)'
<1>1. /\ pc[c] = from /\ pc'[c] = "done" /\ answer'[c] = "StagingFailed"
      /\ checksum' = checksum
      /\ directories' \subseteq directories /\ trouble' \in [Calls -> SUBSET Troubles]
      /\ "remove" \notin trouble'[c] => c \notin directories'
  BY DEF Withdraw, Suffer, Troubles, Fail, Inv, TypeOK
<1>2. TypeOK'
  <2>1. /\ pc' = [pc EXCEPT ![c] = "done"]
        /\ answer' = [answer EXCEPT ![c] = "StagingFailed"]
    BY DEF Withdraw, Fail
  <2> QED BY <1>1, <2>1 DEF Inv, TypeOK, ImportErrors, file, fixed, loop
<1>3. checksum[c] = {} BY <1>1 DEF Inv, Tidy, Copying
<1>4. Tidy(c)' BY <1>1, <1>3 DEF Tidy, Before, Copying
<1>5. Written(c)' BY <1>1, <1>3 DEF Written, Before
<1>6. Undisturbed(c)' BY <1>1 DEF Undisturbed, Copying
<1> QED BY <1>2, <1>4, <1>5, <1>6

LEMMA OwnOpenCopy ==
    ASSUME Inv, NEW c \in Calls, OpenCopy(c)
    PROVE  TypeOK' /\ Tidy(c)' /\ Written(c)' /\ Undisturbed(c)'
<1>1. UNCHANGED <<file, fixed, loop>> BY DEF OpenCopy
<1>2. CASE Withdraw(c, "made")
  <2>1. "made" \in Copying BY DEF Copying
  <2> QED BY <1>1, <1>2, <2>1, OwnWithdraw
<1>3. CASE Goto(c, "made", "reading") /\ UNCHANGED <<directories, trouble>>
  <2>1. pc[c] = "made" /\ pc'[c] = "reading" /\ UNCHANGED <<answer, checksum>>
    BY <1>3 DEF Goto, result, Inv, TypeOK
  <2>2. TypeOK' BY <1>1, <1>3 DEF Inv, TypeOK, Goto, result, file, fixed, loop
  <2>3. Tidy(c)' BY <1>3, <2>1 DEF Inv, Tidy, Before, Copying
  <2>4. copied[c] = <<>> /\ staged[c] = <<>> /\ progress[c] = 0
    BY <2>1 DEF Inv, Written
  <2>5. Len(<<>>) = 0 OBVIOUS
  <2>6. Written(c)'
    BY <1>1, <2>1, <2>4, <2>5 DEF Written, HeldBack, Before, loop
  <2>7. Undisturbed(c)'
    BY <1>1, <1>3, <2>1, <2>4, <2>5 DEF Inv, Undisturbed, Copying, file, fixed, loop
  <2> QED BY <2>2, <2>3, <2>6, <2>7
<1> QED BY <1>2, <1>3 DEF OpenCopy

LEMMA OwnRead ==
    ASSUME Inv, NEW c \in Calls, Read(c)
    PROVE  TypeOK' /\ Tidy(c)' /\ Written(c)' /\ Undisturbed(c)'
<1> DEFINE S == Buffers \union Tails
           position == Len(copied[c]) + 1
<1>1. UNCHANGED <<file, directories, fixed, staged, progress>> BY DEF Read
<1>2. /\ copied[c] \in Seq(S) /\ staged[c] \in Seq(S) /\ source \in Seq(S)
      /\ Len(copied[c]) \in Nat /\ Len(staged[c]) \in Nat /\ Len(source) \in Nat
      /\ DOMAIN source = 1 .. Len(source)
  BY SourcesAreContents DEF Inv, TypeOK, Content
<1>3. CASE /\ position \in DOMAIN source /\ Goto(c, "reading", "writing")
           /\ copied' = [copied EXCEPT ![c] = Append(@, source[position])]
           /\ UNCHANGED trouble
  <2>1. /\ pc[c] = "reading" /\ pc'[c] = "writing" /\ UNCHANGED <<answer, checksum>>
        /\ copied'[c] = Append(copied[c], source[position])
    BY <1>3 DEF Goto, result, Inv, TypeOK
  <2>2. source[position] \in S BY <1>2, <1>3
  <2>3. /\ copied'[c] \in Seq(S) /\ Len(copied'[c]) = Len(copied[c]) + 1
        /\ \A i \in 1 .. Len(copied[c]) : copied'[c][i] = copied[c][i]
        /\ copied'[c][position] = source[position]
    BY <1>2, <2>1, <2>2, AppendedBuffers
  <2>4. TypeOK'
    <3>1. copied' \in [Calls -> Content]
      BY <1>3, <2>1, <2>3 DEF Inv, TypeOK, Content
    <3> QED BY <1>1, <1>3, <3>1 DEF Inv, TypeOK, Goto, result, file, fixed
  <2>5. Tidy(c)' BY <1>1, <1>3, <2>1 DEF Inv, Tidy, Before, Copying
  <2>6. HeldBack(staged[c], copied[c], Len(copied[c])) BY <2>1 DEF Inv, Written
  <2>7. HeldBack(staged'[c], copied'[c], Len(copied'[c]) - 1)
    <3>1. Len(copied'[c]) - 1 = Len(copied[c]) /\ staged' = staged BY <1>1, <1>2, <2>3
    <3> DEFINE now == copied'[c]
    <3>2. /\ Len(staged[c]) <= Len(copied[c])
          /\ \A i \in 1 .. Len(staged[c]) : staged[c][i] = copied[c][i]
      BY <2>6 DEF HeldBack
    <3>3. \A i \in 1 .. Len(copied[c]) : now[i] = copied[c][i] BY <2>3
    <3> HIDE DEF now
    <3>4. \A i \in 1 .. Len(staged[c]) : staged[c][i] = now[i]
      BY <1>2, <3>2, <3>3
    <3>5. \A i \in 1 .. Len(copied[c]) : i > Len(staged[c]) => now[i] \in Tails
      BY <2>6, <3>3 DEF HeldBack
    <3> QED BY <3>1, <3>2, <3>4, <3>5 DEF HeldBack, now
  <2>8. Written(c)' BY <1>2, <2>1, <2>3, <2>7 DEF Written, Before
  <2>9. "source" \notin trouble[c] => Begins(copied'[c], source)
    <3>1. "source" \notin trouble[c] => Begins(copied[c], source)
      BY <2>1 DEF Inv, Undisturbed, Copying
    <3> QED BY <1>2, <1>3, <2>3, <3>1 DEF Begins
  <2>10. Undisturbed(c)'
    BY <1>1, <1>2, <1>3, <2>1, <2>3, <2>9 DEF Inv, Undisturbed, Copying, file, fixed
  <2> QED BY <2>4, <2>5, <2>8, <2>10
<1>4. CASE /\ Goto(c, "reading", "closing") /\ UNCHANGED copied
           /\ IF position \in DOMAIN source THEN Suffer(c, "read") ELSE UNCHANGED trouble
  <2>1. /\ pc[c] = "reading" /\ pc'[c] = "closing" /\ UNCHANGED <<answer, checksum>>
    BY <1>4 DEF Goto, result, Inv, TypeOK
  <2>2. TypeOK'
    <3>1. trouble' \in [Calls -> SUBSET Troubles]
      <4>1. trouble \in [Calls -> SUBSET Troubles] /\ "read" \in Troubles
        BY DEF Inv, TypeOK, Troubles
      <4>2. Suffer(c, "read") \/ trouble' = trouble BY <1>4
      <4> QED BY <4>1, <4>2 DEF Suffer
    <3> QED BY <1>1, <1>4, <3>1 DEF Inv, TypeOK, Goto, result, file, fixed
  <2>3. Tidy(c)' BY <1>1, <1>4, <2>1 DEF Inv, Tidy, Before, Copying
  <2>4. Written(c)' BY <1>1, <1>4, <2>1 DEF Inv, Written, Before
  <2>5. /\ "source" \notin trouble'[c] => "source" \notin trouble[c]
        /\ "read" \in trouble'[c] \/ Len(copied[c]) >= Len(source)
    BY <1>2, <1>4 DEF Suffer, Inv, TypeOK
  <2>6. "source" \notin trouble[c] => Len(copied[c]) <= Len(source)
    BY <2>1 DEF Inv, Undisturbed, Copying, Begins
  <2>7. Undisturbed(c)'
    BY <1>1, <1>2, <1>4, <2>1, <2>5, <2>6 DEF Inv, Undisturbed, Copying, file, fixed
  <2> QED BY <2>2, <2>3, <2>4, <2>7
<1> QED BY <1>3, <1>4 DEF Read

LEMMA OwnWrite ==
    ASSUME Inv, NEW c \in Calls, Write(c)
    PROVE  TypeOK' /\ Tidy(c)' /\ Written(c)' /\ Undisturbed(c)'
<1> DEFINE S == Buffers \union Tails
           last == Len(copied[c])
           held == copied[c] # <<>> /\ copied[c][last] \in Tails
<1>1. UNCHANGED <<file, fixed, copied>> BY DEF Write
<1>2. /\ copied[c] \in Seq(S) /\ staged[c] \in Seq(S)
      /\ Len(copied[c]) \in Nat /\ Len(staged[c]) \in Nat
  BY DEF Inv, TypeOK, Content
<1>3. CASE /\ Goto(c, "writing", "reading")
           /\ staged' = IF held THEN staged ELSE [staged EXCEPT ![c] = copied[c]]
           /\ progress' = [progress EXCEPT ![c] = Len(copied[c])]
           /\ UNCHANGED <<directories, trouble>>
  <2>1. /\ pc[c] = "writing" /\ pc'[c] = "reading" /\ UNCHANGED <<answer, checksum>>
        /\ progress'[c] = Len(copied[c])
        /\ staged'[c] = IF held THEN staged[c] ELSE copied[c]
    BY <1>3 DEF Goto, result, Inv, TypeOK
  <2>2. TypeOK'
    <3>1. staged' \in [Calls -> Content] /\ progress' \in [Calls -> Nat]
      BY <1>2, <1>3 DEF Inv, TypeOK, Content
    <3> QED BY <1>1, <1>3, <3>1 DEF Inv, TypeOK, Goto, result, file, fixed
  <2>3. Tidy(c)' BY <1>1, <1>3, <2>1 DEF Inv, Tidy, Before, Copying
  <2>4. last > 0 /\ HeldBack(staged[c], copied[c], last - 1) BY <2>1 DEF Inv, Written
  <2>5. HeldBack(staged'[c], copied[c], last)
    <3>1. CASE held
      <4>1. staged'[c] = staged[c] /\ copied[c][last] \in Tails BY <2>1, <3>1
      <4>2. /\ Len(staged[c]) <= last - 1
            /\ \A i \in 1 .. Len(staged[c]) : staged[c][i] = copied[c][i]
            /\ \A i \in 1 .. last - 1 : i > Len(staged[c]) => copied[c][i] \in Tails
        BY <2>4 DEF HeldBack
      <4>3. \A i \in 1 .. last : i > Len(staged[c]) => copied[c][i] \in Tails
        BY <1>2, <4>1, <4>2
      <4>4. Len(staged[c]) <= last BY <1>2, <4>2
      <4> QED BY <4>1, <4>2, <4>3, <4>4 DEF HeldBack
    <3>2. CASE ~held
      BY <1>2, <2>1, <3>2 DEF HeldBack
    <3> QED BY <3>1, <3>2
  <2>6. Written(c)' BY <1>1, <2>1, <2>5 DEF Written, Before
  <2>7. Undisturbed(c)'
    BY <1>1, <1>3, <2>1 DEF Inv, Undisturbed, Copying, file, fixed
  <2> QED BY <2>2, <2>3, <2>6, <2>7
<1>4. CASE Withdraw(c, "writing") /\ UNCHANGED <<staged, progress>>
  <2>1. "writing" \in Copying /\ UNCHANGED <<file, fixed, loop>> BY <1>1, <1>4 DEF Copying, loop
  <2> QED BY <1>4, <2>1, OwnWithdraw
<1> QED BY <1>3, <1>4 DEF Write

LEMMA OwnClose ==
    ASSUME Inv, NEW c \in Calls, Close(c)
    PROVE  TypeOK' /\ Tidy(c)' /\ Written(c)' /\ Undisturbed(c)'
<1> DEFINE S == Buffers \union Tails
<1>1. /\ pc[c] = "closing" /\ pc'[c] = "done" /\ answer'[c] = "ok"
      /\ checksum'[c] \subseteq {copied[c]}
      /\ UNCHANGED <<file, directories, fixed, copied, progress>>
  BY DEF Close, Digest, Inv, TypeOK
<1>2. /\ copied[c] \in Seq(S) /\ staged[c] \in Seq(S) /\ source \in Seq(S)
      /\ Len(copied[c]) \in Nat /\ Len(staged[c]) \in Nat /\ Len(source) \in Nat
  BY SourcesAreContents DEF Inv, TypeOK, Content
<1>3. /\ trouble' \in [Calls -> SUBSET Troubles]
      /\ "source" \notin trouble'[c] => "source" \notin trouble[c]
      /\ "read" \in trouble[c] => "read" \in trouble'[c]
      /\ staged'[c] = copied[c] \/ (staged'[c] = staged[c] /\ "close" \in trouble'[c])
  BY DEF Close, Suffer, Troubles, Inv, TypeOK
<1>4. TypeOK'
  <2>1. /\ pc' = [pc EXCEPT ![c] = "done"] /\ answer' = [answer EXCEPT ![c] = "ok"]
        /\ \E sums \in {{copied[c]}, {}} : checksum' = [checksum EXCEPT ![c] = sums]
        /\ staged' = staged \/ staged' = [staged EXCEPT ![c] = copied[c]]
    BY DEF Close, Digest
  <2>2. staged' \in [Calls -> Content] BY <1>2, <2>1 DEF Inv, TypeOK, Content
  <2>3. checksum' \in [Calls -> SUBSET Content] BY <1>2, <2>1 DEF Inv, TypeOK, Content
  <2> QED BY <1>1, <1>3, <2>1, <2>2, <2>3 DEF Inv, TypeOK, file, fixed
<1>5. c \in directories BY <1>1 DEF Inv, Tidy, Copying
<1>6. Tidy(c)' BY <1>1, <1>5 DEF Tidy, Before, Copying
<1>7. HeldBack(staged[c], copied[c], Len(copied[c])) BY <1>1 DEF Inv, Written
<1>8. /\ Begins(staged'[c], copied[c])
      /\ \A i \in 1 .. Len(copied[c]) :
            i > Len(staged'[c]) => "close" \in trouble'[c] /\ copied[c][i] \in Tails
  <2>1. CASE staged'[c] = copied[c] BY <1>2, <2>1 DEF Begins
  <2>2. CASE staged'[c] = staged[c] /\ "close" \in trouble'[c]
    BY <1>2, <1>7, <2>2 DEF Begins, HeldBack
  <2> QED BY <1>3, <2>1, <2>2
<1>9. Written(c)' BY <1>1, <1>8 DEF Written, Before
<1>10. ASSUME "source" \notin trouble'[c] PROVE Told(c)'
  <2>1. "source" \notin trouble[c] BY <1>3, <1>10
  <2>2. /\ opened[c] = source /\ size[c] = Len(source) /\ Begins(copied[c], source)
        /\ progress[c] = Len(copied[c]) /\ size[c] <= policy[c].limit
        /\ Len(copied[c]) = Len(source) \/ "read" \in trouble[c]
    BY <1>1, <2>1 DEF Inv, Undisturbed, Copying
  <2>3. Len(copied[c]) <= Len(source) /\ \A i \in 1 .. Len(copied[c]) : copied[c][i] = source[i]
    BY <2>2 DEF Begins
  <2>4. /\ opened' = opened /\ size' = size /\ policy' = policy /\ progress' = progress
    BY <1>1 DEF fixed
  <2>5. /\ Len(staged'[c]) \in Nat /\ Len(staged'[c]) <= Len(copied[c])
        /\ \A i \in 1 .. Len(staged'[c]) : staged'[c][i] = copied[c][i]
    BY <1>2, <1>3, <1>8 DEF Begins
  <2>6. Begins(staged'[c], opened'[c])
    <3>1. \A i \in 1 .. Len(staged'[c]) : staged'[c][i] = source[i]
      BY <1>2, <2>3, <2>5
    <3>2. Len(staged'[c]) <= Len(source) BY <1>2, <2>3, <2>5
    <3> QED BY <2>2, <2>4, <3>1, <3>2 DEF Begins
  <2>7. \A i \in 1 .. progress'[c] :
           i > Len(staged'[c]) => "close" \in trouble'[c] /\ opened'[c][i] \in Tails
    BY <1>8, <2>2, <2>3, <2>4
  <2>8. \/ progress'[c] = size'[c]
        \/ progress'[c] < size'[c] /\ "read" \in trouble'[c]
    BY <1>2, <1>3, <2>2, <2>3, <2>4
  <2> QED BY <2>2, <2>4, <2>5, <2>6, <2>7, <2>8 DEF Told
<1>11. Undisturbed(c)' BY <1>1, <1>10 DEF Undisturbed, Copying
<1> QED BY <1>4, <1>6, <1>9, <1>11

\* Another program writes or removes the source.
LEMMA InvSourceChanges == ASSUME Inv, SourceChanges PROVE Inv'
<1>1. /\ UNCHANGED <<directories, pc, fixed, loop, result>>
      /\ source' \in Sources /\ present' \in BOOLEAN
      /\ trouble' \in [Calls -> SUBSET Troubles]
  BY DEF SourceChanges, Troubles, Inv, TypeOK
<1>2. TypeOK' BY <1>1 DEF Inv, TypeOK, fixed, loop, result
<1>3. ASSUME NEW c \in Calls PROVE Tidy(c)' /\ Written(c)' /\ Undisturbed(c)'
  <2>1. /\ trouble'[c] \in {trouble[c], trouble[c] \union {"source"}}
        /\ "source" \notin trouble'[c] =>
              trouble'[c] = trouble[c]
                /\ (source' = source \/ pc[c] \in {"called", "exists", "done"})
    BY <1>1 DEF SourceChanges
  <2>2. /\ "remove" \in trouble'[c] <=> "remove" \in trouble[c]
        /\ "close" \in trouble'[c] <=> "close" \in trouble[c]
    BY <2>1
  <2>3. Tidy(c)' BY <1>1, <2>2 DEF Inv, Tidy, result
  <2>4. Written(c)' BY <1>1, <2>2 DEF Inv, Written, loop, result
  <2>5. Undisturbed(c)'
    BY <1>1, <2>1 DEF Inv, Undisturbed, Told, Copying, fixed, loop, result
  <2> QED BY <2>3, <2>4, <2>5
<1> QED BY <1>2, <1>3 DEF Inv

LEMMA OwnCrash ==
    ASSUME Inv, NEW c \in Calls, Crash(c)
    PROVE  TypeOK' /\ Tidy(c)' /\ Written(c)' /\ Undisturbed(c)'
<1>1. /\ pc[c] # "done" /\ pc'[c] = "crashed"
      /\ UNCHANGED <<file, directories, fixed, loop, result, trouble>>
  BY DEF Crash, Running, Inv, TypeOK
<1>2. TypeOK' BY <1>1 DEF Crash, Inv, TypeOK, file, fixed, loop, result
<1>3. Tidy(c)' BY <1>1 DEF Inv, Tidy, Before, Copying, result
<1>4. Written(c)' BY <1>1 DEF Written, Before
<1>5. Undisturbed(c)' BY <1>1 DEF Undisturbed, Copying
<1> QED BY <1>2, <1>3, <1>4, <1>5

LEMMA InvNext == Inv /\ [Next]_vars => Inv'
<1> SUFFICES ASSUME Inv, [Next]_vars PROVE Inv'
  OBVIOUS
<1>1. ASSUME NEW c \in Calls, Step(c) \/ Crash(c) PROVE Inv'
  <2>1. TypeOK' /\ Tidy(c)' /\ Written(c)' /\ Undisturbed(c)'
    BY <1>1, OwnLook, OwnMeasure, OwnOpenSource, OwnMakeDirectory, OwnOpenCopy, OwnRead,
       OwnWrite, OwnClose, OwnCrash DEF Step
  <2>2. \A d \in Calls \ {c} : Tidy(d)' /\ Written(d)' /\ Undisturbed(d)'
    BY <1>1, OthersAreKept
  <2> QED BY <2>1, <2>2 DEF Inv
<1>2. CASE SourceChanges BY <1>2, InvSourceChanges
<1>3. CASE UNCHANGED vars
  BY <1>3 DEF vars, file, loop, fixed, result, Inv, TypeOK, Tidy, Written, Undisturbed, Told
<1> QED BY <1>1, <1>2, <1>3 DEF Next

-----------------------------------------------------------------------------
(* Theorems.                                                               *)

\* The calls, the copies and the answers have their types.
THEOREM StagingTypes == Spec => []TypeOK
<1>1. Inv => TypeOK BY DEF Inv
<1> QED BY <1>1, InvInit, InvNext, PTL DEF Spec

\* stagePackage: a success whose source nobody changed is the beginning of what
\* was opened, within the limit; a failed read shows in the last progress, and
\* only a tail can be missing of what that says.
THEOREM SuccessesAreWhole == Spec => []SuccessIsWhole
<1>1. Inv => SuccessIsWhole
  <2> SUFFICES ASSUME Inv, NEW c \in Calls, answer[c] = "ok", "source" \notin trouble[c]
               PROVE  /\ size[c] = Len(opened[c]) /\ size[c] <= policy[c].limit
                      /\ \/ progress[c] = size[c]
                         \/ progress[c] < size[c] /\ "read" \in trouble[c]
                      /\ \E n \in 0 .. progress[c] :
                            /\ staged[c] = SubSeq(opened[c], 1, n)
                            /\ \A i \in n + 1 .. progress[c] :
                                  "close" \in trouble[c] /\ opened[c][i] \in Tails
    BY DEF SuccessIsWhole
  <2>1. Told(c) BY DEF Inv, Tidy, Undisturbed
  <2>2. staged[c] \in Seq(Buffers \union Tails) /\ opened[c] \in Seq(Buffers \union Tails)
        /\ progress[c] \in Nat
    BY DEF Inv, TypeOK, Content
  <2>3. staged[c] = SubSeq(opened[c], 1, Len(staged[c]))
    BY <2>1, <2>2, BeginningsAreSubSeqs DEF Told
  <2>4. Len(staged[c]) \in 0 .. progress[c] BY <2>1, <2>2 DEF Told
  <2>5. \A i \in Len(staged[c]) + 1 .. progress[c] :
           "close" \in trouble[c] /\ opened[c][i] \in Tails
    BY <2>1, <2>2 DEF Told
  <2> QED BY <2>1, <2>3, <2>4, <2>5 DEF Told
<1> QED BY <1>1, InvInit, InvNext, PTL DEF Spec

\* stagePackage: the checksum of any success, also of a truncated or mixed copy,
\* is that of the staged file up to tails that were lost when it was closed.
THEOREM ChecksumsDescribeCopies == Spec => []ChecksumDescribesCopy
<1>1. Inv => ChecksumDescribesCopy
  <2> SUFFICES ASSUME Inv, NEW c \in Calls, NEW content \in checksum[c]
               PROVE  \E n \in 0 .. Len(content) :
                          /\ staged[c] = SubSeq(content, 1, n)
                          /\ \A i \in n + 1 .. Len(content) :
                                "close" \in trouble[c] /\ content[i] \in Tails
    BY DEF ChecksumDescribesCopy
  <2>1. pc[c] = "done" BY DEF Inv, Tidy
  <2>2. /\ content = copied[c] /\ Begins(staged[c], content)
        /\ \A i \in 1 .. Len(content) :
              i > Len(staged[c]) => "close" \in trouble[c] /\ content[i] \in Tails
    BY <2>1 DEF Inv, Written
  <2>3. staged[c] \in Seq(Buffers \union Tails) /\ content \in Seq(Buffers \union Tails)
    BY <2>2 DEF Inv, TypeOK, Content
  <2>4. Len(staged[c]) \in 0 .. Len(content) /\ staged[c] = SubSeq(content, 1, Len(staged[c]))
    BY <2>2, <2>3, BeginningsAreSubSeqs
  <2>5. \A i \in Len(staged[c]) + 1 .. Len(content) : "close" \in trouble[c] /\ content[i] \in Tails
    BY <2>2, <2>3
  <2> QED BY <2>4, <2>5
<1> QED BY <1>1, InvInit, InvNext, PTL DEF Spec

\* stagePackage: whatever the way out, a call that fails takes its directory back,
\* unless that fails too.
THEOREM FailuresLeaveNothing == Spec => []FailureLeavesNothing
<1>1. Inv => FailureLeavesNothing
  BY DEF Inv, Tidy, FailureLeavesNothing
<1> QED BY <1>1, InvInit, InvNext, PTL DEF Spec
=============================================================================
