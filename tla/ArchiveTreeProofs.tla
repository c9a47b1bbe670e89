-------------------------- MODULE ArchiveTreeProofs --------------------------
(***************************************************************************)
(* Proofs about ArchiveTree: the types and the freeing of the archive, the *)
(* paths that are refused, and the tree as a function of the entries read. *)
(***************************************************************************)
EXTENDS ArchiveTree, FiniteSetTheorems, WellFoundedInduction, TLAPS

-----------------------------------------------------------------------------
(* Numbers and recursion.                                                  *)

\* Some member of a set of natural numbers is the least.
LEMMA LeastNatural ==
    ASSUME NEW S \in SUBSET Nat, S # {}
    PROVE  \E n \in S : \A m \in S : n <= m
<1> DEFINE T == {0 .. n : n \in S}
<1>1. T \subseteq FiniteSubsetsOf(Nat)
  <2> SUFFICES ASSUME NEW n \in S PROVE 0 .. n \in FiniteSubsetsOf(Nat)
    OBVIOUS
  <2>1. IsFiniteSet(0 .. n) /\ 0 .. n \subseteq Nat BY FS_Interval
  <2> QED BY <2>1 DEF FiniteSubsetsOf
<1>2. T # {} OBVIOUS
<1> HIDE DEF T
<1>3. PICK x \in T : \A y \in T : ~(<<y, x>> \in StrictSubsetOrdering(Nat))
  <2>1. IsWellFoundedOn(StrictSubsetOrdering(Nat), FiniteSubsetsOf(Nat))
    BY FS_StrictSubsetOrderingWellFounded
  <2> QED BY <1>1, <1>2, <2>1, WFMin
<1>4. PICK n \in S : x = 0 .. n BY DEF T
<1>5. ASSUME NEW m \in S, ~(n <= m) PROVE FALSE
  <2>1. 0 .. m \in T BY DEF T
  <2>2. 0 .. m \subseteq 0 .. n /\ 0 .. m # 0 .. n
    <3>1. n \in 0 .. n /\ n \notin 0 .. m BY <1>5
    <3> QED BY <1>5, <3>1
  <2>3. <<0 .. m, 0 .. n>> \in StrictSubsetOrdering(Nat)
    BY <2>2 DEF StrictSubsetOrdering
  <2> QED BY <1>3, <1>4, <2>1, <2>3
<1> QED BY <1>5

\* A function that is defined from its value one before exists, with values
\* where its steps keep them.
GoesFrom(f, k, base, G) == f = [n \in 0 .. k |-> IF n = 0 THEN base ELSE G[n][f[n - 1]]]

LEMMA RecursionExists ==
    ASSUME NEW k \in Nat, NEW V, NEW base \in V, NEW G \in [1 .. k -> [V -> V]]
    PROVE  \E f \in [0 .. k -> V] : GoesFrom(f, k, base, G)
<1> DEFINE Eq(f, n) == f = [i \in 0 .. n |-> IF i = 0 THEN base ELSE G[i][f[i - 1]]]
           Missing == {n \in 0 .. k : ~\E f \in [0 .. n -> V] : Eq(f, n)}
<1>1. Missing = {}
  <2> SUFFICES ASSUME Missing # {} PROVE FALSE OBVIOUS
  <2>1. PICK n \in Missing : \A m \in Missing : n <= m
    <3> HIDE DEF Eq
    <3>1. 0 .. k \subseteq Nat OBVIOUS
    <3>2. Missing \subseteq 0 .. k BY Zenon
    <3> HIDE DEF Missing
    <3> QED BY <3>1, <3>2, LeastNatural
  <2>2. n # 0
    <3> SUFFICES \E f \in [0 .. 0 -> V] : Eq(f, 0) OBVIOUS
    <3> DEFINE f == [i \in 0 .. 0 |-> base]
    <3>1. f \in [0 .. 0 -> V] OBVIOUS
    <3>2. Eq(f, 0) OBVIOUS
    <3> HIDE DEF f
    <3> QED BY <3>1, <3>2
  <2>3. n \in 1 .. k /\ n - 1 \in 0 .. k BY <2>2
  <2>4. n - 1 \notin Missing
    <3>1. ~(n <= n - 1) BY <2>3
    <3> HIDE DEF Missing
    <3> QED BY <2>1, <3>1
  <2>5. PICK f \in [0 .. n - 1 -> V] : Eq(f, n - 1) BY <2>3, <2>4
  <2> DEFINE g == [i \in 0 .. n |-> IF i < n THEN f[i] ELSE G[n][f[n - 1]]]
  <2>6. g \in [0 .. n -> V] BY <2>3
  <2>7. Eq(g, n)
    <3> SUFFICES ASSUME NEW i \in 0 .. n
                 PROVE  g[i] = IF i = 0 THEN base ELSE G[i][g[i - 1]]
      OBVIOUS
    <3>1. CASE i = n BY <2>3, <3>1
    <3>2. CASE i # n
      <4>1. i \in 0 .. n - 1 /\ (i # 0 => i - 1 \in 0 .. n - 1) BY <2>3, <3>2
      <4>2. f[i] = IF i = 0 THEN base ELSE G[i][f[i - 1]] BY <2>5, <4>1
      <4> QED BY <2>3, <4>1, <4>2
    <3> QED BY <3>1, <3>2
  <2>8. n \in 0 .. k BY <2>3
  <2> HIDE DEF g, Eq
  <2> QED BY <2>6, <2>7, <2>8
<1>2. k \in 0 .. k OBVIOUS
<1>3. \E f \in [0 .. k -> V] : Eq(f, k)
  <2> HIDE DEF Eq
  <2> QED BY <1>1, <1>2
<1> QED BY <1>3 DEF GoesFrom

-----------------------------------------------------------------------------
(* The segments of a text.                                                 *)

\* The segments so far, character by character.
LEMMA SegmentsGoOn ==
    ASSUME NEW C, NEW text \in Seq(C)
    PROVE  LET u == SegmentsUpTo(text)
           IN  /\ \A n \in 0 .. Len(text) : u[n] \in Seq(Seq(C \ {"/"})) /\ u[n] # <<>>
               /\ u[0] = <<<<>>>>
               /\ \A n \in 1 .. Len(text) :
                     u[n] = IF text[n] = "/" THEN Append(u[n - 1], <<>>)
                            ELSE Append(Front(u[n - 1]), Append(Last(u[n - 1]), text[n]))
<1> DEFINE k == Len(text)
           Texts == Seq(C \ {"/"})
           V == Seq(Texts) \ {<<>>}
           step(n, v) == IF text[n] = "/" THEN Append(v, <<>>)
                         ELSE Append(Front(v), Append(Last(v), text[n]))
           G == [n \in 1 .. k |-> [v \in V |-> step(n, v)]]
           u == SegmentsUpTo(text)
<1>1. k \in Nat OBVIOUS
<1>2. <<<<>>>> \in V OBVIOUS
<1>3. ASSUME NEW n \in 1 .. k, NEW v \in V PROVE step(n, v) \in V
  <2>1. CASE text[n] = "/"
    <3>1. <<>> \in Texts /\ v \in Seq(Texts) OBVIOUS
    <3> HIDE DEF Texts
    <3>2. Append(v, <<>>) \in Seq(Texts) /\ Append(v, <<>>) # <<>> BY <3>1
    <3> QED BY <2>1, <3>2
  <2>2. CASE text[n] # "/"
    <3>1. text[n] \in C \ {"/"} BY <2>2
    <3>2. v \in Seq(Texts) /\ v # <<>> OBVIOUS
    <3>3. Last(v) \in Texts
      <4> HIDE DEF Texts
      <4> QED BY <3>2 DEF Last
    <3>4. Append(Last(v), text[n]) \in Texts BY <3>1, <3>3
    <3>5. Front(v) \in Seq(Texts)
      <4> HIDE DEF Texts
      <4> QED BY <3>2 DEF Front
    <3> HIDE DEF Texts
    <3>6. step(n, v) \in Seq(Texts) /\ step(n, v) # <<>> BY <2>2, <3>4, <3>5
    <3> QED BY <3>6
  <2> QED BY <2>1, <2>2
<1>4. G \in [1 .. k -> [V -> V]]
  <2> HIDE DEF V, step
  <2> QED BY <1>3
<1>5. \E f \in [0 .. k -> V] : GoesFrom(f, k, <<<<>>>>, G)
  <2> HIDE DEF k, V, G
  <2> QED BY <1>1, <1>2, <1>4, RecursionExists
<1>6. PICK f \in [0 .. k -> V] : f = [n \in 0 .. k |-> IF n = 0 THEN <<<<>>>> ELSE G[n][f[n - 1]]]
  BY <1>5 DEF GoesFrom
<1>7. f = [n \in 0 .. k |-> IF n = 0 THEN <<<<>>>> ELSE step(n, f[n - 1])]
  <2> HIDE DEF V, step
  <2>1. \A n \in 1 .. k : G[n][f[n - 1]] = step(n, f[n - 1])
    <3> SUFFICES ASSUME NEW n \in 1 .. k PROVE G[n][f[n - 1]] = step(n, f[n - 1]) OBVIOUS
    <3>1. n - 1 \in 0 .. k BY <1>1
    <3>2. f[n - 1] \in V BY <3>1
    <3> QED BY <3>2
  <2>2. \A n \in 0 .. k : f[n] = IF n = 0 THEN <<<<>>>> ELSE step(n, f[n - 1])
    <3> HIDE DEF k, G
    <3> SUFFICES ASSUME NEW n \in 0 .. k
                 PROVE  f[n] = IF n = 0 THEN <<<<>>>> ELSE step(n, f[n - 1])
      OBVIOUS
    <3>1. f[n] = IF n = 0 THEN <<<<>>>> ELSE G[n][f[n - 1]] BY <1>6
    <3>2. n # 0 => n \in 1 .. k BY <1>1
    <3> QED BY <3>1, <3>2, <2>1
  <2>3. f = [n \in 0 .. k |-> f[n]] OBVIOUS
  <2> HIDE DEF k, G
  <2> QED BY <2>2, <2>3
<1>8. u = [n \in 0 .. k |-> IF n = 0 THEN <<<<>>>> ELSE step(n, u[n - 1])]
  <2> DEFINE Eq(g) == g = [n \in 0 .. k |-> IF n = 0 THEN <<<<>>>> ELSE step(n, g[n - 1])]
  <2>1. u = CHOOSE g : Eq(g) BY DEF SegmentsUpTo
  <2>2. Eq(f) BY <1>7
  <2> HIDE DEF u, Eq
  <2>3. Eq(u) BY <2>1, <2>2
  <2> QED BY <2>3 DEF Eq
<1> HIDE DEF u
<1>9. u[0] = <<<<>>>> /\ \A n \in 1 .. k : u[n] = step(n, u[n - 1])
  <2> HIDE DEF step, V
  <2>1. \A n \in 0 .. k : u[n] = IF n = 0 THEN <<<<>>>> ELSE step(n, u[n - 1])
    <3> HIDE DEF k
    <3> QED BY <1>8
  <2>2. 0 \in 0 .. k /\ \A n \in 1 .. k : n \in 0 .. k /\ n # 0 BY <1>1
  <2> QED BY <2>1, <2>2
<1>10. \A n \in 0 .. k : u[n] \in V
  <2> DEFINE Bad == {n \in 0 .. k : u[n] \notin V}
  <2> SUFFICES ASSUME Bad # {} PROVE FALSE OBVIOUS
  <2>1. PICK n \in Bad : \A m \in Bad : n <= m
    <3>1. Bad \in SUBSET Nat BY <1>1
    <3> HIDE DEF Bad
    <3> QED BY <3>1, LeastNatural
  <2>2. n # 0 BY <1>2, <1>9
  <2>3. n \in 1 .. k /\ n - 1 \in 0 .. k /\ ~(n <= n - 1)
    <3>1. n \in 0 .. k OBVIOUS
    <3> HIDE DEF Bad, V, k
    <3> QED BY <1>1, <2>2, <3>1
  <2> HIDE DEF V, step
  <2>4. u[n - 1] \in V BY <2>1, <2>3
  <2>5. step(n, u[n - 1]) \in V BY <1>3, <2>3, <2>4
  <2> QED BY <1>9, <2>3, <2>5
<1> QED BY <1>9, <1>10 DEF u

\* The names so far, segment by segment.
LEMMA NamesGoOn ==
    ASSUME NEW T, NEW segments \in Seq(T), NEW nameless
    PROVE  LET w == WithoutUpTo(segments, nameless)
           IN  /\ \A n \in 0 .. Len(segments) : w[n] \in Seq(T \ nameless)
               /\ w[0] = <<>>
               /\ \A n \in 1 .. Len(segments) :
                     w[n] = IF segments[n] \in nameless THEN w[n - 1]
                            ELSE Append(w[n - 1], segments[n])
<1> DEFINE k == Len(segments)
           N == T \ nameless
           V == Seq(N)
           step(n, v) == IF segments[n] \in nameless THEN v ELSE Append(v, segments[n])
           G == [n \in 1 .. k |-> [v \in V |-> step(n, v)]]
           w == WithoutUpTo(segments, nameless)
<1>1. k \in Nat OBVIOUS
<1>2. <<>> \in V OBVIOUS
<1>3. ASSUME NEW n \in 1 .. k, NEW v \in V PROVE step(n, v) \in V
  <2>1. CASE segments[n] \in nameless BY <2>1
  <2>2. CASE segments[n] \notin nameless
    <3>1. segments[n] \in N BY <2>2
    <3> HIDE DEF N
    <3> QED BY <2>2, <3>1
  <2> QED BY <2>1, <2>2
<1>4. G \in [1 .. k -> [V -> V]]
  <2> HIDE DEF V, step
  <2> QED BY <1>3
<1>5. \E f \in [0 .. k -> V] : GoesFrom(f, k, <<>>, G)
  <2> HIDE DEF k, V, G
  <2> QED BY <1>1, <1>2, <1>4, RecursionExists
<1>6. PICK f \in [0 .. k -> V] : f = [n \in 0 .. k |-> IF n = 0 THEN <<>> ELSE G[n][f[n - 1]]]
  BY <1>5 DEF GoesFrom
<1>7. f = [n \in 0 .. k |-> IF n = 0 THEN <<>> ELSE step(n, f[n - 1])]
  <2> HIDE DEF V, step
  <2>1. \A n \in 1 .. k : G[n][f[n - 1]] = step(n, f[n - 1])
    <3> SUFFICES ASSUME NEW n \in 1 .. k PROVE G[n][f[n - 1]] = step(n, f[n - 1]) OBVIOUS
    <3>1. n - 1 \in 0 .. k BY <1>1
    <3>2. f[n - 1] \in V BY <3>1
    <3> QED BY <3>2
  <2>2. \A n \in 0 .. k : f[n] = IF n = 0 THEN <<>> ELSE step(n, f[n - 1])
    <3> HIDE DEF k, G
    <3> SUFFICES ASSUME NEW n \in 0 .. k
                 PROVE  f[n] = IF n = 0 THEN <<>> ELSE step(n, f[n - 1])
      OBVIOUS
    <3>1. f[n] = IF n = 0 THEN <<>> ELSE G[n][f[n - 1]] BY <1>6
    <3>2. n # 0 => n \in 1 .. k BY <1>1
    <3> QED BY <3>1, <3>2, <2>1
  <2>3. f = [n \in 0 .. k |-> f[n]] OBVIOUS
  <2> HIDE DEF k, G
  <2> QED BY <2>2, <2>3
<1>8. w = [n \in 0 .. k |-> IF n = 0 THEN <<>> ELSE step(n, w[n - 1])]
  <2> DEFINE Eq(g) == g = [n \in 0 .. k |-> IF n = 0 THEN <<>> ELSE step(n, g[n - 1])]
  <2>1. w = CHOOSE g : Eq(g) BY DEF WithoutUpTo
  <2>2. Eq(f) BY <1>7
  <2> HIDE DEF w, Eq
  <2>3. Eq(w) BY <2>1, <2>2
  <2> QED BY <2>3 DEF Eq
<1> HIDE DEF w
<1>9. w[0] = <<>> /\ \A n \in 1 .. k : w[n] = step(n, w[n - 1])
  <2> HIDE DEF step, V
  <2>1. \A n \in 0 .. k : w[n] = IF n = 0 THEN <<>> ELSE step(n, w[n - 1])
    <3> HIDE DEF k
    <3> QED BY <1>8
  <2>2. 0 \in 0 .. k /\ \A n \in 1 .. k : n \in 0 .. k /\ n # 0 BY <1>1
  <2> QED BY <2>1, <2>2
<1>10. \A n \in 0 .. k : w[n] \in V
  <2> DEFINE Bad == {n \in 0 .. k : w[n] \notin V}
  <2> SUFFICES ASSUME Bad # {} PROVE FALSE OBVIOUS
  <2>1. PICK n \in Bad : \A m \in Bad : n <= m
    <3>1. Bad \in SUBSET Nat BY <1>1
    <3> HIDE DEF Bad
    <3> QED BY <3>1, LeastNatural
  <2>2. n # 0 BY <1>2, <1>9
  <2>3. n \in 1 .. k /\ n - 1 \in 0 .. k /\ ~(n <= n - 1)
    <3>1. n \in 0 .. k OBVIOUS
    <3> HIDE DEF Bad, V, k
    <3> QED BY <1>1, <2>2, <3>1
  <2> HIDE DEF V, step
  <2>4. w[n - 1] \in V BY <2>1, <2>3
  <2>5. step(n, w[n - 1]) \in V BY <1>3, <2>3, <2>4
  <2> QED BY <1>9, <2>3, <2>5
<1> QED BY <1>9, <1>10 DEF w

\* What is left are names, ...
LEMMA WithoutNames ==
    ASSUME NEW T, NEW segments \in Seq(T), NEW nameless
    PROVE  Without(segments, nameless) \in Seq(T \ nameless)
<1>1. Len(segments) \in 0 .. Len(segments) OBVIOUS
<1> QED BY <1>1, NamesGoOn DEF Without

\* ... and where there are only names, all of them are left.
LEMMA NamesStay ==
    ASSUME NEW T, NEW segments \in Seq(T), NEW nameless, T \cap nameless = {}
    PROVE  Without(segments, nameless) = segments
<1> DEFINE k == Len(segments)
           w == WithoutUpTo(segments, nameless)
           Bad == {n \in 0 .. k : w[n] # SubSeq(segments, 1, n)}
<1>1. /\ k \in Nat /\ w[0] = <<>>
      /\ \A n \in 1 .. k : w[n] = Append(w[n - 1], segments[n])
  <2>1. \A n \in 1 .. k : segments[n] \notin nameless OBVIOUS
  <2>2. \A n \in 1 .. k : w[n] = IF segments[n] \in nameless THEN w[n - 1]
                                 ELSE Append(w[n - 1], segments[n])
    BY NamesGoOn
  <2>3. w[0] = <<>> BY NamesGoOn
  <2>4. k \in Nat OBVIOUS
  <2> HIDE DEF w, k
  <2> QED BY <2>1, <2>2, <2>3, <2>4
<1> HIDE DEF w
<1>2. Bad = {}
  <2> SUFFICES ASSUME Bad # {} PROVE FALSE OBVIOUS
  <2>1. PICK n \in Bad : \A m \in Bad : n <= m
    <3>1. Bad \in SUBSET Nat BY <1>1
    <3> HIDE DEF Bad
    <3> QED BY <3>1, LeastNatural
  <2>2. n # 0
    <3>1. SubSeq(segments, 1, 0) = <<>> OBVIOUS
    <3>2. w[n] # SubSeq(segments, 1, n) OBVIOUS
    <3> HIDE DEF Bad
    <3> QED BY <1>1, <3>1, <3>2
  <2>3. n \in 1 .. k /\ n - 1 \in 0 .. k /\ ~(n <= n - 1)
    <3>1. n \in 0 .. k OBVIOUS
    <3> HIDE DEF Bad, k
    <3> QED BY <1>1, <2>2, <3>1
  <2>4. w[n - 1] = SubSeq(segments, 1, n - 1) BY <2>1, <2>3
  <2>5. w[n] = Append(SubSeq(segments, 1, n - 1), segments[n]) BY <1>1, <2>3, <2>4
  <2>6. Append(SubSeq(segments, 1, n - 1), segments[n]) = SubSeq(segments, 1, n) BY <2>3
  <2> QED BY <2>5, <2>6
<1>3. w[k] = SubSeq(segments, 1, k) BY <1>1, <1>2
<1>4. SubSeq(segments, 1, k) = segments OBVIOUS
<1> QED BY <1>3, <1>4 DEF Without, w

-----------------------------------------------------------------------------
(* What the normaliser refuses.                                            *)

\* Two dots from i with a slash or an end on both sides.
DotsAt(text, i) ==
    /\ i \in 1 .. Len(text) - 1 /\ text[i] = "." /\ text[i + 1] = "."
    /\ i = 1 \/ text[i - 1] = "/"
    /\ i + 1 = Len(text) \/ text[i + 2] = "/"

\* The four searches of the normaliser, in terms of characters.
LEMMA WholeIsDots ==
    ASSUME NEW C, NEW text \in Seq(C)
    PROVE  text = DotDot <=> Len(text) = 2 /\ text[1] = "." /\ text[2] = "."
BY DEF DotDot

LEMMA IsDotsSlash ==
    ASSUME NEW C, NEW s \in Seq(C)
    PROVE  s = <<".", ".", "/">> <=> Len(s) = 3 /\ s[1] = "." /\ s[2] = "." /\ s[3] = "/"
OBVIOUS

LEMMA IsSlashDotsSlash ==
    ASSUME NEW C, NEW s \in Seq(C)
    PROVE  s = <<"/", ".", ".", "/">>
               <=> Len(s) = 4 /\ s[1] = "/" /\ s[2] = "." /\ s[3] = "." /\ s[4] = "/"
OBVIOUS

LEMMA IsSlashDots ==
    ASSUME NEW C, NEW s \in Seq(C)
    PROVE  s = <<"/", ".", ".">> <=> Len(s) = 3 /\ s[1] = "/" /\ s[2] = "." /\ s[3] = "."
OBVIOUS

LEMMA ReverseOf ==
    ASSUME NEW C, NEW s \in Seq(C)
    PROVE  /\ Reverse(s) \in Seq(C) /\ Len(Reverse(s)) = Len(s)
           /\ \A i \in 1 .. Len(s) : Reverse(s)[i] = s[Len(s) - i + 1]
BY DEF Reverse

LEMMA DotsReversed == Reverse(<<"/", ".", ".">>) = <<".", ".", "/">>
<1> DEFINE s == <<"/", ".", ".">>  C == {"/", "."}  t == Reverse(s)
<1>1. s \in Seq(C) OBVIOUS
<1> HIDE DEF s, C
<1>2. Len(s) = 3 /\ s[1] = "/" /\ s[2] = "." /\ s[3] = "." BY <1>1, IsSlashDots DEF s
<1>3. /\ t \in Seq(C) /\ Len(t) = Len(s)
      /\ \A i \in 1 .. Len(s) : t[i] = s[Len(s) - i + 1]
  BY <1>1, ReverseOf
<1> HIDE DEF t
<1>4. Len(t) = 3 /\ t[1] = "." /\ t[2] = "." /\ t[3] = "/" BY <1>2, <1>3
<1>5. t = <<".", ".", "/">> BY <1>3, <1>4, IsDotsSlash
<1> QED BY <1>5 DEF t, s

LEMMA BeginsWithDots ==
    ASSUME NEW C, NEW text \in Seq(C)
    PROVE  IsPrefix(<<".", ".", "/">>, text)
               <=> Len(text) >= 3 /\ text[1] = "." /\ text[2] = "." /\ text[3] = "/"
<1> DEFINE p == <<".", ".", "/">>
<1>2. p \in Seq({"/", "."}) /\ Len(p) = 3 OBVIOUS
<1>3. SubSeq(p, 1, Len(p)) = p
  <2> HIDE DEF p
  <2> QED BY <1>2
<1>4. IsPrefix(p, text) <=> Len(text) >= 3 /\ SubSeq(text, 1, 3) = p BY <1>2, <1>3 DEF IsPrefix
<1>5. ASSUME Len(text) >= 3
      PROVE  SubSeq(text, 1, 3) = p <=> text[1] = "." /\ text[2] = "." /\ text[3] = "/"
  <2> DEFINE s == SubSeq(text, 1, 3)
  <2>1. s \in Seq(C) /\ Len(s) = 3 /\ \A i \in 1 .. 3 : s[i] = text[i] BY <1>5
  <2> HIDE DEF s
  <2>2. s = p <=> s[1] = "." /\ s[2] = "." /\ s[3] = "/" BY <2>1, IsDotsSlash
  <2>3. s = p <=> text[1] = "." /\ text[2] = "." /\ text[3] = "/" BY <2>1, <2>2
  <2> QED BY <2>3 DEF s
<1> HIDE DEF p
<1> QED BY <1>4, <1>5 DEF p

LEMMA EndsWithDots ==
    ASSUME NEW C, NEW text \in Seq(C)
    PROVE  IsSuffix(<<"/", ".", ".">>, text)
               <=> /\ Len(text) >= 3 /\ text[Len(text)] = "." /\ text[Len(text) - 1] = "."
                   /\ text[Len(text) - 2] = "/"
<1> DEFINE p == <<".", ".", "/">>
           t == Reverse(text)
           L == Len(text)
<1>1. Reverse(<<"/", ".", ".">>) = p BY DotsReversed
<1>2. /\ t \in Seq(C) /\ Len(t) = L /\ L \in Nat
      /\ \A i \in 1 .. L : t[i] = text[L - i + 1]
  BY DEF Reverse
<1>3. p \in Seq({"/", "."}) /\ Len(p) = 3 OBVIOUS
<1>4. SubSeq(p, 1, Len(p)) = p
  <2> HIDE DEF p
  <2> QED BY <1>3
<1> HIDE DEF t
<1>5. IsPrefix(p, t) <=> L >= 3 /\ SubSeq(t, 1, 3) = p BY <1>2, <1>3, <1>4 DEF IsPrefix
<1>6. ASSUME L >= 3
      PROVE  SubSeq(t, 1, 3) = p <=> text[L] = "." /\ text[L - 1] = "." /\ text[L - 2] = "/"
  <2> DEFINE s == SubSeq(t, 1, 3)
  <2>1. s \in Seq(C) /\ Len(s) = 3 /\ \A i \in 1 .. 3 : s[i] = t[i] BY <1>2, <1>6
  <2> HIDE DEF s
  <2>2. t[1] = text[L] /\ t[2] = text[L - 1] /\ t[3] = text[L - 2] BY <1>2, <1>6
  <2>3. s = p <=> s[1] = "." /\ s[2] = "." /\ s[3] = "/" BY <2>1, IsDotsSlash
  <2>4. s = p <=> t[1] = "." /\ t[2] = "." /\ t[3] = "/" BY <2>1, <2>3
  <2> QED BY <2>2, <2>4 DEF s
<1> HIDE DEF p
<1>7. IsSuffix(<<"/", ".", ".">>, text) <=> IsPrefix(p, t) BY <1>1 DEF IsSuffix, t
<1> QED BY <1>5, <1>6, <1>7

LEMMA FindsDots ==
    ASSUME NEW C, NEW text \in Seq(C)
    PROVE  Finds(text, <<"/", ".", ".", "/">>)
               <=> \E i \in 2 .. Len(text) - 2 :
                       text[i - 1] = "/" /\ text[i] = "." /\ text[i + 1] = "." /\ text[i + 2] = "/"
<1> DEFINE p == <<"/", ".", ".", "/">>
           L == Len(text)
<1>2. Len(p) = 4 /\ L \in Nat OBVIOUS
<1>3. ASSUME NEW k \in 1 .. L - 3
      PROVE  SubSeq(text, k, k + 3) = p
                 <=> text[k] = "/" /\ text[k + 1] = "." /\ text[k + 2] = "." /\ text[k + 3] = "/"
  <2> DEFINE s == SubSeq(text, k, k + 3)
  <2>1. s \in Seq(C) /\ Len(s) = 4 /\ \A i \in 1 .. 4 : s[i] = text[k + i - 1] OBVIOUS
  <2> HIDE DEF s
  <2>2. s = p <=> text[k] = "/" /\ text[k + 1] = "." /\ text[k + 2] = "." /\ text[k + 3] = "/"
    BY <2>1, IsSlashDotsSlash
  <2> QED BY <2>2 DEF s
<1>4. Finds(text, p) <=> \E k \in 1 .. L - 3 : SubSeq(text, k, k + 3) = p
  <2>1. L - Len(p) + 1 = L - 3 BY <1>2
  <2>2. \A k \in 1 .. L - 3 : k + Len(p) - 1 = k + 3 BY <1>2
  <2> HIDE DEF p, L
  <2> QED BY <2>1, <2>2 DEF Finds, L
<1>5. ASSUME NEW k \in 1 .. L - 3
      PROVE  /\ k + 1 \in 2 .. L - 2 /\ (k + 1) - 1 = k
             /\ (k + 1) + 1 = k + 2 /\ (k + 1) + 2 = k + 3
  OBVIOUS
<1>6. ASSUME NEW i \in 2 .. L - 2
      PROVE  /\ i - 1 \in 1 .. L - 3 /\ (i - 1) + 1 = i
             /\ (i - 1) + 2 = i + 1 /\ (i - 1) + 3 = i + 2
  OBVIOUS
<1> HIDE DEF p, L
<1>7. Finds(text, p) <=> \E k \in 1 .. L - 3 :
          text[k] = "/" /\ text[k + 1] = "." /\ text[k + 2] = "." /\ text[k + 3] = "/"
  BY <1>3, <1>4
<1>8. (\E k \in 1 .. L - 3 :
          text[k] = "/" /\ text[k + 1] = "." /\ text[k + 2] = "." /\ text[k + 3] = "/")
      <=> (\E i \in 2 .. L - 2 :
          text[i - 1] = "/" /\ text[i] = "." /\ text[i + 1] = "." /\ text[i + 2] = "/")
  <2>1. ASSUME NEW k \in 1 .. L - 3,
               text[k] = "/" /\ text[k + 1] = "." /\ text[k + 2] = "." /\ text[k + 3] = "/"
        PROVE  \E i \in 2 .. L - 2 :
                  text[i - 1] = "/" /\ text[i] = "." /\ text[i + 1] = "." /\ text[i + 2] = "/"
    <3>1. k + 1 \in 2 .. L - 2 BY <1>5
    <3> WITNESS k + 1 \in 2 .. L - 2
    <3> QED BY <1>5, <2>1
  <2>2. ASSUME NEW i \in 2 .. L - 2,
               text[i - 1] = "/" /\ text[i] = "." /\ text[i + 1] = "." /\ text[i + 2] = "/"
        PROVE  \E k \in 1 .. L - 3 :
                  text[k] = "/" /\ text[k + 1] = "." /\ text[k + 2] = "." /\ text[k + 3] = "/"
    <3>1. i - 1 \in 1 .. L - 3 BY <1>6
    <3> WITNESS i - 1 \in 1 .. L - 3
    <3> QED BY <1>6, <2>2
  <2> QED BY <2>1, <2>2
<1> QED BY <1>7, <1>8 DEF L, p

\* Together they find two dots between slashes or ends, wherever they are.
LEMMA TraversalIsDots ==
    ASSUME NEW C, NEW text \in Seq(C)
    PROVE  IsTraversal(text) <=> \E i \in Nat : DotsAt(text, i)
<1> DEFINE L == Len(text)
<1>0. L \in Nat OBVIOUS
<1>1. IsTraversal(text) <=>
        \/ L = 2 /\ text[1] = "." /\ text[2] = "."
        \/ L >= 3 /\ text[1] = "." /\ text[2] = "." /\ text[3] = "/"
        \/ L >= 3 /\ text[L] = "." /\ text[L - 1] = "." /\ text[L - 2] = "/"
        \/ \E i \in 2 .. L - 2 :
              text[i - 1] = "/" /\ text[i] = "." /\ text[i + 1] = "." /\ text[i + 2] = "/"
  BY WholeIsDots, BeginsWithDots, EndsWithDots, FindsDots DEF IsTraversal
<1> HIDE DEF L
<1>2. \A i : DotsAt(text, i) <=>
        /\ i \in 1 .. L - 1 /\ text[i] = "." /\ text[i + 1] = "."
        /\ i = 1 \/ text[i - 1] = "/"
        /\ i + 1 = L \/ text[i + 2] = "/"
  BY DEF DotsAt, L
<1>3. ASSUME IsTraversal(text) PROVE \E i \in Nat : DotsAt(text, i)
  <2>1. CASE L = 2 /\ text[1] = "." /\ text[2] = "."
    <3>1. DotsAt(text, 1) BY <1>2, <2>1
    <3> QED BY <3>1
  <2>2. CASE L >= 3 /\ text[1] = "." /\ text[2] = "." /\ text[3] = "/"
    <3>1. DotsAt(text, 1) BY <1>0, <1>2, <2>2
    <3> QED BY <3>1
  <2>3. CASE L >= 3 /\ text[L] = "." /\ text[L - 1] = "." /\ text[L - 2] = "/"
    <3>1. L - 1 \in 1 .. L - 1 /\ (L - 1) + 1 = L /\ (L - 1) - 1 = L - 2 BY <1>0, <2>3
    <3>2. DotsAt(text, L - 1) BY <1>2, <2>3, <3>1
    <3> QED BY <3>1, <3>2
  <2>4. CASE \E i \in 2 .. L - 2 :
              text[i - 1] = "/" /\ text[i] = "." /\ text[i + 1] = "." /\ text[i + 2] = "/"
    <3>1. PICK i \in 2 .. L - 2 :
              text[i - 1] = "/" /\ text[i] = "." /\ text[i + 1] = "." /\ text[i + 2] = "/"
      BY <2>4
    <3>2. DotsAt(text, i) BY <1>0, <1>2, <3>1
    <3> QED BY <3>2
  <2> QED BY <1>1, <1>3, <2>1, <2>2, <2>3, <2>4
<1>4. ASSUME NEW i \in Nat, DotsAt(text, i) PROVE IsTraversal(text)
  <2>1. CASE i = 1 /\ i + 1 = L BY <1>0, <1>1, <1>2, <1>4, <2>1
  <2>2. CASE i = 1 /\ i + 1 # L BY <1>0, <1>1, <1>2, <1>4, <2>2
  <2>3. CASE i # 1 /\ i + 1 = L
    <3>1. L >= 3 /\ i = L - 1 /\ i - 1 = L - 2 BY <1>0, <1>2, <1>4, <2>3
    <3> QED BY <1>1, <1>2, <1>4, <2>3, <3>1
  <2>4. CASE i # 1 /\ i + 1 # L
    <3>1. i \in 2 .. L - 2 BY <1>0, <1>2, <1>4, <2>4
    <3> QED BY <1>1, <1>2, <1>4, <2>4, <3>1
  <2> QED BY <2>1, <2>2, <2>3, <2>4
<1> QED BY <1>3, <1>4

\* Each segment so far is what lies between two slashes, the last one what lies
\* after the last slash.
IsBetween(text, n, u, j) ==
    \E a \in 1 .. n + 1 : \E b \in 0 .. n :
        /\ a <= b + 1 /\ u[j] = SubSeq(text, a, b)
        /\ a = 1 \/ text[a - 1] = "/"
        /\ j < Len(u) => b < n /\ text[b + 1] = "/"
        /\ j = Len(u) => b = n

LEMMA FrontOf ==
    ASSUME NEW S, NEW v \in Seq(S), v # <<>>
    PROVE  /\ Front(v) \in Seq(S) /\ Len(Front(v)) = Len(v) - 1
           /\ \A i \in 1 .. Len(v) - 1 : Front(v)[i] = v[i]
<1>1. Front(v) = SubSeq(v, 1, Len(v) - 1) BY DEF Front
<1>2. Len(v) \in Nat /\ Len(v) >= 1 OBVIOUS
<1>3. SubSeq(v, 1, Len(v) - 1) \in Seq(S) /\ Len(SubSeq(v, 1, Len(v) - 1)) = Len(v) - 1
  <2> DEFINE k == Len(v) - 1
  <2>1. k \in Nat /\ k <= Len(v) BY <1>2
  <2>2. \A i \in 1 .. k : v[i] \in S BY <2>1
  <2> HIDE DEF k
  <2>3. SubSeq(v, 1, k) = [i \in 1 .. k |-> v[i]] BY <2>1
  <2>4. [i \in 1 .. k |-> v[i]] \in Seq(S) /\ Len([i \in 1 .. k |-> v[i]]) = k BY <2>1, <2>2
  <2> QED BY <2>3, <2>4 DEF k
<1>4. \A i \in 1 .. Len(v) - 1 : SubSeq(v, 1, Len(v) - 1)[i] = v[i] BY <1>2
<1> QED BY <1>1, <1>3, <1>4

LEMMA SegmentsAreBetweenSlashes ==
    ASSUME NEW C, NEW text \in Seq(C), NEW n \in 0 .. Len(text),
           NEW j \in 1 .. Len(SegmentsUpTo(text)[n])
    PROVE  IsBetween(text, n, SegmentsUpTo(text)[n], j)
<1> DEFINE k == Len(text)
           u == SegmentsUpTo(text)
           Good(m) == \A i \in 1 .. Len(u[m]) : IsBetween(text, m, u[m], i)
           Bad == {m \in 0 .. k : ~Good(m)}
<1>0. k \in Nat OBVIOUS
<1>1. /\ \A m \in 0 .. k : u[m] \in Seq(Seq(C \ {"/"})) /\ u[m] # <<>>
      /\ u[0] = <<<<>>>>
      /\ \A m \in 1 .. k :
            u[m] = IF text[m] = "/" THEN Append(u[m - 1], <<>>)
                   ELSE Append(Front(u[m - 1]), Append(Last(u[m - 1]), text[m]))
  BY SegmentsGoOn
<1> HIDE DEF u
<1>2. Good(0)
  <2> SUFFICES ASSUME NEW i \in 1 .. Len(u[0]) PROVE IsBetween(text, 0, u[0], i) OBVIOUS
  <2>1. Len(u[0]) = 1 /\ u[0][1] = <<>> BY <1>1
  <2>2. i = 1 /\ u[0][i] = <<>> BY <2>1
  <2>3. SubSeq(text, 1, 0) = <<>> OBVIOUS
  <2>4. 1 \in 1 .. 0 + 1 /\ 0 \in 0 .. 0 /\ 1 <= 0 + 1 OBVIOUS
  <2>5. u[0][i] = SubSeq(text, 1, 0) BY <2>2, <2>3
  <2>6. ~(i < Len(u[0]))
    <3> DEFINE l == Len(u[0])
    <3> HIDE DEF l
    <3>1. i = 1 /\ l = 1 BY <2>1, <2>2 DEF l
    <3> QED BY <3>1 DEF l
  <2> QED BY <2>4, <2>5, <2>6 DEF IsBetween
<1>3. ASSUME NEW m \in 1 .. k, Good(m - 1) PROVE Good(m)
  <2> DEFINE v == u[m - 1]  w == u[m]  L == Len(v)
  <2>0. m - 1 \in 0 .. k /\ m \in 0 .. k BY <1>0
  <2>1. /\ v \in Seq(Seq(C \ {"/"})) /\ v # <<>>
        /\ w = IF text[m] = "/" THEN Append(v, <<>>)
               ELSE Append(Front(v), Append(Last(v), text[m]))
        /\ \A i \in 1 .. L : IsBetween(text, m - 1, v, i)
    BY <1>1, <1>3, <2>0
  <2> SUFFICES ASSUME NEW i \in 1 .. Len(w) PROVE IsBetween(text, m, w, i) OBVIOUS
  <2> HIDE DEF v, w
  <2>2. L \in Nat /\ L >= 1 BY <2>1
  <2>3. CASE text[m] = "/"
    <3>1. w = Append(v, <<>>) BY <2>1, <2>3
    <3>2. /\ Len(w) = L + 1 /\ w[L + 1] = <<>> /\ \A l \in 1 .. L : w[l] = v[l]
      <4>1. <<>> \in Seq(C \ {"/"}) OBVIOUS
      <4> DEFINE S == Seq(C \ {"/"})
      <4> HIDE DEF S
      <4>2. v \in Seq(S) /\ <<>> \in S BY <2>1, <4>1 DEF S
      <4> QED BY <3>1, <4>2
    <3>3. CASE i = L + 1
      <4>1. SubSeq(text, m + 1, m) = <<>> BY <1>0
      <4>2. m + 1 \in 1 .. m + 1 /\ m \in 0 .. m /\ m + 1 <= m + 1 /\ (m + 1) - 1 = m BY <1>0
      <4>3. w[i] = SubSeq(text, m + 1, m) BY <3>2, <3>3, <4>1
      <4>4. ~(i < Len(w)) BY <2>2, <3>2, <3>3
      <4> QED BY <2>3, <4>2, <4>3, <4>4 DEF IsBetween
    <3>4. CASE i # L + 1
      <4>1. i \in 1 .. L BY <2>2, <3>2, <3>4
      <4>2. PICK a \in 1 .. (m - 1) + 1, b \in 0 .. m - 1 :
                /\ a <= b + 1 /\ v[i] = SubSeq(text, a, b)
                /\ a = 1 \/ text[a - 1] = "/"
                /\ i < L => b < m - 1 /\ text[b + 1] = "/"
                /\ i = L => b = m - 1
        BY <2>1, <4>1 DEF IsBetween
      <4>3. b < m /\ text[b + 1] = "/"
        <5>1. CASE i < L BY <4>2, <5>1
        <5>2. CASE i = L
          <6>1. b = m - 1 /\ b + 1 = m BY <4>2, <5>2
          <6> QED BY <2>3, <6>1
        <5> QED BY <2>2, <4>1, <5>1, <5>2
      <4>4. a \in 1 .. m + 1 /\ b \in 0 .. m BY <4>2
      <4>5. w[i] = SubSeq(text, a, b) BY <3>2, <4>1, <4>2
      <4>6. i # Len(w) BY <3>2, <3>4
      <4> QED BY <4>2, <4>3, <4>4, <4>5, <4>6 DEF IsBetween
    <3> QED BY <3>3, <3>4
  <2>4. CASE text[m] # "/"
    <3>1. w = Append(Front(v), Append(v[L], text[m])) BY <2>1, <2>4 DEF Last
    <3>2. Len(w) = L /\ w[L] = Append(v[L], text[m]) /\ \A l \in 1 .. L - 1 : w[l] = v[l]
      <4> DEFINE S == Seq(C \ {"/"})  x == Append(v[L], text[m])
      <4>1. v[L] \in S
        <5> HIDE DEF S
        <5>1. v \in Seq(S) BY <2>1 DEF S
        <5> QED BY <2>2, <5>1
      <4>2. text[m] \in C \ {"/"} BY <2>4
      <4>3. x \in S BY <4>1, <4>2
      <4> HIDE DEF S, x
      <4>4. v \in Seq(S) BY <2>1 DEF S
      <4>5. /\ Front(v) \in Seq(S) /\ Len(Front(v)) = L - 1
            /\ \A l \in 1 .. L - 1 : Front(v)[l] = v[l]
        BY <2>1, <4>4, FrontOf
      <4>6. w = Append(Front(v), x) BY <3>1 DEF x
      <4> HIDE DEF L
      <4>7. Len(w) = L /\ w[L] = x /\ \A l \in 1 .. L - 1 : w[l] = Front(v)[l]
        BY <2>2, <4>3, <4>5, <4>6
      <4> QED BY <4>5, <4>7 DEF x
    <3>3. PICK a \in 1 .. (m - 1) + 1, b \in 0 .. m - 1 :
              /\ a <= b + 1 /\ v[i] = SubSeq(text, a, b)
              /\ a = 1 \/ text[a - 1] = "/"
              /\ i < L => b < m - 1 /\ text[b + 1] = "/"
              /\ i = L => b = m - 1
      BY <2>1, <3>2 DEF IsBetween
    <3>4. CASE i = L
      <4>1. b = m - 1 BY <3>3, <3>4
      <4>2. w[i] = Append(SubSeq(text, a, m - 1), text[m]) BY <3>2, <3>3, <3>4, <4>1
      <4>3. Append(SubSeq(text, a, m - 1), text[m]) = SubSeq(text, a, m) BY <3>3, <4>1
      <4>4. a \in 1 .. m + 1 /\ m \in 0 .. m /\ a <= m + 1 BY <1>0, <3>3
      <4>5. ~(i < Len(w)) BY <2>2, <3>2, <3>4
      <4>6. w[i] = SubSeq(text, a, m) BY <4>2, <4>3
      <4> QED BY <3>3, <4>4, <4>5, <4>6 DEF IsBetween
    <3>5. CASE i # L
      <4>1. i \in 1 .. L - 1 /\ i < L BY <2>2, <3>2, <3>5
      <4>2. w[i] = SubSeq(text, a, b) /\ b < m /\ text[b + 1] = "/"
        <5>1. w[i] = v[i] BY <3>2, <4>1
        <5>2. b < m BY <3>3
        <5> QED BY <3>3, <4>1, <5>1, <5>2
      <4>3. a \in 1 .. m + 1 /\ b \in 0 .. m /\ i # Len(w) BY <3>2, <3>3, <3>5
      <4> QED BY <3>3, <4>2, <4>3 DEF IsBetween
    <3> QED BY <3>4, <3>5
  <2> QED BY <2>3, <2>4
<1>4. Bad = {}
  <2> SUFFICES ASSUME Bad # {} PROVE FALSE OBVIOUS
  <2> HIDE DEF Good
  <2>1. PICK m \in Bad : \A l \in Bad : m <= l
    <3>1. Bad \in SUBSET Nat BY <1>0
    <3> HIDE DEF Bad
    <3> QED BY <3>1, LeastNatural
  <2>2. m # 0 BY <1>2
  <2>3. m \in 1 .. k /\ m - 1 \in 0 .. k /\ ~(m <= m - 1)
    <3>1. m \in 0 .. k OBVIOUS
    <3> HIDE DEF Bad, k
    <3> QED BY <1>0, <2>2, <3>1
  <2>4. Good(m - 1) BY <2>1, <2>3
  <2> QED BY <1>3, <2>3, <2>4
<1> HIDE DEF k
<1>5. Good(n) BY <1>4 DEF k
<1> QED BY <1>5 DEF u

\* Where the searches find nothing no segment is "..".
LEMMA NoSegmentIsDotDot ==
    ASSUME NEW C, NEW text \in Seq(C), ~IsTraversal(text),
           NEW j \in 1 .. Len(Segments(text))
    PROVE  Segments(text)[j] # DotDot
<1> DEFINE k == Len(text)
           u == SegmentsUpTo(text)[k]
<1>0. k \in Nat /\ k \in 0 .. k OBVIOUS
<1>1. u = Segments(text) BY DEF Segments
<1>2. u \in Seq(Seq(C \ {"/"})) BY <1>0, SegmentsGoOn
<1>3. IsBetween(text, k, u, j) BY <1>0, <1>1, SegmentsAreBetweenSlashes
<1> SUFFICES ASSUME u[j] = DotDot PROVE FALSE BY <1>1
<1> HIDE DEF u
<1>4. PICK a \in 1 .. k + 1, b \in 0 .. k :
          /\ a <= b + 1 /\ u[j] = SubSeq(text, a, b)
          /\ a = 1 \/ text[a - 1] = "/"
          /\ j < Len(u) => b < k /\ text[b + 1] = "/"
          /\ j = Len(u) => b = k
  BY <1>3 DEF IsBetween
<1>5. Len(DotDot) = 2 /\ DotDot[1] = "." /\ DotDot[2] = "." BY DEF DotDot
<1>6. b - a + 1 = 2 /\ text[a] = "." /\ text[a + 1] = "."
  <2> DEFINE s == SubSeq(text, a, b)
  <2>1. Len(s) = b - a + 1 /\ \A i \in 1 .. b - a + 1 : s[i] = text[a + i - 1] BY <1>4
  <2> HIDE DEF s
  <2>2. s = DotDot BY <1>4 DEF s
  <2>3. b - a + 1 = 2 BY <1>5, <2>1, <2>2
  <2> QED BY <1>5, <2>1, <2>2, <2>3
<1>7. b = a + 1 /\ a \in 1 .. k - 1 BY <1>0, <1>4, <1>6
<1>8. a + 1 = k \/ text[a + 2] = "/"
  <2>1. j < Len(u) \/ j = Len(u) BY <1>1, <1>2
  <2> QED BY <1>4, <1>7, <2>1
<1>9. DotsAt(text, a) BY <1>4, <1>6, <1>7, <1>8 DEF DotsAt
<1> QED BY <1>7, <1>9, TraversalIsDots

\* Slashes for backslashes: a character that is not a separator stays.
LEMMA SlashesFor ==
    ASSUME NEW raw \in Seq(Characters)
    PROVE  LET text == ToSlashes(raw)
           IN  /\ text \in Seq(Characters \ {"\\"}) /\ Len(text) = Len(raw)
               /\ \A i \in 1 .. Len(raw) :
                     /\ text[i] = "/" <=> raw[i] \in Separators
                     /\ raw[i] \notin Separators => text[i] = raw[i]
<1> DEFINE text == ToSlashes(raw)
<1>1. DOMAIN raw = 1 .. Len(raw) /\ Len(raw) \in Nat OBVIOUS
<1>2. text = [i \in 1 .. Len(raw) |-> IF raw[i] = "\\" THEN "/" ELSE raw[i]]
  BY <1>1 DEF ToSlashes
<1>3. \A i \in 1 .. Len(raw) : (IF raw[i] = "\\" THEN "/" ELSE raw[i]) \in Characters \ {"\\"}
  BY DEF Characters, Separators
<1> DEFINE C == Characters \ {"\\"}
<1> HIDE DEF text, C
<1>4. text \in Seq(C) /\ Len(text) = Len(raw) BY <1>1, <1>2, <1>3 DEF C
<1>5. ASSUME NEW i \in 1 .. Len(raw)
      PROVE  /\ text[i] = "/" <=> raw[i] \in Separators
             /\ raw[i] \notin Separators => text[i] = raw[i]
  <2>1. text[i] = IF raw[i] = "\\" THEN "/" ELSE raw[i] BY <1>2
  <2> QED BY <2>1 DEF Separators
<1> QED BY <1>4, <1>5 DEF C, text

\* A part of a path is ".." exactly where its text has two dots between slashes
\* or ends.
LEMMA PartIsDots ==
    ASSUME NEW raw \in Seq(Characters)
    PROVE  DotDot \in Parts(raw) <=> \E i \in Nat : DotsAt(ToSlashes(raw), i)
<1> DEFINE text == ToSlashes(raw)
           L == Len(raw)
           IsEdge(i) == i \notin DOMAIN raw \/ raw[i] \in Separators
           IsPart(i, j) == /\ i <= j /\ IsEdge(i - 1) /\ IsEdge(j + 1)
                           /\ \A k \in i .. j : ~IsEdge(k)
<1>0. L \in Nat /\ DOMAIN raw = 1 .. L OBVIOUS
<1>1. /\ text \in Seq(Characters \ {"\\"}) /\ Len(text) = L
      /\ \A i \in 1 .. L : /\ text[i] = "/" <=> raw[i] \in Separators
                           /\ raw[i] \notin Separators => text[i] = raw[i]
  BY SlashesFor
<1> HIDE DEF text
<1>2. DotDot \in Parts(raw) <=> \E i, j \in DOMAIN raw : DotDot = SubSeq(raw, i, j) /\ IsPart(i, j)
  <2>1. Parts(raw) = {SubSeq(raw, p[1], p[2]) :
                         p \in {q \in (DOMAIN raw) \X (DOMAIN raw) : IsPart(q[1], q[2])}}
    BY DEF Parts
  <2> HIDE DEF IsPart
  <2>2. ASSUME DotDot \in Parts(raw)
        PROVE  \E i, j \in DOMAIN raw : DotDot = SubSeq(raw, i, j) /\ IsPart(i, j)
    <3>1. PICK p \in (DOMAIN raw) \X (DOMAIN raw) :
              IsPart(p[1], p[2]) /\ DotDot = SubSeq(raw, p[1], p[2])
      BY <2>1, <2>2
    <3>2. p[1] \in DOMAIN raw /\ p[2] \in DOMAIN raw OBVIOUS
    <3> QED BY <3>1, <3>2
  <2>3. ASSUME NEW i \in DOMAIN raw, NEW j \in DOMAIN raw,
               DotDot = SubSeq(raw, i, j) /\ IsPart(i, j)
        PROVE  DotDot \in Parts(raw)
    <3> DEFINE p == <<i, j>>
    <3>1. p \in (DOMAIN raw) \X (DOMAIN raw) /\ p[1] = i /\ p[2] = j OBVIOUS
    <3> HIDE DEF p
    <3> QED BY <2>1, <2>3, <3>1
  <2> QED BY <2>2, <2>3
<1>3. ASSUME NEW i \in 0 .. L + 1
      PROVE  IsEdge(i) <=> i = 0 \/ i = L + 1 \/ text[i] = "/"
  BY <1>0, <1>1
<1> HIDE DEF L, IsEdge
<1>4. ASSUME NEW i \in DOMAIN raw, NEW j \in DOMAIN raw, DotDot = SubSeq(raw, i, j), IsPart(i, j)
      PROVE  \E l \in Nat : DotsAt(text, l)
  <2>1. i \in 1 .. L /\ j \in 1 .. L /\ i <= j BY <1>0, <1>4
  <2>2. Len(DotDot) = 2 /\ DotDot[1] = "." /\ DotDot[2] = "." BY DEF DotDot
  <2>3. j - i + 1 = 2 /\ raw[i] = "." /\ raw[i + 1] = "."
    <3> DEFINE s == SubSeq(raw, i, j)
    <3>1. Len(s) = j - i + 1 /\ \A l \in 1 .. j - i + 1 : s[l] = raw[i + l - 1]
      BY <1>0, <2>1 DEF L
    <3> HIDE DEF s
    <3>2. s = DotDot BY <1>4 DEF s
    <3>3. j - i + 1 = 2 BY <2>2, <3>1, <3>2
    <3> QED BY <1>0, <2>1, <2>2, <3>1, <3>2, <3>3
  <2>4. j = i + 1 /\ i \in 1 .. L - 1 /\ i + 1 \in 1 .. L BY <1>0, <2>1, <2>3
  <2>5. text[i] = "." /\ text[i + 1] = "." 
    <3>1. raw[i] \notin Separators /\ raw[i + 1] \notin Separators BY <2>3 DEF Separators
    <3>2. i \in 1 .. L BY <2>1
    <3> QED BY <1>1, <2>3, <2>4, <3>1, <3>2
  <2>6. i = 1 \/ text[i - 1] = "/"
    <3>1. IsEdge(i - 1) BY <1>4
    <3>2. i - 1 \in 0 .. L + 1 /\ i - 1 # L + 1 /\ (i - 1 = 0 => i = 1) BY <1>0, <2>1
    <3> QED BY <1>3, <3>1, <3>2
  <2>7. i + 1 = L \/ text[i + 2] = "/"
    <3>1. IsEdge(j + 1) BY <1>4
    <3>2. j + 1 = i + 2 /\ i + 2 \in 0 .. L + 1 /\ i + 2 # 0 /\ (i + 2 = L + 1 => i + 1 = L)
      BY <1>0, <2>4
    <3> QED BY <1>3, <3>1, <3>2
  <2>8. DotsAt(text, i) BY <1>1, <2>4, <2>5, <2>6, <2>7 DEF DotsAt
  <2> QED BY <2>1, <2>8
<1>5. ASSUME NEW i \in Nat, DotsAt(text, i)
      PROVE  \E l, j \in DOMAIN raw : DotDot = SubSeq(raw, l, j) /\ IsPart(l, j)
  <2>1. /\ i \in 1 .. L - 1 /\ text[i] = "." /\ text[i + 1] = "."
        /\ i = 1 \/ text[i - 1] = "/"
        /\ i + 1 = L \/ text[i + 2] = "/"
    BY <1>1, <1>5 DEF DotsAt
  <2>2. i \in 1 .. L /\ i + 1 \in 1 .. L /\ (i + 1) + 1 = i + 2 BY <1>0, <2>1
  <2>3. raw[i] = "." /\ raw[i + 1] = "."
    <3>1. text[i] # "/" /\ text[i + 1] # "/" BY <2>1
    <3> QED BY <1>1, <2>1, <2>2, <3>1
  <2>4. DotDot = SubSeq(raw, i, i + 1)
    <3> DEFINE s == SubSeq(raw, i, i + 1)
    <3>1. s \in Seq(Characters) /\ Len(s) = 2 /\ \A l \in 1 .. 2 : s[l] = raw[i + l - 1]
      BY <1>0, <2>2 DEF L
    <3> HIDE DEF s
    <3>2. s[1] = "." /\ s[2] = "." BY <2>2, <2>3, <3>1
    <3>3. s = DotDot BY <3>1, <3>2, WholeIsDots
    <3> QED BY <3>3 DEF s
  <2>5. IsEdge(i - 1)
    <3>1. i - 1 \in 0 .. L + 1 /\ (i = 1 => i - 1 = 0) BY <1>0, <2>2
    <3> QED BY <1>3, <2>1, <3>1
  <2>6. IsEdge((i + 1) + 1)
    <3>1. i + 2 \in 0 .. L + 1 /\ (i + 1 = L => i + 2 = L + 1) BY <1>0, <2>2
    <3> QED BY <1>3, <2>1, <2>2, <3>1
  <2>7. \A k \in i .. i + 1 : ~IsEdge(k)
    <3> SUFFICES ASSUME NEW k \in i .. i + 1 PROVE ~IsEdge(k) OBVIOUS
    <3>1. k = i \/ k = i + 1 BY <2>2
    <3>2. k \in 0 .. L + 1 /\ k # 0 /\ k # L + 1 /\ text[k] # "/" BY <1>0, <2>1, <2>2, <3>1
    <3> QED BY <1>3, <3>2
  <2>8. i <= i + 1 BY <2>2
  <2>9. IsPart(i, i + 1) BY <2>5, <2>6, <2>7, <2>8
  <2>10. i \in DOMAIN raw /\ i + 1 \in DOMAIN raw BY <1>0, <2>2
  <2> HIDE DEF IsPart
  <2> QED BY <2>4, <2>9, <2>10
<1> HIDE DEF IsPart
<1> QED BY <1>2, <1>4, <1>5 DEF text

\* The normaliser answers an error exactly for a path that leads out.
LEMMA RefusedLeadsOut ==
    ASSUME NEW raw \in Seq(Characters)
    PROVE  normalizeArchiveEntry(raw).error # "none" <=> LeadsOut(raw)
<1> DEFINE text == ToSlashes(raw)
<1>1. /\ text \in Seq(Characters \ {"\\"}) /\ Len(text) = Len(raw)
      /\ \A i \in 1 .. Len(raw) : /\ text[i] = "/" <=> raw[i] \in Separators
                                  /\ raw[i] \notin Separators => text[i] = raw[i]
  BY SlashesFor
<1> HIDE DEF text
<1>2. IsTraversal(text) <=> DotDot \in Parts(raw)
  BY <1>1, TraversalIsDots, PartIsDots DEF text
<1>3. CASE text = <<>>
  <2>1. raw = <<>> BY <1>1, <1>3
  <2>2. normalizeArchiveEntry(raw) = [error |-> "none", segments |-> <<>>]
    BY <1>3 DEF normalizeArchiveEntry, text
  <2>3. ~IsTraversal(text)
    <3>1. \A i \in Nat : ~DotsAt(text, i) BY <1>3 DEF DotsAt
    <3> QED BY <1>1, <3>1, TraversalIsDots
  <2> QED BY <1>2, <2>1, <2>2, <2>3 DEF LeadsOut
<1>4. CASE text # <<>>
  <2>1. raw # <<>> /\ Len(raw) >= 1 /\ Len(raw) \in Nat BY <1>1, <1>4
  <2>2. IsAbsolute(text)
            <=> raw[1] \in Separators \/ (Len(raw) > 1 /\ raw[1] \in Letters /\ raw[2] = ":")
    <3>1. text[1] = "/" <=> raw[1] \in Separators BY <1>1, <2>1
    <3>2. CASE raw[1] \in Separators BY <3>1, <3>2 DEF IsAbsolute
    <3>3. CASE raw[1] \notin Separators
      <4>1. text[1] = raw[1] /\ text[1] # "/" BY <1>1, <2>1, <3>3
      <4>2. ASSUME Len(raw) > 1 PROVE text[2] = ":" <=> raw[2] = ":"
        <5>1. 2 \in 1 .. Len(raw) BY <2>1, <4>2
        <5> QED BY <1>1, <5>1 DEF Separators
      <4>3. Len(text) >= 2 <=> Len(raw) > 1 BY <1>1, <2>1
      <4> QED BY <3>3, <4>1, <4>2, <4>3 DEF IsAbsolute
    <3> QED BY <3>2, <3>3
  <2>3. CASE IsAbsolute(text)
    <3>1. normalizeArchiveEntry(raw) = [error |-> "AbsoluteNotAllowed", segments |-> <<>>]
      BY <1>4, <2>3 DEF normalizeArchiveEntry, text
    <3> QED BY <2>1, <2>2, <2>3, <3>1 DEF LeadsOut
  <2>4. CASE ~IsAbsolute(text) /\ IsTraversal(text)
    <3>1. normalizeArchiveEntry(raw) = [error |-> "TraversalNotAllowed", segments |-> <<>>]
      BY <1>4, <2>4 DEF normalizeArchiveEntry, text
    <3> QED BY <1>2, <2>4, <3>1 DEF LeadsOut
  <2>5. CASE ~IsAbsolute(text) /\ ~IsTraversal(text)
    <3>1. normalizeArchiveEntry(raw)
              = [error |-> "none", segments |-> Without(Segments(text), {<<>>, <<".">>})]
      BY <1>4, <2>5 DEF normalizeArchiveEntry, text
    <3> QED BY <1>2, <2>1, <2>2, <2>5, <3>1 DEF LeadsOut
  <2> QED BY <2>3, <2>4, <2>5
<1> QED BY <1>3, <1>4

\* What is left of a path are names: not empty, not "." and not "..".
Names == Seq(Characters \ Separators) \ {<<>>, <<".">>, DotDot}

LEMMA SegmentsAreNames ==
    ASSUME NEW raw \in Seq(Characters)
    PROVE  normalizeArchiveEntry(raw).segments \in Seq(Names)
<1> DEFINE text == ToSlashes(raw)
           C == Characters \ {"\\"}
           k == Len(text)
           T == Seq(Characters \ Separators) \ {DotDot}
<1>1. text \in Seq(C) BY SlashesFor
<1>2. <<>> \in Seq(Names) OBVIOUS
<1>3. CASE text # <<>> /\ ~IsAbsolute(text) /\ ~IsTraversal(text)
  <2>1. normalizeArchiveEntry(raw)
              = [error |-> "none", segments |-> Without(Segments(text), {<<>>, <<".">>})]
    BY <1>3 DEF normalizeArchiveEntry
  <2>2. Segments(text) \in Seq(T)
    <3> HIDE DEF text
    <3>1. Segments(text) \in Seq(Seq(C \ {"/"}))
      <4>1. k \in 0 .. k BY <1>1
      <4>2. SegmentsUpTo(text)[k] \in Seq(Seq(C \ {"/"})) BY <1>1, <4>1, SegmentsGoOn
      <4> QED BY <4>2 DEF Segments
    <3>2. C \ {"/"} = Characters \ Separators BY DEF Separators
    <3>3. \A j \in 1 .. Len(Segments(text)) : Segments(text)[j] # DotDot
      BY <1>1, <1>3, NoSegmentIsDotDot
    <3> DEFINE s == Segments(text)  A == Seq(C \ {"/"})
    <3>4. A = Seq(Characters \ Separators) BY <3>2
    <3>5. \A x \in A : x # DotDot => x \in T BY <3>4
    <3> HIDE DEF s, A, T
    <3>6. s \in Seq(A) /\ \A j \in 1 .. Len(s) : s[j] # DotDot BY <3>1, <3>3 DEF s, A
    <3>7. s \in Seq(T) BY <3>5, <3>6
    <3> QED BY <3>7 DEF s
  <2>3. T \ {<<>>, <<".">>} = Names BY DEF Names
  <2> HIDE DEF T
  <2>4. Without(Segments(text), {<<>>, <<".">>}) \in Seq(T \ {<<>>, <<".">>})
    BY <2>2, WithoutNames
  <2> QED BY <2>1, <2>3, <2>4
<1>4. CASE ~(text # <<>> /\ ~IsAbsolute(text) /\ ~IsTraversal(text))
  <2>1. normalizeArchiveEntry(raw).segments = <<>>
    <3>1. CASE text = <<>> BY <3>1 DEF normalizeArchiveEntry
    <3>2. CASE text # <<>> /\ IsAbsolute(text) BY <3>2 DEF normalizeArchiveEntry
    <3>3. CASE text # <<>> /\ ~IsAbsolute(text) /\ IsTraversal(text)
      BY <3>3 DEF normalizeArchiveEntry
    <3> QED BY <1>4, <3>1, <3>2, <3>3
  <2> QED BY <1>2, <2>1
<1> QED BY <1>3, <1>4

-----------------------------------------------------------------------------
(* The insertion of an entry.                                              *)

Nodes == [path : Seq(Names) \ {<<>>}, directory : BOOLEAN, size : Nat]

LEMMA PrefixIsPath ==
    ASSUME NEW s \in Seq(Names), NEW i \in 1 .. Len(s)
    PROVE  SubSeq(s, 1, i) \in Seq(Names) \ {<<>>} /\ Len(SubSeq(s, 1, i)) = i
<1>1. /\ SubSeq(s, 1, i) = [j \in 1 .. i |-> s[j]] /\ i \in Nat
      /\ \A j \in 1 .. i : s[j] \in Names
  OBVIOUS
<1>2. [j \in 1 .. i |-> s[j]] \in Seq(Names) /\ Len([j \in 1 .. i |-> s[j]]) = i BY <1>1
<1>3. SubSeq(s, 1, i) \in Seq(Names) /\ Len(SubSeq(s, 1, i)) = i BY <1>1, <1>2
<1>4. Len(<<>>) # i OBVIOUS
<1> QED BY <1>3, <1>4

LEMMA NodeIsNode ==
    ASSUME NEW p \in Seq(Names) \ {<<>>}, NEW d \in BOOLEAN, NEW z \in Nat
    PROVE  Node(p, d, z) \in Nodes
<1> DEFINE P == Seq(Names) \ {<<>>}
<1> HIDE DEF P
<1>1. p \in P BY DEF P
<1>2. Node(p, d, z) \in [path : P, directory : BOOLEAN, size : Nat] BY <1>1 DEF Node
<1> QED BY <1>2 DEF Nodes, P

LEMMA NodeWithDirectory ==
    ASSUME NEW n \in Nodes
    PROVE  /\ [n EXCEPT !.directory = TRUE] = Node(n.path, TRUE, n.size)
           /\ n = Node(n.path, n.directory, n.size)
<1> DEFINE P == Seq(Names) \ {<<>>}
<1> HIDE DEF P
<1>1. n \in [path : P, directory : BOOLEAN, size : Nat] BY DEF Nodes, P
<1>2. [n EXCEPT !.directory = TRUE] = Node(n.path, TRUE, n.size)
  <2> DEFINE e == [n EXCEPT !.directory = TRUE]
  <2>1. e \in [path : P, directory : BOOLEAN, size : Nat] BY <1>1
  <2>2. e.path = n.path /\ e.size = n.size BY <1>1
  <2>3. e.directory = TRUE BY <1>1
  <2> HIDE DEF e
  <2>4. e = Node(e.path, e.directory, e.size) BY <2>1 DEF Node
  <2>5. e = Node(n.path, TRUE, n.size) BY <2>2, <2>3, <2>4, Zenon
  <2> QED BY <2>5 DEF e
<1>3. n = Node(n.path, n.directory, n.size) BY <1>1 DEF Node
<1> QED BY <1>2, <1>3

\* What an iteration does where there is no node and where there is one, for an
\* entry with the segments s.
NewNode(p, s, entry) ==
    Node(p, p # s \/ entry.directory, IF p = s /\ ~entry.directory THEN entry.size ELSE 0)
Marked(n, s, entry) ==
    IF n.path = s /\ entry.directory THEN Node(n.path, TRUE, n.size) ELSE n

VisitAbove(T, p, entry) == VisitNode(T, p, FALSE, entry)
VisitLast(T, p, entry) == VisitNode(T, p, TRUE, entry)

LEMMA NewNodeIsNode ==
    ASSUME NEW p \in Seq(Names) \ {<<>>}, NEW s, NEW entry \in Entries
    PROVE  NewNode(p, s, entry) \in Nodes /\ NewNode(p, s, entry).path = p
<1>1. entry.directory \in BOOLEAN /\ entry.size \in Nat BY DEF Entries
<1>2. (p # s \/ entry.directory) \in BOOLEAN OBVIOUS
<1>3. (IF p = s /\ ~entry.directory THEN entry.size ELSE 0) \in Nat BY <1>1
<1>4. NewNode(p, s, entry).path = p BY DEF NewNode, Node
<1> QED BY <1>2, <1>3, <1>4, NodeIsNode DEF NewNode

LEMMA MarkedIsNode ==
    ASSUME NEW n \in Nodes, NEW s, NEW entry
    PROVE  Marked(n, s, entry) \in Nodes
<1>1. n.path \in Seq(Names) \ {<<>>} /\ n.size \in Nat
  <2> DEFINE P == Seq(Names) \ {<<>>}
  <2> HIDE DEF P
  <2>1. n \in [path : P, directory : BOOLEAN, size : Nat] BY DEF Nodes, P
  <2>2. n.path \in P /\ n.size \in Nat BY <2>1
  <2> QED BY <2>2 DEF P
<1>2. Node(n.path, TRUE, n.size) \in Nodes BY <1>1, NodeIsNode
<1> QED BY <1>2 DEF Marked

LEMMA VisitsAbove ==
    ASSUME NEW T \in SUBSET Nodes, NEW p \in Seq(Names) \ {<<>>}, NEW s, p # s,
           NEW entry \in Entries
    PROVE  /\ NodesAt(T, p) = {} =>
                  VisitAbove(T, p, entry) = T \union {NewNode(p, s, entry)}
           /\ NodesAt(T, p) # {} => VisitAbove(T, p, entry) = T
<1>1. CASE NodesAt(T, p) = {} BY <1>1 DEF VisitAbove, VisitNode, NewNode
<1>2. CASE NodesAt(T, p) # {} BY <1>2 DEF VisitAbove, VisitNode
<1> QED BY <1>1, <1>2

LEMMA VisitsOfTheLast ==
    ASSUME NEW T \in SUBSET Nodes, NEW s \in Seq(Names) \ {<<>>}, NEW entry \in Entries
    PROVE  /\ NodesAt(T, s) = {} =>
                  VisitLast(T, s, entry) = T \union {NewNode(s, s, entry)}
           /\ NodesAt(T, s) # {} =>
                  VisitLast(T, s, entry) = {Marked(n, s, entry) : n \in T}
<1>1. CASE NodesAt(T, s) = {} BY <1>1 DEF VisitLast, VisitNode, NewNode
<1>2. CASE NodesAt(T, s) # {} /\ ~entry.directory
  <2>1. VisitLast(T, s, entry) = T BY <1>2 DEF VisitLast, VisitNode
  <2>2. {Marked(n, s, entry) : n \in T} = T BY <1>2 DEF Marked
  <2> QED BY <1>2, <2>1, <2>2
<1>3. CASE NodesAt(T, s) # {} /\ entry.directory
  <2>1. VisitLast(T, s, entry)
            = {IF n.path = s THEN [n EXCEPT !.directory = TRUE] ELSE n : n \in T}
    BY <1>3, Zenon DEF VisitLast, VisitNode
  <2>2. \A n \in T : (IF n.path = s THEN [n EXCEPT !.directory = TRUE] ELSE n)
                     = Marked(n, s, entry)
    <3> SUFFICES ASSUME NEW n \in T
                 PROVE  (IF n.path = s THEN [n EXCEPT !.directory = TRUE] ELSE n)
                        = Marked(n, s, entry)
      OBVIOUS
    <3>1. [n EXCEPT !.directory = TRUE] = Node(n.path, TRUE, n.size) BY NodeWithDirectory
    <3> QED BY <1>3, <3>1, Zenon DEF Marked
  <2>3. VisitLast(T, s, entry) = {Marked(n, s, entry) : n \in T} BY <2>1, <2>2, Zenon
  <2> QED BY <1>3, <2>3, Zenon
<1> QED BY <1>1, <1>2, <1>3

LEMMA VisitsOfNodes ==
    ASSUME NEW T \in SUBSET Nodes, NEW s \in Seq(Names), NEW n \in 1 .. Len(s),
           NEW entry \in Entries
    PROVE  VisitNode(T, SubSeq(s, 1, n), n = Len(s), entry) \in SUBSET Nodes
<1> DEFINE p == SubSeq(s, 1, n)
<1>1. p \in Seq(Names) \ {<<>>} BY PrefixIsPath
<1>2. CASE n = Len(s)
  <2>1. (n = Len(s)) = TRUE BY <1>2
  <2>2. \A x \in T : Marked(x, p, entry) \in Nodes BY MarkedIsNode
  <2>3. NewNode(p, p, entry) \in Nodes BY <1>1, NewNodeIsNode
  <2> HIDE DEF p
  <2>4. VisitLast(T, p, entry) \in SUBSET Nodes
    <3>1. CASE NodesAt(T, p) = {}
      <4>1. VisitLast(T, p, entry) = T \union {NewNode(p, p, entry)}
        BY <1>1, <3>1, VisitsOfTheLast
      <4> QED BY <2>3, <4>1
    <3>2. CASE NodesAt(T, p) # {}
      <4>1. VisitLast(T, p, entry) = {Marked(x, p, entry) : x \in T}
        BY <1>1, <3>2, VisitsOfTheLast
      <4> QED BY <2>2, <4>1
    <3> QED BY <3>1, <3>2
  <2> QED BY <2>1, <2>4 DEF p, VisitLast
<1>3. CASE n # Len(s)
  <2>1. (n = Len(s)) = FALSE BY <1>3
  <2>2. p # s BY <1>3, PrefixIsPath
  <2>3. NewNode(p, s, entry) \in Nodes BY <1>1, NewNodeIsNode
  <2> HIDE DEF p
  <2>4. VisitAbove(T, p, entry) \in SUBSET Nodes
    <3>1. CASE NodesAt(T, p) = {}
      <4>1. VisitAbove(T, p, entry) = T \union {NewNode(p, s, entry)}
        BY <1>1, <2>2, <3>1, VisitsAbove
      <4> QED BY <2>3, <4>1
    <3>2. CASE NodesAt(T, p) # {}
      <4>1. VisitAbove(T, p, entry) = T BY <1>1, <2>2, <3>2, VisitsAbove
      <4> QED BY <4>1
    <3> QED BY <3>1, <3>2
  <2> QED BY <2>1, <2>4 DEF p, VisitAbove
<1> QED BY <1>2, <1>3

\* The nodes after each iteration.
LEMMA VisitsGoOn ==
    ASSUME NEW nodes \in SUBSET Nodes, NEW s \in Seq(Names), NEW entry \in Entries
    PROVE  LET v == Visited(nodes, s, entry)
           IN  /\ \A n \in 0 .. Len(s) : v[n] \in SUBSET Nodes
               /\ v[0] = nodes
               /\ \A n \in 1 .. Len(s) :
                     v[n] = VisitNode(v[n - 1], SubSeq(s, 1, n), n = Len(s), entry)
<1> DEFINE k == Len(s)
           V == SUBSET Nodes
           step(n, x) == VisitNode(x, SubSeq(s, 1, n), n = Len(s), entry)
           G == [n \in 1 .. k |-> [x \in V |-> step(n, x)]]
           v == Visited(nodes, s, entry)
<1>1. k \in Nat OBVIOUS
<1>2. nodes \in V OBVIOUS
<1>3. ASSUME NEW n \in 1 .. k, NEW x \in V PROVE step(n, x) \in V
  BY VisitsOfNodes
<1>4. G \in [1 .. k -> [V -> V]]
  <2> HIDE DEF V, step
  <2> QED BY <1>3
<1>5. \E f \in [0 .. k -> V] : GoesFrom(f, k, nodes, G)
  <2> HIDE DEF k, V, G
  <2> QED BY <1>1, <1>2, <1>4, RecursionExists
<1>6. PICK f \in [0 .. k -> V] : f = [n \in 0 .. k |-> IF n = 0 THEN nodes ELSE G[n][f[n - 1]]]
  BY <1>5 DEF GoesFrom
<1>7. f = [n \in 0 .. k |-> IF n = 0 THEN nodes ELSE step(n, f[n - 1])]
  <2> HIDE DEF V, step
  <2>1. \A n \in 1 .. k : G[n][f[n - 1]] = step(n, f[n - 1])
    <3> SUFFICES ASSUME NEW n \in 1 .. k PROVE G[n][f[n - 1]] = step(n, f[n - 1]) OBVIOUS
    <3>1. n - 1 \in 0 .. k BY <1>1
    <3>2. f[n - 1] \in V BY <3>1
    <3> QED BY <3>2
  <2>2. \A n \in 0 .. k : f[n] = IF n = 0 THEN nodes ELSE step(n, f[n - 1])
    <3> HIDE DEF k, G
    <3> SUFFICES ASSUME NEW n \in 0 .. k
                 PROVE  f[n] = IF n = 0 THEN nodes ELSE step(n, f[n - 1])
      OBVIOUS
    <3>1. f[n] = IF n = 0 THEN nodes ELSE G[n][f[n - 1]] BY <1>6
    <3>2. n # 0 => n \in 1 .. k BY <1>1
    <3> QED BY <3>1, <3>2, <2>1
  <2>3. f = [n \in 0 .. k |-> f[n]] OBVIOUS
  <2> HIDE DEF k, G
  <2> QED BY <2>2, <2>3
<1>8. v = [n \in 0 .. k |-> IF n = 0 THEN nodes ELSE step(n, v[n - 1])]
  <2> DEFINE Eq(g) == g = [n \in 0 .. k |-> IF n = 0 THEN nodes ELSE step(n, g[n - 1])]
  <2>1. v = CHOOSE g : Eq(g) BY DEF Visited
  <2>2. Eq(f) BY <1>7
  <2> HIDE DEF v, Eq
  <2>3. Eq(v) BY <2>1, <2>2
  <2> QED BY <2>3 DEF Eq
<1> HIDE DEF v
<1>9. v[0] = nodes /\ \A n \in 1 .. k : v[n] = step(n, v[n - 1])
  <2> HIDE DEF step, V
  <2>1. \A n \in 0 .. k : v[n] = IF n = 0 THEN nodes ELSE step(n, v[n - 1])
    <3> HIDE DEF k
    <3> QED BY <1>8
  <2>2. 0 \in 0 .. k /\ \A n \in 1 .. k : n \in 0 .. k /\ n # 0 BY <1>1
  <2> QED BY <2>1, <2>2
<1>10. \A n \in 0 .. k : v[n] \in V
  <2> DEFINE Bad == {n \in 0 .. k : v[n] \notin V}
  <2> SUFFICES ASSUME Bad # {} PROVE FALSE OBVIOUS
  <2>1. PICK n \in Bad : \A m \in Bad : n <= m
    <3>1. Bad \in SUBSET Nat BY <1>1
    <3> HIDE DEF Bad
    <3> QED BY <3>1, LeastNatural
  <2>2. n # 0 BY <1>2, <1>9
  <2>3. n \in 1 .. k /\ n - 1 \in 0 .. k /\ ~(n <= n - 1)
    <3>1. n \in 0 .. k OBVIOUS
    <3> HIDE DEF Bad, V, k
    <3> QED BY <1>1, <2>2, <3>1
  <2> HIDE DEF V, step
  <2>4. v[n - 1] \in V BY <2>1, <2>3
  <2>5. step(n, v[n - 1]) \in V BY <1>3, <2>3, <2>4
  <2> QED BY <1>9, <2>3, <2>5
<1> QED BY <1>9, <1>10 DEF v

\* The loop over the segments adds a node for each prefix that has none, and
\* marks the one that is there for the whole path: the iterations do not meet.
Added(nodes, s, i, entry) ==
    {NewNode(SubSeq(s, 1, j), s, entry) :
        j \in {l \in 1 .. i : NodesAt(nodes, SubSeq(s, 1, l)) = {}}}

LEMMA NodesAtUnion ==
    ASSUME NEW A, NEW B, NEW p
    PROVE  NodesAt(A \union B, p) = NodesAt(A, p) \union NodesAt(B, p)
BY DEF NodesAt

LEMMA AddedAreShorter ==
    ASSUME NEW nodes, NEW s \in Seq(Names), NEW entry \in Entries,
           NEW i \in 1 .. Len(s)
    PROVE  NodesAt(Added(nodes, s, i - 1, entry), SubSeq(s, 1, i)) = {}
<1> SUFFICES ASSUME NEW n \in Added(nodes, s, i - 1, entry), n.path = SubSeq(s, 1, i)
             PROVE  FALSE
  BY DEF NodesAt
<1>1. PICK j \in 1 .. i - 1 : n = NewNode(SubSeq(s, 1, j), s, entry) BY DEF Added
<1>2. n.path = SubSeq(s, 1, j)
  <2>1. SubSeq(s, 1, j) \in Seq(Names) \ {<<>>} BY PrefixIsPath
  <2> QED BY <1>1, <2>1, NewNodeIsNode
<1>3. j \in 1 .. Len(s) /\ j # i OBVIOUS
<1>4. Len(SubSeq(s, 1, j)) = j /\ Len(SubSeq(s, 1, i)) = i BY <1>3, PrefixIsPath
<1> QED BY <1>2, <1>3, <1>4

LEMMA AddedGrows ==
    ASSUME NEW nodes, NEW s \in Seq(Names), NEW entry, NEW i \in 1 .. Len(s)
    PROVE  Added(nodes, s, i, entry) = Added(nodes, s, i - 1, entry) \union
               (IF NodesAt(nodes, SubSeq(s, 1, i)) = {}
                THEN {NewNode(SubSeq(s, 1, i), s, entry)} ELSE {})
<1> DEFINE free(k) == {l \in 1 .. k : NodesAt(nodes, SubSeq(s, 1, l)) = {}}
           new(j) == NewNode(SubSeq(s, 1, j), s, entry)
<1>1. \A k : Added(nodes, s, k, entry) = {new(j) : j \in free(k)} BY DEF Added
<1>2. free(i) = free(i - 1) \union (IF NodesAt(nodes, SubSeq(s, 1, i)) = {} THEN {i} ELSE {})
  <2>1. 1 .. i = (1 .. i - 1) \union {i} OBVIOUS
  <2> QED BY <2>1
<1> HIDE DEF new, free
<1>3. {new(j) : j \in free(i)} = {new(j) : j \in free(i - 1)} \union
          (IF NodesAt(nodes, SubSeq(s, 1, i)) = {} THEN {new(i)} ELSE {})
  BY <1>2
<1> QED BY <1>1, <1>3 DEF new

LEMMA VisitedBeforeTheLast ==
    ASSUME NEW nodes \in SUBSET Nodes, NEW s \in Seq(Names), NEW entry \in Entries,
           NEW i \in 0 .. Len(s) - 1
    PROVE  Visited(nodes, s, entry)[i] = nodes \union Added(nodes, s, i, entry)
<1> DEFINE k == Len(s)
           v == Visited(nodes, s, entry)
           Bad == {n \in 0 .. k - 1 : v[n] # nodes \union Added(nodes, s, n, entry)}
<1>0. k \in Nat OBVIOUS
<1>1. /\ \A n \in 0 .. k : v[n] \in SUBSET Nodes
      /\ v[0] = nodes
      /\ \A n \in 1 .. k : v[n] = VisitNode(v[n - 1], SubSeq(s, 1, n), n = Len(s), entry)
  BY VisitsGoOn
<1> HIDE DEF v
<1>2. Bad = {}
  <2> SUFFICES ASSUME Bad # {} PROVE FALSE OBVIOUS
  <2>1. PICK n \in Bad : \A m \in Bad : n <= m
    <3>1. Bad \in SUBSET Nat BY <1>0
    <3> HIDE DEF Bad
    <3> QED BY <3>1, LeastNatural
  <2>2. n # 0
    <3>1. Added(nodes, s, 0, entry) = {} BY DEF Added
    <3>2. v[n] # nodes \union Added(nodes, s, n, entry) OBVIOUS
    <3> HIDE DEF Bad
    <3> QED BY <1>1, <3>1, <3>2
  <2>3. n \in 1 .. k /\ n # k /\ n - 1 \in 0 .. k - 1 /\ n - 1 \in 0 .. k /\ ~(n <= n - 1)
    <3>1. n \in 0 .. k - 1 OBVIOUS
    <3> HIDE DEF Bad, k
    <3> QED BY <1>0, <2>2, <3>1
  <2> DEFINE p == SubSeq(s, 1, n)
             Bn == Added(nodes, s, n - 1, entry)
  <2>4. v[n - 1] = nodes \union Bn BY <2>1, <2>3
  <2>5. p \in Seq(Names) \ {<<>>} /\ p # s
    <3>1. p \in Seq(Names) \ {<<>>} /\ Len(p) = n BY <2>3, PrefixIsPath
    <3> HIDE DEF p
    <3> QED BY <2>3, <3>1
  <2>6. NodesAt(Bn, p) = {} BY <2>3, AddedAreShorter
  <2>7. Added(nodes, s, n, entry) = Bn \union
            (IF NodesAt(nodes, p) = {} THEN {NewNode(p, s, entry)} ELSE {})
    BY <2>3, AddedGrows
  <2>8. v[n] = VisitAbove(v[n - 1], p, entry)
    <3>1. (n = Len(s)) = FALSE BY <2>3
    <3>2. v[n] = VisitNode(v[n - 1], p, n = Len(s), entry) BY <1>1, <2>3
    <3> QED BY <3>1, <3>2 DEF VisitAbove
  <2>9. v[n - 1] \in SUBSET Nodes BY <1>1, <2>3
  <2>10. v[n] # nodes \union Added(nodes, s, n, entry) OBVIOUS
  <2> HIDE DEF p, Bn, Bad
  <2>11. NodesAt(v[n - 1], p) = NodesAt(nodes, p)
    <3>1. NodesAt(nodes \union Bn, p) = NodesAt(nodes, p) \union NodesAt(Bn, p) BY NodesAtUnion
    <3>2. NodesAt(nodes \union Bn, p) = NodesAt(nodes, p) BY <2>6, <3>1
    <3> QED BY <2>4, <3>2, Zenon
  <2>12. CASE NodesAt(nodes, p) = {}
    <3>1. v[n] = v[n - 1] \union {NewNode(p, s, entry)}
      BY <2>5, <2>8, <2>9, <2>11, <2>12, VisitsAbove
    <3> QED BY <2>4, <2>7, <2>10, <2>12, <3>1
  <2>13. CASE NodesAt(nodes, p) # {}
    <3>1. VisitAbove(v[n - 1], p, entry) = v[n - 1]
      BY <2>11, <2>13 DEF VisitAbove, VisitNode
    <3>2. v[n] = v[n - 1] BY <2>8, <3>1
    <3> QED BY <2>4, <2>7, <2>10, <2>13, <3>2
  <2> QED BY <2>12, <2>13
<1> HIDE DEF k
<1>3. v[i] = nodes \union Added(nodes, s, i, entry) BY <1>2 DEF k
<1> QED BY <1>3 DEF v

LEMMA InsertedIs ==
    ASSUME NEW nodes \in SUBSET Nodes, NEW s \in Seq(Names), NEW entry \in Entries
    PROVE  insertIntoTree(nodes, s, entry)
               = {Marked(n, s, entry) : n \in nodes} \union Added(nodes, s, Len(s), entry)
<1> DEFINE k == Len(s)
           v == Visited(nodes, s, entry)
<1>0. k \in Nat OBVIOUS
<1>1. insertIntoTree(nodes, s, entry) = v[k]
  <2>1. Names \cap {<<>>, <<".">>, DotDot} = {} BY DEF Names
  <2>2. Without(s, {<<>>, <<".">>, DotDot}) = s BY <2>1, NamesStay
  <2> QED BY <2>2 DEF insertIntoTree
<1>2. /\ \A n \in 0 .. k : v[n] \in SUBSET Nodes
      /\ v[0] = nodes
      /\ \A n \in 1 .. k : v[n] = VisitNode(v[n - 1], SubSeq(s, 1, n), n = Len(s), entry)
  BY VisitsGoOn
<1> HIDE DEF v
<1>3. CASE k = 0
  <2>1. s = <<>> BY <1>3
  <2>2. Added(nodes, s, 0, entry) = {} BY DEF Added
  <2>3. \A n \in nodes : Marked(n, s, entry) = n
    <3> SUFFICES ASSUME NEW n \in nodes PROVE n.path # s BY DEF Marked
    <3> DEFINE P == Seq(Names) \ {<<>>}
    <3>1. <<>> \notin P OBVIOUS
    <3> HIDE DEF P
    <3>2. n \in [path : P, directory : BOOLEAN, size : Nat] BY DEF Nodes, P
    <3>3. n.path \in P BY <3>2
    <3> QED BY <2>1, <3>1, <3>3
  <2>4. {Marked(n, s, entry) : n \in nodes} = nodes
    <3> HIDE DEF k
    <3> QED BY <2>3, Zenon
  <2> QED BY <1>1, <1>2, <1>3, <2>2, <2>4
<1>4. CASE k # 0
  <2> DEFINE B == Added(nodes, s, k - 1, entry)
             w == v[k - 1]
             fresh == IF NodesAt(nodes, s) = {} THEN {NewNode(s, s, entry)} ELSE {}
  <2>1. k \in 1 .. k /\ k - 1 \in 0 .. k /\ k - 1 \in 0 .. Len(s) - 1 BY <1>0, <1>4
  <2>2. SubSeq(s, 1, k) = s OBVIOUS
  <2>3. w = nodes \union B /\ w \in SUBSET Nodes BY <1>2, <2>1, VisitedBeforeTheLast DEF v
  <2>4. s \in Seq(Names) \ {<<>>} BY <2>1, <2>2, PrefixIsPath
  <2>5. NodesAt(B, s) = {} BY <2>1, <2>2, AddedAreShorter
  <2>6. Added(nodes, s, k, entry) = B \union fresh
    <3>1. Added(nodes, s, k, entry) = B \union
              (IF NodesAt(nodes, SubSeq(s, 1, k)) = {}
               THEN {NewNode(SubSeq(s, 1, k), s, entry)} ELSE {})
      BY <2>1, AddedGrows
    <3> QED BY <2>2, <3>1
  <2>7. v[k] = VisitLast(w, s, entry)
    <3>1. (k = Len(s)) = TRUE OBVIOUS
    <3>2. v[k] = VisitNode(w, SubSeq(s, 1, k), k = Len(s), entry) BY <1>2, <2>1
    <3> QED BY <2>2, <3>1, <3>2 DEF VisitLast
  <2> HIDE DEF B, w
  <2>8. NodesAt(w, s) = NodesAt(nodes, s)
    <3>1. NodesAt(nodes \union B, s) = NodesAt(nodes, s) \union NodesAt(B, s) BY NodesAtUnion
    <3>2. NodesAt(nodes \union B, s) = NodesAt(nodes, s) BY <2>5, <3>1
    <3> QED BY <2>3, <3>2, Zenon
  <2>9. \A n \in B : Marked(n, s, entry) = n BY <2>5 DEF NodesAt, Marked
  <2>10. {Marked(n, s, entry) : n \in w} = {Marked(n, s, entry) : n \in nodes} \union B
    <3> HIDE DEF k
    <3>1. {Marked(n, s, entry) : n \in w}
              = {Marked(n, s, entry) : n \in nodes} \union {Marked(n, s, entry) : n \in B}
      BY <2>3
    <3>2. {Marked(n, s, entry) : n \in B} = B BY <2>9
    <3> QED BY <3>1, <3>2
  <2>11. CASE NodesAt(nodes, s) = {}
    <3>1. v[k] = w \union {NewNode(s, s, entry)}
      <4>1. w \in SUBSET Nodes /\ NodesAt(w, s) = {} BY <2>3, <2>8, <2>11
      <4>2. VisitLast(w, s, entry) = w \union {NewNode(s, s, entry)} BY <2>4, <4>1, VisitsOfTheLast
      <4> QED BY <2>7, <4>2, Zenon
    <3>2. \A n \in nodes : Marked(n, s, entry) = n BY <2>11 DEF NodesAt, Marked
    <3>3. {Marked(n, s, entry) : n \in nodes} = nodes BY <3>2
    <3>4. fresh = {NewNode(s, s, entry)} BY <2>11
    <3> HIDE DEF fresh
    <3> QED BY <1>1, <2>3, <2>6, <3>1, <3>3, <3>4
  <2>12. CASE NodesAt(nodes, s) # {}
    <3>1. v[k] = {Marked(n, s, entry) : n \in w}
      <4>1. w \in SUBSET Nodes /\ NodesAt(w, s) # {} BY <2>3, <2>8, <2>12
      <4>2. VisitLast(w, s, entry) = {Marked(n, s, entry) : n \in w}
        BY <2>4, <4>1, VisitsOfTheLast
      <4> QED BY <2>7, <4>2, Zenon
    <3>2. fresh = {} BY <2>12
    <3> HIDE DEF fresh
    <3> QED BY <1>1, <2>6, <2>10, <3>1, <3>2
  <2> QED BY <2>11, <2>12
<1> QED BY <1>3, <1>4

-----------------------------------------------------------------------------
(* The tree that the entries before the k-th make.                         *)

PathsOf(es, i) == {normalizeArchiveEntry(raw).segments : raw \in es[i].path}
AllOf(es, k) ==
    UNION {UNION {{SubSeq(s, 1, n) : n \in 1 .. Len(s)} : s \in PathsOf(es, i)} : i \in 1 .. k - 1}
AtOf(es, k, p) == {i \in 1 .. k - 1 : p \in PathsOf(es, i)}
FromOf(es, k, p) == {i \in 1 .. k - 1 : \E s \in PathsOf(es, i) : IsPrefix(p, s)}
FirstOf(es, k, p) == Min(FromOf(es, k, p))
NodeOf(es, k, p) ==
    Node(p, FirstOf(es, k, p) \notin AtOf(es, k, p) \/ \E i \in AtOf(es, k, p) : es[i].directory,
         IF FirstOf(es, k, p) \in AtOf(es, k, p) /\ ~es[FirstOf(es, k, p)].directory
         THEN es[FirstOf(es, k, p)].size ELSE 0)
TreeOf(es, k) == {NodeOf(es, k, p) : p \in AllOf(es, k)}

LEMMA TreeIsTreeOf ==
    TreeIsThatOfItsEntries
        <=> (operation = "readTree" => tree = TreeOf(archive.entries, next))
BY DEF TreeIsThatOfItsEntries, TreeOf, NodeOf, AllOf, AtOf, FirstOf, FromOf, PathsOf

\* What an entry says.
LEMMA EntryFields ==
    ASSUME NEW entry \in Entries
    PROVE  /\ entry.path \in SUBSET Seq(Characters) /\ \A a, b \in entry.path : a = b
           /\ entry.directory \in BOOLEAN /\ entry.size \in Nat
<1> DEFINE O == Optional(Seq(Characters))
<1> HIDE DEF O
<1>1. entry \in [header : {"OK", "WARN", "bad"}, path : O, directory : BOOLEAN, size : Nat]
  BY DEF Entries, O
<1>2. entry.path \in O /\ entry.directory \in BOOLEAN /\ entry.size \in Nat BY <1>1
<1> QED BY <1>2 DEF O, Optional

LEMMA PathsAreNames ==
    ASSUME NEW es \in Seq(Entries), NEW i \in 1 .. Len(es)
    PROVE  PathsOf(es, i) \subseteq Seq(Names)
<1>1. es[i] \in Entries OBVIOUS
<1>2. \A raw \in es[i].path : raw \in Seq(Characters) BY <1>1, EntryFields
<1>3. \A raw \in es[i].path : normalizeArchiveEntry(raw).segments \in Seq(Names)
  BY <1>2, SegmentsAreNames
<1> QED BY <1>3 DEF PathsOf

\* The paths that are a beginning of another one.
LEMMA PrefixIs ==
    ASSUME NEW s \in Seq(Names), NEW p \in Seq(Names) \ {<<>>}
    PROVE  IsPrefix(p, s) <=> \E n \in 1 .. Len(s) : p = SubSeq(s, 1, n)
<1>1. p \in Seq(Names) /\ Len(p) \in Nat /\ Len(p) # 0 /\ SubSeq(p, 1, Len(p)) = p OBVIOUS
<1>2. IsPrefix(p, s) <=> Len(p) <= Len(s) /\ p = SubSeq(s, 1, Len(p)) BY <1>1 DEF IsPrefix
<1>3. ASSUME Len(p) <= Len(s), p = SubSeq(s, 1, Len(p))
      PROVE  \E n \in 1 .. Len(s) : p = SubSeq(s, 1, n)
  <2>1. Len(p) \in 1 .. Len(s) BY <1>1, <1>3
  <2> QED BY <1>3, <2>1
<1>4. ASSUME NEW n \in 1 .. Len(s), p = SubSeq(s, 1, n)
      PROVE  Len(p) <= Len(s) /\ p = SubSeq(s, 1, Len(p))
  <2>1. Len(p) = n BY <1>4, PrefixIsPath
  <2> QED BY <1>4, <2>1
<1> QED BY <1>2, <1>3, <1>4

\* A path is in the tree where an entry is at or below it.
LEMMA AllIs ==
    ASSUME NEW es \in Seq(Entries), NEW k \in 1 .. Len(es) + 1, NEW p
    PROVE  p \in AllOf(es, k) <=> p \in Seq(Names) \ {<<>>} /\ FromOf(es, k, p) # {}
<1>1. \A i \in 1 .. k - 1 : i \in 1 .. Len(es) OBVIOUS
<1>2. ASSUME p \in AllOf(es, k)
      PROVE  p \in Seq(Names) \ {<<>>} /\ FromOf(es, k, p) # {}
  <2>1. PICK i \in 1 .. k - 1 : \E s \in PathsOf(es, i) : \E n \in 1 .. Len(s) : p = SubSeq(s, 1, n)
    BY <1>2 DEF AllOf
  <2>2. PICK s \in PathsOf(es, i) : \E n \in 1 .. Len(s) : p = SubSeq(s, 1, n) BY <2>1
  <2>3. PICK n \in 1 .. Len(s) : p = SubSeq(s, 1, n) BY <2>2
  <2>4. s \in Seq(Names) BY <1>1, PathsAreNames
  <2>5. p \in Seq(Names) \ {<<>>} BY <2>3, <2>4, PrefixIsPath
  <2>6. IsPrefix(p, s) BY <2>3, <2>4, <2>5, PrefixIs
  <2> QED BY <2>5, <2>6 DEF FromOf
<1>3. ASSUME p \in Seq(Names) \ {<<>>}, FromOf(es, k, p) # {}
      PROVE  p \in AllOf(es, k)
  <2>1. PICK i \in 1 .. k - 1 : \E s \in PathsOf(es, i) : IsPrefix(p, s) BY <1>3 DEF FromOf
  <2>2. PICK s \in PathsOf(es, i) : IsPrefix(p, s) BY <2>1
  <2>3. s \in Seq(Names) BY <1>1, PathsAreNames
  <2>4. \E n \in 1 .. Len(s) : p = SubSeq(s, 1, n) BY <1>3, <2>2, <2>3, PrefixIs
  <2> QED BY <2>4 DEF AllOf
<1> QED BY <1>2, <1>3

\* Of the entries at or below a path one is the first.
LEMMA FirstIs ==
    ASSUME NEW es \in Seq(Entries), NEW k \in 1 .. Len(es) + 1, NEW p, FromOf(es, k, p) # {}
    PROVE  /\ FirstOf(es, k, p) \in FromOf(es, k, p)
           /\ \A i \in FromOf(es, k, p) : FirstOf(es, k, p) <= i
<1> DEFINE F == FromOf(es, k, p)
<1>1. F \in SUBSET Nat BY DEF FromOf
<1>2. FirstOf(es, k, p) = CHOOSE x \in F : \A y \in F : x =< y BY DEF FirstOf, Min
<1> HIDE DEF F
<1>3. F # {} BY DEF F
<1>4. \E x \in F : \A y \in F : x =< y BY <1>1, <1>3, LeastNatural
<1>5. FirstOf(es, k, p) \in F /\ \A y \in F : FirstOf(es, k, p) =< y BY <1>2, <1>4
<1> QED BY <1>5 DEF F

LEMMA TreeOfIsNodes ==
    ASSUME NEW es \in Seq(Entries), NEW k \in 1 .. Len(es) + 1
    PROVE  /\ \A p \in AllOf(es, k) : NodeOf(es, k, p) \in Nodes /\ NodeOf(es, k, p).path = p
           /\ TreeOf(es, k) \in SUBSET Nodes
<1>1. ASSUME NEW p \in AllOf(es, k)
      PROVE  NodeOf(es, k, p) \in Nodes /\ NodeOf(es, k, p).path = p
  <2> DEFINE f == FirstOf(es, k, p)
             d == f \notin AtOf(es, k, p) \/ \E i \in AtOf(es, k, p) : es[i].directory
             z == IF f \in AtOf(es, k, p) /\ ~es[f].directory THEN es[f].size ELSE 0
  <2>1. p \in Seq(Names) \ {<<>>} BY AllIs
  <2>2. d \in BOOLEAN OBVIOUS
  <2>3. z \in Nat
    <3>1. CASE f \in AtOf(es, k, p)
      <4>1. f \in 1 .. Len(es) BY <3>1 DEF AtOf
      <4>2. es[f] \in Entries BY <4>1
      <4>3. es[f].size \in Nat BY <4>2, EntryFields
      <4> QED BY <4>3
    <3>2. CASE f \notin AtOf(es, k, p) BY <3>2
    <3> QED BY <3>1, <3>2
  <2>4. NodeOf(es, k, p) = Node(p, d, z) BY DEF NodeOf
  <2> HIDE DEF d, z
  <2>5. Node(p, d, z).path = p BY DEF Node
  <2> QED BY <2>1, <2>2, <2>3, <2>4, <2>5, NodeIsNode
<1> QED BY <1>1 DEF TreeOf

LEMMA NodesAtTree ==
    ASSUME NEW es \in Seq(Entries), NEW k \in 1 .. Len(es) + 1, NEW p
    PROVE  NodesAt(TreeOf(es, k), p) = {} <=> p \notin AllOf(es, k)
<1>1. \A q \in AllOf(es, k) : NodeOf(es, k, q).path = q BY TreeOfIsNodes
<1> QED BY <1>1 DEF NodesAt, TreeOf

\* One entry more.
LEMMA AtGrows ==
    ASSUME NEW es \in Seq(Entries), NEW k \in 1 .. Len(es), NEW m, m = k + 1, NEW p
    PROVE  AtOf(es, m, p) = AtOf(es, k, p) \union {i \in {k} : p \in PathsOf(es, i)}
<1> DEFINE A == 1 .. m - 1  B == 1 .. k - 1
<1>1. A = B \union {k} OBVIOUS
<1>2. AtOf(es, m, p) = {i \in A : p \in PathsOf(es, i)} BY DEF AtOf
<1>3. AtOf(es, k, p) = {i \in B : p \in PathsOf(es, i)} BY DEF AtOf
<1> HIDE DEF A, B
<1> QED BY <1>1, <1>2, <1>3

LEMMA FromGrows ==
    ASSUME NEW es \in Seq(Entries), NEW k \in 1 .. Len(es), NEW m, m = k + 1, NEW p
    PROVE  FromOf(es, m, p)
               = FromOf(es, k, p) \union {i \in {k} : \E s \in PathsOf(es, i) : IsPrefix(p, s)}
<1> DEFINE A == 1 .. m - 1  B == 1 .. k - 1
<1>1. A = B \union {k} OBVIOUS
<1>2. FromOf(es, m, p) = {i \in A : \E s \in PathsOf(es, i) : IsPrefix(p, s)} BY DEF FromOf
<1>3. FromOf(es, k, p) = {i \in B : \E s \in PathsOf(es, i) : IsPrefix(p, s)} BY DEF FromOf
<1> HIDE DEF A, B
<1> QED BY <1>1, <1>2, <1>3

OnlyPath(es, i, s) == PathsOf(es, i) = {s}

LEMMA EntriesGrow ==
    ASSUME NEW es \in Seq(Entries), NEW k \in 1 .. Len(es), NEW m, m = k + 1, NEW p, NEW s,
           OnlyPath(es, k, s)
    PROVE  /\ p = s => AtOf(es, m, p) = AtOf(es, k, p) \union {k}
           /\ p # s => AtOf(es, m, p) = AtOf(es, k, p)
           /\ IsPrefix(p, s) => FromOf(es, m, p) = FromOf(es, k, p) \union {k}
           /\ ~IsPrefix(p, s) => FromOf(es, m, p) = FromOf(es, k, p)
<1>1. {i \in {k} : p \in PathsOf(es, i)} = IF p = s THEN {k} ELSE {} BY DEF OnlyPath
<1>2. {i \in {k} : \E x \in PathsOf(es, i) : IsPrefix(p, x)} = IF IsPrefix(p, s) THEN {k} ELSE {}
  BY DEF OnlyPath
<1>3. AtOf(es, m, p) = AtOf(es, k, p) \union {i \in {k} : p \in PathsOf(es, i)}
  BY AtGrows
<1>4. FromOf(es, m, p)
          = FromOf(es, k, p) \union {i \in {k} : \E x \in PathsOf(es, i) : IsPrefix(p, x)}
  BY FromGrows
<1>5. AtOf(es, m, p) = AtOf(es, k, p) \union (IF p = s THEN {k} ELSE {}) BY <1>1, <1>3, Zenon
<1>6. FromOf(es, m, p) = FromOf(es, k, p) \union (IF IsPrefix(p, s) THEN {k} ELSE {})
  BY <1>2, <1>4, Zenon
<1> QED BY <1>5, <1>6

\* An entry without a path changes nothing.
LEMMA TreeStays ==
    ASSUME NEW es \in Seq(Entries), NEW k \in 1 .. Len(es), NEW m, m = k + 1, es[k].path = {}
    PROVE  TreeOf(es, m) = TreeOf(es, k)
<1>1. PathsOf(es, k) = {} BY DEF PathsOf
<1>2. k \in 1 .. Len(es) + 1 /\ m \in 1 .. Len(es) + 1 OBVIOUS
<1>3. \A p : AtOf(es, m, p) = AtOf(es, k, p) /\ FromOf(es, m, p) = FromOf(es, k, p)
  <2> SUFFICES ASSUME NEW p
               PROVE  AtOf(es, m, p) = AtOf(es, k, p) /\ FromOf(es, m, p) = FromOf(es, k, p)
    OBVIOUS
  <2>1. {i \in {k} : p \in PathsOf(es, i)} = {} BY <1>1
  <2>2. {i \in {k} : \E s \in PathsOf(es, i) : IsPrefix(p, s)} = {} BY <1>1
  <2>3. AtOf(es, m, p) = AtOf(es, k, p) \union {i \in {k} : p \in PathsOf(es, i)}
    BY AtGrows
  <2>4. FromOf(es, m, p)
            = FromOf(es, k, p) \union {i \in {k} : \E s \in PathsOf(es, i) : IsPrefix(p, s)}
    BY FromGrows
  <2> QED BY <2>1, <2>2, <2>3, <2>4
<1>4. \A p : NodeOf(es, m, p) = NodeOf(es, k, p) BY <1>3 DEF NodeOf, FirstOf
<1>5. \A p : p \in AllOf(es, m) <=> p \in AllOf(es, k) BY <1>2, <1>3, AllIs
<1>6. AllOf(es, m) = AllOf(es, k) BY <1>5
<1> QED BY <1>4, <1>6 DEF TreeOf

\* The node of a path that is there is marked if it is the entry's, ...
LEMMA OldNode ==
    ASSUME NEW es \in Seq(Entries), NEW k \in 1 .. Len(es), NEW m, m = k + 1, NEW s,
           OnlyPath(es, k, s), NEW p \in AllOf(es, k)
    PROVE  NodeOf(es, m, p) = Marked(NodeOf(es, k, p), s, es[k])
<1> DEFINE f == FirstOf(es, k, p)
           d == f \notin AtOf(es, k, p) \/ \E i \in AtOf(es, k, p) : es[i].directory
           z == IF f \in AtOf(es, k, p) /\ ~es[f].directory THEN es[f].size ELSE 0
<1>1. k \in 1 .. Len(es) + 1 /\ m \in 1 .. Len(es) + 1 OBVIOUS
<1>2. p \in Seq(Names) \ {<<>>} /\ FromOf(es, k, p) # {} BY <1>1, AllIs
<1>3. f \in FromOf(es, k, p) /\ \A i \in FromOf(es, k, p) : f <= i BY <1>1, <1>2, FirstIs
<1>4. f \in 1 .. k - 1 BY <1>3 DEF FromOf
<1>5. FromOf(es, m, p) = FromOf(es, k, p) \/ FromOf(es, m, p) = FromOf(es, k, p) \union {k}
  BY EntriesGrow
<1>6. FirstOf(es, m, p) = f
  <2> DEFINE g == FirstOf(es, m, p)
  <2>1. FromOf(es, m, p) # {} BY <1>2, <1>5
  <2>2. g \in FromOf(es, m, p) /\ \A i \in FromOf(es, m, p) : g <= i
    BY <1>1, <2>1, FirstIs
  <2>3. f \in FromOf(es, m, p) BY <1>3, <1>5
  <2> HIDE DEF f, g
  <2>4. g <= f BY <2>2, <2>3
  <2>5. g \in FromOf(es, k, p) \/ g = k BY <1>5, <2>2
  <2>6. g # k /\ g \in Nat
    <3>1. g \in Nat
      <4>1. FromOf(es, k, p) \subseteq Nat BY DEF FromOf
      <4> QED BY <2>5, <4>1
    <3> QED BY <1>4, <2>4, <3>1
  <2>7. f <= g BY <1>3, <2>5, <2>6
  <2> QED BY <1>4, <2>4, <2>6, <2>7 DEF g
<1>7. AtOf(es, m, p) = AtOf(es, k, p) \union (IF p = s THEN {k} ELSE {})
  <2>1. /\ p = s => AtOf(es, m, p) = AtOf(es, k, p) \union {k}
        /\ p # s => AtOf(es, m, p) = AtOf(es, k, p)
    BY ONLY es \in Seq(Entries), k \in 1 .. Len(es), m = k + 1, OnlyPath(es, k, s), EntriesGrow
  <2> QED BY <2>1
<1>8. f \in AtOf(es, m, p) <=> f \in AtOf(es, k, p)
  <2>1. f # k BY <1>4
  <2> HIDE DEF f
  <2> QED BY <1>7, <2>1
<1>9. (\E i \in AtOf(es, m, p) : es[i].directory)
          <=> (\E i \in AtOf(es, k, p) : es[i].directory) \/ (p = s /\ es[k].directory)
  BY <1>7
<1>10. NodeOf(es, k, p) = Node(p, d, z) BY DEF NodeOf
<1>11. NodeOf(es, m, p)
           = Node(p, f \notin AtOf(es, m, p) \/ \E i \in AtOf(es, m, p) : es[i].directory,
                  IF f \in AtOf(es, m, p) /\ ~es[f].directory THEN es[f].size ELSE 0)
  BY <1>6, Zenon DEF NodeOf
<1>12. (IF f \in AtOf(es, m, p) /\ ~es[f].directory THEN es[f].size ELSE 0) = z BY <1>8
<1>13. (f \notin AtOf(es, m, p) \/ \E i \in AtOf(es, m, p) : es[i].directory)
          = (d \/ (p = s /\ es[k].directory))
  BY <1>8, <1>9
<1> DEFINE dd == f \notin AtOf(es, m, p) \/ \E i \in AtOf(es, m, p) : es[i].directory
<1>14. NodeOf(es, m, p) = Node(p, dd, z) BY <1>11, <1>12, Zenon
<1>15. dd = (d \/ (p = s /\ es[k].directory)) BY <1>13
<1> HIDE DEF f, d, z, dd
<1>16. Node(p, d, z).path = p /\ Node(p, d, z).size = z BY DEF Node
<1>17. d \in BOOLEAN BY DEF d
<1>18. CASE p = s /\ es[k].directory
  <2>1. dd = TRUE BY <1>15, <1>18
  <2>2. Marked(Node(p, d, z), s, es[k]) = Node(p, TRUE, z) BY <1>16, <1>18, Zenon DEF Marked
  <2> QED BY <1>10, <1>14, <2>1, <2>2, Zenon
<1>19. CASE ~(p = s /\ es[k].directory)
  <2>1. dd = d BY <1>15, <1>17, <1>19
  <2>2. Marked(Node(p, d, z), s, es[k]) = Node(p, d, z) BY <1>16, <1>19, Zenon DEF Marked
  <2> QED BY <1>10, <1>14, <2>1, <2>2, Zenon
<1> QED BY <1>18, <1>19

\* ... and that of one that is not there is the new one.
LEMMA FreshNode ==
    ASSUME NEW es \in Seq(Entries), NEW k \in 1 .. Len(es), NEW m, m = k + 1, NEW s \in Seq(Names),
           OnlyPath(es, k, s), NEW p \in Seq(Names) \ {<<>>}, IsPrefix(p, s),
           p \notin AllOf(es, k)
    PROVE  NodeOf(es, m, p) = NewNode(p, s, es[k])
<1>1. k \in 1 .. Len(es) + 1 /\ m \in 1 .. Len(es) + 1 /\ es[k] \in Entries OBVIOUS
<1>2. p \in Seq(Names) \ {<<>>} OBVIOUS
<1>3. IsPrefix(p, s) OBVIOUS
<1>5. FromOf(es, k, p) = {} BY <1>1, <1>2, AllIs
<1>6. AtOf(es, k, p) = {}
  <2> SUFFICES ASSUME NEW i \in AtOf(es, k, p) PROVE FALSE OBVIOUS
  <2>1. i \in 1 .. k - 1 /\ p \in PathsOf(es, i) BY DEF AtOf
  <2>2. IsPrefix(p, p)
    <3>1. p \in Seq(Names) BY <1>2
    <3> QED BY <3>1 DEF IsPrefix
  <2>3. i \in FromOf(es, k, p) BY <2>1, <2>2 DEF FromOf
  <2> QED BY <1>5, <2>3
<1>7. FromOf(es, m, p) = {k}
  <2>1. IsPrefix(p, s) => FromOf(es, m, p) = FromOf(es, k, p) \union {k}
    BY ONLY es \in Seq(Entries), k \in 1 .. Len(es), m = k + 1, OnlyPath(es, k, s), EntriesGrow
  <2> QED BY <1>3, <1>5, <2>1
<1>8. AtOf(es, m, p) = IF p = s THEN {k} ELSE {}
  <2>1. AtOf(es, m, p) = AtOf(es, k, p) \union {i \in {k} : p \in PathsOf(es, i)} BY AtGrows
  <2>2. {i \in {k} : p \in PathsOf(es, i)} = IF p = s THEN {k} ELSE {} BY DEF OnlyPath
  <2> QED BY <1>6, <2>1, <2>2, Zenon
<1>9. FirstOf(es, m, p) = k
  <2>1. FirstOf(es, m, p) \in FromOf(es, m, p) BY <1>1, <1>7, FirstIs
  <2> QED BY <1>7, <2>1
<1> DEFINE d == k \notin AtOf(es, m, p) \/ \E i \in AtOf(es, m, p) : es[i].directory
           z == IF k \in AtOf(es, m, p) /\ ~es[k].directory THEN es[k].size ELSE 0
<1>10. NodeOf(es, m, p) = Node(p, d, z) BY <1>9, Zenon DEF NodeOf
<1>11. es[k].directory \in BOOLEAN BY <1>1, EntryFields
<1>12. d = (p # s \/ es[k].directory)
  <2>1. CASE p = s BY <1>8, <1>11, <2>1
  <2>2. CASE p # s BY <1>8, <2>2
  <2> QED BY <2>1, <2>2
<1>13. z = IF p = s /\ ~es[k].directory THEN es[k].size ELSE 0
  <2>1. CASE p = s BY <1>8, <2>1
  <2>2. CASE p # s BY <1>8, <2>2
  <2> QED BY <2>1, <2>2
<1> HIDE DEF d, z
<1> QED BY <1>10, <1>12, <1>13, Zenon DEF NewNode

\* The tree of one entry more is the tree with that entry inserted.
LEMMA TreeGrows ==
    ASSUME NEW es \in Seq(Entries), NEW k \in 1 .. Len(es), NEW m, m = k + 1, NEW s,
           OnlyPath(es, k, s)
    PROVE  TreeOf(es, m) = insertIntoTree(TreeOf(es, k), s, es[k])
<1> DEFINE T == TreeOf(es, k)
           e == es[k]
           pre(n) == SubSeq(s, 1, n)
<1>1. k \in 1 .. Len(es) + 1 /\ m \in 1 .. Len(es) + 1 /\ es[k] \in Entries OBVIOUS
<1>2. s \in Seq(Names) BY PathsAreNames DEF OnlyPath
<1>3. T \in SUBSET Nodes BY <1>1, TreeOfIsNodes
<1>4. insertIntoTree(T, s, e) = {Marked(n, s, e) : n \in T} \union Added(T, s, Len(s), e)
  <2> HIDE DEF T
  <2> QED BY <1>1, <1>2, <1>3, InsertedIs
<1>5. \A p : p \in AllOf(es, m)
                 <=> p \in AllOf(es, k) \/ \E n \in 1 .. Len(s) : p = pre(n)
  <2> SUFFICES ASSUME NEW p
               PROVE  p \in AllOf(es, m)
                          <=> p \in AllOf(es, k) \/ \E n \in 1 .. Len(s) : p = pre(n)
    OBVIOUS
  <2>1. p \in AllOf(es, m) <=> p \in Seq(Names) \ {<<>>} /\ FromOf(es, m, p) # {}
    BY <1>1, AllIs
  <2>2. p \in AllOf(es, k) <=> p \in Seq(Names) \ {<<>>} /\ FromOf(es, k, p) # {}
    BY <1>1, AllIs
  <2>3. FromOf(es, m, p) # {} <=> FromOf(es, k, p) # {} \/ IsPrefix(p, s)
    <3>1. CASE IsPrefix(p, s)
      <4>1. FromOf(es, m, p) = FromOf(es, k, p) \union {k} BY <3>1, EntriesGrow
      <4> QED BY <3>1, <4>1
    <3>2. CASE ~IsPrefix(p, s)
      <4>1. FromOf(es, m, p) = FromOf(es, k, p) BY <3>2, EntriesGrow
      <4> QED BY <3>2, <4>1
    <3> QED BY <3>1, <3>2
  <2>4. p \in Seq(Names) \ {<<>>} => (IsPrefix(p, s) <=> \E n \in 1 .. Len(s) : p = pre(n))
    BY <1>2, PrefixIs
  <2>5. (\E n \in 1 .. Len(s) : p = pre(n)) => p \in Seq(Names) \ {<<>>} BY <1>2, PrefixIsPath
  <2> HIDE DEF pre
  <2> QED BY <2>1, <2>2, <2>3, <2>4, <2>5
<1>6. {Marked(n, s, e) : n \in T} = {NodeOf(es, m, p) : p \in AllOf(es, k)}
  <2>1. \A p \in AllOf(es, k) : NodeOf(es, m, p) = Marked(NodeOf(es, k, p), s, e) BY OldNode
  <2>2. T = {NodeOf(es, k, p) : p \in AllOf(es, k)} BY DEF TreeOf
  <2> HIDE DEF T, e
  <2> QED BY <2>1, <2>2
<1> DEFINE fresh == {l \in 1 .. Len(s) : NodesAt(T, pre(l)) = {}}
<1>7. Added(T, s, Len(s), e) = {NodeOf(es, m, pre(n)) : n \in fresh}
  <2>1. ASSUME NEW n \in fresh PROVE NewNode(pre(n), s, e) = NodeOf(es, m, pre(n))
    <3>1. n \in 1 .. Len(s) /\ NodesAt(T, pre(n)) = {} OBVIOUS
    <3>2. pre(n) \notin AllOf(es, k) BY <1>1, <3>1, NodesAtTree
    <3> DEFINE p == pre(n)
    <3>3. p \in Seq(Names) \ {<<>>} BY <1>2, PrefixIsPath
    <3>4. IsPrefix(p, s) BY <1>2, <3>1, <3>3, PrefixIs
    <3>5. p \notin AllOf(es, k) BY <3>2
    <3> HIDE DEF p
    <3>6. NodeOf(es, m, p) = NewNode(p, s, es[k]) BY <1>2, <3>3, <3>4, <3>5, FreshNode
    <3> QED BY <3>6 DEF p
  <2>2. Added(T, s, Len(s), e) = {NewNode(pre(n), s, e) : n \in fresh} BY DEF Added
  <2> HIDE DEF fresh, pre, e, T
  <2> QED BY <2>1, <2>2
<1>8. \A n \in 1 .. Len(s) : n \in fresh <=> pre(n) \notin AllOf(es, k) BY <1>1, NodesAtTree
<1>9. fresh \subseteq 1 .. Len(s) OBVIOUS
<1>10. AllOf(es, m) = AllOf(es, k) \union {pre(n) : n \in fresh}
  <2> HIDE DEF fresh, pre
  <2> QED BY <1>5, <1>8, <1>9
<1>11. TreeOf(es, m) = {NodeOf(es, m, p) : p \in AllOf(es, m)} BY DEF TreeOf
<1> HIDE DEF fresh, pre, T, e
<1>12. TreeOf(es, m) = {NodeOf(es, m, p) : p \in AllOf(es, k)}
                               \union {NodeOf(es, m, pre(n)) : n \in fresh}
  BY <1>10, <1>11
<1>13. TreeOf(es, m) = insertIntoTree(T, s, e) BY <1>4, <1>6, <1>7, <1>12
<1> QED BY <1>13 DEF T, e

-----------------------------------------------------------------------------
(* The invariant.                                                          *)

Types ==
    /\ archive \in Files /\ operation \in {"readTree", "detectFormat"}
    /\ pc \in {"open", "readTree", "detectFormat", "done"} /\ next \in 1 .. Len(archive.entries) + 1
    /\ handle = IF pc = "done" THEN "freed" ELSE "open"
    /\ format \in Formats
    /\ error \in {"none", "IoError", "CorruptHeader", "InvalidFormat"}

\* A call is at its own loop, has no error while it goes on, and only readTree
\* makes a tree.
CallsGoOn ==
    /\ pc \in {"readTree", "detectFormat"} => pc = operation
    /\ pc # "done" => error = "none"
    /\ operation = "detectFormat" => tree = {}

TreeIsMade == operation = "readTree" => tree = TreeOf(archive.entries, next)

ArchiveInv == Types /\ CallsGoOn /\ TreeIsMade /\ RefusedWhereItLeadsOut

LEMMA FilesFields ==
    ASSUME NEW a \in Files
    PROVE  a.entries \in Seq(Entries) /\ a.format \in Formats
<1> DEFINE E == Seq(Entries)
<1> HIDE DEF E
<1>1. a \in [opens : BOOLEAN, format : Formats, entries : E] BY DEF Files, E
<1>2. a.entries \in E /\ a.format \in Formats BY <1>1
<1> QED BY <1>2 DEF E

LEMMA ArchiveInvInit == Init => ArchiveInv
<1> SUFFICES ASSUME Init PROVE ArchiveInv OBVIOUS
<1>1. archive \in Files BY ArchivesAssumption DEF Init
<1>2. archive.entries \in Seq(Entries) BY <1>1, FilesFields
<1>3. Types
  <2>1. next \in 1 .. Len(archive.entries) + 1
    <3> DEFINE es == archive.entries
    <3> HIDE DEF es
    <3>1. es \in Seq(Entries) BY <1>2 DEF es
    <3>2. next \in 1 .. Len(es) + 1 BY <3>1 DEF Init
    <3> QED BY <3>2 DEF es
  <2> QED BY <1>1, <2>1 DEF Init, Types, Formats
<1>4. CallsGoOn BY DEF Init, CallsGoOn
<1>5. TreeIsMade
  <2>1. AllOf(archive.entries, 1) = {}
    <3>1. 1 .. 1 - 1 = {} OBVIOUS
    <3> QED BY <3>1, Zenon DEF AllOf
  <2>2. TreeOf(archive.entries, 1) = {} BY <2>1 DEF TreeOf
  <2> QED BY <2>2 DEF Init, TreeIsMade
<1>6. RefusedWhereItLeadsOut BY DEF Init, RefusedWhereItLeadsOut
<1> QED BY <1>3, <1>4, <1>5, <1>6 DEF ArchiveInv

\* The ways through an iteration of readTree.
ReadsOn ==
    LET entry == archive.entries[next]
        normalized == {normalizeArchiveEntry(raw) : raw \in entry.path}
    IN  /\ next <= Len(archive.entries)
        /\ \A n \in normalized : n.error = "none"
        /\ tree' = (UNION {insertIntoTree(tree, n.segments, entry) : n \in normalized})
                          \union (IF normalized = {} THEN tree ELSE {})
        /\ next' = next + 1
        /\ UNCHANGED <<pc, handle, error>>

LEMMA NextEntryCases ==
    ASSUME NextEntry, next \in Nat, Len(archive.entries) \in Nat
    PROVE  /\ pc = "readTree" /\ UNCHANGED <<archive, operation, format>>
           /\ \/ FreeAndReturn("none") /\ UNCHANGED <<next, tree>>
              \/ FreeAndReturn("CorruptHeader") /\ UNCHANGED <<next, tree>>
              \/ /\ FreeAndReturn("InvalidFormat") /\ UNCHANGED <<next, tree>>
                 /\ next <= Len(archive.entries)
                 /\ \E raw \in archive.entries[next].path :
                       normalizeArchiveEntry(raw).error # "none"
              \/ ReadsOn
<1> DEFINE entry == archive.entries[next]
           normalized == {normalizeArchiveEntry(raw) : raw \in entry.path}
<1>1. pc = "readTree" /\ UNCHANGED <<archive, operation, format>> BY DEF NextEntry, input
<1>2. CASE next > Len(archive.entries)
  <2>1. FreeAndReturn("none") /\ UNCHANGED <<next, tree>> BY <1>2 DEF NextEntry
  <2> QED BY <1>1, <2>1
<1>3. CASE ~(next > Len(archive.entries)) /\ entry.header = "bad"
  <2>1. FreeAndReturn("CorruptHeader") /\ UNCHANGED <<next, tree>> BY <1>3 DEF NextEntry, Refuse
  <2> QED BY <1>1, <2>1
<1>4. CASE /\ ~(next > Len(archive.entries)) /\ entry.header # "bad"
           /\ \E n \in normalized : n.error # "none"
  <2>1. FreeAndReturn("InvalidFormat") /\ UNCHANGED <<next, tree>>
    BY <1>4, Zenon DEF NextEntry, Refuse
  <2>2. \E raw \in entry.path : normalizeArchiveEntry(raw).error # "none" BY <1>4
  <2>3. next <= Len(archive.entries) BY <1>4
  <2> QED BY <1>1, <2>1, <2>2, <2>3
<1>5. CASE /\ ~(next > Len(archive.entries)) /\ entry.header # "bad"
           /\ ~\E n \in normalized : n.error # "none"
  <2>1. /\ tree' = (UNION {insertIntoTree(tree, n.segments, entry) : n \in normalized})
                          \union (IF normalized = {} THEN tree ELSE {})
        /\ next' = next + 1
        /\ UNCHANGED <<pc, handle, error>>
    BY <1>5, Zenon DEF NextEntry
  <2>2. next <= Len(archive.entries) BY <1>5
  <2>3. \A n \in normalized : n.error = "none" BY <1>5
  <2>4. ReadsOn BY <2>1, <2>2, <2>3, Zenon DEF ReadsOn
  <2> QED BY <1>1, <2>4
<1> QED BY <1>2, <1>3, <1>4, <1>5

\* An iteration that reads on makes the tree of one entry more.
LEMMA TreeIsMadeOn ==
    ASSUME archive.entries \in Seq(Entries), next \in 1 .. Len(archive.entries),
           tree = TreeOf(archive.entries, next), ReadsOn
    PROVE  tree' = TreeOf(archive.entries, next + 1)
<1> DEFINE es == archive.entries
           entry == es[next]
           normalized == {normalizeArchiveEntry(raw) : raw \in entry.path}
           m == next + 1
<1>1. tree' = (UNION {insertIntoTree(tree, n.segments, entry) : n \in normalized})
                      \union (IF normalized = {} THEN tree ELSE {})
  BY Zenon DEF ReadsOn
<1>2. es \in Seq(Entries) /\ next \in 1 .. Len(es) /\ m = next + 1 OBVIOUS
<1>3. entry \in Entries OBVIOUS
<1>4. \A a, b \in entry.path : a = b
  <2> HIDE DEF entry
  <2> QED BY <1>3, EntryFields
<1>5. CASE entry.path = {}
  <2>1. normalized = {} BY <1>5
  <2>2. tree' = tree
    <3> HIDE DEF normalized
    <3>1. {insertIntoTree(tree, n.segments, entry) : n \in normalized} = {} BY <2>1, Zenon
    <3>2. UNION {insertIntoTree(tree, n.segments, entry) : n \in normalized} = {} BY <3>1
    <3>3. tree' = {} \union (IF normalized = {} THEN tree ELSE {}) BY <1>1, <3>2
    <3> QED BY <2>1, <3>3
  <2>3. es[next].path = {} BY <1>5
  <2> HIDE DEF es, m
  <2>4. TreeOf(es, m) = TreeOf(es, next) BY <1>2, <2>3, TreeStays
  <2> QED BY <2>2, <2>4 DEF es, m
<1>6. CASE entry.path # {}
  <2>1. PICK raw \in entry.path : TRUE BY <1>6
  <2>2. entry.path = {raw} BY <1>4, <2>1
  <2> DEFINE n == normalizeArchiveEntry(raw)  s == n.segments
  <2>3. normalized = {n} BY <2>2
  <2>4. PathsOf(es, next) = {s} BY <2>2 DEF PathsOf
  <2> HIDE DEF n
  <2>5. tree' = insertIntoTree(tree, s, entry)
    <3> HIDE DEF normalized
    <3>1. {insertIntoTree(tree, x.segments, entry) : x \in normalized}
              = {insertIntoTree(tree, s, entry)}
      BY <2>3
    <3>2. UNION {insertIntoTree(tree, x.segments, entry) : x \in normalized}
              = insertIntoTree(tree, s, entry)
      BY <3>1
    <3>3. normalized # {} BY <2>3
    <3> QED BY <1>1, <3>2, <3>3
  <2>6. OnlyPath(es, next, s) BY <2>4 DEF OnlyPath
  <2> HIDE DEF s, es, m
  <2>7. TreeOf(es, m) = insertIntoTree(TreeOf(es, next), s, es[next]) BY <1>2, <2>6, TreeGrows
  <2> QED BY <2>5, <2>7 DEF es, m
<1> QED BY <1>5, <1>6

\* Where an entry is refused and where it is not.
LEMMA RefusedStays ==
    ASSUME Types, CallsGoOn, RefusedWhereItLeadsOut, pc # "done",
           archive' = archive, next' = next, error' # "InvalidFormat"
    PROVE  RefusedWhereItLeadsOut'
BY DEF RefusedWhereItLeadsOut

LEMMA LeadsOutIsRefused ==
    ASSUME archive.entries \in Seq(Entries), next \in 1 .. Len(archive.entries),
           NEW raw \in archive.entries[next].path
    PROVE  LeadsOut(raw) <=> normalizeArchiveEntry(raw).error # "none"
<1>1. archive.entries[next] \in Entries OBVIOUS
<1>2. raw \in Seq(Characters) BY <1>1, EntryFields
<1> QED BY <1>2, RefusedLeadsOut

LEMMA ArchiveInvNext == ArchiveInv /\ [Next]_vars => ArchiveInv'
<1> SUFFICES ASSUME ArchiveInv, [Next]_vars PROVE ArchiveInv' OBVIOUS
<1>1. Types /\ CallsGoOn /\ TreeIsMade /\ RefusedWhereItLeadsOut BY DEF ArchiveInv
<1>2. archive \in Files /\ archive.entries \in Seq(Entries) /\ archive.format \in Formats
  BY <1>1, FilesFields DEF Types
<1>3. next \in 1 .. Len(archive.entries) + 1 /\ Len(archive.entries) \in Nat
  <2>1. next \in 1 .. Len(archive.entries) + 1 BY <1>1 DEF Types
  <2> DEFINE es == archive.entries
  <2> HIDE DEF es
  <2>2. Len(es) \in Nat BY <1>2 DEF es
  <2> QED BY <2>1, <2>2 DEF es
<1>4. ASSUME pc # "done", pc' = "done", archive' = archive, operation' = operation,
             next' = next, tree' = tree, format' \in Formats,
             handle' = IF handle = "open" THEN "freed" ELSE "freed twice",
             error' \in {"none", "IoError", "CorruptHeader"}
      PROVE  ArchiveInv'
  <2>1. Types' BY <1>1, <1>4 DEF Types
  <2>2. CallsGoOn' BY <1>1, <1>4 DEF CallsGoOn
  <2>3. TreeIsMade' BY <1>1, <1>4 DEF TreeIsMade
  <2>4. RefusedWhereItLeadsOut' BY <1>1, <1>4, RefusedStays
  <2> QED BY <2>1, <2>2, <2>3, <2>4 DEF ArchiveInv
<1>5. CASE Open
  <2>1. /\ pc = "open" /\ UNCHANGED <<archive, operation, next, tree, format>>
    BY <1>5 DEF Open, input
  <2>2. CASE archive.opens
    <3>1. pc' = operation /\ UNCHANGED <<handle, error>> BY <1>5, <2>2 DEF Open
    <3>2. Types' BY <1>1, <2>1, <3>1 DEF Types
    <3>3. CallsGoOn' BY <1>1, <2>1, <3>1 DEF CallsGoOn
    <3>4. TreeIsMade' BY <1>1, <2>1 DEF TreeIsMade
    <3>5. RefusedWhereItLeadsOut' BY <1>1, <2>1, <3>1 DEF RefusedWhereItLeadsOut
    <3> QED BY <3>2, <3>3, <3>4, <3>5 DEF ArchiveInv
  <2>3. CASE ~archive.opens
    <3>1. FreeAndReturn("IoError") BY <1>5, <2>3 DEF Open
    <3>2. format' \in Formats BY <1>1, <2>1 DEF Types
    <3> QED BY <1>4, <2>1, <3>1, <3>2 DEF FreeAndReturn
  <2> QED BY <2>2, <2>3
<1>6. CASE NextEntry
  <2>1. pc = "readTree" /\ UNCHANGED <<archive, operation, format>>
    BY <1>3, <1>6, NextEntryCases
  <2>2. operation = "readTree" BY <1>1, <2>1 DEF CallsGoOn
  <2>3. format' \in Formats BY <1>1, <2>1 DEF Types
  <2>4. CASE FreeAndReturn("none") /\ UNCHANGED <<next, tree>>
    BY <1>4, <2>1, <2>3, <2>4 DEF FreeAndReturn
  <2>5. CASE FreeAndReturn("CorruptHeader") /\ UNCHANGED <<next, tree>>
    BY <1>4, <2>1, <2>3, <2>5 DEF FreeAndReturn
  <2>6. CASE /\ FreeAndReturn("InvalidFormat") /\ UNCHANGED <<next, tree>>
             /\ next <= Len(archive.entries)
             /\ \E raw \in archive.entries[next].path : normalizeArchiveEntry(raw).error # "none"
    <3>1. Types' BY <1>1, <2>1, <2>6 DEF Types, FreeAndReturn
    <3>2. CallsGoOn' BY <1>1, <2>1, <2>2, <2>6 DEF CallsGoOn, FreeAndReturn
    <3>3. TreeIsMade' BY <1>1, <2>1, <2>6 DEF TreeIsMade
    <3>4. next \in 1 .. Len(archive.entries) BY <1>3, <2>6
    <3>5. \E raw \in archive.entries[next].path : LeadsOut(raw)
      BY <1>2, <2>6, <3>4, LeadsOutIsRefused
    <3>6. RefusedWhereItLeadsOut' BY <1>1, <2>1, <2>6, <3>5 DEF RefusedWhereItLeadsOut
    <3> QED BY <3>1, <3>2, <3>3, <3>6 DEF ArchiveInv
  <2>7. CASE ReadsOn
    <3>1. /\ next <= Len(archive.entries) /\ next' = next + 1 /\ UNCHANGED <<pc, handle, error>>
          /\ \A raw \in archive.entries[next].path : normalizeArchiveEntry(raw).error = "none"
      BY <2>7, Zenon DEF ReadsOn
    <3>2. next \in 1 .. Len(archive.entries) BY <1>3, <3>1
    <3>3. Types'
      <4>1. next' \in 1 .. Len(archive.entries) + 1 BY <1>3, <3>1, <3>2
      <4> QED BY <1>1, <2>1, <3>1, <4>1 DEF Types
    <3>4. CallsGoOn' BY <1>1, <2>1, <2>2, <3>1 DEF CallsGoOn
    <3>5. TreeIsMade'
      <4>1. tree = TreeOf(archive.entries, next) BY <1>1, <2>2 DEF TreeIsMade
      <4>2. tree' = TreeOf(archive.entries, next + 1) BY <1>2, <2>7, <3>2, <4>1, TreeIsMadeOn
      <4> QED BY <2>1, <3>1, <4>2 DEF TreeIsMade
    <3>6. RefusedWhereItLeadsOut'
      <4>1. \A raw \in archive.entries[next].path : ~LeadsOut(raw)
        BY <1>2, <3>1, <3>2, LeadsOutIsRefused
      <4>2. error # "InvalidFormat" BY <1>1, <2>1 DEF CallsGoOn
      <4>3. \A i \in 1 .. next' - 1 : i = next \/ i \in 1 .. next - 1 BY <3>1, <3>2
      <4>4. \A i \in 1 .. next - 1 : \A raw \in archive.entries[i].path : ~LeadsOut(raw)
        BY <1>1 DEF RefusedWhereItLeadsOut
      <4>5. \A i \in 1 .. next' - 1 : \A raw \in archive'.entries[i].path : ~LeadsOut(raw)
        BY <2>1, <4>1, <4>3, <4>4
      <4> QED BY <3>1, <4>2, <4>5 DEF RefusedWhereItLeadsOut
    <3> QED BY <3>3, <3>4, <3>5, <3>6 DEF ArchiveInv
  <2> QED BY <1>3, <1>6, <2>4, <2>5, <2>6, <2>7, NextEntryCases
<1>7. CASE Detect
  <2>1. /\ pc = "detectFormat" /\ UNCHANGED <<archive, operation, next, tree>>
        /\ FreeAndReturn("none")
        /\ format' = IF archive.entries # <<>> /\ archive.entries[1].header = "OK"
                     THEN archive.format ELSE "Unknown"
    BY <1>7 DEF Detect, input
  <2>2. format' \in Formats BY <1>2, <2>1 DEF Formats
  <2> QED BY <1>4, <2>1, <2>2 DEF FreeAndReturn
<1>8. CASE UNCHANGED vars
  <2>1. UNCHANGED <<archive, operation, pc, next, handle, tree, format, error>>
    BY <1>8 DEF vars, input
  <2>2. Types' /\ CallsGoOn' BY <1>1, <2>1 DEF Types, CallsGoOn
  <2>3. TreeIsMade' /\ RefusedWhereItLeadsOut'
    BY <1>1, <2>1 DEF TreeIsMade, RefusedWhereItLeadsOut
  <2> QED BY <2>2, <2>3 DEF ArchiveInv
<1>9. CASE Done BY <1>8, <1>9 DEF Done
<1> QED BY <1>5, <1>6, <1>7, <1>8, <1>9 DEF Next

(* At every step of both calls the tree is that of the entries read so far,  *)
(* none of them leads out, and the archive is read exactly until it is freed.*)
THEOREM ArchiveInvariant == Spec => []ArchiveInv
BY ArchiveInvInit, ArchiveInvNext, PTL DEF Spec

(* An archive is refused exactly at its first path that leads out of it:     *)
(* what the searches of the normaliser find is what a part that is "..", a   *)
(* leading separator or a drive is.                                          *)
THEOREM RefusedExactly == Spec => []RefusedWhereItLeadsOut
<1>1. ArchiveInv => RefusedWhereItLeadsOut BY DEF ArchiveInv
<1> QED BY <1>1, ArchiveInvariant, PTL

(* The tree is that of the entries read, however their paths lie above,      *)
(* below and beside each other.                                              *)
THEOREM TreeOfTheEntries == Spec => []TreeIsThatOfItsEntries
<1>1. ArchiveInv => TreeIsThatOfItsEntries BY TreeIsTreeOf DEF ArchiveInv, TreeIsMade
<1> QED BY <1>1, ArchiveInvariant, PTL

(* The members have their types, and every way out frees the archive once:   *)
(* the nodes have them because every path left by the normaliser does.       *)
THEOREM ArchiveTypes == Spec => []TypeOK
<1>1. ArchiveInv => TypeOK
  <2> SUFFICES ASSUME ArchiveInv PROVE TypeOK OBVIOUS
  <2>1. Types /\ CallsGoOn /\ TreeIsMade BY DEF ArchiveInv
  <2>2. tree \in SUBSET Nodes
    <3>1. CASE operation = "readTree"
      <4>1. archive.entries \in Seq(Entries) BY <2>1, FilesFields DEF Types
      <4>2. next \in 1 .. Len(archive.entries) + 1 BY <2>1 DEF Types
      <4>3. TreeOf(archive.entries, next) \in SUBSET Nodes BY <4>1, <4>2, TreeOfIsNodes
      <4> QED BY <2>1, <3>1, <4>3 DEF TreeIsMade
    <3>2. CASE operation # "readTree" BY <2>1, <3>2 DEF Types, CallsGoOn
    <3> QED BY <3>1, <3>2
  <2>3. ASSUME NEW n \in tree
        PROVE  /\ n.path \in Seq(Seq(Characters \ Separators) \ {<<>>}) \ {<<>>}
               /\ n.directory \in BOOLEAN /\ n.size \in Nat
    <3> DEFINE P == Seq(Names) \ {<<>>}
               Q == Seq(Seq(Characters \ Separators) \ {<<>>}) \ {<<>>}
               T == Seq(Characters \ Separators) \ {<<>>}
    <3>1. P \subseteq Q
      <4>1. Names \subseteq T BY DEF Names
      <4> HIDE DEF T
      <4>2. Seq(Names) \subseteq Seq(T) BY <4>1
      <4> QED BY <4>2 DEF T
    <3> HIDE DEF P, Q
    <3>2. n \in [path : P, directory : BOOLEAN, size : Nat] BY <2>2, <2>3 DEF Nodes, P
    <3>3. n.path \in P /\ n.directory \in BOOLEAN /\ n.size \in Nat BY <3>2
    <3>4. n.path \in Q BY <3>1, <3>3
    <3> QED BY <3>3, <3>4 DEF Q
  <2> QED BY <2>1, <2>3 DEF Types, TypeOK
<1> QED BY <1>1, ArchiveInvariant, PTL

=============================================================================
