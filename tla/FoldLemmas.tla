----------------------------- MODULE FoldLemmas -----------------------------
(***************************************************************************)
(* Facts about sequences of anything, and about the folds of the community *)
(* modules: what a fold computes is what its operator computes, one        *)
(* element after the other.  Op is the operator; a module that folds with  *)
(* an operator of its own instantiates this one with it.                   *)
(***************************************************************************)
EXTENDS SequencesExt, FiniteSetTheorems, SequenceTheorems, TLAPS

CONSTANT Op(_, _)

(* Induction, of a set of numbers: by the least interval 0..n whose end is *)
(* not in it.                                                              *)
LEMMA SetInduction ==
  ASSUME NEW S, 0 \in S, \A n \in Nat : n \in S => n + 1 \in S
  PROVE  Nat \subseteq S
<1> DEFINE T == {0..n : n \in Nat \ S}
<1>1. SUFFICES ASSUME NEW k \in Nat \ S PROVE FALSE
  OBVIOUS
<1>2. T \subseteq FiniteSubsetsOf(Nat)
  <2> SUFFICES ASSUME NEW n \in Nat PROVE 0..n \in FiniteSubsetsOf(Nat)
    OBVIOUS
  <2>1. IsFiniteSet(0..n)
    BY FS_Interval
  <2> QED BY <2>1 DEF FiniteSubsetsOf
<1>3. T # {}
  BY <1>1
<1>4. \A n \in Nat \ S : 0..n \in T
  OBVIOUS
<1>5. \A t \in T : \E n \in Nat \ S : t = 0..n
  OBVIOUS
<1> HIDE DEF T
<1>6. PICK t \in T : \A u \in T : ~ (<<u, t>> \in StrictSubsetOrdering(Nat))
  BY <1>2, <1>3, FS_StrictSubsetOrderingWellFounded, WFMin, Zenon
<1>7. PICK x \in Nat \ S : t = 0..x
  BY <1>5
<1>8. x - 1 \in Nat \ S
  BY <1>7
<1>9. 0..(x-1) \subseteq 0..x /\ 0..(x-1) # 0..x /\ 0..x \subseteq Nat
  BY <1>7
<1>10. <<0..(x-1), 0..x>> \in StrictSubsetOrdering(Nat)
  BY <1>9 DEF StrictSubsetOrdering
<1> QED BY <1>4, <1>6, <1>7, <1>8, <1>10

-----------------------------------------------------------------------------
(* A sequence, of whatever it holds. *)
ASeq(s) == s \in Seq({s[i] : i \in DOMAIN s})

(* A sequence over a set is one. *)
LEMMA SeqOfSet ==
  ASSUME NEW S, NEW s \in Seq(S)
  PROVE  ASeq(s)
<1>1. DOMAIN s = 1..Len(s) /\ Len(s) \in Nat /\ s \in [1..Len(s) -> S]
  BY LenProperties
<1>2. s \in [1..Len(s) -> {s[i] : i \in DOMAIN s}]
  BY <1>1
<1> QED BY <1>1, <1>2, SeqDef DEF ASeq

(* It has a length, and that many places. *)
LEMMA SeqLen ==
  ASSUME NEW s, ASeq(s)
  PROVE  Len(s) \in Nat /\ DOMAIN s = 1..Len(s)
BY LenProperties DEF ASeq

(* The empty sequence is one. *)
LEMMA EmptyIsASeq == ASeq(<<>>) /\ Len(<<>>) = 0
BY SeqOfSet, EmptySeq

(* A function on 1..n is one. *)
LEMMA Tabled ==
  ASSUME NEW n \in Nat, NEW s, s = [i \in 1..n |-> s[i]]
  PROVE  ASeq(s) /\ Len(s) = n
<1>1. DOMAIN s = 1..n
  OBVIOUS
<1>2. s \in [1..n -> {s[i] : i \in DOMAIN s}]
  BY <1>1
<1>3. s \in Seq({s[i] : i \in DOMAIN s})
  BY <1>2, SeqDef
<1>4. Len(s) = n
  BY <1>1, <1>3, LenProperties
<1> QED BY <1>3, <1>4 DEF ASeq

(* Sequences of different things are sequences of all of them. *)
LEMMA Widened ==
  ASSUME NEW s, NEW t, ASeq(s), ASeq(t)
  PROVE  \E S : s \in Seq(S) /\ t \in Seq(S)
<1> DEFINE A == {s[i] : i \in DOMAIN s}
           B == {t[i] : i \in DOMAIN t}
<1>1. s \in Seq(A) /\ t \in Seq(B) /\ A \subseteq A \cup B /\ B \subseteq A \cup B
  BY DEF ASeq
<1> HIDE DEF A, B
<1>2. s \in Seq(A \cup B) /\ t \in Seq(A \cup B)
  BY <1>1, SeqMonotonic
<1> QED BY <1>2

(* What one sequence after another holds. *)
LEMMA Concatenated ==
  ASSUME NEW s, NEW t, ASeq(s), ASeq(t)
  PROVE  /\ ASeq(s \o t) /\ Len(s \o t) = Len(s) + Len(t)
         /\ \A i \in 1..(Len(s) + Len(t)) :
              (s \o t)[i] = IF i <= Len(s) THEN s[i] ELSE t[i - Len(s)]
<1>1. PICK S : s \in Seq(S) /\ t \in Seq(S)
  BY Widened
<1>2. s \o t \in Seq(S)
  BY <1>1, ConcatProperties
<1>3. ASeq(s \o t)
  BY <1>2, SeqOfSet
<1> QED BY <1>1, <1>3, ConcatProperties

(* What a sequence holds with one more element. *)
LEMMA Appended ==
  ASSUME NEW s, ASeq(s), NEW e
  PROVE  /\ ASeq(Append(s, e)) /\ Len(Append(s, e)) = Len(s) + 1
         /\ \A i \in 1..Len(s) : Append(s, e)[i] = s[i]
         /\ Append(s, e)[Len(s) + 1] = e
<1> DEFINE S == {s[i] : i \in DOMAIN s} \cup {e}
<1>1. s \in Seq(S) /\ e \in S
  BY SeqMonotonic DEF ASeq
<1> HIDE DEF S
<1>2. Append(s, e) \in Seq(S)
  BY <1>1, AppendProperties
<1>3. ASeq(Append(s, e))
  BY <1>2, SeqOfSet
<1> QED BY <1>1, <1>3, AppendProperties

(* Nothing added, at either end, changes nothing. *)
LEMMA NothingAdded ==
  ASSUME NEW s, ASeq(s)
  PROVE  s \o <<>> = s /\ <<>> \o s = s
BY ConcatEmptySeq DEF ASeq

(* To append is to concatenate with one element. *)
LEMMA OneAdded ==
  ASSUME NEW s, ASeq(s), NEW e
  PROVE  s \o <<e>> = Append(s, e)
<1> DEFINE S == {s[i] : i \in DOMAIN s} \cup {e}
<1>1. s \in Seq(S) /\ e \in S
  BY SeqMonotonic DEF ASeq
<1> HIDE DEF S
<1> QED BY <1>1, AppendIsConcat

(* Of the same length with the same elements they are one. *)
LEMMA SameSeq ==
  ASSUME NEW s, NEW t, ASeq(s), ASeq(t), Len(s) = Len(t), \A i \in 1..Len(s) : s[i] = t[i]
  PROVE  s = t
<1>1. PICK S : s \in Seq(S) /\ t \in Seq(S)
  BY Widened
<1> QED BY <1>1, SeqEqual

(* What is left without the first. *)
LEMMA Rest ==
  ASSUME NEW s, ASeq(s), s # <<>>
  PROVE  /\ ASeq(Tail(s)) /\ Len(Tail(s)) = Len(s) - 1 /\ Len(s) \in Nat \ {0}
         /\ Head(s) = s[1]
         /\ \A i \in 1..Len(Tail(s)) : Tail(s)[i] = s[i + 1]
<1> DEFINE S == {s[i] : i \in DOMAIN s}
<1>1. s \in Seq(S)
  BY DEF ASeq
<1> HIDE DEF S
<1>2. Tail(s) \in Seq(S)
  BY <1>1, HeadTailProperties
<1>3. ASeq(Tail(s))
  BY <1>2, SeqOfSet
<1>4. Head(s) = s[1]
  BY <1>1
<1>5. Len(s) \in Nat \ {0}
  BY <1>1, EmptySeq
<1> QED BY <1>1, <1>3, <1>4, <1>5, HeadTailProperties

(* What a part of a sequence holds. *)
LEMMA Sliced ==
  ASSUME NEW s, ASeq(s), NEW m \in Nat \ {0}, NEW n \in Nat, n <= Len(s)
  PROVE  /\ ASeq(SubSeq(s, m, n))
         /\ Len(SubSeq(s, m, n)) = IF m <= n THEN n - m + 1 ELSE 0
         /\ \A i \in 1..(n - m + 1) : SubSeq(s, m, n)[i] = s[m + i - 1]
<1> DEFINE S == {s[i] : i \in DOMAIN s}
<1>1. \A i \in m..n : s[i] \in S
  BY SeqLen
<1> HIDE DEF S
<1>2. /\ SubSeq(s, m, n) \in Seq(S)
      /\ Len(SubSeq(s, m, n)) = IF m <= n THEN n - m + 1 ELSE 0
      /\ \A i \in 1..(n - m + 1) : SubSeq(s, m, n)[i] = s[m + i - 1]
  BY <1>1, SubSeqProperties
<1> QED BY <1>2, SeqOfSet

(* Only the empty sequence has no length. *)
LEMMA NoLength ==
  ASSUME NEW s, ASeq(s)
  PROVE  Len(s) = 0 <=> s = <<>>
BY EmptySeq DEF ASeq

(* As much of a sequence as its start, and all of it. *)
LEMMA StartOf ==
  ASSUME NEW s, ASeq(s), NEW k \in Nat, k <= Len(s)
  PROVE  /\ ASeq(SubSeq(s, 1, k)) /\ Len(SubSeq(s, 1, k)) = k
         /\ \A i \in 1..k : SubSeq(s, 1, k)[i] = s[i]
         /\ k = Len(s) => SubSeq(s, 1, k) = s
<1>1. PICK t : t = SubSeq(s, 1, k)
  OBVIOUS
<1>2. ASeq(t) /\ Len(t) = k /\ \A i \in 1..k : t[i] = s[i]
  <2>1. /\ ASeq(SubSeq(s, 1, k)) /\ Len(SubSeq(s, 1, k)) = IF 1 <= k THEN k - 1 + 1 ELSE 0
        /\ \A i \in 1..(k - 1 + 1) : SubSeq(s, 1, k)[i] = s[1 + i - 1]
    BY Sliced
  <2> QED BY <1>1, <2>1
<1>3. k = Len(s) => t = s
  BY <1>2, SameSeq
<1> QED BY <1>1, <1>2, <1>3

(* The one element of a slice, and the slice of nothing. *)
LEMMA SliceOfOne ==
  ASSUME NEW s, ASeq(s), NEW k \in 1..Len(s)
  PROVE  SubSeq(s, k, k) = <<s[k]>> /\ SubSeq(s, 1, 0) = <<>>
<1>1. k \in Nat \ {0} /\ k \in Nat /\ k <= Len(s) /\ k - k + 1 = 1 /\ k <= k
  BY SeqLen
<1>2. PICK t, u, x : t = SubSeq(s, k, k) /\ x = s[k] /\ u = <<x>>
  OBVIOUS
<1>3. ASeq(t) /\ Len(t) = 1 /\ t[1] = x
  <2>1. /\ ASeq(SubSeq(s, k, k))
        /\ Len(SubSeq(s, k, k)) = IF k <= k THEN k - k + 1 ELSE 0
        /\ \A i \in 1..(k - k + 1) : SubSeq(s, k, k)[i] = s[k + i - 1]
    BY <1>1, Sliced
  <2>2. 1 \in 1..(k - k + 1) /\ k + 1 - 1 = k
    BY <1>1
  <2> QED BY <1>1, <1>2, <2>1, <2>2
<1>4. ASeq(u) /\ Len(u) = 1 /\ u[1] = x
  BY <1>2 DEF ASeq
<1>5. t = u
  BY <1>3, <1>4, SameSeq
<1> QED BY <1>2, <1>5

(* A start with one element more. *)
LEMMA SliceOfMore ==
  ASSUME NEW s, ASeq(s), NEW k \in Nat, k + 1 <= Len(s)
  PROVE  SubSeq(s, 1, k + 1) = Append(SubSeq(s, 1, k), s[k + 1])
<1>1. PICK n, a, b, c, x : /\ n = k + 1 /\ a = SubSeq(s, 1, k) /\ b = SubSeq(s, 1, n)
                           /\ x = s[n] /\ c = Append(a, x)
  OBVIOUS
<1>2. k \in Nat /\ k <= Len(s) /\ n \in Nat /\ n <= Len(s)
  BY <1>1, SeqLen
<1>3. /\ ASeq(a) /\ Len(a) = k /\ \A i \in 1..k : a[i] = s[i]
      /\ ASeq(b) /\ Len(b) = n /\ \A i \in 1..n : b[i] = s[i]
  BY <1>1, <1>2, StartOf
<1>4. ASeq(c) /\ Len(c) = n /\ (\A i \in 1..k : c[i] = a[i]) /\ c[n] = x
  <2>1. /\ ASeq(Append(a, x)) /\ Len(Append(a, x)) = Len(a) + 1
        /\ \A i \in 1..Len(a) : Append(a, x)[i] = a[i]
        /\ Append(a, x)[Len(a) + 1] = x
    BY <1>3, Appended
  <2> QED BY <1>1, <1>3, <2>1
<1>5. ASSUME NEW i \in 1..n PROVE b[i] = c[i]
  <2>1. i = n \/ i \in 1..k
    BY <1>1
  <2> QED BY <1>1, <1>3, <1>4, <2>1
<1>6. b = c
  BY <1>3, <1>4, <1>5, SameSeq
<1> QED BY <1>1, <1>6

(* Up to a place in the second of two. *)
LEMMA SliceAcross ==
  ASSUME NEW s, NEW t, ASeq(s), ASeq(t), NEW k \in Nat, k <= Len(t)
  PROVE  SubSeq(s \o t, 1, Len(s) + k) = s \o SubSeq(t, 1, k)
<1>1. PICK n, m, all : n = Len(s) /\ m = Len(t) /\ all = s \o t
  OBVIOUS
<1>2. n \in Nat /\ m \in Nat /\ k <= m
  BY <1>1, SeqLen
<1>3. /\ ASeq(all) /\ Len(all) = n + m
      /\ \A i \in 1..(n + m) : all[i] = IF i <= n THEN s[i] ELSE t[i - n]
  BY <1>1, Concatenated
<1>4. PICK part, both, l, slice : /\ part = SubSeq(t, 1, k) /\ both = s \o part /\ l = n + k
                                  /\ slice = SubSeq(all, 1, l)
  OBVIOUS
<1>5. ASeq(part) /\ Len(part) = k /\ \A i \in 1..k : part[i] = t[i]
  BY <1>4, StartOf
<1>6. /\ ASeq(both) /\ Len(both) = l
      /\ \A i \in 1..l : both[i] = IF i <= n THEN s[i] ELSE part[i - n]
  BY <1>1, <1>4, <1>5, Concatenated
<1>7. l \in Nat /\ l <= Len(all)
  BY <1>2, <1>3, <1>4
<1>8. ASeq(slice) /\ Len(slice) = l /\ \A i \in 1..l : slice[i] = all[i]
  BY <1>3, <1>4, <1>7, StartOf
<1>9. ASSUME NEW i \in 1..l PROVE slice[i] = both[i]
  <2>1. i \in 1..(n + m) /\ (i > n => i - n \in 1..k)
    BY <1>2, <1>4
  <2> QED BY <1>2, <1>3, <1>5, <1>6, <1>8, <2>1
<1>10. slice = both
  BY <1>6, <1>8, <1>9, SameSeq
<1> QED BY <1>1, <1>4, <1>10

(* Each of two, taken from both. *)
LEMMA SlicesOfBoth ==
  ASSUME NEW s, NEW t, ASeq(s), ASeq(t)
  PROVE  /\ SubSeq(s \o t, 1, Len(s)) = s
         /\ SubSeq(s \o t, Len(s) + 1, Len(s) + Len(t)) = t
<1>1. PICK n, m, all : n = Len(s) /\ m = Len(t) /\ all = s \o t
  OBVIOUS
<1>2. n \in Nat /\ m \in Nat
  BY <1>1, SeqLen
<1>3. /\ ASeq(all) /\ Len(all) = n + m
      /\ \A i \in 1..(n + m) : all[i] = IF i <= n THEN s[i] ELSE t[i - n]
  BY <1>1, Concatenated
<1>4. PICK first, rest, l, f : /\ first = SubSeq(all, 1, n) /\ rest = SubSeq(all, f, l)
                               /\ l = n + m /\ f = n + 1
  OBVIOUS
<1>5. first = s
  <2>1. n <= Len(all)
    BY <1>2, <1>3
  <2>2. ASeq(first) /\ Len(first) = n /\ \A i \in 1..n : first[i] = all[i]
    BY <1>2, <1>3, <1>4, <2>1, StartOf
  <2>3. \A i \in 1..n : first[i] = s[i]
    BY <1>2, <1>3, <2>2
  <2> QED BY <1>1, <2>2, <2>3, SameSeq
<1>6. ASeq(rest) /\ Len(rest) = m /\ \A i \in 1..m : rest[i] = t[i]
  <2>1. f \in Nat \ {0} /\ l \in Nat /\ l <= Len(all)
    BY <1>2, <1>3, <1>4
  <2>2. /\ ASeq(SubSeq(all, f, l)) /\ Len(SubSeq(all, f, l)) = IF f <= l THEN l - f + 1 ELSE 0
        /\ \A i \in 1..(l - f + 1) : SubSeq(all, f, l)[i] = all[f + i - 1]
    BY <1>3, <2>1, Sliced
  <2>3. l - f + 1 = m /\ (f <= l <=> m # 0)
    BY <1>2, <1>4
  <2>4. Len(rest) = m
    BY <1>2, <1>4, <2>2, <2>3
  <2>5. ASSUME NEW i \in 1..m PROVE rest[i] = t[i]
    <3>1. PICK j : j = f + i - 1
      OBVIOUS
    <3>2. j \in 1..(n + m) /\ ~(j <= n) /\ j - n = i
      BY <1>2, <1>4, <3>1
    <3>3. rest[i] = all[j]
      BY <1>4, <2>2, <2>3, <3>1
    <3> QED BY <1>3, <3>2, <3>3
  <2> QED BY <1>4, <2>2, <2>4, <2>5
<1>7. rest = t
  BY <1>1, <1>6, SameSeq
<1> QED BY <1>1, <1>4, <1>5, <1>7

-----------------------------------------------------------------------------
(* The last of an interval, which a fold starts from. *)
LEMMA MaxOfInterval ==
  ASSUME NEW n \in Nat \ {0}
  PROVE  Max(1..n) = n
BY DEF Max

(* A set of numbers up to n has a greatest. *)
LEMMA MaxInside ==
  ASSUME NEW n \in Nat, NEW S \in SUBSET (1..n), S # {}
  PROVE  Max(S) \in S /\ \A x \in S : x <= Max(S)
<1> DEFINE A == {k \in Nat : \A U \in SUBSET (1..k) : U # {} => \E m \in U : \A x \in U : x <= m}
<1>1. 0 \in A
  <2>1. 1..0 = {}
    OBVIOUS
  <2>2. \A U \in SUBSET (1..0) : U = {}
    BY <2>1
  <2> QED BY <2>2
<1>2. ASSUME NEW k \in Nat, k \in A PROVE k + 1 \in A
  <2> SUFFICES ASSUME NEW U \in SUBSET (1..(k+1)), U # {} PROVE \E m \in U : \A x \in U : x <= m
    OBVIOUS
  <2>1. CASE k + 1 \in U
    BY <2>1
  <2>2. CASE k + 1 \notin U
    <3>1. U \subseteq 1..k
      BY <2>2
    <3> QED BY <1>2, <3>1
  <2> QED BY <2>1, <2>2
<1> HIDE DEF A
<1>3. n \in A
  BY <1>1, <1>2, SetInduction
<1>4. PICK m \in S : \A x \in S : x <= m
  BY <1>3 DEF A
<1> QED BY <1>4 DEF Max

(* And a least. *)
LEMMA MinInside ==
  ASSUME NEW n \in Nat, NEW S \in SUBSET (1..n), S # {}
  PROVE  Min(S) \in S /\ \A x \in S : Min(S) <= x
<1> DEFINE T == {n + 1 - x : x \in S}
<1>1. T \in SUBSET (1..n) /\ T # {}
  <2>1. \A x \in S : x \in 1..n /\ n + 1 - x \in 1..n
    OBVIOUS
  <2>2. PICK x \in S : TRUE
    OBVIOUS
  <2>3. n + 1 - x \in T
    OBVIOUS
  <2> QED BY <2>1, <2>3
<1>2. Max(T) \in T /\ \A x \in T : x <= Max(T)
  BY <1>1, MaxInside
<1>3. PICK k \in S : Max(T) = n + 1 - k
  BY <1>2
<1>4. ASSUME NEW x \in S PROVE k <= x
  <2>1. n + 1 - x <= Max(T)
    BY <1>2
  <2> HIDE DEF T
  <2> QED BY <1>3, <2>1
<1> QED BY <1>4 DEF Min

Step(iter, base, seq, s) ==
  IF s = {} THEN base ELSE Op(iter[s \ {Max(s)}], seq[Max(s)])

Iterates(g, base, seq, n) == g = [s \in SUBSET (1..n) |-> Step(g, base, seq, s)]

(* The function that the fold is defined as a choice of exists. *)
LEMMA FoldEquation ==
  ASSUME NEW n \in Nat, NEW base, NEW seq
  PROVE  \E g : Iterates(g, base, seq, n)
<1> DEFINE A == {k \in Nat : \E g : g = [s \in SUBSET (1..k) |-> Step(g, base, seq, s)]}
<1>1. 0 \in A
  <2> DEFINE g == [s \in SUBSET (1..0) |-> base]
  <2>1. \A s \in SUBSET (1..0) : s = {}
    OBVIOUS
  <2>2. g = [s \in SUBSET (1..0) |-> Step(g, base, seq, s)]
    BY <2>1 DEF Step
  <2> QED BY <2>2
<1>2. ASSUME NEW k \in Nat, k \in A PROVE k + 1 \in A
  <2>1. PICK g : g = [s \in SUBSET (1..k) |-> Step(g, base, seq, s)]
    BY <1>2
  <2> DEFINE h == [s \in SUBSET (1..(k+1)) |-> Step(g, base, seq, s)]
  <2>2. ASSUME NEW s \in SUBSET (1..(k+1)), s # {} PROVE s \ {Max(s)} \in SUBSET (1..k)
    <3>1. Max(s) \in s /\ \A x \in s : x <= Max(s)
      <4>1. k + 1 \in Nat
        OBVIOUS
      <4> HIDE DEF A
      <4> QED BY <2>2, <4>1, MaxInside
    <3>2. \A x \in s \ {Max(s)} : x \in 1..k
      <4> SUFFICES ASSUME NEW x \in s, x # Max(s) PROVE x \in 1..k
        OBVIOUS
      <4>1. x \in 1..(k+1) /\ Max(s) \in 1..(k+1) /\ x <= Max(s)
        BY <3>1
      <4> QED BY <4>1
    <3> QED BY <3>2
  <2>3. ASSUME NEW s \in SUBSET (1..k) PROVE g[s] = h[s]
    <3>1. s \in SUBSET (1..(k+1))
      OBVIOUS
    <3>2. g[s] = Step(g, base, seq, s)
      BY <2>1
    <3>3. h[s] = Step(g, base, seq, s)
      BY <3>1
    <3> QED BY <3>2, <3>3
  <2>4. ASSUME NEW s \in SUBSET (1..(k+1)) PROVE Step(g, base, seq, s) = Step(h, base, seq, s)
    <3>1. CASE s = {}
      BY <3>1 DEF Step
    <3>2. CASE s # {}
      <4>1. g[s \ {Max(s)}] = h[s \ {Max(s)}]
        BY <2>2, <2>3, <3>2
      <4> HIDE DEF h
      <4> QED BY <3>2, <4>1 DEF Step
    <3> QED BY <3>1, <3>2
  <2>5. h = [s \in SUBSET (1..(k+1)) |-> Step(h, base, seq, s)]
    <3> DEFINE hh == [s \in SUBSET (1..(k+1)) |-> Step(h, base, seq, s)]
    <3>1. DOMAIN h = DOMAIN hh /\ \A s \in DOMAIN h : h[s] = hh[s]
      BY <2>4
    <3> QED BY <2>4, Zenon
  <2> HIDE DEF h
  <2>6. \E f : f = [s \in SUBSET (1..(k+1)) |-> Step(f, base, seq, s)]
    BY <2>5
  <2> QED BY <2>6
<1> HIDE DEF A
<1> QED BY <1>1, <1>2, SetInduction DEF A, Iterates

Folded(base, seq) == FoldLeft(Op, base, seq)

Iterated(base, seq, n) == CHOOSE g : Iterates(g, base, seq, n)

(* The fold of a sequence is that function's value. *)
LEMMA FoldIs ==
  ASSUME NEW n \in Nat, NEW base, NEW seq, DOMAIN seq = 1..n
  PROVE  /\ Iterates(Iterated(base, seq, n), base, seq, n)
         /\ Folded(base, seq) = Iterated(base, seq, n)[1..n]
<1>1. Iterates(Iterated(base, seq, n), base, seq, n)
  BY FoldEquation, Zenon DEF Iterated
<1>2. Folded(base, seq) = Iterated(base, seq, n)[1..n]
  BY DEF Folded, FoldLeft, MapThenFoldSet, Step, Iterated, Iterates
<1> QED BY <1>1, <1>2

(* The states a fold goes through: from the base, by the operator, to its  *)
(* result.                                                                 *)
LEMMA FoldTrace ==
  ASSUME NEW n \in Nat, NEW base, NEW seq, DOMAIN seq = 1..n
  PROVE  \E h : /\ h[0] = base
                /\ \A i \in 1..n : h[i] = Op(h[i - 1], seq[i])
                /\ h[n] = Folded(base, seq)
<1> DEFINE g == Iterated(base, seq, n)
           h == [i \in 0..n |-> g[1..i]]
<1>1. g = [s \in SUBSET (1..n) |-> Step(g, base, seq, s)] /\ Folded(base, seq) = g[1..n]
  BY FoldIs DEF Iterates
<1> HIDE DEF g
<1>2. \A s \in SUBSET (1..n) : g[s] = Step(g, base, seq, s)
  BY <1>1
<1>3. h[0] = base
  <2>1. 1..0 = {} /\ 1..0 \in SUBSET (1..n)
    OBVIOUS
  <2>2. g[1..0] = base
    BY <1>2, <2>1 DEF Step
  <2> QED BY <2>2
<1>4. ASSUME NEW i \in 1..n PROVE h[i] = Op(h[i - 1], seq[i])
  <2>1. 1..i \in SUBSET (1..n) /\ i \in 1..i /\ (1..i) \ {i} = 1..(i-1)
    <3>1. \A x : x \in 1..i => x \in 1..n
      OBVIOUS
    <3>2. \A x : x \in (1..i) \ {i} <=> x \in 1..(i-1)
      OBVIOUS
    <3> QED BY <3>1, <3>2
  <2>2. Max(1..i) = i
    BY MaxOfInterval
  <2>3. g[1..i] = Op(g[1..(i-1)], seq[i])
    BY <1>2, <2>1, <2>2 DEF Step
  <2> QED BY <2>3
<1>5. h[n] = g[1..n]
  OBVIOUS
<1> HIDE DEF h
<1> QED BY <1>1, <1>3, <1>4, <1>5

(* The fold of nothing, of one element, and of one more.                   *)
LEMMA FoldOfNone ==
  ASSUME NEW base
  PROVE  Folded(base, <<>>) = base
<1>1. DOMAIN <<>> = 1..0
  OBVIOUS
<1>2. PICK h : h[0] = base /\ h[0] = Folded(base, <<>>)
  BY <1>1, FoldTrace
<1> QED BY <1>2

LEMMA FoldOfOne ==
  ASSUME NEW base, NEW e
  PROVE  Folded(base, <<e>>) = Op(base, e)
<1>1. DOMAIN <<e>> = 1..1 /\ <<e>>[1] = e
  OBVIOUS
<1> DEFINE seq == <<e>>
<1>2. seq[1] = e /\ DOMAIN seq = 1..1
  BY <1>1
<1> HIDE DEF seq
<1>3. PICK h : h[0] = base /\ (\A i \in 1..1 : h[i] = Op(h[i - 1], seq[i]))
               /\ h[1] = Folded(base, seq)
  BY <1>2, FoldTrace
<1>4. h[1] = Op(h[0], seq[1])
  BY <1>3
<1> QED BY <1>2, <1>3, <1>4 DEF seq

LEMMA FoldOfMore ==
  ASSUME NEW base, NEW seq, ASeq(seq), NEW e
  PROVE  Folded(base, Append(seq, e)) = Op(Folded(base, seq), e)
<1> DEFINE n == Len(seq)
           more == Append(seq, e)
<1>1. n \in Nat /\ DOMAIN seq = 1..n
  BY SeqLen
<1>2. DOMAIN more = 1..(n + 1) /\ more[n + 1] = e /\ \A i \in 1..n : more[i] = seq[i]
  BY SeqLen, Appended
<1> HIDE DEF n, more
<1>3. PICK g : /\ g[0] = base /\ g[n] = Folded(base, seq)
               /\ \A i \in 1..n : g[i] = Op(g[i - 1], seq[i])
  BY <1>1, FoldTrace
<1>4. PICK h : /\ h[0] = base /\ h[n + 1] = Folded(base, more)
               /\ \A i \in 1..(n + 1) : h[i] = Op(h[i - 1], more[i])
  <2> DEFINE m == n + 1
  <2>1. m \in Nat /\ DOMAIN more = 1..m
    BY <1>1, <1>2
  <2> HIDE DEF m
  <2>2. \E h : /\ h[0] = base
               /\ \A i \in 1..m : h[i] = Op(h[i - 1], more[i])
               /\ h[m] = Folded(base, more)
    BY <2>1, FoldTrace
  <2> QED BY <2>2 DEF m
<1> DEFINE A == {k \in Nat : k <= n => g[k] = h[k]}
<1>5. 0 \in A
  BY <1>3, <1>4
<1>6. ASSUME NEW k \in Nat, k \in A PROVE k + 1 \in A
  <2> SUFFICES ASSUME k + 1 <= n PROVE g[k + 1] = h[k + 1]
    OBVIOUS
  <2>1. k + 1 \in 1..n /\ k + 1 \in 1..(n + 1) /\ (k + 1) - 1 = k /\ g[k] = h[k]
    BY <1>1, <1>6
  <2>2. g[k + 1] = Op(g[k], seq[k + 1]) /\ h[k + 1] = Op(h[k], more[k + 1])
    BY <1>3, <1>4, <2>1
  <2> QED BY <1>2, <2>1, <2>2
<1> HIDE DEF A
<1>7. n \in A
  BY <1>1, <1>5, <1>6, SetInduction
<1>8. g[n] = h[n]
  BY <1>1, <1>7 DEF A
<1>9. h[n + 1] = Op(h[n], more[n + 1])
  <2>1. n + 1 \in 1..(n + 1) /\ (n + 1) - 1 = n
    BY <1>1
  <2> QED BY <1>4, <2>1
<1> QED BY <1>2, <1>3, <1>4, <1>8, <1>9 DEF more

-----------------------------------------------------------------------------
(* What FlattenSeq strings together. *)
FlatTo(g, seqs, i) == IF i = 1 THEN seqs[i] ELSE g[i - 1] \o seqs[i]

Flattens(g, seqs, n) == g = [i \in 1..n |-> FlatTo(g, seqs, i)]

(* The function FlattenSeq is defined by exists. *)
LEMMA FlattenEquation ==
  ASSUME NEW n \in Nat, NEW seqs
  PROVE  \E g : Flattens(g, seqs, n)
<1> DEFINE A == {k \in Nat : \E g : Flattens(g, seqs, k)}
<1>1. 0 \in A
  <2> DEFINE g == [i \in 1..0 |-> <<>>]
  <2>1. g = [i \in 1..0 |-> FlatTo(g, seqs, i)]
    OBVIOUS
  <2> QED BY <2>1 DEF Flattens
<1>2. ASSUME NEW k \in Nat, k \in A PROVE k + 1 \in A
  <2>1. PICK g : g = [i \in 1..k |-> FlatTo(g, seqs, i)]
    BY <1>2 DEF Flattens
  <2> DEFINE h == [i \in 1..(k + 1) |-> FlatTo(g, seqs, i)]
  <2>2. \A i \in 1..k : g[i] = FlatTo(g, seqs, i)
    BY <2>1
  <2>3. \A i \in 1..(k + 1) : h[i] = FlatTo(g, seqs, i)
    OBVIOUS
  <2>4. h = [i \in 1..(k + 1) |-> h[i]]
    OBVIOUS
  <2> HIDE DEF h
  <2>5. ASSUME NEW i \in 1..(k + 1) PROVE FlatTo(g, seqs, i) = FlatTo(h, seqs, i)
    <3>1. CASE i = 1
      BY <3>1 DEF FlatTo
    <3>2. CASE i # 1
      <4>1. i - 1 \in 1..k /\ i - 1 \in 1..(k + 1)
        BY <3>2
      <4>2. g[i - 1] = h[i - 1]
        BY <2>2, <2>3, <4>1
      <4> QED BY <3>2, <4>2 DEF FlatTo
    <3> QED BY <3>1, <3>2
  <2>6. h = [i \in 1..(k + 1) |-> FlatTo(h, seqs, i)]
    BY <2>3, <2>4, <2>5
  <2>7. Flattens(h, seqs, k + 1)
    BY <2>6 DEF Flattens
  <2> QED BY <2>7
<1> HIDE DEF A
<1> QED BY <1>1, <1>2, SetInduction DEF A

Flattening(seqs, n) == CHOOSE g : Flattens(g, seqs, n)

(* Sequences strung together are a sequence of what they hold. *)
LEMMA Flattened ==
  ASSUME NEW seqs, ASeq(seqs), \A i \in DOMAIN seqs : ASeq(seqs[i])
  PROVE  /\ ASeq(FlattenSeq(seqs))
         /\ \A k \in DOMAIN FlattenSeq(seqs) :
              \E i \in DOMAIN seqs : \E j \in DOMAIN seqs[i] : FlattenSeq(seqs)[k] = seqs[i][j]
<1>1. CASE Len(seqs) = 0
  <2>1. FlattenSeq(seqs) = seqs /\ DOMAIN seqs = {}
    BY <1>1, SeqLen DEF FlattenSeq
  <2> QED BY <2>1
<1>2. CASE Len(seqs) # 0
  <2> DEFINE n == Len(seqs)
             g == Flattening(seqs, n)
  <2>1. n \in Nat \ {0} /\ DOMAIN seqs = 1..n
    BY <1>2, SeqLen
  <2>2. FlattenSeq(seqs) = g[n]
    BY <1>2, Zenon DEF FlattenSeq, Flattening, Flattens, FlatTo
  <2>3. Flattens(g, seqs, n)
    BY <2>1, FlattenEquation, Zenon DEF Flattening
  <2> HIDE DEF n, g
  <2>4. \A i \in 1..n : g[i] = IF i = 1 THEN seqs[i] ELSE g[i - 1] \o seqs[i]
    BY <2>3 DEF Flattens, FlatTo
  <2> DEFINE From(s) == \A k \in DOMAIN s :
               \E i \in DOMAIN seqs : \E j \in DOMAIN seqs[i] : s[k] = seqs[i][j]
             A == {k \in Nat : k + 1 \in 1..n => ASeq(g[k + 1]) /\ From(g[k + 1])}
  <2>5. 0 \in A
    <3>1. g[1] = seqs[1] /\ 1 \in DOMAIN seqs
      BY <2>1, <2>4
    <3> QED BY <3>1
  <2>6. ASSUME NEW k \in Nat, k \in A PROVE k + 1 \in A
    <3> SUFFICES ASSUME k + 2 \in 1..n PROVE ASeq(g[k + 2]) /\ From(g[k + 2])
      BY <2>1
    <3>1. k + 1 \in 1..n /\ k + 2 # 1 /\ (k + 2) - 1 = k + 1
      BY <2>1
    <3>2. g[k + 2] = g[k + 1] \o seqs[k + 2]
      BY <2>4, <3>1
    <3>3. ASeq(g[k + 1]) /\ From(g[k + 1]) /\ ASeq(seqs[k + 2])
      BY <2>1, <2>6, <3>1
    <3> DEFINE s == g[k + 1]
               t == seqs[k + 2]
    <3>4. /\ ASeq(s \o t) /\ DOMAIN (s \o t) = 1..(Len(s) + Len(t))
          /\ \A i \in 1..(Len(s) + Len(t)) :
               (s \o t)[i] = IF i <= Len(s) THEN s[i] ELSE t[i - Len(s)]
      BY <3>3, Concatenated, SeqLen
    <3>5. /\ Len(s) \in Nat /\ DOMAIN s = 1..Len(s) /\ Len(t) \in Nat /\ DOMAIN t = 1..Len(t)
      BY <3>3, SeqLen
    <3> DEFINE st == s \o t
    <3> HIDE DEF s, t, st
    <3>6. ASSUME NEW m \in DOMAIN st
          PROVE  \E i \in DOMAIN seqs : \E j \in DOMAIN seqs[i] : st[m] = seqs[i][j]
      <4>1. CASE m <= Len(s)
        <5>1. m \in DOMAIN s /\ st[m] = s[m]
          BY <3>4, <3>5, <3>6, <4>1 DEF st
        <5> QED BY <3>3, <5>1 DEF s
      <4>2. CASE ~(m <= Len(s))
        <5>1. m - Len(s) \in DOMAIN t /\ st[m] = t[m - Len(s)]
          BY <3>4, <3>5, <3>6, <4>2 DEF st
        <5> QED BY <2>1, <5>1 DEF t
      <4> QED BY <4>1, <4>2
    <3>7. ASeq(st) /\ From(st) /\ g[k + 2] = st
      BY <3>2, <3>4, <3>6 DEF st, s, t
    <3> QED BY <3>7
  <2> HIDE DEF A
  <2>7. n - 1 \in A
    BY <2>1, <2>5, <2>6, SetInduction
  <2>8. ASeq(g[n]) /\ From(g[n])
    BY <2>1, <2>7 DEF A
  <2> QED BY <2>2, <2>8
<1> QED BY <1>1, <1>2

(* One sequence more is strung to the end, and what is strung together of  *)
(* two parts is the one after the other.                                   *)
LEMMA FlattenOfSome ==
  ASSUME NEW seqs, ASeq(seqs), Len(seqs) # 0
  PROVE  /\ FlattenSeq(seqs) = Flattening(seqs, Len(seqs))[Len(seqs)]
         /\ \A i \in 1..Len(seqs) :
              Flattening(seqs, Len(seqs))[i] = FlatTo(Flattening(seqs, Len(seqs)), seqs, i)
<1> DEFINE n == Len(seqs)
<1>1. n \in Nat
  BY SeqLen
<1>2. FlattenSeq(seqs) = Flattening(seqs, n)[n]
  BY Zenon DEF FlattenSeq, Flattening, Flattens, FlatTo
<1> HIDE DEF n
<1>3. Flattens(Flattening(seqs, n), seqs, n)
  BY <1>1, FlattenEquation, Zenon DEF Flattening
<1>4. \A i \in 1..n : Flattening(seqs, n)[i] = FlatTo(Flattening(seqs, n), seqs, i)
  BY <1>3 DEF Flattens
<1> QED BY <1>2, <1>4 DEF n

LEMMA FlattenOfNone == FlattenSeq(<<>>) = <<>>
BY EmptyIsASeq DEF FlattenSeq

LEMMA FlattenOfMore ==
  ASSUME NEW seqs, ASeq(seqs), NEW t, ASeq(t)
  PROVE  FlattenSeq(Append(seqs, t)) = FlattenSeq(seqs) \o t
<1> DEFINE n == Len(seqs)
           more == Append(seqs, t)
           h == Flattening(more, n + 1)
           g == Flattening(seqs, n)
<1>1. /\ ASeq(more) /\ Len(more) = n + 1 /\ n \in Nat
      /\ more[n + 1] = t /\ \A i \in 1..n : more[i] = seqs[i]
  BY Appended, SeqLen
<1>2. /\ FlattenSeq(more) = h[n + 1]
      /\ \A i \in 1..(n + 1) : h[i] = FlatTo(h, more, i)
  <2> HIDE DEF n, more
  <2>1. Len(more) # 0
    BY <1>1
  <2> QED BY <1>1, <2>1, FlattenOfSome
<1>3. CASE n = 0
  <2> HIDE DEF h, more
  <2>1. h[1] = t
    BY <1>1, <1>2, <1>3 DEF FlatTo
  <2>2. seqs = <<>>
    BY <1>3, NoLength
  <2>3. FlattenSeq(seqs) = <<>>
    BY <2>2, FlattenOfNone
  <2> QED BY <1>2, <1>3, <2>1, <2>3, NothingAdded DEF more
<1>4. CASE n # 0
  <2>1. FlattenSeq(seqs) = g[n] /\ \A i \in 1..n : g[i] = FlatTo(g, seqs, i)
    BY <1>4, FlattenOfSome
  <2> HIDE DEF n, more, g, h
  <2> DEFINE A == {k \in Nat : k + 1 <= n => g[k + 1] = h[k + 1]}
  <2>2. 0 \in A
    <3>1. 1 \in 1..n /\ 1 \in 1..(n + 1)
      BY <1>1, <1>4
    <3>2. g[1] = seqs[1] /\ h[1] = more[1]
      BY <1>2, <2>1, <3>1 DEF FlatTo
    <3> QED BY <1>1, <3>1, <3>2
  <2>3. ASSUME NEW k \in Nat, k \in A PROVE k + 1 \in A
    <3> SUFFICES ASSUME k + 2 <= n PROVE g[k + 2] = h[k + 2]
      OBVIOUS
    <3>1. k + 2 \in 1..n /\ k + 2 \in 1..(n + 1) /\ (k + 2) - 1 = k + 1 /\ k + 2 # 1
      BY <1>1
    <3>2. g[k + 1] = h[k + 1]
      BY <1>1, <2>3
    <3>3. g[k + 2] = g[k + 1] \o seqs[k + 2] /\ h[k + 2] = h[k + 1] \o more[k + 2]
      BY <1>2, <2>1, <3>1 DEF FlatTo
    <3> QED BY <1>1, <3>1, <3>2, <3>3
  <2> HIDE DEF A
  <2>4. n - 1 \in A
    BY <1>1, <1>4, <2>2, <2>3, SetInduction
  <2>5. g[n] = h[n]
    BY <1>1, <1>4, <2>4 DEF A
  <2>6. h[n + 1] = h[n] \o more[n + 1]
    <3>1. n + 1 \in 1..(n + 1) /\ (n + 1) - 1 = n /\ n + 1 # 1
      BY <1>1, <1>4
    <3> QED BY <1>2, <3>1 DEF FlatTo
  <2> QED BY <1>1, <1>2, <2>1, <2>5, <2>6 DEF more
<1> QED BY <1>3, <1>4

LEMMA Reassociated ==
  ASSUME NEW s, NEW t, NEW u, ASeq(s), ASeq(t), ASeq(u)
  PROVE  (s \o t) \o u = s \o (t \o u)
<1> DEFINE S == {s[i] : i \in DOMAIN s} \cup {t[i] : i \in DOMAIN t}
                \cup {u[i] : i \in DOMAIN u}
<1>1. s \in Seq(S) /\ t \in Seq(S) /\ u \in Seq(S)
  BY SeqMonotonic DEF ASeq
<1> HIDE DEF S
<1> QED BY <1>1, ConcatAssociative

LEMMA FlattenOfParts ==
  ASSUME NEW seqs, ASeq(seqs), \A i \in DOMAIN seqs : ASeq(seqs[i]),
         NEW m \in Nat, NEW k \in Nat, m + k <= Len(seqs)
  PROVE  FlattenSeq(SubSeq(seqs, 1, m + k))
           = FlattenSeq(SubSeq(seqs, 1, m)) \o FlattenSeq(SubSeq(seqs, m + 1, m + k))
<1> DEFINE First(j) == FlattenSeq(SubSeq(seqs, 1, j))
           Then(j) == FlattenSeq(SubSeq(seqs, m + 1, m + j))
           A == {j \in Nat : m + j <= Len(seqs) =>
                   /\ ASeq(Then(j)) /\ First(m + j) = First(m) \o Then(j)}
<1>1. Len(seqs) \in Nat /\ DOMAIN seqs = 1..Len(seqs)
  BY SeqLen
<1>2. ASSUME NEW j \in Nat, NEW i \in Nat \ {0}, j <= Len(seqs)
      PROVE  ASeq(SubSeq(seqs, i, j)) /\ ASeq(FlattenSeq(SubSeq(seqs, i, j)))
  <2> DEFINE s == SubSeq(seqs, i, j)
  <2>1. /\ ASeq(s) /\ Len(s) = IF i <= j THEN j - i + 1 ELSE 0
        /\ \A l \in 1..(j - i + 1) : s[l] = seqs[i + l - 1]
    BY <1>2, Sliced
  <2> HIDE DEF s
  <2>2. DOMAIN s = 1..Len(s)
    BY <2>1, SeqLen
  <2>3. ASSUME NEW l \in DOMAIN s PROVE ASeq(s[l])
    <3>1. l \in 1..(j - i + 1) /\ i + l - 1 \in DOMAIN seqs
      BY <1>1, <1>2, <2>1, <2>2
    <3> QED BY <2>1, <3>1
  <2>4. ASeq(FlattenSeq(s))
    BY <2>1, <2>3, Flattened
  <2> QED BY <2>1, <2>4 DEF s
<1>3. ASSUME NEW i \in Nat \ {0}, NEW j \in Nat, i <= j + 1, j + 1 <= Len(seqs)
      PROVE  /\ SubSeq(seqs, i, j + 1) = Append(SubSeq(seqs, i, j), seqs[j + 1])
             /\ FlattenSeq(SubSeq(seqs, i, j + 1))
                  = FlattenSeq(SubSeq(seqs, i, j)) \o seqs[j + 1]
  <2> DEFINE s == SubSeq(seqs, i, j)
             t == SubSeq(seqs, i, j + 1)
             u == Append(s, seqs[j + 1])
  <2>1. /\ ASeq(s) /\ Len(s) = j - i + 1
        /\ \A l \in 1..(j - i + 1) : s[l] = seqs[i + l - 1]
    BY <1>1, <1>3, Sliced
  <2>2. /\ ASeq(t) /\ Len(t) = j - i + 2
        /\ \A l \in 1..(j - i + 2) : t[l] = seqs[i + l - 1]
    BY <1>1, <1>3, Sliced
  <2> HIDE DEF s, t
  <2>3. /\ ASeq(u) /\ Len(u) = Len(s) + 1
        /\ \A l \in 1..Len(s) : u[l] = s[l]
        /\ u[Len(s) + 1] = seqs[j + 1]
    BY <2>1, Appended
  <2> HIDE DEF u
  <2>4. t = u
    <3>1. ASSUME NEW l \in 1..(j - i + 2) PROVE t[l] = u[l]
      <4>1. CASE l = j - i + 2
        <5>1. l = Len(s) + 1 /\ i + l - 1 = j + 1
          BY <1>3, <2>1, <4>1
        <5> QED BY <2>2, <2>3, <5>1
      <4>2. CASE l # j - i + 2
        <5>1. l \in 1..(j - i + 1) /\ l \in 1..Len(s)
          BY <1>3, <2>1, <4>2
        <5> QED BY <2>1, <2>2, <2>3, <5>1
      <4> QED BY <4>1, <4>2
    <3>2. Len(t) = Len(u)
      BY <2>1, <2>2, <2>3, <1>3
    <3>3. PICK S : t \in Seq(S) /\ u \in Seq(S)
      BY <2>2, <2>3, Widened
    <3> QED BY <2>2, <3>1, <3>2, <3>3, SeqEqual
  <2>5. ASeq(seqs[j + 1])
    BY <1>1, <1>3
  <2>6. FlattenSeq(u) = FlattenSeq(s) \o seqs[j + 1]
    BY <2>1, <2>5, FlattenOfMore DEF u
  <2> QED BY <2>4, <2>6 DEF s, t, u
<1>4. 0 \in A
  <2> SUFFICES ASSUME m + 0 <= Len(seqs)
               PROVE ASeq(Then(0)) /\ First(m + 0) = First(m) \o Then(0)
    OBVIOUS
  <2>1. m <= Len(seqs) /\ m + 0 = m /\ m + 1 \in Nat \ {0} /\ 1 \in Nat \ {0}
    OBVIOUS
  <2>2. SubSeq(seqs, m + 1, m) = <<>>
    <3>1. ASeq(SubSeq(seqs, m + 1, m)) /\ Len(SubSeq(seqs, m + 1, m)) = 0
      BY <2>1, Sliced
    <3> QED BY <3>1, NoLength
  <2>3. ASeq(First(m))
    BY <1>2, <2>1
  <2>4. Then(0) = <<>>
    BY <2>1, <2>2, FlattenOfNone
  <2> HIDE DEF First, Then
  <2> QED BY <2>1, <2>3, <2>4, NothingAdded, EmptyIsASeq
<1>5. ASSUME NEW j \in Nat, j \in A PROVE j + 1 \in A
  <2> SUFFICES ASSUME m + (j + 1) <= Len(seqs)
               PROVE ASeq(Then(j + 1)) /\ First(m + (j + 1)) = First(m) \o Then(j + 1)
    OBVIOUS
  <2> DEFINE x == seqs[m + j + 1]
  <2>1. /\ m + j \in Nat /\ m + j <= Len(seqs) /\ m + (j + 1) = (m + j) + 1
        /\ m + 1 \in Nat \ {0} /\ 1 \in Nat \ {0} /\ 1 <= (m + j) + 1
        /\ m + 1 <= (m + j) + 1 /\ (m + j) + 1 <= Len(seqs) /\ m <= Len(seqs)
        /\ m + j + 1 \in DOMAIN seqs /\ m + j + 1 = (m + j) + 1
    BY <1>1
  <2>2. First(m + j + 1) = First(m + j) \o x
    BY <1>3, <2>1
  <2>3. Then(j + 1) = Then(j) \o x
    BY <1>3, <2>1
  <2>4. First(m + j) = First(m) \o Then(j)
    BY <1>5, <2>1
  <2>5. ASeq(First(m)) /\ ASeq(Then(j)) /\ ASeq(x)
    BY <1>2, <2>1
  <2>6. First(m + (j + 1)) = First(m + j + 1)
    <3>1. m + (j + 1) = m + j + 1
      OBVIOUS
    <3> QED BY <3>1
  <2> HIDE DEF First, Then, x
  <2>7. ASeq(Then(j + 1))
    BY <2>3, <2>5, Concatenated
  <2>8. (First(m) \o Then(j)) \o x = First(m) \o (Then(j) \o x)
    <3>1. PICK p, q, r : p = First(m) /\ q = Then(j) /\ r = x
      OBVIOUS
    <3>2. ASeq(p) /\ ASeq(q) /\ ASeq(r)
      BY <2>5, <3>1
    <3>3. (p \o q) \o r = p \o (q \o r)
      BY <3>2, Reassociated
    <3> QED BY <3>1, <3>3, Zenon
  <2>9. First(m + (j + 1)) = First(m) \o Then(j + 1)
    BY <2>2, <2>3, <2>4, <2>6, <2>8, Zenon
  <2> QED BY <2>7, <2>9, Zenon
<1> HIDE DEF A
<1>6. k \in A
  BY <1>4, <1>5, SetInduction
<1> QED BY <1>6 DEF A

(* Two after one another, flattened. *)
LEMMA FlattenOfBoth ==
  ASSUME NEW s, NEW t, ASeq(s), ASeq(t), \A i \in DOMAIN s : ASeq(s[i]),
         \A i \in DOMAIN t : ASeq(t[i])
  PROVE  FlattenSeq(s \o t) = FlattenSeq(s) \o FlattenSeq(t)
<1>1. PICK n, m, all : n = Len(s) /\ m = Len(t) /\ all = s \o t
  OBVIOUS
<1>2. n \in Nat /\ m \in Nat /\ DOMAIN s = 1..n /\ DOMAIN t = 1..m
  BY <1>1, SeqLen
<1>3. /\ ASeq(all) /\ Len(all) = n + m
      /\ \A i \in 1..(n + m) : all[i] = IF i <= n THEN s[i] ELSE t[i - n]
  BY <1>1, Concatenated
<1>4. \A i \in DOMAIN all : ASeq(all[i])
  <2>1. DOMAIN all = 1..(n + m)
    BY <1>3, SeqLen
  <2>2. ASSUME NEW i \in 1..(n + m) PROVE ASeq(all[i])
    <3>1. CASE i <= n
      BY <1>2, <1>3, <3>1
    <3>2. CASE ~(i <= n)
      <4>1. i - n \in 1..m
        BY <1>2, <3>2
      <4> QED BY <1>2, <1>3, <3>2, <4>1
    <3> QED BY <3>1, <3>2
  <2> QED BY <2>1, <2>2
<1>5. FlattenSeq(SubSeq(all, 1, n + m))
        = FlattenSeq(SubSeq(all, 1, n)) \o FlattenSeq(SubSeq(all, n + 1, n + m))
  <2>1. n + m <= Len(all)
    BY <1>2, <1>3
  <2> QED BY Zenon, <1>2, <1>3, <1>4, <2>1, FlattenOfParts
<1>6. SubSeq(all, 1, n) = s /\ SubSeq(all, n + 1, n + m) = t
  BY <1>1, SlicesOfBoth
<1>7. PICK k : k = n + m
  OBVIOUS
<1>8. SubSeq(all, 1, k) = all
  BY <1>2, <1>3, <1>7, StartOf
<1> QED BY <1>1, <1>5, <1>6, <1>7, <1>8
-----------------------------------------------------------------------------
(* Induction, over the size of the finite subsets of a set.                *)
LEMMA SubsetInduction ==
  ASSUME NEW S, IsFiniteSet(S), NEW Good, {} \in Good,
         \A s \in SUBSET S : \A x \in S \ s : s \in Good => s \cup {x} \in Good
  PROVE  SUBSET S \subseteq Good
<1> DEFINE A == {n \in Nat : \A s \in SUBSET S : Cardinality(s) = n => s \in Good}
<1>1. \A s \in SUBSET S : IsFiniteSet(s) /\ Cardinality(s) \in Nat
  BY FS_Subset, FS_CardinalityType
<1>2. 0 \in A
  BY <1>1, FS_EmptySet
<1>3. ASSUME NEW n \in Nat, n \in A PROVE n + 1 \in A
  <2> SUFFICES ASSUME NEW s \in SUBSET S, Cardinality(s) = n + 1 PROVE s \in Good
    OBVIOUS
  <2>1. PICK x \in s : TRUE
    BY <1>1, FS_EmptySet
  <2>2. Cardinality(s \ {x}) = n
    <3>1. Cardinality(s \ {x}) = Cardinality(s) - 1
      BY <1>1, <2>1, FS_RemoveElement
    <3> QED BY <3>1
  <2>3. s \ {x} \in SUBSET S /\ x \in S \ (s \ {x}) /\ (s \ {x}) \cup {x} = s
    BY <2>1
  <2>4. s \ {x} \in Good
    BY <1>3, <2>2, <2>3
  <2> QED BY <2>3, <2>4
<1> HIDE DEF A
<1>4. Nat \subseteq A
  BY <1>2, <1>3, SetInduction
<1> QED BY <1>1, <1>4 DEF A

-----------------------------------------------------------------------------
(* What MapThenSumSet adds up, of the numbers f gives the elements of S.   *)
SumStep(g, f, s) ==
  IF s = {} THEN 0 ELSE f[CHOOSE x \in s : TRUE] + g[s \ {CHOOSE x \in s : TRUE}]

Numbers(f, S) == \A x \in S : f[x] \in Nat

Sums(g, f, S) == g = [s \in SUBSET S |-> SumStep(g, f, s)]

(* The function the sum is defined as a choice of exists. *)
LEMMA SumEquation ==
  ASSUME NEW S, IsFiniteSet(S), NEW f
  PROVE  \E g : Sums(g, f, S)
<1> DEFINE Small(k) == {s \in SUBSET S : Cardinality(s) <= k}
           Reached(k) == \E g : g = [s \in Small(k) |-> SumStep(g, f, s)]
           A == {k \in Nat : Reached(k)}
<1>1. \A s \in SUBSET S : IsFiniteSet(s) /\ Cardinality(s) \in Nat
  BY FS_Subset, FS_CardinalityType
<1>2. 0 \in A
  <2> DEFINE g == [s \in Small(0) |-> 0]
  <2>1. \A s \in Small(0) : s = {}
    BY <1>1, FS_EmptySet
  <2>2. g = [s \in Small(0) |-> SumStep(g, f, s)]
    BY <2>1 DEF SumStep
  <2> HIDE DEF g
  <2>3. \E k : k = [s \in Small(0) |-> SumStep(k, f, s)]
    BY <2>2
  <2> QED BY <2>3
<1>3. ASSUME NEW k \in Nat, k \in A PROVE k + 1 \in A
  <2>1. PICK g : g = [s \in Small(k) |-> SumStep(g, f, s)]
    BY <1>3
  <2> DEFINE h == [s \in Small(k + 1) |-> SumStep(g, f, s)]
  <2>2. ASSUME NEW s \in Small(k + 1), s # {}
        PROVE  s \ {CHOOSE x \in s : TRUE} \in Small(k)
    <3> DEFINE c == CHOOSE x \in s : TRUE
    <3>1. c \in s
      BY <2>2
    <3> HIDE DEF c
    <3>2. Cardinality(s \ {c}) = Cardinality(s) - 1
      BY <1>1, <3>1, FS_RemoveElement
    <3>3. s \ {c} \in Small(k)
      BY <1>1, <3>2
    <3> QED BY <3>3 DEF c
  <2>3. ASSUME NEW s \in Small(k) PROVE g[s] = h[s]
    <3>1. s \in Small(k + 1)
      BY <1>1
    <3>2. g[s] = SumStep(g, f, s)
      BY <2>1
    <3>3. h[s] = SumStep(g, f, s)
      BY <3>1
    <3> QED BY <3>2, <3>3
  <2>4. ASSUME NEW s \in Small(k + 1) PROVE SumStep(g, f, s) = SumStep(h, f, s)
    <3>1. CASE s = {}
      BY <3>1 DEF SumStep
    <3>2. CASE s # {}
      <4>1. g[s \ {CHOOSE x \in s : TRUE}] = h[s \ {CHOOSE x \in s : TRUE}]
        BY <2>2, <2>3, <3>2
      <4> HIDE DEF h
      <4> QED BY <3>2, <4>1 DEF SumStep
    <3> QED BY <3>1, <3>2
  <2>5. h = [s \in Small(k + 1) |-> SumStep(h, f, s)]
    BY <2>4, Zenon
  <2> HIDE DEF h
  <2>6. Reached(k + 1)
    BY <2>5
  <2> HIDE DEF Reached
  <2> QED BY <2>6
<1> HIDE DEF A
<1>4. Cardinality(S) \in A
  BY <1>1, <1>2, <1>3, SetInduction
<1>5. Small(Cardinality(S)) = SUBSET S
  BY FS_Subset
<1> QED BY <1>4, <1>5 DEF A, Sums

Added(g, f, S) ==
  /\ g[{}] = 0
  /\ \A s \in SUBSET S : g[s] \in Nat /\ \A x \in s : g[s] = f[x] + g[s \ {x}]

(* It adds one element to the sum of the others, whichever it is. *)
LEMMA SumOfMore ==
  ASSUME NEW S, IsFiniteSet(S), NEW f, Numbers(f, S), NEW g, Sums(g, f, S)
  PROVE  Added(g, f, S)
<1>0. \A x \in S : f[x] \in Nat
  BY DEF Numbers
<1> DEFINE Adds(s) == g[s] \in Nat /\ \A x \in s : g[s] = f[x] + g[s \ {x}]
           UpTo(n) == \A s \in SUBSET S : Cardinality(s) <= n => Adds(s)
           A == {n \in Nat : UpTo(n)}
<1>1. \A s \in SUBSET S : IsFiniteSet(s) /\ Cardinality(s) \in Nat
  BY FS_Subset, FS_CardinalityType
<1>2. \A s \in SUBSET S : g[s] = SumStep(g, f, s)
  BY DEF Sums
<1>3. g[{}] = 0
  BY <1>2 DEF SumStep
<1>4. UpTo(0)
  <2>1. \A s \in SUBSET S : Cardinality(s) <= 0 => s = {}
    BY <1>1, FS_EmptySet
  <2>2. Adds({})
    BY <1>3
  <2> HIDE DEF Adds
  <2> QED BY <2>1, <2>2
<1>5. ASSUME NEW n \in Nat, UpTo(n) PROVE UpTo(n + 1)
  <2> SUFFICES ASSUME NEW s \in SUBSET S, Cardinality(s) <= n + 1 PROVE Adds(s)
    OBVIOUS
  <2>a. CASE s = {}
    BY <1>3, <2>a
  <2>b. SUFFICES ASSUME s # {} PROVE Adds(s)
    BY <2>a
  <2> DEFINE c == CHOOSE x \in s : TRUE
  <2>1. c \in s /\ g[s] = f[c] + g[s \ {c}]
    BY <1>2, <2>b DEF SumStep
  <2> HIDE DEF c
  <2>2. \A x \in s : s \ {x} \in SUBSET S /\ Cardinality(s \ {x}) <= n
    <3> SUFFICES ASSUME NEW x \in s PROVE Cardinality(s \ {x}) <= n
      OBVIOUS
    <3>1. Cardinality(s \ {x}) = Cardinality(s) - 1
      BY <1>1, FS_RemoveElement
    <3> QED BY <1>1, <3>1
  <2>3. \A x \in s : Adds(s \ {x})
    BY <1>5, <2>2
  <2>4. g[s] \in Nat
    <3>1. g[s \ {c}] \in Nat /\ f[c] \in Nat
      BY <1>0, <2>1, <2>3
    <3> QED BY <2>1, <3>1
  <2>5. ASSUME NEW x \in s PROVE g[s] = f[x] + g[s \ {x}]
    <3>1. CASE x = c
      BY <2>1, <3>1
    <3>2. CASE x # c
      <4>1. g[s \ {c}] = f[x] + g[(s \ {c}) \ {x}] /\ g[s \ {x}] = f[c] + g[(s \ {x}) \ {c}]
        BY <2>1, <2>3, <3>2
      <4>2. (s \ {c}) \ {x} = (s \ {x}) \ {c}
        OBVIOUS
      <4>3. (s \ {c}) \ {x} \in SUBSET S /\ Cardinality((s \ {c}) \ {x}) <= n
        <5>1. s \ {c} \in SUBSET S /\ (s \ {c}) \ {x} \in SUBSET (s \ {c})
          OBVIOUS
        <5>2. Cardinality((s \ {c}) \ {x}) <= Cardinality(s \ {c})
          BY <1>1, <5>1, FS_Subset
        <5>3. (s \ {c}) \ {x} \in SUBSET S
          OBVIOUS
        <5> QED BY <1>1, <2>1, <2>2, <5>1, <5>2, <5>3
      <4>4. g[(s \ {c}) \ {x}] \in Nat /\ f[c] \in Nat /\ f[x] \in Nat
        BY <1>0, <1>5, <2>1, <4>3
      <4> DEFINE rest == g[(s \ {c}) \ {x}]
      <4>5. g[s \ {c}] = f[x] + rest /\ g[s \ {x}] = f[c] + rest /\ rest \in Nat
        BY <4>1, <4>2, <4>4
      <4> HIDE DEF rest
      <4>6. g[s] = f[c] + (f[x] + rest)
        BY <2>1, <4>5
      <4> QED BY <4>4, <4>5, <4>6
    <3> QED BY <3>1, <3>2
  <2> QED BY <2>4, <2>5
<1>6. Cardinality(S) \in Nat /\ \A s \in SUBSET S : Cardinality(s) <= Cardinality(S)
  BY <1>1, FS_Subset
<1>7. UpTo(Cardinality(S))
  <2> HIDE DEF UpTo
  <2>1. 0 \in A /\ \A n \in Nat : n \in A => n + 1 \in A
    BY <1>4, <1>5
  <2> HIDE DEF A
  <2>2. Cardinality(S) \in A
    BY <1>6, <2>1, SetInduction
  <2> QED BY <2>2 DEF A
<1> QED BY <1>3, <1>6, <1>7 DEF Added

(* The sum of two sets that share nothing is the sum of their sums. *)
LEMMA SumOfBoth ==
  ASSUME NEW S, IsFiniteSet(S), NEW f, Numbers(f, S), NEW g, Sums(g, f, S),
         NEW s \in SUBSET S, NEW t \in SUBSET S, s \cap t = {}
  PROVE  g[s \cup t] = g[s] + g[t]
<1> DEFINE Good == {u \in SUBSET S : s \cap u = {} => g[s \cup u] = g[s] + g[u]}
<1>1. Added(g, f, S)
  BY SumOfMore
<1>2. /\ g[{}] = 0 /\ \A u \in SUBSET S : g[u] \in Nat
      /\ \A u \in SUBSET S : \A x \in u : g[u] = f[x] + g[u \ {x}]
  BY <1>1 DEF Added
<1>3. {} \in Good
  <2>1. s \cup {} = s
    OBVIOUS
  <2> QED BY <1>2, <2>1
<1>4. ASSUME NEW u \in SUBSET S, NEW x \in S \ u, u \in Good PROVE u \cup {x} \in Good
  <2> SUFFICES ASSUME s \cap (u \cup {x}) = {}
               PROVE  g[s \cup (u \cup {x})] = g[s] + g[u \cup {x}]
    OBVIOUS
  <2>1. (s \cup (u \cup {x})) \ {x} = s \cup u /\ (u \cup {x}) \ {x} = u
    BY <1>4
  <2>2. g[s \cup (u \cup {x})] = f[x] + g[s \cup u]
    <3>1. s \cup (u \cup {x}) \in SUBSET S /\ x \in s \cup (u \cup {x})
      OBVIOUS
    <3> QED BY <1>2, <2>1, <3>1
  <2>3. g[u \cup {x}] = f[x] + g[u]
    <3>1. u \cup {x} \in SUBSET S /\ x \in u \cup {x}
      OBVIOUS
    <3> QED BY <1>2, <2>1, <3>1
  <2>4. g[s \cup u] = g[s] + g[u]
    BY <1>4
  <2>5. f[x] \in Nat /\ g[s] \in Nat /\ g[u] \in Nat
    BY <1>2 DEF Numbers
  <2> HIDE DEF Good
  <2> QED BY <2>2, <2>3, <2>4, <2>5
<1> HIDE DEF Good
<1>5. t \in Good
  BY <1>3, <1>4, SubsetInduction
<1> QED BY <1>5 DEF Good
=============================================================================
