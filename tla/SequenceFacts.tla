---------------------------- MODULE SequenceFacts ----------------------------
(***************************************************************************)
(* What the proofs about queues and lists need beyond SequenceTheorems:    *)
(* induction over the natural numbers, stated for a set so that a prover   *)
(* can use it, and how a queue's two ends move when it is seen in two      *)
(* parts.                                                                  *)
(***************************************************************************)
EXTENDS Integers, SequencesExt, SequenceTheorems, WellFoundedInduction, TLAPS

(* A set that has 0, and n + 1 with every n, has every number: otherwise    *)
(* there would be a smallest one it lacks.                                  *)
LEMMA SetInduction ==
    ASSUME NEW S, 0 \in S, \A n \in Nat : n \in S => n + 1 \in S
    PROVE  Nat \subseteq S
<1> DEFINE T == Nat \ S
           R == OpToRel(<, Nat)
<1>1. SUFFICES ASSUME T # {} PROVE FALSE
    OBVIOUS
<1>2. PICK x \in T : \A y \in T : <<y, x>> \notin R
    <2>1. IsWellFoundedOn(R, Nat)
        BY NatLessThanWellFounded
    <2> HIDE DEF R
    <2>2. QED
        BY <2>1, <1>1, WFMin
<1>3. x # 0 /\ x \in Nat /\ x - 1 \in Nat
    OBVIOUS
<1>4. <<x - 1, x>> \in R
    BY <1>3 DEF OpToRel
<1>5. x - 1 \in S
    BY <1>2, <1>3, <1>4
<1>6. QED
    BY <1>3, <1>5

-----------------------------------------------------------------------------
LEMMA SubSeqTyped ==
    ASSUME NEW S, NEW q \in Seq(S), NEW a \in Nat \ {0}, NEW b \in 0..Len(q)
    PROVE  SubSeq(q, a, b) \in Seq(S)
<1>1. \A i \in a..b : q[i] \in S
    BY ElementOfSeq, LenProperties
<1>2. a \in Int /\ b \in Int
    BY LenProperties
<1>3. QED
    BY <1>1, <1>2, SubSeqProperties

LEMMA AppendToSecond ==
    ASSUME NEW S, NEW a \in Seq(S), NEW b \in Seq(S), NEW m \in S
    PROVE  a \o Append(b, m) = Append(a \o b, m)
<1>1. <<m>> \in Seq(S)
    OBVIOUS
<1>2. Append(b, m) = b \o <<m>> /\ Append(a \o b, m) = (a \o b) \o <<m>>
    BY AppendIsConcat, ConcatProperties
<1>3. QED
    BY <1>1, <1>2, ConcatAssociative

LEMMA HeadOfFirst ==
    ASSUME NEW S, NEW a \in Seq(S), NEW b \in Seq(S), a # <<>>
    PROVE  /\ a \o b # <<>>
           /\ Head(a \o b) = Head(a)
           /\ Tail(a \o b) = Tail(a) \o b
<1>1. Len(a) \in Nat \ {0} /\ Len(b) \in Nat
    BY EmptySeq, LenProperties
<1>2. /\ a \o b \in Seq(S)
      /\ Len(a \o b) = Len(a) + Len(b)
      /\ \A i \in 1..(Len(a) + Len(b)) : (a \o b)[i] = IF i <= Len(a) THEN a[i] ELSE b[i - Len(a)]
    BY ConcatProperties
<1>3. a \o b # <<>>
    BY <1>1, <1>2, EmptySeq
<1>4. Head(a \o b) = Head(a)
    BY <1>1, <1>2, <1>3
<1>5. /\ Tail(a) \in Seq(S) /\ Len(Tail(a)) = Len(a) - 1
      /\ \A i \in 1..Len(Tail(a)) : Tail(a)[i] = a[i + 1]
    BY HeadTailProperties
<1>6. /\ Tail(a \o b) \in Seq(S) /\ Len(Tail(a \o b)) = Len(a) + Len(b) - 1
      /\ \A i \in 1..Len(Tail(a \o b)) : Tail(a \o b)[i] = (a \o b)[i + 1]
    BY <1>2, <1>3, HeadTailProperties
<1>7. /\ Tail(a) \o b \in Seq(S) /\ Len(Tail(a) \o b) = Len(a) - 1 + Len(b)
      /\ \A i \in 1..(Len(Tail(a)) + Len(b)) :
            (Tail(a) \o b)[i] = IF i <= Len(Tail(a)) THEN Tail(a)[i] ELSE b[i - Len(Tail(a))]
    BY <1>5, ConcatProperties
<1>8. ASSUME NEW i \in 1..Len(Tail(a \o b)) PROVE Tail(a \o b)[i] = (Tail(a) \o b)[i]
    BY <1>1, <1>2, <1>5, <1>6, <1>7
<1>9. QED
    BY <1>1, <1>3, <1>4, <1>6, <1>7, <1>8, SeqEqual

LEMMA HeadThenTail ==
    ASSUME NEW S, NEW q \in Seq(S), q # <<>>
    PROVE  q = <<Head(q)>> \o Tail(q)
<1>1. Len(q) \in Nat \ {0} /\ Head(q) \in S /\ Head(q) = q[1]
    BY EmptySeq, HeadTailProperties
<1>2. /\ Tail(q) \in Seq(S) /\ Len(Tail(q)) = Len(q) - 1
      /\ \A i \in 1..Len(Tail(q)) : Tail(q)[i] = q[i + 1]
    BY HeadTailProperties
<1>3. <<Head(q)>> \in Seq(S) /\ Len(<<Head(q)>>) = 1 /\ <<Head(q)>>[1] = Head(q)
    BY <1>1
<1>4. /\ <<Head(q)>> \o Tail(q) \in Seq(S) /\ Len(<<Head(q)>> \o Tail(q)) = Len(q)
      /\ \A i \in 1..Len(q) : (<<Head(q)>> \o Tail(q))[i] =
            IF i <= 1 THEN <<Head(q)>>[i] ELSE Tail(q)[i - 1]
    BY <1>1, <1>2, <1>3, ConcatProperties
<1>5. ASSUME NEW i \in 1..Len(q) PROVE q[i] = (<<Head(q)>> \o Tail(q))[i]
    BY <1>1, <1>2, <1>3, <1>4
<1>6. QED
    BY <1>4, <1>5, SeqEqual

(* A sequence cut in two, and the first part moved behind another one.      *)
LEMMA MovedAcross ==
    ASSUME NEW S, NEW a \in Seq(S), NEW b \in Seq(S), NEW n \in 0..Len(b)
    PROVE  (a \o SubSeq(b, 1, n)) \o SubSeq(b, n + 1, Len(b)) = a \o b
<1>1. Len(b) \in Nat /\ n \in Nat
    BY LenProperties
<1>2. SubSeq(b, 1, n) \in Seq(S) /\ SubSeq(b, n + 1, Len(b)) \in Seq(S)
    <2>1. 1 \in Nat \ {0} /\ n + 1 \in Nat \ {0} /\ Len(b) \in 0..Len(b)
        BY <1>1
    <2> QED
        BY <2>1, SubSeqTyped
<1>3. SubSeq(b, 1, n) \o SubSeq(b, n + 1, Len(b)) = b
    <2>1. 1 \in 1..(Len(b) + 1) /\ n \in (1 - 1)..Len(b) /\ Len(b) \in n..Len(b)
        BY <1>1
    <2>2. SubSeq(b, 1, n) \o SubSeq(b, n + 1, Len(b)) = SubSeq(b, 1, Len(b))
        BY <2>1, ConcatAdjacentSubSeq
    <2>3. QED
        BY <2>2, SubSeqFull
<1> DEFINE x == SubSeq(b, 1, n)
           y == SubSeq(b, n + 1, Len(b))
<1>4. x \in Seq(S) /\ y \in Seq(S) /\ x \o y = b
    BY <1>2, <1>3
<1> SUFFICES (a \o x) \o y = a \o b
    OBVIOUS
<1> HIDE DEF x, y
<1>5. x \in Seq(S) /\ y \in Seq(S)
    BY <1>4
<1>6. (a \o x) \o y = a \o (x \o y)
    BY <1>5, ConcatAssociative
<1>7. QED
    BY <1>4, <1>6

(* Where b begins in a \o b.                                                *)
LEMMA SplitAt ==
    ASSUME NEW S, NEW a \in Seq(S), NEW b \in Seq(S)
    PROVE  /\ Len(a) \in 0..Len(a \o b) /\ Len(a \o b) = Len(a) + Len(b)
           /\ SubSeq(a \o b, 1, Len(a)) = a
           /\ SubSeq(a \o b, Len(a) + 1, Len(a \o b)) = b
<1>1. Len(a) \in Nat /\ Len(b) \in Nat
    BY LenProperties
<1>2. /\ a \o b \in Seq(S) /\ Len(a \o b) = Len(a) + Len(b)
      /\ \A i \in 1..(Len(a) + Len(b)) : (a \o b)[i] = IF i <= Len(a) THEN a[i] ELSE b[i - Len(a)]
    BY ConcatProperties
<1> DEFINE c == a \o b
           n == Len(a)
<1>3. c \in Seq(S) /\ Len(c) = n + Len(b) /\ n \in Nat /\ n \in 0..Len(c)
    BY <1>1, <1>2
<1>4. \A i \in 1..n : c[i] = a[i]
    BY <1>1, <1>2
<1>5. ASSUME NEW i \in 1..Len(b) PROVE c[n + i] = b[i]
    <2>1. PICK k \in 1..(Len(a) + Len(b)) : k = n + i /\ ~(k <= Len(a)) /\ k - Len(a) = i
        <3>1. n + i \in 1..(Len(a) + Len(b)) /\ ~(n + i <= Len(a)) /\ n + i - Len(a) = i
            BY <1>1
        <3>2. QED
            BY <3>1
    <2>2. QED
        BY <1>2, <2>1
<1> HIDE DEF c
<1>6. SubSeq(c, 1, n) \in Seq(S) /\ SubSeq(c, n + 1, Len(c)) \in Seq(S)
    BY <1>1, <1>3, SubSeqTyped
<1>7. /\ Len(SubSeq(c, 1, n)) = n /\ \A i \in 1..n : SubSeq(c, 1, n)[i] = c[i]
    <2>1. \A i \in 1..n : c[i] \in S
        BY <1>3, ElementOfSeq
    <2>2. QED
        BY <1>1, <1>3, <2>1, SubSeqProperties
<1>8. /\ Len(SubSeq(c, n + 1, Len(c))) = Len(b)
      /\ \A i \in 1..Len(b) : SubSeq(c, n + 1, Len(c))[i] = c[n + i]
    <2>1. \A i \in (n + 1)..Len(c) : c[i] \in S
        BY <1>1, <1>3, ElementOfSeq
    <2>2. n + 1 \in Int /\ Len(c) \in Int
        BY <1>1, <1>3
    <2>3. /\ Len(SubSeq(c, n + 1, Len(c))) = IF n + 1 <= Len(c) THEN Len(c) - (n + 1) + 1 ELSE 0
          /\ \A i \in 1..(Len(c) - (n + 1) + 1) : SubSeq(c, n + 1, Len(c))[i] = c[n + 1 + i - 1]
        BY <2>1, <2>2, SubSeqProperties
    <2>4. Len(c) - (n + 1) + 1 = Len(b) /\ (~(n + 1 <= Len(c)) => Len(b) = 0)
        BY <1>1, <1>3
    <2>5. \A i \in 1..Len(b) : n + 1 + i - 1 = n + i
        BY <1>1
    <2>6. QED
        BY <2>3, <2>4, <2>5
<1>9. SubSeq(c, 1, n) = a
    BY <1>4, <1>6, <1>7, SeqEqual
<1>10. SubSeq(c, n + 1, Len(c)) = b
    BY <1>5, <1>6, <1>8, SeqEqual
<1>11. QED
    BY <1>3, <1>9, <1>10 DEF c

LEMMA SameBehind ==
    ASSUME NEW S, NEW x \in Seq(S)
    PROVE  \A v, w \in Seq(S) : x \o v = x \o w => v = w
<1>1. \A u \in Seq(S) : u = SubSeq(x \o u, Len(x) + 1, Len(x \o u))
    BY SplitAt
<1>2. QED
    BY <1>1

(* A queue l \o f whose first elements x are all in l: there is no more in  *)
(* f than comes behind x.                                                   *)
LEMMA InFirst ==
    ASSUME NEW S, NEW x \in Seq(S), NEW w \in Seq(S), NEW l \in Seq(S), NEW f \in Seq(S),
           l \o f = x \o w, Len(f) <= Len(w)
    PROVE  Len(x) \in 0..Len(l)
<1>1. Len(x) \in Nat /\ Len(w) \in Nat /\ Len(l) \in Nat /\ Len(f) \in Nat
    BY LenProperties
<1>2. Len(l \o f) = Len(l) + Len(f) /\ Len(x \o w) = Len(x) + Len(w)
    BY ConcatProperties
<1>3. QED
    BY <1>1, <1>2

LEMMA FirstInL ==
    ASSUME NEW S, NEW x \in Seq(S), NEW w \in Seq(S), NEW l \in Seq(S), NEW f \in Seq(S),
           l \o f = x \o w, Len(x) \in 0..Len(l)
    PROVE  /\ SubSeq(l, 1, Len(x)) = x
           /\ SubSeq(l, Len(x) + 1, Len(l)) \o f = w
<1> DEFINE n == Len(x)
<1>1. n \in Nat /\ Len(w) \in Nat /\ Len(l) \in Nat /\ Len(f) \in Nat
    BY LenProperties
<1>2. /\ Len(l \o f) = Len(l) + Len(f) /\ Len(x \o w) = n + Len(w)
      /\ \A i \in 1..(Len(l) + Len(f)) : (l \o f)[i] = IF i <= Len(l) THEN l[i] ELSE f[i - Len(l)]
      /\ \A i \in 1..(n + Len(w)) : (x \o w)[i] = IF i <= n THEN x[i] ELSE w[i - n]
    BY ConcatProperties
<1>3. n \in 0..Len(l)
    OBVIOUS
<1> HIDE DEF n
<1>4. ASSUME NEW i \in 1..n PROVE l[i] = x[i]
    <2>1. i \in 1..(Len(l) + Len(f)) /\ i \in 1..(n + Len(w)) /\ i <= n /\ i <= Len(l)
        BY <1>1, <1>3
    <2>2. QED
        BY <1>2, <2>1
<1>5. SubSeq(l, 1, n) \in Seq(S) /\ SubSeq(l, n + 1, Len(l)) \in Seq(S)
    <2>1. 1 \in Nat \ {0} /\ n + 1 \in Nat \ {0} /\ Len(l) \in 0..Len(l)
        BY <1>1
    <2>2. QED
        BY <1>3, <2>1, SubSeqTyped
<1>6. SubSeq(l, 1, n) = x
    <2>1. \A i \in 1..n : l[i] \in S
        BY <1>1, <1>3, ElementOfSeq
    <2>2. Len(SubSeq(l, 1, n)) = n /\ \A i \in 1..n : SubSeq(l, 1, n)[i] = l[i]
        BY <1>1, <2>1, SubSeqProperties
    <2>3. QED
        BY <1>4, <1>5, <2>2, SeqEqual DEF n
<1>7. SubSeq(l, 1, n) \o SubSeq(l, n + 1, Len(l)) = l
    <2>1. 1 \in 1..(Len(l) + 1) /\ n \in (1 - 1)..Len(l) /\ Len(l) \in n..Len(l)
        BY <1>1, <1>3
    <2>2. SubSeq(l, 1, n) \o SubSeq(l, n + 1, Len(l)) = SubSeq(l, 1, Len(l))
        BY <2>1, ConcatAdjacentSubSeq
    <2>3. QED
        BY <2>2, SubSeqFull
<1> DEFINE r == SubSeq(l, n + 1, Len(l))
<1>8. r \in Seq(S) /\ x \o r = l
    BY <1>5, <1>6, <1>7
<1> SUFFICES r \o f = w
    BY <1>3, <1>6 DEF n
<1> HIDE DEF r
<1>9. x \o (r \o f) = x \o w /\ r \o f \in Seq(S)
    <2>1. r \in Seq(S)
        BY <1>8
    <2>2. (x \o r) \o f = x \o (r \o f)
        BY <2>1, ConcatAssociative
    <2>3. r \o f \in Seq(S)
        BY <2>1, ConcatProperties
    <2>4. QED
        BY <1>8, <2>2, <2>3
<1> DEFINE v == r \o f
<1>10. v \in Seq(S) /\ x \o v = x \o w
    BY <1>9
<1> HIDE DEF v
<1>11. QED
    BY <1>10, SameBehind DEF v

-----------------------------------------------------------------------------
(* The sequences of w in a row, i of them: what FlattenSeq computes.        *)
Flattens(w, g) ==
    /\ g[1] = w[1]
    /\ \A i \in 1..(Len(w) - 1) : g[i + 1] = g[i] \o w[i + 1]

LEMMA FlattenSeqDef ==
    ASSUME NEW S, NEW w \in Seq(Seq(S)), w # <<>>
    PROVE  \E g : Flattens(w, g) /\ FlattenSeq(w) = g[Len(w)]
<1> DEFINE Row(m, g) == g = [i \in 1..m |-> IF i = 1 THEN w[i] ELSE g[i - 1] \o w[i]]
           f[i \in 1..Len(w)] == IF i = 1 THEN w[i] ELSE f[i - 1] \o w[i]
           M == {m \in Nat : \E g : Row(m, g)}
<1>1. Len(w) \in Nat \ {0}
    BY EmptySeq, LenProperties
<1>2. 0 \in M
    <2>1. Row(0, [i \in 1..0 |-> <<>>])
        OBVIOUS
    <2>2. QED
        BY <2>1
<1>3. ASSUME NEW m \in Nat, m \in M PROVE m + 1 \in M
    <2>1. PICK g : Row(m, g)
        BY <1>3
    <2>2. \A i \in 1..m : g[i] = IF i = 1 THEN w[i] ELSE g[i - 1] \o w[i]
        BY <2>1
    <2> DEFINE h == [i \in 1..(m + 1) |-> IF i = 1 THEN w[i] ELSE g[i - 1] \o w[i]]
    <2>3. \A i \in 1..(m + 1) : h[i] = IF i = 1 THEN w[i] ELSE g[i - 1] \o w[i]
        OBVIOUS
    <2>4. h = [i \in 1..(m + 1) |-> h[i]]
        OBVIOUS
    <2> HIDE DEF h
    <2>5. \A i \in 1..m : h[i] = g[i]
        BY <2>2, <2>3
    <2>6. ASSUME NEW i \in 1..(m + 1) PROVE h[i] = IF i = 1 THEN w[i] ELSE h[i - 1] \o w[i]
        <3>1. CASE i = 1
            BY <2>3, <3>1
        <3>2. CASE i # 1
            <4>1. i - 1 \in 1..m
                BY <3>2
            <4>2. QED
                BY <2>3, <2>5, <3>2, <4>1
        <3>3. QED
            BY <3>1, <3>2
    <2>7. [i \in 1..(m + 1) |-> h[i]] = [i \in 1..(m + 1) |-> IF i = 1 THEN w[i] ELSE h[i - 1] \o w[i]]
        BY <2>6
    <2>8. Row(m + 1, h)
        BY <2>4, <2>7
    <2>9. m + 1 \in Nat
        OBVIOUS
    <2> HIDE DEF Row
    <2>10. QED
        BY <2>8, <2>9
<1>4. Len(w) \in M
    <2> HIDE DEF M
    <2>1. QED
        BY <1>1, <1>2, <1>3, SetInduction
<1>5. Row(Len(w), f)
    <2>1. \E g : Row(Len(w), g)
        BY <1>4
    <2>2. f = CHOOSE g : Row(Len(w), g)
        BY Zenon
    <2> HIDE DEF Row, f
    <2>3. QED
        BY <2>1, <2>2, Zenon
<1>6. FlattenSeq(w) = f[Len(w)]
    BY <1>1, Zenon DEF FlattenSeq
<1>7. Flattens(w, f)
    <2> HIDE DEF f
    <2>1. QED
        <3>1. \A i \in 1..Len(w) : f[i] = IF i = 1 THEN w[i] ELSE f[i - 1] \o w[i]
            BY <1>5, Zenon
        <3>2. f[1] = w[1]
            BY <1>1, <3>1
        <3>3. ASSUME NEW i \in 1..(Len(w) - 1) PROVE f[i + 1] = f[i] \o w[i + 1]
            <4>1. PICK k \in 1..Len(w) : k = i + 1 /\ k # 1 /\ k - 1 = i
                BY <1>1
            <4>2. f[k] = f[k - 1] \o w[k]
                BY <3>1, <4>1, Zenon
            <4>3. QED
                BY <4>1, <4>2, Zenon
        <3>4. QED
            BY <3>2, <3>3 DEF Flattens
<1>8. QED
    BY <1>6, <1>7, Zenon

LEMMA FlattensOnce ==
    ASSUME NEW S, NEW w \in Seq(Seq(S)), NEW v \in Seq(Seq(S)), NEW g, NEW h,
           Len(w) <= Len(v), \A i \in 1..Len(w) : v[i] = w[i],
           Flattens(w, g), Flattens(v, h)
    PROVE  \A i \in 1..Len(w) : g[i] = h[i]
<1> DEFINE M == {m \in Nat : m \in 1..Len(w) => g[m] = h[m]}
<1>1. Len(w) \in Nat /\ Len(v) \in Nat
    BY LenProperties
<1>2. 0 \in M
    OBVIOUS
<1>3. ASSUME NEW m \in Nat, m \in M, m + 1 \in 1..Len(w) PROVE g[m + 1] = h[m + 1]
    <2>1. v[m + 1] = w[m + 1] /\ 1 \in 1..Len(w) /\ v[1] = w[1]
        BY <1>1, <1>3
    <2>2. CASE m = 0
        BY <2>1, <2>2 DEF Flattens
    <2>3. CASE m # 0
        <3>1. g[m] = h[m]
            BY <1>1, <1>3, <2>3
        <3>2. m \in 1..(Len(w) - 1) /\ m \in 1..(Len(v) - 1)
            BY <1>1, <1>3, <2>3
        <3>3. g[m + 1] = g[m] \o w[m + 1] /\ h[m + 1] = h[m] \o v[m + 1]
            BY <3>2, Zenon DEF Flattens
        <3>4. QED
            BY <2>1, <3>1, <3>3
    <2>4. QED
        BY <2>2, <2>3
<1>4. Nat \subseteq M
    <2>1. ASSUME NEW m \in Nat, m \in M PROVE m + 1 \in M
        BY <1>3, <2>1
    <2> HIDE DEF M
    <2>2. QED
        BY <1>2, <2>1, SetInduction
<1>5. QED
    BY <1>1, <1>4

LEMMA FlattenSeqTyped ==
    ASSUME NEW S, NEW w \in Seq(Seq(S))
    PROVE  FlattenSeq(w) \in Seq(S)
<1>1. CASE w = <<>>
    BY <1>1, EmptySeq DEF FlattenSeq
<1>2. CASE w # <<>>
    <2>1. PICK g : Flattens(w, g) /\ FlattenSeq(w) = g[Len(w)]
        BY <1>2, FlattenSeqDef
    <2>2. Len(w) \in Nat \ {0}
        BY <1>2, EmptySeq, LenProperties
    <2> DEFINE M == {m \in Nat : m \in 1..Len(w) => g[m] \in Seq(S)}
    <2>3. 0 \in M
        OBVIOUS
    <2>4. ASSUME NEW m \in Nat, m \in M PROVE m + 1 \in M
        <3>1. ASSUME m + 1 \in 1..Len(w) PROVE w[m + 1] \in Seq(S)
            BY <3>1, ElementOfSeq
        <3>2. CASE m = 0
            BY <2>1, <3>1, <3>2 DEF Flattens
        <3>3. CASE m # 0 /\ m + 1 \in 1..Len(w)
            <4>1. g[m] \in Seq(S)
                BY <2>2, <2>4, <3>3
            <4>2. m \in 1..(Len(w) - 1)
                BY <2>2, <3>3
            <4>3. g[m + 1] = g[m] \o w[m + 1]
                BY <2>1, <4>2, Zenon DEF Flattens
            <4>4. w[m + 1] \in Seq(S)
                BY <3>1, <3>3
            <4>5. g[m + 1] \in Seq(S)
                BY <4>1, <4>3, <4>4, ConcatProperties
            <4>6. QED
                BY <4>5
        <3>4. QED
            BY <3>2, <3>3
    <2>5. Nat \subseteq M
        <3> HIDE DEF M
        <3>1. QED
            BY <2>3, <2>4, SetInduction
    <2>6. QED
        BY <2>1, <2>2, <2>5
<1>3. QED
    BY <1>1, <1>2

LEMMA FlattenSeqAppend ==
    ASSUME NEW S, NEW w \in Seq(Seq(S)), NEW x \in Seq(S)
    PROVE  FlattenSeq(Append(w, x)) = FlattenSeq(w) \o x
<1> DEFINE v == Append(w, x)
<1>1. /\ v \in Seq(Seq(S)) /\ Len(w) \in Nat /\ Len(v) = Len(w) + 1 /\ v # <<>>
      /\ \A i \in 1..Len(w) : v[i] = w[i]
      /\ v[Len(w) + 1] = x
    <2>1. Len(w) \in Nat
        BY LenProperties
    <2>2. v \in Seq(Seq(S)) /\ Len(v) = Len(w) + 1 /\ v[Len(w) + 1] = x
          /\ \A i \in 1..Len(w) : v[i] = w[i]
        BY <2>1, AppendProperties
    <2>3. v # <<>>
        BY <2>1, <2>2, EmptySeq
    <2>4. QED
        BY <2>1, <2>2, <2>3
<1> HIDE DEF v
<1>2. PICK h : Flattens(v, h) /\ FlattenSeq(v) = h[Len(v)]
    BY <1>1, FlattenSeqDef
<1>3. CASE w = <<>>
    <2>1. FlattenSeq(w) = <<>> /\ Len(w) = 0
        BY <1>3, EmptySeq DEF FlattenSeq
    <2>2. <<>> \o x = x
        BY ConcatEmptySeq
    <2>3. QED
        BY <1>1, <1>2, <2>1, <2>2 DEF Flattens, v
<1>4. CASE w # <<>>
    <2>1. PICK g : Flattens(w, g) /\ FlattenSeq(w) = g[Len(w)]
        BY <1>4, FlattenSeqDef
    <2>2. Len(w) \in Nat \ {0} /\ Len(w) <= Len(v)
        BY <1>1, <1>4, EmptySeq
    <2>3. g[Len(w)] = h[Len(w)]
        <3>1. v \in Seq(Seq(S)) /\ Len(w) <= Len(v) /\ (\A i \in 1..Len(w) : v[i] = w[i])
            BY <1>1, <2>2
        <3>2. Flattens(w, g) /\ Flattens(v, h)
            BY <1>2, <2>1
        <3>3. \A i \in 1..Len(w) : g[i] = h[i]
            BY <3>1, <3>2, FlattensOnce
        <3>4. QED
            BY <2>2, <3>3
    <2>4. h[Len(v)] = h[Len(w)] \o x
        <3>1. Len(w) \in 1..(Len(v) - 1) /\ Len(w) + 1 = Len(v) /\ v[Len(v)] = x
            BY <1>1, <2>2
        <3>2. QED
            BY <1>2, <3>1, Zenon DEF Flattens
    <2>5. QED
        BY <1>2, <2>1, <2>3, <2>4 DEF v
<1>5. QED
    BY <1>3, <1>4

LEMMA FlattenSeqEmpty == FlattenSeq(<<>>) = <<>>
BY EmptySeq DEF FlattenSeq

LEMMA FlattenSeqConcat ==
    ASSUME NEW S, NEW a \in Seq(Seq(S)), NEW b \in Seq(Seq(S))
    PROVE  FlattenSeq(a \o b) = FlattenSeq(a) \o FlattenSeq(b)
<1> DEFINE Q == Seq(S)
           M == {n \in Nat : \A c \in Seq(Q) : Len(c) = n =>
                                FlattenSeq(a \o c) = FlattenSeq(a) \o FlattenSeq(c)}
<1>0. a \in Seq(Q) /\ b \in Seq(Q) /\ FlattenSeq(a) \in Seq(S)
    BY FlattenSeqTyped
<1>1. 0 \in M
    <2>1. ASSUME NEW c \in Seq(Q), Len(c) = 0
          PROVE  FlattenSeq(a \o c) = FlattenSeq(a) \o FlattenSeq(c)
        <3>1. c = <<>>
            BY <2>1, EmptySeq
        <3>2. a \o <<>> = a /\ FlattenSeq(a) \o <<>> = FlattenSeq(a)
            BY <1>0, ConcatEmptySeq
        <3>3. QED
            BY <3>1, <3>2, FlattenSeqEmpty
    <2>2. QED
        BY <2>1
<1>2. ASSUME NEW n \in Nat, n \in M PROVE n + 1 \in M
    <2>1. ASSUME NEW c \in Seq(Q), Len(c) = n + 1
          PROVE  FlattenSeq(a \o c) = FlattenSeq(a) \o FlattenSeq(c)
        <3> DEFINE r == SubSeq(c, 1, n)
                   x == c[n + 1]
        <3>1. r \in Seq(Q) /\ Len(r) = n /\ x \in Q /\ c = r \o <<x>>
            <4>1. 1 \in 1..Len(c) /\ Len(c) \in 1..Len(c) /\ n + 1 \in 1..Len(c)
                  /\ 1 \in Nat \ {0} /\ n \in 0..Len(c)
                BY <2>1
            <4>2. SubSeq(c, 1, Len(c)) = SubSeq(c, 1, Len(c) - 1) \o <<c[Len(c)]>>
                BY <4>1, SubSeqRecursiveSecond
            <4>3. Len(c) - 1 = n
                BY <2>1
            <4>4. c = SubSeq(c, 1, n) \o <<c[n + 1]>>
                BY <2>1, <4>2, <4>3, SubSeqFull
            <4>5. r \in Seq(Q)
                BY <4>1, SubSeqTyped
            <4>6. Len(r) = n
                BY <2>1, SubSeqProperties, ElementOfSeq
            <4>7. x \in Q
                BY <4>1, ElementOfSeq
            <4>8. QED
                BY <4>4, <4>5, <4>6, <4>7
        <3>2. FlattenSeq(a \o r) = FlattenSeq(a) \o FlattenSeq(r)
            BY <1>2, <3>1
        <3> HIDE DEF M, r, x, Q
        <3>3. c = Append(r, x) /\ a \o c = Append(a \o r, x)
            BY <1>0, <3>1, AppendIsConcat, AppendToSecond
        <3>4. FlattenSeq(c) = FlattenSeq(r) \o x
            BY <3>1, <3>3, FlattenSeqAppend DEF Q
        <3>5. a \o r \in Seq(Q)
            BY <1>0, <3>1, ConcatProperties
        <3>6. FlattenSeq(a \o c) = FlattenSeq(a \o r) \o x
            BY <3>1, <3>3, <3>5, FlattenSeqAppend DEF Q
        <3>7. FlattenSeq(r) \in Seq(S)
            BY <3>1, FlattenSeqTyped DEF Q
        <3>8. (FlattenSeq(a) \o FlattenSeq(r)) \o x = FlattenSeq(a) \o (FlattenSeq(r) \o x)
            BY <1>0, <3>1, <3>7, ConcatAssociative DEF Q
        <3>9. QED
            BY <3>2, <3>4, <3>6, <3>8
    <2>2. QED
        BY <2>1
<1>3. Nat \subseteq M
    <2> HIDE DEF M
    <2>1. QED
        BY <1>1, <1>2, SetInduction
<1>4. QED
    BY <1>3, LenProperties

-----------------------------------------------------------------------------
(* What a list becomes when each element turns into the sequence F has for  *)
(* it: none to leave it out, one to change it.                              *)
FlatMap(F, ms) == FlattenSeq([k \in DOMAIN ms |-> F[ms[k]]])

LEMMA MapTyped ==
    ASSUME NEW M, NEW Q, NEW F \in [M -> Q], NEW ms \in Seq(M)
    PROVE  /\ [k \in DOMAIN ms |-> F[ms[k]]] \in Seq(Q)
           /\ Len([k \in DOMAIN ms |-> F[ms[k]]]) = Len(ms)
<1>1. Len(ms) \in Nat /\ DOMAIN ms = 1..Len(ms) /\ \A k \in 1..Len(ms) : ms[k] \in M
    BY LenProperties, ElementOfSeq
<1>2. QED
    BY <1>1, IsASeq

LEMMA FlatMapTyped ==
    ASSUME NEW M, NEW S, NEW F \in [M -> Seq(S)], NEW ms \in Seq(M)
    PROVE  FlatMap(F, ms) \in Seq(S)
<1>1. [k \in DOMAIN ms |-> F[ms[k]]] \in Seq(Seq(S))
    BY MapTyped
<1>2. QED
    BY <1>1, FlattenSeqTyped, Zenon DEF FlatMap

LEMMA FlatMapEmpty == \A F : FlatMap(F, <<>>) = <<>>
<1>1. ASSUME NEW F PROVE [k \in DOMAIN <<>> |-> F[<<>>[k]]] = <<>>
    OBVIOUS
<1>2. QED
    BY <1>1, FlattenSeqEmpty DEF FlatMap

LEMMA FlatMapOne ==
    ASSUME NEW M, NEW S, NEW F \in [M -> Seq(S)], NEW m \in M
    PROVE  FlatMap(F, <<m>>) = F[m]
<1>1. [k \in DOMAIN <<m>> |-> F[<<m>>[k]]] = <<F[m]>>
    OBVIOUS
<1>2. F[m] \in Seq(S) /\ <<>> \in Seq(Seq(S)) /\ <<F[m]>> = Append(<<>>, F[m])
    BY EmptySeq
<1>3. FlattenSeq(<<F[m]>>) = FlattenSeq(<<>>) \o F[m]
    BY <1>2, FlattenSeqAppend
<1>4. QED
    BY <1>1, <1>2, <1>3, FlattenSeqEmpty, ConcatEmptySeq DEF FlatMap

LEMMA FlatMapConcat ==
    ASSUME NEW M, NEW S, NEW F \in [M -> Seq(S)], NEW a \in Seq(M), NEW b \in Seq(M)
    PROVE  FlatMap(F, a \o b) = FlatMap(F, a) \o FlatMap(F, b)
<1> DEFINE x == [k \in DOMAIN a |-> F[a[k]]]
           y == [k \in DOMAIN b |-> F[b[k]]]
           z == [k \in DOMAIN (a \o b) |-> F[(a \o b)[k]]]
<1>1. /\ Len(a) \in Nat /\ DOMAIN a = 1..Len(a) /\ Len(b) \in Nat /\ DOMAIN b = 1..Len(b)
      /\ a \o b \in Seq(M) /\ Len(a \o b) = Len(a) + Len(b)
      /\ DOMAIN (a \o b) = 1..(Len(a) + Len(b))
      /\ \A i \in 1..(Len(a) + Len(b)) : (a \o b)[i] = IF i <= Len(a) THEN a[i] ELSE b[i - Len(a)]
    BY LenProperties, ConcatProperties
<1>2. /\ x \in Seq(Seq(S)) /\ Len(x) = Len(a)
      /\ y \in Seq(Seq(S)) /\ Len(y) = Len(b)
      /\ z \in Seq(Seq(S)) /\ Len(z) = Len(a) + Len(b)
    BY <1>1, MapTyped
<1>3. /\ \A i \in 1..Len(a) : x[i] = F[a[i]]
      /\ \A i \in 1..Len(b) : y[i] = F[b[i]]
      /\ \A i \in 1..(Len(a) + Len(b)) : z[i] = F[(a \o b)[i]]
    BY <1>1
<1> HIDE DEF x, y, z
<1>4. /\ x \o y \in Seq(Seq(S)) /\ Len(x \o y) = Len(a) + Len(b)
      /\ \A i \in 1..(Len(a) + Len(b)) : (x \o y)[i] = IF i <= Len(a) THEN x[i] ELSE y[i - Len(a)]
    <2> DEFINE Q == Seq(S)
    <2>1. x \in Seq(Q) /\ Len(x) = Len(a) /\ y \in Seq(Q) /\ Len(y) = Len(b)
        BY <1>2
    <2> HIDE DEF Q
    <2>2. /\ x \o y \in Seq(Q) /\ Len(x \o y) = Len(x) + Len(y)
          /\ \A i \in 1..(Len(x) + Len(y)) : (x \o y)[i] = IF i <= Len(x) THEN x[i] ELSE y[i - Len(x)]
        BY <2>1, ConcatProperties, Zenon
    <2>3. QED
        BY <1>2, <2>2 DEF Q
<1>5. ASSUME NEW i \in 1..(Len(a) + Len(b)) PROVE z[i] = (x \o y)[i]
    <2>1. CASE i <= Len(a)
        <3>1. i \in 1..Len(a)
            BY <1>1, <2>1
        <3>2. QED
            BY <1>1, <1>3, <1>4, <2>1, <3>1
    <2>2. CASE ~(i <= Len(a))
        <3>1. PICK k \in 1..Len(b) : k = i - Len(a)
            BY <1>1, <2>2
        <3>2. (a \o b)[i] = b[k] /\ (x \o y)[i] = y[k]
            BY <1>1, <1>4, <2>2, <3>1
        <3>3. QED
            BY <1>3, <3>2
    <2>3. QED
        BY <2>1, <2>2
<1>6. z = x \o y
    BY <1>2, <1>4, <1>5, SeqEqual
<1>7. FlattenSeq(z) = FlattenSeq(x) \o FlattenSeq(y)
    BY <1>2, <1>6, FlattenSeqConcat
<1>8. QED
    BY <1>7 DEF FlatMap, x, y, z

-----------------------------------------------------------------------------
(* The laws of concatenation and of FlatMap once more, each as one formula  *)
(* about a fixed set: Zenon can take its instances where many sequences are *)
(* at hand and the SMT solver loses itself in their concatenations.         *)
Associative(S) == \A a, b, c \in Seq(S) : (a \o b) \o c = a \o (b \o c)
Closed(S) == \A a, b \in Seq(S) : a \o b \in Seq(S)
Splits(M, S) == \A F \in [M -> Seq(S)] : \A a, b \in Seq(M) :
    FlatMap(F, a \o b) = FlatMap(F, a) \o FlatMap(F, b)

LEMMA ConcatLaws == \A S : Associative(S) /\ Closed(S)
BY ConcatAssociative, ConcatProperties DEF Associative, Closed

LEMMA FlatMapLaw == \A M, S : Splits(M, S)
BY FlatMapConcat DEF Splits

(* A list with one element more, at either end.                             *)
LEMMA FlatMapLast ==
    ASSUME NEW M, NEW S, NEW F \in [M -> Seq(S)], NEW a \in Seq(M), NEW m \in M
    PROVE  FlatMap(F, a \o <<m>>) = FlatMap(F, a) \o F[m]
<1> DEFINE o == <<m>>
<1>1. o \in Seq(M)
    OBVIOUS
<1>2. FlatMap(F, o) = F[m]
    BY FlatMapOne
<1> HIDE DEF o
<1>3. FlatMap(F, a \o o) = FlatMap(F, a) \o FlatMap(F, o)
    BY <1>1, FlatMapConcat
<1>4. QED
    BY <1>2, <1>3 DEF o

LEMMA FlatMapFirst ==
    ASSUME NEW M, NEW S, NEW F \in [M -> Seq(S)], NEW a \in Seq(M), NEW m \in M
    PROVE  FlatMap(F, <<m>> \o a) = F[m] \o FlatMap(F, a)
<1> DEFINE o == <<m>>
<1>1. o \in Seq(M)
    OBVIOUS
<1>2. FlatMap(F, o) = F[m]
    BY FlatMapOne
<1> HIDE DEF o
<1>3. FlatMap(F, o \o a) = FlatMap(F, o) \o FlatMap(F, a)
    BY <1>1, FlatMapConcat
<1>4. QED
    BY <1>2, <1>3 DEF o

(* A list of two.                                                           *)
LEMMA PairOf ==
    ASSUME NEW M, NEW x \in M, NEW y \in M
    PROVE  <<x>> \o <<y>> = <<x, y>>
<1> DEFINE a == <<x>>
           b == <<y>>
           c == <<x, y>>
<1>1. /\ a \in Seq(M) /\ Len(a) = 1 /\ a[1] = x
      /\ b \in Seq(M) /\ Len(b) = 1 /\ b[1] = y
      /\ c \in Seq(M) /\ Len(c) = 2 /\ c[1] = x /\ c[2] = y
    OBVIOUS
<1> HIDE DEF a, b, c
<1>2. a \o b \in Seq(M) /\ Len(a \o b) = 2 /\ (a \o b)[1] = x /\ (a \o b)[2] = y
    BY <1>1, ConcatProperties
<1>3. a \o b = c
    BY <1>1, <1>2, SeqEqual
<1>4. QED
    BY <1>3 DEF a, b, c

LEMMA FlatMapPair ==
    ASSUME NEW M, NEW S, NEW F \in [M -> Seq(S)], NEW x \in M, NEW y \in M
    PROVE  FlatMap(F, <<x, y>>) = F[x] \o F[y]
<1> DEFINE a == <<x>>
<1>1. a \in Seq(M) /\ a \o <<y>> = <<x, y>>
    BY PairOf
<1>2. FlatMap(F, a) = F[x]
    BY FlatMapOne
<1> HIDE DEF a
<1>3. FlatMap(F, a \o <<y>>) = FlatMap(F, a) \o F[y]
    BY <1>1, FlatMapLast
<1>4. QED
    BY <1>1, <1>2, <1>3

(* A set that has the empty list, and with a list the same one with any     *)
(* element behind it, has every list.                                       *)
LEMMA ListInduction ==
    ASSUME NEW M, NEW T, <<>> \in T,
           \A a \in Seq(M), m \in M : a \in T => a \o <<m>> \in T
    PROVE  Seq(M) \subseteq T
<1> DEFINE N == {n \in Nat : \A c \in Seq(M) : Len(c) = n => c \in T}
<1>1. 0 \in N
    BY EmptySeq
<1>2. ASSUME NEW n \in Nat, n \in N PROVE n + 1 \in N
    <2>1. ASSUME NEW c \in Seq(M), Len(c) = n + 1 PROVE c \in T
        <3> DEFINE r == SubSeq(c, 1, n)
                   x == c[n + 1]
        <3>1. 1 \in 1..Len(c) /\ Len(c) \in 1..Len(c) /\ n + 1 \in 1..Len(c)
              /\ 1 \in Nat \ {0} /\ n \in 0..Len(c) /\ Len(c) - 1 = n
            BY <2>1
        <3>2. SubSeq(c, 1, Len(c)) = SubSeq(c, 1, Len(c) - 1) \o <<c[Len(c)]>>
            BY <3>1, SubSeqRecursiveSecond
        <3>3. c = r \o <<x>>
            BY <2>1, <3>1, <3>2, SubSeqFull
        <3>4. r \in Seq(M)
            BY <3>1, SubSeqTyped
        <3>5. Len(r) = n
            BY <2>1, SubSeqProperties, ElementOfSeq
        <3>6. x \in M
            BY <3>1, ElementOfSeq
        <3> HIDE DEF r, x
        <3>7. r \in T
            BY <1>2, <3>4, <3>5
        <3>8. QED
            BY <3>3, <3>4, <3>6, <3>7, Zenon
    <2>2. QED
        BY <2>1
<1>3. Nat \subseteq N
    <2> HIDE DEF N
    <2>1. QED
        BY <1>1, <1>2, SetInduction
<1>4. QED
    BY <1>3, LenProperties

(* A list that is not empty has a last element.                             *)
LEMMA FrontAndLast ==
    ASSUME NEW M, NEW c \in Seq(M), c # <<>>
    PROVE  \E r \in Seq(M), x \in M :
             /\ c = r \o <<x>> /\ Len(r) = Len(c) - 1 /\ x = c[Len(c)]
             /\ \A i \in 1..Len(r) : r[i] = c[i]
<1> DEFINE n == Len(c) - 1
           r == SubSeq(c, 1, n)
           x == c[Len(c)]
<1>1. Len(c) \in Nat \ {0}
    BY EmptySeq, LenProperties
<1>2. 1 \in 1..Len(c) /\ Len(c) \in 1..Len(c) /\ 1 \in Nat \ {0} /\ n \in 0..Len(c)
    BY <1>1
<1>3. SubSeq(c, 1, Len(c)) = SubSeq(c, 1, Len(c) - 1) \o <<c[Len(c)]>>
    BY <1>2, SubSeqRecursiveSecond
<1>4. c = r \o <<x>>
    BY <1>3, SubSeqFull
<1>5. r \in Seq(M)
    BY <1>2, SubSeqTyped
<1>6. Len(r) = n /\ \A i \in 1..n : r[i] = c[i]
    <2>1. \A i \in 1..n : c[i] \in M
        BY <1>1, ElementOfSeq
    <2>2. 1 \in Int /\ n \in Int
        BY <1>1
    <2>3. n \in Nat
        BY <1>1
    <2> HIDE DEF n
    <2>4. Len(SubSeq(c, 1, n)) = (IF 1 <= n THEN n - 1 + 1 ELSE 0)
          /\ \A i \in 1..(n - 1 + 1) : SubSeq(c, 1, n)[i] = c[1 + i - 1]
        BY <2>1, <2>2, SubSeqProperties
    <2>5. \A i \in 1..n : 1 + i - 1 = i
        BY <2>3
    <2>6. QED
        BY <2>3, <2>4, <2>5
<1>7. x \in M
    BY <1>2, ElementOfSeq
<1> HIDE DEF r, x
<1>8. Len(r) = Len(c) - 1 /\ x = c[Len(c)] /\ \A i \in 1..Len(r) : r[i] = c[i]
    BY <1>6 DEF x
<1>9. QED
    BY <1>4, <1>5, <1>7, <1>8, Zenon

LEMMA WiderSeq == ASSUME NEW A, NEW B, A \subseteq B PROVE Seq(A) \subseteq Seq(B)
<1>1. ASSUME NEW q \in Seq(A) PROVE q \in Seq(B)
    BY <1>1, ElementOfSeq, LenProperties, IsASeq
<1>2. QED
    BY <1>1

(* Nothing, however often.                                                  *)
LEMMA FlatMapNothing ==
    ASSUME NEW M, NEW S, NEW F \in [M -> Seq(S)], NEW N, N \subseteq M,
           \A m \in N : F[m] = <<>>, NEW a \in Seq(N)
    PROVE  FlatMap(F, a) = <<>>
<1> DEFINE T == {c \in Seq(N) : FlatMap(F, c) = <<>>}
<1>1. <<>> \in T
    BY FlatMapEmpty, EmptySeq
<1>2. ASSUME NEW c \in Seq(N), NEW m \in N, c \in T PROVE c \o <<m>> \in T
    <2> DEFINE d == c \o <<m>>
    <2>1. d \in Seq(N)
        BY ConcatProperties
    <2>2. c \in Seq(M) /\ m \in M
        BY ElementOfSeq, LenProperties, IsASeq
    <2>3. FlatMap(F, d) = FlatMap(F, c) \o F[m]
        BY <2>2, FlatMapLast
    <2> HIDE DEF d
    <2>4. FlatMap(F, d) = <<>> \o <<>>
        BY <1>2, <2>3
    <2>5. <<>> \o <<>> = <<>>
        OBVIOUS
    <2>6. QED
        BY <2>1, <2>4, <2>5 DEF d
<1>3. Seq(N) \subseteq T
    <2> HIDE DEF T
    <2>1. QED
        BY <1>1, <1>2, ListInduction
<1>4. QED
    BY <1>3

(* One map after the other is one map.                                      *)
Chained(M, F, G, H) == \A m \in M : H[m] = FlatMap(G, F[m])
Chains(M, P, S) ==
    \A F \in [M -> Seq(P)], G \in [P -> Seq(S)], H \in [M -> Seq(S)] :
       Chained(M, F, G, H) => \A a \in Seq(M) : FlatMap(G, FlatMap(F, a)) = FlatMap(H, a)

LEMMA FlatMapTwice == \A M, P, S : Chains(M, P, S)
<1>0. SUFFICES
        ASSUME NEW M, NEW P, NEW S, NEW F \in [M -> Seq(P)], NEW G \in [P -> Seq(S)],
               NEW H \in [M -> Seq(S)], \A m \in M : H[m] = FlatMap(G, F[m]), NEW a \in Seq(M)
        PROVE  FlatMap(G, FlatMap(F, a)) = FlatMap(H, a)
    BY DEF Chains, Chained
<1> DEFINE T == {c \in Seq(M) : FlatMap(G, FlatMap(F, c)) = FlatMap(H, c)}
<1>1. <<>> \in T
    BY FlatMapEmpty, EmptySeq
<1>2. ASSUME NEW c \in Seq(M), NEW m \in M, c \in T PROVE c \o <<m>> \in T
    <2> DEFINE d == c \o <<m>>
    <2>1. d \in Seq(M)
        BY ConcatProperties
    <2>2. FlatMap(F, d) = FlatMap(F, c) \o F[m] /\ FlatMap(H, d) = FlatMap(H, c) \o H[m]
        BY FlatMapLast
    <2>3. FlatMap(F, c) \in Seq(P) /\ F[m] \in Seq(P)
        BY FlatMapTyped
    <2>4. FlatMap(G, FlatMap(F, c) \o F[m]) = FlatMap(G, FlatMap(F, c)) \o FlatMap(G, F[m])
        <3>1. PICK x, y \in Seq(P) : x = FlatMap(F, c) /\ y = F[m]
            BY <2>3
        <3>2. FlatMap(G, x \o y) = FlatMap(G, x) \o FlatMap(G, y)
            <4>1. Splits(P, S)
                BY FlatMapLaw, Zenon
            <4>2. QED
                BY <4>1, Zenon DEF Splits
        <3>3. QED
            BY <3>1, <3>2
    <2> HIDE DEF d
    <2>5. FlatMap(G, FlatMap(F, d)) = FlatMap(H, d)
        BY <1>0, <1>2, <2>2, <2>4
    <2>6. QED
        BY <2>1, <2>5 DEF d
<1>3. Seq(M) \subseteq T
    <2> HIDE DEF T
    <2>1. QED
        BY <1>1, <1>2, ListInduction
<1>4. QED
    BY <1>3

(* Each element turned into one.                                            *)
Wrapped(M, F, G) == \A m \in M : G[m] = <<F[m]>>
Maps(M, S) ==
    \A F \in [M -> S], G \in [M -> Seq(S)] :
       Wrapped(M, F, G) => \A a \in Seq(M) : FlatMap(G, a) = [k \in DOMAIN a |-> F[a[k]]]

LEMMA FlatMapEach == \A M, S : Maps(M, S)
<1>h. SUFFICES
        ASSUME NEW M, NEW S, NEW F \in [M -> S], NEW G \in [M -> Seq(S)],
               \A m \in M : G[m] = <<F[m]>>, NEW a \in Seq(M)
        PROVE  FlatMap(G, a) = [k \in DOMAIN a |-> F[a[k]]]
    BY DEF Maps, Wrapped
<1> DEFINE Each(c) == [k \in DOMAIN c |-> F[c[k]]]
           T == {c \in Seq(M) : FlatMap(G, c) = Each(c)}
<1>0. \A c \in Seq(M) : Each(c) \in Seq(S) /\ Len(Each(c)) = Len(c)
    BY MapTyped
<1>1. <<>> \in T
    <2>1. Each(<<>>) = <<>>
        BY MapTyped, EmptySeq
    <2>2. QED
        BY <2>1, FlatMapEmpty, EmptySeq
<1>2. ASSUME NEW c \in Seq(M), NEW m \in M, c \in T PROVE c \o <<m>> \in T
    <2> DEFINE o == <<m>>
               v == <<F[m]>>
               d == c \o o
    <2>1. o \in Seq(M) /\ Len(o) = 1 /\ o[1] = m /\ v \in Seq(S) /\ Len(v) = 1 /\ v[1] = F[m]
        OBVIOUS
    <2>2. FlatMap(G, d) = FlatMap(G, c) \o v
        BY <1>h, FlatMapLast
    <2> HIDE DEF o, v
    <2>3. /\ d \in Seq(M) /\ Len(d) = Len(c) + 1
          /\ \A i \in 1..(Len(c) + 1) : d[i] = IF i <= Len(c) THEN c[i] ELSE o[i - Len(c)]
        <3>1. /\ d \in Seq(M) /\ Len(d) = Len(c) + Len(o)
              /\ \A i \in 1..(Len(c) + Len(o)) : d[i] = IF i <= Len(c) THEN c[i] ELSE o[i - Len(c)]
            BY <2>1, ConcatProperties
        <3>2. QED
            BY <2>1, <3>1
    <2> HIDE DEF d
    <2>4. Each(c) \in Seq(S) /\ Len(Each(c)) = Len(c) /\ Each(d) \in Seq(S) /\ Len(Each(d)) = Len(d)
        BY <1>0, <2>3
    <2>5. /\ Each(c) \o v \in Seq(S) /\ Len(Each(c) \o v) = Len(c) + 1
          /\ \A i \in 1..(Len(c) + 1) :
               (Each(c) \o v)[i] = IF i <= Len(c) THEN Each(c)[i] ELSE v[i - Len(c)]
        <3>1. PICK e \in Seq(S) : e = Each(c) /\ Len(e) = Len(c)
            BY <2>4
        <3> HIDE DEF Each
        <3>2. /\ e \o v \in Seq(S) /\ Len(e \o v) = Len(e) + Len(v)
              /\ \A i \in 1..(Len(e) + Len(v)) : (e \o v)[i] = IF i <= Len(e) THEN e[i] ELSE v[i - Len(e)]
            BY <2>1, ConcatProperties, Zenon
        <3>3. QED
            BY <2>1, <3>1, <3>2
    <2>6. ASSUME NEW i \in 1..Len(d) PROVE Each(d)[i] = (Each(c) \o v)[i]
        <3>0. Len(c) \in Nat /\ DOMAIN c = 1..Len(c) /\ DOMAIN d = 1..Len(d)
            BY <2>3, LenProperties
        <3>1. Each(d)[i] = F[d[i]]
            BY <3>0
        <3>2. CASE i <= Len(c)
            <4>1. Each(c)[i] = F[c[i]] /\ d[i] = c[i]
                BY <2>3, <3>0, <3>2
            <4>2. QED
                BY <2>3, <2>5, <3>1, <3>2, <4>1
        <3>3. CASE ~(i <= Len(c))
            <4>1. i - Len(c) = 1
                BY <2>3, <3>0, <3>3
            <4>2. d[i] = m /\ (Each(c) \o v)[i] = F[m]
                BY <2>1, <2>3, <2>5, <3>3, <4>1
            <4>3. QED
                BY <3>1, <4>2
        <3>4. QED
            BY <3>2, <3>3
    <2>7. Each(d) = Each(c) \o v
        <3> HIDE DEF Each
        <3>1. QED
            BY <2>3, <2>4, <2>5, <2>6, SeqEqual
    <2>8. QED
        BY <1>2, <2>2, <2>3, <2>7 DEF d, o
<1>3. Seq(M) \subseteq T
    <2> HIDE DEF T
    <2>1. QED
        BY <1>1, <1>2, ListInduction
<1>4. QED
    BY <1>3

-----------------------------------------------------------------------------
(* The least of some numbers, and what RemoveFirst takes out of a list.     *)
LEMMA LeastOf ==
    ASSUME NEW I, I \subseteq Nat, I # {}
    PROVE  Min(I) \in I /\ \A y \in I : Min(I) <= y
<1> DEFINE M == {n \in Nat : \A m \in 0..n : m \notin I}
<1>1. \E x \in I : \A y \in I : x <= y
    <2>1. SUFFICES ASSUME \A x \in I : \E y \in I : y < x PROVE FALSE
        OBVIOUS
    <2>2. 0 \in M
        BY <2>1
    <2>3. ASSUME NEW n \in Nat, n \in M PROVE n + 1 \in M
        <3>1. \A m \in 0..(n + 1) : m \in 0..n \/ m = n + 1
            BY <2>3
        <3>2. n + 1 \notin I
            <4>1. SUFFICES ASSUME n + 1 \in I PROVE FALSE
                OBVIOUS
            <4>2. PICK y \in I : y < n + 1
                BY <2>1, <4>1
            <4>3. y \in 0..n
                BY <2>3, <4>2
            <4>4. QED
                BY <2>3, <4>2, <4>3
        <3>3. QED
            BY <2>3, <3>1, <3>2
    <2>4. Nat \subseteq M
        <3> HIDE DEF M
        <3>1. QED
            BY <2>2, <2>3, SetInduction
    <2>5. PICK x \in I : TRUE
        OBVIOUS
    <2>6. x \in M /\ x \in 0..x
        BY <2>4, <2>5
    <2>7. QED
        BY <2>5, <2>6
<1>2. QED
    BY <1>1 DEF Min

(* RemoveFirst leaves one place of the element out.                         *)
LEMMA RemovedOnce ==
    ASSUME NEW S, NEW q \in Seq(S), NEW e, \E i \in 1..Len(q) : q[i] = e
    PROVE  \E n \in 1..Len(q) :
             /\ q[n] = e
             /\ RemoveFirst(q, e) \in Seq(S)
             /\ Len(RemoveFirst(q, e)) = Len(q) - 1
             /\ \A i \in 1..(Len(q) - 1) :
                  RemoveFirst(q, e)[i] = IF i < n THEN q[i] ELSE q[i + 1]
<1> DEFINE I == {i \in 1..Len(q) : q[i] = e}
           r == RemoveFirst(q, e)
<1>1. I \subseteq Nat /\ I # {}
    BY LenProperties
<1>2. PICK n \in I : n = Min(I)
    <2> HIDE DEF I
    <2>1. QED
        BY <1>1, LeastOf
<1>3. r = RemoveAt(q, Min(I))
    BY <1>1, Zenon DEF RemoveFirst, SelectInSeq
<1>4. r = SubSeq(q, 1, n - 1) \o SubSeq(q, n + 1, Len(q))
    <2> HIDE DEF I, r
    <2>1. QED
        BY <1>2, <1>3 DEF RemoveAt
<1> DEFINE a == SubSeq(q, 1, n - 1)
           b == SubSeq(q, n + 1, Len(q))
<1> HIDE DEF r
<1>5. Len(q) \in Nat /\ \A i \in 1..Len(q) : q[i] \in S
    BY LenProperties, ElementOfSeq
<1>6. /\ a \in Seq(S) /\ Len(a) = n - 1
      /\ \A i \in 1..(n - 1) : a[i] = q[i]
    <2>1. \A i \in 1..(n - 1) : q[i] \in S
        BY <1>5
    <2>2. 1 \in Int /\ n - 1 \in Int
        BY <1>5
    <2>3. QED
        BY <1>5, <2>1, <2>2, SubSeqProperties
<1>7. /\ b \in Seq(S) /\ Len(b) = Len(q) - n
      /\ \A i \in 1..(Len(q) - n) : b[i] = q[n + i]
    <2>1. \A i \in (n + 1)..Len(q) : q[i] \in S
        BY <1>5
    <2>2. n + 1 \in Int /\ Len(q) \in Int
        BY <1>5
    <2>3. /\ b \in Seq(S) /\ Len(b) = IF n + 1 <= Len(q) THEN Len(q) - (n + 1) + 1 ELSE 0
          /\ \A i \in 1..(Len(q) - (n + 1) + 1) : b[i] = q[(n + 1) + i - 1]
        BY <2>1, <2>2, SubSeqProperties
    <2>4. QED
        BY <1>5, <2>3
<1> HIDE DEF a, b
<1>8. /\ a \o b \in Seq(S) /\ Len(a \o b) = Len(a) + Len(b)
      /\ \A i \in 1..(Len(a) + Len(b)) : (a \o b)[i] = IF i <= Len(a) THEN a[i] ELSE b[i - Len(a)]
    BY <1>6, <1>7, ConcatProperties
<1>9. ASSUME NEW i \in 1..(Len(q) - 1) PROVE (a \o b)[i] = IF i < n THEN q[i] ELSE q[i + 1]
    <2>1. CASE i < n
        BY <1>5, <1>6, <1>7, <1>8, <2>1
    <2>2. CASE ~(i < n)
        <3>1. i - (n - 1) \in 1..(Len(q) - n) /\ n + (i - (n - 1)) = i + 1
            BY <1>5, <2>2
        <3>2. (a \o b)[i] = b[i - (n - 1)]
            BY <1>5, <1>6, <1>7, <1>8, <2>2, <3>1
        <3>3. PICK k \in 1..(Len(q) - n) : k = i - (n - 1) /\ n + k = i + 1
            BY <3>1
        <3>4. QED
            BY <1>7, <2>2, <3>2, <3>3
    <2>3. QED
        BY <2>1, <2>2
<1>10. r = a \o b
    BY <1>4, Zenon DEF a, b, r
<1>11. r \in Seq(S) /\ Len(r) = Len(q) - 1
    <2>1. r \in Seq(S) /\ Len(r) = Len(a) + Len(b)
        BY <1>8, <1>10, Zenon
    <2>2. Len(a) + Len(b) = Len(q) - 1
        BY <1>5, <1>6, <1>7
    <2>3. QED
        BY <2>1, <2>2
<1>12. n \in 1..Len(q) /\ q[n] = e
    BY <1>2
<1>13. QED
    BY <1>9, <1>10, <1>11, <1>12 DEF r
=============================================================================
