---------------------------- MODULE HintsProofs ----------------------------
(***************************************************************************)
(* Hinted handoff, for any number of writers and deliverers.               *)
(*                                                                         *)
(* HintInv.  The queue and what a deliverer holds are sequences of hints,  *)
(* the queue is no longer than max_hints_per_endpoint, and every hint      *)
(* stored so far is in the queue, in a deliverer's hands, delivered,       *)
(* dropped for a reason or lost in a crash.  Each step moves hints between *)
(* these places, or adds the next hint to the queue.                       *)
(*                                                                         *)
(* CountInv.  The counter is the length of the queue modulo its width,     *)
(* except between the two locks of a topology change; the queue is far     *)
(* shorter than the width, so the counter is the length.                   *)
(*                                                                         *)
(* OrderInv.  With the periodic pass alone, what the pass puts back is     *)
(* older than what it still holds, and that is older than the queue.       *)
(***************************************************************************)
EXTENDS Hints, WellFoundedInduction, NaturalsInduction, TLAPS

\* A leaf is for Zenon, unless it names another prover.
USE Zenon

-----------------------------------------------------------------------------
\* Sequences

Below == {ss \in Nat \X Nat : ss[1] < ss[2]}

\* Induction over the naturals, for a set of them.
LEMMA NatSetInduction ==
    ASSUME NEW S \in SUBSET Nat, 0 \in S, \A n \in S : n + 1 \in S
    PROVE  S = Nat
<1> SUFFICES ASSUME Nat \ S # {} PROVE FALSE
  OBVIOUS
<1>1. IsWellFoundedOn(Below, Nat)
  <2>1. OpToRel(<, Nat) = Below
    BY DEF OpToRel, Below
  <2> QED
    BY <2>1, NatLessThanWellFounded
<1>2. PICK x \in Nat \ S : \A y \in Nat \ S : ~(<<y, x>> \in Below)
  BY <1>1, WFMin
<1>3. x # 0 /\ x - 1 \in Nat /\ x - 1 < x
  BY SMT, <1>2
<1>4. <<x - 1, x>> \in Below
  BY <1>2, <1>3 DEF Below
<1>5. x - 1 \in S
  BY <1>2, <1>3, <1>4
<1>6. (x - 1) + 1 \in S /\ (x - 1) + 1 = x
  BY SMT, <1>3, <1>5
<1> QED
  BY <1>2, <1>6

\* One turn of Flatten.
Turn(f, s, n) == IF n = 0 THEN <<>> ELSE f[n - 1] \o s[n]

HasTurns(X, s, k) == \E g \in [0..k -> Seq(X)] : \A n \in 0..k : g[n] = Turn(g, s, n)

\* The concatenation of the first k sequences unrolls.
LEMMA FlattenExists ==
    ASSUME NEW X, NEW s \in Seq(Seq(X)), NEW k \in Nat, k <= Len(s)
    PROVE  HasTurns(X, s, k)
<1> DEFINE S == {j \in Nat : j <= Len(s) => HasTurns(X, s, j)}
<1>0. Len(s) \in Nat /\ \A i \in 1..Len(s) : s[i] \in Seq(X)
  BY SMT
<1>1. 0 \in S
  <2> DEFINE g == [n \in 0..0 |-> <<>>]
  <2>1. 0..0 = {0} /\ <<>> \in Seq(X)
    BY SMT
  <2>2. g \in [0..0 -> Seq(X)] /\ \A n \in 0..0 : g[n] = Turn(g, s, n)
    BY <2>1 DEF Turn
  <2> HIDE DEF g
  <2>3. 0 \in Nat
    BY SMT
  <2> QED
    BY <2>2, <2>3 DEF HasTurns
<1>2. ASSUME NEW j \in S PROVE j + 1 \in S
  <2>1. CASE ~(j + 1 <= Len(s))
    BY SMT, <2>1
  <2>2. CASE j + 1 <= Len(s)
    <3>0. j \in Nat /\ j <= Len(s)
      BY SMT, <1>0, <2>2
    <3>1. PICK g \in [0..j -> Seq(X)] : \A n \in 0..j : g[n] = Turn(g, s, n)
      BY <3>0 DEF HasTurns
    <3> DEFINE h == [n \in 0..(j + 1) |-> Turn(g, s, n)]
    <3>2. \A n \in 0..(j + 1) : n # 0 => n - 1 \in 0..j /\ n \in 1..Len(s)
      BY SMT, <1>0, <2>2, <3>0
    <3>3. \A n \in 0..(j + 1) : n # 0 => g[n - 1] \in Seq(X) /\ s[n] \in Seq(X)
      BY <1>0, <3>2
    <3>4. \A n \in 0..(j + 1) : Turn(g, s, n) \in Seq(X)
      BY SMT, <3>3 DEF Turn
    <3>5. h \in [0..(j + 1) -> Seq(X)]
      BY <3>4
    <3>6. \A n \in 0..j : n \in 0..(j + 1)
      BY SMT, <3>0
    <3>7. \A n \in 0..j : h[n] = g[n]
      BY <3>1, <3>6
    <3>8. \A n \in 0..(j + 1) : h[n] = Turn(h, s, n)
      BY <3>2, <3>7 DEF Turn
    <3> HIDE DEF h
    <3>9. HasTurns(X, s, j + 1)
      BY <3>5, <3>8 DEF HasTurns
    <3>10. j + 1 \in Nat
      BY SMT, <3>0
    <3> QED
      BY <3>9, <3>10
  <2> QED
    BY <2>1, <2>2
<1> HIDE DEF S
<1>3. S = Nat
  <2>1. S \in SUBSET Nat
    BY DEF S
  <2> QED
    BY <1>1, <1>2, <2>1, NatSetInduction
<1> QED
  BY <1>3 DEF S

\* f[n] is the first n sequences of s, of which there are N.
Unrolled(f, X, s, N) ==
    /\ f \in [0..N -> Seq(X)] /\ Flatten(s) = f[N] /\ f[0] = <<>>
    /\ \A n \in 1..N : n - 1 \in 0..N /\ n \in 0..N /\ f[n] = f[n - 1] \o s[n]

\* The concatenation of all of them unrolls.
LEMMA FlattenUpto ==
    ASSUME NEW X, NEW s \in Seq(Seq(X))
    PROVE  \E f : Unrolled(f, X, s, Len(s))
<1>0. Len(s) \in Nat /\ \A i \in 1..Len(s) : s[i] \in Seq(X)
  BY SMT
<1>1. PICK g \in [0..Len(s) -> Seq(X)] : \A n \in 0..Len(s) : g[n] = Turn(g, s, n)
  <2>1. Len(s) <= Len(s)
    BY SMT, <1>0
  <2>2. HasTurns(X, s, Len(s))
    BY <1>0, <2>1, FlattenExists
  <2> QED
    BY <2>2 DEF HasTurns
<1>2. g = [n \in 0..Len(s) |-> Turn(g, s, n)]
  BY <1>1
<1> DEFINE f == CHOOSE f : f = [n \in 0..Len(s) |-> Turn(f, s, n)]
<1>3. f = [n \in 0..Len(s) |-> Turn(f, s, n)]
  BY <1>2
<1>4. Flatten(s) = f[Len(s)]
  BY DEF Flatten, Turn
<1> HIDE DEF f
<1>5. 0 \in 0..Len(s) /\ \A n \in 1..Len(s) : n - 1 \in 0..Len(s) /\ n \in 0..Len(s) /\ n # 0
  BY SMT, <1>0
<1>6. f[0] = <<>> /\ \A n \in 1..Len(s) : f[n] = f[n - 1] \o s[n]
  BY <1>3, <1>5 DEF Turn
<1> DEFINE S == {n \in Nat : n <= Len(s) => f[n] \in Seq(X)}
<1>7. 0 \in S
  <2>1. 0 \in Nat /\ <<>> \in Seq(X)
    BY SMT
  <2> QED
    BY <1>6, <2>1
<1>8. ASSUME NEW n \in S PROVE n + 1 \in S
  <2>1. CASE n + 1 <= Len(s)
    <3>1. n <= Len(s) /\ n + 1 \in 1..Len(s) /\ (n + 1) - 1 = n
      BY SMT, <1>0, <2>1
    <3>2. f[n + 1] = f[n] \o s[n + 1] /\ f[n] \in Seq(X) /\ s[n + 1] \in Seq(X)
      BY <1>0, <1>6, <3>1
    <3>3. f[n + 1] \in Seq(X)
      BY SMT, <3>2
    <3> QED
      BY SMT, <3>3
  <2> QED
    BY SMT, <2>1
<1> HIDE DEF S
<1>9. S = Nat
  <2>1. S \in SUBSET Nat
    BY DEF S
  <2> QED
    BY <1>7, <1>8, <2>1, NatSetInduction
<1>10. f \in [0..Len(s) -> Seq(X)]
  <2>1. \A n \in 0..Len(s) : n \in Nat /\ n <= Len(s)
    BY SMT, <1>0
  <2>2. \A n \in 0..Len(s) : f[n] \in Seq(X)
    BY <1>9, <2>1 DEF S
  <2>3. DOMAIN f = 0..Len(s) /\ f = [n \in DOMAIN f |-> f[n]]
    BY <1>3
  <2> QED
    BY <2>2, <2>3
<1> QED
  BY <1>4, <1>5, <1>6, <1>10 DEF Unrolled

\* The elements of a sequence over S are in S.
LEMMA RangeIn ==
    ASSUME NEW S, NEW s \in Seq(S)
    PROVE  Range(s) \subseteq S
BY SMT DEF Range

\* A concatenation has the elements of both sequences.
LEMMA ConcatRange ==
    ASSUME NEW S, NEW s \in Seq(S), NEW t \in Seq(S)
    PROVE  s \o t \in Seq(S) /\ Range(s \o t) = Range(s) \cup Range(t)
<1>1. /\ s \o t \in Seq(S) /\ Len(s \o t) = Len(s) + Len(t)
      /\ Len(s) \in Nat /\ Len(t) \in Nat
      /\ DOMAIN s = 1..Len(s) /\ DOMAIN t = 1..Len(t) /\ DOMAIN (s \o t) = 1..(Len(s) + Len(t))
  BY SMT
<1>2. \A i \in 1..Len(s) : (s \o t)[i] = s[i]
  BY SMT
<1>3. \A i \in 1..Len(t) : i + Len(s) \in 1..(Len(s) + Len(t)) /\ (s \o t)[i + Len(s)] = t[i]
  BY SMT
<1>4. \A i \in 1..(Len(s) + Len(t)) :
        i > Len(s) => i - Len(s) \in 1..Len(t) /\ (s \o t)[i] = t[i - Len(s)]
  BY SMT, <1>3
<1>5. Range(s \o t) \subseteq Range(s) \cup Range(t)
  BY SMT, <1>1, <1>2, <1>4 DEF Range
<1>6. Range(s) \subseteq Range(s \o t)
  BY SMT, <1>1, <1>2 DEF Range
<1>7. Range(t) \subseteq Range(s \o t)
  BY <1>1, <1>3 DEF Range
<1> QED
  BY <1>1, <1>5, <1>6, <1>7

\* Append adds one element.
LEMMA AppendRange ==
    ASSUME NEW S, NEW s \in Seq(S), NEW e \in S
    PROVE  Append(s, e) \in Seq(S) /\ Range(Append(s, e)) = Range(s) \cup {e}
<1>1. /\ Append(s, e) \in Seq(S) /\ Len(Append(s, e)) = Len(s) + 1 /\ Len(s) \in Nat
      /\ \A i \in 1..Len(s) : Append(s, e)[i] = s[i]
      /\ Append(s, e)[Len(s) + 1] = e
  BY SMT
<1>2. DOMAIN Append(s, e) = 1..(Len(s) + 1) /\ DOMAIN s = 1..Len(s)
  BY SMT, <1>1
<1> QED
  BY SMT, <1>1, <1>2 DEF Range

\* A sequence has its head and the elements of its tail.
LEMMA TailRange ==
    ASSUME NEW S, NEW s \in Seq(S), s # <<>>
    PROVE  /\ Head(s) \in S /\ Tail(s) \in Seq(S)
           /\ Range(s) = {Head(s)} \cup Range(Tail(s))
<1>1. /\ Head(s) \in S /\ Tail(s) \in Seq(S) /\ Len(Tail(s)) = Len(s) - 1
      /\ \A i \in 1..Len(Tail(s)) : Tail(s)[i] = s[i + 1]
  BY SMT
<1>2. /\ DOMAIN s = 1..Len(s) /\ DOMAIN Tail(s) = 1..(Len(s) - 1) /\ Len(s) \in Nat \ {0}
      /\ Head(s) = s[1]
  BY SMT, <1>1
<1>3. ASSUME NEW i \in 2..Len(s) PROVE i - 1 \in 1..(Len(s) - 1) /\ Tail(s)[i - 1] = s[i]
  BY SMT, <1>1, <1>2
<1>4. Range(s) \subseteq {Head(s)} \cup Range(Tail(s))
  <2>1. ASSUME NEW i \in 1..Len(s) PROVE s[i] \in {Head(s)} \cup Range(Tail(s))
    <3>1. CASE i = 1
      BY <1>2, <3>1
    <3>2. CASE i \in 2..Len(s)
      BY <1>2, <1>3, <3>2 DEF Range
    <3> QED
      BY SMT, <1>2, <3>1, <3>2
  <2> QED
    BY <1>2, <2>1 DEF Range
<1>5. {Head(s)} \cup Range(Tail(s)) \subseteq Range(s)
  BY SMT, <1>1, <1>2 DEF Range
<1> QED
  BY <1>1, <1>4, <1>5

Ordered(s) == \A i, j \in DOMAIN s : i < j => s[i] < s[j]

\* Two ordered sequences, the first below the second, are ordered together.
LEMMA ConcatOrdered ==
    ASSUME NEW X \in SUBSET Int, NEW s \in Seq(X), NEW t \in Seq(X), Ordered(s), Ordered(t),
           \A x \in Range(s), y \in Range(t) : x < y
    PROVE  Ordered(s \o t)
<1> SUFFICES ASSUME NEW i \in DOMAIN (s \o t), NEW j \in DOMAIN (s \o t), i < j
             PROVE  (s \o t)[i] < (s \o t)[j]
  BY DEF Ordered
<1>1. /\ Len(s) \in Nat /\ Len(t) \in Nat /\ DOMAIN s = 1..Len(s) /\ DOMAIN t = 1..Len(t)
      /\ i \in 1..(Len(s) + Len(t)) /\ j \in 1..(Len(s) + Len(t))
  BY SMT
<1>2. CASE j <= Len(s)
  <2>1. i \in 1..Len(s) /\ j \in 1..Len(s)
    BY SMT, <1>1, <1>2
  <2>2. (s \o t)[i] = s[i] /\ (s \o t)[j] = s[j]
    BY SMT, <2>1
  <2> QED
    BY <1>1, <2>1, <2>2 DEF Ordered
<1>3. CASE i > Len(s)
  <2>1. i - Len(s) \in 1..Len(t) /\ j - Len(s) \in 1..Len(t) /\ i - Len(s) < j - Len(s)
    BY SMT, <1>1, <1>3
  <2>2. (s \o t)[i] = t[i - Len(s)] /\ (s \o t)[j] = t[j - Len(s)]
    BY SMT, <1>1, <1>3, <2>1
  <2> QED
    BY <1>1, <2>1, <2>2 DEF Ordered
<1>4. CASE i <= Len(s) /\ j > Len(s)
  <2>1. i \in 1..Len(s) /\ j - Len(s) \in 1..Len(t)
    BY SMT, <1>1, <1>4
  <2>2. (s \o t)[i] = s[i] /\ (s \o t)[j] = t[j - Len(s)]
    BY SMT, <1>1, <1>4, <2>1
  <2>3. s[i] \in Range(s) /\ t[j - Len(s)] \in Range(t)
    BY <1>1, <2>1 DEF Range
  <2> QED
    BY <2>2, <2>3
<1> QED
  BY SMT, <1>1, <1>2, <1>3, <1>4

\* A concatenation of sequences over X is one.
LEMMA FlattenType ==
    ASSUME NEW X, NEW s \in Seq(Seq(X))
    PROVE  Flatten(s) \in Seq(X)
<1>1. Len(s) \in 0..Len(s)
  BY SMT
<1>2. PICK f : Unrolled(f, X, s, Len(s))
  BY FlattenUpto
<1> QED
  BY <1>1, <1>2 DEF Unrolled

Piece(ids, S, i) == IF ids[i] \in S THEN <<ids[i]>> ELSE <<>>

\* What Hold keeps: the elements of S, in their order.
LEMMA HoldFacts ==
    ASSUME NEW X, NEW ids \in Seq(X), NEW S
    PROVE  /\ Hold(ids, S) \in Seq(X) /\ Len(Hold(ids, S)) <= Len(ids)
           /\ Range(Hold(ids, S)) = Range(ids) \cap S
           /\ (X \subseteq Int /\ Ordered(ids)) => Ordered(Hold(ids, S))
<1> DEFINE s == [i \in DOMAIN ids |-> Piece(ids, S, i)]
           N == Len(ids)
<1>0. N \in Nat /\ DOMAIN ids = 1..N /\ \A i \in 1..N : ids[i] \in X
  BY SMT
<1>1. \A i \in 1..N : Piece(ids, S, i) \in Seq(X)
  BY SMT, <1>0 DEF Piece
<1>2. s \in Seq(Seq(X)) /\ Len(s) = N /\ \A i \in 1..N : s[i] = Piece(ids, S, i)
  BY SMT, <1>0, <1>1
<1>3. Hold(ids, S) = Flatten(s)
  BY DEF Hold, Piece
<1> HIDE DEF s
<1> HIDE DEF N
<1>a. PICK f : Unrolled(f, X, s, N)
  BY <1>2, FlattenUpto
<1>4. /\ f \in [0..N -> Seq(X)] /\ Flatten(s) = f[N] /\ f[0] = <<>>
      /\ \A n \in 1..N : n - 1 \in 0..N /\ n \in 0..N /\ f[n] = f[n - 1] \o s[n]
  BY <1>a DEF Unrolled
<1> DEFINE Upto(n) == {ids[i] : i \in 1..n} \cap S
           Good(n) == /\ Len(f[n]) <= n /\ Range(f[n]) = Upto(n)
                      /\ (X \subseteq Int /\ Ordered(ids)) => Ordered(f[n])
           G == {n \in Nat : n <= N => Good(n)}
<1>5. 0 \in G
  <2>1. Len(f[0]) <= 0 /\ Range(f[0]) = {} /\ Ordered(f[0])
    BY SMT, <1>4 DEF Range, Ordered
  <2>2. Upto(0) = {} /\ 0 \in Nat
    BY SMT
  <2> QED
    BY <2>1, <2>2
<1>6. ASSUME NEW n \in G PROVE n + 1 \in G
  <2>0. n \in Nat /\ n + 1 \in Nat
    BY SMT
  <2>1. CASE n + 1 <= N
    <3>1. n <= N /\ n + 1 \in 1..N /\ (n + 1) - 1 = n /\ n \in 0..N
      BY SMT, <1>0, <2>0, <2>1
    <3> DEFINE p == Piece(ids, S, n + 1)
    <3>2. f[n + 1] = f[n] \o p /\ f[n] \in Seq(X) /\ p \in Seq(X) /\ ids[n + 1] \in X
      BY <1>0, <1>1, <1>2, <1>4, <3>1
    <3>3. Len(f[n]) <= n /\ Range(f[n]) = Upto(n) /\ ((X \subseteq Int /\ Ordered(ids)) => Ordered(f[n]))
      BY <3>1
    <3>4. Len(p) <= 1 /\ Ordered(p) /\ Range(p) = {ids[n + 1]} \cap S
      <4>1. CASE ids[n + 1] \in S
        <5>1. p = <<ids[n + 1]>>
          BY <4>1 DEF Piece
        <5> HIDE DEF p
        <5>2. Len(p) = 1 /\ DOMAIN p = {1} /\ p[1] = ids[n + 1]
          BY SMT, <5>1
        <5>3. ~(1 < 1) /\ 1 <= 1
          BY SMT
        <5> QED
          BY <4>1, <5>2, <5>3 DEF Ordered, Range
      <4>2. CASE ids[n + 1] \notin S
        <5>1. p = <<>>
          BY <4>2 DEF Piece
        <5> HIDE DEF p
        <5>2. Len(p) <= 1 /\ DOMAIN p = {}
          BY SMT, <5>1
        <5> QED
          BY <4>2, <5>2 DEF Ordered, Range
      <4> QED
        BY <4>1, <4>2
    <3> HIDE DEF p
    <3>5. Len(f[n + 1]) <= n + 1
      BY SMT, <2>0, <3>2, <3>3, <3>4
    <3>6. \A i : i \in 1..(n + 1) <=> i \in 1..n \/ i = n + 1
      BY SMT, <2>0
    <3>7. Upto(n + 1) = Upto(n) \cup ({ids[n + 1]} \cap S)
      BY <3>6
    <3>8. Range(f[n + 1]) = Upto(n + 1)
      <4>1. Range(f[n] \o p) = Range(f[n]) \cup Range(p)
        BY SMT, <3>2, ConcatRange
      <4> QED
        BY <3>2, <3>3, <3>4, <3>7, <4>1
    <3>9. ASSUME X \subseteq Int, Ordered(ids) PROVE Ordered(f[n + 1])
      <4>1. \A i \in 1..n : i \in 1..N /\ i < n + 1
        BY SMT, <1>0, <2>0, <3>1
      <4>2. \A i \in 1..n : ids[i] < ids[n + 1]
        BY <1>0, <3>1, <3>9, <4>1 DEF Ordered
      <4>3. \A x \in Range(f[n]), y \in Range(p) : x < y
        BY <3>3, <3>4, <4>2
      <4>4. X \in SUBSET Int /\ Ordered(f[n])
        BY <3>3, <3>9
      <4>5. Ordered(f[n] \o p)
        BY <3>2, <3>4, <4>3, <4>4, ConcatOrdered
      <4> QED
        BY <3>2, <4>5
    <3> QED
      BY <2>0, <3>5, <3>8, <3>9
  <2> QED
    BY <2>0, <2>1
<1> HIDE DEF G
<1>7. G = Nat
  <2>1. G \in SUBSET Nat
    BY DEF G
  <2> QED
    BY <1>5, <1>6, <2>1, NatSetInduction
<1>8. Good(N)
  <2>1. N <= N
    BY SMT, <1>0
  <2> QED
    BY <1>0, <1>7, <2>1 DEF G
<1>9. N \in 0..N /\ Upto(N) = Range(ids) \cap S
  <2>1. N \in 0..N
    BY SMT, <1>0
  <2> QED
    BY <1>0, <2>1 DEF Range
<1> QED
  BY <1>3, <1>4, <1>8, <1>9 DEF N

\* What dropping the first elements of a sequence leaves.
LEMMA SubSeqFacts ==
    ASSUME NEW X, NEW s \in Seq(X), NEW m \in 1..(Len(s) + 1)
    PROVE  /\ SubSeq(s, m, Len(s)) \in Seq(X) /\ Len(SubSeq(s, m, Len(s))) = Len(s) - m + 1
           /\ Range(SubSeq(s, m, Len(s))) \subseteq Range(s)
           /\ Ordered(s) => Ordered(SubSeq(s, m, Len(s)))
<1> DEFINE t == SubSeq(s, m, Len(s))
           k == Len(s) - m + 1
<1>0. Len(s) \in Nat /\ DOMAIN s = 1..Len(s) /\ k \in Nat /\ \A i \in 1..k : m + i - 1 \in 1..Len(s)
  BY SMT
<1>1. t \in Seq(X) /\ Len(t) = k
  BY SMT
<1>2. \A i \in 1..k : t[i] = s[m + i - 1]
  BY SMT
<1>3. DOMAIN t = 1..k
  BY SMT, <1>1
<1> HIDE DEF t, k
<1>4. Range(t) \subseteq Range(s)
  BY <1>0, <1>2, <1>3 DEF Range
<1>5. ASSUME Ordered(s) PROVE Ordered(t)
  <2>1. \A i, j \in 1..k : i < j => m + i - 1 < m + j - 1
    BY SMT, <1>0
  <2>2. ASSUME NEW i \in 1..k, NEW j \in 1..k, i < j PROVE t[i] < t[j]
    <3>1. s[m + i - 1] < s[m + j - 1]
      BY <1>0, <1>5, <2>1, <2>2 DEF Ordered
    <3> QED
      BY <1>2, <3>1
  <2> QED
    BY <1>3, <2>2 DEF Ordered
<1> QED
  BY <1>1, <1>4, <1>5 DEF t, k

\* The head of an ordered sequence is below the rest, which is ordered.
LEMMA TailOrdered ==
    ASSUME NEW X \in SUBSET Int, NEW s \in Seq(X), s # <<>>, Ordered(s)
    PROVE  Ordered(Tail(s)) /\ \A y \in Range(Tail(s)) : Head(s) < y
<1>1. /\ Len(s) \in Nat \ {0} /\ DOMAIN s = 1..Len(s) /\ DOMAIN Tail(s) = 1..(Len(s) - 1) /\ Head(s) = s[1]
      /\ 1 \in 1..Len(s)
  BY SMT
<1>2. \A i \in 1..(Len(s) - 1) : Tail(s)[i] = s[i + 1] /\ i + 1 \in 1..Len(s) /\ 1 < i + 1
  BY SMT
<1>3. ASSUME NEW i \in 1..(Len(s) - 1), NEW j \in 1..(Len(s) - 1), i < j PROVE Tail(s)[i] < Tail(s)[j]
  <2>1. i + 1 < j + 1
    BY SMT, <1>1, <1>3
  <2>2. s[i + 1] < s[j + 1]
    BY <1>1, <1>2, <2>1 DEF Ordered
  <2> QED
    BY <1>2, <2>2
<1>4. ASSUME NEW i \in 1..(Len(s) - 1) PROVE Head(s) < Tail(s)[i]
  <2>1. s[1] < s[i + 1]
    BY <1>1, <1>2 DEF Ordered
  <2> QED
    BY <1>1, <1>2, <2>1
<1> QED
  BY <1>1, <1>3, <1>4 DEF Ordered, Range

\* The empty sequence.
LEMMA EmptySeq ==
    ASSUME NEW X
    PROVE  /\ <<>> \in Seq(X) /\ Range(<<>>) = {} /\ Ordered(<<>>) /\ Len(<<>>) = 0
           /\ \A s \in Seq(X) : Len(s) <= 0 => s = <<>>
<1>1. <<>> \in Seq(X) /\ DOMAIN <<>> = {} /\ Len(<<>>) = 0 /\ \A s \in Seq(X) : Len(s) <= 0 => s = <<>>
  BY SMT
<1> QED
  BY <1>1 DEF Range, Ordered

-----------------------------------------------------------------------------
\* Types

Segment == [hints : Seq(Nat), torn : BOOLEAN]
DelivererRecord == [pc : {"idle", "drain", "send"}, batch : Seq(Nat), requeue : Seq(Nat)]
WriterRecord == [pc : {"idle", "insert", "persist"}, hint : Nat]

\* Only a deliverer that sends has hints in its hands.
HintTypes ==
    /\ queue \in Seq(Nat) /\ buffer \in Seq(Nat) /\ files \in Seq(Segment)
    /\ next \in Nat \ {0} /\ scenario \in Scenarios
    /\ writer \in [Writer -> WriterRecord]
    /\ deliverer \in [Deliverer -> DelivererRecord]
    /\ \A d \in Deliverer : deliverer[d].pc # "send" => deliverer[d].batch = <<>> /\ deliverer[d].requeue = <<>>

\* The threads that run are threads.
LEMMA ScenarioThreads ==
    ASSUME HintTypes
    PROVE  scenario.writers \subseteq Writer /\ scenario.deliverers \subseteq Deliverer
BY BoundAssumption DEF HintTypes, Scenario

\* An idle thread holds nothing.
LEMMA IdleTypes ==
    /\ IdleWriter \in WriterRecord /\ IdleDeliverer \in DelivererRecord
    /\ IdleDeliverer.pc = "idle" /\ IdleDeliverer.batch = <<>> /\ IdleDeliverer.requeue = <<>>
<1>1. 0 \in Nat /\ <<>> \in Seq(Nat)
  BY SMT
<1> QED
  BY <1>1 DEF IdleWriter, IdleDeliverer, WriterRecord, DelivererRecord

\* What the files hold is a sequence of hints.
LEMMA SegmentHintsType ==
    ASSUME HintTypes
    PROVE  SegmentHints \in Seq(Nat)
<1> DEFINE s == [i \in DOMAIN files |-> IF files[i].torn THEN <<>> ELSE files[i].hints]
<1>1. files \in Seq(Segment) /\ buffer \in Seq(Nat)
  BY DEF HintTypes
<1>2. Len(files) \in Nat /\ DOMAIN files = 1..Len(files) /\ \A i \in 1..Len(files) : files[i] \in Segment
  BY SMT, <1>1
<1>3. \A i \in 1..Len(files) : s[i] \in Seq(Nat)
  BY <1>2, EmptySeq DEF Segment
<1>4. s \in Seq(Seq(Nat))
  BY SMT, <1>2, <1>3
<1>5. SegmentHints = Flatten(s) \o buffer
  BY DEF SegmentHints
<1> HIDE DEF s
<1>6. Flatten(s) \in Seq(Nat)
  BY <1>4, FlattenType
<1> QED
  BY <1>1, <1>5, <1>6, ConcatRange

-----------------------------------------------------------------------------
\* The length of the queue, and the hints that are kept

HintInv == HintTypes /\ QueueIsBounded /\ NothingLost

Kept == Range(queue) \cup InFlight \cup delivered \cup dropped \cup lost

\* Nothing is lost in a step that keeps every hint somewhere.
LEMMA KeptStays ==
    ASSUME NothingLost, next' = next, Kept \subseteq Kept'
    PROVE  NothingLost'
BY DEF NothingLost, Kept, Stored

\* What a delivery's step leaves of the hints in flight.
LEMMA DelivererBecomes ==
    ASSUME HintTypes, NEW d \in Deliverer, NEW w \in DelivererRecord,
           w.pc # "send" => w.batch = <<>> /\ w.requeue = <<>>, deliverer' = [deliverer EXCEPT ![d] = w]
    PROVE  /\ deliverer' \in [Deliverer -> DelivererRecord]
           /\ \A e \in Deliverer : deliverer'[e].pc # "send" => deliverer'[e].batch = <<>> /\ deliverer'[e].requeue = <<>>
           /\ InFlight \subseteq InFlight' \cup Range(deliverer[d].batch) \cup Range(deliverer[d].requeue)
           /\ Range(w.batch) \cup Range(w.requeue) \subseteq InFlight'
<1>1. deliverer' \in [Deliverer -> DelivererRecord] /\ deliverer'[d] = w
      /\ \A e \in Deliverer : e # d => deliverer'[e] = deliverer[e]
  BY DEF HintTypes
<1>2. \A e \in Deliverer : deliverer'[e].pc # "send" => deliverer'[e].batch = <<>> /\ deliverer'[e].requeue = <<>>
  BY <1>1 DEF HintTypes
<1>3. Range(w.batch) \cup Range(w.requeue) \subseteq InFlight'
  BY <1>1 DEF InFlight
<1>4. \A e \in Deliverer : e # d => Range(deliverer[e].batch) \cup Range(deliverer[e].requeue) \subseteq InFlight'
  BY <1>1 DEF InFlight
<1>5. InFlight \subseteq InFlight' \cup Range(deliverer[d].batch) \cup Range(deliverer[d].requeue)
  BY <1>4 DEF InFlight
<1> QED
  BY <1>1, <1>2, <1>3, <1>5

\* The threads that store.
LEMMA StoreKeeps ==
    ASSUME HintInv, NEW w \in Writer, Store(w)
    PROVE  HintInv'
<1>0. /\ queue \in Seq(Nat) /\ buffer \in Seq(Nat) /\ files \in Seq(Segment)
      /\ next \in Nat \ {0} /\ scenario \in Scenarios
      /\ writer \in [Writer -> WriterRecord] /\ writer[w] \in WriterRecord
      /\ HintTypes /\ QueueIsBounded /\ NothingLost
  BY DEF HintInv, HintTypes
<1>1. CASE StoreCheck(w)
  <2>1. /\ writer' = [writer EXCEPT ![w].pc = "insert"]
        /\ UNCHANGED <<queue, buffer, files, deliverer, delivered, dropped, next, lost, scenario>>
    BY <1>1 DEF StoreCheck, memory, disk, status, history, environment
  <2>2. writer' \in [Writer -> WriterRecord]
    <3>0. writer[w] \in WriterRecord
      BY <1>0
    <3>1. [writer[w] EXCEPT !.pc = "insert"] \in WriterRecord
      BY SMT, <3>0 DEF WriterRecord
    <3> QED
      BY <1>0, <2>1, <3>1
  <2>3. Kept' = Kept
    BY <2>1 DEF Kept, InFlight
  <2>4. NothingLost'
    BY <1>0, <2>1, <2>3, KeptStays
  <2> QED
    BY <1>0, <2>1, <2>2, <2>4 DEF HintInv, HintTypes, QueueIsBounded
<1>2. CASE StoreInsert(w)
  <2>1. /\ next' = next + 1
        /\ UNCHANGED <<buffer, files, deliverer, delivered, lost, scenario>>
        /\ writer' = [writer EXCEPT ![w] =
                        IF scenario.persist THEN [pc |-> "persist", hint |-> next] ELSE IdleWriter]
    BY <1>2 DEF StoreInsert, disk, environment
  <2>2. next' \in Nat \ {0} /\ next \in Nat /\ \A h : h \in 1..(next' - 1) => h = next \/ h \in 1..(next - 1)
    BY SMT, <1>0, <2>1
  <2>3. [pc |-> "persist", hint |-> next] \in WriterRecord
    BY <2>2 DEF WriterRecord
  <2>4. writer' \in [Writer -> WriterRecord]
    BY <1>0, <2>1, <2>3, IdleTypes
  <2>5. InFlight' = InFlight
    BY <2>1 DEF InFlight
  <2>6. /\ queue' \in Seq(Nat) /\ Len(queue') <= MaxPerEndpoint
        /\ next \in Range(queue') /\ Range(queue) \subseteq Range(queue') \cup dropped' /\ dropped \subseteq dropped'
    <3>1. CASE Len(queue) >= MaxPerEndpoint
      <4>1. queue' = Append(Tail(queue), next) /\ dropped' = dropped \cup {Head(queue)}
        BY <1>2, <3>1 DEF StoreInsert
      <4>2. queue # <<>> /\ Len(queue) <= MaxPerEndpoint /\ Len(queue) = MaxPerEndpoint
        BY SMT, <1>0, <3>1, BoundAssumption DEF QueueIsBounded
      <4>3. Tail(queue) \in Seq(Nat) /\ Range(queue) = {Head(queue)} \cup Range(Tail(queue))
        BY <1>0, <4>2, TailRange
      <4>4. queue' \in Seq(Nat) /\ Range(queue') = Range(Tail(queue)) \cup {next}
        <5> DEFINE t == Tail(queue)
        <5>1. t \in Seq(Nat) /\ next \in Nat
          BY <2>2, <4>3
        <5> HIDE DEF t
        <5>2. Append(t, next) \in Seq(Nat) /\ Range(Append(t, next)) = Range(t) \cup {next}
          BY SMT, <5>1, AppendRange
        <5> QED
          BY <4>1, <5>2 DEF t
      <4>5. Len(queue') = Len(queue)
        BY SMT, <1>0, <2>2, <4>1, <4>2
      <4> QED
        BY <4>1, <4>2, <4>3, <4>4, <4>5
    <3>2. CASE ~(Len(queue) >= MaxPerEndpoint)
      <4>1. queue' = Append(queue, next) /\ dropped' = dropped
        BY <1>2, <3>2 DEF StoreInsert
      <4>2. queue' \in Seq(Nat) /\ Range(queue') = Range(queue) \cup {next}
        BY SMT, <1>0, <2>2, <4>1, AppendRange
      <4>3. Len(queue') <= MaxPerEndpoint
        BY SMT, <1>0, <2>2, <3>2, <4>1, BoundAssumption
      <4> QED
        BY <4>1, <4>2, <4>3
    <3> QED
      BY <3>1, <3>2
  <2>7. Stored' \subseteq Kept'
    <3>1. Stored' \subseteq Stored \cup {next} /\ Stored \subseteq Kept
      BY <1>0, <2>2 DEF Stored, NothingLost, Kept
    <3>2. Kept \subseteq Kept' /\ next \in Kept'
      BY <2>1, <2>5, <2>6 DEF Kept
    <3> QED
      BY <3>1, <3>2
  <2>8. NothingLost'
    BY <2>7 DEF NothingLost, Kept
  <2> QED
    BY <1>0, <2>1, <2>2, <2>4, <2>6, <2>8 DEF HintInv, HintTypes, QueueIsBounded
<1>3. CASE StorePersist(w)
  <2>1. /\ writer' = [writer EXCEPT ![w] = IdleWriter]
        /\ UNCHANGED <<queue, deliverer, delivered, dropped, next, lost, scenario>>
    BY <1>3 DEF StorePersist, memory, status, history, environment
  <2>2. writer' \in [Writer -> WriterRecord] /\ writer[w].hint \in Nat
    BY <1>0, <2>1, IdleTypes DEF WriterRecord
  <2>3. [hints |-> buffer, torn |-> FALSE] \in Segment
    BY <1>0 DEF Segment
  <2>4. /\ Append(buffer, writer[w].hint) \in Seq(Nat) /\ <<writer[w].hint>> \in Seq(Nat)
        /\ Append(files, [hints |-> buffer, torn |-> FALSE]) \in Seq(Segment)
    BY SMT, <1>0, <2>2, <2>3
  <2>5. buffer' \in Seq(Nat) /\ files' \in Seq(Segment)
    BY <1>0, <1>3, <2>4 DEF StorePersist, disk
  <2>6. Kept' = Kept
    BY <2>1 DEF Kept, InFlight
  <2>7. NothingLost'
    BY <1>0, <2>1, <2>6, KeptStays
  <2> QED
    BY <1>0, <2>1, <2>2, <2>5, <2>7 DEF HintInv, HintTypes, QueueIsBounded
<1> QED
  BY <1>1, <1>2, <1>3 DEF Store

\* What a step has to keep for the invariant to hold again.
LEMMA HintInvAgain ==
    ASSUME HintInv, queue' \in Seq(Nat), Len(queue') <= MaxPerEndpoint,
           buffer' \in Seq(Nat), files' \in Seq(Segment), UNCHANGED <<next, scenario>>,
           writer' \in [Writer -> WriterRecord], deliverer' \in [Deliverer -> DelivererRecord],
           \A e \in Deliverer : deliverer'[e].pc # "send" => deliverer'[e].batch = <<>> /\ deliverer'[e].requeue = <<>>,
           Kept \subseteq Kept'
    PROVE  HintInv'
<1>1. NothingLost /\ next \in Nat \ {0} /\ scenario \in Scenarios /\ next' = next /\ scenario' = scenario
  BY DEF HintInv, HintTypes
<1>2. NothingLost'
  BY <1>1, KeptStays
<1> QED
  BY <1>1, <1>2 DEF HintInv, HintTypes, QueueIsBounded

\* A delivery that begins holds the hints it wants, and drops the others.
LEMMA StartFacts ==
    ASSUME HintTypes, NEW d \in Deliverer, deliverer[d].pc = "drain", NEW hints \in Seq(Nat), Start(d, hints)
    PROVE  /\ deliverer' \in [Deliverer -> DelivererRecord]
           /\ \A e \in Deliverer : deliverer'[e].pc # "send" => deliverer'[e].batch = <<>> /\ deliverer'[e].requeue = <<>>
           /\ InFlight \subseteq InFlight' /\ dropped \subseteq dropped'
           /\ Range(hints) \subseteq InFlight' \cup dropped'
<1> DEFINE b == Hold(hints, Wanted(d))
           w == IF b = <<>> THEN IdleDeliverer ELSE [pc |-> "send", batch |-> b, requeue |-> <<>>]
<1>1. deliverer' = [deliverer EXCEPT ![d] = w] /\ dropped' = dropped \cup (Range(hints) \ Wanted(d))
  BY DEF Start
<1>2. b \in Seq(Nat) /\ Range(b) = Range(hints) \cap Wanted(d)
  BY HoldFacts
<1>3. <<>> \in Seq(Nat) /\ Range(<<>>) = {}
  BY EmptySeq
<1> HIDE DEF b
<1>4. w \in DelivererRecord /\ w.batch = b /\ (w.pc # "send" => w.batch = <<>> /\ w.requeue = <<>>)
  BY <1>2, <1>3, IdleTypes DEF DelivererRecord
<1> HIDE DEF w
<1>5. deliverer[d].batch = <<>> /\ deliverer[d].requeue = <<>>
  BY DEF HintTypes
<1>6. /\ deliverer' \in [Deliverer -> DelivererRecord]
      /\ \A e \in Deliverer : deliverer'[e].pc # "send" => deliverer'[e].batch = <<>> /\ deliverer'[e].requeue = <<>>
      /\ InFlight \subseteq InFlight' \cup Range(deliverer[d].batch) \cup Range(deliverer[d].requeue)
      /\ Range(w.batch) \cup Range(w.requeue) \subseteq InFlight'
  BY <1>1, <1>4, DelivererBecomes
<1>7. InFlight \subseteq InFlight' /\ Range(b) \subseteq InFlight'
  BY <1>3, <1>4, <1>5, <1>6
<1> QED
  BY <1>1, <1>2, <1>6, <1>7

\* requeue_hints keeps the last of what goes back, as many as there is room for.
LEMMA RequeueFacts ==
    ASSUME HintTypes, QueueIsBounded, NEW d \in Deliverer, Requeue(d)
    PROVE  \E kept \in Seq(Nat) :
              /\ queue' = kept \o queue /\ Len(kept) + Len(queue) <= MaxPerEndpoint
              /\ total_hints' = (total_hints + Len(kept)) % Width
              /\ Range(kept) \subseteq Range(deliverer[d].requeue)
              /\ Ordered(deliverer[d].requeue) => Ordered(kept)
              /\ dropped' = dropped \cup (Range(deliverer[d].requeue) \ Range(kept))
<1> DEFINE old == deliverer[d].requeue
           room == IF Len(queue) >= MaxPerEndpoint THEN 0 ELSE MaxPerEndpoint - Len(queue)
           m == IF Len(old) > room THEN Len(old) - room + 1 ELSE 1
           kept == SubSeq(old, m, Len(old))
<1>0. /\ queue' = kept \o queue /\ total_hints' = (total_hints + Len(kept)) % Width
      /\ dropped' = dropped \cup (Range(old) \ Range(kept))
  BY DEF Requeue, RequeueBefore, Total
<1>1. old \in Seq(Nat) /\ queue \in Seq(Nat) /\ Len(queue) <= MaxPerEndpoint
  BY DEF HintTypes, DelivererRecord, QueueIsBounded
<1> HIDE DEF old
<1>2. Len(old) \in Nat /\ Len(queue) \in Nat /\ MaxPerEndpoint \in Nat
  BY SMT, <1>1, BoundAssumption
<1>3. room \in Nat /\ room + Len(queue) <= MaxPerEndpoint
  BY SMT, <1>1, <1>2
<1> HIDE DEF room
<1>4. m \in 1..(Len(old) + 1) /\ Len(old) - m + 1 <= room
  BY SMT, <1>2, <1>3
<1> HIDE DEF m
<1>5. /\ kept \in Seq(Nat) /\ Len(kept) = Len(old) - m + 1
      /\ Range(kept) \subseteq Range(old) /\ (Ordered(old) => Ordered(kept))
  BY <1>1, <1>4, SubSeqFacts
<1> HIDE DEF kept
<1>6. Len(kept) + Len(queue) <= MaxPerEndpoint
  BY SMT, <1>2, <1>3, <1>4, <1>5
<1> QED
  BY <1>0, <1>5, <1>6 DEF old

\* A step of a delivery keeps every hint: delivered, requeued, in a file or dropped at the limit.
LEMMA DeliverKeeps ==
    ASSUME HintInv, NEW d \in Deliverer, Deliver(d)
    PROVE  HintInv'
<1>0. /\ queue \in Seq(Nat) /\ buffer \in Seq(Nat) /\ files \in Seq(Segment)
      /\ writer \in [Writer -> WriterRecord] /\ Len(queue) <= MaxPerEndpoint
      /\ deliverer \in [Deliverer -> DelivererRecord] /\ HintTypes /\ QueueIsBounded
  BY DEF HintInv, HintTypes, QueueIsBounded
<1>a. /\ deliverer[d] \in DelivererRecord /\ deliverer[d].batch \in Seq(Nat) /\ deliverer[d].requeue \in Seq(Nat)
      /\ <<>> \in Seq(Nat) /\ Range(<<>>) = {} /\ Len(<<>>) = 0
  BY <1>0, EmptySeq DEF DelivererRecord
<1>b. Len(<<>>) <= MaxPerEndpoint /\ <<>> \in Seq(Segment)
  BY SMT, BoundAssumption
<1>1. CASE DrainCheck(d)
  <2> DEFINE w == [deliverer[d] EXCEPT !.pc = "drain"]
  <2>1. /\ deliverer[d].pc = "idle" /\ deliverer' = [deliverer EXCEPT ![d] = w]
        /\ UNCHANGED <<queue, buffer, files, writer, delivered, dropped, next, lost, scenario>>
    BY <1>1 DEF DrainCheck, memory, disk, status, history, environment
  <2>2. w \in DelivererRecord /\ w.batch = deliverer[d].batch /\ w.requeue = deliverer[d].requeue
    BY SMT, <1>a DEF DelivererRecord
  <2> HIDE DEF w
  <2>3. w.batch = <<>> /\ w.requeue = <<>>
    BY <1>0, <2>1, <2>2 DEF HintTypes
  <2>4. /\ deliverer' \in [Deliverer -> DelivererRecord]
        /\ \A e \in Deliverer : deliverer'[e].pc # "send" => deliverer'[e].batch = <<>> /\ deliverer'[e].requeue = <<>>
        /\ InFlight \subseteq InFlight' \cup Range(deliverer[d].batch) \cup Range(deliverer[d].requeue)
        /\ Range(w.batch) \cup Range(w.requeue) \subseteq InFlight'
    BY <1>0, <2>1, <2>2, <2>3, DelivererBecomes
  <2>5. Kept \subseteq Kept'
    BY <2>1, <2>2, <2>4 DEF Kept
  <2> QED
    BY <1>0, <2>1, <2>4, <2>5, HintInvAgain
<1>2. CASE DrainQueue(d)
  <2>1. /\ deliverer[d].pc = "drain" /\ queue' = <<>> /\ Start(d, queue)
        /\ UNCHANGED <<buffer, files, writer, delivered, next, lost, scenario>>
    BY <1>2 DEF DrainQueue, disk, environment
  <2>2. /\ deliverer' \in [Deliverer -> DelivererRecord]
        /\ \A e \in Deliverer : deliverer'[e].pc # "send" => deliverer'[e].batch = <<>> /\ deliverer'[e].requeue = <<>>
        /\ InFlight \subseteq InFlight' /\ dropped \subseteq dropped' /\ Range(queue) \subseteq InFlight' \cup dropped'
    BY <1>0, <2>1, StartFacts
  <2>3. Kept \subseteq Kept'
    BY <2>1, <2>2 DEF Kept
  <2> QED
    BY <1>0, <1>a, <1>b, <2>1, <2>2, <2>3, HintInvAgain
<1>3. CASE DrainSegments(d)
  <2>1. /\ deliverer[d].pc = "drain" /\ buffer' = <<>> /\ files' = <<>> /\ Start(d, SegmentHints)
        /\ UNCHANGED <<queue, writer, delivered, next, lost, scenario>>
    BY <1>3 DEF DrainSegments, memory, environment
  <2>2. SegmentHints \in Seq(Nat)
    BY <1>0, SegmentHintsType
  <2>3. /\ deliverer' \in [Deliverer -> DelivererRecord]
        /\ \A e \in Deliverer : deliverer'[e].pc # "send" => deliverer'[e].batch = <<>> /\ deliverer'[e].requeue = <<>>
        /\ InFlight \subseteq InFlight' /\ dropped \subseteq dropped'
    BY <1>0, <2>1, <2>2, StartFacts
  <2>4. Kept \subseteq Kept'
    BY <2>1, <2>3 DEF Kept
  <2> QED
    BY <1>0, <1>a, <1>b, <2>1, <2>3, <2>4, HintInvAgain
<1>4. CASE StopDelivery(d)
  <2> DEFINE r == deliverer[d].requeue \o deliverer[d].batch
             w == [pc |-> "send", batch |-> <<>>, requeue |-> r]
  <2>1. /\ deliverer' = [deliverer EXCEPT ![d] = w]
        /\ UNCHANGED <<queue, buffer, files, writer, delivered, dropped, next, lost, scenario>>
    BY <1>4 DEF StopDelivery, memory, disk, status, history, environment
  <2>2. r \in Seq(Nat) /\ Range(r) = Range(deliverer[d].requeue) \cup Range(deliverer[d].batch)
    <3> DEFINE u == deliverer[d].requeue
               v == deliverer[d].batch
    <3>1. u \in Seq(Nat) /\ v \in Seq(Nat)
      BY <1>a
    <3> HIDE DEF u, v
    <3>2. u \o v \in Seq(Nat) /\ Range(u \o v) = Range(u) \cup Range(v)
      BY SMT, <3>1, ConcatRange
    <3> QED
      BY <3>2 DEF u, v
  <2> HIDE DEF r
  <2>3. w \in DelivererRecord /\ w.pc = "send" /\ w.requeue = r
    BY <1>a, <2>2 DEF DelivererRecord
  <2> HIDE DEF w
  <2>4. /\ deliverer' \in [Deliverer -> DelivererRecord]
        /\ \A e \in Deliverer : deliverer'[e].pc # "send" => deliverer'[e].batch = <<>> /\ deliverer'[e].requeue = <<>>
        /\ InFlight \subseteq InFlight' \cup Range(deliverer[d].batch) \cup Range(deliverer[d].requeue)
        /\ Range(w.batch) \cup Range(w.requeue) \subseteq InFlight'
    BY <1>0, <2>1, <2>3, DelivererBecomes
  <2>5. Kept \subseteq Kept'
    BY <2>1, <2>2, <2>3, <2>4 DEF Kept
  <2> QED
    BY <1>0, <2>1, <2>4, <2>5, HintInvAgain
<1>5. CASE SendHint(d)
  <2> DEFINE h == Head(deliverer[d].batch)
             t == Tail(deliverer[d].batch)
  <2>1. /\ deliverer[d].pc = "send" /\ deliverer[d].batch # <<>>
        /\ UNCHANGED <<queue, buffer, files, writer, dropped, next, lost, scenario>>
        /\ \/ deliverer' = [deliverer EXCEPT ![d].batch = t] /\ delivered' = delivered \cup {h}
           \/ /\ deliverer' = [deliverer EXCEPT ![d] =
                                 [pc |-> "send", batch |-> t, requeue |-> Append(deliverer[d].requeue, h)]]
              /\ delivered' \in {delivered, delivered \cup {h}}
    BY <1>5 DEF SendHint, memory, disk, status, environment
  <2>2. t \in Seq(Nat) /\ h \in Nat /\ Range(deliverer[d].batch) = {h} \cup Range(t)
    BY <1>a, <2>1, TailRange
  <2> HIDE DEF h, t
  <2>3. PICK w \in DelivererRecord :
          /\ deliverer' = [deliverer EXCEPT ![d] = w] /\ w.pc = "send" /\ w.batch = t
          /\ Range(deliverer[d].requeue) \subseteq Range(w.requeue) /\ delivered \subseteq delivered'
          /\ h \in delivered' \cup Range(w.requeue)
    <3>1. CASE deliverer' = [deliverer EXCEPT ![d].batch = t] /\ delivered' = delivered \cup {h}
      <4> DEFINE w == [deliverer[d] EXCEPT !.batch = t]
      <4>0. deliverer[d] \in DelivererRecord /\ t \in Seq(Nat)
        BY <1>a, <2>2
      <4>1. w \in DelivererRecord /\ w.pc = deliverer[d].pc /\ w.batch = t /\ w.requeue = deliverer[d].requeue
        BY <4>0 DEF DelivererRecord
      <4>2. deliverer' = [deliverer EXCEPT ![d] = w]
        BY <3>1
      <4> HIDE DEF w
      <4> QED
        BY <2>1, <3>1, <4>1, <4>2
    <3>2. CASE /\ deliverer' = [deliverer EXCEPT ![d] =
                                 [pc |-> "send", batch |-> t, requeue |-> Append(deliverer[d].requeue, h)]]
               /\ delivered' \in {delivered, delivered \cup {h}}
      <4> DEFINE q == deliverer[d].requeue
                 r == Append(q, h)
                 w == [pc |-> "send", batch |-> t, requeue |-> r]
      <4>1. q \in Seq(Nat)
        BY <1>a
      <4>2. deliverer' = [deliverer EXCEPT ![d] = w]
        BY <3>2
      <4> HIDE DEF q
      <4>3. r \in Seq(Nat) /\ Range(r) = Range(q) \cup {h}
        BY SMT, <2>2, <4>1, AppendRange
      <4> HIDE DEF r
      <4>4. w \in DelivererRecord /\ w.pc = "send" /\ w.batch = t /\ w.requeue = r
        BY <2>2, <4>3 DEF DelivererRecord
      <4> HIDE DEF w
      <4> QED
        BY <3>2, <4>2, <4>3, <4>4 DEF q
    <3> QED
      BY <2>1, <3>1, <3>2
  <2>4. /\ deliverer' \in [Deliverer -> DelivererRecord]
        /\ \A e \in Deliverer : deliverer'[e].pc # "send" => deliverer'[e].batch = <<>> /\ deliverer'[e].requeue = <<>>
        /\ InFlight \subseteq InFlight' \cup Range(deliverer[d].batch) \cup Range(deliverer[d].requeue)
        /\ Range(w.batch) \cup Range(w.requeue) \subseteq InFlight'
    BY <1>0, <2>3, DelivererBecomes
  <2>5. InFlight \subseteq InFlight' \cup delivered'
    BY <2>2, <2>3, <2>4
  <2>6. Kept \subseteq Kept'
    BY <2>1, <2>3, <2>5 DEF Kept
  <2> QED
    BY <1>0, <2>1, <2>4, <2>6, HintInvAgain
<1>6. CASE Requeue(d)
  <2>1. /\ deliverer[d].batch = <<>> /\ deliverer' = [deliverer EXCEPT ![d] = IdleDeliverer]
        /\ UNCHANGED <<buffer, files, writer, delivered, next, lost, scenario>>
    BY <1>6 DEF Requeue, disk, environment
  <2>2. PICK kept \in Seq(Nat) :
           /\ queue' = kept \o queue /\ Len(kept) + Len(queue) <= MaxPerEndpoint
           /\ dropped' = dropped \cup (Range(deliverer[d].requeue) \ Range(kept))
    BY <1>0, <1>6, RequeueFacts
  <2>3. queue' \in Seq(Nat) /\ Range(queue') = Range(kept) \cup Range(queue)
    <3>1. kept \o queue \in Seq(Nat) /\ Range(kept \o queue) = Range(kept) \cup Range(queue)
      BY SMT, <1>0, ConcatRange
    <3> QED
      BY <2>2, <3>1
  <2>4. Len(queue') <= MaxPerEndpoint
    BY SMT, <1>0, <2>2
  <2>5. /\ deliverer' \in [Deliverer -> DelivererRecord]
        /\ \A e \in Deliverer : deliverer'[e].pc # "send" => deliverer'[e].batch = <<>> /\ deliverer'[e].requeue = <<>>
        /\ InFlight \subseteq InFlight' \cup Range(deliverer[d].batch) \cup Range(deliverer[d].requeue)
    BY <1>0, <2>1, IdleTypes, DelivererBecomes
  <2>6. InFlight \subseteq InFlight' \cup Range(queue') \cup dropped'
    BY <1>a, <2>1, <2>2, <2>3, <2>5
  <2>7. Kept \subseteq Kept'
    BY <2>1, <2>2, <2>3, <2>6 DEF Kept
  <2> QED
    BY <1>0, <2>1, <2>3, <2>4, <2>5, <2>7, HintInvAgain
<1> QED
  BY <1>1, <1>2, <1>3, <1>4, <1>5, <1>6 DEF Deliver

Disturb ==
    \/ TopologyPause \/ TopologyFilter \/ TopologyResume
    \/ Truncate \/ DeleteHintsFor \/ DeleteFiles
    \/ Expire \/ PurgeExpired \/ Shutdown \/ Crash

\* So do truncation, topology changes, expiry, purges, shutdown and crashes: they account for
\* what they remove.
LEMMA DisturbKeeps ==
    ASSUME HintInv, Disturb
    PROVE  HintInv'
<1>0. /\ queue \in Seq(Nat) /\ buffer \in Seq(Nat) /\ files \in Seq(Segment)
      /\ writer \in [Writer -> WriterRecord] /\ Len(queue) <= MaxPerEndpoint
      /\ deliverer \in [Deliverer -> DelivererRecord]
      /\ \A e \in Deliverer : deliverer[e].pc # "send" => deliverer[e].batch = <<>> /\ deliverer[e].requeue = <<>>
  BY DEF HintInv, HintTypes, QueueIsBounded
<1>b. Len(<<>>) <= MaxPerEndpoint /\ <<>> \in Seq(Segment) /\ <<>> \in Seq(Nat)
  BY SMT, BoundAssumption
<1>c. Range(<<>>) = {}
  BY EmptySeq
<1>a. ASSUME queue' \in Seq(Nat), Len(queue') <= MaxPerEndpoint, Range(queue) \subseteq Range(queue') \cup dropped',
             dropped \subseteq dropped', buffer' \in Seq(Nat), files' \in Seq(Segment),
             UNCHANGED <<writer, deliverer, delivered, next, lost, scenario>>
      PROVE  HintInv'
  <2>1. InFlight' = InFlight
    BY <1>a DEF InFlight
  <2>2. Kept \subseteq Kept'
    BY <1>a, <2>1 DEF Kept
  <2> QED
    BY <1>0, <1>a, <2>2, HintInvAgain
<1>1. CASE TopologyPause
  <2>1. UNCHANGED <<queue, buffer, files, writer, deliverer, delivered, dropped, next, lost, scenario>>
    BY <1>1 DEF TopologyPause, memory, disk, history, environment
  <2> QED
    BY <1>0, <1>a, <2>1
<1>h. ASSUME NEW S, queue' = Hold(queue, S), dropped' = dropped \cup (Range(queue) \ S)
      PROVE  /\ queue' \in Seq(Nat) /\ Len(queue') <= MaxPerEndpoint
             /\ Range(queue) \subseteq Range(queue') \cup dropped' /\ dropped \subseteq dropped'
  <2> DEFINE q == Hold(queue, S)
  <2>1. q \in Seq(Nat) /\ Len(q) <= Len(queue) /\ Range(q) = Range(queue) \cap S
    BY <1>0, HoldFacts
  <2> HIDE DEF q
  <2>2. Len(q) <= MaxPerEndpoint
    BY SMT, <1>0, <2>1, BoundAssumption
  <2> QED
    BY <1>h, <2>1, <2>2 DEF q
<1>2. CASE TopologyFilter
  <2>1. /\ queue' = Hold(queue, owned) /\ dropped' = dropped \cup (Range(queue) \ owned)
        /\ UNCHANGED <<buffer, files, writer, deliverer, delivered, next, lost, scenario>>
    BY <1>2 DEF TopologyFilter, disk, environment
  <2>2. /\ queue' \in Seq(Nat) /\ Len(queue') <= MaxPerEndpoint
        /\ Range(queue) \subseteq Range(queue') \cup dropped' /\ dropped \subseteq dropped'
    BY <1>h, <2>1
  <2> QED
    BY <1>0, <1>a, <2>1, <2>2
<1>3. CASE TopologyResume
  <2>1. UNCHANGED <<queue, buffer, files, writer, deliverer, delivered, dropped, next, lost, scenario>>
    BY <1>3 DEF TopologyResume, disk, history, environment
  <2> QED
    BY <1>0, <1>a, <2>1
<1>4. CASE Truncate \/ DeleteHintsFor
  <2>1. /\ queue' = <<>> /\ dropped' = dropped \cup Range(queue)
        /\ UNCHANGED <<buffer, files, writer, deliverer, delivered, next, lost, scenario>>
    BY <1>4 DEF Truncate, DeleteHintsFor, disk, environment
  <2> QED
    BY <1>0, <1>a, <1>b, <2>1
<1>5. CASE DeleteFiles
  <2>1. /\ buffer' = <<>> /\ files' = <<>>
        /\ UNCHANGED <<queue, writer, deliverer, delivered, dropped, next, lost, scenario>>
    BY <1>5 DEF DeleteFiles, memory, history, environment
  <2> QED
    BY <1>0, <1>a, <1>b, <2>1
<1>6. CASE Expire \/ Shutdown
  <2>1. UNCHANGED <<queue, buffer, files, writer, deliverer, delivered, dropped, next, lost, scenario>>
    BY <1>6 DEF Expire, Shutdown, memory, disk, control, history, environment
  <2> QED
    BY <1>0, <1>a, <2>1
<1>7. CASE PurgeExpired
  <2> DEFINE S == Range(queue) \ expired
  <2>1. /\ queue' = Hold(queue, S) /\ dropped' = dropped \cup (Range(queue) \cap expired)
        /\ UNCHANGED <<buffer, files, writer, deliverer, delivered, next, lost, scenario>>
    BY <1>7 DEF PurgeExpired, Without, disk, control, environment
  <2>2. dropped' = dropped \cup (Range(queue) \ S)
    BY <2>1
  <2> HIDE DEF S
  <2>3. /\ queue' \in Seq(Nat) /\ Len(queue') <= MaxPerEndpoint
        /\ Range(queue) \subseteq Range(queue') \cup dropped' /\ dropped \subseteq dropped'
    BY <1>h, <2>1, <2>2
  <2> QED
    BY <1>0, <1>a, <2>1, <2>3
<1>8. CASE Crash
  <2>1. /\ queue' = <<>> /\ writer' = [w \in Writer |-> IdleWriter]
        /\ deliverer' = [d \in Deliverer |-> IdleDeliverer] /\ buffer' = <<>>
        /\ dropped \subseteq dropped' /\ lost' = lost \cup Range(queue) \cup InFlight
        /\ UNCHANGED <<delivered, next, scenario>>
    BY <1>8 DEF Crash
  <2>2. files' \in Seq(Segment)
    <3>1. PICK n \in 0 .. Len(buffer), torn \in BOOLEAN :
            files' = IF n = 0 /\ ~torn THEN files
                     ELSE Append(files, [hints |-> SubSeq(buffer, 1, n), torn |-> torn])
      BY <1>8 DEF Crash
    <3>2. SubSeq(buffer, 1, n) \in Seq(Nat)
      BY SMT, <1>0
    <3>3. [hints |-> SubSeq(buffer, 1, n), torn |-> torn] \in Segment
      BY <3>2 DEF Segment
    <3>4. Append(files, [hints |-> SubSeq(buffer, 1, n), torn |-> torn]) \in Seq(Segment)
      <4> DEFINE g == [hints |-> SubSeq(buffer, 1, n), torn |-> torn]
      <4>1. g \in Segment
        BY <3>3
      <4> HIDE DEF g
      <4>2. Append(files, g) \in Seq(Segment)
        BY SMT, <1>0, <4>1
      <4> QED
        BY <4>2 DEF g
    <3> QED
      BY <1>0, <3>1, <3>4
  <2>3. /\ writer' \in [Writer -> WriterRecord] /\ deliverer' \in [Deliverer -> DelivererRecord]
        /\ \A e \in Deliverer : deliverer'[e].pc # "send" => deliverer'[e].batch = <<>> /\ deliverer'[e].requeue = <<>>
    BY <2>1, IdleTypes
  <2>4. Kept \subseteq Kept'
    BY <2>1 DEF Kept
  <2> QED
    BY <1>b, <2>1, <2>2, <2>3, <2>4, HintInvAgain
<1> QED
  BY <1>1, <1>2, <1>3, <1>4, <1>5, <1>6, <1>7, <1>8 DEF Disturb

\* Before the first hint the invariant holds.
LEMMA HintInvInit == Init => HintInv
<1> SUFFICES ASSUME Init PROVE HintInv
  OBVIOUS
<1>1. /\ <<>> \in Seq(Nat) /\ <<>> \in Seq(Segment) /\ Len(<<>>) <= MaxPerEndpoint
      /\ 1 \in Nat \ {0} /\ 1..(1 - 1) = {}
  BY SMT, BoundAssumption
<1>2. HintTypes
  BY <1>1, IdleTypes DEF Init, HintTypes
<1> QED
  BY <1>1, <1>2 DEF Init, HintInv, QueueIsBounded, NothingLost, Stored

\* Every step keeps the invariant.
LEMMA HintInvNext == HintInv /\ [Next]_vars => HintInv'
<1> SUFFICES ASSUME HintInv, [Next]_vars PROVE HintInv'
  OBVIOUS
<1>1. ASSUME NEW w \in scenario.writers, Store(w) PROVE HintInv'
  BY <1>1, ScenarioThreads, StoreKeeps DEF HintInv
<1>2. ASSUME NEW d \in scenario.deliverers, Deliver(d) PROVE HintInv'
  BY <1>2, ScenarioThreads, DeliverKeeps DEF HintInv
<1>3. CASE Disturb
  BY <1>3, DisturbKeeps
<1>4. CASE UNCHANGED vars
  <2>1. UNCHANGED <<queue, buffer, files, next, scenario, writer, deliverer, delivered, dropped, lost>>
    BY <1>4 DEF vars, memory, disk, control, history, environment
  <2>2. Kept' = Kept
    BY <2>1 DEF Kept, InFlight
  <2> QED
    BY <2>1, <2>2, HintInvAgain DEF HintInv, HintTypes, QueueIsBounded
<1> QED
  BY <1>1, <1>2, <1>3, <1>4 DEF Next, Disturb

\* The invariant holds at all times.
LEMMA HintInvAlways == Spec => []HintInv
BY HintInvInit, HintInvNext, PTL DEF Spec

\* No interleaving of stores, deliveries and administration makes the queue longer than
\* max_hints_per_endpoint (store_hint, requeue_hints), for any number of threads.
THEOREM QueueStaysBounded == Spec => []QueueIsBounded
<1>1. HintInv => QueueIsBounded
  BY DEF HintInv
<1> QED
  BY <1>1, HintInvAlways, PTL

\* While the process lives no hint vanishes without a reason, whatever stores, deliveries,
\* pauses, purges and truncations run together (deliver_hint_batch, requeue_hints).
THEOREM HintsAreAccountedFor == Spec => []NothingLost
<1>1. HintInv => NothingLost
  BY DEF HintInv
<1> QED
  BY <1>1, HintInvAlways, PTL

-----------------------------------------------------------------------------
\* The counter of hints

\* The counter has room for two full queues, and nobody truncates the store within a
\* topology change: what that does to the counter is a finding of its own.
Countable ==
    /\ 2 * MaxPerEndpoint < Width
    /\ \A s \in Scenarios : ~({"topology", "truncate"} \subseteq s.ops)

\* What a topology change has filtered is counted until it subtracts it.
CountInv ==
    /\ topology \in [pc : {"idle", "filter", "subtract"}, dropped : 0..MaxPerEndpoint]
    /\ topology.pc # "subtract" => topology.dropped = 0
    /\ topology.pc # "idle" => "topology" \in scenario.ops
    /\ total_hints = Len(queue) + topology.dropped

\* A number below the width is itself in that width.
LEMMA ModSmall ==
    ASSUME NEW x \in Int, 0 <= x, x < Width
    PROVE  x % Width = x
BY SMT, BoundAssumption

\* The counter after a change of the queue by n.
LEMMA TotalBecomes ==
    ASSUME Countable, HintInv, CountInv, NEW n \in Int, total_hints' = (total_hints + n) % Width,
           queue' \in Seq(Nat), Len(queue') <= MaxPerEndpoint,
           topology'.dropped \in 0..MaxPerEndpoint,
           Len(queue') + topology'.dropped = Len(queue) + topology.dropped + n
    PROVE  total_hints' = Len(queue') + topology'.dropped
<1> DEFINE x == Len(queue') + topology'.dropped
           y == topology'.dropped
           z == topology.dropped
<1>1. queue \in Seq(Nat) /\ total_hints = Len(queue) + z /\ z \in 0..MaxPerEndpoint /\ MaxPerEndpoint \in Nat
  BY BoundAssumption DEF HintInv, HintTypes, CountInv
<1>2. Len(queue) \in Nat /\ Len(queue') \in Nat /\ y \in 0..MaxPerEndpoint /\ x = Len(queue') + y
  BY SMT, <1>1
<1>3. x = Len(queue) + z + n /\ Len(queue') <= MaxPerEndpoint /\ 2 * MaxPerEndpoint < Width /\ Width \in Nat
  BY BoundAssumption DEF Countable
<1> HIDE DEF x, y, z
<1>4. total_hints + n = x /\ x \in Int /\ 0 <= x /\ x < Width
  BY SMT, <1>1, <1>2, <1>3
<1>5. x % Width = x
  BY <1>4, ModSmall
<1> QED
  BY <1>4, <1>5 DEF x

\* A step that changes the queue and the counter alike keeps the count.
LEMMA CountAgain ==
    ASSUME CountInv, UNCHANGED <<topology, scenario>>, total_hints' = Len(queue') + topology'.dropped
    PROVE  CountInv'
BY DEF CountInv

\* A step that changes neither keeps it.
LEMMA CountIdle ==
    ASSUME CountInv, UNCHANGED <<queue, total_hints, topology, scenario>>
    PROVE  CountInv'
BY DEF CountInv

\* store_hint counts what it appends.
LEMMA CountStore ==
    ASSUME Countable, HintInv, HintInv', CountInv, NEW w \in Writer, Store(w)
    PROVE  CountInv'
<1>0. queue \in Seq(Nat) /\ queue' \in Seq(Nat) /\ Len(queue') <= MaxPerEndpoint /\ next \in Nat /\ Len(queue) <= MaxPerEndpoint
  BY DEF HintInv, HintTypes, QueueIsBounded
<1>1. CASE StoreCheck(w) \/ StorePersist(w)
  BY <1>1, CountIdle DEF StoreCheck, StorePersist, memory, environment
<1>2. CASE StoreInsert(w)
  <2>1. UNCHANGED <<topology, scenario>>
    BY <1>2 DEF StoreInsert, environment
  <2>2. topology.dropped \in 0..MaxPerEndpoint /\ total_hints = Len(queue) + topology.dropped
    BY DEF CountInv
  <2>3. CASE Len(queue) >= MaxPerEndpoint
    <3>1. queue' = Append(Tail(queue), next) /\ total_hints' = total_hints
      BY <1>2, <2>3 DEF StoreInsert
    <3>2. Len(queue') = Len(queue)
      BY SMT, <1>0, <2>3, <3>1, BoundAssumption
    <3> QED
      BY <2>1, <2>2, <3>1, <3>2, CountAgain
  <2>4. CASE ~(Len(queue) >= MaxPerEndpoint)
    <3>1. queue' = Append(queue, next) /\ total_hints' = (total_hints + 1) % Width
      BY <1>2, <2>4 DEF StoreInsert, Total
    <3>2. Len(queue') + topology'.dropped = Len(queue) + topology.dropped + 1 /\ 1 \in Int
      <4>1. Len(queue') = Len(queue) + 1 /\ Len(queue) \in Nat
        BY SMT, <1>0, <3>1
      <4>2. topology'.dropped = topology.dropped
        BY <2>1
      <4> QED
        BY SMT, <2>2, <4>1, <4>2, BoundAssumption
    <3>3. topology'.dropped \in 0..MaxPerEndpoint
      BY <2>1, <2>2
    <3>4. total_hints' = Len(queue') + topology'.dropped
      BY <1>0, <3>1, <3>2, <3>3, TotalBecomes
    <3> QED
      BY <2>1, <3>4, CountAgain
  <2> QED
    BY <2>3, <2>4
<1> QED
  BY <1>1, <1>2 DEF Store

\* A delivery subtracts what it takes and adds what it requeues.
LEMMA CountDeliver ==
    ASSUME Countable, HintInv, HintInv', CountInv, NEW d \in Deliverer, Deliver(d)
    PROVE  CountInv'
<1>0. /\ queue \in Seq(Nat) /\ queue' \in Seq(Nat) /\ Len(queue') <= MaxPerEndpoint
      /\ HintTypes /\ QueueIsBounded /\ Len(queue) \in Nat
      /\ topology.dropped \in 0..MaxPerEndpoint
  <2>1. \A s \in Seq(Nat) : Len(s) \in Nat
    BY SMT
  <2> QED
    BY <2>1 DEF HintInv, HintTypes, QueueIsBounded, CountInv
<1>1. CASE DrainCheck(d) \/ DrainSegments(d) \/ StopDelivery(d) \/ SendHint(d)
  BY <1>1, CountIdle DEF DrainCheck, DrainSegments, StopDelivery, SendHint, memory, environment
<1>2. CASE DrainQueue(d)
  <2>1. queue' = <<>> /\ total_hints' = (total_hints + (-Len(queue))) % Width /\ UNCHANGED <<topology, scenario>>
    BY <1>2 DEF DrainQueue, Total, environment
  <2>2. Len(queue') + topology'.dropped = Len(queue) + topology.dropped + (-Len(queue)) /\ -Len(queue) \in Int
    BY SMT, <1>0, <2>1
  <2>3. total_hints' = Len(queue') + topology'.dropped
    BY <1>0, <2>1, <2>2, TotalBecomes
  <2> QED
    BY <2>1, <2>3, CountAgain
<1>3. CASE Requeue(d)
  <2>1. UNCHANGED <<topology, scenario>>
    BY <1>3 DEF Requeue, environment
  <2>2. PICK kept \in Seq(Nat) : queue' = kept \o queue /\ total_hints' = (total_hints + Len(kept)) % Width
    BY <1>0, <1>3, RequeueFacts
  <2>3. Len(queue') + topology'.dropped = Len(queue) + topology.dropped + Len(kept) /\ Len(kept) \in Int
    BY SMT, <1>0, <2>1, <2>2
  <2>4. total_hints' = Len(queue') + topology'.dropped
    BY <1>0, <2>1, <2>2, <2>3, TotalBecomes
  <2> QED
    BY <2>1, <2>4, CountAgain
<1> QED
  BY <1>1, <1>2, <1>3 DEF Deliver

\* Truncation, topology changes and purges subtract what they remove.
LEMMA CountDisturb ==
    ASSUME Countable, HintInv, HintInv', CountInv, Disturb
    PROVE  CountInv'
<1>0. /\ queue \in Seq(Nat) /\ queue' \in Seq(Nat) /\ Len(queue') <= MaxPerEndpoint /\ Len(queue) <= MaxPerEndpoint
      /\ Len(queue) \in Nat /\ Len(queue') \in Nat /\ MaxPerEndpoint \in Nat
      /\ topology \in [pc : {"idle", "filter", "subtract"}, dropped : 0..MaxPerEndpoint]
      /\ topology.dropped \in 0..MaxPerEndpoint /\ total_hints = Len(queue) + topology.dropped
      /\ 0 \in 0..MaxPerEndpoint
  <2>1. /\ \A s \in Seq(Nat) : Len(s) \in Nat
        /\ 0 \in 0..MaxPerEndpoint
    BY SMT, BoundAssumption
  <2> QED
    BY <2>1, BoundAssumption DEF HintInv, HintTypes, QueueIsBounded, CountInv
<1>1. CASE TopologyPause
  <2> DEFINE t == [topology EXCEPT !.pc = "filter"]
  <2>1. topology' = t /\ topology.pc = "idle" /\ "topology" \in scenario.ops /\ UNCHANGED <<queue, total_hints, scenario>>
    BY <1>1 DEF TopologyPause, memory, environment
  <2>2. /\ t \in [pc : {"idle", "filter", "subtract"}, dropped : 0..MaxPerEndpoint]
        /\ t.pc = "filter" /\ t.dropped = topology.dropped
    BY SMT, <1>0
  <2> HIDE DEF t
  <2> QED
    BY <2>1, <2>2 DEF CountInv
<1>2. CASE TopologyFilter
  <2> DEFINE q == Hold(queue, owned)
             n == Len(queue) - Len(queue')
  <2>1. topology.pc = "filter" /\ queue' = q /\ topology' = [pc |-> "subtract", dropped |-> n] /\ UNCHANGED <<total_hints, scenario>>
    BY <1>2 DEF TopologyFilter, environment
  <2>2. Len(q) <= Len(queue)
    BY <1>0, HoldFacts
  <2>3. n \in 0..MaxPerEndpoint /\ Len(queue) = Len(queue') + n
    BY SMT, <1>0, <2>1, <2>2
  <2> HIDE DEF q, n
  <2>4. topology.dropped = 0 /\ "topology" \in scenario.ops
    BY <2>1 DEF CountInv
  <2>5. total_hints' = Len(queue') + n
    BY SMT, <1>0, <2>1, <2>3, <2>4
  <2> QED
    BY <2>1, <2>3, <2>4, <2>5 DEF CountInv
<1>3. CASE TopologyResume
  <2>1. /\ topology' = [pc |-> "idle", dropped |-> 0] /\ UNCHANGED <<queue, scenario>>
        /\ total_hints' = (total_hints + (-topology.dropped)) % Width
    BY <1>3 DEF TopologyResume, Total, environment
  <2>2. topology'.dropped = 0
    BY <2>1
  <2>3. Len(queue') + topology'.dropped = Len(queue) + topology.dropped + (-topology.dropped) /\ -topology.dropped \in Int
    BY SMT, <1>0, <2>1, <2>2
  <2>4. total_hints' = Len(queue') + topology'.dropped
    BY <1>0, <2>1, <2>2, <2>3, TotalBecomes
  <2> QED
    BY <1>0, <2>1, <2>4 DEF CountInv
<1>4. CASE Truncate
  <2>1. queue' = <<>> /\ total_hints' = 0 /\ "truncate" \in scenario.ops /\ UNCHANGED <<topology, scenario>>
    BY <1>4 DEF Truncate, environment
  <2>2. topology.dropped = 0
    <3>1. scenario \in Scenarios
      BY DEF HintInv, HintTypes
    <3> QED
      BY <2>1, <3>1 DEF Countable, CountInv
  <2>3. total_hints' = Len(queue') + topology'.dropped
    BY SMT, <1>0, <2>1, <2>2
  <2> QED
    BY <2>1, <2>3, CountAgain
<1>5. CASE DeleteHintsFor
  <2>1. queue' = <<>> /\ total_hints' = (total_hints + (-Len(queue))) % Width /\ UNCHANGED <<topology, scenario>>
    BY <1>5 DEF DeleteHintsFor, Total, environment
  <2>2. Len(queue') + topology'.dropped = Len(queue) + topology.dropped + (-Len(queue)) /\ -Len(queue) \in Int
    BY SMT, <1>0, <2>1
  <2>3. total_hints' = Len(queue') + topology'.dropped
    BY <1>0, <2>1, <2>2, TotalBecomes
  <2> QED
    BY <2>1, <2>3, CountAgain
<1>6. CASE DeleteFiles \/ Expire \/ Shutdown
  BY <1>6, CountIdle DEF DeleteFiles, Expire, Shutdown, memory, control, environment
<1>7. CASE PurgeExpired
  <2>1. total_hints' = (total_hints + (Len(queue') - Len(queue))) % Width /\ UNCHANGED <<topology, scenario>>
    BY <1>7 DEF PurgeExpired, Total, control, environment
  <2>2. /\ Len(queue') + topology'.dropped = Len(queue) + topology.dropped + (Len(queue') - Len(queue))
        /\ Len(queue') - Len(queue) \in Int
    BY SMT, <1>0, <2>1
  <2>3. total_hints' = Len(queue') + topology'.dropped
    BY <1>0, <2>1, <2>2, TotalBecomes
  <2> QED
    BY <2>1, <2>3, CountAgain
<1>8. CASE Crash
  <2>1. queue' = <<>> /\ total_hints' = 0 /\ topology' = [pc |-> "idle", dropped |-> 0] /\ scenario' = scenario
    BY <1>8 DEF Crash
  <2>2. topology'.dropped = 0 /\ topology'.pc = "idle"
    BY <2>1
  <2>3. total_hints' = Len(queue') + topology'.dropped
    BY SMT, <2>1, <2>2
  <2> QED
    BY <1>0, <2>1, <2>2, <2>3 DEF CountInv
<1> QED
  BY <1>1, <1>2, <1>3, <1>4, <1>5, <1>6, <1>7, <1>8 DEF Disturb

\* total_hints is the number of hints in the queue (store_hint, drain_hints, requeue_hints,
\* purge_expired, delete_hints_for), except within a topology change.
THEOREM TotalStaysExact ==
    ASSUME Countable
    PROVE  Spec => []TotalIsCount
<1>1. Init => CountInv
  <2> SUFFICES ASSUME Init PROVE CountInv
    OBVIOUS
  <2>1. queue = <<>> /\ total_hints = 0 /\ topology = [pc |-> "idle", dropped |-> 0]
    BY DEF Init
  <2>2. topology.dropped = 0 /\ topology.pc = "idle"
    BY <2>1
  <2>3. total_hints = Len(queue) + topology.dropped /\ 0 \in 0..MaxPerEndpoint
    BY SMT, <2>1, <2>2, BoundAssumption
  <2> QED
    BY <2>1, <2>2, <2>3 DEF CountInv
<1>2. HintInv /\ HintInv' /\ CountInv /\ [Next]_vars => CountInv'
  <2> SUFFICES ASSUME HintInv, HintInv', CountInv, [Next]_vars PROVE CountInv'
    OBVIOUS
  <2>1. ASSUME NEW w \in scenario.writers, Store(w) PROVE CountInv'
    BY <2>1, ScenarioThreads, CountStore DEF HintInv
  <2>2. ASSUME NEW d \in scenario.deliverers, Deliver(d) PROVE CountInv'
    BY <2>2, ScenarioThreads, CountDeliver DEF HintInv
  <2>3. CASE Disturb
    BY <2>3, CountDisturb
  <2>4. CASE UNCHANGED vars
    BY <2>4, CountIdle DEF vars, memory, control, environment
  <2> QED
    BY <2>1, <2>2, <2>3, <2>4 DEF Next, Disturb
<1>3. HintInv /\ CountInv => TotalIsCount
  <2> SUFFICES ASSUME HintInv, CountInv, topology.pc # "subtract" PROVE total_hints = Len(queue)
    BY DEF TotalIsCount
  <2>1. queue \in Seq(Nat) /\ total_hints = Len(queue) + topology.dropped /\ topology.dropped = 0
    BY DEF HintInv, HintTypes, CountInv
  <2> QED
    BY SMT, <2>1
<1> QED
  BY <1>1, <1>2, <1>3, HintInvAlways, PTL DEF Spec

-----------------------------------------------------------------------------
\* The order of hints

\* Where the periodic pass is the only delivery, hints are kept in memory only: the
\* segments are in the order in which writers came to append.
InMemoryOnly == \A s \in Scenarios : s.deliverers = {"periodic"} => ~s.persist

Alone == scenario.deliverers = {"periodic"}

Pass == deliverer["periodic"]

Before(s, t) == \A x \in Range(s), y \in Range(t) : x < y

\* What the pass puts back is older than what it still holds, which is older than the queue.
OrderInv ==
    Alone =>
        /\ buffer = <<>> /\ files = <<>> /\ \A w \in Writer : writer[w].pc # "persist"
        /\ Ordered(Pass.requeue) /\ Ordered(Pass.batch) /\ Ordered(queue)
        /\ Before(Pass.requeue, Pass.batch) /\ Before(Pass.requeue, queue) /\ Before(Pass.batch, queue)
        /\ \A x \in Range(Pass.requeue) \cup Range(Pass.batch) \cup Range(queue) : x < next

\* Appending a larger element keeps a sequence ordered.
LEMMA AppendOrdered ==
    ASSUME NEW s \in Seq(Nat), NEW h \in Nat, Ordered(s), \A x \in Range(s) : x < h
    PROVE  Ordered(Append(s, h)) /\ Range(Append(s, h)) = Range(s) \cup {h}
<1> DEFINE a == Append(s, h)
<1>1. /\ Len(s) \in Nat /\ DOMAIN s = 1 .. Len(s) /\ DOMAIN a = 1 .. Len(s) + 1
      /\ a[Len(s) + 1] = h /\ \A i \in 1 .. Len(s) : a[i] = s[i]
  BY SMT
<1>2. Range(a) = Range(s) \cup {h}
  BY SMT, AppendRange
<1> HIDE DEF a
<1>3. \A i \in 1 .. Len(s) : s[i] < h
  BY <1>1 DEF Range
<1>4. ASSUME NEW i \in 1 .. Len(s) + 1, NEW j \in 1 .. Len(s) + 1, i < j PROVE a[i] < a[j]
  <2>1. i \in 1 .. Len(s) /\ (j \in 1 .. Len(s) \/ j = Len(s) + 1)
    BY SMT, <1>1, <1>4
  <2> QED
    BY <1>1, <1>3, <1>4, <2>1 DEF Ordered
<1>5. Ordered(a)
  BY <1>1, <1>4 DEF Ordered
<1> QED
  BY <1>2, <1>5 DEF a

\* With one delivery there is one batch and one requeue list.
LEMMA AloneFacts ==
    ASSUME HintTypes, Alone
    PROVE  /\ "periodic" \in Deliverer /\ \A d \in scenario.deliverers : d = "periodic"
           /\ Pass.batch \in Seq(Nat) /\ Pass.requeue \in Seq(Nat) /\ queue \in Seq(Nat)
<1>1. "periodic" \in Deliverer
  BY ScenarioThreads DEF Alone
<1> QED
  BY <1>1 DEF Alone, HintTypes, DelivererRecord, Pass

\* Nothing was added, and nothing moved.
LEMMA OrderFewer ==
    ASSUME OrderInv, UNCHANGED <<deliverer, scenario, next>>, Range(queue') \subseteq Range(queue),
           Ordered(queue) => Ordered(queue'),
           Alone => buffer' = <<>> /\ files' = <<>> /\ \A w \in Writer : writer'[w].pc # "persist"
    PROVE  OrderInv'
<1>1. Alone' = Alone /\ Pass' = Pass /\ next' = next
  BY DEF Alone, Pass
<1> SUFFICES ASSUME Alone PROVE OrderInv'
  BY <1>1 DEF OrderInv
<1> QED
  BY <1>1 DEF OrderInv, Before

\* A new hint is behind all others.
LEMMA OrderStore ==
    ASSUME InMemoryOnly, HintInv, OrderInv, NEW w \in Writer, Store(w)
    PROVE  OrderInv'
<1>0. /\ HintTypes /\ queue \in Seq(Nat) /\ next \in Nat /\ scenario \in Scenarios
      /\ writer \in [Writer -> WriterRecord]
  BY DEF HintInv, HintTypes
<1>1. CASE StoreCheck(w)
  <2>1. /\ writer' = [writer EXCEPT ![w].pc = "insert"]
        /\ UNCHANGED <<queue, buffer, files, deliverer, next, scenario>>
    BY <1>1 DEF StoreCheck, memory, disk, environment
  <2>2. \A u \in Writer : writer'[u].pc \in {writer[u].pc, "insert"}
    BY SMT, <1>0, <2>1 DEF WriterRecord
  <2>3. Alone => buffer' = <<>> /\ files' = <<>> /\ \A u \in Writer : writer'[u].pc # "persist"
    BY <2>1, <2>2 DEF OrderInv
  <2> QED
    BY <2>1, <2>3, OrderFewer
<1>2. CASE StorePersist(w)
  <2>1. writer[w].pc = "persist" /\ scenario' = scenario
    BY <1>2 DEF StorePersist, environment
  <2>2. ~Alone
    BY <2>1 DEF OrderInv
  <2> QED
    BY <2>1, <2>2 DEF OrderInv, Alone
<1>3. CASE StoreInsert(w)
  <2>1. /\ next' = next + 1 /\ UNCHANGED <<buffer, files, deliverer, scenario>>
        /\ writer' = [writer EXCEPT ![w] =
                        IF scenario.persist THEN [pc |-> "persist", hint |-> next] ELSE IdleWriter]
    BY <1>3 DEF StoreInsert, disk, environment
  <2> SUFFICES ASSUME Alone PROVE OrderInv'
    BY <2>1 DEF OrderInv, Alone
  <2>2. \A u \in Writer : writer'[u].pc # "persist"
    <3>1. ~scenario.persist
      BY <1>0 DEF InMemoryOnly, Alone
    <3>2. writer' = [writer EXCEPT ![w] = IdleWriter]
      BY <2>1, <3>1
    <3>3. \A u \in Writer : writer'[u] \in {writer[u], IdleWriter}
      BY <1>0, <3>2
    <3>4. IdleWriter.pc # "persist"
      BY DEF IdleWriter
    <3> QED
      BY <3>3, <3>4 DEF OrderInv
  <2>3. Pass' = Pass /\ Pass.batch \in Seq(Nat) /\ Pass.requeue \in Seq(Nat)
    BY <1>0, <2>1, AloneFacts DEF Pass
  <2>4. PICK q \in Seq(Nat) : queue' = Append(q, next) /\ Ordered(q) /\ Range(q) \subseteq Range(queue)
    <3>1. CASE Len(queue) >= MaxPerEndpoint
      <4>1. queue' = Append(Tail(queue), next)
        BY <1>3, <3>1 DEF StoreInsert
      <4>2. queue # <<>> /\ Ordered(queue) /\ Nat \in SUBSET Int
        <5>1. queue # <<>> /\ Nat \in SUBSET Int
          BY SMT, <1>0, <3>1, BoundAssumption
        <5> QED
          BY <5>1 DEF OrderInv
      <4>3. Tail(queue) \in Seq(Nat) /\ Range(Tail(queue)) \subseteq Range(queue)
        BY <1>0, <4>2, TailRange
      <4>4. Ordered(Tail(queue))
        BY <1>0, <4>2, TailOrdered
      <4> QED
        BY <4>1, <4>3, <4>4
    <3>2. CASE ~(Len(queue) >= MaxPerEndpoint)
      BY <1>0, <1>3, <3>2 DEF StoreInsert, OrderInv
    <3> QED
      BY <3>1, <3>2
  <2>5. /\ Range(queue') = Range(q) \cup {next} /\ Ordered(queue')
    <3>1. \A x \in Range(q) : x < next
      BY <2>4 DEF OrderInv
    <3> QED
      BY <1>0, <2>4, <3>1, AppendOrdered
  <2>6. \A x \in Range(Pass.requeue) \cup Range(Pass.batch) \cup Range(queue) : x < next /\ x \in Int
    <3>1. Range(Pass.requeue) \cup Range(Pass.batch) \cup Range(queue) \subseteq Nat /\ Nat \subseteq Int
      <4>1. Nat \subseteq Int
        BY SMT
      <4> QED
        BY <1>0, <2>3, <4>1, RangeIn
    <3> QED
      BY <3>1 DEF OrderInv
  <2>7. \A x \in Int : x < next => x < next'
    BY SMT, <1>0, <2>1
  <2>8. next < next'
    BY SMT, <1>0, <2>1
  <2>9. Range(queue') \subseteq Range(queue) \cup {next}
    BY <2>4, <2>5
  <2>10. /\ Before(Pass'.requeue, Pass'.batch) /\ Before(Pass'.requeue, queue') /\ Before(Pass'.batch, queue')
         /\ Ordered(Pass'.requeue) /\ Ordered(Pass'.batch)
    BY <2>3, <2>6, <2>9 DEF OrderInv, Before
  <2>11. \A x \in Range(Pass'.requeue) \cup Range(Pass'.batch) \cup Range(queue') : x < next'
    BY <2>3, <2>6, <2>7, <2>8, <2>9
  <2> QED
    BY <2>1, <2>2, <2>5, <2>10, <2>11 DEF OrderInv
<1> QED
  BY <1>1, <1>2, <1>3 DEF Store

\* Dropping elements keeps the order of the others.
LEMMA HoldOrdered ==
    ASSUME NEW ids \in Seq(Nat), NEW S
    PROVE  Range(Hold(ids, S)) \subseteq Range(ids) /\ (Ordered(ids) => Ordered(Hold(ids, S)))
<1>1. Nat \subseteq Int
  BY SMT
<1>2. Range(Hold(ids, S)) = Range(ids) \cap S
  BY HoldFacts
<1>3. Nat \subseteq Int /\ Ordered(ids) => Ordered(Hold(ids, S))
  BY SMT, HoldFacts
<1> QED
  BY <1>1, <1>2, <1>3

\* Without files and a buffer no hints are in segments.
LEMMA SegmentsEmpty ==
    ASSUME buffer = <<>>, files = <<>>
    PROVE  SegmentHints = <<>>
<1> DEFINE s == [i \in DOMAIN files |-> IF files[i].torn THEN <<>> ELSE files[i].hints]
<1>1. DOMAIN files = {} /\ Len(files) = 0
  BY SMT
<1>2. s = <<>>
  BY SMT, <1>1
<1>3. SegmentHints = Flatten(s) \o buffer
  BY DEF SegmentHints
<1> HIDE DEF s
<1>4. s \in Seq(Seq(Nat)) /\ Len(s) = 0
  BY SMT, <1>2
<1>5. PICK f : Unrolled(f, Nat, s, Len(s))
  BY <1>4, FlattenUpto
<1>6. Flatten(s) = <<>>
  BY <1>4, <1>5 DEF Unrolled
<1> QED
  BY SMT, <1>3, <1>6

\* A delivery requeues what failed ahead of what came later.
LEMMA OrderDeliver ==
    ASSUME InMemoryOnly, HintInv, OrderInv, NEW d \in scenario.deliverers, Deliver(d)
    PROVE  OrderInv'
<1>s. scenario' = scenario
  BY DEF Deliver, DrainCheck, DrainQueue, DrainSegments, StopDelivery, SendHint, Requeue, environment
<1> SUFFICES ASSUME Alone PROVE OrderInv'
  BY <1>s DEF OrderInv, Alone
<1>0. HintTypes /\ QueueIsBounded /\ "periodic" \in Deliverer /\ d = "periodic" /\ deliverer["periodic"] = Pass
  BY AloneFacts DEF HintInv, Pass
<1>1. /\ Pass.batch \in Seq(Nat) /\ Pass.requeue \in Seq(Nat) /\ queue \in Seq(Nat)
      /\ deliverer \in [Deliverer -> DelivererRecord] /\ Pass \in DelivererRecord
      /\ Nat \in SUBSET Int /\ <<>> \in Seq(Nat) /\ Range(<<>>) = {} /\ Ordered(<<>>)
  <2>1. Nat \in SUBSET Int
    BY SMT
  <2> QED
    BY <1>0, <2>1, AloneFacts, EmptySeq DEF HintTypes, Pass
<1>2. /\ buffer = <<>> /\ files = <<>> /\ \A w \in Writer : writer[w].pc # "persist"
      /\ Ordered(Pass.requeue) /\ Ordered(Pass.batch) /\ Ordered(queue)
      /\ Before(Pass.requeue, Pass.batch) /\ Before(Pass.requeue, queue) /\ Before(Pass.batch, queue)
      /\ \A x \in Range(Pass.requeue) \cup Range(Pass.batch) \cup Range(queue) : x < next
  BY DEF OrderInv
<1>a. ASSUME NEW B, NEW R, Pass'.batch = B, Pass'.requeue = R, Ordered(B), Ordered(R), Ordered(queue'),
             Before(R, B), Before(R, queue'), Before(B, queue'),
             Range(R) \cup Range(B) \cup Range(queue') \subseteq Range(Pass.requeue) \cup Range(Pass.batch) \cup Range(queue),
             buffer' = <<>>, files' = <<>>, UNCHANGED <<writer, next>>
      PROVE  OrderInv'
  <2>1. /\ Ordered(Pass'.requeue) /\ Ordered(Pass'.batch) /\ Before(Pass'.requeue, Pass'.batch)
        /\ Before(Pass'.requeue, queue') /\ Before(Pass'.batch, queue')
    BY <1>a
  <2>2. \A x \in Range(Pass'.requeue) \cup Range(Pass'.batch) \cup Range(queue') : x < next'
    BY <1>2, <1>a
  <2> QED
    BY <1>2, <1>a, <2>1, <2>2 DEF OrderInv
<1>b. ASSUME NEW w, deliverer' = [deliverer EXCEPT ![d] = w] PROVE Pass' = w
  BY <1>0, <1>1, <1>b DEF Pass
<1>3. CASE DrainCheck(d)
  <2> DEFINE w == [Pass EXCEPT !.pc = "drain"]
  <2>1. deliverer' = [deliverer EXCEPT ![d] = w] /\ UNCHANGED <<queue, buffer, files, writer, next>>
    BY <1>0, <1>3 DEF DrainCheck, memory, disk
  <2>2. w.batch = Pass.batch /\ w.requeue = Pass.requeue
    BY SMT, <1>1 DEF DelivererRecord
  <2> HIDE DEF w
  <2>3. Pass'.batch = Pass.batch /\ Pass'.requeue = Pass.requeue
    BY <1>b, <2>1, <2>2
  <2> QED
    BY <1>2, <1>a, <2>1, <2>3
<1>s1. ASSUME NEW hints \in Seq(Nat), Start(d, hints)
       PROVE  Pass'.requeue = <<>> /\ Pass'.batch = Hold(hints, Wanted(d))
  <2> DEFINE b == Hold(hints, Wanted(d))
             w == IF b = <<>> THEN IdleDeliverer ELSE [pc |-> "send", batch |-> b, requeue |-> <<>>]
  <2>1. deliverer' = [deliverer EXCEPT ![d] = w]
    BY <1>s1 DEF Start
  <2> HIDE DEF b
  <2>2. w.batch = b /\ w.requeue = <<>>
    BY IdleTypes
  <2> HIDE DEF w
  <2> QED
    BY <1>b, <2>1, <2>2 DEF b
<1>4. CASE DrainQueue(d)
  <2>1. queue' = <<>> /\ Start(d, queue) /\ UNCHANGED <<buffer, files, writer, next>>
    BY <1>4 DEF DrainQueue, disk
  <2> DEFINE b == Hold(queue, Wanted(d))
  <2>2. Pass'.requeue = <<>> /\ Pass'.batch = b
    BY <1>1, <1>s1, <2>1
  <2>3. Ordered(b) /\ Range(b) \subseteq Range(queue)
    BY <1>1, <1>2, HoldOrdered
  <2> HIDE DEF b
  <2>4. Before(<<>>, b) /\ Before(<<>>, queue') /\ Before(b, queue')
    BY <1>1, <2>1 DEF Before
  <2> QED
    BY <1>1, <1>2, <1>a, <2>1, <2>2, <2>3, <2>4
<1>5. CASE DrainSegments(d)
  <2>1. buffer' = <<>> /\ files' = <<>> /\ Start(d, SegmentHints) /\ UNCHANGED <<queue, writer, next>>
    BY <1>5 DEF DrainSegments, memory
  <2>2. SegmentHints = <<>>
    BY <1>2, SegmentsEmpty
  <2>3. Pass'.requeue = <<>> /\ Pass'.batch = Hold(<<>>, Wanted(d))
    BY <1>1, <1>s1, <2>1, <2>2
  <2>4. Hold(<<>>, Wanted(d)) = <<>>
    <3> DEFINE b == Hold(<<>>, Wanted(d))
    <3>1. b \in Seq(Nat) /\ Len(b) <= Len(<<>>)
      BY <1>1, HoldFacts
    <3> HIDE DEF b
    <3>2. b = <<>>
      BY SMT, <3>1
    <3> QED
      BY <3>2 DEF b
  <2>5. Before(<<>>, <<>>) /\ Before(<<>>, queue')
    BY <1>1 DEF Before
  <2> QED
    BY <1>1, <1>2, <1>a, <2>1, <2>3, <2>4, <2>5
<1>6. CASE StopDelivery(d)
  <2> DEFINE u == Pass.requeue
             v == Pass.batch
             r == u \o v
             w == [pc |-> "send", batch |-> <<>>, requeue |-> r]
  <2>1. deliverer' = [deliverer EXCEPT ![d] = w] /\ UNCHANGED <<queue, buffer, files, writer, next>>
    BY <1>0, <1>6 DEF StopDelivery, memory, disk
  <2>2. w.batch = <<>> /\ w.requeue = r
    OBVIOUS
  <2>3. Pass'.batch = <<>> /\ Pass'.requeue = r
    BY <1>b, <2>1, <2>2
  <2>4. u \in Seq(Nat) /\ v \in Seq(Nat) /\ Ordered(u) /\ Ordered(v) /\ Before(u, v)
    BY <1>1, <1>2
  <2> HIDE DEF u, v, w
  <2>5. Ordered(r)
    BY <1>1, <2>4, ConcatOrdered DEF Before
  <2>6. Range(r) = Range(u) \cup Range(v)
    BY SMT, <2>4, ConcatRange
  <2> HIDE DEF r
  <2>7. Before(r, <<>>) /\ Before(r, queue') /\ Before(<<>>, queue')
    BY <1>1, <1>2, <2>1, <2>6 DEF Before, u, v
  <2>8. Range(r) \cup Range(<<>>) \cup Range(queue') \subseteq Range(Pass.requeue) \cup Range(Pass.batch) \cup Range(queue)
    BY <1>1, <2>1, <2>6 DEF u, v
  <2> QED
    BY <1>1, <1>2, <1>a, <2>1, <2>3, <2>5, <2>7, <2>8
<1>7. CASE SendHint(d)
  <2> DEFINE h == Head(Pass.batch)
             t == Tail(Pass.batch)
             u == Pass.requeue
  <2>1. /\ Pass.batch # <<>> /\ UNCHANGED <<queue, buffer, files, writer, next>>
        /\ \/ deliverer' = [deliverer EXCEPT ![d].batch = t]
           \/ deliverer' = [deliverer EXCEPT ![d] = [pc |-> "send", batch |-> t, requeue |-> Append(u, h)]]
    BY <1>0, <1>7 DEF SendHint, memory, disk
  <2>2. t \in Seq(Nat) /\ h \in Nat /\ Range(Pass.batch) = {h} \cup Range(t)
    BY <1>1, <2>1, TailRange
  <2>3. Ordered(t) /\ \A y \in Range(t) : h < y
    BY <1>1, <1>2, <2>1, TailOrdered
  <2>4. u \in Seq(Nat) /\ Ordered(u) /\ \A x \in Range(u) : x < h
    BY <1>1, <1>2, <2>2 DEF Before
  <2> HIDE DEF h, t
  <2>5. Pass'.batch = t /\ Pass'.requeue \in {u, Append(u, h)}
    <3>1. CASE deliverer' = [deliverer EXCEPT ![d].batch = t]
      <4> DEFINE w == [Pass EXCEPT !.batch = t]
      <4>1. w.batch = t /\ w.requeue = Pass.requeue
        BY SMT, <1>1 DEF DelivererRecord
      <4>2. deliverer' = [deliverer EXCEPT ![d] = w]
        BY <1>0, <3>1
      <4> HIDE DEF w
      <4> QED
        BY <1>b, <4>1, <4>2
    <3>2. CASE deliverer' = [deliverer EXCEPT ![d] = [pc |-> "send", batch |-> t, requeue |-> Append(u, h)]]
      <4> DEFINE w == [pc |-> "send", batch |-> t, requeue |-> Append(u, h)]
      <4>1. Pass' = w
        BY <1>b, <3>2
      <4> QED
        BY <4>1
    <3> QED
      BY <2>1, <3>1, <3>2
  <2> HIDE DEF u
  <2>8. Ordered(Append(u, h)) /\ Range(Append(u, h)) = Range(u) \cup {h}
    BY <2>2, <2>4, AppendOrdered
  <2>9. PICK R \in {u, Append(u, h)} : Pass'.requeue = R
    BY <2>5
  <2>10. Ordered(R) /\ Range(R) \subseteq Range(u) \cup {h}
    BY <2>4, <2>8
  <2>11. Before(R, t) /\ Before(R, queue') /\ Before(t, queue')
    <3>1. \A x \in Range(u), y \in Range(t) : x < y
      BY <1>2, <2>2 DEF Before, u
    <3>2. \A x \in Range(u) \cup {h} \cup Range(t), y \in Range(queue) : x < y
      BY <1>2, <2>2 DEF Before, u
    <3> QED
      BY <2>1, <2>3, <2>10, <3>1, <3>2 DEF Before
  <2>12. Range(R) \cup Range(t) \cup Range(queue') \subseteq Range(Pass.requeue) \cup Range(Pass.batch) \cup Range(queue)
    BY <2>1, <2>2, <2>10 DEF u
  <2> QED
    BY <1>2, <1>a, <2>1, <2>3, <2>5, <2>9, <2>10, <2>11, <2>12
<1>8. CASE Requeue(d)
  <2>1. deliverer' = [deliverer EXCEPT ![d] = IdleDeliverer] /\ UNCHANGED <<buffer, files, writer, next>>
    BY <1>8 DEF Requeue, disk
  <2>2. Pass'.batch = <<>> /\ Pass'.requeue = <<>>
    BY <1>b, <2>1, IdleTypes
  <2>3. PICK kept \in Seq(Nat) :
           /\ queue' = kept \o queue /\ Range(kept) \subseteq Range(Pass.requeue)
           /\ Ordered(Pass.requeue) => Ordered(kept)
    BY <1>0, <1>8, RequeueFacts
  <2>4. \A x \in Range(kept), y \in Range(queue) : x < y
    BY <1>2, <2>3 DEF Before
  <2>5. Ordered(kept \o queue)
    BY <1>1, <1>2, <2>3, <2>4, ConcatOrdered
  <2>6. Range(kept \o queue) = Range(kept) \cup Range(queue)
    BY SMT, <1>1, ConcatRange
  <2>7. Before(<<>>, <<>>) /\ Before(<<>>, queue')
    BY <1>1 DEF Before
  <2>8. Range(<<>>) \cup Range(<<>>) \cup Range(queue') \subseteq Range(Pass.requeue) \cup Range(Pass.batch) \cup Range(queue)
    BY <1>1, <2>3, <2>6
  <2> QED
    BY <1>1, <1>2, <1>a, <2>1, <2>2, <2>3, <2>5, <2>7, <2>8
<1> QED
  BY <1>3, <1>4, <1>5, <1>6, <1>7, <1>8 DEF Deliver

\* Truncation, topology changes and purges keep the order of what they leave.
LEMMA OrderDisturb ==
    ASSUME HintInv, OrderInv, Disturb
    PROVE  OrderInv'
<1>0. queue \in Seq(Nat) /\ <<>> \in Seq(Nat) /\ Range(<<>>) = {} /\ Ordered(<<>>) /\ Nat \subseteq Int
  <2>1. Nat \subseteq Int
    BY SMT
  <2> QED
    BY <2>1, EmptySeq DEF HintInv, HintTypes
<1>1. ASSUME UNCHANGED <<queue, buffer, files, writer, deliverer, next, scenario>> PROVE OrderInv'
  BY <1>1, OrderFewer DEF OrderInv
<1>2. CASE TopologyPause \/ TopologyResume \/ Expire \/ Shutdown
  BY <1>1, <1>2 DEF TopologyPause, TopologyResume, Expire, Shutdown, memory, disk, control, environment
<1>h. ASSUME NEW S, queue' = Hold(queue, S), UNCHANGED <<buffer, files, writer, deliverer, next, scenario>>
      PROVE  OrderInv'
  <2> DEFINE q == Hold(queue, S)
  <2>1. Range(q) \subseteq Range(queue) /\ (Ordered(queue) => Ordered(q))
    BY <1>0, HoldOrdered
  <2> HIDE DEF q
  <2>2. queue' = q
    BY <1>h DEF q
  <2> QED
    BY <1>h, <2>1, <2>2, OrderFewer DEF OrderInv
<1>3. CASE TopologyFilter
  BY <1>3, <1>h DEF TopologyFilter, disk, environment
<1>4. CASE PurgeExpired
  BY <1>4, <1>h DEF PurgeExpired, Without, disk, control, environment
<1>5. CASE Truncate \/ DeleteHintsFor
  <2>1. queue' = <<>> /\ UNCHANGED <<buffer, files, writer, deliverer, next, scenario>>
    BY <1>5 DEF Truncate, DeleteHintsFor, disk, environment
  <2> QED
    BY <1>0, <2>1, OrderFewer DEF OrderInv
<1>6. CASE DeleteFiles
  <2>1. buffer' = <<>> /\ files' = <<>> /\ UNCHANGED <<queue, writer, deliverer, next, scenario>>
    BY <1>6 DEF DeleteFiles, memory, environment
  <2> QED
    BY <2>1, OrderFewer DEF OrderInv
<1>7. CASE Crash
  <2>1. /\ queue' = <<>> /\ writer' = [w \in Writer |-> IdleWriter]
        /\ deliverer' = [d \in Deliverer |-> IdleDeliverer] /\ buffer' = <<>> /\ UNCHANGED <<next, scenario>>
    BY <1>7 DEF Crash
  <2> SUFFICES ASSUME Alone PROVE OrderInv'
    BY <2>1 DEF OrderInv, Alone
  <2>2. "periodic" \in Deliverer /\ buffer = <<>> /\ files = <<>>
    BY AloneFacts DEF HintInv, OrderInv
  <2>3. files' = <<>>
    <3>1. PICK n \in 0 .. Len(buffer), torn \in BOOLEAN :
            /\ torn => n < Len(buffer)
            /\ files' = IF n = 0 /\ ~torn THEN files
                        ELSE Append(files, [hints |-> SubSeq(buffer, 1, n), torn |-> torn])
      BY <1>7 DEF Crash
    <3>2. n = 0 /\ ~(n < Len(buffer))
      BY SMT, <2>2
    <3> QED
      BY <2>2, <3>1, <3>2
  <2>4. Pass'.batch = <<>> /\ Pass'.requeue = <<>>
    BY <2>1, <2>2, IdleTypes DEF Pass
  <2>5. \A w \in Writer : writer'[w].pc # "persist"
    BY <2>1 DEF IdleWriter
  <2>6. Before(<<>>, <<>>)
    BY <1>0 DEF Before
  <2> QED
    BY <1>0, <2>1, <2>3, <2>4, <2>5, <2>6 DEF OrderInv
<1> QED
  BY <1>2, <1>3, <1>4, <1>5, <1>6, <1>7 DEF Disturb

\* With the periodic pass as the only delivery, older writes do not fall behind later ones,
\* failed and interrupted deliveries included (deliver_hint_batch, requeue_hints).
THEOREM OlderHintsStayAhead ==
    ASSUME InMemoryOnly
    PROVE  Spec => []OldestFirst
<1>1. Init => OrderInv
  <2> SUFFICES ASSUME Init, Alone PROVE OrderInv
    BY DEF OrderInv
  <2>1. Range(<<>>) = {} /\ Ordered(<<>>) /\ "periodic" \in Deliverer
    BY HintInvInit, AloneFacts, EmptySeq DEF HintInv
  <2>2. Pass.batch = <<>> /\ Pass.requeue = <<>> /\ queue = <<>> /\ buffer = <<>> /\ files = <<>>
    BY <2>1, IdleTypes DEF Pass, Init
  <2>3. \A w \in Writer : writer[w].pc # "persist"
    BY DEF Init, IdleWriter
  <2>4. Before(<<>>, <<>>)
    BY <2>1 DEF Before
  <2> QED
    BY <2>1, <2>2, <2>3, <2>4 DEF OrderInv
<1>2. HintInv /\ OrderInv /\ [Next]_vars => OrderInv'
  <2> SUFFICES ASSUME HintInv, OrderInv, [Next]_vars PROVE OrderInv'
    OBVIOUS
  <2>1. ASSUME NEW w \in scenario.writers, Store(w) PROVE OrderInv'
    BY <2>1, ScenarioThreads, OrderStore DEF HintInv
  <2>2. ASSUME NEW d \in scenario.deliverers, Deliver(d) PROVE OrderInv'
    BY <2>2, OrderDeliver
  <2>3. CASE Disturb
    BY <2>3, OrderDisturb
  <2>4. CASE UNCHANGED vars
    <3>1. UNCHANGED <<queue, buffer, files, writer, deliverer, next, scenario>>
      BY <2>4 DEF vars, memory, disk, control, environment
    <3> QED
      BY <3>1, OrderFewer DEF OrderInv
  <2> QED
    BY <2>1, <2>2, <2>3, <2>4 DEF Next, Disturb
<1>3. OrderInv => OldestFirst
  BY DEF OrderInv, OldestFirst, InOrder, Ordered, Alone
<1> QED
  BY <1>1, <1>2, <1>3, HintInvAlways, PTL DEF Spec

=============================================================================
