---------------------------- MODULE StreamLemmas ----------------------------
(***************************************************************************)
(* What the proofs about several modules need of natural numbers and of    *)
(* sequences: induction, what flattening a sequence of sequences is, and   *)
(* what the messages of a stream become, one after another.                *)
(***************************************************************************)
EXTENDS Naturals, Sequences, SequencesExt, TLAPS, SequenceTheorems, NaturalsInduction,
        WellFoundedInduction

(***************************************************************************)
(* Induction over the natural numbers, for the members of a set.           *)
(***************************************************************************)
\* Of some numbers one is the least.
LEMMA NatMin ==
  ASSUME NEW T \in SUBSET Nat, T # {}
  PROVE  \E x \in T : \A y \in T : x <= y
<1> DEFINE R == OpToRel(<, Nat)
<1>1. IsWellFoundedOn(R, Nat)
  BY NatLessThanWellFounded
<1>2. PICK x \in T : \A y \in T : <<y, x>> \notin R
  <2> HIDE DEF R
  <2> QED
    BY <1>1, WFMin
<1>3. \A y, z \in Nat : y < z => <<y, z>> \in R
  BY DEF OpToRel
<1>4. ASSUME NEW y \in T
      PROVE  x <= y
  <2>1. <<y, x>> \notin R
    BY <1>2
  <2>2. ~(y < x)
    BY <1>3, <2>1
  <2> QED
    BY <2>2
<1> QED
  BY <1>4

\* A set with zero and the successors of its members has all numbers.
LEMMA NatInduct ==
  ASSUME NEW S, 0 \in S, \A n \in Nat : n \in S => n + 1 \in S
  PROVE  Nat \subseteq S
<1> SUFFICES ASSUME Nat \ S # {}
             PROVE  FALSE
  OBVIOUS
<1>1. PICK x \in Nat \ S : \A y \in Nat \ S : x <= y
  BY NatMin
<1>2. x # 0 /\ x - 1 \in Nat /\ x - 1 \in S
  BY <1>1
<1> QED
  BY <1>1, <1>2

(***************************************************************************)
(* Flattening a sequence of sequences.                                     *)
(***************************************************************************)
\* What the recursive function of FlattenSeq is defined to be, up to n.
Flattens(f, n, ss) == \A i \in 1..n : f[i] = IF i = 1 THEN ss[i] ELSE f[i - 1] \o ss[i]

\* There is one.
LEMMA FlattenExists ==
  ASSUME NEW S, NEW n \in Nat, NEW ss \in [1..n -> Seq(S)]
  PROVE  \E f \in [1..n -> Seq(S)] : Flattens(f, n, ss)
<1> DEFINE E(k) == \E f \in [1..k -> Seq(S)] : Flattens(f, k, ss)
<1> DEFINE T == {k \in Nat : k <= n => E(k)}
<1>1. 0 \in T
  <2> DEFINE f == [i \in 1..0 |-> <<>>]
  <2>1. f \in [1..0 -> Seq(S)] /\ 1..0 = {}
    OBVIOUS
  <2> QED
    BY <2>1 DEF Flattens
<1>2. ASSUME NEW k \in Nat, k \in T
      PROVE  k + 1 \in T
  <2> SUFFICES ASSUME k + 1 <= n
               PROVE  E(k + 1)
    <3> HIDE DEF E
    <3> QED
      OBVIOUS
  <2>1. E(k)
    <3> HIDE DEF E
    <3> QED
      BY <1>2
  <2>2. PICK g \in [1..k -> Seq(S)] : Flattens(g, k, ss)
    BY <2>1
  <2> DEFINE last == IF k = 0 THEN ss[k + 1] ELSE g[k] \o ss[k + 1]
  <2>3. k + 1 \in 1..n /\ ss[k + 1] \in Seq(S)
    OBVIOUS
  <2>4. k # 0 => k \in 1..k /\ g[k] \in Seq(S)
    BY <2>2
  <2>5. last \in Seq(S)
    BY <2>3, <2>4, ConcatProperties
  <2> DEFINE f == [i \in 1..(k + 1) |-> IF i <= k THEN g[i] ELSE last]
  <2>6. f \in [1..(k + 1) -> Seq(S)]
    <3> HIDE DEF last
    <3> QED
      BY <2>2, <2>5
  <2>7. ASSUME NEW i \in 1..(k + 1)
        PROVE  f[i] = IF i = 1 THEN ss[i] ELSE f[i - 1] \o ss[i]
    <3>1. CASE i <= k
      <4>1. f[i] = g[i] /\ i \in 1..k
        BY <3>1
      <4>2. i # 1 => f[i - 1] = g[i - 1]
        BY <3>1
      <4> QED
        BY <2>2, <4>1, <4>2 DEF Flattens
    <3>2. CASE i = k + 1
      <4>1. f[i] = last
        BY <3>2
      <4>2. CASE k = 0
        BY <3>2, <4>1, <4>2
      <4>3. CASE k # 0
        <5>1. i - 1 = k /\ k \in 1..(k + 1) /\ k <= k /\ i # 1
          BY <3>2, <4>3
        <5>2. f[i - 1] = g[k]
          <6> HIDE DEF last
          <6> QED
            BY <5>1
        <5> QED
          BY <3>2, <4>1, <4>3, <5>1, <5>2
      <4> QED
        BY <4>2, <4>3
    <3> QED
      BY <3>1, <3>2
  <2> HIDE DEF f
  <2> QED
    BY <2>6, <2>7 DEF Flattens
<1>3. Nat \subseteq T
  <2> HIDE DEF T
  <2> QED
    BY <1>1, <1>2, NatInduct
<1>4. n \in T
  BY <1>3
<1>5. E(n)
  BY <1>4
<1> QED
  BY <1>5

\* What holds of the first sequence, and is kept by each of the others, holds of all.
LEMMA FlattenInduct ==
  ASSUME NEW S, NEW n \in Nat \ {0}, NEW ss \in [1..n -> Seq(S)], NEW I,
         <<1, ss[1]>> \in I,
         \A i \in 2..n : \A s \in Seq(S) : <<i - 1, s>> \in I => <<i, s \o ss[i]>> \in I
  PROVE  FlattenSeq(ss) \in Seq(S) /\ <<n, FlattenSeq(ss)>> \in I
<1> DEFINE F(f) == [i \in 1..n |-> IF i = 1 THEN ss[i] ELSE f[i - 1] \o ss[i]]
<1> DEFINE flatten == CHOOSE f : f = F(f)
<1>1. n \in Nat
  OBVIOUS
<1>2. PICK g \in [1..n -> Seq(S)] : Flattens(g, n, ss)
  <2> HIDE DEF F
  <2> QED
    BY <1>1, FlattenExists
<1>11. g = F(g)
  BY <1>2 DEF Flattens
<1>3. flatten = F(flatten)
  BY <1>11
<1>4. ss \in Seq(Seq(S)) /\ Len(ss) = n
  BY LenProperties
<1>5. FlattenSeq(ss) = flatten[n]
  BY <1>4 DEF FlattenSeq
<1> HIDE DEF flatten
<1>6. \A i \in 1..n : flatten[i] = IF i = 1 THEN ss[i] ELSE flatten[i - 1] \o ss[i]
  BY <1>3
<1> DEFINE T == {k \in Nat : k + 1 <= n =>
                   flatten[k + 1] \in Seq(S) /\ <<k + 1, flatten[k + 1]>> \in I}
<1>7. 0 \in T
  BY <1>6
<1>8. ASSUME NEW k \in Nat, k \in T
      PROVE  k + 1 \in T
  <2> SUFFICES ASSUME k + 2 <= n
               PROVE  flatten[k + 2] \in Seq(S) /\ <<k + 2, flatten[k + 2]>> \in I
    OBVIOUS
  <2>1. k + 2 \in 2..n /\ (k + 2) - 1 = k + 1 /\ k + 2 # 1 /\ k + 2 \in 1..n
    OBVIOUS
  <2>2. flatten[k + 1] \in Seq(S) /\ <<k + 1, flatten[k + 1]>> \in I
    BY <1>8
  <2>3. flatten[k + 2] = flatten[k + 1] \o ss[k + 2]
    BY <1>6, <2>1
  <2>4. flatten[k + 2] \in Seq(S)
    BY <2>1, <2>2, <2>3, ConcatProperties
  <2> QED
    BY <2>1, <2>2, <2>3, <2>4
<1>9. Nat \subseteq T
  <2> HIDE DEF T
  <2> QED
    BY <1>7, <1>8, NatInduct
<1>10. n - 1 \in Nat /\ (n - 1) + 1 = n
  OBVIOUS
<1>12. n - 1 \in T
  <2> HIDE DEF T
  <2> QED
    BY <1>9, <1>10
<1> QED
  BY <1>5, <1>10, <1>12

\* What flattening makes of sequences is the last of what they make one after another.
LEMMA FlattenIs ==
  ASSUME NEW S, NEW n \in Nat \ {0}, NEW ss \in [1..n -> Seq(S)],
         NEW f \in [1..n -> Seq(S)], Flattens(f, n, ss)
  PROVE  FlattenSeq(ss) = f[n]
<1> DEFINE I == {p \in (1..n) \X Seq(S) : p[2] = f[p[1]]}
<1>1. <<1, ss[1]>> \in I
  <2>1. 1 \in 1..n /\ f[1] = ss[1] /\ ss[1] \in Seq(S)
    BY DEF Flattens
  <2> QED
    BY <2>1
<1>2. ASSUME NEW i \in 2..n, NEW s \in Seq(S), <<i - 1, s>> \in I
      PROVE  <<i, s \o ss[i]>> \in I
  <2>1. i \in 1..n /\ i - 1 \in 1..n /\ i # 1
    OBVIOUS
  <2>2. s = f[i - 1]
    BY <1>2
  <2>3. f[i] = f[i - 1] \o ss[i]
    BY <2>1 DEF Flattens
  <2>4. f[i] \in Seq(S)
    BY <2>1
  <2> QED
    BY <2>1, <2>2, <2>3, <2>4
<1>3. <<n, FlattenSeq(ss)>> \in I
  <2> HIDE DEF I
  <2> QED
    BY <1>1, <1>2, FlattenInduct
<1> QED
  BY <1>3

\* Nothing is nothing flattened, and of one sequence it is that.
LEMMA FlattenFew ==
  ASSUME NEW S
  PROVE  /\ \A ss \in [1..0 -> Seq(S)] : FlattenSeq(ss) = <<>>
         /\ \A ss \in [1..1 -> Seq(S)] : FlattenSeq(ss) = ss[1]
<1>1. ASSUME NEW ss \in [1..0 -> Seq(S)]
      PROVE  FlattenSeq(ss) = <<>>
  <2>1. ss \in Seq(Seq(S)) /\ Len(ss) = 0
    OBVIOUS
  <2>2. ss = <<>>
    BY <2>1, EmptySeq
  <2> QED
    BY <2>1, <2>2 DEF FlattenSeq
<1>2. ASSUME NEW ss \in [1..1 -> Seq(S)]
      PROVE  FlattenSeq(ss) = ss[1]
  <2> DEFINE f == [i \in 1..1 |-> ss[1]]
  <2>1. f \in [1..1 -> Seq(S)] /\ f[1] = ss[1] /\ Flattens(f, 1, ss)
    BY DEF Flattens
  <2> HIDE DEF f
  <2> QED
    BY <2>1, FlattenIs, 1 \in Nat \ {0}
<1> QED
  BY <1>1, <1>2

\* The last of some sequences comes behind the others.
LEMMA FlattenLast ==
  ASSUME NEW S, NEW n \in Nat \ {0}, NEW ss \in [1..(n + 1) -> Seq(S)]
  PROVE  FlattenSeq(ss) = FlattenSeq([i \in 1..n |-> ss[i]]) \o ss[n + 1]
<1>1. PICK f \in [1..(n + 1) -> Seq(S)] : Flattens(f, n + 1, ss)
  BY FlattenExists
<1> DEFINE rs == [i \in 1..n |-> ss[i]]
<1> DEFINE g == [i \in 1..n |-> f[i]]
<1>2. rs \in [1..n -> Seq(S)] /\ g \in [1..n -> Seq(S)]
  BY <1>1
<1>3. Flattens(g, n, rs)
  <2> SUFFICES ASSUME NEW i \in 1..n
               PROVE  g[i] = IF i = 1 THEN rs[i] ELSE g[i - 1] \o rs[i]
    BY DEF Flattens
  <2>1. i \in 1..(n + 1) /\ (i # 1 => i - 1 \in 1..n)
    OBVIOUS
  <2>2. f[i] = IF i = 1 THEN ss[i] ELSE f[i - 1] \o ss[i]
    BY <1>1, <2>1 DEF Flattens
  <2>3. g[i] = f[i] /\ rs[i] = ss[i] /\ (i # 1 => g[i - 1] = f[i - 1])
    BY <2>1
  <2> HIDE DEF g, rs
  <2> QED
    BY <2>2, <2>3
<1>4. g[n] = f[n]
  OBVIOUS
<1>5. f[n + 1] = f[n] \o ss[n + 1]
  <2>1. n + 1 \in 1..(n + 1) /\ n + 1 # 1 /\ (n + 1) - 1 = n
    OBVIOUS
  <2> QED
    BY <1>1, <2>1 DEF Flattens
<1> HIDE DEF rs, g
<1>6. FlattenSeq(rs) = g[n]
  BY <1>2, <1>3, FlattenIs
<1>7. FlattenSeq(ss) = f[n + 1]
  <2>1. PICK m \in Nat \ {0} : m = n + 1
    OBVIOUS
  <2>2. ss \in [1..m -> Seq(S)] /\ f \in [1..m -> Seq(S)] /\ Flattens(f, m, ss)
    BY <1>1, <2>1
  <2>3. FlattenSeq(ss) = f[m]
    BY <2>2, FlattenIs
  <2> QED
    BY <2>1, <2>3
<1> QED
  BY <1>4, <1>5, <1>6, <1>7 DEF rs

\* One element more of a sequence.
LEMMA SnocIs ==
  ASSUME NEW S, NEW s \in Seq(S), NEW k \in Nat, k + 1 <= Len(s)
  PROVE  /\ SubSeq(s, 1, k + 1) = SubSeq(s, 1, k) \o <<s[k + 1]>>
         /\ SubSeq(s, 1, k) \in Seq(S)
<1> DEFINE a == SubSeq(s, 1, k)
<1> DEFINE b == SubSeq(s, 1, k + 1)
<1>1. a \in Seq(S) /\ Len(a) = k /\ \A i \in 1..k : a[i] = s[i]
  BY SubSeqProperties
<1>2. b \in Seq(S) /\ Len(b) = k + 1 /\ \A i \in 1..(k + 1) : b[i] = s[i]
  BY SubSeqProperties
<1>3. s[k + 1] \in S
  OBVIOUS
<1> HIDE DEF a, b
<1>4. a \o <<s[k + 1]>> \in Seq(S) /\ Len(a \o <<s[k + 1]>>) = k + 1
  BY <1>1, <1>3
<1>5. \A i \in 1..(k + 1) : (a \o <<s[k + 1]>>)[i] = b[i]
  BY <1>1, <1>2, <1>3
<1>6. a \o <<s[k + 1]>> = b
  BY <1>2, <1>4, <1>5, SeqEqual
<1> QED
  BY <1>1, <1>6 DEF a, b

(***************************************************************************)
(* Streams as words: the provers find their way better if concatenation    *)
(* and the stream of one message are operators they do not look into.      *)
(***************************************************************************)
Streams(M) == Seq(M)
One(m) == <<m>>
Cat(s, t) == s \o t

\* What is put together is a stream.
LEMMA CatType ==
  ASSUME NEW M, NEW s \in Streams(M), NEW t \in Streams(M)
  PROVE  Cat(s, t) \in Streams(M)
  BY ConcatProperties DEF Streams, Cat

\* Nothing is a stream, and one message is.
LEMMA OneType ==
  ASSUME NEW M
  PROVE  <<>> \in Streams(M) /\ \A m \in M : One(m) \in Streams(M)
  BY DEF Streams, One

\* It does not matter what is put together first.
LEMMA CatAssoc ==
  ASSUME NEW M, NEW s \in Streams(M), NEW t \in Streams(M), NEW u \in Streams(M)
  PROVE  Cat(Cat(s, t), u) = Cat(s, Cat(t, u))
  BY ConcatAssociative DEF Streams, Cat

\* Nothing adds nothing.
LEMMA CatNone ==
  ASSUME NEW M, NEW s \in Streams(M)
  PROVE  Cat(s, <<>>) = s /\ Cat(<<>>, s) = s
  BY ConcatEmptySeq DEF Streams, Cat

\* A stream is its first message and the rest.
LEMMA FirstAndRest ==
  ASSUME NEW M, NEW s \in Streams(M), s # <<>>
  PROVE  Head(s) \in M /\ Tail(s) \in Streams(M) /\ s = Cat(One(Head(s)), Tail(s))
<1>1. Head(s) \in M /\ Tail(s) \in Seq(M)
  BY HeadTailProperties DEF Streams
<1>2. s = <<Head(s)>> \o Tail(s)
  BY DEF Streams
<1> QED
  BY <1>1, <1>2 DEF Streams, Cat, One

\* And behind one message come the others.
LEMMA RestOf ==
  ASSUME NEW M, NEW m \in M, NEW t \in Streams(M)
  PROVE  /\ Cat(One(m), t) # <<>>
         /\ Head(Cat(One(m), t)) = m /\ Tail(Cat(One(m), t)) = t
  BY DEF Streams, Cat, One

\* A stream is what comes before its last message, and that.
LEMMA AllButLast ==
  ASSUME NEW M, NEW s \in Streams(M), NEW k \in Nat, Len(s) = k + 1
  PROVE  \E v \in Streams(M), m \in M : Len(v) = k /\ s = Cat(v, One(m))
<1>1. /\ SubSeq(s, 1, k + 1) = SubSeq(s, 1, k) \o <<s[k + 1]>>
      /\ SubSeq(s, 1, k) \in Seq(M)
  BY SnocIs DEF Streams
<1>2. SubSeq(s, 1, k + 1) = s /\ s[k + 1] \in M /\ Len(SubSeq(s, 1, k)) = k
  BY DEF Streams
<1>3. PICK v \in Streams(M), m \in M : v = SubSeq(s, 1, k) /\ m = s[k + 1]
  BY <1>1, <1>2 DEF Streams
<1> QED
  BY <1>1, <1>2, <1>3 DEF Cat, One

\* A set that has the empty stream, and every stream that is one message longer than
\* one it has, has all streams.
LEMMA StreamInduct ==
  ASSUME NEW M, NEW T, <<>> \in T,
         \A v \in Streams(M) : \A m \in M : v \in T => Cat(v, One(m)) \in T
  PROVE  \A s \in Streams(M) : s \in T
<1> DEFINE K == {k \in Nat : \A s \in Streams(M) : Len(s) = k => s \in T}
<1>1. 0 \in K
  <2>1. \A s \in Streams(M) : Len(s) = 0 => s = <<>>
    BY EmptySeq DEF Streams
  <2> QED
    BY <2>1
<1>2. ASSUME NEW k \in Nat, k \in K
      PROVE  k + 1 \in K
  <2> SUFFICES ASSUME NEW s \in Streams(M), Len(s) = k + 1
               PROVE  s \in T
    OBVIOUS
  <2>1. PICK v \in Streams(M), m \in M : Len(v) = k /\ s = Cat(v, One(m))
    BY AllButLast
  <2>2. v \in T
    BY <1>2, <2>1
  <2>3. Cat(v, One(m)) \in T
    BY <2>1, <2>2, Zenon
  <2> QED
    BY <2>1, <2>3, Zenon
<1>3. Nat \subseteq K
  <2> HIDE DEF K
  <2> QED
    BY <1>1, <1>2, NatInduct
<1>4. ASSUME NEW s \in Streams(M)
      PROVE  s \in T
  <2>1. Len(s) \in Nat
    BY DEF Streams
  <2>2. Len(s) \in K
    <3> HIDE DEF K
    <3> QED
      BY <1>3, <2>1
  <2> QED
    BY <2>2
<1> QED
  BY <1>4

(***************************************************************************)
(* What the messages of a stream become, one after another, if g says what *)
(* each of them becomes.                                                   *)
(***************************************************************************)
Turns(g, M, S) == g \in [M -> Seq(S)]
Become(g, s) == FlattenSeq([i \in DOMAIN s |-> g[s[i]]])

\* No message becomes nothing, and one what g says.
LEMMA BecomeFew ==
  ASSUME NEW M, NEW S, NEW g, Turns(g, M, S)
  PROVE  /\ Become(g, <<>>) = <<>>
         /\ \A m \in M : Become(g, One(m)) = g[m]
<1>1. Become(g, <<>>) = <<>>
  <2> DEFINE ss == [i \in DOMAIN <<>> |-> g[<<>>[i]]]
  <2>1. DOMAIN <<>> = 1..0
    OBVIOUS
  <2>2. ss \in [1..0 -> Seq(S)]
    BY <2>1
  <2> HIDE DEF ss
  <2>3. FlattenSeq(ss) = <<>>
    BY <2>2, FlattenFew
  <2> QED
    BY <2>3 DEF Become, ss
<1>2. ASSUME NEW m \in M
      PROVE  Become(g, One(m)) = g[m]
  <2> DEFINE s == <<m>>
  <2> DEFINE ss == [i \in DOMAIN s |-> g[s[i]]]
  <2>1. DOMAIN s = 1..1 /\ s[1] = m
    OBVIOUS
  <2> HIDE DEF s
  <2>2. ss \in [1..1 -> Seq(S)] /\ ss[1] = g[m]
    BY <2>1 DEF Turns
  <2> HIDE DEF ss
  <2>3. FlattenSeq(ss) = g[m]
    BY <2>2, FlattenFew
  <2> QED
    BY <2>3 DEF Become, ss, s, One
<1> QED
  BY <1>1, <1>2

\* What the last message becomes is behind what those before it become.
LEMMA BecomeStep ==
  ASSUME NEW M, NEW S, NEW g, Turns(g, M, S), NEW s \in Seq(M), NEW m \in M
  PROVE  Become(g, s \o <<m>>) = Become(g, s) \o g[m] /\ Become(g, s) \in Seq(S)
<1>1. PICK n \in Nat : n = Len(s)
  OBVIOUS
<1> DEFINE t == s \o <<m>>
<1>2. t \in Seq(M) /\ Len(t) = n + 1 /\ t[n + 1] = m /\ \A i \in 1..n : t[i] = s[i]
  BY <1>1
<1>3. DOMAIN t = 1..(n + 1) /\ DOMAIN s = 1..n
  BY <1>1, <1>2
<1>4. \A i \in 1..n : s[i] \in M
  BY <1>3
<1> HIDE DEF t
<1>5. g[m] \in Seq(S)
  BY DEF Turns
<1> DEFINE ss == [i \in DOMAIN s |-> g[s[i]]]
<1> DEFINE ts == [i \in DOMAIN t |-> g[t[i]]]
<1>6. ss \in [1..n -> Seq(S)]
  BY <1>3, <1>4 DEF Turns
<1>7. \A i \in 1..(n + 1) : t[i] \in M
  BY <1>2, <1>3
<1>8. ts \in [1..(n + 1) -> Seq(S)] /\ ts[n + 1] = g[m]
  BY <1>2, <1>3, <1>7 DEF Turns
<1>9. [i \in 1..n |-> ts[i]] = ss
  BY <1>2, <1>3
<1> HIDE DEF ss, ts
<1>10. CASE n = 0
  <2>1. FlattenSeq(ss) = <<>>
    BY <1>6, <1>10, FlattenFew
  <2>2. FlattenSeq(ts) = ts[1]
    BY <1>8, <1>10, FlattenFew
  <2>3. ts[1] = g[m]
    BY <1>8, <1>10
  <2>4. <<>> \o g[m] = g[m] /\ <<>> \in Seq(S)
    BY <1>5, ConcatEmptySeq
  <2> QED
    BY <2>1, <2>2, <2>3, <2>4 DEF Become, ss, ts, t
<1>11. CASE n # 0
  <2>1. FlattenSeq(ts) = FlattenSeq([i \in 1..n |-> ts[i]]) \o ts[n + 1]
    BY <1>8, <1>11, FlattenLast
  <2>2. FlattenSeq(ss) \in Seq(S)
    <3>1. PICK f \in [1..n -> Seq(S)] : Flattens(f, n, ss)
      BY <1>6, FlattenExists
    <3>2. FlattenSeq(ss) = f[n]
      BY <1>6, <1>11, <3>1, FlattenIs
    <3> QED
      BY <1>11, <3>1, <3>2
  <2> QED
    BY <1>8, <1>9, <2>1, <2>2 DEF Become, ss, ts, t
<1> QED
  BY <1>10, <1>11

\* What the last message becomes comes last.
LEMMA BecomeLast ==
  ASSUME NEW M, NEW S, NEW g, Turns(g, M, S), NEW s \in Streams(M), NEW m \in M
  PROVE  Become(g, Cat(s, One(m))) = Cat(Become(g, s), g[m])
<1>1. s \in Seq(M)
  BY DEF Streams
<1>2. Become(g, s \o <<m>>) = Become(g, s) \o g[m] /\ Become(g, s) \in Seq(S)
  BY <1>1, BecomeStep, Zenon
<1> QED
  BY <1>2 DEF Cat, One

\* What a message becomes is a stream.
LEMMA TurnType ==
  ASSUME NEW M, NEW S, NEW g, Turns(g, M, S), NEW m \in M
  PROVE  g[m] \in Streams(S)
  BY DEF Turns, Streams

\* What a stream becomes is one.
LEMMA BecomeType ==
  ASSUME NEW M, NEW S, NEW g, Turns(g, M, S), NEW s \in Streams(M)
  PROVE  Become(g, s) \in Streams(S)
<1> DEFINE T == {u \in Streams(M) : Become(g, u) \in Streams(S)}
<1>1. <<>> \in T
  <2>1. Become(g, <<>>) = <<>>
    BY BecomeFew
  <2> QED
    BY <2>1, OneType
<1>2. ASSUME NEW v \in Streams(M), NEW m \in M, v \in T
      PROVE  Cat(v, One(m)) \in T
  <2>1. Become(g, Cat(v, One(m))) = Cat(Become(g, v), g[m])
    BY BecomeLast, ZenonT(30)
  <2>2. Cat(Become(g, v), g[m]) \in Streams(S)
    <3>1. Become(g, v) \in Streams(S)
      BY <1>2
    <3>2. g[m] \in Streams(S)
      BY TurnType, Zenon
    <3> QED
      BY <3>1, <3>2, CatType, Zenon
  <2>3. Cat(v, One(m)) \in Streams(M)
    BY CatType, OneType, Zenon
  <2> QED
    BY <2>1, <2>2, <2>3
<1>3. s \in T
  <2> HIDE DEF T
  <2> QED
    BY <1>1, <1>2, StreamInduct, Zenon
<1> QED
  BY <1>3

\* What two streams become, one behind the other.
LEMMA BecomeBoth ==
  ASSUME NEW M, NEW S, NEW g, Turns(g, M, S), NEW s \in Streams(M), NEW t \in Streams(M)
  PROVE  Become(g, Cat(s, t)) = Cat(Become(g, s), Become(g, t))
<1> DEFINE T == {u \in Streams(M) : Become(g, Cat(s, u)) = Cat(Become(g, s), Become(g, u))}
<1>1. <<>> \in T
  <2>1. Become(g, <<>>) = <<>>
    BY BecomeFew
  <2>2. Cat(s, <<>>) = s
    BY CatNone
  <2>3. Cat(Become(g, s), <<>>) = Become(g, s)
    <3>1. Become(g, s) \in Streams(S)
      BY BecomeType, Zenon
    <3> QED
      BY <3>1, CatNone, Zenon
  <2>4. <<>> \in Streams(M)
    BY OneType
  <2> QED
    BY <2>1, <2>2, <2>3, <2>4
<1>2. ASSUME NEW v \in Streams(M), NEW m \in M, v \in T
      PROVE  Cat(v, One(m)) \in T
  <2>1. Become(g, Cat(s, v)) = Cat(Become(g, s), Become(g, v))
    BY <1>2
  <2>2. One(m) \in Streams(M) /\ Cat(s, v) \in Streams(M)
    BY CatType, OneType, Zenon
  <2>3. Cat(s, Cat(v, One(m))) = Cat(Cat(s, v), One(m))
    <3>1. PICK o \in Streams(M) : o = One(m)
      BY <2>2
    <3>4. o \in Streams(M)
      BY <3>1
    <3>2. Cat(Cat(s, v), o) = Cat(s, Cat(v, o))
      BY <3>4, CatAssoc
    <3> QED
      BY <3>1, <3>2, Zenon
  <2>4. Become(g, Cat(Cat(s, v), One(m))) = Cat(Become(g, Cat(s, v)), g[m])
    <3>1. PICK sv \in Streams(M) : sv = Cat(s, v)
      BY <2>2
    <3>4. sv \in Streams(M)
      BY <3>1
    <3>2. Become(g, Cat(sv, One(m))) = Cat(Become(g, sv), g[m])
      BY <3>4, BecomeLast
    <3> QED
      BY <3>1, <3>2, Zenon
  <2>5. Become(g, Cat(v, One(m))) = Cat(Become(g, v), g[m])
    BY BecomeLast, ZenonT(30)
  <2>6. Become(g, s) \in Streams(S) /\ Become(g, v) \in Streams(S) /\ g[m] \in Streams(S)
    BY BecomeType, TurnType, Zenon
  <2>7. Cat(Cat(Become(g, s), Become(g, v)), g[m]) = Cat(Become(g, s), Cat(Become(g, v), g[m]))
    <3>1. PICK x \in Streams(S), y \in Streams(S), z \in Streams(S) :
            x = Become(g, s) /\ y = Become(g, v) /\ z = g[m]
      BY <2>6
    <3>4. x \in Streams(S) /\ y \in Streams(S) /\ z \in Streams(S)
      BY <3>1
    <3>2. Cat(Cat(x, y), z) = Cat(x, Cat(y, z))
      BY <3>4, CatAssoc
    <3> QED
      BY <3>1, <3>2, Zenon
  <2>8. Become(g, Cat(s, Cat(v, One(m)))) = Cat(Become(g, s), Become(g, Cat(v, One(m))))
    BY <2>1, <2>3, <2>4, <2>5, <2>7, Zenon
  <2>9. Cat(v, One(m)) \in Streams(M)
    BY <2>2, CatType, Zenon
  <2> QED
    BY <2>8, <2>9
<1>3. t \in T
  <2> HIDE DEF T
  <2> QED
    BY <1>1, <1>2, StreamInduct, Zenon
<1> QED
  BY <1>3

\* A stream of messages that become one thing each becomes those.
Singly(g, s, n, e) == \A i \in 1..n : g[s[i]] = <<e[i]>>

LEMMA BecomeEach ==
  ASSUME NEW M, NEW S, NEW g, Turns(g, M, S), NEW n \in Nat, NEW s \in [1..n -> M],
         NEW e \in [1..n -> S], Singly(g, s, n, e)
  PROVE  Become(g, s) = e
<1> DEFINE E(k) == Become(g, SubSeq(s, 1, k)) = SubSeq(e, 1, k)
<1> DEFINE T == {k \in Nat : k <= n => E(k)}
<1>1. s \in Seq(M) /\ Len(s) = n /\ e \in Seq(S) /\ Len(e) = n
  OBVIOUS
<1>2. 0 \in T
  <2>1. SubSeq(s, 1, 0) = <<>> /\ SubSeq(e, 1, 0) = <<>>
    BY <1>1
  <2> QED
    BY <2>1, BecomeFew
<1>3. ASSUME NEW k \in Nat, k \in T
      PROVE  k + 1 \in T
  <2> SUFFICES ASSUME k + 1 <= n
               PROVE  E(k + 1)
    OBVIOUS
  <2>1. E(k)
    <3> HIDE DEF E
    <3> QED
      BY <1>3
  <2>2. s[k + 1] \in M /\ e[k + 1] \in S
    OBVIOUS
  <2>6. g[s[k + 1]] = <<e[k + 1]>>
    BY DEF Singly
  <2>3. SubSeq(s, 1, k + 1) = SubSeq(s, 1, k) \o <<s[k + 1]>> /\ SubSeq(s, 1, k) \in Seq(M)
    BY <1>1, SnocIs
  <2>4. SubSeq(e, 1, k + 1) = SubSeq(e, 1, k) \o <<e[k + 1]>>
    BY <1>1, SnocIs
  <2>5. Become(g, SubSeq(s, 1, k + 1)) = Become(g, SubSeq(s, 1, k)) \o g[s[k + 1]]
    <3>1. PICK a \in Streams(M), m \in M : a = SubSeq(s, 1, k) /\ m = s[k + 1]
      BY <2>2, <2>3 DEF Streams
    <3> HIDE DEF T, E
    <3>4. a \in Streams(M) /\ m \in M
      BY <3>1
    <3>2. Become(g, Cat(a, One(m))) = Cat(Become(g, a), g[m])
      BY <3>4, BecomeLast
    <3>3. SubSeq(s, 1, k + 1) = Cat(a, One(m))
      BY <2>3, <3>1, Zenon DEF Cat, One
    <3> QED
      BY <3>1, <3>2, <3>3, Zenon DEF Cat
  <2> QED
    BY <2>1, <2>4, <2>5, <2>6
<1>4. E(n)
  <2>1. n \in T
    <3> HIDE DEF T
    <3> QED
      BY <1>2, <1>3, NatInduct
  <2> HIDE DEF E
  <2> QED
    BY <2>1
<1>5. SubSeq(s, 1, n) = s /\ SubSeq(e, 1, n) = e
  BY <1>1
<1> QED
  BY <1>4, <1>5

\* What a stream becomes is what its first message becomes and then what the rest does.
LEMMA BecomeFirst ==
  ASSUME NEW M, NEW S, NEW g, Turns(g, M, S), NEW s \in Streams(M), s # <<>>
  PROVE  Become(g, s) = Cat(g[Head(s)], Become(g, Tail(s)))
<1>1. PICK h \in M, t \in Streams(M) : h = Head(s) /\ t = Tail(s) /\ s = Cat(One(h), t)
  BY FirstAndRest
<1>2. h \in M /\ t \in Streams(M)
  BY <1>1
<1>3. PICK o \in Streams(M) : o = One(h)
  BY <1>2, OneType, Zenon
<1>4. o \in Streams(M)
  BY <1>3
<1>5. Become(g, Cat(o, t)) = Cat(Become(g, o), Become(g, t))
  BY <1>2, <1>4, BecomeBoth
<1>6. Become(g, One(h)) = g[h]
  BY <1>2, BecomeFew
<1> QED
  BY <1>1, <1>3, <1>5, <1>6, Zenon

(***************************************************************************)
(* A wire: what the messages of one stream and then those of another       *)
(* become.                                                                 *)
(***************************************************************************)
Wire(g, s, t) == Become(g, Cat(s, t))

\* It is what the two become, one behind the other.
LEMMA WireIs ==
  ASSUME NEW M, NEW S, NEW g, Turns(g, M, S), NEW s \in Streams(M), NEW t \in Streams(M)
  PROVE  /\ Wire(g, s, t) = Cat(Become(g, s), Become(g, t))
         /\ Wire(g, s, t) \in Streams(S)
         /\ Become(g, s) \in Streams(S) /\ Become(g, t) \in Streams(S)
<1>1. Wire(g, s, t) = Cat(Become(g, s), Become(g, t))
  BY BecomeBoth DEF Wire
<1>2. Become(g, s) \in Streams(S) /\ Become(g, t) \in Streams(S)
  BY BecomeType, Zenon
<1>3. Cat(Become(g, s), Become(g, t)) \in Streams(S)
  BY <1>2, CatType, Zenon
<1> QED
  BY <1>1, <1>2, <1>3, Zenon

\* What goes on as it came does not change the wire.
LEMMA WirePassed ==
  ASSUME NEW M, NEW S, NEW g, Turns(g, M, S), NEW s \in Streams(M), NEW t \in Streams(M),
         t # <<>>, NEW new \in Streams(M), Become(g, new) = g[Head(t)]
  PROVE  Wire(g, Cat(s, new), Tail(t)) = Wire(g, s, t)
<1>1. PICK r \in Streams(M) : r = Tail(t)
  BY FirstAndRest
<1>2. r \in Streams(M)
  BY <1>1
<1>3. PICK u \in Streams(M) : u = Cat(s, new)
  BY CatType, Zenon
<1>4. u \in Streams(M)
  BY <1>3
<1>5. Wire(g, u, r) = Cat(Become(g, u), Become(g, r))
  BY <1>2, <1>4, WireIs
<1>6. Become(g, Cat(s, new)) = Cat(Become(g, s), Become(g, new))
  BY BecomeBoth
<1>7. Wire(g, s, t) = Cat(Become(g, s), Become(g, t))
  BY WireIs
<1>8. Become(g, t) = Cat(Become(g, new), Become(g, r))
  <2>1. Become(g, t) = Cat(g[Head(t)], Become(g, Tail(t)))
    BY BecomeFirst
  <2> QED
    BY <1>1, <2>1
<1>9. Cat(Cat(Become(g, s), Become(g, new)), Become(g, r))
        = Cat(Become(g, s), Cat(Become(g, new), Become(g, r)))
  <2>1. Become(g, s) \in Streams(S) /\ Become(g, new) \in Streams(S)
        /\ Become(g, r) \in Streams(S)
    BY <1>2, BecomeType
  <2>2. PICK x \in Streams(S), y \in Streams(S), z \in Streams(S) :
          x = Become(g, s) /\ y = Become(g, new) /\ z = Become(g, r)
    BY <2>1
  <2>3. x \in Streams(S) /\ y \in Streams(S) /\ z \in Streams(S)
    BY <2>2
  <2>4. Cat(Cat(x, y), z) = Cat(x, Cat(y, z))
    BY <2>3, CatAssoc
  <2> QED
    BY <2>2, <2>4, Zenon
<1> QED
  BY <1>1, <1>3, <1>5, <1>6, <1>7, <1>8, <1>9, Zenon

\* Nor does what becomes nothing, wherever it is put.
LEMMA WireAside ==
  ASSUME NEW M, NEW S, NEW g, Turns(g, M, S), NEW s \in Streams(M), NEW t \in Streams(M),
         NEW new \in Streams(M), Become(g, new) = <<>>
  PROVE  Wire(g, Cat(s, new), t) = Wire(g, s, t)
<1>3. PICK u \in Streams(M) : u = Cat(s, new)
  BY CatType, Zenon
<1>4. u \in Streams(M)
  BY <1>3
<1>5. Wire(g, u, t) = Cat(Become(g, u), Become(g, t))
  BY <1>4, WireIs
<1>6. Become(g, Cat(s, new)) = Cat(Become(g, s), Become(g, new))
  BY BecomeBoth
<1>7. Wire(g, s, t) = Cat(Become(g, s), Become(g, t))
  BY WireIs
<1>8. Cat(Become(g, s), <<>>) = Become(g, s)
  <2>1. Become(g, s) \in Streams(S)
    BY BecomeType
  <2> QED
    BY <2>1, CatNone, Zenon
<1> QED
  BY <1>3, <1>5, <1>6, <1>7, <1>8, Zenon

\* What is put behind is on the wire behind.
LEMMA WirePut ==
  ASSUME NEW M, NEW S, NEW g, Turns(g, M, S), NEW s \in Streams(M), NEW t \in Streams(M),
         NEW new \in Streams(M)
  PROVE  Wire(g, s, Cat(t, new)) = Cat(Wire(g, s, t), Become(g, new))
<1>3. PICK u \in Streams(M) : u = Cat(t, new)
  BY CatType, Zenon
<1>4. u \in Streams(M)
  BY <1>3
<1>5. Wire(g, s, u) = Cat(Become(g, s), Become(g, u))
  BY <1>4, WireIs
<1>6. Become(g, Cat(t, new)) = Cat(Become(g, t), Become(g, new))
  BY BecomeBoth
<1>7. Wire(g, s, t) = Cat(Become(g, s), Become(g, t))
  BY WireIs
<1>8. Cat(Cat(Become(g, s), Become(g, t)), Become(g, new))
        = Cat(Become(g, s), Cat(Become(g, t), Become(g, new)))
  <2>1. Become(g, s) \in Streams(S) /\ Become(g, t) \in Streams(S)
        /\ Become(g, new) \in Streams(S)
    BY BecomeType
  <2>2. PICK x \in Streams(S), y \in Streams(S), z \in Streams(S) :
          x = Become(g, s) /\ y = Become(g, t) /\ z = Become(g, new)
    BY <2>1
  <2>3. x \in Streams(S) /\ y \in Streams(S) /\ z \in Streams(S)
    BY <2>2
  <2>4. Cat(Cat(x, y), z) = Cat(x, Cat(y, z))
    BY <2>3, CatAssoc
  <2> QED
    BY <2>2, <2>4, Zenon
<1> QED
  BY <1>3, <1>5, <1>6, <1>7, <1>8, Zenon

\* What is read in front was on the wire in front.
LEMMA WireRead ==
  ASSUME NEW M, NEW S, NEW g, Turns(g, M, S), NEW s \in Streams(M), NEW t \in Streams(M),
         s # <<>>
  PROVE  Wire(g, s, t) = Cat(g[Head(s)], Wire(g, Tail(s), t))
<1>1. PICK h \in M, r \in Streams(M) : h = Head(s) /\ r = Tail(s)
  BY FirstAndRest
<1>2. h \in M /\ r \in Streams(M)
  BY <1>1
<1>3. Wire(g, r, t) = Cat(Become(g, r), Become(g, t))
  BY <1>2, WireIs
<1>4. Wire(g, s, t) = Cat(Become(g, s), Become(g, t))
  BY WireIs
<1>5. Become(g, s) = Cat(g[Head(s)], Become(g, Tail(s)))
  BY BecomeFirst
<1>6. Cat(Cat(g[h], Become(g, r)), Become(g, t)) = Cat(g[h], Cat(Become(g, r), Become(g, t)))
  <2>1. g[h] \in Streams(S) /\ Become(g, r) \in Streams(S) /\ Become(g, t) \in Streams(S)
    BY <1>2, BecomeType, TurnType
  <2>2. PICK x \in Streams(S), y \in Streams(S), z \in Streams(S) :
          x = g[h] /\ y = Become(g, r) /\ z = Become(g, t)
    BY <2>1
  <2>3. x \in Streams(S) /\ y \in Streams(S) /\ z \in Streams(S)
    BY <2>2
  <2>4. Cat(Cat(x, y), z) = Cat(x, Cat(y, z))
    BY <2>3, CatAssoc
  <2> QED
    BY <2>2, <2>4, Zenon
<1> QED
  BY <1>1, <1>3, <1>4, <1>5, <1>6, Zenon

\* What a stream is the beginning of begins with it.
LEMMA PrefixCat ==
  ASSUME NEW S, NEW s \in Streams(S), NEW t \in Streams(S)
  PROVE  /\ IsPrefix(s, Cat(s, t))
         /\ SubSeq(Cat(s, t), Len(s) + 1, Len(Cat(s, t))) = t
<1>1. PICK m \in Nat, n \in Nat : m = Len(s) /\ n = Len(t)
  BY DEF Streams
<1>2. /\ Cat(s, t) \in Seq(S) /\ Len(Cat(s, t)) = m + n
      /\ \A i \in 1..m + n : Cat(s, t)[i] = IF i <= m THEN s[i] ELSE t[i - m]
  BY <1>1, ConcatProperties DEF Streams, Cat
<1>3. PICK u \in Seq(S) : u = Cat(s, t)
  BY <1>2
<1>4. Len(u) = m + n /\ \A i \in 1..m + n : u[i] = IF i <= m THEN s[i] ELSE t[i - m]
  BY <1>2, <1>3
<1>5. \A i \in 1..m + n : u[i] \in S
  BY <1>3, <1>4, ElementOfSeq
<1>6. SubSeq(u, 1, m) = SubSeq(s, 1, m)
  <2>1. /\ SubSeq(u, 1, m) \in Seq(S) /\ Len(SubSeq(u, 1, m)) = m
        /\ \A i \in 1..m : SubSeq(u, 1, m)[i] = u[i]
    BY <1>3, <1>4, <1>5, SubSeqProperties
  <2>2. /\ SubSeq(s, 1, m) \in Seq(S) /\ Len(SubSeq(s, 1, m)) = m
        /\ \A i \in 1..m : SubSeq(s, 1, m)[i] = s[i]
    BY <1>1, SubSeqProperties DEF Streams
  <2>3. \A i \in 1..m : SubSeq(u, 1, m)[i] = SubSeq(s, 1, m)[i]
    BY <1>4, <2>1, <2>2
  <2> QED
    BY <2>1, <2>2, <2>3, SeqEqual
<1>7. SubSeq(u, m + 1, m + n) = t
  <2>1. /\ SubSeq(u, m + 1, m + n) \in Seq(S) /\ Len(SubSeq(u, m + 1, m + n)) = n
        /\ \A i \in 1..n : SubSeq(u, m + 1, m + n)[i] = u[m + i]
    BY <1>3, <1>4, <1>5
  <2>2. \A i \in 1..n : u[m + i] = t[i]
    BY <1>4
  <2>3. t \in Seq(S) /\ Len(t) = n
    BY <1>1 DEF Streams
  <2>4. \A i \in 1..n : SubSeq(u, m + 1, m + n)[i] = t[i]
    BY <2>1, <2>2
  <2> QED
    BY <2>1, <2>3, <2>4, SeqEqual
<1> QED
  BY <1>1, <1>3, <1>4, <1>6, <1>7 DEF IsPrefix

\* A stream is any beginning of it and what comes after.
LEMMA CutOff ==
  ASSUME NEW S, NEW s \in Streams(S), NEW n \in 0..Len(s)
  PROVE  /\ SubSeq(s, 1, n) \in Streams(S)
         /\ \E rest \in Streams(S) : s = Cat(SubSeq(s, 1, n), rest)
<1>1. PICK k \in Nat : k = Len(s)
  BY DEF Streams
<1>2. n \in Nat /\ n <= k /\ s \in Seq(S)
  BY <1>1 DEF Streams
<1>3. \A i \in 1..k : s[i] \in S
  BY <1>1, <1>2, ElementOfSeq
<1>4. PICK front \in Seq(S) : front = SubSeq(s, 1, n)
  <2>1. \A i \in 1..n : s[i] \in S
    BY <1>2, <1>3
  <2>2. SubSeq(s, 1, n) \in Seq(S)
    BY <1>1, <1>2, <2>1, SubSeqProperties
  <2> QED
    BY <2>2
<1>5. Len(front) = n /\ \A i \in 1..n : front[i] = s[i]
  BY <1>1, <1>2, <1>4, SubSeqProperties
<1> DEFINE rest == [i \in 1..(k - n) |-> s[n + i]]
<1>6. rest \in Seq(S) /\ Len(rest) = k - n /\ \A i \in 1..(k - n) : rest[i] = s[n + i]
  <2>1. \A i \in 1..(k - n) : s[n + i] \in S
    BY <1>2, <1>3
  <2>2. k - n \in Nat
    BY <1>2
  <2> QED
    BY <2>1, <2>2
<1> HIDE DEF rest
<1>7. /\ front \o rest \in Seq(S) /\ Len(front \o rest) = k
      /\ \A i \in 1..k : (front \o rest)[i] = IF i <= n THEN front[i] ELSE rest[i - n]
  BY <1>2, <1>4, <1>5, <1>6, ConcatProperties
<1>8. \A i \in 1..k : (front \o rest)[i] = s[i]
  <2> TAKE i \in 1..k
  <2>1. CASE i <= n
    BY <1>5, <1>7, <2>1
  <2>2. CASE ~(i <= n)
    <3>1. i - n \in 1..(k - n) /\ n + (i - n) = i
      BY <1>2, <2>2
    <3> QED
      BY <1>6, <1>7, <2>2, <3>1
  <2> QED
    BY <2>1, <2>2
<1>9. front \o rest = s
  BY <1>1, <1>2, <1>7, <1>8, SeqEqual
<1> QED
  BY <1>4, <1>6, <1>9 DEF Streams, Cat
=============================================================================
