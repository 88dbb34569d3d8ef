---------------------------- MODULE FramingProof ----------------------------
(***************************************************************************)
(* Proofs about Framing: the types, that without a signal the proxy reads  *)
(* the parts the peer sent, into a packet with room for them unless it is  *)
(* one of the three whose lengths nobody checks, and that what it misreads *)
(* at the end of a stream is one message, the last.                        *)
(***************************************************************************)
EXTENDS Framing, StreamLemmas

(***************************************************************************)
(* Chains: sequences whose elements have labels, of which each is linked   *)
(* with its label by R to the next.                                        *)
(***************************************************************************)
Chained(R, s, l) ==
  /\ l \in [1..Len(s) -> Nat]
  /\ \A i, j \in 1..Len(s) : j = i + 1 => <<s[i], l[i], s[j], l[j]>> \in R

\* Nothing is a chain.
LEMMA EmptyChain ==
  ASSUME NEW R
  PROVE  \E l : Chained(R, <<>>, l)
<1> DEFINE l == [i \in 1..0 |-> 0]
<1>1. l \in [1..0 -> Nat] /\ 1..0 = {} /\ Len(<<>>) = 0
  OBVIOUS
<1> HIDE DEF l
<1> QED
  BY <1>1 DEF Chained

\* The first and the last of two sequences one behind the other.
LEMMA ConcatEnds ==
  ASSUME NEW S, NEW a \in Seq(S), NEW b \in Seq(S), b # <<>>
  PROVE  /\ a # <<>> => (a \o b)[1] = a[1]
         /\ a = <<>> => (a \o b)[1] = b[1]
         /\ (a \o b)[Len(a \o b)] = b[Len(b)]
         /\ a \o b # <<>> /\ Len(a \o b) = Len(a) + Len(b)
<1>1. PICK m \in Nat, n \in Nat \ {0} : m = Len(a) /\ n = Len(b)
  BY LenProperties, EmptySeq
<1>2. Len(a \o b) = m + n
  BY <1>1, ConcatProperties
<1>3. \A i \in 1..(m + n) : (a \o b)[i] = IF i <= m THEN a[i] ELSE b[i - m]
  BY <1>1, ConcatProperties
<1>4. (m + n) - m = n /\ m + n \in 1..(m + n) /\ ~(m + n <= m)
  BY <1>1
<1>5. (a \o b)[m + n] = b[n]
  BY <1>3, <1>4
<1>6. m # 0 => 1 \in 1..(m + n) /\ 1 <= m
  BY <1>1
<1>7. a # <<>> => m # 0
  BY <1>1, EmptySeq
<1>8. a = <<>> => a \o b = b
  BY ConcatEmptySeq
<1>9. a \o b # <<>>
  <2>1. Len(<<>>) = 0 /\ m + n # 0
    BY <1>1
  <2> QED
    BY <1>2, <2>1
<1> QED
  BY <1>1, <1>2, <1>3, <1>5, <1>6, <1>7, <1>8, <1>9

\* Two chains of which the last of one is linked to the first of the other are one.
LEMMA JoinChains ==
  ASSUME NEW S, NEW R, NEW a \in Seq(S), NEW b \in Seq(S), a # <<>>, b # <<>>,
         NEW la, NEW lb, Chained(R, a, la), Chained(R, b, lb),
         <<a[Len(a)], la[Len(a)], b[1], lb[1]>> \in R
  PROVE  \E l : Chained(R, a \o b, l) /\ l[1] = la[1] /\ l[Len(a \o b)] = lb[Len(b)]
<1>1. PICK m \in Nat, n \in Nat : m = Len(a) /\ n = Len(b) /\ m # 0 /\ n # 0
  BY LenProperties, EmptySeq
<1>2. Len(a \o b) = m + n
  BY <1>1, ConcatProperties
<1> DEFINE c == a \o b
<1>3. \A i \in 1..(m + n) : c[i] = IF i <= m THEN a[i] ELSE b[i - m]
  BY <1>1, ConcatProperties
<1> DEFINE e(i) == IF i <= m THEN la[i] ELSE lb[i - m]
<1> DEFINE l == [i \in 1..(m + n) |-> e(i)]
<1>4. la \in [1..m -> Nat] /\ lb \in [1..n -> Nat]
  BY <1>1 DEF Chained
<1>5. l \in [1..(m + n) -> Nat]
  <2>1. ASSUME NEW i \in 1..(m + n)
        PROVE  e(i) \in Nat
    <3>1. i <= m => i \in 1..m
      BY <1>1
    <3>2. ~(i <= m) => i - m \in 1..n
      BY <1>1
    <3> QED
      BY <1>4, <3>1, <3>2
  <2> HIDE DEF e
  <2> QED
    BY <2>1
<1>6. ASSUME NEW i \in 1..(m + n)
      PROVE  l[i] = IF i <= m THEN la[i] ELSE lb[i - m]
  OBVIOUS
<1>7. (m + n) - m = n /\ 1 <= m /\ 1 \in 1..(m + n) /\ m + n \in 1..(m + n) /\ ~(m + n <= m)
  BY <1>1
<1> HIDE DEF l, c, e
<1>9. ASSUME NEW i \in 1..(m + n), NEW j \in 1..(m + n), j = i + 1
      PROVE  <<c[i], l[i], c[j], l[j]>> \in R
  <2>1. CASE j <= m
    <3>1. i \in 1..m /\ j \in 1..m
      BY <2>1, <1>9
    <3>2. c[i] = a[i] /\ l[i] = la[i] /\ c[j] = a[j] /\ l[j] = la[j]
      <4>1. i <= m
        BY <3>1
      <4> QED
        BY <2>1, <4>1, <1>3, <1>6
    <3> QED
      BY <3>1, <3>2, <1>1, <1>9 DEF Chained
  <2>2. CASE i = m
    <3>1. j - m = 1 /\ ~(j <= m) /\ i <= m
      BY <2>2, <1>9
    <3>2. c[i] = a[m] /\ l[i] = la[m] /\ c[j] = b[1] /\ l[j] = lb[1]
      BY <2>2, <3>1, <1>3, <1>6
    <3> QED
      BY <3>2, <1>1
  <2>3. CASE i > m
    <3>1. i - m \in 1..n /\ j - m \in 1..n /\ j - m = (i - m) + 1
      BY <2>3, <1>1, <1>9
    <3>3. PICK p \in 1..n : p = i - m
      BY <3>1
    <3>4. PICK q \in 1..n : q = j - m
      BY <3>1
    <3>2. c[i] = b[p] /\ l[i] = lb[p] /\ c[j] = b[q] /\ l[j] = lb[q]
      <4>1. ~(i <= m) /\ ~(j <= m)
        BY <2>3, <1>1, <1>9
      <4> QED
        BY <3>3, <3>4, <4>1, <1>3, <1>6
    <3> QED
      BY <3>1, <3>3, <3>4, <3>2, <1>1 DEF Chained
  <2> QED
    BY <2>1, <2>2, <2>3, <1>1, <1>9
<1>10. Len(c) = m + n
  BY <1>2 DEF c
<1>11. Chained(R, c, l)
  BY <1>5, <1>9, <1>10 DEF Chained
<1>12. l[1] = la[1] /\ l[m + n] = lb[n]
  BY <1>6, <1>7
<1> QED
  BY <1>1, <1>10, <1>11, <1>12 DEF c

\* A part of a chain from behind its first k elements is a chain, with their labels.
LEMMA RestOfChain ==
  ASSUME NEW R, NEW s, NEW l, Chained(R, s, l), NEW t, NEW k \in Nat,
         Len(s) \in Nat, Len(t) \in Nat, k + Len(t) <= Len(s),
         \A i \in 1..Len(t) : t[i] = s[i + k]
  PROVE  Chained(R, t, [i \in 1..Len(t) |-> l[i + k]])
<1>1. PICK m \in Nat, n \in Nat : m = Len(s) /\ n = Len(t)
  OBVIOUS
<1> DEFINE r == [i \in 1..n |-> l[i + k]]
<1>2. \A i \in 1..n : i + k \in 1..m
  BY <1>1
<1>3. \A i \in 1..n : r[i] = l[i + k] /\ t[i] = s[i + k]
  BY <1>1
<1>4. r \in [1..n -> Nat]
  BY <1>1, <1>2 DEF Chained
<1> HIDE DEF r
<1>6. ASSUME NEW i \in 1..n, NEW j \in 1..n, j = i + 1
      PROVE  <<t[i], r[i], t[j], r[j]>> \in R
  <2>1. PICK p \in 1..m : p = i + k
    BY <1>2
  <2>2. PICK q \in 1..m : q = j + k
    BY <1>2
  <2>3. q = p + 1
    BY <1>6, <2>1, <2>2
  <2>4. t[i] = s[p] /\ r[i] = l[p] /\ t[j] = s[q] /\ r[j] = l[q]
    BY <1>3, <2>1, <2>2
  <2> QED
    BY <1>1, <2>3, <2>4 DEF Chained
<1>7. Chained(R, t, r)
  BY <1>1, <1>4, <1>6 DEF Chained
<1> QED
  BY <1>1, <1>7 DEF r

(***************************************************************************)
(* The parts of messages, and what is read after a part.                   *)
(***************************************************************************)
PartNames == DOMAIN FixedSize \cup {"pixels", "text", "entries", "pdu"}
KindNames == Kinds \cup Encodings \cup Places

\* What a part of its name may say, and its length if its name fixes it.
WellFormed(p) ==
  /\ p.part \in DOMAIN FixedSize => p.size = FixedSize[p.part]
  /\ p.part = "type" => p.kind \in Kinds
  /\ p.part = "rect" => p.kind \in Encodings

Parts == {p \in [part : PartNames, size : Nat, kind : KindNames, number : Nat] :
            WellFormed(p)}

AllUnits == {u \in [at : Nat, of : Parts] : u.at \in 1..u.of.size}

\* The beginning of a message: the proxy's step, its length and the rectangles left.
Begins(s, w, k) == s = FirstStep /\ w = FixedSize[FirstStep] /\ k = 0

\* What is read after a part, with the rectangles left when it is read.
Leads(p, left, s, w, k) ==
  \/ p.part = "type" /\ p.kind = "bell" /\ Begins(s, w, k)
  \/ p.part = "type" /\ p.kind = "text" /\ s = "length" /\ w = 2 /\ k = 0
  \/ p.part = "type" /\ p.kind = "colours" /\ s = "first" /\ w = 2 /\ k = 0
  \/ p.part = "type" /\ p.kind = "update" /\ s = "nrects" /\ w = 2 /\ k = 0
  \/ p.part = "length" /\ s = "text" /\ w = p.number /\ k = 0
  \/ p.part = "first" /\ s = "entries" /\ w = p.number /\ k = 0
  \/ p.part = "tpkt" /\ s = "pdu" /\ w = p.number /\ k = 0
  \/ p.part = "nrects" /\ p.number = 0 /\ Begins(s, w, k)
  \/ p.part = "nrects" /\ p.number # 0 /\ s = "rect" /\ w = 2 /\ k = p.number
  \/ p.part = "rect" /\ p.kind = "raw" /\ s = "pixels" /\ w = p.number /\ k = left
  \/ p.part = "rect" /\ p.kind = "copy" /\ s = "source" /\ w = 2 /\ k = left
  \/ p.part \in {"pixels", "source"} /\ left = 1 /\ Begins(s, w, k)
  \/ p.part \in {"pixels", "source"} /\ left # 1 /\ s = "rect" /\ w = 2 /\ k = left - 1
  \/ p.part \in {"text", "entries", "pdu"} /\ Begins(s, w, k)

LeadsToBegin(p, left) == Leads(p, left, FirstStep, FixedSize[FirstStep], 0)

\* A length without anything behind it.
AnnouncesNothing(p) == p.part \in {"length", "first"} /\ p.number = 0

\* A part with something in it and the part behind it.
NextPart(p, k, q, j) == p.size > 0 /\ Leads(p, k, q.part, q.size, j)

PartLinks == {t \in Parts \X Nat \X Parts \X Nat : NextPart(t[1], t[2], t[3], t[4])}

\* A unit and the unit behind it, of the same part or of the next one.
NextUnit(u, k, v, j) ==
  \/ u.at < u.of.size /\ v.of = u.of /\ v.at = u.at + 1 /\ j = k
  \/ /\ u.at = u.of.size /\ v.at = 1
     /\ \/ Leads(u.of, k, v.of.part, v.of.size, j)
        \/ AnnouncesNothing(u.of) /\ Begins(v.of.part, v.of.size, j)

UnitLinks == {t \in AllUnits \X Nat \X AllUnits \X Nat : NextUnit(t[1], t[2], t[3], t[4])}

\* With this unit a message is at its end.
Ends(u, left) ==
  u.at = u.of.size /\ (LeadsToBegin(u.of, left) \/ AnnouncesNothing(u.of))

\* The parts of a whole message.
WholeMessage(m, l) ==
  /\ m \in Seq(Parts) /\ m # <<>> /\ Chained(PartLinks, m, l)
  /\ m[1].part = FirstStep /\ l[1] = 0
  /\ \/ m[Len(m)].size > 0 /\ LeadsToBegin(m[Len(m)], l[Len(m)])
     \/ m[Len(m)].size = 0 /\ Len(m) > 1 /\ AnnouncesNothing(m[Len(m) - 1])

\* The units of a whole message.
WholeUnits(s, l) ==
  /\ s \in Seq(AllUnits) /\ s # <<>> /\ Chained(UnitLinks, s, l)
  /\ s[1].at = 1 /\ Begins(s[1].of.part, s[1].of.size, l[1])
  /\ Ends(s[Len(s)], l[Len(s)])

\* What it is to be linked.
LEMMA PartLinked ==
  ASSUME NEW p, NEW k, NEW q, NEW j
  PROVE  <<p, k, q, j>> \in PartLinks <=>
           p \in Parts /\ k \in Nat /\ q \in Parts /\ j \in Nat /\ NextPart(p, k, q, j)
  BY DEF PartLinks

\* Two units that are linked.
LEMMA UnitLinked ==
  ASSUME NEW u, NEW k, NEW v, NEW j
  PROVE  <<u, k, v, j>> \in UnitLinks <=>
           /\ u \in AllUnits /\ k \in Nat /\ v \in AllUnits /\ j \in Nat
           /\ NextUnit(u, k, v, j)
  BY DEF UnitLinks

\* The units of a part, all with its label, are a chain.
LEMMA UnitsOfPart ==
  ASSUME NEW p \in Parts, p.size > 0, NEW k \in Nat
  PROVE  /\ UnitsOf(p) \in Seq(AllUnits) /\ Len(UnitsOf(p)) = p.size
         /\ UnitsOf(p) # <<>>
         /\ Chained(UnitLinks, UnitsOf(p), [i \in 1..p.size |-> k])
         /\ \A i \in 1..p.size : UnitsOf(p)[i].at = i /\ UnitsOf(p)[i].of = p
<1>1. PICK n \in Nat : n = p.size /\ n # 0
  BY DEF Parts
<1>2. UnitsOf(p) = [i \in 1..n |-> [at |-> i, of |-> p]]
  BY <1>1 DEF UnitsOf
<1>3. \A i \in 1..n : [at |-> i, of |-> p] \in AllUnits
  BY <1>1 DEF AllUnits
<1>4. UnitsOf(p) \in [1..n -> AllUnits]
  BY <1>2, <1>3
<1> DEFINE s == UnitsOf(p)
<1>5. \A i \in 1..n : s[i] = [at |-> i, of |-> p]
  BY <1>2
<1>11. ASSUME NEW i \in 1..n
       PROVE  s[i].at = i /\ s[i].of = p
  BY <1>2
<1>12. \A i \in 1..n : s[i] \in AllUnits
  BY <1>3, <1>5
<1> HIDE DEF s
<1>6. s \in Seq(AllUnits) /\ Len(s) = n
  BY <1>4, SeqDef, LenProperties DEF s
<1>7. s # <<>>
  BY <1>1, <1>6, EmptySeq
<1> DEFINE l == [i \in 1..n |-> k]
<1>8. l \in [1..n -> Nat] /\ \A i \in 1..n : l[i] = k
  OBVIOUS
<1> HIDE DEF l
<1>9. ASSUME NEW i \in 1..n, NEW j \in 1..n, j = i + 1
      PROVE  <<s[i], l[i], s[j], l[j]>> \in UnitLinks
  <2>1. s[i] \in AllUnits /\ s[j] \in AllUnits /\ l[i] = k /\ l[j] = k
    BY <1>12, <1>8
  <2>2. s[i].at < s[i].of.size /\ s[j].of = s[i].of /\ s[j].at = s[i].at + 1
    BY <1>1, <1>11, <1>9
  <2> QED
    <3>1. NextUnit(s[i], l[i], s[j], l[j])
      BY <2>1, <2>2 DEF NextUnit
    <3> QED
      BY <2>1, <3>1, UnitLinked
<1>10. Chained(UnitLinks, s, l)
  BY <1>6, <1>8, <1>9 DEF Chained
<1> QED
  <2>1. l = [i \in 1..p.size |-> k]
    BY <1>1 DEF l
  <2>2. \A i \in 1..p.size : s[i].at = i /\ s[i].of = p
    BY <1>1, <1>11
  <2> HIDE DEF l
  <2>3. Chained(UnitLinks, s, [i \in 1..p.size |-> k])
    BY <1>10, <2>1
  <2> QED
    BY <1>1, <1>6, <1>7, <2>2, <2>3 DEF s

\* A part without units has the empty sequence of them.
LEMMA UnitsOfNothing ==
  ASSUME NEW p \in Parts, p.size = 0
  PROVE  UnitsOf(p) = <<>>
<1>1. UnitsOf(p) \in [1..0 -> AllUnits]
  BY DEF UnitsOf
<1>2. UnitsOf(p) \in Seq(AllUnits) /\ Len(UnitsOf(p)) = 0
  BY <1>1, SeqDef, LenProperties
<1> QED
  BY <1>2, EmptySeq

\* A whole message travels as whole units.
LEMMA MessageTravels ==
  ASSUME NEW m, NEW l, WholeMessage(m, l)
  PROVE  \E k : WholeUnits(Units(m), k)
<1>1. PICK n \in Nat : n = Len(m) /\ n # 0
  <2>1. m \in Seq(Parts) /\ m # <<>>
    BY DEF WholeMessage
  <2> QED
    BY <2>1, LenProperties, EmptySeq
<1>2. ASSUME NEW i \in 1..n
      PROVE  m[i] \in Parts /\ l[i] \in Nat /\ m[i].size \in Nat
  <2>1. m \in Seq(Parts) /\ l \in [1..n -> Nat]
    BY <1>1 DEF WholeMessage, Chained
  <2>2. m[i] \in Parts
    BY <1>1, <2>1, ElementOfSeq
  <2> QED
    BY <2>1, <2>2 DEF Parts
<1>3. ASSUME NEW i \in 1..n, NEW j \in 1..n, j = i + 1
      PROVE  NextPart(m[i], l[i], m[j], l[j])
  <2>1. <<m[i], l[i], m[j], l[j]>> \in PartLinks
    BY <1>1, <1>3 DEF WholeMessage, Chained
  <2> QED
    BY <2>1, PartLinked
<1>4. ASSUME NEW i \in 1..n, i < n
      PROVE  m[i].size > 0
  <2>1. PICK j \in 1..n : j = i + 1
    BY <1>4
  <2> QED
    BY <1>3, <2>1 DEF NextPart
<1> DEFINE ss == [i \in 1..n |-> UnitsOf(m[i])]
<1>5. ASSUME NEW i \in 1..n
      PROVE  UnitsOf(m[i]) \in Seq(AllUnits)
  <2>1. CASE m[i].size > 0
    BY <1>2, <2>1, UnitsOfPart
  <2>2. CASE m[i].size = 0
    BY <1>2, <2>2, UnitsOfNothing, EmptySeq
  <2> QED
    BY <1>2, <2>1, <2>2
<1>6. ss \in [1..n -> Seq(AllUnits)] /\ \A i \in 1..n : ss[i] = UnitsOf(m[i])
  BY <1>5
<1>7. Units(m) = FlattenSeq(ss)
  BY <1>1 DEF Units
<1> HIDE DEF ss
<1> DEFINE Upto(i, s, k) ==
      /\ s # <<>> /\ Chained(UnitLinks, s, k) /\ k[1] = 0
      /\ s[1].at = 1 /\ s[1].of = m[1]
      /\ m[i].size > 0 => s[Len(s)].of = m[i] /\ s[Len(s)].at = m[i].size /\ k[Len(s)] = l[i]
      /\ m[i].size = 0 => Ends(s[Len(s)], k[Len(s)])
<1> DEFINE J(i, s) == \E k : Upto(i, s, k)
<1> DEFINE I == {t \in (1..n) \X Seq(AllUnits) : J(t[1], t[2])}
<1>8. 1 \in 1..n /\ m[1].part = FirstStep /\ l[1] = 0
  BY <1>1 DEF WholeMessage
<1>9. m[1].size = FixedSize[FirstStep] /\ m[1].size > 0
  BY <1>2, <1>8 DEF Parts, WellFormed, FirstStep, FixedSize
<1>10. ss[1] \in Seq(AllUnits) /\ J(1, ss[1])
  <2>1. PICK z \in Nat : z = m[1].size /\ z > 0
    BY <1>2, <1>8, <1>9
  <2> DEFINE s == UnitsOf(m[1])
  <2> DEFINE k == [i \in 1..z |-> l[1]]
  <2>2. /\ s \in Seq(AllUnits) /\ Len(s) = z /\ s # <<>> /\ Chained(UnitLinks, s, k)
        /\ \A i \in 1..z : s[i].at = i /\ s[i].of = m[1]
    BY <1>2, <1>8, <2>1, UnitsOfPart
  <2>3. k[1] = 0 /\ k[z] = l[1]
    BY <1>8, <2>1
  <2>4. 1 \in 1..z /\ z \in 1..z
    BY <2>1
  <2> HIDE DEF k, s
  <2>5. Upto(1, s, k)
    BY <2>1, <2>2, <2>3, <2>4
  <2> QED
    BY <1>6, <1>8, <2>2, <2>5 DEF s
<1>11. ASSUME NEW i \in 2..n, NEW s \in Seq(AllUnits), J(i - 1, s)
       PROVE  J(i, s \o ss[i])
  <2>1. PICK h \in 1..n : h = i - 1 /\ h < n /\ i = h + 1
    <3>1. i - 1 \in 1..n /\ i - 1 < n /\ i = (i - 1) + 1
      BY <1>1
    <3> QED
      BY <3>1
  <2>2. PICK k : Upto(h, s, k)
    BY <1>11, <2>1
  <2>3. i \in 1..n
    BY <1>1
  <2>4. m[h].size > 0
    BY <1>4, <2>1
  <2>5. s[Len(s)].of = m[h] /\ s[Len(s)].at = m[h].size /\ k[Len(s)] = l[h]
    BY <2>2, <2>4
  <2>6. Leads(m[h], l[h], m[i].part, m[i].size, l[i])
    BY <1>3, <2>1, <2>3 DEF NextPart
  <2>7. CASE m[i].size > 0
    <3> DEFINE b == UnitsOf(m[i])
    <3>1. PICK z \in Nat : z = m[i].size /\ z > 0
      BY <1>2, <2>3, <2>7
    <3> DEFINE lb == [x \in 1..z |-> l[i]]
    <3>2. /\ b \in Seq(AllUnits) /\ Len(b) = z /\ b # <<>> /\ Chained(UnitLinks, b, lb)
          /\ \A x \in 1..z : b[x].at = x /\ b[x].of = m[i]
      BY <1>2, <2>3, <3>1, UnitsOfPart
    <3>3. 1 \in 1..z /\ z \in 1..z /\ lb[1] = l[i] /\ lb[z] = l[i]
      BY <3>1
    <3> HIDE DEF lb, b
    <3>4. NextUnit(s[Len(s)], k[Len(s)], b[1], lb[1])
      BY <2>5, <2>6, <3>2, <3>3 DEF NextUnit
    <3>5. s[Len(s)] \in AllUnits /\ b[1] \in AllUnits
      <4>1. Len(s) \in 1..Len(s) /\ 1 \in 1..Len(b)
        BY <2>2, <3>1, <3>2, LenProperties, EmptySeq
      <4> QED
        BY <3>2, <4>1, ElementOfSeq
    <3>6. <<s[Len(s)], k[Len(s)], b[1], lb[1]>> \in UnitLinks
      BY <1>2, <2>1, <2>3, <2>5, <3>3, <3>4, <3>5, UnitLinked
    <3>7. PICK g : /\ Chained(UnitLinks, s \o b, g) /\ g[1] = k[1]
                   /\ g[Len(s \o b)] = lb[Len(b)]
      BY <2>2, <3>2, <3>6, JoinChains
    <3>8. /\ (s \o b)[1] = s[1] /\ (s \o b)[Len(s \o b)] = b[Len(b)] /\ s \o b # <<>>
      BY <2>2, <3>2, ConcatEnds
    <3>9. Upto(i, s \o b, g)
      BY <2>2, <2>7, <3>1, <3>2, <3>3, <3>7, <3>8
    <3> QED
      BY <1>6, <2>3, <3>9 DEF b
  <2>8. CASE m[i].size = 0
    <3>1. i = n
      BY <1>4, <2>3, <2>8
    <3>2. s \o ss[i] = s
      BY <1>2, <1>6, <2>3, <2>8, UnitsOfNothing, ConcatEmptySeq
    <3>3. AnnouncesNothing(m[h])
      <4>1. m[Len(m)].size = 0
        BY <1>1, <2>8, <3>1
      <4>2. AnnouncesNothing(m[Len(m) - 1])
        BY <4>1 DEF WholeMessage
      <4> QED
        BY <1>1, <2>1, <3>1, <4>2
    <3>4. Ends(s[Len(s)], k[Len(s)])
      BY <2>5, <3>3 DEF Ends
    <3>5. Upto(i, s, k)
      BY <2>2, <2>8, <3>4
    <3> QED
      BY <3>2, <3>5
  <2> QED
    BY <1>2, <2>3, <2>7, <2>8
<1>12. <<1, ss[1]>> \in I
  <2> HIDE DEF J
  <2> QED
    BY <1>8, <1>10
<1>13. \A i \in 2..n : \A s \in Seq(AllUnits) : <<i - 1, s>> \in I => <<i, s \o ss[i]>> \in I
  <2> SUFFICES ASSUME NEW i \in 2..n, NEW s \in Seq(AllUnits), <<i - 1, s>> \in I
               PROVE  <<i, s \o ss[i]>> \in I
    BY Zenon
  <2> HIDE DEF J
  <2>1. J(i - 1, s)
    OBVIOUS
  <2>2. J(i, s \o ss[i])
    BY <1>11, <2>1
  <2>3. i \in 1..n /\ ss[i] \in Seq(AllUnits)
    BY <1>1, <1>6, SMTT(20)
  <2>4. s \o ss[i] \in Seq(AllUnits)
    BY <2>3, ConcatProperties
  <2> QED
    BY <2>2, <2>3, <2>4
<1>14. Units(m) \in Seq(AllUnits) /\ J(n, Units(m))
  <2> HIDE DEF J
  <2>1. FlattenSeq(ss) \in Seq(AllUnits) /\ <<n, FlattenSeq(ss)>> \in I
    <3> HIDE DEF I
    <3> QED
      BY <1>1, <1>6, <1>12, <1>13, FlattenInduct
  <2> QED
    BY <1>7, <2>1
<1>15. PICK k : Upto(n, Units(m), k)
  BY <1>14
<1> DEFINE U == Units(m)
<1>16. Ends(U[Len(U)], k[Len(U)])
  <2>1. n \in 1..n
    BY <1>1
  <2>2. CASE m[n].size = 0
    BY <1>15, <2>2
  <2>3. CASE m[n].size > 0
    <3>1. LeadsToBegin(m[n], l[n])
      BY <1>1, <2>3 DEF WholeMessage
    <3> QED
      BY <1>15, <2>3, <3>1 DEF Ends
  <2> QED
    BY <1>2, <2>1, <2>2, <2>3
<1>17. Begins(U[1].of.part, U[1].of.size, k[1])
  BY <1>8, <1>9, <1>15 DEF Begins
<1> QED
  BY <1>14, <1>15, <1>16, <1>17 DEF WholeUnits

\* The lengths of the parts that have one of their own.
LEMMA FixedSizes ==
  /\ DOMAIN FixedSize = {"type", "length", "first", "nrects", "rect", "source", "tpkt"}
  /\ FixedSize["type"] = 1
  /\ \A s \in {"length", "first", "nrects", "rect", "source", "tpkt"} : FixedSize[s] = 2
  BY DEF FixedSize

\* When a part is one.
LEMMA PartTyped ==
  ASSUME NEW s \in PartNames, NEW z \in Nat, NEW kind \in KindNames, NEW x \in Nat,
         s \in DOMAIN FixedSize => z = FixedSize[s],
         s = "type" => kind \in Kinds,
         s = "rect" => kind \in Encodings
  PROVE  Part(s, z, kind, x) \in Parts
<1> DEFINE p == Part(s, z, kind, x)
<1>1. p \in [part : PartNames, size : Nat, kind : KindNames, number : Nat]
  BY DEF Part
<1>2. p.part = s /\ p.size = z /\ p.kind = kind /\ p.number = x
  BY DEF Part
<1> HIDE DEF p
<1>3. WellFormed(p)
  BY <1>2 DEF WellFormed
<1>4. p \in Parts
  BY <1>1, <1>3 DEF Parts
<1> QED
  BY <1>4 DEF p

\* The parts that messages are made of.
LEMMA PartsTyped ==
  /\ \A kind \in Kinds : Fixed("type", kind, 0) \in Parts
  /\ \A n \in Nat : /\ Fixed("length", "", n) \in Parts
                    /\ Fixed("first", "", n) \in Parts
                    /\ Fixed("tpkt", "", n) \in Parts
                    /\ Fixed("nrects", "", n) \in Parts
                    /\ Fixed("rect", "raw", n) \in Parts
                    /\ Part("text", n, "", 0) \in Parts
                    /\ Part("pdu", n, "", 0) \in Parts
                    /\ Part("pixels", n, "", 0) \in Parts
  /\ \A n \in Nat, k \in Places : Part("entries", n, k, 0) \in Parts
  /\ Fixed("rect", "copy", 0) \in Parts /\ Fixed("source", "", 0) \in Parts
<1>1. ASSUME NEW kind \in Kinds
      PROVE  Fixed("type", kind, 0) \in Parts
  <2>1. "type" \in PartNames
    BY FixedSizes DEF PartNames
  <2>2. kind \in KindNames
    BY DEF KindNames
  <2>3. FixedSize["type"] \in Nat
    BY FixedSizes
  <2>4. "type" \notin {"rect", "nrects", "length", "first", "tpkt"}
    OBVIOUS
  <2> QED
    BY <2>1, <2>2, <2>3, <2>4, PartTyped DEF Fixed
<1>2. ASSUME NEW n \in Nat, NEW s \in {"length", "first", "tpkt", "nrects"}
      PROVE  Fixed(s, "", n) \in Parts
  <2>1. s \in PartNames /\ "" \in KindNames /\ FixedSize[s] \in Nat
    BY FixedSizes DEF PartNames, KindNames, Places
  <2> QED
    BY <2>1, PartTyped DEF Fixed
<1>3. ASSUME NEW n \in Nat
      PROVE  Fixed("rect", "raw", n) \in Parts
  <2>1. /\ "rect" \in PartNames /\ "raw" \in KindNames /\ FixedSize["rect"] \in Nat
        /\ "raw" \in Encodings
    BY FixedSizes DEF PartNames, KindNames, Encodings
  <2> QED
    BY <2>1, PartTyped DEF Fixed
<1>4. ASSUME NEW n \in Nat, NEW s \in {"text", "entries", "pdu", "pixels"}, NEW k \in Places
      PROVE  Part(s, n, k, 0) \in Parts
  <2>1. s \in PartNames /\ k \in KindNames /\ s \notin DOMAIN FixedSize
    BY FixedSizes DEF PartNames, KindNames
  <2> QED
    BY <2>1, PartTyped
<1>5. "" \in Places
  BY DEF Places
<1>6. Fixed("rect", "copy", 0) \in Parts
  <2>1. /\ "rect" \in PartNames /\ "copy" \in KindNames /\ FixedSize["rect"] \in Nat
        /\ "copy" \in Encodings
    BY FixedSizes DEF PartNames, KindNames, Encodings
  <2> QED
    BY <2>1, PartTyped DEF Fixed
<1>7. Fixed("source", "", 0) \in Parts
  <2>1. "source" \in PartNames /\ "" \in KindNames /\ FixedSize["source"] \in Nat
    BY FixedSizes DEF PartNames, KindNames, Places
  <2> QED
    BY <2>1, PartTyped DEF Fixed
<1> QED
  BY <1>1, <1>2, <1>3, <1>4, <1>5, <1>6, <1>7

\* Two parts, one linked to the other.
LEMMA TwoParts ==
  ASSUME NEW a \in Parts, NEW b \in Parts, NEW k \in Nat, NEW j \in Nat,
         NextPart(a, k, b, j)
  PROVE  /\ <<a, b>> \in Seq(Parts) /\ Len(<<a, b>>) = 2 /\ <<a, b>> # <<>>
         /\ \E l : Chained(PartLinks, <<a, b>>, l) /\ l[1] = k /\ l[2] = j
<1>1. <<a, b>> \in Seq(Parts) /\ Len(<<a, b>>) = 2 /\ <<a, b>> # <<>>
  OBVIOUS
<1> DEFINE l == [i \in 1..2 |-> IF i = 1 THEN k ELSE j]
<1>2. l \in [1..2 -> Nat] /\ l[1] = k /\ l[2] = j
  OBVIOUS
<1> HIDE DEF l
<1> DEFINE s == <<a, b>>
<1>3. s[1] = a /\ s[2] = b /\ Len(s) = 2
  OBVIOUS
<1> HIDE DEF s
<1>4. ASSUME NEW i \in 1..2, NEW h \in 1..2, h = i + 1
      PROVE  <<s[i], l[i], s[h], l[h]>> \in PartLinks
  <2>1. i = 1 /\ h = 2
    BY <1>4
  <2>2. <<a, k, b, j>> \in PartLinks
    BY PartLinked
  <2> QED
    BY <1>2, <1>3, <2>1, <2>2
<1>5. Chained(PartLinks, s, l)
  BY <1>2, <1>3, <1>4 DEF Chained
<1> QED
  BY <1>1, <1>2, <1>5 DEF s

\* Three, of no update.
LEMMA ThreeParts ==
  ASSUME NEW a \in Parts, NEW b \in Parts, NEW c \in Parts,
         NextPart(a, 0, b, 0), NextPart(b, 0, c, 0)
  PROVE  /\ <<a, b, c>> \in Seq(Parts) /\ Len(<<a, b, c>>) = 3 /\ <<a, b, c>> # <<>>
         /\ \E l : Chained(PartLinks, <<a, b, c>>, l) /\ l[1] = 0 /\ l[3] = 0
<1>1. <<a, b, c>> \in Seq(Parts) /\ Len(<<a, b, c>>) = 3 /\ <<a, b, c>> # <<>>
  OBVIOUS
<1> DEFINE l == [i \in 1..3 |-> 0]
<1>2. l \in [1..3 -> Nat] /\ \A i \in 1..3 : l[i] = 0
  OBVIOUS
<1> HIDE DEF l
<1> DEFINE s == <<a, b, c>>
<1>3. s[1] = a /\ s[2] = b /\ s[3] = c /\ Len(s) = 3
  OBVIOUS
<1> HIDE DEF s
<1>4. ASSUME NEW i \in 1..3, NEW h \in 1..3, h = i + 1
      PROVE  <<s[i], l[i], s[h], l[h]>> \in PartLinks
  <2>1. \/ i = 1 /\ h = 2
        \/ i = 2 /\ h = 3
    BY <1>4
  <2>2. <<a, 0, b, 0>> \in PartLinks /\ <<b, 0, c, 0>> \in PartLinks
    BY PartLinked
  <2>3. l[i] = 0 /\ l[h] = 0
    BY <1>2
  <2> QED
    BY <1>3, <2>1, <2>2, <2>3
<1>5. Chained(PartLinks, s, l)
  BY <1>2, <1>3, <1>4 DEF Chained
<1> QED
  BY <1>1, <1>2, <1>5 DEF s

\* The fields of a part.
LEMMA PartFields ==
  ASSUME NEW s, NEW z, NEW kind, NEW x
  PROVE  /\ Part(s, z, kind, x).part = s /\ Part(s, z, kind, x).size = z
         /\ Part(s, z, kind, x).kind = kind /\ Part(s, z, kind, x).number = x
  BY DEF Part

\* A rectangle is its head and its body.
LEMMA RectanglePair ==
  ASSUME NEW q \in Rectangles, NEW k \in Nat
  PROVE  /\ q \in Seq(Parts) /\ Len(q) = 2 /\ q # <<>>
         /\ q[1].part = "rect" /\ q[1].size = 2
         /\ q[2].part \in {"pixels", "source"} /\ q[2].size > 0
         /\ \E l : Chained(PartLinks, q, l) /\ l[1] = k /\ l[2] = k
<1>1. CASE q = <<Fixed("rect", "copy", 0), Fixed("source", "", 0)>>
  <2> DEFINE a == Fixed("rect", "copy", 0)
  <2> DEFINE b == Fixed("source", "", 0)
  <2>1. a \in Parts /\ b \in Parts
    BY PartsTyped
  <2>2. /\ a.part = "rect" /\ a.size = 2 /\ a.kind = "copy" /\ a.number = 0
        /\ b.part = "source" /\ b.size = 2
    <3>1. FixedSize["rect"] = 2 /\ FixedSize["source"] = 2
      BY FixedSizes
    <3> QED
      BY <3>1 DEF Fixed, Part
  <2>3. q = <<a, b>>
    BY <1>1
  <2> HIDE DEF a, b
  <2>4. NextPart(a, k, b, k)
    BY <2>2 DEF NextPart, Leads
  <2>5. q[1] = a /\ q[2] = b
    BY <2>3
  <2> QED
    BY <2>1, <2>2, <2>3, <2>4, <2>5, TwoParts
<1>2. ASSUME NEW n \in Lengths \ {0}, q = <<Fixed("rect", "raw", n), Part("pixels", n, "", 0)>>
      PROVE  /\ q \in Seq(Parts) /\ Len(q) = 2 /\ q # <<>>
             /\ q[1].part = "rect" /\ q[1].size = 2
             /\ q[2].part \in {"pixels", "source"} /\ q[2].size > 0
             /\ \E l : Chained(PartLinks, q, l) /\ l[1] = k /\ l[2] = k
  <2> DEFINE a == Fixed("rect", "raw", n)
  <2> DEFINE b == Part("pixels", n, "", 0)
  <2>1. a \in Parts /\ b \in Parts
    <3>1. n \in Nat
      BY BoundsAssumption
    <3> QED
      BY <3>1, PartsTyped
  <2>2. /\ a.part = "rect" /\ a.size = 2 /\ a.kind = "raw" /\ a.number = n
        /\ b.part = "pixels" /\ b.size = n
    <3>1. FixedSize["rect"] = 2
      BY FixedSizes
    <3> QED
      BY <3>1 DEF Fixed, Part
  <2>3. q = <<a, b>>
    BY <1>2
  <2> HIDE DEF a, b
  <2>4. NextPart(a, k, b, k)
    BY <2>2 DEF NextPart, Leads
  <2>5. q[1] = a /\ q[2] = b /\ n > 0
    BY <2>3, BoundsAssumption
  <2> QED
    BY <2>1, <2>2, <2>3, <2>4, <2>5, TwoParts
<1> QED
  BY <1>1, <1>2 DEF Rectangles

\* The rectangles of an update, numbered down to one.
LEMMA RectanglesChained ==
  ASSUME NEW n \in Nat \ {0}, NEW r \in [1..n -> Rectangles]
  PROVE  /\ FlattenSeq(r) \in Seq(Parts) /\ FlattenSeq(r) # <<>>
         /\ FlattenSeq(r)[1].part = "rect" /\ FlattenSeq(r)[1].size = 2
         /\ FlattenSeq(r)[Len(FlattenSeq(r))].part \in {"pixels", "source"}
         /\ FlattenSeq(r)[Len(FlattenSeq(r))].size > 0
         /\ \E l : /\ Chained(PartLinks, FlattenSeq(r), l)
                   /\ l[1] = n /\ l[Len(FlattenSeq(r))] = 1
<1> DEFINE Upto(i, s, l) ==
      /\ s # <<>> /\ Chained(PartLinks, s, l)
      /\ s[1].part = "rect" /\ s[1].size = 2
      /\ s[Len(s)].part \in {"pixels", "source"} /\ s[Len(s)].size > 0
      /\ l[1] = n /\ l[Len(s)] = (n - i) + 1
<1> DEFINE J(i, s) == \E l : Upto(i, s, l)
<1> DEFINE I == {t \in (1..n) \X Seq(Parts) : J(t[1], t[2])}
<1>1. 1 \in 1..n /\ (n - 1) + 1 = n /\ (n - n) + 1 = 1 /\ n \in 1..n
  OBVIOUS
<1>2. ASSUME NEW i \in 1..n
      PROVE  r[i] \in Rectangles /\ r[i] \in Seq(Parts)
  <2>1. r[i] \in Rectangles
    OBVIOUS
  <2> QED
    BY <2>1, RectanglePair
<1>3. J(1, r[1])
  <2> DEFINE q == r[1]
  <2>1. q \in Rectangles
    BY <1>1, <1>2
  <2> HIDE DEF q
  <2>2. PICK l : Chained(PartLinks, q, l) /\ l[1] = n /\ l[2] = n
    BY <2>1, RectanglePair
  <2>3. /\ Len(q) = 2 /\ q # <<>> /\ q[1].part = "rect" /\ q[1].size = 2
        /\ q[2].part \in {"pixels", "source"} /\ q[2].size > 0
    BY <2>1, RectanglePair
  <2>4. Upto(1, q, l)
    BY <1>1, <2>2, <2>3
  <2> QED
    BY <2>4 DEF q
<1>4. ASSUME NEW i \in 2..n, NEW s \in Seq(Parts), J(i - 1, s)
      PROVE  J(i, s \o r[i])
  <2>1. PICK l : Upto(i - 1, s, l)
    BY <1>4
  <2> DEFINE q == r[i]
  <2> DEFINE k == (n - i) + 1
  <2>2. i \in 1..n /\ k \in Nat /\ (n - (i - 1)) + 1 = k + 1
    OBVIOUS
  <2>3. q \in Rectangles
    BY <1>2, <2>2
  <2>4. l[Len(s)] = k + 1
    BY <2>1, <2>2
  <2> HIDE DEF q, k
  <2>5. PICK h : Chained(PartLinks, q, h) /\ h[1] = k /\ h[2] = k
    BY <2>2, <2>3, RectanglePair
  <2>6. /\ q \in Seq(Parts) /\ Len(q) = 2 /\ q # <<>>
        /\ q[1].part = "rect" /\ q[1].size = 2
        /\ q[2].part \in {"pixels", "source"} /\ q[2].size > 0
    BY <2>3, RectanglePair
  <2>7. s[Len(s)] \in Parts /\ q[1] \in Parts
    <3>1. Len(s) \in 1..Len(s) /\ 1 \in 1..Len(q)
      BY <2>1, <2>6, LenProperties, EmptySeq
    <3> QED
      BY <2>6, <3>1, ElementOfSeq
  <2>8. k + 1 # 1 /\ (k + 1) - 1 = k /\ k + 1 \in Nat
    <3>1. k # 0
      BY DEF k
    <3> QED
      BY <2>2, <3>1
  <2>9. NextPart(s[Len(s)], k + 1, q[1], k)
    BY <2>1, <2>6, <2>8 DEF NextPart, Leads
  <2>10. <<s[Len(s)], l[Len(s)], q[1], h[1]>> \in PartLinks
    BY <2>2, <2>4, <2>5, <2>7, <2>8, <2>9, PartLinked
  <2>11. PICK g : /\ Chained(PartLinks, s \o q, g) /\ g[1] = l[1]
                  /\ g[Len(s \o q)] = h[Len(q)]
    <3>1. s # <<>> /\ Chained(PartLinks, s, l)
      BY <2>1
    <3>2. q \in Seq(Parts) /\ q # <<>>
      BY <2>6
    <3>3. Chained(PartLinks, q, h)
      BY <2>5
    <3> HIDE DEF Upto
    <3> QED
      BY <2>10, <3>1, <3>2, <3>3, JoinChains
  <2>12. /\ (s \o q)[1] = s[1] /\ (s \o q)[Len(s \o q)] = q[Len(q)] /\ s \o q # <<>>
    <3>1. s \in Seq(Parts) /\ s # <<>> /\ q \in Seq(Parts) /\ q # <<>>
      BY <2>1, <2>6
    <3> HIDE DEF Upto
    <3> QED
      BY <3>1, ConcatEnds
  <2>13. g[Len(s \o q)] = k
    BY <2>5, <2>6, <2>11
  <2>14. Upto(i, s \o q, g)
    BY <2>1, <2>6, <2>11, <2>12, <2>13 DEF k
  <2> QED
    BY <2>14 DEF q
<1>5. <<1, r[1]>> \in I
  <2> HIDE DEF J
  <2> QED
    BY <1>1, <1>2, <1>3
<1>6. \A i \in 2..n : \A s \in Seq(Parts) : <<i - 1, s>> \in I => <<i, s \o r[i]>> \in I
  <2> SUFFICES ASSUME NEW i \in 2..n, NEW s \in Seq(Parts), <<i - 1, s>> \in I
               PROVE  <<i, s \o r[i]>> \in I
    BY Zenon
  <2> HIDE DEF J
  <2>1. J(i - 1, s)
    OBVIOUS
  <2>2. J(i, s \o r[i])
    BY <1>4, <2>1
  <2>3. i \in 1..n /\ r[i] \in Seq(Parts)
    BY <1>2
  <2>4. s \o r[i] \in Seq(Parts)
    BY <2>3, ConcatProperties
  <2> QED
    BY <2>2, <2>3, <2>4
<1>7. FlattenSeq(r) \in Seq(Parts) /\ J(n, FlattenSeq(r))
  <2> HIDE DEF J
  <2>1. r \in [1..n -> Seq(Parts)]
    BY <1>2
  <2>2. FlattenSeq(r) \in Seq(Parts) /\ <<n, FlattenSeq(r)>> \in I
    <3> HIDE DEF I
    <3> QED
      BY <1>5, <1>6, <2>1, FlattenInduct
  <2> QED
    BY <2>2
<1>8. PICK l : Upto(n, FlattenSeq(r), l)
  BY <1>7
<1> QED
  BY <1>1, <1>7, <1>8

\* Two, or three, parts of which the last may be empty are a message.
LEMMA TwoWhole ==
  ASSUME NEW a \in Parts, NEW b \in Parts, NextPart(a, 0, b, 0), a.part = FirstStep,
         b.size > 0, LeadsToBegin(b, 0)
  PROVE  \E l : WholeMessage(<<a, b>>, l)
<1> DEFINE m == <<a, b>>
<1>1. m[1] = a /\ m[2] = b /\ Len(m) = 2
  OBVIOUS
<1>2. m \in Seq(Parts) /\ m # <<>>
  BY TwoParts
<1>3. PICK l : Chained(PartLinks, m, l) /\ l[1] = 0 /\ l[2] = 0
  BY TwoParts
<1> HIDE DEF m
<1>4. WholeMessage(m, l)
  BY <1>1, <1>2, <1>3 DEF WholeMessage
<1> QED
  BY <1>4 DEF m

\* Three parts, one behind the other, are whole.
LEMMA ThreeWhole ==
  ASSUME NEW a \in Parts, NEW b \in Parts, NEW c \in Parts, NextPart(a, 0, b, 0),
         NextPart(b, 0, c, 0), a.part = FirstStep,
         \/ c.size > 0 /\ LeadsToBegin(c, 0)
         \/ c.size = 0 /\ AnnouncesNothing(b)
  PROVE  \E l : WholeMessage(<<a, b, c>>, l)
<1> DEFINE m == <<a, b, c>>
<1>1. m[1] = a /\ m[2] = b /\ m[3] = c /\ Len(m) = 3
  OBVIOUS
<1>2. m \in Seq(Parts) /\ m # <<>>
  BY ThreeParts
<1>3. PICK l : Chained(PartLinks, m, l) /\ l[1] = 0 /\ l[3] = 0
  BY ThreeParts
<1> HIDE DEF m
<1>4. m[Len(m)] = c /\ l[Len(m)] = 0 /\ Len(m) > 1 /\ Len(m) - 1 = 2
  BY <1>1, <1>3
<1>5. m[Len(m) - 1] = b
  BY <1>1, <1>4
<1>6. WholeMessage(m, l)
  BY <1>1, <1>2, <1>3, <1>4, <1>5 DEF WholeMessage
<1> QED
  BY <1>6 DEF m

\* The beginning of the two kinds of streams.
LEMMA Beginnings ==
  /\ side = "server" => FirstStep = "type" /\ FixedSize[FirstStep] = 1
  /\ side # "server" => FirstStep = "tpkt" /\ FixedSize[FirstStep] = 2
  BY FixedSizes DEF FirstStep

\* Every message of a peer is whole.
LEMMA MessagesWhole ==
  ASSUME NEW m \in Messages
  PROVE  \E l : WholeMessage(m, l)
<1>1. CASE side # "server"
  <2>1. PICK n \in Lengths \ {0} : m = <<Fixed("tpkt", "", n), Part("pdu", n, "", 0)>>
    BY <1>1 DEF Messages, ClientMessages
  <2> DEFINE a == Fixed("tpkt", "", n)
  <2> DEFINE b == Part("pdu", n, "", 0)
  <2>2. n \in Nat /\ n > 0
    BY BoundsAssumption
  <2>3. a \in Parts /\ b \in Parts
    BY <2>2, PartsTyped
  <2>4. FixedSize["tpkt"] = 2
    BY FixedSizes
  <2>5. a.part = "tpkt" /\ a.size = 2 /\ a.number = n /\ b.part = "pdu" /\ b.size = n
    BY <2>4 DEF Fixed, Part
  <2>6. m = <<a, b>>
    BY <2>1
  <2> HIDE DEF a, b
  <2>7. NextPart(a, 0, b, 0)
    BY <2>5 DEF NextPart, Leads
  <2>8. LeadsToBegin(b, 0)
    BY <2>5 DEF LeadsToBegin, Leads, Begins
  <2> QED
    BY <1>1, <2>2, <2>3, <2>5, <2>6, <2>7, <2>8, TwoWhole, Beginnings
<1>2. CASE side = "server" /\ m = <<Fixed("type", "bell", 0)>>
  <2> DEFINE a == Fixed("type", "bell", 0)
  <2> DEFINE s == <<a>>
  <2> DEFINE l == [i \in 1..1 |-> 0]
  <2>1. a \in Parts
    BY PartsTyped DEF Kinds
  <2>2. FixedSize["type"] = 1
    BY FixedSizes
  <2>3. a.part = "type" /\ a.size = 1 /\ a.kind = "bell"
    BY <2>2 DEF Fixed, Part
  <2> HIDE DEF a
  <2>4. s \in Seq(Parts) /\ Len(s) = 1 /\ s[1] = a /\ s # <<>>
    BY <2>1
  <2>5. l \in [1..1 -> Nat] /\ l[1] = 0
    OBVIOUS
  <2>6. m = s
    BY <1>2 DEF a
  <2> HIDE DEF l, s
  <2>7. \A i, x \in 1..1 : x # i + 1
    OBVIOUS
  <2>8. Chained(PartLinks, s, l)
    BY <2>4, <2>5, <2>7 DEF Chained
  <2>9. LeadsToBegin(a, 0)
    BY <2>3 DEF LeadsToBegin, Leads, Begins
  <2>10. WholeMessage(s, l)
    BY <1>2, <2>3, <2>4, <2>5, <2>8, <2>9, Beginnings DEF WholeMessage
  <2> QED
    BY <2>6, <2>10
<1>3. ASSUME side = "server", NEW n \in Lengths, NEW f \in {"text", "colours"}, NEW x,
             NEW y, NEW k \in Places, f = "text" => x = "length" /\ y = "text" /\ k = "",
             f = "colours" => x = "first" /\ y = "entries",
             m = <<Fixed("type", f, 0), Fixed(x, "", n), Part(y, n, k, 0)>>
      PROVE  \E l : WholeMessage(m, l)
  <2> DEFINE a == Fixed("type", f, 0)
  <2> DEFINE b == Fixed(x, "", n)
  <2> DEFINE c == Part(y, n, k, 0)
  <2>1. \/ f = "text" /\ x = "length" /\ y = "text" /\ k = ""
        \/ f = "colours" /\ x = "first" /\ y = "entries"
    BY <1>3
  <2>2. a \in Parts
    BY PartsTyped DEF Kinds
  <2>3. b \in Parts /\ c \in Parts
    <3>1. n \in Nat
      BY BoundsAssumption
    <3> QED
      BY <2>1, <3>1, PartsTyped
  <2>4. FixedSize["type"] = 1 /\ FixedSize[x] = 2
    BY <2>1, FixedSizes
  <2>5. /\ a.part = "type" /\ a.size = 1 /\ a.kind = f
        /\ b.part = x /\ b.size = 2 /\ b.number = n /\ c.part = y /\ c.size = n
    BY <2>4 DEF Fixed, Part
  <2>6. m = <<a, b, c>>
    BY <1>3
  <2> HIDE DEF a, b, c
  <2>12. \/ f = "text" /\ x = "length" /\ y = "text"
         \/ f = "colours" /\ x = "first" /\ y = "entries"
    BY <2>1
  <2>7. NextPart(a, 0, b, 0)
    BY <2>5, <2>12 DEF NextPart, Leads
  <2>8. NextPart(b, 0, c, 0)
    BY <2>5, <2>12 DEF NextPart, Leads
  <2>9. LeadsToBegin(c, 0)
    BY <2>5, <2>12 DEF LeadsToBegin, Leads, Begins
  <2>10. n = 0 => AnnouncesNothing(b)
    BY <2>1, <2>5 DEF AnnouncesNothing
  <2>11. n = 0 \/ n > 0
    BY BoundsAssumption
  <2> QED
    BY <1>3, <2>2, <2>3, <2>5, <2>6, <2>7, <2>8, <2>9, <2>10, <2>11, ThreeWhole, Beginnings
<1>4. ASSUME side = "server", NEW r \in SeqOf(Rectangles, MaxRects),
             m = <<Fixed("type", "update", 0), Fixed("nrects", "", Len(r))>> \o FlattenSeq(r)
      PROVE  \E l : WholeMessage(m, l)
  <2>1. PICK n \in 0..MaxRects : r \in [1..n -> Rectangles]
    BY DEF SeqOf
  <2>2. Len(r) = n /\ n \in Nat
    BY <2>1, BoundsAssumption, LenProperties
  <2> DEFINE a == Fixed("type", "update", 0)
  <2> DEFINE b == Fixed("nrects", "", n)
  <2>3. a \in Parts /\ b \in Parts
    BY <2>2, PartsTyped DEF Kinds
  <2>4. FixedSize["type"] = 1 /\ FixedSize["nrects"] = 2
    BY FixedSizes
  <2>5. /\ a.part = "type" /\ a.size = 1 /\ a.kind = "update"
        /\ b.part = "nrects" /\ b.size = 2 /\ b.number = n
    BY <2>4 DEF Fixed, Part
  <2>6. m = <<a, b>> \o FlattenSeq(r)
    BY <1>4, <2>2
  <2> HIDE DEF a, b
  <2>7. NextPart(a, 0, b, 0)
    BY <2>5 DEF NextPart, Leads
  <2>8. CASE n = 0
    <3>1. r = <<>>
      <4>1. r \in [1..0 -> Rectangles]
        BY <2>1, <2>8
      <4>2. r \in Seq(Rectangles) /\ Len(r) = 0
        BY <4>1, SeqDef, LenProperties
      <4> QED
        BY <4>2, EmptySeq
    <3>2. FlattenSeq(r) = <<>>
      <4>1. Len(<<>>) = 0
        OBVIOUS
      <4> QED
        BY <3>1, <4>1 DEF FlattenSeq
    <3>3. m = <<a, b>>
      <4> DEFINE s == <<a, b>>
      <4>1. s \in Seq(Parts)
        BY <2>3
      <4>2. m = s \o <<>>
        BY <2>6, <3>2
      <4> HIDE DEF s
      <4>3. m = s
        BY <4>1, <4>2, ConcatEmptySeq
      <4> QED
        BY <4>3 DEF s
    <3>4. LeadsToBegin(b, 0)
      BY <2>5, <2>8 DEF LeadsToBegin, Leads, Begins
    <3>5. a.part = FirstStep /\ b.size > 0
      <4>1. FirstStep = "type"
        BY <1>4, Beginnings
      <4>2. b.size > 0
        BY <2>5
      <4> QED
        BY <2>5, <4>1, <4>2
    <3>6. \E l : WholeMessage(<<a, b>>, l)
      BY <2>3, <2>7, <3>4, <3>5, TwoWhole
    <3> QED
      BY <3>3, <3>6
  <2>9. CASE n # 0
    <3> DEFINE s == <<a, b>>
    <3> DEFINE q == FlattenSeq(r)
    <3>1. n \in Nat \ {0}
      BY <2>2, <2>9
    <3>2. /\ q \in Seq(Parts) /\ q # <<>> /\ q[1].part = "rect" /\ q[1].size = 2
          /\ q[Len(q)].part \in {"pixels", "source"} /\ q[Len(q)].size > 0
      BY <2>1, <3>1, RectanglesChained
    <3>3. PICK h : Chained(PartLinks, q, h) /\ h[1] = n /\ h[Len(q)] = 1
      BY <2>1, <3>1, RectanglesChained
    <3>4. s \in Seq(Parts) /\ Len(s) = 2 /\ s # <<>>
      BY <2>3
    <3>5. PICK l : Chained(PartLinks, s, l) /\ l[1] = 0 /\ l[2] = 0
      BY <2>3, <2>7, TwoParts
    <3>6. s[1] = a /\ s[2] = b
      OBVIOUS
    <3>7. m = s \o q
      BY <2>6
    <3> HIDE DEF s, q
    <3>8. q[1] \in Parts
      <4>1. 1 \in 1..Len(q)
        BY <3>2, LenProperties, EmptySeq
      <4> QED
        BY <3>2, <4>1, ElementOfSeq
    <3>9. NextPart(b, 0, q[1], n)
      BY <2>5, <2>9, <3>2 DEF NextPart, Leads
    <3>10. <<s[Len(s)], l[Len(s)], q[1], h[1]>> \in PartLinks
      <4>1. <<b, 0, q[1], n>> \in PartLinks
        BY <2>2, <2>3, <3>8, <3>9, PartLinked
      <4> QED
        BY <3>3, <3>4, <3>5, <3>6, <4>1
    <3>11. Chained(PartLinks, s, l) /\ Chained(PartLinks, q, h) /\ q \in Seq(Parts) /\ q # <<>>
      BY <3>2, <3>3, <3>5
    <3>12. PICK g : /\ Chained(PartLinks, s \o q, g) /\ g[1] = l[1]
                    /\ g[Len(s \o q)] = h[Len(q)]
      <4>1. s \in Seq(Parts) /\ s # <<>>
        BY <3>4
      <4> QED
        BY <3>10, <3>11, <4>1, JoinChains
    <3>13. /\ (s \o q)[1] = s[1] /\ (s \o q)[Len(s \o q)] = q[Len(q)] /\ s \o q # <<>>
      BY <3>4, <3>11, ConcatEnds
    <3>14. s \o q \in Seq(Parts)
      BY <3>4, <3>11, ConcatProperties
    <3>15. LeadsToBegin(q[Len(q)], 1)
      BY <3>2 DEF LeadsToBegin, Leads, Begins
    <3>16. WholeMessage(m, g)
      BY <1>4, <2>5, <3>2, <3>3, <3>5, <3>6, <3>7, <3>12, <3>13, <3>14, <3>15, Beginnings
      DEF WholeMessage
    <3> QED
      BY <3>16
  <2> QED
    BY <2>8, <2>9
<1>5. CASE side = "server"
  <2>1. m \in ServerMessages
    BY <1>5 DEF Messages
  <2>2. CASE m = <<Fixed("type", "bell", 0)>>
    BY <1>2, <1>5, <2>2
  <2>3. ASSUME NEW n \in Lengths,
               m = <<Fixed("type", "text", 0), Fixed("length", "", n), Part("text", n, "", 0)>>
        PROVE  \E l : WholeMessage(m, l)
    <3>1. "text" \in {"text", "colours"} /\ "text" # "colours" /\ "" \in Places
      BY DEF Places
    <3> QED
      BY <1>3, <1>5, <2>3, <3>1
  <2>4. ASSUME NEW n \in Lengths, NEW k \in Places,
               m = <<Fixed("type", "colours", 0), Fixed("first", "", n),
                     Part("entries", n, k, 0)>>
        PROVE  \E l : WholeMessage(m, l)
    <3>1. "colours" \in {"text", "colours"} /\ "text" # "colours"
      OBVIOUS
    <3> QED
      BY <1>3, <1>5, <2>4, <3>1
  <2>5. ASSUME NEW r \in SeqOf(Rectangles, MaxRects),
               m = <<Fixed("type", "update", 0), Fixed("nrects", "", Len(r))>> \o FlattenSeq(r)
        PROVE  \E l : WholeMessage(m, l)
    BY <1>4, <1>5, <2>5
  <2>6. ASSUME NEW k \in Places, m \in ColourMaps(k)
        PROVE  \E l : WholeMessage(m, l)
    BY <2>4, <2>6 DEF ColourMaps
  <2>7. {"", "past"} = Places
    BY DEF Places
  <2> QED
    BY <2>1, <2>2, <2>3, <2>5, <2>6, <2>7 DEF ServerMessages
<1> QED
  BY <1>1, <1>5

(***************************************************************************)
(* The invariant.                                                          *)
(***************************************************************************)
\* What is in the stream, and still under way, are units of messages.
UnitsTyped == stream \in Seq(AllUnits) /\ coming \in Seq(AllUnits)

\* What was under way when the peer closed is gone.
NothingComes == closed => coming = <<>>

\* The units to come, labelled, are a chain which begins with the part the proxy is
\* about to read, and is at the end of a message unless the peer has closed.
InPlace(s, l) ==
  /\ Chained(UnitLinks, s, l)
  /\ s # <<>> => /\ s[1].at = 1 /\ s[1].of.part = step /\ s[1].of.size = want
                 /\ l[1] = rects
  /\ s # <<>> /\ ~closed => Ends(s[Len(s)], l[Len(s)])
  /\ s = <<>> /\ ~closed => Begins(step, want, rects)

Parsed ==
  pc = "reading" /\ want > 0 /\ ~signalled => \E l : InPlace(stream \o coming, l)

\* The packet has room for what is read next, unless nobody sees to it.
RoomInv ==
  /\ room \in Nat \ {0, 1}
  /\ step \notin {"text", "entries", "pdu"} => want <= room

FramingInv == TypeOK /\ RoomInv /\ UnitsTyped /\ NothingComes /\ Parsed /\ MisreadIsLast

(***************************************************************************)
(* The types.                                                              *)
(***************************************************************************)
\* The steps that have a length of their own are asked for with it; it fits every packet.
LEMMA FixedWant ==
  ASSUME NEW s \in DOMAIN FixedSize
  PROVE  FixedSize[s] \in Nat /\ FixedSize[s] <= 2
  BY FixedSizes

\* The types of what a handler changes, and the room for what it reads next.
Handled ==
  /\ pc' \in {"reading", "over", "overrun"}
  /\ step' \in DOMAIN FixedSize \cup {"pixels", "text", "entries", "pdu"}
  /\ want' \in Nat /\ room' \in Nat \ {0, 1}
  /\ step' \notin {"text", "entries", "pdu"} => want' <= room'
  /\ rects' \in IF step' \in {"rect", "pixels", "source"} THEN Nat \ {0} ELSE {0}
  /\ acted' \in 0..2

\* What the handlers make of a part, whatever it says.
LEMMA HandleTyped ==
  ASSUME TypeOK, RoomInv, NEW kind, NEW number \in Nat, Handle(kind, number)
  PROVE  Handled
<1>1. ASSUME Fail \/ Beyond
      PROVE  Handled
  BY <1>1 DEF Fail, Beyond, TypeOK, RoomInv, Handled
<1>2. ASSUME Done
      PROVE  Handled
  <2>1. FirstStep \in {"type", "tpkt"}
    BY DEF FirstStep
  <2>2. FirstStep \in DOMAIN FixedSize
    BY <2>1, FixedSizes
  <2>3. FixedSize[FirstStep] \in Nat /\ FixedSize[FirstStep] <= 2
    BY <2>2, FixedWant
  <2>4. acted' \in 0..2
    BY <1>2 DEF Done, TypeOK
  <2>5. room' \in Nat \ {0, 1} /\ want' \in Nat /\ want' <= room'
    BY <1>2, <2>3 DEF Done, RoomInv
  <2> QED
    BY <1>2, <2>1, <2>2, <2>4, <2>5 DEF Done, Handled
<1>3. ASSUME NEW s \in DOMAIN FixedSize \ {"rect", "source"}, ReadFixed(s, 0)
      PROVE  Handled
  <2>1. FixedSize[s] \in Nat /\ FixedSize[s] <= 2
    BY <1>3, FixedWant
  <2>2. s \notin {"rect", "pixels", "source"}
    BY FixedSizes
  <2>3. room' \in Nat \ {0, 1} /\ want' \in Nat /\ want' <= room'
    BY <1>3, <2>1 DEF ReadFixed, Read, Goto, RoomInv
  <2> QED
    BY <1>3, <2>2, <2>3 DEF ReadFixed, Read, Goto, TypeOK, Handled
<1>4. ASSUME NEW s \in {"text", "entries", "pdu"}, Read(s, number, 0)
      PROVE  Handled
  BY <1>4 DEF Read, Goto, TypeOK, RoomInv, Handled
<1>5. ASSUME NEW s \in {"rect", "source"}, NEW k \in Nat \ {0}, ReadFixed(s, k)
      PROVE  Handled
  <2>1. s \in DOMAIN FixedSize
    BY FixedSizes
  <2>2. FixedSize[s] \in Nat /\ FixedSize[s] <= 2
    BY <2>1, FixedWant
  <2>3. room' \in Nat \ {0, 1} /\ want' \in Nat /\ want' <= room'
    BY <1>5, <2>2 DEF ReadFixed, Read, Goto, RoomInv
  <2> QED
    BY <1>5, <2>1, <2>3 DEF ReadFixed, Read, Goto, TypeOK, Handled
<1>6. ASSUME NEW k \in Nat \ {0}, Goto("pixels", number, k), room' = RoomFor(number)
      PROVE  Handled
  <2>1. room' \in Nat \ {0, 1} /\ number <= room'
    BY <1>6 DEF RoomFor, RoomInv
  <2> QED
    BY <1>6, <2>1 DEF Goto, TypeOK, Handled
<1>7. ASSUME step \in {"rect", "pixels", "source"}, NextRect
      PROVE  Handled
  <2>1. rects \in Nat \ {0}
    BY <1>7 DEF TypeOK
  <2>2. CASE rects = 1
    BY <1>2, <1>7, <2>2 DEF NextRect, LastRect
  <2>3. CASE rects # 1
    <3>1. rects - 1 \in Nat \ {0}
      BY <2>1, <2>3
    <3>2. ReadFixed("rect", rects - 1)
      BY <1>7, <2>3 DEF NextRect, LastRect
    <3> QED
      BY <1>5, <3>1, <3>2
  <2> QED
    BY <2>2, <2>3
<1>8. ASSUME v2r_vnc_process(kind)
      PROVE  Handled
  <2>1. {"length", "first", "nrects"} \subseteq DOMAIN FixedSize \ {"rect", "source"}
    BY FixedSizes
  <2> QED
    BY <1>1, <1>2, <1>3, <1>8, <2>1 DEF v2r_vnc_process
<1>9. ASSUME v2r_vnc_process_framebuffer_update(kind, number)
      PROVE  Handled
  <2>1. CASE step = "nrects" /\ IF number = 0 THEN Done ELSE ReadFixed("rect", number)
    BY <1>2, <1>5, <2>1
  <2>2. CASE /\ step = "rect" /\ kind = "raw"
             /\ Goto("pixels", number, rects) /\ room' = RoomFor(number)
    <3>1. rects \in Nat \ {0}
      BY <2>2 DEF TypeOK
    <3> QED
      BY <1>6, <2>2, <3>1
  <2>3. CASE step = "rect" /\ kind = "copy" /\ ReadFixed("source", rects)
    <3>1. rects \in Nat \ {0}
      BY <2>3 DEF TypeOK
    <3> QED
      BY <1>5, <2>3, <3>1
  <2>4. CASE step \in {"rect", "pixels", "source"} /\ NextRect
    BY <1>7, <2>4
  <2>5. CASE Fail
    BY <1>1, <2>5
  <2> QED
    BY <1>9, <2>1, <2>2, <2>3, <2>4, <2>5 DEF v2r_vnc_process_framebuffer_update
<1>10. ASSUME v2r_vnc_process_server_cut_text(number)
       PROVE  Handled
  BY <1>2, <1>4, <1>10 DEF v2r_vnc_process_server_cut_text
<1>11. ASSUME v2r_vnc_process_set_colour_map_entries(kind, number)
       PROVE  Handled
  BY <1>1, <1>2, <1>4, <1>11 DEF v2r_vnc_process_set_colour_map_entries
<1>12. ASSUME v2r_tpkt_recv(number)
       PROVE  Handled
  BY <1>1, <1>2, <1>4, <1>12 DEF v2r_tpkt_recv
<1> QED
  BY <1>8, <1>9, <1>10, <1>11, <1>12 DEF Handle

\* What is read is units, and so is what is left.
LEMMA Cut ==
  ASSUME UnitsTyped, NEW k \in Nat, k <= Len(stream)
  PROVE  /\ SubSeq(stream, 1, k) \in Seq(AllUnits) /\ Len(SubSeq(stream, 1, k)) = k
         /\ \A i \in 1..k : SubSeq(stream, 1, k)[i] = stream[i]
         /\ SubSeq(stream, k + 1, Len(stream)) \in Seq(AllUnits)
         /\ Len(SubSeq(stream, k + 1, Len(stream))) = Len(stream) - k
         /\ \A i \in 1..(Len(stream) - k) : SubSeq(stream, k + 1, Len(stream))[i] = stream[i + k]
<1>1. PICK n \in Nat : n = Len(stream)
  BY LenProperties DEF UnitsTyped
<1>2. stream \in Seq(AllUnits)
  BY DEF UnitsTyped
<1>3. \A i \in 1..n : stream[i] \in AllUnits
  BY <1>1, <1>2, ElementOfSeq
<1> DEFINE a == SubSeq(stream, 1, k)
<1> DEFINE b == SubSeq(stream, k + 1, n)
<1>4. a \in Seq(AllUnits) /\ Len(a) = k /\ \A i \in 1..k : a[i] = stream[i]
  <2>1. \A i \in 1..k : stream[i] \in AllUnits /\ i \in 1..n
    BY <1>1, <1>3
  <2>2. a = [i \in 1..k |-> stream[i]]
    BY <1>1, <1>2
  <2> HIDE DEF a
  <2>3. a \in [1..k -> AllUnits]
    BY <2>1, <2>2
  <2> QED
    BY <2>2, <2>3, SeqDef, LenProperties
<1>5. b \in Seq(AllUnits) /\ Len(b) = n - k /\ \A i \in 1..(n - k) : b[i] = stream[i + k]
  <2>1. \A i \in 1..(n - k) : stream[i + k] \in AllUnits
    <3>1. \A i \in 1..(n - k) : i + k \in 1..n
      BY <1>1
    <3> QED
      BY <1>3, <3>1
  <2>2. b = [i \in 1..(n - k) |-> stream[i + k]]
    BY <1>1, <1>2
  <2>3. PICK z \in Nat : z = n - k
    <3>1. n - k \in Nat
      BY <1>1
    <3> QED
      BY <3>1
  <2> HIDE DEF b
  <2>4. b \in [1..z -> AllUnits]
    BY <2>1, <2>2, <2>3
  <2>5. b \in Seq(AllUnits) /\ Len(b) = z
    BY <2>4, SeqDef, LenProperties
  <2> QED
    BY <2>2, <2>3, <2>5
<1> QED
  BY <1>1, <1>4, <1>5

\* What recv() returns leaves everything in its type.
LEMMA RecvTyped ==
  ASSUME TypeOK, RoomInv, UnitsTyped, NEW k \in Nat, k <= Len(stream), Recv(k),
         UNCHANGED peer, signalled' \in BOOLEAN
  PROVE  TypeOK' /\ RoomInv' /\ UnitsTyped'
<1>1. /\ stream' = SubSeq(stream, k + 1, Len(stream))
      /\ misread' = (~IsPart(SubSeq(stream, 1, k)) \/ (misread /\ step # FirstStep))
  BY DEF Recv
<1>2. UnitsTyped'
  BY <1>1, Cut DEF UnitsTyped, peer
<1>3. misread' \in BOOLEAN
  BY <1>1
<1>5. ASSUME Nothing(k)
      PROVE  Handled
  BY <1>5 DEF Recv, Fail, TypeOK, RoomInv, Handled
<1>6. ASSUME k > 0, IsPart(SubSeq(stream, 1, k)), ~Nothing(k)
      PROVE  Handled
  <2> DEFINE units == SubSeq(stream, 1, k)
  <2>1. units \in Seq(AllUnits) /\ Len(units) = k
    BY Cut
  <2>2. Handle(Last(units).of.kind, Last(units).of.number)
    BY <1>6 DEF Recv
  <2>3. units[k].of.part = step
    <3>1. k \in DOMAIN units
      BY <1>6, <2>1, LenProperties
    <3> QED
      BY <1>6, <3>1 DEF IsPart
  <2> HIDE DEF units
  <2>4. Last(units) = units[k]
    BY <2>1 DEF Last
  <2>5. units[k] \in AllUnits
    <3>1. k \in 1..Len(units)
      BY <1>6, <2>1
    <3> QED
      BY <2>1, <3>1, ElementOfSeq
  <2> DEFINE p == units[k].of
  <2>6. p \in Parts
    BY <2>5 DEF AllUnits
  <2>7. p.number \in Nat
    BY <2>6 DEF Parts
  <2>8. Handle(p.kind, p.number)
    BY <2>2, <2>4
  <2> HIDE DEF p
  <2> QED
    BY <2>7, <2>8, HandleTyped
<1>7. ASSUME NEW kind \in AnyKind, NEW number \in AnyNumber, Handle(kind, number)
      PROVE  Handled
  <2>1. number \in Nat
    BY BoundsAssumption, RoomsAssumption DEF AnyNumber
  <2> QED
    BY <1>7, <2>1, HandleTyped
<1>8. Handled
  BY <1>5, <1>6, <1>7 DEF Recv
<1> QED
  BY <1>2, <1>3, <1>8 DEF TypeOK, RoomInv, Handled, peer

\* After a part one thing is read.
LEMMA LeadsOnce ==
  ASSUME NEW p, NEW k, NEW s, NEW w, NEW j, NEW t, NEW v, NEW h,
         Leads(p, k, s, w, j), Leads(p, k, t, v, h)
  PROVE  s = t /\ w = v /\ j = h
  BY DEF Leads, Begins

\* What the handlers read after a part that was what they took it for, if they go on.
LEMMA HandleLeads ==
  ASSUME TypeOK, NEW p \in Parts, p.part = step, Handle(p.kind, p.number), ~misread'
  PROVE  acted' = acted /\ (pc' = "reading" => Leads(p, rects, step', want', rects'))
<1> DEFINE G == acted' = acted /\ (pc' = "reading" => Leads(p, rects, step', want', rects'))
<1>1. WellFormed(p) /\ p.number \in Nat
  BY DEF Parts
<1>2. ASSUME Done
      PROVE  acted' = acted /\ Begins(step', want', rects')
  BY <1>2 DEF Done, Begins
<1>3. ASSUME NEW s, s \in {"length", "first", "nrects", "rect", "source"}, NEW k, ReadFixed(s, k)
      PROVE  acted' = acted /\ step' = s /\ want' = 2 /\ rects' = k
  <2>1. FixedSize[s] = 2
    BY <1>3, FixedSizes
  <2> QED
    BY <1>3, <2>1 DEF ReadFixed, Read, Goto
<1>4. ASSUME NEW s, NEW n, NEW k, Goto(s, n, k)
      PROVE  acted' = acted /\ step' = s /\ want' = n /\ rects' = k
  BY <1>4 DEF Goto
<1>11. ASSUME Fail \/ Beyond
       PROVE  G
  BY <1>11 DEF Fail, Beyond
<1>5. ASSUME step \in {"pixels", "source"}, NextRect
      PROVE  G
  BY <1>2, <1>3, <1>5 DEF NextRect, LastRect, Leads
<1>6. ASSUME step = "type", v2r_vnc_process(p.kind)
      PROVE  G
  <2>1. p.kind \in Kinds
    BY <1>1, <1>6 DEF WellFormed
  <2> QED
    BY <1>2, <1>3, <1>6, <2>1 DEF v2r_vnc_process, Leads
<1>7. ASSUME v2r_vnc_process_framebuffer_update(p.kind, p.number)
      PROVE  G
  <2>1. CASE step = "nrects" /\ IF p.number = 0 THEN Done ELSE ReadFixed("rect", p.number)
    BY <1>2, <1>3, <2>1 DEF Leads
  <2>2. CASE step = "rect" /\ p.kind = "raw" /\ Goto("pixels", p.number, rects)
    BY <1>4, <2>2 DEF Leads
  <2>3. CASE step = "rect" /\ p.kind = "copy" /\ ReadFixed("source", rects)
    BY <1>3, <2>3 DEF Leads
  <2>4. CASE step = "rect" /\ p.kind \notin Encodings
    BY <1>1, <2>4 DEF WellFormed
  <2>5. CASE step \in {"pixels", "source"} /\ NextRect
    BY <1>5, <2>5
  <2>6. CASE Fail
    BY <1>11, <2>6
  <2> QED
    BY <1>7, <2>1, <2>2, <2>3, <2>4, <2>5, <2>6 DEF v2r_vnc_process_framebuffer_update
<1>8. ASSUME v2r_vnc_process_server_cut_text(p.number)
      PROVE  G
  BY <1>2, <1>4, <1>8 DEF v2r_vnc_process_server_cut_text, Read, Leads
<1>9. ASSUME v2r_vnc_process_set_colour_map_entries(p.kind, p.number)
      PROVE  G
  <2>1. CASE step = "first" /\ Read("entries", p.number, 0)
    BY <1>4, <2>1 DEF Read, Leads
  <2>2. CASE step = "entries" /\ Done
    BY <1>2, <2>2 DEF Leads
  <2>3. CASE Beyond
    BY <1>11, <2>3
  <2> QED
    BY <1>9, <2>1, <2>2, <2>3 DEF v2r_vnc_process_set_colour_map_entries
<1>10. ASSUME v2r_tpkt_recv(p.number)
       PROVE  G
  BY <1>2, <1>4, <1>10 DEF v2r_tpkt_recv, Read, Leads
<1> QED
  BY <1>6, <1>7, <1>8, <1>9, <1>10 DEF Handle

(***************************************************************************)
(* A read for which everything has come.                                   *)
(***************************************************************************)
\* What is to come is what has come and what is under way.
LEMMA ToCome ==
  ASSUME UnitsTyped
  PROVE  /\ stream \o coming \in Seq(AllUnits)
         /\ Len(stream) \in Nat /\ Len(coming) \in Nat
         /\ Len(stream \o coming) = Len(stream) + Len(coming)
         /\ \A i \in 1..Len(stream) : (stream \o coming)[i] = stream[i]
         /\ \A i \in 1..Len(coming) : (stream \o coming)[i + Len(stream)] = coming[i]
<1>1. stream \in Seq(AllUnits) /\ coming \in Seq(AllUnits)
  BY DEF UnitsTyped
<1>2. PICK n \in Nat, c \in Nat : n = Len(stream) /\ c = Len(coming)
  BY <1>1, LenProperties
<1> DEFINE U == stream \o coming
<1>3. U \in Seq(AllUnits) /\ Len(U) = n + c
  BY <1>1, <1>2, ConcatProperties
<1>4. \A i \in 1..(n + c) : U[i] = IF i <= n THEN stream[i] ELSE coming[i - n]
  BY <1>1, <1>2, ConcatProperties
<1> HIDE DEF U
<1>5. ASSUME NEW i \in 1..n
      PROVE  U[i] = stream[i]
  <2>1. i \in 1..(n + c) /\ i <= n
    BY <1>2
  <2> QED
    BY <1>4, <2>1
<1>6. ASSUME NEW i \in 1..c
      PROVE  U[i + n] = coming[i]
  <2>1. i + n \in 1..(n + c) /\ ~(i + n <= n) /\ (i + n) - n = i
    BY <1>2
  <2> QED
    BY <1>4, <2>1
<1> QED
  BY <1>2, <1>3, <1>5, <1>6 DEF U

\* A part is in the stream from its beginning to its end.
LEMMA WholePart ==
  ASSUME NEW s \in Seq(AllUnits), NEW l, Chained(UnitLinks, s, l), NEW n \in Nat \ {0},
         n <= Len(s), s[1].at = 1, s[1].of.size = n
  PROVE  \A i \in 1..n : s[i].at = i /\ s[i].of = s[1].of /\ l[i] = l[1]
<1>1. PICK z \in Nat : z = Len(s)
  BY LenProperties
<1> DEFINE Good(i) == s[i].at = i /\ s[i].of = s[1].of /\ l[i] = l[1]
<1> DEFINE T == {k \in Nat : k + 1 <= n => Good(k + 1)}
<1>2. 0 \in T
  BY 0 + 1 = 1
<1>3. ASSUME NEW k \in Nat, k \in T
      PROVE  k + 1 \in T
  <2> SUFFICES ASSUME k + 2 <= n
               PROVE  Good(k + 2)
    <3>1. (k + 1) + 1 = k + 2
      OBVIOUS
    <3> HIDE DEF Good
    <3> QED
      BY <3>1
  <2>1. PICK i \in 1..z : i = k + 1
    <3>1. k + 1 \in 1..z
      BY <1>1
    <3> QED
      BY <3>1
  <2>2. PICK j \in 1..z : j = k + 2
    <3>1. k + 2 \in 1..z
      BY <1>1
    <3> QED
      BY <3>1
  <2>3. j = i + 1 /\ i < n
    BY <2>1, <2>2
  <2>4. Good(i)
    <3>1. k + 1 <= n
      OBVIOUS
    <3> HIDE DEF Good
    <3> QED
      BY <1>3, <2>1, <3>1
  <2>5. <<s[i], l[i], s[j], l[j]>> \in UnitLinks
    BY <1>1, <2>3 DEF Chained
  <2>6. NextUnit(s[i], l[i], s[j], l[j])
    BY <2>5, UnitLinked
  <2>7. s[i].at < s[i].of.size
    BY <2>3, <2>4
  <2>8. s[j].of = s[i].of /\ s[j].at = s[i].at + 1 /\ l[j] = l[i]
    <3>1. s[i].at # s[i].of.size
      BY <2>3, <2>4
    <3> QED
      BY <2>6, <3>1 DEF NextUnit
  <2>9. Good(j)
    BY <2>3, <2>4, <2>8
  <2> QED
    BY <2>2, <2>9
<1>4. Nat \subseteq T
  <2> HIDE DEF T
  <2> QED
    BY <1>2, <1>3, NatInduct
<1>5. ASSUME NEW i \in 1..n
      PROVE  Good(i)
  <2>1. PICK k \in Nat : i = k + 1
    <3>1. i - 1 \in Nat /\ i = (i - 1) + 1
      OBVIOUS
    <3> QED
      BY <3>1
  <2>2. k \in T /\ k + 1 <= n
    BY <1>4, <2>1
  <2> HIDE DEF Good
  <2> QED
    BY <2>1, <2>2
<1> QED
  BY <1>5

\* It is read as it was sent.
LEMMA ReadWhole ==
  ASSUME TypeOK, UnitsTyped, want > 0, want <= Len(stream), NEW l,
         InPlace(stream \o coming, l)
  PROVE  LET units == SubSeq(stream, 1, want)
             U == stream \o coming
         IN /\ IsPart(units) /\ Last(units).of = U[1].of
            /\ U[want].at = want /\ U[want].of = U[1].of /\ l[want] = rects
            /\ U[1].of \in Parts /\ U[1].of.part = step /\ U[1].of.size = want
<1> DEFINE units == SubSeq(stream, 1, want)
<1> DEFINE U == stream \o coming
<1>1. PICK n \in Nat : n = want /\ n # 0 /\ n \in Nat \ {0}
  <2>1. want \in Nat
    BY BoundsAssumption DEF TypeOK
  <2> QED
    BY <2>1
<1>2. units \in Seq(AllUnits) /\ Len(units) = n /\ \A i \in 1..n : units[i] = stream[i]
  BY <1>1, Cut
<1>3. PICK z \in Nat : z = Len(stream) /\ n <= z
  <2>1. Len(stream) \in Nat
    BY ToCome
  <2> QED
    BY <1>1, <2>1
<1>4. U \in Seq(AllUnits) /\ n <= Len(U) /\ \A i \in 1..z : U[i] = stream[i]
  <2>1. Len(U) = z + Len(coming) /\ Len(coming) \in Nat
    BY <1>3, ToCome
  <2>2. n <= Len(U)
    BY <1>3, <2>1
  <2>3. \A i \in 1..z : U[i] = stream[i]
    BY <1>3, ToCome
  <2> QED
    BY <2>2, <2>3, ToCome
<1> HIDE DEF units
<1>5. U # <<>>
  <2> HIDE DEF U
  <2>1. Len(U) # 0
    BY <1>1, <1>4, LenProperties
  <2>2. Len(<<>>) = 0
    OBVIOUS
  <2> QED
    BY <2>1, <2>2
<1>6. /\ Chained(UnitLinks, U, l) /\ U[1].at = 1 /\ U[1].of.part = step
      /\ U[1].of.size = n /\ l[1] = rects
  BY <1>1, <1>5 DEF InPlace
<1> HIDE DEF U
<1>7. \A i \in 1..n : U[i].at = i /\ U[i].of = U[1].of /\ l[i] = l[1]
  BY <1>1, <1>4, <1>6, WholePart
<1>8. \A i \in 1..n : units[i] = U[i]
  <2>1. \A i \in 1..n : i \in 1..z
    BY <1>3
  <2> QED
    BY <1>2, <1>4, <2>1
<1>9. DOMAIN units = 1..n
  BY <1>2, LenProperties
<1>10. \A i \in 1..n : units[i].of.part = step /\ units[i].at = i
  BY <1>6, <1>7, <1>8
<1>11. IsPart(units)
  BY <1>1, <1>2, <1>9, <1>10 DEF IsPart
<1>12. n \in 1..n /\ 1 \in 1..n
  BY <1>1
<1>13. Last(units) = U[n]
  BY <1>2, <1>8, <1>12 DEF Last
<1>14. U[n].at = n /\ U[n].of = U[1].of /\ l[n] = rects
  BY <1>6, <1>7, <1>12
<1>15. U[1].of \in Parts
  <2>1. 1 \in 1..Len(U)
    BY <1>4, <1>12, LenProperties
  <2>2. U[1] \in AllUnits
    BY <1>4, <2>1, ElementOfSeq
  <2> QED
    BY <2>2 DEF AllUnits
<1>16. Last(units).of = U[1].of
  BY <1>13, <1>14
<1> QED
  BY <1>1, <1>6, <1>11, <1>14, <1>15, <1>16 DEF U, units

\* What is to come is in its place after a step, from what it is and what is read next.
LEMMA InPlaceNext ==
  ASSUME side' = side, NEW s, s = stream' \o coming', NEW l, Chained(UnitLinks, s, l),
         s # <<>> => /\ s[1].at = 1 /\ s[1].of.part = step' /\ s[1].of.size = want'
                     /\ l[1] = rects',
         s # <<>> /\ ~closed' => Ends(s[Len(s)], l[Len(s)]),
         s = <<>> /\ ~closed' => Begins(step', want', rects')
  PROVE  Parsed'
<1>1. FirstStep' = FirstStep
  BY DEF FirstStep
<1>2. UnitLinks' = UnitLinks
  <2>1. ASSUME NEW o, NEW w, NEW k
        PROVE  Begins(o, w, k)' <=> Begins(o, w, k)
    BY <1>1 DEF Begins
  <2>2. ASSUME NEW p, NEW j, NEW o, NEW w, NEW k
        PROVE  Leads(p, j, o, w, k)' <=> Leads(p, j, o, w, k)
    BY <2>1 DEF Leads
  <2>3. ASSUME NEW u, NEW j, NEW v, NEW k
        PROVE  NextUnit(u, j, v, k)' <=> NextUnit(u, j, v, k)
    BY <2>1, <2>2 DEF NextUnit
  <2> QED
    BY <2>3 DEF UnitLinks
<1>3. ASSUME NEW u, NEW k
      PROVE  Ends(u, k)' = Ends(u, k)
  BY <1>1 DEF Ends, LeadsToBegin, Leads, Begins
<1>4. InPlace(s, l)'
  <2>1. Chained(UnitLinks', s, l)
    BY <1>2
  <2>2. s # <<>> /\ ~closed' => Ends(s[Len(s)], l[Len(s)])'
    BY <1>3
  <2>3. s = <<>> /\ ~closed' => Begins(step, want, rects)'
    BY <1>1 DEF Begins
  <2> QED
    BY <2>1, <2>2, <2>3 DEF InPlace
<1>5. \E k : InPlace(stream \o coming, k)'
  BY <1>4
<1> QED
  BY <1>5 DEF Parsed

\* Behind the part that was read, everything is in its place again.
LEMMA ReadAllKeeps ==
  ASSUME FramingInv, ~signalled, pc = "reading", want > 0, AllHasCome, Recv(Available),
         UNCHANGED <<peer, signalled>>
  PROVE  Parsed' /\ MisreadIsLast'
<1>1. want \in Nat \ {0} /\ want <= Len(stream) /\ Available = want
  <2>1. want \in Nat /\ Len(stream) \in Nat
    BY BoundsAssumption, ToCome DEF FramingInv, TypeOK
  <2>2. ~(Len(stream) < want)
    BY <2>1 DEF AllHasCome
  <2> QED
    BY <2>1, <2>2 DEF Available
<1>2. ~misread /\ acted = 0
  <2>1. Len(<<>>) = 0 /\ ~(want <= 0)
    BY <1>1
  <2>2. stream # <<>>
    BY <1>1, <2>1
  <2> QED
    BY <2>2 DEF FramingInv, MisreadIsLast, TypeOK
<1> DEFINE U == stream \o coming
<1> DEFINE p == U[1].of
<1> DEFINE units == SubSeq(stream, 1, want)
<1>3. PICK l : InPlace(U, l)
  BY DEF FramingInv, Parsed
<1>4. /\ IsPart(units) /\ Last(units).of = p
      /\ U[want].at = want /\ U[want].of = p /\ l[want] = rects
      /\ p \in Parts /\ p.part = step /\ p.size = want
  BY <1>1, <1>3, ReadWhole DEF FramingInv
<1>5. stream' = SubSeq(stream, want + 1, Len(stream)) /\ ~misread'
  BY <1>1, <1>2, <1>4 DEF Recv
<1>6. Handle(p.kind, p.number)
  <2>1. Handle(Last(units).of.kind, Last(units).of.number)
    BY <1>1, <1>4 DEF Recv, Nothing
  <2> QED
    BY <1>4, <2>1
<1>7. acted' = acted /\ (pc' = "reading" => Leads(p, rects, step', want', rects'))
  <2> HIDE DEF p
  <2> QED
    BY <1>4, <1>5, <1>6, HandleLeads DEF FramingInv
<1>8. MisreadIsLast'
  BY <1>2, <1>5, <1>7 DEF MisreadIsLast
<1>9. side' = side /\ closed' = closed /\ coming' = coming
  BY DEF peer
<1>10. CASE pc' # "reading" \/ want' = 0
  BY <1>8, <1>10 DEF Parsed
<1>11. CASE pc' = "reading" /\ want' # 0
  <2>24. Leads(p, rects, step', want', rects')
    <3> HIDE DEF p
    <3> QED
      BY <1>7, <1>11
  <2>1. PICK n \in Nat \ {0} : n = want
    BY <1>1
  <2>2. PICK z \in Nat : z = Len(stream) /\ n <= z
    <3>1. Len(stream) \in Nat
      BY ToCome DEF FramingInv
    <3> QED
      BY <1>1, <2>1, <3>1
  <2>3. PICK c \in Nat : c = Len(coming)
    BY ToCome DEF FramingInv
  <2>4. U \in Seq(AllUnits) /\ Len(U) = z + c
    BY <2>2, <2>3, ToCome DEF FramingInv
  <2>5. /\ \A i \in 1..z : U[i] = stream[i]
        /\ \A i \in 1..c : U[i + z] = coming[i]
    BY <2>2, <2>3, ToCome DEF FramingInv
  <2> DEFINE b == SubSeq(stream, n + 1, Len(stream))
  <2>6. b \in Seq(AllUnits) /\ Len(b) = z - n /\ \A i \in 1..(z - n) : b[i] = stream[i + n]
    BY <2>1, <2>2, Cut DEF FramingInv
  <2>7. coming \in Seq(AllUnits)
    BY DEF FramingInv, UnitsTyped
  <2> DEFINE s == b \o coming
  <2>8. s = stream' \o coming'
    BY <1>5, <1>9, <2>1
  <2>9. PICK y \in Nat : y = z - n
    <3>1. z - n \in Nat
      BY <2>1, <2>2
    <3> QED
      BY <3>1
  <2> HIDE DEF b
  <2>23. b \in Seq(AllUnits) /\ Len(b) = y
    BY <2>6, <2>9
  <2>10. s \in Seq(AllUnits) /\ Len(s) = y + c
    BY <2>3, <2>7, <2>23, ConcatProperties
  <2>11. \A i \in 1..(y + c) : s[i] = IF i <= y THEN b[i] ELSE coming[i - y]
    BY <2>3, <2>7, <2>23, ConcatProperties
  <2> HIDE DEF U, s
  <2>12. ASSUME NEW i \in 1..(y + c)
         PROVE  s[i] = U[i + n]
    <3>1. CASE i <= y
      <4>1. i \in 1..(z - n) /\ i + n \in 1..z
        BY <2>1, <2>9, <3>1
      <4> QED
        BY <2>5, <2>6, <2>11, <3>1, <4>1
    <3>2. CASE ~(i <= y)
      <4>1. PICK x \in 1..c : x = i - y /\ x + z = i + n
        <5>1. i - y \in 1..c /\ (i - y) + z = i + n
          BY <2>1, <2>9, <3>2
        <5> QED
          BY <5>1
      <4>2. s[i] = coming[x]
        BY <2>11, <3>2, <4>1
      <4>3. U[x + z] = coming[x]
        BY <2>5, <4>1
      <4> QED
        BY <4>1, <4>2, <4>3
    <3> QED
      BY <3>1, <3>2
  <2> DEFINE r == [i \in 1..Len(s) |-> l[i + n]]
  <2>13. n + (y + c) = z + c /\ y + c \in Nat /\ z + c \in Nat
    BY <2>9
  <2>14. Chained(UnitLinks, U, l)
    BY <1>3 DEF InPlace
  <2>15. Chained(UnitLinks, s, r)
    <3>1. n \in Nat /\ Len(U) \in Nat /\ Len(s) \in Nat /\ n + Len(s) <= Len(U)
      BY <2>1, <2>4, <2>10, <2>13
    <3>2. \A i \in 1..Len(s) : s[i] = U[i + n]
      BY <2>10, <2>12
    <3> QED
      BY <2>14, <3>1, <3>2, RestOfChain
  <2>16. \A i \in 1..(y + c) : r[i] = l[i + n]
    BY <2>10
  <2> HIDE DEF r
  <2>17. U # <<>>
    <3>1. Len(<<>>) = 0 /\ z + c # 0
      BY <2>2
    <3> QED
      BY <2>4, <3>1
  <2>18. ~closed => Ends(U[z + c], l[z + c])
    BY <1>3, <2>4, <2>17 DEF InPlace, U
  <2>19. ~AnnouncesNothing(p)
    BY <1>11, <2>24 DEF AnnouncesNothing, Leads
  <2>20. s # <<>> => /\ s[1].at = 1 /\ s[1].of.part = step' /\ s[1].of.size = want'
                     /\ r[1] = rects'
    <3> SUFFICES ASSUME s # <<>>
                 PROVE  /\ s[1].at = 1 /\ s[1].of.part = step' /\ s[1].of.size = want'
                        /\ r[1] = rects'
      OBVIOUS
    <3>1. y + c # 0
      BY <2>10, EmptySeq
    <3>2. 1 \in 1..(y + c) /\ 1 + n = n + 1 /\ n \in 1..(z + c) /\ n + 1 \in 1..(z + c)
      BY <2>1, <2>2, <2>13, <3>1
    <3>3. s[1] = U[n + 1] /\ r[1] = l[n + 1]
      BY <2>12, <2>16, <3>2
    <3>4. <<U[n], l[n], U[n + 1], l[n + 1]>> \in UnitLinks
      BY <2>4, <2>14, <3>2 DEF Chained
    <3>5. NextUnit(U[n], l[n], U[n + 1], l[n + 1])
      BY <3>4, UnitLinked
    <3>6. U[n].at = n /\ U[n].of = p /\ l[n] = rects /\ p.size = n
      BY <1>4, <2>1 DEF U
    <3>7. ~(U[n].at < U[n].of.size)
      BY <2>1, <3>6
    <3>8. /\ U[n + 1].at = 1
          /\ Leads(p, rects, U[n + 1].of.part, U[n + 1].of.size, l[n + 1])
      <4> HIDE DEF p
      <4> QED
        BY <2>19, <3>5, <3>6, <3>7 DEF NextUnit
    <3> QED
      BY <2>24, <3>3, <3>8, LeadsOnce
  <2>21. s # <<>> /\ ~closed' => Ends(s[Len(s)], r[Len(s)])
    <3> SUFFICES ASSUME s # <<>>, ~closed
                 PROVE  Ends(s[Len(s)], r[Len(s)])
      BY <1>9
    <3>1. y + c # 0
      BY <2>10, EmptySeq
    <3>2. y + c \in 1..(y + c) /\ (y + c) + n = z + c
      BY <2>13, <3>1
    <3>3. s[y + c] = U[z + c] /\ r[y + c] = l[z + c]
      BY <2>12, <2>16, <3>2
    <3> QED
      BY <2>10, <2>18, <3>3
  <2>22. s = <<>> /\ ~closed' => Begins(step', want', rects')
    <3> SUFFICES ASSUME s = <<>>, ~closed
                 PROVE  Begins(step', want', rects')
      BY <1>9
    <3>1. y + c = 0
      BY <2>10
    <3>2. z + c = n
      BY <2>13, <3>1
    <3>3. Ends(U[n], l[n])
      BY <2>18, <3>2
    <3>4. U[n].of = p /\ l[n] = rects
      BY <1>4, <2>1 DEF U
    <3>5. LeadsToBegin(p, rects)
      <4> HIDE DEF p
      <4> QED
        BY <2>19, <3>3, <3>4 DEF Ends
    <3> QED
      BY <2>24, <3>5, LeadsOnce DEF LeadsToBegin, Begins
  <2> QED
    BY <1>8, <1>9, <2>8, <2>15, <2>20, <2>21, <2>22, InPlaceNext
<1> QED
  BY <1>8, <1>10, <1>11

\* A message is misread to its end only once.
LEMMA ActsOnce ==
  ASSUME acted = 0, NEW kind, NEW number, Handle(kind, number)
  PROVE  acted' \in 0..1
<1>1. Done => acted' \in 0..1
  BY DEF Done
<1>2. Fail \/ Beyond => acted' \in 0..1
  BY DEF Fail, Beyond
<1>3. ASSUME NEW s, NEW z, NEW k, Goto(s, z, k)
      PROVE  acted' \in 0..1
  BY <1>3 DEF Goto
<1>4. ASSUME NEW s, NEW k, ReadFixed(s, k)
      PROVE  acted' \in 0..1
  BY <1>3, <1>4 DEF ReadFixed, Read
<1>5. NextRect => acted' \in 0..1
  BY <1>1, <1>4 DEF NextRect
<1> QED
  BY <1>1, <1>2, <1>3, <1>4, <1>5
  DEF Handle, v2r_vnc_process, v2r_vnc_process_framebuffer_update,
      v2r_vnc_process_server_cut_text, v2r_vnc_process_set_colour_map_entries, v2r_tpkt_recv,
      Read

\* The short read at the end of a stream, and the read of nothing.
LEMMA ShortKeeps ==
  ASSUME FramingInv, pc = "reading", Recv(Available), UNCHANGED <<peer, signalled>>,
         want = 0 \/ (closed /\ Len(stream) < want)
  PROVE  Parsed' /\ MisreadIsLast'
<1>1. want \in Nat /\ Len(stream) \in Nat /\ stream \in Seq(AllUnits)
  BY BoundsAssumption, ToCome DEF FramingInv, TypeOK, UnitsTyped
<1>2. closed' = closed /\ coming' = coming /\ side' = side
  BY DEF peer
<1>3. CASE want = 0
  <2>1. Available = 0
    BY <1>1, <1>3 DEF Available
  <2>2. Fail /\ misread' = (~IsPart(SubSeq(stream, 1, 0)) \/ (misread /\ step # FirstStep))
    BY <2>1 DEF Recv, Nothing
  <2>3. SubSeq(stream, 1, 0) \in Seq(AllUnits) /\ Len(SubSeq(stream, 1, 0)) = 0
    BY <1>1, Cut DEF FramingInv
  <2>4. IsPart(SubSeq(stream, 1, 0))
    <3> DEFINE e == SubSeq(stream, 1, 0)
    <3>1. DOMAIN e = {}
      <4>1. DOMAIN e = 1..0
        BY <2>3, LenProperties
      <4> QED
        BY <4>1
    <3> HIDE DEF e
    <3> QED
      BY <1>3, <2>3, <3>1 DEF IsPart, e
  <2>5. misread' => misread
    BY <2>2, <2>4 DEF FramingInv, TypeOK
  <2>6. stream' = stream
    <3>1. stream' = SubSeq(stream, 1, Len(stream))
      <4>1. stream' = SubSeq(stream, 0 + 1, Len(stream))
        BY <2>1 DEF Recv
      <4> QED
        BY <4>1
    <3> QED
      BY <1>1, <3>1
  <2> QED
    BY <1>2, <2>2, <2>5, <2>6 DEF FramingInv, MisreadIsLast, Parsed, Fail
<1>4. CASE want # 0
  <2>1. closed /\ Len(stream) < want /\ Available = Len(stream)
    BY <1>4 DEF Available
  <2>2. stream' = <<>>
    <3>1. stream' = SubSeq(stream, Len(stream) + 1, Len(stream))
      BY <2>1 DEF Recv
    <3>2. /\ SubSeq(stream, Len(stream) + 1, Len(stream)) \in Seq(AllUnits)
          /\ Len(SubSeq(stream, Len(stream) + 1, Len(stream))) = Len(stream) - Len(stream)
      BY <1>1, Cut DEF FramingInv
    <3>3. stream' \in Seq(AllUnits) /\ Len(stream') = 0
      BY <1>1, <3>1, <3>2
    <3> QED
      BY <3>3, EmptySeq
  <2>3. closed' /\ coming' = <<>>
    BY <1>2, <2>1 DEF FramingInv, NothingComes
  <2>4. stream' \o coming' = <<>>
    BY <2>2, <2>3
  <2>5. Parsed'
    <3>1. PICK l : Chained(UnitLinks, <<>>, l)
      BY EmptyChain
    <3> QED
      BY <1>2, <2>3, <2>4, <3>1, InPlaceNext
  <2>6. ~signalled => acted' <= 1
    <3> SUFFICES ASSUME ~signalled
                 PROVE  acted' <= 1
      OBVIOUS
    <3>1. acted \in 0..1
      BY DEF FramingInv, TypeOK, MisreadIsLast
    <3>2. CASE stream = <<>>
      <4>1. Len(stream) = 0
        BY <3>2
      <4>2. Fail
        BY <2>1, <4>1 DEF Recv, Nothing
      <4> QED
        BY <3>1, <4>2 DEF Fail
    <3>3. CASE stream # <<>>
      <4>1. acted = 0
        BY <3>1, <3>3 DEF FramingInv, MisreadIsLast
      <4>2. ASSUME NEW kind, NEW number, Handle(kind, number)
            PROVE  acted' \in 0..1
        BY <4>1, <4>2, ActsOnce
      <4>3. Fail => acted' \in 0..1
        BY <4>1 DEF Fail
      <4>4. acted' \in 0..1
        BY <4>2, <4>3 DEF Recv
      <4> QED
        BY <4>4
    <3> QED
      BY <3>2, <3>3
  <2>7. MisreadIsLast'
    BY <2>2, <2>3, <2>6 DEF MisreadIsLast
  <2> QED
    BY <2>5, <2>7
<1> QED
  BY <1>3, <1>4

\* A message that the peer begins to send goes on where the stream ends.
LEMMA SendKeeps ==
  ASSUME FramingInv, PeerSends
  PROVE  FramingInv'
<1>1. PICK m \in Messages : coming' = Units(m)
  BY DEF PeerSends
<1>2. PICK k : WholeUnits(Units(m), k)
  BY MessagesWhole, MessageTravels
<1> DEFINE b == Units(m)
<1>3. /\ b \in Seq(AllUnits) /\ b # <<>> /\ Chained(UnitLinks, b, k)
      /\ b[1].at = 1 /\ Begins(b[1].of.part, b[1].of.size, k[1])
      /\ Ends(b[Len(b)], k[Len(b)])
  BY <1>2 DEF WholeUnits
<1> HIDE DEF b
<1>4. coming' = b
  BY <1>1 DEF b
<1>5. /\ coming = <<>> /\ ~closed /\ sent < MaxMessages /\ sent' = sent + 1
      /\ side' = side /\ closed' = closed /\ stream' = stream /\ pc' = pc /\ step' = step
      /\ want' = want /\ rects' = rects /\ signalled' = signalled /\ misread' = misread
      /\ acted' = acted /\ room' = room
  BY DEF PeerSends, proxy
<1>6. TypeOK' /\ RoomInv'
  <2>1. sent' \in 0..MaxMessages
    BY <1>5, BoundsAssumption DEF FramingInv, TypeOK
  <2> QED
    BY <1>5, <2>1 DEF FramingInv, TypeOK, RoomInv
<1>7. UnitsTyped' /\ stream \in Seq(AllUnits)
  BY <1>3, <1>4, <1>5 DEF FramingInv, UnitsTyped
<1>8. NothingComes' /\ MisreadIsLast'
  BY <1>5 DEF FramingInv, NothingComes, MisreadIsLast
<1>9. Parsed'
  <2> SUFFICES ASSUME pc = "reading", want > 0, ~signalled
               PROVE  Parsed'
    BY <1>5 DEF Parsed
  <2>1. stream \o coming = stream
    BY <1>5, <1>7, ConcatEmptySeq
  <2>2. PICK l : InPlace(stream, l)
    BY <2>1 DEF FramingInv, Parsed
  <2> DEFINE s == stream \o b
  <2>3. /\ stream # <<>> => s[1] = stream[1]
        /\ stream = <<>> => s = b
        /\ s[Len(s)] = b[Len(b)] /\ s # <<>>
    <3>1. stream = <<>> => s = b
      BY <1>3, ConcatEmptySeq
    <3> QED
      BY <1>3, <1>7, <3>1, ConcatEnds
  <2>4. CASE stream = <<>>
    <3>1. Begins(step, want, rects)
      BY <1>5, <2>2, <2>4 DEF InPlace
    <3>2. b[1].of.part = step /\ b[1].of.size = want /\ k[1] = rects
      BY <1>3, <3>1 DEF Begins
    <3>3. b = stream' \o coming'
      BY <1>4, <1>5, <2>3, <2>4
    <3> QED
      BY <1>3, <1>5, <3>2, <3>3, InPlaceNext
  <2>5. CASE stream # <<>>
    <3>1. /\ Chained(UnitLinks, stream, l) /\ Ends(stream[Len(stream)], l[Len(stream)])
          /\ stream[1].at = 1 /\ stream[1].of.part = step /\ stream[1].of.size = want
          /\ l[1] = rects
      BY <1>5, <2>2, <2>5 DEF InPlace
    <3>2. /\ stream[Len(stream)] \in AllUnits /\ b[1] \in AllUnits
          /\ l[Len(stream)] \in Nat /\ k[1] \in Nat
      <4>1. Len(stream) \in 1..Len(stream) /\ 1 \in 1..Len(b)
        BY <1>3, <1>7, <2>5, LenProperties, EmptySeq
      <4>2. l[Len(stream)] \in Nat /\ k[1] \in Nat
        BY <1>3, <3>1, <4>1 DEF Chained
      <4> QED
        BY <1>3, <1>7, <4>1, <4>2, ElementOfSeq
    <3>3. NextUnit(stream[Len(stream)], l[Len(stream)], b[1], k[1])
      BY <1>3, <3>1 DEF NextUnit, Ends, LeadsToBegin, Leads, Begins
    <3>4. <<stream[Len(stream)], l[Len(stream)], b[1], k[1]>> \in UnitLinks
      BY <3>2, <3>3, UnitLinked
    <3>5. stream \in Seq(AllUnits) /\ b \in Seq(AllUnits) /\ b # <<>>
      BY <1>3, <1>7
    <3>6. Chained(UnitLinks, stream, l) /\ Chained(UnitLinks, b, k)
      BY <1>3, <3>1
    <3>7. PICK g : /\ Chained(UnitLinks, stream \o b, g) /\ g[1] = l[1]
                   /\ g[Len(stream \o b)] = k[Len(b)]
      BY <2>5, <3>4, <3>5, <3>6, JoinChains
    <3>8. Ends(s[Len(s)], g[Len(s)])
      BY <1>3, <2>3, <3>7
    <3>9. s = stream' \o coming'
      BY <1>4, <1>5
    <3> HIDE DEF s
    <3>10. Chained(UnitLinks, s, g) /\ g[1] = l[1]
      BY <3>7 DEF s
    <3>11. /\ s[1].at = 1 /\ s[1].of.part = step' /\ s[1].of.size = want'
           /\ g[1] = rects'
      BY <1>5, <2>3, <2>5, <3>1, <3>10
    <3> QED
      BY <1>5, <2>3, <3>8, <3>9, <3>10, <3>11, InPlaceNext
  <2> QED
    BY <2>4, <2>5
<1> QED
  BY <1>6, <1>7, <1>8, <1>9 DEF FramingInv

\* A sequence is its head and its tail.
LEMMA HeadAndTail ==
  ASSUME NEW S, NEW s \in Seq(S), s # <<>>
  PROVE  s = <<Head(s)>> \o Tail(s)
<1>1. PICK n \in Nat : n = Len(s) /\ n # 0
  BY LenProperties, EmptySeq
<1> DEFINE h == <<Head(s)>>
<1> DEFINE t == Tail(s)
<1>2. /\ t \in Seq(S) /\ Len(t) = n - 1 /\ \A i \in 1..(n - 1) : t[i] = s[i + 1]
      /\ Head(s) \in S /\ Head(s) = s[1]
  <2>1. Head(s) \in S /\ t \in Seq(S) /\ Len(t) = n - 1
    BY <1>1, HeadTailProperties
  <2>2. \A i \in 1..Len(t) : t[i] = s[i + 1]
    BY HeadTailProperties
  <2>3. Head(s) = s[1]
    OBVIOUS
  <2> HIDE DEF t
  <2> QED
    BY <2>1, <2>2, <2>3
<1>3. h \in Seq(S) /\ Len(h) = 1 /\ h[1] = s[1]
  BY <1>2
<1> HIDE DEF h, t
<1> DEFINE c == h \o t
<1>4. PICK m \in Nat : m = n - 1 /\ 1 + m = n
  <2>1. n - 1 \in Nat /\ 1 + (n - 1) = n
    BY <1>1
  <2> QED
    BY <2>1
<1>9. t \in Seq(S) /\ Len(t) = m /\ h \in Seq(S) /\ Len(h) = 1
  BY <1>2, <1>3, <1>4
<1>10. c \in Seq(S) /\ Len(c) = 1 + m
  BY <1>9, ConcatProperties, ZenonT(30)
<1>12. PICK k \in Nat : k = 1
  OBVIOUS
<1>13. Len(h) = k
  BY <1>9, <1>12
<1>14. \A i \in 1..(k + m) : c[i] = IF i <= k THEN h[i] ELSE t[i - k]
  BY <1>9, <1>13, ConcatProperties
<1>11. \A i \in 1..(1 + m) : c[i] = IF i <= 1 THEN h[i] ELSE t[i - 1]
  BY <1>12, <1>14
<1>5. c \in Seq(S) /\ Len(c) = n
  BY <1>4, <1>10
<1>6. \A i \in 1..n : c[i] = IF i <= 1 THEN h[i] ELSE t[i - 1]
  BY <1>4, <1>11
<1> HIDE DEF c
<1>7. ASSUME NEW i \in 1..n
      PROVE  c[i] = s[i]
  <2>1. CASE i = 1
    BY <1>3, <1>6, <2>1
  <2>2. CASE i # 1
    <3>1. PICK j \in 1..(n - 1) : j = i - 1 /\ j + 1 = i
      <4>1. i - 1 \in 1..(n - 1) /\ (i - 1) + 1 = i
        BY <2>2
      <4> QED
        BY <4>1
    <3>2. ~(i <= 1)
      BY <2>2
    <3> QED
      BY <1>2, <1>6, <3>1, <3>2
  <2> QED
    BY <2>1, <2>2
<1>8. c = s
  BY <1>1, <1>5, <1>7, SeqEqual
<1> QED
  BY <1>8 DEF c, h, t

\* What arrives was to come.
LEMMA ArriveKeeps ==
  ASSUME FramingInv, Arrive
  PROVE  FramingInv'
<1>1. /\ coming # <<>> /\ coming' = Tail(coming) /\ stream' = Append(stream, Head(coming))
      /\ side' = side /\ closed' = closed /\ sent' = sent /\ pc' = pc /\ step' = step
      /\ want' = want /\ rects' = rects /\ signalled' = signalled /\ misread' = misread
      /\ acted' = acted /\ room' = room
  BY DEF Arrive, proxy
<1>2. stream \in Seq(AllUnits) /\ coming \in Seq(AllUnits)
  BY DEF FramingInv, UnitsTyped
<1>3. UnitsTyped'
  <2>1. Head(coming) \in AllUnits /\ Tail(coming) \in Seq(AllUnits)
    BY <1>1, <1>2, HeadTailProperties
  <2> QED
    BY <1>1, <1>2, <2>1, AppendProperties DEF UnitsTyped
<1>4. TypeOK' /\ RoomInv' /\ ~closed
  BY <1>1 DEF FramingInv, TypeOK, RoomInv, NothingComes
<1>5. NothingComes' /\ MisreadIsLast'
  BY <1>1, <1>4 DEF FramingInv, NothingComes, MisreadIsLast
<1>6. stream' \o coming' = stream \o coming
  <2>1. Head(coming) \in AllUnits /\ Tail(coming) \in Seq(AllUnits)
    BY <1>1, <1>2, HeadTailProperties
  <2>2. coming = <<Head(coming)>> \o Tail(coming)
    BY <1>1, <1>2, HeadAndTail
  <2> DEFINE h == Head(coming)
  <2> DEFINE t == Tail(coming)
  <2>3. h \in AllUnits /\ t \in Seq(AllUnits) /\ coming = <<h>> \o t
    BY <2>1, <2>2
  <2> HIDE DEF h, t
  <2>4. Append(stream, h) = stream \o <<h>>
    BY <1>2, <2>3, AppendIsConcat
  <2>5. (stream \o <<h>>) \o t = stream \o (<<h>> \o t)
    <3>1. <<h>> \in Seq(AllUnits)
      BY <2>3
    <3> QED
      BY <1>2, <2>3, <3>1, ConcatAssociative
  <2> QED
    BY <1>1, <2>3, <2>4, <2>5 DEF h, t
<1>7. Parsed'
  <2> SUFFICES ASSUME pc = "reading", want > 0, ~signalled
               PROVE  Parsed'
    BY <1>1 DEF Parsed
  <2> DEFINE s == stream \o coming
  <2>1. PICK l : InPlace(s, l)
    BY DEF FramingInv, Parsed
  <2>2. s = stream' \o coming'
    BY <1>6
  <2> HIDE DEF s
  <2>3. /\ Chained(UnitLinks, s, l)
        /\ s # <<>> => /\ s[1].at = 1 /\ s[1].of.part = step' /\ s[1].of.size = want'
                       /\ l[1] = rects'
        /\ s # <<>> /\ ~closed' => Ends(s[Len(s)], l[Len(s)])
        /\ s = <<>> /\ ~closed' => Begins(step', want', rects')
    BY <1>1, <2>1 DEF InPlace
  <2> QED
    BY <1>1, <2>2, <2>3, InPlaceNext
<1> QED
  BY <1>3, <1>4, <1>5, <1>7 DEF FramingInv

\* What has come is a beginning of what was to come.
LEMMA CloseKeeps ==
  ASSUME FramingInv, PeerCloses
  PROVE  FramingInv'
<1>1. /\ ~closed /\ closed' /\ coming' = <<>> /\ stream' = stream
      /\ side' = side /\ sent' = sent /\ pc' = pc /\ step' = step
      /\ want' = want /\ rects' = rects /\ signalled' = signalled /\ misread' = misread
      /\ acted' = acted /\ room' = room
  BY DEF PeerCloses, proxy
<1>2. closed' \in BOOLEAN
  BY DEF PeerCloses
<1>3. stream \in Seq(AllUnits) /\ coming \in Seq(AllUnits)
  BY DEF FramingInv, UnitsTyped
<1>4. TypeOK' /\ RoomInv'
  BY <1>1, <1>2 DEF FramingInv, TypeOK, RoomInv
<1>5. UnitsTyped'
  BY <1>1, <1>3, EmptySeq DEF UnitsTyped
<1>6. NothingComes' /\ MisreadIsLast'
  BY <1>1 DEF FramingInv, NothingComes, MisreadIsLast
<1>7. Parsed'
  <2> SUFFICES ASSUME pc = "reading", want > 0, ~signalled
               PROVE  Parsed'
    BY <1>1 DEF Parsed
  <2> DEFINE U == stream \o coming
  <2>1. PICK l : InPlace(U, l)
    BY DEF FramingInv, Parsed
  <2>2. PICK z \in Nat : z = Len(stream)
    BY ToCome DEF FramingInv
  <2>3. /\ U \in Seq(AllUnits) /\ Len(coming) \in Nat /\ Len(U) = z + Len(coming)
        /\ \A i \in 1..z : U[i] = stream[i]
    BY <2>2, ToCome DEF FramingInv
  <2>4. Len(U) \in Nat /\ z <= Len(U)
    BY <2>3
  <2>5. U # <<>> => /\ U[1].at = 1 /\ U[1].of.part = step /\ U[1].of.size = want
                    /\ l[1] = rects
    BY <2>1 DEF InPlace
  <2>6. Chained(UnitLinks, U, l)
    BY <2>1 DEF InPlace
  <2> HIDE DEF U
  <2>10. PICK o \in Nat : o = 0
    OBVIOUS
  <2> DEFINE r == [i \in 1..Len(stream) |-> l[i + o]]
  <2>7. Chained(UnitLinks, stream, r)
    <3>1. \A i \in 1..Len(stream) : stream[i] = U[i + o]
      BY <2>2, <2>3, <2>10
    <3>2. o \in Nat /\ Len(stream) \in Nat /\ o + Len(stream) <= Len(U)
      BY <2>2, <2>4, <2>10
    <3>3. Len(U) \in Nat
      BY <2>4
    <3> HIDE DEF r
    <3> QED
      BY <2>6, <3>1, <3>2, <3>3, RestOfChain DEF r
  <2>8. stream # <<>> => /\ stream[1].at = 1 /\ stream[1].of.part = step
                         /\ stream[1].of.size = want /\ r[1] = rects
    <3> SUFFICES ASSUME stream # <<>>
                 PROVE  /\ stream[1].at = 1 /\ stream[1].of.part = step
                        /\ stream[1].of.size = want /\ r[1] = rects
      OBVIOUS
    <3>1. z # 0
      BY <1>3, <2>2, EmptySeq
    <3>2. 1 \in 1..z /\ 1 + o = 1
      BY <2>10, <3>1
    <3>3. U[1] = stream[1] /\ r[1] = l[1]
      BY <2>2, <2>3, <3>2
    <3>4. U # <<>>
      <4>1. Len(<<>>) = 0 /\ Len(U) # 0
        BY <2>4, <3>1
      <4> QED
        BY <4>1
    <3> QED
      BY <2>5, <3>3, <3>4
  <2>9. stream' \o coming' = stream
    BY <1>1, <1>3, ConcatEmptySeq
  <2> HIDE DEF r
  <2> QED
    BY <1>1, <2>7, <2>8, <2>9, InPlaceNext
<1> QED
  BY <1>4, <1>5, <1>6, <1>7 DEF FramingInv

(***************************************************************************)
(* The theorems.                                                           *)
(***************************************************************************)
\* Nothing has come, and the proxy waits for the beginning of a message.
LEMMA InitGivesFraming == Init => FramingInv
<1> SUFFICES ASSUME Init
             PROVE  FramingInv
  OBVIOUS
<1>1. /\ side \in {"server", "client"} /\ sent = 0 /\ coming = <<>> /\ stream = <<>>
      /\ closed = FALSE /\ pc = "reading" /\ room \in Nat \ {0, 1} /\ step = FirstStep
      /\ want = FixedSize[FirstStep] /\ rects = 0
      /\ signalled = FALSE /\ misread = FALSE /\ acted = 0
  BY RoomsAssumption DEF Init
<1>2. FirstStep \in {"type", "tpkt"} /\ FirstStep \in DOMAIN FixedSize
  <2>1. FirstStep \in {"type", "tpkt"}
    BY DEF FirstStep
  <2> QED
    BY <2>1, FixedSizes
<1>3. TypeOK /\ RoomInv
  <2>1. want \in Nat /\ want <= room
    BY <1>1, <1>2, FixedWant
  <2>2. step \notin {"rect", "pixels", "source"}
    BY <1>1, <1>2
  <2>3. rects \in IF step \in {"rect", "pixels", "source"} THEN Nat \ {0} ELSE {0}
    BY <1>1, <2>2
  <2>4. sent \in 0..MaxMessages
    BY <1>1, BoundsAssumption
  <2> QED
    <3>1. step \in DOMAIN FixedSize \cup {"pixels", "text", "entries", "pdu"}
      BY <1>1, <1>2
    <3>2. closed \in BOOLEAN /\ signalled \in BOOLEAN /\ misread \in BOOLEAN
      BY <1>1, Zenon
    <3>3. /\ acted \in 0..2 /\ side \in {"server", "client"}
          /\ pc \in {"reading", "over", "overrun"} /\ room \in Nat \ {0, 1}
      BY <1>1
    <3> QED
      BY <2>1, <2>3, <2>4, <3>1, <3>2, <3>3 DEF TypeOK, RoomInv
<1>4. UnitsTyped
  BY <1>1, EmptySeq DEF UnitsTyped
<1>5. NothingComes /\ MisreadIsLast
  BY <1>1 DEF NothingComes, MisreadIsLast
<1>6. Parsed
  <2>1. PICK l : Chained(UnitLinks, <<>>, l)
    BY EmptyChain
  <2>2. stream \o coming = <<>>
    BY <1>1
  <2>3. Begins(step, want, rects)
    BY <1>1 DEF Begins
  <2>4. InPlace(<<>>, l)
    BY <2>1, <2>3 DEF InPlace
  <2> QED
    BY <2>2, <2>4 DEF Parsed
<1> QED
  BY <1>3, <1>4, <1>5, <1>6 DEF FramingInv

\* Each step keeps the invariant.
LEMMA FramingStep == FramingInv /\ [Next]_vars => FramingInv'
<1> SUFFICES ASSUME FramingInv, [Next]_vars
             PROVE  FramingInv'
  OBVIOUS
<1>1. CASE PeerSends
  BY <1>1, SendKeeps
<1>2. CASE Arrive
  BY <1>2, ArriveKeeps
<1>3. CASE PeerCloses
  BY <1>3, CloseKeeps
<1>4. ASSUME pc = "reading", NEW k \in Nat, k <= Len(stream), Recv(k),
             UNCHANGED <<peer, signalled>>
      PROVE  TypeOK' /\ RoomInv' /\ UnitsTyped' /\ NothingComes'
  <2>1. TypeOK' /\ RoomInv' /\ UnitsTyped'
    <3>1. UNCHANGED peer /\ signalled' \in BOOLEAN
      BY <1>4 DEF FramingInv, TypeOK
    <3> QED
      BY <1>4, <3>1, RecvTyped DEF FramingInv
  <2> QED
    BY <1>4, <2>1 DEF FramingInv, NothingComes, peer
<1>5. Available \in Nat /\ Available <= Len(stream) /\ Len(stream) \in Nat
  <2>1. want \in Nat /\ Len(stream) \in Nat
    BY BoundsAssumption, ToCome DEF FramingInv, TypeOK
  <2> QED
    BY <2>1 DEF Available
<1>6. CASE ReadAll
  <2>1. /\ pc = "reading" /\ want > 0 /\ AllHasCome /\ Recv(Available)
        /\ UNCHANGED <<peer, signalled>>
    BY <1>6 DEF ReadAll
  <2>2. TypeOK' /\ RoomInv' /\ UnitsTyped' /\ NothingComes'
    BY <1>4, <1>5, <2>1
  <2>3. Parsed' /\ MisreadIsLast'
    <3>1. CASE signalled
      BY <2>1, <3>1 DEF Parsed, MisreadIsLast
    <3>2. CASE ~signalled
      BY <2>1, <3>2, ReadAllKeeps
    <3> QED
      BY <3>1, <3>2
  <2> QED
    BY <2>2, <2>3 DEF FramingInv
<1>7. CASE ReadShort
  <2>1. pc = "reading" /\ UNCHANGED <<peer, signalled>>
    BY <1>7 DEF ReadShort
  <2>2. CASE (want = 0 \/ (closed /\ Len(stream) < want)) /\ Recv(Available)
    <3>1. TypeOK' /\ RoomInv' /\ UnitsTyped' /\ NothingComes'
      BY <1>4, <1>5, <2>1, <2>2
    <3>2. Parsed' /\ MisreadIsLast'
      BY <2>1, <2>2, ShortKeeps
    <3> QED
      BY <3>1, <3>2 DEF FramingInv
  <2>3. CASE closed /\ Fail /\ UNCHANGED <<stream, misread>>
    BY <2>1, <2>3
    DEF FramingInv, TypeOK, RoomInv, UnitsTyped, NothingComes, Parsed, MisreadIsLast, Fail,
        peer
  <2> QED
    BY <1>7, <2>2, <2>3 DEF ReadShort
<1>8. CASE Interrupted
  <2>1. pc = "reading" /\ Len(stream) < want /\ UNCHANGED peer /\ signalled' = TRUE
    BY <1>8 DEF Interrupted
  <2>2. Parsed' /\ MisreadIsLast'
    BY <2>1 DEF Parsed, MisreadIsLast
  <2>3. NothingComes'
    BY <2>1 DEF FramingInv, NothingComes, peer
  <2>4. TypeOK' /\ RoomInv' /\ UnitsTyped'
    <3>1. CASE Fail /\ UNCHANGED <<stream, misread>>
      BY <2>1, <3>1 DEF FramingInv, TypeOK, RoomInv, UnitsTyped, Fail, peer
    <3>2. CASE Recv(Len(stream))
      <4>1. Len(stream) \in Nat /\ Len(stream) <= Len(stream)
        BY <1>5
      <4> QED
        BY <2>1, <3>2, <4>1, RecvTyped DEF FramingInv
    <3> QED
      BY <1>8, <3>1, <3>2 DEF Interrupted
  <2> QED
    BY <2>2, <2>3, <2>4 DEF FramingInv
<1>10. CASE Overrun
  BY <1>10
  DEF FramingInv, TypeOK, RoomInv, UnitsTyped, NothingComes, Parsed, MisreadIsLast, Overrun,
      Beyond, peer
<1>9. CASE UNCHANGED vars
  <2>1. UNCHANGED <<side, sent, coming, closed, stream, pc, room, step, want, rects, signalled,
                    misread, acted>>
    BY <1>9 DEF vars, peer, proxy
  <2>2. TypeOK' /\ RoomInv' /\ UnitsTyped' /\ NothingComes' /\ MisreadIsLast'
    BY <2>1 DEF FramingInv, TypeOK, RoomInv, UnitsTyped, NothingComes, MisreadIsLast
  <2>3. Parsed'
    <3> SUFFICES ASSUME pc = "reading", want > 0, ~signalled
                 PROVE  Parsed'
      BY <2>1 DEF Parsed
    <3> DEFINE s == stream \o coming
    <3>1. PICK l : InPlace(s, l)
      BY DEF FramingInv, Parsed
    <3>2. s = stream' \o coming'
      BY <2>1
    <3> HIDE DEF s
    <3>3. /\ Chained(UnitLinks, s, l)
          /\ s # <<>> => /\ s[1].at = 1 /\ s[1].of.part = step' /\ s[1].of.size = want'
                         /\ l[1] = rects'
          /\ s # <<>> /\ ~closed' => Ends(s[Len(s)], l[Len(s)])
          /\ s = <<>> /\ ~closed' => Begins(step', want', rects')
      BY <2>1, <3>1 DEF InPlace
    <3> QED
      BY <2>1, <3>2, <3>3, InPlaceNext
  <2> QED
    BY <2>2, <2>3 DEF FramingInv
<1> QED
  BY <1>1, <1>2, <1>3, <1>6, <1>7, <1>8, <1>9, <1>10 DEF Next

\* The invariant holds in every state: the units on the way, each labelled with the
\* rectangles left to read after it, are linked as the peer sent them and begin with what
\* the proxy reads next.
THEOREM FramingInvariant == Spec => []FramingInv
  BY InitGivesFraming, FramingStep, PTL DEF Spec

\* Every variable has its type, however long the messages and the packet are and whatever
\* is read short: the loop over the rectangles of an update (vnc.c) has one to read,
\* whatever the proxy takes from a part that is not what it takes it for.
THEOREM FramingTypes == Spec => []TypeOK
<1>1. FramingInv => TypeOK
  BY DEF FramingInv
<1> QED
  BY <1>1, FramingInvariant, PTL

\* As long as no signal came and the packet was not overrun, the parts the proxy reads,
\* and their lengths, are those the peer sent, however they arrive in pieces.  A part that
\* is longer than the packet has room for is a text, the entries of a colour map or a PDU.
THEOREM AlwaysFramed == Spec => []Framed
<1>1. FramingInv => Framed
  <2>1. ASSUME FramingInv, pc = "reading", want > 0, ~signalled, stream \o coming # <<>>
        PROVE  LET next == Head(stream \o coming)
               IN next.at = 1 /\ next.of.part = step /\ (closed \/ next.of.size = want)
    <3> DEFINE s == stream \o coming
    <3>1. PICK l : InPlace(s, l)
      BY <2>1 DEF FramingInv, Parsed
    <3>2. s[1].at = 1 /\ s[1].of.part = step /\ s[1].of.size = want
      BY <2>1, <3>1 DEF InPlace
    <3>3. Head(s) = s[1]
      <4>1. s \in Seq(AllUnits)
        BY <2>1, ToCome DEF FramingInv
      <4> HIDE DEF s
      <4> QED
        BY <4>1
    <3> HIDE DEF s
    <3>4. LET next == Head(s)
          IN next.at = 1 /\ next.of.part = step /\ (closed \/ next.of.size = want)
      BY <3>2, <3>3
    <3> QED
      BY <3>4 DEF s
  <2>2. FramingInv /\ step \notin {"text", "entries", "pdu"} => want <= room
    BY DEF FramingInv, RoomInv
  <2> QED
    BY <2>1, <2>2 DEF Framed
<1> QED
  BY <1>1, FramingInvariant, PTL

\* Without a signal at most one message is misread and acted on, at the end of the
\* stream, and nothing is behind it, however long the messages and the packet are; an
\* overrun is the end of what is said.
THEOREM OneMisreadAtMost == Spec => []MisreadIsLast
<1>1. FramingInv => MisreadIsLast
  BY DEF FramingInv
<1> QED
  BY <1>1, FramingInvariant, PTL
=============================================================================
