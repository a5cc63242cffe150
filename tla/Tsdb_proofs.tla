----------------------------- MODULE Tsdb_proofs -----------------------------
(***************************************************************************)
(* Theorems about the time-series database: for every set of viewers, every *)
(* maximum and every size a record may have.  Reading is a recursive        *)
(* function, to the provers a CHOOSE; what it returns is proved here by     *)
(* induction over the data, from the well-foundedness of the naturals.      *)
(***************************************************************************)
EXTENDS Tsdb, SequenceTheorems, WellFoundedInduction, TLAPS

-----------------------------------------------------------------------------
(* Induction, as a fact about sets of naturals                              *)

LEMMA LeastNatural ==
    ASSUME NEW S, S \subseteq Nat, S # {}
    PROVE  \E m \in S : \A k \in S : m <= k
<1> DEFINE Less == {ss \in Nat \X Nat : ss[1] < ss[2]}
<1>1. IsWellFoundedOn(Less, Nat)
  BY NatLessThanWellFounded DEF OpToRel
<1>2. \E m \in S : \A k \in S : <<k, m>> \notin Less
  <2> HIDE DEF Less
  <2> QED BY <1>1, WFMin
<1>3. \A k, m \in Nat : <<k, m>> \notin Less => m <= k
  OBVIOUS
<1> QED BY <1>2, <1>3

LEMMA Induction ==
    ASSUME NEW S, 0 \in S, \A k \in Nat : k \in S => k + 1 \in S
    PROVE  Nat \subseteq S
<1>1. SUFFICES ASSUME Nat \ S # {} PROVE FALSE
  OBVIOUS
<1>2. PICK m \in Nat \ S : \A k \in Nat \ S : m <= k
  BY <1>1, LeastNatural
<1>3. m # 0 /\ m - 1 \in Nat /\ (m - 1) + 1 = m
  BY <1>2
<1>4. m - 1 \in S
  BY <1>2, <1>3
<1> QED BY <1>2, <1>3, <1>4

-----------------------------------------------------------------------------
(* What is read back                                                        *)

LEMMA Numbers ==
    /\ MaxRecords \in Nat /\ MaxCrashes \in Nat /\ Limit \in Nat
    /\ \A s \in Sizes : s \in Nat /\ s >= 1
<1>1. MaxRecords \in Nat /\ MaxCrashes \in Nat /\ Limit \in Nat
  BY TsdbAssumption, Zenon
<1>2. \A s \in Sizes : s \in Nat \ {0}
  BY TsdbAssumption, Zenon
<1> QED BY <1>1, <1>2

Rec == [id : 1..MaxRecords, size : Sizes, at : Nat]

\* What reading returns from an offset on, where `f` is what it returns from later ones.
Reading(d, h, f, o) ==
    IF o >= h.size \/ o >= Len(d) THEN <<>>
    ELSE LET c == d[o + 1]
         IN  IF c.part # 1 \/ o + c.size > Len(d) THEN <<>>
             ELSE IF c.id # 0 /\ \A j \in 1..c.size : d[o + j] = Cells(c)[j]
             THEN <<[id |-> c.id, size |-> c.size, at |-> o]>> \o f[o + c.size]
             ELSE f[o + c.size]

Reader(d, h) == CHOOSE f : f = [o \in Nat |-> Reading(d, h, f, o)]

LEMMA ReadBackIsReader ==
    ASSUME NEW d, NEW h PROVE ReadBack(d, h) = Reader(d, h)[0]
BY Zenon DEF ReadBack, Reader, Reading

LEMMA CellTypes ==
    ASSUME NEW c \in Cell
    PROVE  /\ c.id \in 0..MaxRecords /\ c.size \in Nat \ {0} /\ c.part \in Nat \ {0}
           /\ c.id # 0 => c.id \in 1..MaxRecords /\ c.size \in Sizes
<1>1. c = Zeros \/ c \in [id : 1..MaxRecords, size : Sizes, part : Nat \ {0}]
  BY DEF Cell
<1>2. CASE c = Zeros
  BY <1>2, Numbers DEF Zeros
<1>3. CASE c \in [id : 1..MaxRecords, size : Sizes, part : Nat \ {0}]
  BY <1>3, Numbers
<1> QED BY <1>1, <1>2, <1>3

LEMMA ReadingLooksAhead ==
    ASSUME NEW d \in Seq(Cell), NEW h \in Headers, NEW o \in Nat, NEW f, NEW g,
           \A p \in Nat : p > o => f[p] = g[p]
    PROVE  Reading(d, h, f, o) = Reading(d, h, g, o)
<1>1. CASE o >= h.size \/ o >= Len(d)
  BY <1>1 DEF Reading
<1>2. CASE ~(o >= h.size \/ o >= Len(d))
  <2>1. d[o + 1] \in Cell
    BY <1>2, LenProperties, ElementOfSeq DEF Headers
  <2>2. d[o + 1].size \in Nat \ {0}
    BY <2>1, CellTypes
  <2>3. f[o + d[o + 1].size] = g[o + d[o + 1].size]
    BY <2>2
  <2> QED BY <1>2, <2>3, Zenon DEF Reading
<1> QED BY <1>1, <1>2

LEMMA ReaderExists ==
    ASSUME NEW d \in Seq(Cell), NEW h \in Headers
    PROVE  \E f : f = [o \in Nat |-> Reading(d, h, f, o)]
<1> DEFINE Reads(f, k) == DOMAIN f = Nat /\ f = [o \in Nat |-> f[o]]
                          /\ \A o \in Nat : o + k >= Len(d) => f[o] = Reading(d, h, f, o)
           S == {k \in Nat : \E f : Reads(f, k)}
<1>1. Len(d) \in Nat
  BY LenProperties
<1>2. 0 \in S
  <2> DEFINE f == [o \in Nat |-> <<>>]
  <2>1. \A o \in Nat : o >= Len(d) => Reading(d, h, f, o) = <<>>
    BY DEF Reading
  <2>2. Reads(f, 0)
    BY <1>1, <2>1
  <2> QED BY <2>2
<1>3. ASSUME NEW k \in Nat, k \in S PROVE k + 1 \in S
  <2>1. PICK f : Reads(f, k)
    BY <1>3
  <2>2. CASE k >= Len(d)
    <3>1. Reads(f, k + 1)
      BY <1>1, <2>1, <2>2
    <3> QED BY <3>1
  <2>3. CASE k < Len(d)
    <3> DEFINE p == Len(d) - (k + 1)
               g == [o \in Nat |-> IF o = p THEN Reading(d, h, f, o) ELSE f[o]]
    <3>1. p \in Nat
      BY <1>1, <2>3
    <3>2. ASSUME NEW o \in Nat, o + (k + 1) >= Len(d) PROVE g[o] = Reading(d, h, g, o)
      <4>1. o >= p
        BY <1>1, <3>2
      <4>2. Reading(d, h, g, o) = Reading(d, h, f, o)
        <5>1. \A q \in Nat : q > o => g[q] = f[q]
          BY <3>1, <4>1
        <5> HIDE DEF g
        <5> QED BY <5>1, ReadingLooksAhead
      <4>3. CASE o = p
        BY <4>2, <4>3
      <4>4. CASE o # p
        <5>1. o + k >= Len(d)
          BY <1>1, <4>1, <4>4
        <5> QED BY <2>1, <4>2, <4>4, <5>1
      <4> QED BY <4>3, <4>4
    <3>3. DOMAIN g = Nat /\ g = [o \in Nat |-> g[o]]
      OBVIOUS
    <3> HIDE DEF g
    <3>4. Reads(g, k + 1)
      BY <3>2, <3>3
    <3> QED BY <3>4
  <2> QED BY <1>1, <2>2, <2>3
<1>4. PICK f : Reads(f, Len(d))
  <2> HIDE DEF S, Reads
  <2>1. Nat \subseteq S
    BY <1>2, <1>3, Induction
  <2> QED BY <1>1, <2>1 DEF S
<1>5. \A o \in Nat : f[o] = Reading(d, h, f, o)
  BY <1>1, <1>4
<1>6. f = [o \in Nat |-> Reading(d, h, f, o)]
  BY <1>4, <1>5, Zenon
<1> QED BY <1>6

LEMMA ReaderReads ==
    ASSUME NEW d \in Seq(Cell), NEW h \in Headers, NEW o \in Nat
    PROVE  Reader(d, h)[o] = Reading(d, h, Reader(d, h), o)
<1>1. Reader(d, h) = [p \in Nat |-> Reading(d, h, Reader(d, h), p)]
  BY ReaderExists, Zenon DEF Reader
<1> DEFINE F == Reader(d, h)
<1>2. F = [p \in Nat |-> Reading(d, h, F, p)]
  BY <1>1
<1> HIDE DEF F
<1>3. F[o] = Reading(d, h, F, o)
  BY <1>2
<1> QED BY <1>3 DEF F
-----------------------------------------------------------------------------
(* The records that are read back are records, and as many as there is room for *)

LEMMA ReadingTypes ==
    ASSUME NEW d \in Seq(Cell), NEW h \in Headers, NEW o \in Nat, NEW f,
           \A p \in Nat : p > o =>
               f[p] \in Seq(Rec) /\ (f[p] = <<>> \/ Len(f[p]) + p <= h.size)
    PROVE  /\ Reading(d, h, f, o) \in Seq(Rec)
           /\ Reading(d, h, f, o) = <<>> \/ Len(Reading(d, h, f, o)) + o <= h.size
<1>1. CASE o >= h.size \/ o >= Len(d)
  BY <1>1 DEF Reading
<1>2. CASE ~(o >= h.size \/ o >= Len(d))
  <2> DEFINE c == d[o + 1]
             r == [id |-> c.id, size |-> c.size, at |-> o]
             p == o + c.size
  <2>1. c \in Cell
    BY <1>2, LenProperties, ElementOfSeq DEF Headers
  <2>2. /\ c.size \in Nat \ {0} /\ p \in Nat /\ p > o
        /\ c.id # 0 => r \in Rec
    BY <2>1, CellTypes DEF Rec
  <2>3. h.size \in Nat /\ o < h.size
    BY <1>2 DEF Headers
  <2> HIDE DEF p, r
  <2>4. f[p] \in Seq(Rec) /\ (f[p] = <<>> \/ Len(f[p]) + p <= h.size)
    BY <2>2
  <2>5. ASSUME c.id # 0
        PROVE  <<r>> \o f[p] \in Seq(Rec) /\ Len(<<r>> \o f[p]) = 1 + Len(f[p])
    <3>1. <<r>> \in Seq(Rec) /\ Len(<<r>>) = 1
      BY <2>2, <2>5
    <3> QED BY <2>4, <3>1, ConcatProperties
  <2>6. \/ Reading(d, h, f, o) = <<>>
        \/ c.id # 0 /\ Reading(d, h, f, o) = <<r>> \o f[p]
        \/ Reading(d, h, f, o) = f[p]
    BY <1>2, Zenon DEF Reading, r, p
  <2>7. CASE c.id # 0 /\ Reading(d, h, f, o) = <<r>> \o f[p]
    <3>1. Len(f[p]) = 0 \/ Len(f[p]) + p <= h.size
      BY <2>4
    <3>2. Len(f[p]) \in Nat
      BY <2>4, LenProperties
    <3>3. 1 + Len(f[p]) + o <= h.size
      BY <2>2, <2>3, <3>1, <3>2
    <3> QED BY <2>5, <2>7, <3>3
  <2>8. CASE Reading(d, h, f, o) = f[p]
    <3>1. f[p] = <<>> \/ Len(f[p]) + o <= h.size
      <4>1. Len(f[p]) \in Nat
        BY <2>4, LenProperties
      <4> QED BY <2>2, <2>3, <2>4, <4>1
    <3> QED BY <2>4, <2>8, <3>1
  <2>9. CASE Reading(d, h, f, o) = <<>>
    BY <2>9
  <2> QED BY <2>6, <2>7, <2>8, <2>9
<1> QED BY <1>1, <1>2

LEMMA ReadBackTypes ==
    ASSUME NEW d \in Seq(Cell), NEW h \in Headers
    PROVE  ReadBack(d, h) \in Seq(Rec) /\ Len(ReadBack(d, h)) <= h.size
<1> DEFINE F == Reader(d, h)
           Typed(q) == F[q] \in Seq(Rec) /\ (F[q] = <<>> \/ Len(F[q]) + q <= h.size)
           S == {k \in Nat : \A o \in Nat : o + k >= Len(d) => Typed(o)}
<1>1. Len(d) \in Nat /\ h.size \in Nat
  BY LenProperties DEF Headers
<1>2. \A o \in Nat : F[o] = Reading(d, h, F, o)
  BY ReaderReads
<1> HIDE DEF F
<1>3. 0 \in S
  <2>1. ASSUME NEW o \in Nat, o >= Len(d) PROVE Typed(o)
    <3>1. F[o] = <<>>
      BY <1>2, <2>1 DEF Reading
    <3> QED BY <3>1
  <2> QED BY <1>1, <2>1
<1>4. ASSUME NEW k \in Nat, k \in S PROVE k + 1 \in S
  <2>1. ASSUME NEW o \in Nat, o + (k + 1) >= Len(d) PROVE Typed(o)
    <3>1. \A p \in Nat : p > o => Typed(p)
      BY <1>1, <1>4, <2>1
    <3>2. Reading(d, h, F, o) \in Seq(Rec)
          /\ (Reading(d, h, F, o) = <<>> \/ Len(Reading(d, h, F, o)) + o <= h.size)
      BY <3>1, ReadingTypes
    <3> QED BY <1>2, <3>2
  <2> QED BY <2>1
<1>5. Typed(0)
  <2> HIDE DEF S, Typed
  <2>1. Len(d) \in S
    BY <1>1, <1>3, <1>4, Induction
  <2> QED BY <1>1, <2>1 DEF S
<1>6. F[0] \in Seq(Rec) /\ Len(F[0]) <= h.size
  BY <1>1, <1>5
<1> QED BY <1>6, ReadBackIsReader DEF F

-----------------------------------------------------------------------------
(* Data in which records are laid out is read back as these records         *)

\* The header's part of the data is `rs`, one record behind the other.
Laid(d, rs, h) ==
    /\ rs \in Seq(Rec)
    /\ Len(rs) = h.count
    /\ h.size <= Len(d)
    /\ \A i \in 1..Len(rs) : /\ rs[i].at = EndOf(rs, i - 1)
                             /\ EndOf(rs, i) <= h.size
                             /\ \A j \in 1..rs[i].size : d[rs[i].at + j] = Cells(rs[i])[j]
    /\ EndOf(rs, Len(rs)) = h.size

LEMMA RecTypes ==
    ASSUME NEW r \in Rec
    PROVE  /\ r.id \in 1..MaxRecords /\ r.size \in Sizes /\ r.size \in Nat /\ r.size >= 1
           /\ r.at \in Nat
           /\ r = [id |-> r.id, size |-> r.size, at |-> r.at]
           /\ \A j \in 1..r.size : Cells(r)[j] = [id |-> r.id, size |-> r.size, part |-> j]
<1>1. r.id \in 1..MaxRecords /\ r.size \in Sizes /\ r.at \in Nat
      /\ r = [id |-> r.id, size |-> r.size, at |-> r.at]
  BY DEF Rec
<1>2. r.size \in Nat /\ r.size >= 1
  BY <1>1, Numbers
<1>3. \A j \in 1..r.size : Cells(r)[j] = [id |-> r.id, size |-> r.size, part |-> j]
  BY DEF Cells
<1> QED BY <1>1, <1>2, <1>3

LEMMA LaidIsRead ==
    ASSUME NEW d \in Seq(Cell), NEW h \in Headers, NEW rs, Laid(d, rs, h)
    PROVE  ReadBack(d, h) = rs
<1> DEFINE F == Reader(d, h)
           n == Len(rs)
           S == {m \in Nat : m <= n => F[EndOf(rs, n - m)] = SubSeq(rs, (n - m) + 1, n)}
<1>1. Len(d) \in Nat /\ h.size \in Nat /\ n \in Nat /\ rs \in Seq(Rec)
  BY LenProperties DEF Headers, Laid
<1>2. \A o \in Nat : F[o] = Reading(d, h, F, o)
  BY ReaderReads
<1> HIDE DEF F
<1>3. 0 \in S
  <2>1. EndOf(rs, n) = h.size /\ n - 0 = n
    BY <1>1 DEF Laid
  <2>2. F[h.size] = <<>>
    <3>1. \A o \in Nat : o = h.size => Reading(d, h, F, o) = <<>>
      BY <1>1 DEF Reading
    <3> QED BY <1>1, <1>2, <3>1
  <2>3. SubSeq(rs, n + 1, n) = <<>>
    BY <1>1, SubSeqEmpty
  <2> QED BY <2>1, <2>2, <2>3
<1>4. ASSUME NEW m \in Nat, m \in S PROVE m + 1 \in S
  <2>1. SUFFICES ASSUME m + 1 <= n
                 PROVE  F[EndOf(rs, n - (m + 1))] = SubSeq(rs, (n - (m + 1)) + 1, n)
    OBVIOUS
  <2> DEFINE i == n - m
             r == rs[i]
             o == r.at
             c == d[o + 1]
  <2>2. i \in 1..n /\ n - (m + 1) = i - 1 /\ (n - (m + 1)) + 1 = i /\ (n - m) + 1 = i + 1
    BY <1>1, <2>1
  <2>3. F[EndOf(rs, i)] = SubSeq(rs, i + 1, n)
    BY <1>1, <1>4, <2>1, <2>2
  <2> HIDE DEF i
  <2>4. r \in Rec
    BY <1>1, <2>2, ElementOfSeq
  <2>5. /\ o = EndOf(rs, i - 1) /\ EndOf(rs, i) <= h.size /\ h.size <= Len(d)
        /\ \A j \in 1..r.size : d[o + j] = Cells(r)[j]
    BY <2>2 DEF Laid
  <2>6. EndOf(rs, i) = o + r.size
    BY <2>2 DEF EndOf
  <2> HIDE DEF r, o
  <2>7. /\ r.size \in Nat /\ r.size >= 1 /\ o \in Nat /\ r.id # 0
        /\ r = [id |-> r.id, size |-> r.size, at |-> o]
        /\ \A j \in 1..r.size : Cells(r)[j] = [id |-> r.id, size |-> r.size, part |-> j]
    <3>1. r.id \in 1..MaxRecords /\ r.id # 0
      BY <2>4, RecTypes, Numbers
    <3> QED BY <2>4, <3>1, RecTypes DEF o
  <2>8. c = [id |-> r.id, size |-> r.size, part |-> 1]
    BY <2>5, <2>7
  <2>9. c.id = r.id /\ c.size = r.size /\ c.part = 1
    BY <2>8
  <2>10. Cells(c) = Cells(r)
    BY <2>9, Zenon DEF Cells
  <2>11. ~(o >= h.size \/ o >= Len(d)) /\ ~(c.part # 1 \/ o + c.size > Len(d))
    BY <1>1, <2>5, <2>6, <2>7, <2>9
  <2>12. c.id # 0 /\ \A j \in 1..c.size : d[o + j] = Cells(c)[j]
    BY <2>5, <2>7, <2>9, <2>10
  <2>13. Reading(d, h, F, o) = <<[id |-> c.id, size |-> c.size, at |-> o]>> \o F[o + c.size]
    <3> HIDE DEF c
    <3> QED BY <2>11, <2>12, Zenon DEF Reading, c
  <2>14. F[o] = <<r>> \o SubSeq(rs, i + 1, n)
    <3>1. [id |-> c.id, size |-> c.size, at |-> o] = r /\ o + c.size = EndOf(rs, i)
      BY <2>6, <2>7, <2>9
    <3> QED BY <1>2, <2>3, <2>7, <2>13, <3>1
  <2>15. SubSeq(rs, i, n) = <<r>> \o SubSeq(rs, i + 1, n)
    <3>1. n \in i..n
      BY <1>1, <2>2
    <3> QED BY <1>1, <2>2, <3>1, SubSeqRecursiveFirst DEF r
  <2> QED BY <2>2, <2>5, <2>14, <2>15
<1>5. F[EndOf(rs, n - n)] = SubSeq(rs, (n - n) + 1, n)
  <2> HIDE DEF S
  <2>1. n \in S
    BY <1>1, <1>3, <1>4, Induction
  <2> QED BY <1>1, <2>1 DEF S
<1>6. n - n = 0 /\ EndOf(rs, 0) = 0 /\ (n - n) + 1 = 1
  BY <1>1 DEF EndOf
<1>7. F[0] = rs
  BY <1>1, <1>5, <1>6, SubSeqFull
<1> QED BY <1>7, ReadBackIsReader DEF F

-----------------------------------------------------------------------------
(* What the operators of the steps return                                   *)

LEMMA Concatenated ==
    ASSUME NEW S, NEW s \in Seq(S), NEW t \in Seq(S)
    PROVE  /\ s \o t \in Seq(S) /\ Len(s \o t) = Len(s) + Len(t)
           /\ \A i \in 1..Len(s) : (s \o t)[i] = s[i]
           /\ \A i \in 1..Len(t) : (s \o t)[Len(s) + i] = t[i]
<1>1. Len(s) \in Nat /\ Len(t) \in Nat
  BY LenProperties
<1>2. /\ s \o t \in Seq(S) /\ Len(s \o t) = Len(s) + Len(t)
      /\ \A i \in 1..Len(s) + Len(t) : (s \o t)[i] = IF i <= Len(s) THEN s[i] ELSE t[i - Len(s)]
  BY ConcatProperties
<1>3. ASSUME NEW i \in 1..Len(s) PROVE (s \o t)[i] = s[i]
  BY <1>1, <1>2
<1>4. ASSUME NEW i \in 1..Len(t) PROVE (s \o t)[Len(s) + i] = t[i]
  <2>1. Len(s) + i \in 1..Len(s) + Len(t) /\ ~(Len(s) + i <= Len(s)) /\ (Len(s) + i) - Len(s) = i
    BY <1>1
  <2> QED BY <1>2, <2>1
<1> QED BY <1>2, <1>3, <1>4

LEMMA ThreeParts ==
    ASSUME NEW S, NEW a \in Seq(S), NEW x \in S, NEW c \in Seq(S)
    PROVE  /\ a \o <<x>> \o c \in Seq(S) /\ Len(a \o <<x>> \o c) = Len(a) + 1 + Len(c)
           /\ \A i \in 1..Len(a) : (a \o <<x>> \o c)[i] = a[i]
           /\ (a \o <<x>> \o c)[Len(a) + 1] = x
           /\ \A i \in 1..Len(c) : (a \o <<x>> \o c)[Len(a) + 1 + i] = c[i]
<1>1. <<x>> \in Seq(S) /\ Len(<<x>>) = 1 /\ <<x>>[1] = x
  OBVIOUS
<1>2. /\ a \o <<x>> \in Seq(S) /\ Len(a \o <<x>>) = Len(a) + 1
      /\ \A i \in 1..Len(a) : (a \o <<x>>)[i] = a[i]
      /\ (a \o <<x>>)[Len(a) + 1] = x
  BY <1>1, Concatenated
<1>3. ASSUME NEW ab \in Seq(S), Len(ab) = Len(a) + 1
      PROVE  /\ ab \o c \in Seq(S) /\ Len(ab \o c) = Len(a) + 1 + Len(c)
             /\ \A i \in 1..Len(a) + 1 : (ab \o c)[i] = ab[i]
             /\ \A i \in 1..Len(c) : (ab \o c)[Len(a) + 1 + i] = c[i]
  <2>1. /\ ab \o c \in Seq(S) /\ Len(ab \o c) = Len(ab) + Len(c)
        /\ \A i \in 1..Len(ab) : (ab \o c)[i] = ab[i]
        /\ \A i \in 1..Len(c) : (ab \o c)[Len(ab) + i] = c[i]
    BY Concatenated
  <2> QED BY <1>3, <2>1
<1>4. Len(a) \in Nat
  BY LenProperties
<1> DEFINE ab == a \o <<x>>
<1>5. ab \in Seq(S) /\ Len(ab) = Len(a) + 1
  BY <1>2
<1> HIDE DEF ab
<1>6. /\ ab \o c \in Seq(S) /\ Len(ab \o c) = Len(a) + 1 + Len(c)
      /\ \A i \in 1..Len(a) + 1 : (ab \o c)[i] = ab[i]
      /\ \A i \in 1..Len(c) : (ab \o c)[Len(a) + 1 + i] = c[i]
  BY <1>3, <1>5
<1>7. (\A i \in 1..Len(a) : i \in 1..Len(a) + 1) /\ Len(a) + 1 \in 1..Len(a) + 1
  BY <1>4
<1> QED BY <1>2, <1>6, <1>7 DEF ab

LEMMA PutWrites ==
    ASSUME NEW d \in Seq(Cell), NEW o \in Nat, NEW cs \in Seq(Cell)
    PROVE  /\ Put(d, o, cs) \in Seq(Cell)
           /\ Len(Put(d, o, cs)) >= Len(d) /\ Len(Put(d, o, cs)) >= o + Len(cs)
           /\ \A i \in 1..Len(d) : i <= o => Put(d, o, cs)[i] = d[i]
           /\ \A i \in 1..Len(cs) : Put(d, o, cs)[o + i] = cs[i]
<1> DEFINE l == IF o + Len(cs) > Len(d) THEN o + Len(cs) ELSE Len(d)
           e(i) == IF i \in o + 1..o + Len(cs) THEN cs[i - o]
                   ELSE IF i <= Len(d) THEN d[i] ELSE Zeros
           p == [i \in 1..l |-> e(i)]
<1>1. Put(d, o, cs) = p
  BY DEF Put
<1>2. Len(d) \in Nat /\ Len(cs) \in Nat /\ l \in Nat /\ l >= Len(d) /\ l >= o + Len(cs)
  BY LenProperties
<1>3. \A i \in 1..l : e(i) \in Cell
  <2>1. Zeros \in Cell
    BY DEF Cell
  <2>2. ASSUME NEW i \in 1..l, i \in o + 1..o + Len(cs) PROVE cs[i - o] \in Cell
    <3>1. i - o \in 1..Len(cs)
      BY <1>2, <2>2
    <3> QED BY <3>1, ElementOfSeq
  <2>3. ASSUME NEW i \in 1..l, i <= Len(d) PROVE d[i] \in Cell
    BY <1>2, <2>3, ElementOfSeq
  <2> QED BY <2>1, <2>2, <2>3
<1>4. /\ \A i \in 1..Len(d) : i <= o => i \in 1..l /\ e(i) = d[i]
      /\ \A i \in 1..Len(cs) : o + i \in 1..l /\ e(o + i) = cs[i]
  <2>1. ASSUME NEW i \in 1..Len(d), i <= o PROVE i \in 1..l /\ e(i) = d[i]
    BY <1>2, <2>1
  <2>2. ASSUME NEW i \in 1..Len(cs) PROVE o + i \in 1..l /\ e(o + i) = cs[i]
    <3>1. o + i \in 1..l /\ o + i \in o + 1..o + Len(cs) /\ (o + i) - o = i
      BY <1>2
    <3> QED BY <3>1
  <2> QED BY <2>1, <2>2
<1> HIDE DEF l, e
<1>5. p \in Seq(Cell) /\ Len(p) = l
  BY <1>2, <1>3, IsASeq
<1>6. \A i \in 1..l : p[i] = e(i)
  OBVIOUS
<1> HIDE DEF p
<1> QED BY <1>1, <1>2, <1>4, <1>5, <1>6

LEMMA ItemCells ==
    ASSUME NEW r \in Item
    PROVE  /\ r.id \in 1..MaxRecords /\ r.size \in Sizes /\ r.size \in Nat /\ r.size >= 1
           /\ Cells(r) \in Seq(Cell) /\ Len(Cells(r)) = r.size /\ Cells(r) # <<>>
           /\ \A j \in 1..r.size : Cells(r)[j] = [id |-> r.id, size |-> r.size, part |-> j]
<1>1. r.id \in 1..MaxRecords /\ r.size \in Sizes
  BY DEF Item
<1>2. r.size \in Nat /\ r.size >= 1
  BY <1>1, Numbers
<1>3. \A j \in 1..r.size : [id |-> r.id, size |-> r.size, part |-> j] \in Cell
  BY <1>1, <1>2 DEF Cell
<1>4. Cells(r) \in Seq(Cell) /\ Len(Cells(r)) = r.size
  BY <1>2, <1>3, IsASeq DEF Cells
<1>5. \A j \in 1..r.size : Cells(r)[j] = [id |-> r.id, size |-> r.size, part |-> j]
  BY DEF Cells
<1>6. Cells(r) # <<>>
  BY <1>2, <1>4
<1> QED BY <1>1, <1>2, <1>4, <1>5, <1>6

LEMMA FirstCell ==
    ASSUME NEW r \in Item
    PROVE  /\ SubSeq(Cells(r), 1, 1) \in Seq(Cell) /\ Len(SubSeq(Cells(r), 1, 1)) = 1
           /\ SubSeq(Cells(r), 1, 1)[1] = Cells(r)[1]
<1>1. \A i \in 1..1 : Cells(r)[i] \in Cell
  BY ItemCells, ElementOfSeq
<1> HIDE DEF Cell
<1> QED BY <1>1, SubSeqProperties

LEMMA OtherCells ==
    ASSUME NEW r \in Item
    PROVE  /\ Tail(Cells(r)) \in Seq(Cell) /\ Len(Tail(Cells(r))) = r.size - 1
           /\ \A j \in 1..r.size - 1 : Tail(Cells(r))[j] = Cells(r)[j + 1]
BY ItemCells, HeadTailProperties

LEMMA KeptRecords ==
    ASSUME NEW rs \in Seq(Rec)
    PROVE  /\ Kept(rs) \in Seq(Rec) /\ Len(Kept(rs)) = Len(rs) \div 2
           /\ \A i \in 1..Len(rs) \div 2 : Kept(rs)[i] = rs[Len(rs) - Len(rs) \div 2 + i]
<1> DEFINE n == Len(rs)
           m == n - n \div 2 + 1
<1>1. n \in Nat /\ n \div 2 \in Nat /\ n \div 2 <= n /\ m \in Int /\ m >= 1 /\ (n - m) + 1 = n \div 2
  BY LenProperties
<1>2. \A i \in m..n : rs[i] \in Rec
  BY <1>1, ElementOfSeq
<1>3. /\ SubSeq(rs, m, n) \in Seq(Rec)
      /\ Len(SubSeq(rs, m, n)) = IF m <= n THEN (n - m) + 1 ELSE 0
      /\ \A i \in 1..(n - m) + 1 : SubSeq(rs, m, n)[i] = rs[(m + i) - 1]
  <2> HIDE DEF m, n
  <2> QED BY <1>1, <1>2, SubSeqProperties
<1>4. \A i \in Nat : (m + i) - 1 = n - n \div 2 + i
  BY <1>1
<1>5. Kept(rs) = SubSeq(rs, m, n)
  BY DEF Kept
<1> HIDE DEF m
<1> QED BY <1>1, <1>3, <1>4, <1>5

LEMMA ItemRotated ==
    ASSUME NEW r \in Item
    PROVE  /\ [r EXCEPT !.rotated = TRUE] = [id |-> r.id, size |-> r.size, rotated |-> TRUE]
           /\ [r EXCEPT !.rotated = TRUE] \in Item
<1>1. PICK q : q = [r EXCEPT !.rotated = TRUE]
  OBVIOUS
<1>2. q \in Item
  BY <1>1 DEF Item
<1>3. q.id = r.id /\ q.size = r.size
  BY <1>1 DEF Item
<1>4. q.rotated = TRUE
  BY <1>1 DEF Item
<1>5. q = [id |-> r.id, size |-> r.size, rotated |-> TRUE]
  BY <1>2, <1>3, <1>4 DEF Item
<1> QED BY <1>1, <1>2, <1>5

\* What is to be written after a rotation that keeps `kept`, as Rotate has it.
ToWrite(kept, td) ==
    [i \in DOMAIN kept |-> [id |-> kept[i].id, size |-> kept[i].size, rotated |-> FALSE]]
    \o <<[Head(td) EXCEPT !.rotated = TRUE]>> \o Tail(td)

LEMMA ToWriteIs ==
    ASSUME NEW kept \in Seq(Rec), NEW td \in Seq(Item), td # <<>>
    PROVE  /\ ToWrite(kept, td) \in Seq(Item)
           /\ Len(ToWrite(kept, td)) = Len(kept) + Len(td)
           /\ \A i \in 1..Len(kept) : ToWrite(kept, td)[i] =
                 [id |-> kept[i].id, size |-> kept[i].size, rotated |-> FALSE]
           /\ ToWrite(kept, td)[Len(kept) + 1] = [id |-> td[1].id, size |-> td[1].size, rotated |-> TRUE]
           /\ \A i \in 2..Len(td) : ToWrite(kept, td)[Len(kept) + i] = td[i]
<1> DEFINE k == Len(kept)
           FirstOf(a) == a = [i \in DOMAIN kept |-> [id |-> kept[i].id, size |-> kept[i].size, rotated |-> FALSE]]
<1>1. k \in Nat /\ DOMAIN kept = 1..k /\ Len(td) \in Nat /\ Len(td) >= 1 /\ td[1] \in Item
  BY LenProperties, ElementOfSeq
<1>2. PICK a : FirstOf(a)
  OBVIOUS
<1>3. a \in Seq(Item) /\ Len(a) = k
      /\ \A i \in 1..k : a[i] = [id |-> kept[i].id, size |-> kept[i].size, rotated |-> FALSE]
  <2>1. \A i \in 1..k : [id |-> kept[i].id, size |-> kept[i].size, rotated |-> FALSE] \in Item
    <3>1. \A i \in 1..k : kept[i] \in Rec
      BY <1>1, ElementOfSeq
    <3>2. \A r \in Rec : [id |-> r.id, size |-> r.size, rotated |-> FALSE] \in Item
      BY DEF Rec, Item
    <3> QED BY <3>1, <3>2
  <2> QED BY <1>1, <1>2, <2>1, IsASeq
<1>4. PICK x : x = [Head(td) EXCEPT !.rotated = TRUE]
  OBVIOUS
<1>5. x = [id |-> td[1].id, size |-> td[1].size, rotated |-> TRUE] /\ x \in Item
  <2>1. Head(td) = td[1]
    BY <1>1
  <2> QED BY <1>1, <1>4, <2>1, ItemRotated
<1>6. PICK c : c = Tail(td)
  OBVIOUS
<1>7. c \in Seq(Item) /\ Len(c) = Len(td) - 1 /\ \A i \in 1..Len(td) - 1 : c[i] = td[i + 1]
  BY <1>6, HeadTailProperties
<1>8. ToWrite(kept, td) = a \o <<x>> \o c
  BY <1>2, <1>4, <1>6 DEF ToWrite
<1>9. /\ a \o <<x>> \o c \in Seq(Item) /\ Len(a \o <<x>> \o c) = Len(a) + 1 + Len(c)
      /\ \A i \in 1..Len(a) : (a \o <<x>> \o c)[i] = a[i]
      /\ (a \o <<x>> \o c)[Len(a) + 1] = x
      /\ \A i \in 1..Len(c) : (a \o <<x>> \o c)[Len(a) + 1 + i] = c[i]
  <2>1. a \in Seq(Item) /\ x \in Item /\ c \in Seq(Item)
    BY <1>3, <1>5, <1>7
  <2> QED BY <2>1, ThreeParts
<1> DEFINE all == ToWrite(kept, td)
<1>10. /\ all \in Seq(Item) /\ Len(all) = k + 1 + (Len(td) - 1)
       /\ \A i \in 1..k : all[i] = a[i]
       /\ all[k + 1] = x
       /\ \A i \in 1..Len(td) - 1 : all[k + 1 + i] = c[i]
  BY <1>3, <1>7, <1>8, <1>9
<1> HIDE DEF all, k
<1>11. ASSUME NEW i \in 2..Len(td) PROVE all[k + i] = td[i]
  <2>1. k + i = k + 1 + (i - 1) /\ i - 1 \in 1..Len(td) - 1 /\ (i - 1) + 1 = i
    BY <1>1
  <2> QED BY <1>7, <1>10, <2>1
<1>12. Len(all) = k + Len(td)
  BY <1>1, <1>10
<1> QED BY <1>3, <1>5, <1>10, <1>11, <1>12 DEF all, k

-----------------------------------------------------------------------------
(* Types                                                                    *)

\* Nobody has a file open that is not there, and a record is being written while
\* there is one.
TypeInv ==
    /\ TypeOK
    /\ rpc # "off" => exists
    /\ \A v \in Viewers : seen[v] # None => exists
    /\ todo # <<>> => next <= MaxRecords

LEMMA TypesBegin == Init => TypeInv
<1>1. NoData \in Headers
  BY DEF NoData, Headers
<1>2. 1 \in 1..MaxRecords + 1 /\ 0 \in 0..MaxCrashes
  BY Numbers
<1>3. <<>> \in Seq(Cell) /\ <<>> \in Seq(Item)
  BY EmptySeq
<1> SUFFICES ASSUME Init PROVE TypeInv
  OBVIOUS
<1>4. seen \in [Viewers -> Headers \cup {None}]
  BY DEF Init
<1> QED BY <1>1, <1>2, <1>3, <1>4 DEF Init, TypeInv, TypeOK

LEMMA Proceeds ==
    ASSUME NEW td, Proceed(td)
    PROVE  /\ td = <<>> => rpc' = "idle"
           /\ td # <<>> => rpc' \in {"head", "check"}
BY DEF Proceed

LEMMA TypesOfTheRecorder ==
    ASSUME TypeInv, Recorder PROVE TypeInv'
<1> USE DEF TypeInv
<1>1. NoData \in Headers
  BY DEF NoData, Headers
<1>2. CASE Create
  BY <1>1, <1>2 DEF Create, TypeOK
<1>3. CASE OpenExisting
  BY <1>3 DEF OpenExisting, TypeOK
<1>4. CASE Record
  <2>1. PICK n \in Sizes : todo' = <<[id |-> next, size |-> n, rotated |-> FALSE]>>
    BY <1>4 DEF Record
  <2>2. next \in 1..MaxRecords
    BY <1>4, Numbers DEF Record, TypeOK
  <2>3. [id |-> next, size |-> n, rotated |-> FALSE] \in Item
    BY <2>2 DEF Item
  <2>4. todo' \in Seq(Item) /\ todo' # <<>>
    BY <2>1, <2>3
  <2> QED BY <1>4, <2>2, <2>4 DEF Record, TypeOK
<1>5. CASE CreateHeader
  <2>1. rpc' \in {"idle", "check", "head"} /\ (rpc' = "idle" => todo = <<>>) /\ (rpc' # "idle" => todo # <<>>)
    BY <1>5, Proceeds DEF CreateHeader
  <2> QED BY <1>5, <2>1 DEF CreateHeader, TypeOK
<1>6. CASE Check
  BY <1>6 DEF Check, TypeOK
<1>7. CASE Rotate
  <2> DEFINE kept == Kept(ReadBack(data, mem))
  <2>1. kept \in Seq(Rec) /\ todo \in Seq(Item) /\ todo # <<>>
    BY <1>7, ReadBackTypes, KeptRecords DEF Rotate, TypeOK
  <2>2. todo' = ToWrite(kept, todo)
    BY <1>7 DEF Rotate, ToWrite
  <2> HIDE DEF kept
  <2>3. todo' \in Seq(Item)
    BY <2>1, <2>2, ToWriteIs
  <2> QED BY <1>1, <1>7, <2>1, <2>3 DEF Rotate, TypeOK
<1>8. CASE WriteHead
  <2>1. data' \in Seq(Cell)
    <3>1. todo # <<>> /\ Head(todo) \in Item
      BY <1>8, HeadTailProperties DEF WriteHead, TypeOK
    <3>2. mem.size \in Nat /\ data \in Seq(Cell)
      BY DEF TypeOK, Headers
    <3> QED BY <1>8, <3>1, <3>2, FirstCell, PutWrites DEF WriteHead, EndOfData
  <2> QED BY <1>8, <2>1 DEF WriteHead, TypeOK
<1>9. CASE WriteBody
  <2>1. data' \in Seq(Cell)
    <3>1. todo # <<>> /\ Head(todo) \in Item
      BY <1>9, HeadTailProperties DEF WriteBody, TypeOK
    <3>2. mem.size + 1 \in Nat /\ data \in Seq(Cell)
      BY DEF TypeOK, Headers
    <3> QED BY <1>9, <3>1, <3>2, OtherCells, PutWrites DEF WriteBody, EndOfData
  <2> QED BY <1>9, <2>1 DEF WriteBody, TypeOK
<1>10. CASE Flush
  <2>1. todo # <<>> /\ Head(todo) \in Item /\ todo' \in Seq(Item)
    BY <1>10, HeadTailProperties DEF Flush, TypeOK
  <2>2. mem' \in Headers /\ hdr' = mem'
    <3>1. Head(todo).size \in Nat
      BY <2>1, ItemCells
    <3> QED BY <1>10, <3>1 DEF Flush, TypeOK, Headers
  <2>3. next' \in 1..MaxRecords + 1 /\ (todo' # <<>> => next' <= MaxRecords)
    BY <1>10, <2>1, Numbers DEF Flush, TypeOK
  <2>4. rpc' \in {"idle", "check", "head"} /\ (rpc' = "idle" => todo' = <<>>) /\ (rpc' # "idle" => todo' # <<>>)
    BY <1>10, Proceeds DEF Flush
  <2>5. hdrOk' \in BOOLEAN
    BY <1>10 DEF Flush, TypeOK
  <2> QED BY <1>10, <2>1, <2>2, <2>3, <2>4, <2>5 DEF Flush, TypeOK
<1>11. CASE Close
  BY <1>1, <1>11 DEF Close, TypeOK
<1>12. ASSUME Gone, hdr' \in Headers \cup {None}, hdr' # None => exists, hdrOk' \in BOOLEAN
       PROVE  TypeInv'
  <2>1. lost' \in BOOLEAN
    BY <1>12 DEF Gone
  <2>2. crashes' \in 0..MaxCrashes
    BY <1>12, Numbers DEF Gone, TypeOK
  <2>3. todo' \in Seq(Item) /\ todo' = <<>>
    BY <1>12 DEF Gone
  <2> QED BY <1>1, <1>12, <2>1, <2>2, <2>3 DEF Gone, TypeOK
<1>13. CASE Crash
  BY <1>12, <1>13 DEF Crash, TypeOK
<1>14. CASE Fail
  BY <1>12, <1>14 DEF Fail, TypeOK
<1> QED BY <1>2, <1>3, <1>4, <1>5, <1>6, <1>7, <1>8, <1>9, <1>10, <1>11, <1>13, <1>14 DEF Recorder, Write

LEMMA TypesKept == TypeInv /\ [Next]_vars => TypeInv'
<1> SUFFICES ASSUME TypeInv, [Next]_vars PROVE TypeInv'
  OBVIOUS
<1>1. CASE Recorder
  BY <1>1, TypesOfTheRecorder
<1>2. ASSUME NEW v \in Viewers, OpenViewer(v) PROVE TypeInv'
  BY <1>2 DEF OpenViewer, TypeInv, TypeOK
<1>3. ASSUME NEW v \in Viewers, CloseViewer(v) PROVE TypeInv'
  BY <1>3 DEF CloseViewer, TypeInv, TypeOK
<1>4. CASE UNCHANGED vars
  BY <1>4 DEF vars, TypeInv, TypeOK
<1> QED BY <1>1, <1>2, <1>3, <1>4 DEF Next

(* The database's state keeps its types: whatever is in the file, reading   *)
(* returns records, and a rotation has records to write.                    *)
THEOREM DatabaseTypes == Spec => []TypeOK
<1>1. TypeInv => TypeOK
  BY DEF TypeInv
<1> QED BY TypesBegin, TypesKept, <1>1, PTL DEF Spec

-----------------------------------------------------------------------------
(* What is to be written, and which header the file has                     *)

\* A record that is checked has not been rotated for; what follows a record that a
\* rotation keeps ends with the one it is for; and a rotation starts a good header.
RotationInv ==
    /\ rpc = "check" => ~todo[1].rotated
    /\ Len(todo) >= 2 => todo[Len(todo)].rotated
    /\ (\E i \in 1..Len(todo) : todo[i].rotated) => memOk

\* While a recorder runs the header in the file, unless a viewer put it back, is the
\* recorder's.  A recorder that started from one put back is known to have.
HeaderInv ==
    /\ rpc = "create" => memOk /\ mem = NoData /\ data = <<>> /\ (hdrOk => hdr = None)
    /\ rpc \notin {"off", "create"} /\ hdrOk /\ hdr # None => memOk /\ hdr = mem
    /\ rpc = "off" => mem = NoData /\ memOk
    /\ rpc # "off" /\ ~memOk => lost

LEMMA RotationBegins == Init => RotationInv
BY DEF Init, RotationInv

LEMMA RotationKept == TypeInv /\ RotationInv /\ [Next]_vars => RotationInv'
<1> SUFFICES ASSUME TypeInv, RotationInv, [Next]_vars PROVE RotationInv'
  OBVIOUS
<1>1. todo \in Seq(Item) /\ Len(todo) \in Nat /\ (todo # <<>> => Len(todo) >= 1 /\ Head(todo) = todo[1])
  BY LenProperties DEF TypeInv, TypeOK
<1>2. /\ rpc \in {"off", "idle"} => todo = <<>>
      /\ rpc \in {"check", "head", "body", "flush"} => todo # <<>>
  BY DEF TypeInv, TypeOK
<1>3. ASSUME todo' = <<>> PROVE ~(\E i \in 1..Len(todo') : todo'[i].rotated) /\ ~(Len(todo') >= 2)
  BY <1>3
<1>4. CASE Create \/ OpenExisting \/ Close \/ Crash \/ Fail
  <2>1. todo' = <<>> /\ rpc' # "check"
    BY <1>2, <1>4 DEF Create, OpenExisting, Close, Crash, Fail, Gone
  <2> QED BY <1>3, <2>1 DEF RotationInv
<1>5. CASE Record
  <2>1. PICK n \in Sizes : todo' = <<[id |-> next, size |-> n, rotated |-> FALSE]>>
    BY <1>5 DEF Record
  <2>2. Len(todo') = 1 /\ todo'[1].rotated = FALSE
    BY <2>1
  <2>3. \A i \in 1..Len(todo') : i = 1
    BY <2>2
  <2> QED BY <2>2, <2>3 DEF RotationInv
<1>6. CASE CreateHeader
  <2>1. rpc' = "check" => todo # <<>> /\ ~Head(todo).rotated
    BY <1>6 DEF CreateHeader, Proceed
  <2> QED BY <1>1, <1>6, <2>1 DEF CreateHeader, RotationInv
<1>7. CASE Check \/ WriteHead \/ WriteBody
  BY <1>7 DEF Check, WriteHead, WriteBody, RotationInv
<1>8. CASE Rotate
  <2> DEFINE kept == Kept(ReadBack(data, mem))
  <2>1. kept \in Seq(Rec) /\ todo # <<>>
    BY <1>2, <1>8, ReadBackTypes, KeptRecords DEF Rotate, TypeInv, TypeOK
  <2>2. todo' = ToWrite(kept, todo)
    BY <1>8 DEF Rotate, ToWrite
  <2> HIDE DEF kept
  <2>3. Len(kept) \in Nat
    BY <2>1, LenProperties
  <2>4. todo'[Len(todo')].rotated
    <3>1. /\ Len(todo') = Len(kept) + Len(todo)
          /\ todo'[Len(kept) + 1] = [id |-> todo[1].id, size |-> todo[1].size, rotated |-> TRUE]
          /\ \A i \in 2..Len(todo) : todo'[Len(kept) + i] = todo[i]
      BY <1>1, <2>1, <2>2, ToWriteIs
    <3>2. CASE Len(todo) = 1
      BY <3>1, <3>2
    <3>3. CASE Len(todo) >= 2
      BY <1>1, <3>1, <3>3 DEF RotationInv
    <3>4. Len(todo) = 1 \/ Len(todo) >= 2
      <4>1. Len(todo) \in Nat /\ Len(todo) # 0
        <5>1. todo \in Seq(Item) /\ todo # <<>>
          BY <1>1, <2>1
        <5> QED BY <5>1, LenProperties, EmptySeq
      <4>2. \A n \in Nat : n = 0 \/ n = 1 \/ n >= 2
        OBVIOUS
      <4> QED BY <4>1, <4>2, Zenon
    <3> QED BY <3>2, <3>3, <3>4
  <2> QED BY <1>8, <2>4 DEF Rotate, RotationInv
<1>9. CASE Flush
  <2>1. todo # <<>> /\ todo' = Tail(todo)
    BY <1>2, <1>9 DEF Flush
  <2>2. Len(todo') = Len(todo) - 1 /\ \A i \in 1..Len(todo') : todo'[i] = todo[i + 1]
    BY <1>1, <2>1, HeadTailProperties
  <2>3. rpc' = "check" => ~todo'[1].rotated
    <3>1. rpc' = "check" => todo' # <<>> /\ ~Head(todo').rotated
      BY <1>9 DEF Flush, Proceed
    <3>2. todo' \in Seq(Item)
      BY <1>1, <2>1, HeadTailProperties
    <3> QED BY <3>1, <3>2
  <2>4. Len(todo') >= 2 => todo'[Len(todo')].rotated
    BY <1>1, <2>2 DEF RotationInv
  <2>5. (\E i \in 1..Len(todo') : todo'[i].rotated) => memOk'
    <3>1. ASSUME NEW i \in 1..Len(todo'), todo'[i].rotated PROVE memOk
      <4>1. i + 1 \in 1..Len(todo) /\ todo[i + 1].rotated
        BY <1>1, <2>2, <3>1
      <4> QED BY <4>1 DEF RotationInv
    <3> QED BY <1>9, <3>1 DEF Flush
  <2> QED BY <2>3, <2>4, <2>5 DEF RotationInv
<1>10. ASSUME NEW v \in Viewers, OpenViewer(v) \/ CloseViewer(v) PROVE RotationInv'
  BY <1>10 DEF OpenViewer, CloseViewer, RotationInv
<1>11. CASE UNCHANGED vars
  BY <1>11 DEF vars, RotationInv
<1> QED BY <1>4, <1>5, <1>6, <1>7, <1>8, <1>9, <1>10, <1>11 DEF Next, Recorder, Write

LEMMA HeaderBegins == Init => HeaderInv
BY DEF Init, HeaderInv

LEMMA HeaderKept == TypeInv /\ HeaderInv /\ [Next]_vars => HeaderInv'
<1> SUFFICES ASSUME TypeInv, HeaderInv, [Next]_vars PROVE HeaderInv'
  OBVIOUS
<1> USE DEF HeaderInv
<1>1. hdr # None => exists
  BY DEF TypeInv, TypeOK
<1>2. CASE Create
  BY <1>1, <1>2 DEF Create
<1>3. CASE OpenExisting
  BY <1>3 DEF OpenExisting
<1>4. CASE Record \/ Check
  BY <1>4 DEF Record, Check
<1>5. CASE CreateHeader
  <2>1. rpc' \in {"idle", "check", "head"}
    BY <1>5, Proceeds DEF CreateHeader
  <2> QED BY <1>5, <2>1 DEF CreateHeader
<1>6. CASE Rotate
  BY <1>6 DEF Rotate
<1>7. CASE WriteHead \/ WriteBody
  BY <1>7 DEF WriteHead, WriteBody
<1>8. CASE Flush
  <2>1. rpc' \in {"idle", "check", "head"}
    BY <1>8, Proceeds DEF Flush
  <2>2. hdr' = mem' /\ hdrOk' = memOk /\ memOk' = memOk /\ lost' = lost /\ rpc # "off"
    BY <1>8 DEF Flush
  <2> QED BY <2>1, <2>2
<1>9. CASE Close \/ Crash \/ Fail
  BY <1>9 DEF Close, Crash, Fail, Gone
<1>10. ASSUME NEW v \in Viewers, OpenViewer(v) PROVE HeaderInv'
  BY <1>10 DEF OpenViewer
<1>11. ASSUME NEW v \in Viewers, CloseViewer(v) PROVE HeaderInv'
  <2>1. hdrOk' => hdrOk /\ hdr' = hdr
    BY <1>11 DEF CloseViewer
  <2>2. UNCHANGED <<data, rpc, mem, memOk, lost>>
    BY <1>11 DEF CloseViewer
  <2> QED BY <2>1, <2>2
<1>12. CASE UNCHANGED vars
  BY <1>12 DEF vars
<1> QED BY <1>2, <1>3, <1>4, <1>5, <1>6, <1>7, <1>8, <1>9, <1>10, <1>11, <1>12 DEF Next, Recorder, Write

-----------------------------------------------------------------------------
(* The data that a header describes                                         *)

LEMMA LaidNone == Laid(<<>>, <<>>, NoData)
<1>1. <<>> \in Seq(Rec) /\ Len(<<>>) = 0
  BY EmptySeq
<1>2. EndOf(<<>>, 0) = 0
  BY DEF EndOf
<1>3. <<>> \in Seq(Cell)
  BY EmptySeq
<1> QED BY <1>1, <1>2, <1>3 DEF Laid, NoData

\* Cells behind the data a header describes are nothing to it.
LEMMA LaidStays ==
    ASSUME NEW d, NEW e, NEW h \in Headers, NEW rs, Laid(d, rs, h),
           Len(e) \in Nat, Len(e) >= h.size, \A i \in 1..h.size : e[i] = d[i]
    PROVE  Laid(e, rs, h)
<1>1. ASSUME NEW i \in 1..Len(rs), NEW j \in 1..rs[i].size
      PROVE  e[rs[i].at + j] = Cells(rs[i])[j]
  <2>1. rs[i] \in Rec /\ EndOf(rs, i) <= h.size /\ d[rs[i].at + j] = Cells(rs[i])[j]
    BY ElementOfSeq DEF Laid
  <2>2. rs[i].size \in Nat /\ rs[i].at \in Nat
    BY <2>1, RecTypes
  <2>3. i # 0
    BY LenProperties DEF Laid
  <2>4. rs[i].at + rs[i].size <= h.size
    BY <2>1, <2>3 DEF EndOf
  <2>5. rs[i].at + j \in 1..h.size
    BY <2>2, <2>4 DEF Headers
  <2> QED BY <2>1, <2>5
<1> QED BY <1>1 DEF Laid

\* The record behind the data is the next that the header may describe.
LEMMA LaidGrows ==
    ASSUME NEW d \in Seq(Cell), NEW h \in Headers, NEW rs, Laid(d, rs, h), NEW r \in Item,
           h.size + r.size <= Len(d), \A j \in 1..r.size : d[h.size + j] = Cells(r)[j]
    PROVE  Laid(d, Append(rs, [id |-> r.id, size |-> r.size, at |-> h.size]),
                [size |-> h.size + r.size, count |-> h.count + 1])
<1> DEFINE n == Len(rs)
           q == [id |-> r.id, size |-> r.size, at |-> h.size]
           g == [size |-> h.size + r.size, count |-> h.count + 1]
<1>1. /\ rs \in Seq(Rec) /\ n \in Nat /\ n = h.count /\ h.size \in Nat
      /\ EndOf(rs, n) = h.size
  BY LenProperties DEF Laid, Headers
<1>2. q \in Rec /\ r.size \in Nat
  BY <1>1, ItemCells DEF Rec
<1>3. q.size = r.size /\ q.id = r.id /\ q.at = h.size /\ g.size = h.size + r.size /\ g.count = n + 1
  BY <1>1
<1>4. Cells(q) = Cells(r)
  BY <1>3, Zenon DEF Cells
<1> HIDE DEF q, g
<1>5. PICK all : all = Append(rs, q)
  OBVIOUS
<1>6. /\ all \in Seq(Rec) /\ Len(all) = n + 1 /\ all[n + 1] = q
      /\ \A i \in 1..n : all[i] = rs[i]
  BY <1>1, <1>2, <1>5, AppendProperties
<1>7. \A i \in 0..n : EndOf(all, i) = EndOf(rs, i)
  BY <1>1, <1>6 DEF EndOf
<1>8. EndOf(all, n + 1) = g.size
  BY <1>1, <1>3, <1>6 DEF EndOf
<1>9. ASSUME NEW i \in 1..n
      PROVE  /\ all[i].at = EndOf(all, i - 1) /\ EndOf(all, i) <= g.size
             /\ \A j \in 1..all[i].size : d[all[i].at + j] = Cells(all[i])[j]
  <2>1. /\ rs[i].at = EndOf(rs, i - 1) /\ EndOf(rs, i) <= h.size
        /\ \A j \in 1..rs[i].size : d[rs[i].at + j] = Cells(rs[i])[j]
    BY DEF Laid
  <2>2. all[i] = rs[i] /\ EndOf(all, i - 1) = EndOf(rs, i - 1) /\ EndOf(all, i) = EndOf(rs, i)
    BY <1>1, <1>6, <1>7
  <2>3. EndOf(rs, i) \in Nat
    <3>1. rs[i] \in Rec /\ i # 0
      BY <1>1, ElementOfSeq
    <3> QED BY <3>1, RecTypes DEF EndOf
  <2> QED BY <1>1, <1>2, <1>3, <2>1, <2>2, <2>3
<1>10. /\ all[n + 1].at = EndOf(all, n) /\ EndOf(all, n + 1) <= g.size
       /\ \A j \in 1..all[n + 1].size : d[all[n + 1].at + j] = Cells(all[n + 1])[j]
  <2>1. EndOf(all, n) = h.size
    BY <1>1, <1>7
  <2> QED BY <1>1, <1>2, <1>3, <1>4, <1>6, <1>8, <2>1
<1>11. \A i \in 1..n + 1 : i \in 1..n \/ (i = n + 1 /\ i - 1 = n)
  BY <1>1
<1>12. \A i \in 1..Len(all) : /\ all[i].at = EndOf(all, i - 1)
                             /\ EndOf(all, i) <= g.size
                             /\ \A j \in 1..all[i].size : d[all[i].at + j] = Cells(all[i])[j]
  <2> SUFFICES ASSUME NEW i \in 1..Len(all)
               PROVE  /\ all[i].at = EndOf(all, i - 1)
                      /\ EndOf(all, i) <= g.size
                      /\ \A j \in 1..all[i].size : d[all[i].at + j] = Cells(all[i])[j]
    OBVIOUS
  <2>1. CASE i \in 1..n
    BY <1>9, <2>1
  <2>2. CASE i = n + 1 /\ i - 1 = n
    BY <1>10, <2>2
  <2> QED BY <1>6, <1>11, <2>1, <2>2
<1>13. Laid(d, all, g)
  BY <1>1, <1>3, <1>6, <1>8, <1>12 DEF Laid
<1> QED BY <1>5, <1>13 DEF q, g

\* What is read back with a header is all it describes.
Whole(d, h) == Laid(d, ReadBack(d, h), h)

LEMMA WholeIfLaid ==
    ASSUME NEW d \in Seq(Cell), NEW h \in Headers, NEW rs, Laid(d, rs, h)
    PROVE  Whole(d, h) /\ ReadBack(d, h) = rs
BY LaidIsRead DEF Whole

LEMMA WholeStays ==
    ASSUME NEW d \in Seq(Cell), NEW h \in Headers, Whole(d, h),
           NEW o \in Nat, o >= h.size, NEW cs \in Seq(Cell)
    PROVE  Whole(Put(d, o, cs), h) /\ ReadBack(Put(d, o, cs), h) = ReadBack(d, h)
<1> DEFINE e == Put(d, o, cs)
<1>1. /\ e \in Seq(Cell) /\ Len(e) >= Len(d)
      /\ \A i \in 1..Len(d) : i <= o => e[i] = d[i]
  BY PutWrites
<1>2. Len(d) \in Nat /\ Len(e) \in Nat /\ h.size \in Nat /\ h.size <= Len(d)
  BY <1>1, LenProperties DEF Whole, Laid, Headers
<1> HIDE DEF e
<1>3. \A i \in 1..h.size : e[i] = d[i]
  BY <1>1, <1>2
<1>4. Laid(e, ReadBack(d, h), h)
  <2>1. PICK rs : rs = ReadBack(d, h)
    OBVIOUS
  <2>2. Laid(d, rs, h)
    BY <2>1 DEF Whole
  <2>3. Len(e) >= h.size
    BY <1>1, <1>2
  <2>4. Laid(e, rs, h)
    BY <1>2, <1>3, <2>2, <2>3, LaidStays
  <2> QED BY <2>1, <2>4
<1> QED BY <1>1, <1>4, WholeIfLaid DEF e

\* While it runs, the recorder's header describes whole records and nothing is behind
\* them but what it is writing; when it ends it leaves such a header.  A header put back
\* by a viewer need not.
LayoutInv ==
    /\ rpc # "off" /\ memOk => Whole(data, mem)
    /\ rpc = "off" /\ hdrOk /\ hdr # None => Whole(data, hdr)
    /\ rpc = "body" /\ memOk =>
          mem.size + 1 <= Len(data) /\ data[mem.size + 1] = Cells(Head(todo))[1]
    /\ rpc = "flush" /\ memOk =>
          /\ mem.size + Head(todo).size <= Len(data)
          /\ \A j \in 1..Head(todo).size : data[mem.size + j] = Cells(Head(todo))[j]

LEMMA LayoutBegins == Init => LayoutInv
BY DEF Init, LayoutInv

LEMMA NothingWritten == Whole(<<>>, NoData) /\ ReadBack(<<>>, NoData) = <<>>
<1>1. <<>> \in Seq(Cell) /\ NoData \in Headers
  BY EmptySeq DEF NoData, Headers
<1> QED BY <1>1, LaidNone, WholeIfLaid

\* What one record's two writes leave, and the header that flush_header then writes.
LEMMA HeadWritten ==
    ASSUME NEW d \in Seq(Cell), NEW h \in Headers, Whole(d, h), NEW r \in Item
    PROVE  LET e == Put(d, h.size, SubSeq(Cells(r), 1, 1))
           IN  /\ Whole(e, h) /\ ReadBack(e, h) = ReadBack(d, h)
               /\ h.size + 1 <= Len(e) /\ e[h.size + 1] = Cells(r)[1]
<1> DEFINE cs == SubSeq(Cells(r), 1, 1)
           e == Put(d, h.size, cs)
<1>1. cs \in Seq(Cell) /\ Len(cs) = 1 /\ cs[1] = Cells(r)[1] /\ h.size \in Nat
  BY FirstCell DEF Headers
<1> HIDE DEF cs
<1>2. /\ Len(e) >= h.size + Len(cs)
      /\ \A i \in 1..Len(cs) : e[h.size + i] = cs[i]
  BY <1>1, PutWrites
<1>3. Whole(e, h) /\ ReadBack(e, h) = ReadBack(d, h)
  BY <1>1, WholeStays
<1>4. Len(e) \in Nat
  BY <1>1, PutWrites, LenProperties
<1> HIDE DEF e
<1>5. h.size + 1 <= Len(e) /\ e[h.size + 1] = Cells(r)[1]
  BY <1>1, <1>2, <1>4
<1> QED BY <1>3, <1>5 DEF e, cs

LEMMA BodyWritten ==
    ASSUME NEW d \in Seq(Cell), NEW h \in Headers, Whole(d, h), NEW r \in Item,
           h.size + 1 <= Len(d), d[h.size + 1] = Cells(r)[1]
    PROVE  LET e == Put(d, h.size + 1, Tail(Cells(r)))
           IN  /\ Whole(e, h) /\ ReadBack(e, h) = ReadBack(d, h)
               /\ h.size + r.size <= Len(e)
               /\ \A j \in 1..r.size : e[h.size + j] = Cells(r)[j]
<1> DEFINE cs == Tail(Cells(r))
           o == h.size + 1
           e == Put(d, o, cs)
<1>1. /\ cs \in Seq(Cell) /\ Len(cs) = r.size - 1 /\ \A j \in 1..r.size - 1 : cs[j] = Cells(r)[j + 1]
      /\ h.size \in Nat /\ r.size \in Nat /\ r.size >= 1 /\ Len(d) \in Nat
  BY OtherCells, ItemCells, LenProperties DEF Headers
<1> HIDE DEF cs
<1>2. /\ e \in Seq(Cell) /\ Len(e) >= o + Len(cs)
      /\ \A i \in 1..Len(d) : i <= o => e[i] = d[i]
      /\ \A i \in 1..Len(cs) : e[o + i] = cs[i]
  <2>1. o \in Nat
    BY <1>1
  <2> HIDE DEF o
  <2> QED BY <1>1, <2>1, PutWrites
<1>3. Whole(e, h) /\ ReadBack(e, h) = ReadBack(d, h)
  <2>1. o \in Nat /\ o >= h.size
    BY <1>1
  <2> HIDE DEF o
  <2> QED BY <1>1, <2>1, WholeStays
<1>4. Len(e) \in Nat
  BY <1>2, LenProperties
<1> HIDE DEF e
<1>5. h.size + r.size <= Len(e)
  BY <1>1, <1>2, <1>4
<1>6. ASSUME NEW j \in 1..r.size PROVE e[h.size + j] = Cells(r)[j]
  <2>1. CASE j = 1
    BY <1>1, <1>2, <2>1
  <2>2. CASE j # 1
    <3>1. r.size \in Nat /\ h.size \in Nat
      BY <1>1
    <3>2. \A m, n \in Nat : \A i \in 1..m : i # 1 =>
              i - 1 \in 1..m - 1 /\ (i - 1) + 1 = i /\ (n + 1) + (i - 1) = n + i
      OBVIOUS
    <3>3. j - 1 \in 1..r.size - 1 /\ (j - 1) + 1 = j /\ o + (j - 1) = h.size + j
      BY <2>2, <3>1, <3>2, Zenon
    <3> QED BY <1>1, <1>2, <3>3
  <2> QED BY <2>1, <2>2
<1> QED BY <1>3, <1>5, <1>6 DEF e, o, cs

LEMMA RecordDescribed ==
    ASSUME NEW d \in Seq(Cell), NEW h \in Headers, Whole(d, h), NEW r \in Item,
           h.size + r.size <= Len(d), \A j \in 1..r.size : d[h.size + j] = Cells(r)[j],
           NEW g, g = [size |-> h.size + r.size, count |-> h.count + 1]
    PROVE  /\ g \in Headers /\ Whole(d, g)
           /\ ReadBack(d, g) = Append(ReadBack(d, h), [id |-> r.id, size |-> r.size, at |-> h.size])
<1>1. g \in Headers
  BY ItemCells DEF Headers
<1>2. PICK rs : rs = ReadBack(d, h)
  OBVIOUS
<1>3. Laid(d, rs, h)
  BY <1>2 DEF Whole
<1>4. Laid(d, Append(rs, [id |-> r.id, size |-> r.size, at |-> h.size]), g)
  BY <1>3, LaidGrows
<1> QED BY <1>1, <1>2, <1>4, WholeIfLaid

LEMMA LayoutKept == TypeInv /\ RotationInv /\ HeaderInv /\ LayoutInv /\ [Next]_vars => LayoutInv'
<1> SUFFICES ASSUME TypeInv, RotationInv, HeaderInv, LayoutInv, [Next]_vars PROVE LayoutInv'
  OBVIOUS
<1>1. /\ data \in Seq(Cell) /\ mem \in Headers
      /\ rpc \in {"check", "head", "body", "flush"} => Head(todo) \in Item
  BY HeadTailProperties DEF TypeInv, TypeOK
<1>2. CASE Create
  BY <1>2, NothingWritten DEF Create, LayoutInv
<1>3. CASE OpenExisting
  BY <1>3 DEF OpenExisting, LayoutInv
<1>4. CASE Record \/ Check
  BY <1>4 DEF Record, Check, LayoutInv
<1>5. CASE CreateHeader
  <2>1. rpc' \in {"idle", "check", "head"}
    BY <1>5, Proceeds DEF CreateHeader
  <2> QED BY <1>5, <2>1 DEF CreateHeader, LayoutInv
<1>6. CASE Rotate
  BY <1>6, NothingWritten DEF Rotate, LayoutInv
<1>7. CASE WriteHead
  <2>1. /\ rpc = "head" /\ rpc' = "body" /\ UNCHANGED <<mem, memOk, todo>>
        /\ data' = Put(data, mem.size, SubSeq(Cells(Head(todo)), 1, 1))
    BY <1>7 DEF WriteHead, EndOfData
  <2>2. memOk => /\ Whole(data', mem)
                 /\ mem.size + 1 <= Len(data') /\ data'[mem.size + 1] = Cells(Head(todo))[1]
    BY <1>1, <2>1, HeadWritten DEF LayoutInv
  <2> QED BY <2>1, <2>2 DEF LayoutInv
<1>8. CASE WriteBody
  <2>1. /\ rpc = "body" /\ rpc' = "flush" /\ UNCHANGED <<mem, memOk, todo>>
        /\ data' = Put(data, mem.size + 1, Tail(Cells(Head(todo))))
    BY <1>8 DEF WriteBody, EndOfData
  <2>2. memOk => /\ Whole(data', mem)
                 /\ mem.size + Head(todo).size <= Len(data')
                 /\ \A j \in 1..Head(todo).size : data'[mem.size + j] = Cells(Head(todo))[j]
    BY <1>1, <2>1, BodyWritten DEF LayoutInv
  <2> QED BY <2>1, <2>2 DEF LayoutInv
<1>9. CASE Flush
  <2>1. rpc' \in {"idle", "check", "head"}
    BY <1>9, Proceeds DEF Flush
  <2>2. /\ rpc = "flush" /\ UNCHANGED <<data, memOk>>
        /\ mem' = [size |-> mem.size + Head(todo).size, count |-> mem.count + 1]
    BY <1>9 DEF Flush
  <2>3. memOk => Whole(data, mem')
    BY <1>1, <2>2, RecordDescribed DEF LayoutInv
  <2> QED BY <2>1, <2>2, <2>3 DEF LayoutInv
<1>10. CASE Close
  <2>1. rpc = "idle" /\ rpc' = "off" /\ data' = data /\ hdr' = mem /\ hdrOk' = memOk
    BY <1>10 DEF Close
  <2> QED BY <2>1 DEF LayoutInv
<1>11. CASE Crash
  <2>1. rpc # "off" /\ rpc' = "off" /\ data' = data /\ hdr' = hdr /\ hdrOk' = hdrOk
    BY <1>11 DEF Crash, Gone
  <2>2. hdrOk /\ hdr # None => memOk /\ hdr = mem
    BY <2>1 DEF HeaderInv
  <2> QED BY <2>1, <2>2 DEF LayoutInv
<1>12. CASE Fail
  <2>1. rpc # "off" /\ rpc' = "off" /\ data' = data /\ hdr' = mem /\ hdrOk' = memOk
    BY <1>12 DEF Fail, Gone
  <2> QED BY <2>1 DEF LayoutInv
<1>13. ASSUME NEW v \in Viewers, OpenViewer(v) PROVE LayoutInv'
  BY <1>13 DEF OpenViewer, LayoutInv
<1>14. ASSUME NEW v \in Viewers, CloseViewer(v) PROVE LayoutInv'
  <2>1. hdrOk' => hdrOk /\ hdr' = hdr
    BY <1>14 DEF CloseViewer
  <2>2. UNCHANGED <<data, rpc, mem, memOk, todo>>
    BY <1>14 DEF CloseViewer
  <2> QED BY <2>1, <2>2 DEF LayoutInv
<1>15. CASE UNCHANGED vars
  BY <1>15 DEF vars, LayoutInv
<1> QED BY <1>2, <1>3, <1>4, <1>5, <1>6, <1>7, <1>8, <1>9, <1>10, <1>11, <1>12, <1>13, <1>14, <1>15
        DEF Next, Recorder, Write

LEMMA LayoutAlways == Spec => [](TypeInv /\ RotationInv /\ HeaderInv /\ LayoutInv)
BY TypesBegin, RotationBegins, HeaderBegins, LayoutBegins,
   TypesKept, RotationKept, HeaderKept, LayoutKept, PTL DEF Spec

\* The header in the file, when none was put back, is whole.
LEMMA HeaderWhole ==
    ASSUME HeaderInv, LayoutInv, hdr # None, hdrOk PROVE Whole(data, hdr)
<1>1. rpc # "create"
  BY DEF HeaderInv
<1> QED BY <1>1 DEF HeaderInv, LayoutInv

(* A recorder may end in a record, between its head and its body, or in a   *)
(* rotation: the header in the file describes whole records, one behind the *)
(* other, and counts them.                                                  *)
THEOREM HeadersDescribeRecords == Spec => []HeaderDescribesRecords
<1>1. ASSUME NEW d, NEW h, Whole(d, h) PROVE Describes(d, h)
  <2>1. PICK rs : rs = ReadBack(d, h)
    OBVIOUS
  <2>2. Laid(d, rs, h)
    BY <1>1, <2>1 DEF Whole
  <2>3. /\ Len(rs) = h.count /\ EndOf(rs, Len(rs)) = h.size
        /\ \A i \in DOMAIN rs : rs[i].at = EndOf(rs, i - 1)
    BY <2>2, LenProperties DEF Laid
  <2> QED BY <2>1, <2>3 DEF Describes
<1>2. HeaderInv /\ LayoutInv => HeaderDescribesRecords
  BY <1>1, HeaderWhole DEF HeaderDescribesRecords
<1> QED BY LayoutAlways, <1>2, PTL

-----------------------------------------------------------------------------
(* Which records are there                                                  *)

\* The records written and those still to be written are consecutive, up to `last`.
Chain(rs, td, last) ==
    /\ \A i \in 1..Len(rs) : rs[i].id + (Len(rs) + Len(td)) = last + i
    /\ \A i \in 1..Len(td) : td[i].id + Len(td) = last + i

Last == IF todo = <<>> THEN next - 1 ELSE next

ChainInv ==
    /\ rpc # "off" /\ ~lost => Chain(ReadBack(data, mem), todo, Last)
    /\ rpc = "off" /\ ~lost /\ hdrOk /\ hdr # None => Chain(ReadBack(data, hdr), <<>>, next - 1)

LEMMA ChainBegins == Init => ChainInv
BY DEF Init, ChainInv

\* A record is accepted to be written.
LEMMA ChainExtended ==
    ASSUME NEW rs \in Seq(Rec), NEW n \in Nat, NEW r, r.id = n, Chain(rs, <<>>, n - 1)
    PROVE  Chain(rs, <<r>>, n)
<1>1. Len(rs) \in Nat /\ \A i \in 1..Len(rs) : rs[i].id \in Nat
  <2>1. \A i \in 1..Len(rs) : rs[i] \in Rec
    BY ElementOfSeq
  <2> QED BY <2>1, LenProperties, RecTypes, Numbers
<1>2. \A i \in 1..Len(rs) : rs[i].id + Len(rs) = (n - 1) + i
  BY <1>1 DEF Chain
<1>3. ASSUME NEW i \in 1..Len(rs) PROVE rs[i].id + (Len(rs) + 1) = n + i
  <2>1. PICK x, l : x = rs[i].id /\ l = Len(rs)
    OBVIOUS
  <2>2. x \in Nat /\ l \in Nat /\ i \in 1..l /\ x + l = (n - 1) + i
    BY <1>1, <1>2, <2>1
  <2> QED BY <2>1, <2>2
<1>4. Len(<<r>>) = 1 /\ <<r>>[1] = r
  OBVIOUS
<1>5. \A i \in 1..1 : i = 1
  OBVIOUS
<1>6. \A i \in 1..1 : <<r>>[i].id + 1 = n + i
  BY <1>4, <1>5
<1> QED BY <1>3, <1>4, <1>6, Zenon DEF Chain

\* It need not be written.
LEMMA ChainShortened ==
    ASSUME NEW rs \in Seq(Rec), NEW n \in Nat, NEW td, Len(td) = 1, Chain(rs, td, n)
    PROVE  Chain(rs, <<>>, n - 1)
<1>1. Len(rs) \in Nat /\ \A i \in 1..Len(rs) : rs[i].id \in Nat
  <2>1. \A i \in 1..Len(rs) : rs[i] \in Rec
    BY ElementOfSeq
  <2> QED BY <2>1, LenProperties, RecTypes, Numbers
<1>2. \A i \in 1..Len(rs) : rs[i].id + (Len(rs) + 1) = n + i
  BY DEF Chain
<1>3. ASSUME NEW i \in 1..Len(rs) PROVE rs[i].id + (Len(rs) + 0) = (n - 1) + i
  <2>1. PICK x, l : x = rs[i].id /\ l = Len(rs)
    OBVIOUS
  <2>2. x \in Nat /\ l \in Nat /\ i \in 1..l /\ x + (l + 1) = n + i
    BY <1>1, <1>2, <2>1
  <2> QED BY <2>1, <2>2
<1> QED BY <1>3 DEF Chain

\* The first that is to be written has been.
LEMMA ChainWritten ==
    ASSUME NEW rs \in Seq(Rec), NEW td \in Seq(Item), td # <<>>, NEW last \in Nat,
           Chain(rs, td, last), NEW q \in Rec, q.id = Head(td).id
    PROVE  Chain(Append(rs, q), Tail(td), last)
<1> DEFINE n == Len(rs)
           t == Len(td)
<1>1. n \in Nat /\ t \in Nat /\ t >= 1 /\ q.id = td[1].id
  <2>1. Len(td) \in Nat /\ Len(td) # 0
    BY LenProperties, EmptySeq
  <2> QED BY <2>1, LenProperties
<1>2. PICK ws : ws = Append(rs, q)
  OBVIOUS
<1>3. PICK tl : tl = Tail(td)
  OBVIOUS
<1>4. Len(ws) = n + 1 /\ ws[n + 1] = q /\ \A i \in 1..n : ws[i] = rs[i]
  BY <1>2, AppendProperties
<1>5. Len(tl) = t - 1 /\ \A i \in 1..t - 1 : tl[i] = td[i + 1]
  BY <1>3, HeadTailProperties
<1>6. /\ \A i \in 1..n : rs[i].id + (n + t) = last + i
      /\ \A i \in 1..t : td[i].id + t = last + i
  BY DEF Chain
<1>7. q.id \in Nat /\ q.id + t = last + 1
  BY <1>1, <1>6, RecTypes, Numbers
<1> HIDE DEF n, t
<1>8. \A i \in 1..n + 1 : i \in 1..n \/ i = n + 1
  BY <1>1
<1>9. (n + 1) + (t - 1) = n + t /\ q.id + (n + t) = last + (n + 1)
  <2>1. PICK x : x = q.id
    OBVIOUS
  <2>2. x \in Nat /\ x + t = last + 1
    BY <1>7, <2>1
  <2>3. n \in Nat /\ t \in Nat
    BY <1>1
  <2>4. (n + 1) + (t - 1) = n + t /\ x + (n + t) = last + (n + 1)
    BY <2>2, <2>3
  <2> QED BY <2>1, <2>4, Zenon
<1>10. \A i \in 1..n + 1 : ws[i].id + ((n + 1) + (t - 1)) = last + i
  BY <1>4, <1>6, <1>8, <1>9, Zenon
<1>11. ASSUME NEW i \in 1..t - 1 PROVE tl[i].id + (t - 1) = last + i
  <2>1. i + 1 \in 1..t /\ td[i + 1].id \in Nat
    <3>1. i + 1 \in 1..t
      BY <1>1
    <3>2. td[i + 1] \in Item
      BY <3>1, ElementOfSeq DEF t
    <3> QED BY <3>1, <3>2, ItemCells, Numbers
  <2>2. td[i + 1].id + t = last + (i + 1)
    BY <1>6, <2>1
  <2>3. td[i + 1].id + (t - 1) = last + i
    BY <1>1, <2>1, <2>2
  <2> QED BY <1>5, <2>3
<1>12. Chain(ws, tl, last)
  BY <1>4, <1>5, <1>10, <1>11, Zenon DEF Chain
<1> QED BY <1>2, <1>3, <1>12

\* The oldest half is not kept.
LEMMA ChainRotated ==
    ASSUME NEW rs \in Seq(Rec), NEW td \in Seq(Item), td # <<>>, NEW last \in Nat,
           Chain(rs, td, last)
    PROVE  Chain(<<>>, ToWrite(Kept(rs), td), last)
<1> DEFINE n == Len(rs)
           t == Len(td)
           k == Len(rs) \div 2
<1>1. n \in Nat /\ t \in Nat /\ t >= 1 /\ k \in Nat /\ k <= n
  <2>1. Len(td) \in Nat /\ Len(td) # 0
    BY LenProperties, EmptySeq
  <2>2. Len(rs) \in Nat
    BY LenProperties
  <2> QED BY <2>1, <2>2
<1>2. PICK kept : kept = Kept(rs)
  OBVIOUS
<1>3. kept \in Seq(Rec) /\ Len(kept) = k /\ \A i \in 1..k : kept[i] = rs[n - k + i]
  BY <1>2, KeptRecords
<1>4. PICK all : all = ToWrite(kept, td)
  OBVIOUS
<1>5. /\ all \in Seq(Item)
      /\ Len(all) = k + t
      /\ \A i \in 1..k : all[i] = [id |-> kept[i].id, size |-> kept[i].size, rotated |-> FALSE]
      /\ all[k + 1] = [id |-> td[1].id, size |-> td[1].size, rotated |-> TRUE]
      /\ \A i \in 2..t : all[k + i] = td[i]
  <2>1. /\ all \in Seq(Item)
        /\ Len(all) = Len(kept) + Len(td)
        /\ \A i \in 1..Len(kept) :
              all[i] = [id |-> kept[i].id, size |-> kept[i].size, rotated |-> FALSE]
        /\ all[Len(kept) + 1] = [id |-> td[1].id, size |-> td[1].size, rotated |-> TRUE]
        /\ \A i \in 2..Len(td) : all[Len(kept) + i] = td[i]
    <3>1. kept \in Seq(Rec)
      BY <1>3
    <3> QED BY <1>4, <3>1, ToWriteIs
  <2>2. Len(kept) = k
    BY <1>3
  <2> HIDE DEF k
  <2> QED BY <2>1, <2>2
<1>6. /\ \A i \in 1..n : rs[i].id + (n + t) = last + i
      /\ \A i \in 1..t : td[i].id + t = last + i
  BY DEF Chain
<1>7. /\ \A i \in 1..n : rs[i].id \in Nat
      /\ \A i \in 1..t : td[i].id \in Nat
  <2>1. \A i \in 1..n : rs[i] \in Rec
    BY ElementOfSeq
  <2>2. \A i \in 1..t : td[i] \in Item
    BY ElementOfSeq
  <2>3. \A r \in Rec : r.id \in Nat
    BY RecTypes, Numbers
  <2>4. \A r \in Item : r.id \in Nat
    BY ItemCells, Numbers
  <2> QED BY <2>1, <2>2, <2>3, <2>4
<1> HIDE DEF n, t, k
<1>8. ASSUME NEW i \in 1..k PROVE all[i].id + (k + t) = last + i
  <2>1. n - k + i \in 1..n
    BY <1>1
  <2>2. all[i].id = rs[n - k + i].id
    <3>1. kept[i] = rs[n - k + i] /\ all[i] = [id |-> kept[i].id, size |-> kept[i].size, rotated |-> FALSE]
      BY <1>3, <1>5
    <3>2. all[i].id = kept[i].id
      BY <3>1
    <3> QED BY <3>1, <3>2
  <2>3. PICK x : x = rs[n - k + i].id
    OBVIOUS
  <2>4. x \in Nat /\ x + (n + t) = last + (n - k + i)
    BY <1>6, <1>7, <2>1, <2>3
  <2>5. x + (k + t) = last + i
    BY <1>1, <2>4
  <2> QED BY <2>2, <2>3, <2>5
<1>9. ASSUME NEW i \in 1..t PROVE all[k + i].id + (k + t) = last + (k + i)
  <2>1. all[k + i].id = td[i].id
    <3>1. CASE i = 1
      BY <1>5, <3>1
    <3>2. CASE i # 1
      <4>1. i \in 2..t
        BY <1>1, <3>2
      <4> QED BY <1>5, <4>1
    <3> QED BY <3>1, <3>2
  <2>2. PICK x : x = td[i].id
    OBVIOUS
  <2>3. x \in Nat /\ x + t = last + i
    BY <1>6, <1>7, <2>2
  <2>4. x + (k + t) = last + (k + i)
    BY <1>1, <2>3
  <2> QED BY <2>1, <2>2, <2>4
<1>10. \A i \in 1..k + t : i \in 1..k \/ \E j \in 1..t : i = k + j
  <2> SUFFICES ASSUME NEW i \in 1..k + t, i \notin 1..k PROVE \E j \in 1..t : i = k + j
    OBVIOUS
  <2>1. i - k \in 1..t /\ i = k + (i - k)
    BY <1>1
  <2> QED BY <2>1
<1>11. \A i \in 1..k + t : all[i].id + (k + t) = last + i
  BY <1>8, <1>9, <1>10, Zenon
<1>12. \A i \in 1..Len(<<>>) : FALSE
  OBVIOUS
<1>13. Chain(<<>>, all, last)
  BY <1>5, <1>11, <1>12, Zenon DEF Chain
<1> QED BY <1>2, <1>4, <1>13

LEMMA ChainKept ==
    TypeInv /\ RotationInv /\ HeaderInv /\ LayoutInv /\ ChainInv /\ [Next]_vars => ChainInv'
<1> SUFFICES ASSUME TypeInv, RotationInv, HeaderInv, LayoutInv, ChainInv, [Next]_vars
             PROVE  ChainInv'
  OBVIOUS
<1>1. /\ data \in Seq(Cell) /\ mem \in Headers /\ todo \in Seq(Item)
      /\ rpc \in {"off", "idle"} => todo = <<>>
      /\ rpc \in {"check", "head", "body", "flush"} => todo # <<>> /\ Head(todo) \in Item
      /\ todo # <<>> => Last = next
      /\ todo = <<>> => Last = next - 1
  BY HeadTailProperties DEF TypeInv, TypeOK, Last
<1>2. ReadBack(data, mem) \in Seq(Rec) /\ next \in Nat
  BY <1>1, ReadBackTypes, Numbers DEF TypeInv, TypeOK
<1>3. rpc # "off" /\ ~memOk => lost
  BY DEF HeaderInv
<1>4. CASE Create
  <2>1. /\ rpc' # "off" /\ todo' = <<>> /\ ReadBack(data', mem') = <<>>
    BY <1>1, <1>4, NothingWritten DEF Create
  <2> QED BY <2>1 DEF ChainInv, Chain
<1>5. CASE OpenExisting
  <2>1. /\ rpc = "off" /\ rpc' # "off" /\ hdr # None /\ (~lost' => ~lost /\ hdrOk)
        /\ todo' = <<>> /\ next' = next /\ data' = data /\ mem' = hdr
    BY <1>1, <1>5 DEF OpenExisting
  <2>2. Last' = next - 1
    BY <2>1 DEF Last
  <2>3. ~lost' => Chain(ReadBack(data, hdr), <<>>, next - 1)
    BY <2>1 DEF ChainInv
  <2> QED BY <2>1, <2>2, <2>3 DEF ChainInv
<1>6. CASE Record
  <2>1. PICK n \in Sizes : todo' = <<[id |-> next, size |-> n, rotated |-> FALSE]>>
    BY <1>6 DEF Record
  <2>2. rpc = "idle" /\ rpc' = "check" /\ UNCHANGED <<data, mem, next, lost>>
    BY <1>6 DEF Record
  <2>3. PICK r : r = [id |-> next, size |-> n, rotated |-> FALSE]
    OBVIOUS
  <2>4. todo' = <<r>> /\ r.id = next /\ todo' # <<>>
    BY <2>1, <2>3
  <2>5. Last' = next
    BY <2>2, <2>4 DEF Last
  <2>6. ~lost => Chain(ReadBack(data, mem), <<>>, next - 1)
    BY <1>1, <2>2 DEF ChainInv
  <2>7. ~lost => Chain(ReadBack(data, mem), <<r>>, next)
    BY <1>2, <2>4, <2>6, ChainExtended
  <2> QED BY <2>2, <2>4, <2>5, <2>7 DEF ChainInv
<1>7. CASE CreateHeader
  <2>1. rpc = "create" /\ rpc' # "off" /\ UNCHANGED <<data, mem, todo, next, lost>>
    BY <1>7, Proceeds DEF CreateHeader
  <2> QED BY <2>1 DEF ChainInv, Last
<1>8. CASE Check
  <2>1. rpc # "off" /\ rpc' # "off" /\ UNCHANGED <<data, mem, todo, next, lost>>
    BY <1>8 DEF Check
  <2> QED BY <2>1 DEF ChainInv, Last
<1>9. CASE Rotate
  <2>1. /\ rpc = "check" /\ rpc' # "off" /\ data' = <<>> /\ mem' = NoData
        /\ UNCHANGED <<next, lost>>
        /\ todo' = ToWrite(Kept(ReadBack(data, mem)), todo)
    BY <1>9 DEF Rotate, ToWrite
  <2>2. ReadBack(data', mem') = <<>>
    BY <2>1, NothingWritten
  <2>3. todo' # <<>>
    <3>1. PICK kept : kept = Kept(ReadBack(data, mem))
      OBVIOUS
    <3>2. kept \in Seq(Rec)
      BY <1>2, <3>1, KeptRecords
    <3>3. Len(todo') = Len(kept) + Len(todo)
      BY <1>1, <2>1, <3>1, <3>2, ToWriteIs
    <3>4. Len(kept) \in Nat /\ Len(todo) \in Nat /\ Len(todo) # 0
      BY <1>1, <2>1, <3>2, LenProperties, EmptySeq
    <3>5. Len(todo') # 0
      BY <3>3, <3>4
    <3> QED BY <3>5
  <2>4. Last = next /\ Last' = next
    BY <1>1, <2>1, <2>3 DEF Last
  <2>5. ~lost => Chain(<<>>, todo', next)
    <3>1. ~lost => Chain(ReadBack(data, mem), todo, next)
      BY <2>1, <2>4 DEF ChainInv
    <3> QED BY <1>1, <1>2, <2>1, <3>1, ChainRotated
  <2> QED BY <2>1, <2>2, <2>4, <2>5 DEF ChainInv
<1>10. CASE WriteHead
  <2>1. /\ rpc = "head" /\ rpc' = "body" /\ UNCHANGED <<mem, todo, next, lost>>
        /\ data' = Put(data, mem.size, SubSeq(Cells(Head(todo)), 1, 1))
    BY <1>10 DEF WriteHead, EndOfData
  <2>2. ~lost => ReadBack(data', mem) = ReadBack(data, mem)
    BY <1>1, <1>3, <2>1, HeadWritten DEF LayoutInv
  <2> QED BY <2>1, <2>2 DEF ChainInv, Last
<1>11. CASE WriteBody
  <2>1. /\ rpc = "body" /\ rpc' = "flush" /\ UNCHANGED <<mem, todo, next, lost>>
        /\ data' = Put(data, mem.size + 1, Tail(Cells(Head(todo))))
    BY <1>11 DEF WriteBody, EndOfData
  <2>2. ~lost => ReadBack(data', mem) = ReadBack(data, mem)
    BY <1>1, <1>3, <2>1, BodyWritten DEF LayoutInv
  <2> QED BY <2>1, <2>2 DEF ChainInv, Last
<1>12. CASE Flush
  <2> DEFINE q == [id |-> Head(todo).id, size |-> Head(todo).size, at |-> mem.size]
  <2>1. /\ rpc = "flush" /\ rpc' # "off" /\ todo # <<>> /\ UNCHANGED <<data, lost>>
        /\ mem' = [size |-> mem.size + Head(todo).size, count |-> mem.count + 1]
        /\ todo' = Tail(todo)
    BY <1>1, <1>12, Proceeds DEF Flush
  <2>2. ~lost => ReadBack(data, mem') = Append(ReadBack(data, mem), q)
    BY <1>1, <1>3, <2>1, RecordDescribed DEF LayoutInv
  <2>3. q \in Rec /\ q.id = Head(todo).id
    BY <1>1, <2>1, ItemCells DEF Rec, Headers
  <2> HIDE DEF q
  <2>4. Last' = next /\ Last = next
    <3>1. todo' = <<>> => next' = next + 1
      BY <1>12 DEF Flush
    <3>2. todo' # <<>> => next' = next
      BY <1>12 DEF Flush
    <3>3. (next + 1) - 1 = next
      BY <1>2
    <3>4. Last' = IF todo' = <<>> THEN next' - 1 ELSE next'
      BY DEF Last
    <3> QED BY <1>1, <2>1, <3>1, <3>2, <3>3, <3>4
  <2>5. ~lost => Chain(Append(ReadBack(data, mem), q), Tail(todo), next)
    <3>1. ~lost => Chain(ReadBack(data, mem), todo, next)
      BY <2>1, <2>4 DEF ChainInv
    <3> QED BY <1>1, <1>2, <2>1, <2>3, <3>1, ChainWritten
  <2> QED BY <2>1, <2>2, <2>4, <2>5 DEF ChainInv
<1>13. ASSUME rpc # "off", rpc' = "off", UNCHANGED <<data, next>>,
              lost' = (lost \/ \E i \in DOMAIN todo : todo[i].rotated),
              hdrOk' /\ hdr' # None => hdr' = mem
       PROVE  ChainInv'
  <2>1. SUFFICES ASSUME ~lost', hdrOk', hdr' # None
                 PROVE  Chain(ReadBack(data, mem), <<>>, next - 1)
    BY <1>13 DEF ChainInv
  <2>2. ~lost /\ Chain(ReadBack(data, mem), todo, Last)
    BY <1>13, <2>1 DEF ChainInv
  <2>3. Len(todo) \in Nat /\ DOMAIN todo = 1..Len(todo) /\ (Len(todo) = 0 => todo = <<>>)
    BY <1>1, LenProperties, EmptySeq
  <2>4. ~(Len(todo) >= 2)
    <3>1. ~\E i \in DOMAIN todo : todo[i].rotated
      BY <1>13, <2>1, Zenon
    <3>2. Len(todo) >= 2 => Len(todo) \in DOMAIN todo
      BY <2>3
    <3>3. Len(todo) >= 2 => todo[Len(todo)].rotated
      BY DEF RotationInv
    <3> QED BY <3>1, <3>2, <3>3, Zenon
  <2>5. CASE todo = <<>>
    BY <1>1, <2>2, <2>5
  <2>6. CASE todo # <<>>
    <3>1. Len(todo) = 1
      BY <2>3, <2>4, <2>6
    <3> QED BY <1>1, <1>2, <2>2, <2>6, <3>1, ChainShortened
  <2> QED BY <2>5, <2>6
<1>14. CASE Close
  <2>1. rpc = "idle" /\ rpc' = "off" /\ UNCHANGED <<data, next, lost>> /\ hdr' = mem
    BY <1>14 DEF Close
  <2>2. todo = <<>>
    BY <1>1, <2>1
  <2>3. ~lost => Chain(ReadBack(data, mem), <<>>, next - 1)
    BY <1>1, <2>1, <2>2 DEF ChainInv
  <2> QED BY <2>1, <2>3 DEF ChainInv
<1>15. CASE Crash
  <2>1. hdrOk' /\ hdr' # None => hdr' = mem
    BY <1>15 DEF Crash, Gone, HeaderInv
  <2> QED BY <1>13, <1>15, <2>1 DEF Crash, Gone
<1>16. CASE Fail
  BY <1>13, <1>16 DEF Fail, Gone
<1>17. ASSUME NEW v \in Viewers, OpenViewer(v) PROVE ChainInv'
  BY <1>17 DEF OpenViewer, ChainInv, Last
<1>18. ASSUME NEW v \in Viewers, CloseViewer(v) PROVE ChainInv'
  <2>1. /\ hdrOk' => hdrOk /\ hdr' = hdr
        /\ UNCHANGED <<data, rpc, mem, todo, next, lost>>
    BY <1>18 DEF CloseViewer
  <2> QED BY <2>1 DEF ChainInv, Last
<1>19. CASE UNCHANGED vars
  BY <1>19 DEF vars, ChainInv, Last
<1> QED BY <1>4, <1>5, <1>6, <1>7, <1>8, <1>9, <1>10, <1>11, <1>12, <1>14, <1>15, <1>16, <1>17, <1>18,
           <1>19
        DEF Next, Recorder, Write

(* A rotation, also one inside another, removes the oldest: outside one,    *)
(* what the file holds is consecutive and ends with the record accepted     *)
(* last, after any number of rotations, restarts and crashes outside them.  *)
THEOREM RotationsRemoveTheOldest == Spec => []OnlyTheOldestGo
<1>1. TypeInv /\ RotationInv /\ HeaderInv /\ ChainInv => OnlyTheOldestGo
  <2> SUFFICES ASSUME TypeInv, RotationInv, HeaderInv, ChainInv, Settled, hdr # None, hdrOk, ~lost
               PROVE  \A i \in DOMAIN ReadBack(data, hdr) :
                          ReadBack(data, hdr)[i].id + Len(ReadBack(data, hdr)) = next - 1 + i
    BY DEF OnlyTheOldestGo
  <2>1. data \in Seq(Cell) /\ hdr \in Headers /\ next \in Nat /\ todo \in Seq(Item)
    BY Numbers DEF TypeInv, TypeOK
  <2>2. PICK rs : rs = ReadBack(data, hdr)
    OBVIOUS
  <2>3. rs \in Seq(Rec) /\ DOMAIN rs = 1..Len(rs) /\ Len(rs) \in Nat
    BY <2>1, <2>2, ReadBackTypes, LenProperties
  <2>4. Chain(rs, <<>>, next - 1)
    <3>1. CASE rpc = "off"
      BY <2>2, <3>1 DEF ChainInv
    <3>2. CASE rpc # "off"
      <4>1. hdr = mem
        BY <3>2 DEF HeaderInv, Settled
      <4>2. Chain(rs, todo, Last)
        BY <2>2, <3>2, <4>1 DEF ChainInv
      <4>3. Len(todo) \in Nat /\ DOMAIN todo = 1..Len(todo) /\ (Len(todo) = 0 => todo = <<>>)
        BY <2>1, LenProperties, EmptySeq
      <4>4. ~(Len(todo) >= 2)
        BY <4>3 DEF RotationInv, Settled
      <4>5. CASE todo = <<>>
        BY <4>2, <4>5 DEF Last
      <4>6. CASE todo # <<>>
        <5>1. Len(todo) = 1
          BY <4>3, <4>4, <4>6
        <5>2. Last = next
          BY <4>6 DEF Last
        <5> QED BY <2>1, <2>3, <4>2, <5>1, <5>2, ChainShortened
      <4> QED BY <4>5, <4>6
    <3> QED BY <3>1, <3>2
  <2>5. \A i \in 1..Len(rs) : rs[i].id + (Len(rs) + 0) = next - 1 + i
    <3>1. Len(<<>>) = 0
      OBVIOUS
    <3> QED BY <2>4, <3>1, Zenon DEF Chain
  <2>6. Len(rs) + 0 = Len(rs)
    BY <2>3
  <2> QED BY <2>2, <2>3, <2>5, <2>6
<1> QED BY LayoutAlways, ChainBegins, ChainKept, <1>1, PTL DEF Spec

-----------------------------------------------------------------------------
(* Powers of two                                                            *)

\* 2^u
TwoTo[u \in Nat] == IF u = 0 THEN 1 ELSE 2 * TwoTo[u - 1]

(* For any sizes: where rotations nest, one record that is not checked again *)
(* follows another (write_record, rotate).  Each rotation inside            *)
(* another halves what is kept once more, so that their number, and with it *)
(* the excess over the maximum, is logarithmic: if u records beyond the     *)
(* maximum cannot be halved u times, there are never more than u.           *)
SizeNearLimit ==
    \A u \in 1..MaxRecords, n \in Sizes :
        (\A s \in Sizes : s <= n) /\ Limit + u * n < TwoTo[u] => mem.size <= Limit + u * n

Doubled(f, k) == IF k = 0 THEN 1 ELSE 2 * f[k - 1]

\* `f` is the powers of two up to `k`.
UpTo(f, k) == f = [m \in Nat |-> f[m]] /\ \A m \in 0..k : f[m] = Doubled(f, m)

LEMMA PowersUpTo == \A k \in Nat : \E f : UpTo(f, k)
<1> DEFINE S == {k \in Nat : \E f : UpTo(f, k)}
<1>1. 0 \in S
  <2>1. PICK f : f = [m \in Nat |-> 1]
    OBVIOUS
  <2>2. UpTo(f, 0)
    BY <2>1 DEF UpTo, Doubled
  <2> QED BY <2>2
<1>2. ASSUME NEW k \in Nat, k \in S PROVE k + 1 \in S
  <2>1. PICK f : UpTo(f, k)
    BY <1>2
  <2>2. PICK g : g = [m \in Nat |-> IF m = k + 1 THEN 2 * f[k] ELSE f[m]]
    OBVIOUS
  <2>3. g = [m \in Nat |-> g[m]]
    BY <2>2
  <2>4. ASSUME NEW m \in 0..k + 1 PROVE g[m] = Doubled(g, m)
    <3>1. CASE m = k + 1
      <4>1. m # 0 /\ m - 1 = k /\ m \in Nat /\ k # k + 1
        BY <3>1
      <4>2. g[m] = 2 * f[k] /\ g[k] = f[k]
        BY <2>2, <3>1, <4>1
      <4> QED BY <4>1, <4>2 DEF Doubled
    <3>2. CASE m # k + 1
      <4>1. m \in 0..k /\ m \in Nat
        BY <3>2
      <4>2. m # 0 => m - 1 \in Nat /\ m - 1 # k + 1
        BY <4>1
      <4>3. g[m] = f[m] /\ (m # 0 => g[m - 1] = f[m - 1])
        BY <2>2, <3>2, <4>1, <4>2
      <4>4. f[m] = Doubled(f, m)
        BY <2>1, <4>1 DEF UpTo
      <4> QED BY <4>3, <4>4 DEF Doubled
    <3> QED BY <3>1, <3>2
  <2>5. UpTo(g, k + 1)
    BY <2>3, <2>4 DEF UpTo
  <2> QED BY <2>5
<1> HIDE DEF S
<1>3. Nat \subseteq S
  BY <1>1, <1>2, Induction
<1> QED BY <1>3 DEF S

LEMMA PowersAgree ==
    ASSUME NEW f, NEW g, NEW n \in Nat, UpTo(f, n), UpTo(g, n)
    PROVE  \A m \in 0..n : f[m] = g[m]
<1> DEFINE S == {k \in Nat : k <= n => f[k] = g[k]}
<1>1. 0 \in S
  <2>1. 0 \in 0..n
    OBVIOUS
  <2>2. f[0] = g[0]
    BY <2>1 DEF UpTo, Doubled
  <2> QED BY <2>2
<1>2. ASSUME NEW k \in Nat, k \in S PROVE k + 1 \in S
  <2>1. SUFFICES ASSUME k + 1 <= n PROVE f[k + 1] = g[k + 1]
    OBVIOUS
  <2>2. f[k] = g[k]
    BY <1>2, <2>1
  <2>3. k + 1 \in 0..n /\ k + 1 # 0 /\ (k + 1) - 1 = k
    BY <2>1
  <2>4. f[k + 1] = Doubled(f, k + 1) /\ g[k + 1] = Doubled(g, k + 1)
    BY <2>3 DEF UpTo
  <2> QED BY <2>2, <2>3, <2>4 DEF Doubled
<1>3. Nat \subseteq S
  <2> HIDE DEF S
  <2> QED BY <1>1, <1>2, Induction
<1> QED BY <1>3

LEMMA TwoToDoubles == /\ TwoTo[0] = 1
                      /\ \A k \in Nat : TwoTo[k + 1] = 2 * TwoTo[k]
<1> DEFINE P(k) == CHOOSE f : UpTo(f, k)
           F == [k \in Nat |-> P(k)[k]]
<1>1. \A k \in Nat : UpTo(P(k), k)
  BY PowersUpTo
<1> HIDE DEF P
<1>2. ASSUME NEW k \in Nat PROVE F[k] = Doubled(F, k)
  <2>1. F[k] = Doubled(P(k), k)
    BY <1>1 DEF UpTo
  <2>2. CASE k = 0
    BY <2>1, <2>2 DEF Doubled
  <2>3. CASE k # 0
    <3>1. k - 1 \in Nat /\ k - 1 \in 0..k - 1 /\ \A m \in 0..k - 1 : m \in 0..k
      BY <2>3
    <3>2. UpTo(P(k), k - 1)
      BY <1>1, <3>1 DEF UpTo
    <3>3. P(k)[k - 1] = P(k - 1)[k - 1]
      BY <1>1, <3>1, <3>2, PowersAgree
    <3>4. F[k - 1] = P(k - 1)[k - 1]
      BY <3>1
    <3> QED BY <2>1, <2>3, <3>3, <3>4 DEF Doubled
  <2> QED BY <2>2, <2>3
<1>3. F = [k \in Nat |-> Doubled(F, k)]
  <2>1. F = [k \in Nat |-> F[k]]
    OBVIOUS
  <2> HIDE DEF F
  <2> QED BY <1>2, <2>1
<1>4. TwoTo = [k \in Nat |-> IF k = 0 THEN 1 ELSE 2 * TwoTo[k - 1]]
  <2> HIDE DEF F
  <2>1. F = [k \in Nat |-> IF k = 0 THEN 1 ELSE 2 * F[k - 1]]
    BY <1>3 DEF Doubled
  <2> QED BY <2>1, Zenon DEF TwoTo
<1>5. \A k \in Nat : TwoTo[k] = IF k = 0 THEN 1 ELSE 2 * TwoTo[k - 1]
  <2>1. PICK t : t = TwoTo
    OBVIOUS
  <2>2. t = [k \in Nat |-> IF k = 0 THEN 1 ELSE 2 * t[k - 1]]
    BY <1>4, <2>1, Zenon
  <2>3. \A k \in Nat : t[k] = IF k = 0 THEN 1 ELSE 2 * t[k - 1]
    BY <2>2
  <2> QED BY <2>1, <2>3, Zenon
<1>6. \A k \in Nat : k + 1 \in Nat /\ k + 1 # 0 /\ (k + 1) - 1 = k
  OBVIOUS
<1> QED BY <1>5, <1>6

LEMMA TwoToTypes == \A k \in Nat : TwoTo[k] \in Nat /\ TwoTo[k] >= 1
<1> DEFINE S == {k \in Nat : TwoTo[k] \in Nat /\ TwoTo[k] >= 1}
<1>1. 0 \in S
  BY TwoToDoubles
<1>2. ASSUME NEW k \in Nat, k \in S PROVE k + 1 \in S
  <2>1. PICK x : x = TwoTo[k]
    OBVIOUS
  <2>2. x \in Nat /\ x >= 1 /\ TwoTo[k + 1] = 2 * x
    BY <1>2, <2>1, TwoToDoubles
  <2> QED BY <2>2
<1> HIDE DEF S
<1>3. Nat \subseteq S
  BY <1>1, <1>2, Induction
<1> QED BY <1>3 DEF S

LEMMA TwoToGrows == \A a, b \in Nat : TwoTo[a] < TwoTo[b] => a < b
<1> SUFFICES ASSUME NEW a \in Nat PROVE \A b \in Nat : b <= a => TwoTo[b] <= TwoTo[a]
  <2>1. \A a, b \in Nat : TwoTo[a] \in Nat /\ TwoTo[b] \in Nat
    BY TwoToTypes
  <2> QED BY <2>1
<1> DEFINE S == {k \in Nat : \A b \in Nat : b + k = a => TwoTo[b] <= TwoTo[a]}
<1>1. 0 \in S
  <2>1. \A b \in Nat : b + 0 = a => b = a
    OBVIOUS
  <2>2. TwoTo[a] <= TwoTo[a]
    BY TwoToTypes
  <2> QED BY <2>1, <2>2
<1>2. ASSUME NEW k \in Nat, k \in S PROVE k + 1 \in S
  <2>1. SUFFICES ASSUME NEW b \in Nat, b + (k + 1) = a PROVE TwoTo[b] <= TwoTo[a]
    OBVIOUS
  <2>2. b + 1 \in Nat /\ (b + 1) + k = a
    BY <2>1
  <2>3. TwoTo[b + 1] <= TwoTo[a]
    BY <1>2, <2>2
  <2>4. PICK x, y : x = TwoTo[b] /\ y = TwoTo[a]
    OBVIOUS
  <2>5. x \in Nat /\ y \in Nat /\ 2 * x <= y
    BY <2>3, <2>4, TwoToTypes, TwoToDoubles
  <2>6. x <= y
    BY <2>5
  <2> QED BY <2>4, <2>6
<1>3. ASSUME NEW b \in Nat, b <= a PROVE TwoTo[b] <= TwoTo[a]
  <2>1. a - b \in Nat /\ b + (a - b) = a
    BY <1>3
  <2> HIDE DEF S
  <2>2. a - b \in S
    BY <1>1, <1>2, <2>1, Induction
  <2> USE DEF S
  <2> QED BY <2>1, <2>2
<1> QED BY <1>3

-----------------------------------------------------------------------------
(* How much there can be                                                    *)

\* The number of rotations that are under way when an item is written: those whose
\* record is this one or one behind it.
Depths(td, w, u) ==
    /\ w \in [1..Len(td) + 1 -> 0..u] /\ w[Len(td) + 1] = 0
    /\ \A i \in 1..Len(td) : w[i] = IF td[i].rotated THEN w[i + 1] + 1 ELSE w[i + 1]

\* Each rotation under way has halved the records in front of the one it is for.
Halved(td, c, w, u) ==
    \A i \in 1..Len(td) : w[i] >= 1 => (c + (i - 1)) * TwoTo[w[i]] < TwoTo[u]

\* `e` records beyond the maximum have been written, and with the rotations under way
\* there will be `u` at the most.
Excess(td, h, u, n, w, e) ==
    /\ h.size <= Limit + e * n
    /\ td # <<>> /\ td[1].rotated => e + w[1] <= u

Bounded(td, h, u, n) ==
    \E w \in [1..Len(td) + 1 -> 0..u], e \in 0..u :
        Depths(td, w, u) /\ Halved(td, h.count, w, u) /\ Excess(td, h, u, n, w, e)

LEMMA Products ==
    /\ \A a, b, c \in Nat : a <= b => a * c <= b * c
    /\ \A a, b \in Nat : a * b \in Nat
    /\ \A a, b \in Nat : (a + 1) * b = a * b + b
    /\ \A a, b \in Nat : a * (2 * b) = (2 * a) * b
    /\ \A b \in Nat : 0 * b = 0 /\ 1 * b = b
<1>1. \A a, b \in Nat : a * b \in Nat
  OBVIOUS
<1>2. \A a, b \in Nat : (a + 1) * b = a * b + b
  OBVIOUS
<1>3. \A a, b \in Nat : a * (2 * b) = (2 * a) * b
  OBVIOUS
<1>4. ASSUME NEW a \in Nat, NEW b \in Nat, NEW c \in Nat, a <= b PROVE a * c <= b * c
  <2>1. PICK d \in Nat : b = a + d
    <3>1. b - a \in Nat /\ b = a + (b - a)
      BY <1>4
    <3> QED BY <3>1
  <2>2. (a + d) * c = a * c + d * c
    OBVIOUS
  <2>3. a * c \in Nat /\ d * c \in Nat
    BY <1>1
  <2> QED BY <2>1, <2>2, <2>3
<1>5. \A b \in Nat : 0 * b = 0 /\ 1 * b = b
  OBVIOUS
<1> QED BY <1>1, <1>2, <1>3, <1>4, <1>5

\* The excess never is more than u records.
LEMMA BoundedIsNear ==
    ASSUME NEW u \in Nat, NEW n \in Nat, NEW td, NEW h \in Headers, Bounded(td, h, u, n)
    PROVE  h.size <= Limit + u * n
<1>1. PICK e \in 0..u : h.size <= Limit + e * n
  BY DEF Bounded, Excess
<1>2. e * n <= u * n /\ e * n \in Nat /\ u * n \in Nat
  BY <1>1, Products
<1>3. PICK x, y : x = e * n /\ y = u * n
  OBVIOUS
<1>4. x \in Nat /\ y \in Nat /\ x <= y /\ h.size <= Limit + x /\ h.size \in Nat /\ Limit \in Nat
  BY <1>1, <1>2, <1>3, Numbers DEF Headers
<1> QED BY <1>3, <1>4

\* With no rotation under way that is all there is to it.
LEMMA NearIsBounded ==
    ASSUME NEW u \in Nat, NEW n \in Nat, NEW td \in Seq(Item), NEW h \in Headers,
           h.size <= Limit + u * n, Len(td) <= 1, \A i \in 1..Len(td) : ~td[i].rotated
    PROVE  Bounded(td, h, u, n)
<1>1. Len(td) \in Nat
  BY LenProperties
<1>2. PICK w : w = [i \in 1..Len(td) + 1 |-> 0]
  OBVIOUS
<1>3. \A i \in 1..Len(td) : i \in 1..Len(td) + 1 /\ i + 1 \in 1..Len(td) + 1
  BY <1>1
<1>4. w \in [1..Len(td) + 1 -> 0..u] /\ Len(td) + 1 \in 1..Len(td) + 1
  BY <1>1, <1>2
<1>5. Depths(td, w, u)
  BY <1>2, <1>3, <1>4 DEF Depths
<1>6. Halved(td, h.count, w, u)
  BY <1>2, <1>3 DEF Halved
<1>7. td # <<>> => ~td[1].rotated
  <2>1. td # <<>> => 1 \in 1..Len(td)
    BY <1>1, EmptySeq
  <2> QED BY <2>1
<1>8. Excess(td, h, u, n, w, u) /\ u \in 0..u
  BY <1>7 DEF Excess
<1> QED BY <1>4, <1>5, <1>6, <1>8 DEF Bounded

\* A record is written: one that fits, or one that a rotation is for.
LEMMA BoundedWritten ==
    ASSUME NEW u \in Nat, NEW n \in Nat, NEW td \in Seq(Item), td # <<>>, NEW h \in Headers,
           Bounded(td, h, u, n), td[1].size <= n,
           ~td[1].rotated => h.size + td[1].size <= Limit,
           NEW g, g = [size |-> h.size + td[1].size, count |-> h.count + 1]
    PROVE  Bounded(Tail(td), g, u, n)
<1> DEFINE l == Len(td)
           z == td[1].size
<1>1. l \in Nat /\ l >= 1 /\ z \in Nat /\ h.size \in Nat /\ h.count \in Nat /\ Limit \in Nat
  <2>1. Len(td) \in Nat /\ Len(td) # 0
    BY LenProperties, EmptySeq
  <2>2. 1 \in 1..Len(td)
    BY <2>1
  <2>3. td[1] \in Item
    BY <2>2, ElementOfSeq
  <2> QED BY <2>1, <2>3, ItemCells, Numbers DEF Headers
<1>2. PICK w \in [1..l + 1 -> 0..u], e \in 0..u :
          Depths(td, w, u) /\ Halved(td, h.count, w, u) /\ Excess(td, h, u, n, w, e)
  BY DEF Bounded
<1>3. PICK tl : tl = Tail(td)
  OBVIOUS
<1>4. tl \in Seq(Item) /\ Len(tl) = l - 1 /\ \A i \in 1..l - 1 : tl[i] = td[i + 1]
  BY <1>3, HeadTailProperties
<1> HIDE DEF l, z
<1>5. PICK v : v = [i \in 1..l |-> w[i + 1]]
  OBVIOUS
<1>6. /\ \A i \in 1..l : i + 1 \in 1..l + 1 /\ i \in 1..l + 1
      /\ \A i \in 1..l - 1 : i + 1 \in 1..l /\ i \in 1..l /\ (i + 1) + 1 \in 1..l + 1
      /\ 1 \in 1..l /\ l \in 1..l /\ (l - 1) + 1 = l
  BY <1>1
<1>7. v \in [1..(l - 1) + 1 -> 0..u] /\ \A i \in 1..l : v[i] = w[i + 1]
  BY <1>2, <1>5, <1>6
<1>8. Depths(tl, v, u)
  <2>1. v[(l - 1) + 1] = 0
    BY <1>2, <1>6, <1>7 DEF Depths, l
  <2>2. ASSUME NEW i \in 1..l - 1
        PROVE  v[i] = IF tl[i].rotated THEN v[i + 1] + 1 ELSE v[i + 1]
    <3>1. w[i + 1] = IF td[i + 1].rotated THEN w[(i + 1) + 1] + 1 ELSE w[(i + 1) + 1]
      BY <1>2, <1>6 DEF Depths, l
    <3> QED BY <1>4, <1>6, <1>7, <3>1
  <2> QED BY <1>4, <1>7, <2>1, <2>2 DEF Depths
<1>9. Halved(tl, g.count, v, u)
  <2>1. SUFFICES ASSUME NEW i \in 1..l - 1, v[i] >= 1
                 PROVE  (g.count + (i - 1)) * TwoTo[v[i]] < TwoTo[u]
    BY <1>4 DEF Halved
  <2>2. (h.count + ((i + 1) - 1)) * TwoTo[w[i + 1]] < TwoTo[u]
    BY <1>2, <1>6, <1>7, <2>1 DEF Halved, l
  <2>3. g.count + (i - 1) = h.count + ((i + 1) - 1)
    BY <1>1
  <2> QED BY <1>6, <1>7, <2>2, <2>3
<1>10. w[1] = IF td[1].rotated THEN w[2] + 1 ELSE w[2]
  BY <1>2, <1>6 DEF Depths, l
<1>11. w[1] \in 0..u /\ w[2] \in 0..u /\ v[1] = w[2]
  <2>1. 1 \in 1..l + 1 /\ 2 \in 1..l + 1 /\ 1 + 1 = 2
    BY <1>1
  <2> QED BY <1>2, <1>6, <1>7, <2>1
<1>12. CASE ~td[1].rotated
  <2>1. h.size + z <= Limit + 0 * n
    BY <1>1, <1>12, Products DEF z
  <2>2. g.size <= Limit + 0 * n
    BY <2>1 DEF z
  <2>3. 0 + v[1] <= u /\ 0 \in 0..u
    BY <1>11
  <2>4. Excess(tl, g, u, n, v, 0)
    BY <2>2, <2>3 DEF Excess
  <2> QED BY <1>3, <1>4, <1>7, <1>8, <1>9, <2>3, <2>4 DEF Bounded
<1>13. CASE td[1].rotated
  <2>1. e + w[1] <= u /\ w[1] = w[2] + 1 /\ h.size <= Limit + e * n
    BY <1>2, <1>10, <1>13 DEF Excess
  <2>2. e + 1 \in 0..u /\ (e + 1) + v[1] <= u
    BY <1>2, <1>11, <2>1
  <2>3. g.size <= Limit + (e + 1) * n
    <3>1. (e + 1) * n = e * n + n /\ e * n \in Nat
      BY <1>2, Products
    <3>2. PICK x : x = e * n
      OBVIOUS
    <3>3. x \in Nat /\ h.size <= Limit + x /\ z <= n
      BY <2>1, <3>1, <3>2 DEF z
    <3>4. h.size + z <= Limit + (x + n)
      BY <1>1, <3>3
    <3> QED BY <3>1, <3>2, <3>4 DEF z
  <2>4. Excess(tl, g, u, n, v, e + 1)
    BY <2>2, <2>3 DEF Excess
  <2> QED BY <1>3, <1>4, <1>7, <1>8, <1>9, <2>2, <2>4 DEF Bounded
<1> QED BY <1>12, <1>13

\* A record does not fit, and a rotation keeps half of the `c` that are there: for
\* there are as many as the header counts, or at least not more than there is room for.
LEMMA BoundedRotated ==
    ASSUME NEW u \in Nat, u >= 1, NEW n \in Nat, Limit + u * n < TwoTo[u],
           NEW td \in Seq(Item), td # <<>>, ~td[1].rotated, Len(td) >= 2 => td[Len(td)].rotated,
           NEW h \in Headers, Bounded(td, h, u, n),
           NEW rs \in Seq(Rec), Len(rs) <= h.size, Len(td) >= 2 => Len(rs) = h.count
    PROVE  Bounded(ToWrite(Kept(rs), td), NoData, u, n)
<1> DEFINE l == Len(td)
           c == Len(rs)
           k == Len(rs) \div 2
           d == td[1]
<1>1. l \in Nat /\ l >= 1 /\ c \in Nat /\ k \in Nat /\ 2 * k <= c /\ h.size \in Nat
      /\ h.count \in Nat /\ u * n \in Nat /\ Limit \in Nat
  <2>1. Len(td) \in Nat /\ Len(td) # 0
    BY LenProperties, EmptySeq
  <2>2. Len(rs) \in Nat
    BY LenProperties
  <2>3. u * n \in Nat
    BY Products
  <2> QED BY <2>1, <2>2, <2>3, Numbers DEF Headers
<1>2. PICK w \in [1..l + 1 -> 0..u], e \in 0..u :
          Depths(td, w, u) /\ Halved(td, h.count, w, u) /\ Excess(td, h, u, n, w, e)
  BY DEF Bounded
<1>3. PICK kept : kept = Kept(rs)
  OBVIOUS
<1>4. kept \in Seq(Rec) /\ Len(kept) = k
  BY <1>3, KeptRecords
<1>5. PICK all : all = ToWrite(kept, td)
  OBVIOUS
<1>6. /\ all \in Seq(Item) /\ Len(all) = k + l
      /\ \A i \in 1..k : ~all[i].rotated
      /\ all[k + 1].rotated
      /\ \A i \in 2..l : all[k + i] = td[i]
  <2>1. /\ all \in Seq(Item)
        /\ Len(all) = Len(kept) + Len(td)
        /\ \A i \in 1..Len(kept) :
              all[i] = [id |-> kept[i].id, size |-> kept[i].size, rotated |-> FALSE]
        /\ all[Len(kept) + 1] = [id |-> td[1].id, size |-> td[1].size, rotated |-> TRUE]
        /\ \A i \in 2..Len(td) : all[Len(kept) + i] = td[i]
    <3>1. kept \in Seq(Rec)
      BY <1>4
    <3> QED BY <1>5, <3>1, ToWriteIs
  <2>2. Len(kept) = k
    BY <1>4
  <2>3. l = Len(td) /\ k \in Nat
    BY <1>1
  <2> HIDE DEF k, l
  <2>4. /\ \A i \in 1..k : all[i].rotated = FALSE
        /\ all[k + 1].rotated = TRUE
    <3>1. /\ \A i \in 1..k : all[i] = [id |-> kept[i].id, size |-> kept[i].size, rotated |-> FALSE]
          /\ all[k + 1] = [id |-> td[1].id, size |-> td[1].size, rotated |-> TRUE]
      BY <2>1, <2>2, Zenon
    <3>2. ASSUME NEW i \in 1..k PROVE all[i].rotated = FALSE
      <4>1. PICK q, a, b : q = all[i] /\ a = kept[i].id /\ b = kept[i].size
        OBVIOUS
      <4>2. all[i] = [id |-> kept[i].id, size |-> kept[i].size, rotated |-> FALSE]
        BY <3>1, Zenon
      <4>3. q = [id |-> a, size |-> b, rotated |-> FALSE]
        BY <4>1, <4>2, Zenon
      <4>4. q.rotated = FALSE
        BY <4>3
      <4> QED BY <4>1, <4>4, Zenon
    <3>3. all[k + 1].rotated = TRUE
      BY <3>1
    <3> QED BY <3>2, <3>3, Zenon
  <2> QED BY <2>1, <2>2, <2>3, <2>4
<1>7. \A i \in 1..l : i + 1 \in 1..l + 1 /\ i \in 1..l + 1
  BY <1>1
<1>8. 1 \in 1..l /\ 1 \in 1..l + 1 /\ 2 \in 1..l + 1 /\ l + 1 \in 1..l + 1 /\ 1 + 1 = 2
  BY <1>1
<1> HIDE DEF l, c, k
<1>9. w[1] = w[2] /\ w[1] \in 0..u /\ w[l + 1] = 0
  BY <1>2, <1>8 DEF Depths, l
\* The records that are there are fewer than what the rotations under way allow.
<1>10. w[1] + 1 \in 0..u /\ c * TwoTo[w[1]] < TwoTo[u]
  <2>1. CASE w[1] = 0
    <3>1. h.size <= Limit + u * n
      BY BoundedIsNear
    <3>2. PICK x, y : x = u * n /\ y = TwoTo[u]
      OBVIOUS
    <3>3. y \in Nat /\ x \in Nat /\ Limit + x < y /\ h.size <= Limit + x /\ c <= h.size
      BY <1>1, <3>1, <3>2, TwoToTypes DEF c
    <3>4. c < y
      BY <1>1, <3>3
    <3>5. c * TwoTo[w[1]] = c
      BY <1>1, <2>1, TwoToDoubles
    <3> QED BY <2>1, <3>2, <3>4, <3>5
  <2>2. CASE w[1] # 0
    <3>1. w[1] >= 1 /\ w[1] \in Nat
      BY <1>9, <2>2
    <3>2. l # 1
      BY <1>9, <2>2
    <3>3. l >= 2 /\ 2 \in 1..l
      BY <1>1, <3>2
    <3>4. c = h.count
      BY <3>3 DEF c, l
    <3>5. (h.count + (1 - 1)) * TwoTo[w[1]] < TwoTo[u] /\ (h.count + (2 - 1)) * TwoTo[w[1]] < TwoTo[u]
      BY <1>2, <1>8, <1>9, <3>1, <3>3 DEF Halved, l
    <3>6. h.count + (1 - 1) = c /\ h.count + (2 - 1) = c + 1
      BY <1>1, <3>4
    <3>7. c * TwoTo[w[1]] < TwoTo[u] /\ (c + 1) * TwoTo[w[1]] < TwoTo[u]
      BY <3>5, <3>6
    <3>8. PICK x, y : x = TwoTo[w[1]] /\ y = TwoTo[u]
      OBVIOUS
    <3>9. x \in Nat /\ y \in Nat /\ c * x \in Nat /\ (c + 1) * x = c * x + x
      BY <1>1, <3>1, <3>8, TwoToTypes, Products
    <3>10. PICK z : z = c * x
      OBVIOUS
    <3>11. x \in Nat /\ y \in Nat /\ z \in Nat /\ z + x < y
      BY <3>7, <3>8, <3>9, <3>10
    <3>12. x < y
      BY <3>11
    <3>13. w[1] < u
      BY <3>1, <3>8, <3>12, TwoToGrows
    <3> QED BY <3>1, <3>7, <3>13
  <2> QED BY <2>1, <2>2
<1>11. PICK v : v = [i \in 1..k + l + 1 |-> IF i <= k + 1 THEN w[1] + 1 ELSE w[i - k]]
  OBVIOUS
<1>12. /\ \A i \in 1..k + 1 : v[i] = w[1] + 1
       /\ \A i \in 2..l + 1 : v[k + i] = w[i]
  <2>1. ASSUME NEW i \in 1..k + 1 PROVE v[i] = w[1] + 1
    <3>1. i \in 1..k + l + 1 /\ i <= k + 1
      BY <1>1
    <3> QED BY <1>11, <3>1
  <2>2. ASSUME NEW i \in 2..l + 1 PROVE v[k + i] = w[i]
    <3>1. k + i \in 1..k + l + 1 /\ ~(k + i <= k + 1) /\ (k + i) - k = i
      BY <1>1
    <3> QED BY <1>11, <3>1
  <2> QED BY <2>1, <2>2
<1>13. \A i \in 1..k + l + 1 : i \in 1..k + 1 \/ \E j \in 2..l + 1 : i = k + j
  <2> SUFFICES ASSUME NEW i \in 1..k + l + 1, i \notin 1..k + 1 PROVE \E j \in 2..l + 1 : i = k + j
    OBVIOUS
  <2>1. i - k \in 2..l + 1 /\ i = k + (i - k)
    BY <1>1
  <2> QED BY <2>1
<1>14. v \in [1..(k + l) + 1 -> 0..u]
  <2>1. \A i \in 2..l + 1 : i \in 1..l + 1
    BY <1>1
  <2>2. \A i \in 1..k + l + 1 : v[i] \in 0..u
    <3>1. \A i \in 1..k + 1 : v[i] \in 0..u
      BY <1>10, <1>12
    <3>2. \A i \in 2..l + 1 : v[k + i] \in 0..u
      BY <1>2, <1>12, <2>1
    <3> QED BY <1>13, <3>1, <3>2, Zenon
  <2>3. v = [i \in 1..k + l + 1 |-> v[i]]
    BY <1>11
  <2>4. (k + l) + 1 = k + l + 1
    BY <1>1
  <2> QED BY <2>2, <2>3, <2>4
<1>15. \A i \in 1..k + l : i \in 1..k \/ i = k + 1 \/ \E j \in 2..l : i = k + j
  <2> SUFFICES ASSUME NEW i \in 1..k + l, i \notin 1..k, i # k + 1 PROVE \E j \in 2..l : i = k + j
    OBVIOUS
  <2>1. i - k \in 2..l /\ i = k + (i - k)
    BY <1>1
  <2> QED BY <2>1
<1>16. Depths(all, v, u)
  <2>1. v[(k + l) + 1] = 0
    <3>1. (k + l) + 1 = k + (l + 1) /\ l + 1 \in 2..l + 1
      BY <1>1
    <3> QED BY <1>9, <1>12, <3>1
  <2>2. ASSUME NEW i \in 1..k
        PROVE  v[i] = IF all[i].rotated THEN v[i + 1] + 1 ELSE v[i + 1]
    <3>1. i \in 1..k + 1 /\ i + 1 \in 1..k + 1
      BY <1>1
    <3> QED BY <1>6, <1>12, <3>1
  <2>3. v[k + 1] = IF all[k + 1].rotated THEN v[(k + 1) + 1] + 1 ELSE v[(k + 1) + 1]
    <3>1. k + 1 \in 1..k + 1 /\ 2 \in 2..l + 1 /\ (k + 1) + 1 = k + 2
      BY <1>1
    <3>2. v[k + 1] = w[1] + 1 /\ v[k + 2] = w[2]
      BY <1>12, <3>1
    <3> QED BY <1>6, <1>9, <3>1, <3>2
  <2>4. ASSUME NEW j \in 2..l
        PROVE  v[k + j] = IF all[k + j].rotated THEN v[(k + j) + 1] + 1 ELSE v[(k + j) + 1]
    <3>1. j \in 1..l /\ j \in 2..l + 1 /\ j + 1 \in 2..l + 1 /\ (k + j) + 1 = k + (j + 1)
      BY <1>1
    <3>2. v[k + j] = w[j] /\ v[k + (j + 1)] = w[j + 1]
      BY <1>12, <3>1
    <3>3. w[j] = IF td[j].rotated THEN w[j + 1] + 1 ELSE w[j + 1]
      BY <1>2, <3>1 DEF Depths, l
    <3> QED BY <1>6, <3>1, <3>2, <3>3
  <2>5. \A i \in 1..k + l : v[i] = IF all[i].rotated THEN v[i + 1] + 1 ELSE v[i + 1]
    <3> SUFFICES ASSUME NEW i \in 1..k + l
                 PROVE  v[i] = IF all[i].rotated THEN v[i + 1] + 1 ELSE v[i + 1]
      OBVIOUS
    <3>1. CASE i \in 1..k
      BY <2>2, <3>1
    <3>2. CASE i = k + 1
      BY <2>3, <3>2
    <3>3. CASE \E j \in 2..l : i = k + j
      BY <2>4, <3>3
    <3> QED BY <1>15, <3>1, <3>2, <3>3
  <2> QED BY <1>6, <1>14, <2>1, <2>5 DEF Depths
<1>17. Halved(all, 0, v, u)
  <2>1. ASSUME NEW i \in 1..k + 1 PROVE (0 + (i - 1)) * TwoTo[v[i]] < TwoTo[u]
    <3>1. PICK x, y, p : x = TwoTo[w[1]] /\ y = TwoTo[u] /\ p = i - 1
      OBVIOUS
    <3>2. w[1] \in Nat
      BY <1>9
    <3>3. TwoTo[v[i]] = 2 * x /\ x \in Nat /\ y \in Nat /\ c * x < y
      BY <1>10, <1>12, <3>1, <3>2, TwoToDoubles, TwoToTypes
    <3>4. p \in Nat /\ 2 * p \in Nat /\ 2 * p <= c /\ 0 + (i - 1) = p
      BY <1>1, <3>1
    <3>5. p * (2 * x) = (2 * p) * x /\ (2 * p) * x <= c * x /\ (2 * p) * x \in Nat /\ c * x \in Nat
      BY <1>1, <3>3, <3>4, Products
    <3>6. PICK a, b : a = (2 * p) * x /\ b = c * x
      OBVIOUS
    <3>7. a \in Nat /\ b \in Nat /\ a <= b /\ b < y
      BY <3>3, <3>5, <3>6
    <3>8. a < y
      BY <3>3, <3>7
    <3> QED BY <3>1, <3>3, <3>4, <3>5, <3>6, <3>8
  <2>2. ASSUME NEW j \in 2..l, w[j] >= 1 PROVE (0 + ((k + j) - 1)) * TwoTo[w[j]] < TwoTo[u]
    <3>1. j \in 1..l /\ l >= 2 /\ j \in 1..l + 1
      BY <1>1
    <3>2. (h.count + (j - 1)) * TwoTo[w[j]] < TwoTo[u]
      BY <1>2, <2>2, <3>1 DEF Halved, l
    <3>3. c = h.count
      BY <3>1 DEF c, l
    <3>4. PICK a, b, x : a = 0 + ((k + j) - 1) /\ b = h.count + (j - 1) /\ x = TwoTo[w[j]]
      OBVIOUS
    <3>5. a \in Nat /\ b \in Nat /\ a <= b
      <4>1. PICK f : f = h.count
        OBVIOUS
      <4>2. /\ f \in Nat /\ k \in Nat /\ j \in Nat /\ j >= 2 /\ k <= f
            /\ a = 0 + ((k + j) - 1) /\ b = f + (j - 1)
        BY <1>1, <3>1, <3>3, <3>4, <4>1
      <4> QED BY <4>2
    <3>6. x \in Nat
      <4>1. w[j] \in Nat
        BY <1>2, <3>1
      <4> QED BY <3>4, <4>1, TwoToTypes
    <3>7. a * x <= b * x /\ a * x \in Nat /\ b * x \in Nat /\ TwoTo[u] \in Nat
      BY <3>5, <3>6, Products, TwoToTypes
    <3>8. PICK p, q, y : p = a * x /\ q = b * x /\ y = TwoTo[u]
      OBVIOUS
    <3>9. p \in Nat /\ q \in Nat /\ y \in Nat /\ p <= q /\ q < y
      BY <3>2, <3>4, <3>7, <3>8
    <3>10. p < y
      BY <3>9
    <3> QED BY <3>4, <3>8, <3>10
  <2>3. ASSUME NEW i \in 1..k + l, v[i] >= 1 PROVE (0 + (i - 1)) * TwoTo[v[i]] < TwoTo[u]
    <3>1. CASE i \in 1..k + 1
      BY <2>1, <3>1
    <3>2. CASE \E j \in 2..l : i = k + j
      <4>1. PICK j \in 2..l : i = k + j
        BY <3>2
      <4>2. j \in 2..l + 1
        BY <1>1
      <4>3. v[i] = w[j]
        BY <1>12, <4>1, <4>2
      <4>4. (0 + ((k + j) - 1)) * TwoTo[w[j]] < TwoTo[u]
        BY <2>2, <2>3, <4>3
      <4> QED BY <4>1, <4>3, <4>4
    <3>3. \A m \in 1..k : m \in 1..k + 1
      BY <1>1
    <3>4. k + 1 \in 1..k + 1
      BY <1>1
    <3> QED BY <1>15, <3>1, <3>2, <3>3, <3>4
  <2> QED BY <1>6, <2>3 DEF Halved
<1>18. Excess(all, NoData, u, n, v, 0)
  <2>1. 0 * n = 0
    BY Products
  <2>2. NoData.size <= Limit + 0 * n
    BY <1>1, <2>1 DEF NoData
  <2>3. v[1] \in 0..u
    <3>1. 1 \in 1..(k + l) + 1
      BY <1>1
    <3> QED BY <1>14, <3>1
  <2>4. 0 + v[1] <= u
    BY <2>3
  <2> QED BY <2>2, <2>4 DEF Excess
<1>19. NoData.count = 0 /\ 0 \in 0..u
  BY DEF NoData
<1>20. Bounded(all, NoData, u, n)
  BY <1>6, <1>14, <1>16, <1>17, <1>18, <1>19 DEF Bounded
<1> QED BY <1>3, <1>5, <1>20

\* What is known of every header, and of the record that is being written: it fits,
\* unless a rotation is for it.
SizedBy(u, n) ==
    /\ Bounded(todo, mem, u, n)
    /\ rpc \in {"head", "body", "flush"} /\ ~todo[1].rotated => mem.size + todo[1].size <= Limit
    /\ hdr # None => hdr.size <= Limit + u * n
    /\ \A v \in Viewers : seen[v] # None => seen[v].size <= Limit + u * n

\* n bounds the records, and u records beyond the maximum cannot be halved u times.
Enough(u, n) ==
    u \in Nat /\ u >= 1 /\ n \in Nat /\ (\A s \in Sizes : s <= n) /\ Limit + u * n < TwoTo[u]

LEMMA NoDataBounded ==
    ASSUME NEW u \in Nat, NEW n \in Nat
    PROVE  NoData \in Headers /\ Bounded(<<>>, NoData, u, n)
<1>1. NoData \in Headers /\ NoData.size = 0
  BY DEF NoData, Headers
<1>2. 0 <= Limit + u * n
  <2>1. PICK x : x = u * n
    OBVIOUS
  <2>2. x \in Nat
    BY <2>1, Products
  <2> QED BY <2>1, <2>2, Numbers
<1>3. <<>> \in Seq(Item) /\ Len(<<>>) = 0
  BY EmptySeq
<1>4. Len(<<>>) <= 1 /\ \A i \in 1..Len(<<>>) : ~<<>>[i].rotated
  BY <1>3
<1>5. NoData.size <= Limit + u * n
  BY <1>1, <1>2
<1> QED BY <1>1, <1>3, <1>4, <1>5, NearIsBounded

LEMMA SizeBegins == ASSUME NEW u, NEW n, Enough(u, n), Init PROVE SizedBy(u, n)
BY NoDataBounded DEF Init, SizedBy, Enough

LEMMA SizeKept ==
    ASSUME NEW u, NEW n, Enough(u, n), TypeInv, RotationInv, HeaderInv, LayoutInv, SizedBy(u, n),
           [Next]_vars
    PROVE  SizedBy(u, n)'
<1>1. /\ data \in Seq(Cell) /\ mem \in Headers /\ todo \in Seq(Item)
      /\ rpc \in {"off", "idle"} => todo = <<>>
      /\ rpc \in {"check", "head", "body", "flush"} => todo # <<>>
      /\ hdr # None => hdr \in Headers
      /\ \A v \in Viewers : seen[v] # None => seen[v] \in Headers
  BY DEF TypeInv, TypeOK
<1>2. u \in Nat /\ u >= 1 /\ n \in Nat /\ (\A s \in Sizes : s <= n) /\ Limit + u * n < TwoTo[u]
  BY DEF Enough
<1>3. Len(todo) \in Nat /\ (todo # <<>> => Head(todo) = todo[1] /\ todo[1] \in Item /\ 1 \in 1..Len(todo))
  <2>1. todo # <<>> => Len(todo) # 0 /\ Head(todo) = todo[1]
    BY <1>1, EmptySeq
  <2>2. Len(todo) \in Nat
    BY <1>1, LenProperties
  <2>3. todo # <<>> => 1 \in 1..Len(todo)
    BY <2>1, <2>2
  <2> QED BY <1>1, <2>1, <2>2, <2>3, ElementOfSeq
<1>4. mem.size <= Limit + u * n
  BY <1>1, <1>2, BoundedIsNear DEF SizedBy
<1>5. Bounded(<<>>, NoData, u, n)
  BY <1>2, NoDataBounded
\* A recorder with nothing to write.
<1>6. ASSUME NEW h \in Headers, h.size <= Limit + u * n, NEW td \in Seq(Item), Len(td) <= 1,
             \A i \in 1..Len(td) : ~td[i].rotated
      PROVE  Bounded(td, h, u, n)
  BY <1>2, <1>6, NearIsBounded
<1>7. CASE Create
  <2>1. todo' = <<>> /\ mem' = NoData /\ rpc' = "create" /\ UNCHANGED <<hdr, seen>>
    BY <1>1, <1>7 DEF Create
  <2> QED BY <1>5, <2>1 DEF SizedBy
<1>8. CASE OpenExisting
  <2>1. todo' = <<>> /\ mem' = hdr /\ rpc' = "idle" /\ hdr # None /\ UNCHANGED <<hdr, seen>>
    BY <1>1, <1>8 DEF OpenExisting
  <2>2. <<>> \in Seq(Item) /\ Len(<<>>) <= 1 /\ \A i \in 1..Len(<<>>) : ~<<>>[i].rotated
    BY EmptySeq
  <2>3. hdr \in Headers /\ hdr.size <= Limit + u * n
    BY <1>1, <2>1 DEF SizedBy
  <2>4. Bounded(<<>>, hdr, u, n)
    BY <1>6, <2>2, <2>3
  <2> QED BY <2>1, <2>4 DEF SizedBy
<1>9. CASE Record
  <2>1. PICK m \in Sizes : todo' = <<[id |-> next, size |-> m, rotated |-> FALSE]>>
    BY <1>9 DEF Record
  <2>2. rpc' = "check" /\ UNCHANGED <<hdr, mem, seen>>
    BY <1>9 DEF Record
  <2>3. Len(todo') = 1 /\ todo'[1].rotated = FALSE
    BY <2>1
  <2>4. todo' \in Seq(Item)
    BY TypesKept DEF TypeInv, TypeOK
  <2>5. Len(todo') <= 1 /\ \A i \in 1..Len(todo') : ~todo'[i].rotated
    <3>1. \A i \in 1..1 : i = 1
      OBVIOUS
    <3> QED BY <2>3, <3>1
  <2>6. Bounded(todo', mem, u, n)
    BY <1>1, <1>4, <1>6, <2>4, <2>5
  <2> QED BY <2>2, <2>6 DEF SizedBy
<1>10. CASE CreateHeader
  <2>1. /\ UNCHANGED <<mem, todo, seen>> /\ hdr' = mem
        /\ rpc' \in {"head", "body", "flush"} => Head(todo).rotated /\ todo # <<>>
    BY <1>10 DEF CreateHeader, Proceed
  <2> QED BY <1>3, <1>4, <2>1 DEF SizedBy
<1>11. CASE Check
  <2>1. UNCHANGED <<hdr, mem, todo, seen>> /\ todo # <<>> /\ mem.size + Head(todo).size <= Limit
    BY <1>1, <1>11 DEF Check, Fits
  <2> QED BY <1>3, <2>1 DEF SizedBy
<1>12. CASE Rotate
  <2>1. /\ rpc = "check" /\ rpc' = "create" /\ mem' = NoData /\ hdr' = None /\ UNCHANGED seen
        /\ todo' = ToWrite(Kept(ReadBack(data, mem)), todo)
    BY <1>12 DEF Rotate, ToWrite
  <2>2. PICK rs : rs = ReadBack(data, mem)
    OBVIOUS
  <2>3. rs \in Seq(Rec) /\ Len(rs) <= mem.size
    BY <1>1, <2>2, ReadBackTypes
  <2>4. todo # <<>> /\ ~todo[1].rotated /\ (Len(todo) >= 2 => todo[Len(todo)].rotated)
    BY <1>1, <2>1 DEF RotationInv
  <2>5. Len(todo) >= 2 => Len(rs) = mem.count
    <3>1. Len(todo) >= 2 => Len(todo) \in 1..Len(todo)
      BY <1>3
    <3>2. Len(todo) >= 2 => memOk
      BY <3>1 DEF RotationInv
    <3> QED BY <2>1, <2>2, <3>2 DEF LayoutInv, Whole, Laid
  <2>6. Bounded(ToWrite(Kept(rs), todo), NoData, u, n)
    <3>1. Bounded(todo, mem, u, n)
      BY DEF SizedBy
    <3> QED BY <1>1, <1>2, <2>3, <2>4, <2>5, <3>1, BoundedRotated
  <2> QED BY <2>1, <2>2, <2>6 DEF SizedBy
<1>13. CASE WriteHead \/ WriteBody
  <2>1. UNCHANGED <<hdr, mem, todo, seen>> /\ rpc \in {"head", "body"}
    BY <1>13 DEF WriteHead, WriteBody
  <2> QED BY <2>1 DEF SizedBy
<1>14. CASE Flush
  <2>1. /\ rpc = "flush" /\ todo # <<>> /\ todo' = Tail(todo) /\ hdr' = mem' /\ UNCHANGED seen
        /\ mem' = [size |-> mem.size + todo[1].size, count |-> mem.count + 1]
    BY <1>1, <1>3, <1>14 DEF Flush
  <2>2. rpc' \in {"head", "body", "flush"} => Head(todo').rotated /\ todo' # <<>>
    BY <1>14 DEF Flush, Proceed
  <2>3. Bounded(Tail(todo), mem', u, n)
    <3>1. todo[1].size <= n /\ (~todo[1].rotated => mem.size + todo[1].size <= Limit)
      BY <1>2, <1>3, <2>1, ItemCells DEF SizedBy
    <3>2. PICK g : g = [size |-> mem.size + todo[1].size, count |-> mem.count + 1]
      OBVIOUS
    <3>3. Bounded(Tail(todo), g, u, n)
      BY <1>1, <1>2, <2>1, <3>1, <3>2, BoundedWritten DEF SizedBy
    <3> QED BY <2>1, <3>2, <3>3
  <2>4. mem' \in Headers /\ todo' \in Seq(Item)
    BY TypesKept DEF TypeInv, TypeOK
  <2>5. mem'.size <= Limit + u * n
    BY <1>2, <2>3, <2>4, BoundedIsNear
  <2>6. todo' # <<>> => Head(todo') = todo'[1]
    BY <2>4
  <2> QED BY <2>1, <2>2, <2>3, <2>5, <2>6 DEF SizedBy
<1>15. CASE Close \/ Crash \/ Fail
  <2>1. /\ todo' = <<>> /\ mem' = NoData /\ rpc' = "off" /\ UNCHANGED seen
        /\ hdr' = mem \/ hdr' = hdr
    BY <1>1, <1>15 DEF Close, Crash, Fail, Gone
  <2> QED BY <1>4, <1>5, <2>1 DEF SizedBy
<1>16. ASSUME NEW v \in Viewers, OpenViewer(v) PROVE SizedBy(u, n)'
  <2>1. UNCHANGED <<hdr, mem, todo, rpc>> /\ hdr # None /\ seen' = [seen EXCEPT ![v] = hdr]
    BY <1>16 DEF OpenViewer
  <2>2. \A x \in Viewers : seen'[x] = seen[x] \/ seen'[x] = hdr
    BY <2>1 DEF TypeInv, TypeOK
  <2> QED BY <2>1, <2>2 DEF SizedBy
<1>17. ASSUME NEW v \in Viewers, CloseViewer(v) PROVE SizedBy(u, n)'
  <2>1. /\ UNCHANGED <<mem, todo, rpc>> /\ seen[v] # None /\ hdr' = seen[v]
        /\ seen' = [seen EXCEPT ![v] = None]
    BY <1>17 DEF CloseViewer
  <2>2. \A x \in Viewers : seen'[x] = seen[x] \/ seen'[x] = None
    BY <2>1 DEF TypeInv, TypeOK
  <2> QED BY <2>1, <2>2 DEF SizedBy
<1>18. CASE UNCHANGED vars
  BY <1>18 DEF vars, SizedBy
<1> QED BY <1>7, <1>8, <1>9, <1>10, <1>11, <1>12, <1>13, <1>14, <1>15, <1>16, <1>17, <1>18
        DEF Next, Recorder, Write

(* A record that does not fit is written after a rotation without a second  *)
(* look, and keeping a record may rotate again.  For every maximum and any  *)
(* sizes: if u of the largest records beyond the maximum are fewer cells    *)
(* than 2^u, the excess never is more than these u records.                 *)
THEOREM SizeStaysNearTheLimit == Spec => []SizeNearLimit
<1> DEFINE SizeInv == \A u, n : Enough(u, n) => SizedBy(u, n)
<1>1. Init => SizeInv
  BY SizeBegins
<1>2. TypeInv /\ RotationInv /\ HeaderInv /\ LayoutInv /\ SizeInv /\ [Next]_vars => SizeInv'
  <2> SUFFICES ASSUME TypeInv, RotationInv, HeaderInv, LayoutInv, SizeInv, [Next]_vars,
                      NEW u, NEW n, Enough(u, n)
               PROVE  SizedBy(u, n)'
    BY DEF Enough
  <2> QED BY SizeKept
<1>3. TypeInv /\ SizeInv => SizeNearLimit
  <2> SUFFICES ASSUME TypeInv, SizeInv, NEW u \in 1..MaxRecords, NEW n \in Sizes,
                      \A s \in Sizes : s <= n, Limit + u * n < TwoTo[u]
               PROVE  mem.size <= Limit + u * n
    BY DEF SizeNearLimit
  <2>1. u \in Nat /\ n \in Nat /\ Enough(u, n)
    BY Numbers DEF Enough
  <2>2. Bounded(todo, mem, u, n) /\ mem \in Headers
    BY <2>1 DEF SizedBy, TypeInv, TypeOK
  <2> QED BY <2>1, <2>2, BoundedIsNear
<1> QED BY LayoutAlways, <1>1, <1>2, <1>3, PTL DEF Spec

-----------------------------------------------------------------------------
(* Rotations inside rotations come to an end                                *)

\* What the i-th record still to be written may cost, in records that are written: only
\* itself if it is certain to be written next to what is there, since a rotation was made
\* for it or its check has succeeded; and otherwise as many as nested rotations may
\* keep and write again, of the `n` in the file and those that come before it.
Effort(td, n, fits, i) == IF td[i].rotated \/ (i = 1 /\ fits) THEN 1 ELSE TwoTo[n + i]

\* All of them; `fits`, if the first one's check has succeeded.
Efforts(td, n, fits) ==
    LET sum[i \in 0..Len(td)] == IF i = 0 THEN 0 ELSE sum[i - 1] + Effort(td, n, fits, i)
    IN  sum[Len(td)]

\* `f` is the sums of the efforts.
Sums(f, td, n, fits) ==
    /\ f \in [0..Len(td) -> Nat] /\ f[0] = 0
    /\ \A i \in 1..Len(td) : f[i] = f[i - 1] + Effort(td, n, fits, i)

\* An effort is at least the record itself.
LEMMA EffortTypes ==
    ASSUME NEW td, NEW n \in Nat, NEW fits, NEW i \in Nat
    PROVE  Effort(td, n, fits, i) \in Nat /\ Effort(td, n, fits, i) >= 1
<1>1. n + i \in Nat
  OBVIOUS
<1>2. TwoTo[n + i] \in Nat /\ TwoTo[n + i] >= 1
  BY <1>1, TwoToTypes
<1> QED BY <1>2 DEF Effort

\* The sums exist.
LEMMA EffortsAreSums ==
    ASSUME NEW td \in Seq(Item), NEW n \in Nat, NEW fits
    PROVE  \E f : Sums(f, td, n, fits) /\ Efforts(td, n, fits) = f[Len(td)]
<1> DEFINE l == Len(td)
           E(i) == Effort(td, n, fits, i)
           Sum(f, i) == IF i = 0 THEN 0 ELSE f[i - 1] + E(i)
           To(f, k) == f = [i \in 0..l |-> f[i]] /\ \A i \in 0..l : i <= k => f[i] = Sum(f, i)
           S == {k \in Nat : \E f : To(f, k)}
           F == CHOOSE f : f = [i \in 0..l |-> Sum(f, i)]
<1>1. l \in Nat
  BY LenProperties
<1>2. 0 \in S
  <2>1. PICK f : f = [i \in 0..l |-> 0]
    OBVIOUS
  <2>2. \A i \in 0..l : i <= 0 => i = 0
    OBVIOUS
  <2>3. To(f, 0)
    BY <2>1, <2>2
  <2> QED BY <2>3
<1>3. ASSUME NEW k \in Nat, k \in S PROVE k + 1 \in S
  <2>1. PICK f : To(f, k)
    BY <1>3
  <2>2. PICK x : x = f[k] + E(k + 1)
    OBVIOUS
  <2>3. PICK g : g = [i \in 0..l |-> IF i = k + 1 THEN x ELSE f[i]]
    OBVIOUS
  <2>4. g = [i \in 0..l |-> g[i]]
    BY <2>3
  <2>5. ASSUME NEW i \in 0..l, i <= k + 1 PROVE g[i] = Sum(g, i)
    <3>1. i # 0 => i - 1 \in 0..l /\ i - 1 # k + 1 /\ g[i - 1] = f[i - 1]
      <4>1. i # 0 => i - 1 \in 0..l /\ i - 1 # k + 1
        BY <1>1, <2>5
      <4> QED BY <2>3, <4>1
    <3>2. CASE i = k + 1
      <4>1. i # 0 /\ i - 1 = k
        BY <3>2
      <4>2. g[i] = f[k] + E(k + 1)
        BY <2>2, <2>3, <3>2
      <4> QED BY <3>1, <3>2, <4>1, <4>2
    <3>3. CASE i # k + 1
      <4>1. i <= k
        BY <2>5, <3>3
      <4>2. f[i] = Sum(f, i) /\ g[i] = f[i]
        BY <2>1, <2>3, <3>3, <4>1
      <4> QED BY <3>1, <4>2
    <3> QED BY <3>2, <3>3
  <2>6. To(g, k + 1)
    BY <2>4, <2>5
  <2> QED BY <2>6
<1>4. F = [i \in 0..l |-> Sum(F, i)]
  <2>1. l \in S
    <3> HIDE DEF S
    <3> QED BY <1>1, <1>2, <1>3, Induction
  <2>2. PICK f : To(f, l)
    BY <2>1
  <2>3. \A i \in 0..l : f[i] = Sum(f, i)
    <3>1. \A i \in 0..l : i <= l
      BY <1>1
    <3> HIDE DEF Sum, l
    <3> QED BY <2>2, <3>1
  <2>4. f = [i \in 0..l |-> Sum(f, i)]
    BY <2>2, <2>3, Zenon
  <2> HIDE DEF Sum
  <2> QED BY <2>4, Zenon
<1>5. Efforts(td, n, fits) = F[l]
  BY Zenon DEF Efforts
<1>6. PICK f : f = F
  OBVIOUS
<1>7. f = [i \in 0..l |-> Sum(f, i)] /\ Efforts(td, n, fits) = f[l]
  BY <1>4, <1>5, <1>6, Zenon
<1> HIDE DEF F
<1>8. \A i \in 0..l : f[i] = Sum(f, i)
  <2> HIDE DEF Sum
  <2> QED BY <1>7
<1>9. 0 \in 0..l /\ \A i \in 1..l : i # 0 /\ i \in 0..l
  BY <1>1
<1>10. f[0] = 0 /\ \A i \in 1..l : f[i] = f[i - 1] + E(i)
  BY <1>8, <1>9
<1>11. \A i \in 0..l : f[i] \in Nat
  <2> DEFINE T == {k \in Nat : k <= l => f[k] \in Nat}
  <2>1. 0 \in T
    BY <1>10
  <2>2. ASSUME NEW k \in Nat, k \in T PROVE k + 1 \in T
    <3>1. SUFFICES ASSUME k + 1 <= l PROVE f[k + 1] \in Nat
      OBVIOUS
    <3>2. f[k] \in Nat /\ k + 1 \in 1..l /\ (k + 1) - 1 = k
      BY <1>1, <2>2, <3>1
    <3>3. f[k + 1] = f[k] + E(k + 1)
      BY <1>10, <3>2
    <3>4. E(k + 1) \in Nat
      BY EffortTypes
    <3> HIDE DEF E
    <3> QED BY <3>2, <3>3, <3>4
  <2>3. Nat \subseteq T
    <3> HIDE DEF T
    <3> QED BY <2>1, <2>2, Induction
  <2> QED BY <1>1, <2>3
<1>12. f \in [0..l -> Nat]
  BY <1>7, <1>11
<1>13. Sums(f, td, n, fits)
  BY <1>10, <1>12 DEF Sums
<1> QED BY <1>7, <1>13

\* Less to do for each record is less to do.
LEMMA LessEffort ==
    ASSUME NEW td \in Seq(Item), NEW n \in Nat, NEW p, NEW m \in Nat, NEW q,
           \A i \in 1..Len(td) : Effort(td, m, q, i) <= Effort(td, n, p, i)
    PROVE  Efforts(td, m, q) <= Efforts(td, n, p)
<1> DEFINE l == Len(td)
<1>1. l \in Nat
  BY LenProperties
<1>2. PICK f : Sums(f, td, n, p) /\ Efforts(td, n, p) = f[l]
  BY EffortsAreSums
<1>3. PICK g : Sums(g, td, m, q) /\ Efforts(td, m, q) = g[l]
  BY EffortsAreSums
<1> DEFINE S == {k \in Nat : k <= l => g[k] <= f[k]}
<1>4. 0 \in S
  BY <1>2, <1>3 DEF Sums
<1>5. ASSUME NEW k \in Nat, k \in S PROVE k + 1 \in S
  <2>1. SUFFICES ASSUME k + 1 <= l PROVE g[k + 1] <= f[k + 1]
    OBVIOUS
  <2>2. k + 1 \in 1..l /\ (k + 1) - 1 = k /\ k \in 0..l
    BY <1>1, <2>1
  <2>3. PICK a, b : a = Effort(td, m, q, k + 1) /\ b = Effort(td, n, p, k + 1)
    OBVIOUS
  <2>4. a \in Nat /\ b \in Nat /\ a <= b
    BY <2>2, <2>3, EffortTypes
  <2>5. g[k + 1] = g[k] + a /\ f[k + 1] = f[k] + b /\ g[k] \in Nat /\ f[k] \in Nat
    BY <1>2, <1>3, <2>2, <2>3 DEF Sums
  <2>6. g[k] <= f[k]
    BY <1>5, <2>1
  <2> QED BY <2>4, <2>5, <2>6
<1>6. Nat \subseteq S
  <2> HIDE DEF S
  <2> QED BY <1>4, <1>5, Induction
<1>7. g[l] <= f[l]
  BY <1>1, <1>6
<1> QED BY <1>2, <1>3, <1>7

\* A record that has been written is one less, whatever the next one's place.
LEMMA EffortWritten ==
    ASSUME NEW td \in Seq(Item), td # <<>>, NEW n \in Nat, NEW q, q => Head(Tail(td)).rotated
    PROVE  Efforts(Tail(td), n + 1, q) + 1 <= Efforts(td, n, TRUE)
<1> DEFINE l == Len(td)
<1>1. l \in Nat /\ l >= 1
  <2>1. Len(td) \in Nat /\ Len(td) # 0
    BY LenProperties, EmptySeq
  <2> QED BY <2>1
<1>2. PICK tl : tl = Tail(td)
  OBVIOUS
<1>3. tl \in Seq(Item) /\ Len(tl) = l - 1 /\ \A i \in 1..l - 1 : tl[i] = td[i + 1]
  BY <1>2, HeadTailProperties
<1>4. PICK f : Sums(f, td, n, TRUE) /\ Efforts(td, n, TRUE) = f[l]
  BY EffortsAreSums
<1>5. PICK g : Sums(g, tl, n + 1, q) /\ Efforts(tl, n + 1, q) = g[l - 1]
  BY <1>3, EffortsAreSums
<1>6. ASSUME NEW i \in 1..l - 1 PROVE Effort(tl, n + 1, q, i) = Effort(td, n, TRUE, i + 1)
  <2>1. tl[i] = td[i + 1] /\ i + 1 # 1 /\ (n + 1) + i = n + (i + 1)
    BY <1>1, <1>3
  <2>2. i = 1 /\ q => tl[i].rotated
    <3>1. i = 1 => tl # <<>>
      BY <1>1, <1>3
    <3>2. i = 1 => Head(tl) = tl[1]
      BY <1>3, <3>1
    <3> QED BY <1>2, <3>2
  <2>3. TwoTo[(n + 1) + i] = TwoTo[n + (i + 1)]
    BY <2>1, Zenon
  <2>4. CASE td[i + 1].rotated
    <3>1. Effort(tl, n + 1, q, i) = 1
      BY <2>1, <2>4, Zenon DEF Effort
    <3>2. Effort(td, n, TRUE, i + 1) = 1
      BY <2>4, Zenon DEF Effort
    <3> QED BY <3>1, <3>2, Zenon
  <2>5. CASE ~td[i + 1].rotated
    <3>1. Effort(tl, n + 1, q, i) = TwoTo[(n + 1) + i]
      BY <2>1, <2>2, <2>5, Zenon DEF Effort
    <3>2. Effort(td, n, TRUE, i + 1) = TwoTo[n + (i + 1)]
      BY <2>1, <2>5, Zenon DEF Effort
    <3> QED BY <2>3, <3>1, <3>2, Zenon
  <2> QED BY <2>4, <2>5, Zenon
<1> DEFINE S == {k \in Nat : k <= l - 1 => g[k] + 1 = f[k + 1]}
<1>7. 0 \in S
  <2>1. 1 \in 1..l /\ 1 - 1 = 0 /\ 0 + 1 = 1
    BY <1>1
  <2>2. Effort(td, n, TRUE, 1) = 1
    BY DEF Effort
  <2>3. f[1] = 0 + 1
    BY <1>4, <2>1, <2>2 DEF Sums
  <2> QED BY <1>5, <2>3 DEF Sums
<1>8. ASSUME NEW k \in Nat, k \in S PROVE k + 1 \in S
  <2>1. SUFFICES ASSUME k + 1 <= l - 1 PROVE g[k + 1] + 1 = f[(k + 1) + 1]
    OBVIOUS
  <2>2. /\ k + 1 \in 1..l - 1 /\ (k + 1) - 1 = k /\ k \in 0..l - 1
        /\ (k + 1) + 1 \in 1..l /\ ((k + 1) + 1) - 1 = k + 1
    BY <1>1, <2>1
  <2>3. PICK a : a = Effort(tl, n + 1, q, k + 1)
    OBVIOUS
  <2>4. a \in Nat /\ a = Effort(td, n, TRUE, (k + 1) + 1)
    <3>1. Effort(td, n, TRUE, (k + 1) + 1) \in Nat
      <4>1. (k + 1) + 1 \in Nat
        OBVIOUS
      <4> QED BY <4>1, EffortTypes
    <3>2. Effort(tl, n + 1, q, k + 1) = Effort(td, n, TRUE, (k + 1) + 1)
      BY <1>6, <2>2
    <3> QED BY <2>3, <3>1, <3>2, Zenon
  <2>5. g[k + 1] = g[k] + a /\ g[k] \in Nat
    BY <1>3, <1>5, <2>2, <2>3 DEF Sums
  <2>6. f[(k + 1) + 1] = f[k + 1] + a
    BY <1>4, <2>2, <2>4 DEF Sums
  <2>7. g[k] + 1 = f[k + 1]
    BY <1>1, <1>8, <2>1
  <2>8. PICK x, y, z, w : x = g[k] /\ y = f[k + 1] /\ z = g[k + 1] /\ w = f[(k + 1) + 1]
    OBVIOUS
  <2>9. z = x + a /\ w = y + a /\ x + 1 = y /\ x \in Nat
    BY <2>5, <2>6, <2>7, <2>8, Zenon
  <2>10. z + 1 = w
    <3>1. a \in Nat
      BY <2>4
    <3> QED BY <2>9, <3>1
  <2> QED BY <2>8, <2>10, Zenon
<1>9. Nat \subseteq S
  <2> HIDE DEF S
  <2> QED BY <1>7, <1>8, Induction
<1>10. g[l - 1] + 1 = f[l]
  <2>1. l - 1 \in Nat /\ (l - 1) + 1 = l
    BY <1>1
  <2> QED BY <1>9, <2>1
<1>11. f[l] \in Nat
  <2>1. l \in 0..l
    BY <1>1
  <2> QED BY <1>4, <2>1 DEF Sums
<1>12. Efforts(tl, n + 1, q) + 1 = f[l]
  BY <1>5, <1>10, Zenon
<1>13. f[l] <= f[l]
  BY <1>11
<1> QED BY <1>2, <1>4, <1>12, <1>13, Zenon

\* A record that a rotation is for, and all that is kept for it, are less than it was.
LEMMA EffortRotated ==
    ASSUME NEW td \in Seq(Item), td # <<>>, ~td[1].rotated, NEW rs \in Seq(Rec)
    PROVE  Efforts(ToWrite(Kept(rs), td), 0, FALSE) + 1 <= Efforts(td, Len(rs), FALSE)
<1> DEFINE l == Len(td)
           n == Len(rs)
           h == Len(rs) \div 2
<1>1. l \in Nat /\ l >= 1 /\ n \in Nat /\ h \in Nat /\ h <= n
  <2>1. Len(td) \in Nat /\ Len(td) # 0
    BY LenProperties, EmptySeq
  <2>2. Len(rs) \in Nat
    BY LenProperties
  <2> QED BY <2>1, <2>2
<1>2. PICK kept : kept = Kept(rs)
  OBVIOUS
<1>3. kept \in Seq(Rec) /\ Len(kept) = h
  BY <1>2, KeptRecords
<1>4. PICK all : all = ToWrite(kept, td)
  OBVIOUS
<1>5. /\ all \in Seq(Item) /\ Len(all) = h + l
      /\ \A i \in 1..h : all[i] = [id |-> kept[i].id, size |-> kept[i].size, rotated |-> FALSE]
      /\ all[h + 1] = [id |-> td[1].id, size |-> td[1].size, rotated |-> TRUE]
      /\ \A i \in 2..l : all[h + i] = td[i]
  <2>1. /\ all \in Seq(Item)
        /\ Len(all) = Len(kept) + Len(td)
        /\ \A i \in 1..Len(kept) :
              all[i] = [id |-> kept[i].id, size |-> kept[i].size, rotated |-> FALSE]
        /\ all[Len(kept) + 1] = [id |-> td[1].id, size |-> td[1].size, rotated |-> TRUE]
        /\ \A i \in 2..Len(td) : all[Len(kept) + i] = td[i]
    <3>1. kept \in Seq(Rec)
      BY <1>3
    <3> QED BY <1>4, <3>1, ToWriteIs
  <2>2. Len(kept) = h
    BY <1>3
  <2> HIDE DEF h
  <2> QED BY <2>1, <2>2
<1>6. PICK f : Sums(f, td, n, FALSE) /\ Efforts(td, n, FALSE) = f[l]
  <2>1. n \in Nat
    BY <1>1
  <2> QED BY <2>1, EffortsAreSums
<1>7. PICK g : Sums(g, all, 0, FALSE) /\ Efforts(all, 0, FALSE) = g[h + l]
  <2>1. all \in Seq(Item) /\ 0 \in Nat /\ Len(all) = h + l
    BY <1>5
  <2>2. \E g : Sums(g, all, 0, FALSE) /\ Efforts(all, 0, FALSE) = g[Len(all)]
    BY <2>1, EffortsAreSums
  <2> QED BY <2>1, <2>2, Zenon
<1> HIDE DEF l, n, h
<1>8. \A i \in 1..h + l : g[i] = g[i - 1] + Effort(all, 0, FALSE, i)
  BY <1>5, <1>7 DEF Sums
<1>9. \A i \in 1..l : f[i] = f[i - 1] + Effort(td, n, FALSE, i)
  BY <1>6 DEF Sums, l
<1>10. g \in [0..h + l -> Nat] /\ f \in [0..l -> Nat] /\ g[0] = 0 /\ f[0] = 0
  BY <1>5, <1>6, <1>7 DEF Sums, l
\* Those that are kept.
<1>11. g[h] + 2 = TwoTo[h + 1]
  <2> DEFINE S == {k \in Nat : k <= h => g[k] + 2 = TwoTo[k + 1]}
  <2>1. 0 \in S
    <3>1. TwoTo[0 + 1] = 2 * 1
      BY TwoToDoubles
    <3> QED BY <1>10, <3>1
  <2>2. ASSUME NEW k \in Nat, k \in S PROVE k + 1 \in S
    <3>1. SUFFICES ASSUME k + 1 <= h PROVE g[k + 1] + 2 = TwoTo[(k + 1) + 1]
      OBVIOUS
    <3>2. k + 1 \in 1..h /\ k + 1 \in 1..h + l /\ (k + 1) - 1 = k /\ k \in 0..h + l /\ 0 + (k + 1) = k + 1
      BY <1>1, <3>1
    <3>3. Effort(all, 0, FALSE, k + 1) = TwoTo[k + 1]
      <4>1. PICK x : x = all[k + 1]
        OBVIOUS
      <4>2. x.rotated = FALSE
        <5>1. PICK a, b : a = kept[k + 1].id /\ b = kept[k + 1].size
          OBVIOUS
        <5>2. all[k + 1] = [id |-> kept[k + 1].id, size |-> kept[k + 1].size, rotated |-> FALSE]
          BY <1>5, <3>2, Zenon
        <5>3. x = [id |-> a, size |-> b, rotated |-> FALSE]
          BY <4>1, <5>1, <5>2, Zenon
        <5> QED BY <5>3
      <4> QED BY <3>2, <4>1, <4>2 DEF Effort
    <3>4. PICK x, y : x = TwoTo[k + 1] /\ y = g[k]
      OBVIOUS
    <3>5. x \in Nat /\ y \in Nat /\ y + 2 = x
      <4>1. TwoTo[k + 1] \in Nat
        BY TwoToTypes
      <4>2. g[k] \in Nat
        BY <1>10, <3>2
      <4>3. g[k] + 2 = TwoTo[k + 1]
        BY <1>1, <2>2, <3>1
      <4> QED BY <3>4, <4>1, <4>2, <4>3, Zenon
    <3>6. g[k + 1] = y + x
      BY <1>8, <3>2, <3>3, <3>4
    <3>7. TwoTo[(k + 1) + 1] = 2 * x
      BY <3>4, TwoToDoubles
    <3> QED BY <3>5, <3>6, <3>7
  <2>3. Nat \subseteq S
    <3> HIDE DEF S
    <3> QED BY <2>1, <2>2, Induction
  <2> QED BY <1>1, <2>3
\* The one the rotation is for.
<1>12. g[h + 1] + 1 = TwoTo[h + 1]
  <2>1. h + 1 \in 1..h + l /\ (h + 1) - 1 = h /\ h \in 0..h + l
    BY <1>1
  <2>2. Effort(all, 0, FALSE, h + 1) = 1
    <3>1. all[h + 1].rotated = TRUE
      BY <1>5
    <3> QED BY <3>1, Zenon DEF Effort
  <2>3. g[h + 1] = g[h] + 1 /\ g[h] \in Nat
    BY <1>8, <1>10, <2>1, <2>2
  <2>4. PICK x : x = TwoTo[h + 1]
    OBVIOUS
  <2> QED BY <1>11, <2>3, <2>4
<1>13. f[1] = TwoTo[n + 1] /\ TwoTo[h + 1] <= TwoTo[n + 1]
  <2>1. 1 \in 1..l /\ 1 - 1 = 0
    BY <1>1
  <2>2. Effort(td, n, FALSE, 1) = TwoTo[n + 1]
    BY Zenon DEF Effort
  <2>3. TwoTo[n + 1] \in Nat /\ TwoTo[h + 1] \in Nat
    BY <1>1, TwoToTypes
  <2>4. f[1] = TwoTo[n + 1]
    <3>1. PICK x : x = TwoTo[n + 1]
      OBVIOUS
    <3>2. f[1] = f[0] + x
      BY <1>9, <2>1, <2>2, <3>1
    <3>3. f[1] = 0 + x
      BY <1>10, <3>2, Zenon
    <3> QED BY <2>3, <3>1, <3>3
  <2>5. TwoTo[n + 1] < TwoTo[h + 1] => n + 1 < h + 1
    BY <1>1, TwoToGrows
  <2>6. ~(n + 1 < h + 1)
    BY <1>1
  <2> QED BY <2>3, <2>4, <2>5, <2>6
\* What was to be written anyway.
<1>14. g[h + l] + 1 <= f[l]
  <2> DEFINE S == {k \in Nat : k + 1 <= l => g[h + (k + 1)] + 1 <= f[k + 1]}
  <2>1. 0 \in S
    <3>1. h + (0 + 1) = h + 1 /\ 0 + 1 = 1
      BY <1>1
    <3> QED BY <1>12, <1>13, <3>1
  <2>2. ASSUME NEW k \in Nat, k \in S PROVE k + 1 \in S
    <3>1. SUFFICES ASSUME (k + 1) + 1 <= l PROVE g[h + ((k + 1) + 1)] + 1 <= f[(k + 1) + 1]
      OBVIOUS
    <3>2. PICK i : i = (k + 1) + 1
      OBVIOUS
    <3>3. /\ i \in 2..l /\ i \in 1..l /\ h + i \in 1..h + l /\ i - 1 = k + 1 /\ (h + i) - 1 = h + (k + 1)
          /\ k + 1 \in 0..l /\ h + (k + 1) \in 0..h + l /\ i # 1 /\ h + i # 1 /\ i \in Nat
          /\ 0 + (h + i) = h + i
      BY <1>1, <3>1, <3>2
    <3>4. PICK a, b : a = Effort(all, 0, FALSE, h + i) /\ b = Effort(td, n, FALSE, i)
      OBVIOUS
    <3>5. a \in Nat /\ b \in Nat
      <4>1. h + i \in Nat /\ 0 \in Nat /\ n \in Nat /\ i \in Nat
        BY <1>1, <3>3
      <4>2. Effort(all, 0, FALSE, h + i) \in Nat
        BY <4>1, EffortTypes
      <4>3. Effort(td, n, FALSE, i) \in Nat
        BY <4>1, EffortTypes
      <4> QED BY <3>4, <4>2, <4>3, Zenon
    <3>6. a <= b
      <4>1. all[h + i] = td[i]
        BY <1>5, <3>3
      <4>2. TwoTo[h + i] <= TwoTo[n + i]
        <5>1. TwoTo[n + i] \in Nat /\ TwoTo[h + i] \in Nat
          BY <1>1, <3>3, TwoToTypes
        <5>2. TwoTo[n + i] < TwoTo[h + i] => n + i < h + i
          BY <1>1, <3>3, TwoToGrows
        <5>3. ~(n + i < h + i)
          BY <1>1, <3>3
        <5> QED BY <5>1, <5>2, <5>3
      <4>3. CASE td[i].rotated
        <5>1. a = 1 /\ b = 1
          BY <3>4, <4>1, <4>3, Zenon DEF Effort
        <5> QED BY <5>1
      <4>4. CASE ~td[i].rotated
        <5>1. a = TwoTo[0 + (h + i)] /\ b = TwoTo[n + i]
          BY <3>4, <4>1, <4>4, Zenon DEF Effort
        <5> QED BY <3>3, <4>2, <5>1
      <4> QED BY <4>3, <4>4
    <3>7. PICK x, y : x = g[h + (k + 1)] /\ y = f[k + 1]
      OBVIOUS
    <3>8. x \in Nat /\ y \in Nat /\ x + 1 <= y
      BY <1>10, <2>2, <3>1, <3>3, <3>7
    <3>9. g[h + i] = x + a /\ f[i] = y + b
      BY <1>8, <1>9, <3>3, <3>4, <3>7
    <3>10. (x + a) + 1 <= y + b
      BY <3>5, <3>6, <3>8
    <3> QED BY <3>2, <3>9, <3>10
  <2>3. Nat \subseteq S
    <3> HIDE DEF S
    <3> QED BY <2>1, <2>2, Induction
  <2>4. l - 1 \in Nat /\ (l - 1) + 1 = l
    BY <1>1
  <2> QED BY <1>1, <2>3, <2>4
<1>15. Efforts(all, 0, FALSE) = g[h + l] /\ Efforts(td, Len(rs), FALSE) = f[l]
  BY <1>6, <1>7 DEF n
<1> QED BY <1>2, <1>4, <1>14, <1>15

\* One record that is certain to be written, and nothing else, is the same to do
\* wherever the file's header points.
LEMMA SameEffort ==
    ASSUME NEW td \in Seq(Item), NEW n \in Nat, NEW m \in Nat, m = n \/ Len(td) = 1
    PROVE  Efforts(td, m, TRUE) <= Efforts(td, n, TRUE)
<1>1. ASSUME NEW i \in 1..Len(td) PROVE Effort(td, m, TRUE, i) <= Effort(td, n, TRUE, i)
  <2>1. CASE m = n
    <3>1. i \in Nat
      OBVIOUS
    <3>2. PICK a : a = Effort(td, n, TRUE, i)
      OBVIOUS
    <3>3. a \in Nat
      BY <3>1, <3>2, EffortTypes
    <3>4. a <= a
      BY <3>3
    <3> QED BY <2>1, <3>2, <3>4, Zenon
  <2>2. CASE Len(td) = 1
    <3>1. i = 1
      BY <2>2
    <3>2. Effort(td, m, TRUE, 1) = 1
      BY Zenon DEF Effort
    <3>3. Effort(td, n, TRUE, 1) = 1
      BY Zenon DEF Effort
    <3>4. 1 <= 1
      OBVIOUS
    <3> QED BY <3>1, <3>2, <3>3, <3>4, Zenon
  <2> QED BY <2>1, <2>2
<1> QED BY <1>1, LessEffort

\* A record that is certain to be written is less to do.
LEMMA FittingIsLess ==
    ASSUME NEW td \in Seq(Item), NEW n \in Nat, NEW b
    PROVE  Efforts(td, n, b) <= Efforts(td, n, FALSE)
<1>1. ASSUME NEW i \in 1..Len(td) PROVE Effort(td, n, b, i) <= Effort(td, n, FALSE, i)
  <2>1. i \in Nat
    OBVIOUS
  <2>2. PICK x, y : x = Effort(td, n, b, i) /\ y = Effort(td, n, FALSE, i)
    OBVIOUS
  <2>3. x \in Nat /\ y \in Nat /\ y >= 1
    BY <2>1, <2>2, EffortTypes
  <2>4. CASE td[i].rotated \/ (i = 1 /\ b)
    <3>1. x = 1
      BY <2>2, <2>4, Zenon DEF Effort
    <3> QED BY <2>2, <2>3, <3>1
  <2>5. CASE ~(td[i].rotated \/ (i = 1 /\ b))
    <3>1. x = TwoTo[n + i]
      BY <2>2, <2>5, Zenon DEF Effort
    <3>2. y = TwoTo[n + i]
      BY <2>2, <2>5, Zenon DEF Effort
    <3>3. x <= x
      BY <2>3
    <3> QED BY <2>2, <3>1, <3>2, <3>3, Zenon
  <2> QED BY <2>4, <2>5, Zenon
<1> QED BY <1>1, LessEffort

\* In the recorder: whether the first record's check has succeeded, how many records are
\* there, and what is left.
Fitting == rpc \in {"head", "body", "flush"}
Present == Len(ReadBack(data, mem))
Left == Efforts(todo, Present, Fitting)

\* The steps up to the next record, or the next rotation.
Rank == CASE rpc = "create" -> 5
          [] rpc = "check" -> 4
          [] rpc = "head" -> 3
          [] rpc = "body" -> 2
          [] rpc = "flush" -> 1
          [] OTHER -> 0

Rest == 5 * Left + Rank

\* All of these are numbers, before a step and after it.
LEMMA RestTypes ==
    TypeInv => /\ data \in Seq(Cell) /\ mem \in Headers /\ todo \in Seq(Item)
               /\ Present \in Nat /\ Left \in Nat /\ Rank \in Nat /\ Rest \in Nat
<1> SUFFICES ASSUME TypeInv
             PROVE  /\ data \in Seq(Cell) /\ mem \in Headers /\ todo \in Seq(Item)
                    /\ Present \in Nat /\ Left \in Nat /\ Rank \in Nat /\ Rest \in Nat
  OBVIOUS
<1>1. data \in Seq(Cell) /\ mem \in Headers /\ todo \in Seq(Item)
  BY DEF TypeInv, TypeOK
<1>2. Present \in Nat
  BY <1>1, ReadBackTypes, LenProperties DEF Present
<1>3. Left \in Nat
  <2>1. PICK f : Sums(f, todo, Present, Fitting) /\ Efforts(todo, Present, Fitting) = f[Len(todo)]
    BY <1>1, <1>2, EffortsAreSums
  <2>2. Len(todo) \in 0..Len(todo)
    BY <1>1, LenProperties
  <2>3. f[Len(todo)] \in Nat
    BY <2>1, <2>2 DEF Sums
  <2> QED BY <2>1, <2>3 DEF Left
<1>4. Rank \in Nat
  BY DEF Rank
<1>5. Rest \in Nat
  BY <1>3, <1>4 DEF Rest
<1> QED BY <1>1, <1>2, <1>3, <1>4, <1>5

LEMMA RestTypesAfter ==
    TypeInv' => (/\ todo \in Seq(Item)
                 /\ Present \in Nat /\ Left \in Nat /\ Rank \in Nat /\ Rest \in Nat)'
<1>1. TypeInv => todo \in Seq(Item) /\ Present \in Nat /\ Left \in Nat /\ Rank \in Nat /\ Rest \in Nat
  BY RestTypes
<1> QED BY <1>1, PTL

\* The rank grows by less than one effort is worth.
LEMMA RestFalls ==
    ASSUME TypeInv, TypeInv',
           \/ Left' <= Left /\ Rank' < Rank
           \/ Left' + 1 <= Left /\ Rank' < Rank + 5
    PROVE  Rest' < Rest
<1>1. Left \in Nat /\ Rank \in Nat /\ Left' \in Nat /\ Rank' \in Nat
  BY RestTypes, RestTypesAfter
<1>2. \A a, b, p, q \in Nat : b <= a /\ q < p => 5 * b + q < 5 * a + p
  OBVIOUS
<1>3. \A a, b, p, q \in Nat : b + 1 <= a /\ q < p + 5 => 5 * b + q < 5 * a + p
  OBVIOUS
<1>4. 5 * Left' + Rank' < 5 * Left + Rank
  BY <1>1, <1>2, <1>3, Zenon
<1>5. Rest' = 5 * Left' + Rank' /\ Rest = 5 * Left + Rank
  BY DEF Rest
<1> QED BY <1>4, <1>5, Zenon

\* Every step of a record's writing brings its end nearer.
LEMMA WritingEnds ==
    ASSUME TypeInv, TypeInv', RotationInv, LayoutInv, Write
    PROVE  Rest' < Rest
<1>1. /\ data \in Seq(Cell) /\ mem \in Headers /\ todo \in Seq(Item)
      /\ Present \in Nat /\ Left \in Nat
  BY RestTypes
<1>2. todo' \in Seq(Item) /\ Present' \in Nat /\ Left' \in Nat
  BY RestTypesAfter
<1>3. rpc \in {"check", "head", "body", "flush"} => todo # <<>> /\ Head(todo) = todo[1] /\ Head(todo) \in Item
  BY <1>1, HeadTailProperties DEF TypeInv, TypeOK
<1>4. ~memOk /\ todo # <<>> => Len(todo) = 1
  <2>1. SUFFICES ASSUME ~memOk, todo # <<>> PROVE Len(todo) = 1
    OBVIOUS
  <2>2. Len(todo) \in Nat /\ Len(todo) # 0
    BY <1>1, <2>1, LenProperties, EmptySeq
  <2>3. ~(Len(todo) >= 2)
    <3>1. SUFFICES ASSUME Len(todo) >= 2 PROVE FALSE
      OBVIOUS
    <3>2. Len(todo) \in 1..Len(todo) /\ todo[Len(todo)].rotated
      BY <2>2, <3>1 DEF RotationInv
    <3>3. memOk
      BY <3>2, Zenon DEF RotationInv
    <3> QED BY <2>1, <3>3, Zenon
  <2>4. \A n \in Nat : n # 0 /\ ~(n >= 2) => n = 1
    OBVIOUS
  <2> QED BY <2>2, <2>3, <2>4, Zenon
\* The same of what is left after the step.
<1>5. \A n, b : n = Present' /\ b = Fitting' => Left' = Efforts(todo', n, b)
  BY DEF Left
<1>6. CASE CreateHeader
  <2>1. rpc = "create" /\ UNCHANGED <<data, mem, todo>> /\ rpc' \in {"idle", "check", "head"}
    BY <1>6, Proceeds DEF CreateHeader
  <2>2. Present' = Present /\ Fitting = FALSE
    BY <2>1 DEF Present, Fitting
  <2>3. PICK b : b = Fitting'
    OBVIOUS
  <2>4. Left' = Efforts(todo, Present, b) /\ Left = Efforts(todo, Present, FALSE)
    BY <1>5, <2>1, <2>2, <2>3 DEF Left
  <2>6. Left' <= Left
    BY <1>1, <2>4, FittingIsLess
  <2>7. Rank' < Rank
    BY <2>1 DEF Rank
  <2> QED BY <2>6, <2>7, RestFalls
<1>7. CASE Check
  <2>1. rpc = "check" /\ UNCHANGED <<data, mem, todo>> /\ rpc' = "head"
    BY <1>7 DEF Check
  <2>2. Present' = Present /\ Fitting = FALSE /\ Fitting' = TRUE
    BY <2>1 DEF Present, Fitting
  <2>3. Left' = Efforts(todo, Present, TRUE) /\ Left = Efforts(todo, Present, FALSE)
    BY <1>5, <2>1, <2>2 DEF Left
  <2>5. Left' <= Left
    BY <1>1, <2>3, FittingIsLess
  <2>6. Rank' < Rank
    BY <2>1 DEF Rank
  <2> QED BY <2>5, <2>6, RestFalls
<1>8. CASE Rotate
  <2> DEFINE rs == ReadBack(data, mem)
  <2>1. /\ rpc = "check" /\ rpc' = "create" /\ todo # <<>>
        /\ todo' = ToWrite(Kept(rs), todo) /\ data' = <<>> /\ mem' = NoData
    BY <1>3, <1>8 DEF Rotate, ToWrite
  <2>2. rs \in Seq(Rec) /\ ~todo[1].rotated
    BY <1>1, <2>1, ReadBackTypes DEF RotationInv
  <2>3. Present' = 0 /\ Fitting = FALSE /\ Fitting' = FALSE
    <3>1. Present' = Len(ReadBack(data', mem'))
      BY DEF Present
    <3>2. Present' = Len(<<>>)
      BY <2>1, <3>1, NothingWritten
    <3> QED BY <2>1, <3>2 DEF Fitting
  <2>4. Left' = Efforts(ToWrite(Kept(rs), todo), 0, FALSE)
    BY <1>5, <2>1, <2>3
  <2>5. Left = Efforts(todo, Len(rs), FALSE)
    BY <2>3 DEF Left, Present
  <2>6. Left' + 1 <= Left
    <3> HIDE DEF rs
    <3> QED BY <1>1, <2>1, <2>2, <2>4, <2>5, EffortRotated
  <2>7. Rank' < Rank + 5
    BY <2>1 DEF Rank
  <2> QED BY <2>6, <2>7, RestFalls
<1>9. CASE WriteHead \/ WriteBody
  <2>1. UNCHANGED <<mem, todo>> /\ todo # <<>> /\ Fitting = TRUE /\ Fitting' = TRUE
    BY <1>3, <1>9 DEF WriteHead, WriteBody, Fitting
  <2>2. memOk => ReadBack(data', mem') = ReadBack(data, mem)
    <3>1. CASE WriteHead
      <4>1. rpc = "head" /\ mem' = mem /\ data' = Put(data, mem.size, SubSeq(Cells(Head(todo)), 1, 1))
        BY <3>1 DEF WriteHead, EndOfData
      <4> QED BY <1>1, <1>3, <4>1, HeadWritten DEF LayoutInv
    <3>2. CASE WriteBody
      <4>1. rpc = "body" /\ mem' = mem /\ data' = Put(data, mem.size + 1, Tail(Cells(Head(todo))))
        BY <3>2 DEF WriteBody, EndOfData
      <4> QED BY <1>1, <1>3, <4>1, BodyWritten DEF LayoutInv
    <3> QED BY <1>9, <3>1, <3>2
  <2>3. Present' = Present \/ Len(todo) = 1
    BY <1>4, <2>1, <2>2 DEF Present
  <2>4. PICK m : m = Present'
    OBVIOUS
  <2>5. Left' = Efforts(todo, m, TRUE) /\ Left = Efforts(todo, Present, TRUE)
    BY <1>5, <2>1, <2>4 DEF Left
  <2>6. m \in Nat /\ (m = Present \/ Len(todo) = 1)
    BY <1>2, <2>3, <2>4
  <2>7. Left' <= Left
    BY <1>1, <2>5, <2>6, SameEffort
  <2>8. Rank' < Rank
    BY <1>9 DEF Rank, WriteHead, WriteBody
  <2> QED BY <2>7, <2>8, RestFalls
<1>10. CASE Flush
  <2>1. /\ rpc = "flush" /\ todo # <<>> /\ todo' = Tail(todo) /\ UNCHANGED data
        /\ mem' = [size |-> mem.size + Head(todo).size, count |-> mem.count + 1]
        /\ rpc' \in {"idle", "check", "head"}
    BY <1>3, <1>10, Proceeds DEF Flush
  <2>2. Fitting = TRUE
    BY <2>1 DEF Fitting
  <2>3. PICK m, b : m = Present' /\ b = Fitting'
    OBVIOUS
  <2>4. Left' = Efforts(Tail(todo), m, b) /\ Left = Efforts(todo, Present, TRUE)
    BY <1>5, <2>1, <2>2, <2>3 DEF Left
  <2>5. b \in BOOLEAN /\ (b => Head(Tail(todo)).rotated)
    <3>1. b = (rpc' = "head")
      BY <2>1, <2>3 DEF Fitting
    <3>2. rpc' = "head" => Head(todo').rotated
      BY <1>10 DEF Flush, Proceed
    <3> QED BY <2>1, <3>1, <3>2
  <2>6. Left' + 1 <= Left
    <3>1. CASE memOk
      <4>1. m = Present + 1
        <5>1. /\ Whole(data, mem) /\ mem.size + Head(todo).size <= Len(data)
              /\ \A j \in 1..Head(todo).size : data[mem.size + j] = Cells(Head(todo))[j]
          BY <2>1, <3>1 DEF LayoutInv
        <5>2. ReadBack(data, mem') =
                 Append(ReadBack(data, mem), [id |-> Head(todo).id, size |-> Head(todo).size, at |-> mem.size])
          BY <1>1, <1>3, <2>1, <5>1, RecordDescribed
        <5>3. PICK rs, x : rs = ReadBack(data, mem)
                           /\ x = [id |-> Head(todo).id, size |-> Head(todo).size, at |-> mem.size]
          OBVIOUS
        <5>4. rs \in Seq(Rec)
          BY <1>1, <5>3, ReadBackTypes
        <5>5. Len(Append(rs, x)) = Len(rs) + 1
          BY <5>4
        <5>6. m = Len(Append(rs, x))
          BY <2>1, <2>3, <5>2, <5>3 DEF Present
        <5> QED BY <5>3, <5>5, <5>6 DEF Present
      <4> QED BY <1>1, <2>1, <2>4, <2>5, <4>1, EffortWritten
    <3>2. CASE ~memOk
      \* Nothing is left, however many records the header may describe.
      <4>1. Len(todo) = 1
        BY <1>4, <2>1, <3>2
      <4>2. Efforts(Tail(todo), Present + 1, b) + 1 <= Efforts(todo, Present, TRUE)
        BY <1>1, <2>1, <2>5, EffortWritten
      <4>3. Tail(todo) \in Seq(Item) /\ Len(Tail(todo)) = 0
        BY <1>1, <2>1, <4>1, HeadTailProperties
      <4>4. ASSUME NEW n \in Nat PROVE Efforts(Tail(todo), n, b) = 0
        <5>1. PICK f : Sums(f, Tail(todo), n, b) /\ Efforts(Tail(todo), n, b) = f[Len(Tail(todo))]
          BY <4>3, EffortsAreSums
        <5> QED BY <4>3, <5>1 DEF Sums
      <4>5. Efforts(Tail(todo), m, b) = 0 /\ Efforts(Tail(todo), Present + 1, b) = 0
        BY <1>1, <1>2, <2>3, <4>4
      <4> QED BY <2>4, <4>2, <4>5
    <3> QED BY <3>1, <3>2
  <2>7. Rank' < Rank + 5
    BY <2>1 DEF Rank
  <2> QED BY <2>6, <2>7, RestFalls
<1> QED BY <1>6, <1>7, <1>8, <1>9, <1>10 DEF Write

(* Whatever sizes the records have, and whatever a rotation keeps, what is   *)
(* left of a record's writing becomes less with every step of it, and no    *)
(* other step makes it more: rotations inside rotations come to an end.     *)
THEOREM RotationsComeToAnEnd ==
    Spec => /\ [](Rest \in Nat)
            /\ [][/\ Write => Rest' < Rest
                  /\ rpc \notin {"idle", "off"} /\ rpc' \notin {"idle", "off"} => Rest' <= Rest]_vars
<1> DEFINE IInv == TypeInv /\ RotationInv /\ HeaderInv /\ LayoutInv
           Less == /\ Write => Rest' < Rest
                   /\ rpc \notin {"idle", "off"} /\ rpc' \notin {"idle", "off"} => Rest' <= Rest
<1>1. IInv => Rest \in Nat
  BY RestTypes
<1>2. IInv /\ IInv' /\ [Next]_vars => [Less]_vars
  <2>1. SUFFICES ASSUME IInv, IInv', Next PROVE Less
    OBVIOUS
  <2>2. Write => Rest' < Rest
    BY <2>1, WritingEnds
  <2>3. ASSUME rpc \notin {"idle", "off"}, rpc' \notin {"idle", "off"} PROVE Rest' <= Rest
    <3>1. Rest \in Nat /\ Rest' \in Nat
      BY <2>1, RestTypes, RestTypesAfter
    <3>2. CASE Write
      BY <2>1, <2>2, <3>1, <3>2
    <3>3. CASE \E v \in Viewers : OpenViewer(v) \/ CloseViewer(v)
      <4>1. UNCHANGED <<data, mem, todo, rpc>>
        BY <3>3 DEF OpenViewer, CloseViewer
      <4>2. Rest' = Rest
        BY <4>1 DEF Rest, Left, Rank, Present, Fitting
      <4> QED BY <3>1, <4>2
    <3>4. CASE Create \/ OpenExisting \/ Record \/ Close \/ Crash \/ Fail
      BY <2>3, <3>4 DEF Create, OpenExisting, Record, Close, Crash, Fail, Gone
    <3> QED BY <2>1, <3>2, <3>3, <3>4 DEF Next, Recorder
  <2> QED BY <2>2, <2>3
<1> QED BY LayoutAlways, <1>1, <1>2, PTL DEF Spec

=============================================================================
