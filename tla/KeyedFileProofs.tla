-------------------------- MODULE KeyedFileProofs --------------------------
(***************************************************************************)
(* The indexes of an INDEXED file describe its records, and its verbs are  *)
(* those of KeyedStore, for every number of keys, of entries to a leaf and *)
(* of verbs, and for every file a load made.  An insertion and a removal   *)
(* keep a tree in order; a verb that is refused leaves everything as it    *)
(* was; each inverse verb of ROLLBACK keeps the indexes, whatever it is    *)
(* answered, and takes the records to what they were before the verb it    *)
(* undoes.                                                                 *)
(***************************************************************************)
EXTENDS KeyedFile, FiniteSetTheorems, SequenceTheorems, WellFoundedInduction, TLAPS

-----------------------------------------------------------------------------
(* Numbers, and sequences that one element is put into or taken from.      *)

LEMMA LeastNumber ==
  ASSUME NEW T, T \subseteq Nat, T # {}
  PROVE  \E m \in T : \A n \in T : m <= n
<1> DEFINE Below == {0 .. n : n \in T}
<1>1. IsWellFoundedOn(StrictSubsetOrdering(Nat), FiniteSubsetsOf(Nat))
  BY FS_StrictSubsetOrderingWellFounded
<1>2. Below \subseteq FiniteSubsetsOf(Nat)
  <2> SUFFICES ASSUME NEW n \in Nat PROVE 0 .. n \in FiniteSubsetsOf(Nat)
    BY Zenon
  <2>1. IsFiniteSet(0 .. n)
    BY FS_Interval
  <2> QED
    BY <2>1 DEF FiniteSubsetsOf
<1>3. Below # {}
  OBVIOUS
<1> HIDE DEF Below
<1>4. PICK x \in Below : \A y \in Below : ~(<<y, x>> \in StrictSubsetOrdering(Nat))
  BY <1>1, <1>2, <1>3, WFMin
<1>5. PICK m \in T : x = 0 .. m
  BY DEF Below
<1>6. ASSUME NEW n \in T PROVE m <= n
  <2>1. 0 .. n \in Below
    BY DEF Below
  <2>2. CASE n < m
    <3>1. 0 .. n \subseteq 0 .. m /\ 0 .. n # 0 .. m /\ 0 .. n \subseteq Nat /\ 0 .. m \subseteq Nat
      <4>1. m \in 0 .. m /\ m \notin 0 .. n
        BY <2>2
      <4> QED BY <2>2, <4>1
    <3> QED
      BY <1>4, <1>5, <2>1, <3>1 DEF StrictSubsetOrdering
  <2> QED
    BY <2>2
<1> QED
  BY <1>6

LEMMA InsertedAt ==
  ASSUME NEW S, NEW s \in Seq(S), NEW i \in 1 .. Len(s) + 1, NEW e \in S
  PROVE  /\ InsertAt(s, i, e) \in Seq(S)
         /\ Len(InsertAt(s, i, e)) = Len(s) + 1
         /\ \A n \in 1 .. Len(s) + 1 :
              InsertAt(s, i, e)[n] = IF n < i THEN s[n] ELSE IF n = i THEN e ELSE s[n - 1]
<1> DEFINE a == SubSeq(s, 1, i - 1)
           b == SubSeq(s, i, Len(s))
<1>0. Len(s) \in Nat
  BY LenProperties
<1>1. a \in Seq(S) /\ Len(a) = i - 1 /\ \A n \in 1 .. i - 1 : a[n] = s[n]
  BY <1>0, SubSeqProperties
<1>2. b \in Seq(S) /\ Len(b) = Len(s) + 1 - i /\ \A n \in 1 .. Len(s) + 1 - i : b[n] = s[i + n - 1]
  BY <1>0, SubSeqProperties
<1>3. <<e>> \in Seq(S) /\ Len(<<e>>) = 1 /\ <<e>>[1] = e
  OBVIOUS
<1> HIDE DEF a, b
<1>4. /\ a \o <<e>> \in Seq(S) /\ Len(a \o <<e>>) = i
      /\ \A n \in 1 .. i : (a \o <<e>>)[n] = IF n <= i - 1 THEN a[n] ELSE <<e>>[n - (i - 1)]
  BY <1>0, <1>1, <1>3, ConcatProperties
<1>5. /\ (a \o <<e>>) \o b \in Seq(S) /\ Len((a \o <<e>>) \o b) = Len(s) + 1
      /\ \A n \in 1 .. Len(s) + 1 : ((a \o <<e>>) \o b)[n] = IF n <= i THEN (a \o <<e>>)[n] ELSE b[n - i]
  <2> DEFINE c == a \o <<e>>
  <2>1. c \in Seq(S) /\ Len(c) = i
    BY <1>4
  <2> HIDE DEF c
  <2>2. /\ c \o b \in Seq(S) /\ Len(c \o b) = Len(c) + Len(b)
        /\ \A n \in 1 .. Len(c) + Len(b) : (c \o b)[n] = IF n <= Len(c) THEN c[n] ELSE b[n - Len(c)]
    BY <1>2, <2>1, ConcatProperties
  <2>3. Len(c) + Len(b) = Len(s) + 1
    BY <1>0, <1>2, <2>1
  <2>4. /\ c \o b \in Seq(S) /\ Len(c \o b) = Len(s) + 1
        /\ \A n \in 1 .. Len(s) + 1 : (c \o b)[n] = IF n <= i THEN c[n] ELSE b[n - i]
    BY <2>1, <2>2, <2>3
  <2> QED
    BY <2>4 DEF c
<1>6. InsertAt(s, i, e) = (a \o <<e>>) \o b
  BY DEF InsertAt, a, b
<1>7. ASSUME NEW n \in 1 .. Len(s) + 1
      PROVE  ((a \o <<e>>) \o b)[n] = IF n < i THEN s[n] ELSE IF n = i THEN e ELSE s[n - 1]
  <2>1. CASE n < i
    BY <1>0, <1>1, <1>4, <1>5, <2>1
  <2>2. CASE n = i
    BY <1>0, <1>3, <1>4, <1>5, <2>2
  <2>3. CASE n > i
    <3>1. n - i \in 1 .. Len(s) + 1 - i /\ i + (n - i) - 1 = n - 1
      BY <1>0, <2>3
    <3> QED
      BY <1>0, <1>2, <1>5, <2>3, <3>1
  <2>4. n < i \/ n = i \/ n > i
    BY <1>0
  <2> HIDE DEF InsertAt
  <2>5. ~(n < i /\ n = i) /\ ~(n < i /\ n > i) /\ ~(n = i /\ n > i)
    BY <1>0
  <2> QED
    BY <2>1, <2>2, <2>3, <2>4, <2>5, Zenon
<1> QED
  BY <1>5, <1>6, <1>7

LEMMA RemovedAt ==
  ASSUME NEW S, NEW s \in Seq(S), NEW i \in 1 .. Len(s)
  PROVE  /\ RemoveAt(s, i) \in Seq(S)
         /\ Len(RemoveAt(s, i)) = Len(s) - 1
         /\ \A n \in 1 .. Len(s) - 1 : RemoveAt(s, i)[n] = IF n < i THEN s[n] ELSE s[n + 1]
<1> DEFINE a == SubSeq(s, 1, i - 1)
           b == SubSeq(s, i + 1, Len(s))
<1>0. Len(s) \in Nat
  BY LenProperties
<1>1. a \in Seq(S) /\ Len(a) = i - 1 /\ \A n \in 1 .. i - 1 : a[n] = s[n]
  BY <1>0, SubSeqProperties
<1>2. b \in Seq(S) /\ Len(b) = Len(s) - i /\ \A n \in 1 .. Len(s) - i : b[n] = s[i + n]
  <2>1. /\ b \in Seq(S)
        /\ Len(b) = IF i + 1 <= Len(s) THEN Len(s) - (i + 1) + 1 ELSE 0
        /\ \A n \in 1 .. Len(s) - (i + 1) + 1 : b[n] = s[(i + 1) + n - 1]
    BY <1>0, SubSeqProperties
  <2> HIDE DEF b
  <2> QED
    BY <1>0, <2>1
<1> HIDE DEF a, b
<1>3. /\ a \o b \in Seq(S) /\ Len(a \o b) = Len(s) - 1
      /\ \A n \in 1 .. Len(s) - 1 : (a \o b)[n] = IF n <= i - 1 THEN a[n] ELSE b[n - (i - 1)]
  <2>1. /\ a \o b \in Seq(S) /\ Len(a \o b) = Len(a) + Len(b)
        /\ \A n \in 1 .. Len(a) + Len(b) : (a \o b)[n] = IF n <= Len(a) THEN a[n] ELSE b[n - Len(a)]
    BY <1>1, <1>2, ConcatProperties
  <2>2. Len(a) + Len(b) = Len(s) - 1
    BY <1>0, <1>1, <1>2
  <2> QED
    BY <1>1, <2>1, <2>2
<1>4. RemoveAt(s, i) = a \o b
  BY DEF RemoveAt, a, b
<1>5. ASSUME NEW n \in 1 .. Len(s) - 1 PROVE (a \o b)[n] = IF n < i THEN s[n] ELSE s[n + 1]
  <2>1. CASE n < i
    BY <1>0, <1>1, <1>3, <2>1
  <2>2. CASE ~(n < i)
    <3>1. n - (i - 1) \in 1 .. Len(s) - i /\ i + (n - (i - 1)) = n + 1
      BY <1>0, <2>2
    <3> QED
      BY <1>0, <1>2, <1>3, <2>2, <3>1
  <2> QED
    BY <2>1, <2>2
<1> QED
  BY <1>3, <1>4, <1>5

-----------------------------------------------------------------------------
(* Keys, and the entries of a leaf.                                        *)

TreeKey == Nat \X Nat
Entry   == [key : TreeKey, id : Nat]

LEMMA KeysOrdered ==
  \A a, b, c \in TreeKey : /\ ~Less(a, a)
                           /\ Less(a, b) => ~Less(b, a)
                           /\ Less(a, b) \/ a = b \/ Less(b, a)
                           /\ Less(a, b) /\ Less(b, c) => Less(a, c)
                           /\ Less(a, b) /\ ~Less(c, b) => Less(a, c)
                           /\ ~Less(b, a) /\ Less(b, c) => Less(a, c)
                           /\ ~Less(b, a) /\ ~Less(c, b) => ~Less(c, a)
BY DEF TreeKey, Less

Ascending(es) == \A m, n \in DOMAIN es : m < n => Less(es[m].key, es[n].key)
SetOf(es) == {es[n] : n \in DOMAIN es}

LEMMA PlaceIs ==
  ASSUME NEW es \in Seq(Entry), Ascending(es), NEW key \in TreeKey
  PROVE  /\ Place(es, key) \in 1 .. Len(es) + 1
         /\ \A i \in DOMAIN es : i < Place(es, key) <=> Less(es[i].key, key)
<1>0. Len(es) \in Nat /\ DOMAIN es = 1 .. Len(es) /\ \A i \in DOMAIN es : es[i] \in Entry /\ es[i].key \in TreeKey
  <2>1. Len(es) \in Nat /\ DOMAIN es = 1 .. Len(es)
    BY LenProperties
  <2>2. \A i \in 1 .. Len(es) : es[i] \in Entry
    BY ElementOfSeq
  <2>3. \A x \in Entry : x.key \in TreeKey
    BY DEF Entry
  <2> QED
    BY <2>1, <2>2, <2>3
<1> DEFINE T == {n \in 1 .. Len(es) + 1 : n = Len(es) + 1 \/ ~Less(es[n].key, key)}
<1>1. T \subseteq Nat /\ T # {}
  <2>1. Len(es) + 1 \in T
    BY <1>0
  <2> QED
    BY <1>0, <2>1
<1>2. PICK m \in T : \A n \in T : m <= n
  <2> HIDE DEF T
  <2> QED BY <1>1, LeastNumber
<1>3. ASSUME NEW i \in DOMAIN es PROVE i < m <=> Less(es[i].key, key)
  <2>1. ASSUME i < m PROVE Less(es[i].key, key)
    BY <1>0, <1>2, <2>1
  <2>2. ASSUME ~(i < m) PROVE ~Less(es[i].key, key)
    <3>1. m \in DOMAIN es /\ ~Less(es[m].key, key)
      BY <1>0, <2>2
    <3>2. CASE i = m
      BY <3>1, <3>2
    <3>3. CASE m < i
      <4>1. Less(es[m].key, es[i].key)
        BY <3>1, <3>3 DEF Ascending
      <4> QED
        BY <1>0, <3>1, <4>1, KeysOrdered
    <3> QED
      BY <1>0, <2>2, <3>2, <3>3
  <2> QED
    BY <2>1, <2>2
<1>4. m \in 1 .. Len(es) + 1
  OBVIOUS
<1> HIDE DEF T
<1> QED
  BY <1>3, <1>4 DEF Place

LEMMA EntriesTyped ==
  ASSUME NEW es \in Seq(Entry)
  PROVE  /\ Len(es) \in Nat /\ DOMAIN es = 1 .. Len(es)
         /\ \A i \in DOMAIN es : es[i] \in Entry /\ es[i].key \in TreeKey /\ es[i].id \in Nat
<1>1. Len(es) \in Nat /\ DOMAIN es = 1 .. Len(es)
  BY LenProperties
<1>2. \A i \in 1 .. Len(es) : es[i] \in Entry
  BY ElementOfSeq
<1>3. \A x \in Entry : x.key \in TreeKey /\ x.id \in Nat
  BY DEF Entry
<1> QED
  BY <1>1, <1>2, <1>3

(* An entry with a new key joins a leaf.                                   *)
LEMMA WithIs ==
  ASSUME NEW es \in Seq(Entry), Ascending(es), NEW key \in TreeKey, NEW id \in Nat,
         \A n \in DOMAIN es : es[n].key # key
  PROVE  /\ With(es, key, id) \in Seq(Entry) /\ Ascending(With(es, key, id))
         /\ Len(With(es, key, id)) = Len(es) + 1
         /\ SetOf(With(es, key, id)) = SetOf(es) \cup {[key |-> key, id |-> id]}
<1> DEFINE p == Place(es, key)
           e == [key |-> key, id |-> id]
           w == InsertAt(es, p, e)
<1>0. Len(es) \in Nat /\ DOMAIN es = 1 .. Len(es) /\ \A i \in DOMAIN es : es[i].key \in TreeKey
  BY EntriesTyped
<1>1. p \in 1 .. Len(es) + 1 /\ \A i \in DOMAIN es : i < p <=> Less(es[i].key, key)
  BY PlaceIs
<1>2. e \in Entry
  BY DEF Entry
<1>3. With(es, key, id) = w
  BY DEF With, Has
<1> HIDE DEF p, e
<1>4. /\ w \in Seq(Entry) /\ Len(w) = Len(es) + 1
      /\ \A n \in 1 .. Len(es) + 1 : w[n] = IF n < p THEN es[n] ELSE IF n = p THEN e ELSE es[n - 1]
  BY <1>1, <1>2, InsertedAt
<1> HIDE DEF w
<1>5. DOMAIN w = 1 .. Len(es) + 1
  BY <1>4, LenProperties
<1>6. e.key = key
  BY DEF e
<1>7. \A i \in DOMAIN es : i >= p => Less(key, es[i].key)
  BY <1>0, <1>1, KeysOrdered
<1>8. ASSUME NEW m \in DOMAIN w, NEW n \in DOMAIN w, m < n
      PROVE  Less(w[m].key, w[n].key)
  <2>1. CASE n < p
    <3>1. w[m] = es[m] /\ w[n] = es[n] /\ m \in DOMAIN es /\ n \in DOMAIN es
      BY <1>0, <1>1, <1>4, <1>5, <1>8, <2>1
    <3> QED
      BY <3>1, <1>8 DEF Ascending
  <2>2. CASE n = p
    <3>1. w[m] = es[m] /\ w[n] = e /\ m \in DOMAIN es /\ m < p
      BY <1>0, <1>1, <1>4, <1>5, <1>8, <2>2
    <3> QED
      BY <3>1, <1>1, <1>6
  <2>3. CASE n > p /\ m < p
    <3>1. w[m] = es[m] /\ w[n] = es[n - 1] /\ m \in DOMAIN es /\ n - 1 \in DOMAIN es /\ m < n - 1
      BY <1>0, <1>1, <1>4, <1>5, <1>8, <2>3
    <3> QED
      BY <3>1 DEF Ascending
  <2>4. CASE n > p /\ m = p
    <3>1. w[m] = e /\ w[n] = es[n - 1] /\ n - 1 \in DOMAIN es /\ n - 1 >= p
      BY <1>0, <1>1, <1>4, <1>5, <1>8, <2>4
    <3> QED
      BY <3>1, <1>6, <1>7
  <2>5. CASE n > p /\ m > p
    <3>1. w[m] = es[m - 1] /\ w[n] = es[n - 1] /\ m - 1 \in DOMAIN es /\ n - 1 \in DOMAIN es /\ m - 1 < n - 1
      BY <1>0, <1>1, <1>4, <1>5, <1>8, <2>5
    <3> QED
      BY <3>1 DEF Ascending
  <2> QED
    BY <1>0, <1>1, <1>5, <2>1, <2>2, <2>3, <2>4, <2>5
<1>9. ASSUME NEW x \in SetOf(w) PROVE x \in SetOf(es) \cup {e}
  <2>1. PICK n \in DOMAIN w : x = w[n]
    BY DEF SetOf
  <2>2. CASE n < p
    BY <1>0, <1>1, <1>4, <1>5, <2>1, <2>2 DEF SetOf
  <2>3. CASE n = p
    BY <1>0, <1>1, <1>4, <1>5, <2>1, <2>3
  <2>4. CASE n > p
    <3>1. x = es[n - 1] /\ n - 1 \in DOMAIN es
      BY <1>0, <1>1, <1>4, <1>5, <2>1, <2>4
    <3> QED
      BY <3>1 DEF SetOf
  <2> QED
    BY <1>1, <1>5, <2>2, <2>3, <2>4
<1>10. ASSUME NEW x \in SetOf(es) \cup {e} PROVE x \in SetOf(w)
  <2>1. CASE x = e
    <3>1. w[p] = e /\ p \in DOMAIN w
      BY <1>0, <1>1, <1>4, <1>5
    <3> QED
      BY <2>1, <3>1 DEF SetOf
  <2>2. CASE x \in SetOf(es)
    <3>1. PICK n \in DOMAIN es : x = es[n]
      BY <2>2 DEF SetOf
    <3>2. CASE n < p
      <4>1. w[n] = x /\ n \in DOMAIN w
        BY <1>0, <1>1, <1>4, <1>5, <3>1, <3>2
      <4> QED
        BY <4>1 DEF SetOf
    <3>3. CASE n >= p
      <4>1. w[n + 1] = es[(n + 1) - 1] /\ (n + 1) - 1 = n /\ n + 1 \in DOMAIN w
        BY <1>0, <1>1, <1>4, <1>5, <3>3
      <4> QED
        BY <3>1, <4>1 DEF SetOf
    <3> QED
      BY <1>0, <1>1, <3>2, <3>3
  <2> QED
    BY <2>1, <2>2
<1> QED
  BY <1>3, <1>4, <1>8, <1>9, <1>10 DEF Ascending, e

LEMMA AscendingOnce ==
  ASSUME NEW es \in Seq(Entry), Ascending(es), NEW m \in DOMAIN es, NEW n \in DOMAIN es,
         es[m].key = es[n].key
  PROVE  m = n
<1>1. m \in Int /\ n \in Int /\ es[m].key \in TreeKey
  BY EntriesTyped
<1> QED
  BY <1>1, KeysOrdered DEF Ascending

(* An entry leaves a leaf.                                                 *)
LEMMA RemovedIs ==
  ASSUME NEW es \in Seq(Entry), Ascending(es), NEW p \in DOMAIN es
  PROVE  /\ RemoveAt(es, p) \in Seq(Entry) /\ Ascending(RemoveAt(es, p))
         /\ SetOf(RemoveAt(es, p)) = {x \in SetOf(es) : x.key # es[p].key}
<1> DEFINE w == RemoveAt(es, p)
<1>0. Len(es) \in Nat /\ DOMAIN es = 1 .. Len(es)
  BY EntriesTyped
<1>1. /\ w \in Seq(Entry) /\ Len(w) = Len(es) - 1
      /\ \A n \in 1 .. Len(es) - 1 : w[n] = IF n < p THEN es[n] ELSE es[n + 1]
  BY <1>0, RemovedAt
<1> HIDE DEF w
<1>2. DOMAIN w = 1 .. Len(es) - 1
  BY <1>1, LenProperties
<1>3. ASSUME NEW n \in DOMAIN w
      PROVE  \E i \in DOMAIN es : w[n] = es[i] /\ i = (IF n < p THEN n ELSE n + 1)
  BY <1>0, <1>1, <1>2
<1>4. ASSUME NEW m \in DOMAIN w, NEW n \in DOMAIN w, m < n
      PROVE  Less(w[m].key, w[n].key)
  <2>1. PICK i \in DOMAIN es : w[m] = es[i] /\ i = (IF m < p THEN m ELSE m + 1)
    BY <1>3
  <2>2. PICK j \in DOMAIN es : w[n] = es[j] /\ j = (IF n < p THEN n ELSE n + 1)
    BY <1>3
  <2>3. i < j
    BY <1>0, <1>2, <1>4, <2>1, <2>2
  <2> QED
    BY <2>1, <2>2, <2>3 DEF Ascending
<1>5. ASSUME NEW x \in SetOf(w) PROVE x \in SetOf(es) /\ x.key # es[p].key
  <2>1. PICK n \in DOMAIN w : x = w[n]
    BY DEF SetOf
  <2>2. PICK i \in DOMAIN es : w[n] = es[i] /\ i = (IF n < p THEN n ELSE n + 1)
    BY <1>3
  <2>3. i # p
    BY <1>0, <1>2, <2>2
  <2> QED
    BY <2>1, <2>2, <2>3, AscendingOnce DEF SetOf
<1>6. ASSUME NEW x \in SetOf(es), x.key # es[p].key PROVE x \in SetOf(w)
  <2>1. PICK n \in DOMAIN es : x = es[n]
    BY DEF SetOf
  <2>2. CASE n < p
    <3>1. n \in DOMAIN w /\ w[n] = es[n]
      BY <1>0, <1>1, <1>2, <2>2
    <3> QED
      BY <2>1, <3>1 DEF SetOf
  <2>3. CASE n > p
    <3>1. n - 1 \in DOMAIN w /\ w[n - 1] = es[(n - 1) + 1] /\ (n - 1) + 1 = n
      BY <1>0, <1>1, <1>2, <2>3
    <3> QED
      BY <2>1, <3>1 DEF SetOf
  <2> QED
    BY <1>0, <1>6, <2>1, <2>2, <2>3
<1> QED
  BY <1>1, <1>4, <1>5, <1>6 DEF Ascending, w

(* The halves of a leaf.                                                   *)
LEMMA HalvesAre ==
  ASSUME NEW es \in Seq(Entry), Ascending(es), NEW mid \in 1 .. Len(es) - 1
  PROVE  LET l == SubSeq(es, 1, mid)
             r == SubSeq(es, mid + 1, Len(es))
         IN /\ l \in Seq(Entry) /\ Ascending(l) /\ r \in Seq(Entry) /\ Ascending(r)
            /\ SetOf(es) = SetOf(l) \cup SetOf(r)
            /\ \A x \in SetOf(l) : Less(x.key, es[mid + 1].key)
            /\ \A x \in SetOf(r) : ~Less(x.key, es[mid + 1].key)
<1> DEFINE l == SubSeq(es, 1, mid)
           r == SubSeq(es, mid + 1, Len(es))
<1>0. /\ Len(es) \in Nat /\ DOMAIN es = 1 .. Len(es) /\ mid + 1 \in DOMAIN es
      /\ \A i \in DOMAIN es : es[i].key \in TreeKey
  BY EntriesTyped
<1>1. l \in Seq(Entry) /\ Len(l) = mid /\ \A n \in 1 .. mid : l[n] = es[n]
  BY <1>0, SubSeqProperties
<1>2. r \in Seq(Entry) /\ Len(r) = Len(es) - mid /\ \A n \in 1 .. Len(es) - mid : r[n] = es[mid + n]
  <2>1. /\ r \in Seq(Entry)
        /\ Len(r) = IF mid + 1 <= Len(es) THEN Len(es) - (mid + 1) + 1 ELSE 0
        /\ \A n \in 1 .. Len(es) - (mid + 1) + 1 : r[n] = es[(mid + 1) + n - 1]
    BY <1>0, SubSeqProperties
  <2> HIDE DEF r
  <2> QED
    BY <1>0, <2>1
<1> HIDE DEF l, r
<1>3. DOMAIN l = 1 .. mid /\ DOMAIN r = 1 .. Len(es) - mid
  BY <1>1, <1>2, LenProperties
<1>4. Ascending(l)
  BY <1>0, <1>1, <1>3 DEF Ascending
<1>5. Ascending(r)
  <2> SUFFICES ASSUME NEW m \in DOMAIN r, NEW n \in DOMAIN r, m < n PROVE Less(r[m].key, r[n].key)
    BY DEF Ascending
  <2>1. r[m] = es[mid + m] /\ r[n] = es[mid + n] /\ mid + m \in DOMAIN es /\ mid + n \in DOMAIN es /\ mid + m < mid + n
    BY <1>0, <1>2, <1>3
  <2> QED
    BY <2>1 DEF Ascending
<1>6. ASSUME NEW x \in SetOf(l) PROVE x \in SetOf(es) /\ Less(x.key, es[mid + 1].key)
  <2>1. PICK n \in 1 .. mid : x = es[n] /\ n \in DOMAIN es /\ n < mid + 1
    BY <1>0, <1>1, <1>3 DEF SetOf
  <2> QED
    BY <1>0, <2>1 DEF SetOf, Ascending
<1>7. ASSUME NEW x \in SetOf(r) PROVE x \in SetOf(es) /\ ~Less(x.key, es[mid + 1].key)
  <2>1. PICK n \in DOMAIN r : x = r[n]
    BY DEF SetOf
  <2>2. x = es[mid + n] /\ mid + n \in DOMAIN es /\ mid + 1 <= mid + n
    BY <1>0, <1>2, <1>3, <2>1
  <2>3. x.key = es[mid + 1].key \/ Less(es[mid + 1].key, x.key)
    <3>1. CASE mid + n = mid + 1
      BY <2>2, <3>1
    <3>2. CASE mid + 1 < mid + n
      BY <1>0, <2>2, <3>2 DEF Ascending
    <3> QED
      BY <1>0, <1>3, <2>2, <3>1, <3>2
  <2>4. x.key \in TreeKey
    BY <1>0, <2>2
  <2> QED
    BY <1>0, <2>2, <2>3, <2>4, KeysOrdered DEF SetOf
<1>8. ASSUME NEW x \in SetOf(es) PROVE x \in SetOf(l) \cup SetOf(r)
  <2>1. PICK n \in DOMAIN es : x = es[n]
    BY DEF SetOf
  <2>2. CASE n <= mid
    <3>1. n \in DOMAIN l /\ l[n] = es[n]
      BY <1>0, <1>1, <1>3, <2>2
    <3> QED
      BY <2>1, <3>1 DEF SetOf
  <2>3. CASE n > mid
    <3>1. n - mid \in DOMAIN r /\ r[n - mid] = es[mid + (n - mid)] /\ mid + (n - mid) = n
      BY <1>0, <1>2, <1>3, <2>3
    <3> QED
      BY <2>1, <3>1 DEF SetOf
  <2> QED
    BY <1>0, <2>2, <2>3
<1> QED
  BY <1>1, <1>2, <1>4, <1>5, <1>6, <1>7, <1>8 DEF l, r

-----------------------------------------------------------------------------
(* A tree in order: the leaves by their lower bounds, the entries of a     *)
(* leaf by their keys, and each in the leaf a search for its key goes to.  *)

LeafType == [page : Nat, low : TreeKey, entries : Seq(Entry)]

InLeaf(t, j, key) == ~Less(key, t[j].low) /\ (j = Len(t) \/ Less(key, t[j + 1].low))

TreeOK(t) == /\ t \in Seq(LeafType) /\ t # <<>> /\ t[1].low = Bare(0)
             /\ \A i, j \in DOMAIN t : i < j => Less(t[i].low, t[j].low)
             /\ \A j \in DOMAIN t : /\ Ascending(t[j].entries)
                                    /\ \A x \in SetOf(t[j].entries) : InLeaf(t, j, x.key)

EntriesOf(t) == UNION {SetOf(t[j].entries) : j \in DOMAIN t}
PagesOf(t)   == {t[j].page : j \in DOMAIN t}
OnePage(t)   == \A i, j \in DOMAIN t : t[i].page = t[j].page => i = j

LEMMA LeavesTyped ==
  ASSUME NEW t \in Seq(LeafType), t # <<>>
  PROVE  /\ Len(t) \in Nat \ {0} /\ DOMAIN t = 1 .. Len(t)
         /\ \A j \in DOMAIN t : /\ t[j] \in LeafType /\ t[j].page \in Nat /\ t[j].low \in TreeKey
                                /\ t[j].entries \in Seq(Entry)
<1>1. Len(t) \in Nat /\ DOMAIN t = 1 .. Len(t) /\ Len(t) # 0
  BY LenProperties, EmptySeq
<1>2. \A j \in 1 .. Len(t) : t[j] \in LeafType
  BY ElementOfSeq
<1>3. \A x \in LeafType : x.page \in Nat /\ x.low \in TreeKey /\ x.entries \in Seq(Entry)
  BY DEF LeafType
<1> QED
  BY <1>1, <1>2, <1>3

LEMMA SetOfTyped ==
  ASSUME NEW es \in Seq(Entry), NEW x \in SetOf(es)
  PROVE  x \in Entry /\ x.key \in TreeKey /\ x.id \in Nat
BY EntriesTyped DEF SetOf

LEMMA EntriesOfTyped ==
  ASSUME NEW t, TreeOK(t), NEW x \in EntriesOf(t)
  PROVE  x \in Entry /\ x.key \in TreeKey /\ x.id \in Nat
<1>1. PICK j \in DOMAIN t : x \in SetOf(t[j].entries)
  BY DEF EntriesOf
<1>2. t[j].entries \in Seq(Entry)
  BY LeavesTyped DEF TreeOK
<1> QED
  BY <1>1, <1>2, SetOfTyped

LEMMA OneLeaf ==
  ASSUME NEW t, TreeOK(t), NEW key \in TreeKey, NEW i \in DOMAIN t, NEW j \in DOMAIN t,
         InLeaf(t, i, key), InLeaf(t, j, key)
  PROVE  i = j
<1>0. /\ Len(t) \in Nat \ {0} /\ DOMAIN t = 1 .. Len(t)
      /\ \A n \in DOMAIN t : t[n].low \in TreeKey
  BY LeavesTyped DEF TreeOK
<1>1. ASSUME NEW a \in DOMAIN t, NEW b \in DOMAIN t, a < b, InLeaf(t, a, key), InLeaf(t, b, key)
      PROVE  FALSE
  <2>1. Less(key, t[a + 1].low) /\ a + 1 \in DOMAIN t /\ a + 1 <= b
    BY <1>0, <1>1 DEF InLeaf
  <2>2. ~Less(t[b].low, t[a + 1].low)
    <3>1. CASE a + 1 = b
      BY <1>0, <3>1, KeysOrdered
    <3>2. CASE a + 1 < b
      BY <1>0, <2>1, <3>2, KeysOrdered DEF TreeOK
    <3> QED
      BY <1>0, <2>1, <3>1, <3>2
  <2>3. ~Less(key, t[b].low)
    BY <1>1 DEF InLeaf
  <2> QED
    BY <1>0, <2>1, <2>2, <2>3, KeysOrdered
<1> QED
  BY <1>0, <1>1

LEMMA LeafForIs ==
  ASSUME NEW t, TreeOK(t), NEW key \in TreeKey
  PROVE  LeafFor(t, key) \in DOMAIN t /\ InLeaf(t, LeafFor(t, key), key)
<1>0. /\ Len(t) \in Nat \ {0} /\ DOMAIN t = 1 .. Len(t)
      /\ \A n \in DOMAIN t : t[n].low \in TreeKey
  BY LeavesTyped DEF TreeOK
<1> DEFINE T == {n \in 1 .. Len(t) + 1 : n = Len(t) + 1 \/ Less(key, t[n].low)}
<1>1. T \subseteq Nat /\ T # {}
  <2>1. Len(t) + 1 \in T
    BY <1>0
  <2> QED
    BY <1>0, <2>1
<1>2. PICK m \in T : \A n \in T : m <= n
  <2> HIDE DEF T
  <2> QED BY <1>1, LeastNumber
<1>3. 1 \notin T
  <2>1. ~Less(key, t[1].low)
    BY DEF TreeOK, Less, Bare, TreeKey
  <2> QED
    BY <1>0, <2>1
<1>4. m - 1 \in DOMAIN t /\ InLeaf(t, m - 1, key)
  <2>1. m - 1 \in 1 .. Len(t) /\ m - 1 \notin T
    BY <1>0, <1>2, <1>3
  <2>2. ~Less(key, t[m - 1].low)
    BY <1>0, <2>1
  <2>3. m - 1 = Len(t) \/ Less(key, t[(m - 1) + 1].low)
    BY <1>0, <1>2
  <2> QED
    BY <1>0, <2>1, <2>2, <2>3 DEF InLeaf
<1> HIDE DEF T
<1> QED
  BY <1>4 DEF LeafFor, InLeaf

(* In an ordered tree a key is in one place.                               *)
LEMMA EntryOnce ==
  ASSUME NEW t, TreeOK(t), NEW x \in EntriesOf(t), NEW y \in EntriesOf(t), x.key = y.key
  PROVE  x = y
<1>1. PICK i \in DOMAIN t : x \in SetOf(t[i].entries)
  BY DEF EntriesOf
<1>2. PICK j \in DOMAIN t : y \in SetOf(t[j].entries)
  BY DEF EntriesOf
<1>3. x.key \in TreeKey /\ t[i].entries \in Seq(Entry) /\ Ascending(t[i].entries)
  BY EntriesOfTyped, LeavesTyped DEF TreeOK
<1>4. i = j
  BY <1>1, <1>2, <1>3, OneLeaf DEF TreeOK
<1> QED
  BY <1>1, <1>2, <1>3, <1>4, AscendingOnce DEF SetOf

(* One leaf gets other entries.                                            *)
Replaced(t, j, es) == [t EXCEPT ![j].entries = es]

LEMMA LeafReplaced ==
  ASSUME NEW t, TreeOK(t), NEW j \in DOMAIN t, NEW es \in Seq(Entry), Ascending(es),
         \A x \in SetOf(es) : InLeaf(t, j, x.key)
  PROVE  LET u == Replaced(t, j, es)
         IN /\ TreeOK(u) /\ Len(u) = Len(t) /\ PagesOf(u) = PagesOf(t)
            /\ OnePage(t) => OnePage(u)
            /\ \A x : x \in EntriesOf(u) <=>
                  x \in SetOf(es) \/ \E i \in DOMAIN t \ {j} : x \in SetOf(t[i].entries)
<1> DEFINE u == Replaced(t, j, es)
<1>0. /\ Len(t) \in Nat \ {0} /\ DOMAIN t = 1 .. Len(t) /\ t \in Seq(LeafType) /\ t # <<>>
      /\ \A n \in DOMAIN t : /\ t[n] \in LeafType /\ t[n].page \in Nat /\ t[n].low \in TreeKey
                             /\ t[n].entries \in Seq(Entry)
  BY LeavesTyped DEF TreeOK
<1>1. u = [t EXCEPT ![j] = [t[j] EXCEPT !.entries = es]] /\ [t[j] EXCEPT !.entries = es] \in LeafType
  BY <1>0 DEF LeafType, Replaced
<1>2. u \in Seq(LeafType) /\ Len(u) = Len(t) /\ DOMAIN u = DOMAIN t
  BY <1>0, <1>1, ExceptSeq
<1>3. /\ \A i \in DOMAIN t : u[i].page = t[i].page /\ u[i].low = t[i].low
      /\ \A i \in DOMAIN t \ {j} : u[i].entries = t[i].entries
      /\ u[j].entries = es
  BY <1>0 DEF LeafType, Replaced
<1> HIDE DEF u
<1>4. TreeOK(u)
  <2>1. u # <<>>
    BY <1>0, <1>2, EmptySeq
  <2>2. u[1].low = Bare(0) /\ \A a, b \in DOMAIN u : a < b => Less(u[a].low, u[b].low)
    <3>1. 1 \in DOMAIN t /\ t[1].low = Bare(0)
      BY <1>0 DEF TreeOK
    <3>2. u[1].low = Bare(0)
      BY <1>3, <3>1, Zenon
    <3>3. ASSUME NEW a \in DOMAIN u, NEW b \in DOMAIN u, a < b PROVE Less(u[a].low, u[b].low)
      <4>1. Less(t[a].low, t[b].low)
        BY <1>2, <3>3, Zenon DEF TreeOK
      <4> QED
        BY <1>2, <1>3, <4>1
    <3> QED
      BY <3>2, <3>3
  <2>3. ASSUME NEW i \in DOMAIN u, NEW key, InLeaf(t, i, key) PROVE InLeaf(u, i, key)
    BY <1>0, <1>2, <1>3, <2>3 DEF InLeaf
  <2>4. ASSUME NEW i \in DOMAIN u
        PROVE  Ascending(u[i].entries) /\ \A x \in SetOf(u[i].entries) : InLeaf(u, i, x.key)
    <3>1. CASE i = j
      BY <1>3, <2>3, <2>4, <3>1
    <3>2. CASE i # j
      BY <1>2, <1>3, <2>3, <2>4, <3>2 DEF TreeOK
    <3> QED
      BY <3>1, <3>2
  <2> QED
    BY <1>2, <2>1, <2>2, <2>4 DEF TreeOK
<1>5. PagesOf(u) = PagesOf(t) /\ (OnePage(t) => OnePage(u))
  BY <1>2, <1>3 DEF PagesOf, OnePage
<1>6. ASSUME NEW x
      PROVE  x \in EntriesOf(u) <=> x \in SetOf(es) \/ \E i \in DOMAIN t \ {j} : x \in SetOf(t[i].entries)
  <2>1. x \in EntriesOf(u) <=> \E i \in DOMAIN u : x \in SetOf(u[i].entries)
    BY DEF EntriesOf
  <2> QED
    BY <1>2, <1>3, <2>1
<1> QED
  BY <1>2, <1>4, <1>5, <1>6 DEF u

LEMMA LeafInserted ==
  ASSUME NEW t \in Seq(LeafType), NEW e \in LeafType, NEW i \in 1 .. Len(t) + 1
  PROVE  /\ InsertAt(t, i, e) \in Seq(LeafType)
         /\ Len(InsertAt(t, i, e)) = Len(t) + 1
         /\ \A m \in 1 .. Len(t) + 1 :
              InsertAt(t, i, e)[m] = IF m < i THEN t[m] ELSE IF m = i THEN e ELSE t[m - 1]
BY InsertedAt

(* A leaf gives its upper half to a new one.                               *)
Halved(t, j, es, mid, page) ==
  InsertAt([t EXCEPT ![j].entries = SubSeq(es, 1, mid)], j + 1,
           Leaf(page, es[mid + 1].key, SubSeq(es, mid + 1, Len(es))))

LEMMA LeafSplit ==
  ASSUME NEW t, TreeOK(t), NEW j \in DOMAIN t, NEW es \in Seq(Entry), Ascending(es),
         \A x \in SetOf(es) : InLeaf(t, j, x.key),
         NEW mid \in 1 .. Len(es) - 1, NEW page \in Nat
  PROVE  LET u == Halved(t, j, es, mid, page)
         IN /\ TreeOK(u) /\ Len(u) = Len(t) + 1 /\ PagesOf(u) = PagesOf(t) \cup {page}
            /\ OnePage(t) /\ page \notin PagesOf(t) => OnePage(u)
            /\ \A x : x \in EntriesOf(u) <=>
                  x \in SetOf(es) \/ \E i \in DOMAIN t \ {j} : x \in SetOf(t[i].entries)
<1> DEFINE l == SubSeq(es, 1, mid)
           r == SubSeq(es, mid + 1, Len(es))
           k == es[mid + 1].key
           n == Leaf(page, k, r)
           v == [t EXCEPT ![j].entries = l]
           u == Halved(t, j, es, mid, page)
<1>0. /\ Len(t) \in Nat \ {0} /\ DOMAIN t = 1 .. Len(t) /\ t \in Seq(LeafType) /\ t # <<>>
      /\ \A i \in DOMAIN t : /\ t[i] \in LeafType /\ t[i].page \in Nat /\ t[i].low \in TreeKey
                             /\ t[i].entries \in Seq(Entry)
  BY LeavesTyped DEF TreeOK
<1>1. /\ l \in Seq(Entry) /\ Ascending(l) /\ r \in Seq(Entry) /\ Ascending(r)
      /\ SetOf(es) = SetOf(l) \cup SetOf(r)
      /\ \A x \in SetOf(l) : Less(x.key, k)
      /\ \A x \in SetOf(r) : ~Less(x.key, k)
  BY HalvesAre
<1>2. /\ k \in TreeKey /\ mid \in DOMAIN es /\ mid + 1 \in DOMAIN es
      /\ es[mid].key \in TreeKey /\ Less(es[mid].key, k)
      /\ InLeaf(t, j, k) /\ InLeaf(t, j, es[mid].key)
  <2>1. mid \in DOMAIN es /\ mid + 1 \in DOMAIN es /\ mid < mid + 1
    BY EntriesTyped
  <2>2. es[mid] \in SetOf(es) /\ es[mid + 1] \in SetOf(es)
    BY <2>1 DEF SetOf
  <2> QED
    BY <2>1, <2>2, EntriesTyped DEF Ascending
<1>3. Less(t[j].low, k)
  BY <1>0, <1>2, KeysOrdered DEF InLeaf
<1>17. u = InsertAt(v, j + 1, n)
  BY DEF Halved
<1> HIDE DEF u
<1>4. n \in LeafType /\ n.page = page /\ n.low = k /\ n.entries = r
  BY <1>1, <1>2 DEF Leaf, LeafType
<1> HIDE DEF l, r, k, n
<1>5. /\ v \in Seq(LeafType) /\ Len(v) = Len(t) /\ DOMAIN v = DOMAIN t
      /\ \A i \in DOMAIN t : v[i].page = t[i].page /\ v[i].low = t[i].low
      /\ \A i \in DOMAIN t \ {j} : v[i].entries = t[i].entries
      /\ v[j].entries = l
  <2>1. v = [t EXCEPT ![j] = [t[j] EXCEPT !.entries = l]] /\ [t[j] EXCEPT !.entries = l] \in LeafType
    BY <1>0, <1>1 DEF LeafType
  <2>2. v \in Seq(LeafType) /\ Len(v) = Len(t) /\ DOMAIN v = DOMAIN t
    BY <1>0, <2>1, ExceptSeq
  <2> QED
    BY <1>0, <2>2 DEF LeafType
<1> HIDE DEF v
<1>6. /\ u \in Seq(LeafType) /\ Len(u) = Len(t) + 1 /\ DOMAIN u = 1 .. Len(t) + 1
      /\ \A i \in 1 .. Len(t) + 1 :
           u[i] = IF i < j + 1 THEN v[i] ELSE IF i = j + 1 THEN n ELSE v[i - 1]
  <2>1. j + 1 \in 1 .. Len(v) + 1
    BY <1>0, <1>5
  <2>2. /\ u \in Seq(LeafType) /\ Len(u) = Len(v) + 1
        /\ \A i \in 1 .. Len(v) + 1 :
             u[i] = IF i < j + 1 THEN v[i] ELSE IF i = j + 1 THEN n ELSE v[i - 1]
    <3>1. v \in Seq(LeafType) /\ n \in LeafType
      BY <1>4, <1>5
    <3>2. /\ InsertAt(v, j + 1, n) \in Seq(LeafType)
          /\ Len(InsertAt(v, j + 1, n)) = Len(v) + 1
          /\ \A i \in 1 .. Len(v) + 1 :
               InsertAt(v, j + 1, n)[i] = IF i < j + 1 THEN v[i] ELSE IF i = j + 1 THEN n ELSE v[i - 1]
      BY <2>1, <3>1, LeafInserted
    <3> QED
      BY <1>17, <3>2
  <2> QED
    BY <1>5, <2>2, LenProperties
<1>7. ASSUME NEW i \in DOMAIN u
      PROVE  \/ i <= j /\ i \in DOMAIN t /\ u[i] = v[i]
             \/ i = j + 1 /\ u[i] = n
             \/ i > j + 1 /\ i - 1 \in DOMAIN t /\ u[i] = v[i - 1]
  BY <1>0, <1>6
<1>8. /\ \A i \in DOMAIN t : i <= j => i \in DOMAIN u /\ u[i] = v[i]
      /\ j + 1 \in DOMAIN u /\ u[j + 1] = n
      /\ \A i \in DOMAIN t : i > j => i + 1 \in DOMAIN u /\ u[i + 1] = v[i]
  <2>1. ASSUME NEW i \in DOMAIN t, i > j PROVE i + 1 \in DOMAIN u /\ u[i + 1] = v[i]
    <3>1. i + 1 \in 1 .. Len(t) + 1 /\ ~(i + 1 < j + 1) /\ i + 1 # j + 1 /\ (i + 1) - 1 = i
      BY <1>0, <2>1
    <3> QED
      BY <1>6, <3>1
  <2> QED
    BY <1>0, <1>6, <2>1
<1>9. u # <<>>
  BY <1>0, <1>6, EmptySeq
<1>10. u[1].low = Bare(0)
  <2>1. 1 \in DOMAIN t /\ 1 <= j /\ t[1].low = Bare(0)
    BY <1>0 DEF TreeOK
  <2> QED
    BY <1>5, <1>8, <2>1
<1>11. ASSUME NEW a \in DOMAIN u, NEW b \in DOMAIN u, a < b PROVE Less(u[a].low, u[b].low)
  <2>0. a \in Int /\ b \in Int /\ j \in Int
    BY <1>0, <1>6
  <2>1. CASE b <= j
    <3>1. a \in DOMAIN t /\ b \in DOMAIN t /\ u[a] = v[a] /\ u[b] = v[b]
      BY <1>7, <1>11, <2>0, <2>1
    <3> QED
      BY <1>5, <1>11, <3>1 DEF TreeOK
  <2>2. CASE b = j + 1
    <3>1. a \in DOMAIN t /\ a <= j /\ u[a] = v[a] /\ u[b] = n
      BY <1>7, <1>11, <2>0, <2>2
    <3>2. CASE a = j
      BY <1>3, <1>4, <1>5, <3>1, <3>2
    <3>3. CASE a < j
      <4>1. Less(t[a].low, t[j].low)
        BY <3>1, <3>3 DEF TreeOK
      <4> QED
        BY <1>0, <1>2, <1>3, <1>4, <1>5, <3>1, <4>1, KeysOrdered
    <3> QED
      BY <2>0, <3>1, <3>2, <3>3
  <2>3. CASE b > j + 1
    <3>1. b - 1 \in DOMAIN t /\ u[b] = v[b - 1] /\ b - 1 > j
      BY <1>7, <2>0, <2>3
    <3>2. Less(k, t[b - 1].low)
      <4>1. Less(k, t[j + 1].low) /\ j + 1 \in DOMAIN t
        BY <1>0, <1>2, <3>1 DEF InLeaf
      <4>2. CASE b - 1 = j + 1
        BY <4>1, <4>2
      <4>3. CASE j + 1 < b - 1
        <5>1. Less(t[j + 1].low, t[b - 1].low)
          BY <3>1, <4>1, <4>3 DEF TreeOK
        <5> QED
          BY <1>0, <1>2, <3>1, <4>1, <5>1, KeysOrdered
      <4> QED
        BY <2>0, <2>3, <4>2, <4>3
    <3>3. CASE a = j + 1
      <4>1. u[a] = n
        BY <1>8, <3>3
      <4> QED
        BY <1>4, <1>5, <3>1, <3>2, <4>1
    <3>4. CASE a <= j
      <4>1. a \in DOMAIN t /\ u[a] = v[a] /\ a < b - 1
        BY <1>7, <2>0, <2>3, <3>4
      <4> QED
        BY <1>5, <3>1, <4>1 DEF TreeOK
    <3>5. CASE a > j + 1
      <4>1. a - 1 \in DOMAIN t /\ u[a] = v[a - 1] /\ a - 1 < b - 1
        BY <1>7, <1>11, <2>0, <3>5
      <4> QED
        BY <1>5, <3>1, <4>1 DEF TreeOK
    <3> QED
      BY <2>0, <3>3, <3>4, <3>5
  <2> QED
    BY <2>0, <2>1, <2>2, <2>3
<1>12. ASSUME NEW i \in DOMAIN u
       PROVE  Ascending(u[i].entries) /\ \A x \in SetOf(u[i].entries) : InLeaf(u, i, x.key)
  <2>1. CASE i < j
    <3>1. /\ i \in DOMAIN t /\ u[i] = v[i] /\ v[i].entries = t[i].entries /\ v[i].low = t[i].low
          /\ i + 1 \in DOMAIN t /\ u[i + 1] = v[i + 1] /\ v[i + 1].low = t[i + 1].low /\ i # Len(t)
      BY <1>0, <1>5, <1>6, <1>8, <2>1
    <3> QED
      BY <3>1 DEF TreeOK, InLeaf
  <2>2. CASE i = j
    <3>1. u[i] = v[j] /\ u[i].entries = l /\ u[i].low = t[j].low /\ u[i + 1].low = k
      BY <1>0, <1>4, <1>5, <1>8, <2>2
    <3>2. \A x \in SetOf(l) : ~Less(x.key, t[j].low) /\ Less(x.key, k)
      BY <1>1 DEF InLeaf
    <3> QED
      BY <1>1, <3>1, <3>2 DEF InLeaf
  <2>3. CASE i = j + 1
    <3>1. u[i].entries = r /\ u[i].low = k
      BY <1>4, <1>8, <2>3
    <3>2. \A x \in SetOf(r) : ~Less(x.key, k) /\ (j = Len(t) \/ Less(x.key, t[j + 1].low))
      BY <1>1 DEF InLeaf
    <3>3. j # Len(t) => u[i + 1].low = t[j + 1].low
      <4> SUFFICES ASSUME j # Len(t) PROVE u[i + 1].low = t[j + 1].low
        OBVIOUS
      <4>1. j + 1 \in DOMAIN t /\ j + 1 > j /\ (j + 1) + 1 = i + 1
        BY <1>0, <2>3
      <4> QED
        BY <1>5, <1>8, <4>1
    <3>4. j = Len(t) => i = Len(u)
      BY <1>6, <2>3
    <3> QED
      BY <1>1, <3>1, <3>2, <3>3, <3>4 DEF InLeaf
  <2>4. CASE i > j + 1
    <3>1. /\ i - 1 \in DOMAIN t /\ u[i] = v[i - 1] /\ v[i - 1].entries = t[i - 1].entries
          /\ v[i - 1].low = t[i - 1].low
      BY <1>0, <1>5, <1>6, <1>7, <2>4
    <3>2. i - 1 = Len(t) => i = Len(u)
      BY <1>0, <1>6
    <3>3. i - 1 # Len(t) => u[i + 1].low = t[(i - 1) + 1].low
      <4> SUFFICES ASSUME i - 1 # Len(t) PROVE u[i + 1].low = t[(i - 1) + 1].low
        OBVIOUS
      <4>1. i \in DOMAIN t /\ i > j /\ (i - 1) + 1 = i
        BY <1>0, <1>6, <2>4
      <4> QED
        BY <1>5, <1>8, <4>1
    <3>4. Ascending(t[i - 1].entries) /\ \A x \in SetOf(t[i - 1].entries) : InLeaf(t, i - 1, x.key)
      BY <3>1 DEF TreeOK
    <3> QED
      BY <3>1, <3>2, <3>3, <3>4 DEF InLeaf
  <2> QED
    BY <1>0, <1>6, <2>1, <2>2, <2>3, <2>4
<1>13. TreeOK(u)
  BY <1>6, <1>9, <1>10, <1>11, <1>12 DEF TreeOK
<1>14. PagesOf(u) = PagesOf(t) \cup {page}
  <2>1. ASSUME NEW i \in DOMAIN u PROVE u[i].page \in PagesOf(t) \cup {page}
    BY <1>4, <1>5, <1>7 DEF PagesOf
  <2>2. ASSUME NEW i \in DOMAIN t PROVE \E a \in DOMAIN u : u[a].page = t[i].page
    <3>1. i <= j \/ i > j
      BY <1>0
    <3> QED
      BY <1>5, <1>8, <3>1
  <2>3. \E a \in DOMAIN u : u[a].page = page
    BY <1>4, <1>8
  <2> QED
    BY <2>1, <2>2, <2>3 DEF PagesOf
<1>15. ASSUME OnePage(t), page \notin PagesOf(t), NEW a \in DOMAIN u, NEW b \in DOMAIN u,
              u[a].page = u[b].page
       PROVE  a = b
  <2>0. a \in Int /\ b \in Int /\ j \in Int
    BY <1>0, <1>6
  <2>1. \A i \in DOMAIN t : v[i].page # page
    BY <1>5, <1>15 DEF PagesOf
  <2>2. \A c, d \in DOMAIN t : v[c].page = v[d].page => c = d
    BY <1>5, <1>15 DEF OnePage
  <2>3. CASE a = j + 1
    <3>1. u[a].page = page
      BY <1>4, <1>8, <2>3
    <3> QED
      BY <1>7, <1>15, <2>0, <2>1, <2>3, <3>1
  <2>4. CASE b = j + 1
    <3>1. u[b].page = page
      BY <1>4, <1>8, <2>4
    <3> QED
      BY <1>7, <1>15, <2>0, <2>1, <2>4, <3>1
  <2>5. CASE a # j + 1 /\ b # j + 1
    <3> DEFINE At(i) == IF i <= j THEN i ELSE i - 1
    <3>1. /\ At(a) \in DOMAIN t /\ u[a] = v[At(a)]
          /\ At(b) \in DOMAIN t /\ u[b] = v[At(b)]
      BY <1>7, <2>0, <2>5
    <3>2. At(a) = At(b)
      BY <1>15, <2>2, <3>1
    <3> QED
      BY <2>0, <2>5, <3>2
  <2> QED
    BY <2>3, <2>4, <2>5
<1>16. ASSUME NEW x
       PROVE  x \in EntriesOf(u) <=> x \in SetOf(es) \/ \E i \in DOMAIN t \ {j} : x \in SetOf(t[i].entries)
  <2>0. x \in EntriesOf(u) <=> \E a \in DOMAIN u : x \in SetOf(u[a].entries)
    BY DEF EntriesOf
  <2>1. ASSUME NEW a \in DOMAIN u, x \in SetOf(u[a].entries)
        PROVE  x \in SetOf(es) \/ \E i \in DOMAIN t \ {j} : x \in SetOf(t[i].entries)
    <3>1. CASE u[a] = n
      BY <1>1, <1>4, <2>1, <3>1
    <3>2. ASSUME NEW i \in DOMAIN t, u[a] = v[i]
          PROVE  x \in SetOf(es) \/ \E i_1 \in DOMAIN t \ {j} : x \in SetOf(t[i_1].entries)
      BY <1>1, <1>5, <2>1, <3>2
    <3> QED
      BY <1>7, <3>1, <3>2
  <2>2. ASSUME x \in SetOf(es) PROVE \E a \in DOMAIN u : x \in SetOf(u[a].entries)
    <3>1. j \in DOMAIN u /\ u[j].entries = l /\ j + 1 \in DOMAIN u /\ u[j + 1].entries = r
      <4>1. j <= j
        BY <1>0
      <4> QED
        BY <1>4, <1>5, <1>8, <4>1
    <3> QED
      BY <1>1, <2>2, <3>1
  <2>3. ASSUME NEW i \in DOMAIN t \ {j}, x \in SetOf(t[i].entries)
        PROVE  \E a \in DOMAIN u : x \in SetOf(u[a].entries)
    <3>1. i <= j \/ i > j
      BY <1>0
    <3> QED
      BY <1>5, <1>8, <2>3, <3>1
  <2> QED
    BY <2>0, <2>1, <2>2, <2>3
<1> QED
  BY <1>6, <1>13, <1>14, <1>15, <1>16 DEF OnePage, u

(* insert_rec: a new key goes into its leaf, which is split when it is too *)
(* full; the tree stays in order, whatever was in it.                      *)
Splits(t, key, id) == Len(With(t[LeafFor(t, key)].entries, key, id)) > LeafCap

LEMMA InsertIs ==
  ASSUME NEW t, TreeOK(t), NEW key \in TreeKey, NEW id \in Nat, NEW page \in Nat,
         \A x \in EntriesOf(t) : x.key # key
  PROVE  LET u == Insert(t, key, id, page)
         IN /\ TreeOK(u)
            /\ EntriesOf(u) = EntriesOf(t) \cup {[key |-> key, id |-> id]}
            /\ IF Splits(t, key, id)
               THEN /\ Len(u) = Len(t) + 1 /\ PagesOf(u) = PagesOf(t) \cup {page}
                    /\ OnePage(t) /\ page \notin PagesOf(t) => OnePage(u)
               ELSE Len(u) = Len(t) /\ PagesOf(u) = PagesOf(t) /\ (OnePage(t) => OnePage(u))
<1> DEFINE j  == LeafFor(t, key)
           es == With(t[j].entries, key, id)
           u  == Insert(t, key, id, page)
           e  == [key |-> key, id |-> id]
<1>1. j \in DOMAIN t /\ InLeaf(t, j, key)
  BY LeafForIs
<1>2. t[j].entries \in Seq(Entry) /\ Ascending(t[j].entries)
  BY <1>1, LeavesTyped DEF TreeOK
<1>3. \A x \in SetOf(t[j].entries) : x.key # key /\ InLeaf(t, j, x.key)
  BY <1>1 DEF EntriesOf, TreeOK
<1>4. \A n \in DOMAIN t[j].entries : t[j].entries[n].key # key
  BY <1>3 DEF SetOf
<1>5. /\ es \in Seq(Entry) /\ Ascending(es) /\ Len(es) = Len(t[j].entries) + 1
      /\ SetOf(es) = SetOf(t[j].entries) \cup {e}
  <2> HIDE DEF j, e
  <2>1. /\ With(t[j].entries, key, id) \in Seq(Entry) /\ Ascending(With(t[j].entries, key, id))
        /\ Len(With(t[j].entries, key, id)) = Len(t[j].entries) + 1
        /\ SetOf(With(t[j].entries, key, id)) = SetOf(t[j].entries) \cup {[key |-> key, id |-> id]}
    BY <1>2, <1>4, WithIs
  <2> QED
    BY <2>1 DEF e
<1>6. u = IF Len(es) <= LeafCap THEN [t EXCEPT ![j].entries = es]
          ELSE InsertAt([t EXCEPT ![j].entries = SubSeq(es, 1, Len(es) \div 2)], j + 1,
                        Leaf(page, es[Len(es) \div 2 + 1].key, SubSeq(es, Len(es) \div 2 + 1, Len(es))))
  BY DEF Insert
<1>7. Splits(t, key, id) <=> Len(es) > LeafCap
  BY DEF Splits
<1>8. e.key = key
  OBVIOUS
<1> HIDE DEF j, es, u, e
<1>9. \A x \in SetOf(es) : InLeaf(t, j, x.key)
  BY <1>1, <1>3, <1>5, <1>8
<1>10. \A x : x \in EntriesOf(t) \cup {e} <=>
                 x \in SetOf(es) \/ \E i \in DOMAIN t \ {j} : x \in SetOf(t[i].entries)
  BY <1>1, <1>5 DEF EntriesOf
<1>11. Len(es) \in Nat /\ LeafCap \in Nat /\ LeafCap >= 2
  BY <1>5, EntriesTyped, LeafAssumption
<1>12. CASE Len(es) <= LeafCap
  <2>1. u = Replaced(t, j, es)
    BY <1>6, <1>12 DEF Replaced
  <2>2. /\ TreeOK(u) /\ Len(u) = Len(t) /\ PagesOf(u) = PagesOf(t)
        /\ OnePage(t) => OnePage(u)
        /\ \A x : x \in EntriesOf(u) <=>
              x \in SetOf(es) \/ \E i \in DOMAIN t \ {j} : x \in SetOf(t[i].entries)
    BY <1>1, <1>5, <1>9, <2>1, LeafReplaced
  <2>3. EntriesOf(u) = EntriesOf(t) \cup {e}
    BY <1>10, <2>2
  <2> QED
    BY <1>7, <1>11, <1>12, <2>2, <2>3 DEF u, e
<1>13. CASE Len(es) > LeafCap
  <2> DEFINE mid == Len(es) \div 2
  <2>1. mid \in 1 .. Len(es) - 1
    BY <1>11, <1>13
  <2>2. u = Halved(t, j, es, mid, page)
    BY <1>6, <1>11, <1>13 DEF Halved
  <2> HIDE DEF mid
  <2>3. /\ TreeOK(u) /\ Len(u) = Len(t) + 1 /\ PagesOf(u) = PagesOf(t) \cup {page}
        /\ OnePage(t) /\ page \notin PagesOf(t) => OnePage(u)
        /\ \A x : x \in EntriesOf(u) <=>
              x \in SetOf(es) \/ \E i \in DOMAIN t \ {j} : x \in SetOf(t[i].entries)
    BY <1>1, <1>5, <1>9, <2>1, <2>2, LeafSplit
  <2>4. EntriesOf(u) = EntriesOf(t) \cup {e}
    BY <1>10, <2>3
  <2> QED
    BY <1>7, <1>11, <1>13, <2>3, <2>4 DEF u, e
<1> QED
  BY <1>11, <1>12, <1>13

(* The length of the tree does not depend on the page that is free.        *)
LEMMA InsertLength ==
  ASSUME NEW t, TreeOK(t), NEW key \in TreeKey, NEW id \in Nat,
         \A x \in EntriesOf(t) : x.key # key
  PROVE  Len(Insert(t, key, id, 0)) > Len(t) <=> Splits(t, key, id)
<1>1. Len(t) \in Nat
  BY LeavesTyped DEF TreeOK
<1>2. Len(Insert(t, key, id, 0)) = IF Splits(t, key, id) THEN Len(t) + 1 ELSE Len(t)
  BY InsertIs
<1> QED
  BY <1>1, <1>2

(* bt_delete: the entry with the key leaves its leaf, which stays.         *)
LEMMA WithoutIs ==
  ASSUME NEW t, TreeOK(t), NEW key \in TreeKey
  PROVE  LET u == Without(t, key)
         IN /\ TreeOK(u) /\ PagesOf(u) = PagesOf(t) /\ (OnePage(t) => OnePage(u))
            /\ EntriesOf(u) = {x \in EntriesOf(t) : x.key # key}
<1> DEFINE j == LeafFor(t, key)
           o == t[j].entries
           n == Place(o, key)
           u == Without(t, key)
<1>1. j \in DOMAIN t /\ InLeaf(t, j, key)
  BY LeafForIs
<1>2. o \in Seq(Entry) /\ Ascending(o)
  BY <1>1, LeavesTyped DEF TreeOK
<1>3. \A x \in SetOf(o) : InLeaf(t, j, x.key)
  BY <1>1 DEF TreeOK
<1>4. ASSUME NEW i \in DOMAIN t, NEW x \in SetOf(t[i].entries), x.key = key PROVE i = j
  BY <1>1, <1>4, OneLeaf DEF TreeOK
<1>5. n \in 1 .. Len(o) + 1 /\ \A i \in DOMAIN o : i < n <=> Less(o[i].key, key)
  <2> HIDE DEF o
  <2> QED BY <1>2, PlaceIs
<1>6. u = IF Has(o, n, key) THEN [t EXCEPT ![j].entries = RemoveAt(o, n)] ELSE t
  BY DEF Without
<1>7. \A x : x \in EntriesOf(t) <=> x \in SetOf(o) \/ \E i \in DOMAIN t \ {j} : x \in SetOf(t[i].entries)
  BY <1>1 DEF EntriesOf
<1> HIDE DEF o, n, u, j
<1>8. CASE Has(o, n, key)
  <2>1. n \in DOMAIN o /\ o[n].key = key
    BY <1>8 DEF Has
  <2>2. /\ RemoveAt(o, n) \in Seq(Entry) /\ Ascending(RemoveAt(o, n))
        /\ SetOf(RemoveAt(o, n)) = {x \in SetOf(o) : x.key # key}
    BY <1>2, <2>1, RemovedIs
  <2> DEFINE es == RemoveAt(o, n)
  <2> HIDE DEF es
  <2>3. /\ TreeOK(u) /\ PagesOf(u) = PagesOf(t) /\ (OnePage(t) => OnePage(u))
        /\ \A x : x \in EntriesOf(u) <=>
              x \in SetOf(es) \/ \E i \in DOMAIN t \ {j} : x \in SetOf(t[i].entries)
    <3>1. /\ u = Replaced(t, j, es) /\ es \in Seq(Entry) /\ Ascending(es)
          /\ \A x \in SetOf(es) : InLeaf(t, j, x.key)
      BY <1>3, <1>6, <1>8, <2>2 DEF es, Replaced
    <3> QED
      BY <1>1, <3>1, LeafReplaced
  <2>4. \A x : x \in SetOf(es) <=> x \in SetOf(o) /\ x.key # key
    BY <2>2 DEF es
  <2>5. EntriesOf(u) = {x \in EntriesOf(t) : x.key # key}
    BY <1>4, <1>7, <2>3, <2>4
  <2> QED
    BY <2>3, <2>5 DEF u
<1>9. CASE ~Has(o, n, key)
  <2>1. u = t
    BY <1>6, <1>9
  <2>2. ASSUME NEW x \in SetOf(o), x.key = key PROVE FALSE
    <3>1. PICK i \in DOMAIN o : o[i] = x
      BY DEF SetOf
    <3>2. i >= n /\ i \in 1 .. Len(o) /\ Len(o) \in Nat
      <4>1. ~Less(key, key) /\ i \in 1 .. Len(o) /\ Len(o) \in Nat
        BY <1>2, <3>1, KeysOrdered, EntriesTyped
      <4> QED
        BY <1>5, <2>2, <3>1, <4>1
    <3>3. CASE i = n
      BY <1>9, <2>2, <3>1, <3>3 DEF Has
    <3>4. CASE i > n
      <4>1. n \in DOMAIN o /\ o[n].key \in TreeKey /\ Less(o[n].key, o[i].key)
        BY <1>2, <1>5, <3>1, <3>2, <3>4, EntriesTyped DEF Ascending
      <4>2. ~Less(o[n].key, key)
        BY <1>5, <4>1
      <4> QED
        BY <2>2, <3>1, <4>1, <4>2
    <3> QED
      BY <1>5, <3>2, <3>3, <3>4
  <2>3. EntriesOf(t) = {x \in EntriesOf(t) : x.key # key}
    BY <1>4, <1>7, <2>2
  <2> QED
    BY <2>1, <2>3 DEF u
<1> QED
  BY <1>8, <1>9

-----------------------------------------------------------------------------
(* The counters of HeaderState: how many keys come before a key.           *)

Before(S, k) == Cardinality({j \in S : j < k})

LEMMA KeyNumbers ==
  /\ Len(Duplicates) \in Nat /\ DOMAIN Duplicates = 1 .. Len(Duplicates)
  /\ KeyNo \subseteq Nat /\ \A k \in KeyNo : k < Len(Duplicates) + 1 /\ Dup(k) \in BOOLEAN
<1>1. Duplicates \in Seq(BOOLEAN)
  BY RecordAssumption
<1>2. Len(Duplicates) \in Nat /\ DOMAIN Duplicates = 1 .. Len(Duplicates)
  BY <1>1, LenProperties
<1>3. \A k \in DOMAIN Duplicates : Duplicates[k] \in BOOLEAN
  BY <1>1, <1>2, ElementOfSeq
<1>4. KeyNo \subseteq Nat /\ \A k \in KeyNo : k < Len(Duplicates) + 1 /\ (k # 0 => k \in DOMAIN Duplicates)
  BY <1>2 DEF KeyNo
<1> QED
  BY <1>2, <1>3, <1>4 DEF Dup

LEMMA ValueTyped ==
  ASSUME NEW r \in Record, NEW k \in KeyNo
  PROVE  Value(r, k) \in Nat
<1>1. r \in [key : Nat, alt : [DOMAIN Duplicates -> Nat]]
  BY RecordAssumption
<1>2. k = 0 \/ k \in DOMAIN Duplicates
  BY KeyNumbers DEF KeyNo
<1> QED
  BY <1>1, <1>2 DEF Value, Store!Value

LEMMA Counted ==
  ASSUME NEW S \in SUBSET KeyNo
  PROVE  /\ \A k \in 0 .. Len(Duplicates) + 1 : Before(S, k) \in Nat
         /\ \A j \in S, k \in 0 .. Len(Duplicates) + 1 : j < k => Before(S, j) < Before(S, k)
<1>0. S \subseteq 0 .. Len(Duplicates) /\ Len(Duplicates) \in Nat
  BY KeyNumbers DEF KeyNo
<1>1. IsFiniteSet(S)
  <2>1. IsFiniteSet(0 .. Len(Duplicates))
    BY <1>0, FS_Interval
  <2> QED
    BY <1>0, <2>1, FS_Subset
<1>2. ASSUME NEW k \in 0 .. Len(Duplicates) + 1
      PROVE  IsFiniteSet({j \in S : j < k}) /\ Before(S, k) \in Nat
  <2>1. IsFiniteSet({j \in S : j < k})
    BY <1>1, FS_Subset
  <2> QED
    BY <2>1, FS_CardinalityType DEF Before
<1>3. ASSUME NEW j \in S, NEW k \in 0 .. Len(Duplicates) + 1, j < k
      PROVE  Before(S, j) < Before(S, k)
  <2> DEFINE A == {i \in S : i < j}
             B == {i \in S : i < k}
  <2>1. IsFiniteSet(B) /\ A \subseteq B /\ j \in B /\ j \notin A
    <3>1. S \subseteq Nat /\ j \in Nat /\ k \in Nat
      BY <1>0
    <3>2. \A i \in S : i < j => i < k
      BY <1>3, <3>1
    <3>3. ~(j < j)
      BY <3>1
    <3> QED
      BY <1>2, <1>3, <3>2, <3>3
  <2>2. j \in 0 .. Len(Duplicates) + 1
    BY <1>0
  <2>3. Before(S, j) \in Nat /\ Before(S, k) \in Nat
    BY <1>2, <2>2
  <2>4. Before(S, j) = Cardinality(A) /\ Before(S, k) = Cardinality(B)
    BY DEF Before
  <2> HIDE DEF A, B
  <2>5. Cardinality(A) <= Cardinality(B) /\ (Cardinality(B) = Cardinality(A) => B = A)
    BY <2>1, FS_Subset
  <2> QED
    BY <2>1, <2>3, <2>4, <2>5
<1> QED
  BY <1>2, <1>3

-----------------------------------------------------------------------------
(* A database whose trees are in order, each page in one leaf only.        *)

DbType == [trees : [KeyNo -> Seq(LeafType)], recs : Seq(Record \cup {Free}), seq : Nat, page : Nat]

EntriesIn(d, k) == EntriesOf(d.trees[k])
PagesIn(d, k) == PagesOf(d.trees[k])

PagesApart(d) == /\ \A k \in KeyNo : OnePage(d.trees[k]) /\ \A p \in PagesIn(d, k) : p < d.page
                 /\ \A j, k \in KeyNo : \A p \in PagesIn(d, j) : p \in PagesIn(d, k) => j = k

Shaped(d) == d \in DbType /\ (\A k \in KeyNo : TreeOK(d.trees[k])) /\ PagesApart(d)

LEMMA DbTyped ==
  ASSUME NEW d \in DbType
  PROVE  /\ d.trees \in [KeyNo -> Seq(LeafType)] /\ d.recs \in Seq(Record \cup {Free})
         /\ Len(d.recs) \in Nat /\ DOMAIN d.recs = 1 .. Len(d.recs)
         /\ d.seq \in Nat /\ d.page \in Nat
         /\ NextSeq(d) \in Nat /\ NextSeq(d) >= d.seq /\ NextSeq(d) >= Len(d.recs)
<1>1. d.trees \in [KeyNo -> Seq(LeafType)] /\ d.recs \in Seq(Record \cup {Free}) /\ d.seq \in Nat /\ d.page \in Nat
  BY DEF DbType
<1>2. Len(d.recs) \in Nat /\ DOMAIN d.recs = 1 .. Len(d.recs)
  BY <1>1, LenProperties
<1> QED
  BY <1>1, <1>2 DEF NextSeq

JoinSeq(d, K, k)  == NextSeq(d) + Before({j \in K : Dup(j)}, k)
JoinKey(d, K, r, k) == <<Value(r, k), IF Dup(k) THEN JoinSeq(d, K, k) ELSE 0>>
Split(d, K, r, id) == {j \in K : Splits(d.trees[j], JoinKey(d, K, r, j), id)}
JoinPage(d, K, r, id, k) == d.page + Before(Split(d, K, r, id), k)

(* The key a record joins a tree with is one the tree has not.             *)
Fresh(d, K, r) == \A k \in K : \A x \in EntriesIn(d, k) :
                    IF Dup(k) THEN x.key[2] < NextSeq(d) ELSE x.key # Bare(Value(r, k))

LEMMA JoinKeyIs ==
  ASSUME NEW d \in DbType, NEW K \in SUBSET KeyNo, NEW r \in Record, NEW k \in K
  PROVE  /\ JoinKey(d, K, r, k) \in TreeKey /\ JoinKey(d, K, r, k)[1] = Value(r, k)
         /\ Dup(k) => /\ JoinKey(d, K, r, k)[2] \in Nat /\ JoinKey(d, K, r, k)[2] >= NextSeq(d)
                      /\ JoinKey(d, K, r, k)[2] < JoinSeq(d, K, Len(Duplicates) + 1)
         /\ ~Dup(k) => JoinKey(d, K, r, k) = Bare(Value(r, k)) /\ JoinKey(d, K, r, k)[2] = 0
<1> DEFINE S == {j \in K : Dup(j)}
<1>1. k \in KeyNo /\ k \in 0 .. Len(Duplicates) + 1 /\ Len(Duplicates) + 1 \in 0 .. Len(Duplicates) + 1
      /\ k < Len(Duplicates) + 1 /\ S \in SUBSET KeyNo
  <2>1. k \in KeyNo /\ S \in SUBSET KeyNo
    OBVIOUS
  <2>2. k \in 0 .. Len(Duplicates) /\ Len(Duplicates) \in Nat
    BY <2>1, KeyNumbers DEF KeyNo
  <2> QED
    BY <2>1, <2>2
<1>2. Value(r, k) \in Nat /\ NextSeq(d) \in Nat
  BY <1>1, ValueTyped, DbTyped
<1>3. Before(S, k) \in Nat /\ Before(S, Len(Duplicates) + 1) \in Nat
  BY <1>1, Counted
<1>4. Dup(k) => Before(S, k) < Before(S, Len(Duplicates) + 1)
  BY <1>1, Counted
<1>5. JoinSeq(d, K, k) = NextSeq(d) + Before(S, k)
      /\ JoinSeq(d, K, Len(Duplicates) + 1) = NextSeq(d) + Before(S, Len(Duplicates) + 1)
  BY DEF JoinSeq
<1> HIDE DEF S
<1>6. JoinSeq(d, K, k) \in Nat /\ JoinSeq(d, K, k) >= NextSeq(d)
      /\ (Dup(k) => JoinSeq(d, K, k) < JoinSeq(d, K, Len(Duplicates) + 1))
  BY <1>2, <1>3, <1>4, <1>5
<1> QED
  BY <1>2, <1>6 DEF JoinKey, TreeKey, Bare

Joins(d, K, r, id, k) == Insert(d.trees[k], JoinKey(d, K, r, k), id, JoinPage(d, K, r, id, k))

(* The key a record joins a tree with is in none of its entries.           *)
LEMMA FreshKey ==
  ASSUME NEW d, Shaped(d), NEW K \in SUBSET KeyNo, NEW r \in Record, Fresh(d, K, r), NEW k \in K
  PROVE  \A x \in EntriesIn(d, k) : x.key # JoinKey(d, K, r, k)
<1>1. d \in DbType /\ TreeOK(d.trees[k])
  BY DEF Shaped
<1> SUFFICES ASSUME NEW x \in EntriesIn(d, k), x.key = JoinKey(d, K, r, k) PROVE FALSE
  OBVIOUS
<1>2. x.key \in TreeKey
  BY <1>1, EntriesOfTyped DEF EntriesIn
<1>3. CASE Dup(k)
  <2>1. x.key[2] >= NextSeq(d) /\ x.key[2] < NextSeq(d)
    BY <1>1, <1>3, JoinKeyIs DEF Fresh
  <2>2. x.key[2] \in Nat /\ NextSeq(d) \in Nat
    BY <1>1, <1>2, DbTyped DEF TreeKey
  <2> QED
    BY <2>1, <2>2
<1>4. CASE ~Dup(k)
  BY <1>1, <1>4, JoinKeyIs DEF Fresh
<1> QED
  BY <1>3, <1>4

(* The parts of the database the entries of a record have joined.          *)
LEMMA Joined ==
  ASSUME NEW d, Shaped(d), NEW K \in SUBSET KeyNo, NEW r \in Record, NEW id \in Nat, Fresh(d, K, r)
  PROVE  Join(d, K, r, id) =
           [trees |-> [k \in KeyNo |-> IF k \in K THEN Joins(d, K, r, id, k) ELSE d.trees[k]],
            recs  |-> d.recs,
            seq   |-> IF \E k \in K : Dup(k) THEN JoinSeq(d, K, Len(Duplicates) + 1) ELSE d.seq,
            page  |-> JoinPage(d, K, r, id, Len(Duplicates) + 1)]
<1> DEFINE seq(k)  == NextSeq(d) + Cardinality({j \in K : j < k /\ Dup(j)})
           key(k)  == <<Value(r, k), IF Dup(k) THEN seq(k) ELSE 0>>
           full(k) == Len(Insert(d.trees[k], key(k), id, 0)) > Len(d.trees[k])
           page(k) == d.page + Cardinality({j \in K : j < k /\ full(j)})
<1>1. \A k : seq(k) = JoinSeq(d, K, k)
  <2>1. ASSUME NEW k PROVE {j \in K : j < k /\ Dup(j)} = {j \in {i \in K : Dup(i)} : j < k}
    OBVIOUS
  <2> QED
    BY <2>1 DEF JoinSeq, Before
<1> HIDE DEF seq
<1>2. \A k : key(k) = JoinKey(d, K, r, k)
  BY <1>1 DEF JoinKey
<1> HIDE DEF key
<1>3. ASSUME NEW k \in K PROVE full(k) <=> Splits(d.trees[k], JoinKey(d, K, r, k), id)
  <2>1. d \in DbType /\ TreeOK(d.trees[k])
    BY DEF Shaped
  <2>2. JoinKey(d, K, r, k) \in TreeKey /\ \A x \in EntriesOf(d.trees[k]) : x.key # JoinKey(d, K, r, k)
    BY <2>1, FreshKey, JoinKeyIs DEF EntriesIn
  <2> QED
    BY <1>2, <2>1, <2>2, InsertLength
<1> HIDE DEF full
<1>4. \A k : page(k) = JoinPage(d, K, r, id, k)
  <2>1. ASSUME NEW k PROVE {j \in K : j < k /\ full(j)} = {j \in Split(d, K, r, id) : j < k}
    BY <1>3 DEF Split
  <2> QED
    BY <2>1 DEF JoinPage, Before
<1> HIDE DEF page
<1> DEFINE trees == [k \in KeyNo |-> IF k \in K THEN Insert(d.trees[k], key(k), id, page(k)) ELSE d.trees[k]]
           next  == IF \E k \in K : Dup(k) THEN seq(Len(Duplicates) + 1) ELSE d.seq
<1>5. Join(d, K, r, id) = [d EXCEPT !.trees = trees, !.seq = next, !.page = page(Len(Duplicates) + 1)]
  BY DEF Join, seq, key, full, page
<1>6. trees = [k \in KeyNo |-> IF k \in K THEN Joins(d, K, r, id, k) ELSE d.trees[k]]
  BY <1>2, <1>4 DEF Joins
<1>7. next = IF \E k \in K : Dup(k) THEN JoinSeq(d, K, Len(Duplicates) + 1) ELSE d.seq
  BY <1>1
<1> HIDE DEF trees, next
<1>8. d = [trees |-> d.trees, recs |-> d.recs, seq |-> d.seq, page |-> d.page]
  BY DEF Shaped, DbType
<1>9. Join(d, K, r, id) = [trees |-> trees, recs |-> d.recs, seq |-> next, page |-> page(Len(Duplicates) + 1)]
  BY <1>5, <1>8
<1> QED
  BY <1>4, <1>6, <1>7, <1>9

Joining(X, key, id) == X \cup {[key |-> key, id |-> id]}

(* One tree the record joined.                                             *)
LEMMA JoinsIs ==
  ASSUME NEW d, Shaped(d), NEW K \in SUBSET KeyNo, NEW r \in Record, NEW id \in Nat, Fresh(d, K, r), NEW k \in K
  PROVE  LET u == Joins(d, K, r, id, k)
         IN /\ TreeOK(u) /\ OnePage(u)
            /\ EntriesOf(u) = Joining(EntriesIn(d, k), JoinKey(d, K, r, k), id)
            /\ PagesOf(u) = IF k \in Split(d, K, r, id) THEN PagesIn(d, k) \cup {JoinPage(d, K, r, id, k)}
                            ELSE PagesIn(d, k)
            /\ d.page \in Nat /\ JoinPage(d, K, r, id, k) \in Nat /\ JoinPage(d, K, r, id, k) >= d.page
<1> DEFINE t == d.trees[k]
           key == JoinKey(d, K, r, k)
           page == JoinPage(d, K, r, id, k)
           u == Joins(d, K, r, id, k)
<1>1. d \in DbType /\ TreeOK(t) /\ OnePage(t) /\ \A p \in PagesOf(t) : p < d.page
  BY DEF Shaped, PagesApart, PagesIn
<1>2. key \in TreeKey /\ \A x \in EntriesOf(t) : x.key # key
  BY <1>1, JoinKeyIs, FreshKey DEF EntriesIn
<1>3. d.page \in Nat
  BY <1>1, DbTyped
<1>4. page \in Nat /\ page >= d.page
  <2>1. k \in 0 .. Len(Duplicates) + 1
    <3>1. k \in KeyNo
      OBVIOUS
    <3> QED
      BY <3>1, KeyNumbers DEF KeyNo
  <2>2. Split(d, K, r, id) \in SUBSET KeyNo
    BY DEF Split
  <2>3. Before(Split(d, K, r, id), k) \in Nat
    BY <2>1, <2>2, Counted
  <2>4. page = d.page + Before(Split(d, K, r, id), k)
    BY DEF JoinPage
  <2> QED
    BY <1>3, <2>3, <2>4
<1>5. page \notin PagesOf(t)
  <2>1. \A p \in PagesOf(t) : p \in Nat
    BY <1>1, LeavesTyped DEF PagesOf, TreeOK
  <2> QED
    BY <1>1, <1>3, <1>4, <2>1
<1>6. u = Insert(t, key, id, page)
  BY DEF Joins
<1>7. k \in Split(d, K, r, id) <=> Splits(t, key, id)
  BY DEF Split
<1> HIDE DEF t, key, page, u
<1>8. /\ TreeOK(u) /\ EntriesOf(u) = Joining(EntriesOf(t), key, id)
      /\ IF Splits(t, key, id) THEN PagesOf(u) = PagesOf(t) \cup {page} /\ OnePage(u)
         ELSE PagesOf(u) = PagesOf(t) /\ OnePage(u)
  BY <1>1, <1>2, <1>4, <1>5, <1>6, InsertIs DEF Joining
<1> QED
  BY <1>3, <1>4, <1>7, <1>8 DEF EntriesIn, PagesIn, t, key, page, u

(* The entries of a record join the trees of some keys: the trees stay in  *)
(* order, their pages apart, and each gets the one entry of the record.    *)
LEMMA JoinIs ==
  ASSUME NEW d, Shaped(d), NEW K \in SUBSET KeyNo, NEW r \in Record, NEW id \in Nat, Fresh(d, K, r)
  PROVE  LET J == Join(d, K, r, id)
         IN /\ Shaped(J) /\ J.recs = d.recs /\ NextSeq(J) >= NextSeq(d)
            /\ \A k \in KeyNo : PagesIn(d, k) \subseteq PagesIn(J, k)
            /\ \A k \in KeyNo \ K : EntriesIn(J, k) = EntriesIn(d, k)
            /\ \A k \in K :
                 /\ EntriesIn(J, k) = Joining(EntriesIn(d, k), JoinKey(d, K, r, k), id)
                 /\ Dup(k) => JoinKey(d, K, r, k)[2] \in NextSeq(d) .. NextSeq(J) - 1
<1> DEFINE J == Join(d, K, r, id)
           last == JoinPage(d, K, r, id, Len(Duplicates) + 1)
           S == Split(d, K, r, id)
<1>0. /\ d \in DbType /\ \A k \in KeyNo : TreeOK(d.trees[k]) /\ OnePage(d.trees[k])
      /\ \A k \in KeyNo : \A p \in PagesIn(d, k) : p < d.page
      /\ \A j, k \in KeyNo : \A p \in PagesIn(d, j) : p \in PagesIn(d, k) => j = k
  BY DEF Shaped, PagesApart
<1>1. /\ J.recs = d.recs
      /\ J.trees = [k \in KeyNo |-> IF k \in K THEN Joins(d, K, r, id, k) ELSE d.trees[k]]
      /\ J.seq = IF \E k \in K : Dup(k) THEN JoinSeq(d, K, Len(Duplicates) + 1) ELSE d.seq
      /\ J.page = last
      /\ J = [trees |-> J.trees, recs |-> J.recs, seq |-> J.seq, page |-> J.page]
  <2>1. J = [trees |-> [k \in KeyNo |-> IF k \in K THEN Joins(d, K, r, id, k) ELSE d.trees[k]],
             recs  |-> d.recs,
             seq   |-> IF \E k \in K : Dup(k) THEN JoinSeq(d, K, Len(Duplicates) + 1) ELSE d.seq,
             page  |-> last]
    BY Joined
  <2> HIDE DEF J, last
  <2> QED
    BY <2>1
<1>2. Len(Duplicates) + 1 \in 0 .. Len(Duplicates) + 1 /\ S \in SUBSET KeyNo
      /\ KeyNo \subseteq 0 .. Len(Duplicates) + 1
  <2>1. Len(Duplicates) \in Nat
    BY KeyNumbers
  <2>2. KeyNo \subseteq 0 .. Len(Duplicates) + 1 /\ Len(Duplicates) + 1 \in 0 .. Len(Duplicates) + 1
    BY <2>1 DEF KeyNo
  <2>3. S \in SUBSET KeyNo
    BY DEF Split
  <2> QED
    BY <2>2, <2>3
<1>3. last \in Nat /\ last >= d.page /\ \A k \in S : JoinPage(d, K, r, id, k) \in Nat /\ JoinPage(d, K, r, id, k) < last
  <2>1. Before(S, Len(Duplicates) + 1) \in Nat /\ d.page \in Nat
    BY <1>0, <1>2, Counted, DbTyped
  <2>2. \A k \in S : Before(S, k) \in Nat /\ Before(S, k) < Before(S, Len(Duplicates) + 1)
    BY <1>2, Counted, KeyNumbers
  <2>3. last = d.page + Before(S, Len(Duplicates) + 1) /\ \A k : JoinPage(d, K, r, id, k) = d.page + Before(S, k)
    BY DEF JoinPage
  <2> HIDE DEF S, last
  <2> QED
    BY <2>1, <2>2, <2>3
<1>4. \A j, k \in S : JoinPage(d, K, r, id, j) = JoinPage(d, K, r, id, k) => j = k
  <2> SUFFICES ASSUME NEW j \in S, NEW k \in S, j # k PROVE JoinPage(d, K, r, id, j) # JoinPage(d, K, r, id, k)
    OBVIOUS
  <2>1. j \in Nat /\ k \in Nat
    BY <1>2, KeyNumbers
  <2>2. Before(S, j) \in Nat /\ Before(S, k) \in Nat /\ d.page \in Nat
    BY <1>0, <1>2, Counted, DbTyped
  <2>3. Before(S, j) # Before(S, k)
    <3>1. j < k => Before(S, j) < Before(S, k)
      BY <1>2, Counted
    <3>2. k < j => Before(S, k) < Before(S, j)
      BY <1>2, Counted
    <3> HIDE DEF S
    <3> QED
      BY <2>1, <2>2, <3>1, <3>2
  <2>4. JoinPage(d, K, r, id, j) = d.page + Before(S, j) /\ JoinPage(d, K, r, id, k) = d.page + Before(S, k)
    BY DEF JoinPage
  <2> HIDE DEF S
  <2> QED
    BY <2>2, <2>3, <2>4
<1>5. ASSUME NEW k \in K
      PROVE  /\ TreeOK(J.trees[k]) /\ OnePage(J.trees[k])
             /\ EntriesIn(J, k) = Joining(EntriesIn(d, k), JoinKey(d, K, r, k), id)
             /\ PagesIn(J, k) = IF k \in S THEN PagesIn(d, k) \cup {JoinPage(d, K, r, id, k)} ELSE PagesIn(d, k)
             /\ JoinPage(d, K, r, id, k) \in Nat /\ JoinPage(d, K, r, id, k) >= d.page
  <2>1. J.trees[k] = Joins(d, K, r, id, k)
    BY <1>1
  <2> HIDE DEF J
  <2> QED
    BY <2>1, JoinsIs DEF EntriesIn, PagesIn
<1>6. ASSUME NEW k \in KeyNo \ K
      PROVE  J.trees[k] = d.trees[k] /\ EntriesIn(J, k) = EntriesIn(d, k) /\ PagesIn(J, k) = PagesIn(d, k) /\ k \notin S
  <2>1. J.trees[k] = d.trees[k]
    BY <1>1
  <2> QED
    BY <2>1 DEF EntriesIn, PagesIn, Split
<1>7. /\ JoinSeq(d, K, Len(Duplicates) + 1) \in Nat /\ JoinSeq(d, K, Len(Duplicates) + 1) >= NextSeq(d)
      /\ NextSeq(d) \in Nat /\ NextSeq(d) >= d.seq /\ NextSeq(d) >= Len(d.recs) /\ Len(d.recs) \in Nat /\ d.seq \in Nat
  <2>1. {j \in K : Dup(j)} \in SUBSET KeyNo
    OBVIOUS
  <2>2. Before({j \in K : Dup(j)}, Len(Duplicates) + 1) \in Nat
    BY <1>2, <2>1, Counted
  <2>3. /\ NextSeq(d) \in Nat /\ NextSeq(d) >= d.seq /\ NextSeq(d) >= Len(d.recs) /\ Len(d.recs) \in Nat /\ d.seq \in Nat
    BY <1>0, DbTyped
  <2>4. JoinSeq(d, K, Len(Duplicates) + 1) = NextSeq(d) + Before({j \in K : Dup(j)}, Len(Duplicates) + 1)
    BY DEF JoinSeq
  <2> QED
    BY <2>2, <2>3, <2>4
<1> HIDE DEF J, last, S
<1>8. /\ J.seq \in Nat /\ NextSeq(J) >= NextSeq(d)
      /\ (\E k \in K : Dup(k)) => NextSeq(J) >= JoinSeq(d, K, Len(Duplicates) + 1)
      /\ NextSeq(J) \in Nat
  <2>1. CASE \E k \in K : Dup(k)
    BY <1>1, <1>7, <2>1 DEF NextSeq
  <2>2. CASE ~\E k \in K : Dup(k)
    BY <1>1, <1>7, <2>2 DEF NextSeq
  <2> QED
    BY <2>1, <2>2
<1>9. \A k \in KeyNo : TreeOK(J.trees[k]) /\ OnePage(J.trees[k])
  BY <1>0, <1>5, <1>6
<1>10. J \in DbType
  <2>1. \A k \in KeyNo : J.trees[k] \in Seq(LeafType)
    BY <1>9 DEF TreeOK
  <2>2. J.trees \in [KeyNo -> Seq(LeafType)]
    BY <1>1, <2>1
  <2>3. d.recs \in Seq(Record \cup {Free})
    BY <1>0, DbTyped
  <2> QED
    BY <1>1, <1>3, <1>8, <2>2, <2>3 DEF DbType
<1>11. \A k \in KeyNo : \A p \in PagesIn(J, k) :
          p \in PagesIn(d, k) \/ (k \in S /\ p = JoinPage(d, K, r, id, k))
  BY <1>5, <1>6
<1>12. \A k \in KeyNo : \A p \in PagesIn(d, k) : p \in Nat
  BY <1>0, LeavesTyped DEF PagesIn, PagesOf, TreeOK
<1>13. d.page \in Nat /\ S \subseteq K
  BY <1>0, DbTyped DEF S, Split
<1>14. \A k \in KeyNo : \A p \in PagesIn(J, k) : p < J.page
  BY <1>0, <1>1, <1>3, <1>11, <1>12, <1>13
<1>15. ASSUME NEW j \in KeyNo, NEW k \in KeyNo, NEW p \in PagesIn(J, j), p \in PagesIn(J, k)
       PROVE  j = k
  <2>1. CASE p \in PagesIn(d, j) /\ p \in PagesIn(d, k)
    BY <1>0, <2>1
  <2>2. ASSUME NEW m \in S, NEW n \in KeyNo, p = JoinPage(d, K, r, id, m), p \in PagesIn(d, n) PROVE FALSE
    <3>1. p >= d.page /\ p < d.page /\ p \in Nat
      BY <1>0, <1>5, <1>12, <1>13, <2>2
    <3> QED
      BY <1>13, <3>1
  <2>3. CASE j \in S /\ k \in S /\ p = JoinPage(d, K, r, id, j) /\ p = JoinPage(d, K, r, id, k)
    BY <1>4, <2>3
  <2> QED
    BY <1>11, <1>15, <2>1, <2>2, <2>3
<1>16. Shaped(J)
  BY <1>9, <1>10, <1>14, <1>15 DEF Shaped, PagesApart
<1>17. ASSUME NEW k \in K, Dup(k)
       PROVE  JoinKey(d, K, r, k)[2] \in NextSeq(d) .. NextSeq(J) - 1
  <2>1. /\ JoinKey(d, K, r, k)[2] \in Nat /\ JoinKey(d, K, r, k)[2] >= NextSeq(d)
        /\ JoinKey(d, K, r, k)[2] < JoinSeq(d, K, Len(Duplicates) + 1)
    BY <1>0, <1>17, JoinKeyIs
  <2> QED
    BY <1>7, <1>8, <1>17, <2>1
<1> QED
  BY <1>1, <1>5, <1>6, <1>8, <1>16, <1>17 DEF J

-----------------------------------------------------------------------------
(* The slots of a tree and the entries in them.                            *)

LEMMA SlotsAre ==
  ASSUME NEW t, TreeOK(t)
  PROVE  /\ \A p \in Slots(t) : /\ p = <<p[1], p[2]>> /\ p[1] \in Nat /\ p[2] \in Nat
                                /\ p[1] \in DOMAIN t /\ p[2] \in DOMAIN t[p[1]].entries
                                /\ EntryAt(t, p) = t[p[1]].entries[p[2]]
                                /\ EntryAt(t, p) \in SetOf(t[p[1]].entries) /\ EntryAt(t, p) \in EntriesOf(t)
                                /\ KeyAt(t, p) = EntryAt(t, p).key
         /\ \A j \in DOMAIN t : \A n \in DOMAIN t[j].entries : <<j, n>> \in Slots(t)
         /\ \A x \in EntriesOf(t) : \E p \in Slots(t) : EntryAt(t, p) = x
<1>1. DOMAIN t \subseteq Nat /\ \A j \in DOMAIN t : DOMAIN t[j].entries \subseteq Nat
  <2>1. DOMAIN t \subseteq Nat /\ \A j \in DOMAIN t : t[j].entries \in Seq(Entry)
    BY LeavesTyped DEF TreeOK
  <2>2. \A j \in DOMAIN t : DOMAIN t[j].entries \subseteq Nat
    BY <2>1, EntriesTyped
  <2> QED
    BY <2>1, <2>2
<1>2. ASSUME NEW p \in Slots(t)
      PROVE  /\ p = <<p[1], p[2]>> /\ p[1] \in DOMAIN t /\ p[2] \in DOMAIN t[p[1]].entries
  BY DEF Slots
<1>3. ASSUME NEW p \in Slots(t)
      PROVE  /\ EntryAt(t, p) = t[p[1]].entries[p[2]] /\ KeyAt(t, p) = EntryAt(t, p).key
             /\ EntryAt(t, p) \in SetOf(t[p[1]].entries) /\ EntryAt(t, p) \in EntriesOf(t)
  BY <1>2 DEF EntryAt, KeyAt, SetOf, EntriesOf
<1>4. \A j \in DOMAIN t : \A n \in DOMAIN t[j].entries : <<j, n>> \in Slots(t)
  BY DEF Slots
<1>5. ASSUME NEW x \in EntriesOf(t) PROVE \E p \in Slots(t) : EntryAt(t, p) = x
  <2>1. PICK j \in DOMAIN t : x \in SetOf(t[j].entries)
    BY DEF EntriesOf
  <2>2. PICK n \in DOMAIN t[j].entries : x = t[j].entries[n]
    BY <2>1 DEF SetOf
  <2>3. <<j, n>> \in Slots(t) /\ EntryAt(t, <<j, n>>) = x
    BY <1>4, <2>2 DEF EntryAt
  <2> QED
    BY <2>3
<1> QED
  BY <1>1, <1>2, <1>3, <1>4, <1>5

LEMMA SearchIs ==
  ASSUME NEW t, TreeOK(t), NEW key
  PROVE  \A n : n \in Search(t, key) <=> \E x \in EntriesOf(t) : x.key = key /\ x.id = n
BY SlotsAre DEF Search

LEMMA JoinedAsIs ==
  ASSUME NEW t, TreeOK(t), NEW v, NEW id
  PROVE  \A key : key \in JoinedAs(t, v, id) <=>
                    \E x \in EntriesOf(t) : x.key = key /\ key[1] = v /\ x.id = id
BY SlotsAre DEF JoinedAs

-----------------------------------------------------------------------------
(* The entries of a record leave the trees of some keys.                   *)

KeysOf(d, r, id, k) == IF Dup(k) THEN JoinedAs(d.trees[k], Value(r, k), id) ELSE {Bare(Value(r, k))}

Left(d, r, id, k) == Without(d.trees[k], CHOOSE key \in KeysOf(d, r, id, k) : TRUE)

Others(X, id) == {x \in X : x.id # id}

(* Record id has one entry, under the value of r, in each of the trees.    *)
Indexed(d, K, r, id) ==
  \A k \in K : \E x \in EntriesIn(d, k) :
    /\ x.id = id /\ x.key[1] = Value(r, k) /\ (~Dup(k) => x.key[2] = 0)
    /\ \A y \in EntriesIn(d, k) : y.id = id => y = x

LEMMA LeftIs ==
  ASSUME NEW d, Shaped(d), NEW K \in SUBSET KeyNo, NEW r \in Record, NEW id, Indexed(d, K, r, id), NEW k \in K
  PROVE  /\ KeysOf(d, r, id, k) # {}
         /\ TreeOK(Left(d, r, id, k)) /\ OnePage(Left(d, r, id, k))
         /\ PagesOf(Left(d, r, id, k)) = PagesIn(d, k)
         /\ EntriesOf(Left(d, r, id, k)) = Others(EntriesIn(d, k), id)
<1> DEFINE t == d.trees[k]
           key == CHOOSE key \in KeysOf(d, r, id, k) : TRUE
<1>1. TreeOK(t) /\ OnePage(t)
  BY DEF Shaped, PagesApart
<1>2. PICK x \in EntriesOf(t) : /\ x.id = id /\ x.key[1] = Value(r, k) /\ (~Dup(k) => x.key[2] = 0)
                                /\ \A y \in EntriesOf(t) : y.id = id => y = x
  BY DEF Indexed, EntriesIn
<1>3. x.key \in TreeKey
  BY <1>1, EntriesOfTyped
<1>4. KeysOf(d, r, id, k) = {x.key}
  <2>1. CASE Dup(k)
    <3>1. \A y : y \in JoinedAs(t, Value(r, k), id) <=> y = x.key
      BY <1>1, <1>2, JoinedAsIs
    <3> QED
      BY <2>1, <3>1 DEF KeysOf
  <2>2. CASE ~Dup(k)
    BY <1>2, <1>3, <2>2 DEF KeysOf, Bare, TreeKey
  <2> QED
    BY <2>1, <2>2
<1>5. key = x.key
  BY <1>4
<1>6. Left(d, r, id, k) = Without(t, x.key)
  BY <1>5 DEF Left
<1> HIDE DEF t, key
<1>7. /\ TreeOK(Without(t, x.key)) /\ PagesOf(Without(t, x.key)) = PagesOf(t)
      /\ OnePage(Without(t, x.key))
      /\ EntriesOf(Without(t, x.key)) = {y \in EntriesOf(t) : y.key # x.key}
  BY <1>1, <1>3, WithoutIs
<1>8. \A y \in EntriesOf(t) : y.key = x.key <=> y.id = id
  BY <1>1, <1>2, EntryOnce
<1>9. EntriesOf(Without(t, x.key)) = {y \in EntriesOf(t) : y.id # id}
  BY <1>7, <1>8
<1> QED
  BY <1>4, <1>6, <1>7, <1>9 DEF EntriesIn, PagesIn, t, Others

LeftBy(L, d, K, id) ==
  \A k \in KeyNo : EntriesIn(L, k) = IF k \in K THEN Others(EntriesIn(d, k), id) ELSE EntriesIn(d, k)

LEMMA LeaveIs ==
  ASSUME NEW d, Shaped(d), NEW K \in SUBSET KeyNo, NEW r \in Record, NEW id, Indexed(d, K, r, id)
  PROVE  LET L == Leave(d, K, r, id)
         IN /\ Shaped(L) /\ L.recs = d.recs /\ NextSeq(L) = NextSeq(d)
            /\ \A k \in KeyNo : PagesIn(L, k) = PagesIn(d, k)
            /\ LeftBy(L, d, K, id)
<1> DEFINE L == Leave(d, K, r, id)
           trees == [k \in KeyNo |-> IF k \in K /\ KeysOf(d, r, id, k) # {} THEN Left(d, r, id, k) ELSE d.trees[k]]
<1>0. /\ d \in DbType /\ \A k \in KeyNo : TreeOK(d.trees[k]) /\ OnePage(d.trees[k])
  BY DEF Shaped, PagesApart
<1>1. L = [d EXCEPT !.trees = trees]
  BY DEF Leave, KeysOf, Left
<1>2. \A k \in K : KeysOf(d, r, id, k) # {}
  BY LeftIs
<1>3. trees = [k \in KeyNo |-> IF k \in K THEN Left(d, r, id, k) ELSE d.trees[k]]
  BY <1>2
<1> HIDE DEF trees
<1>4. L = [trees |-> trees, recs |-> d.recs, seq |-> d.seq, page |-> d.page]
  BY <1>0, <1>1 DEF DbType
<1> HIDE DEF L
<1>5. L.trees = trees /\ L.recs = d.recs /\ L.seq = d.seq /\ L.page = d.page
  BY <1>4
<1>6. ASSUME NEW k \in K
      PROVE  /\ TreeOK(L.trees[k]) /\ OnePage(L.trees[k]) /\ PagesIn(L, k) = PagesIn(d, k)
             /\ EntriesIn(L, k) = Others(EntriesIn(d, k), id)
  <2>1. L.trees[k] = Left(d, r, id, k)
    BY <1>3, <1>5
  <2>2. EntriesIn(L, k) = EntriesOf(Left(d, r, id, k)) /\ PagesIn(L, k) = PagesOf(Left(d, r, id, k))
    BY <2>1 DEF EntriesIn, PagesIn
  <2> QED
    BY <2>1, <2>2, LeftIs
<1>7. ASSUME NEW k \in KeyNo \ K
      PROVE  /\ TreeOK(L.trees[k]) /\ OnePage(L.trees[k]) /\ PagesIn(L, k) = PagesIn(d, k)
             /\ EntriesIn(L, k) = EntriesIn(d, k)
  <2>1. L.trees[k] = d.trees[k]
    BY <1>3, <1>5
  <2> QED
    BY <1>0, <2>1 DEF EntriesIn, PagesIn
<1>8. \A k \in KeyNo : TreeOK(L.trees[k]) /\ OnePage(L.trees[k]) /\ PagesIn(L, k) = PagesIn(d, k)
  BY <1>6, <1>7
<1>9. L \in DbType
  <2>1. \A k \in KeyNo : L.trees[k] \in Seq(LeafType)
    BY <1>8 DEF TreeOK
  <2>2. trees \in [KeyNo -> Seq(LeafType)]
    BY <1>3, <1>5, <2>1
  <2> QED
    BY <1>0, <1>4, <2>2, DbTyped DEF DbType
<1>10. Shaped(L)
  BY <1>5, <1>8, <1>9 DEF Shaped, PagesApart
<1>11. NextSeq(L) = NextSeq(d)
  BY <1>5 DEF NextSeq
<1> QED
  BY <1>5, <1>6, <1>7, <1>8, <1>10, <1>11 DEF L, LeftBy

-----------------------------------------------------------------------------
(* The entries of one index describe the records: one of every record,     *)
(* under its value, with a join sequence given before.                     *)

Live(recs) == {n \in DOMAIN recs : recs[n] # Free}
JoinSeqs(k, given) == IF Dup(k) THEN 1 .. given - 1 ELSE {0}

Describe(X, recs, given, k) ==
  /\ \A x \in X : x.id \in Live(recs) /\ x.key[1] = Value(recs[x.id], k) /\ x.key[2] \in JoinSeqs(k, given)
  /\ \A n \in Live(recs) : \E x \in X : x.id = n /\ \A y \in X : y.id = n => y = x

Good(d) == Shaped(d) /\ \A k \in KeyNo : Describe(EntriesIn(d, k), d.recs, NextSeq(d), k)

LEMMA JoinSeqsGrow ==
  ASSUME NEW k, NEW g \in Nat, NEW h \in Nat, g <= h, NEW s \in JoinSeqs(k, g)
  PROVE  s \in JoinSeqs(k, h)
BY DEF JoinSeqs

LEMMA EntryLeaves ==
  ASSUME NEW X, NEW recs, NEW g, NEW k, Describe(X, recs, g, k), NEW id
  PROVE  Describe(Others(X, id), [recs EXCEPT ![id] = Free], g, k)
<1> DEFINE Y == Others(X, id)
           to == [recs EXCEPT ![id] = Free]
<1>1. \A n : n \in Live(to) <=> n \in Live(recs) /\ n # id
  BY DEF Live
<1>2. \A n \in Live(to) : to[n] = recs[n]
  BY DEF Live
<1> HIDE DEF to
<1>3. \A x \in Y : x.id \in Live(to) /\ x.key[1] = Value(to[x.id], k) /\ x.key[2] \in JoinSeqs(k, g)
  BY <1>1, <1>2 DEF Describe, Others
<1>4. ASSUME NEW n \in Live(to) PROVE \E x \in Y : x.id = n /\ \A y \in Y : y.id = n => y = x
  BY <1>1 DEF Describe, Others
<1> QED
  BY <1>3, <1>4 DEF Describe, to

LEMMA EntryJoins ==
  ASSUME NEW X, NEW recs, NEW g \in Nat, NEW k, Describe(X, recs, g, k),
         NEW to, NEW h \in Nat, g <= h, NEW id, id \notin Live(recs), Live(to) = Live(recs) \cup {id},
         \A n \in Live(recs) : to[n] = recs[n],
         NEW key, key[1] = Value(to[id], k), key[2] \in JoinSeqs(k, h)
  PROVE  Describe(Joining(X, key, id), to, h, k)
<1> DEFINE e == [key |-> key, id |-> id]
<1>0. e.id = id /\ e.key = key /\ Joining(X, key, id) = X \cup {e}
  BY DEF Joining
<1> HIDE DEF e
<1>1. \A x \in X \cup {e} : x.id \in Live(to) /\ x.key[1] = Value(to[x.id], k) /\ x.key[2] \in JoinSeqs(k, h)
  BY <1>0, JoinSeqsGrow DEF Describe
<1>2. ASSUME NEW n \in Live(to)
      PROVE  \E x \in X \cup {e} : x.id = n /\ \A y \in X \cup {e} : y.id = n => y = x
  <2>1. CASE n = id
    <3>1. \A y \in X : y.id # id
      BY DEF Describe
    <3> QED
      BY <1>0, <2>1, <3>1
  <2>2. CASE n # id
    <3>1. PICK x \in X : x.id = n /\ \A y \in X : y.id = n => y = x
      BY <2>2 DEF Describe
    <3> QED
      BY <1>0, <2>2, <3>1
  <2> QED
    BY <2>1, <2>2
<1> QED
  BY <1>0, <1>1, <1>2 DEF Describe

LEMMA EntryStays ==
  ASSUME NEW X, NEW recs, NEW g \in Nat, NEW k, Describe(X, recs, g, k),
         NEW to, NEW h \in Nat, g <= h, Live(to) = Live(recs),
         \A n \in Live(recs) : Value(to[n], k) = Value(recs[n], k)
  PROVE  Describe(X, to, h, k)
BY JoinSeqsGrow DEF Describe

LEMMA LiveTyped ==
  ASSUME NEW recs \in Seq(Record \cup {Free})
  PROVE  /\ Len(recs) \in Nat /\ DOMAIN recs = 1 .. Len(recs)
         /\ \A n \in Live(recs) : n \in Nat /\ n \in 1 .. Len(recs) /\ recs[n] \in Record
         /\ \A n \in 1 .. Len(recs) : recs[n] \in Record => n \in Live(recs)
<1>1. Len(recs) \in Nat /\ DOMAIN recs = 1 .. Len(recs)
  BY LenProperties
<1>2. \A n \in 1 .. Len(recs) : recs[n] \in Record \cup {Free}
  BY ElementOfSeq
<1>3. Free \notin Record
  BY NoneAssumption DEF Free
<1> QED
  BY <1>1, <1>2, <1>3 DEF Live

(* The directory of records changes, the trees do not.                     *)
LEMMA Recorded ==
  ASSUME NEW d, Shaped(d), NEW recs \in Seq(Record \cup {Free}), Len(recs) >= Len(d.recs)
  PROVE  LET w == [d EXCEPT !.recs = recs]
         IN /\ Shaped(w) /\ w.recs = recs /\ NextSeq(w) >= NextSeq(d)
            /\ \A k \in KeyNo : EntriesIn(w, k) = EntriesIn(d, k) /\ PagesIn(w, k) = PagesIn(d, k)
<1> DEFINE w == [d EXCEPT !.recs = recs]
<1>1. d \in DbType
  BY DEF Shaped
<1>2. /\ w = [trees |-> d.trees, recs |-> recs, seq |-> d.seq, page |-> d.page]
      /\ w.trees = d.trees /\ w.recs = recs /\ w.seq = d.seq /\ w.page = d.page
  BY <1>1 DEF DbType
<1> HIDE DEF w
<1>3. w \in DbType
  BY <1>1, <1>2, DbTyped DEF DbType
<1>4. \A k \in KeyNo : EntriesIn(w, k) = EntriesIn(d, k) /\ PagesIn(w, k) = PagesIn(d, k)
  BY <1>2 DEF EntriesIn, PagesIn
<1>5. Shaped(w)
  BY <1>2, <1>3, <1>4 DEF Shaped, PagesApart
<1>6. NextSeq(w) >= NextSeq(d)
  <2>1. d.seq \in Nat /\ Len(d.recs) \in Nat /\ Len(recs) \in Nat
    BY <1>1, DbTyped, LenProperties
  <2> QED
    BY <1>2, <2>1 DEF NextSeq
<1> QED
  BY <1>2, <1>4, <1>5, <1>6 DEF w

LEMMA IndexedIs ==
  ASSUME NEW d, Good(d), NEW id \in LiveIn(d), NEW K \in SUBSET KeyNo
  PROVE  d.recs[id] \in Record /\ id \in Nat /\ Indexed(d, K, d.recs[id], id)
<1>1. d.recs \in Seq(Record \cup {Free}) /\ id \in Live(d.recs)
  BY DbTyped DEF Good, Shaped, LiveIn, Live
<1>2. d.recs[id] \in Record /\ id \in Nat
  BY <1>1, LiveTyped
<1>3. ASSUME NEW k \in K
      PROVE  \E x \in EntriesIn(d, k) :
               /\ x.id = id /\ x.key[1] = Value(d.recs[id], k) /\ (~Dup(k) => x.key[2] = 0)
               /\ \A y \in EntriesIn(d, k) : y.id = id => y = x
  <2>1. Describe(EntriesIn(d, k), d.recs, NextSeq(d), k)
    BY DEF Good
  <2> QED
    BY <1>1, <2>1 DEF Describe, JoinSeqs
<1> QED
  BY <1>2, <1>3 DEF Indexed

-----------------------------------------------------------------------------
(* The verbs.                                                              *)

PagesKept(d, e) == \A k \in KeyNo : PagesIn(d, k) \subseteq PagesIn(e, k)

(* No page of a tree is given up, and no record but id changes its place.  *)
Kept(d, e) == Good(e) /\ PagesKept(d, e)

LEMMA WrittenIs ==
  ASSUME NEW d, Good(d), NEW r \in Record
  PROVE  /\ Kept(d, Written(d, r).db) /\ LiveIn(d) \subseteq LiveIn(Written(d, r).db)
         /\ Written(d, r).st \in {"00", "22"}
         /\ ~Unique(d, r) => Written(d, r) = [st |-> "22", db |-> d]
         /\ Unique(d, r) => Written(d, r).st = "00" /\ Written(d, r).db.recs = Append(d.recs, r)
<1> DEFINE id == Len(d.recs) + 1
           recs == Append(d.recs, r)
           w == [d EXCEPT !.recs = recs]
           J == Join(w, KeyNo, r, id)
<1>0. Shaped(d) /\ d \in DbType /\ d.recs \in Seq(Record \cup {Free}) /\ NextSeq(d) \in Nat
  BY DbTyped DEF Good, Shaped
<1>1. CASE ~Unique(d, r)
  <2>1. Written(d, r) = [st |-> "22", db |-> d]
    BY <1>1 DEF Written
  <2> QED
    BY <1>1, <2>1 DEF Kept, PagesKept
<1>2. CASE Unique(d, r)
  <2>1. Written(d, r) = [st |-> "00", db |-> J]
    BY <1>2 DEF Written, IndexInsert
  <2>2. /\ Len(d.recs) \in Nat /\ id \in Nat /\ recs \in Seq(Record \cup {Free}) /\ Len(recs) = id
        /\ \A n \in 1 .. Len(d.recs) : recs[n] = d.recs[n]
        /\ recs[id] = r /\ id \notin 1 .. Len(d.recs)
    <3>1. r \in Record \cup {Free} /\ Len(d.recs) \in Nat
      BY <1>0, LenProperties
    <3> QED
      BY <1>0, <3>1, AppendProperties
  <2>3. /\ Shaped(w) /\ w.recs = recs /\ NextSeq(w) >= NextSeq(d)
        /\ \A k \in KeyNo : EntriesIn(w, k) = EntriesIn(d, k) /\ PagesIn(w, k) = PagesIn(d, k)
    <3>1. Len(recs) >= Len(d.recs)
      BY <2>2
    <3> HIDE DEF recs
    <3> QED
      BY <1>0, <2>2, <3>1, Recorded
  <2> HIDE DEF w, recs, id
  <2>4. NextSeq(w) \in Nat /\ NextSeq(w) >= id /\ w \in DbType
    BY <2>2, <2>3, DbTyped DEF Shaped
  <2>5. Fresh(w, KeyNo, r)
    <3> SUFFICES ASSUME NEW k \in KeyNo, NEW x \in EntriesIn(d, k)
                 PROVE  IF Dup(k) THEN x.key[2] < NextSeq(w) ELSE x.key # Bare(Value(r, k))
      BY <2>3 DEF Fresh
    <3>1. CASE Dup(k)
      <4>1. x.key[2] \in 1 .. NextSeq(d) - 1
        BY <3>1 DEF Good, Describe, JoinSeqs
      <4> QED
        BY <1>0, <2>3, <2>4, <3>1, <4>1
    <3>2. CASE ~Dup(k)
      <4>1. TreeOK(d.trees[k]) /\ Search(d.trees[k], Bare(Value(r, k))) = {}
        BY <1>0, <1>2, <3>2 DEF Unique, Shaped
      <4>2. x \in EntriesOf(d.trees[k])
        BY DEF EntriesIn
      <4>3. x.key = Bare(Value(r, k)) => x.id \in Search(d.trees[k], Bare(Value(r, k)))
        BY <4>1, <4>2, SearchIs
      <4> QED
        BY <3>2, <4>1, <4>3
    <3> QED
      BY <3>1, <3>2
  <2>6. /\ Shaped(J) /\ J.recs = recs /\ NextSeq(J) >= NextSeq(w)
        /\ \A k \in KeyNo : PagesIn(w, k) \subseteq PagesIn(J, k)
        /\ \A k \in KeyNo :
             /\ EntriesIn(J, k) = Joining(EntriesIn(w, k), JoinKey(w, KeyNo, r, k), id)
             /\ Dup(k) => JoinKey(w, KeyNo, r, k)[2] \in NextSeq(w) .. NextSeq(J) - 1
    <3>1. PICK K \in SUBSET KeyNo : K = KeyNo
      OBVIOUS
    <3>2. Shaped(w) /\ Fresh(w, K, r) /\ id \in Nat
      BY <2>2, <2>3, <2>5, <3>1
    <3>3. /\ Shaped(Join(w, K, r, id)) /\ Join(w, K, r, id).recs = w.recs /\ NextSeq(Join(w, K, r, id)) >= NextSeq(w)
      BY <3>2, JoinIs
    <3>4. \A k \in KeyNo : PagesIn(w, k) \subseteq PagesIn(Join(w, K, r, id), k)
      BY <3>2, JoinIs
    <3>5. \A k \in K : EntriesIn(Join(w, K, r, id), k) = Joining(EntriesIn(w, k), JoinKey(w, K, r, k), id)
      BY <3>2, JoinIs
    <3>6. \A k \in K : Dup(k) => JoinKey(w, K, r, k)[2] \in NextSeq(w) .. NextSeq(Join(w, K, r, id)) - 1
      BY <3>2, JoinIs
    <3> QED
      BY <2>3, <3>1, <3>3, <3>4, <3>5, <3>6
  <2> HIDE DEF J
  <2>7. Live(recs) = Live(d.recs) \cup {id} /\ id \notin Live(d.recs) /\ \A n \in Live(d.recs) : recs[n] = d.recs[n]
    <3>1. /\ DOMAIN recs = 1 .. id /\ DOMAIN d.recs = 1 .. Len(d.recs) /\ Len(d.recs) \in Nat
          /\ \A n \in Live(d.recs) : n \in 1 .. Len(d.recs)
      BY <1>0, <2>2, LiveTyped
    <3>2. 1 .. id = 1 .. Len(d.recs) \cup {id}
      BY <3>1 DEF id
    <3>3. recs[id] # Free
      BY <2>2, NoneAssumption DEF Free
    <3>4. \A n : n \in Live(recs) <=> n \in Live(d.recs) \/ n = id
      BY <2>2, <3>1, <3>2, <3>3 DEF Live
    <3> QED
      BY <2>2, <3>1, <3>4
  <2>8. ASSUME NEW k \in KeyNo
        PROVE  Describe(EntriesIn(J, k), recs, NextSeq(J), k)
    <3> DEFINE key == JoinKey(w, KeyNo, r, k)
    <3>1. NextSeq(J) \in Nat /\ NextSeq(d) <= NextSeq(J) /\ NextSeq(J) >= NextSeq(w)
      <4>1. NextSeq(J) \in Nat
        BY <2>6, DbTyped DEF Shaped
      <4> QED
        BY <1>0, <2>3, <2>4, <2>6, <4>1
    <3>2. key[1] = Value(recs[id], k) /\ key[2] \in JoinSeqs(k, NextSeq(J))
      <4>1. JoinKey(w, KeyNo, r, k)[1] = Value(r, k) /\ (~Dup(k) => JoinKey(w, KeyNo, r, k)[2] = 0)
        <5>1. KeyNo \in SUBSET KeyNo
          OBVIOUS
        <5> QED
          BY <2>4, <5>1, JoinKeyIs
      <4>2. Dup(k) => JoinKey(w, KeyNo, r, k)[2] \in 1 .. NextSeq(J) - 1
        <5>1. NextSeq(w) >= 1
          BY <2>2, <2>4 DEF id
        <5> QED
          BY <2>4, <2>6, <3>1, <5>1
      <4> QED
        BY <2>2, <4>1, <4>2 DEF JoinSeqs
    <3> HIDE DEF key
    <3>3. Describe(EntriesIn(d, k), d.recs, NextSeq(d), k)
      BY DEF Good
    <3>4. Describe(Joining(EntriesIn(d, k), key, id), recs, NextSeq(J), k)
      BY <1>0, <2>7, <3>1, <3>2, <3>3, EntryJoins
    <3> QED
      BY <2>3, <2>6, <3>4 DEF key
  <2>9. Good(J) /\ PagesKept(d, J)
    BY <2>3, <2>6, <2>8 DEF Good, PagesKept
  <2>10. LiveIn(d) \subseteq LiveIn(J)
    BY <2>6, <2>7 DEF LiveIn, Live
  <2>11. Written(d, r).db.recs = Append(d.recs, r)
    BY <2>1, <2>6 DEF recs
  <2> QED
    BY <1>2, <2>1, <2>9, <2>10, <2>11 DEF Kept
<1> QED
  BY <1>1, <1>2

LEMMA DeletedIs ==
  ASSUME NEW d, Good(d), NEW id \in LiveIn(d)
  PROVE  /\ Kept(d, Deleted(d, id).db) /\ LiveIn(Deleted(d, id).db) = LiveIn(d) \ {id}
         /\ Deleted(d, id).st = "00" /\ Deleted(d, id).db.recs = [d.recs EXCEPT ![id] = Free]
<1> DEFINE old == d.recs[id]
           L == Leave(d, KeyNo, old, id)
           recs == [d.recs EXCEPT ![id] = Free]
           w == [L EXCEPT !.recs = recs]
<1>0. Shaped(d) /\ d.recs \in Seq(Record \cup {Free}) /\ NextSeq(d) \in Nat
  BY DbTyped DEF Good, Shaped
<1>1. old \in Record /\ id \in Nat /\ Indexed(d, KeyNo, old, id)
  <2>1. KeyNo \in SUBSET KeyNo
    OBVIOUS
  <2> QED
    BY <2>1, IndexedIs
<1>2. /\ Shaped(L) /\ L.recs = d.recs /\ NextSeq(L) = NextSeq(d)
      /\ \A k \in KeyNo : PagesIn(L, k) = PagesIn(d, k)
      /\ \A k \in KeyNo : EntriesIn(L, k) = Others(EntriesIn(d, k), id)
  <2>1. KeyNo \in SUBSET KeyNo
    OBVIOUS
  <2> HIDE DEF old
  <2>2. Shaped(L) /\ L.recs = d.recs /\ NextSeq(L) = NextSeq(d) /\ LeftBy(L, d, KeyNo, id)
    BY <1>0, <1>1, <2>1, LeaveIs
  <2>3. \A k \in KeyNo : PagesIn(L, k) = PagesIn(d, k)
    BY <1>0, <1>1, <2>1, LeaveIs
  <2> HIDE DEF L
  <2> QED
    BY <2>2, <2>3 DEF LeftBy
<1> HIDE DEF old
<1>3. Deleted(d, id) = [st |-> "00", db |-> w]
  <2>1. [L EXCEPT !.recs[id] = Free] = w
    BY <1>2
  <2> QED
    BY <2>1 DEF Deleted, IndexRemove, old
<1> HIDE DEF L
<1>4. recs \in Seq(Record \cup {Free}) /\ Len(recs) = Len(d.recs) /\ Len(d.recs) \in Nat
  <2>1. id \in 1 .. Len(d.recs) /\ Free \in Record \cup {Free} /\ DOMAIN d.recs = 1 .. Len(d.recs)
    BY <1>0, LiveTyped DEF LiveIn, Live
  <2> QED
    BY <1>0, <2>1, ExceptSeq
<1>5. /\ Shaped(w) /\ w.recs = recs /\ NextSeq(w) >= NextSeq(L)
      /\ \A k \in KeyNo : EntriesIn(w, k) = EntriesIn(L, k) /\ PagesIn(w, k) = PagesIn(L, k)
  <2>1. Len(recs) >= Len(L.recs)
    BY <1>2, <1>4
  <2> HIDE DEF recs
  <2> QED
    BY <1>2, <1>4, <2>1, Recorded
<1> HIDE DEF w
<1>6. NextSeq(w) \in Nat /\ NextSeq(d) <= NextSeq(w)
  BY <1>0, <1>2, <1>5, DbTyped DEF Shaped
<1>7. ASSUME NEW k \in KeyNo
      PROVE  Describe(EntriesIn(w, k), recs, NextSeq(w), k)
  <2>1. Describe(EntriesIn(d, k), d.recs, NextSeq(d), k)
    BY DEF Good
  <2>2. EntriesIn(w, k) = Others(EntriesIn(d, k), id)
    BY <1>2, <1>5
  <2>3. Describe(Others(EntriesIn(d, k), id), recs, NextSeq(d), k)
    BY <2>1, EntryLeaves
  <2> HIDE DEF recs
  <2> QED
    BY <1>0, <1>6, <2>2, <2>3, EntryStays
<1>8. Good(w) /\ PagesKept(d, w)
  BY <1>2, <1>5, <1>7 DEF Good, PagesKept
<1>9. LiveIn(w) = LiveIn(d) \ {id}
  BY <1>5 DEF LiveIn
<1> QED
  BY <1>3, <1>5, <1>8, <1>9 DEF Kept

(* The entries of a record leave the trees of some keys and join them      *)
(* again under the values of another.                                      *)
Old(d, id)         == d.recs[id]
Cleared(d, M, id)  == Leave(d, M, Old(d, id), id)
Moved(d, M, id, r) == Join(Cleared(d, M, id), M, r, id)
Put(d, id, r)      == [d EXCEPT !.recs = [d.recs EXCEPT ![id] = r]]

Movable(d, M, id, r) ==
  /\ \A k \in M : ~Dup(k) => Search(d.trees[k], Bare(Value(r, k))) = {}
  /\ \A k \in KeyNo \ M : Value(r, k) = Value(Old(d, id), k)

LEMMA MovedIs ==
  ASSUME NEW d, Good(d), NEW id \in LiveIn(d), NEW r \in Record, NEW M \in SUBSET KeyNo, Movable(d, M, id, r)
  PROVE  /\ Kept(d, Put(Moved(d, M, id, r), id, r))
         /\ LiveIn(Put(Moved(d, M, id, r), id, r)) = LiveIn(d)
         /\ Put(Moved(d, M, id, r), id, r).recs = [d.recs EXCEPT ![id] = r]
<1> DEFINE L == Cleared(d, M, id)
           J == Moved(d, M, id, r)
           done == Put(J, id, r)
           old == Old(d, id)
           recs == [d.recs EXCEPT ![id] = r]
<1>6. old \in Record /\ id \in Nat /\ Indexed(d, M, old, id)
  BY IndexedIs DEF Old
<1>7. Shaped(d) /\ d.recs \in Seq(Record \cup {Free}) /\ NextSeq(d) \in Nat
  BY DbTyped DEF Good, Shaped
<1>8. /\ Shaped(L) /\ L.recs = d.recs /\ NextSeq(L) = NextSeq(d)
      /\ \A k \in KeyNo : PagesIn(L, k) = PagesIn(d, k)
      /\ \A k \in KeyNo \ M : EntriesIn(L, k) = EntriesIn(d, k)
      /\ \A k \in M : EntriesIn(L, k) = Others(EntriesIn(d, k), id)
  <2> DEFINE N == Leave(d, M, old, id)
  <2>1. L = N
    BY DEF Cleared
  <2> HIDE DEF old, L
  <2>2. Shaped(N) /\ N.recs = d.recs /\ NextSeq(N) = NextSeq(d)
    BY <1>6, <1>7, LeaveIs
  <2>3. LeftBy(N, d, M, id)
    BY <1>6, <1>7, LeaveIs
  <2>4. \A k \in KeyNo : PagesIn(N, k) = PagesIn(d, k)
    BY <1>6, <1>7, LeaveIs
  <2> HIDE DEF N
  <2> QED
    BY <2>1, <2>2, <2>3, <2>4 DEF LeftBy
<1> HIDE DEF L
<1>9. Fresh(L, M, r)
  <2> SUFFICES ASSUME NEW k \in M, NEW x \in EntriesIn(L, k)
               PROVE  IF Dup(k) THEN x.key[2] < NextSeq(L) ELSE x.key # Bare(Value(r, k))
    BY DEF Fresh
  <2>1. k \in KeyNo /\ x \in EntriesIn(d, k)
    BY <1>8 DEF Others
  <2>2. CASE Dup(k)
    <3>1. x.key[2] \in 1 .. NextSeq(d) - 1
      BY <2>1, <2>2 DEF Good, Describe, JoinSeqs
    <3> QED
      BY <1>7, <1>8, <2>2, <3>1
  <2>3. CASE ~Dup(k)
    <3>1. TreeOK(d.trees[k]) /\ Search(d.trees[k], Bare(Value(r, k))) = {}
      BY <1>7, <2>1, <2>3 DEF Shaped, Movable
    <3>2. x \in EntriesOf(d.trees[k])
      BY <2>1 DEF EntriesIn
    <3>3. x.key = Bare(Value(r, k)) => x.id \in Search(d.trees[k], Bare(Value(r, k)))
      <4>1. TreeOK(d.trees[k])
        BY <3>1
      <4> QED
        BY <3>2, <4>1, SearchIs
    <3> QED
      BY <2>3, <3>1, <3>3
  <2> QED
    BY <2>2, <2>3
<1>10. /\ Shaped(J) /\ J.recs = d.recs /\ NextSeq(J) >= NextSeq(L)
       /\ \A k \in KeyNo : PagesIn(L, k) \subseteq PagesIn(J, k)
       /\ \A k \in KeyNo \ M : EntriesIn(J, k) = EntriesIn(L, k)
       /\ \A k \in M : EntriesIn(J, k) = Joining(EntriesIn(L, k), JoinKey(L, M, r, k), id)
       /\ \A k \in M : Dup(k) => JoinKey(L, M, r, k)[2] \in NextSeq(L) .. NextSeq(J) - 1
  <2>1. Shaped(J) /\ J.recs = L.recs /\ NextSeq(J) >= NextSeq(L)
    BY <1>6, <1>8, <1>9, JoinIs DEF Moved, L
  <2>2. \A k \in KeyNo : PagesIn(L, k) \subseteq PagesIn(J, k)
    BY <1>6, <1>8, <1>9, JoinIs DEF Moved, L
  <2>3. \A k \in KeyNo \ M : EntriesIn(J, k) = EntriesIn(L, k)
    BY <1>6, <1>8, <1>9, JoinIs DEF Moved, L
  <2>4. \A k \in M : EntriesIn(J, k) = Joining(EntriesIn(L, k), JoinKey(L, M, r, k), id)
    BY <1>6, <1>8, <1>9, JoinIs DEF Moved, L
  <2>5. \A k \in M : Dup(k) => JoinKey(L, M, r, k)[2] \in NextSeq(L) .. NextSeq(J) - 1
    BY <1>6, <1>8, <1>9, JoinIs DEF Moved, L
  <2> QED
    BY <1>8, <2>1, <2>2, <2>3, <2>4, <2>5
<1> HIDE DEF J
<1>11. \A k \in M : /\ JoinKey(L, M, r, k)[1] = Value(r, k)
                    /\ ~Dup(k) => JoinKey(L, M, r, k)[2] = 0
  <2>1. L \in DbType
    BY <1>8 DEF Shaped
  <2> QED
    BY <2>1, JoinKeyIs
<1> HIDE DEF done
<1>12. done = [J EXCEPT !.recs = recs]
  BY <1>10 DEF Put, done
<1>13. /\ recs \in Seq(Record \cup {Free}) /\ Len(recs) = Len(d.recs) /\ Len(d.recs) \in Nat
       /\ DOMAIN recs = DOMAIN d.recs /\ id \in DOMAIN d.recs /\ r # Free /\ Len(d.recs) >= 1
  <2>1. id \in 1 .. Len(d.recs) /\ r \in Record \cup {Free} /\ DOMAIN d.recs = 1 .. Len(d.recs)
        /\ Len(d.recs) \in Nat /\ r # Free
    BY <1>7, LiveTyped, NoneAssumption DEF LiveIn, Live, Free
  <2> QED
    BY <1>7, <2>1, ExceptSeq
<1>14. \A n \in DOMAIN recs : recs[n] = IF n = id THEN r ELSE d.recs[n]
  BY <1>13
<1> HIDE DEF recs
<1>15. /\ Shaped(done) /\ done.recs = recs /\ NextSeq(done) >= NextSeq(J)
       /\ \A k \in KeyNo : EntriesIn(done, k) = EntriesIn(J, k) /\ PagesIn(done, k) = PagesIn(J, k)
  <2>1. Len(recs) >= Len(J.recs)
    BY <1>10, <1>13
  <2> QED
    BY <1>10, <1>12, <1>13, <2>1, Recorded
<1>16. NextSeq(done) \in Nat /\ NextSeq(J) \in Nat /\ NextSeq(L) \in Nat /\ NextSeq(d) >= 1
  BY <1>7, <1>8, <1>10, <1>13, <1>15, DbTyped DEF Shaped
<1>17. Live(recs) = Live(d.recs)
  BY <1>13, <1>14 DEF LiveIn, Live
<1>18. ASSUME NEW k \in M PROVE Describe(EntriesIn(done, k), recs, NextSeq(done), k)
  <2> DEFINE gone == [d.recs EXCEPT ![id] = Free]
             key == JoinKey(L, M, r, k)
  <2>1. Describe(Others(EntriesIn(d, k), id), gone, NextSeq(d), k)
    <3>1. Describe(EntriesIn(d, k), d.recs, NextSeq(d), k)
      BY DEF Good
    <3> QED
      BY <3>1, EntryLeaves
  <2>2. /\ id \notin Live(gone) /\ Live(recs) = Live(gone) \cup {id}
        /\ \A n \in Live(gone) : recs[n] = gone[n]
    <3>1. id \in Live(d.recs)
      BY DEF LiveIn, Live
    <3>2. DOMAIN gone = DOMAIN d.recs /\ \A n \in DOMAIN gone : gone[n] = IF n = id THEN Free ELSE d.recs[n]
      OBVIOUS
    <3> HIDE DEF gone
    <3> QED
      BY <1>13, <1>14, <1>17, <3>1, <3>2 DEF Live
  <2>3. key[1] = Value(recs[id], k) /\ key[2] \in JoinSeqs(k, NextSeq(done))
    <3>1. Dup(k) => key[2] \in 1 .. NextSeq(done) - 1
      BY <1>8, <1>10, <1>15, <1>16
    <3> QED
      <4>1. recs[id] = r
        BY <1>13, <1>14
      <4>2. key[1] = Value(r, k) /\ (~Dup(k) => key[2] = 0)
        BY <1>11
      <4> HIDE DEF key
      <4> QED
        BY <3>1, <4>1, <4>2 DEF JoinSeqs
  <2> HIDE DEF gone, key
  <2>4. NextSeq(d) <= NextSeq(done)
    BY <1>7, <1>8, <1>10, <1>15, <1>16
  <2>5. Describe(Joining(Others(EntriesIn(d, k), id), key, id), recs, NextSeq(done), k)
    BY <1>7, <1>16, <2>1, <2>2, <2>3, <2>4, EntryJoins
  <2> QED
    BY <1>8, <1>10, <1>15, <2>5 DEF key
<1>19. ASSUME NEW k \in KeyNo \ M PROVE Describe(EntriesIn(done, k), recs, NextSeq(done), k)
  <2>1. Describe(EntriesIn(d, k), d.recs, NextSeq(d), k)
    BY DEF Good
  <2>2. \A n \in Live(d.recs) : Value(recs[n], k) = Value(d.recs[n], k)
    BY <1>13, <1>14 DEF Live, Movable, Old
  <2>3. NextSeq(d) <= NextSeq(done)
    BY <1>7, <1>8, <1>10, <1>15, <1>16
  <2>4. Describe(EntriesIn(d, k), recs, NextSeq(done), k)
    BY <1>7, <1>16, <1>17, <2>1, <2>2, <2>3, EntryStays
  <2> QED
    BY <1>8, <1>10, <1>15, <2>4
<1>20. Good(done) /\ PagesKept(d, done)
  BY <1>8, <1>10, <1>15, <1>18, <1>19 DEF Good, PagesKept
<1>21. LiveIn(done) = LiveIn(d)
  BY <1>15, <1>17 DEF LiveIn, Live
<1> QED
  BY <1>15, <1>20, <1>21 DEF Kept, done, J, recs

(* The keys whose new value another record has.                            *)
Taken(d, id, r) == {k \in DOMAIN Duplicates : /\ Value(d.recs[id], k) # Value(r, k) /\ ~Dup(k)
                                              /\ Search(d.trees[k], Bare(Value(r, k))) # {}}

LEMMA RewrittenIs ==
  ASSUME NEW d, Good(d), NEW id \in LiveIn(d), NEW r \in Record, d.recs[id].key = r.key
  PROVE  /\ Kept(d, Rewritten(d, id, r).db) /\ LiveIn(Rewritten(d, id, r).db) = LiveIn(d)
         /\ Rewritten(d, id, r).st \in {"00", "22"}
         /\ Taken(d, id, r) # {} => Rewritten(d, id, r) = [st |-> "22", db |-> d]
         /\ Taken(d, id, r) = {} => /\ Rewritten(d, id, r).st = "00"
                                    /\ Rewritten(d, id, r).db.recs = [d.recs EXCEPT ![id] = r]
<1> DEFINE old    == d.recs[id]
           moving == {k \in DOMAIN Duplicates : Value(old, k) # Value(r, k)}
           taken  == {k \in moving : ~Dup(k) /\ Search(d.trees[k], Bare(Value(r, k))) # {}}
           moved  == {k \in moving : \A j \in taken : k < j}
           L == Leave(d, moved, old, id)
           J == Join(L, moved, r, id)
           done == [J EXCEPT !.recs[id] = r]
           a == [st |-> IF taken = {} THEN "00" ELSE "22", db |-> done]
<1>0. Rewritten(d, id, r) = IF a.st = "00" THEN a ELSE [a EXCEPT !.db = d]
  BY DEF Rewritten, Finished
<1>3. taken = Taken(d, id, r)
  BY DEF Taken
<1>1. CASE taken # {}
  <2>1. Rewritten(d, id, r) = [st |-> "22", db |-> d]
    <3>1. a.st = "22" /\ a = [st |-> "22", db |-> done]
      BY <1>1
    <3> HIDE DEF a
    <3> QED
      BY <1>0, <3>1
  <2> HIDE DEF taken
  <2> QED
    BY <1>1, <1>3, <2>1 DEF Kept, PagesKept
<1>2. CASE taken = {}
  <2>1. Rewritten(d, id, r) = [st |-> "00", db |-> done]
    <3>1. a = [st |-> "00", db |-> done]
      BY <1>2
    <3> HIDE DEF a
    <3> QED
      BY <1>0, <3>1
  <2>2. moved = moving
    BY <1>2
  <2>3. /\ moved \in SUBSET KeyNo
        /\ \A k \in moved : ~Dup(k) => Search(d.trees[k], Bare(Value(r, k))) = {}
    <3>1. moving \in SUBSET KeyNo
      BY KeyNumbers DEF KeyNo
    <3> QED
      BY <1>2, <2>2, <3>1
  <2>4. \A k \in KeyNo \ moved : Value(r, k) = Value(old, k)
    <3>1. \A k \in KeyNo : k = 0 \/ k \in DOMAIN Duplicates
      BY KeyNumbers DEF KeyNo
    <3> QED
      BY <2>2, <3>1 DEF Value, Store!Value
  <2>5. done = [J EXCEPT !.recs = [J.recs EXCEPT ![id] = r]]
    OBVIOUS
  <2>6. Kept(d, done) /\ LiveIn(done) = LiveIn(d) /\ done.recs = [d.recs EXCEPT ![id] = r]
    <3>1. done = Put(Moved(d, moved, id, r), id, r)
      BY <2>5 DEF Put, Moved, Cleared, Old
    <3>2. Movable(d, moved, id, r)
      BY <2>3, <2>4 DEF Movable, Old
    <3> HIDE DEF moving, taken, moved, done, a, J, L
    <3> QED
      BY <2>3, <3>1, <3>2, MovedIs
  <2> HIDE DEF taken, done
  <2> QED
    BY <1>2, <1>3, <2>1, <2>6
<1> QED
  BY <1>1, <1>2

-----------------------------------------------------------------------------
(* The verbs of a log, and the records of a load, one after another.       *)

LEMMA StepByStep ==
  ASSUME NEW D, NEW N \in Nat, NEW g, g[0] \in D, \A n \in 1 .. N : g[n - 1] \in D => g[n] \in D
  PROVE  \A n \in 0 .. N : g[n] \in D
<1> DEFINE T == {n \in 0 .. N : g[n] \notin D}
<1> SUFFICES ASSUME T # {} PROVE FALSE
  OBVIOUS
<1>1. PICK m \in T : \A n \in T : m <= n
  <2>1. T \subseteq Nat
    OBVIOUS
  <2> QED
    BY <2>1, LeastNumber
<1>2. m \in 1 .. N /\ m - 1 \in 0 .. N /\ ~(m <= m - 1)
  OBVIOUS
<1>3. g[m - 1] \in D
  BY <1>1, <1>2
<1> QED
  BY <1>2, <1>3

Iterated(f, k, e, F) == f = [n \in 0 .. k |-> IF n = 0 THEN e ELSE F[n][f[n - 1]]]

LEMMA Iterates ==
  ASSUME NEW D, NEW N \in Nat, NEW F, \A n \in 1 .. N : \A x \in D : F[n][x] \in D, NEW e \in D
  PROVE  \E f : Iterated(f, N, e, F) /\ \A n \in 0 .. N : f[n] \in D
<1> DEFINE To(k, f) == f = [n \in 0 .. k |-> IF n = 0 THEN e ELSE F[n][f[n - 1]]] /\ \A n \in 0 .. k : f[n] \in D
           T == {k \in 0 .. N : ~\E f : To(k, f)}
<1> SUFFICES ASSUME T # {} PROVE FALSE
  <2>1. N \in 0 .. N
    OBVIOUS
  <2> QED
    BY <2>1 DEF Iterated
<1>1. PICK m \in T : \A n \in T : m <= n
  <2>1. T \subseteq Nat
    OBVIOUS
  <2> HIDE DEF T
  <2> QED
    BY <2>1, LeastNumber
<1>2. CASE m = 0
  <2> DEFINE f == [n \in 0 .. 0 |-> e]
  <2>1. \A n \in 0 .. 0 : n = 0
    OBVIOUS
  <2>2. f = [n \in 0 .. 0 |-> IF n = 0 THEN e ELSE F[n][f[n - 1]]] /\ \A n \in 0 .. 0 : f[n] \in D
    BY <2>1
  <2>3. To(m, f)
    BY <1>2, <2>2
  <2> HIDE DEF f, To
  <2> QED
    BY <2>3
<1>3. CASE m # 0
  <2>1. m \in 1 .. N /\ m - 1 \in 0 .. N /\ ~(m <= m - 1)
    BY <1>3
  <2>2. m - 1 \notin T
    BY <1>1, <2>1
  <2>3. PICK f : To(m - 1, f)
    BY <2>1, <2>2
  <2> DEFINE g == [n \in 0 .. m |-> IF n = m THEN F[m][f[m - 1]] ELSE f[n]]
  <2>4. f[m - 1] \in D /\ F[m][f[m - 1]] \in D
    BY <2>1, <2>3
  <2>5. \A n \in 0 .. m : n = m \/ n \in 0 .. m - 1
    BY <2>1
  <2>6. \A n \in 0 .. m : g[n] \in D
    BY <2>3, <2>4, <2>5
  <2>7. \A n \in 0 .. m - 1 : g[n] = f[n]
    BY <2>1
  <2>8. ASSUME NEW n \in 0 .. m PROVE g[n] = IF n = 0 THEN e ELSE F[n][g[n - 1]]
    <3>1. CASE n = m
      <4>1. g[m - 1] = f[m - 1] /\ g[m] = F[m][f[m - 1]] /\ n # 0
        BY <2>1, <2>7, <3>1
      <4> HIDE DEF g
      <4> QED
        BY <3>1, <4>1
    <3>2. CASE n # m /\ n = 0
      <4>1. f[0] = e /\ 0 \in 0 .. m - 1
        BY <2>1, <2>3
      <4> QED
        BY <2>7, <3>2, <4>1
    <3>3. CASE n # m /\ n # 0
      <4>1. n \in 0 .. m - 1 /\ n - 1 \in 0 .. m - 1
        BY <2>1, <3>3
      <4>2. g[n] = f[n] /\ g[n - 1] = f[n - 1]
        BY <2>7, <4>1
      <4>3. f[n] = F[n][f[n - 1]]
        BY <2>3, <3>3, <4>1
      <4> HIDE DEF g
      <4> QED
        BY <3>3, <4>2, <4>3
    <3> QED
      BY <3>1, <3>2, <3>3
  <2>9. g = [n \in 0 .. m |-> g[n]]
    OBVIOUS
  <2>10. To(m, g)
    <3> HIDE DEF g
    <3>1. [n \in 0 .. m |-> g[n]] = [n \in 0 .. m |-> IF n = 0 THEN e ELSE F[n][g[n - 1]]]
      BY <2>8
    <3>2. g = [n \in 0 .. m |-> IF n = 0 THEN e ELSE F[n][g[n - 1]]]
      BY <2>9, <3>1
    <3> QED
      BY <2>6, <3>2
  <2> HIDE DEF g, To
  <2> QED
    BY <2>10
<1> QED
  BY <1>2, <1>3

GoodDb == {d \in DbType : Good(d)}

LEMMA GoodDbIs == \A d : d \in GoodDb <=> Good(d)
BY DEF GoodDb, Good, Shaped

(* The record a key is of is live.                                         *)
LEMMA FindIs ==
  ASSUME NEW d, Good(d), NEW key, Find(d, key) # None
  PROVE  Find(d, key) \in LiveIn(d) /\ d.recs[Find(d, key)].key = key
<1> DEFINE found == Search(d.trees[0], Bare(key))
<1>0. 0 \in KeyNo /\ ~Dup(0)
  BY KeyNumbers DEF KeyNo, Dup
<1>1. found # {} /\ Find(d, key) \in found
  BY DEF Find
<1>2. TreeOK(d.trees[0])
  BY <1>0 DEF Good, Shaped
<1>3. PICK x \in EntriesOf(d.trees[0]) : x.key = Bare(key) /\ x.id = Find(d, key)
  BY <1>1, <1>2, SearchIs
<1>4. Describe(EntriesOf(d.trees[0]), d.recs, NextSeq(d), 0)
  BY <1>0 DEF Good, EntriesIn
<1>5. x.id \in Live(d.recs) /\ x.key[1] = Value(d.recs[x.id], 0)
  BY <1>4 DEF Describe
<1>6. x.key[1] = key
  BY <1>3 DEF Bare
<1> QED
  BY <1>3, <1>5, <1>6 DEF LiveIn, Live, Value, Store!Value

Undoable == [verb : {"write", "rewrite", "delete"}, rec : Record]

LEMMA UndoneGood ==
  ASSUME NEW d, Good(d), NEW u \in Undoable
  PROVE  Good(Undone(d, u))
<1> DEFINE id == Find(d, u.rec.key)
<1>0. u.rec \in Record /\ u.verb \in {"write", "rewrite", "delete"}
  BY DEF Undoable
<1>1. CASE u.verb = "delete"
  <2>1. Undone(d, u) = Written(d, u.rec).db
    BY <1>1 DEF Undone
  <2> QED
    BY <1>0, <2>1, WrittenIs DEF Kept
<1>2. CASE u.verb = "write"
  <2>1. Undone(d, u) = IF id = None THEN d ELSE Deleted(d, id).db
    BY <1>2 DEF Undone
  <2>2. id # None => id \in LiveIn(d)
    BY FindIs
  <2> HIDE DEF id
  <2>3. id # None => Good(Deleted(d, id).db)
    BY <2>2, DeletedIs DEF Kept
  <2> QED
    BY <2>1, <2>3
<1>3. CASE u.verb = "rewrite"
  <2>1. Undone(d, u) = IF id = None THEN d ELSE Rewritten(d, id, u.rec).db
    BY <1>3 DEF Undone
  <2>2. id # None => id \in LiveIn(d) /\ d.recs[id].key = u.rec.key
    BY FindIs
  <2> HIDE DEF id
  <2>3. id # None => Good(Rewritten(d, id, u.rec).db)
    BY <1>0, <2>2, RewrittenIs DEF Kept
  <2> QED
    BY <2>1, <2>3
<1> QED
  BY <1>0, <1>1, <1>2, <1>3

(* ROLLBACK: the inverse verbs one after another, the latest first.        *)
Replays(g, d, log) ==
  /\ g[0] = d /\ g[Len(log)] = Replayed(d, log)
  /\ \A n \in 0 .. Len(log) : Good(g[n])
  /\ \A n \in 1 .. Len(log) : g[n] = Undone(g[n - 1], log[Len(log) + 1 - n])

LEMMA ReplayIs ==
  ASSUME NEW d, Good(d), NEW log \in Seq(Undoable)
  PROVE  \E g : Replays(g, d, log)
<1> DEFINE N == Len(log)
           at(n) == log[N + 1 - n]
           F == [n \in 1 .. N |-> [x \in GoodDb |-> Undone(x, at(n))]]
           Is(f) == f = [n \in 0 .. N |-> IF n = 0 THEN d ELSE Undone(f[n - 1], at(n))]
<1>0. N \in Nat /\ \A n \in 1 .. N : at(n) \in Undoable
  <2>1. Len(log) \in Nat /\ \A i \in 1 .. Len(log) : log[i] \in Undoable
    BY LenProperties, ElementOfSeq
  <2>2. \A n \in 1 .. N : N + 1 - n \in 1 .. N
    BY <2>1
  <2> QED
    BY <2>1, <2>2
<1> HIDE DEF N, at
<1>1. \A n \in 1 .. N : \A x \in GoodDb : Undone(x, at(n)) \in GoodDb
  BY <1>0, GoodDbIs, UndoneGood
<1>2. \A n \in 1 .. N : \A x \in GoodDb : F[n][x] = Undone(x, at(n))
  OBVIOUS
<1>3. \A n \in 1 .. N : \A x \in GoodDb : F[n][x] \in GoodDb
  BY <1>1, <1>2
<1> HIDE DEF F
<1>4. d \in GoodDb
  BY GoodDbIs
<1>5. PICK f : Iterated(f, N, d, F) /\ \A n \in 0 .. N : f[n] \in GoodDb
  BY <1>0, <1>3, <1>4, Iterates
<1>6. Is(f)
  <2>1. ASSUME NEW n \in 0 .. N
        PROVE  (IF n = 0 THEN d ELSE F[n][f[n - 1]]) = (IF n = 0 THEN d ELSE Undone(f[n - 1], at(n)))
    <3>1. CASE n # 0
      <4>1. n \in 1 .. N /\ n - 1 \in 0 .. N
        BY <1>0, <3>1
      <4> QED
        BY <1>2, <1>5, <3>1, <4>1
    <3> QED
      BY <3>1
  <2>2. [n \in 0 .. N |-> IF n = 0 THEN d ELSE F[n][f[n - 1]]]
        = [n \in 0 .. N |-> IF n = 0 THEN d ELSE Undone(f[n - 1], at(n))]
    BY <2>1
  <2> QED
    BY <1>5, <2>2 DEF Iterated
<1> DEFINE g == CHOOSE h : Is(h)
<1>7. Is(g)
  <2> HIDE DEF Is
  <2> QED
    BY <1>6
<1>8. Replayed(d, log) = g[N]
  BY DEF Replayed, N, at
<1> HIDE DEF g
<1>9. g[0] = d
  BY <1>0, <1>7
<1>10. \A n \in 1 .. N : g[n] = Undone(g[n - 1], at(n))
  BY <1>0, <1>7
<1>11. \A n \in 1 .. N : g[n - 1] \in GoodDb => g[n] \in GoodDb
  BY <1>1, <1>10
<1>12. \A n \in 0 .. N : g[n] \in GoodDb
  BY <1>0, <1>4, <1>9, <1>11, StepByStep
<1>13. \A n \in 0 .. N : Good(g[n])
  BY <1>12, GoodDbIs
<1> QED
  BY <1>8, <1>9, <1>10, <1>13 DEF Replays, N, at

(* It leaves the trees as they ought to be, whatever those are answered.   *)
LEMMA ReplayedGood ==
  ASSUME NEW d, Good(d), NEW log \in Seq(Undoable)
  PROVE  Good(Replayed(d, log))
<1>1. PICK g : Replays(g, d, log)
  BY ReplayIs
<1>2. Len(log) \in 0 .. Len(log)
  BY LenProperties
<1> QED
  BY <1>1, <1>2 DEF Replays

(* A file no record was written to.                                        *)
LEMMA EmptyGood == Good(Empty)
<1> DEFINE t(k) == <<Leaf(k + 1, Bare(0), <<>>)>>
<1>0. Len(Duplicates) \in Nat /\ KeyNo = 0 .. Len(Duplicates)
  BY KeyNumbers DEF KeyNo
<1>1. /\ Empty.trees = [k \in KeyNo |-> t(k)] /\ Empty.recs = <<>> /\ Empty.seq = 0
      /\ Empty.page = Len(Duplicates) + 2
      /\ Empty = [trees |-> Empty.trees, recs |-> Empty.recs, seq |-> Empty.seq, page |-> Empty.page]
  BY DEF Empty
<1>2. ASSUME NEW k \in KeyNo
      PROVE  /\ t(k) \in Seq(LeafType) /\ Len(t(k)) = 1 /\ DOMAIN t(k) = {1}
             /\ t(k)[1].page = k + 1 /\ t(k)[1].low = Bare(0) /\ t(k)[1].entries = <<>>
  <2>1. Leaf(k + 1, Bare(0), <<>>) \in LeafType
    <3>1. k + 1 \in Nat /\ Bare(0) \in TreeKey /\ <<>> \in Seq(Entry)
      BY <1>0, EmptySeq DEF Bare, TreeKey
    <3> QED
      BY <3>1 DEF Leaf, LeafType
  <2>2. t(k) \in Seq(LeafType) /\ Len(t(k)) = 1 /\ DOMAIN t(k) = {1} /\ t(k)[1] = Leaf(k + 1, Bare(0), <<>>)
    BY <2>1
  <2> QED
    BY <2>2 DEF Leaf
<1> HIDE DEF t
<1>3. DOMAIN <<>> = {} /\ Len(<<>>) = 0
  OBVIOUS
<1>4. ASSUME NEW k \in KeyNo
      PROVE  TreeOK(t(k)) /\ OnePage(t(k)) /\ PagesOf(t(k)) = {k + 1} /\ EntriesOf(t(k)) = {}
  <2>1. SetOf(t(k)[1].entries) = {} /\ Ascending(t(k)[1].entries)
    BY <1>2, <1>3 DEF SetOf, Ascending
  <2>2. OnePage(t(k)) /\ PagesOf(t(k)) = {k + 1} /\ EntriesOf(t(k)) = {}
    BY <1>2, <2>1 DEF OnePage, PagesOf, EntriesOf
  <2>3. t(k) # <<>>
    BY <1>2, <1>3
  <2>4. \A i, j \in DOMAIN t(k) : i < j => FALSE
    BY <1>2
  <2> QED
    BY <1>2, <2>1, <2>2, <2>3, <2>4 DEF TreeOK
<1>5. \A k \in KeyNo : Empty.trees[k] = t(k)
  BY <1>1
<1>6. Empty \in DbType
  <2>1. Empty.trees \in [KeyNo -> Seq(LeafType)]
    BY <1>1, <1>2
  <2>2. Empty.recs \in Seq(Record \cup {Free}) /\ Empty.seq \in Nat /\ Empty.page \in Nat
    BY <1>0, <1>1, EmptySeq
  <2> QED
    BY <1>1, <2>1, <2>2 DEF DbType
<1>7. PagesApart(Empty)
  <2>1. \A k \in KeyNo : PagesIn(Empty, k) = {k + 1} /\ OnePage(Empty.trees[k])
    BY <1>4, <1>5 DEF PagesIn
  <2> QED
    BY <1>0, <1>1, <2>1 DEF PagesApart
<1>8. \A k \in KeyNo : Describe(EntriesIn(Empty, k), Empty.recs, NextSeq(Empty), k)
  <2>1. \A k \in KeyNo : EntriesIn(Empty, k) = {}
    BY <1>4, <1>5 DEF EntriesIn
  <2>2. Live(Empty.recs) = {}
    BY <1>1, <1>3 DEF Live
  <2> QED
    BY <2>1, <2>2 DEF Describe
<1> QED
  BY <1>4, <1>5, <1>6, <1>7, <1>8 DEF Good, Shaped

LEMMA LoadedGood ==
  ASSUME NEW load \in Seq(Record)
  PROVE  Good(Loaded(load))
<1> DEFINE N == Len(load)
           at(n) == load[n]
           F == [n \in 1 .. N |-> [x \in GoodDb |-> Written(x, at(n)).db]]
           Is(f) == f = [n \in 0 .. N |-> IF n = 0 THEN Empty ELSE Written(f[n - 1], at(n)).db]
<1>0. N \in Nat /\ \A n \in 1 .. N : at(n) \in Record
  <2>1. Len(load) \in Nat /\ \A i \in 1 .. Len(load) : load[i] \in Record
    BY LenProperties, ElementOfSeq
  <2> QED
    BY <2>1
<1> HIDE DEF N, at
<1>1. \A n \in 1 .. N : \A x \in GoodDb : Written(x, at(n)).db \in GoodDb
  BY <1>0, GoodDbIs, WrittenIs DEF Kept
<1>2. \A n \in 1 .. N : \A x \in GoodDb : F[n][x] = Written(x, at(n)).db
  OBVIOUS
<1>3. \A n \in 1 .. N : \A x \in GoodDb : F[n][x] \in GoodDb
  BY <1>1, <1>2
<1> HIDE DEF F
<1>4. Empty \in GoodDb
  BY GoodDbIs, EmptyGood
<1>5. PICK f : Iterated(f, N, Empty, F) /\ \A n \in 0 .. N : f[n] \in GoodDb
  BY <1>0, <1>3, <1>4, Iterates
<1>6. Is(f)
  <2>1. ASSUME NEW n \in 0 .. N
        PROVE  (IF n = 0 THEN Empty ELSE F[n][f[n - 1]]) = (IF n = 0 THEN Empty ELSE Written(f[n - 1], at(n)).db)
    <3>1. CASE n # 0
      <4>1. n \in 1 .. N /\ n - 1 \in 0 .. N
        BY <1>0, <3>1
      <4> QED
        BY <1>2, <1>5, <3>1, <4>1
    <3> QED
      BY <3>1
  <2>2. [n \in 0 .. N |-> IF n = 0 THEN Empty ELSE F[n][f[n - 1]]]
        = [n \in 0 .. N |-> IF n = 0 THEN Empty ELSE Written(f[n - 1], at(n)).db]
    BY <2>1
  <2> QED
    BY <1>5, <2>2 DEF Iterated
<1> DEFINE g == CHOOSE h : Is(h)
<1>7. Is(g)
  <2> HIDE DEF Is
  <2> QED
    BY <1>6
<1>8. Loaded(load) = g[N]
  BY DEF Loaded, N, at
<1> HIDE DEF g
<1>9. g[0] \in GoodDb /\ \A n \in 1 .. N : g[n - 1] \in GoodDb => g[n] \in GoodDb
  <2>1. g[0] = Empty
    BY <1>0, <1>7
  <2>2. ASSUME NEW n \in 1 .. N, g[n - 1] \in GoodDb PROVE g[n] \in GoodDb
    <3>1. g[n] = Written(g[n - 1], at(n)).db
      <4>1. n \in 0 .. N /\ n # 0
        BY <1>0
      <4> QED
        BY <1>7, <4>1
    <3> QED
      BY <1>1, <2>2, <3>1
  <2> QED
    BY <1>4, <2>1, <2>2
<1>10. \A n \in 0 .. N : g[n] \in GoodDb
  BY <1>0, <1>9, StepByStep
<1>11. g[N] \in GoodDb
  BY <1>0, <1>10
<1> QED
  BY <1>8, <1>11, GoodDbIs

-----------------------------------------------------------------------------
(* The first and the last slot of a set of slots.                          *)

LEMMA GreatestNumber ==
  ASSUME NEW T, T \subseteq Nat, T # {}, NEW b \in Nat, \A n \in T : n <= b
  PROVE  \E m \in T : \A n \in T : n <= m
<1> DEFINE D == {b - n : n \in T}
<1>1. D \subseteq Nat /\ D # {}
  <2>1. \A n \in T : b - n \in Nat
    OBVIOUS
  <2> QED
    BY <2>1
<1>2. PICK k \in D : \A n \in D : k <= n
  <2> HIDE DEF D
  <2> QED
    BY <1>1, LeastNumber
<1>3. PICK m \in T : k = b - m
  OBVIOUS
<1>4. ASSUME NEW n \in T PROVE n <= m
  <2>1. b - m <= b - n
    BY <1>2, <1>3
  <2> QED
    BY <2>1
<1> QED
  BY <1>4

LEMMA FirstIs ==
  ASSUME NEW S, S \subseteq Nat \X Nat, S # {}
  PROVE  FirstOf(S) \in S
<1> DEFINE A == {p[1] : p \in S}
<1>1. PICK m \in A : \A n \in A : m <= n
  <2>1. A \subseteq Nat /\ A # {}
    OBVIOUS
  <2> HIDE DEF A
  <2> QED
    BY <2>1, LeastNumber
<1> DEFINE B == {p[2] : p \in {q \in S : q[1] = m}}
<1>2. PICK k \in B : \A n \in B : k <= n
  <2>1. B \subseteq Nat /\ B # {}
    OBVIOUS
  <2> HIDE DEF B
  <2> QED
    BY <2>1, LeastNumber
<1>3. PICK p \in S : p[1] = m /\ p[2] = k
  OBVIOUS
<1>4. ASSUME NEW q \in S PROVE ~Less(q, p)
  <2>1. m <= q[1] /\ m \in Nat /\ q[1] \in Nat /\ k \in Nat /\ q[2] \in Nat
    BY <1>1
  <2>2. q[1] = m => k <= q[2]
    BY <1>2
  <2> QED
    BY <1>3, <2>1, <2>2 DEF Less
<1>5. FirstOf(S) = CHOOSE s \in S : \A q \in S : ~Less(q, s)
  BY DEF FirstOf
<1> QED
  BY <1>3, <1>4, <1>5

LEMMA SlotsBounded ==
  ASSUME NEW t, TreeOK(t)
  PROVE  /\ Slots(t) \subseteq Nat \X Nat /\ Len(t) \in Nat /\ \A p \in Slots(t) : p[1] <= Len(t)
         /\ \A j \in DOMAIN t : Len(t[j].entries) \in Nat
         /\ \A p \in Slots(t) : p[1] \in DOMAIN t /\ p[2] <= Len(t[p[1]].entries)
<1>1. Len(t) \in Nat /\ DOMAIN t = 1 .. Len(t) /\ \A j \in DOMAIN t : t[j].entries \in Seq(Entry)
  BY LeavesTyped DEF TreeOK
<1>2. \A j \in DOMAIN t : Len(t[j].entries) \in Nat /\ DOMAIN t[j].entries = 1 .. Len(t[j].entries)
  BY <1>1, EntriesTyped
<1>3. ASSUME NEW p \in Slots(t)
      PROVE  /\ p = <<p[1], p[2]>> /\ p[1] \in Nat /\ p[2] \in Nat
             /\ p[1] \in DOMAIN t /\ p[2] \in DOMAIN t[p[1]].entries
  BY SlotsAre
<1>4. Slots(t) \subseteq Nat \X Nat
  BY <1>3
<1>5. ASSUME NEW p \in Slots(t) PROVE p[1] <= Len(t) /\ p[2] <= Len(t[p[1]].entries)
  <2>1. p[1] \in 1 .. Len(t)
    BY <1>1, <1>3
  <2>2. p[2] \in 1 .. Len(t[p[1]].entries)
    BY <1>2, <1>3
  <2> QED
    BY <1>1, <1>2, <1>3, <2>1, <2>2
<1> QED
  BY <1>1, <1>2, <1>3, <1>4, <1>5

LEMMA LastIs ==
  ASSUME NEW t, TreeOK(t), NEW S, S \subseteq Slots(t), S # {}
  PROVE  LastOf(S) \in S
<1> DEFINE A == {p[1] : p \in S}
<1>0. S \subseteq Nat \X Nat /\ Len(t) \in Nat /\ \A p \in S : p[1] <= Len(t)
  BY SlotsBounded
<1>1. PICK m \in A : \A n \in A : n <= m
  <2>1. A \subseteq Nat /\ A # {} /\ \A n \in A : n <= Len(t)
    BY <1>0
  <2> HIDE DEF A
  <2> QED
    BY <1>0, <2>1, GreatestNumber
<1> DEFINE B == {p[2] : p \in {q \in S : q[1] = m}}
<1>2. PICK k \in B : \A n \in B : n <= k
  <2>1. m \in DOMAIN t /\ Len(t[m].entries) \in Nat /\ \A p \in S : p[1] = m => p[2] <= Len(t[m].entries)
    BY <1>1, SlotsBounded
  <2>2. B \subseteq Nat /\ B # {} /\ \A n \in B : n <= Len(t[m].entries)
    BY <1>0, <1>1, <2>1
  <2> HIDE DEF B
  <2> QED
    BY <2>1, <2>2, GreatestNumber
<1>3. PICK p \in S : p[1] = m /\ p[2] = k
  OBVIOUS
<1>4. ASSUME NEW q \in S PROVE ~Less(p, q)
  <2>1. q[1] <= m /\ m \in Nat /\ q[1] \in Nat /\ k \in Nat /\ q[2] \in Nat
    BY <1>0, <1>1
  <2>2. q[1] = m => q[2] <= k
    BY <1>2
  <2> QED
    BY <1>3, <2>1, <2>2 DEF Less
<1>5. LastOf(S) = CHOOSE s \in S : \A q \in S : ~Less(s, q)
  BY DEF LastOf
<1> QED
  BY <1>3, <1>4, <1>5

(* What is found in a tree is a slot of it.                                *)
LEMMA FoundInTree ==
  ASSUME NEW t, TreeOK(t), NEW S, S \subseteq Slots(t)
  PROVE  /\ FirstOf(S) # None => FirstOf(S) \in S
         /\ LastOf(S) # None => LastOf(S) \in S
<1>1. S \subseteq Nat \X Nat
  BY SlotsBounded
<1>2. FirstOf(S) # None => S # {}
  BY DEF FirstOf
<1>3. LastOf(S) # None => S # {}
  BY DEF LastOf
<1> QED
  BY <1>1, <1>2, <1>3, FirstIs, LastIs

LEMMA MatchedIs ==
  ASSUME NEW t, TreeOK(t), NEW op \in {"eq", "ge", "gt", "le", "lt"}, NEW v, Matched(op, t, v) # None
  PROVE  Matched(op, t, v) \in Slots(t)
<1> DEFINE A == {p \in Slots(t) : KeyAt(t, p)[1] = v}
           B == {p \in Slots(t) : KeyAt(t, p)[1] >= v}
           C == {p \in Slots(t) : KeyAt(t, p)[1] > v}
           D == {p \in Slots(t) : KeyAt(t, p)[1] <= v}
           G == {p \in Slots(t) : KeyAt(t, p)[1] < v}
<1>1. Matched(op, t, v) \in {FirstOf(A), FirstOf(B), FirstOf(C), LastOf(D), LastOf(G)}
  BY DEF Matched
<1>2. A \subseteq Slots(t) /\ B \subseteq Slots(t) /\ C \subseteq Slots(t) /\ D \subseteq Slots(t) /\ G \subseteq Slots(t)
  OBVIOUS
<1> HIDE DEF A, B, C, D, G
<1> QED
  BY <1>1, <1>2, FoundInTree

LEMMA StepBackIs ==
  ASSUME NEW t, TreeOK(t), NEW p \in Slots(t), StepBack(t, p) # None
  PROVE  StepBack(t, p) \in Slots(t)
<1>1. CASE p[2] > 1
  <2>1. StepBack(t, p) = <<p[1], p[2] - 1>>
    BY <1>1 DEF StepBack
  <2>2. p[1] \in DOMAIN t /\ p[2] \in DOMAIN t[p[1]].entries
    BY SlotsAre
  <2>3. t[p[1]].entries \in Seq(Entry)
    BY <2>2, LeavesTyped DEF TreeOK
  <2>4. p[2] - 1 \in DOMAIN t[p[1]].entries
    <3>1. Len(t[p[1]].entries) \in Nat /\ DOMAIN t[p[1]].entries = 1 .. Len(t[p[1]].entries)
      BY <2>3, EntriesTyped
    <3> QED
      BY <1>1, <2>2, <3>1
  <2> QED
    BY <2>1, <2>2, <2>4, SlotsAre
<1>2. CASE ~(p[2] > 1)
  <2> DEFINE S == {q \in Slots(t) : q[1] < p[1]}
  <2>1. StepBack(t, p) = LastOf(S) /\ S \subseteq Slots(t)
    BY <1>2 DEF StepBack
  <2> HIDE DEF S
  <2> QED
    BY <2>1, FoundInTree
<1> QED
  BY <1>1, <1>2

-----------------------------------------------------------------------------
(* The invariant: the trees describe the records, and the scan stands on a *)
(* page of a tree and a record that is live.                               *)

CursorOn(d, c) == c # None => \E k \in KeyNo : c[1] \in PagesIn(d, k)

ScanOK(d, s) == /\ s = [kor |-> s.kor, cursor |-> s.cursor, current |-> s.current, resume |-> s.resume]
                /\ s.kor \in KeyNo /\ CursorOn(d, s.cursor)
                /\ s.current # 0 => s.current \in LiveIn(d)

Kinds == /\ undo \in Seq(Undoable)
         /\ open \in {"closed", "input", "io"} /\ access \in Access
         /\ atEnd \in BOOLEAN /\ established \in BOOLEAN /\ verbs \in 0 .. LastVerb

Inv == Good(db) /\ ScanOK(db, scan) /\ Kinds

LEMMA AtStartOK ==
  ASSUME NEW d, NEW k \in KeyNo
  PROVE  ScanOK(d, AtStart) /\ ScanOK(d, [AtStart EXCEPT !.kor = k])
<1>1. 0 \in KeyNo
  BY KeyNumbers DEF KeyNo
<1> QED
  BY <1>1 DEF ScanOK, AtStart, CursorOn

LEMMA InvInit == Init => Inv
<1> SUFFICES ASSUME Init PROVE Inv
  OBVIOUS
<1>1. PICK load \in Loads : db = Loaded(load)
  BY DEF Init
<1>2. load \in Seq(Record)
  BY LoadsAssumption
<1>3. Good(db)
  BY <1>1, <1>2, LoadedGood
<1>4. ScanOK(db, scan)
  <2>1. 0 \in KeyNo /\ scan = AtStart
    BY KeyNumbers DEF KeyNo, Init
  <2> QED
    BY <2>1, AtStartOK
<1>5. Kinds
  <2>1. 0 \in 0 .. LastVerb
    BY LeafAssumption
  <2> QED
    BY <2>1, EmptySeq DEF Init, Kinds
<1> QED
  BY <1>3, <1>4, <1>5 DEF Inv

(* The trees do not give up pages, so that a cursor stays on one.          *)
LEMMA ScanKept ==
  ASSUME NEW d, NEW e, PagesKept(d, e), NEW s, ScanOK(d, s), s.current # 0 => s.current \in LiveIn(e)
  PROVE  ScanOK(e, s)
BY DEF ScanOK, CursorOn, PagesKept

LEMMA TreeOfScan ==
  ASSUME Inv
  PROVE  \E k \in KeyNo : SeqTree = Tree(k)
<1>1. scan.kor \in KeyNo /\ CursorOn(db, scan.cursor)
  BY DEF Inv, ScanOK
<1>2. CASE scan.resume = None /\ scan.cursor # None
  <2> DEFINE T == {Tree(k) : k \in KeyNo}
             On(t) == \E j \in DOMAIN t : t[j].page = scan.cursor[1]
  <2>1. SeqTree = CHOOSE t \in T : On(t)
    BY <1>2 DEF SeqTree, TreeAt
  <2>2. \E t \in T : On(t)
    BY <1>1, <1>2 DEF CursorOn, PagesIn, PagesOf, Tree
  <2>3. (CHOOSE t \in T : On(t)) \in T
    <3> HIDE DEF T, On
    <3> QED
      BY <2>2
  <2> QED
    BY <2>1, <2>3
<1>3. CASE ~(scan.resume = None /\ scan.cursor # None)
  BY <1>1, <1>3 DEF SeqTree, Active
<1> QED
  BY <1>2, <1>3

(* A record that was found becomes the current one of the scan.            *)
LEMMA FoundOK ==
  ASSUME Inv, NEW k \in KeyNo, NEW p \in Slots(Tree(k)), NEW kor \in KeyNo
  PROVE  ScanOK(db, [kor |-> kor, cursor |-> CursorOf(Tree(k), p), current |-> EntryAt(Tree(k), p).id, resume |-> None])
<1>1. TreeOK(Tree(k)) /\ Describe(EntriesIn(db, k), db.recs, NextSeq(db), k)
  BY DEF Inv, Good, Shaped, Tree
<1>2. p[1] \in DOMAIN Tree(k) /\ EntryAt(Tree(k), p) \in EntriesIn(db, k)
  BY <1>1, SlotsAre DEF EntriesIn, Tree
<1>3. EntryAt(Tree(k), p).id \in LiveIn(db)
  BY <1>1, <1>2 DEF Describe, LiveIn, Live
<1>4. CursorOn(db, CursorOf(Tree(k), p))
  <2>1. CursorOf(Tree(k), p) # None => CursorOf(Tree(k), p) = <<Tree(k)[p[1]].page, p[2]>>
    BY DEF CursorOf
  <2>2. Tree(k)[p[1]].page \in PagesIn(db, k)
    BY <1>2 DEF PagesIn, PagesOf, Tree
  <2> QED
    BY <2>1, <2>2 DEF CursorOn
<1> QED
  BY <1>3, <1>4 DEF ScanOK

-----------------------------------------------------------------------------
(* Every step keeps the invariant.                                         *)

(* A step that only moves the scan.                                        *)
LEMMA Moves ==
  ASSUME Inv, db' = db, ScanOK(db, scan'), undo' = undo \/ undo' = <<>>, open' \in {"closed", "input", "io"},
         access' = access, atEnd' \in BOOLEAN, established' \in BOOLEAN, verbs' = verbs
  PROVE  Inv'
<1>1. <<>> \in Seq(Undoable)
  BY EmptySeq
<1>2. Good(db') /\ ScanOK(db', scan')
  BY DEF Inv
<1>3. Kinds'
  BY <1>1 DEF Inv, Kinds
<1> QED
  BY <1>2, <1>3 DEF Inv

LEMMA FailedInv ==
  ASSUME Inv, NEW verb, NEW arg, NEW st, Failed(verb, arg, st)
  PROVE  Inv'
BY Moves DEF Failed, Inv, Kinds

(* A verb that was executed, refused or not.                               *)
LEMMA ExecutedInv ==
  ASSUME Inv, NEW verb, NEW arg, NEW a, NEW entry \in Undoable, Executed(verb, arg, a, entry), verbs < LastVerb,
         Kept(db, a.db), ScanOK(db, scan'), scan'.current # 0 => scan'.current \in LiveIn(a.db)
  PROVE  Inv'
<1>1. Good(db') /\ ScanOK(db', scan')
  <2>1. db' = a.db
    BY DEF Executed
  <2>2. Good(a.db) /\ PagesKept(db, a.db)
    BY DEF Kept
  <2>3. ScanOK(a.db, scan')
    BY <2>2, ScanKept
  <2> QED
    BY <2>1, <2>2, <2>3
<1>2. Append(undo, entry) \in Seq(Undoable) /\ verbs + 1 \in 0 .. LastVerb
  <2>1. undo \in Seq(Undoable) /\ verbs \in 0 .. LastVerb /\ LastVerb \in Nat
    BY LeafAssumption DEF Inv, Kinds
  <2> QED
    BY <2>1, AppendProperties
<1>3. Kinds'
  BY <1>2 DEF Inv, Kinds, Executed
<1> QED
  BY <1>1, <1>3 DEF Inv

LEMMA WriteInv ==
  ASSUME Inv, NEW r \in Record, Write(r)
  PROVE  Inv'
<1>1. [verb |-> "write", rec |-> r] \in Undoable
  BY DEF Undoable
<1>2. Executed("write", r, Written(db, r), [verb |-> "write", rec |-> r]) /\ scan' = scan /\ verbs < LastVerb
  BY DEF Write
<1>3. Good(db) /\ ScanOK(db, scan)
  BY DEF Inv
<1>4. Kept(db, Written(db, r).db) /\ LiveIn(db) \subseteq LiveIn(Written(db, r).db)
  BY <1>3, WrittenIs
<1>5. scan.current # 0 => scan.current \in LiveIn(Written(db, r).db)
  BY <1>3, <1>4 DEF ScanOK
<1> QED
  BY <1>1, <1>2, <1>3, <1>4, <1>5, ExecutedInv

LEMMA RewriteInv ==
  ASSUME Inv, NEW r \in Record, Rewrite(r)
  PROVE  Inv'
<1> DEFINE id == IF access = "dynamic" THEN Find(db, r.key) ELSE scan.current
           old == db.recs[id]
<1>1. Good(db) /\ ScanOK(db, scan)
  BY DEF Inv
<1>2. id # None /\ id # 0 => id \in LiveIn(db)
  BY <1>1, FindIs DEF ScanOK
<1>3. CASE \E st : Failed("rewrite", r, st)
  BY <1>3, FailedInv
<1>4. CASE id # None /\ id # 0 /\ verbs < LastVerb /\ old.key = r.key /\ RewriteOf(id, r)
  <2>1. id \in LiveIn(db) /\ old \in Record
    <3>1. id \in LiveIn(db)
      BY <1>2, <1>4
    <3> HIDE DEF id
    <3>2. KeyNo \in SUBSET KeyNo
      OBVIOUS
    <3> QED
      BY <1>1, <3>1, <3>2, IndexedIs
  <2> HIDE DEF id
  <2>2. /\ scan' = IF KorMoves(old, r) THEN [scan EXCEPT !.resume = Pinned(id)] ELSE scan
        /\ Executed("rewrite", r, Rewritten(db, id, r), [verb |-> "rewrite", rec |-> old])
    BY <1>4 DEF RewriteOf
  <2>3. Kept(db, Rewritten(db, id, r).db) /\ LiveIn(Rewritten(db, id, r).db) = LiveIn(db)
    BY <1>1, <1>4, <2>1, RewrittenIs
  <2>4. ScanOK(db, scan') /\ scan'.current = scan.current
    BY <1>1, <2>2 DEF ScanOK
  <2>5. [verb |-> "rewrite", rec |-> old] \in Undoable
    BY <2>1 DEF Undoable
  <2>6. scan'.current # 0 => scan'.current \in LiveIn(Rewritten(db, id, r).db)
    BY <2>3, <2>4 DEF ScanOK
  <2> QED
    BY <1>4, <2>2, <2>3, <2>4, <2>5, <2>6, ExecutedInv
<1> QED
  BY <1>3, <1>4 DEF Rewrite, RewriteOf

LEMMA DeleteOfInv ==
  ASSUME Inv, NEW id \in LiveIn(db), NEW arg, DeleteOf(id, arg), verbs < LastVerb
  PROVE  Inv'
<1>1. Good(db) /\ ScanOK(db, scan)
  BY DEF Inv
<1>2. db.recs[id] \in Record
  <2>1. KeyNo \in SUBSET KeyNo
    OBVIOUS
  <2> QED
    BY <1>1, <2>1, IndexedIs
<1>3. /\ scan' = [scan EXCEPT !.resume = Pinned(id), !.current = 0]
      /\ Executed("delete", arg, Deleted(db, id), [verb |-> "delete", rec |-> db.recs[id]])
  BY DEF DeleteOf
<1>4. Kept(db, Deleted(db, id).db)
  BY <1>1, DeletedIs
<1>5. ScanOK(db, scan') /\ scan'.current = 0
  BY <1>1, <1>3 DEF ScanOK
<1>6. [verb |-> "delete", rec |-> db.recs[id]] \in Undoable
  BY <1>2 DEF Undoable
<1> QED
  BY <1>3, <1>4, <1>5, <1>6, ExecutedInv

LEMMA DeleteInv ==
  ASSUME Inv, NEW key, Delete(key)
  PROVE  Inv'
<1>1. Good(db) /\ ScanOK(db, scan) /\ verbs < LastVerb
  BY DEF Inv, Delete
<1>2. CASE \E arg, st : Failed("delete", arg, st)
  BY <1>2, FailedInv
<1>3. CASE scan.current # 0 /\ DeleteOf(scan.current, None)
  <2>1. scan.current \in LiveIn(db)
    BY <1>1, <1>3 DEF ScanOK
  <2> QED
    BY <1>1, <1>3, <2>1, DeleteOfInv
<1>4. CASE Find(db, key) # None /\ DeleteOf(Find(db, key), key)
  <2>1. Find(db, key) \in LiveIn(db)
    BY <1>1, <1>4, FindIs
  <2> QED
    BY <1>1, <1>4, <2>1, DeleteOfInv
<1> QED
  BY <1>2, <1>3, <1>4 DEF Delete

LEMMA ReadKeyInv ==
  ASSUME Inv, NEW a \in Sought, ReadKey(a[1], a[2])
  PROVE  Inv'
<1> DEFINE k == a[1]
           v == a[2]
           p == Matched("eq", Tree(k), v)
<1>1. k \in KeyNo
  BY LoadsAssumption DEF Store!Addresses, KeyNo
<1>2. ScanOK(db, scan) /\ TreeOK(Tree(k))
  BY <1>1 DEF Inv, Good, Shaped, Tree
<1>3. /\ open \in {"closed", "input", "io"} /\ atEnd \in BOOLEAN
      /\ db' = db /\ undo' = undo /\ open' = open /\ access' = access /\ verbs' = verbs
  BY DEF ReadKey, Inv, Kinds
<1>4. CASE p # None
  <2>1. p \in Slots(Tree(k))
    BY <1>2, <1>4, MatchedIs
  <2>2. /\ scan' = [kor |-> k, cursor |-> CursorOf(Tree(k), p), current |-> EntryAt(Tree(k), p).id, resume |-> None]
        /\ atEnd' = FALSE /\ established' = TRUE
    BY <1>4 DEF ReadKey, Found
  <2> HIDE DEF k, p
  <2>3. ScanOK(db, scan')
    BY <1>1, <2>1, <2>2, FoundOK
  <2> QED
    BY <1>3, <2>2, <2>3, Moves
<1>5. CASE p = None
  <2>1. scan' = [scan EXCEPT !.kor = k] /\ atEnd' = atEnd /\ established' = FALSE
    BY <1>5 DEF ReadKey
  <2>2. ScanOK(db, scan')
    BY <1>1, <1>2, <2>1 DEF ScanOK
  <2> QED
    BY <1>3, <2>1, <2>2, Moves
<1> QED
  BY <1>4, <1>5

LEMMA StartsAre ==
  ASSUME NEW s \in Starts
  PROVE  s[1] \in Store!Relations /\ s[2] \in KeyNo
<1>1. s[1] \in Store!Relations /\ <<s[2], s[3]>> \in Store!Addresses
  BY LoadsAssumption
<1>2. PICK k \in KeyNo : \E v : <<s[2], s[3]>> = <<k, v>>
  BY <1>1 DEF Store!Addresses, KeyNo
<1> QED
  BY <1>1, <1>2

LEMMA StartInv ==
  ASSUME Inv, NEW s \in Starts, Start(s[1], s[2], s[3])
  PROVE  Inv'
<1> DEFINE op == s[1]
           k == s[2]
           v == s[3]
           p == Matched(op, Tree(k), v)
           q == StepBack(Tree(k), p)
<1>1. k \in KeyNo /\ op \in {"eq", "ge", "gt", "le", "lt"}
  BY StartsAre DEF Store!Relations
<1>2. ScanOK(db, scan) /\ TreeOK(Tree(k))
  BY <1>1 DEF Inv, Good, Shaped, Tree
<1>3. /\ open \in {"closed", "input", "io"} /\ atEnd \in BOOLEAN
      /\ db' = db /\ undo' = undo /\ open' = open /\ access' = access /\ verbs' = verbs
      /\ established' = FALSE
  BY DEF Start, Inv, Kinds
<1>4. CASE p # None
  <2>1. p \in Slots(Tree(k))
    BY <1>1, <1>2, <1>4, MatchedIs
  <2>2. /\ scan' = [kor |-> k, cursor |-> CursorOf(Tree(k), q), current |-> 0, resume |-> None]
        /\ atEnd' = FALSE
    BY <1>4 DEF Start
  <2>3. CursorOn(db, CursorOf(Tree(k), q))
    <3>1. CASE q = None
      BY <3>1 DEF CursorOf, CursorOn
    <3>2. CASE q # None
      <4>1. q \in Slots(Tree(k))
        BY <1>2, <2>1, <3>2, StepBackIs
      <4> HIDE DEF k, q
      <4>2. q[1] \in DOMAIN Tree(k)
        BY <1>2, <4>1, SlotsAre
      <4>3. Tree(k)[q[1]].page \in PagesIn(db, k)
        BY <4>2 DEF PagesIn, PagesOf, Tree
      <4> QED
        BY <1>1, <3>2, <4>3 DEF CursorOf, CursorOn
    <3> QED
      BY <3>1, <3>2
  <2> HIDE DEF k, q
  <2>4. ScanOK(db, scan')
    BY <1>1, <2>2, <2>3 DEF ScanOK
  <2> QED
    BY <1>3, <2>2, <2>4, Moves
<1>5. CASE p = None
  <2>1. scan' = [scan EXCEPT !.kor = k] /\ atEnd' = atEnd
    BY <1>5 DEF Start
  <2>2. ScanOK(db, scan')
    BY <1>1, <1>2, <2>1 DEF ScanOK
  <2> QED
    BY <1>3, <2>1, <2>2, Moves
<1> QED
  BY <1>4, <1>5

LEMMA ReadSeqInv ==
  ASSUME Inv, NEW dir, ReadSeq(dir)
  PROVE  Inv'
<1> DEFINE t == SeqTree
           p == SeqSlot(dir)
           q == IF p = None THEN None ELSE Deliver(t, p, dir)
<1>1. PICK k \in KeyNo : t = Tree(k)
  BY TreeOfScan
<1>2. ScanOK(db, scan) /\ TreeOK(Tree(k))
  BY DEF Inv, Good, Shaped, Tree
<1>3. /\ open \in {"closed", "input", "io"}
      /\ db' = db /\ undo' = undo /\ open' = open /\ access' = access /\ verbs' = verbs
  BY DEF ReadSeq, Inv, Kinds
<1>4. CASE q # None
  <2>1. q \in Slots(Tree(k))
    <3> DEFINE alive == {s \in Slots(t) : EntryAt(t, s).id \in LiveIn(db)}
               A == {s \in alive : ~Less(s, p)}
               B == {s \in alive : ~Less(p, s)}
    <3>1. q = FirstOf(A) \/ q = LastOf(B)
      BY <1>4 DEF Deliver
    <3>2. A \subseteq Slots(Tree(k)) /\ B \subseteq Slots(Tree(k))
      BY <1>1
    <3> HIDE DEF A, B, q
    <3> QED
      BY <1>2, <1>4, <3>1, <3>2, FoundInTree
  <2>2. /\ scan' = [kor |-> scan.kor, cursor |-> CursorOf(t, q), current |-> EntryAt(t, q).id, resume |-> None]
        /\ atEnd' = FALSE /\ established' = TRUE
    BY <1>4 DEF ReadSeq, Found
  <2> HIDE DEF t, q
  <2>3. ScanOK(db, scan')
    BY <1>1, <1>2, <2>1, <2>2, FoundOK DEF ScanOK
  <2> QED
    BY <1>3, <2>2, <2>3, Moves
<1>5. CASE q = None
  <2>1. scan' = [scan EXCEPT !.resume = None] /\ atEnd' = TRUE /\ established' = FALSE
    BY <1>5 DEF ReadSeq
  <2>2. ScanOK(db, scan')
    BY <1>2, <2>1 DEF ScanOK
  <2> QED
    BY <1>3, <2>1, <2>2, Moves
<1> QED
  BY <1>4, <1>5

LEMMA RollbackInv ==
  ASSUME Inv, Rollback
  PROVE  Inv'
<1>1. Good(db) /\ undo \in Seq(Undoable) /\ scan.kor \in KeyNo
  BY DEF Inv, Kinds, ScanOK
<1>2. db' = Replayed(db, undo) /\ undo' = <<>> /\ scan' = [AtStart EXCEPT !.kor = scan.kor]
  BY DEF Rollback
<1>3. Good(db') /\ ScanOK(db', scan')
  BY <1>1, <1>2, ReplayedGood, AtStartOK
<1>4. Kinds'
  BY <1>2, EmptySeq DEF Inv, Kinds, Rollback, program
<1> QED
  BY <1>3, <1>4 DEF Inv

LEMMA InvNext == Inv /\ [Next]_vars => Inv'
<1> SUFFICES ASSUME Inv, [Next]_vars PROVE Inv'
  OBVIOUS
<1>0. ScanOK(db, scan) /\ open \in {"closed", "input", "io"} /\ atEnd \in BOOLEAN /\ established \in BOOLEAN
  BY DEF Inv, Kinds
<1>1. CASE Open
  <2>1. ScanOK(db, AtStart)
    <3>1. 0 \in KeyNo
      BY KeyNumbers DEF KeyNo
    <3> QED
      BY <3>1, AtStartOK
  <2> QED
    BY <1>1, <2>1, Moves DEF Open
<1>2. CASE Close
  <2>1. ScanOK(db, AtStart)
    <3>1. 0 \in KeyNo
      BY KeyNumbers DEF KeyNo
    <3> QED
      BY <3>1, AtStartOK
  <2> QED
    BY <1>0, <1>2, <2>1, Moves DEF Close
<1>3. CASE Refused
  BY <1>0, <1>3, Moves DEF Refused
<1>4. CASE Commit
  BY <1>0, <1>4, Moves DEF Commit, program
<1>5. CASE Rollback
  BY <1>5, RollbackInv
<1>6. CASE \E r \in Record : Write(r) \/ Rewrite(r)
  BY <1>6, WriteInv, RewriteInv
<1>7. CASE \E key \in Store!Keys \cup {None} : Delete(key)
  BY <1>7, DeleteInv
<1>8. CASE \E a \in Sought : ReadKey(a[1], a[2])
  BY <1>8, ReadKeyInv
<1>9. CASE \E s \in Starts : Start(s[1], s[2], s[3])
  BY <1>9, StartInv
<1>10. CASE \E dir \in {"next", "previous"} : ReadSeq(dir) \/ PastEnd(dir)
  BY <1>10, ReadSeqInv, FailedInv DEF PastEnd
<1>11. CASE UNCHANGED vars
  BY <1>0, <1>11, Moves DEF vars, program
<1> QED
  BY <1>1, <1>2, <1>3, <1>4, <1>5, <1>6, <1>7, <1>8, <1>9, <1>10, <1>11 DEF Next

-----------------------------------------------------------------------------
(* What the invariant says of the slots of an index.                       *)

LEMMA TreeIs ==
  ASSUME Inv, NEW k \in KeyNo
  PROVE  /\ TreeOK(Tree(k)) /\ Describe(EntriesOf(Tree(k)), db.recs, NextSeq(db), k)
         /\ DOMAIN Tree(k) = 1 .. Len(Tree(k)) /\ Len(Tree(k)) \in Nat
<1>1. TreeOK(Tree(k)) /\ Describe(EntriesOf(Tree(k)), db.recs, NextSeq(db), k)
  BY DEF Inv, Good, Shaped, Tree, EntriesIn
<1> QED
  BY <1>1, LeavesTyped DEF TreeOK

(* An entry is in one slot.                                                *)
LEMMA SlotOnce ==
  ASSUME NEW t, TreeOK(t), NEW p \in Slots(t), NEW q \in Slots(t), EntryAt(t, p) = EntryAt(t, q)
  PROVE  p = q
<1> DEFINE x == EntryAt(t, p)
<1>1. /\ p = <<p[1], p[2]>> /\ p[1] \in DOMAIN t /\ p[2] \in DOMAIN t[p[1]].entries
      /\ q = <<q[1], q[2]>> /\ q[1] \in DOMAIN t /\ q[2] \in DOMAIN t[q[1]].entries
      /\ x = t[p[1]].entries[p[2]] /\ x = t[q[1]].entries[q[2]]
      /\ x \in SetOf(t[p[1]].entries) /\ x \in SetOf(t[q[1]].entries) /\ x \in EntriesOf(t)
  BY SlotsAre
<1> HIDE DEF x
<1>2. x.key \in TreeKey
  BY <1>1, EntriesOfTyped
<1>3. InLeaf(t, p[1], x.key) /\ InLeaf(t, q[1], x.key)
  BY <1>1 DEF TreeOK
<1>4. p[1] = q[1]
  BY <1>1, <1>2, <1>3, OneLeaf
<1>5. t[p[1]].entries \in Seq(Entry) /\ Ascending(t[p[1]].entries)
  BY <1>1, LeavesTyped DEF TreeOK
<1>6. p[2] = q[2]
  BY <1>1, <1>4, <1>5, AscendingOnce
<1> QED
  BY <1>1, <1>4, <1>6

(* The slots of a tree are in the order of their keys.                     *)
LEMMA KeyAscends ==
  ASSUME NEW t, TreeOK(t), NEW p \in Slots(t), NEW q \in Slots(t), Less(p, q)
  PROVE  Less(KeyAt(t, p), KeyAt(t, q))
<1>1. /\ p[1] \in Nat /\ p[1] \in DOMAIN t /\ p[2] \in DOMAIN t[p[1]].entries
      /\ q[1] \in Nat /\ q[1] \in DOMAIN t /\ q[2] \in DOMAIN t[q[1]].entries
      /\ EntryAt(t, p) \in SetOf(t[p[1]].entries) /\ EntryAt(t, q) \in SetOf(t[q[1]].entries)
      /\ EntryAt(t, p) = t[p[1]].entries[p[2]] /\ EntryAt(t, q) = t[q[1]].entries[q[2]]
      /\ KeyAt(t, p) = EntryAt(t, p).key /\ KeyAt(t, q) = EntryAt(t, q).key
      /\ EntryAt(t, p) \in EntriesOf(t) /\ EntryAt(t, q) \in EntriesOf(t)
  BY SlotsAre
<1>2. KeyAt(t, p) \in TreeKey /\ KeyAt(t, q) \in TreeKey
  BY <1>1, EntriesOfTyped
<1>3. /\ Len(t) \in Nat /\ DOMAIN t = 1 .. Len(t)
      /\ \A j \in DOMAIN t : t[j].low \in TreeKey /\ Ascending(t[j].entries)
  BY LeavesTyped DEF TreeOK
<1>4. CASE p[1] = q[1] /\ p[2] < q[2]
  BY <1>1, <1>3, <1>4 DEF Ascending
<1>5. CASE p[1] < q[1]
  <2>1. InLeaf(t, p[1], KeyAt(t, p)) /\ InLeaf(t, q[1], KeyAt(t, q))
    BY <1>1 DEF TreeOK
  <2>2. p[1] + 1 \in DOMAIN t /\ p[1] # Len(t)
    BY <1>1, <1>3, <1>5
  <2>3. Less(KeyAt(t, p), t[p[1] + 1].low)
    BY <2>1, <2>2 DEF InLeaf
  <2>4. ~Less(t[q[1]].low, t[p[1] + 1].low)
    <3>1. CASE p[1] + 1 = q[1]
      BY <1>1, <1>3, <3>1, KeysOrdered
    <3>2. CASE p[1] + 1 < q[1]
      BY <1>1, <1>3, <2>2, <3>2, KeysOrdered DEF TreeOK
    <3> QED
      BY <1>1, <1>5, <3>1, <3>2
  <2>5. ~Less(KeyAt(t, q), t[q[1]].low)
    BY <2>1 DEF InLeaf
  <2>6. Less(KeyAt(t, p), t[q[1]].low)
    BY <1>1, <1>2, <1>3, <2>2, <2>3, <2>4, KeysOrdered
  <2> QED
    BY <1>1, <1>2, <1>3, <2>5, <2>6, KeysOrdered
<1> QED
  BY <1>4, <1>5 DEF Less

LEMMA SlotsAscend ==
  ASSUME NEW t, TreeOK(t), NEW p \in Slots(t), NEW q \in Slots(t)
  PROVE  Less(p, q) <=> Less(KeyAt(t, p), KeyAt(t, q))
<1>1. /\ p \in TreeKey /\ q \in TreeKey
      /\ EntryAt(t, p) \in EntriesOf(t) /\ EntryAt(t, q) \in EntriesOf(t)
      /\ KeyAt(t, p) = EntryAt(t, p).key /\ KeyAt(t, q) = EntryAt(t, q).key
  <2>1. /\ p = <<p[1], p[2]>> /\ p[1] \in Nat /\ p[2] \in Nat
        /\ q = <<q[1], q[2]>> /\ q[1] \in Nat /\ q[2] \in Nat
    BY SlotsAre
  <2> QED
    BY <2>1, SlotsAre DEF TreeKey
<1>2. KeyAt(t, p) \in TreeKey /\ KeyAt(t, q) \in TreeKey
  BY <1>1, EntriesOfTyped
<1>3. Less(p, q) \/ p = q \/ Less(q, p)
  BY <1>1, KeysOrdered
<1>4. Less(p, q) => Less(KeyAt(t, p), KeyAt(t, q))
  BY KeyAscends
<1>5. Less(q, p) => Less(KeyAt(t, q), KeyAt(t, p))
  BY KeyAscends
<1> QED
  BY <1>2, <1>3, <1>4, <1>5, KeysOrdered

LEMMA InvIndexes == Inv => IndexesDescribeRecords
<1> SUFFICES ASSUME Inv, NEW k \in KeyNo
             PROVE  LET t == Tree(k)
                    IN /\ \A n \in LiveIn(db) : \E p \in Slots(t) :
                            /\ {q \in Slots(t) : EntryAt(t, q).id = n} = {p}
                            /\ KeyAt(t, p)[1] = Value(db.recs[n], k)
                       /\ \A p \in Slots(t) :
                            /\ EntryAt(t, p).id \in LiveIn(db)
                            /\ LeafFor(t, KeyAt(t, p)) = p[1]
                            /\ \A q \in Slots(t) : Less(p, q) <=> Less(KeyAt(t, p), KeyAt(t, q))
  BY DEF IndexesDescribeRecords
<1> DEFINE t == Tree(k)
<1>1. TreeOK(t) /\ Describe(EntriesOf(t), db.recs, NextSeq(db), k)
  BY TreeIs
<1>2. \A n : n \in LiveIn(db) <=> n \in Live(db.recs)
  BY DEF LiveIn, Live
<1> HIDE DEF t
<1>3. ASSUME NEW n \in LiveIn(db)
      PROVE  \E p \in Slots(t) : /\ {q \in Slots(t) : EntryAt(t, q).id = n} = {p}
                                 /\ KeyAt(t, p)[1] = Value(db.recs[n], k)
  <2>1. PICK x \in EntriesOf(t) : x.id = n /\ \A y \in EntriesOf(t) : y.id = n => y = x
    BY <1>1, <1>2 DEF Describe
  <2>2. PICK p \in Slots(t) : EntryAt(t, p) = x
    BY <1>1, SlotsAre
  <2>3. ASSUME NEW q \in Slots(t), EntryAt(t, q).id = n PROVE q = p
    <3>1. EntryAt(t, q) = x
      BY <1>1, <2>1, <2>3, SlotsAre
    <3> QED
      BY <1>1, <2>2, <3>1, SlotOnce
  <2>4. {q \in Slots(t) : EntryAt(t, q).id = n} = {p}
    BY <2>1, <2>2, <2>3
  <2>5. KeyAt(t, p)[1] = Value(db.recs[n], k)
    BY <1>1, <2>1, <2>2, SlotsAre DEF Describe
  <2> QED
    BY <2>4, <2>5
<1>4. ASSUME NEW p \in Slots(t)
      PROVE  /\ EntryAt(t, p).id \in LiveIn(db)
             /\ LeafFor(t, KeyAt(t, p)) = p[1]
             /\ \A q \in Slots(t) : Less(p, q) <=> Less(KeyAt(t, p), KeyAt(t, q))
  <2>1. /\ p[1] \in DOMAIN t /\ EntryAt(t, p) \in SetOf(t[p[1]].entries)
        /\ EntryAt(t, p) \in EntriesOf(t) /\ KeyAt(t, p) = EntryAt(t, p).key
    BY <1>1, SlotsAre
  <2>2. EntryAt(t, p).id \in LiveIn(db)
    BY <1>1, <1>2, <2>1 DEF Describe
  <2>3. KeyAt(t, p) \in TreeKey /\ InLeaf(t, p[1], KeyAt(t, p))
    BY <1>1, <2>1, EntriesOfTyped DEF TreeOK
  <2>4. LeafFor(t, KeyAt(t, p)) = p[1]
    BY <1>1, <2>1, <2>3, LeafForIs, OneLeaf
  <2> QED
    BY <1>1, <2>2, <2>4, SlotsAscend
<1> QED
  BY <1>3, <1>4 DEF t

LEMMA InvTypeOK == Inv => TypeOK
<1> SUFFICES ASSUME Inv PROVE TypeOK
  OBVIOUS
<1>1. db \in DbType /\ PagesApart(db) /\ ScanOK(db, scan) /\ Kinds
  BY DEF Inv, Good, Shaped
<1>2. db.recs \in Seq(Record \cup {Free}) /\ db.seq \in Nat /\ db.page \in Nat
  BY <1>1, DbTyped
<1>3. ASSUME NEW a \in Leaves, NEW b \in Leaves, Tree(a[1])[a[2]].page = Tree(b[1])[b[2]].page
      PROVE  a = b
  <2>1. /\ a = <<a[1], a[2]>> /\ a[1] \in KeyNo /\ a[2] \in DOMAIN Tree(a[1])
        /\ b = <<b[1], b[2]>> /\ b[1] \in KeyNo /\ b[2] \in DOMAIN Tree(b[1])
    BY DEF Leaves
  <2> DEFINE page == Tree(a[1])[a[2]].page
  <2>2. page \in PagesIn(db, a[1]) /\ page \in PagesIn(db, b[1])
    <3>1. \A k, j : j \in DOMAIN Tree(k) => Tree(k)[j].page \in PagesIn(db, k)
      BY DEF PagesIn, PagesOf, Tree
    <3>2. Tree(a[1])[a[2]].page \in PagesIn(db, a[1]) /\ Tree(b[1])[b[2]].page \in PagesIn(db, b[1])
      BY <2>1, <3>1
    <3> QED
      BY <1>3, <3>2
  <2>3. a[1] = b[1]
    BY <1>1, <2>1, <2>2 DEF PagesApart
  <2>4. a[2] = b[2]
    BY <1>1, <1>3, <2>1, <2>3 DEF PagesApart, OnePage, Tree
  <2> QED
    BY <2>1, <2>3, <2>4
<1>4. ASSUME NEW k \in KeyNo, NEW p \in Slots(Tree(k))
      PROVE  KeyAt(Tree(k), p)[2] \in IF Dup(k) THEN 1 .. NextSeq(db) - 1 ELSE {0}
  <2>1. TreeOK(Tree(k)) /\ Describe(EntriesOf(Tree(k)), db.recs, NextSeq(db), k)
    BY TreeIs
  <2>2. EntryAt(Tree(k), p) \in EntriesOf(Tree(k)) /\ KeyAt(Tree(k), p) = EntryAt(Tree(k), p).key
    BY <2>1, SlotsAre
  <2>3. KeyAt(Tree(k), p)[2] \in JoinSeqs(k, NextSeq(db))
    BY <2>1, <2>2 DEF Describe
  <2> QED
    BY <2>3 DEF JoinSeqs
<1>5. scan.kor \in KeyNo /\ scan.current \in 0 .. Len(db.recs)
  <2>1. scan.current # 0 => scan.current \in Live(db.recs)
    BY <1>1 DEF ScanOK, LiveIn, Live
  <2>2. Len(db.recs) \in Nat /\ \A n \in Live(db.recs) : n \in 1 .. Len(db.recs)
    BY <1>2, LiveTyped
  <2>3. scan.current \in 0 .. Len(db.recs)
    BY <2>1, <2>2
  <2> QED
    BY <1>1, <2>3 DEF ScanOK
<1>6. \A n \in DOMAIN undo : undo[n].verb \in {"write", "rewrite", "delete"} /\ undo[n].rec \in Record
  <2>1. undo \in Seq(Undoable)
    BY <1>1 DEF Kinds
  <2>2. \A n \in DOMAIN undo : undo[n] \in Undoable
    BY <2>1, LenProperties, ElementOfSeq
  <2>3. \A u \in Undoable : u.verb \in {"write", "rewrite", "delete"} /\ u.rec \in Record
    BY DEF Undoable
  <2> QED
    BY <2>2, <2>3
<1> QED
  BY <1>1, <1>2, <1>3, <1>4, <1>5, <1>6 DEF TypeOK, Kinds

-----------------------------------------------------------------------------
(* The theorems.                                                           *)

LEMMA InvAlways == Spec => []Inv
<1>1. Init => Inv
  BY InvInit
<1>2. Inv /\ [Next]_vars => Inv'
  BY InvNext
<1> QED
  BY <1>1, <1>2, PTL DEF Spec

(* No page is ever in two leaves, of one tree or of two, so that a cursor  *)
(* that names a page names one leaf; and every entry of an index with      *)
(* duplicates has a join sequence that NextSeq gave and will not give      *)
(* again, also after a ROLLBACK has written records anew                   *)
(* (write_inner, insert_rec, rollback).                                    *)
THEOREM Typed == Spec => []TypeOK
BY InvAlways, InvTypeOK, PTL

(* After every verb, failed or not, and after ROLLBACK, every index holds  *)
(* one entry of every record under its value and nothing else, in order    *)
(* and in the leaf a search goes to, whatever the records, the number of   *)
(* keys, the size of a leaf and the length of the run (write_inner,        *)
(* rewrite_inner, delete_inner, op_abort, rollback).                       *)
THEOREM IndexesDescribe == Spec => []IndexesDescribeRecords
BY InvAlways, InvIndexes, PTL

-----------------------------------------------------------------------------
(* The file as a set of records.                                           *)

LEMMA ClashIs ==
  ASSUME NEW r, NEW s
  PROVE  Store!Clash(r, s) <=> \E k \in KeyNo : ~Dup(k) /\ Value(r, k) = Value(s, k)
<1>1. KeyNo = {0} \cup DOMAIN Duplicates /\ 0 \notin DOMAIN Duplicates
  BY KeyNumbers DEF KeyNo
<1>2. ~Dup(0) /\ Value(r, 0) = r.key /\ Value(s, 0) = s.key
  BY DEF Dup, Value, Store!Value
<1>3. \A k \in DOMAIN Duplicates : /\ Dup(k) <=> Duplicates[k]
                                   /\ Value(r, k) = r.alt[k] /\ Value(s, k) = s.alt[k]
  BY <1>1 DEF Dup, Value, Store!Value
<1> QED
  BY <1>1, <1>2, <1>3 DEF Store!Clash

LEMMA ContentIs ==
  ASSUME NEW d, Good(d)
  PROVE  /\ Content(d) \subseteq Record
         /\ \A n \in LiveIn(d) : n \in Nat /\ n # 0 /\ d.recs[n] \in Record /\ d.recs[n] \in Content(d)
         /\ \A r \in Content(d) : \E n \in LiveIn(d) : r = d.recs[n]
<1>1. d.recs \in Seq(Record \cup {Free})
  BY DbTyped DEF Good, Shaped
<1>2. \A n \in LiveIn(d) : n \in Nat /\ n # 0 /\ d.recs[n] \in Record
  BY <1>1, LiveTyped DEF LiveIn, Live
<1> QED
  BY <1>2 DEF Content

(* The index of a key without duplicates finds the record with a value.    *)
LEMMA SearchFinds ==
  ASSUME NEW d, Good(d), NEW k \in KeyNo, ~Dup(k), NEW v
  PROVE  \A n : n \in Search(d.trees[k], Bare(v)) <=> n \in LiveIn(d) /\ Value(d.recs[n], k) = v
<1> DEFINE X == EntriesIn(d, k)
<1>1. TreeOK(d.trees[k]) /\ Describe(X, d.recs, NextSeq(d), k) /\ X = EntriesOf(d.trees[k])
  BY DEF Good, Shaped, EntriesIn
<1> HIDE DEF X
<1>2. \A n : n \in LiveIn(d) <=> n \in Live(d.recs)
  BY DEF LiveIn, Live
<1>3. ASSUME NEW x \in X
      PROVE  x.key = Bare(x.key[1]) /\ x.key[1] = Value(d.recs[x.id], k) /\ x.id \in LiveIn(d)
  <2>1. x.key \in TreeKey
    BY <1>1, EntriesOfTyped
  <2>2. x.key[2] = 0 /\ x.key[1] = Value(d.recs[x.id], k) /\ x.id \in LiveIn(d)
    BY <1>1, <1>2 DEF Describe, JoinSeqs
  <2>3. x.key = <<x.key[1], x.key[2]>>
    BY <2>1 DEF TreeKey
  <2> QED
    BY <2>2, <2>3 DEF Bare
<1>4. \A w : Bare(w) = Bare(v) <=> w = v
  BY DEF Bare
<1>5. ASSUME NEW n PROVE n \in Search(d.trees[k], Bare(v)) <=> \E x \in X : x.key = Bare(v) /\ x.id = n
  BY <1>1, SearchIs
<1>6. ASSUME NEW n \in LiveIn(d) PROVE \E x \in X : x.id = n
  BY <1>1, <1>2 DEF Describe
<1> QED
  BY <1>3, <1>4, <1>5, <1>6

(* No two records of the file clash.                                       *)
LEMMA NoClash ==
  ASSUME NEW d, Good(d), NEW m \in LiveIn(d), NEW n \in LiveIn(d), Store!Clash(d.recs[m], d.recs[n])
  PROVE  m = n
<1>1. PICK k \in KeyNo : ~Dup(k) /\ Value(d.recs[m], k) = Value(d.recs[n], k)
  BY ClashIs
<1> DEFINE v == Value(d.recs[n], k)
           X == EntriesIn(d, k)
<1>2. TreeOK(d.trees[k]) /\ X = EntriesOf(d.trees[k])
  BY DEF Good, Shaped, EntriesIn
<1>3. m \in Search(d.trees[k], Bare(v)) /\ n \in Search(d.trees[k], Bare(v))
  BY <1>1, SearchFinds
<1> HIDE DEF X, v
<1>4. PICK x \in X : x.key = Bare(v) /\ x.id = m
  BY <1>2, <1>3, SearchIs
<1>5. PICK y \in X : y.key = Bare(v) /\ y.id = n
  BY <1>2, <1>3, SearchIs
<1>6. x = y
  BY <1>2, <1>4, <1>5, EntryOnce
<1> QED
  BY <1>4, <1>5, <1>6

Apart(C) == \A r, s \in C : Store!Clash(r, s) => r = s

LEMMA SameClash == \A r : Store!Clash(r, r)
BY DEF Store!Clash

LEMMA ContentApart ==
  ASSUME NEW d, Good(d)
  PROVE  Apart(Content(d))
<1> SUFFICES ASSUME NEW r \in Content(d), NEW s \in Content(d), Store!Clash(r, s) PROVE r = s
  BY DEF Apart
<1>1. PICK m \in LiveIn(d) : r = d.recs[m]
  BY ContentIs
<1>2. PICK n \in LiveIn(d) : s = d.recs[n]
  BY ContentIs
<1>3. m = n
  BY <1>1, <1>2, NoClash
<1> QED
  BY <1>1, <1>2, <1>3

LEMMA UniqueIs ==
  ASSUME NEW d, Good(d), NEW r
  PROVE  Unique(d, r) <=> ~Store!Clashes(r, Content(d))
<1>1. ASSUME ~Unique(d, r) PROVE Store!Clashes(r, Content(d))
  <2>1. PICK k \in KeyNo : ~Dup(k) /\ Search(d.trees[k], Bare(Value(r, k))) # {}
    BY <1>1 DEF Unique
  <2>2. PICK n : n \in Search(d.trees[k], Bare(Value(r, k)))
    BY <2>1
  <2>3. n \in LiveIn(d) /\ Value(d.recs[n], k) = Value(r, k)
    BY <2>1, <2>2, SearchFinds
  <2>4. d.recs[n] \in Content(d) /\ Store!Clash(r, d.recs[n])
    BY <2>1, <2>3, ContentIs, ClashIs
  <2> QED
    BY <2>4 DEF Store!Clashes
<1>2. ASSUME Store!Clashes(r, Content(d)) PROVE ~Unique(d, r)
  <2>1. PICK s \in Content(d) : Store!Clash(r, s)
    BY <1>2 DEF Store!Clashes
  <2>2. PICK n \in LiveIn(d) : s = d.recs[n]
    BY ContentIs
  <2>3. PICK k \in KeyNo : ~Dup(k) /\ Value(r, k) = Value(s, k)
    BY <2>1, ClashIs
  <2>4. n \in Search(d.trees[k], Bare(Value(r, k)))
    BY <2>2, <2>3, SearchFinds
  <2> QED
    BY <2>3, <2>4 DEF Unique
<1> QED
  BY <1>1, <1>2

LEMMA FindFinds ==
  ASSUME NEW d, Good(d), NEW key, Find(d, key) = None
  PROVE  \A r \in Content(d) : r.key # key
<1> DEFINE found == Search(d.trees[0], Bare(key))
<1>0. 0 \in KeyNo /\ ~Dup(0)
  BY KeyNumbers DEF KeyNo, Dup
<1>1. \A n : n \in found <=> n \in LiveIn(d) /\ Value(d.recs[n], 0) = key
  BY <1>0, SearchFinds
<1>2. \A n \in found : n \in Nat
  BY <1>1, ContentIs
<1>3. Find(d, key) = IF found = {} THEN None ELSE CHOOSE n \in found : TRUE
  BY DEF Find
<1> HIDE DEF found
<1>4. found = {}
  BY <1>2, <1>3, NoneAssumption
<1>5. \A n \in LiveIn(d) : Value(d.recs[n], 0) # key
  BY <1>1, <1>4
<1> QED
  BY <1>5, ContentIs DEF Value, Store!Value

(* What the verbs do to the records.                                       *)
LEMMA RecordOnce ==
  ASSUME NEW d, Good(d), NEW m \in LiveIn(d), NEW n \in LiveIn(d), d.recs[m] = d.recs[n]
  PROVE  m = n
BY NoClash, SameClash

LEMMA WrittenContent ==
  ASSUME NEW d, Good(d), NEW r \in Record
  PROVE  /\ Store!Clashes(r, Content(d)) => Written(d, r) = [st |-> "22", db |-> d]
         /\ ~Store!Clashes(r, Content(d)) => /\ Written(d, r).st = "00"
                                             /\ Content(Written(d, r).db) = Content(d) \cup {r}
<1>1. Store!Clashes(r, Content(d)) => Written(d, r) = [st |-> "22", db |-> d]
  BY UniqueIs, WrittenIs
<1>2. ASSUME ~Store!Clashes(r, Content(d))
      PROVE  Written(d, r).st = "00" /\ Content(Written(d, r).db) = Content(d) \cup {r}
  <2> DEFINE e == Written(d, r).db
             id == Len(d.recs) + 1
  <2>1. Written(d, r).st = "00" /\ e.recs = Append(d.recs, r)
    BY <1>2, UniqueIs, WrittenIs
  <2> HIDE DEF e
  <2>2. d.recs \in Seq(Record \cup {Free}) /\ Len(d.recs) \in Nat /\ DOMAIN d.recs = 1 .. Len(d.recs)
    BY DbTyped DEF Good, Shaped
  <2>3. /\ DOMAIN e.recs = 1 .. id /\ e.recs[id] = r
        /\ \A n \in 1 .. Len(d.recs) : e.recs[n] = d.recs[n]
    <3>1. r \in Record \cup {Free}
      OBVIOUS
    <3>2. /\ Append(d.recs, r) \in Seq(Record \cup {Free}) /\ Len(Append(d.recs, r)) = id
          /\ \A n \in 1 .. Len(d.recs) : Append(d.recs, r)[n] = d.recs[n]
          /\ Append(d.recs, r)[id] = r
      BY <2>2, <3>1, AppendProperties
    <3> QED
      BY <2>1, <3>2, LenProperties
  <2>4. r # Free
    BY NoneAssumption DEF Free
  <2>5. \A n : n \in LiveIn(e) <=> n \in LiveIn(d) \/ n = id
    <3>1. \A n : n \in 1 .. id <=> n \in 1 .. Len(d.recs) \/ n = id
      BY <2>2
    <3> HIDE DEF id
    <3> QED
      BY <2>2, <2>3, <2>4, <3>1 DEF LiveIn
  <2>6. \A n \in LiveIn(d) : e.recs[n] = d.recs[n]
    BY <2>2, <2>3 DEF LiveIn
  <2> HIDE DEF id
  <2>7. \A s : s \in Content(e) <=> s \in Content(d) \/ s = r
    BY <2>3, <2>5, <2>6 DEF Content
  <2> QED
    BY <2>1, <2>7 DEF e
<1> QED
  BY <1>1, <1>2

LEMMA DeletedContent ==
  ASSUME NEW d, Good(d), NEW id \in LiveIn(d)
  PROVE  Content(Deleted(d, id).db) = Content(d) \ {d.recs[id]}
<1> DEFINE e == Deleted(d, id).db
<1>1. LiveIn(e) = LiveIn(d) \ {id} /\ e.recs = [d.recs EXCEPT ![id] = Free]
  BY DeletedIs
<1> HIDE DEF e
<1>2. \A n \in LiveIn(e) : e.recs[n] = d.recs[n] /\ d.recs[n] # d.recs[id]
  BY <1>1, RecordOnce DEF LiveIn
<1>3. \A s : s \in Content(e) <=> s \in Content(d) /\ s # d.recs[id]
  BY <1>1, <1>2 DEF Content
<1> QED
  BY <1>3 DEF e

LEMMA TakenIs ==
  ASSUME NEW d, Good(d), NEW id \in LiveIn(d), NEW r, d.recs[id].key = r.key
  PROVE  Taken(d, id, r) # {} <=> Store!Clashes(r, Content(d) \ {d.recs[id]})
<1> DEFINE old == d.recs[id]
<1>0. \A k \in DOMAIN Duplicates : k \in KeyNo
  BY KeyNumbers DEF KeyNo
<1>1. ASSUME Taken(d, id, r) # {} PROVE Store!Clashes(r, Content(d) \ {old})
  <2>1. PICK k \in KeyNo : Value(old, k) # Value(r, k) /\ ~Dup(k) /\ Search(d.trees[k], Bare(Value(r, k))) # {}
    BY <1>0, <1>1 DEF Taken
  <2>2. PICK n : n \in Search(d.trees[k], Bare(Value(r, k)))
    BY <2>1
  <2>3. n \in LiveIn(d) /\ Value(d.recs[n], k) = Value(r, k)
    BY <2>1, <2>2, SearchFinds
  <2>4. d.recs[n] \in Content(d) \ {old} /\ Store!Clash(r, d.recs[n])
    BY <2>1, <2>3, ContentIs, ClashIs
  <2> QED
    BY <2>4 DEF Store!Clashes
<1>2. ASSUME Store!Clashes(r, Content(d) \ {old}) PROVE Taken(d, id, r) # {}
  <2>1. PICK s \in Content(d) \ {old} : Store!Clash(r, s)
    BY <1>2 DEF Store!Clashes
  <2>2. PICK n \in LiveIn(d) : s = d.recs[n]
    BY <2>1, ContentIs
  <2>3. PICK k \in KeyNo : ~Dup(k) /\ Value(r, k) = Value(s, k)
    BY <2>1, ClashIs
  <2>4. Value(old, k) # Value(r, k)
    <3>1. Value(old, k) = Value(r, k) => Store!Clash(old, s)
      BY <2>3, ClashIs
    <3>2. ~Store!Clash(old, s)
      BY <2>1, <2>2, NoClash
    <3> QED
      BY <3>1, <3>2
  <2>5. k \in DOMAIN Duplicates
    <3>1. k = 0 \/ k \in DOMAIN Duplicates
      BY KeyNumbers DEF KeyNo
    <3> QED
      BY <2>4, <3>1 DEF Value, Store!Value
  <2>6. n \in Search(d.trees[k], Bare(Value(r, k)))
    BY <2>2, <2>3, SearchFinds
  <2> QED
    BY <2>3, <2>4, <2>5, <2>6 DEF Taken
<1> QED
  BY <1>1, <1>2

LEMMA RewrittenContent ==
  ASSUME NEW d, Good(d), NEW id \in LiveIn(d), NEW r \in Record, d.recs[id].key = r.key
  PROVE  LET rest == Content(d) \ {d.recs[id]}
         IN /\ Store!Clashes(r, rest) => Rewritten(d, id, r) = [st |-> "22", db |-> d]
            /\ ~Store!Clashes(r, rest) => /\ Rewritten(d, id, r).st = "00"
                                          /\ Content(Rewritten(d, id, r).db) = rest \cup {r}
<1> DEFINE old == d.recs[id]
           rest == Content(d) \ {old}
           e == Rewritten(d, id, r).db
<1>1. Store!Clashes(r, rest) <=> Taken(d, id, r) # {}
  BY TakenIs
<1>2. Store!Clashes(r, rest) => Rewritten(d, id, r) = [st |-> "22", db |-> d]
  BY <1>1, RewrittenIs
<1>3. ASSUME ~Store!Clashes(r, rest)
      PROVE  Rewritten(d, id, r).st = "00" /\ Content(e) = rest \cup {r}
  <2>1. Rewritten(d, id, r).st = "00" /\ e.recs = [d.recs EXCEPT ![id] = r] /\ LiveIn(e) = LiveIn(d)
    BY <1>1, <1>3, RewrittenIs
  <2> HIDE DEF e
  <2>2. /\ e.recs[id] = r
        /\ \A n \in LiveIn(d) : n # id => e.recs[n] = d.recs[n] /\ d.recs[n] # old
    BY <2>1, RecordOnce DEF LiveIn
  <2>3. \A s : s \in Content(e) <=> s \in rest \/ s = r
    BY <2>1, <2>2 DEF Content
  <2> QED
    BY <2>1, <2>3
<1> QED
  BY <1>2, <1>3

-----------------------------------------------------------------------------
(* What ROLLBACK brings back: each verb of the log takes the records to    *)
(* what they were before the verb it undoes.                               *)

WithKey(C, key) == {r \in C : r.key = key}

BackTo(C, u) ==
  LET C0   == C \ WithKey(C, u.rec.key)
  IN CASE u.verb = "delete"  -> IF Store!Clashes(u.rec, C) THEN C ELSE C \cup {u.rec}
       [] u.verb = "write"   -> C0
       [] u.verb = "rewrite" -> IF WithKey(C, u.rec.key) = {} \/ Store!Clashes(u.rec, C0) THEN C
                                ELSE C0 \cup {u.rec}

LEMMA KeyOnce ==
  ASSUME NEW C, Apart(C), NEW r \in C, NEW s \in C, r.key = s.key
  PROVE  r = s
BY DEF Apart, Store!Clash

LEMMA WithKeyIs ==
  ASSUME NEW d, Good(d), NEW key
  PROVE  LET id == Find(d, key)
         IN /\ id = None => WithKey(Content(d), key) = {}
            /\ id # None => WithKey(Content(d), key) = {d.recs[id]}
<1> DEFINE id == Find(d, key)
           C  == Content(d)
<1>1. id = None => \A r \in C : r.key # key
  BY FindFinds
<1>2. id # None => d.recs[id] \in C /\ d.recs[id].key = key
  BY FindIs, ContentIs
<1>3. \A r, s \in C : r.key = s.key => r = s
  BY ContentApart, KeyOnce
<1> HIDE DEF id, C
<1>4. id = None => WithKey(C, key) = {}
  BY <1>1 DEF WithKey
<1>5. id # None => WithKey(C, key) = {d.recs[id]}
  BY <1>2, <1>3 DEF WithKey
<1> QED
  BY <1>4, <1>5 DEF id, C

LEMMA UndoneContent ==
  ASSUME NEW d, Good(d), NEW u \in Undoable
  PROVE  Content(Undone(d, u)) = BackTo(Content(d), u)
<1> DEFINE id == Find(d, u.rec.key)
           C  == Content(d)
           R  == WithKey(C, u.rec.key)
<1>0. u.rec \in Record /\ u.verb \in {"write", "rewrite", "delete"}
  BY DEF Undoable
<1>1. (id = None => R = {}) /\ (id # None => R = {d.recs[id]})
  BY WithKeyIs
<1>2. id # None => id \in LiveIn(d) /\ d.recs[id].key = u.rec.key
  BY FindIs
<1>3. CASE u.verb = "delete"
  <2>1. Undone(d, u) = Written(d, u.rec).db
    BY <1>3 DEF Undone
  <2>2. BackTo(C, u) = IF Store!Clashes(u.rec, C) THEN C ELSE C \cup {u.rec}
    BY <1>3 DEF BackTo
  <2>3. Store!Clashes(u.rec, C) => Written(d, u.rec).db = d
    BY <1>0, WrittenContent
  <2>4. ~Store!Clashes(u.rec, C) => Content(Written(d, u.rec).db) = C \cup {u.rec}
    BY <1>0, WrittenContent
  <2> QED
    BY <2>1, <2>2, <2>3, <2>4
<1>4. CASE u.verb = "write"
  <2>1. Undone(d, u) = IF id = None THEN d ELSE Deleted(d, id).db
    BY <1>4 DEF Undone
  <2>2. BackTo(C, u) = C \ R
    BY <1>4 DEF BackTo
  <2> HIDE DEF id, R
  <2>3. id # None => Content(Deleted(d, id).db) = C \ {d.recs[id]}
    BY <1>2, DeletedContent
  <2>4. CASE id = None
    <3>1. C \ R = C
      BY <1>1, <2>4
    <3> QED
      BY <2>1, <2>2, <2>4, <3>1
  <2>5. CASE id # None
    BY <1>1, <2>1, <2>2, <2>3, <2>5
  <2> QED
    BY <2>4, <2>5
<1>5. CASE u.verb = "rewrite"
  <2>1. Undone(d, u) = IF id = None THEN d ELSE Rewritten(d, id, u.rec).db
    BY <1>5 DEF Undone
  <2>2. BackTo(C, u) = IF R = {} \/ Store!Clashes(u.rec, C \ R) THEN C ELSE (C \ R) \cup {u.rec}
    BY <1>5 DEF BackTo
  <2> HIDE DEF id, R
  <2>3. CASE id = None
    BY <1>1, <2>1, <2>2, <2>3
  <2>4. CASE id # None
    <3>1. C \ R = C \ {d.recs[id]} /\ R # {}
      BY <1>1, <2>4
    <3>2. Undone(d, u) = Rewritten(d, id, u.rec).db
      BY <2>1, <2>4
    <3>3. CASE Store!Clashes(u.rec, C \ R)
      <4>1. Rewritten(d, id, u.rec) = [st |-> "22", db |-> d]
        BY <1>0, <1>2, <2>4, <3>1, <3>3, RewrittenContent
      <4> QED
        BY <2>2, <3>2, <3>3, <4>1
    <3>4. CASE ~Store!Clashes(u.rec, C \ R)
      <4>1. Content(Rewritten(d, id, u.rec).db) = (C \ {d.recs[id]}) \cup {u.rec}
        BY <1>0, <1>2, <2>4, <3>1, <3>4, RewrittenContent
      <4> QED
        BY <2>2, <3>1, <3>2, <3>4, <4>1
    <3> QED
      BY <3>3, <3>4
  <2> QED
    BY <2>3, <2>4
<1> QED
  BY <1>0, <1>3, <1>4, <1>5

(* The log leads from the records of the file back to those of the last    *)
(* COMMIT or OPEN.                                                         *)
Leads(c, log, from, to) ==
  /\ c[0] = to /\ c[Len(log)] = from
  /\ \A n \in 1 .. Len(log) : BackTo(c[n], log[n]) = c[n - 1]

LeadsBack(log, from, to) == \E c : Leads(c, log, from, to)

LEMMA EmptyLeads == \A C : LeadsBack(<<>>, C, C)
<1> TAKE C
<1> DEFINE c == [n \in {0} |-> C]
<1>1. Len(<<>>) = 0 /\ 1 .. 0 = {} /\ c[0] = C
  BY EmptySeq
<1> HIDE DEF c
<1>2. Leads(c, <<>>, C, C)
  BY <1>1 DEF Leads
<1> QED
  BY <1>2 DEF LeadsBack

LEMMA AppendLeads ==
  ASSUME NEW log \in Seq(Undoable), NEW u \in Undoable, NEW C, NEW D, NEW B,
         LeadsBack(log, C, B), BackTo(D, u) = C
  PROVE  LeadsBack(Append(log, u), D, B)
<1>0. PICK c : Leads(c, log, C, B)
  BY DEF LeadsBack
<1> DEFINE N == Len(log)
           w == Append(log, u)
           e == [n \in 0 .. N + 1 |-> IF n = N + 1 THEN D ELSE c[n]]
<1>1. N \in Nat
  BY LenProperties
<1>2. Len(w) = N + 1 /\ w[N + 1] = u /\ \A n \in 1 .. N : w[n] = log[n]
  BY AppendProperties
<1>3. e[N + 1] = D /\ \A n \in 0 .. N : e[n] = c[n]
  BY <1>1
<1>4. c[0] = B /\ c[N] = C /\ \A n \in 1 .. N : BackTo(c[n], log[n]) = c[n - 1]
  BY <1>0 DEF Leads
<1> HIDE DEF e, N, w
<1>5. ASSUME NEW n \in 1 .. N + 1 PROVE BackTo(e[n], w[n]) = e[n - 1]
  <2>1. CASE n = N + 1
    <3>1. n - 1 = N /\ N \in 0 .. N
      BY <1>1, <2>1
    <3> QED
      BY <1>2, <1>3, <1>4, <2>1, <3>1
  <2>2. CASE n # N + 1
    <3>1. n \in 1 .. N /\ n \in 0 .. N /\ n - 1 \in 0 .. N
      BY <1>1, <2>2
    <3> QED
      BY <1>2, <1>3, <1>4, <3>1
  <2> QED
    BY <2>1, <2>2
<1>6. Leads(e, w, D, B)
  <2>1. 0 \in 0 .. N
    BY <1>1
  <2> QED
    BY <1>2, <1>3, <1>4, <1>5, <2>1 DEF Leads
<1> QED
  BY <1>6 DEF LeadsBack, w

LEMMA ReplayedContent ==
  ASSUME NEW d, Good(d), NEW log \in Seq(Undoable), NEW B, LeadsBack(log, Content(d), B)
  PROVE  Content(Replayed(d, log)) = B
<1>0. PICK c : Leads(c, log, Content(d), B)
  BY DEF LeadsBack
<1>1. PICK g : Replays(g, d, log)
  BY ReplayIs
<1> DEFINE N == Len(log)
           D == {p \in {<<n, g[n]>> : n \in 0 .. N} : Content(p[2]) = c[N - p[1]]}
           h == [n \in 0 .. N |-> <<n, g[n]>>]
<1>2. N \in Nat /\ \A n \in 1 .. N : log[n] \in Undoable
  BY LenProperties, ElementOfSeq
<1>3. \A n \in 0 .. N : h[n] \in D <=> Content(g[n]) = c[N - n]
  OBVIOUS
<1>4. h[0] \in D
  <2>1. g[0] = d /\ c[N] = Content(d) /\ N - 0 = N /\ 0 \in 0 .. N
    BY <1>0, <1>1, <1>2 DEF Replays, Leads
  <2> HIDE DEF D, h
  <2> QED
    BY <1>3, <2>1
<1>5. ASSUME NEW n \in 1 .. N, h[n - 1] \in D PROVE h[n] \in D
  <2>1. n - 1 \in 0 .. N /\ n \in 0 .. N /\ N + 1 - n \in 1 .. N /\ N - (n - 1) = N + 1 - n /\ (N + 1 - n) - 1 = N - n
    BY <1>2
  <2>2. Content(g[n - 1]) = c[N + 1 - n]
    <3> HIDE DEF D, h
    <3>1. Content(g[n - 1]) = c[N - (n - 1)]
      BY <1>3, <1>5, <2>1
    <3> QED
      BY <2>1, <3>1
  <2>3. Good(g[n - 1]) /\ g[n] = Undone(g[n - 1], log[N + 1 - n])
    BY <1>1, <2>1 DEF Replays
  <2>4. Content(g[n]) = BackTo(c[N + 1 - n], log[N + 1 - n])
    BY <1>2, <2>1, <2>2, <2>3, UndoneContent
  <2>5. BackTo(c[N + 1 - n], log[N + 1 - n]) = c[(N + 1 - n) - 1]
    BY <1>0, <2>1 DEF Leads
  <2> HIDE DEF D, h
  <2> QED
    BY <1>3, <2>1, <2>4, <2>5
<1>6. h[N] \in D
  <2> HIDE DEF D, h
  <2>1. \A n \in 0 .. N : h[n] \in D
    BY <1>2, <1>4, <1>5, StepByStep
  <2> QED
    BY <1>2, <2>1
<1>7. Content(g[N]) = c[N - N] /\ N - N = 0
  BY <1>2, <1>3, <1>6
<1> QED
  BY <1>0, <1>1, <1>7 DEF Replays, Leads

-----------------------------------------------------------------------------
(* The steps of the promise, one lemma for each verb.                      *)

Just == IF established /\ scan.current # 0 THEN db.recs[scan.current] ELSE None

LEMMA Answered ==
  ASSUME NEW verb, NEW arg, NEW st, NEW r, Store!Says(verb, arg, st, r), Just' = r
  PROVE  Store!Answer(verb, arg, st, r)
BY DEF Store!Answer, Just

LEMMA Silent ==
  ASSUME NEW verb, NEW arg, NEW st, Store!Says(verb, arg, st, None), established' = FALSE
  PROVE  Store!Answer(verb, arg, st, None)
BY Answered DEF Just

LEMMA AnswersWrite ==
  ASSUME NEW r \in Record, Store!Write(r) \/ Store!Refuse("write", r)
  PROVE  Store!Next
<1>1. reply'.verb = "write"
  BY DEF Store!Write, Store!Refuse, Store!Answer, Store!Says, Store!Said
<1>2. Store!Answers("write")
  BY DEF Store!Answers
<1> QED
  BY <1>1, <1>2 DEF Store!Next

LEMMA AnswersRewrite ==
  ASSUME NEW r \in Record, \/ \E old \in Content(db) : Store!Rewrite(old, r)
                           \/ Store!Missing("rewrite", r, r.key) \/ Store!Refuse("rewrite", r)
  PROVE  Store!Next
<1>1. reply'.verb = "rewrite"
  <2>1. \A old : Store!Rewrite(old, r) => reply'.verb = "rewrite"
    BY DEF Store!Rewrite, Store!Answer, Store!Says, Store!Said
  <2>2. Store!Missing("rewrite", r, r.key) \/ Store!Refuse("rewrite", r) => reply'.verb = "rewrite"
    BY DEF Store!Missing, Store!Refuse, Store!Answer, Store!Says, Store!Said
  <2> QED
    BY <2>1, <2>2
<1>2. Store!Answers("rewrite")
  BY DEF Store!Answers
<1> QED
  BY <1>1, <1>2 DEF Store!Next

LEMMA AnswersDelete ==
  ASSUME \/ \E key \in Store!Keys : \/ \E r \in Content(db) : r.key = key /\ Store!Delete(r, key)
                                    \/ Store!Missing("delete", key, key) \/ Store!Refuse("delete", key)
         \/ Just # None /\ Store!Delete(Just, None)
         \/ Store!Refuse("delete", None)
  PROVE  Store!Next
<1>1. reply'.verb = "delete"
  BY DEF Store!Delete, Store!Missing, Store!Refuse, Store!Answer, Store!Says, Store!Said
<1>2. Store!Answers("delete")
  BY DEF Store!Answers, Just
<1> QED
  BY <1>1, <1>2 DEF Store!Next

LEMMA AnswersRead ==
  ASSUME NEW a \in Store!Addresses, Store!Read(a[1], a[2])
  PROVE  Store!Next
<1>1. reply'.verb = "read"
  BY DEF Store!Read, Store!Answer, Store!Says, Store!Said
<1>2. Store!Answers("read")
  BY DEF Store!Answers
<1> QED
  BY <1>1, <1>2 DEF Store!Next

LEMMA AnswersScan ==
  ASSUME NEW dir \in {"next", "previous"}, Store!Scan(dir) \/ Store!Refuse(dir, None)
  PROVE  Store!Next
<1>1. reply'.verb = dir
  BY DEF Store!Scan, Store!Refuse, Store!Answer, Store!Says, Store!Said
<1>2. Store!Answers(dir)
  BY DEF Store!Answers
<1> QED
  BY <1>1, <1>2 DEF Store!Next

LEMMA AnswersStart ==
  ASSUME NEW a \in Store!Addresses, NEW op \in Store!Relations, Store!Start(op, a[1], a[2])
  PROVE  Store!Next
<1>1. reply'.verb = "start"
  BY DEF Store!Start, Store!Answer, Store!Says, Store!Said
<1>2. Store!Answers("start")
  BY DEF Store!Answers
<1> QED
  BY <1>1, <1>2 DEF Store!Next

LEMMA AnswersOthers ==
  ASSUME Store!Commit \/ Store!Rollback \/ Store!Close \/ Store!Open
  PROVE  Store!Next
<1>1. CASE Store!Commit
  <2>1. reply'.verb = "commit" /\ Store!Answers("commit")
    BY <1>1 DEF Store!Answers, Store!Commit, Store!Says, Store!Said
  <2> QED
    BY <2>1 DEF Store!Next
<1>2. CASE Store!Rollback
  <2>1. reply'.verb = "rollback" /\ Store!Answers("rollback")
    BY <1>2 DEF Store!Answers, Store!Rollback, Store!Answer, Store!Says, Store!Said
  <2> QED
    BY <2>1 DEF Store!Next
<1>3. CASE Store!Close
  <2>1. reply'.verb = "close" /\ Store!Answers("close")
    BY <1>3 DEF Store!Answers, Store!Close, Store!Answer, Store!Says, Store!Said
  <2> QED
    BY <2>1 DEF Store!Next
<1>4. CASE Store!Open
  <2>1. reply'.verb = "open" /\ Store!Answers("open")
    BY <1>4 DEF Store!Answers, Store!Open, Store!Answer, Store!Says, Store!Said
  <2> QED
    BY <2>1 DEF Store!Next
<1> QED
  BY <1>1, <1>2, <1>3, <1>4

(* What the log holds for each verb.                                       *)
LEMMA WriteUndone ==
  ASSUME NEW C, NEW r, ~Store!Clashes(r, C)
  PROVE  BackTo(C \cup {r}, [verb |-> "write", rec |-> r]) = C
<1> DEFINE u == [verb |-> "write", rec |-> r]
<1>1. \A s \in C : s.key # r.key /\ s # r
  BY SameClash DEF Store!Clashes, Store!Clash
<1>2. u.verb = "write" /\ u.rec = r
  OBVIOUS
<1>3. BackTo(C \cup {r}, u) = (C \cup {r}) \ WithKey(C \cup {r}, r.key)
  BY <1>2 DEF BackTo
<1>4. WithKey(C \cup {r}, r.key) = {r}
  BY <1>1 DEF WithKey
<1>5. (C \cup {r}) \ {r} = C
  BY <1>1
<1> HIDE DEF u
<1> QED
  BY <1>3, <1>4, <1>5 DEF u

LEMMA DeleteUndone ==
  ASSUME NEW C, Apart(C), NEW old \in C
  PROVE  BackTo(C \ {old}, [verb |-> "delete", rec |-> old]) = C
<1> DEFINE u == [verb |-> "delete", rec |-> old]
<1>1. ~Store!Clashes(old, C \ {old})
  BY DEF Apart, Store!Clashes
<1>2. u.verb = "delete" /\ u.rec = old
  OBVIOUS
<1>3. BackTo(C \ {old}, u) = IF Store!Clashes(old, C \ {old}) THEN C \ {old} ELSE (C \ {old}) \cup {old}
  BY <1>2 DEF BackTo
<1>4. (C \ {old}) \cup {old} = C
  OBVIOUS
<1> HIDE DEF u
<1> QED
  BY <1>1, <1>3, <1>4 DEF u

LEMMA RewriteUndone ==
  ASSUME NEW C, Apart(C), NEW old \in C, NEW r, old.key = r.key
  PROVE  BackTo((C \ {old}) \cup {r}, [verb |-> "rewrite", rec |-> old]) = C
<1> DEFINE u == [verb |-> "rewrite", rec |-> old]
           D == (C \ {old}) \cup {r}
<1>1. ~Store!Clashes(old, C \ {old})
  BY DEF Apart, Store!Clashes
<1>2. u.verb = "rewrite" /\ u.rec = old
  OBVIOUS
<1>3. \A s \in C \ {old} : s.key # r.key
  BY KeyOnce
<1>4. WithKey(D, old.key) = {r}
  BY <1>3 DEF WithKey
<1>5. D \ {r} = C \ {old}
  BY <1>3
<1>6. (C \ {old}) \cup {old} = C
  OBVIOUS
<1>7. BackTo(D, u) = IF WithKey(D, old.key) = {} \/ Store!Clashes(old, D \ WithKey(D, old.key)) THEN D
                     ELSE (D \ WithKey(D, old.key)) \cup {old}
  BY <1>2 DEF BackTo
<1> HIDE DEF u, D
<1>8. WithKey(D, old.key) # {} /\ D \ WithKey(D, old.key) = C \ {old}
  BY <1>4, <1>5
<1>9. BackTo(D, u) = C
  BY <1>1, <1>6, <1>7, <1>8
<1> QED
  BY <1>9 DEF D, u

-----------------------------------------------------------------------------
(* Each step of the file is a step of the promise.  A file that is closed  *)
(* has nothing to roll back; the log of one that is open leads back to the *)
(* last COMMIT or OPEN.                                                    *)

Back == IF open = "closed" THEN base = Content(db) ELSE LeadsBack(undo, Content(db), base)

LEMMA BackKept ==
  ASSUME Back, UNCHANGED <<db, undo, open, base>>
  PROVE  Back' /\ UNCHANGED <<Content(db), base>>
<1>1. Content(db)' = Content(db)
  BY DEF Content, LiveIn
<1> QED
  BY <1>1 DEF Back, LeadsBack, Leads

LEMMA FailedStep ==
  ASSUME Back, NEW verb, NEW arg, NEW st, Failed(verb, arg, st)
  PROVE  Store!Answer(verb, arg, st, None) /\ Back' /\ UNCHANGED <<Content(db), base>>
<1>0. Store!Says(verb, arg, st, None) /\ established' = FALSE
  BY DEF Failed
<1>1. Store!Answer(verb, arg, st, None)
  BY <1>0, Silent
<1>2. UNCHANGED <<db, undo, open, base>>
  BY DEF Failed, ghosts
<1> QED
  BY <1>1, <1>2, BackKept

LEMMA ExecutedStep ==
  ASSUME Inv, Back, open = "io", NEW verb, NEW arg, NEW a, NEW u \in Undoable, Executed(verb, arg, a, u),
         a.st = "00" => BackTo(Content(a.db), u) = Content(db),
         a.st # "00" => a.db = db
  PROVE  /\ Store!Answer(verb, arg, a.st, None) /\ Back'
         /\ Content(db)' = Content(a.db) /\ UNCHANGED base
<1>1. Store!Answer(verb, arg, a.st, None)
  BY Silent DEF Executed
<1>2. /\ db' = a.db /\ open' = open /\ base' = base
      /\ undo' = IF a.st = "00" THEN Append(undo, u) ELSE undo
  BY DEF Executed, Changes
<1>3. Content(db)' = Content(a.db)
  BY <1>2 DEF Content, LiveIn
<1>4. LeadsBack(undo, Content(db), base) /\ undo \in Seq(Undoable)
  BY DEF Back, Inv, Kinds
<1>5. LeadsBack(undo', Content(a.db), base)
  BY <1>2, <1>4, AppendLeads
<1>6. Back'
  BY <1>2, <1>3, <1>5 DEF Back
<1> QED
  BY <1>1, <1>2, <1>3, <1>6

LEMMA WriteStep ==
  ASSUME Inv, Back, NEW r \in Record, Write(r)
  PROVE  Store!Next /\ Back'
<1> DEFINE a == Written(db, r)
           u == [verb |-> "write", rec |-> r]
           C == Content(db)
<1>1. Good(db) /\ open = "io" /\ Executed("write", r, a, u) /\ u \in Undoable
  BY DEF Inv, Write, Undoable
<1>2. CASE Store!Clashes(r, C)
  <2>1. a = [st |-> "22", db |-> db]
    BY <1>1, <1>2, WrittenContent
  <2>2. a.st = "22" /\ a.db = db
    BY <2>1
  <2> HIDE DEF a, u
  <2>3. Store!Answer("write", r, "22", None) /\ Back' /\ UNCHANGED <<Content(db), base>>
    BY <1>1, <2>2, ExecutedStep
  <2>4. Store!Write(r)
    BY <1>2, <2>3 DEF Store!Write
  <2> QED
    BY <2>3, <2>4, AnswersWrite
<1>3. CASE ~Store!Clashes(r, C)
  <2>1. a.st = "00" /\ Content(a.db) = C \cup {r}
    BY <1>1, <1>3, WrittenContent
  <2>2. BackTo(C \cup {r}, u) = C
    BY <1>3, WriteUndone
  <2> HIDE DEF a, u
  <2>3. Store!Answer("write", r, "00", None) /\ Back' /\ Content(db)' = C \cup {r} /\ UNCHANGED base
    BY <1>1, <2>1, <2>2, ExecutedStep
  <2>4. Store!Write(r)
    BY <1>3, <2>3 DEF Store!Write
  <2> QED
    BY <2>3, <2>4, AnswersWrite
<1> QED
  BY <1>2, <1>3

LEMMA RewriteOfStep ==
  ASSUME Inv, Back, open = "io", NEW id \in LiveIn(db), NEW r \in Record, RewriteOf(id, r)
  PROVE  Store!Next /\ Back'
<1> DEFINE old == db.recs[id]
           C == Content(db)
<1>1. Good(db) /\ old \in C /\ old \in Record
  BY ContentIs DEF Inv
<1>2. CASE old.key # r.key
  <2>1. Failed("rewrite", r, "21")
    BY <1>2 DEF RewriteOf
  <2>2. Store!Refuse("rewrite", r) /\ Back'
    BY <2>1, FailedStep DEF Store!Refuse
  <2> QED
    BY <2>2, AnswersRewrite
<1>3. CASE old.key = r.key
  <2> DEFINE a == Rewritten(db, id, r)
             u == [verb |-> "rewrite", rec |-> old]
             rest == C \ {old}
  <2>1. Executed("rewrite", r, a, u) /\ u \in Undoable
    BY <1>1, <1>3 DEF RewriteOf, Undoable
  <2>2. CASE Store!Clashes(r, rest)
    <3>1. a = [st |-> "22", db |-> db]
      BY <1>1, <1>3, <2>2, RewrittenContent
    <3>2. a.st = "22" /\ a.db = db
      BY <3>1
    <3> HIDE DEF a, u
    <3>3. Store!Answer("rewrite", r, "22", None) /\ Back' /\ UNCHANGED <<Content(db), base>>
      BY <2>1, <3>2, ExecutedStep
    <3>4. Store!Rewrite(old, r)
      BY <1>1, <1>3, <2>2, <3>3 DEF Store!Rewrite
    <3> QED
      BY <1>1, <3>3, <3>4, AnswersRewrite
  <2>3. CASE ~Store!Clashes(r, rest)
    <3>1. a.st = "00" /\ Content(a.db) = rest \cup {r}
      BY <1>1, <1>3, <2>3, RewrittenContent
    <3>2. BackTo(rest \cup {r}, u) = C
      BY <1>1, <1>3, ContentApart, RewriteUndone
    <3> HIDE DEF a, u
    <3>3. Store!Answer("rewrite", r, "00", None) /\ Back' /\ Content(db)' = rest \cup {r} /\ UNCHANGED base
      BY <2>1, <3>1, <3>2, ExecutedStep
    <3>4. Store!Rewrite(old, r)
      BY <1>1, <1>3, <2>3, <3>3 DEF Store!Rewrite
    <3> QED
      BY <1>1, <3>3, <3>4, AnswersRewrite
  <2> QED
    BY <2>2, <2>3
<1> QED
  BY <1>2, <1>3

LEMMA RewriteStep ==
  ASSUME Inv, Back, NEW r \in Record, Rewrite(r)
  PROVE  Store!Next /\ Back'
<1> DEFINE id == IF access = "dynamic" THEN Find(db, r.key) ELSE scan.current
<1>1. Good(db) /\ ScanOK(db, scan) /\ open = "io"
  BY DEF Inv, Rewrite
<1>2. id # None /\ id # 0 => id \in LiveIn(db)
  BY <1>1, FindIs DEF ScanOK
<1>3. CASE Failed("rewrite", r, "43") \/ Failed("rewrite", r, "46")
  <2>1. Store!Refuse("rewrite", r) /\ Back'
    BY <1>3, FailedStep DEF Store!Refuse
  <2> QED
    BY <2>1, AnswersRewrite
<1>4. CASE id = None /\ Failed("rewrite", r, "23")
  <2>1. scan.current # None
    <3>1. scan.current = 0 \/ scan.current \in Nat
      BY <1>1, ContentIs DEF ScanOK
    <3> QED
      BY <3>1, NoneAssumption
  <2>2. \A s \in Content(db) : s.key # r.key
    BY <1>1, <1>4, <2>1, FindFinds
  <2>3. Store!Missing("rewrite", r, r.key) /\ Back'
    BY <1>4, <2>2, FailedStep DEF Store!Missing
  <2> QED
    BY <2>3, AnswersRewrite
<1>5. CASE id # None /\ id # 0 /\ RewriteOf(id, r)
  <2> HIDE DEF id
  <2> QED
    BY <1>1, <1>2, <1>5, RewriteOfStep
<1> QED
  BY <1>3, <1>4, <1>5 DEF Rewrite

LEMMA DeleteOfStep ==
  ASSUME Inv, Back, open = "io", NEW id \in LiveIn(db), NEW arg, DeleteOf(id, arg)
  PROVE  Store!Delete(db.recs[id], arg) /\ Back'
<1> DEFINE old == db.recs[id]
           C == Content(db)
           a == Deleted(db, id)
           u == [verb |-> "delete", rec |-> old]
<1>1. Good(db) /\ old \in C /\ old \in Record
  BY ContentIs DEF Inv
<1>2. Executed("delete", arg, a, u) /\ u \in Undoable
  BY <1>1 DEF DeleteOf, Undoable
<1>3. a.st = "00" /\ Content(a.db) = C \ {old}
  BY <1>1, DeletedIs, DeletedContent
<1>4. BackTo(C \ {old}, u) = C
  BY <1>1, ContentApart, DeleteUndone
<1> HIDE DEF a, u
<1>5. Store!Answer("delete", arg, "00", None) /\ Back' /\ Content(db)' = C \ {old} /\ UNCHANGED base
  BY <1>2, <1>3, <1>4, ExecutedStep
<1> QED
  BY <1>1, <1>5 DEF Store!Delete

LEMMA DeleteStep ==
  ASSUME Inv, Back, NEW key \in Store!Keys \cup {None}, Delete(key)
  PROVE  Store!Next /\ Back'
<1>1. Good(db) /\ ScanOK(db, scan) /\ open = "io"
  BY DEF Inv, Delete
<1>2. CASE Failed("delete", None, "43") \/ Failed("delete", None, "46")
  <2>1. Store!Refuse("delete", None) /\ Back'
    BY <1>2, FailedStep DEF Store!Refuse
  <2> QED
    BY <2>1, AnswersDelete
<1>3. CASE established /\ scan.current # 0 /\ DeleteOf(scan.current, None)
  <2>1. scan.current \in LiveIn(db)
    BY <1>1, <1>3 DEF ScanOK
  <2>2. Just = db.recs[scan.current] /\ Just # None
    BY <1>1, <1>3, <2>1, ContentIs, NoneAssumption DEF Just
  <2>3. Store!Delete(Just, None) /\ Back'
    <3>1. Store!Delete(db.recs[scan.current], None) /\ Back'
      BY <1>1, <1>3, <2>1, DeleteOfStep
    <3> QED
      BY <2>2, <3>1
  <2> QED
    BY <2>2, <2>3, AnswersDelete
<1>4. CASE key # None /\ Find(db, key) = None /\ Failed("delete", key, "23")
  <2>1. \A r \in Content(db) : r.key # key
    BY <1>1, <1>4, FindFinds
  <2>2. Store!Missing("delete", key, key) /\ Back'
    BY <1>4, <2>1, FailedStep DEF Store!Missing
  <2>3. key \in Store!Keys
    BY <1>4
  <2> QED
    BY <2>2, <2>3, AnswersDelete
<1>5. CASE key # None /\ Find(db, key) # None /\ DeleteOf(Find(db, key), key)
  <2>1. Find(db, key) \in LiveIn(db) /\ db.recs[Find(db, key)].key = key
    BY <1>1, <1>5, FindIs
  <2>2. db.recs[Find(db, key)] \in Content(db)
    BY <1>1, <2>1, ContentIs
  <2>3. Store!Delete(db.recs[Find(db, key)], key) /\ Back'
    BY <1>1, <1>5, <2>1, DeleteOfStep
  <2>4. key \in Store!Keys
    BY <1>5
  <2> QED
    BY <2>1, <2>2, <2>3, <2>4, AnswersDelete
<1> QED
  BY <1>2, <1>3, <1>4, <1>5 DEF Delete

(* A record an index delivers is one of the file, under its value.         *)
LEMMA SlotRecord ==
  ASSUME Inv, NEW k \in KeyNo, NEW p \in Slots(Tree(k))
  PROVE  LET n == EntryAt(Tree(k), p).id
         IN /\ n \in LiveIn(db) /\ n # 0 /\ db.recs[n] \in Content(db)
            /\ Value(db.recs[n], k) = KeyAt(Tree(k), p)[1]
<1> DEFINE x == EntryAt(Tree(k), p)
<1>1. TreeOK(Tree(k)) /\ Describe(EntriesOf(Tree(k)), db.recs, NextSeq(db), k) /\ Good(db)
  BY TreeIs DEF Inv
<1>2. x \in EntriesOf(Tree(k)) /\ KeyAt(Tree(k), p) = x.key
  BY <1>1, SlotsAre
<1> HIDE DEF x
<1>3. x.id \in LiveIn(db) /\ x.key[1] = Value(db.recs[x.id], k)
  BY <1>1, <1>2 DEF Describe, LiveIn, Live
<1> QED
  BY <1>1, <1>2, <1>3, ContentIs DEF x

LEMMA RecordSlot ==
  ASSUME Inv, NEW k \in KeyNo, NEW r \in Content(db)
  PROVE  \E p \in Slots(Tree(k)) : KeyAt(Tree(k), p)[1] = Value(r, k)
<1>1. TreeOK(Tree(k)) /\ Describe(EntriesOf(Tree(k)), db.recs, NextSeq(db), k) /\ Good(db)
  BY TreeIs DEF Inv
<1>2. PICK n \in LiveIn(db) : r = db.recs[n]
  BY <1>1, ContentIs
<1>3. PICK x \in EntriesOf(Tree(k)) : x.id = n /\ x.key[1] = Value(db.recs[n], k)
  BY <1>1, <1>2 DEF Describe, LiveIn, Live
<1>4. PICK p \in Slots(Tree(k)) : EntryAt(Tree(k), p) = x
  BY <1>1, SlotsAre
<1>5. KeyAt(Tree(k), p) = x.key
  BY <1>1, <1>4, SlotsAre
<1> QED
  BY <1>2, <1>3, <1>4, <1>5

LEMMA FoundStep ==
  ASSUME Inv, Back, NEW verb, NEW arg, NEW k \in KeyNo, NEW t, t = Tree(k), NEW p \in Slots(t), NEW kor, NEW where,
         Found(verb, arg, t, p, kor, where), UNCHANGED <<db, undo, open, base>>
  PROVE  LET r == db.recs[EntryAt(t, p).id]
         IN /\ Store!Answer(verb, arg, "00", r) /\ r \in Content(db) /\ Value(r, k) = KeyAt(t, p)[1]
            /\ Back' /\ UNCHANGED <<Content(db), base>>
<1> DEFINE n == EntryAt(t, p).id
<1>1. n # 0 /\ db.recs[n] \in Content(db) /\ Value(db.recs[n], k) = KeyAt(t, p)[1]
  BY SlotRecord
<1>2. established' = TRUE /\ scan'.current = n /\ Store!Says(verb, arg, "00", db.recs[n])
  BY DEF Found
<1> HIDE DEF n
<1>3. Just' = db.recs[n]
  BY <1>1, <1>2 DEF Just
<1>4. Store!Answer(verb, arg, "00", db.recs[n])
  BY <1>2, <1>3, Answered
<1>5. Back' /\ UNCHANGED <<Content(db), base>>
  BY BackKept
<1> QED
  BY <1>1, <1>4, <1>5 DEF n

LEMMA FoundNone ==
  ASSUME NEW t, TreeOK(t), NEW S, S \subseteq Slots(t)
  PROVE  (FirstOf(S) = None <=> S = {}) /\ (LastOf(S) = None <=> S = {})
<1>1. S \subseteq Nat \X Nat
  BY SlotsBounded
<1>2. S # {} => FirstOf(S) \in S /\ LastOf(S) \in S
  BY <1>1, FirstIs, LastIs
<1>3. None \notin S
  BY <1>1, NoneAssumption
<1>4. S = {} => FirstOf(S) = None /\ LastOf(S) = None
  BY DEF FirstOf, LastOf
<1> QED
  BY <1>2, <1>3, <1>4

(* START and a keyed READ find a slot exactly when there is one.           *)
Fits(op, t, v) == {p \in Slots(t) : Store!Related(op, KeyAt(t, p)[1], v)}

LEMMA MatchedFits ==
  ASSUME NEW t, TreeOK(t), NEW op \in {"eq", "ge", "gt", "le", "lt"}, NEW v
  PROVE  /\ Matched(op, t, v) = None <=> Fits(op, t, v) = {}
         /\ Matched(op, t, v) # None => Matched(op, t, v) \in Fits(op, t, v)
<1> DEFINE S == Fits(op, t, v)
<1>1. Matched(op, t, v) = FirstOf(S) \/ Matched(op, t, v) = LastOf(S)
  <2>1. CASE op = "eq"
    <3>1. S = {p \in Slots(t) : KeyAt(t, p)[1] = v}
      BY <2>1 DEF Fits, Store!Related
    <3> QED
      BY <2>1, <3>1 DEF Matched
  <2>2. CASE op = "ge"
    <3>1. S = {p \in Slots(t) : KeyAt(t, p)[1] >= v}
      BY <2>2 DEF Fits, Store!Related
    <3> QED
      BY <2>2, <3>1 DEF Matched
  <2>3. CASE op = "gt"
    <3>1. S = {p \in Slots(t) : KeyAt(t, p)[1] > v}
      BY <2>3 DEF Fits, Store!Related
    <3> QED
      BY <2>3, <3>1 DEF Matched
  <2>4. CASE op = "le"
    <3>1. S = {p \in Slots(t) : KeyAt(t, p)[1] <= v}
      BY <2>4 DEF Fits, Store!Related
    <3> QED
      BY <2>4, <3>1 DEF Matched
  <2>5. CASE op = "lt"
    <3>1. S = {p \in Slots(t) : KeyAt(t, p)[1] < v}
      BY <2>5 DEF Fits, Store!Related
    <3> QED
      BY <2>5, <3>1 DEF Matched
  <2> QED
    BY <2>1, <2>2, <2>3, <2>4, <2>5
<1>2. S \subseteq Slots(t)
  BY DEF Fits
<1> HIDE DEF S
<1>3. (FirstOf(S) = None <=> S = {}) /\ (LastOf(S) = None <=> S = {})
  BY <1>2, FoundNone
<1>4. (FirstOf(S) # None => FirstOf(S) \in S) /\ (LastOf(S) # None => LastOf(S) \in S)
  BY <1>2, FoundInTree
<1> QED
  BY <1>1, <1>3, <1>4 DEF S

LEMMA FitsIs ==
  ASSUME Inv, NEW k \in KeyNo, NEW op, NEW v
  PROVE  Fits(op, Tree(k), v) # {} <=> \E r \in Content(db) : Store!Related(op, Value(r, k), v)
<1>1. ASSUME NEW p \in Fits(op, Tree(k), v)
      PROVE  \E r \in Content(db) : Store!Related(op, Value(r, k), v)
  <2>1. p \in Slots(Tree(k)) /\ Store!Related(op, KeyAt(Tree(k), p)[1], v)
    BY DEF Fits
  <2>2. PICK r \in Content(db) : Value(r, k) = KeyAt(Tree(k), p)[1]
    BY <2>1, SlotRecord
  <2> QED
    BY <2>1, <2>2
<1>2. ASSUME NEW r \in Content(db), Store!Related(op, Value(r, k), v)
      PROVE  Fits(op, Tree(k), v) # {}
  <2>1. PICK p \in Slots(Tree(k)) : KeyAt(Tree(k), p)[1] = Value(r, k)
    BY RecordSlot
  <2>2. p \in Fits(op, Tree(k), v)
    BY <1>2, <2>1 DEF Fits
  <2> QED
    BY <2>2
<1> QED
  BY <1>1, <1>2

LEMMA ReadKeyStep ==
  ASSUME Inv, Back, NEW a \in Sought, ReadKey(a[1], a[2])
  PROVE  Store!Next /\ Back'
<1> DEFINE k == a[1]
           v == a[2]
           t == Tree(k)
           p == Matched("eq", t, v)
<1>1. a \in Store!Addresses /\ k \in KeyNo
  BY LoadsAssumption DEF Store!Addresses, KeyNo
<1>2. TreeOK(t)
  BY <1>1, TreeIs
<1>3. UNCHANGED <<db, undo, open, base>>
  BY DEF ReadKey
<1>4. CASE p # None
  <2>1. Found("read", <<k, v>>, t, p, k, After(KeyAt(t, p)))
    BY <1>4 DEF ReadKey
  <2>2. p \in Slots(t) /\ KeyAt(t, p)[1] = v
    <3>1. p \in Fits("eq", t, v)
      BY <1>2, <1>4, MatchedFits
    <3> HIDE DEF p
    <3> QED
      BY <3>1 DEF Fits, Store!Related
  <2> DEFINE r == db.recs[EntryAt(t, p).id]
  <2>3. /\ Store!Answer("read", <<k, v>>, "00", r) /\ r \in Content(db) /\ Value(r, k) = v
        /\ Back' /\ UNCHANGED <<Content(db), base>>
    <3> DEFINE where == After(KeyAt(t, p))
    <3>1. Found("read", <<k, v>>, t, p, k, where)
      BY <2>1
    <3> HIDE DEF k, v, p, where
    <3> QED
      BY <1>1, <1>3, <2>2, <3>1, FoundStep
  <2> HIDE DEF r, k, v, p
  <2>4. Store!Read(k, v)
    BY <2>3 DEF Store!Read, Value
  <2> QED
    BY <1>1, <2>3, <2>4, AnswersRead DEF k, v
<1>5. CASE p = None
  <2>1. established' = FALSE /\ Store!Says("read", <<k, v>>, "23", None)
    BY <1>5 DEF ReadKey
  <2>2. Store!Answer("read", <<k, v>>, "23", None)
    BY <2>1, Silent
  <2>3. Back' /\ UNCHANGED <<Content(db), base>>
    BY <1>3, BackKept
  <2>4. \A r \in Content(db) : Value(r, k) # v
    <3>1. Fits("eq", t, v) = {}
      BY <1>2, <1>5, MatchedFits
    <3> HIDE DEF k, v
    <3>2. ~\E r \in Content(db) : Store!Related("eq", Value(r, k), v)
      BY <1>1, <3>1, FitsIs
    <3> QED
      BY <3>2 DEF Store!Related
  <2> HIDE DEF k, v, p
  <2>5. Store!Read(k, v)
    BY <2>2, <2>3, <2>4 DEF Store!Read, Value
  <2> QED
    BY <1>1, <2>3, <2>5, AnswersRead DEF k, v
<1> QED
  BY <1>4, <1>5

LEMMA ReadSeqStep ==
  ASSUME Inv, Back, NEW dir \in {"next", "previous"}, ReadSeq(dir)
  PROVE  Store!Next /\ Back'
<1> DEFINE t == SeqTree
           p == SeqSlot(dir)
           q == IF p = None THEN None ELSE Deliver(t, p, dir)
           where == IF reached.is = "nowhere" THEN Nowhere ELSE After(KeyAt(t, q))
<1>1. PICK k \in KeyNo : t = Tree(k)
  BY TreeOfScan
<1>2. TreeOK(t)
  BY <1>1, TreeIs
<1>3. UNCHANGED <<db, undo, open, base>>
  BY DEF ReadSeq
<1>4. CASE q # None
  <2>1. q \in Slots(t)
    <3> DEFINE alive == {s \in Slots(t) : EntryAt(t, s).id \in LiveIn(db)}
               A == {s \in alive : ~Less(s, p)}
               B == {s \in alive : ~Less(p, s)}
    <3>1. q = FirstOf(A) \/ q = LastOf(B)
      BY <1>4 DEF Deliver
    <3>2. A \subseteq Slots(t) /\ B \subseteq Slots(t)
      OBVIOUS
    <3> HIDE DEF A, B, q
    <3> QED
      BY <1>2, <1>4, <3>1, <3>2, FoundInTree
  <2>2. Found(dir, None, t, q, scan.kor, where)
    BY <1>4 DEF ReadSeq
  <2> DEFINE r == db.recs[EntryAt(t, q).id]
  <2>3. /\ Store!Answer(dir, None, "00", r) /\ r \in Content(db)
        /\ Back' /\ UNCHANGED <<Content(db), base>>
    <3> DEFINE kor == scan.kor
    <3>1. Found(dir, None, t, q, kor, where)
      BY <2>2
    <3> HIDE DEF t, q, where, kor
    <3> QED
      BY <1>1, <1>3, <2>1, <3>1, FoundStep
  <2> HIDE DEF r, t, q
  <2>4. Store!Scan(dir)
    BY <2>3 DEF Store!Scan
  <2> QED
    BY <2>3, <2>4, AnswersScan
<1>5. CASE q = None
  <2>1. established' = FALSE /\ Store!Says(dir, None, "10", None)
    BY <1>5 DEF ReadSeq
  <2>2. Store!Answer(dir, None, "10", None)
    BY <2>1, Silent
  <2>3. Back' /\ UNCHANGED <<Content(db), base>>
    BY <1>3, BackKept
  <2>4. Store!Scan(dir)
    BY <2>2, <2>3 DEF Store!Scan
  <2> QED
    BY <2>3, <2>4, AnswersScan
<1> QED
  BY <1>4, <1>5

LEMMA StartStep ==
  ASSUME Inv, Back, NEW s \in Starts, Start(s[1], s[2], s[3])
  PROVE  Store!Next /\ Back'
<1> DEFINE op == s[1]
           k == s[2]
           v == s[3]
           t == Tree(k)
           p == Matched(op, t, v)
           st == IF p # None THEN "00" ELSE "23"
<1>1. /\ k \in KeyNo /\ op \in Store!Relations /\ <<k, v>> \in Store!Addresses
      /\ op \in {"eq", "ge", "gt", "le", "lt"}
  BY StartsAre, LoadsAssumption DEF Store!Relations
<1>2. TreeOK(t)
  BY <1>1, TreeIs
<1>3. UNCHANGED <<db, undo, open, base>> /\ established' = FALSE /\ Store!Says("start", <<op, k, v>>, st, None)
  BY DEF Start
<1>4. (p # None) <=> \E r \in Content(db) : Store!Related(op, Value(r, k), v)
  <2>1. p = None <=> Fits(op, t, v) = {}
    BY <1>1, <1>2, MatchedFits
  <2> HIDE DEF k, v, op, p
  <2> QED
    BY <1>1, <2>1, FitsIs
<1>5. st \in {"00", "23"} /\ (st = "00" <=> p # None)
  OBVIOUS
<1> HIDE DEF op, k, v, p, st
<1>6. Store!Answer("start", <<op, k, v>>, st, None)
  BY <1>3, Silent
<1>7. Back' /\ UNCHANGED <<Content(db), base>>
  BY <1>3, BackKept
<1> DEFINE a == <<k, v>>
<1>8. Store!Start(op, k, v)
  BY <1>4, <1>5, <1>6, <1>7 DEF Store!Start, Value
<1>9. a \in Store!Addresses /\ a[1] = k /\ a[2] = v
  BY <1>1
<1> HIDE DEF a
<1> QED
  BY <1>1, <1>7, <1>8, <1>9, AnswersStart

LEMMA RollbackStep ==
  ASSUME Inv, Back, Rollback
  PROVE  Store!Next /\ Back'
<1>1. Good(db) /\ undo \in Seq(Undoable) /\ LeadsBack(undo, Content(db), base)
  BY DEF Inv, Kinds, Back, Rollback
<1>2. /\ db' = Replayed(db, undo) /\ undo' = <<>> /\ base' = base /\ open' = open
      /\ scan'.current = 0 /\ Store!Says("rollback", None, "00", None)
  BY DEF Rollback, AtStart
<1>3. Content(db)' = base
  <2>1. Content(db') = base
    BY <1>1, <1>2, ReplayedContent
  <2> QED
    BY <2>1 DEF Content, LiveIn
<1>4. Back'
  BY <1>2, <1>3, EmptyLeads DEF Back, Rollback
<1>5. Just' = None
  BY <1>2 DEF Just
<1>6. Store!Rollback
  BY <1>2, <1>3, <1>5, Answered DEF Store!Rollback
<1> QED
  BY <1>4, <1>6, AnswersOthers

LEMMA CommitStep ==
  ASSUME Inv, Back, Commit
  PROVE  Store!Next /\ Back'
<1>1. db' = db /\ undo' = <<>> /\ base' = Content(db) /\ open' = open /\ open # "closed"
  BY DEF Commit
<1>2. Content(db)' = Content(db)
  BY <1>1 DEF Content, LiveIn
<1>3. Back'
  BY <1>1, <1>2, EmptyLeads DEF Back
<1>4. Just' = Just
  BY <1>1 DEF Just, Commit, program
<1>5. Store!Commit
  BY <1>1, <1>2, <1>4 DEF Store!Commit, Commit, Just
<1> QED
  BY <1>3, <1>5, AnswersOthers

LEMMA CloseStep ==
  ASSUME Inv, Back, Close
  PROVE  Store!Next /\ Back'
<1>1. /\ db' = db /\ base' = Content(db) /\ open' = "closed" /\ established' = FALSE
      /\ Store!Says("close", None, "00", None)
  BY DEF Close
<1>2. Content(db)' = Content(db)
  BY <1>1 DEF Content, LiveIn
<1>3. Back'
  BY <1>1, <1>2 DEF Back
<1>4. Store!Close
  BY <1>1, <1>2, Silent DEF Store!Close
<1> QED
  BY <1>3, <1>4, AnswersOthers

LEMMA OpenStep ==
  ASSUME Inv, Back, Open
  PROVE  Store!Next /\ Back'
<1>1. /\ db' = db /\ base' = base /\ undo' = <<>> /\ open' \in {"input", "io"} /\ open = "closed"
      /\ established' = FALSE /\ Store!Says("open", None, "00", None)
  BY DEF Open
<1>2. Content(db)' = Content(db) /\ base = Content(db)
  BY <1>1 DEF Content, LiveIn, Back
<1>3. Back'
  BY <1>1, <1>2, EmptyLeads DEF Back
<1>4. Store!Open
  BY <1>1, <1>2, Silent DEF Store!Open
<1> QED
  BY <1>3, <1>4, AnswersOthers

LEMMA RefusedStep ==
  ASSUME Inv, Back, Refused
  PROVE  Store!Next /\ Back'
<1>1. UNCHANGED <<db, undo, open, base>> /\ established' = FALSE
  BY DEF Refused, ghosts
<1>2. Back' /\ UNCHANGED <<Content(db), base>>
  BY <1>1, BackKept
<1>3. CASE \E r \in Record :
             \/ Store!Says("write", r, "48", None)
             \/ Store!Says("rewrite", r, NotOpenIo, None)
             \/ Store!Says("delete", IF access = "sequential" THEN None ELSE r.key, NotOpenIo, None)
  <2>r. PICK r \in Record :
          \/ Store!Says("write", r, "48", None)
          \/ Store!Says("rewrite", r, NotOpenIo, None)
          \/ Store!Says("delete", IF access = "sequential" THEN None ELSE r.key, NotOpenIo, None)
    BY <1>3
  <2> DEFINE arg == IF access = "sequential" THEN None ELSE r.key
  <2>1. /\ arg = None \/ arg = r.key
        /\ \/ Store!Says("write", r, "48", None)
           \/ Store!Says("rewrite", r, NotOpenIo, None)
           \/ Store!Says("delete", arg, NotOpenIo, None)
    BY <2>r
  <2> HIDE DEF arg
  <2>n. NotOpenIo \in {"43", "49"}
    BY DEF NotOpenIo
  <2>2. CASE Store!Says("write", r, "48", None)
    <3>1. Store!Refuse("write", r)
      BY <1>1, <1>2, <2>2, Silent DEF Store!Refuse
    <3> QED
      BY <1>2, <3>1, AnswersWrite
  <2>3. CASE Store!Says("rewrite", r, NotOpenIo, None)
    <3>1. Store!Answer("rewrite", r, NotOpenIo, None)
      BY <1>1, <2>3, Silent
    <3>2. Store!Refuse("rewrite", r)
      BY <1>2, <2>n, <3>1 DEF Store!Refuse
    <3> QED
      BY <1>2, <3>2, AnswersRewrite
  <2>4. CASE Store!Says("delete", arg, NotOpenIo, None)
    <3>1. Store!Answer("delete", arg, NotOpenIo, None)
      BY <1>1, <2>4, Silent
    <3>2. Store!Refuse("delete", arg) /\ (arg = None \/ arg \in Store!Keys)
      BY <1>2, <2>1, <2>n, <3>1 DEF Store!Refuse, Store!Keys
    <3> QED
      BY <1>2, <3>2, AnswersDelete
  <2> QED
    BY <2>1, <2>2, <2>3, <2>4
<1>4. CASE \E dir \in {"next", "previous"} : Store!Says(dir, None, IF atEnd THEN "46" ELSE "47", None)
  <2>1. PICK dir \in {"next", "previous"} : Store!Says(dir, None, IF atEnd THEN "46" ELSE "47", None)
    BY <1>4
  <2> DEFINE st == IF atEnd THEN "46" ELSE "47"
  <2>2. Store!Says(dir, None, st, None) /\ st \in {"46", "47"}
    BY <2>1
  <2> HIDE DEF st
  <2>3. Store!Answer(dir, None, st, None)
    BY <1>1, <2>2, Silent
  <2>4. Store!Refuse(dir, None)
    BY <1>2, <2>2, <2>3 DEF Store!Refuse
  <2> QED
    BY <1>2, <2>4, AnswersScan
<1> QED
  BY <1>3, <1>4 DEF Refused

LEMMA StepIs ==
  ASSUME Inv, Back, [Next]_vars
  PROVE  [Store!Next]_(Store!vars) /\ Back'
<1>1. CASE Next
  <2>1. ASSUME NEW dir \in {"next", "previous"}, PastEnd(dir) PROVE Store!Next /\ Back'
    <3>1. Failed(dir, None, "46")
      BY <2>1 DEF PastEnd
    <3>2. Store!Refuse(dir, None) /\ Back'
      BY <3>1, FailedStep DEF Store!Refuse
    <3> QED
      BY <3>2, AnswersScan
  <2> QED
    BY <1>1, <2>1, OpenStep, CloseStep, RefusedStep, CommitStep, RollbackStep, WriteStep, RewriteStep,
       DeleteStep, ReadKeyStep, StartStep, ReadSeqStep DEF Next
<1>2. CASE UNCHANGED vars
  <2>1. UNCHANGED <<db, undo, open, base, scan, established, reply>>
    BY <1>2 DEF vars, program, ghosts
  <2>2. Back' /\ UNCHANGED <<Content(db), base>>
    BY <2>1, BackKept
  <2>3. Just' = Just
    BY <2>1 DEF Just
  <2> QED
    BY <2>1, <2>2, <2>3 DEF Store!vars, Just
<1> QED
  BY <1>1, <1>2

LEMMA StartsIs == Init => Store!Init /\ Back
<1> SUFFICES ASSUME Init PROVE Store!Init /\ Back
  OBVIOUS
<1>1. Good(db)
  BY InvInit DEF Inv
<1>2. Content(db) \in SUBSET Record /\ Apart(Content(db))
  BY <1>1, ContentIs, ContentApart
<1>3. base = Content(db) /\ open = "closed" /\ established = FALSE /\ reply = Store!Said("open", None, "00", None)
  BY DEF Init
<1>4. Back
  BY <1>3 DEF Back
<1>5. Store!Init
  BY <1>2, <1>3 DEF Store!Init, Apart
<1> QED
  BY <1>4, <1>5

(* The disk engine keeps the promise of the IndexedStore trait: a verb     *)
(* that answers 00 changes the records as it says and every other verb     *)
(* changes none; a value is refused exactly when another record has it; a  *)
(* keyed READ and START find a record exactly when there is one; and       *)
(* ROLLBACK leaves the records of the last COMMIT or OPEN, though it only  *)
(* replays inverse verbs and looks at the status of none (write_inner,     *)
(* rewrite_inner, delete_inner, read_key, start, rollback).                *)
THEOREM Implements == Spec => ImplementsKeyedStore
<1>1. Init => Inv
  BY InvInit
<1>2. Init => Store!Init /\ Back
  BY StartsIs
<1>3. Inv /\ [Next]_vars => Inv'
  BY InvNext
<1>4. Inv /\ Back /\ [Next]_vars => [Store!Next]_(Store!vars) /\ Back'
  BY StepIs
<1> QED
  BY <1>1, <1>2, <1>3, <1>4, PTL DEF Spec, ImplementsKeyedStore, Store!Spec

=============================================================================
