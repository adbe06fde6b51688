--------------------------- MODULE Packages_proofs ---------------------------
(***************************************************************************)
(* Proofs about PackageReader, for any files a card may hold, whatever     *)
(* their tables and records say: no accessor leaves the section it reads,  *)
(* what is open was checked, and the searches find what a walk finds.      *)
(* And about BookText, for any text, records and buffers: what is made of  *)
(* a package's bytes is made of all of them.                               *)
(*                                                                         *)
(* What a recursive function computes is proved by the least argument at   *)
(* which it would go wrong; that there is such a function, in the same way.*)
(***************************************************************************)
EXTENDS PackageReader, BookText, WellFoundedInduction, SequenceTheorems, FiniteSetTheorems, TLAPS

-----------------------------------------------------------------------------
(* Least and greatest numbers                                              *)

(* Among some natural numbers one is the least.                            *)
LEMMA LeastNumber ==
  ASSUME NEW S \in SUBSET Nat, S # {}
  PROVE  \E m \in S : \A k \in S : m <= k
<1>. DEFINE Below == OpToRel(<, Nat)
<1>1. IsWellFoundedOn(Below, Nat)
  BY NatLessThanWellFounded
<1>2. \A m, k \in Nat : m < k => <<m, k>> \in Below
  BY DEF OpToRel
<1>. HIDE DEF Below
<1>3. PICK m \in S : \A k \in S : ~ (<<k, m>> \in Below)
  BY <1>1, WFMin
<1>4. ASSUME NEW k \in S PROVE m <= k
  <2>1. ~ (k < m)
    BY <1>2, <1>3
  <2>. QED
    BY <2>1
<1>. QED
  BY <1>4

(* Induction: a set of numbers that holds 0, and with each number the      *)
(* next, holds them all.                                                   *)
LEMMA AllNumbers ==
  ASSUME NEW S, 0 \in S, \A k \in Nat : k \in S => k + 1 \in S
  PROVE  Nat \subseteq S
<1>. SUFFICES ASSUME Nat \ S # {} PROVE FALSE
  OBVIOUS
<1>1. PICK m \in Nat \ S : \A k \in Nat \ S : m <= k
  BY LeastNumber
<1>2. m # 0 /\ m - 1 \in Nat
  BY <1>1
<1>3. m - 1 \in S
  BY <1>1, <1>2
<1>4. (m - 1) + 1 = m
  BY <1>2
<1>. QED
  BY <1>1, <1>2, <1>3, <1>4

(* Below a bound one is the greatest.                                      *)
LEMMA GreatestNumber ==
  ASSUME NEW n \in Nat, NEW S \in SUBSET (0..n), S # {}
  PROVE  \E m \in S : \A k \in S : k <= m
<1>. DEFINE T == {j \in Nat : n - j \in S}
<1>1. \A k \in S : n - k \in T
  OBVIOUS
<1>2. PICK l \in T : \A j \in T : l <= j
  BY <1>1, LeastNumber
<1>3. n - l \in S
  BY <1>2
<1>4. ASSUME NEW k \in S PROVE k <= n - l
  <2>1. l <= n - k
    BY <1>1, <1>2
  <2>. QED
    BY <2>1, <1>2
<1>. QED
  BY <1>3, <1>4

-----------------------------------------------------------------------------
(* Halving                                                                 *)

(* What the search finds between two indices, given what it finds between  *)
(* those that are closer.                                                  *)
Halved(starts, word, S, between) ==
  LET low  == between[1]
      high == between[2]
      mid  == low + (high - low) \div 2
      rest == IF starts[mid] <= word THEN S[<<mid + 1, high>>] ELSE S[<<low, mid>>]
  IN IF low >= high THEN [at |-> low, probes |-> {}]
     ELSE [at |-> rest.at, probes |-> rest.probes \cup {mid}]

LEMMA HalvedEnds ==
  ASSUME NEW starts, NEW word, NEW S, NEW low \in Nat
  PROVE  Halved(starts, word, S, <<low, low>>) = [at |-> low, probes |-> {}]
BY DEF Halved

(* The middle is between, and what is left on either side is closer.       *)
LEMMA Middle ==
  ASSUME NEW low \in Nat, NEW high \in Nat, low < high
  PROVE  /\ low + (high - low) \div 2 \in low..(high - 1)
         /\ high - (low + (high - low) \div 2 + 1) < high - low
         /\ (low + (high - low) \div 2) - low < high - low
OBVIOUS

(* There is such a function: for indices at most k apart, for every k.     *)
LEMMA SearchExists ==
  ASSUME NEW n \in Nat, NEW starts, NEW word
  PROVE  \E S : S = [p \in (0..n) \X (0..n) |-> Halved(starts, word, S, p)]
<1>. DEFINE Near(k) == {p \in (0..n) \X (0..n) : p[2] - p[1] <= k}
            Solved == {k \in Nat : \E S : S = [p \in Near(k) |-> Halved(starts, word, S, p)]}
<1>1. 0 \in Solved
  <2>. DEFINE S == [p \in Near(0) |-> [at |-> p[1], probes |-> {}]]
  <2>1. \A p \in Near(0) : Halved(starts, word, S, p) = [at |-> p[1], probes |-> {}]
    BY DEF Halved
  <2>2. S = [p \in Near(0) |-> Halved(starts, word, S, p)]
    BY <2>1
  <2>. QED
    BY <2>2
<1>2. ASSUME NEW k \in Nat, k \in Solved
      PROVE  k + 1 \in Solved
  <2>1. PICK S : S = [p \in Near(k) |-> Halved(starts, word, S, p)]
    BY <1>2
  <2>. DEFINE T == [p \in Near(k + 1) |-> Halved(starts, word, S, p)]
  <2>2. \A p \in Near(k) : p \in Near(k + 1) /\ T[p] = S[p]
    BY <2>1
  <2>3. ASSUME NEW p \in Near(k + 1)
        PROVE  Halved(starts, word, T, p) = Halved(starts, word, S, p)
    <3>1. p[1] \in 0..n /\ p[2] \in 0..n /\ p[2] - p[1] <= k + 1
      OBVIOUS
    <3>2. CASE p[1] >= p[2]
      BY <3>2 DEF Halved
    <3>3. CASE p[1] < p[2]
      <4>. DEFINE mid == p[1] + (p[2] - p[1]) \div 2
      <4>1. mid \in p[1]..(p[2] - 1) /\ p[2] - (mid + 1) < p[2] - p[1] /\ mid - p[1] < p[2] - p[1]
        BY <3>1, <3>3, Middle
      <4>2. <<mid + 1, p[2]>> \in Near(k) /\ <<p[1], mid>> \in Near(k)
        BY <3>1, <4>1
      <4>3. T[<<mid + 1, p[2]>>] = S[<<mid + 1, p[2]>>] /\ T[<<p[1], mid>>] = S[<<p[1], mid>>]
        BY <2>2, <4>2
      <4>. QED
        BY <4>3 DEF Halved
    <3>. QED
      BY <3>1, <3>2, <3>3
  <2>4. T = [p \in Near(k + 1) |-> Halved(starts, word, T, p)]
    BY <2>3
  <2>5. \E U : U = [p \in Near(k + 1) |-> Halved(starts, word, U, p)]
    <3>. HIDE DEF T, Near
    <3>. QED
      BY <2>4
  <2>. HIDE DEF Near, T
  <2>. QED
    BY <2>5
<1>3. n \in Solved
  <2>. HIDE DEF Solved
  <2>. QED
    BY <1>1, <1>2, AllNumbers
<1>4. Near(n) = (0..n) \X (0..n)
  OBVIOUS
<1>. QED
  BY <1>3, <1>4

(* What is known of the records when the search has come to low and high.  *)
Known(n, starts, word, low, high) ==
  /\ \A i \in 0..(n - 1) : i < low => starts[i] <= word
  /\ \A i \in 0..(n - 1) : i >= high => ~ (starts[i] <= word)

(* The records are in order, as far as the word can tell.                  *)
InOrder(n, starts, word) ==
  \A i, j \in 0..(n - 1) : i <= j /\ starts[j] <= word => starts[i] <= word

(* The search ends between its bounds, probes only there, and in records   *)
(* that are in order ends at the first one past the word.                  *)
Searches(n, starts, word, low, high, found) ==
  /\ found.at \in low..high
  /\ found.probes \subseteq low..(high - 1)
  /\ InOrder(n, starts, word) /\ Known(n, starts, word, low, high)
       => Known(n, starts, word, found.at, found.at)

(* It does so on intervals of any length.                                  *)
LEMMA SearchWorks ==
  ASSUME NEW n \in Nat, NEW starts, NEW word, NEW S,
         S = [p \in (0..n) \X (0..n) |-> Halved(starts, word, S, p)],
         NEW low \in 0..n, NEW high \in low..n
  PROVE  Searches(n, starts, word, low, high, S[<<low, high>>])
<1>. DEFINE Right(k) == \A l \in 0..n, h \in 0..n :
                          l <= h /\ h - l <= k => Searches(n, starts, word, l, h, S[<<l, h>>])
            All == {k \in Nat : Right(k)}
<1>1. \A l, h \in 0..n : S[<<l, h>>] = Halved(starts, word, S, <<l, h>>)
  OBVIOUS
<1>2. ASSUME NEW l \in 0..n
      PROVE  Searches(n, starts, word, l, l, S[<<l, l>>])
  <2>1. S[<<l, l>>] = Halved(starts, word, S, <<l, l>>)
    BY <1>1
  <2>2. S[<<l, l>>] = [at |-> l, probes |-> {}]
    BY <2>1, HalvedEnds
  <2>. QED
    BY <2>2 DEF Searches
<1>3. 0 \in All
  <2>1. \A l, h \in 0..n : l <= h /\ h - l <= 0 => h = l
    OBVIOUS
  <2>. QED
    BY <1>2, <2>1
<1>4. ASSUME NEW k \in Nat, k \in All
      PROVE  k + 1 \in All
  <2>. SUFFICES ASSUME NEW l \in 0..n, NEW h \in 0..n, l <= h, h - l <= k + 1
                PROVE  Searches(n, starts, word, l, h, S[<<l, h>>])
    OBVIOUS
  <2>1. \A i, j \in 0..n : i <= j /\ j - i <= k => Searches(n, starts, word, i, j, S[<<i, j>>])
    BY <1>4
  <2>a. CASE l = h
    BY <1>2, <2>a
  <2>b. CASE l < h
    <3>0. PICK mid \in 0..n : mid = l + (h - l) \div 2
      BY <2>b, Middle
    <3>a. PICK next \in 0..n : next = mid + 1
      BY <2>b, <3>0, Middle
    <3>. DEFINE lower == S[<<l, mid>>]
                upper == S[<<next, h>>]
    <3>1. mid \in l..(h - 1) /\ mid \in 0..(n - 1) /\ next <= h
      BY <2>b, <3>0, <3>a, Middle
    <3>2. mid - l <= k /\ h - next <= k
      BY <2>b, <3>0, <3>a, Middle
    <3>3. S[<<l, h>>] = Halved(starts, word, S, <<l, h>>)
      BY <1>1
    <3>. DEFINE p    == <<l, h>>
                rest == IF starts[mid] <= word THEN upper ELSE lower
    <3>4. p[1] = l /\ p[2] = h /\ ~ (l >= h)
      BY <2>b
    <3>5. Halved(starts, word, S, p) = [at |-> rest.at, probes |-> rest.probes \cup {mid}]
      <4>. HIDE DEF p
      <4>. QED
        BY <3>0, <3>a, <3>4, Zenon DEF Halved
    <3>b. S[<<l, h>>] = [at |-> rest.at, probes |-> rest.probes \cup {mid}]
      BY <3>3, <3>5
    <3>6. Searches(n, starts, word, l, mid, lower)
      BY <2>1, <2>b, <3>1, <3>2
    <3>7. Searches(n, starts, word, next, h, upper)
      BY <2>1, <2>b, <3>1, <3>2
    <3>. HIDE DEF lower, upper
    <3>8. CASE starts[mid] <= word
      <4>1. InOrder(n, starts, word) /\ Known(n, starts, word, l, h)
              => Known(n, starts, word, next, h)
        BY <3>1, <3>a, <3>8 DEF InOrder, Known
      <4>. QED
        BY <3>1, <3>a, <3>b, <3>7, <3>8, <4>1 DEF Searches
    <3>9. CASE ~ (starts[mid] <= word)
      <4>1. InOrder(n, starts, word) /\ Known(n, starts, word, l, h)
              => Known(n, starts, word, l, mid)
        BY <3>1, <3>9 DEF InOrder, Known
      <4>. QED
        BY <3>1, <3>b, <3>6, <3>9, <4>1 DEF Searches
    <3>. QED
      BY <3>8, <3>9
  <2>. QED
    BY <2>a, <2>b
<1>5. n \in All
  <2>. HIDE DEF All
  <2>. QED
    BY <1>3, <1>4, AllNumbers
<1>. QED
  BY <1>5

(* The halving of both searches, for any number of records.                *)
LEMMA UpperBoundWorks ==
  ASSUME NEW n \in Nat, NEW starts, NEW word
  PROVE  Searches(n, starts, word, 0, n, UpperBound(n, starts, word))
<1>. DEFINE S == CHOOSE S : S = [p \in (0..n) \X (0..n) |-> Halved(starts, word, S, p)]
<1>1. S = [p \in (0..n) \X (0..n) |-> Halved(starts, word, S, p)]
  BY SearchExists
<1>2. UpperBound(n, starts, word) = S[<<0, n>>]
  BY DEF UpperBound, Halved, S
<1>. HIDE DEF S
<1>3. 0 \in 0..n /\ n \in 0..n
  OBVIOUS
<1>4. Searches(n, starts, word, 0, n, S[<<0, n>>])
  BY <1>1, <1>3, SearchWorks
<1>. QED
  BY <1>2, <1>4


-----------------------------------------------------------------------------
(* A package's sections and records                                        *)

LEMMA EntryTyped ==
  ASSUME NEW f, IsPackage(f), NEW id, Has(f, id)
  PROVE  /\ Entry(f, id) \in Sections(f)
         /\ Entry(f, id) \in SectionEntry
         /\ Entry(f, id).id = id
<1>1. Entry(f, id) \in Sections(f) /\ Entry(f, id).id = id
  BY DEF Entry, Has
<1>2. f.sections \in Seq(SectionEntry)
  BY DEF IsPackage
<1>3. \A e \in Sections(f) : e \in SectionEntry
  BY <1>2 DEF Sections
<1>. QED
  BY <1>1, <1>3

LEMMA RecTyped ==
  ASSUME NEW f, IsPackage(f), NEW id, NEW i \in Nat
  PROVE  Rec(f, id, i) \in Record
<1>1. Junk \in Record
  BY PackageAssumption DEF Junk, Record, Upto
<1>2. CASE id \in DOMAIN f.records /\ i < Len(f.records[id])
  <2>1. f.records[id] \in Seq(Record)
    BY <1>2 DEF IsPackage
  <2>2. i + 1 \in 1..Len(f.records[id])
    BY <1>2, <2>1
  <2>. QED
    BY <1>2, <2>1, <2>2 DEF Rec
<1>. QED
  BY <1>1, <1>2 DEF Rec

-----------------------------------------------------------------------------
(* The records of METADATA                                                 *)

(* Where record k starts, given where the ones before do.                  *)
StartAfter(f, S, k) ==
  IF k = 0 THEN 0 ELSE LET past == S[k - 1] + 1 + Rec(f, kMetadata, k - 1).n
                       IN past + (past % 2)

(* There is such a function, for any number of records.                    *)
LEMMA StartsExist ==
  ASSUME NEW f, NEW len \in Nat
  PROVE  \E S : S = [k \in 0..len |-> StartAfter(f, S, k)]
<1>. DEFINE Solved == {m \in Nat : \E S : S = [k \in 0..m |-> StartAfter(f, S, k)]}
<1>1. 0 \in Solved
  <2>. DEFINE S == [k \in 0..0 |-> 0]
  <2>1. \A k \in 0..0 : StartAfter(f, S, k) = 0
    BY DEF StartAfter
  <2>2. S = [k \in 0..0 |-> StartAfter(f, S, k)]
    BY <2>1
  <2>3. \E U : U = [k \in 0..0 |-> StartAfter(f, U, k)]
    <3>. HIDE DEF S
    <3>. QED
      BY <2>2
  <2>. QED
    BY <2>3
<1>2. ASSUME NEW m \in Nat, m \in Solved
      PROVE  m + 1 \in Solved
  <2>1. PICK S : S = [k \in 0..m |-> StartAfter(f, S, k)]
    BY <1>2
  <2>. DEFINE T == [k \in 0..(m + 1) |-> StartAfter(f, S, k)]
  <2>2. \A k \in 0..m : T[k] = S[k]
    BY <2>1
  <2>3. ASSUME NEW k \in 0..(m + 1)
        PROVE  StartAfter(f, T, k) = StartAfter(f, S, k)
    <3>1. k # 0 => k - 1 \in 0..m
      OBVIOUS
    <3>2. k # 0 => T[k - 1] = S[k - 1]
      BY <2>2, <3>1
    <3>. HIDE DEF T
    <3>. QED
      BY <3>2 DEF StartAfter
  <2>4. T = [k \in 0..(m + 1) |-> StartAfter(f, T, k)]
    BY <2>3
  <2>5. \E U : U = [k \in 0..(m + 1) |-> StartAfter(f, U, k)]
    <3>. HIDE DEF T
    <3>. QED
      BY <2>4
  <2>. QED
    BY <2>5
<1>. HIDE DEF Solved
<1>3. len \in Solved
  BY <1>1, <1>2, AllNumbers
<1>. QED
  BY <1>3 DEF Solved

(* Record k starts at k or later: every record has a head.                 *)
LEMMA StartsGrow ==
  ASSUME NEW f, IsPackage(f), Has(f, kMetadata)
  PROVE  \A k \in 0..Entry(f, kMetadata).len :
           MetadataAt(f)[k] \in Nat /\ MetadataAt(f)[k] >= k
<1>. DEFINE len == Entry(f, kMetadata).len
            S == CHOOSE S : S = [k \in 0..len |-> StartAfter(f, S, k)]
<1>0. len \in Nat
  BY EntryTyped, PackageAssumption DEF SectionEntry, Upto
<1>1. S = [k \in 0..len |-> StartAfter(f, S, k)]
  BY <1>0, StartsExist
<1>2. MetadataAt(f) = S
  BY DEF MetadataAt, StartAfter
<1>. HIDE DEF S, len
<1>. DEFINE Grown == {k \in Nat : k <= len => S[k] \in Nat /\ S[k] >= k}
<1>3. 0 \in Grown
  <2>1. S[0] = StartAfter(f, S, 0)
    BY <1>0, <1>1
  <2>. QED
    BY <2>1 DEF StartAfter
<1>4. ASSUME NEW k \in Nat, k \in Grown
      PROVE  k + 1 \in Grown
  <2>. SUFFICES ASSUME k + 1 <= len PROVE S[k + 1] \in Nat /\ S[k + 1] >= k + 1
    OBVIOUS
  <2>1. S[k] \in Nat /\ S[k] >= k
    BY <1>0, <1>4
  <2>2. S[k + 1] = StartAfter(f, S, k + 1)
    BY <1>0, <1>1
  <2>3. Rec(f, kMetadata, k).n \in Nat
    BY RecTyped, PackageAssumption DEF Record, Upto
  <2>. DEFINE past == S[k] + 1 + Rec(f, kMetadata, k).n
  <2>4. S[k + 1] = past + (past % 2)
    BY <2>2 DEF StartAfter
  <2>5. past \in Nat /\ past >= k + 1
    BY <2>1, <2>3
  <2>. HIDE DEF past
  <2>6. past % 2 \in Nat
    BY <2>5
  <2>. QED
    BY <2>4, <2>5, <2>6
<1>. HIDE DEF Grown
<1>5. Nat \subseteq Grown
  BY <1>3, <1>4, AllNumbers
<1>. QED
  BY <1>0, <1>2, <1>5 DEF Grown, len

(* What the walk finds from record k on, given what it finds from the next. *)
WalkFrom(f, at, len, S, k) ==
  IF at[k] + 1 > len THEN [n |-> k, sound |-> TRUE]
  ELSE IF ~WithinBounds(at[k] + 1, Rec(f, kMetadata, k).n, len) THEN [n |-> k, sound |-> FALSE]
  ELSE S[k + 1]

(* The walk ends, since no section has as many records as units.           *)
LEMMA WalkExists ==
  ASSUME NEW f, NEW len \in Nat, NEW at, \A k \in 0..len : at[k] \in Nat /\ at[k] >= k
  PROVE  \E S : S = [k \in 0..len |-> WalkFrom(f, at, len, S, k)]
<1>. DEFINE Rest(m) == {k \in 0..len : k + m >= len}
            Solved == {m \in Nat : \E S : S = [k \in Rest(m) |-> WalkFrom(f, at, len, S, k)]}
<1>0. at[len] \in Nat /\ at[len] + 1 > len
  OBVIOUS
<1>1. 0 \in Solved
  <2>. DEFINE S == [k \in Rest(0) |-> [n |-> k, sound |-> TRUE]]
  <2>1. \A k \in Rest(0) : k = len
    OBVIOUS
  <2>2. \A k \in Rest(0) : WalkFrom(f, at, len, S, k) = [n |-> k, sound |-> TRUE]
    BY <1>0, <2>1 DEF WalkFrom
  <2>3. S = [k \in Rest(0) |-> WalkFrom(f, at, len, S, k)]
    BY <2>2
  <2>4. \E U : U = [k \in Rest(0) |-> WalkFrom(f, at, len, U, k)]
    <3>. HIDE DEF S, Rest
    <3>. QED
      BY <2>3
  <2>. HIDE DEF Rest
  <2>. QED
    BY <2>4
<1>2. ASSUME NEW m \in Nat, m \in Solved
      PROVE  m + 1 \in Solved
  <2>1. PICK S : S = [k \in Rest(m) |-> WalkFrom(f, at, len, S, k)]
    BY <1>2
  <2>. DEFINE T == [k \in Rest(m + 1) |-> WalkFrom(f, at, len, S, k)]
  <2>2. \A k \in Rest(m) : T[k] = S[k]
    BY <2>1
  <2>3. ASSUME NEW k \in Rest(m + 1)
        PROVE  WalkFrom(f, at, len, T, k) = WalkFrom(f, at, len, S, k)
    <3>1. k # len => k + 1 \in Rest(m)
      OBVIOUS
    <3>2. k # len => T[k + 1] = S[k + 1]
      BY <2>2, <3>1
    <3>. HIDE DEF T
    <3>. QED
      BY <1>0, <3>2 DEF WalkFrom
  <2>4. T = [k \in Rest(m + 1) |-> WalkFrom(f, at, len, T, k)]
    BY <2>3
  <2>5. \E U : U = [k \in Rest(m + 1) |-> WalkFrom(f, at, len, U, k)]
    <3>. HIDE DEF T, Rest
    <3>. QED
      BY <2>4
  <2>. HIDE DEF Rest
  <2>. QED
    BY <2>5
<1>3. len \in Solved
  <2>. HIDE DEF Solved
  <2>. QED
    BY <1>1, <1>2, AllNumbers
<1>4. Rest(len) = 0..len
  OBVIOUS
<1>. QED
  BY <1>3, <1>4

(* The records the walk counts are inside the section, head and value.     *)
LEMMA WalkStaysInside ==
  ASSUME NEW f, IsPackage(f), Has(f, kMetadata)
  PROVE  /\ MetadataRecords(f).n \in 0..Entry(f, kMetadata).len
         /\ \A k \in 0..(MetadataRecords(f).n - 1) :
              MetadataAt(f)[k] + 1 + Rec(f, kMetadata, k).n <= Entry(f, kMetadata).len
<1>. DEFINE len == Entry(f, kMetadata).len
            at  == MetadataAt(f)
            S   == CHOOSE S : S = [k \in 0..len |-> WalkFrom(f, at, len, S, k)]
            Inside(k) == at[k] + 1 + Rec(f, kMetadata, k).n <= len
<1>0. len \in Nat
  BY EntryTyped, PackageAssumption DEF SectionEntry, Upto
<1>1. \A k \in 0..len : at[k] \in Nat /\ at[k] >= k
  BY StartsGrow
<1>. HIDE DEF len, at
<1>2. S = [k \in 0..len |-> WalkFrom(f, at, len, S, k)]
  <2>1. \E U : U = [k \in 0..len |-> WalkFrom(f, at, len, U, k)]
    BY <1>0, <1>1, WalkExists
  <2>. QED
    BY <2>1
<1>3. MetadataRecords(f) = S[0]
  BY DEF MetadataRecords, WalkFrom, len, at
<1>. HIDE DEF S
<1>. DEFINE Good(k) == S[k].n \in k..len /\ \A i \in k..(S[k].n - 1) : Inside(i)
            All == {m \in Nat : m <= len => Good(len - m)}
<1>4. \A k \in 0..len : S[k] = WalkFrom(f, at, len, S, k)
  BY <1>2
<1>5. ASSUME NEW k \in 0..len, S[k].n = k
      PROVE  Good(k)
  BY <1>5
<1>6. ASSUME NEW k \in 0..len, k # len => Good(k + 1)
      PROVE  Good(k)
  <2>. HIDE DEF Good
  <2>1. CASE at[k] + 1 > len \/ ~WithinBounds(at[k] + 1, Rec(f, kMetadata, k).n, len)
    <3>1. \E b \in BOOLEAN : WalkFrom(f, at, len, S, k) = [n |-> k, sound |-> b]
      BY <2>1 DEF WalkFrom
    <3>2. S[k].n = k
      BY <1>4, <3>1
    <3>. QED
      BY <1>5, <3>2
  <2>2. CASE ~(at[k] + 1 > len) /\ WithinBounds(at[k] + 1, Rec(f, kMetadata, k).n, len)
    <3>1. S[k] = S[k + 1]
      BY <1>4, <2>2 DEF WalkFrom
    <3>2. at[k] \in Nat /\ at[k] >= k /\ Rec(f, kMetadata, k).n \in Nat
      BY <1>1, RecTyped, PackageAssumption DEF Record, Upto
    <3>3. k # len
      BY <1>0, <2>2, <3>2
    <3>4. Inside(k)
      BY <1>0, <2>2, <3>2 DEF WithinBounds
    <3>5. Good(k + 1)
      BY <1>6, <3>3
    <3>. HIDE DEF Inside
    <3>6. S[k + 1].n \in (k + 1)..len /\ \A i \in (k + 1)..(S[k + 1].n - 1) : Inside(i)
      BY <3>5 DEF Good
    <3>. QED
      BY <1>0, <3>1, <3>4, <3>6 DEF Good
  <2>. QED
    BY <2>1, <2>2
<1>. HIDE DEF Good
<1>7. 0 \in All
  BY <1>0, <1>6
<1>8. ASSUME NEW m \in Nat, m \in All
      PROVE  m + 1 \in All
  <2>. SUFFICES ASSUME m + 1 <= len PROVE Good(len - (m + 1))
    OBVIOUS
  <2>1. len - (m + 1) \in 0..len /\ (len - (m + 1)) + 1 = len - m
    BY <1>0
  <2>2. m <= len
    BY <1>0
  <2>3. Good(len - m)
    BY <1>8, <2>2
  <2>. QED
    BY <1>6, <2>1, <2>3
<1>9. len \in All
  <2>. HIDE DEF All
  <2>. QED
    BY <1>0, <1>7, <1>8, AllNumbers
<1>10. Good(0)
  BY <1>0, <1>9
<1>. QED
  BY <1>3, <1>10 DEF Good, len, at

-----------------------------------------------------------------------------
(* What an accessor may read                                               *)

(* The table was validated: every section is in the file, and as long as   *)
(* its records.                                                            *)
TableSound(f) ==
  \A e \in Sections(f) : /\ e.off + e.len <= f.size
                         /\ IsFixedIndexSection(e.id) => e.rs = RecordSizeFor(e.id)
                         /\ e.rs # 0 => (e.count * e.rs) % W64 = e.len

(* A stretch of the section it was read for.                               *)
Inside(f, s) ==
  /\ s.at \in Nat /\ s.n \in Nat
  /\ Entry(f, s.id).off <= s.at
  /\ s.at + s.n <= Entry(f, s.id).off + Entry(f, s.id).len
  /\ s.at + s.n <= f.size

(* A result that is a number, whose reads stay in their sections.          *)
Clean(f, r) ==
  /\ r = [err |-> r.err, val |-> r.val, reads |-> r.reads] /\ r.val \in Nat
  /\ \A s \in r.reads : Inside(f, s)

LEMMA Small ==
  ASSUME NEW w \in Nat \ {0}, NEW x \in 0..(w - 1)
  PROVE  x % w = x
BY Z3

LEMMA SizesTyped ==
  ASSUME NEW f, IsPackage(f)
  PROVE  /\ f.size \in Nat /\ f.size < W64 /\ f.packageSize \in Nat
         /\ f.linesAt \in Nat /\ f.lineTotal \in Nat
         /\ f.tableAt \in Nat /\ f.tableLength \in Nat
<1>1. /\ f.size \in Upto(W64) /\ f.packageSize \in Upto(W64)
      /\ f.linesAt \in Upto(W32) /\ f.lineTotal \in Upto(W16)
      /\ f.tableAt \in Upto(W32) /\ f.tableLength \in Upto(W32)
  BY DEF IsPackage
<1>. QED
  BY <1>1, PackageAssumption DEF Upto

LEMMA StretchInside ==
  ASSUME NEW f, IsPackage(f), TableSound(f), NEW id, Has(f, id),
         NEW at \in Nat, NEW n \in Nat, at + n <= Entry(f, id).len
  PROVE  Inside(f, Stretch(Entry(f, id), at, n))
<1>. DEFINE e == Entry(f, id)
<1>1. e \in Sections(f) /\ e \in SectionEntry /\ e.id = id
  BY EntryTyped
<1>2. e.off \in Nat /\ e.len \in Nat /\ f.size \in Nat /\ f.size < W64 /\ W64 \in Nat \ {0}
  BY <1>1, SizesTyped, PackageAssumption DEF SectionEntry, Upto
<1>3. e.off + e.len <= f.size
  BY <1>1 DEF TableSound
<1>4. (e.off + at) % W64 = e.off + at
  <2>1. e.off + at \in 0..(W64 - 1)
    BY <1>2, <1>3
  <2>. QED
    BY <1>2, <2>1, Small
<1>5. Stretch(e, at, n) = [id |-> id, at |-> e.off + at, n |-> n]
  BY <1>1, <1>4 DEF Stretch
<1>. HIDE DEF e
<1>. QED
  BY <1>2, <1>3, <1>5 DEF Inside, e

LEMMA FailClean ==
  ASSUME NEW f, NEW error
  PROVE  Clean(f, Fail(error)) /\ Fail(error).err = error
BY DEF Clean, Fail

(* One that failed after some reads.                                       *)
LEMMA FailReadsClean ==
  ASSUME NEW f, NEW error, NEW reads, \A s \in reads : Inside(f, s)
  PROVE  Clean(f, [Fail(error) EXCEPT !.reads = reads])
<1>1. [Fail(error) EXCEPT !.reads = reads] = [err |-> error, val |-> 0, reads |-> reads]
  BY DEF Fail
<1>. QED
  BY <1>1 DEF Clean

LEMMA GotClean ==
  ASSUME NEW f, NEW value \in Nat, NEW reads, \A s \in reads : Inside(f, s)
  PROVE  /\ Clean(f, Got(value, reads))
         /\ Got(value, reads).err = "kOk" /\ Got(value, reads).val = value
BY DEF Clean, Got

LEMMA ChainClean ==
  ASSUME NEW f, NEW r, NEW next, Clean(f, r), Clean(f, next)
  PROVE  Clean(f, Chain(r, next))
<1>1. CASE r.err # "kOk"
  BY <1>1 DEF Chain
<1>2. CASE r.err = "kOk"
  <2>1. Chain(r, next) = [err |-> next.err, val |-> next.val, reads |-> next.reads \cup r.reads]
    BY <1>2 DEF Chain, Clean
  <2>. QED
    BY <2>1 DEF Clean
<1>. QED
  BY <1>1, <1>2

(* A record of a section with records is inside it, whatever its number.   *)
LEMMA RecordClean ==
  ASSUME NEW f, IsPackage(f), TableSound(f), NEW id, NEW i \in Nat
  PROVE  Clean(f, ReadRecordBytes(f, id, i))
<1>. DEFINE e == Entry(f, id)
<1>1. CASE /\ Has(f, id) /\ e.rs # 0 /\ ~ (e.rs > kMaxRecordSize) /\ ~ (i >= e.count)
  <2>1. e \in Sections(f) /\ e \in SectionEntry
    BY <1>1, EntryTyped
  <2>2. e.rs \in {1, 2} /\ e.count \in Nat /\ e.count < W32 /\ e.len \in Nat
    BY <1>1, <2>1, PackageAssumption DEF SectionEntry, Upto, kMaxRecordSize
  <2>3. e.count * e.rs \in 0..(W64 - 1)
    BY <2>2, PackageAssumption DEF kMaxRecordSize
  <2>4. e.len = e.count * e.rs
    BY <1>1, <2>1, <2>3, Small, PackageAssumption DEF TableSound
  <2>5. i * e.rs \in Nat /\ i * e.rs + e.rs <= e.len
    BY <1>1, <2>2, <2>4
  <2>6. Inside(f, Stretch(e, i * e.rs, e.rs))
    BY <1>1, <2>2, <2>5, StretchInside
  <2>7. ReadRecordBytes(f, id, i) = Got(i, {Stretch(e, i * e.rs, e.rs)})
    BY <1>1 DEF ReadRecordBytes
  <2>. QED
    BY <2>6, <2>7, GotClean
<1>2. CASE ~ (/\ Has(f, id) /\ e.rs # 0 /\ ~ (e.rs > kMaxRecordSize) /\ ~ (i >= e.count))
  <2>1. ReadRecordBytes(f, id, i) \in
          {Fail("kNoSuchSection"), Fail("kSectionSizeMismatch"), Fail("kOutOfRange")}
    BY <1>2 DEF ReadRecordBytes
  <2>. QED
    BY <2>1, FailClean
<1>. QED
  BY <1>1, <1>2

(* A number in a record, and a sum of two, as an index.                    *)
LEMMA IndexWraps ==
  ASSUME NEW x \in Int
  PROVE  x % W32 \in Nat
<1>1. W32 \in Nat \ {0}
  BY PackageAssumption
<1>. QED
  BY <1>1

LEMMA NumberedClean ==
  ASSUME NEW f, IsPackage(f), TableSound(f), NEW id, NEW n \in Nat
  PROVE  Clean(f, GetNumbered(f, id, n))
<1>1. CASE ~ Has(f, id) \/ n = 0 \/ n > Count(f, id)
  <2>1. GetNumbered(f, id, n) \in {Fail("kNoSuchSection"), Fail("kOutOfRange")}
    BY <1>1 DEF GetNumbered
  <2>. QED
    BY <2>1, FailClean
<1>2. CASE Has(f, id) /\ n # 0 /\ ~ (n > Count(f, id))
  <2>. DEFINE next == IF Rec(f, id, n - 1).key = n THEN Got(n - 1, {}) ELSE Fail("kIndexInconsistent")
  <2>1. n - 1 \in Nat
    BY <1>2
  <2>2. Clean(f, ReadRecordBytes(f, id, n - 1))
    BY <2>1, RecordClean
  <2>3. Clean(f, next)
    BY <2>1, FailClean, GotClean
  <2>4. GetNumbered(f, id, n) = Chain(ReadRecordBytes(f, id, n - 1), next)
    BY <1>2 DEF GetNumbered
  <2>. HIDE DEF next
  <2>. QED
    BY <2>2, <2>3, <2>4, ChainClean
<1>. QED
  BY <1>1, <1>2

LEMMA AyahClean ==
  ASSUME NEW f, IsPackage(f), TableSound(f), NEW s \in Nat, NEW a \in Nat
  PROVE  Clean(f, GetAyah(f, s, a))
<1>. DEFINE surah == Rec(f, kSurahIndex, s - 1)
            index == (surah.first + a - 1) % W32
            ayah  == Rec(f, kAyahIndex, index)
            found == IF ayah.surah = s /\ ayah.key = a THEN Got(index, {}) ELSE Fail("kIndexInconsistent")
            next  == IF a = 0 \/ a > surah.n THEN Fail("kOutOfRange")
                     ELSE Chain(ReadRecordBytes(f, kAyahIndex, index), found)
<1>1. Clean(f, GetSurah(f, s))
  BY NumberedClean DEF GetSurah
<1>2. CASE s = 0
  <2>1. GetSurah(f, s).err # "kOk"
    BY <1>2, FailClean DEF GetSurah, GetNumbered
  <2>2. GetAyah(f, s, a) = GetSurah(f, s)
    BY <2>1 DEF GetAyah, Chain
  <2>. QED
    BY <1>1, <2>2
<1>3. CASE s # 0
  <2>1. surah \in Record
    BY <1>3, RecTyped
  <2>2. surah.first + a - 1 \in Int
    BY <2>1, PackageAssumption DEF Record, Upto
  <2>3. index \in Nat
    BY <2>2, IndexWraps
  <2>4. Clean(f, ReadRecordBytes(f, kAyahIndex, index))
    BY <2>3, RecordClean
  <2>5. Clean(f, found)
    BY <2>3, FailClean, GotClean
  <2>. HIDE DEF found, index, surah
  <2>6. Clean(f, next)
    BY <2>4, <2>5, FailClean, ChainClean
  <2>7. GetAyah(f, s, a) = Chain(GetSurah(f, s), next)
    BY DEF GetAyah, found, index, surah
  <2>. HIDE DEF next
  <2>. QED
    BY <1>1, <2>6, <2>7, ChainClean
<1>. QED
  BY <1>2, <1>3

LEMMA WordClean ==
  ASSUME NEW f, IsPackage(f), TableSound(f), NEW s \in Nat, NEW a \in Nat, NEW w \in Nat
  PROVE  Clean(f, GetWord(f, s, a, w))
<1>. DEFINE r    == GetAyah(f, s, a)
            ayah == Rec(f, kAyahIndex, r.val)
            next == IF w >= ayah.n THEN Fail("kOutOfRange")
                    ELSE ReadRecordBytes(f, kWordIndex, (ayah.first + w) % W32)
<1>1. Clean(f, r)
  BY AyahClean
<1>2. ayah \in Record
  BY <1>1, RecTyped DEF Clean
<1>3. ayah.first + w \in Int
  BY <1>2, PackageAssumption DEF Record, Upto
<1>4. (ayah.first + w) % W32 \in Nat
  BY <1>3, IndexWraps
<1>5. Clean(f, next)
  BY <1>4, FailClean, RecordClean
<1>6. GetWord(f, s, a, w) = Chain(r, next)
  BY DEF GetWord
<1>. HIDE DEF r, next
<1>. QED
  BY <1>1, <1>5, <1>6, ChainClean

(* A stretch of a blob, as far as the buffer goes.                         *)
LEMMA BlobClean ==
  ASSUME NEW f, IsPackage(f), TableSound(f), NEW id, NEW offset \in Nat, NEW length \in Nat,
         NEW capacity \in Nat
  PROVE  Clean(f, ReadBlob(f, id, offset, length, capacity))
<1>. DEFINE e == Entry(f, id)
            n == IF length < capacity THEN length ELSE capacity
<1>1. CASE Has(f, id) /\ WithinBounds(offset, length, e.len)
  <2>1. e.len \in Nat
    BY <1>1, EntryTyped, PackageAssumption DEF SectionEntry, Upto
  <2>2. n \in Nat /\ offset + n <= e.len
    BY <1>1, <2>1 DEF WithinBounds
  <2>3. Inside(f, Stretch(e, offset, n))
    BY <1>1, <2>2, StretchInside
  <2>4. ReadBlob(f, id, offset, length, capacity) = Got(n, IF n = 0 THEN {} ELSE {Stretch(e, offset, n)})
    BY <1>1 DEF ReadBlob
  <2>. HIDE DEF e, n
  <2>. QED
    BY <2>2, <2>3, <2>4, GotClean
<1>2. CASE ~ Has(f, id) \/ ~ WithinBounds(offset, length, e.len)
  <2>1. ReadBlob(f, id, offset, length, capacity) = Fail("-1")
    BY <1>2 DEF ReadBlob
  <2>. QED
    BY <2>1, FailClean
<1>. QED
  BY <1>1, <1>2

LEMMA TextClean ==
  ASSUME NEW f, IsPackage(f), TableSound(f), NEW index, NEW i \in Nat, NEW blob
  PROVE  Clean(f, TextOf(f, index, i, blob))
<1>1. Rec(f, index, i).off \in Nat /\ Rec(f, index, i).len \in Nat
  BY RecTyped, PackageAssumption DEF Record, Upto
<1>2. Clean(f, ReadBlob(f, blob, Rec(f, index, i).off, Rec(f, index, i).len, TextCapacity))
  BY <1>1, BlobClean, PackageAssumption
<1>3. Clean(f, ReadRecordBytes(f, index, i))
  BY RecordClean
<1>. QED
  BY <1>2, <1>3, ChainClean DEF TextOf

LEMMA ImageClean ==
  ASSUME NEW f, IsPackage(f), TableSound(f), NEW i \in Nat, NEW capacity \in Nat
  PROVE  Clean(f, ReadPageImage(f, i, capacity))
<1>. DEFINE image == Rec(f, kPageImageIndex, i)
            next  == IF ~WithinBounds(image.off, image.len, Entry(f, kPageImageData).len)
                     THEN Fail("kSectionOutOfRange")
                     ELSE IF image.len > capacity THEN Fail("kSectionSizeMismatch")
                     ELSE ReadBlob(f, kPageImageData, image.off, image.len, capacity)
<1>1. image.off \in Nat /\ image.len \in Nat
  BY RecTyped, PackageAssumption DEF Record, Upto
<1>2. Clean(f, next)
  BY <1>1, BlobClean, FailClean
<1>3. Clean(f, ReadRecordBytes(f, kPageImageIndex, i))
  BY RecordClean
<1>4. ReadPageImage(f, i, capacity) \in {Fail("kNoSuchSection"),
                                         Chain(ReadRecordBytes(f, kPageImageIndex, i), next)}
  BY DEF ReadPageImage
<1>. HIDE DEF next
<1>. QED
  BY <1>2, <1>3, <1>4, ChainClean, FailClean

LEMMA LayoutHeaderClean ==
  ASSUME NEW f, IsPackage(f), TableSound(f)
  PROVE  /\ Clean(f, GetLayoutHeader(f))
         /\ GetLayoutHeader(f).err = "kOk" =>
              /\ Has(f, kLayoutData)
              /\ f.linesAt + f.lineTotal <= Entry(f, kLayoutData).len
<1>. DEFINE e == Entry(f, kLayoutData)
            head == Stretch(e, 0, 1)
<1>1. CASE ~ Has(f, kLayoutData) \/ e.len < 1
  <2>1. GetLayoutHeader(f) \in {Fail("kNoSuchSection"), Fail("kOutOfRange")}
    BY <1>1 DEF GetLayoutHeader
  <2>. QED
    BY <2>1, FailClean
<1>2. CASE Has(f, kLayoutData) /\ ~ (e.len < 1)
  <2>1. e.len \in Nat
    BY <1>2, EntryTyped, PackageAssumption DEF SectionEntry, Upto
  <2>2. Inside(f, head)
    BY <1>2, <2>1, StretchInside
  <2>. HIDE DEF head
  <2>3. CASE WithinBounds(f.linesAt, f.lineTotal, e.len)
    <3>1. GetLayoutHeader(f) = Got(f.lineTotal, {head})
      BY <1>2, <2>3 DEF GetLayoutHeader, head
    <3>2. f.linesAt + f.lineTotal <= e.len
      BY <2>1, <2>3, SizesTyped DEF WithinBounds
    <3>. QED
      BY <1>2, <2>2, <3>1, <3>2, GotClean, SizesTyped
  <2>4. CASE ~ WithinBounds(f.linesAt, f.lineTotal, e.len)
    <3>1. GetLayoutHeader(f) = [Fail("kOutOfRange") EXCEPT !.reads = {head}]
      BY <1>2, <2>4 DEF GetLayoutHeader, head
    <3>2. GetLayoutHeader(f) = [err |-> "kOutOfRange", val |-> 0, reads |-> {head}]
      BY <3>1 DEF Fail
    <3>. QED
      BY <2>2, <3>2 DEF Clean
  <2>. QED
    BY <2>3, <2>4
<1>. QED
  BY <1>1, <1>2

LEMMA LineClean ==
  ASSUME NEW f, IsPackage(f), TableSound(f), NEW i \in Nat
  PROVE  Clean(f, GetLine(f, i))
<1>. DEFINE e    == Entry(f, kLayoutData)
            read == Stretch(e, f.linesAt + i, 1)
            next == IF i >= f.lineTotal THEN Fail("kOutOfRange") ELSE Got(i, {read})
<1>1. GetLine(f, i) = Chain(GetLayoutHeader(f), next)
  BY DEF GetLine
<1>2. Clean(f, GetLayoutHeader(f))
  BY LayoutHeaderClean
<1>3. CASE GetLayoutHeader(f).err # "kOk"
  BY <1>1, <1>2, <1>3 DEF Chain
<1>4. CASE GetLayoutHeader(f).err = "kOk" /\ i >= f.lineTotal
  <2>1. Clean(f, next)
    BY <1>4, FailClean
  <2>. HIDE DEF next
  <2>. QED
    BY <1>1, <1>2, <2>1, ChainClean
<1>5. CASE GetLayoutHeader(f).err = "kOk" /\ ~ (i >= f.lineTotal)
  <2>1. Has(f, kLayoutData) /\ f.linesAt + f.lineTotal <= e.len
    BY <1>5, LayoutHeaderClean
  <2>2. e.len \in Nat
    BY <2>1, EntryTyped, PackageAssumption DEF SectionEntry, Upto
  <2>3. f.linesAt + i \in Nat /\ f.linesAt + i + 1 <= e.len
    BY <1>5, <2>1, <2>2, SizesTyped
  <2>4. Inside(f, read)
    BY <2>1, <2>3, StretchInside
  <2>5. Clean(f, next)
    BY <1>5, <2>4, GotClean
  <2>. HIDE DEF next
  <2>. QED
    BY <1>1, <1>2, <2>5, ChainClean
<1>. QED
  BY <1>3, <1>4, <1>5

(* The records the search probes are read like any other.                  *)
LEMMA FindClean ==
  ASSUME NEW f, NEW n \in Nat, NEW get, NEW id, NEW word,
         \A i \in 0..(n - 1) : Clean(f, get[i])
  PROVE  Clean(f, FindByWordIndex(f, n, get, id, word))
<1>. DEFINE starts == [i \in 0..(n - 1) |-> Rec(f, id, i).first]
            found  == UpperBound(n, starts, word)
            read   == {get[i] : i \in found.probes}
            reads  == UNION {r.reads : r \in read}
            bad    == CHOOSE r \in read : r.err # "kOk"
<1>1. found.at \in 0..n /\ found.probes \subseteq 0..(n - 1)
  BY UpperBoundWorks DEF Searches
<1>2. \A r \in read : Clean(f, r)
  BY <1>1
<1>. HIDE DEF found, read
<1>3. \A s \in reads : Inside(f, s)
  BY <1>2 DEF Clean
<1>4. CASE n = 0
  BY <1>4, FailClean DEF FindByWordIndex
<1>5. CASE n # 0 /\ \E r \in read : r.err # "kOk"
  <2>1. FindByWordIndex(f, n, get, id, word) = bad
    BY <1>5 DEF FindByWordIndex, read, found
  <2>2. bad \in read
    BY <1>5
  <2>. QED
    BY <1>2, <2>1, <2>2
<1>6. CASE n # 0 /\ (\A r \in read : r.err = "kOk") /\ found.at = 0
  <2>1. FindByWordIndex(f, n, get, id, word) = [Fail("kOutOfRange") EXCEPT !.reads = reads]
    BY <1>6 DEF FindByWordIndex, read, found
  <2>. HIDE DEF reads
  <2>. QED
    BY <1>3, <2>1, FailReadsClean
<1>7. CASE n # 0 /\ (\A r \in read : r.err = "kOk") /\ found.at # 0
  <2>1. FindByWordIndex(f, n, get, id, word) = Got(LastBefore(found.at), reads)
    BY <1>7 DEF FindByWordIndex, read, found
  <2>2. LastBefore(found.at) \in Nat
    BY <1>1, <1>7 DEF LastBefore
  <2>. HIDE DEF reads
  <2>. QED
    BY <1>3, <2>1, <2>2, GotClean
<1>. QED
  BY <1>4, <1>5, <1>6, <1>7

LEMMA CountTyped ==
  ASSUME NEW f, IsPackage(f), NEW id
  PROVE  Count(f, id) \in Nat
BY EntryTyped, PackageAssumption DEF Count, SectionEntry, Upto

LEMMA AyahOfWordClean ==
  ASSUME NEW f, IsPackage(f), TableSound(f), NEW word
  PROVE  Clean(f, FindAyahByWordIndex(f, word))
<1>. DEFINE n   == Count(f, kAyahIndex)
            get == [i \in 0..(n - 1) |-> GetAyahByIndex(f, i)]
<1>1. n \in Nat
  BY CountTyped
<1>. HIDE DEF n
<1>2. \A i \in 0..(n - 1) : Clean(f, get[i])
  BY <1>1, RecordClean DEF GetAyahByIndex
<1>3. FindAyahByWordIndex(f, word) = FindByWordIndex(f, n, get, kAyahIndex, word)
  BY DEF FindAyahByWordIndex, n
<1>. HIDE DEF get
<1>. QED
  BY <1>1, <1>2, <1>3, FindClean

LEMMA LineOfWordClean ==
  ASSUME NEW f, IsPackage(f), TableSound(f), NEW word
  PROVE  Clean(f, FindLineByWordIndex(f, word))
<1>. DEFINE n   == f.lineTotal
            get == [i \in 0..(n - 1) |-> GetLine(f, i)]
            next == FindByWordIndex(f, n, get, kLayoutData, word)
<1>1. n \in Nat
  BY SizesTyped
<1>. HIDE DEF n
<1>2. \A i \in 0..(n - 1) : Clean(f, get[i])
  BY <1>1, LineClean
<1>. HIDE DEF get
<1>3. Clean(f, next)
  BY <1>1, <1>2, FindClean
<1>4. FindLineByWordIndex(f, word) = Chain(GetLayoutHeader(f), next)
  BY DEF FindLineByWordIndex, n, get
<1>. HIDE DEF next
<1>. QED
  BY <1>3, <1>4, LayoutHeaderClean, ChainClean

(* A scan reads every record up to the one it finds, or all of them.       *)
LEMMA GlyphClean ==
  ASSUME NEW f, IsPackage(f), TableSound(f), NEW glyph, glyphs \in Seq(Nat)
  PROVE  Clean(f, GetGlyph(f, glyph))
<1>. DEFINE Key(i) == Rec(f, kFontMetadata, i).key
            n    == Count(f, kFontMetadata)
            starts == [i \in 0..(Len(glyphs) - 1) |-> Key(glyphs[i + 1]) + 1]
            low  == UpperBound(Len(glyphs), starts, glyph).at
            at   == {i \in 0..(n - 1) : Key(i) = glyph}
            stop == IF at = {} THEN n - 1 ELSE CHOOSE i \in at : \A j \in at : i <= j
            reads == UNION {ReadRecordBytes(f, kFontMetadata, i).reads : i \in 0..stop}
<1>1. n \in Nat
  BY CountTyped
<1>. HIDE DEF n
<1>2. CASE ~ Has(f, kFontMetadata)
  BY <1>2, FailClean DEF GetGlyph
<1>3. CASE Has(f, kFontMetadata) /\ glyphs # <<>>
  <2>1. low \in 0..Len(glyphs)
    BY UpperBoundWorks DEF Searches
  <2>. HIDE DEF low
  <2>2. GetGlyph(f, glyph) = IF low < Len(glyphs) /\ Key(glyphs[low + 1]) = glyph
                             THEN Got(glyphs[low + 1], {}) ELSE Fail("kOutOfRange")
    BY <1>3 DEF GetGlyph, low
  <2>3. low < Len(glyphs) => glyphs[low + 1] \in Nat
    BY <2>1
  <2>. QED
    BY <2>2, <2>3, GotClean, FailClean
<1>4. CASE Has(f, kFontMetadata) /\ glyphs = <<>> /\ n = 0
  BY <1>4, FailClean DEF GetGlyph, n
<1>5. CASE Has(f, kFontMetadata) /\ glyphs = <<>> /\ n # 0
  <2>1. stop \in 0..(n - 1)
    <3>1. CASE at = {}
      BY <1>1, <1>5, <3>1
    <3>2. CASE at # {}
      <4>1. at \in SUBSET Nat /\ at \subseteq 0..(n - 1)
        BY <1>1
      <4>. HIDE DEF at
      <4>2. \E i \in at : \A j \in at : i <= j
        BY <3>2, <4>1, LeastNumber
      <4>. QED
        BY <3>2, <4>1, <4>2
    <3>. QED
      BY <3>1, <3>2
  <2>2. GetGlyph(f, glyph) = IF at = {} THEN [Fail("kOutOfRange") EXCEPT !.reads = reads]
                             ELSE Got(stop, reads)
    BY <1>5 DEF GetGlyph, n
  <2>. HIDE DEF at, stop
  <2>3. \A s \in reads : Inside(f, s)
    BY <1>1, <2>1, RecordClean DEF Clean
  <2>. HIDE DEF reads
  <2>5. Clean(f, [Fail("kOutOfRange") EXCEPT !.reads = reads])
    BY <2>3, FailReadsClean
  <2>6. stop \in Nat
    BY <1>1, <2>1
  <2>. QED
    BY <2>2, <2>3, <2>5, <2>6, GotClean
<1>. QED
  BY <1>2, <1>3, <1>4, <1>5

LEMMA MetadataClean ==
  ASSUME NEW f, IsPackage(f), TableSound(f), NEW key
  PROVE  Clean(f, Metadata(f, key))
<1>. DEFINE walk  == MetadataRecords(f)
            ks    == {k \in 0..(walk.n - 1) : Rec(f, kMetadata, k).key = key}
            first == CHOOSE k \in ks : \A j \in ks : k <= j
            heads(last) == {Stretch(Entry(f, kMetadata), MetadataAt(f)[k], 1) : k \in 0..last}
            value == Stretch(Entry(f, kMetadata), MetadataAt(f)[first] + 1, Rec(f, kMetadata, first).n)
<1>1. CASE ~ Has(f, kMetadata)
  BY <1>1, FailClean DEF Metadata
<1>2. CASE Has(f, kMetadata)
  <2>. DEFINE len == Entry(f, kMetadata).len
              n == walk.n
  <2>0. len \in Nat
    BY <1>2, EntryTyped, PackageAssumption DEF SectionEntry, Upto
  <2>1. /\ n \in 0..len
        /\ \A k \in 0..(n - 1) : MetadataAt(f)[k] + 1 + Rec(f, kMetadata, k).n <= len
    BY <1>2, WalkStaysInside
  <2>2. \A k \in 0..(n - 1) : MetadataAt(f)[k] \in Nat /\ Rec(f, kMetadata, k).n \in Nat
    <3>1. \A k \in 0..(n - 1) : k \in 0..len
      BY <2>0, <2>1
    <3>. QED
      BY <1>2, <3>1, StartsGrow, RecTyped, PackageAssumption DEF Record, Upto
  <2>. HIDE DEF n
  <2>3. ASSUME NEW k \in 0..(n - 1)
        PROVE  /\ Inside(f, Stretch(Entry(f, kMetadata), MetadataAt(f)[k], 1))
               /\ Inside(f, Stretch(Entry(f, kMetadata), MetadataAt(f)[k] + 1, Rec(f, kMetadata, k).n))
    <3>1. MetadataAt(f)[k] + 1 + Rec(f, kMetadata, k).n <= len
      BY <2>1
    <3>2. MetadataAt(f)[k] \in Nat /\ Rec(f, kMetadata, k).n \in Nat
      BY <2>2
    <3>3. MetadataAt(f)[k] + 1 <= len
      BY <2>0, <3>1, <3>2
    <3>. QED
      BY <1>2, <2>0, <3>1, <3>2, <3>3, StretchInside
  <2>4. ASSUME NEW last, last \in (0..(n - 1)) \cup {n - 1}
        PROVE  \A s \in heads(last) : Inside(f, s)
    BY <2>0, <2>1, <2>3, <2>4
  <2>5. CASE ks = {}
    <3>1. Metadata(f, key) = [Fail("false") EXCEPT !.reads = heads(n - 1)]
      BY <1>2, <2>5 DEF Metadata, n
    <3>. HIDE DEF heads
    <3>. QED
      BY <2>4, <3>1, FailReadsClean
  <2>6. CASE ks # {}
    <3>1. ks \in SUBSET Nat
      BY <2>1 DEF n
    <3>2. \E k \in ks : \A j \in ks : k <= j
      <4>. HIDE DEF ks
      <4>. QED
        BY <2>6, <3>1, LeastNumber
    <3>3. first \in ks
      BY <3>2
    <3>4. first \in 0..(n - 1) /\ first \in Nat
      BY <2>1, <3>3 DEF n
    <3>5. Metadata(f, key) = Got(first, heads(first) \cup {value})
      BY <1>2, <2>6 DEF Metadata
    <3>. HIDE DEF first
    <3>6. Inside(f, value)
      BY <2>3, <3>4
    <3>7. \A s \in heads(first) : Inside(f, s)
      BY <2>4, <3>4
    <3>. HIDE DEF heads, value
    <3>. QED
      BY <3>4, <3>5, <3>6, <3>7, GotClean
  <2>. QED
    BY <2>5, <2>6
<1>. QED
  BY <1>1, <1>2

(* A marker's glyph is as far from the first as its ayah: the check keeps  *)
(* the range below 2^16.                                                   *)
LEMMA MarkerClean ==
  ASSUME NEW f, IsPackage(f), TableSound(f), NEW a \in Nat
  PROVE  /\ Clean(f, MarkerGlyph(f, a))
         /\ MarkerGlyph(f, a).err = "kOk" => MarkerGlyph(f, a).val >= a - 1
<1>. DEFINE r == Metadata(f, kAyahMarkerGlyphs)
            v == Rec(f, kMetadata, r.val)
            next == IF v.len = 0 \/ v.off >= W16 \/ v.len >= W16 \/ v.off + v.len - 1 >= W16 \/ a \notin 1..v.len
                    THEN Fail("false") ELSE Got((v.off + a - 1) % W16, {})
<1>1. Clean(f, r)
  BY MetadataClean
<1>2. v.off \in Nat /\ v.len \in Nat
  BY <1>1, RecTyped, PackageAssumption DEF Clean, Record, Upto
<1>3. MarkerGlyph(f, a) = Chain(r, next)
  BY DEF MarkerGlyph
<1>. HIDE DEF r, v
<1>4. Clean(f, next) /\ (next.err = "kOk" => next.val >= a - 1)
  <2>1. CASE next = Fail("false")
    BY <2>1, FailClean
  <2>2. CASE /\ v.off + v.len - 1 < W16 /\ a \in 1..v.len
             /\ next = Got((v.off + a - 1) % W16, {})
    <3>1. v.off + a - 1 \in 0..(W16 - 1)
      BY <1>2, <2>2, PackageAssumption
    <3>2. (v.off + a - 1) % W16 = v.off + a - 1
      BY <3>1, Small, PackageAssumption
    <3>3. (v.off + a - 1) % W16 \in Nat /\ (v.off + a - 1) % W16 >= a - 1
      BY <1>2, <3>1, <3>2
    <3>. QED
      BY <2>2, <3>3, GotClean
  <2>. QED
    BY <1>2, <2>1, <2>2, PackageAssumption
<1>. HIDE DEF next
<1>5. MarkerGlyph(f, a).err = "kOk" => r.err = "kOk" /\ next.err = "kOk" /\ MarkerGlyph(f, a).val = next.val
  BY <1>1, <1>3, <1>4 DEF Chain, Clean
<1>. QED
  BY <1>1, <1>3, <1>4, <1>5, ChainClean

-----------------------------------------------------------------------------
(* The glyph index                                                         *)

GlyphKey(f, i) == Rec(f, kFontMetadata, i).key

(* The first k records, each once, by glyph id and those of one id in the  *)
(* order of the table.                                                     *)
Indexed(f, k, s) ==
  /\ s \in [1..k -> 0..(k - 1)]
  /\ \A i \in 0..(k - 1) : \E p \in 1..k : s[p] = i
  /\ \A p, q \in 1..k : p < q =>
       \/ GlyphKey(f, s[p]) < GlyphKey(f, s[q])
       \/ GlyphKey(f, s[p]) = GlyphKey(f, s[q]) /\ s[p] < s[q]

(* One more record, put after all whose glyph id is not above its own.     *)
Inserted(f, before, k) ==
  LET j == Cardinality({i \in DOMAIN before : GlyphKey(f, before[i]) <= GlyphKey(f, k - 1)})
  IN SubSeq(before, 1, j) \o <<k - 1>> \o SubSeq(before, j + 1, k - 1)

LEMMA KeyTyped ==
  ASSUME NEW f, IsPackage(f), NEW i \in Nat
  PROVE  GlyphKey(f, i) \in Nat
BY RecTyped DEF GlyphKey, Record

LEMMA IndexedMeans ==
  ASSUME NEW f, IsPackage(f), NEW k \in Nat, NEW s, Indexed(f, k, s)
  PROVE  /\ DOMAIN s = 1..k /\ \A p \in 1..k : s[p] \in 0..(k - 1)
         /\ \A p \in 1..k : GlyphKey(f, s[p]) \in Nat
         /\ \A p, q \in 1..k : p < q => GlyphKey(f, s[p]) <= GlyphKey(f, s[q])
<1>1. DOMAIN s = 1..k /\ \A p \in 1..k : s[p] \in 0..(k - 1)
  BY DEF Indexed
<1>2. \A p \in 1..k : s[p] \in Nat
  BY <1>1
<1>3. \A p \in 1..k : GlyphKey(f, s[p]) \in Nat
  BY <1>2, KeyTyped
<1>4. \A p, q \in 1..k : p < q => \/ GlyphKey(f, s[p]) < GlyphKey(f, s[q])
                                 \/ GlyphKey(f, s[p]) = GlyphKey(f, s[q])
  BY DEF Indexed
<1>5. \A p, q \in 1..k : p < q => GlyphKey(f, s[p]) <= GlyphKey(f, s[q])
  BY <1>3, <1>4
<1>. QED
  BY <1>1, <1>3, <1>5

(* What is cut in two and put together again with one more in between.     *)
Between(s, j, k) == SubSeq(s, 1, j) \o <<k>> \o SubSeq(s, j + 1, k)

LEMMA PutBetween ==
  ASSUME NEW k \in Nat, NEW s \in [1..k -> 0..(k - 1)], NEW j \in 0..k
  PROVE  /\ Between(s, j, k) \in [1..(k + 1) -> 0..k]
         /\ \A p \in 1..j : Between(s, j, k)[p] = s[p]
         /\ Between(s, j, k)[j + 1] = k
         /\ \A p \in (j + 2)..(k + 1) : Between(s, j, k)[p] = s[p - 1]
<1>. DEFINE t == Between(s, j, k)
            a == SubSeq(s, 1, j)
            c == SubSeq(s, j + 1, k)
<1>1. a \in Seq(0..k) /\ Len(a) = j /\ \A i \in 1..j : a[i] = s[i]
  <2>1. \A i \in 1..j : s[i] \in 0..k
    OBVIOUS
  <2>2. /\ a \in Seq(0..k) /\ Len(a) = IF 1 <= j THEN j - 1 + 1 ELSE 0
        /\ \A i \in 1..(j - 1 + 1) : a[i] = s[1 + i - 1]
    BY <2>1, SubSeqProperties
  <2>. HIDE DEF a
  <2>. QED
    BY <2>2
<1>2. c \in Seq(0..k) /\ Len(c) = k - j /\ \A i \in 1..(k - j) : c[i] = s[i + j]
  <2>1. \A i \in (j + 1)..k : s[i] \in 0..k
    OBVIOUS
  <2>2. /\ c \in Seq(0..k) /\ Len(c) = IF j + 1 <= k THEN k - (j + 1) + 1 ELSE 0
        /\ \A i \in 1..(k - (j + 1) + 1) : c[i] = s[(j + 1) + i - 1]
    BY <2>1, SubSeqProperties
  <2>. HIDE DEF c
  <2>. QED
    BY <2>2
<1>3. t = a \o <<k>> \o c
  BY DEF Between
<1>. HIDE DEF a, c, t
<1>4. /\ a \o <<k>> \in Seq(0..k) /\ Len(a \o <<k>>) = j + 1
      /\ \A i \in 1..j : (a \o <<k>>)[i] = a[i]
      /\ (a \o <<k>>)[j + 1] = k
  BY <1>1
<1>. DEFINE b == a \o <<k>>
<1>. HIDE DEF b
<1>5. b \in Seq(0..k) /\ Len(b) = j + 1 /\ (\A i \in 1..j : b[i] = a[i]) /\ b[j + 1] = k
  BY <1>4 DEF b
<1>6. t = b \o c
  BY <1>3 DEF b
<1>7. /\ t \in Seq(0..k) /\ Len(t) = k + 1
      /\ \A i \in 1..(j + 1) : t[i] = b[i]
      /\ \A i \in (j + 2)..(k + 1) : t[i] = c[i - (j + 1)]
  <2>1. /\ Len(b \o c) = Len(b) + Len(c)
        /\ \A i \in 1..(Len(b) + Len(c)) :
              (b \o c)[i] = IF i <= Len(b) THEN b[i] ELSE c[i - Len(b)]
    BY <1>2, <1>5, ConcatProperties
  <2>2. b \o c \in Seq(0..k)
    BY <1>2, <1>5, ConcatProperties
  <2>3. Len(b) + Len(c) = k + 1
    BY <1>2, <1>5
  <2>4. \A i \in (j + 2)..(k + 1) : i \in 1..(k + 1) /\ ~ (i <= j + 1)
    OBVIOUS
  <2>5. \A i \in 1..(j + 1) : i \in 1..(k + 1) /\ i <= j + 1
    OBVIOUS
  <2>. QED
    BY <1>5, <1>6, <2>1, <2>2, <2>3, <2>4, <2>5
<1>8. t \in [1..(k + 1) -> 0..k]
  <2>1. t \in [1..Len(t) -> 0..k]
    BY <1>7, LenProperties, Zenon
  <2>. QED
    BY <1>7, <2>1
<1>9. \A p \in 1..j : t[p] = s[p]
  BY <1>1, <1>5, <1>7
<1>10. ASSUME NEW p \in (j + 2)..(k + 1)
       PROVE  t[p] = s[p - 1]
  <2>1. t[p] = c[p - (j + 1)]
    BY <1>7
  <2>2. p - (j + 1) \in 1..(k - j) /\ (p - (j + 1)) + j = p - 1
    OBVIOUS
  <2>. QED
    BY <1>2, <2>1, <2>2
<1>11. t[j + 1] = k
  BY <1>5, <1>7
<1>. QED
  BY <1>8, <1>9, <1>10, <1>11 DEF t

(* Those not above a key come first.                                       *)
LEMMA PrefixCounted ==
  ASSUME NEW f, IsPackage(f), NEW k \in Nat, NEW s, Indexed(f, k, s), NEW key \in Nat
  PROVE  \E j \in 0..k : /\ Cardinality({i \in DOMAIN s : GlyphKey(f, s[i]) <= key}) = j
                         /\ \A i \in 1..k : (GlyphKey(f, s[i]) <= key) = (i <= j)
<1>. DEFINE Low == {i \in DOMAIN s : GlyphKey(f, s[i]) <= key}
<1>1. DOMAIN s = 1..k /\ \A i \in 1..k : GlyphKey(f, s[i]) \in Nat
  BY IndexedMeans
<1>2. \E j \in 0..k : \A i \in 1..k : (GlyphKey(f, s[i]) <= key) = (i <= j)
  <2>1. CASE Low = {}
    <3>1. \A i \in 1..k : (GlyphKey(f, s[i]) <= key) = (i <= 0)
      BY <1>1, <2>1
    <3>. QED
      BY <3>1
  <2>2. CASE Low # {}
    <3>1. Low \in SUBSET (0..k)
      BY <1>1
    <3>2. PICK j \in Low : \A i \in Low : i <= j
      <4>. HIDE DEF Low
      <4>. QED
        BY <2>2, <3>1, GreatestNumber
    <3>3. j \in 1..k /\ GlyphKey(f, s[j]) <= key
      BY <1>1, <3>2
    <3>4. ASSUME NEW i \in 1..k
          PROVE  (GlyphKey(f, s[i]) <= key) = (i <= j)
      <4>1. CASE i > j
        BY <1>1, <3>2, <3>3, <4>1
      <4>2. CASE i = j
        BY <3>3, <4>2
      <4>3. CASE i < j
        <5>1. GlyphKey(f, s[i]) <= GlyphKey(f, s[j])
          BY <3>3, <4>3, IndexedMeans
        <5>. QED
          BY <1>1, <3>3, <4>3, <5>1
      <4>. QED
        BY <3>3, <4>1, <4>2, <4>3
    <3>. QED
      BY <3>3, <3>4
  <2>. QED
    BY <2>1, <2>2
<1>3. PICK j \in 0..k : \A i \in 1..k : (GlyphKey(f, s[i]) <= key) = (i <= j)
  BY <1>2
<1>4. Low = 1..j
  BY <1>1, <1>3
<1>5. Cardinality(1..j) = j
  BY <1>3, FS_Interval
<1>. QED
  BY <1>3, <1>4, <1>5

LEMMA InsertedIndexed ==
  ASSUME NEW f, IsPackage(f), NEW k \in Nat, NEW s, Indexed(f, k, s)
  PROVE  Indexed(f, k + 1, Inserted(f, s, k + 1))
<1>. DEFINE key == GlyphKey(f, k)
<1>1. key \in Nat /\ \A i \in 1..k : GlyphKey(f, s[i]) \in Nat
  BY KeyTyped, IndexedMeans
<1>2. PICK j \in 0..k : /\ Cardinality({i \in DOMAIN s : GlyphKey(f, s[i]) <= key}) = j
                        /\ \A i \in 1..k : (GlyphKey(f, s[i]) <= key) = (i <= j)
  BY <1>1, PrefixCounted
<1>. DEFINE t == Inserted(f, s, k + 1)
<1>3. (k + 1) - 1 = k
  OBVIOUS
<1>4. t = Between(s, j, k)
  BY <1>2, <1>3 DEF Inserted, Between
<1>5. s \in [1..k -> 0..(k - 1)]
  BY DEF Indexed
<1>6. /\ t \in [1..(k + 1) -> 0..k]
      /\ \A p \in 1..j : t[p] = s[p]
      /\ t[j + 1] = k
      /\ \A p \in (j + 2)..(k + 1) : t[p] = s[p - 1]
  <2>. DEFINE u == Between(s, j, k)
  <2>1. /\ u \in [1..(k + 1) -> 0..k]
        /\ \A p \in 1..j : u[p] = s[p]
        /\ u[j + 1] = k
        /\ \A p \in (j + 2)..(k + 1) : u[p] = s[p - 1]
    BY <1>5, PutBetween
  <2>. HIDE DEF t, u
  <2>2. t = u
    BY <1>4 DEF u
  <2>. QED
    BY <2>1, <2>2
<1>. HIDE DEF t
<1>7. \A i \in 0..k : \E p \in 1..(k + 1) : t[p] = i
  <2>. SUFFICES ASSUME NEW i \in 0..k PROVE \E p \in 1..(k + 1) : t[p] = i
    OBVIOUS
  <2>1. CASE i = k
    BY <1>6, <2>1
  <2>2. CASE i # k
    <3>1. PICK p \in 1..k : s[p] = i
      BY <2>2 DEF Indexed
    <3>2. CASE p <= j
      <4>1. p \in 1..j /\ p \in 1..(k + 1)
        BY <3>2
      <4>. QED
        BY <1>6, <3>1, <4>1
    <3>3. CASE p > j
      <4>1. p + 1 \in (j + 2)..(k + 1) /\ p + 1 \in 1..(k + 1) /\ (p + 1) - 1 = p
        BY <3>3
      <4>2. t[p + 1] = s[(p + 1) - 1]
        BY <1>6, <4>1
      <4>. QED
        BY <3>1, <4>1, <4>2
    <3>. QED
      BY <3>2, <3>3
  <2>. QED
    BY <2>1, <2>2
<1>8. ASSUME NEW p \in 1..(k + 1), NEW q \in 1..(k + 1), p < q
      PROVE  \/ GlyphKey(f, t[p]) < GlyphKey(f, t[q])
             \/ GlyphKey(f, t[p]) = GlyphKey(f, t[q]) /\ t[p] < t[q]
  <2>. DEFINE Before(i, h) == \/ GlyphKey(f, i) < GlyphKey(f, h)
                              \/ GlyphKey(f, i) = GlyphKey(f, h) /\ i < h
  <2>0. \A a, b \in 1..k : a < b => Before(s[a], s[b])
    BY DEF Indexed
  <2>a. \A a \in 1..k : s[a] \in 0..(k - 1)
    BY DEF Indexed
  <2>b. \A a \in 1..j : Before(s[a], k)
    BY <1>1, <1>2, <2>a
  <2>c. \A a \in (j + 1)..k : Before(k, s[a])
    BY <1>1, <1>2
  <2>. SUFFICES Before(t[p], t[q])
    OBVIOUS
  <2>. HIDE DEF Before
  <2>d. p <= j => p \in 1..k /\ p \in 1..j /\ t[p] = s[p]
    BY <1>6
  <2>e. q <= j => q \in 1..k /\ t[q] = s[q]
    BY <1>6
  <2>f. p > j + 1 => p - 1 \in (j + 1)..k /\ p - 1 \in 1..k /\ t[p] = s[p - 1]
    <3>. SUFFICES ASSUME p > j + 1 PROVE p - 1 \in (j + 1)..k /\ p - 1 \in 1..k /\ t[p] = s[p - 1]
      OBVIOUS
    <3>1. p \in (j + 2)..(k + 1)
      OBVIOUS
    <3>. QED
      BY <1>6, <3>1
  <2>g. q > j + 1 => q - 1 \in (j + 1)..k /\ q - 1 \in 1..k /\ t[q] = s[q - 1]
    <3>. SUFFICES ASSUME q > j + 1 PROVE q - 1 \in (j + 1)..k /\ q - 1 \in 1..k /\ t[q] = s[q - 1]
      OBVIOUS
    <3>1. q \in (j + 2)..(k + 1)
      OBVIOUS
    <3>. QED
      BY <1>6, <3>1
  <2>1. CASE q <= j
    <3>1. p <= j
      BY <1>8, <2>1
    <3>2. Before(s[p], s[q])
      BY <1>8, <2>0, <2>1, <2>d, <2>e, <3>1
    <3>. QED
      BY <2>1, <2>d, <2>e, <3>1, <3>2
  <2>2. CASE q = j + 1
    <3>1. p <= j
      BY <1>8, <2>2
    <3>. QED
      BY <1>6, <2>2, <2>b, <2>d, <3>1
  <2>3. CASE q > j + 1 /\ p <= j
    <3>1. p < q - 1
      BY <2>3
    <3>2. Before(s[p], s[q - 1])
      BY <2>0, <2>3, <2>d, <2>g, <3>1
    <3>. QED
      BY <2>3, <2>d, <2>g, <3>2
  <2>4. CASE q > j + 1 /\ p = j + 1
    BY <1>6, <2>c, <2>g, <2>4
  <2>5. CASE p > j + 1
    <3>1. p - 1 < q - 1 /\ q > j + 1
      BY <1>8, <2>5
    <3>2. Before(s[p - 1], s[q - 1])
      BY <2>0, <2>5, <2>f, <2>g, <3>1
    <3>. QED
      BY <2>5, <2>f, <2>g, <3>1, <3>2
  <2>6. p > j + 1 \/ q <= j + 1 \/ (q > j + 1 /\ p <= j) \/ (q > j + 1 /\ p = j + 1)
    OBVIOUS
  <2>7. q <= j + 1 => q <= j \/ q = j + 1
    OBVIOUS
  <2>. QED
    BY <2>1, <2>2, <2>3, <2>4, <2>5, <2>6, <2>7
<1>9. t \in [1..(k + 1) -> 0..((k + 1) - 1)] /\ \A i \in 0..((k + 1) - 1) : \E p \in 1..(k + 1) : t[p] = i
  BY <1>3, <1>6, <1>7
<1>10. Indexed(f, k + 1, t)
  BY <1>8, <1>9, Zenon DEF Indexed
<1>. QED
  BY <1>10 DEF t

PlacedAfter(f, S, k) == IF k = 0 THEN <<>> ELSE Inserted(f, S[k - 1], k)

LEMMA PlacedExists ==
  ASSUME NEW f, NEW n \in Nat
  PROVE  \E S : S = [k \in 0..n |-> PlacedAfter(f, S, k)]
<1>. DEFINE Solved == {m \in Nat : \E S : S = [k \in 0..m |-> PlacedAfter(f, S, k)]}
<1>1. 0 \in Solved
  <2>. DEFINE S == [k \in 0..0 |-> <<>>]
  <2>1. \A k \in 0..0 : PlacedAfter(f, S, k) = <<>>
    BY DEF PlacedAfter
  <2>2. S = [k \in 0..0 |-> PlacedAfter(f, S, k)]
    BY <2>1
  <2>3. \E U : U = [k \in 0..0 |-> PlacedAfter(f, U, k)]
    <3>. HIDE DEF S
    <3>. QED
      BY <2>2
  <2>. QED
    BY <2>3
<1>2. ASSUME NEW m \in Nat, m \in Solved
      PROVE  m + 1 \in Solved
  <2>1. PICK S : S = [k \in 0..m |-> PlacedAfter(f, S, k)]
    BY <1>2
  <2>. DEFINE T == [k \in 0..(m + 1) |-> PlacedAfter(f, S, k)]
  <2>2. \A k \in 0..m : T[k] = S[k]
    BY <2>1
  <2>3. ASSUME NEW k \in 0..(m + 1)
        PROVE  PlacedAfter(f, T, k) = PlacedAfter(f, S, k)
    <3>1. k # 0 => k - 1 \in 0..m
      OBVIOUS
    <3>2. k # 0 => T[k - 1] = S[k - 1]
      BY <2>2, <3>1
    <3>. HIDE DEF T
    <3>. QED
      BY <3>2 DEF PlacedAfter
  <2>4. T = [k \in 0..(m + 1) |-> PlacedAfter(f, T, k)]
    BY <2>3
  <2>5. \E U : U = [k \in 0..(m + 1) |-> PlacedAfter(f, U, k)]
    <3>. HIDE DEF T
    <3>. QED
      BY <2>4
  <2>. QED
    BY <2>5
<1>. HIDE DEF Solved
<1>3. n \in Solved
  BY <1>1, <1>2, AllNumbers
<1>. QED
  BY <1>3 DEF Solved

(* The index holds every record, in order, or there is none.               *)
LEMMA GlyphIndexWorks ==
  ASSUME NEW f, IsPackage(f)
  PROVE  BuildGlyphIndex(f) = <<>> \/ Indexed(f, Count(f, kFontMetadata), BuildGlyphIndex(f))
<1>. DEFINE n == Count(f, kFontMetadata)
            S == CHOOSE S : S = [k \in 0..n |-> PlacedAfter(f, S, k)]
<1>1. n \in Nat
  BY CountTyped
<1>2. BuildGlyphIndex(f) = <<>> \/ BuildGlyphIndex(f) = S[n]
  BY DEF BuildGlyphIndex, PlacedAfter, Inserted, GlyphKey
<1>. HIDE DEF n
<1>3. S = [k \in 0..n |-> PlacedAfter(f, S, k)]
  BY <1>1, PlacedExists
<1>. HIDE DEF S
<1>. DEFINE Right == {k \in Nat : k <= n => Indexed(f, k, S[k])}
<1>4. 0 \in Right
  <2>1. S[0] = <<>>
    BY <1>1, <1>3 DEF PlacedAfter
  <2>2. Indexed(f, 0, <<>>)
    BY DEF Indexed
  <2>. QED
    BY <2>1, <2>2
<1>5. ASSUME NEW k \in Nat, k \in Right
      PROVE  k + 1 \in Right
  <2>. SUFFICES ASSUME k + 1 <= n PROVE Indexed(f, k + 1, S[k + 1])
    OBVIOUS
  <2>1. Indexed(f, k, S[k])
    BY <1>1, <1>5
  <2>2. S[k + 1] = PlacedAfter(f, S, k + 1)
    BY <1>1, <1>3
  <2>3. k + 1 # 0 /\ (k + 1) - 1 = k
    OBVIOUS
  <2>4. S[k + 1] = Inserted(f, S[k], k + 1)
    BY <2>2, <2>3 DEF PlacedAfter
  <2>. QED
    BY <2>1, <2>4, InsertedIndexed
<1>6. n \in Right
  <2>. HIDE DEF Right
  <2>. QED
    BY <1>1, <1>4, <1>5, AllNumbers
<1>. QED
  BY <1>1, <1>2, <1>6 DEF n

-----------------------------------------------------------------------------
(* Opening                                                                 *)

(* A package that opens has a sound table, whatever is done about its      *)
(* checksums.                                                              *)
LEMMA OpenSound ==
  ASSUME NEW f, IsPackage(f), OpenError(f, FALSE) = "kOk"
  PROVE  TableSound(f) /\ CheckIndexConsistency(f) = "kOk"
<1>1. /\ ReadHeader(f) = "kOk" /\ ValidateSectionTable(f) = "kOk"
      /\ CheckIndexConsistency(f) = "kOk"
  <2>. DEFINE afterLayout == Then("kOk", CheckIndexConsistency(f))
              afterFont   == Then(RequireLayoutIfHasWordLayout(f), afterLayout)
              afterType   == Then(RequireFontSectionsIfShaped(f), afterFont)
              afterTable  == Then(RequireSectionsForType(f), afterType)
              afterHead   == Then(ReadSectionTable(f), Then(ValidateSectionTable(f), afterTable))
  <2>1. Then(ReadHeader(f), afterHead) = "kOk"
    BY DEF OpenError
  <2>. HIDE DEF afterTable
  <2>2. ReadHeader(f) = "kOk" /\ ValidateSectionTable(f) = "kOk" /\ afterTable = "kOk"
    BY <2>1 DEF Then
  <2>. USE DEF afterTable
  <2>. HIDE DEF afterLayout
  <2>3. afterLayout = "kOk"
    BY <2>2 DEF Then
  <2>4. CheckIndexConsistency(f) = "kOk"
    BY <2>3 DEF Then, afterLayout
  <2>. QED
    BY <2>2, <2>4
<1>2. f.packageSize = f.size
  BY <1>1 DEF ReadHeader, Rule
<1>. DEFINE n   == Len(f.sections)
            bad == {i \in 1..n : \/ i > 1 /\ f.sections[i].id <= f.sections[i - 1].id
                                 \/ ValidateEntry(f, f.sections[i]) # "kOk"}
            i   == CHOOSE i \in bad : \A j \in bad : i <= j
<1>3. f.sections \in Seq(SectionEntry)
  BY DEF IsPackage
<1>4. bad = {}
  <2>. SUFFICES ASSUME bad # {} PROVE FALSE
    OBVIOUS
  <2>1. bad \in SUBSET Nat
    BY <1>3
  <2>2. \E k \in bad : \A j \in bad : k <= j
    <3>. HIDE DEF bad
    <3>. QED
      BY <2>1, LeastNumber
  <2>3. i \in bad
    BY <2>2
  <2>4. ValidateSectionTable(f) = IF i > 1 /\ f.sections[i].id <= f.sections[i - 1].id
                                  THEN "kSectionOrder" ELSE ValidateEntry(f, f.sections[i])
    BY DEF ValidateSectionTable
  <2>5. (i > 1 /\ f.sections[i].id <= f.sections[i - 1].id) \/ ValidateEntry(f, f.sections[i]) # "kOk"
    BY <2>3
  <2>. HIDE DEF i
  <2>. QED
    BY <1>1, <2>4, <2>5
<1>5. ASSUME NEW k \in 1..n
      PROVE  ValidateEntry(f, f.sections[k]) = "kOk"
  BY <1>4
<1>6. ASSUME NEW k \in 1..n
      PROVE  LET e == f.sections[k]
             IN /\ e.off + e.len <= f.size
                /\ IsFixedIndexSection(e.id) => e.rs = RecordSizeFor(e.id)
                /\ e.rs # 0 => (e.count * e.rs) % W64 = e.len
  <2>. DEFINE e == f.sections[k]
  <2>1. e \in SectionEntry
    BY <1>3
  <2>2. ValidateEntry(f, e) = "kOk"
    BY <1>5
  <2>. HIDE DEF e
  <2>3. WithinBounds(e.off, e.len, f.packageSize)
    BY <2>2 DEF ValidateEntry
  <2>4. /\ IsFixedIndexSection(e.id) => e.rs = RecordSizeFor(e.id)
        /\ e.rs # 0 => (e.count * e.rs) % W64 = e.len
    BY <2>2 DEF ValidateEntry, Rule
  <2>5. e.off \in Nat /\ e.len \in Nat /\ f.size \in Nat
    BY <2>1, SizesTyped, PackageAssumption DEF SectionEntry, Upto
  <2>6. e.off + e.len <= f.size
    BY <1>2, <2>3, <2>5 DEF WithinBounds
  <2>. QED
    BY <2>4, <2>6 DEF e
<1>7. \A e \in Sections(f) : \E k \in 1..n : e = f.sections[k]
  BY <1>3 DEF Sections
<1>. HIDE DEF n
<1>8. TableSound(f)
  BY <1>6, <1>7 DEF TableSound
<1>. QED
  BY <1>1, <1>8

(* The cover is read before that, and stays in the file all the same.      *)
LEMMA CoverInFile ==
  ASSUME NEW f, IsPackage(f)
  PROVE  \A s \in ReadCover(f).reads : s.at + s.n <= f.size
<1>. DEFINE n     == Len(f.sections)
            at    == {i \in 1..n : f.sections[i].id = kCover}
            first == CHOOSE i \in at : \A j \in at : i <= j
            e     == f.sections[first]
<1>1. f.sections \in Seq(SectionEntry)
  BY DEF IsPackage
<1>2. CASE /\ at # {} /\ e.len = 2 /\ WithinBounds(e.off, e.len, f.size)
           /\ ReadCover(f) = Got(0, {Stretch(e, 0, 2)})
  <2>1. at \in SUBSET Nat
    BY <1>1
  <2>2. \E k \in at : \A j \in at : k <= j
    <3>. HIDE DEF at
    <3>. QED
      BY <1>2, <2>1, LeastNumber
  <2>3. first \in at
    BY <2>2
  <2>4. e \in SectionEntry
    <3>1. first \in 1..n
      BY <2>3
    <3>. HIDE DEF first
    <3>. QED
      BY <1>1, <3>1
  <2>. HIDE DEF e
  <2>5. e.off \in Nat /\ f.size \in Nat /\ f.size < W64 /\ W64 \in Nat \ {0}
    BY <2>4, SizesTyped, PackageAssumption DEF SectionEntry, Upto
  <2>6. e.off + 2 <= f.size
    BY <1>2, <2>5 DEF WithinBounds
  <2>7. e.off + 0 = e.off /\ e.off \in 0..(W64 - 1)
    BY <2>5, <2>6
  <2>8. (e.off + 0) % W64 = e.off
    BY <2>5, <2>7, Small
  <2>9. ReadCover(f).reads = {[id |-> e.id, at |-> e.off, n |-> 2]}
    BY <1>2, <2>8 DEF Got, Stretch
  <2>. QED
    BY <2>6, <2>9
<1>3. CASE ReadCover(f).reads = {}
  BY <1>3
<1>4. \/ \E error : ReadCover(f) = Fail(error)
      \/ /\ at # {} /\ e.len = 2 /\ WithinBounds(e.off, e.len, f.size)
         /\ ReadCover(f) = Got(0, {Stretch(e, 0, 2)})
  <2>. HIDE DEF e
  <2>. QED
    BY Zenon DEF ReadCover, e
<1>. QED
  BY <1>2, <1>3, <1>4 DEF Fail

(* A list with one more build is a list.                                   *)
LEMMA AddTyped ==
  ASSUME NEW S, NEW list \in Seq(S), NEW fp \in S
  PROVE  Add(list, fp) \in Seq(S)
<1>. DEFINE at   == {i \in DOMAIN list : Same(list[i], fp)}
            last == IF at # {} THEN (CHOOSE i \in at : \A j \in at : i <= j) - 1
                    ELSE IF Len(list) < MaxVerified THEN Len(list) ELSE MaxVerified - 1
<1>1. last \in 0..Len(list)
  <2>1. CASE at # {}
    <3>1. at \in SUBSET Nat
      OBVIOUS
    <3>2. \E k \in at : \A j \in at : k <= j
      <4>. HIDE DEF at
      <4>. QED
        BY <2>1, <3>1, LeastNumber
    <3>3. PICK k \in at : k = (CHOOSE i \in at : \A j \in at : i <= j)
      BY <3>2
    <3>4. last = k - 1 /\ k \in 1..Len(list)
      BY <2>1, <3>3
    <3>. QED
      BY <3>4
  <2>2. CASE at = {}
    BY <2>2, PackageAssumption
  <2>. QED
    BY <2>1, <2>2
<1>2. Add(list, fp) = <<fp>> \o SubSeq(list, 1, last) \o SubSeq(list, last + 2, Len(list))
  BY DEF Add
<1>. HIDE DEF last
<1>3. SubSeq(list, 1, last) \in Seq(S)
  <2>1. \A i \in 1..last : list[i] \in S
    BY <1>1
  <2>. QED
    BY <1>1, <2>1, SubSeqProperties
<1>4. SubSeq(list, last + 2, Len(list)) \in Seq(S)
  <2>1. \A i \in (last + 2)..Len(list) : list[i] \in S
    BY <1>1
  <2>. QED
    BY <1>1, <2>1, SubSeqProperties
<1>. DEFINE b == SubSeq(list, 1, last)
            c == SubSeq(list, last + 2, Len(list))
<1>. HIDE DEF b, c
<1>5. <<fp>> \o b \o c \in Seq(S)
  BY <1>3, <1>4 DEF b, c
<1>. QED
  BY <1>2, <1>5 DEF b, c

-----------------------------------------------------------------------------
(* Looking up                                                              *)

LEMMA LatestIs ==
  ASSUME NEW S \in SUBSET Nat, NEW m \in S, \A j \in S : j <= m
  PROVE  Latest(S) = m
<1>. DEFINE l == CHOOSE i \in S : \A j \in S : j <= i
<1>1. l \in S /\ \A j \in S : j <= l
  OBVIOUS
<1>. HIDE DEF l
<1>2. l <= m /\ m <= l /\ l \in Nat /\ m \in Nat
  BY <1>1
<1>3. l = m
  BY <1>2
<1>. QED
  BY <1>3 DEF Latest, l

(* In records that are in order and can be read, the search ends at the    *)
(* last one at or before the word, and fails if there is none.             *)
LEMMA FindWorks ==
  ASSUME NEW f, NEW n \in Nat, NEW get, NEW id, NEW word,
         \A i \in 0..(n - 1) : get[i].err = "kOk",
         InOrder(n, [i \in 0..(n - 1) |-> Rec(f, id, i).first], word)
  PROVE  LET r == FindByWordIndex(f, n, get, id, word)
             S == {i \in 0..(n - 1) : Rec(f, id, i).first <= word}
         IN /\ (r.err = "kOk") = (S # {})
            /\ r.err = "kOk" => r.val \in S /\ \A j \in S : j <= r.val
<1>. DEFINE starts == [i \in 0..(n - 1) |-> Rec(f, id, i).first]
            found  == UpperBound(n, starts, word)
            read   == {get[i] : i \in found.probes}
            reads  == UNION {r.reads : r \in read}
            r      == FindByWordIndex(f, n, get, id, word)
            S      == {i \in 0..(n - 1) : Rec(f, id, i).first <= word}
<1>1. Searches(n, starts, word, 0, n, found)
  BY UpperBoundWorks
<1>2. found.at \in 0..n /\ found.probes \subseteq 0..(n - 1)
  BY <1>1 DEF Searches
<1>3. Known(n, starts, word, 0, n)
  BY DEF Known
<1>4. Known(n, starts, word, found.at, found.at)
  BY <1>1, <1>3 DEF Searches
<1>. HIDE DEF found
<1>5. \A q \in read : q.err = "kOk"
  BY <1>2
<1>6. \A i \in 0..(n - 1) : (i \in S) = (i < found.at)
  BY <1>2, <1>4 DEF Known
<1>7. r = IF n = 0 THEN Fail("kNoSuchSection")
          ELSE IF found.at = 0 THEN [Fail("kOutOfRange") EXCEPT !.reads = reads]
          ELSE Got(found.at - 1, reads)
  BY <1>5 DEF FindByWordIndex, LastBefore, found
<1>. HIDE DEF r, reads
<1>8. CASE n = 0
  <2>1. S = {}
    BY <1>8
  <2>2. r.err # "kOk"
    BY <1>7, <1>8 DEF Fail
  <2>. QED
    BY <2>1, <2>2 DEF r
<1>9. CASE n # 0 /\ found.at = 0
  <2>1. S = {}
    BY <1>6, <1>9
  <2>2. r.err # "kOk"
    BY <1>7, <1>9 DEF Fail
  <2>. QED
    BY <2>1, <2>2 DEF r
<1>10. CASE n # 0 /\ found.at # 0
  <2>1. r.err = "kOk" /\ r.val = found.at - 1
    BY <1>7, <1>10 DEF Got
  <2>2. found.at - 1 \in S
    BY <1>2, <1>6, <1>10
  <2>3. \A j \in S : j <= found.at - 1
    BY <1>2, <1>6, <1>10
  <2>4. /\ (r.err = "kOk") = (S # {})
        /\ r.err = "kOk" => r.val \in S /\ \A j \in S : j <= r.val
    BY <2>1, <2>2, <2>3
  <2>. QED
    BY <2>4 DEF r
<1>. QED
  BY <1>8, <1>9, <1>10

LEMMA FirstTyped ==
  ASSUME NEW f, IsPackage(f), NEW id, NEW i \in Nat
  PROVE  Rec(f, id, i).first \in Nat /\ Rec(f, id, i).n \in Nat
BY RecTyped, PackageAssumption DEF Record, Upto

(* A search whose records ascend and can be read answers as Finds says.    *)
LEMMA SearchFinds ==
  ASSUME IsPackage(card), NEW n \in Nat, NEW get, NEW id, NEW word \in Nat,
         \A i \in 0..(n - 1) : get[i].err = "kOk",
         answer.arg = <<word>>,
         LET r == FindByWordIndex(card, n, get, id, word)
         IN answer.res.err = r.err /\ answer.res.val = r.val
  PROVE  Finds(id, n)
<1>. DEFINE starts == [i \in 0..(n - 1) |-> Rec(card, id, i).first]
            S == {i \in 0..(n - 1) : Rec(card, id, i).first <= word}
            r == FindByWordIndex(card, n, get, id, word)
<1>0. AtOrBefore(id, n, answer.arg[1]) = S
  BY DEF AtOrBefore
<1>. SUFFICES ASSUME Ascends(id, n)
              PROVE  /\ (r.err = "kOk") = (S # {})
                     /\ r.err = "kOk" => r.val = Latest(S)
  <2>. HIDE DEF S, r
  <2>. QED
    BY <1>0 DEF Finds, r
<1>1. \A i \in 0..(n - 1) : starts[i] \in Nat
  BY FirstTyped
<1>2. \A i, j \in 0..(n - 1) : i < j => starts[i] < starts[j]
  BY DEF Ascends
<1>. HIDE DEF starts
<1>3. InOrder(n, starts, word)
  <2>1. \A i, j \in 0..(n - 1) : i <= j => starts[i] <= starts[j]
    <3>. SUFFICES ASSUME NEW i \in 0..(n - 1), NEW j \in 0..(n - 1), i <= j
                  PROVE  starts[i] <= starts[j]
      OBVIOUS
    <3>1. i = j \/ i < j
      OBVIOUS
    <3>. QED
      BY <1>1, <1>2, <3>1
  <2>. QED
    BY <1>1, <2>1 DEF InOrder
<1>4. /\ (r.err = "kOk") = (S # {})
      /\ r.err = "kOk" => r.val \in S /\ \A j \in S : j <= r.val
  BY <1>3, FindWorks DEF starts
<1>5. S \in SUBSET Nat
  OBVIOUS
<1>. HIDE DEF r, S
<1>. QED
  BY <1>4, <1>5, LatestIs

(* The index records of a section in a sound table can all be read.        *)
LEMMA IndexReads ==
  ASSUME NEW f, IsPackage(f), TableSound(f), NEW i \in 0..(Count(f, kAyahIndex) - 1)
  PROVE  GetAyahByIndex(f, i).err = "kOk"
<1>. DEFINE e == Entry(f, kAyahIndex)
<1>1. Has(f, kAyahIndex) /\ i \in Nat /\ i < e.count /\ e.count \in Nat
  <2>1. Has(f, kAyahIndex)
    BY DEF Count
  <2>2. e.count \in Nat
    BY <2>1, EntryTyped, PackageAssumption DEF SectionEntry, Upto
  <2>3. Count(f, kAyahIndex) = e.count
    BY <2>1 DEF Count
  <2>. HIDE DEF e
  <2>. QED
    BY <2>1, <2>2, <2>3
<1>2. e \in Sections(f) /\ e.id = kAyahIndex
  BY <1>1, EntryTyped
<1>3. RecordSizeFor(kAyahIndex) = 2
  BY DEF RecordSizeFor, kAyahIndex, kSurahIndex, kPageIndex, kWordIndex, kTranslationIndex,
         kFontMetadata, kChapterIndex, kTextIndex, kPageImageIndex
<1>4. e.rs = 2
  BY <1>2, <1>3 DEF TableSound, IsFixedIndexSection
<1>. HIDE DEF e
<1>5. GetAyahByIndex(f, i) = Got(i, {Stretch(e, i * e.rs, e.rs)})
  BY <1>1, <1>4 DEF GetAyahByIndex, ReadRecordBytes, kMaxRecordSize, e
<1>. QED
  BY <1>5 DEF Got

LEMMA AyahOfWordFinds ==
  ASSUME IsPackage(card), TableSound(card), NEW w \in Nat,
         answer.arg = <<w>>, answer.res = FindAyahByWordIndex(card, w)
  PROVE  Finds(kAyahIndex, Count(card, kAyahIndex))
<1>. DEFINE n   == Count(card, kAyahIndex)
            get == [i \in 0..(n - 1) |-> GetAyahByIndex(card, i)]
<1>1. n \in Nat
  BY CountTyped
<1>2. \A i \in 0..(n - 1) : get[i].err = "kOk"
  BY IndexReads
<1>3. answer.res = FindByWordIndex(card, n, get, kAyahIndex, w)
  BY DEF FindAyahByWordIndex
<1>. HIDE DEF n, get
<1>4. Finds(kAyahIndex, n)
  BY <1>1, <1>2, <1>3, SearchFinds
<1>. QED
  BY <1>4 DEF n

LEMMA LineOfWordFinds ==
  ASSUME IsPackage(card), TableSound(card), NEW w \in Nat, GetLayoutHeader(card).err = "kOk",
         answer.arg = <<w>>, answer.res = FindLineByWordIndex(card, w)
  PROVE  Finds(kLayoutData, card.lineTotal)
<1>. DEFINE n    == card.lineTotal
            get  == [i \in 0..(n - 1) |-> GetLine(card, i)]
            find == FindByWordIndex(card, n, get, kLayoutData, w)
            head == GetLayoutHeader(card)
<1>1. n \in Nat
  BY SizesTyped
<1>2. \A i \in 0..(n - 1) : get[i].err = "kOk"
  <2>. SUFFICES ASSUME NEW i \in 0..(n - 1) PROVE GetLine(card, i).err = "kOk"
    OBVIOUS
  <2>. DEFINE read == {Stretch(Entry(card, kLayoutData), card.linesAt + i, 1)}
  <2>1. ~ (i >= card.lineTotal)
    BY <1>1
  <2>. HIDE DEF read
  <2>2. GetLine(card, i) = Chain(head, Got(i, read))
    BY <2>1 DEF GetLine, read
  <2>. HIDE DEF head
  <2>3. head.err = "kOk"
    BY DEF head
  <2>. QED
    BY <2>2, <2>3 DEF Chain, Got
<1>. HIDE DEF get
<1>3. answer.res = Chain(head, find)
  BY DEF FindLineByWordIndex, get
<1>4. Clean(card, find)
  <2>1. \A i \in 0..(n - 1) : Clean(card, get[i])
    BY <1>1, LineClean DEF get
  <2>. HIDE DEF n
  <2>. QED
    BY <1>1, <2>1, FindClean DEF n
<1>. HIDE DEF find, head
<1>5. answer.res.err = find.err /\ answer.res.val = find.val
  <2>1. head.err = "kOk"
    BY DEF head
  <2>. QED
    BY <1>3, <1>4, <2>1 DEF Chain, Clean
<1>. HIDE DEF n
<1>6. Finds(kLayoutData, n)
  <2>1. LET r == FindByWordIndex(card, n, get, kLayoutData, w)
        IN answer.res.err = r.err /\ answer.res.val = r.val
    BY <1>5 DEF find
  <2>. QED
    BY <1>1, <1>2, <2>1, SearchFinds
<1>. QED
  BY <1>6 DEF n

(* In a table with glyph ids in order, the bound is the first of the glyph. *)
LEMMA IndexedGlyphFinds ==
  ASSUME IsPackage(card), NEW glyph \in Nat, Has(card, kFontMetadata),
         glyphs # <<>>, Indexed(card, Count(card, kFontMetadata), glyphs),
         answer.arg = <<glyph>>, answer.res = GetGlyph(card, glyph)
  PROVE  FindsGlyph
<1>. DEFINE n == Count(card, kFontMetadata)
            keyed  == {i \in 0..(n - 1) : GlyphKey(card, i) = glyph}
            starts == [i \in 0..(n - 1) |-> GlyphKey(card, glyphs[i + 1]) + 1]
            found  == UpperBound(n, starts, glyph)
            low    == found.at
<1>0. n \in Nat /\ Len(glyphs) = n
  <2>1. n \in Nat
    BY CountTyped
  <2>2. glyphs \in [1..n -> 0..(n - 1)]
    BY DEF Indexed
  <2>. HIDE DEF n
  <2>. QED
    BY <2>1, <2>2
<1>1. answer.res = IF low < n /\ GlyphKey(card, glyphs[low + 1]) = glyph
                   THEN Got(glyphs[low + 1], {}) ELSE Fail("kOutOfRange")
  BY <1>0 DEF GetGlyph, GlyphKey
<1>2. FindsGlyph = /\ (answer.res.err = "kOk") = (keyed # {})
                   /\ answer.res.err = "kOk" =>
                        answer.res.val \in keyed /\ \A i \in keyed : answer.res.val <= i
  BY DEF FindsGlyph, GlyphKey
<1>. HIDE DEF n
<1>3. Indexed(card, n, glyphs)
  BY DEF n
<1>4. /\ \A p \in 1..n : glyphs[p] \in 0..(n - 1) /\ GlyphKey(card, glyphs[p]) \in Nat
      /\ \A p, q \in 1..n : p < q => GlyphKey(card, glyphs[p]) <= GlyphKey(card, glyphs[q])
  BY <1>0, <1>3, IndexedMeans
<1>5. /\ \A i \in 0..(n - 1) : \E p \in 1..n : glyphs[p] = i
      /\ \A p, q \in 1..n : p < q =>
           \/ GlyphKey(card, glyphs[p]) < GlyphKey(card, glyphs[q])
           \/ GlyphKey(card, glyphs[p]) = GlyphKey(card, glyphs[q]) /\ glyphs[p] < glyphs[q]
  BY <1>3 DEF Indexed
<1>6. \A i \in 0..(n - 1) : i + 1 \in 1..n /\ starts[i] = GlyphKey(card, glyphs[i + 1]) + 1
  BY <1>0
<1>. HIDE DEF starts
<1>7. InOrder(n, starts, glyph)
  <2>. SUFFICES ASSUME NEW i \in 0..(n - 1), NEW j \in 0..(n - 1), i <= j, starts[j] <= glyph
                PROVE  starts[i] <= glyph
    BY DEF InOrder
  <2>1. CASE i = j
    BY <2>1
  <2>2. CASE i < j
    <3>1. i + 1 < j + 1
      BY <2>2
    <3>2. GlyphKey(card, glyphs[i + 1]) <= GlyphKey(card, glyphs[j + 1])
      BY <1>4, <1>6, <3>1
    <3>. QED
      BY <1>4, <1>6, <3>2
  <2>. QED
    BY <2>1, <2>2
<1>8. Searches(n, starts, glyph, 0, n, found)
  BY <1>0, UpperBoundWorks
<1>9. low \in 0..n /\ Known(n, starts, glyph, low, low)
  <2>1. Known(n, starts, glyph, 0, n)
    BY <1>0 DEF Known
  <2>. QED
    BY <1>7, <1>8, <2>1 DEF Searches
<1>. HIDE DEF found
<1>. HIDE DEF low
<1>10. \A p \in 1..n : (p <= low) = (GlyphKey(card, glyphs[p]) < glyph)
  <2>. SUFFICES ASSUME NEW p \in 1..n
                PROVE  (p <= low) = (GlyphKey(card, glyphs[p]) < glyph)
    OBVIOUS
  <2>1. PICK i \in 0..(n - 1) : i + 1 = p
    <3>1. p - 1 \in 0..(n - 1) /\ (p - 1) + 1 = p
      BY <1>0
    <3>. QED
      BY <3>1
  <2>2. starts[i] = GlyphKey(card, glyphs[p]) + 1 /\ GlyphKey(card, glyphs[p]) \in Nat
    BY <1>4, <1>6, <2>1
  <2>3. (i < low => starts[i] <= glyph) /\ (i >= low => ~ (starts[i] <= glyph))
    BY <1>9 DEF Known
  <2>. QED
    BY <1>0, <1>9, <2>1, <2>2, <2>3
<1>11. CASE low < n /\ GlyphKey(card, glyphs[low + 1]) = glyph
  <2>1. low + 1 \in 1..n
    BY <1>0, <1>9, <1>11
  <2>2. answer.res.err = "kOk" /\ answer.res.val = glyphs[low + 1]
    BY <1>1, <1>11 DEF Got
  <2>3. glyphs[low + 1] \in keyed
    BY <1>4, <1>11, <2>1
  <2>4. ASSUME NEW i \in keyed
        PROVE  glyphs[low + 1] <= i
    <3>1. PICK p \in 1..n : glyphs[p] = i
      BY <1>5
    <3>2. ~ (p <= low)
      BY <1>10, <3>1
    <3>3. p = low + 1 \/ low + 1 < p
      BY <1>0, <1>9, <3>2
    <3>4. CASE low + 1 < p
      <4>1. \/ GlyphKey(card, glyphs[low + 1]) < GlyphKey(card, glyphs[p])
            \/ glyphs[low + 1] < glyphs[p]
        BY <1>5, <2>1, <3>4
      <4>2. GlyphKey(card, glyphs[p]) = glyph
        BY <3>1
      <4>. QED
        BY <1>0, <1>4, <1>11, <2>1, <3>1, <4>1, <4>2
    <3>. QED
      BY <1>0, <1>4, <2>1, <3>1, <3>3, <3>4
  <2>. HIDE DEF keyed
  <2>. QED
    BY <1>2, <2>2, <2>3, <2>4
<1>12. CASE ~ (low < n /\ GlyphKey(card, glyphs[low + 1]) = glyph)
  <2>1. answer.res.err # "kOk"
    BY <1>1, <1>12 DEF Fail
  <2>2. ASSUME NEW i \in keyed PROVE FALSE
    <3>1. PICK p \in 1..n : glyphs[p] = i
      BY <1>5
    <3>2. GlyphKey(card, glyphs[p]) = glyph
      BY <3>1
    <3>3. ~ (p <= low)
      BY <1>10, <3>2
    <3>4. low < n /\ low + 1 \in 1..n /\ (p = low + 1 \/ low + 1 < p)
      BY <1>0, <1>9, <3>3
    <3>5. GlyphKey(card, glyphs[low + 1]) <= glyph
      BY <1>4, <3>2, <3>4
    <3>6. ~ (GlyphKey(card, glyphs[low + 1]) < glyph)
      BY <1>9, <1>10, <3>4
    <3>. QED
      BY <1>4, <1>12, <3>4, <3>5, <3>6
  <2>. HIDE DEF keyed
  <2>. QED
    BY <1>2, <2>1, <2>2
<1>. QED
  BY <1>11, <1>12

(* With the index or without, a glyph is the first record with its id.     *)
LEMMA GlyphFinds ==
  ASSUME IsPackage(card), NEW glyph \in Nat,
         glyphs \in {<<>>, BuildGlyphIndex(card)},
         answer.arg = <<glyph>>, answer.res = GetGlyph(card, glyph)
  PROVE  FindsGlyph
<1>. DEFINE n == Count(card, kFontMetadata)
            keyed == {i \in 0..(n - 1) : GlyphKey(card, i) = glyph}
            stop  == CHOOSE i \in keyed : \A j \in keyed : i <= j
<1>1. n \in Nat
  BY CountTyped
<1>2. FindsGlyph = /\ (answer.res.err = "kOk") = (keyed # {})
                   /\ answer.res.err = "kOk" =>
                        answer.res.val \in keyed /\ \A i \in keyed : answer.res.val <= i
  BY DEF FindsGlyph, GlyphKey
<1>3. CASE ~ Has(card, kFontMetadata)
  <2>1. n = 0
    BY <1>3 DEF Count
  <2>2. keyed = {}
    BY <2>1
  <2>3. answer.res.err # "kOk"
    BY <1>3 DEF GetGlyph, Fail
  <2>. HIDE DEF keyed
  <2>. QED
    BY <1>2, <2>2, <2>3
<1>4. CASE Has(card, kFontMetadata) /\ glyphs # <<>>
  <2>1. Indexed(card, n, glyphs)
    BY <1>4, GlyphIndexWorks
  <2>. QED
    BY <1>4, <2>1, IndexedGlyphFinds
<1>5. CASE Has(card, kFontMetadata) /\ glyphs = <<>> /\ keyed = {}
  <2>1. \E reads : answer.res = [Fail("kOutOfRange") EXCEPT !.reads = reads] \/ answer.res = Fail("kOutOfRange")
    BY <1>5, Zenon DEF GetGlyph, GlyphKey
  <2>2. answer.res.err # "kOk"
    BY <2>1 DEF Fail
  <2>. HIDE DEF keyed
  <2>. QED
    BY <1>2, <1>5, <2>2
<1>6. CASE Has(card, kFontMetadata) /\ glyphs = <<>> /\ keyed # {}
  <2>0. n # 0
    BY <1>1, <1>6
  <2>1. \E reads : answer.res = Got(stop, reads)
    BY <1>6, <2>0 DEF GetGlyph, GlyphKey
  <2>2. answer.res.err = "kOk" /\ answer.res.val = stop
    <3>. HIDE DEF stop
    <3>. QED
      BY <2>1 DEF Got
  <2>3. keyed \in SUBSET Nat
    BY <1>1
  <2>4. \E i \in keyed : \A j \in keyed : i <= j
    <3>. HIDE DEF keyed
    <3>. QED
      BY <1>6, <2>3, LeastNumber
  <2>5. stop \in keyed /\ \A j \in keyed : stop <= j
    <3>. HIDE DEF keyed
    <3>. QED
      BY <2>4
  <2>. HIDE DEF keyed, stop
  <2>. QED
    BY <1>2, <1>6, <2>2, <2>5
<1>. QED
  BY <1>3, <1>4, <1>5, <1>6

LEMMA ChainOk ==
  ASSUME NEW f, NEW r, NEW next, Clean(f, r), Clean(f, next), Chain(r, next).err = "kOk"
  PROVE  r.err = "kOk" /\ next.err = "kOk" /\ Chain(r, next).val = next.val
BY DEF Chain, Clean

LEMMA RecordOk ==
  ASSUME NEW f, IsPackage(f), NEW id, NEW i \in Nat, ReadRecordBytes(f, id, i).err = "kOk"
  PROVE  /\ Has(f, id) /\ i < Entry(f, id).count /\ i \in 0..(Count(f, id) - 1)
         /\ ReadRecordBytes(f, id, i).val = i
<1>. DEFINE e == Entry(f, id)
            read == {Stretch(e, i * e.rs, e.rs)}
<1>1. Has(f, id) /\ ~ (i >= e.count) /\ ReadRecordBytes(f, id, i) = Got(i, read)
  <2>. HIDE DEF read, e
  <2>. QED
    BY DEF ReadRecordBytes, Fail, e, read
<1>2. e.count \in Nat
  BY <1>1, EntryTyped, PackageAssumption DEF SectionEntry, Upto
<1>. HIDE DEF read
<1>. QED
  BY <1>1, <1>2 DEF Got, Count

(* An ayah that is found says it is the one.                               *)
LEMMA AyahFound ==
  ASSUME NEW f, IsPackage(f), TableSound(f), NEW s \in Nat, NEW a \in Nat,
         GetAyah(f, s, a).err = "kOk"
  PROVE  LET i == GetAyah(f, s, a).val
         IN /\ i \in 0..(Count(f, kAyahIndex) - 1)
            /\ Rec(f, kAyahIndex, i).surah = s /\ Rec(f, kAyahIndex, i).key = a
<1>. DEFINE surah == Rec(f, kSurahIndex, s - 1)
            index == (surah.first + a - 1) % W32
            ayah  == Rec(f, kAyahIndex, index)
            found == IF ayah.surah = s /\ ayah.key = a THEN Got(index, {}) ELSE Fail("kIndexInconsistent")
            record == ReadRecordBytes(f, kAyahIndex, index)
            next  == IF a = 0 \/ a > surah.n THEN Fail("kOutOfRange") ELSE Chain(record, found)
            head  == GetSurah(f, s)
<1>1. Clean(f, head)
  BY NumberedClean DEF GetSurah
<1>2. index \in Nat
  <2>0. s # 0
    <3>1. s = 0 => head = Fail("kNoSuchSection") \/ head = Fail("kOutOfRange")
      BY DEF GetSurah, GetNumbered
    <3>2. head.err = "kOk"
      <4>. HIDE DEF head, index, next
      <4>. QED
        BY DEF GetAyah, Chain, head, index, next
    <3>. HIDE DEF head
    <3>. QED
      BY <3>1, <3>2 DEF Fail
  <2>1. surah \in Record
    BY <2>0, RecTyped
  <2>2. surah.first + a - 1 \in Int
    BY <2>1, PackageAssumption DEF Record, Upto
  <2>. QED
    BY <2>2, IndexWraps
<1>3. Clean(f, record)
  BY <1>2, RecordClean
<1>4. Clean(f, found)
  BY <1>2, FailClean, GotClean
<1>5. GetAyah(f, s, a) = Chain(head, next)
  BY DEF GetAyah
<1>. HIDE DEF found, record, index
<1>6. Clean(f, next)
  BY <1>3, <1>4, FailClean, ChainClean
<1>. HIDE DEF next, head
<1>7. next.err = "kOk" /\ GetAyah(f, s, a).val = next.val
  BY <1>1, <1>5, <1>6, ChainOk
<1>8. next = Chain(record, found)
  BY <1>7 DEF next, Fail
<1>9. record.err = "kOk" /\ found.err = "kOk" /\ next.val = found.val
  BY <1>3, <1>4, <1>7, <1>8, ChainOk
<1>10. ayah.surah = s /\ ayah.key = a /\ found.val = index
  BY <1>9 DEF found, Fail, Got
<1>11. index \in 0..(Count(f, kAyahIndex) - 1)
  BY <1>2, <1>9, RecordOk DEF record
<1>. QED
  BY <1>7, <1>9, <1>10, <1>11

(* A word by surah and ayah is in the ayah that the search gives for it,   *)
(* where the ayahs' words are apart: no index wrapped on the way.          *)
LEMMA WordFinds ==
  ASSUME IsPackage(card), TableSound(card), CheckIndexConsistency(card) = "kOk",
         NEW s \in Nat, NEW a \in Nat, NEW w \in Nat,
         answer.arg = <<s, a, w>>, answer.res = GetWord(card, s, a, w), answer.res.err = "kOk"
  PROVE  WordInItsAyah
<1>. DEFINE n    == Count(card, kAyahIndex)
            r    == GetAyah(card, s, a)
            i    == r.val
            ayah == Rec(card, kAyahIndex, i)
            word == (ayah.first + w) % W32
            record == ReadRecordBytes(card, kWordIndex, word)
            next == IF w >= ayah.n THEN Fail("kOutOfRange") ELSE record
            S    == AtOrBefore(kAyahIndex, n, answer.res.val)
<1>. SUFFICES ASSUME Apart(kAyahIndex, n)
              PROVE  Latest(S) = i /\ ayah.surah = s /\ ayah.key = a
  BY DEF WordInItsAyah
<1>1. Clean(card, r) /\ i \in Nat
  BY AyahClean DEF Clean
<1>2. \A j \in Nat : /\ Rec(card, kAyahIndex, j).first \in Upto(W32)
                     /\ Rec(card, kAyahIndex, j).n \in Nat
                     /\ Rec(card, kAyahIndex, j).first \in Nat
  BY RecTyped, PackageAssumption DEF Record, Upto
<1>3. word \in Nat
  <2>1. ayah.first + w \in Int
    BY <1>1, <1>2
  <2>. QED
    BY <2>1, IndexWraps
<1>4. Clean(card, record)
  BY <1>3, RecordClean
<1>5. answer.res = Chain(r, next)
  BY DEF GetWord
<1>. HIDE DEF r, record, i
<1>6. Clean(card, next)
  BY <1>4, FailClean
<1>. HIDE DEF next
<1>7. r.err = "kOk" /\ next.err = "kOk" /\ answer.res.val = next.val
  BY <1>1, <1>5, <1>6, ChainOk
<1>8. w < ayah.n /\ next = record
  BY <1>1, <1>2, <1>7 DEF next, Fail
<1>. HIDE DEF word
<1>9. Has(card, kWordIndex) /\ answer.res.val = word
  BY <1>3, <1>7, <1>8, RecordOk DEF record
<1>10. i \in 0..(n - 1) /\ ayah.surah = s /\ ayah.key = a
  BY <1>7, AyahFound DEF r, i
<1>11. n \in Nat /\ Count(card, kWordIndex) \in Nat /\ Count(card, kWordIndex) < W32
  BY CountTyped, EntryTyped, PackageAssumption DEF Count, SectionEntry, Upto
<1>. HIDE DEF n
<1>12. \A j \in 0..(n - 1) : i < j => ayah.first + ayah.n <= Rec(card, kAyahIndex, j).first
  BY <1>10 DEF Apart
<1>13. ayah.first + ayah.n <= W32
  <2>1. CASE i = n - 1
    <3>1. WithinBounds(ayah.first, ayah.n, Count(card, kWordIndex))
      <4>1. n > 0
        BY <1>10, <1>11
      <4>. QED
        BY <1>9, <2>1, <4>1 DEF CheckIndexConsistency, Rule, n
    <3>. QED
      BY <1>1, <1>2, <1>11, <3>1, PackageAssumption DEF WithinBounds
  <2>2. CASE i # n - 1
    <3>1. n - 1 \in 0..(n - 1) /\ i < n - 1
      BY <1>10, <1>11, <2>2
    <3>2. ayah.first + ayah.n <= Rec(card, kAyahIndex, n - 1).first
      BY <1>12, <3>1
    <3>3. Rec(card, kAyahIndex, n - 1).first \in 0..(W32 - 1)
      BY <1>2, <3>1 DEF Upto
    <3>. QED
      BY <1>1, <1>2, <3>2, <3>3, PackageAssumption
  <2>. QED
    BY <2>1, <2>2
<1>14. word = ayah.first + w
  <2>1. ayah.first + w \in 0..(W32 - 1)
    BY <1>1, <1>2, <1>8, <1>13, PackageAssumption
  <2>. QED
    BY <2>1, Small, PackageAssumption DEF word
<1>15. S = {j \in 0..(n - 1) : Rec(card, kAyahIndex, j).first <= ayah.first + w}
  BY <1>9, <1>14 DEF AtOrBefore
<1>16. i \in S
  BY <1>1, <1>2, <1>10, <1>15
<1>17. ASSUME NEW j \in S PROVE j <= i
  <2>1. j \in 0..(n - 1) /\ j \in Nat /\ Rec(card, kAyahIndex, j).first <= ayah.first + w
    BY <1>11, <1>15
  <2>2. i < j => ayah.first + ayah.n <= Rec(card, kAyahIndex, j).first
    BY <1>12, <2>1
  <2>3. Rec(card, kAyahIndex, j).first \in Nat /\ ayah.first \in Nat /\ ayah.n \in Nat
    BY <1>1, <1>2, <2>1
  <2>. QED
    BY <1>1, <1>8, <2>1, <2>2, <2>3
<1>18. S \in SUBSET Nat
  BY <1>11, <1>15
<1>19. Latest(S) = i
  <2>. HIDE DEF S
  <2>. QED
    BY <1>16, <1>17, <1>18, LatestIs
<1>. QED
  BY <1>10, <1>19

-----------------------------------------------------------------------------
(* The invariant                                                           *)

PackageTyped ==
  /\ IsPackage(card) /\ rotted \in BOOLEAN /\ opened \in BOOLEAN
  /\ glyphs \in Seq(Nat)
  /\ verified \in Seq(Checked) /\ saved \in Seq(Checked)

(* What is on the card came there whole, or fails its checksums.           *)
CardKnown ==
  /\ ~rotted => card \in Cards
  /\ rotted => VerifyFixedIndexChecksums(card) # "kOk"

(* What opening found still holds, as far as the card has not gone bad.    *)
OpenFound ==
  /\ opened => TableSound(card)
  /\ opened /\ ~rotted => /\ CheckIndexConsistency(card) = "kOk"
                          /\ glyphs \in {<<>>, BuildGlyphIndex(card)}

(* The last answer is of this card and this glyph index.                   *)
Given(op, arg, res) == answer = [op |-> op, arg |-> arg, res |-> res]
Blobs == {<<kWordIndex, kAssets>>, <<kTextIndex, kTextData>>, <<kAyahIndex, kTextData>>,
          <<kFontMetadata, kAssets>>, <<kTranslationIndex, kTranslationData>>}
Asked ==
  \/ \E n \in Numbers : Given("page", <<n>>, GetNumbered(card, kPageIndex, n))
  \/ \E s \in Numbers : Given("surah", <<s>>, GetSurah(card, s))
  \/ \E s, a \in Numbers : Given("ayah", <<s, a>>, GetAyah(card, s, a))
  \/ \E s, a, w \in Numbers : Given("word", <<s, a, w>>, GetWord(card, s, a, w))
  \/ \E w \in Words : Given("ayahOfWord", <<w>>, FindAyahByWordIndex(card, w))
  \/ \E w \in Words : Given("lineOfWord", <<w>>, FindLineByWordIndex(card, w))
  \/ \E i \in Numbers : \E b \in Blobs : Given("text", <<i, b>>, TextOf(card, b[1], i, b[2]))
  \/ \E i \in Numbers : Given("image", <<i>>, ReadPageImage(card, i, TextCapacity))
  \/ \E g \in Numbers : Given("glyph", <<g>>, GetGlyph(card, g))
  \/ \E a \in Numbers : Given("marker", <<a>>, MarkerGlyph(card, a))
AnswerGiven ==
  \/ answer = Nothing
  \/ opened /\ Asked
  \/ ~opened /\ Given("cover", <<>>, ReadCover(card))

PackageInv == PackageTyped /\ CardKnown /\ OpenIsSound /\ OpenFound /\ AnswerGiven

LEMMA PackageInitial ==
  PackageInit => PackageInv
<1>. SUFFICES ASSUME PackageInit PROVE PackageInv
  OBVIOUS
<1>. USE DEF PackageInit
<1>1. card \in Cards /\ IsPackage(card)
  BY CardsAssumption DEF Cards
<1>2. PackageTyped
  <2>1. <<>> \in Seq(Nat) /\ <<>> \in Seq(Checked)
    OBVIOUS
  <2>. QED
    BY <1>1, <2>1 DEF PackageTyped
<1>3. CardKnown /\ OpenIsSound /\ OpenFound /\ AnswerGiven
  BY <1>1 DEF CardKnown, OpenIsSound, OpenFound, AnswerGiven
<1>. QED
  BY <1>2, <1>3 DEF PackageInv

(* A build is put on the list when its checksums passed, so what is open   *)
(* by the list passed them.                                                *)
LEMMA OpenPackageKeeps ==
  ASSUME PackageInv, OpenPackage
  PROVE  PackageInv'
<1>. DEFINE fp == Fingerprint(card)
<1>1. card' = card /\ rotted' = rotted /\ opened' = TRUE /\ answer' = Nothing
  BY DEF OpenPackage
<1>2. IsPackage(card) /\ TableSound(card) /\ CheckIndexConsistency(card) = "kOk"
  BY OpenSound DEF OpenPackage, PackageInv, PackageTyped
<1>3. VerifyFixedIndexChecksums(card) = "kOk" => fp \in Checked
  BY DEF PackageInv, CardKnown, Checked
<1>4. OnList(verified, fp) => fp \in Checked
  BY DEF PackageInv, PackageTyped, OnList, Same
<1>5. fp \in Checked /\ ~rotted => VerifyFixedIndexChecksums(card) = "kOk"
  BY CardsAssumption DEF PackageInv, CardKnown
<1>6. verified' \in Seq(Checked) /\ saved' \in Seq(Checked)
  <2>1. CASE UNCHANGED <<verified, saved>>
    BY <2>1 DEF PackageInv, PackageTyped
  <2>2. CASE /\ VerifyFixedIndexChecksums(card) = "kOk"
             /\ verified' = Add(verified, fp) /\ saved' \in AfterSave(Add(verified, fp))
    <3>1. Add(verified, fp) \in Seq(Checked)
      BY <1>3, <2>2, AddTyped DEF PackageInv, PackageTyped
    <3>2. saved \in Seq(Checked) /\ <<>> \in Seq(Checked)
      BY DEF PackageInv, PackageTyped
    <3>. HIDE DEF fp
    <3>. QED
      BY <2>2, <3>1, <3>2 DEF AfterSave
  <2>. QED
    BY <2>1, <2>2 DEF OpenPackage
<1>7. glyphs' \in {<<>>, BuildGlyphIndex(card)}
  BY DEF OpenPackage
<1>8. glyphs' \in Seq(Nat)
  <2>0. <<>> \in Seq(Nat)
    OBVIOUS
  <2>1. CASE BuildGlyphIndex(card) # <<>>
    <3>. DEFINE n == Count(card, kFontMetadata)
    <3>1. n \in Nat
      BY <1>2, CountTyped
    <3>2. BuildGlyphIndex(card) \in [1..n -> 0..(n - 1)]
      BY <1>2, <2>1, GlyphIndexWorks DEF Indexed
    <3>. HIDE DEF n
    <3>3. BuildGlyphIndex(card) \in Seq(Nat)
      BY <3>1, <3>2
    <3>. QED
      BY <1>7, <2>0, <3>3
  <2>2. CASE BuildGlyphIndex(card) = <<>>
    BY <1>7, <2>0, <2>2
  <2>. QED
    BY <2>1, <2>2
<1>9. PackageTyped'
  BY <1>1, <1>6, <1>8 DEF PackageInv, PackageTyped
<1>10. CardKnown'
  BY <1>1 DEF PackageInv, CardKnown
<1>11. OpenIsSound'
  BY <1>1, <1>4, <1>5 DEF OpenPackage, OpenIsSound
<1>12. OpenFound'
  BY <1>1, <1>2, <1>7 DEF OpenFound
<1>13. AnswerGiven'
  BY <1>1 DEF AnswerGiven, Nothing
<1>. QED
  BY <1>9, <1>10, <1>11, <1>12, <1>13 DEF PackageInv

(* A record that goes bad leaves the table as it was, all but the checksum *)
(* of its section.                                                         *)
LEMMA RotKeeps ==
  ASSUME PackageInv, Rot
  PROVE  PackageInv'
<1>1. PICK i \in DOMAIN card.sections :
        /\ IsFixedIndexSection(card.sections[i].id)
        /\ \E k \in DOMAIN card.records[card.sections[i].id] :
             card' = [card EXCEPT !.records[card.sections[i].id][k] = Junk, !.sections[i].crcOk = FALSE]
  BY DEF Rot
<1>. DEFINE id == card.sections[i].id
<1>2. PICK k \in DOMAIN card.records[id] :
        card' = [card EXCEPT !.records[id][k] = Junk, !.sections[i].crcOk = FALSE]
  BY <1>1
<1>3. rotted' = TRUE /\ ~rotted /\ answer' = Nothing /\ UNCHANGED <<opened, glyphs, verified, saved>>
  BY DEF Rot
<1>4. IsPackage(card)
  BY DEF PackageInv, PackageTyped
<1>5. card.sections \in Seq(SectionEntry)
  BY <1>4 DEF IsPackage
<1>. DEFINE records  == [card.records EXCEPT ![id] = [card.records[id] EXCEPT ![k] = Junk]]
            sections == [card.sections EXCEPT ![i] = [card.sections[i] EXCEPT !.crcOk = FALSE]]
<1>6. card' = [card EXCEPT !.records = records, !.sections = sections]
  BY <1>2, <1>4 DEF IsPackage
<1>7. sections \in Seq(SectionEntry)
  <2>1. card.sections[i] \in SectionEntry
    BY <1>5
  <2>2. [card.sections[i] EXCEPT !.crcOk = FALSE] \in SectionEntry
    BY <2>1 DEF SectionEntry
  <2>. QED
    BY <1>5, <2>2
<1>8. \A j \in DOMAIN records : records[j] \in Seq(Record)
  <2>1. Junk \in Record
    BY PackageAssumption DEF Junk, Record, Upto
  <2>2. \A j \in DOMAIN card.records : card.records[j] \in Seq(Record)
    BY <1>4 DEF IsPackage
  <2>3. ASSUME NEW j \in DOMAIN records
        PROVE  records[j] \in Seq(Record)
    <3>1. j \in DOMAIN card.records
      OBVIOUS
    <3>2. CASE j = id
      <4>1. card.records[id] \in Seq(Record)
        BY <2>2, <3>1, <3>2
      <4>2. [card.records[id] EXCEPT ![k] = Junk] \in Seq(Record)
        BY <2>1, <4>1
      <4>. QED
        BY <3>1, <3>2, <4>2
    <3>3. CASE j # id
      BY <2>2, <3>1, <3>3
    <3>. QED
      BY <3>2, <3>3
  <2>. QED
    BY <2>3
<1>9. \A e \in Sections(card') : \E g \in Sections(card) :
        e.off = g.off /\ e.len = g.len /\ e.id = g.id /\ e.rs = g.rs /\ e.count = g.count
  <2>1. card'.sections = sections
    BY <1>4, <1>6 DEF IsPackage
  <2>2. ASSUME NEW j \in DOMAIN sections
        PROVE  /\ card.sections[j] \in Sections(card)
               /\ sections[j].off = card.sections[j].off /\ sections[j].len = card.sections[j].len
               /\ sections[j].id = card.sections[j].id /\ sections[j].rs = card.sections[j].rs
               /\ sections[j].count = card.sections[j].count
    <3>1. j \in DOMAIN card.sections /\ card.sections[j] \in SectionEntry
      BY <1>5
    <3>. QED
      BY <3>1 DEF Sections, SectionEntry
  <2>. HIDE DEF sections
  <2>. QED
    BY <2>1, <2>2 DEF Sections
<1>10. VerifyFixedIndexChecksums(card') # "kOk"
  <2>1. card'.sections = sections
    BY <1>4, <1>6 DEF IsPackage
  <2>2. i \in DOMAIN sections /\ sections[i].id = id /\ sections[i].crcOk = FALSE
    <3>1. card.sections[i] \in SectionEntry
      BY <1>5
    <3>. QED
      BY <3>1 DEF SectionEntry
  <2>. HIDE DEF sections
  <2>. QED
    BY <1>1, <2>1, <2>2 DEF VerifyFixedIndexChecksums, Rule, Sections
<1>11. IsPackage(card')
  <2>. HIDE DEF records, sections
  <2>. QED
    BY <1>4, <1>6, <1>7, <1>8 DEF IsPackage
<1>. HIDE DEF records, sections
<1>12. card'.size = card.size
  BY <1>4, <1>6 DEF IsPackage
<1>13. TableSound(card) => TableSound(card')
  BY <1>9, <1>12 DEF TableSound
<1>14. PackageTyped'
  BY <1>3, <1>11 DEF PackageInv, PackageTyped
<1>15. CardKnown' /\ OpenIsSound'
  BY <1>3, <1>10 DEF CardKnown, OpenIsSound
<1>16. OpenFound'
  BY <1>3, <1>13 DEF PackageInv, OpenFound
<1>17. AnswerGiven'
  BY <1>3 DEF AnswerGiven, Nothing
<1>. QED
  BY <1>14, <1>15, <1>16, <1>17 DEF PackageInv

LEMMA AskKeeps ==
  ASSUME PackageInv, Ask \/ AskCover
  PROVE  PackageInv'
<1>1. UNCHANGED <<card, rotted, opened, glyphs, verified, saved>>
  BY DEF Ask, AskCover, Answered
<1>2. \A g : GetGlyph(card, g)' = GetGlyph(card, g)
  BY <1>1 DEF GetGlyph
<1>3. AnswerGiven'
  <2>1. CASE Ask
    <3>1. Asked'
      BY <1>1, <1>2, <2>1 DEF Ask, Asked, Given, Answered, Blobs
    <3>. QED
      BY <1>1, <2>1, <3>1 DEF AnswerGiven, Ask
  <2>2. CASE AskCover
    BY <1>1, <2>2 DEF AnswerGiven, AskCover, Given, Answered
  <2>. QED
    BY <2>1, <2>2
<1>4. PackageTyped' /\ CardKnown' /\ OpenIsSound' /\ OpenFound'
  BY <1>1 DEF PackageInv, PackageTyped, CardKnown, OpenIsSound, OpenFound
<1>. QED
  BY <1>3, <1>4 DEF PackageInv

(* What is not open claims nothing of the card.                            *)
LEMMA ClosedKeeps ==
  ASSUME PackageInv, ClosePackage \/ ReplacePackage \/ PackageRestart
  PROVE  PackageInv'
<1>1. opened' = FALSE /\ answer' = Nothing /\ glyphs' \in {<<>>, glyphs}
  BY DEF PackageInv, PackageTyped, ClosePackage, ReplacePackage, PackageRestart
<1>2. /\ verified' \in {verified, saved} /\ saved' = saved
      /\ UNCHANGED <<card, rotted>> \/ (card' \in Installs /\ rotted' = FALSE)
  BY DEF ClosePackage, ReplacePackage, PackageRestart
<1>3. IsPackage(card') /\ rotted' \in BOOLEAN /\ CardKnown'
  <2>1. CASE UNCHANGED <<card, rotted>>
    BY <2>1 DEF PackageInv, PackageTyped, CardKnown
  <2>2. CASE card' \in Installs /\ rotted' = FALSE
    BY <2>2, CardsAssumption DEF CardKnown, Cards
  <2>. QED
    BY <1>2, <2>1, <2>2
<1>4. PackageTyped'
  <2>1. <<>> \in Seq(Nat)
    OBVIOUS
  <2>2. glyphs' \in Seq(Nat)
    BY <1>1, <2>1 DEF PackageInv, PackageTyped
  <2>. QED
    BY <1>1, <1>2, <1>3, <2>2 DEF PackageInv, PackageTyped
<1>5. OpenIsSound' /\ OpenFound' /\ AnswerGiven'
  BY <1>1 DEF OpenIsSound, OpenFound, AnswerGiven, Nothing
<1>. QED
  BY <1>3, <1>4, <1>5 DEF PackageInv

(* What is open was checked, and what was answered is of it.               *)
THEOREM PackageInvariance ==
  PackageSpec => []PackageInv
<1>1. PackageInv /\ [PackageNext]_packageVars => PackageInv'
  <2>. SUFFICES ASSUME PackageInv, [PackageNext]_packageVars PROVE PackageInv'
    OBVIOUS
  <2>1. CASE OpenPackage
    BY <2>1, OpenPackageKeeps
  <2>2. CASE ClosePackage \/ ReplacePackage \/ PackageRestart
    BY <2>2, ClosedKeeps
  <2>3. CASE Ask \/ AskCover
    BY <2>3, AskKeeps
  <2>4. CASE Rot
    BY <2>4, RotKeeps
  <2>5. CASE UNCHANGED packageVars
    <3>1. UNCHANGED <<card, rotted, opened, glyphs, verified, saved, answer>>
      BY <2>5 DEF packageVars
    <3>2. \A g : GetGlyph(card, g)' = GetGlyph(card, g)
      BY <3>1 DEF GetGlyph
    <3>3. AnswerGiven'
      BY <3>1, <3>2 DEF PackageInv, AnswerGiven, Asked, Given
    <3>4. PackageTyped' /\ CardKnown' /\ OpenIsSound' /\ OpenFound'
      BY <3>1 DEF PackageInv, PackageTyped, CardKnown, OpenIsSound, OpenFound
    <3>. QED
      BY <3>3, <3>4 DEF PackageInv
  <2>. QED
    BY <2>1, <2>2, <2>3, <2>4, <2>5 DEF PackageNext
<1>. QED
  BY <1>1, PackageInitial, PTL DEF PackageSpec

LEMMA AskedClean ==
  ASSUME IsPackage(card), TableSound(card), glyphs \in Seq(Nat), Asked
  PROVE  Clean(card, answer.res)
<1>1. Numbers \subseteq Nat /\ Words \subseteq Nat
  BY PackageAssumption
<1>2. CASE \E n \in Numbers : answer.res = GetNumbered(card, kPageIndex, n)
  BY <1>1, <1>2, NumberedClean
<1>3. CASE \E s \in Numbers : answer.res = GetSurah(card, s)
  BY <1>1, <1>3, NumberedClean DEF GetSurah
<1>4. CASE \E s, a \in Numbers : answer.res = GetAyah(card, s, a)
  BY <1>1, <1>4, AyahClean
<1>5. CASE \E s, a, w \in Numbers : answer.res = GetWord(card, s, a, w)
  BY <1>1, <1>5, WordClean
<1>6. CASE \E w \in Words : answer.res = FindAyahByWordIndex(card, w)
  BY <1>6, AyahOfWordClean
<1>7. CASE \E w \in Words : answer.res = FindLineByWordIndex(card, w)
  BY <1>7, LineOfWordClean
<1>8. CASE \E i \in Numbers : \E b \in Blobs : answer.res = TextOf(card, b[1], i, b[2])
  BY <1>1, <1>8, TextClean
<1>9. CASE \E i \in Numbers : answer.res = ReadPageImage(card, i, TextCapacity)
  BY <1>1, <1>9, ImageClean, PackageAssumption
<1>10. CASE \E g \in Numbers : answer.res = GetGlyph(card, g)
  BY <1>10, GlyphClean
<1>11. CASE \E a \in Numbers : answer.res = MarkerGlyph(card, a)
  BY <1>1, <1>11, MarkerClean
<1>. QED
  BY <1>2, <1>3, <1>4, <1>5, <1>6, <1>7, <1>8, <1>9, <1>10, <1>11 DEF Asked, Given

(* No read leaves its section or the file (Reader::readRecordBytes,        *)
(* readBlob and the accessors on them), for any file that opened, whatever *)
(* its table and records say.                                              *)
THEOREM ReadsAlwaysInBounds ==
  PackageSpec => []ReadsInBounds
<1>1. ASSUME PackageInv PROVE ReadsInBounds
  <2>. USE <1>1 DEF PackageInv
  <2>1. CASE answer = Nothing
    BY <2>1 DEF ReadsInBounds, Nothing, Fail
  <2>2. CASE opened /\ Asked
    <3>1. Clean(card, answer.res)
      BY <2>2, AskedClean DEF PackageTyped, OpenFound
    <3>. QED
      BY <3>1 DEF Clean, Inside, ReadsInBounds
  <2>3. CASE ~opened /\ Given("cover", <<>>, ReadCover(card))
    <3>1. answer.res = ReadCover(card)
      BY <2>3 DEF Given
    <3>. QED
      BY <2>3, <3>1, CoverInFile DEF ReadsInBounds, PackageTyped
  <2>. QED
    BY <2>1, <2>2, <2>3 DEF AnswerGiven
<1>. QED
  BY <1>1, PackageInvariance, PTL

(* Nothing is open that was not checked, now or when this very build was   *)
(* put on the list (VerifiedPackages), unless it went bad since.           *)
THEOREM OpenAlwaysSound ==
  PackageSpec => []OpenIsSound
<1>1. PackageInv => OpenIsSound
  BY DEF PackageInv
<1>. QED
  BY <1>1, PackageInvariance, PTL

(* The binary searches, the glyph index and the counting by surah and ayah *)
(* find what a walk over the records finds, in any package that opened.    *)
THEOREM LookupsAlwaysAgree ==
  PackageSpec => []LookupsAgree
<1>1. ASSUME PackageInv PROVE LookupsAgree
  <2>. SUFFICES ASSUME opened, ~rotted
                PROVE  /\ answer.op = "ayahOfWord" => Finds(kAyahIndex, Count(card, kAyahIndex))
                       /\ answer.op = "lineOfWord" /\ GetLayoutHeader(card).err = "kOk" =>
                            Finds(kLayoutData, card.lineTotal)
                       /\ answer.op = "glyph" => FindsGlyph
                       /\ Answers("word") => WordInItsAyah
                       /\ Answers("marker") => answer.res.val >= answer.arg[1] - 1
    BY DEF LookupsAgree
  <2>1. /\ IsPackage(card) /\ TableSound(card) /\ CheckIndexConsistency(card) = "kOk"
        /\ glyphs \in {<<>>, BuildGlyphIndex(card)}
    BY <1>1 DEF PackageInv, PackageTyped, OpenFound
  <2>2. answer = Nothing \/ Asked
    BY <1>1 DEF PackageInv, AnswerGiven
  <2>3. ASSUME answer.op = "ayahOfWord" PROVE Finds(kAyahIndex, Count(card, kAyahIndex))
    <3>1. PICK w \in Words : answer.arg = <<w>> /\ answer.res = FindAyahByWordIndex(card, w)
      BY <2>2, <2>3 DEF Asked, Given, Nothing
    <3>. QED
      BY <2>1, <3>1, AyahOfWordFinds, PackageAssumption
  <2>4. ASSUME answer.op = "lineOfWord", GetLayoutHeader(card).err = "kOk"
        PROVE  Finds(kLayoutData, card.lineTotal)
    <3>1. PICK w \in Words : answer.arg = <<w>> /\ answer.res = FindLineByWordIndex(card, w)
      BY <2>2, <2>4 DEF Asked, Given, Nothing
    <3>. QED
      BY <2>1, <2>4, <3>1, LineOfWordFinds, PackageAssumption
  <2>5. ASSUME answer.op = "glyph" PROVE FindsGlyph
    <3>1. PICK g \in Numbers : answer.arg = <<g>> /\ answer.res = GetGlyph(card, g)
      BY <2>2, <2>5 DEF Asked, Given, Nothing
    <3>2. g \in Nat
      BY PackageAssumption
    <3>. QED
      BY <2>1, <3>1, <3>2, GlyphFinds
  <2>6. ASSUME Answers("word") PROVE WordInItsAyah
    <3>1. PICK s, a, w \in Numbers :
            answer.arg = <<s, a, w>> /\ answer.res = GetWord(card, s, a, w)
      BY <2>2, <2>6 DEF Asked, Given, Nothing, Answers
    <3>2. s \in Nat /\ a \in Nat /\ w \in Nat
      BY PackageAssumption
    <3>. QED
      BY <2>1, <2>6, <3>1, <3>2, WordFinds DEF Answers
  <2>7. ASSUME Answers("marker") PROVE answer.res.val >= answer.arg[1] - 1
    <3>1. PICK a \in Numbers : answer.arg = <<a>> /\ answer.res = MarkerGlyph(card, a)
      BY <2>2, <2>7 DEF Asked, Given, Nothing, Answers
    <3>. QED
      BY <2>1, <2>7, <3>1, MarkerClean, PackageAssumption DEF Answers
  <2>. QED
    BY <2>3, <2>4, <2>5, <2>6, <2>7
<1>. QED
  BY <1>1, PackageInvariance, PTL

-----------------------------------------------------------------------------
(* Functions over a stretch of numbers                                     *)

(* What holds at the first number and is handed on holds at all of them.   *)
LEMMA Along ==
  ASSUME NEW a \in Nat, NEW b \in Nat, NEW T, a \in T,
         \A v \in a..(b - 1) : v \in T => v + 1 \in T
  PROVE  a..b \subseteq T
<1>. DEFINE K == {k \in Nat : a + k <= b => a + k \in T}
<1>1. 0 \in K
  OBVIOUS
<1>2. ASSUME NEW k \in Nat, k \in K PROVE k + 1 \in K
  <2>. SUFFICES ASSUME a + (k + 1) <= b PROVE a + (k + 1) \in T
    OBVIOUS
  <2>1. a + k \in a..(b - 1) /\ a + k \in T
    BY <1>2
  <2>2. (a + k) + 1 \in T
    BY <2>1
  <2>3. (a + k) + 1 = a + (k + 1)
    OBVIOUS
  <2>. QED
    BY <2>2, <2>3
<1>3. Nat \subseteq K
  <2>. HIDE DEF K
  <2>. QED
    BY <1>1, <1>2, AllNumbers
<1>4. ASSUME NEW v \in a..b PROVE v \in T
  <2>1. v - a \in Nat /\ a + (v - a) = v /\ v <= b
    OBVIOUS
  <2>2. v - a \in K
    BY <1>3, <2>1
  <2>. QED
    BY <2>1, <2>2
<1>. QED
  BY <1>4

(* A function that starts with x and goes on by G, and that there is one.  *)
GoesOn(f, a, b, S, x, G) ==
  /\ f \in [a..b -> S]
  /\ \A v \in a..b : f[v] = IF v = a THEN x ELSE G[v - 1][f[v - 1]]

LEMMA Goes ==
  ASSUME NEW a \in Nat, NEW b \in Nat, NEW S, NEW x \in S, NEW G \in [a..(b - 1) -> [S -> S]]
  PROVE  \E f : GoesOn(f, a, b, S, x, G)
<1>. DEFINE Is(f, c) == /\ f \in [a..c -> S]
                        /\ \A v \in a..c : f[v] = IF v = a THEN x ELSE G[v - 1][f[v - 1]]
            T == {c \in Nat : c <= b => \E f : Is(f, c)}
<1>1. CASE b < a
  <2>. DEFINE none == [v \in a..b |-> x]
  <2>1. a..b = {}
    BY <1>1
  <2>2. GoesOn(none, a, b, S, x, G)
    BY <2>1 DEF GoesOn
  <2>. QED
    BY <2>2
<1>2. CASE a <= b
  <2>1. a \in T
    <3>. DEFINE f == [v \in a..a |-> x]
    <3>1. Is(f, a)
      OBVIOUS
    <3>. QED
      BY <3>1
  <2>2. ASSUME NEW c \in a..(b - 1), c \in T PROVE c + 1 \in T
    <3>1. c \in Nat /\ c + 1 \in Nat /\ c <= b /\ c \in a..c /\ c \in a..b
      OBVIOUS
    <3>2. PICK f : Is(f, c)
      BY <2>2, <3>1
    <3>2a. \A v \in a..c : f[v] \in S
      BY <3>2
    <3>2b. \A v \in a..c : f[v] = IF v = a THEN x ELSE G[v - 1][f[v - 1]]
      BY <3>2
    <3>. DEFINE y == G[c][f[c]]
                g == [v \in a..(c + 1) |-> IF v = c + 1 THEN y ELSE f[v]]
    <3>3. f[c] \in S /\ y \in S
      BY <3>1, <3>2a
    <3>4. ASSUME NEW v \in a..(c + 1)
          PROVE  g[v] = (IF v = a THEN x ELSE G[v - 1][g[v - 1]]) /\ g[v] \in S
      <4>1. CASE v = c + 1
        <5>1. v # a /\ v - 1 = c /\ c # c + 1 /\ c \in a..(c + 1)
          BY <4>1, <3>1
        <5>2. g[v] = y /\ g[v - 1] = f[c]
          BY <4>1, <5>1
        <5>. QED
          BY <3>3, <5>1, <5>2
      <4>2. CASE v # c + 1
        <5>1. v \in a..c
          BY <4>2
        <5>2. g[v] = f[v] /\ f[v] \in S
          BY <3>2a, <4>2, <5>1
        <5>3. CASE v = a
          BY <3>2b, <5>1, <5>2, <5>3
        <5>4. CASE v # a
          <6>1. v - 1 \in a..(c + 1) /\ v - 1 # c + 1
            BY <5>1, <5>4
          <6>2. g[v - 1] = f[v - 1]
            BY <6>1
          <6>3. f[v] = G[v - 1][f[v - 1]]
            BY <3>2b, <5>1, <5>4
          <6>. QED
            BY <5>2, <5>4, <6>2, <6>3
        <5>. QED
          BY <5>3, <5>4
      <4>. QED
        BY <4>1, <4>2
    <3>5. g = [v \in a..(c + 1) |-> g[v]]
      OBVIOUS
    <3>. HIDE DEF g
    <3>6. g \in [a..(c + 1) -> S]
      BY <3>4, <3>5
    <3>7. Is(g, c + 1)
      BY <3>4, <3>6
    <3>. QED
      BY <3>1, <3>7
  <2>3. b \in T
    <3>. HIDE DEF T
    <3>1. a..b \subseteq T
      BY <2>1, <2>2, Along
    <3>. QED
      BY <1>2, <3>1
  <2>4. PICK f : Is(f, b)
    BY <2>3
  <2>5. GoesOn(f, a, b, S, x, G)
    BY <2>4 DEF GoesOn
  <2>. QED
    BY <2>5
<1>. QED
  BY <1>1, <1>2
-----------------------------------------------------------------------------
(* Beginnings of a text                                                    *)

LEMMA LowerIs ==
  ASSUME NEW a \in Int, NEW b \in Int
  PROVE  /\ Lower(a, b) \in {a, b} /\ Lower(a, b) <= a /\ Lower(a, b) <= b
         /\ a <= b => Lower(a, b) = a
         /\ b <= a => Lower(a, b) = b
BY DEF Lower

(* What fits of a text is its beginning.                                   *)
LEMMA FrontIs ==
  ASSUME NEW S, NEW s \in Seq(S), NEW n \in Nat
  PROVE  /\ Front(s, n) \in Seq(S)
         /\ Len(Front(s, n)) = Lower(n, Len(s))
         /\ Len(Front(s, n)) <= n /\ Len(Front(s, n)) <= Len(s)
         /\ \A i \in 1..Len(Front(s, n)) : Front(s, n)[i] = s[i]
         /\ Len(s) <= n => Front(s, n) = s
         /\ IsPrefixOf(Front(s, n), s)
<1>. DEFINE m == Lower(n, Len(s))
            f == SubSeq(s, 1, m)
<1>1. m \in Nat /\ m <= n /\ m <= Len(s) /\ (Len(s) <= n => m = Len(s)) /\ m \in Int /\ 1 \in Int
  BY LowerIs
<1>2. Front(s, n) = f
  BY DEF Front
<1>. HIDE DEF m
<1>3. \A i \in 1..m : s[i] \in S
  BY <1>1, ElementOfSeq
<1>4. /\ f \in Seq(S) /\ Len(f) = (IF 1 <= m THEN m - 1 + 1 ELSE 0)
      /\ \A i \in 1..(m - 1 + 1) : f[i] = s[1 + i - 1]
  BY <1>1, <1>3, SubSeqProperties
<1>5. Len(f) = m
  BY <1>1, <1>4
<1>6. \A i \in 1..m : f[i] = s[i]
  BY <1>1, <1>4
<1>7. Len(s) <= n => f = s
  BY <1>1, <1>4, <1>5, <1>6, SeqEqual
<1>8. IsPrefixOf(f, s)
  BY <1>1, <1>5 DEF IsPrefixOf
<1>. QED
  BY <1>1, <1>2, <1>4, <1>5, <1>6, <1>7, <1>8 DEF m

(* One text is the beginning of another, letter by letter.                 *)
LEMMA PrefixIs ==
  ASSUME NEW S, NEW s \in Seq(S), NEW t \in Seq(S)
  PROVE  IsPrefixOf(s, t) <=> Len(s) <= Len(t) /\ \A i \in 1..Len(s) : s[i] = t[i]
<1>. DEFINE f == SubSeq(t, 1, Len(s))
<1>1. Len(s) \in Nat /\ Len(t) \in Nat
  BY LenProperties
<1>. SUFFICES ASSUME Len(s) <= Len(t)
              PROVE  f = s <=> \A i \in 1..Len(s) : s[i] = t[i]
  BY DEF IsPrefixOf
<1>2. f = Front(t, Len(s))
  BY <1>1, LowerIs DEF Front
<1>3. f \in Seq(S) /\ Len(f) = Len(s) /\ \A i \in 1..Len(s) : f[i] = t[i]
  BY <1>1, <1>2, FrontIs, LowerIs
<1>. HIDE DEF f
<1>4. f = s => \A i \in 1..Len(s) : s[i] = t[i]
  BY <1>3
<1>5. (\A i \in 1..Len(s) : s[i] = t[i]) => f = s
  BY <1>3, SeqEqual
<1>. QED
  BY <1>4, <1>5

LEMMA PrefixGrows ==
  ASSUME NEW S, NEW s \in Seq(S), NEW t \in Seq(S), NEW u \in Seq(S), IsPrefixOf(s, t)
  PROVE  IsPrefixOf(s, t \o u)
<1>1. /\ t \o u \in Seq(S) /\ Len(t \o u) = Len(t) + Len(u)
      /\ \A i \in 1..Len(t) + Len(u) : (t \o u)[i] = IF i <= Len(t) THEN t[i] ELSE u[i - Len(t)]
  BY ConcatProperties
<1>2. Len(s) \in Nat /\ Len(t) \in Nat /\ Len(u) \in Nat
  BY LenProperties
<1>3. Len(s) <= Len(t) /\ \A i \in 1..Len(s) : s[i] = t[i]
  BY PrefixIs
<1>4. Len(s) <= Len(t \o u) /\ \A i \in 1..Len(s) : s[i] = (t \o u)[i]
  BY <1>1, <1>2, <1>3
<1>. QED
  BY <1>1, <1>4, PrefixIs

LEMMA PrefixSelf ==
  ASSUME NEW S, NEW s \in Seq(S), NEW u \in Seq(S)
  PROVE  IsPrefixOf(s, s) /\ IsPrefixOf(s, s \o u) /\ IsPrefixOf(<<>>, s)
<1>1. Len(s) \in Nat /\ IsPrefixOf(s, s)
  BY LenProperties, PrefixIs
<1>2. <<>> \in Seq(S) /\ Len(<<>>) = 0
  BY EmptySeq
<1>3. ASSUME NEW e \in Seq(S), Len(e) = 0 PROVE IsPrefixOf(e, s)
  <2>1. Len(e) <= Len(s) /\ \A i \in 1..Len(e) : e[i] = s[i]
    BY <1>1, <1>3
  <2>. QED
    BY <2>1, PrefixIs
<1>. QED
  BY <1>1, <1>2, <1>3, PrefixGrows

(* What fits of two texts in a row.                                        *)
LEMMA FrontOfBoth ==
  ASSUME NEW S, NEW s \in Seq(S), NEW t \in Seq(S), NEW n \in Nat
  PROVE  /\ Len(s) <= n => Front(s \o t, n) = s \o Front(t, n - Len(s))
         /\ n <= Len(s) => Front(s \o t, n) = Front(s, n)
<1>1. /\ s \o t \in Seq(S) /\ Len(s \o t) = Len(s) + Len(t)
      /\ \A i \in 1..Len(s) + Len(t) : (s \o t)[i] = IF i <= Len(s) THEN s[i] ELSE t[i - Len(s)]
  BY ConcatProperties
<1>2. Len(s) \in Nat /\ Len(t) \in Nat
  BY LenProperties
<1>. DEFINE f == Front(s \o t, n)
<1>3. f \in Seq(S) /\ Len(f) = Lower(n, Len(s) + Len(t)) /\ \A i \in 1..Len(f) : f[i] = (s \o t)[i]
  BY <1>1, FrontIs
<1>. HIDE DEF f
<1>4. ASSUME Len(s) <= n PROVE f = s \o Front(t, n - Len(s))
  <2>. DEFINE g == Front(t, n - Len(s))
  <2>1. n - Len(s) \in Nat
    BY <1>2, <1>4
  <2>2. g \in Seq(S) /\ Len(g) = Lower(n - Len(s), Len(t)) /\ \A i \in 1..Len(g) : g[i] = t[i]
    BY <2>1, FrontIs
  <2>. HIDE DEF g
  <2>3. /\ s \o g \in Seq(S) /\ Len(s \o g) = Len(s) + Len(g)
        /\ \A i \in 1..Len(s) + Len(g) : (s \o g)[i] = IF i <= Len(s) THEN s[i] ELSE g[i - Len(s)]
    BY <2>2, ConcatProperties
  <2>4. Len(f) = Len(s) + Len(g)
    BY <1>2, <1>3, <2>1, <2>2 DEF Lower
  <2>5. Len(g) \in Nat /\ Len(g) <= Len(t)
    BY <1>2, <2>1, <2>2 DEF Lower
  <2>6. \A i \in 1..Len(f) : f[i] = (s \o g)[i]
    <3>. SUFFICES ASSUME NEW i \in 1..Len(f) PROVE f[i] = (s \o g)[i]
      OBVIOUS
    <3>1. i \in 1..Len(s) + Len(g) /\ i \in 1..Len(s) + Len(t)
      BY <1>2, <2>4, <2>5
    <3>2. CASE i <= Len(s)
      BY <1>1, <1>3, <2>3, <3>1, <3>2
    <3>3. CASE ~ (i <= Len(s))
      <4>1. i - Len(s) \in 1..Len(g)
        BY <1>2, <2>5, <3>1, <3>3
      <4>. QED
        BY <1>1, <1>3, <2>2, <2>3, <3>1, <3>3, <4>1
    <3>. QED
      BY <3>2, <3>3
  <2>7. f = s \o g
    BY <1>3, <2>3, <2>4, <2>6, SeqEqual
  <2>. QED
    BY <2>7 DEF g
<1>5. ASSUME n <= Len(s) PROVE f = Front(s, n)
  <2>. DEFINE g == Front(s, n)
  <2>1. g \in Seq(S) /\ Len(g) = Lower(n, Len(s)) /\ \A i \in 1..Len(g) : g[i] = s[i]
    BY FrontIs
  <2>. HIDE DEF g
  <2>2. Len(g) = n /\ Len(f) = n
    BY <1>2, <1>3, <1>5, <2>1 DEF Lower
  <2>3. \A i \in 1..n : (s \o t)[i] = s[i]
    BY <1>1, <1>2, <1>5
  <2>4. \A i \in 1..Len(f) : f[i] = g[i]
    BY <1>3, <2>1, <2>2, <2>3
  <2>5. f = g
    BY <1>3, <2>1, <2>2, <2>4, SeqEqual
  <2>. QED
    BY <2>5 DEF g
<1>. QED
  BY <1>4, <1>5 DEF f

(* What fits of a text that goes on is what fits of its beginning, if that *)
(* is as long as there is room.                                            *)
LEMMA FrontOfPrefix ==
  ASSUME NEW S, NEW s \in Seq(S), NEW t \in Seq(S), NEW n \in Nat, IsPrefixOf(s, t), n <= Len(s)
  PROVE  Front(t, n) = Front(s, n)
<1>1. Len(s) \in Nat /\ Len(t) \in Nat
  BY LenProperties
<1>2. Len(s) <= Len(t) /\ \A i \in 1..Len(s) : s[i] = t[i]
  BY PrefixIs
<1>. DEFINE f == Front(t, n)
            g == Front(s, n)
<1>3. f \in Seq(S) /\ Len(f) = n /\ \A i \in 1..n : f[i] = t[i]
  BY <1>1, <1>2, FrontIs, LowerIs
<1>4. g \in Seq(S) /\ Len(g) = n /\ \A i \in 1..n : g[i] = s[i]
  BY <1>1, FrontIs, LowerIs
<1>. HIDE DEF f, g
<1>5. \A i \in 1..n : f[i] = g[i]
  BY <1>1, <1>2, <1>3, <1>4
<1>6. f = g
  BY <1>3, <1>4, <1>5, SeqEqual
<1>. QED
  BY <1>6 DEF f, g

-----------------------------------------------------------------------------
(* A book                                                                  *)

BookRecord == [text : Seq(Bytes), found : BOOLEAN, readable : BOOLEAN]
LoadState  == [err : {"kOk", "kTruncated", "kReaderError"}, out : Seq(Bytes)]
Gap(i)     == IF i > 1 THEN <<"n", "n">> ELSE <<>>

LEMMA PairIs ==
  ASSUME NEW S, NEW a \in S, NEW b \in S
  PROVE  <<a, b>> \in Seq(S) /\ Len(<<a, b>>) = 2
OBVIOUS

LEMMA GapIs ==
  ASSUME NEW i \in Nat
  PROVE  /\ Gap(i) \in Seq(Bytes) /\ Len(Gap(i)) \in Nat
         /\ i > 1 => Len(Gap(i)) = 2
         /\ ~ (i > 1) => Len(Gap(i)) = 0
<1>. DEFINE n == "n"
<1>1. n \in Bytes
  BY BookTextAssumption
<1>. HIDE DEF n
<1>2. <<n, n>> \in Seq(Bytes) /\ Len(<<n, n>>) = 2
  BY <1>1, PairIs
<1>3. CASE i > 1
  <2>1. Gap(i) = <<n, n>>
    BY <1>3 DEF Gap, n
  <2>. QED
    BY <1>2, <1>3, <2>1
<1>4. CASE ~ (i > 1)
  <2>1. Gap(i) = <<>>
    BY <1>4 DEF Gap
  <2>. QED
    BY <1>4, <2>1, EmptySeq
<1>. QED
  BY <1>3, <1>4

(* Newlines become spaces wherever the text is cut.                        *)
LEMMA UnwrappedIs ==
  ASSUME NEW s \in Seq(Bytes)
  PROVE  /\ Unwrapped(s) \in Seq(Bytes) /\ Len(Unwrapped(s)) = Len(s)
         /\ \A n \in Nat : Unwrapped(Front(s, n)) = Front(Unwrapped(s), n)
<1>1. ASSUME NEW t \in Seq(Bytes)
      PROVE  /\ Unwrapped(t) \in Seq(Bytes) /\ Len(Unwrapped(t)) = Len(t)
             /\ \A i \in 1..Len(t) : Unwrapped(t)[i] = IF t[i] = "n" THEN "s" ELSE t[i]
  <2>1. Len(t) \in Nat /\ DOMAIN t = 1..Len(t) /\ \A i \in 1..Len(t) : t[i] \in Bytes
    BY LenProperties, ElementOfSeq
  <2>2. Unwrapped(t) = [i \in 1..Len(t) |-> IF t[i] = "n" THEN "s" ELSE t[i]]
    BY <2>1 DEF Unwrapped
  <2>3. Unwrapped(t) \in [1..Len(t) -> Bytes]
    BY <2>1, <2>2, BookTextAssumption
  <2>4. Unwrapped(t) \in Seq(Bytes)
    BY <2>1, <2>3, SeqDef
  <2>5. Len(Unwrapped(t)) \in Nat /\ DOMAIN Unwrapped(t) = 1..Len(Unwrapped(t))
    BY <2>4, LenProperties
  <2>6. Len(Unwrapped(t)) = Len(t)
    BY <2>1, <2>2, <2>5
  <2>. QED
    BY <2>2, <2>4, <2>6
<1>2. ASSUME NEW n \in Nat PROVE Unwrapped(Front(s, n)) = Front(Unwrapped(s), n)
  <2>. DEFINE f == Front(s, n)
              u == Unwrapped(s)
              g == Front(u, n)
  <2>1. f \in Seq(Bytes) /\ Len(f) = Lower(n, Len(s)) /\ Len(f) <= Len(s)
        /\ \A i \in 1..Len(f) : f[i] = s[i]
    BY FrontIs
  <2>2. u \in Seq(Bytes) /\ Len(u) = Len(s)
        /\ \A i \in 1..Len(s) : u[i] = IF s[i] = "n" THEN "s" ELSE s[i]
    BY <1>1
  <2>. HIDE DEF u
  <2>3. g \in Seq(Bytes) /\ Len(g) = Lower(n, Len(u)) /\ \A i \in 1..Len(g) : g[i] = u[i]
    BY <2>2, FrontIs
  <2>. HIDE DEF f, g
  <2>4. Unwrapped(f) \in Seq(Bytes) /\ Len(Unwrapped(f)) = Len(f)
        /\ \A i \in 1..Len(f) : Unwrapped(f)[i] = IF f[i] = "n" THEN "s" ELSE f[i]
    BY <1>1, <2>1
  <2>5. Len(f) \in Nat /\ Len(s) \in Nat /\ Len(g) = Len(f)
    BY <2>1, <2>2, <2>3, LenProperties
  <2>6. \A i \in 1..Len(f) : Unwrapped(f)[i] = g[i]
    <3>. SUFFICES ASSUME NEW i \in 1..Len(f) PROVE Unwrapped(f)[i] = g[i]
      OBVIOUS
    <3>1. i \in 1..Len(s) /\ i \in 1..Len(g)
      BY <2>1, <2>5
    <3>2. f[i] = s[i] /\ g[i] = u[i] /\ u[i] = IF s[i] = "n" THEN "s" ELSE s[i]
      BY <2>1, <2>2, <2>3, <3>1
    <3>. QED
      BY <2>4, <3>2
  <2>7. Unwrapped(f) = g
    BY <2>3, <2>4, <2>5, <2>6, SeqEqual
  <2>. QED
    BY <2>7 DEF f, g, u
<1>. QED
  BY <1>1, <1>2

LEMMA RecordTyped ==
  ASSUME NEW s \in LoadState, NEW i \in Nat, NEW record \in BookRecord, NEW capacity \in Nat
  PROVE  LoadRecord(s, i, record, capacity) \in LoadState
<1>. DEFINE start == s.out \o Gap(i)
            space == capacity - Len(start) - 1
            part == Unwrapped(Front(record.text, space))
            r == LoadRecord(s, i, record, capacity)
<1>1. s.out \in Seq(Bytes) /\ record.text \in Seq(Bytes)
  BY DEF LoadState, BookRecord
<1>2. start \in Seq(Bytes) /\ Len(start) \in Nat
  <2>1. Gap(i) \in Seq(Bytes)
    BY GapIs
  <2>. QED
    BY <1>1, <2>1, ConcatProperties, LenProperties
<1>3. start = IF i > 1 THEN s.out \o <<"n", "n">> ELSE s.out
  BY <1>1, ConcatEmptySeq DEF Gap
<1>. HIDE DEF start
<1>4. RoomFor(Len(start), 1, capacity) => start \o part \in Seq(Bytes)
  <2>. SUFFICES ASSUME RoomFor(Len(start), 1, capacity) PROVE start \o part \in Seq(Bytes)
    OBVIOUS
  <2>1. space \in Nat
    BY <1>2 DEF RoomFor
  <2>. HIDE DEF space
  <2>2. Front(record.text, space) \in Seq(Bytes)
    BY <1>1, <2>1, FrontIs
  <2>3. part \in Seq(Bytes)
    BY <2>2, UnwrappedIs
  <2>. HIDE DEF part
  <2>. QED
    BY <1>2, <2>3, ConcatProperties
<1>5. \/ r = s
      \/ r = [err |-> "kReaderError", out |-> <<>>]
      \/ r = [err |-> "kTruncated", out |-> s.out]
      \/ r = [err |-> "kTruncated", out |-> start]
      \/ /\ RoomFor(Len(start), 1, capacity)
         /\ r = [err |-> IF Len(record.text) > space THEN "kTruncated" ELSE "kOk",
                 out |-> start \o part]
  BY <1>3 DEF LoadRecord
<1>. HIDE DEF r, part, space
<1>6. <<>> \in Seq(Bytes)
  BY EmptySeq
<1>7. CASE /\ RoomFor(Len(start), 1, capacity)
           /\ r = [err |-> IF Len(record.text) > space THEN "kTruncated" ELSE "kOk",
                   out |-> start \o part]
  <2>. DEFINE o == start \o part
              e == IF Len(record.text) > space THEN "kTruncated" ELSE "kOk"
  <2>1. o \in Seq(Bytes) /\ e \in {"kOk", "kTruncated"} /\ r = [err |-> e, out |-> o]
    BY <1>4, <1>7
  <2>. HIDE DEF o, e
  <2>2. r \in LoadState
    BY <2>1 DEF LoadState
  <2>. QED
    BY <2>2 DEF r
<1>8. CASE ~ (/\ RoomFor(Len(start), 1, capacity)
              /\ r = [err |-> IF Len(record.text) > space THEN "kTruncated" ELSE "kOk",
                      out |-> start \o part])
  <2>1. \/ r = s
        \/ r = [err |-> "kReaderError", out |-> <<>>]
        \/ r = [err |-> "kTruncated", out |-> s.out]
        \/ r = [err |-> "kTruncated", out |-> start]
    BY <1>5, <1>8
  <2>2. ASSUME NEW o \in Seq(Bytes), NEW e \in {"kTruncated", "kReaderError"}
        PROVE  [err |-> e, out |-> o] \in LoadState
    BY DEF LoadState
  <2>3. r \in LoadState
    BY <1>1, <1>2, <1>6, <2>1, <2>2
  <2>. QED
    BY <2>3 DEF r
<1>. QED
  BY <1>7, <1>8

(* What is loaded, of a whole text, when some records have been loaded.    *)
Loaded(s, whole, records, capacity) ==
  /\ s \in LoadState
  /\ s.err = "kOk" => s.out = whole /\ Len(whole) < capacity
  /\ s.err = "kTruncated" =>
       IsPrefixOf(s.out, whole) /\ Len(s.out) < capacity /\ Len(whole) + 1 >= capacity
  /\ s.err = "kReaderError" => \E i \in DOMAIN records : ~(records[i].found /\ records[i].readable)

LEMMA RecordLoaded ==
  ASSUME NEW records \in Seq(BookRecord), NEW i \in 1..Len(records), NEW capacity \in Nat,
         NEW s, NEW whole \in Seq(Bytes), Loaded(s, whole, records, capacity)
  PROVE  /\ (whole \o Gap(i)) \o Unwrapped(records[i].text) \in Seq(Bytes)
         /\ Loaded(LoadRecord(s, i, records[i], capacity),
                   (whole \o Gap(i)) \o Unwrapped(records[i].text), records, capacity)
<1>. DEFINE full  == Unwrapped(records[i].text)
            whole2 == (whole \o Gap(i)) \o full
            r == LoadRecord(s, i, records[i], capacity)
            start == s.out \o Gap(i)
            space == capacity - Len(start) - 1
            part == Unwrapped(Front(records[i].text, space))
<1>1. /\ records[i] \in BookRecord /\ i \in Nat /\ i \in DOMAIN records
      /\ records[i].text \in Seq(Bytes) /\ records[i].found \in BOOLEAN
      /\ records[i].readable \in BOOLEAN
  <2>1. records[i] \in BookRecord
    BY ElementOfSeq
  <2>2. Len(records) \in Nat /\ DOMAIN records = 1..Len(records)
    BY LenProperties
  <2>. QED
    BY <2>1, <2>2 DEF BookRecord
<1>2. full \in Seq(Bytes) /\ Len(full) = Len(records[i].text) /\ Len(full) \in Nat
  BY <1>1, UnwrappedIs, LenProperties
<1>3. /\ Gap(i) \in Seq(Bytes) /\ Len(Gap(i)) \in Nat
      /\ i > 1 => Len(Gap(i)) = 2
      /\ ~ (i > 1) => Len(Gap(i)) = 0
  BY <1>1, GapIs
<1>4. Len(whole) \in Nat /\ whole \o Gap(i) \in Seq(Bytes)
      /\ Len(whole \o Gap(i)) = Len(whole) + Len(Gap(i))
  BY <1>3, ConcatProperties, LenProperties
<1>5. whole2 \in Seq(Bytes) /\ Len(whole2) = Len(whole) + Len(Gap(i)) + Len(full)
  <2>. DEFINE head == whole \o Gap(i)
  <2>. HIDE DEF full, head
  <2>1. head \in Seq(Bytes) /\ Len(head) = Len(whole) + Len(Gap(i))
    BY <1>4 DEF head
  <2>2. head \o full \in Seq(Bytes) /\ Len(head \o full) = Len(head) + Len(full)
    BY <1>2, <2>1, ConcatProperties
  <2>. QED
    BY <2>1, <2>2 DEF head
<1>6. ASSUME NEW t \in Seq(Bytes), IsPrefixOf(t, whole) PROVE IsPrefixOf(t, whole2)
  <2>. DEFINE head == whole \o Gap(i)
  <2>1. head \in Seq(Bytes) /\ IsPrefixOf(t, head)
    BY <1>3, <1>4, <1>6, PrefixGrows
  <2>. HIDE DEF full, head
  <2>2. IsPrefixOf(t, head \o full)
    BY <1>2, <2>1, PrefixGrows
  <2>. QED
    BY <2>2 DEF head
<1>. DEFINE w == Len(whole)
            g == Len(Gap(i))
            l == Len(full)
            w2 == Len(whole2)
<1>6a. /\ w \in Nat /\ g \in Nat /\ l \in Nat /\ w2 = w + g + l
       /\ i > 1 => g = 2
       /\ ~ (i > 1) => g = 0
       /\ Len(whole \o Gap(i)) = w + g
  BY <1>2, <1>3, <1>4, <1>5
<1>7. s \in LoadState /\ s.out \in Seq(Bytes)
  BY DEF Loaded, LoadState
<1>7a. start = IF i > 1 THEN s.out \o <<"n", "n">> ELSE s.out
  BY <1>7, ConcatEmptySeq DEF Gap
<1>8. r = IF s.err # "kOk" THEN s
          ELSE IF ~records[i].found THEN [err |-> "kReaderError", out |-> <<>>]
          ELSE IF i > 1 /\ ~RoomFor(Len(s.out), 2, capacity) THEN [err |-> "kTruncated", out |-> s.out]
          ELSE IF ~RoomFor(Len(start), 1, capacity) THEN [err |-> "kTruncated", out |-> start]
          ELSE IF ~records[i].readable THEN [err |-> "kReaderError", out |-> <<>>]
          ELSE [err |-> IF Len(records[i].text) > space THEN "kTruncated" ELSE "kOk",
                out |-> start \o part]
  <2>. HIDE DEF start
  <2>. QED
    BY <1>7a DEF LoadRecord
<1>. HIDE DEF r, full, whole2, start, space, part, w, g, l, w2
<1>9. Loaded(r, whole2, records, capacity)
  <2>1. CASE s.err # "kOk"
    <3>1. r = s
      BY <1>8, <2>1
    <3>2. s.err = "kTruncated" => IsPrefixOf(s.out, whole2) /\ w + 1 >= capacity
      BY <1>6, <1>7 DEF Loaded, w
    <3>3. w + 1 >= capacity => w2 + 1 >= capacity
      BY <1>6a
    <3>. QED
      BY <2>1, <3>1, <3>2, <3>3 DEF Loaded, w2
  <2>2. CASE s.err = "kOk" /\ (~records[i].found \/ ~records[i].readable)
             /\ r = [err |-> "kReaderError", out |-> <<>>]
    BY <1>1, <2>2 DEF Loaded, LoadState
  <2>3. CASE s.err = "kOk" /\ i > 1 /\ ~RoomFor(Len(s.out), 2, capacity)
             /\ r = [err |-> "kTruncated", out |-> s.out]
    <3>1. s.out = whole /\ Len(whole) < capacity /\ IsPrefixOf(whole, whole2)
      BY <1>6, <2>3, PrefixSelf DEF Loaded
    <3>2. w2 + 1 >= capacity
      <4>1. ~ (w + 2 < capacity)
        BY <2>3, <3>1 DEF RoomFor, w
      <4>. QED
        BY <1>6a, <2>3, <4>1
    <3>. QED
      BY <2>3, <3>1, <3>2 DEF Loaded, LoadState, w2
  <2>4. CASE /\ s.err = "kOk" /\ ~(i > 1 /\ ~RoomFor(Len(s.out), 2, capacity))
             /\ ~RoomFor(Len(start), 1, capacity)
             /\ r = [err |-> "kTruncated", out |-> start]
    <3>1. s.out = whole /\ Len(whole) < capacity /\ start = whole \o Gap(i)
      BY <2>4 DEF Loaded, start
    <3>2. IsPrefixOf(start, whole2) /\ start \in Seq(Bytes)
      BY <1>2, <1>4, <3>1, PrefixSelf DEF whole2
    <3>3. Len(start) < capacity /\ w2 + 1 >= capacity
      <4>1. /\ i > 1 => w + 2 < capacity
            /\ ~ (w + g + 1 < capacity) /\ w < capacity /\ Len(start) = w + g
        BY <1>6a, <2>4, <3>1 DEF RoomFor, w
      <4>. QED
        BY <1>6a, <4>1
    <3>. QED
      BY <2>4, <3>2, <3>3 DEF Loaded, LoadState, w2
  <2>5. CASE /\ s.err = "kOk" /\ RoomFor(Len(start), 1, capacity)
             /\ r = [err |-> IF Len(records[i].text) > space THEN "kTruncated" ELSE "kOk",
                     out |-> start \o part]
    <3>1. s.out = whole /\ start = whole \o Gap(i) /\ start \in Seq(Bytes) /\ Len(start) \in Nat
      BY <1>4, <2>5, LenProperties DEF Loaded, start
    <3>2. space \in Nat /\ Len(start) + space = capacity - 1 /\ capacity - 1 \in Nat
      BY <2>5, <3>1 DEF space, RoomFor
    <3>3. part = Front(full, space)
      BY <1>1, <3>2, UnwrappedIs DEF part, full
    <3>4. part \in Seq(Bytes) /\ Len(part) = Lower(space, Len(full))
          /\ (Len(full) <= space => part = full)
      BY <1>2, <3>2, <3>3, FrontIs
    <3>5. start \o part \in Seq(Bytes) /\ Len(start \o part) = Len(start) + Len(part)
      BY <3>1, <3>4, ConcatProperties
    <3>6. whole2 = start \o full
      BY <3>1 DEF whole2
    <3>7. CASE Len(full) > space
      <4>1. Len(part) = space
        BY <1>2, <3>2, <3>4, <3>7 DEF Lower
      <4>2. Len(start) <= capacity - 1 /\ (capacity - 1) - Len(start) = space
        BY <3>1, <3>2
      <4>3. start \o part = Front(whole2, capacity - 1)
        <5>. DEFINE c == capacity - 1
        <5>1. c \in Nat /\ Len(start) <= c /\ c - Len(start) = space
          BY <3>2, <4>2
        <5>. HIDE DEF c
        <5>2. Front(start \o full, c) = start \o Front(full, c - Len(start))
          <6>1. start \in Seq(Bytes) /\ full \in Seq(Bytes) /\ c \in Nat /\ Len(start) <= c
            BY <1>2, <3>1, <5>1
          <6>. QED
            BY <6>1, FrontOfBoth, Zenon
        <5>. QED
          BY <3>3, <3>6, <5>1, <5>2 DEF c
      <4>4. IsPrefixOf(start \o part, whole2)
        BY <1>5, <3>2, <4>3, FrontIs
      <4>5. Len(start \o part) < capacity /\ w2 + 1 >= capacity
        <5>1. /\ Len(start \o part) = Len(start) + space /\ Len(start) = w + g /\ l > space
              /\ Len(start) + space = capacity - 1
          BY <1>6a, <3>1, <3>2, <3>5, <3>7, <4>1 DEF l
        <5>. QED
          BY <1>6a, <3>2, <5>1
      <4>6. r = [err |-> "kTruncated", out |-> start \o part]
        BY <1>2, <2>5, <3>7
      <4>. QED
        BY <3>5, <4>4, <4>5, <4>6 DEF Loaded, LoadState, w2
    <3>8. CASE ~ (Len(full) > space)
      <4>1. start \o part = whole2
        <5>1. l \in Nat /\ ~ (l > space)
          BY <1>6a, <3>8 DEF l
        <5>2. l <= space
          BY <3>2, <5>1
        <5>. QED
          BY <3>4, <3>6, <5>2 DEF l
      <4>2. w2 < capacity
        <5>1. Len(start) = w + g /\ ~ (l > space) /\ Len(start) + space = capacity - 1
          BY <1>6a, <3>1, <3>2, <3>8 DEF l
        <5>. QED
          BY <1>6a, <3>2, <5>1
      <4>3. r = [err |-> "kOk", out |-> whole2]
        BY <1>2, <2>5, <3>8, <4>1
      <4>. QED
        BY <1>5, <4>2, <4>3 DEF Loaded, LoadState, w2
    <3>. QED
      BY <3>7, <3>8
  <2>. QED
    BY <1>1, <1>8, <2>1, <2>2, <2>3, <2>4, <2>5
<1>. QED
  BY <1>5, <1>9 DEF r, whole2, full

(* The records joined.                                                     *)
LEMMA JoinedIs ==
  ASSUME NEW records \in Seq(BookRecord)
  PROVE  \E To : /\ Joined(records) = To[Len(records)] /\ To[0] = <<>>
                 /\ \A i \in 0..Len(records) : To[i] \in Seq(Bytes)
                 /\ \A i \in 1..Len(records) :
                      To[i] = (To[i - 1] \o Gap(i)) \o Unwrapped(records[i].text)
<1>. DEFINE n == Len(records)
            S == Seq(Bytes)
            x == <<>>
            Text(i) == Unwrapped(records[i].text)
            To == CHOOSE To : To = [i \in 0..n |-> IF i = 0 THEN <<>>
                                      ELSE To[i - 1] \o Gap(i) \o Text(i)]
            G == [i \in 0..(n - 1) |-> [s \in S |-> s \o Gap(i + 1) \o Text(i + 1)]]
<1>1. n \in Nat /\ x \in S /\ 0 \in Nat
  BY LenProperties, EmptySeq
<1>2. Joined(records) = To[n]
  BY DEF Joined, Gap
<1>3. ASSUME NEW i \in 1..n, NEW s \in S PROVE s \o Gap(i) \o Text(i) \in S
  <2>1. records[i] \in BookRecord /\ i \in Nat
    BY <1>3, ElementOfSeq
  <2>2. Text(i) \in S /\ Gap(i) \in S
    BY <2>1, UnwrappedIs, GapIs DEF BookRecord
  <2>3. s \o Gap(i) \in S
    BY <2>2, ConcatProperties
  <2>. HIDE DEF Text
  <2>. QED
    BY <2>2, <2>3, ConcatProperties
<1>. HIDE DEF n, S, Text, x
<1>4. G \in [0..(n - 1) -> [S -> S]]
  <2>1. \A i \in 0..(n - 1) : i + 1 \in 1..n
    BY <1>1
  <2>. QED
    BY <1>3, <2>1
<1>5. PICK f : GoesOn(f, 0, n, S, x, G)
  <2>. HIDE DEF G
  <2>. QED
    BY <1>1, <1>4, Goes
<1>6. f = [i \in 0..n |-> IF i = 0 THEN <<>> ELSE f[i - 1] \o Gap(i) \o Text(i)]
  <2>1. ASSUME NEW i \in 0..n, i # 0 PROVE G[i - 1][f[i - 1]] = f[i - 1] \o Gap(i) \o Text(i)
    <3>1. i - 1 \in 0..(n - 1) /\ i - 1 \in 0..n /\ (i - 1) + 1 = i
      BY <1>1, <2>1
    <3>2. f[i - 1] \in S
      BY <1>5, <3>1 DEF GoesOn
    <3>. QED
      BY <3>1, <3>2
  <2>2. f = [i \in 0..n |-> f[i]]
    BY <1>5 DEF GoesOn
  <2>. HIDE DEF G
  <2>3. \A i \in 0..n : f[i] = IF i = 0 THEN <<>> ELSE f[i - 1] \o Gap(i) \o Text(i)
    BY <1>5, <2>1 DEF GoesOn, x
  <2>. QED
    BY <2>2, <2>3
<1>7. To = [i \in 0..n |-> IF i = 0 THEN <<>> ELSE To[i - 1] \o Gap(i) \o Text(i)]
  BY <1>6
<1>. HIDE DEF To, G
<1>8. To[0] = <<>> /\ \A i \in 1..n : To[i] = To[i - 1] \o Gap(i) \o Text(i)
  <2>1. 0 \in 0..n /\ \A i \in 1..n : i \in 0..n /\ i # 0
    BY <1>1
  <2>. QED
    BY <1>7, <2>1
<1>. DEFINE T == {i \in Nat : To[i] \in S}
<1>9. 0 \in T
  BY <1>1, <1>8 DEF x
<1>10. ASSUME NEW i \in 0..(n - 1), i \in T PROVE i + 1 \in T
  <2>1. i + 1 \in 1..n /\ (i + 1) - 1 = i /\ i + 1 \in Nat
    BY <1>1
  <2>. QED
    BY <1>3, <1>8, <1>10, <2>1
<1>11. 0..n \subseteq T
  <2>. HIDE DEF T
  <2>. QED
    BY <1>1, <1>9, <1>10, Along
<1>12. \A i \in 0..n : To[i] \in S
  BY <1>11
<1>. QED
  BY <1>2, <1>8, <1>12 DEF n, S, Text

(* A book is loaded whole, or cut where the buffer ends.                   *)
LEMMA BookLoaded ==
  ASSUME NEW records \in Seq(BookRecord), NEW capacity \in Nat
  PROVE  LET r == LoadBookText(records, capacity)
             whole == Joined(records)
         IN /\ r.err = "kOk" => r.out = whole /\ Len(whole) < capacity
            /\ r.err = "kTruncated" =>
                 /\ IsPrefixOf(r.out, whole)
                 /\ capacity > 0 => Len(r.out) < capacity /\ Len(whole) + 1 >= capacity
            /\ r.err = "kReaderError" =>
                 \E i \in DOMAIN records : ~(records[i].found /\ records[i].readable)
<1>. DEFINE n == Len(records)
            S == LoadState
            x == [err |-> "kOk", out |-> <<>>]
            At == CHOOSE At : At = [i \in 0..n |-> IF i = 0 THEN x
                                      ELSE LoadRecord(At[i - 1], i, records[i], capacity)]
            G == [i \in 0..(n - 1) |-> [s \in S |-> LoadRecord(s, i + 1, records[i + 1], capacity)]]
<1>1. n \in Nat /\ 0 \in Nat
  BY LenProperties
<1>2. PICK To : /\ Joined(records) = To[n] /\ To[0] = <<>>
                /\ \A i \in 0..n : To[i] \in Seq(Bytes)
                /\ \A i \in 1..n : To[i] = (To[i - 1] \o Gap(i)) \o Unwrapped(records[i].text)
  BY JoinedIs
<1>3. CASE capacity = 0
  <2>1. LoadBookText(records, capacity) = [err |-> "kTruncated", out |-> <<>>]
    BY <1>3 DEF LoadBookText
  <2>2. IsPrefixOf(<<>>, Joined(records))
    BY <1>1, <1>2, EmptySeq, PrefixSelf
  <2>. QED
    BY <1>3, <2>1, <2>2
<1>4. CASE capacity # 0
  <2>1. LoadBookText(records, capacity) = At[n]
    BY <1>4 DEF LoadBookText
  <2>2. ASSUME NEW i \in 1..n, NEW s \in S PROVE LoadRecord(s, i, records[i], capacity) \in S
    <3>1. records[i] \in BookRecord /\ i \in Nat
      BY ElementOfSeq
    <3>. QED
      BY <3>1, RecordTyped
  <2>3. x \in S
    BY EmptySeq DEF LoadState
  <2>. HIDE DEF n, S
  <2>4. G \in [0..(n - 1) -> [S -> S]]
    <3>1. \A i \in 0..(n - 1) : i + 1 \in 1..n
      BY <1>1
    <3>. QED
      BY <2>2, <3>1
  <2>. HIDE DEF x
  <2>5. PICK f : GoesOn(f, 0, n, S, x, G)
    <3>. HIDE DEF G
    <3>. QED
      BY <1>1, <2>3, <2>4, Goes
  <2>6. f = [i \in 0..n |-> IF i = 0 THEN x ELSE LoadRecord(f[i - 1], i, records[i], capacity)]
    <3>1. ASSUME NEW i \in 0..n, i # 0
          PROVE  G[i - 1][f[i - 1]] = LoadRecord(f[i - 1], i, records[i], capacity)
      <4>1. i - 1 \in 0..(n - 1) /\ i - 1 \in 0..n /\ (i - 1) + 1 = i
        BY <1>1, <3>1
      <4>2. f[i - 1] \in S
        BY <2>5, <4>1 DEF GoesOn
      <4>. QED
        BY <4>1, <4>2
    <3>2. f = [i \in 0..n |-> f[i]]
      BY <2>5 DEF GoesOn
    <3>. HIDE DEF G
    <3>3. \A i \in 0..n : f[i] = IF i = 0 THEN x ELSE LoadRecord(f[i - 1], i, records[i], capacity)
      BY <2>5, <3>1 DEF GoesOn
    <3>. QED
      BY <3>2, <3>3
  <2>7. At = [i \in 0..n |-> IF i = 0 THEN x ELSE LoadRecord(At[i - 1], i, records[i], capacity)]
    BY <2>6
  <2>. HIDE DEF At, G
  <2>8. At[0] = x /\ \A i \in 1..n : At[i] = LoadRecord(At[i - 1], i, records[i], capacity)
    <3>1. 0 \in 0..n /\ \A i \in 1..n : i \in 0..n /\ i # 0
      BY <1>1
    <3>. QED
      BY <2>7, <3>1
  <2>. DEFINE T == {i \in Nat : Loaded(At[i], To[i], records, capacity)}
  <2>9. 0 \in T
    <3>1. x.err = "kOk" /\ x.out = <<>>
      BY DEF x
    <3>2. Len(<<>>) = 0 /\ 0 < capacity
      BY <1>4, EmptySeq
    <3>3. Loaded(x, <<>>, records, capacity)
      BY <2>3, <3>1, <3>2 DEF Loaded, S
    <3>. QED
      BY <1>2, <2>8, <3>3
  <2>10. ASSUME NEW i \in 0..(n - 1), i \in T PROVE i + 1 \in T
    <3>. DEFINE j == i + 1
    <3>1. j \in 1..n /\ j - 1 = i /\ j \in Nat /\ i \in 0..n
      BY <1>1
    <3>2. Loaded(At[i], To[i], records, capacity) /\ To[i] \in Seq(Bytes)
      BY <1>2, <2>10, <3>1
    <3>. HIDE DEF j
    <3>3. At[j] = LoadRecord(At[i], j, records[j], capacity)
      BY <2>8, <3>1
    <3>4. To[j] = (To[i] \o Gap(j)) \o Unwrapped(records[j].text)
      BY <1>2, <3>1
    <3>5. Loaded(At[j], To[j], records, capacity)
      BY <3>1, <3>2, <3>3, <3>4, RecordLoaded DEF n
    <3>. QED
      BY <3>1, <3>5 DEF j
  <2>11. n \in T
    <3>1. n \in 0..n
      BY <1>1
    <3>. HIDE DEF T
    <3>. QED
      BY <1>1, <2>9, <2>10, <3>1, Along
  <2>. QED
    BY <1>2, <2>1, <2>11 DEF Loaded
<1>. QED
  BY <1>3, <1>4

-----------------------------------------------------------------------------
(* A page image                                                            *)

(* A function that is known at the end and otherwise found further on.     *)
LeadsOn(f, n, S, x, y, next, G) ==
  /\ f \in [1..(n + 1) -> S]
  /\ \A i \in 1..(n + 1) : f[i] = IF i = n + 1 THEN x
                                  ELSE IF next[i] > n + 1 THEN y ELSE G[i][f[next[i]]]

LEMMA Leads ==
  ASSUME NEW n \in Nat, NEW S, NEW x \in S, NEW y \in S, NEW next \in [1..n -> Nat],
         \A i \in 1..n : next[i] > i, NEW G \in [1..n -> [S -> S]]
  PROVE  \E f : LeadsOn(f, n, S, x, y, next, G)
<1>. DEFINE Is(f, a) == /\ f \in [a..(n + 1) -> S]
                        /\ \A i \in a..(n + 1) : f[i] = IF i = n + 1 THEN x
                                  ELSE IF next[i] > n + 1 THEN y ELSE G[i][f[next[i]]]
            T == {k \in Nat : k <= n => \E f : Is(f, n + 1 - k)}
<1>1. 0 \in T
  <2>. DEFINE f == [i \in (n + 1)..(n + 1) |-> x]
  <2>1. Is(f, n + 1)
    OBVIOUS
  <2>2. n + 1 - 0 = n + 1
    OBVIOUS
  <2>. QED
    BY <2>1, <2>2
<1>2. ASSUME NEW k \in 0..(n - 1), k \in T PROVE k + 1 \in T
  <2>. DEFINE a == n + 1 - k
              b == n + 1 - (k + 1)
  <2>1. /\ k \in Nat /\ k <= n /\ a \in Nat /\ b \in 1..n /\ a = b + 1 /\ b # n + 1
        /\ \A i \in b..(n + 1) : i = b \/ i \in a..(n + 1)
        /\ \A i \in a..(n + 1) : i # b /\ i \in b..(n + 1)
    OBVIOUS
  <2>2. PICK f : Is(f, a)
    BY <1>2, <2>1
  <2>. DEFINE v == IF next[b] > n + 1 THEN y ELSE G[b][f[next[b]]]
              g == [i \in b..(n + 1) |-> IF i = b THEN v ELSE f[i]]
  <2>3. next[b] \in Nat /\ next[b] > b /\ G[b] \in [S -> S]
    BY <2>1
  <2>. HIDE DEF a, b
  <2>4. ~ (next[b] > n + 1) => next[b] \in a..(n + 1) /\ next[b] # b
    BY <2>1, <2>3
  <2>5. v \in S
    <3>1. CASE next[b] > n + 1
      BY <3>1
    <3>2. CASE ~ (next[b] > n + 1)
      BY <2>2, <2>3, <2>4, <3>2
    <3>. QED
      BY <3>1, <3>2
  <2>. HIDE DEF v
  <2>6. g \in [b..(n + 1) -> S]
    BY <2>1, <2>2, <2>5
  <2>7. g[b] = v /\ \A i \in a..(n + 1) : g[i] = f[i]
    BY <2>1
  <2>. HIDE DEF g
  <2>8. ASSUME NEW i \in b..(n + 1)
        PROVE  g[i] = IF i = n + 1 THEN x ELSE IF next[i] > n + 1 THEN y ELSE G[i][g[next[i]]]
    <3>1. CASE i = b
      <4>1. ~ (next[b] > n + 1) => g[next[b]] = f[next[b]]
        BY <2>4, <2>7
      <4>. QED
        BY <2>1, <2>7, <3>1, <4>1 DEF v
    <3>2. CASE i # b
      <4>1. i \in a..(n + 1)
        BY <2>1, <3>2
      <4>2. f[i] = IF i = n + 1 THEN x ELSE IF next[i] > n + 1 THEN y ELSE G[i][f[next[i]]]
        BY <2>2, <4>1
      <4>3. i # n + 1 /\ ~ (next[i] > n + 1) => next[i] \in a..(n + 1)
        <5>. SUFFICES ASSUME i # n + 1, ~ (next[i] > n + 1) PROVE next[i] \in a..(n + 1)
          OBVIOUS
        <5>1. i \in 1..n
          BY <2>1, <4>1
        <5>2. next[i] \in Nat /\ next[i] > i
          BY <5>1
        <5>. QED
          BY <2>1, <4>1, <5>2
      <4>4. i # n + 1 /\ ~ (next[i] > n + 1) => g[next[i]] = f[next[i]]
        BY <2>7, <4>3
      <4>. QED
        BY <2>7, <4>1, <4>2, <4>4
    <3>. QED
      BY <3>1, <3>2
  <2>9. Is(g, b)
    BY <2>6, <2>8
  <2>10. b = n + 1 - (k + 1)
    BY DEF b
  <2>. HIDE DEF Is
  <2>11. Is(g, n + 1 - (k + 1)) /\ k + 1 \in Nat
    BY <2>1, <2>9, <2>10
  <2>. QED
    BY <2>11
<1>3. n \in T
  <2>1. n \in 0..n /\ 0 \in Nat
    OBVIOUS
  <2>. HIDE DEF T
  <2>. QED
    BY <1>1, <1>2, <2>1, Along
<1>4. n + 1 - n = 1
  OBVIOUS
<1>5. PICK f : Is(f, 1)
  BY <1>3, <1>4
<1>. QED
  BY <1>5 DEF LeadsOn

PackedBytes == 0..(2 * Half - 1)
UnpackState(length) == [at : Nat \ {0}, out : {o \in Seq(Nat) : Len(o) <= length}, ok : BOOLEAN]

(* What a run stands for, if all of it is there.                           *)
LEMMA MeansIs ==
  ASSUME NEW src \in Seq(PackedBytes), NEW i \in 1..Len(src)
  PROVE  /\ src[i] \in Nat /\ Spans(src, i) \in Nat \ {0}
         /\ i + Spans(src, i) <= Len(src) + 1 =>
              /\ Means(src, i) \in Seq(Nat)
              /\ src[i] < Half => Len(Means(src, i)) = src[i] + 1
              /\ src[i] = Half => Len(Means(src, i)) = 0
              /\ src[i] > Half => Len(Means(src, i)) = RunLength(src[i])
<1>1. Half \in Nat \ {0} /\ Len(src) \in Nat /\ i \in Nat
  BY BookTextAssumption, LenProperties
<1>2. \A j \in 1..Len(src) : src[j] \in Nat /\ src[j] <= 2 * Half - 1
  <2>. SUFFICES ASSUME NEW j \in 1..Len(src) PROVE src[j] \in Nat /\ src[j] <= 2 * Half - 1
    OBVIOUS
  <2>1. src[j] \in PackedBytes
    BY ElementOfSeq
  <2>. QED
    BY <1>1, <2>1 DEF PackedBytes
<1>3. src[i] \in Nat /\ src[i] <= 2 * Half - 1
  BY <1>2
<1>. DEFINE b == src[i]
<1>. HIDE DEF b
<1>4. Spans(src, i) = IF b < Half THEN b + 2 ELSE IF b = Half THEN 1 ELSE 2
  BY DEF Spans, b
<1>5. ASSUME i + Spans(src, i) <= Len(src) + 1
      PROVE  /\ Means(src, i) \in Seq(Nat)
             /\ b < Half => Len(Means(src, i)) = b + 1
             /\ b = Half => Len(Means(src, i)) = 0
             /\ b > Half => Len(Means(src, i)) = RunLength(b)
  <2>1. CASE b < Half
    <3>. DEFINE l == i + 1
                m == i + 1 + b
    <3>1. l \in Int /\ m \in Int /\ l <= m /\ m - l + 1 = b + 1 /\ \A j \in l..m : j \in 1..Len(src)
      BY <1>1, <1>3, <1>4, <1>5, <2>1 DEF b
    <3>2. Means(src, i) = SubSeq(src, l, m)
      BY <2>1 DEF Means, b
    <3>. HIDE DEF l, m
    <3>3. \A j \in l..m : src[j] \in Nat
      BY <1>2, <3>1
    <3>4. /\ SubSeq(src, l, m) \in Seq(Nat)
          /\ Len(SubSeq(src, l, m)) = IF l <= m THEN m - l + 1 ELSE 0
      BY <3>1, <3>3, SubSeqProperties
    <3>5. Means(src, i) \in Seq(Nat) /\ Len(Means(src, i)) = b + 1
      BY <3>1, <3>2, <3>4
    <3>6. ~ (b = Half) /\ ~ (b > Half)
      BY <1>1, <1>3, <2>1 DEF b
    <3>. QED
      BY <3>5, <3>6
  <2>2. CASE b = Half
    <3>1. Means(src, i) = <<>>
      BY <1>1, <2>2 DEF Means, b
    <3>. QED
      BY <1>1, <2>2, <3>1, EmptySeq
  <2>3. CASE b > Half
    <3>. DEFINE l == 1 + (2 * Half - b)
                m == Means(src, i)
    <3>1. l \in Nat /\ l = RunLength(b) /\ i + 1 \in 1..Len(src)
      BY <1>1, <1>3, <1>4, <1>5, <2>3 DEF RunLength, b
    <3>2. m = [k \in 1..l |-> src[i + 1]]
      BY <1>1, <1>3, <2>3 DEF Means, b
    <3>. HIDE DEF l, m
    <3>3. src[i + 1] \in Nat
      BY <1>2, <3>1
    <3>4. m \in [1..l -> Nat] /\ DOMAIN m = 1..l
      BY <3>2, <3>3
    <3>5. m \in Seq(Nat)
      BY <3>1, <3>4, SeqDef
    <3>6. Len(m) \in Nat /\ DOMAIN m = 1..Len(m)
      BY <3>5, LenProperties
    <3>7. Len(m) = l
      BY <3>1, <3>4, <3>6
    <3>. QED
      BY <1>1, <1>3, <2>3, <3>1, <3>5, <3>7 DEF b, m
  <2>. QED
    BY <1>1, <1>3, <2>1, <2>2, <2>3 DEF b
<1>6. Spans(src, i) \in Nat \ {0}
  BY <1>1, <1>3, <1>4 DEF b
<1>. QED
  BY <1>3, <1>5, <1>6 DEF b

(* The runs joined, from each one on.                                      *)
LEMMA RunsAre ==
  ASSUME NEW src \in Seq(PackedBytes)
  PROVE  \E From :
           /\ Runs(src) = From[1] /\ From[Len(src) + 1] = [whole |-> TRUE, out |-> <<>>]
           /\ \A i \in 1..(Len(src) + 1) : From[i] \in [whole : BOOLEAN, out : Seq(Nat)]
           /\ \A i \in 1..Len(src) :
                From[i] = IF i + Spans(src, i) > Len(src) + 1 THEN [whole |-> FALSE, out |-> <<>>]
                          ELSE [whole |-> From[i + Spans(src, i)].whole,
                                out |-> Means(src, i) \o From[i + Spans(src, i)].out]
<1>. DEFINE n == Len(src)
            S == [whole : BOOLEAN, out : Seq(Nat)]
            x == [whole |-> TRUE, out |-> <<>>]
            y == [whole |-> FALSE, out |-> <<>>]
            next == [i \in 1..n |-> i + Spans(src, i)]
            Join(i, s) == [whole |-> s.whole, out |-> Means(src, i) \o s.out]
            From == CHOOSE From : From = [i \in 1..(n + 1) |->
                      IF i = n + 1 THEN x
                      ELSE IF i + Spans(src, i) > n + 1 THEN y
                      ELSE Join(i, From[i + Spans(src, i)])]
            G == [i \in 1..n |-> [s \in S |-> IF i + Spans(src, i) > n + 1 THEN y ELSE Join(i, s)]]
<1>1. n \in Nat /\ x \in S /\ y \in S
  BY LenProperties, EmptySeq
<1>2. Runs(src) = From[1]
  BY DEF Runs
<1>3. \A i \in 1..n : i + Spans(src, i) \in Nat /\ i + Spans(src, i) > i
  <2>. SUFFICES ASSUME NEW i \in 1..n PROVE i + Spans(src, i) \in Nat /\ i + Spans(src, i) > i
    OBVIOUS
  <2>1. Spans(src, i) \in Nat \ {0}
    BY MeansIs
  <2>. HIDE DEF n
  <2>. QED
    BY <1>1, <2>1
<1>4. ASSUME NEW i \in 1..n, NEW s \in S, ~ (i + Spans(src, i) > n + 1) PROVE Join(i, s) \in S
  <2>1. i + Spans(src, i) <= n + 1
    <3>. HIDE DEF n
    <3>. QED
      BY <1>1, <1>3, <1>4
  <2>2. Means(src, i) \in Seq(Nat) /\ s.out \in Seq(Nat) /\ s.whole \in BOOLEAN
    BY <2>1, MeansIs
  <2>3. Means(src, i) \o s.out \in Seq(Nat)
    BY <2>2, ConcatProperties
  <2>. QED
    BY <2>2, <2>3
<1>. HIDE DEF n, x, y, S, Join
<1>5. next \in [1..n -> Nat] /\ \A i \in 1..n : next[i] > i
  BY <1>3
<1>6. G \in [1..n -> [S -> S]]
  BY <1>1, <1>4
<1>7. PICK f : LeadsOn(f, n, S, x, y, next, G)
  <2>. HIDE DEF next, G
  <2>. QED
    BY <1>1, <1>5, <1>6, Leads
<1>8. ASSUME NEW g, g \in [1..(n + 1) -> S] PROVE
      \A i \in 1..n : ~ (i + Spans(src, i) > n + 1) => G[i][g[next[i]]] = Join(i, g[i + Spans(src, i)])
  <2>. SUFFICES ASSUME NEW i \in 1..n, ~ (i + Spans(src, i) > n + 1)
                PROVE  G[i][g[next[i]]] = Join(i, g[i + Spans(src, i)])
    OBVIOUS
  <2>1. next[i] = i + Spans(src, i) /\ i + Spans(src, i) \in 1..(n + 1)
    BY <1>1, <1>3
  <2>2. g[i + Spans(src, i)] \in S
    BY <1>8, <2>1
  <2>. QED
    BY <2>1, <2>2
<1>9. f = [i \in 1..(n + 1) |-> IF i = n + 1 THEN x
                                ELSE IF i + Spans(src, i) > n + 1 THEN y
                                ELSE Join(i, f[i + Spans(src, i)])]
  <2>1. f \in [1..(n + 1) -> S]
    BY <1>7 DEF LeadsOn
  <2>2. ASSUME NEW i \in 1..(n + 1)
        PROVE  f[i] = IF i = n + 1 THEN x
                      ELSE IF i + Spans(src, i) > n + 1 THEN y ELSE Join(i, f[i + Spans(src, i)])
    <3>1. f[i] = IF i = n + 1 THEN x ELSE IF next[i] > n + 1 THEN y ELSE G[i][f[next[i]]]
      BY <1>7 DEF LeadsOn
    <3>2. CASE i = n + 1
      BY <3>1, <3>2
    <3>3. CASE i # n + 1
      <4>1. i \in 1..n /\ next[i] = i + Spans(src, i)
        BY <1>1, <3>3
      <4>2. ~ (i + Spans(src, i) > n + 1) => G[i][f[next[i]]] = Join(i, f[i + Spans(src, i)])
        BY <1>8, <2>1, <4>1
      <4>. HIDE DEF next, G
      <4>. QED
        BY <3>1, <3>3, <4>1, <4>2
    <3>. QED
      BY <3>2, <3>3
  <2>3. f = [i \in 1..(n + 1) |-> f[i]]
    BY <2>1
  <2>. QED
    BY <2>2, <2>3
<1>10. From = [i \in 1..(n + 1) |-> IF i = n + 1 THEN x
                                    ELSE IF i + Spans(src, i) > n + 1 THEN y
                                    ELSE Join(i, From[i + Spans(src, i)])]
  BY <1>9
<1>. HIDE DEF From, next, G
<1>11. From[n + 1] = x
  <2>1. n + 1 \in 1..(n + 1)
    BY <1>1
  <2>. QED
    BY <1>10, <2>1
<1>12. \A i \in 1..n : From[i] = IF i + Spans(src, i) > n + 1 THEN y
                                 ELSE Join(i, From[i + Spans(src, i)])
  <2>1. \A i \in 1..n : i \in 1..(n + 1) /\ i # n + 1
    BY <1>1
  <2>. QED
    BY <1>10, <2>1
<1>13. \A i \in 1..(n + 1) : From[i] \in S
  <2>. DEFINE B == {i \in 1..(n + 1) : From[i] \notin S}
  <2>. SUFFICES ASSUME B # {} PROVE FALSE
    OBVIOUS
  <2>1. PICK i \in B : \A j \in B : j <= i
    <3>1. B \in SUBSET (0..(n + 1)) /\ n + 1 \in Nat
      BY <1>1
    <3>. HIDE DEF B
    <3>. QED
      BY <3>1, GreatestNumber
  <2>2. i # n + 1
    BY <1>1, <1>11, <2>1
  <2>3. i \in 1..n
    BY <1>1, <2>1, <2>2
  <2>4. CASE i + Spans(src, i) > n + 1
    BY <1>1, <1>12, <2>1, <2>3, <2>4
  <2>5. CASE ~ (i + Spans(src, i) > n + 1)
    <3>. DEFINE j == i + Spans(src, i)
    <3>1. j \in 1..(n + 1) /\ j > i
      BY <1>1, <1>3, <2>3, <2>5
    <3>2. j \notin B
      BY <1>1, <2>1, <2>3, <3>1
    <3>3. From[j] \in S
      BY <3>1, <3>2
    <3>. HIDE DEF j
    <3>4. From[i] = Join(i, From[j])
      BY <1>12, <2>3, <2>5 DEF j
    <3>5. Join(i, From[j]) \in S
      BY <1>4, <2>3, <2>5, <3>3
    <3>. QED
      BY <2>1, <3>4, <3>5
  <2>. QED
    BY <2>4, <2>5
<1>. QED
  BY <1>2, <1>11, <1>12, <1>13 DEF n, x, y, S, Join

(* One run is unpacked whole, or nothing more is.                          *)
LEMMA RunUnpacked ==
  ASSUME NEW src \in Seq(PackedBytes), NEW length \in Nat, NEW s \in UnpackState(length)
  PROVE  /\ UnpackRun(src, length, s) \in UnpackState(length)
         /\ ~s.ok \/ s.at > Len(src) => UnpackRun(src, length, s) = s
         /\ s.ok /\ s.at <= Len(src) =>
              IF /\ s.at + Spans(src, s.at) <= Len(src) + 1
                 /\ Len(s.out) + Len(Means(src, s.at)) <= length
              THEN UnpackRun(src, length, s) = [at |-> s.at + Spans(src, s.at),
                                                out |-> s.out \o Means(src, s.at), ok |-> TRUE]
              ELSE UnpackRun(src, length, s) = [s EXCEPT !.ok = FALSE]
<1>. DEFINE r == UnpackRun(src, length, s)
            i == s.at
            n == Len(src)
            m == Means(src, i)
            b == src[i]
            left == n - i
            run == IF b < Half THEN SubSeq(src, i + 1, i + b + 1)
                   ELSE [k \in 1..RunLength(b) |-> src[i + 1]]
            room == length - Len(s.out)
<1>1. /\ i \in Nat \ {0} /\ s.out \in Seq(Nat) /\ Len(s.out) <= length /\ s.ok \in BOOLEAN
      /\ s = [at |-> i, out |-> s.out, ok |-> s.ok]
  BY DEF UnpackState
<1>2. n \in Nat /\ Half \in Nat \ {0} /\ Len(s.out) \in Nat
  BY <1>1, LenProperties, BookTextAssumption
<1>3. r = IF ~s.ok \/ i > n THEN s
          ELSE IF b = Half THEN [s EXCEPT !.at = @ + 1]
          ELSE IF left < (IF b < Half THEN b + 1 ELSE 1) \/ Len(run) > room
          THEN [s EXCEPT !.ok = FALSE]
          ELSE [s EXCEPT !.at = @ + (IF b < Half THEN b + 2 ELSE 2), !.out = @ \o run]
  BY DEF UnpackRun
<1>. HIDE DEF r, run, n
<1>4. CASE ~s.ok \/ i > n
  <2>1. r = s /\ ~ (s.ok /\ i <= n)
    BY <1>1, <1>2, <1>3, <1>4
  <2>. QED
    BY <1>1, <1>4, <2>1 DEF r, n
<1>5. CASE s.ok /\ ~ (i > n)
  <2>1. i \in 1..n
    BY <1>1, <1>2, <1>5
  <2>2. /\ b \in Nat /\ Spans(src, i) \in Nat \ {0}
        /\ i + Spans(src, i) <= n + 1 =>
             /\ m \in Seq(Nat)
             /\ b < Half => Len(m) = b + 1
             /\ b = Half => Len(m) = 0
             /\ b > Half => Len(m) = RunLength(b)
    BY <2>1, MeansIs DEF n
  <2>3. Spans(src, i) = IF b < Half THEN b + 2 ELSE IF b = Half THEN 1 ELSE 2
    BY DEF Spans
  <2>4. b # Half => m = run
    <3>. SUFFICES ASSUME b # Half PROVE m = run
      OBVIOUS
    <3>1. i + 1 + b = i + b + 1 /\ 1 + (2 * Half - b) = 2 * Half + 1 - b
      BY <1>1, <1>2, <2>2
    <3>. QED
      BY <3>1 DEF Means, run, RunLength
  <2>. DEFINE fits == i + Spans(src, i) <= n + 1 /\ Len(s.out) + Len(m) <= length
  <2>5. i + Spans(src, i) <= n + 1 => Len(m) \in Nat /\ m \in Seq(Nat)
    BY <2>2, LenProperties
  <2>. HIDE DEF m, b
  <2>6. ASSUME fits PROVE r = [at |-> i + Spans(src, i), out |-> s.out \o m, ok |-> TRUE]
    <3>1. CASE b = Half
      <4>1. m = <<>>
        <5>1. m \in Seq(Nat) /\ Len(m) = 0
          BY <2>2, <2>6, <3>1
        <5>. QED
          BY <5>1, EmptySeq
      <4>2. s.out \o m = s.out
        BY <1>1, <4>1, ConcatEmptySeq
      <4>3. r = [at |-> i + 1, out |-> s.out, ok |-> TRUE] /\ Spans(src, i) = 1
        <5>1. r = [s EXCEPT !.at = @ + 1]
          BY <1>3, <1>5, <3>1
        <5>2. [s EXCEPT !.at = @ + 1] = [at |-> i + 1, out |-> s.out, ok |-> s.ok]
          BY <1>1
        <5>3. s.ok = TRUE
          BY <1>1, <1>5
        <5>4. Spans(src, i) = 1
          BY <1>2, <2>3, <3>1
        <5>. QED
          BY <5>1, <5>2, <5>3, <5>4
      <4>. QED
        BY <4>2, <4>3
    <3>2. CASE b # Half
      <4>1. ~ (left < (IF b < Half THEN b + 1 ELSE 1))
        BY <1>1, <1>2, <2>2, <2>3, <2>6, <3>2
      <4>2. ~ (Len(m) > room)
        <5>. DEFINE lm == Len(m)
                    lo == Len(s.out)
        <5>1. lm \in Nat /\ lo \in Nat /\ lo + lm <= length
          BY <1>2, <2>5, <2>6
        <5>. HIDE DEF lm, lo
        <5>2. ~ (lm > length - lo)
          BY <5>1
        <5>. QED
          BY <5>2 DEF lm, lo
      <4>3. Spans(src, i) = IF b < Half THEN b + 2 ELSE 2
        BY <2>3, <3>2
      <4>. QED
        BY <1>1, <1>3, <1>5, <2>4, <3>2, <4>1, <4>2, <4>3
    <3>. QED
      BY <3>1, <3>2
  <2>7. ASSUME ~fits PROVE r = [s EXCEPT !.ok = FALSE]
    <3>1. b # Half
      <4>. SUFFICES ASSUME b = Half PROVE FALSE
        OBVIOUS
      <4>1. Spans(src, i) = 1 /\ i + Spans(src, i) <= n + 1
        BY <1>1, <1>2, <2>1, <2>3
      <4>2. Len(m) = 0
        BY <2>2, <4>1
      <4>. QED
        BY <1>1, <1>2, <2>7, <4>1, <4>2
    <3>2. left < (IF b < Half THEN b + 1 ELSE 1) \/ Len(run) > room
      <4>1. CASE i + Spans(src, i) <= n + 1
        <5>. DEFINE lm == Len(m)
                    lo == Len(s.out)
        <5>1. lm \in Nat /\ lo \in Nat /\ ~ (lo + lm <= length)
          BY <1>2, <2>5, <2>7, <4>1
        <5>. HIDE DEF lm, lo
        <5>2. lm > length - lo
          BY <5>1
        <5>. QED
          BY <2>4, <3>1, <5>2 DEF lm, lo
      <4>2. CASE ~ (i + Spans(src, i) <= n + 1)
        BY <1>1, <1>2, <2>1, <2>2, <2>3, <3>1, <4>2
      <4>. QED
        BY <4>1, <4>2
    <3>. QED
      BY <1>3, <1>5, <3>1, <3>2
  <2>8. r \in UnpackState(length)
    <3>1. CASE fits
      <4>1. s.out \o m \in Seq(Nat) /\ Len(s.out \o m) = Len(s.out) + Len(m)
        BY <1>1, <2>5, <3>1, ConcatProperties
      <4>2. i + Spans(src, i) \in Nat \ {0} /\ Len(s.out \o m) <= length
        BY <1>1, <2>2, <3>1, <4>1
      <4>3. ASSUME NEW o \in Seq(Nat), Len(o) <= length, NEW j \in Nat \ {0}
            PROVE  [at |-> j, out |-> o, ok |-> TRUE] \in UnpackState(length)
        BY <4>3 DEF UnpackState
      <4>. QED
        BY <2>6, <3>1, <4>1, <4>2, <4>3
    <3>2. CASE ~fits
      <4>1. r = [at |-> i, out |-> s.out, ok |-> FALSE]
        BY <1>1, <2>7, <3>2
      <4>. QED
        BY <1>1, <4>1 DEF UnpackState
    <3>. QED
      BY <3>1, <3>2
  <2>. QED
    BY <1>1, <1>2, <1>5, <2>1, <2>6, <2>7, <2>8 DEF r, n, m
<1>. QED
  BY <1>4, <1>5

(* A page's bytes come out whole or not at all.                            *)
LEMMA PageUnpacked ==
  ASSUME NEW src \in Seq(PackedBytes), NEW length \in Nat
  PROVE  LET r == UnpackBits(src, length)
             runs == Runs(src)
         IN /\ r.ok = (runs.whole /\ Len(runs.out) = length)
            /\ r.ok => r.out = runs.out
<1>. DEFINE n == Len(src)
            S == UnpackState(length)
            x == [at |-> 1, out |-> <<>>, ok |-> TRUE]
            At == CHOOSE At : At = [k \in 0..n |-> IF k = 0 THEN x ELSE UnpackRun(src, length, At[k - 1])]
            G == [k \in 0..(n - 1) |-> [s \in S |-> UnpackRun(src, length, s)]]
<1>1. n \in Nat /\ 0 \in Nat
  BY LenProperties
<1>0. \A o, m, u \in Seq(Nat) : (o \o m) \o u = o \o (m \o u)
  BY ConcatAssociative
<1>2. UnpackBits(src, length) = [ok |-> At[n].ok /\ Len(At[n].out) = length, out |-> At[n].out]
  BY DEF UnpackBits
<1>3. PICK From :
        /\ Runs(src) = From[1] /\ From[n + 1] = [whole |-> TRUE, out |-> <<>>]
        /\ \A i \in 1..(n + 1) : From[i] \in [whole : BOOLEAN, out : Seq(Nat)]
        /\ \A i \in 1..n :
             From[i] = IF i + Spans(src, i) > n + 1 THEN [whole |-> FALSE, out |-> <<>>]
                       ELSE [whole |-> From[i + Spans(src, i)].whole,
                             out |-> Means(src, i) \o From[i + Spans(src, i)].out]
  BY RunsAre
<1>4. ASSUME NEW s \in S PROVE UnpackRun(src, length, s) \in S
  BY <1>4, RunUnpacked
<1>5. x \in S
  <2>1. <<>> \in Seq(Nat) /\ Len(<<>>) = 0 /\ 0 <= length
    BY EmptySeq
  <2>2. ASSUME NEW o \in Seq(Nat), Len(o) <= length
        PROVE  [at |-> 1, out |-> o, ok |-> TRUE] \in UnpackState(length)
    BY <2>2 DEF UnpackState
  <2>. QED
    BY <2>1, <2>2
<1>. HIDE DEF n, S
<1>6. G \in [0..(n - 1) -> [S -> S]]
  BY <1>4
<1>. HIDE DEF x
<1>7. PICK f : GoesOn(f, 0, n, S, x, G)
  <2>. HIDE DEF G
  <2>. QED
    BY <1>1, <1>5, <1>6, Goes
<1>8. f = [k \in 0..n |-> IF k = 0 THEN x ELSE UnpackRun(src, length, f[k - 1])]
  <2>1. ASSUME NEW k \in 0..n, k # 0 PROVE G[k - 1][f[k - 1]] = UnpackRun(src, length, f[k - 1])
    <3>1. k - 1 \in 0..(n - 1) /\ k - 1 \in 0..n
      BY <1>1, <2>1
    <3>2. f[k - 1] \in S
      BY <1>7, <3>1 DEF GoesOn
    <3>. QED
      BY <3>1, <3>2
  <2>2. f = [k \in 0..n |-> f[k]]
    BY <1>7 DEF GoesOn
  <2>. HIDE DEF G
  <2>3. \A k \in 0..n : f[k] = IF k = 0 THEN x ELSE UnpackRun(src, length, f[k - 1])
    BY <1>7, <2>1 DEF GoesOn
  <2>. QED
    BY <2>2, <2>3
<1>9. At = [k \in 0..n |-> IF k = 0 THEN x ELSE UnpackRun(src, length, At[k - 1])]
  BY <1>8
<1>. HIDE DEF At, G
<1>10. At[0] = x /\ \A k \in 0..(n - 1) : At[k + 1] = UnpackRun(src, length, At[k])
  <2>1. 0 \in 0..n /\ \A k \in 0..(n - 1) : k + 1 \in 0..n /\ k + 1 # 0 /\ (k + 1) - 1 = k
    BY <1>1
  <2>. QED
    BY <1>9, <2>1
(* What is still to come completes what has been unpacked.                 *)
<1>. DEFINE Whole(s, k) ==
              IF s.ok
              THEN /\ From[1].whole = From[s.at].whole /\ From[1].out = s.out \o From[s.at].out
                   /\ s.at > k \/ s.at = n + 1
              ELSE ~ (From[1].whole /\ Len(From[1].out) = length)
            T == {k \in Nat : At[k] \in S /\ (At[k].ok => At[k].at \in 1..(n + 1)) /\ Whole(At[k], k)}
<1>11. 0 \in T
  <2>1. At[0] \in S /\ At[0].ok /\ At[0].at = 1 /\ At[0].out = <<>>
    BY <1>5, <1>10 DEF x
  <2>2. 1 \in 1..(n + 1) /\ 1 > 0
    BY <1>1
  <2>3. From[1].out \in Seq(Nat)
    BY <1>3, <2>2
  <2>4. <<>> \o From[1].out = From[1].out
    BY <2>3, ConcatEmptySeq
  <2>. QED
    BY <2>1, <2>2, <2>4
<1>12. ASSUME NEW k \in 0..(n - 1), k \in T PROVE k + 1 \in T
  <2>. DEFINE s == At[k]
              r == At[k + 1]
              i == s.at
              j == i + Spans(src, i)
              m == Means(src, i)
  <2>1. s \in S /\ (s.ok => i \in 1..(n + 1)) /\ Whole(s, k) /\ r = UnpackRun(src, length, s)
        /\ k \in Nat /\ k + 1 \in Nat /\ r \in S
    <3>1. s \in S /\ (s.ok => i \in 1..(n + 1)) /\ Whole(s, k)
      BY <1>12
    <3>2. r = UnpackRun(src, length, s) /\ k \in Nat /\ k + 1 \in Nat
      BY <1>10
    <3>3. r \in S
      BY <1>4, <3>1, <3>2
    <3>. QED
      BY <3>1, <3>2, <3>3
  <2>. HIDE DEF s, r, T
  <2>2. /\ i \in Nat \ {0} /\ s.out \in Seq(Nat) /\ Len(s.out) <= length /\ s.ok \in BOOLEAN
        /\ s = [at |-> i, out |-> s.out, ok |-> s.ok]
    BY <2>1 DEF S, UnpackState
  <2>3. /\ ~s.ok \/ i > n => r = s
        /\ s.ok /\ i <= n =>
             IF j <= n + 1 /\ Len(s.out) + Len(m) <= length
             THEN r = [at |-> j, out |-> s.out \o m, ok |-> TRUE]
             ELSE r = [s EXCEPT !.ok = FALSE]
    <3>1. s \in UnpackState(length)
      BY <2>1 DEF S
    <3>. QED
      BY <2>1, <3>1, RunUnpacked DEF n
  <2>. HIDE DEF m
  <2>4. CASE ~s.ok \/ i > n
    <3>1. r = s
      BY <2>3, <2>4
    <3>2. s.ok => i = n + 1
      BY <1>1, <2>1, <2>4
    <3>3. Whole(s, k + 1)
      BY <2>1, <3>2
    <3>4. Whole(r, k + 1) /\ (r.ok => r.at \in 1..(n + 1))
      BY <2>1, <3>1, <3>3
    <3>. QED
      BY <2>1, <3>4 DEF T, r
  <2>5. CASE s.ok /\ ~ (i > n)
    <3>1. i \in 1..n /\ i <= n /\ i # n + 1 /\ i > k
      BY <1>1, <2>1, <2>5
    <3>2. /\ Spans(src, i) \in Nat \ {0} /\ src[i] \in Nat
          /\ j <= n + 1 => m \in Seq(Nat) /\ Len(m) \in Nat
      <4>1. i \in 1..Len(src)
        BY <3>1 DEF n
      <4>2. Spans(src, i) \in Nat \ {0} /\ src[i] \in Nat /\ (j <= n + 1 => m \in Seq(Nat))
        BY <4>1, MeansIs DEF n, m
      <4>. QED
        BY <4>2, LenProperties
    <3>3. j \in Nat /\ j > i /\ (j <= n + 1 <=> ~ (j > n + 1))
      BY <1>1, <3>1, <3>2
    <3>4. From[1].whole = From[i].whole /\ From[1].out = s.out \o From[i].out
      BY <2>1, <2>5
    <3>5. /\ j > n + 1 => From[i].whole = FALSE
          /\ j <= n + 1 => From[i].whole = From[j].whole /\ From[i].out = m \o From[j].out
      <4>1. From[i] = IF j > n + 1 THEN [whole |-> FALSE, out |-> <<>>]
                      ELSE [whole |-> From[j].whole, out |-> m \o From[j].out]
        BY <1>3, <3>1 DEF m
      <4>2. CASE j > n + 1
        <5>1. From[i] = [whole |-> FALSE, out |-> <<>>]
          BY <4>1, <4>2
        <5>2. ~ (j <= n + 1)
          BY <1>1, <3>3, <4>2
        <5>3. From[i].whole = FALSE
          BY <5>1
        <5>. QED
          BY <5>2, <5>3
      <4>3. CASE ~ (j > n + 1)
        BY <3>3, <4>1, <4>3
      <4>. QED
        BY <4>2, <4>3
    <3>6. j <= n + 1 => From[j].out \in Seq(Nat) /\ Len(From[j].out) \in Nat
      <4>. SUFFICES ASSUME j <= n + 1 PROVE From[j].out \in Seq(Nat) /\ Len(From[j].out) \in Nat
        OBVIOUS
      <4>1. j \in 1..(n + 1)
        BY <1>1, <3>1, <3>3
      <4>. HIDE DEF j
      <4>2. From[j].out \in Seq(Nat)
        BY <1>3, <4>1
      <4>. QED
        BY <4>2, LenProperties
    <3>. HIDE DEF i, j
    <3>7. j <= n + 1 => From[1].out = (s.out \o m) \o From[j].out
      <4>. SUFFICES ASSUME j <= n + 1 PROVE From[1].out = (s.out \o m) \o From[j].out
        OBVIOUS
      <4>. DEFINE o == s.out
                  u == From[j].out
      <4>1. o \in Seq(Nat) /\ m \in Seq(Nat) /\ u \in Seq(Nat) /\ From[1].out = o \o (m \o u)
        BY <2>2, <3>2, <3>4, <3>5, <3>6
      <4>. HIDE DEF o, u
      <4>2. (o \o m) \o u = o \o (m \o u)
        <5>1. o \in Seq(Nat) /\ m \in Seq(Nat) /\ u \in Seq(Nat)
          BY <4>1
        <5>. QED
          BY <1>0, <5>1
      <4>. QED
        BY <4>1, <4>2 DEF o, u
    <3>8. CASE j <= n + 1 /\ Len(s.out) + Len(m) <= length
      <4>1. r = [at |-> j, out |-> s.out \o m, ok |-> TRUE]
        BY <2>3, <2>5, <3>1, <3>8
      <4>2. r.ok /\ r.at = j /\ r.out = s.out \o m
        BY <4>1
      <4>3. j \in 1..(n + 1) /\ j > k + 1
        BY <1>1, <2>1, <3>1, <3>3, <3>8
      <4>4. Whole(r, k + 1)
        BY <3>4, <3>5, <3>7, <3>8, <4>2, <4>3
      <4>. QED
        BY <2>1, <4>2, <4>3, <4>4 DEF T, r
    <3>9. CASE ~ (j <= n + 1 /\ Len(s.out) + Len(m) <= length)
      <4>1. r = [s EXCEPT !.ok = FALSE]
        BY <2>3, <2>5, <3>1, <3>9
      <4>2. ~r.ok
        BY <2>2, <4>1
      <4>3. ~ (From[1].whole /\ Len(From[1].out) = length)
        <5>1. CASE j > n + 1
          BY <3>4, <3>5, <5>1
        <5>2. CASE ~ (j > n + 1)
          <6>1. /\ s.out \o m \in Seq(Nat) /\ Len(s.out \o m) = Len(s.out) + Len(m)
                /\ j <= n + 1
            BY <2>2, <3>2, <3>3, <5>2, ConcatProperties
          <6>. DEFINE head == s.out \o m
          <6>2. /\ head \in Seq(Nat) /\ ~ (Len(head) <= length) /\ Len(head) \in Nat
            BY <3>9, <6>1, LenProperties
          <6>. HIDE DEF head
          <6>3. Len(head \o From[j].out) = Len(head) + Len(From[j].out)
            BY <3>6, <6>1, <6>2, ConcatProperties
          <6>4. From[1].out = head \o From[j].out
            BY <3>7, <6>1 DEF head
          <6>. DEFINE l1 == Len(head)
                      l2 == Len(From[j].out)
          <6>5. l1 \in Nat /\ l2 \in Nat /\ ~ (l1 <= length) /\ Len(From[1].out) = l1 + l2
            BY <3>6, <6>1, <6>2, <6>3, <6>4
          <6>. HIDE DEF l1, l2
          <6>. QED
            BY <6>5
        <5>. QED
          BY <5>1, <5>2
      <4>. QED
        BY <2>1, <4>2, <4>3 DEF T, r
    <3>. QED
      BY <3>8, <3>9
  <2>. QED
    BY <2>4, <2>5
<1>13. n \in T
  <2>1. n \in 0..n
    BY <1>1
  <2>. HIDE DEF T
  <2>. QED
    BY <1>1, <1>11, <1>12, <2>1, Along
<1>. DEFINE s == At[n]
<1>14. s \in S /\ (s.ok => s.at \in 1..(n + 1)) /\ Whole(s, n)
  BY <1>13
<1>15. s.out \in Seq(Nat) /\ s.ok \in BOOLEAN /\ s.at \in Nat
  BY <1>14 DEF S, UnpackState
<1>. HIDE DEF s
<1>16. UnpackBits(src, length) = [ok |-> s.ok /\ Len(s.out) = length, out |-> s.out]
  BY <1>2 DEF s
<1>17. CASE s.ok
  <2>1. s.at = n + 1
    BY <1>1, <1>14, <1>15, <1>17
  <2>2. From[1].whole = TRUE /\ From[1].out = s.out \o <<>>
    <3>1. From[1].whole = From[s.at].whole /\ From[1].out = s.out \o From[s.at].out
      BY <1>14, <1>17
    <3>2. From[s.at].whole = TRUE /\ From[s.at].out = <<>>
      BY <1>3, <2>1
    <3>. QED
      BY <3>1, <3>2
  <2>3. From[1].out = s.out
    BY <1>15, <2>2, ConcatEmptySeq
  <2>. QED
    BY <1>3, <1>16, <1>17, <2>2, <2>3
<1>18. CASE ~s.ok
  <2>1. ~ (From[1].whole /\ Len(From[1].out) = length)
    BY <1>14, <1>18
  <2>. QED
    BY <1>3, <1>15, <1>16, <1>18, <2>1
<1>. QED
  BY <1>17, <1>18

-----------------------------------------------------------------------------
(* A text folded                                                           *)

(* What the font has a sign for.                                           *)
Drawn == Bytes \ {"2", "3", "4", "c", "b"}

(* Where the bytes that continue a character end.                          *)
EndsAt(in, i, j) == (j <= Len(in) => in[j] # "c") /\ \A m \in (i + 1)..(j - 1) : in[m] = "c"
Past(in, i)      == CHOOSE j \in (i + 1)..(Len(in) + 1) : EndsAt(in, i, j)
Broken(in, i) == \/ in[i] \in {"c", "b"}
                 \/ i + Extra(in[i]) > Len(in)
                 \/ \E m \in 1..Extra(in[i]) : in[i + m] # "c"

LEMMA CharAtIs ==
  ASSUME NEW in, NEW i
  PROVE  CharAt(in, i) = IF in[i] \in Ascii THEN [n |-> 1, out |-> <<in[i]>>]
                         ELSE IF Broken(in, i) THEN [n |-> Past(in, i) - i, out |-> <<"q">>]
                         ELSE [n |-> Extra(in[i]) + 1, out |-> Folded(in[i])]
BY DEF CharAt, Broken, Past, EndsAt

LEMMA ExtraIs ==
  ASSUME NEW byte
  PROVE  Extra(byte) \in 0..3 /\ Folded(byte) \in Seq(Drawn)
<1>1. Extra(byte) \in 0..3
  BY DEF Extra
<1>2. \A a \in Drawn : <<a>> \in Seq(Drawn)
  <2>. SUFFICES ASSUME NEW a \in Drawn PROVE <<a>> \in Seq(Drawn)
    OBVIOUS
  <2>. HIDE DEF Drawn
  <2>. QED
    OBVIOUS
<1>3. "e" \in Drawn /\ "d" \in Drawn /\ "q" \in Drawn
  BY BookTextAssumption DEF Drawn
<1>4. <<"d", "d">> \in Seq(Drawn)
  BY <1>3, PairIs
<1>5. Folded(byte) \in {<<"e">>, <<"d", "d">>, <<"q">>}
  BY DEF Folded
<1>. QED
  BY <1>1, <1>2, <1>3, <1>4, <1>5

(* The bytes that continue a character end in one place.                   *)
LEMMA PastIs ==
  ASSUME NEW in \in Seq(Bytes), NEW i \in 1..Len(in)
  PROVE  /\ Past(in, i) \in (i + 1)..(Len(in) + 1) /\ EndsAt(in, i, Past(in, i))
         /\ \A j \in (i + 1)..(Len(in) + 1) : EndsAt(in, i, j) => j = Past(in, i)
<1>. DEFINE n == Len(in)
            J == {j \in (i + 1)..(n + 1) : j <= n => in[j] # "c"}
<1>1. n \in Nat /\ i \in Nat /\ i <= n
  BY LenProperties
<1>. HIDE DEF n
<1>2. n + 1 \in J /\ J \in SUBSET Nat
  BY <1>1
<1>. HIDE DEF J
<1>3. PICK l \in J : \A j \in J : l <= j
  BY <1>2, LeastNumber
<1>4. l \in (i + 1)..(n + 1) /\ (l <= n => in[l] # "c")
  BY <1>3 DEF J
<1>5. \A m \in (i + 1)..(l - 1) : in[m] = "c"
  <2>. SUFFICES ASSUME NEW m \in (i + 1)..(l - 1) PROVE in[m] = "c"
    OBVIOUS
  <2>1. m \in (i + 1)..(n + 1) /\ ~ (l <= m)
    BY <1>1, <1>4
  <2>2. m \notin J
    BY <1>3, <2>1
  <2>. QED
    BY <2>1, <2>2 DEF J
<1>6. EndsAt(in, i, l)
  BY <1>4, <1>5 DEF EndsAt, n
<1>7. Past(in, i) \in (i + 1)..(n + 1) /\ EndsAt(in, i, Past(in, i))
  BY <1>4, <1>6 DEF Past, n
<1>8. ASSUME NEW a \in (i + 1)..(n + 1), NEW b \in (i + 1)..(n + 1),
             EndsAt(in, i, a), EndsAt(in, i, b), a < b
      PROVE  FALSE
  <2>1. a <= n /\ a \in (i + 1)..(b - 1)
    BY <1>1, <1>8
  <2>. QED
    BY <1>8, <2>1 DEF EndsAt, n
<1>9. ASSUME NEW j \in (i + 1)..(n + 1), EndsAt(in, i, j) PROVE j = Past(in, i)
  <2>. DEFINE p == Past(in, i)
  <2>1. ~ (j < p) /\ ~ (p < j) /\ p \in (i + 1)..(n + 1)
    BY <1>7, <1>8, <1>9
  <2>. HIDE DEF p
  <2>2. j = p
    BY <1>1, <2>1
  <2>. QED
    BY <2>2 DEF p
<1>. QED
  BY <1>7, <1>9 DEF n

(* A character takes at least its first byte, and none past the end.       *)
LEMMA CharIs ==
  ASSUME NEW in \in Seq(Bytes), NEW i \in 1..Len(in)
  PROVE  /\ CharAt(in, i).n \in Nat \ {0} /\ i + CharAt(in, i).n <= Len(in) + 1
         /\ CharAt(in, i).out \in Seq(Drawn)
<1>. DEFINE c == CharAt(in, i)
            p == Past(in, i)
            e == Extra(in[i])
<1>1. Len(in) \in Nat /\ i \in Nat /\ in[i] \in Bytes /\ i <= Len(in)
  BY LenProperties, ElementOfSeq
<1>2. c = IF in[i] \in Ascii THEN [n |-> 1, out |-> <<in[i]>>]
          ELSE IF Broken(in, i) THEN [n |-> p - i, out |-> <<"q">>]
          ELSE [n |-> e + 1, out |-> Folded(in[i])]
  BY CharAtIs
<1>3. p \in (i + 1)..(Len(in) + 1)
  BY PastIs
<1>4. e \in 0..3 /\ Folded(in[i]) \in Seq(Drawn)
  BY ExtraIs
<1>5. \A a \in Drawn : <<a>> \in Seq(Drawn)
  <2>. SUFFICES ASSUME NEW a \in Drawn PROVE <<a>> \in Seq(Drawn)
    OBVIOUS
  <2>. HIDE DEF Drawn
  <2>. QED
    OBVIOUS
<1>6. "q" \in Drawn /\ (in[i] \in Ascii => in[i] \in Drawn)
  BY BookTextAssumption DEF Drawn, Ascii
<1>7. ~ Broken(in, i) => i + e <= Len(in)
  BY <1>1, <1>4 DEF Broken
<1>. HIDE DEF c, p, e
<1>8. CASE in[i] \in Ascii
  <2>1. c.n = 1 /\ c.out = <<in[i]>>
    BY <1>2, <1>8
  <2>. QED
    BY <1>1, <1>5, <1>6, <1>8, <2>1 DEF c
<1>9. CASE in[i] \notin Ascii /\ Broken(in, i)
  <2>1. c.n = p - i /\ c.out = <<"q">>
    BY <1>2, <1>9
  <2>. QED
    BY <1>1, <1>3, <1>5, <1>6, <2>1 DEF c
<1>10. CASE in[i] \notin Ascii /\ ~ Broken(in, i)
  <2>1. c.n = e + 1 /\ c.out = Folded(in[i])
    BY <1>2, <1>10
  <2>. QED
    BY <1>1, <1>4, <1>7, <1>10, <2>1 DEF c
<1>. QED
  BY <1>8, <1>9, <1>10

(* A character before an ASCII one is the same if the text ends there.     *)
LEMMA CharBefore ==
  ASSUME NEW in \in Seq(Bytes), NEW k \in 1..Len(in), in[k] \in Ascii,
         NEW p \in Seq(Bytes), Len(p) = k - 1, \A j \in 1..(k - 1) : p[j] = in[j],
         NEW i \in 1..(k - 1)
  PROVE  CharAt(p, i) = CharAt(in, i)
<1>. DEFINE n == Len(in)
            e == Extra(in[i])
<1>1. n \in Nat /\ k \in Nat /\ i \in Nat /\ i <= k - 1 /\ k <= n /\ k >= 1
  BY LenProperties
<1>2. in[k] # "c"
  BY DEF Ascii
<1>3. p[i] = in[i] /\ e \in 0..3
  BY ExtraIs
<1>. HIDE DEF e
<1>4. Broken(p, i) <=> Broken(in, i)
  <2>. DEFINE Bp == i + e > k - 1 \/ \E m \in 1..e : p[i + m] # "c"
              Bi == i + e > n \/ \E m \in 1..e : in[i + m] # "c"
  <2>1. CASE i + e > k - 1
    <3>1. i + e > n \/ k - i \in 1..e
      BY <1>1, <1>3, <2>1
    <3>2. i + (k - i) = k
      BY <1>1
    <3>. QED
      BY <1>2, <1>3, <2>1, <3>1, <3>2 DEF Broken, e
  <2>2. CASE ~ (i + e > k - 1)
    <3>1. \A m \in 1..e : i + m \in 1..(k - 1)
      BY <1>1, <1>3, <2>2
    <3>2. \A m \in 1..e : p[i + m] = in[i + m]
      BY <3>1
    <3>3. ~ (i + e > n)
      BY <1>1, <1>3, <2>2
    <3>. QED
      BY <1>3, <2>2, <3>2, <3>3 DEF Broken, e
  <2>. QED
    BY <2>1, <2>2
<1>5. Past(p, i) = Past(in, i)
  <2>. DEFINE j == Past(p, i)
  <2>1. j \in (i + 1)..k /\ EndsAt(p, i, j)
    <3>1. i \in 1..Len(p) /\ Len(p) + 1 = k
      BY <1>1
    <3>2. j \in (i + 1)..(Len(p) + 1) /\ EndsAt(p, i, j)
      BY <3>1, PastIs
    <3>. QED
      BY <3>1, <3>2
  <2>. HIDE DEF j
  <2>2. \A m \in (i + 1)..(j - 1) : m \in 1..(k - 1) /\ p[m] = "c"
    BY <1>1, <2>1 DEF EndsAt
  <2>3. \A m \in (i + 1)..(j - 1) : in[m] = "c"
    BY <2>2
  <2>4. in[j] # "c"
    <3>1. CASE j = k
      BY <1>2, <3>1
    <3>2. CASE j # k
      <4>1. j \in 1..(k - 1) /\ j <= Len(p)
        BY <1>1, <2>1, <3>2
      <4>. QED
        BY <2>1, <4>1 DEF EndsAt
    <3>. QED
      BY <3>1, <3>2
  <2>5. EndsAt(in, i, j)
    BY <2>3, <2>4 DEF EndsAt
  <2>6. j \in (i + 1)..(n + 1) /\ i \in 1..n
    BY <1>1, <2>1
  <2>7. j = Past(in, i)
    BY <2>5, <2>6, PastIs
  <2>. QED
    BY <2>7 DEF j
<1>6. /\ CharAt(p, i) = IF in[i] \in Ascii THEN [n |-> 1, out |-> <<in[i]>>]
                         ELSE IF Broken(in, i) THEN [n |-> Past(in, i) - i, out |-> <<"q">>]
                         ELSE [n |-> Extra(in[i]) + 1, out |-> Folded(in[i])]
  BY <1>3, <1>4, <1>5, CharAtIs
<1>. QED
  BY <1>6, CharAtIs

(* A character is the same wherever the text before it begins.             *)
LEMMA CharAfter ==
  ASSUME NEW in \in Seq(Bytes), NEW k \in 1..Len(in), NEW t \in Seq(Bytes),
         Len(t) = Len(in) - k + 1, \A j \in 1..Len(t) : t[j] = in[k - 1 + j],
         NEW i \in 1..Len(t)
  PROVE  CharAt(t, i) = CharAt(in, k - 1 + i)
<1>. DEFINE n == Len(in)
            l == Len(t)
            b == k - 1
            e == Extra(t[i])
<1>1. /\ n \in Nat /\ l \in Nat /\ b \in Nat /\ i \in Nat /\ i <= l /\ i >= 1 /\ b + l = n
      /\ b + i \in 1..n
  BY LenProperties
<1>2. t[i] = in[b + i] /\ e \in 0..3
  BY ExtraIs
<1>2a. \A j \in 1..l : t[j] = in[b + j]
  OBVIOUS
<1>. HIDE DEF e, b, n, l
<1>4. Broken(t, i) <=> Broken(in, b + i)
  <2>1. i + e > l <=> b + i + e > n
    BY <1>1, <1>2
  <2>2. CASE i + e > l
    BY <1>2, <2>1, <2>2 DEF Broken, e, n, l
  <2>3. CASE ~ (i + e > l)
    <3>1. ASSUME NEW m \in 1..e PROVE i + m \in 1..l /\ b + (i + m) = b + i + m
      <4>1. m \in Int /\ 1 <= m /\ m <= e
        BY <1>2
      <4>2. i + m <= l /\ 1 <= i + m /\ i + m \in Int
        BY <1>1, <1>2, <2>3, <4>1
      <4>. QED
        BY <1>1, <4>1, <4>2
    <3>2. \A m \in 1..e : t[i + m] = in[b + i + m]
      BY <1>2a, <3>1
    <3>. QED
      BY <1>2, <2>1, <2>3, <3>2 DEF Broken, e, n, l
  <2>. QED
    BY <2>2, <2>3
<1>5. Past(in, b + i) = b + Past(t, i)
  <2>. DEFINE j == Past(t, i)
  <2>1. j \in (i + 1)..(l + 1) /\ EndsAt(t, i, j)
    BY PastIs DEF l
  <2>. HIDE DEF j
  <2>2. b + j \in (b + i + 1)..(n + 1)
    BY <1>1, <2>1
  <2>3. ASSUME NEW m \in (b + i + 1)..((b + j) - 1) PROVE in[m] = "c"
    <3>1. m - b \in (i + 1)..(j - 1) /\ m - b \in 1..l /\ b + (m - b) = m
      BY <1>1, <2>1
    <3>2. t[m - b] = "c"
      BY <2>1, <3>1 DEF EndsAt
    <3>. QED
      BY <1>2a, <3>1, <3>2
  <2>4. b + j <= n => in[b + j] # "c"
    <3>. SUFFICES ASSUME b + j <= n PROVE in[b + j] # "c"
      OBVIOUS
    <3>1. j <= l /\ j \in 1..l
      BY <1>1, <2>1
    <3>2. t[j] # "c"
      BY <2>1, <3>1 DEF EndsAt, l
    <3>. QED
      BY <1>2a, <3>1, <3>2
  <2>5. EndsAt(in, b + i, b + j)
    <3>1. b + j <= Len(in) => in[b + j] # "c"
      BY <2>4 DEF n
    <3>2. \A m \in (b + i + 1)..((b + j) - 1) : in[m] = "c"
      BY <2>3
    <3>. QED
      BY <3>1, <3>2 DEF EndsAt
  <2>6. b + j = Past(in, b + i)
    BY <1>1, <2>2, <2>5, PastIs DEF n
  <2>. QED
    BY <2>6 DEF j
<1>6. Past(in, b + i) - (b + i) = Past(t, i) - i
  <2>. DEFINE j == Past(t, i)
  <2>1. j \in (i + 1)..(l + 1)
    BY PastIs DEF l
  <2>. HIDE DEF j
  <2>2. (b + j) - (b + i) = j - i
    BY <1>1, <2>1
  <2>. QED
    BY <1>5, <2>2 DEF j
<1>7. CharAt(t, i) = IF in[b + i] \in Ascii THEN [n |-> 1, out |-> <<in[b + i]>>]
                     ELSE IF Broken(in, b + i) THEN [n |-> Past(in, b + i) - (b + i), out |-> <<"q">>]
                     ELSE [n |-> Extra(in[b + i]) + 1, out |-> Folded(in[b + i])]
  BY <1>2, <1>4, <1>6, CharAtIs
<1>8. CharAt(t, i) = CharAt(in, b + i)
  BY <1>7, CharAtIs
<1>. QED
  BY <1>8 DEF b

-----------------------------------------------------------------------------
(* A folding, a character at a time                                        *)

FoldState(capacity) == {s \in [at : Nat \ {0}, out : Seq(Drawn)] : Len(s.out) <= capacity}
FoldEnded(in, capacity, s) == s.at > Len(in) \/ Len(s.out) = capacity
FoldStart == [at |-> 1, out |-> <<>>]

LEMMA FoldCharIs ==
  ASSUME NEW in \in Seq(Bytes), NEW capacity \in Nat, NEW s \in FoldState(capacity),
         s.at <= Len(in) + 1
  PROVE  /\ FoldChar(in, capacity, s) \in FoldState(capacity)
         /\ FoldChar(in, capacity, s).at <= Len(in) + 1
         /\ FoldEnded(in, capacity, s) => FoldChar(in, capacity, s) = s
         /\ ~ FoldEnded(in, capacity, s) =>
              /\ s.at \in 1..Len(in) /\ capacity - Len(s.out) \in Nat
              /\ FoldChar(in, capacity, s).at = s.at + CharAt(in, s.at).n
              /\ FoldChar(in, capacity, s).at > s.at
              /\ FoldChar(in, capacity, s).out =
                   s.out \o Front(CharAt(in, s.at).out, capacity - Len(s.out))
<1>. DEFINE char == CharAt(in, s.at)
            more == Front(char.out, capacity - Len(s.out))
            r == FoldChar(in, capacity, s)
<1>1. /\ s.at \in Nat \ {0} /\ s.out \in Seq(Drawn) /\ Len(s.out) <= capacity
      /\ Len(s.out) \in Nat /\ Len(in) \in Nat
  BY LenProperties DEF FoldState
<1>2. r = IF FoldEnded(in, capacity, s) THEN s ELSE [at |-> s.at + char.n, out |-> s.out \o more]
  BY DEF FoldChar, FoldEnded
<1>3. CASE FoldEnded(in, capacity, s)
  BY <1>2, <1>3
<1>4. CASE ~ FoldEnded(in, capacity, s)
  <2>1. s.at \in 1..Len(in) /\ capacity - Len(s.out) \in Nat
    BY <1>1, <1>4 DEF FoldEnded
  <2>2. /\ char.n \in Nat \ {0} /\ s.at + char.n <= Len(in) + 1
        /\ char.out \in Seq(Drawn)
    BY <2>1, CharIs
  <2>. HIDE DEF char
  <2>3. more \in Seq(Drawn) /\ Len(more) <= capacity - Len(s.out) /\ Len(more) \in Nat
    <3>. DEFINE room == capacity - Len(s.out)
                out == char.out
    <3>1. room \in Nat /\ out \in Seq(Drawn) /\ more = Front(out, room)
      BY <2>1, <2>2
    <3>. HIDE DEF more, room, out
    <3>2. more \in Seq(Drawn) /\ Len(more) <= room
      BY <3>1, FrontIs
    <3>. QED
      BY <3>2, LenProperties DEF room
  <2>. HIDE DEF more, r
  <2>4. s.out \o more \in Seq(Drawn) /\ Len(s.out \o more) = Len(s.out) + Len(more)
    BY <1>1, <2>3, ConcatProperties
  <2>5. r.at = s.at + char.n /\ r.out = s.out \o more
        /\ r = [at |-> s.at + char.n, out |-> s.out \o more]
    BY <1>2, <1>4
  <2>6. s.at + char.n \in Nat \ {0} /\ Len(s.out) + Len(more) <= capacity /\ s.at + char.n > s.at
    BY <1>1, <2>1, <2>2, <2>3
  <2>7. r \in FoldState(capacity)
    BY <2>4, <2>5, <2>6 DEF FoldState
  <2>. QED
    BY <1>4, <2>1, <2>2, <2>5, <2>6, <2>7 DEF r, more, char
<1>. QED
  BY <1>3, <1>4

(* The loop, counted on past its end.                                      *)
FoldRun(At, in, capacity, M) ==
  /\ At[0] = FoldStart
  /\ \A i \in 0..M : At[i] \in FoldState(capacity) /\ At[i].at <= Len(in) + 1
  /\ \A i \in 1..M : At[i] = FoldChar(in, capacity, At[i - 1])

LEMMA Folding ==
  ASSUME NEW in \in Seq(Bytes), NEW capacity \in Nat, NEW M \in Nat, Len(in) <= M
  PROVE  \E At : FoldRun(At, in, capacity, M) /\ FoldToAscii(in, capacity) = At[Len(in)].out
<1>. DEFINE n == Len(in)
            S == {s \in FoldState(capacity) : s.at <= Len(in) + 1}
            x == FoldStart
            Step(s) == FoldChar(in, capacity, s)
            Bt == CHOOSE Bt : Bt = [i \in 0..n |-> IF i = 0 THEN x ELSE Step(Bt[i - 1])]
            G == [i \in 0..(M - 1) |-> [s \in S |-> Step(s)]]
<1>1. n \in Nat /\ 0 \in Nat /\ n <= M
  BY LenProperties
<1>2. FoldToAscii(in, capacity) = Bt[n].out
  BY DEF FoldToAscii, FoldStart
<1>3. \A s \in S : Step(s) \in S
  BY FoldCharIs
<1>4. x \in S
  <2>1. <<>> \in Seq(Drawn) /\ Len(<<>>) = 0
    BY EmptySeq
  <2>2. 1 <= Len(in) + 1 /\ x.at = 1
    BY <1>1 DEF FoldStart
  <2>. QED
    BY <2>1, <2>2 DEF FoldState, FoldStart
<1>5. \A s \in S : s \in FoldState(capacity) /\ s.at <= Len(in) + 1
  OBVIOUS
<1>. HIDE DEF n, S, x, Step
<1>6. G \in [0..(M - 1) -> [S -> S]]
  BY <1>3
<1>7. PICK f : GoesOn(f, 0, M, S, x, G)
  <2>. HIDE DEF G
  <2>. QED
    BY <1>1, <1>4, <1>6, Goes
<1>8. \A i \in 0..M : f[i] \in S /\ f[i] = IF i = 0 THEN x ELSE Step(f[i - 1])
  <2>. SUFFICES ASSUME NEW i \in 0..M PROVE f[i] \in S /\ f[i] = IF i = 0 THEN x ELSE Step(f[i - 1])
    OBVIOUS
  <2>1. f[i] \in S /\ f[i] = IF i = 0 THEN x ELSE G[i - 1][f[i - 1]]
    <3>. HIDE DEF G
    <3>. QED
      BY <1>7 DEF GoesOn
  <2>2. i # 0 => G[i - 1][f[i - 1]] = Step(f[i - 1])
    <3>. SUFFICES ASSUME i # 0 PROVE G[i - 1][f[i - 1]] = Step(f[i - 1])
      OBVIOUS
    <3>1. i - 1 \in 0..(M - 1) /\ i - 1 \in 0..M
      OBVIOUS
    <3>2. f[i - 1] \in S
      BY <1>7, <3>1 DEF GoesOn
    <3>. QED
      BY <3>1, <3>2
  <2>. HIDE DEF G
  <2>. QED
    BY <2>1, <2>2
<1>. HIDE DEF G
<1>. DEFINE g == [i \in 0..n |-> f[i]]
<1>9. g = [i \in 0..n |-> IF i = 0 THEN x ELSE Step(g[i - 1])]
  <2>1. ASSUME NEW i \in 0..n PROVE f[i] = IF i = 0 THEN x ELSE Step(g[i - 1])
    <3>1. i \in 0..M /\ (i # 0 => i - 1 \in 0..n)
      BY <1>1
    <3>2. i # 0 => g[i - 1] = f[i - 1]
      BY <3>1
    <3>. HIDE DEF g
    <3>. QED
      BY <1>8, <3>1, <3>2
  <2>. QED
    BY <2>1
<1>10. Bt = [i \in 0..n |-> IF i = 0 THEN x ELSE Step(Bt[i - 1])]
  <2>. HIDE DEF g
  <2>. QED
    BY <1>9
<1>. HIDE DEF Bt, g
<1>. DEFINE T == {i \in Nat : Bt[i] = f[i]}
<1>11. 0 \in T
  <2>1. 0 \in 0..n /\ 0 \in 0..M
    BY <1>1
  <2>. QED
    BY <1>8, <1>10, <2>1
<1>12. ASSUME NEW i \in 0..(n - 1), i \in T PROVE i + 1 \in T
  <2>1. i + 1 \in 0..n /\ i + 1 \in 0..M /\ i + 1 # 0 /\ (i + 1) - 1 = i /\ i + 1 \in Nat
    BY <1>1
  <2>. QED
    BY <1>8, <1>10, <1>12, <2>1
<1>13. n \in T
  <2>. HIDE DEF T
  <2>1. n \in 0..n
    BY <1>1
  <2>2. 0..n \subseteq T
    BY <1>1, <1>11, <1>12, Along
  <2>. QED
    BY <2>1, <2>2
<1>14. FoldRun(f, in, capacity, M)
  <2>1. 0 \in 0..M /\ \A i \in 1..M : i \in 0..M /\ i # 0
    OBVIOUS
  <2>2. f[0] = FoldStart
    BY <1>8, <2>1 DEF x
  <2>3. \A i \in 1..M : f[i] = FoldChar(in, capacity, f[i - 1])
    BY <1>8, <2>1 DEF Step
  <2>. QED
    BY <1>5, <1>8, <2>2, <2>3 DEF FoldRun
<1>. QED
  BY <1>2, <1>13, <1>14 DEF n

(* Once it has ended nothing changes, and it has when it has run as often  *)
(* as there are bytes.                                                     *)
LEMMA FoldEnds ==
  ASSUME NEW in \in Seq(Bytes), NEW capacity \in Nat, NEW M \in Nat, NEW At,
         FoldRun(At, in, capacity, M)
  PROVE  /\ \A i \in 0..M : \A j \in i..M : FoldEnded(in, capacity, At[i]) => At[j] = At[i]
         /\ Len(in) <= M => FoldEnded(in, capacity, At[Len(in)])
<1>1. ASSUME NEW i \in 0..M, NEW j \in i..M, FoldEnded(in, capacity, At[i])
      PROVE  At[j] = At[i]
  <2>. DEFINE T == {v \in Nat : At[v] = At[i]}
  <2>1. i \in T /\ i \in Nat
    OBVIOUS
  <2>2. ASSUME NEW v \in i..(M - 1), v \in T PROVE v + 1 \in T
    <3>1. v + 1 \in 1..M /\ (v + 1) - 1 = v /\ v \in 0..M /\ v + 1 \in Nat
      OBVIOUS
    <3>2. At[v + 1] = FoldChar(in, capacity, At[v]) /\ At[v] = At[i]
      BY <2>2, <3>1 DEF FoldRun
    <3>3. At[i] \in FoldState(capacity) /\ At[i].at <= Len(in) + 1
      BY DEF FoldRun
    <3>4. FoldChar(in, capacity, At[i]) = At[i]
      BY <1>1, <3>3, FoldCharIs
    <3>. QED
      BY <3>1, <3>2, <3>4
  <2>3. i..M \subseteq T
    <3>. HIDE DEF T
    <3>. QED
      BY <2>1, <2>2, Along
  <2>. QED
    BY <2>3
<1>2. ASSUME Len(in) <= M PROVE FoldEnded(in, capacity, At[Len(in)])
  <2>. DEFINE n == Len(in)
              T == {v \in Nat : FoldEnded(in, capacity, At[v]) \/ At[v].at > v}
  <2>1. n \in Nat
    BY LenProperties
  <2>2. 0 \in T
    BY DEF FoldRun, FoldStart
  <2>3. ASSUME NEW v \in 0..(n - 1), v \in T PROVE v + 1 \in T
    <3>1. v + 1 \in 1..M /\ (v + 1) - 1 = v /\ v \in 0..M /\ v + 1 \in Nat /\ v \in Nat
      BY <1>2, <2>1
    <3>2. At[v + 1] = FoldChar(in, capacity, At[v])
      BY <3>1 DEF FoldRun
    <3>3. At[v] \in FoldState(capacity) /\ At[v].at <= n + 1 /\ At[v].at \in Nat
      BY <3>1 DEF FoldRun, FoldState
    <3>4. CASE FoldEnded(in, capacity, At[v])
      <4>1. At[v + 1] = At[v]
        BY <3>2, <3>3, <3>4, FoldCharIs
      <4>. QED
        BY <3>1, <3>4, <4>1
    <3>5. CASE ~ FoldEnded(in, capacity, At[v])
      <4>1. FoldChar(in, capacity, At[v]).at > At[v].at
        BY <3>3, <3>5, FoldCharIs
      <4>2. At[v + 1].at > At[v].at /\ At[v].at > v
        BY <2>3, <3>2, <3>5, <4>1
      <4>3. At[v + 1].at \in Nat
        BY <3>1 DEF FoldRun, FoldState
      <4>4. At[v + 1].at > v + 1
        BY <3>1, <3>3, <4>2, <4>3
      <4>. QED
        BY <3>1, <4>4
    <3>. QED
      BY <3>4, <3>5
  <2>4. n \in T
    <3>. HIDE DEF T, n
    <3>1. n \in 0..n
      BY <2>1
    <3>2. 0..n \subseteq T
      BY <2>1, <2>2, <2>3, Along
    <3>. QED
      BY <3>1, <3>2
  <2>. QED
    BY <2>4 DEF FoldEnded
<1>. QED
  BY <1>1, <1>2

(* Nothing but what the font draws comes out, and no more than fits.       *)
LEMMA FoldTyped ==
  ASSUME NEW in \in Seq(Bytes), NEW capacity \in Nat
  PROVE  FoldToAscii(in, capacity) \in Seq(Drawn) /\ Len(FoldToAscii(in, capacity)) <= capacity
<1>1. Len(in) \in Nat /\ Len(in) <= Len(in) /\ Len(in) \in 0..Len(in)
  BY LenProperties
<1>2. PICK At : FoldRun(At, in, capacity, Len(in)) /\ FoldToAscii(in, capacity) = At[Len(in)].out
  BY <1>1, Folding
<1>3. At[Len(in)] \in FoldState(capacity)
  BY <1>1, <1>2 DEF FoldRun
<1>. QED
  BY <1>2, <1>3 DEF FoldState

LEMMA DrawnJoined ==
  \A o, m, u \in Seq(Drawn) : (o \o m) \o u = o \o (m \o u)
BY ConcatAssociative

BeginsAs(p, in, k) == Len(p) = k - 1 /\ \A j \in 1..(k - 1) : p[j] = in[j]
EndsAs(t, in, k)   == Len(t) = Len(in) - k + 1 /\ \A i \in 1..Len(t) : t[i] = in[k - 1 + i]

(* Up to a place where a character begins in any case, the text folds as   *)
(* its part before does, until that has ended.                             *)
LEMMA FoldsBefore ==
  ASSUME NEW in \in Seq(Bytes), NEW capacity \in Nat, NEW k \in 1..Len(in), in[k] \in Ascii,
         NEW p \in Seq(Bytes), BeginsAs(p, in, k),
         NEW M \in Nat, Len(in) <= M,
         NEW At, FoldRun(At, in, capacity, M), NEW Bt, FoldRun(Bt, p, capacity, M)
  PROVE  \E j \in 0..Len(in) : /\ At[j] = Bt[j]
                               /\ At[j].at <= k
                               /\ At[j].at = k \/ Len(At[j].out) = capacity
                               /\ FoldEnded(p, capacity, Bt[j])
<1>. DEFINE n == Len(in)
            J == {j \in 0..n : At[j].at >= k \/ Len(At[j].out) = capacity}
<1>0. Len(p) = k - 1 /\ \A j \in 1..(k - 1) : p[j] = in[j]
  BY DEF BeginsAs
<1>1. n \in Nat /\ k \in Nat /\ k >= 1 /\ k <= n /\ n \in 0..M /\ n \in 0..n
  BY LenProperties
<1>2. \A i \in 0..M : /\ At[i] \in FoldState(capacity) /\ At[i].at <= n + 1 /\ At[i].at \in Nat
                      /\ Bt[i] \in FoldState(capacity) /\ Bt[i].at <= Len(p) + 1 /\ Bt[i].at \in Nat
  BY DEF FoldRun, FoldState
<1>. HIDE DEF n
<1>3. n \in J
  <2>1. FoldEnded(in, capacity, At[n])
    BY FoldEnds DEF n
  <2>2. At[n].at > n \/ Len(At[n].out) = capacity
    BY <2>1 DEF FoldEnded, n
  <2>3. At[n].at > n => At[n].at >= k
    BY <1>1, <1>2
  <2>. QED
    BY <1>1, <2>2, <2>3
<1>4. J \in SUBSET Nat /\ J \subseteq 0..n
  BY <1>1
<1>5. \A j \in J : At[j].at >= k \/ Len(At[j].out) = capacity
  OBVIOUS
<1>6. \A j \in (0..n) \ J : ~ (At[j].at >= k) /\ Len(At[j].out) # capacity
  OBVIOUS
<1>. HIDE DEF J
<1>7. PICK j \in J : \A i \in J : j <= i
  BY <1>3, <1>4, LeastNumber
<1>8. j \in 0..n /\ j \in 0..M /\ j \in Nat
  BY <1>1, <1>4
<1>. DEFINE T == {v \in Nat : At[v] = Bt[v]}
<1>9. 0 \in T
  BY DEF FoldRun
<1>10. ASSUME NEW v \in 0..(j - 1), v \in T PROVE v + 1 \in T
  <2>1. /\ v + 1 \in 1..M /\ (v + 1) - 1 = v /\ v \in 0..M /\ v + 1 \in Nat /\ v \in Nat
        /\ v \in 0..n /\ ~ (j <= v)
    BY <1>1, <1>8
  <2>2. v \notin J
    BY <1>7, <2>1
  <2>3. ~ (At[v].at >= k) /\ Len(At[v].out) # capacity
    BY <1>6, <2>1, <2>2
  <2>. DEFINE s == At[v]
  <2>4. s = Bt[v] /\ s \in FoldState(capacity) /\ s.at \in Nat \ {0}
    BY <1>2, <1>10, <2>1 DEF FoldState
  <2>5. At[v + 1] = FoldChar(in, capacity, s) /\ Bt[v + 1] = FoldChar(p, capacity, s)
    BY <2>1, <2>4 DEF FoldRun
  <2>. HIDE DEF s
  <2>6. s.at \in 1..(k - 1)
    BY <1>1, <2>3, <2>4 DEF s
  <2>7. CharAt(p, s.at) = CharAt(in, s.at)
    BY <1>0, <2>6, CharBefore
  <2>8. (s.at > Len(p) \/ Len(s.out) = capacity) <=> (s.at > Len(in) \/ Len(s.out) = capacity)
    BY <1>0, <1>1, <2>6 DEF n
  <2>9. FoldChar(p, capacity, s) = FoldChar(in, capacity, s)
    BY <2>7, <2>8 DEF FoldChar
  <2>. QED
    BY <2>1, <2>5, <2>9
<1>11. At[j] = Bt[j]
  <2>. HIDE DEF T
  <2>1. j \in 0..j
    BY <1>8
  <2>2. 0..j \subseteq T
    BY <1>8, <1>9, <1>10, Along
  <2>3. j \in T
    BY <2>1, <2>2
  <2>. QED
    BY <2>3 DEF T
<1>12. At[j].at \in Nat /\ At[j].at <= k
  BY <1>0, <1>1, <1>2, <1>8, <1>11
<1>13. At[j].at = k \/ Len(At[j].out) = capacity
  BY <1>1, <1>5, <1>12
<1>14. FoldEnded(p, capacity, Bt[j])
  BY <1>0, <1>1, <1>11, <1>13 DEF FoldEnded
<1>. QED
  BY <1>8, <1>11, <1>12, <1>13, <1>14 DEF n

(* From there on it folds as the rest of it does in the room that is left. *)
CutAt(At, Ct, in, t, k, before, room, M, j) ==
  /\ EndsAs(t, in, k) /\ before \in Seq(Drawn) /\ room \in Nat /\ M \in Nat /\ j \in 0..M
  /\ FoldRun(At, in, Len(before) + room, M) /\ FoldRun(Ct, t, room, M)
  /\ At[j].at = k /\ At[j].out = before

LEMMA FoldsAfter ==
  ASSUME NEW in \in Seq(Bytes), NEW k \in 1..Len(in), NEW t \in Seq(Bytes), NEW before, NEW room,
         NEW M, NEW j, NEW At, NEW Ct, CutAt(At, Ct, in, t, k, before, room, M, j)
  PROVE  At[M].out = before \o Ct[M - j].out
<1>. DEFINE capacity == Len(before) + room
<1>a. /\ EndsAs(t, in, k) /\ before \in Seq(Drawn) /\ room \in Nat /\ M \in Nat /\ j \in 0..M
      /\ FoldRun(At, in, capacity, M) /\ FoldRun(Ct, t, room, M)
      /\ At[j].at = k /\ At[j].out = before
  BY DEF CutAt
<1>b. capacity \in Nat /\ capacity = Len(before) + room
  BY <1>a, LenProperties
<1>. HIDE DEF capacity
<1>. DEFINE b == k - 1
            T == {m \in Nat : At[j + m].at = b + Ct[m].at /\ At[j + m].out = before \o Ct[m].out}
<1>0. Len(t) = Len(in) - k + 1 /\ \A i \in 1..Len(t) : t[i] = in[k - 1 + i]
  BY <1>a DEF EndsAs
<1>1. /\ b \in Nat /\ k = b + 1 /\ j \in Nat /\ j <= M /\ Len(before) \in Nat
      /\ Len(in) \in Nat /\ Len(t) \in Nat /\ b + Len(t) = Len(in)
  BY <1>0, <1>a, LenProperties
<1>2. ASSUME NEW i \in 0..M
      PROVE  /\ At[i] \in FoldState(capacity) /\ At[i].at <= Len(in) + 1 /\ At[i].at \in Nat
             /\ Ct[i] \in FoldState(room) /\ Ct[i].at <= Len(t) + 1 /\ Ct[i].at \in Nat
             /\ Ct[i].out \in Seq(Drawn) /\ Len(Ct[i].out) \in Nat
             /\ At[i].out \in Seq(Drawn) /\ Len(At[i].out) \in Nat
  <2>1. At[i] \in FoldState(capacity) /\ At[i].at <= Len(in) + 1
    BY <1>a DEF FoldRun
  <2>2. Ct[i] \in FoldState(room) /\ Ct[i].at <= Len(t) + 1
    BY <1>a DEF FoldRun
  <2>. QED
    BY <2>1, <2>2, LenProperties DEF FoldState
<1>2a. \A o, m, u \in Seq(Drawn) : (o \o m) \o u = o \o (m \o u)
  BY DrawnJoined
<1>3. 0 \in T
  <2>1. Ct[0].at = 1 /\ Ct[0].out = <<>> /\ j + 0 = j
    BY <1>1, <1>a DEF FoldRun, FoldStart
  <2>2. before \o <<>> = before
    BY <1>a, ConcatEmptySeq
  <2>. QED
    BY <1>1, <1>a, <2>1, <2>2
<1>4. ASSUME NEW m \in 0..((M - j) - 1), m \in T PROVE m + 1 \in T
  <2>1. /\ m + 1 \in 1..M /\ (m + 1) - 1 = m /\ m \in 0..M /\ m + 1 \in Nat
        /\ j + m \in 0..M /\ j + (m + 1) \in 1..M /\ j + (m + 1) - 1 = j + m /\ (j + (m + 1)) - 1 = j + m
    BY <1>1, <1>a
  <2>. DEFINE s == At[j + m]
              c == Ct[m]
              s2 == At[j + (m + 1)]
              c2 == Ct[m + 1]
  <2>2. s.at = b + c.at /\ s.out = before \o c.out
    BY <1>4
  <2>3. s2 = FoldChar(in, capacity, s) /\ c2 = FoldChar(t, room, c)
    BY <1>a, <2>1 DEF FoldRun
  <2>4. /\ s \in FoldState(capacity) /\ s.at <= Len(in) + 1 /\ s.at \in Nat
        /\ s.out \in Seq(Drawn) /\ Len(s.out) \in Nat
    BY <1>2, <2>1
  <2>5. /\ c \in FoldState(room) /\ c.at <= Len(t) + 1 /\ c.at \in Nat
        /\ c.out \in Seq(Drawn) /\ Len(c.out) \in Nat
    BY <1>2, <2>1
  <2>. HIDE DEF s, c, s2, c2, b
  <2>6. Len(s.out) = Len(before) + Len(c.out)
    BY <1>a, <2>2, <2>5, ConcatProperties
  <2>7. FoldEnded(in, capacity, s) <=> FoldEnded(t, room, c)
    <3>1. s.at > Len(in) <=> c.at > Len(t)
      BY <1>1, <2>2, <2>5
    <3>2. Len(s.out) = capacity <=> Len(c.out) = room
      <4>. DEFINE x == Len(c.out)
                  y == Len(before)
                  z == Len(s.out)
      <4>1. x \in Nat /\ y \in Nat /\ z = y + x /\ capacity = y + room /\ room \in Nat
        BY <1>1, <1>a, <1>b, <2>5, <2>6
      <4>. HIDE DEF x, y, z
      <4>2. z = capacity <=> x = room
        BY <4>1
      <4>. QED
        BY <4>2 DEF x, z
    <3>. QED
      BY <3>1, <3>2 DEF FoldEnded
  <2>8. s2.at = b + c2.at /\ s2.out = before \o c2.out
    <3>1. CASE FoldEnded(in, capacity, s)
      <4>1. s2 = s
        BY <2>3, <2>4, <1>a, <1>b, <3>1, FoldCharIs
      <4>2. c2 = c
        BY <2>3, <2>5, <2>7, <1>a, <1>b, <3>1, FoldCharIs
      <4>. QED
        BY <2>2, <4>1, <4>2
    <3>2. CASE ~ FoldEnded(in, capacity, s)
      <4>. DEFINE left == room - Len(c.out)
                  char == CharAt(t, c.at)
                  more == Front(char.out, left)
      <4>1. /\ s2.at = s.at + CharAt(in, s.at).n
            /\ s2.out = s.out \o Front(CharAt(in, s.at).out, capacity - Len(s.out))
        BY <2>3, <2>4, <1>a, <1>b, <3>2, FoldCharIs
      <4>2. /\ c.at \in 1..Len(t) /\ left \in Nat
            /\ c2.at = c.at + char.n /\ c2.out = c.out \o more
        BY <2>3, <2>5, <2>7, <1>a, <1>b, <3>2, FoldCharIs
      <4>3. CharAt(t, c.at) = CharAt(in, k - 1 + c.at)
        BY <1>0, <4>2, CharAfter
      <4>4. char = CharAt(in, s.at)
        BY <1>1, <2>2, <4>3 DEF b
      <4>5. capacity - Len(s.out) = left
        BY <1>1, <1>a, <1>b, <2>5, <2>6
      <4>6. char.n \in Nat /\ char.out \in Seq(Drawn)
        BY <4>2, CharIs
      <4>. HIDE DEF left, char
      <4>7. more \in Seq(Drawn)
        BY <4>2, <4>6, FrontIs
      <4>8. s2.at = s.at + char.n /\ s2.out = s.out \o more
        BY <4>1, <4>4, <4>5
      <4>. HIDE DEF more
      <4>9. s2.at = b + c2.at
        <5>. DEFINE x == c.at
                    y == char.n
        <5>1. x \in Nat /\ y \in Nat /\ s.at = b + x /\ c2.at = x + y /\ s2.at = s.at + y
          BY <2>2, <2>5, <4>2, <4>6, <4>8
        <5>. HIDE DEF x, y
        <5>. QED
          BY <1>1, <5>1
      <4>10. s2.out = before \o c2.out
        <5>1. (before \o c.out) \o more = before \o (c.out \o more)
          BY <1>a, <1>2a, <2>5, <4>7
        <5>. QED
          BY <2>2, <4>2, <4>8, <5>1, Zenon
      <4>. QED
        BY <4>9, <4>10
    <3>. QED
      BY <3>1, <3>2
  <2>. QED
    BY <2>1, <2>8 DEF s2, c2
<1>5. 0..(M - j) \subseteq T
  <2>1. M - j \in Nat
    BY <1>1, <1>a
  <2>. HIDE DEF T
  <2>. QED
    BY <1>3, <1>4, <2>1, Along
<1>6. M - j \in T /\ j + (M - j) = M
  <2>1. M - j \in 0..(M - j) /\ j + (M - j) = M
    BY <1>1, <1>a
  <2>. HIDE DEF T
  <2>. QED
    BY <1>5, <2>1
<1>. QED
  BY <1>6

(* The two parts of a text cut at a place.                                 *)
LEMMA CutIs ==
  ASSUME NEW S, NEW s \in Seq(S), NEW k \in 1..Len(s)
  PROVE  /\ SubSeq(s, 1, k - 1) \in Seq(S) /\ Len(SubSeq(s, 1, k - 1)) = k - 1
         /\ \A j \in 1..(k - 1) : SubSeq(s, 1, k - 1)[j] = s[j]
         /\ SubSeq(s, k, Len(s)) \in Seq(S) /\ Len(SubSeq(s, k, Len(s))) = Len(s) - k + 1
         /\ \A i \in 1..Len(SubSeq(s, k, Len(s))) : SubSeq(s, k, Len(s))[i] = s[k - 1 + i]
<1>. DEFINE n == Len(s)
            a == k - 1
            p == SubSeq(s, 1, a)
            t == SubSeq(s, k, n)
<1>1. /\ n \in Nat /\ k \in Int /\ k >= 1 /\ k <= n /\ a \in Int /\ a = k - 1 /\ 1 \in Int /\ n \in Int
  BY LenProperties
<1>2. \A i \in 1..n : s[i] \in S
  BY ElementOfSeq
<1>. HIDE DEF n, a
<1>3. p \in Seq(S) /\ Len(p) = (IF 1 <= a THEN a - 1 + 1 ELSE 0)
      /\ \A i \in 1..(a - 1 + 1) : p[i] = s[1 + i - 1]
  <2>1. \A i \in 1..a : s[i] \in S
    BY <1>1, <1>2
  <2>. QED
    BY <1>1, <2>1, SubSeqProperties
<1>4. t \in Seq(S) /\ Len(t) = (IF k <= n THEN n - k + 1 ELSE 0)
      /\ \A i \in 1..(n - k + 1) : t[i] = s[k + i - 1]
  <2>1. \A i \in k..n : s[i] \in S
    BY <1>1, <1>2
  <2>. QED
    BY <1>1, <2>1, SubSeqProperties
<1>. HIDE DEF p, t
<1>5. Len(p) = a /\ \A i \in 1..a : p[i] = s[i]
  <2>1. Len(p) = a
    BY <1>1, <1>3
  <2>2. ASSUME NEW i \in 1..a PROVE p[i] = s[i]
    <3>1. i \in 1..(a - 1 + 1) /\ 1 + i - 1 = i
      BY <1>1
    <3>. QED
      BY <1>3, <3>1
  <2>. QED
    BY <2>1, <2>2
<1>6. Len(t) = n - k + 1 /\ \A i \in 1..Len(t) : t[i] = s[k - 1 + i]
  <2>1. Len(t) = n - k + 1
    BY <1>1, <1>4
  <2>2. ASSUME NEW i \in 1..Len(t) PROVE t[i] = s[k - 1 + i]
    <3>1. i \in 1..(n - k + 1) /\ k + i - 1 = k - 1 + i
      BY <1>1, <2>1
    <3>. QED
      BY <1>4, <3>1
  <2>. QED
    BY <2>1, <2>2
<1>. QED
  BY <1>3, <1>4, <1>5, <1>6 DEF p, t, a, n

(* Folding loses its place nowhere.                                        *)
LEMMA FoldedInPlace ==
  ASSUME NEW in \in Seq(Bytes), NEW capacity \in Nat, NEW k \in 1..Len(in), in[k] \in Ascii
  PROVE  LET before == FoldToAscii(SubSeq(in, 1, k - 1), capacity)
             rest   == SubSeq(in, k, Len(in))
         IN FoldToAscii(in, capacity) = before \o FoldToAscii(rest, capacity - Len(before))
<1>. DEFINE n == Len(in)
            M == n + n
            p == SubSeq(in, 1, k - 1)
            t == SubSeq(in, k, Len(in))
            whole  == FoldToAscii(in, capacity)
            before == FoldToAscii(p, capacity)
            room == capacity - Len(before)
            after == FoldToAscii(t, room)
<1>1. n \in Nat /\ k \in Nat /\ k >= 1 /\ k <= n /\ M \in Nat
  BY LenProperties
<1>2. /\ p \in Seq(Bytes) /\ Len(p) = k - 1 /\ \A j \in 1..(k - 1) : p[j] = in[j]
      /\ t \in Seq(Bytes) /\ Len(t) = Len(in) - k + 1
      /\ \A i \in 1..Len(t) : t[i] = in[k - 1 + i]
  BY CutIs
<1>. HIDE DEF p, t
<1>3. before \in Seq(Drawn) /\ Len(before) \in Nat /\ Len(before) <= capacity
  BY <1>2, FoldTyped, LenProperties
<1>4. room \in Nat /\ capacity = Len(before) + room
  BY <1>3
<1>. HIDE DEF whole, before, room
<1>5. after \in Seq(Drawn) /\ Len(after) <= room
  BY <1>2, <1>4, FoldTyped
<1>. HIDE DEF after
<1>6. /\ Len(in) <= M /\ Len(p) <= M /\ Len(t) <= M /\ Len(in) \in 0..M /\ M \in 0..M
      /\ Len(p) \in 0..M /\ Len(t) \in 0..M
  BY <1>1, <1>2
<1>. HIDE DEF M
<1>7. PICK At : FoldRun(At, in, capacity, M) /\ whole = At[Len(in)].out
  BY <1>1, <1>6, Folding DEF whole
<1>8. PICK Bt : FoldRun(Bt, p, capacity, M) /\ before = Bt[Len(p)].out
  BY <1>1, <1>2, <1>6, Folding DEF before
<1>9. PICK Ct : FoldRun(Ct, t, room, M) /\ after = Ct[Len(t)].out
  BY <1>1, <1>2, <1>4, <1>6, Folding DEF after
<1>10. PICK j \in 0..Len(in) : /\ At[j] = Bt[j]
                               /\ At[j].at <= k
                               /\ At[j].at = k \/ Len(At[j].out) = capacity
                               /\ FoldEnded(p, capacity, Bt[j])
  <2>1. /\ p \in Seq(Bytes) /\ BeginsAs(p, in, k)
        /\ M \in Nat /\ Len(in) <= M
        /\ FoldRun(At, in, capacity, M) /\ FoldRun(Bt, p, capacity, M)
    BY <1>1, <1>2, <1>6, <1>7, <1>8 DEF BeginsAs
  <2>. QED
    BY <2>1, FoldsBefore
<1>11. j \in 0..M /\ M \in j..M /\ j <= n /\ j \in Nat
  BY <1>1, <1>6 DEF n
<1>12. At[M].out = whole
  <2>1. FoldEnded(in, capacity, At[Len(in)]) /\ M \in Len(in)..M
    BY <1>1, <1>6, <1>7, FoldEnds
  <2>2. At[M] = At[Len(in)]
    BY <1>1, <1>6, <1>7, <2>1, FoldEnds
  <2>. QED
    BY <1>7, <2>2
<1>13. At[j].out = before
  <2>1. Bt[M] = Bt[j]
    <3>1. /\ FoldEnded(p, capacity, Bt[j]) /\ FoldRun(Bt, p, capacity, M) /\ p \in Seq(Bytes)
          /\ M \in Nat /\ j \in 0..M /\ M \in j..M
      BY <1>1, <1>2, <1>8, <1>10, <1>11
    <3>. QED
      BY <3>1, FoldEnds
  <2>2. FoldEnded(p, capacity, Bt[Len(p)]) /\ M \in Len(p)..M
    BY <1>1, <1>2, <1>6, <1>8, FoldEnds
  <2>3. Bt[M] = Bt[Len(p)]
    BY <1>1, <1>2, <1>6, <1>8, <2>2, FoldEnds
  <2>. QED
    BY <1>8, <1>10, <2>1, <2>3
<1>14. CASE Len(At[j].out) = capacity
  <2>1. At[M] = At[j]
    <3>1. FoldEnded(in, capacity, At[j])
      BY <1>14 DEF FoldEnded
    <3>. QED
      BY <1>1, <1>7, <1>11, <3>1, FoldEnds
  <2>2. room = 0
    BY <1>3, <1>4, <1>13, <1>14
  <2>3. Len(after) = 0
    BY <1>5, <2>2, LenProperties
  <2>4. after = <<>>
    BY <1>5, <2>3, EmptySeq
  <2>5. before \o after = before
    BY <1>3, <2>4, ConcatEmptySeq
  <2>. QED
    BY <1>12, <1>13, <2>1, <2>5 DEF whole, before, after, room, p, t
<1>15. CASE At[j].at = k
  <2>1. At[M].out = before \o Ct[M - j].out
    <3>1. CutAt(At, Ct, in, t, k, before, room, M, j)
      BY <1>1, <1>2, <1>3, <1>4, <1>7, <1>9, <1>11, <1>13, <1>15 DEF CutAt, EndsAs
    <3>. QED
      BY <1>2, <3>1, FoldsAfter
  <2>. DEFINE m == M - j
  <2>2. m \in 0..(M - j) /\ j + m = M /\ m \in Len(t)..M
    BY <1>1, <1>2, <1>11 DEF M
  <2>3. At[M].out = before \o Ct[m].out
    BY <2>1
  <2>4. FoldEnded(t, room, Ct[Len(t)])
    BY <1>1, <1>2, <1>4, <1>6, <1>9, FoldEnds
  <2>5. Ct[m] = Ct[Len(t)]
    BY <1>1, <1>2, <1>4, <1>6, <1>9, <2>2, <2>4, FoldEnds
  <2>. QED
    BY <1>9, <1>12, <2>3, <2>5 DEF whole, before, after, room, p, t
<1>. QED
  BY <1>10, <1>14, <1>15

(* What folding promises of a job.                                         *)
LEMMA FoldsWhole ==
  ASSUME NEW in \in Seq(Bytes), NEW capacity \in Nat
  PROVE  LET r == FoldToAscii(in, capacity)
         IN /\ Len(r) <= capacity
            /\ \A k \in DOMAIN r : r[k] \notin {"2", "3", "4", "c", "b"}
            /\ \A k \in DOMAIN in :
                 in[k] \in Ascii =>
                   LET before == FoldToAscii(SubSeq(in, 1, k - 1), capacity)
                       rest   == SubSeq(in, k, Len(in))
                   IN r = before \o FoldToAscii(rest, capacity - Len(before))
<1>. DEFINE r == FoldToAscii(in, capacity)
<1>1. r \in Seq(Drawn) /\ Len(r) <= capacity
  BY FoldTyped
<1>. HIDE DEF r
<1>2. \A k \in DOMAIN r : r[k] \in Drawn
  BY <1>1, LenProperties, ElementOfSeq
<1>3. \A k \in DOMAIN r : r[k] \notin {"2", "3", "4", "c", "b"}
  BY <1>2 DEF Drawn
<1>4. DOMAIN in = 1..Len(in)
  BY LenProperties
<1>. QED
  BY <1>1, <1>3, <1>4, FoldedInPlace DEF r

-----------------------------------------------------------------------------
(* The verses of a surah                                                   *)

VerseRecord == [off : 0..(W - 1), len : 0..(W - 1)]
BytesOf(data, record) == ReadTranslationText(data, record.off, record.len, RawCapacity)

(* Past 2^32 a sum starts again.                                           *)
LEMMA Wraps ==
  ASSUME NEW w \in Nat \ {0}, NEW x \in w..(w + w - 1)
  PROVE  x % w = x - w
BY Z3

(* Where a span begins and where it ends.                                  *)
LEMMA SpanIs ==
  ASSUME NEW batch \in Seq(VerseRecord)
  PROVE  Span(batch).start \in Nat /\ Span(batch).end \in Nat
<1>. DEFINE good == {r \in {batch[i] : i \in DOMAIN batch} : (r.off + r.len) % W >= r.off}
            starts == {r.off : r \in good}
            ends == {r.off + r.len : r \in good}
            s == CHOOSE s \in starts : \A r \in good : s <= r.off
            e == CHOOSE e \in ends : \A r \in good : e >= r.off + r.len
<1>1. W \in Nat \ {0}
  BY BookTextAssumption
<1>2. \A r \in good : r \in VerseRecord
  BY LenProperties, ElementOfSeq
<1>3. ASSUME NEW r \in good PROVE r.off \in Nat /\ r.off + r.len \in 0..(W + W)
  <2>. DEFINE x == r.off
              y == r.len
  <2>1. x \in 0..(W - 1) /\ y \in 0..(W - 1)
    BY <1>2 DEF VerseRecord
  <2>. HIDE DEF x, y
  <2>2. x \in Nat /\ x + y \in 0..(W + W)
    BY <1>1, <2>1
  <2>. QED
    BY <2>2 DEF x, y
<1>4. Span(batch) = IF good = {} THEN [start |-> W - 1, end |-> 0] ELSE [start |-> s, end |-> e]
  BY DEF Span
<1>5. CASE good = {}
  BY <1>1, <1>4, <1>5
<1>6. CASE good # {}
  <2>. HIDE DEF good
  <2>1. starts # {} /\ starts \in SUBSET Nat
    BY <1>3, <1>6
  <2>2. ends # {} /\ ends \in SUBSET (0..(W + W)) /\ W + W \in Nat
    BY <1>1, <1>3, <1>6
  <2>3. s \in Nat
    <3>1. PICK m \in starts : \A k \in starts : m <= k
      BY <2>1, LeastNumber
    <3>2. \A r \in good : m <= r.off
      BY <3>1
    <3>3. s \in starts
      BY <3>2
    <3>. QED
      BY <2>1, <3>3
  <2>4. e \in Nat
    <3>1. PICK m \in ends : \A k \in ends : k <= m
      BY <2>2, GreatestNumber
    <3>2. m \in 0..(W + W) /\ \A r \in good : r.off + r.len <= m
      BY <2>2, <3>1
    <3>3. \A r \in good : m >= r.off + r.len
      BY <1>1, <1>3, <3>2
    <3>4. e \in ends
      BY <3>3
    <3>5. \A x \in 0..(W + W) : x \in Nat
      BY <1>1
    <3>. HIDE DEF e, ends
    <3>. QED
      BY <2>2, <3>4, <3>5
  <2>. HIDE DEF s, e
  <2>. QED
    BY <1>4, <1>6, <2>3, <2>4
<1>. QED
  BY <1>5, <1>6

(* Out of the span that was read or on its own, a verse is the same bytes. *)
LEMMA VerseTextIs ==
  ASSUME NEW data \in Seq(Bytes), NEW batch \in Seq(VerseRecord), NEW i \in 1..Len(batch), NEW scratch \in Nat
  PROVE  VerseText(data, batch[i], Span(batch), HaveSpan(data, Span(batch), scratch)) = BytesOf(data, batch[i])
<1>. DEFINE record == batch[i]
            span == Span(batch)
            have == HaveSpan(data, span, scratch)
            off == record.off
            len == record.len
            end == (off + len) % W
            n == Len(data)
<1>1. W \in Nat \ {0} /\ n \in Nat /\ RawCapacity \in Nat
  BY BookTextAssumption, LenProperties
<1>2. off \in 0..(W - 1) /\ len \in 0..(W - 1)
  <2>1. record \in VerseRecord
    BY ElementOfSeq
  <2>. QED
    BY <2>1 DEF VerseRecord
<1>3. span.start \in Nat /\ span.end \in Nat
  BY SpanIs
<1>. HIDE DEF record, span, have
<1>4. VerseText(data, record, span, have)
        = IF have /\ off >= span.start /\ end <= span.end /\ end >= off
          THEN SubSeq(data, off + 1, off + Lower(len, RawCapacity))
          ELSE ReadTranslationText(data, off, len, RawCapacity)
  BY DEF VerseText
<1>. HIDE DEF off, len, n
<1>5. ASSUME have, off >= span.start, end <= span.end, end >= off
      PROVE  ReadTranslationText(data, off, len, RawCapacity) = SubSeq(data, off + 1, off + Lower(len, RawCapacity))
  <2>1. span.end <= n
    <3>. DEFINE a == span.start
                b == span.end
    <3>1. a < b /\ ReadTranslationText(data, a, b - a, scratch) # Failed
      BY <1>5, <1>3 DEF have, HaveSpan
    <3>2. a <= n /\ b - a <= n - a
      BY <1>1, <1>3, <3>1 DEF ReadTranslationText, n
    <3>. HIDE DEF a, b
    <3>3. a \in Nat /\ b \in Nat
      BY <1>3 DEF a, b
    <3>4. b <= n
      BY <1>1, <3>2, <3>3
    <3>. QED
      BY <3>4 DEF b
  <2>2. off + len < W
    <3>. SUFFICES ASSUME ~ (off + len < W) PROVE FALSE
      OBVIOUS
    <3>1. off + len \in W..(W + W - 1)
      BY <1>1, <1>2
    <3>2. end = (off + len) - W
      BY <1>1, <3>1, Wraps
    <3>. HIDE DEF end
    <3>. QED
      BY <1>1, <1>2, <1>5, <3>2
  <2>3. end = off + len
    <3>1. off + len \in 0..(W - 1)
      BY <1>1, <1>2, <2>2
    <3>. QED
      BY <1>1, <3>1, Small
  <2>. DEFINE b == span.end
  <2>4. off + len <= b /\ b <= n /\ b \in Nat
    BY <1>3, <1>5, <2>1, <2>3
  <2>. HIDE DEF b
  <2>5. ~ (off > n) /\ ~ (len > n - off)
    BY <1>1, <1>2, <2>4
  <2>. QED
    BY <2>5 DEF ReadTranslationText, n
<1>6. VerseText(data, record, span, have) = ReadTranslationText(data, off, len, RawCapacity)
  BY <1>4, <1>5
<1>. QED
  BY <1>6 DEF record, span, have, off, len, BytesOf

LEMMA TextTyped ==
  ASSUME NEW data \in Seq(Bytes), NEW record \in VerseRecord
  PROVE  BytesOf(data, record) \in Seq(Bytes) \cup {Failed}
<1>. DEFINE off == record.off
            len == record.len
            n == Len(data)
            m == Lower(len, RawCapacity)
<1>1. /\ n \in Nat /\ off \in Nat /\ len \in Nat /\ RawCapacity \in Nat
  BY BookTextAssumption, LenProperties DEF VerseRecord
<1>2. m \in Nat /\ m <= len
  BY <1>1, LowerIs
<1>. HIDE DEF off, len, m, n
<1>3. BytesOf(data, record) = IF off > n \/ len > n - off THEN Failed ELSE SubSeq(data, off + 1, off + m)
  BY DEF BytesOf, ReadTranslationText, off, len, n, m
<1>4. ASSUME ~ (off > n), ~ (len > n - off) PROVE SubSeq(data, off + 1, off + m) \in Seq(Bytes)
  <2>1. off + 1 \in Int /\ off + m \in Int /\ \A i \in (off + 1)..(off + m) : i \in 1..n
    BY <1>1, <1>2, <1>4
  <2>2. \A i \in (off + 1)..(off + m) : data[i] \in Bytes
    BY <2>1, ElementOfSeq DEF n
  <2>. QED
    BY <2>1, <2>2, SubSeqProperties
<1>. QED
  BY <1>3, <1>4

Piece(i, text) == VerseNumber(i) \o FoldToAscii(text, FoldCapacity) \o <<"n", "n">>

LEMMA PieceIs ==
  ASSUME NEW i, VerseNumber(i) \in Seq(Bytes), NEW text \in Seq(Bytes)
  PROVE  Piece(i, text) \in Seq(Bytes)
<1>. DEFINE f == FoldToAscii(text, FoldCapacity)
            v == VerseNumber(i)
            e == <<"n", "n">>
<1>1. f \in Seq(Drawn)
  BY FoldTyped, BookTextAssumption
<1>2. e \in Seq(Bytes)
  <2>. DEFINE x == "n"
  <2>1. x \in Bytes
    BY BookTextAssumption
  <2>. HIDE DEF x
  <2>2. <<x, x>> \in Seq(Bytes)
    BY <2>1, PairIs
  <2>. QED
    BY <2>2 DEF x
<1>. HIDE DEF f, v, e
<1>3. f \in Seq(Bytes)
  <2>1. Len(f) \in Nat /\ \A k \in 1..Len(f) : f[k] \in Bytes
    BY <1>1, LenProperties, ElementOfSeq DEF Drawn
  <2>2. f = [k \in 1..Len(f) |-> f[k]]
    BY <1>1, LenProperties
  <2>3. f \in [1..Len(f) -> Bytes]
    BY <2>1, <2>2
  <2>. QED
    BY <2>1, <2>3, SeqDef
<1>4. v \o f \in Seq(Bytes)
  BY <1>3, ConcatProperties DEF v
<1>5. (v \o f) \o e \in Seq(Bytes)
  BY <1>2, <1>4, ConcatProperties
<1>. QED
  BY <1>5 DEF Piece, v, f, e

(* A surah to be put into a buffer: n of its verses are there, the first   *)
(* last of them can be read, and To[i] is the text of the first i.         *)
VerseOf(data, records, first, i) == BytesOf(data, records[first + i])

Surah(data, records, first, count, capacity, n, last, To) ==
  /\ data \in Seq(Bytes) /\ records \in Seq(VerseRecord)
  /\ first \in Nat /\ count \in Nat /\ capacity \in Nat
  /\ \A i \in 1..count : VerseNumber(i) \in Seq(Bytes)
  /\ n = Lower(count, IF first > Len(records) THEN 0 ELSE Len(records) - first)
  /\ last \in 0..n
  /\ \A i \in 1..last : VerseOf(data, records, first, i) # Failed
  /\ last < n => VerseOf(data, records, first, last + 1) = Failed
  /\ To[0] = <<>>
  /\ \A i \in 0..last : To[i] \in Seq(Bytes)
  /\ \A i \in 1..last : To[i] = To[i - 1] \o Piece(i, VerseOf(data, records, first, i))

LEMMA SurahIs ==
  ASSUME NEW data, NEW records, NEW first, NEW count, NEW capacity, NEW n, NEW last, NEW To,
         Surah(data, records, first, count, capacity, n, last, To)
  PROVE  /\ n \in Nat /\ n <= count /\ last \in Nat /\ last <= n
         /\ first + n <= Len(records) \/ n = 0
         /\ n = count \/ first + n >= Len(records)
         /\ \A i \in 1..n : /\ first + i \in 1..Len(records)
                            /\ VerseOf(data, records, first, i) \in Seq(Bytes) \cup {Failed}
<1>. DEFINE l == Len(records)
            there == IF first > l THEN 0 ELSE l - first
<1>1. /\ count \in Nat /\ first \in Nat /\ last \in 0..n /\ n = Lower(count, there)
      /\ records \in Seq(VerseRecord) /\ data \in Seq(Bytes)
  BY DEF Surah
<1>2. l \in Nat
  BY <1>1, LenProperties
<1>. HIDE DEF l
<1>3. there \in Nat /\ (there = 0 \/ first + there = l) /\ first + there >= l
  BY <1>1, <1>2
<1>. HIDE DEF there
<1>4. n \in Nat /\ n <= count /\ n <= there /\ (n = count \/ n = there)
  BY <1>1, <1>3, LowerIs
<1>5. last \in Nat /\ last <= n
  BY <1>1, <1>4
<1>6. first + n <= l \/ n = 0
  BY <1>1, <1>2, <1>3, <1>4
<1>7. n = count \/ first + n >= l
  BY <1>1, <1>3, <1>4
<1>8. ASSUME NEW i \in 1..n
      PROVE  first + i \in 1..l /\ VerseOf(data, records, first, i) \in Seq(Bytes) \cup {Failed}
  <2>1. first + i \in 1..l
    BY <1>1, <1>2, <1>4, <1>6
  <2>2. records[first + i] \in VerseRecord
    BY <1>1, <2>1, ElementOfSeq DEF l
  <2>. QED
    BY <1>1, <2>1, <2>2, TextTyped DEF VerseOf
<1>. QED
  BY <1>4, <1>5, <1>6, <1>7, <1>8 DEF l

(* The text of some verses is the beginning of that of more.               *)
LEMMA SurahGrows ==
  ASSUME NEW data, NEW records, NEW first, NEW count, NEW capacity, NEW n, NEW last, NEW To,
         Surah(data, records, first, count, capacity, n, last, To), NEW v \in 0..last
  PROVE  IsPrefixOf(To[v], To[last])
<1>1. last \in Nat /\ v \in Nat /\ v <= last /\ last <= n /\ n <= count
  BY SurahIs
<1>2. \A i \in 0..last : To[i] \in Seq(Bytes)
  BY DEF Surah
<1>. DEFINE T == {i \in Nat : IsPrefixOf(To[v], To[i])}
<1>3. v \in T
  BY <1>1, <1>2, PrefixSelf
<1>4. ASSUME NEW i \in v..(last - 1), i \in T PROVE i + 1 \in T
  <2>. DEFINE text == VerseOf(data, records, first, i + 1)
              piece == Piece(i + 1, text)
  <2>1. i \in 0..last /\ i + 1 \in 1..last /\ (i + 1) - 1 = i /\ i + 1 \in Nat /\ i + 1 \in 1..n /\ i + 1 \in 1..count
    <3>1. n \in Nat /\ count \in Nat
      <4>1. n \in Nat
        BY SurahIs
      <4>2. count \in Nat
        BY DEF Surah
      <4>. QED
        BY <4>1, <4>2
    <3>. QED
      BY <1>1, <3>1
  <2>2. text \in Seq(Bytes)
    <3>1. text \in Seq(Bytes) \cup {Failed}
      BY <2>1, SurahIs
    <3>2. text # Failed
      BY <2>1 DEF Surah
    <3>. QED
      BY <3>1, <3>2
  <2>3. VerseNumber(i + 1) \in Seq(Bytes)
    BY <2>1 DEF Surah
  <2>4. piece \in Seq(Bytes)
    BY <2>2, <2>3, PieceIs
  <2>5. To[i + 1] = To[i] \o piece
    BY <2>1 DEF Surah
  <2>. HIDE DEF piece
  <2>6. To[v] \in Seq(Bytes) /\ To[i] \in Seq(Bytes) /\ IsPrefixOf(To[v], To[i])
    BY <1>2, <1>4, <2>1
  <2>7. IsPrefixOf(To[v], To[i] \o piece)
    BY <2>4, <2>6, PrefixGrows
  <2>. QED
    BY <2>1, <2>5, <2>7
<1>5. last \in T
  <2>1. last \in v..last
    BY <1>1
  <2>. HIDE DEF T
  <2>2. v..last \subseteq T
    BY <1>1, <1>3, <1>4, Along
  <2>. QED
    BY <2>1, <2>2
<1>. QED
  BY <1>5

(* What there is when v verses have been put, and whether it goes on.      *)
PutState(capacity) == {s \in [out : Seq(Bytes), on : BOOLEAN] : Len(s.out) <= capacity}
PutSoFar(s, v, capacity, last, To) ==
  /\ s \in PutState(capacity)
  /\ s.on => v <= last /\ s.out = To[v]
  /\ ~s.on => s.out = Front(To[last], capacity)

LEMMA PutTyped ==
  ASSUME NEW capacity \in Nat, NEW s \in PutState(capacity), NEW i, VerseNumber(i) \in Seq(Bytes),
         NEW text \in Seq(Bytes) \cup {Failed}
  PROVE  PutVerse(s, i, text, capacity) \in PutState(capacity)
<1>. DEFINE r == PutVerse(s, i, text, capacity)
            all == Piece(i, text)
            room == capacity - Len(s.out)
            o == s.out \o Front(all, room)
            b == Len(s.out) + Len(all) <= capacity
<1>1. s.out \in Seq(Bytes) /\ Len(s.out) \in Nat /\ Len(s.out) <= capacity /\ s.on \in BOOLEAN
      /\ s \in [out : Seq(Bytes), on : BOOLEAN]
  BY LenProperties DEF PutState
<1>2. room \in Nat
  BY <1>1
<1>3. r = IF ~s.on \/ text = Failed THEN [s EXCEPT !.on = FALSE] ELSE [out |-> o, on |-> b]
  BY DEF PutVerse, Piece, Put, Fits
<1>4. CASE ~s.on \/ text = Failed
  <2>. HIDE DEF r
  <2>1. r = [s EXCEPT !.on = FALSE]
    BY <1>3, <1>4
  <2>2. r \in [out : Seq(Bytes), on : BOOLEAN] /\ r.out = s.out
    BY <1>1, <2>1
  <2>. QED
    BY <1>1, <2>2 DEF r, PutState
<1>5. CASE ~ (~s.on \/ text = Failed)
  <2>1. all \in Seq(Bytes)
    <3>1. text \in Seq(Bytes)
      BY <1>5
    <3>. QED
      BY <3>1, PieceIs
  <2>. HIDE DEF all
  <2>2. Front(all, room) \in Seq(Bytes) /\ Len(Front(all, room)) <= room /\ Len(Front(all, room)) \in Nat
    <3>. HIDE DEF room
    <3>1. Front(all, room) \in Seq(Bytes) /\ Len(Front(all, room)) <= room
      BY <1>2, <2>1, FrontIs
    <3>. QED
      BY <3>1, LenProperties
  <2>. DEFINE f == Front(all, room)
  <2>3. o \in Seq(Bytes) /\ Len(o) = Len(s.out) + Len(f)
    <3>1. f \in Seq(Bytes) /\ o = s.out \o f
      BY <2>2
    <3>. HIDE DEF f, o
    <3>. QED
      BY <1>1, <3>1, ConcatProperties
  <2>. HIDE DEF o, r
  <2>4. Len(o) <= capacity
    <3>. DEFINE x == Len(s.out)
                y == Len(f)
    <3>1. x \in Nat /\ y \in Nat /\ y <= capacity - x /\ Len(o) = x + y
      BY <1>1, <2>2, <2>3
    <3>. HIDE DEF x, y
    <3>. QED
      BY <3>1
  <2>5. b \in BOOLEAN
    OBVIOUS
  <2>. HIDE DEF b
  <2>6. r = [out |-> o, on |-> b]
    BY <1>3, <1>5
  <2>. QED
    BY <2>3, <2>4, <2>5, <2>6 DEF r, PutState
<1>. QED
  BY <1>4, <1>5

(* One verse more.                                                         *)
LEMMA VersePut ==
  ASSUME NEW data, NEW records, NEW first, NEW count, NEW capacity, NEW n, NEW last, NEW To,
         Surah(data, records, first, count, capacity, n, last, To),
         NEW v \in 0..(n - 1), NEW s, PutSoFar(s, v, capacity, last, To)
  PROVE  PutSoFar(PutVerse(s, v + 1, VerseOf(data, records, first, v + 1), capacity),
                  v + 1, capacity, last, To)
<1>. DEFINE text == VerseOf(data, records, first, v + 1)
            r == PutVerse(s, v + 1, text, capacity)
            all == Piece(v + 1, text)
<1>1. /\ capacity \in Nat /\ n \in Nat /\ n <= count /\ count \in Nat /\ last \in Nat /\ last <= n
      /\ v \in Nat /\ v < n /\ v + 1 \in 1..n /\ v + 1 \in 1..count
  <2>1. n \in Nat /\ n <= count /\ last \in Nat /\ last <= n
    BY SurahIs
  <2>2. capacity \in Nat /\ count \in Nat
    BY DEF Surah
  <2>. QED
    BY <2>1, <2>2
<1>2. VerseNumber(v + 1) \in Seq(Bytes) /\ text \in Seq(Bytes) \cup {Failed}
  <2>1. text \in Seq(Bytes) \cup {Failed}
    BY <1>1, SurahIs
  <2>2. VerseNumber(v + 1) \in Seq(Bytes)
    BY <1>1 DEF Surah
  <2>. QED
    BY <2>1, <2>2
<1>3. s \in PutState(capacity) /\ s.out \in Seq(Bytes) /\ Len(s.out) \in Nat /\ Len(s.out) <= capacity
      /\ s \in [out : Seq(Bytes), on : BOOLEAN]
  BY LenProperties DEF PutSoFar, PutState
<1>4. \A i \in 0..last : To[i] \in Seq(Bytes)
  BY DEF Surah
<1>. HIDE DEF text, r
<1>5. r \in PutState(capacity)
  BY <1>1, <1>2, <1>3, PutTyped DEF r
<1>6. CASE ~s.on
  <2>1. r = [s EXCEPT !.on = FALSE]
    BY <1>6 DEF PutVerse, r
  <2>2. ~r.on /\ r.out = s.out
    BY <1>3, <2>1
  <2>. QED
    BY <1>5, <1>6, <2>2 DEF PutSoFar, r, text
<1>7. CASE s.on /\ text = Failed
  <2>1. r = [s EXCEPT !.on = FALSE]
    BY <1>7 DEF PutVerse, r
  <2>2. ~r.on /\ r.out = s.out
    BY <1>3, <2>1
  <2>3. s.out = To[v] /\ v <= last
    BY <1>7 DEF PutSoFar
  <2>4. v = last
    <3>1. ~ (v + 1 \in 1..last)
      BY <1>7 DEF Surah, text
    <3>. QED
      BY <1>1, <2>3, <3>1
  <2>5. s.out = Front(To[last], capacity)
    <3>1. s.out = Front(s.out, capacity)
      BY <1>1, <1>3, FrontIs
    <3>. QED
      BY <2>3, <2>4, <3>1
  <2>. QED
    BY <1>5, <2>2, <2>5 DEF PutSoFar, r, text
<1>8. CASE s.on /\ text # Failed
  <2>1. s.out = To[v] /\ v <= last
    BY <1>8 DEF PutSoFar
  <2>2. v + 1 <= last /\ v + 1 \in 1..last /\ v + 1 \in 0..last /\ (v + 1) - 1 = v
    <3>1. v # last
      BY <1>1, <1>8 DEF Surah, text
    <3>. QED
      BY <1>1, <2>1, <3>1
  <2>3. To[v + 1] = s.out \o all
    BY <2>1, <2>2 DEF Surah, text
  <2>4. all \in Seq(Bytes)
    <3>1. text \in Seq(Bytes)
      BY <1>2, <1>8
    <3>. QED
      BY <1>2, <3>1, PieceIs
  <2>. DEFINE room == capacity - Len(s.out)
  <2>5. r = [out |-> s.out \o Front(all, room), on |-> Len(s.out) + Len(all) <= capacity]
    BY <1>8 DEF r, PutVerse, Put, Fits, Piece
  <2>. HIDE DEF all
  <2>6. Front(s.out \o all, capacity) = s.out \o Front(all, room)
    BY <1>1, <1>3, <2>4, FrontOfBoth
  <2>7. Len(s.out \o all) = Len(s.out) + Len(all) /\ s.out \o all \in Seq(Bytes)
    BY <1>3, <2>4, ConcatProperties
  <2>. DEFINE whole == s.out \o all
              g == s.out \o Front(all, room)
              b == Len(s.out) + Len(all) <= capacity
  <2>8. whole = To[v + 1] /\ whole \in Seq(Bytes) /\ g = Front(whole, capacity) /\ b = (Len(whole) <= capacity)
    BY <2>3, <2>6, <2>7
  <2>9. r = [out |-> g, on |-> b] /\ b \in BOOLEAN
    BY <2>5
  <2>. HIDE DEF whole, g, b
  <2>10. r.out = g /\ r.on = b
    BY <2>9
  <2>11. CASE b
    <3>1. g = whole
      BY <1>1, <2>8, <2>11, FrontIs
    <3>. QED
      BY <1>5, <2>2, <2>8, <2>10, <2>11, <3>1 DEF PutSoFar, r, text
  <2>12. CASE ~b
    <3>1. IsPrefixOf(To[v + 1], To[last])
      BY <2>2, SurahGrows
    <3>2. To[last] \in Seq(Bytes)
      BY <1>1, <1>4
    <3>3. capacity <= Len(whole)
      <4>1. Len(whole) \in Nat /\ ~ (Len(whole) <= capacity)
        BY <2>8, <2>12, LenProperties
      <4>. QED
        BY <1>1, <4>1
    <3>4. Front(To[last], capacity) = Front(whole, capacity)
      BY <1>1, <2>8, <3>1, <3>2, <3>3, FrontOfPrefix
    <3>. QED
      BY <1>5, <2>8, <2>10, <2>12, <3>4 DEF PutSoFar, r, text
  <2>. QED
    BY <2>11, <2>12
<1>. QED
  BY <1>3, <1>6, <1>7, <1>8

(* A batch holds the next of the surah's records, and if it holds fewer    *)
(* than were asked for there are no more.                                  *)
LEMMA BatchIs ==
  ASSUME NEW data, NEW records, NEW first, NEW count, NEW capacity, NEW n, NEW last, NEW To,
         Surah(data, records, first, count, capacity, n, last, To),
         NEW from \in 0..n, NEW want \in Nat, from + want <= count
  PROVE  LET batch == ReadRecordRange(records, first + from, want)
         IN /\ batch \in Seq(VerseRecord) /\ Len(batch) \in Nat /\ Len(batch) <= want
            /\ from + Len(batch) <= n
            /\ Len(batch) < want => from + Len(batch) = n
            /\ \A i \in 1..Len(batch) : batch[i] = records[first + (from + i)]
<1>. DEFINE l == Len(records)
            a == first + from
            m == Lower(a + want, l)
            batch == ReadRecordRange(records, a, want)
            b == Len(batch)
<1>2. /\ count \in Nat /\ first \in Nat /\ records \in Seq(VerseRecord)
  BY DEF Surah
<1>3. l \in Nat /\ a \in Nat /\ from \in Nat /\ from <= n /\ n \in Nat /\ n <= count /\ a = first + from
  <2>1. n \in Nat /\ n <= count
    BY SurahIs
  <2>. QED
    BY <1>2, <2>1, LenProperties
<1>4. (first + n <= l \/ n = 0) /\ (n = count \/ first + n >= l)
  BY SurahIs
<1>. HIDE DEF l, a
<1>5. m \in Nat /\ m <= l /\ m <= a + want /\ (m = l \/ m = a + want)
  <2>1. a + want \in Int /\ l \in Int /\ a + want \in Nat
    BY <1>3
  <2>. QED
    BY <1>3, <2>1, LowerIs
<1>6. batch = SubSeq(records, a + 1, m)
  BY DEF ReadRecordRange, l
<1>. HIDE DEF m, batch
<1>7. /\ batch \in Seq(VerseRecord) /\ b = (IF a + 1 <= m THEN m - (a + 1) + 1 ELSE 0)
      /\ \A i \in 1..(m - (a + 1) + 1) : batch[i] = records[a + 1 + i - 1]
  <2>1. a + 1 \in Int /\ m \in Int /\ \A i \in (a + 1)..m : i \in 1..l
    BY <1>3, <1>5
  <2>2. \A i \in (a + 1)..m : records[i] \in VerseRecord
    BY <1>2, <2>1, ElementOfSeq DEF l
  <2>. QED
    BY <1>6, <2>1, <2>2, SubSeqProperties
<1>. HIDE DEF b
<1>8. b \in Nat /\ (a + 1 <= m => a + b = m) /\ (~ (a + 1 <= m) => b = 0)
  BY <1>3, <1>5, <1>7
<1>9. b <= want
  BY <1>3, <1>5, <1>8
<1>10. from + b <= n
  <2>1. CASE ~ (a + 1 <= m)
    BY <1>3, <1>8, <2>1
  <2>2. CASE a + 1 <= m
    <3>1. first + (from + b) <= l /\ from + b <= from + want
      BY <1>2, <1>3, <1>5, <1>8, <1>9, <2>2
    <3>2. n = count => from + b <= n
      BY <1>2, <1>3, <1>8, <3>1
    <3>3. first + n >= l => from + b <= n
      BY <1>2, <1>3, <1>8, <3>1
    <3>. QED
      BY <1>4, <3>2, <3>3
  <2>. QED
    BY <2>1, <2>2
<1>11. b < want => from + b = n
  <2>. SUFFICES ASSUME b < want PROVE n <= from + b
    BY <1>3, <1>8, <1>10
  <2>1. a + b >= l
    BY <1>2, <1>3, <1>5, <1>8
  <2>2. first + n <= l => n <= from + b
    BY <1>2, <1>3, <1>8, <2>1
  <2>3. n = 0 => n <= from + b
    BY <1>3, <1>8
  <2>. QED
    BY <1>4, <2>2, <2>3
<1>12. ASSUME NEW i \in 1..b PROVE batch[i] = records[first + (from + i)]
  <2>1. i \in 1..(m - (a + 1) + 1) /\ a + 1 + i - 1 = first + (from + i)
    BY <1>2, <1>3, <1>5, <1>8
  <2>. QED
    BY <1>7, <2>1
<1>. QED
  BY <1>7, <1>8, <1>9, <1>10, <1>11, <1>12 DEF batch, a, b

(* The verses of a batch, one after the other.                             *)
LEMMA BatchPut ==
  ASSUME NEW data, NEW records, NEW first, NEW count, NEW capacity, NEW n, NEW last, NEW To,
         Surah(data, records, first, count, capacity, n, last, To),
         NEW from \in 0..n, NEW batch \in Seq(VerseRecord), from + Len(batch) <= n,
         \A i \in 1..Len(batch) : batch[i] = records[first + (from + i)],
         NEW scratch \in Nat, NEW out, PutSoFar([out |-> out, on |-> TRUE], from, capacity, last, To)
  PROVE  PutSoFar(PutBatch(data, batch, from, out, capacity, scratch), from + Len(batch), capacity, last, To)
<1>. DEFINE b == Len(batch)
            span == Span(batch)
            have == HaveSpan(data, span, scratch)
            Text(i) == VerseText(data, batch[i], span, have)
            S == PutState(capacity)
            x == [out |-> out, on |-> TRUE]
            Step(s, i) == PutVerse(s, from + i, Text(i), capacity)
            At == CHOOSE At : At = [i \in 0..b |-> IF i = 0 THEN x ELSE Step(At[i - 1], i)]
            G == [i \in 0..(b - 1) |-> [s \in S |-> Step(s, i + 1)]]
<1>1. b \in Nat /\ 0 \in Nat /\ from \in Nat /\ n \in Nat /\ n <= count /\ from + b <= n
  <2>1. n \in Nat /\ n <= count
    BY SurahIs
  <2>. QED
    BY <2>1, LenProperties
<1>2. /\ data \in Seq(Bytes) /\ capacity \in Nat /\ count \in Nat
      /\ \A i \in 1..count : VerseNumber(i) \in Seq(Bytes)
  BY DEF Surah
<1>3. PutBatch(data, batch, from, out, capacity, scratch) = At[b]
  BY DEF PutBatch
<1>4. ASSUME NEW i \in 1..b
      PROVE  /\ Text(i) = VerseOf(data, records, first, from + i) /\ from + i \in 1..n
             /\ Text(i) \in Seq(Bytes) \cup {Failed} /\ VerseNumber(from + i) \in Seq(Bytes)
  <2>1. Text(i) = BytesOf(data, batch[i])
    BY <1>2, VerseTextIs
  <2>2. Text(i) = VerseOf(data, records, first, from + i)
    BY <2>1 DEF VerseOf
  <2>3. batch[i] \in VerseRecord
    BY ElementOfSeq
  <2>4. Text(i) \in Seq(Bytes) \cup {Failed}
    BY <1>2, <2>1, <2>3, TextTyped
  <2>5. from + i \in 1..n /\ from + i \in 1..count
    BY <1>1, <1>2
  <2>. HIDE DEF Text
  <2>. QED
    BY <1>2, <2>2, <2>4, <2>5
<1>. HIDE DEF b, Text
<1>5. x \in S
  BY DEF PutSoFar
<1>. HIDE DEF x
<1>6. ASSUME NEW i \in 1..b, NEW s \in S PROVE Step(s, i) \in S
  BY <1>2, <1>4, <1>6, PutTyped
<1>. HIDE DEF S, Step
<1>7. G \in [0..(b - 1) -> [S -> S]]
  <2>1. \A i \in 0..(b - 1) : i + 1 \in 1..b
    BY <1>1
  <2>. QED
    BY <1>6, <2>1
<1>8. PICK f : GoesOn(f, 0, b, S, x, G)
  <2>. HIDE DEF G
  <2>. QED
    BY <1>1, <1>5, <1>7, Goes
<1>9. f = [i \in 0..b |-> IF i = 0 THEN x ELSE Step(f[i - 1], i)]
  <2>1. ASSUME NEW i \in 0..b, i # 0 PROVE G[i - 1][f[i - 1]] = Step(f[i - 1], i)
    <3>1. i - 1 \in 0..(b - 1) /\ i - 1 \in 0..b /\ (i - 1) + 1 = i
      BY <1>1, <2>1
    <3>2. f[i - 1] \in S
      BY <1>8, <3>1 DEF GoesOn
    <3>. QED
      BY <3>1, <3>2
  <2>2. f = [i \in 0..b |-> f[i]]
    BY <1>8 DEF GoesOn
  <2>. HIDE DEF G
  <2>3. \A i \in 0..b : f[i] = IF i = 0 THEN x ELSE Step(f[i - 1], i)
    BY <1>8, <2>1 DEF GoesOn
  <2>. QED
    BY <2>2, <2>3
<1>10. At = [i \in 0..b |-> IF i = 0 THEN x ELSE Step(At[i - 1], i)]
  BY <1>9
<1>. HIDE DEF At, G
<1>11. At[0] = x /\ \A i \in 1..b : At[i] = Step(At[i - 1], i)
  <2>1. 0 \in 0..b /\ \A i \in 1..b : i \in 0..b /\ i # 0
    BY <1>1
  <2>. QED
    BY <1>10, <2>1
<1>. DEFINE T == {i \in Nat : PutSoFar(At[i], from + i, capacity, last, To)}
<1>12. 0 \in T
  <2>1. from + 0 = from
    BY <1>1
  <2>. QED
    BY <1>11, <2>1 DEF x
<1>13. ASSUME NEW i \in 0..(b - 1), i \in T PROVE i + 1 \in T
  <2>. DEFINE v == from + i
              j == i + 1
              s == At[i]
  <2>1. j \in 1..b /\ j - 1 = i /\ j \in Nat /\ v \in 0..(n - 1) /\ v + 1 = from + j
    BY <1>1
  <2>2. PutSoFar(s, v, capacity, last, To)
    BY <1>13
  <2>3. At[j] = PutVerse(s, v + 1, VerseOf(data, records, first, v + 1), capacity)
    BY <1>4, <1>11, <2>1 DEF Step
  <2>. HIDE DEF v, j, s
  <2>4. PutSoFar(PutVerse(s, v + 1, VerseOf(data, records, first, v + 1), capacity), v + 1, capacity, last, To)
    BY <2>1, <2>2, VersePut
  <2>5. PutSoFar(At[j], from + j, capacity, last, To)
    BY <2>1, <2>3, <2>4
  <2>. QED
    BY <2>1, <2>5 DEF j
<1>14. b \in T
  <2>1. b \in 0..b
    BY <1>1
  <2>. HIDE DEF T
  <2>2. 0..b \subseteq T
    BY <1>1, <1>12, <1>13, Along
  <2>. QED
    BY <2>1, <2>2
<1>. QED
  BY <1>3, <1>14 DEF b

(* Where the loop over the batches stands.                                 *)
RunState(capacity, n, last, To) ==
  {s \in [finished : 0..n, out : Seq(Bytes), on : BOOLEAN] :
     PutSoFar([out |-> s.out, on |-> s.on], s.finished, capacity, last, To)}

LEMMA BatchNext ==
  ASSUME NEW data, NEW records, NEW first, NEW count, NEW capacity, NEW n, NEW last, NEW To,
         Surah(data, records, first, count, capacity, n, last, To),
         NEW scratch \in Nat, NEW s \in RunState(capacity, n, last, To)
  PROVE  LET t == NextBatch(data, records, first, count, capacity, scratch, s)
         IN /\ t \in RunState(capacity, n, last, To)
            /\ ~s.on => ~t.on
            /\ s.finished >= count => t = s
            /\ s.on /\ s.finished < count => ~t.on \/ t.finished > s.finished
<1>. DEFINE from == s.finished
            want == Lower(count - from, RecordBatch)
            batch == ReadRecordRange(records, first + from, want)
            b == Len(batch)
            r == PutBatch(data, batch, from, s.out, capacity, scratch)
            t == NextBatch(data, records, first, count, capacity, scratch, s)
            on == r.on /\ b = want
<1>1. /\ from \in 0..n /\ s.out \in Seq(Bytes) /\ s.on \in BOOLEAN
      /\ PutSoFar([out |-> s.out, on |-> s.on], from, capacity, last, To)
      /\ s = [finished |-> from, out |-> s.out, on |-> s.on]
  BY DEF RunState
<1>2. n \in Nat /\ n <= count /\ last \in Nat /\ last <= n
  BY SurahIs
<1>3. count \in Nat /\ capacity \in Nat /\ RecordBatch \in Nat \ {0} /\ \A i \in 0..last : To[i] \in Seq(Bytes)
  BY BookTextAssumption DEF Surah
<1>4. t = IF ~s.on \/ from >= count THEN s ELSE [finished |-> from + b, out |-> r.out, on |-> on]
  BY DEF NextBatch
<1>. HIDE DEF t
<1>5. CASE ~s.on \/ from >= count
  <2>1. t = s
    BY <1>4, <1>5
  <2>2. ~ (s.on /\ from < count)
    BY <1>1, <1>2, <1>3, <1>5
  <2>. QED
    BY <2>1, <2>2 DEF t
<1>6. CASE s.on /\ ~ (from >= count)
  <2>. HIDE DEF from
  <2>1. want \in Nat /\ want >= 1 /\ from + want <= count
    <3>1. count - from \in Int /\ RecordBatch \in Int /\ count - from >= 1 /\ RecordBatch >= 1 /\ from \in Nat
      BY <1>1, <1>2, <1>3, <1>6
    <3>. DEFINE left == count - from
    <3>2. left \in Int /\ RecordBatch \in Int => want \in {left, RecordBatch} /\ want <= left
      BY LowerIs
    <3>. HIDE DEF left, want
    <3>3. want \in {left, RecordBatch} /\ want <= left /\ left >= 1 /\ left \in Int /\ left + from = count
      BY <1>3, <3>1, <3>2 DEF left
    <3>. QED
      BY <1>3, <3>1, <3>3
  <2>. HIDE DEF want
  <2>2. /\ batch \in Seq(VerseRecord) /\ b \in Nat /\ b <= want /\ from + b <= n
        /\ b < want => from + b = n
        /\ \A i \in 1..b : batch[i] = records[first + (from + i)]
    BY <1>1, <2>1, BatchIs
  <2>3. PutSoFar([out |-> s.out, on |-> TRUE], from, capacity, last, To)
    <3>1. s.on = TRUE
      BY <1>1, <1>6
    <3>. QED
      BY <1>1, <3>1
  <2>4. PutSoFar(r, from + b, capacity, last, To)
    <3>. DEFINE bb == batch
                o == s.out
    <3>. HIDE DEF batch, o
    <3>1. PutSoFar([out |-> o, on |-> TRUE], from, capacity, last, To)
      BY <2>3 DEF o
    <3>2. PutSoFar(PutBatch(data, batch, from, o, capacity, scratch), from + Len(batch), capacity, last, To)
      BY <1>1, <2>2, <3>1, BatchPut
    <3>. QED
      BY <3>2 DEF o
  <2>. HIDE DEF b, r, batch
  <2>5. r \in PutState(capacity) /\ r.out \in Seq(Bytes) /\ r.on \in BOOLEAN /\ Len(r.out) <= capacity
        /\ r = [out |-> r.out, on |-> r.on]
    BY <2>4 DEF PutSoFar, PutState
  <2>6. on \in BOOLEAN /\ (on => r.on /\ b = want) /\ (~on => ~r.on \/ (r.on /\ b # want))
    BY <2>5
  <2>. HIDE DEF on
  <2>7. t = [finished |-> from + b, out |-> r.out, on |-> on]
    BY <1>4, <1>6
  <2>8. [out |-> r.out, on |-> on] \in PutState(capacity)
    BY <2>5, <2>6 DEF PutState
  <2>9. CASE on
    <3>1. [out |-> r.out, on |-> on] = r
      BY <2>5, <2>6, <2>9
    <3>2. PutSoFar([out |-> r.out, on |-> on], from + b, capacity, last, To)
      BY <2>4, <3>1
    <3>3. from + b > from
      BY <1>1, <1>2, <2>1, <2>2, <2>6, <2>9
    <3>4. from + b \in 0..n
      BY <1>1, <1>2, <2>2
    <3>5. t \in RunState(capacity, n, last, To)
      BY <2>5, <2>6, <2>7, <3>2, <3>4 DEF RunState
    <3>6. t.finished > from
      BY <2>7, <3>3
    <3>. QED
      BY <1>6, <3>5, <3>6 DEF t, from
  <2>10. CASE ~on
    <3>1. r.out = Front(To[last], capacity)
      <4>1. CASE ~r.on
        BY <2>4, <4>1 DEF PutSoFar
      <4>2. CASE r.on /\ b # want
        <5>1. from + b = n /\ from + b <= last /\ r.out = To[from + b]
          <6>1. b < want
            BY <2>1, <2>2, <4>2
          <6>. QED
            BY <2>2, <2>4, <4>2, <6>1 DEF PutSoFar
        <5>2. from + b = last
          BY <1>2, <5>1
        <5>3. r.out = To[last]
          BY <5>1, <5>2
        <5>4. Front(r.out, capacity) = r.out
          BY <1>3, <2>5, FrontIs
        <5>. QED
          BY <5>3, <5>4
      <4>. QED
        BY <2>6, <2>10, <4>1, <4>2
    <3>2. PutSoFar([out |-> r.out, on |-> on], from + b, capacity, last, To)
      BY <2>8, <2>10, <3>1 DEF PutSoFar
    <3>3. from + b \in 0..n
      BY <1>1, <1>2, <2>2
    <3>4. t \in RunState(capacity, n, last, To)
      BY <2>5, <2>6, <2>7, <3>2, <3>3 DEF RunState
    <3>5. ~t.on
      BY <2>7, <2>10
    <3>. QED
      BY <1>6, <3>4, <3>5 DEF t, from
  <2>. QED
    BY <2>9, <2>10
<1>. QED
  BY <1>1, <1>5, <1>6

(* Read in batches or one by one, the verses are the same.                 *)
LEMMA SurahPut ==
  ASSUME NEW data, NEW records, NEW first, NEW count, NEW capacity, NEW n, NEW last, NEW To,
         Surah(data, records, first, count, capacity, n, last, To), NEW scratch \in Nat
  PROVE  AppendTranslationVerses(data, records, first, count, capacity, scratch) = Front(To[last], capacity)
<1>. DEFINE S == RunState(capacity, n, last, To)
            x == [finished |-> 0, out |-> <<>>, on |-> TRUE]
            Step(s) == NextBatch(data, records, first, count, capacity, scratch, s)
            At == CHOOSE At : At = [k \in 0..count |-> IF k = 0 THEN x ELSE Step(At[k - 1])]
            G == [k \in 0..(count - 1) |-> [s \in S |-> Step(s)]]
<1>1. /\ count \in Nat /\ capacity \in Nat /\ To[0] = <<>> /\ \A i \in 0..last : To[i] \in Seq(Bytes)
  BY DEF Surah
<1>2. n \in Nat /\ n <= count /\ last \in Nat /\ last <= n /\ last \in 0..last /\ 0 \in Nat
  BY SurahIs
<1>3. To[last] \in Seq(Bytes)
  BY <1>1, <1>2
<1>4. CASE capacity = 0
  <2>1. AppendTranslationVerses(data, records, first, count, capacity, scratch) = <<>>
    BY <1>4 DEF AppendTranslationVerses
  <2>2. Front(To[last], capacity) \in Seq(Bytes) /\ Len(Front(To[last], capacity)) <= 0
    BY <1>1, <1>3, <1>4, FrontIs
  <2>. DEFINE f == Front(To[last], capacity)
  <2>. HIDE DEF f
  <2>3. f \in Seq(Bytes) /\ Len(f) = 0
    BY <2>2, LenProperties DEF f
  <2>4. f = <<>>
    BY <2>3, EmptySeq
  <2>. QED
    BY <2>1, <2>4 DEF f
<1>5. CASE capacity # 0
  <2>1. AppendTranslationVerses(data, records, first, count, capacity, scratch) = At[count].out
    BY <1>5 DEF AppendTranslationVerses
  <2>2. x \in S
    <3>1. <<>> \in Seq(Bytes) /\ Len(<<>>) = 0 /\ 0 \in 0..n /\ 0 <= last /\ 0 <= capacity
      BY <1>1, <1>2, EmptySeq
    <3>2. [out |-> <<>>, on |-> TRUE] \in PutState(capacity)
      BY <3>1 DEF PutState
    <3>3. PutSoFar([out |-> <<>>, on |-> TRUE], 0, capacity, last, To)
      BY <1>1, <3>1, <3>2 DEF PutSoFar
    <3>. QED
      BY <3>1, <3>3 DEF RunState
  <2>3. \A s \in S : /\ Step(s) \in S /\ s.on \in BOOLEAN /\ s.finished \in 0..n
                     /\ ~s.on => ~Step(s).on
                     /\ s.finished >= count => Step(s) = s
                     /\ s.on /\ s.finished < count => ~Step(s).on \/ Step(s).finished > s.finished
    <3>1. ASSUME NEW s \in S PROVE s.on \in BOOLEAN /\ s.finished \in 0..n
      BY DEF RunState
    <3>. HIDE DEF S
    <3>. QED
      BY <3>1, BatchNext DEF S
  <2>4. ASSUME NEW s \in S, ~s.on \/ s.finished >= count PROVE s.out = Front(To[last], capacity)
    <3>1. /\ PutSoFar([out |-> s.out, on |-> s.on], s.finished, capacity, last, To)
          /\ s.on \in BOOLEAN /\ s.finished \in 0..n /\ s.out \in Seq(Bytes)
      BY DEF RunState
    <3>2. CASE ~s.on
      BY <3>1, <3>2 DEF PutSoFar
    <3>3. CASE s.on /\ s.finished >= count
      <4>. DEFINE o == s.out
                  v == s.finished
      <4>1. v <= last /\ o = To[v] /\ Len(o) <= capacity
        BY <3>1, <3>3 DEF PutSoFar, PutState
      <4>2. v = last
        <5>1. v >= count /\ v \in 0..n
          BY <3>1, <3>3
        <5>. HIDE DEF v
        <5>. QED
          BY <1>1, <1>2, <4>1, <5>1
      <4>3. Front(o, capacity) = o
        BY <1>1, <3>1, <4>1, FrontIs
      <4>. QED
        BY <4>1, <4>2, <4>3
    <3>. QED
      BY <2>4, <3>1, <3>2, <3>3
  <2>. HIDE DEF S, x, Step
  <2>5. G \in [0..(count - 1) -> [S -> S]]
    BY <2>3
  <2>6. PICK f : GoesOn(f, 0, count, S, x, G)
    <3>. HIDE DEF G
    <3>. QED
      BY <1>1, <1>2, <2>2, <2>5, Goes
  <2>7. f = [k \in 0..count |-> IF k = 0 THEN x ELSE Step(f[k - 1])]
    <3>1. ASSUME NEW k \in 0..count, k # 0 PROVE G[k - 1][f[k - 1]] = Step(f[k - 1])
      <4>1. k - 1 \in 0..(count - 1) /\ k - 1 \in 0..count
        BY <1>1, <3>1
      <4>2. f[k - 1] \in S
        BY <2>6, <4>1 DEF GoesOn
      <4>. QED
        BY <4>1, <4>2
    <3>2. f = [k \in 0..count |-> f[k]]
      BY <2>6 DEF GoesOn
    <3>. HIDE DEF G
    <3>3. \A k \in 0..count : f[k] = IF k = 0 THEN x ELSE Step(f[k - 1])
      BY <2>6, <3>1 DEF GoesOn
    <3>. QED
      BY <3>2, <3>3
  <2>8. At = [k \in 0..count |-> IF k = 0 THEN x ELSE Step(At[k - 1])]
    BY <2>7
  <2>. HIDE DEF At, G
  <2>9. At[0] = x /\ \A k \in 1..count : At[k] = Step(At[k - 1])
    <3>1. 0 \in 0..count /\ \A k \in 1..count : k \in 0..count /\ k # 0
      BY <1>1
    <3>. QED
      BY <2>8, <3>1
  <2>. DEFINE T == {k \in Nat : At[k] \in S /\ (~At[k].on \/ At[k].finished >= k)}
  <2>10. 0 \in T
    BY <2>2, <2>9 DEF x
  <2>11. ASSUME NEW k \in 0..(count - 1), k \in T PROVE k + 1 \in T
    <3>. DEFINE s == At[k]
                t == At[k + 1]
    <3>1. k + 1 \in 1..count /\ (k + 1) - 1 = k /\ k \in Nat /\ k + 1 \in Nat /\ k < count
      BY <1>1
    <3>2. s \in S /\ (~s.on \/ s.finished >= k) /\ t = Step(s)
      BY <2>9, <2>11, <3>1
    <3>. HIDE DEF s, t
    <3>3. t \in S /\ s.finished \in Nat /\ t.finished \in Nat
      <4>1. t \in S
        BY <2>3, <3>2
      <4>2. s.finished \in 0..n /\ t.finished \in 0..n
        BY <2>3, <3>2, <4>1
      <4>. QED
        BY <1>2, <4>1, <4>2
    <3>4. ~t.on \/ t.finished >= k + 1
      <4>1. CASE ~s.on
        BY <2>3, <3>2, <4>1
      <4>2. CASE s.on /\ s.finished >= count
        <5>1. t = s
          BY <2>3, <3>2, <4>2
        <5>2. t.finished >= count
          BY <4>2, <5>1
        <5>. QED
          BY <1>1, <3>1, <3>3, <5>2
      <4>3. CASE s.on /\ ~ (s.finished >= count)
        <5>1. s.finished < count
          BY <1>1, <3>3, <4>3
        <5>2. ~t.on \/ t.finished > s.finished
          BY <2>3, <3>2, <4>3, <5>1
        <5>3. s.finished >= k
          BY <3>2, <4>3
        <5>. QED
          BY <3>1, <3>3, <5>2, <5>3
      <4>. QED
        BY <4>1, <4>2, <4>3
    <3>. QED
      BY <3>1, <3>3, <3>4 DEF t
  <2>12. count \in T
    <3>1. count \in 0..count
      BY <1>1
    <3>. HIDE DEF T
    <3>2. 0..count \subseteq T
      BY <1>1, <1>2, <2>10, <2>11, Along
    <3>. QED
      BY <3>1, <3>2
  <2>13. At[count].out = Front(To[last], capacity)
    BY <2>4, <2>12
  <2>. QED
    BY <2>1, <2>13
<1>. QED
  BY <1>4, <1>5

(* The verses one by one.                                                  *)
LEMMA OneByOneIs ==
  ASSUME NEW n \in Nat, \A i \in 1..n : VerseNumber(i) \in Seq(Bytes) /\ VerseBytes(i) \in Seq(Bytes)
  PROVE  \E To : /\ OneByOne(n) = To[n] /\ To[0] = <<>>
                 /\ \A i \in 0..n : To[i] \in Seq(Bytes)
                 /\ \A i \in 1..n : To[i] = To[i - 1] \o Piece(i, VerseBytes(i))
<1>. DEFINE S == Seq(Bytes)
            x == <<>>
            P(i) == Piece(i, VerseBytes(i))
            To == CHOOSE To : To = [i \in 0..n |-> IF i = 0 THEN <<>> ELSE To[i - 1] \o P(i)]
            G == [i \in 0..(n - 1) |-> [s \in S |-> s \o P(i + 1)]]
<1>1. x \in S /\ 0 \in Nat
  BY EmptySeq
<1>2. OneByOne(n) = To[n]
  BY DEF OneByOne, Piece
<1>3. ASSUME NEW i \in 1..n, NEW s \in S PROVE s \o P(i) \in S
  <2>1. P(i) \in S
    BY PieceIs
  <2>. HIDE DEF P
  <2>. QED
    BY <2>1, ConcatProperties
<1>. HIDE DEF S, P, x
<1>4. G \in [0..(n - 1) -> [S -> S]]
  <2>1. \A i \in 0..(n - 1) : i + 1 \in 1..n
    OBVIOUS
  <2>. QED
    BY <1>3, <2>1
<1>5. PICK f : GoesOn(f, 0, n, S, x, G)
  <2>. HIDE DEF G
  <2>. QED
    BY <1>1, <1>4, Goes
<1>6. f = [i \in 0..n |-> IF i = 0 THEN <<>> ELSE f[i - 1] \o P(i)]
  <2>1. ASSUME NEW i \in 0..n, i # 0 PROVE G[i - 1][f[i - 1]] = f[i - 1] \o P(i)
    <3>1. i - 1 \in 0..(n - 1) /\ i - 1 \in 0..n /\ (i - 1) + 1 = i
      BY <2>1
    <3>2. f[i - 1] \in S
      BY <1>5, <3>1 DEF GoesOn
    <3>. QED
      BY <3>1, <3>2
  <2>2. f = [i \in 0..n |-> f[i]]
    BY <1>5 DEF GoesOn
  <2>. HIDE DEF G
  <2>3. \A i \in 0..n : f[i] = IF i = 0 THEN <<>> ELSE f[i - 1] \o P(i)
    BY <1>5, <2>1 DEF GoesOn, x
  <2>. QED
    BY <2>2, <2>3
<1>7. To = [i \in 0..n |-> IF i = 0 THEN <<>> ELSE To[i - 1] \o P(i)]
  BY <1>6
<1>. HIDE DEF To, G
<1>8. To[0] = <<>> /\ \A i \in 1..n : To[i] = To[i - 1] \o P(i)
  <2>1. 0 \in 0..n /\ \A i \in 1..n : i \in 0..n /\ i # 0
    OBVIOUS
  <2>. QED
    BY <1>7, <2>1
<1>. DEFINE T == {i \in Nat : To[i] \in S}
<1>9. 0 \in T
  BY <1>1, <1>8 DEF x
<1>10. ASSUME NEW i \in 0..(n - 1), i \in T PROVE i + 1 \in T
  <2>1. i + 1 \in 1..n /\ (i + 1) - 1 = i /\ i + 1 \in Nat
    OBVIOUS
  <2>. QED
    BY <1>3, <1>8, <1>10, <2>1
<1>11. 0..n \subseteq T
  <2>. HIDE DEF T
  <2>. QED
    BY <1>1, <1>9, <1>10, Along
<1>12. \A i \in 0..n : To[i] \in S
  BY <1>11
<1>. QED
  BY <1>2, <1>8, <1>12 DEF S, P

LEMMA VersesWhole ==
  ASSUME job \in VerseJob, \A i \in 1..job.count : VerseNumber(i) \in Seq(Bytes)
  PROVE  LET n == Lower(job.count, IF job.first > Len(job.records) THEN 0 ELSE Len(job.records) - job.first)
             failing == {i \in 1..n : VerseBytes(i) = Failed}
             last    == IF failing = {} THEN n ELSE (CHOOSE i \in failing : \A j \in failing : i <= j) - 1
         IN AppendTranslationVerses(job.data, job.records, job.first, job.count, job.capacity, job.scratch)
              = Front(OneByOne(last), job.capacity)
<1>. DEFINE data == job.data
            records == job.records
            first == job.first
            count == job.count
            capacity == job.capacity
            scratch == job.scratch
            l == Len(records)
            there == IF first > l THEN 0 ELSE l - first
            n == Lower(count, there)
            failing == {i \in 1..n : VerseBytes(i) = Failed}
            least == CHOOSE i \in failing : \A j \in failing : i <= j
            last == IF failing = {} THEN n ELSE least - 1
<1>1. /\ data \in Seq(Bytes) /\ records \in Seq(VerseRecord) /\ first \in Nat /\ count \in Nat
      /\ capacity \in Nat /\ scratch \in Nat
  BY DEF VerseJob, VerseRecord
<1>2. \A i \in 1..count : VerseNumber(i) \in Seq(Bytes)
  OBVIOUS
<1>3. \A i : VerseBytes(i) = VerseOf(data, records, first, i)
  BY DEF VerseBytes, VerseOf, BytesOf
<1>. HIDE DEF data, records, first, count, capacity, scratch
<1>4. l \in Nat
  BY <1>1, LenProperties
<1>. HIDE DEF l
<1>5. there \in Nat /\ (there = 0 \/ first + there = l)
  BY <1>1, <1>4
<1>6. n = Lower(count, IF first > Len(records) THEN 0 ELSE Len(records) - first)
  BY DEF l
<1>. HIDE DEF there
<1>7. n \in Nat /\ n <= count /\ n <= there
  BY <1>1, <1>5, LowerIs
<1>. HIDE DEF n
<1>8. /\ last \in 0..n
      /\ \A i \in 1..last : VerseBytes(i) # Failed
      /\ last < n => VerseBytes(last + 1) = Failed
  <2>1. CASE failing = {}
    <3>1. last = n
      BY <2>1
    <3>2. \A i \in 1..n : VerseBytes(i) # Failed
      BY <2>1
    <3>. HIDE DEF last
    <3>. QED
      BY <1>7, <3>1, <3>2
  <2>2. CASE failing # {}
    <3>1. failing \in SUBSET Nat
      BY <1>7
    <3>2. \A i \in failing : i \in 1..n /\ VerseBytes(i) = Failed
      OBVIOUS
    <3>3. \A i \in 1..n : i \notin failing => VerseBytes(i) # Failed
      OBVIOUS
    <3>4. last = least - 1
      BY <2>2
    <3>. HIDE DEF failing, last
    <3>5. \E m \in failing : \A j \in failing : m <= j
      BY <2>2, <3>1, LeastNumber
    <3>6. least \in failing /\ \A j \in failing : least <= j
      BY <3>5
    <3>. HIDE DEF least
    <3>7. least \in 1..n /\ VerseBytes(least) = Failed
      BY <3>2, <3>6
    <3>8. last \in 0..n /\ last + 1 = least /\ last \in Nat /\ last < least
      BY <1>7, <3>4, <3>7
    <3>9. ASSUME NEW i \in 1..last PROVE VerseBytes(i) # Failed
      <4>1. i \in 1..n /\ ~ (least <= i)
        BY <1>7, <3>7, <3>8
      <4>. QED
        BY <3>3, <3>6, <4>1
    <3>. QED
      BY <3>7, <3>8, <3>9
  <2>. QED
    BY <2>1, <2>2
<1>. HIDE DEF last
<1>9. last \in Nat /\ last <= n
  BY <1>7, <1>8
<1>10. ASSUME NEW i \in 1..last PROVE VerseNumber(i) \in Seq(Bytes) /\ VerseBytes(i) \in Seq(Bytes)
  <2>1. i \in 1..count /\ first + i \in 1..l
    BY <1>1, <1>4, <1>5, <1>7, <1>9
  <2>2. records[first + i] \in VerseRecord
    BY <1>1, <2>1, ElementOfSeq DEF l
  <2>3. VerseBytes(i) \in Seq(Bytes) \cup {Failed}
    BY <1>1, <1>3, <2>2, TextTyped DEF VerseOf
  <2>4. VerseBytes(i) # Failed
    BY <1>8
  <2>. QED
    BY <1>2, <2>1, <2>3, <2>4
<1>11. PICK To : /\ OneByOne(last) = To[last] /\ To[0] = <<>>
                 /\ \A i \in 0..last : To[i] \in Seq(Bytes)
                 /\ \A i \in 1..last : To[i] = To[i - 1] \o Piece(i, VerseBytes(i))
  BY <1>9, <1>10, OneByOneIs
<1>12. Surah(data, records, first, count, capacity, n, last, To)
  <2>1. /\ \A i \in 1..last : VerseOf(data, records, first, i) # Failed
        /\ last < n => VerseOf(data, records, first, last + 1) = Failed
        /\ \A i \in 1..last : To[i] = To[i - 1] \o Piece(i, VerseOf(data, records, first, i))
    BY <1>3, <1>8, <1>11
  <2>. QED
    BY <1>1, <1>2, <1>6, <1>8, <1>11, <2>1 DEF Surah
<1>13. AppendTranslationVerses(data, records, first, count, capacity, scratch) = Front(To[last], capacity)
  BY <1>1, <1>12, SurahPut
<1>14. AppendTranslationVerses(data, records, first, count, capacity, scratch) = Front(OneByOne(last), capacity)
  BY <1>11, <1>13
<1>. QED
  BY <1>14, Zenon DEF last, least, failing, n, there, l, data, records, first, count, capacity, scratch

-----------------------------------------------------------------------------
(* Text, whole                                                             *)

(* What is there when a job is done is what its bytes are made into.       *)
JobInv ==
  /\ job \in Jobs /\ done \in BOOLEAN
  /\ done =>
       \/ job.kind = "fold" /\ result = FoldToAscii(job.text, job.capacity)
       \/ job.kind = "load" /\ result = LoadBookText(job.records, job.capacity)
       \/ /\ job.kind = "verses"
          /\ result = AppendTranslationVerses(job.data, job.records, job.first, job.count,
                                              job.capacity, job.scratch)
       \/ job.kind = "unpack" /\ result = UnpackBits(job.src, job.length)

LEMMA JobTyped ==
  ASSUME job \in Jobs
  PROVE  /\ job.kind = "fold" => job.text \in Seq(Bytes) /\ job.capacity \in Nat
         /\ job.kind = "load" => job.records \in Seq(BookRecord) /\ job.capacity \in Nat
         /\ job.kind = "verses" => job \in VerseJob /\ \A i \in 1..job.count : VerseNumber(i) \in Seq(Bytes)
         /\ job.kind = "unpack" => job.src \in Seq(0..(2 * Half - 1)) /\ job.length \in Nat
<1>1. job \in FoldJob \/ job \in LoadJob \/ job \in VerseJob \/ job \in UnpackJob
  BY BookTextAssumption
<1>2. job.kind = "verses" => \A i \in 1..job.count : VerseNumber(i) \in Seq(Bytes)
  BY BookTextAssumption
<1>3. job \in FoldJob => job.kind = "fold" /\ job.text \in Seq(Bytes) /\ job.capacity \in Nat
  BY DEF FoldJob
<1>4. job \in LoadJob => job.kind = "load" /\ job.records \in Seq(BookRecord) /\ job.capacity \in Nat
  BY DEF LoadJob, BookRecord
<1>5. job \in VerseJob => job.kind = "verses"
  BY DEF VerseJob
<1>6. job \in UnpackJob => job.kind = "unpack" /\ job.src \in Seq(0..(2 * Half - 1)) /\ job.length \in Nat
  BY DEF UnpackJob
<1>. QED
  BY <1>1, <1>2, <1>3, <1>4, <1>5, <1>6

(* Everything made of a package's bytes is made of all of them: a book     *)
(* loaded without an error is whole and one cut is its beginning, a        *)
(* surah's verses are those read one by one, folding loses its place       *)
(* nowhere, and a page comes out exactly or not at all, for every text,    *)
(* record and buffer size.                                                 *)
THEOREM TextAlwaysWhole == BookTextSpec => []TextWhole
<1>1. BookTextInit => JobInv
  BY DEF BookTextInit, JobInv
<1>2. JobInv /\ [BookTextNext]_jobVars => JobInv'
  <2>. SUFFICES ASSUME JobInv, [BookTextNext]_jobVars PROVE JobInv'
    OBVIOUS
  <2>1. CASE Do
    BY <2>1 DEF JobInv, Do, Fold, Load, AppendVerses, Unpack
  <2>2. CASE Reuse
    BY <2>2 DEF JobInv, Reuse
  <2>3. CASE UNCHANGED jobVars
    BY <2>3 DEF JobInv, jobVars
  <2>. QED
    BY <2>1, <2>2, <2>3 DEF BookTextNext
<1>3. JobInv => TextWhole
  <2>. SUFFICES ASSUME JobInv PROVE TextWhole
    OBVIOUS
  <2>1. job \in Jobs
    BY DEF JobInv
  <2>2. LoadsWhole
    <3>. SUFFICES ASSUME job.kind = "load", done PROVE LoadsWhole
      BY DEF LoadsWhole
    <3>1. result = LoadBookText(job.records, job.capacity)
      BY DEF JobInv
    <3>2. job.records \in Seq(BookRecord) /\ job.capacity \in Nat
      BY <2>1, JobTyped
    <3>. QED
      BY <3>1, <3>2, BookLoaded DEF LoadsWhole
  <2>3. VersesAsRead
    <3>. SUFFICES ASSUME job.kind = "verses", done PROVE VersesAsRead
      BY DEF VersesAsRead
    <3>1. result = AppendTranslationVerses(job.data, job.records, job.first, job.count,
                                           job.capacity, job.scratch)
      BY DEF JobInv
    <3>2. job \in VerseJob /\ \A i \in 1..job.count : VerseNumber(i) \in Seq(Bytes)
      BY <2>1, JobTyped
    <3>. QED
      BY <3>1, <3>2, VersesWhole DEF VersesAsRead
  <2>4. FoldsInPlace
    <3>. SUFFICES ASSUME job.kind = "fold", done PROVE FoldsInPlace
      BY DEF FoldsInPlace
    <3>1. result = FoldToAscii(job.text, job.capacity)
      BY DEF JobInv
    <3>2. job.text \in Seq(Bytes) /\ job.capacity \in Nat
      BY <2>1, JobTyped
    <3>. QED
      BY <3>1, <3>2, FoldsWhole DEF FoldsInPlace
  <2>5. UnpacksExactly
    <3>. SUFFICES ASSUME job.kind = "unpack", done PROVE UnpacksExactly
      BY DEF UnpacksExactly
    <3>1. result = UnpackBits(job.src, job.length)
      BY DEF JobInv
    <3>2. job.src \in Seq(0..(2 * Half - 1)) /\ job.length \in Nat
      BY <2>1, JobTyped
    <3>. QED
      BY <3>1, <3>2, PageUnpacked DEF UnpacksExactly, PackedBytes
  <2>. QED
    BY <2>2, <2>3, <2>4, <2>5 DEF TextWhole
<1>. QED
  BY <1>1, <1>2, <1>3, PTL DEF BookTextSpec
=============================================================================
