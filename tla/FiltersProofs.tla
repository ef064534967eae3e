----------------------------- MODULE FiltersProofs ----------------------------
(***************************************************************************)
(* Proofs about the filters (Filters), for any rules, listeners, ports,    *)
(* sizes of the table and numbers of requests and replies under way: the   *)
(* tables agree whatever users do, and of users that wait for what is      *)
(* under way the hardware agrees too.                                      *)
(***************************************************************************)
EXTENDS TidsProofs, Filters, SequenceTheorems

(***************************************************************************)
(* Filters: the tables                                                     *)
(***************************************************************************)
Ids == 0 .. Ftids - 1
LiveFlt == [live : {TRUE}, tid : Ids, pending : BOOLEAN, valid : BOOLEAN,
            ctx : BOOLEAN, locked : BOOLEAN]
FtidsType ==
  /\ TableType(ftids) /\ ftids.start = 0 /\ ftids.size = Ftids /\ ftids.max = FtidRange
  /\ ftids.tab \in [DOMAIN ftids.tab -> Flts] /\ DOMAIN ftids.tab \subseteq Ids
FltsType == flt \in [Flts -> LiveFlt \cup {NoFlt}]

(* The table names the filters that there are, each under its identifier.  *)
NamesOK ==
  /\ \A i \in DOMAIN ftids.tab : flt[ftids.tab[i]].live /\ flt[ftids.tab[i]].tid = i
  /\ \A f \in Flts : flt[f].live =>
       flt[f].tid \in DOMAIN ftids.tab /\ ftids.tab[flt[f].tid] = f

(* The slots taken are those of the filters, which share none.             *)
FltSlots(f) == IF WideF(f) THEN FtidRange ELSE 1
FtidSlots(i) == Region(i, FltSlots(ftids.tab[i]))
FtidRanges == {i \in DOMAIN ftids.tab : WideF(ftids.tab[i])}
FtidSlotsOK ==
  /\ ftids.bits = UNION {FtidSlots(i) : i \in DOMAIN ftids.tab}
  /\ \A i, j \in DOMAIN ftids.tab : i # j => FtidSlots(i) \cap FtidSlots(j) = {}
  /\ ftids.in_use = Cardinality(DOMAIN ftids.tab \ FtidRanges)
  /\ ftids.range_in_use = FtidRange * Cardinality(FtidRanges)

(* The references counted are those of the filters.                        *)
Having(S) == {f \in S : flt[f].live}
RefsOK ==
  /\ refs \in [{"l2t", "clip"} -> Int]
  /\ IsFiniteSet(Having(Flts)) /\ RefsAgree

TablesInv == FtidsType /\ FltsType /\ NamesOK /\ FtidSlotsOK /\ RefsOK

LEMMA AlignedTwice ==
  ASSUME NEW x \in Nat, NEW n \in Nat \ {0}
  PROVE  /\ x - (x % n) \in 0 .. x /\ (x - (x % n)) % n = 0
<1> DEFINE q == x \div n
           y == x - (x % n)
           r == y \div n
<1>1. x % n \in 0 .. n - 1 /\ q \in Int /\ x = n * q + (x % n)
  OBVIOUS
<1>2. y = n * q /\ y \in Int
  BY <1>1
<1>3. x % n <= x
  BY SMTT(30)
<1> HIDE DEF q, y
<1>4. y % n \in 0 .. n - 1 /\ r \in Int /\ y = n * r + (y % n)
  BY <1>2
<1> HIDE DEF r
<1> DEFINE d == q - r
<1>5. y % n = n * d /\ d \in Int
  BY <1>1, <1>2, <1>4
<1> HIDE DEF d
<1>6. d = 0
  <2>1. CASE d >= 1
    <3>1. n * d >= n
      BY <1>5, <2>1
    <3> QED
      BY <3>1, <1>4, <1>5
  <2>2. CASE d <= -1
    <3>1. n * d <= -n
      BY <1>5, <2>2
    <3> QED
      BY <3>1, <1>4, <1>5
  <2> QED
    BY <2>1, <2>2, <1>5
<1>7. y % n = 0
  BY <1>5, <1>6
<1> QED
  BY <1>1, <1>3, <1>7 DEF y

LEMMA FilterFacts ==
  /\ Ftids \in Nat /\ Sftids \in 0 .. Ftids /\ FtidRange \in Nat \ {0}
  /\ \A f : FltSlots(f) \in Nat \ {0}
  /\ Rewriters \subseteq Flts /\ Wides \subseteq Flts
BY FiltersAssumption DEF FiltersAssumption, FltSlots, Flts

LEMMA FtidsFinite ==
  ASSUME FtidsType
  PROVE  /\ IsFiniteSet(DOMAIN ftids.tab) /\ IsFiniteSet(FtidRanges)
         /\ IsFiniteSet(DOMAIN ftids.tab \ FtidRanges)
<1>1. IsFiniteSet(Ids)
  BY FilterFacts, FS_Interval DEF Ids
<1>2. DOMAIN ftids.tab \in SUBSET Ids
  BY DEF FtidsType
<1>3. IsFiniteSet(DOMAIN ftids.tab)
  BY <1>1, <1>2, FS_Subset
<1>4. FtidRanges \in SUBSET DOMAIN ftids.tab
      /\ DOMAIN ftids.tab \ FtidRanges \in SUBSET DOMAIN ftids.tab
  BY DEF FtidRanges
<1> QED
  BY <1>3, <1>4, FS_Subset

(* A filter enters the table, with its slots;                              *)
LEMMA FtidEnters ==
  ASSUME FtidsType, FtidSlotsOK, NEW f \in Flts, NEW o \in Ids,
         o \notin DOMAIN ftids.tab, Region(o, FltSlots(f)) \cap ftids.bits = {},
         ftids' = Take(ftids, o, f, WideF(f))
  PROVE  /\ FtidsType' /\ FtidSlotsOK'
         /\ DOMAIN ftids'.tab = DOMAIN ftids.tab \cup {o}
         /\ \A i \in DOMAIN ftids'.tab : ftids'.tab[i] = IF i = o THEN f ELSE ftids.tab[i]
<1>2. /\ ftids.start = 0 /\ ftids.size = Ftids /\ ftids.max = FtidRange /\ TableType(ftids)
      /\ ftids.in_use \in Int /\ ftids.range_in_use \in Int
  BY DEF FtidsType, TableType
<1>3. /\ o \in Nat /\ o \in Int /\ 0 + o = o /\ FtidRange \in Nat \ {0}
      /\ Width(ftids, WideF(f)) = FltSlots(f)
  BY <1>2, FilterFacts DEF Ids, Width, FltSlots
<1> DEFINE k == IF WideF(f) THEN 0 ELSE 1
           l == IF WideF(f) THEN FtidRange ELSE 0
<1>6. ftids' = WithSlots(ftids, o, f, FltSlots(f), k, l)
  <2>1. CASE WideF(f)
    <3>1. ftids' = [ftids EXCEPT !.bits = @ \cup Region(o, FltSlots(f)),
                               !.tab = [i \in DOMAIN @ \cup {ftids.start + o} |->
                                          IF i = ftids.start + o THEN f ELSE @[i]],
                               !.in_use = @, !.range_in_use = @ + FltSlots(f)]
      BY <1>3, <2>1 DEF Take
    <3>2. ftids.in_use = ftids.in_use + 0 /\ FltSlots(f) = FtidRange /\ k = 0 /\ l = FtidRange
      BY <1>2, <2>1 DEF FltSlots
    <3> QED
      BY <3>1, <3>2 DEF WithSlots
  <2>2. CASE ~WideF(f)
    <3>1. ftids' = [ftids EXCEPT !.bits = @ \cup Region(o, FltSlots(f)),
                               !.tab = [i \in DOMAIN @ \cup {ftids.start + o} |->
                                          IF i = ftids.start + o THEN f ELSE @[i]],
                               !.in_use = @ + 1, !.range_in_use = @]
      BY <1>3, <2>2 DEF Take
    <3>2. ftids.range_in_use = ftids.range_in_use + 0 /\ k = 1 /\ l = 0
      BY <1>2, <2>2
    <3> QED
      BY <3>1, <3>2 DEF WithSlots
  <2> QED
    BY <2>1, <2>2
<1>7. k \in Int /\ l \in Int /\ FltSlots(f) \in Nat
  BY <1>3, FilterFacts
<1> HIDE DEF k, l
<1>8. Took(ftids, ftids', o, f, FltSlots(f), k, l)
  BY <1>2, <1>3, <1>6, <1>7, Taken
<1>9. /\ DOMAIN ftids'.tab = DOMAIN ftids.tab \cup {o}
      /\ \A i \in DOMAIN ftids'.tab : ftids'.tab[i] = IF i = o THEN f ELSE ftids.tab[i]
      /\ ftids'.tab = [i \in DOMAIN ftids.tab \cup {o} |->
                       IF i = o THEN f ELSE ftids.tab[i]]
  BY <1>2, <1>3, <1>8 DEF Took
<1>10. FtidsType'
  <2>1. \A i \in DOMAIN ftids.tab : i \in Ids /\ ftids.tab[i] \in Flts
    BY DEF FtidsType
  <2>2. /\ TableType(ftids') /\ ftids'.start = 0 /\ ftids'.size = Ftids
        /\ ftids'.max = FtidRange
    BY <1>2, <1>8 DEF Took
  <2>3. ftids'.tab \in [DOMAIN ftids'.tab -> Flts] /\ DOMAIN ftids'.tab \subseteq Ids
    BY <1>9, <2>1
  <2> QED
    BY <2>2, <2>3 DEF FtidsType
<1>11. /\ \A i \in DOMAIN ftids.tab : FtidSlots(i)' = FtidSlots(i)
       /\ FtidSlots(o)' = Region(o, FltSlots(f))
  BY <1>9 DEF FtidSlots
<1>12. ftids'.bits = UNION {FtidSlots(i)' : i \in DOMAIN ftids'.tab}
  <2>1. ftids'.bits = ftids.bits \cup Region(o, FltSlots(f))
    BY <1>8 DEF Took
  <2> QED
    BY <1>9, <1>11, <2>1 DEF FtidSlotsOK
<1>13. ASSUME NEW i \in DOMAIN ftids'.tab, NEW j \in DOMAIN ftids'.tab, i # j
       PROVE  FtidSlots(i)' \cap FtidSlots(j)' = {}
  <2>1. \A h \in DOMAIN ftids.tab : FtidSlots(h) \subseteq ftids.bits
    BY DEF FtidSlotsOK
  <2>2. CASE i = o
    <3>1. j \in DOMAIN ftids.tab
      BY <1>9, <1>13, <2>2
    <3> QED
      BY <1>11, <2>1, <2>2, <3>1
  <2>3. CASE j = o
    <3>1. i \in DOMAIN ftids.tab
      BY <1>9, <1>13, <2>3
    <3> QED
      BY <1>11, <2>1, <2>3, <3>1
  <2>4. CASE i # o /\ j # o
    <3>1. i \in DOMAIN ftids.tab /\ j \in DOMAIN ftids.tab
      BY <1>9, <2>4
    <3> QED
      BY <1>11, <1>13, <3>1 DEF FtidSlotsOK
  <2> QED
    BY <2>2, <2>3, <2>4
<1>14. /\ ftids'.in_use = Cardinality(DOMAIN ftids'.tab \ FtidRanges')
       /\ ftids'.range_in_use = FtidRange * Cardinality(FtidRanges')
  <2> DEFINE S == DOMAIN ftids.tab \ FtidRanges
  <2>1. /\ ftids'.in_use = Cardinality(S) + k
        /\ ftids'.range_in_use = FtidRange * Cardinality(FtidRanges) + l
    BY <1>8 DEF Took, FtidSlotsOK
  <2>2. /\ IsFiniteSet(FtidRanges) /\ IsFiniteSet(S) /\ o \notin FtidRanges /\ o \notin S
    BY FtidsFinite DEF FtidRanges
  <2>3. Cardinality(S) \in Nat /\ Cardinality(FtidRanges) \in Nat
    BY <2>2, FS_CardinalityType
  <2>4. CASE WideF(f)
    <3>1. FtidRanges' = FtidRanges \cup {o} /\ DOMAIN ftids'.tab \ FtidRanges' = S
      BY <1>9, <2>4 DEF FtidRanges, WideF
    <3>2. Cardinality(FtidRanges') = Cardinality(FtidRanges) + 1
      BY <2>2, <3>1, FS_AddElement
    <3>3. k = 0 /\ l = FtidRange
      BY <2>4 DEF k, l
    <3>4. FtidRange * (Cardinality(FtidRanges) + 1) = FtidRange * Cardinality(FtidRanges) + FtidRange
      BY <1>3, <2>3
    <3>5. ftids'.in_use = Cardinality(S)
      BY <2>1, <2>3, <3>3
    <3>6. ftids'.range_in_use = FtidRange * (Cardinality(FtidRanges) + 1)
      BY <2>1, <3>3, <3>4
    <3> QED
      BY <3>1, <3>2, <3>5, <3>6
  <2>5. CASE ~WideF(f)
    <3>1. FtidRanges' = FtidRanges /\ DOMAIN ftids'.tab \ FtidRanges' = S \cup {o}
      BY <1>9, <2>5 DEF FtidRanges, WideF
    <3>2. Cardinality(DOMAIN ftids'.tab \ FtidRanges') = Cardinality(S) + 1
      BY <2>2, <3>1, FS_AddElement
    <3>3. k = 1 /\ l = 0
      BY <2>5 DEF k, l
    <3>4. FtidRange * Cardinality(FtidRanges) \in Int
      BY <1>3, <2>3
    <3>5. ftids'.in_use = Cardinality(S) + 1
      BY <2>1, <3>3
    <3>6. ftids'.range_in_use = FtidRange * Cardinality(FtidRanges)
      BY <2>1, <3>3, <3>4
    <3> QED
      BY <3>1, <3>2, <3>5, <3>6
  <2> QED
    BY <2>4, <2>5
<1> QED
  BY <1>9, <1>10, <1>12, <1>13, <1>14 DEF FtidSlotsOK

(* and leaves it, with all of them.                                        *)
LEMMA FtidLeaves ==
  ASSUME FtidsType, FtidSlotsOK, NEW j \in DOMAIN ftids.tab, NEW f, f = ftids.tab[j],
         ftids' = FreeId(ftids, j, WideF(f))
  PROVE  /\ FtidsType' /\ FtidSlotsOK'
         /\ DOMAIN ftids'.tab = DOMAIN ftids.tab \ {j}
         /\ \A i \in DOMAIN ftids'.tab : ftids'.tab[i] = ftids.tab[i]
<1>1. j \in Ids /\ j \in Int /\ j - 0 = j
  BY FilterFacts DEF FtidsType, Ids
<1>2. /\ ftids.start = 0 /\ ftids.size = Ftids /\ ftids.max = FtidRange /\ TableType(ftids)
      /\ ftids.in_use \in Int /\ ftids.range_in_use \in Int
  BY DEF FtidsType, TableType
<1>3. FtidRange \in Nat \ {0}
  BY FilterFacts
<1> DEFINE k == IF WideF(f) THEN 0 ELSE 1
           l == IF WideF(f) THEN FtidRange ELSE 0
<1>4. ftids' = WithoutSlots(ftids, j, FltSlots(f), k, l)
  <2>1. CASE WideF(f)
    <3>1. FreeId(ftids, j, TRUE) = WithoutSlots(ftids, j, FtidRange, 0, FtidRange)
      BY <1>2, FreedRange
    <3>2. FreeId(ftids, j, WideF(f)) = FreeId(ftids, j, TRUE)
      BY <2>1 DEF FreeId, Width
    <3> QED
      BY <2>1, <3>1, <3>2 DEF FltSlots
  <2>2. CASE ~WideF(f)
    <3>1. FreeId(ftids, j, FALSE) = WithoutSlots(ftids, j, 1, 1, 0)
      BY <1>2, FreedOne
    <3>2. FreeId(ftids, j, WideF(f)) = FreeId(ftids, j, FALSE)
      BY <2>2 DEF FreeId, Width
    <3> QED
      BY <2>2, <3>1, <3>2 DEF FltSlots
  <2> QED
    BY <2>1, <2>2
<1>5. k \in Int /\ l \in Int /\ FltSlots(f) \in Nat
  BY <1>3, FilterFacts
<1> HIDE DEF k, l
<1>6. Gave(ftids, ftids', j, FltSlots(f), k, l)
  BY <1>2, <1>4, <1>5, Freed
<1>7. /\ DOMAIN ftids'.tab = DOMAIN ftids.tab \ {j}
      /\ \A i \in DOMAIN ftids'.tab : ftids'.tab[i] = ftids.tab[i]
      /\ ftids'.tab = [i \in DOMAIN ftids.tab \ {j} |-> ftids.tab[i]]
  BY <1>6 DEF Gave
<1>8. FtidsType'
  <2>1. \A i \in DOMAIN ftids.tab : i \in Ids /\ ftids.tab[i] \in Flts
    BY DEF FtidsType
  <2>2. /\ TableType(ftids') /\ ftids'.start = 0 /\ ftids'.size = Ftids
        /\ ftids'.max = FtidRange
    BY <1>2, <1>6 DEF Gave
  <2>3. ftids'.tab \in [DOMAIN ftids'.tab -> Flts] /\ DOMAIN ftids'.tab \subseteq Ids
    BY <1>7, <2>1
  <2> QED
    BY <2>2, <2>3 DEF FtidsType
<1>9. \A i \in DOMAIN ftids'.tab : FtidSlots(i)' = FtidSlots(i)
  BY <1>7 DEF FtidSlots
<1>10. ftids'.bits = UNION {FtidSlots(i)' : i \in DOMAIN ftids'.tab}
  <2>1. ftids'.bits = ftids.bits \ FtidSlots(j)
    BY <1>1, <1>2, <1>6 DEF Gave, FtidSlots
  <2>2. \A i \in DOMAIN ftids'.tab : FtidSlots(i) \cap FtidSlots(j) = {}
    BY <1>7 DEF FtidSlotsOK
  <2> QED
    BY <1>7, <1>9, <2>1, <2>2 DEF FtidSlotsOK
<1>11. \A i, h \in DOMAIN ftids'.tab : i # h => FtidSlots(i)' \cap FtidSlots(h)' = {}
  BY <1>7, <1>9 DEF FtidSlotsOK
<1>12. /\ ftids'.in_use = Cardinality(DOMAIN ftids'.tab \ FtidRanges')
       /\ ftids'.range_in_use = FtidRange * Cardinality(FtidRanges')
  <2> DEFINE S == DOMAIN ftids.tab \ FtidRanges
  <2>1. /\ ftids'.in_use = Cardinality(S) - k
        /\ ftids'.range_in_use = FtidRange * Cardinality(FtidRanges) - l
    BY <1>6 DEF Gave, FtidSlotsOK
  <2>2. IsFiniteSet(FtidRanges) /\ IsFiniteSet(S)
    BY FtidsFinite
  <2>3. Cardinality(S) \in Nat /\ Cardinality(FtidRanges) \in Nat
    BY <2>2, FS_CardinalityType
  <2>4. CASE WideF(f)
    <3>1. /\ j \in FtidRanges /\ FtidRanges' = FtidRanges \ {j}
          /\ DOMAIN ftids'.tab \ FtidRanges' = S
      BY <1>7, <2>4 DEF FtidRanges, WideF
    <3>2. Cardinality(FtidRanges') = Cardinality(FtidRanges) - 1
      BY <2>2, <3>1, FS_RemoveElement
    <3>3. k = 0 /\ l = FtidRange
      BY <2>4 DEF k, l
    <3>4. FtidRange * (Cardinality(FtidRanges) - 1) = FtidRange * Cardinality(FtidRanges) - FtidRange
      BY <1>3, <2>3
    <3>5. ftids'.in_use = Cardinality(S)
      BY <2>1, <2>3, <3>3
    <3>6. ftids'.range_in_use = FtidRange * (Cardinality(FtidRanges) - 1)
      BY <2>1, <3>3, <3>4
    <3> QED
      BY <3>1, <3>2, <3>5, <3>6
  <2>5. CASE ~WideF(f)
    <3>1. j \in S /\ FtidRanges' = FtidRanges /\ DOMAIN ftids'.tab \ FtidRanges' = S \ {j}
      BY <1>7, <2>5 DEF FtidRanges, WideF
    <3>2. Cardinality(DOMAIN ftids'.tab \ FtidRanges') = Cardinality(S) - 1
      BY <2>2, <3>1, FS_RemoveElement
    <3>3. k = 1 /\ l = 0
      BY <2>5 DEF k, l
    <3>4. FtidRange * Cardinality(FtidRanges) \in Int
      BY <1>3, <2>3
    <3>5. ftids'.in_use = Cardinality(S) - 1
      BY <2>1, <3>3
    <3>6. ftids'.range_in_use = FtidRange * Cardinality(FtidRanges)
      BY <2>1, <3>3, <3>4
    <3> QED
      BY <3>1, <3>2, <3>5, <3>6
  <2> QED
    BY <2>4, <2>5
<1> QED
  BY <1>7, <1>8, <1>10, <1>11, <1>12 DEF FtidSlotsOK

(* The filters counted, one more or one less.                              *)
LEMMA HavingFinite ==
  ASSUME IsFiniteSet(Having(Flts)), NEW S, S \subseteq Flts
  PROVE  IsFiniteSet(Having(S)) /\ Cardinality(Having(S)) \in Nat
<1>1. Having(S) \in SUBSET Having(Flts)
  BY DEF Having
<1> QED
  BY <1>1, FS_Subset, FS_CardinalityType

LEMMA OneMore ==
  ASSUME IsFiniteSet(Having(Flts)), NEW f \in Flts, ~flt[f].live, flt'[f].live,
         \A g \in Flts : g # f => flt'[g] = flt[g]
  PROVE  /\ IsFiniteSet(Having(Flts))'
         /\ \A S \in SUBSET Flts :
              Cardinality({g \in S : flt'[g].live})
                = Cardinality({g \in S : flt[g].live}) + (IF f \in S THEN 1 ELSE 0)
<1>1. IsFiniteSet(Having(Flts))'
  <2>1. Having(Flts)' = Having(Flts) \cup {f}
    BY DEF Having
  <2> QED
    BY <2>1, FS_AddElement
<1>2. ASSUME NEW S \in SUBSET Flts
      PROVE  Cardinality({g \in S : flt'[g].live})
               = Cardinality({g \in S : flt[g].live}) + (IF f \in S THEN 1 ELSE 0)
  <2> DEFINE H == {g \in S : flt[g].live}
             I == {g \in S : flt'[g].live}
  <2>1. IsFiniteSet(H) /\ Cardinality(H) \in Nat /\ f \notin H
    BY HavingFinite DEF Having
  <2>2. I = IF f \in S THEN H \cup {f} ELSE H
    OBVIOUS
  <2> HIDE DEF H, I
  <2>3. Cardinality(H \cup {f}) = Cardinality(H) + 1
    BY <2>1, FS_AddElement
  <2>4. Cardinality(I) = Cardinality(H) + (IF f \in S THEN 1 ELSE 0)
    BY <2>1, <2>2, <2>3
  <2> QED
    BY <2>4 DEF H, I
<1> QED
  BY <1>1, <1>2

LEMMA OneLess ==
  ASSUME IsFiniteSet(Having(Flts)), NEW f \in Flts, flt[f].live, ~flt'[f].live,
         \A g \in Flts : g # f => flt'[g] = flt[g]
  PROVE  /\ IsFiniteSet(Having(Flts))'
         /\ \A S \in SUBSET Flts :
              Cardinality({g \in S : flt'[g].live})
                = Cardinality({g \in S : flt[g].live}) - (IF f \in S THEN 1 ELSE 0)
<1>1. IsFiniteSet(Having(Flts))'
  <2>1. Having(Flts)' = Having(Flts) \ {f}
    BY DEF Having
  <2> QED
    BY <2>1, FS_RemoveElement
<1>2. ASSUME NEW S \in SUBSET Flts
      PROVE  Cardinality({g \in S : flt'[g].live})
               = Cardinality({g \in S : flt[g].live}) - (IF f \in S THEN 1 ELSE 0)
  <2> DEFINE H == {g \in S : flt[g].live}
             I == {g \in S : flt'[g].live}
  <2>1. IsFiniteSet(H) /\ Cardinality(H) \in Nat /\ (f \in H <=> f \in S)
    BY HavingFinite DEF Having
  <2>2. I = IF f \in S THEN H \ {f} ELSE H
    OBVIOUS
  <2> HIDE DEF H, I
  <2>3. f \in S => Cardinality(H \ {f}) = Cardinality(H) - 1
    BY <2>1, FS_RemoveElement
  <2>4. Cardinality(I) = Cardinality(H) - (IF f \in S THEN 1 ELSE 0)
    BY <2>1, <2>2, <2>3
  <2> QED
    BY <2>4 DEF H, I
<1> QED
  BY <1>1, <1>2

(* A filter takes an identifier;                                           *)
LEMMA FilterEnters ==
  ASSUME TablesInv, NEW f \in Flts, ~flt[f].live, NEW o \in Ids, NEW ctx \in BOOLEAN,
         o \notin DOMAIN ftids.tab, Region(o, FltSlots(f)) \cap ftids.bits = {},
         ftids' = Take(ftids, o, f, WideF(f)), flt' = [flt EXCEPT ![f] = Sent(f, o, ctx)],
         refs' = Plus(refs, Refs(f, TRUE))
  PROVE  /\ TablesInv'
         /\ DOMAIN ftids'.tab = DOMAIN ftids.tab \cup {o}
         /\ \A i \in DOMAIN ftids'.tab : ftids'.tab[i] = IF i = o THEN f ELSE ftids.tab[i]
<1>1. /\ FtidsType' /\ FtidSlotsOK'
      /\ DOMAIN ftids'.tab = DOMAIN ftids.tab \cup {o}
      /\ \A i \in DOMAIN ftids'.tab : ftids'.tab[i] = IF i = o THEN f ELSE ftids.tab[i]
  BY FtidEnters DEF TablesInv
<1>2. /\ \A g \in Flts : g # f => flt'[g] = flt[g]
      /\ flt'[f] = Sent(f, o, ctx) /\ flt'[f].live /\ flt'[f].tid = o
      /\ flt' \in [Flts -> LiveFlt \cup {NoFlt}]
  <2> DEFINE r == Sent(f, o, ctx)
  <2>1. r \in LiveFlt
    <3>1. (f \in Listeners) \in BOOLEAN
      OBVIOUS
    <3> QED
      BY <3>1 DEF Sent, LiveFlt
  <2>2. r.live /\ r.tid = o
    BY DEF Sent
  <2> HIDE DEF r
  <2>3. flt' = [flt EXCEPT ![f] = r] /\ flt \in [Flts -> LiveFlt \cup {NoFlt}]
    BY DEF TablesInv, FltsType, r
  <2>4. flt'[f] = r /\ \A g \in Flts : g # f => flt'[g] = flt[g]
    BY <2>3
  <2>5. flt' \in [Flts -> LiveFlt \cup {NoFlt}]
    BY <2>1, <2>3
  <2> QED
    BY <2>2, <2>4, <2>5 DEF r
<1>3. NamesOK'
  <2>1. \A i \in DOMAIN ftids.tab : ftids.tab[i] \in Flts /\ ftids.tab[i] # f
    BY DEF TablesInv, NamesOK, FtidsType
  <2>2. \A i \in DOMAIN ftids'.tab :
          flt'[ftids'.tab[i]].live /\ flt'[ftids'.tab[i]].tid = i
    BY <1>1, <1>2, <2>1 DEF TablesInv, NamesOK
  <2>3. ASSUME NEW g \in Flts, flt'[g].live
        PROVE  flt'[g].tid \in DOMAIN ftids'.tab /\ ftids'.tab[flt'[g].tid] = g
    BY <1>1, <1>2, <2>3 DEF TablesInv, NamesOK
  <2> QED
    BY <2>2, <2>3 DEF NamesOK
<1>4. RefsOK'
  <2>1. /\ IsFiniteSet(Having(Flts))'
        /\ \A S \in SUBSET Flts :
             Cardinality({g \in S : flt'[g].live})
               = Cardinality({g \in S : flt[g].live}) + (IF f \in S THEN 1 ELSE 0)
    BY <1>2, OneMore DEF TablesInv, RefsOK
  <2>2. refs \in [{"l2t", "clip"} -> Int]
    BY DEF TablesInv, RefsOK
  <2>3. /\ refs' \in [{"l2t", "clip"} -> Int]
        /\ refs'.l2t = refs.l2t + (IF f \in Rewriters THEN 1 ELSE 0)
        /\ refs'.clip = refs.clip + (IF f \in Wides THEN 1 ELSE 0)
    BY <2>2 DEF Plus, Refs
  <2>4. RefsAgree'
    BY <2>1, <2>3, FilterFacts DEF RefsAgree, TablesInv, RefsOK
  <2> QED
    BY <2>1, <2>3, <2>4 DEF RefsOK
<1> QED
  BY <1>1, <1>2, <1>3, <1>4 DEF TablesInv, FltsType

(* gives it back (cxgb4_ftid_filter_clear);                                *)
LEMMA FilterLeaves ==
  ASSUME TablesInv, NEW j \in DOMAIN ftids.tab, ClearFilter(j, ftids.tab[j])
  PROVE  /\ TablesInv'
         /\ DOMAIN ftids'.tab = DOMAIN ftids.tab \ {j}
         /\ \A i \in DOMAIN ftids'.tab : ftids'.tab[i] = ftids.tab[i]
         /\ ~flt'[ftids.tab[j]].live
         /\ \A g \in Flts : g # ftids.tab[j] => flt'[g] = flt[g]
<1> DEFINE f == ftids.tab[j]
<1>1. /\ FtidsType' /\ FtidSlotsOK'
      /\ DOMAIN ftids'.tab = DOMAIN ftids.tab \ {j}
      /\ \A i \in DOMAIN ftids'.tab : ftids'.tab[i] = ftids.tab[i]
  BY FtidLeaves DEF TablesInv, ClearFilter
<1>2. /\ f \in Flts /\ flt[f].live /\ flt[f].tid = j
      /\ flt' = [flt EXCEPT ![f] = NoFlt] /\ refs' = Minus(refs, Refs(f, TRUE))
  BY DEF TablesInv, NamesOK, FtidsType, ClearFilter
<1> HIDE DEF f
<1>3. /\ \A g \in Flts : g # f => flt'[g] = flt[g]
      /\ flt'[f] = NoFlt /\ ~flt'[f].live
      /\ flt' \in [Flts -> LiveFlt \cup {NoFlt}]
  BY <1>2 DEF TablesInv, FltsType, NoFlt
<1>4. NamesOK'
  <2>1. \A i \in DOMAIN ftids.tab : ftids.tab[i] \in Flts /\ (i # j => ftids.tab[i] # f)
    BY <1>2 DEF TablesInv, NamesOK, FtidsType
  <2>2. \A i \in DOMAIN ftids'.tab :
          flt'[ftids'.tab[i]].live /\ flt'[ftids'.tab[i]].tid = i
    BY <1>1, <1>3, <2>1 DEF TablesInv, NamesOK
  <2>3. ASSUME NEW g \in Flts, flt'[g].live
        PROVE  flt'[g].tid \in DOMAIN ftids'.tab /\ ftids'.tab[flt'[g].tid] = g
    <3>1. g # f /\ flt'[g] = flt[g]
      BY <1>3, <2>3
    <3>2. flt[g].tid \in DOMAIN ftids.tab /\ ftids.tab[flt[g].tid] = g
      BY <2>3, <3>1 DEF TablesInv, NamesOK
    <3>3. flt[g].tid # j
      BY <3>1, <3>2 DEF f
    <3> QED
      BY <1>1, <3>1, <3>2, <3>3
  <2> QED
    BY <2>2, <2>3 DEF NamesOK
<1>5. RefsOK'
  <2>1. /\ IsFiniteSet(Having(Flts))'
        /\ \A S \in SUBSET Flts :
             Cardinality({g \in S : flt'[g].live})
               = Cardinality({g \in S : flt[g].live}) - (IF f \in S THEN 1 ELSE 0)
    BY <1>2, <1>3, OneLess DEF TablesInv, RefsOK
  <2>2. refs \in [{"l2t", "clip"} -> Int]
    BY DEF TablesInv, RefsOK
  <2>3. /\ refs' \in [{"l2t", "clip"} -> Int]
        /\ refs'.l2t = refs.l2t - (IF f \in Rewriters THEN 1 ELSE 0)
        /\ refs'.clip = refs.clip - (IF f \in Wides THEN 1 ELSE 0)
    BY <1>2, <2>2 DEF Minus, Refs
  <2>4. RefsAgree'
    BY <2>1, <2>3, FilterFacts DEF RefsAgree, TablesInv, RefsOK
  <2> QED
    BY <2>1, <2>3, <2>4 DEF RefsOK
<1> QED
  BY <1>1, <1>3, <1>4, <1>5 DEF TablesInv, FltsType, f

(* or stays as it is, whatever becomes of its flags.                       *)
LEMMA FiltersStay ==
  ASSUME TablesInv, ftids' = ftids, refs' = refs, flt' \in [Flts -> LiveFlt \cup {NoFlt}],
         \A g \in Flts : flt'[g].live = flt[g].live /\ (flt[g].live => flt'[g].tid = flt[g].tid)
  PROVE  TablesInv'
<1>1. FtidsType' /\ FtidSlotsOK' /\ FltsType'
  BY DEF TablesInv, FtidsType, FtidSlotsOK, FtidSlots, FtidRanges, FltsType
<1>2. \A i \in DOMAIN ftids.tab : ftids.tab[i] \in Flts
  BY DEF TablesInv, FtidsType
<1>3. NamesOK'
  BY <1>2 DEF TablesInv, NamesOK
<1>4. /\ Having(Flts)' = Having(Flts)
      /\ {f \in Rewriters : flt'[f].live} = {f \in Rewriters : flt[f].live}
      /\ {f \in Wides : flt'[f].live} = {f \in Wides : flt[f].live}
  BY FilterFacts DEF Having
<1>5. RefsOK'
  BY <1>4 DEF TablesInv, RefsOK, RefsAgree
<1> QED
  BY <1>1, <1>3, <1>5 DEF TablesInv

(***************************************************************************)
(* Filters: the steps that touch the tables                                *)
(***************************************************************************)
LsnType ==
  /\ TableType(sftids) /\ sftids.size = Ftids - Sftids /\ sftids.max = 1
  /\ lsn \in [Listeners -> {"closed", "inserting", "listening"}]
  /\ stid \in [Listeners -> Nat]

FtidsInv == TablesInv /\ LsnType

Enters(f, o, ctx) ==
  /\ ~flt[f].live /\ o \in Ids /\ o \notin DOMAIN ftids.tab
  /\ Region(o, FltSlots(f)) \cap ftids.bits = {}
  /\ ftids' = Take(ftids, o, f, WideF(f)) /\ flt' = [flt EXCEPT ![f] = Sent(f, o, ctx)]
  /\ refs' = Plus(refs, Refs(f, TRUE))

LEMMA EntersTables ==
  ASSUME TablesInv, NEW f \in Flts, NEW o, NEW ctx \in BOOLEAN, Enters(f, o, ctx)
  PROVE  TablesInv'
BY FilterEnters DEF Enters

LEMMA RegionNobodys ==
  ASSUME TablesInv, NEW o \in Ids, NEW n \in Nat \ {0}, Region(o, n) \cap ftids.bits = {}
  PROVE  o \notin DOMAIN ftids.tab
<1> SUFFICES ASSUME o \in DOMAIN ftids.tab PROVE FALSE
  OBVIOUS
<1>1. o \in Int /\ o \in Region(o, n)
  BY RegionHolds DEF Ids
<1>2. o \in FtidSlots(o)
  BY <1>1, RegionHolds, FilterFacts DEF FtidSlots
<1>3. o \in ftids.bits
  BY <1>2 DEF TablesInv, FtidSlotsOK
<1> QED
  BY <1>1, <1>3

LEMMA WidthIs ==
  ASSUME TablesInv, NEW f
  PROVE  Width(ftids, WideF(f)) = FltSlots(f)
BY DEF TablesInv, FtidsType, Width, FltSlots

LEMMA InsertedThere ==
  ASSUME TablesInv, NEW f, NEW o \in Ids, o % FltSlots(f) = 0
  PROVE  InsertId(ftids, o, f, WideF(f)) = Take(ftids, o, f, WideF(f))
<1>1. o \in Int /\ ftids.start = 0 /\ Aligned(ftids, o, WideF(f)) = o
  BY WidthIs DEF Aligned, Ids, TablesInv, FtidsType
<1>2. o - ftids.start = o
  BY <1>1
<1> QED
  BY <1>1, <1>2 DEF InsertId

LEMMA CreateEnters ==
  ASSUME TablesInv, NEW f \in Rules, NEW ctx \in BOOLEAN, NEW id \in 0 .. Ftids - 1,
         Create(f, ctx, id)
  PROVE  \E o \in Ids : Enters(f, o, ctx) /\ GiveId(f, ctx, o)
<1> DEFINE n == FltSlots(f)
           o == id - (id % n)
<1>1. Width(ftids, WideF(f)) = n /\ n \in Nat \ {0} /\ id \in Nat /\ Ftids \in Nat
  BY WidthIs, FilterFacts
<1>2. o \in 0 .. id /\ o % n = 0
  BY <1>1, AlignedTwice
<1>3. o \in Ids /\ o \in Int /\ Aligned(ftids, id, WideF(f)) = o
  BY <1>1, <1>2 DEF Ids, Aligned
<1>4. ~flt[f].live /\ CanInsert(ftids, id, WideF(f)) /\ GiveId(f, ctx, o)
  BY <1>3 DEF Create
<1> HIDE DEF n, o
<1>5. Region(o, n) \cap ftids.bits = {}
  <2>1. o - ftids.start = o
    BY <1>3 DEF TablesInv, FtidsType
  <2> QED
    BY <1>1, <1>3, <1>4, <2>1 DEF CanInsert
<1>6. o \notin DOMAIN ftids.tab
  BY <1>1, <1>3, <1>5, RegionNobodys
<1>7. ftids' = Take(ftids, o, f, WideF(f))
  BY <1>2, <1>3, <1>4, InsertedThere DEF GiveId, n
<1> QED
  BY <1>3, <1>4, <1>5, <1>6, <1>7 DEF Enters, GiveId, n

LEMMA CreateAnyEnters ==
  ASSUME TablesInv, NEW f \in Rules, NEW ctx \in BOOLEAN, CreateAny(f, ctx)
  PROVE  \E o \in Ids : Enters(f, o, ctx) /\ GiveId(f, ctx, o)
<1> DEFINE n == FltSlots(f)
           o == LowestFree(ftids, n)
           F == FreeRegions(ftids, n)
<1>1. Width(ftids, WideF(f)) = n /\ n \in Nat \ {0} /\ Ftids \in Nat /\ ftids.size = Ftids
  BY WidthIs, FilterFacts DEF TablesInv, FtidsType
<1>2. ~flt[f].live /\ F # {} /\ GiveId(f, ctx, o)
  BY <1>1 DEF CreateAny
<1>3. F \in SUBSET Nat
  BY <1>1 DEF FreeRegions
<1>4. o \in F
  <2>1. \E x \in F : \A p \in F : x <= p
    BY <1>2, <1>3, LeastExists
  <2> HIDE DEF n
  <2> QED
    BY <2>1 DEF LowestFree
<1> HIDE DEF o, n
<1>5. o \in Ids /\ o % n = 0 /\ Region(o, n) \cap ftids.bits = {}
  BY <1>1, <1>4 DEF FreeRegions, Ids
<1>6. o \notin DOMAIN ftids.tab
  BY <1>1, <1>5, RegionNobodys
<1>7. ftids' = Take(ftids, o, f, WideF(f))
  BY <1>2, <1>5, InsertedThere DEF GiveId, n
<1> QED
  BY <1>2, <1>5, <1>6, <1>7 DEF Enters, GiveId, n

LEMMA ListenerFacts ==
  ASSUME NEW s \in Listeners
  PROVE  s \in Flts /\ ~WideF(s) /\ s \notin Rewriters /\ FltSlots(s) = 1
BY FiltersAssumption DEF FiltersAssumption, Flts, WideF, FltSlots

LEMMA ListenInsertEnters ==
  ASSUME FtidsInv, NEW s \in Listeners, ListenInsert(s)
  PROVE  Enters(s, stid[s], FALSE)
<1> DEFINE o == stid[s]
<1>1. o \in Nat /\ o \in Int /\ ftids.start = 0 /\ ftids.size = Ftids /\ Ftids \in Nat
  BY FilterFacts DEF FtidsInv, LsnType, TablesInv, FtidsType
<1>2. ~flt[s].live /\ CanInsert(ftids, o, FALSE) /\ WideF(s) = FALSE
  <2>1. WideF(s) = FALSE
    BY ListenerFacts, SMT DEF WideF
  <2> QED
    BY <2>1, Zenon DEF ListenInsert
<1>3. o \in Ids
  BY <1>1, <1>2 DEF CanInsert, InRange, Ids
<1>4. o % 1 = 0 /\ o - 0 = o
  BY <1>1
<1>5. Aligned(ftids, o, FALSE) = o
  BY <1>1, <1>4 DEF Aligned, Width
<1>6. Region(o, 1) \cap ftids.bits = {}
  BY <1>1, <1>2, <1>4, <1>5 DEF CanInsert, Width
<1>7. o \notin DOMAIN ftids.tab
  BY <1>3, <1>6, RegionNobodys, FtidsInv DEF FtidsInv
<1>8. ftids' = Take(ftids, o, s, WideF(s))
  BY <1>1, <1>2, <1>4, <1>5 DEF ListenInsert, InsertId
<1>9. refs' = Plus(refs, Refs(s, TRUE))
  <2>1. refs \in [{"l2t", "clip"} -> Int] /\ refs' = refs
    BY DEF ListenInsert, FtidsInv, TablesInv, RefsOK
  <2>2. s \notin Rewriters /\ s \notin Wides
    BY ListenerFacts DEF WideF
  <2>3. Refs(s, TRUE).l2t = 0 /\ Refs(s, TRUE).clip = 0
    BY <2>2 DEF Refs
  <2> DEFINE R == Refs(s, TRUE)
  <2>4. R["l2t"] = 0 /\ R["clip"] = 0
    BY <2>3
  <2> HIDE DEF R
  <2>5. \A k \in {"l2t", "clip"} : refs[k] \in Int /\ R[k] = 0
    BY <2>1, <2>4
  <2>6. \A k \in {"l2t", "clip"} : refs[k] = refs[k] + R[k]
    BY <2>5
  <2>7. refs = [k \in {"l2t", "clip"} |-> refs[k]] /\ DOMAIN refs = {"l2t", "clip"}
    BY <2>1
  <2> QED
    BY <2>1, <2>6, <2>7 DEF Plus, R
<1>10. flt' = [flt EXCEPT ![s] = Sent(s, o, FALSE)]
  BY DEF ListenInsert
<1> QED
  BY <1>2, <1>3, <1>6, <1>7, <1>8, <1>9, <1>10, ListenerFacts DEF Enters

LEMMA CreateFailsKeeps ==
  ASSUME TablesInv, NEW f \in Rules, CreateFails(f)
  PROVE  refs' = refs
<1>1. PICK l2t \in BOOLEAN : refs' = Minus(Plus(refs, Refs(f, l2t)), Refs(f, l2t))
  BY DEF CreateFails
<1>2. refs \in [{"l2t", "clip"} -> Int]
  BY DEF TablesInv, RefsOK
<1>3. Refs(f, l2t).l2t \in Int /\ Refs(f, l2t).clip \in Int
  BY DEF Refs
<1>4. \A k \in {"l2t", "clip"} : (refs[k] + Refs(f, l2t)[k]) - Refs(f, l2t)[k] = refs[k]
  BY <1>2, <1>3
<1> QED
  BY <1>1, <1>2, <1>4 DEF Plus, Minus

(* The listeners' own table.                                               *)
LEMMA LsnStart ==
  ASSUME FtidsInv, NEW s \in Listeners, ListenStart(s)
  PROVE  LsnType'
<1> DEFINE F == FreeRegions(sftids, 1)
           o == LowestFree(sftids, 1)
<1>1. /\ TableType(sftids) /\ sftids.size = Ftids - Sftids /\ sftids.max = 1
      /\ sftids.in_use \in Int /\ sftids.range_in_use \in Int
      /\ Ftids \in Nat /\ Sftids \in 0 .. Ftids
  BY FilterFacts DEF FtidsInv, LsnType, TableType
<1>2. F # {} /\ F \in SUBSET Nat
  BY <1>1 DEF FreeRegions, ListenStart
<1>3. o \in F /\ o \in Nat
  <2>1. \E x \in F : \A p \in F : x <= p
    BY <1>2, LeastExists
  <2> QED
    BY <1>2, <2>1 DEF LowestFree
<1>4. sftids' = Take(sftids, o, s, FALSE) /\ stid' = [stid EXCEPT ![s] = Sftids + o]
      /\ lsn' = [lsn EXCEPT ![s] = "inserting"]
  BY DEF ListenStart
<1> HIDE DEF o, F
<1>5. sftids' = WithSlots(sftids, o, s, 1, 1, 0)
  <2>1. sftids' = [sftids EXCEPT !.bits = @ \cup Region(o, 1),
                             !.tab = [i \in DOMAIN @ \cup {sftids.start + o} |->
                                        IF i = sftids.start + o THEN s ELSE @[i]],
                             !.in_use = @ + 1, !.range_in_use = @]
    BY <1>4 DEF Take, Width
  <2>2. sftids.range_in_use = sftids.range_in_use + 0
    BY <1>1
  <2> QED
    BY <2>1, <2>2 DEF WithSlots
<1>6. Took(sftids, sftids', o, s, 1, 1, 0)
  BY <1>1, <1>3, <1>5, Taken
<1>7. TableType(sftids') /\ sftids'.size = Ftids - Sftids /\ sftids'.max = 1
  BY <1>1, <1>6 DEF Took
<1>8. Sftids + o \in Nat
  BY <1>1, <1>3
<1>9. /\ lsn' \in [Listeners -> {"closed", "inserting", "listening"}]
      /\ stid' \in [Listeners -> Nat]
  BY <1>4, <1>8 DEF FtidsInv, LsnType
<1> QED
  BY <1>7, <1>9 DEF LsnType

LEMMA LsnStop ==
  ASSUME FtidsInv, NEW s \in Listeners, ListenStop(s)
  PROVE  LsnType'
<1>1. /\ sftids' = FreeId(sftids, stid[s], FALSE) /\ lsn' = [lsn EXCEPT ![s] = "closed"]
      /\ stid' = stid
  BY DEF ListenStop
<1>2. /\ TableType(sftids) /\ sftids.size = Ftids - Sftids /\ sftids.max = 1
      /\ sftids.range_in_use \in Int
  BY DEF FtidsInv, LsnType, TableType
<1>3. TableType(sftids') /\ sftids'.size = sftids.size /\ sftids'.max = sftids.max
  <2>1. CASE stid[s] \in DOMAIN sftids.tab
    <3>1. sftids' = WithoutSlots(sftids, stid[s], 1, 1, 0)
      BY <1>1, <1>2, <2>1, FreedOne
    <3>2. Gave(sftids, sftids', stid[s], 1, 1, 0)
      BY <1>2, <3>1, Freed
    <3> QED
      BY <3>2 DEF Gave
  <2>2. CASE stid[s] \notin DOMAIN sftids.tab
    BY <1>1, <1>2, <2>2 DEF FreeId
  <2> QED
    BY <2>1, <2>2
<1> QED
  BY <1>1, <1>2, <1>3 DEF FtidsInv, LsnType

LEMMA LsnStays ==
  ASSUME FtidsInv, sftids' = sftids, stid' = stid,
         lsn' \in [Listeners -> {"closed", "inserting", "listening"}]
  PROVE  LsnType'
BY DEF FtidsInv, LsnType

LEMMA FlagsType ==
  ASSUME TablesInv, NEW f \in Flts, flt[f].live
  PROVE  /\ LET u == [flt[f] EXCEPT !.ctx = TRUE, !.pending = TRUE]
            IN /\ u \in LiveFlt /\ u.live /\ u.tid = flt[f].tid
               /\ u.ctx /\ u.pending /\ u.valid = flt[f].valid
         /\ LET u == [flt[f] EXCEPT !.ctx = FALSE, !.pending = FALSE, !.valid = TRUE]
            IN /\ u \in LiveFlt /\ u.live /\ u.tid = flt[f].tid
               /\ ~u.ctx /\ ~u.pending /\ u.valid
<1>1. flt[f] \in LiveFlt \cup {NoFlt} /\ ~NoFlt.live
  BY DEF TablesInv, FltsType, NoFlt
<1>2. flt[f] \in LiveFlt
  BY <1>1
<1> QED
  BY <1>2 DEF LiveFlt

LEMMA OneChanges ==
  ASSUME FltsType, NEW f \in Flts, NEW u \in LiveFlt, flt' = [flt EXCEPT ![f] = u]
  PROVE  /\ flt' \in [Flts -> LiveFlt \cup {NoFlt}] /\ flt'[f] = u
         /\ \A g \in Flts : g # f => flt'[g] = flt[g]
BY DEF FltsType

LEMMA FtidsInvStep ==
  ASSUME FtidsInv, [FltNext]_fltVars
  PROVE  FtidsInv'
<1>1. TablesInv /\ LsnType
  BY DEF FtidsInv
<1>2. ASSUME NEW f \in Rules, NEW ctx \in BOOLEAN, CreateAny(f, ctx) PROVE FtidsInv'
  <2>1. PICK o \in Ids : Enters(f, o, ctx) /\ GiveId(f, ctx, o)
    BY <1>1, <1>2, CreateAnyEnters
  <2> QED
    BY <1>1, <2>1, EntersTables DEF Flts, GiveId, lsnVars, FtidsInv, LsnType
<1>3. ASSUME NEW f \in Rules, NEW ctx \in BOOLEAN, NEW id \in 0 .. Ftids - 1, Create(f, ctx, id)
      PROVE  FtidsInv'
  <2>1. PICK o \in Ids : Enters(f, o, ctx) /\ GiveId(f, ctx, o)
    BY <1>1, <1>3, CreateEnters
  <2> QED
    BY <1>1, <2>1, EntersTables DEF Flts, GiveId, lsnVars, FtidsInv, LsnType
<1>4. ASSUME NEW f \in Rules, CreateFails(f) PROVE FtidsInv'
  <2>1. refs' = refs /\ ftids' = ftids /\ flt' = flt /\ UNCHANGED lsnVars
    BY <1>1, <1>4, CreateFailsKeeps DEF CreateFails
  <2>2. TablesInv'
    BY <1>1, <2>1, FiltersStay DEF TablesInv, FltsType
  <2> QED
    BY <1>1, <2>1, <2>2 DEF lsnVars, FtidsInv, LsnType
<1>5. ASSUME NEW id \in 0 .. Ftids - 1, DeleteCtx(id) PROVE FtidsInv'
  <2> DEFINE f == ftids.tab[id]
             u == [flt[f] EXCEPT !.ctx = TRUE, !.pending = TRUE]
  <2>1. /\ id \in DOMAIN ftids.tab /\ f \in Flts /\ flt[f].live
        /\ flt' = [flt EXCEPT ![f].ctx = TRUE, ![f].pending = TRUE]
        /\ ftids' = ftids /\ refs' = refs /\ UNCHANGED lsnVars
    BY <1>1, <1>5 DEF DeleteCtx, Deletable, TablesInv, NamesOK, FtidsType
  <2> HIDE DEF f
  <2>2. flt' = [flt EXCEPT ![f] = u]
    BY <2>1
  <2>3. u \in LiveFlt /\ u.live /\ u.tid = flt[f].tid
    BY <1>1, <2>1, FlagsType
  <2> HIDE DEF u
  <2>4. TablesInv'
    <3>1. flt \in [Flts -> LiveFlt \cup {NoFlt}]
      BY <1>1 DEF TablesInv, FltsType
    <3>2. f \in Flts /\ flt[f].live /\ ftids' = ftids /\ refs' = refs
      BY <2>1
    <3> QED
      BY <1>1, <2>2, <2>3, <3>1, <3>2, OneChanges, FiltersStay DEF FltsType
  <2> QED
    BY <1>1, <2>1, <2>4 DEF lsnVars, FtidsInv, LsnType
<1>6. ASSUME NEW id \in 0 .. Ftids - 1, DeleteSilent(id) PROVE FtidsInv'
  <2>1. id \in DOMAIN ftids.tab /\ ClearFilter(id, ftids.tab[id]) /\ UNCHANGED lsnVars
    BY <1>6 DEF DeleteSilent, Deletable
  <2> QED
    BY <1>1, <2>1, FilterLeaves DEF lsnVars, FtidsInv, LsnType
<1>7. ASSUME NEW s \in Listeners, ListenStart(s) PROVE FtidsInv'
  <2>1. ftids' = ftids /\ flt' = flt /\ refs' = refs
    BY <1>7 DEF ListenStart
  <2>2. TablesInv'
    BY <1>1, <2>1, FiltersStay DEF TablesInv, FltsType
  <2> QED
    BY <1>7, <2>2, LsnStart DEF FtidsInv
<1>8. ASSUME NEW s \in Listeners, ListenInsert(s) PROVE FtidsInv'
  <2>1. s \in Flts /\ Enters(s, stid[s], FALSE)
    BY <1>8, ListenInsertEnters, ListenerFacts
  <2>2. TablesInv'
    BY <1>1, <2>1, EntersTables
  <2>3. LsnType'
    <3>1. sftids' = sftids /\ stid' = stid /\ lsn' = [lsn EXCEPT ![s] = "listening"]
      BY <1>8 DEF ListenInsert
    <3> QED
      BY <1>1, <3>1 DEF LsnType
  <2> QED
    BY <2>2, <2>3 DEF FtidsInv
<1>9. ASSUME NEW s \in Listeners, ListenStop(s) PROVE FtidsInv'
  <2>1. CASE stid[s] \in DOMAIN ftids.tab /\ flt[ftids.tab[stid[s]]].valid
    <3>1. ClearFilter(stid[s], ftids.tab[stid[s]])
      BY <1>9, <2>1 DEF ListenStop
    <3> QED
      BY <1>1, <1>9, <2>1, <3>1, FilterLeaves, LsnStop DEF FtidsInv
  <2>2. CASE ~(stid[s] \in DOMAIN ftids.tab /\ flt[ftids.tab[stid[s]]].valid)
    <3>1. ftids' = ftids /\ flt' = flt /\ refs' = refs
      BY <1>9, <2>2 DEF ListenStop
    <3>2. TablesInv'
      BY <1>1, <3>1, FiltersStay DEF TablesInv, FltsType
    <3> QED
      BY <1>9, <3>2, LsnStop DEF FtidsInv
  <2> QED
    BY <2>1, <2>2
<1>10. ASSUME NEW p \in Ports, FwStep(p) PROVE FtidsInv'
  <2>1. ftids' = ftids /\ flt' = flt /\ refs' = refs /\ UNCHANGED lsnVars
    BY <1>10 DEF FwStep
  <2>2. TablesInv'
    BY <1>1, <2>1, FiltersStay DEF TablesInv, FltsType
  <2> QED
    BY <1>1, <2>1, <2>2 DEF lsnVars, FtidsInv, LsnType
<1>11. ASSUME FilterReply PROVE FtidsInv'
  <2> DEFINE t == Head(rpls).tid
             f == ftids.tab[t]
  <2>1. LsnType'
    BY <1>1, <1>11 DEF FilterReply, lsnVars, LsnType
  <2>2. CASE ftids' = ftids /\ flt' = flt /\ refs' = refs
    BY <1>1, <2>1, <2>2, FiltersStay DEF TablesInv, FltsType, FtidsInv
  <2>3. CASE t \in DOMAIN ftids.tab /\ ClearFilter(t, f)
    BY <1>1, <2>1, <2>3, FilterLeaves DEF FtidsInv
  <2>4. CASE /\ t \in DOMAIN ftids.tab /\ ftids' = ftids /\ refs' = refs
             /\ flt' = [flt EXCEPT ![f].ctx = FALSE, ![f].pending = FALSE,
                                   ![f].valid = TRUE]
    <3> DEFINE u == [flt[f] EXCEPT !.ctx = FALSE, !.pending = FALSE, !.valid = TRUE]
    <3>1. f \in Flts /\ flt[f].live /\ flt \in [Flts -> LiveFlt \cup {NoFlt}]
      BY <1>1, <2>4 DEF TablesInv, NamesOK, FtidsType, FltsType
    <3> HIDE DEF f, t
    <3>2. flt' = [flt EXCEPT ![f] = u]
      BY <2>4
    <3>4. u \in LiveFlt /\ u.live /\ u.tid = flt[f].tid
      BY <1>1, <3>1, FlagsType
    <3> HIDE DEF u
    <3>5. TablesInv'
      BY <1>1, <2>4, <3>1, <3>2, <3>4, OneChanges, FiltersStay DEF FltsType
    <3> QED
      BY <2>1, <3>5 DEF FtidsInv
  <2> QED
    BY <1>11, <2>2, <2>3, <2>4 DEF FilterReply
<1>12. ASSUME UNCHANGED fltVars PROVE FtidsInv'
  <2>1. ftids' = ftids /\ flt' = flt /\ refs' = refs /\ UNCHANGED lsnVars
    BY <1>12 DEF fltVars, lsnVars
  <2>2. TablesInv'
    BY <1>1, <2>1, FiltersStay DEF TablesInv, FltsType
  <2> QED
    BY <1>1, <2>1, <2>2 DEF lsnVars, FtidsInv, LsnType
<1> QED
  BY <1>2, <1>3, <1>4, <1>5, <1>6, <1>7, <1>8, <1>9, <1>10, <1>11, <1>12 DEF FltNext

LEMMA FtidsInvInit == FltInit => FtidsInv
<1> SUFFICES ASSUME FltInit PROVE FtidsInv
  OBVIOUS
<1>1. /\ Ftids \in Nat /\ Sftids \in 0 .. Ftids /\ FtidRange \in Nat \ {0}
      /\ Ftids - Sftids \in Nat /\ Sftids \in Nat
  BY FilterFacts
<1> DEFINE e == <<>>
<1>2. DOMAIN e = {}
  OBVIOUS
<1>3. /\ ftids = [start |-> 0, size |-> Ftids, max |-> FtidRange, bits |-> {},
                  tab |-> e, in_use |-> 0, range_in_use |-> 0]
      /\ sftids = [start |-> Sftids, size |-> Ftids - Sftids, max |-> 1, bits |-> {},
                   tab |-> e, in_use |-> 0, range_in_use |-> 0]
  BY DEF FltInit, NewTable
<1> HIDE DEF e
<1>4. TableType(ftids) /\ TableType(sftids)
  BY <1>1, <1>3 DEF TableType
<1>5. FtidsType
  <2>1. ftids.tab = e /\ DOMAIN ftids.tab = {}
    BY <1>2, <1>3
  <2>2. ftids.tab \in [DOMAIN ftids.tab -> Flts]
    BY <2>1 DEF e
  <2> QED
    BY <1>3, <1>4, <2>1, <2>2 DEF FtidsType
<1>6. FltsType /\ \A f \in Flts : ~flt[f].live
  BY DEF FltInit, FltsType, NoFlt
<1>7. NamesOK
  BY <1>2, <1>3, <1>6 DEF NamesOK
<1>8. FtidSlotsOK
  <2>1. DOMAIN ftids.tab = {} /\ FtidRanges = {} /\ DOMAIN ftids.tab \ FtidRanges = {}
    BY <1>2, <1>3 DEF FtidRanges
  <2>2. Cardinality({}) = 0 /\ FtidRange * 0 = 0
    BY <1>1, FS_EmptySet
  <2>3. ftids.bits = {} /\ ftids.in_use = 0 /\ ftids.range_in_use = 0
    BY <1>3
  <2>4. UNION {FtidSlots(i) : i \in DOMAIN ftids.tab} = {}
    BY <2>1
  <2> QED
    BY <2>1, <2>2, <2>3, <2>4 DEF FtidSlotsOK
<1>9. RefsOK
  <2>1. Having(Flts) = {} /\ {f \in Rewriters : flt[f].live} = {}
        /\ {f \in Wides : flt[f].live} = {}
    BY <1>6, FilterFacts DEF Having
  <2>2. refs \in [{"l2t", "clip"} -> Int] /\ refs.l2t = 0 /\ refs.clip = 0
    BY DEF FltInit
  <2> QED
    BY <2>1, <2>2, FS_EmptySet DEF RefsOK, RefsAgree
<1>10. LsnType
  <2>1. /\ lsn \in [Listeners -> {"closed", "inserting", "listening"}]
        /\ stid \in [Listeners -> Nat]
    BY DEF FltInit
  <2> QED
    BY <1>3, <1>4, <2>1 DEF LsnType
<1> QED
  BY <1>5, <1>6, <1>7, <1>8, <1>9, <1>10 DEF FtidsInv, TablesInv

LEMMA FtidsInvAgrees ==
  ASSUME FtidsInv
  PROVE  IdsAgree /\ RefsAgree
<1>1. Consistent(ftids, WideF)
  <2> DEFINE W == {i \in DOMAIN ftids.tab : WideF(ftids.tab[i])}
             R(i) == Region(i - ftids.start, Width(ftids, i \in W))
  <2>1. W = FtidRanges
    BY DEF FtidRanges
  <2>2. \A i \in DOMAIN ftids.tab : R(i) = FtidSlots(i)
    <3> SUFFICES ASSUME NEW i \in DOMAIN ftids.tab PROVE R(i) = FtidSlots(i)
      OBVIOUS
    <3>1. i \in Int /\ i - ftids.start = i
      BY FilterFacts DEF FtidsInv, TablesInv, FtidsType, Ids
    <3>2. Width(ftids, i \in W) = FltSlots(ftids.tab[i])
      BY DEF Width, FltSlots, FtidsInv, TablesInv, FtidsType
    <3> QED
      BY <3>1, <3>2 DEF FtidSlots
  <2> HIDE DEF R
  <2>3. ftids.bits = UNION {R(i) : i \in DOMAIN ftids.tab}
    BY <2>2 DEF FtidsInv, TablesInv, FtidSlotsOK
  <2>4. \A i, j \in DOMAIN ftids.tab : i # j => R(i) \cap R(j) = {}
    BY <2>2 DEF FtidsInv, TablesInv, FtidSlotsOK
  <2>5. /\ ftids.in_use = Cardinality(DOMAIN ftids.tab \ W)
        /\ ftids.range_in_use = ftids.max * Cardinality(W)
    BY <2>1 DEF FtidsInv, TablesInv, FtidsType, FtidSlotsOK
  <2> QED
    BY <2>3, <2>4, <2>5 DEF Consistent, R
<1>2. /\ \A f \in Flts : flt[f].live <=> \E id \in DOMAIN ftids.tab : ftids.tab[id] = f
      /\ \A id \in DOMAIN ftids.tab : flt[ftids.tab[id]].tid = id
  BY DEF FtidsInv, TablesInv, NamesOK
<1> QED
  BY <1>1, <1>2 DEF IdsAgree, FtidsInv, TablesInv, RefsOK

(* The table of identifiers, its bitmap, the filters and the references    *)
(* they hold agree, in whatever order requests and replies come and go, of *)
(* users that wait and of users that do not (cxgb4_ftid_insert,            *)
(* cxgb4_ftid_filter_clear, cxgb4_filter_hw_resources_free).               *)
THEOREM FilterTablesAlwaysAgree == FltSpec => [](IdsAgree /\ RefsAgree)
<1>1. FltInit => FtidsInv
  BY FtidsInvInit
<1>2. FtidsInv /\ [FltNext]_fltVars => FtidsInv'
  BY FtidsInvStep
<1>3. FtidsInv => IdsAgree /\ RefsAgree
  BY FtidsInvAgrees
<1> QED
  BY <1>1, <1>2, <1>3, PTL DEF FltSpec

(***************************************************************************)
(* Filters: requests, replies and the hardware, of users that wait         *)
(***************************************************************************)
Creating(f) == flt[f].live /\ flt[f].pending /\ ~flt[f].valid
Standing(f) == flt[f].live /\ ~flt[f].pending /\ flt[f].valid /\ ~flt[f].ctx
Deleting(f) == flt[f].live /\ flt[f].pending /\ flt[f].valid /\ flt[f].ctx
Silent(f) == Creating(f) /\ ~flt[f].ctx /\ Port[f] = 0

Requests == [op : {"add"}, tid : Ids, f : Flts] \cup [op : {"del"}, tid : Ids]
Replies == [tid : Ids, ret : {"added", "deleted", "error"}]
MsgsType ==
  /\ reqs \in [Ports -> Seq(Requests)] /\ rpls \in Seq(Replies)
  /\ hwflt \in [DOMAIN hwflt -> Flts]

(* What the caller of a filter waits for.                                  *)
StatesOK ==
  \A f \in Flts :
    \/ ~flt[f].live /\ waits[f] = "none"
    \/ Creating(f) /\ flt[f].ctx /\ waits[f] = "add"
    \/ Creating(f) /\ ~flt[f].ctx /\ waits[f] = "none"
    \/ Standing(f) /\ waits[f] = "none"
    \/ Deleting(f) /\ waits[f] = "del"

(* A creation under way is that of the filter that has the identifier, and *)
(* the last message about it;                                              *)
IsAdd(p, k) == reqs[p][k].op = "add"
IsDel(p, k) == reqs[p][k].op = "del"
AddOK(p, k) ==
  /\ p = Port[reqs[p][k].f] /\ Creating(reqs[p][k].f)
  /\ flt[reqs[p][k].f].tid = reqs[p][k].tid
LastAdd(p, k) ==
  /\ \A j \in 1 .. Len(reqs[p]) :
       j # k /\ reqs[p][j].tid = reqs[p][k].tid => j < k /\ IsDel(p, j)
  /\ \A j \in 1 .. Len(rpls) : rpls[j].tid = reqs[p][k].tid => rpls[j].ret = "deleted"
AddsOK == \A p \in Ports : \A k \in 1 .. Len(reqs[p]) : IsAdd(p, k) => AddOK(p, k)
AddsLast == \A p \in Ports : \A k \in 1 .. Len(reqs[p]) : IsAdd(p, k) => LastAdd(p, k)

(* so is its answer.                                                       *)
Answers(k) == rpls[k].ret # "deleted"
AnswerOK(k) ==
  /\ rpls[k].tid \in DOMAIN ftids.tab /\ Creating(ftids.tab[rpls[k].tid])
  /\ rpls[k].ret = "added" => /\ rpls[k].tid \in DOMAIN hwflt
                              /\ hwflt[rpls[k].tid] = ftids.tab[rpls[k].tid]
  /\ rpls[k].ret = "error" => rpls[k].tid \notin DOMAIN hwflt
LastAnswer(k) ==
  /\ \A j \in 1 .. Len(rpls) : j # k /\ rpls[j].tid = rpls[k].tid => j < k /\ ~Answers(j)
  /\ \A p \in Ports : \A j \in 1 .. Len(reqs[p]) : reqs[p][j].tid # rpls[k].tid
AnswersOK == \A k \in 1 .. Len(rpls) : Answers(k) => AnswerOK(k)
AnswersLast == \A k \in 1 .. Len(rpls) : Answers(k) => LastAnswer(k)

(* A deletion is that of a filter whose caller waits, or of one that is    *)
(* gone, whose identifier nobody has or a silent creation took.            *)
DelOK(p, k) ==
  /\ p = 0
  /\ reqs[p][k].tid \in DOMAIN ftids.tab =>
       Deleting(ftids.tab[reqs[p][k].tid]) \/ Silent(ftids.tab[reqs[p][k].tid])
DelsOK == \A p \in Ports : \A k \in 1 .. Len(reqs[p]) : IsDel(p, k) => DelOK(p, k)
DeletedOK(k) ==
  rpls[k].tid \in DOMAIN ftids.tab =>
    \/ Silent(ftids.tab[rpls[k].tid])
    \/ Deleting(ftids.tab[rpls[k].tid]) /\ rpls[k].tid \notin DOMAIN hwflt
DeletionsOK == \A k \in 1 .. Len(rpls) : ~Answers(k) => DeletedOK(k)

(* A filter that is pending has its request or its reply under way.        *)
AddAwaited(f) ==
  \/ \E k \in 1 .. Len(reqs[Port[f]]) :
       IsAdd(Port[f], k) /\ reqs[Port[f]][k].tid = flt[f].tid
  \/ \E k \in 1 .. Len(rpls) : rpls[k].tid = flt[f].tid /\ Answers(k)
DelAwaited(f) ==
  \/ \E k \in 1 .. Len(reqs[0]) : IsDel(0, k) /\ reqs[0][k].tid = flt[f].tid
  \/ \E k \in 1 .. Len(rpls) : rpls[k].tid = flt[f].tid /\ ~Answers(k)
Awaited ==
  \A f \in Flts : (Creating(f) => AddAwaited(f)) /\ (Deleting(f) => DelAwaited(f))

(* The hardware has the filter of an identifier, or one that is gone and   *)
(* whose deletion is before that of any filter of the same user.           *)
BeforeDel(i, g) ==
  Deleting(g) =>
    /\ \A k \in 1 .. Len(rpls) : rpls[k].tid = flt[g].tid => Answers(k)
    /\ \A k \in 1 .. Len(reqs[0]) : IsDel(0, k) /\ reqs[0][k].tid = flt[g].tid => i < k
There(t) ==
  /\ t \in DOMAIN ftids.tab /\ hwflt[t] = ftids.tab[t]
  /\ \/ flt[hwflt[t]].valid
     \/ \E k \in 1 .. Len(rpls) : rpls[k].tid = t /\ rpls[k].ret = "added"
Leaving(t) ==
  \E i \in 1 .. Len(reqs[0]) :
    IsDel(0, i) /\ reqs[0][i].tid = t /\ BeforeDel(i, hwflt[t])
Stands(t) == Standing(ftids.tab[t]) => t \in DOMAIN hwflt /\ hwflt[t] = ftids.tab[t]
HardwareOK ==
  /\ \A t \in DOMAIN hwflt : There(t) \/ Leaving(t)
  /\ \A t \in DOMAIN ftids.tab : Stands(t)

MsgsInv ==
  /\ MsgsType /\ StatesOK /\ AddsOK /\ AddsLast /\ AnswersOK /\ AnswersLast
  /\ DelsOK /\ DeletionsOK /\ Awaited /\ HardwareOK
WaitsType == waits \in [Flts -> {"none", "add", "del"}]
FltInv == FtidsInv /\ MsgsInv /\ WaitsType /\ ServerFiltersOwned

(* The queues: a message is put at the end, or the first one taken.        *)
ReqPut(p, m) ==
  /\ \A q \in Ports : \A k \in 1 .. Len(reqs'[q]) :
       \/ q = p /\ k = Len(reqs[p]) + 1 /\ reqs'[q][k] = m
       \/ k \in 1 .. Len(reqs[q]) /\ reqs'[q][k] = reqs[q][k]
  /\ \A q \in Ports : \A k \in 1 .. Len(reqs[q]) :
       k \in 1 .. Len(reqs'[q]) /\ reqs'[q][k] = reqs[q][k]
  /\ Len(reqs[p]) + 1 \in 1 .. Len(reqs'[p]) /\ reqs'[p][Len(reqs[p]) + 1] = m
ReqTaken(p) ==
  /\ \A q \in Ports : \A k \in 1 .. Len(reqs'[q]) :
       \/ q = p /\ k + 1 \in 1 .. Len(reqs[q]) /\ reqs'[q][k] = reqs[q][k + 1]
       \/ q # p /\ k \in 1 .. Len(reqs[q]) /\ reqs'[q][k] = reqs[q][k]
  /\ \A q \in Ports : \A k \in 1 .. Len(reqs[q]) :
       \/ q = p /\ k = 1
       \/ q = p /\ k - 1 \in 1 .. Len(reqs'[q]) /\ reqs'[q][k - 1] = reqs[q][k]
       \/ q # p /\ k \in 1 .. Len(reqs'[q]) /\ reqs'[q][k] = reqs[q][k]
RplPut(r) ==
  /\ \A k \in 1 .. Len(rpls') :
       \/ k = Len(rpls) + 1 /\ rpls'[k] = r
       \/ k \in 1 .. Len(rpls) /\ rpls'[k] = rpls[k]
  /\ \A k \in 1 .. Len(rpls) : k \in 1 .. Len(rpls') /\ rpls'[k] = rpls[k]
  /\ Len(rpls) + 1 \in 1 .. Len(rpls') /\ rpls'[Len(rpls) + 1] = r
RplTaken ==
  /\ \A k \in 1 .. Len(rpls') : k + 1 \in 1 .. Len(rpls) /\ rpls'[k] = rpls[k + 1]
  /\ \A k \in 1 .. Len(rpls) :
       k = 1 \/ (k - 1 \in 1 .. Len(rpls') /\ rpls'[k - 1] = rpls[k])

LEMMA MsgFacts ==
  ASSUME MsgsType
  PROVE  /\ \A p \in Ports : Len(reqs[p]) \in Nat
         /\ \A p \in Ports : \A k \in 1 .. Len(reqs[p]) :
              /\ k \in Nat /\ reqs[p][k] \in Requests /\ reqs[p][k].tid \in Ids
              /\ IsAdd(p, k) => reqs[p][k].f \in Flts
              /\ IsAdd(p, k) <=> ~IsDel(p, k)
         /\ Len(rpls) \in Nat
         /\ \A k \in 1 .. Len(rpls) : /\ k \in Nat /\ rpls[k] \in Replies
                                      /\ rpls[k].tid \in Ids
                                      /\ rpls[k].ret \in {"added", "deleted", "error"}
         /\ \A t \in DOMAIN hwflt : hwflt[t] \in Flts
<1>1. \A p \in Ports : reqs[p] \in Seq(Requests)
  BY DEF MsgsType
<1>2. \A p \in Ports : \A k \in 1 .. Len(reqs[p]) : reqs[p][k] \in Requests
  BY <1>1, ElementOfSeq
<1>3. \A m \in Requests : /\ m.tid \in Ids /\ (m.op = "add" => m.f \in Flts)
                          /\ (m.op = "add" <=> ~(m.op = "del"))
  BY DEF Requests
<1>4. rpls \in Seq(Replies)
  BY DEF MsgsType
<1>5. \A k \in 1 .. Len(rpls) : rpls[k] \in Replies
  BY <1>4, ElementOfSeq
<1>6. \A r \in Replies : r.tid \in Ids /\ r.ret \in {"added", "deleted", "error"}
  BY DEF Replies
<1>7. \A t \in DOMAIN hwflt : hwflt[t] \in Flts
  BY DEF MsgsType
<1> QED
  BY <1>1, <1>2, <1>3, <1>4, <1>5, <1>6, <1>7 DEF IsAdd, IsDel

LEMMA Requested ==
  ASSUME MsgsType, NEW p \in Ports, NEW m \in Requests, Enqueue(p, m)
  PROVE  reqs' \in [Ports -> Seq(Requests)] /\ ReqPut(p, m)
<1>1. /\ reqs[p] \in Seq(Requests) /\ reqs \in [Ports -> Seq(Requests)]
      /\ reqs' = [reqs EXCEPT ![p] = Append(reqs[p], m)]
  BY DEF MsgsType, Enqueue
<1> DEFINE s == reqs[p]
           u == Append(s, m)
<1>2. u \in Seq(Requests) /\ Len(s) \in Nat /\ Len(u) = Len(s) + 1
      /\ u[Len(s) + 1] = m /\ \A k \in 1 .. Len(s) : u[k] = s[k]
  BY <1>1
<1> HIDE DEF u
<1>3. reqs'[p] = u /\ \A q \in Ports : q # p => reqs'[q] = reqs[q]
  BY <1>1 DEF u
<1>4. reqs' \in [Ports -> Seq(Requests)]
  BY <1>1, <1>2 DEF u
<1>5. ASSUME NEW k \in 1 .. Len(u)
      PROVE  \/ k = Len(s) + 1 /\ u[k] = m
             \/ k \in 1 .. Len(s) /\ u[k] = s[k]
  <2>1. k = Len(s) + 1 \/ k \in 1 .. Len(s)
    BY <1>2
  <2> QED
    BY <1>2, <2>1
<1>6. \A k \in 1 .. Len(s) : k \in 1 .. Len(u) /\ u[k] = s[k]
  BY <1>2
<1>7. Len(s) + 1 \in 1 .. Len(u)
  BY <1>2
<1> QED
  BY <1>2, <1>3, <1>4, <1>5, <1>6, <1>7 DEF ReqPut

LEMMA RequestTaken ==
  ASSUME MsgsType, NEW p \in Ports, reqs[p] # <<>>, reqs' = [reqs EXCEPT ![p] = Tail(@)]
  PROVE  /\ reqs' \in [Ports -> Seq(Requests)] /\ ReqTaken(p)
         /\ 1 \in 1 .. Len(reqs[p]) /\ Head(reqs[p]) = reqs[p][1]
<1>1. /\ reqs[p] \in Seq(Requests) /\ reqs \in [Ports -> Seq(Requests)]
      /\ reqs' = [reqs EXCEPT ![p] = Tail(reqs[p])]
  BY DEF MsgsType
<1> DEFINE s == reqs[p]
           u == Tail(s)
<1>2. u \in Seq(Requests) /\ Len(s) \in Nat \ {0} /\ Len(u) = Len(s) - 1
      /\ Head(s) = s[1] /\ \A k \in 1 .. Len(s) - 1 : u[k] = s[k + 1]
  BY <1>1, HeadTailProperties
<1> HIDE DEF u
<1>3. reqs'[p] = u /\ \A q \in Ports : q # p => reqs'[q] = reqs[q]
  BY <1>1 DEF u
<1>4. reqs' \in [Ports -> Seq(Requests)]
  BY <1>1, <1>2 DEF u
<1>5. \A k \in 1 .. Len(s) : k = 1 \/ (k - 1 \in 1 .. Len(u) /\ u[k - 1] = s[k])
  <2> SUFFICES ASSUME NEW k \in 1 .. Len(s), k # 1
               PROVE  k - 1 \in 1 .. Len(u) /\ u[k - 1] = s[k]
    OBVIOUS
  <2>1. k - 1 \in 1 .. Len(s) - 1 /\ (k - 1) + 1 = k
    BY <1>2
  <2> QED
    BY <1>2, <2>1
<1> QED
  BY <1>2, <1>3, <1>4, <1>5 DEF ReqTaken

LEMMA Replied ==
  ASSUME MsgsType, NEW r \in Replies, rpls' = Append(rpls, r)
  PROVE  rpls' \in Seq(Replies) /\ RplPut(r)
<1>1. rpls \in Seq(Replies)
  BY DEF MsgsType
<1>2. rpls' \in Seq(Replies) /\ Len(rpls) \in Nat /\ Len(rpls') = Len(rpls) + 1
      /\ rpls'[Len(rpls) + 1] = r /\ \A k \in 1 .. Len(rpls) : rpls'[k] = rpls[k]
  BY <1>1
<1> QED
  BY <1>2 DEF RplPut

LEMMA ReplyTaken ==
  ASSUME MsgsType, rpls # <<>>, rpls' = Tail(rpls)
  PROVE  /\ rpls' \in Seq(Replies) /\ RplTaken
         /\ 1 \in 1 .. Len(rpls) /\ Head(rpls) = rpls[1]
<1>1. rpls \in Seq(Replies)
  BY DEF MsgsType
<1>2. rpls' \in Seq(Replies) /\ Len(rpls) \in Nat \ {0} /\ Len(rpls') = Len(rpls) - 1
      /\ Head(rpls) = rpls[1] /\ \A k \in 1 .. Len(rpls) - 1 : rpls'[k] = rpls[k + 1]
  BY <1>1, HeadTailProperties
<1>3. \A k \in 1 .. Len(rpls) : k = 1 \/ (k - 1 \in 1 .. Len(rpls') /\ rpls'[k - 1] = rpls[k])
  <2> SUFFICES ASSUME NEW k \in 1 .. Len(rpls), k # 1
               PROVE  k - 1 \in 1 .. Len(rpls') /\ rpls'[k - 1] = rpls[k]
    OBVIOUS
  <2>1. k - 1 \in 1 .. Len(rpls) - 1 /\ (k - 1) + 1 = k
    BY <1>2
  <2> QED
    BY <1>2, <2>1
<1> QED
  BY <1>2, <1>3 DEF RplTaken

LEMMA TableFacts ==
  ASSUME TablesInv
  PROVE  /\ \A i \in DOMAIN ftids.tab : /\ ftids.tab[i] \in Flts /\ flt[ftids.tab[i]].live
                                        /\ flt[ftids.tab[i]].tid = i
         /\ \A f \in Flts : flt[f].live =>
              flt[f].tid \in DOMAIN ftids.tab /\ ftids.tab[flt[f].tid] = f
BY DEF TablesInv, NamesOK, FtidsType

LEMMA OthersStay ==
  ASSUME NEW f, \A g \in Flts : g # f => flt'[g] = flt[g]
  PROVE  \A g \in Flts : g # f => /\ Creating(g)' <=> Creating(g)
                                  /\ Standing(g)' <=> Standing(g)
                                  /\ Deleting(g)' <=> Deleting(g)
                                  /\ Silent(g)' <=> Silent(g)
BY DEF Creating, Standing, Deleting, Silent

NoMsgs(t) ==
  /\ \A p \in Ports : \A k \in 1 .. Len(reqs[p]) : reqs[p][k].tid # t
  /\ \A k \in 1 .. Len(rpls) : rpls[k].tid # t

(* A creation is sent, after all that is under way about its identifier.   *)
LEMMA CreationSent ==
  ASSUME FtidsInv, MsgsInv, NEW f \in Flts, NEW ctx \in BOOLEAN, NEW o, Enters(f, o, ctx),
         Enqueue(Port[f], CreateWr(f, o)), rpls' = rpls, hwflt' = hwflt,
         waits'[f] = IF ctx THEN "add" ELSE "none",
         \A g \in Flts : g # f => waits'[g] = waits[g],
         NoMsgs(o) \/ (~ctx /\ Port[f] = 0)
  PROVE  MsgsInv'
<1> DEFINE p0 == Port[f]
           m == CreateWr(f, o)
<1>1. /\ TablesInv /\ MsgsType /\ StatesOK /\ AddsOK /\ AddsLast /\ AnswersOK
      /\ AnswersLast /\ DelsOK /\ DeletionsOK /\ Awaited /\ HardwareOK
  BY DEF FtidsInv, MsgsInv
<1>2. /\ o \in Ids /\ o \notin DOMAIN ftids.tab /\ ~flt[f].live
      /\ DOMAIN ftids'.tab = DOMAIN ftids.tab \cup {o}
      /\ \A i \in DOMAIN ftids'.tab : ftids'.tab[i] = IF i = o THEN f ELSE ftids.tab[i]
  BY <1>1, FilterEnters DEF Enters
<1>3. /\ flt'[f].live /\ flt'[f].tid = o /\ flt'[f].pending /\ ~flt'[f].valid
      /\ flt'[f].ctx = ctx /\ \A g \in Flts : g # f => flt'[g] = flt[g]
  BY <1>1 DEF Enters, Sent, TablesInv, FltsType
<1>4. /\ p0 \in Ports /\ m \in Requests /\ m.op = "add" /\ m.tid = o /\ m.f = f
  BY <1>2 DEF Ports, CreateWr, Requests
<1>5. reqs' \in [Ports -> Seq(Requests)] /\ ReqPut(p0, m)
  BY <1>1, <1>4, Requested
<1>n. PICK n : n = Len(reqs[p0]) + 1
  OBVIOUS
<1>0. n \in 1 .. Len(reqs'[p0]) /\ reqs'[p0][n] = m
  BY <1>4, <1>5, <1>n DEF ReqPut
<1> HIDE DEF m
<1>6. \A g \in Flts : g # f => /\ Creating(g)' <=> Creating(g)
                               /\ Standing(g)' <=> Standing(g)
                               /\ Deleting(g)' <=> Deleting(g)
                               /\ Silent(g)' <=> Silent(g)
  BY <1>3, OthersStay
<1>7. Creating(f)' /\ ~Standing(f)' /\ ~Deleting(f)' /\ (Silent(f)' <=> (~ctx /\ p0 = 0))
  BY <1>3 DEF Creating, Standing, Deleting, Silent
<1>8. /\ ~Creating(f) /\ ~Standing(f) /\ ~Deleting(f)
      /\ \A i \in DOMAIN ftids.tab : ftids.tab[i] \in Flts /\ ftids.tab[i] # f
                                     /\ flt[ftids.tab[i]].tid = i
  BY <1>1, <1>2, TableFacts DEF Creating, Standing, Deleting
<1>9. /\ \A p \in Ports : Len(reqs[p]) \in Nat
      /\ \A p \in Ports : \A k \in 1 .. Len(reqs[p]) :
           /\ reqs[p][k].tid \in Ids /\ (IsAdd(p, k) => reqs[p][k].f \in Flts)
           /\ IsAdd(p, k) <=> ~IsDel(p, k)
      /\ \A t \in DOMAIN hwflt : hwflt[t] \in Flts
  BY <1>1, MsgFacts
<1>10. \A p \in Ports : \A k \in 1 .. Len(reqs'[p]) :
         \/ /\ p = p0 /\ k = n /\ reqs'[p][k] = m /\ IsAdd(p, k)' /\ ~IsDel(p, k)'
            /\ n = Len(reqs[p]) + 1
         \/ /\ k \in 1 .. Len(reqs[p]) /\ reqs'[p][k] = reqs[p][k]
            /\ IsAdd(p, k)' <=> IsAdd(p, k)
            /\ IsDel(p, k)' <=> IsDel(p, k)
  BY <1>4, <1>5, <1>n DEF ReqPut, IsAdd, IsDel
<1>11. \A p \in Ports : \A k \in 1 .. Len(reqs[p]) :
         /\ k \in 1 .. Len(reqs'[p]) /\ reqs'[p][k] = reqs[p][k]
         /\ IsAdd(p, k)' <=> IsAdd(p, k)
         /\ IsDel(p, k)' <=> IsDel(p, k)
  BY <1>5 DEF ReqPut, IsAdd, IsDel
<1>12. IsAdd(p0, n)'
  BY <1>0, <1>4 DEF IsAdd
<1> HIDE DEF p0
<1>a. p0 = Port[f]
  BY DEF p0
<1>13. \A k \in 1 .. Len(rpls) : Answers(k)' <=> Answers(k)
  BY DEF Answers
<1>14. \A p \in Ports : \A k \in 1 .. Len(reqs[p]) : IsAdd(p, k) =>
         reqs[p][k].f # f /\ reqs[p][k].tid \in DOMAIN ftids.tab
  BY <1>1, <1>8, <1>9, TableFacts DEF AddsOK, AddOK, Creating
<1>15. MsgsType' /\ StatesOK'
  BY <1>1, <1>3, <1>5, <1>6, <1>7 DEF MsgsType, StatesOK
<1>16. AddsOK'
  <2> SUFFICES ASSUME NEW p \in Ports, NEW k \in 1 .. Len(reqs'[p]), IsAdd(p, k)'
               PROVE  AddOK(p, k)'
    BY DEF AddsOK
  <2>1. CASE p = p0 /\ k = n
    BY <1>0, <1>3, <1>4, <1>7, <1>a, <2>1 DEF AddOK
  <2>2. CASE k \in 1 .. Len(reqs[p]) /\ reqs'[p][k] = reqs[p][k]
    <3>1. AddOK(p, k) /\ reqs[p][k].f \in Flts /\ reqs[p][k].f # f
      BY <1>1, <1>9, <1>11, <1>14, <2>2 DEF AddsOK
    <3> QED
      BY <1>3, <1>6, <2>2, <3>1 DEF AddOK
  <2> QED
    BY <1>10, <2>1, <2>2
<1>17. AddsLast'
  <2> SUFFICES ASSUME NEW p \in Ports, NEW k \in 1 .. Len(reqs'[p]), IsAdd(p, k)'
               PROVE  LastAdd(p, k)'
    BY DEF AddsLast
  <2>1. CASE p = p0 /\ k = n
    <3>1. reqs'[p][k].tid = o
      BY <1>0, <1>4, <2>1
    <3>2. ASSUME NEW j \in 1 .. Len(reqs'[p]), j # k, reqs'[p][j].tid = o
          PROVE  j < k /\ IsDel(p, j)'
      <4>1. j \in 1 .. Len(reqs[p]) /\ reqs'[p][j] = reqs[p][j] /\ (IsDel(p, j)' <=> IsDel(p, j))
        BY <1>10, <2>1, <3>2
      <4>2. ~IsAdd(p, j)
        BY <1>2, <1>14, <3>2, <4>1
      <4> QED
        BY <1>9, <1>n, <2>1, <4>1, <4>2
    <3>3. ASSUME NEW j \in 1 .. Len(rpls), rpls[j].tid = o
          PROVE  rpls[j].ret = "deleted"
      BY <1>1, <1>2, <3>3 DEF AnswersOK, AnswerOK, Answers
    <3> QED
      BY <3>1, <3>2, <3>3 DEF LastAdd
  <2>2. CASE k \in 1 .. Len(reqs[p]) /\ reqs'[p][k] = reqs[p][k]
    <3>1. IsAdd(p, k) /\ reqs[p][k].tid # o /\ LastAdd(p, k)
      BY <1>1, <1>2, <1>11, <1>14, <2>2 DEF AddsLast
    <3>2. ASSUME NEW j \in 1 .. Len(reqs'[p]), j # k, reqs'[p][j].tid = reqs[p][k].tid
          PROVE  j < k /\ IsDel(p, j)'
      BY <1>4, <1>10, <2>2, <3>1, <3>2 DEF LastAdd
    <3> QED
      BY <2>2, <3>1, <3>2 DEF LastAdd
  <2> QED
    BY <1>10, <2>1, <2>2
<1>18. AnswersOK'
  BY <1>1, <1>2, <1>6, <1>8, <1>13 DEF AnswersOK, AnswerOK
<1>19. AnswersLast'
  <2>1. ASSUME NEW k \in 1 .. Len(rpls), Answers(k), NEW p \in Ports,
               NEW j \in 1 .. Len(reqs'[p])
        PROVE  reqs'[p][j].tid # rpls[k].tid
    <3>1. rpls[k].tid # o /\ LastAnswer(k)
      BY <1>1, <1>2, <2>1 DEF AnswersOK, AnswersLast, AnswerOK
    <3> QED
      BY <1>4, <1>10, <3>1 DEF LastAnswer
  <2> QED
    BY <1>1, <1>13, <2>1 DEF AnswersLast, LastAnswer
<1>20. DelsOK'
  <2> SUFFICES ASSUME NEW p \in Ports, NEW k \in 1 .. Len(reqs'[p]), IsDel(p, k)'
               PROVE  DelOK(p, k)'
    BY DEF DelsOK
  <2>1. /\ k \in 1 .. Len(reqs[p]) /\ reqs'[p][k] = reqs[p][k] /\ IsDel(p, k) /\ DelOK(p, k)
    BY <1>1, <1>10 DEF DelsOK
  <2>2. CASE reqs[p][k].tid = o
    BY <1>2, <1>7, <1>a, <2>1, <2>2 DEF NoMsgs, DelOK
  <2>3. CASE reqs[p][k].tid # o
    BY <1>2, <1>6, <1>8, <2>1, <2>3 DEF DelOK
  <2> QED
    BY <2>2, <2>3
<1>21. DeletionsOK'
  <2> SUFFICES ASSUME NEW k \in 1 .. Len(rpls), ~Answers(k)
               PROVE  DeletedOK(k)'
    BY <1>13 DEF DeletionsOK
  <2>1. DeletedOK(k)
    BY <1>1 DEF DeletionsOK
  <2>2. CASE rpls[k].tid = o
    BY <1>2, <1>7, <1>a, <2>2 DEF NoMsgs, DeletedOK
  <2>3. CASE rpls[k].tid # o
    BY <1>2, <1>6, <1>8, <2>1, <2>3 DEF DeletedOK
  <2> QED
    BY <2>2, <2>3
<1>22. Awaited'
  <2>1. AddAwaited(f)'
    BY <1>0, <1>3, <1>4, <1>12, <1>a DEF AddAwaited
  <2>2. ASSUME NEW g \in Flts, g # f, Creating(g) PROVE AddAwaited(g)'
    <3>1. AddAwaited(g) /\ flt'[g] = flt[g] /\ Port[g] \in Ports
      BY <1>1, <1>3, <2>2 DEF Awaited, Ports
    <3> QED
      BY <1>11, <1>13, <3>1 DEF AddAwaited
  <2>3. ASSUME NEW g \in Flts, g # f, Deleting(g) PROVE DelAwaited(g)'
    <3>1. DelAwaited(g) /\ flt'[g] = flt[g] /\ 0 \in Ports
      BY <1>1, <1>3, <2>3 DEF Awaited, Ports
    <3> QED
      BY <1>11, <1>13, <3>1 DEF DelAwaited
  <2> QED
    BY <1>6, <1>7, <2>1, <2>2, <2>3 DEF Awaited
<1>23. HardwareOK'
  <2>1. ASSUME NEW t \in DOMAIN hwflt, There(t) PROVE There(t)'
    BY <1>2, <1>3, <1>8, <2>1 DEF There
  <2>2. ASSUME NEW t \in DOMAIN hwflt, Leaving(t) PROVE Leaving(t)'
    <3>1. PICK i \in 1 .. Len(reqs[0]) :
            IsDel(0, i) /\ reqs[0][i].tid = t /\ BeforeDel(i, hwflt[t])
      BY <2>2 DEF Leaving
    <3>2. 0 \in Ports /\ hwflt[t] \in Flts
      BY <1>9 DEF Ports
    <3>3. BeforeDel(i, hwflt[t])'
      <4> DEFINE g == hwflt[t]
      <4> SUFFICES ASSUME Deleting(g)'
                   PROVE  /\ \A k \in 1 .. Len(rpls) : rpls[k].tid = flt'[g].tid => Answers(k)
                          /\ \A k \in 1 .. Len(reqs'[0]) :
                               IsDel(0, k)' /\ reqs'[0][k].tid = flt'[g].tid => i < k
        BY <1>13 DEF BeforeDel
      <4>1. g # f /\ Deleting(g) /\ flt'[g] = flt[g]
        BY <1>3, <1>6, <1>7, <3>2
      <4> QED
        BY <1>10, <3>1, <3>2, <4>1 DEF BeforeDel
    <3> QED
      BY <1>11, <3>1, <3>2, <3>3 DEF Leaving
  <2>3. \A t \in DOMAIN ftids'.tab : Stands(t)'
    BY <1>1, <1>2, <1>6, <1>7, <1>8 DEF HardwareOK, Stands
  <2> QED
    BY <1>1, <2>1, <2>2, <2>3 DEF HardwareOK
<1> QED
  BY <1>15, <1>16, <1>17, <1>18, <1>19, <1>20, <1>21, <1>22, <1>23 DEF MsgsInv


(* A deletion is sent of a filter that stands: its caller waits for it, or *)
(* the filter goes at once.                                                *)
LEMMA DeletionSent ==
  ASSUME FtidsInv, MsgsInv, NEW id \in DOMAIN ftids.tab, NEW f, f = ftids.tab[id], Standing(f),
         Enqueue(0, DeleteWr(id)), rpls' = rpls, hwflt' = hwflt,
         \A i \in DOMAIN ftids'.tab : i \in DOMAIN ftids.tab /\ ftids'.tab[i] = ftids.tab[i],
         \A i \in DOMAIN ftids.tab : i # id => i \in DOMAIN ftids'.tab,
         ~Creating(f)', ~Standing(f)', Deleting(f)' <=> id \in DOMAIN ftids'.tab,
         Deleting(f)' => flt'[f].tid = id,
         \A g \in Flts : g # f => flt'[g] = flt[g],
         StatesOK'
  PROVE  MsgsInv'
<1> DEFINE m == DeleteWr(id)
<1>1. /\ TablesInv /\ MsgsType /\ StatesOK /\ AddsOK /\ AddsLast /\ AnswersOK
      /\ AnswersLast /\ DelsOK /\ DeletionsOK /\ Awaited /\ HardwareOK
  BY DEF FtidsInv, MsgsInv
<1>2. /\ f \in Flts /\ id \in Ids /\ flt[f].tid = id /\ ~Creating(f) /\ ~Deleting(f)
      /\ ~Silent(f) /\ ~Silent(f)'
  BY <1>1, TableFacts DEF Standing, Creating, Deleting, Silent, TablesInv, FtidsType
<1>3. \A i \in DOMAIN ftids.tab : /\ ftids.tab[i] \in Flts /\ flt[ftids.tab[i]].tid = i
                                  /\ ftids.tab[i] = f => i = id
  BY <1>1, <1>2, TableFacts
<1>4. 0 \in Ports /\ m \in Requests /\ m.op = "del" /\ m.tid = id
  BY <1>2 DEF Ports, DeleteWr, Requests
<1>5. reqs' \in [Ports -> Seq(Requests)] /\ ReqPut(0, m)
  BY <1>1, <1>4, Requested
<1>n. PICK n : n = Len(reqs[0]) + 1
  OBVIOUS
<1>0. n \in 1 .. Len(reqs'[0]) /\ reqs'[0][n] = m /\ IsDel(0, n)'
  BY <1>4, <1>5, <1>n DEF ReqPut, IsDel
<1> HIDE DEF m
<1>6. \A g \in Flts : g # f => /\ Creating(g)' <=> Creating(g)
                               /\ Standing(g)' <=> Standing(g)
                               /\ Deleting(g)' <=> Deleting(g)
                               /\ Silent(g)' <=> Silent(g)
  BY OthersStay
<1>9. /\ \A p \in Ports : Len(reqs[p]) \in Nat
      /\ \A p \in Ports : \A k \in 1 .. Len(reqs[p]) :
           /\ reqs[p][k].tid \in Ids /\ (IsAdd(p, k) => reqs[p][k].f \in Flts)
           /\ IsAdd(p, k) <=> ~IsDel(p, k)
      /\ \A t \in DOMAIN hwflt : hwflt[t] \in Flts
  BY <1>1, MsgFacts
<1>10. \A p \in Ports : \A k \in 1 .. Len(reqs'[p]) :
         \/ /\ p = 0 /\ k = n /\ reqs'[p][k] = m /\ ~IsAdd(p, k)' /\ IsDel(p, k)'
            /\ n = Len(reqs[p]) + 1
         \/ /\ k \in 1 .. Len(reqs[p]) /\ reqs'[p][k] = reqs[p][k]
            /\ IsAdd(p, k)' <=> IsAdd(p, k)
            /\ IsDel(p, k)' <=> IsDel(p, k)
  BY <1>4, <1>5, <1>n DEF ReqPut, IsAdd, IsDel
<1>11. \A p \in Ports : \A k \in 1 .. Len(reqs[p]) :
         /\ k \in 1 .. Len(reqs'[p]) /\ reqs'[p][k] = reqs[p][k]
         /\ IsAdd(p, k)' <=> IsAdd(p, k)
         /\ IsDel(p, k)' <=> IsDel(p, k)
  BY <1>5 DEF ReqPut, IsAdd, IsDel
<1>13. \A k \in 1 .. Len(rpls) : Answers(k)' <=> Answers(k)
  BY DEF Answers
<1>14. \A p \in Ports : \A k \in 1 .. Len(reqs[p]) : IsAdd(p, k) =>
         reqs[p][k].f # f /\ reqs[p][k].tid # id
  <2> SUFFICES ASSUME NEW p \in Ports, NEW k \in 1 .. Len(reqs[p]), IsAdd(p, k)
               PROVE  reqs[p][k].f # f /\ reqs[p][k].tid # id
    OBVIOUS
  <2>1. reqs[p][k].f \in Flts /\ Creating(reqs[p][k].f) /\ flt[reqs[p][k].f].tid = reqs[p][k].tid
    BY <1>1, <1>9 DEF AddsOK, AddOK
  <2>2. ftids.tab[reqs[p][k].tid] = reqs[p][k].f
    BY <1>1, <2>1, TableFacts DEF Creating
  <2> QED
    BY <1>2, <2>1, <2>2
<1>15. MsgsType' /\ StatesOK'
  BY <1>1, <1>5 DEF MsgsType
<1>16. AddsOK'
  <2> SUFFICES ASSUME NEW p \in Ports, NEW k \in 1 .. Len(reqs'[p]), IsAdd(p, k)'
               PROVE  AddOK(p, k)'
    BY DEF AddsOK
  <2>1. /\ k \in 1 .. Len(reqs[p]) /\ reqs'[p][k] = reqs[p][k] /\ AddOK(p, k)
        /\ reqs[p][k].f \in Flts /\ reqs[p][k].f # f
    BY <1>1, <1>9, <1>10, <1>14 DEF AddsOK
  <2> QED
    BY <1>6, <2>1 DEF AddOK
<1>17. AddsLast'
  <2> SUFFICES ASSUME NEW p \in Ports, NEW k \in 1 .. Len(reqs'[p]), IsAdd(p, k)'
               PROVE  LastAdd(p, k)'
    BY DEF AddsLast
  <2>1. /\ k \in 1 .. Len(reqs[p]) /\ reqs'[p][k] = reqs[p][k]
        /\ LastAdd(p, k) /\ reqs[p][k].tid # id
    BY <1>1, <1>10, <1>14 DEF AddsLast
  <2>2. ASSUME NEW j \in 1 .. Len(reqs'[p]), j # k, reqs'[p][j].tid = reqs[p][k].tid
        PROVE  j < k /\ IsDel(p, j)'
    BY <1>4, <1>10, <2>1, <2>2 DEF LastAdd
  <2> QED
    BY <2>1, <2>2 DEF LastAdd
<1>18. ASSUME NEW k \in 1 .. Len(rpls), Answers(k)
       PROVE  rpls[k].tid # id /\ AnswerOK(k)'
  <2>1. AnswerOK(k) /\ rpls[k].tid # id
    BY <1>1, <1>2, <1>18 DEF AnswersOK, AnswerOK
  <2>2. /\ rpls[k].tid \in DOMAIN ftids'.tab /\ ftids'.tab[rpls[k].tid] = ftids.tab[rpls[k].tid]
        /\ ftids.tab[rpls[k].tid] \in Flts /\ ftids.tab[rpls[k].tid] # f
    BY <1>3, <2>1 DEF AnswerOK
  <2> QED
    BY <1>6, <2>1, <2>2 DEF AnswerOK
<1>19. AnswersOK' /\ AnswersLast'
  <2>1. ASSUME NEW k \in 1 .. Len(rpls), Answers(k), NEW p \in Ports,
               NEW j \in 1 .. Len(reqs'[p])
        PROVE  reqs'[p][j].tid # rpls[k].tid
    <3>1. rpls[k].tid # id /\ LastAnswer(k)
      BY <1>1, <1>18, <2>1 DEF AnswersLast
    <3> QED
      BY <1>4, <1>10, <3>1 DEF LastAnswer
  <2>2. AnswersLast'
    BY <1>1, <1>13, <2>1 DEF AnswersLast, LastAnswer
  <2> QED
    BY <1>13, <1>18, <2>2 DEF AnswersOK
<1>20. DelsOK'
  <2> SUFFICES ASSUME NEW p \in Ports, NEW k \in 1 .. Len(reqs'[p]), IsDel(p, k)'
               PROVE  DelOK(p, k)'
    BY DEF DelsOK
  <2>1. CASE p = 0 /\ k = n
    BY <1>0, <1>4, <2>1 DEF DelOK
  <2>2. CASE k \in 1 .. Len(reqs[p]) /\ reqs'[p][k] = reqs[p][k] /\ IsDel(p, k)
    <3>1. DelOK(p, k) /\ reqs[p][k].tid # id
      BY <1>1, <1>2, <2>2 DEF DelsOK, DelOK
    <3> QED
      BY <1>3, <1>6, <2>2, <3>1 DEF DelOK
  <2> QED
    BY <1>10, <2>1, <2>2
<1>21. ASSUME NEW k \in 1 .. Len(rpls), ~Answers(k)
       PROVE  rpls[k].tid # id /\ DeletedOK(k)'
  <2>1. DeletedOK(k) /\ rpls[k].tid # id
    BY <1>1, <1>2, <1>21 DEF DeletionsOK, DeletedOK
  <2> QED
    BY <1>3, <1>6, <2>1 DEF DeletedOK
<1>22. DeletionsOK'
  BY <1>13, <1>21 DEF DeletionsOK
<1>23. Awaited'
  <2>1. ASSUME Deleting(f)' PROVE DelAwaited(f)'
    BY <1>0, <1>4, <2>1 DEF DelAwaited
  <2>2. ASSUME NEW g \in Flts, g # f, Creating(g) PROVE AddAwaited(g)'
    <3>1. AddAwaited(g) /\ flt'[g] = flt[g] /\ Port[g] \in Ports
      BY <1>1, <2>2 DEF Awaited, Ports
    <3> QED
      BY <1>11, <1>13, <3>1 DEF AddAwaited
  <2>3. ASSUME NEW g \in Flts, g # f, Deleting(g) PROVE DelAwaited(g)'
    <3>1. DelAwaited(g) /\ flt'[g] = flt[g] /\ 0 \in Ports
      BY <1>1, <2>3 DEF Awaited, Ports
    <3> QED
      BY <1>11, <1>13, <3>1 DEF DelAwaited
  <2> QED
    BY <1>6, <2>1, <2>2, <2>3 DEF Awaited
<1>24. HardwareOK'
  <2>1. ASSUME NEW t \in DOMAIN hwflt, There(t) PROVE There(t)' \/ Leaving(t)'
    <3>1. CASE t = id /\ ~Deleting(f)'
      <4>1. hwflt[t] = f /\ BeforeDel(n, f)'
        BY <2>1, <3>1 DEF There, BeforeDel
      <4> QED
        BY <1>0, <1>4, <3>1, <4>1 DEF Leaving
    <3>2. CASE t = id /\ Deleting(f)'
      BY <2>1, <3>2 DEF There, Deleting
    <3>3. CASE t # id
      <4>1. /\ t \in DOMAIN ftids'.tab /\ ftids'.tab[t] = ftids.tab[t] /\ ftids.tab[t] # f
            /\ flt'[ftids.tab[t]] = flt[ftids.tab[t]]
        BY <1>3, <2>1, <3>3 DEF There
      <4> QED
        BY <2>1, <4>1 DEF There
    <3> QED
      BY <3>1, <3>2, <3>3
  <2>2. ASSUME NEW t \in DOMAIN hwflt, Leaving(t) PROVE Leaving(t)'
    <3>1. PICK i \in 1 .. Len(reqs[0]) :
            IsDel(0, i) /\ reqs[0][i].tid = t /\ BeforeDel(i, hwflt[t])
      BY <2>2 DEF Leaving
    <3>2. 0 \in Ports /\ hwflt[t] \in Flts
      BY <1>9 DEF Ports
    <3>3. BeforeDel(i, hwflt[t])'
      <4> DEFINE g == hwflt[t]
      <4> SUFFICES ASSUME Deleting(g)'
                   PROVE  /\ \A k \in 1 .. Len(rpls) : rpls[k].tid = flt'[g].tid => Answers(k)
                          /\ \A k \in 1 .. Len(reqs'[0]) :
                               IsDel(0, k)' /\ reqs'[0][k].tid = flt'[g].tid => i < k
        BY <1>13 DEF BeforeDel
      <4>1. CASE g = f
        <5>1. flt'[g].tid = id
          BY <4>1
        <5>2. \A k \in 1 .. Len(rpls) : rpls[k].tid = id => Answers(k)
          BY <1>21
        <5>3. \A k \in 1 .. Len(reqs[0]) : IsDel(0, k) => reqs[0][k].tid # id
          BY <1>1, <1>2, <3>2 DEF DelsOK, DelOK
        <5>4. i < n
          BY <1>9, <1>n, <3>2
        <5> QED
          BY <1>10, <3>2, <5>1, <5>2, <5>3, <5>4
      <4>2. CASE g # f
        <5>1. Deleting(g) /\ flt'[g] = flt[g] /\ flt[g].tid # id
          BY <1>1, <1>6, <3>2, <4>2, TableFacts DEF Deleting
        <5> QED
          BY <1>4, <1>10, <3>1, <3>2, <5>1 DEF BeforeDel
      <4> QED
        BY <4>1, <4>2
    <3> QED
      BY <1>11, <3>1, <3>2, <3>3 DEF Leaving
  <2>3. \A t \in DOMAIN ftids'.tab : Stands(t)'
    BY <1>1, <1>3, <1>6 DEF HardwareOK, Stands
  <2> QED
    BY <1>1, <2>1, <2>2, <2>3 DEF HardwareOK
<1> QED
  BY <1>15, <1>16, <1>17, <1>19, <1>20, <1>22, <1>23, <1>24 DEF MsgsInv


(* What is known of the requests that remain, by those that there were.    *)
Shifted(p) ==
  /\ \A q \in Ports : \A k \in 1 .. Len(reqs'[q]) : \E i \in 1 .. Len(reqs[q]) :
       /\ q = p => i = k + 1
       /\ q # p => i = k
       /\ reqs'[q][k] = reqs[q][i]
       /\ IsAdd(q, k)' <=> IsAdd(q, i)
       /\ IsDel(q, k)' <=> IsDel(q, i)
  /\ \A q \in Ports : \A k \in 1 .. Len(reqs[q]) :
       \/ q = p /\ k = 1
       \/ \E i \in 1 .. Len(reqs'[q]) :
            /\ q = p => k = i + 1
            /\ q # p => k = i
            /\ reqs'[q][i] = reqs[q][k]
            /\ IsAdd(q, i)' <=> IsAdd(q, k)
            /\ IsDel(q, i)' <=> IsDel(q, k)

LEMMA RequestsShift ==
  ASSUME MsgsType, NEW p \in Ports, ReqTaken(p)
  PROVE  Shifted(p)
<1>1. ASSUME NEW q \in Ports, NEW k \in 1 .. Len(reqs'[q])
      PROVE  \E i \in 1 .. Len(reqs[q]) :
               /\ q = p => i = k + 1
               /\ q # p => i = k
               /\ reqs'[q][k] = reqs[q][i]
  BY DEF ReqTaken
<1>2. ASSUME NEW q \in Ports, NEW k \in 1 .. Len(reqs[q]), ~(q = p /\ k = 1)
      PROVE  \E i \in 1 .. Len(reqs'[q]) :
               /\ q = p => k = i + 1
               /\ q # p => k = i
               /\ reqs'[q][i] = reqs[q][k]
  <2>1. k \in Nat
    BY MsgFacts
  <2>2. CASE q = p
    <3>1. k - 1 \in 1 .. Len(reqs'[q]) /\ reqs'[q][k - 1] = reqs[q][k] /\ k = (k - 1) + 1
      BY <1>2, <2>1, <2>2 DEF ReqTaken
    <3> QED
      BY <2>2, <3>1
  <2>3. CASE q # p
    BY <2>3 DEF ReqTaken
  <2> QED
    BY <2>2, <2>3
<1>3. \A q \in Ports : \A k \in 1 .. Len(reqs'[q]) : \A i \in 1 .. Len(reqs[q]) :
        reqs'[q][k] = reqs[q][i] => /\ IsAdd(q, k)' <=> IsAdd(q, i)
                                    /\ IsDel(q, k)' <=> IsDel(q, i)
  BY DEF IsAdd, IsDel
<1>4. \A q \in Ports : \A k \in 1 .. Len(reqs'[q]) : \E i \in 1 .. Len(reqs[q]) :
       /\ q = p => i = k + 1
       /\ q # p => i = k
       /\ reqs'[q][k] = reqs[q][i]
       /\ IsAdd(q, k)' <=> IsAdd(q, i)
       /\ IsDel(q, k)' <=> IsDel(q, i)
  BY <1>1, <1>3
<1>5. \A q \in Ports : \A k \in 1 .. Len(reqs[q]) :
       \/ q = p /\ k = 1
       \/ \E i \in 1 .. Len(reqs'[q]) :
            /\ q = p => k = i + 1
            /\ q # p => k = i
            /\ reqs'[q][i] = reqs[q][k]
            /\ IsAdd(q, i)' <=> IsAdd(q, k)
            /\ IsDel(q, i)' <=> IsDel(q, k)
  BY <1>2, <1>3
<1> QED
  BY <1>4, <1>5 DEF Shifted

(* The firmware takes a deletion and answers.                              *)
LEMMA FirmwareDeletes ==
  ASSUME FtidsInv, MsgsInv, NEW p \in Ports, reqs[p] # <<>>, Head(reqs[p]).op = "del",
         hwflt' = Restrict(hwflt, DOMAIN hwflt \ {Head(reqs[p]).tid}),
         rpls' = Append(rpls, [tid |-> Head(reqs[p]).tid, ret |-> "deleted"]),
         reqs' = [reqs EXCEPT ![p] = Tail(@)],
         ftids' = ftids, flt' = flt, waits' = waits
  PROVE  MsgsInv'
<1> DEFINE m == Head(reqs[p])
           r == [tid |-> m.tid, ret |-> "deleted"]
<1>1. /\ TablesInv /\ MsgsType /\ StatesOK /\ AddsOK /\ AddsLast /\ AnswersOK
      /\ AnswersLast /\ DelsOK /\ DeletionsOK /\ Awaited /\ HardwareOK
  BY DEF FtidsInv, MsgsInv
<1>2. /\ reqs' \in [Ports -> Seq(Requests)] /\ ReqTaken(p)
      /\ 1 \in 1 .. Len(reqs[p]) /\ m = reqs[p][1]
  BY <1>1, RequestTaken
<1>3. PICK t : t = m.tid
  OBVIOUS
<1>4. IsDel(p, 1) /\ ~IsAdd(p, 1) /\ t \in Ids /\ p = 0 /\ DelOK(p, 1) /\ reqs[p][1].tid = t
  BY <1>1, <1>2, <1>3, MsgFacts DEF IsDel, DelsOK, DelOK
<1>5. r \in Replies /\ r.tid = t /\ r.ret = "deleted"
  BY <1>3, <1>4 DEF Replies
<1>6. rpls' \in Seq(Replies) /\ RplPut(r)
  BY <1>1, <1>5, Replied
<1>7. /\ DOMAIN hwflt' = DOMAIN hwflt \ {t}
      /\ \A i \in DOMAIN hwflt' : hwflt'[i] = hwflt[i]
      /\ hwflt' \in [DOMAIN hwflt' -> Flts]
  <2>1. hwflt' = [i \in DOMAIN hwflt \ {t} |-> hwflt[i]]
    BY <1>3 DEF Restrict
  <2> QED
    BY <1>1, <2>1, MsgFacts
<1>n. PICK n : n = Len(rpls) + 1
  OBVIOUS
<1>0. n \in 1 .. Len(rpls') /\ rpls'[n] = r /\ ~Answers(n)'
  BY <1>5, <1>6, <1>n DEF RplPut, Answers
<1> HIDE DEF m, r
<1>8. /\ \A q \in Ports : Len(reqs[q]) \in Nat
      /\ \A q \in Ports : \A k \in 1 .. Len(reqs[q]) :
           /\ k \in Nat /\ reqs[q][k].tid \in Ids /\ (IsAdd(q, k) => reqs[q][k].f \in Flts)
           /\ IsAdd(q, k) <=> ~IsDel(q, k)
      /\ Len(rpls) \in Nat /\ \A k \in 1 .. Len(rpls) : k \in Nat
      /\ \A i \in DOMAIN hwflt : hwflt[i] \in Flts
  BY <1>1, MsgFacts
<1>9. \A q \in Ports : \A k \in 1 .. Len(reqs'[q]) : \E i \in 1 .. Len(reqs[q]) :
        /\ q = p => i = k + 1
        /\ q # p => i = k
        /\ reqs'[q][k] = reqs[q][i]
        /\ IsAdd(q, k)' <=> IsAdd(q, i)
        /\ IsDel(q, k)' <=> IsDel(q, i)
  BY <1>1, <1>2, RequestsShift DEF Shifted
<1>10. \A q \in Ports : \A k \in 1 .. Len(reqs[q]) :
         \/ q = p /\ k = 1
         \/ \E i \in 1 .. Len(reqs'[q]) :
              /\ q = p => k = i + 1
              /\ q # p => k = i
              /\ reqs'[q][i] = reqs[q][k]
              /\ IsAdd(q, i)' <=> IsAdd(q, k)
              /\ IsDel(q, i)' <=> IsDel(q, k)
  BY <1>1, <1>2, RequestsShift DEF Shifted
<1>11. \A k \in 1 .. Len(rpls') :
         \/ k = n /\ rpls'[k] = r /\ ~Answers(k)'
         \/ k \in 1 .. Len(rpls) /\ rpls'[k] = rpls[k] /\ (Answers(k)' <=> Answers(k))
  BY <1>5, <1>6, <1>n DEF RplPut, Answers
<1>12. \A k \in 1 .. Len(rpls) :
         k \in 1 .. Len(rpls') /\ rpls'[k] = rpls[k] /\ (Answers(k)' <=> Answers(k))
  BY <1>6 DEF RplPut, Answers
<1>13. \A g : /\ Creating(g)' <=> Creating(g)
              /\ Standing(g)' <=> Standing(g)
              /\ Deleting(g)' <=> Deleting(g)
              /\ Silent(g)' <=> Silent(g)
  BY DEF Creating, Standing, Deleting, Silent
<1>14. MsgsType' /\ StatesOK'
  BY <1>1, <1>2, <1>6, <1>7, <1>13 DEF MsgsType, StatesOK
<1>15. AddsOK'
  <2> SUFFICES ASSUME NEW q \in Ports, NEW k \in 1 .. Len(reqs'[q]), IsAdd(q, k)'
               PROVE  AddOK(q, k)'
    BY DEF AddsOK
  <2>1. PICK i \in 1 .. Len(reqs[q]) : IsAdd(q, i) /\ reqs'[q][k] = reqs[q][i]
    BY <1>9
  <2> QED
    BY <1>1, <1>13, <2>1 DEF AddsOK, AddOK
<1>16. AddsLast'
  <2> SUFFICES ASSUME NEW q \in Ports, NEW k \in 1 .. Len(reqs'[q]), IsAdd(q, k)'
               PROVE  LastAdd(q, k)'
    BY DEF AddsLast
  <2>1. PICK i \in 1 .. Len(reqs[q]) : /\ q = p => i = k + 1
                                       /\ q # p => i = k
                                       /\ IsAdd(q, i) /\ reqs'[q][k] = reqs[q][i]
    BY <1>9
  <2>2. LastAdd(q, i)
    BY <1>1, <2>1 DEF AddsLast
  <2>3. ASSUME NEW j \in 1 .. Len(reqs'[q]), j # k, reqs'[q][j].tid = reqs[q][i].tid
        PROVE  j < k /\ IsDel(q, j)'
    <3>1. PICK h \in 1 .. Len(reqs[q]) : /\ q = p => h = j + 1
                                         /\ q # p => h = j
                                         /\ reqs'[q][j] = reqs[q][h]
                                         /\ IsDel(q, j)' <=> IsDel(q, h)
      BY <1>9
    <3>2. h # i /\ h < i /\ IsDel(q, h)
      <4>1. h # i
        BY <2>1, <2>3, <3>1
      <4> QED
        BY <2>2, <2>3, <3>1, <4>1 DEF LastAdd
    <3> QED
      BY <2>1, <3>1, <3>2
  <2>4. ASSUME NEW j \in 1 .. Len(rpls'), rpls'[j].tid = reqs[q][i].tid
        PROVE  rpls'[j].ret = "deleted"
    BY <1>5, <1>11, <2>2, <2>4 DEF LastAdd
  <2> QED
    BY <2>1, <2>3, <2>4 DEF LastAdd
<1>17. \A k \in 1 .. Len(rpls) : Answers(k) => /\ AnswerOK(k) /\ LastAnswer(k)
                                               /\ rpls[k].tid # t
  BY <1>1, <1>2, <1>4 DEF AnswersOK, AnswersLast, LastAnswer
<1>18. AnswersOK'
  <2> SUFFICES ASSUME NEW k \in 1 .. Len(rpls'), Answers(k)'
               PROVE  AnswerOK(k)'
    BY DEF AnswersOK
  <2>1. k \in 1 .. Len(rpls) /\ rpls'[k] = rpls[k] /\ Answers(k)
    BY <1>11
  <2> QED
    BY <1>7, <1>13, <1>17, <2>1 DEF AnswerOK
<1>19. AnswersLast'
  <2> SUFFICES ASSUME NEW k \in 1 .. Len(rpls'), Answers(k)'
               PROVE  LastAnswer(k)'
    BY DEF AnswersLast
  <2>1. k \in 1 .. Len(rpls) /\ rpls'[k] = rpls[k] /\ Answers(k)
    BY <1>11
  <2>2. LastAnswer(k) /\ rpls[k].tid # t
    BY <1>17, <2>1
  <2>3. ASSUME NEW j \in 1 .. Len(rpls'), j # k, rpls'[j].tid = rpls[k].tid
        PROVE  j < k /\ ~Answers(j)'
    BY <1>5, <1>11, <2>2, <2>3 DEF LastAnswer
  <2>4. ASSUME NEW q \in Ports, NEW j \in 1 .. Len(reqs'[q])
        PROVE  reqs'[q][j].tid # rpls[k].tid
    BY <1>9, <2>2 DEF LastAnswer
  <2> QED
    BY <2>1, <2>3, <2>4 DEF LastAnswer
<1>20. DelsOK'
  <2> SUFFICES ASSUME NEW q \in Ports, NEW k \in 1 .. Len(reqs'[q]), IsDel(q, k)'
               PROVE  DelOK(q, k)'
    BY DEF DelsOK
  <2>1. PICK i \in 1 .. Len(reqs[q]) : IsDel(q, i) /\ reqs'[q][k] = reqs[q][i]
    BY <1>9
  <2> QED
    BY <1>1, <1>13, <2>1 DEF DelsOK, DelOK
<1>21. DeletionsOK'
  <2> SUFFICES ASSUME NEW k \in 1 .. Len(rpls'), ~Answers(k)'
               PROVE  DeletedOK(k)'
    BY DEF DeletionsOK
  <2>1. CASE k = n
    BY <1>0, <1>4, <1>5, <1>7, <1>13, <2>1 DEF DelOK, DeletedOK
  <2>2. CASE k \in 1 .. Len(rpls) /\ rpls'[k] = rpls[k] /\ ~Answers(k)
    BY <1>1, <1>7, <1>13, <2>2 DEF DeletionsOK, DeletedOK
  <2> QED
    BY <1>11, <2>1, <2>2
<1>22. Awaited'
  <2>1. ASSUME NEW g \in Flts, Creating(g) PROVE AddAwaited(g)'
    <3>1. AddAwaited(g) /\ Port[g] \in Ports
      BY <1>1, <2>1 DEF Awaited, Ports
    <3>2. CASE \E k \in 1 .. Len(reqs[Port[g]]) :
                 IsAdd(Port[g], k) /\ reqs[Port[g]][k].tid = flt[g].tid
      <4>1. PICK k \in 1 .. Len(reqs[Port[g]]) :
              IsAdd(Port[g], k) /\ reqs[Port[g]][k].tid = flt[g].tid
        BY <3>2
      <4>2. ~(Port[g] = p /\ k = 1)
        BY <1>4, <4>1
      <4>3. PICK i \in 1 .. Len(reqs'[Port[g]]) :
              reqs'[Port[g]][i] = reqs[Port[g]][k] /\ IsAdd(Port[g], i)'
        BY <1>10, <3>1, <4>1, <4>2
      <4> QED
        BY <4>1, <4>3 DEF AddAwaited
    <3>3. CASE \E k \in 1 .. Len(rpls) : rpls[k].tid = flt[g].tid /\ Answers(k)
      BY <1>12, <3>3 DEF AddAwaited
    <3> QED
      BY <3>1, <3>2, <3>3 DEF AddAwaited
  <2>2. ASSUME NEW g \in Flts, Deleting(g) PROVE DelAwaited(g)'
    <3>1. DelAwaited(g) /\ 0 \in Ports
      BY <1>1, <2>2 DEF Awaited, Ports
    <3>2. CASE \E k \in 1 .. Len(reqs[0]) : IsDel(0, k) /\ reqs[0][k].tid = flt[g].tid
      <4>1. PICK k \in 1 .. Len(reqs[0]) : IsDel(0, k) /\ reqs[0][k].tid = flt[g].tid
        BY <3>2
      <4>2. CASE k = 1
        BY <1>0, <1>4, <1>5, <4>1, <4>2 DEF DelAwaited
      <4>3. CASE k # 1
        BY <1>10, <3>1, <4>1, <4>3 DEF DelAwaited
      <4> QED
        BY <4>2, <4>3
    <3>3. CASE \E k \in 1 .. Len(rpls) : rpls[k].tid = flt[g].tid /\ ~Answers(k)
      BY <1>12, <3>3 DEF DelAwaited
    <3> QED
      BY <3>1, <3>2, <3>3 DEF DelAwaited
  <2> QED
    BY <1>13, <2>1, <2>2 DEF Awaited
<1>23. HardwareOK'
  <2>1. ASSUME NEW i \in DOMAIN hwflt, i # t, There(i) PROVE There(i)'
    BY <1>7, <1>12, <2>1 DEF There
  <2>2. ASSUME NEW i \in DOMAIN hwflt, i # t, Leaving(i) PROVE Leaving(i)'
    <3>1. PICK k \in 1 .. Len(reqs[0]) :
            IsDel(0, k) /\ reqs[0][k].tid = i /\ BeforeDel(k, hwflt[i])
      BY <2>2 DEF Leaving
    <3>2. k # 1 /\ 0 \in Ports
      BY <1>4, <2>2, <3>1 DEF Ports
    <3>3. PICK h \in 1 .. Len(reqs'[0]) : k = h + 1 /\ IsDel(0, h)' /\ reqs'[0][h].tid = i
      <4>1. PICK h \in 1 .. Len(reqs'[0]) :
              k = h + 1 /\ reqs'[0][h] = reqs[0][k] /\ (IsDel(0, h)' <=> IsDel(0, k))
        BY <1>4, <1>10, <3>2
      <4> QED
        BY <3>1, <4>1
    <3>4. hwflt'[i] = hwflt[i]
      BY <1>7, <2>2
    <3>5. BeforeDel(h, hwflt[i])'
      <4> DEFINE g == hwflt[i]
      <4>h. hwflt'[i] = g
        BY <3>4
      <4> HIDE DEF g
      <4> SUFFICES ASSUME Deleting(g)
                   PROVE  /\ \A j \in 1 .. Len(rpls') : rpls'[j].tid = flt[g].tid => Answers(j)'
                          /\ \A j \in 1 .. Len(reqs'[0]) :
                               IsDel(0, j)' /\ reqs'[0][j].tid = flt[g].tid => h < j
        BY <1>13, <4>h DEF BeforeDel, g
      <4>1. /\ \A j \in 1 .. Len(rpls) : rpls[j].tid = flt[g].tid => Answers(j)
            /\ \A j \in 1 .. Len(reqs[0]) : IsDel(0, j) /\ reqs[0][j].tid = flt[g].tid => k < j
        BY <3>1 DEF BeforeDel, g
      <4>2. flt[g].tid # t
        <5> SUFFICES ASSUME flt[g].tid = t PROVE FALSE
          OBVIOUS
        <5>1. 1 \in 1 .. Len(reqs[0]) /\ IsDel(0, 1) /\ reqs[0][1].tid = t
          BY <1>2, <1>4
        <5>2. k < 1
          BY <4>1, <5>1
        <5>3. k \in Nat /\ k >= 1
          BY <1>8, <3>2
        <5> QED
          BY <5>2, <5>3
      <4>3. ASSUME NEW j \in 1 .. Len(reqs'[0]), IsDel(0, j)', reqs'[0][j].tid = flt[g].tid
            PROVE  h < j
        <5>1. PICK x \in 1 .. Len(reqs[0]) : x = j + 1 /\ reqs'[0][j] = reqs[0][x] /\ IsDel(0, x)
          BY <1>4, <1>9, <3>2, <4>3
        <5> QED
          BY <3>3, <4>1, <4>3, <5>1
      <4> QED
        BY <1>5, <1>11, <4>1, <4>2, <4>3
    <3> QED
      BY <3>3, <3>4, <3>5 DEF Leaving
  <2>3. \A i \in DOMAIN ftids'.tab : Stands(i)'
    <3> SUFFICES ASSUME NEW i \in DOMAIN ftids.tab, Standing(ftids.tab[i])
                 PROVE  i \in DOMAIN hwflt' /\ hwflt'[i] = ftids.tab[i]
      BY <1>13 DEF Stands
    <3>1. i # t
      BY <1>4 DEF DelOK, Standing, Deleting, Silent, Creating
    <3> QED
      BY <1>1, <1>7, <3>1 DEF HardwareOK, Stands
  <2> QED
    BY <1>1, <1>7, <2>1, <2>2, <2>3 DEF HardwareOK
<1> QED
  BY <1>14, <1>15, <1>16, <1>18, <1>19, <1>20, <1>21, <1>22, <1>23 DEF MsgsInv


(* The firmware takes a creation and answers: it has the filter, or not.   *)
LEMMA FirmwareWrites ==
  ASSUME FtidsInv, MsgsInv, NEW p \in Ports, reqs[p] # <<>>, Head(reqs[p]).op = "add",
         NEW ret \in {"added", "error"},
         rpls' = Append(rpls, [tid |-> Head(reqs[p]).tid, ret |-> ret]),
         ret = "added" =>
           hwflt' = [i \in DOMAIN hwflt \cup {Head(reqs[p]).tid} |->
                       IF i = Head(reqs[p]).tid THEN Head(reqs[p]).f ELSE hwflt[i]],
         ret = "error" => hwflt' = hwflt,
         reqs' = [reqs EXCEPT ![p] = Tail(@)],
         ftids' = ftids, flt' = flt, waits' = waits
  PROVE  MsgsInv'
<1> DEFINE m == Head(reqs[p])
           r == [tid |-> m.tid, ret |-> ret]
<1>1. /\ TablesInv /\ MsgsType /\ StatesOK /\ AddsOK /\ AddsLast /\ AnswersOK
      /\ AnswersLast /\ DelsOK /\ DeletionsOK /\ Awaited /\ HardwareOK
  BY DEF FtidsInv, MsgsInv
<1>2. /\ reqs' \in [Ports -> Seq(Requests)] /\ ReqTaken(p)
      /\ 1 \in 1 .. Len(reqs[p]) /\ m = reqs[p][1]
  BY <1>1, RequestTaken
<1>3. PICK t, f : t = m.tid /\ f = m.f
  OBVIOUS
<1>4. /\ ~IsDel(p, 1) /\ IsAdd(p, 1) /\ t \in Ids /\ f \in Flts /\ reqs[p][1].tid = t
      /\ reqs[p][1].f = f /\ LastAdd(p, 1) /\ p = Port[f] /\ Creating(f) /\ flt[f].tid = t
  <2>1. IsAdd(p, 1)
    BY <1>2 DEF IsAdd
  <2>2. AddOK(p, 1) /\ LastAdd(p, 1)
    BY <1>1, <1>2, <2>1 DEF AddsOK, AddsLast
  <2>3. t \in Ids /\ f \in Flts /\ ~IsDel(p, 1)
    BY <1>1, <1>2, <1>3, <2>1, MsgFacts
  <2> QED
    BY <1>2, <1>3, <2>1, <2>2, <2>3 DEF AddOK
<1>5. t \in DOMAIN ftids.tab /\ ftids.tab[t] = f /\ ~Standing(f) /\ ~Deleting(f)
      /\ \A i \in DOMAIN ftids.tab : ftids.tab[i] = f => i = t
  BY <1>1, <1>4, TableFacts DEF Creating, Standing, Deleting
<1>r. r \in Replies /\ r.tid = t /\ r.ret = ret
  BY <1>3, <1>4 DEF Replies
<1>6. rpls' \in Seq(Replies) /\ RplPut(r)
  BY <1>1, <1>r, Replied
<1>n. PICK n : n = Len(rpls) + 1
  OBVIOUS
<1>0. n \in 1 .. Len(rpls') /\ rpls'[n] = r /\ Answers(n)'
  BY <1>r, <1>6, <1>n DEF RplPut, Answers
<1>8. /\ \A q \in Ports : Len(reqs[q]) \in Nat
      /\ \A q \in Ports : \A k \in 1 .. Len(reqs[q]) :
           /\ k \in Nat /\ reqs[q][k].tid \in Ids /\ (IsAdd(q, k) => reqs[q][k].f \in Flts)
           /\ IsAdd(q, k) <=> ~IsDel(q, k)
      /\ Len(rpls) \in Nat /\ \A k \in 1 .. Len(rpls) : k \in Nat
      /\ \A i \in DOMAIN hwflt : hwflt[i] \in Flts
  BY <1>1, MsgFacts
<1>h. /\ ret = "added" => DOMAIN hwflt' = DOMAIN hwflt \cup {t} /\ hwflt'[t] = f
      /\ ret = "error" => DOMAIN hwflt' = DOMAIN hwflt
      /\ \A i \in DOMAIN hwflt : i # t => hwflt'[i] = hwflt[i]
      /\ hwflt' \in [DOMAIN hwflt' -> Flts]
  <2>1. CASE ret = "added"
    <3>1. hwflt' = [i \in DOMAIN hwflt \cup {t} |-> IF i = t THEN f ELSE hwflt[i]]
      BY <1>3, <2>1
    <3> QED
      BY <1>4, <1>8, <2>1, <3>1
  <2>2. CASE ret = "error"
    BY <1>1, <2>2 DEF MsgsType
  <2> QED
    BY <2>1, <2>2
<1> HIDE DEF m, r
<1>9. \A q \in Ports : \A k \in 1 .. Len(reqs'[q]) : \E i \in 1 .. Len(reqs[q]) :
        /\ q = p => i = k + 1
        /\ q # p => i = k
        /\ reqs'[q][k] = reqs[q][i]
        /\ IsAdd(q, k)' <=> IsAdd(q, i)
        /\ IsDel(q, k)' <=> IsDel(q, i)
  BY <1>1, <1>2, RequestsShift DEF Shifted
<1>10. \A q \in Ports : \A k \in 1 .. Len(reqs[q]) :
         \/ q = p /\ k = 1
         \/ \E i \in 1 .. Len(reqs'[q]) :
              /\ q = p => k = i + 1
              /\ q # p => k = i
              /\ reqs'[q][i] = reqs[q][k]
              /\ IsAdd(q, i)' <=> IsAdd(q, k)
              /\ IsDel(q, i)' <=> IsDel(q, k)
  BY <1>1, <1>2, RequestsShift DEF Shifted
<1>11. \A k \in 1 .. Len(rpls') :
         \/ k = n /\ rpls'[k] = r /\ Answers(k)'
         \/ k \in 1 .. Len(rpls) /\ rpls'[k] = rpls[k] /\ (Answers(k)' <=> Answers(k))
  BY <1>r, <1>6, <1>n DEF RplPut, Answers
<1>12. \A k \in 1 .. Len(rpls) :
         k \in 1 .. Len(rpls') /\ rpls'[k] = rpls[k] /\ (Answers(k)' <=> Answers(k))
  BY <1>6 DEF RplPut, Answers
<1>13. \A g : /\ Creating(g)' <=> Creating(g)
              /\ Standing(g)' <=> Standing(g)
              /\ Deleting(g)' <=> Deleting(g)
              /\ Silent(g)' <=> Silent(g)
  BY DEF Creating, Standing, Deleting, Silent
(* The request was the last message about its identifier.                  *)
<1>14. ASSUME NEW q \in Ports, NEW k \in 1 .. Len(reqs[q]), reqs[q][k].tid = t
       PROVE  q = p /\ k = 1
  <2>1. q = p => k = 1
    <3> SUFFICES ASSUME q = p, k # 1 PROVE FALSE
      OBVIOUS
    <3>1. k < 1
      BY <1>4, <1>14 DEF LastAdd
    <3> QED
      BY <1>8, <3>1
  <2>2. q = p
    <3>1. CASE IsAdd(q, k)
      <4>1. AddOK(q, k) /\ reqs[q][k].f \in Flts
        BY <1>1, <1>8, <3>1 DEF AddsOK
      <4>2. reqs[q][k].f = f
        BY <1>1, <1>5, <1>14, <4>1, TableFacts DEF AddOK, Creating
      <4> QED
        BY <1>4, <4>1, <4>2 DEF AddOK
    <3>2. CASE IsDel(q, k)
      <4>1. q = 0 /\ (Deleting(f) \/ Silent(f))
        BY <1>1, <1>5, <1>14, <3>2 DEF DelsOK, DelOK
      <4> QED
        BY <1>4, <1>5, <4>1 DEF Silent
    <3> QED
      BY <1>8, <3>1, <3>2
  <2> QED
    BY <2>1, <2>2
<1>15. \A q \in Ports : \A k \in 1 .. Len(reqs'[q]) : reqs'[q][k].tid # t
  <2> SUFFICES ASSUME NEW q \in Ports, NEW k \in 1 .. Len(reqs'[q]), reqs'[q][k].tid = t
               PROVE  FALSE
    OBVIOUS
  <2>1. PICK i \in 1 .. Len(reqs[q]) : (q = p => i = k + 1) /\ reqs'[q][k] = reqs[q][i]
    BY <1>9
  <2>2. q = p /\ i = 1
    BY <1>14, <2>1
  <2> QED
    BY <2>1, <2>2
<1>16. \A k \in 1 .. Len(rpls) : rpls[k].tid = t => ~Answers(k)
  BY <1>4 DEF LastAdd, Answers
<1>17. t \notin DOMAIN hwflt
  <2> SUFFICES ASSUME t \in DOMAIN hwflt PROVE FALSE
    OBVIOUS
  <2>1. ~There(t)
    BY <1>4, <1>5, <1>16 DEF There, Creating, Answers
  <2>2. ~Leaving(t)
    <3> SUFFICES ASSUME NEW i \in 1 .. Len(reqs[0]), IsDel(0, i), reqs[0][i].tid = t
                 PROVE  FALSE
      BY DEF Leaving
    <3> QED
      BY <1>4, <1>14 DEF Ports
  <2> QED
    BY <1>1, <2>1, <2>2 DEF HardwareOK
<1>18. MsgsType' /\ StatesOK'
  BY <1>1, <1>2, <1>6, <1>h, <1>13 DEF MsgsType, StatesOK
<1>19. AddsOK'
  <2> SUFFICES ASSUME NEW q \in Ports, NEW k \in 1 .. Len(reqs'[q]), IsAdd(q, k)'
               PROVE  AddOK(q, k)'
    BY DEF AddsOK
  <2>1. PICK i \in 1 .. Len(reqs[q]) : IsAdd(q, i) /\ reqs'[q][k] = reqs[q][i]
    BY <1>9
  <2> QED
    BY <1>1, <1>13, <2>1 DEF AddsOK, AddOK
<1>20. AddsLast'
  <2> SUFFICES ASSUME NEW q \in Ports, NEW k \in 1 .. Len(reqs'[q]), IsAdd(q, k)'
               PROVE  LastAdd(q, k)'
    BY DEF AddsLast
  <2>1. PICK i \in 1 .. Len(reqs[q]) : /\ q = p => i = k + 1
                                       /\ q # p => i = k
                                       /\ IsAdd(q, i) /\ reqs'[q][k] = reqs[q][i]
    BY <1>9
  <2>2. LastAdd(q, i) /\ reqs[q][i].tid # t
    BY <1>1, <1>15, <2>1 DEF AddsLast
  <2>3. ASSUME NEW j \in 1 .. Len(reqs'[q]), j # k, reqs'[q][j].tid = reqs[q][i].tid
        PROVE  j < k /\ IsDel(q, j)'
    <3>1. PICK h \in 1 .. Len(reqs[q]) : /\ q = p => h = j + 1
                                         /\ q # p => h = j
                                         /\ reqs'[q][j] = reqs[q][h]
                                         /\ IsDel(q, j)' <=> IsDel(q, h)
      BY <1>9
    <3>2. h # i /\ h < i /\ IsDel(q, h)
      <4>1. h # i
        BY <2>1, <2>3, <3>1
      <4> QED
        BY <2>2, <2>3, <3>1, <4>1 DEF LastAdd
    <3> QED
      BY <2>1, <3>1, <3>2
  <2>4. ASSUME NEW j \in 1 .. Len(rpls'), rpls'[j].tid = reqs[q][i].tid
        PROVE  rpls'[j].ret = "deleted"
    BY <1>r, <1>11, <2>2, <2>4 DEF LastAdd
  <2> QED
    BY <2>1, <2>3, <2>4 DEF LastAdd
<1>21. \A k \in 1 .. Len(rpls) : Answers(k) => /\ AnswerOK(k) /\ LastAnswer(k)
                                               /\ rpls[k].tid # t
  BY <1>1, <1>16 DEF AnswersOK, AnswersLast
<1>22. AnswersOK'
  <2> SUFFICES ASSUME NEW k \in 1 .. Len(rpls'), Answers(k)'
               PROVE  AnswerOK(k)'
    BY DEF AnswersOK
  <2>1. CASE k = n
    <3>1. rpls'[k].tid = t /\ rpls'[k].ret = ret
      BY <1>0, <1>r, <2>1
    <3> QED
      BY <1>4, <1>5, <1>h, <1>13, <1>17, <3>1 DEF AnswerOK
  <2>2. CASE k \in 1 .. Len(rpls) /\ rpls'[k] = rpls[k] /\ Answers(k)
    BY <1>h, <1>13, <1>21, <2>2 DEF AnswerOK
  <2> QED
    BY <1>11, <2>1, <2>2
<1>23. AnswersLast'
  <2> SUFFICES ASSUME NEW k \in 1 .. Len(rpls'), Answers(k)'
               PROVE  LastAnswer(k)'
    BY DEF AnswersLast
  <2>1. CASE k = n
    <3>1. rpls'[k].tid = t
      BY <1>0, <1>r, <2>1
    <3>2. ASSUME NEW j \in 1 .. Len(rpls'), j # k, rpls'[j].tid = t
          PROVE  j < k /\ ~Answers(j)'
      BY <1>8, <1>n, <1>11, <1>16, <2>1, <3>2
    <3> QED
      BY <1>15, <3>1, <3>2 DEF LastAnswer
  <2>2. CASE k \in 1 .. Len(rpls) /\ rpls'[k] = rpls[k] /\ Answers(k)
    <3>2. LastAnswer(k) /\ rpls[k].tid # t
      BY <1>21, <2>2
    <3>3. ASSUME NEW j \in 1 .. Len(rpls'), j # k, rpls'[j].tid = rpls[k].tid
          PROVE  j < k /\ ~Answers(j)'
      BY <1>r, <1>11, <3>2, <3>3 DEF LastAnswer
    <3>4. ASSUME NEW q \in Ports, NEW j \in 1 .. Len(reqs'[q])
          PROVE  reqs'[q][j].tid # rpls[k].tid
      <4>1. PICK i \in 1 .. Len(reqs[q]) : reqs'[q][j] = reqs[q][i]
        BY <1>9
      <4> QED
        BY <3>2, <4>1 DEF LastAnswer
    <3> QED
      BY <2>2, <3>3, <3>4 DEF LastAnswer
  <2> QED
    BY <1>11, <2>1, <2>2
<1>24. DelsOK'
  <2> SUFFICES ASSUME NEW q \in Ports, NEW k \in 1 .. Len(reqs'[q]), IsDel(q, k)'
               PROVE  DelOK(q, k)'
    BY DEF DelsOK
  <2>1. PICK i \in 1 .. Len(reqs[q]) : IsDel(q, i) /\ reqs'[q][k] = reqs[q][i]
    BY <1>9
  <2> QED
    BY <1>1, <1>13, <2>1 DEF DelsOK, DelOK
<1>25. DeletionsOK'
  <2> SUFFICES ASSUME NEW k \in 1 .. Len(rpls'), ~Answers(k)'
               PROVE  DeletedOK(k)'
    BY DEF DeletionsOK
  <2>1. k \in 1 .. Len(rpls) /\ rpls'[k] = rpls[k] /\ DeletedOK(k)
    BY <1>1, <1>11 DEF DeletionsOK
  <2> QED
    BY <1>5, <1>h, <1>13, <2>1 DEF DeletedOK
<1>26. Awaited'
  <2>1. ASSUME NEW g \in Flts, Creating(g) PROVE AddAwaited(g)'
    <3>1. AddAwaited(g) /\ Port[g] \in Ports
      BY <1>1, <2>1 DEF Awaited, Ports
    <3>2. CASE \E k \in 1 .. Len(reqs[Port[g]]) :
                 IsAdd(Port[g], k) /\ reqs[Port[g]][k].tid = flt[g].tid
      <4>1. PICK k \in 1 .. Len(reqs[Port[g]]) :
              IsAdd(Port[g], k) /\ reqs[Port[g]][k].tid = flt[g].tid
        BY <3>2
      <4>2. CASE flt[g].tid = t
        BY <1>0, <1>r, <4>2 DEF AddAwaited
      <4>3. CASE flt[g].tid # t
        <5>1. ~(Port[g] = p /\ k = 1)
          BY <1>4, <4>1, <4>3
        <5>2. PICK i \in 1 .. Len(reqs'[Port[g]]) :
                reqs'[Port[g]][i] = reqs[Port[g]][k] /\ IsAdd(Port[g], i)'
          BY <1>10, <3>1, <4>1, <5>1
        <5> QED
          BY <4>1, <5>2 DEF AddAwaited
      <4> QED
        BY <4>2, <4>3
    <3>3. CASE \E k \in 1 .. Len(rpls) : rpls[k].tid = flt[g].tid /\ Answers(k)
      BY <1>12, <3>3 DEF AddAwaited
    <3> QED
      BY <3>1, <3>2, <3>3 DEF AddAwaited
  <2>2. ASSUME NEW g \in Flts, Deleting(g) PROVE DelAwaited(g)'
    <3>1. DelAwaited(g) /\ 0 \in Ports
      BY <1>1, <2>2 DEF Awaited, Ports
    <3>2. CASE \E k \in 1 .. Len(reqs[0]) : IsDel(0, k) /\ reqs[0][k].tid = flt[g].tid
      <4>1. PICK k \in 1 .. Len(reqs[0]) : IsDel(0, k) /\ reqs[0][k].tid = flt[g].tid
        BY <3>2
      <4>2. ~(0 = p /\ k = 1)
        BY <1>4, <4>1
      <4>3. PICK i \in 1 .. Len(reqs'[0]) : reqs'[0][i] = reqs[0][k] /\ IsDel(0, i)'
        BY <1>10, <3>1, <4>1, <4>2
      <4> QED
        BY <4>1, <4>3 DEF DelAwaited
    <3>3. CASE \E k \in 1 .. Len(rpls) : rpls[k].tid = flt[g].tid /\ ~Answers(k)
      BY <1>12, <3>3 DEF DelAwaited
    <3> QED
      BY <3>1, <3>2, <3>3 DEF DelAwaited
  <2> QED
    BY <1>13, <2>1, <2>2 DEF Awaited
<1>27. HardwareOK'
  <2>1. ASSUME NEW i \in DOMAIN hwflt, There(i) PROVE There(i)'
    <3>1. i # t /\ hwflt'[i] = hwflt[i]
      BY <1>h, <1>17, <2>1
    <3> QED
      BY <1>12, <2>1, <3>1 DEF There
  <2>2. ASSUME NEW i \in DOMAIN hwflt, Leaving(i) PROVE Leaving(i)'
    <3>1. PICK k \in 1 .. Len(reqs[0]) :
            IsDel(0, k) /\ reqs[0][k].tid = i /\ BeforeDel(k, hwflt[i])
      BY <2>2 DEF Leaving
    <3>2. ~(0 = p /\ k = 1) /\ 0 \in Ports
      BY <1>4, <3>1 DEF Ports
    <3>3. PICK h \in 1 .. Len(reqs'[0]) : /\ 0 = p => k = h + 1
                                          /\ 0 # p => k = h
                                          /\ IsDel(0, h)' /\ reqs'[0][h].tid = i
      <4>1. PICK h \in 1 .. Len(reqs'[0]) : /\ 0 = p => k = h + 1
                                            /\ 0 # p => k = h
                                            /\ reqs'[0][h] = reqs[0][k]
                                            /\ IsDel(0, h)' <=> IsDel(0, k)
        BY <1>10, <3>2
      <4> QED
        BY <3>1, <4>1
    <3>4. hwflt'[i] = hwflt[i] /\ hwflt[i] \in Flts
      BY <1>8, <1>h, <1>17, <2>2
    <3>5. BeforeDel(h, hwflt[i])'
      <4> DEFINE g == hwflt[i]
      <4>h. hwflt'[i] = g /\ g \in Flts
        BY <3>4
      <4> HIDE DEF g
      <4> SUFFICES ASSUME Deleting(g)
                   PROVE  /\ \A j \in 1 .. Len(rpls') : rpls'[j].tid = flt[g].tid => Answers(j)'
                          /\ \A j \in 1 .. Len(reqs'[0]) :
                               IsDel(0, j)' /\ reqs'[0][j].tid = flt[g].tid => h < j
        BY <1>13, <4>h DEF BeforeDel, g
      <4>1. /\ \A j \in 1 .. Len(rpls) : rpls[j].tid = flt[g].tid => Answers(j)
            /\ \A j \in 1 .. Len(reqs[0]) : IsDel(0, j) /\ reqs[0][j].tid = flt[g].tid => k < j
        BY <3>1 DEF BeforeDel, g
      <4>3. ASSUME NEW j \in 1 .. Len(reqs'[0]), IsDel(0, j)', reqs'[0][j].tid = flt[g].tid
            PROVE  h < j
        <5>1. PICK x \in 1 .. Len(reqs[0]) : /\ 0 = p => x = j + 1
                                             /\ 0 # p => x = j
                                             /\ reqs'[0][j] = reqs[0][x] /\ IsDel(0, x)
          BY <1>9, <3>2, <4>3
        <5> QED
          BY <3>3, <4>1, <4>3, <5>1
      <4> QED
        BY <1>11, <4>1, <4>3
    <3> QED
      BY <3>3, <3>4, <3>5 DEF Leaving
  <2>3. ASSUME ret = "added" PROVE There(t)'
    <3>1. rpls'[n].tid = t /\ rpls'[n].ret = "added"
      BY <1>0, <1>r, <2>3
    <3> QED
      BY <1>0, <1>5, <1>h, <2>3, <3>1 DEF There
  <2>4. \A i \in DOMAIN ftids'.tab : Stands(i)'
    <3> SUFFICES ASSUME NEW i \in DOMAIN ftids.tab, Standing(ftids.tab[i])
                 PROVE  i \in DOMAIN hwflt' /\ hwflt'[i] = ftids.tab[i]
      BY <1>13 DEF Stands
    <3>1. i # t
      BY <1>5
    <3> QED
      BY <1>1, <1>h, <3>1 DEF HardwareOK, Stands
  <2>5. \A i \in DOMAIN hwflt' : i \in DOMAIN hwflt \/ (i = t /\ ret = "added")
    BY <1>h
  <2> QED
    BY <1>1, <2>1, <2>2, <2>3, <2>4, <2>5 DEF HardwareOK
<1> QED
  BY <1>18, <1>19, <1>20, <1>22, <1>23, <1>24, <1>25, <1>26, <1>27 DEF MsgsInv


(* A reply is taken from the queue.                                        *)
RepliesShift ==
  /\ \A k \in 1 .. Len(rpls') : \E i \in 1 .. Len(rpls) :
       i = k + 1 /\ rpls'[k] = rpls[i] /\ (Answers(k)' <=> Answers(i))
  /\ \A k \in 1 .. Len(rpls) :
       \/ k = 1
       \/ \E i \in 1 .. Len(rpls') :
            k = i + 1 /\ rpls'[i] = rpls[k] /\ (Answers(i)' <=> Answers(k))

LEMMA ReplyShift ==
  ASSUME MsgsType, RplTaken
  PROVE  RepliesShift
<1>1. ASSUME NEW k \in 1 .. Len(rpls')
      PROVE  \E i \in 1 .. Len(rpls) : i = k + 1 /\ rpls'[k] = rpls[i]
  BY DEF RplTaken
<1>2. ASSUME NEW k \in 1 .. Len(rpls), k # 1
      PROVE  \E i \in 1 .. Len(rpls') : k = i + 1 /\ rpls'[i] = rpls[k]
  <2>1. k \in Nat /\ k = (k - 1) + 1
    BY MsgFacts
  <2>2. k - 1 \in 1 .. Len(rpls') /\ rpls'[k - 1] = rpls[k]
    BY <1>2 DEF RplTaken
  <2> QED
    BY <2>1, <2>2
<1>3. \A k \in 1 .. Len(rpls') : \A i \in 1 .. Len(rpls) :
        rpls'[k] = rpls[i] => (Answers(k)' <=> Answers(i))
  BY DEF Answers
<1>4. \A k \in 1 .. Len(rpls') : \E i \in 1 .. Len(rpls) :
        i = k + 1 /\ rpls'[k] = rpls[i] /\ (Answers(k)' <=> Answers(i))
  BY <1>1, <1>3
<1>5. \A k \in 1 .. Len(rpls) :
        \/ k = 1
        \/ \E i \in 1 .. Len(rpls') :
             k = i + 1 /\ rpls'[i] = rpls[k] /\ (Answers(i)' <=> Answers(k))
  BY <1>2, <1>3
<1> QED
  BY <1>4, <1>5 DEF RepliesShift

(* A reply that changes no filter: to none, or to a silent deletion.       *)
LEMMA ReplyIgnored ==
  ASSUME FtidsInv, MsgsInv, rpls # <<>>, rpls' = Tail(rpls),
         ftids' = ftids, flt' = flt, reqs' = reqs, hwflt' = hwflt, StatesOK',
         \/ Head(rpls).tid \notin DOMAIN ftids.tab
         \/ Head(rpls).ret = "deleted" /\ ~flt[ftids.tab[Head(rpls).tid]].ctx
  PROVE  MsgsInv'
<1>1. /\ TablesInv /\ MsgsType /\ StatesOK /\ AddsOK /\ AddsLast /\ AnswersOK
      /\ AnswersLast /\ DelsOK /\ DeletionsOK /\ Awaited /\ HardwareOK
  BY DEF FtidsInv, MsgsInv
<1>2. rpls' \in Seq(Replies) /\ RplTaken /\ 1 \in 1 .. Len(rpls) /\ Head(rpls) = rpls[1]
  BY <1>1, ReplyTaken
<1>3. /\ \A k \in 1 .. Len(rpls') : \E i \in 1 .. Len(rpls) :
           i = k + 1 /\ rpls'[k] = rpls[i] /\ (Answers(k)' <=> Answers(i))
      /\ \A k \in 1 .. Len(rpls) :
           \/ k = 1
           \/ \E i \in 1 .. Len(rpls') :
                k = i + 1 /\ rpls'[i] = rpls[k] /\ (Answers(i)' <=> Answers(k))
  BY <1>1, <1>2, ReplyShift DEF RepliesShift
<1>4. \A q \in Ports : \A k \in 1 .. Len(reqs[q]) : /\ IsAdd(q, k)' <=> IsAdd(q, k)
                                                    /\ IsDel(q, k)' <=> IsDel(q, k)
  BY DEF IsAdd, IsDel
<1>5. \A g : /\ Creating(g)' <=> Creating(g)
             /\ Standing(g)' <=> Standing(g)
             /\ Deleting(g)' <=> Deleting(g)
             /\ Silent(g)' <=> Silent(g)
  BY DEF Creating, Standing, Deleting, Silent
(* Nobody waits for it.                                                    *)
<1>6. \A g \in Flts : flt[g].live /\ flt[g].tid = rpls[1].tid => ~Deleting(g) /\ ~Answers(1)
  <2> SUFFICES ASSUME NEW g \in Flts, flt[g].live, flt[g].tid = rpls[1].tid
               PROVE  ~Deleting(g) /\ ~Answers(1)
    OBVIOUS
  <2>1. rpls[1].tid \in DOMAIN ftids.tab /\ ftids.tab[rpls[1].tid] = g
    BY <1>1, TableFacts
  <2> QED
    BY <1>2, <2>1 DEF Deleting, Answers
<1>7. Answers(1) => rpls[1].tid \notin DOMAIN ftids.tab
  BY <1>2 DEF Answers
<1>8. ~Answers(1)
  BY <1>1, <1>2, <1>7 DEF AnswersOK, AnswerOK
<1>9. MsgsType'
  BY <1>1, <1>2 DEF MsgsType
<1>10. AddsOK'
  BY <1>1, <1>4, <1>5 DEF AddsOK, AddOK
<1>11. AddsLast'
  <2> SUFFICES ASSUME NEW q \in Ports, NEW k \in 1 .. Len(reqs[q]), IsAdd(q, k)
               PROVE  LastAdd(q, k)'
    BY <1>4 DEF AddsLast
  <2>1. LastAdd(q, k)
    BY <1>1 DEF AddsLast
  <2>2. ASSUME NEW j \in 1 .. Len(rpls'), rpls'[j].tid = reqs[q][k].tid
        PROVE  rpls'[j].ret = "deleted"
    <3>1. PICK i \in 1 .. Len(rpls) : rpls'[j] = rpls[i]
      BY <1>3
    <3> QED
      BY <2>1, <2>2, <3>1 DEF LastAdd
  <2> QED
    BY <1>4, <2>1, <2>2 DEF LastAdd
<1>12. AnswersOK'
  <2> SUFFICES ASSUME NEW k \in 1 .. Len(rpls'), Answers(k)'
               PROVE  AnswerOK(k)'
    BY DEF AnswersOK
  <2>1. PICK i \in 1 .. Len(rpls) : rpls'[k] = rpls[i] /\ Answers(i)
    BY <1>3
  <2> QED
    BY <1>1, <1>5, <2>1 DEF AnswersOK, AnswerOK
<1>13. AnswersLast'
  <2> SUFFICES ASSUME NEW k \in 1 .. Len(rpls'), Answers(k)'
               PROVE  LastAnswer(k)'
    BY DEF AnswersLast
  <2>1. PICK i \in 1 .. Len(rpls) : i = k + 1 /\ rpls'[k] = rpls[i] /\ Answers(i)
    BY <1>3
  <2>2. LastAnswer(i)
    BY <1>1, <2>1 DEF AnswersLast
  <2>3. ASSUME NEW j \in 1 .. Len(rpls'), j # k, rpls'[j].tid = rpls[i].tid
        PROVE  j < k /\ ~Answers(j)'
    <3>1. PICK h \in 1 .. Len(rpls) : h = j + 1 /\ rpls'[j] = rpls[h] /\ (Answers(j)' <=> Answers(h))
      BY <1>3
    <3>2. h # i
      BY <2>1, <2>3, <3>1
    <3> QED
      BY <2>1, <2>2, <2>3, <3>1, <3>2 DEF LastAnswer
  <2> QED
    BY <2>1, <2>2, <2>3 DEF LastAnswer
<1>14. DelsOK'
  BY <1>1, <1>4, <1>5 DEF DelsOK, DelOK
<1>15. DeletionsOK'
  <2> SUFFICES ASSUME NEW k \in 1 .. Len(rpls'), ~Answers(k)'
               PROVE  DeletedOK(k)'
    BY DEF DeletionsOK
  <2>1. PICK i \in 1 .. Len(rpls) : rpls'[k] = rpls[i] /\ ~Answers(i)
    BY <1>3
  <2> QED
    BY <1>1, <1>5, <2>1 DEF DeletionsOK, DeletedOK
<1>16. Awaited'
  <2>1. ASSUME NEW g \in Flts, Creating(g) PROVE AddAwaited(g)'
    <3>1. AddAwaited(g) /\ Port[g] \in Ports
      BY <1>1, <2>1 DEF Awaited, Ports
    <3>2. ASSUME NEW k \in 1 .. Len(rpls), rpls[k].tid = flt[g].tid, Answers(k)
          PROVE  AddAwaited(g)'
      <4>1. PICK i \in 1 .. Len(rpls') : rpls'[i] = rpls[k] /\ Answers(i)'
        BY <1>3, <1>8, <3>2
      <4> QED
        BY <3>2, <4>1 DEF AddAwaited
    <3> QED
      BY <1>4, <3>1, <3>2 DEF AddAwaited
  <2>2. ASSUME NEW g \in Flts, Deleting(g) PROVE DelAwaited(g)'
    <3>1. DelAwaited(g) /\ 0 \in Ports
      BY <1>1, <2>2 DEF Awaited, Ports
    <3>2. ASSUME NEW k \in 1 .. Len(rpls), rpls[k].tid = flt[g].tid, ~Answers(k)
          PROVE  DelAwaited(g)'
      <4>1. k # 1
        BY <1>6, <2>2, <3>2 DEF Deleting
      <4>2. PICK i \in 1 .. Len(rpls') : rpls'[i] = rpls[k] /\ ~Answers(i)'
        BY <1>3, <3>2, <4>1
      <4> QED
        BY <3>2, <4>2 DEF DelAwaited
    <3> QED
      BY <1>4, <3>1, <3>2 DEF DelAwaited
  <2> QED
    BY <1>5, <2>1, <2>2 DEF Awaited
<1>17. HardwareOK'
  <2>1. ASSUME NEW t \in DOMAIN hwflt, There(t) PROVE There(t)'
    <3>1. ASSUME NEW k \in 1 .. Len(rpls), rpls[k].tid = t, rpls[k].ret = "added"
          PROVE  \E i \in 1 .. Len(rpls') : rpls'[i].tid = t /\ rpls'[i].ret = "added"
      <4>1. k # 1
        BY <1>8, <3>1 DEF Answers
      <4> QED
        BY <1>3, <3>1, <4>1
    <3> QED
      BY <2>1, <3>1 DEF There
  <2>2. ASSUME NEW t \in DOMAIN hwflt, Leaving(t) PROVE Leaving(t)'
    <3>1. PICK i \in 1 .. Len(reqs[0]) :
            IsDel(0, i) /\ reqs[0][i].tid = t /\ BeforeDel(i, hwflt[t])
      BY <2>2 DEF Leaving
    <3>2. 0 \in Ports
      BY DEF Ports
    <3>3. BeforeDel(i, hwflt[t])'
      <4>1. ASSUME Deleting(hwflt[t]), NEW k \in 1 .. Len(rpls'),
                   rpls'[k].tid = flt[hwflt[t]].tid
            PROVE  Answers(k)'
        <5>1. PICK h \in 1 .. Len(rpls) : rpls'[k] = rpls[h] /\ (Answers(k)' <=> Answers(h))
          BY <1>3
        <5> QED
          BY <3>1, <4>1, <5>1 DEF BeforeDel
      <4> QED
        BY <1>4, <1>5, <3>1, <3>2, <4>1 DEF BeforeDel
    <3> QED
      BY <1>4, <3>1, <3>2, <3>3 DEF Leaving
  <2>3. \A t \in DOMAIN ftids'.tab : Stands(t)'
    BY <1>1, <1>5 DEF HardwareOK, Stands
  <2> QED
    BY <1>1, <2>1, <2>2, <2>3 DEF HardwareOK
<1> QED
  BY <1>9, <1>10, <1>11, <1>12, <1>13, <1>14, <1>15, <1>16, <1>17 DEF MsgsInv


(* A reply that ends a creation or a deletion: the filter stands or goes.  *)
LEMMA ReplyChanges ==
  ASSUME FtidsInv, MsgsInv, rpls # <<>>, rpls' = Tail(rpls),
         reqs' = reqs, hwflt' = hwflt, StatesOK',
         NEW t, t = Head(rpls).tid, NEW f, t \in DOMAIN ftids.tab, f = ftids.tab[t],
         \/ Creating(f) /\ Head(rpls).ret # "deleted"
         \/ Deleting(f) /\ Head(rpls).ret = "deleted",
         \A i \in DOMAIN ftids'.tab : i \in DOMAIN ftids.tab /\ ftids'.tab[i] = ftids.tab[i],
         \A i \in DOMAIN ftids.tab : i # t => i \in DOMAIN ftids'.tab,
         ~Creating(f)', ~Deleting(f)', Standing(f)' <=> t \in DOMAIN ftids'.tab,
         t \in DOMAIN ftids'.tab => Head(rpls).ret = "added",
         t \notin DOMAIN ftids'.tab => Head(rpls).ret # "added",
         \A g \in Flts : g # f => flt'[g] = flt[g]
  PROVE  MsgsInv'
<1>1. /\ TablesInv /\ MsgsType /\ StatesOK /\ AddsOK /\ AddsLast /\ AnswersOK
      /\ AnswersLast /\ DelsOK /\ DeletionsOK /\ Awaited /\ HardwareOK
  BY DEF FtidsInv, MsgsInv
<1>2. /\ rpls' \in Seq(Replies) /\ RplTaken /\ 1 \in 1 .. Len(rpls) /\ Head(rpls) = rpls[1]
      /\ rpls[1].tid = t /\ rpls[1].ret \in {"added", "deleted", "error"}
  BY <1>1, ReplyTaken, MsgFacts
<1>3. /\ \A k \in 1 .. Len(rpls') : \E i \in 1 .. Len(rpls) :
           i = k + 1 /\ rpls'[k] = rpls[i] /\ (Answers(k)' <=> Answers(i))
      /\ \A k \in 1 .. Len(rpls) :
           \/ k = 1
           \/ \E i \in 1 .. Len(rpls') :
                k = i + 1 /\ rpls'[i] = rpls[k] /\ (Answers(i)' <=> Answers(k))
  BY <1>1, <1>2, ReplyShift DEF RepliesShift
<1>4. \A q \in Ports : \A k \in 1 .. Len(reqs[q]) : /\ IsAdd(q, k)' <=> IsAdd(q, k)
                                                    /\ IsDel(q, k)' <=> IsDel(q, k)
  BY DEF IsAdd, IsDel
<1>5. \A g \in Flts : g # f => /\ Creating(g)' <=> Creating(g)
                               /\ Standing(g)' <=> Standing(g)
                               /\ Deleting(g)' <=> Deleting(g)
                               /\ Silent(g)' <=> Silent(g)
  BY OthersStay
<1>6. f \in Flts /\ flt[f].live /\ flt[f].tid = t
  BY <1>1, TableFacts
<1>7. \A i \in DOMAIN ftids.tab : /\ ftids.tab[i] \in Flts /\ flt[ftids.tab[i]].tid = i
                                  /\ ftids.tab[i] = f => i = t
  BY <1>1, <1>6, TableFacts
<1>8. \A g \in Flts : flt[g].live /\ g # f => flt[g].tid # t
  BY <1>1, <1>6, TableFacts
<1>9. /\ Answers(1) => Creating(f) /\ AnswerOK(1) /\ LastAnswer(1)
      /\ ~Answers(1) => Deleting(f) /\ DeletedOK(1)
      /\ Answers(1) <=> rpls[1].ret # "deleted"
  BY <1>1, <1>2 DEF Answers, AnswersOK, AnswersLast, DeletionsOK
<1>10. ~(Creating(f) /\ Deleting(f)) /\ ~(Creating(f) /\ Standing(f)) /\ ~Silent(f)'
  BY DEF Creating, Deleting, Standing, Silent
(* What is still under way about the identifier.                           *)
<1>11. \A q \in Ports : \A k \in 1 .. Len(reqs[q]) :
         /\ reqs[q][k].tid \in Ids /\ (IsAdd(q, k) => reqs[q][k].f \in Flts)
         /\ IsAdd(q, k) <=> ~IsDel(q, k)
  BY <1>1, MsgFacts
<1>12. \A q \in Ports : \A k \in 1 .. Len(reqs[q]) : Answers(1) => reqs[q][k].tid # t
  BY <1>2, <1>9 DEF LastAnswer
<1>13. ASSUME NEW q \in Ports, NEW k \in 1 .. Len(reqs[q]), IsAdd(q, k)
       PROVE  reqs[q][k].f # f /\ reqs[q][k].f \in Flts /\ AddOK(q, k)
  <2>1. AddOK(q, k) /\ reqs[q][k].f \in Flts
    BY <1>1, <1>11, <1>13 DEF AddsOK
  <2>2. ~(reqs[q][k].f = f)
    BY <1>6, <1>9, <1>10, <1>12, <2>1 DEF AddOK
  <2> QED
    BY <2>1, <2>2
<1>14. ASSUME NEW i \in 1 .. Len(rpls), i # 1, rpls[i].tid = t
       PROVE  ~Answers(1) /\ ~Answers(i)
  <2>1. i \in Nat /\ ~(i < 1)
    BY <1>1, MsgFacts
  <2>2. ~Answers(1)
    BY <1>2, <1>9, <1>14, <2>1 DEF LastAnswer
  <2>3. Answers(i) => Creating(f)
    BY <1>1, <1>14 DEF AnswersOK, AnswerOK
  <2> QED
    BY <1>9, <1>10, <2>2, <2>3
<1>15. t \in DOMAIN ftids'.tab => Answers(1)
  BY <1>2, <1>9
<1>16. MsgsType'
  BY <1>1, <1>2 DEF MsgsType
<1>17. AddsOK'
  BY <1>4, <1>5, <1>13 DEF AddsOK, AddOK
<1>18. AddsLast'
  <2> SUFFICES ASSUME NEW q \in Ports, NEW k \in 1 .. Len(reqs[q]), IsAdd(q, k)
               PROVE  LastAdd(q, k)'
    BY <1>4 DEF AddsLast
  <2>1. LastAdd(q, k)
    BY <1>1 DEF AddsLast
  <2>2. ASSUME NEW j \in 1 .. Len(rpls'), rpls'[j].tid = reqs[q][k].tid
        PROVE  rpls'[j].ret = "deleted"
    <3>1. PICK i \in 1 .. Len(rpls) : rpls'[j] = rpls[i]
      BY <1>3
    <3> QED
      BY <2>1, <2>2, <3>1 DEF LastAdd
  <2> QED
    BY <1>4, <2>1, <2>2 DEF LastAdd
<1>19. AnswersOK'
  <2> SUFFICES ASSUME NEW k \in 1 .. Len(rpls'), Answers(k)'
               PROVE  AnswerOK(k)'
    BY DEF AnswersOK
  <2>1. PICK i \in 1 .. Len(rpls) : i = k + 1 /\ rpls'[k] = rpls[i] /\ Answers(i)
    BY <1>3
  <2>2. AnswerOK(i) /\ rpls[i].tid # t
    BY <1>1, <1>14, <2>1 DEF AnswersOK
  <2>3. /\ rpls[i].tid \in DOMAIN ftids'.tab /\ ftids'.tab[rpls[i].tid] = ftids.tab[rpls[i].tid]
        /\ ftids.tab[rpls[i].tid] \in Flts /\ ftids.tab[rpls[i].tid] # f
    BY <1>7, <2>2 DEF AnswerOK
  <2> QED
    BY <1>5, <2>1, <2>2, <2>3 DEF AnswerOK
<1>20. AnswersLast'
  <2> SUFFICES ASSUME NEW k \in 1 .. Len(rpls'), Answers(k)'
               PROVE  LastAnswer(k)'
    BY DEF AnswersLast
  <2>1. PICK i \in 1 .. Len(rpls) : i = k + 1 /\ rpls'[k] = rpls[i] /\ Answers(i)
    BY <1>3
  <2>2. LastAnswer(i)
    BY <1>1, <2>1 DEF AnswersLast
  <2>3. ASSUME NEW j \in 1 .. Len(rpls'), j # k, rpls'[j].tid = rpls[i].tid
        PROVE  j < k /\ ~Answers(j)'
    <3>1. PICK h \in 1 .. Len(rpls) : h = j + 1 /\ rpls'[j] = rpls[h] /\ (Answers(j)' <=> Answers(h))
      BY <1>3
    <3>2. h # i
      BY <2>1, <2>3, <3>1
    <3> QED
      BY <2>1, <2>2, <2>3, <3>1, <3>2 DEF LastAnswer
  <2>4. \A q \in Ports : \A j \in 1 .. Len(reqs'[q]) : reqs'[q][j].tid # rpls'[k].tid
    BY <2>1, <2>2 DEF LastAnswer
  <2>5. \A j \in 1 .. Len(rpls') : j # k /\ rpls'[j].tid = rpls'[k].tid => j < k /\ ~Answers(j)'
    BY <2>1, <2>3
  <2> QED
    BY <2>4, <2>5 DEF LastAnswer
<1>21. DelsOK'
  <2> SUFFICES ASSUME NEW q \in Ports, NEW k \in 1 .. Len(reqs[q]), IsDel(q, k)
               PROVE  DelOK(q, k)'
    BY <1>4 DEF DelsOK
  <2>1. DelOK(q, k) /\ (reqs[q][k].tid = t => t \notin DOMAIN ftids'.tab)
    BY <1>1, <1>12, <1>15 DEF DelsOK
  <2> QED
    BY <1>5, <1>7, <2>1 DEF DelOK
<1>22. DeletionsOK'
  <2> SUFFICES ASSUME NEW k \in 1 .. Len(rpls'), ~Answers(k)'
               PROVE  DeletedOK(k)'
    BY DEF DeletionsOK
  <2>1. PICK i \in 1 .. Len(rpls) : i = k + 1 /\ rpls'[k] = rpls[i] /\ ~Answers(i)
    BY <1>3
  <2>2. DeletedOK(i) /\ (rpls[i].tid = t => t \notin DOMAIN ftids'.tab)
    BY <1>1, <1>14, <1>15, <2>1 DEF DeletionsOK
  <2> QED
    BY <1>5, <1>7, <2>1, <2>2 DEF DeletedOK
<1>23. Awaited'
  <2>1. ASSUME NEW g \in Flts, g # f, Creating(g) PROVE AddAwaited(g)'
    <3>1. AddAwaited(g) /\ Port[g] \in Ports /\ flt'[g] = flt[g] /\ flt[g].tid # t
      BY <1>1, <1>8, <2>1 DEF Awaited, Ports, Creating
    <3>2. ASSUME NEW k \in 1 .. Len(rpls), rpls[k].tid = flt[g].tid, Answers(k)
          PROVE  AddAwaited(g)'
      <4>1. PICK i \in 1 .. Len(rpls') : rpls'[i] = rpls[k] /\ Answers(i)'
        BY <1>2, <1>3, <3>1, <3>2
      <4> QED
        BY <3>1, <3>2, <4>1 DEF AddAwaited
    <3> QED
      BY <1>4, <3>1, <3>2 DEF AddAwaited
  <2>2. ASSUME NEW g \in Flts, g # f, Deleting(g) PROVE DelAwaited(g)'
    <3>1. DelAwaited(g) /\ 0 \in Ports /\ flt'[g] = flt[g] /\ flt[g].tid # t
      BY <1>1, <1>8, <2>2 DEF Awaited, Ports, Deleting
    <3>2. ASSUME NEW k \in 1 .. Len(rpls), rpls[k].tid = flt[g].tid, ~Answers(k)
          PROVE  DelAwaited(g)'
      <4>1. PICK i \in 1 .. Len(rpls') : rpls'[i] = rpls[k] /\ ~Answers(i)'
        BY <1>2, <1>3, <3>1, <3>2
      <4> QED
        BY <3>1, <3>2, <4>1 DEF DelAwaited
    <3> QED
      BY <1>4, <3>1, <3>2 DEF DelAwaited
  <2> QED
    BY <1>5, <2>1, <2>2 DEF Awaited
<1>24. HardwareOK'
  <2>1. ASSUME NEW i \in DOMAIN hwflt, There(i) PROVE There(i)'
    <3>1. CASE i = t
      <4>1. Answers(1) /\ rpls[1].ret = "added"
        BY <1>2, <1>9, <1>10, <2>1, <3>1 DEF AnswerOK, DeletedOK, Silent
      <4>2. t \in DOMAIN ftids'.tab /\ Standing(f)'
        BY <1>2, <4>1
      <4> QED
        BY <2>1, <3>1, <4>2 DEF There, Standing
    <3>2. CASE i # t
      <4>1. ASSUME NEW k \in 1 .. Len(rpls), rpls[k].tid = i, rpls[k].ret = "added"
            PROVE  \E h \in 1 .. Len(rpls') : rpls'[h].tid = i /\ rpls'[h].ret = "added"
        <5>1. k # 1
          BY <1>2, <3>2, <4>1
        <5>2. PICK h \in 1 .. Len(rpls') : rpls'[h] = rpls[k]
          BY <1>3, <5>1
        <5> QED
          BY <4>1, <5>2
      <4>2. /\ i \in DOMAIN ftids'.tab /\ ftids'.tab[i] = ftids.tab[i] /\ hwflt[i] = ftids.tab[i]
            /\ flt'[hwflt[i]] = flt[hwflt[i]]
        BY <1>7, <2>1, <3>2 DEF There
      <4> QED
        BY <2>1, <4>1, <4>2 DEF There
    <3> QED
      BY <3>1, <3>2
  <2>2. ASSUME NEW i \in DOMAIN hwflt, Leaving(i) PROVE Leaving(i)'
    <3>1. PICK k \in 1 .. Len(reqs[0]) :
            IsDel(0, k) /\ reqs[0][k].tid = i /\ BeforeDel(k, hwflt[i])
      BY <2>2 DEF Leaving
    <3>2. 0 \in Ports /\ hwflt[i] \in Flts
      BY <1>1, MsgFacts DEF Ports
    <3>3. BeforeDel(k, hwflt[i])'
      <4> DEFINE g == hwflt[i]
      <4> SUFFICES ASSUME Deleting(g)'
                   PROVE  /\ \A h \in 1 .. Len(rpls') : rpls'[h].tid = flt'[g].tid => Answers(h)'
                          /\ \A h \in 1 .. Len(reqs[0]) :
                               IsDel(0, h) /\ reqs[0][h].tid = flt'[g].tid => k < h
        BY <1>4, <3>2 DEF BeforeDel
      <4>1. g # f /\ Deleting(g) /\ flt'[g] = flt[g]
        BY <1>5, <3>2
      <4>2. ASSUME NEW h \in 1 .. Len(rpls'), rpls'[h].tid = flt[g].tid
            PROVE  Answers(h)'
        <5>1. PICK x \in 1 .. Len(rpls) : rpls'[h] = rpls[x] /\ (Answers(h)' <=> Answers(x))
          BY <1>3
        <5> QED
          BY <3>1, <4>1, <4>2, <5>1 DEF BeforeDel
      <4> QED
        BY <3>1, <4>1, <4>2 DEF BeforeDel
    <3> QED
      BY <1>4, <3>1, <3>2, <3>3 DEF Leaving
  <2>3. ASSUME NEW i \in DOMAIN ftids'.tab PROVE Stands(i)'
    <3>1. CASE i = t
      BY <1>2, <1>9, <2>3, <3>1 DEF Stands, AnswerOK
    <3>2. CASE i # t
      BY <1>1, <1>5, <1>7, <2>3, <3>2 DEF HardwareOK, Stands
    <3> QED
      BY <3>1, <3>2
  <2> QED
    BY <1>1, <2>1, <2>2, <2>3 DEF HardwareOK
<1> QED
  BY <1>16, <1>17, <1>18, <1>19, <1>20, <1>21, <1>22, <1>23, <1>24 DEF MsgsInv


(***************************************************************************)
(* Filters: every step, of users that wait                                 *)
(***************************************************************************)
(* Users that give a context and the listeners wait until nothing is under *)
(* way about the identifiers they take; silent ones need not.              *)
UsersWait == Hurried \subseteq {"silent"}

LEMMA NothingUnderWay ==
  ASSUME MsgsType, NEW S, NEW o \in S, About(S) = {}
  PROVE  NoMsgs(o)
<1>1. ASSUME NEW p \in Ports, NEW k \in 1 .. Len(reqs[p]), reqs[p][k].tid = o PROVE FALSE
  <2>1. reqs[p] \in Seq(Requests)
    BY DEF MsgsType
  <2>2. reqs[p][k] \in Range(reqs[p])
    BY <2>1 DEF Range
  <2>3. reqs[p][k] \in About(S)
    BY <1>1, <2>2 DEF About
  <2> QED
    BY <2>3
<1>2. ASSUME NEW k \in 1 .. Len(rpls), rpls[k].tid = o PROVE FALSE
  <2>1. rpls \in Seq(Replies)
    BY DEF MsgsType
  <2>2. rpls[k] \in Range(rpls)
    BY <2>1 DEF Range
  <2>3. rpls[k] \in (UNION {Range(reqs[p]) : p \in Ports}) \cup Range(rpls)
    BY <2>2
  <2>4. rpls[k].tid \in S
    BY <1>2
  <2>5. rpls[k] \in About(S)
    BY <2>3, <2>4 DEF About
  <2> QED
    BY <2>5
<1> QED
  BY <1>1, <1>2 DEF NoMsgs

(* A filter about whose identifier nothing is under way stands.            *)
LEMMA QuietStands ==
  ASSUME FtidsInv, MsgsInv, NEW i \in DOMAIN ftids.tab, NoMsgs(i)
  PROVE  Standing(ftids.tab[i]) /\ ftids.tab[i] \in Flts /\ waits[ftids.tab[i]] = "none"
<1> DEFINE f == ftids.tab[i]
<1>1. f \in Flts /\ flt[f].live /\ flt[f].tid = i
  BY TableFacts DEF FtidsInv
<1>2. Port[f] \in Ports /\ 0 \in Ports
  BY <1>1 DEF Ports
<1> HIDE DEF f
<1>3. ~AddAwaited(f) /\ ~DelAwaited(f)
  BY <1>1, <1>2 DEF NoMsgs, AddAwaited, DelAwaited
<1>4. Awaited /\ StatesOK
  BY DEF MsgsInv
<1>5. ~Creating(f) /\ ~Deleting(f)
  BY <1>1, <1>3, <1>4 DEF Awaited
<1>6. Standing(f) /\ waits[f] = "none"
  BY <1>1, <1>4, <1>5 DEF StatesOK
<1> QED
  BY <1>1, <1>6 DEF f

LEMMA RulesNoListeners == \A f \in Rules : f \in Flts /\ f \notin Listeners
BY FiltersAssumption DEF FiltersAssumption, Flts

LEMMA GiveIdKeeps ==
  ASSUME FltInv, UsersWait, NEW f \in Rules, NEW ctx \in BOOLEAN, NEW o \in Ids,
         Enters(f, o, ctx), GiveId(f, ctx, o), waits[f] = "none"
  PROVE  MsgsInv' /\ WaitsType' /\ ServerFiltersOwned'
<1>1. FtidsInv /\ TablesInv /\ MsgsInv /\ MsgsType /\ WaitsType /\ f \in Flts
  BY RulesNoListeners DEF FltInv, MsgsInv, FtidsInv
<1>2. NoMsgs(o) \/ (~ctx /\ Port[f] = 0)
  <2>1. MayTake(f, ctx, o)
    BY DEF GiveId
  <2>2. CASE KindOf(f, ctx) \in Hurried
    <3>1. KindOf(f, ctx) = "silent"
      BY <2>2 DEF UsersWait
    <3> QED
      BY <3>1 DEF KindOf
  <2>3. CASE About(Region(o, Width(ftids, WideF(f)))) = {}
    <3>1. o \in Int /\ Width(ftids, WideF(f)) \in Nat \ {0}
      BY <1>1, WidthIs, FilterFacts DEF Ids
    <3>2. o \in Region(o, Width(ftids, WideF(f)))
      BY <3>1, RegionHolds
    <3> QED
      BY <1>1, <2>3, <3>2, NothingUnderWay
  <2> QED
    BY <2>1, <2>2, <2>3 DEF MayTake
<1>3. /\ Enqueue(Port[f], CreateWr(f, o)) /\ rpls' = rpls /\ hwflt' = hwflt
      /\ waits' = [waits EXCEPT ![f] = IF ctx THEN "add" ELSE @]
      /\ lsn' = lsn /\ stid' = stid
  BY DEF GiveId, SendReq, lsnVars
<1>4. WaitsType' /\ waits'[f] = (IF ctx THEN "add" ELSE "none")
      /\ \A g \in Flts : g # f => waits'[g] = waits[g]
  BY <1>1, <1>3 DEF WaitsType
<1>5. MsgsInv'
  BY <1>1, <1>2, <1>3, <1>4, CreationSent
<1>6. ServerFiltersOwned'
  <2>1. \A s \in Listeners : s # f /\ flt'[s] = flt[s]
    BY <1>1, RulesNoListeners DEF Enters, TablesInv, FltsType, Flts
  <2> QED
    BY <1>3, <2>1 DEF ServerFiltersOwned, FltInv
<1> QED
  BY <1>4, <1>5, <1>6

LEMMA ListenInsertKeeps ==
  ASSUME FltInv, UsersWait, NEW s \in Listeners, ListenInsert(s)
  PROVE  MsgsInv' /\ WaitsType' /\ ServerFiltersOwned'
<1>1. FtidsInv /\ TablesInv /\ LsnType /\ MsgsInv /\ MsgsType /\ StatesOK /\ WaitsType
      /\ s \in Flts /\ s \notin Rules
  BY ListenerFacts, RulesNoListeners DEF FltInv, MsgsInv, FtidsInv
<1>2. Enters(s, stid[s], FALSE)
  BY <1>1, ListenInsertEnters
<1>3. NoMsgs(stid[s])
  <2>1. KindOf(s, FALSE) # "silent"
    BY <1>1 DEF KindOf
  <2>2. About({stid[s]}) = {}
    BY <2>1 DEF ListenInsert, UsersWait
  <2> QED
    BY <1>1, <2>2, NothingUnderWay
<1>4. /\ Enqueue(Port[s], CreateWr(s, stid[s])) /\ rpls' = rpls /\ hwflt' = hwflt
      /\ waits' = waits /\ stid' = stid /\ lsn' = [lsn EXCEPT ![s] = "listening"]
      /\ flt' = [flt EXCEPT ![s] = Sent(s, stid[s], FALSE)] /\ ~flt[s].live
  BY DEF ListenInsert
<1>5. waits'[s] = "none"
  BY <1>1, <1>4 DEF StatesOK, Creating, Standing, Deleting
<1>6. MsgsInv'
  BY <1>1, <1>2, <1>3, <1>4, <1>5, CreationSent
<1>7. ServerFiltersOwned'
  <2> SUFFICES ASSUME NEW u \in Listeners, flt'[u].live
               PROVE  lsn'[u] = "listening" /\ stid'[u] = flt'[u].tid
    BY DEF ServerFiltersOwned
  <2>1. CASE u = s
    BY <1>1, <1>4, <2>1 DEF TablesInv, FltsType, LsnType, Sent
  <2>2. CASE u # s
    <3>1. u \in Flts /\ flt'[u] = flt[u] /\ lsn'[u] = lsn[u]
      BY <1>1, <1>4, <2>2 DEF TablesInv, FltsType, LsnType, Flts
    <3> QED
      BY <1>4, <3>1 DEF ServerFiltersOwned, FltInv
  <2> QED
    BY <2>1, <2>2
<1> QED
  BY <1>1, <1>4, <1>6, <1>7 DEF WaitsType

LEMMA DeleteCtxKeeps ==
  ASSUME FltInv, NEW id \in 0 .. Ftids - 1, DeleteCtx(id)
  PROVE  MsgsInv' /\ WaitsType' /\ ServerFiltersOwned'
<1> DEFINE f == ftids.tab[id]
           u == [flt[f] EXCEPT !.ctx = TRUE, !.pending = TRUE]
<1>1. FtidsInv /\ TablesInv /\ MsgsInv /\ MsgsType /\ StatesOK /\ WaitsType /\ FltsType
  BY DEF FltInv, MsgsInv, FtidsInv, TablesInv
<1>2. /\ id \in DOMAIN ftids.tab /\ ~flt[f].pending
      /\ Enqueue(0, DeleteWr(id)) /\ rpls' = rpls /\ hwflt' = hwflt /\ ftids' = ftids
      /\ waits' = [waits EXCEPT ![f] = "del"] /\ lsn' = lsn /\ stid' = stid
      /\ flt' = [flt EXCEPT ![f].ctx = TRUE, ![f].pending = TRUE]
  BY DEF DeleteCtx, Deletable, SendReq, lsnVars
<1>3. f \in Flts /\ flt[f].live /\ flt[f].tid = id
  BY <1>1, <1>2, TableFacts
<1>f. PICK g : g = f
  OBVIOUS
<1> HIDE DEF f
<1>4. flt' = [flt EXCEPT ![f] = u]
  BY <1>2
<1>5. /\ u \in LiveFlt /\ u.live /\ u.tid = flt[f].tid /\ u.ctx /\ u.pending
      /\ u.valid = flt[f].valid
  BY <1>1, <1>3, FlagsType
<1> HIDE DEF u
<1>6. flt'[f] = u /\ \A h \in Flts : h # f => flt'[h] = flt[h]
  BY <1>1, <1>3, <1>4, <1>5, OneChanges
<1>7. Standing(f)
  BY <1>1, <1>2, <1>3 DEF StatesOK, Creating, Standing, Deleting
<1>8. /\ ~Creating(g)' /\ ~Standing(g)' /\ Deleting(g)' /\ flt'[g].tid = id
  BY <1>3, <1>5, <1>6, <1>7, <1>f DEF Creating, Standing, Deleting
<1>9. WaitsType' /\ waits'[f] = "del" /\ \A h \in Flts : h # f => waits'[h] = waits[h]
  BY <1>1, <1>2, <1>3 DEF WaitsType
<1>10. StatesOK'
  <2>1. ASSUME NEW h \in Flts, h # f
        PROVE  \/ ~flt'[h].live /\ waits'[h] = "none"
               \/ Creating(h)' /\ flt'[h].ctx /\ waits'[h] = "add"
               \/ Creating(h)' /\ ~flt'[h].ctx /\ waits'[h] = "none"
               \/ Standing(h)' /\ waits'[h] = "none"
               \/ Deleting(h)' /\ waits'[h] = "del"
    <3>1. flt'[h] = flt[h] /\ waits'[h] = waits[h]
      BY <1>6, <1>9, <2>1
    <3> QED
      BY <1>1, <3>1 DEF StatesOK, Creating, Standing, Deleting
  <2> QED
    BY <1>8, <1>9, <1>f, <2>1 DEF StatesOK
<1>11. MsgsInv'
  BY <1>1, <1>2, <1>6, <1>7, <1>8, <1>10, <1>f, DeletionSent DEF f
<1>12. ServerFiltersOwned'
  <2>1. \A s \in Flts : (flt'[s].live <=> flt[s].live) /\ flt'[s].tid = flt[s].tid
    BY <1>3, <1>5, <1>6
  <2> QED
    BY <1>2, <2>1, ListenerFacts DEF ServerFiltersOwned, FltInv
<1> QED
  BY <1>9, <1>11, <1>12

(* A filter that stands is deleted and forgotten at once.                  *)
LEMMA SilentDeletionKeeps ==
  ASSUME FltInv, NEW id \in DOMAIN ftids.tab, Standing(ftids.tab[id]),
         Enqueue(0, DeleteWr(id)), ClearFilter(id, ftids.tab[id]),
         rpls' = rpls, hwflt' = hwflt, waits' = waits
  PROVE  MsgsInv' /\ WaitsType'
<1>1. FtidsInv /\ TablesInv /\ MsgsInv /\ MsgsType /\ StatesOK /\ WaitsType
  BY DEF FltInv, MsgsInv, FtidsInv
<1>2. PICK f : f = ftids.tab[id]
  OBVIOUS
<1>3. /\ f \in Flts /\ Standing(f)
      /\ DOMAIN ftids'.tab = DOMAIN ftids.tab \ {id}
      /\ \A i \in DOMAIN ftids'.tab : ftids'.tab[i] = ftids.tab[i]
      /\ ~flt'[f].live /\ \A g \in Flts : g # f => flt'[g] = flt[g]
  BY <1>1, <1>2, FilterLeaves, TableFacts
<1>4. ~Creating(f)' /\ ~Standing(f)' /\ ~Deleting(f)'
  BY <1>3 DEF Creating, Standing, Deleting
<1>5. waits[f] = "none"
  BY <1>1, <1>3 DEF StatesOK, Creating, Standing, Deleting
<1>6. StatesOK'
  <2>1. ASSUME NEW h \in Flts, h # f
        PROVE  \/ ~flt'[h].live /\ waits'[h] = "none"
               \/ Creating(h)' /\ flt'[h].ctx /\ waits'[h] = "add"
               \/ Creating(h)' /\ ~flt'[h].ctx /\ waits'[h] = "none"
               \/ Standing(h)' /\ waits'[h] = "none"
               \/ Deleting(h)' /\ waits'[h] = "del"
    <3>1. flt'[h] = flt[h] /\ waits'[h] = waits[h]
      BY <1>3, <2>1
    <3> QED
      BY <1>1, <3>1 DEF StatesOK, Creating, Standing, Deleting
  <2> QED
    BY <1>3, <1>5, <2>1 DEF StatesOK
<1>7. MsgsInv'
  BY <1>1, <1>2, <1>3, <1>4, <1>6, DeletionSent
<1> QED
  BY <1>1, <1>7 DEF WaitsType


LEMMA DeleteSilentKeeps ==
  ASSUME FltInv, NEW id \in 0 .. Ftids - 1, DeleteSilent(id)
  PROVE  MsgsInv' /\ WaitsType' /\ ServerFiltersOwned'
<1>1. FtidsInv /\ TablesInv /\ MsgsInv /\ StatesOK
  BY DEF FltInv, MsgsInv, FtidsInv
<1>2. /\ id \in DOMAIN ftids.tab /\ ~flt[ftids.tab[id]].pending
      /\ Enqueue(0, DeleteWr(id)) /\ ClearFilter(id, ftids.tab[id])
      /\ rpls' = rpls /\ hwflt' = hwflt /\ waits' = waits /\ lsn' = lsn /\ stid' = stid
  BY DEF DeleteSilent, Deletable, SendReq, lsnVars
<1>3. /\ ftids.tab[id] \in Flts /\ ~flt'[ftids.tab[id]].live
      /\ \A g \in Flts : g # ftids.tab[id] => flt'[g] = flt[g]
  BY <1>1, <1>2, FilterLeaves, TableFacts
<1>4. Standing(ftids.tab[id])
  BY <1>1, <1>2, TableFacts DEF StatesOK, Creating, Standing, Deleting
<1>5. MsgsInv' /\ WaitsType'
  BY <1>2, <1>4, SilentDeletionKeeps
<1>6. ServerFiltersOwned'
  <2>1. \A s \in Listeners : flt'[s].live => flt[s].live /\ flt'[s] = flt[s]
    BY <1>3, ListenerFacts
  <2> QED
    BY <1>2, <2>1 DEF ServerFiltersOwned, FltInv
<1> QED
  BY <1>5, <1>6

(* Steps that touch neither filters nor messages.                          *)
LEMMA MsgsStay ==
  ASSUME MsgsInv, ftids' = ftids, flt' = flt, reqs' = reqs, rpls' = rpls, hwflt' = hwflt,
         waits' = waits
  PROVE  MsgsInv'
<1>1. \A p, k : (IsAdd(p, k)' <=> IsAdd(p, k)) /\ (IsDel(p, k)' <=> IsDel(p, k))
  BY DEF IsAdd, IsDel
<1>2. \A k : Answers(k)' <=> Answers(k)
  BY DEF Answers
<1>3. \A g : /\ Creating(g)' <=> Creating(g)
             /\ Standing(g)' <=> Standing(g)
             /\ Deleting(g)' <=> Deleting(g)
             /\ Silent(g)' <=> Silent(g)
  BY DEF Creating, Standing, Deleting, Silent
<1>4. MsgsType' /\ StatesOK'
  BY <1>3 DEF MsgsInv, MsgsType, StatesOK
<1>5. AddsOK' /\ DelsOK'
  BY <1>1, <1>3 DEF MsgsInv, AddsOK, AddOK, DelsOK, DelOK
<1>6. AddsLast'
  BY <1>1 DEF MsgsInv, AddsLast, LastAdd
<1>7. AnswersOK' /\ DeletionsOK'
  BY <1>2, <1>3 DEF MsgsInv, AnswersOK, AnswerOK, DeletionsOK, DeletedOK
<1>8. AnswersLast'
  BY <1>2 DEF MsgsInv, AnswersLast, LastAnswer
<1>9. Awaited'
  BY <1>1, <1>2, <1>3 DEF MsgsInv, Awaited, AddAwaited, DelAwaited
<1>10. HardwareOK'
  <2>1. \A i, g : BeforeDel(i, g)' <=> BeforeDel(i, g)
    BY <1>1, <1>2, <1>3 DEF BeforeDel
  <2>2. \A t \in DOMAIN hwflt : (There(t)' <=> There(t)) /\ (Leaving(t)' <=> Leaving(t))
    BY <1>1, <2>1 DEF There, Leaving
  <2>3. \A t : Stands(t)' <=> Stands(t)
    BY <1>3 DEF Stands
  <2> QED
    BY <2>2, <2>3 DEF MsgsInv, HardwareOK
<1> QED
  BY <1>4, <1>5, <1>6, <1>7, <1>8, <1>9, <1>10 DEF MsgsInv

LEMMA ListenStartKeeps ==
  ASSUME FltInv, NEW s \in Listeners, ListenStart(s)
  PROVE  MsgsInv' /\ WaitsType' /\ ServerFiltersOwned'
<1>1. /\ lsn[s] = "closed" /\ lsn' = [lsn EXCEPT ![s] = "inserting"]
      /\ \E o : stid' = [stid EXCEPT ![s] = o]
      /\ ftids' = ftids /\ flt' = flt /\ reqs' = reqs /\ rpls' = rpls /\ hwflt' = hwflt
      /\ waits' = waits
  BY DEF ListenStart
<1>2. MsgsInv' /\ WaitsType'
  BY <1>1, MsgsStay DEF FltInv, WaitsType
<1>3. ServerFiltersOwned'
  <2> SUFFICES ASSUME NEW u \in Listeners, flt[u].live
               PROVE  lsn'[u] = "listening" /\ stid'[u] = flt[u].tid
    BY <1>1 DEF ServerFiltersOwned
  <2>1. lsn[u] = "listening" /\ stid[u] = flt[u].tid
    BY DEF ServerFiltersOwned, FltInv
  <2>2. u # s
    BY <1>1, <2>1
  <2>3. lsn'[u] = lsn[u] /\ stid'[u] = stid[u]
    BY <1>1, <2>2 DEF FltInv, FtidsInv, LsnType
  <2> QED
    BY <2>1, <2>3
<1> QED
  BY <1>2, <1>3

LEMMA ListenStopKeeps ==
  ASSUME FltInv, UsersWait, NEW s \in Listeners, ListenStop(s)
  PROVE  MsgsInv' /\ WaitsType' /\ ServerFiltersOwned'
<1>1. FtidsInv /\ TablesInv /\ LsnType /\ MsgsInv /\ MsgsType /\ StatesOK /\ WaitsType
  BY DEF FltInv, MsgsInv, FtidsInv
<1>2. /\ lsn' = [lsn EXCEPT ![s] = "closed"] /\ stid' = stid
      /\ rpls' = rpls /\ hwflt' = hwflt /\ waits' = waits
  BY DEF ListenStop
<1>3. NoMsgs(stid[s])
  <2>1. About({stid[s]}) = {}
    BY DEF ListenStop, UsersWait
  <2> QED
    BY <1>1, <2>1, NothingUnderWay
<1>4. /\ MsgsInv' /\ WaitsType' /\ ~flt'[s].live
      /\ \A u \in Listeners : flt'[u].live => flt'[u] = flt[u]
  <2>1. CASE stid[s] \in DOMAIN ftids.tab /\ flt[ftids.tab[stid[s]]].valid
    <3>1. /\ stid[s] \in DOMAIN ftids.tab /\ Enqueue(0, DeleteWr(stid[s]))
          /\ ClearFilter(stid[s], ftids.tab[stid[s]])
      BY <2>1 DEF ListenStop, SendReq
    <3>2. Standing(ftids.tab[stid[s]])
      BY <1>1, <1>3, <3>1, QuietStands
    <3>3. MsgsInv' /\ WaitsType'
      BY <1>2, <3>1, <3>2, SilentDeletionKeeps
    <3>4. /\ ftids.tab[stid[s]] \in Flts /\ ~flt'[ftids.tab[stid[s]]].live
          /\ \A g \in Flts : g # ftids.tab[stid[s]] => flt'[g] = flt[g]
      BY <1>1, <3>1, FilterLeaves, TableFacts
    <3>5. ~flt'[s].live
      <4> SUFFICES ASSUME flt'[s].live PROVE FALSE
        OBVIOUS
      <4>1. s \in Flts /\ s # ftids.tab[stid[s]] /\ flt[s].live
        BY <3>4, ListenerFacts
      <4>2. stid[s] = flt[s].tid
        BY <4>1 DEF FltInv, ServerFiltersOwned
      <4> QED
        BY <1>1, <4>1, <4>2, TableFacts
    <3>6. \A u \in Listeners : flt'[u].live => flt'[u] = flt[u]
      BY <3>4, ListenerFacts
    <3> QED
      BY <3>3, <3>5, <3>6
  <2>2. CASE ~(stid[s] \in DOMAIN ftids.tab /\ flt[ftids.tab[stid[s]]].valid)
    <3>1. ftids' = ftids /\ flt' = flt /\ reqs' = reqs
      BY <2>2 DEF ListenStop
    <3>2. MsgsInv' /\ WaitsType'
      BY <1>1, <1>2, <3>1, MsgsStay DEF WaitsType
    <3>3. ~flt[s].live
      <4> SUFFICES ASSUME flt[s].live PROVE FALSE
        OBVIOUS
      <4>1. stid[s] = flt[s].tid /\ s \in Flts
        BY ListenerFacts DEF FltInv, ServerFiltersOwned
      <4>2. stid[s] \in DOMAIN ftids.tab /\ ftids.tab[stid[s]] = s
        BY <1>1, <4>1, TableFacts
      <4>3. Standing(s)
        BY <1>1, <1>3, <4>2, QuietStands
      <4> QED
        BY <2>2, <4>2, <4>3 DEF Standing
    <3> QED
      BY <3>1, <3>2, <3>3
  <2> QED
    BY <2>1, <2>2
<1>5. ServerFiltersOwned'
  <2> SUFFICES ASSUME NEW u \in Listeners, flt'[u].live
               PROVE  lsn'[u] = "listening" /\ stid'[u] = flt'[u].tid
    BY DEF ServerFiltersOwned
  <2>1. u # s /\ flt'[u] = flt[u]
    BY <1>4
  <2>2. lsn[u] = "listening" /\ stid[u] = flt[u].tid
    BY <2>1 DEF FltInv, ServerFiltersOwned
  <2>3. lsn'[u] = lsn[u]
    BY <1>1, <1>2, <2>1 DEF LsnType
  <2> QED
    BY <1>2, <2>1, <2>2, <2>3
<1> QED
  BY <1>4, <1>5

LEMMA FwStepKeeps ==
  ASSUME FltInv, NEW p \in Ports, FwStep(p)
  PROVE  MsgsInv' /\ WaitsType' /\ ServerFiltersOwned'
<1>1. FtidsInv /\ MsgsInv /\ WaitsType
  BY DEF FltInv
<1>2. /\ reqs[p] # <<>> /\ reqs' = [reqs EXCEPT ![p] = Tail(@)]
      /\ ftids' = ftids /\ flt' = flt /\ waits' = waits /\ lsn' = lsn /\ stid' = stid
  BY DEF FwStep, lsnVars
<1>3. ASSUME Head(reqs[p]).op = "del",
             hwflt' = Restrict(hwflt, DOMAIN hwflt \ {Head(reqs[p]).tid}),
             rpls' = Append(rpls, [tid |-> Head(reqs[p]).tid, ret |-> "deleted"])
      PROVE  MsgsInv'
  BY <1>1, <1>2, <1>3, FirmwareDeletes
<1>4. ASSUME Head(reqs[p]).op = "add",
             hwflt' = [i \in DOMAIN hwflt \cup {Head(reqs[p]).tid} |->
                         IF i = Head(reqs[p]).tid THEN Head(reqs[p]).f ELSE hwflt[i]],
             rpls' = Append(rpls, [tid |-> Head(reqs[p]).tid, ret |-> "added"])
      PROVE  MsgsInv'
  <2>1. "added" \in {"added", "error"} /\ "added" # "error"
    OBVIOUS
  <2> QED
    BY <1>1, <1>2, <1>4, <2>1, FirmwareWrites
<1>5. ASSUME Head(reqs[p]).op = "add", hwflt' = hwflt,
             rpls' = Append(rpls, [tid |-> Head(reqs[p]).tid, ret |-> "error"])
      PROVE  MsgsInv'
  <2>1. "error" \in {"added", "error"} /\ "added" # "error"
    OBVIOUS
  <2> QED
    BY <1>1, <1>2, <1>5, <2>1, FirmwareWrites
<1>6. MsgsInv'
  BY <1>3, <1>4, <1>5 DEF FwStep
<1> QED
  BY <1>2, <1>6 DEF WaitsType, ServerFiltersOwned, FltInv


(* What the handler finds for a reply about an identifier of the table: a  *)
(* creation it ends, a deletion whose caller waits, or a silent one.       *)
LEMMA ReplyFinds ==
  ASSUME FltInv, rpls # <<>>, Head(rpls).tid \in DOMAIN ftids.tab
  PROVE  LET r == Head(rpls)
             f == ftids.tab[r.tid]
         IN /\ f \in Flts /\ flt[f].live /\ flt[f].tid = r.tid
            /\ \/ /\ r.ret = "added" /\ Creating(f)
                  /\ r.tid \in DOMAIN hwflt /\ hwflt[r.tid] = f
               \/ r.ret = "error" /\ Creating(f) /\ r.tid \notin DOMAIN hwflt
               \/ r.ret = "deleted" /\ Deleting(f) /\ r.tid \notin DOMAIN hwflt
               \/ r.ret = "deleted" /\ Silent(f)
<1>1. /\ TablesInv /\ MsgsType /\ AnswersOK /\ DeletionsOK
  BY DEF FltInv, FtidsInv, MsgsInv
<1>2. /\ 1 \in 1 .. Len(rpls) /\ Head(rpls) = rpls[1]
      /\ rpls[1].ret \in {"added", "deleted", "error"}
  <2>1. 1 \in 1 .. Len(rpls) /\ Head(rpls) = rpls[1]
    <3>1. rpls \in Seq(Replies)
      BY <1>1 DEF MsgsType
    <3> QED
      BY <3>1
  <2> QED
    BY <1>1, <2>1, MsgFacts
<1>3. PICK t, f : t = rpls[1].tid /\ f = ftids.tab[t]
  OBVIOUS
<1>4. t \in DOMAIN ftids.tab /\ f \in Flts /\ flt[f].live /\ flt[f].tid = t
  BY <1>1, <1>2, <1>3, TableFacts
<1>5. CASE rpls[1].ret # "deleted"
  <2>1. Creating(f) /\ AnswerOK(1)
    BY <1>1, <1>2, <1>3, <1>5 DEF AnswersOK, AnswerOK, Answers
  <2> QED
    BY <1>2, <1>3, <1>4, <1>5, <2>1 DEF AnswerOK
<1>6. CASE rpls[1].ret = "deleted"
  <2>1. DeletedOK(1)
    BY <1>1, <1>2, <1>6 DEF DeletionsOK, Answers
  <2> QED
    BY <1>2, <1>3, <1>4, <1>6, <2>1 DEF DeletedOK
<1> QED
  BY <1>5, <1>6

LEMMA FilterReplyKeeps ==
  ASSUME FltInv, FilterReply
  PROVE  MsgsInv' /\ WaitsType' /\ ServerFiltersOwned'
<1>1. FtidsInv /\ TablesInv /\ MsgsInv /\ StatesOK /\ WaitsType /\ FltsType
  BY DEF FltInv, MsgsInv, FtidsInv, TablesInv
<1>2. /\ rpls # <<>> /\ rpls' = Tail(rpls) /\ reqs' = reqs /\ hwflt' = hwflt
      /\ lsn' = lsn /\ stid' = stid
  BY DEF FilterReply, lsnVars
<1>3. PICK r, t, f : r = Head(rpls) /\ t = r.tid /\ f = ftids.tab[t]
  OBVIOUS
<1>4. CASE t \notin DOMAIN ftids.tab
  <2>1. ftids' = ftids /\ flt' = flt /\ waits' = waits
    BY <1>3, <1>4 DEF FilterReply
  <2>2. StatesOK'
    BY <1>1, <2>1 DEF StatesOK, Creating, Standing, Deleting
  <2>3. MsgsInv'
    BY <1>1, <1>2, <1>3, <1>4, <2>1, <2>2, ReplyIgnored
  <2> QED
    BY <1>1, <1>2, <2>1, <2>3 DEF WaitsType, ServerFiltersOwned, FltInv
<1>5. CASE t \in DOMAIN ftids.tab
  <2>1. /\ f \in Flts /\ flt[f].live /\ flt[f].tid = t
        /\ \/ r.ret = "added" /\ Creating(f)
           \/ r.ret = "error" /\ Creating(f)
           \/ r.ret = "deleted" /\ Deleting(f)
           \/ r.ret = "deleted" /\ Silent(f)
    BY <1>2, <1>3, <1>5, ReplyFinds
  <2>2. Complete(f)
    BY <1>3, <1>5 DEF FilterReply
  <2>3. /\ WaitsType' /\ waits'[f] = "none" /\ \A g \in Flts : g # f => waits'[g] = waits[g]
    <3>1. flt[f].ctx \/ waits[f] = "none"
      BY <1>1, <2>1 DEF StatesOK, Creating, Standing, Deleting, Silent
    <3> QED
      BY <1>1, <2>1, <2>2, <3>1 DEF WaitsType, Complete
  <2>4. ASSUME NEW h \in Flts, flt'[h] = flt[h], waits'[h] = waits[h]
        PROVE  \/ ~flt'[h].live /\ waits'[h] = "none"
               \/ Creating(h)' /\ flt'[h].ctx /\ waits'[h] = "add"
               \/ Creating(h)' /\ ~flt'[h].ctx /\ waits'[h] = "none"
               \/ Standing(h)' /\ waits'[h] = "none"
               \/ Deleting(h)' /\ waits'[h] = "del"
    BY <1>1, <2>4 DEF StatesOK, Creating, Standing, Deleting
  <2>5. CASE r.ret = "deleted" /\ Silent(f)
    <3>1. ftids' = ftids /\ flt' = flt /\ ~flt[f].ctx
      BY <1>3, <1>5, <2>5 DEF FilterReply, Silent
    <3>2. waits[f] = "none"
      BY <1>1, <2>1, <2>5 DEF StatesOK, Creating, Standing, Deleting, Silent
    <3>3. StatesOK'
      BY <2>3, <2>4, <3>1, <3>2 DEF StatesOK
    <3>4. MsgsInv'
      BY <1>1, <1>2, <1>3, <2>5, <3>1, <3>3, ReplyIgnored
    <3> QED
      BY <1>2, <2>3, <3>1, <3>4 DEF ServerFiltersOwned, FltInv
  <2>6. CASE r.ret = "added" /\ Creating(f)
    <3> DEFINE u == [flt[f] EXCEPT !.ctx = FALSE, !.pending = FALSE, !.valid = TRUE]
    <3>1. /\ ftids' = ftids
          /\ flt' = [flt EXCEPT ![f].ctx = FALSE, ![f].pending = FALSE, ![f].valid = TRUE]
      BY <1>3, <1>5, <2>6 DEF FilterReply
    <3>2. flt' = [flt EXCEPT ![f] = u]
      BY <3>1
    <3>3. u \in LiveFlt /\ u.live /\ u.tid = flt[f].tid /\ ~u.ctx /\ ~u.pending /\ u.valid
      BY <1>1, <2>1, FlagsType
    <3> HIDE DEF u
    <3>4. flt'[f] = u /\ \A h \in Flts : h # f => flt'[h] = flt[h]
      BY <1>1, <2>1, <3>2, <3>3, OneChanges
    <3>5. ~Creating(f)' /\ ~Deleting(f)' /\ Standing(f)'
      BY <3>3, <3>4 DEF Creating, Standing, Deleting
    <3>6. StatesOK'
      BY <2>3, <2>4, <3>4, <3>5 DEF StatesOK
    <3>7. MsgsInv'
      BY <1>1, <1>2, <1>3, <1>5, <2>6, <3>1, <3>4, <3>5, <3>6, ReplyChanges
    <3>8. ServerFiltersOwned'
      <4>1. \A s \in Flts : (flt'[s].live <=> flt[s].live) /\ flt'[s].tid = flt[s].tid
        BY <2>1, <3>3, <3>4
      <4> QED
        BY <1>2, <4>1, ListenerFacts DEF ServerFiltersOwned, FltInv
    <3> QED
      BY <2>3, <3>7, <3>8
  <2>7. CASE \/ r.ret = "error" /\ Creating(f)
             \/ r.ret = "deleted" /\ Deleting(f)
    <3>1. ClearFilter(t, f)
      BY <1>3, <1>5, <2>7 DEF FilterReply, Deleting
    <3>2. /\ DOMAIN ftids'.tab = DOMAIN ftids.tab \ {t}
          /\ \A i \in DOMAIN ftids'.tab : ftids'.tab[i] = ftids.tab[i]
          /\ ~flt'[f].live /\ \A g \in Flts : g # f => flt'[g] = flt[g]
      BY <1>1, <1>3, <1>5, <3>1, FilterLeaves
    <3>3. ~Creating(f)' /\ ~Deleting(f)' /\ ~Standing(f)'
      BY <3>2 DEF Creating, Standing, Deleting
    <3>4. StatesOK'
      BY <2>3, <2>4, <3>2 DEF StatesOK
    <3>5. r.ret # "added"
      BY <2>7
    <3>6. \/ Creating(f) /\ r.ret # "deleted"
          \/ Deleting(f) /\ r.ret = "deleted"
      BY <2>7
    <3>7. MsgsInv'
      BY <1>1, <1>2, <1>3, <1>5, <3>2, <3>3, <3>4, <3>5, <3>6, ReplyChanges
    <3>8. ServerFiltersOwned'
      <4>1. \A s \in Listeners : flt'[s].live => flt'[s] = flt[s]
        BY <3>2, ListenerFacts
      <4> QED
        BY <1>2, <4>1 DEF ServerFiltersOwned, FltInv
    <3> QED
      BY <2>3, <3>7, <3>8
  <2> QED
    BY <2>1, <2>5, <2>6, <2>7
<1> QED
  BY <1>4, <1>5

LEMMA FltInvStep ==
  ASSUME UsersWait, FltInv, [FltNext]_fltVars
  PROVE  FltInv'
<1>1. FtidsInv /\ TablesInv
  BY DEF FltInv, FtidsInv
<1>2. FtidsInv'
  BY <1>1, FtidsInvStep
<1>3. MsgsInv' /\ WaitsType' /\ ServerFiltersOwned'
  <2>1. ASSUME NEW f \in Rules, NEW ctx \in BOOLEAN, CreateAny(f, ctx)
        PROVE  MsgsInv' /\ WaitsType' /\ ServerFiltersOwned'
    <3>1. waits[f] = "none" /\ \E o \in Ids : Enters(f, o, ctx) /\ GiveId(f, ctx, o)
      BY <1>1, <2>1, CreateAnyEnters DEF CreateAny
    <3> QED
      BY <3>1, GiveIdKeeps
  <2>2. ASSUME NEW f \in Rules, NEW ctx \in BOOLEAN, NEW id \in 0 .. Ftids - 1,
               Create(f, ctx, id)
        PROVE  MsgsInv' /\ WaitsType' /\ ServerFiltersOwned'
    <3>1. waits[f] = "none" /\ \E o \in Ids : Enters(f, o, ctx) /\ GiveId(f, ctx, o)
      BY <1>1, <2>2, CreateEnters DEF Create
    <3> QED
      BY <3>1, GiveIdKeeps
  <2>3. ASSUME NEW f \in Rules, CreateFails(f)
        PROVE  MsgsInv' /\ WaitsType' /\ ServerFiltersOwned'
    <3>1. /\ ftids' = ftids /\ flt' = flt /\ reqs' = reqs /\ rpls' = rpls /\ hwflt' = hwflt
          /\ waits' = waits /\ lsn' = lsn /\ stid' = stid
      BY <2>3 DEF CreateFails, lsnVars
    <3> QED
      BY <3>1, MsgsStay DEF FltInv, WaitsType, ServerFiltersOwned
  <2>4. ASSUME UNCHANGED fltVars
        PROVE  MsgsInv' /\ WaitsType' /\ ServerFiltersOwned'
    <3>1. /\ ftids' = ftids /\ flt' = flt /\ reqs' = reqs /\ rpls' = rpls /\ hwflt' = hwflt
          /\ waits' = waits /\ lsn' = lsn /\ stid' = stid
      BY <2>4 DEF fltVars
    <3> QED
      BY <3>1, MsgsStay DEF FltInv, WaitsType, ServerFiltersOwned
  <2> QED
    BY <2>1, <2>2, <2>3, <2>4, DeleteCtxKeeps, DeleteSilentKeeps, ListenStartKeeps,
       ListenInsertKeeps, ListenStopKeeps, FwStepKeeps, FilterReplyKeeps DEF FltNext
<1> QED
  BY <1>2, <1>3 DEF FltInv

LEMMA FltInvInit == FltInit => FltInv
<1> SUFFICES ASSUME FltInit PROVE FltInv
  OBVIOUS
<1>1. FtidsInv /\ WaitsType /\ \A f \in Flts : ~flt[f].live /\ waits[f] = "none"
  BY FtidsInvInit DEF FltInit, WaitsType, NoFlt
<1>2. \A f \in Flts : ~Creating(f) /\ ~Standing(f) /\ ~Deleting(f)
  BY <1>1 DEF Creating, Standing, Deleting
<1> DEFINE e == <<>>
<1>3. /\ e \in Seq(Requests) /\ e \in Seq(Replies) /\ 1 .. Len(e) = {} /\ DOMAIN e = {}
  OBVIOUS
<1>4. reqs = [p \in Ports |-> e] /\ rpls = e /\ hwflt = e /\ ftids.tab = e
  BY DEF FltInit, NewTable
<1> HIDE DEF e
<1>5. /\ \A p \in Ports : 1 .. Len(reqs[p]) = {}
      /\ 1 .. Len(rpls) = {} /\ DOMAIN hwflt = {} /\ DOMAIN ftids.tab = {}
  BY <1>3, <1>4
<1>6. MsgsType
  <2>1. hwflt \in [DOMAIN hwflt -> Flts]
    BY <1>3, <1>4 DEF e
  <2> QED
    BY <1>3, <1>4, <2>1 DEF MsgsType
<1>7. StatesOK /\ Awaited
  BY <1>1, <1>2 DEF StatesOK, Awaited
<1>8. AddsOK /\ AddsLast /\ AnswersOK /\ AnswersLast /\ DelsOK /\ DeletionsOK
  BY <1>5 DEF AddsOK, AddsLast, AnswersOK, AnswersLast, DelsOK, DeletionsOK
<1>9. HardwareOK
  BY <1>5 DEF HardwareOK
<1>10. ServerFiltersOwned
  BY <1>1, ListenerFacts DEF ServerFiltersOwned
<1> QED
  BY <1>1, <1>6, <1>7, <1>8, <1>9, <1>10 DEF FltInv, MsgsInv

LEMMA HardwareAgrees ==
  ASSUME FltInv
  PROVE  HwAgrees
<1>1. FtidsInv /\ TablesInv /\ MsgsInv /\ MsgsType /\ HardwareOK
  BY DEF FltInv, FtidsInv, MsgsInv
<1> SUFFICES ASSUME NEW id \in 0 .. Ftids - 1, About({id}) = {}
             PROVE  /\ id \in DOMAIN hwflt <=> id \in DOMAIN ftids.tab
                    /\ id \in DOMAIN hwflt =>
                         /\ hwflt[id] = ftids.tab[id]
                         /\ flt[hwflt[id]].valid /\ ~flt[hwflt[id]].pending
                         /\ waits[hwflt[id]] = "none"
  BY DEF HwAgrees
<1>2. NoMsgs(id) /\ 0 \in Ports
  BY <1>1, NothingUnderWay DEF Ports
<1>3. ASSUME id \in DOMAIN hwflt
      PROVE  id \in DOMAIN ftids.tab /\ hwflt[id] = ftids.tab[id]
  <2>1. ~Leaving(id)
    BY <1>2 DEF Leaving, NoMsgs
  <2> QED
    BY <1>1, <1>3, <2>1 DEF HardwareOK, There
<1>4. ASSUME id \in DOMAIN ftids.tab
      PROVE  /\ Standing(ftids.tab[id]) /\ waits[ftids.tab[id]] = "none"
             /\ id \in DOMAIN hwflt
  <2>1. Standing(ftids.tab[id]) /\ waits[ftids.tab[id]] = "none"
    BY <1>1, <1>2, <1>4, QuietStands
  <2> QED
    BY <1>1, <1>4, <2>1 DEF HardwareOK, Stands
<1> QED
  BY <1>3, <1>4 DEF Standing

LEMMA FltInvSound ==
  ASSUME FltInv
  PROVE  FilterTableSound
BY FtidsInvAgrees, HardwareAgrees DEF FilterTableSound, FltInv

(* Of users that wait until nothing is under way about an identifier they  *)
(* take, or neither wait nor are told (UsersWait): the tables agree, a     *)
(* server filter has its listener, and wherever nothing is under way the   *)
(* hardware has the filter that the driver regards as valid, or none, for  *)
(* any rules, ports, sizes and numbers of requests under way               *)
(* (cxgb4_filter_normal_rpl).                                              *)
THEOREM FilterTableAlwaysSound ==
  ASSUME UsersWait PROVE FltSpec => []FilterTableSound
<1>1. FltInit => FltInv
  BY FltInvInit
<1>2. FltInv /\ [FltNext]_fltVars => FltInv'
  BY FltInvStep
<1>3. FltInv => FilterTableSound
  BY FltInvSound
<1> QED
  BY <1>1, <1>2, <1>3, PTL DEF FltSpec


(* Only the handler of replies ends a wait.                                *)
LEMMA WaitEnds ==
  ASSUME FltInv, FltNext, NEW f \in Rules, waits[f] # "none", waits'[f] = "none"
  PROVE  FilterReply
<1>1. WaitsType /\ f \in Flts
  BY RulesNoListeners DEF FltInv
<1>2. ASSUME NEW g \in Rules, NEW ctx \in BOOLEAN, NEW o, waits[g] = "none", GiveId(g, ctx, o)
      PROVE  FALSE
  <2>1. waits' = [waits EXCEPT ![g] = IF ctx THEN "add" ELSE @] /\ g # f
    BY <1>2 DEF GiveId
  <2> QED
    BY <1>1, <2>1 DEF WaitsType
<1>3. ASSUME NEW g \in Rules, NEW ctx \in BOOLEAN, CreateAny(g, ctx) PROVE FALSE
  BY <1>2, <1>3 DEF CreateAny
<1>4. ASSUME NEW g \in Rules, NEW ctx \in BOOLEAN, NEW id, Create(g, ctx, id) PROVE FALSE
  BY <1>2, <1>4 DEF Create
<1>5. ASSUME NEW id, DeleteCtx(id) PROVE FALSE
  <2>1. waits' = [waits EXCEPT ![ftids.tab[id]] = "del"]
    BY <1>5 DEF DeleteCtx
  <2> QED
    BY <1>1, <2>1 DEF WaitsType
<1>6. ~(waits' = waits)
  OBVIOUS
<1> QED
  BY <1>3, <1>4, <1>5, <1>6 DEF FltNext, CreateFails, DeleteSilent, ListenStart,
     ListenInsert, ListenStop, FwStep

LEMMA AnswerStep ==
  ASSUME FltInv, FltNext, NEW f \in Rules, waits[f] # "none", waits'[f] = "none",
         Head(rpls).ret # "error"
  PROVE  waits[f] = "add" <=> \E id \in DOMAIN hwflt : hwflt[id] = f
<1>1. /\ FtidsInv /\ TablesInv /\ MsgsInv /\ MsgsType /\ StatesOK /\ HardwareOK
      /\ WaitsType /\ f \in Flts
  BY RulesNoListeners DEF FltInv, FtidsInv, MsgsInv
<1>2. FilterReply
  BY WaitEnds
<1>3. PICK r, t, g : r = Head(rpls) /\ t = r.tid /\ g = ftids.tab[t]
  OBVIOUS
<1>4. t \in DOMAIN ftids.tab /\ Complete(g) /\ rpls # <<>>
  <2>1. ~(waits' = waits)
    OBVIOUS
  <2> QED
    BY <1>2, <1>3, <2>1 DEF FilterReply
<1>5. g = f
  BY <1>1, <1>4 DEF Complete, WaitsType
<1>6. /\ flt[f].live /\ flt[f].tid = t
      /\ \/ r.ret = "added" /\ Creating(f) /\ t \in DOMAIN hwflt /\ hwflt[t] = f
         \/ r.ret = "deleted" /\ Deleting(f) /\ t \notin DOMAIN hwflt
  <2>1. ~Silent(f)
    BY <1>1 DEF StatesOK, Creating, Standing, Deleting, Silent
  <2> QED
    BY <1>3, <1>4, <1>5, <2>1, ReplyFinds
<1>7. CASE r.ret = "added"
  BY <1>1, <1>6, <1>7 DEF StatesOK, Creating, Standing, Deleting
<1>8. CASE r.ret = "deleted" /\ Deleting(f) /\ t \notin DOMAIN hwflt
  <2>1. waits[f] = "del"
    BY <1>1, <1>8 DEF StatesOK, Creating, Standing, Deleting
  <2>2. ASSUME NEW i \in DOMAIN hwflt, hwflt[i] = f PROVE FALSE
    <3>1. ~There(i)
      BY <1>1, <1>6, <1>8, <2>2, TableFacts DEF There
    <3>2. ~Leaving(i)
      <4> SUFFICES ASSUME NEW k \in 1 .. Len(reqs[0]), BeforeDel(k, f) PROVE FALSE
        BY <2>2 DEF Leaving
      <4>1. 1 \in 1 .. Len(rpls) /\ rpls[1] = r
        <5>1. rpls \in Seq(Replies)
          BY <1>1 DEF MsgsType
        <5> QED
          BY <1>3, <1>4, <5>1
      <4> QED
        BY <1>3, <1>6, <1>8, <4>1 DEF BeforeDel, Answers
    <3> QED
      BY <1>1, <2>2, <3>1, <3>2 DEF HardwareOK
  <2> QED
    BY <2>1, <2>2
<1> QED
  BY <1>6, <1>7, <1>8

(* Of such users, a caller that waits is told by the reply to its own      *)
(* request: the hardware has its filter after a creation and, whichever    *)
(* filters had the identifier before, nowhere has it after a deletion      *)
(* (cxgb4_filter_normal_rpl).                                              *)
THEOREM AnswersAlwaysTrue ==
  ASSUME UsersWait PROVE FltSpec => AnswerIsTrue
<1> DEFINE A == \A f \in Rules :
                  waits[f] # "none" /\ waits'[f] = "none" /\ Head(rpls).ret # "error" =>
                    (waits[f] = "add" <=> \E id \in DOMAIN hwflt : hwflt[id] = f)
<1>1. FltInit => FltInv
  BY FltInvInit
<1>2. FltInv /\ [FltNext]_fltVars => FltInv'
  BY FltInvStep
<1>3. FltInv /\ [FltNext]_fltVars => [A]_fltVars
  BY AnswerStep
<1>4. FltSpec => [][A]_fltVars
  <2> HIDE DEF A
  <2> QED
    BY <1>1, <1>2, <1>3, PTL DEF FltSpec
<1> QED
  BY <1>4 DEF AnswerIsTrue
==============================================================================
