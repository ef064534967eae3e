----------------------------- MODULE TidsProofs -----------------------------
(***************************************************************************)
(* Proofs about the identifiers of connections (Tids), for any tids,       *)
(* atids, connections and numbers of opens and failed allocations.         *)
(***************************************************************************)
EXTENDS Tids, FiniteSetTheorems, WellFoundedInduction, TLAPS

(* A word of the list holds every tid: what is put in comes out.  The code *)
(* has 16 bits for it (cxgb4_tid_release_list_add).                        *)
WordHolds == \A t \in HwTids, c \in Eps : Dec(Enc(t, Queue[c])) = t

(***************************************************************************)
(* The inductive invariant                                                 *)
(***************************************************************************)
Opened == {"opening", "connected"}
Named == {"connected", "open", "removed"}
Slots(c) == IF Wide(c) THEN TidRange ELSE 1
InHw(t) == \E h \in hwtid : h[1] = t
Ownerless(t) == InHw(t) /\ t \notin release /\ \A c \in Eps : tid[c] # t

TableType(t) ==
  t \in [start : Nat, size : Nat, max : Nat \ {0}, bits : SUBSET Int,
         tab : {t.tab}, in_use : Int, range_in_use : Int]

AtidsType ==
  /\ TableType(atids) /\ atids.start = 0 /\ atids.size = NAtids /\ atids.max = 1
  /\ atids.tab \in [DOMAIN atids.tab -> Eps] /\ DOMAIN atids.tab \subseteq 0 .. NAtids
TidsType ==
  /\ TableType(tids) /\ tids.start = Base /\ tids.size = Span /\ tids.max = TidRange
  /\ tids.tab \in [DOMAIN tids.tab -> Eps] /\ DOMAIN tids.tab \subseteq HwTids
EpsType ==
  /\ epc \in [Eps -> {"closed", "opening", "connected", "open", "removed"}]
  /\ atid \in [Eps -> 0 .. NAtids \cup {NoTid}] /\ tid \in [Eps -> HwTids \cup {NoTid}]
HwType ==
  /\ hwtid \subseteq HwTids \X (Nat \ {0}) /\ release \subseteq HwTids
  /\ worker \in {"idle", "look", "clear", "send"}
TypeInv == AtidsType /\ TidsType /\ EpsType /\ HwType

(* A table names the connections that have an identifier of it, each under *)
(* its identifier.                                                         *)
AtidsOK ==
  /\ \A i \in DOMAIN atids.tab :
       epc[atids.tab[i]] \in Opened /\ atid[atids.tab[i]] = i
  /\ \A c \in Eps : epc[c] \in Opened =>
       atid[c] \in DOMAIN atids.tab /\ atids.tab[atid[c]] = c
  /\ atids.bits = DOMAIN atids.tab
  /\ atids.in_use = Cardinality(DOMAIN atids.tab) /\ atids.range_in_use = 0
TabOK ==
  /\ \A i \in DOMAIN tids.tab : epc[tids.tab[i]] = "open" /\ tid[tids.tab[i]] = i
  /\ \A c \in Eps : epc[c] = "open" => tid[c] \in DOMAIN tids.tab /\ tids.tab[tid[c]] = c

(* The hardware has the tid of each connection, with its slots, and gives  *)
(* out no slot twice.                                                      *)
HwOK ==
  /\ \A c \in Eps : IF epc[c] \in Named THEN <<tid[c], Slots(c)>> \in hwtid
                                        ELSE tid[c] = NoTid
  /\ \A c \in Eps : epc[c] \in Named => tid[c] % Slots(c) = 0
  /\ \A c, d \in Eps : epc[c] \in Named /\ tid[c] = tid[d] => c = d
  /\ \A g, h \in hwtid : g # h => Region(g[1], g[2]) \cap Region(h[1], h[2]) = {}

(* A tid on its way back is nobody's, and on one way only.                 *)
ReleaseOK ==
  /\ \A t \in release : InHw(t) /\ \A c \in Eps : tid[c] # t
  /\ head # 0 => Ownerless(Dec(head))
  /\ worker \in {"clear", "send"} => Ownerless(Dec(taken))
  /\ worker = "send" /\ head # 0 => Dec(head) # Dec(taken)

(* The slots taken are those of the connections in the table.              *)
SlotsOf(i) == Region(i - Base, Slots(tids.tab[i]))
Ranges == {i \in DOMAIN tids.tab : Wide(tids.tab[i])}
SlotsOK ==
  /\ tids.bits = UNION {SlotsOf(i) : i \in DOMAIN tids.tab}
  /\ tids.in_use = Cardinality(DOMAIN tids.tab \ Ranges)
  /\ tids.range_in_use = TidRange * Cardinality(Ranges)

TidInv == TypeInv /\ AtidsOK /\ TabOK /\ SlotsOK /\ HwOK /\ ReleaseOK

(***************************************************************************)
(* The constants                                                           *)
(***************************************************************************)
LEMMA RangeFacts ==
  /\ Base \in HwTids /\ Base \in Nat /\ HwTids = Base .. Base + Span - 1
  /\ Span \in Nat /\ IsFiniteSet(HwTids)
<1>1. PICK a \in HwTids, b \in HwTids : HwTids = a .. b
  BY TidsAssumption DEF TidsAssumption
<1>2. a \in Nat /\ b \in Nat /\ a <= b
  BY <1>1, TidsAssumption DEF TidsAssumption
<1>3. IsFiniteSet(HwTids) /\ Span = b - a + 1
  BY <1>1, <1>2, FS_Interval DEF Span
<1>4. \A t \in HwTids : a <= t
  BY <1>1, <1>2
<1>5. Base \in HwTids /\ \A t \in HwTids : Base <= t
  BY <1>4, <1>1 DEF Base
<1>6. Base = a
  BY <1>1, <1>2, <1>4, <1>5, TidsAssumption DEF TidsAssumption
<1> QED
  BY <1>1, <1>2, <1>3, <1>5, <1>6

LEMMA SlotsFacts ==
  ASSUME NEW c
  PROVE  Slots(c) \in Nat \ {0}
BY TidsAssumption DEF TidsAssumption, Slots

LEMMA RegionHolds ==
  ASSUME NEW o \in Int, NEW n \in Nat \ {0}
  PROVE  o \in Region(o, n) /\ \A x \in Region(o, n) : x \in Int
BY DEF Region

LEMMA RegionsApart ==
  ASSUME NEW i \in Nat, NEW j \in Nat, NEW m \in Nat, NEW n \in Nat,
         NEW b \in Nat, Region(i, m) \cap Region(j, n) = {}
  PROVE  Region(i - b, m) \cap Region(j - b, n) = {}
<1> SUFFICES ASSUME NEW x, x \in Region(i - b, m), x \in Region(j - b, n)
             PROVE  FALSE
  OBVIOUS
<1>1. x \in Int /\ x + b \in Region(i, m) /\ x + b \in Region(j, n)
  BY DEF Region
<1> QED
  BY <1>1

LEMMA RegionOne ==
  ASSUME NEW o \in Int
  PROVE  Region(o, 1) = {o}
BY DEF Region

(***************************************************************************)
(* The two tables                                                          *)
(***************************************************************************)
WithSlots(t, o, c, n, k, l) ==
  [t EXCEPT !.bits = @ \cup Region(o, n),
            !.tab = [i \in DOMAIN @ \cup {t.start + o} |->
                       IF i = t.start + o THEN c ELSE @[i]],
            !.in_use = @ + k, !.range_in_use = @ + l]
WithoutSlots(t, i, n, k, l) ==
  [t EXCEPT !.bits = @ \ Region(i - t.start, n),
            !.tab = [j \in DOMAIN @ \ {i} |-> @[j]],
            !.in_use = @ - k, !.range_in_use = @ - l]

(* u is t with n slots from o given to c, k more of them single and l of   *)
(* ranges; and without those of i.                                         *)
Took(t, u, o, c, n, k, l) ==
  /\ TableType(u) /\ u.start = t.start /\ u.size = t.size /\ u.max = t.max
  /\ u.bits = t.bits \cup Region(o, n)
  /\ u.tab = [i \in DOMAIN t.tab \cup {t.start + o} |->
                IF i = t.start + o THEN c ELSE t.tab[i]]
  /\ u.in_use = t.in_use + k /\ u.range_in_use = t.range_in_use + l
Gave(t, u, i, n, k, l) ==
  /\ TableType(u) /\ u.start = t.start /\ u.size = t.size /\ u.max = t.max
  /\ u.bits = t.bits \ Region(i - t.start, n)
  /\ u.tab = [j \in DOMAIN t.tab \ {i} |-> t.tab[j]]
  /\ u.in_use = t.in_use - k /\ u.range_in_use = t.range_in_use - l

LEMMA Taken ==
  ASSUME NEW t, TableType(t), NEW o \in Int, NEW c, NEW n \in Nat, NEW k \in Int, NEW l \in Int,
         NEW u, u = WithSlots(t, o, c, n, k, l)
  PROVE  Took(t, u, o, c, n, k, l)
<1> DEFINE tb == [i \in DOMAIN t.tab \cup {t.start + o} |->
                    IF i = t.start + o THEN c ELSE t.tab[i]]
           bs == t.bits \cup Region(o, n)
           a == t.in_use + k
           b == t.range_in_use + l
<1>1. u = [t EXCEPT !.bits = bs, !.tab = tb, !.in_use = a, !.range_in_use = b]
  BY DEF WithSlots
<1>2. bs \in SUBSET Int /\ a \in Int /\ b \in Int
  BY DEF TableType, Region
<1> HIDE DEF tb, bs, a, b
<1>3. /\ TableType(u) /\ u.start = t.start /\ u.size = t.size /\ u.max = t.max
      /\ u.bits = bs /\ u.tab = tb /\ u.in_use = a /\ u.range_in_use = b
  BY <1>1, <1>2 DEF TableType
<1> QED
  BY <1>3 DEF tb, bs, a, b, Took

LEMMA Freed ==
  ASSUME NEW t, TableType(t), NEW i, NEW n \in Nat, NEW k \in Int, NEW l \in Int,
         NEW u, u = WithoutSlots(t, i, n, k, l)
  PROVE  Gave(t, u, i, n, k, l)
<1> DEFINE tb == [j \in DOMAIN t.tab \ {i} |-> t.tab[j]]
           bs == t.bits \ Region(i - t.start, n)
           a == t.in_use - k
           b == t.range_in_use - l
<1>1. u = [t EXCEPT !.bits = bs, !.tab = tb, !.in_use = a, !.range_in_use = b]
  BY DEF WithoutSlots
<1>2. bs \in SUBSET Int /\ a \in Int /\ b \in Int
  BY DEF TableType
<1> HIDE DEF tb, bs, a, b
<1>3. /\ TableType(u) /\ u.start = t.start /\ u.size = t.size /\ u.max = t.max
      /\ u.bits = bs /\ u.tab = tb /\ u.in_use = a /\ u.range_in_use = b
  BY <1>1, <1>2 DEF TableType
<1> QED
  BY <1>3 DEF tb, bs, a, b, Gave

(***************************************************************************)
(* The atids                                                               *)
(***************************************************************************)
LEMMA LeastExists ==
  ASSUME NEW S \in SUBSET Nat, S # {}
  PROVE  \E s \in S : \A t \in S : s <= t
  <1> DEFINE R == {ss \in Nat \X Nat : ss[1] < ss[2]}
  <1>1. IsWellFoundedOn(R, Nat)
    BY NatLessThanWellFounded, Zenon DEF OpToRel
  <1>2. \A y, s \in Nat : <<y, s>> \in R <=> y < s
    OBVIOUS
  <1> HIDE DEF R
  <1>3. PICK s \in S : \A y \in S : ~(<<y, s>> \in R)
    BY <1>1, WFMin, Zenon
  <1>4. ASSUME NEW y \in S PROVE s <= y
    <2>1. s \in Nat /\ y \in Nat
      OBVIOUS
    <2>2. ~(y < s)
      BY <1>2, <1>3, <2>1
    <2> QED BY <2>1, <2>2
  <1> QED BY <1>4

LEMMA LowestAtid ==
  ASSUME TypeInv, AtidsOK, FreeRegions(atids, 1) # {}, NEW o, o = LowestFree(atids, 1)
  PROVE  o \in 0 .. NAtids /\ o \notin DOMAIN atids.tab
<1> DEFINE F == FreeRegions(atids, 1)
<1>1. F \subseteq 0 .. NAtids /\ F \subseteq Nat
  BY TidsAssumption DEF TidsAssumption, FreeRegions, TypeInv, AtidsType
<1>2. \A x \in F : x \notin atids.bits
  BY <1>1, RegionOne DEF FreeRegions
<1>3. \E x \in F : \A p \in F : x <= p
  BY <1>1, LeastExists
<1>4. o \in F
  BY <1>3 DEF LowestFree
<1> QED
  BY <1>1, <1>2, <1>4 DEF AtidsOK

LEMMA AtidsFinite ==
  ASSUME AtidsType
  PROVE  IsFiniteSet(DOMAIN atids.tab)
<1>1. IsFiniteSet(0 .. NAtids)
  BY FS_Interval, TidsAssumption DEF TidsAssumption
<1>2. DOMAIN atids.tab \in SUBSET (0 .. NAtids)
  BY DEF AtidsType
<1> QED
  BY <1>1, <1>2, FS_Subset

LEMMA FreedOne ==
  ASSUME NEW t, NEW i \in DOMAIN t.tab, t.range_in_use \in Int
  PROVE  FreeId(t, i, FALSE) = WithoutSlots(t, i, 1, 1, 0)
<1>1. FreeId(t, i, FALSE)
        = [t EXCEPT !.bits = @ \ Region(i - t.start, 1),
                    !.tab = [j \in DOMAIN @ \ {i} |-> @[j]],
                    !.in_use = @ - 1, !.range_in_use = @]
  BY DEF FreeId, Width, Restrict
<1>2. t.range_in_use = t.range_in_use - 0
  OBVIOUS
<1> QED
  BY <1>1, <1>2 DEF WithoutSlots

LEMMA FreedRange ==
  ASSUME NEW t, NEW i \in DOMAIN t.tab, t.in_use \in Int
  PROVE  FreeId(t, i, TRUE) = WithoutSlots(t, i, t.max, 0, t.max)
<1>1. FreeId(t, i, TRUE)
        = [t EXCEPT !.bits = @ \ Region(i - t.start, t.max),
                    !.tab = [j \in DOMAIN @ \ {i} |-> @[j]],
                    !.in_use = @, !.range_in_use = @ - t.max]
  BY DEF FreeId, Width, Restrict
<1>2. t.in_use = t.in_use - 0
  OBVIOUS
<1> QED
  BY <1>1, <1>2 DEF WithoutSlots

LEMMA OpenAtidStep ==
  ASSUME TypeInv, AtidsOK, NEW c \in Eps, OpenAtid(c)
  PROVE  /\ AtidsOK' /\ AtidsType'
         /\ atid' \in [Eps -> 0 .. NAtids \cup {NoTid}]
         /\ epc' \in [Eps -> {"closed", "opening", "connected", "open", "removed"}]
         /\ \A d \in Eps : epc'[d] # epc[d] => epc[d] = "closed" /\ epc'[d] = "opening"
<1>1. CASE FreeRegions(atids, 1) = {}
  <2>1. atids' = atids /\ atid' = atid /\ epc' = epc
    BY <1>1 DEF OpenAtid
  <2>2. AtidsType'
    BY <2>1 DEF TypeInv, AtidsType
  <2>3. AtidsOK'
    BY <2>1 DEF AtidsOK
  <2> QED
    <3>1. epc \in [Eps -> {"closed", "opening", "connected", "open", "removed"}]
          /\ atid \in [Eps -> 0 .. NAtids \cup {NoTid}]
      BY DEF TypeInv, EpsType
    <3> QED
      BY <2>1, <2>2, <2>3, <3>1
<1>2. CASE FreeRegions(atids, 1) # {}
  <2> DEFINE o == LowestFree(atids, 1)
  <2>1. o \in 0 .. NAtids /\ o \notin DOMAIN atids.tab /\ o \in Int /\ NAtids \in Nat
    BY <1>2, LowestAtid, TidsAssumption DEF TidsAssumption
  <2>2. atid' = [atid EXCEPT ![c] = o] /\ epc' = [epc EXCEPT ![c] = "opening"] /\ epc[c] = "closed"
    BY <1>2 DEF OpenAtid
  <2>3. /\ TableType(atids) /\ atids.start = 0 /\ atids.size = NAtids /\ atids.max = 1
        /\ atids.in_use \in Int /\ atids.range_in_use \in Int
    BY DEF TypeInv, AtidsType, TableType
  <2>4. /\ TableType(atids') /\ atids'.start = 0 /\ atids'.size = NAtids /\ atids'.max = 1
        /\ atids'.bits = atids.bits \cup {o}
        /\ atids'.tab = [i \in DOMAIN atids.tab \cup {o} |->
                          IF i = o THEN c ELSE atids.tab[i]]
        /\ atids'.in_use = atids.in_use + 1
        /\ atids'.range_in_use = atids.range_in_use
    <3>1. atids' = [atids EXCEPT !.bits = @ \cup Region(o, 1),
                                 !.tab = [i \in DOMAIN @ \cup {atids.start + o} |->
                                           IF i = atids.start + o THEN c ELSE @[i]],
                                 !.in_use = @ + 1, !.range_in_use = @]
      BY <1>2 DEF OpenAtid, Take, Width
    <3> HIDE DEF o
    <3>2. atids.range_in_use = atids.range_in_use + 0
      BY <2>3
    <3>3. atids' = WithSlots(atids, o, c, 1, 1, 0)
      BY <3>1, <3>2 DEF WithSlots
    <3>4. Took(atids, atids', o, c, 1, 1, 0)
      BY <2>1, <2>3, <3>3, Taken
    <3> QED
      BY <2>1, <2>3, <3>4, RegionOne DEF Took
  <2> HIDE DEF o
  <2>5. /\ epc' \in [Eps -> {"closed", "opening", "connected", "open", "removed"}]
        /\ atid' \in [Eps -> 0 .. NAtids \cup {NoTid}]
        /\ \A d \in Eps : epc'[d] = IF d = c THEN "opening" ELSE epc[d]
        /\ \A d \in Eps : atid'[d] = IF d = c THEN o ELSE atid[d]
    BY <2>1, <2>2 DEF TypeInv, EpsType
  <2>6. DOMAIN atids'.tab = DOMAIN atids.tab \cup {o}
        /\ \A i \in DOMAIN atids'.tab : atids'.tab[i] = IF i = o THEN c ELSE atids.tab[i]
    BY <2>4
  <2>7. atids'.tab \in [DOMAIN atids'.tab -> Eps] /\ DOMAIN atids'.tab \subseteq 0 .. NAtids
    BY <2>1, <2>4, <2>6 DEF TypeInv, AtidsType
  <2>8. /\ \A i \in DOMAIN atids'.tab :
             epc'[atids'.tab[i]] \in Opened /\ atid'[atids'.tab[i]] = i
        /\ \A d \in Eps : epc'[d] \in Opened =>
             atid'[d] \in DOMAIN atids'.tab /\ atids'.tab[atid'[d]] = d
    <3>1. ASSUME NEW i \in DOMAIN atids'.tab
          PROVE  epc'[atids'.tab[i]] \in Opened /\ atid'[atids'.tab[i]] = i
      <4>1. CASE i = o
        BY <2>5, <2>6, <4>1 DEF Opened
      <4>2. CASE i # o
        <5>1. /\ i \in DOMAIN atids.tab /\ atids'.tab[i] = atids.tab[i] /\ atids.tab[i] \in Eps
          BY <2>6, <4>2 DEF TypeInv, AtidsType
        <5>2. epc[atids.tab[i]] \in Opened /\ atid[atids.tab[i]] = i
          BY <5>1 DEF AtidsOK
        <5>3. atids.tab[i] # c
          BY <2>2, <5>2 DEF Opened
        <5> QED
          BY <2>5, <5>1, <5>2, <5>3
      <4> QED
        BY <4>1, <4>2
    <3>2. ASSUME NEW d \in Eps, epc'[d] \in Opened
          PROVE  atid'[d] \in DOMAIN atids'.tab /\ atids'.tab[atid'[d]] = d
      <4>1. CASE d = c
        BY <2>5, <2>6, <4>1
      <4>2. CASE d # c
        BY <2>1, <2>5, <2>6, <3>2, <4>2 DEF AtidsOK
      <4> QED
        BY <4>1, <4>2
    <3> QED
      BY <3>1, <3>2
  <2>9. atids'.in_use = Cardinality(DOMAIN atids'.tab)
    <3>1. IsFiniteSet(DOMAIN atids.tab)
      BY AtidsFinite DEF TypeInv
    <3>2. Cardinality(DOMAIN atids.tab \cup {o}) = Cardinality(DOMAIN atids.tab) + 1
      BY <2>1, <3>1, FS_AddElement
    <3> QED
      BY <2>4, <2>6, <3>2 DEF AtidsOK
  <2> QED
    <3>1. AtidsType'
      BY <2>4, <2>7 DEF AtidsType
    <3>2. atids'.bits = DOMAIN atids'.tab /\ atids'.range_in_use = 0
      BY <2>4, <2>6 DEF AtidsOK
    <3>3. AtidsOK'
      BY <2>8, <2>9, <3>2 DEF AtidsOK
    <3> QED
      BY <2>2, <2>5, <3>1, <3>3
<1> QED
  BY <1>1, <1>2

(* The atid goes back when the connection has its tid or has failed.       *)
LEMMA AtidGoesBack ==
  ASSUME TypeInv, AtidsOK, NEW c \in Eps, epc[c] \in Opened, NEW s \in {"closed", "open"},
         Gave(atids, atids', atid[c], 1, 1, 0), epc' = [epc EXCEPT ![c] = s],
         atid' = [atid EXCEPT ![c] = NoTid]
  PROVE  /\ AtidsOK' /\ AtidsType'
         /\ atid' \in [Eps -> 0 .. NAtids \cup {NoTid}]
         /\ epc' \in [Eps -> {"closed", "opening", "connected", "open", "removed"}]
         /\ \A d \in Eps : epc'[d] = IF d = c THEN s ELSE epc[d]
<1> DEFINE o == atid[c]
<1>1. o \in DOMAIN atids.tab /\ atids.tab[o] = c /\ o \in 0 .. NAtids /\ NAtids \in Nat
  BY TidsAssumption DEF TidsAssumption, AtidsOK, TypeInv, AtidsType
<1>2. /\ TableType(atids') /\ atids'.start = 0 /\ atids'.size = NAtids /\ atids'.max = 1
      /\ atids'.bits = atids.bits \ {o}
      /\ atids'.tab = [i \in DOMAIN atids.tab \ {o} |-> atids.tab[i]]
      /\ atids'.in_use = atids.in_use - 1
      /\ atids'.range_in_use = atids.range_in_use
  <2> HIDE DEF o
  <2>1. /\ TableType(atids) /\ atids.start = 0 /\ atids.size = NAtids /\ atids.max = 1
        /\ Gave(atids, atids', o, 1, 1, 0)
        /\ atids.in_use \in Int /\ atids.range_in_use \in Int
    BY DEF TypeInv, AtidsType, TableType, o
  <2>2. o \in Int /\ o - atids.start = o
    BY <1>1, <2>1
  <2> QED
    BY <2>1, <2>2, RegionOne DEF Gave
<1> HIDE DEF o
<1>3. /\ epc' \in [Eps -> {"closed", "opening", "connected", "open", "removed"}]
      /\ atid' \in [Eps -> 0 .. NAtids \cup {NoTid}]
      /\ \A d \in Eps : epc'[d] = IF d = c THEN s ELSE epc[d]
      /\ \A d \in Eps : atid'[d] = IF d = c THEN NoTid ELSE atid[d]
  BY DEF TypeInv, EpsType
<1>4. DOMAIN atids'.tab = DOMAIN atids.tab \ {o}
      /\ \A i \in DOMAIN atids'.tab : atids'.tab[i] = atids.tab[i]
  BY <1>2
<1>5. atids'.tab \in [DOMAIN atids'.tab -> Eps] /\ DOMAIN atids'.tab \subseteq 0 .. NAtids
  <2>1. \A i \in DOMAIN atids.tab : atids.tab[i] \in Eps /\ i \in 0 .. NAtids
    BY DEF TypeInv, AtidsType
  <2>2. \A i \in DOMAIN atids'.tab : atids'.tab[i] \in Eps
    BY <1>4, <2>1
  <2> QED
    BY <1>2, <1>4, <2>1, <2>2
<1>6. /\ \A i \in DOMAIN atids'.tab :
           epc'[atids'.tab[i]] \in Opened /\ atid'[atids'.tab[i]] = i
      /\ \A d \in Eps : epc'[d] \in Opened =>
           atid'[d] \in DOMAIN atids'.tab /\ atids'.tab[atid'[d]] = d
  <2>1. ASSUME NEW i \in DOMAIN atids'.tab
        PROVE  epc'[atids'.tab[i]] \in Opened /\ atid'[atids'.tab[i]] = i
    <3>1. /\ i \in DOMAIN atids.tab /\ i # o /\ atids'.tab[i] = atids.tab[i]
          /\ atids.tab[i] \in Eps
      BY <1>4 DEF TypeInv, AtidsType
    <3>2. epc[atids.tab[i]] \in Opened /\ atid[atids.tab[i]] = i
      BY <3>1 DEF AtidsOK
    <3>3. atids.tab[i] # c
      BY <3>1, <3>2 DEF o
    <3> QED
      BY <1>3, <3>1, <3>2, <3>3
  <2>2. ASSUME NEW d \in Eps, epc'[d] \in Opened
        PROVE  atid'[d] \in DOMAIN atids'.tab /\ atids'.tab[atid'[d]] = d
    <3>1. d # c /\ epc[d] \in Opened /\ atid'[d] = atid[d]
      BY <1>3, <2>2 DEF Opened
    <3>2. atid[d] \in DOMAIN atids.tab /\ atids.tab[atid[d]] = d
      BY <3>1 DEF AtidsOK
    <3>3. atid[d] # o
      BY <1>1, <3>1, <3>2
    <3> QED
      BY <1>4, <3>1, <3>2, <3>3
  <2> QED
    BY <2>1, <2>2
<1>7. atids'.in_use = Cardinality(DOMAIN atids'.tab)
  <2>2. IsFiniteSet(DOMAIN atids.tab)
    BY AtidsFinite DEF TypeInv
  <2>3. Cardinality(DOMAIN atids.tab \ {o}) = Cardinality(DOMAIN atids.tab) - 1
    BY <1>1, <2>2, FS_RemoveElement
  <2> QED
    BY <1>2, <1>4, <2>3 DEF AtidsOK
<1> QED
  <2>1. AtidsType'
    BY <1>2, <1>5 DEF AtidsType
  <2>2. atids'.bits = DOMAIN atids'.tab /\ atids'.range_in_use = 0
    BY <1>2, <1>4 DEF AtidsOK
  <2>3. AtidsOK'
    BY <1>6, <1>7, <2>2 DEF AtidsOK
  <2> QED
    BY <1>3, <2>1, <2>3

(***************************************************************************)
(* The tids in the table                                                   *)
(***************************************************************************)
LEMMA InTable ==
  ASSUME TypeInv, TabOK, HwOK, NEW i \in DOMAIN tids.tab
  PROVE  /\ i \in HwTids /\ i \in Nat /\ tids.tab[i] \in Eps
         /\ <<i, Slots(tids.tab[i])>> \in hwtid
<1>1. i \in HwTids /\ i \in Nat /\ tids.tab[i] \in Eps
  BY TidsAssumption DEF TidsAssumption, TypeInv, TidsType
<1>2. epc[tids.tab[i]] \in Named /\ tid[tids.tab[i]] = i
  BY DEF TabOK, Named
<1> QED
  BY <1>1, <1>2 DEF HwOK

LEMMA ApartFrom ==
  ASSUME TypeInv, TabOK, HwOK, NEW i \in DOMAIN tids.tab,
         NEW j \in HwTids, NEW c, <<j, Slots(c)>> \in hwtid, i # j
  PROVE  SlotsOf(i) \cap Region(j - Base, Slots(c)) = {}
<1>1. i \in Nat /\ j \in Nat /\ Base \in Nat /\ <<i, Slots(tids.tab[i])>> \in hwtid
  BY InTable, RangeFacts, TidsAssumption DEF TidsAssumption
<1>2. Slots(c) \in Nat /\ Slots(tids.tab[i]) \in Nat
  BY SlotsFacts
<1>3. Region(i, Slots(tids.tab[i])) \cap Region(j, Slots(c)) = {}
  <2> DEFINE g == <<i, Slots(tids.tab[i])>>
             h == <<j, Slots(c)>>
  <2>1. g \in hwtid /\ h \in hwtid /\ g # h
    BY <1>1
  <2>2. g[1] = i /\ g[2] = Slots(tids.tab[i]) /\ h[1] = j /\ h[2] = Slots(c)
    OBVIOUS
  <2> HIDE DEF g, h
  <2> QED
    BY <2>1, <2>2 DEF HwOK
<1> QED
  BY <1>1, <1>2, <1>3, RegionsApart DEF SlotsOf

(* The slots of a connection that the hardware has made are free.          *)
LEMMA SlotsFree ==
  ASSUME TypeInv, TabOK, SlotsOK, HwOK, NEW c \in Eps, epc[c] = "connected"
  PROVE  /\ tid[c] \in HwTids /\ tid[c] \notin DOMAIN tids.tab
         /\ Width(tids, Wide(c)) = Slots(c) /\ Aligned(tids, tid[c], Wide(c)) = tid[c]
         /\ Region(tid[c] - Base, Slots(c)) \cap tids.bits = {}
<1>1. /\ <<tid[c], Slots(c)>> \in hwtid /\ tid[c] % Slots(c) = 0
      /\ \A d \in Eps : tid[c] = tid[d] => c = d
  BY DEF HwOK, Named
<1>2. tid[c] \in HwTids /\ tid[c] \in Nat
  BY <1>1, TidsAssumption DEF TidsAssumption, TypeInv, HwType
<1>3. tid[c] \notin DOMAIN tids.tab
  <2> SUFFICES ASSUME tid[c] \in DOMAIN tids.tab PROVE FALSE
    OBVIOUS
  <2>1. tids.tab[tid[c]] \in Eps /\ epc[tids.tab[tid[c]]] = "open" /\ tid[tids.tab[tid[c]]] = tid[c]
    BY DEF TypeInv, TidsType, TabOK
  <2> QED
    BY <1>1, <2>1
<1>4. Width(tids, Wide(c)) = Slots(c)
  BY DEF Width, Slots, TypeInv, TidsType
<1>5. Aligned(tids, tid[c], Wide(c)) = tid[c]
  BY <1>1, <1>2, <1>4 DEF Aligned
<1>6. \A i \in DOMAIN tids.tab : SlotsOf(i) \cap Region(tid[c] - Base, Slots(c)) = {}
  BY <1>1, <1>2, <1>3, ApartFrom
<1>7. Region(tid[c] - Base, Slots(c)) \cap tids.bits = {}
  BY <1>6 DEF SlotsOK
<1> QED
  BY <1>2, <1>3, <1>4, <1>5, <1>7

LEMMA TidsFinite ==
  ASSUME TidsType
  PROVE  /\ IsFiniteSet(DOMAIN tids.tab) /\ IsFiniteSet(Ranges)
         /\ IsFiniteSet(DOMAIN tids.tab \ Ranges)
<1>1. IsFiniteSet(HwTids)
  BY RangeFacts
<1>2. DOMAIN tids.tab \in SUBSET HwTids
  BY DEF TidsType
<1>3. IsFiniteSet(DOMAIN tids.tab)
  BY <1>1, <1>2, FS_Subset
<1>4. Ranges \in SUBSET DOMAIN tids.tab /\ DOMAIN tids.tab \ Ranges \in SUBSET DOMAIN tids.tab
  BY DEF Ranges
<1> QED
  BY <1>3, <1>4, FS_Subset

(* A tid enters the table, with its slots;                                 *)
LEMMA TidEnters ==
  ASSUME TypeInv, TabOK, SlotsOK, HwOK, NEW c \in Eps, epc[c] = "connected", tid' = tid,
         tids' = IF CanInsert(tids, tid[c], Wide(c))
                 THEN InsertId(tids, tid[c], c, Wide(c)) ELSE tids
  PROVE  /\ CanInsert(tids, tid[c], Wide(c)) /\ TidsType'
         /\ DOMAIN tids'.tab = DOMAIN tids.tab \cup {tid[c]}
         /\ \A i \in DOMAIN tids'.tab :
              tids'.tab[i] = IF i = tid[c] THEN c ELSE tids.tab[i]
         /\ SlotsOK'
<1> DEFINE o == tid[c] - Base
<1>1. /\ tid[c] \in HwTids /\ tid[c] \notin DOMAIN tids.tab
      /\ Width(tids, Wide(c)) = Slots(c) /\ Aligned(tids, tid[c], Wide(c)) = tid[c]
      /\ Region(o, Slots(c)) \cap tids.bits = {}
  BY SlotsFree
<1>2. /\ tids.start = Base /\ tids.size = Span /\ tids.max = TidRange /\ TableType(tids)
      /\ tids.in_use \in Int /\ tids.range_in_use \in Int
  BY DEF TypeInv, TidsType, TableType
<1>3. /\ tid[c] \in Nat /\ Base \in Nat /\ Span \in Nat /\ o \in Int /\ Base + o = tid[c]
      /\ tid[c] >= Base /\ tid[c] < Base + Span /\ TidRange \in Nat \ {0}
  BY <1>1, RangeFacts, TidsAssumption DEF TidsAssumption
<1>4. CanInsert(tids, tid[c], Wide(c))
  BY <1>1, <1>2, <1>3 DEF CanInsert, InRange
<1> HIDE DEF o
<1>5. tids' = Take(tids, o, c, Wide(c))
  BY <1>1, <1>2, <1>4 DEF InsertId, o
<1> DEFINE k == IF Wide(c) THEN 0 ELSE 1
           l == IF Wide(c) THEN TidRange ELSE 0
<1>6. tids' = WithSlots(tids, o, c, Slots(c), k, l)
  <2>1. CASE Wide(c)
    <3>1. tids' = [tids EXCEPT !.bits = @ \cup Region(o, Slots(c)),
                               !.tab = [i \in DOMAIN @ \cup {tids.start + o} |->
                                          IF i = tids.start + o THEN c ELSE @[i]],
                               !.in_use = @, !.range_in_use = @ + Slots(c)]
      BY <1>1, <1>5, <2>1 DEF Take
    <3>2. tids.in_use = tids.in_use + 0 /\ Slots(c) = TidRange /\ k = 0 /\ l = TidRange
      BY <1>2, <2>1 DEF Slots
    <3> QED
      BY <3>1, <3>2 DEF WithSlots
  <2>2. CASE ~Wide(c)
    <3>1. tids' = [tids EXCEPT !.bits = @ \cup Region(o, Slots(c)),
                               !.tab = [i \in DOMAIN @ \cup {tids.start + o} |->
                                          IF i = tids.start + o THEN c ELSE @[i]],
                               !.in_use = @ + 1, !.range_in_use = @]
      BY <1>1, <1>5, <2>2 DEF Take
    <3>2. tids.range_in_use = tids.range_in_use + 0 /\ k = 1 /\ l = 0
      BY <1>2, <2>2
    <3> QED
      BY <3>1, <3>2 DEF WithSlots
  <2> QED
    BY <2>1, <2>2
<1>7. k \in Int /\ l \in Int /\ Slots(c) \in Nat
  BY <1>3, SlotsFacts
<1> HIDE DEF k, l
<1>8. Took(tids, tids', o, c, Slots(c), k, l)
  BY <1>2, <1>3, <1>6, <1>7, Taken
<1>9. /\ DOMAIN tids'.tab = DOMAIN tids.tab \cup {tid[c]}
      /\ \A i \in DOMAIN tids'.tab : tids'.tab[i] = IF i = tid[c] THEN c ELSE tids.tab[i]
      /\ tids'.tab = [i \in DOMAIN tids.tab \cup {tid[c]} |->
                       IF i = tid[c] THEN c ELSE tids.tab[i]]
  BY <1>2, <1>3, <1>8 DEF Took
<1>10. TidsType'
  <2>1. \A i \in DOMAIN tids.tab : i \in HwTids /\ tids.tab[i] \in Eps
    BY DEF TypeInv, TidsType
  <2>2. /\ TableType(tids') /\ tids'.start = Base /\ tids'.size = Span /\ tids'.max = TidRange
    BY <1>2, <1>8 DEF Took
  <2>3. tids'.tab \in [DOMAIN tids'.tab -> Eps] /\ DOMAIN tids'.tab \subseteq HwTids
    BY <1>1, <1>9, <2>1
  <2> QED
    BY <2>2, <2>3 DEF TidsType
<1>11. tids'.bits = UNION {SlotsOf(i)' : i \in DOMAIN tids'.tab}
  <2>1. tids'.bits = tids.bits \cup Region(o, Slots(c))
    BY <1>8 DEF Took
  <2>2. \A i \in DOMAIN tids.tab : SlotsOf(i)' = SlotsOf(i)
    BY <1>1, <1>9 DEF SlotsOf
  <2>3. SlotsOf(tid[c])' = Region(o, Slots(c))
    BY <1>9 DEF SlotsOf, o
  <2> QED
    BY <1>9, <2>1, <2>2, <2>3 DEF SlotsOK
<1>12. /\ tids'.in_use = Cardinality(DOMAIN tids'.tab \ Ranges')
       /\ tids'.range_in_use = TidRange * Cardinality(Ranges')
  <2> DEFINE S == DOMAIN tids.tab \ Ranges
  <2>1. /\ tids'.in_use = Cardinality(S) + k
        /\ tids'.range_in_use = TidRange * Cardinality(Ranges) + l
    BY <1>8 DEF Took, SlotsOK
  <2>2. /\ IsFiniteSet(Ranges) /\ IsFiniteSet(S) /\ tid[c] \notin Ranges /\ tid[c] \notin S
    BY <1>1, TidsFinite DEF Ranges, TypeInv
  <2>3. Cardinality(S) \in Nat /\ Cardinality(Ranges) \in Nat
    BY <2>2, FS_CardinalityType
  <2>4. CASE Wide(c)
    <3>1. Ranges' = Ranges \cup {tid[c]} /\ DOMAIN tids'.tab \ Ranges' = S
      BY <1>1, <1>9, <2>4 DEF Ranges, Wide
    <3>2. Cardinality(Ranges') = Cardinality(Ranges) + 1
      BY <2>2, <3>1, FS_AddElement
    <3>3. k = 0 /\ l = TidRange
      BY <2>4 DEF k, l
    <3>4. TidRange * (Cardinality(Ranges) + 1) = TidRange * Cardinality(Ranges) + TidRange
      BY <1>3, <2>3
    <3>5. tids'.in_use = Cardinality(S)
      BY <2>1, <2>3, <3>3
    <3>6. tids'.range_in_use = TidRange * (Cardinality(Ranges) + 1)
      BY <2>1, <3>3, <3>4
    <3> QED
      BY <3>1, <3>2, <3>5, <3>6
  <2>5. CASE ~Wide(c)
    <3>1. Ranges' = Ranges /\ DOMAIN tids'.tab \ Ranges' = S \cup {tid[c]}
      BY <1>1, <1>9, <2>5 DEF Ranges, Wide
    <3>2. Cardinality(DOMAIN tids'.tab \ Ranges') = Cardinality(S) + 1
      BY <2>2, <3>1, FS_AddElement
    <3>3. k = 1 /\ l = 0
      BY <2>5 DEF k, l
    <3>4. TidRange * Cardinality(Ranges) \in Int
      BY <1>3, <2>3
    <3>5. tids'.in_use = Cardinality(S) + 1
      BY <2>1, <3>3
    <3>6. tids'.range_in_use = TidRange * Cardinality(Ranges)
      BY <2>1, <3>3, <3>4
    <3> QED
      BY <3>1, <3>2, <3>5, <3>6
  <2> QED
    BY <2>4, <2>5
<1> QED
  BY <1>4, <1>9, <1>10, <1>11, <1>12 DEF SlotsOK

(* and leaves it, with all of them.                                        *)
LEMMA TidLeaves ==
  ASSUME TypeInv, TabOK, SlotsOK, HwOK, NEW c \in Eps, epc[c] = "open",
         tids' = FreeId(tids, tid[c], Wide(c))
  PROVE  /\ TidsType' /\ SlotsOK'
         /\ DOMAIN tids'.tab = DOMAIN tids.tab \ {tid[c]}
         /\ \A i \in DOMAIN tids'.tab : tids'.tab[i] = tids.tab[i]
<1> DEFINE j == tid[c]
<1>1. j \in DOMAIN tids.tab /\ tids.tab[j] = c /\ j \in HwTids
  BY DEF TabOK, TypeInv, TidsType
<1>2. /\ tids.start = Base /\ tids.size = Span /\ tids.max = TidRange /\ TableType(tids)
      /\ tids.in_use \in Int /\ tids.range_in_use \in Int
  BY DEF TypeInv, TidsType, TableType
<1>3. TidRange \in Nat \ {0}
  BY TidsAssumption DEF TidsAssumption
<1> DEFINE k == IF Wide(c) THEN 0 ELSE 1
           l == IF Wide(c) THEN TidRange ELSE 0
<1>4. tids' = WithoutSlots(tids, j, Slots(c), k, l)
  <2>1. CASE Wide(c)
    <3>1. FreeId(tids, j, TRUE) = WithoutSlots(tids, j, TidRange, 0, TidRange)
      BY <1>1, <1>2, FreedRange
    <3>2. FreeId(tids, j, Wide(c)) = FreeId(tids, j, TRUE)
      BY <2>1 DEF FreeId, Width
    <3> QED
      BY <2>1, <3>1, <3>2 DEF Slots
  <2>2. CASE ~Wide(c)
    <3>1. FreeId(tids, j, FALSE) = WithoutSlots(tids, j, 1, 1, 0)
      BY <1>1, <1>2, FreedOne
    <3>2. FreeId(tids, j, Wide(c)) = FreeId(tids, j, FALSE)
      BY <2>2 DEF FreeId, Width
    <3> QED
      BY <2>2, <3>1, <3>2 DEF Slots
  <2> QED
    BY <2>1, <2>2
<1>5. k \in Int /\ l \in Int /\ Slots(c) \in Nat
  BY <1>3, SlotsFacts
<1> HIDE DEF j, k, l
<1>6. Gave(tids, tids', j, Slots(c), k, l)
  BY <1>2, <1>4, <1>5, Freed
<1>7. /\ DOMAIN tids'.tab = DOMAIN tids.tab \ {j}
      /\ \A i \in DOMAIN tids'.tab : tids'.tab[i] = tids.tab[i]
      /\ tids'.tab = [i \in DOMAIN tids.tab \ {j} |-> tids.tab[i]]
  BY <1>6 DEF Gave
<1>8. TidsType'
  <2>1. \A i \in DOMAIN tids.tab : i \in HwTids /\ tids.tab[i] \in Eps
    BY DEF TypeInv, TidsType
  <2>2. /\ TableType(tids') /\ tids'.start = Base /\ tids'.size = Span /\ tids'.max = TidRange
    BY <1>2, <1>6 DEF Gave
  <2>3. tids'.tab \in [DOMAIN tids'.tab -> Eps] /\ DOMAIN tids'.tab \subseteq HwTids
    BY <1>7, <2>1
  <2> QED
    BY <2>2, <2>3 DEF TidsType
<1>9. tids'.bits = UNION {SlotsOf(i)' : i \in DOMAIN tids'.tab}
  <2>1. tids'.bits = tids.bits \ SlotsOf(j)
    BY <1>1, <1>2, <1>6 DEF Gave, SlotsOf
  <2>2. \A i \in DOMAIN tids'.tab : SlotsOf(i)' = SlotsOf(i)
    BY <1>7 DEF SlotsOf
  <2>3. <<j, Slots(c)>> \in hwtid /\ SlotsOf(j) = Region(j - Base, Slots(c))
    BY <1>1, InTable DEF SlotsOf
  <2>4. \A i \in DOMAIN tids'.tab : SlotsOf(i) \cap SlotsOf(j) = {}
    BY <1>1, <1>7, <2>3, ApartFrom
  <2> QED
    BY <1>1, <1>7, <2>1, <2>2, <2>4 DEF SlotsOK
<1>10. /\ tids'.in_use = Cardinality(DOMAIN tids'.tab \ Ranges')
       /\ tids'.range_in_use = TidRange * Cardinality(Ranges')
  <2> DEFINE S == DOMAIN tids.tab \ Ranges
  <2>1. /\ tids'.in_use = Cardinality(S) - k
        /\ tids'.range_in_use = TidRange * Cardinality(Ranges) - l
    BY <1>6 DEF Gave, SlotsOK
  <2>2. IsFiniteSet(Ranges) /\ IsFiniteSet(S)
    BY TidsFinite DEF TypeInv
  <2>3. Cardinality(S) \in Nat /\ Cardinality(Ranges) \in Nat
    BY <2>2, FS_CardinalityType
  <2>4. CASE Wide(c)
    <3>1. j \in Ranges /\ Ranges' = Ranges \ {j} /\ DOMAIN tids'.tab \ Ranges' = S
      BY <1>1, <1>7, <2>4 DEF Ranges, Wide
    <3>2. Cardinality(Ranges') = Cardinality(Ranges) - 1
      BY <2>2, <3>1, FS_RemoveElement
    <3>3. k = 0 /\ l = TidRange
      BY <2>4 DEF k, l
    <3>4. TidRange * (Cardinality(Ranges) - 1) = TidRange * Cardinality(Ranges) - TidRange
      BY <1>3, <2>3
    <3>5. tids'.in_use = Cardinality(S)
      BY <2>1, <2>3, <3>3
    <3>6. tids'.range_in_use = TidRange * (Cardinality(Ranges) - 1)
      BY <2>1, <3>3, <3>4
    <3> QED
      BY <3>1, <3>2, <3>5, <3>6
  <2>5. CASE ~Wide(c)
    <3>1. j \in S /\ Ranges' = Ranges /\ DOMAIN tids'.tab \ Ranges' = S \ {j}
      BY <1>1, <1>7, <2>5 DEF Ranges, Wide
    <3>2. Cardinality(DOMAIN tids'.tab \ Ranges') = Cardinality(S) - 1
      BY <2>2, <3>1, FS_RemoveElement
    <3>3. k = 1 /\ l = 0
      BY <2>5 DEF k, l
    <3>4. TidRange * Cardinality(Ranges) \in Int
      BY <1>3, <2>3
    <3>5. tids'.in_use = Cardinality(S) - 1
      BY <2>1, <3>3
    <3>6. tids'.range_in_use = TidRange * Cardinality(Ranges)
      BY <2>1, <3>3, <3>4
    <3> QED
      BY <3>1, <3>2, <3>5, <3>6
  <2> QED
    BY <2>4, <2>5
<1> QED
  BY <1>7, <1>8, <1>9, <1>10 DEF SlotsOK, j

(***************************************************************************)
(* What leaves a part of the invariant alone                               *)
(***************************************************************************)
LEMMA AtidsKept ==
  ASSUME TypeInv, AtidsOK, atids' = atids, atid' = atid,
         \A d \in Eps : epc'[d] \in Opened <=> epc[d] \in Opened
  PROVE  AtidsOK' /\ AtidsType'
<1>1. AtidsType'
  BY DEF TypeInv, AtidsType
<1>2. \A i \in DOMAIN atids.tab : atids.tab[i] \in Eps
  BY DEF TypeInv, AtidsType
<1> QED
  BY <1>1, <1>2 DEF AtidsOK

LEMMA TabKept ==
  ASSUME TypeInv, TabOK, SlotsOK, tids' = tids,
         \A d \in Eps : /\ epc'[d] = "open" <=> epc[d] = "open"
                        /\ epc[d] = "open" => tid'[d] = tid[d]
  PROVE  TabOK' /\ SlotsOK' /\ TidsType'
<1>1. TidsType'
  BY DEF TypeInv, TidsType
<1>2. SlotsOK'
  BY DEF SlotsOK, SlotsOf, Ranges
<1>3. \A i \in DOMAIN tids.tab : tids.tab[i] \in Eps
  BY DEF TypeInv, TidsType
<1>4. TabOK'
  BY <1>3 DEF TabOK
<1> QED
  BY <1>1, <1>2, <1>4

LEMMA HwKept ==
  ASSUME HwOK, tid' = tid, hwtid' = hwtid,
         \A d \in Eps : epc'[d] \in Named <=> epc[d] \in Named
  PROVE  HwOK'
BY DEF HwOK

(* A connection that lets its tid go leaves it nobody's.                   *)
LEMMA LetsGo ==
  ASSUME TypeInv, HwOK, ReleaseOK, NEW c \in Eps, epc[c] = "removed", Forget(c),
         hwtid' = hwtid, atid' = atid
  PROVE  /\ HwOK' /\ EpsType' /\ tid[c] \in HwTids
         /\ InHw(tid[c]) /\ tid[c] \notin release
         /\ \A d \in Eps : /\ tid'[d] # tid[c]
                           /\ \A t \in HwTids : tid[d] # t => tid'[d] # t
<1>1. /\ \A d \in Eps : tid'[d] = IF d = c THEN NoTid ELSE tid[d]
      /\ \A d \in Eps : epc'[d] = IF d = c THEN "closed" ELSE epc[d]
      /\ tid' \in [Eps -> HwTids \cup {NoTid}]
      /\ epc' \in [Eps -> {"closed", "opening", "connected", "open", "removed"}]
  BY DEF Forget, TypeInv, EpsType
<1>2. /\ <<tid[c], Slots(c)>> \in hwtid /\ \A d \in Eps : tid[c] = tid[d] => c = d
  BY DEF HwOK, Named
<1>3. tid[c] \in HwTids /\ InHw(tid[c]) /\ NoTid \notin HwTids
  BY <1>2, TidsAssumption DEF TidsAssumption, TypeInv, HwType, InHw
<1>4. tid[c] \notin release
  BY DEF ReleaseOK
<1>5. EpsType'
  BY <1>1 DEF TypeInv, EpsType
<1>6. HwOK'
  <2>1. \A d \in Eps : epc'[d] \in Named <=> epc[d] \in Named /\ d # c
    BY <1>1 DEF Named
  <2>2. \A x \in Eps : epc[x] \in Named => tid[x] \in HwTids
    BY DEF HwOK, TypeInv, HwType
  <2>3. ASSUME NEW x \in Eps
        PROVE  /\ IF epc'[x] \in Named THEN <<tid'[x], Slots(x)>> \in hwtid' ELSE tid'[x] = NoTid
               /\ epc'[x] \in Named => tid'[x] % Slots(x) = 0
    BY <1>1, <2>1 DEF HwOK
  <2>4. ASSUME NEW x \in Eps, NEW y \in Eps, epc'[x] \in Named, tid'[x] = tid'[y]
        PROVE  x = y
    BY <1>1, <1>3, <2>1, <2>2, <2>4 DEF HwOK
  <2> QED
    BY <2>3, <2>4 DEF HwOK
<1> QED
  BY <1>1, <1>2, <1>3, <1>4, <1>5, <1>6

(***************************************************************************)
(* The steps                                                               *)
(***************************************************************************)
LEMMA InitInv == TidInit => TidInv
<1> SUFFICES ASSUME TidInit PROVE TidInv
  OBVIOUS
<1>1. Base \in Nat /\ Span \in Nat /\ TidRange \in Nat \ {0} /\ NAtids \in Nat
  BY RangeFacts, TidsAssumption DEF TidsAssumption
<1>2. /\ tids = [start |-> Base, size |-> Span, max |-> TidRange, bits |-> {}, tab |-> <<>>,
                 in_use |-> 0, range_in_use |-> 0]
      /\ atids = [start |-> 0, size |-> NAtids, max |-> 1, bits |-> {}, tab |-> <<>>,
                  in_use |-> 0, range_in_use |-> 0]
  BY DEF TidInit, NewTable
<1>3. DOMAIN tids.tab = {} /\ DOMAIN atids.tab = {} /\ tids.tab = <<>> /\ atids.tab = <<>>
  BY <1>2
<1>4. tids.tab \in [{} -> Eps] /\ atids.tab \in [{} -> Eps]
  BY <1>3
<1>5. TableType(tids) /\ TableType(atids)
  BY <1>1, <1>2 DEF TableType
<1>6. AtidsType /\ TidsType
  BY <1>2, <1>3, <1>4, <1>5 DEF AtidsType, TidsType
<1>7. EpsType /\ HwType
  BY DEF TidInit, EpsType, HwType
<1>8. Ranges = {} /\ Cardinality({}) = 0 /\ TidRange * 0 = 0
  BY <1>1, <1>3, FS_EmptySet DEF Ranges
<1>9. AtidsOK
  <2>1. epc = [c \in Eps |-> "closed"]
    BY DEF TidInit
  <2>2. \A c \in Eps : epc[c] \notin Opened
    BY <2>1 DEF Opened
  <2>3. atids.bits = {} /\ atids.in_use = 0 /\ atids.range_in_use = 0
    BY <1>2
  <2> QED
    BY <1>3, <1>8, <2>2, <2>3 DEF AtidsOK
<1>10. SlotsOK
  <2>1. {} = UNION {SlotsOf(i) : i \in {}} /\ {} \ {} = {}
    OBVIOUS
  <2> QED
    BY <1>2, <1>3, <1>8, <2>1 DEF SlotsOK
<1>11. TabOK /\ HwOK /\ ReleaseOK
  BY <1>3 DEF TidInit, TabOK, HwOK, ReleaseOK, Named
<1> QED
  BY <1>6, <1>7, <1>9, <1>10, <1>11 DEF TidInv, TypeInv

LEMMA StutterInv ==
  ASSUME TidInv, UNCHANGED tidVars
  PROVE  TidInv'
<1>1. /\ UNCHANGED <<tids, atids, hwtid, release, epc, atid, tid>> /\ UNCHANGED headVars
  BY DEF tidVars, headVars
<1>2. AtidsOK' /\ AtidsType' /\ TabOK' /\ SlotsOK' /\ TidsType' /\ HwOK'
  BY <1>1, AtidsKept, TabKept, HwKept DEF TidInv
<1>3. EpsType' /\ HwType'
  BY <1>1 DEF TidInv, TypeInv, EpsType, HwType, headVars
<1>4. ReleaseOK'
  BY <1>1 DEF TidInv, ReleaseOK, Ownerless, InHw, headVars
<1> QED
  BY <1>2, <1>3, <1>4 DEF TidInv, TypeInv

LEMMA OpenAtidInv ==
  ASSUME TidInv, NEW c \in Eps, OpenAtid(c)
  PROVE  TidInv'
<1>1. /\ AtidsOK' /\ AtidsType' /\ atid' \in [Eps -> 0 .. NAtids \cup {NoTid}]
      /\ epc' \in [Eps -> {"closed", "opening", "connected", "open", "removed"}]
      /\ \A d \in Eps : epc'[d] # epc[d] => epc[d] = "closed" /\ epc'[d] = "opening"
  BY OpenAtidStep DEF TidInv
<1>2. UNCHANGED <<tids, hwtid, release, tid>> /\ UNCHANGED headVars
  BY DEF OpenAtid
<1>3. TabOK' /\ SlotsOK' /\ TidsType'
  BY <1>1, <1>2, TabKept DEF TidInv
<1>4. HwOK'
  BY <1>1, <1>2, HwKept DEF TidInv, Named
<1>5. EpsType' /\ HwType'
  BY <1>1, <1>2 DEF TidInv, TypeInv, EpsType, HwType, headVars
<1>6. ReleaseOK'
  BY <1>2 DEF TidInv, ReleaseOK, Ownerless, InHw, headVars
<1> QED
  BY <1>1, <1>3, <1>4, <1>5, <1>6 DEF TidInv, TypeInv

LEMMA OpenFailsInv ==
  ASSUME TidInv, NEW c \in Eps, OpenFails(c)
  PROVE  TidInv'
<1>1. /\ UNCHANGED <<tids, hwtid, release, tid>> /\ UNCHANGED headVars
      /\ epc[c] = "opening" /\ epc' = [epc EXCEPT ![c] = "closed"]
      /\ atid' = [atid EXCEPT ![c] = NoTid]
  BY DEF OpenFails
<1>2. Gave(atids, atids', atid[c], 1, 1, 0)
  <2>1. TableType(atids) /\ atid[c] \in DOMAIN atids.tab /\ atids.range_in_use \in Int
    BY <1>1 DEF TidInv, TypeInv, AtidsType, TableType, AtidsOK, Opened
  <2>2. atids' = WithoutSlots(atids, atid[c], 1, 1, 0)
    BY <2>1, FreedOne DEF OpenFails
  <2> QED
    BY <2>1, <2>2, Freed
<1>3. /\ AtidsOK' /\ AtidsType' /\ atid' \in [Eps -> 0 .. NAtids \cup {NoTid}]
      /\ epc' \in [Eps -> {"closed", "opening", "connected", "open", "removed"}]
      /\ \A d \in Eps : epc'[d] = IF d = c THEN "closed" ELSE epc[d]
  BY <1>1, <1>2, AtidGoesBack DEF TidInv, Opened
<1>4. TabOK' /\ SlotsOK' /\ TidsType'
  BY <1>1, <1>3, TabKept DEF TidInv
<1>5. HwOK'
  BY <1>1, <1>3, HwKept DEF TidInv, Named
<1>6. EpsType' /\ HwType'
  BY <1>1, <1>3 DEF TidInv, TypeInv, EpsType, HwType, headVars
<1>7. ReleaseOK'
  BY <1>1 DEF TidInv, ReleaseOK, Ownerless, InHw, headVars
<1> QED
  BY <1>3, <1>4, <1>5, <1>6, <1>7 DEF TidInv, TypeInv

LEMMA EstablishInv ==
  ASSUME TidInv, NEW c \in Eps, Establish(c)
  PROVE  TidInv'
<1>1. /\ UNCHANGED <<hwtid, release, tid>> /\ UNCHANGED headVars
      /\ epc[c] = "connected" /\ epc' = [epc EXCEPT ![c] = "open"]
      /\ atid' = [atid EXCEPT ![c] = NoTid]
  BY DEF Establish
<1>2. Gave(atids, atids', atid[c], 1, 1, 0)
  <2>1. TableType(atids) /\ atid[c] \in DOMAIN atids.tab /\ atids.range_in_use \in Int
    BY <1>1 DEF TidInv, TypeInv, AtidsType, TableType, AtidsOK, Opened
  <2>2. atids' = WithoutSlots(atids, atid[c], 1, 1, 0)
    BY <2>1, FreedOne DEF Establish
  <2> QED
    BY <2>1, <2>2, Freed
<1>3. /\ AtidsOK' /\ AtidsType' /\ atid' \in [Eps -> 0 .. NAtids \cup {NoTid}]
      /\ epc' \in [Eps -> {"closed", "opening", "connected", "open", "removed"}]
      /\ \A d \in Eps : epc'[d] = IF d = c THEN "open" ELSE epc[d]
  BY <1>1, <1>2, AtidGoesBack DEF TidInv, Opened
<1>4. /\ TidsType' /\ SlotsOK' /\ DOMAIN tids'.tab = DOMAIN tids.tab \cup {tid[c]}
      /\ \A i \in DOMAIN tids'.tab : tids'.tab[i] = IF i = tid[c] THEN c ELSE tids.tab[i]
  BY <1>1, TidEnters DEF TidInv, Establish
<1>5. TabOK'
  <2>1. \A i \in DOMAIN tids.tab :
          tids.tab[i] \in Eps /\ epc[tids.tab[i]] = "open" /\ tid[tids.tab[i]] = i
    BY DEF TidInv, TypeInv, TidsType, TabOK
  <2>2. \A d \in Eps : tid[c] = tid[d] => c = d
    BY <1>1 DEF TidInv, HwOK, Named
  <2>3. \A i \in DOMAIN tids'.tab : epc'[tids'.tab[i]] = "open" /\ tid[tids'.tab[i]] = i
    BY <1>3, <1>4, <2>1
  <2>4. ASSUME NEW d \in Eps, epc'[d] = "open"
        PROVE  tid[d] \in DOMAIN tids'.tab /\ tids'.tab[tid[d]] = d
    BY <1>3, <1>4, <2>2, <2>4 DEF TidInv, TabOK
  <2> QED
    BY <1>1, <2>3, <2>4 DEF TabOK
<1>6. HwOK'
  BY <1>1, <1>3, HwKept DEF TidInv, Named
<1>7. EpsType' /\ HwType'
  BY <1>1, <1>3 DEF TidInv, TypeInv, EpsType, HwType, headVars
<1>8. ReleaseOK'
  BY <1>1 DEF TidInv, ReleaseOK, Ownerless, InHw, headVars
<1> QED
  BY <1>3, <1>4, <1>5, <1>6, <1>7, <1>8 DEF TidInv, TypeInv

LEMMA RemoveTidInv ==
  ASSUME TidInv, NEW c \in Eps, RemoveTid(c)
  PROVE  TidInv'
<1>1. /\ UNCHANGED <<atids, atid, hwtid, release, tid>> /\ UNCHANGED headVars
      /\ epc[c] = "open" /\ epc' = [epc EXCEPT ![c] = "removed"]
  BY DEF RemoveTid
<1>2. /\ \A d \in Eps : epc'[d] = IF d = c THEN "removed" ELSE epc[d]
      /\ epc' \in [Eps -> {"closed", "opening", "connected", "open", "removed"}]
  BY <1>1 DEF TidInv, TypeInv, EpsType
<1>3. AtidsOK' /\ AtidsType'
  BY <1>1, <1>2, AtidsKept DEF TidInv, Opened
<1>4. /\ TidsType' /\ SlotsOK' /\ DOMAIN tids'.tab = DOMAIN tids.tab \ {tid[c]}
      /\ \A i \in DOMAIN tids'.tab : tids'.tab[i] = tids.tab[i]
  BY <1>1, TidLeaves DEF TidInv, RemoveTid
<1>5. TabOK'
  <2>1. \A i \in DOMAIN tids.tab :
          tids.tab[i] \in Eps /\ epc[tids.tab[i]] = "open" /\ tid[tids.tab[i]] = i
    BY DEF TidInv, TypeInv, TidsType, TabOK
  <2>2. \A d \in Eps : tid[c] = tid[d] => c = d
    BY <1>1 DEF TidInv, HwOK, Named
  <2>3. \A i \in DOMAIN tids'.tab : epc'[tids'.tab[i]] = "open" /\ tid[tids'.tab[i]] = i
    BY <1>2, <1>4, <2>1
  <2>4. ASSUME NEW d \in Eps, epc'[d] = "open"
        PROVE  tid[d] \in DOMAIN tids'.tab /\ tids'.tab[tid[d]] = d
    BY <1>2, <1>4, <2>2, <2>4 DEF TidInv, TabOK
  <2> QED
    BY <1>1, <2>3, <2>4 DEF TabOK
<1>6. HwOK'
  BY <1>1, <1>2, HwKept DEF TidInv, Named
<1>7. EpsType' /\ HwType'
  BY <1>1, <1>2 DEF TidInv, TypeInv, EpsType, HwType, headVars
<1>8. ReleaseOK'
  BY <1>1 DEF TidInv, ReleaseOK, Ownerless, InHw, headVars
<1> QED
  BY <1>3, <1>4, <1>5, <1>6, <1>7, <1>8 DEF TidInv, TypeInv

(* A connection that has let its tid go, however it tells the hardware.    *)
LEMMA LetsGoInv ==
  ASSUME TidInv, NEW c \in Eps, epc[c] = "removed", Forget(c),
         UNCHANGED <<tids, atids, hwtid, worker, taken, atid>>, release' \subseteq HwTids,
         \/ release' = release \cup {tid[c]} /\ head' = head
         \/ release' = release /\ (head' # 0 => Dec(head') = tid[c])
  PROVE  TidInv'
<1>0. PICK g : g = tid[c]
  OBVIOUS
<1>1. /\ HwOK' /\ EpsType' /\ tid[c] \in HwTids /\ InHw(tid[c]) /\ tid[c] \notin release
      /\ \A d \in Eps : tid'[d] # tid[c] /\ \A t \in HwTids : tid[d] # t => tid'[d] # t
  BY LetsGo DEF TidInv
<1>2. \A d \in Eps : epc'[d] = IF d = c THEN "closed" ELSE epc[d]
  BY DEF Forget, TidInv, TypeInv, EpsType
<1>3. AtidsOK' /\ AtidsType'
  BY <1>2, AtidsKept DEF TidInv, Opened
<1>4. TabOK' /\ SlotsOK' /\ TidsType'
  BY <1>2, TabKept DEF TidInv, Forget, TypeInv, EpsType
<1>5. HwType'
  BY DEF TidInv, TypeInv, HwType
<1>6. /\ InHw(g)' /\ \A t : InHw(t)' <=> InHw(t)
      /\ \A t : InHw(t) => t \in HwTids
  BY <1>0, <1>1 DEF InHw, TidInv, TypeInv, HwType
<1>7. \A t : Ownerless(t) => t # tid[c]
  BY DEF Ownerless
<1>8. ReleaseOK'
  <2>1. \A t \in release' : InHw(t)' /\ \A d \in Eps : tid'[d] # t
    BY <1>1, <1>6 DEF TidInv, ReleaseOK
  <2>2. \A t : Ownerless(t) => Ownerless(t)'
    BY <1>1, <1>6, <1>7 DEF Ownerless
  <2>3. release' = release => Ownerless(g)'
    BY <1>0, <1>1, <1>6 DEF Ownerless
  <2>4. head' # 0 => Ownerless(Dec(head))'
    BY <1>0, <2>2, <2>3 DEF TidInv, ReleaseOK
  <2>5. worker \in {"clear", "send"} => Ownerless(Dec(taken)) /\ Dec(taken) # tid[c]
    BY <1>7 DEF TidInv, ReleaseOK
  <2>6. worker = "send" /\ head' # 0 => Dec(head') # Dec(taken)
    BY <2>5 DEF TidInv, ReleaseOK
  <2> QED
    BY <2>1, <2>2, <2>4, <2>5, <2>6 DEF ReleaseOK
<1> QED
  BY <1>1, <1>3, <1>4, <1>5, <1>8 DEF TidInv, TypeInv

LEMMA RemoveSendInv ==
  ASSUME TidInv, NEW c \in Eps, RemoveSend(c)
  PROVE  TidInv'
<1>1. tid[c] \in HwTids
  BY LetsGo DEF TidInv, RemoveSend, headVars
<1>2. release' \subseteq HwTids
  BY <1>1 DEF RemoveSend, TidInv, TypeInv, HwType
<1> QED
  BY <1>2, LetsGoInv DEF RemoveSend, headVars

LEMMA RemoveDeferInv ==
  ASSUME WordHolds, TidInv, NEW c \in Eps, RemoveDefer(c)
  PROVE  TidInv'
<1>1. tid[c] \in HwTids /\ release' \subseteq HwTids
  BY LetsGo DEF TidInv, RemoveDefer, TypeInv, HwType
<1>2. Dec(head') = tid[c]
  BY <1>1 DEF RemoveDefer, WordHolds
<1> QED
  BY <1>1, <1>2, LetsGoInv DEF RemoveDefer

LEMMA HwConnectInv ==
  ASSUME TidInv, NEW c \in Eps, HwConnect(c)
  PROVE  TidInv'
<1>1. /\ UNCHANGED <<tids, atids, release, atid>> /\ UNCHANGED headVars
      /\ epc[c] = "opening" /\ epc' = [epc EXCEPT ![c] = "connected"]
  BY DEF HwConnect
<1>2. Width(tids, Wide(c)) = Slots(c)
  BY DEF Width, Slots, TidInv, TypeInv, TidsType
<1>3. PICK t \in HwTids :
        /\ t = Aligned(tids, t, Wide(c))
        /\ \A h \in hwtid : Region(t, Slots(c)) \cap Region(h[1], h[2]) = {}
        /\ hwtid' = hwtid \cup {<<t, Slots(c)>>} /\ tid' = [tid EXCEPT ![c] = t]
  BY <1>2 DEF HwConnect
<1>4. t \in Nat /\ Slots(c) \in Nat \ {0} /\ t \in Region(t, Slots(c))
  BY SlotsFacts, RegionHolds, TidsAssumption DEF TidsAssumption
<1>5. t % Slots(c) = 0
  <2>1. t = t - (t % Slots(c))
    BY <1>2, <1>3 DEF Aligned
  <2>2. t % Slots(c) \in Int
    BY <1>4
  <2> DEFINE m == t % Slots(c)
  <2> HIDE DEF m
  <2>3. m \in Int /\ t \in Int /\ t = t - m
    BY <1>4, <2>1, <2>2 DEF m
  <2>4. m = 0
    BY <2>3
  <2> QED
    BY <2>4 DEF m
<1>6. /\ \A d \in Eps : epc'[d] = IF d = c THEN "connected" ELSE epc[d]
      /\ \A d \in Eps : tid'[d] = IF d = c THEN t ELSE tid[d]
  BY <1>1, <1>3 DEF TidInv, TypeInv, EpsType
<1>7. EpsType' /\ HwType'
  BY <1>1, <1>3, <1>4 DEF TidInv, TypeInv, EpsType, HwType, headVars
(* What the hardware regards as in use is somewhere else.                  *)
<1>8. \A h \in hwtid : h[1] # t
  <2> SUFFICES ASSUME NEW h \in hwtid, h[1] = t PROVE FALSE
    OBVIOUS
  <2>1. h[2] \in Nat \ {0}
    BY DEF TidInv, TypeInv, HwType
  <2>2. t \in Region(h[1], h[2])
    BY <1>4, <2>1, RegionHolds
  <2> QED
    BY <1>3, <1>4, <2>2
<1>9. ~InHw(t) /\ \A x : InHw(x) => InHw(x)'
  BY <1>3, <1>8 DEF InHw
<1>10. \A d \in Eps : epc[d] \in Named => tid[d] # t
  <2> SUFFICES ASSUME NEW d \in Eps, epc[d] \in Named, tid[d] = t PROVE FALSE
    OBVIOUS
  <2>1. <<t, Slots(d)>> \in hwtid
    BY DEF TidInv, HwOK
  <2> QED
    BY <1>8, <2>1
<1>11. AtidsOK' /\ AtidsType'
  BY <1>1, <1>6, AtidsKept DEF TidInv, Opened
<1>12. TabOK' /\ SlotsOK' /\ TidsType'
  BY <1>1, <1>6, TabKept DEF TidInv
<1>13. HwOK'
  <2>1. ASSUME NEW x \in Eps
        PROVE  /\ IF epc'[x] \in Named THEN <<tid'[x], Slots(x)>> \in hwtid' ELSE tid'[x] = NoTid
               /\ epc'[x] \in Named => tid'[x] % Slots(x) = 0
    <3>1. CASE x = c
      BY <1>3, <1>5, <1>6, <3>1 DEF Named
    <3>2. CASE x # c
      BY <1>3, <1>6, <3>2 DEF TidInv, HwOK
    <3> QED
      BY <3>1, <3>2
  <2>2. NoTid # t
    BY TidsAssumption DEF TidsAssumption
  <2>3. ASSUME NEW x \in Eps, NEW y \in Eps, epc'[x] \in Named, tid'[x] = tid'[y]
        PROVE  x = y
    <3>1. \A d \in Eps : d # c => tid[d] # t
      BY <1>10, <2>2 DEF TidInv, HwOK
    <3>2. CASE x = c
      BY <1>6, <2>3, <3>1, <3>2
    <3>3. CASE x # c
      <4>1. y # c
        BY <1>6, <2>3, <3>1, <3>3
      <4> QED
        BY <1>6, <2>3, <3>3, <4>1 DEF TidInv, HwOK
    <3> QED
      BY <3>2, <3>3
  <2>4. ASSUME NEW g \in hwtid', NEW h \in hwtid', g # h
        PROVE  Region(g[1], g[2]) \cap Region(h[1], h[2]) = {}
    <3> DEFINE n == <<t, Slots(c)>>
    <3>1. n[1] = t /\ n[2] = Slots(c)
      OBVIOUS
    <3>2. (g \in hwtid \/ g = n) /\ (h \in hwtid \/ h = n)
      BY <1>3
    <3> HIDE DEF n
    <3>3. CASE g \in hwtid /\ h \in hwtid
      BY <2>4, <3>3 DEF TidInv, HwOK
    <3>4. CASE g = n /\ h \in hwtid
      BY <1>3, <3>1, <3>4
    <3>5. CASE g \in hwtid /\ h = n
      BY <1>3, <3>1, <3>5
    <3> QED
      BY <2>4, <3>2, <3>3, <3>4, <3>5
  <2> QED
    BY <2>1, <2>3, <2>4 DEF HwOK
<1>14. ReleaseOK'
  <2>1. \A x : InHw(x) => x # t
    BY <1>9
  <2>2. \A x \in release : InHw(x)' /\ \A d \in Eps : tid'[d] # x
    BY <1>6, <1>9, <2>1 DEF TidInv, ReleaseOK
  <2>3. \A x : Ownerless(x) => Ownerless(x)'
    BY <1>1, <1>6, <1>9, <2>1 DEF Ownerless
  <2>4. head' = head /\ worker' = worker /\ taken' = taken /\ release' = release
    BY <1>1 DEF headVars
  <2> QED
    BY <2>2, <2>3, <2>4 DEF TidInv, ReleaseOK
<1> QED
  BY <1>7, <1>11, <1>12, <1>13, <1>14 DEF TidInv, TypeInv

(* The work item moves a tid from the list to the hardware.                *)
LEMMA WorkInv ==
  ASSUME TidInv, WorkLook \/ WorkClear \/ WorkSend
  PROVE  TidInv'
<1>1. UNCHANGED <<tids, atids, hwtid, epc, atid, tid>>
  BY DEF WorkLook, WorkClear, WorkSend
<1>2. /\ AtidsOK' /\ AtidsType' /\ TabOK' /\ SlotsOK' /\ TidsType' /\ HwOK'
  BY <1>1, AtidsKept, TabKept, HwKept DEF TidInv
<1>3. \A t : InHw(t) => t \in HwTids
  BY DEF InHw, TidInv, TypeInv, HwType
<1>4. worker \in {"clear", "send"} => Dec(taken) \in HwTids
  BY <1>3 DEF TidInv, ReleaseOK, Ownerless
<1>5. EpsType' /\ HwType'
  BY <1>1, <1>4 DEF TidInv, TypeInv, EpsType, HwType, WorkLook, WorkClear, WorkSend
<1>6. \A t : InHw(t)' <=> InHw(t)
  BY <1>1 DEF InHw
<1>7. ReleaseOK'
  <2>1. CASE WorkLook
    <3>1. \A t : Ownerless(t)' <=> Ownerless(t)
      BY <1>1, <1>6, <2>1 DEF Ownerless, WorkLook
    <3>2. /\ head' = head /\ taken' = head /\ release' = release
          /\ worker' = IF head = 0 THEN "idle" ELSE "clear"
      BY <2>1 DEF WorkLook
    <3> QED
      BY <1>1, <1>6, <3>1, <3>2 DEF TidInv, ReleaseOK
  <2>2. CASE WorkClear
    <3>1. \A t : Ownerless(t)' <=> Ownerless(t)
      BY <1>1, <1>6, <2>2 DEF Ownerless, WorkClear
    <3>2. head' = 0 /\ taken' = taken /\ release' = release /\ worker = "clear" /\ worker' = "send"
      BY <2>2 DEF WorkClear
    <3> QED
      BY <1>1, <1>6, <3>1, <3>2 DEF TidInv, ReleaseOK
  <2>3. CASE WorkSend
    <3> DEFINE x == Dec(taken)
    <3>1. /\ head' = head /\ release' = release \cup {x} /\ worker = "send" /\ worker' = "look"
      BY <2>3 DEF WorkSend
    <3>2. Ownerless(x) /\ (head # 0 => Ownerless(Dec(head)) /\ Dec(head) # x)
      BY <3>1 DEF TidInv, ReleaseOK
    <3> HIDE DEF x
    <3>3. \A t \in release' : InHw(t)' /\ \A c \in Eps : tid'[c] # t
      BY <1>1, <1>6, <3>1, <3>2 DEF TidInv, ReleaseOK, Ownerless
    <3>4. head' # 0 => Ownerless(Dec(head))'
      <4>1. \A t : Ownerless(t) /\ t # x => Ownerless(t)'
        BY <1>1, <1>6, <3>1 DEF Ownerless
      <4> QED
        BY <3>1, <3>2, <4>1
    <3> QED
      BY <3>1, <3>3, <3>4 DEF ReleaseOK
  <2> QED
    BY <2>1, <2>2, <2>3
<1> QED
  BY <1>2, <1>5, <1>7 DEF TidInv, TypeInv

LEMMA HwReleaseInv ==
  ASSUME TidInv, HwRelease
  PROVE  TidInv'
<1>1. PICK t \in release : release' = release \ {t} /\ hwtid' = {h \in hwtid : h[1] # t}
  BY DEF HwRelease
<1>2. UNCHANGED <<tids, atids, epc, atid, tid>> /\ UNCHANGED headVars
  BY DEF HwRelease
<1>3. AtidsOK' /\ AtidsType' /\ TabOK' /\ SlotsOK' /\ TidsType'
  BY <1>2, AtidsKept, TabKept DEF TidInv
<1>4. EpsType' /\ HwType'
  BY <1>1, <1>2 DEF TidInv, TypeInv, EpsType, HwType, headVars
<1>5. \A c \in Eps : tid[c] # t
  BY <1>1 DEF TidInv, ReleaseOK
<1>6. HwOK'
  <2>1. ASSUME NEW c \in Eps, epc[c] \in Named PROVE <<tid[c], Slots(c)>> \in hwtid'
    BY <1>1, <1>5, <2>1 DEF TidInv, HwOK
  <2> QED
    BY <1>1, <1>2, <2>1 DEF TidInv, HwOK
<1>7. \A x : InHw(x) /\ x # t => InHw(x)'
  BY <1>1 DEF InHw
<1>8. ReleaseOK'
  <2>1. \A x \in release' : InHw(x)' /\ \A c \in Eps : tid'[c] # x
    BY <1>1, <1>2, <1>7 DEF TidInv, ReleaseOK
  <2>2. \A x : Ownerless(x) => Ownerless(x)'
    BY <1>1, <1>2, <1>7 DEF Ownerless
  <2>3. head' = head /\ worker' = worker /\ taken' = taken
    BY <1>2 DEF headVars
  <2> QED
    BY <2>1, <2>2, <2>3 DEF TidInv, ReleaseOK
<1> QED
  BY <1>3, <1>4, <1>6, <1>8 DEF TidInv, TypeInv

LEMMA TidInvStep ==
  ASSUME WordHolds, TidInv, [TidNext]_tidVars
  PROVE  TidInv'
<1>1. CASE UNCHANGED tidVars
  BY <1>1, StutterInv
<1>2. ASSUME NEW c \in Eps, OpenAtid(c) \/ HwConnect(c) \/ OpenFails(c) \/ Establish(c)
      PROVE  TidInv'
  BY <1>2, OpenAtidInv, HwConnectInv, OpenFailsInv, EstablishInv
<1>3. ASSUME NEW c \in Eps, RemoveTid(c) \/ RemoveSend(c) \/ RemoveDefer(c)
      PROVE  TidInv'
  BY <1>3, RemoveTidInv, RemoveSendInv, RemoveDeferInv
<1>4. CASE WorkLook \/ WorkClear \/ WorkSend
  BY <1>4, WorkInv
<1>5. CASE HwRelease
  BY <1>5, HwReleaseInv
<1> QED
  BY <1>1, <1>2, <1>3, <1>4, <1>5 DEF TidNext

(***************************************************************************)
(* The theorem                                                             *)
(***************************************************************************)
LEMMA TidInvSound ==
  ASSUME TidInv
  PROVE  TidsSound
<1>1. Consistent(tids, Wide)
  <2> DEFINE W == {i \in DOMAIN tids.tab : Wide(tids.tab[i])}
             R(i) == Region(i - tids.start, Width(tids, i \in W))
  <2>1. W = Ranges
    BY DEF Ranges
  <2>2. \A i \in DOMAIN tids.tab : R(i) = SlotsOf(i)
    BY DEF SlotsOf, Slots, Width, TidInv, TypeInv, TidsType
  <2>3. ASSUME NEW i \in DOMAIN tids.tab, NEW j \in DOMAIN tids.tab, i # j
        PROVE  SlotsOf(i) \cap SlotsOf(j) = {}
    <3>1. j \in HwTids /\ <<j, Slots(tids.tab[j])>> \in hwtid
      BY InTable DEF TidInv
    <3>2. SlotsOf(j) = Region(j - Base, Slots(tids.tab[j]))
      BY DEF SlotsOf
    <3> QED
      BY <2>3, <3>1, <3>2, ApartFrom DEF TidInv
  <2> HIDE DEF R
  <2>4. tids.bits = UNION {R(i) : i \in DOMAIN tids.tab}
    BY <2>2 DEF TidInv, SlotsOK
  <2>5. \A i, j \in DOMAIN tids.tab : i # j => R(i) \cap R(j) = {}
    BY <2>2, <2>3
  <2>6. /\ tids.in_use = Cardinality(DOMAIN tids.tab \ W)
        /\ tids.range_in_use = tids.max * Cardinality(W)
    BY <2>1 DEF TidInv, SlotsOK, TypeInv, TidsType
  <2> QED
    BY <2>4, <2>5, <2>6 DEF Consistent, R
<1>2. Consistent(atids, LAMBDA c : FALSE)
  <2> DEFINE W == {i \in DOMAIN atids.tab : FALSE}
             R(i) == Region(i - atids.start, Width(atids, i \in W))
  <2>1. \A i \in DOMAIN atids.tab : i \in 0 .. NAtids /\ NAtids \in Nat
    BY TidsAssumption DEF TidsAssumption, TidInv, TypeInv, AtidsType
  <2>2. atids.start = 0 /\ atids.max = 1
    BY DEF TidInv, TypeInv, AtidsType
  <2>3. ASSUME NEW i \in DOMAIN atids.tab PROVE R(i) = {i}
    <3>1. i \in Int /\ i - atids.start = i /\ Width(atids, i \in W) = 1
      BY <2>1, <2>2 DEF Width
    <3> QED
      BY <3>1, RegionOne
  <2>4. W = {} /\ DOMAIN atids.tab \ W = DOMAIN atids.tab /\ Cardinality({}) = 0
    BY FS_EmptySet
  <2> HIDE DEF R, W
  <2>5. atids.bits = UNION {R(i) : i \in DOMAIN atids.tab}
    BY <2>3 DEF TidInv, AtidsOK
  <2>6. \A i, j \in DOMAIN atids.tab : i # j => R(i) \cap R(j) = {}
    BY <2>3
  <2>7. /\ atids.in_use = Cardinality(DOMAIN atids.tab \ W)
        /\ atids.range_in_use = atids.max * Cardinality(W)
    BY <2>2, <2>4 DEF TidInv, AtidsOK
  <2> QED
    BY <2>5, <2>6, <2>7 DEF Consistent, R, W
<1>3. TidNotTaken
  <2> SUFFICES ASSUME NEW c \in Eps, epc[c] = "connected"
               PROVE  CanInsert(tids, tid[c], Wide(c))
    BY DEF TidNotTaken
  <2>1. /\ tid[c] \in HwTids /\ Width(tids, Wide(c)) = Slots(c)
        /\ Aligned(tids, tid[c], Wide(c)) = tid[c]
        /\ Region(tid[c] - Base, Slots(c)) \cap tids.bits = {}
    BY SlotsFree DEF TidInv
  <2>2. tids.start = Base /\ tids.size = Span
    BY DEF TidInv, TypeInv, TidsType
  <2>3. /\ tid[c] >= Base /\ tid[c] < Base + Span
    BY <2>1, RangeFacts
  <2> QED
    BY <2>1, <2>2, <2>3 DEF CanInsert, InRange
<1>4. RightTidReleased
  BY DEF TidInv, ReleaseOK, RightTidReleased, InHw
<1> QED
  BY <1>1, <1>2, <1>3, <1>4 DEF TidsSound, TidTablesAgree

(* As long as a word of the list holds every tid, a connection's tid is    *)
(* its own: the tables of tids and atids agree with their bitmaps and      *)
(* counts, a tid that the hardware gives out can be entered in the table,  *)
(* and the hardware is told only of tids nobody has (cxgb4_tid_insert,     *)
(* cxgb4_tid_remove, cxgb4_tid_process_release_list).                      *)
THEOREM TidsAlwaysSound == WordHolds /\ TidSpec => []TidsSound
<1> SUFFICES ASSUME WordHolds PROVE TidSpec => []TidsSound
  OBVIOUS
<1>1. TidInit => TidInv
  BY InitInv
<1>2. TidInv /\ [TidNext]_tidVars => TidInv'
  BY TidInvStep
<1>3. TidInv => TidsSound
  BY TidInvSound
<1> QED
  BY <1>1, <1>2, <1>3, PTL DEF TidSpec
=============================================================================
