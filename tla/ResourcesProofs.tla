--------------------------- MODULE ResourcesProofs ---------------------------
(***************************************************************************)
(* Proofs about what the RDMA driver hands out and takes back, for any     *)
(* sizes: the identifiers of queues (QueueIds), the indices and page lists *)
(* of memory regions (MemRegions), and the buffers and responses of a      *)
(* receive queue (RxQueue), also in the composition of the run "resources" *)
(* (MCResources).                                                          *)
(***************************************************************************)
EXTENDS MCResources, SequenceTheorems, FiniteSetTheorems, TLAPS

(***************************************************************************)
(* Queue ids: an identifier has one owner, a page of doorbells one         *)
(* process, and pages come back.                                           *)
(***************************************************************************)
QueueRecs == [kind : QueueKinds, held : Seq(Nat), uctx : Contexts,
              at : {"create", "ready", "undo"}]
QidTypeOK ==
  /\ qid_table \subseteq QidPages
  /\ qids \in [Contexts -> [Lists -> Seq(Nat)]]
  /\ queue_obj \in [Objects -> QueueRecs \cup {NoObject}]
  /\ qid_cur \in Int /\ nomem \in Nat

\* What everybody has, and whose it is, as functions.
Had == [w \in Owners |-> [l \in Lists |-> Has(w, l)]]
Ctx == [w \in Owners |-> ContextOf(w)]
PagesOut == QidPages \ qid_table

(* An identifier of a sort has one owner, who has it once; its page is not *)
(* free, and all who have identifiers of the page are of one context.      *)
OneOwner ==
  \A l \in Lists : \A v, w \in Owners :
    /\ IsInjective(Had[w][l])
    /\ v # w => ToSet(Had[v][l]) \cap ToSet(Had[w][l]) = {}
OnPagesOut ==
  \A l \in Lists : \A w \in Owners : \A id \in ToSet(Had[w][l]) : PageOf(id) \in PagesOut
OneContext ==
  \A k, l \in Lists : \A v, w \in Owners : \A a \in ToSet(Had[v][k]), b \in ToSet(Had[w][l]) :
    PageOf(a) = PageOf(b) => Ctx[v] = Ctx[w]

(* A page whose first identifier nobody has among those of queue pairs     *)
(* does not come back any more: an allocation has failed for it.           *)
Damaged == {p \in PagesOut : \A w \in Owners : p \notin ToSet(Had[w]["qp"])}
PagesCounted ==
  /\ qid_cur = Density * Cardinality(PagesOut)
  /\ Cardinality(Damaged) <= nomem

QidInv == QidTypeOK /\ OneOwner /\ OnPagesOut /\ OneContext /\ PagesCounted

-----------------------------------------------------------------------------
(* Identifiers and their pages.                                            *)

LEMMA MultipleUnique ==
  ASSUME NEW d \in Nat \ {0}, NEW k \in Int, NEW q \in Int,
         NEW i \in 0 .. d - 1, NEW r \in 0 .. d - 1, k * d + i = q * d + r
  PROVE  i = r
  <1>1. (k - q) * d = r - i
    OBVIOUS
  <1>2. CASE k - q >= 1
    <2>1. (k - q) * d >= d
      BY <1>2
    <2> QED BY <1>1, <2>1
  <1>3. CASE k - q <= -1
    <2>1. (k - q) * d <= -d
      BY <1>3
    <2> QED BY <1>1, <2>1
  <1>4. CASE k = q
    BY <1>4
  <1> QED BY <1>2, <1>3, <1>4

LEMMA PageModulus ==
  ASSUME NEW k \in Int, NEW i \in 0 .. Density - 1
  PROVE  (k * Density + i) % Density = i
  <1> DEFINE n == k * Density + i
  <1>1. Density \in Nat \ {0} BY QueueIdsAssumption
  <1>2. k * Density \in Int BY <1>1
  <1>3. n \in Int BY <1>1, <1>2
  <1>4. PICK q \in Int, r \in 0 .. Density - 1 : n = q * Density + r /\ n % Density = r
    <2> HIDE DEF n
    <2> DEFINE a == n \div Density
              c == n % Density
    <2>1. c \in 0 .. Density - 1 /\ a \in Int /\ n = Density * a + c
      BY <1>1, <1>3
    <2>2. Density * a = a * Density
      <3> HIDE DEF a
      <3> QED BY <1>1, <2>1
    <2>3. n = a * Density + c /\ n % Density = c
      <3> HIDE DEF a
      <3> QED BY <2>1, <2>2
    <2> HIDE DEF a, c
    <2> QED BY <2>1, <2>3
  <1>5. r = i BY <1>1, <1>4, MultipleUnique
  <1> QED BY <1>4, <1>5

(* An identifier of a page is on that page, and its first is itself.       *)
LEMMA PageFacts ==
  /\ QidPages \subseteq Nat
  /\ \A p \in QidPages, i \in 0 .. Density - 1 : PageOf(p + i) = p
  /\ \A p \in QidPages : PageOf(p) = p /\ p % Density = 0
  /\ \A id \in Nat : id % Density = 0 => PageOf(id) = id
  <1>1. Density \in Nat \ {0} /\ NumPages \in Nat BY QueueIdsAssumption
  <1>2. ASSUME NEW k \in 1 .. NumPages
        PROVE  /\ k * Density \in Nat
               /\ \A i \in 0 .. Density - 1 : (k * Density + i) % Density = i
    <2>1. k * Density \in Nat BY <1>1
    <2> QED BY <2>1, PageModulus
  <1>3. ASSUME NEW p \in QidPages
        PROVE  /\ p \in Nat
               /\ \A i \in 0 .. Density - 1 : (p + i) % Density = i
    <2>1. PICK k \in 1 .. NumPages : p = k * Density BY DEF QidPages
    <2> QED BY <1>2, <2>1
  <1>4. ASSUME NEW p \in QidPages
        PROVE  /\ \A i \in 0 .. Density - 1 : PageOf(p + i) = p
               /\ PageOf(p) = p /\ p % Density = 0
    <2>1. \A i \in 0 .. Density - 1 : PageOf(p + i) = p
      BY <1>1, <1>3 DEF PageOf
    <2>2. (p + 0) % Density = 0 /\ p + 0 = p
      BY <1>1, <1>3
    <2> QED BY <1>3, <2>1, <2>2 DEF PageOf
  <1>5. \A id \in Nat : id % Density = 0 => PageOf(id) = id
    BY DEF PageOf
  <1> QED BY <1>3, <1>4, <1>5

LEMMA PagesFinite == IsFiniteSet(QidPages)
  <1> DEFINE f == [k \in 1 .. NumPages |-> k * Density]
  <1>1. f \in Surjection(1 .. NumPages, QidPages)
    BY DEF Surjection, QidPages
  <1>2. IsFiniteSet(1 .. NumPages)
    BY FS_Interval, QueueIdsAssumption
  <1> QED BY <1>1, <1>2, FS_Surjection

-----------------------------------------------------------------------------
(* Lists of identifiers, as sets.                                          *)

LEMMA ToSetEmpty == ToSet(<<>>) = {} /\ IsInjective(<<>>)
  BY DEF ToSet, IsInjective

LEMMA ToSetAppend ==
  ASSUME NEW s \in Seq(Nat), NEW e \in Nat
  PROVE  /\ Append(s, e) \in Seq(Nat)
         /\ ToSet(Append(s, e)) = ToSet(s) \cup {e}
         /\ IsInjective(s) /\ e \notin ToSet(s) => IsInjective(Append(s, e))
  <1>1. /\ Append(s, e) \in Seq(Nat) /\ Len(Append(s, e)) = Len(s) + 1
        /\ DOMAIN Append(s, e) = 1 .. Len(s) + 1 /\ DOMAIN s = 1 .. Len(s)
        /\ Len(s) \in Nat
        /\ \A i \in 1 .. Len(s) : Append(s, e)[i] = s[i]
        /\ Append(s, e)[Len(s) + 1] = e
    BY AppendProperties, LenProperties
  <1>2. ToSet(Append(s, e)) = ToSet(s) \cup {e}
    BY <1>1 DEF ToSet
  <1>3. IsInjective(s) /\ e \notin ToSet(s) => IsInjective(Append(s, e))
    BY <1>1 DEF ToSet, IsInjective
  <1> QED BY <1>1, <1>2, <1>3

LEMMA ToSetTail ==
  ASSUME NEW s \in Seq(Nat), s # <<>>, IsInjective(s)
  PROVE  /\ Tail(s) \in Seq(Nat) /\ Head(s) \in ToSet(s) /\ Head(s) \in Nat
         /\ ToSet(Tail(s)) = ToSet(s) \ {Head(s)} /\ IsInjective(Tail(s))
  <1>1. /\ Tail(s) \in Seq(Nat) /\ Len(s) \in Nat \ {0} /\ DOMAIN s = 1 .. Len(s)
        /\ DOMAIN Tail(s) = 1 .. Len(s) - 1
        /\ \A i \in 1 .. Len(s) - 1 : Tail(s)[i] = s[i + 1]
        /\ Head(s) = s[1] /\ Head(s) \in Nat
    BY HeadTailProperties, EmptySeq, LenProperties
  <1>2. ToSet(Tail(s)) = ToSet(s) \ {Head(s)}
    <2>1. ASSUME NEW x \in ToSet(Tail(s)) PROVE x \in ToSet(s) \ {Head(s)}
      BY <1>1 DEF ToSet, IsInjective
    <2>2. ASSUME NEW x \in ToSet(s) \ {Head(s)} PROVE x \in ToSet(Tail(s))
      <3>1. PICK i \in 1 .. Len(s) : x = s[i] BY <1>1 DEF ToSet
      <3>2. i - 1 \in 1 .. Len(s) - 1 /\ Tail(s)[i - 1] = x BY <1>1, <3>1
      <3> QED BY <1>1, <3>2 DEF ToSet
    <2> QED BY <2>1, <2>2
  <1>3. IsInjective(Tail(s)) /\ Head(s) \in ToSet(s)
    BY <1>1, SMTT(20) DEF ToSet, IsInjective
  <1> QED BY <1>1, <1>2, <1>3

LEMMA ToSetFront ==
  ASSUME NEW s \in Seq(Nat), s # <<>>, IsInjective(s)
  PROVE  /\ Front(s) \in Seq(Nat) /\ Last(s) \in ToSet(s) /\ Last(s) \in Nat
         /\ ToSet(Front(s)) = ToSet(s) \ {Last(s)} /\ IsInjective(Front(s))
  <1>1. Len(s) \in Nat \ {0} /\ DOMAIN s = 1 .. Len(s) /\ \A i \in 1 .. Len(s) : s[i] \in Nat
    BY EmptySeq, LenProperties, ElementOfSeq
  <1>2. Len(s) - 1 \in Int /\ \A i \in 1 .. Len(s) - 1 : s[i] \in Nat
    BY <1>1
  <1>3. /\ Front(s) \in Seq(Nat) /\ Len(Front(s)) = Len(s) - 1
        /\ \A i \in 1 .. Len(s) - 1 : Front(s)[i] = s[i]
    BY <1>1, <1>2, SubSeqProperties DEF Front
  <1>4. DOMAIN Front(s) = 1 .. Len(s) - 1
    BY <1>3, LenProperties
  <1>5. Last(s) = s[Len(s)] BY DEF Last
  <1>6. \A i, j \in 1 .. Len(s) : s[i] = s[j] => i = j
    BY <1>1 DEF IsInjective
  <1>7. ToSet(Front(s)) = ToSet(s) \ {Last(s)}
    <2>1. ASSUME NEW x \in ToSet(Front(s)) PROVE x \in ToSet(s) \ {Last(s)}
      <3>1. PICK i \in 1 .. Len(s) - 1 : x = s[i]
        BY <1>3, <1>4 DEF ToSet
      <3>2. i \in 1 .. Len(s) /\ i # Len(s) /\ Len(s) \in 1 .. Len(s)
        <4>1. PICK n \in Nat \ {0} : n = Len(s) BY <1>1
        <4> QED BY <3>1, <4>1
      <3> QED BY <1>1, <1>5, <1>6, <3>1, <3>2 DEF ToSet
    <2>2. ASSUME NEW x \in ToSet(s) \ {Last(s)} PROVE x \in ToSet(Front(s))
      BY <1>1, <1>3, <1>4, <1>5 DEF ToSet
    <2> QED BY <2>1, <2>2
  <1>8. IsInjective(Front(s))
    <2>1. PICK n \in Nat \ {0} : n = Len(s) BY <1>1
    <2>2. \A i, j \in 1 .. n - 1 : Front(s)[i] = Front(s)[j] => i = j
      BY <1>3, <1>6, <2>1, SMTT(20)
    <2> QED BY <1>4, <2>1, <2>2 DEF IsInjective
  <1>9. Last(s) \in ToSet(s) /\ Last(s) \in Nat
    BY <1>1, <1>5 DEF ToSet
  <1> QED BY <1>3, <1>7, <1>8, <1>9

-----------------------------------------------------------------------------
(* Who has what.                                                           *)

LEMMA QueueFields ==
  ASSUME QidTypeOK, NEW o \in Objects
  PROVE  /\ queue_obj[o] \in QueueRecs \/ queue_obj[o] = NoObject
         /\ queue_obj[o] # NoObject =>
              /\ queue_obj[o] \in QueueRecs /\ queue_obj[o].uctx \in Contexts
              /\ queue_obj[o].kind \in QueueKinds
         /\ queue_obj[o].held \in Seq(Nat)
         /\ ListOf(queue_obj[o].kind) \in Lists /\ o \notin Contexts
  <1>1. queue_obj[o] \in QueueRecs \/ queue_obj[o] = NoObject
    BY DEF QidTypeOK
  <1>2. NoObject.held = <<>> /\ <<>> \in Seq(Nat)
    BY EmptySeq DEF NoObject
  <1>3. \A q \in QueueRecs : q.held \in Seq(Nat) /\ q.uctx \in Contexts /\ q.kind \in QueueKinds
    BY DEF QueueRecs
  <1>4. queue_obj[o].held \in Seq(Nat)
    BY <1>1, <1>2, <1>3
  <1> QED BY <1>1, <1>3, <1>4, QueueIdsAssumption DEF ListOf, Lists

LEMMA HasFacts ==
  ASSUME QidTypeOK, NEW w \in Owners, NEW l \in Lists
  PROVE  Had[w][l] \in Seq(Nat) /\ ToSet(Had[w][l]) \subseteq Nat
  <1>1. Had[w][l] \in Seq(Nat)
    <2>1. CASE w \in Contexts
      BY <2>1 DEF QidTypeOK, Had, Has
    <2>2. CASE w \in Objects /\ w \notin Contexts
      <3>1. queue_obj[w].held \in Seq(Nat) /\ <<>> \in Seq(Nat)
        BY <2>2, EmptySeq, QueueFields
      <3> QED BY <2>2, <3>1 DEF Had, Has
    <2> QED BY <2>1, <2>2 DEF Owners
  <1>2. PICK s \in Seq(Nat) : s = Had[w][l]
    BY <1>1
  <1>3. ToSet(s) \subseteq Nat
    BY ElementOfSeq, LenProperties DEF ToSet
  <1> QED BY <1>1, <1>2, <1>3

(* One object's list of its sort, and those of its context, change.        *)
Deals(o, u, l0, held) ==
  /\ Ctx[o] = u /\ \A w \in Owners : Ctx'[w] = Ctx[w]
  /\ \A l \in Lists : \A w \in Owners \ {u, o} : Had'[w][l] = Had[w][l]
  /\ \A l \in Lists : Had'[u][l] = qids'[u][l] /\ Had[u][l] = qids[u][l]
  /\ Had[o][l0] = queue_obj[o].held /\ Had'[o][l0] = held
  /\ \A l \in Lists \ {l0} : Had[o][l] = <<>> /\ Had'[o][l] = <<>>

(* The identifiers of a context and one of its objects are dealt anew,     *)
(* with new ones of pages that were free: nothing else changes hands.      *)
DealtAnew(u, o, N, T) ==
  /\ T \subseteq qid_table /\ qid_table' = qid_table \ T
  /\ \A id \in N : PageOf(id) \in T
  /\ Ctx[o] = u /\ \A w \in Owners : Ctx'[w] = Ctx[w]
  /\ \A l \in Lists : \A w \in Owners \ {u, o} : Had'[w][l] = Had[w][l]
  /\ \A l \in Lists :
       /\ IsInjective(Had'[u][l]) /\ IsInjective(Had'[o][l])
       /\ ToSet(Had'[u][l]) \cap ToSet(Had'[o][l]) = {}
       /\ ToSet(Had'[u][l]) \cup ToSet(Had'[o][l])
            \subseteq ToSet(Had[u][l]) \cup ToSet(Had[o][l]) \cup N

LEMMA Redealt ==
  ASSUME QidInv, NEW u \in Contexts, NEW o \in Objects, NEW N, NEW T, DealtAnew(u, o, N, T)
  PROVE  OneOwner' /\ OnPagesOut' /\ OneContext'
  <1>1. /\ u \in Owners /\ o \in Owners /\ Ctx[u] = u
        /\ PagesOut' = PagesOut \cup T /\ qid_table \cap PagesOut = {}
    BY DEF Owners, Ctx, ContextOf, PagesOut, QidInv, QidTypeOK, DealtAnew
  <1>2. /\ \A l \in Lists : \A w \in Owners \ {u, o} : ToSet(Had'[w][l]) = ToSet(Had[w][l])
        /\ Ctx[o] = u /\ \A w \in Owners : Ctx'[w] = Ctx[w]
    BY DEF DealtAnew
  <1>3. ASSUME NEW l \in Lists, NEW w \in Owners, NEW id \in ToSet(Had'[w][l])
        PROVE  \/ id \in N /\ w \in {u, o}
               \/ \E x \in Owners : id \in ToSet(Had[x][l]) /\ Ctx[x] = Ctx[w]
    BY <1>1, <1>2, <1>3 DEF DealtAnew
  <1>4. \A l \in Lists : \A w \in Owners : \A id \in ToSet(Had[w][l]) :
          PageOf(id) \in PagesOut /\ id \notin N
    BY <1>1 DEF QidInv, OnPagesOut, DealtAnew
  <1>5. OneOwner'
    <2> SUFFICES ASSUME NEW l \in Lists, NEW v \in Owners, NEW w \in Owners
                 PROVE  /\ IsInjective(Had'[w][l])
                        /\ v # w => ToSet(Had'[v][l]) \cap ToSet(Had'[w][l]) = {}
      BY DEF OneOwner
    <2>1. IsInjective(Had'[w][l])
      BY DEF QidInv, OneOwner, DealtAnew
    <2>2. \A x, y \in Owners : x # y => ToSet(Had[x][l]) \cap ToSet(Had[y][l]) = {}
      BY DEF QidInv, OneOwner
    <2>3. ASSUME NEW x \in Owners \ {u, o}
          PROVE  (ToSet(Had'[u][l]) \cup ToSet(Had'[o][l])) \cap ToSet(Had'[x][l]) = {}
      BY <1>1, <1>2, <1>4, <2>2 DEF DealtAnew
    <2>4. CASE v \in {u, o} /\ w \in {u, o}
      BY <2>1, <2>4 DEF DealtAnew
    <2>5. CASE v \notin {u, o} /\ w \notin {u, o}
      BY <1>2, <2>1, <2>2, <2>5
    <2>6. CASE v \in {u, o} /\ w \notin {u, o}
      BY <2>1, <2>3, <2>6
    <2>7. CASE v \notin {u, o} /\ w \in {u, o}
      BY <2>1, <2>3, <2>7
    <2> QED BY <2>4, <2>5, <2>6, <2>7
  <1>6. OnPagesOut'
    BY <1>1, <1>3, <1>4 DEF OnPagesOut, PageOf, DealtAnew
  <1>7. OneContext'
    <2> SUFFICES ASSUME NEW k \in Lists, NEW l \in Lists, NEW v \in Owners, NEW w \in Owners,
                        NEW a \in ToSet(Had'[v][k]), NEW b \in ToSet(Had'[w][l]),
                        PageOf(a) = PageOf(b)
                 PROVE  Ctx'[v] = Ctx'[w]
      BY DEF OneContext, PageOf
    <2>1. CASE a \in N /\ v \in {u, o}
      <3>1. \A x \in Owners : b \notin ToSet(Had[x][l])
        BY <1>1, <1>4, <2>1 DEF DealtAnew
      <3>2. w \in {u, o}
        BY <1>3, <3>1
      <3> QED BY <1>1, <1>2, <2>1, <3>2
    <2>2. CASE b \in N /\ w \in {u, o}
      <3>1. \A x \in Owners : a \notin ToSet(Had[x][k])
        BY <1>1, <1>4, <2>2 DEF DealtAnew
      <3>2. v \in {u, o}
        BY <1>3, <3>1
      <3> QED BY <1>1, <1>2, <2>2, <3>2
    <2>3. CASE /\ \E x \in Owners : a \in ToSet(Had[x][k]) /\ Ctx[x] = Ctx[v]
               /\ \E y \in Owners : b \in ToSet(Had[y][l]) /\ Ctx[y] = Ctx[w]
      BY <1>2, <2>3 DEF QidInv, OneContext
    <2> QED BY <1>3, <2>1, <2>2, <2>3
  <1> QED BY <1>5, <1>6, <1>7

(* Nothing changes hands. *)
LEMMA SameHands ==
  ASSUME QidInv, qid_table' = qid_table, qid_cur' = qid_cur, nomem' = nomem,
         \A l \in Lists : \A w \in Owners : Had'[w][l] = Had[w][l],
         \A w \in Owners : \/ Ctx'[w] = Ctx[w]
                           \/ \A l \in Lists : Had[w][l] = <<>>
  PROVE  OneOwner' /\ OnPagesOut' /\ OneContext' /\ PagesCounted'
  <1>1. \A l \in Lists : \A w \in Owners :
          /\ ToSet(Had'[w][l]) = ToSet(Had[w][l])
          /\ ToSet(Had[w][l]) # {} => Ctx'[w] = Ctx[w]
    BY ToSetEmpty
  <1>2. PagesOut' = PagesOut
    BY DEF PagesOut
  <1>3. OneOwner'
    BY <1>1 DEF QidInv, OneOwner
  <1>4. OnPagesOut'
    BY <1>1, <1>2 DEF QidInv, OnPagesOut, PageOf
  <1>5. OneContext'
    BY <1>1 DEF QidInv, OneContext, PageOf
  <1>6. Damaged' = Damaged
    BY <1>1, <1>2 DEF Damaged, Lists
  <1> QED BY <1>2, <1>3, <1>4, <1>5, <1>6 DEF QidInv, PagesCounted

(* What failed allocations do to the pages. *)
LEMMA PagesOutFinite ==
  ASSUME qid_table \subseteq QidPages
  PROVE  /\ IsFiniteSet(PagesOut) /\ Cardinality(PagesOut) \in Nat
         /\ IsFiniteSet(Damaged) /\ Cardinality(Damaged) \in Nat
  <1>1. PagesOut \in SUBSET QidPages /\ Damaged \in SUBSET PagesOut
    BY DEF PagesOut, Damaged
  <1>2. IsFiniteSet(PagesOut)
    BY <1>1, PagesFinite, FS_Subset
  <1>3. IsFiniteSet(Damaged)
    BY <1>1, <1>2, FS_Subset
  <1> QED BY <1>2, <1>3, FS_CardinalityType

LEMMA DamageCounted ==
  ASSUME QidInv, nomem' \in Nat,
         \/ Damaged' \subseteq Damaged /\ nomem' >= nomem
         \/ nomem' = nomem + 1 /\ \E x : Damaged' \subseteq Damaged \cup {x}
  PROVE  Cardinality(Damaged') <= nomem'
  <1>1. /\ IsFiniteSet(Damaged) /\ Cardinality(Damaged) \in Nat
        /\ Cardinality(Damaged) <= nomem /\ nomem \in Nat
    BY PagesOutFinite DEF QidInv, QidTypeOK, PagesCounted
  <1>2. CASE Damaged' \subseteq Damaged /\ nomem' >= nomem
    <2>1. Cardinality(Damaged') <= Cardinality(Damaged) /\ IsFiniteSet(Damaged')
      BY <1>1, <1>2, FS_Subset
    <2>2. Cardinality(Damaged') \in Nat
      BY <2>1, FS_CardinalityType
    <2> QED BY <1>1, <1>2, <2>1, <2>2
  <1>3. ASSUME nomem' = nomem + 1, NEW x, Damaged' \subseteq Damaged \cup {x}
        PROVE  Cardinality(Damaged') <= nomem'
    <2>1. /\ IsFiniteSet(Damaged \cup {x})
          /\ Cardinality(Damaged \cup {x}) = IF x \in Damaged THEN Cardinality(Damaged)
                                             ELSE Cardinality(Damaged) + 1
      BY <1>1, FS_AddElement
    <2>2. Cardinality(Damaged') <= Cardinality(Damaged \cup {x}) /\ IsFiniteSet(Damaged')
      BY <1>3, <2>1, FS_Subset
    <2>3. Cardinality(Damaged') \in Nat
      BY <2>2, FS_CardinalityType
    <2> QED BY <1>1, <1>3, <2>1, <2>2, <2>3
  <1> QED BY <1>2, <1>3

-----------------------------------------------------------------------------
(* An object changes.                                                      *)

LEMMA ObjectChanges ==
  ASSUME QidTypeOK, NEW o \in Objects, NEW r \in QueueRecs \cup {NoObject},
         queue_obj' = [queue_obj EXCEPT ![o] = r]
  PROVE  /\ queue_obj' \in [Objects -> QueueRecs \cup {NoObject}]
         /\ queue_obj'[o] = r
         /\ \A n \in Objects \ {o} : queue_obj'[n] = queue_obj[n]
  BY DEF QidTypeOK

(* It changes its state, or comes or goes with no identifier. *)
LEMMA SameHeld ==
  ASSUME QidInv, NEW o \in Objects, NEW r \in QueueRecs \cup {NoObject},
         queue_obj' = [queue_obj EXCEPT ![o] = r],
         r.held = queue_obj[o].held,
         \/ r.kind = queue_obj[o].kind /\ r.uctx = queue_obj[o].uctx
         \/ r.held = <<>>,
         UNCHANGED <<qid_table, qids, qid_cur, nomem>>
  PROVE  QidInv'
  <1>1. /\ queue_obj' \in [Objects -> QueueRecs \cup {NoObject}]
        /\ queue_obj'[o] = r /\ \A n \in Objects \ {o} : queue_obj'[n] = queue_obj[n]
    BY ObjectChanges DEF QidInv
  <1>2. QidTypeOK'
    BY <1>1 DEF QidInv, QidTypeOK
  <1>3. \A l \in Lists : \A w \in Owners : Had'[w][l] = Had[w][l]
    BY <1>1 DEF Had, Has, Owners
  <1>4. \A w \in Owners : \/ Ctx'[w] = Ctx[w]
                          \/ \A l \in Lists : Had[w][l] = <<>>
    BY <1>1 DEF Had, Has, Ctx, ContextOf, Owners
  <1> QED BY <1>2, <1>3, <1>4, SameHands DEF QidInv

LEMMA CreateQueueStep ==
  ASSUME QidInv, NEW o \in Objects, NEW u \in Contexts, NEW kind \in QueueKinds,
         CreateQueue(o, u, kind)
  PROVE  QidInv'
  <1> DEFINE r == [kind |-> kind, held |-> <<>>, uctx |-> u, at |-> "create"]
  <1>1. queue_obj[o].held = <<>>
    BY DEF CreateQueue, NoObject
  <1>2. r \in QueueRecs /\ r.held = <<>>
    BY EmptySeq DEF QueueRecs
  <1>3. /\ queue_obj' = [queue_obj EXCEPT ![o] = r]
        /\ UNCHANGED <<qid_table, qids, qid_cur, nomem>>
    BY DEF CreateQueue
  <1> HIDE DEF r
  <1> QED BY <1>1, <1>2, <1>3, SameHeld

(* It is ready, or gives its identifiers back. *)
LEMMA GoesOn ==
  ASSUME QidInv, NEW o \in Objects, queue_obj[o] # NoObject,
         NEW a \in {"ready", "undo"}, queue_obj' = [queue_obj EXCEPT ![o].at = a],
         UNCHANGED <<qid_table, qids, qid_cur, nomem>>
  PROVE  QidInv'
  <1> DEFINE r == [queue_obj[o] EXCEPT !.at = a]
  <1>1. queue_obj[o] \in QueueRecs
    BY QueueFields DEF QidInv
  <1>2. /\ r \in QueueRecs /\ r.held = queue_obj[o].held
        /\ r.kind = queue_obj[o].kind /\ r.uctx = queue_obj[o].uctx
    BY <1>1 DEF QueueRecs
  <1>3. queue_obj' = [queue_obj EXCEPT ![o] = r]
    BY DEF QidInv, QidTypeOK
  <1> HIDE DEF r
  <1> QED BY <1>2, <1>3, SameHeld

LEMMA QueueReadyStep ==
  ASSUME QidInv, NEW o \in Objects, QueueReady(o) \/ DestroyQueue(o)
  PROVE  QidInv'
  <1>1. /\ queue_obj[o] # NoObject /\ UNCHANGED <<qid_table, qids, qid_cur, nomem>>
        /\ \E a \in {"ready", "undo"} : queue_obj' = [queue_obj EXCEPT ![o].at = a]
    BY DEF QueueReady, DestroyQueue
  <1> QED BY <1>1, GoesOn

(* It has one identifier more, or one less. *)
HeldChanges(o, held) ==
  /\ queue_obj' \in [Objects -> QueueRecs \cup {NoObject}]
  /\ queue_obj'[o].held = held
  /\ queue_obj'[o].kind = queue_obj[o].kind /\ queue_obj'[o].uctx = queue_obj[o].uctx
  /\ \A n \in Objects \ {o} : queue_obj'[n] = queue_obj[n]

LEMMA HeldChangesFields ==
  ASSUME QidTypeOK, NEW o \in Objects, queue_obj[o] # NoObject, NEW held \in Seq(Nat),
         queue_obj' = [queue_obj EXCEPT ![o].held = held]
  PROVE  HeldChanges(o, held)
  <1> DEFINE r == [queue_obj[o] EXCEPT !.held = held]
  <1>1. queue_obj[o] \in QueueRecs
    BY QueueFields
  <1>2. /\ r \in QueueRecs /\ r.held = held
        /\ r.kind = queue_obj[o].kind /\ r.uctx = queue_obj[o].uctx
    BY <1>1 DEF QueueRecs
  <1>3. queue_obj' = [queue_obj EXCEPT ![o] = r]
    BY DEF QidTypeOK
  <1> HIDE DEF r
  <1> QED BY <1>2, <1>3, ObjectChanges DEF HeldChanges

(* What then changes for the owners: the object's one list, and those of   *)
(* its context.                                                            *)
LEMMA HeldChangesOwners ==
  ASSUME QidTypeOK, NEW o \in Objects, NEW held, HeldChanges(o, held),
         NEW u \in Contexts, queue_obj[o].uctx = u,
         NEW l0, l0 = ListOf(queue_obj[o].kind),
         \A w \in Contexts \ {u} : qids'[w] = qids[w]
  PROVE  Deals(o, u, l0, held)
  BY QueueFields DEF Deals, HeldChanges, Ctx, ContextOf, Had, Has, Owners

-----------------------------------------------------------------------------
(* An identifier comes from its context's list.                            *)

LEMMA TakeFromListStep ==
  ASSUME QidInv, NEW o \in Objects, NEW u \in Contexts, NEW l0 \in Lists, NEW id,
         queue_obj[o] # NoObject, u = queue_obj[o].uctx, l0 = ListOf(queue_obj[o].kind),
         GetFromList(u, l0, id),
         queue_obj' = [queue_obj EXCEPT ![o].held = Append(@, id)]
  PROVE  QidInv'
  <1>1. /\ qids[u][l0] # <<>> /\ id = Head(qids[u][l0])
        /\ qids' = [qids EXCEPT ![u][l0] = Tail(@)]
        /\ UNCHANGED <<qid_table, qid_cur, nomem>>
    BY DEF GetFromList
  <1>2. PICK s \in Seq(Nat) : s = qids[u][l0]
    BY DEF QidInv, QidTypeOK
  <1>3. PICK h \in Seq(Nat) : h = queue_obj[o].held
    BY QueueFields DEF QidInv
  <1>4. /\ u \in Owners /\ o \in Owners /\ u # o
        /\ Had[u][l0] = s /\ Had[o][l0] = h /\ IsInjective(s) /\ IsInjective(h)
        /\ ToSet(s) \cap ToSet(h) = {}
    <2>1. u \in Owners /\ o \in Owners /\ u # o
      BY QueueFields DEF Owners, QidInv
    <2>2. Had[u][l0] = s /\ Had[o][l0] = h
      BY <1>2, <1>3, <2>1, QueueFields DEF Had, Has, QidInv
    <2> QED BY <2>1, <2>2 DEF QidInv, OneOwner
  <1>5. /\ Tail(s) \in Seq(Nat) /\ id \in ToSet(s) /\ id \in Nat
        /\ ToSet(Tail(s)) = ToSet(s) \ {id} /\ IsInjective(Tail(s))
    BY <1>1, <1>2, <1>4, ToSetTail
  <1>6. /\ Append(h, id) \in Seq(Nat) /\ IsInjective(Append(h, id))
        /\ ToSet(Append(h, id)) = ToSet(h) \cup {id}
    BY <1>4, <1>5, ToSetAppend
  <1>7. HeldChanges(o, Append(h, id))
    <2>1. queue_obj' = [queue_obj EXCEPT ![o].held = Append(h, id)]
      BY <1>3
    <2> QED BY <1>6, <2>1, HeldChangesFields DEF QidInv
  <1>8. /\ qids' \in [Contexts -> [Lists -> Seq(Nat)]] /\ qids'[u][l0] = Tail(s)
        /\ \A l \in Lists \ {l0} : qids'[u][l] = qids[u][l]
        /\ \A w \in Contexts \ {u} : qids'[w] = qids[w]
    BY <1>1, <1>2, <1>5 DEF QidInv, QidTypeOK
  <1>9. QidTypeOK'
    BY <1>1, <1>7, <1>8 DEF QidInv, QidTypeOK, HeldChanges
  <1>10. Deals(o, u, l0, Append(h, id))
    BY <1>7, <1>8, HeldChangesOwners DEF QidInv
  <1>11. \A l \in Lists :
           /\ IsInjective(Had'[u][l]) /\ IsInjective(Had'[o][l])
           /\ ToSet(Had'[u][l]) \cap ToSet(Had'[o][l]) = {}
           /\ ToSet(Had'[u][l]) \cup ToSet(Had'[o][l])
                = ToSet(Had[u][l]) \cup ToSet(Had[o][l])
    <2> TAKE l \in Lists
    <2>1. CASE l = l0
      <3>1. /\ Had[u][l] = s /\ Had'[u][l] = Tail(s)
            /\ Had[o][l] = h /\ Had'[o][l] = Append(h, id)
        BY <1>4, <1>8, <1>10, <2>1 DEF Deals
      <3> QED BY <1>4, <1>5, <1>6, <3>1
    <2>2. CASE l # l0
      BY <1>4, <1>8, <1>10, <2>2, ToSetEmpty DEF QidInv, OneOwner, Deals
    <2> QED BY <2>1, <2>2
  <1>12. OneOwner' /\ OnPagesOut' /\ OneContext'
    <2>1. PICK N, T : N = {} /\ T = {}
      OBVIOUS
    <2>2. /\ T \subseteq qid_table /\ qid_table' = qid_table \ T
          /\ \A i \in N : PageOf(i) \in T
      BY <1>1, <2>1
    <2>3. /\ Ctx[o] = u /\ \A w \in Owners : Ctx'[w] = Ctx[w]
          /\ \A l \in Lists : \A w \in Owners \ {u, o} : Had'[w][l] = Had[w][l]
      BY <1>10 DEF Deals
    <2>4. \A l \in Lists :
            /\ IsInjective(Had'[u][l]) /\ IsInjective(Had'[o][l])
            /\ ToSet(Had'[u][l]) \cap ToSet(Had'[o][l]) = {}
            /\ ToSet(Had'[u][l]) \cup ToSet(Had'[o][l])
                 \subseteq ToSet(Had[u][l]) \cup ToSet(Had[o][l]) \cup N
      BY <1>11
    <2>5. DealtAnew(u, o, N, T)
      BY <2>2, <2>3, <2>4 DEF DealtAnew
    <2> QED BY <2>5, Redealt
  <1>13. PagesCounted'
    <2>1. PagesOut' = PagesOut
      BY <1>1 DEF PagesOut
    <2>2. Damaged' \subseteq Damaged
      <3>1. \A w \in Owners \ {u, o} : ToSet(Had'[w]["qp"]) = ToSet(Had[w]["qp"])
        BY <1>10 DEF Lists, Deals
      <3>2. ToSet(Had'[u]["qp"]) \cup ToSet(Had'[o]["qp"])
              = ToSet(Had[u]["qp"]) \cup ToSet(Had[o]["qp"])
        BY <1>11 DEF Lists
      <3> QED BY <1>4, <2>1, <3>1, <3>2 DEF Damaged
    <2>3. Cardinality(Damaged') <= nomem'
      BY <1>1, <2>2, DamageCounted DEF QidInv, QidTypeOK
    <2> QED BY <1>1, <2>1, <2>3 DEF QidInv, PagesCounted
  <1> QED BY <1>9, <1>12, <1>13 DEF QidInv

-----------------------------------------------------------------------------
(* An identifier goes back to the context's list, or is forgotten.         *)

LEMMA ReturnOneStep ==
  ASSUME QidInv, NEW o \in Objects, NEW u \in Contexts, NEW l0 \in Lists,
         queue_obj[o] # NoObject, u = queue_obj[o].uctx, l0 = ListOf(queue_obj[o].kind),
         queue_obj[o].held # <<>>, PutQid(u, l0, Last(queue_obj[o].held)),
         queue_obj' = [queue_obj EXCEPT ![o].held = Front(@)]
  PROVE  QidInv'
  <1>1. PICK h \in Seq(Nat) : h = queue_obj[o].held
    BY QueueFields DEF QidInv
  <1>2. PICK s \in Seq(Nat) : s = qids[u][l0]
    BY DEF QidInv, QidTypeOK
  <1>3. /\ u \in Owners /\ o \in Owners /\ u # o
        /\ Had[u][l0] = s /\ Had[o][l0] = h /\ IsInjective(s) /\ IsInjective(h)
        /\ ToSet(s) \cap ToSet(h) = {} /\ h # <<>>
    <2>1. u \in Owners /\ o \in Owners /\ u # o
      BY QueueFields DEF Owners, QidInv
    <2>2. Had[u][l0] = s /\ Had[o][l0] = h
      BY <1>1, <1>2, <2>1, QueueFields DEF Had, Has, QidInv
    <2> QED BY <1>1, <2>1, <2>2 DEF QidInv, OneOwner
  <1>4. PICK id \in Nat : id = Last(h)
    BY <1>3, ToSetFront
  <1>5. /\ Front(h) \in Seq(Nat) /\ id \in ToSet(h)
        /\ ToSet(Front(h)) = ToSet(h) \ {id} /\ IsInjective(Front(h))
    BY <1>3, <1>4, ToSetFront
  <1>6. PICK t \in Seq(Nat) :
          /\ qids' = [qids EXCEPT ![u][l0] = t] /\ UNCHANGED <<qid_table, qid_cur>>
          /\ \/ t = Append(s, id) /\ nomem' = nomem
             \/ t = s /\ nomem' = nomem + 1
    <2>1. \/ /\ qids' = [qids EXCEPT ![u][l0] = Append(s, id)]
             /\ UNCHANGED <<qid_table, qid_cur, nomem>>
          \/ /\ qids' = qids /\ nomem' = nomem + 1 /\ UNCHANGED <<qid_table, qid_cur>>
      BY <1>1, <1>2, <1>4 DEF PutQid
    <2>2. qids = [qids EXCEPT ![u][l0] = s]
      BY <1>2 DEF QidInv, QidTypeOK
    <2>3. Append(s, id) \in Seq(Nat)
      BY ToSetAppend
    <2> QED BY <2>1, <2>2, <2>3
  <1>7. /\ IsInjective(t) /\ ToSet(s) \subseteq ToSet(t) /\ ToSet(t) \subseteq ToSet(s) \cup {id}
        /\ nomem' = nomem => id \in ToSet(t)
    <2>1. /\ ToSet(Append(s, id)) = ToSet(s) \cup {id} /\ IsInjective(Append(s, id))
      BY <1>3, <1>5, ToSetAppend
    <2>2. nomem \in Nat
      BY DEF QidInv, QidTypeOK
    <2>3. CASE t = Append(s, id)
      BY <1>3, <2>1, <2>3
    <2>4. CASE t = s /\ nomem' = nomem + 1
      <3>1. nomem' # nomem BY <2>2, <2>4
      <3> QED BY <1>3, <2>4, <3>1
    <2> QED BY <1>6, <2>3, <2>4
  <1>8. HeldChanges(o, Front(h))
    <2>1. queue_obj' = [queue_obj EXCEPT ![o].held = Front(h)]
      BY <1>1
    <2> QED BY <1>5, <2>1, HeldChangesFields DEF QidInv
  <1>9. /\ qids' \in [Contexts -> [Lists -> Seq(Nat)]] /\ qids'[u][l0] = t
        /\ \A l \in Lists \ {l0} : qids'[u][l] = qids[u][l]
        /\ \A w \in Contexts \ {u} : qids'[w] = qids[w]
    BY <1>6 DEF QidInv, QidTypeOK
  <1>10. QidTypeOK'
    BY <1>6, <1>8, <1>9 DEF QidInv, QidTypeOK, HeldChanges
  <1>11. Deals(o, u, l0, Front(h))
    BY <1>8, <1>9, HeldChangesOwners DEF QidInv
  <1>12. \A l \in Lists :
           /\ IsInjective(Had'[u][l]) /\ IsInjective(Had'[o][l])
           /\ ToSet(Had'[u][l]) \cap ToSet(Had'[o][l]) = {}
           /\ ToSet(Had'[u][l]) \cup ToSet(Had'[o][l])
                \subseteq ToSet(Had[u][l]) \cup ToSet(Had[o][l])
           /\ ToSet(Had[u][l]) \cup ToSet(Had[o][l])
                \subseteq ToSet(Had'[u][l]) \cup ToSet(Had'[o][l]) \cup {id}
           /\ nomem' = nomem => id \in ToSet(Had'[u][l0])
    <2> TAKE l \in Lists
    <2>1. CASE l = l0
      <3>1. /\ Had[u][l] = s /\ Had'[u][l] = t
            /\ Had[o][l] = h /\ Had'[o][l] = Front(h)
        BY <1>3, <1>9, <1>11, <2>1 DEF Deals
      <3> QED BY <1>3, <1>5, <1>7, <2>1, <3>1
    <2>2. CASE l # l0
      <3>1. Had'[u][l0] = t
        BY <1>9, <1>11 DEF Deals
      <3> QED BY <1>3, <1>7, <1>9, <1>11, <2>2, <3>1, ToSetEmpty DEF QidInv, OneOwner, Deals
    <2> QED BY <2>1, <2>2
  <1>13. OneOwner' /\ OnPagesOut' /\ OneContext'
    <2>1. PICK N, T : N = {} /\ T = {}
      OBVIOUS
    <2>2. /\ T \subseteq qid_table /\ qid_table' = qid_table \ T
          /\ \A i \in N : PageOf(i) \in T
      BY <1>6, <2>1
    <2>3. /\ Ctx[o] = u /\ \A w \in Owners : Ctx'[w] = Ctx[w]
          /\ \A l \in Lists : \A w \in Owners \ {u, o} : Had'[w][l] = Had[w][l]
      BY <1>11 DEF Deals
    <2>4. \A l \in Lists :
            /\ IsInjective(Had'[u][l]) /\ IsInjective(Had'[o][l])
            /\ ToSet(Had'[u][l]) \cap ToSet(Had'[o][l]) = {}
            /\ ToSet(Had'[u][l]) \cup ToSet(Had'[o][l])
                 \subseteq ToSet(Had[u][l]) \cup ToSet(Had[o][l]) \cup N
      BY <1>12
    <2>5. DealtAnew(u, o, N, T)
      BY <2>2, <2>3, <2>4 DEF DealtAnew
    <2> QED BY <2>5, Redealt
  <1>14. PagesCounted'
    <2>1. PagesOut' = PagesOut
      BY <1>6 DEF PagesOut
    <2>2. Damaged' \subseteq Damaged \cup {id}
      <3>1. \A w \in Owners \ {u, o} : ToSet(Had'[w]["qp"]) = ToSet(Had[w]["qp"])
        BY <1>11 DEF Lists, Deals
      <3>2. ToSet(Had[u]["qp"]) \cup ToSet(Had[o]["qp"])
              \subseteq ToSet(Had'[u]["qp"]) \cup ToSet(Had'[o]["qp"]) \cup {id}
        BY <1>12 DEF Lists
      <3> QED BY <1>3, <2>1, <3>1, <3>2 DEF Damaged
    <2>3. nomem' = nomem => Damaged' \subseteq Damaged
      <3> SUFFICES ASSUME nomem' = nomem, id \in Damaged' PROVE id \in Damaged
        BY <2>2
      <3>1. id \in ToSet(t)
        BY <1>7
      <3>2. l0 # "qp"
        BY <1>3, <1>9, <1>11, <3>1, SMTT(20) DEF Damaged, Deals
      <3>3. \A w \in Owners : ToSet(Had'[w]["qp"]) = ToSet(Had[w]["qp"])
        BY <1>3, <1>9, <1>11, <3>2, ZenonT(30) DEF Deals, Lists
      <3> QED BY <2>1, <3>3 DEF Damaged
    <2>4. nomem \in Nat /\ nomem' \in Nat
      BY <1>10 DEF QidInv, QidTypeOK
    <2>5. Cardinality(Damaged') <= nomem'
      <3>1. CASE nomem' = nomem
        <4>1. Damaged' \subseteq Damaged /\ nomem' >= nomem
          BY <2>3, <2>4, <3>1
        <4> QED BY <2>4, <4>1, DamageCounted
      <3>2. CASE nomem' = nomem + 1
        BY <2>2, <2>4, <3>2, DamageCounted
      <3> QED BY <1>6, <3>1, <3>2
    <2> QED BY <1>6, <2>1, <2>5 DEF QidInv, PagesCounted
  <1> QED BY <1>10, <1>13, <1>14 DEF QidInv

LEMMA ReturnQidStep ==
  ASSUME QidInv, NEW o \in Objects, ReturnQid(o)
  PROVE  QidInv'
  <1>1. /\ queue_obj[o] # NoObject /\ queue_obj[o].uctx \in Contexts
        /\ ListOf(queue_obj[o].kind) \in Lists
    BY QueueFields DEF ReturnQid, QidInv
  <1>2. CASE queue_obj[o].held # <<>>
    <2>1. PICK u \in Contexts, l0 \in Lists :
            u = queue_obj[o].uctx /\ l0 = ListOf(queue_obj[o].kind)
      BY <1>1
    <2>2. /\ PutQid(u, l0, Last(queue_obj[o].held))
          /\ queue_obj' = [queue_obj EXCEPT ![o].held = Front(@)]
      BY <1>2, <2>1 DEF ReturnQid
    <2> QED BY <1>1, <1>2, <2>1, <2>2, ReturnOneStep
  <1>3. CASE queue_obj[o].held = <<>>
    <2>1. PICK r \in QueueRecs \cup {NoObject} : r = NoObject
      OBVIOUS
    <2>2. /\ queue_obj' = [queue_obj EXCEPT ![o] = r] /\ r.held = <<>>
          /\ UNCHANGED <<qid_table, qids, qid_cur, nomem>>
      BY <1>3, <2>1 DEF ReturnQid, NoObject
    <2> QED BY <1>3, <2>2, SameHeld
  <1> QED BY <1>2, <1>3

-----------------------------------------------------------------------------
(* A new page is entered on the lists.                                     *)

LEMMA ConcatFacts ==
  ASSUME NEW S, NEW s \in Seq(S), NEW f \in Seq(S), NEW m \in Nat, m = Len(f),
         \A i, j \in 1 .. m : f[i] = f[j] => i = j
  PROVE  /\ s \o f \in Seq(S)
         /\ ToSet(s \o f) = ToSet(s) \cup {f[i] : i \in 1 .. m}
         /\ IsInjective(s) /\ (\A i \in 1 .. m : f[i] \notin ToSet(s)) => IsInjective(s \o f)
  <1>1. f \in Seq(S) /\ Len(f) = m
    OBVIOUS
  <1>2. PICK k \in Nat : k = Len(s)
    BY LenProperties
  <1>3. /\ s \o f \in Seq(S) /\ Len(s \o f) = k + m
        /\ \A i \in 1 .. k + m : (s \o f)[i] = IF i <= k THEN s[i] ELSE f[i - k]
    <2>1. /\ s \o f \in Seq(S) /\ Len(s \o f) = Len(s) + Len(f)
          /\ \A i \in 1 .. Len(s) + Len(f) :
               (s \o f)[i] = IF i <= Len(s) THEN s[i] ELSE f[i - Len(s)]
      BY <1>1, ConcatProperties
    <2>2. Len(s \o f) = k + m
      BY <1>1, <1>2, <2>1
    <2>3. ASSUME NEW i \in 1 .. k + m
          PROVE  (s \o f)[i] = IF i <= k THEN s[i] ELSE f[i - k]
      <3>1. i \in 1 .. Len(s) + Len(f)
        BY <1>1, <1>2
      <3>2. (s \o f)[i] = IF i <= Len(s) THEN s[i] ELSE f[i - Len(s)]
        BY <2>1, <3>1
      <3> QED BY <1>2, <3>2
    <2> QED BY <2>1, <2>2, <2>3
  <1>4. DOMAIN (s \o f) = 1 .. k + m /\ DOMAIN s = 1 .. k
    BY <1>2, <1>3, LenProperties
  <1> DEFINE t == s \o f
  <1>5. /\ \A i \in 1 .. k : i \in 1 .. k + m /\ t[i] = s[i]
        /\ \A i \in 1 .. m : i + k \in 1 .. k + m /\ t[i + k] = f[i]
        /\ \A i \in (1 .. k + m) \ (1 .. k) : i - k \in 1 .. m /\ t[i] = f[i - k]
    <2>1. \A i \in 1 .. m : i + k \in 1 .. k + m /\ ~(i + k <= k) /\ (i + k) - k = i
      OBVIOUS
    <2>2. \A i \in 1 .. m : t[i + k] = f[i]
      BY <1>3, <2>1
    <2>3. \A i \in (1 .. k + m) \ (1 .. k) : i - k \in 1 .. m /\ ~(i <= k)
      OBVIOUS
    <2>4. \A i \in (1 .. k + m) \ (1 .. k) : t[i] = f[i - k]
      BY <1>3, <2>3
    <2>5. \A i \in 1 .. k : i \in 1 .. k + m /\ i <= k
      OBVIOUS
    <2>6. \A i \in 1 .. k : t[i] = s[i]
      BY <1>3, <2>5
    <2> QED BY <2>1, <2>2, <2>3, <2>4, <2>5, <2>6
  <1> HIDE DEF t
  <1>6. ToSet(t) = ToSet(s) \cup {f[i] : i \in 1 .. m}
    <2>1. ASSUME NEW x \in ToSet(t) PROVE x \in ToSet(s) \cup {f[i] : i \in 1 .. m}
      <3>1. PICK i \in 1 .. k + m : x = t[i]
        BY <1>4 DEF ToSet, t
      <3>2. CASE i \in 1 .. k
        BY <1>4, <1>5, <3>1, <3>2 DEF ToSet
      <3>3. CASE i \notin 1 .. k
        BY <1>5, <3>1, <3>3
      <3> QED BY <3>2, <3>3
    <2>2. ASSUME NEW x \in ToSet(s) PROVE x \in ToSet(t)
      BY <1>4, <1>5 DEF ToSet, t
    <2>3. ASSUME NEW x \in {f[i] : i \in 1 .. m} PROVE x \in ToSet(t)
      <3>1. PICK i \in 1 .. m : x = f[i]
        OBVIOUS
      <3>2. i + k \in 1 .. k + m /\ t[i + k] = x
        BY <1>5, <3>1
      <3> QED BY <1>4, <3>2 DEF ToSet, t
    <2> QED BY <2>1, <2>2, <2>3
  <1>7. ASSUME IsInjective(s), \A i \in 1 .. m : f[i] \notin ToSet(s)
        PROVE  IsInjective(t)
    <2>1. \A i, j \in 1 .. k : s[i] = s[j] => i = j
      BY <1>4, <1>7 DEF IsInjective
    <2>2. \A i \in 1 .. k : s[i] \in ToSet(s)
      BY <1>4 DEF ToSet
    <2>3. \A i, j \in 1 .. k + m : t[i] = t[j] => i = j
      <3> SUFFICES ASSUME NEW i \in 1 .. k + m, NEW j \in 1 .. k + m, t[i] = t[j]
                   PROVE  i = j
        OBVIOUS
      <3>1. CASE i \in 1 .. k /\ j \in 1 .. k
        BY <1>5, <2>1, <3>1
      <3>2. CASE i \notin 1 .. k /\ j \notin 1 .. k
        <4>1. i - k = j - k
          BY <1>5, <3>2
        <4> QED BY <4>1
      <3>3. CASE i \in 1 .. k /\ j \notin 1 .. k
        <4>1. t[j] = f[j - k] /\ j - k \in 1 .. m /\ t[i] = s[i] /\ s[i] \in ToSet(s)
          BY <1>5, <2>2, <3>3
        <4> QED BY <1>7, <4>1
      <3>4. CASE i \notin 1 .. k /\ j \in 1 .. k
        <4>1. t[i] = f[i - k] /\ i - k \in 1 .. m /\ t[j] = s[j] /\ s[j] \in ToSet(s)
          BY <1>5, <2>2, <3>4
        <4> QED BY <1>7, <4>1
      <3> QED BY <3>1, <3>2, <3>3, <3>4
    <2> QED BY <1>4, <2>3 DEF IsInjective, t
  <1> QED BY <1>3, <1>6, <1>7 DEF t

IdsOfPage(p) == {p + i : i \in 0 .. Density - 1}

\* What a new page adds to the lists: to the one that asked, and to the other.
PageEntered(new, lists, l, k, p, n) ==
  /\ new \in [Lists -> Seq(Nat)]
  /\ IsInjective(new[l]) /\ ToSet(new[l]) \subseteq IdsOfPage(p) \ {p}
  /\ ToSet(lists[k]) \subseteq ToSet(new[k])
  /\ ToSet(new[k]) \subseteq ToSet(lists[k]) \cup IdsOfPage(p)
  /\ IsInjective(lists[k]) /\ ToSet(lists[k]) \cap IdsOfPage(p) = {} => IsInjective(new[k])
  /\ n = 2 * Density - 1 => p \in ToSet(new[k])

LEMMA EnteredFacts ==
  ASSUME NEW lists \in [Lists -> Seq(Nat)], NEW l \in Lists, lists[l] = <<>>,
         NEW k \in Lists, k # l, NEW p \in QidPages, NEW n \in 0 .. 2 * Density - 1
  PROVE  PageEntered(Entered(lists, l, p, n), lists, l, k, p, n)
  <1>1. Density \in Nat \ {0} /\ p \in Nat
    BY PageFacts, QueueIdsAssumption
  <1>2. PICK d \in Nat \ {0} : d = Density
    BY <1>1
  <1>3. PICK own \in 0 .. d - 1, m \in 0 .. d :
          /\ own = IF n < Density THEN n ELSE Density - 1
          /\ m = n - own /\ (n = 2 * Density - 1 => m = d)
    BY <1>2
  <1> DEFINE f == [i \in 1 .. own |-> p + i]
             g == [i \in 1 .. m |-> p + i - 1]
  <1>4. /\ f \in Seq(Nat) /\ Len(f) = own /\ \A i, j \in 1 .. own : f[i] = f[j] => i = j
        /\ g \in Seq(Nat) /\ Len(g) = m /\ \A i, j \in 1 .. m : g[i] = g[j] => i = j
    <2>1. f \in [1 .. own -> Nat] /\ g \in [1 .. m -> Nat]
      BY <1>1
    <2>2. f \in Seq(Nat) /\ Len(f) = own /\ g \in Seq(Nat) /\ Len(g) = m
      BY <2>1
    <2> QED BY <1>1, <2>2
  <1>5. /\ \A i \in 1 .. own : f[i] \in IdsOfPage(p) \ {p}
        /\ \A i \in 1 .. m : g[i] \in IdsOfPage(p)
        /\ m = d => 1 \in 1 .. m /\ g[1] = p
    <2>1. \A i \in 1 .. own : i \in 0 .. Density - 1 /\ p + i # p
      BY <1>1, <1>2
    <2>2. \A i \in 1 .. m : i - 1 \in 0 .. Density - 1 /\ p + i - 1 = p + (i - 1)
      BY <1>1, <1>2
    <2>3. \A i \in 1 .. own : f[i] \in IdsOfPage(p) \ {p}
      BY <2>1 DEF IdsOfPage
    <2>4. \A i \in 1 .. m : g[i] \in IdsOfPage(p)
      BY <2>2 DEF IdsOfPage
    <2>5. m = d => 1 \in 1 .. m /\ g[1] = p
      BY <1>1
    <2> QED BY <2>3, <2>4, <2>5
  <1>6. Entered(lists, l, p, n) = [lists EXCEPT ![l] = @ \o f, ![OtherList(l)] = @ \o g]
    BY <1>3 DEF Entered
  <1> HIDE DEF f, g
  <1>7. OtherList(l) = k
    BY DEF OtherList, Lists
  <1>8. /\ lists[l] \o f \in Seq(Nat)
        /\ ToSet(lists[l] \o f) = ToSet(lists[l]) \cup {f[i] : i \in 1 .. own}
        /\ IsInjective(lists[l]) /\ (\A i \in 1 .. own : f[i] \notin ToSet(lists[l]))
             => IsInjective(lists[l] \o f)
    <2>1. own \in Nat /\ lists[l] \in Seq(Nat) /\ f \in Seq(Nat) /\ own = Len(f)
      BY <1>4
    <2> QED BY <1>4, <2>1, ConcatFacts
  <1>9. /\ lists[k] \o g \in Seq(Nat)
        /\ ToSet(lists[k] \o g) = ToSet(lists[k]) \cup {g[i] : i \in 1 .. m}
        /\ IsInjective(lists[k]) /\ (\A i \in 1 .. m : g[i] \notin ToSet(lists[k]))
             => IsInjective(lists[k] \o g)
    <2>1. m \in Nat /\ lists[k] \in Seq(Nat) /\ g \in Seq(Nat) /\ m = Len(g)
      BY <1>4
    <2> QED BY <1>4, <2>1, ConcatFacts
  <1>10. /\ Entered(lists, l, p, n) \in [Lists -> Seq(Nat)]
         /\ Entered(lists, l, p, n)[l] = lists[l] \o f
         /\ Entered(lists, l, p, n)[k] = lists[k] \o g
    <2>1. PICK a, b \in Seq(Nat) : a = lists[l] \o f /\ b = lists[k] \o g
      BY <1>8, <1>9
    <2>2. Entered(lists, l, p, n) = [lists EXCEPT ![l] = a, ![k] = b]
      BY <1>6, <1>7, <2>1
    <2> QED BY <2>1, <2>2
  <1>11. /\ IsInjective(lists[l] \o f) /\ ToSet(lists[l] \o f) \subseteq IdsOfPage(p) \ {p}
    BY <1>5, <1>8, ToSetEmpty
  <1>12. /\ ToSet(lists[k]) \subseteq ToSet(lists[k] \o g)
         /\ ToSet(lists[k] \o g) \subseteq ToSet(lists[k]) \cup IdsOfPage(p)
         /\ IsInjective(lists[k]) /\ ToSet(lists[k]) \cap IdsOfPage(p) = {}
              => IsInjective(lists[k] \o g)
         /\ n = 2 * Density - 1 => p \in ToSet(lists[k] \o g)
    <2>1. \A i \in 1 .. m : g[i] \in IdsOfPage(p)
      BY <1>5
    <2>2. {g[i] : i \in 1 .. m} \subseteq IdsOfPage(p)
      BY <2>1
    <2>3. n = 2 * Density - 1 => p \in {g[i] : i \in 1 .. m}
      BY <1>3, <1>5
    <2>4. IsInjective(lists[k]) /\ ToSet(lists[k]) \cap IdsOfPage(p) = {}
            => IsInjective(lists[k] \o g)
      BY <1>9, <2>1
    <2> QED BY <1>9, <2>2, <2>3, <2>4
  <1> QED BY <1>10, <1>11, <1>12 DEF PageEntered

LEMMA TakeNewPageStep ==
  ASSUME QidInv, NEW o \in Objects, NEW u \in Contexts, NEW l0 \in Lists, NEW p,
         queue_obj[o] # NoObject, u = queue_obj[o].uctx, l0 = ListOf(queue_obj[o].kind),
         GetNewPage(u, l0, p),
         queue_obj' = [queue_obj EXCEPT ![o].held = Append(@, p)]
  PROVE  QidInv'
  <1>1. /\ qids[u][l0] = <<>> /\ p \in qid_table /\ p \in QidPages /\ p \in Nat
        /\ qid_table' = qid_table \ {p} /\ qid_cur' = qid_cur + Density
    BY PageFacts DEF GetNewPage, QidInv, QidTypeOK
  <1>2. PICK n \in 0 .. 2 * Density - 1 :
          /\ qids' = [qids EXCEPT ![u] = Entered(@, l0, p, n)]
          /\ IF n = 2 * Density - 1 THEN UNCHANGED nomem ELSE nomem' = nomem + 1
    BY DEF GetNewPage
  <1>3. PICK lists \in [Lists -> Seq(Nat)] : lists = qids[u]
    BY DEF QidInv, QidTypeOK
  <1>4. PICK k \in Lists : k # l0 /\ \A l \in Lists : l = l0 \/ l = k
    BY DEF Lists
  <1>5. PICK h \in Seq(Nat) : h = queue_obj[o].held
    BY QueueFields DEF QidInv
  <1>6. PICK new : new = Entered(lists, l0, p, n)
    OBVIOUS
  <1>7. PageEntered(new, lists, l0, k, p, n)
    <2>1. lists[l0] = <<>>
      BY <1>1, <1>3
    <2> QED BY <1>1, <1>4, <1>6, <2>1, EnteredFacts
  <1>8. /\ \A id \in IdsOfPage(p) : PageOf(id) = p
        /\ p \in IdsOfPage(p)
    <2>1. 0 \in 0 .. Density - 1 /\ p + 0 = p
      BY <1>1, QueueIdsAssumption
    <2> QED BY <1>1, <2>1, PageFacts, ZenonT(30) DEF IdsOfPage
  \* Nobody has an identifier of the page.
  <1>9. \A l \in Lists : \A w \in Owners : ToSet(Had[w][l]) \cap IdsOfPage(p) = {}
    BY <1>1, <1>8 DEF QidInv, OnPagesOut, PagesOut
  <1>10. /\ u \in Owners /\ o \in Owners /\ u # o
         /\ Had[o][l0] = h /\ \A l \in Lists : Had[u][l] = lists[l]
    <2>1. u \in Owners /\ o \in Owners /\ u # o
      BY QueueFields DEF Owners, QidInv
    <2> QED BY <1>3, <1>5, <2>1, QueueFields DEF Had, Has, QidInv
  <1>11. /\ IsInjective(lists[k]) /\ ToSet(lists[k]) \cap IdsOfPage(p) = {}
         /\ IsInjective(h) /\ ToSet(h) \cap IdsOfPage(p) = {}
    <2>1. \A l \in Lists : \A w \in Owners : IsInjective(Had[w][l])
      BY DEF QidInv, OneOwner
    <2> QED BY <1>9, <1>10, <2>1
  <1>12. /\ Append(h, p) \in Seq(Nat) /\ IsInjective(Append(h, p))
         /\ ToSet(Append(h, p)) = ToSet(h) \cup {p}
    BY <1>1, <1>8, <1>11, ToSetAppend
  <1>13. HeldChanges(o, Append(h, p))
    <2>1. queue_obj' = [queue_obj EXCEPT ![o].held = Append(h, p)]
      BY <1>5
    <2> QED BY <1>12, <2>1, HeldChangesFields DEF QidInv
  <1>14. /\ qids' \in [Contexts -> [Lists -> Seq(Nat)]] /\ qids'[u] = new
         /\ \A w \in Contexts \ {u} : qids'[w] = qids[w]
    BY <1>2, <1>3, <1>6, <1>7 DEF QidInv, QidTypeOK, PageEntered
  <1>15. QidTypeOK' /\ nomem \in Nat /\ nomem' \in Nat
    <2>1. Density \in Nat /\ nomem \in Nat /\ qid_cur \in Int /\ qid_table \subseteq QidPages
      BY QueueIdsAssumption DEF QidInv, QidTypeOK
    <2>2. qid_cur' \in Int /\ qid_table' \subseteq QidPages
      BY <1>1, <2>1
    <2>3. nomem' \in Nat
      BY <1>2, <2>1
    <2> QED BY <1>13, <1>14, <2>1, <2>2, <2>3 DEF QidTypeOK, HeldChanges
  <1>16. Deals(o, u, l0, Append(h, p))
    BY <1>13, <1>14, HeldChangesOwners DEF QidInv
  <1>17. /\ Had'[u][l0] = new[l0] /\ Had'[u][k] = new[k]
         /\ Had'[o][l0] = Append(h, p) /\ Had'[o][k] = <<>> /\ Had[o][k] = <<>>
         /\ Had[u][l0] = <<>> /\ Had[u][k] = lists[k]
    BY <1>1, <1>3, <1>4, <1>10, <1>14, <1>16 DEF Deals
  <1>18. OneOwner' /\ OnPagesOut' /\ OneContext'
    <2>1. PICK N, T : N = IdsOfPage(p) /\ T = {p}
      OBVIOUS
    <2>2. /\ T \subseteq qid_table /\ qid_table' = qid_table \ T
          /\ \A i \in N : PageOf(i) \in T
      BY <1>1, <1>8, <2>1
    <2>3. /\ Ctx[o] = u /\ \A w \in Owners : Ctx'[w] = Ctx[w]
          /\ \A l \in Lists : \A w \in Owners \ {u, o} : Had'[w][l] = Had[w][l]
      BY <1>16 DEF Deals
    <2>4. \A l \in Lists :
            /\ IsInjective(Had'[u][l]) /\ IsInjective(Had'[o][l])
            /\ ToSet(Had'[u][l]) \cap ToSet(Had'[o][l]) = {}
            /\ ToSet(Had'[u][l]) \cup ToSet(Had'[o][l])
                 \subseteq ToSet(Had[u][l]) \cup ToSet(Had[o][l]) \cup N
      <3> TAKE l \in Lists
      <3>1. CASE l = l0
        <4>1. IsInjective(new[l0]) /\ IsInjective(Append(h, p))
          BY <1>7, <1>12 DEF PageEntered
        <4>2. ToSet(new[l0]) \cap ToSet(Append(h, p)) = {}
          BY <1>7, <1>11, <1>12 DEF PageEntered
        <4>3. ToSet(new[l0]) \cup ToSet(Append(h, p)) \subseteq ToSet(h) \cup N
          BY <1>7, <1>8, <1>12, <2>1 DEF PageEntered
        <4> QED BY <1>10, <1>17, <3>1, <4>1, <4>2, <4>3
      <3>2. CASE l = k
        BY <1>7, <1>11, <1>17, <2>1, <3>2, ToSetEmpty DEF PageEntered
      <3> QED BY <1>4, <3>1, <3>2
    <2>5. DealtAnew(u, o, N, T)
      BY <2>2, <2>3, <2>4 DEF DealtAnew
    <2> QED BY <2>5, Redealt
  <1>19. PagesCounted'
    <2>1. PagesOut' = PagesOut \cup {p} /\ p \notin PagesOut
      BY <1>1 DEF PagesOut, QidInv, QidTypeOK
    <2>2. PICK c \in Nat : c = Cardinality(PagesOut)
      BY PagesOutFinite DEF QidInv, QidTypeOK
    <2>3. Cardinality(PagesOut') = c + 1
      BY <2>1, <2>2, PagesOutFinite, FS_AddElement DEF QidInv, QidTypeOK
    <2>4. qid_cur' = Density * (c + 1)
      <3>1. PICK d \in Nat : d = Density
        BY QueueIdsAssumption
      <3>2. qid_cur' = d * c + d
        BY <1>1, <2>2, <3>1 DEF QidInv, PagesCounted
      <3>3. d * c + d = d * (c + 1)
        OBVIOUS
      <3> QED BY <3>1, <3>2, <3>3
    <2>5. Damaged' \subseteq Damaged \cup {p}
      <3>1. \A w \in Owners \ {u, o} : ToSet(Had'[w]["qp"]) = ToSet(Had[w]["qp"])
        BY <1>16 DEF Lists, Deals
      <3>2. ToSet(Had[u]["qp"]) \cup ToSet(Had[o]["qp"])
              \subseteq ToSet(Had'[u]["qp"]) \cup ToSet(Had'[o]["qp"])
        <4>1. \A l \in Lists : ToSet(Had[u][l]) \cup ToSet(Had[o][l])
                \subseteq ToSet(Had'[u][l]) \cup ToSet(Had'[o][l])
          <5> TAKE l \in Lists
          <5>1. CASE l = l0
            BY <1>10, <1>12, <1>17, <5>1, ToSetEmpty
          <5>2. CASE l = k
            BY <1>7, <1>17, <5>2 DEF PageEntered
          <5> QED BY <1>4, <5>1, <5>2
        <4> QED BY <4>1 DEF Lists
      <3> QED BY <1>10, <2>1, <3>1, <3>2 DEF Damaged
    <2>6. n = 2 * Density - 1 => Damaged' \subseteq Damaged
      <3> SUFFICES ASSUME n = 2 * Density - 1 PROVE p \notin Damaged'
        BY <2>5
      <3>1. p \in ToSet(Had'[o][l0]) /\ p \in ToSet(Had'[u][k])
        BY <1>7, <1>12, <1>17 DEF PageEntered
      <3>2. l0 = "qp" \/ k = "qp"
        BY <1>4 DEF Lists
      <3> QED BY <1>10, <3>1, <3>2 DEF Damaged
    <2>7. Cardinality(Damaged') <= nomem'
      <3>1. CASE n = 2 * Density - 1
        <4>1. Damaged' \subseteq Damaged /\ nomem' >= nomem
          BY <1>2, <1>15, <2>6, <3>1
        <4> QED BY <1>15, <4>1, DamageCounted
      <3>2. CASE n # 2 * Density - 1
        <4>1. nomem' = nomem + 1
          BY <1>2, <3>2
        <4> QED BY <1>15, <2>5, <4>1, DamageCounted
      <3> QED BY <3>1, <3>2
    <2> QED BY <2>3, <2>4, <2>7 DEF PagesCounted
  <1> QED BY <1>15, <1>18, <1>19 DEF QidInv

LEMMA TakeQidStep ==
  ASSUME QidInv, NEW o \in Objects, TakeQid(o)
  PROVE  QidInv'
  <1>1. /\ queue_obj[o] # NoObject /\ queue_obj[o].uctx \in Contexts
        /\ ListOf(queue_obj[o].kind) \in Lists
    BY QueueFields DEF TakeQid, QidInv
  <1>2. PICK u \in Contexts, l0 \in Lists :
          u = queue_obj[o].uctx /\ l0 = ListOf(queue_obj[o].kind)
    BY <1>1
  <1>3. ASSUME NEW id, GetQid(u, l0, id),
               queue_obj' = [queue_obj EXCEPT ![o].held = Append(@, id)]
        PROVE  QidInv'
    BY <1>1, <1>2, <1>3, TakeFromListStep, TakeNewPageStep DEF GetQid
  <1>4. ASSUME queue_obj' = [queue_obj EXCEPT ![o].at = "undo"],
               UNCHANGED <<qid_table, qids, qid_cur, nomem>>
        PROVE  QidInv'
    BY <1>1, <1>4, GoesOn
  <1> QED BY <1>2, <1>3, <1>4 DEF TakeQid

-----------------------------------------------------------------------------
(* A process is gone: its pages go back, for their first identifiers.      *)

LEMMA ReleaseContextStep ==
  ASSUME QidInv, NEW u \in Contexts, ReleaseContext(u)
  PROVE  QidInv'
  <1>1. PICK s \in Seq(Nat) : s = qids[u]["qp"]
    BY DEF QidInv, QidTypeOK, Lists
  <1>2. PICK firsts : firsts = {i \in DOMAIN s : s[i] % Density = 0}
    OBVIOUS
  <1>3. PICK R : R = {s[i] : i \in firsts}
    OBVIOUS
  <1>4. /\ \A o \in Objects : queue_obj[o] # NoObject => queue_obj[o].uctx # u
        /\ qid_table' = qid_table \cup R
        /\ qid_cur' = qid_cur - Cardinality(firsts) * Density
        /\ qids' = [qids EXCEPT ![u] = [l \in Lists |-> <<>>]]
        /\ UNCHANGED <<queue_obj, nomem>>
    BY <1>1, <1>2, <1>3 DEF ReleaseContext
  <1>5. /\ u \in Owners /\ Ctx[u] = u /\ Had[u]["qp"] = s /\ IsInjective(s)
    BY <1>1 DEF Owners, Ctx, ContextOf, Had, Has, QidInv, OneOwner, Lists
  <1>6. /\ DOMAIN s = 1 .. Len(s) /\ Len(s) \in Nat /\ \A i \in DOMAIN s : s[i] \in Nat
    BY LenProperties, ElementOfSeq
  <1>7. \A id : id \in R <=> id \in ToSet(s) /\ id % Density = 0
    BY <1>2, <1>3 DEF ToSet
  <1>8. \A id \in ToSet(s) : id \in Nat /\ PageOf(id) \in PagesOut
    BY <1>5, <1>6 DEF QidInv, OnPagesOut, Lists, ToSet
  <1>9. \A id \in R : PageOf(id) = id /\ id \in PagesOut
    BY <1>7, <1>8, PageFacts
  <1>10. /\ PagesOut' = PagesOut \ R /\ R \subseteq PagesOut
    BY <1>4, <1>9 DEF PagesOut
  <1>11. Cardinality(firsts) \in Nat /\ IsFiniteSet(R) /\ Cardinality(R) = Cardinality(firsts)
    <2>1. IsFiniteSet(firsts)
      <3>1. firsts \in SUBSET (1 .. Len(s)) /\ IsFiniteSet(1 .. Len(s))
        BY <1>2, <1>6, FS_Interval
      <3> QED BY <3>1, FS_Subset
    <2> DEFINE f == [i \in firsts |-> s[i]]
    <2>2. f \in Surjection(firsts, R)
      BY <1>3 DEF Surjection
    <2>3. f \in Injection(firsts, R)
      <3>1. \A i, j \in firsts : f[i] = f[j] => i = j
        BY <1>2, <1>5 DEF IsInjective
      <3>2. f \in [firsts -> R]
        BY <1>3
      <3> QED BY <3>1, <3>2 DEF Injection, IsInjective
    <2> HIDE DEF f
    <2> QED BY <2>1, <2>2, <2>3, FS_Surjection, FS_CardinalityType
  <1>12. /\ qids' \in [Contexts -> [Lists -> Seq(Nat)]]
         /\ \A l \in Lists : qids'[u][l] = <<>>
         /\ \A w \in Contexts \ {u} : qids'[w] = qids[w]
    BY <1>4, EmptySeq DEF QidInv, QidTypeOK
  <1>13. QidTypeOK'
    <2>1. R \subseteq QidPages
      BY <1>10 DEF PagesOut
    <2>2. qid_cur' \in Int
      <3>1. PICK c \in Nat, d \in Nat : c = Cardinality(firsts) /\ d = Density
        BY <1>11, QueueIdsAssumption
      <3> QED BY <1>4, <3>1 DEF QidInv, QidTypeOK
    <2> QED BY <1>4, <1>12, <2>1, <2>2 DEF QidInv, QidTypeOK
  <1>14. /\ \A l \in Lists : Had'[u][l] = <<>>
         /\ \A l \in Lists : \A w \in Owners \ {u} : Had'[w][l] = Had[w][l]
         /\ \A w \in Owners : Ctx'[w] = Ctx[w]
    BY <1>4, <1>5, <1>12 DEF Had, Has, Ctx, ContextOf, Owners
  <1>15. /\ \A l \in Lists : \A w \in Owners \ {u} : ToSet(Had'[w][l]) = ToSet(Had[w][l])
         /\ \A l \in Lists : ToSet(Had'[u][l]) = {} /\ IsInjective(Had'[u][l])
    BY <1>14, ToSetEmpty
  <1>16. OneOwner'
    <2> SUFFICES ASSUME NEW l \in Lists, NEW v \in Owners, NEW w \in Owners
                 PROVE  /\ IsInjective(Had'[w][l])
                        /\ v # w => ToSet(Had'[v][l]) \cap ToSet(Had'[w][l]) = {}
      BY DEF OneOwner
    <2>1. v # w => ToSet(Had[v][l]) \cap ToSet(Had[w][l]) = {}
      BY DEF QidInv, OneOwner
    <2>2. IsInjective(Had'[w][l])
      BY <1>14, <1>15 DEF QidInv, OneOwner
    <2>3. CASE v = u \/ w = u
      BY <1>15, <2>2, <2>3
    <2>4. CASE v # u /\ w # u
      BY <1>15, <2>1, <2>2, <2>4
    <2> QED BY <2>3, <2>4
  <1>17. OnPagesOut'
    <2> SUFFICES ASSUME NEW l \in Lists, NEW w \in Owners, NEW id \in ToSet(Had'[w][l])
                 PROVE  PageOf(id) \in PagesOut'
      BY DEF OnPagesOut, PageOf
    <2>1. w # u /\ id \in ToSet(Had[w][l]) /\ PageOf(id) \in PagesOut
      BY <1>15 DEF QidInv, OnPagesOut
    <2>2. PageOf(id) \notin R
      <3> SUFFICES ASSUME PageOf(id) \in R PROVE FALSE
        OBVIOUS
      <3>1. PageOf(id) \in ToSet(Had[u]["qp"]) /\ PageOf(PageOf(id)) = PageOf(id)
        BY <1>5, <1>7, <1>9
      <3>2. Ctx[w] = u
        BY <1>5, <2>1, <3>1 DEF QidInv, OneContext, Lists
      <3>3. w \in Objects /\ queue_obj[w].uctx = u /\ w \notin Contexts
        BY <2>1, <3>2, QueueFields DEF Ctx, ContextOf, Owners, QidInv
      <3>4. queue_obj[w] = NoObject
        BY <1>4, <3>3
      <3>5. Had[w][l] = <<>>
        BY <3>3, <3>4 DEF Had, Has, NoObject, Owners
      <3> QED BY <2>1, <3>5, ToSetEmpty
    <2> QED BY <1>10, <2>1, <2>2
  <1>18. OneContext'
    <2> SUFFICES ASSUME NEW k \in Lists, NEW l \in Lists, NEW v \in Owners,
                        NEW w \in Owners, NEW a \in ToSet(Had'[v][k]),
                        NEW b \in ToSet(Had'[w][l]), PageOf(a) = PageOf(b)
                 PROVE  Ctx'[v] = Ctx'[w]
      BY DEF OneContext, PageOf
    <2>1. a \in ToSet(Had[v][k]) /\ b \in ToSet(Had[w][l])
      BY <1>15
    <2> QED BY <1>14, <2>1 DEF QidInv, OneContext
  <1>19. PagesCounted'
    <2>1. IsFiniteSet(PagesOut) /\ PagesOut \cap R = R
      BY <1>10, PagesOutFinite DEF QidInv, QidTypeOK
    <2>2. Cardinality(PagesOut') = Cardinality(PagesOut) - Cardinality(R)
      <3>1. Cardinality(PagesOut \ R) = Cardinality(PagesOut) - Cardinality(PagesOut \cap R)
        BY <2>1, FS_Difference
      <3> QED BY <1>10, <2>1, <3>1
    <2>3. qid_cur' = Density * Cardinality(PagesOut')
      <3>1. PICK a \in Nat, c \in Nat, d \in Nat :
              a = Cardinality(PagesOut) /\ c = Cardinality(firsts) /\ d = Density
        BY <1>11, PagesOutFinite, QueueIdsAssumption DEF QidInv, QidTypeOK
      <3>2. qid_cur' = d * a - c * d
        BY <1>4, <3>1 DEF QidInv, PagesCounted
      <3>3. Cardinality(PagesOut') = a - c
        BY <1>11, <2>2, <3>1
      <3>4. d * a - c * d = d * (a - c)
        OBVIOUS
      <3> QED BY <3>1, <3>2, <3>3, <3>4
    <2>4. Damaged' \subseteq Damaged
      <3> SUFFICES ASSUME NEW p \in Damaged' PROVE p \in Damaged
        OBVIOUS
      <3>1. p \in PagesOut /\ p \notin R /\ p \in QidPages
        BY <1>10 DEF Damaged, PagesOut
      <3>2. p \notin ToSet(Had[u]["qp"])
        BY <1>5, <1>7, <3>1, PageFacts
      <3>3. \A w \in Owners \ {u} : p \notin ToSet(Had[w]["qp"])
        BY <1>15 DEF Damaged, Lists
      <3> QED BY <3>1, <3>2, <3>3 DEF Damaged
    <2>5. nomem' \in Nat /\ nomem' >= nomem
      BY <1>4 DEF QidInv, QidTypeOK
    <2>6. Cardinality(Damaged') <= nomem'
      BY <2>4, <2>5, DamageCounted
    <2> QED BY <2>3, <2>6 DEF PagesCounted
  <1> QED BY <1>13, <1>16, <1>17, <1>18, <1>19 DEF QidInv

-----------------------------------------------------------------------------
LEMMA QidInvInit == QidInit => QidInv
  <1> SUFFICES ASSUME QidInit PROVE QidInv OBVIOUS
  <1>1. QidTypeOK
    BY EmptySeq DEF QidInit, QidTypeOK
  <1>2. \A l \in Lists : \A w \in Owners : Had[w][l] = <<>>
    BY DEF QidInit, Had, Has, Owners, NoObject
  <1>3. PagesOut = {} /\ Damaged = {}
    BY DEF QidInit, PagesOut, Damaged
  <1>4. OneOwner /\ OnPagesOut /\ OneContext
    BY <1>2, ToSetEmpty DEF OneOwner, OnPagesOut, OneContext
  <1>5. PagesCounted
    <2>1. Density * 0 = 0
      BY QueueIdsAssumption
    <2> QED BY <1>3, <2>1, FS_EmptySet DEF PagesCounted, QidInit
  <1> QED BY <1>1, <1>4, <1>5 DEF QidInv

LEMMA QidInvStep == QidInv /\ [QidNext]_qidVars => QidInv'
  <1> SUFFICES ASSUME QidInv, [QidNext]_qidVars PROVE QidInv' OBVIOUS
  <1>1. CASE UNCHANGED qidVars
    <2>1. /\ qid_table' = qid_table /\ qid_cur' = qid_cur /\ nomem' = nomem
          /\ qids' = qids /\ queue_obj' = queue_obj
      BY <1>1 DEF qidVars
    <2>2. Had' = Had /\ Ctx' = Ctx
      BY <2>1 DEF Had, Has, Ctx, ContextOf
    <2>3. QidTypeOK'
      BY <2>1 DEF QidInv, QidTypeOK
    <2> QED BY <2>1, <2>2, <2>3, SameHands DEF QidInv
  <1>2. ASSUME NEW o \in Objects, NEW u \in Contexts, NEW kind \in QueueKinds,
               CreateQueue(o, u, kind)
        PROVE  QidInv'
    BY <1>2, CreateQueueStep
  <1>3. ASSUME NEW o \in Objects,
               TakeQid(o) \/ QueueReady(o) \/ DestroyQueue(o) \/ ReturnQid(o)
        PROVE  QidInv'
    BY <1>3, TakeQidStep, QueueReadyStep, ReturnQidStep
  <1>4. ASSUME NEW u \in Contexts, ReleaseContext(u) PROVE QidInv'
    BY <1>4, ReleaseContextStep
  <1> QED BY <1>1, <1>2, <1>3, <1>4 DEF QidNext

(* What the run checks follows.                                            *)
LEMMA QidInvImplies == QidInv => QidsSound
  <1> SUFFICES ASSUME QidInv PROVE QidsSound OBVIOUS
  <1>1. /\ \A w \in Owners : \A l \in Lists : Had[w][l] = Has(w, l)
        /\ \A w \in Owners : Ctx[w] = ContextOf(w)
    BY DEF Had, Ctx
  <1>2. IdsApart
    BY <1>1 DEF IdsApart, QidInv, OneOwner
  <1>3. \A w \in Owners : \A x : x \in PagesOf(w) <=>
          \E l \in Lists : \E id \in ToSet(Had[w][l]) : x = PageOf(id)
    BY <1>1 DEF PagesOf
  <1>4. PagesApart
    <2>1. \A w \in Owners : PagesOf(w) \cap qid_table = {}
      BY <1>3 DEF QidInv, OnPagesOut, PagesOut
    <2>2. ASSUME NEW v \in Owners, NEW w \in Owners, PagesOf(v) \cap PagesOf(w) # {}
          PROVE  ContextOf(v) = ContextOf(w)
      <3>1. PICK x : x \in PagesOf(v) /\ x \in PagesOf(w)
        BY <2>2
      <3>2. PICK k \in Lists : \E id \in ToSet(Had[v][k]) : x = PageOf(id)
        BY <1>3, <3>1
      <3>3. PICK l \in Lists : \E id \in ToSet(Had[w][l]) : x = PageOf(id)
        BY <1>3, <3>1
      <3>4. PICK a \in ToSet(Had[v][k]), b \in ToSet(Had[w][l]) : PageOf(a) = PageOf(b)
        BY <3>2, <3>3
      <3>5. Ctx[v] = Ctx[w]
        BY <3>4 DEF QidInv, OneContext
      <3> QED BY <1>1, <3>5
    <2> QED BY <2>1, <2>2 DEF PagesApart
  <1>5. PagesComeBack
    <2> DEFINE lost == (QidPages \ qid_table) \ UNION {PagesOf(w) : w \in Owners}
    <2>1. lost \subseteq Damaged
      <3> SUFFICES ASSUME NEW p \in lost PROVE p \in Damaged
        OBVIOUS
      <3>1. p \in PagesOut /\ p \in QidPages
        BY DEF PagesOut
      <3>2. ASSUME NEW w \in Owners, p \in ToSet(Had[w]["qp"]) PROVE FALSE
        <4>1. p \in PagesOf(w)
          BY <1>3, <3>1, <3>2, PageFacts DEF Lists
        <4> QED BY <4>1
      <3> QED BY <3>1, <3>2 DEF Damaged
    <2> HIDE DEF lost
    <2>2. /\ IsFiniteSet(Damaged) /\ Cardinality(Damaged) \in Nat /\ nomem \in Nat
          /\ Cardinality(Damaged) <= nomem
      BY PagesOutFinite DEF QidInv, QidTypeOK, PagesCounted
    <2>3. Cardinality(lost) <= Cardinality(Damaged) /\ Cardinality(lost) \in Nat
      BY <2>1, <2>2, FS_Subset, FS_CardinalityType
    <2>4. Cardinality(lost) <= nomem
      BY <2>2, <2>3
    <2> QED BY <2>4 DEF PagesComeBack, QidInv, PagesCounted, PagesOut, lost
  <1> QED BY <1>2, <1>4, <1>5 DEF QidsSound

(* In whatever order processes create and destroy queues and close, and    *)
(* whichever allocations fail: an identifier has one owner, a page of      *)
(* doorbells one process, and only an allocation that failed loses a page  *)
(* (cxgb4_rdma_resource.c).                                                *)
THEOREM QueueIdsSound == QidSpec => []QidsSound
  <1>1. QidSpec => []QidInv
    BY QidInvInit, QidInvStep, PTL DEF QidSpec
  <1> QED BY <1>1, QidInvImplies, PTL

(***************************************************************************)
(* Memory regions: what is handed out has one owner, in the driver and in  *)
(* the adapter, and comes back.                                            *)
(***************************************************************************)
Places == {"pages", "pages_sent", "register", "tpt_sent", "live", "reset",
           "reset_sent", "free_pbl"}
\* Where a region has an index.
WithStag == {"tpt_sent", "live", "reset", "reset_sent"}
Replies == {"none", "ok", "error"}
RegionRecs ==
  [at : Places, kind : RegionKinds, stag : Stags \cup {NoStag},
   pbl : Pbls \cup {NoPbl}, reply : Replies]
Writes ==
  [op : {"pages"}, for : Regions, pbl : Pbls \cup {NoPbl}]
    \cup [op : {"set"}, for : Regions, stag : Stags, pbl : Pbls \cup {NoPbl}]
    \cup [op : {"reset"}, for : Regions, stag : Stags]

RegTypeOK == reg \in [Regions -> RegionRecs \cup {NoRegion}]
MemTypeOK ==
  /\ RegTypeOK
  /\ tpt_table \subseteq Stags /\ pbl_pool \subseteq Pbls
  /\ mem_wrs \in Seq(Writes)
  /\ refused \in Nat /\ regfails \in Nat

(* The driver's side: what a region has where its call is, and that        *)
(* nothing is had twice or lost.                                           *)
InUse(m) == reg[m].at # "none"
FieldsOK ==
  \A m \in Regions : InUse(m) =>
    /\ reg[m].at \in {"pages", "pages_sent"} => reg[m].kind = "user"
    /\ reg[m].stag # NoStag <=> reg[m].at \in WithStag
    /\ reg[m].pbl = NoPbl <=> reg[m].kind = "plain"
    /\ reg[m].reply # "none" => reg[m].at \in Waiting
StagsOK ==
  /\ \A m, n \in Regions :
       reg[m].at \in WithStag /\ reg[n].at \in WithStag /\ reg[m].stag = reg[n].stag
         => m = n
  /\ \A m \in Regions : reg[m].at \in WithStag => reg[m].stag \notin tpt_table
PblsOK ==
  /\ \A m, n \in Regions :
       InUse(m) /\ InUse(n) /\ reg[m].pbl = reg[n].pbl /\ reg[m].pbl # NoPbl => m = n
  /\ \A m \in Regions : InUse(m) => reg[m].pbl \notin pbl_pool
  /\ \A p \in Pbls \ pbl_pool : \E m \in Regions : InUse(m) /\ reg[m].pbl = p
MrsOK ==
  /\ \A m \in Regions :
       reg[m].at = "live" => reg[m].stag \in DOMAIN mrs /\ mrs[reg[m].stag] = m
  /\ \A s \in DOMAIN mrs :
       mrs[s] \in Regions /\ reg[mrs[s]].at = "live" /\ reg[mrs[s]].stag = s
RegsOK == FieldsOK /\ StagsOK /\ PblsOK /\ MrsOK

(* The writes that are out: a region has one at most; a region that waits  *)
(* waits for its own; while the device works every write has its region    *)
(* waiting; and no write can hit an index, or the pages, that another      *)
(* region relies on.                                                       *)
Pending == {mem_wrs[i] : i \in 1 .. Len(mem_wrs)}
OneEach == \A i, j \in 1 .. Len(mem_wrs) : mem_wrs[i].for = mem_wrs[j].for => i = j
Matches(w) ==
  \/ /\ w.op = "pages" /\ reg[w.for].at = "pages_sent" /\ w.pbl = reg[w.for].pbl
  \/ /\ w.op = "set" /\ reg[w.for].at = "tpt_sent"
     /\ w.stag = reg[w.for].stag /\ w.pbl = reg[w.for].pbl
  \/ /\ w.op = "reset" /\ reg[w.for].at = "reset_sent" /\ w.stag = reg[w.for].stag
WritesAwaited ==
  \A w \in Pending :
    /\ reg[w.for].at \in Waiting => Matches(w) /\ reg[w.for].reply # "ok"
    /\ ~disabled => reg[w.for].at \in Waiting /\ reg[w.for].reply = "none"
StagWrites ==
  \A w \in Pending : w.op # "pages" =>
    \A n \in Regions : reg[n].at \in WithStag /\ reg[n].stag = w.stag =>
      n = w.for /\ reg[n].at \in Waiting
PblWrites ==
  \A w \in Pending : w.op = "pages" =>
    \A n \in Regions : InUse(n) /\ reg[n].kind = "user" /\ reg[n].pbl = w.pbl =>
      \/ reg[n].at \in {"pages", "free_pbl"}
      \/ n = w.for /\ reg[n].at = "pages_sent" /\ reg[n].reply # "ok"
QueueOK == OneEach /\ WritesAwaited /\ StagWrites /\ PblWrites

(* The adapter's side: what has been answered is there; and while the      *)
(* device works, what is there has an owner.                               *)
PagesHold ==
  \A m \in Regions :
    /\ InUse(m) /\ reg[m].kind = "user"
    /\ \/ reg[m].at \in WithStag \cup {"register"}
       \/ reg[m].at = "pages_sent" /\ reg[m].reply = "ok"
    => reg[m].pbl \in DOMAIN pages /\ pages[reg[m].pbl] = m
EntriesHold ==
  \A m \in Regions :
    reg[m].at = "live" \/ (reg[m].at = "tpt_sent" /\ reg[m].reply = "ok") =>
      /\ reg[m].stag \in DOMAIN tpt
      /\ tpt[reg[m].stag] = [for |-> m, pbl |-> reg[m].pbl]
EntriesOwned ==
  ~disabled => \A s \in DOMAIN tpt \ left :
    /\ tpt[s].for \in Regions /\ reg[tpt[s].for].at \in WithStag
    /\ reg[tpt[s].for].stag = s /\ reg[tpt[s].for].pbl = tpt[s].pbl
EntriesGone ==
  ~disabled => \A m \in Regions :
    \/ reg[m].at = "tpt_sent" /\ reg[m].reply # "ok"
    \/ reg[m].at = "reset_sent" /\ reg[m].reply # "none"
    => reg[m].stag \notin DOMAIN tpt \ left
AdapterOK == PagesHold /\ EntriesHold /\ EntriesOwned /\ EntriesGone

(* An index is lost when the firmware has refused its registration.        *)
Kept == {m \in Regions : reg[m].at \in WithStag
                           /\ ~(reg[m].at = "tpt_sent" /\ reg[m].reply = "error")}
LostStags == Stags \ (tpt_table \cup {reg[m].stag : m \in Kept})
LossBound == ~disabled => Cardinality(LostStags) <= refused + regfails

MemInv == MemTypeOK /\ RegsOK /\ QueueOK /\ AdapterOK /\ LossBound

-----------------------------------------------------------------------------
(* Helpers.                                                                *)

LEMMA DropProperties ==
  ASSUME NEW f, NEW k
  PROVE  /\ DOMAIN Drop(f, k) = DOMAIN f \ {k}
         /\ \A x \in DOMAIN f \ {k} : Drop(f, k)[x] = f[x]
  BY DEF Drop, Restrict

(* A region is unused or has all the fields. *)
LEMMA RegionFields ==
  ASSUME RegTypeOK, NEW m \in Regions
  PROVE  /\ reg[m] = NoRegion <=> ~InUse(m)
         /\ InUse(m) => /\ reg[m] \in RegionRecs
                        /\ reg[m].at \in Places /\ reg[m].kind \in RegionKinds
                        /\ reg[m].stag \in Stags \cup {NoStag}
                        /\ reg[m].pbl \in Pbls \cup {NoPbl}
                        /\ reg[m].reply \in Replies
  BY DEF RegTypeOK, NoRegion, RegionRecs, InUse, Places

(* A call goes on: one region changes, not its kind or its page list.      *)
Moves(m, a, s, r) ==
  /\ RegTypeOK'
  /\ \A n \in Regions \ {m} : reg'[n] = reg[n]
  /\ reg'[m].at = a /\ reg'[m].stag = s /\ reg'[m].reply = r
  /\ reg'[m].kind = reg[m].kind /\ reg'[m].pbl = reg[m].pbl

LEMMA MovesFields ==
  ASSUME RegTypeOK, NEW m \in Regions, NEW r \in RegionRecs,
         reg' = [reg EXCEPT ![m] = r],
         r.kind = reg[m].kind, r.pbl = reg[m].pbl
  PROVE  Moves(m, r.at, r.stag, r.reply)
  BY DEF Moves, RegTypeOK

LEMMA GoesMoves ==
  ASSUME RegTypeOK, NEW m \in Regions, InUse(m), NEW a \in Places, Goes(m, a)
  PROVE  Moves(m, a, reg[m].stag, "none")
  <1> DEFINE r == [reg[m] EXCEPT !.at = a, !.reply = "none"]
  <1>1. reg[m] \in RegionRecs /\ reg \in [Regions -> RegionRecs \cup {NoRegion}]
    BY RegionFields DEF RegTypeOK
  <1>2. reg' = [reg EXCEPT ![m] = r]
    BY <1>1 DEF Goes
  <1>3. /\ r \in RegionRecs /\ r.kind = reg[m].kind /\ r.pbl = reg[m].pbl
        /\ r.at = a /\ r.stag = reg[m].stag /\ r.reply = "none"
    BY <1>1 DEF RegionRecs, Replies
  <1> HIDE DEF r
  <1> QED BY <1>2, <1>3, MovesFields

LEMMA GivesUpMoves ==
  ASSUME RegTypeOK, NEW m \in Regions, InUse(m), GivesUp(m)
  PROVE  Moves(m, "free_pbl", NoStag, "none")
  <1> DEFINE r == [reg[m] EXCEPT !.at = "free_pbl", !.reply = "none", !.stag = NoStag]
  <1>1. reg[m] \in RegionRecs /\ reg \in [Regions -> RegionRecs \cup {NoRegion}]
    BY RegionFields DEF RegTypeOK
  <1>2. reg' = [reg EXCEPT ![m] = r]
    BY <1>1 DEF GivesUp
  <1>3. /\ r \in RegionRecs /\ r.kind = reg[m].kind /\ r.pbl = reg[m].pbl
        /\ r.at = "free_pbl" /\ r.stag = NoStag /\ r.reply = "none"
    BY <1>1 DEF RegionRecs, Replies, Places
  <1> HIDE DEF r
  <1> QED BY <1>2, <1>3, MovesFields

LEMMA WriteMoves ==
  ASSUME RegTypeOK, NEW m \in Regions, InUse(m), NEW r0 \in RegionRecs,
         r0.kind = reg[m].kind, r0.pbl = reg[m].pbl,
         NEW a \in Places, NEW wr, Write(m, r0, wr, a)
  PROVE  Moves(m, a, r0.stag, "none") /\ mem_wrs' = Append(mem_wrs, wr)
  <1> DEFINE r == [r0 EXCEPT !.at = a, !.reply = "none"]
  <1>1. reg' = [reg EXCEPT ![m] = r] /\ mem_wrs' = Append(mem_wrs, wr)
    BY DEF Write
  <1>2. /\ r \in RegionRecs /\ r.kind = reg[m].kind /\ r.pbl = reg[m].pbl
        /\ r.at = a /\ r.stag = r0.stag /\ r.reply = "none"
    BY DEF RegionRecs, Replies
  <1> HIDE DEF r
  <1> QED BY <1>1, <1>2, MovesFields

(* The reply reaches a region that waits. *)
LEMMA ReplyMoves ==
  ASSUME RegTypeOK, NEW m \in Regions, NEW v \in Replies, Reply(m, v)
  PROVE  IF reg[m].at \in Waiting THEN Moves(m, reg[m].at, reg[m].stag, v)
         ELSE reg' = reg
  <1>1. CASE reg[m].at \notin Waiting
    BY <1>1 DEF Reply
  <1>2. CASE reg[m].at \in Waiting
    <2> DEFINE r == [reg[m] EXCEPT !.reply = v]
    <2>1. /\ reg[m] \in RegionRecs /\ reg \in [Regions -> RegionRecs \cup {NoRegion}]
      BY <1>2, RegionFields DEF RegTypeOK, InUse, Waiting
    <2>2. reg' = [reg EXCEPT ![m] = r]
      BY <1>2, <2>1 DEF Reply
    <2>3. /\ r \in RegionRecs /\ r.kind = reg[m].kind /\ r.pbl = reg[m].pbl
          /\ r.at = reg[m].at /\ r.stag = reg[m].stag /\ r.reply = v
      BY <2>1 DEF RegionRecs
    <2> HIDE DEF r
    <2>4. Moves(m, reg[m].at, reg[m].stag, v)
      BY <2>2, <2>3, MovesFields
    <2> QED BY <1>2, <2>4
  <1> QED BY <1>1, <1>2

LEMMA PendingType ==
  ASSUME mem_wrs \in Seq(Writes)
  PROVE  \A w \in Pending : w \in Writes /\ w.for \in Regions
  BY ElementOfSeq DEF Pending, Writes

(* A write joins the queue; the first leaves it. *)
LEMMA PendingAppend ==
  ASSUME mem_wrs \in Seq(Writes), NEW wr \in Writes, mem_wrs' = Append(mem_wrs, wr),
         OneEach, \A w \in Pending : w.for # wr.for
  PROVE  /\ mem_wrs' \in Seq(Writes) /\ OneEach'
         /\ Pending' = Pending \cup {wr}
  <1>1. /\ mem_wrs' \in Seq(Writes) /\ Len(mem_wrs') = Len(mem_wrs) + 1
        /\ \A i \in 1 .. Len(mem_wrs) : mem_wrs'[i] = mem_wrs[i]
        /\ mem_wrs'[Len(mem_wrs) + 1] = wr /\ Len(mem_wrs) \in Nat
    BY AppendProperties, LenProperties
  <1>2. Pending' = Pending \cup {wr}
    BY <1>1 DEF Pending
  <1>3. OneEach'
    BY <1>1 DEF OneEach, Pending
  <1> QED BY <1>1, <1>2, <1>3

LEMMA PendingTail ==
  ASSUME mem_wrs \in Seq(Writes), OneEach, mem_wrs # <<>>, mem_wrs' = Tail(mem_wrs)
  PROVE  /\ mem_wrs' \in Seq(Writes) /\ OneEach'
         /\ Head(mem_wrs) \in Pending /\ Head(mem_wrs) \in Writes
         /\ \A w \in Pending' : w \in Pending /\ w.for # Head(mem_wrs).for
  <1>1. /\ mem_wrs' \in Seq(Writes) /\ Len(mem_wrs) \in Nat \ {0}
        /\ Len(mem_wrs') = Len(mem_wrs) - 1
        /\ \A i \in 1 .. Len(mem_wrs) - 1 : mem_wrs'[i] = mem_wrs[i + 1]
        /\ Head(mem_wrs) = mem_wrs[1] /\ Head(mem_wrs) \in Writes
    BY HeadTailProperties, EmptySeq
  <1>2. Head(mem_wrs) \in Pending
    BY <1>1 DEF Pending
  <1>3. OneEach'
    BY <1>1 DEF OneEach
  <1>4. \A w \in Pending' : w \in Pending /\ w.for # Head(mem_wrs).for
    BY <1>1 DEF OneEach, Pending
  <1> QED BY <1>1, <1>2, <1>3, <1>4

(* The indices that are lost are finitely many. *)
LEMMA LostFinite == IsFiniteSet(LostStags) /\ Cardinality(LostStags) \in Nat
  BY MemRegionsAssumption, FS_Subset, FS_CardinalityType DEF LostStags

LEMMA LossMonotone ==
  ASSUME LostStags' \subseteq LostStags
  PROVE  Cardinality(LostStags') \in Nat /\ Cardinality(LostStags') <= Cardinality(LostStags)
  BY LostFinite, FS_Subset, FS_CardinalityType

LEMMA LossOfOne ==
  ASSUME NEW s, LostStags' \subseteq LostStags \cup {s}
  PROVE  /\ Cardinality(LostStags') \in Nat
         /\ Cardinality(LostStags') <= Cardinality(LostStags) + 1
  <1>1. IsFiniteSet(LostStags \cup {s})
        /\ Cardinality(LostStags \cup {s}) <= Cardinality(LostStags) + 1
    BY LostFinite, FS_AddElement
  <1>2. Cardinality(LostStags') <= Cardinality(LostStags \cup {s})
        /\ Cardinality(LostStags') \in Nat /\ Cardinality(LostStags \cup {s}) \in Nat
    BY <1>1, FS_Subset, FS_CardinalityType
  <1> QED BY <1>1, <1>2, LostFinite

-----------------------------------------------------------------------------
(* A call that gives up, with the index already back or lost.              *)
LEMMA GivesUpKeeps ==
  ASSUME MemInv, NEW m \in Regions, InUse(m), reg[m].at # "live",
         Moves(m, "free_pbl", NoStag, "none"),
         UNCHANGED <<pbl_pool, mrs, mem_wrs, tpt, pages, disabled, refused>>,
         regfails' \in Nat, regfails' >= regfails, left \subseteq left',
         \/ tpt_table' = tpt_table
         \/ reg[m].at \in WithStag /\ tpt_table' = tpt_table \cup {reg[m].stag},
         reg[m].at \in Waiting => reg[m].reply # "none",
         ~disabled /\ reg[m].at \in WithStag => reg[m].stag \notin DOMAIN tpt \ left',
         ~disabled /\ reg[m].at \in WithStag =>
           \/ reg[m].stag \in tpt_table'
           \/ reg[m].at = "tpt_sent" /\ reg[m].reply = "error"
           \/ regfails' = regfails + 1
  PROVE  MemInv'
  <1>1. /\ RegTypeOK /\ RegTypeOK' /\ \A n \in Regions \ {m} : reg'[n] = reg[n]
        /\ reg'[m].at = "free_pbl" /\ reg'[m].stag = NoStag /\ reg'[m].reply = "none"
        /\ reg'[m].kind = reg[m].kind /\ reg'[m].pbl = reg[m].pbl
        /\ reg[m].at \in WithStag => reg[m].stag \in Stags
        /\ "free_pbl" \notin WithStag \cup Waiting
    BY RegionFields, MemRegionsAssumption
       DEF Moves, MemInv, MemTypeOK, RegsOK, FieldsOK, WithStag, Waiting
  <1>2. MemTypeOK'
    BY <1>1 DEF MemInv, MemTypeOK
  <1>3. FieldsOK'
    BY <1>1 DEF MemInv, RegsOK, FieldsOK, InUse, WithStag, Waiting
  <1>4. StagsOK'
    BY <1>1 DEF MemInv, RegsOK, StagsOK, WithStag
  <1>5. PblsOK'
    BY <1>1 DEF MemInv, RegsOK, PblsOK, InUse
  <1>6. MrsOK'
    BY <1>1 DEF MemInv, RegsOK, MrsOK
  <1>p. mem_wrs \in Seq(Writes) /\ Pending' = Pending /\ OneEach'
    BY DEF Pending, OneEach, MemInv, MemTypeOK, QueueOK
  <1>7. WritesAwaited'
    <2> SUFFICES ASSUME NEW w \in Pending
                 PROVE  /\ reg'[w.for].at \in Waiting =>
                             Matches(w)' /\ reg'[w.for].reply # "ok"
                        /\ ~disabled => reg'[w.for].at \in Waiting
                                         /\ reg'[w.for].reply = "none"
      BY <1>p DEF WritesAwaited, Waiting
    <2>1. w.for \in Regions
      BY <1>p, PendingType
    <2> QED BY <1>1, <2>1 DEF MemInv, QueueOK, WritesAwaited, Matches, Waiting
  <1>8. StagWrites'
    BY <1>1, <1>p DEF MemInv, QueueOK, StagWrites, WithStag
  <1>9. PblWrites'
    BY <1>1, <1>p DEF MemInv, QueueOK, PblWrites, InUse
  <1>10. PagesHold' /\ EntriesHold'
    BY <1>1 DEF MemInv, AdapterOK, PagesHold, EntriesHold, WithStag, InUse
  <1>11. EntriesOwned'
    BY <1>1 DEF MemInv, AdapterOK, EntriesOwned, WithStag
  <1>12. EntriesGone'
    BY <1>1 DEF MemInv, AdapterOK, EntriesGone, WithStag
  <1>13. LossBound'
    <2> SUFFICES ASSUME ~disabled
                 PROVE  Cardinality(LostStags') <= refused + regfails'
      BY DEF LossBound
    <2>1. Cardinality(LostStags) <= refused + regfails
          /\ refused \in Nat /\ regfails \in Nat
      BY DEF MemInv, LossBound, MemTypeOK
    <2>2. CASE ~(m \in Kept /\ reg[m].stag \notin tpt_table')
      <3>1. LostStags' \subseteq LostStags
        BY <1>1, <2>2 DEF LostStags, Kept, WithStag
      <3> QED BY <2>1, <3>1, LossMonotone, LostFinite
    <2>3. CASE m \in Kept /\ reg[m].stag \notin tpt_table'
      <3>1. regfails' = regfails + 1
        BY <2>3 DEF Kept
      <3>2. LostStags' \subseteq LostStags \cup {reg[m].stag}
        BY <1>1 DEF LostStags, Kept, WithStag
      <3> QED BY <2>1, <3>1, <3>2, LossOfOne, LostFinite
    <2> QED BY <2>2, <2>3
  <1> QED BY <1>2, <1>3, <1>4, <1>5, <1>6, <1>p, <1>7, <1>8, <1>9, <1>10, <1>11,
             <1>12, <1>13 DEF MemInv, RegsOK, QueueOK, AdapterOK

-----------------------------------------------------------------------------
(* The calls, step by step.                                                *)

LEMMA StartCallStep ==
  ASSUME MemInv, NEW m \in Regions, StartCall(m)
  PROVE  MemInv'
  <1>0. PICK kind \in RegionKinds, p \in pbl_pool \cup {NoPbl} :
          /\ (p = NoPbl) = (kind = "plain") /\ pbl_pool' = pbl_pool \ {p}
          /\ reg' = [reg EXCEPT ![m] =
               [at |-> IF kind = "user" THEN "pages" ELSE "register",
                kind |-> kind, stag |-> NoStag, pbl |-> p, reply |-> "none"]]
    BY DEF StartCall
  <1>1. /\ RegTypeOK /\ reg[m].at = "none" /\ reg[m] = NoRegion
        /\ UNCHANGED <<tpt_table, mrs, mem_wrs, tpt, pages, left, disabled, refused, regfails>>
        /\ p \in Pbls \cup {NoPbl}
    BY DEF StartCall, MemInv, MemTypeOK, NoRegion
  <1>2. /\ \A n \in Regions \ {m} : reg'[n] = reg[n]
        /\ reg'[m].at = IF kind = "user" THEN "pages" ELSE "register"
        /\ reg'[m].kind = kind /\ reg'[m].stag = NoStag
        /\ reg'[m].pbl = p /\ reg'[m].reply = "none"
    BY <1>0, <1>1 DEF RegTypeOK
  <1>3. RegTypeOK'
    BY <1>0, <1>1 DEF RegTypeOK, RegionRecs, Places, Replies
  <1>4. MemTypeOK'
    BY <1>0, <1>1, <1>3 DEF MemInv, MemTypeOK
  <1>5. FieldsOK'
    BY <1>0, <1>2 DEF MemInv, RegsOK, FieldsOK, InUse, WithStag, Waiting
  <1>6. StagsOK'
    BY <1>1, <1>2 DEF MemInv, RegsOK, StagsOK, WithStag
  <1>7. PblsOK'
    BY <1>0, <1>1, <1>2, MemRegionsAssumption
       DEF MemInv, MemTypeOK, RegsOK, PblsOK, InUse
  <1>8. MrsOK'
    BY <1>1, <1>2 DEF MemInv, RegsOK, MrsOK
  <1>p. mem_wrs \in Seq(Writes) /\ Pending' = Pending /\ OneEach'
        /\ \A w \in Pending : w.for \in Regions
    BY <1>1, PendingType DEF Pending, OneEach, MemInv, MemTypeOK, QueueOK
  <1>9. WritesAwaited'
    BY <1>1, <1>2, <1>p DEF MemInv, QueueOK, WritesAwaited, Matches, Waiting
  <1>10. StagWrites'
    BY <1>1, <1>2, <1>p DEF MemInv, QueueOK, StagWrites, WithStag
  <1>11. PblWrites'
    BY <1>1, <1>2, <1>p DEF MemInv, QueueOK, PblWrites, InUse
  <1>12. PagesHold' /\ EntriesHold'
    BY <1>1, <1>2 DEF MemInv, AdapterOK, PagesHold, EntriesHold, WithStag, InUse
  <1>13. EntriesOwned' /\ EntriesGone'
    BY <1>1, <1>2 DEF MemInv, AdapterOK, EntriesOwned, EntriesGone, WithStag
  <1>14. LossBound'
    <2>1. LostStags' = LostStags
      BY <1>1, <1>2 DEF LostStags, Kept, WithStag
    <2> QED BY <1>1, <2>1 DEF MemInv, LossBound
  <1> QED BY <1>4, <1>5, <1>6, <1>7, <1>8, <1>p, <1>9, <1>10, <1>11, <1>12, <1>13,
             <1>14 DEF MemInv, RegsOK, QueueOK, AdapterOK

(* A call takes its next step without giving up its index, and nothing     *)
(* leaves or enters a queue: what changes is where it is, and mrs.         *)
LEMMA GoesOnKeeps ==
  ASSUME MemInv, NEW m \in Regions, InUse(m), NEW a \in Places \ Waiting,
         Moves(m, a, reg[m].stag, "none"),
         UNCHANGED <<tpt_table, pbl_pool, mem_wrs, tpt, pages, left, disabled, refused>>,
         regfails' \in Nat, regfails' >= regfails,
         a \in WithStag <=> reg[m].at \in WithStag, a # "pages",
         reg[m].at \in Waiting => reg[m].reply = "ok",
         reg[m].at # "free_pbl", a = "live" => reg[m].at = "tpt_sent",
         a \in WithStag \cup {"register"} /\ reg[m].kind = "user" =>
           reg[m].at \in WithStag \cup {"register", "pages_sent"},
         MrsOK'
  PROVE  MemInv'
  <1>1. /\ RegTypeOK /\ RegTypeOK' /\ \A n \in Regions \ {m} : reg'[n] = reg[n]
        /\ reg'[m].at = a /\ reg'[m].stag = reg[m].stag /\ reg'[m].reply = "none"
        /\ reg'[m].kind = reg[m].kind /\ reg'[m].pbl = reg[m].pbl
        /\ a \notin {"pages_sent", "tpt_sent", "reset_sent"}
    BY DEF Moves, MemInv, MemTypeOK, Waiting
  <1>2. MemTypeOK'
    BY <1>1 DEF MemInv, MemTypeOK
  <1>3. FieldsOK'
    BY <1>1 DEF MemInv, RegsOK, FieldsOK, InUse, Waiting, Places
  <1>4. StagsOK'
    BY <1>1 DEF MemInv, RegsOK, StagsOK
  <1>5. PblsOK'
    BY <1>1 DEF MemInv, RegsOK, PblsOK, InUse, Places
  <1>p. mem_wrs \in Seq(Writes) /\ Pending' = Pending /\ OneEach'
        /\ \A w \in Pending : w.for \in Regions
    BY PendingType DEF Pending, OneEach, MemInv, MemTypeOK, QueueOK
  <1>q. \A w \in Pending : w.for = m => reg[m].at \notin Waiting /\ disabled
    BY DEF MemInv, QueueOK, WritesAwaited
  <1>7. WritesAwaited'
    BY <1>1, <1>p, <1>q DEF MemInv, QueueOK, WritesAwaited, Matches, Waiting
  <1>8. StagWrites'
    BY <1>1, <1>p, <1>q DEF MemInv, QueueOK, StagWrites
  <1>9. PblWrites'
    BY <1>1, <1>p, <1>q
       DEF MemInv, QueueOK, PblWrites, InUse, Waiting, WithStag, Places
  <1>10. PagesHold' /\ EntriesHold'
    BY <1>1 DEF MemInv, AdapterOK, PagesHold, EntriesHold, WithStag, InUse, Waiting
  <1>11. EntriesOwned'
    BY <1>1 DEF MemInv, AdapterOK, EntriesOwned
  <1>12. EntriesGone'
    BY <1>1 DEF MemInv, AdapterOK, EntriesGone
  <1>13. LossBound'
    <2>1. LostStags' \subseteq LostStags
      BY <1>1 DEF LostStags, Kept, WithStag
    <2> QED BY <1>1, <2>1, LossMonotone, LostFinite DEF MemInv, LossBound, MemTypeOK
  <1> QED BY <1>2, <1>3, <1>4, <1>5, <1>p, <1>7, <1>8, <1>9, <1>10, <1>11,
             <1>12, <1>13 DEF MemInv, RegsOK, QueueOK, AdapterOK

LEMMA PagesWrittenStep ==
  ASSUME MemInv, NEW m \in Regions, PagesWritten(m)
  PROVE  MemInv'
  <1>1. /\ RegTypeOK /\ InUse(m) /\ reg[m].at = "pages_sent" /\ reg[m].reply # "none"
        /\ reg[m].stag = NoStag /\ reg[m].kind = "user"
        /\ UNCHANGED <<tpt_table, pbl_pool, mrs, mem_wrs, tpt, pages, left, disabled,
                       refused, regfails>>
        /\ regfails \in Nat
    BY DEF PagesWritten, MemInv, MemTypeOK, RegsOK, FieldsOK, InUse, WithStag
  <1>2. CASE reg[m].reply = "ok"
    <2>1. Moves(m, "register", reg[m].stag, "none")
      BY <1>1, <1>2, GoesMoves DEF PagesWritten, Places
    <2>2. MrsOK'
      BY <1>1, <2>1 DEF Moves, MemInv, RegsOK, MrsOK
    <2> QED BY <1>1, <1>2, <2>1, <2>2, GoesOnKeeps DEF Places, Waiting, WithStag
  <1>3. CASE reg[m].reply # "ok"
    <2>1. Moves(m, "free_pbl", NoStag, "none")
      BY <1>1, <1>3, GivesUpMoves DEF PagesWritten
    <2> QED BY <1>1, <2>1, GivesUpKeeps DEF WithStag
  <1> QED BY <1>2, <1>3

LEMMA RegisteredStep ==
  ASSUME MemInv, NEW m \in Regions, Registered(m)
  PROVE  MemInv'
  <1>1. /\ RegTypeOK /\ InUse(m) /\ reg[m].at = "tpt_sent" /\ reg[m].reply # "none"
        /\ reg[m].stag \in Stags /\ reg[m].reply \in Replies
        /\ UNCHANGED <<tpt_table, pbl_pool, mem_wrs, tpt, pages, left, disabled, refused>>
        /\ regfails \in Nat
    BY RegionFields
       DEF Registered, MemInv, MemTypeOK, RegsOK, FieldsOK, InUse, WithStag
  <1>2. CASE reg[m].reply # "ok"
    <2>1. Moves(m, "free_pbl", NoStag, "none") /\ UNCHANGED <<mrs, regfails>>
      BY <1>1, <1>2, GivesUpMoves DEF Registered
    <2>2. ~disabled => reg[m].stag \notin DOMAIN tpt \ left
      BY <1>1, <1>2 DEF MemInv, AdapterOK, EntriesGone
    <2> QED BY <1>1, <1>2, <2>1, <2>2, GivesUpKeeps DEF WithStag, Replies
  <1>3. CASE reg[m].reply = "ok"
    <2>1. \/ Goes(m, "reset") /\ UNCHANGED <<mrs, regfails>>
          \/ Goes(m, "reset") /\ UNCHANGED mrs /\ regfails' = regfails + 1
          \/ /\ Goes(m, "live") /\ UNCHANGED regfails
             /\ mrs' = Put(mrs, reg[m].stag, m)
      BY <1>3 DEF Registered, NoMemory
    <2>2. CASE Goes(m, "reset") /\ UNCHANGED mrs
                 /\ (UNCHANGED regfails \/ regfails' = regfails + 1)
      <3>1. Moves(m, "reset", reg[m].stag, "none")
        BY <1>1, <2>2, GoesMoves DEF Places
      <3>2. MrsOK'
        BY <1>1, <2>2, <3>1 DEF Moves, MemInv, RegsOK, MrsOK
      <3>3. regfails' \in Nat /\ regfails' >= regfails
        BY <1>1, <2>2
      <3> QED BY <1>1, <1>3, <3>1, <3>2, <3>3, GoesOnKeeps DEF Places, Waiting, WithStag
    <2>3. CASE Goes(m, "live") /\ mrs' = Put(mrs, reg[m].stag, m) /\ UNCHANGED regfails
      <3>1. Moves(m, "live", reg[m].stag, "none")
        BY <1>1, <2>3, GoesMoves DEF Places
      <3>2. /\ DOMAIN mrs' = DOMAIN mrs \cup {reg[m].stag} /\ mrs'[reg[m].stag] = m
            /\ \A s \in DOMAIN mrs : s # reg[m].stag => mrs'[s] = mrs[s]
        BY <2>3 DEF Put
      <3>3. MrsOK'
        BY <1>1, <3>1, <3>2 DEF Moves, MemInv, RegsOK, MrsOK, StagsOK, WithStag
      <3> QED BY <1>1, <1>3, <2>3, <3>1, <3>3, GoesOnKeeps DEF Places, Waiting, WithStag
    <2> QED BY <2>1, <2>2, <2>3
  <1> QED BY <1>2, <1>3

LEMMA DeregStep ==
  ASSUME MemInv, NEW m \in Regions, Dereg(m)
  PROVE  MemInv'
  <1> DEFINE s0 == reg[m].stag
  <1>a. mrs' = Drop(mrs, s0)
    BY DEF Dereg
  <1>1. /\ RegTypeOK /\ InUse(m) /\ reg[m].at = "live" /\ Goes(m, "reset")
        /\ mrs' = Drop(mrs, reg[m].stag)
        /\ UNCHANGED <<tpt_table, pbl_pool, mem_wrs, tpt, pages, left, disabled, refused,
                       regfails>>
        /\ regfails \in Nat
    BY DEF Dereg, MemInv, MemTypeOK, InUse
  <1>2. Moves(m, "reset", reg[m].stag, "none")
    BY <1>1, GoesMoves DEF Places
  <1>3. /\ DOMAIN mrs' = DOMAIN mrs \ {reg[m].stag}
        /\ \A s \in DOMAIN mrs \ {reg[m].stag} : mrs'[s] = mrs[s]
    <2> HIDE DEF s0
    <2>1. DOMAIN mrs' = DOMAIN mrs \ {s0} /\ \A s \in DOMAIN mrs \ {s0} : mrs'[s] = mrs[s]
      BY ONLY <1>a, DropProperties
    <2> QED
      BY <2>1 DEF s0
  <1>4. MrsOK'
    BY <1>1, <1>2, <1>3 DEF Moves, MemInv, RegsOK, MrsOK, StagsOK, WithStag
  <1> QED BY <1>1, <1>2, <1>4, GoesOnKeeps DEF Places, Waiting, WithStag

(* The index goes back when no entry of the adapter is left under it, while *)
(* the device works.                                                       *)
LEMMA TptResetStep ==
  ASSUME MemInv, NEW m \in Regions, TptReset(m)
  PROVE  MemInv'
  <1>1. /\ RegTypeOK /\ InUse(m) /\ reg[m].at = "reset_sent" /\ reg[m].reply # "none"
        /\ tpt_table' = tpt_table \cup {reg[m].stag} /\ GivesUp(m)
        /\ UNCHANGED <<pbl_pool, mrs, mem_wrs, tpt, pages, left, disabled, refused, regfails>>
        /\ regfails \in Nat
    BY DEF TptReset, MemInv, MemTypeOK, InUse
  <1>2. Moves(m, "free_pbl", NoStag, "none")
    BY <1>1, GivesUpMoves
  <1>3. ~disabled => reg[m].stag \notin DOMAIN tpt \ left
    BY <1>1 DEF MemInv, AdapterOK, EntriesGone
  <1> QED BY <1>1, <1>2, <1>3, GivesUpKeeps DEF WithStag

LEMMA FreePblStep ==
  ASSUME MemInv, NEW m \in Regions, FreePbl(m)
  PROVE  MemInv'
  <1>1. /\ RegTypeOK /\ reg[m].at = "free_pbl" /\ reg[m].pbl \in Pbls \cup {NoPbl}
        /\ pbl_pool' = pbl_pool \cup ({reg[m].pbl} \ {NoPbl})
        /\ reg' = [reg EXCEPT ![m] = NoRegion]
        /\ UNCHANGED <<tpt_table, mrs, mem_wrs, tpt, pages, left, disabled, refused, regfails>>
    BY RegionFields DEF FreePbl, MemInv, MemTypeOK, InUse
  <1>2. /\ \A n \in Regions \ {m} : reg'[n] = reg[n]
        /\ reg'[m].at = "none"
    BY <1>1 DEF RegTypeOK, NoRegion
  <1>3. RegTypeOK'
    BY <1>1 DEF RegTypeOK
  <1>4. MemTypeOK'
    BY <1>1, <1>3 DEF MemInv, MemTypeOK
  <1>5. FieldsOK' /\ StagsOK' /\ MrsOK'
    BY <1>1, <1>2 DEF MemInv, RegsOK, FieldsOK, StagsOK, MrsOK, InUse, WithStag
  <1>7. PblsOK'
    BY <1>1, <1>2, MemRegionsAssumption DEF MemInv, MemTypeOK, RegsOK, PblsOK, InUse
  <1>p. mem_wrs \in Seq(Writes) /\ Pending' = Pending /\ OneEach'
        /\ \A w \in Pending : w.for \in Regions
    BY <1>1, PendingType DEF Pending, OneEach, MemInv, MemTypeOK, QueueOK
  <1>9. WritesAwaited'
    BY <1>1, <1>2, <1>p DEF MemInv, QueueOK, WritesAwaited, Matches, Waiting
  <1>10. StagWrites'
    BY <1>1, <1>2, <1>p DEF MemInv, QueueOK, StagWrites, WithStag
  <1>11. PblWrites'
    BY <1>1, <1>2, <1>p DEF MemInv, QueueOK, PblWrites, InUse
  <1>12. PagesHold' /\ EntriesHold'
    BY <1>1, <1>2 DEF MemInv, AdapterOK, PagesHold, EntriesHold, WithStag, InUse
  <1>13. EntriesOwned' /\ EntriesGone'
    BY <1>1, <1>2 DEF MemInv, AdapterOK, EntriesOwned, EntriesGone, WithStag
  <1>14. LossBound'
    <2>1. LostStags' = LostStags
      BY <1>1, <1>2 DEF LostStags, Kept, WithStag
    <2> QED BY <1>1, <2>1 DEF MemInv, LossBound
  <1> QED BY <1>4, <1>5, <1>7, <1>p, <1>9, <1>10, <1>11, <1>12, <1>13,
             <1>14 DEF MemInv, RegsOK, QueueOK, AdapterOK

(* A reply that is late disables the device: nothing is written any more.  *)
LEMMA ReplyLateStep ==
  ASSUME MemInv, NEW m \in Regions, ReplyLate(m)
  PROVE  MemInv'
  <1>1. /\ RegTypeOK /\ reg[m].at \in Waiting /\ InUse(m) /\ reg[m].reply = "none"
        /\ disabled' = TRUE
        /\ UNCHANGED <<tpt_table, pbl_pool, mrs, mem_wrs, tpt, pages, left, refused, regfails>>
    BY DEF ReplyLate, MemInv, MemTypeOK, InUse, Waiting
  <1>2. Moves(m, reg[m].at, reg[m].stag, "error")
    <2>1. Reply(m, "error")
      BY <1>1 DEF ReplyLate, Reply
    <2> QED BY <1>1, <2>1, ReplyMoves DEF Replies
  <1>3. /\ RegTypeOK' /\ \A n \in Regions \ {m} : reg'[n] = reg[n]
        /\ reg'[m].at = reg[m].at /\ reg'[m].stag = reg[m].stag /\ reg'[m].reply = "error"
        /\ reg'[m].kind = reg[m].kind /\ reg'[m].pbl = reg[m].pbl
    BY <1>2 DEF Moves
  <1>4. MemTypeOK'
    BY <1>1, <1>3 DEF MemInv, MemTypeOK
  <1>5. FieldsOK' /\ StagsOK' /\ MrsOK'
    BY <1>1, <1>3 DEF MemInv, RegsOK, FieldsOK, StagsOK, MrsOK, InUse
  <1>7. PblsOK'
    BY <1>1, <1>3 DEF MemInv, RegsOK, PblsOK, InUse
  <1>p. mem_wrs \in Seq(Writes) /\ Pending' = Pending /\ OneEach'
        /\ \A w \in Pending : w.for \in Regions
    BY <1>1, PendingType DEF Pending, OneEach, MemInv, MemTypeOK, QueueOK
  <1>9. WritesAwaited'
    BY <1>1, <1>3, <1>p DEF MemInv, QueueOK, WritesAwaited, Matches
  <1>10. StagWrites'
    BY <1>1, <1>3, <1>p DEF MemInv, QueueOK, StagWrites
  <1>11. PblWrites'
    BY <1>1, <1>3, <1>p DEF MemInv, QueueOK, PblWrites, InUse
  <1>12. PagesHold' /\ EntriesHold'
    BY <1>1, <1>3 DEF MemInv, AdapterOK, PagesHold, EntriesHold, InUse, Waiting
  <1>13. EntriesOwned' /\ EntriesGone' /\ LossBound'
    BY <1>1 DEF EntriesOwned, EntriesGone, LossBound
  <1> QED BY <1>4, <1>5, <1>7, <1>p, <1>9, <1>10, <1>11, <1>12, <1>13
             DEF MemInv, RegsOK, QueueOK, AdapterOK

-----------------------------------------------------------------------------
(* A call writes: its region waits, and the write joins the queue, which   *)
(* has none of the region's, as the device works.                          *)
LEMMA WritesKeep ==
  ASSUME MemInv, NEW m \in Regions, InUse(m), reg[m].at \notin Waiting,
         NEW a \in Waiting, NEW s \in Stags \cup {NoStag}, Moves(m, a, s, "none"),
         NEW wr \in Writes, wr.for = m, mem_wrs' = Append(mem_wrs, wr), Matches(wr)',
         ~disabled,
         UNCHANGED <<pbl_pool, mrs, tpt, pages, left, disabled, refused, regfails>>,
         \/ a = "pages_sent" /\ reg[m].at = "pages" /\ s = NoStag /\ tpt_table' = tpt_table
         \/ a = "tpt_sent" /\ reg[m].at = "register" /\ s \in tpt_table
              /\ tpt_table' = tpt_table \ {s}
         \/ a = "reset_sent" /\ reg[m].at = "reset" /\ s = reg[m].stag
              /\ tpt_table' = tpt_table
  PROVE  MemInv'
  <1>1. /\ RegTypeOK /\ RegTypeOK' /\ \A n \in Regions \ {m} : reg'[n] = reg[n]
        /\ reg'[m].at = a /\ reg'[m].stag = s /\ reg'[m].reply = "none"
        /\ reg'[m].kind = reg[m].kind /\ reg'[m].pbl = reg[m].pbl
    BY DEF Moves, MemInv, MemTypeOK
  <1>a. /\ tpt_table \subseteq Stags /\ mem_wrs \in Seq(Writes) /\ OneEach
        /\ reg[m].at \in {"pages", "register", "reset"} /\ reg[m].stag \in Stags \cup {NoStag}
        /\ tpt_table' \subseteq tpt_table
    BY RegionFields DEF MemInv, MemTypeOK, QueueOK
  <1>b. \A w \in Pending : w \in Writes /\ w.for \in Regions /\ w.for # m
                             /\ reg[w.for].at \in Waiting /\ reg[w.for].reply = "none"
                             /\ Matches(w)
    BY <1>a, PendingType DEF MemInv, QueueOK, WritesAwaited
  <1>p. mem_wrs' \in Seq(Writes) /\ Pending' = Pending \cup {wr} /\ OneEach'
    BY <1>a, <1>b, PendingAppend
  <1>2. MemTypeOK'
    BY <1>1, <1>a, <1>p DEF MemInv, MemTypeOK
  <1>3. FieldsOK'
    BY <1>1, <1>a, MemRegionsAssumption
       DEF MemInv, RegsOK, FieldsOK, InUse, WithStag, Waiting
  <1>4. StagsOK'
    BY <1>1, <1>a DEF MemInv, RegsOK, StagsOK, WithStag, Waiting
  <1>5. PblsOK'
    BY <1>1, <1>a DEF MemInv, RegsOK, PblsOK, InUse, Waiting
  <1>6. MrsOK'
    BY <1>1, <1>a DEF MemInv, RegsOK, MrsOK, Waiting
  <1>7. WritesAwaited'
    BY <1>1, <1>b, <1>p DEF WritesAwaited, Matches
  <1>8. StagWrites'
    <2> SUFFICES ASSUME NEW w \in Pending \cup {wr}, w.op # "pages",
                        NEW n \in Regions, reg'[n].at \in WithStag, reg'[n].stag = w.stag
                 PROVE  n = w.for /\ reg'[n].at \in Waiting
      BY <1>p DEF StagWrites
    <2>1. CASE w = wr
      <3>1. reg'[m].at \in WithStag /\ reg'[m].stag = w.stag
        BY <2>1 DEF Matches, WithStag
      <3> QED BY <1>1, <1>4, <2>1, <3>1 DEF StagsOK
    <2>2. CASE w \in Pending
      <3>1. /\ reg[w.for].at \in WithStag /\ reg[w.for].stag = w.stag
            /\ reg'[w.for] = reg[w.for]
        BY <1>1, <1>b, <2>2 DEF Matches, WithStag
      <3> QED BY <1>1, <1>b, <1>4, <2>2, <3>1 DEF StagsOK
    <2> QED BY <2>1, <2>2
  <1>9. PblWrites'
    <2> SUFFICES ASSUME NEW w \in Pending \cup {wr}, w.op = "pages",
                        NEW n \in Regions, InUse(n)', reg'[n].kind = "user",
                        reg'[n].pbl = w.pbl
                 PROVE  n = w.for /\ reg'[n].at = "pages_sent" /\ reg'[n].reply # "ok"
      BY <1>p DEF PblWrites
    <2>0. reg'[n].pbl # NoPbl
      BY <1>3 DEF FieldsOK
    <2>1. CASE w = wr
      <3>1. reg'[m].at = "pages_sent" /\ reg'[m].pbl = w.pbl /\ InUse(m)'
        BY <2>1 DEF Matches, InUse
      <3> QED BY <1>1, <1>5, <2>0, <2>1, <3>1 DEF PblsOK
    <2>2. CASE w \in Pending
      <3>1. reg'[w.for].at = "pages_sent" /\ reg'[w.for].pbl = w.pbl /\ InUse(w.for)'
            /\ reg'[w.for].reply = "none"
        BY <1>1, <1>b, <2>2 DEF Matches, InUse
      <3> QED BY <1>b, <1>5, <2>0, <2>2, <3>1 DEF PblsOK
    <2> QED BY <2>1, <2>2
  <1>10. PagesHold' /\ EntriesHold'
    BY <1>1, <1>a DEF MemInv, AdapterOK, PagesHold, EntriesHold, WithStag, InUse, Waiting
  <1>11. EntriesOwned'
    BY <1>1, <1>a DEF MemInv, AdapterOK, EntriesOwned, WithStag
  <1>12. EntriesGone'
    <2> SUFFICES ASSUME NEW n \in Regions,
                        \/ reg'[n].at = "tpt_sent" /\ reg'[n].reply # "ok"
                        \/ reg'[n].at = "reset_sent" /\ reg'[n].reply # "none"
                 PROVE  reg'[n].stag \notin DOMAIN tpt \ left
      BY DEF EntriesGone
    <2>1. CASE n # m
      BY <1>1, <2>1 DEF MemInv, AdapterOK, EntriesGone
    <2>2. CASE n = m
      BY <1>1, <1>a, <2>2 DEF MemInv, AdapterOK, EntriesOwned, RegsOK, StagsOK
    <2> QED BY <2>1, <2>2
  <1>13. LossBound'
    <2>1. LostStags' \subseteq LostStags
      BY <1>1, <1>a DEF LostStags, Kept, WithStag
    <2> QED BY <1>1, <2>1, LossMonotone, LostFinite DEF MemInv, LossBound, MemTypeOK
  <1> QED BY <1>2, <1>3, <1>4, <1>5, <1>6, <1>p, <1>7, <1>8, <1>9, <1>10, <1>11,
             <1>12, <1>13 DEF MemInv, RegsOK, QueueOK, AdapterOK

LEMMA WritePagesStep ==
  ASSUME MemInv, NEW m \in Regions, WritePages(m)
  PROVE  MemInv'
  <1>1. /\ RegTypeOK /\ InUse(m) /\ reg[m].at = "pages" /\ reg[m].kind = "user"
        /\ reg[m] \in RegionRecs /\ reg[m].stag = NoStag
        /\ reg[m].pbl \in Pbls \cup {NoPbl}
        /\ UNCHANGED <<tpt_table, pbl_pool, mrs, tpt, pages, left, disabled, refused>>
        /\ regfails \in Nat
    BY RegionFields
       DEF WritePages, MemInv, MemTypeOK, RegsOK, FieldsOK, InUse, WithStag
  <1>2. ASSUME ~disabled, UNCHANGED regfails,
               Write(m, reg[m], [op |-> "pages", for |-> m, pbl |-> reg[m].pbl], "pages_sent")
        PROVE  MemInv'
    <2>1. PICK wr \in Writes : /\ wr.for = m /\ wr.op = "pages" /\ wr.pbl = reg[m].pbl
                               /\ wr = [op |-> "pages", for |-> m, pbl |-> reg[m].pbl]
      BY <1>1 DEF Writes
    <2>2. Write(m, reg[m], wr, "pages_sent")
      BY <1>2, <2>1
    <2>3. Moves(m, "pages_sent", NoStag, "none") /\ mem_wrs' = Append(mem_wrs, wr)
      BY <1>1, <2>2, WriteMoves DEF Places
    <2>4. Matches(wr)'
      BY <2>1, <2>3 DEF Matches, Moves
    <2> QED BY <1>1, <1>2, <2>1, <2>3, <2>4, WritesKeep DEF Waiting
  <1>3. ASSUME GivesUp(m), UNCHANGED mem_wrs, regfails' \in Nat, regfails' >= regfails
        PROVE  MemInv'
    <2>1. Moves(m, "free_pbl", NoStag, "none")
      BY <1>1, <1>3, GivesUpMoves
    <2> QED BY <1>1, <1>3, <2>1, GivesUpKeeps DEF WithStag, Waiting
  <1> QED BY <1>1, <1>2, <1>3 DEF WritePages, NoMemory

LEMMA RegisterStep ==
  ASSUME MemInv, NEW m \in Regions, Register(m)
  PROVE  MemInv'
  <1>1. /\ RegTypeOK /\ InUse(m) /\ reg[m].at = "register"
        /\ reg[m] \in RegionRecs /\ reg[m].stag = NoStag
        /\ reg[m].pbl \in Pbls \cup {NoPbl}
        /\ UNCHANGED <<pbl_pool, mrs, tpt, pages, left, disabled, refused>>
        /\ regfails \in Nat /\ tpt_table \subseteq Stags
    BY RegionFields
       DEF Register, MemInv, MemTypeOK, RegsOK, FieldsOK, InUse, WithStag
  <1>2. ASSUME NEW s \in tpt_table, ~disabled, UNCHANGED regfails,
               tpt_table' = tpt_table \ {s},
               Write(m, [reg[m] EXCEPT !.stag = s],
                     [op |-> "set", for |-> m, stag |-> s, pbl |-> reg[m].pbl], "tpt_sent")
        PROVE  MemInv'
    <2> DEFINE r0 == [reg[m] EXCEPT !.stag = s]
    <2>1. PICK wr \in Writes :
            /\ wr.for = m /\ wr.op = "set" /\ wr.pbl = reg[m].pbl /\ wr.stag = s
            /\ wr = [op |-> "set", for |-> m, stag |-> s, pbl |-> reg[m].pbl]
      BY <1>1 DEF Writes
    <2>2. /\ r0 \in RegionRecs /\ r0.kind = reg[m].kind /\ r0.pbl = reg[m].pbl
          /\ r0.stag = s
      BY <1>1 DEF RegionRecs
    <2>3. Write(m, r0, wr, "tpt_sent")
      BY <1>2, <2>1
    <2> HIDE DEF r0
    <2>4. Moves(m, "tpt_sent", s, "none") /\ mem_wrs' = Append(mem_wrs, wr)
      BY <1>1, <2>2, <2>3, WriteMoves DEF Places
    <2>5. Matches(wr)'
      BY <2>1, <2>4 DEF Matches, Moves
    <2> QED BY <1>1, <1>2, <2>1, <2>4, <2>5, WritesKeep DEF Waiting
  <1>3. ASSUME GivesUp(m), UNCHANGED <<tpt_table, mem_wrs>>, regfails' \in Nat,
               regfails' >= regfails
        PROVE  MemInv'
    <2>1. Moves(m, "free_pbl", NoStag, "none")
      BY <1>1, <1>3, GivesUpMoves
    <2> QED BY <1>1, <1>3, <2>1, GivesUpKeeps DEF WithStag, Waiting
  <1>4. \/ \E s \in tpt_table :
             /\ ~disabled /\ tpt_table' = tpt_table \ {s} /\ UNCHANGED regfails
             /\ Write(m, [reg[m] EXCEPT !.stag = s],
                      [op |-> "set", for |-> m, stag |-> s, pbl |-> reg[m].pbl], "tpt_sent")
        \/ /\ GivesUp(m) /\ UNCHANGED <<tpt_table, mem_wrs>>
           /\ UNCHANGED regfails \/ regfails' = regfails + 1
    BY DEF Register, NoMemory
  <1>5. UNCHANGED regfails \/ regfails' = regfails + 1
          => regfails' \in Nat /\ regfails' >= regfails
    BY <1>1
  <1> QED BY <1>2, <1>3, <1>4, <1>5

(* A reset that is not written loses the index, to the allocation that     *)
(* failed or with the device, and leaves the entry.                        *)
LEMMA ResetTptStep ==
  ASSUME MemInv, NEW m \in Regions, ResetTpt(m)
  PROVE  MemInv'
  <1>1. /\ RegTypeOK /\ InUse(m) /\ reg[m].at = "reset"
        /\ reg[m] \in RegionRecs /\ reg[m].stag \in Stags
        /\ left' = IF reg'[m].at = "reset_sent" THEN left ELSE left \cup {reg[m].stag}
        /\ UNCHANGED <<tpt_table, pbl_pool, mrs, tpt, pages, disabled, refused>>
        /\ regfails \in Nat
    BY RegionFields
       DEF ResetTpt, MemInv, MemTypeOK, RegsOK, FieldsOK, InUse, WithStag
  <1>2. ASSUME ~disabled, UNCHANGED regfails,
               Write(m, reg[m], [op |-> "reset", for |-> m, stag |-> reg[m].stag], "reset_sent")
        PROVE  MemInv'
    <2>1. PICK wr \in Writes : /\ wr.for = m /\ wr.op = "reset" /\ wr.stag = reg[m].stag
                               /\ wr = [op |-> "reset", for |-> m, stag |-> reg[m].stag]
      BY <1>1 DEF Writes
    <2>2. Write(m, reg[m], wr, "reset_sent")
      BY <1>2, <2>1
    <2>3. Moves(m, "reset_sent", reg[m].stag, "none") /\ mem_wrs' = Append(mem_wrs, wr)
      BY <1>1, <2>2, WriteMoves DEF Places
    <2>4. Matches(wr)' /\ left' = left
      BY <1>1, <2>1, <2>3 DEF Matches, Moves
    <2> QED BY <1>1, <1>2, <2>1, <2>3, <2>4, WritesKeep DEF Waiting
  <1>3. ASSUME GivesUp(m), UNCHANGED mem_wrs,
               (disabled /\ UNCHANGED regfails) \/ regfails' = regfails + 1
        PROVE  MemInv'
    <2>1. Moves(m, "free_pbl", NoStag, "none")
      BY <1>1, <1>3, GivesUpMoves
    <2>2. left' = left \cup {reg[m].stag}
      BY <1>1, <2>1 DEF Moves
    <2>3. regfails' \in Nat /\ regfails' >= regfails
      BY <1>1, <1>3
    <2> QED BY <1>1, <1>3, <2>1, <2>2, <2>3, GivesUpKeeps DEF Waiting
  <1> QED BY <1>1, <1>2, <1>3 DEF ResetTpt, NoMemory

-----------------------------------------------------------------------------
(* The adapter answers the first write.                                    *)

\* What changes of the regions: the reply of the write's, if it waits.
Answered(m, v) ==
  /\ RegTypeOK'
  /\ \A n \in Regions :
       /\ reg'[n].at = reg[n].at /\ reg'[n].stag = reg[n].stag
       /\ reg'[n].kind = reg[n].kind /\ reg'[n].pbl = reg[n].pbl
       /\ (n # m \/ reg[n].at \notin Waiting) => reg'[n].reply = reg[n].reply
  /\ reg[m].at \in Waiting => reg'[m].reply = v

LEMMA ReplyAnswers ==
  ASSUME RegTypeOK, NEW m \in Regions, NEW v \in Replies, Reply(m, v)
  PROVE  Answered(m, v)
  <1>1. CASE reg[m].at \in Waiting
    <2>1. Moves(m, reg[m].at, reg[m].stag, v)
      BY <1>1, ReplyMoves
    <2> QED BY <1>1, <2>1 DEF Answered, Moves
  <1>2. CASE reg[m].at \notin Waiting
    <2>1. reg' = reg
      BY <1>2, ReplyMoves
    <2> QED BY <1>2, <2>1 DEF Answered, RegTypeOK
  <1> QED BY <1>1, <1>2

(* The driver's side, and the writes that stay, whatever the answer.       *)
LEMMA AnsweredKeeps ==
  ASSUME MemInv, mem_wrs # <<>>, mem_wrs' = Tail(mem_wrs), NEW v \in Replies,
         NEW m \in Regions, m = Head(mem_wrs).for, Answered(m, v),
         UNCHANGED <<tpt_table, pbl_pool, mrs, disabled, regfails>>, refused' \in Nat
  PROVE  MemTypeOK' /\ RegsOK' /\ QueueOK'
  <1>1. /\ mem_wrs' \in Seq(Writes) /\ OneEach'
        /\ \A w \in Pending' : w \in Pending /\ w.for # m /\ w.for \in Regions
    BY PendingTail, PendingType DEF MemInv, MemTypeOK, QueueOK
  <1>2. MemTypeOK'
    BY <1>1 DEF MemInv, MemTypeOK, Answered
  <1>3. FieldsOK'
    BY DEF MemInv, RegsOK, FieldsOK, Answered, InUse
  <1>4. StagsOK' /\ MrsOK'
    BY DEF MemInv, RegsOK, StagsOK, MrsOK, Answered
  <1>5. PblsOK'
    BY DEF MemInv, RegsOK, PblsOK, Answered, InUse
  <1>6. WritesAwaited'
    BY <1>1 DEF MemInv, QueueOK, WritesAwaited, Matches, Answered
  <1>7. StagWrites'
    BY <1>1 DEF MemInv, QueueOK, StagWrites, Answered
  <1>8. PblWrites'
    BY <1>1 DEF MemInv, QueueOK, PblWrites, Answered, InUse
  <1> QED BY <1>1, <1>2, <1>3, <1>4, <1>5, <1>6, <1>7, <1>8 DEF RegsOK, QueueOK

LEMMA AdapterRefusesStep ==
  ASSUME MemInv, AdapterRefuses
  PROVE  MemInv'
  <1>1. PICK w \in Writes : w = Head(mem_wrs) /\ w \in Pending /\ w.for \in Regions
    BY PendingTail, PendingType DEF AdapterRefuses, MemInv, MemTypeOK, QueueOK
  <1>2. PICK m \in Regions : m = w.for
    BY <1>1
  <1>3. /\ mem_wrs # <<>> /\ mem_wrs' = Tail(mem_wrs) /\ Reply(m, "error")
        /\ left' = IF w.op = "reset" THEN left \cup {w.stag} ELSE left
        /\ UNCHANGED <<tpt_table, pbl_pool, mrs, tpt, pages, disabled, regfails>>
        /\ refused' = refused + 1 /\ refused \in Nat /\ regfails \in Nat /\ RegTypeOK
    BY <1>1, <1>2 DEF AdapterRefuses, MemInv, MemTypeOK
  <1>4. Answered(m, "error")
    BY <1>3, ReplyAnswers DEF Replies
  <1>5. MemTypeOK' /\ RegsOK' /\ QueueOK'
    BY <1>1, <1>2, <1>3, <1>4, AnsweredKeeps DEF Replies
  <1>6. reg[m].at \in Waiting => Matches(w) /\ reg[m].reply # "ok"
    BY <1>1, <1>2 DEF MemInv, QueueOK, WritesAwaited
  <1>7. PagesHold' /\ EntriesHold'
    BY <1>3, <1>4, <1>6
       DEF Answered, MemInv, AdapterOK, PagesHold, EntriesHold, Waiting, InUse
  <1>8. EntriesOwned'
    BY <1>3, <1>4 DEF Answered, MemInv, AdapterOK, EntriesOwned
  <1>9. EntriesGone'
    BY <1>2, <1>3, <1>4, <1>6
       DEF Answered, MemInv, AdapterOK, EntriesGone, Matches, Waiting
  <1>10. LossBound'
    <2>1. LostStags' \subseteq LostStags \cup {reg[m].stag}
      BY <1>3, <1>4 DEF LostStags, Kept, Answered
    <2>2. /\ Cardinality(LostStags') \in Nat
          /\ Cardinality(LostStags') <= Cardinality(LostStags) + 1
      BY <2>1, LossOfOne
    <2> QED BY <1>3, <2>2, LostFinite DEF MemInv, LossBound
  <1> QED BY <1>5, <1>7, <1>8, <1>9, <1>10 DEF MemInv, AdapterOK

LEMMA AdapterWritesStep ==
  ASSUME MemInv, AdapterWrites
  PROVE  MemInv'
  <1>1. PICK w \in Writes : w = Head(mem_wrs) /\ w \in Pending /\ w.for \in Regions
    BY PendingTail, PendingType DEF AdapterWrites, MemInv, MemTypeOK, QueueOK
  <1>2. PICK m \in Regions : m = w.for
    BY <1>1
  <1>3. /\ mem_wrs # <<>> /\ mem_wrs' = Tail(mem_wrs) /\ Reply(m, "ok")
        /\ UNCHANGED <<tpt_table, pbl_pool, mrs, disabled, refused, regfails>>
        /\ refused \in Nat /\ regfails \in Nat /\ RegTypeOK
    BY <1>1, <1>2 DEF AdapterWrites, MemInv, MemTypeOK
  <1>4. Answered(m, "ok")
    BY <1>3, ReplyAnswers DEF Replies
  <1>5. MemTypeOK' /\ RegsOK' /\ QueueOK'
    BY <1>1, <1>2, <1>3, <1>4, AnsweredKeeps DEF Replies
  <1>6. /\ reg[m].at \in Waiting => Matches(w) /\ reg[m].reply # "ok"
        /\ ~disabled => reg[m].at \in Waiting
    BY <1>1, <1>2 DEF MemInv, QueueOK, WritesAwaited
  <1>10. LossBound'
    <2>1. LostStags' \subseteq LostStags
      BY <1>3, <1>4 DEF LostStags, Kept, Answered, Waiting
    <2> QED BY <1>3, <2>1, LossMonotone, LostFinite DEF MemInv, LossBound
  <1>11. CASE w.op = "pages"
    <2>1. UNCHANGED <<tpt, left>> /\ pages' = Put(pages, w.pbl, m)
      BY <1>1, <1>2, <1>11 DEF AdapterWrites
    <2>2. /\ DOMAIN pages' = DOMAIN pages \cup {w.pbl} /\ pages'[w.pbl] = m
          /\ \A p \in DOMAIN pages : p # w.pbl => pages'[p] = pages[p]
      BY <2>1 DEF Put
    <2>3. PagesHold'
      <3> SUFFICES ASSUME NEW n \in Regions, InUse(n)', reg'[n].kind = "user",
                          \/ reg'[n].at \in WithStag \cup {"register"}
                          \/ reg'[n].at = "pages_sent" /\ reg'[n].reply = "ok"
                   PROVE  reg'[n].pbl \in DOMAIN pages' /\ pages'[reg'[n].pbl] = n
        BY DEF PagesHold
      <3>1. CASE reg[n].pbl = w.pbl
        <4>1. n = m
          BY <1>1, <1>2, <1>4, <1>11, <3>1
             DEF Answered, MemInv, QueueOK, PblWrites, InUse, WithStag
        <4> QED BY <1>4, <2>2, <3>1, <4>1 DEF Answered
      <3>2. CASE reg[n].pbl # w.pbl
        <4>1. ~(n = m /\ reg[n].at = "pages_sent")
          BY <1>2, <1>6, <1>11, <3>2 DEF Matches, Waiting
        <4>2. reg[n].pbl \in DOMAIN pages /\ pages[reg[n].pbl] = n
          BY <1>4, <4>1 DEF Answered, MemInv, AdapterOK, PagesHold, InUse
        <4> QED BY <1>4, <2>2, <3>2, <4>2 DEF Answered
      <3> QED BY <3>1, <3>2
    <2>4. EntriesHold' /\ EntriesOwned' /\ EntriesGone'
      BY <1>2, <1>3, <1>4, <1>6, <1>11, <2>1
         DEF Answered, MemInv, AdapterOK, EntriesHold, EntriesOwned, EntriesGone,
             Matches, Waiting
    <2> QED BY <1>5, <1>10, <2>3, <2>4 DEF MemInv, AdapterOK
  <1>12. CASE w.op # "pages"
    <2>1. /\ UNCHANGED pages /\ left' = left \ {w.stag}
      BY <1>1, <1>12 DEF AdapterWrites
    <2>2. PagesHold'
      BY <1>2, <1>4, <1>6, <1>12, <2>1
         DEF Answered, MemInv, AdapterOK, PagesHold, Matches, Waiting, InUse
    \* No other region relies on the index that is written.
    <2>3. \A n \in Regions : reg[n].at \in WithStag /\ reg[n].stag = w.stag =>
            /\ n = m /\ reg[n].at \in Waiting /\ reg[n].reply # "ok"
      BY <1>1, <1>2, <1>6, <1>12 DEF MemInv, QueueOK, StagWrites
    <2>4. CASE w.op = "set"
      <3>1. tpt' = Put(tpt, w.stag, [for |-> m, pbl |-> w.pbl])
        BY <1>1, <1>2, <2>4 DEF AdapterWrites
      <3>2. /\ DOMAIN tpt' = DOMAIN tpt \cup {w.stag}
            /\ tpt'[w.stag] = [for |-> m, pbl |-> w.pbl]
            /\ \A s \in DOMAIN tpt : s # w.stag => tpt'[s] = tpt[s]
        BY <3>1 DEF Put
      <3>3. reg[m].at \in Waiting =>
              reg[m].at = "tpt_sent" /\ reg[m].stag = w.stag /\ reg[m].pbl = w.pbl
        BY <1>2, <1>6, <2>4 DEF Matches
      <3>4. EntriesHold'
        BY <1>4, <2>3, <3>2, <3>3
           DEF Answered, MemInv, AdapterOK, EntriesHold, WithStag, Waiting
      <3>5. EntriesOwned'
        BY <1>3, <1>4, <1>6, <2>1, <3>2, <3>3
           DEF Answered, MemInv, AdapterOK, EntriesOwned, WithStag
      <3>6. EntriesGone'
        BY <1>3, <1>4, <1>6, <2>1, <2>3, <3>2, <3>3
           DEF Answered, MemInv, AdapterOK, EntriesGone, WithStag, Waiting
      <3> QED BY <1>5, <1>10, <2>2, <3>4, <3>5, <3>6 DEF MemInv, AdapterOK
    <2>5. CASE w.op = "reset"
      <3>1. tpt' = Drop(tpt, w.stag)
        BY <1>1, <1>2, <2>5 DEF AdapterWrites
      <3>2. /\ DOMAIN tpt' = DOMAIN tpt \ {w.stag}
            /\ \A s \in DOMAIN tpt \ {w.stag} : tpt'[s] = tpt[s]
        BY <3>1 DEF Drop, Restrict
      <3>3. reg[m].at \in Waiting => reg[m].at = "reset_sent" /\ reg[m].stag = w.stag
        BY <1>2, <1>6, <2>5 DEF Matches
      <3>4. EntriesHold'
        BY <1>4, <2>3, <3>2, <3>3
           DEF Answered, MemInv, AdapterOK, EntriesHold, WithStag, Waiting
      <3>5. EntriesOwned'
        BY <1>3, <1>4, <2>1, <3>2
           DEF Answered, MemInv, AdapterOK, EntriesOwned, WithStag
      <3>6. EntriesGone'
        BY <1>3, <1>4, <1>6, <2>1, <2>3, <3>2, <3>3
           DEF Answered, MemInv, AdapterOK, EntriesGone, WithStag, Waiting
      <3> QED BY <1>5, <1>10, <2>2, <3>4, <3>5, <3>6 DEF MemInv, AdapterOK
    <2> QED BY <1>12, <2>4, <2>5 DEF Writes
  <1> QED BY <1>11, <1>12

-----------------------------------------------------------------------------
LEMMA MemInvInit == MemInit => MemInv
  <1> SUFFICES ASSUME MemInit PROVE MemInv OBVIOUS
  <1>1. /\ mem_wrs \in Seq(Writes) /\ Len(mem_wrs) = 0
        /\ DOMAIN mrs = {} /\ DOMAIN tpt = {} /\ DOMAIN pages = {}
    BY EmptySeq, LenProperties DEF MemInit
  <1>2. \A m \in Regions : reg[m] = NoRegion /\ reg[m].at = "none"
    BY DEF MemInit, NoRegion
  <1>3. MemTypeOK
    BY <1>1 DEF MemInit, MemTypeOK, RegTypeOK
  <1>4. RegsOK
    BY <1>1, <1>2 DEF MemInit, RegsOK, FieldsOK, StagsOK, PblsOK, MrsOK, InUse, WithStag
  <1>5. Pending = {}
    BY <1>1 DEF Pending
  <1>6. QueueOK
    BY <1>1, <1>5 DEF QueueOK, OneEach, WritesAwaited, StagWrites, PblWrites
  <1>7. AdapterOK
    BY <1>1, <1>2 DEF AdapterOK, PagesHold, EntriesHold, EntriesOwned, EntriesGone,
       InUse, WithStag
  <1>8. LossBound
    <2>1. LostStags = {}
      BY DEF MemInit, LostStags
    <2> QED BY <2>1, FS_EmptySet DEF LossBound, MemInit
  <1> QED BY <1>3, <1>4, <1>6, <1>7, <1>8 DEF MemInv

LEMMA MemInvStep == MemInv /\ [MemNext]_memVars => MemInv'
  <1> SUFFICES ASSUME MemInv, [MemNext]_memVars PROVE MemInv' OBVIOUS
  <1>1. CASE UNCHANGED memVars
    <2>1. MemTypeOK' /\ RegsOK'
      BY <1>1 DEF memVars, MemInv, MemTypeOK, RegTypeOK, RegsOK, FieldsOK, StagsOK,
         PblsOK, MrsOK, InUse
    <2>2. Pending' = Pending
      BY <1>1 DEF memVars, Pending
    <2>3. QueueOK'
      BY <1>1, <2>2 DEF memVars, MemInv, QueueOK, OneEach, WritesAwaited, StagWrites,
         PblWrites, Matches, InUse
    <2>4. AdapterOK'
      BY <1>1 DEF memVars, MemInv, AdapterOK, PagesHold, EntriesHold, EntriesOwned,
         EntriesGone, InUse
    <2>5. LossBound'
      BY <1>1 DEF memVars, MemInv, LossBound, LostStags, Kept
    <2> QED BY <2>1, <2>3, <2>4, <2>5 DEF MemInv
  <1>2. ASSUME NEW m \in Regions,
               StartCall(m) \/ WritePages(m) \/ PagesWritten(m) \/ Register(m)
                 \/ Registered(m)
        PROVE  MemInv'
    BY <1>2, StartCallStep, WritePagesStep, PagesWrittenStep, RegisterStep, RegisteredStep
  <1>3. ASSUME NEW m \in Regions,
               Dereg(m) \/ ResetTpt(m) \/ TptReset(m) \/ FreePbl(m) \/ ReplyLate(m)
        PROVE  MemInv'
    BY <1>3, DeregStep, ResetTptStep, TptResetStep, FreePblStep, ReplyLateStep
  <1>4. CASE AdapterWrites \/ AdapterRefuses
    BY <1>4, AdapterWritesStep, AdapterRefusesStep
  <1> QED BY <1>1, <1>2, <1>3, <1>4 DEF MemNext

(* What the run checks follows.                                            *)
LEMMA MemInvImplies == MemInv => RegionsSound
  <1> SUFFICES ASSUME MemInv PROVE RegionsSound OBVIOUS
  <1>1. /\ RegTypeOK /\ FieldsOK /\ StagsOK /\ PblsOK /\ MrsOK
        /\ \A m \in Regions : InUse(m) <=> reg[m] # NoRegion
    BY RegionFields DEF MemInv, MemTypeOK, RegsOK
  <1>2. HasStag = {m \in Regions : reg[m].at \in WithStag}
    BY DEF HasStag, WithStag
  <1>3. HasPbl = {m \in Regions : InUse(m) /\ reg[m].pbl # NoPbl}
    BY <1>1 DEF HasPbl
  <1>4. RegionsApart
    BY <1>1, <1>2, <1>3 DEF RegionsApart, StagsOK, PblsOK, MrsOK
  <1>5. RegistrationsHold
    BY DEF MemInv, AdapterOK, PagesHold, EntriesHold, RegistrationsHold, InUse, WithStag
  <1>6. EntriesHaveOwners
    BY <1>2 DEF MemInv, AdapterOK, EntriesOwned, PagesHold, EntriesHaveOwners, InUse,
       WithStag
  <1>7. NothingLost
    <2>1. Pbls \ pbl_pool = {reg[m].pbl : m \in HasPbl}
      BY <1>1, <1>3, RegionFields, MemRegionsAssumption DEF PblsOK
    <2>2. ASSUME ~disabled
          PROVE  Cardinality(Stags \ (tpt_table \cup {reg[m].stag : m \in HasStag}))
                   <= refused + regfails
      <3> DEFINE L == Stags \ (tpt_table \cup {reg[m].stag : m \in HasStag})
      <3>1. L \subseteq LostStags
        BY <1>2 DEF LostStags, Kept
      <3>2. Cardinality(L) <= Cardinality(LostStags) /\ Cardinality(L) \in Nat
        BY <3>1, LostFinite, FS_Subset, FS_CardinalityType
      <3>3. Cardinality(LostStags) <= refused + regfails
            /\ refused \in Nat /\ regfails \in Nat
        BY <2>2 DEF MemInv, MemTypeOK, LossBound
      <3> HIDE DEF L
      <3>4. Cardinality(L) <= refused + regfails
        BY <3>2, <3>3, LostFinite
      <3> QED BY <3>4 DEF L
    <2> QED BY <2>1, <2>2 DEF NothingLost
  <1> QED BY <1>4, <1>5, <1>6, <1>7 DEF RegionsSound

(* Whatever calls run at once, and whichever writes are refused, late or   *)
(* lost with the device: a region's index and page list are its own, in    *)
(* the driver and in the adapter, a registered region works, and an index  *)
(* is lost only to a refusal, to an allocation that failed or with the     *)
(* device (mem.c).                                                         *)
THEOREM MemRegionsSound == MemSpec => []RegionsSound
  <1>1. MemSpec => []MemInv
    BY MemInvInit, MemInvStep, PTL DEF MemSpec
  <1> QED BY <1>1, MemInvImplies, PTL

(***************************************************************************)
(* A receive queue of the adapter: the buffers are where both sides think, *)
(* responses come in order, and a starving free list is seen to.           *)
(***************************************************************************)
(* Places in the rings, without remainders.                                *)
EntryAt(i, k) == IF i + k < RspSize THEN i + k ELSE i + k - RspSize
TurnAt(i, g, k) == IF i + k < RspSize THEN g ELSE 1 - g

(* The responses q are those in the entries from i on, in turn g; the      *)
(* others are of the turn before.                                          *)
ResponsesHold(i, g, r, q) ==
  /\ Len(q) <= RspSize
  /\ \A k \in 1 .. Len(q) : /\ r[EntryAt(i, k - 1)].gen = TurnAt(i, g, k - 1)
                            /\ r[EntryAt(i, k - 1)].pkt = q[k]
  /\ \A k \in Len(q) + 1 .. RspSize : r[EntryAt(i, k - 1)].gen = 1 - TurnAt(i, g, k - 1)

(* The free list f in the slots sd, of which the adapter takes next nx and *)
(* has fr, while a refill has added fi.                                    *)
BuffersHold(f, sd, nx, fr, fi) ==
  LET t == SlotDistance(f.cidx, nx)
  IN /\ f.pidx = SlotAfter(f.cidx, f.avail)
     /\ fr = f.avail - t - f.pend - fi
     /\ \A s \in FlSlots :
          /\ sd[s] = "none" <=> SlotDistance(f.cidx, s) >= f.avail
          /\ t <= SlotDistance(f.cidx, s) /\ SlotDistance(f.cidx, s) < f.avail
             => sd[s] = "mapped"

(* The packets of q lie one behind the other in the t slots from c on, of  *)
(* which the first is open to the driver when o is 1, the last to the      *)
(* adapter when w is true.                                                 *)
Carries(q, i) == q[i].n > 0
NoneFrom(q, i, j) == \A k \in i .. j : ~Carries(q, k)
Start(c, q, i) == SlotDistance(c, q[i].at)
Within(c, t, q) ==
  \A i \in 1 .. Len(q) :
    /\ Carries(q, i) => Start(c, q, i) + q[i].n <= t /\ (~q[i].new => q[i].n = 1)
    /\ q[i].new => Carries(q, i)
FirstAt(c, o, q) ==
  \A i \in 1 .. Len(q) : Carries(q, i) /\ NoneFrom(q, 1, i - 1) =>
    IF q[i].new THEN Start(c, q, i) = o ELSE Start(c, q, i) = 0 /\ o = 1
LastAt(c, t, q) ==
  \A i \in 1 .. Len(q) : Carries(q, i) /\ NoneFrom(q, i + 1, Len(q)) =>
    Start(c, q, i) + q[i].n = t
InOrder(c, q) ==
  \A i \in 1 .. Len(q) : \A j \in i + 1 .. Len(q) : Carries(q, i) /\ Carries(q, j) =>
    /\ Start(c, q, j) >= Start(c, q, i) + q[i].n - 1
    /\ NoneFrom(q, i + 1, j - 1) =>
         Start(c, q, j) = Start(c, q, i) + q[i].n - (IF q[j].new THEN 0 ELSE 1)
PacketsHold(c, o, t, w, q) ==
  /\ Within(c, t, q) /\ FirstAt(c, o, q) /\ LastAt(c, t, q) /\ InOrder(c, q)
  /\ NoneFrom(q, 1, Len(q)) => t = o
  /\ w => t > 0

(* What the GTS writes that are under way return.                          *)
SumOf(g) == IF Len(g) = 0 THEN 0 ELSE IF Len(g) = 1 THEN g[1] ELSE g[1] + g[2]
GtsSum == SumOf(gts)

PktRecs == [new : BOOLEAN, n : Nat, at : FlSlots]
RspEntries == [gen : 0 .. 1, pkt : PktRecs]
FlRecs == [cidx : FlSlots, pidx : FlSlots, avail : 0 .. FlCap, pend : 0 .. Unit - 1]
SgeRecs == [next : FlSlots, free : Nat, open : BOOLEAN, idx : 0 .. RspSize - 1,
            gen : 0 .. 1, credits : Nat, armed : BOOLEAN]
RxTypeOK ==
  /\ fl \in FlRecs
  /\ sdesc \in [FlSlots -> {"none", "mapped", "unmapped"}]
  /\ offset \in 0 .. 1
  /\ rspq \in [cidx : 0 .. RspSize - 1, gen : 0 .. 1]
  /\ rsp \in [0 .. RspSize - 1 -> RspEntries]
  /\ napi \in {"idle", "poll", "end", "ring", "done"}
  /\ missed \in BOOLEAN /\ work_done \in 0 .. Budget /\ filled \in Nat
  /\ gts \in Seq(Nat) /\ Len(gts) <= 2
  /\ starving \in BOOLEAN /\ timer \in {"idle", "check", "again"}
  /\ sge \in SgeRecs
  /\ todo \in Seq(PktRecs)
  /\ nrx \in Nat /\ nfails \in Nat

RxBuffers == /\ BuffersHold(fl, sdesc, sge.next, sge.free, filled)
             /\ filled # 0 => napi = "ring"
RxPackets == PacketsHold(fl.cidx, offset, SlotDistance(fl.cidx, sge.next), sge.open, todo)
RxResponses ==
  /\ ResponsesHold(rspq.cidx, rspq.gen, rsp, todo)
  /\ sge.idx = EntryAt(rspq.cidx, Len(todo)) /\ sge.gen = TurnAt(rspq.cidx, rspq.gen, Len(todo))
RxCredits == /\ sge.credits + Len(todo) + work_done + GtsSum = RspSize
             /\ napi = "idle" => work_done = 0
RxArmed == ~sge.armed => napi # "idle" \/ gts # <<>>
RxMarked == FlStarving(fl) /\ napi \in {"idle", "done"} => starving \/ timer # "idle"
RxInv == RxTypeOK /\ RxBuffers /\ RxPackets /\ RxResponses /\ RxCredits /\ RxArmed

-----------------------------------------------------------------------------
(* Sizes, and places in the rings.                                         *)

LEMMA RxSizes ==
  /\ FlSize \in Nat /\ Unit \in Nat /\ Unit >= 1 /\ Egress \in Nat
  /\ FlCap \in Nat /\ FlCap = FlSize - Unit /\ FlCap < FlSize
  /\ StarveThres \in Nat /\ StarveThres = 2 * Egress + 1
  /\ RspSize \in Nat /\ RspSize >= 1 /\ Budget \in Nat /\ Budget >= 1
  /\ \A n \in Frags : n \in Nat /\ n >= 1
  BY RxAssumption DEF StarveThres, FlCap

LEMMA RingModulus ==
  ASSUME NEW m \in Nat, m >= 1, NEW x \in Nat, x < 2 * m,
         NEW a \in Int, NEW c \in 0 .. m - 1, x = m * a + c
  PROVE  c = IF x < m THEN x ELSE x - m
  <1>2. a >= 0
    <2>1. CASE a <= -1
      <3>1. m * a <= -m BY <2>1
      <3> QED BY <3>1
    <2> QED BY <2>1
  <1>3. a <= 1
    <2>1. CASE a >= 2
      <3>1. m * a >= 2 * m BY <2>1
      <3> QED BY <3>1
    <2> QED BY <2>1
  <1>4. CASE a = 0
    <2>1. m * a = 0 BY <1>4
    <2> QED BY <2>1
  <1>5. CASE a = 1
    <2>1. m * a = m BY <1>5
    <2> QED BY <2>1
  <1> QED BY <1>2, <1>3, <1>4, <1>5

LEMMA SlotAfterIs ==
  ASSUME NEW s \in FlSlots, NEW n \in 0 .. FlSize
  PROVE  /\ SlotAfter(s, n) = IF s + n < FlSize THEN s + n ELSE s + n - FlSize
         /\ SlotAfter(s, n) \in FlSlots
  <1>1. s + n \in Nat /\ s + n < 2 * FlSize /\ FlSize \in Nat /\ FlSize >= 1 /\ s < FlSize
    BY RxSizes DEF FlSlots
  <1>2. (s + n) % FlSize = IF s + n < FlSize THEN s + n ELSE s + n - FlSize
    <2>1. PICK x : x = s + n
      OBVIOUS
    <2>2. x \in Nat /\ x < 2 * FlSize /\ FlSize \in Nat /\ FlSize >= 1
      BY <2>1, <1>1
    <2> DEFINE q == x \div FlSize
               r == x % FlSize
    <2>3. r \in 0 .. FlSize - 1 /\ q \in Int /\ x = FlSize * q + r
      BY <2>2
    <2>4. r = (s + n) % FlSize
      BY <2>1, Zenon
    <2> HIDE DEF q, r
    <2>5. r = IF x < FlSize THEN x ELSE x - FlSize
      BY ONLY <2>2, <2>3, RingModulus
    <2>6. x = s + n => (IF x < FlSize THEN x ELSE x - FlSize)
                         = IF s + n < FlSize THEN s + n ELSE s + n - FlSize
      BY <2>2, RxSizes DEF FlSlots
    <2> QED BY <2>1, <2>4, <2>5, <2>6, Zenon
  <1>3. SlotAfter(s, n) = IF s + n < FlSize THEN s + n ELSE s + n - FlSize
    BY <1>2, Zenon DEF SlotAfter
  <1>4. n \in Nat /\ n <= FlSize /\ s \in Nat
    BY RxSizes DEF FlSlots
  <1> QED BY <1>1, <1>3, <1>4 DEF FlSlots

LEMMA SlotDistanceIs ==
  ASSUME NEW a \in FlSlots, NEW b \in FlSlots
  PROVE  /\ SlotDistance(a, b) = IF b >= a THEN b - a ELSE b - a + FlSize
         /\ SlotDistance(a, b) \in 0 .. FlSize - 1
  <1>1. (b + FlSize - a) % FlSize
           = IF b + FlSize - a < FlSize THEN b + FlSize - a ELSE b + FlSize - a - FlSize
    <2>1. PICK x : x = b + FlSize - a
      OBVIOUS
    <2>2. x \in Nat /\ x < 2 * FlSize /\ FlSize \in Nat /\ FlSize >= 1
      BY <2>1, RxSizes DEF FlSlots
    <2> DEFINE q == x \div FlSize
               r == x % FlSize
    <2>3. r \in 0 .. FlSize - 1 /\ q \in Int /\ x = FlSize * q + r
      BY <2>2
    <2>4. r = (b + FlSize - a) % FlSize
      BY <2>1, Zenon
    <2> HIDE DEF q, r
    <2>5. r = IF x < FlSize THEN x ELSE x - FlSize
      BY ONLY <2>2, <2>3, RingModulus
    <2>6. x = b + FlSize - a => (IF x < FlSize THEN x ELSE x - FlSize)
                         = IF b + FlSize - a < FlSize THEN b + FlSize - a ELSE b + FlSize - a - FlSize
      BY <2>2, RxSizes DEF FlSlots
    <2> QED BY <2>1, <2>4, <2>5, <2>6, Zenon
  <1>2. SlotDistance(a, b)
           = IF b + FlSize - a < FlSize THEN b + FlSize - a ELSE b + FlSize - a - FlSize
    BY <1>1, Zenon DEF SlotDistance
  <1> QED BY RxSizes, <1>2 DEF FlSlots

(* Distances when one end moves.                                           *)
LEMMA SlotMoves ==
  ASSUME NEW c \in FlSlots, NEW s \in FlSlots, NEW n \in 0 .. FlSize
  PROVE  /\ n <= SlotDistance(c, s)
              => SlotDistance(SlotAfter(c, n), s) = SlotDistance(c, s) - n
         /\ n > SlotDistance(c, s)
              => SlotDistance(SlotAfter(c, n), s) = SlotDistance(c, s) - n + FlSize
         /\ SlotDistance(c, s) + n < FlSize
              => SlotDistance(c, SlotAfter(s, n)) = SlotDistance(c, s) + n
         /\ SlotDistance(c, s) >= 1
              => SlotDistance(c, SlotAfter(s, FlSize - 1)) = SlotDistance(c, s) - 1
         /\ SlotDistance(c, s) + n < FlSize
              => SlotAfter(c, SlotDistance(c, s) + n) = SlotAfter(s, n)
         /\ SlotDistance(c, c) = 0 /\ SlotAfter(c, 0) = c
  <1> DEFINE d == SlotDistance(c, s)
             After(x, k) == IF x + k < FlSize THEN x + k ELSE x + k - FlSize
             Apart(x, y) == IF y >= x THEN y - x ELSE y - x + FlSize
  <1>1. FlSize - 1 \in 0 .. FlSize /\ 0 \in 0 .. FlSize /\ FlSize \in Nat /\ FlSize >= 1
    BY RxSizes
  <1>2. c \in 0 .. FlSize - 1 /\ s \in 0 .. FlSize - 1 BY DEF FlSlots
  <1>3. d = Apart(c, s) /\ d \in 0 .. FlSize - 1 BY SlotDistanceIs
  <1>4. SlotAfter(c, n) = After(c, n) /\ SlotAfter(c, n) \in FlSlots BY SlotAfterIs
  <1>5. SlotAfter(s, n) = After(s, n) /\ SlotAfter(s, n) \in FlSlots BY SlotAfterIs
  <1>6. SlotAfter(s, FlSize - 1) = After(s, FlSize - 1) /\ SlotAfter(s, FlSize - 1) \in FlSlots
    BY <1>1, SlotAfterIs
  <1>7. SlotAfter(c, 0) = After(c, 0) /\ SlotDistance(c, c) = Apart(c, c)
    BY <1>1, SlotAfterIs, SlotDistanceIs
  <1>8. SlotDistance(SlotAfter(c, n), s) = Apart(After(c, n), s)
    BY <1>4, SlotDistanceIs, Zenon
  <1>9. SlotDistance(c, SlotAfter(s, n)) = Apart(c, After(s, n))
    BY <1>5, SlotDistanceIs, Zenon
  <1>10. SlotDistance(c, SlotAfter(s, FlSize - 1)) = Apart(c, After(s, FlSize - 1))
    BY <1>6, SlotDistanceIs, Zenon
  <1>11. d + n < FlSize => SlotAfter(c, d + n) = After(c, d + n)
    <2> SUFFICES ASSUME d + n < FlSize PROVE SlotAfter(c, d + n) = After(c, d + n)
      OBVIOUS
    <2>1. d + n \in 0 .. FlSize BY <1>1, <1>3
    <2> QED BY <2>1, SlotAfterIs
  <1>12. n <= d => Apart(After(c, n), s) = d - n BY <1>1, <1>2, <1>3
  <1>13. n > d => Apart(After(c, n), s) = d - n + FlSize BY <1>1, <1>2, <1>3
  <1>14. d + n < FlSize => Apart(c, After(s, n)) = d + n BY <1>1, <1>2, <1>3
  <1>15. d >= 1 => Apart(c, After(s, FlSize - 1)) = d - 1 BY <1>1, <1>2, <1>3
  <1>16. d + n < FlSize => After(c, d + n) = After(s, n) BY <1>1, <1>2, <1>3
  <1>17. Apart(c, c) = 0 /\ After(c, 0) = c BY <1>1, <1>2
  <1> HIDE DEF d, After, Apart
  <1>18. n <= d => SlotDistance(SlotAfter(c, n), s) = d - n BY <1>8, <1>12, Zenon
  <1>19. n > d => SlotDistance(SlotAfter(c, n), s) = d - n + FlSize BY <1>8, <1>13, Zenon
  <1>20. d + n < FlSize => SlotDistance(c, SlotAfter(s, n)) = d + n BY <1>9, <1>14, Zenon
  <1>21. d >= 1 => SlotDistance(c, SlotAfter(s, FlSize - 1)) = d - 1 BY <1>10, <1>15, Zenon
  <1>22. d + n < FlSize => SlotAfter(c, d + n) = SlotAfter(s, n) BY <1>5, <1>11, <1>16, Zenon
  <1> QED BY <1>7, <1>17, <1>18, <1>19, <1>20, <1>21, <1>22, Zenon DEF d

LEMMA SlotsFromIs ==
  ASSUME NEW x \in FlSlots, NEW n \in 0 .. FlSize, NEW s \in FlSlots
  PROVE  s \in SlotsFrom(x, n) <=> SlotDistance(x, s) < n
  <1>1. ASSUME NEW i \in 0 .. n - 1, s = SlotAfter(x, i)
        PROVE  SlotDistance(x, s) < n
    <2>1. i \in 0 .. FlSize /\ i < FlSize BY RxSizes
    <2>2. SlotDistance(x, SlotAfter(x, i)) = 0 + i
      BY <2>1, SlotMoves
    <2> QED BY <1>1, <2>2, RxSizes
  <1>2. ASSUME SlotDistance(x, s) < n PROVE s \in SlotsFrom(x, n)
    <2>1. SlotDistance(x, s) \in 0 .. n - 1 BY <1>2, SlotDistanceIs, RxSizes
    <2>2. s = SlotAfter(x, SlotDistance(x, s))
      <3>1. SlotDistance(x, s) + 0 < FlSize /\ SlotDistance(x, s) + 0 = SlotDistance(x, s)
        BY SlotDistanceIs, RxSizes
      <3>2. 0 \in 0 .. FlSize BY RxSizes
      <3> QED BY <3>1, <3>2, SlotMoves
    <2> QED BY <2>1, <2>2 DEF SlotsFrom
  <1> QED BY <1>1, <1>2 DEF SlotsFrom

-----------------------------------------------------------------------------
(* The responses.                                                          *)

(* The adapter writes a response behind the others.                        *)
LEMMA ResponseComes ==
  ASSUME NEW i \in 0 .. RspSize - 1, NEW g \in 0 .. 1, NEW q \in Seq(PktRecs),
         NEW r \in [0 .. RspSize - 1 -> RspEntries], NEW p \in PktRecs,
         ResponsesHold(i, g, r, q), Len(q) < RspSize,
         NEW si, si = EntryAt(i, Len(q)), NEW sg, sg = TurnAt(i, g, Len(q))
  PROVE  /\ ResponsesHold(i, g, [r EXCEPT ![si] = [gen |-> sg, pkt |-> p]], Append(q, p))
         /\ NextEntry(si, sg) = [idx |-> EntryAt(i, Len(q) + 1), gen |-> TurnAt(i, g, Len(q) + 1)]
         /\ si \in 0 .. RspSize - 1 /\ sg \in 0 .. 1
         /\ EntryAt(i, Len(q) + 1) \in 0 .. RspSize - 1 /\ TurnAt(i, g, Len(q) + 1) \in 0 .. 1
  <1> DEFINE r2 == [r EXCEPT ![si] = [gen |-> sg, pkt |-> p]]
             q2 == Append(q, p)
  <1>1. RspSize \in Nat /\ RspSize >= 1 /\ Len(q) \in Nat BY RxSizes
  <1>2. si \in 0 .. RspSize - 1 /\ sg \in 0 .. 1 BY <1>1 DEF EntryAt, TurnAt
  <1>3. \A k \in 1 .. RspSize : /\ EntryAt(i, k - 1) \in 0 .. RspSize - 1
                                /\ EntryAt(i, k - 1) = si <=> k = Len(q) + 1
    BY <1>1 DEF EntryAt
  <1>4. Len(q2) = Len(q) + 1 /\ q2[Len(q) + 1] = p /\ \A k \in 1 .. Len(q) : q2[k] = q[k]
    OBVIOUS
  <1>5. r2[si] = [gen |-> sg, pkt |-> p] /\ \A e \in 0 .. RspSize - 1 : e # si => r2[e] = r[e]
    BY <1>2
  <1>6. r2[si].gen = sg /\ r2[si].pkt = p BY <1>5
  <1> HIDE DEF r2, q2
  <1>7. \A k \in 1 .. Len(q2) : /\ r2[EntryAt(i, k - 1)].gen = TurnAt(i, g, k - 1)
                                /\ r2[EntryAt(i, k - 1)].pkt = q2[k]
    <2> TAKE k \in 1 .. Len(q2)
    <2>1. CASE k = Len(q) + 1
      <3>1. EntryAt(i, k - 1) = si /\ TurnAt(i, g, k - 1) = sg
        BY <2>1, <1>1
      <3> QED BY <1>4, <1>6, <2>1, <3>1
    <2>2. CASE k # Len(q) + 1
      <3>1. k \in 1 .. Len(q) /\ k \in 1 .. RspSize BY <1>1, <1>4, <2>2
      <3>2. r2[EntryAt(i, k - 1)] = r[EntryAt(i, k - 1)] BY <1>3, <1>5, <2>2, <3>1
      <3> QED BY <1>4, <3>1, <3>2 DEF ResponsesHold
    <2> QED BY <2>1, <2>2
  <1>8. \A k \in Len(q2) + 1 .. RspSize :
          r2[EntryAt(i, k - 1)].gen = 1 - TurnAt(i, g, k - 1)
    <2> TAKE k \in Len(q2) + 1 .. RspSize
    <2>1. k \in Len(q) + 1 .. RspSize /\ k \in 1 .. RspSize /\ k # Len(q) + 1
      BY <1>1, <1>4
    <2>2. r2[EntryAt(i, k - 1)] = r[EntryAt(i, k - 1)] BY <1>3, <1>5, <2>1
    <2> QED BY <2>1, <2>2 DEF ResponsesHold
  <1>9. ResponsesHold(i, g, r2, q2)
    BY <1>1, <1>4, <1>7, <1>8 DEF ResponsesHold
  <1>10. NextEntry(si, sg) = [idx |-> EntryAt(i, Len(q) + 1), gen |-> TurnAt(i, g, Len(q) + 1)]
    BY <1>1, <1>2 DEF NextEntry, EntryAt, TurnAt
  <1>11. EntryAt(i, Len(q) + 1) \in 0 .. RspSize - 1 /\ TurnAt(i, g, Len(q) + 1) \in 0 .. 1
    BY <1>1 DEF EntryAt, TurnAt
  <1> QED BY <1>2, <1>9, <1>10, <1>11 DEF r2, q2

(* The driver takes the first one.                                         *)
LEMMA ResponseGoes ==
  ASSUME NEW i \in 0 .. RspSize - 1, NEW g \in 0 .. 1, NEW q \in Seq(PktRecs),
         NEW r \in [0 .. RspSize - 1 -> RspEntries],
         ResponsesHold(i, g, r, q), q # <<>>
  PROVE  /\ ResponsesHold(EntryAt(i, 1), TurnAt(i, g, 1), [r EXCEPT ![i].pkt = NoPkt], Tail(q))
         /\ EntryAt(EntryAt(i, 1), Len(q) - 1) = EntryAt(i, Len(q))
         /\ TurnAt(EntryAt(i, 1), TurnAt(i, g, 1), Len(q) - 1) = TurnAt(i, g, Len(q))
         /\ NextEntry(i, g) = [idx |-> EntryAt(i, 1), gen |-> TurnAt(i, g, 1)]
         /\ EntryAt(i, 1) \in 0 .. RspSize - 1 /\ TurnAt(i, g, 1) \in 0 .. 1
  <1> DEFINE r2 == [r EXCEPT ![i].pkt = NoPkt]
             q2 == Tail(q)
             i2 == EntryAt(i, 1)
             g2 == TurnAt(i, g, 1)
  <1>1. RspSize \in Nat /\ RspSize >= 1 /\ Len(q) \in Nat /\ Len(q) >= 1 /\ Len(q) <= RspSize
    BY RxSizes DEF ResponsesHold
  <1>2. i2 \in 0 .. RspSize - 1 /\ g2 \in 0 .. 1 BY <1>1 DEF EntryAt, TurnAt
  <1>3. Len(q2) = Len(q) - 1 /\ \A k \in 1 .. Len(q) - 1 : q2[k] = q[k + 1]
    BY <1>1
  <1>4. \A k \in 1 .. RspSize - 1 : /\ EntryAt(i2, k - 1) = EntryAt(i, k)
                                    /\ EntryAt(i, k) # i
                                    /\ EntryAt(i, k) \in 0 .. RspSize - 1
                                    /\ TurnAt(i2, g2, k - 1) = TurnAt(i, g, k)
    BY <1>1 DEF EntryAt, TurnAt
  <1>5. /\ EntryAt(i2, RspSize - 1) = i
        /\ TurnAt(i2, g2, RspSize - 1) = 1 - TurnAt(i, g, 0)
        /\ EntryAt(i, 0) = i
    BY <1>1 DEF EntryAt, TurnAt
  <1>6. EntryAt(i2, Len(q) - 1) = EntryAt(i, Len(q))
    BY <1>1 DEF EntryAt
  <1>7. TurnAt(i2, g2, Len(q) - 1) = TurnAt(i, g, Len(q))
    BY <1>1 DEF EntryAt, TurnAt
  <1>8. NextEntry(i, g) = [idx |-> i2, gen |-> g2]
    BY <1>1 DEF NextEntry, EntryAt, TurnAt
  <1>9. r2[i].gen = r[i].gen /\ \A e \in 0 .. RspSize - 1 : e # i => r2[e] = r[e]
    BY DEF RspEntries
  <1>10. r[i].gen = TurnAt(i, g, 0) /\ TurnAt(i, g, 0) \in 0 .. 1
    <2>1. 1 \in 1 .. Len(q) /\ 1 - 1 = 0 BY <1>1
    <2>2. r[EntryAt(i, 1 - 1)].gen = TurnAt(i, g, 1 - 1) BY <2>1 DEF ResponsesHold
    <2>3. TurnAt(i, g, 0) \in 0 .. 1 BY <1>1 DEF TurnAt
    <2> QED BY <1>5, <2>1, <2>2, <2>3
  <1> HIDE DEF r2, q2, i2, g2
  <1>11. \A k \in 1 .. Len(q2) : /\ r2[EntryAt(i2, k - 1)].gen = TurnAt(i2, g2, k - 1)
                                 /\ r2[EntryAt(i2, k - 1)].pkt = q2[k]
    <2> TAKE k \in 1 .. Len(q2)
    <2>1. k \in 1 .. Len(q) - 1 /\ k \in 1 .. RspSize - 1 /\ k + 1 \in 1 .. Len(q) /\ (k + 1) - 1 = k
      BY <1>1, <1>3
    <2>2. r[EntryAt(i, k)].gen = TurnAt(i, g, k) /\ r[EntryAt(i, k)].pkt = q[k + 1]
      BY <2>1 DEF ResponsesHold
    <2>3. r2[EntryAt(i, k)] = r[EntryAt(i, k)] BY <1>4, <1>9, <2>1
    <2>4. EntryAt(i2, k - 1) = EntryAt(i, k) /\ TurnAt(i2, g2, k - 1) = TurnAt(i, g, k)
      BY <1>4, <2>1
    <2> QED BY <1>3, <2>1, <2>2, <2>3, <2>4
  <1>12. \A k \in Len(q2) + 1 .. RspSize :
           r2[EntryAt(i2, k - 1)].gen = 1 - TurnAt(i2, g2, k - 1)
    <2> TAKE k \in Len(q2) + 1 .. RspSize
    <2>1. CASE k = RspSize
      <3>1. r2[i].gen = 1 - (1 - TurnAt(i, g, 0)) BY <1>9, <1>10
      <3> QED BY <1>5, <2>1, <3>1
    <2>2. CASE k # RspSize
      <3>1. /\ k \in 1 .. RspSize - 1 /\ k + 1 \in Len(q) + 1 .. RspSize
            /\ (k + 1) - 1 = k
        BY <1>1, <1>3, <2>2
      <3>2. r[EntryAt(i, k)].gen = 1 - TurnAt(i, g, k)
        BY <3>1 DEF ResponsesHold
      <3>3. r2[EntryAt(i, k)] = r[EntryAt(i, k)] BY <1>4, <1>9, <3>1
      <3>4. EntryAt(i2, k - 1) = EntryAt(i, k) /\ TurnAt(i2, g2, k - 1) = TurnAt(i, g, k)
        BY <1>4, <3>1
      <3> QED BY <3>2, <3>3, <3>4
    <2> QED BY <2>1, <2>2
  <1>13. Len(q2) <= RspSize BY <1>1, <1>3
  <1>14. ResponsesHold(i2, g2, r2, q2) BY <1>11, <1>12, <1>13 DEF ResponsesHold
  <1> QED BY <1>2, <1>6, <1>7, <1>8, <1>14 DEF r2, q2, i2, g2

(* The driver sees a response when there is one, and it is the first.      *)
LEMMA ResponseSeen ==
  ASSUME NEW i \in 0 .. RspSize - 1, NEW g \in 0 .. 1, NEW q \in Seq(PktRecs),
         NEW r, ResponsesHold(i, g, r, q)
  PROVE  /\ r[i].gen = g <=> q # <<>>
         /\ q # <<>> => r[i].pkt = Head(q)
  <1>1. /\ RspSize \in Nat /\ RspSize >= 1 /\ Len(q) \in Nat
        /\ EntryAt(i, 1 - 1) = i /\ TurnAt(i, g, 1 - 1) = g
    BY RxSizes DEF EntryAt, TurnAt
  <1>2. CASE q # <<>>
    <2>1. 1 \in 1 .. Len(q) /\ Head(q) = q[1] BY <1>2
    <2> QED BY <1>1, <1>2, <2>1 DEF ResponsesHold
  <1>3. CASE q = <<>>
    <2>1. 1 \in Len(q) + 1 .. RspSize BY <1>1, <1>3
    <2>2. r[i].gen = 1 - g BY <1>1, <2>1 DEF ResponsesHold
    <2> QED BY <1>3, <2>2
  <1> QED BY <1>2, <1>3

-----------------------------------------------------------------------------
(* The free list.                                                          *)

(* The list without its first n buffers, and its slots.                    *)
Left(f, n) == [f EXCEPT !.cidx = SlotAfter(@, n), !.avail = @ - n]
SlotsLeft(f, sd, nx, n, sd2) ==
  \A s \in FlSlots :
    /\ SlotDistance(f.cidx, s) < n => sd2[s] = "none"
    /\ SlotDistance(f.cidx, s) >= n => (sd2[s] = "none" <=> sd[s] = "none")
    /\ SlotDistance(f.cidx, s) >= SlotDistance(f.cidx, nx) => sd2[s] = sd[s]

(* The driver takes n buffers out, of those the adapter has done with.     *)
LEMMA BuffersLeave ==
  ASSUME NEW f \in FlRecs, NEW sd, NEW nx \in FlSlots, NEW fr \in Nat, NEW fi \in Nat,
         BuffersHold(f, sd, nx, fr, fi), NEW n \in Nat, n <= SlotDistance(f.cidx, nx),
         NEW sd2, SlotsLeft(f, sd, nx, n, sd2)
  PROVE  /\ Left(f, n) \in FlRecs /\ BuffersHold(Left(f, n), sd2, nx, fr, fi)
         /\ Left(f, n).cidx = SlotAfter(f.cidx, n)
  <1> DEFINE t == SlotDistance(f.cidx, nx)
  <1>0. PICK f2 : f2 = Left(f, n) OBVIOUS
  <1>1. /\ f.cidx \in FlSlots /\ f.pidx \in FlSlots /\ f.avail \in 0 .. FlCap
        /\ f.pend \in 0 .. Unit - 1
    BY DEF FlRecs
  <1>2. t \in 0 .. FlSize - 1 /\ n \in 0 .. FlSize /\ FlSize \in Nat /\ FlCap < FlSize
        /\ FlCap \in Nat /\ Unit \in Nat
    BY <1>1, RxSizes, SlotDistanceIs
  <1>3. fr = f.avail - t - f.pend - fi BY DEF BuffersHold
  <1>4. n <= f.avail BY <1>1, <1>2, <1>3
  <1>5. f2 = [cidx |-> SlotAfter(f.cidx, n), pidx |-> f.pidx, avail |-> f.avail - n,
              pend |-> f.pend]
    <2>1. f2 = [f EXCEPT !.cidx = SlotAfter(@, n), !.avail = @ - n] BY <1>0 DEF Left
    <2> QED BY <2>1 DEF FlRecs
  <1>6. SlotAfter(f.cidx, n) \in FlSlots /\ f.avail - n \in 0 .. FlCap
    <2>1. f.avail - n \in 0 .. FlCap BY ONLY <1>1, <1>2, <1>4, n \in Nat
    <2> QED BY <1>1, <1>2, <2>1, SlotAfterIs
  <1>7. f2 \in FlRecs /\ f2.cidx = SlotAfter(f.cidx, n) /\ f2.pidx = f.pidx
        /\ f2.avail = f.avail - n /\ f2.pend = f.pend
    BY <1>1, <1>5, <1>6 DEF FlRecs
  <1>8. SlotDistance(f2.cidx, nx) = t - n BY <1>1, <1>2, <1>7, SlotMoves
  <1>9. f2.pidx = SlotAfter(f2.cidx, f2.avail)
    <2>1. f.pidx = SlotAfter(f.cidx, f.avail) BY DEF BuffersHold
    <2>2. SlotDistance(f2.cidx, SlotAfter(f.cidx, n)) = 0 BY <1>2, <1>6, <1>7, SlotMoves
    <2>3. f.avail \in 0 .. FlSize /\ f.avail < FlSize /\ f.avail - n \in 0 .. FlSize
      BY <1>1, <1>2, <1>4
    <2>4. SlotDistance(f.cidx, SlotAfter(f.cidx, f.avail)) = f.avail
      <3>1. SlotDistance(f.cidx, f.cidx) = 0 BY <1>1, <1>2, SlotMoves
      <3>2. SlotDistance(f.cidx, f.cidx) + f.avail < FlSize BY <2>3, <3>1
      <3>3. SlotDistance(f.cidx, SlotAfter(f.cidx, f.avail)) = 0 + f.avail
        BY <1>1, <2>3, <3>1, <3>2, SlotMoves
      <3> QED BY <2>3, <3>3
    <2>5. SlotDistance(f2.cidx, f.pidx) = f.avail - n
      BY <1>1, <1>2, <1>4, <1>7, <2>1, <2>4, SlotMoves
    <2>6. SlotAfter(f2.cidx, (f.avail - n) + 0) = SlotAfter(f.pidx, 0)
      <3>1. 0 \in 0 .. FlSize /\ (f.avail - n) + 0 < FlSize BY <2>3, <1>2
      <3> QED BY <1>1, <1>6, <1>7, <2>5, <3>1, SlotMoves
    <2>7. SlotAfter(f.pidx, 0) = f.pidx
      <3>1. 0 \in 0 .. FlSize BY <1>2
      <3> QED BY <1>1, <3>1, SlotMoves
    <2>8. (f.avail - n) + 0 = f2.avail BY <1>7, <2>3
    <2> QED BY <1>7, <2>6, <2>7, <2>8
  <1>10. fr = f2.avail - (t - n) - f2.pend - fi
    BY <1>1, <1>2, <1>3, <1>7
  <1>11. ASSUME NEW s \in FlSlots
         PROVE  /\ sd2[s] = "none" <=> SlotDistance(f2.cidx, s) >= f2.avail
                /\ t - n <= SlotDistance(f2.cidx, s) /\ SlotDistance(f2.cidx, s) < f2.avail
                     => sd2[s] = "mapped"
    <2> DEFINE d == SlotDistance(f.cidx, s)
               d2 == SlotDistance(f2.cidx, s)
    <2>1. d \in 0 .. FlSize - 1 BY <1>1, SlotDistanceIs
    <2>2. n <= d => d2 = d - n BY <1>1, <1>2, <1>7, SlotMoves
    <2>3. n > d => d2 = d - n + FlSize BY <1>1, <1>2, <1>7, SlotMoves
    <2>4. (sd[s] = "none" <=> d >= f.avail) /\ (t <= d /\ d < f.avail => sd[s] = "mapped")
      BY DEF BuffersHold
    <2>5. /\ d < n => sd2[s] = "none"
          /\ d >= n => (sd2[s] = "none" <=> sd[s] = "none")
          /\ d >= t => sd2[s] = sd[s]
      BY DEF SlotsLeft
    <2> HIDE DEF d, d2, t
    <2> QED BY <1>1, <1>2, <1>4, <1>7, <2>1, <2>2, <2>3, <2>4, <2>5 DEF d2
  <1>12. BuffersHold(f2, sd2, nx, fr, fi)
    BY <1>8, <1>9, <1>10, <1>11 DEF BuffersHold
  <1> QED BY <1>0, <1>7, <1>8, <1>12

(* A refill puts n buffers in, which nobody has counted yet.               *)
LEMMA BuffersEnter ==
  ASSUME NEW f \in FlRecs, NEW sd, NEW nx \in FlSlots, NEW fr \in Nat,
         BuffersHold(f, sd, nx, fr, 0), NEW n \in Nat, n <= FlCap - f.avail,
         NEW sd2,
         sd2 = [s \in FlSlots |-> IF s \in SlotsFrom(f.pidx, n) THEN "mapped" ELSE sd[s]]
  PROVE  /\ Filled(f, n) \in FlRecs /\ Filled(f, n).cidx = f.cidx
         /\ BuffersHold(Filled(f, n), sd2, nx, fr, n)
  <1> DEFINE t == SlotDistance(f.cidx, nx)
             f2 == Filled(f, n)
  <1>1. /\ f.cidx \in FlSlots /\ f.pidx \in FlSlots /\ f.avail \in 0 .. FlCap
        /\ f.pend \in 0 .. Unit - 1
    BY DEF FlRecs
  <1>2. t \in 0 .. FlSize - 1 /\ n \in 0 .. FlSize /\ FlSize \in Nat /\ FlCap < FlSize
        /\ FlCap \in Nat /\ Unit \in Nat /\ f.avail + n < FlSize
        /\ f.avail \in 0 .. FlSize /\ f.avail + n \in 0 .. FlSize
    BY <1>1, RxSizes, SlotDistanceIs
  <1>3. fr = f.avail - t - f.pend - 0 /\ f.pidx = SlotAfter(f.cidx, f.avail)
    BY DEF BuffersHold
  <1>4. f2 = [cidx |-> f.cidx, pidx |-> SlotAfter(f.pidx, n), avail |-> f.avail + n,
              pend |-> f.pend]
    <2>1. PICK p : p = SlotAfter(f.pidx, n) OBVIOUS
    <2>2. f2 = [f EXCEPT !.pidx = p, !.avail = f.avail + n] BY <2>1, Zenon DEF Filled
    <2> HIDE DEF f2
    <2>3. f2 = [cidx |-> f.cidx, pidx |-> p, avail |-> f.avail + n, pend |-> f.pend]
      BY <2>2 DEF FlRecs
    <2> QED BY <2>1, <2>3
  <1>5. SlotAfter(f.pidx, n) \in FlSlots /\ f.avail + n \in 0 .. FlCap
    BY <1>1, <1>2, SlotAfterIs
  <1>6. f2 \in FlRecs /\ f2.cidx = f.cidx /\ f2.pidx = SlotAfter(f.pidx, n)
        /\ f2.avail = f.avail + n /\ f2.pend = f.pend
    BY <1>1, <1>4, <1>5 DEF FlRecs
  <1>7. SlotDistance(f.cidx, f.pidx) = f.avail
    <2>1. SlotDistance(f.cidx, f.cidx) = 0 BY <1>1, <1>2, SlotMoves
    <2>2. SlotDistance(f.cidx, f.cidx) + f.avail < FlSize BY <1>1, <1>2, <2>1
    <2>3. SlotDistance(f.cidx, SlotAfter(f.cidx, f.avail)) = 0 + f.avail
      BY <1>1, <1>2, <2>1, <2>2, SlotMoves
    <2> QED BY <1>2, <1>3, <2>3
  <1>8. f2.pidx = SlotAfter(f2.cidx, f2.avail)
    BY <1>1, <1>2, <1>6, <1>7, SlotMoves
  <1>9. fr = f2.avail - t - f2.pend - n
    BY <1>1, <1>2, <1>3, <1>6
  <1>10. ASSUME NEW s \in FlSlots
         PROVE  /\ sd2[s] = "none" <=> SlotDistance(f2.cidx, s) >= f2.avail
                /\ t <= SlotDistance(f2.cidx, s) /\ SlotDistance(f2.cidx, s) < f2.avail
                     => sd2[s] = "mapped"
    <2> DEFINE d == SlotDistance(f.cidx, s)
               e == SlotDistance(f.pidx, s)
    <2>1. d \in 0 .. FlSize - 1 /\ e \in 0 .. FlSize - 1 BY <1>1, SlotDistanceIs
    <2>2. f.avail <= d => e = d - f.avail BY <1>1, <1>2, <1>3, SlotMoves
    <2>3. f.avail > d => e = d - f.avail + FlSize BY <1>1, <1>2, <1>3, SlotMoves
    <2>4. (sd[s] = "none" <=> d >= f.avail) /\ (t <= d /\ d < f.avail => sd[s] = "mapped")
      BY DEF BuffersHold
    <2>5. s \in SlotsFrom(f.pidx, n) <=> e < n BY <1>1, <1>2, SlotsFromIs
    <2>6. sd2[s] = IF e < n THEN "mapped" ELSE sd[s] BY <2>5
    <2>7. SlotDistance(f2.cidx, s) = d BY <1>6
    <2> HIDE DEF d, e, t, f2
    <2> QED BY <1>1, <1>2, <1>6, <2>1, <2>2, <2>3, <2>4, <2>6, <2>7
  <1>11. BuffersHold(f2, sd2, nx, fr, n)
    BY <1>6, <1>8, <1>9, <1>10 DEF BuffersHold
  <1> QED BY <1>6, <1>11

(* The doorbell: whole units go to the adapter.                            *)
LEMMA BuffersGiven ==
  ASSUME NEW f \in FlRecs, NEW sd, NEW nx \in FlSlots, NEW fr \in Nat, NEW fi \in Nat,
         BuffersHold(f, sd, nx, fr, fi),
         NEW cred, cred = f.pend + fi,
         NEW f2, f2 = [f EXCEPT !.pend = cred % Unit]
  PROVE  /\ f2 \in FlRecs /\ f2.cidx = f.cidx
         /\ fr + (cred - (cred % Unit)) \in Nat
         /\ BuffersHold(f2, sd, nx, fr + (cred - (cred % Unit)), 0)
  <1> DEFINE m == cred % Unit
             t == SlotDistance(f.cidx, nx)
  <1>1. /\ f.cidx \in FlSlots /\ f.pidx \in FlSlots /\ f.avail \in 0 .. FlCap
        /\ f.pend \in 0 .. Unit - 1
    BY DEF FlRecs
  <1>2. t \in 0 .. FlSize - 1 /\ FlSize \in Nat /\ FlCap \in Nat /\ Unit \in Nat /\ Unit >= 1
        /\ cred \in Nat
    BY <1>1, RxSizes, SlotDistanceIs
  <1>3. m \in 0 .. Unit - 1 /\ m <= cred
    <2> DEFINE a == cred \div Unit
    <2>1. m \in 0 .. Unit - 1 /\ a \in Int /\ cred = Unit * a + m
      BY <1>2
    <2> HIDE DEF a, m
    <2>2. a >= 0
      <3>1. CASE a <= -1
        <4>1. Unit * a <= -Unit BY <1>2, <2>1, <3>1
        <4> QED BY <1>2, <2>1, <4>1
      <3> QED BY <2>1, <3>1
    <2>3. Unit * a >= 0 BY <1>2, <2>1, <2>2
    <2>4. Unit * a \in Int BY <1>2, <2>1
    <2> QED BY <1>2, <2>1, <2>3, <2>4
  <1>4. f2 = [cidx |-> f.cidx, pidx |-> f.pidx, avail |-> f.avail, pend |-> m]
    BY DEF FlRecs
  <1> HIDE DEF m
  <1>5. f2 \in FlRecs /\ f2.cidx = f.cidx /\ f2.pidx = f.pidx /\ f2.avail = f.avail
        /\ f2.pend = m
    BY <1>1, <1>3, <1>4 DEF FlRecs
  <1>6. fr = f.avail - t - f.pend - fi BY DEF BuffersHold
  <1>7. fr + (cred - m) \in Nat /\ fr + (cred - m) = f.avail - t - m - 0
    BY <1>1, <1>2, <1>3, <1>6
  <1>8. BuffersHold(f2, sd, nx, fr + (cred - m), 0)
    BY <1>5, <1>7 DEF BuffersHold
  <1> QED BY <1>5, <1>7, <1>8 DEF m

(* The adapter takes n of its buffers.                                     *)
LEMMA BuffersTaken ==
  ASSUME NEW f \in FlRecs, NEW sd, NEW nx \in FlSlots, NEW fr \in Nat, NEW fi \in Nat,
         BuffersHold(f, sd, nx, fr, fi), NEW n \in Nat, n <= fr
  PROVE  /\ SlotAfter(nx, n) \in FlSlots /\ fr - n \in Nat
         /\ SlotDistance(f.cidx, SlotAfter(nx, n)) = SlotDistance(f.cidx, nx) + n
         /\ BuffersHold(f, sd, SlotAfter(nx, n), fr - n, fi)
  <1> DEFINE t == SlotDistance(f.cidx, nx)
  <1>1. /\ f.cidx \in FlSlots /\ f.pidx \in FlSlots /\ f.avail \in 0 .. FlCap
        /\ f.pend \in 0 .. Unit - 1
    BY DEF FlRecs
  <1>2. t \in 0 .. FlSize - 1 /\ FlSize \in Nat /\ FlCap \in Nat /\ Unit \in Nat /\ Unit >= 1
        /\ FlCap < FlSize
    BY <1>1, RxSizes, SlotDistanceIs
  <1>3. fr = f.avail - t - f.pend - fi BY DEF BuffersHold
  <1>4. t + n < FlSize /\ n \in 0 .. FlSize BY <1>1, <1>2, <1>3
  <1>5. SlotAfter(nx, n) \in FlSlots /\ SlotDistance(f.cidx, SlotAfter(nx, n)) = t + n
    BY <1>1, <1>4, SlotAfterIs, SlotMoves
  <1>6. fr - n \in Nat /\ fr - n = f.avail - (t + n) - f.pend - fi BY <1>1, <1>2, <1>3
  <1>7. ASSUME NEW s \in FlSlots
        PROVE  /\ sd[s] = "none" <=> SlotDistance(f.cidx, s) >= f.avail
               /\ t + n <= SlotDistance(f.cidx, s) /\ SlotDistance(f.cidx, s) < f.avail
                    => sd[s] = "mapped"
    <2>1. SlotDistance(f.cidx, s) \in 0 .. FlSize - 1 BY <1>1, SlotDistanceIs
    <2>2. /\ sd[s] = "none" <=> SlotDistance(f.cidx, s) >= f.avail
          /\ t <= SlotDistance(f.cidx, s) /\ SlotDistance(f.cidx, s) < f.avail => sd[s] = "mapped"
      BY DEF BuffersHold
    <2> HIDE DEF t
    <2> QED BY <1>2, <2>1, <2>2
  <1>8. f.pidx = SlotAfter(f.cidx, f.avail) BY DEF BuffersHold
  <1>9. BuffersHold(f, sd, SlotAfter(nx, n), fr - n, fi)
    BY <1>5, <1>6, <1>7, <1>8 DEF BuffersHold
  <1> QED BY <1>5, <1>6, <1>9

-----------------------------------------------------------------------------
(* The packets in the buffers.                                             *)

(* A message, a packet that fits the open buffer, or one in new buffers.   *)
LEMMA PacketComes ==
  ASSUME NEW c \in FlSlots, NEW o \in 0 .. 1, NEW t \in Nat, NEW w \in BOOLEAN,
         NEW q \in Seq(PktRecs), PacketsHold(c, o, t, w, q),
         NEW p \in PktRecs, NEW t2 \in Nat, NEW w2 \in BOOLEAN,
         \/ p.n = 0 /\ ~p.new /\ t2 = t /\ w2 = w
         \/ p.n = 1 /\ ~p.new /\ t > 0 /\ SlotDistance(c, p.at) = t - 1 /\ t2 = t
         \/ p.n > 0 /\ p.new /\ SlotDistance(c, p.at) = t /\ t2 = t + p.n
  PROVE  PacketsHold(c, o, t2, w2, Append(q, p))
  <1> DEFINE q2 == Append(q, p)
             L == Len(q)
  <1>1. /\ L \in Nat /\ Len(q2) = L + 1 /\ q2[L + 1] = p
        /\ \A i \in 1 .. L : q2[i] = q[i] /\ q[i] \in PktRecs
    OBVIOUS
  <1>2. /\ p.n \in Nat /\ p.new \in BOOLEAN /\ p.at \in FlSlots
        /\ \A i \in 1 .. L : q[i].n \in Nat /\ q[i].new \in BOOLEAN /\ q[i].at \in FlSlots
    BY <1>1 DEF PktRecs
  <1>3. /\ Start(c, q2, L + 1) = SlotDistance(c, p.at)
        /\ Start(c, q2, L + 1) \in Nat
        /\ \A i \in 1 .. L : Start(c, q2, i) = Start(c, q, i) /\ Start(c, q, i) \in Nat
    BY <1>1, <1>2, RxSizes, SlotDistanceIs DEF Start
  <1>4. /\ Carries(q2, L + 1) <=> p.n > 0
        /\ \A i \in 1 .. L : Carries(q2, i) <=> Carries(q, i)
    BY <1>1 DEF Carries
  <1> HIDE DEF q2, L
  <1>5. \A a \in 1 .. L + 1 : \A b \in 0 .. L : NoneFrom(q2, a, b) <=> NoneFrom(q, a, b)
    <2> TAKE a \in 1 .. L + 1
    <2> TAKE b \in 0 .. L
    <2>1. \A k \in a .. b : k \in 1 .. L BY <1>1
    <2> QED BY <1>4, <2>1 DEF NoneFrom
  <1>6. \A a \in 1 .. L + 1 : NoneFrom(q2, a, L + 1) <=> NoneFrom(q, a, L) /\ p.n = 0
    <2> TAKE a \in 1 .. L + 1
    <2>1. \A k \in a .. L + 1 : k = L + 1 \/ (k \in a .. L /\ k \in 1 .. L) BY <1>1
    <2>2. \A k \in a .. L : k \in a .. L + 1 /\ k \in 1 .. L BY <1>1
    <2>3. L + 1 \in a .. L + 1 BY <1>1
    <2>4. NoneFrom(q2, a, L + 1) => NoneFrom(q, a, L) BY <1>4, <2>2 DEF NoneFrom
    <2>5. NoneFrom(q2, a, L + 1) => ~(p.n > 0) BY <1>4, <2>3 DEF NoneFrom
    <2>6. NoneFrom(q, a, L) /\ ~(p.n > 0) => NoneFrom(q2, a, L + 1)
      BY <1>4, <2>1 DEF NoneFrom
    <2> QED BY <1>2, <2>4, <2>5, <2>6
  <1>7. /\ Within(c, t, q) /\ FirstAt(c, o, q) /\ LastAt(c, t, q) /\ InOrder(c, q)
        /\ NoneFrom(q, 1, L) => t = o
        /\ w => t > 0
    BY DEF PacketsHold, L
  <1>8. t2 >= t /\ (p.n = 0 => t2 = t) /\ (p.n > 0 => SlotDistance(c, p.at) + p.n = t2)
        /\ (p.n > 0 => SlotDistance(c, p.at) = t - (IF p.new THEN 0 ELSE 1))
        /\ (~p.new /\ p.n > 0 => p.n = 1 /\ t > 0)
        /\ (p.new => p.n > 0)
    BY <1>2
  <1>9. Within(c, t2, q2)
    <2> SUFFICES ASSUME NEW i \in 1 .. L + 1
                 PROVE  /\ Carries(q2, i) => /\ Start(c, q2, i) + q2[i].n <= t2
                                             /\ ~q2[i].new => q2[i].n = 1
                        /\ q2[i].new => Carries(q2, i)
      BY <1>1 DEF Within
    <2>1. CASE i = L + 1
      BY <1>1, <1>2, <1>3, <1>4, <1>8, <2>1
    <2>2. CASE i # L + 1
      <3>1. i \in 1 .. L BY <1>1, <2>2
      <3>2. /\ Carries(q, i) => Start(c, q, i) + q[i].n <= t /\ (~q[i].new => q[i].n = 1)
            /\ q[i].new => Carries(q, i)
        BY <1>7, <3>1 DEF Within, L
      <3> QED BY <1>1, <1>2, <1>3, <1>4, <1>8, <3>1, <3>2
    <2> QED BY <2>1, <2>2
  <1>10. FirstAt(c, o, q2)
    <2> SUFFICES ASSUME NEW i \in 1 .. L + 1, Carries(q2, i), NoneFrom(q2, 1, i - 1)
                 PROVE  IF q2[i].new THEN Start(c, q2, i) = o ELSE Start(c, q2, i) = 0 /\ o = 1
      BY <1>1 DEF FirstAt
    <2>1. 1 \in 1 .. L + 1 /\ i - 1 \in 0 .. L BY <1>1
    <2>2. NoneFrom(q, 1, i - 1) BY <1>5, <2>1
    <2>3. CASE i = L + 1
      <3>1. i - 1 = L BY <1>1, <2>3
      <3>2. t = o BY <1>7, <2>2, <3>1
      <3> QED BY <1>1, <1>2, <1>3, <1>4, <1>8, <2>3, <3>2
    <2>4. CASE i # L + 1
      <3>1. i \in 1 .. L BY <1>1, <2>4
      <3> QED BY <1>1, <1>3, <1>4, <1>7, <2>2, <3>1 DEF FirstAt, L
    <2> QED BY <2>3, <2>4
  <1>11. LastAt(c, t2, q2)
    <2> SUFFICES ASSUME NEW i \in 1 .. L + 1, Carries(q2, i), NoneFrom(q2, i + 1, L + 1)
                 PROVE  Start(c, q2, i) + q2[i].n = t2
      BY <1>1 DEF LastAt
    <2>1. CASE i = L + 1
      BY <1>1, <1>3, <1>4, <1>8, <2>1
    <2>2. CASE i # L + 1
      <3>1. i \in 1 .. L /\ i + 1 \in 1 .. L + 1 BY <1>1, <2>2
      <3>2. NoneFrom(q, i + 1, L) /\ p.n = 0 BY <1>6, <3>1
      <3> QED BY <1>1, <1>3, <1>4, <1>7, <1>8, <3>1, <3>2 DEF LastAt, L
    <2> QED BY <2>1, <2>2
  <1>12. InOrder(c, q2)
    <2> SUFFICES ASSUME NEW i \in 1 .. L + 1, NEW j \in i + 1 .. L + 1,
                        Carries(q2, i), Carries(q2, j)
                 PROVE  /\ Start(c, q2, j) >= Start(c, q2, i) + q2[i].n - 1
                        /\ NoneFrom(q2, i + 1, j - 1) =>
                             Start(c, q2, j)
                               = Start(c, q2, i) + q2[i].n - (IF q2[j].new THEN 0 ELSE 1)
      BY <1>1 DEF InOrder
    <2>1. i \in 1 .. L /\ i + 1 \in 1 .. L + 1 /\ j - 1 \in 0 .. L BY <1>1
    <2>2. Carries(q, i) /\ q2[i] = q[i] /\ Start(c, q2, i) = Start(c, q, i)
          /\ Start(c, q, i) \in Nat /\ q[i].n \in Nat
      BY <1>1, <1>2, <1>3, <1>4, <2>1
    <2>3. NoneFrom(q2, i + 1, j - 1) <=> NoneFrom(q, i + 1, j - 1) BY <1>5, <2>1
    <2>4. CASE j = L + 1
      <3>1. j - 1 = L BY <1>1, <2>4
      <3>2. Start(c, q, i) + q[i].n <= t BY <1>7, <2>1, <2>2 DEF Within, L
      <3>3. NoneFrom(q, i + 1, L) => Start(c, q, i) + q[i].n = t
        BY <1>7, <2>1, <2>2 DEF LastAt, L
      <3>4. Start(c, q2, j) = t - (IF p.new THEN 0 ELSE 1) /\ q2[j] = p
        BY <1>1, <1>3, <1>4, <1>8, <2>4
      <3>5. p.new \in BOOLEAN BY <1>2
      <3> HIDE DEF L
      <3> QED BY <2>2, <2>3, <3>1, <3>2, <3>3, <3>4, <3>5
    <2>5. CASE j # L + 1
      <3>1. j \in 1 .. L /\ j \in i + 1 .. L BY <1>1, <2>5
      <3>2. Carries(q, j) /\ q2[j] = q[j] /\ Start(c, q2, j) = Start(c, q, j)
        BY <1>1, <1>3, <1>4, <3>1
      <3>3. /\ Start(c, q, j) >= Start(c, q, i) + q[i].n - 1
            /\ NoneFrom(q, i + 1, j - 1) =>
                 Start(c, q, j) = Start(c, q, i) + q[i].n - (IF q[j].new THEN 0 ELSE 1)
        BY <1>7, <2>1, <2>2, <3>1, <3>2 DEF InOrder, L
      <3> QED BY <2>2, <2>3, <3>2, <3>3
    <2> QED BY <2>4, <2>5
  <1>13. NoneFrom(q2, 1, Len(q2)) => t2 = o
    <2>1. 1 \in 1 .. L + 1 BY <1>1
    <2> QED BY <1>1, <1>6, <1>7, <1>8, <2>1
  <1>14. w2 => t2 > 0
    <2>1. CASE w2 = w /\ t2 = t BY <1>7, <2>1, Zenon
    <2>2. CASE p.n > 0
      BY <1>2, <1>8, <2>2
    <2> QED BY <1>2, <2>1, <2>2
  <1> QED BY <1>9, <1>10, <1>11, <1>12, <1>13, <1>14 DEF PacketsHold, q2

(* The buffers that leave with the first packet, before it and of it.      *)
Before(p, o) == IF p.new /\ o > 0 THEN 1 ELSE 0
LeaveWith(p, o) == Before(p, o) + (IF p.n > 0 THEN p.n - 1 ELSE 0)

(* How the first packet begins.                                            *)
LEMMA PacketFirst ==
  ASSUME NEW c \in FlSlots, NEW o \in 0 .. 1, NEW t \in Nat, NEW w \in BOOLEAN,
         NEW q \in Seq(PktRecs), PacketsHold(c, o, t, w, q), q # <<>>,
         NEW p, p = Head(q), NEW k, k = Before(p, o)
  PROVE  /\ p \in PktRecs /\ p = q[1] /\ 1 \in 1 .. Len(q)
         /\ p.n \in Nat /\ p.new \in BOOLEAN /\ p.at \in FlSlots
         /\ p.n = 0 => ~p.new
         /\ p.n > 0 => /\ SlotDistance(c, p.at) = k /\ k + p.n <= t
                       /\ Start(c, q, 1) = k
                       /\ ~p.new => p.n = 1 /\ o = 1
         /\ k <= t
  <1>1. p \in PktRecs /\ p = q[1] /\ 1 \in 1 .. Len(q) OBVIOUS
  <1>2. p.n \in Nat /\ p.new \in BOOLEAN /\ p.at \in FlSlots BY <1>1 DEF PktRecs
  <1>3. NoneFrom(q, 1, 1 - 1) BY DEF NoneFrom
  <1>4. Carries(q, 1) <=> p.n > 0 BY <1>1 DEF Carries
  <1>5. Start(c, q, 1) = SlotDistance(c, p.at) BY <1>1 DEF Start
  <1>6. /\ Carries(q, 1) => Start(c, q, 1) + q[1].n <= t /\ (~q[1].new => q[1].n = 1)
        /\ q[1].new => Carries(q, 1)
    BY <1>1 DEF PacketsHold, Within
  <1>7. Carries(q, 1) =>
          IF q[1].new THEN Start(c, q, 1) = o ELSE Start(c, q, 1) = 0 /\ o = 1
    BY <1>1, <1>3 DEF PacketsHold, FirstAt
  <1>8. k = IF p.new /\ o > 0 THEN 1 ELSE 0 BY DEF Before
  <1> QED BY <1>1, <1>2, <1>4, <1>5, <1>6, <1>7, <1>8

(* The driver has taken the first one: all its buffers but the last are    *)
(* gone.                                                                   *)
LEMMA PacketGoes ==
  ASSUME NEW c \in FlSlots, NEW o \in 0 .. 1, NEW t \in 0 .. FlSize - 1, NEW w \in BOOLEAN,
         NEW q \in Seq(PktRecs), PacketsHold(c, o, t, w, q), q # <<>>,
         NEW p, p = Head(q), NEW n, n = LeaveWith(p, o)
  PROVE  /\ n \in Nat /\ n <= t
         /\ PacketsHold(SlotAfter(c, n), IF p.n > 0 THEN 1 ELSE o, t - n, w, Tail(q))
  <1>0. PICK k : k = Before(p, o) /\ k = (IF p.new /\ o > 0 THEN 1 ELSE 0)
                 /\ n = k + (IF p.n > 0 THEN p.n - 1 ELSE 0)
    BY DEF LeaveWith, Before
  <1> DEFINE q2 == Tail(q)
             L == Len(q)
             c2 == SlotAfter(c, n)
             o2 == IF p.n > 0 THEN 1 ELSE o
  <1>1. /\ p \in PktRecs /\ p = q[1] /\ 1 \in 1 .. L
        /\ p.n \in Nat /\ p.new \in BOOLEAN
        /\ p.n = 0 => ~p.new
        /\ p.n > 0 => /\ Start(c, q, 1) = k /\ k + p.n <= t
                      /\ ~p.new => p.n = 1 /\ o = 1
        /\ k <= t
        /\ k = (IF p.new /\ o > 0 THEN 1 ELSE 0) /\ n = k + (IF p.n > 0 THEN p.n - 1 ELSE 0)
    <2> HIDE DEF q2, c2, o2
    <2> QED BY <1>0, RxSizes, PacketFirst
  <1>2. n \in Nat /\ n <= t /\ n \in 0 .. FlSize BY <1>0, <1>1, RxSizes
  <1>3. /\ L \in Nat /\ L >= 1 /\ Len(q2) = L - 1
        /\ \A i \in 1 .. L - 1 : q2[i] = q[i + 1] /\ q[i + 1] \in PktRecs
    BY <1>1
  <1>4. /\ \A i \in 1 .. L - 1 : /\ q[i + 1].n \in Nat /\ q[i + 1].new \in BOOLEAN
                                 /\ q[i + 1].at \in FlSlots
    BY <1>3 DEF PktRecs
  <1>5. \A i \in 1 .. L - 1 : Carries(q2, i) <=> Carries(q, i + 1)
    BY <1>3 DEF Carries
  <1>6. Carries(q, 1) <=> p.n > 0 BY <1>1 DEF Carries
  <1> HIDE DEF q2, L, c2, o2
  <1>7. \A a \in 1 .. L : \A b \in 0 .. L - 1 :
          NoneFrom(q2, a, b) <=> NoneFrom(q, a + 1, b + 1)
    <2> TAKE a \in 1 .. L
    <2> TAKE b \in 0 .. L - 1
    <2>1. \A j \in a .. b : j \in 1 .. L - 1 /\ j + 1 \in a + 1 .. b + 1 BY <1>3
    <2>2. \A j \in a + 1 .. b + 1 : j - 1 \in a .. b /\ j - 1 \in 1 .. L - 1 /\ (j - 1) + 1 = j
      BY <1>3
    <2>3. NoneFrom(q, a + 1, b + 1) => NoneFrom(q2, a, b) BY <1>5, <2>1 DEF NoneFrom
    <2>4. ASSUME NoneFrom(q2, a, b), NEW j \in a + 1 .. b + 1 PROVE ~Carries(q, j)
      <3>1. ~Carries(q2, j - 1) BY <2>2, <2>4 DEF NoneFrom
      <3> QED BY <1>5, <2>2, <3>1
    <2> QED BY <2>3, <2>4 DEF NoneFrom
  <1>8. \A b \in 1 .. L : NoneFrom(q, 1, b) <=> ~Carries(q, 1) /\ NoneFrom(q, 2, b)
    <2> TAKE b \in 1 .. L
    <2>1. \A j \in 1 .. b : j = 1 \/ j \in 2 .. b OBVIOUS
    <2>2. 1 \in 1 .. b /\ \A j \in 2 .. b : j \in 1 .. b OBVIOUS
    <2> QED BY <2>1, <2>2 DEF NoneFrom
  <1>9. /\ Within(c, t, q) /\ FirstAt(c, o, q) /\ LastAt(c, t, q) /\ InOrder(c, q)
        /\ NoneFrom(q, 1, L) => t = o
        /\ w => t > 0
    BY DEF PacketsHold, L
  <1>10. ASSUME NEW i \in 1 .. L - 1, Carries(q2, i)
         PROVE  /\ n <= Start(c, q, i + 1) /\ Start(c, q, i + 1) \in Nat
                /\ Start(c2, q2, i) = Start(c, q, i + 1) - n
    <2>1. Start(c, q, i + 1) \in Nat BY <1>4, SlotDistanceIs, RxSizes DEF Start
    <2>2. n <= Start(c, q, i + 1)
      <3>1. CASE p.n = 0 BY <1>1, <1>2, <2>1, <3>1
      <3>2. CASE p.n > 0
        <4>1. i + 1 \in 1 + 1 .. L /\ Carries(q, i + 1) BY <1>3, <1>5, <1>10
        <4>2. Start(c, q, i + 1) >= Start(c, q, 1) + q[1].n - 1
          BY <1>1, <1>6, <1>9, <3>2, <4>1 DEF InOrder, L
        <4> QED BY <1>1, <1>2, <2>1, <3>2, <4>2
      <3> QED BY <1>1, <3>1, <3>2
    <2>3. SlotDistance(c2, q[i + 1].at) = SlotDistance(c, q[i + 1].at) - n
      BY <1>2, <1>4, <2>2, SlotMoves DEF Start, c2
    <2>4. q2[i] = q[i + 1] BY <1>3
    <2> QED BY <2>1, <2>2, <2>3, <2>4 DEF Start
  <1>11. Within(c2, t - n, q2)
    <2> SUFFICES ASSUME NEW i \in 1 .. L - 1
                 PROVE  /\ Carries(q2, i) => /\ Start(c2, q2, i) + q2[i].n <= t - n
                                             /\ ~q2[i].new => q2[i].n = 1
                        /\ q2[i].new => Carries(q2, i)
      BY <1>3 DEF Within
    <2>1. i + 1 \in 1 .. L /\ q2[i] = q[i + 1] /\ (Carries(q2, i) <=> Carries(q, i + 1))
      BY <1>3, <1>5
    <2>2. /\ Carries(q, i + 1) => /\ Start(c, q, i + 1) + q[i + 1].n <= t
                                  /\ ~q[i + 1].new => q[i + 1].n = 1
          /\ q[i + 1].new => Carries(q, i + 1)
      BY <1>9, <2>1 DEF Within, L
    <2>3. CASE Carries(q2, i)
      BY <1>2, <1>4, <1>10, <2>1, <2>2, <2>3
    <2> QED BY <2>1, <2>2, <2>3
  <1>12. FirstAt(c2, o2, q2)
    <2> SUFFICES ASSUME NEW i \in 1 .. L - 1, Carries(q2, i), NoneFrom(q2, 1, i - 1)
                 PROVE  IF q2[i].new THEN Start(c2, q2, i) = o2 ELSE Start(c2, q2, i) = 0 /\ o2 = 1
      BY <1>3 DEF FirstAt
    <2>1. /\ i + 1 \in 1 .. L /\ i + 1 \in 1 + 1 .. L /\ i \in 1 .. L /\ i - 1 \in 0 .. L - 1
          /\ 1 \in 1 .. L /\ (i - 1) + 1 = i /\ 1 + 1 = 2 /\ (i + 1) - 1 = i
      BY <1>3
    <2>2. NoneFrom(q, 2, i) BY <1>7, <2>1
    <2>3. Carries(q, i + 1) /\ q2[i] = q[i + 1] BY <1>3, <1>5
    <2>4. CASE p.n > 0
      <3>1. Start(c, q, i + 1) = Start(c, q, 1) + q[1].n - (IF q[i + 1].new THEN 0 ELSE 1)
        BY <1>1, <1>6, <1>9, <2>1, <2>2, <2>3, <2>4 DEF InOrder, L
      <3>2. Start(c2, q2, i) = (k + p.n - (IF q[i + 1].new THEN 0 ELSE 1)) - n
        BY <1>1, <1>10, <2>4, <3>1
      <3>3. o2 = 1 /\ n = k + p.n - 1 BY <1>1, <2>4 DEF o2
      <3>4. q[i + 1].new \in BOOLEAN BY <1>4
      <3>5. k \in Nat BY <1>1
      <3> QED BY <1>1, <2>3, <3>2, <3>3, <3>4, <3>5
    <2>5. CASE p.n = 0
      <3>1. NoneFrom(q, 1, i) BY <1>1, <1>6, <1>8, <2>1, <2>2, <2>5
      <3>2. IF q[i + 1].new THEN Start(c, q, i + 1) = o ELSE Start(c, q, i + 1) = 0 /\ o = 1
        BY <1>9, <2>1, <2>3, <3>1 DEF FirstAt, L
      <3>3. n = 0 /\ o2 = o BY <1>1, <2>5 DEF o2
      <3> QED BY <1>10, <2>3, <3>2, <3>3
    <2> QED BY <1>1, <2>4, <2>5
  <1>13. LastAt(c2, t - n, q2)
    <2> SUFFICES ASSUME NEW i \in 1 .. L - 1, Carries(q2, i), NoneFrom(q2, i + 1, L - 1)
                 PROVE  Start(c2, q2, i) + q2[i].n = t - n
      BY <1>3 DEF LastAt
    <2>1. i + 1 \in 1 .. L /\ L - 1 \in 0 .. L - 1 /\ (L - 1) + 1 = L BY <1>3
    <2>2. NoneFrom(q, (i + 1) + 1, L) BY <1>7, <2>1
    <2>3. Carries(q, i + 1) /\ q2[i] = q[i + 1] BY <1>3, <1>5
    <2>4. Start(c, q, i + 1) + q[i + 1].n = t BY <1>9, <2>1, <2>2, <2>3 DEF LastAt, L
    <2> QED BY <1>2, <1>4, <1>10, <2>3, <2>4
  <1>14. InOrder(c2, q2)
    <2> SUFFICES ASSUME NEW i \in 1 .. L - 1, NEW j \in i + 1 .. L - 1,
                        Carries(q2, i), Carries(q2, j)
                 PROVE  /\ Start(c2, q2, j) >= Start(c2, q2, i) + q2[i].n - 1
                        /\ NoneFrom(q2, i + 1, j - 1) =>
                             Start(c2, q2, j)
                               = Start(c2, q2, i) + q2[i].n - (IF q2[j].new THEN 0 ELSE 1)
      BY <1>3 DEF InOrder
    <2>1. /\ i + 1 \in 1 .. L /\ j \in 1 .. L - 1 /\ j + 1 \in (i + 1) + 1 .. L
          /\ j - 1 \in 0 .. L - 1 /\ (j - 1) + 1 = (j + 1) - 1
      BY <1>3
    <2>2. Carries(q, i + 1) /\ q2[i] = q[i + 1] /\ Carries(q, j + 1) /\ q2[j] = q[j + 1]
      BY <1>3, <1>5, <2>1
    <2>3. NoneFrom(q2, i + 1, j - 1) <=> NoneFrom(q, (i + 1) + 1, (j + 1) - 1)
      BY <1>7, <2>1
    <2>4. /\ Start(c, q, j + 1) >= Start(c, q, i + 1) + q[i + 1].n - 1
          /\ NoneFrom(q, (i + 1) + 1, (j + 1) - 1) =>
               Start(c, q, j + 1) = Start(c, q, i + 1) + q[i + 1].n - (IF q[j + 1].new THEN 0 ELSE 1)
      BY <1>9, <2>1, <2>2 DEF InOrder, L
    <2>5. /\ Start(c2, q2, i) = Start(c, q, i + 1) - n /\ Start(c, q, i + 1) \in Nat
          /\ Start(c2, q2, j) = Start(c, q, j + 1) - n /\ Start(c, q, j + 1) \in Nat
      BY <1>10, <2>1
    <2>6. q[i + 1].n \in Nat BY <1>4
    <2>7. Start(c2, q2, j) >= Start(c2, q2, i) + q2[i].n - 1
      BY ONLY <1>2, <2>2, <2>4, <2>5, <2>6
    <2>8. ASSUME NEW e \in 0 .. 1, Start(c, q, j + 1) = Start(c, q, i + 1) + q[i + 1].n - e
          PROVE  Start(c2, q2, j) = Start(c2, q2, i) + q2[i].n - e
      BY ONLY <1>2, <2>2, <2>5, <2>6, <2>8, e \in 0 .. 1
    <2> QED BY <2>2, <2>3, <2>4, <2>7, <2>8
  <1>15. NoneFrom(q2, 1, Len(q2)) => t - n = o2
    <2> SUFFICES ASSUME NoneFrom(q2, 1, L - 1) PROVE t - n = o2 BY <1>3
    <2>1. 1 \in 1 .. L /\ L - 1 \in 0 .. L - 1 /\ (L - 1) + 1 = L /\ 1 + 1 = 2 /\ L \in 1 .. L
      BY <1>3
    <2>2. NoneFrom(q, 2, L) BY <1>7, <2>1
    <2>3. CASE p.n > 0
      <3>1. Start(c, q, 1) + q[1].n = t BY <1>1, <1>6, <1>9, <2>1, <2>2, <2>3 DEF LastAt, L
      <3> QED BY <1>1, <2>3, <3>1 DEF o2
    <2>4. CASE p.n = 0
      <3>1. t = o BY <1>1, <1>6, <1>8, <1>9, <2>1, <2>2, <2>4
      <3> QED BY <1>1, <2>4, <3>1 DEF o2
    <2> QED BY <1>1, <2>3, <2>4
  <1>16. ASSUME w PROVE t - n > 0
    <2>1. t > 0 BY <1>9, <1>16
    <2>2. CASE p.n = 0
      <3>1. k = 0 BY <1>1, <2>2
      <3>2. n = 0 + 0 BY <1>1, <2>2, <3>1
      <3> QED BY ONLY <2>1, <3>2, t \in 0 .. FlSize - 1, RxSizes
    <2>3. CASE p.n > 0
      <3>1. n = k + (p.n - 1) /\ k + p.n <= t BY <1>1, <2>3
      <3>2. k \in 0 .. 1 BY <1>1
      <3> QED BY ONLY <1>1, <3>1, <3>2, t \in 0 .. FlSize - 1, RxSizes
    <2>4. PICK m \in Nat : m = p.n BY <1>1
    <2>5. m = 0 \/ m > 0 BY ONLY m \in Nat
    <2> QED BY ONLY <2>2, <2>3, <2>4, <2>5, Zenon
  <1>17. PacketsHold(c2, o2, t - n, w, q2)
    BY <1>11, <1>12, <1>13, <1>14, <1>15, <1>16 DEF PacketsHold
  <1> QED BY <1>2, <1>17 DEF c2, o2, q2

(* Its handler found no memory: the buffer before it is gone all the same. *)
LEMMA PacketStays ==
  ASSUME NEW c \in FlSlots, NEW o \in 0 .. 1, NEW t \in 0 .. FlSize - 1, NEW w \in BOOLEAN,
         NEW q \in Seq(PktRecs), PacketsHold(c, o, t, w, q), q # <<>>,
         NEW p, p = Head(q), NEW k, k = Before(p, o)
  PROVE  /\ k \in Nat /\ k <= t
         /\ PacketsHold(SlotAfter(c, k), IF p.new THEN 0 ELSE o, t - k, w, q)
  <1>0. k = IF p.new /\ o > 0 THEN 1 ELSE 0 BY DEF Before
  <1> DEFINE L == Len(q)
             c2 == SlotAfter(c, k)
             o2 == IF p.new THEN 0 ELSE o
  <1>1. /\ p \in PktRecs /\ p = q[1] /\ 1 \in 1 .. L
        /\ p.n \in Nat /\ p.new \in BOOLEAN
        /\ p.n = 0 => ~p.new
        /\ p.n > 0 => /\ Start(c, q, 1) = k /\ k + p.n <= t
                      /\ ~p.new => p.n = 1 /\ o = 1
        /\ k <= t
        /\ k = (IF p.new /\ o > 0 THEN 1 ELSE 0)
    <2>1. t \in Nat BY RxSizes
    <2> HIDE DEF c2, o2
    <2> QED BY <1>0, <2>1, PacketFirst
  <1>2. k \in Nat /\ k <= t /\ k \in 0 .. FlSize BY <1>1, RxSizes
  <1>3. CASE ~p.new
    <2>1. k = 0 /\ o2 = o /\ t - k = t BY <1>1, <1>3
    <2>2. c2 = c BY <1>2, <2>1, SlotMoves
    <2> QED BY <1>2, <2>1, <2>2 DEF c2, o2
  <1>4. CASE p.new
    <2>1. k = o /\ o2 = 0 BY <1>1, <1>4
    <2>2. /\ L \in Nat /\ \A i \in 1 .. L : q[i] \in PktRecs
      BY <1>1
    <2>3. \A i \in 1 .. L : q[i].n \in Nat /\ q[i].new \in BOOLEAN /\ q[i].at \in FlSlots
      BY <2>2 DEF PktRecs
    <2>4. Carries(q, 1) /\ p.n > 0 BY <1>1, <1>4 DEF Carries
    <2> HIDE DEF L, c2, o2
    <2>5. /\ Within(c, t, q) /\ FirstAt(c, o, q) /\ LastAt(c, t, q) /\ InOrder(c, q)
          /\ w => t > 0
      BY DEF PacketsHold
    <2>6. ASSUME NEW i \in 1 .. L, Carries(q, i)
          PROVE  /\ k <= Start(c, q, i) /\ Start(c, q, i) \in Nat
                 /\ Start(c2, q, i) = Start(c, q, i) - k
      <3>1. Start(c, q, i) \in Nat BY <2>3, SlotDistanceIs, RxSizes DEF Start
      <3>2. k <= Start(c, q, i)
        <4>1. CASE i = 1 BY <1>1, <1>2, <2>4, <4>1
        <4>2. CASE i # 1
          <5>1. i \in 1 + 1 .. L BY <2>2, <4>2
          <5>2. Start(c, q, i) >= Start(c, q, 1) + q[1].n - 1
            BY <1>1, <2>4, <2>5, <2>6, <5>1 DEF InOrder, L
          <5> QED BY <1>1, <1>2, <2>4, <3>1, <5>2
        <4> QED BY <4>1, <4>2
      <3>3. SlotDistance(c2, q[i].at) = SlotDistance(c, q[i].at) - k
        BY <1>2, <2>3, <3>2, SlotMoves DEF Start, c2
      <3> QED BY <3>1, <3>2, <3>3 DEF Start
    <2>7. Within(c2, t - k, q)
      <3> SUFFICES ASSUME NEW i \in 1 .. L
                   PROVE  /\ Carries(q, i) => /\ Start(c2, q, i) + q[i].n <= t - k
                                              /\ ~q[i].new => q[i].n = 1
                          /\ q[i].new => Carries(q, i)
        BY DEF Within, L
      <3>1. /\ Carries(q, i) => Start(c, q, i) + q[i].n <= t /\ (~q[i].new => q[i].n = 1)
            /\ q[i].new => Carries(q, i)
        BY <2>5 DEF Within, L
      <3>2. CASE Carries(q, i)
        <4>1. /\ Start(c2, q, i) = Start(c, q, i) - k /\ Start(c, q, i) \in Nat
              /\ q[i].n \in Nat
          BY <2>3, <2>6, <3>2
        <4> QED BY <1>2, <3>1, <3>2, <4>1
      <3> QED BY <3>1, <3>2
    <2>8. FirstAt(c2, o2, q)
      <3> SUFFICES ASSUME NEW i \in 1 .. L, Carries(q, i), NoneFrom(q, 1, i - 1)
                   PROVE  IF q[i].new THEN Start(c2, q, i) = o2 ELSE Start(c2, q, i) = 0 /\ o2 = 1
        BY DEF FirstAt, L
      <3>1. i = 1
        <4>1. CASE i # 1
          <5>1. 1 \in 1 .. i - 1 BY <2>2, <4>1
          <5> QED BY <2>4, <5>1 DEF NoneFrom
        <4> QED BY <4>1
      <3> QED BY <1>1, <1>2, <1>4, <2>1, <2>4, <2>6, <3>1
    <2>9. LastAt(c2, t - k, q)
      <3> SUFFICES ASSUME NEW i \in 1 .. L, Carries(q, i), NoneFrom(q, i + 1, L)
                   PROVE  Start(c2, q, i) + q[i].n = t - k
        BY DEF LastAt, L
      <3>1. Start(c, q, i) + q[i].n = t BY <2>5 DEF LastAt, L
      <3>2. /\ Start(c2, q, i) = Start(c, q, i) - k /\ Start(c, q, i) \in Nat
            /\ q[i].n \in Nat
        BY <2>3, <2>6
      <3> QED BY ONLY <1>2, <3>1, <3>2
    <2>10. InOrder(c2, q)
      <3> SUFFICES ASSUME NEW i \in 1 .. L, NEW j \in i + 1 .. L, Carries(q, i), Carries(q, j)
                   PROVE  /\ Start(c2, q, j) >= Start(c2, q, i) + q[i].n - 1
                          /\ NoneFrom(q, i + 1, j - 1) =>
                               Start(c2, q, j)
                                 = Start(c2, q, i) + q[i].n - (IF q[j].new THEN 0 ELSE 1)
        BY DEF InOrder, L
      <3>1. /\ Start(c, q, j) >= Start(c, q, i) + q[i].n - 1
            /\ NoneFrom(q, i + 1, j - 1) =>
                 Start(c, q, j) = Start(c, q, i) + q[i].n - (IF q[j].new THEN 0 ELSE 1)
        BY <2>5 DEF InOrder, L
      <3>2. j \in 1 .. L BY <2>2
      <3>3. /\ Start(c2, q, i) = Start(c, q, i) - k /\ Start(c, q, i) \in Nat
            /\ Start(c2, q, j) = Start(c, q, j) - k /\ Start(c, q, j) \in Nat
        BY <2>6, <3>2
      <3>4. q[i].n \in Nat BY <2>3
      <3>5. Start(c2, q, j) >= Start(c2, q, i) + q[i].n - 1
        BY ONLY <1>2, <3>1, <3>3, <3>4
      <3>6. ASSUME NEW e \in 0 .. 1, Start(c, q, j) = Start(c, q, i) + q[i].n - e
            PROVE  Start(c2, q, j) = Start(c2, q, i) + q[i].n - e
        BY ONLY <1>2, <3>3, <3>4, <3>6, e \in 0 .. 1
      <3> QED BY <3>1, <3>5, <3>6
    <2>11. ~NoneFrom(q, 1, L)
      BY <1>1, <2>4 DEF NoneFrom, L
    <2>12. w => t - k > 0 BY <1>1, <2>4
    <2>13. PacketsHold(c2, o2, t - k, w, q)
      BY <2>7, <2>8, <2>9, <2>10, <2>11, <2>12 DEF PacketsHold, L
    <2> QED BY <1>2, <2>13 DEF c2, o2
  <1> QED BY <1>1, <1>3, <1>4

-----------------------------------------------------------------------------
(* The invariant holds at the start.                                       *)

LEMMA NoPktIsPkt == NoPkt \in PktRecs
  <1>1. 0 \in FlSlots BY RxSizes DEF FlSlots
  <1> QED BY <1>1 DEF NoPkt, PktRecs

LEMMA RxInitInv ==
  ASSUME RxInit
  PROVE  RxInv /\ RxMarked
  <1>1. PICK n \in 0 .. FlCap :
          LET f == Filled([cidx |-> 0, pidx |-> 0, avail |-> 0, pend |-> n % Unit], n)
          IN /\ fl = f /\ starving = FlStarving(f)
             /\ sdesc = [s \in FlSlots |-> IF s < n THEN "mapped" ELSE "none"]
             /\ sge = [next |-> 0, free |-> n - (n % Unit), open |-> FALSE,
                       idx |-> 0, gen |-> 1, credits |-> RspSize, armed |-> TRUE]
             /\ nfails = IF n = FlCap THEN 0 ELSE 1
    BY DEF RxInit
  <1> DEFINE m == n % Unit
  <1>2. m \in 0 .. Unit - 1 /\ m <= n
    <2>1. FlCap \in Nat /\ Unit \in Nat /\ Unit >= 1 /\ n \in Nat BY RxSizes
    <2> DEFINE a == n \div Unit
    <2>2. m \in 0 .. Unit - 1 /\ a \in Int /\ n = Unit * a + m
      BY <2>1
    <2> HIDE DEF a, m
    <2>3. a >= 0
      <3>1. CASE a <= -1
        <4>1. Unit * a <= -Unit BY <2>1, <2>2, <3>1
        <4> QED BY <2>1, <2>2, <4>1
      <3> QED BY <2>2, <3>1
    <2>4. Unit * a >= 0 /\ Unit * a \in Int BY <2>1, <2>2, <2>3
    <2> QED BY <2>1, <2>2, <2>4
  <1>3. /\ fl = Filled([cidx |-> 0, pidx |-> 0, avail |-> 0, pend |-> m], n)
        /\ starving = FlStarving(fl)
        /\ sdesc = [s \in FlSlots |-> IF s < n THEN "mapped" ELSE "none"]
        /\ sge = [next |-> 0, free |-> n - m, open |-> FALSE,
                  idx |-> 0, gen |-> 1, credits |-> RspSize, armed |-> TRUE]
        /\ nfails \in Nat
    BY <1>1
  <1> HIDE DEF m
  <1>4. /\ FlCap \in Nat /\ Unit \in Nat /\ Unit >= 1 /\ n \in Nat /\ n <= FlCap
        /\ FlCap < FlSize /\ FlSize \in Nat /\ RspSize \in Nat /\ RspSize >= 1
        /\ 0 \in FlSlots /\ n \in 0 .. FlSize /\ 0 \in 0 .. FlSize /\ Budget \in Nat
    BY RxSizes DEF FlSlots
  <1>5. SlotAfter(0, n) = n /\ n \in FlSlots
    BY <1>4, SlotAfterIs DEF FlSlots
  <1>6. fl = [cidx |-> 0, pidx |-> n, avail |-> n, pend |-> m]
    <2>1. PICK p : p = SlotAfter(0, n) OBVIOUS
    <2>2. fl = [[cidx |-> 0, pidx |-> 0, avail |-> 0, pend |-> m] EXCEPT
                  !.pidx = p, !.avail = 0 + n]
      BY <1>3, <2>1, Zenon DEF Filled
    <2>3. 0 + n = n BY <1>4
    <2> QED BY <1>5, <2>1, <2>2, <2>3
  <1>7. /\ offset = 0 /\ rspq = [cidx |-> 0, gen |-> 1]
        /\ rsp = [i \in 0 .. RspSize - 1 |-> [gen |-> 0, pkt |-> NoPkt]]
        /\ napi = "idle" /\ missed = FALSE /\ work_done = 0 /\ filled = 0 /\ gts = <<>>
        /\ timer = "idle" /\ todo = <<>> /\ nrx = 0
    BY DEF RxInit
  <1>8. RxTypeOK
    <2>1. fl \in FlRecs BY <1>2, <1>4, <1>5, <1>6 DEF FlRecs
    <2>2. sdesc \in [FlSlots -> {"none", "mapped", "unmapped"}] BY <1>3
    <2>3. rspq \in [cidx : 0 .. RspSize - 1, gen : 0 .. 1] BY <1>4, <1>7
    <2>4. rsp \in [0 .. RspSize - 1 -> RspEntries]
      <3>1. [gen |-> 0, pkt |-> NoPkt] \in RspEntries BY NoPktIsPkt DEF RspEntries
      <3> QED BY <1>7, <3>1
    <2>5. sge \in SgeRecs BY <1>2, <1>3, <1>4 DEF SgeRecs
    <2>6. starving \in BOOLEAN BY <1>3 DEF FlStarving
    <2>7. gts \in Seq(Nat) /\ Len(gts) <= 2 /\ todo \in Seq(PktRecs) BY <1>7
    <2> QED BY <1>3, <1>4, <1>7, <2>1, <2>2, <2>3, <2>4, <2>5, <2>6, <2>7 DEF RxTypeOK
  <1>9. SlotDistance(0, 0) = 0 BY <1>4, SlotMoves
  <1>10. RxBuffers
    <2>1. \A s \in FlSlots : /\ SlotDistance(0, s) = s /\ s \in Nat
                             /\ sdesc[s] = IF s < n THEN "mapped" ELSE "none"
      BY <1>3, <1>4, SlotDistanceIs DEF FlSlots
    <2>2. /\ fl.cidx = 0 /\ fl.pidx = n /\ fl.avail = n /\ fl.pend = m
          /\ sge.next = 0 /\ sge.free = n - m
      BY <1>3, <1>6
    <2>3. n - m = n - 0 - m - 0 BY <1>2, <1>4
    <2>4. \A s \in FlSlots :
            /\ sdesc[s] = "none" <=> SlotDistance(0, s) >= n
            /\ 0 <= SlotDistance(0, s) /\ SlotDistance(0, s) < n => sdesc[s] = "mapped"
      BY <1>4, <2>1
    <2>5. BuffersHold(fl, sdesc, sge.next, sge.free, filled)
      BY <1>5, <1>7, <1>9, <2>2, <2>3, <2>4 DEF BuffersHold
    <2> QED BY <1>7, <2>5 DEF RxBuffers
  <1>11. RxPackets
    <2>1. Len(todo) = 0 BY <1>7
    <2>2. fl.cidx = 0 /\ sge.next = 0 /\ sge.open = FALSE BY <1>3, <1>6
    <2>3. PacketsHold(0, 0, 0, FALSE, todo)
      BY <2>1 DEF PacketsHold, Within, FirstAt, LastAt, InOrder
    <2> QED BY <1>7, <1>9, <2>2, <2>3 DEF RxPackets
  <1>12. RxResponses
    <2>1. /\ Len(todo) = 0 /\ rspq.cidx = 0 /\ rspq.gen = 1 /\ sge.idx = 0 /\ sge.gen = 1
      BY <1>3, <1>7
    <2>2. EntryAt(0, 0) = 0 /\ TurnAt(0, 1, 0) = 1 BY <1>4 DEF EntryAt, TurnAt
    <2>3. \A k \in 0 + 1 .. RspSize : /\ EntryAt(0, k - 1) \in 0 .. RspSize - 1
                                      /\ 1 - TurnAt(0, 1, k - 1) = 0
      BY <1>4 DEF EntryAt, TurnAt
    <2>4. \A e \in 0 .. RspSize - 1 : rsp[e].gen = 0 BY <1>7
    <2>5. ResponsesHold(0, 1, rsp, todo)
      BY <1>4, <2>1, <2>3, <2>4 DEF ResponsesHold
    <2> QED BY <2>1, <2>2, <2>5 DEF RxResponses
  <1>13. RxCredits BY <1>3, <1>4, <1>7 DEF RxCredits, GtsSum
  <1>14. RxArmed BY <1>3 DEF RxArmed
  <1>15. RxMarked BY <1>3 DEF RxMarked
  <1> QED BY <1>8, <1>10, <1>11, <1>12, <1>13, <1>14, <1>15 DEF RxInv

-----------------------------------------------------------------------------
(* The poll keeps it.                                                      *)

(* What the poll finds in the queue.                                       *)
LEMMA PollFinds ==
  ASSUME RxInv, IsNew
  PROVE  /\ todo # <<>> /\ rsp[rspq.cidx].pkt = Head(todo)
         /\ rspq.cidx \in 0 .. RspSize - 1 /\ rspq.gen \in 0 .. 1
         /\ fl.cidx \in FlSlots /\ sge.next \in FlSlots /\ sge.free \in Nat
         /\ sge.open \in BOOLEAN
         /\ SlotDistance(fl.cidx, sge.next) \in 0 .. FlSize - 1
  <1>1. /\ rspq.cidx \in 0 .. RspSize - 1 /\ rspq.gen \in 0 .. 1 /\ todo \in Seq(PktRecs)
        /\ fl.cidx \in FlSlots /\ sge.next \in FlSlots /\ sge.free \in Nat
        /\ sge.open \in BOOLEAN
    BY DEF RxInv, RxTypeOK, FlRecs, SgeRecs
  <1>2. ResponsesHold(rspq.cidx, rspq.gen, rsp, todo) BY DEF RxInv, RxResponses
  <1>3. todo # <<>> /\ rsp[rspq.cidx].pkt = Head(todo)
    BY <1>1, <1>2, ResponseSeen DEF IsNew
  <1> QED BY <1>1, <1>3, SlotDistanceIs

LEMMA SmallLength ==
  ASSUME NEW l \in Nat
  PROVE  l <= 2 => l = 0 \/ l = 1 \/ l = 2
  OBVIOUS

LEMMA SumType ==
  ASSUME NEW g \in Seq(Nat), Len(g) <= 2
  PROVE  SumOf(g) \in Nat
  <1>1. Len(g) \in Nat OBVIOUS
  <1>2. \A i \in 1 .. Len(g) : g[i] \in Nat OBVIOUS
  <1>3. CASE Len(g) = 0 BY <1>3 DEF SumOf
  <1>4. CASE Len(g) = 1 BY <1>2, <1>4 DEF SumOf
  <1>5. CASE Len(g) = 2
    <2>1. 1 \in 1 .. Len(g) /\ 2 \in 1 .. Len(g) BY <1>5
    <2>2. g[1] \in Nat /\ g[2] \in Nat BY <1>2, <2>1
    <2>3. SumOf(g) = g[1] + g[2] BY <1>5 DEF SumOf
    <2> QED BY <2>2, <2>3
  <1>6. Len(g) = 0 \/ Len(g) = 1 \/ Len(g) = 2 BY <1>1, SmallLength, Zenon
  <1> QED BY <1>3, <1>4, <1>5, <1>6

LEMMA GtsSumType ==
  ASSUME RxTypeOK
  PROVE  GtsSum \in Nat
  BY SumType DEF RxTypeOK, GtsSum

LEMMA ProcessKeeps ==
  ASSUME RxInv, Process
  PROVE  RxInv'
  <1> DEFINE p == Head(todo)
             n == LeaveWith(p, offset)
             t == SlotDistance(fl.cidx, sge.next)
  <1>1. IsNew /\ napi = "poll" /\ work_done < Budget BY DEF Process
  <1>2. /\ todo # <<>> /\ rsp[rspq.cidx].pkt = p
        /\ rspq.cidx \in 0 .. RspSize - 1 /\ rspq.gen \in 0 .. 1
        /\ fl.cidx \in FlSlots /\ sge.next \in FlSlots /\ sge.free \in Nat
        /\ sge.open \in BOOLEAN /\ t \in 0 .. FlSize - 1
    BY <1>1, PollFinds
  <1>3. /\ fl' = Consumed(n)
        /\ sdesc' = [s \in FlSlots |-> IF s \in SlotsFrom(fl.cidx, n) THEN "none" ELSE sdesc[s]]
        /\ offset' = IF p.n > 0 THEN 1 ELSE offset
        /\ rspq' = [cidx |-> NextEntry(rspq.cidx, rspq.gen).idx,
                    gen |-> NextEntry(rspq.cidx, rspq.gen).gen]
        /\ rsp' = [rsp EXCEPT ![rspq.cidx].pkt = NoPkt]
        /\ work_done' = work_done + 1 /\ todo' = Tail(todo)
        /\ UNCHANGED <<napi, missed, filled, gts, starving, timer, sge, nrx, nfails>>
    BY <1>2 DEF Process, ClosesBuffer, boundVars, LeaveWith, Before
  <1>4. RxTypeOK /\ RxBuffers /\ RxPackets /\ RxResponses /\ RxCredits /\ RxArmed
    BY DEF RxInv
  <1>5. /\ offset \in 0 .. 1 /\ todo \in Seq(PktRecs) /\ fl \in FlRecs /\ filled = 0
        /\ rsp \in [0 .. RspSize - 1 -> RspEntries] /\ work_done \in 0 .. Budget
        /\ sdesc \in [FlSlots -> {"none", "mapped", "unmapped"}] /\ Budget \in Nat
        /\ sge \in SgeRecs
    BY <1>1, <1>4, RxSizes DEF RxTypeOK, RxBuffers
  <1>6. PacketsHold(fl.cidx, offset, t, sge.open, todo) BY <1>4 DEF RxPackets
  <1>7. /\ n \in Nat /\ n <= t
        /\ PacketsHold(SlotAfter(fl.cidx, n), IF p.n > 0 THEN 1 ELSE offset, t - n,
                       sge.open, Tail(todo))
    <2> HIDE DEF t
    <2> QED BY <1>2, <1>5, <1>6, PacketGoes
  <1>8. BuffersHold(fl, sdesc, sge.next, sge.free, 0) BY <1>4, <1>5 DEF RxBuffers
  <1>9. fl' = Left(fl, n)
    BY <1>3 DEF Consumed, Left
  <1>10. SlotsLeft(fl, sdesc, sge.next, n, sdesc')
    <2> SUFFICES ASSUME NEW s \in FlSlots
                 PROVE  /\ SlotDistance(fl.cidx, s) < n => sdesc'[s] = "none"
                        /\ SlotDistance(fl.cidx, s) >= n => (sdesc'[s] = "none" <=> sdesc[s] = "none")
                        /\ SlotDistance(fl.cidx, s) >= SlotDistance(fl.cidx, sge.next)
                             => sdesc'[s] = sdesc[s]
      BY DEF SlotsLeft
    <2>1. n \in 0 .. FlSize BY <1>2, <1>7, RxSizes
    <2>2. s \in SlotsFrom(fl.cidx, n) <=> SlotDistance(fl.cidx, s) < n
      BY <1>2, <2>1, SlotsFromIs
    <2>3. sdesc'[s] = IF s \in SlotsFrom(fl.cidx, n) THEN "none" ELSE sdesc[s]
      BY <1>3
    <2>4. SlotDistance(fl.cidx, s) \in Nat BY <1>2, RxSizes, SlotDistanceIs
    <2> HIDE DEF n
    <2> QED BY <1>2, <1>7, <2>2, <2>3, <2>4
  <1> HIDE DEF n, t, p
  <1>11. /\ fl' \in FlRecs /\ BuffersHold(fl', sdesc', sge.next, sge.free, 0)
         /\ fl'.cidx = SlotAfter(fl.cidx, n)
         /\ SlotDistance(fl'.cidx, sge.next) = t - n
    <2>1. 0 \in Nat /\ n \in Nat /\ n <= SlotDistance(fl.cidx, sge.next)
      BY <1>7 DEF t
    <2>2. fl \in FlRecs /\ sge.next \in FlSlots /\ sge.free \in Nat BY <1>2, <1>5
    <2>3. /\ Left(fl, n) \in FlRecs /\ BuffersHold(Left(fl, n), sdesc', sge.next, sge.free, 0)
          /\ Left(fl, n).cidx = SlotAfter(fl.cidx, n)
      BY ONLY <1>8, <1>10, <2>1, <2>2, BuffersLeave
    <2>4. n \in 0 .. FlSize BY <1>2, <1>7, RxSizes
    <2>5. SlotDistance(SlotAfter(fl.cidx, n), sge.next) = t - n
      BY <1>2, <2>1, <2>4, SlotMoves DEF t
    <2> QED BY <1>9, <2>3, <2>5
  <1>12. RxBuffers' BY <1>3, <1>5, <1>11 DEF RxBuffers
  <1>13. RxPackets' BY <1>3, <1>7, <1>11 DEF RxPackets
  <1>14. /\ ResponsesHold(EntryAt(rspq.cidx, 1), TurnAt(rspq.cidx, rspq.gen, 1), rsp', todo')
         /\ EntryAt(EntryAt(rspq.cidx, 1), Len(todo) - 1) = EntryAt(rspq.cidx, Len(todo))
         /\ TurnAt(EntryAt(rspq.cidx, 1), TurnAt(rspq.cidx, rspq.gen, 1), Len(todo) - 1)
              = TurnAt(rspq.cidx, rspq.gen, Len(todo))
         /\ NextEntry(rspq.cidx, rspq.gen)
              = [idx |-> EntryAt(rspq.cidx, 1), gen |-> TurnAt(rspq.cidx, rspq.gen, 1)]
         /\ EntryAt(rspq.cidx, 1) \in 0 .. RspSize - 1
         /\ TurnAt(rspq.cidx, rspq.gen, 1) \in 0 .. 1
    BY <1>2, <1>3, <1>4, <1>5, ResponseGoes DEF RxResponses
  <1>15. rspq' = [cidx |-> EntryAt(rspq.cidx, 1), gen |-> TurnAt(rspq.cidx, rspq.gen, 1)]
    BY <1>3, <1>14
  <1>16. todo' \in Seq(PktRecs) /\ Len(todo') = Len(todo) - 1 /\ Len(todo) \in Nat
    BY <1>2, <1>3, <1>5
  <1>17. RxResponses'
    BY <1>3, <1>4, <1>14, <1>15, <1>16 DEF RxResponses
  <1>18. RxCredits'
    <2>1. GtsSum' = GtsSum BY <1>3 DEF GtsSum
    <2>2. sge.credits + Len(todo) + work_done + GtsSum = RspSize BY <1>4 DEF RxCredits
    <2>3. sge.credits \in Nat /\ GtsSum \in Nat
      BY <1>4, <1>5, GtsSumType DEF SgeRecs
    <2>6. Len(todo) \in Nat /\ work_done \in Nat BY <1>5, <1>16
    <2>4. sge.credits + (Len(todo) - 1) + (work_done + 1) + GtsSum = RspSize
      BY ONLY <2>2, <2>3, <2>6
    <2>5. sge.credits + Len(todo') + work_done' + GtsSum = RspSize
      BY <1>3, <1>16, <2>4, Zenon
    <2> QED BY <1>1, <1>3, <2>1, <2>5 DEF RxCredits
  <1>19. RxArmed' BY <1>3, <1>4 DEF RxArmed
  <1>20. RxTypeOK'
    <2>1. rsp' \in [0 .. RspSize - 1 -> RspEntries]
      BY <1>2, <1>3, <1>5, NoPktIsPkt DEF RspEntries
    <2>2. sdesc' \in [FlSlots -> {"none", "mapped", "unmapped"}]
      BY <1>3, <1>5
    <2>3. rspq' \in [cidx : 0 .. RspSize - 1, gen : 0 .. 1] BY <1>14, <1>15
    <2>4. work_done' \in 0 .. Budget BY <1>1, <1>3, <1>5
    <2>5. offset' \in 0 .. 1 BY <1>3, <1>5
    <2> QED BY <1>3, <1>4, <1>11, <1>16, <2>1, <2>2, <2>3, <2>4, <2>5 DEF RxTypeOK
  <1> QED BY <1>12, <1>13, <1>17, <1>18, <1>19, <1>20 DEF RxInv

LEMMA ProcessFailsKeeps ==
  ASSUME RxInv, ProcessFails
  PROVE  RxInv'
  <1> DEFINE p == Head(todo)
             k == Before(p, offset)
             t == SlotDistance(fl.cidx, sge.next)
  <1>1. IsNew /\ napi = "poll" BY DEF ProcessFails
  <1>2. /\ todo # <<>> /\ rsp[rspq.cidx].pkt = p
        /\ rspq.cidx \in 0 .. RspSize - 1 /\ rspq.gen \in 0 .. 1
        /\ fl.cidx \in FlSlots /\ sge.next \in FlSlots /\ sge.free \in Nat
        /\ sge.open \in BOOLEAN /\ t \in 0 .. FlSize - 1
    BY <1>1, PollFinds
  <1>3. /\ fl' = Consumed(k)
        /\ sdesc' = [s \in FlSlots |-> IF k = 1 /\ s = fl.cidx THEN "none"
                       ELSE IF p.n > 1 /\ s \in SlotsFrom(SlotAfter(fl.cidx, k), p.n - 1)
                       THEN "unmapped" ELSE sdesc[s]]
        /\ offset' = IF p.new THEN 0 ELSE offset
        /\ napi' = "end" /\ nfails' = nfails + 1
        /\ UNCHANGED <<rspq, rsp, missed, work_done, filled, gts, starving, timer, sge, todo, nrx>>
    BY <1>2 DEF ProcessFails, ClosesBuffer, Before
  <1>4. RxTypeOK /\ RxBuffers /\ RxPackets /\ RxResponses /\ RxCredits /\ RxArmed
    BY DEF RxInv
  <1>5. /\ offset \in 0 .. 1 /\ todo \in Seq(PktRecs) /\ fl \in FlRecs /\ filled = 0
        /\ sdesc \in [FlSlots -> {"none", "mapped", "unmapped"}]
        /\ sge \in SgeRecs /\ FlSize \in Nat /\ t \in Nat
    BY <1>1, <1>2, <1>4, RxSizes DEF RxTypeOK, RxBuffers
  <1>6. PacketsHold(fl.cidx, offset, t, sge.open, todo) BY <1>4 DEF RxPackets
  <1>7. /\ k \in Nat /\ k <= t
        /\ PacketsHold(SlotAfter(fl.cidx, k), IF p.new THEN 0 ELSE offset, t - k,
                       sge.open, todo)
    <2> HIDE DEF t
    <2> QED BY <1>2, <1>5, <1>6, PacketStays
  <1>8. /\ p.n \in Nat /\ p.new \in BOOLEAN
        /\ p.n > 0 => k + p.n <= t
    <2> HIDE DEF t
    <2> QED BY <1>2, <1>5, <1>6, PacketFirst
  <1>9. k \in 0 .. 1 BY DEF Before
  <1>10. BuffersHold(fl, sdesc, sge.next, sge.free, 0) BY <1>4, <1>5 DEF RxBuffers
  <1>11. fl' = Left(fl, k)
    BY <1>3 DEF Consumed, Left
  <1>12. fl.avail >= t
    <2>1. sge.free = fl.avail - t - fl.pend - 0 BY <1>10 DEF BuffersHold
    <2>2. fl.avail \in Nat /\ fl.pend \in Nat BY <1>5, RxSizes DEF FlRecs
    <2> HIDE DEF t
    <2> QED BY <1>2, <1>5, <2>1, <2>2
  <1>13. SlotsLeft(fl, sdesc, sge.next, k, sdesc')
    <2> SUFFICES ASSUME NEW s \in FlSlots
                 PROVE  /\ SlotDistance(fl.cidx, s) < k => sdesc'[s] = "none"
                        /\ SlotDistance(fl.cidx, s) >= k => (sdesc'[s] = "none" <=> sdesc[s] = "none")
                        /\ SlotDistance(fl.cidx, s) >= SlotDistance(fl.cidx, sge.next)
                             => sdesc'[s] = sdesc[s]
      BY DEF SlotsLeft
    <2> DEFINE d == SlotDistance(fl.cidx, s)
               at == SlotAfter(fl.cidx, k)
    <2>1. d \in Nat /\ d < FlSize BY <1>2, RxSizes, SlotDistanceIs
    <2>2. d = 0 <=> s = fl.cidx
      <3>1. d = IF s >= fl.cidx THEN s - fl.cidx ELSE s - fl.cidx + FlSize
        BY <1>2, SlotDistanceIs
      <3>2. s \in 0 .. FlSize - 1 /\ fl.cidx \in 0 .. FlSize - 1 BY <1>2 DEF FlSlots
      <3> HIDE DEF d
      <3> QED BY <1>5, <3>1, <3>2
    <2>3. sdesc[s] = "none" <=> d >= fl.avail BY <1>10 DEF BuffersHold
    <2>4. sdesc'[s] = IF k = 1 /\ s = fl.cidx THEN "none"
                       ELSE IF p.n > 1 /\ s \in SlotsFrom(at, p.n - 1)
                       THEN "unmapped" ELSE sdesc[s]
      BY <1>3
    <2>5. ASSUME p.n > 1, d >= k
          PROVE  s \in SlotsFrom(at, p.n - 1) => d < t
      <3>5. k \in 0 .. FlSize /\ k <= d BY <1>9, <1>5, <1>2, <2>5, RxSizes
      <3>1. at \in FlSlots /\ SlotDistance(at, s) = d - k
        <4> HIDE DEF k
        <4>1. at \in FlSlots BY <1>2, <3>5, SlotAfterIs
        <4>2. SlotDistance(at, s) = d - k BY <1>2, <3>5, SlotMoves
        <4> QED BY <4>1, <4>2
      <3>2. p.n - 1 \in 0 .. FlSize BY <1>2, <1>5, <1>7, <1>8, <2>5
      <3>3. s \in SlotsFrom(at, p.n - 1) <=> d - k < p.n - 1
        BY <3>1, <3>2, SlotsFromIs
      <3> HIDE DEF d, at, t, p, k
      <3> QED BY <1>5, <1>7, <1>8, <2>1, <2>5, <3>3
    <2>6. fl.avail \in Nat BY <1>5, RxSizes DEF FlRecs
    <2> HIDE DEF d, at, t, p, k
    <2>7. CASE d < k
      <3>1. k = 1 /\ d = 0 BY <1>9, <2>1, <2>7
      <3> QED BY <1>5, <1>7, <2>1, <2>2, <2>4, <2>7, <3>1 DEF d, t
    <2>8. CASE d >= k
      <3>1. ~(k = 1 /\ s = fl.cidx) BY <1>9, <2>2, <2>8
      <3>2. sdesc'[s] = IF p.n > 1 /\ s \in SlotsFrom(at, p.n - 1) THEN "unmapped" ELSE sdesc[s]
        BY <2>4, <3>1
      <3>3. CASE p.n > 1 /\ s \in SlotsFrom(at, p.n - 1)
        <4>1. d < t BY <2>5, <2>8, <3>3
        <4>2. sdesc'[s] = "unmapped" /\ ~(d >= fl.avail) /\ ~(d >= t) /\ ~(d < k)
          BY <1>5, <1>7, <1>12, <2>1, <2>6, <2>8, <3>2, <3>3, <4>1
        <4> QED BY <2>3, <4>2 DEF d, t
      <3>4. CASE ~(p.n > 1 /\ s \in SlotsFrom(at, p.n - 1))
        <4>1. sdesc'[s] = sdesc[s] /\ ~(d < k) BY <1>7, <2>1, <2>8, <3>2, <3>4
        <4> QED BY <4>1 DEF d, t
      <3> QED BY <3>3, <3>4
    <2> QED BY <1>7, <2>1, <2>7, <2>8
  <1> HIDE DEF k, t, p
  <1>14. /\ fl' \in FlRecs /\ BuffersHold(fl', sdesc', sge.next, sge.free, 0)
         /\ fl'.cidx = SlotAfter(fl.cidx, k)
         /\ SlotDistance(fl'.cidx, sge.next) = t - k
    <2>1. 0 \in Nat /\ k \in Nat /\ k <= SlotDistance(fl.cidx, sge.next)
      BY <1>7 DEF t
    <2>2. fl \in FlRecs /\ sge.next \in FlSlots /\ sge.free \in Nat BY <1>2, <1>5
    <2>3. /\ Left(fl, k) \in FlRecs /\ BuffersHold(Left(fl, k), sdesc', sge.next, sge.free, 0)
          /\ Left(fl, k).cidx = SlotAfter(fl.cidx, k)
      BY ONLY <1>10, <1>13, <2>1, <2>2, BuffersLeave
    <2>4. k \in 0 .. FlSize BY <1>2, <1>7, RxSizes
    <2>5. SlotDistance(SlotAfter(fl.cidx, k), sge.next) = t - k
      BY <1>2, <2>1, <2>4, SlotMoves DEF t
    <2> QED BY <1>11, <2>3, <2>5
  <1>15. RxBuffers' BY <1>3, <1>5, <1>14 DEF RxBuffers
  <1>16. RxPackets' BY <1>3, <1>7, <1>14 DEF RxPackets
  <1>17. RxResponses' BY <1>3, <1>4 DEF RxResponses
  <1>18. RxCredits' BY <1>3, <1>4 DEF RxCredits, GtsSum
  <1>19. RxArmed' BY <1>3 DEF RxArmed
  <1>20. RxTypeOK'
    <2>1. sdesc' \in [FlSlots -> {"none", "mapped", "unmapped"}]
      BY <1>3, <1>5
    <2>2. offset' \in 0 .. 1 BY <1>3, <1>5
    <2> QED BY <1>3, <1>4, <1>14, <2>1, <2>2 DEF RxTypeOK
  <1> QED BY <1>15, <1>16, <1>17, <1>18, <1>19, <1>20 DEF RxInv

LEMMA RefillKeeps ==
  ASSUME RxInv, Refill
  PROVE  RxInv'
  <1> DEFINE most == IF FlCap - fl.avail < MaxRefill THEN FlCap - fl.avail ELSE MaxRefill
  <1>1. PICK n \in 0 .. most :
          /\ nfails' = (IF n < most THEN nfails + 1 ELSE nfails)
          /\ fl' = Filled(fl, n)
          /\ sdesc' = [s \in FlSlots |-> IF s \in SlotsFrom(fl.pidx, n) THEN "mapped" ELSE sdesc[s]]
          /\ filled' = n
    BY DEF Refill
  <1>2. /\ napi' = "ring" /\ napi \in {"end", "poll"}
        /\ UNCHANGED <<offset, rspq, rsp, missed, work_done, gts, starving, timer, sge, todo, nrx>>
    BY DEF Refill, LoopEnds
  <1>3. RxTypeOK /\ RxBuffers /\ RxPackets /\ RxResponses /\ RxCredits /\ RxArmed
    BY DEF RxInv
  <1>4. /\ fl \in FlRecs /\ filled = 0 /\ sge \in SgeRecs /\ nfails \in Nat
        /\ sdesc \in [FlSlots -> {"none", "mapped", "unmapped"}]
        /\ sge.next \in FlSlots /\ sge.free \in Nat /\ fl.avail \in 0 .. FlCap
    BY <1>2, <1>3 DEF RxTypeOK, RxBuffers, SgeRecs, FlRecs
  <1>5. n \in Nat /\ n <= FlCap - fl.avail
    BY <1>4, RxSizes DEF MaxRefill
  <1>6. BuffersHold(fl, sdesc, sge.next, sge.free, 0) BY <1>3, <1>4 DEF RxBuffers
  <1>7. /\ Filled(fl, n) \in FlRecs /\ Filled(fl, n).cidx = fl.cidx
        /\ BuffersHold(Filled(fl, n), sdesc', sge.next, sge.free, n)
    <2> HIDE DEF most
    <2> QED BY <1>1, <1>4, <1>5, <1>6, BuffersEnter
  <1>8. fl' \in FlRecs /\ fl'.cidx = fl.cidx /\ BuffersHold(fl', sdesc', sge.next, sge.free, n)
    BY <1>1, <1>7
  <1>9. RxBuffers' BY <1>1, <1>2, <1>8 DEF RxBuffers
  <1>10. RxPackets' BY <1>2, <1>3, <1>8 DEF RxPackets
  <1>11. RxResponses' BY <1>2, <1>3 DEF RxResponses
  <1>12. RxCredits' BY <1>2, <1>3 DEF RxCredits, GtsSum
  <1>13. RxArmed' BY <1>2 DEF RxArmed
  <1>14. RxTypeOK'
    <2>1. sdesc' \in [FlSlots -> {"none", "mapped", "unmapped"}] BY <1>1, <1>4
    <2>2. nfails' \in Nat BY <1>1, <1>4
    <2> QED BY <1>1, <1>2, <1>3, <1>5, <1>8, <2>1, <2>2 DEF RxTypeOK
  <1> QED BY <1>9, <1>10, <1>11, <1>12, <1>13, <1>14 DEF RxInv

LEMMA RefillRingKeeps ==
  ASSUME RxInv, RefillRing
  PROVE  RxInv'
  <1>1. PICK cred : cred = fl.pend + filled OBVIOUS
  <1>2. /\ fl' = [fl EXCEPT !.pend = cred % Unit]
        /\ sge' = [sge EXCEPT !.free = sge.free + (cred - (cred % Unit))]
        /\ napi' = "done" /\ filled' = 0 /\ starving' = (starving \/ FlStarving(fl'))
        /\ UNCHANGED <<sdesc, offset, rspq, rsp, missed, work_done, gts, timer, todo, nrx, nfails>>
    BY <1>1 DEF RefillRing, boundVars
  <1>3. RxTypeOK /\ RxBuffers /\ RxPackets /\ RxResponses /\ RxCredits /\ RxArmed
    BY DEF RxInv
  <1>4. /\ fl \in FlRecs /\ filled \in Nat /\ sge \in SgeRecs
        /\ sge.next \in FlSlots /\ sge.free \in Nat
    BY <1>3 DEF RxTypeOK, SgeRecs
  <1>5. BuffersHold(fl, sdesc, sge.next, sge.free, filled) BY <1>3 DEF RxBuffers
  <1>6. /\ fl' \in FlRecs /\ fl'.cidx = fl.cidx
        /\ sge.free + (cred - (cred % Unit)) \in Nat
        /\ BuffersHold(fl', sdesc, sge.next, sge.free + (cred - (cred % Unit)), 0)
    BY <1>1, <1>2, <1>4, <1>5, BuffersGiven
  <1>7. /\ sge' \in SgeRecs /\ sge'.free = sge.free + (cred - (cred % Unit))
        /\ sge'.next = sge.next /\ sge'.open = sge.open /\ sge'.idx = sge.idx
        /\ sge'.gen = sge.gen /\ sge'.credits = sge.credits /\ sge'.armed = sge.armed
    <2>1. PICK x \in Nat : x = sge.free + (cred - (cred % Unit)) BY <1>6
    <2>2. sge' = [sge EXCEPT !.free = x] BY <1>2, <2>1
    <2> QED BY <1>4, <2>1, <2>2 DEF SgeRecs
  <1>8. RxBuffers' BY <1>2, <1>6, <1>7 DEF RxBuffers
  <1>9. RxPackets' BY <1>2, <1>3, <1>6, <1>7 DEF RxPackets
  <1>10. RxResponses' BY <1>2, <1>3, <1>7 DEF RxResponses
  <1>11. RxCredits' BY <1>2, <1>3, <1>7 DEF RxCredits, GtsSum
  <1>12. RxArmed' BY <1>2 DEF RxArmed
  <1>13. RxTypeOK'
    <2>1. starving' \in BOOLEAN BY <1>2, <1>3 DEF RxTypeOK, FlStarving
    <2> QED BY <1>2, <1>3, <1>6, <1>7, <2>1 DEF RxTypeOK
  <1> QED BY <1>8, <1>9, <1>10, <1>11, <1>12, <1>13 DEF RxInv

(* A poll that ends without a refill, and what the timer and the interrupt *)
(* do, leaves the queue alone.                                             *)
LEMMA QueueSame ==
  ASSUME RxInv, UNCHANGED <<fl, sdesc, offset, rspq, rsp, filled, todo, sge, gts, nrx, nfails>>,
         filled # 0 => napi' = "ring"
  PROVE  RxBuffers' /\ RxPackets' /\ RxResponses'
  BY DEF RxInv, RxBuffers, RxPackets, RxResponses

LEMMA NoRefillKeeps ==
  ASSUME RxInv, NoRefill
  PROVE  RxInv'
  <1>1. /\ napi' = "done" /\ napi \in {"end", "poll"}
        /\ UNCHANGED <<fl, sdesc, offset, rspq, rsp, missed, work_done, filled, gts, starving,
                       timer, sge, todo, nrx, nfails>>
    BY DEF NoRefill, LoopEnds, flVars, boundVars
  <1>2. filled = 0 BY <1>1 DEF RxInv, RxBuffers
  <1>3. RxBuffers' /\ RxPackets' /\ RxResponses' BY <1>1, <1>2, QueueSame
  <1>4. RxCredits' BY <1>1 DEF RxInv, RxCredits, GtsSum
  <1>5. RxArmed' BY <1>1 DEF RxArmed
  <1>6. RxTypeOK' BY <1>1 DEF RxInv, RxTypeOK
  <1> QED BY <1>3, <1>4, <1>5, <1>6 DEF RxInv

(* The entries returned are counted once.                                  *)
LEMMA GtsLonger ==
  ASSUME NEW g \in Seq(Nat), Len(g) < 2, NEW w \in Nat
  PROVE  /\ Append(g, w) \in Seq(Nat) /\ Len(Append(g, w)) <= 2
         /\ SumOf(Append(g, w)) = SumOf(g) + w
         /\ Append(g, w) # <<>>
  <1>1. Len(g) \in Nat /\ Len(Append(g, w)) = Len(g) + 1 /\ Append(g, w)[Len(g) + 1] = w
    OBVIOUS
  <1>2. Append(g, w) \in Seq(Nat) OBVIOUS
  <1>3. Len(g) = 0 \/ Len(g) = 1
    <2>1. PICK l \in Nat : l = Len(g) BY <1>1
    <2>2. l < 2 BY <2>1
    <2>3. l = 0 \/ l = 1 BY ONLY <2>2, l \in Nat
    <2> QED BY <2>1, <2>3
  <1>4. CASE Len(g) = 0
    <2>1. Len(Append(g, w)) = 1 /\ Append(g, w)[1] = w BY <1>1, <1>4
    <2>2. SumOf(Append(g, w)) = w /\ SumOf(g) = 0 BY <1>4, <2>1 DEF SumOf
    <2>5. Len(<<>>) = 0 /\ 1 # 0 OBVIOUS
    <2>3. Append(g, w) # <<>> BY ONLY <2>1, <2>5, Zenon
    <2>4. w = 0 + w OBVIOUS
    <2> QED BY <1>2, <2>1, <2>2, <2>3, <2>4
  <1>5. CASE Len(g) = 1
    <2>1. Len(Append(g, w)) = 2 /\ Append(g, w)[2] = w BY <1>1, <1>5
    <2>2. Append(g, w)[1] = g[1] /\ g[1] \in Nat BY <1>5
    <2>3. SumOf(Append(g, w)) = g[1] + w BY <2>1, <2>2 DEF SumOf
    <2>4. SumOf(g) = g[1] BY <1>5 DEF SumOf
    <2>5. Append(g, w) # <<>> BY <2>1
    <2> QED BY <1>2, <2>1, <2>3, <2>4, <2>5
  <1> QED BY <1>3, <1>4, <1>5

LEMMA GtsShorter ==
  ASSUME NEW g \in Seq(Nat), Len(g) <= 2, g # <<>>
  PROVE  /\ Tail(g) \in Seq(Nat) /\ Len(Tail(g)) <= 2 /\ Head(g) \in Nat
         /\ SumOf(g) = SumOf(Tail(g)) + Head(g)
         /\ SumOf(Tail(g)) \in Nat
  <1>1. Len(g) \in Nat /\ Len(g) # 0 OBVIOUS
  <1>2. Len(g) = 1 \/ Len(g) = 2 BY <1>1, SmallLength, Zenon
  <1>3. Len(Tail(g)) = Len(g) - 1 /\ Head(g) = g[1] /\ Head(g) \in Nat OBVIOUS
  <1>4. Tail(g) \in Seq(Nat) OBVIOUS
  <1>5. CASE Len(g) = 1
    <2>1. Len(Tail(g)) = 0 BY <1>3, <1>5
    <2>2. SumOf(Tail(g)) = 0 /\ SumOf(g) = g[1] BY <1>5, <2>1 DEF SumOf
    <2> QED BY <1>3, <1>4, <2>1, <2>2
  <1>6. CASE Len(g) = 2
    <2>1. Len(Tail(g)) = 1 BY <1>3, <1>6
    <2>2. 2 \in 1 .. Len(g) BY <1>6
    <2>6. \A i \in 1 .. Len(g) - 1 : Tail(g)[i] = g[i + 1] OBVIOUS
    <2>7. 1 \in 1 .. Len(g) - 1 /\ 1 + 1 = 2 BY ONLY <1>6
    <2>3. Tail(g)[1] = g[2] /\ g[2] \in Nat BY <2>2, <2>6, <2>7
    <2>8. SumOf(Tail(g)) = Tail(g)[1]
      <3>1. PICK h : h = Tail(g) OBVIOUS
      <3>2. Len(h) = 1 BY <2>1, <3>1
      <3>3. SumOf(h) = h[1] BY ONLY <3>2 DEF SumOf
      <3> QED BY <3>1, <3>3, Zenon
    <2>4. SumOf(Tail(g)) = g[2] BY <2>3, <2>8
    <2>5. SumOf(g) = g[1] + g[2] BY <1>6 DEF SumOf
    <2> QED BY <1>3, <1>4, <2>1, <2>3, <2>4, <2>5
  <1> QED BY <1>2, <1>5, <1>6

LEMMA PollEndsKeeps ==
  ASSUME RxInv, PollEnds
  PROVE  RxInv'
  <1>1. /\ napi = "done" /\ Len(gts) < 2 /\ work_done' = 0
        /\ UNCHANGED <<fl, sdesc, offset, rspq, rsp, filled, starving, timer, todo, nrx, nfails>>
    BY DEF PollEnds, flVars, boundVars
  <1>2. RxTypeOK /\ RxBuffers /\ RxPackets /\ RxResponses /\ RxCredits /\ RxArmed
    BY DEF RxInv
  <1>3. /\ filled = 0 /\ sge \in SgeRecs /\ gts \in Seq(Nat) /\ work_done \in 0 .. Budget
        /\ work_done \in Nat /\ sge.credits \in Nat /\ todo \in Seq(PktRecs) /\ Budget \in Nat
        /\ GtsSum \in Nat /\ Len(todo) \in Nat
    BY <1>1, <1>2, RxSizes, GtsSumType DEF RxTypeOK, RxBuffers, SgeRecs
  <1>4. sge.credits + Len(todo) + work_done + GtsSum = RspSize BY <1>2 DEF RxCredits
  <1>5. CASE work_done < Budget
    <2>1. /\ napi' = (IF missed THEN "poll" ELSE "idle") /\ missed' = FALSE
          /\ gts' = Append(gts, work_done) /\ sge' = sge
      BY <1>5 DEF PollEnds
    <2>2. RxBuffers' /\ RxPackets' /\ RxResponses'
      BY <1>1, <1>2, <1>3, <2>1 DEF RxBuffers, RxPackets, RxResponses
    <2>3. /\ gts' \in Seq(Nat) /\ Len(gts') <= 2 /\ GtsSum' = GtsSum + work_done
          /\ gts' # <<>>
      BY <1>1, <1>3, <2>1, GtsLonger DEF GtsSum
    <2>4. sge.credits + Len(todo) + 0 + (GtsSum + work_done) = RspSize BY <1>3, <1>4
    <2>5. RxCredits' BY <1>1, <2>1, <2>3, <2>4 DEF RxCredits
    <2>6. RxArmed' BY <2>3 DEF RxArmed
    <2>9. work_done' \in 0 .. Budget BY <1>1, <1>3
    <2>7. napi' \in {"idle", "poll", "end", "ring", "done"} /\ missed' \in BOOLEAN
      BY <2>1
    <2>8. RxTypeOK' BY <1>1, <1>2, <2>1, <2>3, <2>7, <2>9 DEF RxTypeOK
    <2> QED BY <2>2, <2>5, <2>6, <2>8 DEF RxInv
  <1>6. CASE ~(work_done < Budget)
    <2>1. /\ napi' = "poll" /\ UNCHANGED <<missed, gts>>
          /\ sge' = [sge EXCEPT !.credits = sge.credits + work_done]
      BY <1>6 DEF PollEnds
    <2>2. /\ sge' \in SgeRecs /\ sge'.free = sge.free
          /\ sge'.next = sge.next /\ sge'.open = sge.open /\ sge'.idx = sge.idx
          /\ sge'.gen = sge.gen /\ sge'.credits = sge.credits + work_done /\ sge'.armed = sge.armed
      <3>1. PICK x \in Nat : x = sge.credits + work_done BY <1>3
      <3>2. sge' = [sge EXCEPT !.credits = x] BY <2>1, <3>1
      <3> QED BY <1>3, <3>1, <3>2 DEF SgeRecs
    <2>3. RxBuffers' /\ RxPackets' /\ RxResponses'
      BY <1>1, <1>2, <1>3, <2>1, <2>2 DEF RxBuffers, RxPackets, RxResponses
    <2>4. (sge.credits + work_done) + Len(todo) + 0 + GtsSum = RspSize BY <1>3, <1>4
    <2>5. GtsSum' = GtsSum BY <2>1 DEF GtsSum
    <2>6. RxCredits' BY <1>1, <2>1, <2>2, <2>4, <2>5 DEF RxCredits
    <2>7. RxArmed' BY <2>1 DEF RxArmed
    <2>8. RxTypeOK' BY <1>1, <1>2, <1>3, <2>1, <2>2 DEF RxTypeOK
    <2> QED BY <2>3, <2>6, <2>7, <2>8 DEF RxInv
  <1> QED BY <1>5, <1>6

LEMMA WriteGtsKeeps ==
  ASSUME RxInv, WriteGts
  PROVE  RxInv'
  <1>1. /\ gts # <<>> /\ gts' = Tail(gts)
        /\ sge' = [sge EXCEPT !.credits = sge.credits + Head(gts), !.armed = TRUE]
        /\ UNCHANGED <<fl, sdesc, offset, rspq, rsp, napi, missed, work_done, filled, starving,
                       timer, todo, nrx, nfails>>
    BY DEF WriteGts, flVars, boundVars
  <1>2. RxTypeOK /\ RxBuffers /\ RxPackets /\ RxResponses /\ RxCredits /\ RxArmed
    BY DEF RxInv
  <1>3. /\ sge \in SgeRecs /\ gts \in Seq(Nat) /\ Len(gts) <= 2 /\ work_done \in Nat
        /\ sge.credits \in Nat /\ todo \in Seq(PktRecs) /\ GtsSum \in Nat /\ Len(todo) \in Nat
    BY <1>2, RxSizes, GtsSumType DEF RxTypeOK, SgeRecs
  <1>4. /\ gts' \in Seq(Nat) /\ Len(gts') <= 2 /\ Head(gts) \in Nat
        /\ GtsSum = GtsSum' + Head(gts) /\ GtsSum' \in Nat
    BY <1>1, <1>3, GtsShorter DEF GtsSum
  <1>5. /\ sge' \in SgeRecs /\ sge'.free = sge.free
        /\ sge'.next = sge.next /\ sge'.open = sge.open /\ sge'.idx = sge.idx
        /\ sge'.gen = sge.gen /\ sge'.credits = sge.credits + Head(gts) /\ sge'.armed
    <2>1. PICK x \in Nat : x = sge.credits + Head(gts) BY <1>3, <1>4
    <2>2. sge' = [sge EXCEPT !.credits = x, !.armed = TRUE] BY <1>1, <2>1
    <2> QED BY <1>3, <2>1, <2>2 DEF SgeRecs
  <1>6. RxBuffers' /\ RxPackets' /\ RxResponses'
    BY <1>1, <1>2, <1>5 DEF RxBuffers, RxPackets, RxResponses
  <1>7. RxTypeOK' BY <1>1, <1>2, <1>4, <1>5 DEF RxTypeOK
  <1>9. (sge.credits + Head(gts)) + Len(todo) + work_done + GtsSum' = RspSize
    <2>1. PICK x \in Nat : x = GtsSum' BY <1>4
    <2>2. sge.credits + Len(todo) + work_done + (x + Head(gts)) = RspSize
      BY <1>2, <1>4, <2>1 DEF RxCredits
    <2>4. PICK y \in Nat : y = Head(gts) BY <1>4
    <2>5. PICK z \in Nat : z = sge.credits BY <1>3
    <2>6. z + Len(todo) + work_done + (x + y) = RspSize BY <2>2, <2>4, <2>5
    <2>7. (z + y) + Len(todo) + work_done + x = RspSize BY ONLY <1>3, <2>6, x \in Nat, y \in Nat, z \in Nat
    <2>3. (sge.credits + Head(gts)) + Len(todo) + work_done + x = RspSize
      BY <2>4, <2>5, <2>7
    <2> QED BY <2>1, <2>3
  <1>10. RxCredits' BY <1>1, <1>2, <1>5, <1>9 DEF RxCredits
  <1>11. RxArmed' BY <1>5 DEF RxArmed
  <1> QED BY <1>6, <1>7, <1>10, <1>11 DEF RxInv

-----------------------------------------------------------------------------
(* Who schedules the poll, and the adapter.                                *)

LEMMA InterruptKeeps ==
  ASSUME RxInv, Interrupt
  PROVE  RxInv'
  <1>1. /\ sge' = [sge EXCEPT !.armed = FALSE] /\ Schedule
        /\ UNCHANGED <<fl, sdesc, offset, rspq, rsp, work_done, filled, gts, starving,
                       timer, todo, nrx, nfails>>
    BY DEF Interrupt, flVars, boundVars
  <1>2. RxTypeOK /\ RxBuffers /\ RxPackets /\ RxResponses /\ RxCredits /\ RxArmed
    BY DEF RxInv
  <1>3. /\ napi' # "idle" /\ napi' \in {"poll", napi} /\ missed' \in {TRUE, missed}
        /\ napi # "idle" => napi' = napi
    BY <1>1 DEF Schedule
  <1>4. sge \in SgeRecs BY <1>2 DEF RxTypeOK
  <1>5. /\ sge' \in SgeRecs /\ sge'.free = sge.free
        /\ sge'.next = sge.next /\ sge'.open = sge.open /\ sge'.idx = sge.idx
        /\ sge'.gen = sge.gen /\ sge'.credits = sge.credits
    BY <1>1, <1>4 DEF SgeRecs
  <1>6. RxBuffers' /\ RxPackets' /\ RxResponses'
    BY <1>1, <1>2, <1>3, <1>5 DEF RxBuffers, RxPackets, RxResponses
  <1>7. RxCredits' BY <1>1, <1>2, <1>3, <1>5 DEF RxCredits, GtsSum
  <1>8. RxArmed' BY <1>3 DEF RxArmed
  <1>9. RxTypeOK' BY <1>1, <1>2, <1>3, <1>5 DEF RxTypeOK
  <1> QED BY <1>6, <1>7, <1>8, <1>9 DEF RxInv

LEMMA RxTimerKeeps ==
  ASSUME RxInv, RxTimerClear \/ RxTimerCheck \/ RxTimerAgain
  PROVE  RxInv'
  <1>1. /\ UNCHANGED <<fl, sdesc, offset, rspq, rsp, work_done, filled, gts, sge, todo, nrx, nfails>>
        /\ napi' \in {"poll", napi} /\ missed' \in {TRUE, missed}
        /\ napi # "idle" => napi' = napi
        /\ timer' \in {"idle", "check", "again"} /\ starving' \in {TRUE, FALSE, starving}
    BY DEF RxTimerClear, RxTimerCheck, RxTimerAgain, flVars, boundVars, pollVars, Schedule
  <1>2. RxTypeOK /\ RxBuffers /\ RxPackets /\ RxResponses /\ RxCredits /\ RxArmed
    BY DEF RxInv
  <1>3. RxBuffers' /\ RxPackets' /\ RxResponses'
    BY <1>1, <1>2 DEF RxBuffers, RxPackets, RxResponses
  <1>4. RxCredits' BY <1>1, <1>2 DEF RxCredits, GtsSum
  <1>5. RxArmed' BY <1>1, <1>2 DEF RxArmed
  <1>6. RxTypeOK' BY <1>1, <1>2 DEF RxTypeOK
  <1> QED BY <1>3, <1>4, <1>5, <1>6 DEF RxInv

(* The adapter writes one response.                                        *)
LEMMA ReceiveKeeps ==
  ASSUME RxInv, NEW p \in PktRecs, Receive(p), sge.credits > 0, nrx' = nrx + 1,
         UNCHANGED <<fl, sdesc, offset, rspq, napi, missed, work_done, filled, gts,
                     starving, timer, nfails>>,
         \/ p = NoPkt
         \/ ~p.new /\ p.n = 1 /\ p.at = SlotAfter(sge.next, FlSize - 1)
         \/ p.new /\ p.n >= 1 /\ p.at = sge.next
  PROVE  RxInv'
  <1> DEFINE n == IF p.new THEN p.n ELSE 0
             t == SlotDistance(fl.cidx, sge.next)
             open == sge.open \/ p.new
  <1>1. RxTypeOK /\ RxBuffers /\ RxPackets /\ RxResponses /\ RxCredits /\ RxArmed
    BY DEF RxInv
  <1>2. /\ fl \in FlRecs /\ fl.cidx \in FlSlots /\ sge \in SgeRecs /\ sge.next \in FlSlots
        /\ sge.free \in Nat /\ sge.open \in BOOLEAN /\ sge.credits \in Nat
        /\ filled \in Nat /\ offset \in 0 .. 1 /\ todo \in Seq(PktRecs) /\ Len(todo) \in Nat
        /\ rspq.cidx \in 0 .. RspSize - 1 /\ rspq.gen \in 0 .. 1
        /\ rsp \in [0 .. RspSize - 1 -> RspEntries] /\ work_done \in Nat /\ nrx \in Nat
    BY <1>1, RxSizes DEF RxTypeOK, FlRecs, SgeRecs
  <1>3. /\ FlSize \in Nat /\ RspSize \in Nat /\ RspSize >= 1 BY RxSizes
  <1>4. t \in Nat BY <1>2, <1>3, SlotDistanceIs
  <1>5. p.n \in Nat /\ p.new \in BOOLEAN /\ p.at \in FlSlots BY DEF PktRecs
  <1>6. BuffersHold(fl, sdesc, sge.next, sge.free, filled) BY <1>1 DEF RxBuffers
  <1>7. PacketsHold(fl.cidx, offset, t, sge.open, todo) BY <1>1 DEF RxPackets
  <1>8. n \in Nat /\ n <= sge.free BY <1>2, <1>5 DEF Receive
  <1>9. p # NoPkt /\ ~p.new => sge.open BY DEF Receive
  <1>10. open \in BOOLEAN BY <1>2, <1>5
  <1>11. \/ p.n = 0 /\ ~p.new /\ t + n = t /\ open = sge.open
         \/ p.n = 1 /\ ~p.new /\ t > 0 /\ SlotDistance(fl.cidx, p.at) = t - 1 /\ t + n = t
         \/ p.n > 0 /\ p.new /\ SlotDistance(fl.cidx, p.at) = t /\ t + n = t + p.n
    <2>1. CASE p = NoPkt
      <3>1. p.n = 0 /\ ~p.new BY <2>1 DEF NoPkt
      <3>2. n = 0 BY <3>1
      <3> HIDE DEF n, t
      <3> QED BY <1>2, <1>4, <3>1, <3>2
    <2>2. CASE ~p.new /\ p.n = 1 /\ p.at = SlotAfter(sge.next, FlSize - 1)
      <3>1. p # NoPkt BY <2>2 DEF NoPkt
      <3>2. sge.open BY <1>9, <2>2, <3>1
      <3>3. t > 0 BY <1>7, <3>2 DEF PacketsHold
      <3>4. SlotDistance(fl.cidx, sge.next) >= 1 BY <1>4, <3>3
      <3>5. SlotDistance(fl.cidx, p.at) = t - 1
        <4>1. 0 \in 0 .. FlSize BY <1>3
        <4> QED BY <1>2, <2>2, <3>4, <4>1, SlotMoves
      <3>6. n = 0 BY <2>2
      <3> HIDE DEF n, t
      <3> QED BY <1>4, <2>2, <3>3, <3>5, <3>6
    <2>3. CASE p.new /\ p.n >= 1 /\ p.at = sge.next
      <3>1. n = p.n /\ SlotDistance(fl.cidx, p.at) = t BY <2>3
      <3> HIDE DEF n, t
      <3> QED BY <1>5, <2>3, <3>1
    <2> QED BY <2>1, <2>2, <2>3
  <1>12. t + n \in Nat
    <2> HIDE DEF t, n
    <2> QED BY <1>4, <1>8
  <1> HIDE DEF n, t, open
  <1>13. PacketsHold(fl.cidx, offset, t + n, open, Append(todo, p))
    BY <1>2, <1>4, <1>7, <1>10, <1>11, <1>12, PacketComes
  <1>14. /\ SlotAfter(sge.next, n) \in FlSlots /\ sge.free - n \in Nat
         /\ SlotDistance(fl.cidx, SlotAfter(sge.next, n)) = t + n
         /\ BuffersHold(fl, sdesc, SlotAfter(sge.next, n), sge.free - n, filled)
    BY <1>2, <1>6, <1>8, BuffersTaken DEF t
  <1>15. sge.credits + Len(todo) + work_done + GtsSum = RspSize /\ GtsSum \in Nat
    BY <1>1, GtsSumType DEF RxCredits
  <1>16. Len(todo) < RspSize
    <2>1. PICK g \in Nat : g = GtsSum BY <1>15
    <2>2. PICK c \in Nat : c = sge.credits /\ c > 0 BY <1>2
    <2>3. c + Len(todo) + work_done + g = RspSize BY <1>15, <2>1, <2>2
    <2> QED BY ONLY <1>2, <1>3, <2>2, <2>3
  <1>17. /\ sge.idx = EntryAt(rspq.cidx, Len(todo))
         /\ sge.gen = TurnAt(rspq.cidx, rspq.gen, Len(todo))
         /\ ResponsesHold(rspq.cidx, rspq.gen, rsp, todo)
    BY <1>1 DEF RxResponses
  <1> DEFINE r2 == [rsp EXCEPT ![sge.idx] = [gen |-> sge.gen, pkt |-> p]]
             i2 == EntryAt(rspq.cidx, Len(todo) + 1)
             g2 == TurnAt(rspq.cidx, rspq.gen, Len(todo) + 1)
  <1>18. /\ ResponsesHold(rspq.cidx, rspq.gen, r2, Append(todo, p))
         /\ NextEntry(sge.idx, sge.gen) = [idx |-> i2, gen |-> g2]
         /\ sge.idx \in 0 .. RspSize - 1 /\ sge.gen \in 0 .. 1
         /\ i2 \in 0 .. RspSize - 1 /\ g2 \in 0 .. 1
    BY <1>2, <1>16, <1>17, ResponseComes
  <1>19. /\ rsp' = r2 /\ todo' = Append(todo, p)
         /\ sge' = [sge EXCEPT !.next = SlotAfter(sge.next, n), !.free = sge.free - n,
                               !.open = open, !.idx = i2, !.gen = g2,
                               !.credits = sge.credits - 1]
    BY <1>18 DEF Receive, n, open
  <1>20. r2 \in [0 .. RspSize - 1 -> RspEntries]
    BY <1>2, <1>18 DEF RspEntries
  <1> HIDE DEF r2, i2, g2
  <1>21. /\ sge' \in SgeRecs /\ sge'.next = SlotAfter(sge.next, n) /\ sge'.free = sge.free - n
         /\ sge'.open = open /\ sge'.idx = i2 /\ sge'.gen = g2
         /\ sge'.credits = sge.credits - 1 /\ sge'.armed = sge.armed
    <2>1. PICK x \in FlSlots : x = SlotAfter(sge.next, n) BY <1>14
    <2>2. PICK y \in Nat : y = sge.free - n BY <1>14
    <2>3. sge.credits - 1 \in Nat BY <1>2
    <2>4. PICK c \in Nat : c = sge.credits - 1 BY <2>3
    <2>5. sge' = [sge EXCEPT !.next = x, !.free = y, !.open = open, !.idx = i2, !.gen = g2,
                             !.credits = c]
      BY <1>19, <2>1, <2>2, <2>4
    <2> QED BY <1>2, <1>10, <1>18, <2>1, <2>2, <2>4, <2>5 DEF SgeRecs
  <1>22. RxBuffers' BY <1>1, <1>14, <1>21 DEF RxBuffers
  <1>23. RxPackets' BY <1>13, <1>14, <1>19, <1>21 DEF RxPackets
  <1>24. todo' \in Seq(PktRecs) /\ Len(todo') = Len(todo) + 1 BY <1>2, <1>19
  <1>25. RxResponses' BY <1>18, <1>19, <1>21, <1>24 DEF RxResponses, i2, g2
  <1>26. RxCredits'
    <2>1. GtsSum' = GtsSum BY DEF GtsSum
    <2>2. PICK g \in Nat : g = GtsSum BY <1>15
    <2>3. PICK c \in Nat : c = sge.credits BY <1>2
    <2>4. c + Len(todo) + work_done + g = RspSize BY <1>15, <2>2, <2>3
    <2>5. (c - 1) + (Len(todo) + 1) + work_done + g = RspSize
      BY ONLY <1>2, <2>4, c \in Nat, g \in Nat
    <2>6. sge'.credits + Len(todo') + work_done' + GtsSum' = RspSize
      BY <1>21, <1>24, <2>1, <2>2, <2>3, <2>5
    <2> QED BY <1>1, <2>6 DEF RxCredits
  <1>27. RxArmed' BY <1>1, <1>21 DEF RxArmed
  <1>28. RxTypeOK'
    <2>1. nrx' \in Nat BY <1>2
    <2> QED BY <1>1, <1>19, <1>20, <1>21, <1>24, <2>1 DEF RxTypeOK
  <1> QED BY <1>22, <1>23, <1>25, <1>26, <1>27, <1>28 DEF RxInv

LEMMA SgeReceivesKeeps ==
  ASSUME RxInv, SgeReceives
  PROVE  RxInv'
  <1>1. /\ nrx' = nrx + 1 /\ sge.credits > 0
        /\ UNCHANGED <<fl, sdesc, offset, rspq, napi, missed, work_done, filled, gts,
                       starving, timer, nfails>>
    BY DEF SgeReceives, flVars, pollVars
  <1>2. sge.next \in FlSlots BY DEF RxInv, RxTypeOK, SgeRecs
  <1>3. CASE Receive(NoPkt) BY <1>1, <1>3, ReceiveKeeps, NoPktIsPkt
  <1>4. CASE Receive([new |-> FALSE, n |-> 1, at |-> SlotAfter(sge.next, FlSize - 1)])
    <2>1. FlSize - 1 \in 0 .. FlSize BY RxSizes
    <2>2. SlotAfter(sge.next, FlSize - 1) \in FlSlots BY <1>2, <2>1, SlotAfterIs
    <2> DEFINE p == [new |-> FALSE, n |-> 1, at |-> SlotAfter(sge.next, FlSize - 1)]
    <2>3. p \in PktRecs BY <2>2 DEF PktRecs
    <2>4. ~p.new /\ p.n = 1 /\ p.at = SlotAfter(sge.next, FlSize - 1) OBVIOUS
    <2>5. Receive(p) BY <1>4
    <2> HIDE DEF p
    <2> QED BY <1>1, <2>3, <2>4, <2>5, ReceiveKeeps
  <1>5. ASSUME NEW n \in Frags, Receive([new |-> TRUE, n |-> n, at |-> sge.next])
        PROVE  RxInv'
    <2>1. n \in Nat /\ n >= 1 BY RxSizes
    <2> DEFINE p == [new |-> TRUE, n |-> n, at |-> sge.next]
    <2>2. p \in PktRecs BY <1>2, <2>1 DEF PktRecs
    <2>3. p.new /\ p.n >= 1 /\ p.at = sge.next BY <2>1
    <2>4. Receive(p) BY <1>5
    <2> HIDE DEF p
    <2> QED BY <1>1, <2>2, <2>3, <2>4, ReceiveKeeps
  <1> QED BY <1>3, <1>4, <1>5 DEF SgeReceives

LEMMA RxStepKeeps ==
  ASSUME RxInv, [RxNext]_rxVars
  PROVE  RxInv'
  <1>1. CASE UNCHANGED rxVars
    <2>1. /\ UNCHANGED <<fl, sdesc, offset, rspq, rsp, napi, missed, work_done, filled, gts>>
          /\ UNCHANGED <<starving, timer, sge, todo, nrx, nfails>>
      BY <1>1 DEF rxVars
    <2>2. RxTypeOK /\ RxBuffers /\ RxPackets /\ RxResponses /\ RxCredits /\ RxArmed
      BY DEF RxInv
    <2>3. RxTypeOK' BY <2>1, <2>2 DEF RxTypeOK
    <2>4. RxBuffers' /\ RxPackets' /\ RxResponses'
      BY <2>1, <2>2 DEF RxBuffers, RxPackets, RxResponses
    <2>5. RxCredits' /\ RxArmed' BY <2>1, <2>2 DEF RxCredits, RxArmed, GtsSum
    <2> QED BY <2>3, <2>4, <2>5 DEF RxInv
  <1> QED BY <1>1, ProcessKeeps, ProcessFailsKeeps, RefillKeeps, RefillRingKeeps, NoRefillKeeps,
             PollEndsKeeps, WriteGtsKeeps, InterruptKeeps, RxTimerKeeps, SgeReceivesKeeps
             DEF RxNext

-----------------------------------------------------------------------------
(* The starving list and the timer.                                        *)

(* The ring is long enough that a free list from which no two descriptors  *)
(* are missing is not starving.                                            *)
RingLong == FlSize >= StarveThres + 4 * Unit - 1

LEMMA MarkedStep ==
  ASSUME RingLong, RxInv, RxMarked, [RxNext]_rxVars
  PROVE  RxMarked'
  <1>1. fl \in FlRecs /\ starving \in BOOLEAN BY DEF RxInv, RxTypeOK
  <1>2. fl.avail \in Nat /\ fl.pend \in 0 .. Unit - 1 BY <1>1, RxSizes DEF FlRecs
  <1>3. CASE Process \/ ProcessFails \/ Refill
    <2>1. napi' \notin {"idle", "done"}
      BY <1>3 DEF Process, ProcessFails, Refill
    <2> QED BY <2>1 DEF RxMarked
  <1>4. CASE RefillRing
    BY <1>4 DEF RefillRing, RxMarked
  <1>5. CASE NoRefill
    <2>1. UNCHANGED fl /\ ~NeedsRefill BY <1>5 DEF NoRefill, flVars
    <2>2. ~(FlCap - fl.avail >= 2 * Unit) BY <2>1 DEF NeedsRefill, MaxRefill
    <2>3. FlSize >= StarveThres + 4 * Unit - 1 BY DEF RingLong
    <2>4. PICK av \in Nat, pe \in Nat : av = fl.avail /\ pe = fl.pend /\ pe <= Unit - 1
      BY <1>2, RxSizes
    <2>5. PICK th \in Nat : th = StarveThres BY RxSizes
    <2>6. ~(FlSize - Unit - av >= 2 * Unit) BY <2>2, <2>4, RxSizes
    <2>7. FlSize \in Nat /\ Unit \in Nat BY RxSizes
    <2>8. FlSize >= th + 4 * Unit - 1 BY <2>3, <2>5
    <2>9. ~(av - pe <= th) BY ONLY <2>4, <2>6, <2>7, <2>8, av \in Nat, pe \in Nat, th \in Nat
    <2>10. ~FlStarving(fl) BY <2>4, <2>5, <2>9 DEF FlStarving
    <2> QED BY <2>1, <2>10 DEF RxMarked, FlStarving
  <1>6. CASE PollEnds
    <2>1. UNCHANGED <<fl, starving, timer>> /\ napi = "done" BY <1>6 DEF PollEnds, flVars
    <2> QED BY <2>1 DEF RxMarked, FlStarving
  <1>7. CASE WriteGts
    <2>1. UNCHANGED <<fl, starving, timer, napi>> BY <1>7 DEF WriteGts, flVars
    <2> QED BY <2>1 DEF RxMarked, FlStarving
  <1>8. CASE Interrupt
    <2>1. UNCHANGED <<fl, starving, timer>> BY <1>8 DEF Interrupt, flVars
    <2>2. napi' = "poll" \/ napi' = napi BY <1>8 DEF Interrupt, Schedule
    <2> QED BY <2>1, <2>2 DEF RxMarked, FlStarving
  <1>9. CASE RxTimerClear
    BY <1>9 DEF RxTimerClear, RxMarked
  <1>10. CASE RxTimerCheck
    <2>1. UNCHANGED <<fl, starving>> BY <1>10 DEF RxTimerCheck, flVars
    <2>2. CASE FlStarving(fl) /\ napi # "idle"
      <3>1. timer' = "again" BY <1>10, <2>2 DEF RxTimerCheck
      <3> QED BY <3>1 DEF RxMarked
    <2>3. CASE FlStarving(fl) /\ napi = "idle"
      <3>1. napi' = "poll" BY <1>10, <2>3 DEF RxTimerCheck, Schedule
      <3> QED BY <3>1 DEF RxMarked
    <2>4. CASE ~FlStarving(fl)
      BY <2>1, <2>4 DEF RxMarked, FlStarving
    <2> QED BY <2>2, <2>3, <2>4
  <1>11. CASE RxTimerAgain
    BY <1>11 DEF RxTimerAgain, RxMarked
  <1>12. CASE SgeReceives
    <2>1. UNCHANGED <<fl, starving, timer, napi>> BY <1>12 DEF SgeReceives, flVars, pollVars
    <2> QED BY <2>1 DEF RxMarked, FlStarving
  <1>13. CASE UNCHANGED rxVars
    <2>1. UNCHANGED <<fl, starving, timer, napi>> BY <1>13 DEF rxVars
    <2> QED BY <2>1 DEF RxMarked, FlStarving
  <1> QED BY <1>3, <1>4, <1>5, <1>6, <1>7, <1>8, <1>9, <1>10, <1>11, <1>12, <1>13 DEF RxNext

-----------------------------------------------------------------------------
(* What follows from the invariant.                                        *)

LEMMA RingPlaces ==
  ASSUME NEW c \in FlSlots, NEW x \in FlSlots
  PROVE  SlotAfter(c, SlotDistance(c, x)) = x
  <1>1. 0 \in 0 .. FlSize /\ FlSize \in Nat BY RxSizes
  <1>2. SlotDistance(c, x) \in 0 .. FlSize - 1 BY SlotDistanceIs
  <1>3. PICK d \in Nat : d = SlotDistance(c, x) /\ d < FlSize BY <1>1, <1>2
  <1>4. d + 0 = d /\ d + 0 < FlSize BY <1>3
  <1>5. SlotAfter(c, d + 0) = SlotAfter(x, 0) BY <1>1, <1>3, <1>4, SlotMoves
  <1>6. SlotAfter(x, 0) = x BY <1>1, SlotMoves
  <1> QED BY <1>3, <1>4, <1>5, <1>6

(* The slots of a part of the ring that begins at distance k.              *)
LEMMA RingPart ==
  ASSUME NEW c \in FlSlots, NEW k \in 0 .. FlSize, NEW n \in 0 .. FlSize, NEW s \in FlSlots,
         k + n <= FlSize, s \in SlotsFrom(SlotAfter(c, k), n)
  PROVE  k <= SlotDistance(c, s) /\ SlotDistance(c, s) < k + n
  <1>1. FlSize \in Nat BY RxSizes
  <1>2. SlotAfter(c, k) \in FlSlots BY SlotAfterIs
  <1>3. SlotDistance(SlotAfter(c, k), s) < n BY <1>2, SlotsFromIs
  <1>4. SlotDistance(c, s) \in 0 .. FlSize - 1 BY SlotDistanceIs
  <1>5. PICK d \in Nat : d = SlotDistance(c, s) BY <1>1, <1>4
  <1>6. CASE k <= d
    <2>1. SlotDistance(SlotAfter(c, k), s) = d - k BY <1>5, <1>6, SlotMoves
    <2>2. d - k < n BY <1>3, <2>1
    <2> QED BY <1>5, <1>6, <2>2
  <1>7. CASE k > d
    <2>1. SlotDistance(SlotAfter(c, k), s) = d - k + FlSize BY <1>5, <1>7, SlotMoves
    <2>2. d - k + FlSize < n BY <1>3, <2>1
    <2> QED BY <1>1, <1>7, <2>2
  <1> QED BY <1>6, <1>7

LEMMA BuffersDoAgree ==
  ASSUME RxInv
  PROVE  BuffersAgree
  <1> DEFINE t == SlotDistance(fl.cidx, sge.next)
  <1>1. /\ fl \in FlRecs /\ sge \in SgeRecs /\ filled \in Nat
        /\ BuffersHold(fl, sdesc, sge.next, sge.free, filled)
    BY DEF RxInv, RxTypeOK, RxBuffers
  <1>2. /\ fl.cidx \in FlSlots /\ sge.next \in FlSlots /\ sge.free \in Nat
        /\ fl.avail \in 0 .. FlCap /\ fl.pend \in 0 .. Unit - 1
    BY <1>1 DEF FlRecs, SgeRecs
  <1>3. FlSize \in Nat /\ Unit \in Nat /\ FlCap \in Nat /\ FlCap < FlSize BY RxSizes
  <1>4. fl.avail \in 0 .. FlSize /\ fl.avail < FlSize /\ fl.pend \in Nat /\ fl.pend < Unit
    BY <1>2, <1>3
  <1>5. t \in 0 .. FlSize /\ t \in Nat BY <1>2, <1>3, SlotDistanceIs
  <1>6. /\ fl.pidx = SlotAfter(fl.cidx, fl.avail)
        /\ sge.free = fl.avail - t - fl.pend - filled
    BY <1>1 DEF BuffersHold
  <1>7. t <= fl.avail
    <2> HIDE DEF t
    <2> QED BY <1>1, <1>2, <1>4, <1>5, <1>6
  <1>8. fl.pidx \in FlSlots BY <1>1 DEF FlRecs
  <1>9. SlotDistance(fl.cidx, fl.pidx) = fl.avail
    <2>1. SlotDistance(fl.cidx, fl.cidx) = 0 BY <1>2, <1>4, SlotMoves
    <2>2. 0 + fl.avail < FlSize /\ 0 + fl.avail = fl.avail BY <1>4
    <2>3. SlotDistance(fl.cidx, SlotAfter(fl.cidx, fl.avail)) = 0 + fl.avail
      BY <1>2, <1>4, <2>1, <2>2, SlotMoves
    <2> QED BY <1>6, <2>2, <2>3
  <1>10. SlotAfter(fl.cidx, t) = sge.next BY <1>2, RingPlaces
  <1>11. SlotDistance(sge.next, fl.pidx) = fl.avail - t
    <2> HIDE DEF t
    <2>1. SlotDistance(SlotAfter(fl.cidx, t), fl.pidx) = SlotDistance(fl.cidx, fl.pidx) - t
      BY <1>2, <1>5, <1>7, <1>8, <1>9, SlotMoves
    <2> QED BY <1>9, <1>10, <2>1
  <1>12. sge.free = SlotDistance(sge.next, fl.pidx) - fl.pend - filled
    BY <1>6, <1>11
  <1>13. ASSUME NEW s \in FlSlots
         PROVE  /\ sdesc[s] # "none" <=> s \in SlotsFrom(fl.cidx, fl.avail)
                /\ s \in SlotsFrom(sge.next, sge.free) => sdesc[s] = "mapped"
    <2>1. SlotDistance(fl.cidx, s) \in Nat BY <1>2, <1>3, SlotDistanceIs
    <2>2. s \in SlotsFrom(fl.cidx, fl.avail) <=> SlotDistance(fl.cidx, s) < fl.avail
      BY <1>2, <1>4, SlotsFromIs
    <2>3. /\ sdesc[s] = "none" <=> SlotDistance(fl.cidx, s) >= fl.avail
          /\ t <= SlotDistance(fl.cidx, s) /\ SlotDistance(fl.cidx, s) < fl.avail
             => sdesc[s] = "mapped"
      BY <1>1 DEF BuffersHold
    <2>4. sdesc[s] # "none" <=> s \in SlotsFrom(fl.cidx, fl.avail)
      BY <1>4, <2>1, <2>2, <2>3
    <2>5. ASSUME s \in SlotsFrom(sge.next, sge.free)
          PROVE  sdesc[s] = "mapped"
      <3> HIDE DEF t
      <3>1. t + sge.free <= fl.avail
        BY ONLY <1>1, <1>2, <1>3, <1>4, <1>5, <1>6
      <3>2. sge.free \in 0 .. FlSize /\ t + sge.free <= FlSize
        BY <1>2, <1>3, <1>4, <1>5, <3>1
      <3>3. s \in SlotsFrom(SlotAfter(fl.cidx, t), sge.free) BY <1>10, <2>5
      <3>4. t <= SlotDistance(fl.cidx, s) /\ SlotDistance(fl.cidx, s) < t + sge.free
        BY <1>2, <1>5, <3>2, <3>3, RingPart
      <3>5. SlotDistance(fl.cidx, s) < fl.avail
        BY <1>2, <1>4, <1>5, <2>1, <3>1, <3>4
      <3> QED BY <2>3, <3>4, <3>5
    <2> QED BY <2>4, <2>5
  <1> QED BY <1>2, <1>3, <1>4, <1>7, <1>9, <1>12, <1>13 DEF BuffersAgree

LEMMA ResponsesAreInOrder ==
  ASSUME RxInv
  PROVE  ResponsesInOrder
  <1> DEFINE t == SlotDistance(fl.cidx, sge.next)
  <1>1. /\ fl \in FlRecs /\ sge \in SgeRecs /\ filled \in Nat /\ todo \in Seq(PktRecs)
        /\ offset \in 0 .. 1 /\ rspq.cidx \in 0 .. RspSize - 1 /\ rspq.gen \in 0 .. 1
        /\ work_done \in Nat /\ Len(todo) \in Nat
        /\ BuffersHold(fl, sdesc, sge.next, sge.free, filled)
        /\ PacketsHold(fl.cidx, offset, t, sge.open, todo)
        /\ ResponsesHold(rspq.cidx, rspq.gen, rsp, todo)
    BY RxSizes DEF RxInv, RxTypeOK, RxBuffers, RxPackets, RxResponses
  <1>2. /\ fl.cidx \in FlSlots /\ sge.next \in FlSlots /\ sge.free \in Nat
        /\ fl.avail \in 0 .. FlCap /\ fl.pend \in 0 .. Unit - 1 /\ sge.open \in BOOLEAN
        /\ sge.credits \in Nat
    BY <1>1 DEF FlRecs, SgeRecs
  <1>3. FlSize \in Nat /\ Unit \in Nat /\ FlCap \in Nat /\ FlCap < FlSize BY RxSizes
  <1>4. fl.avail \in Nat /\ fl.avail < FlSize /\ fl.pend \in Nat BY <1>2, <1>3
  <1>5. t \in Nat BY <1>2, <1>3, SlotDistanceIs
  <1>6. sge.free = fl.avail - t - fl.pend - filled BY <1>1 DEF BuffersHold
  <1>7. t <= fl.avail
    <2> HIDE DEF t
    <2> QED BY <1>1, <1>2, <1>4, <1>5, <1>6
  <1>8. /\ IsNew <=> todo # <<>>
        /\ todo # <<>> => rsp[rspq.cidx].pkt = Head(todo)
    BY <1>1, ResponseSeen DEF IsNew
  <1>9. ASSUME todo # <<>>, NEW p, p = Head(todo),
               NEW k, k = Before(p, offset), p.n > 0
        PROVE  /\ SlotAfter(fl.cidx, k) = p.at
               /\ ~p.new => offset > 0
               /\ \A s \in SlotsFrom(SlotAfter(fl.cidx, k), p.n) : sdesc[s] # "none"
    <2>1. /\ p.n \in Nat /\ p.at \in FlSlots /\ SlotDistance(fl.cidx, p.at) = k /\ k + p.n <= t
          /\ ~p.new => offset = 1
      <3> HIDE DEF t
      <3> QED BY <1>1, <1>2, <1>5, <1>9, PacketFirst
    <2>2. SlotAfter(fl.cidx, k) = p.at BY <1>2, <2>1, RingPlaces
    <2>3. k \in 0 .. 1 BY <1>9 DEF Before
    <2> HIDE DEF t
    <2>4. /\ k \in 0 .. FlSize /\ p.n \in 0 .. FlSize /\ k + p.n <= FlSize /\ k + p.n <= fl.avail
          /\ k \in Nat
      BY <1>3, <1>4, <1>5, <1>7, <2>1, <2>3
    <2>5. ASSUME NEW s \in SlotsFrom(SlotAfter(fl.cidx, k), p.n)
          PROVE  sdesc[s] # "none"
      <3>1. SlotAfter(fl.cidx, k) \in FlSlots BY <2>1, <2>2
      <3>2. s \in FlSlots
        <4>1. PICK i \in 0 .. p.n - 1 : s = SlotAfter(SlotAfter(fl.cidx, k), i)
          BY <2>5 DEF SlotsFrom
        <4>2. i \in 0 .. FlSize BY <2>1, <2>4, <1>3
        <4> QED BY <3>1, <4>1, <4>2, SlotAfterIs
      <3>3. SlotDistance(fl.cidx, s) < k + p.n BY <1>2, <2>4, <3>2, RingPart
      <3>4. SlotDistance(fl.cidx, s) \in Nat BY <1>2, <1>3, <3>2, SlotDistanceIs
      <3>5. ~(SlotDistance(fl.cidx, s) >= fl.avail) BY <1>4, <2>1, <2>4, <3>3, <3>4
      <3> QED BY <1>1, <3>2, <3>5 DEF BuffersHold
    <2> QED BY <2>1, <2>2, <2>5
  <1>10. sge.credits + Len(todo) + work_done <= RspSize
    <2>1. sge.credits + Len(todo) + work_done + GtsSum = RspSize BY DEF RxInv, RxCredits
    <2>2. PICK g \in Nat : g = GtsSum BY GtsSumType DEF RxInv
    <2>3. RspSize \in Nat BY RxSizes
    <2> QED BY <1>1, <1>2, <2>1, <2>2, <2>3
  <1>11. ASSUME todo # <<>>
         PROVE  LET pkt == Head(todo)
                    from == SlotAfter(fl.cidx, IF ClosesBuffer(pkt) THEN 1 ELSE 0)
                IN /\ rsp[rspq.cidx].pkt = pkt
                   /\ pkt.n > 0 => /\ from = pkt.at
                                   /\ ~pkt.new => offset > 0
                                   /\ \A s \in SlotsFrom(from, pkt.n) : sdesc[s] # "none"
    <2>1. PICK p : p = Head(todo) OBVIOUS
    <2>2. PICK k : k = Before(p, offset) OBVIOUS
    <2>3. k = IF ClosesBuffer(p) THEN 1 ELSE 0 BY <2>2 DEF Before, ClosesBuffer
    <2>4. p.n > 0 => /\ SlotAfter(fl.cidx, k) = p.at
                     /\ ~p.new => offset > 0
                     /\ \A s \in SlotsFrom(SlotAfter(fl.cidx, k), p.n) : sdesc[s] # "none"
      BY <1>9, <1>11, <2>1, <2>2
    <2>5. rsp[rspq.cidx].pkt = p BY <1>8, <1>11, <2>1
    <2> QED BY <2>1, <2>3, <2>4, <2>5
  <1> QED BY <1>8, <1>10, <1>11 DEF ResponsesInOrder

(* At rest no response waits and the adapter has what its threshold asks   *)
(* for.                                                                    *)
LEMMA StuckNever ==
  ASSUME RxInv, RxMarked
  PROVE  StarvingIsMarked /\ NeverStuck
  <1>1. StarvingIsMarked BY DEF RxMarked, StarvingIsMarked
  <1>2. SUFFICES ASSUME AtRest PROVE todo = <<>> /\ sge.free > 2 * Egress
    BY <1>1 DEF NeverStuck
  <1>3. /\ napi = "idle" /\ ~FlStarving(fl) /\ gts = <<>> /\ ~(sge.armed /\ sge.credits < RspSize)
    BY <1>1, <1>2 DEF AtRest, StarvingIsMarked
  <1>4. /\ fl \in FlRecs /\ sge \in SgeRecs /\ todo \in Seq(PktRecs) /\ offset \in 0 .. 1
        /\ Len(todo) \in Nat
        /\ BuffersHold(fl, sdesc, sge.next, sge.free, filled) /\ filled = 0
        /\ PacketsHold(fl.cidx, offset, SlotDistance(fl.cidx, sge.next), sge.open, todo)
    BY <1>3 DEF RxInv, RxTypeOK, RxBuffers, RxPackets
  <1>5. /\ sge.free \in Nat /\ sge.credits \in Nat /\ fl.avail \in Nat /\ fl.pend \in Nat
        /\ fl.cidx \in FlSlots /\ sge.next \in FlSlots
    BY <1>4, RxSizes DEF FlRecs, SgeRecs
  <1>6. sge.armed BY <1>3 DEF RxInv, RxArmed
  <1>7. GtsSum = 0
    <2>1. Len(gts) = 0 BY <1>3
    <2> QED BY <2>1 DEF GtsSum, SumOf
  <1>8. sge.credits + Len(todo) + 0 + 0 = RspSize
    BY <1>3, <1>7 DEF RxInv, RxCredits
  <1>9. Len(todo) = 0
    <2>1. RspSize \in Nat /\ ~(sge.credits < RspSize) BY <1>3, <1>6, RxSizes
    <2> QED BY ONLY <1>4, <1>5, <1>8, <2>1
  <1>10. todo = <<>> BY <1>4, <1>9
  <1>11. SlotDistance(fl.cidx, sge.next) = offset
    <2>1. NoneFrom(todo, 1, Len(todo)) BY <1>9 DEF NoneFrom
    <2> QED BY <1>4, <2>1 DEF PacketsHold
  <1>12. sge.free = fl.avail - offset - fl.pend - 0
    BY <1>4, <1>11 DEF BuffersHold
  <1>13. ~(fl.avail - fl.pend <= 2 * Egress + 1) BY <1>3 DEF FlStarving, StarveThres
  <1>14. Egress \in Nat BY RxSizes
  <1>15. sge.free > 2 * Egress
    <2>1. PICK av \in Nat, pe \in Nat, e \in Nat, o \in 0 .. 1 :
            av = fl.avail /\ pe = fl.pend /\ e = Egress /\ o = offset
      BY <1>4, <1>5, <1>14
    <2>2. ~(av - pe <= 2 * e + 1) BY <1>13, <2>1
    <2>3. sge.free = av - o - pe - 0 BY <1>12, <2>1
    <2>4. sge.free > 2 * e BY ONLY <1>5, <2>2, <2>3, av \in Nat, pe \in Nat, e \in Nat, o \in 0 .. 1
    <2> QED BY <2>1, <2>4
  <1> QED BY <1>10, <1>15

(* Whatever packets arrive, however the interrupt, the timer and the poll  *)
(* interleave and whichever refills and handlers find no memory, on rings  *)
(* of any size sge.c admits: the driver and the adapter agree on which     *)
(* buffers are whose, and each response is processed in its turn, from the *)
(* buffers into which it was written (sge.c:3826-3973).                    *)
THEOREM RxBuffersAndOrder == RxSpec => [](BuffersAgree /\ ResponsesInOrder)
  <1>1. RxInit => RxInv BY RxInitInv
  <1>2. RxInv /\ [RxNext]_rxVars => RxInv' BY RxStepKeeps
  <1>3. RxInv => BuffersAgree /\ ResponsesInOrder BY BuffersDoAgree, ResponsesAreInOrder
  <1> QED BY <1>1, <1>2, <1>3, PTL DEF RxSpec

(***************************************************************************)
(* The composition                                                         *)
(***************************************************************************)
LEMMA ResourcesInitParts == ResourcesInit => QidInv /\ MemInv
  BY QidInvInit, MemInvInit DEF ResourcesInit

LEMMA ResourcesStepParts ==
  [ResourcesNext]_<<part, vars, rxVars, qidVars, memVars>>
    => [QidNext]_qidVars /\ [MemNext]_memVars
  BY DEF ResourcesNext

(* Queue ids (cxgb4_rdma_resource.c) and memory regions (mem.c): in the     *)
(* composition, whatever the sizes, what is handed out has one owner, and   *)
(* comes back unless an allocation failed or a firmware call was refused.   *)
THEOREM ResourcesHandedOutOnce == ResourcesSpec => []HandedOutOnce
  <1> DEFINE Inv == QidInv /\ MemInv
  <1>1. Inv /\ [ResourcesNext]_<<part, vars, rxVars, qidVars, memVars>> => Inv'
    BY ResourcesStepParts, QidInvStep, MemInvStep
  <1>2. Inv => HandedOutOnce
    BY QidInvImplies, MemInvImplies DEF HandedOutOnce
  <1>3. ResourcesSpec => []Inv
    BY ResourcesInitParts, <1>1, PTL DEF ResourcesSpec
  <1> QED BY <1>2, <1>3, PTL

LEMMA ResourcesRxParts ==
  /\ ResourcesInit => RxInit
  /\ [ResourcesNext]_<<part, vars, rxVars, qidVars, memVars>> => [RxNext]_rxVars
  BY DEF ResourcesInit, ResourcesNext

(* A receive queue whose free list is longer than the starvation threshold *)
(* by four descriptors less one buffer, fl_starve_thres + 31 in the code,  *)
(* alone and in the composition: besides what RxBuffersAndOrder says, a    *)
(* free list left starving is known to the timer (sge.c:5358), and when    *)
(* nothing is under way no response waits and the adapter has more buffers *)
(* than its congestion threshold (sge.c:5360).                             *)
THEOREM RxQueueAlwaysSound ==
  ASSUME RingLong
  PROVE  (RxSpec => []RxSound) /\ (ResourcesSpec => []RxSound)
  <1> DEFINE Inv == RxInv /\ RxMarked
  <1>1. RxInit => Inv BY RxInitInv
  <1>2. Inv /\ [RxNext]_rxVars => Inv'
    BY RxStepKeeps, MarkedStep
  <1>3. Inv => RxSound
    BY BuffersDoAgree, ResponsesAreInOrder, StuckNever DEF RxSound
  <1>4. RxSpec => []RxSound
    BY <1>1, <1>2, <1>3, PTL DEF RxSpec
  <1>5. ResourcesSpec => []RxSound
    BY <1>1, <1>2, <1>3, ResourcesRxParts, PTL DEF ResourcesSpec
  <1> QED BY <1>4, <1>5
=============================================================================
