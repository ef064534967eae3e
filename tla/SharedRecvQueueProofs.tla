----------------------- MODULE SharedRecvQueueProofs -----------------------
(***************************************************************************)
(* Proofs about SharedRecvQueue, for rings of any size and any number of   *)
(* connections: the ring and its counters agree, and no deferred WR is     *)
(* forgotten.                                                              *)
(***************************************************************************)
EXTENDS SharedRecvQueue, FiniteSetTheorems, TLAPS

(* What the loops rely on beside CountsAgree: who refers to a slot, where  *)
(* the loops are, and that a slot's two WRs are the same.                  *)
PlaceOK == \A s \in Slots : valid[s] <=> place[s] # "driver"
LoopOK  == DeferredWaitForHole /\ (pc = "post" => ooo_count = 0)
SameWr  == /\ \A s \in Slots : valid[s] => wr_id[s] = hw_wr[s]
           /\ polled.wr = polled.hw
           /\ \A i \in 1..Len(reported) : reported[i].wr = reported[i].hw

Inv == TypeOK /\ CountsAgree /\ PlaceOK /\ LoopOK
IInv == Inv /\ SameWr

-----------------------------------------------------------------------------
(* Steps around the ring stay in it. *)
LEMMA NextSlot == \A i \in Slots : Next1(i) \in Slots
  BY SrqAssumption DEF Slots, Next1

LEMMA DistType ==
    /\ \A a, b \in Slots : Dist(a, b) \in Slots
    /\ \A a, b \in Slots : Dist(a, b) = 0 <=> a = b
  BY SrqAssumption DEF Slots, Dist

(* Moving the end of a range of slots that is not full adds its old end. *)
LEMMA RingProduce ==
  ASSUME NEW c \in Slots, NEW p \in Slots, Dist(c, p) < Size - 1
  PROVE  /\ Dist(c, Next1(p)) = Dist(c, p) + 1
         /\ \A s \in Slots : Dist(c, s) < Dist(c, Next1(p))
                               <=> Dist(c, s) < Dist(c, p) \/ s = p
  BY SrqAssumption DEF Slots, Next1, Dist

(* Moving the start of a range that is not empty removes its old start. *)
LEMMA RingConsume ==
  ASSUME NEW c \in Slots, NEW p \in Slots, c # p
  PROVE  /\ Dist(Next1(c), p) = Dist(c, p) - 1
         /\ \A s \in Slots : Dist(Next1(c), s) < Dist(Next1(c), p)
                               <=> Dist(c, s) < Dist(c, p) /\ s # c
  BY SrqAssumption DEF Slots, Next1, Dist

(* The sets the counters count are finite. *)
LEMMA SlotSets ==
    /\ IsFiniteSet(Slots)
    /\ IsFiniteSet(Valid) /\ Cardinality(Valid) \in Nat
    /\ IsFiniteSet(Holes) /\ Cardinality(Holes) \in Nat
  <1>1. IsFiniteSet(Slots)
    BY FS_Interval, SrqAssumption DEF Slots
  <1>2. Valid \in SUBSET Slots /\ Holes \in SUBSET Slots
    BY DEF Valid, Holes
  <1>3. IsFiniteSet(Valid) /\ IsFiniteSet(Holes)
    BY <1>1, <1>2, FS_Subset
  <1> QED BY <1>1, <1>3, FS_CardinalityType

-----------------------------------------------------------------------------
(* Type correctness. *)

LEMMA TypeStep ==
  ASSUME TypeOK, [Next]_vars
  PROVE  TypeOK'
  <1>1. CASE PostSrqRecv
    <2>1. PendingTypeOK' /\ LimitTypeOK'
      BY <1>1 DEF PostSrqRecv, TypeOK, PendingTypeOK, LimitTypeOK, pendVars,
             limitVars
    <2>2. RingTypeOK'
      <3>1. valid' \in [Slots -> BOOLEAN]
        BY <1>1 DEF PostSrqRecv, TypeOK, PollerTypeOK, RingTypeOK, pendVars,
               limitVars
      <3>2. /\ wr_id' \in [Slots -> Nat]
            /\ cidx' \in Slots /\ pidx' \in Slots
            /\ in_use' \in Int /\ ooo_count' \in Int
        BY <1>1, NextSlot DEF PostSrqRecv, TypeOK, PollerTypeOK, RingTypeOK,
               pendVars, limitVars
      <3> QED BY <3>1, <3>2 DEF RingTypeOK
    <2>3. HwTypeOK'
      BY <1>1 DEF PostSrqRecv, TypeOK, HwTypeOK, PollerTypeOK, RingTypeOK,
             pendVars, limitVars
    <2>4. PollerTypeOK'
      BY <1>1 DEF PostSrqRecv, TypeOK, PollerTypeOK, pendVars, limitVars
    <2> QED BY <2>1, <2>2, <2>3, <2>4 DEF TypeOK
  <1>2. CASE DeferSrqWr
    <2>1. LimitTypeOK' /\ HwTypeOK'
      BY <1>2 DEF DeferSrqWr, TypeOK, LimitTypeOK, HwTypeOK, limitVars, hwVars
    <2>2. RingTypeOK'
      <3>1. valid' \in [Slots -> BOOLEAN]
        BY <1>2 DEF DeferSrqWr, TypeOK, PollerTypeOK, RingTypeOK, limitVars,
               hwVars
      <3>2. /\ wr_id' \in [Slots -> Nat]
            /\ cidx' \in Slots /\ pidx' \in Slots
            /\ in_use' \in Int /\ ooo_count' \in Int
        BY <1>2, NextSlot DEF DeferSrqWr, TypeOK, PollerTypeOK, RingTypeOK,
               limitVars, hwVars
      <3> QED BY <3>1, <3>2 DEF RingTypeOK
    <2>3. PendingTypeOK'
      BY <1>2, NextSlot DEF DeferSrqWr, TypeOK, PendingTypeOK, PollerTypeOK,
             limitVars, hwVars
    <2>4. PollerTypeOK'
      BY <1>2 DEF DeferSrqWr, TypeOK, PollerTypeOK, limitVars, hwVars
    <2> QED BY <2>1, <2>2, <2>3, <2>4 DEF TypeOK
  <1>3. ASSUME NEW s \in Slots, ReapInOrder(s) PROVE TypeOK'
    <2>1. PendingTypeOK' /\ LimitTypeOK'
      BY <1>3 DEF ReapInOrder, TypeOK, PendingTypeOK, LimitTypeOK, pendVars,
             limitVars
    <2>2. RingTypeOK'
      <3>1. valid' \in [Slots -> BOOLEAN]
        BY <1>3 DEF ReapInOrder, Invalidate, Cookie, TypeOK, PollerTypeOK,
               RingTypeOK, pendVars, limitVars
      <3>2. /\ wr_id' \in [Slots -> Nat]
            /\ cidx' \in Slots /\ pidx' \in Slots
            /\ in_use' \in Int /\ ooo_count' \in Int
        BY <1>3, NextSlot DEF ReapInOrder, Invalidate, Cookie, TypeOK,
               PollerTypeOK, RingTypeOK, pendVars, limitVars
      <3> QED BY <3>1, <3>2 DEF RingTypeOK
    <2>3. HwTypeOK'
      BY <1>3 DEF ReapInOrder, Invalidate, Cookie, TypeOK, HwTypeOK,
             PollerTypeOK, RingTypeOK, pendVars, limitVars
    <2>4. PollerTypeOK'
      BY <1>3 DEF ReapInOrder, Invalidate, Cookie, TypeOK, HwTypeOK,
             PollerTypeOK, RingTypeOK, pendVars, limitVars
    <2> QED BY <2>1, <2>2, <2>3, <2>4 DEF TypeOK
  <1>4. ASSUME NEW s \in Slots, ReapOutOfOrder(s) PROVE TypeOK'
    <2>1. PendingTypeOK'
      BY <1>4 DEF ReapOutOfOrder, TypeOK, PendingTypeOK, pendVars, Return
    <2>2. RingTypeOK'
      <3>1. valid' \in [Slots -> BOOLEAN]
        BY <1>4 DEF ReapOutOfOrder, Invalidate, Cookie, Return, BelowLimit,
               Nothing, TypeOK, PollerTypeOK, RingTypeOK, pendVars
      <3>2. /\ wr_id' \in [Slots -> Nat]
            /\ cidx' \in Slots /\ pidx' \in Slots
            /\ in_use' \in Int /\ ooo_count' \in Int
        BY <1>4, NextSlot DEF ReapOutOfOrder, Invalidate, Cookie, Return,
               BelowLimit, Nothing, TypeOK, PollerTypeOK, RingTypeOK, pendVars
      <3> QED BY <3>1, <3>2 DEF RingTypeOK
    <2>3. LimitTypeOK'
      BY <1>4 DEF ReapOutOfOrder, Invalidate, Cookie, Return, BelowLimit,
             Nothing, TypeOK, LimitTypeOK, pendVars
    <2>4. HwTypeOK'
      BY <1>4 DEF ReapOutOfOrder, Invalidate, Cookie, Return, BelowLimit,
             Nothing, TypeOK, HwTypeOK, PollerTypeOK, RingTypeOK, pendVars
    <2>5. PollerTypeOK'
      BY <1>4 DEF ReapOutOfOrder, Invalidate, Cookie, Return, BelowLimit,
             Nothing, TypeOK, HwTypeOK, PollerTypeOK, RingTypeOK, pendVars
    <2> QED BY <2>1, <2>2, <2>3, <2>4, <2>5 DEF TypeOK
  <1>5. ASSUME NEW s \in Slots, PollSkip(s) PROVE TypeOK'
    <2>1. RingTypeOK' /\ PendingTypeOK' /\ LimitTypeOK' /\ PollerTypeOK'
      BY <1>5 DEF PollSkip, TypeOK, RingTypeOK, PendingTypeOK, LimitTypeOK,
             PollerTypeOK, srqVars, pendVars, limitVars
    <2>2. HwTypeOK'
      BY <1>5 DEF PollSkip, TypeOK, HwTypeOK, PollerTypeOK, RingTypeOK,
             srqVars, pendVars, limitVars
    <2> QED BY <2>1, <2>2 DEF TypeOK
  <1>6. CASE EatOoo
    <2>1. PendingTypeOK' /\ LimitTypeOK' /\ HwTypeOK' /\ PollerTypeOK'
      BY <1>6 DEF EatOoo, TypeOK, PendingTypeOK, LimitTypeOK, HwTypeOK,
             PollerTypeOK, pendVars, limitVars, hwVars
    <2>2. RingTypeOK'
      <3>1. valid' \in [Slots -> BOOLEAN]
        BY <1>6 DEF EatOoo, TypeOK, PollerTypeOK, RingTypeOK, pendVars,
               limitVars, hwVars
      <3>2. /\ wr_id' \in [Slots -> Nat]
            /\ cidx' \in Slots /\ pidx' \in Slots
            /\ in_use' \in Int /\ ooo_count' \in Int
        BY <1>6, NextSlot DEF EatOoo, TypeOK, PollerTypeOK, RingTypeOK,
               pendVars, limitVars, hwVars
      <3> QED BY <3>1, <3>2 DEF RingTypeOK
    <2> QED BY <2>1, <2>2 DEF TypeOK
  <1>7. CASE EndEat
    <2>1. RingTypeOK' /\ PendingTypeOK' /\ HwTypeOK'
      BY <1>7 DEF EndEat, TypeOK, RingTypeOK, PendingTypeOK, HwTypeOK, srqVars,
             pendVars, limitVars, hwVars, Return
    <2>2. LimitTypeOK'
      BY <1>7 DEF EndEat, Return, BelowLimit, Nothing, TypeOK, LimitTypeOK,
             srqVars, pendVars, limitVars, hwVars
    <2>3. PollerTypeOK'
      <3>1. pc' \in {"free", "eat", "post"} /\ polled' \in [wr : Nat, hw : Nat]
        BY <1>7 DEF EndEat, Return, Nothing, TypeOK, PollerTypeOK
      <3>2. known' \subseteq Conns /\ next_wr' \in Nat
        BY <1>7 DEF EndEat, TypeOK, PollerTypeOK
      <3>3. reported' \in Seq([wr : Nat, hw : Nat])
        <4>1. CASE DeferredMayGo
          BY <4>1, <1>7 DEF EndEat, TypeOK, PollerTypeOK
        <4>2. CASE ~DeferredMayGo
          <5>1. reported' = Append(reported, polled)
            BY <4>2, <1>7 DEF EndEat, Return
          <5> QED BY <5>1 DEF TypeOK, PollerTypeOK
        <4> QED BY <4>1, <4>2
      <3> QED BY <3>1, <3>2, <3>3 DEF PollerTypeOK
    <2> QED BY <2>1, <2>2, <2>3 DEF TypeOK
  <1>8. CASE PostPendingWr
    <2>1. LimitTypeOK' /\ PollerTypeOK'
      BY <1>8 DEF PostPendingWr, TypeOK, LimitTypeOK, PollerTypeOK, limitVars
    <2>2. RingTypeOK'
      <3>1. valid' \in [Slots -> BOOLEAN]
        BY <1>8 DEF PostPendingWr, TypeOK, PendingTypeOK, PollerTypeOK,
               RingTypeOK, limitVars
      <3>2. /\ wr_id' \in [Slots -> Nat]
            /\ cidx' \in Slots /\ pidx' \in Slots
            /\ in_use' \in Int /\ ooo_count' \in Int
        BY <1>8, NextSlot DEF PostPendingWr, TypeOK, PendingTypeOK,
               PollerTypeOK, RingTypeOK, limitVars
      <3> QED BY <3>1, <3>2 DEF RingTypeOK
    <2>3. PendingTypeOK'
      BY <1>8, NextSlot DEF PostPendingWr, TypeOK, PendingTypeOK, PollerTypeOK,
             limitVars
    <2>4. HwTypeOK'
      BY <1>8, NextSlot DEF PostPendingWr, TypeOK, HwTypeOK, PendingTypeOK,
             PollerTypeOK, RingTypeOK, limitVars
    <2> QED BY <2>1, <2>2, <2>3, <2>4 DEF TypeOK
  <1>9. CASE EndPost
    <2>1. RingTypeOK' /\ PendingTypeOK'
      BY <1>9 DEF EndPost, TypeOK, RingTypeOK, PendingTypeOK, srqVars,
             pendVars, Return
    <2>2. LimitTypeOK'
      BY <1>9 DEF EndPost, Return, BelowLimit, Nothing, TypeOK, LimitTypeOK,
             srqVars, pendVars
    <2>3. HwTypeOK'
      BY <1>9 DEF EndPost, Return, BelowLimit, Nothing, TypeOK, HwTypeOK,
             PollerTypeOK, RingTypeOK, srqVars, pendVars
    <2>4. PollerTypeOK'
      BY <1>9 DEF EndPost, Return, BelowLimit, Nothing, TypeOK, PollerTypeOK,
             srqVars, pendVars
    <2> QED BY <2>1, <2>2, <2>3, <2>4 DEF TypeOK
  <1>10. CASE PollOther
    <2>1. RingTypeOK' /\ PendingTypeOK' /\ HwTypeOK' /\ PollerTypeOK'
      BY <1>10 DEF PollOther, TypeOK, RingTypeOK, PendingTypeOK, HwTypeOK,
             PollerTypeOK, srqVars, pendVars, hwVars
    <2>2. LimitTypeOK'
      BY <1>10 DEF PollOther, TypeOK, LimitTypeOK, srqVars, pendVars, hwVars
    <2> QED BY <2>1, <2>2 DEF TypeOK
  <1>11. ASSUME NEW n \in Limits, ArmSrq(n) PROVE TypeOK'
    <2>1. RingTypeOK' /\ PendingTypeOK' /\ HwTypeOK' /\ PollerTypeOK'
      BY <1>11 DEF ArmSrq, TypeOK, RingTypeOK, PendingTypeOK, HwTypeOK,
             PollerTypeOK, srqVars, pendVars, hwVars
    <2>2. LimitTypeOK'
      BY <1>11 DEF ArmSrq, TypeOK, LimitTypeOK, srqVars, pendVars, hwVars
    <2> QED BY <2>1, <2>2 DEF TypeOK
  <1>12. CASE SetSrqLimit
    <2>1. RingTypeOK' /\ PendingTypeOK' /\ HwTypeOK' /\ PollerTypeOK'
      BY <1>12 DEF SetSrqLimit, TypeOK, RingTypeOK, PendingTypeOK, HwTypeOK,
             PollerTypeOK, srqVars, pendVars, hwVars
    <2>2. PICK n \in Limits : arming = {n}
      BY <1>12 DEF SetSrqLimit, TypeOK, LimitTypeOK
    <2>3. srq_limit' = n
      <3>1. srq_limit' \in arming
        BY <1>12 DEF SetSrqLimit
      <3> QED BY <2>2, <3>1
    <2>4. arming' = {} /\ warned' \in BOOLEAN /\ armed' = armed
      BY <1>12 DEF SetSrqLimit
    <2>5. watching' \in BOOLEAN
      BY <1>12 DEF SetSrqLimit
    <2>6. LimitTypeOK'
      BY <2>3, <2>4, <2>5 DEF TypeOK, LimitTypeOK
    <2> QED BY <2>1, <2>6 DEF TypeOK
  <1>13. ASSUME NEW c \in Conns, HwFetch(c) PROVE TypeOK'
    <2>1. RingTypeOK' /\ PendingTypeOK' /\ LimitTypeOK' /\ PollerTypeOK'
      BY <1>13 DEF HwFetch, TypeOK, RingTypeOK, PendingTypeOK, LimitTypeOK,
             PollerTypeOK, srqVars, pendVars, limitVars
    <2>2. HwTypeOK'
      BY <1>13, NextSlot DEF HwFetch, TypeOK, HwTypeOK, PollerTypeOK,
             RingTypeOK, srqVars, pendVars, limitVars
    <2> QED BY <2>1, <2>2 DEF TypeOK
  <1>14. ASSUME NEW c \in Conns, DestroyQp(c) PROVE TypeOK'
    <2>1. RingTypeOK' /\ PendingTypeOK' /\ LimitTypeOK' /\ HwTypeOK'
      BY <1>14 DEF DestroyQp, TypeOK, RingTypeOK, PendingTypeOK, LimitTypeOK,
             HwTypeOK, srqVars, pendVars, limitVars, hwVars
    <2>2. PollerTypeOK'
      BY <1>14 DEF DestroyQp, TypeOK, PollerTypeOK, srqVars, pendVars,
             limitVars, hwVars
    <2> QED BY <2>1, <2>2 DEF TypeOK
  <1>15. ASSUME NEW s \in Slots, Complete(s) PROVE TypeOK'
    <2>1. RingTypeOK' /\ PendingTypeOK' /\ LimitTypeOK' /\ PollerTypeOK'
      BY <1>15 DEF Complete, TypeOK, RingTypeOK, PendingTypeOK, LimitTypeOK,
             PollerTypeOK, srqVars, pendVars, limitVars
    <2>2. HwTypeOK'
      BY <1>15 DEF Complete, TypeOK, HwTypeOK, PollerTypeOK, RingTypeOK,
             srqVars, pendVars, limitVars
    <2> QED BY <2>1, <2>2 DEF TypeOK
  <1>16. CASE UNCHANGED vars
    BY <1>16 DEF vars, TypeOK, RingTypeOK, PendingTypeOK, LimitTypeOK, HwTypeOK,
              PollerTypeOK, srqVars, pendVars, limitVars, hwVars
  <1> QED
    BY <1>1, <1>2, <1>3, <1>4, <1>5, <1>6, <1>7, <1>8, <1>9, <1>10, <1>11,
       <1>12, <1>13, <1>14, <1>15, <1>16
    DEF Next, Post, Poll, ModifySrq, Adapter

LEMMA InitTypeOK ==
  ASSUME Init
  PROVE  TypeOK
  <1>1. 0 \in Slots
    BY SrqAssumption DEF Slots
  <1>2. RingTypeOK /\ PendingTypeOK
    BY <1>1 DEF Init, RingTypeOK, PendingTypeOK
  <1>3. LimitTypeOK /\ HwTypeOK
    BY <1>1 DEF Init, LimitTypeOK, HwTypeOK
  <1>4. PollerTypeOK
    BY DEF Init, Nothing, PollerTypeOK
  <1> QED BY <1>2, <1>3, <1>4 DEF TypeOK

(* Every variable keeps its type. *)
THEOREM SrqTypeCorrect == Spec => []TypeOK
  <1>1. Init => TypeOK
    BY InitTypeOK
  <1> QED BY <1>1, TypeStep, PTL DEF Spec
-----------------------------------------------------------------------------
(* What each kind of step around the first ring does to the slots that     *)
(* in_use and ooo_count count.                                             *)

RingFacts == /\ TypeOK /\ CountsAgree
             /\ Cardinality(Valid) \in Nat /\ Cardinality(Holes) \in Nat

(* A receive enters at pidx. *)
LEMMA Produce ==
  ASSUME RingFacts, Dist(cidx, pidx) < Size - 1,
         valid' = [valid EXCEPT ![pidx] = TRUE],
         pidx' = Next1(pidx), cidx' = cidx
  PROVE  /\ Cardinality(Valid') = Cardinality(Valid) + 1
         /\ Cardinality(Holes') = Cardinality(Holes)
         /\ Dist(cidx, pidx)' = Dist(cidx, pidx) + 1
         /\ \A s \in Slots : valid'[s] => InRing(s)'
  <1>1. /\ cidx \in Slots /\ pidx \in Slots /\ valid \in [Slots -> BOOLEAN]
        /\ \A s \in Slots : valid[s] => InRing(s)
    BY DEF RingFacts, TypeOK, RingTypeOK, CountsAgree
  <1>2. /\ Dist(cidx, pidx)' = Dist(cidx, pidx) + 1
        /\ \A s \in Slots : InRing(s)' <=> InRing(s) \/ s = pidx
    BY <1>1, RingProduce DEF InRing
  <1>3. ~InRing(pidx)
    BY <1>1, DistType DEF InRing, Slots
  <1>4. Valid' = Valid \cup {pidx} /\ pidx \notin Valid
    BY <1>1, <1>3 DEF Valid
  <1>5. Holes' = Holes
    BY <1>1, <1>2, <1>3 DEF Holes
  <1>6. Cardinality(Valid') = Cardinality(Valid) + 1
    BY <1>4, SlotSets, FS_AddElement
  <1>7. \A s \in Slots : valid'[s] => InRing(s)'
    BY <1>1, <1>2
  <1> QED BY <1>2, <1>5, <1>6, <1>7

(* The oldest receive completes: cidx passes its slot. *)
LEMMA Consume ==
  ASSUME RingFacts, valid[cidx],
         valid' = [valid EXCEPT ![cidx] = FALSE],
         cidx' = Next1(cidx), pidx' = pidx
  PROVE  /\ Cardinality(Valid') = Cardinality(Valid) - 1
         /\ Cardinality(Holes') = Cardinality(Holes)
         /\ Dist(cidx, pidx)' = Dist(cidx, pidx) - 1
         /\ \A s \in Slots : valid'[s] => InRing(s)'
  <1>1. /\ cidx \in Slots /\ pidx \in Slots /\ valid \in [Slots -> BOOLEAN]
        /\ \A s \in Slots : valid[s] => InRing(s)
    BY DEF RingFacts, TypeOK, RingTypeOK, CountsAgree
  <1>2. cidx # pidx
    BY <1>1, DistType DEF InRing, Slots
  <1>3. /\ Dist(cidx, pidx)' = Dist(cidx, pidx) - 1
        /\ \A s \in Slots : InRing(s)' <=> InRing(s) /\ s # cidx
    BY <1>1, <1>2, RingConsume DEF InRing
  <1>4. Valid' = Valid \ {cidx} /\ cidx \in Valid
    BY <1>1 DEF Valid
  <1>5. Holes' = Holes
    BY <1>1, <1>3 DEF Holes
  <1>6. Cardinality(Valid') = Cardinality(Valid) - 1
    BY <1>4, SlotSets, FS_RemoveElement
  <1>7. \A s \in Slots : valid'[s] => InRing(s)'
    BY <1>1, <1>3
  <1> QED BY <1>3, <1>5, <1>6, <1>7

(* Another one completes: its slot becomes a hole. *)
LEMMA MakeHole ==
  ASSUME RingFacts, NEW s \in Slots, valid[s], s # cidx,
         valid' = [valid EXCEPT ![s] = FALSE],
         cidx' = cidx, pidx' = pidx
  PROVE  /\ Cardinality(Valid') = Cardinality(Valid) - 1
         /\ Cardinality(Holes') = Cardinality(Holes) + 1
         /\ Dist(cidx, pidx)' = Dist(cidx, pidx)
         /\ \A r \in Slots : valid'[r] => InRing(r)'
  <1>1. /\ valid \in [Slots -> BOOLEAN]
        /\ \A r \in Slots : valid[r] => InRing(r)
    BY DEF RingFacts, TypeOK, RingTypeOK, CountsAgree
  <1>2. /\ Dist(cidx, pidx)' = Dist(cidx, pidx)
        /\ \A r \in Slots : InRing(r)' <=> InRing(r)
    BY DEF InRing
  <1>3. Valid' = Valid \ {s} /\ s \in Valid
    BY <1>1 DEF Valid
  <1>4. Holes' = Holes \cup {s} /\ s \notin Holes
    BY <1>1, <1>2 DEF Holes
  <1>5. Cardinality(Valid') = Cardinality(Valid) - 1
    BY <1>3, SlotSets, FS_RemoveElement
  <1>6. Cardinality(Holes') = Cardinality(Holes) + 1
    BY <1>4, SlotSets, FS_AddElement
  <1>7. \A r \in Slots : valid'[r] => InRing(r)'
    BY <1>1, <1>2
  <1> QED BY <1>2, <1>5, <1>6, <1>7

(* cidx passes a hole. *)
LEMMA EatHole ==
  ASSUME RingFacts, ~valid[cidx], ooo_count > 0,
         valid' = valid, cidx' = Next1(cidx), pidx' = pidx
  PROVE  /\ Cardinality(Valid') = Cardinality(Valid)
         /\ Cardinality(Holes') = Cardinality(Holes) - 1
         /\ Dist(cidx, pidx)' = Dist(cidx, pidx) - 1
         /\ \A s \in Slots : valid'[s] => InRing(s)'
  <1>1. /\ cidx \in Slots /\ pidx \in Slots
        /\ \A s \in Slots : valid[s] => InRing(s)
    BY DEF RingFacts, TypeOK, RingTypeOK, CountsAgree
  <1>2. Dist(cidx, pidx) = Cardinality(Valid) + ooo_count
    BY DEF RingFacts, CountsAgree
  <1>3. cidx # pidx /\ InRing(cidx)
    <2>1. ooo_count \in Int /\ Cardinality(Valid) \in Nat
      BY DEF RingFacts, TypeOK, RingTypeOK
    <2>2. Dist(cidx, pidx) > 0
      BY <1>2, <2>1
    <2>3. Dist(cidx, cidx) = 0
      BY <1>1, DistType
    <2> QED BY <2>2, <2>3 DEF InRing
  <1>4. /\ Dist(cidx, pidx)' = Dist(cidx, pidx) - 1
        /\ \A s \in Slots : InRing(s)' <=> InRing(s) /\ s # cidx
    BY <1>1, <1>3, RingConsume DEF InRing
  <1>5. Valid' = Valid
    BY DEF Valid
  <1>6. Holes' = Holes \ {cidx} /\ cidx \in Holes
    BY <1>1, <1>3, <1>4 DEF Holes
  <1>7. Cardinality(Holes') = Cardinality(Holes) - 1
    BY <1>6, SlotSets, FS_RemoveElement
  <1>8. \A s \in Slots : valid'[s] => InRing(s)'
    BY <1>1, <1>4
  <1> QED BY <1>4, <1>5, <1>7, <1>8

-----------------------------------------------------------------------------
(* The inductive invariant. *)

LEMMA InvGivesRingFacts == Inv => RingFacts
  BY SlotSets DEF Inv, RingFacts

(* A step that leaves the rings alone. *)
LEMMA CountsUnchanged ==
  ASSUME CountsAgree, UNCHANGED <<srqVars, pendVars>>
  PROVE  CountsAgree'
  <1>1. Valid' = Valid /\ Holes' = Holes /\ Dist(cidx, pidx)' = Dist(cidx, pidx)
    BY DEF Valid, Holes, InRing, srqVars
  <1>2. \A s \in Slots : InRing(s)' <=> InRing(s)
    BY DEF InRing, srqVars
  <1> QED BY <1>1, <1>2 DEF CountsAgree, srqVars, pendVars

(* The parts of CountsAgree a step that changes them has to re-establish.  *)
LEMMA CountsFromParts ==
  ASSUME \A s \in Slots : valid'[s] => InRing(s)',
         in_use' - pending_in_use' = Cardinality(Valid'),
         ooo_count' = Cardinality(Holes'),
         Dist(cidx, pidx)' = in_use' - pending_in_use' + ooo_count',
         in_use' <= Size - 1, pending_in_use' >= 0,
         pending_in_use' = Dist(pending_cidx, pending_pidx)'
  PROVE  CountsAgree'
  BY DEF CountsAgree

(* The arithmetic facts about the counters that the steps use. *)
LEMMA CounterFacts ==
  ASSUME Inv
  PROVE  /\ in_use \in Int /\ ooo_count \in Nat /\ pending_in_use \in Nat
         /\ in_use - pending_in_use \in Nat /\ in_use <= Size - 1
         /\ in_use - pending_in_use = Cardinality(Valid)
         /\ ooo_count = Cardinality(Holes)
         /\ Dist(cidx, pidx) = in_use - pending_in_use + ooo_count
         /\ pending_in_use = Dist(pending_cidx, pending_pidx)
         /\ pending_cidx \in Slots /\ pending_pidx \in Slots
         /\ cidx \in Slots /\ pidx \in Slots /\ valid \in [Slots -> BOOLEAN]
         /\ \A s \in Slots : valid[s] => InRing(s)
         /\ Size \in Int
  <1>1. /\ in_use \in Int /\ ooo_count \in Int /\ pending_in_use \in Int
        /\ pending_cidx \in Slots /\ pending_pidx \in Slots
        /\ cidx \in Slots /\ pidx \in Slots /\ valid \in [Slots -> BOOLEAN]
    BY DEF Inv, TypeOK, RingTypeOK, PendingTypeOK
  <1>2. /\ in_use - pending_in_use = Cardinality(Valid)
        /\ ooo_count = Cardinality(Holes)
        /\ Dist(cidx, pidx) = in_use - pending_in_use + ooo_count
        /\ in_use <= Size - 1 /\ pending_in_use >= 0
        /\ pending_in_use = Dist(pending_cidx, pending_pidx)
        /\ \A s \in Slots : valid[s] => InRing(s)
    BY DEF Inv, CountsAgree
  <1>3. Cardinality(Valid) \in Nat /\ Cardinality(Holes) \in Nat
    BY SlotSets
  <1> QED BY <1>1, <1>2, <1>3, SrqAssumption

LEMMA CountsStep ==
  ASSUME Inv, [Next]_vars
  PROVE  CountsAgree'
  <1> USE CounterFacts, InvGivesRingFacts
  <1>1. CASE PostSrqRecv
    <2>1. pending_in_use = 0 /\ ooo_count = 0 /\ in_use < Size - 1
      BY <1>1 DEF PostSrqRecv, MustDefer, Avail
    <2>2. /\ Cardinality(Valid') = Cardinality(Valid) + 1
          /\ Cardinality(Holes') = Cardinality(Holes)
          /\ Dist(cidx, pidx)' = Dist(cidx, pidx) + 1
          /\ \A s \in Slots : valid'[s] => InRing(s)'
      BY <1>1, <2>1, Produce DEF PostSrqRecv
    <2>3. /\ in_use' = in_use + 1 /\ ooo_count' = ooo_count
          /\ UNCHANGED pendVars
      BY <1>1 DEF PostSrqRecv
    <2>4. /\ pending_in_use' = pending_in_use
          /\ Dist(pending_cidx, pending_pidx)' = Dist(pending_cidx, pending_pidx)
      BY <2>3 DEF pendVars
    <2> QED BY <2>1, <2>2, <2>3, <2>4, CountsFromParts
  <1>2. CASE DeferSrqWr
    <2>1. /\ in_use < Size - 1 /\ in_use' = in_use + 1
          /\ pending_in_use' = pending_in_use + 1
          /\ pending_pidx' = Next1(pending_pidx) /\ pending_cidx' = pending_cidx
          /\ UNCHANGED <<valid, cidx, pidx, ooo_count>>
      BY <1>2 DEF DeferSrqWr, Avail
    <2>2. Dist(pending_cidx, pending_pidx)' = Dist(pending_cidx, pending_pidx) + 1
      BY <2>1, RingProduce
    <2>3. Valid' = Valid /\ Holes' = Holes /\ Dist(cidx, pidx)' = Dist(cidx, pidx)
      BY <2>1 DEF Valid, Holes, InRing
    <2>4. \A s \in Slots : valid'[s] => InRing(s)'
      BY <2>1 DEF InRing
    <2> QED BY <2>1, <2>2, <2>3, <2>4, CountsFromParts
  <1>3. ASSUME NEW s \in Slots, ReapInOrder(s) PROVE CountsAgree'
    <2>1. valid[cidx]
      BY <1>3 DEF ReapInOrder, Invalidate, Inv, PlaceOK
    <2>2. /\ valid' = [valid EXCEPT ![cidx] = FALSE]
          /\ cidx' = Next1(cidx) /\ pidx' = pidx
          /\ in_use' = in_use - 1 /\ ooo_count' = ooo_count
          /\ UNCHANGED pendVars
      BY <1>3 DEF ReapInOrder, Invalidate
    <2>3. /\ Cardinality(Valid') = Cardinality(Valid) - 1
          /\ Cardinality(Holes') = Cardinality(Holes)
          /\ Dist(cidx, pidx)' = Dist(cidx, pidx) - 1
          /\ \A r \in Slots : valid'[r] => InRing(r)'
      BY <2>1, <2>2, Consume
    <2>4. /\ pending_in_use' = pending_in_use
          /\ Dist(pending_cidx, pending_pidx)' = Dist(pending_cidx, pending_pidx)
      BY <2>2 DEF pendVars
    <2> QED BY <2>2, <2>3, <2>4, CountsFromParts
  <1>4. ASSUME NEW s \in Slots, ReapOutOfOrder(s) PROVE CountsAgree'
    <2>1. valid[s] /\ s # cidx
      BY <1>4 DEF ReapOutOfOrder, Invalidate, Inv, PlaceOK
    <2>2. /\ valid' = [valid EXCEPT ![s] = FALSE]
          /\ cidx' = cidx /\ pidx' = pidx
          /\ in_use' = in_use - 1 /\ ooo_count' = ooo_count + 1
          /\ UNCHANGED pendVars
      BY <1>4 DEF ReapOutOfOrder, Invalidate
    <2>3. /\ Cardinality(Valid') = Cardinality(Valid) - 1
          /\ Cardinality(Holes') = Cardinality(Holes) + 1
          /\ Dist(cidx, pidx)' = Dist(cidx, pidx)
          /\ \A r \in Slots : valid'[r] => InRing(r)'
      BY <2>1, <2>2, MakeHole
    <2>4. /\ pending_in_use' = pending_in_use
          /\ Dist(pending_cidx, pending_pidx)' = Dist(pending_cidx, pending_pidx)
      BY <2>2 DEF pendVars
    <2> QED BY <2>2, <2>3, <2>4, CountsFromParts
  <1>5. CASE EatOoo
    <2>1. ooo_count > 0 /\ ~valid[cidx]
      BY <1>5 DEF EatOoo, Hole
    <2>2. /\ valid' = valid /\ cidx' = Next1(cidx) /\ pidx' = pidx
          /\ in_use' = in_use /\ ooo_count' = ooo_count - 1
          /\ UNCHANGED pendVars
      BY <1>5 DEF EatOoo
    <2>3. /\ Cardinality(Valid') = Cardinality(Valid)
          /\ Cardinality(Holes') = Cardinality(Holes) - 1
          /\ Dist(cidx, pidx)' = Dist(cidx, pidx) - 1
          /\ \A r \in Slots : valid'[r] => InRing(r)'
      BY <2>1, <2>2, EatHole
    <2>4. /\ pending_in_use' = pending_in_use
          /\ Dist(pending_cidx, pending_pidx)' = Dist(pending_cidx, pending_pidx)
      BY <2>2 DEF pendVars
    <2> QED BY <2>2, <2>3, <2>4, CountsFromParts
  <1>6. CASE PostPendingWr
    <2>1. pending_in_use > 0 /\ ooo_count = 0
      BY <1>6 DEF PostPendingWr, Inv, LoopOK
    <2>2. /\ valid' = [valid EXCEPT ![pidx] = TRUE]
          /\ cidx' = cidx /\ pidx' = Next1(pidx)
          /\ in_use' = in_use /\ ooo_count' = ooo_count
          /\ pending_in_use' = pending_in_use - 1
          /\ pending_cidx' = Next1(pending_cidx) /\ pending_pidx' = pending_pidx
      BY <1>6 DEF PostPendingWr
    <2>3. Dist(cidx, pidx) < Size - 1
      BY <2>1
    <2>4. /\ Cardinality(Valid') = Cardinality(Valid) + 1
          /\ Cardinality(Holes') = Cardinality(Holes)
          /\ Dist(cidx, pidx)' = Dist(cidx, pidx) + 1
          /\ \A s \in Slots : valid'[s] => InRing(s)'
      BY <2>2, <2>3, Produce
    <2>5. pending_cidx # pending_pidx
      BY <2>1, DistType
    <2>6. Dist(pending_cidx, pending_pidx)' = Dist(pending_cidx, pending_pidx) - 1
      BY <2>2, <2>5, RingConsume
    <2> QED BY <2>1, <2>2, <2>4, <2>6, CountsFromParts
  <1>7. CASE UNCHANGED <<srqVars, pendVars>>
    BY <1>7, CountsUnchanged DEF Inv
  <1>8. CASE UNCHANGED vars
    BY <1>8, CountsUnchanged DEF Inv, vars
  <1> QED
    BY <1>1, <1>2, <1>3, <1>4, <1>5, <1>6, <1>7, <1>8
    DEF Next, Post, Poll, ModifySrq, Adapter, PollSkip, EndEat, EndPost, PollOther,
        ArmSrq, SetSrqLimit, HwFetch, Complete, DestroyQp

LEMMA PlaceStep ==
  ASSUME Inv, [Next]_vars
  PROVE  PlaceOK'
  <1>1. /\ valid \in [Slots -> BOOLEAN] /\ pidx \in Slots /\ fetch \in Slots
        /\ place \in [Slots -> {"driver", "written", "rung", "held", "cqe", "lost"}]
        /\ \A s \in Slots : valid[s] <=> place[s] # "driver"
    BY DEF Inv, TypeOK, RingTypeOK, HwTypeOK, PlaceOK
  <1>2. CASE PostSrqRecv
    BY <1>1, <1>2 DEF PostSrqRecv, PlaceOK
  <1>3. CASE PostPendingWr
    BY <1>1, <1>3 DEF PostPendingWr, PlaceOK
  <1>4. ASSUME NEW s \in Slots, ReapInOrder(s) \/ ReapOutOfOrder(s) PROVE PlaceOK'
    BY <1>1, <1>4 DEF ReapInOrder, ReapOutOfOrder, Invalidate, PlaceOK
  <1>5. ASSUME NEW s \in Slots, PollSkip(s) \/ Complete(s) PROVE PlaceOK'
    BY <1>1, <1>5 DEF PollSkip, Complete, srqVars, PlaceOK
  <1>6. ASSUME NEW c \in Conns, HwFetch(c) PROVE PlaceOK'
    BY <1>1, <1>6 DEF HwFetch, srqVars, PlaceOK
  <1>7. CASE EndPost
    BY <1>1, <1>7 DEF EndPost, srqVars, PlaceOK
  <1>8. CASE UNCHANGED <<valid, place>>
    BY <1>8 DEF Inv, PlaceOK
  <1>9. DeferSrqWr \/ EatOoo \/ EndEat \/ PollOther \/ SetSrqLimit
           \/ (\E n \in Limits : ArmSrq(n)) \/ (\E c \in Conns : DestroyQp(c))
           \/ UNCHANGED vars => UNCHANGED <<valid, place>>
    BY DEF DeferSrqWr, EatOoo, EndEat, PollOther, ArmSrq, SetSrqLimit, DestroyQp,
           vars, srqVars, hwVars
  <1> QED
    BY <1>2, <1>3, <1>4, <1>5, <1>6, <1>7, <1>8, <1>9
    DEF Next, Post, Poll, ModifySrq, Adapter

LEMMA LoopStep ==
  ASSUME Inv, [Next]_vars
  PROVE  LoopOK'
  <1> USE CounterFacts
  <1>1. LoopOK
    BY DEF Inv
  <1>2. CASE PostSrqRecv
    <2>1. pending_in_use' = 0 /\ ooo_count' = 0
      BY <1>2 DEF PostSrqRecv, MustDefer, pendVars
    <2> QED BY <2>1 DEF LoopOK, DeferredWaitForHole
  <1>3. CASE DeferSrqWr
    <2>1. ~InRing(pidx)
      BY DistType DEF InRing, Slots
    <2>2. ~valid[pidx]
      BY <2>1
    <2>3. ooo_count > 0
      BY <1>1, <1>3, <2>2 DEF DeferSrqWr, MustDefer, LoopOK, DeferredWaitForHole
    <2> QED BY <1>1, <1>3, <2>3 DEF DeferSrqWr, LoopOK, DeferredWaitForHole
  <1>4. ASSUME NEW s \in Slots, ReapInOrder(s) PROVE LoopOK'
    BY <1>4 DEF ReapInOrder, LoopOK, DeferredWaitForHole
  <1>5. ASSUME NEW s \in Slots, ReapOutOfOrder(s) PROVE LoopOK'
    <2>1. valid[s] /\ s # cidx /\ pc = "free"
      BY <1>5 DEF ReapOutOfOrder, Invalidate, Inv, PlaceOK
    <2>2. InRing(cidx)
      <3>1. Dist(cidx, s) < Dist(cidx, pidx)
        BY <2>1 DEF InRing
      <3>2. Dist(cidx, s) >= 0 /\ Dist(cidx, pidx) \in Int /\ Dist(cidx, s) \in Int
        BY DistType DEF Slots
      <3>3. Dist(cidx, cidx) = 0
        BY DistType
      <3> QED BY <3>1, <3>2, <3>3 DEF InRing
    <2>4. valid[cidx]
      <3>1. CASE ooo_count = 0
        <4>1. Holes = {}
          BY <3>1, SlotSets, FS_EmptySet
        <4> QED BY <2>2, <4>1 DEF Holes
      <3>2. CASE ooo_count > 0
        BY <1>1, <2>1, <3>2 DEF LoopOK, DeferredWaitForHole
      <3> QED BY <3>1, <3>2
    <2>5. /\ valid'[cidx'] = valid[cidx] /\ ooo_count' = ooo_count + 1
          /\ pc' = "free"
      BY <1>5, <2>1 DEF ReapOutOfOrder, Invalidate, Return
    <2> QED BY <2>4, <2>5 DEF LoopOK, DeferredWaitForHole
  <1>6. CASE EatOoo
    BY <1>6 DEF EatOoo, LoopOK, DeferredWaitForHole
  <1>7. CASE EndEat
    <2>1. UNCHANGED <<valid, cidx, ooo_count, pending_in_use>>
      BY <1>7 DEF EndEat, srqVars, pendVars
    <2>2. CASE DeferredMayGo
      <3>1. pc' = "post" /\ ooo_count' = 0
        BY <1>7, <2>1, <2>2 DEF EndEat, DeferredMayGo
      <3> QED BY <3>1 DEF LoopOK, DeferredWaitForHole
    <2>3. CASE ~DeferredMayGo
      <3>1. pc' = "free"
        BY <1>7, <2>3 DEF EndEat, Return
      <3>2. pending_in_use > 0 => ooo_count > 0
        BY <2>3 DEF DeferredMayGo
      <3>3. ooo_count > 0 => valid[cidx]
        BY <1>7 DEF EndEat, Hole
      <3> QED BY <2>1, <3>1, <3>2, <3>3 DEF LoopOK, DeferredWaitForHole
    <2> QED BY <2>2, <2>3
  <1>8. CASE PostPendingWr
    BY <1>1, <1>8 DEF PostPendingWr, LoopOK, DeferredWaitForHole
  <1>9. CASE EndPost
    <2>1. /\ pending_in_use' = 0 /\ ooo_count' = 0 /\ pc' = "free"
      BY <1>1, <1>9 DEF EndPost, Return, LoopOK, srqVars, pendVars
    <2> QED BY <2>1 DEF LoopOK, DeferredWaitForHole
  <1>10. CASE UNCHANGED <<srqVars, pendVars, pc>>
    BY <1>1, <1>10 DEF LoopOK, DeferredWaitForHole, srqVars, pendVars
  <1>11. CASE UNCHANGED vars
    BY <1>10, <1>11 DEF vars
  <1> QED
    BY <1>2, <1>3, <1>4, <1>5, <1>6, <1>7, <1>8, <1>9, <1>10, <1>11
    DEF Next, Post, Poll, ModifySrq, Adapter, PollSkip, PollOther, ArmSrq,
        SetSrqLimit, HwFetch, Complete, DestroyQp

LEMMA InvInductive ==
    /\ Init => Inv
    /\ Inv /\ [Next]_vars => Inv'
  <1>1. ASSUME Init PROVE Inv
    <2>1. TypeOK
      BY <1>1, InitTypeOK
    <2>2. Valid = {} /\ Holes = {}
      BY <1>1, DistType, SrqAssumption DEF Init, Valid, Holes, InRing, Slots, Dist
    <2>3. Cardinality({}) = 0
      BY FS_EmptySet
    <2>4. CountsAgree
      BY <1>1, <2>2, <2>3, SrqAssumption DEF Init, CountsAgree, Dist, Slots
    <2>5. PlaceOK /\ LoopOK
      BY <1>1 DEF Init, PlaceOK, LoopOK, DeferredWaitForHole
    <2> QED BY <2>1, <2>4, <2>5 DEF Inv
  <1>2. ASSUME Inv, [Next]_vars PROVE Inv'
    BY <1>2, TypeStep, CountsStep, PlaceStep, LoopStep DEF Inv
  <1> QED BY <1>1, <1>2

(* The counters agree with the ring in every state: in_use counts the      *)
(* slots the adapter may use and the deferred WRs, ooo_count the holes.    *)
THEOREM SrqCountsAgree == Spec => []CountsAgree
  <1>1. Inv => CountsAgree
    BY DEF Inv
  <1> QED BY <1>1, InvInductive, PTL DEF Spec

(* A deferred WR waits for a hole, and a hole for a receive that is still  *)
(* with the adapter: post_pending_srq_wrs misses nobody.                   *)
THEOREM SrqDeferredWaitForHole == Spec => []DeferredWaitForHole
  <1>1. Inv => DeferredWaitForHole
    BY DEF Inv, LoopOK
  <1> QED BY <1>1, InvInductive, PTL DEF Spec

-----------------------------------------------------------------------------
(* What is reported is what the adapter completed. *)

LEMMA Appended ==
  ASSUME NEW S, NEW seq \in Seq(S), NEW e \in S
  PROVE  /\ Len(Append(seq, e)) = Len(seq) + 1 /\ Len(seq) \in Nat
         /\ \A i \in 1..Len(seq) : Append(seq, e)[i] = seq[i]
         /\ Append(seq, e)[Len(seq) + 1] = e
  OBVIOUS

LEMMA SameWrStep ==
  ASSUME IInv, [Next]_vars
  PROVE  SameWr'
  <1> USE CounterFacts DEF IInv
  <1>1. /\ valid \in [Slots -> BOOLEAN] /\ pidx \in Slots
        /\ wr_id \in [Slots -> Nat] /\ hw_wr \in [Slots -> Nat]
        /\ reported \in Seq([wr : Nat, hw : Nat])
        /\ \A s \in Slots : valid[s] <=> place[s] # "driver"
    BY DEF Inv, TypeOK, RingTypeOK, HwTypeOK, PollerTypeOK, PlaceOK
  <1>2. /\ \A s \in Slots : valid[s] => wr_id[s] = hw_wr[s]
        /\ polled.wr = polled.hw
        /\ \A i \in 1..Len(reported) : reported[i].wr = reported[i].hw
    BY DEF SameWr
  <1>3. ASSUME NEW r \in [wr : Nat, hw : Nat], r.wr = r.hw,
               reported' = Append(reported, r)
        PROVE  \A i \in 1..Len(reported') : reported'[i].wr = reported'[i].hw
    <2>1. /\ Len(reported') = Len(reported) + 1 /\ Len(reported) \in Nat
          /\ \A i \in 1..Len(reported) : reported'[i] = reported[i]
          /\ reported'[Len(reported) + 1] = r
      <3>1. reported \in Seq([wr : Nat, hw : Nat])
        BY <1>1
      <3>2. reported' = Append(reported, r)
        BY <1>3
      <3> HIDE CounterFacts DEF IInv
      <3> QED BY Appended, <3>1, <3>2, Zenon
    <2>2. ASSUME NEW i \in 1..Len(reported')
          PROVE  reported'[i].wr = reported'[i].hw
      <3>1. CASE i \in 1..Len(reported)
        BY <1>2, <2>1, <3>1
      <3>2. CASE i = Len(reported) + 1
        BY <1>3, <2>1, <3>2
      <3> QED BY <2>1, <3>1, <3>2
    <2> QED BY <2>2
  <1>4. CASE PostSrqRecv
    BY <1>1, <1>2, <1>4 DEF PostSrqRecv, SameWr
  <1>5. CASE PostPendingWr
    BY <1>1, <1>2, <1>5 DEF PostPendingWr, SameWr
  <1>6. ASSUME NEW s \in Slots, ReapInOrder(s) PROVE SameWr'
    <2>1. valid[s]
      BY <1>1, <1>6 DEF ReapInOrder, Invalidate
    <2> QED BY <1>1, <1>2, <1>6, <2>1 DEF ReapInOrder, Invalidate, Cookie, SameWr
  <1>7. ASSUME NEW s \in Slots, ReapOutOfOrder(s) PROVE SameWr'
    <2>1. valid[s]
      BY <1>1, <1>7 DEF ReapOutOfOrder, Invalidate
    <2>2. /\ Cookie(s) \in [wr : Nat, hw : Nat] /\ Cookie(s).wr = Cookie(s).hw
          /\ reported' = Append(reported, Cookie(s))
      BY <1>1, <1>2, <1>7, <2>1 DEF ReapOutOfOrder, Return, Cookie
    <2>3. polled'.wr = polled'.hw
      BY <1>7 DEF ReapOutOfOrder, Return, Nothing
    <2>4. \A r \in Slots : valid'[r] => wr_id'[r] = hw_wr'[r]
      BY <1>1, <1>2, <1>7 DEF ReapOutOfOrder, Invalidate
    <2> QED BY <1>3, <2>2, <2>3, <2>4 DEF SameWr
  <1>8. CASE EndEat \/ EndPost
    <2>1. UNCHANGED <<valid, wr_id, hw_wr>>
      BY <1>8 DEF EndEat, EndPost, srqVars, hwVars
    <2>2. CASE UNCHANGED <<polled, reported>>
      BY <1>2, <2>1, <2>2 DEF SameWr
    <2>3. CASE Return(polled, in_use)
      <3>1. polled'.wr = polled'.hw
        BY <2>3 DEF Return, Nothing
      <3>2. polled \in [wr : Nat, hw : Nat] /\ reported' = Append(reported, polled)
        BY <2>3 DEF Return, Inv, TypeOK, PollerTypeOK
      <3> QED BY <1>2, <1>3, <2>1, <3>1, <3>2 DEF SameWr
    <2> QED BY <1>8, <2>2, <2>3 DEF EndEat, EndPost
  <1>9. CASE UNCHANGED <<valid, wr_id, hw_wr, polled, reported>>
    BY <1>2, <1>9 DEF SameWr
  <1>10. DeferSrqWr \/ EatOoo \/ PollOther \/ SetSrqLimit \/ UNCHANGED vars
           \/ (\E s \in Slots : PollSkip(s) \/ Complete(s))
           \/ (\E n \in Limits : ArmSrq(n))
           \/ (\E c \in Conns : HwFetch(c) \/ DestroyQp(c))
         => UNCHANGED <<valid, wr_id, hw_wr, polled, reported>>
    BY DEF DeferSrqWr, EatOoo, PollOther, SetSrqLimit, PollSkip, Complete, ArmSrq,
           HwFetch, DestroyQp, vars, srqVars, hwVars
  <1> QED
    BY <1>4, <1>5, <1>6, <1>7, <1>8, <1>9, <1>10
    DEF Next, Post, Poll, ModifySrq, Adapter

LEMMA IInvInductive ==
    /\ Init => IInv
    /\ IInv /\ [Next]_vars => IInv'
  <1>1. Init => SameWr
    BY DEF Init, Nothing, SameWr
  <1> QED BY <1>1, InvInductive, SameWrStep DEF IInv

(* A slot the adapter or a CQE refers to is never written. *)
LEMMA SlotKept ==
  ASSUME Inv, [Next]_vars, NEW s \in Slots, valid[s], valid'[s]
  PROVE  wr_id'[s] = wr_id[s]
  <1> USE CounterFacts
  <1>1. s # pidx /\ wr_id \in [Slots -> Nat]
    <2>1. ~InRing(pidx)
      BY DistType DEF InRing, Slots
    <2> QED BY <2>1 DEF Inv, TypeOK, RingTypeOK
  <1>2. CASE PostSrqRecv \/ PostPendingWr
    BY <1>1, <1>2 DEF PostSrqRecv, PostPendingWr
  <1>3. CASE wr_id' = wr_id
    BY <1>3
  <1> QED
    BY <1>2, <1>3
    DEF Next, Post, Poll, ModifySrq, Adapter, DeferSrqWr, ReapInOrder, ReapOutOfOrder,
        PollSkip, EatOoo, EndEat, EndPost, PollOther, SetSrqLimit, ArmSrq, HwFetch,
        Complete, DestroyQp, vars, srqVars

(* No slot is reused while its receive is with the adapter, and every      *)
(* report names the receive the adapter completed.                         *)
THEOREM SrqNoSlotReused == Spec => NoSlotReused
  <1>1. IInv /\ [Next]_vars =>
           [/\ \A s \in Slots : valid[s] /\ valid'[s] => wr_id'[s] = wr_id[s]
            /\ \A i \in 1..Len(reported') : reported'[i].wr = reported'[i].hw]_vars
    BY SlotKept, SameWrStep DEF IInv, SameWr
  <1> QED BY <1>1, IInvInductive, PTL DEF Spec, NoSlotReused

-----------------------------------------------------------------------------
(* The limit event. *)

LimitInv == LimitWarns /\ (watching \/ arming # {} => armed)

LEMMA LimitStep ==
  ASSUME TypeOK, LimitInv, [Next]_vars
  PROVE  LimitInv'
  <1> USE DEF LimitInv, LimitWarns
  <1>1. in_use \in Int /\ srq_limit \in Int
    BY SrqAssumption DEF TypeOK, RingTypeOK, LimitTypeOK
  <1>2. CASE PostSrqRecv
    BY <1>1, <1>2 DEF PostSrqRecv, limitVars
  <1>3. CASE DeferSrqWr
    BY <1>1, <1>3 DEF DeferSrqWr, limitVars
  <1>4. ASSUME NEW s \in Slots, ReapInOrder(s) PROVE LimitInv'
    BY <1>4 DEF ReapInOrder, limitVars
  <1>5. ASSUME NEW s \in Slots, ReapOutOfOrder(s) PROVE LimitInv'
    BY <1>5 DEF ReapOutOfOrder, Return, BelowLimit
  <1>6. CASE EatOoo
    BY <1>6 DEF EatOoo, limitVars
  <1>7. CASE EndEat
    BY <1>7 DEF EndEat, Return, BelowLimit, limitVars, srqVars
  <1>8. CASE PostPendingWr
    BY <1>8 DEF PostPendingWr, limitVars
  <1>9. CASE EndPost
    BY <1>9 DEF EndPost, Return, BelowLimit, srqVars
  <1>10. CASE PollOther
    BY <1>10 DEF PollOther
  <1>11. ASSUME NEW n \in Limits, ArmSrq(n) PROVE LimitInv'
    BY <1>11 DEF ArmSrq
  <1>12. CASE SetSrqLimit
    <2>1. in_use' = in_use /\ watching' = (in_use >= srq_limit') /\ armed' = armed
      BY <1>12 DEF SetSrqLimit, srqVars
    <2>2. srq_limit' \in Int
      <3>1. srq_limit' \in arming /\ arming \subseteq Nat
        BY <1>12, SrqAssumption DEF SetSrqLimit, TypeOK, LimitTypeOK
      <3> QED BY <3>1
    <2>3. armed /\ arming' = {}
      BY <1>12 DEF SetSrqLimit
    <2>4. ASSUME watching' PROVE ~(in_use' < srq_limit')
      <3>1. in_use >= srq_limit'
        BY <2>1, <2>4, Zenon
      <3> QED BY <1>1, <2>1, <2>2, <3>1
    <2> QED BY <2>1, <2>3, <2>4
  <1>13. CASE UNCHANGED <<limitVars, pc, in_use>>
    BY <1>13 DEF limitVars
  <1>14. UNCHANGED vars \/ (\E s \in Slots : PollSkip(s) \/ Complete(s))
           \/ (\E c \in Conns : HwFetch(c) \/ DestroyQp(c))
         => UNCHANGED <<limitVars, pc, in_use>>
    BY DEF PollSkip, Complete, HwFetch, DestroyQp, vars, srqVars
  <1> QED
    BY <1>2, <1>3, <1>4, <1>5, <1>6, <1>7, <1>8, <1>9, <1>10, <1>11, <1>12,
       <1>13, <1>14
    DEF Next, Post, Poll, ModifySrq, Adapter

(* The limit event is not missed, whatever modify_srq runs against. *)
THEOREM SrqLimitWarns == Spec => []LimitWarns
  <1>1. Init => TypeOK /\ LimitInv
    BY InitTypeOK DEF Init, LimitInv, LimitWarns
  <1>2. TypeOK /\ LimitInv /\ [Next]_vars => (TypeOK /\ LimitInv)'
    BY TypeStep, LimitStep
  <1>3. LimitInv => LimitWarns
    BY DEF LimitInv
  <1> QED BY <1>1, <1>2, <1>3, PTL DEF Spec
=============================================================================
