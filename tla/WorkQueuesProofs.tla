-------------------------- MODULE WorkQueuesProofs -------------------------
(***************************************************************************)
(* Proofs about WorkQueues, for any number of QPs, any ring sizes and      *)
(* anything a consumer may post.                                           *)
(*                                                                         *)
(* TypeOK is not inductive: that a consumed CQE is there, that a slot read *)
(* from a CQE is one of a ring, and that a poster writes at least one WR   *)
(* depend on what the loops under the CQ lock and the posters have checked *)
(* before.  TaskOK and PosterOK say it, and Inv is inductive.              *)
(***************************************************************************)
EXTENDS WorkQueues, FiniteSetTheorems, WellFoundedInduction, TLAPS

(* What the loops under the locks rely on: which QPs they work for, that   *)
(* the CQE they will consume is there, and that a poster that passed the   *)
(* checks of post still has room in a QP that is not flushed.              *)
TaskOK ==
    /\ pc # "free" => tq \in QPs /\ wk \in QPs
    /\ pc = "poll_walk" => IF from_sw THEN swcq # <<>> ELSE hwcq # <<>>
    /\ pc = "flush_walk" => ~from_sw /\ hwcq # <<>>
PosterOK ==
    \A q \in QPs : poster[q] = "locked" => ~flushed[q] /\ Avail(q, job[q]) > 0

Inv == TypeOK /\ TaskOK /\ PosterOK

-----------------------------------------------------------------------------
(* Rings *)

LEMMA SmallestElement ==
  ASSUME NEW S \in SUBSET Nat, S # {}
  PROVE  \E m \in S : \A n \in S : m <= n
  <1>1. PICK m \in S : \A n \in S : ~(<<n, m>> \in OpToRel(<, Nat))
    BY NatLessThanWellFounded, WFMin, Zenon
  <1>2. ASSUME NEW n \in S PROVE m <= n
    <2>1. n \in Nat /\ m \in Nat
      OBVIOUS
    <2>2. ASSUME n < m PROVE <<n, m>> \in OpToRel(<, Nat)
      <3>1. <<n, m>> \in Nat \X Nat
        BY <2>1
      <3>2. <<n, m>>[1] < <<n, m>>[2]
        BY <2>2
      <3> QED BY <3>1, <3>2, Zenon DEF OpToRel
    <2>3. ~(n < m)
      BY <1>1, <2>2, Zenon
    <2> QED BY <2>1, <2>3
  <1> QED BY <1>2

LEMMA AdvanceType ==
  ASSUME NEW i \in Int, NEW n \in Int, NEW size \in Nat \ {0}
  PROVE  Advance(i, n, size) \in 0..(size - 1)
  BY DEF Advance

LEMMA FunctionIsSeq ==
  ASSUME NEW S, NEW n \in Nat, NEW f \in [1..n -> S]
  PROVE  f \in Seq(S) /\ Len(f) = n
  OBVIOUS

LEMMA ConcatType ==
  ASSUME NEW S, NEW s \in Seq(S), NEW t \in Seq(S)
  PROVE  s \o t \in Seq(S) /\ Len(s \o t) = Len(s) + Len(t)
  OBVIOUS

LEMMA SlotTypes ==
    /\ \A i \in SqSlots : SqNext(i) \in SqSlots
    /\ \A i \in SqSlots, n \in Int : Advance(i, n, SQSize) \in SqSlots
    /\ \A i \in RqSlots, n \in Int : Advance(i, n, RQSize) \in RqSlots
    /\ \A a, b \in SqSlots : SqDist(a, b) \in SqSlots
    /\ \A a, b \in RqSlots : Dist(a, b, RQSize) \in RqSlots
    /\ 0 \in SqSlots /\ 0 \in RqSlots /\ None \notin SqSlots
    /\ SqSlots \subseteq Nat /\ RqSlots \subseteq Nat
  <1>1. /\ \A i \in SqSlots, n \in Int : Advance(i, n, SQSize) \in SqSlots
        /\ \A i \in RqSlots, n \in Int : Advance(i, n, RQSize) \in RqSlots
    BY AdvanceType, WorkQueuesAssumption DEF SqSlots, RqSlots
  <1>2. \A i \in SqSlots : SqNext(i) \in SqSlots
    BY <1>1 DEF SqNext
  <1>3. /\ \A a, b \in SqSlots : SqDist(a, b) \in SqSlots
        /\ \A a, b \in RqSlots : Dist(a, b, RQSize) \in RqSlots
    BY WorkQueuesAssumption DEF SqDist, Dist, SqSlots, RqSlots
  <1> QED BY <1>1, <1>2, <1>3, WorkQueuesAssumption DEF SqSlots, RqSlots, None

LEMMA NearestType ==
  ASSUME NEW i \in SqSlots \cup {None}, NEW S \in SUBSET SqSlots, S # {}
  PROVE  Nearest(i, S) \in S
  <1> DEFINE D == {SqDist(i, p) : p \in S}
  <1>1. D \in SUBSET Nat /\ D # {}
    <2>1. \A p \in SqSlots : SqDist(i, p) \in Nat
      BY WorkQueuesAssumption DEF SqDist, Dist, SqSlots, None
    <2> QED BY <2>1
  <1>2. PICK m \in D : \A n \in D : m <= n
    BY <1>1, SmallestElement
  <1>3. PICK p \in S : m = SqDist(i, p)
    BY <1>2
  <1>4. \A r \in S : SqDist(i, p) <= SqDist(i, r)
    BY <1>2, <1>3
  <1> QED BY <1>3, <1>4 DEF Nearest

-----------------------------------------------------------------------------
(* Completion entries *)

LEMMA CqeTypes ==
  ASSUME NEW q \in QPs
  PROVE  /\ \A w \in HwWr : WrCqe(w, q, "ok") \in CQE /\ WrCqe(w, q, "err") \in CQE
         /\ \A w \in HwWr : ReadRespCqe(w, q) \in CQE
         /\ \A m, wr \in Nat : SendCqe(q, m, wr) \in CQE
         /\ TerminateCqe(q) \in CQE /\ RtrCqe(q) \in CQE
         /\ \A i \in SqSlots : FlushSqCqe(q, i) \in CQE
         /\ FlushRqCqe(q) \in CQE
         /\ \A side \in {"SQ", "RQ"}, wr \in Nat : DrainCqe(q, side, wr) \in CQE
  BY SlotTypes
  DEF WrCqe, ReadRespCqe, SendCqe, TerminateCqe, RtrCqe, FlushSqCqe, FlushRqCqe,
      DrainCqe, Cqe, CQE, CqeOps, Statuses, HwWr

(* t4_swcq_produce keeps the software CQ below its size. *)
LEMMA SwCqProduceType ==
  ASSUME CqTypeOK, NEW new \in Seq(CQE), SwCqProduce(new)
  PROVE  /\ swcq' \in Seq(CQE) /\ Len(swcq') < CQSize
         /\ cq_error' \in BOOLEAN
         /\ swcq # <<>> => swcq' # <<>>
  <1> DEFINE n == SwCqRoom(Len(new))
  <1>1. n \in 0..Len(new) /\ n <= CQSize - 1 - Len(swcq)
    BY WorkQueuesAssumption DEF CqTypeOK, SwCqRoom, MinOf
  <1>2. SubSeq(new, 1, n) \in Seq(CQE) /\ Len(SubSeq(new, 1, n)) = n
    BY <1>1
  <1>3. swcq' = swcq \o SubSeq(new, 1, n)
    BY DEF SwCqProduce
  <1>4. cq_error' \in BOOLEAN
    BY DEF SwCqProduce
  <1> QED BY <1>1, <1>2, <1>3, <1>4, WorkQueuesAssumption DEF CqTypeOK

LEMMA ConsumeType ==
  ASSUME CqTypeOK, NEW sw \in BOOLEAN, Consume(sw),
         IF sw THEN swcq # <<>> ELSE hwcq # <<>>, cq_error' = cq_error
  PROVE  CqTypeOK'
  <1>1. CASE sw
    <2>1. hwcq' = hwcq /\ swcq' = Tail(swcq)
      BY <1>1 DEF Consume
    <2>2. swcq \in Seq(CQE) /\ swcq # <<>> /\ Len(swcq) < CQSize
      BY <1>1 DEF CqTypeOK
    <2>3. swcq' \in Seq(CQE) /\ Len(swcq') < CQSize
      BY <2>1, <2>2, WorkQueuesAssumption
    <2> QED BY <2>1, <2>3 DEF CqTypeOK
  <1>2. CASE ~sw
    <2>1. swcq' = swcq /\ hwcq' = Tail(hwcq)
      BY <1>2 DEF Consume
    <2>2. hwcq' \in Seq(CQE)
      BY <1>2, <2>1 DEF CqTypeOK
    <2> QED BY <2>1, <2>2 DEF CqTypeOK
  <1> QED BY <1>1, <1>2
LEMMA NextCqeType ==
  ASSUME CqTypeOK, HaveCqe
  PROVE  /\ NextCqe \in CQE
         /\ FromSw \in BOOLEAN
         /\ IF FromSw THEN swcq # <<>> ELSE hwcq # <<>>
  BY DEF CqTypeOK, HaveCqe, NextCqe, FromSw

LEMMA CqeFields ==
  ASSUME NEW c \in CQE
  PROVE  /\ c.q \in QPs /\ c.idx \in SqSlots /\ c.wr \in Nat /\ c.msn \in Nat
         /\ c.status \in Statuses /\ c.op \in CqeOps
         /\ [c EXCEPT !.status = "msn"] \in CQE
  BY DEF CQE, Statuses

LEMMA ReportType ==
  ASSUME GhostTypeOK, NEW q \in QPs, NEW side \in {"send", "recv"}, NEW wr \in Nat,
         NEW c \in CQE, Report(q, side, wr, c), next_wr' = next_wr
  PROVE  GhostTypeOK'
  <1> DEFINE R == [side : {"send", "recv"}, wr : Nat, status : Statuses, hw : Nat]
             r == [side |-> side, wr |-> wr, status |-> c.status, hw |-> c.wr]
  <1>1. r \in R
    BY CqeFields
  <1>2. done \in [QPs -> Seq(R)] /\ done' = [done EXCEPT ![q] = Append(@, r)]
    BY DEF GhostTypeOK, Report
  <1> HIDE DEF r, R
  <1>3. done' \in [QPs -> Seq(R)]
    BY <1>1, <1>2
  <1> QED BY <1>3 DEF GhostTypeOK, R

LEMMA OldestReadType ==
  ASSUME SqTypeOK, NEW q \in QPs, AdvanceOldestRead(q), oldest_read[q] # None
  PROVE  oldest_read' \in [QPs -> SqSlots \cup {None}]
  <1> DEFINE later == ReadsAfter(q, oldest_read[q])
  <1>1. oldest_read[q] \in SqSlots
    BY DEF SqTypeOK
  <1>2. later \in SUBSET SqSlots
    BY DEF ReadsAfter
  <1>3. later # {} => Nearest(SqNext(oldest_read[q]), later) \in SqSlots
    BY <1>1, <1>2, SlotTypes, NearestType
  <1> HIDE DEF later
  <1>4. oldest_read' = [oldest_read EXCEPT ![q] =
          IF later = {} THEN None ELSE Nearest(SqNext(oldest_read[q]), later)]
    BY Zenon DEF AdvanceOldestRead, later
  <1> QED BY <1>3, <1>4 DEF SqTypeOK

LEMMA TranslateType ==
  ASSUME SqTypeOK, NEW c \in CQE, c.op = "READ_RESP" => oldest_read[c.q] # None
  PROVE  Translate(c) \in CQE /\ Translate(c).q = c.q
  <1>1. CASE c.op = "READ_RESP"
    <2>1. oldest_read[c.q] \in SqSlots /\ c.q \in QPs /\ c.wr \in Nat
      BY <1>1, CqeFields DEF SqTypeOK
    <2> QED BY <1>1, <2>1 DEF Translate, ReadReqCqe, Cqe, CQE, CqeOps, Statuses
  <1>2. CASE c.op # "READ_RESP"
    BY <1>2 DEF Translate
  <1> QED BY <1>1, <1>2

LEMMA StoreType ==
  ASSUME SqTypeOK, NEW c \in CQE, Store(c)
  PROVE  sw_sq' \in [QPs -> [SqSlots -> SwSqe]]
  <1>1. c.q \in QPs /\ c.idx \in SqSlots
    BY CqeFields
  <1>2. sw_sq[c.q][c.idx] \in SwSqe
    BY <1>1 DEF SqTypeOK
  <1> DEFINE e == [sw_sq[c.q][c.idx] EXCEPT !.cqe = c, !.complete = TRUE]
  <1>3. e \in SwSqe
    BY <1>2 DEF SwSqe
  <1>4. sw_sq' = [sw_sq EXCEPT ![c.q][c.idx] = e]
    BY DEF Store
  <1> HIDE DEF e
  <1> QED BY <1>1, <1>3, <1>4 DEF SqTypeOK

LEMMA FlushCidxType ==
  ASSUME SqTypeOK, NEW q \in QPs
  PROVE  FlushCidx(q) \in SqSlots
  BY DEF SqTypeOK, FlushCidx

LEMMA CompletedWrType ==
  ASSUME SqTypeOK, NEW q \in QPs, CompletedWr(q) # None
  PROVE  CompletedWr(q) \in SqSlots /\ sw_sq[q][CompletedWr(q)].cqe \in CQE
  <1> DEFINE ahead == SignaledFrom(q, flush_cidx[q])
  <1>1. ahead \in SUBSET SqSlots /\ flush_cidx[q] \in SqSlots \cup {None}
    BY DEF SignaledFrom, SqTypeOK
  <1>2. ahead # {} /\ CompletedWr(q) = Nearest(flush_cidx[q], ahead)
    BY DEF CompletedWr
  <1>3. CompletedWr(q) \in SqSlots
    BY <1>1, <1>2, NearestType
  <1> QED BY <1>3 DEF SqTypeOK, SwSqe

-----------------------------------------------------------------------------
(* Posting a chain of sends *)

LEMMA ChainTypes ==
  ASSUME Inv, NEW q \in QPs, PostWriteSend(q)
  PROVE  TypeOK'
  <1> DEFINE n == MinOf(Len(job[q]), SqAvail(q))
             At(k) == Advance(sq_pidx[q], k - 1, SQSize)
             K(p) == SqDist(sq_pidx[q], p) + 1
             new == {k \in 1..n : job[q][k].op = "READ"}
             Ring == [p \in SqSlots |->
               IF K(p) <= n
               THEN [wr |-> next_wr[q] + K(p) - 1, op |-> job[q][K(p)].op,
                     signaled |-> job[q][K(p)].signaled, complete |-> FALSE,
                     cqe |-> sw_sq[q][p].cqe]
               ELSE sw_sq[q][p]]
             Rung == [k \in 1..n |->
               [idx |-> At(k), wr |-> next_wr[q] + k - 1,
                op |-> job[q][k].op, signaled |-> job[q][k].signaled]]
  <1>0. /\ ConnTypeOK /\ ErrorTypeOK /\ SqTypeOK /\ RqTypeOK /\ PostTypeOK
        /\ CqTypeOK /\ TaskTypeOK /\ HwTypeOK /\ GhostTypeOK
    BY DEF Inv, TypeOK
  <1>1. /\ sw_sq' = [sw_sq EXCEPT ![q] = Ring]
        /\ sge' = [sge EXCEPT ![q] = @ \o Rung]
        /\ oldest_read' = [oldest_read EXCEPT ![q] =
              IF @ = None /\ new # {}
              THEN At(CHOOSE k \in new : \A l \in new : k <= l) ELSE @]
    BY Zenon DEF PostWriteSend
  <1>2. /\ sq_in_use' = [sq_in_use EXCEPT ![q] = @ + n]
        /\ sq_pidx' = [sq_pidx EXCEPT ![q] = Advance(@, n, SQSize)]
        /\ next_wr' = [next_wr EXCEPT ![q] = @ + n]
    BY Zenon DEF PostWriteSend
  <1>3. /\ PostReturn(q)
        /\ UNCHANGED <<connVars, in_error, flushed, sq_cidx, flush_cidx, rqVars,
                       cqVars, taskVars, live, reads, hw_rq, hw_msn, done>>
    BY Zenon DEF PostWriteSend
  <1>4. job[q] \in Seq(WrKinds) /\ n \in Nat /\ n <= Len(job[q])
    <2>1. poster[q] = "locked" /\ job[q] # RecvJob
      BY DEF PostWriteSend
    <2>2. job[q] \in Seq(WrKinds)
      <3>1. job[q] \in Jobs \/ job[q] = <<>>
        BY <1>0 DEF PostTypeOK
      <3>2. CASE job[q] \in Jobs
        BY <2>1, <3>2, WorkQueuesAssumption
      <3>3. CASE job[q] = <<>>
        BY <3>3
      <3> QED BY <3>1, <3>2, <3>3
    <2>3. SqAvail(q) > 0 /\ SqAvail(q) \in Int
      BY <1>0, <2>1, WorkQueuesAssumption DEF Inv, PosterOK, Avail, SqAvail, SqTypeOK
    <2> QED BY <2>2, <2>3 DEF MinOf
  <1>5. \A k \in 1..n : job[q][k] \in WrKinds /\ At(k) \in SqSlots
    <2>1. ASSUME NEW k \in 1..n PROVE job[q][k] \in WrKinds /\ k - 1 \in Nat
      <3> HIDE DEF n
      <3> QED BY <1>4
    <2>2. sq_pidx[q] \in SqSlots
      BY <1>0 DEF SqTypeOK
    <2>3. ASSUME NEW k \in 1..n PROVE At(k) \in SqSlots
      <3>1. k - 1 \in Int
        BY <2>1, <2>3
      <3>2. \A i \in SqSlots, m \in Int : Advance(i, m, SQSize) \in SqSlots
        BY SlotTypes, Zenon
      <3> QED BY <2>2, <3>1, <3>2, Zenon
    <2> QED BY <2>1, <2>3
  <1>6. next_wr[q] \in Nat
    BY <1>0 DEF GhostTypeOK
  <1> HIDE DEF n, At
  <1>7. Ring \in [SqSlots -> SwSqe]
    <2>1. ASSUME NEW p \in SqSlots PROVE Ring[p] \in SwSqe
      <3>1. K(p) \in Nat \ {0} /\ sw_sq[q][p] \in SwSqe
        <4>1. sq_pidx[q] \in SqSlots /\ sw_sq[q][p] \in SwSqe
          BY <1>0 DEF SqTypeOK
        <4>2. SqDist(sq_pidx[q], p) \in Nat
          BY <4>1, SlotTypes
        <4> QED BY <4>1, <4>2
      <3>2. CASE K(p) <= n
        <4>1. job[q][K(p)] \in WrKinds
          BY <1>4, <1>5, <3>1, <3>2
        <4> QED BY <1>6, <3>1, <3>2, <4>1 DEF SwSqe, WrKinds
      <3> QED BY <3>1, <3>2
    <2> QED BY <2>1
  <1>8. Rung \in Seq(HwWr)
    <2>1. \A k \in 1..n : Rung[k] \in HwWr
      BY <1>4, <1>5, <1>6 DEF HwWr, WrKinds
    <2> QED BY <1>4, <2>1
  <1>9. new # {} => At(CHOOSE k \in new : \A l \in new : k <= l) \in SqSlots
    <2>1. new \in SUBSET Nat
      BY <1>4
    <2>2. new # {} => (CHOOSE k \in new : \A l \in new : k <= l) \in new
      BY <2>1, SmallestElement
    <2> QED BY <1>5, <2>2
  <1> HIDE DEF Ring, Rung, new
  <1>10. ConnTypeOK' /\ ErrorTypeOK' /\ RqTypeOK' /\ CqTypeOK' /\ TaskTypeOK'
    BY <1>0, <1>3 DEF ConnTypeOK, ErrorTypeOK, RqTypeOK, CqTypeOK, TaskTypeOK,
                      connVars, rqVars, cqVars, taskVars
  <1>11. SqTypeOK'
    <2>1. sq_in_use' \in [QPs -> Int] /\ sw_sq' \in [QPs -> [SqSlots -> SwSqe]]
      BY <1>0, <1>1, <1>2, <1>4, <1>7 DEF SqTypeOK
    <2>2. sq_pidx' \in [QPs -> SqSlots]
      <3>1. Advance(sq_pidx[q], n, SQSize) \in SqSlots
        <4>1. sq_pidx[q] \in Int /\ n \in Int /\ SQSize \in Nat \ {0}
          BY <1>0, <1>4, WorkQueuesAssumption DEF SqTypeOK, SqSlots
        <4> QED BY <4>1, AdvanceType DEF SqSlots
      <3> QED BY <1>0, <1>2, <3>1 DEF SqTypeOK
    <2>3. oldest_read' \in [QPs -> SqSlots \cup {None}]
      BY <1>0, <1>1, <1>9 DEF SqTypeOK
    <2> QED BY <1>0, <1>3, <2>1, <2>2, <2>3 DEF SqTypeOK
  <1>12. PostTypeOK'
    BY <1>0, <1>3 DEF PostReturn, PostTypeOK
  <1>13. HwTypeOK'
    <2>1. sge' \in [QPs -> Seq(HwWr)]
      BY <1>0, <1>1, <1>8 DEF HwTypeOK
    <2> QED BY <1>0, <1>3, <2>1 DEF HwTypeOK
  <1>14. GhostTypeOK'
    <2>1. next_wr' \in [QPs -> Nat]
      BY <1>0, <1>2, <1>4, <1>6 DEF GhostTypeOK
    <2> QED BY <1>0, <1>3, <2>1 DEF GhostTypeOK
  <1> QED BY <1>10, <1>11, <1>12, <1>13, <1>14 DEF TypeOK

-----------------------------------------------------------------------------
(* One lemma for each kind of thread. *)

(* Posting *)
LEMMA PostTypes ==
  ASSUME Inv, NEW p \in QPs, Post(p)
  PROVE  TypeOK'
  <1>0. /\ ConnTypeOK /\ ErrorTypeOK /\ SqTypeOK /\ RqTypeOK /\ PostTypeOK
        /\ CqTypeOK /\ TaskTypeOK /\ HwTypeOK /\ GhostTypeOK
    BY DEF Inv, TypeOK
  <1>1. ASSUME NEW q \in QPs, NEW j \in Jobs, PostCall(q, j) PROVE TypeOK'
    <2>1. ConnTypeOK' /\ ErrorTypeOK' /\ SqTypeOK' /\ RqTypeOK' /\ CqTypeOK' /\
          TaskTypeOK' /\ HwTypeOK' /\ GhostTypeOK'
      BY <1>0, <1>1 DEF PostCall, ConnTypeOK, ErrorTypeOK, SqTypeOK, RqTypeOK,
             CqTypeOK, TaskTypeOK, HwTypeOK, GhostTypeOK, connVars, wqVars,
             sqVars, rqVars, cqVars, taskVars, hwVars, ghostVars
    <2>2. PostTypeOK'
      BY <1>0, <1>1 DEF PostCall, PostTypeOK, connVars, wqVars, sqVars, rqVars,
             cqVars, taskVars, hwVars, ghostVars
    <2> QED BY <2>1, <2>2 DEF TypeOK
  <1>2. ASSUME NEW q \in QPs, PostRelock(q) PROVE TypeOK'
    <2>1. ConnTypeOK' /\ ErrorTypeOK' /\ SqTypeOK' /\ RqTypeOK' /\ CqTypeOK' /\
          TaskTypeOK' /\ HwTypeOK' /\ GhostTypeOK'
      BY <1>0, <1>2 DEF PostRelock, PostReturn, ConnTypeOK, ErrorTypeOK, SqTypeOK,
             RqTypeOK, CqTypeOK, TaskTypeOK, HwTypeOK, GhostTypeOK, connVars,
             wqVars, sqVars, rqVars, cqVars, taskVars, hwVars, ghostVars
    <2>2. PostTypeOK'
      BY <1>0, <1>2 DEF PostRelock, PostReturn, PostTypeOK, connVars, wqVars, sqVars,
             rqVars, cqVars, taskVars, hwVars, ghostVars
    <2> QED BY <2>1, <2>2 DEF TypeOK
  <1>3. ASSUME NEW q \in QPs, PostWriteSend(q) PROVE TypeOK'
    BY <1>3, ChainTypes
  <1>4. ASSUME NEW q \in QPs, PostWriteRecv(q) PROVE TypeOK'
    <2>1. ConnTypeOK' /\ ErrorTypeOK' /\ SqTypeOK' /\ CqTypeOK' /\ TaskTypeOK'
      BY <1>0, <1>4 DEF PostWriteRecv, PostReturn, ConnTypeOK, ErrorTypeOK,
             SqTypeOK, CqTypeOK, TaskTypeOK, connVars, sqVars, cqVars, taskVars
    <2>2. next_wr[q] \in Nat /\ rq_pidx[q] \in RqSlots
      BY <1>0 DEF GhostTypeOK, RqTypeOK
    <2>3. /\ rq_pidx' \in [QPs -> RqSlots] /\ rq_in_use' \in [QPs -> Int]
          /\ sw_rq' \in [QPs -> [RqSlots -> Nat]]
      <3>1. Advance(rq_pidx[q], 1, RQSize) \in RqSlots
        <4>1. rq_pidx[q] \in Int /\ 1 \in Int /\ RQSize \in Nat \ {0}
          BY <2>2, WorkQueuesAssumption DEF RqSlots
        <4> QED BY <4>1, AdvanceType DEF RqSlots
      <3> QED BY <1>0, <1>4, <2>2, <3>1, SMTT(20) DEF PostWriteRecv, RqTypeOK
    <2>4. RqTypeOK'
      BY <1>0, <1>4, <2>3 DEF PostWriteRecv, RqTypeOK
    <2>5. PostTypeOK'
      BY <1>0, <1>4 DEF PostWriteRecv, PostReturn, PostTypeOK
    <2>6. HwTypeOK'
      <3>1. hw_rq' \in [QPs -> Seq(Nat)]
        BY <1>0, <1>4, <2>2 DEF PostWriteRecv, HwTypeOK
      <3> QED BY <1>0, <1>4, <3>1 DEF PostWriteRecv, HwTypeOK
    <2>7. GhostTypeOK'
      <3>1. next_wr' \in [QPs -> Nat]
        BY <1>0, <1>4, <2>2 DEF PostWriteRecv, GhostTypeOK
      <3> QED BY <1>0, <1>4, <3>1 DEF PostWriteRecv, GhostTypeOK
    <2> QED BY <2>1, <2>4, <2>5, <2>6, <2>7 DEF TypeOK
  <1>5. ASSUME NEW q \in QPs, PostDrain(q) PROVE TypeOK'
    <2>1. ConnTypeOK' /\ ErrorTypeOK' /\ SqTypeOK' /\ RqTypeOK' /\ TaskTypeOK' /\
          HwTypeOK'
      BY <1>0, <1>5 DEF PostDrain, PostReturn, ConnTypeOK, ErrorTypeOK,
             SqTypeOK, RqTypeOK, TaskTypeOK, HwTypeOK, connVars, wqVars,
             sqVars, rqVars, taskVars, hwVars
    <2>2. PostTypeOK'
      BY <1>0, <1>5 DEF PostDrain, PostReturn, PostTypeOK, connVars, wqVars,
             sqVars, rqVars, taskVars, hwVars
    <2>3. next_wr[q] \in Nat /\ Len(job[q]) \in Nat
      BY <1>0, WorkQueuesAssumption DEF GhostTypeOK, PostTypeOK, RecvJob
    <2>4. CqTypeOK'
      <3> DEFINE Drains == [k \in 1..Len(job[q]) |->
            DrainCqe(q, IF job[q] = RecvJob THEN "RQ" ELSE "SQ", next_wr[q] + k - 1)]
      <3>0. Drains = [k \in 1..Len(job[q]) |-> Drains[k]]
        OBVIOUS
      <3>1. \A k \in 1..Len(job[q]) : Drains[k] \in CQE
        BY <2>3, CqeTypes
      <3> HIDE DEF Drains
      <3>2. Drains \in Seq(CQE)
        <4>1. Drains \in [1..Len(job[q]) -> CQE]
          BY <3>0, <3>1, Zenon
        <4> QED BY <2>3, <4>1, FunctionIsSeq
      <3>3. SwCqProduce(Drains) /\ UNCHANGED hwcq
        BY <1>5 DEF PostDrain, Drains
      <3> QED BY <1>0, <3>2, <3>3, SwCqProduceType DEF CqTypeOK
    <2>5. GhostTypeOK'
      <3>1. next_wr' \in [QPs -> Nat]
        BY <1>0, <1>5, <2>3 DEF PostDrain, GhostTypeOK
      <3> QED BY <1>0, <1>5, <3>1 DEF PostDrain, GhostTypeOK
    <2> QED BY <2>1, <2>2, <2>4, <2>5 DEF TypeOK
  <1> QED BY <1>1, <1>2, <1>3, <1>4, <1>5 DEF Post


(* The adapter *)
LEMMA AdapterTypes ==
  ASSUME Inv, NEW p \in QPs, Adapter(p)
  PROVE  TypeOK'
  <1>0. /\ ConnTypeOK /\ ErrorTypeOK /\ SqTypeOK /\ RqTypeOK /\ PostTypeOK
        /\ CqTypeOK /\ TaskTypeOK /\ HwTypeOK /\ GhostTypeOK
    BY DEF Inv, TypeOK
  <1>1. ASSUME NEW q \in QPs, HwExecute(q) PROVE TypeOK'
    <2>1. ConnTypeOK' /\ ErrorTypeOK' /\ SqTypeOK' /\ RqTypeOK' /\ PostTypeOK' /\
          TaskTypeOK' /\ GhostTypeOK'
      BY <1>0, <1>1 DEF HwExecute, HwWrite, ConnTypeOK, ErrorTypeOK, SqTypeOK,
             RqTypeOK, PostTypeOK, TaskTypeOK, GhostTypeOK, connVars, wqVars,
             sqVars, rqVars, postVars, cqVars, taskVars, ghostVars
    <2>2. sge[q] \in Seq(HwWr) /\ sge[q] # <<>> /\ Head(sge[q]) \in HwWr
      BY <1>0, <1>1 DEF HwExecute, HwTypeOK
    <2>3. CASE Head(sge[q]).op = "READ"
      <3>1. /\ reads' = [reads EXCEPT ![q] = Append(@, Head(sge[q]))]
            /\ sge' = [sge EXCEPT ![q] = Tail(@)]
            /\ UNCHANGED <<cqVars, live, hw_rq, hw_msn>>
        BY <1>1, <2>3 DEF HwExecute
      <3>2. HwTypeOK'
        BY <1>0, <2>2, <3>1 DEF HwTypeOK
      <3>3. CqTypeOK'
        BY <1>0, <3>1 DEF CqTypeOK, cqVars
      <3> QED BY <2>1, <3>2, <3>3 DEF TypeOK
    <2>4. CASE Head(sge[q]).op # "READ"
      <3>1. /\ HwWrite(IF Head(sge[q]).signaled THEN <<WrCqe(Head(sge[q]), q, "ok")>> ELSE <<>>)
            /\ sge' = [sge EXCEPT ![q] = Tail(@)]
            /\ UNCHANGED <<reads, live, hw_rq, hw_msn>>
        BY <1>1, <2>4 DEF HwExecute
      <3>2. HwTypeOK'
        BY <1>0, <2>2, <3>1 DEF HwTypeOK
      <3>3. CqTypeOK'
        BY <1>0, <2>2, <3>1, CqeTypes DEF CqTypeOK, HwWrite
      <3> QED BY <2>1, <3>2, <3>3 DEF TypeOK
    <2> QED BY <2>3, <2>4
  <1>2. ASSUME NEW q \in QPs, HwReadResponse(q) PROVE TypeOK'
    <2>1. ConnTypeOK' /\ ErrorTypeOK' /\ SqTypeOK' /\ RqTypeOK' /\ PostTypeOK' /\
          TaskTypeOK' /\ GhostTypeOK'
      BY <1>0, <1>2 DEF HwReadResponse, HwWrite, ConnTypeOK, ErrorTypeOK,
             SqTypeOK, RqTypeOK, PostTypeOK, TaskTypeOK, GhostTypeOK, connVars,
             wqVars, sqVars, rqVars, postVars, taskVars, ghostVars
    <2>2. CqTypeOK'
      <3>1. Head(reads[q]) \in HwWr
        BY <1>0, <1>2 DEF HwReadResponse, HwTypeOK
      <3> QED BY <1>0, <1>2, <3>1, CqeTypes DEF HwReadResponse, HwWrite, CqTypeOK
    <2>3. HwTypeOK'
      BY <1>0, <1>2 DEF HwReadResponse, HwWrite, HwTypeOK, connVars, wqVars,
             sqVars, rqVars, postVars, taskVars, ghostVars
    <2> QED BY <2>1, <2>2, <2>3 DEF TypeOK
  <1>3. ASSUME NEW q \in QPs, HwReceive(q) PROVE TypeOK'
    <2>1. ConnTypeOK' /\ ErrorTypeOK' /\ SqTypeOK' /\ RqTypeOK' /\ PostTypeOK' /\
          TaskTypeOK' /\ GhostTypeOK'
      BY <1>0, <1>3 DEF HwReceive, HwWrite, ConnTypeOK, ErrorTypeOK, SqTypeOK,
             RqTypeOK, PostTypeOK, TaskTypeOK, GhostTypeOK, connVars, wqVars,
             sqVars, rqVars, postVars, taskVars, ghostVars
    <2>2. CqTypeOK'
      <3>1. Head(hw_rq[q]) \in Nat /\ hw_msn[q] \in Nat /\ hw_msn[q] + 16 \in Nat
        BY <1>0, <1>3, SMTT(20) DEF HwReceive, HwTypeOK
      <3> QED BY <1>0, <1>3, <3>1, CqeTypes DEF HwReceive, HwWrite, CqTypeOK
    <2>3. HwTypeOK'
      BY <1>0, <1>3, SMTT(20) DEF HwReceive, HwWrite, HwTypeOK, connVars, wqVars, sqVars,
             rqVars, postVars, taskVars, ghostVars
    <2> QED BY <2>1, <2>2, <2>3 DEF TypeOK
  <1>4. ASSUME NEW q \in QPs, HwFail(q) PROVE TypeOK'
    <2>1. ConnTypeOK' /\ ErrorTypeOK' /\ SqTypeOK' /\ RqTypeOK' /\ PostTypeOK' /\
          TaskTypeOK' /\ GhostTypeOK'
      BY <1>0, <1>4 DEF HwFail, HwWrite, HwStops, ConnTypeOK, ErrorTypeOK,
             SqTypeOK, RqTypeOK, PostTypeOK, TaskTypeOK, GhostTypeOK, connVars,
             wqVars, sqVars, rqVars, postVars, taskVars, ghostVars
    <2>2. CqTypeOK'
      <3>1. Head(sge[q]) \in HwWr
        BY <1>0, <1>4 DEF HwFail, HwTypeOK
      <3> QED BY <1>0, <1>4, <3>1, CqeTypes DEF HwFail, HwWrite, CqTypeOK
    <2>3. HwTypeOK'
      BY <1>0, <1>4 DEF HwFail, HwWrite, HwStops, HwTypeOK, connVars, wqVars,
             sqVars, rqVars, postVars, taskVars, ghostVars
    <2> QED BY <2>1, <2>2, <2>3 DEF TypeOK
  <1>5. ASSUME NEW q \in QPs, HwDown(q) PROVE TypeOK'
    <2>1. ConnTypeOK' /\ ErrorTypeOK' /\ SqTypeOK' /\ RqTypeOK' /\ PostTypeOK' /\
          CqTypeOK' /\ TaskTypeOK' /\ GhostTypeOK'
      BY <1>0, <1>5 DEF HwDown, HwStops, ConnTypeOK, ErrorTypeOK, SqTypeOK,
             RqTypeOK, PostTypeOK, CqTypeOK, TaskTypeOK, GhostTypeOK, connVars,
             wqVars, sqVars, rqVars, postVars, cqVars, taskVars, ghostVars
    <2>2. HwTypeOK'
      BY <1>0, <1>5 DEF HwDown, HwStops, HwTypeOK, connVars, wqVars, sqVars,
             rqVars, postVars, cqVars, taskVars, ghostVars
    <2> QED BY <2>1, <2>2 DEF TypeOK
  <1> QED BY <1>1, <1>2, <1>3, <1>4, <1>5 DEF Adapter


(* Modify *)
LEMMA TransitionTypes ==
  ASSUME Inv, NEW p \in QPs, Transition(p)
  PROVE  TypeOK'
  <1>0. /\ ConnTypeOK /\ ErrorTypeOK /\ SqTypeOK /\ RqTypeOK /\ PostTypeOK
        /\ CqTypeOK /\ TaskTypeOK /\ HwTypeOK /\ GhostTypeOK
    BY DEF Inv, TypeOK
  <1>1. ASSUME NEW q \in QPs, ModifyToRts(q) PROVE TypeOK'
    <2>1. ErrorTypeOK' /\ SqTypeOK' /\ RqTypeOK' /\ PostTypeOK' /\ TaskTypeOK' /\
          GhostTypeOK'
      BY <1>0, <1>1 DEF ModifyToRts, Modify, ErrorTypeOK, SqTypeOK, RqTypeOK,
             PostTypeOK, TaskTypeOK, GhostTypeOK, wqVars, sqVars, rqVars,
             postVars, taskVars, ghostVars
    <2>2. ConnTypeOK'
      <3>1. conns' \in [QPs -> 0..MaxConn]
        BY <1>0, <1>1, WorkQueuesAssumption DEF ModifyToRts, ConnTypeOK
      <3> QED BY <1>0, <1>1, <3>1 DEF ModifyToRts, ConnTypeOK
    <2>3. CqTypeOK'
      BY <1>0, <1>1, CqeTypes DEF ModifyToRts, CqTypeOK
    <2>4. HwTypeOK'
      BY <1>0, <1>1 DEF ModifyToRts, Modify, HwTypeOK, wqVars, sqVars, rqVars,
             postVars, taskVars, ghostVars
    <2> QED BY <2>1, <2>2, <2>3, <2>4 DEF TypeOK
  <1>2. ASSUME NEW q \in QPs, ModifyInitFails(q) PROVE TypeOK'
    <2>1. ErrorTypeOK' /\ SqTypeOK' /\ RqTypeOK' /\ PostTypeOK' /\ CqTypeOK' /\
          TaskTypeOK' /\ HwTypeOK' /\ GhostTypeOK'
      BY <1>0, <1>2 DEF ModifyInitFails, Modify, ErrorTypeOK, SqTypeOK,
             RqTypeOK, PostTypeOK, CqTypeOK, TaskTypeOK, HwTypeOK, GhostTypeOK,
             wqVars, sqVars, rqVars, postVars, cqVars, taskVars, hwVars,
             ghostVars
    <2>2. ConnTypeOK'
      <3>1. conns' \in [QPs -> 0..MaxConn]
        BY <1>0, <1>2, WorkQueuesAssumption DEF ModifyInitFails, ConnTypeOK
      <3> QED BY <1>0, <1>2, <3>1 DEF ModifyInitFails, ConnTypeOK
    <2> QED BY <2>1, <2>2 DEF TypeOK
  <1>3. ASSUME NEW q \in QPs, NEW next \in {"CLOSING", "TERMINATE", "ERROR"}, SetError(q, next) PROVE TypeOK'
    <2>1. SqTypeOK' /\ RqTypeOK' /\ PostTypeOK' /\ CqTypeOK' /\ TaskTypeOK' /\
          HwTypeOK' /\ GhostTypeOK'
      BY <1>0, <1>3 DEF SetError, Modify, SqTypeOK, RqTypeOK, PostTypeOK,
             CqTypeOK, TaskTypeOK, HwTypeOK, GhostTypeOK, sqVars, rqVars,
             postVars, cqVars, taskVars, hwVars, ghostVars
    <2>2. ConnTypeOK'
      BY <1>0, <1>3 DEF SetError, Modify, ConnTypeOK, sqVars, rqVars, postVars,
             cqVars, taskVars, hwVars, ghostVars
    <2>3. ErrorTypeOK'
      BY <1>0, <1>3 DEF SetError, Modify, ErrorTypeOK, sqVars, rqVars,
             postVars, cqVars, taskVars, hwVars, ghostVars
    <2> QED BY <2>1, <2>2, <2>3 DEF TypeOK
  <1>4. ASSUME NEW q \in QPs, FiniReply(q) PROVE TypeOK'
    <2>1. ErrorTypeOK' /\ SqTypeOK' /\ RqTypeOK' /\ PostTypeOK' /\ CqTypeOK' /\
          TaskTypeOK' /\ GhostTypeOK'
      BY <1>0, <1>4 DEF FiniReply, HwStops, ErrorTypeOK, SqTypeOK, RqTypeOK,
             PostTypeOK, CqTypeOK, TaskTypeOK, GhostTypeOK, wqVars, sqVars,
             rqVars, postVars, cqVars, taskVars, ghostVars
    <2>2. ConnTypeOK'
      BY <1>0, <1>4 DEF FiniReply, HwStops, ConnTypeOK, wqVars, sqVars, rqVars,
             postVars, cqVars, taskVars, ghostVars
    <2>3. HwTypeOK'
      BY <1>0, <1>4 DEF FiniReply, HwStops, HwTypeOK, wqVars, sqVars, rqVars,
             postVars, cqVars, taskVars, ghostVars
    <2> QED BY <2>1, <2>2, <2>3 DEF TypeOK
  <1>5. ASSUME NEW q \in QPs, FiniFails(q) PROVE TypeOK'
    <2>1. ErrorTypeOK' /\ SqTypeOK' /\ RqTypeOK' /\ PostTypeOK' /\ CqTypeOK' /\
          TaskTypeOK' /\ HwTypeOK' /\ GhostTypeOK'
      BY <1>0, <1>5 DEF FiniFails, ErrorTypeOK, SqTypeOK, RqTypeOK, PostTypeOK,
             CqTypeOK, TaskTypeOK, HwTypeOK, GhostTypeOK, wqVars, sqVars,
             rqVars, postVars, cqVars, taskVars, hwVars, ghostVars
    <2>2. ConnTypeOK'
      BY <1>0, <1>5 DEF FiniFails, ConnTypeOK, wqVars, sqVars, rqVars,
             postVars, cqVars, taskVars, hwVars, ghostVars
    <2> QED BY <2>1, <2>2 DEF TypeOK
  <1>6. ASSUME NEW q \in QPs, ModifyToIdle(q) PROVE TypeOK'
    <2>1. ErrorTypeOK' /\ SqTypeOK' /\ RqTypeOK' /\ PostTypeOK' /\ CqTypeOK' /\
          TaskTypeOK' /\ HwTypeOK' /\ GhostTypeOK'
      BY <1>0, <1>6 DEF ModifyToIdle, ErrorTypeOK, SqTypeOK, RqTypeOK,
             PostTypeOK, CqTypeOK, TaskTypeOK, HwTypeOK, GhostTypeOK, wqVars,
             sqVars, rqVars, postVars, cqVars, taskVars, hwVars, ghostVars
    <2>2. ConnTypeOK'
      BY <1>0, <1>6 DEF ModifyToIdle, ConnTypeOK, wqVars, sqVars, rqVars,
             postVars, cqVars, taskVars, hwVars, ghostVars
    <2> QED BY <2>1, <2>2 DEF TypeOK
  <1>7. ASSUME NEW q \in QPs, ModifyToError(q) PROVE TypeOK'
    <2>1. ErrorTypeOK' /\ SqTypeOK' /\ RqTypeOK' /\ PostTypeOK' /\ CqTypeOK' /\
          TaskTypeOK' /\ HwTypeOK' /\ GhostTypeOK'
      BY <1>0, <1>7 DEF ModifyToError, ErrorTypeOK, SqTypeOK, RqTypeOK,
             PostTypeOK, CqTypeOK, TaskTypeOK, HwTypeOK, GhostTypeOK, wqVars,
             sqVars, rqVars, postVars, cqVars, taskVars, hwVars, ghostVars
    <2>2. ConnTypeOK'
      BY <1>0, <1>7 DEF ModifyToError, ConnTypeOK, wqVars, sqVars, rqVars,
             postVars, cqVars, taskVars, hwVars, ghostVars
    <2> QED BY <2>1, <2>2 DEF TypeOK
  <1>8. ASSUME NEW q \in QPs, ResetBegin(q) PROVE TypeOK'
    <2>1. ErrorTypeOK' /\ SqTypeOK' /\ RqTypeOK' /\ PostTypeOK' /\ CqTypeOK' /\
          HwTypeOK' /\ GhostTypeOK'
      BY <1>0, <1>8 DEF ResetBegin, ErrorTypeOK, SqTypeOK, RqTypeOK,
             PostTypeOK, CqTypeOK, HwTypeOK, GhostTypeOK, wqVars, sqVars,
             rqVars, postVars, cqVars, hwVars, ghostVars
    <2>2. ConnTypeOK'
      BY <1>0, <1>8 DEF ResetBegin, ConnTypeOK, wqVars, sqVars, rqVars,
             postVars, cqVars, hwVars, ghostVars
    <2>3. TaskTypeOK'
      BY <1>0, <1>8 DEF ResetBegin, TaskTypeOK, wqVars, sqVars, rqVars,
             postVars, cqVars, hwVars, ghostVars
    <2> QED BY <2>1, <2>2, <2>3 DEF TypeOK
  <1>9. ASSUME NEW q \in QPs, Destroy(q) PROVE TypeOK'
    <2>1. ErrorTypeOK' /\ SqTypeOK' /\ RqTypeOK' /\ PostTypeOK' /\ CqTypeOK' /\
          TaskTypeOK' /\ HwTypeOK' /\ GhostTypeOK'
      BY <1>0, <1>9 DEF Destroy, ErrorTypeOK, SqTypeOK, RqTypeOK, PostTypeOK,
             CqTypeOK, TaskTypeOK, HwTypeOK, GhostTypeOK, wqVars, sqVars,
             rqVars, postVars, cqVars, taskVars, hwVars, ghostVars
    <2>2. ConnTypeOK'
      BY <1>0, <1>9 DEF Destroy, ConnTypeOK, wqVars, sqVars, rqVars, postVars,
             cqVars, taskVars, hwVars, ghostVars
    <2> QED BY <2>1, <2>2 DEF TypeOK
  <1> QED BY <1>1, <1>2, <1>3, <1>4, <1>5, <1>6, <1>7, <1>8, <1>9 DEF Transition


(* Reset *)
LEMMA ResetTypes ==
  ASSUME Inv, Reset
  PROVE  TypeOK'
  <1>0. /\ ConnTypeOK /\ ErrorTypeOK /\ SqTypeOK /\ RqTypeOK /\ PostTypeOK
        /\ CqTypeOK /\ TaskTypeOK /\ HwTypeOK /\ GhostTypeOK
    BY DEF Inv, TypeOK
  <1>1. CASE CleanCqe
    <2>1. ConnTypeOK' /\ ErrorTypeOK' /\ SqTypeOK' /\ RqTypeOK' /\ PostTypeOK' /\
          TaskTypeOK' /\ HwTypeOK' /\ GhostTypeOK'
      BY <1>0, <1>1 DEF CleanCqe, ConnTypeOK, ErrorTypeOK, SqTypeOK, RqTypeOK,
             PostTypeOK, TaskTypeOK, HwTypeOK, GhostTypeOK, connVars, wqVars,
             sqVars, rqVars, postVars, taskVars, hwVars, ghostVars
    <2>2. CqTypeOK'
      <3>1. ASSUME NEW s \in Seq(CQE), NEW i \in 1..Len(s)
            PROVE  Without(s, i) \in Seq(CQE) /\ Len(Without(s, i)) < Len(s)
        <4>1. SubSeq(s, 1, i - 1) \in Seq(CQE) /\ Len(SubSeq(s, 1, i - 1)) = i - 1
          OBVIOUS
        <4>2. /\ SubSeq(s, i + 1, Len(s)) \in Seq(CQE)
              /\ Len(SubSeq(s, i + 1, Len(s))) = Len(s) - i
          OBVIOUS
        <4>3. Len(Without(s, i)) = (i - 1) + (Len(s) - i) /\ Without(s, i) \in Seq(CQE)
          BY <4>1, <4>2, Zenon, ConcatType DEF Without
        <4> QED BY <4>3
      <3>2. CASE \E i \in 1..Len(swcq) : swcq' = Without(swcq, i) /\ UNCHANGED hwcq
        <4>1. PICK i \in 1..Len(swcq) : swcq' = Without(swcq, i) /\ UNCHANGED hwcq
          BY <3>2
        <4>2. swcq \in Seq(CQE)
          BY <1>0 DEF CqTypeOK
        <4>3. swcq' \in Seq(CQE) /\ Len(swcq') < Len(swcq)
          BY <3>1, <4>1, <4>2, Zenon
        <4> QED BY <1>0, <1>1, <4>1, <4>3, WorkQueuesAssumption DEF CleanCqe, CqTypeOK
      <3>3. CASE \E i \in 1..Len(hwcq) : hwcq' = Without(hwcq, i) /\ UNCHANGED swcq
        <4>1. PICK i \in 1..Len(hwcq) : hwcq' = Without(hwcq, i) /\ UNCHANGED swcq
          BY <3>3
        <4>2. hwcq' \in Seq(CQE)
          BY <1>0, <3>1, <4>1 DEF CqTypeOK
        <4> QED BY <1>0, <1>1, <4>1, <4>2 DEF CleanCqe, CqTypeOK
      <3> QED BY <1>1, <3>2, <3>3 DEF CleanCqe
    <2> QED BY <2>1, <2>2 DEF TypeOK
  <1>2. CASE ResetEnd
    <2>1. PostTypeOK' /\ CqTypeOK' /\ HwTypeOK' /\ GhostTypeOK'
      BY <1>0, <1>2 DEF ResetEnd, Unlock, PostTypeOK, CqTypeOK, HwTypeOK,
             GhostTypeOK, postVars, cqVars, hwVars, ghostVars
    <2>2. ConnTypeOK'
      BY <1>0, <1>2 DEF ResetEnd, Unlock, ConnTypeOK, postVars, cqVars, hwVars,
             ghostVars
    <2>3. ErrorTypeOK'
      BY <1>0, <1>2 DEF ResetEnd, Unlock, ErrorTypeOK, postVars, cqVars,
             hwVars, ghostVars
    <2>4. SqTypeOK'
      <3>1. tq \in QPs /\ 0 \in Int
        BY <1>2 DEF Inv, TaskOK, ResetEnd
      <3> QED BY <1>0, <1>2, <3>1 DEF ResetEnd, SqTypeOK
    <2>5. RqTypeOK'
      <3>1. tq \in QPs /\ 0 \in Int /\ 1 \in Nat
        BY <1>2 DEF Inv, TaskOK, ResetEnd
      <3> QED BY <1>0, <1>2, <3>1 DEF ResetEnd, RqTypeOK
    <2>6. TaskTypeOK'
      BY <1>0, <1>2 DEF ResetEnd, Unlock, TaskTypeOK, Flushers, postVars, cqVars, hwVars,
             ghostVars
    <2> QED BY <2>1, <2>2, <2>3, <2>4, <2>5, <2>6 DEF TypeOK
  <1> QED BY <1>1, <1>2 DEF Reset

(* Polling *)
LEMMA PollTypes ==
  ASSUME Inv, Poll
  PROVE  TypeOK'
  <1>0. /\ ConnTypeOK /\ ErrorTypeOK /\ SqTypeOK /\ RqTypeOK /\ PostTypeOK
        /\ CqTypeOK /\ TaskTypeOK /\ HwTypeOK /\ GhostTypeOK
    BY DEF Inv, TypeOK
  <1> DEFINE c == NextCqe
  <1>a. c \in CQE /\ FromSw \in BOOLEAN /\ (IF FromSw THEN swcq # <<>> ELSE hwcq # <<>>)
    BY <1>0, NextCqeType DEF Poll
  <1>b. c.q \in QPs /\ c.wr \in Nat
    BY <1>a, CqeFields
  <1> HIDE DEF c
  <1>1. CASE PollSkip(c)
    <2>1. CqTypeOK'
      BY <1>0, <1>1, <1>a, ConsumeType DEF PollSkip
    <2> QED BY <1>0, <1>1, <2>1
        DEF PollSkip, TypeOK, ConnTypeOK, ErrorTypeOK, SqTypeOK, RqTypeOK, PostTypeOK,
            TaskTypeOK, HwTypeOK, GhostTypeOK, connVars, wqVars, sqVars, rqVars,
            postVars, taskVars, hwVars, ghostVars
  <1>2. CASE PollDrain(c)
    <2>1. CqTypeOK'
      BY <1>0, <1>2, <1>a, ConsumeType DEF PollDrain
    <2>2. GhostTypeOK'
      BY <1>0, <1>2, <1>a, <1>b, ReportType DEF PollDrain
    <2> QED BY <1>0, <1>2, <2>1, <2>2
        DEF PollDrain, TypeOK, ConnTypeOK, ErrorTypeOK, SqTypeOK, RqTypeOK, PostTypeOK,
            TaskTypeOK, HwTypeOK, connVars, wqVars, sqVars, rqVars, postVars, taskVars,
            hwVars
  <1>3. CASE PollUnsignaledRead(c)
    <2>1. CqTypeOK'
      BY <1>0, <1>3, <1>a, ConsumeType DEF PollUnsignaledRead
    <2>2. SqTypeOK'
      <3>1. oldest_read' \in [QPs -> SqSlots \cup {None}]
        BY <1>0, <1>3, <1>b, OldestReadType DEF PollUnsignaledRead, UnsignaledRead
      <3> QED BY <1>0, <1>3, <3>1 DEF PollUnsignaledRead, SqTypeOK
    <2> QED BY <1>0, <1>3, <2>1, <2>2
        DEF PollUnsignaledRead, TypeOK, ConnTypeOK, ErrorTypeOK, RqTypeOK, PostTypeOK,
            TaskTypeOK, HwTypeOK, GhostTypeOK, connVars, rqVars, postVars, taskVars,
            hwVars, ghostVars
  <1>4. CASE PollRecv(c)
    <2> DEFINE r == IF c.status = "ok" /\ c.msn # msn[c.q] THEN [c EXCEPT !.status = "msn"] ELSE c
    <2>1. r \in CQE
      BY <1>a, CqeFields
    <2> HIDE DEF r
    <2>2. CqTypeOK'
      BY <1>0, <1>4, <1>a, ConsumeType DEF PollRecv
    <2>3. rq_cidx[c.q] \in RqSlots /\ sw_rq[c.q][rq_cidx[c.q]] \in Nat
      BY <1>0, <1>b DEF RqTypeOK
    <2>4. GhostTypeOK'
      <3>1. Report(c.q, "recv", sw_rq[c.q][rq_cidx[c.q]], r) /\ next_wr' = next_wr
        BY <1>4, Zenon DEF PollRecv, r
      <3> QED BY <1>0, <1>b, <2>1, <2>3, <3>1, ReportType
    <2>5. rq_cidx' \in [QPs -> RqSlots]
      <3>1. rq_cidx[c.q] \in Int /\ 1 \in Int /\ RQSize \in Nat \ {0}
        BY <2>3, WorkQueuesAssumption DEF RqSlots
      <3>2. Advance(rq_cidx[c.q], 1, RQSize) \in RqSlots
        BY <3>1, AdvanceType DEF RqSlots
      <3>3. rq_cidx' = [rq_cidx EXCEPT ![c.q] = Advance(@, 1, RQSize)]
        BY <1>4 DEF PollRecv
      <3> QED BY <1>0, <3>2, <3>3 DEF RqTypeOK
    <2>6. rq_in_use' \in [QPs -> Int] /\ msn' \in [QPs -> Nat]
      <3>1. /\ rq_in_use' = [rq_in_use EXCEPT ![c.q] = @ - 1]
            /\ msn' = [msn EXCEPT ![c.q] = @ + 1]
        BY <1>4, Zenon DEF PollRecv
      <3> QED BY <1>0, <1>b, <3>1 DEF RqTypeOK
    <2>7. UNCHANGED <<rq_pidx, sw_rq>>
      BY <1>4 DEF PollRecv
    <2>8. RqTypeOK'
      BY <1>0, <2>5, <2>6, <2>7 DEF RqTypeOK
    <2>9. ErrorTypeOK'
      <3>1. in_error' = [in_error EXCEPT ![c.q] = @ \/ r.status # "ok"] /\ UNCHANGED flushed
        BY <1>4, Zenon DEF PollRecv, r
      <3>2. (in_error[c.q] \/ r.status # "ok") \in BOOLEAN
        BY <1>0, <1>b DEF ErrorTypeOK
      <3> QED BY <1>0, <3>1, <3>2 DEF ErrorTypeOK
    <2>10. UNCHANGED <<connVars, sqVars, postVars, taskVars, hwVars>>
      BY <1>4 DEF PollRecv
    <2> QED BY <1>0, <2>2, <2>4, <2>8, <2>9, <2>10
        DEF TypeOK, ConnTypeOK, SqTypeOK, PostTypeOK, TaskTypeOK, HwTypeOK,
            connVars, sqVars, postVars, taskVars, hwVars
  <1>5. ASSUME SendCompletion(c)
        PROVE  /\ ErrorTypeOK'  \/ flushed' # flushed
               /\ oldest_read' \in [QPs -> SqSlots \cup {None}]
               /\ Translate(c) \in CQE /\ Translate(c).q = c.q
    <2>1. c.op = "READ_RESP" => oldest_read[c.q] # None
      BY <1>5 DEF SendCompletion
    <2>2. Translate(c) \in CQE /\ Translate(c).q = c.q
      BY <1>0, <1>a, <2>1, TranslateType
    <2>3. oldest_read' \in [QPs -> SqSlots \cup {None}]
      <3>1. CASE c.op = "READ_RESP"
        BY <1>0, <1>5, <1>b, <2>1, <3>1, OldestReadType DEF SendCompletion
      <3>2. CASE c.op # "READ_RESP"
        BY <1>0, <1>5, <3>2 DEF SendCompletion, SqTypeOK
      <3> QED BY <3>1, <3>2
    <2>4. in_error' = [in_error EXCEPT ![c.q] = @ \/ Translate(c).status # "ok"]
      BY <1>5 DEF SendCompletion
    <2>5. (in_error[c.q] \/ Translate(c).status # "ok") \in BOOLEAN
      OBVIOUS
    <2>6. in_error' \in [QPs -> BOOLEAN]
      BY <1>0, <2>4, <2>5 DEF ErrorTypeOK
    <2> QED BY <1>0, <2>2, <2>3, <2>6 DEF ErrorTypeOK
  <1>6. CASE PollOutOfOrder(c)
    <2>1. SendCompletion(c)
      BY <1>6 DEF PollOutOfOrder
    <2>2. SqTypeOK'
      <3>1. sw_sq' \in [QPs -> [SqSlots -> SwSqe]]
        BY <1>0, <1>5, <1>6, <2>1, StoreType DEF PollOutOfOrder
      <3>2. flush_cidx' \in [QPs -> SqSlots \cup {None}]
        BY <1>0, <1>6, <1>b, FlushCidxType DEF PollOutOfOrder, SqTypeOK
      <3> QED BY <1>0, <1>5, <1>6, <2>1, <3>1, <3>2 DEF PollOutOfOrder, SqTypeOK
    <2>3. ErrorTypeOK'
      BY <1>5, <1>6, <2>1 DEF PollOutOfOrder
    <2>4. TaskTypeOK'
      BY <1>0, <1>6, <1>a, <1>b DEF PollOutOfOrder, BeginWalk, TaskTypeOK
    <2> QED BY <1>0, <1>6, <2>2, <2>3, <2>4
        DEF PollOutOfOrder, TypeOK, ConnTypeOK, RqTypeOK, PostTypeOK, CqTypeOK,
            HwTypeOK, GhostTypeOK, connVars, rqVars, postVars, cqVars, hwVars, ghostVars
  <1>7. CASE PollSend(c)
    <2> DEFINE r == Translate(c)
    <2>1. SendCompletion(c)
      BY <1>7 DEF PollSend
    <2>2. r \in CQE /\ r.idx \in SqSlots /\ SqNext(r.idx) \in SqSlots
      BY <1>5, <2>1, CqeFields, SlotTypes
    <2> HIDE DEF r
    <2>3. /\ sq_in_use' = [sq_in_use EXCEPT ![c.q] = @ - Reaped(c.q, r.idx)]
          /\ sq_cidx' = [sq_cidx EXCEPT ![c.q] = SqNext(r.idx)]
          /\ flush_cidx' = [flush_cidx EXCEPT ![c.q] =
                IF @ \in {r.idx, None} THEN SqNext(r.idx) ELSE @]
          /\ UNCHANGED <<sq_pidx, sw_sq>>
      BY <1>7, Zenon DEF PollSend, r
    <2>4. SqTypeOK'
      <3> DEFINE n == Reaped(c.q, r.idx)
      <3>1. n \in Int
        <4>1. SqDist(sq_cidx[c.q], r.idx) \in Nat
          BY <1>0, <1>b, <2>2, SlotTypes DEF SqTypeOK
        <4> QED BY <4>1 DEF Reaped
      <3> HIDE DEF n
      <3>2. sq_in_use' \in [QPs -> Int]
        <4>1. sq_in_use' = [sq_in_use EXCEPT ![c.q] = @ - n]
          BY <2>3 DEF n
        <4> QED BY <1>0, <1>b, <3>1, <4>1 DEF SqTypeOK
      <3>3. flush_cidx' \in [QPs -> SqSlots \cup {None}] /\ sq_cidx' \in [QPs -> SqSlots]
        BY <1>0, <2>2, <2>3 DEF SqTypeOK
      <3> QED BY <1>0, <1>5, <2>1, <2>3, <3>2, <3>3 DEF SqTypeOK
    <2>5. ErrorTypeOK'
      BY <1>5, <1>7, <2>1 DEF PollSend
    <2>6. TaskTypeOK'
      BY <1>0, <1>7, <1>a, <1>b DEF PollSend, BeginWalk, TaskTypeOK
    <2>7. GhostTypeOK'
      <3>1. Report(c.q, "send", sw_sq[c.q][r.idx].wr, r) /\ next_wr' = next_wr
        BY <1>7, Zenon DEF PollSend, r
      <3>2. sw_sq[c.q][r.idx].wr \in Nat
        BY <1>0, <1>b, <2>2 DEF SqTypeOK, SwSqe
      <3> QED BY <1>0, <1>b, <2>2, <3>1, <3>2, ReportType
    <2> QED BY <1>0, <1>7, <2>4, <2>5, <2>6, <2>7
        DEF PollSend, TypeOK, ConnTypeOK, RqTypeOK, PostTypeOK, CqTypeOK,
            HwTypeOK, connVars, rqVars, postVars, cqVars, hwVars
  <1> QED BY <1>1, <1>2, <1>3, <1>4, <1>6, <1>7 DEF Poll, c

(* The walk of flush_completed_wrs *)
LEMMA WalkTypes ==
  ASSUME Inv, Walk
  PROVE  TypeOK'
  <1>0. /\ ConnTypeOK /\ ErrorTypeOK /\ SqTypeOK /\ RqTypeOK /\ PostTypeOK
        /\ CqTypeOK /\ TaskTypeOK /\ HwTypeOK /\ GhostTypeOK
    BY DEF Inv, TypeOK
  <1>1. CASE MoveCompleted
    <2> DEFINE p == CompletedWr(wk)
    <2>1. wk \in QPs /\ p # None
      BY <1>1 DEF MoveCompleted, Inv, TaskOK
    <2>2. p \in SqSlots /\ sw_sq[wk][p].cqe \in CQE
      BY <1>0, <2>1, CompletedWrType
    <2>3. CqTypeOK'
      <3>1. SwCqProduce(<<sw_sq[wk][p].cqe>>) /\ UNCHANGED hwcq
        BY <1>1, Zenon DEF MoveCompleted
      <3>2. <<sw_sq[wk][p].cqe>> \in Seq(CQE)
        BY <2>2
      <3> QED BY <1>0, <3>1, <3>2, SwCqProduceType DEF CqTypeOK
    <2>4. SqTypeOK'
      <3>1. flush_cidx' = [flush_cidx EXCEPT ![wk] = SqNext(p)]
        BY <1>1, Zenon DEF MoveCompleted
      <3>2. SqNext(p) \in SqSlots
        BY <2>2, SlotTypes
      <3>3. flush_cidx' \in [QPs -> SqSlots \cup {None}]
        BY <1>0, <3>1, <3>2 DEF SqTypeOK
      <3> QED BY <1>0, <1>1, <3>3 DEF MoveCompleted, SqTypeOK
    <2>5. UNCHANGED <<connVars, in_error, flushed, rqVars, postVars, taskVars, hwVars, ghostVars>>
      BY <1>1, Zenon DEF MoveCompleted
    <2> QED BY <1>0, <2>3, <2>4, <2>5
        DEF TypeOK, ConnTypeOK, ErrorTypeOK, RqTypeOK, PostTypeOK, TaskTypeOK, HwTypeOK,
            GhostTypeOK, connVars, rqVars, postVars, taskVars, hwVars, ghostVars
  <1>2. CASE EndWalk
    <2>1. from_sw \in BOOLEAN /\ IF from_sw THEN swcq # <<>> ELSE hwcq # <<>>
      BY <1>0, <1>2 DEF EndWalk, Inv, TaskOK, TaskTypeOK
    <2>2. CqTypeOK'
      BY <1>0, <1>2, <2>1, ConsumeType DEF EndWalk
    <2>3. TaskTypeOK'
      BY <1>0, <1>2 DEF EndWalk, Unlock, TaskTypeOK, Flushers
    <2> QED BY <1>0, <1>2, <2>2, <2>3
        DEF EndWalk, TypeOK, ConnTypeOK, ErrorTypeOK, SqTypeOK, RqTypeOK, PostTypeOK,
            HwTypeOK, GhostTypeOK, connVars, wqVars, sqVars, rqVars, postVars, hwVars,
            ghostVars
  <1> QED BY <1>1, <1>2 DEF Walk

(* Flushing *)
LEMMA FlushReturnTypes ==
  ASSUME TypeOK, NEW q \in QPs, NEW caller, FlushReturn(q, caller),
         exists' = exists, conns' = conns, job' = job
  PROVE  ConnTypeOK' /\ PostTypeOK'
  <1>1. CASE caller = "modify"
    BY <1>1, ZenonT(30) DEF FlushReturn, TypeOK, ConnTypeOK, PostTypeOK
  <1>2. CASE caller = "post"
    BY <1>2 DEF FlushReturn, TypeOK, ConnTypeOK, PostTypeOK
  <1>3. CASE caller = "fatal"
    BY <1>3 DEF FlushReturn, TypeOK, ConnTypeOK, PostTypeOK
  <1> QED BY <1>1, <1>2, <1>3, Zenon DEF FlushReturn

LEMMA FlushTypes ==
  ASSUME Inv, Flush
  PROVE  TypeOK'
  <1>0. /\ ConnTypeOK /\ ErrorTypeOK /\ SqTypeOK /\ RqTypeOK /\ PostTypeOK
        /\ CqTypeOK /\ TaskTypeOK /\ HwTypeOK /\ GhostTypeOK
    BY DEF Inv, TypeOK
  <1> DEFINE c == Head(hwcq)
  <1>a. hwcq # <<>> => c \in CQE /\ c.q \in QPs
    <2>1. hwcq # <<>> => c \in CQE
      BY <1>0 DEF CqTypeOK
    <2> HIDE DEF c
    <2> QED BY <2>1, CqeFields
  <1> HIDE DEF c
  <1>1. ASSUME NEW q \in QPs, NEW caller \in Flushers, FlushAgain(q, caller)
        PROVE  TypeOK'
    <2>1. ConnTypeOK' /\ PostTypeOK'
      BY <1>1, FlushReturnTypes DEF FlushAgain, Inv
    <2> QED BY <1>0, <1>1, <2>1
        DEF FlushAgain, TypeOK, ErrorTypeOK, SqTypeOK, RqTypeOK, CqTypeOK, TaskTypeOK,
            HwTypeOK, GhostTypeOK, wqVars, sqVars, rqVars, cqVars, taskVars, hwVars,
            ghostVars
  <1>2. ASSUME NEW q \in QPs, NEW caller \in Flushers, FlushBegin(q, caller)
        PROVE  TypeOK'
    <2>1. ErrorTypeOK' /\ TaskTypeOK'
      BY <1>0, <1>2 DEF FlushBegin, ErrorTypeOK, TaskTypeOK
    <2> QED BY <1>0, <1>2, <2>1
        DEF FlushBegin, TypeOK, ConnTypeOK, SqTypeOK, RqTypeOK, PostTypeOK, CqTypeOK,
            HwTypeOK, GhostTypeOK, connVars, sqVars, rqVars, postVars, cqVars, hwVars,
            ghostVars
  <1>3. CASE hwcq # <<>> /\ FlushDropCqe(c)
    <2>1. CqTypeOK'
      BY <1>0, <1>3, ConsumeType DEF FlushDropCqe
    <2>2. oldest_read' \in [QPs -> SqSlots \cup {None}]
      <3>1. CASE Dropped(c)
        BY <1>0, <1>3, <3>1 DEF FlushDropCqe, SqTypeOK
      <3>2. CASE ~Dropped(c)
        BY <1>0, <1>3, <1>a, <3>2, OldestReadType DEF FlushDropCqe, UnsignaledRead
      <3> QED BY <3>1, <3>2
    <2>3. SqTypeOK'
      BY <1>0, <1>3, <2>2 DEF FlushDropCqe, SqTypeOK
    <2>4. UNCHANGED <<connVars, in_error, flushed, rqVars, postVars, taskVars, hwVars, ghostVars>>
      BY <1>3 DEF FlushDropCqe
    <2> QED BY <1>0, <2>1, <2>3, <2>4
        DEF TypeOK, ConnTypeOK, ErrorTypeOK, RqTypeOK, PostTypeOK, TaskTypeOK, HwTypeOK,
            GhostTypeOK, connVars, rqVars, postVars, taskVars, hwVars, ghostVars
  <1>4. CASE hwcq # <<>> /\ FlushMoveRecv(c)
    <2>1. CqTypeOK'
      <3>1. SwCqProduce(<<c>>) /\ hwcq' = Tail(hwcq)
        BY <1>4 DEF FlushMoveRecv
      <3>2. <<c>> \in Seq(CQE)
        BY <1>4, <1>a
      <3>3. hwcq' \in Seq(CQE)
        BY <1>0, <1>4, <3>1 DEF CqTypeOK
      <3> QED BY <1>0, <3>1, <3>2, <3>3, SwCqProduceType DEF CqTypeOK
    <2> QED BY <1>0, <1>4, <2>1
        DEF FlushMoveRecv, TypeOK, ConnTypeOK, ErrorTypeOK, SqTypeOK, RqTypeOK,
            PostTypeOK, TaskTypeOK, HwTypeOK, GhostTypeOK, connVars, wqVars, sqVars,
            rqVars, postVars, taskVars, hwVars, ghostVars
  <1>5. CASE hwcq # <<>> /\ FlushMoveSend(c)
    <2>1. c.op = "READ_RESP" => oldest_read[c.q] # None
      BY <1>5 DEF FlushMoveSend
    <2>2. Translate(c) \in CQE
      BY <1>0, <1>5, <1>a, <2>1, TranslateType
    <2>3. oldest_read' \in [QPs -> SqSlots \cup {None}]
      <3>1. CASE c.op = "READ_RESP"
        BY <1>0, <1>5, <1>a, <2>1, <3>1, OldestReadType DEF FlushMoveSend
      <3>2. CASE c.op # "READ_RESP"
        BY <1>0, <1>5, <3>2 DEF FlushMoveSend, SqTypeOK
      <3> QED BY <3>1, <3>2
    <2>4. SqTypeOK'
      <3>1. sw_sq' \in [QPs -> [SqSlots -> SwSqe]]
        BY <1>0, <1>5, <2>2, StoreType DEF FlushMoveSend
      <3>2. flush_cidx' \in [QPs -> SqSlots \cup {None}]
        BY <1>0, <1>5, <1>a, FlushCidxType DEF FlushMoveSend, SqTypeOK
      <3> QED BY <1>0, <1>5, <2>3, <3>1, <3>2 DEF FlushMoveSend, SqTypeOK
    <2>5. TaskTypeOK'
      BY <1>0, <1>5, <1>a DEF FlushMoveSend, BeginWalk, TaskTypeOK
    <2>6. UNCHANGED <<connVars, in_error, flushed, rqVars, postVars, cqVars, hwVars, ghostVars>>
      BY <1>5 DEF FlushMoveSend
    <2> QED BY <1>0, <2>4, <2>5, <2>6
        DEF TypeOK, ConnTypeOK, ErrorTypeOK, RqTypeOK, PostTypeOK, CqTypeOK, HwTypeOK,
            GhostTypeOK, connVars, rqVars, postVars, cqVars, hwVars, ghostVars
  <1>6. CASE FlushEnd
    <2> DEFINE q == tq
               nrq == rq_in_use[q] - CountRcqes(q)
               nsq == Unflushed(q)
               Rq == [k \in 1..nrq |-> FlushRqCqe(q)]
               Sq == [k \in 1..nsq |-> FlushSqCqe(q, Advance(FlushCidx(q), k - 1, SQSize))]
    <2>1. q \in QPs
      BY <1>6 DEF FlushEnd, Inv, TaskOK
    <2>2. FlushCidx(q) \in SqSlots /\ sq_pidx[q] \in SqSlots
      BY <1>0, <2>1, FlushCidxType DEF SqTypeOK
    <2>3. nsq \in Nat
      BY <2>2, SlotTypes DEF Unflushed
    <2>4. nrq \in Nat
      <3>1. CountRcqes(q) \in Nat
        <4> DEFINE T == {i \in 1..Len(swcq) : /\ swcq[i].q = q
                                              /\ swcq[i].type = "RQ"
                                              /\ swcq[i].op = "SEND"}
        <4>1. IsFiniteSet(1..Len(swcq))
          BY <1>0, FS_Interval DEF CqTypeOK
        <4>2. T \in SUBSET (1..Len(swcq))
          OBVIOUS
        <4>3. Cardinality(T) \in Nat
          BY <4>1, <4>2, FS_Subset, FS_CardinalityType
        <4> QED BY <4>3, Zenon DEF CountRcqes
      <3>2. nrq >= 0
        BY <1>6, Zenon DEF FlushEnd
      <3>3. rq_in_use[q] \in Int
        BY <1>0, <2>1 DEF RqTypeOK
      <3> HIDE DEF q
      <3> QED BY <3>1, <3>2, <3>3
    <2>5. /\ SwCqProduce(Rq \o Sq)
          /\ flush_cidx' = [flush_cidx EXCEPT ![q] = sq_pidx[q]]
          /\ oldest_read' = [oldest_read EXCEPT ![q] =
                IF @ # None /\ SqDist(FlushCidx(q), @) < nsq THEN None ELSE @]
      BY <1>6, Zenon DEF FlushEnd
    <2>6. /\ Unlock /\ FlushReturn(q, by)
          /\ UNCHANGED <<exists, conns, in_error, flushed, sq_cidx, sq_pidx, sq_in_use,
                         sw_sq, rqVars, job, hwcq, hwVars, ghostVars>>
      BY <1>6, Zenon DEF FlushEnd
    <2> HIDE DEF q, nrq, nsq
    <2>7. Rq \in Seq(CQE)
      <3>1. FlushRqCqe(q) \in CQE
        BY <2>1, CqeTypes
      <3> QED BY <2>4, <3>1, FunctionIsSeq
    <2>8. Sq \in Seq(CQE)
      <3>1. ASSUME NEW k \in 1..nsq
            PROVE  FlushSqCqe(q, Advance(FlushCidx(q), k - 1, SQSize)) \in CQE
        <4>1. FlushCidx(q) \in Int /\ k - 1 \in Int /\ SQSize \in Nat \ {0}
          BY <2>2, <2>3, WorkQueuesAssumption DEF SqSlots
        <4>2. Advance(FlushCidx(q), k - 1, SQSize) \in SqSlots
          BY <4>1, AdvanceType DEF SqSlots
        <4> QED BY <2>1, <4>2, CqeTypes
      <3> QED BY <2>3, <3>1, FunctionIsSeq
    <2> HIDE DEF Rq, Sq
    <2>9. CqTypeOK'
      <3>1. Rq \o Sq \in Seq(CQE)
        BY <2>7, <2>8
      <3> QED BY <1>0, <2>5, <2>6, <3>1, SwCqProduceType DEF CqTypeOK
    <2>10. ConnTypeOK' /\ PostTypeOK'
      BY <2>1, <2>6, FlushReturnTypes DEF Inv
    <2>11. SqTypeOK'
      <3>1. flush_cidx' \in [QPs -> SqSlots \cup {None}]
        BY <1>0, <2>2, <2>5 DEF SqTypeOK
      <3>2. oldest_read' \in [QPs -> SqSlots \cup {None}]
        BY <1>0, <2>5 DEF SqTypeOK
      <3> QED BY <1>0, <2>6, <3>1, <3>2 DEF SqTypeOK
    <2>12. TaskTypeOK'
      BY <2>6 DEF Unlock, TaskTypeOK, Flushers
    <2> QED BY <1>0, <2>6, <2>9, <2>10, <2>11, <2>12
        DEF TypeOK, ErrorTypeOK, RqTypeOK, HwTypeOK, GhostTypeOK, rqVars, hwVars, ghostVars
  <1> QED BY <1>1, <1>2, <1>3, <1>4, <1>5, <1>6 DEF Flush, c

LEMMA FatalFrame ==
  ASSUME FatalWork
  PROVE  /\ UNCHANGED <<exists, state, modify, conns, wqVars, postVars, cqVars, taskVars,
                        hwVars, ghostVars>>
         /\ \/ fatal' = [q \in QPs |-> "todo"]
            \/ \E q \in QPs : \E next \in {"flush", "done"} :
                  fatal' = [fatal EXCEPT ![q] = next]
  BY DEF FatalWork, DeviceDies, FatalVisit, FatalSkip, FatalStep

LEMMA FatalTypes ==
  ASSUME Inv, FatalWork
  PROVE  TypeOK'
  <1>0. TypeOK
    BY DEF Inv
  <1>1. fatal' \in [QPs -> {"alive", "todo", "flush", "done"}]
    BY <1>0, FatalFrame DEF TypeOK, ConnTypeOK
  <1> QED BY <1>0, <1>1, FatalFrame, ZenonT(30)
      DEF TypeOK, ConnTypeOK, ErrorTypeOK, SqTypeOK, RqTypeOK, PostTypeOK, CqTypeOK,
          TaskTypeOK, HwTypeOK, GhostTypeOK, wqVars, sqVars, rqVars, postVars, cqVars,
          taskVars, hwVars, ghostVars

LEMMA TypesStep ==
  ASSUME Inv, [Next]_vars
  PROVE  TypeOK'
  <1>1. CASE UNCHANGED vars
    BY <1>1 DEF Inv, TypeOK, ConnTypeOK, ErrorTypeOK, SqTypeOK, RqTypeOK, PostTypeOK,
                CqTypeOK, TaskTypeOK, HwTypeOK, GhostTypeOK, vars, connVars, wqVars,
                sqVars, rqVars, postVars, cqVars, taskVars, hwVars, ghostVars
  <1> QED BY <1>1, PostTypes, AdapterTypes, TransitionTypes, ResetTypes, PollTypes,
             WalkTypes, FlushTypes, FatalTypes DEF Next, Finished

-----------------------------------------------------------------------------
(* The loops under the locks *)

LEMMA TaskStep ==
  ASSUME Inv, [Next]_vars
  PROVE  TaskOK'
  <1>0. CqTypeOK /\ TaskTypeOK
    BY DEF Inv, TypeOK
  <1> USE DEF Inv
  <1>1. ASSUME UNCHANGED taskVars, swcq # <<>> => swcq' # <<>>, hwcq # <<>> => hwcq' # <<>>
        PROVE  TaskOK'
    BY <1>1 DEF TaskOK, taskVars
  <1>2. ASSUME pc' = "free" PROVE TaskOK'
    BY <1>2 DEF TaskOK
  <1>3. ASSUME NEW q \in QPs, Post(q) PROVE TaskOK'
    <2>1. ASSUME PostDrain(q) PROVE TaskOK'
      BY <1>2, <2>1 DEF PostDrain, CqFree, taskVars
    <2>2. ASSUME (\E j \in Jobs : PostCall(q, j)) \/ PostRelock(q)
          PROVE  UNCHANGED <<taskVars, swcq, hwcq>>
      BY <2>2 DEF PostCall, PostRelock, cqVars
    <2>3. ASSUME PostWriteSend(q) PROVE UNCHANGED <<taskVars, swcq, hwcq>>
      BY <2>3, Zenon DEF PostWriteSend, cqVars
    <2>4. ASSUME PostWriteRecv(q) PROVE UNCHANGED <<taskVars, swcq, hwcq>>
      BY <2>4 DEF PostWriteRecv, cqVars
    <2> QED BY <1>1, <1>3, <2>1, <2>2, <2>3, <2>4 DEF Post
  <1>4. ASSUME NEW q \in QPs, Transition(q) PROVE TaskOK'
    <2>1. ASSUME ResetBegin(q) PROVE TaskOK'
      BY <2>1 DEF ResetBegin, TaskOK
    <2>2. ASSUME ModifyToRts(q) PROVE TaskOK'
      <3>1. hwcq' # <<>> \/ hwcq' = hwcq
        BY <1>0, <2>2 DEF ModifyToRts, CqTypeOK
      <3> QED BY <1>1, <2>2, <3>1 DEF ModifyToRts
    <2>3. ASSUME Transition(q), ~ResetBegin(q), ~ModifyToRts(q)
          PROVE  UNCHANGED <<taskVars, swcq, hwcq>>
      BY <2>3 DEF Transition, ModifyInitFails, SetError, FiniReply, FiniFails, ModifyToIdle,
                  ModifyToError, Destroy, cqVars
    <2> QED BY <1>1, <1>4, <2>1, <2>2, <2>3
  <1>5. ASSUME NEW q \in QPs, Adapter(q) PROVE TaskOK'
    <2>1. UNCHANGED <<taskVars, swcq>>
      BY <1>5 DEF Adapter, HwExecute, HwReadResponse, HwReceive, HwFail, HwDown, HwWrite,
           cqVars
    <2>2. hwcq # <<>> => hwcq' # <<>>
      BY <1>0, <1>5 DEF Adapter, HwExecute, HwReadResponse, HwReceive, HwFail, HwDown,
           HwWrite, cqVars, CqTypeOK
    <2> QED BY <1>1, <2>1, <2>2
  <1>6. ASSUME Poll PROVE TaskOK'
    <2> DEFINE c == NextCqe
    <2>1. c.q \in QPs /\ (IF FromSw THEN swcq # <<>> ELSE hwcq # <<>>) /\ FromSw \in BOOLEAN
      BY <1>0, <1>6, NextCqeType, CqeFields DEF Poll
    <2> HIDE DEF c
    <2>2. ASSUME PollSkip(c) \/ PollDrain(c) \/ PollUnsignaledRead(c) PROVE TaskOK'
      BY <1>2, <2>2 DEF PollSkip, PollDrain, PollUnsignaledRead, Reported, Polled, CqFree,
                        taskVars
    <2>3. ASSUME PollRecv(c) PROVE TaskOK'
      BY <1>2, <2>3, Zenon DEF PollRecv, Reported, Polled, CqFree, taskVars
    <2>4. ASSUME BeginWalk(c.q, "poll_walk", FromSw), UNCHANGED cqVars PROVE TaskOK'
      BY <2>1, <2>4 DEF BeginWalk, TaskOK, cqVars
    <2>5. ASSUME PollOutOfOrder(c) \/ PollSend(c)
          PROVE  BeginWalk(c.q, "poll_walk", FromSw) /\ UNCHANGED cqVars
      BY <2>5, Zenon DEF PollOutOfOrder, PollSend
    <2> QED BY <1>6, <2>2, <2>3, <2>4, <2>5 DEF Poll, c
  <1>7. ASSUME Walk PROVE TaskOK'
    <2>1. ASSUME MoveCompleted PROVE TaskOK'
      <3> DEFINE p == CompletedWr(wk)
      <3>1. SwCqProduce(<<sw_sq[wk][p].cqe>>) /\ UNCHANGED <<hwcq, taskVars>>
        BY <2>1, Zenon DEF MoveCompleted
      <3>2. wk \in QPs /\ p # None
        BY <2>1 DEF MoveCompleted, TaskOK
      <3>3. sw_sq[wk][p].cqe \in CQE
        BY <3>2, CompletedWrType DEF TypeOK
      <3>4. <<sw_sq[wk][p].cqe>> \in Seq(CQE)
        BY <3>3
      <3>5. swcq # <<>> => swcq' # <<>>
        BY <1>0, <3>1, <3>4, SwCqProduceType
      <3> QED BY <1>1, <3>1, <3>5
    <2>2. ASSUME EndWalk PROVE TaskOK'
      <3>1. CASE pc = "poll_walk"
        BY <1>2, <2>2, <3>1 DEF EndWalk, Unlock
      <3>2. CASE pc # "poll_walk"
        BY <2>2, <3>2 DEF EndWalk, TaskOK
      <3> QED BY <3>1, <3>2
    <2> QED BY <1>7, <2>1, <2>2 DEF Walk
  <1>8. ASSUME Flush PROVE TaskOK'
    <2> DEFINE c == Head(hwcq)
    <2>1. hwcq # <<>> => c.q \in QPs
      <3>1. hwcq # <<>> => c \in CQE
        BY <1>0 DEF CqTypeOK
      <3> HIDE DEF c
      <3> QED BY <3>1, CqeFields
    <2> HIDE DEF c
    <2>2. ASSUME NEW q \in QPs, NEW caller \in Flushers,
                 FlushAgain(q, caller) \/ FlushBegin(q, caller)
          PROVE  TaskOK'
      BY <1>2, <2>2 DEF FlushAgain, FlushBegin, CqFree, TaskOK, taskVars
    <2>3. ASSUME hwcq # <<>>, FlushDropCqe(c) \/ FlushMoveRecv(c) PROVE TaskOK'
      BY <2>3 DEF FlushDropCqe, FlushMoveRecv, NextHwCqe, TaskOK, taskVars
    <2>4. ASSUME hwcq # <<>>, FlushMoveSend(c) PROVE TaskOK'
      BY <2>1, <2>4 DEF FlushMoveSend, NextHwCqe, BeginWalk, TaskOK, cqVars
    <2>5. ASSUME FlushEnd PROVE TaskOK'
      BY <1>2, <2>5, Zenon DEF FlushEnd, Unlock
    <2> QED BY <1>8, <2>2, <2>3, <2>4, <2>5 DEF Flush, c
  <1>9. ASSUME Reset PROVE TaskOK'
    <2>1. ASSUME CleanCqe PROVE TaskOK'
      BY <2>1 DEF CleanCqe, TaskOK, taskVars
    <2> QED BY <1>2, <1>9, <2>1 DEF Reset, ResetEnd, Unlock
  <1>10. CASE UNCHANGED vars
    BY <1>1, <1>10 DEF vars, cqVars
  <1>11. CASE FatalWork
    BY <1>1, <1>11, FatalFrame DEF cqVars
  <1> QED BY <1>3, <1>4, <1>5, <1>6, <1>7, <1>8, <1>9, <1>10, <1>11 DEF Next, Finished

(* What a poster checked under qhp->lock stays true until it has written:  *)
(* a flush, a poll and a reset of the QP need that lock.                   *)
LEMMA PosterStep ==
  ASSUME Inv, [Next]_vars
  PROVE  PosterOK'
  <1>0. /\ PostTypeOK /\ ErrorTypeOK /\ SqTypeOK /\ RqTypeOK /\ CqTypeOK
        /\ \A q \in QPs : poster[q] = "locked" => ~flushed[q] /\ Avail(q, job[q]) > 0
    BY DEF Inv, TypeOK, PosterOK
  <1>1. ASSUME UNCHANGED <<poster, job, flushed, sq_in_use, rq_in_use>>
        PROVE  PosterOK'
    BY <1>0, <1>1 DEF PosterOK, Avail, SqAvail, RqAvail
  <1>2. ASSUME NEW q \in QPs, Post(q) PROVE PosterOK'
    <2>1. ASSUME NEW j \in Jobs, PostCall(q, j) PROVE PosterOK'
      BY <1>0, <2>1 DEF PostCall, PosterOK, PostTypeOK, Avail, SqAvail, RqAvail, wqVars,
                        sqVars, rqVars
    <2>2. ASSUME PostRelock(q) PROVE PosterOK'
      <3>1. UNCHANGED <<flushed, sq_in_use, rq_in_use>>
        BY <2>2 DEF PostRelock, wqVars, sqVars, rqVars
      <3>2. CASE poster' = [poster EXCEPT ![q] = "locked"]
        <4>1. ~flushed[q] /\ Avail(q, job[q]) > 0 /\ job' = job
          BY <1>0, <2>2, <3>2 DEF PostRelock, PostReturn, PostTypeOK
        <4> QED BY <1>0, <3>1, <3>2, <4>1
            DEF PosterOK, PostTypeOK, Avail, SqAvail, RqAvail
      <3>3. CASE poster' # [poster EXCEPT ![q] = "locked"]
        BY <1>0, <2>2, <3>1, <3>3
        DEF PostRelock, PostReturn, PosterOK, PostTypeOK, Avail, SqAvail, RqAvail
      <3> QED BY <3>2, <3>3
    <2>3. ASSUME PostReturn(q), UNCHANGED flushed,
                 \A r \in QPs \ {q} : sq_in_use'[r] = sq_in_use[r] /\ rq_in_use'[r] = rq_in_use[r]
          PROVE  PosterOK'
      BY <1>0, <2>3 DEF PostReturn, PosterOK, PostTypeOK, Avail, SqAvail, RqAvail
    <2>4. ASSUME PostWriteSend(q) PROVE PosterOK'
      <3>1. /\ PostReturn(q) /\ UNCHANGED <<flushed, rqVars>>
            /\ sq_in_use' = [sq_in_use EXCEPT ![q] = sq_in_use'[q]]
        BY <1>0, <2>4 DEF PostWriteSend, SqTypeOK
      <3> QED BY <1>0, <2>3, <3>1 DEF SqTypeOK, rqVars
    <2>5. ASSUME PostWriteRecv(q) PROVE PosterOK'
      BY <1>0, <2>3, <2>5 DEF PostWriteRecv, RqTypeOK, sqVars
    <2>6. ASSUME PostDrain(q) PROVE PosterOK'
      BY <2>3, <2>6 DEF PostDrain, wqVars, sqVars, rqVars
    <2> QED BY <1>2, <2>1, <2>2, <2>4, <2>5, <2>6 DEF Post
  <1>3. ASSUME NEW q \in QPs, Transition(q) PROVE PosterOK'
    <2>1. UNCHANGED <<poster, job, flushed, sq_in_use, rq_in_use>>
      BY <1>3 DEF Transition, ModifyToRts, ModifyInitFails, SetError, FiniReply, FiniFails,
                  ModifyToIdle, ModifyToError, ResetBegin, Destroy, wqVars, sqVars, rqVars,
                  postVars
    <2> QED BY <1>1, <2>1
  <1>4. ASSUME NEW q \in QPs, Adapter(q) PROVE PosterOK'
    BY <1>1, <1>4 DEF Adapter, HwExecute, HwReadResponse, HwReceive, HwFail, HwDown,
                      wqVars, sqVars, rqVars, postVars
  <1>5. ASSUME Poll PROVE PosterOK'
    <2> DEFINE c == NextCqe
    <2>1. c.q \in QPs
      BY <1>0, <1>5, NextCqeType, CqeFields DEF Poll
    <2> HIDE DEF c
    <2>2. ASSUME Reported(c), UNCHANGED <<poster, job, flushed>>,
                 \A r \in QPs \ {c.q} : sq_in_use'[r] = sq_in_use[r] /\ rq_in_use'[r] = rq_in_use[r]
          PROVE  PosterOK'
      <3>1. poster[c.q] # "locked"
        BY <2>2 DEF Reported, Polled
      <3> QED BY <1>0, <2>2, <3>1 DEF PosterOK, Avail, SqAvail, RqAvail
    <2>3. ASSUME PollRecv(c) PROVE PosterOK'
      <3>1. /\ Reported(c) /\ UNCHANGED <<poster, job, flushed, sqVars>>
            /\ rq_in_use' = [rq_in_use EXCEPT ![c.q] = @ - 1]
        BY <2>3, Zenon DEF PollRecv, postVars
      <3> QED BY <1>0, <2>2, <3>1 DEF RqTypeOK, sqVars
    <2>4. ASSUME PollSend(c) PROVE PosterOK'
      <3> DEFINE n == Reaped(c.q, Translate(c).idx)
      <3>1. /\ Reported(c) /\ UNCHANGED <<poster, job, flushed, rqVars>>
            /\ sq_in_use' = [sq_in_use EXCEPT ![c.q] = @ - n]
        BY <2>4, Zenon DEF PollSend, SendCompletion, postVars
      <3> HIDE DEF n
      <3> QED BY <1>0, <2>2, <3>1 DEF SqTypeOK, rqVars
    <2>5. ASSUME PollSkip(c) \/ PollDrain(c) \/ PollUnsignaledRead(c) \/ PollOutOfOrder(c)
          PROVE  UNCHANGED <<poster, job, flushed, sq_in_use, rq_in_use>>
      BY <2>5, Zenon DEF PollSkip, PollDrain, PollUnsignaledRead, PollOutOfOrder, wqVars,
                         sqVars, rqVars, postVars
    <2> QED BY <1>1, <1>5, <2>3, <2>4, <2>5 DEF Poll, c
  <1>6. ASSUME Walk PROVE PosterOK'
    BY <1>1, <1>6 DEF Walk, MoveCompleted, EndWalk, wqVars, sqVars, rqVars, postVars
  <1>7. ASSUME Flush PROVE PosterOK'
    <2>1. ASSUME NEW q \in QPs, NEW caller, FlushReturn(q, caller),
                 UNCHANGED <<job, flushed, sq_in_use, rq_in_use>>
          PROVE  PosterOK'
      BY <1>0, <2>1 DEF FlushReturn, PosterOK, PostTypeOK, Avail, SqAvail, RqAvail
    <2>2. ASSUME NEW q \in QPs, NEW caller \in Flushers, FlushAgain(q, caller)
          PROVE  PosterOK'
      BY <2>1, <2>2 DEF FlushAgain, wqVars, sqVars, rqVars
    <2>3. ASSUME NEW q \in QPs, NEW caller \in Flushers, FlushBegin(q, caller)
          PROVE  PosterOK'
      BY <1>0, <2>3 DEF FlushBegin, QpLocked, PosterOK, ErrorTypeOK, Avail, SqAvail, RqAvail,
                        sqVars, rqVars, postVars
    <2> DEFINE c == Head(hwcq)
    <2>4. ASSUME FlushDropCqe(c) \/ FlushMoveRecv(c) \/ FlushMoveSend(c) PROVE PosterOK'
      BY <1>1, <2>4 DEF FlushDropCqe, FlushMoveRecv, FlushMoveSend, wqVars, sqVars, rqVars,
                        postVars
    <2>5. ASSUME FlushEnd PROVE PosterOK'
      <3>1. tq \in QPs
        BY <2>5 DEF FlushEnd, Inv, TaskOK
      <3>2. FlushReturn(tq, by) /\ UNCHANGED <<job, flushed, sq_in_use, rq_in_use>>
        BY <2>5, Zenon DEF FlushEnd, rqVars
      <3> QED BY <2>1, <3>1, <3>2
    <2> QED BY <1>7, <2>2, <2>3, <2>4, <2>5 DEF Flush
  <1>8. ASSUME Reset PROVE PosterOK'
    <2>1. ASSUME CleanCqe PROVE PosterOK'
      BY <1>1, <2>1 DEF CleanCqe, wqVars, sqVars, rqVars, postVars
    <2>2. ASSUME ResetEnd PROVE PosterOK'
      BY <1>0, <2>2, WorkQueuesAssumption
      DEF ResetEnd, PosterOK, ErrorTypeOK, SqTypeOK, RqTypeOK, Avail, SqAvail, RqAvail,
          postVars
    <2> QED BY <1>8, <2>1, <2>2 DEF Reset
  <1>9. CASE UNCHANGED vars
    BY <1>1, <1>9 DEF vars, wqVars, sqVars, rqVars, postVars
  <1>10. CASE FatalWork
    BY <1>1, <1>10, FatalFrame DEF wqVars, sqVars, rqVars, postVars
  <1> QED BY <1>2, <1>3, <1>4, <1>5, <1>6, <1>7, <1>8, <1>9, <1>10 DEF Next, Finished

LEMMA InvInit ==
  ASSUME Init
  PROVE  Inv
  <1>0. 0 \in SqSlots /\ 0 \in RqSlots /\ 0 \in Int /\ 0 \in Nat /\ 1 \in Nat /\ 0 \in 0..MaxConn
    BY SlotTypes, WorkQueuesAssumption
  <1>1. ConnTypeOK /\ ErrorTypeOK /\ PostTypeOK
    BY <1>0 DEF Init, ConnTypeOK, ErrorTypeOK, PostTypeOK
  <1>2. SqTypeOK
    <2>1. ASSUME NEW q \in QPs
          PROVE  [wr |-> 0, op |-> "WRITE", signaled |-> FALSE, complete |-> FALSE,
                  cqe |-> FlushSqCqe(q, 0)] \in SwSqe
      <3>1. FlushSqCqe(q, 0) \in CQE
        BY <1>0, CqeTypes
      <3> QED BY <3>1 DEF SwSqe
    <2>2. sw_sq \in [QPs -> [SqSlots -> SwSqe]]
      BY <2>1 DEF Init
    <2> QED BY <1>0, <2>2 DEF Init, SqTypeOK
  <1>3. RqTypeOK /\ HwTypeOK /\ GhostTypeOK
    BY <1>0 DEF Init, RqTypeOK, HwTypeOK, GhostTypeOK
  <1>4. CqTypeOK /\ TaskTypeOK
    <2>1. /\ hwcq = <<>> /\ swcq = <<>> /\ cq_error = FALSE
          /\ pc = "free" /\ tq = NoQP /\ wk = NoQP /\ from_sw = FALSE /\ by = "modify"
      BY Zenon DEF Init
    <2>2. CqTypeOK
      <3>1. CQSize > 0
        BY WorkQueuesAssumption
      <3>2. cq_error \in BOOLEAN
        BY <2>1, Zenon
      <3> QED BY <2>1, <3>1, <3>2 DEF CqTypeOK
    <2>3. from_sw \in BOOLEAN
      BY <2>1, Zenon
    <2> QED BY <2>1, <2>2, <2>3 DEF TaskTypeOK, Flushers
  <1>5. TaskOK /\ PosterOK
    BY DEF Init, TaskOK, PosterOK
  <1> QED BY <1>1, <1>2, <1>3, <1>4, <1>5 DEF Inv, TypeOK

LEMMA InvInvariant == Spec => []Inv
  <1>1. Init => Inv
    BY InvInit
  <1>2. Inv /\ [Next]_vars => Inv'
    BY TypesStep, TaskStep, PosterStep DEF Inv
  <1> QED BY <1>1, <1>2, PTL DEF Spec

(* Every variable has its type: ring indices stay inside their rings, the  *)
(* software CQ never fills, and the entries of both CQs are well formed.   *)
THEOREM WqTypeCorrect == Spec => []TypeOK
  <1>1. Inv => TypeOK
    BY DEF Inv
  <1> QED BY <1>1, InvInvariant, PTL

-----------------------------------------------------------------------------
(* Only the poster that holds qhp->lock writes to the rings. *)
LEMMA RingsWritten ==
  ASSUME Inv, [Next]_vars, NEW q \in QPs,
         sq_pidx'[q] # sq_pidx[q] \/ rq_pidx'[q] # rq_pidx[q]
  PROVE  ~flushed[q]
  <1>1. ASSUME NEW r \in QPs, PostWriteSend(r) PROVE ~flushed[q]
    <2>1. poster[r] = "locked" /\ rq_pidx' = rq_pidx /\ sq_pidx' = [sq_pidx EXCEPT ![r] = sq_pidx'[r]]
      BY <1>1 DEF PostWriteSend, rqVars, Inv, TypeOK, SqTypeOK
    <2> QED BY <2>1 DEF Inv, PosterOK, TypeOK, SqTypeOK
  <1>2. ASSUME NEW r \in QPs, PostWriteRecv(r) PROVE ~flushed[q]
    BY <1>2 DEF PostWriteRecv, sqVars, Inv, PosterOK, TypeOK, RqTypeOK
  <1>3. ASSUME NEW r \in QPs,
               (\E j \in Jobs : PostCall(r, j)) \/ PostRelock(r) \/ PostDrain(r)
        PROVE  UNCHANGED <<sq_pidx, rq_pidx>>
    BY <1>3 DEF PostCall, PostRelock, PostDrain, wqVars, sqVars, rqVars
  <1>4. Poll => UNCHANGED <<sq_pidx, rq_pidx>>
    BY DEF Poll, PollSkip, PollDrain, PollUnsignaledRead, PollRecv,
           PollOutOfOrder, PollSend, wqVars, sqVars, rqVars
  <1>5. Walk \/ Reset => UNCHANGED <<sq_pidx, rq_pidx>>
    BY DEF Walk, MoveCompleted, EndWalk, Reset, CleanCqe, ResetEnd, wqVars, sqVars, rqVars
  <1>6. Flush => UNCHANGED <<sq_pidx, rq_pidx>>
    BY DEF Flush, FlushAgain, FlushBegin, FlushDropCqe, FlushMoveRecv, FlushMoveSend,
           FlushEnd, wqVars, sqVars, rqVars
  <1>7. ASSUME NEW r \in QPs, Transition(r) PROVE UNCHANGED <<sq_pidx, rq_pidx>>
    BY <1>7 DEF Transition, ModifyToRts, ModifyInitFails, SetError, FiniReply, FiniFails,
                ModifyToIdle, ModifyToError, ResetBegin, Destroy, wqVars, sqVars, rqVars
  <1>8. ASSUME NEW r \in QPs, Adapter(r) PROVE UNCHANGED <<sq_pidx, rq_pidx>>
    BY <1>8 DEF Adapter, HwExecute, HwReadResponse, HwReceive, HwFail, HwDown,
                wqVars, sqVars, rqVars
  <1>9. UNCHANGED vars => UNCHANGED <<sq_pidx, rq_pidx>>
    BY DEF vars, wqVars, sqVars, rqVars
  <1>10. FatalWork => UNCHANGED <<sq_pidx, rq_pidx>>
    BY FatalFrame DEF wqVars, sqVars, rqVars
  <1>11. ~UNCHANGED <<sq_pidx, rq_pidx>>
    OBVIOUS
  <1> QED
    BY <1>1, <1>2, <1>3, <1>4, <1>5, <1>6, <1>7, <1>8, <1>9, <1>10, <1>11
    DEF Next, Post, Finished

(* No WR enters the rings of a flushed QP, however the poster and the      *)
(* threads that flush it interleave: its completion would never come.      *)
THEOREM WqNoWrAfterFlush == Spec => NoWrAfterFlush
  <1>1. Inv /\ [Next]_vars =>
          [\A q \in QPs :
             sq_pidx'[q] # sq_pidx[q] \/ rq_pidx'[q] # rq_pidx[q] => ~flushed[q]]_vars
    BY RingsWritten
  <1> QED BY <1>1, InvInvariant, PTL DEF Spec, NoWrAfterFlush
=============================================================================
