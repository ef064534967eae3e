----------------------------- MODULE WorkQueues -----------------------------
(***************************************************************************)
(* The work queues of kernel RDMA queue pairs (iw_cxgb4: qp.c, cq.c and    *)
(* the ring helpers of t4.h) that share one completion queue.              *)
(*                                                                         *)
(* The adapter executes WRs and writes completion entries (CQEs) to the    *)
(* hardware CQ.  The driver keeps a software shadow of the send ring       *)
(* (sw_sq), because reads complete out of order and without naming their   *)
(* WR and because unsignaled WRs complete silently; completions that       *)
(* cannot be reported in place are moved to the software CQ, which is      *)
(* polled first.  A QP put in error is flushed: every CQE of the hardware  *)
(* CQ is moved to the software CQ and each outstanding WR gets a flush     *)
(* CQE there.                                                              *)
(*                                                                         *)
(* Three kinds of thread run against each other and the adapter: posters   *)
(* (one per QP, under qhp->lock), pollers and flushers (under chp->lock,   *)
(* then qhp->lock) and callers of modify (under qhp->mutex).  Loops under  *)
(* the CQ lock take one step an iteration: pc names the loop that holds    *)
(* the lock, and nothing else that needs the lock is enabled until it is   *)
(* "free" again, while the adapter and the other QPs' posters go on.       *)
(***************************************************************************)
EXTENDS Integers, Sequences, FiniteSets

CONSTANTS
    QPs,      \* the queue pairs, all with the same CQ for sends and receives
    NoQP,     \* no queue pair
    SQSize,   \* slots of a send ring; one stays empty
    RQSize,   \* slots of a receive ring; one stays empty
    CQSize,   \* entries of the software CQ; one stays empty
    Jobs,     \* what a consumer posts in one call: a chain of send WRs, a
              \* sequence of [op, signaled], or one receive, RecvJob
    Mortal,   \* the device may die
    peer2peer, \* the module parameter: connections start with a read of their own
    MaxWr,    \* bound: WRs a consumer posts to one QP
    MaxConn   \* bound: connections a QP goes through

WrKinds == [op : {"WRITE", "READ"}, signaled : BOOLEAN]
RecvJob == <<[op |-> "RECV", signaled |-> TRUE]>>

ASSUME WorkQueuesAssumption ==
    /\ SQSize \in Nat \ {0, 1}
    /\ RQSize \in Nat \ {0, 1}
    /\ CQSize \in Nat \ {0}
    /\ Jobs \subseteq (Seq(WrKinds) \ {<<>>}) \cup {RecvJob}
    /\ peer2peer \in BOOLEAN
    /\ Mortal \in BOOLEAN
    /\ MaxWr \in Nat
    /\ MaxConn \in Nat

VARIABLES
    \* the connection, as c4iw_modify_iw_rc_qp and its caller see it
    exists,       \* in the device's table of QPs
    state,        \* qhp->attr.state
    modify,       \* where the holder of qhp->mutex is
    conns,        \* connections begun (bounds ModifyToRts)
    fatal,        \* what c4iw_flush_all_qps has to do with the QP, or has done
    \* the QP, struct t4_wq
    in_error,     \* the error byte of the status page
    flushed,
    sq_cidx, sq_pidx, sq_in_use,
    flush_cidx,   \* first slot flush_completed_wrs has not passed, or None
    oldest_read,  \* slot of the oldest unanswered read, or None
    sw_sq,
    rq_cidx, rq_pidx, rq_in_use,
    msn,          \* next expected message number
    sw_rq,
    \* the thread that posts to the QP
    poster,       \* where it is
    job,          \* the chain it posts
    \* the CQ, struct t4_cq, and the thread that holds its lock
    hwcq, swcq, cq_error,
    pc,           \* the loop that thread is in, or "free"
    tq,           \* the QP it polls, flushes or resets
    wk,           \* the QP whose completed WRs it walks
    from_sw,      \* whether the CQE it polls came from the software CQ
    by,           \* on whose behalf it flushes: one of Flushers
    \* the adapter
    live,         \* the QP has a connection
    sge,          \* send WRs rung and not executed
    reads,        \* reads sent and not answered
    hw_rq,        \* receive WRs rung and not used
    hw_msn,
    \* ghosts: what the consumer posted and what it was told
    next_wr, done

connVars   == <<exists, state, modify, conns, fatal>>
sqVars     == <<sq_cidx, sq_pidx, sq_in_use, flush_cidx, oldest_read, sw_sq>>
rqVars     == <<rq_cidx, rq_pidx, rq_in_use, msn, sw_rq>>
wqVars     == <<in_error, flushed, sqVars, rqVars>>
postVars   == <<poster, job>>
cqVars     == <<hwcq, swcq, cq_error>>
taskVars   == <<pc, tq, wk, from_sw, by>>
hwVars     == <<live, sge, reads, hw_rq, hw_msn>>
ghostVars  == <<next_wr, done>>
vars == <<connVars, wqVars, postVars, cqVars, taskVars, hwVars, ghostVars>>

-----------------------------------------------------------------------------
(* Rings.                                                                  *)

None == -1

SqSlots == 0..(SQSize - 1)
RqSlots == 0..(RQSize - 1)

(* Slot n places after i in a ring of a given size. *)
Advance_Late(i, n, size) == IF i + n > size THEN i + n - size ELSE i + n \* mutant
Advance(i, n, size) == (i + n) % size

(* Steps from slot a forward to slot b. *)
Dist(a, b, size) == IF b >= a THEN b - a ELSE b - a + size

SqNext(i)     == Advance(i, 1, SQSize)
SqDist(a, b)  == Dist(a, b, SQSize)
SqAvail(q)    == SQSize - 1 - sq_in_use[q]
RqAvail(q)    == RQSize - 1 - rq_in_use[q]

MinOf(a, b) == IF a < b THEN a ELSE b

-----------------------------------------------------------------------------
(* Completion entries.  The SWCQE bit of the code is which queue holds the *)
(* entry.  Field wr is a ghost: the WR the adapter completed, or the       *)
(* cookie of a drain; it is never compared with anything by an action.     *)

Statuses == {"ok", "err", "msn", "flush"}
CqeOps   == {"WR", "SEND", "READ_RESP", "RTR", "TERMINATE", "DRAIN"}

CQE == [q : QPs, type : {"SQ", "RQ"}, op : CqeOps, idx : SqSlots,
        msn : Nat, status : Statuses, wr : Nat]

Cqe(q, type, op, idx, m, status, wr) ==
    [q |-> q, type |-> type, op |-> op, idx |-> idx,
     msn |-> m, status |-> status, wr |-> wr]

(* CQEs of the adapter *)
WrCqe(w, q, status) == Cqe(q, "SQ", "WR", w.idx, 0, status, w.wr)
ReadRespCqe(w, q)   == Cqe(q, "RQ", "READ_RESP", 0, 0, "ok", w.wr)
SendCqe(q, m, wr)   == Cqe(q, "RQ", "SEND", 0, m, "ok", wr)
TerminateCqe(q)     == Cqe(q, "RQ", "TERMINATE", 0, 0, "ok", 0)
RtrCqe(q)           == Cqe(q, "RQ", "RTR", 0, 0, "ok", 0)

(* CQEs the driver makes *)
FlushSqCqe(q, idx)  == Cqe(q, "SQ", "WR", idx, 0, "flush", 0)
FlushRqCqe(q)       == Cqe(q, "RQ", "SEND", 0, 0, "flush", 0)
DrainCqe(q, side, wr) == Cqe(q, side, "DRAIN", 0, 0, "flush", wr)

SwSqe == [wr : Nat, op : {"WRITE", "READ"}, signaled : BOOLEAN,
          complete : BOOLEAN, cqe : CQE]

HwWr == [idx : SqSlots, wr : Nat, op : {"WRITE", "READ"}, signaled : BOOLEAN]

-----------------------------------------------------------------------------
Init ==
    /\ exists = [q \in QPs |-> TRUE]
    /\ state = [q \in QPs |-> "IDLE"]
    /\ modify = [q \in QPs |-> "idle"]
    /\ conns = [q \in QPs |-> 0]
    /\ fatal = [q \in QPs |-> "alive"]
    /\ in_error = [q \in QPs |-> FALSE]
    /\ flushed = [q \in QPs |-> FALSE]
    /\ sq_cidx = [q \in QPs |-> 0]
    /\ sq_pidx = [q \in QPs |-> 0]
    /\ sq_in_use = [q \in QPs |-> 0]
    /\ flush_cidx = [q \in QPs |-> None]
    /\ oldest_read = [q \in QPs |-> None]
    /\ sw_sq = [q \in QPs |-> [i \in SqSlots |->
                  [wr |-> 0, op |-> "WRITE", signaled |-> FALSE,
                   complete |-> FALSE, cqe |-> FlushSqCqe(q, 0)]]]
    /\ rq_cidx = [q \in QPs |-> 0]
    /\ rq_pidx = [q \in QPs |-> 0]
    /\ rq_in_use = [q \in QPs |-> 0]
    /\ msn = [q \in QPs |-> 1]
    /\ sw_rq = [q \in QPs |-> [i \in RqSlots |-> 0]]
    /\ poster = [q \in QPs |-> "idle"]
    /\ job = [q \in QPs |-> <<>>]
    /\ hwcq = <<>>
    /\ swcq = <<>>
    /\ cq_error = FALSE
    /\ pc = "free"
    /\ tq = NoQP
    /\ wk = NoQP
    /\ from_sw = FALSE
    /\ by = "modify"
    /\ live = [q \in QPs |-> FALSE]
    /\ sge = [q \in QPs |-> <<>>]
    /\ reads = [q \in QPs |-> <<>>]
    /\ hw_rq = [q \in QPs |-> <<>>]
    /\ hw_msn = [q \in QPs |-> 1]
    /\ next_wr = [q \in QPs |-> 1]
    /\ done = [q \in QPs |-> <<>>]

-----------------------------------------------------------------------------
(* Helpers of the actions.                                                 *)

CqFree == pc = "free"
Unlock == /\ pc' = "free" /\ tq' = NoQP /\ wk' = NoQP
          /\ from_sw' = FALSE /\ by' = "modify"

(* qhp->lock is held, by the poster or by the thread that holds the CQ lock *)
QpLocked_ByCqOnly(q) == ~CqFree /\ q \in {tq, wk}        \* mutant
QpLocked(q) == \/ poster[q] = "locked"
               \/ ~CqFree /\ q \in {tq, wk}

(* t4_swcq_produce, for each entry of new: an entry that would fill the    *)
(* ring is dropped and the CQ is dead.                                     *)
SwCqRoom_Small(n) == MinOf(n, CQSize - 2 - Len(swcq))   \* mutant
SwCqRoom(n) == MinOf(n, CQSize - 1 - Len(swcq))
SwCqProduce(new) ==
    /\ swcq' = swcq \o SubSeq(new, 1, SwCqRoom(Len(new)))
    /\ cq_error' = (cq_error \/ SwCqRoom(Len(new)) < Len(new))

Consume(sw) == IF sw THEN swcq' = Tail(swcq) /\ UNCHANGED hwcq
                     ELSE hwcq' = Tail(hwcq) /\ UNCHANGED swcq

(* advance_oldest_read: the next read of the ring, up to pidx *)
ReadsAfter_AnyWr(q, i) ==                                \* mutant
    {p \in SqSlots : SqDist(SqNext(i), p) < SqDist(SqNext(i), sq_pidx[q])}
ReadsAfter(q, i) ==
    {p \in SqSlots : /\ sw_sq[q][p].op = "READ"
                     /\ SqDist(SqNext(i), p) < SqDist(SqNext(i), sq_pidx[q])}
Nearest(i, S) == CHOOSE p \in S : \A r \in S : SqDist(i, p) <= SqDist(i, r)
AdvanceOldestRead(q) ==
    LET later == ReadsAfter(q, oldest_read[q])
    IN  oldest_read' = [oldest_read EXCEPT ![q] =
            IF later = {} THEN None ELSE Nearest(SqNext(@), later)]

UnsignaledRead(c) == /\ c.op = "READ_RESP"
                     /\ oldest_read[c.q] # None
                     /\ ~sw_sq[c.q][oldest_read[c.q]].signaled

(* create_read_req_cqe: a read response gets the slot of the oldest read;  *)
(* its status is not carried over.                                         *)
ReadReqCqe_AtCidx(c) == Cqe(c.q, "SQ", "WR", sq_cidx[c.q], 0, "ok", c.wr) \* mutant
ReadReqCqe(c) == Cqe(c.q, "SQ", "WR", oldest_read[c.q], 0, "ok", c.wr)

Translate(c) == IF c.op = "READ_RESP" THEN ReadReqCqe(c) ELSE c

(* A send completion that cannot be reported in place waits in its slot.   *)
FlushCidx_Cidx(q) == sq_cidx[q]                          \* mutant
FlushCidx(q) == IF flush_cidx[q] = None THEN sq_cidx[q] ELSE flush_cidx[q]
Store(c) == sw_sq' = [sw_sq EXCEPT ![c.q][c.idx] =
                        [@ EXCEPT !.cqe = c, !.complete = TRUE]]

Report(q, side, wr, c) ==
    done' = [done EXCEPT ![q] = Append(@,
        [side |-> side, wr |-> wr, status |-> c.status, hw |-> c.wr])]

-----------------------------------------------------------------------------
(* Posting: iw_post_rc_send and post_rc_receive.                           *)

Side(q) == IF job[q] = RecvJob THEN "recv" ELSE "send"
Avail(q, j) == IF j = RecvJob THEN RqAvail(q) ELSE SqAvail(q)

(* The checks at entry, under qhp->lock: a flushed QP takes drain CQEs, a  *)
(* QP in error is flushed first, a full ring refuses (-ENOMEM) and changes *)
(* nothing, and otherwise the lock is kept to write the WRs.               *)
PostCall(q, j) ==
    /\ exists[q] /\ poster[q] = "idle" /\ ~QpLocked(q)
    /\ next_wr[q] + Len(j) <= MaxWr + 1
    /\ \/ flushed[q] /\ poster' = [poster EXCEPT ![q] = "drain"]
       \/ ~flushed[q] /\ in_error[q] /\ poster' = [poster EXCEPT ![q] = "flush"]
       \/ /\ ~flushed[q] /\ ~in_error[q] /\ Avail(q, j) > 0
          /\ poster' = [poster EXCEPT ![q] = "locked"]
    /\ job' = [job EXCEPT ![q] = j]
    /\ UNCHANGED <<connVars, wqVars, cqVars, taskVars, hwVars, ghostVars>>

PostReturn(q) == /\ poster' = [poster EXCEPT ![q] = "idle"]
                 /\ job' = [job EXCEPT ![q] = <<>>]

(* After its flush_qp the poster takes qhp->lock again. *)
PostRelock(q) ==
    /\ poster[q] = "relock" /\ ~QpLocked(q)
    /\ \/ /\ flushed[q]
          /\ poster' = [poster EXCEPT ![q] = "drain"] /\ UNCHANGED job
       \/ /\ ~flushed[q] /\ Avail(q, job[q]) > 0
          /\ poster' = [poster EXCEPT ![q] = "locked"] /\ UNCHANGED job
       \/ /\ ~flushed[q] /\ Avail(q, job[q]) <= 0
          /\ PostReturn(q)
    /\ UNCHANGED <<connVars, wqVars, cqVars, taskVars, hwVars, ghostVars>>

(* Write as much of the chain as the ring holds, ring the doorbell, unlock. *)
PostWriteSend(q) ==
    LET n == MinOf(Len(job[q]), SqAvail(q))
        At(k) == Advance(sq_pidx[q], k - 1, SQSize)   \* slot of the k-th WR
        K(p) == SqDist(sq_pidx[q], p) + 1
        new == {k \in 1..n : job[q][k].op = "READ"}
    IN
    /\ poster[q] = "locked" /\ job[q] # RecvJob
    /\ sw_sq' = [sw_sq EXCEPT ![q] = [p \in SqSlots |->
          IF K(p) <= n
          THEN [wr |-> next_wr[q] + K(p) - 1, op |-> job[q][K(p)].op,
                signaled |-> job[q][K(p)].signaled, complete |-> FALSE,
                cqe |-> @[p].cqe]
          ELSE @[p]]]
    /\ oldest_read' = [oldest_read EXCEPT ![q] =
          IF @ = None /\ new # {}
          THEN At(CHOOSE k \in new : \A l \in new : k <= l) ELSE @]
    /\ sq_in_use' = [sq_in_use EXCEPT ![q] = @ + n]
    /\ sq_pidx' = [sq_pidx EXCEPT ![q] = Advance(@, n, SQSize)]
    /\ sge' = [sge EXCEPT ![q] = @ \o [k \in 1..n |->
          [idx |-> At(k), wr |-> next_wr[q] + k - 1,
           op |-> job[q][k].op, signaled |-> job[q][k].signaled]]]
    /\ next_wr' = [next_wr EXCEPT ![q] = @ + n]
    /\ PostReturn(q)
    /\ UNCHANGED <<connVars, in_error, flushed, sq_cidx, flush_cidx, rqVars,
                   cqVars, taskVars, live, reads, hw_rq, hw_msn, done>>

PostWriteRecv(q) ==
    /\ poster[q] = "locked" /\ job[q] = RecvJob
    /\ sw_rq' = [sw_rq EXCEPT ![q][rq_pidx[q]] = next_wr[q]]
    /\ rq_in_use' = [rq_in_use EXCEPT ![q] = @ + 1]
    /\ rq_pidx' = [rq_pidx EXCEPT ![q] = Advance(@, 1, RQSize)]
    /\ hw_rq' = [hw_rq EXCEPT ![q] = Append(@, next_wr[q])]
    /\ next_wr' = [next_wr EXCEPT ![q] = @ + 1]
    /\ PostReturn(q)
    /\ UNCHANGED <<connVars, in_error, flushed, sqVars, rq_cidx, msn,
                   cqVars, taskVars, live, sge, reads, hw_msn, done>>

(* complete_sq_drain_wrs, complete_rq_drain_wr: under the CQ lock only *)
PostDrain(q) ==
    /\ poster[q] = "drain" /\ CqFree
    /\ SwCqProduce([k \in 1..Len(job[q]) |->
          DrainCqe(q, IF job[q] = RecvJob THEN "RQ" ELSE "SQ", next_wr[q] + k - 1)])
    /\ next_wr' = [next_wr EXCEPT ![q] = @ + Len(job[q])]
    /\ PostReturn(q)
    /\ UNCHANGED <<connVars, wqVars, hwcq, taskVars, hwVars, done>>

-----------------------------------------------------------------------------
(* Polling: c4iw_poll_cq_one and poll_iw_cq, under the CQ and QP locks.    *)

HaveCqe == swcq # <<>> \/ hwcq # <<>>
NextCqe == IF swcq # <<>> THEN Head(swcq) ELSE Head(hwcq)
FromSw  == swcq # <<>>

Polled(c) == /\ CqFree /\ ~cq_error /\ HaveCqe
             /\ c = NextCqe
             /\ exists[c.q] => poster[c.q] # "locked"

(* No QP, a hardware CQE of a flushed QP, a TERMINATE, an RTR read. *)
PollSkip(c) ==
    /\ Polled(c)
    /\ \/ ~exists[c.q]
       \/ flushed[c.q] /\ ~FromSw
       \/ c.op \in {"TERMINATE", "RTR"}
    /\ Consume(FromSw)
    /\ UNCHANGED <<connVars, wqVars, postVars, cq_error, taskVars, hwVars, ghostVars>>

Reported(c) == /\ Polled(c)
               /\ exists[c.q]
               /\ ~(flushed[c.q] /\ ~FromSw)
               /\ c.op \notin {"TERMINATE", "RTR"}

PollDrain(c) ==
    /\ Reported(c) /\ c.op = "DRAIN"
    /\ Report(c.q, IF c.type = "SQ" THEN "send" ELSE "recv", c.wr, c)
    /\ Consume(FromSw)
    /\ UNCHANGED <<connVars, wqVars, postVars, cq_error, taskVars, hwVars, next_wr>>

PollUnsignaledRead(c) ==
    /\ Reported(c) /\ UnsignaledRead(c)
    /\ AdvanceOldestRead(c.q)
    /\ Consume(FromSw)
    /\ UNCHANGED <<connVars, in_error, flushed, sq_cidx, sq_pidx, sq_in_use,
                   flush_cidx, sw_sq, rqVars, postVars, cq_error, taskVars,
                   hwVars, ghostVars>>

(* A receive: the message number must be the expected one. *)
PollRecv(c) ==
    LET q == c.q
        r == IF c.status = "ok" /\ c.msn # msn[q] THEN [c EXCEPT !.status = "msn"] ELSE c
    IN
    /\ Reported(c) /\ c.op = "SEND"
    /\ in_error' = [in_error EXCEPT ![q] = @ \/ r.status # "ok"]
    /\ Report(q, "recv", sw_rq[q][rq_cidx[q]], r)
    /\ rq_in_use' = [rq_in_use EXCEPT ![q] = @ - 1]
    /\ rq_cidx' = [rq_cidx EXCEPT ![q] = Advance(@, 1, RQSize)]
    /\ msn' = [msn EXCEPT ![q] = @ + 1]
    /\ Consume(FromSw)
    /\ UNCHANGED <<connVars, flushed, sqVars, rq_pidx, sw_rq, postVars,
                   cq_error, taskVars, hwVars, next_wr>>

(* A send completion, a read response among them.  Both cases go on to     *)
(* flush_completed_wrs (the walk), which ends by consuming the CQE.        *)
SendCompletion(c) ==
    /\ Reported(c) /\ c.op \in {"WR", "READ_RESP"} /\ ~UnsignaledRead(c)
    /\ c.op = "READ_RESP" => oldest_read[c.q] # None
    /\ IF c.op = "READ_RESP" THEN AdvanceOldestRead(c.q) ELSE UNCHANGED oldest_read
    /\ in_error' = [in_error EXCEPT ![c.q] = @ \/ Translate(c).status # "ok"]

BeginWalk(q, loop, sw) ==
    /\ pc' = loop /\ tq' = IF loop = "poll_walk" THEN q ELSE tq
    /\ wk' = q /\ from_sw' = sw /\ UNCHANGED by

PollOutOfOrder(c) ==
    LET r == Translate(c) IN
    /\ SendCompletion(c)
    /\ ~FromSw /\ r.idx # sq_cidx[c.q]
    /\ Store(r)
    /\ flush_cidx' = [flush_cidx EXCEPT ![c.q] = FlushCidx(c.q)]
    /\ BeginWalk(c.q, "poll_walk", FromSw)
    /\ UNCHANGED <<connVars, flushed, sq_cidx, sq_pidx, sq_in_use, rqVars,
                   postVars, cqVars, hwVars, ghostVars>>

(* The WRs up to the completed one leave the ring: those before it are     *)
(* unsignaled.                                                             *)
Reaped_NoWrap(q, idx) == idx - sq_cidx[q] + 1           \* mutant
Reaped(q, idx) == SqDist(sq_cidx[q], idx) + 1

(* t4_sq_consume forgets flush_cidx when it stands on it.                  *)
PollSend(c) ==
    LET q == c.q
        r == Translate(c)
        cidx == SqNext(r.idx)
    IN
    /\ SendCompletion(c)
    /\ FromSw \/ r.idx = sq_cidx[q]
    /\ Report(q, "send", sw_sq[q][r.idx].wr, r)
    /\ sq_in_use' = [sq_in_use EXCEPT ![q] = @ - Reaped(q, r.idx)]
    /\ sq_cidx' = [sq_cidx EXCEPT ![q] = cidx]
    /\ flush_cidx' = [flush_cidx EXCEPT ![q] = IF @ \in {r.idx, None} THEN cidx ELSE @]
    /\ BeginWalk(q, "poll_walk", FromSw)
    /\ UNCHANGED <<connVars, flushed, sq_pidx, sw_sq, rqVars, postVars, cqVars,
                   hwVars, next_wr>>

(* flush_completed_wrs: past the unsignaled WRs, the next signaled one     *)
(* moves to the software CQ if it is complete.                             *)
SignaledFrom_Complete(q, i) == {p \in SqSlots :          \* mutant
    sw_sq[q][p].complete /\ SqDist(i, p) < SqDist(i, sq_pidx[q])}
SignaledFrom(q, i) == {p \in SqSlots : /\ sw_sq[q][p].signaled
                                       /\ SqDist(i, p) < SqDist(i, sq_pidx[q])}
CompletedWr(q) ==
    LET ahead == SignaledFrom(q, flush_cidx[q])
        p == Nearest(flush_cidx[q], ahead)
    IN  IF ahead # {} /\ sw_sq[q][p].complete THEN p ELSE None

MoveCompleted ==
    LET p == CompletedWr(wk) IN
    /\ pc \in {"poll_walk", "flush_walk"} /\ p # None
    /\ SwCqProduce(<<sw_sq[wk][p].cqe>>)
    /\ flush_cidx' = [flush_cidx EXCEPT ![wk] = SqNext(p)]
    /\ UNCHANGED <<connVars, in_error, flushed, sq_cidx, sq_pidx, sq_in_use,
                   oldest_read, sw_sq, rqVars, postVars, hwcq, taskVars,
                   hwVars, ghostVars>>

EndWalk ==
    /\ pc \in {"poll_walk", "flush_walk"} /\ CompletedWr(wk) = None
    /\ Consume(from_sw)
    /\ IF pc = "poll_walk" THEN Unlock
       ELSE pc' = "flush" /\ wk' = tq /\ UNCHANGED <<tq, from_sw, by>>
    /\ UNCHANGED <<connVars, wqVars, postVars, cq_error, hwVars, ghostVars>>

-----------------------------------------------------------------------------
(* Flushing: flush_qp and __flush_qp for a kernel QP.  It is entered by    *)
(* the holder of qhp->mutex, by a poster that found the QP in error or by  *)
(* the work item of a dead device, which holds a reference of the QP, and  *)
(* does nothing when another of them was first.                            *)

Flushers == {"modify", "post", "fatal"}

FlushCaller(q, caller) ==
    \/ caller = "modify" /\ modify[q] = "flush"
    \/ caller = "post" /\ poster[q] = "flush"
    \/ caller = "fatal" /\ fatal[q] = "flush"

(* The end of the caller's flush_qp: modify sets the state it goes to (it  *)
(* has set ERROR before) and drops the mutex; a poster takes its lock; the *)
(* work item goes on with the table of QPs.                                *)
FlushReturn(q, caller) ==
    \/ /\ caller = "modify"
       /\ modify' = [modify EXCEPT ![q] = "idle"]
       /\ state' = [state EXCEPT ![q] = IF @ = "CLOSING" THEN "IDLE" ELSE @]
       /\ UNCHANGED <<poster, fatal>>
    \/ /\ caller = "post"
       /\ poster' = [poster EXCEPT ![q] = "relock"]
       /\ UNCHANGED <<modify, state, fatal>>
    \/ /\ caller = "fatal"
       /\ fatal' = [fatal EXCEPT ![q] = "done"]
       /\ UNCHANGED <<modify, state, poster>>

FlushAgain(q, caller) ==
    /\ CqFree /\ ~QpLocked(q) /\ FlushCaller(q, caller)
    /\ flushed[q]
    /\ FlushReturn(q, caller)
    /\ UNCHANGED <<exists, conns, wqVars, job, cqVars, taskVars, hwVars, ghostVars>>

FlushBegin(q, caller) ==
    /\ CqFree /\ ~QpLocked(q) /\ FlushCaller(q, caller)
    /\ ~flushed[q]
    /\ flushed' = [flushed EXCEPT ![q] = TRUE]
    /\ in_error' = [in_error EXCEPT ![q] = TRUE]
    /\ pc' = "flush" /\ tq' = q /\ wk' = q /\ by' = caller
    /\ UNCHANGED <<connVars, sqVars, rqVars, postVars, cqVars, from_sw, hwVars,
                   ghostVars>>

(* c4iw_flush_hw_cq, one CQE of the hardware CQ an iteration.  The CQE may *)
(* be of another QP, whose lock is then taken for the iteration.           *)
NextHwCqe(c) == /\ pc = "flush" /\ hwcq # <<>>
                /\ c = Head(hwcq)
                /\ exists[c.q] /\ c.q # tq => poster[c.q] # "locked"

Dropped_OtherQps(c) == ~exists[c.q] \/ c.q # tq \/ c.op \in {"TERMINATE", "RTR"} \* mutant
Dropped(c) == \/ ~exists[c.q]
              \/ c.q # tq /\ flushed[c.q]
              \/ c.op \in {"TERMINATE", "RTR"}

FlushDropCqe(c) ==
    /\ NextHwCqe(c) /\ (Dropped(c) \/ UnsignaledRead(c))
    /\ IF Dropped(c) THEN UNCHANGED oldest_read ELSE AdvanceOldestRead(c.q)
    /\ Consume(FALSE)
    /\ UNCHANGED <<connVars, in_error, flushed, sq_cidx, sq_pidx, sq_in_use,
                   flush_cidx, sw_sq, rqVars, postVars, cq_error, taskVars,
                   hwVars, ghostVars>>

FlushMoveRecv(c) ==
    /\ NextHwCqe(c) /\ ~Dropped(c) /\ c.op = "SEND"
    /\ SwCqProduce(<<c>>)
    /\ hwcq' = Tail(hwcq)
    /\ UNCHANGED <<connVars, wqVars, postVars, taskVars, hwVars, ghostVars>>

FlushMoveSend(c) ==
    /\ NextHwCqe(c) /\ ~Dropped(c) /\ ~UnsignaledRead(c)
    /\ c.op \in {"WR", "READ_RESP"}
    /\ c.op = "READ_RESP" => oldest_read[c.q] # None
    /\ IF c.op = "READ_RESP" THEN AdvanceOldestRead(c.q) ELSE UNCHANGED oldest_read
    /\ Store(Translate(c))
    /\ flush_cidx' = [flush_cidx EXCEPT ![c.q] = FlushCidx(c.q)]
    /\ BeginWalk(c.q, "flush_walk", FALSE)
    /\ UNCHANGED <<connVars, in_error, flushed, sq_cidx, sq_pidx, sq_in_use,
                   rqVars, postVars, cqVars, hwVars, ghostVars>>

(* c4iw_count_rcqes: receives that already have a CQE in the software CQ *)
CountRcqes_None(q) == 0                                  \* mutant
CountRcqes(q) ==
    IF rq_in_use[q] = 0 THEN 0
    ELSE Cardinality({i \in 1..Len(swcq) : /\ swcq[i].q = q
                                           /\ swcq[i].type = "RQ"
                                           /\ swcq[i].op = "SEND"})

(* the sends c4iw_flush_sq gives a CQE, flush_cidx to pidx *)
Unflushed_ButLast(q) == MinOf(SqDist(FlushCidx(q), sq_pidx[q]), SQSize - 2) \* mutant
Unflushed(q) == SqDist(FlushCidx(q), sq_pidx[q])

(* c4iw_flush_rq, then c4iw_flush_sq: a flush CQE for every receive that   *)
(* has none and for every send from flush_cidx on, signaled or not.        *)
FlushEnd ==
    LET q == tq
        nrq == rq_in_use[q] - CountRcqes(q)
        nsq == Unflushed(q)
    IN
    /\ pc = "flush" /\ hwcq = <<>>
    /\ nrq >= 0
    /\ SwCqProduce([k \in 1..nrq |-> FlushRqCqe(q)] \o
                   [k \in 1..nsq |-> FlushSqCqe(q, Advance(FlushCidx(q), k - 1, SQSize))])
    /\ flush_cidx' = [flush_cidx EXCEPT ![q] = sq_pidx[q]]
    /\ oldest_read' = [oldest_read EXCEPT ![q] =
          IF @ # None /\ SqDist(FlushCidx(q), @) < nsq THEN None ELSE @]
    /\ Unlock
    /\ FlushReturn(q, by)
    /\ UNCHANGED <<exists, conns, in_error, flushed, sq_cidx, sq_pidx, sq_in_use,
                   sw_sq, rqVars, job, hwcq, hwVars, ghostVars>>

-----------------------------------------------------------------------------
(* c4iw_modify_iw_rc_qp, under qhp->mutex.                                 *)

Dead == \E q \in QPs : fatal[q] # "alive"

Modify(q, from) == exists[q] /\ modify[q] = "idle" /\ state[q] \in from

HwStops(q) == /\ live' = [live EXCEPT ![q] = FALSE]
              /\ sge' = [sge EXCEPT ![q] = <<>>]
              /\ reads' = [reads EXCEPT ![q] = <<>>]
              /\ hw_rq' = [hw_rq EXCEPT ![q] = <<>>]

(* IDLE -> RTS, the firmware's INIT done; a peer-to-peer connection starts *)
(* with a read of its own.                                                 *)
ModifyToRts(q) ==
    /\ Modify(q, {"IDLE"}) /\ conns[q] < MaxConn /\ ~live[q] /\ ~Dead
    /\ conns' = [conns EXCEPT ![q] = @ + 1]
    /\ state' = [state EXCEPT ![q] = "RTS"]
    /\ live' = [live EXCEPT ![q] = TRUE]
    /\ hw_msn' = [hw_msn EXCEPT ![q] = 1]
    /\ hwcq' = IF peer2peer THEN Append(hwcq, RtrCqe(q)) ELSE hwcq
    /\ UNCHANGED <<exists, fatal, modify, wqVars, postVars, swcq, cq_error, taskVars,
                   sge, reads, hw_rq, ghostVars>>

(* rdma_init failed: the QP goes to ERROR and is flushed. *)
ModifyInitFails(q) ==
    /\ Modify(q, {"IDLE"}) /\ conns[q] < MaxConn
    /\ conns' = [conns EXCEPT ![q] = @ + 1]
    /\ state' = [state EXCEPT ![q] = "ERROR"]
    /\ modify' = [modify EXCEPT ![q] = "flush"]
    /\ UNCHANGED <<exists, fatal, wqVars, postVars, cqVars, taskVars, hwVars, ghostVars>>

(* RTS -> CLOSING, TERMINATE or ERROR puts the QP in error without         *)
(* qhp->lock: a poster may be between its check and its write.  rdma_fini  *)
(* follows, or the flush.                                                  *)
SetError(q, next) ==
    /\ Modify(q, {"RTS"})
    /\ in_error' = [in_error EXCEPT ![q] = TRUE]
    /\ state' = [state EXCEPT ![q] = next]
    /\ \/ /\ next \in {"CLOSING", "TERMINATE"}
          /\ modify' = [modify EXCEPT ![q] = "fini"]
       \/ next = "ERROR" /\ modify' = [modify EXCEPT ![q] = "flush"]
       \/ next = "TERMINATE" /\ UNCHANGED modify      \* not internal: no rdma_fini
    /\ UNCHANGED <<exists, fatal, conns, flushed, sqVars, rqVars, postVars, cqVars,
                   taskVars, hwVars, ghostVars>>

FiniReply(q) ==
    /\ modify[q] = "fini"
    /\ modify' = [modify EXCEPT ![q] = "idle"]
    /\ HwStops(q)
    /\ UNCHANGED <<exists, fatal, state, conns, wqVars, postVars, cqVars, taskVars,
                   hw_msn, ghostVars>>

FiniFails(q) ==
    /\ modify[q] = "fini"
    /\ modify' = [modify EXCEPT ![q] = "flush"]
    /\ state' = [state EXCEPT ![q] = "ERROR"]
    /\ UNCHANGED <<exists, fatal, conns, wqVars, postVars, cqVars, taskVars, hwVars,
                   ghostVars>>

(* CLOSING -> IDLE: the flush comes first, FlushReturn sets the state. *)
ModifyToIdle(q) ==
    /\ Modify(q, {"CLOSING"})
    /\ modify' = [modify EXCEPT ![q] = "flush"]
    /\ UNCHANGED <<exists, fatal, state, conns, wqVars, postVars, cqVars, taskVars,
                   hwVars, ghostVars>>

ModifyToError(q) ==
    /\ Modify(q, {"IDLE", "CLOSING", "TERMINATE"})
    /\ state' = [state EXCEPT ![q] = "ERROR"]
    /\ modify' = [modify EXCEPT ![q] = "flush"]
    /\ UNCHANGED <<exists, fatal, conns, wqVars, postVars, cqVars, taskVars, hwVars,
                   ghostVars>>

(* reset_iw_qp, on ERROR -> IDLE and on IDLE -> IDLE of a flushed QP.  The *)
(* consumer that resets a QP is not posting to it.  Assumed of the adapter *)
(* (nothing in the code waits for it): the connection is over and no WR    *)
(* rung for it is left to be executed for the next one.                    *)
ResetBegin(q) ==
    /\ Modify(q, {"ERROR", "IDLE"}) /\ (state[q] = "IDLE" => flushed[q])
    /\ sq_in_use[q] = 0 /\ rq_in_use[q] = 0
    /\ poster[q] = "idle"
    /\ ~live[q] /\ sge[q] = <<>> /\ hw_rq[q] = <<>>
    /\ CqFree
    /\ modify' = [modify EXCEPT ![q] = "reset"]
    /\ pc' = "clean" /\ tq' = q /\ wk' = q
    /\ UNCHANGED <<exists, fatal, state, conns, wqVars, postVars, cqVars, from_sw, by,
                   hwVars, ghostVars>>

(* c4iw_cq_clean: the QP's CQEs, drains apart, leave both queues. *)
OfQp_Sends(c, q) == c.type = "SQ" /\ c.q = q             \* mutant
OfQp_None(c, q) == FALSE                                 \* mutant
OfQp(c, q) == c.op # "DRAIN" /\ c.q = q
Without(s, i) == SubSeq(s, 1, i - 1) \o SubSeq(s, i + 1, Len(s))

CleanCqe ==
    /\ pc = "clean"
    /\ \/ \E i \in 1..Len(swcq) : /\ OfQp(swcq[i], tq)
                                   /\ swcq' = Without(swcq, i)
                                   /\ UNCHANGED hwcq
       \/ \E i \in 1..Len(hwcq) : /\ OfQp(hwcq[i], tq)
                                   /\ hwcq' = Without(hwcq, i)
                                   /\ UNCHANGED swcq
    /\ UNCHANGED <<connVars, wqVars, postVars, cq_error, taskVars, hwVars, ghostVars>>

(* The rest of discard_kernel_qp_work, and clear_qp_error_state. *)
ResetEnd ==
    LET q == tq IN
    /\ pc = "clean"
    /\ \A i \in 1..Len(swcq) : ~OfQp(swcq[i], q)
    /\ \A i \in 1..Len(hwcq) : ~OfQp(hwcq[i], q)
    /\ sq_cidx' = [sq_cidx EXCEPT ![q] = sq_pidx[q]]
    /\ sq_in_use' = [sq_in_use EXCEPT ![q] = 0]
    /\ flush_cidx' = [flush_cidx EXCEPT ![q] = None]
    /\ oldest_read' = [oldest_read EXCEPT ![q] = None]
    /\ rq_cidx' = [rq_cidx EXCEPT ![q] = rq_pidx[q]]
    /\ rq_in_use' = [rq_in_use EXCEPT ![q] = 0]
    /\ msn' = [msn EXCEPT ![q] = 1]
    /\ flushed' = [flushed EXCEPT ![q] = FALSE]
    /\ in_error' = [in_error EXCEPT ![q] = FALSE]
    /\ state' = [state EXCEPT ![q] = "IDLE"]
    /\ modify' = [modify EXCEPT ![q] = "idle"]
    /\ Unlock
    /\ UNCHANGED <<exists, fatal, conns, sq_pidx, sw_sq, rq_pidx, sw_rq, postVars,
                   cqVars, hwVars, ghostVars>>

(* destroy_rc_qp, after its modify to ERROR: the QP leaves the table; what *)
(* is left of it in the CQ has no QP any more.                             *)
Destroy(q) ==
    /\ Modify(q, {"ERROR"}) /\ poster[q] = "idle" /\ ~live[q]
    /\ ~QpLocked(q)
    /\ exists' = [exists EXCEPT ![q] = FALSE]
    /\ UNCHANGED <<fatal, state, modify, conns, wqVars, postVars, cqVars, taskVars,
                   hwVars, ghostVars>>

-----------------------------------------------------------------------------
(* The death of the device.  c4iw_disable_device marks it; a work item,    *)
(* c4iw_fatal_work, visits the QPs of the table, one after the other, with *)
(* a reference of the QP in place of the table's lock.  Nothing connects   *)
(* any more; what the adapter does from now on is open.                    *)

DeviceDies ==
    /\ Mortal /\ ~Dead
    /\ fatal' = [q \in QPs |-> "todo"]
    /\ UNCHANGED <<exists, state, modify, conns, wqVars, postVars, cqVars,
                   taskVars, hwVars, ghostVars>>

FatalStep(q, next) ==
    /\ fatal[q] = "todo" /\ \A p \in QPs : fatal[p] # "flush"
    /\ fatal' = [fatal EXCEPT ![q] = next]
    /\ UNCHANGED <<exists, state, modify, conns, wqVars, postVars, cqVars,
                   taskVars, hwVars, ghostVars>>

FatalVisit(q) == exists[q] /\ FatalStep(q, "flush")
FatalSkip_InError(q) == (~exists[q] \/ in_error[q]) /\ FatalStep(q, "done") \* mutant
FatalSkip(q) == ~exists[q] /\ FatalStep(q, "done")

-----------------------------------------------------------------------------
(* The adapter.  WRs execute in order, a signaled one leaves a CQE; a read *)
(* is answered later, in the order of the reads, always with a CQE.        *)

HwWrite(new) == hwcq' = hwcq \o new /\ UNCHANGED <<swcq, cq_error>>

HwExecute(q) ==
    /\ live[q] /\ sge[q] # <<>>
    /\ LET w == Head(sge[q]) IN
       IF w.op = "READ"
       THEN reads' = [reads EXCEPT ![q] = Append(@, w)] /\ UNCHANGED cqVars
       ELSE /\ HwWrite(IF w.signaled THEN <<WrCqe(w, q, "ok")>> ELSE <<>>)
            /\ UNCHANGED reads
    /\ sge' = [sge EXCEPT ![q] = Tail(@)]
    /\ UNCHANGED <<connVars, wqVars, postVars, taskVars, live, hw_rq, hw_msn, ghostVars>>

HwReadResponse(q) ==
    /\ live[q] /\ reads[q] # <<>>
    /\ HwWrite(<<ReadRespCqe(Head(reads[q]), q)>>)
    /\ reads' = [reads EXCEPT ![q] = Tail(@)]
    /\ UNCHANGED <<connVars, wqVars, postVars, taskVars, live, sge, hw_rq, hw_msn, ghostVars>>

(* A send of the peer arrives; only 4 bits of its number were checked. *)
HwReceive(q) ==
    /\ live[q] /\ hw_rq[q] # <<>>
    /\ \E m \in {hw_msn[q], hw_msn[q] + 16} : HwWrite(<<SendCqe(q, m, Head(hw_rq[q]))>>)
    /\ hw_rq' = [hw_rq EXCEPT ![q] = Tail(@)]
    /\ hw_msn' = [hw_msn EXCEPT ![q] = @ + 1]
    /\ UNCHANGED <<connVars, wqVars, postVars, taskVars, live, sge, reads, ghostVars>>

(* A WR fails: its CQE has an error, a TERMINATE follows, all stops. *)
HwFail(q) ==
    /\ live[q] /\ sge[q] # <<>> /\ Head(sge[q]).op = "WRITE"
    /\ HwWrite(<<WrCqe(Head(sge[q]), q, "err"), TerminateCqe(q)>>)
    /\ HwStops(q)
    /\ UNCHANGED <<connVars, wqVars, postVars, taskVars, hw_msn, ghostVars>>

(* The connection ends: an abort, a close or a loss. *)
HwDown(q) ==
    /\ live[q]
    /\ HwStops(q)
    /\ UNCHANGED <<connVars, wqVars, postVars, cqVars, taskVars, hw_msn, ghostVars>>

-----------------------------------------------------------------------------
Post(q)  == \/ \E j \in Jobs : PostCall(q, j)
            \/ PostRelock(q) \/ PostWriteSend(q) \/ PostWriteRecv(q) \/ PostDrain(q)
Poll     == HaveCqe /\ LET c == NextCqe IN
            \/ PollSkip(c) \/ PollDrain(c) \/ PollUnsignaledRead(c) \/ PollRecv(c)
            \/ PollOutOfOrder(c) \/ PollSend(c)
Walk     == MoveCompleted \/ EndWalk
Flush    == \/ \E q \in QPs, caller \in Flushers :
                  FlushAgain(q, caller) \/ FlushBegin(q, caller)
            \/ hwcq # <<>> /\ LET c == Head(hwcq) IN
                  FlushDropCqe(c) \/ FlushMoveRecv(c) \/ FlushMoveSend(c)
            \/ FlushEnd
Transition(q) == \/ ModifyToRts(q) \/ ModifyInitFails(q)
                 \/ \E next \in {"CLOSING", "TERMINATE", "ERROR"} : SetError(q, next)
                 \/ FiniReply(q) \/ FiniFails(q)
                 \/ ModifyToIdle(q) \/ ModifyToError(q)
                 \/ ResetBegin(q) \/ Destroy(q)
Reset    == CleanCqe \/ ResetEnd
Adapter(q) == HwExecute(q) \/ HwReadResponse(q) \/ HwReceive(q) \/ HwFail(q) \/ HwDown(q)

(* Every QP is destroyed: nothing is left to do. *)
Finished == (\A q \in QPs : ~exists[q]) /\ ~HaveCqe /\ UNCHANGED vars

FatalWork == DeviceDies \/ \E q \in QPs : FatalVisit(q) \/ FatalSkip(q)

Next == \/ \E q \in QPs : Post(q) \/ Transition(q) \/ Adapter(q)
        \/ Poll \/ Walk \/ Flush \/ Reset \/ FatalWork
        \/ Finished

Spec == Init /\ [][Next]_vars

(* What the driver and its consumer keep doing: a consumer polls, a thread *)
(* that holds or waits for a lock goes on (the kernel's spinlocks are      *)
(* fair), and rdma_fini waits for a bounded time.  Nothing makes a         *)
(* consumer post or reset, a connection begin or end, or a WR execute.     *)
Fairness == /\ WF_vars(Poll) /\ WF_vars(Walk) /\ WF_vars(Flush) /\ WF_vars(Reset)
            /\ \A q \in QPs :
                 /\ SF_vars(PostRelock(q)) /\ SF_vars(PostDrain(q))
                 /\ WF_vars(PostWriteSend(q) \/ PostWriteRecv(q))
                 /\ \A caller \in Flushers :
                      SF_vars(FlushAgain(q, caller) \/ FlushBegin(q, caller))
                 /\ WF_vars(FiniReply(q) \/ FiniFails(q))
                 /\ WF_vars(FatalVisit(q)) /\ WF_vars(FatalSkip(q))

LiveSpec == Spec /\ Fairness

-----------------------------------------------------------------------------
(* Properties.                                                             *)

ConnTypeOK ==
    /\ exists \in [QPs -> BOOLEAN]
    /\ state \in [QPs -> {"IDLE", "RTS", "CLOSING", "TERMINATE", "ERROR"}]
    /\ modify \in [QPs -> {"idle", "fini", "flush", "reset"}]
    /\ conns \in [QPs -> 0..MaxConn]
    /\ fatal \in [QPs -> {"alive", "todo", "flush", "done"}]
ErrorTypeOK ==
    /\ in_error \in [QPs -> BOOLEAN]
    /\ flushed \in [QPs -> BOOLEAN]
SqTypeOK ==
    /\ sq_cidx \in [QPs -> SqSlots]
    /\ sq_pidx \in [QPs -> SqSlots]
    /\ sq_in_use \in [QPs -> Int]
    /\ flush_cidx \in [QPs -> SqSlots \cup {None}]
    /\ oldest_read \in [QPs -> SqSlots \cup {None}]
    /\ sw_sq \in [QPs -> [SqSlots -> SwSqe]]
RqTypeOK ==
    /\ rq_cidx \in [QPs -> RqSlots]
    /\ rq_pidx \in [QPs -> RqSlots]
    /\ rq_in_use \in [QPs -> Int]
    /\ msn \in [QPs -> Nat]
    /\ sw_rq \in [QPs -> [RqSlots -> Nat]]
PostTypeOK ==
    /\ poster \in [QPs -> {"idle", "flush", "relock", "locked", "drain"}]
    /\ job \in [QPs -> Jobs \cup {<<>>}]
CqTypeOK ==
    /\ hwcq \in Seq(CQE)
    /\ swcq \in Seq(CQE) /\ Len(swcq) < CQSize
    /\ cq_error \in BOOLEAN
TaskTypeOK ==
    /\ pc \in {"free", "poll_walk", "flush", "flush_walk", "clean"}
    /\ tq \in QPs \cup {NoQP}
    /\ wk \in QPs \cup {NoQP}
    /\ from_sw \in BOOLEAN
    /\ by \in Flushers
HwTypeOK ==
    /\ live \in [QPs -> BOOLEAN]
    /\ sge \in [QPs -> Seq(HwWr)]
    /\ reads \in [QPs -> Seq(HwWr)]
    /\ hw_rq \in [QPs -> Seq(Nat)]
    /\ hw_msn \in [QPs -> Nat]
GhostTypeOK ==
    /\ next_wr \in [QPs -> Nat]
    /\ done \in [QPs -> Seq([side : {"send", "recv"}, wr : Nat,
                             status : Statuses, hw : Nat])]

(* Every variable has its type; ring indices stay inside their rings, the  *)
(* entries of both CQs are well formed and the software CQ never fills.    *)
TypeOK == /\ ConnTypeOK /\ ErrorTypeOK /\ SqTypeOK /\ RqTypeOK /\ PostTypeOK
          /\ CqTypeOK /\ TaskTypeOK /\ HwTypeOK /\ GhostTypeOK

(* A QP no thread is polling, flushing or resetting. *)
Settled(q) == exists[q] /\ (CqFree \/ q \notin {tq, wk})

(* The counters agree with the rings they count, whatever order            *)
(* completions came in: in_use is the distance from cidx to pidx (poll_cq  *)
(* subtracts the unsignaled WRs it skips, across the wrap), and flush_cidx *)
(* lies between them.                                                      *)
RingsAgree ==
    \A q \in QPs : exists[q] =>
        /\ sq_in_use[q] = SqDist(sq_cidx[q], sq_pidx[q])
        /\ rq_in_use[q] = Dist(rq_cidx[q], rq_pidx[q], RQSize)
        /\ flush_cidx[q] # None =>
              SqDist(sq_cidx[q], flush_cidx[q]) <= SqDist(sq_cidx[q], sq_pidx[q])

(* A WR is reported successful only when it is the one the adapter         *)
(* completed: reads are matched to their slots by order alone, and a CQE   *)
(* is matched to a ring that may have wrapped or been reset since.         *)
SuccessIsGenuine ==
    \A q \in QPs : \A i \in 1..Len(done[q]) :
        done[q][i].status = "ok" => done[q][i].hw = done[q][i].wr

(* The oldest unanswered read of the adapter is the one oldest_read points *)
(* to, so "the cqe doesn't contain the sq_wptr from the wr" does no harm.  *)
PendingReads(q) ==
    SelectSeq(hwcq, LAMBDA c : c.q = q /\ c.op = "READ_RESP") \o
    [i \in 1..Len(reads[q]) |-> ReadRespCqe(reads[q][i], q)]
ReadsMatched ==
    \A q \in QPs : Settled(q) /\ ~flushed[q] /\ PendingReads(q) # <<>> =>
        /\ oldest_read[q] # None
        /\ sw_sq[q][oldest_read[q]].op = "READ"
        /\ sw_sq[q][oldest_read[q]].wr = Head(PendingReads(q)).wr

(* A flush leaves exactly one software CQE for each receive and one for    *)
(* each send that will be reported, the last WR of the ring included, so   *)
(* a flushed QP empties by polling the software CQ alone.                  *)
SqCqes(q) == SelectSeq(swcq, LAMBDA c : c.q = q /\ c.op = "WR")
RqCqes(q) == SelectSeq(swcq, LAMBDA c : c.q = q /\ c.op = "SEND")
FlushLosesNothing ==
    \A q \in QPs : Settled(q) /\ flushed[q] /\ ~cq_error =>
        /\ Len(RqCqes(q)) = rq_in_use[q]
        /\ IF sq_in_use[q] = 0 THEN SqCqes(q) = <<>>
           ELSE /\ SqCqes(q) # <<>>
                /\ SqNext(SqCqes(q)[Len(SqCqes(q))].idx) = sq_pidx[q]

(* The software CQ never overflows when it has room for every WR of the    *)
(* rings and every drain.                                                  *)
CqNeverDies == ~cq_error

(* No WR enters the rings of a flushed QP, however the poster, the thread  *)
(* that modifies the QP and the one that polls it interleave.              *)
NoWrAfterFlush ==
    [][\A q \in QPs :
         sq_pidx'[q] # sq_pidx[q] \/ rq_pidx'[q] # rq_pidx[q] => ~flushed[q]]_vars

(* A QP leaves the flushed state only with empty rings and with no CQE of  *)
(* its last connection left to be taken for one of the next.               *)
ResetIsClean ==
    [][\A q \in QPs : flushed[q] /\ ~flushed'[q] =>
         /\ sq_in_use[q] = 0 /\ rq_in_use[q] = 0
         /\ \A i \in 1..Len(hwcq') : hwcq'[i].q # q]_vars

(* Each queue's WRs complete in order, once, and are reported as a         *)
(* consumer expects: WorkQueues implements VerbsQueue.                     *)
Promise == INSTANCE VerbsQueue WITH
    WrIds <- 1..MaxWr,
    sq <- [q \in QPs |-> IF ~exists[q] THEN <<>> ELSE
             [k \in 1..SqDist(sq_cidx[q], sq_pidx[q]) |->
                LET e == sw_sq[q][Advance(sq_cidx[q], k - 1, SQSize)]
                IN  [wr |-> e.wr, signaled |-> e.signaled]]],
    rq <- [q \in QPs |-> IF ~exists[q] THEN <<>> ELSE
             [k \in 1..Dist(rq_cidx[q], rq_pidx[q], RQSize) |->
                sw_rq[q][Advance(rq_cidx[q], k - 1, RQSize)]]],
    done <- [q \in QPs |-> [i \in 1..Len(done[q]) |->
             [side |-> done[q][i].side, wr |-> done[q][i].wr,
              status |-> done[q][i].status]]]
KeepsPromise == Promise!Spec

(* A QP in ERROR is emptied: everything posted to it is reported. *)
ErrorCompletes ==
    \A q \in QPs : state[q] = "ERROR" ~>
        (sq_in_use[q] = 0 /\ rq_in_use[q] = 0) \/ ~exists[q]

(* "Complete what is outstanding on the QPs, once per device" (cm.c:5057): *)
(* everything on a QP the device had when it died is reported, whatever    *)
(* the QP's state and whoever modifies, posts to, resets or destroys it    *)
(* while the work item comes by.                                           *)
DeadDeviceCompletes ==
    \A q \in QPs : fatal[q] = "todo" ~>
        (sq_in_use[q] = 0 /\ rq_in_use[q] = 0) \/ ~exists[q]

(* "A WR written into the ring in between is never fetched for this        *)
(* connection" (qp.c, iw_post_rc_send): once a QP is in error no WR enters *)
(* its rings.                                                              *)
NoWrInError ==
    [][\A q \in QPs :
         sq_pidx'[q] # sq_pidx[q] \/ rq_pidx'[q] # rq_pidx[q] => ~in_error[q]]_vars
=============================================================================
