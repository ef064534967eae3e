----------------------------- MODULE UserQueues -----------------------------
(***************************************************************************)
(* Send queues of user-mode queue pairs and the completion queue they      *)
(* share, as the library (src/libcxgb4/src) keeps them in the process.     *)
(* The kernel only sets the error bytes of the queue pair and of the CQ;   *)
(* the library flushes when it sees them: a poster, a query or modify, an  *)
(* asynchronous event, or a poll, which scans all queue pairs.  Each queue *)
(* pair has one thread that posts and modifies; pollers are others.  Work  *)
(* requests are RDMA writes, signaled or not; receives, reads, shared      *)
(* receive queues and destroy are left out.                                *)
(***************************************************************************)
EXTENDS Integers, Sequences, SequencesExt

CONSTANTS QpTable,     \* the queue pairs, in the order of qpid2ptr
          Pollers,
          Iwarp,       \* polled by poll_iw_cq, else by poll_roce_cq
          Overtaken,   \* a reset may overtake a flush decided before it
          SqSize,      \* slots of the send rings
          CqSize,      \* slots of the completion ring
          MaxWrs,      \* bound: WRs per connection, by queue pair
          MaxLives     \* bound: connections, by queue pair

UserQPs == Range(QpTable)

ASSUME UserAssumption ==
  /\ Iwarp \in BOOLEAN /\ Overtaken \in BOOLEAN
  /\ SqSize \in Nat \ {0, 1} /\ CqSize \in Nat \ {0}
  /\ \A q \in UserQPs : MaxWrs[q] \in Nat /\ MaxLives[q] \in Nat

VARIABLES usq,     \* send rings: cidx, pidx, in_use, flush_cidx and the slots
          uqp,     \* queue pairs: flushed, err (the error byte), in the kernel
          uthread, \* the thread that posts and modifies
          uevent,  \* an asynchronous event of the QP is waiting
          ucq,     \* the CQ: error byte, software queue, hardware ring
          poller,  \* where each poller is
          cqlock,
          given,   \* WRs the adapter has of a QP
          posted,  \* this connection's WRs: signaled or not
          carried,    \* ... those the adapter carried out
          told,    \* ... those reported
          life     \* connections so far
urcVars == <<usq, uqp, uthread, uevent, ucq, poller, cqlock, given,
              posted, carried, told, life>>
\* what only the adapter, the kernel and the thread of the QP change
urcConnVars == <<uevent, given, posted, carried, life>>

CqIdx == 0..(CqSize - 1)
SqIdx == 0..(SqSize - 1)
NoCqe == [qp |-> "none"]
EmptySlot == [wr_id |-> 0, signaled |-> FALSE, complete |-> FALSE, flushed |-> FALSE]
EmptySq == [cidx |-> 0, pidx |-> 0, in_use |-> 0, flush_cidx |-> -1,
            slot |-> [i \in SqIdx |-> EmptySlot]]
CqeOf(q, i, status) == [qp |-> q, idx |-> i, status |-> status]

UrcInit ==
  /\ usq = [q \in UserQPs |-> EmptySq]
  /\ \E connected \in SUBSET UserQPs :
       /\ uqp = [q \in UserQPs |-> [flushed |-> FALSE, err |-> FALSE,
                                    state |-> IF q \in connected THEN "RTS" ELSE "RESET"]]
       /\ life = [q \in UserQPs |-> IF q \in connected THEN 1 ELSE 0]
  /\ uthread = [q \in UserQPs |-> "idle"]
  /\ uevent = [q \in UserQPs |-> FALSE]
  /\ \E at \in CqIdx : \* the ring has been in use
       ucq = [err |-> FALSE, sw |-> <<>>, cidx |-> at, gen |-> 1, hwpidx |-> at, hwgen |-> 1,
              queue |-> [i \in CqIdx |-> [cqe |-> NoCqe, gen |-> IF i < at THEN 1 ELSE 0]]]
  /\ poller = [p \in Pollers |-> [at |-> "idle"]]
  /\ cqlock = "free"
  /\ given = [q \in UserQPs |-> <<>>]
  /\ posted = [q \in UserQPs |-> <<>>]
  /\ carried = [q \in UserQPs |-> {}]
  /\ told = [q \in UserQPs |-> <<>>]

----------------------------------------------------------------------------
(* The completion ring                                                     *)

\* The slot i entries after cidx and its generation in this pass.
CqAt(cq, i) == (cq.cidx + i) % CqSize
GenAt(cq, i) == IF cq.cidx + i < CqSize THEN cq.gen ELSE 1 - cq.gen
ValidAt(cq, i) == cq.queue[CqAt(cq, i)].gen = GenAt(cq, i)
\* Entries the adapter has written and nobody has consumed.
Unpolled(cq) ==
  CHOOSE n \in 0..CqSize : /\ \A i \in 0..(n - 1) : ValidAt(cq, i)
                           /\ n < CqSize => ~ValidAt(cq, n)
HwCqes(cq) == [i \in 1..Unpolled(cq) |-> cq.queue[CqAt(cq, i - 1)].cqe]
\* t4_hwcq_consume, n times
HwConsume(cq, n) == [cq EXCEPT !.cidx = CqAt(cq, n), !.gen = GenAt(cq, n)]

Slide_WithGen(cq, at, by) == [cq EXCEPT !.queue[CqAt(cq, at + by)] = cq.queue[CqAt(cq, at)]] \* mutant

\* A kept entry moves up by the number dropped; its new slot keeps its
\* generation.
Slide(cq, at, by) ==
  [cq EXCEPT !.queue[CqAt(cq, at + by)].cqe = cq.queue[CqAt(cq, at)].cqe]

\* chrd_cq_clean: the hardware queue is compacted newest first.
CqClean(cq, q) ==
  LET n == Unpolled(cq)
      after[i \in 0..n] == \* with the entries from i on done
        IF i = n THEN [cq |-> cq, nfreed |-> 0]
        ELSE LET s == after[i + 1] IN
             IF s.cq.queue[CqAt(cq, i)].cqe.qp = q THEN [s EXCEPT !.nfreed = @ + 1]
             ELSE IF s.nfreed = 0 THEN s
             ELSE [s EXCEPT !.cq = Slide(s.cq, i, s.nfreed)]
  IN [HwConsume(after[0].cq, after[0].nfreed) EXCEPT
        !.sw = SelectSeq(cq.sw, LAMBDA c : c.qp # q)]

----------------------------------------------------------------------------
(* The send ring                                                           *)

FlushFrom(sq) == IF sq.flush_cidx = -1 THEN sq.cidx ELSE sq.flush_cidx
\* The slots from there to pidx, in ring order.
Unmoved(sq) ==
  LET from == FlushFrom(sq)
  IN [k \in 1..((sq.pidx - from) % SqSize) |-> (from + k - 1) % SqSize]
MarkFlushed(sq, idxs) ==
  [i \in SqIdx |-> [sq.slot[i] EXCEPT !.flushed = @ \/ i \in Range(idxs)]]

\* flush_completed_wrs: completed WRs, and the unsignaled ones before them,
\* leave in order; an unsignaled one stays if nothing after it is complete.
InOrder(sq) ==
  LET open == {k \in DOMAIN Unmoved(sq) :
                 LET s == sq.slot[Unmoved(sq)[k]] IN s.signaled /\ ~s.complete}
      upto == IF open = {} THEN Len(Unmoved(sq)) ELSE Min(open) - 1
  IN SelectSeq(SubSeq(Unmoved(sq), 1, upto), LAMBDA i : sq.slot[i].signaled)
FlushCompleted(sq) ==
  [sq EXCEPT !.flush_cidx = IF InOrder(sq) = <<>> THEN FlushFrom(sq)
                            ELSE (Last(InOrder(sq)) + 1) % SqSize,
             !.slot = MarkFlushed(sq, InOrder(sq))]

\* chrd_flush_sq
FlushSq(sq) == [sq EXCEPT !.flush_cidx = sq.pidx, !.slot = MarkFlushed(sq, Unmoved(sq))]

CqesFor(q, idxs, status) == [k \in DOMAIN idxs |-> CqeOf(q, idxs[k], status)]
SetComplete(sq, i) == [sq EXCEPT !.slot[i].complete = TRUE]

\* chrd_flush_hw_cq empties the hardware queue.  Entries of a QP that was
\* flushed before are dropped; the others complete their WRs, which leave for
\* the software queue in the order they came (the adapter completes the WRs of
\* a QP in order).
OfFlushedQp(q, c) == c.qp # q /\ uqp[c.qp].flushed
Came(q, r) == {c.idx : c \in {x \in Range(HwCqes(ucq)) : x.qp = r /\ ~OfFlushedQp(q, x)}}
Completed(q, r) ==
  [usq[r] EXCEPT !.slot = [i \in SqIdx |-> [@[i] EXCEPT !.complete = @ \/ i \in Came(q, r)]]]
MovedCqes(q, sqs) ==
  SelectSeq(HwCqes(ucq), LAMBDA c : ~OfFlushedQp(q, c) /\ c.idx \in Range(InOrder(sqs[c.qp])))

----------------------------------------------------------------------------
(* Flush                                                                   *)

\* The locks chrd_flush_qp takes: a modify has the QP's lock through its
\* system call.
CanLock(q) == cqlock = "free" /\ uthread[q] # "in kernel"

\* The queue pair a scan is at.
ScanQp(p) == QpTable[poller[p].i]

\* chrd_flush_qp, all of it under the locks.
ChrdFlushQp(q) ==
  /\ CanLock(q)
  /\ IF uqp[q].flushed THEN UNCHANGED <<usq, uqp, ucq>>
     ELSE \E sqs \in {[r \in UserQPs |-> Completed(q, r)]} :
          \E moved \in {[r \in UserQPs |-> IF Came(q, r) = {} THEN usq[r]
                                          ELSE FlushCompleted(sqs[r])]} :
            /\ uqp' = [uqp EXCEPT ![q].flushed = TRUE, ![q].err = TRUE]
            /\ usq' = [moved EXCEPT ![q] = FlushSq(@)]
            /\ ucq' = [HwConsume(ucq, Unpolled(ucq)) EXCEPT
                 !.sw = @ \o MovedCqes(q, sqs) \o CqesFor(q, Unmoved(moved[q]), "flush")]

----------------------------------------------------------------------------
(* The thread of the queue pair                                            *)

ThreadAt(q, where) == uthread' = [uthread EXCEPT ![q] = where]
MayPost(q) == uthread[q] = "idle" /\ uqp[q].state # "RESET" /\ Len(posted[q]) < MaxWrs[q]
NewWr(q, sig) == posted' = [posted EXCEPT ![q] = Append(@, sig)]

\* iw_post_rc_send, query_rc_qp and a modify other than to RESET begin with
\* the flush of a QP in error.  They test the error before the locks, but
\* only this thread's reset takes it back.
FlushFirst(q) ==
  /\ uthread[q] = "idle" /\ uqp[q].err /\ ~uqp[q].flushed
  /\ ChrdFlushQp(q)
  /\ UNCHANGED <<uthread, poller, cqlock, urcConnVars, told>>

\* iw_post_rc_send of a flushed QP: complete_sq_drain_wr, whose CQE carries
\* the WR itself, ...
DrainWr(q) ==
  /\ MayPost(q) /\ uqp[q].flushed /\ cqlock = "free"
  /\ NewWr(q, TRUE)
  /\ ucq' = [ucq EXCEPT !.sw =
               Append(@, [qp |-> q, drain_cookie |-> Len(posted[q]) + 1, status |-> "flush"])]
  /\ UNCHANGED <<usq, uqp, uthread, uevent, poller, cqlock, given, carried, told, life>>

\* ... or it goes to the adapter.
PostToRing(q) ==
  /\ MayPost(q)
  /\ ~uqp[q].flushed /\ ~uqp[q].err
  /\ usq[q].in_use < SqSize - 1
  /\ \E sig \in BOOLEAN :
       LET wr == Len(posted[q]) + 1  i == usq[q].pidx IN
       /\ NewWr(q, sig)
       /\ usq' = [usq EXCEPT ![q] = [@ EXCEPT
            !.slot[i] = [EmptySlot EXCEPT !.wr_id = wr, !.signaled = sig],
            !.pidx = (i + 1) % SqSize, !.in_use = @ + 1]]
       /\ given' = [given EXCEPT ![q] = Append(@, [idx |-> i, wr |-> wr, signaled |-> sig])]
  /\ UNCHANGED <<uqp, uthread, uevent, ucq, poller, cqlock, carried, told, life>>

\* modify to ERROR by the application: the kernel sets the error byte, then
\* waits for the adapter; the QP's lock is held.
AskForError(q) ==
  /\ uthread[q] = "idle" /\ uqp[q].state = "RTS" /\ ~uqp[q].err
  /\ uqp' = [uqp EXCEPT ![q].err = TRUE, ![q].state = "FINI"]
  /\ ThreadAt(q, "in kernel")
  /\ UNCHANGED <<usq, ucq, poller, cqlock, urcConnVars, told>>

\* modify to RESET: the kernel clears its error byte, and gives the lock back
\* before ...
ModifyToReset(q) ==
  /\ uthread[q] = "idle" /\ uqp[q].state = "ERROR" /\ life[q] < MaxLives[q]
  /\ uqp' = [uqp EXCEPT ![q].err = FALSE, ![q].state = "RESET"]
  /\ ThreadAt(q, "clean")
  /\ UNCHANGED <<usq, ucq, poller, cqlock, urcConnVars, told>>

ResetQp_KeepsError(q) == \* mutant
  uqp' = [uqp EXCEPT ![q].flushed = FALSE]

\* reset_qp
ResetQp(q) == uqp' = [uqp EXCEPT ![q].flushed = FALSE, ![q].err = FALSE]

\* ... clean_and_reset_qp; the WRs and their completions are discarded.
CleanAndReset(q) ==
  /\ uthread[q] = "clean" /\ CanLock(q)
  /\ Overtaken \/ /\ ~uevent[q]
                  /\ \A p \in Pollers : poller[p].at = "flush" => ScanQp(p) # q
  /\ ucq' = CqClean(ucq, q)
  /\ usq' = [usq EXCEPT ![q] = EmptySq]
  /\ ResetQp(q)
  /\ posted' = [posted EXCEPT ![q] = <<>>]
  /\ carried' = [carried EXCEPT ![q] = {}]
  /\ told' = [told EXCEPT ![q] = <<>>]
  /\ ThreadAt(q, "idle")
  /\ UNCHANGED <<uevent, poller, cqlock, given, life>>

\* modify up to RTS: a new connection, in error or not.
Reconnect(q) ==
  /\ uthread[q] = "idle" /\ uqp[q].state = "RESET" /\ life[q] < MaxLives[q]
  /\ uqp[q].err => uqp[q].flushed
  /\ uqp' = [uqp EXCEPT ![q].state = "RTS"]
  /\ life' = [life EXCEPT ![q] = @ + 1]
  /\ UNCHANGED <<usq, uthread, uevent, ucq, poller, cqlock, given, posted, carried, told>>

----------------------------------------------------------------------------
(* Kernel and adapter                                                      *)

\* The kernel moves the QP to ERROR by itself: the error byte comes first ...
Break(q) ==
  /\ uqp[q].state = "RTS" /\ uthread[q] # "in kernel"
  /\ uqp' = [uqp EXCEPT ![q].err = TRUE, ![q].state = "FINI"]
  /\ UNCHANGED <<usq, uthread, ucq, poller, cqlock, urcConnVars, told>>

\* ... and when the adapter has ended the connection, flush_qp sets the error
\* byte of the CQ; an event may go with it.
KernelFlush(q) ==
  /\ uqp[q].state = "FINI"
  /\ uqp' = [uqp EXCEPT ![q].err = TRUE, ![q].state = "ERROR"]
  /\ given' = [given EXCEPT ![q] = <<>>]
  /\ ucq' = [ucq EXCEPT !.err = TRUE]
  /\ IF uthread[q] = "in kernel" THEN ThreadAt(q, "idle") /\ UNCHANGED uevent
     ELSE /\ uevent' \in {uevent, [uevent EXCEPT ![q] = TRUE]}
          /\ UNCHANGED uthread
  /\ UNCHANGED <<usq, poller, cqlock, posted, carried, told, life>>

\* chrd_async_event, on a thread of the application.
AsyncEvent(q) ==
  /\ uevent[q]
  /\ ChrdFlushQp(q)
  /\ uevent' = [uevent EXCEPT ![q] = FALSE]
  /\ UNCHANGED <<uthread, poller, cqlock, given, posted, carried, told, life>>

\* External: the adapter carries out the next WR; a signaled one is reported
\* in the completion ring.
CarryOut(q) ==
  /\ uqp[q].state \in {"RTS", "FINI"} /\ given[q] # <<>> /\ Unpolled(ucq) < CqSize
  /\ LET w == Head(given[q]) IN
     /\ given' = [given EXCEPT ![q] = Tail(@)]
     /\ carried' = [carried EXCEPT ![q] = @ \cup {w.wr}]
     /\ ucq' = IF ~w.signaled THEN ucq
               ELSE [ucq EXCEPT
                 !.queue[ucq.hwpidx] = [cqe |-> CqeOf(q, w.idx, "ok"), gen |-> ucq.hwgen],
                 !.hwpidx = (@ + 1) % CqSize,
                 !.hwgen = IF ucq.hwpidx = CqSize - 1 THEN 1 - @ ELSE @]
  /\ UNCHANGED <<usq, uqp, uthread, uevent, poller, cqlock, posted, told, life>>

----------------------------------------------------------------------------
(* Pollers                                                                 *)

PollerAt(p, where) == poller' = [poller EXCEPT ![p] = where]
CqEmpty == ucq.sw = <<>> /\ ~ValidAt(ucq, 0)

\* chrd_poll_cq: an error of the CQ asks for a scan.
CheckCq(p) ==
  /\ poller[p].at = "idle" /\ (ucq.err \/ ~CqEmpty)
  /\ ucq' = [ucq EXCEPT !.err = FALSE]
  /\ PollerAt(p, [at |-> IF ucq.err THEN "want scan" ELSE "poll"])
  /\ UNCHANGED <<usq, uqp, uthread, urcConnVars, cqlock, told>>

\* chrd_flush_qps, under the lock of the device: each QP is tested ...
ScanBegin(p) ==
  /\ poller[p].at = "want scan" /\ \A r \in Pollers : poller[r].at \notin {"scan", "flush"}
  /\ PollerAt(p, [at |-> "scan", i |-> 1])
  /\ UNCHANGED <<usq, uqp, uthread, urcConnVars, ucq, cqlock, told>>
ScanOn(p) ==
  PollerAt(p, IF poller[p].i = Len(QpTable) THEN [at |-> "poll"]
              ELSE [at |-> "scan", i |-> poller[p].i + 1])
ScanTest_ClearsCq(p) == \* mutant
  /\ poller[p].at = "scan"
  /\ IF ~uqp[ScanQp(p)].flushed /\ uqp[ScanQp(p)].err
     THEN PollerAt(p, [poller[p] EXCEPT !.at = "flush"])
     ELSE ScanOn(p)
  /\ ucq' = [ucq EXCEPT !.err = FALSE]
  /\ UNCHANGED <<usq, uqp, uthread, urcConnVars, cqlock, told>>
ScanTest(p) ==
  /\ poller[p].at = "scan"
  /\ IF ~uqp[ScanQp(p)].flushed /\ uqp[ScanQp(p)].err
     THEN PollerAt(p, [poller[p] EXCEPT !.at = "flush"])
     ELSE ScanOn(p)
  /\ UNCHANGED <<usq, uqp, uthread, urcConnVars, ucq, cqlock, told>>
\* ... and flushed, with no other test than that of flushed.
ScanFlush(p) ==
  /\ poller[p].at = "flush"
  /\ ChrdFlushQp(ScanQp(p))
  /\ ScanOn(p)
  /\ UNCHANGED <<uthread, urcConnVars, cqlock, told>>

SwFirst == ucq.sw # <<>>
CqeToPoll == IF SwFirst THEN Head(ucq.sw) ELSE ucq.queue[ucq.cidx].cqe
Consumed == IF SwFirst THEN [ucq EXCEPT !.sw = Tail(@)] ELSE HwConsume(ucq, 1)
Tell(q, wr, status) == told' = [told EXCEPT ![q] = Append(@, [wr |-> wr, status |-> status])]

\* The poll returns with what it has, or (-EAGAIN) keeps the CQ for the next.
PollReturns(p) == cqlock' = "free" /\ PollerAt(p, [at |-> "idle"])
PollAgain(p) == cqlock' = p /\ UNCHANGED poller

PollNothing(p) ==
  /\ poller[p].at = "poll" /\ cqlock \in {"free", p} /\ CqEmpty
  /\ PollReturns(p)
  /\ UNCHANGED <<usq, uqp, uthread, urcConnVars, ucq, told>>

\* poll_roce_cq and poll_iw_cq begin with a CQE of a QP that can be locked.
PollOne(p) ==
  /\ poller[p].at = "poll" /\ cqlock \in {"free", p} /\ ~CqEmpty
  /\ uthread[CqeToPoll.qp] # "in kernel"
IsDrain(c) == "drain_cookie" \in DOMAIN c

\* "skip hw cqe's if the wq is flushed": poll_roce_cq only.
Stale(c) == ~Iwarp /\ uqp[c.qp].flushed /\ ~SwFirst
PollStale(p) ==
  /\ PollOne(p) /\ Stale(CqeToPoll)
  /\ ucq' = Consumed
  /\ PollAgain(p)
  /\ UNCHANGED <<usq, uqp, uthread, urcConnVars, told>>

PollDrainCqe(p) ==
  /\ PollOne(p) /\ IsDrain(CqeToPoll)
  /\ Tell(CqeToPoll.qp, CqeToPoll.drain_cookie, CqeToPoll.status)
  /\ ucq' = Consumed
  /\ PollReturns(p)
  /\ UNCHANGED <<usq, uqp, uthread, urcConnVars>>

\* A bad status puts the QP in error (again).
InError(c) == c.status # "ok" \/ uqp[c.qp].err
NoteError(c) == uqp' = [uqp EXCEPT ![c.qp].err = @ \/ InError(c)]
\* poll_iw_cq reports whatever comes in error as it comes.
AsItComes(c) == Iwarp /\ InError(c)
Unsignaled(c) == ~usq[c.qp].slot[c.idx].signaled /\ ~Iwarp
OutOfOrder(c) == ~SwFirst /\ c.idx # usq[c.qp].cidx /\ ~AsItComes(c)

PollUnsignaled(p) ==
  /\ PollOne(p) /\ ~Stale(CqeToPoll) /\ ~IsDrain(CqeToPoll) /\ Unsignaled(CqeToPoll)
  /\ NoteError(CqeToPoll)
  /\ ucq' = Consumed
  /\ PollAgain(p)
  /\ UNCHANGED <<usq, uthread, urcConnVars, told>>

\* A completion ahead of unsignaled WRs goes through the send ring.
PollAhead(p) ==
  /\ PollOne(p) /\ ~Stale(CqeToPoll) /\ ~IsDrain(CqeToPoll)
  /\ ~Unsignaled(CqeToPoll) /\ OutOfOrder(CqeToPoll)
  /\ \E q \in {CqeToPoll.qp} : \E sq \in {SetComplete(usq[q], CqeToPoll.idx)} :
        /\ usq' = [usq EXCEPT ![q] = FlushCompleted(sq)]
        /\ ucq' = [Consumed EXCEPT !.sw = @ \o CqesFor(q, InOrder(sq), "ok")]
  /\ NoteError(CqeToPoll)
  /\ PollAgain(p)
  /\ UNCHANGED <<uthread, urcConnVars, told>>

\* proc_cqe: the WR and the unsignaled ones before it are freed.
Reap(sq, i) ==
  [sq EXCEPT !.in_use = @ - (IF i < sq.cidx THEN SqSize + i - sq.cidx ELSE i - sq.cidx) - 1,
             !.flush_cidx = IF i = @ THEN -1 ELSE @,
             !.cidx = (i + 1) % SqSize]
PollReported(p) ==
  /\ PollOne(p) /\ ~Stale(CqeToPoll) /\ ~IsDrain(CqeToPoll)
  /\ ~Unsignaled(CqeToPoll) /\ ~OutOfOrder(CqeToPoll)
  /\ \E q \in {CqeToPoll.qp} : \E sq \in {Reap(usq[q], CqeToPoll.idx)} :
        /\ Tell(q, usq[q].slot[CqeToPoll.idx].wr_id, CqeToPoll.status)
        /\ usq' = [usq EXCEPT ![q] = FlushCompleted(sq)]
        /\ ucq' = [Consumed EXCEPT !.sw = @ \o CqesFor(q, InOrder(sq), "ok")]
  /\ NoteError(CqeToPoll)
  /\ PollReturns(p)
  /\ UNCHANGED <<uthread, urcConnVars>>

----------------------------------------------------------------------------
PollStep(p) ==
  \/ CheckCq(p) \/ ScanBegin(p) \/ ScanTest(p) \/ ScanFlush(p)
  \/ PollNothing(p) \/ PollStale(p) \/ PollDrainCqe(p) \/ PollUnsignaled(p)
  \/ PollAhead(p) \/ PollReported(p)

UrcNext ==
  \/ \E q \in UserQPs :
       \/ FlushFirst(q) \/ DrainWr(q) \/ PostToRing(q)
       \/ AskForError(q) \/ ModifyToReset(q) \/ CleanAndReset(q) \/ Reconnect(q)
       \/ Break(q) \/ KernelFlush(q) \/ AsyncEvent(q) \/ CarryOut(q)
  \/ \E p \in Pollers : PollStep(p)

\* Pollers poll for ever, and the adapter ends a connection when
\* the kernel asks.
UrcFairness ==
  /\ \A p \in Pollers : WF_urcVars(PollStep(p))
  /\ \A q \in UserQPs : WF_urcVars(KernelFlush(q))
UrcSpec == UrcInit /\ [][UrcNext]_urcVars /\ UrcFairness

----------------------------------------------------------------------------
(* Properties                                                              *)

\* in_use is what lies between the indices.
CountsAgree(q) == usq[q].in_use = (usq[q].pidx - usq[q].cidx) % SqSize

\* The WRs of a connection are reported once, in the order they were posted,
\* and none that asked for it is left out.
ToldInOrder(q) ==
  /\ \A k \in DOMAIN told[q] :
       /\ told[q][k].wr \in DOMAIN posted[q]
       /\ k > 1 => told[q][k - 1].wr < told[q][k].wr
       /\ \A w \in 1..(told[q][k].wr - 1) :
            posted[q][w] => \E j \in 1..(k - 1) : told[q][j].wr = w

\* A WR is reported as done only if the adapter did it, and as flushed only if
\* its connection broke.
ToldTruly(q) ==
  \A k \in DOMAIN told[q] :
    IF told[q][k].status = "ok" THEN told[q][k].wr \in carried[q]
    ELSE uqp[q].state # "RTS"

\* What the library sees of the completion ring ends where the adapter
\* writes next.
RingInStep ==
  LET next == HwConsume(ucq, Unpolled(ucq)) IN next.cidx = ucq.hwpidx /\ next.gen = ucq.hwgen

\* The send rings and the shared completion queue of a process (chrd_poll_cq,
\* chrd_flush_qp, chrd_cq_clean) give each WR one completion, of its own
\* connection, in order and true, whoever flushes, polls or resets when.
UserSound == RingInStep /\ \A q \in UserQPs : CountsAgree(q) /\ ToldInOrder(q) /\ ToldTruly(q)

\* When the kernel has put a queue pair in error, every WR posted to it that
\* asked for a completion gets one, unless the application resets it first:
\* no error byte that the kernel sets is lost between a poll that clears the
\* CQ's (cq.c:1538) and the scan that follows.
UserTold ==
  \A q \in UserQPs :
    uqp[q].state = "ERROR" ~>
      \/ uqp[q].state # "ERROR"
      \/ \A w \in DOMAIN posted[q] : posted[q][w] => \E k \in DOMAIN told[q] : told[q][k].wr = w
=============================================================================
