-------------------------- MODULE SharedRecvQueue --------------------------
(***************************************************************************)
(* The shared receive queue of kernel queue pairs (iw_cxgb4: t4_srq of     *)
(* t4.h, reap_srq_cqe and post_pending_srq_wrs of cq.c, c4iw_post_srq_recv *)
(* of qp.c).                                                               *)
(*                                                                         *)
(* The adapter fetches receives in ring order, but the connections that    *)
(* got them complete them in any order.  A completion that is not the      *)
(* oldest leaves a hole in the ring: its slot is counted in ooo_count, no  *)
(* longer in in_use, and is passed when the oldest completes.  While there *)
(* is a hole new receives are deferred to a second ring, and they go to    *)
(* the adapter when the last hole is gone.  So in_use may admit receives   *)
(* for which the first ring has no slot yet.                               *)
(*                                                                         *)
(* srq->lock serialises posters and the pollers of every CQ; the two loops *)
(* a poller runs under it take one step an iteration (pc).                 *)
(***************************************************************************)
EXTENDS Integers, Sequences, FiniteSets

CONSTANTS
    Size,     \* slots of each of the two rings; one stays empty
    Conns,    \* connections whose QPs use the queue
    NoConn,   \* no connection
    Limits,   \* values the consumer gives srq_limit
    MaxWr     \* bound: receives posted

ASSUME SrqAssumption ==
    /\ Size \in Nat \ {0, 1}
    /\ NoConn \notin Conns
    /\ Limits \subseteq Nat
    /\ MaxWr \in Nat

VARIABLES
    \* struct t4_srq
    valid, wr_id,          \* sw_rq, per slot
    cidx, pidx, in_use, ooo_count,
    pending_wr, pending_cidx, pending_pidx, pending_in_use,
    \* struct c4iw_srq
    armed, srq_limit,
    arming,    \* the limit modify_srq has still to store after it armed
    pc,        \* "free": nobody holds srq->lock; "eat", "post": the loops
    polled,    \* the receive the poller who holds it is reporting
    \* the connections and the adapter
    known,     \* the QPs in the device's table
    place,     \* where a slot is: with the driver, "written" but not rung,
               \* "rung", "held" by a connection, or in a "cqe"
    holder,    \* the connection that holds it or whose CQE it is
    fetch,     \* the slot the adapter fetches next
    hw_wr,     \* ghost: the receive written to the slot
    \* ghosts of the consumer
    next_wr,   \* the next receive it posts
    reported,  \* what was reported to it: [wr, hw]
    watching,  \* it armed a limit that in_use had not fallen below
    warned     \* and has seen the event since

srqVars   == <<valid, wr_id, cidx, pidx, in_use, ooo_count>>
pendVars  == <<pending_wr, pending_cidx, pending_pidx, pending_in_use>>
limitVars == <<armed, srq_limit, arming, watching, warned>>
hwVars    == <<place, holder, fetch, hw_wr>>
vars == <<srqVars, pendVars, limitVars, pc, polled, known, hwVars, next_wr, reported>>

-----------------------------------------------------------------------------
Slots == 0..(Size - 1)
Next1_NoWrap(i) == IF i + 1 > Size THEN 0 ELSE i + 1     \* mutant
Next1(i) == IF i + 1 = Size THEN 0 ELSE i + 1

(* Steps from slot a forward to slot b. *)
Dist(a, b) == IF b >= a THEN b - a ELSE b - a + Size

Avail_OfRing == Size - 1 - (in_use - pending_in_use)     \* mutant
Avail == Size - 1 - in_use

Nothing == [wr |-> 0, hw |-> 0]

Init ==
    /\ valid = [s \in Slots |-> FALSE]
    /\ wr_id = [s \in Slots |-> 0]
    /\ cidx = 0 /\ pidx = 0 /\ in_use = 0 /\ ooo_count = 0
    /\ pending_wr = [s \in Slots |-> 0]
    /\ pending_cidx = 0 /\ pending_pidx = 0 /\ pending_in_use = 0
    /\ armed = FALSE /\ srq_limit = 0 /\ arming = {}
    /\ watching = FALSE /\ warned = FALSE
    /\ pc = "free" /\ polled = Nothing
    /\ known = Conns
    /\ place = [s \in Slots |-> "driver"]
    /\ holder = [s \in Slots |-> NoConn]
    /\ fetch = 0
    /\ hw_wr = [s \in Slots |-> 0]
    /\ next_wr = 1
    /\ reported = <<>>

-----------------------------------------------------------------------------
(* Posting: one WR of c4iw_post_srq_recv's chain.  A full queue (-ENOMEM)  *)
(* changes nothing.                                                        *)

MustDefer_Pending == pending_in_use > 0                  \* mutant
MustDefer_Slot == valid[pidx]                            \* mutant
MustDefer == ooo_count > 0 \/ pending_in_use > 0 \/ valid[pidx]

PostSrqRecv ==
    /\ pc = "free" /\ next_wr <= MaxWr
    /\ Avail > 0 /\ ~MustDefer
    /\ wr_id' = [wr_id EXCEPT ![pidx] = next_wr]
    /\ valid' = [valid EXCEPT ![pidx] = TRUE]
    /\ place' = [place EXCEPT ![pidx] = "rung"]
    /\ hw_wr' = [hw_wr EXCEPT ![pidx] = next_wr]
    /\ in_use' = in_use + 1
    /\ pidx' = Next1(pidx)
    /\ next_wr' = next_wr + 1
    /\ UNCHANGED <<cidx, ooo_count, pendVars, limitVars, pc, polled, known,
                   holder, fetch, reported>>

DeferSrqWr ==
    /\ pc = "free" /\ next_wr <= MaxWr
    /\ Avail > 0 /\ MustDefer
    /\ pending_wr' = [pending_wr EXCEPT ![pending_pidx] = next_wr]
    /\ pending_in_use' = pending_in_use + 1
    /\ in_use' = in_use + 1
    /\ pending_pidx' = Next1(pending_pidx)
    /\ next_wr' = next_wr + 1
    /\ UNCHANGED <<valid, wr_id, cidx, pidx, ooo_count, pending_cidx, limitVars,
                   pc, polled, known, hwVars, reported>>

-----------------------------------------------------------------------------
(* Polling a receive completion: reap_srq_cqe in c4iw_poll_cq_one.         *)

(* The end of c4iw_poll_cq_one: the limit event, and the locks go.         *)
BelowLimit_Stale(n) == armed /\ n + 1 < srq_limit        \* mutant
BelowLimit(n) == armed /\ n < srq_limit
Return(r, n) ==
    /\ pc' = "free" /\ polled' = Nothing
    /\ reported' = Append(reported, r)
    /\ warned' = (warned \/ BelowLimit(n))
    /\ UNCHANGED <<armed, srq_limit, arming, watching>>

(* The WR to report is read before its slot can be used again.             *)
Cookie(s) == [wr |-> wr_id[s], hw |-> hw_wr[s]]

Invalidate(s) ==
    /\ place[s] = "cqe" /\ holder[s] \in known
    /\ valid' = [valid EXCEPT ![s] = FALSE]
    /\ place' = [place EXCEPT ![s] = "driver"]
    /\ holder' = [holder EXCEPT ![s] = NoConn]

(* In order: the slot is consumed, the loops follow. *)
ReapInOrder(s) ==
    /\ pc = "free" /\ s = cidx
    /\ Invalidate(s)
    /\ in_use' = in_use - 1
    /\ cidx' = Next1(cidx)
    /\ polled' = Cookie(s)
    /\ pc' = "eat"
    /\ UNCHANGED <<wr_id, pidx, ooo_count, pendVars, limitVars, known, fetch,
                   hw_wr, next_wr, reported>>

ReapOutOfOrder(s) ==
    /\ pc = "free" /\ s # cidx
    /\ Invalidate(s)
    /\ in_use' = in_use - 1
    /\ ooo_count' = ooo_count + 1
    /\ Return(Cookie(s), in_use')
    /\ UNCHANGED <<wr_id, cidx, pidx, pendVars, known, fetch, hw_wr, next_wr>>

Hole == ooo_count > 0 /\ ~valid[cidx]

EatOoo ==
    /\ pc = "eat" /\ Hole
    /\ cidx' = Next1(cidx)
    /\ ooo_count' = ooo_count - 1
    /\ UNCHANGED <<valid, wr_id, pidx, in_use, pendVars, limitVars, pc, polled,
                   known, hwVars, next_wr, reported>>

DeferredMayGo_EmptyRing == cidx = pidx /\ pending_in_use > 0 \* mutant
DeferredMayGo == ooo_count = 0 /\ pending_in_use > 0

EndEat ==
    /\ pc = "eat" /\ ~Hole
    /\ IF DeferredMayGo
       THEN pc' = "post" /\ UNCHANGED <<limitVars, polled, reported>>
       ELSE Return(polled, in_use)
    /\ UNCHANGED <<srqVars, pendVars, known, hwVars, next_wr>>

(* post_pending_srq_wrs: the doorbell is rung after the last.              *)
PostPendingWr ==
    /\ pc = "post" /\ pending_in_use > 0
    /\ wr_id' = [wr_id EXCEPT ![pidx] = pending_wr[pending_cidx]]
    /\ valid' = [valid EXCEPT ![pidx] = TRUE]
    /\ place' = [place EXCEPT ![pidx] = "written"]
    /\ hw_wr' = [hw_wr EXCEPT ![pidx] = pending_wr[pending_cidx]]
    /\ pending_in_use' = pending_in_use - 1
    /\ pending_cidx' = Next1(pending_cidx)
    /\ pidx' = Next1(pidx)
    /\ UNCHANGED <<cidx, in_use, ooo_count, pending_wr, pending_pidx, limitVars,
                   pc, polled, known, holder, fetch, next_wr, reported>>

EndPost ==
    /\ pc = "post" /\ pending_in_use = 0
    /\ place' = [s \in Slots |-> IF place[s] = "written" THEN "rung" ELSE place[s]]
    /\ Return(polled, in_use)
    /\ UNCHANGED <<srqVars, pendVars, known, holder, fetch, hw_wr, next_wr>>

(* Any other completion polled for a QP of the queue. *)
PollOther ==
    /\ pc = "free" /\ known # {}
    /\ BelowLimit(in_use) /\ warned' = TRUE
    /\ UNCHANGED <<srqVars, pendVars, armed, srq_limit, arming, watching, pc,
                   polled, known, hwVars, next_wr, reported>>

(* A completion whose QP is gone is skipped: its slot is never reaped. *)
PollSkip(s) ==
    /\ pc = "free" /\ place[s] = "cqe" /\ holder[s] \notin known
    /\ place' = [place EXCEPT ![s] = "lost"]
    /\ UNCHANGED <<srqVars, pendVars, limitVars, pc, polled, known, holder, fetch,
                   hw_wr, next_wr, reported>>

-----------------------------------------------------------------------------
(* modify_srq takes no lock: the queue is armed with its old limit first.  *)

ArmSrq(n) ==
    /\ arming = {}
    /\ armed' = TRUE
    /\ arming' = {n}
    /\ UNCHANGED <<srqVars, pendVars, srq_limit, watching, warned, pc, polled, known,
                   hwVars, next_wr, reported>>

SetSrqLimit ==
    /\ arming # {}
    /\ srq_limit' = CHOOSE n \in arming : TRUE
    /\ arming' = {}
    /\ watching' = (in_use >= srq_limit')
    /\ warned' = FALSE
    /\ UNCHANGED <<srqVars, pendVars, armed, pc, polled, known, hwVars, next_wr, reported>>

-----------------------------------------------------------------------------
(* The adapter and the connections. *)

Idle(c) == \A s \in Slots : ~(place[s] = "held" /\ holder[s] = c)

HwFetch(c) ==
    /\ c \in known /\ Idle(c) /\ place[fetch] = "rung"
    /\ place' = [place EXCEPT ![fetch] = "held"]
    /\ holder' = [holder EXCEPT ![fetch] = c]
    /\ fetch' = Next1(fetch)
    /\ UNCHANGED <<srqVars, pendVars, limitVars, pc, polled, known, hw_wr, next_wr, reported>>

(* A message arrives, or the connection ends: the CQE is the adapter's, or *)
(* the one c4iw_flush_srqidx makes for the receive the connection cached.  *)
Complete(s) ==
    /\ place[s] = "held"
    /\ place' = [place EXCEPT ![s] = "cqe"]
    /\ UNCHANGED <<srqVars, pendVars, limitVars, pc, polled, known, holder, fetch,
                   hw_wr, next_wr, reported>>

(* A QP is destroyed when its connection is over. *)
DestroyQp(c) ==
    /\ c \in known /\ Idle(c)
    /\ known' = known \ {c}
    /\ UNCHANGED <<srqVars, pendVars, limitVars, pc, polled, hwVars, next_wr, reported>>

-----------------------------------------------------------------------------
Post == PostSrqRecv \/ DeferSrqWr
Poll == \/ \E s \in Slots : ReapInOrder(s) \/ ReapOutOfOrder(s) \/ PollSkip(s)
        \/ EatOoo \/ EndEat \/ PostPendingWr \/ EndPost
        \/ PollOther
ModifySrq == (\E n \in Limits : ArmSrq(n)) \/ SetSrqLimit
Adapter == \/ \E c \in Conns : HwFetch(c) \/ DestroyQp(c)
           \/ \E s \in Slots : Complete(s)

Next == Post \/ Poll \/ ModifySrq \/ Adapter
Spec == Init /\ [][Next]_vars

-----------------------------------------------------------------------------
(* Properties.                                                             *)

RingTypeOK ==
    /\ valid \in [Slots -> BOOLEAN]
    /\ wr_id \in [Slots -> Nat]
    /\ cidx \in Slots /\ pidx \in Slots
    /\ in_use \in Int /\ ooo_count \in Int
PendingTypeOK ==
    /\ pending_wr \in [Slots -> Nat]
    /\ pending_cidx \in Slots /\ pending_pidx \in Slots
    /\ pending_in_use \in Int
LimitTypeOK ==
    /\ armed \in BOOLEAN /\ srq_limit \in Limits \cup {0}
    /\ arming = {} \/ \E n \in Limits : arming = {n}
    /\ watching \in BOOLEAN /\ warned \in BOOLEAN
HwTypeOK ==
    /\ place \in [Slots -> {"driver", "written", "rung", "held", "cqe", "lost"}]
    /\ holder \in [Slots -> Conns \cup {NoConn}]
    /\ fetch \in Slots
    /\ hw_wr \in [Slots -> Nat]
PollerTypeOK ==
    /\ pc \in {"free", "eat", "post"}
    /\ polled \in [wr : Nat, hw : Nat]
    /\ known \subseteq Conns
    /\ next_wr \in Nat
    /\ reported \in Seq([wr : Nat, hw : Nat])

(* Every variable has its type; indices stay inside their rings.           *)
TypeOK == RingTypeOK /\ PendingTypeOK /\ LimitTypeOK /\ HwTypeOK /\ PollerTypeOK

InRing(s) == Dist(cidx, s) < Dist(cidx, pidx)
Valid == {s \in Slots : valid[s]}
Holes == {s \in Slots : InRing(s) /\ ~valid[s]}

(* The counters agree with the ring, whatever order receives completed in: *)
(* every slot the adapter may still use lies between cidx and pidx, in_use *)
(* counts those slots and the deferred WRs, ooo_count the others between   *)
(* cidx and pidx, and in_use never exceeds what post admits.               *)
CountsAgree ==
    /\ \A s \in Slots : valid[s] => InRing(s)
    /\ in_use - pending_in_use = Cardinality(Valid)
    /\ ooo_count = Cardinality(Holes)
    /\ Dist(cidx, pidx) = in_use - pending_in_use + ooo_count
    /\ in_use <= Size - 1
    /\ pending_in_use >= 0
    /\ pending_in_use = Dist(pending_cidx, pending_pidx)

(* No deferred WR is forgotten: when nobody holds the lock, deferred WRs   *)
(* wait for a hole, and holes wait for a receive that is not completed.    *)
DeferredWaitForHole ==
    pc = "free" => /\ pending_in_use > 0 => ooo_count > 0
                   /\ ooo_count > 0 => valid[cidx]

(* A slot is not written while the adapter or a CQE still refers to it,    *)
(* and what is reported is what the adapter completed.                     *)
NoSlotReused ==
    [][/\ \A s \in Slots : valid[s] /\ valid'[s] => wr_id'[s] = wr_id[s]
       /\ \A i \in 1..Len(reported') : reported'[i].wr = reported'[i].hw]_vars

(* A consumer that armed a limit in_use had not fallen below is told when  *)
(* it does, though modify_srq takes no lock.                               *)
LimitWarns ==
    pc = "free" /\ watching /\ arming = {} /\ in_use < srq_limit => warned

(* Receives reach the adapter in posting order and are reported once:      *)
(* SharedRecvQueue implements PostedReceives.                              *)
Promise == INSTANCE PostedReceives WITH
    WrIds <- 1..MaxWr,
    posted <- [k \in 1..Dist(pending_cidx, pending_pidx) |->
                 LET i == pending_cidx + k - 1
                 IN  pending_wr[IF i >= Size THEN i - Size ELSE i]],
    out <- {wr_id[s] : s \in Valid} \cup (IF pc = "free" THEN {} ELSE {polled.wr}),
    reported <- [i \in 1..Len(reported) |-> reported[i].wr]
KeepsPromise == Promise!Spec
=============================================================================
