--------------------------- MODULE EndpointProofs ---------------------------
(***************************************************************************)
(* Theorems about Endpoint: its types, and that it keeps the contract of   *)
(* CmEvents, for every value of the constants and every fault.             *)
(*                                                                         *)
(* The order of the events is not inductive: a handler looks at ep->state  *)
(* and at cm_id, and not at what the consumer was told.  The invariant     *)
(* (IInv below) says why the state tells enough: which handlers only one   *)
(* side runs (SideInv), who holds the mutex while it waits for the QP      *)
(* (LockInv), that a connection is opened by one message (OnceInv), that   *)
(* a connect nobody has answered is in the hands of the opening or of the  *)
(* reply being handled (ActiveInv), that nothing is under way for a        *)
(* request the ULP has not accepted (PassiveInv), and that after the       *)
(* DISCONNECT the state never goes back (CloseInv).                        *)
(*                                                                         *)
(* The proof of a step has three layers: what a helper leaves alone (Same, *)
(* Steady, Silent), to which of a few kinds of step an action belongs      *)
(* (HandlerStep, QpMoves, Quiet, ...), and that each kind of step keeps    *)
(* the invariant and is a step of CmEvents (CmStep).                       *)
(***************************************************************************)
EXTENDS Endpoint, SequenceTheorems, TLAPS

-----------------------------------------------------------------------------
(* The values of the variables. *)

Rets  == {"ok", "err", "reset"}
Harms == {"null_cm_id", "foreign_tid", "parent_put_twice"}

EpRecords ==
  [side : Sides, state : States, flags : SUBSET EpFlags, kref : Int,
   cm_id : BOOLEAN, qp : BOOLEAN, mpa_skb : BOOLEAN, timer : BOOLEAN, listed : BOOLEAN,
   hwtid : {"none", "own", "stale", "erased"}, parent : BOOLEAN,
   retry_v1 : BOOLEAN, tried_v1 : BOOLEAN, retries : 0..ActOpenRetries, pdu_out : 0..1,
   wr_done : Nat, wr_ret : Rets,
   base : BOOLEAN, ulp : BOOLEAN, tcbs : Int, intr : Int, hold : BOOLEAN,
   told : Events, harm : SUBSET Harms]

QpRecords == [state : QpStates, ep : BOOLEAN,
              user : {"open", "moved", "destroying", "destroyed"}]

Cpls == [op : Untid \cup {"none", "PASS_ESTABLISH", "RX_DATA", "PEER_CLOSE", "CLOSE_CON_RPL",
                          "ABORT_REQ", "ABORT_RPL", "FW4_ACK", "GET_TCB_RPL", "RDMA_TERMINATE"},
         arg : {"none", "ok", "bad", "reject", "mismatch", "exist", "fail",
                "reset", "other", "neg", "out"}]

Thens == {"none", "mpa_reply", "mismatch", "rx_data", "peer_close", "closed", "terminate",
          "peer_abort", "tcb", "timeout", "disc_failed", "accept", "user"}

ThrRecords ==
  [at : Steps, cpl : Cpls, to : QpStates, then : Thens, internal : BOOLEAN, ret : Rets,
   disc : 0..2, rel : BOOLEAN, held : Nat]

HwRecords ==
  [conn : {"opening", "open", "closed", "reset", "lost"}, fin : BOOLEAN, close_req : BOOLEAN,
   close_rpl : BOOLEAN, abort_req : BOOLEAN, ack : BOOLEAN, tcb : Int, fw : Int, data : Int,
   rdma : BOOLEAN, term : BOOLEAN, neg : BOOLEAN]

(* A thread that waits for the QP, or goes on after it. *)
Busy(t)     == thr[t].at \in {"modify", "fw", "after"}
In(t, then) == Busy(t) /\ thr[t].then = then

-----------------------------------------------------------------------------
(* What the helpers leave alone. *)

Peers(e) == "PEER_ABORT_IN_PROGRESS" \in e.flags

Steady(e, f) ==
  /\ f.side = e.side /\ f.hwtid = e.hwtid
  /\ (f.qp <=> e.qp) /\ (f.ulp <=> e.ulp)
  /\ (f.retry_v1 <=> e.retry_v1) /\ (Peers(f) <=> Peers(e))
Silent(e, f) == f.told = e.told /\ (f.cm_id <=> e.cm_id)
Same(e, f)   == Steady(e, f) /\ Silent(e, f) /\ f.state = e.state

LEMMA GetSame ==
  ASSUME NEW e \in EpRecords
  PROVE  Get(e) \in EpRecords /\ Same(e, Get(e))
  BY DEF EpRecords, Same, Steady, Silent, Peers, Get

LEMMA PutSame ==
  ASSUME NEW e \in EpRecords
  PROVE  Put(e) \in EpRecords /\ Same(e, Put(e))
  BY DEF EpRecords, Same, Steady, Silent, Peers, Put

LEMMA DropSame ==
  ASSUME NEW e \in EpRecords, NEW n \in Int
  PROVE  Drop(e, n) \in EpRecords /\ Same(e, Drop(e, n))
  BY DEF EpRecords, Same, Steady, Silent, Peers, Drop

LEMMA SetFlagSame ==
  ASSUME NEW e \in EpRecords, NEW f \in EpFlags \ {"PEER_ABORT_IN_PROGRESS"}
  PROVE  SetFlag(e, f) \in EpRecords /\ Same(e, SetFlag(e, f))
  BY DEF EpRecords, Same, Steady, Silent, Peers, SetFlag

LEMMA ClearFlagSame ==
  ASSUME NEW e \in EpRecords, NEW f \in EpFlags \ {"PEER_ABORT_IN_PROGRESS"}
  PROVE  ClearFlag(e, f) \in EpRecords /\ Same(e, ClearFlag(e, f))
  BY DEF EpRecords, Same, Steady, Silent, Peers, ClearFlag

LEMMA PeerFlag ==
  ASSUME NEW e \in EpRecords
  PROVE  LET f == SetFlag(e, "PEER_ABORT_IN_PROGRESS") IN
         /\ f \in EpRecords /\ Peers(f) /\ Silent(e, f) /\ f.state = e.state
         /\ f.side = e.side /\ f.hwtid = e.hwtid
         /\ (f.qp <=> e.qp) /\ (f.ulp <=> e.ulp) /\ (f.retry_v1 <=> e.retry_v1)
  BY DEF EpRecords, EpFlags, SetFlag, Silent, Peers

(* One field changed, by name. *)
With_timer(e, v) == [e EXCEPT !.timer = v]
With_listed(e, v) == [e EXCEPT !.listed = v]
With_mpa_skb(e, v) == [e EXCEPT !.mpa_skb = v]
With_base(e, v) == [e EXCEPT !.base = v]
With_hold(e, v) == [e EXCEPT !.hold = v]
With_parent(e, v) == [e EXCEPT !.parent = v]
With_tried_v1(e, v) == [e EXCEPT !.tried_v1 = v]
With_tcbs(e, v) == [e EXCEPT !.tcbs = v]
With_intr(e, v) == [e EXCEPT !.intr = v]
With_pdu_out(e, v) == [e EXCEPT !.pdu_out = v]
With_retries(e, v) == [e EXCEPT !.retries = v]
With_wr_done(e, v) == [e EXCEPT !.wr_done = v]
With_wr_ret(e, v) == [e EXCEPT !.wr_ret = v]
With_harm(e, v) == [e EXCEPT !.harm = v]
With_hwtid(e, v) == [e EXCEPT !.hwtid = v]

LEMMA TimerFlagSame ==
  ASSUME NEW e \in EpRecords, NEW v \in BOOLEAN
  PROVE  With_timer(e, v) \in EpRecords /\ Same(e, With_timer(e, v))
  BY DEF EpRecords, Same, Steady, Silent, Peers, With_timer

LEMMA ListedSame ==
  ASSUME NEW e \in EpRecords, NEW v \in BOOLEAN
  PROVE  With_listed(e, v) \in EpRecords /\ Same(e, With_listed(e, v))
  BY DEF EpRecords, Same, Steady, Silent, Peers, With_listed

LEMMA MpaSkbSame ==
  ASSUME NEW e \in EpRecords, NEW v \in BOOLEAN
  PROVE  With_mpa_skb(e, v) \in EpRecords /\ Same(e, With_mpa_skb(e, v))
  BY DEF EpRecords, Same, Steady, Silent, Peers, With_mpa_skb

LEMMA BaseSame ==
  ASSUME NEW e \in EpRecords, NEW v \in BOOLEAN
  PROVE  With_base(e, v) \in EpRecords /\ Same(e, With_base(e, v))
  BY DEF EpRecords, Same, Steady, Silent, Peers, With_base

LEMMA HoldSame ==
  ASSUME NEW e \in EpRecords, NEW v \in BOOLEAN
  PROVE  With_hold(e, v) \in EpRecords /\ Same(e, With_hold(e, v))
  BY DEF EpRecords, Same, Steady, Silent, Peers, With_hold

LEMMA ParentFlagSame ==
  ASSUME NEW e \in EpRecords, NEW v \in BOOLEAN
  PROVE  With_parent(e, v) \in EpRecords /\ Same(e, With_parent(e, v))
  BY DEF EpRecords, Same, Steady, Silent, Peers, With_parent

LEMMA TriedSame ==
  ASSUME NEW e \in EpRecords, NEW v \in BOOLEAN
  PROVE  With_tried_v1(e, v) \in EpRecords /\ Same(e, With_tried_v1(e, v))
  BY DEF EpRecords, Same, Steady, Silent, Peers, With_tried_v1

LEMMA TcbsSame ==
  ASSUME NEW e \in EpRecords, NEW v \in Int
  PROVE  With_tcbs(e, v) \in EpRecords /\ Same(e, With_tcbs(e, v))
  BY DEF EpRecords, Same, Steady, Silent, Peers, With_tcbs

LEMMA IntrSame ==
  ASSUME NEW e \in EpRecords, NEW v \in Int
  PROVE  With_intr(e, v) \in EpRecords /\ Same(e, With_intr(e, v))
  BY DEF EpRecords, Same, Steady, Silent, Peers, With_intr

LEMMA PduOutSame ==
  ASSUME NEW e \in EpRecords, NEW v \in 0..1
  PROVE  With_pdu_out(e, v) \in EpRecords /\ Same(e, With_pdu_out(e, v))
  BY DEF EpRecords, Same, Steady, Silent, Peers, With_pdu_out

LEMMA RetriesSame ==
  ASSUME NEW e \in EpRecords, NEW v \in 0..ActOpenRetries
  PROVE  With_retries(e, v) \in EpRecords /\ Same(e, With_retries(e, v))
  BY DEF EpRecords, Same, Steady, Silent, Peers, With_retries

LEMMA WrDoneSame ==
  ASSUME NEW e \in EpRecords, NEW v \in Nat
  PROVE  With_wr_done(e, v) \in EpRecords /\ Same(e, With_wr_done(e, v))
  BY DEF EpRecords, Same, Steady, Silent, Peers, With_wr_done

LEMMA WrRetSame ==
  ASSUME NEW e \in EpRecords, NEW v \in Rets
  PROVE  With_wr_ret(e, v) \in EpRecords /\ Same(e, With_wr_ret(e, v))
  BY DEF EpRecords, Same, Steady, Silent, Peers, With_wr_ret

LEMMA HarmSame ==
  ASSUME NEW e \in EpRecords, NEW v \in SUBSET Harms
  PROVE  With_harm(e, v) \in EpRecords /\ Same(e, With_harm(e, v))
  BY DEF EpRecords, Same, Steady, Silent, Peers, With_harm

LEMMA StartTimerSame ==
  ASSUME NEW e \in EpRecords
  PROVE  StartTimer(e) \in EpRecords /\ Same(e, StartTimer(e))
  <1> DEFINE a == ClearFlag(e, "TIMEOUT")
             b == Get(a)
  <1>1. a \in EpRecords /\ Same(e, a)
    BY ClearFlagSame DEF EpFlags
  <1>2. b \in EpRecords /\ Same(a, b)
    BY <1>1, GetSame
  <1>3. With_timer(b, TRUE) \in EpRecords /\ Same(b, With_timer(b, TRUE))
    BY <1>2, TimerFlagSame
  <1>4. StartTimer(e) = IF e.timer THEN e ELSE With_timer(b, TRUE)
    BY DEF StartTimer, With_timer
  <1> HIDE DEF a, b
  <1> QED
    BY <1>1, <1>2, <1>3, <1>4 DEF Same, Steady, Silent

LEMMA StopTimerSame ==
  ASSUME NEW e \in EpRecords
  PROVE  StopTimer(e) \in EpRecords /\ Same(e, StopTimer(e))
  <1> DEFINE a == With_timer(e, FALSE)
             b == SetFlag(a, "TIMEOUT")
  <1>1. a \in EpRecords /\ Same(e, a)
    BY TimerFlagSame
  <1>2. b \in EpRecords /\ Same(a, b)
    BY <1>1, SetFlagSame DEF EpFlags
  <1>3. Put(b) \in EpRecords /\ Same(b, Put(b))
    BY <1>2, PutSame
  <1>4. StopTimer(e) = IF Expired(e) THEN a ELSE Put(b)
    BY DEF StopTimer, With_timer
  <1> HIDE DEF a, b
  <1> QED
    BY <1>1, <1>2, <1>3, <1>4 DEF Same, Steady, Silent

LEMMA StateFields ==
  ASSUME NEW e \in EpRecords, NEW s \in States
  PROVE  /\ SetState(e, s) \in EpRecords /\ SetState(e, s).state = s
         /\ Steady(e, SetState(e, s)) /\ Silent(e, SetState(e, s))
  BY DEF EpRecords, SetState, Steady, Silent, Peers

LEMMA WakeUpSame ==
  ASSUME NEW e \in EpRecords, NEW r \in Rets
  PROVE  WakeUp(e, r) \in EpRecords /\ Same(e, WakeUp(e, r))
  <1> DEFINE a == With_wr_done(e, e.wr_done + 1)
  <1>1. e.wr_done + 1 \in Nat
    BY DEF EpRecords
  <1>2. a \in EpRecords /\ Same(e, a)
    BY <1>1, WrDoneSame
  <1>3. With_wr_ret(a, r) \in EpRecords /\ Same(a, With_wr_ret(a, r))
    BY <1>2, WrRetSame
  <1>4. WakeUp(e, r) = With_wr_ret(a, r)
    BY DEF WakeUp, With_wr_done, With_wr_ret
  <1> HIDE DEF a
  <1> QED
    BY <1>2, <1>3, <1>4 DEF Same, Steady, Silent

LEMMA CmIdFields ==
  ASSUME NEW e \in EpRecords, NEW b \in BOOLEAN
  PROVE  LET f == [e EXCEPT !.cm_id = b] IN
         /\ f \in EpRecords /\ (f.cm_id <=> b) /\ f.told = e.told
         /\ Steady(e, f) /\ f.state = e.state
  BY DEF EpRecords, Steady, Peers

LEMMA UpcallFields ==
  ASSUME NEW e \in EpRecords, NEW ev \in Events
  PROVE  /\ Upcall(e, ev) \in EpRecords
         /\ Steady(e, Upcall(e, ev)) /\ Upcall(e, ev).state = e.state
         /\ Upcall(e, ev).told = ev /\ (Upcall(e, ev).cm_id <=> e.cm_id)
         /\ LastUpcall(e, ev) \in EpRecords
         /\ Steady(e, LastUpcall(e, ev)) /\ LastUpcall(e, ev).state = e.state
         /\ LastUpcall(e, ev).told = ev /\ ~LastUpcall(e, ev).cm_id
  <1>1. /\ Upcall(e, ev) \in EpRecords
        /\ Steady(e, Upcall(e, ev)) /\ Upcall(e, ev).state = e.state
        /\ Upcall(e, ev).told = ev /\ (Upcall(e, ev).cm_id <=> e.cm_id)
    BY DEF EpRecords, Upcall, Steady, Peers
  <1> QED
    BY <1>1, CmIdFields DEF LastUpcall, Steady

LEMMA SameReflexive ==
  ASSUME NEW e PROVE Same(e, e)
  BY DEF Same, Steady, Silent

LEMMA CloseFields ==
  ASSUME NEW e \in EpRecords
  PROVE  /\ CloseUpcall(e) \in EpRecords
         /\ Steady(e, CloseUpcall(e)) /\ CloseUpcall(e).state = e.state
         /\ ~CloseUpcall(e).cm_id
         /\ CloseUpcall(e).told = IF e.cm_id THEN "CLOSE" ELSE e.told
  <1>1. "CLOSE" \in Events
    BY DEF Events
  <1> QED
    BY <1>1, UpcallFields, SameReflexive DEF CloseUpcall, Same

LEMMA PeerCloseFields ==
  ASSUME NEW e \in EpRecords
  PROVE  /\ PeerCloseUpcall(e) \in EpRecords
         /\ Steady(e, PeerCloseUpcall(e)) /\ PeerCloseUpcall(e).state = e.state
         /\ (PeerCloseUpcall(e).cm_id <=> e.cm_id)
         /\ PeerCloseUpcall(e).told = IF e.cm_id THEN "DISCONNECT" ELSE e.told
  <1>1. "DISCONNECT" \in Events
    BY DEF Events
  <1> QED
    BY <1>1, UpcallFields, SameReflexive DEF PeerCloseUpcall, Same

LEMMA EstablishedFields ==
  ASSUME NEW e \in EpRecords
  PROVE  /\ EstablishedUpcall(e) \in EpRecords
         /\ Steady(e, EstablishedUpcall(e)) /\ EstablishedUpcall(e).state = e.state
         /\ (EstablishedUpcall(e).cm_id <=> e.cm_id)
         /\ EstablishedUpcall(e).told = IF e.cm_id THEN "ESTABLISHED" ELSE e.told
  <1>1. "ESTABLISHED" \in Events
    BY DEF Events
  <1> QED
    BY <1>1, UpcallFields, SameReflexive DEF EstablishedUpcall, Same

LEMMA ConnectFields ==
  ASSUME NEW e \in EpRecords
  PROVE  LET f == ConnectReply(e, TRUE) IN
         /\ f \in EpRecords /\ Steady(e, f) /\ f.state = e.state /\ (f.cm_id <=> e.cm_id)
         /\ f.told = IF e.cm_id THEN "CONNECTED" ELSE e.told
  <1>1. e.harm \cup {"null_cm_id"} \in SUBSET Harms
    BY DEF EpRecords, Harms
  <1>2. CASE ~e.cm_id
    BY <1>1, <1>2, HarmSame DEF ConnectReply, With_harm, Same, Silent
  <1>3. CASE e.cm_id
    <2>1. ConnectReply(e, TRUE) = Upcall(e, "CONNECTED")
      BY <1>3 DEF ConnectReply
    <2>2. /\ Upcall(e, "CONNECTED") \in EpRecords
          /\ Steady(e, Upcall(e, "CONNECTED")) /\ Upcall(e, "CONNECTED").state = e.state
          /\ Upcall(e, "CONNECTED").told = "CONNECTED"
          /\ (Upcall(e, "CONNECTED").cm_id <=> e.cm_id)
      BY UpcallFields DEF Events
    <2> QED
      BY <1>3, <2>1, <2>2
  <1> QED
    BY <1>2, <1>3

LEMMA RefuseFields ==
  ASSUME NEW e \in EpRecords
  PROVE  LET f == ConnectReply(e, FALSE) IN
         /\ f \in EpRecords /\ Steady(e, f) /\ f.state = e.state /\ ~f.cm_id
         /\ f.told = IF e.cm_id THEN "REFUSED" ELSE e.told
  <1>1. e.harm \cup {"null_cm_id"} \in SUBSET Harms
    BY DEF EpRecords, Harms
  <1>2. CASE ~e.cm_id
    BY <1>1, <1>2, HarmSame DEF ConnectReply, With_harm, Same, Silent
  <1>3. CASE e.cm_id
    <2>1. ConnectReply(e, FALSE) = LastUpcall(e, "REFUSED")
      BY <1>3 DEF ConnectReply
    <2>2. /\ LastUpcall(e, "REFUSED") \in EpRecords
          /\ Steady(e, LastUpcall(e, "REFUSED")) /\ LastUpcall(e, "REFUSED").state = e.state
          /\ LastUpcall(e, "REFUSED").told = "REFUSED"
          /\ ~LastUpcall(e, "REFUSED").cm_id
      BY UpcallFields DEF Events
    <2> QED
      BY <1>3, <2>1, <2>2
  <1> QED
    BY <1>2, <1>3

LEMMA TidFields ==
  ASSUME NEW e \in EpRecords, NEW v \in {"none", "own", "stale", "erased"}
  PROVE  LET f == With_hwtid(e, v) IN
         /\ f \in EpRecords /\ Silent(e, f) /\ f.state = e.state /\ f.side = e.side
         /\ f.hwtid = v
         /\ (f.qp <=> e.qp) /\ (f.ulp <=> e.ulp)
         /\ (f.retry_v1 <=> e.retry_v1) /\ (Peers(f) <=> Peers(e))
  BY DEF EpRecords, Silent, Peers, With_hwtid

LEMMA ReleaseFields ==
  ASSUME NEW e \in EpRecords
  PROVE  LET f == ReleaseResources(e) IN
         /\ f \in EpRecords /\ Silent(e, f) /\ f.state = e.state /\ f.side = e.side
         /\ f.hwtid # "own"
         /\ (f.qp <=> e.qp) /\ (f.ulp <=> e.ulp)
         /\ (f.retry_v1 <=> e.retry_v1) /\ (Peers(f) <=> Peers(e))
  <1> DEFINE harm  == IF e.hwtid = "stale" THEN e.harm \cup {"foreign_tid"} ELSE e.harm
             hwtid == IF e.hwtid = "own" THEN "erased" ELSE e.hwtid
             a == With_base(e, FALSE)
             b == With_harm(a, harm)
             c == With_hwtid(b, hwtid)
             d == SetFlag(c, "RELEASE_RESOURCES")
  <1>1. ReleaseResources(e) = Put(d)
    BY DEF ReleaseResources, With_base, With_harm, With_hwtid
  <1>2. harm \in SUBSET Harms /\ hwtid \in {"none", "stale", "erased"}
    BY DEF EpRecords, Harms
  <1> HIDE DEF harm, hwtid
  <1>3. a \in EpRecords /\ Same(e, a)
    BY BaseSame
  <1>4. b \in EpRecords /\ Same(a, b)
    BY <1>2, <1>3, HarmSame
  <1> HIDE DEF a, b
  <1>5. /\ c \in EpRecords /\ Silent(b, c) /\ c.state = b.state /\ c.side = b.side
        /\ c.hwtid # "own"
        /\ (c.qp <=> b.qp) /\ (c.ulp <=> b.ulp)
        /\ (c.retry_v1 <=> b.retry_v1) /\ (Peers(c) <=> Peers(b))
    BY <1>2, <1>4, TidFields
  <1> HIDE DEF c
  <1>6. d \in EpRecords /\ Same(c, d)
    BY <1>5, SetFlagSame DEF EpFlags
  <1> HIDE DEF d
  <1>7. Put(d) \in EpRecords /\ Same(d, Put(d))
    BY <1>6, PutSame
  <1> QED
    BY <1>1, <1>3, <1>4, <1>5, <1>6, <1>7 DEF Same, Steady, Silent

LEMMA ParentSame ==
  ASSUME NEW e \in EpRecords
  PROVE  PutParent(e) \in EpRecords /\ Same(e, PutParent(e))
  <1> DEFINE harm == IF e.parent THEN e.harm ELSE e.harm \cup {"parent_put_twice"}
             a == With_parent(e, FALSE)
  <1>1. harm \in SUBSET Harms
    BY DEF EpRecords, Harms
  <1>2. PutParent(e) = With_harm(a, harm)
    BY DEF PutParent, With_parent, With_harm
  <1> HIDE DEF harm
  <1>3. a \in EpRecords /\ Same(e, a)
    BY ParentFlagSame
  <1>4. With_harm(a, harm) \in EpRecords /\ Same(a, With_harm(a, harm))
    BY <1>1, <1>3, HarmSame
  <1> HIDE DEF a
  <1> QED
    BY <1>2, <1>3, <1>4 DEF Same, Steady, Silent

LEMMA ReadTcbSame ==
  ASSUME NEW e \in EpRecords
  PROVE  ReadTcb(e) \in EpRecords /\ Same(e, ReadTcb(e))
  <1> DEFINE a == Get(e)
             b == With_tcbs(a, a.tcbs + 1)
  <1>1. a \in EpRecords /\ Same(e, a)
    BY GetSame
  <1>2. ReadTcb(e) = IF fatal THEN e ELSE b
    BY DEF ReadTcb, With_tcbs
  <1> HIDE DEF a
  <1>3. a.tcbs + 1 \in Int
    BY <1>1 DEF EpRecords
  <1>4. b \in EpRecords /\ Same(a, b)
    BY <1>1, <1>3, TcbsSame
  <1> HIDE DEF b
  <1> QED
    BY <1>1, <1>2, <1>4 DEF Same, Steady, Silent

LEMMA SendAbortSame ==
  ASSUME NEW e \in EpRecords
  PROVE  SendAbort(e) \in EpRecords /\ Same(e, SendAbort(e))
  <1> DEFINE a == SetFlag(e, "ABORT_REQ_IN_PROGRESS")
  <1>1. a \in EpRecords /\ Same(e, a)
    BY SetFlagSame DEF EpFlags
  <1>2. ReadTcb(a) \in EpRecords /\ Same(a, ReadTcb(a))
    BY <1>1, ReadTcbSame
  <1>3. SendAbort(e) = IF ViaTcb THEN ReadTcb(a) ELSE e
    BY DEF SendAbort
  <1> HIDE DEF a
  <1> QED
    BY <1>1, <1>2, <1>3 DEF Same, Steady, Silent

LEMMA RestartTimerSame ==
  ASSUME NEW e \in EpRecords
  PROVE  RestartTimer(e) \in EpRecords /\ Same(e, RestartTimer(e))
  <1> DEFINE a == ClearFlag(e, "STOP_MPA_TIMER")
             b == StopTimer(a)
  <1>1. a \in EpRecords /\ Same(e, a)
    BY ClearFlagSame DEF EpFlags
  <1>2. b \in EpRecords /\ Same(a, b)
    BY <1>1, StopTimerSame
  <1>3. /\ StartTimer(b) \in EpRecords /\ Same(b, StartTimer(b))
        /\ StartTimer(e) \in EpRecords /\ Same(e, StartTimer(e))
    BY <1>2, StartTimerSame
  <1>4. RestartTimer(e) = StartTimer(b) \/ RestartTimer(e) = StartTimer(e)
    BY DEF RestartTimer
  <1> HIDE DEF a, b
  <1> QED
    BY <1>1, <1>2, <1>3, <1>4 DEF Same, Steady, Silent

LEMMA ClosingFields ==
  ASSUME NEW e \in EpRecords
  PROVE  /\ Closing(e) \in EpRecords /\ Steady(e, Closing(e)) /\ Silent(e, Closing(e))
         /\ Closing(e).state \in {"CLOSING", "MORIBUND"}
  <1> DEFINE a == SetState(e, "MORIBUND")
             b == SetState(e, "CLOSING")
             c == RestartTimer(b)
             d == IF CloseUnsent THEN a ELSE c
  <1>1. /\ a \in EpRecords /\ Steady(e, a) /\ Silent(e, a) /\ a.state = "MORIBUND"
        /\ b \in EpRecords /\ Steady(e, b) /\ Silent(e, b) /\ b.state = "CLOSING"
    BY StateFields DEF States
  <1> HIDE DEF a, b
  <1>2. c \in EpRecords /\ Same(b, c)
    BY <1>1, RestartTimerSame
  <1> HIDE DEF c
  <1>3. /\ d \in EpRecords /\ Steady(e, d) /\ Silent(e, d)
        /\ d.state \in {"CLOSING", "MORIBUND"}
    BY <1>1, <1>2 DEF Same, Steady, Silent
  <1>4. Closing(e) = SetFlag(d, "CLOSE_SENT")
    BY DEF Closing, a, b, c
  <1> HIDE DEF d
  <1>5. SetFlag(d, "CLOSE_SENT") \in EpRecords /\ Same(d, SetFlag(d, "CLOSE_SENT"))
    BY <1>3, SetFlagSame DEF EpFlags
  <1> QED
    BY <1>3, <1>4, <1>5 DEF Same, Steady, Silent


-----------------------------------------------------------------------------
(* The calls that move a thread. *)

Threaded == thr \in [Threads -> ThrRecords]

Others(t) == \A s \in Threads \ {t} : thr'[s] = thr[s]

(* It has left its handler, perhaps with something left to do. *)
Done(t, disc) ==
  /\ Threaded' /\ Others(t)
  /\ thr'[t].at \in {"idle", "end"} /\ thr'[t].disc = disc

(* It calls c4iw_modify_iw_rc_qp. *)
Calls(t, to, then) ==
  /\ Threaded' /\ Others(t)
  /\ thr'[t].at = "modify" /\ thr'[t].to = to /\ thr'[t].then = then
  /\ thr'[t].disc = thr[t].disc /\ thr'[t].held = thr[t].held

(* It goes on inside the call. *)
GoesOn(t, at) ==
  /\ Threaded' /\ Others(t)
  /\ thr'[t].at = at /\ thr'[t].then = thr[t].then
  /\ thr'[t].held >= thr[t].held

LEMMA IdleIsRecord == Idle \in ThrRecords /\ Idle.at = "idle" /\ Idle.disc = 0
  BY DEF Idle, ThrRecords, NoCpl, Cpl, Cpls, Untid, Steps, QpStates, Thens, Rets

LEMMA ProceedEffect ==
  ASSUME Threaded, NEW t \in Threads, NEW e \in EpRecords, NEW disc \in 0..2,
         NEW rel \in BOOLEAN, NEW held \in Nat, Proceed(t, e, disc, rel, held)
  PROVE  ep' \in EpRecords /\ Same(e, ep') /\ Done(t, disc)
  <1>1. CASE disc = 0 /\ ~rel
    <2>1. ep' = Drop(e, held) /\ thr' = [thr EXCEPT ![t] = Idle]
      BY <1>1 DEF Proceed
    <2>2. ep' \in EpRecords /\ Same(e, ep')
      BY <2>1, DropSame
    <2>3. Done(t, disc)
      BY <1>1, <2>1, IdleIsRecord DEF Done, Threaded, Others
    <2> QED
      BY <2>2, <2>3
  <1>2. CASE ~(disc = 0 /\ ~rel)
    <2> DEFINE r == [Idle EXCEPT !.at = "end", !.disc = disc, !.rel = rel, !.held = held]
    <2>1. ep' = e /\ thr' = [thr EXCEPT ![t] = r]
      BY <1>2 DEF Proceed
    <2>2. r \in ThrRecords /\ r.at = "end" /\ r.disc = disc
      BY DEF Idle, ThrRecords, NoCpl, Cpl, Cpls, Untid, Steps, QpStates, Thens, Rets
    <2> HIDE DEF r
    <2>3. Done(t, disc)
      BY <2>1, <2>2 DEF Done, Threaded, Others
    <2> QED
      BY <2>1, <2>3, SameReflexive
  <1> QED
    BY <1>1, <1>2

LEMMA LeaveEffect ==
  ASSUME Threaded, NEW t \in Threads, NEW e \in EpRecords, NEW disc \in 0..2,
         NEW rel \in BOOLEAN, Leave(t, e, disc, rel)
  PROVE  /\ ep' \in EpRecords /\ Same(e, ep') /\ Done(t, disc)
         /\ mutex' = IF mutex = t THEN "free" ELSE mutex
  <1>1. thr[t].held \in Nat
    BY DEF Threaded, ThrRecords
  <1> QED
    BY <1>1, ProceedEffect DEF Leave

(* One field of a thread's record changed, by name. *)
Thr_at(p, v) == [p EXCEPT !.at = v]
Thr_cpl(p, v) == [p EXCEPT !.cpl = v]
Thr_to(p, v) == [p EXCEPT !.to = v]
Thr_then(p, v) == [p EXCEPT !.then = v]
Thr_internal(p, v) == [p EXCEPT !.internal = v]
Thr_ret(p, v) == [p EXCEPT !.ret = v]
Thr_disc(p, v) == [p EXCEPT !.disc = v]
Thr_held(p, v) == [p EXCEPT !.held = v]

LEMMA ThrAt ==
  ASSUME NEW p \in ThrRecords, NEW v \in Steps
  PROVE  LET r == Thr_at(p, v) IN
         /\ r \in ThrRecords /\ r.at = v
         /\ r.cpl = p.cpl /\ r.to = p.to /\ r.then = p.then
         /\ r.disc = p.disc /\ r.held = p.held
  BY DEF ThrRecords, Thr_at

LEMMA ThrCpl ==
  ASSUME NEW p \in ThrRecords, NEW v \in Cpls
  PROVE  LET r == Thr_cpl(p, v) IN
         /\ r \in ThrRecords /\ r.cpl = v
         /\ r.at = p.at /\ r.to = p.to /\ r.then = p.then
         /\ r.disc = p.disc /\ r.held = p.held
  BY DEF ThrRecords, Thr_cpl

LEMMA ThrTo ==
  ASSUME NEW p \in ThrRecords, NEW v \in QpStates
  PROVE  LET r == Thr_to(p, v) IN
         /\ r \in ThrRecords /\ r.to = v
         /\ r.at = p.at /\ r.cpl = p.cpl /\ r.then = p.then
         /\ r.disc = p.disc /\ r.held = p.held
  BY DEF ThrRecords, Thr_to

LEMMA ThrThen ==
  ASSUME NEW p \in ThrRecords, NEW v \in Thens
  PROVE  LET r == Thr_then(p, v) IN
         /\ r \in ThrRecords /\ r.then = v
         /\ r.at = p.at /\ r.cpl = p.cpl /\ r.to = p.to
         /\ r.disc = p.disc /\ r.held = p.held
  BY DEF ThrRecords, Thr_then

LEMMA ThrInternal ==
  ASSUME NEW p \in ThrRecords, NEW v \in BOOLEAN
  PROVE  LET r == Thr_internal(p, v) IN
         /\ r \in ThrRecords
         /\ r.at = p.at /\ r.cpl = p.cpl /\ r.to = p.to
         /\ r.then = p.then /\ r.disc = p.disc /\ r.held = p.held
  BY DEF ThrRecords, Thr_internal

LEMMA ThrRet ==
  ASSUME NEW p \in ThrRecords, NEW v \in Rets
  PROVE  LET r == Thr_ret(p, v) IN
         /\ r \in ThrRecords
         /\ r.at = p.at /\ r.cpl = p.cpl /\ r.to = p.to
         /\ r.then = p.then /\ r.disc = p.disc /\ r.held = p.held
  BY DEF ThrRecords, Thr_ret

LEMMA ThrDisc ==
  ASSUME NEW p \in ThrRecords, NEW v \in 0..2
  PROVE  LET r == Thr_disc(p, v) IN
         /\ r \in ThrRecords /\ r.disc = v
         /\ r.at = p.at /\ r.cpl = p.cpl /\ r.to = p.to
         /\ r.then = p.then /\ r.held = p.held
  BY DEF ThrRecords, Thr_disc

LEMMA ThrHeld ==
  ASSUME NEW p \in ThrRecords, NEW v \in Nat
  PROVE  LET r == Thr_held(p, v) IN
         /\ r \in ThrRecords /\ r.held = v
         /\ r.at = p.at /\ r.cpl = p.cpl /\ r.to = p.to
         /\ r.then = p.then /\ r.disc = p.disc
  BY DEF ThrRecords, Thr_held

LEMMA CallEffect ==
  ASSUME Threaded, NEW t \in Threads, NEW e \in EpRecords, NEW to \in QpStates,
         NEW then \in Thens, CallModify(t, e, to, then)
  PROVE  ep' = e /\ Calls(t, to, then)
  <1> DEFINE a == Thr_at(thr[t], "modify")
             b == Thr_to(a, to)
             c == Thr_then(b, then)
             d == Thr_internal(c, TRUE)
  <1>1. ep' = e
    BY DEF CallModify
  <1>2. thr' = [thr EXCEPT ![t] = d]
    BY DEF CallModify, Threaded, Thr_at, Thr_to, Thr_then, Thr_internal
  <1>3. /\ a \in ThrRecords /\ a.at = "modify"
        /\ a.disc = thr[t].disc /\ a.held = thr[t].held
    BY ThrAt DEF Threaded, Steps
  <1> HIDE DEF a
  <1>4. /\ b \in ThrRecords /\ b.at = "modify" /\ b.to = to
        /\ b.disc = thr[t].disc /\ b.held = thr[t].held
    BY <1>3, ThrTo
  <1> HIDE DEF b
  <1>5. /\ c \in ThrRecords /\ c.at = "modify" /\ c.to = to /\ c.then = then
        /\ c.disc = thr[t].disc /\ c.held = thr[t].held
    BY <1>4, ThrThen
  <1> HIDE DEF c
  <1>6. /\ d \in ThrRecords /\ d.at = "modify" /\ d.to = to /\ d.then = then
        /\ d.disc = thr[t].disc /\ d.held = thr[t].held
    BY <1>5, ThrInternal
  <1> HIDE DEF d
  <1> QED
    BY <1>1, <1>2, <1>6 DEF Calls, Threaded, Others

LEMMA ReturnEffect ==
  ASSUME Threaded, NEW t \in Threads, NEW ret \in Rets, Returns(t, ret)
  PROVE  GoesOn(t, "after") /\ thr'[t].disc = thr[t].disc
  <1> DEFINE a == Thr_at(thr[t], "after")
             b == Thr_ret(a, ret)
  <1>1. thr' = [thr EXCEPT ![t] = b]
    BY DEF Returns, Threaded, Thr_at, Thr_ret
  <1>2. /\ a \in ThrRecords /\ a.at = "after" /\ a.then = thr[t].then
        /\ a.disc = thr[t].disc /\ a.held = thr[t].held
    BY ThrAt DEF Threaded, Steps
  <1> HIDE DEF a
  <1>3. /\ b \in ThrRecords /\ b.at = "after" /\ b.then = thr[t].then
        /\ b.disc = thr[t].disc /\ b.held = thr[t].held
    BY <1>2, ThrRet
  <1> HIDE DEF b
  <1>4. b.held >= b.held
    BY <1>3 DEF ThrRecords
  <1> QED
    BY <1>1, <1>3, <1>4 DEF GoesOn, Threaded, Others

-----------------------------------------------------------------------------
(* The inductive invariant.  What a thread is doing: *)

Replying  == In("worker", "mpa_reply") \/ In("worker", "mismatch")
Accepting == In("ulp", "accept")
HearingEnd == In("worker", "peer_close")

(* The calls of c4iw_modify_iw_rc_qp that are made with ep->com.mutex held. *)
Locked == {"mpa_reply", "mismatch", "rx_data", "peer_close", "closed", "peer_abort",
           "timeout", "disc_failed", "accept"}

(* The messages that open a connection, under way or in hand.              *)
ActOps  == {"ACT_OPEN_RPL", "ACT_ESTABLISH"}
OpenOps == ActOps \cup {"PASS_ESTABLISH"}
Sided(c) == /\ c.op \in ActOps => Active
            /\ c.op = "PASS_ESTABLISH" => ~Active

Opens       == {i \in 1..Len(rxq) : rxq[i].op \in OpenOps}
OneOpen     == \A i, j \in Opens : i = j
OpenQueued  == Opens # {}
QueueSided  == \A i \in 1..Len(rxq) : Sided(rxq[i])
BreakQueued == \E i \in 1..Len(rxq) : rxq[i].op = "RDMA_TERMINATE"
OpenHandled  == Worker.at = "handle" /\ Worker.cpl.op \in OpenOps
BreakHandled == Worker.at = "handle" /\ Worker.cpl.op = "RDMA_TERMINATE"

Opening == hw.conn = "opening"
Coming  == Opening \/ OpenQueued \/ OpenHandled
Peer    == Peers(ep)
Pending == ep.cm_id /\ ep.told = "none"
Late    == {"CLOSING", "MORIBUND", "ABORTING", "DEAD"}

TypeInv ==
  /\ ep \in EpRecords /\ qp \in QpRecords
  /\ mutex \in Threads \cup {"free"} /\ qmutex \in Threads \cup {"free"}
  /\ thr \in [Threads -> ThrRecords]
  /\ rxq \in Seq(Cpls) /\ hw \in HwRecords /\ fatal \in BOOLEAN
  /\ \A t \in Threads : In(t, "disc_failed") => thr[t].held > 0

(* Only one side gets to certain states. *)
SideInv ==
  /\ QueueSided
  /\ Worker.at = "handle" => Sided(Worker.cpl)
  /\ Active => ~ep.ulp /\ ep.state # "MPA_REQ_WAIT" /\ ~Accepting
  /\ ~Active => ep.state # "MPA_REQ_SENT" /\ ~ep.retry_v1 /\ ~Replying

LockInv ==
  /\ \A t \in Threads : Busy(t) /\ thr[t].then \in Locked => mutex = t
  /\ \A t \in Threads : thr[t].at = "modify" /\ thr[t].to = "RTS" =>
         \/ t = "worker" /\ thr[t].then = "mpa_reply"
         \/ t = "ulp" /\ thr[t].then = "accept"
  /\ In("worker", "tcb") => Peer

(* A connection is opened by one message, unless its cm_id is gone. *)
OnceInv ==
  (Active => ep.cm_id) =>
      /\ OneOpen
      /\ OpenQueued => ~Opening /\ ~OpenHandled
      /\ OpenHandled => ~Opening

(* A connect that was not answered yet, and not by the reply in hand. *)
Fresh ==
  /\ ep.state \in {"CONNECTING", "MPA_REQ_SENT", "DEAD"}
  /\ \A t \in Threads : thr[t].disc = 0
  /\ ~Busy("worker")
  /\ qp.state \in {"IDLE", "ERROR"}
  /\ ~Peer /\ ~BreakQueued /\ ~BreakHandled /\ hw.fw = 0 /\ ~hw.rdma
  /\ Coming => ep.state = "CONNECTING"
  /\ ep.state = "CONNECTING" =>
         ep.hwtid # "own" /\ (Worker.at = "handle" => Worker.cpl.op \in Untid)

ActiveInv == Active =>
  /\ Replying /\ ep.cm_id =>
         ep.told = "none" /\ ep.state = "FPDU_MODE" /\ ~ep.retry_v1 /\ ~Coming
  /\ ep.cm_id /\ ep.retry_v1 => ep.told = "none" /\ ep.state \in {"CONNECTING", "DEAD"}
  /\ ep.cm_id /\ ep.told # "none" =>
         /\ ~Coming /\ ep.state \notin {"CONNECTING", "MPA_REQ_SENT"}
         /\ ep.told \in {"CONNECTED", "DISCONNECT"}
  /\ Pending => Replying \/ Fresh

Unasked == ep.told = "none" /\ ~ep.cm_id /\ ~Accepting /\ ~ep.qp /\ ~Peer

PassiveInv == ~Active =>
  /\ Coming \/ ep.state = "MPA_REQ_WAIT" \/ ep.ulp => Unasked
  /\ Coming => ep.state # "MPA_REQ_WAIT" /\ ~ep.ulp
  /\ ep.state = "MPA_REQ_WAIT" => ~ep.ulp
  /\ Accepting => ep.told = "none" /\ ~Peer /\ ep.state = "MPA_REQ_RCVD"
  /\ Pending => Accepting
  /\ ep.cm_id /\ ep.told # "none" => ep.told \in {"ESTABLISHED", "DISCONNECT"}

CloseInv ==
  /\ ep.told = "DISCONNECT" /\ ep.cm_id => ep.state \in Late /\ ~HearingEnd
  /\ HearingEnd => ep.state \in Late
  /\ HearingEnd /\ ep.cm_id => ep.told = IF Active THEN "CONNECTED" ELSE "ESTABLISHED"

EventInv == SideInv /\ LockInv /\ OnceInv /\ ActiveInv /\ PassiveInv /\ CloseInv
IInv == TypeInv /\ EventInv

-----------------------------------------------------------------------------
(* The adapter's side. *)

HwSame(g, h) == h.conn = g.conn /\ h.fw = g.fw /\ (h.rdma <=> g.rdma)

LEMMA AskTcbSame ==
  ASSUME NEW h \in HwRecords
  PROVE  AskTcb(h) \in HwRecords /\ HwSame(h, AskTcb(h))
  BY DEF HwRecords, HwSame, AskTcb

LEMMA AskAbortSame ==
  ASSUME NEW h \in HwRecords
  PROVE  AskAbort(h) \in HwRecords /\ HwSame(h, AskAbort(h))
  BY DEF HwRecords, HwSame, AskAbort

LEMMA AskCloseSame ==
  ASSUME NEW h \in HwRecords
  PROVE  AskClose(h) \in HwRecords /\ HwSame(h, AskClose(h))
  BY DEF HwRecords, HwSame, AskClose

LEMMA SentMpaSame ==
  ASSUME NEW h \in HwRecords
  PROVE  SentMpa(h) \in HwRecords /\ HwSame(h, SentMpa(h))
  BY DEF HwRecords, HwSame, SentMpa

LEMMA AskRiFields ==
  ASSUME NEW h \in HwRecords
  PROVE  /\ AskRi(h) \in HwRecords
         /\ AskRi(h).conn = h.conn /\ (AskRi(h).rdma <=> h.rdma)
  BY DEF HwRecords, AskRi

LEMMA NewConnFields ==
  NewConn \in HwRecords /\ NewConn.conn = "opening" /\ NewConn.fw = 0 /\ ~NewConn.rdma
  BY DEF HwRecords, NewConn

(* The queue does not change. *)
LEMMA RxKept ==
  ASSUME rxq' = rxq, ep'.side = ep.side
  PROVE  /\ QueueSided' <=> QueueSided
         /\ OneOpen' <=> OneOpen
         /\ OpenQueued' <=> OpenQueued
         /\ BreakQueued' <=> BreakQueued
  BY DEF QueueSided, OneOpen, OpenQueued, BreakQueued, Opens, Sided, Active

(* What the consumer sees of a step is a step of CmEvents, or nothing. *)
Up == IF Active THEN "CONNECTED" ELSE "ESTABLISHED"

CmStep ==
  /\ ep'.side = ep.side
  /\ \/ Silent(ep, ep')
     \/ ~Active /\ ep.told = "none" /\ ep'.told = "none"
     \/ Pending /\ ep'.told = Up /\ ep'.cm_id
     \/ Pending /\ Active /\ ep'.told = "REFUSED" /\ ~ep'.cm_id
     \/ ep.cm_id /\ ep.told = Up /\ ep'.told = "DISCONNECT" /\ ep'.cm_id
     \/ ep.cm_id /\ ep.told \in {Up, "DISCONNECT"} /\ ep'.told = "CLOSE" /\ ~ep'.cm_id

LEMMA CmStepIsStep ==
  ASSUME TypeInv, ep' \in EpRecords, CmStep
  PROVE  [Contract!Next]_Contract!vars
  <1>1. ep.cm_id \in BOOLEAN /\ ep'.cm_id \in BOOLEAN /\ ep.side \in {"active", "passive"}
    BY EndpointAssumption DEF TypeInv, EpRecords
  <1> QED
    BY <1>1 DEF CmStep, Silent, Pending, Up, Active, Contract!Next, Contract!vars, Contract!Up,
                Contract!Given, Contract!TakenBack, Contract!Answer, Contract!Refuse,
                Contract!Disconnect, Contract!Close

-----------------------------------------------------------------------------
(* The worker's handlers, but for those that open the connection anew.     *)

(* It ends its handler, with disc left to do, and unlocks. *)
Ends(disc) ==
  Done("worker", disc) /\ (mutex' = mutex \/ (mutex = "worker" /\ mutex' = "free"))

(* The connect cannot be unanswered. *)
Settled ==
  \/ mutex = "free" /\ ep.state \notin {"CONNECTING", "MPA_REQ_SENT", "DEAD"}
  \/ Busy("worker") /\ ~Replying
  \/ BreakHandled

(* The connection was given to the consumer, or given up. *)
Over ==
  \/ mutex = "free" /\ ep.state \in {"CLOSING", "MORIBUND", "ABORTING"}
  \/ In("worker", "closed") \/ In("worker", "timeout") \/ In("worker", "tcb")
  \/ Worker.at = "handle" /\ Peer

HandlerFrame ==
  /\ Worker.at \in {"handle", "timeout", "after"}
  /\ ep' \in EpRecords /\ Steady(ep, ep')
  /\ hw' \in HwRecords /\ HwSame(hw, hw')
  /\ UNCHANGED <<qp, qmutex, rxq, fatal>>

(* Nothing changes but references, timer and flags. *)
Rests ==
  /\ Same(ep, ep') /\ ~Replying
  /\ \E disc \in 0..2 : Ends(disc) /\ (disc = 0 \/ ~Active \/ Settled)

(* The state moves on. *)
Moves1 ==
  /\ Silent(ep, ep') /\ mutex = "free" /\ Worker.at = "handle"
  /\ \/ /\ ep.state \in {"MPA_REQ_WAIT", "MPA_REQ_RCVD", "MPA_REP_SENT"}
        /\ ep'.state = "CLOSING" /\ Ends(1)
     \/ ep.state = "CLOSING" /\ ep'.state = "MORIBUND" /\ Ends(0)

(* The connect is refused. *)
Refuses ==
  /\ \/ mutex = "free" /\ ep.state = "MPA_REQ_SENT"
     \/ Replying
  /\ ~ep'.cm_id /\ ep'.told = IF ep.cm_id THEN "REFUSED" ELSE ep.told
  /\ ep'.state \in {ep.state, "CLOSING"}
  /\ \E disc \in 0..2 : Ends(disc)

Connects ==
  /\ In("worker", "mpa_reply")
  /\ (ep'.cm_id <=> ep.cm_id) /\ ep'.told = IF ep.cm_id THEN "CONNECTED" ELSE ep.told
  /\ ep'.state = ep.state /\ Ends(0)

HearsEnd ==
  /\ HearingEnd
  /\ (ep'.cm_id <=> ep.cm_id) /\ ep'.told = IF ep.cm_id THEN "DISCONNECT" ELSE ep.told
  /\ ep'.state = ep.state /\ Ends(1)

(* The consumer gets its CLOSE. *)
Shuts ==
  /\ Over
  /\ ~ep'.cm_id /\ ep'.told = IF ep.cm_id THEN "CLOSE" ELSE ep.told
  /\ ep'.state \in {ep.state, "DEAD"}
  /\ \E disc \in 0..2 : Ends(disc)

(* The QP is moved. *)
MovesQp ==
  /\ Silent(ep, ep')
  /\ \/ /\ mutex = "free" /\ ep.state = "MPA_REQ_SENT" /\ ep'.state = "FPDU_MODE"
        /\ Worker.at = "handle"
        /\ Calls("worker", "RTS", "mpa_reply") /\ mutex' = "worker"
     \/ /\ In("worker", "mpa_reply") /\ ep'.state = ep.state
        /\ Calls("worker", "TERMINATE", "mismatch") /\ mutex' = mutex
     \/ /\ mutex = "free" /\ ep.state = "FPDU_MODE" /\ ep'.state = "CLOSING"
        /\ Worker.at = "handle"
        /\ Calls("worker", "CLOSING", "peer_close") /\ mutex' = "worker"
     \/ /\ mutex = "free" /\ ep.state \in {"FPDU_MODE", "CLOSING", "MORIBUND"}
        /\ ep'.state = ep.state /\ Worker.at \in {"handle", "timeout"}
        /\ \E to \in QpStates \ {"RTS"}, then \in {"rx_data", "closed", "peer_abort", "timeout"} :
               Calls("worker", to, then)
        /\ mutex' = "worker"
     \/ /\ BreakHandled /\ ep'.state = ep.state
        /\ Calls("worker", "TERMINATE", "terminate") /\ mutex' = mutex
     \/ /\ Peer /\ Worker.at = "handle" /\ ep'.state = ep.state
        /\ Calls("worker", "ERROR", "tcb") /\ mutex' = mutex

HandlerStep ==
  HandlerFrame /\ (\/ Rests \/ Moves1 \/ Refuses \/ Connects \/ HearsEnd \/ Shuts \/ MovesQp)

LEMMA FrameKeeps ==
  ASSUME TypeInv, HandlerFrame
  PROVE  /\ QueueSided' <=> QueueSided
         /\ OneOpen' <=> OneOpen
         /\ OpenQueued' <=> OpenQueued
         /\ BreakQueued' <=> BreakQueued
  BY RxKept DEF HandlerFrame, Steady

LEMMA HandlerKeepsTypes ==
  ASSUME TypeInv, HandlerStep
  PROVE  TypeInv'
  <1>1. thr' \in [Threads -> ThrRecords]
    BY DEF HandlerStep, Rests, Moves1, Refuses, Connects, HearsEnd, Shuts, MovesQp,
           Ends, Done, Calls, Threaded
  <1>2. mutex' \in Threads \cup {"free"}
    BY DEF TypeInv, HandlerStep, Rests, Moves1, Refuses, Connects, HearsEnd, Shuts, MovesQp,
           Ends, Threads
  <1>3. ASSUME NEW t \in Threads, In(t, "disc_failed")'
        PROVE  thr'[t].held > 0
    BY <1>3 DEF TypeInv, HandlerStep, Rests, Moves1, Refuses, Connects, HearsEnd, Shuts, MovesQp,
           Ends, Done, Calls, Others, In, Busy, Threads
  <1> QED
    BY <1>1, <1>2, <1>3 DEF TypeInv, HandlerStep, HandlerFrame

LEMMA HandlerKeepsEvents ==
  ASSUME TypeInv, EventInv, HandlerStep
  PROVE  EventInv' /\ CmStep
  <1> USE FrameKeeps DEF HandlerStep, HandlerFrame, EventInv, SideInv, LockInv, OnceInv,
          ActiveInv, PassiveInv, CloseInv, CmStep, Up, Locked, Late, HearingEnd, Pending,
          Fresh, Unasked, Coming, Opening, OpenHandled, BreakHandled, OpenOps, ActOps,
          Replying, Accepting, In, Busy, Peer, Active, Worker, Done, Calls, Ends, Others,
          Steady, Same, Silent, HwSame, Threads
  <1>1. CASE Rests
    BY <1>1 DEF Rests, Settled
  <1>2. CASE Moves1
    BY <1>2 DEF Moves1
  <1>3. CASE Refuses
    BY <1>3 DEF Refuses
  <1>4. CASE Connects
    BY <1>4 DEF Connects
  <1>5. CASE HearsEnd
    BY <1>5 DEF HearsEnd
  <1>6. CASE Shuts
    BY <1>6 DEF Shuts, Over
  <1>7. CASE MovesQp
    BY <1>7 DEF MovesQp
  <1> QED
    BY <1>1, <1>2, <1>3, <1>4, <1>5, <1>6, <1>7

LEMMA DiscValues == 0 \in 0..2 /\ 1 \in 0..2 /\ 2 \in 0..2
  OBVIOUS

LEMMA EndEffect ==
  ASSUME TypeInv, NEW e \in EpRecords, NEW disc \in 0..2, NEW rel \in BOOLEAN,
         End(e, disc, rel)
  PROVE  ep' \in EpRecords /\ Same(e, ep') /\ Ends(disc)
  <1>1. Threaded /\ "worker" \in Threads
    BY DEF TypeInv, Threaded, Threads
  <1>2. /\ ep' \in EpRecords /\ Same(e, ep') /\ Done("worker", disc)
        /\ mutex' = IF mutex = "worker" THEN "free" ELSE mutex
    BY <1>1, LeaveEffect DEF End
  <1> QED
    BY <1>2 DEF Ends

LEMMA WorkerCalls ==
  ASSUME TypeInv, NEW e \in EpRecords, NEW to \in QpStates, NEW then \in Thens,
         CallModify("worker", e, to, then)
  PROVE  ep' = e /\ Calls("worker", to, then)
  BY CallEffect DEF TypeInv, Threaded, Threads

(* It drops the reference of the interrupt as well. *)
LEMMA AbortEnds ==
  ASSUME TypeInv, NEW e \in EpRecords, NEW rel \in BOOLEAN,
         Proceed("worker", e, 0, rel, Worker.held + 1)
  PROVE  ep' \in EpRecords /\ Same(e, ep') /\ Done("worker", 0)
  <1>1. Worker.held + 1 \in Nat
    BY DEF TypeInv, ThrRecords, Worker, Threads
  <1> QED
    BY <1>1, ProceedEffect DEF TypeInv, Threaded, Threads

LEMMA HwKept ==
  ASSUME TypeInv, UNCHANGED hw
  PROVE  hw' \in HwRecords /\ HwSame(hw, hw')
  BY DEF TypeInv, HwSame

LEMMA PutEpSafeStep ==
  ASSUME TypeInv, PutEpSafe
  PROVE  HandlerStep
  <1>1. PICK e \in EpRecords : Same(ep, e) /\ End(e, 0, TRUE)
    BY ParentSame, SameReflexive DEF TypeInv, PutEpSafe
  <1>2. ep' \in EpRecords /\ Same(e, ep') /\ Ends(0)
    BY <1>1, DiscValues, EndEffect
  <1>3. Worker.at = "handle"
    BY DEF PutEpSafe, Handling, At, Worker
  <1> QED
    BY <1>1, <1>2, <1>3, HwKept
       DEF PutEpSafe, HandlerStep, HandlerFrame, Rests, Same, Steady, Silent, Replying, In, Busy, Worker

LEMMA MpaReplyStep ==
  ASSUME TypeInv, MpaReply
  PROVE  HandlerStep
  <1> DEFINE a == StopTimer(ep)
  <1>1. /\ Worker.at = "handle" /\ mutex = "free" /\ ep.state = "MPA_REQ_SENT"
        /\ ep \in EpRecords /\ ~Replying
    BY DEF MpaReply, Took, Handling, At, Worker, TypeInv, Replying, In, Busy
  <1>2. a \in EpRecords /\ Same(ep, a)
    BY <1>1, StopTimerSame
  <1>3. UNCHANGED <<qp, qmutex, rxq, fatal>> /\ hw' \in HwRecords /\ HwSame(hw, hw')
    BY HwKept DEF MpaReply
  <1>4. CASE End(ConnectReply(a, FALSE), 2, FALSE)
    <2> DEFINE b == ConnectReply(a, FALSE)
    <2>1. /\ b \in EpRecords /\ Steady(a, b) /\ b.state = a.state /\ ~b.cm_id
          /\ b.told = IF a.cm_id THEN "REFUSED" ELSE a.told
      BY <1>2, RefuseFields
    <2> HIDE DEF b
    <2>2. ep' \in EpRecords /\ Same(b, ep') /\ Ends(2)
      BY <1>4, <2>1, DiscValues, EndEffect DEF b
    <2> QED
      BY <1>1, <1>2, <1>3, <2>1, <2>2
         DEF HandlerStep, HandlerFrame, Refuses, Same, Steady, Silent
  <1>5. CASE End(a, 0, FALSE)
    <2>1. ep' \in EpRecords /\ Same(a, ep') /\ Ends(0)
      BY <1>2, <1>5, DiscValues, EndEffect
    <2> QED
      BY <1>1, <1>2, <1>3, <2>1 DEF HandlerStep, HandlerFrame, Rests, Same, Steady, Silent
  <1>6. CASE CallModify("worker", SetState(a, "FPDU_MODE"), "RTS", "mpa_reply") /\ mutex' = "worker"
    <2> DEFINE b == SetState(a, "FPDU_MODE")
    <2>1. b \in EpRecords /\ b.state = "FPDU_MODE" /\ Steady(a, b) /\ Silent(a, b)
      BY <1>2, StateFields DEF States, Connecting
    <2> HIDE DEF b
    <2>2. ep' = b /\ Calls("worker", "RTS", "mpa_reply")
      BY <1>6, <2>1, WorkerCalls DEF b, QpStates, Thens
    <2> QED
      BY <1>1, <1>2, <1>3, <1>6, <2>1, <2>2
         DEF HandlerStep, HandlerFrame, MovesQp, Same, Steady, Silent
  <1> HIDE DEF a
  <1> QED
    BY <1>4, <1>5, <1>6 DEF MpaReply, a

(* What the steps of handlers begin with. *)
LEMMA InHandler ==
  ASSUME TypeInv, NEW op, Handling(op)
  PROVE  Worker.at = "handle" /\ ep \in EpRecords /\ ~Replying
  BY DEF Handling, At, Worker, TypeInv, Replying, In, Busy

LEMMA InCall ==
  ASSUME TypeInv, NEW then, After(then)
  PROVE  Worker.at = "after" /\ ep \in EpRecords /\ In("worker", then) /\ Worker.then = then
  BY DEF After, At, Worker, TypeInv, In, Busy

LEMMA MpaRepliedStep ==
  ASSUME TypeInv, MpaReplied
  PROVE  HandlerStep
  <1>1. /\ Worker.at = "after" /\ In("worker", "mpa_reply") /\ ep \in EpRecords /\ Replying
    <2>1. After("mpa_reply")
      BY DEF MpaReplied
    <2>2. Worker.at = "after" /\ ep \in EpRecords /\ In("worker", "mpa_reply")
      BY <2>1, InCall
    <2> QED
      BY <2>2 DEF Replying
  <1>2. UNCHANGED <<qp, qmutex, rxq, fatal>> /\ hw' \in HwRecords /\ HwSame(hw, hw')
    BY HwKept DEF MpaReplied
  <1>3. CASE End(ConnectReply(ep, FALSE), 2, FALSE)
    <2> DEFINE b == ConnectReply(ep, FALSE)
    <2>1. /\ b \in EpRecords /\ Steady(ep, b) /\ b.state = ep.state /\ ~b.cm_id
          /\ b.told = IF ep.cm_id THEN "REFUSED" ELSE ep.told
      BY <1>1, RefuseFields
    <2> HIDE DEF b
    <2>2. ep' \in EpRecords /\ Same(b, ep') /\ Ends(2)
      BY <1>3, <2>1, DiscValues, EndEffect DEF b
    <2> QED
      BY <1>1, <1>2, <2>1, <2>2 DEF HandlerStep, HandlerFrame, Refuses, Same, Steady, Silent
  <1>4. CASE End(ConnectReply(ep, TRUE), 0, FALSE)
    <2> DEFINE b == ConnectReply(ep, TRUE)
    <2>1. /\ b \in EpRecords /\ Steady(ep, b) /\ b.state = ep.state /\ (b.cm_id <=> ep.cm_id)
          /\ b.told = IF ep.cm_id THEN "CONNECTED" ELSE ep.told
      BY <1>1, ConnectFields
    <2> HIDE DEF b
    <2>2. ep' \in EpRecords /\ Same(b, ep') /\ Ends(0)
      BY <1>4, <2>1, DiscValues, EndEffect DEF b
    <2> QED
      BY <1>1, <1>2, <2>1, <2>2 DEF HandlerStep, HandlerFrame, Connects, Same, Steady, Silent
  <1>5. CASE CallModify("worker", ep, "TERMINATE", "mismatch") /\ UNCHANGED mutex
    <2>1. ep' = ep /\ Calls("worker", "TERMINATE", "mismatch")
      BY <1>1, <1>5, WorkerCalls DEF QpStates, Thens
    <2> QED
      BY <1>1, <1>2, <1>5, <2>1 DEF HandlerStep, HandlerFrame, MovesQp, Steady, Silent
  <1> QED
    BY <1>3, <1>4, <1>5 DEF MpaReplied

LEMMA MpaMismatchedStep ==
  ASSUME TypeInv, MpaMismatched
  PROVE  HandlerStep
  <1>1. Worker.at = "after" /\ ep \in EpRecords /\ Replying
    BY InCall DEF MpaMismatched, Replying
  <1> DEFINE b == ConnectReply(ep, FALSE)
  <1>2. /\ b \in EpRecords /\ Steady(ep, b) /\ b.state = ep.state /\ ~b.cm_id
        /\ b.told = IF ep.cm_id THEN "REFUSED" ELSE ep.told
    BY <1>1, RefuseFields
  <1> HIDE DEF b
  <1>3. ep' \in EpRecords /\ Same(b, ep') /\ Ends(1)
    BY <1>2, DiscValues, EndEffect DEF MpaMismatched, b
  <1> QED
    BY <1>1, <1>2, <1>3, HwKept
       DEF MpaMismatched, HandlerStep, HandlerFrame, Refuses, Same, Steady, Silent

LEMMA StreamingDataStep ==
  ASSUME TypeInv, StreamingData
  PROVE  HandlerStep
  <1>1. Worker.at = "handle" /\ ep \in EpRecords /\ ~Replying /\ mutex = "free"
    BY InHandler DEF StreamingData, Took
  <1>2. CASE /\ ep.state = "FPDU_MODE"
             /\ CallModify("worker", ep, "TERMINATE", "rx_data") /\ mutex' = "worker"
    <2>1. ep' = ep /\ Calls("worker", "TERMINATE", "rx_data")
      BY <1>1, <1>2, WorkerCalls DEF QpStates, Thens
    <2>2. "TERMINATE" \in QpStates \ {"RTS"}
      BY DEF QpStates
    <2> QED
      BY <1>1, <1>2, <2>1, <2>2, HwKept
         DEF StreamingData, HandlerStep, HandlerFrame, MovesQp, Steady, Silent
  <1>3. CASE End(ep, 0, FALSE)
    <2>1. ep' \in EpRecords /\ Same(ep, ep') /\ Ends(0)
      BY <1>1, <1>3, DiscValues, EndEffect
    <2> QED
      BY <1>1, <2>1, HwKept DEF StreamingData, HandlerStep, HandlerFrame, Rests, Same
  <1> QED
    BY <1>2, <1>3 DEF StreamingData

LEMMA StreamingDoneStep ==
  ASSUME TypeInv, StreamingDone
  PROVE  HandlerStep
  <1>1. Worker.at = "after" /\ ep \in EpRecords /\ In("worker", "rx_data") /\ Worker.then = "rx_data"
    BY InCall DEF StreamingDone
  <1>2. ep' \in EpRecords /\ Same(ep, ep') /\ Ends(1)
    BY <1>1, DiscValues, EndEffect DEF StreamingDone
  <1>3. Settled /\ ~Replying
    BY <1>1 DEF Settled, Replying, In, Worker
  <1> QED
    BY <1>1, <1>2, <1>3, HwKept, DiscValues
       DEF StreamingDone, HandlerStep, HandlerFrame, Rests, Same

LEMMA Fw4AckStep ==
  ASSUME TypeInv, Fw4Ack
  PROVE  HandlerStep
  <1>1. Worker.at = "handle" /\ ep \in EpRecords /\ ~Replying
    BY InHandler DEF Fw4Ack
  <1> DEFINE a == With_mpa_skb(ep, FALSE)
  <1>2. a \in EpRecords /\ Same(ep, a)
    BY <1>1, MpaSkbSame
  <1>3. StopTimer(a) \in EpRecords /\ Same(a, StopTimer(a))
    BY <1>2, StopTimerSame
  <1>4. End(StopTimer(a), 0, FALSE) \/ End(a, 0, FALSE)
    BY DEF Fw4Ack, With_mpa_skb
  <1> HIDE DEF a
  <1>5. PICK e \in EpRecords : Same(ep, e) /\ End(e, 0, FALSE)
    BY <1>2, <1>3, <1>4 DEF Same, Steady, Silent
  <1>6. ep' \in EpRecords /\ Same(e, ep') /\ Ends(0)
    BY <1>5, DiscValues, EndEffect
  <1> QED
    BY <1>1, <1>5, <1>6, HwKept, DiscValues
       DEF Fw4Ack, HandlerStep, HandlerFrame, Rests, Same, Steady, Silent

(* Both ends have closed. *)
LEMMA BothClosedStep ==
  ASSUME TypeInv, BothClosed, Worker.at = "handle", mutex = "free", ep.state = "MORIBUND",
         UNCHANGED <<qp, qmutex, rxq, hw, fatal>>
  PROVE  HandlerStep
  <1> DEFINE a == StopTimer(ep)
             b == CloseUpcall(a)
             c == SetState(b, "DEAD")
  <1>1. ep \in EpRecords /\ a \in EpRecords /\ Same(ep, a)
    BY StopTimerSame DEF TypeInv
  <1>2. CASE CallModify("worker", a, "IDLE", "closed") /\ mutex' = "worker"
    <2>1. ep' = a /\ Calls("worker", "IDLE", "closed")
      BY <1>1, <1>2, WorkerCalls DEF QpStates, Thens
    <2>2. "IDLE" \in QpStates \ {"RTS"}
      BY DEF QpStates
    <2> QED
      BY <1>1, <1>2, <2>1, <2>2, HwKept
         DEF HandlerStep, HandlerFrame, MovesQp, Same, Steady, Silent
  <1> HIDE DEF a
  <1>3. /\ b \in EpRecords /\ Steady(a, b) /\ b.state = a.state /\ ~b.cm_id
        /\ b.told = IF a.cm_id THEN "CLOSE" ELSE a.told
    BY <1>1, CloseFields
  <1> HIDE DEF b
  <1>4. c \in EpRecords /\ c.state = "DEAD" /\ Steady(b, c) /\ Silent(b, c)
    BY <1>3, StateFields DEF States
  <1> HIDE DEF c
  <1>5. CASE End(c, 0, TRUE)
    <2>1. ep' \in EpRecords /\ Same(c, ep') /\ Ends(0)
      BY <1>4, <1>5, DiscValues, EndEffect
    <2> QED
      BY <1>1, <1>3, <1>4, <2>1, HwKept, DiscValues
         DEF HandlerStep, HandlerFrame, Shuts, Over, Same, Steady, Silent
  <1> QED
    BY <1>2, <1>5 DEF BothClosed, a, b, c

LEMMA PeerCloseStep ==
  ASSUME TypeInv, PeerClose
  PROVE  HandlerStep
  <1> DEFINE a == SetState(ep, "CLOSING")
  <1>1. /\ Worker.at = "handle" /\ ep \in EpRecords /\ ~Replying /\ mutex = "free"
        /\ UNCHANGED <<qp, qmutex, rxq, hw, fatal>> /\ hw' \in HwRecords /\ HwSame(hw, hw')
    BY InHandler, HwKept DEF PeerClose
  <1>2. a \in EpRecords /\ a.state = "CLOSING" /\ Steady(ep, a) /\ Silent(ep, a)
    BY <1>1, StateFields DEF States
  <1>3. CASE ep.state = "MPA_REQ_WAIT" /\ End(a, 1, FALSE)
    <2>1. ep' \in EpRecords /\ Same(a, ep') /\ Ends(1)
      BY <1>2, <1>3, DiscValues, EndEffect
    <2> HIDE DEF a
    <2> QED
      BY <1>1, <1>2, <1>3, <2>1 DEF HandlerStep, HandlerFrame, Moves1, Same, Steady, Silent
  <1>4. CASE ep.state = "MPA_REQ_SENT" /\ End(ConnectReply(a, FALSE), 1, FALSE)
    <2> DEFINE b == ConnectReply(a, FALSE)
    <2>1. /\ b \in EpRecords /\ Steady(a, b) /\ b.state = a.state /\ ~b.cm_id
          /\ b.told = IF a.cm_id THEN "REFUSED" ELSE a.told
      BY <1>2, RefuseFields
    <2> HIDE DEF a, b
    <2>2. ep' \in EpRecords /\ Same(b, ep') /\ Ends(1)
      BY <1>4, <2>1, DiscValues, EndEffect DEF b
    <2> QED
      BY <1>1, <1>2, <1>4, <2>1, <2>2, DiscValues
         DEF HandlerStep, HandlerFrame, Refuses, Same, Steady, Silent
  <1>5. CASE ep.state \in {"MPA_REQ_RCVD", "MPA_REP_SENT"} /\ End(WakeUp(a, "reset"), 1, FALSE)
    <2> DEFINE b == WakeUp(a, "reset")
    <2>1. b \in EpRecords /\ Same(a, b)
      BY <1>2, WakeUpSame DEF Rets
    <2> HIDE DEF a, b
    <2>2. ep' \in EpRecords /\ Same(b, ep') /\ Ends(1)
      BY <1>5, <2>1, DiscValues, EndEffect DEF b
    <2> QED
      BY <1>1, <1>2, <1>5, <2>1, <2>2 DEF HandlerStep, HandlerFrame, Moves1, Same, Steady, Silent
  <1>6. CASE /\ ep.state = "FPDU_MODE" /\ mutex' = "worker"
             /\ CallModify("worker", StartTimer(a), "CLOSING", "peer_close")
    <2> DEFINE b == StartTimer(a)
    <2>1. b \in EpRecords /\ Same(a, b)
      BY <1>2, StartTimerSame
    <2> HIDE DEF a, b
    <2>2. ep' = b /\ Calls("worker", "CLOSING", "peer_close")
      BY <1>6, <2>1, WorkerCalls DEF b, QpStates, Thens
    <2> QED
      BY <1>1, <1>2, <1>6, <2>1, <2>2 DEF HandlerStep, HandlerFrame, MovesQp, Same, Steady, Silent
  <1>7. CASE ep.state = "CLOSING" /\ End(SetState(ep, "MORIBUND"), 0, FALSE)
    <2> DEFINE b == SetState(ep, "MORIBUND")
    <2>1. b \in EpRecords /\ b.state = "MORIBUND" /\ Steady(ep, b) /\ Silent(ep, b)
      BY <1>1, StateFields DEF States
    <2> HIDE DEF b
    <2>2. ep' \in EpRecords /\ Same(b, ep') /\ Ends(0)
      BY <1>7, <2>1, DiscValues, EndEffect DEF b
    <2> QED
      BY <1>1, <1>7, <2>1, <2>2 DEF HandlerStep, HandlerFrame, Moves1, Same, Steady, Silent
  <1>8. CASE ep.state = "MORIBUND" /\ BothClosed
    BY <1>1, <1>8, BothClosedStep
  <1>9. CASE End(ep, 0, FALSE)
    <2>1. ep' \in EpRecords /\ Same(ep, ep') /\ Ends(0)
      BY <1>1, <1>9, DiscValues, EndEffect
    <2> QED
      BY <1>1, <2>1, DiscValues DEF HandlerStep, HandlerFrame, Rests, Same
  <1> QED
    BY <1>3, <1>4, <1>5, <1>6, <1>7, <1>8, <1>9 DEF PeerClose, a

LEMMA PeerClosedStep ==
  ASSUME TypeInv, PeerClosed
  PROVE  HandlerStep
  <1>1. /\ Worker.at = "after" /\ ep \in EpRecords /\ HearingEnd /\ Worker.then = "peer_close"
    BY InCall DEF PeerClosed, HearingEnd
  <1>2. UNCHANGED <<qp, qmutex, rxq, fatal>> /\ hw' \in HwRecords /\ HwSame(hw, hw')
    BY HwKept DEF PeerClosed
  <1>3. CASE End(ep, 1, FALSE)
    <2>1. ep' \in EpRecords /\ Same(ep, ep') /\ Ends(1)
      BY <1>1, <1>3, DiscValues, EndEffect
    <2>2. Settled /\ ~Replying
      BY <1>1 DEF Settled, Replying, HearingEnd, In, Worker
    <2> QED
      BY <1>1, <1>2, <2>1, <2>2, DiscValues DEF HandlerStep, HandlerFrame, Rests, Same
  <1>4. CASE End(PeerCloseUpcall(ep), 1, FALSE)
    <2> DEFINE b == PeerCloseUpcall(ep)
    <2>1. /\ b \in EpRecords /\ Steady(ep, b) /\ b.state = ep.state /\ (b.cm_id <=> ep.cm_id)
          /\ b.told = IF ep.cm_id THEN "DISCONNECT" ELSE ep.told
      BY <1>1, PeerCloseFields
    <2> HIDE DEF b
    <2>2. ep' \in EpRecords /\ Same(b, ep') /\ Ends(1)
      BY <1>4, <2>1, DiscValues, EndEffect DEF b
    <2> QED
      BY <1>1, <1>2, <2>1, <2>2 DEF HandlerStep, HandlerFrame, HearsEnd, Same, Steady, Silent
  <1> QED
    BY <1>3, <1>4 DEF PeerClosed

LEMMA CloseConRplStep ==
  ASSUME TypeInv, CloseConRpl
  PROVE  HandlerStep
  <1>1. /\ Worker.at = "handle" /\ ep \in EpRecords /\ ~Replying /\ mutex = "free"
        /\ UNCHANGED <<qp, qmutex, rxq, hw, fatal>> /\ hw' \in HwRecords /\ HwSame(hw, hw')
    BY InHandler, HwKept DEF CloseConRpl
  <1>2. CASE ep.state = "CLOSING" /\ End(SetState(ep, "MORIBUND"), 0, FALSE)
    <2> DEFINE b == SetState(ep, "MORIBUND")
    <2>1. b \in EpRecords /\ b.state = "MORIBUND" /\ Steady(ep, b) /\ Silent(ep, b)
      BY <1>1, StateFields DEF States
    <2> HIDE DEF b
    <2>2. ep' \in EpRecords /\ Same(b, ep') /\ Ends(0)
      BY <1>2, <2>1, DiscValues, EndEffect DEF b
    <2> QED
      BY <1>1, <1>2, <2>1, <2>2 DEF HandlerStep, HandlerFrame, Moves1, Same, Steady, Silent
  <1>3. CASE ep.state = "MORIBUND" /\ BothClosed
    BY <1>1, <1>3, BothClosedStep
  <1>4. CASE End(ep, 0, FALSE)
    <2>1. ep' \in EpRecords /\ Same(ep, ep') /\ Ends(0)
      BY <1>1, <1>4, DiscValues, EndEffect
    <2> QED
      BY <1>1, <2>1, DiscValues DEF HandlerStep, HandlerFrame, Rests, Same
  <1> QED
    BY <1>2, <1>3, <1>4 DEF CloseConRpl

LEMMA ClosedStep ==
  ASSUME TypeInv, Closed
  PROVE  HandlerStep
  <1> DEFINE a == CloseUpcall(ep)
             b == SetState(a, "DEAD")
  <1>1. Worker.at = "after" /\ ep \in EpRecords /\ In("worker", "closed")
    BY InCall DEF Closed
  <1>2. /\ a \in EpRecords /\ Steady(ep, a) /\ a.state = ep.state /\ ~a.cm_id
        /\ a.told = IF ep.cm_id THEN "CLOSE" ELSE ep.told
    BY <1>1, CloseFields
  <1> HIDE DEF a
  <1>3. b \in EpRecords /\ b.state = "DEAD" /\ Steady(a, b) /\ Silent(a, b)
    BY <1>2, StateFields DEF States
  <1> HIDE DEF b
  <1>4. ep' \in EpRecords /\ Same(b, ep') /\ Ends(0)
    BY <1>3, DiscValues, EndEffect DEF Closed, a, b
  <1> QED
    BY <1>1, <1>2, <1>3, <1>4, HwKept, DiscValues
       DEF Closed, HandlerStep, HandlerFrame, Shuts, Over, Same, Steady, Silent

LEMMA AbortRplStep ==
  ASSUME TypeInv, AbortRpl
  PROVE  HandlerStep
  <1>1. /\ Worker.at = "handle" /\ ep \in EpRecords /\ ~Replying /\ mutex = "free"
        /\ UNCHANGED <<qp, qmutex, rxq, hw, fatal>> /\ hw' \in HwRecords /\ HwSame(hw, hw')
    BY InHandler, HwKept DEF AbortRpl
  <1>2. CASE /\ ep.state = "ABORTING"
             /\ End(CloseUpcall(SetState(WakeUp(ep, "reset"), "DEAD")), 0, TRUE)
    <2> DEFINE a == WakeUp(ep, "reset")
               b == SetState(a, "DEAD")
               c == CloseUpcall(b)
    <2>1. a \in EpRecords /\ Same(ep, a)
      BY <1>1, WakeUpSame DEF Rets
    <2> HIDE DEF a
    <2>2. b \in EpRecords /\ b.state = "DEAD" /\ Steady(a, b) /\ Silent(a, b)
      BY <2>1, StateFields DEF States
    <2> HIDE DEF b
    <2>3. /\ c \in EpRecords /\ Steady(b, c) /\ c.state = b.state /\ ~c.cm_id
          /\ c.told = IF b.cm_id THEN "CLOSE" ELSE b.told
      BY <2>2, CloseFields
    <2> HIDE DEF c
    <2>4. ep' \in EpRecords /\ Same(c, ep') /\ Ends(0)
      BY <1>2, <2>3, DiscValues, EndEffect DEF a, b, c
    <2> QED
      BY <1>1, <1>2, <2>1, <2>2, <2>3, <2>4, DiscValues
         DEF HandlerStep, HandlerFrame, Shuts, Over, Same, Steady, Silent
  <1>3. CASE End(ep, 0, FALSE)
    <2>1. ep' \in EpRecords /\ Same(ep, ep') /\ Ends(0)
      BY <1>1, <1>3, DiscValues, EndEffect
    <2> QED
      BY <1>1, <2>1, DiscValues DEF HandlerStep, HandlerFrame, Rests, Same
  <1> QED
    BY <1>2, <1>3 DEF AbortRpl

LEMMA TerminateStep ==
  ASSUME TypeInv, Terminate
  PROVE  HandlerStep
  <1>1. /\ Worker.at = "handle" /\ ep \in EpRecords /\ ~Replying
        /\ UNCHANGED <<qp, qmutex, rxq, hw, fatal>> /\ hw' \in HwRecords /\ HwSame(hw, hw')
    BY InHandler, HwKept DEF Terminate
  <1>2. BreakHandled
    BY DEF Terminate, BreakHandled, Handling, At, Worker
  <1>3. CASE CallModify("worker", ep, "TERMINATE", "terminate") /\ UNCHANGED mutex
    <2>1. ep' = ep /\ Calls("worker", "TERMINATE", "terminate")
      BY <1>1, <1>3, WorkerCalls DEF QpStates, Thens
    <2> QED
      BY <1>1, <1>2, <1>3, <2>1 DEF HandlerStep, HandlerFrame, MovesQp, Steady, Silent
  <1>4. CASE End(ep, 2, FALSE)
    <2>1. ep' \in EpRecords /\ Same(ep, ep') /\ Ends(2)
      BY <1>1, <1>4, DiscValues, EndEffect
    <2> QED
      BY <1>1, <1>2, <2>1, DiscValues DEF HandlerStep, HandlerFrame, Rests, Settled, Same
  <1> QED
    BY <1>3, <1>4 DEF Terminate

LEMMA TerminatedStep ==
  ASSUME TypeInv, Terminated
  PROVE  HandlerStep
  <1>1. Worker.at = "after" /\ ep \in EpRecords /\ In("worker", "terminate") /\ Worker.then = "terminate"
    BY InCall DEF Terminated
  <1>2. ep' \in EpRecords /\ Same(ep, ep') /\ Ends(2)
    BY <1>1, DiscValues, EndEffect DEF Terminated
  <1>3. Settled /\ ~Replying
    BY <1>1 DEF Settled, Replying, In, Worker
  <1> QED
    BY <1>1, <1>2, <1>3, HwKept, DiscValues
       DEF Terminated, HandlerStep, HandlerFrame, Rests, Same

LEMMA FinishEffect ==
  ASSUME TypeInv, NEW e \in EpRecords, FinishPeerAbort(e)
  PROVE  /\ ep' \in EpRecords /\ Steady(e, ep') /\ ep'.state = e.state
         /\ ~ep'.cm_id /\ ep'.told = IF e.cm_id THEN "CLOSE" ELSE e.told
         /\ Ends(0)
  <1> DEFINE a == CloseUpcall(e)
             b == With_hold(a, FALSE)
  <1>1. /\ a \in EpRecords /\ Steady(e, a) /\ a.state = e.state /\ ~a.cm_id
        /\ a.told = IF e.cm_id THEN "CLOSE" ELSE e.told
    BY CloseFields
  <1>2. Proceed("worker", b, 0, TRUE, Worker.held + 1) /\ UNCHANGED mutex
    BY DEF FinishPeerAbort, With_hold
  <1> HIDE DEF a
  <1>3. b \in EpRecords /\ Same(a, b)
    BY <1>1, HoldSame
  <1> HIDE DEF b
  <1>4. ep' \in EpRecords /\ Same(b, ep') /\ Done("worker", 0)
    BY <1>2, <1>3, AbortEnds
  <1> QED
    BY <1>1, <1>2, <1>3, <1>4 DEF Ends, Same, Steady, Silent

LEMMA ReadTcbRplStep ==
  ASSUME TypeInv, ReadTcbRpl
  PROVE  HandlerStep
  <1> DEFINE a == With_tcbs(ep, ep.tcbs - 1)
             e == Put(a)
  <1>1. /\ Worker.at = "handle" /\ ep \in EpRecords /\ ~Replying
        /\ UNCHANGED <<qp, qmutex, rxq, fatal>>
    BY InHandler DEF ReadTcbRpl
  <1>2. ep.tcbs - 1 \in Int
    BY <1>1 DEF EpRecords
  <1>3. a \in EpRecords /\ Same(ep, a)
    BY <1>1, <1>2, TcbsSame
  <1>4. e \in EpRecords /\ Same(a, e)
    BY <1>3, PutSame
  <1>5. CASE End([ReadTcb(e) EXCEPT !.pdu_out = 1], 0, FALSE) /\ hw' = AskTcb(hw)
    <2> DEFINE b == ReadTcb(e)
               c == With_pdu_out(b, 1)
    <2>1. b \in EpRecords /\ Same(e, b)
      BY <1>4, ReadTcbSame
    <2>2. End(c, 0, FALSE)
      BY <1>5 DEF With_pdu_out
    <2> HIDE DEF a, b, e
    <2>3. c \in EpRecords /\ Same(b, c)
      <3>1. 1 \in 0..1
        OBVIOUS
      <3> QED
        BY <2>1, <3>1, PduOutSame
    <2> HIDE DEF c
    <2>4. ep' \in EpRecords /\ Same(c, ep') /\ Ends(0)
      BY <2>2, <2>3, DiscValues, EndEffect
    <2>5. hw' \in HwRecords /\ HwSame(hw, hw')
      BY <1>5, AskTcbSame DEF TypeInv
    <2> QED
      BY <1>1, <1>3, <1>4, <2>1, <2>3, <2>4, <2>5, DiscValues
         DEF HandlerStep, HandlerFrame, Rests, Same, Steady, Silent
  <1>6. CASE Peer /\ CallModify("worker", e, "ERROR", "tcb") /\ UNCHANGED <<mutex, hw>>
    <2>1. ep' = e /\ Calls("worker", "ERROR", "tcb")
      BY <1>4, <1>6, WorkerCalls DEF QpStates, Thens
    <2> HIDE DEF a, e
    <2> QED
      BY <1>1, <1>3, <1>4, <1>6, <2>1, HwKept
         DEF HandlerStep, HandlerFrame, MovesQp, Same, Steady, Silent
  <1>7. CASE Peer /\ FinishPeerAbort(e) /\ UNCHANGED hw
    <2> HIDE DEF a, e
    <2>1. /\ ep' \in EpRecords /\ Steady(e, ep') /\ ep'.state = e.state
          /\ ~ep'.cm_id /\ ep'.told = IF e.cm_id THEN "CLOSE" ELSE e.told
          /\ Ends(0)
      BY <1>4, <1>7, FinishEffect
    <2> QED
      BY <1>1, <1>3, <1>4, <1>7, <2>1, HwKept, DiscValues
         DEF HandlerStep, HandlerFrame, Shuts, Over, Same, Steady, Silent
  <1>8. CASE End(e, 0, FALSE) /\ (hw' = AskAbort(hw) \/ hw' = hw)
    <2> HIDE DEF a, e
    <2>1. ep' \in EpRecords /\ Same(e, ep') /\ Ends(0)
      BY <1>4, <1>8, DiscValues, EndEffect
    <2>2. hw' \in HwRecords /\ HwSame(hw, hw')
      BY <1>8, HwKept, AskAbortSame DEF TypeInv
    <2> QED
      BY <1>1, <1>3, <1>4, <2>1, <2>2, DiscValues
         DEF HandlerStep, HandlerFrame, Rests, Same, Steady, Silent
  <1> HIDE DEF a
  <1>9. e = Put([ep EXCEPT !.tcbs = @ - 1])
    BY DEF a, With_tcbs
  <1> HIDE DEF e
  <1> QED
    BY <1>5, <1>6, <1>7, <1>8, <1>9 DEF ReadTcbRpl, Peer, Peers

LEMMA TcbReadStep ==
  ASSUME TypeInv, TcbRead
  PROVE  HandlerStep
  <1>1. Worker.at = "after" /\ ep \in EpRecords /\ In("worker", "tcb")
    BY InCall DEF TcbRead
  <1>2. /\ ep' \in EpRecords /\ Steady(ep, ep') /\ ep'.state = ep.state
        /\ ~ep'.cm_id /\ ep'.told = IF ep.cm_id THEN "CLOSE" ELSE ep.told
        /\ Ends(0)
    BY <1>1, FinishEffect DEF TcbRead
  <1> QED
    BY <1>1, <1>2, HwKept, DiscValues
       DEF TcbRead, HandlerStep, HandlerFrame, Shuts, Over

LEMMA ProcessTimeoutStep ==
  ASSUME TypeInv, SideInv, ProcessTimeout
  PROVE  HandlerStep
  <1>1. /\ Worker.at = "timeout" /\ ep \in EpRecords /\ ~Replying /\ mutex = "free"
        /\ UNCHANGED <<qp, qmutex, rxq, hw, fatal>> /\ hw' \in HwRecords /\ HwSame(hw, hw')
    BY HwKept DEF ProcessTimeout, At, Worker, TypeInv, Replying, In, Busy
  <1>2. CASE ep.state = "MPA_REQ_SENT" /\ End(ConnectReply(ep, FALSE), 2, FALSE)
    <2> DEFINE b == ConnectReply(ep, FALSE)
    <2>1. /\ b \in EpRecords /\ Steady(ep, b) /\ b.state = ep.state /\ ~b.cm_id
          /\ b.told = IF ep.cm_id THEN "REFUSED" ELSE ep.told
      BY <1>1, RefuseFields
    <2> HIDE DEF b
    <2>2. ep' \in EpRecords /\ Same(b, ep') /\ Ends(2)
      BY <1>2, <2>1, DiscValues, EndEffect DEF b
    <2> QED
      BY <1>1, <1>2, <2>1, <2>2, DiscValues
         DEF HandlerStep, HandlerFrame, Refuses, Same, Steady, Silent
  <1>3. CASE /\ ep.state \in {"MPA_REQ_WAIT", "MPA_REQ_RCVD", "MPA_REP_SENT", "FPDU_MODE"}
             /\ End(ep, 2, FALSE)
    <2>1. ep' \in EpRecords /\ Same(ep, ep') /\ Ends(2)
      BY <1>1, <1>3, DiscValues, EndEffect
    <2> QED
      BY <1>1, <1>3, <2>1, DiscValues DEF HandlerStep, HandlerFrame, Rests, Settled, Same
  <1>4. CASE /\ ep.state \in {"CLOSING", "MORIBUND"}
             /\ CallModify("worker", ep, "ERROR", "timeout") /\ mutex' = "worker"
    <2>1. ep' = ep /\ Calls("worker", "ERROR", "timeout")
      BY <1>1, <1>4, WorkerCalls DEF QpStates, Thens
    <2>2. "ERROR" \in QpStates \ {"RTS"}
      BY DEF QpStates
    <2> QED
      BY <1>1, <1>4, <2>1, <2>2 DEF HandlerStep, HandlerFrame, MovesQp, Steady, Silent
  <1>5. CASE ep.state \in {"CLOSING", "MORIBUND"} /\ End(CloseUpcall(ep), 2, FALSE)
    <2> DEFINE b == CloseUpcall(ep)
    <2>1. /\ b \in EpRecords /\ Steady(ep, b) /\ b.state = ep.state /\ ~b.cm_id
          /\ b.told = IF ep.cm_id THEN "CLOSE" ELSE ep.told
      BY <1>1, CloseFields
    <2> HIDE DEF b
    <2>2. ep' \in EpRecords /\ Same(b, ep') /\ Ends(2)
      BY <1>5, <2>1, DiscValues, EndEffect DEF b
    <2> QED
      BY <1>1, <1>5, <2>1, <2>2, DiscValues
         DEF HandlerStep, HandlerFrame, Shuts, Over, Same, Steady, Silent
  <1>6. CASE End(ep, 0, FALSE)
    <2>1. ep' \in EpRecords /\ Same(ep, ep') /\ Ends(0)
      BY <1>1, <1>6, DiscValues, EndEffect
    <2> QED
      BY <1>1, <2>1, DiscValues DEF HandlerStep, HandlerFrame, Rests, Same
  <1> QED
    BY <1>2, <1>3, <1>4, <1>5, <1>6 DEF ProcessTimeout

LEMMA TimedOutStep ==
  ASSUME TypeInv, TimedOut
  PROVE  HandlerStep
  <1> DEFINE b == CloseUpcall(ep)
  <1>1. Worker.at = "after" /\ ep \in EpRecords /\ In("worker", "timeout")
    BY InCall DEF TimedOut
  <1>2. /\ b \in EpRecords /\ Steady(ep, b) /\ b.state = ep.state /\ ~b.cm_id
        /\ b.told = IF ep.cm_id THEN "CLOSE" ELSE ep.told
    BY <1>1, CloseFields
  <1> HIDE DEF b
  <1>3. ep' \in EpRecords /\ Same(b, ep') /\ Ends(2)
    BY <1>2, DiscValues, EndEffect DEF TimedOut, b
  <1> QED
    BY <1>1, <1>2, <1>3, HwKept, DiscValues
       DEF TimedOut, HandlerStep, HandlerFrame, Shuts, Over, Same, Steady, Silent

-----------------------------------------------------------------------------
(* Opening the connection anew. *)

(* e, with its identifiers gone. *)
Kept(e, f) ==
  /\ f \in EpRecords /\ f.side = e.side
  /\ (f.qp <=> e.qp) /\ (f.ulp <=> e.ulp)
  /\ (f.retry_v1 <=> e.retry_v1) /\ (Peers(f) <=> Peers(e))

Reopens(e) ==
  /\ Kept(e, ep') /\ ep'.hwtid # "own" /\ Done("worker", 0)
  /\ \/ Silent(e, ep') /\ ep'.state = "CONNECTING" /\ hw' = NewConn
     \/ Silent(e, ep') /\ ep'.state = e.state /\ UNCHANGED hw
     \/ /\ ep'.told = IF e.cm_id THEN "REFUSED" ELSE e.told
        /\ ~ep'.cm_id /\ ep'.state = e.state /\ UNCHANGED hw

LEMMA ReturnsEffect ==
  ASSUME TypeInv, NEW e \in EpRecords, NEW held \in Nat,
         Proceed("worker", e, 0, FALSE, held)
  PROVE  ep' \in EpRecords /\ Same(e, ep') /\ Done("worker", 0)
  BY ProceedEffect, DiscValues DEF TypeInv, Threaded, Threads

(* c4iw_reconnect gives up: the base reference goes. *)
LEMMA QuitEffect ==
  ASSUME TypeInv, NEW e \in EpRecords, NEW held \in Nat,
         Proceed("worker", Put([e EXCEPT !.base = FALSE]), 0, FALSE, held)
  PROVE  ep' \in EpRecords /\ Same(e, ep') /\ Done("worker", 0)
  <1> DEFINE a == With_base(e, FALSE)
             b == Put(a)
  <1>1. Proceed("worker", b, 0, FALSE, held)
    BY DEF With_base
  <1>2. a \in EpRecords /\ Same(e, a)
    BY BaseSame
  <1> HIDE DEF a
  <1>3. b \in EpRecords /\ Same(a, b)
    BY <1>2, PutSame
  <1> HIDE DEF b
  <1>4. ep' \in EpRecords /\ Same(b, ep') /\ Done("worker", 0)
    BY <1>1, <1>3, ReturnsEffect
  <1> QED
    BY <1>2, <1>3, <1>4 DEF Same, Steady, Silent

LEMMA ReconnectEffect ==
  ASSUME TypeInv, NEW e \in EpRecords, NEW held \in Nat, Reconnect(e, held)
  PROVE  Reopens(e)
  <1> DEFINE tid == IF e.hwtid = "none" THEN "none" ELSE "stale"
             a == With_wr_done(e, 0)
             b == With_wr_ret(a, "ok")
             f == With_hwtid(b, tid)
  <1>1. f = [e EXCEPT !.wr_done = 0, !.wr_ret = "ok",
                      !.hwtid = IF @ = "none" THEN "none" ELSE "stale"]
    BY DEF With_wr_done, With_wr_ret, With_hwtid
  <1>2. tid \in {"none", "own", "stale", "erased"} /\ tid # "own"
    OBVIOUS
  <1> HIDE DEF tid
  <1>3. a \in EpRecords /\ Same(e, a)
    BY WrDoneSame
  <1> HIDE DEF a
  <1>4. b \in EpRecords /\ Same(a, b)
    BY <1>3, WrRetSame DEF Rets
  <1> HIDE DEF b
  <1>5. /\ f \in EpRecords /\ Silent(b, f) /\ f.state = b.state /\ f.side = b.side
        /\ f.hwtid = tid
        /\ (f.qp <=> b.qp) /\ (f.ulp <=> b.ulp)
        /\ (f.retry_v1 <=> b.retry_v1) /\ (Peers(f) <=> Peers(b))
    BY <1>2, <1>4, TidFields
  <1> HIDE DEF f
  <1>6. Kept(e, f) /\ f.hwtid # "own" /\ Silent(e, f) /\ f.state = e.state
    BY <1>2, <1>3, <1>4, <1>5 DEF Kept, Same, Steady, Silent
  <1>7. CASE Proceed("worker", SetState(f, "CONNECTING"), 0, FALSE, held) /\ hw' = NewConn
    <2> DEFINE g == SetState(f, "CONNECTING")
    <2>1. g \in EpRecords /\ g.state = "CONNECTING" /\ Steady(f, g) /\ Silent(f, g)
      BY <1>5, StateFields DEF States, Connecting
    <2> HIDE DEF g
    <2>2. ep' \in EpRecords /\ Same(g, ep') /\ Done("worker", 0)
      BY <1>7, <2>1, ReturnsEffect DEF g
    <2> QED
      BY <1>6, <1>7, <2>1, <2>2 DEF Reopens, Kept, Same, Steady, Silent
  <1>8. CASE /\ Proceed("worker", Put([f EXCEPT !.base = FALSE]), 0, FALSE, held)
             /\ UNCHANGED hw
    <2>1. ep' \in EpRecords /\ Same(f, ep') /\ Done("worker", 0)
      BY <1>5, <1>8, QuitEffect
    <2> QED
      BY <1>6, <1>8, <2>1 DEF Reopens, Kept, Same, Steady, Silent
  <1>9. CASE /\ Proceed("worker", Put([ConnectReply(f, FALSE) EXCEPT !.base = FALSE]), 0, FALSE, held)
             /\ UNCHANGED hw
    <2> DEFINE g == ConnectReply(f, FALSE)
    <2>1. /\ g \in EpRecords /\ Steady(f, g) /\ g.state = f.state /\ ~g.cm_id
          /\ g.told = IF f.cm_id THEN "REFUSED" ELSE f.told
      BY <1>5, RefuseFields
    <2> HIDE DEF g
    <2>2. ep' \in EpRecords /\ Same(g, ep') /\ Done("worker", 0)
      BY <1>9, <2>1, QuitEffect DEF g
    <2> QED
      BY <1>6, <1>9, <2>1, <2>2 DEF Reopens, Kept, Same, Steady, Silent
  <1> QED
    BY <1>1, <1>7, <1>8, <1>9 DEF Reconnect

(* The last part of peer_abort. *)
Aborts(e) ==
  /\ mutex' = "free"
  /\ \/ e.retry_v1 /\ \E f : Steady(e, f) /\ Silent(e, f) /\ f.state = "DEAD" /\ Reopens(f)
     \/ /\ ~e.retry_v1 /\ ep' \in EpRecords /\ Steady(e, ep') /\ Silent(e, ep')
        /\ ep'.state = "DEAD" /\ Done("worker", 0) /\ UNCHANGED hw

LEMMA AbortedEffect ==
  ASSUME TypeInv, NEW e \in EpRecords, Aborted(e)
  PROVE  Aborts(e)
  <1> DEFINE a == With_intr(e, e.intr - 1)
             f == SetState(a, "DEAD")
  <1>1. f = SetState([e EXCEPT !.intr = @ - 1], "DEAD")
    BY DEF With_intr
  <1>2. e.intr - 1 \in Int /\ Worker.held + 1 \in Nat
    BY DEF EpRecords, TypeInv, ThrRecords, Worker, Threads
  <1>3. a \in EpRecords /\ Same(e, a)
    BY <1>2, IntrSame
  <1> HIDE DEF a
  <1>4. f \in EpRecords /\ f.state = "DEAD" /\ Steady(a, f) /\ Silent(a, f)
    BY <1>3, StateFields DEF States
  <1> HIDE DEF f
  <1>5. CASE e.retry_v1 /\ Reconnect(f, Worker.held + 1)
    <2>1. Reopens(f)
      BY <1>2, <1>4, <1>5, ReconnectEffect
    <2> QED
      BY <1>3, <1>4, <1>5, <2>1 DEF Aborted, Aborts, Same, Steady, Silent
  <1>6. CASE ~e.retry_v1 /\ Proceed("worker", f, 0, TRUE, Worker.held + 1) /\ UNCHANGED hw
    <2>1. ep' \in EpRecords /\ Same(f, ep') /\ Done("worker", 0)
      BY <1>4, <1>6, AbortEnds
    <2> QED
      BY <1>3, <1>4, <1>6, <2>1 DEF Aborted, Aborts, Same, Steady, Silent
  <1> QED
    BY <1>1, <1>5, <1>6 DEF Aborted

LEMMA EndKeepsTypes ==
  ASSUME TypeInv, ep' \in EpRecords, hw' \in HwRecords, UNCHANGED <<qp, qmutex, rxq, fatal>>,
         mutex' \in {mutex, "free"}, NEW disc \in 0..2, Done("worker", disc)
  PROVE  TypeInv'
  BY DEF TypeInv, Done, Others, Threaded, In, Busy, Threads

LEMMA ActOpenRplKeeps ==
  ASSUME TypeInv, EventInv, ActOpenRpl
  PROVE  TypeInv' /\ EventInv' /\ CmStep
  <1>1. /\ Worker.at = "handle" /\ Worker.cpl.op = "ACT_OPEN_RPL" /\ mutex = "free"
        /\ ep \in EpRecords /\ hw \in HwRecords
        /\ UNCHANGED <<qp, mutex, qmutex, rxq, fatal>>
    BY DEF ActOpenRpl, Handling, At, Worker, TypeInv
  <1>2. Active /\ OpenHandled
    BY <1>1 DEF EventInv, SideInv, Sided, ActOps, OpenHandled, OpenOps
  <1>3. CASE /\ ep.retries < ActOpenRetries
             /\ Reconnect([ep EXCEPT !.retries = @ + 1], 0)
    <2> DEFINE e == With_retries(ep, ep.retries + 1)
    <2>1. ep.retries + 1 \in 0..ActOpenRetries
      BY <1>1, <1>3 DEF EpRecords, ActOpenRetries
    <2>2. e \in EpRecords /\ Same(ep, e)
      BY <1>1, <2>1, RetriesSame
    <2>3. Reconnect(e, 0)
      BY <1>3 DEF With_retries
    <2> HIDE DEF e
    <2>4. Reopens(e)
      BY <2>2, <2>3, ReconnectEffect
    <2>5. TypeInv'
      BY <1>1, <2>4, NewConnFields, DiscValues, EndKeepsTypes DEF Reopens, Kept
    <2>6. EventInv' /\ CmStep
      BY <1>1, <1>2, <2>2, <2>4, RxKept, NewConnFields
         DEF Reopens, Kept, EventInv, SideInv, LockInv, OnceInv, ActiveInv, PassiveInv, CloseInv,
             CmStep, Up, Locked, Late, HearingEnd, Pending, Fresh, Unasked, Coming, Opening,
             OpenHandled, BreakHandled, OpenOps, ActOps, Replying, Accepting, In, Busy, Peer,
             Active, Worker, Done, Others, Steady, Same, Silent, Threads, Sided
    <2> QED
      BY <2>5, <2>6
  <1>4. CASE /\ Proceed("worker", Put([SetState(ConnectReply(ep, FALSE), "DEAD")
                                        EXCEPT !.base = FALSE]), 0, FALSE, 0)
             /\ UNCHANGED hw
    <2> DEFINE a == ConnectReply(ep, FALSE)
               b == SetState(a, "DEAD")
    <2>1. /\ a \in EpRecords /\ Steady(ep, a) /\ a.state = ep.state /\ ~a.cm_id
          /\ a.told = IF ep.cm_id THEN "REFUSED" ELSE ep.told
      BY <1>1, RefuseFields
    <2> HIDE DEF a
    <2>2. b \in EpRecords /\ b.state = "DEAD" /\ Steady(a, b) /\ Silent(a, b)
      BY <2>1, StateFields DEF States
    <2> HIDE DEF b
    <2>3. ep' \in EpRecords /\ Same(b, ep') /\ Done("worker", 0)
      BY <1>4, <2>2, QuitEffect DEF a, b
    <2>4. TypeInv'
      BY <1>1, <1>4, <2>3, DiscValues, EndKeepsTypes
    <2>5. EventInv' /\ CmStep
      BY <1>1, <1>2, <1>4, <2>1, <2>2, <2>3, RxKept
         DEF EventInv, SideInv, LockInv, OnceInv, ActiveInv, PassiveInv, CloseInv,
             CmStep, Up, Locked, Late, HearingEnd, Pending, Fresh, Unasked, Coming, Opening,
             OpenHandled, BreakHandled, OpenOps, ActOps, Replying, Accepting, In, Busy, Peer,
             Active, Worker, Done, Others, Steady, Same, Silent, Threads, Sided
    <2> QED
      BY <2>4, <2>5
  <1> QED
    BY <1>3, <1>4 DEF ActOpenRpl

(* What peer_abort did to the endpoint before. *)
Heeds(e) ==
  \/ /\ mutex = "free" /\ Worker.at = "handle" /\ Worker.cpl.op = "ABORT_REQ"
     /\ ep.state \in {"CONNECTING", "MPA_REQ_WAIT", "MPA_REQ_RCVD", "MPA_REP_SENT"}
     /\ Same(ep, e)
  \/ /\ mutex = "free" /\ Worker.at = "handle" /\ ep.state = "MPA_REQ_SENT"
     /\ \/ /\ Steady(ep, e) /\ e.state = ep.state
           /\ ~e.cm_id /\ e.told = IF ep.cm_id THEN "REFUSED" ELSE ep.told
        \/ /\ e.side = ep.side /\ (e.qp <=> ep.qp) /\ (e.ulp <=> ep.ulp) /\ e.retry_v1
           /\ (Peers(e) <=> Peers(ep)) /\ e.state = ep.state /\ Silent(ep, e)
  \/ /\ \/ /\ mutex = "free" /\ Worker.at = "handle"
           /\ ep.state \in {"FPDU_MODE", "CLOSING", "MORIBUND"}
        \/ In("worker", "peer_abort")
     /\ Steady(ep, e) /\ e.state = ep.state
     /\ ~e.cm_id /\ e.told = IF ep.cm_id THEN "CLOSE" ELSE ep.told

LEMMA AbortsKeep ==
  ASSUME TypeInv, EventInv, UNCHANGED <<qp, qmutex, rxq, fatal>>,
         NEW e \in EpRecords, Heeds(e), Aborts(e)
  PROVE  TypeInv' /\ EventInv' /\ CmStep
  <1>1. ep' \in EpRecords /\ hw' \in HwRecords /\ Done("worker", 0) /\ mutex' = "free"
    BY NewConnFields DEF Aborts, Reopens, Kept, TypeInv
  <1>2. TypeInv'
    BY <1>1, DiscValues, EndKeepsTypes
  <1>3. e.side = ep.side /\ ep'.side = ep.side /\ ep.side \in {"active", "passive"}
    BY EndpointAssumption DEF Heeds, Aborts, Reopens, Kept, Steady, Same, TypeInv, EpRecords
  <1> USE <1>1, <1>3, RxKept, NewConnFields
       DEF Reopens, Kept, EventInv, SideInv, LockInv, OnceInv, ActiveInv, PassiveInv, CloseInv,
           CmStep, Up, Locked, Late, HearingEnd, Pending, Fresh, Unasked, Coming, Opening,
           OpenHandled, BreakHandled, OpenOps, ActOps, Replying, Accepting, In, Busy, Peer,
           Active, Worker, Done, Others, Steady, Same, Silent, Threads, Sided, Untid
  <1>4. CASE e.retry_v1
    <2>1. PICK f : Steady(e, f) /\ Silent(e, f) /\ f.state = "DEAD" /\ Reopens(f)
      BY <1>4 DEF Aborts
    <2>2. EventInv' /\ CmStep
      BY <1>4, <2>1 DEF Heeds
    <2> QED
      BY <1>2, <2>2
  <1>5. CASE ~e.retry_v1
    <2>1. /\ Steady(e, ep') /\ Silent(e, ep') /\ ep'.state = "DEAD" /\ UNCHANGED hw
      BY <1>5 DEF Aborts
    <2>2. EventInv' /\ CmStep
      BY <1>5, <2>1 DEF Heeds
    <2> QED
      BY <1>2, <2>2
  <1> QED
    BY <1>4, <1>5

LEMMA PeerAbortedKeeps ==
  ASSUME TypeInv, EventInv, PeerAborted
  PROVE  TypeInv' /\ EventInv' /\ CmStep
  <1> DEFINE e == CloseUpcall(ep)
  <1>1. In("worker", "peer_abort") /\ ep \in EpRecords /\ UNCHANGED <<qp, qmutex, rxq, fatal>>
    BY InCall DEF PeerAborted
  <1>2. /\ e \in EpRecords /\ Steady(ep, e) /\ e.state = ep.state /\ ~e.cm_id
        /\ e.told = IF ep.cm_id THEN "CLOSE" ELSE ep.told
    BY <1>1, CloseFields
  <1>3. Aborted(e)
    BY DEF PeerAborted
  <1> HIDE DEF e
  <1>4. Aborts(e) /\ Heeds(e)
    BY <1>1, <1>2, <1>3, AbortedEffect DEF Heeds
  <1> QED
    BY <1>1, <1>2, <1>4, AbortsKeep

(* The endpoint waits for its TCB. *)
LEMMA WaitsKeep ==
  ASSUME TypeInv, EventInv, UNCHANGED <<qp, qmutex, rxq, mutex, fatal>>,
         Worker.at = "handle", mutex = "free",
         ep.state \in {"FPDU_MODE", "CLOSING", "MORIBUND"}, ep.qp,
         ep' \in EpRecords, Peers(ep'), Silent(ep, ep'), ep'.state = "ABORTING",
         ep'.side = ep.side, ep'.hwtid = ep.hwtid, ep'.qp <=> ep.qp, ep'.ulp <=> ep.ulp,
         ep'.retry_v1 <=> ep.retry_v1, Done("worker", 0),
         hw' \in HwRecords, HwSame(hw, hw')
  PROVE  TypeInv' /\ EventInv' /\ CmStep
  <1>1. TypeInv'
    BY DiscValues, EndKeepsTypes
  <1>2. EventInv' /\ CmStep
    BY RxKept
       DEF EventInv, SideInv, LockInv, OnceInv, ActiveInv, PassiveInv, CloseInv,
           CmStep, Up, Locked, Late, HearingEnd, Pending, Fresh, Unasked, Coming, Opening,
           OpenHandled, BreakHandled, OpenOps, ActOps, Replying, Accepting, In, Busy, Peer,
           Active, Worker, Done, Others, Steady, Same, Silent, Threads, Sided, HwSame
  <1> QED
    BY <1>1, <1>2

LEMMA HandlerKeeps ==
  ASSUME TypeInv, EventInv, HandlerStep
  PROVE  TypeInv' /\ EventInv' /\ CmStep
  BY HandlerKeepsTypes, HandlerKeepsEvents

LEMMA UnheededStep ==
  ASSUME TypeInv, Worker.at = "handle", UNCHANGED <<qp, qmutex, rxq, fatal>>,
         AbortUnheeded(ep)
  PROVE  HandlerStep
  <1> DEFINE a == With_intr(ep, ep.intr - 1)
  <1>1. ep \in EpRecords /\ ep.intr - 1 \in Int /\ ~Replying
    BY DEF TypeInv, EpRecords, Replying, In, Busy, Worker
  <1>2. a \in EpRecords /\ Same(ep, a)
    BY <1>1, IntrSame
  <1>3. Proceed("worker", a, 0, FALSE, Worker.held + 1) /\ UNCHANGED <<mutex, hw>>
    BY DEF AbortUnheeded, With_intr
  <1> HIDE DEF a
  <1>4. ep' \in EpRecords /\ Same(a, ep') /\ Done("worker", 0)
    BY <1>2, <1>3, AbortEnds
  <1> QED
    BY <1>1, <1>2, <1>3, <1>4, HwKept, DiscValues
       DEF HandlerStep, HandlerFrame, Rests, Ends, Same, Steady, Silent

LEMMA PeerAbortRdmaKeeps ==
  ASSUME TypeInv, EventInv, PeerAbortRdma, Worker.at = "handle", mutex = "free",
         UNCHANGED <<qp, qmutex, rxq, fatal>>
  PROVE  TypeInv' /\ EventInv' /\ CmStep
  <1> DEFINE e == IF ep.state = "FPDU_MODE" THEN ep ELSE StopTimer(ep)
             a == Get(e)
             b == SetState(a, "ABORTING")
             f == SetFlag(b, "PEER_ABORT_IN_PROGRESS")
             c == ReadTcb(f)
             g == With_hold(c, TRUE)
             h == With_intr(g, g.intr - 1)
  <1>1. ep \in EpRecords /\ ep.state \in {"FPDU_MODE", "CLOSING", "MORIBUND"}
    BY DEF TypeInv, PeerAbortRdma
  <1>2. e \in EpRecords /\ Same(ep, e)
    BY <1>1, StopTimerSame, SameReflexive
  <1> HIDE DEF e
  <1>3. CASE /\ ViaTcb /\ hw' = AskTcb(hw) /\ UNCHANGED mutex
             /\ Proceed("worker", h, 0, FALSE, Worker.held + 1)
    <2>1. a \in EpRecords /\ Same(e, a)
      BY <1>2, GetSame
    <2> HIDE DEF a
    <2>2. b \in EpRecords /\ b.state = "ABORTING" /\ Steady(a, b) /\ Silent(a, b)
      BY <2>1, StateFields DEF States
    <2> HIDE DEF b
    <2>3. /\ f \in EpRecords /\ Peers(f) /\ Silent(b, f) /\ f.state = b.state
          /\ f.side = b.side /\ f.hwtid = b.hwtid
          /\ (f.qp <=> b.qp) /\ (f.ulp <=> b.ulp) /\ (f.retry_v1 <=> b.retry_v1)
      BY <2>2, PeerFlag
    <2> HIDE DEF f
    <2>4. c \in EpRecords /\ Same(f, c)
      BY <2>3, ReadTcbSame
    <2> HIDE DEF c
    <2>5. g \in EpRecords /\ Same(c, g)
      BY <2>4, HoldSame
    <2> HIDE DEF g
    <2>6. h \in EpRecords /\ Same(g, h)
      <3>1. g.intr - 1 \in Int
        BY <2>5 DEF EpRecords
      <3> QED
        BY <2>5, <3>1, IntrSame
    <2> HIDE DEF h
    <2>7. ep' \in EpRecords /\ Same(h, ep') /\ Done("worker", 0)
      BY <1>3, <2>6, AbortEnds
    <2>8. hw' \in HwRecords /\ HwSame(hw, hw')
      BY <1>3, AskTcbSame DEF TypeInv
    <2>9. /\ ep' \in EpRecords /\ Peers(ep') /\ Silent(ep, ep') /\ ep'.state = "ABORTING"
          /\ ep'.side = ep.side /\ ep'.hwtid = ep.hwtid /\ (ep'.qp <=> ep.qp)
          /\ (ep'.ulp <=> ep.ulp) /\ (ep'.retry_v1 <=> ep.retry_v1)
      BY <1>2, <2>1, <2>2, <2>3, <2>4, <2>5, <2>6, <2>7 DEF Same, Steady, Silent
    <2>10. ep.qp /\ UNCHANGED mutex
      BY <1>3 DEF ViaTcb
    <2> QED
      BY <1>1, <2>7, <2>8, <2>9, <2>10, WaitsKeep
  <1>4. CASE /\ CallModify("worker", e, "ERROR", "peer_abort") /\ mutex' = "worker"
             /\ UNCHANGED hw
    <2>1. ep' = e /\ Calls("worker", "ERROR", "peer_abort")
      BY <1>2, <1>4, WorkerCalls DEF QpStates, Thens
    <2>2. "ERROR" \in QpStates \ {"RTS"}
      BY DEF QpStates
    <2>3. HandlerStep
      BY <1>1, <1>2, <1>4, <2>1, <2>2, HwKept
         DEF HandlerStep, HandlerFrame, MovesQp, Same, Steady, Silent
    <2> QED
      BY <2>3, HandlerKeeps
  <1>5. CASE Aborted(CloseUpcall(e))
    <2> DEFINE d == CloseUpcall(e)
    <2>1. /\ d \in EpRecords /\ Steady(e, d) /\ d.state = e.state /\ ~d.cm_id
          /\ d.told = IF e.cm_id THEN "CLOSE" ELSE e.told
      BY <1>2, CloseFields
    <2> HIDE DEF d
    <2>2. Aborts(d)
      BY <1>5, <2>1, AbortedEffect DEF d
    <2>3. Heeds(d)
      BY <1>1, <1>2, <2>1 DEF Heeds, Same, Steady, Silent
    <2> QED
      BY <2>1, <2>2, <2>3, AbortsKeep
  <1>6. h = [ReadTcb(f) EXCEPT !.hold = TRUE, !.intr = @ - 1]
    BY DEF With_hold, With_intr
  <1> HIDE DEF h, g, c
  <1> QED
    BY <1>3, <1>4, <1>5, <1>6 DEF PeerAbortRdma, e, f, b, a

LEMMA RetryFields ==
  ASSUME NEW e \in EpRecords
  PROVE  LET f == [e EXCEPT !.retry_v1 = TRUE] IN
         /\ f \in EpRecords /\ f.retry_v1 /\ Silent(e, f) /\ f.state = e.state
         /\ f.side = e.side /\ f.hwtid = e.hwtid
         /\ (f.qp <=> e.qp) /\ (f.ulp <=> e.ulp) /\ (Peers(f) <=> Peers(e))
  BY DEF EpRecords, Silent, Peers

LEMMA PeerAbortKeeps ==
  ASSUME TypeInv, EventInv, PeerAbort
  PROVE  TypeInv' /\ EventInv' /\ CmStep
  <1>1. /\ Worker.at = "handle" /\ ep \in EpRecords /\ UNCHANGED <<qp, qmutex, rxq, fatal>>
        /\ Worker.cpl.op = "ABORT_REQ"
    BY InHandler DEF PeerAbort, Handling
  <1>2. CASE AbortUnheeded(ep)
    BY <1>1, <1>2, UnheededStep, HandlerKeeps
  <1>3. CASE mutex = "free" /\ ep.state = "CONNECTING" /\ Aborted(PutParent(ep))
    <2> DEFINE e == PutParent(ep)
    <2>1. e \in EpRecords /\ Same(ep, e)
      BY <1>1, ParentSame
    <2> HIDE DEF e
    <2>2. Aborts(e) /\ Heeds(e)
      BY <1>1, <1>3, <2>1, AbortedEffect DEF e, Heeds
    <2> QED
      BY <1>1, <2>1, <2>2, AbortsKeep
  <1>4. CASE mutex = "free" /\ ep.state = "MPA_REQ_WAIT" /\ Aborted(StopTimer(ep))
    <2> DEFINE e == StopTimer(ep)
    <2>1. e \in EpRecords /\ Same(ep, e)
      BY <1>1, StopTimerSame
    <2> HIDE DEF e
    <2>2. Aborts(e) /\ Heeds(e)
      BY <1>1, <1>4, <2>1, AbortedEffect DEF e, Heeds
    <2> QED
      BY <1>1, <2>1, <2>2, AbortsKeep
  <1>5. CASE /\ mutex = "free" /\ ep.state = "MPA_REQ_SENT"
             /\ Aborted(ConnectReply(StopTimer(ep), FALSE))
    <2> DEFINE a == StopTimer(ep)
               e == ConnectReply(a, FALSE)
    <2>1. a \in EpRecords /\ Same(ep, a)
      BY <1>1, StopTimerSame
    <2> HIDE DEF a
    <2>2. /\ e \in EpRecords /\ Steady(a, e) /\ e.state = a.state /\ ~e.cm_id
          /\ e.told = IF a.cm_id THEN "REFUSED" ELSE a.told
      BY <2>1, RefuseFields
    <2> HIDE DEF e
    <2>3. Aborts(e) /\ Heeds(e)
      BY <1>1, <1>5, <2>1, <2>2, AbortedEffect DEF e, a, Heeds, Same, Steady, Silent
    <2> QED
      BY <1>1, <2>2, <2>3, AbortsKeep
  <1>6. CASE /\ mutex = "free" /\ ep.state = "MPA_REQ_SENT"
             /\ Aborted([StopTimer(ep) EXCEPT !.retry_v1 = TRUE])
    <2> DEFINE a == StopTimer(ep)
               e == [a EXCEPT !.retry_v1 = TRUE]
    <2>1. a \in EpRecords /\ Same(ep, a)
      BY <1>1, StopTimerSame
    <2> HIDE DEF a
    <2>2. /\ e \in EpRecords /\ e.retry_v1 /\ Silent(a, e) /\ e.state = a.state
          /\ e.side = a.side /\ e.hwtid = a.hwtid
          /\ (e.qp <=> a.qp) /\ (e.ulp <=> a.ulp) /\ (Peers(e) <=> Peers(a))
      BY <2>1, RetryFields
    <2> HIDE DEF e
    <2>3. Aborts(e)
      BY <1>6, <2>2, AbortedEffect DEF e, a
    <2>4. Heeds(e)
      BY <1>1, <1>6, <2>1, <2>2 DEF Heeds, Same, Steady, Silent
    <2> QED
      BY <1>1, <2>2, <2>3, <2>4, AbortsKeep
  <1>7. CASE mutex = "free" /\ ep.state \in {"MPA_REQ_RCVD", "MPA_REP_SENT"} /\ Aborted(ep)
    <2>1. Aborts(ep) /\ Heeds(ep)
      BY <1>1, <1>7, AbortedEffect, SameReflexive DEF Heeds
    <2> QED
      BY <1>1, <2>1, AbortsKeep
  <1>8. CASE mutex = "free" /\ PeerAbortRdma
    BY <1>1, <1>8, PeerAbortRdmaKeeps
  <1> QED
    BY <1>2, <1>3, <1>4, <1>5, <1>6, <1>7, <1>8 DEF PeerAbort

-----------------------------------------------------------------------------
(* The connection is open; the peer asks. *)

LEMMA SendMpaReqFields ==
  ASSUME NEW e \in EpRecords
  PROVE  LET f == SendMpaReq(e) IN
         /\ f \in EpRecords /\ ~f.retry_v1 /\ Silent(e, f) /\ f.state = "MPA_REQ_SENT"
         /\ f.side = e.side /\ f.hwtid = e.hwtid
         /\ (f.qp <=> e.qp) /\ (f.ulp <=> e.ulp) /\ (Peers(f) <=> Peers(e))
  <1> DEFINE a == [e EXCEPT !.mpa_skb = TRUE, !.tried_v1 = @ \/ e.retry_v1 \/ MpaRev = 1,
                            !.retry_v1 = FALSE]
             b == StartTimer(a)
  <1>1. /\ a \in EpRecords /\ ~a.retry_v1 /\ Silent(e, a) /\ a.state = e.state
        /\ a.side = e.side /\ a.hwtid = e.hwtid
        /\ (a.qp <=> e.qp) /\ (a.ulp <=> e.ulp) /\ (Peers(a) <=> Peers(e))
    BY DEF EpRecords, Silent, Peers
  <1> HIDE DEF a
  <1>2. b \in EpRecords /\ Same(a, b)
    BY <1>1, StartTimerSame
  <1> HIDE DEF b
  <1>3. LET f == SetState(b, "MPA_REQ_SENT") IN
        f \in EpRecords /\ f.state = "MPA_REQ_SENT" /\ Steady(b, f) /\ Silent(b, f)
    BY <1>2, StateFields DEF States, Connecting
  <1>4. SendMpaReq(e) = SetState(b, "MPA_REQ_SENT")
    BY DEF SendMpaReq, b, a
  <1> QED
    BY <1>1, <1>2, <1>3, <1>4 DEF Same, Steady, Silent

LEMMA UlpFields ==
  ASSUME NEW e \in EpRecords, NEW b \in BOOLEAN
  PROVE  LET f == [e EXCEPT !.ulp = b] IN
         /\ f \in EpRecords /\ (f.ulp <=> b) /\ Silent(e, f) /\ f.state = e.state
         /\ f.side = e.side /\ f.hwtid = e.hwtid
         /\ (f.qp <=> e.qp) /\ (f.retry_v1 <=> e.retry_v1) /\ (Peers(f) <=> Peers(e))
  BY DEF EpRecords, Silent, Peers

LEMMA ActEstablishKeeps ==
  ASSUME TypeInv, EventInv, ActEstablish
  PROVE  TypeInv' /\ EventInv' /\ CmStep
  <1> DEFINE e == With_hwtid(ep, "own")
             f == SendMpaReq(e)
             g == ConnectReply(e, FALSE)
  <1>1. /\ Worker.at = "handle" /\ Worker.cpl.op = "ACT_ESTABLISH" /\ mutex = "free"
        /\ ep \in EpRecords /\ hw \in HwRecords /\ UNCHANGED <<qp, qmutex, rxq, fatal>>
    BY DEF ActEstablish, Handling, At, Worker, TypeInv
  <1>2. Active /\ OpenHandled
    BY <1>1 DEF EventInv, SideInv, Sided, ActOps, OpenHandled, OpenOps
  <1>3. /\ e \in EpRecords /\ Silent(ep, e) /\ e.state = ep.state /\ e.side = ep.side
        /\ e.hwtid = "own"
        /\ (e.qp <=> ep.qp) /\ (e.ulp <=> ep.ulp)
        /\ (e.retry_v1 <=> ep.retry_v1) /\ (Peers(e) <=> Peers(ep))
    BY <1>1, TidFields
  <1>4. \/ End(f, 0, FALSE) /\ hw' = SentMpa(hw)
        \/ End(g, 1, FALSE) /\ UNCHANGED hw
    BY DEF ActEstablish, With_hwtid
  <1> HIDE DEF e
  <1>5. CASE End(f, 0, FALSE) /\ hw' = SentMpa(hw)
    <2>1. /\ f \in EpRecords /\ ~f.retry_v1 /\ Silent(e, f) /\ f.state = "MPA_REQ_SENT"
          /\ f.side = e.side /\ f.hwtid = e.hwtid
          /\ (f.qp <=> e.qp) /\ (f.ulp <=> e.ulp) /\ (Peers(f) <=> Peers(e))
      BY <1>3, SendMpaReqFields
    <2> HIDE DEF f
    <2>2. ep' \in EpRecords /\ Same(f, ep') /\ Ends(0)
      BY <1>5, <2>1, DiscValues, EndEffect
    <2>3. hw' \in HwRecords /\ HwSame(hw, hw')
      BY <1>1, <1>5, SentMpaSame
    <2>4. TypeInv'
      BY <1>1, <2>2, <2>3, DiscValues, EndKeepsTypes DEF Ends
    <2>5. EventInv' /\ CmStep
      BY <1>1, <1>2, <1>3, <2>1, <2>2, <2>3, RxKept
         DEF EventInv, SideInv, LockInv, OnceInv, ActiveInv, PassiveInv, CloseInv,
             CmStep, Up, Locked, Late, HearingEnd, Pending, Fresh, Unasked, Coming, Opening,
             OpenHandled, BreakHandled, OpenOps, ActOps, Replying, Accepting, In, Busy, Peer,
             Active, Worker, Done, Ends, Others, Steady, Same, Silent, Threads, Sided, HwSame
    <2> QED
      BY <2>4, <2>5
  <1>6. CASE End(g, 1, FALSE) /\ UNCHANGED hw
    <2>1. /\ g \in EpRecords /\ Steady(e, g) /\ g.state = e.state /\ ~g.cm_id
          /\ g.told = IF e.cm_id THEN "REFUSED" ELSE e.told
      BY <1>3, RefuseFields
    <2> HIDE DEF g
    <2>2. ep' \in EpRecords /\ Same(g, ep') /\ Ends(1)
      BY <1>6, <2>1, DiscValues, EndEffect
    <2>3. TypeInv'
      BY <1>1, <1>6, <2>2, DiscValues, EndKeepsTypes DEF Ends
    <2>4. EventInv' /\ CmStep
      BY <1>1, <1>2, <1>3, <1>6, <2>1, <2>2, RxKept
         DEF EventInv, SideInv, LockInv, OnceInv, ActiveInv, PassiveInv, CloseInv,
             CmStep, Up, Locked, Late, HearingEnd, Pending, Fresh, Unasked, Coming, Opening,
             OpenHandled, BreakHandled, OpenOps, ActOps, Replying, Accepting, In, Busy, Peer,
             Active, Worker, Done, Ends, Others, Steady, Same, Silent, Threads, Sided
    <2> QED
      BY <2>3, <2>4
  <1> QED
    BY <1>4, <1>5, <1>6

LEMMA PassEstablishKeeps ==
  ASSUME TypeInv, EventInv, PassEstablish
  PROVE  TypeInv' /\ EventInv' /\ CmStep
  <1> DEFINE a == SetState(ep, "MPA_REQ_WAIT")
             e == StartTimer(a)
  <1>1. /\ Worker.at = "handle" /\ Worker.cpl.op = "PASS_ESTABLISH" /\ mutex = "free"
        /\ ep \in EpRecords /\ hw \in HwRecords /\ UNCHANGED <<qp, qmutex, rxq, hw, fatal>>
    BY DEF PassEstablish, Handling, At, Worker, TypeInv
  <1>2. ~Active /\ OpenHandled
    BY <1>1 DEF EventInv, SideInv, Sided, OpenHandled, OpenOps
  <1>3. a \in EpRecords /\ a.state = "MPA_REQ_WAIT" /\ Steady(ep, a) /\ Silent(ep, a)
    BY <1>1, StateFields DEF States, Connecting
  <1>4. PICK disc \in 0..2 : End(e, disc, FALSE)
    BY DiscValues DEF PassEstablish
  <1> HIDE DEF a
  <1>5. e \in EpRecords /\ Same(a, e)
    BY <1>3, StartTimerSame
  <1> HIDE DEF e
  <1>6. ep' \in EpRecords /\ Same(e, ep') /\ Ends(disc)
    BY <1>4, <1>5, EndEffect
  <1>7. TypeInv'
    BY <1>1, <1>6, EndKeepsTypes DEF Ends
  <1>8. EventInv' /\ CmStep
    BY <1>1, <1>2, <1>3, <1>5, <1>6, RxKept
       DEF EventInv, SideInv, LockInv, OnceInv, ActiveInv, PassiveInv, CloseInv,
           CmStep, Up, Locked, Late, HearingEnd, Pending, Fresh, Unasked, Coming, Opening,
           OpenHandled, BreakHandled, OpenOps, ActOps, Replying, Accepting, In, Busy, Peer,
           Active, Worker, Done, Ends, Others, Steady, Same, Silent, Threads, Sided
  <1> QED
    BY <1>7, <1>8

LEMMA MpaRequestKeeps ==
  ASSUME TypeInv, EventInv, MpaRequest
  PROVE  TypeInv' /\ EventInv' /\ CmStep
  <1> DEFINE a == StopTimer(ep)
             e == SetState(ep, "MPA_REQ_RCVD")
             b == Get(e)
             c == [b EXCEPT !.ulp = TRUE]
             d == PutParent(c)
             f == PutParent(e)
  <1>1. /\ Worker.at = "handle" /\ Worker.cpl.op = "RX_DATA" /\ mutex = "free"
        /\ ep.state = "MPA_REQ_WAIT"
        /\ ep \in EpRecords /\ hw \in HwRecords /\ UNCHANGED <<qp, qmutex, rxq, hw, fatal>>
    BY DEF MpaRequest, Took, Handling, At, Worker, TypeInv
  <1>2. ~Active /\ ~Replying
    BY <1>1 DEF EventInv, SideInv, Replying, In, Busy, Worker
  <1>3. /\ e \in EpRecords /\ e.state = "MPA_REQ_RCVD" /\ Steady(ep, e) /\ Silent(ep, e)
        /\ a \in EpRecords /\ Same(ep, a)
    BY <1>1, StateFields, StopTimerSame DEF States, Connecting
  <1>4. \/ End(a, 2, FALSE) \/ End(d, 0, FALSE) \/ End(f, 2, FALSE) \/ End(e, 2, FALSE)
    BY DEF MpaRequest
  <1> HIDE DEF a, e
  <1>5. CASE End(a, 2, FALSE)
    <2>1. ep' \in EpRecords /\ Same(a, ep') /\ Ends(2)
      BY <1>3, <1>5, DiscValues, EndEffect
    <2>2. HandlerStep
      BY <1>1, <1>2, <1>3, <2>1, HwKept, DiscValues
         DEF HandlerStep, HandlerFrame, Rests, Same, Steady, Silent
    <2> QED
      BY <2>2, HandlerKeeps
  <1>6. CASE End(d, 0, FALSE)
    <2>1. b \in EpRecords /\ Same(e, b)
      BY <1>3, GetSame
    <2> HIDE DEF b
    <2>2. /\ c \in EpRecords /\ c.ulp /\ Silent(b, c) /\ c.state = b.state
          /\ c.side = b.side /\ c.hwtid = b.hwtid
          /\ (c.qp <=> b.qp) /\ (c.retry_v1 <=> b.retry_v1) /\ (Peers(c) <=> Peers(b))
      BY <2>1, UlpFields
    <2> HIDE DEF c
    <2>3. d \in EpRecords /\ Same(c, d)
      BY <2>2, ParentSame
    <2> HIDE DEF d
    <2>4. ep' \in EpRecords /\ Same(d, ep') /\ Ends(0)
      BY <1>6, <2>3, DiscValues, EndEffect
    <2>5. TypeInv'
      BY <1>1, <2>4, DiscValues, EndKeepsTypes DEF Ends
    <2>6. EventInv' /\ CmStep
      BY <1>1, <1>2, <1>3, <2>1, <2>2, <2>3, <2>4, RxKept
         DEF EventInv, SideInv, LockInv, OnceInv, ActiveInv, PassiveInv, CloseInv,
             CmStep, Up, Locked, Late, HearingEnd, Pending, Fresh, Unasked, Coming, Opening,
             OpenHandled, BreakHandled, OpenOps, ActOps, Replying, Accepting, In, Busy, Peer,
             Active, Worker, Done, Ends, Others, Steady, Same, Silent, Threads, Sided
    <2> QED
      BY <2>5, <2>6
  <1>7. CASE End(f, 2, FALSE) \/ End(e, 2, FALSE)
    <2>1. f \in EpRecords /\ Same(e, f) /\ Same(e, e)
      BY <1>3, ParentSame, SameReflexive
    <2> HIDE DEF f
    <2>2. PICK g \in EpRecords : Same(e, g) /\ End(g, 2, FALSE)
      BY <1>3, <1>7, <2>1
    <2>3. ep' \in EpRecords /\ Same(g, ep') /\ Ends(2)
      BY <2>2, DiscValues, EndEffect
    <2>4. TypeInv'
      BY <1>1, <2>3, DiscValues, EndKeepsTypes DEF Ends
    <2>5. EventInv' /\ CmStep
      BY <1>1, <1>2, <1>3, <2>2, <2>3, RxKept
         DEF EventInv, SideInv, LockInv, OnceInv, ActiveInv, PassiveInv, CloseInv,
             CmStep, Up, Locked, Late, HearingEnd, Pending, Fresh, Unasked, Coming, Opening,
             OpenHandled, BreakHandled, OpenOps, ActOps, Replying, Accepting, In, Busy, Peer,
             Active, Worker, Done, Ends, Others, Steady, Same, Silent, Threads, Sided
    <2> QED
      BY <2>4, <2>5
  <1> QED
    BY <1>4, <1>5, <1>6, <1>7

-----------------------------------------------------------------------------
(* process_work takes a message or an expired timer. *)

LEMMA QueueTaken ==
  ASSUME TypeInv, rxq # <<>>, rxq' = Tail(rxq), ep'.side = ep.side
  PROVE  /\ rxq' \in Seq(Cpls) /\ Head(rxq) \in Cpls
         /\ QueueSided => QueueSided' /\ Sided(Head(rxq))
         /\ OneOpen => OneOpen'
         /\ OpenQueued' => OpenQueued
         /\ Head(rxq).op \in OpenOps => OpenQueued
         /\ OneOpen /\ Head(rxq).op \in OpenOps => ~OpenQueued'
         /\ BreakQueued' => BreakQueued
         /\ Head(rxq).op = "RDMA_TERMINATE" => BreakQueued
  <1>1. /\ rxq \in Seq(Cpls) /\ rxq' \in Seq(Cpls) /\ Len(rxq) \in Nat /\ Len(rxq) > 0
        /\ Len(rxq') = Len(rxq) - 1
        /\ Head(rxq) = rxq[1] /\ rxq[1] \in Cpls
        /\ \A i \in 1..Len(rxq') : i + 1 \in 1..Len(rxq) /\ rxq'[i] = rxq[i + 1]
    BY DEF TypeInv
  <1>2. \A i \in Opens' : i + 1 \in Opens
    BY <1>1 DEF Opens
  <1>3. Head(rxq).op \in OpenOps => 1 \in Opens
    BY <1>1 DEF Opens
  <1>4. QueueSided => QueueSided' /\ Sided(Head(rxq))
    BY <1>1 DEF QueueSided, Sided, Active
  <1>5. OneOpen => OneOpen'
    <2>1. \A i \in Opens' : i \in Nat
      BY <1>1 DEF Opens
    <2> QED
      BY <1>2, <2>1 DEF OneOpen
  <1>6. (OpenQueued' => OpenQueued) /\ (Head(rxq).op \in OpenOps => OpenQueued)
    BY <1>2, <1>3 DEF OpenQueued
  <1>7. OneOpen /\ Head(rxq).op \in OpenOps => ~OpenQueued'
    <2> SUFFICES ASSUME OneOpen, Head(rxq).op \in OpenOps, NEW i \in Opens'
                 PROVE  FALSE
      BY DEF OpenQueued
    <2>1. i + 1 = 1
      BY <1>2, <1>3 DEF OneOpen
    <2>2. i \in 1..Len(rxq')
      BY DEF Opens
    <2> QED
      BY <1>1, <2>1, <2>2
  <1>8. (BreakQueued' => BreakQueued) /\ (Head(rxq).op = "RDMA_TERMINATE" => BreakQueued)
    BY <1>1 DEF BreakQueued
  <1> QED
    BY <1>1, <1>4, <1>5, <1>6, <1>7, <1>8

(* The worker begins. *)
Begins(at) ==
  /\ Threaded' /\ Others("worker")
  /\ thr'["worker"].at = at /\ thr'["worker"].disc = thr["worker"].disc

LEMMA RecordSet ==
  ASSUME TypeInv, NEW t \in Threads, NEW r \in ThrRecords, thr' = [thr EXCEPT ![t] = r]
  PROVE  Threaded' /\ Others(t) /\ thr'[t] = r
  BY DEF TypeInv, Threaded, Others

LEMMA HandleEffect ==
  ASSUME TypeInv, NEW c \in Cpls, NEW held \in Nat,
         thr' = [thr EXCEPT !["worker"].at = "handle", !["worker"].cpl = c,
                            !["worker"].held = held]
  PROVE  Begins("handle") /\ thr'["worker"].cpl = c
  <1> DEFINE a == Thr_at(thr["worker"], "handle")
             b == Thr_cpl(a, c)
             d == Thr_held(b, held)
  <1>1. thr' = [thr EXCEPT !["worker"] = d]
    BY DEF TypeInv, Thr_at, Thr_cpl, Thr_held
  <1>2. a \in ThrRecords /\ a.at = "handle" /\ a.disc = thr["worker"].disc
    BY ThrAt DEF TypeInv, Threads, Steps
  <1> HIDE DEF a
  <1>3. b \in ThrRecords /\ b.at = "handle" /\ b.disc = thr["worker"].disc /\ b.cpl = c
    BY <1>2, ThrCpl
  <1> HIDE DEF b
  <1>4. d \in ThrRecords /\ d.at = "handle" /\ d.disc = thr["worker"].disc /\ d.cpl = c
    BY <1>3, ThrHeld
  <1> HIDE DEF d
  <1> QED
    BY <1>1, <1>4, RecordSet DEF Begins, Threads

LEMMA HandleHeldEffect ==
  ASSUME TypeInv, NEW c \in Cpls,
         thr' = [thr EXCEPT !["worker"].at = "handle", !["worker"].cpl = c]
  PROVE  Begins("handle") /\ thr'["worker"].cpl = c
  <1> DEFINE a == Thr_at(thr["worker"], "handle")
             b == Thr_cpl(a, c)
  <1>1. thr' = [thr EXCEPT !["worker"] = b]
    BY DEF TypeInv, Thr_at, Thr_cpl
  <1>2. a \in ThrRecords /\ a.at = "handle" /\ a.disc = thr["worker"].disc
    BY ThrAt DEF TypeInv, Threads, Steps
  <1> HIDE DEF a
  <1>3. b \in ThrRecords /\ b.at = "handle" /\ b.disc = thr["worker"].disc /\ b.cpl = c
    BY <1>2, ThrCpl
  <1> HIDE DEF b
  <1> QED
    BY <1>1, <1>3, RecordSet DEF Begins, Threads

LEMMA TimeoutEffect ==
  ASSUME TypeInv, thr' = [thr EXCEPT !["worker"].at = "timeout", !["worker"].held = 1]
  PROVE  Begins("timeout")
  <1> DEFINE a == Thr_at(thr["worker"], "timeout")
             b == Thr_held(a, 1)
  <1>1. thr' = [thr EXCEPT !["worker"] = b]
    BY DEF TypeInv, Thr_at, Thr_held
  <1>2. a \in ThrRecords /\ a.at = "timeout" /\ a.disc = thr["worker"].disc
    BY ThrAt DEF TypeInv, Threads, Steps
  <1> HIDE DEF a
  <1>3. b \in ThrRecords /\ b.at = "timeout" /\ b.disc = thr["worker"].disc
    BY <1>2, ThrHeld
  <1> HIDE DEF b
  <1> QED
    BY <1>1, <1>3, RecordSet DEF Begins, Threads

LEMMA TakeTimeoutKeeps ==
  ASSUME TypeInv, EventInv, TakeTimeout
  PROVE  TypeInv' /\ EventInv' /\ CmStep
  <1>1. /\ Worker.at = "idle" /\ ep' = With_listed(ep, FALSE) /\ ep \in EpRecords
        /\ UNCHANGED <<qp, mutex, qmutex, rxq, hw, fatal>>
    BY DEF TakeTimeout, At, Worker, With_listed, TypeInv
  <1>2. ep' \in EpRecords /\ Same(ep, ep')
    BY <1>1, ListedSame
  <1>3. Begins("timeout")
    BY TimeoutEffect DEF TakeTimeout
  <1>4. TypeInv'
    BY <1>1, <1>2, <1>3 DEF TypeInv, Begins, Others, Threaded, In, Busy, Threads
  <1>5. Worker'.at = "timeout" /\ ~Busy("worker") /\ ~Busy("worker")'
    BY <1>1, <1>3 DEF Begins, Worker, Busy
  <1>6. SideInv /\ LockInv /\ OnceInv /\ ActiveInv /\ PassiveInv /\ CloseInv
    BY DEF EventInv
  <1> USE <1>1, <1>2, <1>3, <1>5, <1>6, RxKept
       DEF SideInv, LockInv, OnceInv, ActiveInv, PassiveInv, CloseInv,
           CmStep, Up, Locked, Late, HearingEnd, Pending, Fresh, Unasked, Coming, Opening,
           OpenHandled, BreakHandled, OpenOps, ActOps, Replying, Accepting, In, Busy, Peer,
           Active, Worker, Begins, Others, Steady, Same, Silent, Threads, Sided
  <1>7. SideInv'
    OBVIOUS
  <1>8. LockInv'
    OBVIOUS
  <1>9. OnceInv'
    OBVIOUS
  <1>10. ActiveInv'
    <2>1. Coming' => Coming
      OBVIOUS
    <2>2. Fresh => Fresh'
      BY ZenonT(30)
    <2> QED
      BY <2>1, <2>2
  <1>11. PassiveInv'
    OBVIOUS
  <1>12. CloseInv'
    OBVIOUS
  <1>13. CmStep
    OBVIOUS
  <1> QED
    BY <1>4, <1>7, <1>8, <1>9, <1>10, <1>11, <1>12, <1>13 DEF EventInv

LEMMA TakeCplKeeps ==
  ASSUME TypeInv, EventInv, TakeCpl
  PROVE  TypeInv' /\ EventInv' /\ CmStep
  <1> DEFINE c == Head(rxq)
             w == WakeUp(ep, "reset")
             e == IF Wakes(c) THEN w ELSE ep
  <1>1. /\ Worker.at = "idle" /\ ep \in EpRecords /\ rxq # <<>> /\ rxq' = Tail(rxq)
        /\ UNCHANGED <<qp, mutex, qmutex, hw, fatal>>
    BY DEF TakeCpl, At, Worker, TypeInv
  <1>2. w \in EpRecords /\ Same(ep, w)
    BY <1>1, WakeUpSame DEF Rets
  <1> HIDE DEF w
  <1>3. e \in EpRecords /\ Same(ep, e)
    BY <1>1, <1>2, SameReflexive
  <1>4. Get(e) \in EpRecords /\ Same(e, Get(e))
    BY <1>3, GetSame
  <1>5. \/ /\ c.op \in Untid /\ UNCHANGED ep
           /\ thr' = [thr EXCEPT !["worker"].at = "handle", !["worker"].cpl = c]
        \/ /\ c.op \notin Untid /\ Found
           /\ ep' = IF c.op = "GET_TCB_RPL" THEN e ELSE Get(e)
           /\ thr' = [thr EXCEPT !["worker"].at = "handle", !["worker"].cpl = c,
                          !["worker"].held = Bit(c.op # "GET_TCB_RPL")]
        \/ UNCHANGED <<ep, thr>>
    BY DEF TakeCpl, w
  <1> HIDE DEF c, e
  <1>6. ep' \in EpRecords /\ Same(ep, ep')
    BY <1>1, <1>3, <1>4, <1>5, SameReflexive DEF Same, Steady, Silent
  <1>7. c \in Cpls
    BY <1>1, <1>6, QueueTaken DEF c, Same, Steady
  <1>8. \/ Begins("handle") /\ thr'["worker"].cpl = c /\ (c.op \in Untid \/ Found)
        \/ UNCHANGED thr
    <2>1. Bit(c.op # "GET_TCB_RPL") \in Nat
      BY DEF Bit
    <2> QED
      BY <1>5, <1>7, <2>1, HandleEffect, HandleHeldEffect
  <1>9. TypeInv'
    BY <1>1, <1>6, <1>8, QueueTaken
       DEF TypeInv, Begins, Others, Threaded, In, Busy, Threads, Same, Steady
  <1>10. EventInv' /\ CmStep
    BY <1>1, <1>6, <1>8, QueueTaken
       DEF c, EventInv, SideInv, LockInv, OnceInv, ActiveInv, PassiveInv, CloseInv,
           CmStep, Up, Locked, Late, HearingEnd, Pending, Fresh, Unasked, Coming, Opening,
           OpenHandled, BreakHandled, OpenOps, ActOps, Replying, Accepting, In, Busy, Peer,
           Active, Worker, Begins, Others, Steady, Same, Silent, Threads, Sided, Found
  <1> QED
    BY <1>9, <1>10

-----------------------------------------------------------------------------
(* Inside c4iw_modify_iw_rc_qp. *)

Parked == qp.state \in {"IDLE", "ERROR"}

QpMoves(t) ==
  /\ Busy(t) /\ ep' \in EpRecords /\ Same(ep, ep') /\ UNCHANGED <<mutex, rxq>>
  /\ \E at \in {"fw", "after"} : GoesOn(t, at)
  /\ qp' \in QpRecords /\ qmutex' \in Threads \cup {"free"}
  /\ hw' \in HwRecords /\ fatal' \in BOOLEAN
  /\ hw'.conn = hw.conn /\ (hw'.rdma <=> hw.rdma)
  /\ Parked /\ thr[t].disc = 0 /\ ~(thr[t].at = "modify" /\ thr[t].to = "RTS") =>
         Parked' /\ thr'[t].disc = 0 /\ hw'.fw = hw.fw

LEMMA QpMovesKeeps ==
  ASSUME TypeInv, EventInv, NEW t \in Threads, QpMoves(t)
  PROVE  TypeInv' /\ EventInv' /\ CmStep
  <1>1. PICK at \in {"fw", "after"} : GoesOn(t, at)
    BY DEF QpMoves
  <1>2. \A s \in Threads : /\ thr'[s].then = thr[s].then /\ (Busy(s)' <=> Busy(s))
                           /\ thr'[s].held >= thr[s].held
                           /\ thr'[s].at = "modify" => s # t /\ thr'[s] = thr[s]
                           /\ s # t => thr'[s] = thr[s]
    <2> SUFFICES ASSUME NEW s \in Threads
                 PROVE  /\ thr'[s].then = thr[s].then /\ (Busy(s)' <=> Busy(s))
                        /\ thr'[s].held >= thr[s].held
                        /\ thr'[s].at = "modify" => s # t /\ thr'[s] = thr[s]
                        /\ s # t => thr'[s] = thr[s]
      OBVIOUS
    <2>1. CASE s = t
      BY <1>1, <2>1 DEF QpMoves, GoesOn, Busy
    <2>2. CASE s # t
      <3>1. thr[s].held >= thr[s].held
        BY DEF TypeInv, ThrRecords
      <3> QED
        BY <1>1, <2>2, <3>1 DEF GoesOn, Others, Busy
    <2> QED
      BY <2>1, <2>2
  <1>3. \A s \in Threads : \A then : In(s, then)' <=> In(s, then)
    BY <1>2 DEF In
  <1>4. TypeInv'
    <2>1. \A s \in Threads : In(s, "disc_failed")' => thr'[s].held > 0
      <3> SUFFICES ASSUME NEW s \in Threads, In(s, "disc_failed")'
                   PROVE  thr'[s].held > 0
        OBVIOUS
      <3>1. thr[s].held > 0 /\ thr[s].held \in Nat /\ thr'[s].held \in Nat
        BY <1>1, <1>3 DEF TypeInv, ThrRecords, GoesOn, Threaded
      <3> QED
        BY <1>2, <3>1
    <2> QED
      BY <1>1, <2>1 DEF TypeInv, QpMoves, GoesOn, Threaded
  <1>5. /\ OpenHandled' <=> OpenHandled
        /\ BreakHandled' <=> BreakHandled
        /\ Worker'.at = "handle" => Worker' = Worker
    <2>1. t = "worker" => Worker.at # "handle" /\ Worker'.at # "handle"
      BY <1>1 DEF Worker, Busy, QpMoves, GoesOn
    <2>2. t # "worker" => Worker' = Worker
      BY <1>2 DEF Worker, Threads
    <2> QED
      BY <2>1, <2>2 DEF OpenHandled, BreakHandled
  <1>6. ep'.side = ep.side /\ (Active' <=> Active)
    BY DEF QpMoves, Same, Steady, Active
  <1>7. /\ Replying' <=> Replying
        /\ Accepting' <=> Accepting
        /\ HearingEnd' <=> HearingEnd
        /\ Peer' <=> Peer
        /\ In("worker", "tcb")' <=> In("worker", "tcb")
        /\ Coming' <=> Coming
        /\ Opening' <=> Opening
        /\ Pending' <=> Pending
        /\ Busy("worker")' <=> Busy("worker")
    BY <1>2, <1>3, <1>5, <1>6, RxKept
       DEF Replying, Accepting, HearingEnd, Peer, QpMoves, Same, Steady, Silent, Coming,
           Opening, Pending, Threads
  <1>8. SideInv' /\ OnceInv'
    BY <1>5, <1>6, <1>7, RxKept
       DEF EventInv, SideInv, OnceInv, QpMoves, Same, Steady, Silent, Sided
  <1>9. LockInv'
    BY <1>2, <1>7 DEF EventInv, LockInv, QpMoves
  <1>10. Active /\ Fresh => Fresh'
    <2> SUFFICES ASSUME Active, Fresh PROVE Fresh'
      OBVIOUS
    <2>1. t # "worker" /\ ~(thr[t].at = "modify" /\ thr[t].to = "RTS")
      BY DEF Fresh, QpMoves, EventInv, LockInv, SideInv, Accepting, In, Busy
    <2>2. Parked' /\ thr'[t].disc = 0 /\ hw'.fw = hw.fw
      BY <2>1 DEF QpMoves, Fresh, Parked
    <2> QED
      BY <1>2, <1>5, <1>6, <1>7, <2>2, RxKept DEF Fresh, QpMoves, Same, Steady, Parked
  <1>11. ActiveInv' /\ PassiveInv' /\ CloseInv'
    BY <1>6, <1>7, <1>10
       DEF EventInv, ActiveInv, PassiveInv, CloseInv, QpMoves, Same, Steady, Silent, Unasked
  <1>12. CmStep
    BY <1>6 DEF CmStep, QpMoves, Same
  <1> QED
    BY <1>4, <1>8, <1>9, <1>11, <1>12 DEF EventInv

LEMMA QpFields ==
  ASSUME NEW q \in QpRecords, NEW s \in QpStates, NEW b \in BOOLEAN
  PROVE  /\ [q EXCEPT !.state = s] \in QpRecords /\ [q EXCEPT !.state = s].state = s
         /\ [q EXCEPT !.state = s, !.ep = b] \in QpRecords
         /\ [q EXCEPT !.state = s, !.ep = b].state = s
  BY DEF QpRecords

(* The thread goes on with one more reference to drop. *)
GoneOn(t, at, ret, n, disc) ==
    [thr EXCEPT ![t].at = at, ![t].ret = ret, ![t].held = @ + n, ![t].disc = disc]

LEMMA HeldEffect ==
  ASSUME TypeInv, NEW t \in Threads, NEW at \in Steps, NEW ret \in Rets,
         NEW disc \in 0..2, NEW n \in Nat,
         thr' = GoneOn(t, at, ret, n, disc)
  PROVE  GoesOn(t, at) /\ thr'[t].disc = disc
  <1> DEFINE a == Thr_at(thr[t], at)
             b == Thr_ret(a, ret)
             c == Thr_held(b, thr[t].held + n)
             d == Thr_disc(c, disc)
  <1>1. thr' = [thr EXCEPT ![t] = d]
    BY DEF TypeInv, GoneOn, Thr_at, Thr_ret, Thr_held, Thr_disc
  <1>2. thr[t] \in ThrRecords /\ thr[t].held \in Nat
    BY DEF TypeInv, ThrRecords
  <1>3. a \in ThrRecords /\ a.at = at /\ a.then = thr[t].then
    BY <1>2, ThrAt
  <1> HIDE DEF a
  <1>4. b \in ThrRecords /\ b.at = at /\ b.then = thr[t].then
    BY <1>3, ThrRet
  <1> HIDE DEF b
  <1>5. thr[t].held + n \in Nat /\ thr[t].held + n >= thr[t].held
    BY <1>2
  <1>6. c \in ThrRecords /\ c.at = at /\ c.then = thr[t].then /\ c.held = thr[t].held + n
    BY <1>4, <1>5, ThrHeld
  <1> HIDE DEF c
  <1>7. /\ d \in ThrRecords /\ d.at = at /\ d.then = thr[t].then /\ d.disc = disc
        /\ d.held = thr[t].held + n
    BY <1>6, ThrDisc
  <1> HIDE DEF d
  <1>8. Threaded' /\ Others(t) /\ thr'[t] = d
    BY <1>1, <1>7, RecordSet
  <1>9. thr'[t].disc = disc /\ thr'[t].held >= thr[t].held
    BY <1>5, <1>7, <1>8
  <1>10. thr'[t].at = at /\ thr'[t].then = thr[t].then
    BY <1>7, <1>8
  <1> QED
    BY <1>8, <1>9, <1>10 DEF GoesOn

(* It waits for the firmware. *)
LEMMA WaitEffect ==
  ASSUME TypeInv, NEW t \in Threads, thr' = [thr EXCEPT ![t].at = "fw"]
  PROVE  GoesOn(t, "fw")
  <1> DEFINE a == Thr_at(thr[t], "fw")
  <1>1. thr' = [thr EXCEPT ![t] = a]
    BY DEF TypeInv, Thr_at
  <1>2. a \in ThrRecords /\ a.at = "fw" /\ a.then = thr[t].then /\ a.held = thr[t].held
    BY ThrAt DEF TypeInv, Steps
  <1> HIDE DEF a
  <1>3. Threaded' /\ Others(t) /\ thr'[t] = a
    BY <1>1, <1>2, RecordSet
  <1>4. a.held >= a.held
    BY <1>2 DEF ThrRecords
  <1> QED
    BY <1>2, <1>3, <1>4 DEF GoesOn

LEMMA WaitHeldEffect ==
  ASSUME TypeInv, NEW t \in Threads,
         thr' = [thr EXCEPT ![t].at = "fw", ![t].disc = 1, ![t].held = @ + 1]
  PROVE  GoesOn(t, "fw")
  <1> DEFINE a == Thr_at(thr[t], "fw")
             b == Thr_disc(a, 1)
             c == Thr_held(b, thr[t].held + 1)
  <1>1. thr' = [thr EXCEPT ![t] = c]
    BY DEF TypeInv, Thr_at, Thr_disc, Thr_held
  <1>2. a \in ThrRecords /\ a.at = "fw" /\ a.then = thr[t].then /\ thr[t].held \in Nat
    BY ThrAt DEF TypeInv, Steps, ThrRecords
  <1> HIDE DEF a
  <1>3. b \in ThrRecords /\ b.at = "fw" /\ b.then = thr[t].then
    BY <1>2, DiscValues, ThrDisc
  <1> HIDE DEF b
  <1>4. thr[t].held + 1 \in Nat /\ thr[t].held + 1 >= thr[t].held
    BY <1>2
  <1>5. c \in ThrRecords /\ c.at = "fw" /\ c.then = thr[t].then /\ c.held = thr[t].held + 1
    BY <1>3, <1>4, ThrHeld
  <1> HIDE DEF c
  <1>6. Threaded' /\ Others(t) /\ thr'[t] = c
    BY <1>1, <1>5, RecordSet
  <1> QED
    BY <1>4, <1>5, <1>6 DEF GoesOn

(* Label err. *)
LEMMA DisassociateEffect ==
  ASSUME TypeInv, NEW t \in Threads, NEW e, NEW ret \in Rets, Disassociate(t, e, ret)
  PROVE  /\ GoesOn(t, "after") /\ (thr[t].disc = 0 => thr'[t].disc = 0)
         /\ qp' \in QpRecords /\ qp'.state = "ERROR" /\ qmutex' = "free" /\ ep' = e
  <1> DEFINE disc == IF thr[t].disc > 0 THEN 2 ELSE 0
  <1>1. disc \in 0..2 /\ (thr[t].disc = 0 => disc = 0)
    OBVIOUS
  <1>2. thr' = GoneOn(t, "after", ret, 1, disc)
    BY DEF Disassociate, TypeInv, GoneOn
  <1> HIDE DEF disc
  <1>3. GoesOn(t, "after") /\ thr'[t].disc = disc
    BY <1>1, <1>2, HeldEffect DEF Steps
  <1>4. qp' \in QpRecords /\ qp'.state = "ERROR"
    BY QpFields DEF Disassociate, TypeInv, QpStates
  <1> QED
    BY <1>1, <1>3, <1>4 DEF Disassociate

LEMMA DisassociateAbortEffect ==
  ASSUME TypeInv, NEW t \in Threads, DisassociateAbort(t)
  PROVE  /\ GoesOn(t, "after")
         /\ qp' \in QpRecords /\ qmutex' = "free" /\ ep' = Get(ep)
  <1>1. thr' = GoneOn(t, "after", "ok", 2, 2)
    BY DEF DisassociateAbort, GoneOn
  <1>2. GoesOn(t, "after")
    BY <1>1, DiscValues, HeldEffect DEF Steps, Rets
  <1>3. qp' \in QpRecords
    BY QpFields DEF DisassociateAbort, TypeInv, QpStates
  <1> QED
    BY <1>2, <1>3 DEF DisassociateAbort

LEMMA ModifyKeepsHw ==
  ASSUME TypeInv
  PROVE  /\ ep \in EpRecords /\ qp \in QpRecords /\ hw \in HwRecords /\ fatal \in BOOLEAN
         /\ qmutex \in Threads \cup {"free"}
  BY DEF TypeInv

LEMMA ModifyNothingStep ==
  ASSUME TypeInv, NEW t \in Threads, ModifyNothing(t)
  PROVE  QpMoves(t)
  <1>1. Returns(t, "ok") \/ Returns(t, "err")
    BY DEF ModifyNothing
  <1>2. GoesOn(t, "after") /\ thr'[t].disc = thr[t].disc
    BY <1>1, ReturnEffect DEF TypeInv, Threaded, Rets
  <1> QED
    BY <1>2, ModifyKeepsHw, SameReflexive DEF ModifyNothing, QpMoves, At, Busy, Parked

LEMMA ModifyInitStep ==
  ASSUME TypeInv, NEW t \in Threads, ModifyInit(t)
  PROVE  QpMoves(t)
  <1>1. GoesOn(t, "fw")
    BY WaitEffect DEF ModifyInit
  <1>2. ep' \in EpRecords /\ Same(ep, ep')
    BY GetSame DEF ModifyInit, TypeInv
  <1>3. qp' \in QpRecords
    BY QpFields DEF ModifyInit, TypeInv, QpStates
  <1>4. hw' \in HwRecords /\ hw'.conn = hw.conn /\ (hw'.rdma <=> hw.rdma)
    BY AskRiFields DEF ModifyInit, TypeInv
  <1>5. thr[t].at = "modify" /\ thr[t].to = "RTS"
    BY DEF ModifyInit, Modifies, At
  <1> QED
    BY <1>1, <1>2, <1>3, <1>4, <1>5, ModifyKeepsHw DEF ModifyInit, QpMoves, Busy

LEMMA ModifyFiniStep ==
  ASSUME TypeInv, NEW t \in Threads, ModifyFini(t)
  PROVE  QpMoves(t)
  <1>1. thr[t].at = "modify" /\ qp.state = "RTS" /\ thr[t].to \in QpStates
    BY DEF ModifyFini, Fini, Modifies, At, QpStates
  <1>2. GoesOn(t, "fw") /\ ep' \in EpRecords /\ Same(ep, ep')
    BY GetSame, SameReflexive, WaitEffect, WaitHeldEffect, ModifyKeepsHw DEF ModifyFini
  <1>3. qp' \in QpRecords
    BY <1>1, QpFields DEF ModifyFini, TypeInv
  <1>4. hw' \in HwRecords /\ hw'.conn = hw.conn /\ (hw'.rdma <=> hw.rdma)
    BY AskRiFields DEF ModifyFini, TypeInv
  <1> QED
    BY <1>1, <1>2, <1>3, <1>4, ModifyKeepsHw DEF ModifyFini, QpMoves, Busy, Parked

LEMMA ModifyTerminateStep ==
  ASSUME TypeInv, NEW t \in Threads, ModifyTerminate(t)
  PROVE  QpMoves(t)
  <1>1. thr[t].at = "modify" /\ qp.state = "RTS"
    BY DEF ModifyTerminate, Modifies, At
  <1>2. thr' = GoneOn(t, "after", "ok", 1, 1)
    BY DEF ModifyTerminate, GoneOn, TypeInv
  <1>3. GoesOn(t, "after")
    BY <1>2, DiscValues, HeldEffect DEF Steps, Rets
  <1>4. ep' \in EpRecords /\ Same(ep, ep')
    BY GetSame, ModifyKeepsHw DEF ModifyTerminate
  <1>5. qp' \in QpRecords
    BY QpFields DEF ModifyTerminate, TypeInv, QpStates
  <1> QED
    BY <1>1, <1>3, <1>4, <1>5, ModifyKeepsHw DEF ModifyTerminate, QpMoves, Busy, Parked

LEMMA ModifyIdleStep ==
  ASSUME TypeInv, NEW t \in Threads, ModifyIdle(t)
  PROVE  QpMoves(t)
  <1>1. thr[t].at = "modify"
    BY DEF ModifyIdle, Modifies, At
  <1>2. GoesOn(t, "after") /\ thr'[t].disc = thr[t].disc
    BY ReturnEffect DEF ModifyIdle, TypeInv, Threaded, Rets
  <1>3. ep' \in EpRecords /\ Same(ep, ep')
    BY PutSame, SameReflexive, ModifyKeepsHw DEF ModifyIdle
  <1>4. qp' \in QpRecords /\ qp'.state = "IDLE"
    <2>1. /\ [qp EXCEPT !.state = "IDLE"] \in QpRecords
          /\ [qp EXCEPT !.state = "IDLE"].state = "IDLE"
          /\ [qp EXCEPT !.state = "IDLE", !.ep = FALSE] \in QpRecords
          /\ [qp EXCEPT !.state = "IDLE", !.ep = FALSE].state = "IDLE"
      BY QpFields, ModifyKeepsHw DEF QpStates
    <2> QED
      BY <2>1 DEF ModifyIdle
  <1> QED
    BY <1>1, <1>2, <1>3, <1>4, ModifyKeepsHw DEF ModifyIdle, QpMoves, Busy, Parked

LEMMA ModifyErrorStep ==
  ASSUME TypeInv, NEW t \in Threads, ModifyError(t)
  PROVE  QpMoves(t)
  <1>1. thr[t].at = "modify" /\ UNCHANGED <<mutex, rxq, hw, fatal>>
    BY DEF ModifyError, Modifies, At
  <1>2. CASE Disassociate(t, ep, "ok") \/ Disassociate(t, ep, "err")
    <2>1. /\ GoesOn(t, "after") /\ (thr[t].disc = 0 => thr'[t].disc = 0)
          /\ qp' \in QpRecords /\ qp'.state = "ERROR" /\ qmutex' = "free" /\ ep' = ep
      BY <1>2, DisassociateEffect DEF Rets
    <2> QED
      BY <1>1, <2>1, ModifyKeepsHw, SameReflexive DEF QpMoves, Busy, Parked
  <1>3. CASE qp.state = "RTS" /\ DisassociateAbort(t)
    <2>1. /\ GoesOn(t, "after")
          /\ qp' \in QpRecords /\ qmutex' = "free" /\ ep' = Get(ep)
      BY <1>3, DisassociateAbortEffect
    <2>2. ep' \in EpRecords /\ Same(ep, ep')
      BY <2>1, GetSame, ModifyKeepsHw
    <2> QED
      BY <1>1, <1>3, <2>1, <2>2, ModifyKeepsHw DEF QpMoves, Busy, Parked
  <1>4. CASE qp' = [qp EXCEPT !.state = "ERROR"] /\ Returns(t, "ok") /\ UNCHANGED <<ep, qmutex>>
    <2>1. GoesOn(t, "after") /\ thr'[t].disc = thr[t].disc
      BY <1>4, ReturnEffect DEF TypeInv, Threaded, Rets
    <2>2. qp' \in QpRecords /\ qp'.state = "ERROR"
      BY <1>4, QpFields DEF TypeInv, QpStates
    <2> QED
      BY <1>1, <1>4, <2>1, <2>2, ModifyKeepsHw, SameReflexive DEF QpMoves, Busy, Parked
  <1> QED
    BY <1>2, <1>3, <1>4 DEF ModifyError, Modifies

LEMMA ModifyUnsentStep ==
  ASSUME TypeInv, NEW t \in Threads, ModifyUnsent(t)
  PROVE  QpMoves(t)
  <1>1. thr[t].at = "modify" /\ UNCHANGED <<mutex, rxq, hw, fatal>>
    BY DEF ModifyUnsent, Fini, Modifies, At
  <1>2. CASE /\ qp.state = "RTS" \/ thr[t].to = "RTS"
             /\ Disassociate(t, ep, "err") \/ Disassociate(t, Get(ep), "err")
    <2>1. PICK e \in EpRecords : Same(ep, e) /\ Disassociate(t, e, "err")
      BY <1>2, GetSame, SameReflexive, ModifyKeepsHw
    <2>2. /\ GoesOn(t, "after")
          /\ qp' \in QpRecords /\ qp'.state = "ERROR" /\ qmutex' = "free" /\ ep' = e
      BY <2>1, DisassociateEffect DEF Rets
    <2> QED
      BY <1>1, <1>2, <2>1, <2>2, ModifyKeepsHw DEF QpMoves, Busy, Parked
  <1>3. CASE qp.state = "RTS" /\ DisassociateAbort(t)
    <2>1. /\ GoesOn(t, "after")
          /\ qp' \in QpRecords /\ qmutex' = "free" /\ ep' = Get(ep)
      BY <1>3, DisassociateAbortEffect
    <2>2. ep' \in EpRecords /\ Same(ep, ep')
      BY <2>1, GetSame, ModifyKeepsHw
    <2> QED
      BY <1>1, <1>3, <2>1, <2>2, ModifyKeepsHw DEF QpMoves, Busy, Parked
  <1> QED
    BY <1>2, <1>3 DEF ModifyUnsent, Fini, Modifies

LEMMA FwWokenStep ==
  ASSUME TypeInv, NEW t \in Threads, FwWoken(t)
  PROVE  QpMoves(t)
  <1> DEFINE e == With_wr_done(ep, ep.wr_done - 1)
  <1>1. thr[t].at = "fw" /\ UNCHANGED <<mutex, rxq, hw, fatal>>
    BY DEF FwWoken, At
  <1>2. ep.wr_done - 1 \in Nat
    BY ModifyKeepsHw DEF FwWoken, EpRecords
  <1>3. e \in EpRecords /\ Same(ep, e)
    BY <1>2, WrDoneSame, ModifyKeepsHw
  <1>4. \/ ep' = e /\ Returns(t, "ok") /\ qmutex' = "free" /\ UNCHANGED qp
        \/ Disassociate(t, e, e.wr_ret)
    BY DEF FwWoken, With_wr_done
  <1> HIDE DEF e
  <1>5. CASE ep' = e /\ Returns(t, "ok") /\ qmutex' = "free" /\ UNCHANGED qp
    <2>1. GoesOn(t, "after") /\ thr'[t].disc = thr[t].disc
      BY <1>5, ReturnEffect DEF TypeInv, Threaded, Rets
    <2> QED
      BY <1>1, <1>3, <1>5, <2>1, ModifyKeepsHw DEF QpMoves, Busy, Parked
  <1>6. CASE Disassociate(t, e, e.wr_ret)
    <2>1. e.wr_ret \in Rets
      BY <1>3 DEF EpRecords
    <2>2. /\ GoesOn(t, "after") /\ (thr[t].disc = 0 => thr'[t].disc = 0)
          /\ qp' \in QpRecords /\ qp'.state = "ERROR" /\ qmutex' = "free" /\ ep' = e
      BY <1>6, <2>1, DisassociateEffect
    <2> QED
      BY <1>1, <1>3, <2>2, ModifyKeepsHw DEF QpMoves, Busy, Parked
  <1> QED
    BY <1>4, <1>5, <1>6

LEMMA FwTimeoutStep ==
  ASSUME TypeInv, NEW t \in Threads, FwTimeout(t)
  PROVE  QpMoves(t)
  <1>1. /\ GoesOn(t, "after") /\ (thr[t].disc = 0 => thr'[t].disc = 0)
        /\ qp' \in QpRecords /\ qp'.state = "ERROR" /\ qmutex' = "free" /\ ep' = ep
    BY DisassociateEffect DEF FwTimeout, Rets
  <1> QED
    BY <1>1, ModifyKeepsHw, SameReflexive DEF FwTimeout, At, QpMoves, Busy, Parked

LEMMA ModifyKeeps ==
  ASSUME TypeInv, EventInv, NEW t \in Threads, Modify(t)
  PROVE  TypeInv' /\ EventInv' /\ CmStep
  <1>1. QpMoves(t)
    BY ModifyNothingStep, ModifyInitStep, ModifyFiniStep, ModifyTerminateStep, ModifyIdleStep,
       ModifyErrorStep, ModifyUnsentStep, FwWokenStep, FwTimeoutStep DEF Modify
  <1> QED
    BY <1>1, QpMovesKeeps

-----------------------------------------------------------------------------
(* After the unlock. *)

CallsAgain(t) ==
  /\ Threaded' /\ Others(t)
  /\ thr'[t].at = "modify" /\ thr'[t].to = "ERROR" /\ thr'[t].then = "disc_failed"
  /\ thr'[t].disc = 0 /\ thr'[t].held > 0

LeavingFrame == /\ UNCHANGED <<qp, qmutex, rxq, fatal>>
                /\ ep' \in EpRecords /\ hw' \in HwRecords /\ HwSame(hw, hw')

Disconnects(t) ==
  /\ thr[t].at = "end" /\ thr[t].disc > 0 /\ mutex = "free" /\ Steady(ep, ep')
  /\ \/ /\ Silent(ep, ep') /\ ep'.state \in Late \cup {ep.state}
        /\ Done(t, 0) /\ mutex' = "free"
     \/ /\ ~ep'.cm_id /\ ep'.told = IF ep.cm_id THEN "CLOSE" ELSE ep.told
        /\ ep'.state \in Late
        /\ \/ Done(t, 0) /\ mutex' = "free"
           \/ CallsAgain(t) /\ mutex' = t

GivesUp(t) ==
  /\ In(t, "disc_failed") /\ Same(ep, ep')
  /\ Done(t, 0) /\ mutex' = "free"

Releases(t) ==
  /\ thr[t].at = "end" /\ Kept(ep, ep') /\ Silent(ep, ep')
  /\ ep'.state = ep.state /\ ep'.hwtid # "own"
  /\ Done(t, 0) /\ mutex' = mutex

LEMMA LeavingKeepsTypes ==
  ASSUME TypeInv, LeavingFrame, NEW t \in Threads, mutex' \in Threads \cup {"free"},
         Done(t, 0) \/ CallsAgain(t)
  PROVE  TypeInv'
  <1>1. Threaded' /\ Others(t)
    BY DEF Done, CallsAgain
  <1>2. \A s \in Threads : In(s, "disc_failed")' => thr'[s].held > 0
    BY <1>1 DEF TypeInv, Done, CallsAgain, Others, In, Busy
  <1> QED
    BY <1>1, <1>2 DEF TypeInv, LeavingFrame, Threaded

LEMMA DisconnectsKeeps ==
  ASSUME TypeInv, EventInv, LeavingFrame, NEW t \in Threads, Disconnects(t)
  PROVE  TypeInv' /\ EventInv' /\ CmStep
  <1>1. TypeInv'
    BY LeavingKeepsTypes DEF Disconnects
  <1>2. /\ ep'.side = ep.side /\ ~Fresh /\ ~Replying /\ ~Accepting
        /\ \A s \in Threads : Busy(s) => thr[s].then \notin Locked
    <2>1. \A s \in Threads : ~(mutex = s)
      BY DEF Disconnects, Threads
    <2>2. \A s \in Threads : Busy(s) => thr[s].then \notin Locked
      BY <2>1 DEF EventInv, LockInv
    <2> QED
      BY <2>2 DEF Disconnects, Steady, Fresh, Replying, Accepting, Locked, In, Threads
  <1>3. ~Pending
    BY <1>2 DEF EventInv, ActiveInv, PassiveInv
  <1> USE <1>2, <1>3, RxKept
       DEF LeavingFrame, Disconnects, EventInv, SideInv, LockInv, OnceInv, ActiveInv, PassiveInv,
           CloseInv, CmStep, Up, Locked, Late, HearingEnd, Pending, Unasked, Coming, Opening,
           OpenHandled, BreakHandled, OpenOps, ActOps, Replying, Accepting, In, Busy, Peer,
           Active, Worker, Done, CallsAgain, Others, Steady, Same, Silent, Threads, Sided, HwSame
  <1>4. SideInv' /\ OnceInv'
    OBVIOUS
  <1>5. LockInv'
    OBVIOUS
  <1>6. ActiveInv'
    OBVIOUS
  <1>7. PassiveInv'
    OBVIOUS
  <1>8. CloseInv'
    OBVIOUS
  <1>9. CmStep
    OBVIOUS
  <1> QED
    BY <1>1, <1>4, <1>5, <1>6, <1>7, <1>8, <1>9

LEMMA GivesUpKeeps ==
  ASSUME TypeInv, EventInv, LeavingFrame, NEW t \in Threads, GivesUp(t)
  PROVE  TypeInv' /\ EventInv' /\ CmStep
  <1>1. TypeInv'
    BY LeavingKeepsTypes DEF GivesUp
  <1>2. ep'.side = ep.side /\ mutex = t
    BY DEF GivesUp, Same, Steady, EventInv, LockInv, Locked, In
  <1> USE <1>2, RxKept
       DEF LeavingFrame, GivesUp, EventInv, SideInv, LockInv, OnceInv, ActiveInv, PassiveInv,
           CloseInv, CmStep, Up, Locked, Late, HearingEnd, Pending, Unasked, Coming, Opening,
           OpenHandled, BreakHandled, OpenOps, ActOps, Replying, Accepting, In, Busy, Peer, Fresh,
           Active, Worker, Done, Others, Steady, Same, Silent, Threads, Sided, HwSame
  <1>3. SideInv' /\ OnceInv'
    OBVIOUS
  <1>4. LockInv'
    OBVIOUS
  <1>5. ActiveInv'
    OBVIOUS
  <1>6. PassiveInv'
    OBVIOUS
  <1>7. CloseInv' /\ CmStep
    OBVIOUS
  <1> QED
    BY <1>1, <1>3, <1>4, <1>5, <1>6, <1>7

LEMMA ReleasesKeeps ==
  ASSUME TypeInv, EventInv, LeavingFrame, NEW t \in Threads, Releases(t)
  PROVE  TypeInv' /\ EventInv' /\ CmStep
  <1>1. TypeInv'
    BY LeavingKeepsTypes DEF Releases, TypeInv
  <1>2. ep'.side = ep.side
    BY DEF Releases, Kept
  <1> USE <1>2, RxKept
       DEF LeavingFrame, Releases, Kept, EventInv, SideInv, LockInv, OnceInv, ActiveInv, PassiveInv,
           CloseInv, CmStep, Up, Locked, Late, HearingEnd, Pending, Unasked, Coming, Opening,
           OpenHandled, BreakHandled, OpenOps, ActOps, Replying, Accepting, In, Busy, Peer, Fresh,
           Active, Worker, Done, Others, Steady, Same, Silent, Threads, Sided, HwSame
  <1>3. SideInv' /\ OnceInv'
    OBVIOUS
  <1>4. LockInv'
    OBVIOUS
  <1>5. ActiveInv'
    OBVIOUS
  <1>6. PassiveInv'
    OBVIOUS
  <1>7. CloseInv' /\ CmStep
    OBVIOUS
  <1> QED
    BY <1>1, <1>3, <1>4, <1>5, <1>6, <1>7

LEMMA DisconnectEffect ==
  ASSUME TypeInv, NEW t \in Threads, NEW e \in EpRecords, NEW rel \in BOOLEAN,
         Leave(t, e, 0, rel), mutex = "free"
  PROVE  ep' \in EpRecords /\ Same(e, ep') /\ Done(t, 0) /\ mutex' = "free"
  <1>1. /\ ep' \in EpRecords /\ Same(e, ep') /\ Done(t, 0)
        /\ mutex' = IF mutex = t THEN "free" ELSE mutex
    BY DiscValues, LeaveEffect DEF TypeInv, Threaded
  <1> QED
    BY <1>1

LEMMA DisconnectAbortStep ==
  ASSUME TypeInv, NEW t \in Threads, DisconnectAbort(t)
  PROVE  LeavingFrame /\ Disconnects(t)
  <1> DEFINE e == IF CloseUnsent THEN StopTimer(ep) ELSE ep
             a == SetState(e, "ABORTING")
             b == SetFlag(a, "CLOSE_SENT")
             c == SendAbort(b)
  <1>1. /\ thr[t].at = "end" /\ thr[t].disc > 0 /\ mutex = "free" /\ ep \in EpRecords
        /\ UNCHANGED <<qp, qmutex, rxq, fatal>>
    BY DEF DisconnectAbort, Disconnecting, At, TypeInv
  <1>2. hw' \in HwRecords /\ HwSame(hw, hw')
    BY AskTcbSame, AskAbortSame DEF DisconnectAbort, TypeInv
  <1>3. Leave(t, c, 0, FALSE)
    BY DEF DisconnectAbort
  <1>4. e \in EpRecords /\ Same(ep, e)
    BY <1>1, StopTimerSame, SameReflexive
  <1> HIDE DEF e
  <1>5. a \in EpRecords /\ a.state = "ABORTING" /\ Steady(e, a) /\ Silent(e, a)
    BY <1>4, StateFields DEF States
  <1> HIDE DEF a
  <1>6. b \in EpRecords /\ Same(a, b)
    BY <1>5, SetFlagSame DEF EpFlags
  <1> HIDE DEF b
  <1>7. c \in EpRecords /\ Same(b, c)
    BY <1>6, SendAbortSame
  <1> HIDE DEF c
  <1>8. ep' \in EpRecords /\ Same(c, ep') /\ Done(t, 0) /\ mutex' = "free"
    BY <1>1, <1>3, <1>7, DisconnectEffect
  <1> QED
    BY <1>1, <1>2, <1>4, <1>5, <1>6, <1>7, <1>8
       DEF LeavingFrame, Disconnects, Late, Same, Steady, Silent

LEMMA DisconnectCloseStep ==
  ASSUME TypeInv, NEW t \in Threads, DisconnectClose(t)
  PROVE  LeavingFrame /\ Disconnects(t)
  <1> DEFINE e == Closing(ep)
  <1>1. /\ thr[t].at = "end" /\ thr[t].disc > 0 /\ mutex = "free" /\ ep \in EpRecords
        /\ UNCHANGED <<qp, qmutex, rxq, fatal>>
    BY DEF DisconnectClose, Disconnecting, At, TypeInv
  <1>2. hw' \in HwRecords /\ HwSame(hw, hw')
    BY AskCloseSame DEF DisconnectClose, TypeInv
  <1>3. Leave(t, e, 0, FALSE)
    BY DEF DisconnectClose
  <1>4. /\ e \in EpRecords /\ Steady(ep, e) /\ Silent(ep, e)
        /\ e.state \in {"CLOSING", "MORIBUND"}
    BY <1>1, ClosingFields
  <1> HIDE DEF e
  <1>5. ep' \in EpRecords /\ Same(e, ep') /\ Done(t, 0) /\ mutex' = "free"
    BY <1>1, <1>3, <1>4, DisconnectEffect
  <1> QED
    BY <1>1, <1>2, <1>4, <1>5 DEF LeavingFrame, Disconnects, Late, Same, Steady, Silent

LEMMA CallsAgainEffect ==
  ASSUME TypeInv, NEW t \in Threads,
         thr' = [thr EXCEPT ![t].at = "modify", ![t].to = "ERROR",
                            ![t].then = "disc_failed", ![t].internal = TRUE,
                            ![t].disc = 0, ![t].held = @ + 1]
  PROVE  CallsAgain(t)
  <1> DEFINE a == Thr_at(thr[t], "modify")
             b == Thr_to(a, "ERROR")
             c == Thr_then(b, "disc_failed")
             d == Thr_internal(c, TRUE)
             f == Thr_disc(d, 0)
             g == Thr_held(f, thr[t].held + 1)
  <1>1. thr' = [thr EXCEPT ![t] = g]
    BY DEF TypeInv, Thr_at, Thr_to, Thr_then, Thr_internal, Thr_disc, Thr_held
  <1>2. a \in ThrRecords /\ a.at = "modify" /\ thr[t].held \in Nat
    BY ThrAt DEF TypeInv, Steps, ThrRecords
  <1> HIDE DEF a
  <1>3. b \in ThrRecords /\ b.at = "modify" /\ b.to = "ERROR"
    BY <1>2, ThrTo DEF QpStates
  <1> HIDE DEF b
  <1>4. c \in ThrRecords /\ c.at = "modify" /\ c.to = "ERROR" /\ c.then = "disc_failed"
    BY <1>3, ThrThen DEF Thens
  <1> HIDE DEF c
  <1>5. d \in ThrRecords /\ d.at = "modify" /\ d.to = "ERROR" /\ d.then = "disc_failed"
    BY <1>4, ThrInternal
  <1> HIDE DEF d
  <1>6. /\ f \in ThrRecords /\ f.at = "modify" /\ f.to = "ERROR" /\ f.then = "disc_failed"
        /\ f.disc = 0
    BY <1>5, DiscValues, ThrDisc
  <1> HIDE DEF f
  <1>7. thr[t].held + 1 \in Nat /\ thr[t].held + 1 > 0
    BY <1>2
  <1>8. /\ g \in ThrRecords /\ g.at = "modify" /\ g.to = "ERROR" /\ g.then = "disc_failed"
        /\ g.disc = 0 /\ g.held = thr[t].held + 1
    BY <1>6, <1>7, ThrHeld
  <1> HIDE DEF g
  <1>9. Threaded' /\ Others(t) /\ thr'[t] = g
    BY <1>1, <1>8, RecordSet
  <1> QED
    BY <1>7, <1>8, <1>9 DEF CallsAgain

LEMMA DisconnectFailsStep ==
  ASSUME TypeInv, NEW t \in Threads, DisconnectFails(t)
  PROVE  LeavingFrame /\ Disconnects(t)
  <1> DEFINE a == Closing(ep)
             b == StopTimer(a)
             e == CloseUpcall(b)
  <1>1. /\ thr[t].at = "end" /\ thr[t].disc > 0 /\ mutex = "free" /\ ep \in EpRecords
        /\ UNCHANGED <<qp, qmutex, rxq, hw, fatal>>
    BY DEF DisconnectFails, Disconnecting, At, TypeInv
  <1>2. hw' \in HwRecords /\ HwSame(hw, hw')
    BY <1>1, HwKept
  <1>3. \/ /\ ep' = Get(e) /\ mutex' = t
           /\ thr' = [thr EXCEPT ![t].at = "modify", ![t].to = "ERROR",
                            ![t].then = "disc_failed", ![t].internal = TRUE,
                            ![t].disc = 0, ![t].held = @ + 1]
        \/ Leave(t, e, 0, TRUE)
    BY DEF DisconnectFails
  <1>4. /\ a \in EpRecords /\ Steady(ep, a) /\ Silent(ep, a)
        /\ a.state \in {"CLOSING", "MORIBUND"}
    BY <1>1, ClosingFields
  <1> HIDE DEF a
  <1>5. b \in EpRecords /\ Same(a, b)
    BY <1>4, StopTimerSame
  <1> HIDE DEF b
  <1>6. /\ e \in EpRecords /\ Steady(b, e) /\ e.state = b.state /\ ~e.cm_id
        /\ e.told = IF b.cm_id THEN "CLOSE" ELSE b.told
    BY <1>5, CloseFields
  <1> HIDE DEF e
  <1>7. /\ ep' \in EpRecords /\ Same(e, ep')
        /\ \/ Done(t, 0) /\ mutex' = "free"
           \/ CallsAgain(t) /\ mutex' = t
    <2>1. CASE Leave(t, e, 0, TRUE)
      BY <1>1, <1>6, <2>1, DisconnectEffect
    <2>2. CASE ~Leave(t, e, 0, TRUE)
      BY <1>3, <1>6, <2>2, GetSame, CallsAgainEffect
    <2> QED
      BY <2>1, <2>2
  <1> QED
    BY <1>1, <1>2, <1>4, <1>5, <1>6, <1>7
       DEF LeavingFrame, Disconnects, Late, Same, Steady, Silent

LEMMA DisconnectFailedStep ==
  ASSUME TypeInv, NEW t \in Threads, DisconnectFailed(t)
  PROVE  LeavingFrame /\ GivesUp(t)
  <1> DEFINE e == Put(ep)
  <1>1. /\ ep \in EpRecords /\ mutex' = "free" /\ UNCHANGED <<qp, qmutex, rxq, hw, fatal>>
        /\ Proceed(t, e, 0, TRUE, thr[t].held - 1) /\ In(t, "disc_failed")
    BY DEF DisconnectFailed, At, In, Busy, TypeInv
  <1>2. thr[t].held - 1 \in Nat
    BY <1>1 DEF TypeInv, ThrRecords
  <1>3. e \in EpRecords /\ Same(ep, e)
    BY <1>1, PutSame
  <1> HIDE DEF e
  <1>4. ep' \in EpRecords /\ Same(e, ep') /\ Done(t, 0)
    BY <1>1, <1>2, <1>3, DiscValues, ProceedEffect DEF TypeInv, Threaded
  <1> QED
    BY <1>1, <1>3, <1>4, HwKept DEF LeavingFrame, GivesUp, Same, Steady, Silent

LEMMA DisconnectIgnoredStep ==
  ASSUME TypeInv, NEW t \in Threads, DisconnectIgnored(t)
  PROVE  LeavingFrame /\ Disconnects(t)
  <1>1. /\ thr[t].at = "end" /\ thr[t].disc > 0 /\ mutex = "free" /\ ep \in EpRecords
        /\ UNCHANGED <<qp, qmutex, rxq, hw, fatal>> /\ Leave(t, ep, 0, FALSE)
    BY DEF DisconnectIgnored, Disconnecting, At, TypeInv
  <1>2. ep' \in EpRecords /\ Same(ep, ep') /\ Done(t, 0) /\ mutex' = "free"
    BY <1>1, DisconnectEffect
  <1> QED
    BY <1>1, <1>2, HwKept DEF LeavingFrame, Disconnects, Same

LEMMA DisconnectFatalStep ==
  ASSUME TypeInv, NEW t \in Threads, DisconnectFatal(t)
  PROVE  LeavingFrame /\ Disconnects(t)
  <1> DEFINE a == CloseUpcall(ep)
             e == SetState(a, "DEAD")
  <1>1. /\ thr[t].at = "end" /\ thr[t].disc > 0 /\ mutex = "free" /\ ep \in EpRecords
        /\ UNCHANGED <<qp, qmutex, rxq, hw, fatal>> /\ Leave(t, e, 0, TRUE)
    BY DEF DisconnectFatal, Disconnecting, At, TypeInv
  <1>2. /\ a \in EpRecords /\ Steady(ep, a) /\ a.state = ep.state /\ ~a.cm_id
        /\ a.told = IF ep.cm_id THEN "CLOSE" ELSE ep.told
    BY <1>1, CloseFields
  <1> HIDE DEF a
  <1>3. e \in EpRecords /\ e.state = "DEAD" /\ Steady(a, e) /\ Silent(a, e)
    BY <1>2, StateFields DEF States
  <1> HIDE DEF e
  <1>4. ep' \in EpRecords /\ Same(e, ep') /\ Done(t, 0) /\ mutex' = "free"
    BY <1>1, <1>3, DisconnectEffect
  <1> QED
    BY <1>1, <1>2, <1>3, <1>4, HwKept DEF LeavingFrame, Disconnects, Late, Same, Steady, Silent

LEMMA ReleaseStep ==
  ASSUME TypeInv, NEW t \in Threads, Release(t)
  PROVE  LeavingFrame /\ Releases(t)
  <1> DEFINE e == ReleaseResources(ep)
  <1>1. /\ thr[t].at = "end" /\ ep \in EpRecords /\ thr[t].held \in Nat
        /\ UNCHANGED <<qp, mutex, qmutex, rxq, hw, fatal>>
        /\ Proceed(t, e, 0, FALSE, thr[t].held)
    BY DEF Release, At, TypeInv, ThrRecords
  <1>2. /\ e \in EpRecords /\ Silent(ep, e) /\ e.state = ep.state /\ e.side = ep.side
        /\ e.hwtid # "own"
        /\ (e.qp <=> ep.qp) /\ (e.ulp <=> ep.ulp)
        /\ (e.retry_v1 <=> ep.retry_v1) /\ (Peers(e) <=> Peers(ep))
    BY <1>1, ReleaseFields
  <1> HIDE DEF e
  <1>3. ep' \in EpRecords /\ Same(e, ep') /\ Done(t, 0)
    BY <1>1, <1>2, DiscValues, ProceedEffect DEF TypeInv, Threaded
  <1> QED
    BY <1>1, <1>2, <1>3, HwKept DEF LeavingFrame, Releases, Kept, Same, Steady, Silent

LEMMA LeavingKeeps ==
  ASSUME TypeInv, EventInv, NEW t \in Threads, Leaving(t)
  PROVE  TypeInv' /\ EventInv' /\ CmStep
  <1>1. LeavingFrame /\ (Disconnects(t) \/ GivesUp(t) \/ Releases(t))
    BY DisconnectAbortStep, DisconnectCloseStep, DisconnectFailsStep, DisconnectFailedStep,
       DisconnectIgnoredStep, DisconnectFatalStep, ReleaseStep DEF Leaving
  <1> QED
    BY <1>1, DisconnectsKeeps, GivesUpKeeps, ReleasesKeeps

-----------------------------------------------------------------------------
(* The ULP. *)

UlpFrame == /\ UNCHANGED <<qp, qmutex, rxq, fatal>>
            /\ ep' \in EpRecords /\ hw' \in HwRecords /\ HwSame(hw, hw')

(* The request is answered, and not accepted. *)
Declines ==
  /\ ep.ulp /\ thr["ulp"].at = "idle" /\ mutex = "free" /\ mutex' = mutex
  /\ ep'.side = ep.side /\ ep'.hwtid = ep.hwtid /\ ep'.state = ep.state /\ ~ep'.ulp
  /\ Silent(ep, ep') /\ (ep'.qp <=> ep.qp)
  /\ (ep'.retry_v1 <=> ep.retry_v1) /\ (Peers(ep') <=> Peers(ep))
  /\ Threaded' /\ Others("ulp") /\ thr'["ulp"].at \in {"idle", "end", "reject"}

LEMMA DeclinesKeeps ==
  ASSUME TypeInv, EventInv, UlpFrame, Declines
  PROVE  TypeInv' /\ EventInv' /\ CmStep
  <1>1. TypeInv'
    BY DEF TypeInv, UlpFrame, Declines, Threaded, Others, In, Busy, Threads
  <1>2. ~Active /\ ep'.side = ep.side
    BY DEF Declines, EventInv, SideInv
  <1> USE <1>2, RxKept
       DEF UlpFrame, Declines, EventInv, SideInv, LockInv, OnceInv, ActiveInv, PassiveInv,
           CloseInv, CmStep, Up, Locked, Late, HearingEnd, Pending, Unasked, Coming, Opening,
           OpenHandled, BreakHandled, OpenOps, ActOps, Replying, Accepting, In, Busy, Peer, Fresh,
           Active, Worker, Done, Others, Steady, Same, Silent, Threads, Sided, HwSame
  <1>3. SideInv' /\ OnceInv'
    OBVIOUS
  <1>4. LockInv'
    OBVIOUS
  <1>5. ActiveInv'
    OBVIOUS
  <1>6. PassiveInv'
    OBVIOUS
  <1>7. CloseInv' /\ CmStep
    OBVIOUS
  <1> QED
    BY <1>1, <1>3, <1>4, <1>5, <1>6, <1>7

(* It is accepted. *)
Accepts ==
  /\ ep.ulp /\ ep.state = "MPA_REQ_RCVD"
  /\ mutex = "free" /\ mutex' = "ulp"
  /\ ep'.side = ep.side /\ ep'.hwtid = ep.hwtid /\ ep'.state = ep.state /\ ~ep'.ulp
  /\ ep'.told = ep.told /\ ep'.cm_id /\ (ep'.retry_v1 <=> ep.retry_v1)
  /\ (Peers(ep') <=> Peers(ep))
  /\ Threaded' /\ Others("ulp") /\ thr'["ulp"].at = "modify" /\ thr'["ulp"].then = "accept"

LEMMA AcceptsKeeps ==
  ASSUME TypeInv, EventInv, UlpFrame, Accepts
  PROVE  TypeInv' /\ EventInv' /\ CmStep
  <1>1. TypeInv'
    BY DEF TypeInv, UlpFrame, Accepts, Threaded, Others, In, Busy, Threads
  <1>2. ~Active /\ ep'.side = ep.side
    BY DEF Accepts, EventInv, SideInv
  <1> USE <1>2, RxKept
       DEF UlpFrame, Accepts, EventInv, SideInv, LockInv, OnceInv, ActiveInv, PassiveInv,
           CloseInv, CmStep, Up, Locked, Late, HearingEnd, Pending, Unasked, Coming, Opening,
           OpenHandled, BreakHandled, OpenOps, ActOps, Replying, Accepting, In, Busy, Peer, Fresh,
           Active, Worker, Done, Others, Steady, Same, Silent, Threads, Sided, HwSame
  <1>3. SideInv' /\ OnceInv'
    OBVIOUS
  <1>4. LockInv'
    OBVIOUS
  <1>5. ActiveInv'
    OBVIOUS
  <1>6. PassiveInv'
    OBVIOUS
  <1>7. CloseInv' /\ CmStep
    OBVIOUS
  <1> QED
    BY <1>1, <1>3, <1>4, <1>5, <1>6, <1>7

(* The accept ends. *)
AcceptEnds ==
  /\ Accepting /\ mutex' = "free"
  /\ ep'.side = ep.side /\ ep'.hwtid = ep.hwtid /\ (ep'.ulp <=> ep.ulp)
  /\ (ep'.qp <=> ep.qp) /\ (ep'.retry_v1 <=> ep.retry_v1) /\ (Peers(ep') <=> Peers(ep))
  /\ \/ /\ ~ep'.cm_id /\ ep'.told = ep.told
        /\ ep'.state \in {ep.state, "MPA_REP_SENT"} /\ Done("ulp", 2)
     \/ /\ (ep'.cm_id <=> ep.cm_id) /\ ep'.told = IF ep.cm_id THEN "ESTABLISHED" ELSE ep.told
        /\ ep'.state = "FPDU_MODE" /\ Done("ulp", 0)

LEMMA AcceptEndsKeeps ==
  ASSUME TypeInv, EventInv, UlpFrame, AcceptEnds
  PROVE  TypeInv' /\ EventInv' /\ CmStep
  <1>1. TypeInv'
    BY DEF TypeInv, UlpFrame, AcceptEnds, Done, Threaded, Others, In, Busy, Threads
  <1>2. ~Active /\ ep'.side = ep.side /\ mutex = "ulp"
    BY DEF AcceptEnds, EventInv, SideInv, LockInv, Accepting, In, Locked, Threads
  <1> USE <1>2, RxKept
       DEF UlpFrame, AcceptEnds, EventInv, SideInv, LockInv, OnceInv, ActiveInv, PassiveInv,
           CloseInv, CmStep, Up, Locked, Late, HearingEnd, Pending, Unasked, Coming, Opening,
           OpenHandled, BreakHandled, OpenOps, ActOps, Replying, Accepting, In, Busy, Peer, Fresh,
           Active, Worker, Done, Others, Steady, Same, Silent, Threads, Sided, HwSame
  <1>3. SideInv' /\ OnceInv'
    OBVIOUS
  <1>4. LockInv'
    OBVIOUS
  <1>5. ActiveInv'
    OBVIOUS
  <1>6. PassiveInv'
    OBVIOUS
  <1>7. CloseInv' /\ CmStep
    OBVIOUS
  <1> QED
    BY <1>1, <1>3, <1>4, <1>5, <1>6, <1>7

(* The timer of a rejected request is stopped. *)
RejectEnds ==
  /\ thr["ulp"].at = "reject" /\ mutex' = mutex /\ Same(ep, ep')
  /\ Threaded' /\ Others("ulp")
  /\ thr'["ulp"].at = "end" /\ thr'["ulp"].disc = thr["ulp"].disc

LEMMA RejectEndsKeeps ==
  ASSUME TypeInv, EventInv, UlpFrame, RejectEnds
  PROVE  TypeInv' /\ EventInv' /\ CmStep
  <1>1. TypeInv'
    BY DEF TypeInv, UlpFrame, RejectEnds, Threaded, Others, In, Busy, Threads
  <1>2. ep'.side = ep.side
    BY DEF RejectEnds, Same, Steady
  <1> USE <1>2, RxKept
       DEF UlpFrame, RejectEnds, EventInv, SideInv, LockInv, OnceInv, ActiveInv, PassiveInv,
           CloseInv, CmStep, Up, Locked, Late, HearingEnd, Pending, Unasked, Coming, Opening,
           OpenHandled, BreakHandled, OpenOps, ActOps, Replying, Accepting, In, Busy, Peer, Fresh,
           Active, Worker, Done, Others, Steady, Same, Silent, Threads, Sided, HwSame
  <1>3. SideInv' /\ OnceInv'
    OBVIOUS
  <1>4. LockInv'
    OBVIOUS
  <1>5. ActiveInv'
    OBVIOUS
  <1>6. PassiveInv'
    OBVIOUS
  <1>7. CloseInv' /\ CmStep
    OBVIOUS
  <1> QED
    BY <1>1, <1>3, <1>4, <1>5, <1>6, <1>7

-----------------------------------------------------------------------------
(* The user. *)

UserFrame == /\ UNCHANGED <<mutex, qmutex, rxq, hw, fatal>>
             /\ ep' \in EpRecords /\ Same(ep, ep')
             /\ qp' \in QpRecords /\ qp'.state = qp.state

UserStep ==
  \/ UNCHANGED thr
  \/ /\ thr["user"].at \in {"idle", "after"}
     /\ thr["user"].at = "after" => thr["user"].then = "user"
     /\ Threaded' /\ Others("user") /\ thr'["user"].disc = thr["user"].disc
     /\ \/ thr'["user"].at \in {"idle", "end"}
        \/ thr'["user"].at = "modify" /\ thr'["user"].to # "RTS" /\ thr'["user"].then = "user"

LEMMA UserKeeps ==
  ASSUME TypeInv, EventInv, UserFrame, UserStep
  PROVE  TypeInv' /\ EventInv' /\ CmStep
  <1>1. TypeInv'
    BY DEF TypeInv, UserFrame, UserStep, Threaded, Others, In, Busy, Threads
  <1>2. ep'.side = ep.side
    BY DEF UserFrame, Same, Steady
  <1> USE <1>2, RxKept
       DEF UserFrame, UserStep, EventInv, SideInv, LockInv, OnceInv, ActiveInv, PassiveInv,
           CloseInv, CmStep, Up, Locked, Late, HearingEnd, Pending, Unasked, Coming, Opening,
           OpenHandled, BreakHandled, OpenOps, ActOps, Replying, Accepting, In, Busy, Peer, Fresh,
           Active, Worker, Done, Others, Steady, Same, Silent, Threads, Sided, HwSame
  <1>3. SideInv' /\ OnceInv'
    OBVIOUS
  <1>4. LockInv'
    OBVIOUS
  <1>5. ActiveInv'
    OBVIOUS
  <1>6. PassiveInv'
    OBVIOUS
  <1>7. CloseInv' /\ CmStep
    OBVIOUS
  <1> QED
    BY <1>1, <1>3, <1>4, <1>5, <1>6, <1>7


-----------------------------------------------------------------------------
(* Their actions. *)

LEMMA AnswerEffect ==
  ASSUME TypeInv, NEW disc \in 0..2, ep.ulp, thr["ulp"].at = "idle", mutex = "free",
         Answer(ep, disc)
  PROVE  UlpFrame /\ Declines
  <1> DEFINE e == [ep EXCEPT !.ulp = FALSE]
  <1>1. /\ ep \in EpRecords /\ UNCHANGED <<qp, mutex, qmutex, rxq, hw, fatal>>
        /\ Proceed("ulp", e, disc, FALSE, 1) /\ "ulp" \in Threads
    BY DEF Answer, TypeInv, Threads
  <1>2. /\ e \in EpRecords /\ ~e.ulp /\ Silent(ep, e) /\ e.state = ep.state
        /\ e.side = ep.side /\ e.hwtid = ep.hwtid
        /\ (e.qp <=> ep.qp) /\ (e.retry_v1 <=> ep.retry_v1) /\ (Peers(e) <=> Peers(ep))
    BY <1>1, UlpFields
  <1> HIDE DEF e
  <1>3. ep' \in EpRecords /\ Same(e, ep') /\ Done("ulp", disc)
    BY <1>1, <1>2, ProceedEffect DEF TypeInv, Threaded
  <1> QED
    BY <1>1, <1>2, <1>3, HwKept DEF UlpFrame, Declines, Done, Same, Steady, Silent

LEMMA AnswerVainStep ==
  ASSUME TypeInv, AnswerVain
  PROVE  UlpFrame /\ Declines
  BY DiscValues, AnswerEffect DEF AnswerVain, Answering, At

LEMMA AcceptBadStep ==
  ASSUME TypeInv, AcceptBad
  PROVE  UlpFrame /\ Declines
  BY DiscValues, AnswerEffect DEF AcceptBad, Answering, At

LEMMA AcceptFields ==
  ASSUME NEW e \in EpRecords
  PROVE  LET f == [e EXCEPT !.cm_id = TRUE, !.qp = TRUE, !.ulp = FALSE] IN
         /\ f \in EpRecords /\ f.cm_id /\ ~f.ulp /\ f.told = e.told /\ f.state = e.state
         /\ f.side = e.side /\ f.hwtid = e.hwtid
         /\ (f.retry_v1 <=> e.retry_v1) /\ (Peers(f) <=> Peers(e))
  BY DEF EpRecords, Peers

LEMMA AcceptStep ==
  ASSUME TypeInv, Accept
  PROVE  UlpFrame /\ Accepts
  <1> DEFINE e == [ep EXCEPT !.cm_id = TRUE, !.qp = TRUE, !.ulp = FALSE]
             a == Thr_at(thr["ulp"], "modify")
             b == Thr_to(a, "RTS")
             c == Thr_then(b, "accept")
             d == Thr_held(c, 1)
  <1>1. /\ ep \in EpRecords /\ ep' = e /\ UNCHANGED <<qp, qmutex, rxq, hw, fatal>>
        /\ ep.ulp /\ mutex = "free" /\ mutex' = "ulp" /\ ep.state = "MPA_REQ_RCVD"
    BY DEF Accept, Answering, TypeInv
  <1>2. /\ e \in EpRecords /\ e.cm_id /\ ~e.ulp /\ e.told = ep.told /\ e.state = ep.state
        /\ e.side = ep.side /\ e.hwtid = ep.hwtid
        /\ (e.retry_v1 <=> ep.retry_v1) /\ (Peers(e) <=> Peers(ep))
    BY <1>1, AcceptFields
  <1> HIDE DEF e
  <1>3. thr' = [thr EXCEPT !["ulp"] = d]
    BY DEF Accept, TypeInv, Thr_at, Thr_to, Thr_then, Thr_held
  <1>4. a \in ThrRecords /\ a.at = "modify"
    BY ThrAt DEF TypeInv, Threads, Steps
  <1> HIDE DEF a
  <1>5. b \in ThrRecords /\ b.at = "modify"
    BY <1>4, ThrTo DEF QpStates
  <1> HIDE DEF b
  <1>6. c \in ThrRecords /\ c.at = "modify" /\ c.then = "accept"
    BY <1>5, ThrThen DEF Thens
  <1> HIDE DEF c
  <1>7. d \in ThrRecords /\ d.at = "modify" /\ d.then = "accept"
    BY <1>6, ThrHeld
  <1> HIDE DEF d
  <1>8. Threaded' /\ Others("ulp") /\ thr'["ulp"] = d
    BY <1>3, <1>7, RecordSet DEF Threads
  <1> QED
    BY <1>1, <1>2, <1>7, <1>8, HwKept DEF UlpFrame, Accepts

LEMMA UlpLeaves ==
  ASSUME TypeInv, Accepting, EventInv, NEW e \in EpRecords, NEW disc \in 0..2,
         Leave("ulp", e, disc, FALSE)
  PROVE  ep' \in EpRecords /\ Same(e, ep') /\ Done("ulp", disc) /\ mutex' = "free"
  <1>1. mutex = "ulp" /\ "ulp" \in Threads
    BY DEF EventInv, LockInv, Accepting, In, Locked, Threads
  <1> QED
    BY <1>1, LeaveEffect DEF TypeInv, Threaded

LEMMA AcceptedStep ==
  ASSUME TypeInv, EventInv, Accepted
  PROVE  UlpFrame /\ AcceptEnds
  <1> DEFINE a == With_mpa_skb(ep, TRUE)
             sent == SetFlag(a, "STOP_MPA_TIMER")
             Gone(e) == [e EXCEPT !.cm_id = FALSE]
             f == Gone(ep)
             g == SetState(sent, "MPA_REP_SENT")
             h == Gone(g)
             k == SetState(sent, "FPDU_MODE")
             l == EstablishedUpcall(k)
  <1>1. ep \in EpRecords /\ Accepting /\ UNCHANGED <<qp, qmutex, rxq, fatal>>
    BY DEF Accepted, At, Accepting, In, Busy, TypeInv
  <1>2. hw' \in HwRecords /\ HwSame(hw, hw')
    BY HwKept, SentMpaSame DEF Accepted, TypeInv
  <1>3. \/ Leave("ulp", f, 2, FALSE) \/ Leave("ulp", h, 2, FALSE) \/ Leave("ulp", l, 0, FALSE)
    BY DEF Accepted, With_mpa_skb
  <1>4. a \in EpRecords /\ Same(ep, a)
    BY <1>1, MpaSkbSame
  <1>5. sent \in EpRecords /\ Same(a, sent)
    BY <1>4, SetFlagSame DEF EpFlags
  <1> HIDE DEF a, sent
  <1>6. CASE Leave("ulp", f, 2, FALSE)
    <2>1. /\ f \in EpRecords /\ ~f.cm_id /\ f.told = ep.told /\ Steady(ep, f)
          /\ f.state = ep.state
      BY <1>1, CmIdFields
    <2> HIDE DEF f
    <2>2. ep' \in EpRecords /\ Same(f, ep') /\ Done("ulp", 2) /\ mutex' = "free"
      BY <1>1, <1>6, <2>1, DiscValues, UlpLeaves
    <2> QED
      BY <1>1, <1>2, <2>1, <2>2 DEF UlpFrame, AcceptEnds, Same, Steady, Silent
  <1>7. CASE Leave("ulp", h, 2, FALSE)
    <2>1. g \in EpRecords /\ g.state = "MPA_REP_SENT" /\ Steady(sent, g) /\ Silent(sent, g)
      BY <1>5, StateFields DEF States, Connecting
    <2> HIDE DEF g
    <2>2. h \in EpRecords /\ ~h.cm_id /\ h.told = g.told /\ Steady(g, h) /\ h.state = g.state
      BY <2>1, CmIdFields
    <2> HIDE DEF h
    <2>3. ep' \in EpRecords /\ Same(h, ep') /\ Done("ulp", 2) /\ mutex' = "free"
      BY <1>1, <1>7, <2>2, DiscValues, UlpLeaves
    <2> QED
      BY <1>1, <1>2, <1>4, <1>5, <2>1, <2>2, <2>3
         DEF UlpFrame, AcceptEnds, Same, Steady, Silent
  <1>8. CASE Leave("ulp", l, 0, FALSE)
    <2>1. k \in EpRecords /\ k.state = "FPDU_MODE" /\ Steady(sent, k) /\ Silent(sent, k)
      BY <1>5, StateFields DEF States, Connecting
    <2> HIDE DEF k
    <2>2. /\ l \in EpRecords /\ Steady(k, l) /\ l.state = k.state /\ (l.cm_id <=> k.cm_id)
          /\ l.told = IF k.cm_id THEN "ESTABLISHED" ELSE k.told
      BY <2>1, EstablishedFields
    <2> HIDE DEF l
    <2>3. ep' \in EpRecords /\ Same(l, ep') /\ Done("ulp", 0) /\ mutex' = "free"
      BY <1>1, <1>8, <2>2, DiscValues, UlpLeaves
    <2> QED
      BY <1>1, <1>2, <1>4, <1>5, <2>1, <2>2, <2>3
         DEF UlpFrame, AcceptEnds, Same, Steady, Silent
  <1> QED
    BY <1>3, <1>6, <1>7, <1>8

LEMMA RejectingEffect ==
  ASSUME TypeInv, NEW disc \in 0..2, thr' = Rejecting(disc)
  PROVE  Threaded' /\ Others("ulp") /\ thr'["ulp"].at = "reject"
  <1> DEFINE a == Thr_at(thr["ulp"], "reject")
             b == Thr_disc(a, disc)
             c == Thr_held(b, 1)
  <1>1. thr' = [thr EXCEPT !["ulp"] = c]
    BY DEF Rejecting, TypeInv, Thr_at, Thr_disc, Thr_held
  <1>2. a \in ThrRecords /\ a.at = "reject"
    BY ThrAt DEF TypeInv, Threads, Steps
  <1> HIDE DEF a
  <1>3. b \in ThrRecords /\ b.at = "reject"
    BY <1>2, ThrDisc
  <1> HIDE DEF b
  <1>4. c \in ThrRecords /\ c.at = "reject"
    BY <1>3, ThrHeld
  <1> HIDE DEF c
  <1> QED
    BY <1>1, <1>4, RecordSet DEF Threads

LEMMA RejectStep ==
  ASSUME TypeInv, Reject
  PROVE  UlpFrame /\ Declines
  <1> DEFINE a == With_mpa_skb(ep, TRUE)
             e == [a EXCEPT !.ulp = FALSE]
  <1>1. /\ ep \in EpRecords /\ ep.ulp /\ thr["ulp"].at = "idle" /\ mutex = "free"
        /\ UNCHANGED <<qp, mutex, qmutex, rxq, fatal>>
    BY DEF Reject, Answering, At, TypeInv
  <1>2. hw' \in HwRecords /\ HwSame(hw, hw')
    BY HwKept, SentMpaSame DEF Reject, TypeInv
  <1>3. ep' = e
    BY DEF Reject, With_mpa_skb
  <1>4. a \in EpRecords /\ Same(ep, a)
    BY <1>1, MpaSkbSame
  <1> HIDE DEF a
  <1>5. /\ e \in EpRecords /\ ~e.ulp /\ Silent(a, e) /\ e.state = a.state
        /\ e.side = a.side /\ e.hwtid = a.hwtid
        /\ (e.qp <=> a.qp) /\ (e.retry_v1 <=> a.retry_v1) /\ (Peers(e) <=> Peers(a))
    BY <1>4, UlpFields
  <1> HIDE DEF e
  <1>6. Threaded' /\ Others("ulp") /\ thr'["ulp"].at = "reject"
    BY DiscValues, RejectingEffect DEF Reject
  <1> QED
    BY <1>1, <1>2, <1>3, <1>4, <1>5, <1>6 DEF UlpFrame, Declines, Same, Steady, Silent

LEMMA RejectedStep ==
  ASSUME TypeInv, Rejected
  PROVE  UlpFrame /\ RejectEnds
  <1> DEFINE a == Thr_at(thr["ulp"], "end")
  <1>1. /\ ep \in EpRecords /\ thr["ulp"].at = "reject" /\ ep' = StopTimer(ep)
        /\ UNCHANGED <<qp, mutex, qmutex, rxq, hw, fatal>>
        /\ thr' = [thr EXCEPT !["ulp"] = a]
    BY DEF Rejected, At, TypeInv, Thr_at
  <1>2. a \in ThrRecords /\ a.at = "end" /\ a.disc = thr["ulp"].disc
    BY ThrAt DEF TypeInv, Threads, Steps
  <1> HIDE DEF a
  <1>3. Threaded' /\ Others("ulp") /\ thr'["ulp"] = a
    BY <1>1, <1>2, RecordSet DEF Threads
  <1>4. ep' \in EpRecords /\ Same(ep, ep')
    BY <1>1, StopTimerSame
  <1> QED
    BY <1>1, <1>2, <1>3, <1>4, HwKept DEF UlpFrame, RejectEnds

LEMMA UlpKeeps ==
  ASSUME TypeInv, EventInv, Ulp
  PROVE  TypeInv' /\ EventInv' /\ CmStep
  <1>1. UlpFrame /\ (Declines \/ Accepts \/ AcceptEnds \/ RejectEnds)
    BY AnswerVainStep, AcceptStep, AcceptBadStep, AcceptedStep, RejectStep, RejectedStep DEF Ulp
  <1> QED
    BY <1>1, DeclinesKeeps, AcceptsKeeps, AcceptEndsKeeps, RejectEndsKeeps

LEMMA UserCalls ==
  ASSUME TypeInv, NEW to \in QpStates, NEW internal \in BOOLEAN, CallByUser(to, internal)
  PROVE  /\ thr["user"].at = "idle" /\ Threaded' /\ Others("user")
         /\ thr'["user"].disc = thr["user"].disc
         /\ thr'["user"].at = "modify" /\ thr'["user"].to = to /\ thr'["user"].then = "user"
         /\ UNCHANGED <<ep, mutex, qmutex, rxq, hw, fatal>>
  <1> DEFINE a == Thr_at(thr["user"], "modify")
             b == Thr_to(a, to)
             c == Thr_then(b, "user")
             d == Thr_internal(c, internal)
  <1>1. thr' = [thr EXCEPT !["user"] = d]
    BY DEF CallByUser, TypeInv, Thr_at, Thr_to, Thr_then, Thr_internal
  <1>2. a \in ThrRecords /\ a.at = "modify" /\ a.disc = thr["user"].disc
    BY ThrAt DEF TypeInv, Threads, Steps
  <1> HIDE DEF a
  <1>3. b \in ThrRecords /\ b.at = "modify" /\ b.disc = thr["user"].disc /\ b.to = to
    BY <1>2, ThrTo
  <1> HIDE DEF b
  <1>4. /\ c \in ThrRecords /\ c.at = "modify" /\ c.disc = thr["user"].disc /\ c.to = to
        /\ c.then = "user"
    BY <1>3, ThrThen DEF Thens
  <1> HIDE DEF c
  <1>5. /\ d \in ThrRecords /\ d.at = "modify" /\ d.disc = thr["user"].disc /\ d.to = to
        /\ d.then = "user"
    BY <1>4, ThrInternal
  <1> HIDE DEF d
  <1>6. Threaded' /\ Others("user") /\ thr'["user"] = d
    BY <1>1, <1>5, RecordSet DEF Threads
  <1> QED
    BY <1>5, <1>6 DEF CallByUser, At

LEMMA UserFields ==
  ASSUME NEW q \in QpRecords, NEW u \in {"open", "moved", "destroying", "destroyed"}
  PROVE  [q EXCEPT !.user = u] \in QpRecords /\ [q EXCEPT !.user = u].state = q.state
  BY DEF QpRecords

LEMMA UserActionKeeps ==
  ASSUME TypeInv, EventInv, User
  PROVE  TypeInv' /\ EventInv' /\ CmStep
  <1>1. ep \in EpRecords /\ qp \in QpRecords
    BY DEF TypeInv
  <1>2. CASE UserMove
    <2>1. PICK to \in Moves : CallByUser(to, FALSE)
      BY <1>2 DEF UserMove
    <2>2. to \in QpStates /\ to # "RTS"
      BY EndpointAssumption DEF QpStates
    <2>3. /\ thr["user"].at = "idle" /\ Threaded' /\ Others("user")
          /\ thr'["user"].disc = thr["user"].disc
          /\ thr'["user"].at = "modify" /\ thr'["user"].to = to /\ thr'["user"].then = "user"
          /\ UNCHANGED <<ep, mutex, qmutex, rxq, hw, fatal>>
      BY <2>1, <2>2, UserCalls
    <2>4. qp' \in QpRecords /\ qp'.state = qp.state
      BY <1>1, <1>2, UserFields DEF UserMove
    <2>5. UserFrame /\ UserStep
      BY <1>1, <2>2, <2>3, <2>4, SameReflexive DEF UserFrame, UserStep
    <2> QED
      BY <2>5, UserKeeps
  <1>3. CASE Destroy
    <2>1. CallByUser("ERROR", qp.state = "TERMINATE") /\ (qp.state = "TERMINATE") \in BOOLEAN
      BY <1>3 DEF Destroy
    <2>2. /\ thr["user"].at = "idle" /\ Threaded' /\ Others("user")
          /\ thr'["user"].disc = thr["user"].disc
          /\ thr'["user"].at = "modify" /\ thr'["user"].to = "ERROR" /\ thr'["user"].then = "user"
          /\ UNCHANGED <<ep, mutex, qmutex, rxq, hw, fatal>>
      BY <2>1, UserCalls DEF QpStates
    <2>3. qp' \in QpRecords /\ qp'.state = qp.state
      BY <1>1, <1>3, UserFields DEF Destroy
    <2>4. UserFrame /\ UserStep
      BY <1>1, <2>2, <2>3, SameReflexive DEF UserFrame, UserStep
    <2> QED
      BY <2>4, UserKeeps
  <1>4. CASE UserMoved
    <2>1. /\ thr["user"].at = "after" /\ thr["user"].then = "user"
          /\ thr["user"].disc \in 0..2 /\ thr["user"].held \in Nat
          /\ Proceed("user", ep, thr["user"].disc, FALSE, thr["user"].held)
          /\ UNCHANGED <<qp, mutex, qmutex, rxq, hw, fatal>>
      BY <1>4 DEF UserMoved, At, TypeInv, ThrRecords, Threads
    <2>2. ep' \in EpRecords /\ Same(ep, ep') /\ Done("user", thr["user"].disc)
      BY <1>1, <2>1, ProceedEffect DEF TypeInv, Threaded, Threads
    <2>3. UserFrame /\ UserStep
      BY <1>1, <2>1, <2>2 DEF UserFrame, UserStep, Done
    <2> QED
      BY <2>3, UserKeeps
  <1>5. CASE Destroyed
    <2>1. qp' \in QpRecords /\ qp'.state = qp.state
      BY <1>1, <1>5, UserFields DEF Destroyed
    <2>2. UserFrame /\ UserStep
      BY <1>1, <1>5, <2>1, SameReflexive DEF Destroyed, UserFrame, UserStep
    <2> QED
      BY <2>2, UserKeeps
  <1> QED
    BY <1>2, <1>3, <1>4, <1>5 DEF User

-----------------------------------------------------------------------------
(* The adapter and the peer. *)

LEMMA QueueSaid ==
  ASSUME TypeInv, NEW c \in Cpls, rxq' = Append(rxq, c), ep'.side = ep.side
  PROVE  /\ rxq' \in Seq(Cpls)
         /\ QueueSided /\ Sided(c) => QueueSided'
         /\ c.op \notin OpenOps => (OneOpen => OneOpen') /\ (OpenQueued' <=> OpenQueued)
         /\ OneOpen /\ ~OpenQueued => OneOpen'
         /\ BreakQueued' => BreakQueued \/ c.op = "RDMA_TERMINATE"
  <1>1. /\ rxq \in Seq(Cpls) /\ rxq' \in Seq(Cpls) /\ Len(rxq) \in Nat
        /\ Len(rxq') = Len(rxq) + 1 /\ rxq'[Len(rxq) + 1] = c
        /\ \A i \in 1..Len(rxq) : rxq'[i] = rxq[i]
    BY DEF TypeInv
  <1>2. \A i \in 1..Len(rxq') : i = Len(rxq) + 1 \/ i \in 1..Len(rxq)
    BY <1>1
  <1>3. \A i \in 1..Len(rxq) : i \in 1..Len(rxq')
    BY <1>1
  <1>4. QueueSided /\ Sided(c) => QueueSided'
    BY <1>1, <1>2 DEF QueueSided, Sided, Active
  <1>5. \A i \in Opens' : i \in Opens \/ (i = Len(rxq) + 1 /\ c.op \in OpenOps)
    BY <1>1, <1>2 DEF Opens
  <1>6. \A i \in Opens : i \in Opens'
    BY <1>1, <1>3 DEF Opens
  <1>7. c.op \notin OpenOps => (OneOpen => OneOpen') /\ (OpenQueued' <=> OpenQueued)
    BY <1>5, <1>6 DEF OneOpen, OpenQueued
  <1>8. OneOpen /\ ~OpenQueued => OneOpen'
    BY <1>5 DEF OneOpen, OpenQueued
  <1>9. BreakQueued' => BreakQueued \/ c.op = "RDMA_TERMINATE"
    BY <1>1, <1>2 DEF BreakQueued
  <1> QED
    BY <1>1, <1>4, <1>7, <1>8, <1>9

(* Nothing is said about the opening. *)
Hushed ==
  \/ rxq' = rxq
  \/ \E c \in Cpls : /\ c.op \notin OpenOps /\ rxq' = Append(rxq, c)
                     /\ c.op = "RDMA_TERMINATE" => hw.rdma

Quiet ==
  /\ UNCHANGED <<qp, mutex, qmutex, thr>> /\ fatal' \in BOOLEAN
  /\ ep' \in EpRecords /\ Same(ep, ep') /\ Hushed
  /\ hw' \in HwRecords /\ (hw'.conn = "opening" => hw.conn = "opening")
  /\ hw.fw = 0 => hw'.fw = 0 /\ (hw'.rdma <=> hw.rdma)

LEMMA HushedQueue ==
  ASSUME TypeInv, Hushed, ep'.side = ep.side
  PROVE  /\ rxq' \in Seq(Cpls)
         /\ QueueSided => QueueSided'
         /\ OneOpen => OneOpen'
         /\ OpenQueued' <=> OpenQueued
         /\ BreakQueued' => BreakQueued \/ hw.rdma
  <1>1. CASE rxq' = rxq
    BY <1>1, RxKept DEF TypeInv
  <1>2. CASE rxq' # rxq
    <2>1. PICK c \in Cpls : /\ c.op \notin OpenOps /\ rxq' = Append(rxq, c)
                            /\ c.op = "RDMA_TERMINATE" => hw.rdma
      BY <1>2 DEF Hushed
    <2>2. Sided(c)
      BY <2>1 DEF Sided, OpenOps
    <2> QED
      BY <2>1, <2>2, QueueSaid
  <1> QED
    BY <1>1, <1>2

LEMMA QuietKeeps ==
  ASSUME TypeInv, EventInv, Quiet
  PROVE  TypeInv' /\ EventInv' /\ CmStep
  <1>1. ep'.side = ep.side
    BY DEF Quiet, Same, Steady
  <1>2. TypeInv'
    BY <1>1, HushedQueue DEF TypeInv, Quiet, In, Busy
  <1> USE <1>1, HushedQueue
       DEF Quiet, EventInv, SideInv, LockInv, OnceInv, ActiveInv, PassiveInv,
           CloseInv, CmStep, Up, Locked, Late, HearingEnd, Pending, Unasked, Coming, Opening,
           OpenHandled, BreakHandled, OpenOps, ActOps, Replying, Accepting, In, Busy, Peer, Fresh,
           Active, Worker, Others, Steady, Same, Silent, Threads, Sided
  <1>3. SideInv' /\ OnceInv'
    OBVIOUS
  <1>4. LockInv'
    OBVIOUS
  <1>5. ActiveInv'
    OBVIOUS
  <1>6. PassiveInv'
    OBVIOUS
  <1>7. CloseInv' /\ CmStep
    OBVIOUS
  <1> QED
    BY <1>2, <1>3, <1>4, <1>5, <1>6, <1>7

(* The connection has opened, or not: what was coming is in the queue. *)
Settles ==
  /\ UNCHANGED <<ep, qp, mutex, qmutex, thr, fatal>> /\ Opening
  /\ hw' \in HwRecords /\ hw'.conn # "opening" /\ hw'.fw = hw.fw /\ (hw'.rdma <=> hw.rdma)
  /\ \E c \in Cpls : c.op \in OpenOps /\ Sided(c) /\ rxq' = Append(rxq, c)

LEMMA SettlesKeeps ==
  ASSUME TypeInv, EventInv, Settles
  PROVE  TypeInv' /\ EventInv' /\ CmStep
  <1>1. PICK c \in Cpls : c.op \in OpenOps /\ Sided(c) /\ rxq' = Append(rxq, c)
    BY DEF Settles
  <1>2. /\ ep'.side = ep.side /\ c.op # "RDMA_TERMINATE"
        /\ rxq' \in Seq(Cpls)
        /\ QueueSided => QueueSided'
        /\ OneOpen /\ ~OpenQueued => OneOpen'
        /\ BreakQueued' => BreakQueued
    BY <1>1, QueueSaid DEF Settles, OpenOps, ActOps
  <1>3. TypeInv'
    BY <1>2 DEF TypeInv, Settles, In, Busy
  <1> USE <1>2
       DEF Settles, EventInv, SideInv, LockInv, OnceInv, ActiveInv, PassiveInv,
           CloseInv, CmStep, Up, Locked, Late, HearingEnd, Pending, Unasked, Coming, Opening,
           OpenHandled, BreakHandled, OpenOps, ActOps, Replying, Accepting, In, Busy, Peer, Fresh,
           Active, Worker, Others, Steady, Same, Silent, Threads, Sided
  <1>4. SideInv' /\ OnceInv'
    OBVIOUS
  <1>5. LockInv'
    OBVIOUS
  <1>6. ActiveInv'
    OBVIOUS
  <1>7. PassiveInv'
    OBVIOUS
  <1>8. CloseInv' /\ CmStep
    OBVIOUS
  <1> QED
    BY <1>3, <1>4, <1>5, <1>6, <1>7, <1>8

(* Its neighbour is not found. *)
Lost ==
  /\ UNCHANGED <<qp, mutex, qmutex, thr, fatal>> /\ Opening
  /\ ep' \in EpRecords /\ Steady(ep, ep') /\ ep'.state = "DEAD"
  /\ IF Active THEN ~ep'.cm_id /\ ep'.told = IF ep.cm_id THEN "REFUSED" ELSE ep.told
               ELSE Silent(ep, ep')
  /\ hw' \in HwRecords /\ hw'.conn # "opening" /\ hw'.fw = hw.fw /\ (hw'.rdma <=> hw.rdma)
  /\ Hushed

LEMMA LostKeeps ==
  ASSUME TypeInv, EventInv, Lost
  PROVE  TypeInv' /\ EventInv' /\ CmStep
  <1>1. ep'.side = ep.side
    BY DEF Lost, Steady
  <1>2. TypeInv'
    BY <1>1, HushedQueue DEF TypeInv, Lost, In, Busy
  <1> USE <1>1, HushedQueue
       DEF Lost, EventInv, SideInv, LockInv, OnceInv, ActiveInv, PassiveInv,
           CloseInv, CmStep, Up, Locked, Late, HearingEnd, Pending, Unasked, Coming, Opening,
           OpenHandled, BreakHandled, OpenOps, ActOps, Replying, Accepting, In, Busy, Peer, Fresh,
           Active, Worker, Others, Steady, Same, Silent, Threads, Sided
  <1>3. SideInv' /\ OnceInv'
    OBVIOUS
  <1>4. LockInv'
    OBVIOUS
  <1>5. ActiveInv'
    OBVIOUS
  <1>6. PassiveInv'
    OBVIOUS
  <1>7. CloseInv' /\ CmStep
    OBVIOUS
  <1> QED
    BY <1>2, <1>3, <1>4, <1>5, <1>6, <1>7

LEMMA Queued ==
  ASSUME NEW op, NEW arg, Cpl(op, arg) \in Cpls, Says(op, arg),
         op \notin OpenOps, op = "RDMA_TERMINATE" => hw.rdma
  PROVE  Hushed
  <1>1. Cpl(op, arg).op = op
    BY DEF Cpl
  <1> QED
    BY <1>1 DEF Hushed, Says

LEMMA EstablishStep ==
  ASSUME TypeInv, Establish
  PROVE  Settles
  <1> DEFINE c == Cpl(IF Active THEN "ACT_ESTABLISH" ELSE "PASS_ESTABLISH", "ok")
  <1>1. c \in Cpls /\ c.op \in OpenOps /\ Sided(c)
    BY DEF Cpl, Cpls, Untid, OpenOps, ActOps, Sided
  <1>2. /\ hw' \in HwRecords /\ hw'.conn # "opening" /\ hw'.fw = hw.fw
        /\ (hw'.rdma <=> hw.rdma)
    BY DEF TypeInv, Establish, HwRecords
  <1>3. rxq' = Append(rxq, c)
    BY DEF Establish, Says
  <1> HIDE DEF c
  <1> QED
    BY <1>1, <1>2, <1>3 DEF Establish, Alone, Settles, Opening

LEMMA OpenFailsStep ==
  ASSUME TypeInv, OpenFails
  PROVE  Settles
  <1>1. PICK status \in {"exist", "fail"} : Says("ACT_OPEN_RPL", status)
    BY DEF OpenFails
  <1> DEFINE c == Cpl("ACT_OPEN_RPL", status)
  <1>2. c \in Cpls /\ c.op \in OpenOps /\ Sided(c)
    BY DEF OpenFails, Cpl, Cpls, Untid, OpenOps, ActOps, Sided
  <1>3. /\ hw' \in HwRecords /\ hw'.conn # "opening" /\ hw'.fw = hw.fw
        /\ (hw'.rdma <=> hw.rdma)
    BY DEF TypeInv, OpenFails, HwRecords
  <1>4. rxq' = Append(rxq, c)
    BY <1>1 DEF Says
  <1> HIDE DEF c
  <1> QED
    BY <1>2, <1>3, <1>4 DEF OpenFails, Alone, Settles, Opening

LEMMA ArpFailsStep ==
  ASSUME TypeInv, ArpFails
  PROVE  Lost
  <1> DEFINE a == IF Active THEN ConnectReply(ep, FALSE) ELSE ep
             f == SetState(a, "DEAD")
             op == IF Active THEN "PUT_EP_SAFE" ELSE "PASS_PUT_EP_SAFE"
  <1>1. ep \in EpRecords
    BY DEF TypeInv
  <1>2. /\ a \in EpRecords /\ Steady(ep, a)
        /\ IF Active THEN ~a.cm_id /\ a.told = IF ep.cm_id THEN "REFUSED" ELSE ep.told
                     ELSE Silent(ep, a)
    BY <1>1, RefuseFields, SameReflexive DEF Same
  <1>3. f \in EpRecords /\ f.state = "DEAD" /\ Steady(a, f) /\ Silent(a, f)
    BY <1>2, StateFields DEF States
  <1>4. /\ hw' \in HwRecords /\ hw'.conn # "opening" /\ hw'.fw = hw.fw
        /\ (hw'.rdma <=> hw.rdma)
    BY DEF TypeInv, ArpFails, HwRecords
  <1>5. Hushed
    <2>1. /\ Cpl(op, "ok") \in Cpls /\ Cpl(op, "ok").op \notin OpenOps
          /\ Cpl(op, "ok").op # "RDMA_TERMINATE"
      BY DEF Cpl, Cpls, Untid, OpenOps, ActOps
    <2>2. rxq' = Append(rxq, Cpl(op, "ok"))
      BY DEF ArpFails, Says
    <2> HIDE DEF op
    <2> QED
      BY <2>1, <2>2 DEF Hushed
  <1>6. ep' = f
    BY DEF ArpFails
  <1> HIDE DEF a, f
  <1> QED
    BY <1>2, <1>3, <1>4, <1>5, <1>6
       DEF ArpFails, Alone, Lost, Opening, Steady, Silent

(* The messages of an open connection. *)
LEMMA HwFields ==
  ASSUME NEW h \in HwRecords
  PROVE  /\ \A n \in Int : LET g == [h EXCEPT !.data = n] IN g \in HwRecords /\ HwSame(h, g)
         /\ \A n \in Int : LET g == [h EXCEPT !.tcb = n] IN g \in HwRecords /\ HwSame(h, g)
         /\ LET g == [h EXCEPT !.fin = TRUE] IN g \in HwRecords /\ HwSame(h, g)
         /\ LET g == [h EXCEPT !.neg = TRUE] IN g \in HwRecords /\ HwSame(h, g)
         /\ LET g == [h EXCEPT !.term = TRUE] IN g \in HwRecords /\ HwSame(h, g)
         /\ LET g == [h EXCEPT !.ack = FALSE] IN g \in HwRecords /\ HwSame(h, g)
         /\ LET g == [h EXCEPT !.close_req = FALSE, !.close_rpl = TRUE]
            IN  g \in HwRecords /\ HwSame(h, g)
  BY DEF HwRecords, HwSame

LEMMA SpeechStep ==
  ASSUME TypeInv, Data \/ PeerFin \/ CloseRpl \/ Ack \/ Tcb \/ PeerBreaks
  PROVE  Quiet
  <1>1. ep \in EpRecords /\ Same(ep, ep) /\ hw \in HwRecords /\ fatal \in BOOLEAN
    BY SameReflexive DEF TypeInv
  <1>2. hw.data + 1 \in Int /\ hw.tcb - 1 \in Int
    BY <1>1 DEF HwRecords
  <1>3. hw' \in HwRecords /\ HwSame(hw, hw')
    BY <1>1, <1>2, HwFields DEF Data, PeerFin, CloseRpl, Ack, Tcb, PeerBreaks
  <1>4. Hushed
    <2>1. CASE Data
      BY <2>1, Queued DEF Data, Messages, Cpl, Cpls, OpenOps, ActOps
    <2>2. CASE PeerFin
      BY <2>2, Queued DEF PeerFin, Cpl, Cpls, OpenOps, ActOps
    <2>3. CASE CloseRpl
      BY <2>3, Queued DEF CloseRpl, Cpl, Cpls, OpenOps, ActOps
    <2>4. CASE Ack
      BY <2>4, Queued DEF Ack, Cpl, Cpls, OpenOps, ActOps
    <2>5. CASE Tcb
      BY <2>5, Queued DEF Tcb, Cpl, Cpls, OpenOps, ActOps
    <2>6. CASE PeerBreaks
      BY <2>6, Queued DEF PeerBreaks, Cpl, Cpls, OpenOps, ActOps
    <2> QED
      BY <2>1, <2>2, <2>3, <2>4, <2>5, <2>6
  <1>5. UNCHANGED <<qp, mutex, qmutex, thr, fatal, ep>>
    BY DEF Data, PeerFin, CloseRpl, Ack, Tcb, PeerBreaks, Alone
  <1> QED
    BY <1>1, <1>3, <1>4, <1>5 DEF Quiet, HwSame

(* The interrupt of an ABORT_REQ. *)
LEMMA InterruptFields ==
  ASSUME NEW e \in EpRecords
  PROVE  LET f == [Get(e) EXCEPT !.intr = @ + 1] IN f \in EpRecords /\ Same(e, f)
  <1> DEFINE a == Get(e)
  <1>1. a \in EpRecords /\ Same(e, a)
    BY GetSame
  <1> HIDE DEF a
  <1>2. a.intr + 1 \in Int
    BY <1>1 DEF EpRecords
  <1>3. With_intr(a, a.intr + 1) \in EpRecords /\ Same(a, With_intr(a, a.intr + 1))
    BY <1>1, <1>2, IntrSame
  <1>4. [Get(e) EXCEPT !.intr = @ + 1] = With_intr(a, a.intr + 1)
    BY DEF a, With_intr
  <1> QED
    BY <1>1, <1>3, <1>4 DEF Same, Steady, Silent

LEMMA PeerRstStep ==
  ASSUME TypeInv, PeerRst
  PROVE  Quiet
  <1> DEFINE a == [Get(ep) EXCEPT !.intr = @ + 1]
             f == WakeUp(a, "reset")
  <1>1. ep \in EpRecords /\ Same(ep, ep) /\ hw \in HwRecords /\ fatal \in BOOLEAN
    BY SameReflexive DEF TypeInv
  <1>2. /\ hw' \in HwRecords /\ hw'.conn # "opening" /\ hw'.fw = hw.fw
        /\ (hw'.rdma <=> hw.rdma)
    BY <1>1 DEF PeerRst, HwRecords
  <1>3. a \in EpRecords /\ Same(ep, a)
    BY <1>1, InterruptFields
  <1>4. f \in EpRecords /\ Same(a, f)
    BY <1>3, WakeUpSame DEF Rets
  <1>5. /\ Found => ep' = f
        /\ ~Found => ep' = ep
    BY DEF PeerRst
  <1> HIDE DEF a, f
  <1>6. ep' \in EpRecords /\ Same(ep, ep')
    BY <1>1, <1>3, <1>4, <1>5 DEF Same, Steady, Silent
  <1>7. Hushed
    <2>1. CASE Found
      BY <2>1, Queued DEF PeerRst, Cpl, Cpls, OpenOps, ActOps
    <2>2. CASE ~Found
      BY <2>2 DEF PeerRst, Hushed
    <2> QED
      BY <2>1, <2>2
  <1> QED
    BY <1>1, <1>2, <1>6, <1>7 DEF PeerRst, Alone, Quiet

LEMMA NegativeAdviceStep ==
  ASSUME TypeInv, NegativeAdvice
  PROVE  Quiet
  <1>1. ep \in EpRecords /\ hw \in HwRecords /\ fatal \in BOOLEAN
    BY DEF TypeInv
  <1>2. hw' \in HwRecords /\ HwSame(hw, hw')
    BY <1>1, HwFields DEF NegativeAdvice
  <1>3. ep' \in EpRecords /\ Same(ep, ep')
    BY <1>1, InterruptFields DEF NegativeAdvice
  <1>4. Hushed
    BY Queued DEF NegativeAdvice, Cpl, Cpls, OpenOps, ActOps
  <1> QED
    BY <1>1, <1>2, <1>3, <1>4 DEF NegativeAdvice, Alone, Quiet, HwSame

LEMMA AbortDoneStep ==
  ASSUME TypeInv, AbortDone
  PROVE  Quiet
  <1>1. ep \in EpRecords /\ Same(ep, ep) /\ hw \in HwRecords /\ fatal \in BOOLEAN
    BY SameReflexive DEF TypeInv
  <1>2. /\ hw' \in HwRecords /\ hw'.conn # "opening" /\ hw'.fw = hw.fw
        /\ (hw'.rdma <=> hw.rdma)
    BY <1>1 DEF AbortDone, HwRecords
  <1>3. Hushed
    BY Queued DEF AbortDone, Cpl, Cpls, OpenOps, ActOps
  <1> QED
    BY <1>1, <1>2, <1>3 DEF AbortDone, Alone, Quiet

(* An answer of the firmware needs a question. *)
LEMMA FwReplyStep ==
  ASSUME TypeInv, FwReply
  PROVE  Quiet
  <1>1. ep \in EpRecords /\ hw \in HwRecords /\ fatal \in BOOLEAN /\ hw.fw # 0
    BY DEF TypeInv, FwReply, HwRecords
  <1>2. hw' \in HwRecords /\ hw'.conn = hw.conn
    <2>1. hw.fw - 1 \in Int
      BY <1>1 DEF HwRecords
    <2>2. CASE hw' = [hw EXCEPT !.fw = @ - 1, !.rdma = TRUE]
      BY <1>1, <2>1, <2>2 DEF HwRecords
    <2>3. CASE hw' = [hw EXCEPT !.fw = @ - 1]
      BY <1>1, <2>1, <2>3 DEF HwRecords
    <2> QED
      BY <2>2, <2>3 DEF FwReply
  <1>3. \E r \in Rets : ep' = WakeUp(ep, r)
    BY DEF FwReply, Rets
  <1>4. ep' \in EpRecords /\ Same(ep, ep')
    BY <1>1, <1>3, WakeUpSame
  <1> QED
    BY <1>1, <1>2, <1>4 DEF FwReply, Alone, Quiet, Hushed

LEMMA DisabledStep ==
  ASSUME TypeInv, Disabled \/ Finished
  PROVE  Quiet
  BY SameReflexive DEF TypeInv, Disabled, Finished, vars, Quiet, Hushed

LEMMA ExpireStep ==
  ASSUME TypeInv, Expire
  PROVE  Quiet
  <1> DEFINE a == SetFlag(ep, "TIMEOUT")
             b == With_timer(a, FALSE)
             f == With_listed(b, TRUE)
  <1>1. ep \in EpRecords
    BY DEF TypeInv
  <1>2. a \in EpRecords /\ Same(ep, a)
    BY <1>1, SetFlagSame DEF EpFlags
  <1>3. b \in EpRecords /\ Same(a, b)
    BY <1>2, TimerFlagSame
  <1>4. f \in EpRecords /\ Same(b, f)
    BY <1>3, ListedSame
  <1>5. ep' = f
    BY DEF Expire, With_timer, With_listed
  <1> HIDE DEF a, b, f
  <1> QED
    BY <1>1, <1>2, <1>3, <1>4, <1>5
       DEF Expire, Quiet, Hushed, TypeInv, Same, Steady, Silent

LEMMA AdapterKeeps ==
  ASSUME TypeInv, EventInv, Adapter \/ Expire \/ Finished
  PROVE  TypeInv' /\ EventInv' /\ CmStep
  <1>1. CASE Establish \/ OpenFails
    BY <1>1, EstablishStep, OpenFailsStep, SettlesKeeps
  <1>2. CASE ArpFails
    BY <1>2, ArpFailsStep, LostKeeps
  <1>3. CASE \/ Data \/ PeerFin \/ CloseRpl \/ Ack \/ Tcb \/ PeerBreaks
             \/ PeerRst \/ NegativeAdvice \/ AbortDone \/ FwReply
             \/ Disabled \/ Finished \/ Expire
    <2>1. Quiet
      BY <1>3, SpeechStep, PeerRstStep, NegativeAdviceStep, AbortDoneStep, FwReplyStep,
         DisabledStep, ExpireStep
    <2> QED
      BY <2>1, QuietKeeps
  <1> QED
    BY <1>1, <1>2, <1>3 DEF Adapter

-----------------------------------------------------------------------------
(* The invariant is inductive. *)

LEMMA WorkKeeps ==
  ASSUME TypeInv, EventInv, Work
  PROVE  TypeInv' /\ EventInv' /\ CmStep
  <1>1. CASE TakeCpl \/ TakeTimeout
    BY <1>1, TakeCplKeeps, TakeTimeoutKeeps
  <1>2. CASE ActOpenRpl \/ ActEstablish \/ PassEstablish \/ MpaRequest \/ PeerAbort \/ PeerAborted
    BY <1>2, ActOpenRplKeeps, ActEstablishKeeps, PassEstablishKeeps, MpaRequestKeeps,
       PeerAbortKeeps, PeerAbortedKeeps
  <1>3. CASE \/ PutEpSafe \/ MpaReply \/ MpaReplied \/ MpaMismatched
             \/ StreamingData \/ StreamingDone \/ Fw4Ack
             \/ PeerClose \/ PeerClosed \/ CloseConRpl \/ Closed
             \/ AbortRpl \/ Terminate \/ Terminated
             \/ ReadTcbRpl \/ TcbRead \/ ProcessTimeout \/ TimedOut
    <2>1. HandlerStep
      BY <1>3, PutEpSafeStep, MpaReplyStep, MpaRepliedStep, MpaMismatchedStep,
         StreamingDataStep, StreamingDoneStep, Fw4AckStep, PeerCloseStep, PeerClosedStep,
         CloseConRplStep, ClosedStep, AbortRplStep, TerminateStep, TerminatedStep,
         ReadTcbRplStep, TcbReadStep, ProcessTimeoutStep, TimedOutStep DEF EventInv
    <2> QED
      BY <2>1, HandlerKeeps
  <1> QED
    BY <1>1, <1>2, <1>3 DEF Work, Handler

LEMMA NextKeeps ==
  ASSUME TypeInv, EventInv, Next
  PROVE  TypeInv' /\ EventInv' /\ CmStep
  <1>1. ASSUME NEW t \in Threads, Modify(t) \/ Leaving(t)
        PROVE  TypeInv' /\ EventInv' /\ CmStep
    BY <1>1, ModifyKeeps, LeavingKeeps
  <1>2. CASE Work
    BY <1>2, WorkKeeps
  <1>3. CASE Ulp
    BY <1>3, UlpKeeps
  <1>4. CASE User
    BY <1>4, UserActionKeeps
  <1>5. CASE Adapter \/ Expire \/ Finished
    BY <1>5, AdapterKeeps
  <1> QED
    BY <1>1, <1>2, <1>3, <1>4, <1>5 DEF Next

LEMMA StutterKeeps ==
  ASSUME TypeInv, EventInv, UNCHANGED vars
  PROVE  TypeInv' /\ EventInv' /\ CmStep
  <1>1. Quiet
    BY SameReflexive DEF vars, TypeInv, Quiet, Hushed
  <1> QED
    BY <1>1, QuietKeeps

LEMMA InitInv ==
  ASSUME Init
  PROVE  IInv
  <1>1. PICK side \in Sides : ep = NewEp(side)
    BY DEF Init
  <1>2. NewEp(side) \in EpRecords
    BY DEF NewEp, EpRecords, States, Connecting, Events, ActOpenRetries, Rets
  <1>3. /\ rxq = <<>> /\ hw = NewConn /\ NewConn \in HwRecords
        /\ \A t \in Threads : thr[t] = Idle
        /\ thr \in [Threads -> ThrRecords]
    BY IdleIsRecord, NewConnFields DEF Init
  <1>4. TypeInv
    <2>1. qp \in QpRecords
      BY DEF Init, QpRecords, QpStates
    <2>2. rxq \in Seq(Cpls)
      BY <1>3
    <2>3. \A t \in Threads : ~In(t, "disc_failed")
      BY <1>3, IdleIsRecord DEF In, Busy
    <2> QED
      BY <1>1, <1>2, <1>3, <2>1, <2>2, <2>3 DEF Init, TypeInv
  <1>5. /\ ep.state = "CONNECTING" /\ ep.told = "none" /\ (ep.cm_id <=> side = "active")
        /\ (ep.qp <=> side = "active") /\ ~ep.ulp /\ ~ep.retry_v1
        /\ (Active => ep.hwtid # "own")
        /\ ep.side = side /\ ~Peer
    BY <1>1 DEF NewEp, Active, Peer, Peers
  <1>6. /\ OneOpen /\ ~OpenQueued /\ QueueSided /\ ~BreakQueued
    BY <1>3 DEF OneOpen, OpenQueued, Opens, QueueSided, BreakQueued
  <1>7. EventInv
    BY <1>1, <1>3, <1>5, <1>6, IdleIsRecord, NewConnFields
       DEF Init, NewEp, EventInv, SideInv, LockInv, OnceInv, ActiveInv, PassiveInv,
           CloseInv, HearingEnd, Pending, Unasked, Coming, Opening,
           OpenHandled, BreakHandled, Replying, Accepting, In, Busy, Fresh,
           Active, Worker, Threads, Late
  <1> QED
    BY <1>4, <1>7 DEF IInv

LEMMA InitContract ==
  ASSUME Init
  PROVE  Contract!Init
  BY EndpointAssumption DEF Init, NewEp, Contract!Init

LEMMA Invariance == Spec => []IInv
  <1>1. Init => IInv
    BY InitInv
  <1>2. IInv /\ [Next]_vars => IInv'
    BY NextKeeps, StutterKeeps DEF IInv
  <1> QED
    BY <1>1, <1>2, PTL DEF Spec

LEMMA TypeInvTypes ==
  ASSUME TypeInv
  PROVE  TypeOK
  <1>1. /\ ep.side \in Sides /\ ep.state \in States /\ ep.flags \subseteq EpFlags
        /\ ep.kref \in Int /\ ep.wr_done \in Nat /\ ep.retries \in 0..ActOpenRetries
        /\ ep.pdu_out \in 0..1 /\ ep.hwtid \in {"none", "own", "stale", "erased"}
        /\ ep.told \in Events
    BY DEF TypeInv, EpRecords
  <1>2. /\ qp.state \in QpStates /\ qp.ep \in BOOLEAN
        /\ qp.user \in {"open", "moved", "destroying", "destroyed"}
    BY DEF TypeInv, QpRecords
  <1>3. \A t \in Threads : thr[t].at \in Steps /\ thr[t].disc \in 0..2 /\ thr[t].held \in Nat
    BY DEF TypeInv, ThrRecords
  <1> QED
    BY <1>1, <1>2, <1>3 DEF TypeInv, TypeOK

(* Every variable of the connection manager keeps the values the code      *)
(* gives it (cm.c, struct c4iw_ep and enum c4iw_ep_state of iw_cxgb4.h),   *)
(* whatever fails and whatever the adapter sends.                          *)
THEOREM EndpointTypeCorrect == Spec => []TypeOK
  <1>1. IInv => TypeOK
    BY TypeInvTypes DEF IInv
  <1> QED
    BY <1>1, Invariance, PTL

(* The connection manager keeps its contract with the iWARP core           *)
(* (CmEvents): whatever fails and in whatever order the worker, the ULP,   *)
(* the user, the timer and the adapter run, the calls of                   *)
(* cm_id->event_handler in cm.c come in the order of CmEvents, each of     *)
(* them at most once, and none after the last.                             *)
THEOREM EndpointKeepsContract == Spec => KeepsContract
  <1>1. Init => Contract!Init
    BY InitContract
  <1>2. IInv /\ IInv' /\ [Next]_vars => [Contract!Next]_Contract!vars
    <2> SUFFICES ASSUME IInv, IInv', [Next]_vars
                 PROVE  [Contract!Next]_Contract!vars
      OBVIOUS
    <2>1. CmStep
      BY NextKeeps, StutterKeeps DEF IInv
    <2>2. TypeInv /\ ep' \in EpRecords
      BY DEF IInv, TypeInv
    <2> QED
      BY <2>1, <2>2, CmStepIsStep
  <1> QED
    BY <1>1, <1>2, Invariance, PTL DEF Spec, KeepsContract, Contract!Spec
=============================================================================
