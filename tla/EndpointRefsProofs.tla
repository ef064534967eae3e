------------------------- MODULE EndpointRefsProofs -------------------------
(***************************************************************************)
(* Theorems about the references of an endpoint (c4iw_get_ep, c4iw_put_ep, *)
(* _c4iw_free_ep): the count is that of their holders, nothing uses a      *)
(* freed endpoint, and its consumer had its last event by then; for both   *)
(* sides, with and without SRQ, both MPA revisions, any moves of the user  *)
(* and any number of MPA messages.  A message that cannot be sent and a    *)
(* device that stops are excluded: c4iw_ep_disconnect then releases the    *)
(* endpoint and leaves its state, and a reset releases it again.           *)
(*                                                                         *)
(* What a handler does with references is local to the endpoint and to the *)
(* thread that runs it.  Ledger(ep) is the count minus what the endpoint's *)
(* own fields account for; a thread accounts for "held" and "disc".  Each  *)
(* helper of Endpoint is shown once to leave Ledger alone or to move it by *)
(* what it says; an action then is a step of one of a few kinds:           *)
(*   Ordinary   a handler drops its own reference, or leaves it to the     *)
(*              disconnect it begins                                       *)
(*   Ended, Anew  the opening fails, or is begun again with MPA revision 1 *)
(*   Takes      process_work takes a message or the expired endpoint       *)
(*   Shifts     a thread waits for the firmware to move the QP             *)
(*   Departs    c4iw_ep_disconnect, and the release after it               *)
(*   Answers    the ULP accepts or rejects                                 *)
(*   Turns      a call of the user begins or ends                          *)
(*   Hears, Mutters, Interrupts  the adapter and the timer                 *)
(*   Starts     c4iw_connect                                               *)
(* and each kind keeps the parts of RInv, which say where references may   *)
(* be: with whom (RestInv), that a QP in use and the base reference go     *)
(* with the state and the identifier (QpInv, OwnInv, LinkInv), that a      *)
(* timer was started before anything can stop it (TimerInv), that nothing  *)
(* is under way for a connection that is still being opened (FirstInv,     *)
(* UnderInv), that one TCB is read at a time (TcbInv), that each ABORT_REQ *)
(* has a reference of its interrupt (IntrInv), and that cm_id is gone when *)
(* the endpoint is given up (GoneInv).                                     *)
(***************************************************************************)
EXTENDS EndpointProofs, FunctionTheorems, FiniteSetTheorems

-----------------------------------------------------------------------------
(* The books of an endpoint: the references its own fields account for.    *)

Started(e) == e.timer \/ Expired(e)
Stops(e)   == "STOP_MPA_TIMER" \in e.flags
TimerOK(e) == e.timer => ~Expired(e)

Ledger(e) == e.kref - (Bit(e.base) + Bit(e.timer) + Bit(e.listed) + Bit(e.ulp)
                       + e.tcbs + e.intr + Bit(e.hold))

(* Nothing of it changes, nor the timer. *)
Alike(e, f) ==
  /\ f.kref = e.kref /\ f.tcbs = e.tcbs /\ f.intr = e.intr
  /\ (f.base <=> e.base) /\ (f.timer <=> e.timer) /\ (f.listed <=> e.listed)
  /\ (f.ulp <=> e.ulp) /\ (f.hold <=> e.hold)
  /\ (Expired(f) <=> Expired(e)) /\ (Stops(f) <=> Stops(e))

(* The timer may start or stop, and takes or drops its own reference.      *)
Duties(e, f) ==
  /\ (f.base <=> e.base) /\ (f.hold <=> e.hold) /\ (f.listed <=> e.listed)
  /\ f.tcbs = e.tcbs /\ f.intr = e.intr
Ticks(e, f) ==
  /\ Started(e) => Started(f)
  /\ TimerOK(e) => TimerOK(f)
  /\ Stops(f) => Stops(e)
Level(e, f) == Duties(e, f) /\ Ticks(e, f) /\ Ledger(f) = Ledger(e)

LEMMA AlikeIsLevel ==
  ASSUME NEW e, NEW f, Alike(e, f)
  PROVE  Level(e, f)
  <1>1. Duties(e, f) /\ Ticks(e, f)
    BY DEF Alike, Duties, Ticks, Started, TimerOK
  <1>2. Ledger(f) = Ledger(e)
    BY DEF Alike, Ledger, Bit
  <1> QED
    BY <1>1, <1>2 DEF Level

LEMMA LevelReflexive ==
  ASSUME NEW e PROVE Level(e, e)
  BY DEF Level, Duties, Ticks

LEMMA LevelTransitive ==
  ASSUME NEW e, NEW f, NEW g, Level(e, f), Level(f, g)
  PROVE  Level(e, g)
  BY DEF Level, Duties, Ticks

LEMMA StateBooks ==
  ASSUME NEW e \in EpRecords, NEW s \in States
  PROVE  Level(e, SetState(e, s))
  <1>1. Alike(e, SetState(e, s))
    BY DEF EpRecords, SetState, Alike, Expired, Stops
  <1> QED
    BY <1>1, AlikeIsLevel

LEMMA FlagBooks ==
  ASSUME NEW e \in EpRecords, NEW f \in EpFlags \ {"TIMEOUT", "STOP_MPA_TIMER"}
  PROVE  Level(e, SetFlag(e, f))
  <1>1. Alike(e, SetFlag(e, f))
    BY DEF EpRecords, SetFlag, Alike, Expired, Stops
  <1> QED
    BY <1>1, AlikeIsLevel

LEMMA WakeUpBooks ==
  ASSUME NEW e \in EpRecords, NEW r \in Rets
  PROVE  Level(e, WakeUp(e, r))
  <1>1. Alike(e, WakeUp(e, r))
    BY DEF EpRecords, WakeUp, Alike, Expired, Stops
  <1> QED
    BY <1>1, AlikeIsLevel

LEMMA UpcallBooks ==
  ASSUME NEW e \in EpRecords, NEW ev \in Events
  PROVE  Level(e, Upcall(e, ev)) /\ Level(e, LastUpcall(e, ev))
  <1>1. Alike(e, Upcall(e, ev))
    BY DEF EpRecords, Upcall, Alike, Expired, Stops
  <1>2. Alike(e, LastUpcall(e, ev))
    BY DEF EpRecords, LastUpcall, Upcall, Alike, Expired, Stops
  <1> QED
    BY <1>1, <1>2, AlikeIsLevel

LEMMA TellBooks ==
  ASSUME NEW e \in EpRecords
  PROVE  /\ Level(e, CloseUpcall(e)) /\ Level(e, PeerCloseUpcall(e))
         /\ Level(e, EstablishedUpcall(e))
  <1>1. "CLOSE" \in Events /\ "DISCONNECT" \in Events /\ "ESTABLISHED" \in Events
    BY DEF Events
  <1> QED
    BY <1>1, UpcallBooks, LevelReflexive DEF CloseUpcall, PeerCloseUpcall, EstablishedUpcall

LEMMA ReplyBooks ==
  ASSUME NEW e \in EpRecords
  PROVE  Level(e, ConnectReply(e, TRUE)) /\ Level(e, ConnectReply(e, FALSE))
  <1>1. "CONNECTED" \in Events /\ "REFUSED" \in Events
    BY DEF Events
  <1>2. Alike(e, [e EXCEPT !.harm = @ \cup {"null_cm_id"}])
    BY DEF EpRecords, Alike, Expired, Stops
  <1> QED
    BY <1>1, <1>2, AlikeIsLevel, UpcallBooks DEF ConnectReply

LEMMA ParentBooks ==
  ASSUME NEW e \in EpRecords
  PROVE  Level(e, PutParent(e))
  <1>1. Alike(e, PutParent(e))
    BY DEF EpRecords, PutParent, Alike, Expired, Stops
  <1> QED
    BY <1>1, AlikeIsLevel

LEMMA MpaSkbBooks ==
  ASSUME NEW e \in EpRecords, NEW v \in BOOLEAN
  PROVE  Level(e, With_mpa_skb(e, v))
  <1>1. Alike(e, With_mpa_skb(e, v))
    BY DEF EpRecords, With_mpa_skb, Alike, Expired, Stops
  <1> QED
    BY <1>1, AlikeIsLevel

(* start_ep_timer takes a reference for the timer, *)
LEMMA StartTimerBooks ==
  ASSUME NEW e \in EpRecords
  PROVE  /\ Level(e, StartTimer(e)) /\ Started(StartTimer(e))
         /\ (Stops(StartTimer(e)) <=> Stops(e))
  <1>1. CASE e.timer
    BY <1>1, LevelReflexive DEF StartTimer, Started
  <1>2. CASE ~e.timer
    <2> DEFINE f == StartTimer(e)
    <2>1. /\ f.kref = e.kref + 1 /\ f.timer /\ f.flags = e.flags \ {"TIMEOUT"}
          /\ f.tcbs = e.tcbs /\ f.intr = e.intr /\ (f.base <=> e.base)
          /\ (f.listed <=> e.listed) /\ (f.ulp <=> e.ulp) /\ (f.hold <=> e.hold)
      BY <1>2 DEF EpRecords, StartTimer, Get, ClearFlag
    <2> HIDE DEF f
    <2>2. Ledger(f) = Ledger(e)
      BY <1>2, <2>1 DEF Ledger, Bit, EpRecords
    <2>3. /\ Started(f) /\ TimerOK(f) /\ (Stops(f) <=> Stops(e)) /\ Duties(e, f)
      BY <2>1 DEF Started, TimerOK, Expired, Stops, Duties
    <2> QED
      BY <2>2, <2>3 DEF Level, Ticks, f
  <1> QED
    BY <1>1, <1>2

(* and stop_ep_timer drops it, if the timer was started once. *)
LEMMA StopTimerBooks ==
  ASSUME NEW e \in EpRecords, Started(e), TimerOK(e)
  PROVE  /\ Level(e, StopTimer(e))
         /\ (Stops(StopTimer(e)) <=> Stops(e))
  <1> DEFINE f == StopTimer(e)
  <1>1. /\ f.kref = e.kref - Bit(e.timer) /\ ~f.timer /\ f.flags = e.flags \cup {"TIMEOUT"}
        /\ f.tcbs = e.tcbs /\ f.intr = e.intr /\ (f.base <=> e.base)
        /\ (f.listed <=> e.listed) /\ (f.ulp <=> e.ulp) /\ (f.hold <=> e.hold)
    <2>1. CASE Expired(e)
      BY <2>1 DEF EpRecords, StopTimer, Started, TimerOK, Expired, Bit
    <2>2. CASE ~Expired(e)
      BY <2>2 DEF EpRecords, StopTimer, Started, TimerOK, Expired, Bit, SetFlag, Put
    <2> QED
      BY <2>1, <2>2
  <1> HIDE DEF f
  <1>2. Ledger(f) = Ledger(e)
    BY <1>1 DEF Ledger, Bit, EpRecords
  <1>3. /\ Started(f) /\ TimerOK(f) /\ (Stops(f) <=> Stops(e)) /\ Duties(e, f)
    BY <1>1 DEF Started, TimerOK, Expired, Stops, Duties
  <1> QED
    BY <1>2, <1>3 DEF Level, Ticks, f

-----------------------------------------------------------------------------
(* What a thread leaves behind. *)

GivenUp == {"ABORTING", "DEAD"}
Linked  == Late \cup {"FPDU_MODE"}
Faultless == "send" \notin Faults /\ "fatal" \notin Faults

Leaves(t, disc, rel, held) ==
  /\ Others(t)
  /\ thr'[t].at = IF disc = 0 /\ ~rel THEN "idle" ELSE "end"
  /\ thr'[t].disc = disc /\ (thr'[t].rel <=> rel)
  /\ thr'[t].held = IF disc = 0 /\ ~rel THEN 0 ELSE held

(* The references the thread holds, and those of the endpoint, together. *)
Square(e, n, t) == Ledger(ep') - thr'[t].held = Ledger(e) - n

LEMMA ProceedBooks ==
  ASSUME TypeInv, NEW t \in Threads, NEW e \in EpRecords, NEW disc \in 0..2,
         NEW rel \in BOOLEAN, NEW held \in Nat, Proceed(t, e, disc, rel, held)
  PROVE  Leaves(t, disc, rel, held) /\ Duties(e, ep') /\ Ticks(e, ep') /\ Square(e, held, t)
  <1>0. thr \in [Threads -> ThrRecords]
    BY DEF TypeInv
  <1>1. CASE disc = 0 /\ ~rel
    <2>1. ep' = Drop(e, held) /\ thr' = [thr EXCEPT ![t] = Idle]
      BY <1>1 DEF Proceed
    <2>2. thr'[t] = Idle /\ Others(t)
      BY <1>0, <2>1 DEF Others
    <2>3. Leaves(t, disc, rel, held)
      BY <1>1, <2>2 DEF Leaves, Idle
    <2>4. /\ ep'.kref = e.kref - held /\ ep'.tcbs = e.tcbs /\ ep'.intr = e.intr
          /\ (ep'.base <=> e.base) /\ (ep'.timer <=> e.timer) /\ (ep'.listed <=> e.listed)
          /\ (ep'.ulp <=> e.ulp) /\ (ep'.hold <=> e.hold) /\ ep'.flags = e.flags
      BY <2>1 DEF EpRecords, Drop
    <2>5. Duties(e, ep') /\ Ticks(e, ep')
      BY <2>4 DEF Duties, Ticks, Started, TimerOK, Expired, Stops
    <2>6. Ledger(ep') = Ledger(e) - held
      BY <2>4 DEF Ledger, Bit, EpRecords
    <2>7. Square(e, held, t)
      BY <2>2, <2>6 DEF Square, Idle, Ledger, Bit, EpRecords
    <2> QED
      BY <2>3, <2>5, <2>7
  <1>2. CASE ~(disc = 0 /\ ~rel)
    <2> DEFINE r == [Idle EXCEPT !.at = "end", !.disc = disc, !.rel = rel, !.held = held]
    <2>1. ep' = e /\ thr' = [thr EXCEPT ![t] = r]
      BY <1>2 DEF Proceed
    <2>2. r.at = "end" /\ r.disc = disc /\ r.rel = rel /\ r.held = held
      BY DEF Idle
    <2> HIDE DEF r
    <2>3. thr'[t] = r /\ Others(t)
      BY <1>0, <2>1 DEF Others
    <2>4. Leaves(t, disc, rel, held)
      BY <1>2, <2>2, <2>3 DEF Leaves
    <2> QED
      BY <2>1, <2>2, <2>3, <2>4, LevelReflexive DEF Square, Level
  <1> QED
    BY <1>1, <1>2

LEMMA LeaveBooks ==
  ASSUME TypeInv, NEW t \in Threads, NEW e \in EpRecords, NEW disc \in 0..2,
         NEW rel \in BOOLEAN, Leave(t, e, disc, rel)
  PROVE  /\ Leaves(t, disc, rel, thr[t].held)
         /\ Duties(e, ep') /\ Ticks(e, ep') /\ Square(e, thr[t].held, t)
  <1>1. thr[t].held \in Nat
    BY DEF TypeInv, ThrRecords
  <1> QED
    BY <1>1, ProceedBooks DEF Leave

LEMMA CallKeepsRel ==
  ASSUME TypeInv, NEW t \in Threads, NEW e, NEW to \in QpStates,
         NEW then \in Thens, CallModify(t, e, to, then)
  PROVE  thr'[t].rel = thr[t].rel /\ thr'[t].cpl = thr[t].cpl
  <1>1. thr \in [Threads -> ThrRecords]
    BY DEF TypeInv
  <1> QED
    BY <1>1 DEF CallModify, ThrRecords

-----------------------------------------------------------------------------
(* The handlers whose books are those of one handler's reference: all but  *)
(* the first messages of a connection, the peer's abort and the TCB.       *)

Ordinarily ==
  \/ /\ Worker.at = "handle"
     /\ Worker.cpl.op \notin Untid \cup {"PASS_ESTABLISH", "GET_TCB_RPL", "ABORT_REQ"}
  \/ Worker.at = "after" /\ Worker.then \notin {"tcb", "peer_abort"}
  \/ Worker.at = "timeout"

OfTimeout == Worker.at = "timeout" \/ In("worker", "timeout")

Advances(s, r) ==
  /\ s \in GivenUp => r \in GivenUp
  /\ s \in Linked => r \in Linked
  /\ s = "CONNECTING" => r \in {"CONNECTING", "DEAD"}
Unborn == ep.state \in {"CONNECTING", "DEAD"} /\ ~Busy("worker") /\ ~BreakHandled

Ordinary ==
  /\ HandlerStep /\ hw' = hw /\ Ordinarily
  /\ Duties(ep, ep') /\ Ticks(ep, ep') /\ Square(ep, Worker.held, "worker")
  /\ Advances(ep.state, ep'.state)
  /\ Unborn => ep'.state = ep.state /\ Leaves("worker", 0, FALSE, Worker.held)
  /\ \/ \E disc \in 0..2, rel \in BOOLEAN :
           /\ Leaves("worker", disc, rel, Worker.held)
           /\ rel => disc = 0 /\ ~ep'.cm_id /\ ep'.state \in GivenUp /\ ~OfTimeout
     \/ /\ \E to \in QpStates, then \in Thens \ {"tcb", "disc_failed", "peer_abort"} :
              /\ Calls("worker", to, then)
              /\ then = "timeout" <=> OfTimeout
              /\ then = "mpa_reply" => ep'.state = "FPDU_MODE"
              /\ then = "mismatch" => In("worker", "mpa_reply")
        /\ thr'["worker"].rel = Worker.rel /\ thr'["worker"].cpl = Worker.cpl

LEMMA OrdinaryEnd ==
  ASSUME TypeInv, HandlerStep, hw' = hw, Ordinarily,
         NEW e \in EpRecords, Level(ep, e), NEW disc \in 0..2, NEW rel \in BOOLEAN,
         End(e, disc, rel), Advances(ep.state, e.state),
         rel => disc = 0 /\ ~e.cm_id /\ e.state \in GivenUp /\ ~OfTimeout,
         Unborn => e.state = ep.state /\ disc = 0 /\ ~rel
  PROVE  Ordinary
  <1>1. ep' \in EpRecords /\ Same(e, ep')
    BY EndEffect
  <1>2. /\ Leaves("worker", disc, rel, Worker.held)
        /\ Duties(e, ep') /\ Ticks(e, ep') /\ Square(e, Worker.held, "worker")
    BY LeaveBooks DEF End, Worker, Threads
  <1>3. Duties(ep, ep') /\ Ticks(ep, ep') /\ Square(ep, Worker.held, "worker")
    BY <1>2 DEF Level, Duties, Ticks, Square
  <1>4. ep'.state = e.state /\ (ep'.cm_id <=> e.cm_id)
    BY <1>1 DEF Same, Silent
  <1>5. Unborn => Leaves("worker", 0, FALSE, Worker.held)
    BY <1>2 DEF Leaves
  <1> QED
    BY <1>2, <1>3, <1>4, <1>5 DEF Ordinary

LEMMA OrdinaryCall ==
  ASSUME TypeInv, HandlerStep, hw' = hw, Ordinarily,
         NEW e \in EpRecords, Level(ep, e), NEW to \in QpStates,
         NEW then \in Thens \ {"tcb", "disc_failed", "peer_abort"},
         CallModify("worker", e, to, then), Advances(ep.state, e.state), ~Unborn,
         then = "timeout" <=> OfTimeout,
         then = "mpa_reply" => e.state = "FPDU_MODE",
         then = "mismatch" => In("worker", "mpa_reply")
  PROVE  Ordinary
  <1>1. ep' = e /\ Calls("worker", to, then)
    BY WorkerCalls
  <1>2. thr'["worker"].rel = Worker.rel /\ thr'["worker"].cpl = Worker.cpl
    BY CallKeepsRel DEF Worker, Threads
  <1>3. Square(ep, Worker.held, "worker")
    BY <1>1 DEF Square, Level, Calls, Worker
  <1>4. Duties(ep, ep') /\ Ticks(ep, ep')
    BY <1>1 DEF Level
  <1> QED
    BY <1>1, <1>2, <1>3, <1>4 DEF Ordinary

-----------------------------------------------------------------------------
(* The helpers, one after another. *)

Fit(e) == e \in EpRecords /\ Level(ep, e)

LEMMA FitBegins ==
  ASSUME TypeInv
  PROVE  Fit(ep)
  BY LevelReflexive DEF TypeInv, Fit

LEMMA FitState ==
  ASSUME NEW e, Fit(e), NEW s \in States
  PROVE  /\ Fit(SetState(e, s)) /\ SetState(e, s).state = s
         /\ (SetState(e, s).cm_id <=> e.cm_id)
  BY StateFields, StateBooks, LevelTransitive DEF Fit, Silent

LEMMA FitWakeUp ==
  ASSUME NEW e, Fit(e), NEW r \in Rets
  PROVE  Fit(WakeUp(e, r)) /\ WakeUp(e, r).state = e.state /\ (WakeUp(e, r).cm_id <=> e.cm_id)
  BY WakeUpSame, WakeUpBooks, LevelTransitive DEF Fit, Same, Silent

LEMMA FitRefuse ==
  ASSUME NEW e, Fit(e)
  PROVE  /\ Fit(ConnectReply(e, FALSE)) /\ ConnectReply(e, FALSE).state = e.state
         /\ ~ConnectReply(e, FALSE).cm_id
  BY RefuseFields, ReplyBooks, LevelTransitive DEF Fit

LEMMA FitConnect ==
  ASSUME NEW e, Fit(e)
  PROVE  Fit(ConnectReply(e, TRUE)) /\ ConnectReply(e, TRUE).state = e.state
  BY ConnectFields, ReplyBooks, LevelTransitive DEF Fit

LEMMA FitClose ==
  ASSUME NEW e, Fit(e)
  PROVE  Fit(CloseUpcall(e)) /\ CloseUpcall(e).state = e.state /\ ~CloseUpcall(e).cm_id
  BY CloseFields, TellBooks, LevelTransitive DEF Fit

LEMMA FitPeerClose ==
  ASSUME NEW e, Fit(e)
  PROVE  Fit(PeerCloseUpcall(e)) /\ PeerCloseUpcall(e).state = e.state
  BY PeerCloseFields, TellBooks, LevelTransitive DEF Fit

LEMMA FitStart ==
  ASSUME NEW e, Fit(e)
  PROVE  Fit(StartTimer(e)) /\ StartTimer(e).state = e.state /\ Started(StartTimer(e))
  BY StartTimerSame, StartTimerBooks, LevelTransitive DEF Fit, Same

LEMMA FitStop ==
  ASSUME NEW e, Fit(e), Started(ep), TimerOK(ep)
  PROVE  /\ Fit(StopTimer(e)) /\ StopTimer(e).state = e.state
         /\ (StopTimer(e).cm_id <=> e.cm_id)
  <1>1. Started(e) /\ TimerOK(e)
    BY DEF Fit, Level, Ticks
  <1>2. Level(e, StopTimer(e)) /\ Same(e, StopTimer(e)) /\ StopTimer(e) \in EpRecords
    BY <1>1, StopTimerSame, StopTimerBooks DEF Fit
  <1> QED
    BY <1>2, LevelTransitive DEF Fit, Same, Silent

-----------------------------------------------------------------------------
(* The timer runs, or ran once, unless the connection has hardly begun.    *)

Early ==
  /\ ep.state \in {"CONNECTING", "DEAD"} /\ ~Stops(ep) /\ ~ep.ulp /\ ~ep.listed /\ ~Peer
  /\ ~qp.ep /\ hw.fw <= 0 /\ ~hw.rdma /\ ~BreakQueued /\ ~BreakHandled
  /\ Worker.at # "timeout" /\ ~Busy("worker") /\ thr["ulp"].at = "idle"
  /\ \A t \in Threads : thr[t].disc = 0

TimerInv == TimerOK(ep) /\ (Started(ep) \/ Early)

LEMMA MpaReplyBooks ==
  ASSUME TypeInv, TimerInv, MpaReply
  PROVE  Ordinary
  <1> DEFINE a == StopTimer(ep)
             b == ConnectReply(a, FALSE)
             c == SetState(a, "FPDU_MODE")
  <1>1. /\ HandlerStep /\ hw' = hw /\ Ordinarily /\ ep.state = "MPA_REQ_SENT" /\ ~Unborn
        /\ ~OfTimeout
    BY MpaReplyStep
       DEF MpaReply, Took, Handling, At, Worker, Ordinarily, Untid, Unborn, OfTimeout, In, Busy
  <1>2. Started(ep) /\ TimerOK(ep)
    BY <1>1 DEF TimerInv, Early
  <1>3. Fit(a) /\ a.state = "MPA_REQ_SENT"
    BY <1>1, <1>2, FitBegins, FitStop
  <1>4. Fit(b) /\ b.state = "MPA_REQ_SENT"
    BY <1>3, FitRefuse
  <1>5. Fit(c) /\ c.state = "FPDU_MODE"
    BY <1>3, FitState DEF States, Connecting
  <1>6. /\ Advances("MPA_REQ_SENT", "MPA_REQ_SENT") /\ Advances("MPA_REQ_SENT", "FPDU_MODE")
        /\ "RTS" \in QpStates /\ "mpa_reply" \in Thens \ {"tcb", "disc_failed", "peer_abort"}
    BY DEF Advances, GivenUp, Linked, Late, QpStates, Thens
  <1>7. \/ End(b, 2, FALSE) \/ End(a, 0, FALSE) \/ CallModify("worker", c, "RTS", "mpa_reply")
    BY DEF MpaReply
  <1> HIDE DEF a, b, c
  <1>8. CASE End(b, 2, FALSE) \/ End(a, 0, FALSE)
    BY <1>1, <1>3, <1>4, <1>6, <1>8, DiscValues, OrdinaryEnd DEF Fit
  <1>9. CASE CallModify("worker", c, "RTS", "mpa_reply")
    BY <1>1, <1>5, <1>6, <1>9, OrdinaryCall DEF Fit
  <1> QED
    BY <1>7, <1>8, <1>9

LEMMA AdvanceValues ==
  /\ \A s \in States : Advances(s, s) /\ Advances(s, "DEAD")
  /\ \A s \in {"MPA_REQ_WAIT", "MPA_REQ_SENT", "MPA_REQ_RCVD", "MPA_REP_SENT", "FPDU_MODE"} :
         Advances(s, "CLOSING")
  /\ Advances("CLOSING", "MORIBUND")
  BY DEF Advances, GivenUp, Linked, Late, States, Connecting

LEMMA CallValues ==
  /\ QpStates = {"IDLE", "RTS", "CLOSING", "TERMINATE", "ERROR"}
  /\ {"mpa_reply", "mismatch", "rx_data", "peer_close", "closed", "terminate", "timeout"}
       \subseteq Thens \ {"tcb", "disc_failed", "peer_abort"}
  BY DEF QpStates, Thens

LEMMA FitIsRecord ==
  ASSUME NEW e, Fit(e)
  PROVE  e \in EpRecords /\ Level(ep, e) /\ e.state \in States
  BY DEF Fit, EpRecords

(* An end that changes nothing. *)
LEMMA PlainEnd ==
  ASSUME TypeInv, HandlerStep, hw' = hw, Ordinarily,
         NEW disc \in 0..2, End(ep, disc, FALSE), Unborn => disc = 0
  PROVE  Ordinary
  BY FitBegins, FitIsRecord, AdvanceValues, OrdinaryEnd

LEMMA MpaRepliedBooks ==
  ASSUME TypeInv, MpaReplied
  PROVE  Ordinary
  <1> DEFINE a == ConnectReply(ep, FALSE)
             b == ConnectReply(ep, TRUE)
  <1>1. /\ HandlerStep /\ hw' = hw /\ Ordinarily /\ ~Unborn /\ In("worker", "mpa_reply")
        /\ ~OfTimeout
    BY MpaRepliedStep DEF MpaReplied, After, At, Worker, Ordinarily, Unborn, Busy, In, OfTimeout
  <1>2. Fit(a) /\ Fit(b) /\ Fit(ep) /\ a.state = ep.state /\ b.state = ep.state
    BY FitBegins, FitRefuse, FitConnect
  <1>3. \/ End(a, 2, FALSE) \/ End(b, 0, FALSE)
        \/ CallModify("worker", ep, "TERMINATE", "mismatch")
    BY DEF MpaReplied
  <1> HIDE DEF a, b
  <1>4. CASE End(a, 2, FALSE) \/ End(b, 0, FALSE)
    BY <1>1, <1>2, <1>4, FitIsRecord, AdvanceValues, DiscValues, OrdinaryEnd
  <1>5. CASE CallModify("worker", ep, "TERMINATE", "mismatch")
    BY <1>1, <1>2, <1>5, FitIsRecord, AdvanceValues, CallValues, OrdinaryCall
  <1> QED
    BY <1>3, <1>4, <1>5

LEMMA MpaMismatchedBooks ==
  ASSUME TypeInv, MpaMismatched
  PROVE  Ordinary
  <1> DEFINE a == ConnectReply(ep, FALSE)
  <1>1. HandlerStep /\ hw' = hw /\ Ordinarily /\ ~Unborn
    BY MpaMismatchedStep DEF MpaMismatched, After, At, Worker, Ordinarily, Unborn, Busy
  <1>2. Fit(a) /\ Fit(ep) /\ a.state = ep.state /\ End(a, 1, FALSE)
    BY FitBegins, FitRefuse DEF MpaMismatched
  <1> HIDE DEF a
  <1> QED
    BY <1>1, <1>2, FitIsRecord, AdvanceValues, DiscValues, OrdinaryEnd

LEMMA StreamingDataBooks ==
  ASSUME TypeInv, StreamingData
  PROVE  Ordinary
  <1>1. HandlerStep /\ hw' = hw /\ Ordinarily /\ ~OfTimeout
    BY StreamingDataStep
       DEF StreamingData, Took, Handling, At, Worker, Ordinarily, Untid, OfTimeout, In, Busy
  <1>2. CASE End(ep, 0, FALSE)
    BY <1>1, <1>2, DiscValues, PlainEnd
  <1>3. CASE ep.state = "FPDU_MODE" /\ CallModify("worker", ep, "TERMINATE", "rx_data")
    <2>1. ~Unborn
      BY <1>3 DEF Unborn
    <2> QED
      BY <1>1, <1>3, <2>1, FitBegins, FitIsRecord, AdvanceValues, CallValues, OrdinaryCall
  <1> QED
    BY <1>2, <1>3 DEF StreamingData

LEMMA StreamingDoneBooks ==
  ASSUME TypeInv, StreamingDone
  PROVE  Ordinary
  <1>1. HandlerStep /\ hw' = hw /\ Ordinarily /\ ~Unborn /\ End(ep, 1, FALSE)
    BY StreamingDoneStep
       DEF StreamingDone, After, At, Worker, Ordinarily, Unborn, Busy
  <1> QED
    BY <1>1, DiscValues, PlainEnd

LEMMA Fw4AckBooks ==
  ASSUME TypeInv, TimerInv, Fw4Ack
  PROVE  Ordinary
  <1> DEFINE a == With_mpa_skb(ep, FALSE)
  <1>1. HandlerStep /\ hw' = hw /\ Ordinarily
    BY Fw4AckStep DEF Fw4Ack, Handling, At, Worker, Ordinarily, Untid
  <1>2. Fit(a) /\ a.state = ep.state
    BY MpaSkbSame, MpaSkbBooks DEF TypeInv, Fit, Same
  <1>3. (End(StopTimer(a), 0, FALSE) /\ Stops(ep)) \/ End(a, 0, FALSE)
    BY DEF Fw4Ack, With_mpa_skb, Stops
  <1> HIDE DEF a
  <1>4. Stops(ep) => Fit(StopTimer(a)) /\ StopTimer(a).state = ep.state
    BY <1>2, FitStop DEF TimerInv, Early
  <1>5. PICK e : Fit(e) /\ e.state = ep.state /\ End(e, 0, FALSE)
    BY <1>2, <1>3, <1>4
  <1> QED
    BY <1>1, <1>5, FitIsRecord, AdvanceValues, DiscValues, OrdinaryEnd

LEMMA BothClosedBooks ==
  ASSUME TypeInv, TimerInv, BothClosed, HandlerStep, hw' = hw, Ordinarily,
         Worker.at = "handle", ep.state = "MORIBUND"
  PROVE  Ordinary
  <1> DEFINE a == StopTimer(ep)
             b == CloseUpcall(a)
             c == SetState(b, "DEAD")
  <1>1. ~Unborn /\ ~OfTimeout /\ Started(ep) /\ TimerOK(ep)
    BY DEF Unborn, OfTimeout, In, Busy, Worker, TimerInv, Early
  <1>2. Fit(a) /\ a.state = "MORIBUND"
    BY <1>1, FitBegins, FitStop
  <1>3. Fit(b) /\ ~b.cm_id
    BY <1>2, FitClose
  <1>4. Fit(c) /\ c.state = "DEAD" /\ ~c.cm_id
    BY <1>3, FitState DEF States
  <1>5. CallModify("worker", a, "IDLE", "closed") \/ End(c, 0, TRUE)
    BY DEF BothClosed
  <1> HIDE DEF a, b, c
  <1>6. CASE CallModify("worker", a, "IDLE", "closed")
    BY <1>1, <1>2, <1>6, FitIsRecord, AdvanceValues, CallValues, OrdinaryCall
  <1>7. CASE End(c, 0, TRUE)
    <2>1. "DEAD" \in GivenUp /\ Advances(ep.state, c.state)
      BY <1>4 DEF GivenUp, Advances, Linked, Late
    <2> QED
      BY <1>1, <1>4, <1>7, <2>1, FitIsRecord, DiscValues, OrdinaryEnd
  <1> QED
    BY <1>5, <1>6, <1>7

LEMMA PeerCloseBooks ==
  ASSUME TypeInv, TimerInv, PeerClose
  PROVE  Ordinary
  <1> DEFINE a == SetState(ep, "CLOSING")
             b == ConnectReply(a, FALSE)
             c == WakeUp(a, "reset")
             d == StartTimer(a)
             m == SetState(ep, "MORIBUND")
  <1>1. HandlerStep /\ hw' = hw /\ Ordinarily /\ Worker.at = "handle" /\ ~OfTimeout
    BY PeerCloseStep
       DEF PeerClose, Handling, At, Worker, Ordinarily, Untid, OfTimeout, In, Busy
  <1>2. Fit(a) /\ a.state = "CLOSING" /\ Fit(m) /\ m.state = "MORIBUND"
    BY FitBegins, FitState DEF States
  <1>3. /\ Fit(b) /\ b.state = "CLOSING" /\ Fit(c) /\ c.state = "CLOSING"
        /\ Fit(d) /\ d.state = "CLOSING"
    BY <1>2, FitRefuse, FitWakeUp, FitStart DEF Rets
  <1>4. \/ /\ ep.state \in {"MPA_REQ_WAIT", "MPA_REQ_SENT", "MPA_REQ_RCVD", "MPA_REP_SENT"}
           /\ End(a, 1, FALSE) \/ End(b, 1, FALSE) \/ End(c, 1, FALSE)
        \/ ep.state = "FPDU_MODE" /\ CallModify("worker", d, "CLOSING", "peer_close")
        \/ ep.state = "CLOSING" /\ End(m, 0, FALSE)
        \/ ep.state = "MORIBUND" /\ BothClosed
        \/ End(ep, 0, FALSE)
    BY DEF PeerClose
  <1> HIDE DEF a, b, c, d, m
  <1>5. CASE /\ ep.state \in {"MPA_REQ_WAIT", "MPA_REQ_SENT", "MPA_REQ_RCVD", "MPA_REP_SENT"}
             /\ End(a, 1, FALSE) \/ End(b, 1, FALSE) \/ End(c, 1, FALSE)
    <2>1. PICK e : Fit(e) /\ e.state = "CLOSING" /\ End(e, 1, FALSE)
      BY <1>2, <1>3, <1>5
    <2>2. ~Unborn
      BY <1>5 DEF Unborn
    <2> QED
      BY <1>1, <1>5, <2>1, <2>2, FitIsRecord, AdvanceValues, DiscValues, OrdinaryEnd
  <1>6. CASE ep.state = "FPDU_MODE" /\ CallModify("worker", d, "CLOSING", "peer_close")
    <2>1. ~Unborn
      BY <1>6 DEF Unborn
    <2> QED
      BY <1>1, <1>3, <1>6, <2>1, FitIsRecord, AdvanceValues, CallValues, OrdinaryCall
  <1>7. CASE ep.state = "CLOSING" /\ End(m, 0, FALSE)
    <2>1. ~Unborn
      BY <1>7 DEF Unborn
    <2> QED
      BY <1>1, <1>2, <1>7, <2>1, FitIsRecord, AdvanceValues, DiscValues, OrdinaryEnd
  <1>8. CASE ep.state = "MORIBUND" /\ BothClosed
    BY <1>1, <1>8, BothClosedBooks
  <1>9. CASE End(ep, 0, FALSE)
    BY <1>1, <1>9, DiscValues, PlainEnd
  <1> QED
    BY <1>4, <1>5, <1>6, <1>7, <1>8, <1>9

LEMMA PeerClosedBooks ==
  ASSUME TypeInv, PeerClosed
  PROVE  Ordinary
  <1> DEFINE a == PeerCloseUpcall(ep)
  <1>1. HandlerStep /\ hw' = hw /\ Ordinarily /\ ~Unborn
    BY PeerClosedStep DEF PeerClosed, After, At, Worker, Ordinarily, Unborn, Busy
  <1>2. Fit(a) /\ Fit(ep) /\ a.state = ep.state
    BY FitBegins, FitPeerClose
  <1>3. End(a, 1, FALSE) \/ End(ep, 1, FALSE)
    BY DEF PeerClosed
  <1> HIDE DEF a
  <1> QED
    BY <1>1, <1>2, <1>3, FitIsRecord, AdvanceValues, DiscValues, OrdinaryEnd

LEMMA CloseConRplBooks ==
  ASSUME TypeInv, TimerInv, CloseConRpl
  PROVE  Ordinary
  <1> DEFINE m == SetState(ep, "MORIBUND")
  <1>1. HandlerStep /\ hw' = hw /\ Ordinarily /\ Worker.at = "handle"
    BY CloseConRplStep DEF CloseConRpl, Handling, At, Worker, Ordinarily, Untid
  <1>2. Fit(m) /\ m.state = "MORIBUND"
    BY FitBegins, FitState DEF States
  <1>3. \/ ep.state = "CLOSING" /\ End(m, 0, FALSE)
        \/ ep.state = "MORIBUND" /\ BothClosed
        \/ End(ep, 0, FALSE)
    BY DEF CloseConRpl
  <1> HIDE DEF m
  <1>4. CASE ep.state = "CLOSING" /\ End(m, 0, FALSE)
    <2>1. ~Unborn
      BY <1>4 DEF Unborn
    <2> QED
      BY <1>1, <1>2, <1>4, <2>1, FitIsRecord, AdvanceValues, DiscValues, OrdinaryEnd
  <1>5. CASE ep.state = "MORIBUND" /\ BothClosed
    BY <1>1, <1>5, BothClosedBooks
  <1>6. CASE End(ep, 0, FALSE)
    BY <1>1, <1>6, DiscValues, PlainEnd
  <1> QED
    BY <1>3, <1>4, <1>5, <1>6

LEMMA ClosedBooks ==
  ASSUME TypeInv, Closed
  PROVE  Ordinary
  <1> DEFINE a == CloseUpcall(ep)
             b == SetState(a, "DEAD")
  <1>1. HandlerStep /\ hw' = hw /\ Ordinarily /\ ~Unborn /\ ~OfTimeout
    BY ClosedStep
       DEF Closed, After, At, Worker, Ordinarily, Unborn, Busy, OfTimeout, In
  <1>2. Fit(a) /\ ~a.cm_id
    BY FitBegins, FitClose
  <1>3. Fit(b) /\ b.state = "DEAD" /\ ~b.cm_id
    BY <1>2, FitState DEF States
  <1>4. End(b, 0, TRUE)
    BY DEF Closed
  <1> HIDE DEF a, b
  <1>5. ep.state \in States /\ "DEAD" \in GivenUp
    BY FitBegins, FitIsRecord DEF GivenUp
  <1> QED
    BY <1>1, <1>3, <1>4, <1>5, FitIsRecord, AdvanceValues, DiscValues, OrdinaryEnd

LEMMA AbortRplBooks ==
  ASSUME TypeInv, AbortRpl
  PROVE  Ordinary
  <1> DEFINE a == WakeUp(ep, "reset")
             b == SetState(a, "DEAD")
             c == CloseUpcall(b)
  <1>1. HandlerStep /\ hw' = hw /\ Ordinarily /\ ~OfTimeout
    BY AbortRplStep
       DEF AbortRpl, Handling, At, Worker, Ordinarily, Untid, OfTimeout, In, Busy
  <1>2. Fit(a)
    BY FitBegins, FitWakeUp DEF Rets
  <1>3. Fit(b) /\ b.state = "DEAD"
    BY <1>2, FitState DEF States
  <1>4. Fit(c) /\ c.state = "DEAD" /\ ~c.cm_id
    BY <1>3, FitClose
  <1>5. (ep.state = "ABORTING" /\ End(c, 0, TRUE)) \/ End(ep, 0, FALSE)
    BY DEF AbortRpl
  <1> HIDE DEF a, b, c
  <1>6. CASE ep.state = "ABORTING" /\ End(c, 0, TRUE)
    <2>1. ~Unborn /\ "DEAD" \in GivenUp /\ Advances(ep.state, c.state)
      BY <1>4, <1>6 DEF Unborn, GivenUp, Advances, Linked, Late
    <2> QED
      BY <1>1, <1>4, <1>6, <2>1, FitIsRecord, DiscValues, OrdinaryEnd
  <1>7. CASE End(ep, 0, FALSE)
    BY <1>1, <1>7, DiscValues, PlainEnd
  <1> QED
    BY <1>5, <1>6, <1>7

LEMMA TerminateBooks ==
  ASSUME TypeInv, Terminate
  PROVE  Ordinary
  <1>1. HandlerStep /\ hw' = hw /\ Ordinarily /\ ~Unborn /\ ~OfTimeout
    BY TerminateStep
       DEF Terminate, Handling, At, Worker, Ordinarily, Untid, Unborn, BreakHandled,
           OfTimeout, In, Busy
  <1>2. CASE End(ep, 2, FALSE)
    BY <1>1, <1>2, DiscValues, PlainEnd
  <1>3. CASE CallModify("worker", ep, "TERMINATE", "terminate")
    BY <1>1, <1>3, FitBegins, FitIsRecord, AdvanceValues, CallValues, OrdinaryCall
  <1> QED
    BY <1>2, <1>3 DEF Terminate

LEMMA TerminatedBooks ==
  ASSUME TypeInv, Terminated
  PROVE  Ordinary
  <1>1. HandlerStep /\ hw' = hw /\ Ordinarily /\ ~Unborn /\ End(ep, 2, FALSE)
    BY TerminatedStep DEF Terminated, After, At, Worker, Ordinarily, Unborn, Busy
  <1> QED
    BY <1>1, DiscValues, PlainEnd

LEMMA ProcessTimeoutBooks ==
  ASSUME TypeInv, SideInv, ProcessTimeout
  PROVE  Ordinary
  <1> DEFINE a == ConnectReply(ep, FALSE)
             b == CloseUpcall(ep)
  <1>1. HandlerStep /\ hw' = hw /\ Ordinarily /\ OfTimeout
    BY ProcessTimeoutStep DEF ProcessTimeout, At, Worker, Ordinarily, OfTimeout
  <1>2. Fit(ep) /\ Fit(a) /\ a.state = ep.state /\ Fit(b) /\ b.state = ep.state
    BY FitBegins, FitRefuse, FitClose
  <1>3. \/ /\ ep.state \notin {"CONNECTING", "DEAD"}
           /\ End(a, 2, FALSE) \/ End(ep, 2, FALSE) \/ End(b, 2, FALSE)
        \/ /\ ep.state \notin {"CONNECTING", "DEAD"}
           /\ CallModify("worker", ep, "ERROR", "timeout")
        \/ End(ep, 0, FALSE)
    BY DEF ProcessTimeout
  <1> HIDE DEF a, b
  <1>4. CASE /\ ep.state \notin {"CONNECTING", "DEAD"}
             /\ End(a, 2, FALSE) \/ End(ep, 2, FALSE) \/ End(b, 2, FALSE)
    <2>1. ~Unborn
      BY <1>4 DEF Unborn
    <2>2. PICK e : Fit(e) /\ e.state = ep.state /\ End(e, 2, FALSE)
      BY <1>2, <1>4
    <2> QED
      BY <1>1, <2>1, <2>2, FitIsRecord, AdvanceValues, DiscValues, OrdinaryEnd
  <1>5. CASE /\ ep.state \notin {"CONNECTING", "DEAD"}
             /\ CallModify("worker", ep, "ERROR", "timeout")
    <2>1. ~Unborn
      BY <1>5 DEF Unborn
    <2> QED
      BY <1>1, <1>2, <1>5, <2>1, FitIsRecord, AdvanceValues, CallValues, OrdinaryCall
  <1>6. CASE End(ep, 0, FALSE)
    BY <1>1, <1>6, DiscValues, PlainEnd
  <1> QED
    BY <1>3, <1>4, <1>5, <1>6

LEMMA TimedOutBooks ==
  ASSUME TypeInv, TimedOut
  PROVE  Ordinary
  <1> DEFINE a == CloseUpcall(ep)
  <1>1. HandlerStep /\ hw' = hw /\ Ordinarily /\ ~Unborn
    BY TimedOutStep DEF TimedOut, After, At, Worker, Ordinarily, Unborn, Busy
  <1>2. Fit(a) /\ Fit(ep) /\ a.state = ep.state /\ End(a, 2, FALSE)
    BY FitBegins, FitClose DEF TimedOut
  <1> HIDE DEF a
  <1> QED
    BY <1>1, <1>2, FitIsRecord, AdvanceValues, DiscValues, OrdinaryEnd

OrdinaryHandler ==
  \/ MpaReply \/ MpaReplied \/ MpaMismatched \/ StreamingData \/ StreamingDone \/ Fw4Ack
  \/ PeerClose \/ PeerClosed \/ CloseConRpl \/ Closed \/ AbortRpl \/ Terminate
  \/ Terminated \/ ProcessTimeout \/ TimedOut

LEMMA OrdinaryBooks ==
  ASSUME TypeInv, SideInv, TimerInv, OrdinaryHandler
  PROVE  Ordinary
  BY MpaReplyBooks, MpaRepliedBooks, MpaMismatchedBooks, StreamingDataBooks,
     StreamingDoneBooks, Fw4AckBooks, PeerCloseBooks, PeerClosedBooks, CloseConRplBooks,
     ClosedBooks, AbortRplBooks, TerminateBooks, TerminatedBooks, ProcessTimeoutBooks,
     TimedOutBooks DEF OrdinaryHandler

-----------------------------------------------------------------------------
(* The handlers that do more with references than drop their own.          *)

WorkerSquare(e, n) == Square(e, n, "worker")

(* The base reference is dropped too. *)
Short(e, n) == Ledger(ep') - thr'["worker"].held = Ledger(e) - n - 1 + Bit(e.base)

(* What neither the base reference nor the interrupt's is about. *)
Rest(e, f) ==
  /\ (f.hold <=> e.hold) /\ (f.listed <=> e.listed) /\ f.tcbs = e.tcbs
  /\ Ticks(e, f)

LEMMA WorkerProceeds ==
  ASSUME TypeInv, NEW e \in EpRecords, NEW disc \in 0..2, NEW rel \in BOOLEAN,
         NEW held \in Nat, Proceed("worker", e, disc, rel, held)
  PROVE  /\ ep' \in EpRecords /\ Same(e, ep')
         /\ Leaves("worker", disc, rel, held)
         /\ Duties(e, ep') /\ Ticks(e, ep') /\ WorkerSquare(e, held)
  BY ProceedEffect, ProceedBooks DEF TypeInv, Threaded, Threads, WorkerSquare

LEMMA QuitBooks ==
  ASSUME TypeInv, NEW e \in EpRecords, NEW held \in Nat,
         Proceed("worker", Put([e EXCEPT !.base = FALSE]), 0, FALSE, held)
  PROVE  /\ ep' \in EpRecords /\ Same(e, ep') /\ Leaves("worker", 0, FALSE, held)
         /\ ~ep'.base /\ ep'.intr = e.intr /\ Rest(e, ep') /\ Short(e, held)
  <1> DEFINE a == With_base(e, FALSE)
             f == Put(a)
  <1>1. /\ f \in EpRecords /\ f.kref = e.kref - 1 /\ ~f.base
        /\ f.tcbs = e.tcbs /\ f.intr = e.intr
        /\ (f.timer <=> e.timer) /\ (f.listed <=> e.listed)
        /\ (f.ulp <=> e.ulp) /\ (f.hold <=> e.hold) /\ f.flags = e.flags
    <2>1. /\ a \in EpRecords /\ a.kref = e.kref /\ a.base = FALSE
          /\ a.tcbs = e.tcbs /\ a.intr = e.intr /\ a.timer = e.timer
          /\ a.listed = e.listed /\ a.ulp = e.ulp /\ a.hold = e.hold /\ a.flags = e.flags
      BY DEF EpRecords, With_base
    <2> HIDE DEF a
    <2>2. /\ f.kref = a.kref - 1 /\ f.base = a.base /\ f.tcbs = a.tcbs /\ f.intr = a.intr
          /\ f.timer = a.timer /\ f.listed = a.listed /\ f.ulp = a.ulp
          /\ f.hold = a.hold /\ f.flags = a.flags
      BY <2>1 DEF EpRecords, Put
    <2>3. f \in EpRecords
      BY <2>1, PutSame
    <2> QED
      BY <2>1, <2>2, <2>3
  <1>2. Proceed("worker", f, 0, FALSE, held)
    BY DEF With_base
  <1>3. ep' \in EpRecords /\ Same(e, ep')
    BY QuitEffect
  <1> HIDE DEF f
  <1>4. Ledger(f) = Ledger(e) - 1 + Bit(e.base)
    BY <1>1 DEF Ledger, Bit, EpRecords
  <1>5. Ticks(e, f)
    BY <1>1 DEF Ticks, Started, TimerOK, Expired, Stops
  <1>6. /\ Leaves("worker", 0, FALSE, held)
        /\ Duties(f, ep') /\ Ticks(f, ep') /\ WorkerSquare(f, held)
    BY <1>1, <1>2, DiscValues, WorkerProceeds
  <1>7. Ledger(e) \in Int /\ Bit(e.base) \in Int
    BY DEF Ledger, Bit, EpRecords
  <1>8. Short(e, held)
    BY <1>4, <1>6, <1>7 DEF Short, WorkerSquare, Square
  <1>9. ~ep'.base /\ ep'.intr = e.intr /\ Rest(e, ep')
    BY <1>1, <1>5, <1>6 DEF Rest, Duties, Ticks
  <1> QED
    BY <1>3, <1>6, <1>8, <1>9

Stale(e) == IF e.hwtid = "none" THEN "none" ELSE "stale"

(* c4iw_reconnect tries again, or gives up. *)
Retried(e, held) ==
  /\ ep' \in EpRecords /\ Kept(e, ep') /\ ep'.hwtid = Stale(e)
  /\ Leaves("worker", 0, FALSE, held) /\ ep'.intr = e.intr /\ Rest(e, ep')
  /\ \/ /\ (ep'.base <=> e.base) /\ WorkerSquare(e, held)
        /\ ep'.state = "CONNECTING" /\ (ep'.cm_id <=> e.cm_id) /\ hw' = NewConn
     \/ /\ ~ep'.base /\ Short(e, held)
        /\ ep'.state = e.state /\ hw' = hw
        /\ "alloc" \in Faults \/ ~ep'.cm_id

LEMMA ReconnectBooks ==
  ASSUME TypeInv, NEW e \in EpRecords, NEW held \in Nat, Reconnect(e, held)
  PROVE  Retried(e, held)
  <1> DEFINE f == [e EXCEPT !.wr_done = 0, !.wr_ret = "ok",
                            !.hwtid = IF @ = "none" THEN "none" ELSE "stale"]
             g == SetState(f, "CONNECTING")
             h == ConnectReply(f, FALSE)
  <1>1. /\ f \in EpRecords /\ Kept(e, f) /\ Silent(e, f) /\ f.state = e.state
        /\ f.hwtid = Stale(e)
    BY DEF EpRecords, Kept, Silent, Peers, Rets, Stale
  <1>2. Alike(e, f)
    BY DEF EpRecords, Alike, Expired, Stops
  <1>3. Level(e, f)
    BY <1>2, AlikeIsLevel
  <1>4. /\ g \in EpRecords /\ g.state = "CONNECTING" /\ Steady(f, g) /\ Silent(f, g)
        /\ Level(f, g)
    BY <1>1, StateFields, StateBooks DEF States, Connecting
  <1>5. /\ h \in EpRecords /\ h.state = f.state /\ Steady(f, h) /\ ~h.cm_id /\ Level(f, h)
    BY <1>1, RefuseFields, ReplyBooks
  <1>6. \/ Proceed("worker", g, 0, FALSE, held) /\ hw' = NewConn
        \/ /\ "alloc" \in Faults /\ UNCHANGED hw
           /\ Proceed("worker", Put([f EXCEPT !.base = FALSE]), 0, FALSE, held)
        \/ /\ UNCHANGED hw
           /\ Proceed("worker", Put([h EXCEPT !.base = FALSE]), 0, FALSE, held)
    BY DEF Reconnect
  <1> HIDE DEF f, g, h
  <1>7. ASSUME NEW x \in EpRecords, Level(f, x), Steady(f, x), Same(x, ep')
        PROVE  /\ Kept(e, ep') /\ ep'.hwtid = Stale(e) /\ Level(e, x)
               /\ ep'.state = x.state /\ (ep'.cm_id <=> x.cm_id)
    <2>1. Level(e, x)
      BY <1>3, <1>7, LevelTransitive
    <2>2. ep' \in EpRecords
      BY <1>6, <1>1, <1>4, <1>5, QuitBooks, WorkerProceeds, DiscValues
    <2> QED
      BY <1>1, <1>7, <2>1, <2>2 DEF Kept, Same, Steady, Silent
  <1>8. CASE Proceed("worker", g, 0, FALSE, held) /\ hw' = NewConn
    <2>1. /\ ep' \in EpRecords /\ Same(g, ep') /\ Leaves("worker", 0, FALSE, held)
          /\ Duties(g, ep') /\ Ticks(g, ep') /\ WorkerSquare(g, held)
      BY <1>4, <1>8, DiscValues, WorkerProceeds
    <2>2. /\ Kept(e, ep') /\ ep'.hwtid = Stale(e) /\ Level(e, g)
          /\ ep'.state = g.state /\ (ep'.cm_id <=> g.cm_id)
      BY <1>4, <1>7, <2>1
    <2>3. ep'.cm_id <=> e.cm_id
      BY <1>1, <1>4, <2>2 DEF Silent
    <2>4. /\ Rest(e, ep') /\ ep'.intr = e.intr /\ (ep'.base <=> e.base)
          /\ WorkerSquare(e, held)
      BY <2>1, <2>2 DEF Rest, Level, Duties, Ticks, WorkerSquare, Square
    <2> QED
      BY <1>4, <1>8, <2>1, <2>2, <2>3, <2>4 DEF Retried
  <1>9. ASSUME NEW x \in EpRecords, Level(f, x), Steady(f, x), x.state = f.state,
               "alloc" \in Faults \/ ~x.cm_id, UNCHANGED hw,
               Proceed("worker", Put([x EXCEPT !.base = FALSE]), 0, FALSE, held)
        PROVE  Retried(e, held)
    <2>1. /\ ep' \in EpRecords /\ Same(x, ep') /\ Leaves("worker", 0, FALSE, held)
          /\ ~ep'.base /\ ep'.intr = x.intr /\ Rest(x, ep') /\ Short(x, held)
      BY <1>9, QuitBooks
    <2>2. /\ Kept(e, ep') /\ ep'.hwtid = Stale(e) /\ Level(e, x)
          /\ ep'.state = x.state /\ (ep'.cm_id <=> x.cm_id)
      BY <1>7, <1>9, <2>1
    <2>3. Rest(e, ep') /\ ep'.intr = e.intr
      BY <2>1, <2>2 DEF Rest, Level, Duties, Ticks
    <2>4. Short(e, held)
      BY <2>1, <2>2 DEF Short, Level, Duties, Bit
    <2> QED
      BY <1>1, <1>9, <2>1, <2>2, <2>3, <2>4 DEF Retried
  <1>10. Level(f, f) /\ Steady(f, f)
    BY LevelReflexive DEF Steady
  <1> QED
    BY <1>1, <1>5, <1>6, <1>8, <1>9, <1>10

(* The last part of peer_abort: the interrupt's reference is dropped with  *)
(* the handler's.                                                          *)
AbortBooks(e) ==
  /\ mutex' = "free" /\ ep' \in EpRecords /\ ep'.intr = e.intr - 1 /\ Rest(e, ep')
  /\ ep'.side = e.side /\ (ep'.qp <=> e.qp) /\ (ep'.ulp <=> e.ulp)
  /\ (Peers(ep') <=> Peers(e)) /\ (ep'.retry_v1 <=> e.retry_v1)
  /\ \/ /\ ~e.retry_v1 /\ hw' = hw /\ Leaves("worker", 0, TRUE, Worker.held + 1)
        /\ (ep'.base <=> e.base) /\ WorkerSquare(e, Worker.held)
        /\ ep'.state = "DEAD" /\ (ep'.cm_id <=> e.cm_id) /\ ep'.hwtid = e.hwtid
     \/ /\ e.retry_v1 /\ ep'.hwtid = Stale(e) /\ Leaves("worker", 0, FALSE, Worker.held + 1)
        /\ \/ /\ (ep'.base <=> e.base) /\ WorkerSquare(e, Worker.held)
              /\ ep'.state = "CONNECTING" /\ (ep'.cm_id <=> e.cm_id) /\ hw' = NewConn
           \/ /\ ~ep'.base /\ Short(e, Worker.held) /\ ep'.state = "DEAD" /\ hw' = hw
              /\ "alloc" \in Faults \/ ~ep'.cm_id

LEMMA HeldIsNat ==
  ASSUME TypeInv
  PROVE  Worker.held \in Nat /\ Worker.held + 1 \in Nat
  BY DEF TypeInv, ThrRecords, Worker, Threads

(* One reference of the interrupt less. *)
LEMMA IntrBooks ==
  ASSUME NEW e \in EpRecords
  PROVE  LET f == With_intr(e, e.intr - 1) IN
         /\ f \in EpRecords /\ Same(e, f) /\ Rest(e, f) /\ (f.base <=> e.base)
         /\ f.intr = e.intr - 1 /\ Ledger(f) = Ledger(e) + 1
  <1> DEFINE f == With_intr(e, e.intr - 1)
  <1>1. e.intr - 1 \in Int
    BY DEF EpRecords
  <1>2. f \in EpRecords /\ Same(e, f)
    BY <1>1, IntrSame
  <1>3. /\ f.kref = e.kref /\ f.tcbs = e.tcbs /\ f.intr = e.intr - 1 /\ f.base = e.base
        /\ f.timer = e.timer /\ f.listed = e.listed /\ f.ulp = e.ulp /\ f.hold = e.hold
        /\ f.flags = e.flags
    BY DEF EpRecords, With_intr
  <1> HIDE DEF f
  <1>4. Ledger(f) = Ledger(e) + 1
    BY <1>3 DEF Ledger, Bit, EpRecords
  <1>5. Rest(e, f)
    BY <1>3 DEF Rest, Ticks, Started, TimerOK, Expired, Stops
  <1> QED
    BY <1>2, <1>3, <1>4, <1>5 DEF f

LEMMA LedgerIsInt ==
  ASSUME NEW e \in EpRecords
  PROVE  Ledger(e) \in Int /\ Bit(e.base) \in 0..1
  BY DEF Ledger, Bit, EpRecords

LEMMA AbortedBooks ==
  ASSUME TypeInv, NEW e \in EpRecords, Aborted(e)
  PROVE  AbortBooks(e)
  <1> DEFINE a == With_intr(e, e.intr - 1)
             f == SetState(a, "DEAD")
             held == Worker.held + 1
  <1>1. f = SetState([e EXCEPT !.intr = @ - 1], "DEAD")
    BY DEF With_intr
  <1>2. /\ a \in EpRecords /\ Same(e, a) /\ Rest(e, a) /\ (a.base <=> e.base)
        /\ a.intr = e.intr - 1 /\ Ledger(a) = Ledger(e) + 1
    BY IntrBooks
  <1> HIDE DEF a
  <1>3. /\ f \in EpRecords /\ f.state = "DEAD" /\ Steady(a, f) /\ Silent(a, f) /\ Level(a, f)
    BY <1>2, StateFields, StateBooks DEF States
  <1> HIDE DEF f
  <1>4. /\ f.intr = e.intr - 1 /\ Rest(e, f) /\ (f.base <=> e.base)
        /\ Ledger(f) = Ledger(e) + 1
    BY <1>2, <1>3 DEF Level, Duties, Rest, Ticks
  <1>5. Steady(e, f) /\ Silent(e, f)
    BY <1>2, <1>3 DEF Same, Steady, Silent
  <1>6. Ledger(e) \in Int /\ Ledger(f) \in Int /\ Bit(e.base) \in 0..1 /\ Worker.held \in Nat
    BY <1>3, LedgerIsInt, HeldIsNat
  <1>7. mutex' = "free" /\ \/ e.retry_v1 /\ Reconnect(f, held)
                           \/ ~e.retry_v1 /\ Proceed("worker", f, 0, TRUE, held) /\ hw' = hw
    BY <1>1 DEF Aborted
  <1>8. WorkerSquare(f, held) => WorkerSquare(e, Worker.held)
    BY <1>4, <1>6 DEF WorkerSquare, Square
  <1>9. Short(f, held) => Short(e, Worker.held)
    <2>1. Bit(f.base) = Bit(e.base)
      BY <1>4 DEF Bit
    <2> QED
      BY <1>4, <1>6, <2>1 DEF Short
  <1>10. CASE e.retry_v1 /\ Reconnect(f, held)
    <2>1. Retried(f, held)
      BY <1>3, <1>10, HeldIsNat, ReconnectBooks
    <2>2. Stale(f) = Stale(e)
      BY <1>5 DEF Stale, Steady
    <2>3. /\ ep' \in EpRecords /\ ep'.intr = e.intr - 1 /\ Rest(e, ep')
          /\ ep'.side = e.side /\ (ep'.qp <=> e.qp) /\ (ep'.ulp <=> e.ulp)
          /\ (Peers(ep') <=> Peers(e)) /\ (ep'.retry_v1 <=> e.retry_v1)
      BY <1>4, <1>5, <2>1 DEF Retried, Kept, Steady, Rest, Ticks
    <2> QED
      BY <1>3, <1>4, <1>5, <1>7, <1>8, <1>9, <1>10, <2>1, <2>2, <2>3
         DEF Retried, AbortBooks, Silent
  <1>11. CASE ~e.retry_v1 /\ Proceed("worker", f, 0, TRUE, held) /\ hw' = hw
    <2>1. /\ ep' \in EpRecords /\ Same(f, ep') /\ Leaves("worker", 0, TRUE, held)
          /\ Duties(f, ep') /\ Ticks(f, ep') /\ WorkerSquare(f, held)
      BY <1>3, <1>11, DiscValues, HeldIsNat, WorkerProceeds
    <2>2. /\ ep'.intr = e.intr - 1 /\ Rest(e, ep') /\ (ep'.base <=> e.base)
      BY <1>4, <2>1 DEF Duties, Rest, Ticks
    <2>3. /\ ep'.side = e.side /\ (ep'.qp <=> e.qp) /\ (ep'.ulp <=> e.ulp)
          /\ (Peers(ep') <=> Peers(e)) /\ (ep'.retry_v1 <=> e.retry_v1)
          /\ ep'.hwtid = e.hwtid /\ ep'.state = "DEAD" /\ (ep'.cm_id <=> e.cm_id)
      BY <1>3, <1>5, <2>1 DEF Same, Steady, Silent
    <2> QED
      BY <1>7, <1>8, <1>11, <2>1, <2>2, <2>3 DEF AbortBooks
  <1> QED
    BY <1>7, <1>10, <1>11

-----------------------------------------------------------------------------
(* The TCBs asked for have a reference each. *)

Tcbed(e, f, n) ==
  /\ (f.base <=> e.base) /\ (f.hold <=> e.hold) /\ (f.listed <=> e.listed)
  /\ f.tcbs = e.tcbs + n /\ f.intr = e.intr /\ Ticks(e, f) /\ Ledger(f) = Ledger(e)

LEMMA ReadTcbBooks ==
  ASSUME NEW e \in EpRecords, ~fatal
  PROVE  Tcbed(e, ReadTcb(e), 1)
  <1> DEFINE f == ReadTcb(e)
  <1>1. /\ f.kref = e.kref + 1 /\ f.tcbs = e.tcbs + 1 /\ f.intr = e.intr /\ f.base = e.base
        /\ f.timer = e.timer /\ f.listed = e.listed /\ f.ulp = e.ulp /\ f.hold = e.hold
        /\ f.flags = e.flags
    BY DEF EpRecords, ReadTcb, Get
  <1> HIDE DEF f
  <1>2. Ledger(f) = Ledger(e)
    BY <1>1 DEF Ledger, Bit, EpRecords
  <1> QED
    BY <1>1, <1>2 DEF Tcbed, Ticks, Started, TimerOK, Expired, Stops, f

(* read_tcb_rpl puts the reference. *)
TcbBack(e) == Put([e EXCEPT !.tcbs = @ - 1])

LEMMA TcbBackBooks ==
  ASSUME NEW e \in EpRecords
  PROVE  TcbBack(e) \in EpRecords /\ Same(e, TcbBack(e)) /\ Tcbed(e, TcbBack(e), -1)
  <1> DEFINE a == With_tcbs(e, e.tcbs - 1)
             f == Put(a)
  <1>0. f = TcbBack(e) /\ e.tcbs - 1 \in Int
    BY DEF TcbBack, With_tcbs, EpRecords
  <1>1. a \in EpRecords /\ Same(e, a)
    BY <1>0, TcbsSame
  <1>2. /\ a.kref = e.kref /\ a.tcbs = e.tcbs - 1 /\ a.intr = e.intr /\ a.base = e.base
        /\ a.timer = e.timer /\ a.listed = e.listed /\ a.ulp = e.ulp /\ a.hold = e.hold
        /\ a.flags = e.flags
    BY DEF EpRecords, With_tcbs
  <1> HIDE DEF a
  <1>3. f \in EpRecords /\ Same(a, f)
    BY <1>1, PutSame
  <1>4. /\ f.kref = a.kref - 1 /\ f.tcbs = a.tcbs /\ f.intr = a.intr /\ f.base = a.base
        /\ f.timer = a.timer /\ f.listed = a.listed /\ f.ulp = a.ulp /\ f.hold = a.hold
        /\ f.flags = a.flags
    BY <1>1 DEF EpRecords, Put
  <1> HIDE DEF f
  <1>5. Ledger(f) = Ledger(e)
    BY <1>2, <1>4 DEF Ledger, Bit, EpRecords
  <1>6. Tcbed(e, f, -1)
    BY <1>2, <1>4, <1>5 DEF Tcbed, Ticks, Started, TimerOK, Expired, Stops, EpRecords
  <1>7. Same(e, f)
    BY <1>1, <1>3 DEF Same, Steady, Silent
  <1> QED
    BY <1>0, <1>3, <1>6, <1>7

LEMMA PduOutBooks ==
  ASSUME NEW e \in EpRecords
  PROVE  With_pdu_out(e, 1) \in EpRecords /\ Same(e, With_pdu_out(e, 1))
         /\ Level(e, With_pdu_out(e, 1))
  <1>1. Alike(e, With_pdu_out(e, 1))
    BY DEF EpRecords, With_pdu_out, Alike, Expired, Stops
  <1> QED
    BY <1>1, PduOutSame, AlikeIsLevel

(* The peer's abort is finished: the endpoint is no longer held for it.    *)
Finishes(e) ==
  /\ mutex' = mutex /\ ep' \in EpRecords /\ Steady(e, ep') /\ ep'.state = e.state
  /\ ~ep'.cm_id /\ ~ep'.hold
  /\ (ep'.base <=> e.base) /\ (ep'.listed <=> e.listed)
  /\ ep'.tcbs = e.tcbs /\ ep'.intr = e.intr /\ Ticks(e, ep')
  /\ Leaves("worker", 0, TRUE, Worker.held + 1)
  /\ e.hold => WorkerSquare(e, Worker.held)

LEMMA FinishBooks ==
  ASSUME TypeInv, NEW e \in EpRecords, FinishPeerAbort(e)
  PROVE  Finishes(e)
  <1> DEFINE a == CloseUpcall(e)
             b == With_hold(a, FALSE)
  <1>1. /\ a \in EpRecords /\ Level(e, a)
    BY CloseFields, TellBooks
  <1>2. Proceed("worker", b, 0, TRUE, Worker.held + 1) /\ mutex' = mutex
    BY DEF FinishPeerAbort, With_hold
  <1>3. /\ ep' \in EpRecords /\ Steady(e, ep') /\ ep'.state = e.state /\ ~ep'.cm_id
    BY FinishEffect
  <1> HIDE DEF a
  <1>4. b \in EpRecords
    BY <1>1, HoldSame
  <1>5. /\ b.kref = a.kref /\ b.tcbs = a.tcbs /\ b.intr = a.intr /\ b.base = a.base
        /\ b.timer = a.timer /\ b.listed = a.listed /\ b.ulp = a.ulp /\ b.hold = FALSE
        /\ b.flags = a.flags
    BY <1>1 DEF EpRecords, With_hold
  <1> HIDE DEF b
  <1>6. a.hold => Ledger(b) = Ledger(a) + 1
    BY <1>1, <1>5 DEF Ledger, Bit, EpRecords
  <1>7. Ticks(a, b)
    BY <1>5 DEF Ticks, Started, TimerOK, Expired, Stops
  <1>8. /\ Leaves("worker", 0, TRUE, Worker.held + 1)
        /\ Duties(b, ep') /\ Ticks(b, ep') /\ WorkerSquare(b, Worker.held + 1)
    BY <1>2, <1>4, DiscValues, HeldIsNat, WorkerProceeds
  <1>9. Ledger(a) \in Int /\ Worker.held \in Nat
    BY <1>1, LedgerIsInt, HeldIsNat
  <1>10. e.hold => WorkerSquare(e, Worker.held)
    BY <1>1, <1>6, <1>8, <1>9 DEF WorkerSquare, Square, Level, Duties
  <1>11. /\ ~ep'.hold /\ (ep'.base <=> e.base) /\ (ep'.listed <=> e.listed)
         /\ ep'.tcbs = e.tcbs /\ ep'.intr = e.intr /\ Ticks(e, ep')
    BY <1>1, <1>5, <1>7, <1>8 DEF Level, Duties, Ticks
  <1> QED
    BY <1>2, <1>3, <1>8, <1>10, <1>11 DEF Finishes

(* Only the handler's and the interrupt's references are dropped. *)
Unheeded ==
  /\ mutex' = mutex /\ hw' = hw /\ ep' \in EpRecords /\ Same(ep, ep')
  /\ ep'.intr = ep.intr - 1 /\ Rest(ep, ep') /\ (ep'.base <=> ep.base)
  /\ Leaves("worker", 0, FALSE, Worker.held + 1) /\ WorkerSquare(ep, Worker.held)

LEMMA UnheededBooks ==
  ASSUME TypeInv, AbortUnheeded(ep)
  PROVE  Unheeded
  <1> DEFINE f == With_intr(ep, ep.intr - 1)
  <1>1. ep \in EpRecords /\ Ledger(ep) \in Int /\ Worker.held \in Nat /\ Worker.held + 1 \in Nat
    BY LedgerIsInt, HeldIsNat DEF TypeInv
  <1>2. /\ f \in EpRecords /\ Same(ep, f) /\ Rest(ep, f) /\ (f.base <=> ep.base)
        /\ f.intr = ep.intr - 1 /\ Ledger(f) = Ledger(ep) + 1
    BY <1>1, IntrBooks
  <1>3. Proceed("worker", f, 0, FALSE, Worker.held + 1) /\ mutex' = mutex /\ hw' = hw
    BY DEF AbortUnheeded, With_intr
  <1> HIDE DEF f
  <1>4. /\ ep' \in EpRecords /\ Same(f, ep') /\ Leaves("worker", 0, FALSE, Worker.held + 1)
        /\ Duties(f, ep') /\ Ticks(f, ep') /\ WorkerSquare(f, Worker.held + 1)
    BY <1>1, <1>2, <1>3, DiscValues, WorkerProceeds
  <1>5. WorkerSquare(ep, Worker.held)
    BY <1>1, <1>2, <1>4 DEF WorkerSquare, Square
  <1>6. Same(ep, ep')
    BY <1>2, <1>4 DEF Same, Steady, Silent
  <1>7. ep'.intr = ep.intr - 1 /\ Rest(ep, ep') /\ (ep'.base <=> ep.base)
    BY <1>2, <1>4 DEF Rest, Duties, Ticks
  <1> QED
    BY <1>3, <1>4, <1>5, <1>6, <1>7 DEF Unheeded

(* peer_abort waits for the TCB, and holds the endpoint till then. *)
AwaitsTcb(e) ==
  /\ ep' \in EpRecords /\ ep'.state = "ABORTING" /\ Peer' /\ Silent(e, ep')
  /\ ep'.side = e.side /\ ep'.hwtid = e.hwtid /\ (ep'.qp <=> e.qp) /\ (ep'.ulp <=> e.ulp)
  /\ (ep'.retry_v1 <=> e.retry_v1) /\ Ticks(e, ep')
  /\ ep'.hold /\ (ep'.base <=> e.base) /\ (ep'.listed <=> e.listed)
  /\ ep'.tcbs = e.tcbs + 1 /\ ep'.intr = e.intr - 1
  /\ Leaves("worker", 0, FALSE, Worker.held + 1)
  /\ ~e.hold => WorkerSquare(e, Worker.held)

LEMMA AwaitsBooks ==
  ASSUME TypeInv, ~fatal, NEW e \in EpRecords,
         LET f == SetFlag(SetState(Get(e), "ABORTING"), "PEER_ABORT_IN_PROGRESS")
         IN  Proceed("worker", [ReadTcb(f) EXCEPT !.hold = TRUE, !.intr = @ - 1],
                     0, FALSE, Worker.held + 1)
  PROVE  AwaitsTcb(e)
  <1> DEFINE a == Get(e)
             b == SetState(a, "ABORTING")
             f == SetFlag(b, "PEER_ABORT_IN_PROGRESS")
             g == ReadTcb(f)
             h == With_hold(g, TRUE)
             i == With_intr(h, h.intr - 1)
  <1>1. a \in EpRecords /\ Same(e, a) /\ a.kref = e.kref + 1
        /\ a.tcbs = e.tcbs /\ a.intr = e.intr /\ a.base = e.base
        /\ a.timer = e.timer /\ a.listed = e.listed /\ a.ulp = e.ulp /\ a.hold = e.hold
        /\ a.flags = e.flags
    BY GetSame DEF EpRecords, Get
  <1>2. Ledger(a) = Ledger(e) + 1 /\ Duties(e, a) /\ Ticks(e, a)
    <2>1. Ledger(a) = Ledger(e) + 1
      BY <1>1 DEF Ledger, Bit, EpRecords
    <2> QED
      BY <1>1, <2>1 DEF Duties, Ticks, Started, TimerOK, Expired, Stops
  <1> HIDE DEF a
  <1>3. b \in EpRecords /\ b.state = "ABORTING" /\ Steady(a, b) /\ Silent(a, b) /\ Level(a, b)
    BY <1>1, StateFields, StateBooks DEF States
  <1> HIDE DEF b
  <1>4. /\ f \in EpRecords /\ Peers(f) /\ Silent(b, f) /\ f.state = b.state
        /\ f.side = b.side /\ f.hwtid = b.hwtid
        /\ (f.qp <=> b.qp) /\ (f.ulp <=> b.ulp) /\ (f.retry_v1 <=> b.retry_v1)
    BY <1>3, PeerFlag
  <1>5. Level(b, f)
    BY <1>3, FlagBooks DEF EpFlags
  <1> HIDE DEF f
  <1>6. g \in EpRecords /\ Same(f, g) /\ Tcbed(f, g, 1)
    BY <1>4, ReadTcbSame, ReadTcbBooks
  <1> HIDE DEF g
  <1>7. h \in EpRecords /\ Same(g, h)
    BY <1>6, HoldSame
  <1>8. /\ h.kref = g.kref /\ h.tcbs = g.tcbs /\ h.intr = g.intr /\ h.base = g.base
        /\ h.timer = g.timer /\ h.listed = g.listed /\ h.ulp = g.ulp /\ h.hold = TRUE
        /\ h.flags = g.flags
    BY <1>6 DEF EpRecords, With_hold
  <1>9. i = [g EXCEPT !.hold = TRUE, !.intr = @ - 1]
    BY <1>6 DEF With_hold, With_intr, EpRecords
  <1> HIDE DEF h
  <1>10. ~g.hold => Ledger(h) = Ledger(g) - 1
    BY <1>6, <1>8 DEF Ledger, Bit, EpRecords
  <1>11. Ticks(g, h)
    BY <1>8 DEF Ticks, Started, TimerOK, Expired, Stops
  <1>12. /\ i \in EpRecords /\ Same(h, i) /\ Rest(h, i) /\ (i.base <=> h.base)
         /\ i.intr = h.intr - 1 /\ Ledger(i) = Ledger(h) + 1
    BY <1>7, IntrBooks
  <1>13. Proceed("worker", i, 0, FALSE, Worker.held + 1)
    BY <1>9 DEF a, b, f, g
  <1> HIDE DEF i
  <1>14. /\ ep' \in EpRecords /\ Same(i, ep') /\ Leaves("worker", 0, FALSE, Worker.held + 1)
         /\ Duties(i, ep') /\ Ticks(i, ep') /\ WorkerSquare(i, Worker.held + 1)
    BY <1>12, <1>13, DiscValues, HeldIsNat, WorkerProceeds
  <1>15. Ledger(e) \in Int /\ Ledger(g) \in Int /\ Worker.held \in Nat
    BY <1>6, LedgerIsInt, HeldIsNat
  <1>16. ~e.hold => Ledger(i) = Ledger(e) + 1
    BY <1>2, <1>3, <1>5, <1>6, <1>10, <1>12, <1>15 DEF Level, Duties, Tcbed
  <1>17. ~e.hold => WorkerSquare(e, Worker.held)
    BY <1>14, <1>15, <1>16 DEF WorkerSquare, Square
  <1>18. /\ ep'.hold /\ (ep'.base <=> e.base) /\ (ep'.listed <=> e.listed)
         /\ ep'.tcbs = e.tcbs + 1 /\ ep'.intr = e.intr - 1
    BY <1>1, <1>2, <1>3, <1>5, <1>6, <1>8, <1>12, <1>14 DEF Level, Duties, Tcbed, Rest
  <1>19. Ticks(e, ep')
    BY <1>2, <1>3, <1>5, <1>6, <1>11, <1>12, <1>14 DEF Level, Tcbed, Rest, Ticks
  <1>20. /\ ep'.state = "ABORTING" /\ Peer' /\ Silent(e, ep')
         /\ ep'.side = e.side /\ ep'.hwtid = e.hwtid /\ (ep'.qp <=> e.qp)
         /\ (ep'.ulp <=> e.ulp) /\ (ep'.retry_v1 <=> e.retry_v1)
    BY <1>1, <1>3, <1>4, <1>6, <1>7, <1>12, <1>14 DEF Same, Steady, Silent, Peer
  <1> QED
    BY <1>14, <1>17, <1>18, <1>19, <1>20 DEF AwaitsTcb

-----------------------------------------------------------------------------
(* The inductive invariant.                                                *)

(* What is left for a thread to do, it has a reference for; or the         *)
(* connection itself has one that nobody else drops.                       *)
Bare(t) ==
  /\ t = "worker"
  /\ \/ thr[t].at = "handle" /\ thr[t].cpl.op \in Untid \cup {"GET_TCB_RPL"}
     \/ In(t, "tcb")

RestAt(t) ==
  /\ thr[t].at = "idle" => thr[t].held = 0 /\ thr[t].disc = 0
  /\ thr[t].disc > 0 => thr[t].held > 0
  /\ thr[t].rel => t = "worker" /\ thr[t].at = "end" /\ thr[t].disc = 0
  /\ thr[t].at \in {"handle", "timeout"} => t = "worker" /\ thr[t].disc = 0
  /\ thr[t].at = "handle" /\ thr[t].cpl.op \in Untid => thr[t].held = 0
  /\ ~In(t, "disc_failed")
  /\ thr[t].at \notin {"idle", "end"} /\ t # "user" => thr[t].held > 0 \/ Bare(t)
RestInv == \A t \in Threads : RestAt(t)

(* The QP has the endpoint while it is in use, and while a thread waits.   *)
QpInv ==
  /\ qp.ep <=> qp.state \in {"RTS", "CLOSING", "TERMINATE"}
  /\ \A t \in Threads : thr[t].at = "fw" => qmutex = t /\ qp.ep

(* The message that ends the opening of a connection is the first one, and *)
(* nothing else is under way before it.                                    *)
FirstOps == Untid \cup {"PASS_ESTABLISH"}
Firsts == {i \in 1..Len(rxq) : rxq[i].op \in FirstOps}
FirstQueued  == Firsts # {}
FirstHandled == Worker.at = "handle" /\ Worker.cpl.op \in FirstOps
Under == Opening \/ FirstQueued \/ FirstHandled

FirstInv ==
  /\ \A i, j \in Firsts : i = j
  /\ FirstQueued => ~Opening /\ ~FirstHandled
  /\ FirstHandled => ~Opening

Tcbs == {i \in 1..Len(rxq) : rxq[i].op = "GET_TCB_RPL"}
TcbHandled == Worker.at = "handle" /\ Worker.cpl.op = "GET_TCB_RPL"
TcbOut == hw.tcb > 0 \/ Tcbs # {} \/ TcbHandled

UnderInv ==
  /\ Under =>
       /\ ep.base /\ ep.state \in {"CONNECTING", "DEAD"} /\ ~Peer /\ ~ep.hold /\ ~TcbOut
       /\ ~Worker.rel /\ ~Busy("worker") /\ ~qp.ep
       /\ \A t \in Threads : thr[t].disc = 0
       /\ Active => ep.hwtid # "own"
       /\ ~Active => ~Started(ep)
  /\ ~Active /\ (Opening \/ FirstQueued) =>
       /\ Worker.at = "idle"
       /\ Opening => rxq = <<>>
       /\ FirstQueued => rxq[1].op \in FirstOps

(* The endpoint has its base reference as long as it has its identifier.   *)
OwnInv ==
  /\ ep.hwtid = "own" => ep.base
  /\ ep.retry_v1 => ep.hwtid # "own"
  /\ Worker.at = "handle" /\ Worker.cpl.op \notin Untid => ep.hwtid = "own"
  /\ Busy("worker") /\ Worker.then # "timeout" => ep.hwtid = "own"
  /\ Worker.rel => ep.base

(* A connect that is opened anew was not moved to RDMA mode before.        *)
LinkInv ==
  Active =>
    /\ thr["ulp"].at = "idle"
    /\ qp.ep \/ thr["user"].disc > 0 \/ Replying => ep.state \in Linked /\ ~Under

(* One TCB is read at a time, when the connection is given up; the peer's  *)
(* abort holds the endpoint while it waits for it.                         *)
TcbInv ==
  /\ \A i, j \in Tcbs : i = j
  /\ Tcbs # {} => hw.tcb = 0 /\ ~TcbHandled
  /\ TcbHandled => hw.tcb = 0
  /\ hw.tcb \in {0, 1} /\ ep.tcbs >= 0
  /\ TcbOut => /\ ep.state \in GivenUp /\ ep.tcbs > 0
               /\ ~In("worker", "tcb") /\ ~Accepting
               /\ Peer => ep.hold
  /\ In("worker", "tcb") => ep.hold
  /\ ep.hold => Peer
  /\ Peer => ep.state \in GivenUp /\ ~Accepting

(* Every ABORT_REQ has the reference of its interrupt. *)
Aborts1 == {i \in 1..Len(rxq) : rxq[i].op = "ABORT_REQ"}
AbortInHand == \/ Worker.at = "handle" /\ Worker.cpl.op = "ABORT_REQ"
               \/ In("worker", "peer_abort")
IntrInv == ep.intr >= Cardinality(Aborts1) + Bit(AbortInHand)

(* The consumer has had its last event when the endpoint is given up.      *)
PutOps == {"PUT_EP_SAFE", "PASS_PUT_EP_SAFE"}
PutQueued  == \E i \in 1..Len(rxq) : rxq[i].op \in PutOps
PutHandled == Worker.at = "handle" /\ Worker.cpl.op \in PutOps
GoneInv ==
  /\ PutQueued \/ PutHandled => ~ep.cm_id /\ ep.state = "DEAD"
  /\ ~Active /\ Under => ~ep.cm_id
  /\ Worker.rel \/ ~ep.base => ~ep.cm_id
  /\ ~Active /\ (Worker.rel \/ ~ep.base) => ep.state \in GivenUp
  /\ ~Active /\ ep.cm_id => Accepting \/ ep.state \in Linked
  /\ Active => ep.state \notin {"MPA_REQ_WAIT", "MPA_REQ_RCVD", "MPA_REP_SENT"}

RInv ==
  /\ ~fatal
  /\ RestInv /\ QpInv /\ TimerInv /\ FirstInv /\ UnderInv /\ OwnInv /\ LinkInv /\ TcbInv
  /\ IntrInv /\ RefsBalance
  /\ "alloc" \notin Faults => GoneInv

-----------------------------------------------------------------------------
(* Frames. *)

LEMMA QueueSame ==
  ASSUME rxq' = rxq
  PROVE  /\ Firsts' = Firsts /\ Tcbs' = Tcbs /\ Aborts1' = Aborts1
         /\ (FirstQueued' <=> FirstQueued) /\ (BreakQueued' <=> BreakQueued)
        /\ (PutQueued' <=> PutQueued)
  BY DEF Firsts, Tcbs, Aborts1, FirstQueued, BreakQueued, PutQueued

LEMMA RestKept ==
  ASSUME RestInv, NEW t \in Threads, Others(t), RestAt(t)'
  PROVE  RestInv'
  <1> SUFFICES ASSUME NEW s \in Threads, s # t
               PROVE  RestAt(s)'
    BY DEF RestInv
  <1>1. thr'[s] = thr[s] /\ RestAt(s)
    BY DEF Others, RestInv
  <1> QED
    BY <1>1 DEF RestAt, In, Busy, Bare

LEMMA BalanceIs ==
  ASSUME TypeInv
  PROVE  /\ RefsBalance <=> Ledger(ep) = Bit(qp.ep) + Held
         /\ Ledger(ep) \in Int /\ Held \in Nat /\ Bit(qp.ep) \in 0..1
         /\ \A t \in Threads : thr[t].held \in Nat
  <1>1. \A t \in Threads : thr[t].held \in Nat
    BY DEF TypeInv, ThrRecords
  <1>2. Held \in Nat
    BY <1>1 DEF Held, Threads
  <1>3. Ledger(ep) \in Int /\ ep \in EpRecords
    BY LedgerIsInt DEF TypeInv
  <1>4. Bit(qp.ep) \in 0..1
    BY DEF Bit
  <1>5. RefsBalance <=> Ledger(ep) = Bit(qp.ep) + Held
    BY <1>2, <1>3, <1>4 DEF RefsBalance, Ledger, EpRecords, Bit
  <1> QED
    BY <1>1, <1>2, <1>3, <1>4, <1>5

(* The books of the one thread that took the step. *)
LEMMA BalanceKept ==
  ASSUME TypeInv, TypeInv', RefsBalance, NEW t \in Threads, Others(t),
         Ledger(ep') - thr'[t].held - Bit(qp'.ep) = Ledger(ep) - thr[t].held - Bit(qp.ep)
  PROVE  RefsBalance'
  <1>1. Ledger(ep) = Bit(qp.ep) + Held
    BY BalanceIs
  <1>2. /\ Ledger(ep) \in Int /\ Held \in Nat /\ Bit(qp.ep) \in 0..1
        /\ \A s \in Threads : thr[s].held \in Nat
    BY BalanceIs
  <1>3. /\ ep' \in EpRecords /\ Ledger(ep') \in Int /\ Bit(qp'.ep) \in 0..1
        /\ \A s \in Threads : thr'[s].held \in Nat
    BY LedgerIsInt DEF TypeInv, ThrRecords, Bit
  <1>4. Held' \in Nat /\ Held' - thr'[t].held = Held - thr[t].held
    BY <1>2, <1>3 DEF Held, Others, Threads
  <1>5. Ledger(ep') = Bit(qp'.ep) + Held'
    BY <1>1, <1>2, <1>3, <1>4
  <1>6. ep'.kref \in Int /\ ep'.tcbs \in Int /\ ep'.intr \in Int /\ Held' \in Int
    BY <1>3, <1>4 DEF EpRecords
  <1> QED
    BY <1>5, <1>6 DEF RefsBalance, Ledger, Bit

-----------------------------------------------------------------------------
(* A step of the worker that keeps the identifier, and the queue pair.     *)

Waiting == {"MPA_REQ_WAIT", "MPA_REQ_RCVD", "MPA_REP_SENT"}

Plain ==
  /\ Ordinarily /\ UNCHANGED <<qp, qmutex, rxq, fatal, hw>>
  /\ ep' \in EpRecords /\ ep'.side = ep.side /\ ep'.hwtid = ep.hwtid
  /\ (ep'.retry_v1 <=> ep.retry_v1) /\ (Peer' <=> Peer)
  /\ ep'.ulp => ep.ulp \/ Started(ep')
  /\ ep'.cm_id => ep.cm_id
  /\ ep'.state \in Waiting => ep.state \in Waiting
  /\ Duties(ep, ep') /\ Ticks(ep, ep') /\ Square(ep, Worker.held, "worker")
  /\ Advances(ep.state, ep'.state)
  /\ Unborn => ep'.state = ep.state /\ Leaves("worker", 0, FALSE, Worker.held)
  /\ \/ \E disc \in 0..2, rel \in BOOLEAN :
           /\ Leaves("worker", disc, rel, Worker.held)
           /\ rel => disc = 0 /\ ~ep'.cm_id /\ ep'.state \in GivenUp /\ ~OfTimeout
     \/ /\ \E to \in QpStates, then \in Thens \ {"tcb", "disc_failed", "peer_abort"} :
              /\ Calls("worker", to, then)
              /\ then = "timeout" <=> OfTimeout
              /\ then = "mpa_reply" => ep'.state = "FPDU_MODE"
              /\ then = "mismatch" => In("worker", "mpa_reply")
        /\ thr'["worker"].rel = Worker.rel /\ thr'["worker"].cpl = Worker.cpl

LEMMA OrdinaryIsPlain ==
  ASSUME Ordinary
  PROVE  Plain
  <1>1. /\ UNCHANGED <<qp, qmutex, rxq, fatal, hw>>
        /\ ep' \in EpRecords /\ Steady(ep, ep')
    BY DEF Ordinary, HandlerStep, HandlerFrame
  <1>2. ep'.cm_id => ep.cm_id
    BY DEF Ordinary, HandlerStep, Rests, Moves1, Refuses, Connects, HearsEnd, Shuts, MovesQp,
           Same, Silent
  <1>3. ep'.state \in {ep.state, "CLOSING", "MORIBUND", "FPDU_MODE", "DEAD"}
    BY DEF Ordinary, HandlerStep, Rests, Moves1, Refuses, Connects, HearsEnd, Shuts, MovesQp,
           Same
  <1>4. ep'.state \in Waiting => ep.state \in Waiting
    BY <1>3 DEF Waiting
  <1> QED
    BY <1>1, <1>2, <1>4 DEF Ordinary, Plain, Steady, Peer

(* The worker has left its handler, or waits for the QP. *)
LEMMA PlainThread ==
  ASSUME RInv, Plain
  PROVE  /\ Others("worker") /\ thr'["worker"].at \in {"idle", "end", "modify"}
         /\ ~In("worker", "tcb")' /\ ~In("worker", "peer_abort")' /\ RestAt("worker")'
         /\ thr'["worker"].rel => ~ep'.cm_id /\ ep'.state \in GivenUp /\ ~OfTimeout
         /\ Worker.at \notin {"idle", "end"} /\ ~Worker.rel
  <1>1. /\ Worker.held > 0 /\ ~Worker.rel
        /\ Worker.disc > 0 => Worker.held > 0
    BY DEF RInv, RestInv, RestAt, Plain, Ordinarily, Bare, In, Busy, Worker, Threads
  <1>2. Worker.at \notin {"idle", "end"}
    BY DEF Plain, Ordinarily
  <1>3. CASE \E disc \in 0..2, rel \in BOOLEAN :
                /\ Leaves("worker", disc, rel, Worker.held)
                /\ rel => disc = 0 /\ ~ep'.cm_id /\ ep'.state \in GivenUp /\ ~OfTimeout
    BY <1>1, <1>2, <1>3 DEF Leaves, RestAt, In, Busy, Bare
  <1>4. CASE /\ \E to \in QpStates, then \in Thens \ {"tcb", "disc_failed", "peer_abort"} :
                   Calls("worker", to, then)
             /\ thr'["worker"].rel = Worker.rel
    BY <1>1, <1>2, <1>4 DEF Calls, RestAt, In, Busy, Bare, Worker
  <1> QED
    BY <1>3, <1>4 DEF Plain

LEMMA PlainUnder ==
  ASSUME RInv, Plain, Under'
  PROVE  /\ Under /\ Active /\ (Opening' \/ FirstQueued')
         /\ ep'.state = ep.state /\ Leaves("worker", 0, FALSE, Worker.held)
  <1>1. Opening \/ FirstQueued
    BY PlainThread, QueueSame DEF Plain, Under, FirstHandled, Opening, Worker
  <1>2. Under /\ Worker.at # "idle"
    BY <1>1, PlainThread DEF Under
  <1>3. Active
    BY <1>1, <1>2 DEF RInv, UnderInv
  <1>4. ep.state \in {"CONNECTING", "DEAD"} /\ ~Busy("worker") /\ ep.hwtid # "own"
    BY <1>2, <1>3 DEF RInv, UnderInv
  <1>5. ~BreakHandled
    BY <1>4 DEF RInv, OwnInv, BreakHandled, Untid
  <1> QED
    BY <1>1, <1>2, <1>3, <1>4, <1>5, PlainThread, QueueSame DEF Plain, Unborn, Opening

LEMMA PlainKeeps ==
  ASSUME TypeInv, TypeInv', EventInv, RInv, Plain
  PROVE  RInv'
  <1> USE PlainThread
  <1>1. ~fatal'
    BY DEF Plain, RInv
  <1>2. RestInv'
    BY RestKept DEF RInv, Threads
  <1>3. QpInv'
    BY DEF RInv, QpInv, Plain, Others, Threads
  <1>4. TimerInv'
    <2>1. CASE Started(ep)
      BY <2>1 DEF RInv, TimerInv, Plain, Ticks
    <2>2. CASE ~Started(ep)
      <3>1. Early /\ Unborn /\ ep'.state = ep.state /\ Leaves("worker", 0, FALSE, Worker.held)
        BY <2>2 DEF RInv, TimerInv, Early, Unborn, Plain, Busy
      <3>2. /\ ~Stops(ep') /\ (~ep'.ulp \/ Started(ep')) /\ ~ep'.listed /\ ~Peer'
            /\ ~qp'.ep /\ hw'.fw <= 0 /\ ~hw'.rdma /\ ~BreakQueued'
        BY <3>1, QueueSame DEF Early, Plain, Ticks, Duties
      <3>3. /\ ~BreakHandled' /\ Worker'.at # "timeout" /\ ~Busy("worker")'
            /\ thr'["ulp"].at = "idle" /\ \A t \in Threads : thr'[t].disc = 0
        BY <3>1 DEF Early, Leaves, Others, Threads, BreakHandled, Worker, Busy
      <3> QED
        BY <3>1, <3>2, <3>3 DEF RInv, TimerInv, Early, Plain, Ticks
    <2> QED
      BY <2>1, <2>2
  <1>5. FirstInv'
    BY QueueSame DEF RInv, FirstInv, Plain, FirstHandled, Opening, Worker
  <1>6. UnderInv'
    <2>1. ASSUME Under'
          PROVE  /\ ep'.base /\ ep'.state \in {"CONNECTING", "DEAD"} /\ ~Peer' /\ ~ep'.hold
                 /\ ~TcbOut' /\ ~Worker'.rel /\ ~Busy("worker")' /\ ~qp'.ep
                 /\ \A t \in Threads : thr'[t].disc = 0
                 /\ Active' /\ ep'.hwtid # "own"
      <3>1. /\ Under /\ Active /\ ep'.state = ep.state
            /\ Leaves("worker", 0, FALSE, Worker.held)
        BY <2>1, PlainUnder
      <3>2. /\ ep'.base /\ ep'.state \in {"CONNECTING", "DEAD"} /\ ~Peer' /\ ~ep'.hold
            /\ ~qp'.ep /\ Active' /\ ep'.hwtid # "own"
        BY <3>1 DEF RInv, UnderInv, Plain, Duties, Active
      <3>3. ~TcbOut'
        BY <3>1, QueueSame DEF RInv, UnderInv, Plain, TcbOut, TcbHandled, Worker
      <3>4. /\ ~Worker'.rel /\ ~Busy("worker")' /\ \A t \in Threads : thr'[t].disc = 0
        BY <3>1 DEF RInv, UnderInv, Leaves, Others, Threads, Worker, Busy
      <3> QED
        BY <3>2, <3>3, <3>4
    <2>2. ~Active' => ~Opening' /\ ~FirstQueued'
      BY PlainUnder DEF Under, Active, Plain
    <2> QED
      BY <2>1, <2>2 DEF UnderInv
  <1>7. OwnInv'
    <2>1. Ordinarily /\ ~OfTimeout => ep.hwtid = "own"
      BY DEF RInv, OwnInv, Ordinarily, OfTimeout, In, Busy, Worker
    <2>2. Busy("worker")' /\ Worker'.then # "timeout" => ~OfTimeout
      BY DEF Plain, Leaves, Calls, Worker, Busy
    <2> QED
      BY <2>1, <2>2 DEF RInv, OwnInv, Plain, Duties, Worker
  <1>8. LinkInv'
    <2> SUFFICES ASSUME Active
                 PROVE  /\ thr'["ulp"].at = "idle"
                        /\ qp'.ep \/ thr'["user"].disc > 0 \/ Replying'
                             => ep'.state \in Linked /\ ~Under'
      BY DEF LinkInv, Active, Plain
    <2>1. thr'["ulp"] = thr["ulp"] /\ thr'["user"] = thr["user"]
      BY DEF Others, Threads
    <2>2. ASSUME Replying'
          PROVE  ep'.state \in Linked
      BY <2>2 DEF RInv, LinkInv, Plain, Leaves, Calls, Replying, In, Busy, Advances, Linked
    <2>3. Under' => ~Replying'
      BY PlainUnder DEF Leaves, Replying, In, Busy
    <2>4. Under' => Under
      BY PlainUnder
    <2> QED
      BY <2>1, <2>2, <2>3, <2>4 DEF RInv, LinkInv, Plain, Advances
  <1>9. TcbInv'
    <2>1. TcbOut' => TcbOut
      BY QueueSame DEF Plain, TcbOut, TcbHandled, Worker
    <2>2. Accepting' <=> Accepting
      BY DEF Others, Accepting, In, Busy, Threads
    <2> QED
      BY <2>1, <2>2, QueueSame
         DEF RInv, TcbInv, Plain, TcbHandled, Worker, Advances, Duties
  <1>10. IntrInv'
    <2>1. ~AbortInHand /\ ~AbortInHand'
      BY DEF Plain, Ordinarily, AbortInHand, In, Busy, Worker
    <2> QED
      BY <2>1, QueueSame DEF RInv, IntrInv, Plain, Duties, Bit
  <1>11. RefsBalance'
    BY BalanceKept DEF RInv, Plain, Square, Worker, Threads
  <1>12. "alloc" \notin Faults => GoneInv'
    <2>1. Accepting' <=> Accepting
      BY DEF Others, Accepting, In, Busy, Threads
    <2>2. ep'.state \in Linked \/ ep.state \notin Linked
      BY DEF Plain, Advances
    <2>3. ~PutHandled' /\ (~Active => ~Under')
      BY PlainUnder DEF PutHandled, Worker
    <2>4. PutQueued' => PutQueued /\ Under'
      BY QueueSame DEF Plain, PutQueued, PutOps, Under, FirstQueued, Firsts, FirstOps, Untid
    <2>5. PutQueued' => ep'.state = ep.state
      BY <2>4, PlainUnder
    <2> QED
      BY <2>1, <2>2, <2>3, <2>4, <2>5 DEF RInv, GoneInv, Plain, Duties, Advances, Waiting, Worker, Active, GivenUp
  <1> QED
    BY <1>1, <1>2, <1>3, <1>4, <1>5, <1>6, <1>7, <1>8, <1>9, <1>10, <1>11, <1>12 DEF RInv

(* process_mpa_request: the reference of the ULP is taken with it.         *)
LEMMA GivenBooks ==
  ASSUME NEW e \in EpRecords, ~e.ulp
  PROVE  Level(e, [Get(e) EXCEPT !.ulp = TRUE])
  <1> DEFINE a == Get(e)
             f == [a EXCEPT !.ulp = TRUE]
  <1>1. /\ a \in EpRecords /\ a.kref = e.kref + 1 /\ a.tcbs = e.tcbs /\ a.intr = e.intr
        /\ a.base = e.base /\ a.timer = e.timer /\ a.listed = e.listed /\ a.ulp = e.ulp
        /\ a.hold = e.hold /\ a.flags = e.flags
    BY GetSame DEF EpRecords, Get
  <1> HIDE DEF a
  <1>2. /\ f.kref = a.kref /\ f.tcbs = a.tcbs /\ f.intr = a.intr /\ f.base = a.base
        /\ f.timer = a.timer /\ f.listed = a.listed /\ f.ulp = TRUE /\ f.hold = a.hold
        /\ f.flags = a.flags
    BY <1>1 DEF EpRecords
  <1> HIDE DEF f
  <1>3. Ledger(f) = Ledger(e)
    BY <1>1, <1>2 DEF Ledger, Bit, EpRecords
  <1>4. Level(e, f)
    BY <1>1, <1>2, <1>3 DEF Level, Duties, Ticks, Started, TimerOK, Expired, Stops
  <1> QED
    BY <1>4 DEF f, a

LEMMA MpaRequestPlain ==
  ASSUME TypeInv, EventInv, TimerInv, MpaRequest
  PROVE  Plain
  <1> DEFINE a == StopTimer(ep)
             e == SetState(ep, "MPA_REQ_RCVD")
             b == Get(e)
             c == [b EXCEPT !.ulp = TRUE]
             d == PutParent(c)
             f == PutParent(e)
  <1>1. /\ Worker.at = "handle" /\ Worker.cpl.op = "RX_DATA"
        /\ ep.state = "MPA_REQ_WAIT" /\ ep \in EpRecords
        /\ UNCHANGED <<qp, qmutex, rxq, hw, fatal>>
    BY DEF MpaRequest, Took, Handling, At, Worker, TypeInv
  <1>2. Ordinarily /\ ~Unborn /\ Started(ep) /\ TimerOK(ep)
    BY <1>1 DEF Ordinarily, Untid, Unborn, TimerInv, Early
  <1>3. ~ep.ulp
    BY <1>1 DEF EventInv, SideInv, PassiveInv
  <1>4. a \in EpRecords /\ Same(ep, a) /\ Level(ep, a)
    BY <1>1, <1>2, StopTimerSame, StopTimerBooks
  <1>5. /\ e \in EpRecords /\ e.state = "MPA_REQ_RCVD" /\ Steady(ep, e) /\ Silent(ep, e)
        /\ Level(ep, e)
    BY <1>1, StateFields, StateBooks DEF States, Connecting
  <1>6. \/ End(a, 2, FALSE) \/ End(d, 0, FALSE) \/ End(f, 2, FALSE) \/ End(e, 2, FALSE)
    BY DEF MpaRequest
  <1> HIDE DEF a, e
  <1>7. b \in EpRecords /\ Same(e, b) /\ Level(e, c)
    BY <1>3, <1>5, GetSame, GivenBooks DEF Steady
  <1> HIDE DEF b
  <1>8. /\ c \in EpRecords /\ c.ulp /\ Silent(b, c) /\ c.state = b.state
        /\ c.side = b.side /\ c.hwtid = b.hwtid
        /\ (c.qp <=> b.qp) /\ (c.retry_v1 <=> b.retry_v1) /\ (Peers(c) <=> Peers(b))
    BY <1>7, UlpFields
  <1> HIDE DEF c
  <1>9. d \in EpRecords /\ Same(c, d) /\ Level(c, d) /\ f \in EpRecords /\ Same(e, f) /\ Level(e, f)
    BY <1>5, <1>8, ParentSame, ParentBooks
  <1>10. Level(ep, d) /\ Level(ep, f)
    BY <1>5, <1>7, <1>9, LevelTransitive
  <1> HIDE DEF d, f
  <1>11. PICK x \in EpRecords, disc \in 0..2 :
            /\ End(x, disc, FALSE) /\ Level(ep, x) /\ x.state \in {"MPA_REQ_WAIT", "MPA_REQ_RCVD"}
            /\ x.side = ep.side /\ x.hwtid = ep.hwtid /\ Silent(ep, x)
            /\ (x.retry_v1 <=> ep.retry_v1) /\ (Peers(x) <=> Peers(ep))
    <2>1. CASE End(a, 2, FALSE)
      BY <1>1, <1>4, <2>1, DiscValues DEF Same, Steady, Silent
    <2>2. CASE End(d, 0, FALSE)
      <3>1. /\ d.state = "MPA_REQ_RCVD" /\ d.side = ep.side /\ d.hwtid = ep.hwtid /\ Silent(ep, d)
            /\ (d.retry_v1 <=> ep.retry_v1) /\ (Peers(d) <=> Peers(ep))
        BY <1>5, <1>7, <1>8, <1>9 DEF Same, Steady, Silent
      <3> QED
        BY <1>9, <1>10, <2>2, <3>1, DiscValues
    <2>3. CASE End(f, 2, FALSE)
      <3>1. /\ f.state = "MPA_REQ_RCVD" /\ f.side = ep.side /\ f.hwtid = ep.hwtid /\ Silent(ep, f)
            /\ (f.retry_v1 <=> ep.retry_v1) /\ (Peers(f) <=> Peers(ep))
        BY <1>5, <1>9 DEF Same, Steady, Silent
      <3> QED
        BY <1>9, <1>10, <2>3, <3>1, DiscValues
    <2>4. CASE End(e, 2, FALSE)
      BY <1>5, <2>4, DiscValues DEF Steady
    <2> QED
      BY <1>6, <2>1, <2>2, <2>3, <2>4
  <1>12. ep' \in EpRecords /\ Same(x, ep')
    BY <1>11, EndEffect
  <1>13. /\ Leaves("worker", disc, FALSE, Worker.held)
         /\ Duties(x, ep') /\ Ticks(x, ep') /\ Square(x, Worker.held, "worker")
    BY <1>11, LeaveBooks DEF End, Worker, Threads
  <1>14. Duties(ep, ep') /\ Ticks(ep, ep') /\ Square(ep, Worker.held, "worker")
    BY <1>11, <1>13 DEF Level, Duties, Ticks, Square
  <1>15. /\ ep'.side = ep.side /\ ep'.hwtid = ep.hwtid /\ Silent(ep, ep')
         /\ (ep'.retry_v1 <=> ep.retry_v1) /\ (Peer' <=> Peer)
         /\ ep'.state \in {"MPA_REQ_WAIT", "MPA_REQ_RCVD"}
    BY <1>11, <1>12 DEF Same, Steady, Silent, Peer
  <1>16. Advances(ep.state, ep'.state) /\ ep.state \in Waiting
    BY <1>1, <1>15 DEF Advances, GivenUp, Linked, Late, Waiting
  <1>17. Started(ep')
    BY <1>2, <1>14 DEF Ticks
  <1> QED
    BY <1>1, <1>2, <1>12, <1>13, <1>14, <1>15, <1>16, <1>17 DEF Plain, Silent

LEMMA PlainHandlerKeeps ==
  ASSUME TypeInv, TypeInv', EventInv, RInv, OrdinaryHandler \/ MpaRequest
  PROVE  RInv'
  <1>1. TimerInv /\ SideInv
    BY DEF RInv, EventInv
  <1>2. Plain
    BY <1>1, OrdinaryBooks, OrdinaryIsPlain, MpaRequestPlain
  <1> QED
    BY <1>2, PlainKeeps

-----------------------------------------------------------------------------
(* The worker leaves a handler; what is left of the invariant is about the *)
(* endpoint's own fields.                                                  *)

LEMMA AbortsCounted ==
  ASSUME TypeInv
  PROVE  IsFiniteSet(Aborts1) /\ Cardinality(Aborts1) \in Nat
  <1>1. Len(rxq) \in Nat
    BY DEF TypeInv
  <1>2. IsFiniteSet(1..Len(rxq)) /\ Aborts1 \subseteq 1..Len(rxq)
    BY <1>1, FS_Interval DEF Aborts1
  <1> QED
    BY <1>2, FS_Subset, FS_CardinalityType

(* The thread ends, and nothing of the queue pair or the queue changes.    *)
Ended(disc, rel, held) ==
  /\ UNCHANGED <<qp, qmutex, rxq, fatal>> /\ ep'.side = ep.side
  /\ Leaves("worker", disc, rel, held)
  /\ disc > 0 => held > 0
  /\ rel => disc = 0

LEMMA WorkerEnded ==
  ASSUME RInv, NEW disc \in 0..2, NEW rel \in BOOLEAN, NEW held, Ended(disc, rel, held),
         ~Opening, ~FirstQueued
  PROVE  /\ ~fatal' /\ RestInv' /\ QpInv' /\ FirstInv' /\ (Under' <=> Opening')
         /\ ~PutQueued' /\ ~PutHandled'
         /\ Worker'.at \in {"idle", "end"} /\ Worker'.disc = disc /\ (Worker'.rel <=> rel)
         /\ Others("worker") /\ (Accepting' <=> Accepting)
  <1>1. /\ Others("worker") /\ Worker'.at \in {"idle", "end"}
        /\ Worker'.disc = disc /\ (Worker'.rel <=> rel)
    BY DEF Ended, Leaves, Worker
  <1>2. RestAt("worker")'
    BY DEF Ended, Leaves, RestAt, In, Busy, Bare
  <1>3. RestInv'
    BY <1>1, <1>2, RestKept DEF RInv, Threads
  <1>4. QpInv' /\ ~fatal'
    BY <1>1 DEF RInv, QpInv, Ended, Others, Threads, Worker
  <1>5. ~FirstQueued' /\ Firsts' = {} /\ ~FirstHandled' /\ ~PutHandled'
    BY <1>1, QueueSame DEF Ended, FirstQueued, FirstHandled, PutHandled
  <1>6. FirstInv' /\ (Under' <=> Opening')
    BY <1>5 DEF FirstInv, FirstQueued, Under
  <1>7. ~PutQueued'
    BY <1>5 DEF PutQueued, PutOps, Firsts, FirstOps, Untid
  <1>8. Accepting' <=> Accepting
    BY <1>1 DEF Others, Accepting, In, Busy, Threads
  <1> QED
    BY <1>1, <1>3, <1>4, <1>5, <1>6, <1>7, <1>8

(* The timer goes on, or the connection has still hardly begun.            *)
LEMMA TimerKept ==
  ASSUME RInv, NEW disc \in 0..2, NEW rel \in BOOLEAN, NEW held, Ended(disc, rel, held),
         Ticks(ep, ep'),
         Early => /\ ep'.state \in {"CONNECTING", "DEAD"} /\ disc = 0 /\ ~ep'.ulp /\ ~ep'.listed
                  /\ ~Peer' /\ hw'.fw <= 0 /\ ~hw'.rdma
  PROVE  TimerInv'
  <1>1. CASE Started(ep)
    BY <1>1 DEF RInv, TimerInv, Ticks
  <1>2. CASE ~Started(ep)
    <2>1. Early /\ TimerOK(ep)
      BY <1>2 DEF RInv, TimerInv
    <2>2. /\ ep'.state \in {"CONNECTING", "DEAD"} /\ ~Stops(ep') /\ ~ep'.ulp /\ ~ep'.listed
          /\ ~Peer' /\ ~qp'.ep /\ hw'.fw <= 0 /\ ~hw'.rdma /\ ~BreakQueued'
      BY <2>1, QueueSame DEF Early, Ended, Ticks
    <2>3. /\ ~BreakHandled' /\ Worker'.at # "timeout" /\ ~Busy("worker")'
          /\ thr'["ulp"].at = "idle" /\ \A t \in Threads : thr'[t].disc = 0
      BY <2>1 DEF Early, Ended, Leaves, Others, Threads, BreakHandled, Worker, Busy
    <2>4. Early'
      BY <2>2, <2>3 DEF Early
    <2> QED
      BY <2>1, <2>4 DEF TimerInv, Ticks
  <1> QED
    BY <1>1, <1>2

(* No TCB is read. *)
LEMMA TcbKept ==
  ASSUME TcbInv, rxq' = rxq, hw'.tcb \in {hw.tcb, 0}, Others("worker"),
         Worker'.at \in {"idle", "end"} \/ (Worker'.at = "modify" /\ Worker'.then # "tcb"),
         ep'.tcbs = ep.tcbs, Peer' <=> Peer, ep'.hold <=> ep.hold,
         TcbOut \/ Peer => ep'.state \in GivenUp
  PROVE  TcbInv'
  <1>1. ~TcbHandled' /\ ~In("worker", "tcb")' /\ Tcbs' = Tcbs /\ (Accepting' <=> Accepting)
    BY QueueSame DEF TcbHandled, In, Busy, Worker, Accepting, Others, Threads
  <1>2. TcbOut' => TcbOut
    BY <1>1 DEF TcbInv, TcbOut
  <1> QED
    BY <1>1, <1>2 DEF TcbInv

(* The message the handler was at is out of hand. *)
LEMMA IntrKept ==
  ASSUME TypeInv, IntrInv, rxq' = rxq, ep'.intr \in Int,
         Worker'.at \in {"idle", "end"} \/ (Worker'.at = "modify" /\ Worker'.then # "peer_abort"),
         ep'.intr = ep.intr \/ (AbortInHand /\ ep'.intr = ep.intr - 1)
  PROVE  IntrInv'
  <1>1. ~AbortInHand' /\ Aborts1' = Aborts1
    BY QueueSame DEF AbortInHand, In, Busy, Worker
  <1>2. Cardinality(Aborts1) \in Nat /\ ep.intr \in Int
    BY AbortsCounted DEF TypeInv, EpRecords
  <1>3. ep'.intr >= Cardinality(Aborts1)
    BY <1>2 DEF IntrInv, Bit
  <1> QED
    BY <1>1, <1>2, <1>3 DEF IntrInv, Bit

(* Nothing is opened. *)
LEMMA NotUnder ==
  ASSUME RInv, NEW disc \in 0..2, NEW rel \in BOOLEAN, NEW held, Ended(disc, rel, held),
         ~Opening, ~FirstQueued, hw'.conn = hw.conn,
         \/ ep.state \in Linked => ep'.state \in Linked
         \/ ~qp.ep /\ \A t \in Threads : thr[t].disc = 0
  PROVE  ~Under' /\ UnderInv' /\ LinkInv'
  <1>1. ~Under' /\ ~Opening' /\ ~FirstQueued'
    BY WorkerEnded DEF Opening, Under
  <1>2. UnderInv'
    BY <1>1 DEF UnderInv
  <1>3. LinkInv'
    <2>1. thr'["ulp"] = thr["ulp"] /\ thr'["user"] = thr["user"] /\ ~Replying'
      BY WorkerEnded DEF Others, Threads, Replying, In, Busy, Worker
    <2> QED
      BY <1>1, <2>1 DEF RInv, LinkInv, Ended, Active, Threads
  <1> QED
    BY <1>1, <1>2, <1>3

(* The connection is opened anew. *)
Anew ==
  /\ Active /\ hw' = NewConn /\ ep'.base /\ ep'.state = "CONNECTING" /\ ep'.hwtid # "own"
  /\ ~ep'.hold /\ ~Peer' /\ ~TcbOut /\ ~qp.ep
  /\ thr["user"].disc = 0 /\ thr["ulp"].disc = 0

LEMMA UnderAnew ==
  ASSUME RInv, NEW disc \in 0..2, NEW held, Ended(disc, FALSE, held), disc = 0,
         ~Opening, ~FirstQueued, Anew
  PROVE  UnderInv' /\ LinkInv'
  <1>1. /\ Others("worker") /\ Worker'.at \in {"idle", "end"} /\ ~Worker'.rel
        /\ Worker'.disc = 0
    BY WorkerEnded
  <1>2. thr'["ulp"] = thr["ulp"] /\ thr'["user"] = thr["user"] /\ ~Replying' /\ ~Busy("worker")'
    BY <1>1 DEF Others, Threads, Replying, In, Busy, Worker
  <1>3. ~TcbOut'
    BY <1>1, QueueSame DEF Anew, Ended, TcbOut, TcbHandled, NewConn
  <1>4. \A t \in Threads : thr'[t].disc = 0
    BY <1>1, <1>2 DEF Threads, Worker, Anew
  <1>5. Active' /\ ~qp'.ep
    BY DEF Anew, Ended, Active
  <1>6. UnderInv'
    BY <1>1, <1>2, <1>3, <1>4, <1>5 DEF Anew, UnderInv
  <1>7. LinkInv'
    BY <1>2, <1>4, <1>5 DEF RInv, LinkInv, Threads, Anew
  <1> QED
    BY <1>6, <1>7

(* What each of them has to show of the endpoint. *)
Owned(rel) ==
  /\ ep'.hwtid = "own" \/ rel => ep'.base
  /\ ep'.retry_v1 => ep'.hwtid # "own"

ToldOff(rel) ==
  /\ rel \/ ~ep'.base => ~ep'.cm_id
  /\ ~Active /\ (rel \/ ~ep'.base) => ep'.state \in GivenUp
  /\ ~Active /\ ep'.cm_id => Accepting \/ ep'.state \in Linked
  /\ Active => ep'.state \notin Waiting
  /\ Under' /\ ~Active => ~ep'.cm_id

LEMMA EndKeeps ==
  ASSUME TypeInv, TypeInv', RInv, NEW disc \in 0..2, NEW rel \in BOOLEAN, NEW held,
         Ended(disc, rel, held), ~Opening, ~FirstQueued,
         TimerInv', UnderInv', LinkInv', TcbInv', IntrInv', Owned(rel),
         WorkerSquare(ep, Worker.held),
         "alloc" \notin Faults => ToldOff(rel)
  PROVE  RInv'
  <1>1. /\ ~fatal' /\ RestInv' /\ QpInv' /\ FirstInv' /\ ~PutQueued' /\ ~PutHandled'
        /\ Worker'.at \in {"idle", "end"} /\ (Worker'.rel <=> rel)
        /\ Others("worker") /\ (Accepting' <=> Accepting)
    BY WorkerEnded
  <1>2. OwnInv'
    BY <1>1 DEF OwnInv, Owned, Busy, Worker
  <1>3. RefsBalance'
    BY <1>1, BalanceKept DEF RInv, WorkerSquare, Square, Worker, Threads, Ended
  <1>4. "alloc" \notin Faults => GoneInv'
    BY <1>1 DEF ToldOff, GoneInv, Ended, Active, Waiting
  <1> QED
    BY <1>1, <1>2, <1>3, <1>4 DEF RInv

(* What is known while the first message is handled. *)
LEMMA FirstFacts ==
  ASSUME TypeInv, RInv, FirstHandled
  PROVE  /\ ~Opening /\ ~FirstQueued /\ ~AbortInHand /\ ~OfTimeout
         /\ ep.base /\ ep.state \in {"CONNECTING", "DEAD"} /\ ~Peer /\ ~ep.hold /\ ~TcbOut
         /\ ~qp.ep /\ ~Worker.rel /\ \A t \in Threads : thr[t].disc = 0
         /\ Worker.cpl.op \in Untid => Worker.held = 0
  <1>1. Under /\ Worker.at = "handle"
    BY DEF FirstHandled, Under
  <1>2. Worker.cpl.op # "ABORT_REQ"
    BY DEF FirstHandled, FirstOps, Untid
  <1> QED
    BY <1>1, <1>2
       DEF RInv, FirstInv, FirstHandled, UnderInv, RestInv, RestAt, AbortInHand, OfTimeout,
           In, Busy, Worker, Threads

LEMMA PutEpSafeKeepsRefs ==
  ASSUME TypeInv, TypeInv', EventInv, RInv, PutEpSafe
  PROVE  RInv'
  <1> DEFINE f == PutParent(ep)
  <1>1. /\ UNCHANGED <<qp, qmutex, rxq, hw, fatal>> /\ ep \in EpRecords
        /\ FirstHandled /\ PutHandled
    BY DEF PutEpSafe, Handling, At, Worker, TypeInv, FirstHandled, PutHandled, PutOps,
           FirstOps, Untid
  <1>2. f \in EpRecords /\ Same(ep, f) /\ Level(ep, f) /\ Same(ep, ep) /\ Level(ep, ep)
    BY <1>1, ParentSame, ParentBooks, SameReflexive, LevelReflexive
  <1>3. End(ep, 0, TRUE) \/ End(f, 0, TRUE)
    BY DEF PutEpSafe
  <1> HIDE DEF f
  <1>4. PICK e \in EpRecords : End(e, 0, TRUE) /\ Same(ep, e) /\ Level(ep, e)
    BY <1>1, <1>2, <1>3
  <1>5. /\ ep' \in EpRecords /\ Same(e, ep') /\ Leaves("worker", 0, TRUE, Worker.held)
        /\ Duties(e, ep') /\ Ticks(e, ep') /\ WorkerSquare(e, Worker.held)
    BY <1>4, EndEffect, LeaveBooks, DiscValues DEF End, Worker, Threads, WorkerSquare
  <1>6. /\ Same(ep, ep') /\ Duties(ep, ep') /\ Ticks(ep, ep') /\ WorkerSquare(ep, Worker.held)
    BY <1>4, <1>5 DEF Same, Steady, Silent, Level, Duties, Ticks, WorkerSquare, Square
  <1>16. ep'.side = ep.side
    BY <1>6 DEF Same, Steady
  <1>7. /\ Ended(0, TRUE, Worker.held) /\ ~Opening /\ ~FirstQueued
    <2>1. ~Opening /\ ~FirstQueued
      BY <1>1, FirstFacts
    <2>2. ~(0 > 0)
      OBVIOUS
    <2>3. Ended(0, TRUE, Worker.held)
      BY <1>1, <1>5, <1>16, <2>2, Zenon DEF Ended
    <2> QED
      BY <2>1, <2>3
  <1>8. /\ ep'.state = ep.state /\ (ep'.cm_id <=> ep.cm_id) /\ ep'.hwtid = ep.hwtid
        /\ (ep'.retry_v1 <=> ep.retry_v1) /\ (ep'.ulp <=> ep.ulp) /\ (Peer' <=> Peer)
        /\ (ep'.base <=> ep.base) /\ ep'.tcbs = ep.tcbs /\ ep'.intr = ep.intr
        /\ (ep'.hold <=> ep.hold) /\ (ep'.listed <=> ep.listed)
    BY <1>6 DEF Same, Steady, Silent, Duties, Peer
  <1>9. /\ Worker'.at \in {"idle", "end"} /\ Others("worker")
    BY <1>7, WorkerEnded, DiscValues
  <1>10. TimerInv'
    BY <1>1, <1>6, <1>7, <1>8, TimerKept, DiscValues DEF Early
  <1>11. UnderInv' /\ LinkInv'
    BY <1>1, <1>7, <1>8, NotUnder, DiscValues
  <1>12. TcbInv'
    BY <1>1, <1>8, <1>9, FirstFacts, TcbKept DEF RInv
  <1>13. IntrInv'
    BY <1>1, <1>5, <1>8, <1>9, IntrKept DEF RInv, EpRecords
  <1>14. Owned(TRUE)
    BY <1>1, <1>8, FirstFacts DEF RInv, OwnInv, Owned
  <1>15. "alloc" \notin Faults => ToldOff(TRUE)
    BY <1>1, <1>8 DEF RInv, GoneInv, ToldOff, GivenUp, Waiting
  <1> QED
    BY <1>6, <1>7, <1>10, <1>11, <1>12, <1>13, <1>14, <1>15, EndKeeps, DiscValues

(* act_establish and pass_establish *)
LEMMA OpenedKeeps ==
  ASSUME TypeInv, TypeInv', EventInv, RInv, FirstHandled, UNCHANGED <<qp, qmutex, rxq, fatal>>,
         hw'.conn = hw.conn, hw'.tcb = hw.tcb,
         NEW e \in EpRecords, Level(ep, e), Started(e), End(e, 0, FALSE),
         e.side = ep.side, e.retry_v1 => e.hwtid # "own", Peers(e) <=> Peers(ep),
         e.cm_id <=> ep.cm_id, Active => e.state \notin Waiting
  PROVE  RInv'
  <1>1. /\ ep' \in EpRecords /\ Same(e, ep') /\ Leaves("worker", 0, FALSE, Worker.held)
        /\ Duties(e, ep') /\ Ticks(e, ep') /\ WorkerSquare(e, Worker.held)
    BY EndEffect, LeaveBooks, DiscValues DEF End, Worker, Threads, WorkerSquare
  <1>2. /\ Duties(ep, ep') /\ Ticks(ep, ep') /\ WorkerSquare(ep, Worker.held) /\ Started(ep')
    BY <1>1 DEF Level, Duties, Ticks, WorkerSquare, Square
  <1>3. /\ ep'.side = ep.side /\ (ep'.cm_id <=> ep.cm_id) /\ ep'.state = e.state
        /\ (ep'.retry_v1 => ep'.hwtid # "own") /\ (Peer' <=> Peer)
        /\ (ep'.base <=> ep.base) /\ ep'.tcbs = ep.tcbs /\ ep'.intr = ep.intr
        /\ (ep'.hold <=> ep.hold)
    BY <1>1, <1>2 DEF Same, Steady, Silent, Duties, Peer
  <1>4. ~Opening /\ ~FirstQueued /\ ep.base /\ ~qp.ep /\ ~TcbOut /\ ~Peer
        /\ \A t \in Threads : thr[t].disc = 0
    BY FirstFacts
  <1>5. Ended(0, FALSE, Worker.held)
    <2>1. ~(0 > 0)
      OBVIOUS
    <2> QED
      BY <1>1, <1>3, <2>1, Zenon DEF Ended
  <1>6. /\ Worker'.at \in {"idle", "end"} /\ Others("worker")
    BY <1>4, <1>5, WorkerEnded, DiscValues
  <1>7. TimerInv'
    BY <1>2 DEF RInv, TimerInv, Ticks
  <1>8. ~Under' /\ UnderInv' /\ LinkInv'
    BY <1>4, <1>5, NotUnder, DiscValues
  <1>9. TcbInv'
    BY <1>3, <1>4, <1>6, TcbKept DEF RInv
  <1>10. IntrInv'
    BY <1>1, <1>3, <1>6, IntrKept DEF RInv, EpRecords
  <1>11. Owned(FALSE)
    BY <1>3, <1>4 DEF Owned
  <1>12. "alloc" \notin Faults => ToldOff(FALSE)
    <2>1. Under
      BY DEF Under
    <2> QED
      BY <1>3, <1>4, <1>8, <2>1 DEF RInv, GoneInv, ToldOff
  <1> QED
    BY <1>2, <1>4, <1>5, <1>7, <1>8, <1>9, <1>10, <1>11, <1>12, EndKeeps, DiscValues

LEMMA SendMpaReqBooks ==
  ASSUME NEW e \in EpRecords
  PROVE  Level(e, SendMpaReq(e)) /\ Started(SendMpaReq(e))
  <1> DEFINE a == [e EXCEPT !.mpa_skb = TRUE,
                            !.tried_v1 = @ \/ e.retry_v1 \/ MpaRev = 1, !.retry_v1 = FALSE]
             b == StartTimer(a)
             c == SetState(b, "MPA_REQ_SENT")
  <1>0. SendMpaReq(e) = c
    BY DEF SendMpaReq
  <1>1. a \in EpRecords /\ Alike(e, a)
    BY DEF EpRecords, Alike, Expired, Stops
  <1> HIDE DEF a
  <1>2. b \in EpRecords /\ Level(a, b) /\ Started(b)
    BY <1>1, StartTimerSame, StartTimerBooks
  <1> HIDE DEF b
  <1>3. Level(b, c)
    BY <1>2, StateBooks DEF States, Connecting
  <1> HIDE DEF c
  <1>4. Level(e, c)
    BY <1>1, <1>2, <1>3, AlikeIsLevel, LevelTransitive
  <1> QED
    BY <1>0, <1>2, <1>3, <1>4 DEF Level, Ticks

LEMMA TidBooks ==
  ASSUME NEW e \in EpRecords, NEW v \in {"none", "own", "stale", "erased"}
  PROVE  Level(e, With_hwtid(e, v))
  <1>1. Alike(e, With_hwtid(e, v))
    BY DEF EpRecords, With_hwtid, Alike, Expired, Stops
  <1> QED
    BY <1>1, AlikeIsLevel

LEMMA ActEstablishKeepsRefs ==
  ASSUME Faultless, TypeInv, TypeInv', EventInv, RInv, ActEstablish
  PROVE  RInv'
  <1> DEFINE a == With_hwtid(ep, "own")
             b == SendMpaReq(a)
  <1>1. FirstHandled /\ Active /\ ep \in EpRecords /\ UNCHANGED <<qp, qmutex, rxq, fatal>>
    <2>1. Worker.at = "handle" /\ Worker.cpl.op = "ACT_ESTABLISH"
      BY DEF ActEstablish, Handling, At, Worker
    <2> QED
      BY <2>1 DEF ActEstablish, FirstHandled, FirstOps, Untid, TypeInv, EventInv, SideInv,
                  Sided, ActOps
  <1>2. End(b, 0, FALSE) /\ hw' = SentMpa(hw)
    BY DEF ActEstablish, SendFails, Faultless, RInv, With_hwtid
  <1>3. /\ a \in EpRecords /\ Silent(ep, a) /\ a.side = ep.side
        /\ (Peers(a) <=> Peers(ep)) /\ Level(ep, a)
    BY <1>1, TidFields, TidBooks
  <1> HIDE DEF a
  <1>4. /\ b \in EpRecords /\ ~b.retry_v1 /\ Silent(a, b) /\ b.state = "MPA_REQ_SENT"
        /\ b.side = a.side /\ (Peers(b) <=> Peers(a))
    BY <1>3, SendMpaReqFields
  <1>5. Level(a, b) /\ Started(b)
    BY <1>3, SendMpaReqBooks
  <1> HIDE DEF b
  <1>6. Level(ep, b)
    BY <1>3, <1>5, LevelTransitive
  <1>7. hw'.conn = hw.conn /\ hw'.tcb = hw.tcb
    BY <1>2 DEF TypeInv, HwRecords, SentMpa
  <1>8. /\ b.side = ep.side /\ (Peers(b) <=> Peers(ep)) /\ (b.cm_id <=> ep.cm_id)
        /\ b.state \notin Waiting
    BY <1>3, <1>4 DEF Silent, Waiting
  <1> QED
    BY <1>1, <1>2, <1>4, <1>5, <1>6, <1>7, <1>8, OpenedKeeps

LEMMA PassEstablishKeepsRefs ==
  ASSUME Faultless, TypeInv, TypeInv', EventInv, RInv, PassEstablish
  PROVE  RInv'
  <1> DEFINE a == SetState(ep, "MPA_REQ_WAIT")
             b == StartTimer(a)
  <1>1. FirstHandled /\ ~Active /\ ep \in EpRecords /\ UNCHANGED <<qp, qmutex, rxq, hw, fatal>>
    <2>1. Worker.at = "handle" /\ Worker.cpl.op = "PASS_ESTABLISH"
      BY DEF PassEstablish, Handling, At, Worker
    <2> QED
      BY <2>1 DEF PassEstablish, FirstHandled, FirstOps, TypeInv, EventInv, SideInv, Sided
  <1>2. End(b, 0, FALSE)
    BY DEF PassEstablish, SendFails, Faultless, RInv
  <1>3. a \in EpRecords /\ Steady(ep, a) /\ Silent(ep, a) /\ Level(ep, a)
    BY <1>1, StateFields, StateBooks DEF States, Connecting
  <1> HIDE DEF a
  <1>4. b \in EpRecords /\ Same(a, b) /\ Level(a, b) /\ Started(b)
    BY <1>3, StartTimerSame, StartTimerBooks
  <1> HIDE DEF b
  <1>5. Level(ep, b)
    BY <1>3, <1>4, LevelTransitive
  <1>6. /\ b.side = ep.side /\ ~b.retry_v1 /\ (Peers(b) <=> Peers(ep)) /\ (b.cm_id <=> ep.cm_id)
    BY <1>1, <1>3, <1>4 DEF Same, Steady, Silent, EventInv, SideInv
  <1> QED
    BY <1>1, <1>2, <1>4, <1>5, <1>6, OpenedKeeps

(* act_open_rpl: the connect is tried again, or the base reference goes.   *)
LEMMA ShortIsSquare ==
  ASSUME NEW e \in EpRecords, e.base, NEW n \in Nat, Short(e, n)
  PROVE  WorkerSquare(e, n)
  <1>1. Ledger(e) \in Int
    BY LedgerIsInt
  <1>2. Ledger(ep') - thr'["worker"].held = Ledger(e) - n - 1 + 1
    BY DEF Short, Bit
  <1>3. Ledger(e) - n - 1 + 1 = Ledger(e) - n
    BY <1>1
  <1> QED
    BY <1>2, <1>3 DEF WorkerSquare, Square

LEMMA LevelSquare ==
  ASSUME NEW e, Level(ep, e), NEW n, WorkerSquare(e, n)
  PROVE  WorkerSquare(ep, n)
  BY DEF Level, WorkerSquare, Square

LEMMA OpenRplKeeps ==
  ASSUME TypeInv, TypeInv', EventInv, RInv, FirstHandled, Active, Worker.cpl.op \in Untid,
         UNCHANGED <<qp, qmutex, rxq, fatal>>, ep' \in EpRecords, ep'.side = ep.side,
         Leaves("worker", 0, FALSE, 0), WorkerSquare(ep, 0),
         Rest(ep, ep'), ep'.intr = ep.intr, ep'.ulp <=> ep.ulp, Peer' <=> Peer,
         ep'.hwtid # "own", ep'.state \in {"CONNECTING", "DEAD"},
         \/ (ep'.base <=> ep.base) /\ ep'.state = "CONNECTING" /\ hw' = NewConn
         \/ hw' = hw /\ ("alloc" \in Faults \/ ~ep'.cm_id)
  PROVE  RInv'
  <1>1. /\ ~Opening /\ ~FirstQueued /\ ep.base /\ ~qp.ep /\ ~TcbOut /\ ~Peer /\ ~ep.hold
        /\ (\A t \in Threads : thr[t].disc = 0) /\ Worker.held = 0
    BY FirstFacts
  <1>2. Ended(0, FALSE, Worker.held)
    <2>1. ~(0 > 0)
      OBVIOUS
    <2> QED
      BY <1>1, <2>1, Zenon DEF Ended
  <1>3. /\ Worker'.at \in {"idle", "end"} /\ Others("worker") /\ (Under' <=> Opening')
    BY <1>1, <1>2, WorkerEnded, DiscValues
  <1>4. Ticks(ep, ep') /\ (ep'.hold <=> ep.hold) /\ (ep'.listed <=> ep.listed) /\ ep'.tcbs = ep.tcbs
    BY DEF Rest
  <1>5. TimerInv'
    <2>1. Early => /\ ~ep'.ulp /\ ~ep'.listed /\ ~Peer' /\ hw'.fw <= 0 /\ ~hw'.rdma
      BY <1>4, NewConnFields DEF Early
    <2> QED
      BY <1>2, <1>4, <2>1, TimerKept, DiscValues
  <1>6. UnderInv' /\ LinkInv'
    <2>1. CASE hw' = hw
      BY <1>1, <1>2, <2>1, NotUnder, DiscValues
    <2>2. CASE (ep'.base <=> ep.base) /\ ep'.state = "CONNECTING" /\ hw' = NewConn
      <3>1. Anew
        BY <1>1, <1>4, <2>2 DEF Anew, Threads
      <3> QED
        BY <1>1, <1>2, <3>1, UnderAnew, DiscValues
    <2> QED
      BY <2>1, <2>2
  <1>7. TcbInv'
    BY <1>1, <1>3, <1>4, TcbKept DEF RInv, NewConn
  <1>8. IntrInv'
    BY <1>3, IntrKept DEF RInv, EpRecords
  <1>9. Owned(FALSE)
    BY DEF Owned
  <1>10. "alloc" \notin Faults => ToldOff(FALSE)
    BY <1>1 DEF ToldOff, GivenUp, Waiting
  <1> QED
    BY <1>1, <1>2, <1>5, <1>6, <1>7, <1>8, <1>9, <1>10, EndKeeps, DiscValues

LEMMA RetriesBooks ==
  ASSUME NEW e \in EpRecords, NEW v \in 0..ActOpenRetries
  PROVE  Level(e, With_retries(e, v))
  <1>1. Alike(e, With_retries(e, v))
    BY DEF EpRecords, With_retries, Alike, Expired, Stops
  <1> QED
    BY <1>1, AlikeIsLevel

LEMMA ActOpenRplKeepsRefs ==
  ASSUME TypeInv, TypeInv', EventInv, RInv, ActOpenRpl
  PROVE  RInv'
  <1>1. /\ FirstHandled /\ Active /\ ep \in EpRecords /\ UNCHANGED <<qp, qmutex, rxq, fatal>>
        /\ Worker.cpl.op \in Untid
    <2>1. Worker.at = "handle" /\ Worker.cpl.op = "ACT_OPEN_RPL"
      BY DEF ActOpenRpl, Handling, At, Worker
    <2> QED
      BY <2>1 DEF ActOpenRpl, FirstHandled, FirstOps, Untid, TypeInv, EventInv, SideInv,
                  Sided, ActOps
  <1>2. /\ ep.base /\ ep.hwtid # "own" /\ ep.state \in {"CONNECTING", "DEAD"} /\ Worker.held = 0
        /\ 0 \in Nat
    BY <1>1, FirstFacts DEF RInv, UnderInv, Under
  <1>3. CASE ep.retries < ActOpenRetries /\ Reconnect([ep EXCEPT !.retries = @ + 1], 0)
    <2> DEFINE e == With_retries(ep, ep.retries + 1)
    <2>1. ep.retries + 1 \in 0..ActOpenRetries
      BY <1>1, <1>3 DEF EpRecords, ActOpenRetries
    <2>2. e \in EpRecords /\ Same(ep, e) /\ Level(ep, e)
      BY <1>1, <2>1, RetriesSame, RetriesBooks
    <2>3. Reconnect(e, 0)
      BY <1>3 DEF With_retries
    <2> HIDE DEF e
    <2>4. Retried(e, 0)
      BY <1>2, <2>2, <2>3, ReconnectBooks
    <2>5. /\ ep' \in EpRecords /\ ep'.side = ep.side /\ Leaves("worker", 0, FALSE, 0)
          /\ Rest(ep, ep') /\ ep'.intr = ep.intr /\ (ep'.ulp <=> ep.ulp) /\ (Peer' <=> Peer)
          /\ ep'.hwtid # "own" /\ (e.base <=> ep.base) /\ e.state = ep.state
      BY <1>2, <2>2, <2>4
         DEF Retried, Kept, Same, Steady, Rest, Level, Duties, Ticks, Peer, Stale
    <2>6. WorkerSquare(e, 0)
      BY <1>2, <2>2, <2>4, <2>5, ShortIsSquare DEF Retried
    <2>7. WorkerSquare(ep, 0)
      BY <2>2, <2>6, LevelSquare
    <2>8. /\ ep'.state \in {"CONNECTING", "DEAD"}
          /\ \/ (ep'.base <=> ep.base) /\ ep'.state = "CONNECTING" /\ hw' = NewConn
             \/ hw' = hw /\ ("alloc" \in Faults \/ ~ep'.cm_id)
      BY <1>2, <2>4, <2>5 DEF Retried
    <2> QED
      BY <1>1, <2>5, <2>7, <2>8, OpenRplKeeps
  <1>4. CASE /\ Proceed("worker", Put([SetState(ConnectReply(ep, FALSE), "DEAD")
                                         EXCEPT !.base = FALSE]), 0, FALSE, 0)
             /\ UNCHANGED hw
    <2> DEFINE a == ConnectReply(ep, FALSE)
               e == SetState(a, "DEAD")
    <2>1. a \in EpRecords /\ Steady(ep, a) /\ ~a.cm_id /\ Level(ep, a)
      BY <1>1, RefuseFields, ReplyBooks
    <2> HIDE DEF a
    <2>2. /\ e \in EpRecords /\ e.state = "DEAD" /\ Steady(a, e) /\ Silent(a, e) /\ Level(a, e)
      BY <2>1, StateFields, StateBooks DEF States
    <2>3. Proceed("worker", Put([e EXCEPT !.base = FALSE]), 0, FALSE, 0)
      BY <1>4 DEF a
    <2> HIDE DEF e
    <2>4. Level(ep, e)
      BY <2>1, <2>2, LevelTransitive
    <2>5. /\ ep' \in EpRecords /\ Same(e, ep') /\ Leaves("worker", 0, FALSE, 0)
          /\ ep'.intr = e.intr /\ Rest(e, ep') /\ Short(e, 0)
      BY <1>2, <2>2, <2>3, QuitBooks
    <2>6. /\ ep'.side = ep.side /\ (ep'.ulp <=> ep.ulp) /\ (Peer' <=> Peer)
          /\ ep'.hwtid # "own" /\ ep'.state = "DEAD" /\ ~ep'.cm_id
      BY <1>2, <2>1, <2>2, <2>5 DEF Same, Steady, Silent, Peer
    <2>7. Rest(ep, ep') /\ ep'.intr = ep.intr /\ e.base
      BY <1>2, <2>4, <2>5 DEF Rest, Level, Duties, Ticks
    <2>8. WorkerSquare(ep, 0)
      BY <1>2, <2>2, <2>4, <2>5, <2>7, ShortIsSquare, LevelSquare
    <2> QED
      BY <1>1, <1>4, <2>5, <2>6, <2>7, <2>8, OpenRplKeeps
  <1> QED
    BY <1>3, <1>4 DEF ActOpenRpl

-----------------------------------------------------------------------------
(* The peer's abort. *)

LEMMA AbortFacts ==
  ASSUME TypeInv, RInv, AbortInHand
  PROVE  /\ ~Under /\ ~Opening /\ ~FirstQueued /\ ep.hwtid = "own" /\ ep.base /\ ~ep.retry_v1
         /\ Worker.held > 0 /\ Worker.held \in Nat
         /\ ~Worker.rel /\ Worker.at \notin {"idle", "end"}
  <1>1. Worker.at \notin {"idle", "end"} /\ ~Worker.rel
    BY DEF AbortInHand, In, Busy, RInv, RestInv, RestAt, Worker, Threads
  <1>2. ep.hwtid = "own"
    BY DEF RInv, OwnInv, AbortInHand, Untid, In, Worker
  <1>3. ep.base /\ ~ep.retry_v1
    BY <1>2 DEF RInv, OwnInv
  <1>4. ~FirstHandled
    BY DEF AbortInHand, FirstHandled, FirstOps, Untid, In, Busy, Worker
  <1>5. ~Under
    BY <1>1, <1>2, <1>4 DEF RInv, UnderInv, Under
  <1>6. Worker.held > 0
    BY DEF RInv, RestInv, RestAt, AbortInHand, Bare, Untid, In, Busy, Worker, Threads
  <1> QED
    BY <1>1, <1>2, <1>3, <1>5, <1>6, HeldIsNat DEF Under

LEMMA UnheededKeeps ==
  ASSUME TypeInv, TypeInv', RInv, AbortInHand, Unheeded, UNCHANGED <<qp, qmutex, rxq, fatal>>
  PROVE  RInv'
  <1>1. /\ ~Under /\ ~Opening /\ ~FirstQueued /\ ep.base /\ ~ep.retry_v1
    BY AbortFacts
  <1>2. /\ ep'.side = ep.side /\ ep'.hwtid = ep.hwtid /\ (ep'.retry_v1 <=> ep.retry_v1)
        /\ (ep'.ulp <=> ep.ulp) /\ (Peer' <=> Peer) /\ (ep'.cm_id <=> ep.cm_id)
        /\ ep'.state = ep.state
    BY DEF Unheeded, Same, Steady, Silent, Peer
  <1>3. /\ Ticks(ep, ep') /\ (ep'.hold <=> ep.hold) /\ (ep'.listed <=> ep.listed)
        /\ ep'.tcbs = ep.tcbs /\ (ep'.base <=> ep.base) /\ ep'.intr = ep.intr - 1 /\ hw' = hw
        /\ ep' \in EpRecords /\ WorkerSquare(ep, Worker.held)
    BY DEF Unheeded, Rest
  <1>4. Ended(0, FALSE, Worker.held + 1)
    <2>1. ~(0 > 0)
      OBVIOUS
    <2> QED
      BY <1>2, <2>1, Zenon DEF Ended, Unheeded
  <1>5. /\ Worker'.at \in {"idle", "end"} /\ Others("worker")
    BY <1>1, <1>4, WorkerEnded, DiscValues
  <1>6. TimerInv'
    <2>1. Early => /\ ~ep'.ulp /\ ~ep'.listed /\ ~Peer' /\ hw'.fw <= 0 /\ ~hw'.rdma
                   /\ ep'.state \in {"CONNECTING", "DEAD"}
      BY <1>2, <1>3 DEF Early
    <2> QED
      BY <1>3, <1>4, <2>1, TimerKept, DiscValues
  <1>7. ~Under' /\ UnderInv' /\ LinkInv'
    BY <1>1, <1>2, <1>3, <1>4, NotUnder, DiscValues
  <1>8. TcbInv'
    BY <1>2, <1>3, <1>5, TcbKept DEF RInv, TcbInv
  <1>9. IntrInv'
    BY <1>3, <1>5, IntrKept DEF RInv, EpRecords
  <1>10. Owned(FALSE)
    BY <1>1, <1>2, <1>3 DEF Owned
  <1>11. "alloc" \notin Faults => ToldOff(FALSE)
    BY <1>1, <1>2, <1>3, <1>7 DEF RInv, GoneInv, ToldOff, Waiting
  <1> QED
    BY <1>1, <1>3, <1>4, <1>6, <1>7, <1>8, <1>9, <1>10, <1>11, EndKeeps, DiscValues

(* The last part: released, or opened anew. *)
LEMMA AbortedKeeps ==
  ASSUME TypeInv, TypeInv', RInv, AbortInHand, UNCHANGED <<qp, qmutex, rxq, fatal>>,
         NEW e \in EpRecords, Level(ep, e), Aborted(e),
         e.side = ep.side, e.hwtid = ep.hwtid, e.ulp <=> ep.ulp, Peers(e) <=> Peers(ep),
         e.retry_v1 => Active /\ ep.state = "MPA_REQ_SENT",
         "alloc" \notin Faults /\ ~e.retry_v1 => ~e.cm_id
  PROVE  RInv'
  <1>1. /\ ~Under /\ ~Opening /\ ~FirstQueued /\ ep.base /\ ~ep.retry_v1 /\ ep.hwtid = "own"
        /\ Worker.held \in Nat
    BY AbortFacts
  <1>2. AbortBooks(e)
    BY AbortedBooks
  <1>3. /\ ep' \in EpRecords /\ ep'.side = ep.side /\ (ep'.ulp <=> ep.ulp) /\ (Peer' <=> Peer)
        /\ (ep'.retry_v1 <=> e.retry_v1)
    BY <1>2 DEF AbortBooks, Peer
  <1>4. /\ Ticks(ep, ep') /\ (ep'.hold <=> ep.hold) /\ (ep'.listed <=> ep.listed)
        /\ ep'.tcbs = ep.tcbs /\ ep'.intr = ep.intr - 1 /\ e.base
    BY <1>1, <1>2 DEF AbortBooks, Rest, Level, Duties, Ticks
  <1>5. CASE ~e.retry_v1
    <2>1. /\ hw' = hw /\ ep'.base /\ ep'.state = "DEAD" /\ (ep'.cm_id <=> e.cm_id)
          /\ Leaves("worker", 0, TRUE, Worker.held + 1) /\ WorkerSquare(e, Worker.held)
      BY <1>2, <1>4, <1>5 DEF AbortBooks
    <2>2. Ended(0, TRUE, Worker.held + 1)
      <3>1. ~(0 > 0)
        OBVIOUS
      <3> QED
        BY <1>3, <2>1, <3>1, Zenon DEF Ended
    <2>3. /\ Worker'.at \in {"idle", "end"} /\ Others("worker")
      BY <1>1, <2>2, WorkerEnded, DiscValues
    <2>4. TimerInv'
      <3>1. Early => /\ ~ep'.ulp /\ ~ep'.listed /\ ~Peer' /\ hw'.fw <= 0 /\ ~hw'.rdma
        BY <1>3, <1>4, <2>1 DEF Early
      <3> QED
        BY <1>4, <2>1, <2>2, <3>1, TimerKept, DiscValues
    <2>5. ~Under' /\ UnderInv' /\ LinkInv'
      <3>1. ep'.state \in Linked
        BY <2>1 DEF Linked, Late
      <3> QED
        BY <1>1, <2>1, <2>2, <3>1, NotUnder, DiscValues
    <2>6. TcbInv'
      BY <1>3, <1>4, <2>1, <2>3, TcbKept DEF RInv, GivenUp
    <2>7. IntrInv'
      BY <1>3, <1>4, <2>3, IntrKept DEF RInv, EpRecords
    <2>8. Owned(TRUE)
      BY <1>3, <1>5, <2>1 DEF Owned
    <2>9. "alloc" \notin Faults => ToldOff(TRUE)
      BY <1>5, <2>1 DEF ToldOff, GivenUp, Waiting
    <2>10. WorkerSquare(ep, Worker.held)
      BY <2>1, LevelSquare
    <2> QED
      BY <1>1, <2>2, <2>4, <2>5, <2>6, <2>7, <2>8, <2>9, <2>10, EndKeeps, DiscValues
  <1>6. CASE e.retry_v1
    <2>1. /\ ep'.hwtid # "own" /\ Leaves("worker", 0, FALSE, Worker.held + 1)
          /\ Active /\ ep.state = "MPA_REQ_SENT"
      BY <1>1, <1>2, <1>6 DEF AbortBooks, Stale
    <2>2. \/ /\ ep'.base /\ WorkerSquare(e, Worker.held)
             /\ ep'.state = "CONNECTING" /\ hw' = NewConn
          \/ /\ ~ep'.base /\ Short(e, Worker.held) /\ ep'.state = "DEAD" /\ hw' = hw
             /\ "alloc" \in Faults \/ ~ep'.cm_id
      BY <1>2, <1>4, <1>6 DEF AbortBooks
    <2>3. WorkerSquare(ep, Worker.held)
      BY <1>1, <1>4, <2>2, ShortIsSquare, LevelSquare
    <2>4. /\ ~TcbOut /\ ~Peer /\ ~ep.hold /\ ~Early /\ ~qp.ep
          /\ thr["user"].disc = 0 /\ thr["ulp"].disc = 0
      <3>1. ~TcbOut /\ ~Peer /\ ~ep.hold
        BY <2>1 DEF RInv, TcbInv, GivenUp
      <3>2. ~Early
        BY <2>1 DEF Early
      <3>3. /\ ~qp.ep /\ ~(thr["user"].disc > 0) /\ thr["ulp"].at = "idle"
        BY <2>1 DEF RInv, LinkInv, Linked, Late
      <3>4. thr["user"].disc \in 0..2 /\ thr["ulp"].disc = 0
        BY <3>3 DEF TypeInv, ThrRecords, RInv, RestInv, RestAt, Threads
      <3> QED
        BY <3>1, <3>2, <3>3, <3>4
    <2>5. Ended(0, FALSE, Worker.held + 1)
      <3>1. ~(0 > 0)
        OBVIOUS
      <3> QED
        BY <1>3, <2>1, <3>1, Zenon DEF Ended
    <2>6. /\ Worker'.at \in {"idle", "end"} /\ Others("worker") /\ (Under' <=> Opening')
      BY <1>1, <2>5, WorkerEnded, DiscValues
    <2>7. TimerInv'
      BY <1>4, <2>4, <2>5, TimerKept, DiscValues
    <2>8. UnderInv' /\ LinkInv'
      <3>1. CASE hw' = hw /\ ep'.state = "DEAD"
        <4>1. ep'.state \in Linked
          BY <3>1 DEF Linked, Late
        <4> QED
          BY <1>1, <2>5, <3>1, <4>1, NotUnder, DiscValues
      <3>2. CASE ep'.base /\ ep'.state = "CONNECTING" /\ hw' = NewConn
        <4>1. Anew
          BY <1>3, <1>4, <2>1, <2>4, <3>2 DEF Anew
        <4> QED
          BY <1>1, <2>5, <4>1, UnderAnew, DiscValues
      <3> QED
        BY <2>2, <3>1, <3>2
    <2>9. TcbInv'
      BY <1>3, <1>4, <2>2, <2>4, <2>6, TcbKept DEF RInv, NewConn
    <2>10. IntrInv'
      BY <1>3, <1>4, <2>6, IntrKept DEF RInv, EpRecords
    <2>11. Owned(FALSE)
      BY <2>1 DEF Owned
    <2>12. "alloc" \notin Faults => ToldOff(FALSE)
      BY <2>1, <2>2 DEF ToldOff, GivenUp, Waiting
    <2> QED
      BY <1>1, <2>3, <2>5, <2>7, <2>8, <2>9, <2>10, <2>11, <2>12, EndKeeps, DiscValues
  <1> QED
    BY <1>5, <1>6

(* The peer's abort waits for the TCB. *)
LEMMA AwaitsKeeps ==
  ASSUME TypeInv, TypeInv', EventInv, RInv, AbortInHand, UNCHANGED <<qp, qmutex, rxq, fatal>>,
         hw' = AskTcb(hw), mutex = "free", ep.state \in {"FPDU_MODE", "CLOSING", "MORIBUND"},
         NEW e \in EpRecords, Level(ep, e), Same(ep, e), AwaitsTcb(e)
  PROVE  RInv'
  <1>1. /\ ~Under /\ ~Opening /\ ~FirstQueued /\ ep.base /\ ~ep.retry_v1
        /\ Worker.held \in Nat
    BY AbortFacts
  <1>2. /\ ~TcbOut /\ ~ep.hold /\ ~Early /\ ep.state \in Linked \ Waiting
    BY DEF RInv, TcbInv, GivenUp, Early, Linked, Late, Waiting
  <1>3. Tcbs = {} /\ hw.tcb = 0 /\ ep.tcbs >= 0
    BY <1>2 DEF RInv, TcbInv, TcbOut
  <1>4. ~Accepting
    BY DEF EventInv, LockInv, Accepting, In, Busy, Locked, Threads
  <1>5. /\ ep' \in EpRecords /\ ep'.side = ep.side /\ (ep'.retry_v1 <=> ep.retry_v1)
        /\ Peer' /\ ep'.hold /\ (ep'.cm_id <=> ep.cm_id) /\ ep'.state = "ABORTING"
    BY DEF AwaitsTcb, Same, Steady, Silent
  <1>6. /\ Ticks(ep, ep') /\ (ep'.listed <=> ep.listed) /\ ep'.tcbs = ep.tcbs + 1
        /\ ep'.base /\ ep'.intr = ep.intr - 1 /\ WorkerSquare(e, Worker.held)
        /\ Leaves("worker", 0, FALSE, Worker.held + 1)
    BY <1>1, <1>2 DEF AwaitsTcb, Level, Duties, Ticks
  <1>7. Ended(0, FALSE, Worker.held + 1)
    <2>1. ~(0 > 0)
      OBVIOUS
    <2> QED
      BY <1>5, <1>6, <2>1, Zenon DEF Ended
  <1>8. /\ Worker'.at \in {"idle", "end"} /\ Others("worker") /\ (Accepting' <=> Accepting)
    BY <1>1, <1>7, WorkerEnded, DiscValues
  <1>9. TimerInv'
    BY <1>2, <1>6, <1>7, TimerKept, DiscValues
  <1>10. hw'.conn = hw.conn /\ hw'.tcb = 1
    BY <1>3 DEF AskTcb, TypeInv, HwRecords
  <1>11. ~Under' /\ UnderInv' /\ LinkInv'
    <2>1. ep'.state \in Linked
      BY <1>5 DEF Linked, Late
    <2> QED
      BY <1>1, <1>7, <1>10, <2>1, NotUnder, DiscValues
  <1>12. TcbInv'
    <2>1. Tcbs' = {} /\ ~TcbHandled' /\ ~In("worker", "tcb")'
      BY <1>3, <1>8, QueueSame DEF TcbHandled, In, Busy, Worker
    <2>2. ep'.tcbs > 0 /\ ep'.state \in GivenUp
      BY <1>3, <1>5, <1>6 DEF TypeInv, EpRecords, GivenUp
    <2>3. \A i, j \in Tcbs' : i = j
      BY <2>1
    <2>4. hw'.tcb \in {0, 1} /\ ep'.tcbs >= 0 /\ ~Accepting'
      BY <1>3, <1>4, <1>6, <1>8, <1>10 DEF TypeInv, EpRecords
    <2> QED
      BY <1>5, <2>1, <2>2, <2>3, <2>4, Zenon DEF TcbInv
  <1>13. IntrInv'
    BY <1>5, <1>6, <1>8, IntrKept DEF RInv, EpRecords
  <1>14. Owned(FALSE)
    BY <1>1, <1>5, <1>6 DEF Owned
  <1>15. "alloc" \notin Faults => ToldOff(FALSE)
    BY <1>5, <1>6, <1>11 DEF ToldOff, Linked, Late, Waiting
  <1>16. WorkerSquare(ep, Worker.held)
    BY <1>6, LevelSquare
  <1> QED
    BY <1>1, <1>7, <1>9, <1>11, <1>12, <1>13, <1>14, <1>15, <1>16, EndKeeps, DiscValues

(* The worker moves the QP to ERROR for a peer's abort, with the TCB or not. *)
LEMMA CalledKeeps ==
  ASSUME TypeInv, TypeInv', RInv, NEW e \in EpRecords, NEW then \in {"tcb", "peer_abort"},
         CallModify("worker", e, "ERROR", then), UNCHANGED <<qp, qmutex, rxq, hw, fatal>>,
         Worker.at = "handle", ep.hwtid = "own", ~Opening, ~FirstQueued,
         Same(ep, e), Ticks(ep, e), Ledger(e) = Ledger(ep), e.base <=> ep.base,
         e.listed <=> ep.listed, then = "tcb" \/ Worker.held > 0, ~Early,
         TcbInv', IntrInv'
  PROVE  RInv'
  <1>1. /\ "ERROR" \in QpStates /\ then \in Thens
    BY DEF QpStates, Thens
  <1>2. ep' = e /\ Calls("worker", "ERROR", then)
    BY <1>1, WorkerCalls
  <1>3. thr'["worker"].rel = Worker.rel /\ thr'["worker"].cpl = Worker.cpl
    BY <1>1, CallKeepsRel DEF Worker, Threads
  <1>4. /\ Others("worker") /\ Worker'.at = "modify" /\ Worker'.then = then
        /\ Worker'.disc = Worker.disc /\ Worker'.held = Worker.held
        /\ thr'["ulp"] = thr["ulp"] /\ thr'["user"] = thr["user"]
    BY <1>2 DEF Calls, Worker, Others, Threads
  <1>5. /\ Worker.disc = 0 /\ ~Worker.rel /\ "worker" \in Threads
    BY DEF RInv, RestInv, RestAt, Worker, Threads
  <1>6. /\ ep'.side = ep.side /\ ep'.hwtid = ep.hwtid /\ (ep'.retry_v1 <=> ep.retry_v1)
        /\ (ep'.cm_id <=> ep.cm_id) /\ ep'.state = ep.state
    BY <1>2 DEF Same, Steady, Silent
  <1>7. RestAt("worker")'
    BY <1>3, <1>4, <1>5 DEF RestAt, In, Busy, Bare, Worker
  <1>8. RestInv'
    BY <1>4, <1>5, <1>7, RestKept DEF RInv
  <1>9. QpInv' /\ ~fatal'
    BY <1>4 DEF RInv, QpInv, Threads, Worker
  <1>10. TimerInv'
    BY <1>2 DEF RInv, TimerInv, Ticks
  <1>11. ~Opening' /\ ~FirstQueued' /\ ~FirstHandled' /\ Firsts' = {} /\ ~PutQueued' /\ ~PutHandled'
    <2>1. ~Opening' /\ ~FirstQueued' /\ Firsts' = {}
      BY QueueSame DEF Opening, FirstQueued
    <2>2. ~PutQueued'
      BY <2>1 DEF PutQueued, PutOps, Firsts, FirstOps, Untid
    <2> QED
      BY <1>4, <2>1, <2>2 DEF FirstHandled, PutHandled
  <1>12. FirstInv' /\ UnderInv'
    BY <1>11 DEF FirstInv, UnderInv, Under
  <1>13. OwnInv'
    BY <1>2, <1>3, <1>4, <1>5, <1>6 DEF RInv, OwnInv, Worker
  <1>14. LinkInv'
    BY <1>4, <1>6, <1>11 DEF RInv, LinkInv, Under, Replying, In, Worker, Active
  <1>15. RefsBalance'
    BY <1>2, <1>4, <1>5, BalanceKept DEF RInv, Worker
  <1>16. "alloc" \notin Faults => GoneInv'
    <2>1. Accepting' <=> Accepting
      BY <1>4 DEF Accepting, In, Busy
    <2>2. ep'.base <=> ep.base
      BY <1>2
    <2> QED
      BY <1>3, <1>5, <1>6, <1>11, <2>1, <2>2 DEF RInv, GoneInv, Worker, Active, Under
  <1> QED
    BY <1>8, <1>9, <1>10, <1>12, <1>13, <1>14, <1>15, <1>16 DEF RInv

(* A connection that was not given to the consumer has no cm_id here.      *)
LEMMA NoneToTell ==
  ASSUME TypeInv, EventInv, RInv, Worker.at = "handle", ep.hwtid = "own", mutex = "free",
         ep.state \notin Linked \cup {"MPA_REQ_SENT"}, "alloc" \notin Faults
  PROVE  ~ep.cm_id
  <1>1. ~Accepting /\ ~Replying
    BY DEF EventInv, LockInv, Accepting, Replying, In, Busy, Locked, Threads, Worker
  <1>2. ep.state \in {"CONNECTING", "MPA_REQ_WAIT", "MPA_REQ_RCVD", "MPA_REP_SENT"}
    BY DEF TypeInv, EpRecords, States, Connecting, Linked, Late
  <1>3. CASE Active
    <2>1. ep.state = "CONNECTING"
      BY <1>2, <1>3 DEF RInv, GoneInv, Waiting
    <2>2. SUFFICES ASSUME ep.cm_id PROVE FALSE
      OBVIOUS
    <2>3. ep.told = "none"
      BY <1>3, <2>1, <2>2 DEF EventInv, ActiveInv
    <2>4. Fresh
      BY <1>1, <1>3, <2>2, <2>3 DEF EventInv, ActiveInv, Pending
    <2> QED
      BY <2>1, <2>4 DEF Fresh
  <1>4. CASE ~Active
    BY <1>1, <1>4 DEF RInv, GoneInv
  <1> QED
    BY <1>3, <1>4

(* The timer is stopped, once it was started. *)
LEMMA Stopped ==
  ASSUME TypeInv, TimerInv, ep.state \notin {"CONNECTING", "DEAD"}
  PROVE  StopTimer(ep) \in EpRecords /\ Same(ep, StopTimer(ep)) /\ Level(ep, StopTimer(ep))
  <1>1. ep \in EpRecords /\ Started(ep) /\ TimerOK(ep)
    BY DEF TypeInv, TimerInv, Early
  <1> QED
    BY <1>1, StopTimerSame, StopTimerBooks

LEMMA RetryBooks ==
  ASSUME NEW e \in EpRecords
  PROVE  Level(e, [e EXCEPT !.retry_v1 = TRUE])
  <1>1. Alike(e, [e EXCEPT !.retry_v1 = TRUE])
    BY DEF Alike, Expired, Stops, EpRecords
  <1> QED
    BY <1>1, AlikeIsLevel

(* peer_abort calls for the QP, and drops its references after the move.   *)
LEMMA AbortCallKeeps ==
  ASSUME TypeInv, TypeInv', RInv, NEW e \in EpRecords, Level(ep, e), Same(ep, e),
         CallModify("worker", e, "ERROR", "peer_abort"), UNCHANGED <<qp, qmutex, rxq, hw, fatal>>,
         Worker.at = "handle", Worker.cpl.op = "ABORT_REQ",
         ep.state \notin {"CONNECTING", "DEAD"}
  PROVE  RInv'
  <1>1. AbortInHand
    BY DEF AbortInHand
  <1>2. ~Opening /\ ~FirstQueued /\ ep.hwtid = "own" /\ Worker.held > 0
    BY <1>1, AbortFacts
  <1>3. "ERROR" \in QpStates /\ "peer_abort" \in Thens
    BY DEF QpStates, Thens
  <1>4. ep' = e /\ Calls("worker", "ERROR", "peer_abort")
    BY <1>3, WorkerCalls
  <1>5. Others("worker") /\ Worker'.at = "modify" /\ Worker'.then = "peer_abort"
    BY <1>4 DEF Calls, Worker
  <1>6. /\ ep'.tcbs = ep.tcbs /\ ep'.intr = ep.intr /\ (ep'.hold <=> ep.hold)
        /\ (Peer' <=> Peer) /\ ep'.state = ep.state
    BY <1>4 DEF Level, Duties, Same, Steady, Peer
  <1>7. TcbInv'
    BY <1>5, <1>6, TcbKept DEF RInv, TcbInv
  <1>8. IntrInv'
    <2>1. AbortInHand' /\ Aborts1' = Aborts1
      BY <1>5, QueueSame DEF AbortInHand, In, Busy, Worker
    <2> QED
      BY <1>1, <1>6, <2>1 DEF RInv, IntrInv
  <1>9. /\ Ticks(ep, e) /\ Ledger(e) = Ledger(ep) /\ (e.base <=> ep.base)
        /\ (e.listed <=> ep.listed) /\ ~Early
    BY DEF Level, Duties, Early
  <1> QED
    BY <1>2, <1>7, <1>8, <1>9, CalledKeeps

LEMMA PeerAbortRdmaKeepsRefs ==
  ASSUME TypeInv, TypeInv', EventInv, RInv, PeerAbortRdma, Worker.at = "handle",
         Worker.cpl.op = "ABORT_REQ", mutex = "free", UNCHANGED <<qp, qmutex, rxq, fatal>>
  PROVE  RInv'
  <1> DEFINE e == IF ep.state = "FPDU_MODE" THEN ep ELSE StopTimer(ep)
  <1>1. /\ ep \in EpRecords /\ ep.state \in {"FPDU_MODE", "CLOSING", "MORIBUND"} /\ AbortInHand
        /\ ~fatal /\ TimerInv
    BY DEF TypeInv, PeerAbortRdma, AbortInHand, RInv
  <1>2. e \in EpRecords /\ Same(ep, e) /\ Level(ep, e)
    BY <1>1, Stopped, SameReflexive, LevelReflexive
  <1>3. \/ /\ LET f == SetFlag(SetState(Get(e), "ABORTING"), "PEER_ABORT_IN_PROGRESS")
              IN  Proceed("worker", [ReadTcb(f) EXCEPT !.hold = TRUE, !.intr = @ - 1],
                          0, FALSE, Worker.held + 1)
           /\ hw' = AskTcb(hw)
        \/ CallModify("worker", e, "ERROR", "peer_abort") /\ UNCHANGED hw
        \/ Aborted(CloseUpcall(e))
    BY DEF PeerAbortRdma
  <1> HIDE DEF e
  <1>4. CASE /\ LET f == SetFlag(SetState(Get(e), "ABORTING"), "PEER_ABORT_IN_PROGRESS")
                IN  Proceed("worker", [ReadTcb(f) EXCEPT !.hold = TRUE, !.intr = @ - 1],
                            0, FALSE, Worker.held + 1)
             /\ hw' = AskTcb(hw)
    <2>1. AwaitsTcb(e)
      BY <1>1, <1>2, <1>4, AwaitsBooks
    <2> QED
      BY <1>1, <1>2, <1>4, <2>1, AwaitsKeeps
  <1>5. CASE CallModify("worker", e, "ERROR", "peer_abort") /\ UNCHANGED hw
    BY <1>1, <1>2, <1>5, AbortCallKeeps
  <1>6. CASE Aborted(CloseUpcall(e))
    <2>1. /\ CloseUpcall(e) \in EpRecords /\ Steady(e, CloseUpcall(e)) /\ ~CloseUpcall(e).cm_id
          /\ Level(e, CloseUpcall(e))
      BY <1>2, CloseFields, TellBooks
    <2>2. Level(ep, CloseUpcall(e))
      BY <1>2, <2>1, LevelTransitive
    <2>3. ~ep.retry_v1
      BY <1>1, AbortFacts
    <2>4. /\ CloseUpcall(e).side = ep.side /\ CloseUpcall(e).hwtid = ep.hwtid
          /\ (CloseUpcall(e).ulp <=> ep.ulp) /\ (Peers(CloseUpcall(e)) <=> Peers(ep))
          /\ ~CloseUpcall(e).retry_v1
      BY <1>2, <2>1, <2>3 DEF Same, Steady
    <2> QED
      BY <1>1, <1>6, <2>1, <2>2, <2>4, AbortedKeeps
  <1> QED
    BY <1>3, <1>4, <1>5, <1>6

LEMMA PeerAbortedKeepsRefs ==
  ASSUME TypeInv, TypeInv', EventInv, RInv, PeerAborted
  PROVE  RInv'
  <1> DEFINE d == CloseUpcall(ep)
  <1>1. /\ ep \in EpRecords /\ AbortInHand /\ Aborted(d) /\ UNCHANGED <<qp, qmutex, rxq, fatal>>
    BY DEF PeerAborted, After, At, AbortInHand, In, Busy, Worker, TypeInv
  <1>2. /\ d \in EpRecords /\ Steady(ep, d) /\ ~d.cm_id /\ Level(ep, d)
    BY <1>1, CloseFields, TellBooks
  <1> HIDE DEF d
  <1>3. ~d.retry_v1
    BY <1>1, <1>2, AbortFacts DEF Steady
  <1> QED
    BY <1>1, <1>2, <1>3, AbortedKeeps DEF Steady

LEMMA PeerAbortKeepsRefs ==
  ASSUME TypeInv, TypeInv', EventInv, RInv, PeerAbort
  PROVE  RInv'
  <1>1. /\ Worker.at = "handle" /\ Worker.cpl.op = "ABORT_REQ" /\ AbortInHand
        /\ ep \in EpRecords /\ UNCHANGED <<qp, qmutex, rxq, fatal>> /\ TimerInv
    BY DEF PeerAbort, Handling, At, AbortInHand, Worker, TypeInv, RInv
  <1>2. ~ep.retry_v1 /\ ep.hwtid = "own"
    BY <1>1, AbortFacts
  <1>3. CASE AbortUnheeded(ep)
    BY <1>1, <1>3, UnheededBooks, UnheededKeeps
  (* Refused, or released, as it is. *)
  <1>4. ASSUME NEW e \in EpRecords, Level(ep, e), Steady(ep, e), Aborted(e),
               "alloc" \notin Faults => ~e.cm_id
        PROVE  RInv'
    <2>1. ~e.retry_v1
      BY <1>2, <1>4 DEF Steady
    <2> QED
      BY <1>1, <1>4, <2>1, AbortedKeeps DEF Steady
  <1>5. ASSUME NEW e \in EpRecords, Level(ep, e), Same(ep, e), Aborted(e), mutex = "free",
               ep.state \in {"CONNECTING"} \cup Waiting
        PROVE  RInv'
    <2>1. ep.state \notin Linked \cup {"MPA_REQ_SENT"}
      BY <1>5 DEF Waiting, Linked, Late
    <2>2. "alloc" \notin Faults => ~e.cm_id
      BY <1>1, <1>2, <1>5, <2>1, NoneToTell DEF Same, Silent
    <2> QED
      BY <1>4, <1>5, <2>2 DEF Same
  <1>6. CASE mutex = "free" /\ ep.state = "CONNECTING" /\ Aborted(PutParent(ep))
    BY <1>1, <1>5, <1>6, ParentSame, ParentBooks
  <1>7. CASE mutex = "free" /\ ep.state = "MPA_REQ_WAIT" /\ Aborted(StopTimer(ep))
    BY <1>1, <1>5, <1>7, Stopped DEF Waiting
  <1>8. CASE mutex = "free" /\ ep.state \in {"MPA_REQ_RCVD", "MPA_REP_SENT"} /\ Aborted(ep)
    BY <1>1, <1>5, <1>8, SameReflexive, LevelReflexive DEF Waiting
  <1>9. CASE ep.state = "MPA_REQ_SENT" /\ Aborted(ConnectReply(StopTimer(ep), FALSE))
    <2> DEFINE s == StopTimer(ep)
               f == ConnectReply(s, FALSE)
    <2>1. s \in EpRecords /\ Same(ep, s) /\ Level(ep, s)
      BY <1>1, <1>9, Stopped
    <2> HIDE DEF s
    <2>2. f \in EpRecords /\ Steady(s, f) /\ ~f.cm_id /\ Level(s, f)
      BY <2>1, RefuseFields, ReplyBooks
    <2>3. Aborted(f)
      BY <1>9 DEF s
    <2> HIDE DEF f
    <2>4. Level(ep, f)
      BY <2>1, <2>2, LevelTransitive
    <2>5. Steady(ep, f)
      BY <2>1, <2>2 DEF Same, Steady
    <2> QED
      BY <1>4, <2>2, <2>3, <2>4, <2>5
  <1>10. CASE ep.state = "MPA_REQ_SENT" /\ Aborted([StopTimer(ep) EXCEPT !.retry_v1 = TRUE])
    <2> DEFINE s == StopTimer(ep)
               f == [s EXCEPT !.retry_v1 = TRUE]
    <2>1. s \in EpRecords /\ Same(ep, s) /\ Level(ep, s)
      BY <1>1, <1>10, Stopped
    <2> HIDE DEF s
    <2>2. /\ f \in EpRecords /\ f.retry_v1 /\ f.side = s.side /\ f.hwtid = s.hwtid
          /\ (f.ulp <=> s.ulp) /\ (Peers(f) <=> Peers(s))
      BY <2>1, RetryFields
    <2>3. Level(s, f)
      BY <2>1, RetryBooks
    <2>4. Aborted(f)
      BY <1>10 DEF s
    <2> HIDE DEF f
    <2>5. Level(ep, f)
      BY <2>1, <2>3, LevelTransitive
    <2>6. /\ f.side = ep.side /\ f.hwtid = ep.hwtid
          /\ (f.ulp <=> ep.ulp) /\ (Peers(f) <=> Peers(ep))
      BY <2>1, <2>2 DEF Same, Steady
    <2>7. Active
      BY <1>10 DEF EventInv, SideInv
    <2> QED
      BY <1>1, <1>10, <2>2, <2>4, <2>5, <2>6, <2>7, AbortedKeeps
  <1>11. CASE mutex = "free" /\ PeerAbortRdma
    BY <1>1, <1>11, PeerAbortRdmaKeepsRefs
  <1> QED
    BY <1>3, <1>6, <1>7, <1>8, <1>9, <1>10, <1>11 DEF PeerAbort

-----------------------------------------------------------------------------
(* read_tcb_rpl *)
LEMMA TcbFacts ==
  ASSUME TypeInv, RInv, TcbHandled
  PROVE  /\ ~Under /\ ~Opening /\ ~FirstQueued /\ ~AbortInHand /\ ep.hwtid = "own" /\ ep.base
         /\ ~Accepting /\ ep.state \in GivenUp /\ ep.tcbs > 0 /\ (Peer => ep.hold)
         /\ hw.tcb = 0 /\ Tcbs = {} /\ Worker.at = "handle" /\ ~In("worker", "tcb")
  <1>1. TcbOut /\ Worker.at = "handle" /\ Worker.cpl.op = "GET_TCB_RPL"
    BY DEF TcbHandled, TcbOut
  <1>2. ~Under
    BY <1>1 DEF RInv, UnderInv
  <1>3. ep.hwtid = "own" /\ ep.base
    BY <1>1 DEF RInv, OwnInv, Untid
  <1>4. ~AbortInHand
    BY <1>1 DEF AbortInHand, In, Busy, Worker
  <1> QED
    BY <1>1, <1>2, <1>3, <1>4 DEF RInv, TcbInv, Under

(* It only puts the reference, and may ask again or send the abort.        *)
LEMMA TcbEndKeeps ==
  ASSUME TypeInv, TypeInv', RInv, TcbHandled, UNCHANGED <<qp, qmutex, rxq, fatal>>,
         NEW f \in EpRecords, End(f, 0, FALSE), Same(ep, f),
         f.base <=> ep.base, f.hold <=> ep.hold, f.listed <=> ep.listed, f.intr = ep.intr,
         Ticks(ep, f), Ledger(f) = Ledger(ep), f.tcbs >= 0,
         HwSame(hw, hw'), hw'.tcb = 0 \/ (hw'.tcb = 1 /\ f.tcbs > 0)
  PROVE  RInv'
  <1>1. /\ ~Under /\ ~Opening /\ ~FirstQueued /\ ep.base /\ ~Accepting /\ ep.state \in GivenUp
        /\ (Peer => ep.hold) /\ Tcbs = {} /\ ~In("worker", "tcb") /\ ep.hwtid = "own"
    BY TcbFacts
  <1>2. Proceed("worker", f, 0, FALSE, Worker.held)
    BY DEF End, Leave, Worker
  <1>3. /\ ep' \in EpRecords /\ Same(f, ep') /\ Leaves("worker", 0, FALSE, Worker.held)
        /\ Duties(f, ep') /\ Ticks(f, ep') /\ WorkerSquare(f, Worker.held)
    <2>1. Worker.held \in Nat
      BY HeldIsNat
    <2> QED
      BY <1>2, <2>1, WorkerProceeds, DiscValues
  <1>4. /\ ep'.side = ep.side /\ ep'.hwtid = ep.hwtid /\ (ep'.retry_v1 <=> ep.retry_v1)
        /\ (ep'.ulp <=> ep.ulp) /\ (Peer' <=> Peer) /\ (ep'.cm_id <=> ep.cm_id)
        /\ ep'.state = ep.state
    BY <1>3 DEF Same, Steady, Silent, Peer
  <1>5. /\ Ticks(ep, ep') /\ (ep'.base <=> ep.base) /\ (ep'.hold <=> ep.hold)
        /\ (ep'.listed <=> ep.listed) /\ ep'.intr = ep.intr /\ ep'.tcbs = f.tcbs
    BY <1>3 DEF Ticks, Duties
  <1>6. Ended(0, FALSE, Worker.held)
    <2>1. ~(0 > 0)
      OBVIOUS
    <2> QED
      BY <1>3, <1>4, <2>1, Zenon DEF Ended
  <1>7. /\ Worker'.at \in {"idle", "end"} /\ Others("worker") /\ (Accepting' <=> Accepting)
    BY <1>1, <1>6, WorkerEnded, DiscValues
  <1>8. TimerInv'
    <2>1. Early => /\ ep'.state \in {"CONNECTING", "DEAD"} /\ ~ep'.ulp /\ ~ep'.listed /\ ~Peer'
                   /\ hw'.fw <= 0 /\ ~hw'.rdma
      BY <1>4, <1>5 DEF Early, HwSame
    <2> QED
      BY <1>5, <1>6, <2>1, TimerKept, DiscValues
  <1>9. ~Under' /\ UnderInv' /\ LinkInv'
    BY <1>1, <1>4, <1>6, NotUnder, DiscValues DEF HwSame
  <1>10. TcbInv'
    <2>1. Tcbs' = {} /\ ~TcbHandled' /\ ~In("worker", "tcb")'
      BY <1>1, <1>7, QueueSame DEF TcbHandled, In, Busy, Worker
    <2>2. hw'.tcb \in {0, 1} /\ ep'.tcbs >= 0 /\ (hw'.tcb > 0 => ep'.tcbs > 0)
      BY <1>5
    <2>3. \A i, j \in Tcbs' : i = j
      BY <2>1
    <2>4. ep'.hold => Peer'
      BY <1>4, <1>5 DEF RInv, TcbInv
    <2>5. TcbOut' => hw'.tcb > 0
      BY <2>1 DEF TcbOut
    <2> QED
      BY <1>1, <1>4, <1>5, <1>7, <2>1, <2>2, <2>3, <2>4, <2>5, Zenon DEF TcbInv
  <1>11. IntrInv'
    BY <1>5, <1>7, IntrKept DEF RInv, TypeInv, EpRecords
  <1>12. Owned(FALSE)
    BY <1>1, <1>4, <1>5 DEF Owned, RInv, OwnInv
  <1>13. "alloc" \notin Faults => ToldOff(FALSE)
    <2>1. SUFFICES ASSUME "alloc" \notin Faults PROVE ToldOff(FALSE)
      OBVIOUS
    <2>2. GoneInv
      BY <2>1 DEF RInv
    <2>3. ep'.base /\ ~Under'
      BY <1>1, <1>5, <1>9
    <2>4. /\ ~Active /\ ep'.cm_id => Accepting \/ ep'.state \in Linked
          /\ Active => ep'.state \notin Waiting
      <3>1. (ep'.cm_id <=> ep.cm_id) /\ ep'.state = ep.state
        BY <1>4
      <3>2. /\ ~Active /\ ep.cm_id => Accepting \/ ep.state \in Linked
            /\ Active => ep.state \notin Waiting
        BY <2>2 DEF GoneInv, Waiting
      <3> QED
        BY <3>1, <3>2, Zenon
    <2> QED
      BY <2>3, <2>4, Zenon DEF ToldOff
  <1>14. WorkerSquare(ep, Worker.held)
    BY <1>3 DEF WorkerSquare, Square
  <1> QED
    BY <1>1, <1>6, <1>8, <1>9, <1>10, <1>11, <1>12, <1>13, <1>14, EndKeeps, DiscValues

(* The peer's abort is finished. *)
LEMMA FinishKeeps ==
  ASSUME TypeInv, TypeInv', RInv, TcbHandled \/ In("worker", "tcb"), ep.hold,
         UNCHANGED <<qp, qmutex, rxq, hw, fatal>>, NEW e \in EpRecords, Finishes(e), Same(ep, e),
         e.base <=> ep.base, e.hold <=> ep.hold, e.listed <=> ep.listed, e.intr = ep.intr,
         Ticks(ep, e), Ledger(e) = Ledger(ep), e.tcbs >= 0
  PROVE  RInv'
  <1>1. /\ ~Under /\ ~Opening /\ ~FirstQueued /\ ep.base /\ ep.hwtid = "own" /\ ~AbortInHand
    <2>1. CASE TcbHandled
      BY <2>1, TcbFacts
    <2>2. CASE In("worker", "tcb")
      <3>1. ~Under
        BY <2>2 DEF RInv, UnderInv, In
      <3>2. ep.hwtid = "own" /\ ep.base
        BY <2>2 DEF RInv, OwnInv, In, Worker
      <3>3. ~AbortInHand
        BY <2>2 DEF AbortInHand, In, Busy, Worker
      <3> QED
        BY <3>1, <3>2, <3>3 DEF Under
    <2> QED
      BY <2>1, <2>2
  <1>2. ~Accepting /\ ep.state \in GivenUp /\ hw.tcb = 0 /\ Tcbs = {} /\ Peer
    <2>1. Peer
      BY DEF RInv, TcbInv
    <2>2. hw.tcb = 0 /\ Tcbs = {}
      BY TcbFacts DEF RInv, TcbInv, TcbOut
    <2> QED
      BY <2>1, <2>2 DEF RInv, TcbInv
  <1>3. /\ ep'.side = ep.side /\ ep'.hwtid = ep.hwtid /\ (ep'.retry_v1 <=> ep.retry_v1)
        /\ (ep'.ulp <=> ep.ulp) /\ Peer' /\ ep'.state = ep.state
    BY <1>2 DEF Finishes, Same, Steady, Silent, Peer
  <1>4. /\ Ticks(ep, ep') /\ ep'.base /\ ~ep'.hold /\ ~ep'.cm_id
        /\ (ep'.listed <=> ep.listed) /\ ep'.intr = ep.intr /\ ep'.tcbs >= 0
        /\ Leaves("worker", 0, TRUE, Worker.held + 1) /\ WorkerSquare(e, Worker.held)
    BY <1>1 DEF Finishes, Ticks
  <1>5. Ended(0, TRUE, Worker.held + 1)
    <2>1. ~(0 > 0)
      OBVIOUS
    <2> QED
      BY <1>3, <1>4, <2>1, Zenon DEF Ended
  <1>6. /\ Worker'.at \in {"idle", "end"} /\ Others("worker") /\ (Accepting' <=> Accepting)
    BY <1>1, <1>5, WorkerEnded, DiscValues
  <1>7. TimerInv'
    <2>1. ~Early
      BY <1>2 DEF Early
    <2> QED
      BY <1>4, <1>5, <2>1, TimerKept, DiscValues
  <1>8. ~Under' /\ UnderInv' /\ LinkInv'
    BY <1>1, <1>3, <1>5, NotUnder, DiscValues
  <1>9. TcbInv'
    <2>1. Tcbs' = {} /\ ~TcbHandled' /\ ~In("worker", "tcb")' /\ hw'.tcb = 0
      BY <1>2, <1>6, QueueSame DEF TcbHandled, In, Busy, Worker
    <2>2. hw'.tcb \in {0, 1} /\ ~TcbOut'
      BY <2>1 DEF TcbOut
    <2>3. \A i, j \in Tcbs' : i = j
      BY <2>1
    <2> QED
      BY <1>2, <1>3, <1>4, <1>6, <2>1, <2>2, <2>3, Zenon DEF TcbInv
  <1>10. IntrInv'
    BY <1>4, <1>6, IntrKept DEF RInv, TypeInv, EpRecords
  <1>11. Owned(TRUE)
    BY <1>1, <1>3, <1>4 DEF Owned, RInv, OwnInv
  <1>12. "alloc" \notin Faults => ToldOff(TRUE)
    BY <1>2, <1>3, <1>4, <1>8 DEF ToldOff, GivenUp, Waiting
  <1>13. WorkerSquare(ep, Worker.held)
    BY <1>4 DEF WorkerSquare, Square
  <1> QED
    BY <1>1, <1>5, <1>7, <1>8, <1>9, <1>10, <1>11, <1>12, <1>13, EndKeeps, DiscValues

LEMMA TcbReadKeepsRefs ==
  ASSUME TypeInv, TypeInv', RInv, TcbRead
  PROVE  RInv'
  <1>1. /\ ep \in EpRecords /\ In("worker", "tcb") /\ FinishPeerAbort(ep)
        /\ UNCHANGED <<qp, qmutex, rxq, hw, fatal>>
    BY DEF TcbRead, After, At, In, Busy, Worker, TypeInv
  <1>2. ep.hold /\ ep.tcbs >= 0
    BY <1>1 DEF RInv, TcbInv
  <1>3. Finishes(ep) /\ Same(ep, ep) /\ Ticks(ep, ep)
    BY <1>1, FinishBooks, SameReflexive DEF Ticks
  <1> QED
    BY <1>1, <1>2, <1>3, FinishKeeps

LEMMA ReadTcbRplKeepsRefs ==
  ASSUME TypeInv, TypeInv', RInv, ReadTcbRpl
  PROVE  RInv'
  <1> DEFINE e == TcbBack(ep)
             g == ReadTcb(e)
             f == With_pdu_out(g, 1)
  <1>1. /\ ep \in EpRecords /\ TcbHandled /\ UNCHANGED <<qp, qmutex, rxq, fatal>> /\ ~fatal
        /\ hw \in HwRecords
    BY DEF ReadTcbRpl, Handling, At, TcbHandled, Worker, TypeInv, RInv
  <1>2. /\ ~Opening /\ ~FirstQueued /\ ~AbortInHand /\ ep.hwtid = "own"
        /\ ~Accepting /\ ep.state \in GivenUp /\ ep.tcbs > 0 /\ (Peer => ep.hold)
        /\ hw.tcb = 0 /\ Tcbs = {} /\ Worker.at = "handle"
    BY <1>1, TcbFacts
  <1>3. e \in EpRecords /\ Same(ep, e) /\ Tcbed(ep, e, -1)
    BY <1>1, TcbBackBooks
  <1>4. \/ End(f, 0, FALSE) /\ hw' = AskTcb(hw)
        \/ Peer /\ CallModify("worker", e, "ERROR", "tcb") /\ UNCHANGED hw
        \/ Peer /\ FinishPeerAbort(e) /\ UNCHANGED hw
        \/ End(e, 0, FALSE) /\ hw' \in {hw, AskAbort(hw)}
    BY DEF ReadTcbRpl, TcbBack, With_pdu_out, Peer, Peers
  <1> HIDE DEF e
  <1>5. /\ (e.base <=> ep.base) /\ (e.hold <=> ep.hold) /\ (e.listed <=> ep.listed)
        /\ e.intr = ep.intr /\ Ticks(ep, e) /\ Ledger(e) = Ledger(ep) /\ e.tcbs = ep.tcbs - 1
    BY <1>3 DEF Tcbed
  <1>6. e.tcbs >= 0
    BY <1>1, <1>2, <1>5 DEF EpRecords
  <1>7. CASE End(f, 0, FALSE) /\ hw' = AskTcb(hw)
    <2>1. g \in EpRecords /\ Same(e, g) /\ Tcbed(e, g, 1)
      BY <1>1, <1>3, ReadTcbSame, ReadTcbBooks
    <2> HIDE DEF g
    <2>2. f \in EpRecords /\ Same(g, f) /\ Level(g, f)
      BY <2>1, PduOutBooks
    <2> HIDE DEF f
    <2>3. Same(ep, f)
      BY <1>3, <2>1, <2>2 DEF Same, Steady, Silent
    <2>4. f.tcbs = ep.tcbs
      BY <1>1, <1>5, <2>1, <2>2 DEF Tcbed, Level, Duties, EpRecords
    <2>5. /\ (f.base <=> ep.base) /\ (f.hold <=> ep.hold) /\ (f.listed <=> ep.listed)
          /\ f.intr = ep.intr /\ Ticks(ep, f) /\ Ledger(f) = Ledger(ep)
      BY <1>5, <2>1, <2>2 DEF Tcbed, Level, Duties, Ticks
    <2>6. f.tcbs > 0 /\ f.tcbs >= 0
      BY <1>1, <1>2, <2>4 DEF EpRecords
    <2>7. HwSame(hw, hw') /\ hw'.tcb = 1
      BY <1>1, <1>2, <1>7, AskTcbSame DEF AskTcb, HwRecords
    <2> QED
      BY <1>1, <1>7, <2>2, <2>3, <2>5, <2>6, <2>7, TcbEndKeeps
  <1>8. CASE Peer /\ CallModify("worker", e, "ERROR", "tcb") /\ UNCHANGED hw
    <2>1. "ERROR" \in QpStates /\ "tcb" \in Thens
      BY DEF QpStates, Thens
    <2>2. ep' = e /\ Calls("worker", "ERROR", "tcb")
      BY <1>3, <1>8, <2>1, WorkerCalls
    <2>3. Others("worker") /\ Worker'.at = "modify" /\ Worker'.then = "tcb"
      BY <2>2 DEF Calls, Worker
    <2>4. /\ ep'.hold /\ Peer' /\ ep'.state \in GivenUp /\ ep'.tcbs >= 0 /\ ep'.intr = ep.intr
      BY <1>2, <1>3, <1>5, <1>6, <1>8, <2>2 DEF Same, Steady, Peer
    <2>5. TcbInv'
      <3>1. Tcbs' = {} /\ ~TcbHandled' /\ hw'.tcb = 0 /\ ~Accepting'
        BY <1>1, <1>2, <1>8, <2>3, QueueSame
           DEF TcbHandled, Worker, Accepting, In, Busy, Others, Threads
      <3>2. hw'.tcb \in {0, 1} /\ ~TcbOut'
        BY <3>1 DEF TcbOut
      <3>3. \A i, j \in Tcbs' : i = j
        BY <3>1
      <3> QED
        BY <2>4, <3>1, <3>2, <3>3, Zenon DEF TcbInv
    <2>6. IntrInv'
      BY <1>1, <2>3, <2>4, IntrKept DEF RInv, TypeInv, EpRecords
    <2>7. ~Early
      BY <1>8 DEF Early
    <2> QED
      BY <1>1, <1>2, <1>3, <1>5, <1>8, <2>5, <2>6, <2>7, CalledKeeps
  <1>9. CASE Peer /\ FinishPeerAbort(e) /\ UNCHANGED hw
    <2>1. Finishes(e)
      BY <1>3, <1>9, FinishBooks
    <2> QED
      BY <1>1, <1>2, <1>3, <1>5, <1>6, <1>9, <2>1, FinishKeeps
  <1>10. CASE End(e, 0, FALSE) /\ hw' \in {hw, AskAbort(hw)}
    <2>1. HwSame(hw, hw') /\ hw'.tcb = 0
      BY <1>1, <1>2, <1>10, AskAbortSame DEF AskAbort, HwRecords, HwSame
    <2> QED
      BY <1>1, <1>3, <1>5, <1>6, <1>10, <2>1, TcbEndKeeps
  <1> QED
    BY <1>4, <1>7, <1>8, <1>9, <1>10

-----------------------------------------------------------------------------
(* process_work takes what is listed or queued. *)
LEMMA TimeoutTaken ==
  ASSUME TypeInv, thr' = [thr EXCEPT !["worker"].at = "timeout", !["worker"].held = 1]
  PROVE  /\ Others("worker") /\ Worker'.at = "timeout" /\ Worker'.held = 1
         /\ Worker'.disc = Worker.disc /\ Worker'.rel = Worker.rel
         /\ Worker'.cpl = Worker.cpl /\ Worker'.then = Worker.then
  <1>1. thr \in [Threads -> ThrRecords] /\ "worker" \in Threads
    BY DEF TypeInv, Threads
  <1>2. thr' = [thr EXCEPT !["worker"] = [thr["worker"] EXCEPT !.at = "timeout", !.held = 1]]
    BY <1>1
  <1>3. Others("worker")
    BY <1>1, <1>2 DEF Others
  <1> QED
    BY <1>1, <1>2, <1>3 DEF Worker, ThrRecords

LEMMA CplTaken ==
  ASSUME TypeInv, NEW c, NEW held,
         thr' = [thr EXCEPT !["worker"].at = "handle", !["worker"].cpl = c,
                            !["worker"].held = held]
  PROVE  /\ Others("worker") /\ Worker'.at = "handle" /\ Worker'.held = held /\ Worker'.cpl = c
         /\ Worker'.disc = Worker.disc /\ Worker'.rel = Worker.rel
  <1>1. thr \in [Threads -> ThrRecords] /\ "worker" \in Threads
    BY DEF TypeInv, Threads
  <1>2. thr' = [thr EXCEPT !["worker"] =
                    [thr["worker"] EXCEPT !.at = "handle", !.cpl = c, !.held = held]]
    BY <1>1
  <1>3. Others("worker")
    BY <1>1, <1>2 DEF Others
  <1> QED
    BY <1>1, <1>2, <1>3 DEF Worker, ThrRecords

LEMMA UntidTaken ==
  ASSUME TypeInv, NEW c,
         thr' = [thr EXCEPT !["worker"].at = "handle", !["worker"].cpl = c]
  PROVE  /\ Others("worker") /\ Worker'.at = "handle" /\ Worker'.held = Worker.held
         /\ Worker'.cpl = c /\ Worker'.disc = Worker.disc /\ Worker'.rel = Worker.rel
  <1>1. thr \in [Threads -> ThrRecords] /\ "worker" \in Threads
    BY DEF TypeInv, Threads
  <1>2. thr' = [thr EXCEPT !["worker"] = [thr["worker"] EXCEPT !.at = "handle", !.cpl = c]]
    BY <1>1
  <1>3. Others("worker")
    BY <1>1, <1>2 DEF Others
  <1> QED
    BY <1>1, <1>2, <1>3 DEF Worker, ThrRecords

(* Where the rest of the queue came from. *)
LEMMA QueueRest ==
  ASSUME TypeInv, rxq # <<>>, rxq' = Tail(rxq)
  PROVE  /\ Head(rxq) = rxq[1]
         /\ (\A i, j \in Firsts : i = j) =>
                /\ \A i, j \in Firsts' : i = j
                /\ Head(rxq).op \in FirstOps => ~FirstQueued'
         /\ (\A i, j \in Tcbs : i = j) =>
                /\ \A i, j \in Tcbs' : i = j
                /\ Head(rxq).op = "GET_TCB_RPL" => Tcbs' = {}
         /\ FirstQueued' \/ Head(rxq).op \in FirstOps => FirstQueued
         /\ Tcbs' # {} \/ Head(rxq).op = "GET_TCB_RPL" => Tcbs # {}
         /\ BreakQueued' \/ Head(rxq).op = "RDMA_TERMINATE" => BreakQueued
         /\ PutQueued' \/ Head(rxq).op \in PutOps => PutQueued
         /\ Cardinality(Aborts1') \in Nat /\ Cardinality(Aborts1') <= Cardinality(Aborts1)
         /\ Head(rxq).op = "ABORT_REQ" => Cardinality(Aborts1') + 1 <= Cardinality(Aborts1)
  <1>1. /\ rxq \in Seq(Cpls) /\ rxq' \in Seq(Cpls) /\ Len(rxq) \in Nat /\ Len(rxq) > 0
        /\ Len(rxq') = Len(rxq) - 1
        /\ Head(rxq) = rxq[1]
        /\ \A i \in 1..Len(rxq') : i + 1 \in 1..Len(rxq) /\ rxq'[i] = rxq[i + 1]
    BY DEF TypeInv
  <1>2. Len(rxq') \in Nat
    BY <1>1
  <1>3. /\ \A i \in Firsts' : i \in Nat /\ i > 0 /\ i + 1 \in Firsts
        /\ Head(rxq).op \in FirstOps => 1 \in Firsts
    BY <1>1 DEF Firsts
  <1>4. /\ \A i \in Tcbs' : i \in Nat /\ i > 0 /\ i + 1 \in Tcbs
        /\ Head(rxq).op = "GET_TCB_RPL" => 1 \in Tcbs
    BY <1>1 DEF Tcbs
  <1>5. /\ \A i \in Aborts1' : i \in Nat /\ i > 0 /\ i + 1 \in Aborts1
        /\ Head(rxq).op = "ABORT_REQ" => 1 \in Aborts1
    BY <1>1 DEF Aborts1
  <1>6. (\A i, j \in Firsts : i = j) =>
            /\ \A i, j \in Firsts' : i = j
            /\ Head(rxq).op \in FirstOps => ~FirstQueued'
    <2> SUFFICES ASSUME \A i, j \in Firsts : i = j
                 PROVE  /\ \A i, j \in Firsts' : i = j
                        /\ Head(rxq).op \in FirstOps => ~FirstQueued'
      OBVIOUS
    <2>1. \A i, j \in Firsts' : i = j
      <3> TAKE i, j \in Firsts'
      <3>1. i + 1 = j + 1 /\ i \in Nat /\ j \in Nat
        BY <1>3
      <3> QED
        BY <3>1
    <2>2. ASSUME Head(rxq).op \in FirstOps, NEW i \in Firsts' PROVE FALSE
      <3>1. i + 1 = 1 /\ i \in Nat /\ i > 0
        BY <1>3, <2>2
      <3> QED
        BY <3>1
    <2> QED
      BY <2>1, <2>2 DEF FirstQueued
  <1>7. (\A i, j \in Tcbs : i = j) =>
            /\ \A i, j \in Tcbs' : i = j
            /\ Head(rxq).op = "GET_TCB_RPL" => Tcbs' = {}
    <2> SUFFICES ASSUME \A i, j \in Tcbs : i = j
                 PROVE  /\ \A i, j \in Tcbs' : i = j
                        /\ Head(rxq).op = "GET_TCB_RPL" => Tcbs' = {}
      OBVIOUS
    <2>1. \A i, j \in Tcbs' : i = j
      <3> TAKE i, j \in Tcbs'
      <3>1. i + 1 = j + 1 /\ i \in Nat /\ j \in Nat
        BY <1>4
      <3> QED
        BY <3>1
    <2>2. ASSUME Head(rxq).op = "GET_TCB_RPL", NEW i \in Tcbs' PROVE FALSE
      <3>1. i + 1 = 1 /\ i \in Nat /\ i > 0
        BY <1>4, <2>2
      <3> QED
        BY <3>1
    <2> QED
      BY <2>1, <2>2
  <1>8. /\ FirstQueued' \/ Head(rxq).op \in FirstOps => FirstQueued
        /\ Tcbs' # {} \/ Head(rxq).op = "GET_TCB_RPL" => Tcbs # {}
    BY <1>3, <1>4 DEF FirstQueued
  <1>9. BreakQueued' \/ Head(rxq).op = "RDMA_TERMINATE" => BreakQueued
    BY <1>1 DEF BreakQueued
  <1>10. PutQueued' \/ Head(rxq).op \in PutOps => PutQueued
    BY <1>1 DEF PutQueued
  <1>11. IsFiniteSet(Aborts1) /\ Cardinality(Aborts1) \in Nat
    BY AbortsCounted
  <1> DEFINE f == [i \in Aborts1' |-> i + 1]
             T == Aborts1 \ {1}
  <1>12. f \in Injection(Aborts1', T)
    <2>1. \A i \in Aborts1' : f[i] \in T
      BY <1>5
    <2>2. f \in [Aborts1' -> T]
      BY <2>1
    <2>3. \A i, j \in Aborts1' : f[i] = f[j] => i = j
      BY <1>5
    <2> QED
      BY <2>2, <2>3, Fun_IsInj
  <1>13. /\ IsFiniteSet(T) /\ Cardinality(T) \in Nat /\ Cardinality(T) <= Cardinality(Aborts1)
         /\ 1 \in Aborts1 => Cardinality(T) = Cardinality(Aborts1) - 1
    <2>1. IsFiniteSet(T) /\ Cardinality(T) = IF 1 \in Aborts1 THEN Cardinality(Aborts1) - 1
                                                             ELSE Cardinality(Aborts1)
      BY <1>11, FS_RemoveElement
    <2>2. Cardinality(T) \in Nat
      BY <2>1, FS_CardinalityType
    <2> QED
      BY <1>11, <2>1, <2>2
  <1>14. /\ IsFiniteSet(Aborts1') /\ Cardinality(Aborts1') <= Cardinality(T)
    BY <1>12, <1>13, FS_Injection
  <1>15. Cardinality(Aborts1') \in Nat
    BY <1>14, FS_CardinalityType
  <1>16. /\ Cardinality(Aborts1') <= Cardinality(Aborts1)
         /\ Head(rxq).op = "ABORT_REQ" => Cardinality(Aborts1') + 1 <= Cardinality(Aborts1)
    <2> HIDE DEF T
    <2> QED
      BY <1>5, <1>11, <1>13, <1>14, <1>15
  <1> QED
    BY <1>1, <1>6, <1>7, <1>8, <1>9, <1>10, <1>15, <1>16

LEMMA TakeTimeoutKeepsRefs ==
  ASSUME TypeInv, TypeInv', EventInv, RInv, TakeTimeout
  PROVE  RInv'
  <1>1. /\ Worker.at = "idle" /\ ep \in EpRecords /\ ep.listed
        /\ ep' = [ep EXCEPT !.listed = FALSE]
        /\ thr' = [thr EXCEPT !["worker"].at = "timeout", !["worker"].held = 1]
        /\ UNCHANGED <<qp, mutex, qmutex, rxq, hw, fatal>>
    BY DEF TakeTimeout, At, Worker, TypeInv
  <1>2. /\ Others("worker") /\ Worker'.at = "timeout" /\ Worker'.held = 1
        /\ Worker'.disc = Worker.disc /\ Worker'.rel = Worker.rel
        /\ Worker'.cpl = Worker.cpl /\ Worker'.then = Worker.then
    BY <1>1, TimeoutTaken
  <1>3. Worker.disc = 0 /\ ~Worker.rel /\ Worker.held = 0
    BY <1>1 DEF RInv, RestInv, RestAt, Worker, Threads
  <1>4. ep' \in EpRecords /\ Same(ep, ep') /\ ep' = With_listed(ep, FALSE)
    BY <1>1, ListedSame DEF With_listed
  <1>5. /\ (ep'.base <=> ep.base) /\ (ep'.hold <=> ep.hold) /\ ep'.tcbs = ep.tcbs
        /\ ep'.intr = ep.intr /\ (Started(ep') <=> Started(ep)) /\ (TimerOK(ep') <=> TimerOK(ep))
        /\ (Stops(ep') <=> Stops(ep)) /\ ep'.flags = ep.flags
    BY <1>1 DEF EpRecords, Started, TimerOK, Stops, Expired
  <1>6. /\ ep'.side = ep.side /\ ep'.hwtid = ep.hwtid /\ (ep'.retry_v1 <=> ep.retry_v1)
        /\ (ep'.ulp <=> ep.ulp) /\ (Peer' <=> Peer) /\ (ep'.cm_id <=> ep.cm_id)
        /\ ep'.state = ep.state
    BY <1>4 DEF Same, Steady, Silent, Peer
  <1>7. Ledger(ep') = Ledger(ep) + 1
    BY <1>1 DEF Ledger, Bit, EpRecords
  <1>8. /\ thr'["ulp"] = thr["ulp"] /\ thr'["user"] = thr["user"]
        /\ \A t \in Threads : thr'[t].disc = thr[t].disc
    BY <1>2 DEF Others, Threads, Worker
  <1>9. /\ ~Busy("worker")' /\ ~Busy("worker") /\ ~FirstHandled' /\ ~TcbHandled'
        /\ ~AbortInHand' /\ ~PutHandled' /\ ~BreakHandled' /\ ~Replying'
        /\ ~In("worker", "tcb")' /\ (Accepting' <=> Accepting)
    BY <1>1, <1>2, <1>8 DEF FirstHandled, TcbHandled, AbortInHand, PutHandled, BreakHandled,
                            Replying, Accepting, In, Busy, Worker
  <1>10. /\ Firsts' = Firsts /\ Tcbs' = Tcbs /\ Aborts1' = Aborts1
         /\ (FirstQueued' <=> FirstQueued) /\ (PutQueued' <=> PutQueued)
         /\ (Opening' <=> Opening) /\ (Active' <=> Active)
    BY <1>1, <1>6, QueueSame DEF Opening, Active
  <1>11. RestAt("worker")'
    BY <1>2, <1>3, <1>9 DEF RestAt, In, Worker
  <1>12. RestInv' /\ ~fatal'
    BY <1>1, <1>2, <1>11, RestKept DEF RInv, Threads
  <1>13. QpInv'
    BY <1>1, <1>2, <1>8 DEF RInv, QpInv, Threads, Worker
  <1>14. TimerInv' /\ Started(ep)
    BY <1>1, <1>5 DEF RInv, TimerInv, Early
  <1>15. FirstInv'
    BY <1>9, <1>10 DEF RInv, FirstInv
  <1>16. Under' => Under
    BY <1>9, <1>10 DEF Under
  <1>17. UnderInv'
    <2>1. SUFFICES ASSUME Under' PROVE UnderInv'
      BY DEF UnderInv, Under
    <2>2. Under /\ Active
      BY <1>14, <1>16, <2>1 DEF RInv, UnderInv
    <2>3. ~TcbOut'
      BY <1>1, <1>9, <1>10, <2>2 DEF RInv, UnderInv, TcbOut
    <2> QED
      BY <1>1, <1>2, <1>3, <1>5, <1>6, <1>8, <1>9, <1>10, <2>2, <2>3
         DEF RInv, UnderInv, Threads, Worker
  <1>18. OwnInv'
    BY <1>2, <1>3, <1>5, <1>6, <1>9 DEF RInv, OwnInv, Worker
  <1>19. LinkInv'
    BY <1>1, <1>6, <1>8, <1>9, <1>10, <1>16 DEF RInv, LinkInv
  <1>20. TcbInv'
    <2>1. TcbOut' => TcbOut
      BY <1>1, <1>9, <1>10 DEF TcbOut
    <2> QED
      BY <1>1, <1>5, <1>6, <1>9, <1>10, <2>1 DEF RInv, TcbInv
  <1>21. IntrInv'
    <2>1. Cardinality(Aborts1) \in Nat
      BY AbortsCounted
    <2> QED
      BY <1>1, <1>5, <1>9, <1>10, <2>1 DEF RInv, IntrInv, Bit, EpRecords
  <1>22. RefsBalance'
    BY <1>1, <1>2, <1>3, <1>7, BalanceKept, LedgerIsInt DEF RInv, Worker, Threads
  <1>23. "alloc" \notin Faults => GoneInv'
    BY <1>3, <1>2, <1>5, <1>6, <1>9, <1>10, <1>16 DEF RInv, GoneInv, Worker
  <1> QED
    BY <1>12, <1>13, <1>14, <1>15, <1>17, <1>18, <1>19, <1>20, <1>21, <1>22, <1>23 DEF RInv

(* A message in hand is out of the queue.  What it does to the endpoint:   *)
Takes(c) ==
  /\ UNCHANGED <<qp, mutex, qmutex, hw, fatal>> /\ rxq # <<>> /\ rxq' = Tail(rxq)
  /\ Worker.at = "idle" /\ ep' \in EpRecords /\ Same(ep, ep') /\ Duties(ep, ep')
  /\ (Started(ep') <=> Started(ep)) /\ (TimerOK(ep') <=> TimerOK(ep))
  /\ (Stops(ep') <=> Stops(ep)) /\ c = Head(rxq)
  /\ Others("worker")
  /\ \/ /\ Worker'.at = "handle" /\ Worker'.cpl = c
        /\ Worker'.disc = Worker.disc /\ Worker'.rel = Worker.rel
        /\ IF c.op \in Untid \cup {"GET_TCB_RPL"}
           THEN Worker'.held = 0 /\ Ledger(ep') = Ledger(ep)
           ELSE Worker'.held = 1 /\ Ledger(ep') = Ledger(ep) + 1
        /\ c.op \notin Untid => Found
     \/ UNCHANGED thr /\ ep' = ep /\ c.op \notin Untid /\ ~Found

LEMMA GetBooks ==
  ASSUME NEW e \in EpRecords
  PROVE  /\ Duties(e, Get(e)) /\ (Started(Get(e)) <=> Started(e))
         /\ (TimerOK(Get(e)) <=> TimerOK(e)) /\ (Stops(Get(e)) <=> Stops(e))
         /\ Ledger(Get(e)) = Ledger(e) + 1
  <1>1. /\ Get(e).kref = e.kref + 1 /\ Get(e).flags = e.flags
        /\ Get(e).tcbs = e.tcbs /\ Get(e).intr = e.intr
        /\ (Get(e).base <=> e.base) /\ (Get(e).timer <=> e.timer) /\ (Get(e).listed <=> e.listed)
        /\ (Get(e).ulp <=> e.ulp) /\ (Get(e).hold <=> e.hold)
    BY DEF Get, EpRecords
  <1>2. Duties(e, Get(e))
    BY <1>1 DEF Duties
  <1>3. /\ (Started(Get(e)) <=> Started(e))
        /\ (TimerOK(Get(e)) <=> TimerOK(e)) /\ (Stops(Get(e)) <=> Stops(e))
    BY <1>1 DEF Started, TimerOK, Stops, Expired
  <1>4. e.kref \in Int /\ e.tcbs \in Int /\ e.intr \in Int
    BY DEF EpRecords
  <1>5. Ledger(Get(e)) = Ledger(e) + 1
    <2>1. /\ Bit(Get(e).base) = Bit(e.base) /\ Bit(Get(e).timer) = Bit(e.timer)
          /\ Bit(Get(e).listed) = Bit(e.listed) /\ Bit(Get(e).ulp) = Bit(e.ulp)
          /\ Bit(Get(e).hold) = Bit(e.hold)
      BY <1>1 DEF Bit
    <2>2. /\ Bit(e.base) \in Int /\ Bit(e.timer) \in Int /\ Bit(e.listed) \in Int
          /\ Bit(e.ulp) \in Int /\ Bit(e.hold) \in Int
      BY DEF Bit
    <2> QED
      BY <1>1, <1>4, <2>1, <2>2 DEF Ledger
  <1> QED
    BY <1>2, <1>3, <1>5

LEMMA WokenBooks ==
  ASSUME NEW e \in EpRecords, NEW r \in Rets
  PROVE  /\ Duties(e, WakeUp(e, r)) /\ (Started(WakeUp(e, r)) <=> Started(e))
         /\ (TimerOK(WakeUp(e, r)) <=> TimerOK(e)) /\ (Stops(WakeUp(e, r)) <=> Stops(e))
         /\ Ledger(WakeUp(e, r)) = Ledger(e)
  <1>1. /\ WakeUp(e, r).flags = e.flags /\ (WakeUp(e, r).timer <=> e.timer)
    BY DEF WakeUp, EpRecords
  <1>2. Level(e, WakeUp(e, r))
    BY WakeUpBooks
  <1> QED
    BY <1>1, <1>2 DEF Level, Started, TimerOK, Stops, Expired

LEMMA TakeCplTakes ==
  ASSUME TypeInv, RInv, TakeCpl
  PROVE  Takes(Head(rxq))
  <1> DEFINE c == Head(rxq)
             w == WakeUp(ep, "reset")
             e == IF Wakes(c) THEN w ELSE ep
  <1>1. /\ Worker.at = "idle" /\ ep \in EpRecords /\ rxq # <<>> /\ rxq' = Tail(rxq)
        /\ UNCHANGED <<qp, mutex, qmutex, hw, fatal>>
    BY DEF TakeCpl, At, Worker, TypeInv
  <1>2. w \in EpRecords /\ Same(ep, w) /\ Duties(ep, w) /\ (Started(w) <=> Started(ep))
        /\ (TimerOK(w) <=> TimerOK(ep)) /\ (Stops(w) <=> Stops(ep)) /\ Ledger(w) = Ledger(ep)
    <2>1. "reset" \in Rets
      BY DEF Rets
    <2> QED
      BY <1>1, <2>1, WakeUpSame, WokenBooks
  <1> HIDE DEF w
  <1>3. e \in EpRecords /\ Same(ep, e) /\ Duties(ep, e) /\ (Started(e) <=> Started(ep))
        /\ (TimerOK(e) <=> TimerOK(ep)) /\ (Stops(e) <=> Stops(ep)) /\ Ledger(e) = Ledger(ep)
    BY <1>1, <1>2, SameReflexive, LevelReflexive DEF Level
  <1>4. /\ Get(e) \in EpRecords /\ Same(e, Get(e)) /\ Duties(e, Get(e))
        /\ (Started(Get(e)) <=> Started(e))
        /\ (TimerOK(Get(e)) <=> TimerOK(e)) /\ (Stops(Get(e)) <=> Stops(e))
        /\ Ledger(Get(e)) = Ledger(e) + 1
    BY <1>3, GetSame, GetBooks
  <1>5. \/ /\ c.op \in Untid /\ UNCHANGED ep
           /\ thr' = [thr EXCEPT !["worker"].at = "handle", !["worker"].cpl = c]
        \/ /\ c.op \notin Untid /\ Found
           /\ ep' = IF c.op = "GET_TCB_RPL" THEN e ELSE Get(e)
           /\ thr' = [thr EXCEPT !["worker"].at = "handle", !["worker"].cpl = c,
                          !["worker"].held = Bit(c.op # "GET_TCB_RPL")]
        \/ UNCHANGED <<ep, thr>> /\ c.op \notin Untid /\ ~Found
    BY DEF TakeCpl, w
  <1> HIDE DEF e
  <1>6. Worker.held = 0
    BY <1>1 DEF RInv, RestInv, RestAt, Worker, Threads
  <1>7. c = Head(rxq)
    OBVIOUS
  <1> HIDE DEF c
  <1>8. CASE /\ c.op \in Untid /\ UNCHANGED ep
             /\ thr' = [thr EXCEPT !["worker"].at = "handle", !["worker"].cpl = c]
    <2>1. /\ Others("worker") /\ Worker'.at = "handle" /\ Worker'.held = Worker.held
          /\ Worker'.cpl = c /\ Worker'.disc = Worker.disc /\ Worker'.rel = Worker.rel
      BY <1>8, UntidTaken
    <2>2. Same(ep, ep') /\ Duties(ep, ep')
      BY <1>1, <1>8, SameReflexive, LevelReflexive DEF Level
    <2> QED
      BY <1>1, <1>6, <1>7, <1>8, <2>1, <2>2 DEF Takes
  <1>9. CASE /\ c.op \notin Untid /\ Found
             /\ ep' = IF c.op = "GET_TCB_RPL" THEN e ELSE Get(e)
             /\ thr' = [thr EXCEPT !["worker"].at = "handle", !["worker"].cpl = c,
                                   !["worker"].held = Bit(c.op # "GET_TCB_RPL")]
    <2>1. /\ Others("worker") /\ Worker'.at = "handle"
          /\ Worker'.held = Bit(c.op # "GET_TCB_RPL")
          /\ Worker'.cpl = c /\ Worker'.disc = Worker.disc /\ Worker'.rel = Worker.rel
      BY <1>9, CplTaken
    <2>2. CASE c.op = "GET_TCB_RPL"
      <3>1. ep' = e /\ Worker'.held = 0
        BY <1>9, <2>1, <2>2 DEF Bit
      <3> QED
        BY <1>1, <1>3, <1>7, <1>9, <2>1, <2>2, <3>1 DEF Takes
    <2>3. CASE c.op # "GET_TCB_RPL"
      <3>1. ep' = Get(e) /\ Worker'.held = 1
        BY <1>9, <2>1, <2>3 DEF Bit
      <3>2. Same(ep, ep') /\ Duties(ep, ep') /\ Ledger(ep') = Ledger(ep) + 1
        BY <1>3, <1>4, <3>1 DEF Same, Steady, Silent, Duties
      <3> QED
        BY <1>1, <1>3, <1>4, <1>7, <1>9, <2>1, <2>3, <3>1, <3>2 DEF Takes
    <2> QED
      BY <2>2, <2>3
  <1>10. CASE UNCHANGED <<ep, thr>> /\ c.op \notin Untid /\ ~Found
    <2>1. Same(ep, ep') /\ Duties(ep, ep') /\ Others("worker")
      BY <1>1, <1>10, SameReflexive, LevelReflexive DEF Level, Others
    <2> QED
      BY <1>1, <1>7, <1>10, <2>1 DEF Takes
  <1> QED
    BY <1>5, <1>7, <1>8, <1>9, <1>10

LEMMA TakesKeeps ==
  ASSUME TypeInv, TypeInv', EventInv, RInv, NEW c, Takes(c)
  PROVE  RInv'
  <1>1. /\ Worker.at = "idle" /\ UNCHANGED <<qp, mutex, qmutex, hw, fatal>>
        /\ rxq # <<>> /\ rxq' = Tail(rxq) /\ c = Head(rxq) /\ Others("worker")
    BY DEF Takes
  <1>2. Worker.disc = 0 /\ ~Worker.rel /\ Worker.held = 0
    BY <1>1 DEF RInv, RestInv, RestAt, Worker, Threads
  <1>3. \/ /\ Worker'.at = "handle" /\ Worker'.cpl = c
           /\ Worker'.disc = Worker.disc /\ ~Worker'.rel
           /\ c.op \notin Untid => Found
        \/ UNCHANGED thr /\ c.op \notin Untid /\ ~Found
    BY <1>2 DEF Takes
  <1>4. /\ (ep'.base <=> ep.base) /\ (ep'.hold <=> ep.hold) /\ ep'.tcbs = ep.tcbs
        /\ ep'.intr = ep.intr /\ (Started(ep') <=> Started(ep)) /\ (TimerOK(ep') <=> TimerOK(ep))
        /\ (Stops(ep') <=> Stops(ep)) /\ (ep'.listed <=> ep.listed)
    BY DEF Takes, Duties
  <1>5. /\ ep'.side = ep.side /\ ep'.hwtid = ep.hwtid /\ (ep'.retry_v1 <=> ep.retry_v1)
        /\ (ep'.ulp <=> ep.ulp) /\ (Peer' <=> Peer) /\ (ep'.cm_id <=> ep.cm_id)
        /\ ep'.state = ep.state
    BY DEF Takes, Same, Steady, Silent, Peer
  <1>6. Ledger(ep') - Worker'.held = Ledger(ep) - Worker.held
    <2>1. Ledger(ep) \in Int
      BY LedgerIsInt DEF TypeInv
    <2> QED
      BY <1>2, <2>1 DEF Takes, Worker
  <1>7. /\ thr'["ulp"] = thr["ulp"] /\ thr'["user"] = thr["user"]
        /\ \A t \in Threads : thr'[t].disc = thr[t].disc
    BY <1>1, <1>3 DEF Others, Threads, Worker
  <1>8. /\ ~Busy("worker")' /\ ~Busy("worker") /\ ~Replying' /\ ~In("worker", "tcb")'
        /\ (Accepting' <=> Accepting) /\ ~FirstHandled /\ ~TcbHandled /\ ~AbortInHand
        /\ ~BreakHandled /\ ~PutHandled
    BY <1>1, <1>3, <1>7 DEF FirstHandled, TcbHandled, AbortInHand, PutHandled, BreakHandled,
                            Replying, Accepting, In, Busy, Worker
  <1>9. /\ FirstHandled' => c.op \in FirstOps /\ Worker'.at = "handle"
        /\ TcbHandled' => c.op = "GET_TCB_RPL"
        /\ BreakHandled' => c.op = "RDMA_TERMINATE"
        /\ PutHandled' => c.op \in PutOps
        /\ AbortInHand' => c.op = "ABORT_REQ"
    BY <1>1, <1>3, <1>8 DEF FirstHandled, TcbHandled, AbortInHand, PutHandled, BreakHandled, In, Worker
  <1>10. /\ (Opening' <=> Opening) /\ (Active' <=> Active)
    BY <1>1, <1>5 DEF Opening, Active
  <1>11. /\ \A i, j \in Firsts' : i = j
         /\ c.op \in FirstOps => ~FirstQueued'
         /\ \A i, j \in Tcbs' : i = j
         /\ c.op = "GET_TCB_RPL" => Tcbs' = {}
    BY <1>1, QueueRest DEF RInv, FirstInv, TcbInv
  <1>12. /\ FirstQueued' \/ c.op \in FirstOps => FirstQueued
         /\ Tcbs' # {} \/ c.op = "GET_TCB_RPL" => Tcbs # {}
         /\ BreakQueued' \/ c.op = "RDMA_TERMINATE" => BreakQueued
         /\ PutQueued' \/ c.op \in PutOps => PutQueued
         /\ c = rxq[1]
    BY <1>1, QueueRest
  <1>13. RestInv' /\ ~fatal'
    <2>1. RestAt("worker")'
      BY <1>2, <1>3, <1>8 DEF Takes, RestAt, RInv, RestInv, Worker, Threads, Bare, In
    <2> QED
      BY <1>1, <2>1, RestKept DEF RInv, Threads
  <1>14. QpInv'
    BY <1>1, <1>3, <1>7 DEF RInv, QpInv, Threads, Worker
  <1>15. TimerInv'
    <2>1. CASE Started(ep)
      BY <1>4, <2>1 DEF RInv, TimerInv
    <2>2. CASE Early
      <3>1. ~BreakQueued' /\ ~BreakHandled'
        BY <1>9, <1>12, <2>2 DEF Early
      <3>2. Worker'.at # "timeout"
        BY <1>1, <1>3 DEF Worker
      <3>3. Early'
        BY <1>1, <1>4, <1>5, <1>7, <1>8, <2>2, <3>1, <3>2 DEF Early
      <3> QED
        BY <1>4, <3>3 DEF RInv, TimerInv
    <2> QED
      BY <2>1, <2>2 DEF RInv, TimerInv
  <1>16. FirstInv'
    BY <1>8, <1>9, <1>10, <1>11, <1>12 DEF RInv, FirstInv
  <1>17. /\ Under' => Under
         /\ TcbOut' => TcbOut
    BY <1>1, <1>9, <1>10, <1>12 DEF Under, TcbOut
  (* A message of a connection that is not open yet is the first one. *)
  <1>18. ~Active /\ (Opening \/ FirstQueued) => c.op \in FirstOps /\ ~Opening
    BY <1>1, <1>12 DEF RInv, UnderInv, FirstInv
  <1>19. UnderInv'
    <2>1. ~Active' => ~Opening' /\ ~FirstQueued'
      BY <1>10, <1>11, <1>12, <1>18
    <2>2. ASSUME Under' PROVE /\ ep'.base /\ ep'.state \in {"CONNECTING", "DEAD"} /\ ~Peer'
                              /\ ~ep'.hold /\ ~TcbOut' /\ ~qp'.ep
                              /\ \A t \in Threads : thr'[t].disc = 0
                              /\ Active' => ep'.hwtid # "own"
                              /\ ~Active' => ~Started(ep')
      BY <1>1, <1>4, <1>5, <1>7, <1>10, <1>17, <2>2 DEF RInv, UnderInv
    <2>3. ~Worker'.rel
      BY <1>2, <1>3 DEF Worker
    <2> QED
      BY <1>8, <2>1, <2>2, <2>3 DEF UnderInv
  <1>20. OwnInv'
    <2>1. Worker'.at = "handle" /\ Worker'.cpl.op \notin Untid => ep.hwtid = "own"
      BY <1>1, <1>3 DEF Found, Worker
    <2> QED
      BY <1>2, <1>3, <1>4, <1>5, <1>8, <2>1 DEF RInv, OwnInv, Worker
  <1>21. LinkInv'
    BY <1>1, <1>5, <1>7, <1>8, <1>10, <1>17 DEF RInv, LinkInv
  <1>22. TcbInv'
    BY <1>1, <1>4, <1>5, <1>8, <1>9, <1>11, <1>12, <1>17 DEF RInv, TcbInv
  <1>23. IntrInv'
    <2>1. /\ Cardinality(Aborts1) \in Nat /\ Cardinality(Aborts1') \in Nat
          /\ Cardinality(Aborts1') <= Cardinality(Aborts1)
          /\ c.op = "ABORT_REQ" => Cardinality(Aborts1') + 1 <= Cardinality(Aborts1)
      BY <1>1, AbortsCounted, QueueRest
    <2>2. ep.intr >= Cardinality(Aborts1) /\ ep.intr \in Int
      BY <1>8, <2>1 DEF RInv, IntrInv, Bit, TypeInv, EpRecords
    <2>3. CASE AbortInHand'
      <3>1. ep'.intr >= Cardinality(Aborts1') + 1
        BY <1>4, <1>9, <2>1, <2>2, <2>3
      <3> QED
        BY <2>3, <3>1 DEF IntrInv, Bit
    <2>4. CASE ~AbortInHand'
      <3>1. ep'.intr >= Cardinality(Aborts1') + 0
        BY <1>4, <2>1, <2>2
      <3> QED
        BY <2>4, <3>1 DEF IntrInv, Bit
    <2> QED
      BY <2>3, <2>4
  <1>24. RefsBalance'
    <2>1. Ledger(ep') - Worker'.held - Bit(qp'.ep) = Ledger(ep) - Worker.held - Bit(qp.ep)
      BY <1>1, <1>6
    <2> QED
      BY <1>1, <2>1, BalanceKept DEF RInv, Worker, Threads
  <1>25. "alloc" \notin Faults => GoneInv'
    <2>1. PutQueued' \/ PutHandled' => PutQueued
      BY <1>9, <1>12
    <2>2. ~Worker'.rel
      BY <1>2, <1>3 DEF Worker
    <2> QED
      BY <1>4, <1>5, <1>8, <1>10, <1>17, <2>1, <2>2 DEF RInv, GoneInv
  <1> QED
    BY <1>13, <1>14, <1>15, <1>16, <1>19, <1>20, <1>21, <1>22, <1>23, <1>24, <1>25 DEF RInv

LEMMA TakeCplKeepsRefs ==
  ASSUME TypeInv, TypeInv', EventInv, RInv, TakeCpl
  PROVE  RInv'
  BY TakeCplTakes, TakesKeeps

-----------------------------------------------------------------------------
(* A thread moves the QP. *)
Calm(e, f) == Ticks(e, f) /\ (Started(f) => Started(e))

Shifts(t) ==
  /\ thr[t].at \in {"modify", "fw"} /\ qmutex \in {"free", t} /\ Others(t)
  /\ UNCHANGED <<mutex, rxq, fatal>>
  /\ ep' \in EpRecords /\ Same(ep, ep') /\ Duties(ep, ep') /\ Calm(ep, ep')
  /\ thr'[t].at \in {"fw", "after"} /\ thr'[t].then = thr[t].then
  /\ thr'[t].rel = thr[t].rel /\ thr'[t].cpl = thr[t].cpl
  /\ thr'[t].at = "fw" => qmutex' = t /\ qp'.ep
  /\ thr'[t].held >= thr[t].held
  /\ thr'[t].disc > 0 => thr[t].disc > 0 \/ thr'[t].held > thr[t].held
  /\ Ledger(ep') - thr'[t].held - Bit(qp'.ep) = Ledger(ep) - thr[t].held - Bit(qp.ep)
  /\ qp'.ep <=> qp'.state \in {"RTS", "CLOSING", "TERMINATE"}
  /\ hw'.conn = hw.conn /\ hw'.tcb = hw.tcb /\ (hw'.rdma <=> hw.rdma)
  /\ ~qp.ep /\ ~(thr[t].at = "modify" /\ thr[t].to = "RTS") =>
         ~qp'.ep /\ (thr'[t].disc > 0 => thr[t].disc > 0) /\ hw'.fw = hw.fw

(* The thread goes on, with n references more. *)
Onward(t, at, n) ==
  /\ Others(t) /\ thr'[t].at = at /\ thr'[t].then = thr[t].then
  /\ thr'[t].rel = thr[t].rel /\ thr'[t].cpl = thr[t].cpl /\ thr'[t].held = thr[t].held + n

LEMMA ReturnsOnward ==
  ASSUME TypeInv, NEW t \in Threads, NEW ret, Returns(t, ret)
  PROVE  Onward(t, "after", 0) /\ thr'[t].disc = thr[t].disc
  <1>1. thr \in [Threads -> ThrRecords] /\ thr[t].held \in Nat
    BY DEF TypeInv, ThrRecords
  <1>2. thr' = [thr EXCEPT ![t] = [thr[t] EXCEPT !.at = "after", !.ret = ret]]
    BY <1>1 DEF Returns
  <1>3. Others(t)
    BY <1>1, <1>2 DEF Others
  <1> QED
    BY <1>1, <1>2, <1>3 DEF Onward, ThrRecords

LEMMA WaitsOnward ==
  ASSUME TypeInv, NEW t \in Threads, thr' = [thr EXCEPT ![t].at = "fw"]
  PROVE  Onward(t, "fw", 0) /\ thr'[t].disc = thr[t].disc
  <1>1. thr \in [Threads -> ThrRecords] /\ thr[t].held \in Nat
    BY DEF TypeInv, ThrRecords
  <1>2. thr' = [thr EXCEPT ![t] = [thr[t] EXCEPT !.at = "fw"]]
    BY <1>1
  <1>3. Others(t)
    BY <1>1, <1>2 DEF Others
  <1> QED
    BY <1>1, <1>2, <1>3 DEF Onward, ThrRecords

LEMMA WaitsHeldOnward ==
  ASSUME TypeInv, NEW t \in Threads,
         thr' = [thr EXCEPT ![t].at = "fw", ![t].disc = 1, ![t].held = @ + 1]
  PROVE  Onward(t, "fw", 1) /\ thr'[t].disc = 1
  <1>1. thr \in [Threads -> ThrRecords] /\ thr[t].held \in Nat
    BY DEF TypeInv, ThrRecords
  <1>2. thr' = [thr EXCEPT ![t] =
                    [thr[t] EXCEPT !.at = "fw", !.disc = 1, !.held = thr[t].held + 1]]
    BY <1>1
  <1>3. Others(t)
    BY <1>1, <1>2 DEF Others
  <1> QED
    BY <1>1, <1>2, <1>3 DEF Onward, ThrRecords

HeldOn(t, ret, n, disc) ==
  [thr EXCEPT ![t] = [thr[t] EXCEPT !.at = "after", !.ret = ret,
                          !.held = thr[t].held + n, !.disc = disc]]

LEMMA HeldOnward ==
  ASSUME TypeInv, NEW t \in Threads, NEW ret, NEW n \in Nat, NEW disc,
         thr' = HeldOn(t, ret, n, disc)
  PROVE  Onward(t, "after", n) /\ thr'[t].disc = disc
  <1>1. thr \in [Threads -> ThrRecords] /\ thr[t].held \in Nat
    BY DEF TypeInv, ThrRecords
  <1>2. Others(t)
    BY <1>1 DEF Others, HeldOn
  <1> QED
    BY <1>1, <1>2 DEF Onward, ThrRecords, HeldOn

LEMMA PutBooks ==
  ASSUME NEW e \in EpRecords
  PROVE  Duties(e, Put(e)) /\ Calm(e, Put(e)) /\ Ledger(Put(e)) = Ledger(e) - 1
  <1>1. /\ Put(e).kref = e.kref - 1 /\ Put(e).flags = e.flags
        /\ Put(e).tcbs = e.tcbs /\ Put(e).intr = e.intr
        /\ (Put(e).base <=> e.base) /\ (Put(e).timer <=> e.timer) /\ (Put(e).listed <=> e.listed)
        /\ (Put(e).ulp <=> e.ulp) /\ (Put(e).hold <=> e.hold)
    BY DEF Put, EpRecords
  <1>2. Duties(e, Put(e)) /\ Calm(e, Put(e))
    BY <1>1 DEF Duties, Calm, Ticks, Started, TimerOK, Stops, Expired
  <1>3. e.kref \in Int /\ e.tcbs \in Int /\ e.intr \in Int
    BY DEF EpRecords
  <1>4. /\ Bit(Put(e).base) = Bit(e.base) /\ Bit(Put(e).timer) = Bit(e.timer)
        /\ Bit(Put(e).listed) = Bit(e.listed) /\ Bit(Put(e).ulp) = Bit(e.ulp)
        /\ Bit(Put(e).hold) = Bit(e.hold)
    BY <1>1 DEF Bit
  <1>5. /\ Bit(e.base) \in Int /\ Bit(e.timer) \in Int /\ Bit(e.listed) \in Int
        /\ Bit(e.ulp) \in Int /\ Bit(e.hold) \in Int
    BY DEF Bit
  <1> QED
    BY <1>1, <1>2, <1>3, <1>4, <1>5 DEF Ledger

LEMMA GetTicks ==
  ASSUME NEW e \in EpRecords
  PROVE  Get(e) \in EpRecords /\ Same(e, Get(e)) /\ Duties(e, Get(e)) /\ Calm(e, Get(e))
         /\ Ledger(Get(e)) = Ledger(e) + 1
  <1>1. /\ Duties(e, Get(e)) /\ Ledger(Get(e)) = Ledger(e) + 1
        /\ (Started(Get(e)) <=> Started(e))
        /\ (TimerOK(Get(e)) <=> TimerOK(e)) /\ (Stops(Get(e)) <=> Stops(e))
    BY GetBooks
  <1> QED
    BY <1>1, GetSame DEF Calm, Ticks

LEMMA WrDoneBooks ==
  ASSUME NEW e \in EpRecords, NEW v \in Nat
  PROVE  Level(e, With_wr_done(e, v)) /\ Calm(e, With_wr_done(e, v))
  <1>1. Alike(e, With_wr_done(e, v))
    BY DEF Alike, Expired, Stops, EpRecords, With_wr_done
  <1> QED
    BY <1>1, AlikeIsLevel DEF Calm, Level, Alike, Started

HwLike(g, h) == h.conn = g.conn /\ h.tcb = g.tcb /\ (h.rdma <=> g.rdma)

LEMMA Shifted ==
  ASSUME TypeInv, NEW t \in Threads, thr[t].at \in {"modify", "fw"}, qmutex \in {"free", t},
         UNCHANGED <<mutex, rxq, fatal>>,
         ep' \in EpRecords, Same(ep, ep'), Duties(ep, ep'), Calm(ep, ep'),
         NEW at \in {"fw", "after"}, NEW n \in Nat, Onward(t, at, n),
         at = "fw" => qmutex' = t /\ qp'.ep,
         thr'[t].disc > 0 => thr[t].disc > 0 \/ n > 0,
         Ledger(ep') - Bit(qp'.ep) = Ledger(ep) - Bit(qp.ep) + n,
         qp'.ep <=> qp'.state \in {"RTS", "CLOSING", "TERMINATE"},
         HwLike(hw, hw'),
         ~qp.ep /\ ~(thr[t].at = "modify" /\ thr[t].to = "RTS") =>
             ~qp'.ep /\ (thr'[t].disc > 0 => thr[t].disc > 0) /\ hw'.fw = hw.fw
  PROVE  Shifts(t)
  <1>1. thr[t].held \in Nat /\ thr'[t].held = thr[t].held + n
    BY DEF TypeInv, ThrRecords, Onward
  <1>2. /\ thr'[t].held >= thr[t].held
        /\ thr'[t].disc > 0 => thr[t].disc > 0 \/ thr'[t].held > thr[t].held
    BY <1>1
  <1>3. Ledger(ep') - thr'[t].held - Bit(qp'.ep) = Ledger(ep) - thr[t].held - Bit(qp.ep)
    <2>1. Ledger(ep) \in Int /\ Ledger(ep') \in Int /\ Bit(qp.ep) \in Int /\ Bit(qp'.ep) \in Int
      BY LedgerIsInt DEF TypeInv, Bit
    <2> QED
      BY <1>1, <2>1
  <1>4. /\ Others(t) /\ thr'[t].at \in {"fw", "after"} /\ thr'[t].then = thr[t].then
        /\ thr'[t].rel = thr[t].rel /\ thr'[t].cpl = thr[t].cpl
        /\ (thr'[t].at = "fw" => qmutex' = t /\ qp'.ep)
    BY DEF Onward
  <1> QED
    BY <1>2, <1>3, <1>4 DEF Shifts, HwLike

LEMMA HwLikeReflexive ==
  ASSUME NEW h PROVE HwLike(h, h)
  BY DEF HwLike

LEMMA AskRiLike ==
  ASSUME NEW h \in HwRecords
  PROVE  HwLike(h, AskRi(h))
  BY DEF HwLike, AskRi, HwRecords

QpLinked == qp.state \in {"RTS", "CLOSING", "TERMINATE"}

LEMMA One == 0 \in Nat /\ 1 \in Nat /\ 2 \in Nat
  OBVIOUS

LEMMA Unmoved ==
  ASSUME TypeInv
  PROVE  ep \in EpRecords /\ Same(ep, ep) /\ Duties(ep, ep) /\ Calm(ep, ep)
         /\ Ledger(ep) \in Int /\ Bit(qp.ep) \in Int
  BY SameReflexive, LevelReflexive, LedgerIsInt DEF TypeInv, Level, Calm, Bit

LEMMA ModifyNothingShifts ==
  ASSUME TypeInv, QpInv, NEW t \in Threads, ModifyNothing(t)
  PROVE  Shifts(t)
  <1>1. /\ thr[t].at = "modify" /\ qmutex = "free" /\ UNCHANGED <<ep, qp, mutex, qmutex, rxq, hw, fatal>>
        /\ Returns(t, "ok") \/ Returns(t, "err")
    BY DEF ModifyNothing, At
  <1>2. Onward(t, "after", 0) /\ thr'[t].disc = thr[t].disc
    BY <1>1, ReturnsOnward
  <1>3. /\ ep \in EpRecords /\ Same(ep, ep) /\ Duties(ep, ep) /\ Calm(ep, ep)
        /\ Ledger(ep) \in Int /\ Bit(qp.ep) \in Int /\ HwLike(hw, hw)
    BY Unmoved, HwLikeReflexive
  <1>4. Ledger(ep') - Bit(qp'.ep) = Ledger(ep) - Bit(qp.ep) + 0
    BY <1>1, <1>3
  <1> QED
    BY <1>1, <1>2, <1>3, <1>4, Shifted DEF QpInv

LEMMA ModifyInitShifts ==
  ASSUME TypeInv, QpInv, NEW t \in Threads, ModifyInit(t)
  PROVE  Shifts(t)
  <1>1. /\ thr[t].at = "modify" /\ qmutex = "free" /\ qmutex' = t /\ thr[t].to = "RTS"
        /\ UNCHANGED <<mutex, rxq, fatal>> /\ qp.state = "IDLE"
        /\ ep' = Get(ep) /\ thr' = [thr EXCEPT ![t].at = "fw"] /\ hw' = AskRi(hw)
        /\ qp' = [qp EXCEPT !.state = "RTS", !.ep = TRUE]
    BY DEF ModifyInit, Modifies, At
  <1>2. Onward(t, "fw", 0) /\ thr'[t].disc = thr[t].disc
    BY <1>1, WaitsOnward
  <1>3. qp'.state = "RTS" /\ qp'.ep /\ ~qp.ep
    BY <1>1 DEF QpInv, TypeInv, QpRecords
  <1>4. /\ ep \in EpRecords /\ ep' \in EpRecords /\ Same(ep, ep') /\ Duties(ep, ep')
        /\ Calm(ep, ep') /\ Ledger(ep') = Ledger(ep) + 1
    BY <1>1, Unmoved, GetTicks
  <1>5. Ledger(ep') - Bit(qp'.ep) = Ledger(ep) - Bit(qp.ep) + 0
    <2>1. Bit(qp'.ep) = 1 /\ Bit(qp.ep) = 0
      BY <1>3 DEF Bit
    <2> QED
      BY <1>4, <2>1, LedgerIsInt
  <1>6. HwLike(hw, hw')
    BY <1>1, AskRiLike DEF TypeInv
  <1> QED
    BY <1>1, <1>2, <1>3, <1>4, <1>5, <1>6, Shifted

(* The QP keeps the endpoint. *)
LEMMA ModifyFiniShifts ==
  ASSUME TypeInv, QpInv, NEW t \in Threads, ModifyFini(t)
  PROVE  Shifts(t)
  <1>1. /\ thr[t].at = "modify" /\ qmutex = "free" /\ qmutex' = t
        /\ UNCHANGED <<mutex, rxq, fatal>> /\ qp.state = "RTS" /\ hw' = AskRi(hw)
        /\ thr[t].to \in {"CLOSING", "TERMINATE"} /\ qp' = [qp EXCEPT !.state = thr[t].to]
        /\ \/ thr' = [thr EXCEPT ![t].at = "fw"] /\ UNCHANGED ep
           \/ /\ thr' = [thr EXCEPT ![t].at = "fw", ![t].disc = 1, ![t].held = @ + 1]
              /\ ep' = Get(ep)
    BY DEF ModifyFini, Fini, Modifies, At
  <1>2. qp.ep /\ qp'.ep /\ qp'.state \in {"CLOSING", "TERMINATE"}
    BY <1>1 DEF QpInv, TypeInv, QpRecords
  <1>3. HwLike(hw, hw')
    BY <1>1, AskRiLike DEF TypeInv
  <1>4. Bit(qp'.ep) = 1 /\ Bit(qp.ep) = 1
    BY <1>2 DEF Bit
  <1>5. CASE thr' = [thr EXCEPT ![t].at = "fw"] /\ UNCHANGED ep
    <2>1. Onward(t, "fw", 0) /\ thr'[t].disc = thr[t].disc
      BY <1>5, WaitsOnward
    <2>2. /\ ep' \in EpRecords /\ Same(ep, ep') /\ Duties(ep, ep') /\ Calm(ep, ep')
          /\ Ledger(ep) \in Int /\ Ledger(ep') = Ledger(ep)
      BY <1>5, Unmoved
    <2>3. Ledger(ep') - Bit(qp'.ep) = Ledger(ep) - Bit(qp.ep) + 0
      BY <1>4, <2>2
    <2> QED
      BY <1>1, <1>2, <1>3, <2>1, <2>2, <2>3, Shifted
  <1>6. CASE /\ thr' = [thr EXCEPT ![t].at = "fw", ![t].disc = 1, ![t].held = @ + 1]
             /\ ep' = Get(ep)
    <2>1. Onward(t, "fw", 1) /\ thr'[t].disc = 1
      BY <1>6, WaitsHeldOnward
    <2>2. /\ ep' \in EpRecords /\ Same(ep, ep') /\ Duties(ep, ep') /\ Calm(ep, ep')
          /\ Ledger(ep) \in Int /\ Ledger(ep') = Ledger(ep) + 1
      BY <1>6, Unmoved, GetTicks
    <2>3. Ledger(ep') - Bit(qp'.ep) = Ledger(ep) - Bit(qp.ep) + 1
      BY <1>4, <2>2
    <2> QED
      BY <1>1, <1>2, <1>3, <2>1, <2>2, <2>3, Shifted
  <1> QED
    BY <1>1, <1>5, <1>6

LEMMA ModifyTerminateShifts ==
  ASSUME TypeInv, QpInv, NEW t \in Threads, ModifyTerminate(t)
  PROVE  Shifts(t)
  <1>1. /\ thr[t].at = "modify" /\ qmutex = "free"
        /\ UNCHANGED <<mutex, qmutex, rxq, hw, fatal>> /\ qp.state = "RTS"
        /\ qp' = [qp EXCEPT !.state = "TERMINATE"] /\ ep' = Get(ep)
        /\ thr' = [thr EXCEPT ![t].at = "after", ![t].ret = "ok",
                              ![t].disc = 1, ![t].held = @ + 1]
    BY DEF ModifyTerminate, Modifies, At
  <1>2. qp.ep /\ qp'.ep /\ qp'.state = "TERMINATE"
    BY <1>1 DEF QpInv, TypeInv, QpRecords
  <1>3. thr' = HeldOn(t, "ok", 1, 1)
    BY <1>1 DEF TypeInv, HeldOn
  <1>4. Onward(t, "after", 1) /\ thr'[t].disc = 1
    BY <1>3, One, HeldOnward
  <1>5. /\ ep' \in EpRecords /\ Same(ep, ep') /\ Duties(ep, ep') /\ Calm(ep, ep')
        /\ Ledger(ep) \in Int /\ Ledger(ep') = Ledger(ep) + 1 /\ HwLike(hw, hw)
    BY <1>1, Unmoved, GetTicks, HwLikeReflexive
  <1>6. Ledger(ep') - Bit(qp'.ep) = Ledger(ep) - Bit(qp.ep) + 1
    <2>1. Bit(qp'.ep) = 1 /\ Bit(qp.ep) = 1
      BY <1>2 DEF Bit
    <2> QED
      BY <1>5, <2>1
  <1> QED
    BY <1>1, <1>2, <1>4, <1>5, <1>6, Shifted

LEMMA ModifyIdleShifts ==
  ASSUME TypeInv, QpInv, NEW t \in Threads, ModifyIdle(t)
  PROVE  Shifts(t)
  <1>1. /\ thr[t].at = "modify" /\ qmutex = "free"
        /\ UNCHANGED <<mutex, qmutex, rxq, hw, fatal>> /\ Returns(t, "ok")
        /\ \/ /\ qp.state = "CLOSING" /\ qp' = [qp EXCEPT !.state = "IDLE", !.ep = FALSE]
              /\ ep' = Put(ep)
           \/ qp.state = "ERROR" /\ qp' = [qp EXCEPT !.state = "IDLE"] /\ UNCHANGED ep
    BY DEF ModifyIdle, Modifies, At
  <1>2. Onward(t, "after", 0) /\ thr'[t].disc = thr[t].disc
    BY <1>1, ReturnsOnward
  <1>3. qp'.state = "IDLE" /\ ~qp'.ep
    BY <1>1 DEF QpInv, TypeInv, QpRecords
  <1>4. /\ ep \in EpRecords /\ Same(ep, ep) /\ Duties(ep, ep) /\ Calm(ep, ep)
        /\ Ledger(ep) \in Int /\ HwLike(hw, hw)
    BY Unmoved, HwLikeReflexive
  <1>5. CASE qp.state = "CLOSING" /\ ep' = Put(ep)
    <2>1. /\ ep' \in EpRecords /\ Same(ep, ep') /\ Duties(ep, ep') /\ Calm(ep, ep')
          /\ Ledger(ep') = Ledger(ep) - 1
      BY <1>4, <1>5, PutSame, PutBooks
    <2>2. Bit(qp'.ep) = 0 /\ Bit(qp.ep) = 1
      BY <1>3, <1>5 DEF Bit, QpInv
    <2>3. Ledger(ep') - Bit(qp'.ep) = Ledger(ep) - Bit(qp.ep) + 0
      BY <1>4, <2>1, <2>2
    <2>4. qp.ep
      BY <1>5 DEF QpInv
    <2> QED
      BY <1>1, <1>2, <1>3, <1>4, <2>1, <2>3, <2>4, Shifted
  <1>6. CASE qp.state = "ERROR" /\ UNCHANGED ep
    <2>1. Bit(qp'.ep) = 0 /\ Bit(qp.ep) = 0
      BY <1>3, <1>6 DEF Bit, QpInv
    <2>2. Ledger(ep') - Bit(qp'.ep) = Ledger(ep) - Bit(qp.ep) + 0
      BY <1>4, <1>6, <2>1
    <2> QED
      BY <1>1, <1>2, <1>3, <1>4, <1>6, <2>2, Shifted
  <1> QED
    BY <1>1, <1>5, <1>6

(* Label err. *)
LEMMA DisassociateShifts ==
  ASSUME TypeInv, QpInv, QpLinked, NEW t \in Threads, thr[t].at \in {"modify", "fw"},
         qmutex \in {"free", t}, NEW e \in EpRecords, Same(ep, e), Level(ep, e), Calm(ep, e),
         NEW ret, Disassociate(t, e, ret), UNCHANGED <<mutex, rxq, hw, fatal>>
  PROVE  Shifts(t)
  <1> DEFINE disc == IF thr[t].disc > 0 THEN 2 ELSE 0
  <1>1. /\ qp' = [qp EXCEPT !.state = "ERROR", !.ep = FALSE] /\ ep' = e
        /\ thr' = HeldOn(t, ret, 1, disc)
    BY DEF Disassociate, TypeInv, HeldOn
  <1>2. disc > 0 => thr[t].disc > 0
    OBVIOUS
  <1>3. qp'.state = "ERROR" /\ ~qp'.ep
    BY <1>1 DEF TypeInv, QpRecords
  <1> HIDE DEF disc
  <1>4. Onward(t, "after", 1) /\ thr'[t].disc = disc
    BY <1>1, One, HeldOnward
  <1>5. Duties(ep, e) /\ Calm(ep, e) /\ Ledger(e) = Ledger(ep) /\ Ledger(ep) \in Int
        /\ HwLike(hw, hw)
    BY Unmoved, HwLikeReflexive DEF Level
  <1>6. Ledger(ep') - Bit(qp'.ep) = Ledger(ep) - Bit(qp.ep) + 1
    <2>1. Bit(qp'.ep) = 0 /\ Bit(qp.ep) = 1
      BY <1>3 DEF Bit, QpInv, QpLinked
    <2>2. Ledger(ep') = Ledger(ep) /\ Ledger(ep) \in Int
      BY <1>1, <1>5
    <2> QED
      BY <2>1, <2>2
  <1> QED
    BY <1>1, <1>2, <1>3, <1>4, <1>5, <1>6, Shifted DEF QpInv, QpLinked

LEMMA DisassociateAbortShifts ==
  ASSUME TypeInv, QpInv, QpLinked, NEW t \in Threads, thr[t].at = "modify",
         qmutex = "free", DisassociateAbort(t), UNCHANGED <<mutex, rxq, hw, fatal>>
  PROVE  Shifts(t)
  <1>1. /\ qp' = [qp EXCEPT !.state = "ERROR", !.ep = FALSE] /\ ep' = Get(ep)
        /\ thr' = HeldOn(t, "ok", 2, 2)
    BY DEF DisassociateAbort, TypeInv, HeldOn
  <1>2. qp'.state = "ERROR" /\ ~qp'.ep
    BY <1>1 DEF TypeInv, QpRecords
  <1>3. Onward(t, "after", 2) /\ thr'[t].disc = 2
    BY <1>1, One, HeldOnward
  <1>4. /\ ep' \in EpRecords /\ Same(ep, ep') /\ Duties(ep, ep') /\ Calm(ep, ep')
        /\ Ledger(ep) \in Int /\ Ledger(ep') = Ledger(ep) + 1 /\ HwLike(hw, hw)
    BY <1>1, Unmoved, GetTicks, HwLikeReflexive
  <1>5. Ledger(ep') - Bit(qp'.ep) = Ledger(ep) - Bit(qp.ep) + 2
    <2>1. Bit(qp'.ep) = 0 /\ Bit(qp.ep) = 1
      BY <1>2 DEF Bit, QpInv, QpLinked
    <2> QED
      BY <1>4, <2>1
  <1> QED
    BY <1>1, <1>2, <1>3, <1>4, <1>5, Shifted DEF QpInv, QpLinked

LEMMA ModifyErrorShifts ==
  ASSUME TypeInv, QpInv, NEW t \in Threads, ModifyError(t)
  PROVE  Shifts(t)
  <1>1. /\ thr[t].at = "modify" /\ qmutex = "free" /\ UNCHANGED <<mutex, rxq, hw, fatal>>
        /\ \/ /\ qp.state \in {"RTS", "CLOSING", "TERMINATE"}
              /\ \/ Disassociate(t, ep, "ok") \/ Disassociate(t, ep, "err")
                 \/ DisassociateAbort(t)
           \/ /\ qp.state = "IDLE" /\ qp' = [qp EXCEPT !.state = "ERROR"] /\ Returns(t, "ok")
              /\ UNCHANGED <<ep, qmutex>>
    BY DEF ModifyError, Modifies, At
  <1>2. /\ ep \in EpRecords /\ Same(ep, ep) /\ Level(ep, ep) /\ Calm(ep, ep)
        /\ Ledger(ep) \in Int /\ HwLike(hw, hw)
    BY Unmoved, HwLikeReflexive, LevelReflexive
  <1>3. CASE qp.state \in {"RTS", "CLOSING", "TERMINATE"}
    <2>1. QpLinked
      BY <1>3 DEF QpLinked
    <2> QED
      BY <1>1, <1>2, <1>3, <2>1, DisassociateShifts, DisassociateAbortShifts DEF QpInv
  <1>4. CASE /\ qp.state = "IDLE" /\ qp' = [qp EXCEPT !.state = "ERROR"] /\ Returns(t, "ok")
             /\ UNCHANGED <<ep, qmutex>>
    <2>1. Onward(t, "after", 0) /\ thr'[t].disc = thr[t].disc
      BY <1>4, ReturnsOnward
    <2>2. qp'.state = "ERROR" /\ ~qp'.ep /\ ~qp.ep
      BY <1>4 DEF QpInv, TypeInv, QpRecords
    <2>3. Ledger(ep') - Bit(qp'.ep) = Ledger(ep) - Bit(qp.ep) + 0
      <3>1. Bit(qp'.ep) = 0 /\ Bit(qp.ep) = 0
        BY <2>2 DEF Bit
      <3> QED
        BY <1>2, <1>4, <3>1
    <2>4. Duties(ep, ep') /\ Calm(ep, ep')
      BY <1>4, Unmoved
    <2> QED
      BY <1>1, <1>2, <1>4, <2>1, <2>2, <2>3, <2>4, Shifted
  <1> QED
    BY <1>1, <1>3, <1>4

LEMMA FwWokenShifts ==
  ASSUME TypeInv, QpInv, NEW t \in Threads, FwWoken(t)
  PROVE  Shifts(t)
  <1> DEFINE e == With_wr_done(ep, ep.wr_done - 1)
  <1>1. /\ thr[t].at = "fw" /\ ep.wr_done > 0 /\ UNCHANGED <<mutex, rxq, hw, fatal>>
        /\ \/ ep' = e /\ Returns(t, "ok") /\ qmutex' = "free" /\ UNCHANGED qp
           \/ Disassociate(t, e, ep.wr_ret)
    BY DEF FwWoken, At, With_wr_done
  <1>2. qmutex = t /\ qp.ep
    BY <1>1 DEF QpInv
  <1>3. e \in EpRecords /\ Same(ep, e) /\ Level(ep, e) /\ Calm(ep, e)
    <2>1. ep \in EpRecords /\ ep.wr_done - 1 \in Nat
      BY <1>1 DEF TypeInv, EpRecords
    <2> QED
      BY <2>1, WrDoneSame, WrDoneBooks
  <1> HIDE DEF e
  <1>4. CASE ep' = e /\ Returns(t, "ok") /\ qmutex' = "free" /\ UNCHANGED qp
    <2>1. Onward(t, "after", 0) /\ thr'[t].disc = thr[t].disc
      BY <1>4, ReturnsOnward
    <2>2. Duties(ep, e) /\ Calm(ep, e) /\ Ledger(e) = Ledger(ep)
          /\ Ledger(ep) \in Int /\ Bit(qp.ep) \in Int /\ HwLike(hw, hw)
      BY <1>3, Unmoved, HwLikeReflexive DEF Level
    <2>3. Ledger(ep') - Bit(qp'.ep) = Ledger(ep) - Bit(qp.ep) + 0
      BY <1>4, <2>2
    <2> QED
      BY <1>1, <1>2, <1>3, <1>4, <2>1, <2>2, <2>3, Shifted DEF QpInv
  <1>5. CASE Disassociate(t, e, ep.wr_ret)
    <2>1. QpLinked
      BY <1>2 DEF QpLinked, QpInv
    <2> QED
      BY <1>1, <1>2, <1>3, <1>5, <2>1, DisassociateShifts
  <1> QED
    BY <1>1, <1>4, <1>5

LEMMA ModifyShifts ==
  ASSUME Faultless, TypeInv, RInv, NEW t \in Threads, Modify(t)
  PROVE  Shifts(t)
  <1>1. QpInv /\ ~fatal
    BY DEF RInv
  <1>2. ~ModifyUnsent(t) /\ ~FwTimeout(t)
    BY <1>1 DEF Faultless, ModifyUnsent, SendFails, FwTimeout
  <1> QED
    BY <1>1, <1>2, ModifyNothingShifts, ModifyInitShifts, ModifyFiniShifts,
       ModifyTerminateShifts, ModifyIdleShifts, ModifyErrorShifts, FwWokenShifts DEF Modify

-----------------------------------------------------------------------------
(* What everybody is at does not change, but that a move goes on.          *)
LEMMA ShiftsThreads ==
  ASSUME TypeInv, TypeInv', RInv, NEW t \in Threads, Shifts(t)
  PROVE  /\ Busy(t) /\ \A s \in Threads : thr'[s] = thr[s] \/ s = t
         /\ RestAt(t)'
         /\ (FirstHandled' <=> FirstHandled) /\ (TcbHandled' <=> TcbHandled)
         /\ (AbortInHand' <=> AbortInHand) /\ (PutHandled' <=> PutHandled)
         /\ (BreakHandled' <=> BreakHandled) /\ (Busy("worker")' <=> Busy("worker"))
         /\ (In("worker", "tcb")' <=> In("worker", "tcb"))
         /\ (Accepting' <=> Accepting) /\ (Replying' <=> Replying)
         /\ (Worker'.at = "idle" <=> Worker.at = "idle")
         /\ (Worker'.at = "handle" <=> Worker.at = "handle")
         /\ (Worker'.at = "timeout" <=> Worker.at = "timeout")
         /\ Worker'.cpl = Worker.cpl /\ Worker'.then = Worker.then
         /\ (Worker'.rel <=> Worker.rel)
  <1>1. /\ thr[t].at \in {"modify", "fw"} /\ thr'[t].at \in {"fw", "after"}
        /\ thr'[t].then = thr[t].then /\ thr'[t].rel = thr[t].rel /\ thr'[t].cpl = thr[t].cpl
        /\ thr'[t].held >= thr[t].held
        /\ thr'[t].disc > 0 => thr[t].disc > 0 \/ thr'[t].held > thr[t].held
    BY DEF Shifts
  <1>2. \A s \in Threads : thr'[s] = thr[s] \/ s = t
    BY DEF Shifts, Others
  <1>3. \A s \in Threads : /\ Busy(s)' <=> Busy(s)
                           /\ thr'[s].then = thr[s].then /\ thr'[s].cpl = thr[s].cpl
                           /\ thr'[s].rel = thr[s].rel
                           /\ thr'[s].at = thr[s].at \/ (Busy(s) /\ Busy(s)')
    BY <1>1, <1>2 DEF Busy
  <1>4. RestAt(t)'
    <2>1. RestAt(t) /\ thr[t].held \in Nat /\ thr'[t].held \in Nat
      BY DEF RInv, RestInv, TypeInv, ThrRecords
    <2>2. thr'[t].disc > 0 => thr'[t].held > 0
      BY <1>1, <2>1 DEF RestAt
    <2>3. thr[t].held > 0 => thr'[t].held > 0
      BY <1>1, <2>1
    <2>4. ~thr'[t].rel /\ ~In(t, "disc_failed")'
      BY <1>1, <2>1 DEF RestAt, In, Busy
    <2>5. t # "user" => thr'[t].held > 0 \/ Bare(t)'
      <3>1. t # "user" => thr[t].held > 0 \/ Bare(t)
        BY <1>1, <2>1 DEF RestAt
      <3>2. Bare(t) => Bare(t)'
        BY <1>1 DEF Bare, In, Busy
      <3> QED
        BY <2>3, <3>1, <3>2
    <2> QED
      BY <1>1, <2>2, <2>4, <2>5 DEF RestAt
  <1>5. "worker" \in Threads /\ "ulp" \in Threads
    BY DEF Threads
  <1>6. Worker' = thr'["worker"]
    BY DEF Worker
  <1>7. /\ (Worker'.at = "idle" <=> Worker.at = "idle")
        /\ (Worker'.at = "handle" <=> Worker.at = "handle")
        /\ (Worker'.at = "timeout" <=> Worker.at = "timeout")
        /\ Worker'.cpl = Worker.cpl /\ Worker'.then = Worker.then
        /\ (Worker'.rel <=> Worker.rel) /\ (Busy("worker")' <=> Busy("worker"))
    BY <1>3, <1>5, <1>6 DEF Worker, Busy
  <1>8. \A s \in Threads, x \in Thens : In(s, x)' <=> In(s, x)
    BY <1>3 DEF In
  <1>9. /\ (In("worker", "tcb")' <=> In("worker", "tcb"))
        /\ (In("worker", "peer_abort")' <=> In("worker", "peer_abort"))
        /\ (Accepting' <=> Accepting) /\ (Replying' <=> Replying)
    BY <1>5, <1>8 DEF Accepting, Replying, Thens
  <1>10. /\ (FirstHandled' <=> FirstHandled) /\ (TcbHandled' <=> TcbHandled)
         /\ (AbortInHand' <=> AbortInHand) /\ (PutHandled' <=> PutHandled)
         /\ (BreakHandled' <=> BreakHandled)
    BY <1>7, <1>9 DEF FirstHandled, TcbHandled, AbortInHand, PutHandled, BreakHandled
  <1>11. Busy(t)
    BY <1>1 DEF Busy
  <1> QED
    BY <1>2, <1>4, <1>7, <1>9, <1>10, <1>11

(* A queue pair that has no endpoint gets one in the reply or the accept.  *)
LEMMA ShiftsUnlinked ==
  ASSUME TypeInv, TypeInv', EventInv, NEW t \in Threads, Shifts(t), ~qp.ep
  PROVE  \/ t = "worker" /\ Replying
         \/ t = "ulp" /\ Accepting
         \/ ~qp'.ep /\ hw'.fw = hw.fw /\ (thr[t].disc = 0 => thr'[t].disc = 0)
  <1>1. CASE thr[t].at = "modify" /\ thr[t].to = "RTS"
    BY <1>1 DEF EventInv, LockInv, Replying, Accepting, In, Busy
  <1>2. CASE ~(thr[t].at = "modify" /\ thr[t].to = "RTS")
    <2>1. ~qp'.ep /\ hw'.fw = hw.fw /\ (thr'[t].disc > 0 => thr[t].disc > 0)
      BY <1>2 DEF Shifts
    <2>2. thr'[t].disc \in 0..2
      BY DEF TypeInv, ThrRecords
    <2> QED
      BY <2>1, <2>2
  <1> QED
    BY <1>1, <1>2

LEMMA ShiftsTimer ==
  ASSUME TypeInv, TypeInv', EventInv, RInv, NEW t \in Threads, Shifts(t)
  PROVE  TimerInv'
  <1>1. TimerOK(ep') /\ (Started(ep) => Started(ep'))
    BY DEF RInv, TimerInv, Shifts, Calm, Ticks
  <1>2. CASE Early
    <2>1. ~Busy("worker") /\ thr["ulp"].at = "idle" /\ ~qp.ep
      BY <1>2 DEF Early
    <2>2. t \notin {"worker", "ulp"}
      BY <2>1, ShiftsThreads DEF Busy
    <2>3. ~qp'.ep /\ hw'.fw = hw.fw /\ (thr[t].disc = 0 => thr'[t].disc = 0)
      BY <2>1, <2>2, ShiftsUnlinked
    <2>4. \A s \in Threads : thr'[s] = thr[s] \/ s = t
      BY ShiftsThreads
    <2>5. \A s \in Threads : thr'[s].disc = 0
      BY <1>2, <2>3, <2>4 DEF Early
    <2>6. thr'["ulp"].at = "idle"
      BY <2>1, <2>2, <2>4 DEF Threads
    <2>7. /\ ep'.state = ep.state /\ (Stops(ep') => Stops(ep)) /\ (ep'.ulp <=> ep.ulp)
          /\ (ep'.listed <=> ep.listed) /\ (Peer' <=> Peer) /\ (hw'.rdma <=> hw.rdma)
      BY DEF Shifts, Same, Steady, Duties, Calm, Ticks, Peer
    <2>8. /\ (BreakQueued' <=> BreakQueued) /\ (BreakHandled' <=> BreakHandled)
          /\ (Busy("worker")' <=> Busy("worker")) /\ (Worker'.at = "timeout" <=> Worker.at = "timeout")
      BY ShiftsThreads, QueueSame DEF Shifts
    <2>9. Early'
      BY <1>2, <2>3, <2>5, <2>6, <2>7, <2>8 DEF Early
    <2> QED
      BY <1>1, <2>9 DEF TimerInv
  <1>3. CASE Started(ep)
    BY <1>1, <1>3 DEF TimerInv
  <1> QED
    BY <1>2, <1>3 DEF RInv, TimerInv

(* What nobody changes. *)
LEMMA ShiftsFrame ==
  ASSUME TypeInv, TypeInv', RInv, NEW t \in Threads, Shifts(t)
  PROVE  /\ ep'.side = ep.side /\ ep'.state = ep.state /\ ep'.hwtid = ep.hwtid
         /\ (ep'.retry_v1 <=> ep.retry_v1) /\ (ep'.cm_id <=> ep.cm_id) /\ (Peer' <=> Peer)
         /\ (ep'.base <=> ep.base) /\ (ep'.hold <=> ep.hold)
         /\ ep'.tcbs = ep.tcbs /\ ep'.intr = ep.intr /\ (Active' <=> Active)
         /\ (Started(ep') <=> Started(ep))
         /\ (Opening' <=> Opening) /\ hw'.tcb = hw.tcb
         /\ (FirstQueued' <=> FirstQueued) /\ (TcbOut' <=> TcbOut) /\ (Under' <=> Under)
         /\ Firsts' = Firsts /\ Tcbs' = Tcbs /\ Aborts1' = Aborts1
         /\ (PutQueued' <=> PutQueued) /\ rxq' = rxq
  <1>1. /\ ep'.side = ep.side /\ ep'.state = ep.state /\ ep'.hwtid = ep.hwtid
        /\ (ep'.retry_v1 <=> ep.retry_v1) /\ (ep'.cm_id <=> ep.cm_id) /\ (Peer' <=> Peer)
        /\ (ep'.base <=> ep.base) /\ (ep'.hold <=> ep.hold)
        /\ ep'.tcbs = ep.tcbs /\ ep'.intr = ep.intr
        /\ (Started(ep') <=> Started(ep))
    BY DEF Shifts, Same, Steady, Silent, Duties, Calm, Ticks, Peer
  <1>2. (Active' <=> Active)
    BY <1>1 DEF Active
  <1>3. rxq' = rxq /\ (Opening' <=> Opening) /\ hw'.tcb = hw.tcb
    BY DEF Shifts, Opening
  <1>4. /\ (FirstQueued' <=> FirstQueued)
        /\ Firsts' = Firsts /\ Tcbs' = Tcbs /\ Aborts1' = Aborts1
        /\ (PutQueued' <=> PutQueued)
    BY <1>3, QueueSame
  <1>5. (FirstHandled' <=> FirstHandled) /\ (TcbHandled' <=> TcbHandled)
    BY ShiftsThreads
  <1>6. TcbOut' <=> TcbOut
    BY <1>3, <1>4, <1>5 DEF TcbOut
  <1>7. Under' <=> Under
    BY <1>3, <1>4, <1>5 DEF Under
  <1> QED
    BY <1>1, <1>2, <1>3, <1>4, <1>6, <1>7

LEMMA ShiftsUnder ==
  ASSUME TypeInv, TypeInv', EventInv, RInv, NEW t \in Threads, Shifts(t)
  PROVE  UnderInv' /\ LinkInv'
  <1>1. Under => ~qp'.ep /\ \A s \in Threads : thr'[s].disc = 0
    <2> SUFFICES ASSUME Under PROVE ~qp'.ep /\ \A s \in Threads : thr'[s].disc = 0
      OBVIOUS
    <2>1. /\ ~Busy("worker") /\ ~qp.ep /\ (\A s \in Threads : thr[s].disc = 0)
          /\ ep.state \in {"CONNECTING", "DEAD"}
      BY DEF RInv, UnderInv
    <2>2. ~Accepting
      BY <2>1 DEF EventInv, SideInv, PassiveInv
    <2>3. ~Replying
      BY <2>1 DEF Replying, In
    <2>4. ~qp'.ep /\ (thr[t].disc = 0 => thr'[t].disc = 0)
      BY <2>1, <2>2, <2>3, ShiftsUnlinked
    <2>5. \A s \in Threads : thr'[s] = thr[s] \/ s = t
      BY ShiftsThreads
    <2> QED
      BY <2>1, <2>4, <2>5
  <1>2. UnderInv'
    <2>1. Under' =>
            /\ ep'.base /\ ep'.state \in {"CONNECTING", "DEAD"} /\ ~Peer' /\ ~ep'.hold /\ ~TcbOut'
            /\ ~Worker'.rel /\ ~Busy("worker")' /\ ~qp'.ep
            /\ \A s \in Threads : thr'[s].disc = 0
            /\ Active' => ep'.hwtid # "own"
            /\ ~Active' => ~Started(ep')
      BY <1>1, ShiftsFrame, ShiftsThreads DEF RInv, UnderInv
    <2>2. ~Active' /\ (Opening' \/ FirstQueued') =>
            /\ Worker'.at = "idle"
            /\ Opening' => rxq' = <<>>
            /\ FirstQueued' => rxq'[1].op \in FirstOps
      BY ShiftsFrame, ShiftsThreads DEF RInv, UnderInv
    <2> QED
      BY <2>1, <2>2 DEF UnderInv
  <1>3. LinkInv'
    <2> SUFFICES ASSUME Active
                 PROVE  /\ thr'["ulp"].at = "idle"
                        /\ qp'.ep \/ thr'["user"].disc > 0 \/ Replying' =>
                               ep'.state \in Linked /\ ~Under'
      BY ShiftsFrame DEF LinkInv
    <2>1. /\ thr["ulp"].at = "idle"
          /\ qp.ep \/ thr["user"].disc > 0 \/ Replying => ep.state \in Linked /\ ~Under
      BY DEF RInv, LinkInv
    <2>2. Busy(t) /\ \A s \in Threads : thr'[s] = thr[s] \/ s = t
      BY ShiftsThreads
    <2>3. t # "ulp"
      BY <2>1, <2>2 DEF Busy
    <2>4. thr'["ulp"].at = "idle"
      BY <2>1, <2>2, <2>3 DEF Threads
    <2>5. (qp'.ep \/ thr'["user"].disc > 0 \/ Replying') =>
              (qp.ep \/ thr["user"].disc > 0 \/ Replying)
      <3>1. Replying' <=> Replying
        BY ShiftsThreads
      <3>2. thr["user"].disc \in 0..2 /\ thr'["user"].disc \in 0..2
        BY DEF TypeInv, ThrRecords, Threads
      <3>3. ~qp.ep /\ ~Replying => ~qp'.ep /\ (thr[t].disc = 0 => thr'[t].disc = 0)
        BY <2>3, ShiftsUnlinked
      <3>4. ~qp.ep /\ ~Replying /\ thr["user"].disc = 0 => thr'["user"].disc = 0
        BY <2>2, <3>3 DEF Threads
      <3> QED
        BY <3>1, <3>2, <3>3, <3>4
    <2>6. ep'.state = ep.state /\ (Under' <=> Under)
      BY ShiftsFrame
    <2> QED
      BY <2>1, <2>4, <2>5, <2>6
  <1> QED
    BY <1>2, <1>3

LEMMA ShiftsKeeps ==
  ASSUME TypeInv, TypeInv', EventInv, RInv, NEW t \in Threads, Shifts(t)
  PROVE  RInv'
  <1>1. ~fatal'
    BY DEF RInv, Shifts
  <1>2. RestInv'
    BY ShiftsThreads, RestKept DEF RInv, Shifts
  <1>3. QpInv'
    <2>1. qp'.ep <=> qp'.state \in {"RTS", "CLOSING", "TERMINATE"}
      BY DEF Shifts
    <2>2. \A s \in Threads : thr'[s].at = "fw" => qmutex' = s /\ qp'.ep
      <3> SUFFICES ASSUME NEW s \in Threads, thr'[s].at = "fw"
                   PROVE  qmutex' = s /\ qp'.ep
        OBVIOUS
      <3>1. CASE s = t
        BY <3>1 DEF Shifts
      <3>2. CASE s # t
        <4>1. thr[s].at = "fw"
          BY <3>2, ShiftsThreads
        <4>2. qmutex = s
          BY <4>1 DEF RInv, QpInv
        <4>3. qmutex \in {"free", t}
          BY DEF Shifts
        <4> QED
          BY <3>2, <4>2, <4>3 DEF Threads
      <3> QED
        BY <3>1, <3>2
    <2> QED
      BY <2>1, <2>2 DEF QpInv
  <1>4. TimerInv'
    BY ShiftsTimer
  <1>5. FirstInv'
    BY ShiftsFrame, ShiftsThreads DEF RInv, FirstInv
  <1>6. UnderInv' /\ LinkInv'
    BY ShiftsUnder
  <1>7. OwnInv'
    BY ShiftsFrame, ShiftsThreads DEF RInv, OwnInv
  <1>8. TcbInv'
    BY ShiftsFrame, ShiftsThreads DEF RInv, TcbInv
  <1>9. IntrInv'
    <2>1. Bit(AbortInHand') = Bit(AbortInHand)
      BY ShiftsThreads DEF Bit
    <2>2. ep'.intr = ep.intr /\ Aborts1' = Aborts1
      BY ShiftsFrame
    <2> QED
      BY <2>1, <2>2 DEF RInv, IntrInv
  <1>10. RefsBalance'
    <2>1. /\ RefsBalance /\ Others(t)
          /\ Ledger(ep') - thr'[t].held - Bit(qp'.ep) = Ledger(ep) - thr[t].held - Bit(qp.ep)
      BY DEF RInv, Shifts
    <2> QED
      BY <2>1, BalanceKept
  <1>11. "alloc" \notin Faults => GoneInv'
    BY ShiftsFrame, ShiftsThreads DEF RInv, GoneInv
  <1> QED
    BY <1>1, <1>2, <1>3, <1>4, <1>5, <1>6, <1>7, <1>8, <1>9, <1>10, <1>11 DEF RInv

LEMMA ModifyKeepsRefs ==
  ASSUME Faultless, TypeInv, TypeInv', EventInv, RInv, NEW t \in Threads, Modify(t)
  PROVE  RInv'
  BY ModifyShifts, ShiftsKeeps

-----------------------------------------------------------------------------
(* c4iw_ep_disconnect: the thread goes, with its references.               *)
Departs(t) ==
  /\ thr[t].at = "end" /\ thr[t].disc > 0 /\ mutex = "free"
  /\ Leaves(t, 0, FALSE, thr[t].held)
  /\ UNCHANGED <<qp, qmutex, rxq, fatal>>
  /\ ep' \in EpRecords /\ Steady(ep, ep') /\ Silent(ep, ep') /\ Ticks(ep, ep')
  /\ (ep'.base <=> ep.base) /\ (ep'.hold <=> ep.hold) /\ (ep'.listed <=> ep.listed)
  /\ ep'.intr = ep.intr /\ Square(ep, thr[t].held, t)
  /\ HwSame(hw, hw')
  /\ \/ ep'.state = ep.state /\ ep'.tcbs = ep.tcbs /\ hw'.tcb = hw.tcb
     \/ /\ ep.state \notin GivenUp /\ ep'.state \in Late
        /\ ep'.tcbs = ep.tcbs /\ hw'.tcb = hw.tcb
     \/ /\ ep.state \notin GivenUp /\ ep'.state = "ABORTING"
        /\ ep'.tcbs = ep.tcbs + 1 /\ hw'.tcb = hw.tcb + 1

LEMMA DepartsThreads ==
  ASSUME TypeInv, TypeInv', RInv, NEW t \in Threads, Departs(t)
  PROVE  /\ \A s \in Threads : thr'[s] = thr[s] \/ (s = t /\ thr'[s].at = "idle")
         /\ \A s \in Threads : thr'[s].disc > 0 => thr[s].disc > 0
         /\ RestInv' /\ QpInv'
         /\ (FirstHandled' <=> FirstHandled) /\ (TcbHandled' <=> TcbHandled)
         /\ (AbortInHand' <=> AbortInHand) /\ (PutHandled' <=> PutHandled)
         /\ (BreakHandled' <=> BreakHandled) /\ (Busy("worker")' <=> Busy("worker"))
         /\ (In("worker", "tcb")' <=> In("worker", "tcb"))
         /\ (Accepting' <=> Accepting) /\ (Replying' <=> Replying)
         /\ Worker.at = "idle" => Worker'.at = "idle"
         /\ Worker'.at = "handle" => Worker.at = "handle" /\ Worker'.cpl = Worker.cpl
         /\ Busy("worker")' => Worker'.then = Worker.then
         /\ Worker'.rel => Worker.rel
         /\ thr["ulp"].at = "idle" => thr'["ulp"].at = "idle"
  <1>1. /\ thr[t].at = "end" /\ thr[t].disc > 0
        /\ thr'[t].at = "idle" /\ thr'[t].disc = 0 /\ ~thr'[t].rel /\ thr'[t].held = 0
        /\ Others(t)
    BY DEF Departs, Leaves
  <1>2. \A s \in Threads : thr'[s] = thr[s] \/ s = t
    BY <1>1 DEF Others
  <1>3. \A s \in Threads : /\ Busy(s)' <=> Busy(s)
                           /\ thr'[s] = thr[s] \/ (thr'[s].at = "idle" /\ thr[s].at = "end")
    BY <1>1, <1>2 DEF Busy
  <1>4. RestAt(t)'
    BY <1>1 DEF RestAt, In, Busy
  <1>5. RestInv'
    BY <1>1, <1>4, RestKept DEF RInv
  <1>6. QpInv'
    BY <1>3 DEF RInv, QpInv, Departs
  <1>7. "worker" \in Threads /\ "ulp" \in Threads
    BY DEF Threads
  <1>8. Worker' = thr'["worker"]
    BY DEF Worker
  <1>9. /\ (FirstHandled' <=> FirstHandled) /\ (TcbHandled' <=> TcbHandled)
        /\ (PutHandled' <=> PutHandled) /\ (BreakHandled' <=> BreakHandled)
    BY <1>3, <1>7, <1>8 DEF Worker, FirstHandled, TcbHandled, PutHandled, BreakHandled
  <1>10. \A s \in Threads, x \in Thens : In(s, x)' <=> In(s, x)
    BY <1>3 DEF In, Busy
  <1>11. /\ (In("worker", "tcb")' <=> In("worker", "tcb"))
         /\ (In("worker", "peer_abort")' <=> In("worker", "peer_abort"))
         /\ (Accepting' <=> Accepting) /\ (Replying' <=> Replying)
    BY <1>7, <1>10 DEF Accepting, Replying, Thens
  <1>12. AbortInHand' <=> AbortInHand
    BY <1>3, <1>7, <1>8, <1>11 DEF Worker, AbortInHand
  <1>13. /\ Worker.at = "idle" => Worker'.at = "idle"
         /\ Worker'.at = "handle" => Worker.at = "handle" /\ Worker'.cpl = Worker.cpl
         /\ Busy("worker")' => Worker'.then = Worker.then
         /\ Worker'.rel => Worker.rel
         /\ thr["ulp"].at = "idle" => thr'["ulp"].at = "idle"
         /\ Busy("worker")' <=> Busy("worker")
    BY <1>1, <1>2, <1>3, <1>7, <1>8 DEF Worker, Busy
  <1>14. \A s \in Threads : thr'[s].disc > 0 => thr[s].disc > 0
    BY <1>1, <1>2
  <1>15. \A s \in Threads : thr'[s] = thr[s] \/ (s = t /\ thr'[s].at = "idle")
    BY <1>1, <1>2
  <1> QED
    BY <1>5, <1>6, <1>9, <1>11, <1>12, <1>13, <1>14, <1>15

LEMMA DepartsKeeps ==
  ASSUME TypeInv, TypeInv', EventInv, RInv, NEW t \in Threads, Departs(t)
  PROVE  RInv'
  <1>1. ~Under /\ ~Early /\ Started(ep) /\ TimerOK(ep)
    BY DEF RInv, UnderInv, TimerInv, Early, Departs
  <1>2. /\ Firsts' = Firsts /\ Tcbs' = Tcbs /\ Aborts1' = Aborts1 /\ rxq' = rxq
        /\ (FirstQueued' <=> FirstQueued) /\ (PutQueued' <=> PutQueued)
    BY QueueSame DEF Departs
  <1>3. /\ (Opening' <=> Opening) /\ (Active' <=> Active) /\ (Peer' <=> Peer)
        /\ (Accepting' <=> Accepting)
    BY DepartsThreads DEF Departs, HwSame, Opening, Active, Steady, Peer
  <1>4. ~Under' /\ ~fatal'
    BY <1>1, <1>2, <1>3, DepartsThreads DEF Under, RInv, Departs
  <1>5. TimerInv'
    BY <1>1 DEF TimerInv, Departs, Ticks
  <1>6. FirstInv'
    BY <1>2, <1>3, DepartsThreads DEF RInv, FirstInv
  <1>7. UnderInv'
    <2>1. ~(Opening' \/ FirstQueued')
      BY <1>4 DEF Under
    <2> QED
      BY <1>4, <2>1 DEF UnderInv
  <1>8. OwnInv'
    BY DepartsThreads DEF RInv, OwnInv, Departs, Steady
  <1>9. ep'.state \in Linked \/ ep'.state = ep.state
    BY DEF Departs, Linked, Late
  <1>10. LinkInv'
    <2> SUFFICES ASSUME Active
                 PROVE  /\ thr'["ulp"].at = "idle"
                        /\ qp'.ep \/ thr'["user"].disc > 0 \/ Replying' => ep'.state \in Linked
      BY <1>3, <1>4 DEF LinkInv
    <2>1. /\ thr["ulp"].at = "idle"
          /\ qp.ep \/ thr["user"].disc > 0 \/ Replying => ep.state \in Linked
      BY DEF RInv, LinkInv
    <2>2. qp' = qp /\ (Replying' <=> Replying) /\ thr'["ulp"].at = "idle"
          /\ (thr'["user"].disc > 0 => thr["user"].disc > 0)
      BY <2>1, DepartsThreads DEF Departs, Threads
    <2> QED
      BY <1>9, <2>1, <2>2
  <1>11. TcbInv'
    <2>1. TcbInv /\ ~Accepting
      BY DEF RInv, EventInv, LockInv, Departs, Accepting, In, Locked, Threads
    <2>2. /\ (TcbHandled' <=> TcbHandled) /\ (In("worker", "tcb")' <=> In("worker", "tcb"))
          /\ (ep'.hold <=> ep.hold)
      BY DepartsThreads DEF Departs
    <2>3. CASE ep'.tcbs = ep.tcbs /\ hw'.tcb = hw.tcb
      <3>1. TcbOut' <=> TcbOut
        BY <1>2, <2>2, <2>3 DEF TcbOut
      <3>2. ep.state \in GivenUp => ep'.state \in GivenUp
        BY DEF Departs, GivenUp
      <3> QED
        BY <1>2, <1>3, <2>1, <2>2, <2>3, <3>1, <3>2 DEF TcbInv
    <2>4. CASE /\ ep.state \notin GivenUp /\ ep'.state = "ABORTING"
               /\ ep'.tcbs = ep.tcbs + 1 /\ hw'.tcb = hw.tcb + 1
      <3>1. ~TcbOut /\ ~Peer /\ ~ep.hold /\ ~In("worker", "tcb")
        BY <2>1, <2>4 DEF TcbInv
      <3>2. hw.tcb = 0 /\ Tcbs = {} /\ ~TcbHandled /\ ep.tcbs >= 0
        BY <2>1, <3>1 DEF TcbInv, TcbOut
      <3>3. ep.tcbs \in Int
        BY DEF TypeInv, EpRecords
      <3>4. ep'.tcbs >= 0 /\ ep'.tcbs > 0 /\ hw'.tcb = 1
        BY <2>4, <3>2, <3>3
      <3>5. Tcbs' = {} /\ ~TcbHandled' /\ ~In("worker", "tcb")' /\ ~ep'.hold /\ ~Peer'
            /\ ~Accepting'
        BY <1>2, <1>3, <2>1, <2>2, <3>1, <3>2
      <3>6. ep'.state \in GivenUp
        BY <2>4 DEF GivenUp
      <3> QED
        BY <3>4, <3>5, <3>6 DEF TcbInv
    <2> QED
      BY <2>3, <2>4 DEF Departs
  <1>12. IntrInv'
    <2>1. Bit(AbortInHand') = Bit(AbortInHand)
      BY DepartsThreads DEF Bit
    <2>2. ep'.intr = ep.intr
      BY DEF Departs
    <2> QED
      BY <1>2, <2>1, <2>2 DEF RInv, IntrInv
  <1>13. RefsBalance'
    <2>1. RefsBalance /\ Others(t) /\ qp' = qp
          /\ Ledger(ep') - thr'[t].held = Ledger(ep) - thr[t].held
      BY DEF RInv, Departs, Leaves, Square
    <2>2. /\ Ledger(ep) \in Int /\ Ledger(ep') \in Int /\ thr[t].held \in Int
          /\ thr'[t].held \in Int /\ Bit(qp.ep) \in Int
      BY LedgerIsInt DEF TypeInv, ThrRecords, Bit
    <2>3. Ledger(ep') - thr'[t].held - Bit(qp.ep) = Ledger(ep) - thr[t].held - Bit(qp.ep)
      BY <2>1, <2>2
    <2> QED
      BY <2>1, <2>3, BalanceKept
  <1>14. ASSUME "alloc" \notin Faults
         PROVE  GoneInv'
    <2>1. GoneInv
      BY <1>14 DEF RInv
    <2>2. /\ (ep'.cm_id <=> ep.cm_id) /\ (ep'.base <=> ep.base)
          /\ ep'.state = ep.state \/ (ep.state \notin GivenUp /\ ep'.state \in Late)
      BY DEF Departs, Silent, Late
    <2>3. (PutHandled' <=> PutHandled) /\ (Worker'.rel => Worker.rel)
      BY DepartsThreads
    <2>4. ~PutQueued' /\ ~PutHandled'
      <3>1. PutOps \subseteq FirstOps
        BY DEF PutOps, FirstOps, Untid
      <3>2. (PutQueued => FirstQueued) /\ (PutHandled => FirstHandled)
        BY <3>1 DEF PutQueued, FirstQueued, Firsts, PutHandled, FirstHandled
      <3> QED
        BY <1>1, <1>2, <2>3, <3>2 DEF Under
    <2>5. Late \cap Waiting = {} /\ Late \subseteq Linked /\ GivenUp \subseteq Late
      BY DEF Late, Waiting, Linked, GivenUp
    <2> QED
      BY <1>3, <1>4, <2>1, <2>2, <2>3, <2>4, <2>5 DEF GoneInv, Waiting
  <1> QED
    BY <1>4, <1>5, <1>6, <1>7, <1>8, <1>10, <1>11, <1>12, <1>13, <1>14, DepartsThreads DEF RInv

LEMMA DisconnectingFacts ==
  ASSUME TypeInv, RInv, NEW t \in Threads, Disconnecting(t)
  PROVE  /\ thr[t].at = "end" /\ thr[t].disc > 0 /\ mutex = "free" /\ ep \in EpRecords
         /\ Started(ep) /\ TimerOK(ep) /\ ~fatal
  BY DEF TypeInv, RInv, TimerInv, Early, Disconnecting, At

(* The unlock, after something that is level. *)
LEMMA LevelDeparts ==
  ASSUME TypeInv, RInv, NEW t \in Threads, Disconnecting(t), NEW e \in EpRecords,
         Steady(ep, e), Silent(ep, e), Level(ep, e), Leave(t, e, 0, FALSE),
         UNCHANGED <<qp, qmutex, rxq, fatal>>, HwSame(hw, hw'), hw'.tcb = hw.tcb,
         e.state = ep.state \/ (ep.state \notin GivenUp /\ e.state \in Late)
  PROVE  Departs(t)
  <1>1. 0 \in 0..2 /\ FALSE \in BOOLEAN /\ Threaded
    BY DEF TypeInv, Threaded
  <1>2. ep' \in EpRecords /\ Same(e, ep')
    BY <1>1, LeaveEffect
  <1>3. /\ Leaves(t, 0, FALSE, thr[t].held)
        /\ Duties(e, ep') /\ Ticks(e, ep') /\ Square(e, thr[t].held, t)
    BY <1>1, LeaveBooks
  <1>4. Square(ep, thr[t].held, t)
    BY <1>3 DEF Square, Level
  <1>5. Steady(ep, ep') /\ Silent(ep, ep') /\ ep'.state = e.state
    BY <1>2 DEF Same, Steady, Silent
  <1>6. /\ Ticks(ep, ep') /\ (ep'.base <=> ep.base) /\ (ep'.hold <=> ep.hold)
        /\ (ep'.listed <=> ep.listed) /\ ep'.intr = ep.intr /\ ep'.tcbs = ep.tcbs
    BY <1>3 DEF Level, Duties, Ticks
  <1> QED
    BY <1>2, <1>3, <1>4, <1>5, <1>6, DisconnectingFacts DEF Departs

LEMMA DisconnectIgnoredDeparts ==
  ASSUME TypeInv, RInv, NEW t \in Threads, DisconnectIgnored(t)
  PROVE  Departs(t)
  <1>1. /\ Disconnecting(t) /\ Leave(t, ep, 0, FALSE)
        /\ UNCHANGED <<qp, qmutex, rxq, hw, fatal>>
    BY DEF DisconnectIgnored
  <1>2. ep \in EpRecords /\ Steady(ep, ep) /\ Silent(ep, ep) /\ Level(ep, ep)
        /\ HwSame(hw, hw) /\ hw' = hw
    BY <1>1, LevelReflexive DEF TypeInv, Steady, Silent, HwSame
  <1> QED
    BY <1>1, <1>2, LevelDeparts

(* The close timer: the timer is stopped once it was started. *)
LEMMA RestartBooks ==
  ASSUME NEW e \in EpRecords, Started(e), TimerOK(e)
  PROVE  Level(e, RestartTimer(e))
  <1> DEFINE f == ClearFlag(e, "STOP_MPA_TIMER")
  <1>1. f \in EpRecords
    BY ClearFlagSame DEF EpFlags
  <1>2. /\ f.kref = e.kref /\ f.tcbs = e.tcbs /\ f.intr = e.intr
        /\ f.base = e.base /\ f.timer = e.timer /\ f.listed = e.listed
        /\ f.ulp = e.ulp /\ f.hold = e.hold /\ f.flags = e.flags \ {"STOP_MPA_TIMER"}
    BY DEF ClearFlag, EpRecords
  <1> HIDE DEF f
  <1>3. (Expired(f) <=> Expired(e)) /\ (Stops(f) => Stops(e))
    BY <1>2 DEF Expired, Stops
  <1>4. Duties(e, f) /\ Ticks(e, f) /\ Ledger(f) = Ledger(e)
    BY <1>2, <1>3 DEF Duties, Ticks, Ledger, Started, TimerOK
  <1>5. Level(e, f)
    BY <1>4 DEF Level
  <1>6. Level(e, StopTimer(f)) /\ StopTimer(f) \in EpRecords
    <2>1. Started(f) /\ TimerOK(f)
      BY <1>4 DEF Ticks
    <2> QED
      BY <1>1, <1>5, <2>1, StopTimerBooks, StopTimerSame, LevelTransitive
  <1>7. Level(e, StartTimer(StopTimer(f)))
    BY <1>6, StartTimerBooks, LevelTransitive
  <1>8. Level(e, StartTimer(e))
    BY StartTimerBooks
  <1> QED
    BY <1>7, <1>8 DEF RestartTimer, f

LEMMA ClosingBooks ==
  ASSUME TypeInv, Started(ep), TimerOK(ep)
  PROVE  Level(ep, Closing(ep))
  <1>1. "CLOSING" \in States /\ "MORIBUND" \in States
        /\ "CLOSE_SENT" \in EpFlags \ {"TIMEOUT", "STOP_MPA_TIMER", "PEER_ABORT_IN_PROGRESS"}
    BY DEF States, EpFlags
  <1>2. ep \in EpRecords
    BY DEF TypeInv
  <1>3. ASSUME NEW f, f \in EpRecords, Level(ep, f)
        PROVE  Level(ep, SetFlag(f, "CLOSE_SENT"))
    BY <1>1, <1>3, FlagBooks, LevelTransitive
  <1>4. SetState(ep, "MORIBUND") \in EpRecords /\ Level(ep, SetState(ep, "MORIBUND"))
    BY <1>1, <1>2, StateFields, StateBooks
  <1>5. SetState(ep, "CLOSING") \in EpRecords /\ Level(ep, SetState(ep, "CLOSING"))
    BY <1>1, <1>2, StateFields, StateBooks
  <1>6. Started(SetState(ep, "CLOSING")) /\ TimerOK(SetState(ep, "CLOSING"))
    BY <1>5 DEF Level, Ticks
  <1>7. /\ RestartTimer(SetState(ep, "CLOSING")) \in EpRecords
        /\ Level(ep, RestartTimer(SetState(ep, "CLOSING")))
    BY <1>5, <1>6, RestartBooks, RestartTimerSame, LevelTransitive
  <1> QED
    BY <1>3, <1>4, <1>7 DEF Closing

LEMMA DisconnectCloseDeparts ==
  ASSUME TypeInv, RInv, NEW t \in Threads, DisconnectClose(t)
  PROVE  Departs(t)
  <1>1. /\ Disconnecting(t) /\ MayClose /\ Leave(t, Closing(ep), 0, FALSE)
        /\ hw' = AskClose(hw) /\ UNCHANGED <<qp, qmutex, rxq, fatal>>
    BY DEF DisconnectClose
  <1>2. ep \in EpRecords /\ Started(ep) /\ TimerOK(ep)
    BY <1>1, DisconnectingFacts
  <1>3. Level(ep, Closing(ep))
    BY <1>2, ClosingBooks
  <1>4. /\ Closing(ep) \in EpRecords /\ Steady(ep, Closing(ep)) /\ Silent(ep, Closing(ep))
        /\ Closing(ep).state \in Late
    BY <1>2, ClosingFields DEF Late
  <1>5. ep.state \notin GivenUp
    BY <1>1 DEF MayClose, CloseUnsent, Connecting, GivenUp
  <1>6. HwSame(hw, hw') /\ hw'.tcb = hw.tcb
    BY <1>1, AskCloseSame DEF TypeInv, AskClose, HwRecords
  <1> QED
    BY <1>1, <1>3, <1>4, <1>5, <1>6, LevelDeparts

(* The connection is given up. *)
Abandoned == SetFlag(SetState(IF CloseUnsent THEN StopTimer(ep) ELSE ep, "ABORTING"), "CLOSE_SENT")

LEMMA AbandonedBooks ==
  ASSUME TypeInv, Started(ep), TimerOK(ep)
  PROVE  /\ Abandoned \in EpRecords /\ Steady(ep, Abandoned) /\ Silent(ep, Abandoned)
         /\ Abandoned.state = "ABORTING" /\ Level(ep, Abandoned)
  <1> DEFINE e == IF CloseUnsent THEN StopTimer(ep) ELSE ep
             s == SetState(e, "ABORTING")
  <1>1. ep \in EpRecords
    BY DEF TypeInv
  <1>2. e \in EpRecords /\ Same(ep, e) /\ Level(ep, e)
    BY <1>1, StopTimerSame, StopTimerBooks, SameReflexive, LevelReflexive
  <1> HIDE DEF e
  <1>3. "ABORTING" \in States
    BY DEF States
  <1>4. s \in EpRecords /\ s.state = "ABORTING" /\ Steady(e, s) /\ Silent(e, s) /\ Level(e, s)
    BY <1>2, <1>3, StateFields, StateBooks
  <1> HIDE DEF s
  <1>5. /\ SetFlag(s, "CLOSE_SENT") \in EpRecords /\ Same(s, SetFlag(s, "CLOSE_SENT"))
        /\ Level(s, SetFlag(s, "CLOSE_SENT"))
    BY <1>4, SetFlagSame, FlagBooks DEF EpFlags
  <1>6. Abandoned = SetFlag(s, "CLOSE_SENT")
    BY DEF Abandoned, s, e
  <1>7. Level(ep, Abandoned)
    BY <1>2, <1>4, <1>5, <1>6, LevelTransitive
  <1>8. Steady(ep, Abandoned) /\ Silent(ep, Abandoned) /\ Abandoned.state = "ABORTING"
    BY <1>2, <1>4, <1>5, <1>6 DEF Same, Steady, Silent
  <1> QED
    BY <1>5, <1>6, <1>7, <1>8

LEMMA DisconnectAbortDeparts ==
  ASSUME TypeInv, RInv, NEW t \in Threads, DisconnectAbort(t)
  PROVE  Departs(t)
  <1>1. /\ Disconnecting(t) /\ MayClose /\ Leave(t, SendAbort(Abandoned), 0, FALSE)
        /\ hw' = (IF ViaTcb THEN AskTcb(hw) ELSE AskAbort(hw))
        /\ UNCHANGED <<qp, qmutex, rxq, fatal>>
    BY DEF DisconnectAbort, Abandoned
  <1>2. ep \in EpRecords /\ Started(ep) /\ TimerOK(ep) /\ ~fatal
    BY <1>1, DisconnectingFacts
  <1>3. /\ Abandoned \in EpRecords /\ Steady(ep, Abandoned) /\ Silent(ep, Abandoned)
        /\ Abandoned.state = "ABORTING" /\ Level(ep, Abandoned)
    BY <1>2, AbandonedBooks
  <1>4. ep.state \notin GivenUp /\ "ABORTING" \in Late
    BY <1>1 DEF MayClose, CloseUnsent, Connecting, GivenUp, Late
  <1>5. CASE ~ViaTcb
    <2>1. Leave(t, Abandoned, 0, FALSE) /\ hw' = AskAbort(hw)
      BY <1>1, <1>5 DEF SendAbort
    <2>2. HwSame(hw, hw') /\ hw'.tcb = hw.tcb
      BY <2>1, AskAbortSame DEF TypeInv, AskAbort, HwRecords
    <2> QED
      BY <1>1, <1>3, <1>4, <2>1, <2>2, LevelDeparts
  <1>6. CASE ViaTcb
    <2> DEFINE f == SetFlag(Abandoned, "ABORT_REQ_IN_PROGRESS")
               e == ReadTcb(f)
    <2>1. Leave(t, e, 0, FALSE) /\ hw' = AskTcb(hw)
      BY <1>1, <1>6 DEF SendAbort
    <2>2. HwSame(hw, hw') /\ hw'.tcb = hw.tcb + 1
      BY <2>1, AskTcbSame DEF TypeInv, AskTcb, HwRecords
    <2>3. f \in EpRecords /\ Same(Abandoned, f) /\ Level(Abandoned, f)
      BY <1>3, SetFlagSame, FlagBooks DEF EpFlags
    <2> HIDE DEF f
    <2>4. e \in EpRecords /\ Same(f, e) /\ Tcbed(f, e, 1)
      BY <1>2, <2>3, ReadTcbSame, ReadTcbBooks
    <2> HIDE DEF e
    <2>5. 0 \in 0..2 /\ FALSE \in BOOLEAN /\ Threaded
      BY DEF TypeInv, Threaded
    <2>6. ep' \in EpRecords /\ Same(e, ep')
      BY <2>1, <2>4, <2>5, LeaveEffect
    <2>7. /\ Leaves(t, 0, FALSE, thr[t].held)
          /\ Duties(e, ep') /\ Ticks(e, ep') /\ Square(e, thr[t].held, t)
      BY <2>1, <2>4, <2>5, LeaveBooks
    <2>8. Steady(ep, ep') /\ Silent(ep, ep') /\ ep'.state = "ABORTING"
      BY <1>3, <2>3, <2>4, <2>6 DEF Same, Steady, Silent
    <2>9. Level(ep, f)
      BY <1>3, <2>3, LevelTransitive
    <2>10. /\ Ticks(ep, ep') /\ (ep'.base <=> ep.base) /\ (ep'.hold <=> ep.hold)
           /\ (ep'.listed <=> ep.listed) /\ ep'.intr = ep.intr /\ ep'.tcbs = ep.tcbs + 1
      BY <2>4, <2>7, <2>9 DEF Level, Duties, Ticks, Tcbed
    <2>11. Square(ep, thr[t].held, t)
      <3>1. Ledger(e) = Ledger(ep)
        BY <2>4, <2>9 DEF Level, Tcbed
      <3> QED
        BY <2>7, <3>1 DEF Square
    <2> QED
      BY <1>1, <1>4, <2>2, <2>6, <2>7, <2>8, <2>10, <2>11, DisconnectingFacts DEF Departs
  <1> QED
    BY <1>5, <1>6

(* The last reference of the connection itself goes with its identifier.   *)
LEMMA ReleaseBooks ==
  ASSUME NEW e \in EpRecords, Bit(e.base) = 1
  PROVE  LET f == ReleaseResources(e) IN
         /\ ~f.base /\ (f.hold <=> e.hold) /\ (f.listed <=> e.listed)
         /\ f.tcbs = e.tcbs /\ f.intr = e.intr /\ Ticks(e, f) /\ Ledger(f) = Ledger(e)
  <1> DEFINE f == ReleaseResources(e)
  <1>1. /\ f.kref = e.kref - 1 /\ f.base = FALSE /\ f.timer = e.timer /\ f.listed = e.listed
        /\ f.ulp = e.ulp /\ f.hold = e.hold /\ f.tcbs = e.tcbs /\ f.intr = e.intr
        /\ f.flags = e.flags \cup {"RELEASE_RESOURCES"}
    BY DEF ReleaseResources, Put, SetFlag, EpRecords
  <1> HIDE DEF f
  <1>2. (Expired(f) <=> Expired(e)) /\ (Stops(f) <=> Stops(e))
    BY <1>1 DEF Expired, Stops
  <1>3. Ticks(e, f)
    BY <1>1, <1>2 DEF Ticks, Started, TimerOK
  <1>4. Bit(f.base) = 0
    BY <1>1 DEF Bit
  <1>5. /\ Bit(f.timer) = Bit(e.timer) /\ Bit(f.listed) = Bit(e.listed)
        /\ Bit(f.ulp) = Bit(e.ulp) /\ Bit(f.hold) = Bit(e.hold)
    BY <1>1
  <1>6. /\ e.kref \in Int /\ e.tcbs \in Int /\ e.intr \in Int
        /\ Bit(e.timer) \in Int /\ Bit(e.listed) \in Int
        /\ Bit(e.ulp) \in Int /\ Bit(e.hold) \in Int
    BY DEF EpRecords, Bit
  <1>7. Ledger(f) = Ledger(e)
    <2>1. f.kref = e.kref - 1 /\ f.tcbs = e.tcbs /\ f.intr = e.intr
      BY <1>1
    <2> QED
      BY <1>4, <1>5, <1>6, <2>1 DEF Ledger
  <1> QED
    BY <1>1, <1>3, <1>7 DEF f

LEMMA ReleaseKeepsRefs ==
  ASSUME TypeInv, TypeInv', EventInv, RInv, NEW t \in Threads, Release(t)
  PROVE  RInv'
  <1> DEFINE e == ReleaseResources(ep)
  <1>1. /\ thr[t].at = "end" /\ thr[t].rel
        /\ Proceed(t, e, 0, FALSE, thr[t].held)
        /\ UNCHANGED <<qp, mutex, qmutex, rxq, hw, fatal>>
    BY DEF Release, At
  <1>2. t = "worker" /\ Worker.rel /\ Worker.at = "end" /\ Worker.held \in Nat /\ Worker.disc = 0
    BY <1>1 DEF RInv, RestInv, RestAt, Worker, TypeInv, ThrRecords
  <1>3. ep \in EpRecords /\ ep.base /\ ~Under /\ ~Opening /\ ~FirstQueued
    BY <1>2 DEF TypeInv, RInv, OwnInv, UnderInv, Under
  <1>4. /\ e \in EpRecords /\ Silent(ep, e) /\ e.state = ep.state /\ e.side = ep.side
        /\ e.hwtid # "own" /\ (e.ulp <=> ep.ulp) /\ (Peers(e) <=> Peers(ep))
    BY <1>3, ReleaseFields
  <1>5. /\ ~e.base /\ (e.hold <=> ep.hold) /\ (e.listed <=> ep.listed)
        /\ e.tcbs = ep.tcbs /\ e.intr = ep.intr /\ Ticks(ep, e) /\ Ledger(e) = Ledger(ep)
    <2>1. Bit(ep.base) = 1
      BY <1>3 DEF Bit
    <2>2. ep \in EpRecords
      BY <1>3
    <2> QED
      BY <2>1, <2>2, ReleaseBooks
  <1> HIDE DEF e
  <1>6. /\ ep' \in EpRecords /\ Same(e, ep') /\ Leaves("worker", 0, FALSE, Worker.held)
        /\ Duties(e, ep') /\ Ticks(e, ep') /\ WorkerSquare(e, Worker.held)
    <2>1. Proceed("worker", e, 0, FALSE, Worker.held)
      BY <1>1, <1>2 DEF Worker
    <2>2. 0 \in 0..2 /\ FALSE \in BOOLEAN
      OBVIOUS
    <2> QED
      BY <1>2, <1>4, <2>1, <2>2, WorkerProceeds
  <1>7. /\ ep'.side = ep.side /\ ep'.state = ep.state /\ (ep'.cm_id <=> ep.cm_id)
        /\ ep'.hwtid # "own" /\ (ep'.ulp <=> ep.ulp) /\ (Peer' <=> Peer)
    BY <1>4, <1>6 DEF Same, Steady, Silent, Peer
  <1>8. /\ ~ep'.base /\ (ep'.hold <=> ep.hold) /\ (ep'.listed <=> ep.listed)
        /\ ep'.tcbs = ep.tcbs /\ ep'.intr = ep.intr /\ Ticks(ep, ep')
        /\ WorkerSquare(ep, Worker.held)
    BY <1>5, <1>6 DEF Duties, Ticks, WorkerSquare, Square
  <1>9. Ended(0, FALSE, Worker.held)
    <2>1. ~(0 > 0)
      OBVIOUS
    <2> QED
      BY <1>1, <1>6, <1>7, <2>1, Zenon DEF Ended
  <1>10. 0 \in 0..2 /\ FALSE \in BOOLEAN
    OBVIOUS
  <1>11. TimerInv'
    <2>1. Early => /\ ep'.state \in {"CONNECTING", "DEAD"} /\ 0 = 0 /\ ~ep'.ulp /\ ~ep'.listed
                   /\ ~Peer' /\ hw'.fw <= 0 /\ ~hw'.rdma
      BY <1>1, <1>7, <1>8 DEF Early
    <2> QED
      BY <1>8, <1>9, <1>10, <2>1, TimerKept
  <1>12. UnderInv' /\ LinkInv'
    <2>1. hw'.conn = hw.conn /\ (ep.state \in Linked => ep'.state \in Linked)
      BY <1>1, <1>7
    <2> QED
      BY <1>3, <1>9, <1>10, <2>1, NotUnder
  <1>13. TcbInv'
    <2>1. Worker'.at \in {"idle", "end"} /\ Others("worker")
      BY <1>6 DEF Leaves, Worker
    <2>2. hw'.tcb \in {hw.tcb, 0} /\ rxq' = rxq
      BY <1>1
    <2>3. TcbInv /\ (TcbOut \/ Peer => ep'.state \in GivenUp)
      BY <1>7 DEF RInv, TcbInv
    <2> QED
      BY <1>7, <1>8, <2>1, <2>2, <2>3, TcbKept
  <1>14. IntrInv'
    <2>1. Worker'.at \in {"idle", "end"}
      BY <1>6 DEF Leaves, Worker
    <2>2. ep'.intr \in Int /\ rxq' = rxq /\ IntrInv
      BY <1>1, <1>6 DEF EpRecords, RInv
    <2> QED
      BY <1>8, <2>1, <2>2, IntrKept
  <1>15. Owned(FALSE)
    BY <1>7 DEF Owned
  <1>16. "alloc" \notin Faults => ToldOff(FALSE)
    <2> SUFFICES ASSUME "alloc" \notin Faults PROVE ToldOff(FALSE)
      OBVIOUS
    <2>1. /\ ~ep.cm_id /\ (~Active => ep.state \in GivenUp) /\ (Active => ep.state \notin Waiting)
      BY <1>2 DEF RInv, GoneInv, Waiting
    <2>2. /\ ~ep'.cm_id /\ (~Active => ep'.state \in GivenUp) /\ (Active => ep'.state \notin Waiting)
      BY <1>7, <2>1
    <2> QED
      BY <2>2, Zenon DEF ToldOff
  <1> QED
    BY <1>3, <1>8, <1>9, <1>10, <1>11, <1>12, <1>13, <1>14, <1>15, <1>16, EndKeeps

LEMMA LeavingKeepsRefs ==
  ASSUME Faultless, TypeInv, TypeInv', EventInv, RInv, NEW t \in Threads, Leaving(t)
  PROVE  RInv'
  <1>1. ~fatal /\ ~In(t, "disc_failed")
    BY DEF RInv, RestInv, RestAt
  <1>2. ~DisconnectFails(t) /\ ~DisconnectFailed(t) /\ ~DisconnectFatal(t)
    BY <1>1 DEF Faultless, DisconnectFails, SendFails, DisconnectFailed, DisconnectFatal,
                At, In, Busy
  <1> QED
    BY <1>2, DisconnectAbortDeparts, DisconnectCloseDeparts, DisconnectIgnoredDeparts,
       DepartsKeeps, ReleaseKeepsRefs DEF Leaving

-----------------------------------------------------------------------------
(* The ULP: a request it was given has its timer, and is not being opened. *)
Even(e, f) ==
  /\ Duties(e, f) /\ Ledger(f) = Ledger(e)
  /\ Started(e) => Started(f)
  /\ TimerOK(e) => TimerOK(f)

Given == ~Active /\ ~Under /\ Started(ep) /\ TimerOK(ep)

LEMMA UlpGiven ==
  ASSUME TypeInv, EventInv, RInv, ep.ulp \/ thr["ulp"].at # "idle"
  PROVE  Given
  <1>1. ~Active
    BY DEF EventInv, SideInv, RInv, LinkInv
  <1>2. Started(ep) /\ TimerOK(ep)
    BY DEF RInv, TimerInv, Early
  <1> QED
    BY <1>1, <1>2 DEF Given, RInv, UnderInv

Answers ==
  /\ Given /\ Others("ulp")
  /\ UNCHANGED <<qp, qmutex, rxq, fatal>>
  /\ HwSame(hw, hw') /\ hw'.tcb = hw.tcb
  /\ ep' \in EpRecords /\ ep'.side = ep.side /\ ep'.hwtid = ep.hwtid
  /\ (ep'.retry_v1 <=> ep.retry_v1) /\ (Peer' <=> Peer)
  /\ Duties(ep, ep') /\ Started(ep') /\ TimerOK(ep')
  /\ Square(ep, thr["ulp"].held, "ulp")
  /\ RestAt("ulp")' /\ thr'["ulp"].at # "fw"
  /\ ep'.state # ep.state \/ Accepting' => ep.state = "MPA_REQ_RCVD"
  /\ \/ (ep'.cm_id => ep.cm_id /\ ~Accepting) /\ ep'.state = ep.state
     \/ ep'.cm_id /\ Accepting' /\ ep'.state = ep.state
     \/ ep'.cm_id => ep'.state = "FPDU_MODE"

LEMMA AnswersKeep ==
  ASSUME TypeInv, TypeInv', EventInv, RInv, Answers
  PROVE  RInv'
  <1>1. ~Active /\ ~Under /\ "ulp" \in Threads
    BY DEF Answers, Given, Threads
  <1>2. /\ Firsts' = Firsts /\ Tcbs' = Tcbs /\ Aborts1' = Aborts1 /\ rxq' = rxq
        /\ (FirstQueued' <=> FirstQueued) /\ (PutQueued' <=> PutQueued)
    BY QueueSame DEF Answers
  <1>3. Worker' = Worker /\ Worker = thr["worker"]
    BY DEF Answers, Others, Threads, Worker
  <1>4. /\ (FirstHandled' <=> FirstHandled) /\ (TcbHandled' <=> TcbHandled)
        /\ (PutHandled' <=> PutHandled) /\ (Busy("worker")' <=> Busy("worker"))
        /\ (In("worker", "tcb")' <=> In("worker", "tcb"))
        /\ (In("worker", "peer_abort")' <=> In("worker", "peer_abort"))
        /\ (AbortInHand' <=> AbortInHand)
    <2>1. thr'["worker"] = thr["worker"]
      BY DEF Answers, Others, Threads
    <2>2. /\ (In("worker", "tcb")' <=> In("worker", "tcb"))
          /\ (In("worker", "peer_abort")' <=> In("worker", "peer_abort"))
          /\ (Busy("worker")' <=> Busy("worker"))
      BY <2>1 DEF In, Busy
    <2>3. /\ (FirstHandled' <=> FirstHandled) /\ (TcbHandled' <=> TcbHandled)
          /\ (PutHandled' <=> PutHandled)
      BY <1>3 DEF FirstHandled, TcbHandled, PutHandled
    <2>4. AbortInHand' <=> AbortInHand
      BY <1>3, <2>2 DEF AbortInHand
    <2> QED
      BY <2>2, <2>3, <2>4
  <1>5. (Opening' <=> Opening) /\ (Active' <=> Active) /\ hw'.tcb = hw.tcb /\ ~fatal'
    BY DEF Answers, HwSame, Opening, Active, RInv
  <1>6. ~Under'
    BY <1>1, <1>2, <1>4, <1>5 DEF Under
  <1>7. RestInv'
    BY <1>1, RestKept DEF RInv, Answers
  <1>8. QpInv'
    BY DEF RInv, QpInv, Answers, Others
  <1>9. TimerInv'
    BY DEF TimerInv, Answers
  <1>10. FirstInv'
    BY <1>2, <1>4, <1>5 DEF RInv, FirstInv
  <1>11. UnderInv'
    <2>1. ~(Opening' \/ FirstQueued')
      BY <1>6 DEF Under
    <2> QED
      BY <1>6, <2>1 DEF UnderInv
  <1>12. OwnInv'
    BY <1>3, <1>4 DEF RInv, OwnInv, Answers, Duties
  <1>13. LinkInv'
    BY <1>1, <1>5 DEF LinkInv
  <1>14. TcbInv'
    <2>1. TcbInv /\ (TcbOut' <=> TcbOut)
      BY <1>2, <1>4, <1>5 DEF RInv, TcbOut
    <2>2. /\ ep'.tcbs = ep.tcbs /\ (ep'.hold <=> ep.hold) /\ (Peer' <=> Peer)
          /\ ep'.state # ep.state \/ Accepting' => ep.state = "MPA_REQ_RCVD"
      BY DEF Answers, Duties
    <2>3. ep.state = "MPA_REQ_RCVD" => ~TcbOut /\ ~Peer
      BY <2>1 DEF TcbInv, GivenUp
    <2> QED
      BY <1>2, <1>4, <1>5, <2>1, <2>2, <2>3 DEF TcbInv
  <1>15. IntrInv'
    <2>1. Bit(AbortInHand') = Bit(AbortInHand)
      BY <1>4 DEF Bit
    <2>2. ep'.intr = ep.intr
      BY DEF Answers, Duties
    <2> QED
      BY <1>2, <2>1, <2>2 DEF RInv, IntrInv
  <1>16. RefsBalance'
    <2>1. RefsBalance /\ Others("ulp") /\ qp' = qp
          /\ Ledger(ep') - thr'["ulp"].held = Ledger(ep) - thr["ulp"].held
      BY DEF RInv, Answers, Square
    <2>2. /\ Ledger(ep) \in Int /\ Ledger(ep') \in Int /\ thr["ulp"].held \in Int
          /\ thr'["ulp"].held \in Int /\ Bit(qp.ep) \in Int
      BY <1>1, LedgerIsInt DEF TypeInv, ThrRecords, Bit
    <2>3. Ledger(ep') - thr'["ulp"].held - Bit(qp.ep) = Ledger(ep) - thr["ulp"].held - Bit(qp.ep)
      BY <2>1, <2>2
    <2> QED
      BY <1>1, <2>1, <2>3, BalanceKept
  <1>17. ASSUME "alloc" \notin Faults
         PROVE  GoneInv'
    <2>1. GoneInv
      BY <1>17 DEF RInv
    <2>2. (ep'.base <=> ep.base) /\ (Worker'.rel <=> Worker.rel)
      BY <1>3 DEF Answers, Duties
    <2>3. ~PutQueued' /\ ~PutHandled'
      <3>1. PutOps \subseteq FirstOps
        BY DEF PutOps, FirstOps, Untid
      <3>2. (PutQueued => FirstQueued) /\ (PutHandled => FirstHandled)
        BY <3>1 DEF PutQueued, FirstQueued, Firsts, PutHandled, FirstHandled
      <3> QED
        BY <1>1, <1>2, <1>4, <3>2 DEF Under
    <2>4. Worker'.rel \/ ~ep'.base => ~ep'.cm_id /\ ep'.state = ep.state /\ ep.state \in GivenUp
      <3>1. Worker.rel \/ ~ep.base => ~ep.cm_id /\ ep.state \in GivenUp
        BY <1>1, <2>1 DEF GoneInv
      <3>2. ep.state = "MPA_REQ_RCVD" => ep.state \notin GivenUp
        BY DEF GivenUp
      <3>3. /\ ep'.state # ep.state \/ Accepting' => ep.state = "MPA_REQ_RCVD"
            /\ \/ (ep'.cm_id => ep.cm_id /\ ~Accepting) /\ ep'.state = ep.state
               \/ ep'.cm_id /\ Accepting' /\ ep'.state = ep.state
               \/ ep'.cm_id => ep'.state = "FPDU_MODE"
        BY DEF Answers
      <3>4. "FPDU_MODE" \notin GivenUp
        BY DEF GivenUp
      <3> QED
        BY <2>2, <3>1, <3>2, <3>3, <3>4
    <2>5. ep'.cm_id => Accepting' \/ ep'.state \in Linked
      <3>1. ep.cm_id => Accepting \/ ep.state \in Linked
        BY <1>1, <2>1 DEF GoneInv
      <3>2. "FPDU_MODE" \in Linked
        BY DEF Linked
      <3> QED
        BY <3>1, <3>2 DEF Answers
    <2> QED
      BY <1>1, <1>5, <1>6, <2>3, <2>4, <2>5 DEF GoneInv
  <1> QED
    BY <1>5, <1>7, <1>8, <1>9, <1>10, <1>11, <1>12, <1>13, <1>14, <1>15, <1>16, <1>17 DEF RInv

(* It is idle when it answers: it has nothing left to do. *)
LEMMA UlpIdle ==
  ASSUME TypeInv, EventInv, RInv, ep.ulp, thr["ulp"].at = "idle"
  PROVE  /\ Given /\ thr["ulp"].held = 0 /\ thr["ulp"].disc = 0 /\ ~thr["ulp"].rel
         /\ ~Accepting /\ Bit(ep.ulp) = 1 /\ ep \in EpRecords
  <1>1. Given
    BY UlpGiven
  <1>2. RestAt("ulp") /\ ~Accepting
    BY DEF RInv, RestInv, Threads, Accepting, In, Busy
  <1> QED
    BY <1>1, <1>2 DEF RestAt, Bit, TypeInv

(* The reference the ULP was given becomes the call's. *)
Gave(e, f) ==
  /\ Duties(e, f) /\ Ledger(f) = Ledger(e) + 1
  /\ (Started(f) <=> Started(e)) /\ (TimerOK(f) <=> TimerOK(e))

LEMMA GaveBooks ==
  ASSUME NEW e \in EpRecords, Bit(e.ulp) = 1, NEW f,
         f.kref = e.kref, f.flags = e.flags, f.tcbs = e.tcbs, f.intr = e.intr,
         f.base = e.base, f.timer = e.timer, f.listed = e.listed, f.hold = e.hold,
         f.ulp = FALSE
  PROVE  Gave(e, f)
  <1>1. Duties(e, f) /\ (Started(f) <=> Started(e)) /\ (TimerOK(f) <=> TimerOK(e))
    BY DEF Duties, Started, TimerOK, Expired
  <1>2. Bit(f.ulp) = 0
    BY DEF Bit
  <1>3. /\ Bit(f.timer) = Bit(e.timer) /\ Bit(f.listed) = Bit(e.listed)
        /\ Bit(f.base) = Bit(e.base) /\ Bit(f.hold) = Bit(e.hold)
    OBVIOUS
  <1>4. /\ e.kref \in Int /\ e.tcbs \in Int /\ e.intr \in Int
        /\ Bit(e.timer) \in Int /\ Bit(e.listed) \in Int
        /\ Bit(e.base) \in Int /\ Bit(e.hold) \in Int
    BY DEF EpRecords, Bit
  <1>5. Ledger(f) = Ledger(e) + 1
    <2>1. f.kref = e.kref /\ f.tcbs = e.tcbs /\ f.intr = e.intr
      OBVIOUS
    <2>2. Bit(e.ulp) = 1
      OBVIOUS
    <2> QED
      BY <1>2, <1>3, <1>4, <2>1, <2>2 DEF Ledger
  <1> QED
    BY <1>1, <1>5 DEF Gave

(* What it left alone, and what it still has to do. *)
LEMMA AnswerRests ==
  ASSUME TypeInv, NEW disc \in 0..2, Leaves("ulp", disc, FALSE, 1)
  PROVE  RestAt("ulp")' /\ thr'["ulp"].at # "fw" /\ ~Accepting'
  <1>1. thr'["ulp"].at \in {"idle", "end"} /\ ~thr'["ulp"].rel
    BY DEF Leaves
  <1>2. /\ thr'["ulp"].at = "idle" => thr'["ulp"].held = 0 /\ thr'["ulp"].disc = 0
        /\ thr'["ulp"].disc > 0 => thr'["ulp"].held > 0
    BY DEF Leaves
  <1> QED
    BY <1>1, <1>2, Zenon DEF RestAt, In, Busy, Accepting

LEMMA AnswerAnswers ==
  ASSUME TypeInv, EventInv, RInv, ep.ulp, thr["ulp"].at = "idle", mutex = "free",
         NEW disc \in 0..2, Answer(ep, disc)
  PROVE  Answers
  <1> DEFINE f == [ep EXCEPT !.ulp = FALSE]
  <1>1. /\ Given /\ thr["ulp"].held = 0 /\ ~Accepting /\ Bit(ep.ulp) = 1 /\ ep \in EpRecords
    BY UlpIdle
  <1>2. UlpFrame /\ Declines
    BY AnswerEffect
  <1>3. Proceed("ulp", f, disc, FALSE, 1) /\ UNCHANGED <<qp, mutex, qmutex, rxq, hw, fatal>>
    BY DEF Answer
  <1>4. f \in EpRecords /\ Gave(ep, f)
    <2>1. /\ f.kref = ep.kref /\ f.flags = ep.flags /\ f.tcbs = ep.tcbs /\ f.intr = ep.intr
          /\ f.base = ep.base /\ f.timer = ep.timer /\ f.listed = ep.listed
          /\ f.hold = ep.hold /\ f.ulp = FALSE
      BY <1>1 DEF EpRecords
    <2>2. f \in EpRecords
      BY <1>1, UlpFields
    <2> HIDE DEF f
    <2> QED
      BY <1>1, <2>1, <2>2, GaveBooks
  <1> HIDE DEF f
  <1>5. /\ Leaves("ulp", disc, FALSE, 1) /\ Duties(f, ep') /\ Ticks(f, ep')
        /\ Square(f, 1, "ulp")
    BY <1>3, <1>4, One, ProceedBooks DEF Threads
  <1>6. RestAt("ulp")' /\ thr'["ulp"].at # "fw" /\ ~Accepting' /\ Others("ulp")
    BY <1>5, AnswerRests DEF Leaves
  <1>7. Duties(ep, ep') /\ Started(ep') /\ TimerOK(ep')
    BY <1>1, <1>4, <1>5 DEF Given, Gave, Duties, Ticks
  <1>8. Square(ep, thr["ulp"].held, "ulp")
    <2>1. Ledger(ep) \in Int
      BY <1>1, LedgerIsInt
    <2>2. Ledger(ep') - thr'["ulp"].held = Ledger(f) - 1 /\ Ledger(f) = Ledger(ep) + 1
      BY <1>4, <1>5 DEF Square, Gave
    <2> QED
      BY <1>1, <2>1, <2>2 DEF Square
  <1>9. /\ ep'.side = ep.side /\ ep'.hwtid = ep.hwtid /\ ep'.state = ep.state
        /\ (ep'.cm_id <=> ep.cm_id) /\ (ep'.retry_v1 <=> ep.retry_v1) /\ (Peer' <=> Peer)
        /\ ep' \in EpRecords /\ HwSame(hw, hw') /\ hw'.tcb = hw.tcb
    BY <1>2, <1>3 DEF UlpFrame, Declines, Silent, Peer
  <1> QED
    BY <1>1, <1>3, <1>6, <1>7, <1>8, <1>9 DEF Answers

LEMMA AnsweredAnswers ==
  ASSUME TypeInv, EventInv, RInv, AnswerVain \/ AcceptBad
  PROVE  Answers
  <1>1. /\ ep.ulp /\ thr["ulp"].at = "idle" /\ mutex = "free"
        /\ Answer(ep, 0) \/ Answer(ep, 2)
    BY DEF AnswerVain, AcceptBad, Answering, At
  <1> QED
    BY <1>1, AnswerAnswers, DiscValues

(* c4iw_accept_cr moves the QP, and keeps the reference till then. *)
LEMMA AcceptAnswers ==
  ASSUME TypeInv, EventInv, RInv, Accept
  PROVE  Answers
  <1> DEFINE f == [ep EXCEPT !.cm_id = TRUE, !.qp = TRUE, !.ulp = FALSE]
             p == [thr["ulp"] EXCEPT !.at = "modify", !.to = "RTS", !.then = "accept", !.held = 1]
  <1>1. /\ ep.ulp /\ thr["ulp"].at = "idle" /\ ep.state = "MPA_REQ_RCVD" /\ ep' = f
        /\ UNCHANGED <<qp, qmutex, rxq, hw, fatal>>
    BY DEF Accept, Answering, At
  <1>2. /\ Given /\ thr["ulp"].held = 0 /\ thr["ulp"].disc = 0 /\ ~thr["ulp"].rel
        /\ Bit(ep.ulp) = 1 /\ ep \in EpRecords
    BY <1>1, UlpIdle
  <1>3. UlpFrame /\ Accepts
    BY AcceptStep
  <1>4. Gave(ep, ep')
    <2>1. /\ f.kref = ep.kref /\ f.flags = ep.flags /\ f.tcbs = ep.tcbs /\ f.intr = ep.intr
          /\ f.base = ep.base /\ f.timer = ep.timer /\ f.listed = ep.listed
          /\ f.hold = ep.hold /\ f.ulp = FALSE
      BY <1>2 DEF EpRecords
    <2> HIDE DEF f
    <2> QED
      BY <1>1, <1>2, <2>1, GaveBooks
  <1> HIDE DEF f
  <1>5. thr' = [thr EXCEPT !["ulp"] = p] /\ thr \in [Threads -> ThrRecords]
    BY DEF Accept, TypeInv
  <1>6. /\ p.at = "modify" /\ p.then = "accept" /\ p.held = 1
        /\ p.disc = thr["ulp"].disc /\ p.rel = thr["ulp"].rel
    BY <1>5 DEF ThrRecords, Threads
  <1> HIDE DEF p
  <1>7. thr'["ulp"] = p /\ Others("ulp")
    BY <1>5 DEF Others, Threads
  <1>8. RestAt("ulp")' /\ thr'["ulp"].at # "fw" /\ Accepting'
    <2>1. /\ thr'["ulp"].at = "modify" /\ thr'["ulp"].then = "accept" /\ thr'["ulp"].held = 1
          /\ thr'["ulp"].disc = 0 /\ ~thr'["ulp"].rel
      BY <1>2, <1>6, <1>7
    <2>2. thr'["ulp"].held > 0
      BY <2>1
    <2>3. ~In("ulp", "disc_failed")' /\ Accepting'
      BY <2>1 DEF In, Busy, Accepting
    <2>4. ~(0 > 0)
      OBVIOUS
    <2> QED
      BY <2>1, <2>2, <2>3, <2>4, Zenon DEF RestAt
  <1>9. Duties(ep, ep') /\ Started(ep') /\ TimerOK(ep')
    BY <1>2, <1>4 DEF Given, Gave
  <1>10. Square(ep, thr["ulp"].held, "ulp")
    <2>1. Ledger(ep) \in Int
      BY <1>2, LedgerIsInt
    <2>2. Ledger(ep') = Ledger(ep) + 1 /\ thr'["ulp"].held = 1 /\ thr["ulp"].held = 0
      BY <1>2, <1>4, <1>6, <1>7 DEF Gave
    <2> QED
      BY <2>1, <2>2 DEF Square
  <1>11. /\ ep'.side = ep.side /\ ep'.hwtid = ep.hwtid /\ ep'.state = ep.state
         /\ ep'.cm_id /\ (ep'.retry_v1 <=> ep.retry_v1) /\ (Peer' <=> Peer)
         /\ ep' \in EpRecords /\ HwSame(hw, hw') /\ hw'.tcb = hw.tcb
    BY <1>1, <1>3 DEF UlpFrame, Accepts, Peer
  <1> QED
    BY <1>1, <1>2, <1>7, <1>8, <1>9, <1>10, <1>11 DEF Answers

(* c4iw_reject_cr sends the answer, *)
LEMMA RejectAnswers ==
  ASSUME TypeInv, EventInv, RInv, Reject
  PROVE  Answers
  <1> DEFINE f == [ep EXCEPT !.mpa_skb = TRUE, !.ulp = FALSE]
  <1>1. /\ ep.ulp /\ thr["ulp"].at = "idle" /\ ep' = f
        /\ UNCHANGED <<qp, mutex, qmutex, rxq, fatal>>
    BY DEF Reject, Answering, At
  <1>2. /\ Given /\ thr["ulp"].held = 0 /\ ~thr["ulp"].rel /\ ~Accepting
        /\ Bit(ep.ulp) = 1 /\ ep \in EpRecords
    BY <1>1, UlpIdle
  <1>3. UlpFrame /\ Declines
    BY RejectStep
  <1>4. Gave(ep, ep')
    <2>1. /\ f.kref = ep.kref /\ f.flags = ep.flags /\ f.tcbs = ep.tcbs /\ f.intr = ep.intr
          /\ f.base = ep.base /\ f.timer = ep.timer /\ f.listed = ep.listed
          /\ f.hold = ep.hold /\ f.ulp = FALSE
      BY <1>2 DEF EpRecords
    <2> HIDE DEF f
    <2> QED
      BY <1>1, <1>2, <2>1, GaveBooks
  <1> HIDE DEF f
  <1>5. PICK disc \in {1, 2} : thr' = Rejecting(disc)
    BY DEF Reject
  <1> DEFINE p == [thr["ulp"] EXCEPT !.at = "reject", !.disc = disc, !.held = 1]
  <1>6. thr' = [thr EXCEPT !["ulp"] = p] /\ thr \in [Threads -> ThrRecords]
    BY <1>5 DEF Rejecting, TypeInv
  <1>7. p.at = "reject" /\ p.held = 1 /\ p.rel = thr["ulp"].rel
    BY <1>6 DEF ThrRecords, Threads
  <1> HIDE DEF p
  <1>8. thr'["ulp"] = p /\ Others("ulp")
    BY <1>6 DEF Others, Threads
  <1>9. RestAt("ulp")' /\ thr'["ulp"].at # "fw" /\ ~Accepting'
    <2>1. thr'["ulp"].at = "reject" /\ thr'["ulp"].held = 1 /\ ~thr'["ulp"].rel
      BY <1>2, <1>7, <1>8
    <2>2. thr'["ulp"].held > 0
      BY <2>1
    <2>3. ~In("ulp", "disc_failed")' /\ ~Accepting'
      BY <2>1 DEF In, Busy, Accepting
    <2> QED
      BY <2>1, <2>2, <2>3, Zenon DEF RestAt
  <1>10. Duties(ep, ep') /\ Started(ep') /\ TimerOK(ep')
    BY <1>2, <1>4 DEF Given, Gave
  <1>11. Square(ep, thr["ulp"].held, "ulp")
    <2>1. Ledger(ep) \in Int
      BY <1>2, LedgerIsInt
    <2>2. Ledger(ep') = Ledger(ep) + 1 /\ thr'["ulp"].held = 1 /\ thr["ulp"].held = 0
      BY <1>2, <1>4, <1>7, <1>8 DEF Gave
    <2> QED
      BY <2>1, <2>2 DEF Square
  <1>12. /\ ep'.side = ep.side /\ ep'.hwtid = ep.hwtid /\ ep'.state = ep.state
         /\ (ep'.cm_id <=> ep.cm_id) /\ (ep'.retry_v1 <=> ep.retry_v1) /\ (Peer' <=> Peer)
         /\ ep' \in EpRecords /\ HwSame(hw, hw')
    BY <1>3 DEF UlpFrame, Declines, Silent, Peer
  <1>13. hw'.tcb = hw.tcb
    BY DEF Reject, SentMpa, TypeInv, HwRecords
  <1> QED
    BY <1>1, <1>2, <1>8, <1>9, <1>10, <1>11, <1>12, <1>13 DEF Answers

(* and stops the timer. *)
LEMMA RejectedAnswers ==
  ASSUME TypeInv, EventInv, RInv, Rejected
  PROVE  Answers
  <1> DEFINE p == [thr["ulp"] EXCEPT !.at = "end"]
  <1>1. /\ thr["ulp"].at = "reject" /\ ep' = StopTimer(ep)
        /\ UNCHANGED <<qp, mutex, qmutex, rxq, hw, fatal>>
        /\ thr' = [thr EXCEPT !["ulp"] = p] /\ thr \in [Threads -> ThrRecords]
    BY DEF Rejected, At, TypeInv
  <1>2. Given /\ ep \in EpRecords
    BY <1>1, UlpGiven DEF TypeInv
  <1>3. UlpFrame /\ RejectEnds
    BY RejectedStep
  <1>4. Level(ep, ep')
    BY <1>1, <1>2, StopTimerBooks DEF Given
  <1>5. /\ p.at = "end" /\ p.held = thr["ulp"].held /\ p.rel = thr["ulp"].rel
        /\ p.disc = thr["ulp"].disc
    BY <1>1 DEF ThrRecords, Threads
  <1> HIDE DEF p
  <1>6. thr'["ulp"] = p /\ Others("ulp")
    BY <1>1 DEF Others, Threads
  <1>7. RestAt("ulp")' /\ thr'["ulp"].at # "fw" /\ ~Accepting'
    <2>1. RestAt("ulp")
      BY DEF RInv, RestInv, Threads
    <2>2. /\ thr'["ulp"].at = "end" /\ thr'["ulp"].held = thr["ulp"].held
          /\ thr'["ulp"].disc = thr["ulp"].disc /\ thr'["ulp"].rel = thr["ulp"].rel
      BY <1>5, <1>6
    <2>3. ~In("ulp", "disc_failed")' /\ ~Accepting'
      BY <2>2 DEF In, Busy, Accepting
    <2>4. thr["ulp"].disc > 0 => thr["ulp"].held > 0
      BY <2>1 DEF RestAt
    <2>5. ~thr["ulp"].rel
      BY <2>1 DEF RestAt
    <2> QED
      BY <2>2, <2>3, <2>4, <2>5, Zenon DEF RestAt
  <1>8. Duties(ep, ep') /\ Started(ep') /\ TimerOK(ep')
    BY <1>2, <1>4 DEF Given, Level, Ticks
  <1>9. Square(ep, thr["ulp"].held, "ulp")
    BY <1>4, <1>5, <1>6 DEF Level, Square
  <1>10. /\ ep'.side = ep.side /\ ep'.hwtid = ep.hwtid /\ ep'.state = ep.state
         /\ (ep'.cm_id <=> ep.cm_id) /\ (ep'.retry_v1 <=> ep.retry_v1) /\ (Peer' <=> Peer)
         /\ ep' \in EpRecords /\ HwSame(hw, hw') /\ hw'.tcb = hw.tcb
    BY <1>1, <1>3 DEF UlpFrame, RejectEnds, Same, Steady, Silent, Peer
  <1>11. ~Accepting
    BY <1>1 DEF Accepting, In, Busy
  <1> QED
    BY <1>1, <1>2, <1>6, <1>7, <1>8, <1>9, <1>10, <1>11 DEF Answers

(* The accept ends.  STOP_MPA_TIMER is set, while the timer runs. *)
LEMMA StopFlagBooks ==
  ASSUME NEW e \in EpRecords
  PROVE  Even(e, SetFlag(e, "STOP_MPA_TIMER"))
  <1> DEFINE f == SetFlag(e, "STOP_MPA_TIMER")
  <1>1. /\ f.kref = e.kref /\ f.flags = e.flags \cup {"STOP_MPA_TIMER"}
        /\ f.tcbs = e.tcbs /\ f.intr = e.intr /\ f.base = e.base /\ f.timer = e.timer
        /\ f.listed = e.listed /\ f.hold = e.hold /\ f.ulp = e.ulp
    BY DEF SetFlag, EpRecords
  <1> HIDE DEF f
  <1>2. Expired(f) <=> Expired(e)
    BY <1>1 DEF Expired
  <1>3. Ledger(f) = Ledger(e)
    BY <1>1 DEF Ledger
  <1> QED
    BY <1>1, <1>2, <1>3 DEF Even, Duties, Started, TimerOK, f

LEMMA LevelIsEven ==
  ASSUME NEW e, NEW f, NEW g, Even(e, f), Level(f, g)
  PROVE  Even(e, g)
  BY DEF Even, Level, Duties, Ticks

LEMMA EvenReflexive ==
  ASSUME NEW e PROVE Even(e, e)
  BY DEF Even, Duties

LEMMA CmIdBooks ==
  ASSUME NEW e \in EpRecords
  PROVE  Level(e, [e EXCEPT !.cm_id = FALSE])
  <1> DEFINE f == [e EXCEPT !.cm_id = FALSE]
  <1>1. Alike(e, f)
    BY DEF Alike, EpRecords, Expired, Stops
  <1> QED
    BY <1>1, AlikeIsLevel

LEMMA AcceptLeaves ==
  ASSUME TypeInv, EventInv, RInv, Accepting, NEW e \in EpRecords, Even(ep, e),
         NEW disc \in 0..2, Leave("ulp", e, disc, FALSE)
  PROVE  /\ Given /\ Others("ulp") /\ RestAt("ulp")' /\ thr'["ulp"].at # "fw" /\ ~Accepting'
         /\ Duties(ep, ep') /\ Started(ep') /\ TimerOK(ep')
         /\ Square(ep, thr["ulp"].held, "ulp")
  <1>1. Given /\ RestAt("ulp") /\ thr["ulp"].at \notin {"idle", "end"}
    BY UlpGiven DEF RInv, RestInv, Threads, Accepting, In, Busy
  <1>2. thr["ulp"].held > 0
    BY <1>1 DEF RestAt, Bare
  <1>3. /\ Leaves("ulp", disc, FALSE, thr["ulp"].held) /\ Duties(e, ep') /\ Ticks(e, ep')
        /\ Square(e, thr["ulp"].held, "ulp")
    BY LeaveBooks DEF Threads
  <1>4. /\ Others("ulp") /\ thr'["ulp"].at \in {"idle", "end"} /\ ~thr'["ulp"].rel
        /\ thr'["ulp"].at = "idle" => thr'["ulp"].held = 0 /\ thr'["ulp"].disc = 0
        /\ thr'["ulp"].disc > 0 => thr'["ulp"].held > 0
    BY <1>2, <1>3 DEF Leaves
  <1>5. RestAt("ulp")' /\ thr'["ulp"].at # "fw" /\ ~Accepting'
    BY <1>4, Zenon DEF RestAt, In, Busy, Accepting
  <1>6. Duties(ep, ep') /\ Started(ep') /\ TimerOK(ep')
    BY <1>1, <1>3 DEF Given, Even, Duties, Ticks
  <1>7. Square(ep, thr["ulp"].held, "ulp")
    BY <1>3 DEF Square, Even
  <1> QED
    BY <1>1, <1>4, <1>5, <1>6, <1>7

LEMMA AcceptedAnswers ==
  ASSUME Faultless, TypeInv, EventInv, RInv, Accepted
  PROVE  Answers
  <1> DEFINE a == With_mpa_skb(ep, TRUE)
             sent == SetFlag(a, "STOP_MPA_TIMER")
             f == [ep EXCEPT !.cm_id = FALSE]
             k == SetState(sent, "FPDU_MODE")
             l == EstablishedUpcall(k)
  <1>1. /\ ep \in EpRecords /\ Accepting /\ UNCHANGED <<qp, qmutex, rxq, fatal>>
        /\ ~Active /\ ep.state = "MPA_REQ_RCVD"
    <2>1. Accepting
      BY DEF Accepted, At, Accepting, In, Busy
    <2> QED
      BY <2>1 DEF Accepted, TypeInv, EventInv, SideInv, PassiveInv
  <1>2. UlpFrame /\ AcceptEnds
    BY AcceptedStep
  <1>3. \/ Leave("ulp", f, 2, FALSE)
        \/ Leave("ulp", l, 0, FALSE)
    BY DEF Accepted, With_mpa_skb, Faultless, SendFails, RInv
  <1>4. hw'.tcb = hw.tcb
    BY DEF Accepted, SentMpa, TypeInv, HwRecords
  <1>5. /\ ep'.side = ep.side /\ ep'.hwtid = ep.hwtid
        /\ (ep'.retry_v1 <=> ep.retry_v1) /\ (Peer' <=> Peer)
        /\ ep' \in EpRecords /\ HwSame(hw, hw')
    BY <1>2 DEF UlpFrame, AcceptEnds, Peer
  <1>6. CASE Leave("ulp", f, 2, FALSE)
    <2>1. f \in EpRecords /\ ~f.cm_id /\ f.state = ep.state /\ Level(ep, f)
      BY <1>1, CmIdFields, CmIdBooks
    <2> HIDE DEF f
    <2>2. Even(ep, f)
      BY <2>1, EvenReflexive, LevelIsEven
    <2>3. ep' \in EpRecords /\ Same(f, ep')
      BY <1>1, <1>6, <2>1, DiscValues, UlpLeaves
    <2>4. /\ Given /\ Others("ulp") /\ RestAt("ulp")' /\ thr'["ulp"].at # "fw" /\ ~Accepting'
          /\ Duties(ep, ep') /\ Started(ep') /\ TimerOK(ep')
          /\ Square(ep, thr["ulp"].held, "ulp")
      BY <1>1, <1>6, <2>1, <2>2, DiscValues, AcceptLeaves
    <2>5. ~ep'.cm_id /\ ep'.state = ep.state
      BY <2>1, <2>3 DEF Same, Silent
    <2> QED
      BY <1>1, <1>4, <1>5, <2>4, <2>5 DEF Answers
  <1>7. CASE Leave("ulp", l, 0, FALSE)
    <2>1. a \in EpRecords /\ Level(ep, a)
      BY <1>1, MpaSkbSame, MpaSkbBooks
    <2> HIDE DEF a
    <2>2. sent \in EpRecords /\ Even(a, sent)
      BY <2>1, SetFlagSame, StopFlagBooks DEF EpFlags
    <2> HIDE DEF sent
    <2>3. k \in EpRecords /\ k.state = "FPDU_MODE" /\ Level(sent, k)
      BY <2>2, StateFields, StateBooks DEF States, Connecting
    <2> HIDE DEF k
    <2>4. l \in EpRecords /\ l.state = k.state /\ Level(k, l)
      BY <2>3, EstablishedFields, TellBooks
    <2> HIDE DEF l
    <2>5. Even(ep, l)
      BY <2>1, <2>2, <2>3, <2>4 DEF Even, Level, Duties, Ticks
    <2>6. ep' \in EpRecords /\ Same(l, ep')
      BY <1>1, <1>7, <2>4, DiscValues, UlpLeaves
    <2>7. /\ Given /\ Others("ulp") /\ RestAt("ulp")' /\ thr'["ulp"].at # "fw" /\ ~Accepting'
          /\ Duties(ep, ep') /\ Started(ep') /\ TimerOK(ep')
          /\ Square(ep, thr["ulp"].held, "ulp")
      BY <1>1, <1>7, <2>4, <2>5, DiscValues, AcceptLeaves
    <2>8. ep'.state = "FPDU_MODE"
      BY <2>3, <2>4, <2>6 DEF Same
    <2> QED
      BY <1>1, <1>4, <1>5, <2>7, <2>8 DEF Answers
  <1> QED
    BY <1>3, <1>6, <1>7

LEMMA UlpKeepsRefs ==
  ASSUME Faultless, TypeInv, TypeInv', EventInv, RInv, Ulp
  PROVE  RInv'
  <1>1. Answers
    BY AnsweredAnswers, AcceptAnswers, AcceptedAnswers, RejectAnswers, RejectedAnswers DEF Ulp
  <1> QED
    BY <1>1, AnswersKeep

-----------------------------------------------------------------------------
(* The user of the QP: a call begins or ends, and moves nothing. *)
Turns ==
  /\ UNCHANGED <<qmutex, rxq, hw, fatal>> /\ Others("user")
  /\ qp'.state = qp.state /\ (qp'.ep <=> qp.ep)
  /\ ep' \in EpRecords /\ Same(ep, ep') /\ Duties(ep, ep') /\ Calm(ep, ep')
  /\ Square(ep, thr["user"].held, "user")
  /\ RestAt("user")' /\ thr'["user"].at # "fw"
  /\ thr'["user"].disc > 0 => thr["user"].disc > 0

LEMMA TurnsFrame ==
  ASSUME TypeInv, TypeInv', RInv, Turns
  PROVE  /\ ep'.side = ep.side /\ ep'.state = ep.state /\ ep'.hwtid = ep.hwtid
         /\ (ep'.retry_v1 <=> ep.retry_v1) /\ (ep'.cm_id <=> ep.cm_id) /\ (Peer' <=> Peer)
         /\ (ep'.base <=> ep.base) /\ (ep'.hold <=> ep.hold) /\ (ep'.ulp <=> ep.ulp)
         /\ (ep'.listed <=> ep.listed)
         /\ ep'.tcbs = ep.tcbs /\ ep'.intr = ep.intr /\ (Active' <=> Active)
         /\ (Opening' <=> Opening) /\ hw' = hw
         /\ (FirstQueued' <=> FirstQueued) /\ (TcbOut' <=> TcbOut) /\ (Under' <=> Under)
         /\ Firsts' = Firsts /\ Tcbs' = Tcbs /\ Aborts1' = Aborts1
         /\ (PutQueued' <=> PutQueued) /\ (BreakQueued' <=> BreakQueued) /\ rxq' = rxq
         /\ Worker' = Worker /\ thr'["worker"] = thr["worker"] /\ thr'["ulp"] = thr["ulp"]
         /\ (FirstHandled' <=> FirstHandled) /\ (TcbHandled' <=> TcbHandled)
         /\ (PutHandled' <=> PutHandled) /\ (BreakHandled' <=> BreakHandled)
         /\ \A t \in Threads : thr[t].disc = 0 => thr'[t].disc = 0
  <1>1. /\ ep'.side = ep.side /\ ep'.state = ep.state /\ ep'.hwtid = ep.hwtid
        /\ (ep'.retry_v1 <=> ep.retry_v1) /\ (ep'.cm_id <=> ep.cm_id) /\ (Peer' <=> Peer)
        /\ (ep'.ulp <=> ep.ulp) /\ (Active' <=> Active)
    BY DEF Turns, Same, Steady, Silent, Peer, Active
  <1>2. /\ (ep'.base <=> ep.base) /\ (ep'.hold <=> ep.hold) /\ (ep'.listed <=> ep.listed)
        /\ ep'.tcbs = ep.tcbs /\ ep'.intr = ep.intr
    BY DEF Turns, Duties
  <1>3. thr'["worker"] = thr["worker"] /\ thr'["ulp"] = thr["ulp"]
    BY DEF Turns, Others, Threads
  <1>4. Worker' = Worker
    BY <1>3 DEF Worker
  <1>5. /\ (FirstHandled' <=> FirstHandled) /\ (TcbHandled' <=> TcbHandled)
        /\ (PutHandled' <=> PutHandled) /\ (BreakHandled' <=> BreakHandled)
    BY <1>4 DEF FirstHandled, TcbHandled, PutHandled, BreakHandled
  <1>6. /\ Firsts' = Firsts /\ Tcbs' = Tcbs /\ Aborts1' = Aborts1 /\ rxq' = rxq
        /\ (FirstQueued' <=> FirstQueued) /\ (PutQueued' <=> PutQueued)
        /\ (BreakQueued' <=> BreakQueued)
    BY QueueSame DEF Turns
  <1>7. (Opening' <=> Opening) /\ hw' = hw
    BY DEF Turns, Opening
  <1>8. (TcbOut' <=> TcbOut) /\ (Under' <=> Under)
    BY <1>5, <1>6, <1>7 DEF TcbOut, Under
  <1>9. ASSUME NEW t \in Threads, thr[t].disc = 0 PROVE thr'[t].disc = 0
    <2>1. CASE t = "user"
      <3>1. thr'["user"].disc \in 0..2 /\ ~(thr'["user"].disc > 0)
        BY <1>9, <2>1 DEF Turns, TypeInv, ThrRecords
      <3> QED
        BY <2>1, <3>1
    <2>2. CASE t # "user"
      BY <1>9, <2>2 DEF Turns, Others
    <2> QED
      BY <2>1, <2>2
  <1> QED
    BY <1>1, <1>2, <1>3, <1>4, <1>5, <1>6, <1>7, <1>8, <1>9

LEMMA TurnsKeep ==
  ASSUME TypeInv, TypeInv', EventInv, RInv, Turns
  PROVE  RInv'
  <1>1. /\ ep'.side = ep.side /\ ep'.state = ep.state /\ ep'.hwtid = ep.hwtid
        /\ (ep'.retry_v1 <=> ep.retry_v1) /\ (ep'.cm_id <=> ep.cm_id) /\ (Peer' <=> Peer)
        /\ (ep'.base <=> ep.base) /\ (ep'.hold <=> ep.hold) /\ (ep'.ulp <=> ep.ulp)
        /\ (ep'.listed <=> ep.listed)
        /\ ep'.tcbs = ep.tcbs /\ ep'.intr = ep.intr /\ (Active' <=> Active)
    BY TurnsFrame
  <1>2. /\ (Opening' <=> Opening) /\ hw' = hw
        /\ (FirstQueued' <=> FirstQueued) /\ (TcbOut' <=> TcbOut) /\ (Under' <=> Under)
        /\ Firsts' = Firsts /\ Tcbs' = Tcbs /\ Aborts1' = Aborts1
        /\ (PutQueued' <=> PutQueued) /\ (BreakQueued' <=> BreakQueued) /\ rxq' = rxq
    BY TurnsFrame
  <1>3. /\ Worker' = Worker /\ thr'["worker"] = thr["worker"] /\ thr'["ulp"] = thr["ulp"]
        /\ (FirstHandled' <=> FirstHandled) /\ (TcbHandled' <=> TcbHandled)
        /\ (PutHandled' <=> PutHandled) /\ (BreakHandled' <=> BreakHandled)
    BY TurnsFrame
  <1>4. \A t \in Threads : thr[t].disc = 0 => thr'[t].disc = 0
    BY TurnsFrame
  <1>5. /\ (Busy("worker")' <=> Busy("worker"))
        /\ (In("worker", "tcb")' <=> In("worker", "tcb"))
        /\ (In("worker", "peer_abort")' <=> In("worker", "peer_abort"))
        /\ (Accepting' <=> Accepting) /\ (Replying' <=> Replying)
    BY <1>3 DEF In, Busy, Accepting, Replying
  <1>6. AbortInHand' <=> AbortInHand
    BY <1>3, <1>5 DEF AbortInHand
  <1>7. ~fatal' /\ RestInv'
    BY RestKept DEF RInv, Turns, Threads
  <1>8. QpInv'
    BY DEF RInv, QpInv, Turns, Others
  <1>9. TimerInv'
    <2>1. TimerOK(ep') /\ (Started(ep) => Started(ep')) /\ (Stops(ep') => Stops(ep))
      BY DEF RInv, TimerInv, Turns, Calm, Ticks
    <2>2. Early => Early'
      <3>1. (qp'.ep <=> qp.ep)
        BY DEF Turns
      <3> QED
        BY <1>1, <1>2, <1>3, <1>4, <1>5, <2>1, <3>1 DEF Early
    <2> QED
      BY <2>1, <2>2 DEF RInv, TimerInv
  <1>10. FirstInv'
    BY <1>2, <1>3 DEF RInv, FirstInv
  <1>11. UnderInv'
    <2>1. (qp'.ep <=> qp.ep)
      BY DEF Turns
    <2>2. ~Active /\ Under => ~Started(ep')
      <3>1. SUFFICES ASSUME ~Active, Under PROVE ~Started(ep')
        OBVIOUS
      <3>2. ~Started(ep)
        BY <3>1 DEF RInv, UnderInv
      <3> QED
        BY <3>2 DEF Turns, Calm
    <2> QED
      BY <1>1, <1>2, <1>3, <1>4, <1>5, <2>1, <2>2 DEF RInv, UnderInv
  <1>12. OwnInv'
    BY <1>1, <1>3, <1>5 DEF RInv, OwnInv
  <1>13. LinkInv'
    <2>1. (qp'.ep <=> qp.ep) /\ (thr'["user"].disc > 0 => thr["user"].disc > 0)
      BY DEF Turns
    <2> QED
      BY <1>1, <1>2, <1>3, <1>5, <2>1 DEF RInv, LinkInv
  <1>14. TcbInv'
    BY <1>1, <1>2, <1>3, <1>5 DEF RInv, TcbInv
  <1>15. IntrInv'
    <2>1. Bit(AbortInHand') = Bit(AbortInHand)
      BY <1>6 DEF Bit
    <2> QED
      BY <1>1, <1>2, <2>1 DEF RInv, IntrInv
  <1>16. RefsBalance'
    <2>1. RefsBalance /\ Others("user")
          /\ Ledger(ep') - thr'["user"].held = Ledger(ep) - thr["user"].held
      BY DEF RInv, Turns, Square
    <2>2. Bit(qp'.ep) = Bit(qp.ep)
      BY DEF Turns, Bit
    <2>3. /\ Ledger(ep) \in Int /\ Ledger(ep') \in Int /\ thr["user"].held \in Int
          /\ thr'["user"].held \in Int /\ Bit(qp.ep) \in Int
      BY LedgerIsInt DEF TypeInv, ThrRecords, Bit, Threads
    <2>4. Ledger(ep') - thr'["user"].held - Bit(qp'.ep)
            = Ledger(ep) - thr["user"].held - Bit(qp.ep)
      BY <2>1, <2>2, <2>3
    <2> QED
      BY <2>1, <2>4, BalanceKept DEF Threads
  <1>17. ASSUME "alloc" \notin Faults
         PROVE  GoneInv'
    <2>1. GoneInv
      BY <1>17 DEF RInv
    <2> QED
      BY <1>1, <1>2, <1>3, <1>5, <2>1 DEF GoneInv
  <1> QED
    BY <1>7, <1>8, <1>9, <1>10, <1>11, <1>12, <1>13, <1>14, <1>15, <1>16, <1>17 DEF RInv

LEMMA CalledTurns ==
  ASSUME TypeInv, RInv, NEW to \in QpStates, NEW internal \in BOOLEAN, CallByUser(to, internal),
         qp'.state = qp.state, qp'.ep <=> qp.ep
  PROVE  Turns
  <1> DEFINE p == [thr["user"] EXCEPT !.at = "modify", !.to = to, !.then = "user",
                                      !.internal = internal]
  <1>1. /\ thr["user"].at = "idle" /\ UNCHANGED <<ep, mutex, qmutex, rxq, hw, fatal>>
        /\ thr' = [thr EXCEPT !["user"] = p] /\ thr \in [Threads -> ThrRecords]
    BY DEF CallByUser, At, TypeInv
  <1>2. /\ p.at = "modify" /\ p.then = "user" /\ p.held = thr["user"].held
        /\ p.rel = thr["user"].rel /\ p.disc = thr["user"].disc
    BY <1>1 DEF ThrRecords, Threads
  <1> HIDE DEF p
  <1>3. thr'["user"] = p /\ Others("user")
    BY <1>1 DEF Others, Threads
  <1>4. thr["user"].disc = 0 /\ ~thr["user"].rel
    BY <1>1 DEF RInv, RestInv, RestAt, Threads
  <1>5. RestAt("user")' /\ thr'["user"].at # "fw"
    <2>1. /\ thr'["user"].at = "modify" /\ thr'["user"].then = "user"
          /\ thr'["user"].disc = 0 /\ ~thr'["user"].rel
      BY <1>2, <1>3, <1>4
    <2>2. ~In("user", "disc_failed")'
      BY <2>1 DEF In
    <2>3. ~(0 > 0)
      OBVIOUS
    <2> QED
      BY <2>1, <2>2, <2>3, Zenon DEF RestAt
  <1>6. ep \in EpRecords /\ Same(ep, ep') /\ Duties(ep, ep') /\ Calm(ep, ep') /\ ep' = ep
    BY <1>1, Unmoved
  <1>7. Square(ep, thr["user"].held, "user")
    BY <1>2, <1>3, <1>6 DEF Square
  <1>8. thr'["user"].disc > 0 => thr["user"].disc > 0
    BY <1>2, <1>3
  <1> QED
    BY <1>1, <1>3, <1>5, <1>6, <1>7, <1>8 DEF Turns

LEMMA QpUser ==
  ASSUME NEW q \in QpRecords, NEW u
  PROVE  [q EXCEPT !.user = u].state = q.state /\ [q EXCEPT !.user = u].ep = q.ep
  BY DEF QpRecords

LEMMA UserMoveTurns ==
  ASSUME TypeInv, RInv, UserMove
  PROVE  Turns
  <1>1. PICK to \in Moves : CallByUser(to, FALSE)
    BY DEF UserMove
  <1>2. to \in QpStates
    BY EndpointAssumption DEF QpStates
  <1>3. qp'.state = qp.state /\ qp'.ep = qp.ep
    BY QpUser DEF UserMove, TypeInv
  <1> QED
    BY <1>1, <1>2, <1>3, CalledTurns

LEMMA DestroyTurns ==
  ASSUME TypeInv, RInv, Destroy
  PROVE  Turns
  <1>1. CallByUser("ERROR", qp.state = "TERMINATE") /\ (qp.state = "TERMINATE") \in BOOLEAN
        /\ "ERROR" \in QpStates
    BY DEF Destroy, QpStates
  <1>2. qp'.state = qp.state /\ qp'.ep = qp.ep
    BY QpUser DEF Destroy, TypeInv
  <1> QED
    BY <1>1, <1>2, CalledTurns

(* The call returns: the disconnect it was made to do is left. *)
LEMMA UserMovedTurns ==
  ASSUME TypeInv, RInv, UserMoved
  PROVE  Turns
  <1> DEFINE disc == thr["user"].disc
             held == thr["user"].held
  <1>1. /\ thr["user"].at = "after" /\ Proceed("user", ep, disc, FALSE, held)
        /\ UNCHANGED <<qp, mutex, qmutex, rxq, hw, fatal>>
        /\ ep \in EpRecords /\ disc \in 0..2 /\ held \in Nat
    BY DEF UserMoved, At, TypeInv, ThrRecords, Threads
  <1>2. RestAt("user")
    BY DEF RInv, RestInv, Threads
  <1>3. disc > 0 => held > 0
    BY <1>2 DEF RestAt
  <1> HIDE DEF disc, held
  <1>4. /\ ep' \in EpRecords /\ Same(ep, ep') /\ Leaves("user", disc, FALSE, held)
        /\ Duties(ep, ep') /\ Ticks(ep, ep') /\ Square(ep, held, "user")
    BY <1>1, ProceedBooks, ProceedEffect DEF Threads, TypeInv, Threaded
  <1>5. Calm(ep, ep')
    <2>1. ep'.timer = ep.timer /\ ep'.flags = ep.flags
      BY <1>1 DEF Proceed, Drop, EpRecords
    <2> QED
      BY <1>4, <2>1 DEF Calm, Started, Expired
  <1>6. /\ Others("user") /\ thr'["user"].at \in {"idle", "end"} /\ ~thr'["user"].rel
        /\ thr'["user"].disc = disc
        /\ thr'["user"].at = "idle" => thr'["user"].held = 0 /\ thr'["user"].disc = 0
        /\ thr'["user"].disc > 0 => thr'["user"].held > 0
    BY <1>1, <1>3, <1>4 DEF Leaves
  <1>7. RestAt("user")' /\ thr'["user"].at # "fw"
    BY <1>6, Zenon DEF RestAt, In, Busy
  <1>8. qp'.state = qp.state /\ (qp'.ep <=> qp.ep)
    BY <1>1
  <1> QED
    BY <1>1, <1>4, <1>5, <1>6, <1>7, <1>8 DEF Turns, disc, held

LEMMA DestroyedTurns ==
  ASSUME TypeInv, RInv, Destroyed
  PROVE  Turns
  <1>1. UNCHANGED <<ep, mutex, qmutex, thr, rxq, hw, fatal>> /\ thr["user"].at = "idle"
    BY DEF Destroyed, At
  <1>2. qp'.state = qp.state /\ qp'.ep = qp.ep
    BY QpUser DEF Destroyed, TypeInv
  <1>3. ep \in EpRecords /\ Same(ep, ep') /\ Duties(ep, ep') /\ Calm(ep, ep') /\ ep' = ep
    BY <1>1, Unmoved
  <1>4. RestAt("user")'
    <2>1. RestAt("user") /\ thr' = thr
      BY <1>1 DEF RInv, RestInv, Threads
    <2> QED
      BY <2>1 DEF RestAt, In, Busy, Bare
  <1> QED
    BY <1>1, <1>2, <1>3, <1>4 DEF Turns, Others, Square

LEMMA UserKeepsRefs ==
  ASSUME TypeInv, TypeInv', EventInv, RInv, User
  PROVE  RInv'
  <1>1. Turns
    BY UserMoveTurns, DestroyTurns, UserMovedTurns, DestroyedTurns DEF User
  <1> QED
    BY <1>1, TurnsKeep

-----------------------------------------------------------------------------
(* The adapter and the timer: no thread moves. *)
Hears ==
  /\ UNCHANGED <<qp, qmutex, thr, fatal>>
  /\ ep' \in EpRecords /\ Steady(ep, ep')
  /\ (ep'.base <=> ep.base) /\ (ep'.hold <=> ep.hold) /\ ep'.tcbs = ep.tcbs
  /\ Ledger(ep') = Ledger(ep) /\ (Started(ep') <=> Started(ep))

LEMMA HearsFrame ==
  ASSUME Hears
  PROVE  /\ (Active' <=> Active) /\ (Peer' <=> Peer) /\ Worker' = Worker /\ thr' = thr /\ qp' = qp
         /\ (FirstHandled' <=> FirstHandled) /\ (TcbHandled' <=> TcbHandled)
         /\ (PutHandled' <=> PutHandled) /\ (BreakHandled' <=> BreakHandled)
         /\ (Busy("worker")' <=> Busy("worker"))
         /\ (In("worker", "tcb")' <=> In("worker", "tcb"))
         /\ (AbortInHand' <=> AbortInHand)
         /\ (Accepting' <=> Accepting) /\ (Replying' <=> Replying)
  <1>1. thr' = thr /\ qp' = qp /\ (Active' <=> Active) /\ (Peer' <=> Peer)
    BY DEF Hears, Steady, Active, Peer
  <1>2. Worker' = Worker
    BY <1>1 DEF Worker
  <1>3. /\ (FirstHandled' <=> FirstHandled) /\ (TcbHandled' <=> TcbHandled)
        /\ (PutHandled' <=> PutHandled) /\ (BreakHandled' <=> BreakHandled)
    BY <1>2 DEF FirstHandled, TcbHandled, PutHandled, BreakHandled
  <1>4. /\ (Busy("worker")' <=> Busy("worker"))
        /\ (In("worker", "tcb")' <=> In("worker", "tcb"))
        /\ (In("worker", "peer_abort")' <=> In("worker", "peer_abort"))
        /\ (Accepting' <=> Accepting) /\ (Replying' <=> Replying)
    BY <1>1 DEF Busy, In, Accepting, Replying
  <1>5. AbortInHand' <=> AbortInHand
    BY <1>2, <1>4 DEF AbortInHand
  <1> QED
    BY <1>1, <1>2, <1>3, <1>4, <1>5

LEMMA HearsThreads ==
  ASSUME TypeInv, TypeInv', RInv, Hears
  PROVE  ~fatal' /\ RestInv' /\ QpInv' /\ RefsBalance'
  <1>1. thr' = thr /\ qp' = qp /\ qmutex' = qmutex /\ ~fatal'
    BY DEF Hears, RInv
  <1>2. RestInv'
    <2>1. RestInv
      BY DEF RInv
    <2> QED
      BY <1>1, <2>1 DEF RestInv, RestAt, In, Busy, Bare
  <1>3. QpInv'
    BY <1>1 DEF RInv, QpInv
  <1>4. RefsBalance'
    <2>1. RefsBalance /\ Others("worker") /\ "worker" \in Threads
      BY <1>1 DEF RInv, Others, Threads
    <2>2. Ledger(ep') - thr'["worker"].held - Bit(qp'.ep)
            = Ledger(ep) - thr["worker"].held - Bit(qp.ep)
      BY <1>1 DEF Hears
    <2> QED
      BY <2>1, <2>2, BalanceKept
  <1> QED
    BY <1>1, <1>2, <1>3, <1>4

(* Nothing but the opening changes the state. *)
LEMMA HearsKeeps ==
  ASSUME TypeInv, TypeInv', RInv, Hears, ep'.state = ep.state, ep'.cm_id <=> ep.cm_id,
         Firsts' = Firsts, Opening' => Opening /\ rxq' = rxq,
         FirstQueued => rxq'[1] = rxq[1], PutQueued' => PutQueued, TcbOut' => TcbOut,
         TimerInv', TcbInv', IntrInv'
  PROVE  RInv'
  <1>1. /\ (Active' <=> Active) /\ (Peer' <=> Peer) /\ Worker' = Worker /\ thr' = thr /\ qp' = qp
        /\ (FirstHandled' <=> FirstHandled) /\ (PutHandled' <=> PutHandled)
        /\ (Busy("worker")' <=> Busy("worker"))
        /\ (Accepting' <=> Accepting) /\ (Replying' <=> Replying)
    BY HearsFrame
  <1>2. /\ ep'.side = ep.side /\ ep'.hwtid = ep.hwtid /\ (ep'.retry_v1 <=> ep.retry_v1)
        /\ (ep'.base <=> ep.base) /\ (ep'.hold <=> ep.hold)
        /\ (Started(ep') <=> Started(ep))
    BY DEF Hears, Steady
  <1>3. FirstQueued' <=> FirstQueued
    BY DEF FirstQueued
  <1>4. Under' => Under
    BY <1>1, <1>3 DEF Under
  <1>5. FirstInv'
    BY <1>1, <1>3 DEF RInv, FirstInv
  <1>6. UnderInv'
    BY <1>1, <1>2, <1>3, <1>4 DEF RInv, UnderInv
  <1>7. OwnInv'
    BY <1>1, <1>2 DEF RInv, OwnInv
  <1>8. LinkInv'
    BY <1>1, <1>4 DEF RInv, LinkInv
  <1>9. ASSUME "alloc" \notin Faults
        PROVE  GoneInv'
    <2>1. GoneInv
      BY <1>9 DEF RInv
    <2> QED
      BY <1>1, <1>2, <1>4, <2>1 DEF GoneInv
  <1> QED
    BY <1>5, <1>6, <1>7, <1>8, <1>9, HearsThreads DEF RInv

LEMMA TcbHeard ==
  ASSUME RInv, Hears, hw'.tcb = hw.tcb, Tcbs' = Tcbs, ep'.state = ep.state
  PROVE  TcbInv' /\ (TcbOut' => TcbOut)
  <1>1. /\ (Peer' <=> Peer) /\ (TcbHandled' <=> TcbHandled)
        /\ (In("worker", "tcb")' <=> In("worker", "tcb")) /\ (Accepting' <=> Accepting)
    BY HearsFrame
  <1>2. (ep'.hold <=> ep.hold) /\ ep'.tcbs = ep.tcbs
    BY DEF Hears
  <1>3. TcbOut' <=> TcbOut
    BY <1>1 DEF TcbOut
  <1> QED
    BY <1>1, <1>2, <1>3 DEF RInv, TcbInv

(* A message is queued. *)
LEMMA QueueAdds ==
  ASSUME TypeInv, NEW c \in Cpls, rxq' = Append(rxq, c)
  PROVE  /\ c.op \notin FirstOps => Firsts' = Firsts
         /\ c.op \in FirstOps => FirstQueued' /\ (Firsts = {} => \A i, j \in Firsts' : i = j)
         /\ c.op # "GET_TCB_RPL" => Tcbs' = Tcbs
         /\ c.op = "GET_TCB_RPL" => (Tcbs = {} => \A i, j \in Tcbs' : i = j)
         /\ c.op # "ABORT_REQ" => Aborts1' = Aborts1
         /\ c.op = "ABORT_REQ" => Cardinality(Aborts1') = Cardinality(Aborts1) + 1
         /\ PutQueued' => PutQueued \/ c.op \in PutOps
         /\ FirstQueued => rxq'[1] = rxq[1]
         /\ rxq = <<>> => rxq'[1] = c
  <1>1. /\ rxq \in Seq(Cpls) /\ Len(rxq) \in Nat
        /\ Len(rxq') = Len(rxq) + 1 /\ rxq'[Len(rxq) + 1] = c
        /\ \A i \in 1..Len(rxq) : rxq'[i] = rxq[i]
    BY DEF TypeInv
  <1>2. \A i \in 1..Len(rxq') : i = Len(rxq) + 1 \/ i \in 1..Len(rxq)
    BY <1>1
  <1>3. /\ \A i \in 1..Len(rxq) : i \in 1..Len(rxq') /\ i # Len(rxq) + 1
        /\ Len(rxq) + 1 \in 1..Len(rxq')
    BY <1>1
  <1>4. /\ c.op \notin FirstOps => Firsts' = Firsts
        /\ c.op \in FirstOps => Firsts' = Firsts \cup {Len(rxq) + 1}
    BY <1>1, <1>2, <1>3 DEF Firsts
  <1>5. /\ c.op # "GET_TCB_RPL" => Tcbs' = Tcbs
        /\ c.op = "GET_TCB_RPL" => Tcbs' = Tcbs \cup {Len(rxq) + 1}
    BY <1>1, <1>2, <1>3 DEF Tcbs
  <1>6. /\ c.op # "ABORT_REQ" => Aborts1' = Aborts1
        /\ c.op = "ABORT_REQ" => Aborts1' = Aborts1 \cup {Len(rxq) + 1}
    BY <1>1, <1>2, <1>3 DEF Aborts1
  <1>7. c.op = "ABORT_REQ" => Cardinality(Aborts1') = Cardinality(Aborts1) + 1
    <2>1. IsFiniteSet(Aborts1) /\ Len(rxq) + 1 \notin Aborts1
      BY <1>3, AbortsCounted DEF Aborts1
    <2> QED
      BY <1>6, <2>1, FS_AddElement
  <1>8. PutQueued' => PutQueued \/ c.op \in PutOps
    BY <1>1, <1>2 DEF PutQueued
  <1>9. FirstQueued => rxq'[1] = rxq[1]
    BY <1>1 DEF FirstQueued, Firsts
  <1>10. rxq = <<>> => rxq'[1] = c
    BY <1>1
  <1> QED
    BY <1>4, <1>5, <1>6, <1>7, <1>8, <1>9, <1>10 DEF FirstQueued

(* The timer of a connection that has hardly begun. *)
LEMMA TimerHeard ==
  ASSUME TypeInv, RInv, Hears, TimerOK(ep'),
         Early => \/ Started(ep')
                  \/ /\ ep'.state \in {"CONNECTING", "DEAD"} /\ (Stops(ep') => Stops(ep))
                     /\ (ep'.listed => ep.listed) /\ hw'.fw <= 0 /\ ~hw'.rdma
                     /\ (BreakQueued' => BreakQueued)
  PROVE  TimerInv'
  <1>1. /\ (Peer' <=> Peer) /\ Worker' = Worker /\ thr' = thr /\ qp' = qp
        /\ (BreakHandled' <=> BreakHandled) /\ (Busy("worker")' <=> Busy("worker"))
    BY HearsFrame
  <1>2. (ep'.ulp <=> ep.ulp) /\ (Started(ep') <=> Started(ep))
    BY DEF Hears, Steady
  <1>3. Started(ep) \/ Early
    BY DEF RInv, TimerInv
  <1>4. Early => Started(ep') \/ Early'
    BY <1>1, <1>2 DEF Early
  <1> QED
    BY <1>2, <1>3, <1>4 DEF TimerInv

(* The adapter says something that neither opens the connection nor has a  *)
(* reference. *)
Mutters(c) ==
  /\ UNCHANGED <<ep, qp, qmutex, thr, fatal>> /\ c \in Cpls
  /\ c.op \notin FirstOps \cup {"GET_TCB_RPL", "ABORT_REQ"}
  /\ c.op = "RDMA_TERMINATE" => hw.rdma
  /\ rxq' = Append(rxq, c) /\ ~Opening'
  /\ hw'.tcb = hw.tcb /\ hw'.fw = hw.fw /\ (hw'.rdma <=> hw.rdma)

LEMMA MuttersKeeps ==
  ASSUME TypeInv, TypeInv', RInv, NEW c, Mutters(c)
  PROVE  RInv'
  <1>1. Hears /\ ep' = ep
    <2>1. ep \in EpRecords /\ ep' = ep
      BY DEF Mutters, TypeInv
    <2> QED
      BY <2>1, SameReflexive DEF Mutters, Hears, Same
  <1>2. /\ c \in Cpls /\ rxq' = Append(rxq, c) /\ c.op \notin FirstOps
        /\ c.op # "GET_TCB_RPL" /\ c.op # "ABORT_REQ" /\ ep'.side = ep.side
        /\ c.op = "RDMA_TERMINATE" => hw.rdma
    BY <1>1 DEF Mutters
  <1>3. /\ Firsts' = Firsts /\ Tcbs' = Tcbs /\ Aborts1' = Aborts1
        /\ PutQueued' => PutQueued \/ c.op \in PutOps
        /\ FirstQueued => rxq'[1] = rxq[1]
    BY <1>2, QueueAdds
  <1>4. PutQueued' => PutQueued
    BY <1>2, <1>3 DEF PutOps, FirstOps, Untid
  <1>5. BreakQueued' => BreakQueued \/ hw.rdma
    BY <1>2, QueueSaid
  <1>6. hw'.tcb = hw.tcb /\ hw'.fw = hw.fw /\ (hw'.rdma <=> hw.rdma) /\ ~Opening'
    BY DEF Mutters
  <1>7. TcbInv' /\ (TcbOut' => TcbOut)
    BY <1>1, <1>3, <1>6, TcbHeard
  <1>8. TimerInv'
    <2>1. Early => /\ ep'.state \in {"CONNECTING", "DEAD"} /\ (Stops(ep') => Stops(ep))
                   /\ (ep'.listed => ep.listed) /\ hw'.fw <= 0 /\ ~hw'.rdma
                   /\ (BreakQueued' => BreakQueued)
      BY <1>1, <1>5, <1>6 DEF Early
    <2>2. TimerOK(ep')
      BY <1>1 DEF RInv, TimerInv
    <2> QED
      BY <1>1, <2>1, <2>2, TimerHeard
  <1>9. IntrInv'
    <2>1. Bit(AbortInHand') = Bit(AbortInHand)
      BY <1>1, HearsFrame DEF Bit
    <2> QED
      BY <1>1, <1>3, <2>1 DEF RInv, IntrInv
  <1> QED
    BY <1>1, <1>3, <1>4, <1>6, <1>7, <1>8, <1>9, HearsKeeps

LEMMA SaysMutters ==
  ASSUME UNCHANGED <<ep, qp, mutex, qmutex, thr, fatal>>, NEW op, NEW arg,
         Cpl(op, arg) \in Cpls, Says(op, arg),
         op \notin FirstOps \cup {"GET_TCB_RPL", "ABORT_REQ"}, op = "RDMA_TERMINATE" => hw.rdma,
         ~Opening', hw'.tcb = hw.tcb, hw'.fw = hw.fw, hw'.rdma <=> hw.rdma
  PROVE  \E c : Mutters(c)
  <1>1. Cpl(op, arg).op = op
    BY DEF Cpl
  <1>2. rxq' = Append(rxq, Cpl(op, arg))
    BY DEF Says
  <1>3. Mutters(Cpl(op, arg))
    BY <1>1, <1>2 DEF Mutters
  <1> QED
    BY <1>3

LEMMA SpeechMutters ==
  ASSUME TypeInv, Data \/ PeerFin \/ CloseRpl \/ Ack \/ PeerBreaks \/ AbortDone
  PROVE  \E c : Mutters(c)
  <1>1. UNCHANGED <<ep, qp, mutex, qmutex, thr, fatal>>
    BY DEF Data, PeerFin, CloseRpl, Ack, PeerBreaks, AbortDone, Alone
  <1>2. hw \in HwRecords
    BY DEF TypeInv
  <1>3. ~Opening' /\ hw'.tcb = hw.tcb /\ hw'.fw = hw.fw /\ (hw'.rdma <=> hw.rdma)
    BY <1>2 DEF Data, PeerFin, CloseRpl, Ack, PeerBreaks, AbortDone, HwRecords, Opening
  <1>4. CASE Data
    BY <1>1, <1>3, <1>4, SaysMutters DEF Data, Messages, Cpl, Cpls, FirstOps, Untid
  <1>5. CASE PeerFin
    BY <1>1, <1>3, <1>5, SaysMutters DEF PeerFin, Cpl, Cpls, FirstOps, Untid
  <1>6. CASE CloseRpl
    BY <1>1, <1>3, <1>6, SaysMutters DEF CloseRpl, Cpl, Cpls, FirstOps, Untid
  <1>7. CASE Ack
    BY <1>1, <1>3, <1>7, SaysMutters DEF Ack, Cpl, Cpls, FirstOps, Untid
  <1>8. CASE PeerBreaks
    BY <1>1, <1>3, <1>8, SaysMutters DEF PeerBreaks, Cpl, Cpls, FirstOps, Untid
  <1>9. CASE AbortDone
    BY <1>1, <1>3, <1>9, SaysMutters DEF AbortDone, Cpl, Cpls, FirstOps, Untid
  <1> QED
    BY <1>4, <1>5, <1>6, <1>7, <1>8, <1>9

(* The interrupt takes a reference, for the ABORT_REQ it queues. *)
LEMMA InterruptBooks ==
  ASSUME NEW e \in EpRecords
  PROVE  LET f == [Get(e) EXCEPT !.intr = @ + 1] IN
         /\ f.intr = e.intr + 1 /\ f.tcbs = e.tcbs /\ Ledger(f) = Ledger(e)
         /\ (f.base <=> e.base) /\ (f.hold <=> e.hold) /\ (f.listed <=> e.listed)
         /\ (Started(f) <=> Started(e)) /\ (TimerOK(f) <=> TimerOK(e)) /\ (Stops(f) <=> Stops(e))
  <1> DEFINE f == [Get(e) EXCEPT !.intr = @ + 1]
  <1>1. /\ f.kref = e.kref + 1 /\ f.flags = e.flags /\ f.tcbs = e.tcbs /\ f.intr = e.intr + 1
        /\ f.base = e.base /\ f.timer = e.timer /\ f.listed = e.listed /\ f.hold = e.hold
        /\ f.ulp = e.ulp
    BY DEF Get, EpRecords
  <1> HIDE DEF f
  <1>2. /\ e.kref \in Int /\ e.tcbs \in Int /\ e.intr \in Int
        /\ Bit(e.base) \in Int /\ Bit(e.timer) \in Int /\ Bit(e.listed) \in Int
        /\ Bit(e.ulp) \in Int /\ Bit(e.hold) \in Int
    BY DEF EpRecords, Bit
  <1>3. Ledger(f) = Ledger(e)
    BY <1>1, <1>2 DEF Ledger
  <1>4. /\ (Started(f) <=> Started(e)) /\ (TimerOK(f) <=> TimerOK(e)) /\ (Stops(f) <=> Stops(e))
    BY <1>1 DEF Started, TimerOK, Stops, Expired
  <1> QED
    BY <1>1, <1>3, <1>4 DEF f

Interrupts(c) ==
  /\ UNCHANGED <<qp, qmutex, thr, fatal>> /\ c \in Cpls /\ c.op = "ABORT_REQ"
  /\ ep' \in EpRecords /\ Same(ep, ep') /\ ep'.intr = ep.intr + 1 /\ ep'.tcbs = ep.tcbs
  /\ Ledger(ep') = Ledger(ep)
  /\ (ep'.base <=> ep.base) /\ (ep'.hold <=> ep.hold) /\ (ep'.listed <=> ep.listed)
  /\ (Started(ep') <=> Started(ep)) /\ (TimerOK(ep') <=> TimerOK(ep))
  /\ (Stops(ep') <=> Stops(ep))
  /\ rxq' = Append(rxq, c) /\ ~Opening'
  /\ hw'.tcb = hw.tcb /\ hw'.fw = hw.fw /\ (hw'.rdma <=> hw.rdma)

LEMMA InterruptsKeeps ==
  ASSUME TypeInv, TypeInv', RInv, NEW c, Interrupts(c)
  PROVE  RInv'
  <1>1. Hears
    BY DEF Interrupts, Hears, Same
  <1>2. /\ c \in Cpls /\ rxq' = Append(rxq, c) /\ c.op = "ABORT_REQ"
        /\ c.op \notin FirstOps /\ c.op # "GET_TCB_RPL" /\ c.op # "RDMA_TERMINATE"
    BY DEF Interrupts, FirstOps, Untid
  <1>3. /\ Firsts' = Firsts /\ Tcbs' = Tcbs /\ Cardinality(Aborts1') = Cardinality(Aborts1) + 1
        /\ PutQueued' => PutQueued \/ c.op \in PutOps
        /\ FirstQueued => rxq'[1] = rxq[1]
    BY <1>2, QueueAdds
  <1>4. PutQueued' => PutQueued
    BY <1>2, <1>3 DEF PutOps
  <1>5. /\ ep'.state = ep.state /\ (ep'.cm_id <=> ep.cm_id) /\ ep'.side = ep.side
        /\ (ep'.listed <=> ep.listed) /\ (TimerOK(ep') <=> TimerOK(ep))
        /\ (Stops(ep') <=> Stops(ep))
    BY DEF Interrupts, Same, Steady, Silent
  <1>6. BreakQueued' => BreakQueued
    BY <1>2, <1>5, QueueSaid
  <1>7. hw'.tcb = hw.tcb /\ hw'.fw = hw.fw /\ (hw'.rdma <=> hw.rdma) /\ ~Opening'
    BY DEF Interrupts
  <1>8. TcbInv' /\ (TcbOut' => TcbOut)
    BY <1>1, <1>3, <1>5, <1>7, TcbHeard
  <1>9. TimerInv'
    <2>1. Early => /\ ep'.state \in {"CONNECTING", "DEAD"} /\ (Stops(ep') => Stops(ep))
                   /\ (ep'.listed => ep.listed) /\ hw'.fw <= 0 /\ ~hw'.rdma
                   /\ (BreakQueued' => BreakQueued)
      BY <1>5, <1>6, <1>7 DEF Early
    <2>2. TimerOK(ep')
      BY <1>5 DEF RInv, TimerInv
    <2> QED
      BY <1>1, <2>1, <2>2, TimerHeard
  <1>10. IntrInv'
    <2>1. Bit(AbortInHand') = Bit(AbortInHand)
      BY <1>1, HearsFrame DEF Bit
    <2>2. ep'.intr = ep.intr + 1 /\ ep.intr \in Int
      BY DEF Interrupts, TypeInv, EpRecords
    <2>3. ep.intr >= Cardinality(Aborts1) + Bit(AbortInHand)
      BY DEF RInv, IntrInv
    <2>4. Cardinality(Aborts1) \in Int /\ Bit(AbortInHand) \in Int
      BY AbortsCounted DEF Bit
    <2>5. ep'.intr >= Cardinality(Aborts1') + Bit(AbortInHand')
      BY <1>3, <2>1, <2>2, <2>3, <2>4
    <2> QED
      BY <2>5 DEF IntrInv
  <1> QED
    BY <1>1, <1>3, <1>4, <1>5, <1>7, <1>8, <1>9, <1>10, HearsKeeps

LEMMA PeerRstInterrupts ==
  ASSUME TypeInv, PeerRst, Found
  PROVE  \E c : Interrupts(c)
  <1> DEFINE a == [Get(ep) EXCEPT !.intr = @ + 1]
             f == WakeUp(a, "reset")
  <1>1. ep \in EpRecords /\ hw \in HwRecords
    BY DEF TypeInv
  <1>2. /\ ~Opening' /\ hw'.tcb = hw.tcb /\ hw'.fw = hw.fw /\ (hw'.rdma <=> hw.rdma)
    BY <1>1 DEF PeerRst, HwRecords, Opening
  <1>3. a \in EpRecords /\ Same(ep, a)
    BY <1>1, InterruptFields
  <1>4. /\ a.intr = ep.intr + 1 /\ a.tcbs = ep.tcbs /\ Ledger(a) = Ledger(ep)
        /\ (a.base <=> ep.base) /\ (a.hold <=> ep.hold) /\ (a.listed <=> ep.listed)
        /\ (Started(a) <=> Started(ep)) /\ (TimerOK(a) <=> TimerOK(ep))
        /\ (Stops(a) <=> Stops(ep))
    BY <1>1, InterruptBooks
  <1> HIDE DEF a
  <1>5. f \in EpRecords /\ Same(a, f)
    BY <1>3, WakeUpSame DEF Rets
  <1>6. /\ Duties(a, f) /\ (Started(f) <=> Started(a)) /\ (TimerOK(f) <=> TimerOK(a))
        /\ (Stops(f) <=> Stops(a)) /\ Ledger(f) = Ledger(a)
    BY <1>3, WokenBooks DEF Rets
  <1>7. ep' = f
    BY DEF PeerRst, a
  <1> HIDE DEF f
  <1>8. /\ ep' \in EpRecords /\ Same(ep, ep') /\ ep'.intr = ep.intr + 1 /\ ep'.tcbs = ep.tcbs
        /\ Ledger(ep') = Ledger(ep)
        /\ (ep'.base <=> ep.base) /\ (ep'.hold <=> ep.hold) /\ (ep'.listed <=> ep.listed)
        /\ (Started(ep') <=> Started(ep)) /\ (TimerOK(ep') <=> TimerOK(ep))
        /\ (Stops(ep') <=> Stops(ep))
    BY <1>3, <1>4, <1>5, <1>6, <1>7 DEF Same, Steady, Silent, Duties
  <1>9. PICK why \in {"reset", "other"} : Says("ABORT_REQ", why)
    BY DEF PeerRst
  <1>10. /\ Cpl("ABORT_REQ", why) \in Cpls /\ Cpl("ABORT_REQ", why).op = "ABORT_REQ"
         /\ rxq' = Append(rxq, Cpl("ABORT_REQ", why))
    BY <1>9 DEF Says, Cpl, Cpls
  <1>11. UNCHANGED <<qp, qmutex, thr, fatal>>
    BY DEF PeerRst, Alone
  <1>12. Interrupts(Cpl("ABORT_REQ", why))
    BY <1>2, <1>8, <1>10, <1>11 DEF Interrupts
  <1> QED
    BY <1>12

LEMMA NegativeInterrupts ==
  ASSUME TypeInv, NegativeAdvice
  PROVE  \E c : Interrupts(c)
  <1> DEFINE a == [Get(ep) EXCEPT !.intr = @ + 1]
  <1>1. ep \in EpRecords /\ hw \in HwRecords
    BY DEF TypeInv
  <1>2. /\ ~Opening' /\ hw'.tcb = hw.tcb /\ hw'.fw = hw.fw /\ (hw'.rdma <=> hw.rdma)
    BY <1>1 DEF NegativeAdvice, HwRecords, Opening
  <1>3. a \in EpRecords /\ Same(ep, a)
    BY <1>1, InterruptFields
  <1>4. /\ a.intr = ep.intr + 1 /\ a.tcbs = ep.tcbs /\ Ledger(a) = Ledger(ep)
        /\ (a.base <=> ep.base) /\ (a.hold <=> ep.hold) /\ (a.listed <=> ep.listed)
        /\ (Started(a) <=> Started(ep)) /\ (TimerOK(a) <=> TimerOK(ep))
        /\ (Stops(a) <=> Stops(ep))
    BY <1>1, InterruptBooks
  <1>5. ep' = a
    BY DEF NegativeAdvice
  <1> HIDE DEF a
  <1>6. /\ Cpl("ABORT_REQ", "neg") \in Cpls /\ Cpl("ABORT_REQ", "neg").op = "ABORT_REQ"
        /\ rxq' = Append(rxq, Cpl("ABORT_REQ", "neg"))
    BY DEF NegativeAdvice, Says, Cpl, Cpls
  <1>7. UNCHANGED <<qp, qmutex, thr, fatal>>
    BY DEF NegativeAdvice, Alone
  <1>8. Interrupts(Cpl("ABORT_REQ", "neg"))
    BY <1>2, <1>3, <1>4, <1>5, <1>6, <1>7 DEF Interrupts
  <1> QED
    BY <1>8

(* Nothing is said. *)
LEMMA UnsaidKeeps ==
  ASSUME TypeInv, TypeInv', RInv, Hears, ep'.state = ep.state, ep'.cm_id <=> ep.cm_id,
         rxq' = rxq, ep'.intr = ep.intr, hw'.tcb = hw.tcb, Opening' => Opening, TimerInv'
  PROVE  RInv'
  <1>1. /\ Firsts' = Firsts /\ Tcbs' = Tcbs /\ Aborts1' = Aborts1
        /\ (PutQueued' <=> PutQueued)
    BY QueueSame
  <1>2. TcbInv' /\ (TcbOut' => TcbOut)
    BY <1>1, TcbHeard
  <1>3. IntrInv'
    <2>1. Bit(AbortInHand') = Bit(AbortInHand)
      BY HearsFrame DEF Bit
    <2> QED
      BY <1>1, <2>1 DEF RInv, IntrInv
  <1> QED
    BY <1>1, <1>2, <1>3, HearsKeeps

LEMMA LostRstKeepsRefs ==
  ASSUME TypeInv, TypeInv', RInv, PeerRst, ~Found
  PROVE  RInv'
  <1>1. UNCHANGED <<ep, qp, qmutex, thr, fatal, rxq>>
    BY DEF PeerRst, Alone
  <1>2. ~Opening' /\ hw'.tcb = hw.tcb /\ hw'.fw = hw.fw /\ (hw'.rdma <=> hw.rdma)
    BY DEF PeerRst, TypeInv, HwRecords, Opening
  <1>3. Hears /\ ep' = ep
    BY <1>1, SameReflexive DEF Hears, TypeInv, Same
  <1>4. TimerInv'
    <2>1. BreakQueued' <=> BreakQueued
      BY <1>1, QueueSame
    <2>2. Early => /\ ep'.state \in {"CONNECTING", "DEAD"} /\ (Stops(ep') => Stops(ep))
                   /\ (ep'.listed => ep.listed) /\ hw'.fw <= 0 /\ ~hw'.rdma
                   /\ (BreakQueued' => BreakQueued)
      BY <1>2, <1>3, <2>1 DEF Early
    <2>3. TimerOK(ep')
      BY <1>3 DEF RInv, TimerInv
    <2> QED
      BY <1>3, <2>2, <2>3, TimerHeard
  <1> QED
    BY <1>1, <1>2, <1>3, <1>4, UnsaidKeeps

(* The answer of the firmware wakes the thread. *)
LEMMA FwReplyKeepsRefs ==
  ASSUME TypeInv, TypeInv', RInv, FwReply
  PROVE  RInv'
  <1>1. UNCHANGED <<qp, qmutex, thr, fatal, rxq>> /\ ~(hw.fw <= 0)
    BY DEF FwReply, Alone, TypeInv, HwRecords
  <1>2. hw'.conn = hw.conn /\ hw'.tcb = hw.tcb
    BY DEF FwReply, TypeInv, HwRecords
  <1>3. PICK r \in Rets : ep' = WakeUp(ep, r)
    BY DEF FwReply, Rets
  <1>4. ep' \in EpRecords /\ Same(ep, ep')
    BY <1>3, WakeUpSame DEF TypeInv
  <1>5. /\ Duties(ep, ep') /\ (Started(ep') <=> Started(ep)) /\ (TimerOK(ep') <=> TimerOK(ep))
        /\ Ledger(ep') = Ledger(ep)
    BY <1>3, WokenBooks DEF TypeInv
  <1>6. Hears
    BY <1>1, <1>4, <1>5 DEF Hears, Duties, Same
  <1>7. ~Early
    BY <1>1 DEF Early
  <1>8. TimerInv'
    BY <1>5, <1>7 DEF RInv, TimerInv
  <1>9. ep'.state = ep.state /\ (ep'.cm_id <=> ep.cm_id) /\ ep'.intr = ep.intr
    BY <1>4, <1>5 DEF Same, Silent, Duties
  <1>10. Opening' => Opening
    BY <1>2 DEF Opening
  <1> QED
    BY <1>1, <1>2, <1>6, <1>8, <1>9, <1>10, UnsaidKeeps

(* ep_timeout: the timer's reference becomes the list's. *)
LEMMA ExpireBooks ==
  ASSUME NEW e \in EpRecords, Bit(e.timer) = 1, Bit(e.listed) = 0
  PROVE  LET f == [SetFlag(e, "TIMEOUT") EXCEPT !.timer = FALSE, !.listed = TRUE] IN
         /\ f.intr = e.intr /\ f.tcbs = e.tcbs /\ Ledger(f) = Ledger(e)
         /\ (f.base <=> e.base) /\ (f.hold <=> e.hold) /\ Started(f) /\ TimerOK(f)
  <1> DEFINE f == [SetFlag(e, "TIMEOUT") EXCEPT !.timer = FALSE, !.listed = TRUE]
  <1>1. /\ f.kref = e.kref /\ f.flags = e.flags \cup {"TIMEOUT"} /\ f.tcbs = e.tcbs
        /\ f.intr = e.intr /\ f.base = e.base /\ f.timer = FALSE /\ f.listed = TRUE
        /\ f.hold = e.hold /\ f.ulp = e.ulp
    BY DEF SetFlag, EpRecords
  <1> HIDE DEF f
  <1>2. Started(f) /\ TimerOK(f)
    BY <1>1 DEF Started, TimerOK, Expired
  <1>3. Bit(f.timer) = 0 /\ Bit(f.listed) = 1
    BY <1>1 DEF Bit
  <1>4. Bit(f.base) = Bit(e.base) /\ Bit(f.hold) = Bit(e.hold) /\ Bit(f.ulp) = Bit(e.ulp)
    BY <1>1
  <1>5. /\ e.kref \in Int /\ e.tcbs \in Int /\ e.intr \in Int
        /\ Bit(e.base) \in Int /\ Bit(e.ulp) \in Int /\ Bit(e.hold) \in Int
    BY DEF EpRecords, Bit
  <1>6. Ledger(f) = Ledger(e)
    <2>1. f.kref = e.kref /\ f.tcbs = e.tcbs /\ f.intr = e.intr
      BY <1>1
    <2>2. Bit(e.timer) = 1 /\ Bit(e.listed) = 0
      OBVIOUS
    <2> QED
      BY <1>3, <1>4, <1>5, <2>1, <2>2 DEF Ledger
  <1> QED
    BY <1>1, <1>2, <1>6 DEF f

LEMMA ExpireKeepsRefs ==
  ASSUME TypeInv, TypeInv', RInv, Expire
  PROVE  RInv'
  <1> DEFINE a == SetFlag(ep, "TIMEOUT")
             b == With_timer(a, FALSE)
             f == With_listed(b, TRUE)
  <1>1. ep \in EpRecords /\ UNCHANGED <<qp, mutex, qmutex, thr, rxq, hw, fatal>>
    BY DEF Expire, TypeInv
  <1>2. a \in EpRecords /\ Same(ep, a)
    BY <1>1, SetFlagSame DEF EpFlags
  <1>3. b \in EpRecords /\ Same(a, b)
    BY <1>2, TimerFlagSame
  <1>4. f \in EpRecords /\ Same(b, f)
    BY <1>3, ListedSame
  <1>5. ep' = f
    BY DEF Expire, With_timer, With_listed
  <1>6. Bit(ep.timer) = 1 /\ Bit(ep.listed) = 0 /\ Started(ep)
    BY DEF Expire, Bit, Started
  <1>7. /\ ep'.intr = ep.intr /\ ep'.tcbs = ep.tcbs /\ Ledger(ep') = Ledger(ep)
        /\ (ep'.base <=> ep.base) /\ (ep'.hold <=> ep.hold) /\ Started(ep') /\ TimerOK(ep')
    <2>1. ep' = [SetFlag(ep, "TIMEOUT") EXCEPT !.timer = FALSE, !.listed = TRUE]
      BY DEF Expire
    <2> QED
      BY <1>1, <1>6, <2>1, ExpireBooks
  <1> HIDE DEF a, b, f
  <1>8. ep' \in EpRecords /\ Same(ep, ep')
    BY <1>2, <1>3, <1>4, <1>5 DEF Same, Steady, Silent
  <1>9. Hears
    BY <1>1, <1>6, <1>7, <1>8 DEF Hears, Same
  <1>10. TimerInv' /\ (Opening' => Opening)
    BY <1>1, <1>7 DEF TimerInv, Opening
  <1>11. ep'.state = ep.state /\ (ep'.cm_id <=> ep.cm_id)
    BY <1>8 DEF Same, Silent
  <1>12. rxq' = rxq /\ hw'.tcb = hw.tcb
    BY <1>1
  <1> QED
    BY <1>7, <1>9, <1>10, <1>11, <1>12, UnsaidKeeps

(* The TCB is queued. *)
LEMMA TcbKeepsRefs ==
  ASSUME TypeInv, TypeInv', RInv, Tcb
  PROVE  RInv'
  <1>1. UNCHANGED <<ep, qp, qmutex, thr, fatal>> /\ hw.tcb > 0
    BY DEF Tcb, Alone
  <1>2. /\ hw'.conn = hw.conn /\ hw'.tcb = hw.tcb - 1 /\ hw'.fw = hw.fw
        /\ (hw'.rdma <=> hw.rdma)
    BY DEF Tcb, TypeInv, HwRecords
  <1>3. Hears /\ ep' = ep
    BY <1>1, SameReflexive DEF Hears, TypeInv, Same
  <1>4. PICK pdu \in {"ok", "out"} : Says("GET_TCB_RPL", pdu)
    BY DEF Tcb
  <1> DEFINE c == Cpl("GET_TCB_RPL", pdu)
  <1>5. c \in Cpls /\ c.op = "GET_TCB_RPL" /\ rxq' = Append(rxq, c)
    BY <1>4 DEF Says, Cpl, Cpls
  <1> HIDE DEF c
  <1>6. c.op \notin FirstOps /\ c.op # "ABORT_REQ" /\ c.op \notin PutOps /\ c.op # "RDMA_TERMINATE"
    BY <1>5 DEF FirstOps, Untid, PutOps
  <1>7. /\ Firsts' = Firsts /\ Aborts1' = Aborts1
        /\ (Tcbs = {} => \A i, j \in Tcbs' : i = j)
        /\ PutQueued' => PutQueued \/ c.op \in PutOps
        /\ FirstQueued => rxq'[1] = rxq[1]
    BY <1>5, <1>6, QueueAdds
  <1>8. BreakQueued' => BreakQueued
    BY <1>3, <1>5, <1>6, QueueSaid
  <1>9. /\ (Peer' <=> Peer) /\ (TcbHandled' <=> TcbHandled)
        /\ (In("worker", "tcb")' <=> In("worker", "tcb")) /\ (Accepting' <=> Accepting)
        /\ (AbortInHand' <=> AbortInHand)
    BY <1>3, HearsFrame
  <1>10. hw.tcb = 1 /\ Tcbs = {} /\ ~TcbHandled /\ TcbOut
    BY <1>1 DEF RInv, TcbInv, TcbOut
  <1>11. ~Under /\ ~Opening /\ ~Opening'
    <2>1. ~Under
      BY <1>10 DEF RInv, UnderInv
    <2> QED
      BY <1>2, <2>1 DEF Under, Opening
  <1>12. TcbInv'
    <2>1. hw'.tcb = 0
      BY <1>2, <1>10
    <2>2. \A i, j \in Tcbs' : i = j
      BY <1>7, <1>10
    <2> QED
      BY <1>3, <1>9, <1>10, <2>1, <2>2 DEF RInv, TcbInv
  <1>13. TimerInv'
    <2>1. Early => /\ ep'.state \in {"CONNECTING", "DEAD"} /\ (Stops(ep') => Stops(ep))
                   /\ (ep'.listed => ep.listed) /\ hw'.fw <= 0 /\ ~hw'.rdma
                   /\ (BreakQueued' => BreakQueued)
      BY <1>2, <1>3, <1>8 DEF Early
    <2>2. TimerOK(ep')
      BY <1>3 DEF RInv, TimerInv
    <2> QED
      BY <1>3, <2>1, <2>2, TimerHeard
  <1>14. IntrInv'
    <2>1. Bit(AbortInHand') = Bit(AbortInHand)
      BY <1>9 DEF Bit
    <2> QED
      BY <1>3, <1>7, <2>1 DEF RInv, IntrInv
  <1>15. (PutQueued' => PutQueued) /\ (TcbOut' => TcbOut)
    BY <1>6, <1>7, <1>10
  <1> QED
    BY <1>3, <1>7, <1>11, <1>12, <1>13, <1>14, <1>15, HearsKeeps

(* The connection being opened opens, or fails: the first message says so. *)
Starts(c) ==
  /\ Hears /\ Opening /\ ~Opening'
  /\ c \in Cpls /\ c.op \in FirstOps /\ rxq' = Append(rxq, c)
  /\ hw'.tcb = hw.tcb /\ hw'.fw = hw.fw /\ (hw'.rdma <=> hw.rdma)
  /\ ep'.intr = ep.intr /\ (ep'.listed <=> ep.listed) /\ (TimerOK(ep') <=> TimerOK(ep))
  /\ (Stops(ep') <=> Stops(ep)) /\ (ep'.cm_id => ep.cm_id)
  /\ ep'.state = ep.state \/ ep'.state = "DEAD"
  /\ c.op \in PutOps => ep'.state = "DEAD" /\ (Active => ~ep'.cm_id)

LEMMA BeginsKeep ==
  ASSUME TypeInv, TypeInv', RInv, NEW c, Starts(c)
  PROVE  RInv'
  <1>1. Hears /\ c \in Cpls /\ rxq' = Append(rxq, c) /\ Opening /\ ~Opening' /\ c.op \in FirstOps
    BY DEF Starts
  <1>2. /\ (Active' <=> Active) /\ (Peer' <=> Peer) /\ Worker' = Worker /\ thr' = thr /\ qp' = qp
        /\ (FirstHandled' <=> FirstHandled) /\ (PutHandled' <=> PutHandled)
        /\ (TcbHandled' <=> TcbHandled) /\ (Busy("worker")' <=> Busy("worker"))
        /\ (In("worker", "tcb")' <=> In("worker", "tcb")) /\ (AbortInHand' <=> AbortInHand)
        /\ (Accepting' <=> Accepting) /\ (Replying' <=> Replying)
    BY <1>1, HearsFrame
  <1>3. /\ ep'.side = ep.side /\ ep'.hwtid = ep.hwtid /\ (ep'.retry_v1 <=> ep.retry_v1)
        /\ (ep'.base <=> ep.base) /\ (ep'.hold <=> ep.hold)
        /\ (Started(ep') <=> Started(ep))
    BY <1>1 DEF Hears, Steady
  <1>4. Under /\ ~FirstQueued /\ ~FirstHandled /\ Firsts = {}
    BY <1>1 DEF RInv, FirstInv, Under, FirstQueued
  <1>5. /\ ep.base /\ ep.state \in {"CONNECTING", "DEAD"} /\ ~Peer /\ ~ep.hold /\ ~TcbOut
        /\ ~Worker.rel /\ ~Busy("worker") /\ ~qp.ep
        /\ \A t \in Threads : thr[t].disc = 0
        /\ Active => ep.hwtid # "own"
        /\ ~Active => ~Started(ep) /\ Worker.at = "idle" /\ rxq = <<>>
    BY <1>1, <1>4 DEF RInv, UnderInv
  <1>6. c.op # "GET_TCB_RPL" /\ c.op # "ABORT_REQ" /\ c.op # "RDMA_TERMINATE"
    BY <1>1 DEF FirstOps, Untid
  <1>7. /\ FirstQueued' /\ \A i, j \in Firsts' : i = j
        /\ Tcbs' = Tcbs /\ Aborts1' = Aborts1
        /\ PutQueued' => PutQueued \/ c.op \in PutOps
        /\ rxq = <<>> => rxq'[1] = c
    BY <1>1, <1>4, <1>6, QueueAdds
  <1>8. ~PutQueued /\ ~PutHandled
    BY <1>4 DEF PutQueued, PutHandled, FirstQueued, FirstHandled, Firsts, PutOps, FirstOps, Untid
  <1>9. BreakQueued' => BreakQueued
    BY <1>1, <1>3, <1>6, QueueSaid
  <1>10. /\ ep'.state \in {"CONNECTING", "DEAD"} /\ (ep'.cm_id => ep.cm_id)
         /\ c.op \in PutOps => ep'.state = "DEAD" /\ (Active => ~ep'.cm_id)
         /\ hw'.tcb = hw.tcb /\ hw'.fw = hw.fw /\ (hw'.rdma <=> hw.rdma)
         /\ ep'.intr = ep.intr /\ (ep'.listed <=> ep.listed) /\ (TimerOK(ep') <=> TimerOK(ep))
         /\ (Stops(ep') <=> Stops(ep))
    BY <1>5 DEF Starts
  <1>11. ~TcbOut'
    BY <1>2, <1>5, <1>7, <1>10 DEF TcbOut
  <1>12. Under' /\ ~Replying /\ ~Replying'
    BY <1>2, <1>5, <1>7 DEF Under, Replying, In
  <1>13. FirstInv'
    BY <1>1, <1>2, <1>4, <1>7 DEF FirstInv
  <1>14. UnderInv'
    <2>1. ~Active' => Worker'.at = "idle" /\ rxq'[1].op \in FirstOps
      BY <1>1, <1>2, <1>5, <1>7
    <2> QED
      BY <1>1, <1>2, <1>3, <1>5, <1>7, <1>10, <1>11, <2>1 DEF UnderInv
  <1>15. OwnInv'
    BY <1>2, <1>3 DEF RInv, OwnInv
  <1>16. LinkInv'
    <2>1. Active => thr["ulp"].at = "idle"
      BY DEF RInv, LinkInv
    <2>2. ~qp.ep /\ ~(thr["user"].disc > 0)
      BY <1>5 DEF Threads
    <2> QED
      BY <1>2, <1>12, <2>1, <2>2 DEF LinkInv
  <1>17. TcbInv'
    <2>1. ~TcbOut => Tcbs = {} /\ ~TcbHandled
      BY DEF TcbOut
    <2>2. hw.tcb \in {0, 1} /\ ep.tcbs >= 0
      BY DEF RInv, TcbInv
    <2>3. ep'.tcbs = ep.tcbs /\ ~In("worker", "tcb")
      BY <1>1, <1>5 DEF Hears, In
    <2> QED
      BY <1>2, <1>3, <1>5, <1>7, <1>10, <1>11, <2>1, <2>2, <2>3 DEF TcbInv
  <1>18. IntrInv'
    <2>1. Bit(AbortInHand') = Bit(AbortInHand)
      BY <1>2 DEF Bit
    <2> QED
      BY <1>7, <1>10, <2>1 DEF RInv, IntrInv
  <1>19. TimerInv'
    <2>1. TimerOK(ep')
      BY <1>10 DEF RInv, TimerInv
    <2>2. Early => hw'.fw <= 0 /\ ~hw'.rdma
      BY <1>10 DEF Early
    <2> QED
      BY <1>1, <1>9, <1>10, <2>1, <2>2, TimerHeard
  <1>20. ASSUME "alloc" \notin Faults
         PROVE  GoneInv'
    <2>1. GoneInv
      BY <1>20 DEF RInv
    <2>2. ~Active => ~ep'.cm_id
      BY <1>4, <1>10, <2>1 DEF GoneInv
    <2>3. PutQueued' => c.op \in PutOps
      BY <1>7, <1>8
    <2>4. PutQueued' => ~ep'.cm_id /\ ep'.state = "DEAD"
      BY <1>10, <2>2, <2>3
    <2>5. ~PutHandled' /\ ~Worker'.rel /\ ep'.base
      BY <1>2, <1>3, <1>5, <1>8
    <2> QED
      BY <1>2, <1>10, <2>2, <2>4, <2>5 DEF GoneInv
  <1> QED
    BY <1>1, <1>13, <1>14, <1>15, <1>16, <1>17, <1>18, <1>19, <1>20, HearsThreads DEF RInv

LEMMA SettlesBegins ==
  ASSUME TypeInv, Establish \/ OpenFails
  PROVE  \E c : Starts(c)
  <1>1. Settles
    BY EstablishStep, OpenFailsStep
  <1>2. PICK c \in Cpls : c.op \in OpenOps /\ rxq' = Append(rxq, c)
    BY <1>1 DEF Settles
  <1>3. c.op \in FirstOps /\ c.op \notin PutOps
    BY <1>2 DEF OpenOps, ActOps, FirstOps, Untid, PutOps
  <1>4. Hears /\ ep' = ep
    <2>1. ep \in EpRecords /\ ep' = ep
      BY <1>1 DEF Settles, TypeInv
    <2> QED
      BY <1>1, <2>1, SameReflexive DEF Settles, Hears, Same
  <1>5. hw'.tcb = hw.tcb
    BY DEF Establish, OpenFails, TypeInv, HwRecords
  <1>6. Opening /\ ~Opening' /\ hw'.fw = hw.fw /\ (hw'.rdma <=> hw.rdma)
    BY <1>1 DEF Settles, Opening
  <1> QED
    BY <1>2, <1>3, <1>4, <1>5, <1>6 DEF Starts

(* Refused and dead, it has the references it had. *)
LEMMA RefusedBooks ==
  ASSUME NEW e \in EpRecords, NEW f \in {e, ConnectReply(e, FALSE)}
  PROVE  LET g == SetState(f, "DEAD") IN
         /\ g.tcbs = e.tcbs /\ g.intr = e.intr /\ Ledger(g) = Ledger(e)
         /\ (g.base <=> e.base) /\ (g.hold <=> e.hold) /\ (g.listed <=> e.listed)
         /\ (Started(g) <=> Started(e)) /\ (TimerOK(g) <=> TimerOK(e)) /\ (Stops(g) <=> Stops(e))
         /\ (g.cm_id => e.cm_id)
  <1> DEFINE g == SetState(f, "DEAD")
  <1>1. f \in EpRecords /\ f.timer = e.timer /\ f.flags = e.flags /\ (f.cm_id => e.cm_id)
    <2>1. CASE f = e
      BY <2>1
    <2>2. CASE f = ConnectReply(e, FALSE)
      <3>1. f \in EpRecords /\ ~f.cm_id
        BY <2>2, RefuseFields
      <3>2. f.timer = e.timer /\ f.flags = e.flags
        BY <2>2 DEF ConnectReply, LastUpcall, Upcall, EpRecords
      <3> QED
        BY <3>1, <3>2
    <2> QED
      BY <2>1, <2>2
  <1>2. Level(e, f)
    BY ReplyBooks, LevelReflexive
  <1>3. Level(f, g)
    BY <1>1, StateBooks DEF States
  <1>4. g.timer = f.timer /\ g.flags = f.flags /\ g.cm_id = f.cm_id
    BY <1>1 DEF SetState, EpRecords
  <1>5. Level(e, g)
    BY <1>2, <1>3, LevelTransitive
  <1> HIDE DEF g
  <1>6. (Started(g) <=> Started(e)) /\ (TimerOK(g) <=> TimerOK(e)) /\ (Stops(g) <=> Stops(e))
    BY <1>1, <1>4 DEF Started, TimerOK, Stops, Expired
  <1> QED
    BY <1>1, <1>4, <1>5, <1>6 DEF Level, Duties, g

LEMMA ArpFailsBegins ==
  ASSUME TypeInv, ArpFails
  PROVE  \E c : Starts(c)
  <1> DEFINE c == Cpl(IF Active THEN "PUT_EP_SAFE" ELSE "PASS_PUT_EP_SAFE", "ok")
             f == IF Active THEN ConnectReply(ep, FALSE) ELSE ep
             g == SetState(f, "DEAD")
  <1>1. Lost
    BY ArpFailsStep
  <1>2. c \in Cpls /\ c.op \in FirstOps /\ rxq' = Append(rxq, c)
    BY DEF ArpFails, Says, Cpl, Cpls, FirstOps, Untid
  <1>3. /\ Opening /\ ~Opening' /\ hw'.fw = hw.fw /\ (hw'.rdma <=> hw.rdma)
        /\ UNCHANGED <<qp, qmutex, thr, fatal>>
        /\ ep' \in EpRecords /\ Steady(ep, ep') /\ ep'.state = "DEAD"
        /\ Active => ~ep'.cm_id
    BY <1>1 DEF Lost, Opening
  <1>4. hw'.tcb = hw.tcb
    BY DEF ArpFails, TypeInv, HwRecords
  <1>5. ep \in EpRecords /\ f \in {ep, ConnectReply(ep, FALSE)} /\ ep' = g
    BY DEF ArpFails, TypeInv
  <1> HIDE DEF c, f
  <1>6. /\ ep'.tcbs = ep.tcbs /\ ep'.intr = ep.intr /\ Ledger(ep') = Ledger(ep)
        /\ (ep'.base <=> ep.base) /\ (ep'.hold <=> ep.hold) /\ (ep'.listed <=> ep.listed)
        /\ (Started(ep') <=> Started(ep)) /\ (TimerOK(ep') <=> TimerOK(ep))
        /\ (Stops(ep') <=> Stops(ep)) /\ (ep'.cm_id => ep.cm_id)
    BY <1>5, RefusedBooks
  <1>7. Hears
    BY <1>3, <1>6 DEF Hears
  <1> QED
    BY <1>2, <1>3, <1>4, <1>6, <1>7 DEF Starts

(* The adapter, if it is never disabled. *)
LEMMA AdapterKeepsRefs ==
  ASSUME Faultless, TypeInv, TypeInv', RInv, Adapter
  PROVE  RInv'
  <1>1. CASE Establish \/ OpenFails \/ ArpFails
    BY <1>1, SettlesBegins, ArpFailsBegins, BeginsKeep
  <1>2. CASE Data \/ PeerFin \/ CloseRpl \/ Ack \/ PeerBreaks \/ AbortDone
    BY <1>2, SpeechMutters, MuttersKeeps
  <1>3. CASE PeerRst
    BY <1>3, PeerRstInterrupts, LostRstKeepsRefs, InterruptsKeeps
  <1>4. CASE NegativeAdvice
    BY <1>4, NegativeInterrupts, InterruptsKeeps
  <1>5. CASE Tcb \/ FwReply
    BY <1>5, TcbKeepsRefs, FwReplyKeepsRefs
  <1>6. ~Disabled
    BY DEF Disabled, Faultless
  <1> QED
    BY <1>1, <1>2, <1>3, <1>4, <1>5, <1>6 DEF Adapter

-----------------------------------------------------------------------------
(* The invariant holds of a new endpoint, *)
LEMMA NewEpBooks ==
  ASSUME NEW side \in Sides
  PROVE  LET e == NewEp(side) IN
         /\ e.base /\ ~e.hold /\ e.tcbs = 0 /\ e.intr = 0 /\ Ledger(e) = 0
         /\ ~Started(e) /\ TimerOK(e) /\ ~Stops(e) /\ ~e.ulp /\ ~e.listed
         /\ ~Peers(e) /\ ~e.retry_v1 /\ e.side = side
         /\ e.state = "CONNECTING" /\ (e.cm_id <=> side = "active")
         /\ (e.hwtid = "own" => side = "passive")
  <1> DEFINE e == NewEp(side)
  <1>1. /\ e.kref = 1 /\ e.base = TRUE /\ e.timer = FALSE /\ e.listed = FALSE /\ e.ulp = FALSE
        /\ e.hold = FALSE /\ e.tcbs = 0 /\ e.intr = 0 /\ e.flags = {} /\ e.side = side
        /\ e.retry_v1 = FALSE /\ e.state = "CONNECTING" /\ e.cm_id = (side = "active")
        /\ e.hwtid = IF side = "active" THEN "none" ELSE "own"
    BY DEF NewEp
  <1>2. side \in {"active", "passive"}
    BY EndpointAssumption
  <1> HIDE DEF e
  <1>3. Bit(TRUE) = 1 /\ Bit(FALSE) = 0
    BY DEF Bit
  <1>4. Ledger(e) = 0
    <2>1. /\ Bit(e.base) = 1 /\ Bit(e.timer) = 0 /\ Bit(e.listed) = 0 /\ Bit(e.ulp) = 0
          /\ Bit(e.hold) = 0
      BY <1>1, <1>3
    <2>2. e.kref = 1 /\ e.tcbs = 0 /\ e.intr = 0
      BY <1>1
    <2> QED
      BY <2>1, <2>2 DEF Ledger
  <1> QED
    BY <1>1, <1>2, <1>4 DEF Started, TimerOK, Stops, Expired, Peers, e

LEMMA InitRefs ==
  ASSUME Init
  PROVE  RInv
  <1>1. PICK side \in Sides : ep = NewEp(side)
    BY DEF Init
  <1>2. /\ ep.base /\ ~ep.hold /\ ep.tcbs = 0 /\ ep.intr = 0 /\ Ledger(ep) = 0
        /\ ~Started(ep) /\ TimerOK(ep) /\ ~Stops(ep) /\ ~ep.ulp /\ ~ep.listed
        /\ ~Peer /\ ~ep.retry_v1
        /\ ep.state = "CONNECTING" /\ (ep.cm_id <=> Active)
        /\ (ep.hwtid = "own" => ~Active)
    BY <1>1, NewEpBooks DEF Peer, Active
  <1>3. rxq = <<>> /\ ~fatal /\ ~qp.ep /\ qp.state = "IDLE"
    BY DEF Init
  <1>4. Opening /\ hw.tcb = 0 /\ hw.fw = 0 /\ ~hw.rdma
    BY NewConnFields DEF Init, Opening, NewConn
  <1>5. \A t \in Threads : /\ thr[t].at = "idle" /\ thr[t].held = 0 /\ thr[t].disc = 0
                           /\ ~thr[t].rel
    BY DEF Init, Idle
  <1>6. /\ Worker.at = "idle" /\ ~Worker.rel /\ ~Busy("worker") /\ ~FirstHandled /\ ~TcbHandled
        /\ ~PutHandled /\ ~BreakHandled /\ ~AbortInHand /\ ~In("worker", "tcb") /\ ~Accepting
        /\ ~Replying /\ thr["ulp"].at = "idle" /\ ~(thr["user"].disc > 0)
    BY <1>5 DEF Threads, Worker, Busy, FirstHandled, TcbHandled, PutHandled, BreakHandled,
                AbortInHand, In, Accepting, Replying
  <1>7. /\ Firsts = {} /\ Tcbs = {} /\ Aborts1 = {} /\ ~FirstQueued /\ ~PutQueued /\ ~BreakQueued
    BY <1>3 DEF Firsts, Tcbs, Aborts1, FirstQueued, PutQueued, BreakQueued
  <1>8. ~TcbOut
    BY <1>4, <1>6, <1>7 DEF TcbOut
  <1>9. RestInv
    <2>1. ~(0 > 0)
      OBVIOUS
    <2> QED
      BY <1>5, <2>1, Zenon DEF RestInv, RestAt, In, Busy
  <1>10. QpInv
    BY <1>3, <1>5 DEF QpInv
  <1>11. TimerInv
    BY <1>2, <1>3, <1>4, <1>5, <1>6, <1>7 DEF TimerInv, Early
  <1>12. FirstInv
    BY <1>6, <1>7 DEF FirstInv
  <1>13. UnderInv
    BY <1>2, <1>3, <1>5, <1>6, <1>7, <1>8 DEF UnderInv
  <1>14. OwnInv /\ LinkInv
    BY <1>2, <1>3, <1>6 DEF OwnInv, LinkInv
  <1>15. TcbInv
    BY <1>2, <1>4, <1>6, <1>7, <1>8 DEF TcbInv
  <1>16. IntrInv
    <2>1. Cardinality(Aborts1) = 0 /\ Bit(AbortInHand) = 0
      BY <1>6, <1>7, FS_EmptySet DEF Bit
    <2> QED
      BY <1>2, <2>1 DEF IntrInv
  <1>17. RefsBalance
    <2>1. TypeInv
      BY InitInv DEF IInv
    <2>2. Bit(qp.ep) = 0 /\ Held = 0
      BY <1>3, <1>5 DEF Bit, Held, Threads
    <2> QED
      BY <1>2, <2>1, <2>2, BalanceIs
  <1>18. GoneInv
    BY <1>2, <1>6, <1>7 DEF GoneInv
  <1> QED
    BY <1>3, <1>9, <1>10, <1>11, <1>12, <1>13, <1>14, <1>15, <1>16, <1>17, <1>18 DEF RInv

(* and every step keeps it, while the adapter takes what it is sent. *)
LEMMA HandlerKeepsRefs ==
  ASSUME Faultless, TypeInv, TypeInv', EventInv, RInv, Handler
  PROVE  RInv'
  <1>1. CASE ActOpenRpl \/ ActEstablish \/ PassEstablish \/ PutEpSafe
    BY <1>1, ActOpenRplKeepsRefs, ActEstablishKeepsRefs, PassEstablishKeepsRefs,
       PutEpSafeKeepsRefs
  <1>2. CASE OrdinaryHandler \/ MpaRequest
    BY <1>2, PlainHandlerKeeps
  <1>3. CASE PeerAbort \/ PeerAborted
    BY <1>3, PeerAbortKeepsRefs, PeerAbortedKeepsRefs
  <1>4. CASE ReadTcbRpl \/ TcbRead
    BY <1>4, ReadTcbRplKeepsRefs, TcbReadKeepsRefs
  <1> QED
    BY <1>1, <1>2, <1>3, <1>4 DEF Handler, OrdinaryHandler

LEMMA StutterKeepsRefs ==
  ASSUME TypeInv, TypeInv', RInv, UNCHANGED vars
  PROVE  RInv'
  <1>1. UNCHANGED <<ep, qp, qmutex, thr, rxq, hw, fatal>>
    BY DEF vars
  <1>2. Hears
    BY <1>1, SameReflexive DEF Hears, TypeInv, Same
  <1>3. BreakQueued' <=> BreakQueued
    BY <1>1, QueueSame
  <1>4. Early => /\ ep'.state \in {"CONNECTING", "DEAD"} /\ (Stops(ep') => Stops(ep))
                 /\ (ep'.listed => ep.listed) /\ hw'.fw <= 0 /\ ~hw'.rdma
                 /\ (BreakQueued' => BreakQueued)
    BY <1>1, <1>3 DEF Early
  <1>5. TimerOK(ep')
    BY <1>1 DEF RInv, TimerInv
  <1>6. TimerInv'
    BY <1>2, <1>4, <1>5, TimerHeard
  <1>7. Opening' => Opening
    BY <1>1 DEF Opening
  <1> QED
    BY <1>1, <1>2, <1>6, <1>7, UnsaidKeeps

LEMMA NextKeepsRefs ==
  ASSUME Faultless, TypeInv, TypeInv', EventInv, RInv, Next
  PROVE  RInv'
  <1>1. ASSUME NEW t \in Threads, Modify(t) \/ Leaving(t)
        PROVE  RInv'
    BY <1>1, ModifyKeepsRefs, LeavingKeepsRefs
  <1>2. CASE Work
    BY <1>2, TakeCplKeepsRefs, TakeTimeoutKeepsRefs, HandlerKeepsRefs DEF Work
  <1>3. CASE Ulp \/ User
    BY <1>3, UlpKeepsRefs, UserKeepsRefs
  <1>4. CASE Adapter \/ Expire
    BY <1>4, AdapterKeepsRefs, ExpireKeepsRefs
  <1>5. CASE Finished
    BY <1>5, StutterKeepsRefs DEF Finished
  <1> QED
    BY <1>1, <1>2, <1>3, <1>4, <1>5 DEF Next

(* Inductive: IInv, of EndpointProofs, says whose side a handler is, who    *)
(* holds the mutex and what the consumer was told; RInv the rest.          *)
RefsInv == IInv /\ RInv

LEMMA RefsInvariance ==
  ASSUME Faultless
  PROVE  Spec => []RefsInv
  <1>1. Init => RefsInv
    BY InitInv, InitRefs DEF RefsInv
  <1>2. RefsInv /\ [Next]_vars => RefsInv'
    <2> SUFFICES ASSUME RefsInv, [Next]_vars
                 PROVE  RefsInv'
      OBVIOUS
    <2>1. TypeInv /\ EventInv /\ RInv
      BY DEF RefsInv, IInv
    <2>2. TypeInv' /\ EventInv'
      BY <2>1, NextKeeps, StutterKeeps
    <2>3. RInv'
      BY <2>1, <2>2, NextKeepsRefs, StutterKeepsRefs
    <2> QED
      BY <2>2, <2>3 DEF RefsInv, IInv
  <1> QED
    BY <1>1, <1>2, PTL DEF Spec

-----------------------------------------------------------------------------
(* What follows when the count is down to nothing. *)
LEMMA CountIsSound ==
  ASSUME TypeInv, RInv
  PROVE  /\ ep.kref >= 0
         /\ Freed => /\ ~ep.base /\ ~ep.timer /\ ~ep.hold /\ ep.tcbs = 0
                     /\ \A t \in Threads : thr[t].held = 0
  <1>1. /\ ep.kref \in Int /\ ep.tcbs \in Int /\ ep.intr \in Int
        /\ Bit(ep.base) \in 0..1 /\ Bit(ep.timer) \in 0..1 /\ Bit(ep.listed) \in 0..1
        /\ Bit(qp.ep) \in 0..1 /\ Bit(ep.ulp) \in 0..1 /\ Bit(ep.hold) \in 0..1
    BY DEF TypeInv, EpRecords, Bit
  <1>2. /\ thr["worker"].held \in Nat /\ thr["ulp"].held \in Nat /\ thr["user"].held \in Nat
    BY BalanceIs DEF Threads
  <1>3. ep.tcbs >= 0
    BY DEF RInv, TcbInv
  <1>4. ep.intr >= 0
    <2>1. Cardinality(Aborts1) \in Nat /\ Bit(AbortInHand) \in 0..1
      BY AbortsCounted DEF Bit
    <2>2. ep.intr >= Cardinality(Aborts1) + Bit(AbortInHand)
      BY DEF RInv, IntrInv
    <2> QED
      BY <1>1, <2>1, <2>2
  <1>5. RefsBalance
    BY DEF RInv
  <1>6. ep.kref >= 0
    BY <1>1, <1>2, <1>3, <1>4, <1>5 DEF RefsBalance, Held
  <1>7. ASSUME Freed
        PROVE  /\ Bit(ep.base) = 0 /\ Bit(ep.timer) = 0 /\ Bit(ep.hold) = 0 /\ ep.tcbs = 0
               /\ thr["worker"].held = 0 /\ thr["ulp"].held = 0 /\ thr["user"].held = 0
    <2>1. ep.kref = 0
      BY <1>1, <1>6, <1>7 DEF Freed
    <2>2. Bit(ep.base) + Bit(ep.timer) + Bit(ep.listed) + Bit(qp.ep) + Bit(ep.ulp)
            + (thr["worker"].held + thr["ulp"].held + thr["user"].held)
            + ep.tcbs + ep.intr + Bit(ep.hold) = 0
      BY <1>5, <2>1 DEF RefsBalance, Held
    <2>3. ep.tcbs \in Nat /\ ep.intr \in Nat
      BY <1>1, <1>3, <1>4
    <2> DEFINE b1 == Bit(ep.base)  b2 == Bit(ep.timer)  b3 == Bit(ep.listed)  b4 == Bit(qp.ep)
               b5 == Bit(ep.ulp)   b6 == Bit(ep.hold)
               h1 == thr["worker"].held  h2 == thr["ulp"].held  h3 == thr["user"].held
               n1 == ep.tcbs       n2 == ep.intr
    <2>4. /\ b1 \in Nat /\ b2 \in Nat /\ b3 \in Nat /\ b4 \in Nat /\ b5 \in Nat /\ b6 \in Nat
          /\ h1 \in Nat /\ h2 \in Nat /\ h3 \in Nat /\ n1 \in Nat /\ n2 \in Nat
          /\ b1 + b2 + b3 + b4 + b5 + (h1 + h2 + h3) + n1 + n2 + b6 = 0
      BY <1>1, <1>2, <2>2, <2>3
    <2> HIDE DEF b1, b2, b3, b4, b5, b6, h1, h2, h3, n1, n2
    <2>5. b1 = 0 /\ b2 = 0 /\ b6 = 0 /\ n1 = 0 /\ h1 = 0 /\ h2 = 0 /\ h3 = 0
      BY <2>4
    <2> QED
      BY <2>5 DEF b1, b2, b6, n1, h1, h2, h3
  <1>8. Freed => ~ep.base /\ ~ep.timer /\ ~ep.hold
    BY <1>7 DEF Bit
  <1> QED
    BY <1>6, <1>7, <1>8 DEF Threads

LEMMA NothingUsed ==
  ASSUME TypeInv, RInv, Freed, NEW t \in Threads
  PROVE  ~Uses(t)
  <1>1. /\ ~ep.base /\ ~ep.hold /\ ep.tcbs = 0 /\ thr[t].held = 0
    BY CountIsSound
  <1>2. ~(0 > 0) /\ ~(thr[t].held > 0)
    BY <1>1
  <1>3. RestAt(t)
    BY DEF RInv, RestInv
  <1>4. ~(thr[t].disc > 0)
    BY <1>2, <1>3 DEF RestAt
  <1>5. ~thr[t].rel
    <2>1. ~Worker.rel
      BY <1>1 DEF RInv, OwnInv
    <2> QED
      BY <1>3, <2>1, Zenon DEF RestAt, Worker
  <1>6. ~Bare(t)
    <2>1. ~Under
      BY <1>1 DEF RInv, UnderInv
    <2>2. ~(Worker.at = "handle" /\ Worker.cpl.op \in Untid)
      BY <2>1 DEF Under, FirstHandled, FirstOps
    <2>3. ep.hwtid # "own"
      BY <1>1 DEF RInv, OwnInv
    <2>4. ~(Worker.at = "handle" /\ Worker.cpl.op = "GET_TCB_RPL")
      BY <2>3 DEF RInv, OwnInv, Untid
    <2>5. ~In("worker", "tcb")
      BY <1>1 DEF RInv, TcbInv
    <2> QED
      BY <2>2, <2>4, <2>5 DEF Bare, Worker
  <1>7. thr[t].at \notin {"idle", "end"} => t = "user"
    BY <1>2, <1>3, <1>6 DEF RestAt
  <1> QED
    BY <1>2, <1>4, <1>5, <1>7 DEF Uses

LEMMA RefsInvSafe ==
  ASSUME RefsInv
  PROVE  /\ RefsBalance /\ NoUseAfterFree
         /\ "alloc" \notin Faults => ConsumerTold
  <1>1. TypeInv /\ RInv
    BY DEF RefsInv, IInv
  <1>2. NoUseAfterFree
    BY <1>1, CountIsSound, NothingUsed DEF NoUseAfterFree, UsedFreed
  <1>3. ASSUME "alloc" \notin Faults
        PROVE  ConsumerTold
    BY <1>1, <1>3, CountIsSound DEF RInv, GoneInv, ConsumerTold
  <1> QED
    BY <1>1, <1>2, <1>3 DEF RInv

(* Every reference of an endpoint has one holder, and is put once          *)
(* (c4iw_get_ep and c4iw_put_ep in cm.c and qp.c), in every interleaving   *)
(* of the worker, the ULP, the user, the timer and the adapter, unless a   *)
(* message to the adapter cannot be sent.                                  *)
THEOREM EndpointRefsBalance ==
  ASSUME "send" \notin Faults, "fatal" \notin Faults
  PROVE  Spec => []RefsBalance
  <1>1. RefsInv => RefsBalance
    BY RefsInvSafe
  <1>2. Spec => []RefsInv
    BY RefsInvariance DEF Faultless
  <1> QED
    BY <1>1, <1>2, PTL

(* Under the same condition nothing uses an endpoint after _c4iw_free_ep:  *)
(* no handler, disconnect or release runs on it, its timer is not pending, *)
(* and it is not put again.                                                *)
THEOREM EndpointNotUsedAfterFree ==
  ASSUME "send" \notin Faults, "fatal" \notin Faults
  PROVE  Spec => []NoUseAfterFree
  <1>1. RefsInv => NoUseAfterFree
    BY RefsInvSafe
  <1>2. Spec => []RefsInv
    BY RefsInvariance DEF Faultless
  <1> QED
    BY <1>1, <1>2, PTL

(* And it is freed only after its consumer was given the last event, if    *)
(* c4iw_reconnect also finds memory: else it passes connect_reply_upcall   *)
(* (cm.c:2355, a hazard of the README).                                    *)
THEOREM EndpointConsumerTold ==
  ASSUME "send" \notin Faults, "fatal" \notin Faults, "alloc" \notin Faults
  PROVE  Spec => []ConsumerTold
  <1>1. RefsInv => ConsumerTold
    BY RefsInvSafe
  <1>2. Spec => []RefsInv
    BY RefsInvariance DEF Faultless
  <1> QED
    BY <1>1, <1>2, PTL
=============================================================================
