------------------------------ MODULE Endpoint ------------------------------
(***************************************************************************)
(* One endpoint (struct c4iw_ep) of the iWARP connection manager, cm.c,    *)
(* with the part of its queue pair the two share (qp.c).                   *)
(*                                                                         *)
(* The adapter's messages (CPLs) and expired timers are handled by one     *)
(* worker, process_work, in the order they came.  Beside it run the ULP    *)
(* that accepts or rejects a connection request, the user that modifies    *)
(* and destroys the QP, the timer and the adapter's interrupts.  A handler *)
(* runs its switch on the state under ep->com.mutex; what it decided       *)
(* there, to disconnect or to release the endpoint, it does after the      *)
(* unlock, when others may have run.  A handler that moves the QP keeps    *)
(* ep->com.mutex, takes qhp->mutex and may wait for the firmware.          *)
(*                                                                         *)
(* The endpoint is a record and its helpers take a record to a record, so  *)
(* that a handler reads as the straight line of calls it is.               *)
(***************************************************************************)
EXTENDS Integers, Sequences

CONSTANTS Sides,    \* "active": c4iw_iw_connect made the endpoint,
                    \* "passive": pass_accept_req did
          HasSrq,   \* the QP uses a shared receive queue
          MpaRev,   \* the module parameter mpa_rev, 1 or 2
          Moves,    \* the states the user moves the QP to
          Faults,   \* what may fail: see FaultKinds
          MaxData   \* bound on the streaming messages of the peer

FaultKinds == {"arp",    \* the neighbour of an open or accept is not found
               "send",   \* a message for the adapter cannot be sent
               "alloc",  \* c4iw_reconnect finds no memory for its skbs
               "route",  \* c4iw_reconnect finds no atid, route or L2 entry
               "fw",     \* the firmware refuses an RI work request
               "fatal",  \* the firmware does not answer one in time
               "neg"}    \* negative advice, an ABORT_REQ to be ignored

ASSUME EndpointAssumption ==
    /\ Sides \subseteq {"active", "passive"} /\ HasSrq \in BOOLEAN /\ MpaRev \in {1, 2}
    /\ Moves \subseteq {"CLOSING", "TERMINATE", "ERROR"}
    /\ Faults \subseteq FaultKinds
    /\ MaxData \in Nat

VARIABLES ep,     \* the endpoint
          qp,     \* its QP; qp.ep: qhp->ep points to the endpoint
          mutex,  \* holder of ep->com.mutex, or "free"
          qmutex, \* holder of qhp->mutex, or "free"
          thr,    \* the threads
          rxq,    \* the CPLs queued for the worker
          hw,     \* the adapter's side of the connection
          fatal   \* T4_FATAL_ERROR

vars == <<ep, qp, mutex, qmutex, thr, rxq, hw, fatal>>

Threads == {"worker", "ulp", "user"}

Bit(b) == IF b THEN 1 ELSE 0

-----------------------------------------------------------------------------
(* The endpoint.  Fields after "ghosts" are not in the code: base, ulp,    *)
(* tcbs, intr and hold say who has a reference, told is the last event of  *)
(* cm_id, harm the calls that hit something else.                          *)

NewEp(side) ==
         [side |-> side, state |-> "CONNECTING", flags |-> {}, kref |-> 1,
          cm_id |-> side = "active", qp |-> side = "active", mpa_skb |-> FALSE,
          timer |-> FALSE, listed |-> FALSE,
          hwtid |-> IF side = "active" THEN "none" ELSE "own",
          parent |-> side = "passive",   \* it holds a reference of the listening endpoint
          retry_v1 |-> FALSE, tried_v1 |-> FALSE, retries |-> 0, pdu_out |-> 0,
          wr_done |-> 0, wr_ret |-> "ok",
          \* ghosts
          base |-> TRUE, ulp |-> FALSE, tcbs |-> 0, intr |-> 0, hold |-> FALSE,
          told |-> "none", harm |-> {}]

Get(e) == [e EXCEPT !.kref = @ + 1]
Put(e) == [e EXCEPT !.kref = @ - 1]
Freed  == ep.kref < 1

SetState(e, s)  == [e EXCEPT !.state = s]
SetFlag(e, f)   == [e EXCEPT !.flags = @ \cup {f}]
ClearFlag(e, f) == [e EXCEPT !.flags = @ \ {f}]

(* The pending timer has a reference of its own. *)
StartTimer(e) ==
    IF e.timer THEN e ELSE [Get(ClearFlag(e, "TIMEOUT")) EXCEPT !.timer = TRUE]

(* If the timer has expired, the reference is process_timeout's to drop. *)
Expired(e) == "TIMEOUT" \in e.flags
StopTimer_Puts(e) == Put(SetFlag([e EXCEPT !.timer = FALSE], "TIMEOUT")) \* mutant
StopTimer(e) ==
    LET s == [e EXCEPT !.timer = FALSE]
    IN  IF Expired(e) THEN s ELSE Put(SetFlag(s, "TIMEOUT"))

(* complete(): a wake-up is kept until somebody waits. *)
WakeUp(e, ret) == [e EXCEPT !.wr_done = @ + 1, !.wr_ret = ret]

(* The upcalls.  The last one of a connection drops the cm_id. *)
Upcall(e, event)     == [e EXCEPT !.told = event]
LastUpcall_Keeps(e, event) == Upcall(e, event)          \* mutant
LastUpcall(e, event) == [Upcall(e, event) EXCEPT !.cm_id = FALSE]

CloseUpcall_Again(e) == LastUpcall(e, "CLOSE")          \* mutant
CloseUpcall(e)     == IF e.cm_id THEN LastUpcall(e, "CLOSE") ELSE e
PeerCloseUpcall(e) == IF e.cm_id THEN Upcall(e, "DISCONNECT") ELSE e
EstablishedUpcall(e) == IF e.cm_id THEN Upcall(e, "ESTABLISHED") ELSE e

(* connect_reply_upcall uses cm_id without a test. *)
ConnectReply(e, ok) ==
    IF ~e.cm_id THEN [e EXCEPT !.harm = @ \cup {"null_cm_id"}]
    ELSE IF ok THEN Upcall(e, "CONNECTED") ELSE LastUpcall(e, "REFUSED")

(* remove_ep_tid erases whatever endpoint has the identifier; after a      *)
(* reconnect hwtid is still that of the first connection, given back       *)
(* already and perhaps in use again.                                       *)
ReleaseResources(e) ==
    Put(SetFlag([e EXCEPT
        !.base  = FALSE,
        !.harm  = IF e.hwtid = "stale" THEN @ \cup {"foreign_tid"} ELSE @,
        !.hwtid = IF @ = "own" THEN "erased" ELSE @], "RELEASE_RESOURCES"))

PutParent(e) ==
    [e EXCEPT !.parent = FALSE,
              !.harm = IF e.parent THEN @ ELSE @ \cup {"parent_put_twice"}]

Active == ep.side = "active"

(* get_ep_from_tid *)
Found == ep.hwtid = "own"

-----------------------------------------------------------------------------
(* The adapter.  A reply it owes is counted or flagged here; what it sends *)
(* goes to rxq.                                                            *)

NewConn == [conn |-> "opening", fin |-> FALSE, close_req |-> FALSE,
            close_rpl |-> FALSE, abort_req |-> FALSE, ack |-> FALSE,
            tcb |-> 0, fw |-> 0, data |-> 0, rdma |-> FALSE, term |-> FALSE,
            neg |-> FALSE]

ReadTcb_NoGet(e) == IF fatal THEN e ELSE [e EXCEPT !.tcbs = @ + 1] \* mutant
ReadTcb(e)     == IF fatal THEN e ELSE [Get(e) EXCEPT !.tcbs = @ + 1]
AskTcb(h)      == [h EXCEPT !.tcb = @ + 1]
AskAbort(h)    == [h EXCEPT !.abort_req = TRUE]
AskClose(h)    == [h EXCEPT !.close_req = TRUE]
SentMpa(h)     == [h EXCEPT !.ack = TRUE]
AskRi(h)       == [h EXCEPT !.fw = @ + 1]

Cpl(op, arg) == [op |-> op, arg |-> arg]
NoCpl == Cpl("none", "none")

(* What a thread is doing: at names the step it is at; for a call of       *)
(* c4iw_modify_iw_rc_qp, to is the state wanted, then what follows, ret    *)
(* what it returned.  disc (0 no, 1 close, 2 abort) and rel are what is    *)
(* left to do after the unlock, held the references it will drop then.     *)
Idle == [at |-> "idle", cpl |-> NoCpl, to |-> "IDLE", then |-> "none",
         internal |-> TRUE, ret |-> "ok", disc |-> 0, rel |-> FALSE, held |-> 0]

Init == /\ \E side \in Sides : ep = NewEp(side)
        /\ qp = [state |-> "IDLE", ep |-> FALSE, user |-> "open"]
        /\ mutex = "free" /\ qmutex = "free"
        /\ thr = [t \in Threads |-> Idle]
        /\ rxq = <<>>
        /\ hw = NewConn
        /\ fatal = FALSE

(* What a thread does with a freed endpoint is undefined: the threads stop. *)
Uses(t) == \/ thr[t].held > 0
           \/ thr[t].at = "end" /\ (thr[t].disc > 0 \/ thr[t].rel)
           \/ thr[t].at \notin {"idle", "end"} /\ t # "user"
UsedFreed == Freed /\ (ep.timer \/ \E t \in Threads : Uses(t))

At(t, s) == thr[t].at = s /\ ~UsedFreed

(* A thread puts the references it holds when nothing else is left to do;  *)
(* the put is taken with the step before it, which only delays the others. *)
Drop(e, n) == [e EXCEPT !.kref = @ - n]

Proceed(t, e, disc, rel, held) ==
    IF disc = 0 /\ ~rel
    THEN /\ ep' = Drop(e, held)
         /\ thr' = [thr EXCEPT ![t] = Idle]
    ELSE /\ ep' = e
         /\ thr' = [thr EXCEPT ![t] = [Idle EXCEPT !.at = "end", !.disc = disc,
                                       !.rel = rel, !.held = held]]

(* The unlock of a handler, and what it does afterwards. *)
Leave(t, e, disc, rel) ==
    /\ Proceed(t, e, disc, rel, thr[t].held)
    /\ mutex' = IF mutex = t THEN "free" ELSE mutex

CallModify(t, e, to, then) ==
    /\ ep' = e
    /\ thr' = [thr EXCEPT ![t].at = "modify", ![t].to = to, ![t].then = then,
                          ![t].internal = TRUE]

(* A send fails on a disabled device, and otherwise if "send" is a fault. *)
SendWorks == ~fatal
SendFails == fatal \/ "send" \in Faults

-----------------------------------------------------------------------------
(* c4iw_modify_iw_rc_qp, under qhp->mutex.  internal: called by cm.c       *)
(* itself; any other caller is made to disconnect the endpoint when its    *)
(* move ends the connection.                                               *)

Modifies(t, from, to) == /\ At(t, "modify") /\ qmutex = "free"
                         /\ qp.state \in from /\ thr[t].to \in to

Returns(t, ret) == thr' = [thr EXCEPT ![t].at = "after", ![t].ret = ret]

ModifyNothing(t) ==
    /\ At(t, "modify") /\ qmutex = "free"
    /\ \/ thr[t].to = qp.state /\ Returns(t, "ok")
       \/ /\ thr[t].to # qp.state
          /\ \/ qp.state = "IDLE" /\ thr[t].to \notin {"RTS", "ERROR"}
             \/ qp.state = "RTS" /\ thr[t].to = "IDLE"
             \/ qp.state = "CLOSING" /\ ~thr[t].internal /\ thr[t].to # "ERROR"
             \/ qp.state = "ERROR"         \* -> IDLE: reset_iw_qp finds WRs
             \/ qp.state = "TERMINATE" /\ ~thr[t].internal
          /\ Returns(t, "err")
    /\ UNCHANGED <<ep, qp, mutex, qmutex, rxq, hw, fatal>>

(* IDLE -> RTS: the QP takes a reference and rdma_init waits. *)
ModifyInit(t) ==
    /\ Modifies(t, {"IDLE"}, {"RTS"}) /\ ~fatal
    /\ qp' = [qp EXCEPT !.state = "RTS", !.ep = TRUE]
    /\ ep' = Get(ep)
    /\ qmutex' = t
    /\ thr' = [thr EXCEPT ![t].at = "fw"]
    /\ hw' = AskRi(hw)
    /\ UNCHANGED <<mutex, rxq, fatal>>

(* RTS -> CLOSING, and -> TERMINATE by cm.c: rdma_fini waits. *)
Fini(t) == \/ Modifies(t, {"RTS"}, {"CLOSING"})
           \/ Modifies(t, {"RTS"}, {"TERMINATE"}) /\ thr[t].internal

ModifyFini(t) ==
    /\ Fini(t) /\ ~fatal
    /\ qp' = [qp EXCEPT !.state = thr[t].to]
    /\ qmutex' = t
    /\ hw' = AskRi(hw)
    /\ IF thr[t].internal
       THEN thr' = [thr EXCEPT ![t].at = "fw"] /\ UNCHANGED ep
       ELSE /\ thr' = [thr EXCEPT ![t].at = "fw", ![t].disc = 1, ![t].held = @ + 1]
            /\ ep' = Get(ep)
    /\ UNCHANGED <<mutex, rxq, fatal>>

ModifyTerminate(t) ==
    /\ Modifies(t, {"RTS"}, {"TERMINATE"}) /\ ~thr[t].internal
    /\ qp' = [qp EXCEPT !.state = "TERMINATE"]
    /\ ep' = Get(ep)
    /\ thr' = [thr EXCEPT ![t].at = "after", ![t].ret = "ok",
                          ![t].disc = 1, ![t].held = @ + 1]
    /\ UNCHANGED <<mutex, qmutex, rxq, hw, fatal>>

ModifyIdle(t) ==
    /\ \/ /\ Modifies(t, {"CLOSING"}, {"IDLE"}) /\ thr[t].internal
          /\ qp' = [qp EXCEPT !.state = "IDLE", !.ep = FALSE]
          /\ ep' = Put(ep)
       \/ /\ Modifies(t, {"ERROR"}, {"IDLE"})
          /\ qp' = [qp EXCEPT !.state = "IDLE"]
          /\ UNCHANGED ep
    /\ Returns(t, "ok")
    /\ UNCHANGED <<mutex, qmutex, rxq, hw, fatal>>

(* Label err: the QP lets go of the endpoint.  The reference it had is     *)
(* dropped after the unlock, like the one taken for the disconnect.        *)
Disassociate_KeepsRef(t, e, ret) == \* mutant
    /\ qp' = [qp EXCEPT !.state = "ERROR", !.ep = FALSE]
    /\ qmutex' = "free"
    /\ ep' = e
    /\ thr' = [thr EXCEPT ![t].at = "after", ![t].ret = ret,
                          ![t].disc = IF @ > 0 THEN 2 ELSE 0]

Disassociate(t, e, ret) ==
    /\ qp' = [qp EXCEPT !.state = "ERROR", !.ep = FALSE]
    /\ qmutex' = "free"
    /\ ep' = e
    /\ thr' = [thr EXCEPT ![t].at = "after", ![t].ret = ret, ![t].held = @ + 1,
                          ![t].disc = IF @ > 0 THEN 2 ELSE 0]

DisassociateAbort(t) ==
    /\ qp' = [qp EXCEPT !.state = "ERROR", !.ep = FALSE]
    /\ qmutex' = "free"
    /\ ep' = Get(ep)
    /\ thr' = [thr EXCEPT ![t].at = "after", ![t].ret = "ok", ![t].held = @ + 2,
                          ![t].disc = 2]

ModifyError(t) ==
    /\ \/ /\ Modifies(t, {"RTS"}, {"ERROR"})
          /\ IF thr[t].internal THEN Disassociate(t, ep, "ok")
                                ELSE DisassociateAbort(t)
       \/ Modifies(t, {"CLOSING"}, {"ERROR"}) /\ Disassociate(t, ep, "ok")
       \/ /\ Modifies(t, {"CLOSING"}, {"TERMINATE"}) /\ thr[t].internal
          /\ Disassociate(t, ep, "err")
       \/ /\ Modifies(t, {"TERMINATE"}, {"IDLE", "CLOSING", "ERROR"})
          /\ thr[t].internal
          /\ Disassociate(t, ep, "ok")
       \/ /\ Modifies(t, {"IDLE"}, {"ERROR"})
          /\ qp' = [qp EXCEPT !.state = "ERROR"]
          /\ Returns(t, "ok")
          /\ UNCHANGED <<ep, qmutex>>
    /\ UNCHANGED <<mutex, rxq, hw, fatal>>

(* c4iw_wait_for_reply, at the end of rdma_init and rdma_fini. *)
FwWoken(t) ==
    /\ At(t, "fw") /\ ep.wr_done > 0
    /\ LET e == [ep EXCEPT !.wr_done = @ - 1] IN
       IF e.wr_ret = "ok"
       THEN ep' = e /\ Returns(t, "ok") /\ qmutex' = "free" /\ UNCHANGED qp
       ELSE Disassociate(t, e, e.wr_ret)
    /\ UNCHANGED <<mutex, rxq, hw, fatal>>

(* Nothing heard in time: the device is disabled. *)
FwTimeout(t) ==
    /\ At(t, "fw") /\ "fatal" \in Faults
    /\ fatal' = TRUE
    /\ Disassociate(t, ep, "err")
    /\ UNCHANGED <<mutex, rxq, hw>>

(* rdma_init and rdma_fini cannot send, and wait for nothing. *)
ModifyUnsent(t) ==
    /\ SendFails
    /\ \/ Modifies(t, {"IDLE"}, {"RTS"}) /\ Disassociate(t, Get(ep), "err")
       \/ Fini(t) /\ thr[t].internal /\ Disassociate(t, ep, "err")
       \/ Fini(t) /\ ~thr[t].internal /\ DisassociateAbort(t)
    /\ UNCHANGED <<mutex, rxq, hw, fatal>>

-----------------------------------------------------------------------------
(* What a thread does after its unlock: disconnect, release, drop its      *)
(* references, in this order.                                              *)

ViaTcb == HasSrq /\ ep.qp    \* send_abort reads the TCB first
SendAbort(e) == IF ViaTcb THEN ReadTcb(SetFlag(e, "ABORT_REQ_IN_PROGRESS")) ELSE e

(* The close timer uses the timer that may still wait for the ack of the   *)
(* MPA reply.                                                              *)
RestartTimer(e) ==
    StartTimer(IF e.mpa_skb /\ "STOP_MPA_TIMER" \in e.flags
               THEN StopTimer(ClearFlag(e, "STOP_MPA_TIMER")) ELSE e)

Connecting == {"CONNECTING", "MPA_REQ_WAIT", "MPA_REQ_SENT", "MPA_REQ_RCVD",
               "MPA_REP_SENT", "FPDU_MODE"}

Disconnecting(t) == At(t, "end") /\ thr[t].disc > 0 /\ mutex = "free"

CloseUnsent == ep.state = "CLOSING" /\ "CLOSE_SENT" \notin ep.flags
MayClose    == ep.state \in Connecting \/ CloseUnsent

(* c4iw_ep_disconnect, abrupt *)
DisconnectAbort(t) ==
    /\ Disconnecting(t) /\ ~fatal /\ thr[t].disc = 2 /\ MayClose
    /\ LET e == IF CloseUnsent THEN StopTimer(ep) ELSE ep
       IN  Leave(t, SendAbort(SetFlag(SetState(e, "ABORTING"), "CLOSE_SENT")), 0, FALSE)
    /\ hw' = IF ViaTcb THEN AskTcb(hw) ELSE AskAbort(hw)
    /\ UNCHANGED <<qp, qmutex, rxq, fatal>>

(* Not abrupt: the state and the timer, then send_halfclose. *)
Closing(e) ==
    SetFlag(IF CloseUnsent THEN SetState(e, "MORIBUND")
            ELSE RestartTimer(SetState(e, "CLOSING")), "CLOSE_SENT")

DisconnectClose(t) ==
    /\ Disconnecting(t) /\ ~fatal /\ thr[t].disc = 1 /\ MayClose
    /\ Leave(t, Closing(ep), 0, FALSE)
    /\ hw' = AskClose(hw)
    /\ UNCHANGED <<qp, qmutex, rxq, fatal>>

(* send_halfclose fails: the endpoint is released, its state unchanged. *)
DisconnectFails(t) ==
    /\ Disconnecting(t) /\ ~fatal /\ thr[t].disc = 1 /\ MayClose
    /\ SendFails
    /\ LET e == CloseUpcall(StopTimer(Closing(ep)))
       IN  IF ep.qp
           THEN /\ ep' = Get(e) /\ mutex' = t
                /\ thr' = [thr EXCEPT ![t].at = "modify", ![t].to = "ERROR",
                          ![t].then = "disc_failed", ![t].internal = TRUE,
                          ![t].disc = 0, ![t].held = @ + 1]
           ELSE Leave(t, e, 0, TRUE)
    /\ UNCHANGED <<qp, qmutex, rxq, hw, fatal>>

DisconnectFailed(t) ==
    /\ At(t, "after") /\ thr[t].then = "disc_failed"
    /\ Proceed(t, Put(ep), 0, TRUE, thr[t].held - 1)
    /\ mutex' = "free"
    /\ UNCHANGED <<qp, qmutex, rxq, hw, fatal>>

DisconnectIgnored(t) ==
    /\ Disconnecting(t) /\ ~fatal /\ ~MayClose
    /\ Leave(t, ep, 0, FALSE)
    /\ UNCHANGED <<qp, qmutex, rxq, hw, fatal>>

DisconnectFatal(t) ==
    /\ Disconnecting(t) /\ fatal
    /\ Leave(t, SetState(CloseUpcall(ep), "DEAD"), 0, TRUE)
    /\ UNCHANGED <<qp, qmutex, rxq, hw, fatal>>

Release(t) ==
    /\ At(t, "end") /\ thr[t].disc = 0 /\ thr[t].rel
    /\ Proceed(t, ReleaseResources(ep), 0, FALSE, thr[t].held)
    /\ UNCHANGED <<qp, mutex, qmutex, rxq, hw, fatal>>

-----------------------------------------------------------------------------
(* process_work: expired timers first, then the next CPL.  A CPL that      *)
(* names a tid takes a reference for its handler, or is dropped;           *)
(* read_tcb_rpl gives it back at once.                                     *)

Worker == thr["worker"]
Handling(op) == At("worker", "handle") /\ Worker.cpl.op = op
End(e, disc, rel) == Leave("worker", e, disc, rel)   \* of a handler

Untid == {"ACT_OPEN_RPL", "ACT_ESTABLISH", "PUT_EP_SAFE", "PASS_PUT_EP_SAFE"}

(* peer_abort wakes the waiting thread before it takes the mutex. *)
Wakes(c) == c.op = "ABORT_REQ" /\ c.arg # "neg" /\ ep.state # "MPA_REQ_SENT"

TakeCpl ==
    /\ At("worker", "idle") /\ ~ep.listed /\ rxq # <<>>
    /\ rxq' = Tail(rxq)
    /\ LET c == Head(rxq)
           e == IF Wakes(c) THEN WakeUp(ep, "reset") ELSE ep
       IN  \/ /\ c.op \in Untid
              /\ thr' = [thr EXCEPT !["worker"].at = "handle", !["worker"].cpl = c]
              /\ UNCHANGED ep
           \/ /\ c.op \notin Untid /\ Found
              /\ ep' = IF c.op = "GET_TCB_RPL" THEN e ELSE Get(e)
              /\ thr' = [thr EXCEPT !["worker"].at = "handle", !["worker"].cpl = c,
                          !["worker"].held = Bit(c.op # "GET_TCB_RPL")]
           \/ /\ c.op \notin Untid /\ ~Found
              /\ UNCHANGED <<ep, thr>>
    /\ UNCHANGED <<qp, mutex, qmutex, hw, fatal>>

(* process_timedout_eps *)
TakeTimeout ==
    /\ At("worker", "idle") /\ ep.listed
    /\ ep' = [ep EXCEPT !.listed = FALSE]
    /\ thr' = [thr EXCEPT !["worker"].at = "timeout", !["worker"].held = 1]
    /\ UNCHANGED <<qp, mutex, qmutex, rxq, hw, fatal>>

-----------------------------------------------------------------------------
(* Opening a connection. *)

(* c4iw_reconnect, after the identifiers of the first try are gone *)
Reconnect(e, held) ==
    LET f == [e EXCEPT !.wr_done = 0, !.wr_ret = "ok",
                       !.hwtid = IF @ = "none" THEN "none" ELSE "stale"]
        Return(g) == Proceed("worker", g, 0, FALSE, held)
        Quit(g)   == Return(Put([g EXCEPT !.base = FALSE])) /\ UNCHANGED hw
    IN  \/ SendWorks /\ Return(SetState(f, "CONNECTING")) /\ hw' = NewConn
        \/ "alloc" \in Faults /\ Quit(f)
        \/ (SendFails \/ "route" \in Faults) /\ Quit(ConnectReply(f, FALSE))

ActOpenRetries == 2   \* ACT_OPEN_RETRY_COUNT

ActOpenRpl_Releases == \* mutant
    /\ Handling("ACT_OPEN_RPL") /\ mutex = "free"
    /\ IF Worker.cpl.arg = "exist" /\ ep.retries < ActOpenRetries
       THEN Reconnect([ep EXCEPT !.retries = @ + 1], 0)
       ELSE /\ Proceed("worker", SetState(ConnectReply(ep, FALSE), "DEAD"), 0, TRUE, 0)
            /\ UNCHANGED hw
    /\ UNCHANGED <<qp, mutex, qmutex, rxq, fatal>>

ActOpenRpl_OnceMore == \* mutant
    /\ Handling("ACT_OPEN_RPL") /\ mutex = "free"
    /\ IF Worker.cpl.arg = "exist" /\ ep.retries <= ActOpenRetries
       THEN Reconnect([ep EXCEPT !.retries = @ + 1], 0)
       ELSE /\ Proceed("worker", Put([SetState(ConnectReply(ep, FALSE), "DEAD")
                                        EXCEPT !.base = FALSE]), 0, FALSE, 0)
            /\ UNCHANGED hw
    /\ UNCHANGED <<qp, mutex, qmutex, rxq, fatal>>

ActOpenRpl ==
    /\ Handling("ACT_OPEN_RPL") /\ mutex = "free"
    /\ IF Worker.cpl.arg = "exist" /\ ep.retries < ActOpenRetries
       THEN Reconnect([ep EXCEPT !.retries = @ + 1], 0)
       ELSE /\ Proceed("worker", Put([SetState(ConnectReply(ep, FALSE), "DEAD")
                                        EXCEPT !.base = FALSE]), 0, FALSE, 0)
            /\ UNCHANGED hw
    /\ UNCHANGED <<qp, mutex, qmutex, rxq, fatal>>

(* send_mpa_req: the timer and the state follow a successful send only. *)
SendMpaReq_Untimed(e) == \* mutant
    SetState([e EXCEPT !.mpa_skb = TRUE, !.tried_v1 = @ \/ e.retry_v1 \/ MpaRev = 1,
                       !.retry_v1 = FALSE], "MPA_REQ_SENT")

SendMpaReq(e) ==
    SetState(StartTimer([e EXCEPT !.mpa_skb = TRUE,
                                  !.tried_v1 = @ \/ e.retry_v1 \/ MpaRev = 1,
                                  !.retry_v1 = FALSE]), "MPA_REQ_SENT")

ActEstablish ==
    /\ Handling("ACT_ESTABLISH") /\ mutex = "free"
    /\ LET e == [ep EXCEPT !.hwtid = "own"]
       IN  \/ SendWorks /\ End(SendMpaReq(e), 0, FALSE) /\ hw' = SentMpa(hw)
           \/ /\ SendFails
              /\ End(ConnectReply(e, FALSE), 1, FALSE)
              /\ UNCHANGED hw
    /\ UNCHANGED <<qp, qmutex, rxq, fatal>>

PassEstablish ==
    /\ Handling("PASS_ESTABLISH") /\ mutex = "free"
    /\ LET e == StartTimer(SetState(ep, "MPA_REQ_WAIT"))
       IN  \/ SendWorks /\ End(e, 0, FALSE)
           \/ SendFails /\ End(e, 2, FALSE)
    /\ UNCHANGED <<qp, qmutex, rxq, hw, fatal>>

(* _put_ep_safe, _put_pass_ep_safe: what is left of an ARP failure *)
PutEpSafe_Same == \* mutant
    /\ Handling("PUT_EP_SAFE") \/ Handling("PASS_PUT_EP_SAFE")
    /\ End(PutParent(ep), 0, TRUE)
    /\ UNCHANGED <<qp, qmutex, rxq, hw, fatal>>

PutEpSafe ==
    /\ \/ Handling("PUT_EP_SAFE") /\ End(ep, 0, TRUE)
       \/ Handling("PASS_PUT_EP_SAFE") /\ End(PutParent(ep), 0, TRUE)
    /\ UNCHANGED <<qp, qmutex, rxq, hw, fatal>>

-----------------------------------------------------------------------------
(* rx_data: the peer's MPA message, "ok" or not, or data after it. *)

Took == Handling("RX_DATA") /\ mutex = "free"
Arg  == Worker.cpl.arg

(* process_mpa_reply *)
MpaReply ==
    /\ Took /\ ep.state = "MPA_REQ_SENT"
    /\ \/ /\ Arg \in {"bad", "reject"}
          /\ End(ConnectReply(StopTimer(ep), FALSE), 2, FALSE)
       \/ /\ Arg \in {"ok", "mismatch"} /\ Expired(ep)
          /\ End(StopTimer(ep), 0, FALSE)
       \/ /\ Arg \in {"ok", "mismatch"} /\ ~Expired(ep)
          /\ CallModify("worker", SetState(StopTimer(ep), "FPDU_MODE"), "RTS", "mpa_reply")
          /\ mutex' = "worker"
    /\ UNCHANGED <<qp, qmutex, rxq, hw, fatal>>

After(then) == At("worker", "after") /\ Worker.then = then

(* The peer asks for another kind of RTR message: a TERM is sent. *)
MpaReplied ==
    /\ After("mpa_reply")
    /\ \/ Worker.ret # "ok" /\ End(ConnectReply(ep, FALSE), 2, FALSE)
       \/ Worker.ret = "ok" /\ Arg = "ok" /\ End(ConnectReply(ep, TRUE), 0, FALSE)
       \/ /\ Worker.ret = "ok" /\ Arg = "mismatch"
          /\ CallModify("worker", ep, "TERMINATE", "mismatch") /\ UNCHANGED mutex
    /\ UNCHANGED <<qp, qmutex, rxq, hw, fatal>>

MpaMismatched ==
    /\ After("mismatch")
    /\ End(ConnectReply(ep, FALSE), 1, FALSE)
    /\ UNCHANGED <<qp, qmutex, rxq, hw, fatal>>

(* process_mpa_request: the ULP gets a reference unless it refuses the     *)
(* request, or the listening endpoint is gone.                             *)
MpaRequest ==
    /\ Took /\ ep.state = "MPA_REQ_WAIT"
    /\ \/ Arg # "ok" /\ End(StopTimer(ep), 2, FALSE)
       \/ /\ Arg = "ok"
          /\ LET e == SetState(ep, "MPA_REQ_RCVD")
             IN  \/ End(PutParent([Get(e) EXCEPT !.ulp = TRUE]), 0, FALSE)
                 \/ End(PutParent(e), 2, FALSE)
                 \/ End(e, 2, FALSE)
    /\ UNCHANGED <<qp, qmutex, rxq, hw, fatal>>

StreamingData ==
    /\ Took
    /\ \/ /\ ep.state = "FPDU_MODE"
          /\ CallModify("worker", ep, "TERMINATE", "rx_data") /\ mutex' = "worker"
       \/ /\ ep.state \notin {"FPDU_MODE", "MPA_REQ_SENT", "MPA_REQ_WAIT"}
          /\ End(ep, 0, FALSE)
    /\ UNCHANGED <<qp, qmutex, rxq, hw, fatal>>

StreamingDone ==
    /\ After("rx_data")
    /\ End(ep, 1, FALSE)
    /\ UNCHANGED <<qp, qmutex, rxq, hw, fatal>>

(* The adapter acknowledges the MPA message. *)
Fw4Ack ==
    /\ Handling("FW4_ACK") /\ (ep.mpa_skb => mutex = "free")
    /\ LET e == [ep EXCEPT !.mpa_skb = FALSE]
       IN  End(IF ep.mpa_skb /\ "STOP_MPA_TIMER" \in ep.flags
               THEN StopTimer(e) ELSE e, 0, FALSE)
    /\ UNCHANGED <<qp, qmutex, rxq, hw, fatal>>

-----------------------------------------------------------------------------
(* Closing a connection. *)

(* Both ends have closed: the QP goes back to IDLE, the ULP is told. *)
BothClosed ==
    IF ep.cm_id /\ ep.qp
    THEN CallModify("worker", StopTimer(ep), "IDLE", "closed") /\ mutex' = "worker"
    ELSE End(SetState(CloseUpcall(StopTimer(ep)), "DEAD"), 0, TRUE)

PeerClose ==
    /\ Handling("PEER_CLOSE") /\ mutex = "free"
    /\ LET e == SetState(ep, "CLOSING") IN
       \/ ep.state = "MPA_REQ_WAIT" /\ End(e, 1, FALSE)
       \/ ep.state = "MPA_REQ_SENT" /\ End(ConnectReply(e, FALSE), 1, FALSE)
       \/ ep.state \in {"MPA_REQ_RCVD", "MPA_REP_SENT"} /\ End(WakeUp(e, "reset"), 1, FALSE)
       \/ /\ ep.state = "FPDU_MODE"
          /\ CallModify("worker", StartTimer(e), "CLOSING", "peer_close")
          /\ mutex' = "worker"
       \/ ep.state = "CLOSING" /\ End(SetState(ep, "MORIBUND"), 0, FALSE)
       \/ ep.state = "MORIBUND" /\ BothClosed
       \/ ep.state \in {"ABORTING", "DEAD"} /\ End(ep, 0, FALSE)
    /\ UNCHANGED <<qp, qmutex, rxq, hw, fatal>>

PeerClosed ==
    /\ After("peer_close")
    /\ End(IF Worker.ret = "reset" THEN ep ELSE PeerCloseUpcall(ep), 1, FALSE)
    /\ UNCHANGED <<qp, qmutex, rxq, hw, fatal>>

CloseConRpl ==
    /\ Handling("CLOSE_CON_RPL") /\ mutex = "free"
    /\ \/ ep.state = "CLOSING" /\ End(SetState(ep, "MORIBUND"), 0, FALSE)
       \/ ep.state = "MORIBUND" /\ BothClosed
       \/ ep.state \notin {"CLOSING", "MORIBUND"} /\ End(ep, 0, FALSE)
    /\ UNCHANGED <<qp, qmutex, rxq, hw, fatal>>

(* peer_close and close_con_rpl, after the QP's move *)
Closed ==
    /\ After("closed")
    /\ End(SetState(CloseUpcall(ep), "DEAD"), 0, TRUE)
    /\ UNCHANGED <<qp, qmutex, rxq, hw, fatal>>

AbortRpl_Silent == \* mutant
    /\ Handling("ABORT_RPL") /\ mutex = "free"
    /\ \/ /\ ep.state = "ABORTING"
          /\ End(SetState(WakeUp(ep, "reset"), "DEAD"), 0, TRUE)
       \/ ep.state # "ABORTING" /\ End(ep, 0, FALSE)
    /\ UNCHANGED <<qp, qmutex, rxq, hw, fatal>>

AbortRpl ==
    /\ Handling("ABORT_RPL") /\ mutex = "free"
    /\ \/ /\ ep.state = "ABORTING"
          /\ End(CloseUpcall(SetState(WakeUp(ep, "reset"), "DEAD")), 0, TRUE)
       \/ ep.state # "ABORTING" /\ End(ep, 0, FALSE)
    /\ UNCHANGED <<qp, qmutex, rxq, hw, fatal>>

(* terminate; without the mutex *)
Terminate ==
    /\ Handling("RDMA_TERMINATE")
    /\ IF ep.qp THEN CallModify("worker", ep, "TERMINATE", "terminate") /\ UNCHANGED mutex
       ELSE End(ep, 2, FALSE)
    /\ UNCHANGED <<qp, qmutex, rxq, hw, fatal>>

Terminated ==
    /\ After("terminate")
    /\ End(ep, 2, FALSE)
    /\ UNCHANGED <<qp, qmutex, rxq, hw, fatal>>

-----------------------------------------------------------------------------
(* peer_abort.  The interrupt took a reference of its own. *)

TookAbort == Handling("ABORT_REQ") /\ mutex = "free"

(* The last part: DEAD, then release or try again with MPA revision 1. *)
Aborted(e) ==
    LET f == SetState([e EXCEPT !.intr = @ - 1], "DEAD")
    IN  /\ mutex' = "free"
        /\ IF e.retry_v1
           THEN Reconnect(f, Worker.held + 1)
           ELSE Proceed("worker", f, 0, TRUE, Worker.held + 1) /\ UNCHANGED hw

(* A shared receive queue: the TCB says which receive the connection had   *)
(* cached, unless the message did; till then the endpoint is held.         *)
PeerAbortRdma ==
    /\ ep.state \in {"FPDU_MODE", "CLOSING", "MORIBUND"}
    /\ LET e == IF ep.state = "FPDU_MODE" THEN ep ELSE StopTimer(ep) IN
       \/ /\ ViaTcb
          /\ LET f == SetFlag(SetState(Get(e), "ABORTING"), "PEER_ABORT_IN_PROGRESS")
             IN  Proceed("worker", [ReadTcb(f) EXCEPT !.hold = TRUE, !.intr = @ - 1],
                         0, FALSE, Worker.held + 1)
          /\ hw' = AskTcb(hw)
          /\ UNCHANGED mutex
       \/ /\ ep.cm_id /\ ep.qp
          /\ CallModify("worker", e, "ERROR", "peer_abort")
          /\ mutex' = "worker"
          /\ UNCHANGED hw
       \/ /\ ~(ep.cm_id /\ ep.qp)
          /\ Aborted(CloseUpcall(e))

FinishPeerAbort(e) ==
    /\ Proceed("worker", [CloseUpcall(e) EXCEPT !.hold = FALSE], 0, TRUE, Worker.held + 1)
    /\ UNCHANGED mutex

(* Only the references are dropped. *)
AbortUnheeded(e) ==
    /\ Proceed("worker", [e EXCEPT !.intr = @ - 1], 0, FALSE, Worker.held + 1)
    /\ UNCHANGED <<mutex, hw>>

PeerAbort ==
    /\ Handling("ABORT_REQ")
    /\ IF Arg = "neg" THEN AbortUnheeded(ep) ELSE
       /\ mutex = "free"
       /\ \/ ep.state \in {"DEAD", "ABORTING"} /\ AbortUnheeded(ep)
          \/ ep.state = "CONNECTING" /\ Aborted(PutParent(ep))
          \/ ep.state = "MPA_REQ_WAIT" /\ Aborted(StopTimer(ep))
          \/ /\ ep.state = "MPA_REQ_SENT"
             /\ Aborted(IF Arg # "reset" \/ MpaRev = 1 \/ ep.tried_v1
                        THEN ConnectReply(StopTimer(ep), FALSE)
                        ELSE [StopTimer(ep) EXCEPT !.retry_v1 = TRUE])
          \/ ep.state \in {"MPA_REQ_RCVD", "MPA_REP_SENT"} /\ Aborted(ep)
          \/ PeerAbortRdma
    /\ UNCHANGED <<qp, qmutex, rxq, fatal>>

PeerAborted ==
    /\ After("peer_abort")
    /\ Aborted(CloseUpcall(ep))
    /\ UNCHANGED <<qp, qmutex, rxq, fatal>>

(* read_tcb_rpl, without the mutex: both references go first. *)
ReadTcbRpl ==
    /\ Handling("GET_TCB_RPL")
    /\ LET e == Put([ep EXCEPT !.tcbs = @ - 1]) IN
       \/ /\ Arg = "out" /\ ep.pdu_out = 0
          /\ End([ReadTcb(e) EXCEPT !.pdu_out = 1], 0, FALSE)
          /\ hw' = AskTcb(hw)
       \/ /\ Arg = "out" => ep.pdu_out > 0
          /\ "PEER_ABORT_IN_PROGRESS" \in ep.flags
          /\ IF ep.cm_id /\ ep.qp
             THEN CallModify("worker", e, "ERROR", "tcb") /\ UNCHANGED mutex
             ELSE FinishPeerAbort(e)
          /\ UNCHANGED hw
       \/ /\ Arg = "out" => ep.pdu_out > 0
          /\ "PEER_ABORT_IN_PROGRESS" \notin ep.flags
          /\ End(e, 0, FALSE)
          /\ hw' = IF "ABORT_REQ_IN_PROGRESS" \in ep.flags THEN AskAbort(hw) ELSE hw
    /\ UNCHANGED <<qp, qmutex, rxq, fatal>>

TcbRead ==
    /\ After("tcb")
    /\ FinishPeerAbort(ep)
    /\ UNCHANGED <<qp, qmutex, rxq, hw, fatal>>

-----------------------------------------------------------------------------
(* process_timeout *)

ProcessTimeout ==
    /\ At("worker", "timeout") /\ mutex = "free"
    /\ \/ ep.state = "MPA_REQ_SENT" /\ End(ConnectReply(ep, FALSE), 2, FALSE)
       \/ /\ ep.state \in {"MPA_REQ_WAIT", "MPA_REQ_RCVD", "MPA_REP_SENT", "FPDU_MODE"}
          /\ End(ep, 2, FALSE)
       \/ /\ ep.state \in {"CLOSING", "MORIBUND"} /\ ep.cm_id /\ ep.qp
          /\ CallModify("worker", ep, "ERROR", "timeout")
          /\ mutex' = "worker"
       \/ /\ ep.state \in {"CLOSING", "MORIBUND"} /\ ~(ep.cm_id /\ ep.qp)
          /\ End(CloseUpcall(ep), 2, FALSE)
       \/ ep.state \in {"CONNECTING", "ABORTING", "DEAD"} /\ End(ep, 0, FALSE)
    /\ UNCHANGED <<qp, qmutex, rxq, hw, fatal>>

TimedOut ==
    /\ After("timeout")
    /\ End(CloseUpcall(ep), 2, FALSE)
    /\ UNCHANGED <<qp, qmutex, rxq, hw, fatal>>

(* ep_timeout, in interrupt.  An endpoint still listed is assumed to be    *)
(* handled before its timer, started again, runs out (ep_timeout_secs).    *)
Expire ==
    /\ ep.timer /\ ~ep.listed /\ ~Freed
    /\ ep' = [SetFlag(ep, "TIMEOUT") EXCEPT !.timer = FALSE, !.listed = TRUE]
    /\ UNCHANGED <<qp, mutex, qmutex, thr, rxq, hw, fatal>>

-----------------------------------------------------------------------------
(* The ULP answers a connection request, once.  The reference it was given *)
(* is dropped at the end.                                                  *)

Answering == ep.ulp /\ At("ulp", "idle") /\ mutex = "free"
Answer(e, disc) ==
    /\ Proceed("ulp", [e EXCEPT !.ulp = FALSE], disc, FALSE, 1)
    /\ UNCHANGED <<qp, mutex, qmutex, rxq, hw, fatal>>

(* The connection is gone, or an accept names a QP that does not exist:    *)
(* nothing but the reference changes.                                      *)
AnswerVain == Answering /\ Answer(ep, 0)

(* The QP cannot be destroyed while the accept runs: the caller has a      *)
(* reference of it.                                                        *)
Accept ==
    /\ Answering /\ ep.state = "MPA_REQ_RCVD" /\ qp.user # "destroyed"
    /\ ep' = [ep EXCEPT !.cm_id = TRUE, !.qp = TRUE, !.ulp = FALSE]
    /\ mutex' = "ulp"
    /\ thr' = [thr EXCEPT !["ulp"].at = "modify", !["ulp"].to = "RTS",
                          !["ulp"].then = "accept", !["ulp"].held = 1]
    /\ UNCHANGED <<qp, qmutex, rxq, hw, fatal>>

(* Parameters the device does not support. *)
AcceptBad == Answering /\ ep.state = "MPA_REQ_RCVD" /\ Answer(ep, 2)

Accepted ==
    /\ At("ulp", "after") /\ thr["ulp"].then = "accept"
    /\ LET sent == SetFlag([ep EXCEPT !.mpa_skb = TRUE], "STOP_MPA_TIMER")
           Fails(e) == Leave("ulp", [e EXCEPT !.cm_id = FALSE], 2, FALSE)
       IN  \/ thr["ulp"].ret # "ok" /\ Fails(ep) /\ UNCHANGED hw
           \/ /\ thr["ulp"].ret = "ok" /\ SendFails
              /\ Fails(SetState(sent, "MPA_REP_SENT"))
              /\ UNCHANGED hw
           \/ /\ thr["ulp"].ret = "ok" /\ SendWorks
              /\ Leave("ulp", EstablishedUpcall(SetState(sent, "FPDU_MODE")), 0, FALSE)
              /\ hw' = SentMpa(hw)
    /\ UNCHANGED <<qp, qmutex, rxq, fatal>>

(* c4iw_iw_reject_cr: the timer is stopped after the unlock. *)
Rejecting(disc) ==
    [thr EXCEPT !["ulp"].at = "reject", !["ulp"].disc = disc, !["ulp"].held = 1]

Reject ==
    /\ Answering /\ ep.state = "MPA_REQ_RCVD"
    /\ ep' = [ep EXCEPT !.mpa_skb = TRUE, !.ulp = FALSE]
    /\ \/ SendWorks /\ hw' = SentMpa(hw) /\ thr' = Rejecting(1)
       \/ SendFails /\ UNCHANGED hw /\ thr' = Rejecting(2)
    /\ UNCHANGED <<qp, mutex, qmutex, rxq, fatal>>

Rejected ==
    /\ At("ulp", "reject")
    /\ ep' = StopTimer(ep)
    /\ thr' = [thr EXCEPT !["ulp"].at = "end"]
    /\ UNCHANGED <<qp, mutex, qmutex, rxq, hw, fatal>>

-----------------------------------------------------------------------------
(* The user of the QP. *)

CallByUser(to, internal) ==
    /\ At("user", "idle")
    /\ thr' = [thr EXCEPT !["user"].at = "modify", !["user"].to = to,
                          !["user"].then = "user", !["user"].internal = internal]
    /\ UNCHANGED <<ep, mutex, qmutex, rxq, hw, fatal>>

UserMove ==
    /\ qp.user = "open"
    /\ \E to \in Moves : CallByUser(to, FALSE)
    /\ qp' = [qp EXCEPT !.user = "moved"]

(* destroy_rc_qp reads the state without the mutex. *)
Destroy ==
    /\ qp.user \in {"open", "moved"}
    /\ CallByUser("ERROR", qp.state = "TERMINATE")
    /\ qp' = [qp EXCEPT !.user = "destroying"]

UserMoved ==
    /\ At("user", "after") /\ thr["user"].then = "user"
    /\ Proceed("user", ep, thr["user"].disc, FALSE, thr["user"].held)
    /\ UNCHANGED <<qp, mutex, qmutex, rxq, hw, fatal>>

(* It waits for the QP to lose its endpoint, then for the references of    *)
(* the QP, of which the endpoint drops one when it is freed.               *)
Destroyed ==
    /\ qp.user = "destroying" /\ At("user", "idle") /\ ~qp.ep
    /\ ep.qp => Freed
    /\ qp' = [qp EXCEPT !.user = "destroyed"]
    /\ UNCHANGED <<ep, mutex, qmutex, thr, rxq, hw, fatal>>

-----------------------------------------------------------------------------
(* The adapter and the peer (external).  A disabled device says nothing    *)
(* more.                                                                   *)

Says(op, arg) == ~fatal /\ rxq' = Append(rxq, Cpl(op, arg))
Alone == ~Freed /\ UNCHANGED <<qp, mutex, qmutex, thr, fatal>>

Establish ==
    /\ hw.conn = "opening"
    /\ hw' = [hw EXCEPT !.conn = "open"]
    /\ Says(IF Active THEN "ACT_ESTABLISH" ELSE "PASS_ESTABLISH", "ok")
    /\ Alone /\ UNCHANGED ep

OpenFails ==
    /\ Active /\ hw.conn = "opening"
    /\ hw' = [hw EXCEPT !.conn = "closed"]
    /\ \E status \in {"exist", "fail"} : Says("ACT_OPEN_RPL", status)
    /\ Alone /\ UNCHANGED ep

(* act_open_req_arp_failure, pass_accept_rpl_arp_failure: the endpoint is  *)
(* marked at once, in interrupt, without the mutex.                        *)
ArpFails ==
    /\ hw.conn = "opening" /\ "arp" \in Faults
    /\ hw' = [hw EXCEPT !.conn = "closed"]
    /\ ep' = SetState(IF Active THEN ConnectReply(ep, FALSE) ELSE ep, "DEAD")
    /\ Says(IF Active THEN "PUT_EP_SAFE" ELSE "PASS_PUT_EP_SAFE", "ok")
    /\ Alone

Messages == {"ok", "bad"} \cup (IF ~Active THEN {} ELSE {"reject"} \cup
                                IF MpaRev = 2 THEN {"mismatch"} ELSE {})

Data ==
    /\ hw.conn = "open" /\ ~hw.fin /\ hw.data < MaxData
    /\ hw' = [hw EXCEPT !.data = @ + 1]
    /\ \E m \in Messages : Says("RX_DATA", m)
    /\ Alone /\ UNCHANGED ep

PeerFin ==
    /\ hw.conn = "open" /\ ~hw.fin
    /\ hw' = [hw EXCEPT !.fin = TRUE]
    /\ Says("PEER_CLOSE", "ok")
    /\ Alone /\ UNCHANGED ep

CloseRpl ==
    /\ hw.conn = "open" /\ hw.close_req
    /\ hw' = [hw EXCEPT !.close_req = FALSE, !.close_rpl = TRUE]
    /\ Says("CLOSE_CON_RPL", "ok")
    /\ Alone /\ UNCHANGED ep

(* peer_abort_intr: a lookup whose reference peer_abort drops, and a       *)
(* wake-up, before the CPL is queued.                                      *)
BothDone == hw.fin /\ hw.close_rpl

PeerRst ==
    /\ \/ hw.conn = "open" /\ ~BothDone
       \/ hw.conn = "opening" /\ ~Active
    /\ hw' = [hw EXCEPT !.conn = IF Found THEN "reset" ELSE "lost"]
    /\ IF Found
       THEN /\ ep' = WakeUp([Get(ep) EXCEPT !.intr = @ + 1], "reset")
            /\ \E why \in {"reset"} \cup (IF Active THEN {"other"} ELSE {}) :
                   Says("ABORT_REQ", why)
       ELSE ~fatal /\ UNCHANGED <<ep, rxq>>
    /\ Alone

(* Once, while the peer does not answer our FIN (a bound of the model). *)
NegativeAdvice ==
    /\ hw.conn = "open" /\ hw.fin /\ hw.close_req /\ ~hw.neg /\ "neg" \in Faults
    /\ hw' = [hw EXCEPT !.neg = TRUE]
    /\ Found
    /\ ep' = [Get(ep) EXCEPT !.intr = @ + 1]
    /\ Says("ABORT_REQ", "neg")
    /\ Alone

AbortDone ==
    /\ hw.abort_req
    /\ hw' = [hw EXCEPT !.conn = "closed", !.abort_req = FALSE]
    /\ Says("ABORT_RPL", "ok")
    /\ Alone /\ UNCHANGED ep

Ack ==
    /\ hw.conn = "open" /\ hw.ack
    /\ hw' = [hw EXCEPT !.ack = FALSE]
    /\ Says("FW4_ACK", "ok")
    /\ Alone /\ UNCHANGED ep

Tcb ==
    /\ hw.tcb > 0
    /\ hw' = [hw EXCEPT !.tcb = @ - 1]
    /\ \E pdu \in {"ok", "out"} : Says("GET_TCB_RPL", pdu)
    /\ Alone /\ UNCHANGED ep

(* A TERMINATE message, or streaming data although RDMA mode has begun:    *)
(* one of them, once.                                                      *)
PeerBreaks ==
    /\ hw.conn = "open" /\ hw.rdma /\ ~hw.fin /\ ~hw.term
    /\ hw' = [hw EXCEPT !.term = TRUE]
    /\ \E op \in {"RDMA_TERMINATE", "RX_DATA"} : Says(op, "ok")
    /\ Alone /\ UNCHANGED ep

(* fw6_msg wakes the thread in interrupt. *)
FwReply ==
    /\ hw.fw > 0 /\ ~fatal
    /\ \/ /\ hw' = [hw EXCEPT !.fw = @ - 1, !.rdma = TRUE]
          /\ ep' = WakeUp(ep, "ok")
       \/ /\ "fw" \in Faults
          /\ hw' = [hw EXCEPT !.fw = @ - 1]
          /\ ep' = WakeUp(ep, "err")
    /\ Alone /\ UNCHANGED rxq

(* c4iw_disable_device, called for another connection.  It wakes nobody of *)
(* this one: nothing is ever put on blocker_list.                          *)
Disabled ==
    /\ ~fatal /\ "fatal" \in Faults
    /\ fatal' = TRUE
    /\ ~Freed
    /\ UNCHANGED <<ep, qp, mutex, qmutex, thr, rxq, hw>>

-----------------------------------------------------------------------------
Modify(t) == \/ ModifyNothing(t) \/ ModifyInit(t) \/ ModifyFini(t)
             \/ ModifyTerminate(t) \/ ModifyIdle(t) \/ ModifyError(t)
             \/ ModifyUnsent(t) \/ FwWoken(t) \/ FwTimeout(t)

Leaving(t) == \/ DisconnectAbort(t) \/ DisconnectClose(t) \/ DisconnectFails(t)
              \/ DisconnectFailed(t) \/ DisconnectIgnored(t)
              \/ DisconnectFatal(t) \/ Release(t)

Handler == \/ ActOpenRpl \/ ActEstablish \/ PassEstablish \/ PutEpSafe
           \/ MpaReply \/ MpaReplied \/ MpaMismatched \/ MpaRequest
           \/ StreamingData \/ StreamingDone \/ Fw4Ack
           \/ PeerClose \/ PeerClosed \/ CloseConRpl \/ Closed
           \/ AbortRpl \/ Terminate \/ Terminated
           \/ PeerAbort \/ PeerAborted \/ ReadTcbRpl \/ TcbRead
           \/ ProcessTimeout \/ TimedOut

Work == TakeCpl \/ TakeTimeout \/ Handler

Ulp == AnswerVain \/ Accept \/ AcceptBad \/ Accepted \/ Reject \/ Rejected

User == UserMove \/ Destroy \/ UserMoved \/ Destroyed

Adapter == \/ Establish \/ OpenFails \/ ArpFails \/ Data \/ PeerFin
           \/ CloseRpl \/ PeerRst \/ NegativeAdvice \/ AbortDone \/ Ack
           \/ Tcb \/ PeerBreaks \/ FwReply \/ Disabled

(* Everything is over. *)
Finished == (Freed \/ fatal) /\ UNCHANGED vars

Next == \/ \E t \in Threads : Modify(t) \/ Leaving(t)
        \/ Work \/ Ulp \/ User \/ Adapter \/ Expire
        \/ Finished

Spec == Init /\ [][Next]_vars

(* The worker, the threads inside a call and the timer go on; the firmware *)
(* and the adapter answer what they were asked; the connection that is     *)
(* being opened opens or fails; and the peer, in the end, closes or        *)
(* resets.  Whether the ULP answers, and what the user does, stays open.   *)
Fairness ==
    /\ \A t \in Threads : WF_vars(Modify(t)) /\ WF_vars(Leaving(t))
    /\ WF_vars(Work) /\ WF_vars(Expire)
    /\ WF_vars(Accepted) /\ WF_vars(Rejected)
    /\ WF_vars(UserMoved) /\ WF_vars(Destroyed)
    /\ WF_vars(Establish \/ OpenFails)
    /\ WF_vars(FwReply) /\ WF_vars(Tcb)
    /\ WF_vars(CloseRpl) /\ WF_vars(AbortDone) /\ WF_vars(PeerFin \/ PeerRst)

LiveSpec == Spec /\ Fairness

-----------------------------------------------------------------------------
States == Connecting \cup {"CLOSING", "MORIBUND", "ABORTING", "DEAD"}
EpFlags == {"TIMEOUT", "RELEASE_RESOURCES", "CLOSE_SENT", "STOP_MPA_TIMER",
            "ABORT_REQ_IN_PROGRESS", "PEER_ABORT_IN_PROGRESS"}
QpStates == {"IDLE", "RTS", "CLOSING", "TERMINATE", "ERROR"}
Events   == {"none", "CONNECTED", "REFUSED", "ESTABLISHED", "DISCONNECT", "CLOSE"}
Steps    == {"idle", "handle", "timeout", "modify", "fw", "after", "reject", "end"}

(* The state stays within the values the code gives it. *)
TypeOK ==
    /\ ep.side \in Sides /\ ep.state \in States /\ ep.flags \subseteq EpFlags
    /\ ep.kref \in Int /\ ep.wr_done \in Nat /\ ep.retries \in 0..ActOpenRetries
    /\ ep.pdu_out \in 0..1 /\ ep.hwtid \in {"none", "own", "stale", "erased"}
    /\ ep.told \in Events
    /\ qp.state \in QpStates /\ qp.ep \in BOOLEAN
    /\ qp.user \in {"open", "moved", "destroying", "destroyed"}
    /\ mutex \in Threads \cup {"free"} /\ qmutex \in Threads \cup {"free"}
    /\ \A t \in Threads : /\ thr[t].at \in Steps /\ thr[t].disc \in 0..2
                          /\ thr[t].held \in Nat
    /\ fatal \in BOOLEAN

(* Nobody who took a reference (c4iw_get_ep) keeps it or drops it twice:   *)
(* the count is that of the base reference, the pending or expired timer,  *)
(* the QP, the ULP that has not answered, the TCBs that were asked for,    *)
(* the interrupt of an ABORT_REQ, a peer's abort that waits for its TCB,   *)
(* and the calls in progress.                                              *)
Held == thr["worker"].held + thr["ulp"].held + thr["user"].held

RefsBalance ==
    ep.kref = Bit(ep.base) + Bit(ep.timer) + Bit(ep.listed) + Bit(qp.ep)
              + Bit(ep.ulp) + Held + ep.tcbs + ep.intr + Bit(ep.hold)

(* No thread has work to do on an endpoint that has been freed, no timer   *)
(* of it is pending, and it is not put again.                              *)
NoUseAfterFree == ~UsedFreed /\ ep.kref >= 0

(* A reference is there when it is put (the WARN_ON of c4iw_put_ep).       *)
PutsAreHeld == ep.kref >= 0

(* No identifier of another connection is removed with the endpoint's, no  *)
(* event is raised on a cm_id that is gone, and the reference of the       *)
(* listening endpoint is dropped at most once.                             *)
Harmless == ep.harm = {}

(* An endpoint is not freed before the consumer was given the last event   *)
(* of its connection.                                                      *)
ConsumerTold == Freed => ~ep.cm_id

(* The events come in the order CmEvents allows. *)
Contract == INSTANCE CmEvents WITH side <- ep.side, told <- ep.told, cm_id <- ep.cm_id
KeepsContract == Contract!Spec

(* A connect is answered, however slow the peer is. *)
ConnectAnswered == Active ~> ep.told # "none"

(* destroy_rc_qp returns, with two exceptions.  The QP went to TERMINATE   *)
(* between the look at its state and the modify: nothing takes the         *)
(* endpoint from the QP any more.  Or peer_abort_intr dropped the peer's   *)
(* abort, as act_establish had not run yet: what is sent from then on is   *)
(* not answered, and the endpoint keeps its reference of the QP.           *)
LostRace  == thr["user"].at = "idle" /\ qp.state = "TERMINATE"
LostAbort == hw.conn = "lost"

DestroyReturns ==
    qp.user = "destroying" ~> (qp.user = "destroyed" \/ LostRace \/ LostAbort)
=============================================================================
