------------------------------ MODULE Listener ------------------------------
(***************************************************************************)
(* Listening endpoints of the connection manager (src/iw_cxgb4/cm.c).  A   *)
(* listener takes a server identifier (stid), asks the adapter for a       *)
(* server and waits for the reply, which wakes whatever endpoint has the   *)
(* stid by then; so do connection requests.  A child holds a reference of  *)
(* the listener until its request is passed up.  The adapter's messages    *)
(* are handled by one worker, in order; each call of the consumer is a     *)
(* thread of its own.  Server filters (enable_fw_ofld_conn) and the CLIP   *)
(* table are left out.                                                     *)
(***************************************************************************)
EXTENDS Naturals, FiniteSets, Sequences, SequencesExt, Functions

CONSTANTS ListenEps,  \* endpoints
          Stids,      \* server identifiers
          Children,   \* connections, by tid
          Trouble,    \* what goes wrong: "refused", "unsent", "unremoved",
                      \* "late_open", "late_close"
          MaxListens  \* bound: listeners created

ASSUME ListenerAssumption ==
  /\ Stids \subseteq Nat /\ MaxListens \in Nat /\ IsFiniteSet(Children)
  /\ Trouble \subseteq {"refused", "unsent", "unremoved", "late_open", "late_close"}

VARIABLES lep,     \* the endpoints: kref, state, cm_id, stid, wr_waitp
          call,    \* where the consumer's call for the endpoint is
          stids,   \* dev->stids: stid to endpoint
          inuse,   \* the adapter driver's table of stids
          lreqs,   \* requests on the control queue
          servers, \* servers of the adapter: stid to endpoint
          rxq,     \* messages to the worker
          handler, \* what the worker is doing
          child,   \* connections: the listener they hold, how far they are
          fatal,   \* T4_FATAL_ERROR
          listens
lepVars == <<lep, call, stids, inuse, lreqs, servers, rxq, handler, child, fatal, listens>>
serverVars == <<lreqs, servers>>

Nobody == [ref |-> 0, state |-> "IDLE", cm |-> FALSE, stid |-> 0, ret |-> "0", done |-> FALSE]
Rest == [op |-> "idle"]

LsnInit ==
  /\ lep = [l \in ListenEps |-> Nobody]
  /\ call = [l \in ListenEps |-> "none"]
  /\ stids = <<>> /\ inuse = {}
  /\ lreqs = <<>> /\ servers = <<>> /\ rxq = <<>> /\ handler = Rest
  /\ child = [t \in Children |-> [at |-> "none"]]
  /\ fatal = FALSE /\ listens = 0

----------------------------------------------------------------------------
(* Helpers                                                                 *)

Add(f, k, v) == [x \in DOMAIN f \cup {k} |-> IF x = k THEN v ELSE f[x]]
Without(f, k) == Restrict(f, DOMAIN f \ {k})
CallAt(l, where) == call' = [call EXCEPT ![l] = where]
PutEp(e) == [e EXCEPT !.ref = @ - 1]
\* deref_cm_id and the creator's put.
LetGo(e) == PutEp([e EXCEPT !.cm = FALSE])
\* c4iw_init_wr_wait
NoReply(e) == [e EXCEPT !.ret = "0", !.done = FALSE]
LowestFreeStid == CHOOSE s \in Stids \ inuse : \A t \in Stids \ inuse : s <= t

----------------------------------------------------------------------------
(* The consumer's calls                                                    *)

\* c4iw_iw_create_listen: alloc_ep, which refuses a dead device, ...
AllocListener(l) ==
  /\ call[l] = "none" /\ lep[l].ref = 0 /\ listens < MaxListens /\ ~fatal
  /\ listens' = listens + 1
  /\ lep' = [lep EXCEPT ![l] = [Nobody EXCEPT !.ref = 1, !.cm = TRUE]]
  /\ CallAt(l, "alloc")
  /\ UNCHANGED <<stids, inuse, serverVars, rxq, handler, child, fatal>>

\* ... no stid, ...
NoStid(l) ==
  /\ call[l] = "alloc" /\ Stids \subseteq inuse
  /\ lep' = [lep EXCEPT ![l] = LetGo(@)]
  /\ CallAt(l, "none")
  /\ UNCHANGED <<stids, inuse, serverVars, rxq, handler, child, fatal, listens>>

\* ... or a stid, the endpoint in the table and the request to the adapter;
\* a request that cannot be sent takes it all back.
OpenServer(l) ==
  /\ call[l] = "alloc" /\ ~ Stids \subseteq inuse
  /\ LET s == LowestFreeStid
     IN \/ /\ lep' = [lep EXCEPT ![l] = [NoReply(@) EXCEPT !.state = "LISTEN", !.stid = s]]
           /\ stids' = Add(stids, s, l) /\ inuse' = inuse \cup {s}
           /\ lreqs' = Append(lreqs, [op |-> "open", stid |-> s, l |-> l])
           /\ CallAt(l, "opened")
        \/ /\ "unsent" \in Trouble
           /\ lep' = [lep EXCEPT ![l] = LetGo([@ EXCEPT !.state = "LISTEN", !.stid = s])]
           /\ CallAt(l, "none")
           /\ UNCHANGED <<stids, inuse, lreqs>>
  /\ UNCHANGED <<servers, rxq, handler, child, fatal, listens>>

SentTo == [opened |-> "opening", closed |-> "closing"]
Answered == [opening |-> "open_done", closing |-> "close_done"]

EnterWait_NotForClose(l) == \* mutant
  /\ call[l] \in DOMAIN SentTo
  /\ UNCHANGED lep
  /\ CallAt(l, IF call[l] = "closed" THEN "close_done" ELSE "opening")
  /\ UNCHANGED <<stids, inuse, serverVars, rxq, handler, child, fatal, listens>>

\* c4iw_wait_for_reply: a dead device has no reply, ...
EnterWait(l) ==
  /\ call[l] \in DOMAIN SentTo
  /\ IF fatal
     THEN /\ lep' = [lep EXCEPT ![l].ret = "EIO"]
          /\ CallAt(l, Answered[SentTo[call[l]]])
     ELSE UNCHANGED lep /\ CallAt(l, SentTo[call[l]])
  /\ UNCHANGED <<stids, inuse, serverVars, rxq, handler, child, fatal, listens>>

\* ... the completion ends the wait, ...
Awake(l) ==
  /\ call[l] \in DOMAIN Answered /\ lep[l].done
  /\ CallAt(l, Answered[call[l]])
  /\ UNCHANGED <<lep, stids, inuse, serverVars, rxq, handler, child, fatal, listens>>

\* ... or the time is over: c4iw_disable_device.
TimeOut(l) ==
  /\ call[l] \in DOMAIN Answered /\ ~lep[l].done
  /\ (IF call[l] = "opening" THEN "late_open" ELSE "late_close") \in Trouble
  /\ fatal' = TRUE
  /\ lep' = [lep EXCEPT ![l].ret = "EIO"]
  /\ CallAt(l, Answered[call[l]])
  /\ UNCHANGED <<stids, inuse, serverVars, rxq, handler, child, listens>>

\* The tables forget the listener, then it goes.
ForgetServer(l) ==
  /\ stids' = Without(stids, lep[l].stid)
  /\ inuse' = inuse \ {lep[l].stid}
  /\ lep' = [lep EXCEPT ![l] = LetGo(@)]
  /\ CallAt(l, "none")

\* What c4iw_wait_for_reply returns is read from wr_waitp once more.
CreateReturns(l) ==
  /\ call[l] = "open_done"
  /\ IF lep[l].ret = "0" THEN CallAt(l, "listening") /\ UNCHANGED <<lep, stids, inuse>>
                         ELSE ForgetServer(l)
  /\ UNCHANGED <<serverVars, rxq, handler, child, fatal, listens>>

\* c4iw_iw_destroy_listen: DEAD, under the mutex, and the request; if that
\* cannot be sent, the tables keep the listener.
DestroyListen(l) ==
  /\ call[l] = "listening"
  /\ \/ /\ lep' = [lep EXCEPT ![l] = NoReply([@ EXCEPT !.state = "DEAD"])]
        /\ lreqs' = Append(lreqs, [op |-> "close", stid |-> lep[l].stid, l |-> l])
        /\ CallAt(l, "closed")
     \/ /\ "unremoved" \in Trouble
        /\ lep' = [lep EXCEPT ![l] = LetGo(NoReply([@ EXCEPT !.state = "DEAD"]))]
        /\ CallAt(l, "none")
        /\ UNCHANGED lreqs
  /\ UNCHANGED <<stids, inuse, servers, rxq, handler, child, fatal, listens>>

DestroyReturns(l) ==
  /\ call[l] = "close_done"
  /\ ForgetServer(l)
  /\ UNCHANGED <<serverVars, rxq, handler, child, fatal, listens>>

----------------------------------------------------------------------------
(* The adapter                                                             *)

Message(op, s, l) == rxq' = Append(rxq, [op |-> op, stid |-> s, l |-> l])

HwOpen ==
  /\ lreqs # <<>> /\ Head(lreqs).op = "open"
  /\ lreqs' = Tail(lreqs)
  /\ LET r == Head(lreqs)
     IN \/ /\ servers' = Add(servers, r.stid, r.l)
           /\ Message("opened", r.stid, r.l)
        \/ /\ "refused" \in Trouble
           /\ Message("refused", r.stid, r.l)
           /\ UNCHANGED servers
  /\ UNCHANGED <<lep, call, stids, inuse, handler, child, fatal, listens>>
HwClose ==
  /\ lreqs # <<>> /\ Head(lreqs).op = "close"
  /\ lreqs' = Tail(lreqs)
  /\ servers' = Without(servers, Head(lreqs).stid)
  /\ Message("closed", Head(lreqs).stid, Head(lreqs).l)
  /\ UNCHANGED <<lep, call, stids, inuse, handler, child, fatal, listens>>
HwSyn(t) ==
  /\ child[t].at = "none"
  /\ \E s \in DOMAIN servers :
       rxq' = Append(rxq, [op |-> "accept", stid |-> s, l |-> servers[s], t |-> t])
  /\ child' = [child EXCEPT ![t] = [at |-> "syn"]]
  /\ UNCHANGED <<lep, call, stids, inuse, serverVars, handler, fatal, listens>>

----------------------------------------------------------------------------
(* The worker (process_work)                                               *)

WorkEnds == handler' = Rest

TakeMessage_NoRef == \* mutant
  /\ handler = Rest /\ rxq # <<>>
  /\ rxq' = Tail(rxq)
  /\ LET m == Head(rxq)
     IN handler' = IF m.stid \in DOMAIN stids
                   THEN [msg |-> m, op |-> m.op, l |-> stids[m.stid]] ELSE handler
  /\ UNCHANGED <<lep, call, stids, inuse, serverVars, child, fatal, listens>>

\* get_ep_from_stid takes a reference; a message for nobody is dropped, the
\* connection of a request rejected.
TakeMessage ==
  /\ handler = Rest /\ rxq # <<>>
  /\ rxq' = Tail(rxq)
  /\ LET m == Head(rxq)
     IN IF m.stid \in DOMAIN stids
        THEN /\ handler' = [msg |-> m, op |-> m.op, l |-> stids[m.stid]]
             /\ lep' = [lep EXCEPT ![stids[m.stid]].ref = @ + 1]
        ELSE UNCHANGED <<handler, lep>>
  /\ UNCHANGED <<call, stids, inuse, serverVars, child, fatal, listens>>

\* pass_open_rpl, close_listsrv_rpl
ServerReply ==
  /\ handler.op \in {"opened", "refused", "closed"}
  /\ lep' = [lep EXCEPT ![handler.l] =
               PutEp([@ EXCEPT !.done = TRUE,
                             !.ret = IF handler.op = "refused" THEN "error" ELSE "0"])]
  /\ WorkEnds
  /\ UNCHANGED <<call, stids, inuse, serverVars, rxq, child, fatal, listens>>

\* pass_accept_req reads the state under the mutex, ...
AcceptLooks ==
  /\ handler.op = "accept"
  /\ IF lep[handler.l].state = "LISTEN"
     THEN handler' = [handler EXCEPT !.op = "accepting"] /\ UNCHANGED lep
     ELSE WorkEnds /\ lep' = [lep EXCEPT ![handler.l] = PutEp(@)]
  /\ UNCHANGED <<call, stids, inuse, serverVars, rxq, child, fatal, listens>>

\* ... then uses the cm_id and makes the child, whose reference replaces the
\* worker's, or rejects the connection.
Accept ==
  /\ handler.op = "accepting"
  /\ WorkEnds
  /\ \/ /\ child' = [child EXCEPT ![handler.msg.t] = [at |-> "connecting", parent |-> handler.l]]
        /\ UNCHANGED lep
     \/ /\ lep' = [lep EXCEPT ![handler.l] = PutEp(@)]
        /\ UNCHANGED child
  /\ UNCHANGED <<call, stids, inuse, serverVars, rxq, fatal, listens>>

\* process_mpa_request, under the listener's mutex: the request goes up and
\* the child lets the listener go, unless that is being destroyed.
ConnectRequest(t) ==
  /\ handler = Rest /\ child[t].at = "connecting"
  /\ LET l == child[t].parent
     IN IF lep[l].state # "DEAD"
        THEN /\ child' = [child EXCEPT ![t] = [at |-> "passed_up", parent |-> l]]
             /\ lep' = [lep EXCEPT ![l] = PutEp(@)]
        ELSE child' = [child EXCEPT ![t].at = "orphan"] /\ UNCHANGED lep
  /\ UNCHANGED <<call, stids, inuse, serverVars, rxq, handler, fatal, listens>>

\* A reset of a connection not yet established, an accept that finds no
\* neighbour: the child lets go.
ChildEnds(t) ==
  /\ handler = Rest /\ child[t].at = "connecting"
  /\ lep' = [lep EXCEPT ![child[t].parent] = PutEp(@)]
  /\ child' = [child EXCEPT ![t] = [at |-> "gone"]]
  /\ UNCHANGED <<call, stids, inuse, serverVars, rxq, handler, fatal, listens>>

LsnNext ==
  \/ \E l \in ListenEps :
       \/ AllocListener(l) \/ NoStid(l) \/ OpenServer(l) \/ EnterWait(l) \/ Awake(l)
       \/ TimeOut(l) \/ CreateReturns(l) \/ DestroyListen(l) \/ DestroyReturns(l)
  \/ HwOpen \/ HwClose \/ TakeMessage \/ ServerReply \/ AcceptLooks \/ Accept
  \/ \E t \in Children : HwSyn(t) \/ ConnectRequest(t) \/ ChildEnds(t)
LsnSpec == LsnInit /\ [][LsnNext]_lepVars

----------------------------------------------------------------------------
(* Properties                                                              *)

Holders(l) ==
  (IF call[l] # "none" THEN 1 ELSE 0) + (IF handler # Rest /\ handler.l = l THEN 1 ELSE 0)
  + Cardinality({t \in Children : child[t].at \in {"connecting", "orphan"} /\ child[t].parent = l})

\* A reference for each who uses the endpoint, whatever the order in which
\* the call, the worker and the children let it go; and what the table of
\* stids finds is an endpoint whose call still holds it.
EndpointsHeld ==
  /\ \A l \in ListenEps : lep[l].ref = Holders(l)
  /\ \A s \in DOMAIN stids : /\ call[stids[s]] # "none"
                             /\ s \in inuse /\ lep[stids[s]].stid = s

\* The worker passes requests up to a consumer that is there: it uses the
\* cm_id of a listener only while the listener has it.
CmIdThere ==
  /\ handler.op = "accepting" => lep[handler.l].cm
  /\ \A t \in Children : /\ child[t].at = "connecting"
                         /\ lep[child[t].parent].state # "DEAD"
                         => lep[child[t].parent].cm

\* A message reaches the listener it is about or none, although it names the
\* stid only and stids are used again.
MessagesReachTheirs ==
  /\ \A i \in 1..Len(rxq) : rxq[i].stid \in DOMAIN stids => stids[rxq[i].stid] = rxq[i].l
  /\ handler # Rest => handler.l = handler.msg.l

\* A listener has a server from the return of its creation to its
\* destruction, and nobody has one after the return of that.
AnswersTrue ==
  /\ \A l \in ListenEps : call[l] = "listening" =>
       lep[l].stid \in DOMAIN servers /\ servers[lep[l].stid] = l
  /\ DOMAIN servers \subseteq inuse

\* Nothing of one listener is taken for another's and nothing outlives its
\* destruction, because the reply that ends it is handled behind the requests
\* the adapter sent before; as long as every reply comes in time.
ListenersApart == fatal \/ (CmIdThere /\ MessagesReachTheirs /\ AnswersTrue)

\* What cm.c promises of its listeners at every step.
ListenersSound == EndpointsHeld /\ ListenersApart
==========================================================================
