---------------------------- MODULE AdapterProofs ----------------------------
(***************************************************************************)
(* Proofs about the listeners of the connection manager (Listener), for    *)
(* any endpoints, server identifiers and connections, about the table of   *)
(* next hops (L2Table), for any entries, neighbours, chains and users, and *)
(* about the firmware commands (Mailbox), for any callers and commands.    *)
(***************************************************************************)
EXTENDS Listener, L2Table, Mailbox, FiniteSetTheorems, SequenceTheorems, WellFoundedInduction, TLAPS

(***************************************************************************)
(* Listeners: the inductive invariant                                      *)
(***************************************************************************)
Opening == {"opened", "opening"}
Closing == {"closed", "closing"}
InTables == Opening \cup Closing \cup {"open_done", "listening", "close_done"}
Calls == InTables \cup {"none", "alloc"}
Holding == {"connecting", "orphan"}
Replies == {"opened", "refused", "closed"}
Accepts == {"accept", "accepting"}

LepRecords ==
  [ref : Int, state : {"IDLE", "LISTEN", "DEAD"}, cm : BOOLEAN, stid : Nat,
   ret : {"0", "EIO", "error"}, done : BOOLEAN]
Requests == [op : {"open", "close"}, stid : Stids, l : ListenEps]
RxMessages == [op : Replies, stid : Stids, l : ListenEps]
              \cup [op : {"accept"}, stid : Stids, l : ListenEps, t : Children]
HandlerStates ==
  {Rest} \cup [op : Replies \cup Accepts, l : ListenEps, msg : RxMessages]
ChildRecords == [at : {"none", "syn", "gone"}]
                \cup [at : Holding \cup {"passed_up"}, parent : ListenEps]

LsnTypeOK ==
  /\ lep \in [ListenEps -> LepRecords]
  /\ call \in [ListenEps -> Calls]
  /\ inuse \subseteq Stids /\ stids \in [inuse -> ListenEps]
  /\ lreqs \in Seq(Requests) /\ rxq \in Seq(RxMessages)
  /\ handler \in HandlerStates
  /\ servers \in [DOMAIN servers -> ListenEps] /\ DOMAIN servers \subseteq Stids
  /\ child \in [Children -> ChildRecords]

(* The table of stids and the endpoints name each other, from the request  *)
(* to the adapter on.                                                      *)
TablesOK ==
  /\ \A s \in inuse : call[stids[s]] \in InTables /\ lep[stids[s]].stid = s
  /\ \A l \in ListenEps :
       call[l] \in InTables => lep[l].stid \in inuse /\ stids[lep[l].stid] = l

(* An endpoint has the consumer's cm_id as long as a call holds it.        *)
LifeOK ==
  \A l \in ListenEps :
    /\ lep[l].cm <=> call[l] # "none"
    /\ call[l] \in Closing \cup {"close_done"} => lep[l].state = "DEAD"
    /\ call[l] = "alloc" => lep[l].state = "IDLE"

(* A connection is requested once, and holds nobody before.                *)
SynOK ==
  /\ \A i \in 1 .. Len(rxq) : rxq[i].op = "accept" => child[rxq[i].t].at = "syn"
  /\ \A i, j \in 1 .. Len(rxq) :
       rxq[i].op = "accept" /\ rxq[j].op = "accept" /\ rxq[i].t = rxq[j].t => i = j
  /\ handler.op \in Accepts =>
       /\ handler.msg.op = "accept" /\ child[handler.msg.t].at = "syn"
       /\ \A i \in 1 .. Len(rxq) : rxq[i].op = "accept" => rxq[i].t # handler.msg.t

(* A reference for the call, for the worker and for each child.            *)
Kids == [l \in ListenEps |->
           {t \in Children : child[t].at \in Holding /\ child[t].parent = l}]
CallHolds == [l \in ListenEps |-> IF call[l] # "none" THEN 1 ELSE 0]
WorkerHolds == [l \in ListenEps |-> IF handler # Rest /\ handler.l = l THEN 1 ELSE 0]
RefsOK ==
  \A l \in ListenEps : lep[l].ref = CallHolds[l] + WorkerHolds[l] + Cardinality(Kids[l])

(* As long as every reply comes in time, an endpoint has at most one       *)
(* request or reply under way, which its call waits for; and the adapter's *)
(* server is that of a listener in the tables.                             *)
Served == {l \in ListenEps : lep[l].stid \in DOMAIN servers /\ servers[lep[l].stid] = l}
OpenWaits == {l \in ListenEps : ~lep[l].done /\ call[l] \in Opening}
CloseWaits == {l \in ListenEps : ~lep[l].done /\ call[l] \in Closing}
Asked == {l \in ListenEps : \E i \in 1 .. Len(lreqs) : lreqs[i].l = l}
(* Listeners whose closing is told of behind message i. *)
ClosedAfter ==
  [i \in Nat |-> {l \in ListenEps :
                    \E j \in i + 1 .. Len(rxq) : rxq[j].op = "closed" /\ rxq[j].l = l}]

ServersOK == \A s \in DOMAIN servers : s \in inuse /\ stids[s] = servers[s]
RequestsOK ==
  /\ \A i \in 1 .. Len(lreqs) :
       /\ lreqs[i].stid \in inuse /\ stids[lreqs[i].stid] = lreqs[i].l
       /\ lreqs[i].op = "open" => lreqs[i].l \in OpenWaits \ Served
       /\ lreqs[i].op = "close" => lreqs[i].l \in CloseWaits
  /\ \A i, j \in 1 .. Len(lreqs) : lreqs[i].l = lreqs[j].l => i = j
ReplyOK(op, l) ==
  /\ op \in {"opened", "refused"} => l \in OpenWaits
  /\ op = "closed" => l \in CloseWaits
  /\ op = "opened" <=> l \in Served
  /\ l \notin Asked
RepliesOK ==
  /\ \A i \in 1 .. Len(rxq) :
       /\ rxq[i].stid \in inuse /\ stids[rxq[i].stid] = rxq[i].l
       /\ rxq[i].op # "accept" => ReplyOK(rxq[i].op, rxq[i].l)
       /\ rxq[i].op = "accept" => rxq[i].l \in Served \cup ClosedAfter[i]
  /\ \A i, j \in 1 .. Len(rxq) :
       rxq[i].op # "accept" /\ rxq[j].op # "accept" /\ rxq[i].l = rxq[j].l => i = j
HandlerOK ==
  handler # Rest =>
    /\ handler.msg.stid \in inuse /\ stids[handler.msg.stid] = handler.l
    /\ handler.msg.l = handler.l
    /\ handler.op \in Accepts => handler.l \in Served \cup ClosedAfter[0]
    /\ handler.op \notin Accepts =>
         /\ ReplyOK(handler.op, handler.l)
         /\ \A j \in 1 .. Len(rxq) : rxq[j].l = handler.l => rxq[j].op = "accept"
CallsOK ==
  \A l \in ListenEps :
    /\ call[l] = "listening" => l \in Served
    /\ call[l] \in {"open_done", "close_done"} => lep[l].done
    /\ lep[l].done /\ call[l] \in Opening \cup {"open_done"} =>
         (l \in Served <=> lep[l].ret = "0")
    /\ lep[l].done /\ call[l] \in Closing \cup {"close_done"} => l \notin Served
KidsOK ==
  \A t \in Children :
    child[t].at \in Holding => \/ lep[child[t].parent].state = "DEAD"
                               \/ child[t].parent \in Served
InTime == ServersOK /\ RequestsOK /\ RepliesOK /\ HandlerOK /\ CallsOK /\ KidsOK

LsnInv == /\ LsnTypeOK /\ TablesOK /\ LifeOK /\ SynOK /\ RefsOK
          /\ fatal \/ InTime

-----------------------------------------------------------------------------
(* The fields of what the worker reads and does. *)
LEMMA RxFields ==
  ASSUME NEW m \in RxMessages
  PROVE  /\ m.stid \in Stids /\ m.l \in ListenEps /\ m.op \in Replies \cup {"accept"}
         /\ m.op = "accept" => m.t \in Children
  BY DEF RxMessages, Replies

LEMMA HandlerFields ==
  ASSUME LsnTypeOK
  PROVE  /\ handler # Rest => /\ handler.l \in ListenEps /\ handler.msg \in RxMessages
                              /\ handler.op \in Replies \cup Accepts
         /\ handler.op # "idle" => handler # Rest
         /\ handler = Rest => handler.op = "idle"
  BY DEF LsnTypeOK, HandlerStates, Replies, Accepts, Rest

LEMMA ChildFields ==
  ASSUME LsnTypeOK, NEW t \in Children
  PROVE  /\ child[t].at \in Holding \cup {"none", "syn", "gone", "passed_up"}
         /\ child[t].at \in Holding => child[t].parent \in ListenEps
  BY DEF LsnTypeOK, ChildRecords, Holding

LEMMA QueueTypes ==
  ASSUME LsnTypeOK
  PROVE  /\ Len(lreqs) \in Nat /\ Len(rxq) \in Nat
         /\ \A i \in 1 .. Len(lreqs) : lreqs[i] \in Requests
         /\ \A i \in 1 .. Len(rxq) : rxq[i] \in RxMessages
  BY ElementOfSeq DEF LsnTypeOK

(* References are counted by natural numbers. *)
LEMMA KidsFinite ==
  ASSUME NEW l \in ListenEps
  PROVE  IsFiniteSet(Kids[l]) /\ Cardinality(Kids[l]) \in Nat
  <1>1. Kids[l] \subseteq Children
    BY DEF Kids
  <1> QED BY <1>1, ListenerAssumption, FS_Subset, FS_CardinalityType

(***************************************************************************)
(* What each change of an endpoint does to its fields.                     *)
(***************************************************************************)
LEMMA PutEpFields ==
  ASSUME NEW e \in LepRecords
  PROVE  /\ PutEp(e) \in LepRecords /\ PutEp(e).ref = e.ref - 1
         /\ PutEp(e).state = e.state /\ PutEp(e).stid = e.stid /\ PutEp(e).ret = e.ret
         /\ (PutEp(e).cm <=> e.cm) /\ (PutEp(e).done <=> e.done)
  BY DEF LepRecords, PutEp

LEMMA LetGoFields ==
  ASSUME NEW e \in LepRecords
  PROVE  /\ LetGo(e) \in LepRecords /\ LetGo(e).ref = e.ref - 1
         /\ LetGo(e).state = e.state /\ LetGo(e).stid = e.stid /\ ~LetGo(e).cm
  <1>1. PICK f : f = [e EXCEPT !.cm = FALSE] OBVIOUS
  <1>2. f \in LepRecords /\ f.ref = e.ref /\ f.state = e.state /\ f.stid = e.stid /\ ~f.cm
    BY <1>1 DEF LepRecords
  <1>3. LetGo(e) = PutEp(f) BY <1>1 DEF LetGo
  <1> QED BY <1>2, <1>3, PutEpFields

LEMMA NoReplyFields ==
  ASSUME NEW e \in LepRecords
  PROVE  /\ NoReply(e) \in LepRecords /\ NoReply(e).ref = e.ref
         /\ NoReply(e).state = e.state /\ NoReply(e).stid = e.stid
         /\ (NoReply(e).cm <=> e.cm) /\ ~NoReply(e).done
  <1>1. PICK f : f = [e EXCEPT !.ret = "0"] OBVIOUS
  <1>2. /\ f \in LepRecords /\ f.ref = e.ref /\ f.state = e.state /\ f.stid = e.stid
        /\ (f.cm <=> e.cm)
    BY <1>1 DEF LepRecords
  <1>3. NoReply(e) = [f EXCEPT !.done = FALSE] BY <1>1 DEF NoReply
  <1> QED BY <1>2, <1>3 DEF LepRecords

LEMMA StateFields ==
  ASSUME NEW e \in LepRecords, NEW st \in {"IDLE", "LISTEN", "DEAD"}
  PROVE  LET f == [e EXCEPT !.state = st]
         IN /\ f \in LepRecords /\ f.ref = e.ref /\ f.state = st /\ f.stid = e.stid
            /\ (f.cm <=> e.cm) /\ (f.done <=> e.done)
  BY DEF LepRecords

LEMMA ListenFields ==
  ASSUME NEW e \in LepRecords, NEW s \in Nat
  PROVE  LET f == [e EXCEPT !.state = "LISTEN", !.stid = s]
         IN /\ f \in LepRecords /\ f.ref = e.ref /\ f.state = "LISTEN" /\ f.stid = s
            /\ (f.cm <=> e.cm) /\ (f.done <=> e.done)
  <1>1. PICK g : g = [e EXCEPT !.state = "LISTEN"] OBVIOUS
  <1>2. /\ g \in LepRecords /\ g.ref = e.ref /\ g.state = "LISTEN" /\ g.stid = e.stid
        /\ (g.cm <=> e.cm) /\ (g.done <=> e.done)
    BY <1>1 DEF LepRecords
  <1>3. PICK f : f = [g EXCEPT !.stid = s] OBVIOUS
  <1>4. /\ f \in LepRecords /\ f.ref = g.ref /\ f.state = g.state /\ f.stid = s
        /\ (f.cm <=> g.cm) /\ (f.done <=> g.done)
    BY <1>2, <1>3 DEF LepRecords
  <1>5. f = [e EXCEPT !.state = "LISTEN", !.stid = s] BY <1>1, <1>3
  <1> QED BY <1>2, <1>4, <1>5

LEMMA FreshFields ==
  LET f == [Nobody EXCEPT !.ref = 1, !.cm = TRUE]
  IN /\ f \in LepRecords /\ f.ref = 1 /\ f.state = "IDLE" /\ f.cm /\ ~f.done
  <1>0. PICK n : n = Nobody OBVIOUS
  <1>a. n \in LepRecords /\ n.state = "IDLE" /\ ~n.done
    BY <1>0 DEF LepRecords, Nobody
  <1>1. PICK g : g = [n EXCEPT !.ref = 1] OBVIOUS
  <1>2. g \in LepRecords /\ g.ref = 1 /\ g.state = "IDLE" /\ ~g.done
    BY <1>a, <1>1 DEF LepRecords
  <1>3. PICK f : f = [g EXCEPT !.cm = TRUE] OBVIOUS
  <1>4. f \in LepRecords /\ f.ref = 1 /\ f.state = "IDLE" /\ f.cm /\ ~f.done
    BY <1>2, <1>3 DEF LepRecords
  <1>5. f = [Nobody EXCEPT !.ref = 1, !.cm = TRUE] BY <1>0, <1>1, <1>3
  <1> QED BY <1>4, <1>5

LEMMA AnsweredFields ==
  ASSUME NEW e \in LepRecords, NEW r \in {"0", "error"}
  PROVE  LET f == PutEp([e EXCEPT !.done = TRUE, !.ret = r])
         IN /\ f \in LepRecords /\ f.ref = e.ref - 1 /\ f.state = e.state
            /\ f.stid = e.stid /\ f.ret = r /\ (f.cm <=> e.cm) /\ f.done
  <1>1. PICK g : g = [e EXCEPT !.done = TRUE] OBVIOUS
  <1>2. /\ g \in LepRecords /\ g.ref = e.ref /\ g.state = e.state /\ g.stid = e.stid
        /\ (g.cm <=> e.cm) /\ g.done
    BY <1>1 DEF LepRecords
  <1>3. PICK h : h = [g EXCEPT !.ret = r] OBVIOUS
  <1>4. /\ h \in LepRecords /\ h.ref = g.ref /\ h.state = g.state /\ h.stid = g.stid
        /\ (h.cm <=> g.cm) /\ (h.done <=> g.done) /\ h.ret = r
    BY <1>2, <1>3 DEF LepRecords
  <1>5. h = [e EXCEPT !.done = TRUE, !.ret = r] BY <1>1, <1>3
  <1>6. /\ PutEp(h) \in LepRecords /\ PutEp(h).ref = e.ref - 1
        /\ PutEp(h).state = e.state /\ PutEp(h).stid = e.stid /\ PutEp(h).ret = r
        /\ (PutEp(h).cm <=> e.cm) /\ PutEp(h).done
    BY <1>2, <1>4, PutEpFields
  <1> QED BY <1>5, <1>6, Zenon

(***************************************************************************)
(* Steps of the consumer's calls                                           *)
(***************************************************************************)
(* Only the endpoint and its call change, and the tables and the requests. *)
CallStep(l) ==
  /\ \A k \in ListenEps : k # l => lep'[k] = lep[k] /\ call'[k] = call[k]
  /\ lep' \in [ListenEps -> LepRecords] /\ call' \in [ListenEps -> Calls]
  /\ UNCHANGED <<rxq, handler, child, servers>>

LEMMA CallStepTypes ==
  ASSUME LsnTypeOK, NEW l \in ListenEps, CallStep(l),
         inuse' \subseteq Stids, stids' \in [inuse' -> ListenEps], lreqs' \in Seq(Requests)
  PROVE  LsnTypeOK'
  BY DEF LsnTypeOK, CallStep

LEMMA CallStepSyn ==
  ASSUME SynOK, NEW l \in ListenEps, CallStep(l)
  PROVE  SynOK'
  BY DEF SynOK, CallStep

LEMMA CallStepLife ==
  ASSUME LifeOK, NEW l \in ListenEps, CallStep(l),
         lep'[l].cm <=> call'[l] # "none",
         call'[l] \in Closing \cup {"close_done"} => lep'[l].state = "DEAD",
         call'[l] = "alloc" => lep'[l].state = "IDLE"
  PROVE  LifeOK'
  BY DEF LifeOK, CallStep

(* A step changes the count by what the call holds. *)
LEMMA CallStepRefs ==
  ASSUME LsnTypeOK, RefsOK, NEW l \in ListenEps, CallStep(l),
         lep'[l].ref + CallHolds[l] = lep[l].ref + CallHolds'[l]
  PROVE  RefsOK'
  <1>1. Kids' = Kids /\ WorkerHolds' = WorkerHolds
    BY DEF Kids, WorkerHolds, CallStep
  <1>2. \A k \in ListenEps : CallHolds[k] \in Nat /\ CallHolds'[k] \in Nat
                             /\ WorkerHolds[k] \in Nat
    BY DEF CallHolds, WorkerHolds
  <1>3. \A k \in ListenEps : k # l => CallHolds'[k] = CallHolds[k]
    BY DEF CallHolds, CallStep
  <1>4. \A k \in ListenEps : lep[k].ref \in Int /\ lep'[k].ref \in Int
    BY DEF LsnTypeOK, CallStep, LepRecords
  <1>5. ASSUME NEW k \in ListenEps
        PROVE  lep'[k].ref = CallHolds'[k] + WorkerHolds'[k] + Cardinality(Kids'[k])
    <2>1. lep[k].ref = CallHolds[k] + WorkerHolds[k] + Cardinality(Kids[k])
      BY DEF RefsOK
    <2>2. CASE k = l
      BY <1>1, <1>2, <1>4, <2>1, <2>2, KidsFinite
    <2>3. CASE k # l
      BY <1>1, <1>3, <2>1, <2>3 DEF CallStep
    <2> QED BY <2>2, <2>3
  <1> QED BY <1>5 DEF RefsOK

(* Nothing under way names an endpoint that is not in the tables, ... *)
Quiet(l) ==
  /\ l \notin Asked
  /\ \A i \in 1 .. Len(rxq) : rxq[i].l # l
  /\ handler # Rest => handler.l # l
  /\ \A s \in DOMAIN servers : servers[s] # l

LEMMA OutsideQuiet ==
  ASSUME LsnTypeOK, TablesOK, InTime, NEW l \in ListenEps, call[l] \notin InTables
  PROVE  Quiet(l)
  <1>0. \A s \in inuse : stids[s] # l
    BY DEF TablesOK
  <1> QED BY <1>0 DEF Quiet, InTime, Asked, RequestsOK, RepliesOK, HandlerOK, ServersOK

(* ... nor one whose server is refused or closed, when its call hears of it. *)
LEMMA AnsweredQuiet ==
  ASSUME LsnTypeOK, TablesOK, InTime, NEW l \in ListenEps,
         call[l] \in {"open_done", "close_done"}, l \notin Served
  PROVE  Quiet(l)
  <1>0. l \notin OpenWaits /\ l \notin CloseWaits
    BY DEF InTime, CallsOK, OpenWaits, CloseWaits
  <1>a. Len(rxq) \in Nat /\ \A i \in 1 .. Len(rxq) : rxq[i] \in RxMessages
    BY QueueTypes
  <1>b. Len(lreqs) \in Nat /\ \A i \in 1 .. Len(lreqs) : lreqs[i] \in Requests
    BY QueueTypes
  <1>1. l \notin Asked
    BY <1>0, <1>b DEF InTime, RequestsOK, Asked, Requests
  <1>2. \A i \in 1 .. Len(rxq) : rxq[i].l = l => rxq[i].op = "accept"
    <2> SUFFICES ASSUME NEW i \in 1 .. Len(rxq), rxq[i].l = l, rxq[i].op # "accept"
                 PROVE  FALSE
      OBVIOUS
    <2>1. rxq[i].op \in Replies
      BY <1>a, RxFields
    <2> QED BY <1>0, <2>1 DEF InTime, RepliesOK, ReplyOK, Replies
  <1>3. \A i \in Nat : l \notin ClosedAfter[i]
    <2> SUFFICES ASSUME NEW i \in Nat, l \in ClosedAfter[i] PROVE FALSE
      OBVIOUS
    <2>1. PICK j \in i + 1 .. Len(rxq) : rxq[j].op = "closed" /\ rxq[j].l = l
      BY DEF ClosedAfter
    <2>2. j \in 1 .. Len(rxq)
      BY <1>a
    <2> QED BY <1>2, <2>1, <2>2
  <1>4. \A i \in 1 .. Len(rxq) : rxq[i].l # l
    BY <1>2, <1>3 DEF InTime, RepliesOK
  <1>5. handler # Rest => handler.l # l
    <2> SUFFICES ASSUME handler # Rest, handler.l = l PROVE FALSE
      OBVIOUS
    <2>1. handler.op \notin Accepts
      BY <1>3 DEF InTime, HandlerOK
    <2>2. handler.op \in Replies
      BY <2>1, HandlerFields
    <2> QED BY <1>0, <2>1, <2>2 DEF InTime, HandlerOK, ReplyOK, Replies
  <1>6. \A s \in DOMAIN servers : servers[s] # l
    BY DEF InTime, ServersOK, TablesOK, Served
  <1> QED BY <1>1, <1>4, <1>5, <1>6 DEF Quiet

(* Such an endpoint enters or leaves the tables without effect on others. *)
LEMMA QuietStep ==
  ASSUME LsnTypeOK, InTime, NEW l \in ListenEps, Quiet(l), CallStep(l), lreqs' = lreqs,
         call'[l] \in {"none", "alloc"},
         \A s \in inuse : stids[s] # l => s \in inuse' /\ stids'[s] = stids[s],
         Kids[l] = {} \/ lep'[l].state = lep[l].state
  PROVE  InTime'
  <1>0. Served' = Served
    BY DEF Served, Quiet, CallStep
  <1>1. \A k \in ListenEps : k # l => /\ k \in OpenWaits' <=> k \in OpenWaits
                                      /\ k \in CloseWaits' <=> k \in CloseWaits
    BY DEF OpenWaits, CloseWaits, CallStep
  <1>2. Asked' = Asked /\ ClosedAfter' = ClosedAfter
    BY DEF Asked, ClosedAfter, CallStep
  <1>3. l \notin Served /\ (\A i \in 1 .. Len(lreqs) : lreqs[i].l # l)
    BY DEF Served, Quiet, Asked
  <1>a. /\ Len(rxq) \in Nat /\ \A i \in 1 .. Len(rxq) : rxq[i] \in RxMessages
        /\ \A i \in 1 .. Len(lreqs) : lreqs[i] \in Requests
    BY QueueTypes
  <1>b. /\ \A m \in RxMessages : m.l \in ListenEps
        /\ \A m \in Requests : m.l \in ListenEps
    BY RxFields DEF Requests
  <1>4. ServersOK'
    BY DEF InTime, ServersOK, Quiet, CallStep
  <1>5. RequestsOK'
    BY <1>0, <1>1, <1>3, <1>a, <1>b DEF InTime, RequestsOK, CallStep
  <1>6. RepliesOK'
    <2>1. \A i \in 1 .. Len(rxq) : rxq[i].l \in ListenEps /\ rxq[i].l # l
      BY <1>a, <1>b DEF Quiet
    <2> QED BY <1>0, <1>1, <1>2, <2>1 DEF InTime, RepliesOK, ReplyOK, CallStep
  <1>7. HandlerOK'
    BY <1>0, <1>1, <1>2, HandlerFields DEF InTime, HandlerOK, ReplyOK, CallStep, Quiet
  <1>8. CallsOK'
    BY <1>0, <1>3 DEF InTime, CallsOK, CallStep, Opening, Closing
  <1>9. KidsOK'
    <2> SUFFICES ASSUME NEW t \in Children, child[t].at \in Holding
                 PROVE  \/ lep'[child[t].parent].state = "DEAD"
                        \/ child[t].parent \in Served
      BY <1>0 DEF KidsOK, CallStep
    <2>1. child[t].parent \in ListenEps
      BY ChildFields
    <2>2. CASE child[t].parent = l
      <3>1. t \in Kids[l]
        BY <2>2 DEF Kids
      <3> QED BY <2>2, <3>1 DEF InTime, KidsOK
    <2>3. CASE child[t].parent # l
      BY <2>1, <2>3 DEF InTime, KidsOK, CallStep
    <2> QED BY <2>2, <2>3
  <1> QED BY <1>4, <1>5, <1>6, <1>7, <1>8, <1>9 DEF InTime

LEMMA AllocListenerStep ==
  ASSUME LsnInv, NEW l \in ListenEps, AllocListener(l)
  PROVE  LsnInv'
  <1>t. LsnTypeOK /\ TablesOK /\ LifeOK /\ SynOK /\ RefsOK BY DEF LsnInv
  <1>f. ~fatal /\ InTime /\ call[l] = "none" /\ lep[l].ref = 0
    BY DEF AllocListener, LsnInv
  <1>1. /\ CallStep(l) /\ call'[l] = "alloc"
        /\ lep'[l].ref = 1 /\ lep'[l].cm /\ lep'[l].state = "IDLE"
        /\ UNCHANGED <<stids, inuse, lreqs, fatal>>
    <2>1. PICK e : e = [Nobody EXCEPT !.ref = 1, !.cm = TRUE] OBVIOUS
    <2>2. e \in LepRecords /\ e.ref = 1 /\ e.cm /\ e.state = "IDLE"
      BY <2>1, FreshFields
    <2>3. /\ lep' = [lep EXCEPT ![l] = e] /\ call' = [call EXCEPT ![l] = "alloc"]
          /\ UNCHANGED <<stids, inuse, lreqs, servers, rxq, handler, child, fatal>>
      BY <2>1 DEF AllocListener, CallAt, serverVars
    <2> QED BY <1>t, <2>2, <2>3 DEF CallStep, LsnTypeOK, Calls
  <1>2. LsnTypeOK'
    BY <1>t, <1>1, CallStepTypes DEF LsnTypeOK
  <1>3. TablesOK'
    <2>1. call[l] \notin InTables /\ call'[l] \notin InTables
      BY <1>f, <1>1 DEF InTables, Opening, Closing
    <2> QED BY <1>t, <1>1, <2>1 DEF TablesOK, LsnTypeOK, CallStep
  <1>4. LifeOK'
    BY <1>t, <1>1, CallStepLife DEF Closing
  <1>5. SynOK'
    BY <1>t, <1>1, CallStepSyn
  <1>6. RefsOK'
    <2>1. CallHolds[l] = 0 /\ CallHolds'[l] = 1
      BY <1>f, <1>1 DEF CallHolds
    <2> QED BY <1>t, <1>f, <1>1, <2>1, CallStepRefs
  <1>7. InTime'
    <2>1. Quiet(l)
      BY <1>t, <1>f, OutsideQuiet DEF InTables, Opening, Closing
    <2>2. Kids[l] = {}
      <3>1. Cardinality(Kids[l]) = 0
        BY <1>t, <1>f, KidsFinite DEF RefsOK, CallHolds, WorkerHolds
      <3> QED BY <3>1, KidsFinite, FS_EmptySet
    <2> QED BY <1>t, <1>f, <1>1, <2>1, <2>2, QuietStep
  <1> QED BY <1>2, <1>3, <1>4, <1>5, <1>6, <1>7 DEF LsnInv

(* An endpoint leaves: one that never came into the tables, or one whose   *)
(* server was refused or is closed.                                        *)
Leaves(l) ==
  /\ CallStep(l) /\ call'[l] = "none" /\ UNCHANGED <<lreqs, fatal>>
  /\ lep'[l].ref = lep[l].ref - 1 /\ ~lep'[l].cm
  /\ \/ /\ call[l] = "alloc" /\ UNCHANGED <<stids, inuse>>
     \/ /\ call[l] \in {"open_done", "close_done"} /\ lep'[l].state = lep[l].state
        /\ stids' = Without(stids, lep[l].stid) /\ inuse' = inuse \ {lep[l].stid}
        /\ fatal \/ l \notin Served

LEMMA LeavesStep ==
  ASSUME LsnInv, NEW l \in ListenEps, Leaves(l)
  PROVE  LsnInv'
  <1>t. LsnTypeOK /\ TablesOK /\ LifeOK /\ SynOK /\ RefsOK BY DEF LsnInv
  <1>1. /\ CallStep(l) /\ call'[l] = "none" /\ UNCHANGED <<lreqs, fatal>>
        /\ lep'[l].ref = lep[l].ref - 1 /\ ~lep'[l].cm
    BY DEF Leaves
  <1>2. LsnTypeOK'
    <2>1. inuse' \subseteq Stids /\ stids' \in [inuse' -> ListenEps]
      BY <1>t DEF Leaves, LsnTypeOK, Without, Restrict
    <2> QED BY <1>t, <1>1, <2>1, CallStepTypes DEF LsnTypeOK
  <1>a. \A s \in inuse : stids[s] # l => s \in inuse' /\ stids'[s] = stids[s]
    BY <1>t DEF Leaves, LsnTypeOK, Without, Restrict, TablesOK, InTables
  <1>3. TablesOK'
    <2>1. CASE call[l] = "alloc" /\ UNCHANGED <<stids, inuse>>
      BY <1>t, <1>1, <2>1 DEF TablesOK, LsnTypeOK, CallStep, InTables, Opening, Closing
    <2>2. CASE /\ call[l] \in {"open_done", "close_done"}
               /\ stids' = Without(stids, lep[l].stid) /\ inuse' = inuse \ {lep[l].stid}
      <3>1. lep[l].stid \in inuse /\ stids[lep[l].stid] = l
        BY <1>t, <2>2 DEF TablesOK, InTables
      <3>2. \A s \in inuse' : s \in inuse /\ s # lep[l].stid /\ stids'[s] = stids[s]
        BY <1>t, <2>2 DEF LsnTypeOK, Without, Restrict
      <3>3. \A s \in inuse' : stids[s] # l /\ stids[s] \in ListenEps
        BY <1>t, <3>1, <3>2 DEF TablesOK, LsnTypeOK
      <3>4. ASSUME NEW k \in ListenEps, call'[k] \in InTables
            PROVE  lep'[k].stid \in inuse' /\ stids'[lep'[k].stid] = k
        <4>1. k # l
          BY <1>1, <3>4 DEF InTables, Opening, Closing
        <4> QED BY <1>t, <1>1, <1>a, <3>4, <4>1 DEF TablesOK, CallStep
      <3> QED BY <1>t, <1>1, <3>2, <3>3, <3>4 DEF TablesOK, CallStep
    <2> QED BY <2>1, <2>2 DEF Leaves
  <1>4. LifeOK'
    BY <1>t, <1>1, CallStepLife DEF Closing
  <1>5. SynOK'
    BY <1>t, <1>1, CallStepSyn
  <1>6. RefsOK'
    <2>1. CallHolds[l] = 1 /\ CallHolds'[l] = 0
      BY <1>1 DEF CallHolds, Leaves
    <2>2. lep[l].ref \in Int
      BY <1>t DEF LsnTypeOK, LepRecords
    <2> QED BY <1>t, <1>1, <2>1, <2>2, CallStepRefs
  <1>7. ASSUME ~fatal PROVE InTime'
    <2>0. InTime BY <1>7 DEF LsnInv
    <2>1. Quiet(l)
      BY <1>t, <1>7, <2>0, OutsideQuiet, AnsweredQuiet DEF Leaves, InTables, Opening, Closing
    <2>2. Kids[l] = {} \/ lep'[l].state = lep[l].state
      <3>1. CASE call[l] = "alloc"
        <4>1. l \notin Served /\ lep[l].state = "IDLE"
          BY <1>t, <2>1, <3>1 DEF Quiet, Served, LifeOK
        <4> QED BY <2>0, <4>1 DEF Kids, InTime, KidsOK
      <3>2. CASE call[l] # "alloc"
        BY <3>2 DEF Leaves
      <3> QED BY <3>1, <3>2
    <2> QED BY <1>t, <1>1, <1>a, <2>0, <2>1, <2>2, QuietStep
  <1> QED BY <1>1, <1>2, <1>3, <1>4, <1>5, <1>6, <1>7 DEF LsnInv

LEMMA NoStidLeaves ==
  ASSUME LsnInv, NEW l \in ListenEps, NoStid(l)
  PROVE  Leaves(l)
  <1>1. lep[l] \in LepRecords
    BY DEF LsnInv, LsnTypeOK
  <1>2. PICK e : e = LetGo(lep[l]) OBVIOUS
  <1>3. e \in LepRecords /\ e.ref = lep[l].ref - 1 /\ ~e.cm
    BY <1>1, <1>2, LetGoFields
  <1>4. lep' = [lep EXCEPT ![l] = e] /\ call' = [call EXCEPT ![l] = "none"]
    BY <1>2 DEF NoStid, CallAt
  <1> QED BY <1>3, <1>4 DEF NoStid, Leaves, CallStep, LsnInv, LsnTypeOK, serverVars, Calls

LEMMA ForgetServerLeaves ==
  ASSUME LsnInv, NEW l \in ListenEps, ForgetServer(l), UNCHANGED <<lreqs, servers>>,
         UNCHANGED <<rxq, handler, child, fatal>>,
         call[l] \in {"open_done", "close_done"}, fatal \/ l \notin Served
  PROVE  Leaves(l)
  <1>1. lep[l] \in LepRecords
    BY DEF LsnInv, LsnTypeOK
  <1>2. PICK e : e = LetGo(lep[l]) OBVIOUS
  <1>3. e \in LepRecords /\ e.ref = lep[l].ref - 1 /\ ~e.cm /\ e.state = lep[l].state
    BY <1>1, <1>2, LetGoFields
  <1>4. lep' = [lep EXCEPT ![l] = e] /\ call' = [call EXCEPT ![l] = "none"]
    BY <1>2 DEF ForgetServer, CallAt
  <1> QED BY <1>3, <1>4 DEF ForgetServer, Leaves, CallStep, LsnInv, LsnTypeOK, Calls

(* Steps that leave the endpoints as they are: the call waits, or returns.  *)
(* Whoever waits for a message goes on waiting for it.                     *)
GoesOn(l) ==
  /\ CallStep(l) /\ UNCHANGED <<lep, stids, inuse, lreqs, fatal>>
  /\ call[l] \in InTables /\ call'[l] \in InTables
  /\ call'[l] \in Closing \cup {"close_done"} => call[l] \in Closing
  /\ l \in OpenWaits => call'[l] \in Opening
  /\ l \in CloseWaits => call'[l] \in Closing
  /\ fatal \/ /\ call'[l] = "listening" => l \in Served
              /\ call'[l] \in {"open_done", "close_done"} => lep[l].done
              /\ call'[l] \in Opening \cup {"open_done"} =>
                   call[l] \in Opening \cup {"open_done"}

LEMMA GoesOnStep ==
  ASSUME LsnInv, NEW l \in ListenEps, GoesOn(l)
  PROVE  LsnInv'
  <1>t. LsnTypeOK /\ TablesOK /\ LifeOK /\ SynOK /\ RefsOK BY DEF LsnInv
  <1>1. CallStep(l) /\ UNCHANGED <<lep, stids, inuse, lreqs, fatal>>
    BY DEF GoesOn
  <1>b. call[l] \in InTables /\ call'[l] \in InTables
    BY DEF GoesOn
  <1>2. LsnTypeOK'
    BY <1>t, <1>1, CallStepTypes DEF LsnTypeOK
  <1>3. TablesOK'
    BY <1>t, <1>1, <1>b DEF TablesOK, LsnTypeOK, CallStep
  <1>c. call'[l] # "none" /\ call[l] # "none" /\ call'[l] # "alloc"
    BY <1>b DEF InTables, Opening, Closing
  <1>4. LifeOK'
    BY <1>t, <1>1, <1>c, CallStepLife DEF GoesOn, LifeOK
  <1>5. SynOK'
    BY <1>t, <1>1, CallStepSyn
  <1>6. RefsOK'
    <2>1. CallHolds[l] = 1 /\ CallHolds'[l] = 1
      BY <1>c DEF CallHolds
    <2> QED BY <1>t, <1>1, <2>1, CallStepRefs
  <1>7. ASSUME ~fatal PROVE InTime'
    <2>0. InTime BY <1>7 DEF LsnInv
    <2>1. Served' = Served /\ Asked' = Asked /\ ClosedAfter' = ClosedAfter
      BY <1>1 DEF Served, Asked, ClosedAfter, CallStep
    <2>2. OpenWaits \subseteq OpenWaits' /\ CloseWaits \subseteq CloseWaits'
      BY <1>1 DEF OpenWaits, CloseWaits, CallStep, GoesOn
    <2>3. ServersOK'
      BY <1>1, <2>0 DEF InTime, ServersOK, CallStep
    <2>4. RequestsOK'
      BY <1>1, <2>0, <2>1, <2>2 DEF InTime, RequestsOK, CallStep
    <2>5. RepliesOK'
      BY <1>1, <2>0, <2>1, <2>2 DEF InTime, RepliesOK, ReplyOK, CallStep
    <2>6. HandlerOK'
      BY <1>1, <2>0, <2>1, <2>2 DEF InTime, HandlerOK, ReplyOK, CallStep
    <2>7. CallsOK'
      BY <1>1, <1>7, <2>0, <2>1 DEF InTime, CallsOK, CallStep, GoesOn
    <2>8. KidsOK'
      BY <1>1, <2>0, <2>1 DEF InTime, KidsOK, CallStep
    <2> QED BY <2>3, <2>4, <2>5, <2>6, <2>7, <2>8 DEF InTime
  <1> QED BY <1>1, <1>2, <1>3, <1>4, <1>5, <1>6, <1>7 DEF LsnInv

(* The wait that a dead device ends: nothing but the types is left to show. *)
GivesUp(l) ==
  /\ CallStep(l) /\ UNCHANGED <<stids, inuse, lreqs>> /\ fatal'
  /\ \E e \in LepRecords : /\ lep'[l] = e /\ e.ref = lep[l].ref /\ e.stid = lep[l].stid
                           /\ e.state = lep[l].state /\ (e.cm <=> lep[l].cm)
  /\ \/ call[l] \in Opening /\ call'[l] = "open_done"
     \/ call[l] \in Closing /\ call'[l] = "close_done"

LEMMA GivesUpStep ==
  ASSUME LsnInv, NEW l \in ListenEps, GivesUp(l)
  PROVE  LsnInv'
  <1>t. LsnTypeOK /\ TablesOK /\ LifeOK /\ SynOK /\ RefsOK BY DEF LsnInv
  <1>1. /\ CallStep(l) /\ UNCHANGED <<stids, inuse, lreqs>> /\ fatal'
        /\ lep'[l].ref = lep[l].ref /\ lep'[l].stid = lep[l].stid
        /\ lep'[l].state = lep[l].state /\ (lep'[l].cm <=> lep[l].cm)
    BY DEF GivesUp
  <1>b. call[l] \in InTables /\ call'[l] \in InTables
    BY DEF GivesUp, InTables
  <1>2. LsnTypeOK'
    BY <1>t, <1>1, CallStepTypes DEF LsnTypeOK
  <1>3. TablesOK'
    BY <1>t, <1>1, <1>b DEF TablesOK, LsnTypeOK, CallStep
  <1>c. call'[l] # "none" /\ call[l] # "none" /\ call'[l] # "alloc"
    BY <1>b DEF InTables, Opening, Closing
  <1>4. LifeOK'
    <2>1. call'[l] \in Closing \cup {"close_done"} => call[l] \in Closing
      BY DEF GivesUp, Closing
    <2> QED BY <1>t, <1>1, <1>c, <2>1, CallStepLife DEF LifeOK
  <1>5. SynOK'
    BY <1>t, <1>1, CallStepSyn
  <1>6. RefsOK'
    <2>1. CallHolds[l] = 1 /\ CallHolds'[l] = 1
      BY <1>c DEF CallHolds
    <2> QED BY <1>t, <1>1, <2>1, CallStepRefs
  <1> QED BY <1>1, <1>2, <1>3, <1>4, <1>5, <1>6 DEF LsnInv

LEMMA RetFields ==
  ASSUME NEW e \in LepRecords
  PROVE  LET f == [e EXCEPT !.ret = "EIO"]
         IN /\ f \in LepRecords /\ f.ref = e.ref /\ f.state = e.state /\ f.stid = e.stid
            /\ (f.cm <=> e.cm)
  BY DEF LepRecords

LEMMA EnterWaitStep ==
  ASSUME LsnInv, NEW l \in ListenEps, EnterWait(l)
  PROVE  LsnInv'
  <1>t. lep \in [ListenEps -> LepRecords] /\ call \in [ListenEps -> Calls]
    BY DEF LsnInv, LsnTypeOK
  <1>s. /\ DOMAIN SentTo = {"opened", "closed"}
        /\ SentTo["opened"] = "opening" /\ SentTo["closed"] = "closing"
        /\ Answered["opening"] = "open_done" /\ Answered["closing"] = "close_done"
    BY DEF SentTo, Answered
  <1>c. call[l] \in {"opened", "closed"}
    BY <1>s DEF EnterWait
  <1>1. CASE fatal
    <2>1. PICK e : e = [lep[l] EXCEPT !.ret = "EIO"] OBVIOUS
    <2>2. /\ e \in LepRecords /\ e.ref = lep[l].ref /\ e.stid = lep[l].stid
          /\ e.state = lep[l].state /\ (e.cm <=> lep[l].cm)
      BY <1>t, <2>1, RetFields
    <2>3. lep' = [lep EXCEPT ![l] = e]
          /\ call' = [call EXCEPT ![l] = IF call[l] = "opened" THEN "open_done" ELSE "close_done"]
      BY <1>1, <1>s, <1>c, <2>1 DEF EnterWait, CallAt
    <2>4. lep' \in [ListenEps -> LepRecords] /\ call' \in [ListenEps -> Calls] /\ lep'[l] = e
      BY <1>t, <2>2, <2>3 DEF Calls, InTables
    <2>5. GivesUp(l)
      BY <1>t, <1>c, <1>1, <2>2, <2>3, <2>4
         DEF EnterWait, GivesUp, CallStep, serverVars, Opening, Closing
    <2> QED BY <2>5, GivesUpStep
  <1>2. CASE ~fatal
    <2>1. lep' = lep
          /\ call' = [call EXCEPT ![l] = IF call[l] = "opened" THEN "opening" ELSE "closing"]
      BY <1>2, <1>s, <1>c DEF EnterWait, CallAt
    <2>2. CallStep(l)
      BY <1>t, <2>1 DEF EnterWait, CallStep, serverVars, Calls, InTables, Opening, Closing
    <2>3. GoesOn(l)
      BY <1>t, <1>c, <1>2, <2>1, <2>2
         DEF EnterWait, GoesOn, serverVars, InTables, Opening, Closing, OpenWaits, CloseWaits
    <2> QED BY <2>3, GoesOnStep
  <1> QED BY <1>1, <1>2

LEMMA AwakeStep ==
  ASSUME LsnInv, NEW l \in ListenEps, Awake(l)
  PROVE  LsnInv'
  <1>t. lep \in [ListenEps -> LepRecords] /\ call \in [ListenEps -> Calls]
    BY DEF LsnInv, LsnTypeOK
  <1>s. /\ DOMAIN Answered = {"opening", "closing"}
        /\ Answered["opening"] = "open_done" /\ Answered["closing"] = "close_done"
    BY DEF Answered
  <1>c. call[l] \in {"opening", "closing"} /\ lep[l].done /\ lep' = lep
        /\ call' = [call EXCEPT ![l] = IF call[l] = "opening" THEN "open_done" ELSE "close_done"]
    BY <1>s DEF Awake, CallAt
  <1>1. CallStep(l)
    BY <1>t, <1>c DEF Awake, CallStep, serverVars, Calls, InTables
  <1>2. l \notin OpenWaits /\ l \notin CloseWaits
    BY <1>c DEF OpenWaits, CloseWaits
  <1>3. GoesOn(l)
    BY <1>t, <1>c, <1>1, <1>2 DEF Awake, GoesOn, serverVars, InTables, Opening, Closing
  <1> QED BY <1>3, GoesOnStep

LEMMA TimeOutStep ==
  ASSUME LsnInv, NEW l \in ListenEps, TimeOut(l)
  PROVE  LsnInv'
  <1>t. lep \in [ListenEps -> LepRecords] /\ call \in [ListenEps -> Calls]
    BY DEF LsnInv, LsnTypeOK
  <1>s. /\ DOMAIN Answered = {"opening", "closing"}
        /\ Answered["opening"] = "open_done" /\ Answered["closing"] = "close_done"
    BY DEF Answered
  <1>c. call[l] \in {"opening", "closing"} /\ fatal'
        /\ call' = [call EXCEPT ![l] = IF call[l] = "opening" THEN "open_done" ELSE "close_done"]
    BY <1>s DEF TimeOut, CallAt
  <1>1. PICK e : e = [lep[l] EXCEPT !.ret = "EIO"] OBVIOUS
  <1>2. /\ e \in LepRecords /\ e.ref = lep[l].ref /\ e.stid = lep[l].stid
        /\ e.state = lep[l].state /\ (e.cm <=> lep[l].cm)
    BY <1>t, <1>1, RetFields
  <1>3. lep' = [lep EXCEPT ![l] = e]
    BY <1>1 DEF TimeOut
  <1>4. lep' \in [ListenEps -> LepRecords] /\ call' \in [ListenEps -> Calls] /\ lep'[l] = e
    BY <1>t, <1>c, <1>2, <1>3 DEF Calls, InTables
  <1>5. GivesUp(l)
    BY <1>t, <1>c, <1>2, <1>3, <1>4
       DEF TimeOut, GivesUp, CallStep, serverVars, Opening, Closing
  <1> QED BY <1>5, GivesUpStep

LEMMA CreateReturnsStep ==
  ASSUME LsnInv, NEW l \in ListenEps, CreateReturns(l)
  PROVE  LsnInv'
  <1>t. lep \in [ListenEps -> LepRecords] /\ call \in [ListenEps -> Calls]
    BY DEF LsnInv, LsnTypeOK
  <1>c. call[l] = "open_done" /\ (fatal \/ (l \in Served <=> lep[l].ret = "0"))
    BY DEF CreateReturns, LsnInv, InTime, CallsOK
  <1>1. CASE lep[l].ret = "0"
    <2>1. CallStep(l) /\ lep' = lep /\ call'[l] = "listening"
      BY <1>t, <1>1 DEF CreateReturns, CallAt, CallStep, serverVars, Calls, InTables
    <2>2. GoesOn(l)
      BY <1>c, <1>1, <2>1
         DEF CreateReturns, GoesOn, serverVars, InTables, Opening, Closing, OpenWaits, CloseWaits
    <2> QED BY <2>2, GoesOnStep
  <1>2. CASE lep[l].ret # "0"
    <2>1. Leaves(l)
      BY <1>c, <1>2, ForgetServerLeaves DEF CreateReturns, serverVars
    <2> QED BY <2>1, LeavesStep
  <1> QED BY <1>1, <1>2

LEMMA DestroyReturnsStep ==
  ASSUME LsnInv, NEW l \in ListenEps, DestroyReturns(l)
  PROVE  LsnInv'
  <1>1. call[l] = "close_done" /\ (fatal \/ l \notin Served)
    BY DEF DestroyReturns, LsnInv, InTime, CallsOK
  <1>2. Leaves(l)
    BY <1>1, ForgetServerLeaves DEF DestroyReturns, serverVars
  <1> QED BY <1>2, LeavesStep

(* A request is sent for an endpoint about which no reply is under way. *)
Sends(l, r) ==
  /\ CallStep(l) /\ lreqs' = Append(lreqs, r) /\ r \in Requests /\ r.l = l
  /\ r.stid \in inuse' /\ stids'[r.stid] = l
  /\ \A s \in inuse : s \in inuse' /\ stids'[s] = stids[s]
Unanswered(l) ==
  /\ l \notin Asked
  /\ \A i \in 1 .. Len(rxq) : rxq[i].l = l => rxq[i].op = "accept"
  /\ handler # Rest /\ handler.l = l => handler.op \in Accepts

LEMMA RequestsAppend ==
  ASSUME LsnTypeOK, NEW r \in Requests, lreqs' = Append(lreqs, r)
  PROVE  /\ lreqs' \in Seq(Requests) /\ Len(lreqs') = Len(lreqs) + 1 /\ Len(lreqs) \in Nat
         /\ \A i \in 1 .. Len(lreqs) : lreqs'[i] = lreqs[i]
         /\ lreqs'[Len(lreqs) + 1] = r
  BY AppendProperties DEF LsnTypeOK

LEMMA SendsStep ==
  ASSUME LsnTypeOK, InTime, NEW l \in ListenEps, NEW r, Sends(l, r), Unanswered(l),
         Served' = Served, OpenWaits \subseteq OpenWaits', CloseWaits \subseteq CloseWaits',
         r.op = "open" => l \in OpenWaits' \ Served,
         r.op = "close" => l \in CloseWaits',
         CallsOK', KidsOK'
  PROVE  InTime'
  <1>1. /\ Len(lreqs') = Len(lreqs) + 1 /\ Len(lreqs) \in Nat
        /\ \A i \in 1 .. Len(lreqs) : lreqs'[i] = lreqs[i]
        /\ lreqs'[Len(lreqs) + 1] = r
    BY RequestsAppend DEF Sends
  <1>2. Asked' = Asked \cup {l}
    <2>1. \A i \in 1 .. Len(lreqs') : i \in 1 .. Len(lreqs) \/ i = Len(lreqs) + 1
      BY <1>1
    <2>2. Len(lreqs) + 1 \in 1 .. Len(lreqs') /\ r.l = l
      BY <1>1 DEF Sends
    <2>3. \A i \in 1 .. Len(lreqs) : i \in 1 .. Len(lreqs')
      BY <1>1
    <2>4. ASSUME NEW k \in ListenEps PROVE k \in Asked' <=> k \in Asked \/ k = l
      BY <1>1, <2>1, <2>2, <2>3 DEF Asked
    <2> QED BY <2>4 DEF Asked
  <1>3. ClosedAfter' = ClosedAfter
    BY DEF ClosedAfter, Sends, CallStep
  <1>4. ServersOK'
    BY DEF InTime, ServersOK, Sends, CallStep
  <1>5. RequestsOK'
    <2>1. ASSUME NEW i \in 1 .. Len(lreqs')
          PROVE  /\ lreqs'[i].stid \in inuse' /\ stids'[lreqs'[i].stid] = lreqs'[i].l
                 /\ lreqs'[i].op = "open" => lreqs'[i].l \in OpenWaits' \ Served'
                 /\ lreqs'[i].op = "close" => lreqs'[i].l \in CloseWaits'
      <3>1. CASE i \in 1 .. Len(lreqs)
        BY <1>1, <3>1 DEF InTime, RequestsOK, Sends
      <3>2. CASE i = Len(lreqs) + 1
        BY <1>1, <3>2 DEF Sends
      <3> QED BY <1>1, <3>1, <3>2
    <2>2. ASSUME NEW i \in 1 .. Len(lreqs'), NEW j \in 1 .. Len(lreqs'),
                 lreqs'[i].l = lreqs'[j].l
          PROVE  i = j
      <3>1. \A k \in 1 .. Len(lreqs) : lreqs[k].l # l
        BY DEF Unanswered, Asked
      <3>2. r.l = l BY DEF Sends
      <3>3. CASE i \in 1 .. Len(lreqs) /\ j \in 1 .. Len(lreqs)
        BY <1>1, <2>2, <3>3 DEF InTime, RequestsOK
      <3>4. CASE i = Len(lreqs) + 1 \/ j = Len(lreqs) + 1
        BY <1>1, <2>2, <3>1, <3>2, <3>4
      <3> QED BY <1>1, <3>3, <3>4
    <2> QED BY <2>1, <2>2 DEF RequestsOK
  <1>6. RepliesOK'
    <2>1. \A i \in 1 .. Len(rxq) :
            rxq[i].op # "accept" => ReplyOK(rxq[i].op, rxq[i].l) /\ rxq[i].l # l
      BY DEF InTime, RepliesOK, Unanswered
    <2>2. rxq' = rxq
      BY DEF Sends, CallStep
    <2> QED BY <1>2, <1>3, <2>1, <2>2 DEF InTime, RepliesOK, ReplyOK, Sends
  <1>7. HandlerOK'
    <2>1. UNCHANGED <<handler, rxq>>
      BY DEF Sends, CallStep
    <2>2. handler # Rest /\ handler.op \notin Accepts => handler.l # l
      BY DEF Unanswered
    <2> QED BY <1>2, <1>3, <2>1, <2>2 DEF InTime, HandlerOK, ReplyOK, Sends
  <1> QED BY <1>4, <1>5, <1>6, <1>7 DEF InTime

LEMMA LeastExists ==
  ASSUME NEW S \in SUBSET Nat, S # {}
  PROVE  \E s \in S : \A t \in S : s <= t
  <1> DEFINE R == {ss \in Nat \X Nat : ss[1] < ss[2]}
  <1>1. IsWellFoundedOn(R, Nat)
    BY NatLessThanWellFounded, Zenon DEF OpToRel
  <1>2. \A y, s \in Nat : <<y, s>> \in R <=> y < s
    OBVIOUS
  <1> HIDE DEF R
  <1>3. PICK s \in S : \A y \in S : ~(<<y, s>> \in R)
    BY <1>1, WFMin, Zenon
  <1>4. ASSUME NEW y \in S PROVE s <= y
    <2>1. s \in Nat /\ y \in Nat
      OBVIOUS
    <2>2. ~(y < s)
      BY <1>2, <1>3, <2>1
    <2> QED BY <2>1, <2>2
  <1> QED BY <1>4

LEMMA FreeStid ==
  ASSUME LsnTypeOK, ~(Stids \subseteq inuse)
  PROVE  LowestFreeStid \in Stids \ inuse
  <1>1. Stids \ inuse \in SUBSET Nat /\ Stids \ inuse # {}
    BY ListenerAssumption
  <1>2. \E s \in Stids \ inuse : \A t \in Stids \ inuse : s <= t
    BY <1>1, LeastExists
  <1> QED BY <1>2 DEF LowestFreeStid

(* The request of c4iw_iw_create_listen is on its way. *)
LEMMA OpenSentStep ==
  ASSUME LsnInv, NEW l \in ListenEps, call[l] = "alloc", NEW s \in Stids \ inuse,
         lep' = [lep EXCEPT ![l] = [NoReply(@) EXCEPT !.state = "LISTEN", !.stid = s]],
         stids' = Add(stids, s, l), inuse' = inuse \cup {s},
         lreqs' = Append(lreqs, [op |-> "open", stid |-> s, l |-> l]),
         call' = [call EXCEPT ![l] = "opened"],
         UNCHANGED <<servers, rxq, handler, child, fatal>>
  PROVE  LsnInv'
  <1>t. LsnTypeOK /\ TablesOK /\ LifeOK /\ SynOK /\ RefsOK BY DEF LsnInv
  <1>0. s \in Nat BY ListenerAssumption
  <1>1. PICK e : e = [NoReply(lep[l]) EXCEPT !.state = "LISTEN", !.stid = s] OBVIOUS
  <1>2. PICK d : d = NoReply(lep[l]) OBVIOUS
  <1>3. d \in LepRecords /\ d.ref = lep[l].ref /\ (d.cm <=> lep[l].cm) /\ ~d.done
    BY <1>t, <1>2, NoReplyFields DEF LsnTypeOK
  <1>4. /\ e \in LepRecords /\ e.ref = lep[l].ref /\ (e.cm <=> lep[l].cm) /\ ~e.done
        /\ e.stid = s
    BY <1>0, <1>1, <1>2, <1>3, ListenFields
  <1>5. lep' = [lep EXCEPT ![l] = e] /\ lep'[l] = e /\ call'[l] = "opened"
    BY <1>t, <1>1 DEF LsnTypeOK
  <1>6. CallStep(l)
    BY <1>t, <1>4, <1>5 DEF CallStep, LsnTypeOK, Calls, InTables, Opening
  <1> DEFINE r == [op |-> "open", stid |-> s, l |-> l]
  <1>7. r \in Requests /\ r.l = l /\ r.stid = s /\ r.op = "open"
    BY DEF Requests
  <1> HIDE DEF r
  <1>8. lreqs' = Append(lreqs, r)
    BY DEF r
  <1>9. /\ inuse' = inuse \cup {s} /\ stids'[s] = l /\ stids' \in [inuse' -> ListenEps]
        /\ \A x \in inuse : stids'[x] = stids[x]
    BY <1>t DEF Add, LsnTypeOK
  <1>10. Sends(l, r)
    BY <1>6, <1>7, <1>8, <1>9 DEF Sends
  <1>a. \A x \in inuse : stids[x] # l
    BY <1>t DEF TablesOK, InTables, Opening, Closing
  <1>11. LsnTypeOK'
    <2>1. lreqs' \in Seq(Requests)
      BY <1>t, <1>7, <1>8, RequestsAppend
    <2> QED BY <1>t, <1>6, <1>9, <2>1, CallStepTypes DEF LsnTypeOK
  <1>12. TablesOK'
    <2>1. call'[l] \in InTables
      BY <1>5 DEF InTables, Opening
    <2>2. ASSUME NEW x \in inuse'
          PROVE  call'[stids'[x]] \in InTables /\ lep'[stids'[x]].stid = x
      <3>1. CASE x \in inuse
        <4>1. stids'[x] = stids[x] /\ stids[x] \in ListenEps /\ stids[x] # l
          BY <1>t, <1>9, <1>a, <3>1 DEF LsnTypeOK
        <4> QED BY <1>t, <1>6, <3>1, <4>1 DEF TablesOK, CallStep
      <3>2. CASE x = s
        BY <1>4, <1>5, <1>9, <2>1, <3>2
      <3> QED BY <1>9, <3>1, <3>2
    <2>3. ASSUME NEW k \in ListenEps, call'[k] \in InTables
          PROVE  lep'[k].stid \in inuse' /\ stids'[lep'[k].stid] = k
      <3>1. CASE k = l
        BY <1>4, <1>5, <1>9, <3>1
      <3>2. CASE k # l
        BY <1>t, <1>6, <1>9, <2>3, <3>2 DEF TablesOK, CallStep
      <3> QED BY <3>1, <3>2
    <2> QED BY <2>2, <2>3 DEF TablesOK
  <1>13. LifeOK'
    BY <1>t, <1>4, <1>5, <1>6, CallStepLife DEF LifeOK, Closing
  <1>14. SynOK'
    BY <1>t, <1>6, CallStepSyn
  <1>15. RefsOK'
    <2>1. CallHolds[l] = 1 /\ CallHolds'[l] = 1
      BY <1>5 DEF CallHolds
    <2> QED BY <1>t, <1>4, <1>5, <1>6, <2>1, CallStepRefs
  <1>16. ASSUME ~fatal PROVE InTime'
    <2>0. InTime BY <1>16 DEF LsnInv
    <2>1. Quiet(l)
      BY <1>t, <2>0, OutsideQuiet DEF InTables, Opening, Closing
    <2>2. Unanswered(l)
      BY <2>1 DEF Quiet, Unanswered
    <2>3. Served' = Served /\ l \notin Served
      BY <1>6, <2>1 DEF Served, Quiet, CallStep
    <2>4. OpenWaits \subseteq OpenWaits' /\ CloseWaits \subseteq CloseWaits' /\ l \in OpenWaits'
      <3>1. l \notin OpenWaits /\ l \notin CloseWaits
        BY DEF OpenWaits, CloseWaits, Opening, Closing
      <3>2. l \in OpenWaits'
        BY <1>4, <1>5 DEF OpenWaits, Opening
      <3> QED BY <1>6, <3>1, <3>2 DEF OpenWaits, CloseWaits, CallStep
    <2>5. CallsOK'
      <3>1. \A k \in ListenEps : k # l => lep'[k] = lep[k] /\ call'[k] = call[k]
        BY <1>6 DEF CallStep
      <3>2. ~lep'[l].done /\ call'[l] \notin {"listening", "open_done", "close_done"}
        BY <1>4, <1>5
      <3> QED BY <2>0, <2>3, <3>1, <3>2 DEF InTime, CallsOK
    <2>6. KidsOK'
      <3>1. lep[l].state = "IDLE"
        BY <1>t DEF LifeOK
      <3>2. \A t \in Children : child[t].at \in Holding =>
              child[t].parent \in ListenEps /\ child[t].parent # l
        BY <1>t, <2>0, <2>3, <3>1, ChildFields DEF InTime, KidsOK
      <3> QED BY <1>6, <2>0, <2>3, <3>2 DEF InTime, KidsOK, CallStep
    <2> QED BY <1>t, <1>7, <1>10, <2>0, <2>2, <2>3, <2>4, <2>5, <2>6, SendsStep
  <1> QED BY <1>11, <1>12, <1>13, <1>14, <1>15, <1>16 DEF LsnInv

(* The request of c4iw_iw_destroy_listen is on its way. *)
LEMMA CloseSentStep ==
  ASSUME LsnInv, NEW l \in ListenEps, call[l] = "listening",
         lep' = [lep EXCEPT ![l] = NoReply([@ EXCEPT !.state = "DEAD"])],
         lreqs' = Append(lreqs, [op |-> "close", stid |-> lep[l].stid, l |-> l]),
         call' = [call EXCEPT ![l] = "closed"],
         UNCHANGED <<stids, inuse, servers, rxq, handler, child, fatal>>
  PROVE  LsnInv'
  <1>t. LsnTypeOK /\ TablesOK /\ LifeOK /\ SynOK /\ RefsOK BY DEF LsnInv
  <1>1. PICK d : d = [lep[l] EXCEPT !.state = "DEAD"] OBVIOUS
  <1>2. PICK e : e = NoReply(d) OBVIOUS
  <1>3. /\ d \in LepRecords /\ d.ref = lep[l].ref /\ (d.cm <=> lep[l].cm)
        /\ d.state = "DEAD" /\ d.stid = lep[l].stid
    BY <1>t, <1>1, StateFields DEF LsnTypeOK
  <1>4. /\ e \in LepRecords /\ e.ref = lep[l].ref /\ (e.cm <=> lep[l].cm) /\ ~e.done
        /\ e.stid = lep[l].stid /\ e.state = "DEAD"
    BY <1>2, <1>3, NoReplyFields
  <1>5. lep' = [lep EXCEPT ![l] = e] /\ lep'[l] = e /\ call'[l] = "closed"
    BY <1>t, <1>1, <1>2 DEF LsnTypeOK
  <1>6. CallStep(l)
    BY <1>t, <1>4, <1>5 DEF CallStep, LsnTypeOK, Calls, InTables, Closing
  <1>a. lep[l].stid \in inuse /\ stids[lep[l].stid] = l /\ inuse \subseteq Stids
    BY <1>t DEF TablesOK, InTables, LsnTypeOK
  <1> DEFINE r == [op |-> "close", stid |-> lep[l].stid, l |-> l]
  <1>7. r \in Requests /\ r.l = l /\ r.stid = lep[l].stid /\ r.op = "close"
    BY <1>a DEF Requests
  <1> HIDE DEF r
  <1>8. lreqs' = Append(lreqs, r)
    BY DEF r
  <1>10. Sends(l, r)
    BY <1>6, <1>7, <1>8, <1>a DEF Sends
  <1>11. LsnTypeOK'
    <2>1. lreqs' \in Seq(Requests)
      BY <1>t, <1>7, <1>8, RequestsAppend
    <2> QED BY <1>t, <1>6, <2>1, CallStepTypes DEF LsnTypeOK
  <1>12. TablesOK'
    <2>1. call'[l] \in InTables /\ call[l] \in InTables
      BY <1>5 DEF InTables, Closing
    <2>2. \A k \in ListenEps :
            lep'[k].stid = lep[k].stid /\ (call'[k] \in InTables <=> call[k] \in InTables)
      BY <1>4, <1>5, <1>6, <2>1 DEF CallStep
    <2>3. \A x \in inuse : stids[x] \in ListenEps
      BY <1>t DEF LsnTypeOK
    <2> QED BY <1>t, <2>2, <2>3 DEF TablesOK
  <1>13. LifeOK'
    BY <1>t, <1>4, <1>5, <1>6, CallStepLife DEF LifeOK
  <1>14. SynOK'
    BY <1>t, <1>6, CallStepSyn
  <1>15. RefsOK'
    <2>1. CallHolds[l] = 1 /\ CallHolds'[l] = 1
      BY <1>5 DEF CallHolds
    <2> QED BY <1>t, <1>4, <1>5, <1>6, <2>1, CallStepRefs
  <1>16. ASSUME ~fatal PROVE InTime'
    <2>0. InTime BY <1>16 DEF LsnInv
    <2>1. l \notin OpenWaits /\ l \notin CloseWaits
      BY DEF OpenWaits, CloseWaits, Opening, Closing
    <2>2. Unanswered(l)
      <3>1. l \notin Asked
        <4> SUFFICES ASSUME NEW i \in 1 .. Len(lreqs), lreqs[i].l = l PROVE FALSE
          BY DEF Asked
        <4>1. lreqs[i].op \in {"open", "close"}
          BY <1>t, QueueTypes DEF Requests
        <4> QED BY <2>0, <2>1, <4>1 DEF InTime, RequestsOK
      <3>2. \A i \in 1 .. Len(rxq) : rxq[i].l = l => rxq[i].op = "accept"
        <4> SUFFICES ASSUME NEW i \in 1 .. Len(rxq), rxq[i].l = l, rxq[i].op # "accept"
                     PROVE  FALSE
          OBVIOUS
        <4>1. rxq[i].op \in Replies
          BY <1>t, QueueTypes, RxFields
        <4> QED BY <2>0, <2>1, <4>1 DEF InTime, RepliesOK, ReplyOK, Replies
      <3>3. handler # Rest /\ handler.l = l => handler.op \in Accepts
        <4> SUFFICES ASSUME handler # Rest, handler.l = l, handler.op \notin Accepts
                     PROVE  FALSE
          OBVIOUS
        <4>1. handler.op \in Replies
          BY <1>t, HandlerFields
        <4> QED BY <2>0, <2>1, <4>1 DEF InTime, HandlerOK, ReplyOK, Replies
      <3> QED BY <3>1, <3>2, <3>3 DEF Unanswered
    <2>3. Served' = Served
      BY <1>4, <1>5, <1>6 DEF Served, CallStep
    <2>4. OpenWaits \subseteq OpenWaits' /\ CloseWaits \subseteq CloseWaits' /\ l \in CloseWaits'
      <3>1. l \in CloseWaits'
        BY <1>4, <1>5 DEF CloseWaits, Closing
      <3> QED BY <1>6, <2>1, <3>1 DEF OpenWaits, CloseWaits, CallStep
    <2>5. CallsOK'
      <3>1. \A k \in ListenEps : k # l => lep'[k] = lep[k] /\ call'[k] = call[k]
        BY <1>6 DEF CallStep
      <3>2. ~lep'[l].done /\ call'[l] \notin {"listening", "open_done", "close_done"}
        BY <1>4, <1>5
      <3> QED BY <2>0, <2>3, <3>1, <3>2 DEF InTime, CallsOK
    <2>6. KidsOK'
      <3>1. \A t \in Children : child[t].at \in Holding => child[t].parent \in ListenEps
        BY <1>t, ChildFields
      <3> QED BY <1>4, <1>5, <1>6, <2>0, <2>3, <3>1 DEF InTime, KidsOK, CallStep
    <2> QED BY <1>t, <1>7, <1>10, <2>0, <2>2, <2>3, <2>4, <2>5, <2>6, SendsStep
  <1> QED BY <1>11, <1>12, <1>13, <1>14, <1>15, <1>16 DEF LsnInv

(***************************************************************************)
(* Steps of the adapter                                                    *)
(***************************************************************************)
LEMMA RequestsTail ==
  ASSUME LsnTypeOK, lreqs # <<>>, lreqs' = Tail(lreqs)
  PROVE  /\ lreqs' \in Seq(Requests) /\ Len(lreqs) \in Nat \ {0}
         /\ Len(lreqs') = Len(lreqs) - 1
         /\ \A i \in 1 .. Len(lreqs) - 1 : lreqs'[i] = lreqs[i + 1]
         /\ Head(lreqs) = lreqs[1] /\ lreqs[1] \in Requests
  <1>1. lreqs \in Seq(Requests) /\ Len(lreqs) \in Nat /\ Len(lreqs) # 0
    BY EmptySeq DEF LsnTypeOK
  <1>2. 1 \in 1 .. Len(lreqs)
    BY <1>1
  <1> QED BY <1>1, <1>2, HeadTailProperties, ElementOfSeq

LEMMA RxAppend ==
  ASSUME LsnTypeOK, NEW m \in RxMessages, rxq' = Append(rxq, m)
  PROVE  /\ rxq' \in Seq(RxMessages) /\ Len(rxq') = Len(rxq) + 1 /\ Len(rxq) \in Nat
         /\ \A i \in 1 .. Len(rxq) : rxq'[i] = rxq[i]
         /\ rxq'[Len(rxq) + 1] = m
  BY AppendProperties DEF LsnTypeOK

LEMMA RxTail ==
  ASSUME LsnTypeOK, rxq # <<>>, rxq' = Tail(rxq)
  PROVE  /\ rxq' \in Seq(RxMessages) /\ Len(rxq) \in Nat \ {0}
         /\ Len(rxq') = Len(rxq) - 1
         /\ \A i \in 1 .. Len(rxq) - 1 : rxq'[i] = rxq[i + 1]
         /\ Head(rxq) = rxq[1] /\ rxq[1] \in RxMessages
  <1>1. rxq \in Seq(RxMessages) /\ Len(rxq) \in Nat /\ Len(rxq) # 0
    BY EmptySeq DEF LsnTypeOK
  <1>2. 1 \in 1 .. Len(rxq)
    BY <1>1
  <1> QED BY <1>1, <1>2, HeadTailProperties, ElementOfSeq

(* The adapter takes a request and answers it. *)
Answer(o) == [op |-> o, stid |-> lreqs[1].stid, l |-> lreqs[1].l]
HwAnswers(o) ==
  /\ lreqs # <<>> /\ lreqs' = Tail(lreqs)
  /\ o \in Replies /\ (o = "closed" <=> lreqs[1].op = "close")
  /\ rxq' = Append(rxq, Answer(o))
  /\ o = "opened" => servers' = Add(servers, lreqs[1].stid, lreqs[1].l)
  /\ o = "refused" => servers' = servers
  /\ o = "closed" => servers' = Without(servers, lreqs[1].stid)
  /\ UNCHANGED <<lep, call, stids, inuse, handler, child, fatal>>

LEMMA AnswerFields ==
  ASSUME LsnTypeOK, NEW o, HwAnswers(o)
  PROVE  /\ Answer(o) \in RxMessages /\ Answer(o).op = o /\ o \in Replies
         /\ o # "accept" /\ o \notin Accepts
         /\ Answer(o).stid = lreqs[1].stid /\ Answer(o).l = lreqs[1].l
         /\ lreqs[1].stid \in Stids /\ lreqs[1].l \in ListenEps
         /\ lreqs[1].op = IF o = "closed" THEN "close" ELSE "open"
  <1>1. lreqs[1] \in Requests
    BY RequestsTail DEF HwAnswers
  <1> QED BY <1>1 DEF Answer, RxMessages, Requests, HwAnswers, Replies, Accepts

LEMMA HwAnswersStep ==
  ASSUME LsnInv, NEW o, HwAnswers(o)
  PROVE  LsnInv'
  <1>t. LsnTypeOK /\ TablesOK /\ LifeOK /\ SynOK /\ RefsOK BY DEF LsnInv
  <1> DEFINE r == lreqs[1]
             m == Answer(o)
  <1>1. /\ m \in RxMessages /\ m.op = o /\ o \in Replies /\ o # "accept" /\ o \notin Accepts
        /\ m.stid = r.stid /\ m.l = r.l /\ r.stid \in Stids /\ r.l \in ListenEps
        /\ r.op = IF o = "closed" THEN "close" ELSE "open"
    BY <1>t, AnswerFields
  <1> HIDE DEF m
  <1>2. UNCHANGED <<lep, call, stids, inuse, handler, child, fatal>>
    BY DEF HwAnswers
  <1>3. /\ lreqs' \in Seq(Requests) /\ Len(lreqs) \in Nat \ {0}
        /\ Len(lreqs') = Len(lreqs) - 1
        /\ \A i \in 1 .. Len(lreqs) - 1 : lreqs'[i] = lreqs[i + 1]
    BY <1>t, RequestsTail DEF HwAnswers
  <1>4. /\ rxq' \in Seq(RxMessages) /\ Len(rxq') = Len(rxq) + 1 /\ Len(rxq) \in Nat
        /\ \A i \in 1 .. Len(rxq) : rxq'[i] = rxq[i]
        /\ rxq'[Len(rxq) + 1] = m
    BY <1>t, <1>1, RxAppend DEF HwAnswers, m
  <1> HIDE DEF r
  <1>a. \A i \in 1 .. Len(rxq') : i \in 1 .. Len(rxq) \/ i = Len(rxq) + 1
    BY <1>4
  <1>s. /\ o = "opened" => servers' = Add(servers, r.stid, r.l)
        /\ o = "refused" => servers' = servers
        /\ o = "closed" => servers' = Without(servers, r.stid)
    BY DEF HwAnswers, r
  <1>5. LsnTypeOK'
    <2>1. servers' \in [DOMAIN servers' -> ListenEps] /\ DOMAIN servers' \subseteq Stids
      <3>1. CASE o = "opened"
        BY <1>t, <1>1, <1>s, <3>1 DEF LsnTypeOK, Add
      <3>2. CASE o = "refused"
        BY <1>t, <1>s, <3>2 DEF LsnTypeOK
      <3>3. CASE o = "closed"
        BY <1>t, <1>s, <3>3 DEF LsnTypeOK, Without, Restrict
      <3> QED BY <1>1, <3>1, <3>2, <3>3 DEF Replies
    <2> QED BY <1>t, <1>2, <1>3, <1>4, <2>1 DEF LsnTypeOK
  <1>6. TablesOK' /\ LifeOK'
    BY <1>t, <1>2 DEF TablesOK, LifeOK
  <1>7. SynOK'
    <2>1. \A i \in 1 .. Len(rxq') : rxq'[i].op = "accept" =>
             i \in 1 .. Len(rxq) /\ rxq'[i] = rxq[i]
      BY <1>1, <1>4, <1>a
    <2> QED BY <1>t, <1>2, <2>1 DEF SynOK
  <1>8. RefsOK'
    <2>1. Kids' = Kids /\ CallHolds' = CallHolds /\ WorkerHolds' = WorkerHolds
      BY <1>2 DEF Kids, CallHolds, WorkerHolds
    <2> QED BY <1>t, <1>2, <2>1 DEF RefsOK
  <1>9. ASSUME ~fatal PROVE InTime'
    <2>0. InTime BY <1>9 DEF LsnInv
    <2>r. 1 \in 1 .. Len(lreqs)
      BY <1>3
    <2>1. /\ r.stid \in inuse /\ stids[r.stid] = r.l /\ lep[r.l].stid = r.stid
          /\ r.op = "open" => r.l \in OpenWaits \ Served
          /\ r.op = "close" => r.l \in CloseWaits
          /\ r.l \in Asked
      BY <1>t, <1>1, <2>0, <2>r DEF InTime, RequestsOK, TablesOK, r, Asked
    <2>2. \A i \in 2 .. Len(lreqs) : lreqs[i].l # r.l
      BY <1>3, <2>0, <2>r DEF InTime, RequestsOK, r
    <2>3. Asked' = Asked \ {r.l}
      <3>1. ASSUME NEW k \in ListenEps, k \in Asked' PROVE k \in Asked /\ k # r.l
        <4>1. PICK i \in 1 .. Len(lreqs') : lreqs'[i].l = k
          BY <3>1 DEF Asked
        <4>2. i + 1 \in 2 .. Len(lreqs) /\ i + 1 \in 1 .. Len(lreqs) /\ lreqs[i + 1].l = k
          BY <1>3, <4>1
        <4> QED BY <2>2, <4>2 DEF Asked
      <3>2. ASSUME NEW k \in ListenEps, k \in Asked, k # r.l PROVE k \in Asked'
        <4>1. PICK i \in 1 .. Len(lreqs) : lreqs[i].l = k
          BY <3>2 DEF Asked
        <4>2. i # 1
          BY <3>2, <4>1 DEF r
        <4>3. i - 1 \in 1 .. Len(lreqs') /\ lreqs'[i - 1] = lreqs[(i - 1) + 1]
              /\ (i - 1) + 1 = i
          BY <1>3, <4>1, <4>2
        <4> QED BY <4>1, <4>3 DEF Asked
      <3> QED BY <3>1, <3>2 DEF Asked
    <2>4. /\ \A k \in ListenEps : k # r.l => (k \in Served' <=> k \in Served)
          /\ r.l \in Served' <=> o = "opened"
      <3>1. ASSUME NEW k \in ListenEps, k # r.l, k \in Served
            PROVE  lep[k].stid # r.stid
        BY <2>0, <2>1, <3>1 DEF Served, InTime, ServersOK
      <3>2. CASE o = "opened"
        BY <1>1, <1>2, <1>s, <2>1, <3>1, <3>2 DEF Served, Add
      <3>3. CASE o = "refused"
        BY <1>1, <1>2, <1>s, <2>1, <3>3 DEF Served
      <3>4. CASE o = "closed"
        BY <1>1, <1>2, <1>s, <2>1, <3>1, <3>4 DEF Served, Without, Restrict
      <3> QED BY <1>1, <3>2, <3>3, <3>4 DEF Replies
    <2>5. OpenWaits' = OpenWaits /\ CloseWaits' = CloseWaits
      BY <1>2 DEF OpenWaits, CloseWaits
    <2>6. /\ \A i \in Nat : ClosedAfter[i] \subseteq ClosedAfter'[i]
          /\ o = "closed" => \A i \in 0 .. Len(rxq) : r.l \in ClosedAfter'[i]
      <3>1. ASSUME NEW i \in Nat, NEW k \in ClosedAfter[i] PROVE k \in ClosedAfter'[i]
        <4>1. PICK j \in i + 1 .. Len(rxq) : rxq[j].op = "closed" /\ rxq[j].l = k
          BY DEF ClosedAfter
        <4>2. j \in i + 1 .. Len(rxq') /\ rxq'[j] = rxq[j]
          BY <1>4
        <4> QED BY <4>1, <4>2 DEF ClosedAfter
      <3>2. ASSUME o = "closed", NEW i \in 0 .. Len(rxq) PROVE r.l \in ClosedAfter'[i]
        <4>1. Len(rxq) + 1 \in i + 1 .. Len(rxq') /\ i \in Nat
          BY <1>4
        <4> QED BY <1>1, <1>4, <3>2, <4>1 DEF ClosedAfter
      <3> QED BY <3>1, <3>2
    <2>7. ServersOK'
      <3>1. CASE o = "opened"
        BY <1>t, <1>2, <1>s, <2>0, <2>1, <3>1 DEF InTime, ServersOK, Add
      <3>2. CASE o = "refused"
        BY <1>2, <1>s, <2>0, <3>2 DEF InTime, ServersOK
      <3>3. CASE o = "closed"
        BY <1>2, <1>s, <2>0, <3>3 DEF InTime, ServersOK, Without, Restrict
      <3> QED BY <1>1, <3>1, <3>2, <3>3 DEF Replies
    <2>8. RequestsOK'
      <3>1. \A i \in 1 .. Len(lreqs') :
              /\ i + 1 \in 2 .. Len(lreqs) /\ i + 1 \in 1 .. Len(lreqs)
              /\ lreqs'[i] = lreqs[i + 1] /\ lreqs[i + 1] \in Requests
        BY <1>t, <1>3, QueueTypes
      <3>2. \A i \in 1 .. Len(lreqs') : lreqs'[i].l # r.l /\ lreqs'[i].l \in ListenEps
        BY <2>2, <3>1 DEF Requests
      <3>3. ASSUME NEW i \in 1 .. Len(lreqs'), NEW j \in 1 .. Len(lreqs'),
                   lreqs'[i].l = lreqs'[j].l
            PROVE  i = j
        <4>1. /\ i + 1 \in 1 .. Len(lreqs) /\ j + 1 \in 1 .. Len(lreqs)
              /\ lreqs[i + 1].l = lreqs[j + 1].l
          BY <3>1, <3>3
        <4>2. \A x, y \in 1 .. Len(lreqs) : lreqs[x].l = lreqs[y].l => x = y
          BY <2>0 DEF InTime, RequestsOK
        <4>3. i + 1 = j + 1
          BY <4>1, <4>2
        <4> QED BY <4>3
      <3> QED BY <1>2, <2>0, <2>4, <2>5, <3>1, <3>2, <3>3 DEF InTime, RequestsOK
    <2>9. RepliesOK'
      <3>1. ASSUME NEW i \in 1 .. Len(rxq), rxq[i].op # "accept"
            PROVE  rxq[i].l # r.l /\ rxq[i].l \in ListenEps
        <4>1. rxq[i].l \in ListenEps
          BY <1>t, QueueTypes, RxFields
        <4> QED BY <2>0, <2>1, <3>1, <4>1 DEF InTime, RepliesOK, ReplyOK
      <3>2. ASSUME NEW i \in 1 .. Len(rxq'), rxq'[i].op # "accept"
            PROVE  /\ rxq'[i].op \in {"opened", "refused"} => rxq'[i].l \in OpenWaits'
                   /\ rxq'[i].op = "closed" => rxq'[i].l \in CloseWaits'
                   /\ rxq'[i].op = "opened" <=> rxq'[i].l \in Served'
                   /\ rxq'[i].l \notin Asked'
        <4>1. CASE i \in 1 .. Len(rxq)
          BY <1>4, <2>0, <2>3, <2>4, <2>5, <3>1, <3>2, <4>1 DEF InTime, RepliesOK, ReplyOK
        <4>2. CASE i = Len(rxq) + 1
          BY <1>1, <1>4, <2>1, <2>3, <2>4, <2>5, <4>2 DEF ReplyOK, Replies
        <4> QED BY <1>a, <4>1, <4>2
      <3>3. ASSUME NEW i \in 1 .. Len(rxq'), rxq'[i].op = "accept"
            PROVE  rxq'[i].l \in Served' \cup ClosedAfter'[i]
        <4>1. i \in 1 .. Len(rxq) /\ rxq'[i] = rxq[i] /\ i \in Nat /\ i \in 0 .. Len(rxq)
          BY <1>1, <1>4, <1>a, <3>3
        <4>2. rxq[i].l \in Served \cup ClosedAfter[i] /\ rxq[i].l \in ListenEps
          BY <1>t, <2>0, <3>3, <4>1, QueueTypes, RxFields DEF InTime, RepliesOK
        <4>3. CASE rxq[i].l = r.l
          BY <1>1, <2>1, <2>4, <2>6, <4>1, <4>2, <4>3 DEF Replies
        <4>4. CASE rxq[i].l # r.l
          BY <2>4, <2>6, <4>1, <4>2, <4>4
        <4> QED BY <4>3, <4>4
      <3>4. ASSUME NEW i \in 1 .. Len(rxq')
            PROVE  rxq'[i].stid \in inuse' /\ stids'[rxq'[i].stid] = rxq'[i].l
        BY <1>1, <1>2, <1>4, <1>a, <2>0, <2>1 DEF InTime, RepliesOK
      <3>5. ASSUME NEW i \in 1 .. Len(rxq'), NEW j \in 1 .. Len(rxq'),
                   rxq'[i].op # "accept", rxq'[j].op # "accept", rxq'[i].l = rxq'[j].l
            PROVE  i = j
        <4>1. CASE i \in 1 .. Len(rxq) /\ j \in 1 .. Len(rxq)
          BY <1>4, <2>0, <3>5, <4>1 DEF InTime, RepliesOK
        <4>2. CASE i = Len(rxq) + 1 \/ j = Len(rxq) + 1
          BY <1>1, <1>4, <1>a, <3>1, <3>5, <4>2
        <4> QED BY <1>a, <4>1, <4>2
      <3> QED BY <3>2, <3>3, <3>4, <3>5 DEF RepliesOK, ReplyOK
    <2>10. HandlerOK'
      <3> SUFFICES ASSUME handler # Rest PROVE HandlerOK'
        BY <1>2 DEF HandlerOK
      <3>0. handler' = handler /\ stids' = stids /\ inuse' = inuse
        BY <1>2
      <3>1. handler.l \in ListenEps
        BY <1>t, HandlerFields
      <3>2. CASE handler.op \in Accepts
        <4>1. handler.l \in Served \cup ClosedAfter[0]
          BY <2>0, <3>2 DEF InTime, HandlerOK
        <4>2. handler.l \in Served' \cup ClosedAfter'[0]
          <5>1. CASE handler.l = r.l
            BY <1>1, <1>4, <2>1, <2>4, <2>6, <4>1, <5>1 DEF Replies
          <5>2. CASE handler.l # r.l
            BY <2>4, <2>6, <3>1, <4>1, <5>2
          <5> QED BY <5>1, <5>2
        <4> QED BY <2>0, <3>0, <3>2, <4>2 DEF InTime, HandlerOK
      <3>3. CASE handler.op \notin Accepts
        <4>1. ReplyOK(handler.op, handler.l) /\ handler.l # r.l
          BY <2>0, <2>1, <3>3 DEF InTime, HandlerOK, ReplyOK
        <4>2. /\ handler.op \in {"opened", "refused"} => handler.l \in OpenWaits'
              /\ handler.op = "closed" => handler.l \in CloseWaits'
              /\ handler.op = "opened" <=> handler.l \in Served'
              /\ handler.l \notin Asked'
          BY <2>3, <2>4, <2>5, <3>1, <4>1 DEF ReplyOK
        <4>3. \A j \in 1 .. Len(rxq') : rxq'[j].l = handler.l => rxq'[j].op = "accept"
          BY <1>1, <1>4, <1>a, <2>0, <3>3, <4>1 DEF InTime, HandlerOK
        <4> QED BY <2>0, <3>0, <3>3, <4>2, <4>3 DEF InTime, HandlerOK, ReplyOK
      <3> QED BY <3>2, <3>3
    <2>11. CallsOK'
      <3> SUFFICES ASSUME NEW k \in ListenEps
                   PROVE  /\ call[k] = "listening" => k \in Served'
                          /\ call[k] \in {"open_done", "close_done"} => lep[k].done
                          /\ lep[k].done /\ call[k] \in Opening \cup {"open_done"} =>
                               (k \in Served' <=> lep[k].ret = "0")
                          /\ lep[k].done /\ call[k] \in Closing \cup {"close_done"} =>
                               k \notin Served'
        BY <1>2 DEF CallsOK
      <3>1. CASE k # r.l
        BY <2>0, <2>4, <3>1 DEF InTime, CallsOK
      <3>2. CASE k = r.l
        <4>1. ~lep[k].done /\ call[k] \in Opening \cup Closing
          BY <1>1, <2>1, <3>2 DEF OpenWaits, CloseWaits
        <4> QED BY <4>1 DEF Opening, Closing
      <3> QED BY <3>1, <3>2
    <2>12. KidsOK'
      <3> SUFFICES ASSUME NEW t \in Children, child[t].at \in Holding
                   PROVE  lep[child[t].parent].state = "DEAD" \/ child[t].parent \in Served'
        BY <1>2 DEF KidsOK
      <3>1. child[t].parent \in ListenEps
        BY <1>t, ChildFields
      <3>2. CASE child[t].parent # r.l
        BY <2>0, <2>4, <3>1, <3>2 DEF InTime, KidsOK
      <3>3. CASE child[t].parent = r.l
        <4>1. CASE r.op = "close"
          BY <1>t, <2>1, <3>3, <4>1 DEF CloseWaits, LifeOK
        <4>2. CASE r.op = "open"
          BY <2>0, <2>1, <3>3, <4>2 DEF InTime, KidsOK
        <4> QED BY <1>1, <4>1, <4>2
      <3> QED BY <3>2, <3>3
    <2> QED BY <2>7, <2>8, <2>9, <2>10, <2>11, <2>12 DEF InTime
  <1> QED BY <1>2, <1>5, <1>6, <1>7, <1>8, <1>9 DEF LsnInv

LEMMA HwOpenStep ==
  ASSUME LsnInv, HwOpen
  PROVE  LsnInv'
  <1>t. LsnTypeOK BY DEF LsnInv
  <1>1. /\ lreqs # <<>> /\ lreqs' = Tail(lreqs) /\ Head(lreqs) = lreqs[1]
        /\ lreqs[1].op = "open"
    BY <1>t, RequestsTail DEF HwOpen
  <1>2. HwAnswers("opened") \/ HwAnswers("refused")
    BY <1>1 DEF HwOpen, HwAnswers, Message, Answer, Replies
  <1> QED BY <1>2, HwAnswersStep

LEMMA HwCloseStep ==
  ASSUME LsnInv, HwClose
  PROVE  LsnInv'
  <1>t. LsnTypeOK BY DEF LsnInv
  <1>1. /\ lreqs # <<>> /\ lreqs' = Tail(lreqs) /\ Head(lreqs) = lreqs[1]
        /\ lreqs[1].op = "close"
    BY <1>t, RequestsTail DEF HwClose
  <1>2. HwAnswers("closed")
    BY <1>1 DEF HwClose, HwAnswers, Message, Answer, Replies
  <1> QED BY <1>2, HwAnswersStep

(* Nothing but the children: Kids changes with one of them. *)
LEMMA KidsSame ==
  ASSUME \A t \in Children : /\ child'[t].at \in Holding <=> child[t].at \in Holding
                             /\ child[t].at \in Holding => child'[t].parent = child[t].parent
  PROVE  Kids' = Kids
  BY DEF Kids

LEMMA KidsGain ==
  ASSUME NEW t \in Children, NEW l \in ListenEps, child[t].at \notin Holding,
         child'[t].at \in Holding, child'[t].parent = l,
         \A x \in Children : x # t => child'[x] = child[x]
  PROVE  /\ \A k \in ListenEps : k # l => Kids'[k] = Kids[k]
         /\ Cardinality(Kids'[l]) = Cardinality(Kids[l]) + 1
  <1>1. \A k \in ListenEps : k # l => Kids'[k] = Kids[k]
    BY DEF Kids
  <1>2. Kids'[l] = Kids[l] \cup {t} /\ t \notin Kids[l]
    BY DEF Kids
  <1> QED BY <1>1, <1>2, KidsFinite, FS_AddElement

LEMMA KidsLose ==
  ASSUME NEW t \in Children, NEW l \in ListenEps, child[t].at \in Holding,
         child[t].parent = l, child'[t].at \notin Holding,
         \A x \in Children : x # t => child'[x] = child[x]
  PROVE  /\ \A k \in ListenEps : k # l => Kids'[k] = Kids[k]
         /\ Cardinality(Kids'[l]) = Cardinality(Kids[l]) - 1
  <1>1. \A k \in ListenEps : k # l => Kids'[k] = Kids[k]
    BY DEF Kids
  <1>2. Kids'[l] = Kids[l] \ {t} /\ t \in Kids[l]
    BY DEF Kids
  <1> QED BY <1>1, <1>2, KidsFinite, FS_RemoveElement

LEMMA HwSynStep ==
  ASSUME LsnInv, NEW t \in Children, HwSyn(t)
  PROVE  LsnInv'
  <1>t. LsnTypeOK /\ TablesOK /\ LifeOK /\ SynOK /\ RefsOK BY DEF LsnInv
  <1>1. PICK s \in DOMAIN servers :
          rxq' = Append(rxq, [op |-> "accept", stid |-> s, l |-> servers[s], t |-> t])
    BY DEF HwSyn
  <1>2. PICK m : m = [op |-> "accept", stid |-> s, l |-> servers[s], t |-> t] OBVIOUS
  <1>3. m \in RxMessages /\ m.op = "accept" /\ m.stid = s /\ m.l = servers[s] /\ m.t = t
        /\ servers[s] \in ListenEps
    BY <1>t, <1>2 DEF RxMessages, LsnTypeOK
  <1>4. /\ rxq' \in Seq(RxMessages) /\ Len(rxq') = Len(rxq) + 1 /\ Len(rxq) \in Nat
        /\ \A i \in 1 .. Len(rxq) : rxq'[i] = rxq[i]
        /\ rxq'[Len(rxq) + 1] = m
    BY <1>t, <1>1, <1>2, <1>3, RxAppend
  <1>5. /\ UNCHANGED <<lep, call, stids, inuse, lreqs, servers, handler, fatal>>
        /\ child[t].at = "none" /\ child' = [child EXCEPT ![t] = [at |-> "syn"]]
    BY DEF HwSyn, serverVars
  <1>6. /\ child' \in [Children -> ChildRecords] /\ child'[t].at = "syn"
        /\ \A x \in Children : x # t => child'[x] = child[x]
    BY <1>t, <1>5 DEF LsnTypeOK, ChildRecords
  <1>a. \A i \in 1 .. Len(rxq') : i \in 1 .. Len(rxq) \/ i = Len(rxq) + 1
    BY <1>4
  <1>7. LsnTypeOK'
    BY <1>t, <1>4, <1>5, <1>6 DEF LsnTypeOK
  <1>8. TablesOK' /\ LifeOK'
    BY <1>t, <1>5 DEF TablesOK, LifeOK
  <1>9. SynOK'
    <2>1. ASSUME NEW i \in 1 .. Len(rxq), rxq[i].op = "accept"
          PROVE  /\ child'[rxq[i].t].at = "syn" /\ rxq[i].t # t
      <3>1. child[rxq[i].t].at = "syn" /\ rxq[i].t \in Children
        BY <1>t, <2>1, QueueTypes, RxFields DEF SynOK
      <3> QED BY <1>5, <1>6, <3>1
    <2>2. handler.op \in Accepts => handler.msg.t # t /\ child'[handler.msg.t].at = "syn"
      <3> SUFFICES ASSUME handler.op \in Accepts
                   PROVE  handler.msg.t # t /\ child'[handler.msg.t].at = "syn"
        OBVIOUS
      <3>1. handler.op # "idle" BY DEF Accepts
      <3>2. handler.msg.op = "accept" /\ child[handler.msg.t].at = "syn"
        BY <1>t DEF SynOK
      <3>3. handler.msg.t \in Children
        BY <1>t, <3>1, <3>2, HandlerFields, RxFields
      <3> QED BY <1>5, <1>6, <3>2, <3>3
    <2>3. \A i \in 1 .. Len(rxq') : rxq'[i].op = "accept" => child'[rxq'[i].t].at = "syn"
      BY <1>3, <1>4, <1>6, <1>a, <2>1
    <2>4. ASSUME NEW i \in 1 .. Len(rxq'), NEW j \in 1 .. Len(rxq'),
                 rxq'[i].op = "accept", rxq'[j].op = "accept", rxq'[i].t = rxq'[j].t
          PROVE  i = j
      <3>1. CASE i \in 1 .. Len(rxq) /\ j \in 1 .. Len(rxq)
        BY <1>t, <1>4, <2>4, <3>1 DEF SynOK
      <3>2. CASE i = Len(rxq) + 1 \/ j = Len(rxq) + 1
        BY <1>3, <1>4, <1>a, <2>1, <2>4, <3>2
      <3> QED BY <1>a, <3>1, <3>2
    <2>5. handler.op \in Accepts =>
            \A i \in 1 .. Len(rxq') : rxq'[i].op = "accept" => rxq'[i].t # handler.msg.t
      BY <1>t, <1>3, <1>4, <1>a, <2>2 DEF SynOK
    <2>6. handler.op \in Accepts => handler.msg.op = "accept"
      BY <1>t DEF SynOK
    <2> QED BY <1>5, <2>2, <2>3, <2>4, <2>5, <2>6 DEF SynOK
  <1>10. RefsOK'
    <2>1. Kids' = Kids
      BY <1>5, <1>6, KidsSame DEF Holding
    <2>2. CallHolds' = CallHolds /\ WorkerHolds' = WorkerHolds
      BY <1>5 DEF CallHolds, WorkerHolds
    <2> QED BY <1>t, <1>5, <2>1, <2>2 DEF RefsOK
  <1>11. ASSUME ~fatal PROVE InTime'
    <2>0. InTime BY <1>11 DEF LsnInv
    <2>1. /\ Served' = Served /\ Asked' = Asked
          /\ OpenWaits' = OpenWaits /\ CloseWaits' = CloseWaits
      BY <1>5 DEF Served, Asked, OpenWaits, CloseWaits
    <2>2. \A i \in Nat : ClosedAfter[i] \subseteq ClosedAfter'[i]
      <3>1. ASSUME NEW i \in Nat, NEW k \in ClosedAfter[i] PROVE k \in ClosedAfter'[i]
        <4>1. PICK j \in i + 1 .. Len(rxq) : rxq[j].op = "closed" /\ rxq[j].l = k
          BY DEF ClosedAfter
        <4>2. j \in i + 1 .. Len(rxq') /\ rxq'[j] = rxq[j]
          BY <1>4
        <4> QED BY <4>1, <4>2 DEF ClosedAfter
      <3> QED BY <3>1
    <2>3. s \in inuse /\ stids[s] = servers[s] /\ servers[s] \in Served
      BY <1>t, <1>3, <2>0 DEF InTime, ServersOK, TablesOK, Served
    <2>4. ServersOK' /\ RequestsOK' /\ CallsOK'
      BY <1>5, <2>0, <2>1 DEF InTime, ServersOK, RequestsOK, CallsOK
    <2>5. RepliesOK'
      <3>1. ASSUME NEW i \in 1 .. Len(rxq')
            PROVE  /\ rxq'[i].stid \in inuse /\ stids[rxq'[i].stid] = rxq'[i].l
                   /\ rxq'[i].op # "accept" =>
                        i \in 1 .. Len(rxq) /\ ReplyOK(rxq'[i].op, rxq'[i].l)
                   /\ rxq'[i].op = "accept" => rxq'[i].l \in Served \cup ClosedAfter'[i]
        <4>1. CASE i \in 1 .. Len(rxq)
          BY <1>4, <2>0, <2>2, <4>1 DEF InTime, RepliesOK
        <4>2. CASE i = Len(rxq) + 1
          BY <1>3, <1>4, <2>3, <4>2
        <4> QED BY <1>a, <4>1, <4>2
      <3>2. \A i, j \in 1 .. Len(rxq') :
              rxq'[i].op # "accept" /\ rxq'[j].op # "accept" /\ rxq'[i].l = rxq'[j].l => i = j
        BY <1>4, <2>0, <3>1 DEF InTime, RepliesOK
      <3> QED BY <1>5, <2>1, <3>1, <3>2 DEF RepliesOK, ReplyOK
    <2>6. HandlerOK'
      BY <1>3, <1>4, <1>5, <1>a, <2>0, <2>1, <2>2 DEF InTime, HandlerOK, ReplyOK
    <2>7. KidsOK'
      BY <1>5, <1>6, <2>0, <2>1 DEF InTime, KidsOK, Holding
    <2> QED BY <2>4, <2>5, <2>6, <2>7 DEF InTime
  <1> QED BY <1>5, <1>7, <1>8, <1>9, <1>10, <1>11 DEF LsnInv

(***************************************************************************)
(* Steps of the worker                                                     *)
(***************************************************************************)
(* It changes nothing of an endpoint but the references, unless it replies. *)
SameButRefs ==
  /\ lep' \in [ListenEps -> LepRecords]
  /\ \A k \in ListenEps :
       /\ lep'[k].state = lep[k].state /\ lep'[k].stid = lep[k].stid
       /\ lep'[k].ret = lep[k].ret
       /\ (lep'[k].cm <=> lep[k].cm) /\ (lep'[k].done <=> lep[k].done)
  /\ UNCHANGED <<call, stids, inuse, lreqs, servers, fatal>>

LEMMA SameButRefsFacts ==
  ASSUME LsnTypeOK, TablesOK, LifeOK, SameButRefs
  PROVE  /\ TablesOK' /\ LifeOK' /\ CallHolds' = CallHolds
         /\ Served' = Served /\ Asked' = Asked
         /\ OpenWaits' = OpenWaits /\ CloseWaits' = CloseWaits
         /\ ServersOK => ServersOK'
         /\ RequestsOK => RequestsOK'
         /\ CallsOK => CallsOK'
  <1>0. /\ UNCHANGED <<call, stids, inuse, lreqs, servers>>
        /\ \A k \in ListenEps :
             /\ lep'[k].state = lep[k].state /\ lep'[k].stid = lep[k].stid
             /\ lep'[k].ret = lep[k].ret
             /\ (lep'[k].cm <=> lep[k].cm) /\ (lep'[k].done <=> lep[k].done)
    BY DEF SameButRefs
  <1>1. TablesOK' /\ LifeOK'
    BY <1>0 DEF LsnTypeOK, TablesOK, LifeOK
  <1>2. CallHolds' = CallHolds /\ Asked' = Asked
    BY <1>0 DEF CallHolds, Asked
  <1>3. Served' = Served
    BY <1>0 DEF Served
  <1>4. OpenWaits' = OpenWaits /\ CloseWaits' = CloseWaits
    BY <1>0 DEF OpenWaits, CloseWaits
  <1>5. ServersOK => ServersOK'
    BY <1>0 DEF ServersOK
  <1>6. RequestsOK => RequestsOK'
    BY <1>0, <1>3, <1>4 DEF RequestsOK
  <1>7. CallsOK => CallsOK'
    BY <1>0, <1>3 DEF CallsOK
  <1> QED BY <1>1, <1>2, <1>3, <1>4, <1>5, <1>6, <1>7

(* One more reference, or one less. *)
LEMMA RefChange ==
  ASSUME LsnTypeOK, NEW l \in ListenEps, NEW e \in LepRecords,
         lep' = [lep EXCEPT ![l] = e],
         e.state = lep[l].state, e.stid = lep[l].stid, e.ret = lep[l].ret,
         e.cm <=> lep[l].cm, e.done <=> lep[l].done,
         UNCHANGED <<call, stids, inuse, lreqs, servers, fatal>>
  PROVE  /\ SameButRefs /\ lep'[l].ref = e.ref
         /\ \A k \in ListenEps : k # l => lep'[k].ref = lep[k].ref
  BY DEF LsnTypeOK, SameButRefs

LEMMA RefGain ==
  ASSUME NEW e \in LepRecords
  PROVE  LET f == [e EXCEPT !.ref = @ + 1]
         IN /\ f \in LepRecords /\ f.ref = e.ref + 1 /\ f.state = e.state
            /\ f.stid = e.stid /\ f.ret = e.ret
            /\ (f.cm <=> e.cm) /\ (f.done <=> e.done)
  BY DEF LepRecords

LEMMA PutOne ==
  ASSUME LsnTypeOK, NEW l \in ListenEps, lep' = [lep EXCEPT ![l] = PutEp(@)],
         UNCHANGED <<call, stids, inuse, lreqs, servers, fatal>>
  PROVE  /\ SameButRefs /\ lep'[l].ref = lep[l].ref - 1
         /\ \A k \in ListenEps : k # l => lep'[k].ref = lep[k].ref
  <1>1. PICK e : e = PutEp(lep[l]) OBVIOUS
  <1>2. lep[l] \in LepRecords BY DEF LsnTypeOK
  <1>3. /\ e \in LepRecords /\ e.ref = lep[l].ref - 1
        /\ e.state = lep[l].state /\ e.stid = lep[l].stid /\ e.ret = lep[l].ret
        /\ (e.cm <=> lep[l].cm) /\ (e.done <=> lep[l].done)
    BY <1>1, <1>2, PutEpFields
  <1>4. lep' = [lep EXCEPT ![l] = e]
    BY <1>1
  <1> QED BY <1>3, <1>4, RefChange

(* The worker does nothing. *)
LEMMA Resting ==
  ASSUME handler = Rest
  PROVE  /\ \A l \in ListenEps : WorkerHolds[l] = 0
         /\ handler.op \notin Accepts
  BY DEF WorkerHolds, Rest, Accepts

LEMMA TakeMessageStep ==
  ASSUME LsnInv, TakeMessage
  PROVE  LsnInv'
  <1>t. LsnTypeOK /\ TablesOK /\ LifeOK /\ SynOK /\ RefsOK BY DEF LsnInv
  <1>1. /\ rxq' \in Seq(RxMessages) /\ Len(rxq) \in Nat \ {0}
        /\ Len(rxq') = Len(rxq) - 1
        /\ \A i \in 1 .. Len(rxq) - 1 : rxq'[i] = rxq[i + 1]
        /\ Head(rxq) = rxq[1] /\ rxq[1] \in RxMessages
    BY <1>t, RxTail DEF TakeMessage
  <1> DEFINE m == rxq[1]
  <1>2. /\ handler = Rest /\ DOMAIN stids = inuse /\ Head(rxq) = m
        /\ UNCHANGED <<call, stids, inuse, lreqs, servers, child, fatal>>
        /\ m \in RxMessages /\ m.stid \in Stids /\ m.l \in ListenEps
        /\ m.op \in Replies \cup {"accept"} /\ (m.op = "accept" => m.t \in Children)
        /\ 1 \in 1 .. Len(rxq)
    BY <1>t, <1>1, RxFields DEF TakeMessage, LsnTypeOK, serverVars
  <1>i. \A i \in 1 .. Len(rxq') : /\ i + 1 \in 1 .. Len(rxq) /\ i + 1 # 1
                                  /\ rxq'[i] = rxq[i + 1]
    BY <1>1
  <1>k. Kids' = Kids /\ CallHolds' = CallHolds
    BY <1>2 DEF Kids, CallHolds
  <1>s. /\ \A i \in 1 .. Len(rxq') : rxq'[i].op = "accept" => child[rxq'[i].t].at = "syn"
        /\ \A i, j \in 1 .. Len(rxq') :
             rxq'[i].op = "accept" /\ rxq'[j].op = "accept" /\ rxq'[i].t = rxq'[j].t => i = j
        /\ m.op = "accept" =>
             /\ child[m.t].at = "syn"
             /\ \A i \in 1 .. Len(rxq') : rxq'[i].op = "accept" => rxq'[i].t # m.t
    <2>1. \A i \in 1 .. Len(rxq') : rxq'[i].op = "accept" => child[rxq'[i].t].at = "syn"
      BY <1>t, <1>i DEF SynOK
    <2>2. ASSUME NEW i \in 1 .. Len(rxq'), NEW j \in 1 .. Len(rxq'),
                 rxq'[i].op = "accept", rxq'[j].op = "accept", rxq'[i].t = rxq'[j].t
          PROVE  i = j
      <3>1. i + 1 = j + 1
        BY <1>t, <1>i, <2>2 DEF SynOK
      <3> QED BY <3>1
    <2>3. m.op = "accept" =>
             /\ child[m.t].at = "syn"
             /\ \A i \in 1 .. Len(rxq') : rxq'[i].op = "accept" => rxq'[i].t # m.t
      BY <1>t, <1>2, <1>i DEF SynOK
    <2> QED BY <2>1, <2>2, <2>3
  <1> HIDE DEF m
  <1>3. CASE m.stid \in inuse
    <2> DEFINE l == stids[m.stid]
    <2>1. PICK h : h = [msg |-> m, op |-> m.op, l |-> l] OBVIOUS
    <2>2. l \in ListenEps
      BY <1>t, <1>3 DEF LsnTypeOK
    <2>3. /\ h \in HandlerStates /\ h.op = m.op /\ h.l = l /\ h.msg = m /\ h # Rest
      BY <1>2, <2>1, <2>2 DEF HandlerStates, Replies, Accepts, Rest
    <2>4. handler' = h /\ lep' = [lep EXCEPT ![l].ref = @ + 1]
      BY <1>2, <1>3, <2>1 DEF TakeMessage
    <2>5. PICK e : e = [lep[l] EXCEPT !.ref = @ + 1] OBVIOUS
    <2>6. lep[l] \in LepRecords
      BY <1>t, <2>2 DEF LsnTypeOK
    <2>7. /\ e \in LepRecords /\ e.ref = lep[l].ref + 1
          /\ e.state = lep[l].state /\ e.stid = lep[l].stid /\ e.ret = lep[l].ret
          /\ (e.cm <=> lep[l].cm) /\ (e.done <=> lep[l].done)
      BY <2>5, <2>6, RefGain
    <2>8. lep' = [lep EXCEPT ![l] = e]
      BY <2>4, <2>5
    <2> HIDE DEF l
    <2>9. /\ SameButRefs /\ lep'[l].ref = lep[l].ref + 1
          /\ \A k \in ListenEps : k # l => lep'[k].ref = lep[k].ref
      BY <1>t, <1>2, <2>2, <2>7, <2>8, RefChange
    <2>10. LsnTypeOK'
      BY <1>t, <1>1, <1>2, <2>3, <2>4, <2>9 DEF LsnTypeOK, SameButRefs
    <2>11. /\ TablesOK' /\ LifeOK' /\ Served' = Served /\ Asked' = Asked
           /\ OpenWaits' = OpenWaits /\ CloseWaits' = CloseWaits
           /\ ServersOK => ServersOK'
           /\ RequestsOK => RequestsOK'
           /\ CallsOK => CallsOK'
      BY <1>t, <2>9, SameButRefsFacts
    <2>12. SynOK'
      <3>1. handler'.op \in Accepts => m.op = "accept"
        BY <1>2, <2>3, <2>4 DEF Replies, Accepts
      <3> QED BY <1>2, <1>s, <2>3, <2>4, <3>1 DEF SynOK
    <2>13. RefsOK'
      <3>1. \A k \in ListenEps : WorkerHolds'[k] = IF k = l THEN 1 ELSE 0
        BY <2>3, <2>4 DEF WorkerHolds
      <3>2. \A k \in ListenEps : WorkerHolds[k] = 0
        BY <1>2, Resting
      <3>3. \A k \in ListenEps : /\ lep[k].ref = CallHolds[k] + WorkerHolds[k] + Cardinality(Kids[k])
                                 /\ CallHolds[k] \in Nat /\ Cardinality(Kids[k]) \in Nat
        BY <1>t, KidsFinite DEF RefsOK, CallHolds
      <3>4. ASSUME NEW k \in ListenEps
            PROVE  lep'[k].ref = CallHolds'[k] + WorkerHolds'[k] + Cardinality(Kids'[k])
        <4>1. CASE k = l
          BY <1>k, <2>9, <3>1, <3>2, <3>3, <4>1
        <4>2. CASE k # l
          BY <1>k, <2>9, <3>1, <3>2, <3>3, <4>2
        <4> QED BY <4>1, <4>2
      <3> QED BY <3>4 DEF RefsOK
    <2>14. ASSUME ~fatal PROVE InTime'
      <3>0. InTime BY <2>14 DEF LsnInv
      <3>1. l = m.l
        BY <1>2, <3>0 DEF InTime, RepliesOK, l, m
      <3>2. ASSUME NEW i \in 0 .. Len(rxq')
            PROVE  ClosedAfter[i + 1] \subseteq ClosedAfter'[i]
        <4> SUFFICES ASSUME NEW k \in ClosedAfter[i + 1] PROVE k \in ClosedAfter'[i]
          OBVIOUS
        <4>1. i \in Nat /\ i + 1 \in Nat
          OBVIOUS
        <4>2. PICK j \in i + 1 + 1 .. Len(rxq) : rxq[j].op = "closed" /\ rxq[j].l = k
          BY <4>1 DEF ClosedAfter
        <4>3. j - 1 \in i + 1 .. Len(rxq') /\ rxq'[j - 1] = rxq[(j - 1) + 1] /\ (j - 1) + 1 = j
          BY <1>1, <4>1, <4>2
        <4>4. k \in ListenEps
          BY <4>1 DEF ClosedAfter
        <4> QED BY <4>1, <4>2, <4>3, <4>4 DEF ClosedAfter
      <3>3. RepliesOK'
        <4>1. ASSUME NEW i \in 1 .. Len(rxq')
              PROVE  /\ rxq'[i].stid \in inuse /\ stids[rxq'[i].stid] = rxq'[i].l
                     /\ rxq'[i].op # "accept" => ReplyOK(rxq'[i].op, rxq'[i].l)
                     /\ rxq'[i].op = "accept" => rxq'[i].l \in Served \cup ClosedAfter'[i]
          <5>1. ClosedAfter[i + 1] \subseteq ClosedAfter'[i]
            BY <1>1, <3>2
          <5> QED BY <1>i, <3>0, <5>1 DEF InTime, RepliesOK
        <4>2. ASSUME NEW i \in 1 .. Len(rxq'), NEW j \in 1 .. Len(rxq'),
                     rxq'[i].op # "accept", rxq'[j].op # "accept", rxq'[i].l = rxq'[j].l
              PROVE  i = j
          <5>1. i + 1 = j + 1
            BY <1>i, <3>0, <4>2 DEF InTime, RepliesOK
          <5> QED BY <5>1
        <4> QED BY <1>2, <2>11, <4>1, <4>2 DEF RepliesOK, ReplyOK
      <3>4. HandlerOK'
        <4>1. /\ m.stid \in inuse /\ stids[m.stid] = m.l
              /\ m.op # "accept" => ReplyOK(m.op, m.l)
              /\ m.op = "accept" => m.l \in Served \cup ClosedAfter[1]
              /\ \A i \in 1 .. Len(rxq') :
                   m.op # "accept" /\ rxq'[i].op # "accept" => rxq'[i].l # m.l
          BY <1>2, <1>i, <3>0 DEF InTime, RepliesOK, m
        <4>2. ClosedAfter[1] \subseteq ClosedAfter'[0]
          <5>1. 0 \in 0 .. Len(rxq') /\ 0 + 1 = 1
            BY <1>1
          <5> QED BY <3>2, <5>1
        <4>3. m.op \in Accepts <=> m.op = "accept"
          BY <1>2 DEF Replies, Accepts
        <4> QED BY <1>2, <2>3, <2>4, <2>11, <3>1, <4>1, <4>2, <4>3 DEF HandlerOK, ReplyOK
      <3>5. KidsOK'
        BY <1>t, <1>2, <2>9, <2>11, <3>0, ChildFields DEF InTime, KidsOK, SameButRefs
      <3> QED BY <2>11, <3>0, <3>3, <3>4, <3>5 DEF InTime
    <2> QED BY <1>2, <2>10, <2>11, <2>12, <2>13, <2>14 DEF LsnInv
  <1>4. CASE m.stid \notin inuse
    <2>1. UNCHANGED <<handler, lep>>
      BY <1>2, <1>4 DEF TakeMessage
    <2>2. LsnTypeOK'
      BY <1>t, <1>1, <1>2, <2>1 DEF LsnTypeOK
    <2>3. TablesOK' /\ LifeOK'
      BY <1>t, <1>2, <2>1 DEF TablesOK, LifeOK
    <2>4. SynOK'
      BY <1>2, <1>s, <2>1, Resting DEF SynOK
    <2>5. RefsOK'
      <3>1. WorkerHolds' = WorkerHolds
        BY <2>1 DEF WorkerHolds
      <3> QED BY <1>t, <1>k, <2>1, <3>1 DEF RefsOK
    <2>6. fatal
      BY <1>2, <1>4 DEF LsnInv, InTime, RepliesOK, m
    <2> QED BY <1>2, <2>2, <2>3, <2>4, <2>5, <2>6 DEF LsnInv
  <1> QED BY <1>3, <1>4

(* The worker puts the endpoint, or hands its reference to a child. *)
LEMMA WorkEndsRefs ==
  ASSUME LsnTypeOK, RefsOK, handler # Rest, handler' = Rest, Kids' = Kids,
         CallHolds' = CallHolds, lep'[handler.l].ref = lep[handler.l].ref - 1,
         \A k \in ListenEps : k # handler.l => lep'[k].ref = lep[k].ref
  PROVE  RefsOK'
  <1>1. \A k \in ListenEps : WorkerHolds'[k] = 0
    BY DEF WorkerHolds
  <1>2. \A k \in ListenEps : WorkerHolds[k] = IF k = handler.l THEN 1 ELSE 0
    BY DEF WorkerHolds
  <1>3. \A k \in ListenEps : /\ lep[k].ref = CallHolds[k] + WorkerHolds[k] + Cardinality(Kids[k])
                             /\ CallHolds[k] \in Nat /\ Cardinality(Kids[k]) \in Nat
    BY KidsFinite DEF RefsOK, CallHolds
  <1>4. ASSUME NEW k \in ListenEps
        PROVE  lep'[k].ref = CallHolds'[k] + WorkerHolds'[k] + Cardinality(Kids'[k])
    <2>1. CASE k = handler.l
      BY <1>1, <1>2, <1>3, <2>1
    <2>2. CASE k # handler.l
      BY <1>1, <1>2, <1>3, <2>2
    <2> QED BY <2>1, <2>2
  <1> QED BY <1>4 DEF RefsOK

LEMMA RestFacts ==
  ASSUME handler' = Rest, UNCHANGED <<rxq, child>>, SynOK
  PROVE  /\ SynOK' /\ HandlerOK' /\ Kids' = Kids /\ ClosedAfter' = ClosedAfter
  <1>1. Rest.op \notin Accepts
    BY DEF Rest, Accepts
  <1> QED BY <1>1 DEF SynOK, HandlerOK, Kids, ClosedAfter

(* The worker puts the endpoint and does no more. *)
LEMMA WorkerPuts ==
  ASSUME LsnInv, handler # Rest, handler' = Rest,
         lep' = [lep EXCEPT ![handler.l] = PutEp(@)],
         UNCHANGED <<call, stids, inuse, lreqs, servers, rxq, child, fatal>>
  PROVE  LsnInv'
  <1>t. LsnTypeOK /\ TablesOK /\ LifeOK /\ SynOK /\ RefsOK BY DEF LsnInv
  <1>0. handler.l \in ListenEps
    BY <1>t, HandlerFields
  <1>1. /\ SameButRefs /\ lep'[handler.l].ref = lep[handler.l].ref - 1
        /\ \A k \in ListenEps : k # handler.l => lep'[k].ref = lep[k].ref
    BY <1>t, <1>0, PutOne
  <1>2. /\ TablesOK' /\ LifeOK' /\ CallHolds' = CallHolds
        /\ Served' = Served /\ Asked' = Asked
        /\ OpenWaits' = OpenWaits /\ CloseWaits' = CloseWaits
        /\ ServersOK => ServersOK'
        /\ RequestsOK => RequestsOK'
        /\ CallsOK => CallsOK'
    BY <1>t, <1>1, SameButRefsFacts
  <1>3. SynOK' /\ HandlerOK' /\ Kids' = Kids /\ ClosedAfter' = ClosedAfter
    BY <1>t, RestFacts
  <1>4. LsnTypeOK'
    BY <1>t, <1>1 DEF LsnTypeOK, SameButRefs, HandlerStates
  <1>5. RefsOK'
    BY <1>t, <1>1, <1>2, <1>3, WorkEndsRefs
  <1>6. ASSUME ~fatal PROVE InTime'
    <2>0. InTime BY <1>6 DEF LsnInv
    <2>1. RepliesOK'
      BY <1>2, <1>3, <2>0 DEF InTime, RepliesOK, ReplyOK
    <2>2. KidsOK'
      BY <1>t, <1>1, <1>2, <2>0, ChildFields DEF InTime, KidsOK, SameButRefs
    <2> QED BY <1>2, <1>3, <2>0, <2>1, <2>2 DEF InTime
  <1> QED BY <1>2, <1>3, <1>4, <1>5, <1>6 DEF LsnInv

LEMMA ServerReplyStep ==
  ASSUME LsnInv, ServerReply
  PROVE  LsnInv'
  <1>t. LsnTypeOK /\ TablesOK /\ LifeOK /\ SynOK /\ RefsOK BY DEF LsnInv
  <1> DEFINE l == handler.l
             r == IF handler.op = "refused" THEN "error" ELSE "0"
  <1>0. /\ handler.op \in Replies /\ handler.op \notin Accepts /\ handler # Rest
        /\ l \in ListenEps /\ handler' = Rest
        /\ UNCHANGED <<call, stids, inuse, lreqs, servers, rxq, child, fatal>>
        /\ lep[l] \in LepRecords /\ r \in {"0", "error"}
    <2>1. handler.op \in Replies /\ handler.op \notin Accepts /\ handler.op # "idle"
      BY DEF ServerReply, Replies, Accepts
    <2> QED BY <1>t, <2>1, HandlerFields DEF ServerReply, WorkEnds, serverVars, LsnTypeOK
  <1>1. PICK e : e = PutEp([lep[l] EXCEPT !.done = TRUE, !.ret = r]) OBVIOUS
  <1>2. /\ e \in LepRecords /\ e.ref = lep[l].ref - 1 /\ e.state = lep[l].state
        /\ e.stid = lep[l].stid /\ e.ret = r /\ (e.cm <=> lep[l].cm) /\ e.done
    BY <1>0, <1>1, AnsweredFields
  <1>3. lep' = [lep EXCEPT ![l] = e]
    BY <1>1 DEF ServerReply
  <1>4. /\ lep'[l] = e /\ lep' \in [ListenEps -> LepRecords]
        /\ \A k \in ListenEps : k # l => lep'[k] = lep[k]
    BY <1>t, <1>0, <1>2, <1>3 DEF LsnTypeOK
  <1>5. SynOK' /\ HandlerOK' /\ Kids' = Kids /\ ClosedAfter' = ClosedAfter
    BY <1>t, <1>0, RestFacts
  <1>6. LsnTypeOK'
    BY <1>t, <1>0, <1>4 DEF LsnTypeOK, HandlerStates
  <1>f. \A k \in ListenEps : /\ lep'[k].stid = lep[k].stid /\ lep'[k].state = lep[k].state
                             /\ (lep'[k].cm <=> lep[k].cm)
    BY <1>2, <1>4
  <1>7. TablesOK' /\ LifeOK'
    BY <1>t, <1>0, <1>f DEF LsnTypeOK, TablesOK, LifeOK
  <1>8. RefsOK'
    <2>1. CallHolds' = CallHolds
      BY <1>0 DEF CallHolds
    <2>2. lep'[l].ref = lep[l].ref - 1
      BY <1>2, <1>4
    <2> QED BY <1>t, <1>0, <1>4, <1>5, <2>1, <2>2, WorkEndsRefs
  <1>9. ASSUME ~fatal PROVE InTime'
    <2>0. InTime BY <1>9 DEF LsnInv
    <2>1. /\ ReplyOK(handler.op, l)
          /\ \A j \in 1 .. Len(rxq) : rxq[j].l = l => rxq[j].op = "accept"
      BY <1>0, <2>0 DEF InTime, HandlerOK
    <2>2. Served' = Served /\ Asked' = Asked
      BY <1>0, <1>f DEF Served, Asked
    <2>3. \A k \in ListenEps : k # l => /\ k \in OpenWaits' <=> k \in OpenWaits
                                        /\ k \in CloseWaits' <=> k \in CloseWaits
      BY <1>0, <1>4 DEF OpenWaits, CloseWaits
    <2>4. ServersOK'
      BY <1>0, <2>0 DEF InTime, ServersOK
    <2>5. RequestsOK'
      <3>1. \A i \in 1 .. Len(lreqs) : lreqs[i].l \in ListenEps /\ lreqs[i].l # l
        BY <1>t, <1>0, <2>1, QueueTypes DEF ReplyOK, Asked, Requests
      <3> QED BY <1>0, <2>0, <2>2, <2>3, <3>1 DEF InTime, RequestsOK
    <2>6. RepliesOK'
      <3>1. \A i \in 1 .. Len(rxq) : rxq[i].op # "accept" =>
               rxq[i].l \in ListenEps /\ rxq[i].l # l
        BY <1>t, <2>1, QueueTypes, RxFields
      <3> QED BY <1>0, <1>5, <2>0, <2>2, <2>3, <3>1 DEF InTime, RepliesOK, ReplyOK
    <2>7. CallsOK'
      <3> SUFFICES ASSUME NEW k \in ListenEps
                   PROVE  /\ call[k] = "listening" => k \in Served
                          /\ call[k] \in {"open_done", "close_done"} => lep'[k].done
                          /\ lep'[k].done /\ call[k] \in Opening \cup {"open_done"} =>
                               (k \in Served <=> lep'[k].ret = "0")
                          /\ lep'[k].done /\ call[k] \in Closing \cup {"close_done"} =>
                               k \notin Served
        BY <1>0, <2>2 DEF CallsOK
      <3>1. CASE k # l
        BY <1>4, <2>0, <3>1 DEF InTime, CallsOK
      <3>2. CASE k = l
        <4>1. CASE handler.op = "closed"
          <5>1. call[k] \in Closing /\ k \notin Served
            BY <2>1, <3>2, <4>1 DEF ReplyOK, CloseWaits
          <5> QED BY <5>1 DEF Closing, Opening
        <4>2. CASE handler.op \in {"opened", "refused"}
          <5>1. call[k] \in Opening /\ (k \in Served <=> handler.op = "opened")
                /\ lep'[k].ret = r
            BY <1>2, <1>4, <2>1, <3>2, <4>2 DEF ReplyOK, OpenWaits
          <5> QED BY <4>2, <5>1 DEF Closing, Opening
        <4> QED BY <1>0, <4>1, <4>2 DEF Replies
      <3> QED BY <3>1, <3>2
    <2>8. KidsOK'
      BY <1>t, <1>0, <1>f, <2>0, <2>2, ChildFields DEF InTime, KidsOK
    <2> QED BY <1>5, <2>4, <2>5, <2>6, <2>7, <2>8 DEF InTime
  <1> QED BY <1>0, <1>5, <1>6, <1>7, <1>8, <1>9 DEF LsnInv

(* pass_accept_req: what the state of the listener decides. *)
LEMMA AcceptLooksStep ==
  ASSUME LsnInv, AcceptLooks
  PROVE  LsnInv'
  <1>t. LsnTypeOK /\ TablesOK /\ LifeOK /\ SynOK /\ RefsOK BY DEF LsnInv
  <1>0. /\ handler.op = "accept" /\ handler # Rest
        /\ handler.l \in ListenEps /\ handler.msg \in RxMessages
        /\ UNCHANGED <<call, stids, inuse, lreqs, servers, rxq, child, fatal>>
    BY <1>t, HandlerFields DEF AcceptLooks, serverVars
  <1>1. CASE lep[handler.l].state = "LISTEN"
    <2>1. lep' = lep /\ handler' = [handler EXCEPT !.op = "accepting"]
      BY <1>1 DEF AcceptLooks
    <2>2. /\ handler' \in HandlerStates /\ handler'.op = "accepting" /\ handler' # Rest
          /\ handler'.l = handler.l /\ handler'.msg = handler.msg
      <3>1. handler \in [op : Replies \cup Accepts, l : ListenEps, msg : RxMessages]
        BY <1>t, <1>0 DEF LsnTypeOK, HandlerStates
      <3>2. /\ handler' \in [op : Replies \cup Accepts, l : ListenEps, msg : RxMessages]
            /\ handler'.op = "accepting" /\ handler'.l = handler.l
            /\ handler'.msg = handler.msg
        BY <2>1, <3>1 DEF Accepts
      <3> QED BY <3>2 DEF HandlerStates, Rest
    <2>3. LsnTypeOK'
      BY <1>t, <1>0, <2>1, <2>2 DEF LsnTypeOK
    <2>4. TablesOK' /\ LifeOK'
      BY <1>t, <1>0, <2>1 DEF TablesOK, LifeOK
    <2>5. handler.op \in Accepts /\ handler'.op \in Accepts
      BY <1>0, <2>2 DEF Accepts
    <2>6. SynOK'
      BY <1>t, <1>0, <2>2, <2>5 DEF SynOK
    <2>7. RefsOK'
      <3>1. Kids' = Kids /\ CallHolds' = CallHolds /\ WorkerHolds' = WorkerHolds
        BY <1>0, <2>2 DEF Kids, CallHolds, WorkerHolds
      <3> QED BY <1>t, <2>1, <3>1 DEF RefsOK
    <2>8. ASSUME ~fatal PROVE InTime'
      <3>0. InTime BY <2>8 DEF LsnInv
      <3>1. /\ Served' = Served /\ Asked' = Asked /\ ClosedAfter' = ClosedAfter
            /\ OpenWaits' = OpenWaits /\ CloseWaits' = CloseWaits
        BY <1>0, <2>1 DEF Served, Asked, ClosedAfter, OpenWaits, CloseWaits
      <3>2. ServersOK' /\ RequestsOK' /\ CallsOK' /\ KidsOK'
        BY <1>0, <2>1, <3>0, <3>1 DEF InTime, ServersOK, RequestsOK, CallsOK, KidsOK
      <3>3. RepliesOK'
        BY <1>0, <2>1, <3>0, <3>1 DEF InTime, RepliesOK, ReplyOK
      <3>4. HandlerOK'
        BY <1>0, <2>1, <2>2, <2>5, <3>0, <3>1 DEF InTime, HandlerOK
      <3> QED BY <3>2, <3>3, <3>4 DEF InTime
    <2> QED BY <1>0, <2>3, <2>4, <2>6, <2>7, <2>8 DEF LsnInv
  <1>2. CASE lep[handler.l].state # "LISTEN"
    BY <1>0, <1>2, WorkerPuts DEF AcceptLooks, WorkEnds
  <1> QED BY <1>1, <1>2

(* pass_accept_req: the child takes over the reference of the worker. *)
LEMMA AcceptStep ==
  ASSUME LsnInv, Accept
  PROVE  LsnInv'
  <1>t. LsnTypeOK /\ TablesOK /\ LifeOK /\ SynOK /\ RefsOK BY DEF LsnInv
  <1> DEFINE l == handler.l
             t == handler.msg.t
  <1>0. /\ handler.op = "accepting" /\ handler # Rest /\ handler' = Rest
        /\ l \in ListenEps /\ handler.msg \in RxMessages
        /\ UNCHANGED <<call, stids, inuse, lreqs, servers, rxq, fatal>>
    <2>1. handler.op = "accepting" /\ handler.op # "idle"
      BY DEF Accept
    <2> QED BY <1>t, <2>1, HandlerFields DEF Accept, WorkEnds, serverVars
  <1>a. handler.op \in Accepts BY <1>0 DEF Accepts
  <1>b. /\ t \in Children /\ child[t].at = "syn"
        /\ \A i \in 1 .. Len(rxq) : rxq[i].op = "accept" => rxq[i].t # t
    BY <1>t, <1>0, <1>a, RxFields DEF SynOK
  <1>1. CASE /\ child' = [child EXCEPT ![t] = [at |-> "connecting", parent |-> l]]
             /\ UNCHANGED lep
    <2>1. /\ child' \in [Children -> ChildRecords] /\ child'[t].at = "connecting"
          /\ child'[t].parent = l /\ \A x \in Children : x # t => child'[x] = child[x]
      BY <1>t, <1>0, <1>1, <1>b DEF LsnTypeOK, ChildRecords, Holding
    <2> HIDE DEF l, t
    <2>2. LsnTypeOK'
      BY <1>t, <1>0, <1>1, <2>1 DEF LsnTypeOK, HandlerStates
    <2>3. TablesOK' /\ LifeOK'
      BY <1>t, <1>0, <1>1 DEF TablesOK, LifeOK
    <2>4. SynOK'
      <3>1. Rest.op \notin Accepts BY DEF Rest, Accepts
      <3>2. ASSUME NEW i \in 1 .. Len(rxq), rxq[i].op = "accept"
            PROVE  child'[rxq[i].t].at = "syn"
        <4>1. rxq[i].t \in Children /\ rxq[i].t # t /\ child[rxq[i].t].at = "syn"
          BY <1>t, <1>b, <3>2, QueueTypes, RxFields DEF SynOK
        <4> QED BY <2>1, <4>1
      <3> QED BY <1>t, <1>0, <3>1, <3>2 DEF SynOK
    <2>5. RefsOK'
      <3>1. /\ \A k \in ListenEps : k # l => Kids'[k] = Kids[k]
            /\ Cardinality(Kids'[l]) = Cardinality(Kids[l]) + 1
        <4>1. child[t].at \notin Holding /\ child'[t].at \in Holding
          BY <1>b, <2>1 DEF Holding
        <4> QED BY <1>0, <1>b, <2>1, <4>1, KidsGain
      <3>2. /\ \A k \in ListenEps : WorkerHolds'[k] = 0
            /\ \A k \in ListenEps : WorkerHolds[k] = IF k = l THEN 1 ELSE 0
            /\ CallHolds' = CallHolds
        BY <1>0 DEF WorkerHolds, CallHolds, l
      <3>3. \A k \in ListenEps :
              /\ lep[k].ref = CallHolds[k] + WorkerHolds[k] + Cardinality(Kids[k])
              /\ CallHolds[k] \in Nat /\ Cardinality(Kids[k]) \in Nat
        BY <1>t, KidsFinite DEF RefsOK, CallHolds
      <3>4. ASSUME NEW k \in ListenEps
            PROVE  lep'[k].ref = CallHolds'[k] + WorkerHolds'[k] + Cardinality(Kids'[k])
        <4>1. CASE k = l
          BY <1>1, <3>1, <3>2, <3>3, <4>1
        <4>2. CASE k # l
          BY <1>1, <3>1, <3>2, <3>3, <4>2
        <4> QED BY <4>1, <4>2
      <3> QED BY <3>4 DEF RefsOK
    <2>6. ASSUME ~fatal PROVE InTime'
      <3>0. InTime BY <2>6 DEF LsnInv
      <3>1. /\ Served' = Served /\ Asked' = Asked /\ ClosedAfter' = ClosedAfter
            /\ OpenWaits' = OpenWaits /\ CloseWaits' = CloseWaits
        BY <1>0, <1>1 DEF Served, Asked, ClosedAfter, OpenWaits, CloseWaits
      <3>2. ServersOK' /\ RequestsOK' /\ CallsOK'
        BY <1>0, <1>1, <3>0, <3>1 DEF InTime, ServersOK, RequestsOK, CallsOK
      <3>3. RepliesOK'
        BY <1>0, <1>1, <3>0, <3>1 DEF InTime, RepliesOK, ReplyOK
      <3>4. HandlerOK'
        BY <1>0 DEF HandlerOK
      <3>5. l \in Served \/ lep[l].state = "DEAD"
        <4>1. l \in Served \cup ClosedAfter[0]
          BY <1>0, <1>a, <3>0 DEF InTime, HandlerOK, l
        <4>2. ASSUME l \in ClosedAfter[0] PROVE lep[l].state = "DEAD"
          <5>1. PICK j \in 0 + 1 .. Len(rxq) : rxq[j].op = "closed" /\ rxq[j].l = l
            BY <4>2 DEF ClosedAfter
          <5>2. j \in 1 .. Len(rxq) OBVIOUS
          <5>3. l \in CloseWaits
            BY <3>0, <5>1, <5>2 DEF InTime, RepliesOK, ReplyOK
          <5> QED BY <1>t, <5>3 DEF CloseWaits, LifeOK
        <4> QED BY <4>1, <4>2
      <3>6. KidsOK'
        <4> SUFFICES ASSUME NEW x \in Children, child'[x].at \in Holding
                     PROVE  lep[child'[x].parent].state = "DEAD" \/ child'[x].parent \in Served
          BY <1>1, <3>1 DEF KidsOK
        <4>1. CASE x = t
          BY <2>1, <3>5, <4>1
        <4>2. CASE x # t
          BY <2>1, <3>0, <4>2 DEF InTime, KidsOK
        <4> QED BY <4>1, <4>2
      <3> QED BY <3>2, <3>3, <3>4, <3>6 DEF InTime
    <2> QED BY <1>0, <2>2, <2>3, <2>4, <2>5, <2>6 DEF LsnInv
  <1>2. CASE lep' = [lep EXCEPT ![l] = PutEp(@)] /\ UNCHANGED child
    BY <1>0, <1>2, WorkerPuts
  <1> QED BY <1>1, <1>2 DEF Accept

(* A child that holds its listener lets it go, ... *)
LEMMA ChildLetsGo ==
  ASSUME LsnInv, NEW t \in Children, NEW l \in ListenEps, handler = Rest,
         child[t].at \in Holding, child[t].parent = l,
         lep' = [lep EXCEPT ![l] = PutEp(@)],
         child' \in [Children -> ChildRecords], child'[t].at \in {"passed_up", "gone"},
         \A x \in Children : x # t => child'[x] = child[x],
         UNCHANGED <<call, stids, inuse, lreqs, servers, rxq, handler, fatal>>
  PROVE  LsnInv'
  <1>t. LsnTypeOK /\ TablesOK /\ LifeOK /\ SynOK /\ RefsOK BY DEF LsnInv
  <1>1. /\ SameButRefs /\ lep'[l].ref = lep[l].ref - 1
        /\ \A k \in ListenEps : k # l => lep'[k].ref = lep[k].ref
    BY <1>t, PutOne
  <1>2. /\ TablesOK' /\ LifeOK' /\ CallHolds' = CallHolds
        /\ Served' = Served /\ Asked' = Asked
        /\ OpenWaits' = OpenWaits /\ CloseWaits' = CloseWaits
        /\ ServersOK => ServersOK'
        /\ RequestsOK => RequestsOK'
        /\ CallsOK => CallsOK'
    BY <1>t, <1>1, SameButRefsFacts
  <1>3. LsnTypeOK'
    BY <1>t, <1>1 DEF LsnTypeOK, SameButRefs
  <1>4. SynOK'
    <2>1. ASSUME NEW i \in 1 .. Len(rxq), rxq[i].op = "accept"
          PROVE  child'[rxq[i].t].at = "syn"
      <3>1. rxq[i].t \in Children /\ child[rxq[i].t].at = "syn"
        BY <1>t, <2>1, QueueTypes, RxFields DEF SynOK
      <3>2. rxq[i].t # t
        BY <3>1 DEF Holding
      <3> QED BY <3>1, <3>2
    <2> QED BY <1>t, <2>1, Resting DEF SynOK
  <1>5. RefsOK'
    <2>1. child'[t].at \notin Holding
      BY DEF Holding
    <2>2. /\ \A k \in ListenEps : k # l => Kids'[k] = Kids[k]
          /\ Cardinality(Kids'[l]) = Cardinality(Kids[l]) - 1
      BY <2>1, KidsLose
    <2>3. WorkerHolds' = WorkerHolds
      BY DEF WorkerHolds
    <2>4. \A k \in ListenEps :
            /\ lep[k].ref = CallHolds[k] + WorkerHolds[k] + Cardinality(Kids[k])
            /\ CallHolds[k] \in Nat /\ WorkerHolds[k] \in Nat /\ Cardinality(Kids[k]) \in Nat
      BY <1>t, KidsFinite DEF RefsOK, CallHolds, WorkerHolds
    <2>5. ASSUME NEW k \in ListenEps
          PROVE  lep'[k].ref = CallHolds'[k] + WorkerHolds'[k] + Cardinality(Kids'[k])
      <3>1. CASE k = l
        BY <1>1, <1>2, <2>2, <2>3, <2>4, <3>1
      <3>2. CASE k # l
        BY <1>1, <1>2, <2>2, <2>3, <2>4, <3>2
      <3> QED BY <3>1, <3>2
    <2> QED BY <2>5 DEF RefsOK
  <1>6. ASSUME ~fatal PROVE InTime'
    <2>0. InTime BY <1>6 DEF LsnInv
    <2>1. ClosedAfter' = ClosedAfter
      BY DEF ClosedAfter
    <2>2. RepliesOK'
      BY <1>1, <1>2, <2>0, <2>1 DEF InTime, RepliesOK, ReplyOK, SameButRefs
    <2>3. HandlerOK'
      BY DEF HandlerOK
    <2>4. KidsOK'
      <3> SUFFICES ASSUME NEW x \in Children, child'[x].at \in Holding
                   PROVE  \/ lep'[child'[x].parent].state = "DEAD"
                          \/ child'[x].parent \in Served
        BY <1>2 DEF KidsOK
      <3>1. x # t /\ child'[x] = child[x]
        BY DEF Holding
      <3>2. child[x].parent \in ListenEps
        BY <1>t, <3>1, ChildFields
      <3> QED BY <1>1, <2>0, <3>1, <3>2 DEF InTime, KidsOK, SameButRefs
    <2> QED BY <1>2, <2>0, <2>2, <2>3, <2>4 DEF InTime
  <1> QED BY <1>1, <1>2, <1>3, <1>4, <1>5, <1>6 DEF LsnInv, SameButRefs

(* ... or is left with it. *)
LEMMA OrphanStep ==
  ASSUME LsnInv, NEW t \in Children, handler = Rest, child[t].at = "connecting",
         child' = [child EXCEPT ![t].at = "orphan"],
         UNCHANGED <<lep, call, stids, inuse, lreqs, servers, rxq, handler, fatal>>
  PROVE  LsnInv'
  <1>t. LsnTypeOK /\ TablesOK /\ LifeOK /\ SynOK /\ RefsOK BY DEF LsnInv
  <1>1. /\ child' \in [Children -> ChildRecords] /\ child'[t].at = "orphan"
        /\ child'[t].parent = child[t].parent
        /\ \A x \in Children : x # t => child'[x] = child[x]
    <2>1. child[t] \in [at : Holding \cup {"passed_up"}, parent : ListenEps]
      BY <1>t DEF LsnTypeOK, ChildRecords
    <2>2. PICK c : c = [child[t] EXCEPT !.at = "orphan"] OBVIOUS
    <2>3. c \in ChildRecords /\ c.at = "orphan" /\ c.parent = child[t].parent
      BY <2>1, <2>2 DEF ChildRecords, Holding
    <2>4. child' = [child EXCEPT ![t] = c]
      BY <2>2
    <2> QED BY <1>t, <2>3, <2>4 DEF LsnTypeOK
  <1>2. LsnTypeOK'
    BY <1>t, <1>1 DEF LsnTypeOK
  <1>3. TablesOK' /\ LifeOK'
    BY <1>t DEF TablesOK, LifeOK
  <1>4. SynOK'
    <2>1. ASSUME NEW i \in 1 .. Len(rxq), rxq[i].op = "accept"
          PROVE  child'[rxq[i].t].at = "syn"
      <3>1. rxq[i].t \in Children /\ child[rxq[i].t].at = "syn"
        BY <1>t, <2>1, QueueTypes, RxFields DEF SynOK
      <3> QED BY <1>1, <3>1
    <2> QED BY <1>t, <2>1, Resting DEF SynOK
  <1>h. \A x \in Children : /\ child'[x].at \in Holding <=> child[x].at \in Holding
                            /\ child[x].at \in Holding => child'[x].parent = child[x].parent
    BY <1>1 DEF Holding
  <1>5. RefsOK'
    <2>1. Kids' = Kids
      BY <1>h, KidsSame
    <2>2. CallHolds' = CallHolds /\ WorkerHolds' = WorkerHolds
      BY DEF CallHolds, WorkerHolds
    <2> QED BY <1>t, <2>1, <2>2 DEF RefsOK
  <1>6. ASSUME ~fatal PROVE InTime'
    <2>0. InTime BY <1>6 DEF LsnInv
    <2>1. /\ Served' = Served /\ Asked' = Asked /\ ClosedAfter' = ClosedAfter
          /\ OpenWaits' = OpenWaits /\ CloseWaits' = CloseWaits
      BY DEF Served, Asked, ClosedAfter, OpenWaits, CloseWaits
    <2>2. ServersOK' /\ RequestsOK' /\ CallsOK'
      BY <2>0, <2>1 DEF InTime, ServersOK, RequestsOK, CallsOK
    <2>3. RepliesOK'
      BY <2>0, <2>1 DEF InTime, RepliesOK, ReplyOK
    <2>4. HandlerOK'
      BY DEF HandlerOK
    <2>5. KidsOK'
      BY <1>h, <2>0, <2>1 DEF InTime, KidsOK
    <2> QED BY <2>2, <2>3, <2>4, <2>5 DEF InTime
  <1> QED BY <1>2, <1>3, <1>4, <1>5, <1>6 DEF LsnInv

LEMMA ConnectRequestStep ==
  ASSUME LsnInv, NEW t \in Children, ConnectRequest(t)
  PROVE  LsnInv'
  <1>t. LsnTypeOK BY DEF LsnInv
  <1> DEFINE l == child[t].parent
  <1>0. /\ handler = Rest /\ child[t].at = "connecting" /\ child[t].at \in Holding
        /\ l \in ListenEps
        /\ UNCHANGED <<call, stids, inuse, lreqs, servers, rxq, handler, fatal>>
    BY <1>t, ChildFields DEF ConnectRequest, serverVars, Holding
  <1>1. CASE lep[l].state # "DEAD"
    <2>1. /\ child' = [child EXCEPT ![t] = [at |-> "passed_up", parent |-> l]]
          /\ lep' = [lep EXCEPT ![l] = PutEp(@)]
      BY <1>1 DEF ConnectRequest
    <2>2. /\ child' \in [Children -> ChildRecords] /\ child'[t].at \in {"passed_up", "gone"}
          /\ \A x \in Children : x # t => child'[x] = child[x]
      BY <1>t, <1>0, <2>1 DEF LsnTypeOK, ChildRecords, Holding
    <2> QED BY <1>0, <2>1, <2>2, ChildLetsGo
  <1>2. CASE lep[l].state = "DEAD"
    BY <1>0, <1>2, OrphanStep DEF ConnectRequest
  <1> QED BY <1>1, <1>2

LEMMA ChildEndsStep ==
  ASSUME LsnInv, NEW t \in Children, ChildEnds(t)
  PROVE  LsnInv'
  <1>t. LsnTypeOK BY DEF LsnInv
  <1>0. /\ handler = Rest /\ child[t].at \in Holding /\ child[t].parent \in ListenEps
        /\ lep' = [lep EXCEPT ![child[t].parent] = PutEp(@)]
        /\ UNCHANGED <<call, stids, inuse, lreqs, servers, rxq, handler, fatal>>
    BY <1>t, ChildFields DEF ChildEnds, serverVars, Holding
  <1>1. /\ child' \in [Children -> ChildRecords] /\ child'[t].at \in {"passed_up", "gone"}
        /\ \A x \in Children : x # t => child'[x] = child[x]
    BY <1>t DEF ChildEnds, LsnTypeOK, ChildRecords
  <1> QED BY <1>0, <1>1, ChildLetsGo

(***************************************************************************)
(* The calls once more                                                     *)
(***************************************************************************)
LEMMA OpenServerStep ==
  ASSUME LsnInv, NEW l \in ListenEps, OpenServer(l)
  PROVE  LsnInv'
  <1>t. LsnTypeOK BY DEF LsnInv
  <1>1. PICK s \in Stids \ inuse : s = LowestFreeStid
    BY <1>t, FreeStid DEF OpenServer
  <1>2. call[l] = "alloc" /\ UNCHANGED <<servers, rxq, handler, child, fatal>>
    BY DEF OpenServer
  <1>3. CASE /\ lep' = [lep EXCEPT ![l] = [NoReply(@) EXCEPT !.state = "LISTEN", !.stid = s]]
             /\ stids' = Add(stids, s, l) /\ inuse' = inuse \cup {s}
             /\ lreqs' = Append(lreqs, [op |-> "open", stid |-> s, l |-> l])
             /\ call' = [call EXCEPT ![l] = "opened"]
    BY <1>2, <1>3, OpenSentStep
  <1>4. CASE /\ lep' = [lep EXCEPT ![l] = LetGo([@ EXCEPT !.state = "LISTEN", !.stid = s])]
             /\ call' = [call EXCEPT ![l] = "none"]
             /\ UNCHANGED <<stids, inuse, lreqs>>
    <2>0. s \in Nat /\ lep[l] \in LepRecords
      BY <1>t, ListenerAssumption DEF LsnTypeOK
    <2>1. PICK d : d = [lep[l] EXCEPT !.state = "LISTEN", !.stid = s] OBVIOUS
    <2>2. d \in LepRecords /\ d.ref = lep[l].ref
      BY <2>0, <2>1, ListenFields
    <2>3. PICK e : e = LetGo(d) OBVIOUS
    <2>4. e \in LepRecords /\ e.ref = lep[l].ref - 1 /\ ~e.cm
      BY <2>2, <2>3, LetGoFields
    <2>5. lep' = [lep EXCEPT ![l] = e]
      BY <1>4, <2>1, <2>3
    <2>6. Leaves(l)
      BY <1>t, <1>2, <1>4, <2>4, <2>5 DEF Leaves, CallStep, LsnTypeOK, Calls
    <2> QED BY <2>6, LeavesStep
  <1> QED BY <1>1, <1>3, <1>4 DEF OpenServer, CallAt

LEMMA DestroyListenStep ==
  ASSUME LsnInv, "unremoved" \notin Trouble, NEW l \in ListenEps, DestroyListen(l)
  PROVE  LsnInv'
  BY CloseSentStep DEF DestroyListen, CallAt

(***************************************************************************)
(* The invariant                                                           *)
(***************************************************************************)
LEMMA LsnInvInit ==
  ASSUME LsnInit
  PROVE  LsnInv
  <1>1. Rest.op \notin Accepts BY DEF Rest, Accepts
  <1>2. LsnTypeOK
    <2>1. Nobody \in LepRecords
      BY DEF Nobody, LepRecords
    <2>2. \A t \in Children : child[t] \in ChildRecords
      BY DEF LsnInit, ChildRecords
    <2> QED BY <2>1, <2>2 DEF LsnInit, LsnTypeOK, Calls, InTables, HandlerStates
  <1>3. TablesOK /\ LifeOK /\ SynOK
    BY <1>1 DEF LsnInit, TablesOK, LifeOK, SynOK, InTables, Opening, Closing, Nobody
  <1>4. RefsOK
    <2>1. \A l \in ListenEps : CallHolds[l] = 0 /\ WorkerHolds[l] = 0 /\ lep[l].ref = 0
      BY DEF LsnInit, CallHolds, WorkerHolds, Nobody
    <2>2. \A l \in ListenEps : Kids[l] = {}
      BY DEF LsnInit, Kids, Holding
    <2> QED BY <2>1, <2>2, FS_EmptySet DEF RefsOK
  <1>5. InTime
    BY DEF LsnInit, InTime, ServersOK, RequestsOK, RepliesOK, HandlerOK, CallsOK, KidsOK,
           Nobody, Opening, Closing, Holding
  <1> QED BY <1>2, <1>3, <1>4, <1>5 DEF LsnInv

LEMMA LsnInvStutter ==
  ASSUME LsnInv, UNCHANGED lepVars
  PROVE  LsnInv'
  <1>0. UNCHANGED <<lep, call, stids, inuse, lreqs, servers, rxq, handler, child, fatal>>
    BY DEF lepVars
  <1>1. /\ Served' = Served /\ Asked' = Asked /\ ClosedAfter' = ClosedAfter
        /\ OpenWaits' = OpenWaits /\ CloseWaits' = CloseWaits /\ Kids' = Kids
        /\ CallHolds' = CallHolds /\ WorkerHolds' = WorkerHolds
    BY <1>0 DEF Served, Asked, ClosedAfter, OpenWaits, CloseWaits, Kids, CallHolds, WorkerHolds
  <1>2. LsnTypeOK' /\ TablesOK' /\ LifeOK'
    BY <1>0 DEF LsnInv, LsnTypeOK, TablesOK, LifeOK
  <1>3. SynOK' /\ RefsOK'
    BY <1>0, <1>1 DEF LsnInv, SynOK, RefsOK
  <1>4. ASSUME ~fatal PROVE InTime'
    <2>0. InTime BY <1>4 DEF LsnInv
    <2>1. ServersOK' /\ RequestsOK' /\ CallsOK' /\ KidsOK'
      BY <1>0, <1>1, <2>0 DEF InTime, ServersOK, RequestsOK, CallsOK, KidsOK
    <2>2. RepliesOK' /\ HandlerOK'
      BY <1>0, <1>1, <2>0 DEF InTime, RepliesOK, HandlerOK, ReplyOK
    <2> QED BY <2>1, <2>2 DEF InTime
  <1> QED BY <1>0, <1>2, <1>3, <1>4 DEF LsnInv

LEMMA LsnInvStep ==
  ASSUME LsnInv, "unremoved" \notin Trouble, [LsnNext]_lepVars
  PROVE  LsnInv'
  <1>1. ASSUME NEW l \in ListenEps, AllocListener(l) PROVE LsnInv'
    BY <1>1, AllocListenerStep
  <1>2. ASSUME NEW l \in ListenEps, NoStid(l) PROVE LsnInv'
    BY <1>2, NoStidLeaves, LeavesStep
  <1>3. ASSUME NEW l \in ListenEps, OpenServer(l) PROVE LsnInv'
    BY <1>3, OpenServerStep
  <1>4. ASSUME NEW l \in ListenEps, EnterWait(l) PROVE LsnInv'
    BY <1>4, EnterWaitStep
  <1>5. ASSUME NEW l \in ListenEps, Awake(l) PROVE LsnInv'
    BY <1>5, AwakeStep
  <1>6. ASSUME NEW l \in ListenEps, TimeOut(l) PROVE LsnInv'
    BY <1>6, TimeOutStep
  <1>7. ASSUME NEW l \in ListenEps, CreateReturns(l) PROVE LsnInv'
    BY <1>7, CreateReturnsStep
  <1>8. ASSUME NEW l \in ListenEps, DestroyListen(l) PROVE LsnInv'
    BY <1>8, DestroyListenStep
  <1>9. ASSUME NEW l \in ListenEps, DestroyReturns(l) PROVE LsnInv'
    BY <1>9, DestroyReturnsStep
  <1>10. CASE HwOpen BY <1>10, HwOpenStep
  <1>11. CASE HwClose BY <1>11, HwCloseStep
  <1>12. CASE TakeMessage BY <1>12, TakeMessageStep
  <1>13. CASE ServerReply BY <1>13, ServerReplyStep
  <1>14. CASE AcceptLooks BY <1>14, AcceptLooksStep
  <1>15. CASE Accept BY <1>15, AcceptStep
  <1>16. ASSUME NEW t \in Children, HwSyn(t) PROVE LsnInv'
    BY <1>16, HwSynStep
  <1>17. ASSUME NEW t \in Children, ConnectRequest(t) PROVE LsnInv'
    BY <1>17, ConnectRequestStep
  <1>18. ASSUME NEW t \in Children, ChildEnds(t) PROVE LsnInv'
    BY <1>18, ChildEndsStep
  <1>19. CASE UNCHANGED lepVars BY <1>19, LsnInvStutter
  <1> QED BY <1>1, <1>2, <1>3, <1>4, <1>5, <1>6, <1>7, <1>8, <1>9, <1>10, <1>11, <1>12,
             <1>13, <1>14, <1>15, <1>16, <1>17, <1>18, <1>19 DEF LsnNext

(* The invariant says of the references and of the tables what EndpointsHeld *)
(* says, ...                                                               *)
LEMMA LsnInvHeld ==
  ASSUME LsnInv
  PROVE  EndpointsHeld
  <1>1. ASSUME NEW l \in ListenEps PROVE lep[l].ref = Holders(l)
    <2>1. Kids[l] = {t \in Children : /\ child[t].at \in {"connecting", "orphan"}
                                      /\ child[t].parent = l}
      BY DEF Kids, Holding
    <2>2. lep[l].ref = CallHolds[l] + WorkerHolds[l] + Cardinality(Kids[l])
      BY DEF LsnInv, RefsOK
    <2> QED BY <2>1, <2>2 DEF Holders, CallHolds, WorkerHolds
  <1>2. ASSUME NEW s \in DOMAIN stids
        PROVE  call[stids[s]] # "none" /\ s \in inuse /\ lep[stids[s]].stid = s
    <2>1. s \in inuse
      BY DEF LsnInv, LsnTypeOK
    <2> QED BY <2>1 DEF LsnInv, TablesOK, InTables, Opening, Closing
  <1> QED BY <1>1, <1>2 DEF EndpointsHeld

(* ... and of the messages and of the servers what ListenersApart says. *)
LEMMA LsnInvApart ==
  ASSUME LsnInv
  PROVE  ListenersApart
  <1> SUFFICES ASSUME ~fatal PROVE CmIdThere /\ MessagesReachTheirs /\ AnswersTrue
    BY DEF ListenersApart
  <1>t. LsnTypeOK /\ TablesOK /\ LifeOK /\ InTime /\ DOMAIN stids = inuse
    BY DEF LsnInv, LsnTypeOK
  <1>s. ASSUME NEW l \in ListenEps, l \in Served PROVE lep[l].cm
    <2>1. lep[l].stid \in inuse /\ stids[lep[l].stid] = l
      BY <1>t, <1>s DEF Served, InTime, ServersOK
    <2>2. call[l] # "none"
      BY <1>t, <2>1 DEF TablesOK, InTables, Opening, Closing
    <2> QED BY <1>t, <2>2 DEF LifeOK
  <1>1. CmIdThere
    <2>1. ASSUME handler.op = "accepting" PROVE lep[handler.l].cm
      <3>1. handler # Rest /\ handler.l \in ListenEps
        BY <1>t, <2>1, HandlerFields
      <3>2. stids[handler.msg.stid] = handler.l /\ handler.msg.stid \in inuse
        BY <1>t, <3>1 DEF InTime, HandlerOK
      <3>3. call[handler.l] # "none"
        BY <1>t, <3>2 DEF TablesOK, InTables, Opening, Closing
      <3> QED BY <1>t, <3>1, <3>3 DEF LifeOK
    <2>2. ASSUME NEW t \in Children, child[t].at = "connecting",
                 lep[child[t].parent].state # "DEAD"
          PROVE  lep[child[t].parent].cm
      <3>1. child[t].at \in Holding /\ child[t].parent \in ListenEps
        BY <1>t, <2>2, ChildFields DEF Holding
      <3>2. child[t].parent \in Served
        BY <1>t, <2>2, <3>1 DEF InTime, KidsOK
      <3> QED BY <1>s, <3>1, <3>2
    <2> QED BY <2>1, <2>2 DEF CmIdThere
  <1>2. MessagesReachTheirs
    BY <1>t DEF MessagesReachTheirs, InTime, RepliesOK, HandlerOK
  <1>3. AnswersTrue
    BY <1>t DEF AnswersTrue, InTime, CallsOK, ServersOK, Served
  <1> QED BY <1>1, <1>2, <1>3

(* c4iw_create_listen and c4iw_destroy_listen, pass_accept_req and the     *)
(* replies: whatever the order in which calls, worker and adapter go, each  *)
(* endpoint has the references of those who use it, and as long as every   *)
(* reply comes in time, no listener is taken for another.  A destruction    *)
(* whose request cannot be sent is left out: it leaves the stid in use for *)
(* good and the table names an endpoint that is gone (a finding of the     *)
(* README).                                                                *)
THEOREM ListenersAlwaysSound ==
  ASSUME "unremoved" \notin Trouble
  PROVE  LsnSpec => []ListenersSound
  <1>1. LsnInit => LsnInv
    BY LsnInvInit
  <1>2. LsnInv /\ [LsnNext]_lepVars => LsnInv'
    BY LsnInvStep
  <1>3. LsnInv => ListenersSound
    BY LsnInvHeld, LsnInvApart DEF ListenersSound
  <1> QED BY <1>1, <1>2, <1>3, PTL DEF LsnSpec

(***************************************************************************)
(* Next hops: chains and choices                                           *)
(***************************************************************************)
(* First picks the least of the entries.                                   *)
LEMMA FirstIsLeast ==
  ASSUME NEW S \in SUBSET Nat, S # {}
  PROVE  First(S) \in S /\ \A f \in S : First(S) <= f
<1>1. \E s \in S : \A f \in S : s <= f
  BY LeastExists, Zenon
<1> QED BY <1>1, Zenon DEF First

(* Taking an entry off a chain takes that entry and no other.              *)
LEMMA TakenOff ==
  ASSUME NEW S, NEW s \in Seq(S), NEW e, IsInjective(s)
  PROVE  /\ RemoveFirst(s, e) \in Seq(S)
         /\ IsInjective(RemoveFirst(s, e))
         /\ ToSet(RemoveFirst(s, e)) = ToSet(s) \ {e}
<1>0. DOMAIN s = 1 .. Len(s) /\ Len(s) \in Nat
  OBVIOUS
<1>1. CASE ~(\E i \in 1 .. Len(s) : s[i] = e)
  <2>1. RemoveFirst(s, e) = s
    BY <1>1, Zenon DEF RemoveFirst
  <2>2. e \notin ToSet(s)
    BY <1>0, <1>1, Zenon DEF ToSet
  <2> QED BY <2>1, <2>2
<1>2. CASE \E i \in 1 .. Len(s) : s[i] = e
  <2>1. PICK i \in 1 .. Len(s) : s[i] = e
    BY <1>2
  <2>2. {j \in 1 .. Len(s) : s[j] = e} = {i}
    BY <1>0, <2>1 DEF IsInjective
  <2>3. SelectInSeq(s, LAMBDA v : v = e) = i
    <3>1. Min({i}) = i
      BY <2>1 DEF Min
    <3>2. {i} # {}
      OBVIOUS
    <3> QED BY <2>2, <3>1, <3>2, Zenon DEF SelectInSeq
  <2> DEFINE a == SubSeq(s, 1, i - 1)
             b == SubSeq(s, i + 1, Len(s))
             r == a \o b
  <2>4. RemoveFirst(s, e) = r
    BY <1>2, <2>3, Zenon DEF RemoveFirst, RemoveAt
  <2>5. /\ a \in Seq(S) /\ Len(a) = i - 1
        /\ \A k \in 1 .. i - 1 : a[k] = s[k]
    <3>1. /\ 1 \in Int /\ i - 1 \in Int /\ (i - 1) - 1 + 1 = i - 1
          /\ \A k \in 1 .. i - 1 : s[k] \in S /\ 1 + k - 1 = k
          /\ (IF 1 <= i - 1 THEN (i - 1) - 1 + 1 ELSE 0) = i - 1
      BY <1>0, <2>1
    <3>2. /\ a \in Seq(S) /\ Len(a) = i - 1
          /\ \A k \in 1 .. i - 1 : a[k] = s[1 + k - 1]
      BY <3>1, SubSeqProperties
    <3> QED BY <3>1, <3>2
  <2>6. /\ b \in Seq(S) /\ Len(b) = Len(s) - i
        /\ \A k \in 1 .. Len(s) - i : b[k] = s[i + k]
    <3>1. /\ i + 1 \in Int /\ Len(s) \in Int /\ Len(s) - (i + 1) + 1 = Len(s) - i
          /\ \A k \in i + 1 .. Len(s) : s[k] \in S
          /\ \A k \in 1 .. Len(s) - i : i + 1 + k - 1 = i + k
          /\ (IF i + 1 <= Len(s) THEN Len(s) - (i + 1) + 1 ELSE 0) = Len(s) - i
      <4>1. i + 1 \in Int /\ Len(s) \in Int /\ Len(s) - (i + 1) + 1 = Len(s) - i
        BY <1>0, <2>1
      <4>2. \A k \in i + 1 .. Len(s) : s[k] \in S
        <5> TAKE k \in i + 1 .. Len(s)
        <5>1. k \in 1 .. Len(s)
          BY <1>0, <2>1
        <5> QED BY <5>1
      <4>3. \A k \in 1 .. Len(s) - i : i + 1 + k - 1 = i + k
        BY <1>0, <2>1
      <4>4. (IF i + 1 <= Len(s) THEN Len(s) - (i + 1) + 1 ELSE 0) = Len(s) - i
        <5>1. i \in Int /\ Len(s) \in Int /\ i <= Len(s)
          BY <1>0, <2>1
        <5>2. CASE i = Len(s)
          BY <5>1, <5>2
        <5>3. CASE i < Len(s)
          <6>1. i + 1 <= Len(s)
            BY <5>1, <5>3
          <6> QED BY <4>1, <6>1
        <5> QED BY <5>1, <5>2, <5>3
      <4> QED BY <4>1, <4>2, <4>3, <4>4
    <3>2. /\ b \in Seq(S)
          /\ Len(b) = IF i + 1 <= Len(s) THEN Len(s) - (i + 1) + 1 ELSE 0
          /\ \A k \in 1 .. Len(s) - (i + 1) + 1 : b[k] = s[i + 1 + k - 1]
      <4> DEFINE m == i + 1
                 n == Len(s)
      <4>1. m \in Int /\ n \in Int /\ \A k \in m .. n : s[k] \in S
        BY <3>1
      <4>2. b = SubSeq(s, m, n)
        OBVIOUS
      <4> HIDE DEF m, n, b
      <4>3. /\ b \in Seq(S)
            /\ Len(b) = IF m <= n THEN n - m + 1 ELSE 0
            /\ \A k \in 1 .. n - m + 1 : b[k] = s[m + k - 1]
        BY <4>1, <4>2, SubSeqProperties
      <4> QED BY <4>3, Zenon DEF m, n
    <3> HIDE DEF b
    <3>3. Len(b) = Len(s) - i
      BY <3>1, <3>2, Zenon
    <3>4. \A k \in 1 .. Len(s) - i : b[k] = s[i + 1 + k - 1]
      BY <3>1, <3>2, Zenon
    <3>5. \A k \in 1 .. Len(s) - i : b[k] = s[i + k]
      BY <3>1, <3>4, Zenon
    <3> QED BY <3>2, <3>3, <3>5
  <2> HIDE DEF a, b
  <2>7. /\ r \in Seq(S) /\ Len(r) = Len(s) - 1 /\ DOMAIN r = 1 .. Len(s) - 1
        /\ \A k \in 1 .. Len(s) - 1 : r[k] = IF k < i THEN a[k] ELSE b[k - i + 1]
    <3>1. /\ r \in Seq(S) /\ Len(r) = Len(s) - 1
          /\ \A k \in 1 .. Len(s) - 1 : r[k] = IF k <= i - 1 THEN a[k] ELSE b[k - (i - 1)]
      <4>1. Len(a) + Len(b) = Len(s) - 1
        BY <1>0, <2>1, <2>5, <2>6
      <4>2. /\ r \in Seq(S) /\ Len(r) = Len(a) + Len(b)
            /\ \A k \in 1 .. Len(a) + Len(b) :
                 r[k] = IF k <= Len(a) THEN a[k] ELSE b[k - Len(a)]
        BY <2>5, <2>6, ConcatProperties, Zenon
      <4> HIDE DEF r
      <4>3. Len(a) = i - 1
        BY <2>5
      <4> QED BY <4>1, <4>2, <4>3
    <3>2. \A k \in 1 .. Len(s) - 1 : (k <= i - 1 <=> k < i) /\ k - (i - 1) = k - i + 1
      BY <1>0, <2>1
    <3>3. DOMAIN r = 1 .. Len(s) - 1
      BY <3>1
    <3> QED BY <3>1, <3>2, <3>3
  <2> HIDE DEF r
  <2>8. \A k \in 1 .. Len(s) - 1 : r[k] = s[IF k < i THEN k ELSE k + 1]
    <3> TAKE k \in 1 .. Len(s) - 1
    <3>1. CASE k < i
      <4>1. k \in 1 .. i - 1
        BY <1>0, <2>1, <3>1
      <4> QED BY <2>5, <2>7, <3>1, <4>1
    <3>2. CASE ~(k < i)
      <4>1. k - i + 1 \in 1 .. Len(s) - i /\ i + (k - i + 1) = k + 1
        BY <1>0, <2>1, <3>2
      <4> QED BY <2>6, <2>7, <3>2, <4>1
    <3> QED BY <3>1, <3>2
  <2>9. IsInjective(r)
    <3> SUFFICES ASSUME NEW k \in 1 .. Len(s) - 1, NEW l \in 1 .. Len(s) - 1, r[k] = r[l]
                 PROVE  k = l
      BY <2>7 DEF IsInjective
    <3> DEFINE p == IF k < i THEN k ELSE k + 1
               q == IF l < i THEN l ELSE l + 1
    <3>1. p \in DOMAIN s /\ q \in DOMAIN s /\ (p = q => k = l)
      BY <1>0, <2>1
    <3>2. s[p] = s[q]
      BY <2>8
    <3> QED BY <3>1, <3>2, Zenon DEF IsInjective
  <2>10. ToSet(r) \subseteq ToSet(s) \ {e}
    <3> SUFFICES ASSUME NEW k \in 1 .. Len(s) - 1 PROVE r[k] \in ToSet(s) \ {e}
      BY <2>7, Zenon DEF ToSet
    <3> DEFINE p == IF k < i THEN k ELSE k + 1
    <3>1. p \in DOMAIN s /\ p # i /\ i \in DOMAIN s
      BY <1>0, <2>1
    <3>2. s[p] # e
      BY <2>1, <3>1, Zenon DEF IsInjective
    <3>3. r[k] = s[p]
      BY <2>8, Zenon
    <3>4. s[p] \in ToSet(s)
      BY <3>1, Zenon DEF ToSet
    <3> QED BY <3>2, <3>3, <3>4
  <2>11. ASSUME NEW k \in 1 .. Len(s), s[k] # e PROVE s[k] \in ToSet(r)
    <3> DEFINE p == IF k < i THEN k ELSE k - 1
    <3>1. p \in 1 .. Len(s) - 1 /\ r[p] = s[k]
      <4>1. k # i
        BY <2>1, <2>11
      <4>2. /\ p \in 1 .. Len(s) - 1
            /\ (IF p < i THEN p ELSE p + 1) = k
        BY <1>0, <2>1, <4>1
      <4> QED BY <2>8, <4>2
    <3> QED BY <2>7, <3>1, Zenon DEF ToSet
  <2>12. ToSet(s) \ {e} \subseteq ToSet(r)
    BY <1>0, <2>11 DEF ToSet
  <2> QED BY <2>4, <2>7, <2>9, <2>10, <2>12
<1> QED BY <1>1, <1>2

(* Putting an entry at the head of a chain adds that entry.                *)
LEMMA PutAhead ==
  ASSUME NEW S, NEW s \in Seq(S), NEW e \in S, IsInjective(s), e \notin ToSet(s)
  PROVE  /\ <<e>> \o s \in Seq(S)
         /\ IsInjective(<<e>> \o s)
         /\ ToSet(<<e>> \o s) = ToSet(s) \cup {e}
<1> DEFINE r == <<e>> \o s
<1>0. DOMAIN s = 1 .. Len(s) /\ Len(s) \in Nat
  OBVIOUS
<1>1. /\ r \in Seq(S) /\ DOMAIN r = 1 .. Len(s) + 1 /\ r[1] = e
      /\ \A k \in 1 .. Len(s) : r[k + 1] = s[k]
  BY <1>0
<1> HIDE DEF r
<1>2. \A k \in 2 .. Len(s) + 1 : k - 1 \in 1 .. Len(s) /\ r[k] = s[k - 1]
  <2> TAKE k \in 2 .. Len(s) + 1
  <2>1. k - 1 \in 1 .. Len(s) /\ (k - 1) + 1 = k
    BY <1>0
  <2> QED BY <1>1, <2>1
<1>3. \A k \in 2 .. Len(s) + 1 : r[k] \in ToSet(s) /\ r[k] # e
  <2> TAKE k \in 2 .. Len(s) + 1
  <2>1. r[k] \in ToSet(s)
    BY <1>0, <1>2, Zenon DEF ToSet
  <2> QED BY <2>1
<1>4. IsInjective(r)
  <2> SUFFICES ASSUME NEW k \in 1 .. Len(s) + 1, NEW l \in 1 .. Len(s) + 1, r[k] = r[l]
               PROVE  k = l
    BY <1>1, Zenon DEF IsInjective
  <2>1. CASE k # 1 /\ l # 1
    <3>1. k \in 2 .. Len(s) + 1 /\ l \in 2 .. Len(s) + 1
      BY <1>0, <2>1
    <3>2. k - 1 \in DOMAIN s /\ l - 1 \in DOMAIN s /\ s[k - 1] = s[l - 1]
      BY <1>0, <1>2, <3>1
    <3>3. k - 1 = l - 1
      BY <3>2, Zenon DEF IsInjective
    <3> QED BY <3>3
  <2>2. CASE k = 1 \/ l = 1
    <3>1. \A m \in 1 .. Len(s) + 1 : m # 1 => m \in 2 .. Len(s) + 1
      BY <1>0
    <3> QED BY <1>1, <1>3, <2>2, <3>1
  <2> QED BY <2>1, <2>2
<1>5. ToSet(r) = ToSet(s) \cup {e}
  <2>1. ToSet(r) \subseteq ToSet(s) \cup {e}
    <3>1. \A m \in 1 .. Len(s) + 1 : m # 1 => m \in 2 .. Len(s) + 1
      BY <1>0
    <3> QED BY <1>1, <1>3, <3>1 DEF ToSet
  <2>2. e \in ToSet(r)
    <3>1. 1 \in DOMAIN r
      BY <1>0, <1>1
    <3> QED BY <1>1, <3>1, Zenon DEF ToSet
  <2>3. \A k \in DOMAIN s : s[k] \in ToSet(r)
    <3> TAKE k \in DOMAIN s
    <3>1. k + 1 \in DOMAIN r /\ r[k + 1] = s[k]
      BY <1>0, <1>1
    <3> QED BY <3>1, Zenon DEF ToSet
  <2>4. ToSet(s) \subseteq ToSet(r)
    BY <2>3, Zenon DEF ToSet
  <2> QED BY <2>1, <2>2, <2>4
<1> QED BY <1>1, <1>4, <1>5 DEF r

(***************************************************************************)
(* Next hops: the inductive invariant                                      *)
(***************************************************************************)
HopStates == {"UNUSED", "RESOLVING", "SYNC_WRITE", "VALID", "STALE", "SWITCHING"}
HopKeys == Neighs \X Tags
HopRecords ==
  [state : HopStates, ref : Nat, neigh : Neighs \cup {None},
   key : HopKeys \cup {NoKey},
   dmac : (Neighs \cup {None}) \X (Nat \cup Tags \cup {None}),
   arpq : Seq(Users), sync : Nat]
UsesHop == {"has", "reuse", "again", "stale", "queue", "kick", "write"}
NudStates == NudValid \cup {"none", "incomplete", "failed"}

L2tTypeOK ==
  /\ tab \in [Entries -> HopRecords]
  /\ chain \in [Entries -> Seq(Entries)]
  /\ nfree \in Int
  /\ nud \in [Neighs -> NudStates] /\ ha \in [Neighs -> Nat]
  /\ pc \in [Users -> UsesHop \cup {"idle", "init", "free", "lost"}]
  /\ at \in [Users -> Entries]
  /\ want \in [Users -> HopKeys \cup {NoKey}]
  /\ faults \in Nat /\ moves \in Nat

Hops == [b \in Entries |-> ToSet(chain[b])]
HopUsers == [e \in Entries |-> {u \in Users : pc[u] \in UsesHop /\ at[u] = e}]
Reused(e) == \E u \in Users : pc[u] = "reuse" /\ at[u] = e
(* In use for a neighbour, and not being brought up to date.               *)
Settled(e) == /\ tab[e].ref > 0 /\ tab[e].state # "SWITCHING"
              /\ tab[e].ref > 1 \/ ~Reused(e)

(* Who is about to bring an entry up to date holds d->lock.                *)
WriterOK == \A u \in Users : pc[u] \in {"init", "reuse"} => writer = u

(* Everybody who uses an entry is counted.  (So is the rule that a failed  *)
(* write took the entry from.)                                             *)
CountOK == \A e \in Entries : tab[e].ref >= Cardinality(HopUsers[e])

(* The entries of neighbours are on the chains, each on that of its own.   *)
ChainOK ==
  /\ \A b \in Entries : IsInjective(chain[b])
  /\ \A b \in Entries : \A e \in Hops[b] :
       tab[e].state # "SWITCHING" /\ tab[e].key \in HopKeys /\ Hash[tab[e].key[1]] = b
  /\ \A b \in Entries : \A e, f \in Hops[b] : tab[e].key = tab[f].key => e = f
  /\ \A e \in Entries :
       tab[e].ref > 0 /\ tab[e].state # "SWITCHING" =>
         tab[e].key \in HopKeys /\ e \in Hops[Hash[tab[e].key[1]]]

(* An entry being initialised is on no chain, and nor is its key.          *)
InitOK ==
  \A u \in Users : pc[u] = "init" =>
    /\ tab[at[u]].ref = 0 /\ \A b \in Entries : at[u] \notin Hops[b]
    /\ want[u] \in HopKeys
    /\ \A e \in Hops[Hash[want[u][1]]] : tab[e].key # want[u]

(* A connection uses the entry it asked for.                               *)
UserOK ==
  \A u \in Users : pc[u] \in UsesHop =>
    IF u \in Conns THEN tab[at[u]].state # "SWITCHING" /\ tab[at[u]].key = want[u]
    ELSE pc[u] = "has"

NeighOK == \A e \in Entries : Settled(e) => tab[e].neigh = tab[e].key[1]

HopControl == /\ WriterOK /\ CountOK /\ ChainOK /\ InitOK /\ UserOK
              /\ NeighOK /\ NothingKept /\ FreeNotMissed

(* Writes are under way for settled entries only ...                       *)
SyncAt(e) ==
  tab[e].sync > 0 =>
    /\ tab[e].ref > 0 /\ tab[e].state \notin {"RESOLVING", "UNUSED"}
    /\ tab[e].ref > 1 \/ ~Reused(e)
SyncOK == \A e \in Entries : SyncAt(e)

(* ... which have the present address of the neighbour in the hardware.    *)
AddressAt(e) ==
  Settled(e) /\ tab[e].state \in {"VALID", "STALE", "SYNC_WRITE"} =>
    tab[e].neigh \in notify \/ tab[e].dmac = Mac(tab[e].neigh)
AddressOK == faults = 0 => \A e \in Entries : AddressAt(e)

-----------------------------------------------------------------------------
(* What write_l2e makes of an entry.                                       *)
LEMMA WrittenFields ==
  ASSUME L2tTypeOK, NEW r \in HopRecords, NEW sync \in {0, 1}
  PROVE  /\ Written(r, sync) \in HopRecords
         /\ Written(r, sync).ref = r.ref /\ Written(r, sync).key = r.key
         /\ Written(r, sync).neigh = r.neigh /\ Written(r, sync).arpq = r.arpq
         /\ Written(r, sync).sync = r.sync + sync
         /\ Written(r, sync).state =
              IF sync = 1 /\ r.state # "SWITCHING" THEN "SYNC_WRITE" ELSE r.state
         /\ r.neigh # None => Written(r, sync).dmac = Mac(r.neigh)
         /\ r.neigh = None => Written(r, sync).dmac = r.dmac
<1> DEFINE d == IF r.neigh # None THEN Mac(r.neigh) ELSE r.dmac
           t == IF sync = 1 /\ r.state # "SWITCHING" THEN "SYNC_WRITE" ELSE r.state
<1>1. d \in (Neighs \cup {None}) \X (Nat \cup Tags \cup {None})
  BY DEF L2tTypeOK, HopRecords, Mac
<1>2. t \in HopStates /\ r.sync + sync \in Nat
  BY DEF HopRecords, HopStates
<1>3. Written(r, sync) = [r EXCEPT !.dmac = d, !.sync = @ + sync, !.state = t]
  BY DEF Written
<1> HIDE DEF d, t
<1>4. /\ Written(r, sync) \in HopRecords
      /\ Written(r, sync).ref = r.ref /\ Written(r, sync).key = r.key
      /\ Written(r, sync).neigh = r.neigh /\ Written(r, sync).arpq = r.arpq
      /\ Written(r, sync).sync = r.sync + sync
      /\ Written(r, sync).state = t /\ Written(r, sync).dmac = d
  BY <1>1, <1>2, <1>3 DEF HopRecords
<1> QED BY <1>4 DEF d, t

(* What is known of an entry.                                              *)
LEMMA HopFields ==
  ASSUME L2tTypeOK, NEW e \in Entries
  PROVE  /\ tab[e] \in HopRecords
         /\ tab[e].state \in HopStates /\ tab[e].ref \in Nat /\ tab[e].sync \in Nat
         /\ tab[e].neigh \in Neighs \cup {None} /\ tab[e].key \in HopKeys \cup {NoKey}
         /\ tab[e].arpq \in Seq(Users)
  BY DEF L2tTypeOK, HopRecords

LEMMA HopUpdates ==
  ASSUME NEW r \in HopRecords, NEW s \in HopStates, NEW q \in Seq(Users), NEW k \in Nat
  PROVE  /\ [r EXCEPT !.arpq = q] \in HopRecords
         /\ [r EXCEPT !.state = s, !.arpq = q, !.sync = k] \in HopRecords
  BY DEF HopRecords

(* One entry is changed.                                                   *)
LEMMA HopChanged ==
  ASSUME L2tTypeOK, NEW e \in Entries, NEW r \in HopRecords, tab' = [tab EXCEPT ![e] = r]
  PROVE  /\ tab' \in [Entries -> HopRecords] /\ tab'[e] = r
         /\ \A f \in Entries \ {e} : tab'[f] = tab[f]
  BY DEF L2tTypeOK

LEMMA HopsOfEntries ==
  ASSUME L2tTypeOK
  PROVE  \A b \in Entries : Hops[b] \subseteq Entries
  BY DEF L2tTypeOK, Hops, ToSet

(* The free entry that a scan comes to first.                              *)
LEMMA ScanFindsFree ==
  ASSUME L2tTypeOK, FreeEntries # {}
  PROVE  Scan \in FreeEntries /\ First(FreeEntries) \in FreeEntries
<1>1. FreeEntries \in SUBSET Nat
  BY SizeAssumption DEF FreeEntries, Entries
<1>2. {e \in FreeEntries : e >= rover} \in SUBSET Nat
  BY <1>1
<1>3. First(FreeEntries) \in FreeEntries
  BY <1>1, FirstIsLeast
<1>4. ASSUME {e \in FreeEntries : e >= rover} # {}
      PROVE  First({e \in FreeEntries : e >= rover}) \in FreeEntries
  BY <1>2, <1>4, FirstIsLeast
<1> QED BY <1>3, <1>4 DEF Scan

(* Entries come off their chains and nothing else changes on them.         *)
LEMMA Unchained ==
  ASSUME L2tTypeOK, ChainOK, NEW e \in Entries
  PROVE  /\ Unchain(e) \in [Entries -> Seq(Entries)]
         /\ \A b \in Entries : /\ IsInjective(Unchain(e)[b])
                               /\ ToSet(Unchain(e)[b]) = Hops[b] \ {e}
<1> SUFFICES ASSUME NEW b \in Entries
             PROVE  /\ Unchain(e)[b] \in Seq(Entries)
                    /\ IsInjective(Unchain(e)[b])
                    /\ ToSet(Unchain(e)[b]) = Hops[b] \ {e}
  <2> DEFINE c(x) == IF tab[e].state # "SWITCHING" THEN RemoveFirst(chain[x], e) ELSE chain[x]
  <2>1. Unchain(e) = [x \in Entries |-> c(x)]
    BY Zenon DEF Unchain
  <2>2. \A x \in Entries : Unchain(e)[x] = c(x)
    BY <2>1
  <2> HIDE DEF c
  <2> QED BY <2>1, <2>2
<1>1. chain[b] \in Seq(Entries) /\ IsInjective(chain[b]) /\ Hops[b] = ToSet(chain[b])
  BY DEF L2tTypeOK, ChainOK, Hops
<1>2. Unchain(e)[b] = IF tab[e].state # "SWITCHING" THEN RemoveFirst(chain[b], e) ELSE chain[b]
  BY Zenon DEF Unchain
<1>3. CASE tab[e].state # "SWITCHING"
  BY <1>1, <1>2, <1>3, TakenOff
<1>4. CASE tab[e].state = "SWITCHING"
  BY <1>1, <1>2, <1>4 DEF ChainOK
<1> QED BY <1>3, <1>4

-----------------------------------------------------------------------------
(* A step that leaves alone who uses which entry for what.                 *)
Calm ==
  /\ UNCHANGED <<chain, nfree, writer, at, want>>
  /\ \A e \in Entries :
       /\ tab'[e].ref = tab[e].ref /\ tab'[e].key = tab[e].key
       /\ tab'[e].state = "SWITCHING" <=> tab[e].state = "SWITCHING"
       /\ tab[e].ref = 0 => /\ tab'[e].neigh = tab[e].neigh
                            /\ tab[e].arpq = <<>> => tab'[e].arpq = <<>>
       /\ Settled(e) => tab'[e].neigh \in {tab[e].neigh, tab[e].key[1]}
  /\ \A u \in Users :
       \/ pc'[u] = pc[u] \/ (pc[u] = "idle" /\ pc'[u] = "lost")
       \/ u \in Conns /\ {pc[u], pc'[u]} \subseteq UsesHop \ {"reuse"}

LEMMA CalmSame ==
  ASSUME L2tTypeOK, Calm
  PROVE  /\ HopUsers' = HopUsers /\ Hops' = Hops
         /\ \A u \in Users : pc'[u] \in UsesHop <=> pc[u] \in UsesHop
         /\ Initialising' = Initialising /\ Freeing' = Freeing
         /\ FreeEntries' = FreeEntries
         /\ \A e \in Entries : Reused(e)' <=> Reused(e)
         /\ \A e \in Entries : Settled(e)' <=> Settled(e)
<1>1. \A u \in Users : /\ pc'[u] \in UsesHop <=> pc[u] \in UsesHop
                       /\ pc'[u] = "reuse" <=> pc[u] = "reuse"
                       /\ pc'[u] = "init" <=> pc[u] = "init"
                       /\ pc'[u] = "free" <=> pc[u] = "free"
  BY DEF Calm, UsesHop
<1>2. at' = at /\ chain' = chain /\ \A e \in Entries : tab'[e].ref = tab[e].ref
  BY DEF Calm
<1>3. HopUsers' = HopUsers
  BY <1>1, <1>2 DEF HopUsers
<1>4. Hops' = Hops
  BY <1>2 DEF Hops
<1>5. Initialising' = Initialising /\ Freeing' = Freeing /\ FreeEntries' = FreeEntries
  BY <1>1, <1>2 DEF Initialising, Freeing, FreeEntries
<1>6. \A e \in Entries : Reused(e)' <=> Reused(e)
  BY <1>1, <1>2 DEF Reused
<1>7. \A e \in Entries : Settled(e)' <=> Settled(e)
  BY <1>6 DEF Calm, Settled
<1> QED BY <1>1, <1>3, <1>4, <1>5, <1>6, <1>7

LEMMA CalmKeeps ==
  ASSUME L2tTypeOK, HopControl, Calm
  PROVE  HopControl'
<1> USE DEF HopControl
<1>1. /\ HopUsers' = HopUsers /\ Hops' = Hops
      /\ \A u \in Users : pc'[u] \in UsesHop <=> pc[u] \in UsesHop
      /\ Initialising' = Initialising /\ Freeing' = Freeing
      /\ FreeEntries' = FreeEntries
      /\ \A e \in Entries : Reused(e)' <=> Reused(e)
      /\ \A e \in Entries : Settled(e)' <=> Settled(e)
  BY CalmSame
<1>2. /\ chain' = chain /\ nfree' = nfree /\ writer' = writer /\ at' = at /\ want' = want
      /\ \A e \in Entries :
           /\ tab'[e].ref = tab[e].ref /\ tab'[e].key = tab[e].key
           /\ tab'[e].state = "SWITCHING" <=> tab[e].state = "SWITCHING"
  BY DEF Calm
<1>3. \A u \in Users : at[u] \in Entries /\ want[u] \in HopKeys \cup {NoKey}
  BY DEF L2tTypeOK
<1>4. \A u \in Users : pc'[u] \in {"init", "reuse"} => pc'[u] = pc[u]
  BY DEF Calm, UsesHop
<1>5. WriterOK'
  BY <1>2, <1>4 DEF WriterOK
<1>6. CountOK'
  BY <1>1, <1>2 DEF CountOK
<1>7. ChainOK'
  <2>1. \A b \in Entries : Hops[b] \subseteq Entries
    BY HopsOfEntries
  <2> QED BY <1>1, <1>2, <2>1 DEF ChainOK
<1>8. InitOK'
  <2>1. \A b \in Entries : Hops[b] \subseteq Entries
    BY HopsOfEntries
  <2>2. \A u \in Users : want[u] \in HopKeys => Hash[want[u][1]] \in Entries
    BY HashAssumption DEF HopKeys
  <2> QED BY <1>1, <1>2, <1>3, <1>4, <2>1, <2>2 DEF InitOK
<1>9. UserOK'
  BY <1>1, <1>2, <1>3 DEF UserOK, Calm
<1>10. NeighOK'
  BY <1>1, <1>2 DEF NeighOK, Calm
<1>11. NothingKept'
  BY <1>1, <1>2 DEF NothingKept, Calm
<1>12. FreeNotMissed'
  BY <1>1, <1>2 DEF FreeNotMissed
<1> QED BY <1>5, <1>6, <1>7, <1>8, <1>9, <1>10, <1>11, <1>12

(* A step that touches neither the entries nor their users.                *)
LEMMA CalmIfIdle ==
  ASSUME L2tTypeOK, UNCHANGED <<tab, chain, nfree, writer, at, want, pc>>
  PROVE  Calm
<1>1. tab' = tab /\ pc' = pc
  OBVIOUS
<1>2. \A e \in Entries : tab'[e].neigh \in {tab[e].neigh, tab[e].key[1]}
  BY <1>1
<1>3. UNCHANGED <<chain, nfree, writer, at, want>>
  OBVIOUS
<1> QED BY <1>1, <1>2, <1>3 DEF Calm

(* A step of one user that does not change entries.                        *)
LEMMA CalmIfLooks ==
  ASSUME L2tTypeOK, UNCHANGED <<tab, chain, nfree, writer, at, want>>,
         NEW c \in Conns, NEW l \in UsesHop \ {"reuse"}, pc[c] \in UsesHop \ {"reuse"},
         Goto(c, l)
  PROVE  Calm
<1>1. tab' = tab
  OBVIOUS
<1>2. \A e \in Entries : tab'[e].neigh \in {tab[e].neigh, tab[e].key[1]}
  BY <1>1
<1>3. \A u \in Users :
        pc'[u] = pc[u] \/ (u \in Conns /\ {pc[u], pc'[u]} \subseteq UsesHop \ {"reuse"})
  <2> TAKE u \in Users
  <2>1. pc' = [pc EXCEPT ![c] = l] /\ DOMAIN pc = Users
    BY DEF Goto, L2tTypeOK
  <2>2. u # c => pc'[u] = pc[u]
    BY <2>1
  <2>3. u = c => pc'[u] = l
    BY <2>1
  <2> QED BY <2>2, <2>3
<1>4. UNCHANGED <<chain, nfree, writer, at, want>>
  OBVIOUS
<1> QED BY <1>1, <1>2, <1>3, <1>4 DEF Calm

(* A step that changes one entry in what it says of its neighbour.         *)
LEMMA CalmIfOne ==
  ASSUME L2tTypeOK, UNCHANGED <<chain, nfree, writer, at, want>>,
         NEW e \in Entries, NEW r \in HopRecords, tab' = [tab EXCEPT ![e] = r],
         r.ref = tab[e].ref, r.key = tab[e].key,
         r.state = "SWITCHING" <=> tab[e].state = "SWITCHING",
         tab[e].ref = 0 => r.neigh = tab[e].neigh /\ (tab[e].arpq = <<>> => r.arpq = <<>>),
         Settled(e) => r.neigh \in {tab[e].neigh, tab[e].key[1]},
         \A u \in Users :
           pc'[u] = pc[u] \/ (u \in Conns /\ {pc[u], pc'[u]} \subseteq UsesHop \ {"reuse"})
  PROVE  Calm
<1>1. tab'[e] = r /\ \A f \in Entries \ {e} : tab'[f] = tab[f]
  BY HopChanged
<1> QED BY <1>1 DEF Calm

-----------------------------------------------------------------------------
(* The entry that t4_l2t_update looks at.                                  *)
LEMMA FoundIs ==
  ASSUME L2tTypeOK, NEW n \in Neighs, NEW e \in Found(n)
  PROVE  e \in Entries /\ e \in Hops[Hash[n]] /\ tab[e].key[1] = n
<1>1. Hash[n] \in Entries
  BY HashAssumption
<1>2. chain[Hash[n]] \in Seq(Entries) /\ Hops[Hash[n]] = ToSet(chain[Hash[n]])
  BY <1>1 DEF L2tTypeOK, Hops
<1>3. PICK i \in 1 .. Len(chain[Hash[n]]) : e = chain[Hash[n]][i] /\ tab[e].key[1] = n
  BY DEF Found
<1> QED BY <1>2, <1>3 DEF ToSet

(* A connection that sends has an entry of its neighbour.                  *)
LEMMA SenderHas ==
  ASSUME L2tTypeOK, HopControl, NEW c \in Users, pc[c] \in UsesHop
  PROVE  /\ at[c] \in Entries /\ tab[at[c]].ref > 0
         /\ pc[c] # "has" => c \in Conns
         /\ c \in Conns => tab[at[c]].state # "SWITCHING" /\ tab[at[c]].key = want[c]
<1>1. at[c] \in Entries /\ tab[at[c]].ref \in Nat
  BY DEF L2tTypeOK, HopRecords
<1>2. c \in HopUsers[at[c]] /\ IsFiniteSet(HopUsers[at[c]])
  <2>1. HopUsers[at[c]] \subseteq Users
    BY <1>1 DEF HopUsers
  <2> QED BY <1>1, <2>1, UsersAssumption, FS_Subset DEF HopUsers
<1>3. Cardinality(HopUsers[at[c]]) > 0 /\ Cardinality(HopUsers[at[c]]) \in Nat
  BY <1>2, FS_EmptySet, FS_CardinalityType
<1>4. tab[at[c]].ref > 0
  BY <1>1, <1>3 DEF HopControl, CountOK
<1>5. /\ pc[c] # "has" => c \in Conns
      /\ c \in Conns => tab[at[c]].state # "SWITCHING" /\ tab[at[c]].key = want[c]
  BY DEF HopControl, UserOK
<1> QED BY <1>1, <1>4, <1>5

(* write_l2e leaves the entry as it was handed over, or written.           *)
LEMMA EntryWritten ==
  ASSUME L2tTypeOK, NEW e \in Entries, NEW r \in HopRecords, NEW sync \in {0, 1},
         WriteEntry(e, r, sync)
  PROVE  \E q \in HopRecords :
           /\ tab' = [tab EXCEPT ![e] = q]
           /\ q.ref = r.ref /\ q.key = r.key /\ q.neigh = r.neigh /\ q.arpq = r.arpq
           /\ q.state = "SWITCHING" <=> r.state = "SWITCHING"
           /\ \/ q = Written(r, sync) /\ faults' = faults
              \/ q = r /\ faults' = faults + 1
<1>1. CASE tab' = [tab EXCEPT ![e] = Written(r, sync)] /\ faults' = faults
  <2> DEFINE q == Written(r, sync)
  <2>1. /\ q \in HopRecords /\ q.ref = r.ref /\ q.key = r.key /\ q.neigh = r.neigh
        /\ q.arpq = r.arpq
        /\ q.state = IF sync = 1 /\ r.state # "SWITCHING" THEN "SYNC_WRITE" ELSE r.state
    BY WrittenFields
  <2>2. q.state = "SWITCHING" <=> r.state = "SWITCHING"
    BY <2>1
  <2> HIDE DEF q
  <2>3. tab' = [tab EXCEPT ![e] = q] /\ q = Written(r, sync)
    BY <1>1 DEF q
  <2> QED BY <1>1, <2>1, <2>2, <2>3
<1>2. CASE tab' = [tab EXCEPT ![e] = r] /\ faults' = faults + 1
  BY <1>2
<1> QED BY <1>1, <1>2 DEF WriteEntry

(* cxgb4_l2t_send is calm ...                                              *)
LEMMA SendIsCalm ==
  ASSUME L2tTypeOK, HopControl, NEW c \in Users,
         Send(c) \/ SendStale(c) \/ SendQueue(c) \/ SendKick(c) \/ SendWrite(c)
  PROVE  Calm
<1> DEFINE e == at[c]
<1>0. /\ pc[c] \in UsesHop \ {"reuse"} /\ c \in Conns
      /\ e \in Entries /\ tab[e].ref > 0 /\ tab[e].state # "SWITCHING"
      /\ UNCHANGED <<chain, nfree, writer, at, want>>
      /\ \E l \in UsesHop \ {"reuse"} : Goto(c, l)
  <2>1. /\ pc[c] \in UsesHop \ {"reuse"}
        /\ pc[c] = "has" => c \in Conns
        /\ UNCHANGED <<chain, nfree, writer, at, want>>
        /\ \E l \in UsesHop \ {"reuse"} : Goto(c, l)
    <3>1. CASE Send(c)
      BY <3>1 DEF Send, UsesHop, neighVars, userVars
    <3>2. CASE SendStale(c)
      BY <3>2 DEF SendStale, UsesHop, neighVars, userVars
    <3>3. CASE SendQueue(c)
      BY <3>3 DEF SendQueue, UsesHop, neighVars, userVars
    <3>4. CASE SendKick(c)
      BY <3>4 DEF SendKick, UsesHop, neighVars, userVars
    <3>5. CASE SendWrite(c)
      BY <3>5 DEF SendWrite, UsesHop, neighVars, userVars
    <3> QED BY <3>1, <3>2, <3>3, <3>4, <3>5
  <2> QED BY <2>1, SenderHas
<1>1. tab[e] \in HopRecords
  BY <1>0, HopFields
<1>2. \A u \in Users :
        pc'[u] = pc[u] \/ (u \in Conns /\ {pc[u], pc'[u]} \subseteq UsesHop \ {"reuse"})
  <2>1. PICK l \in UsesHop \ {"reuse"} : pc' = [pc EXCEPT ![c] = l]
    BY <1>0 DEF Goto
  <2> QED BY <1>0, <2>1 DEF L2tTypeOK
<1>3. CASE tab' = tab
  BY <1>0, <1>3, CalmIfLooks
<1> SUFFICES ASSUME NEW r \in HopRecords, tab' = [tab EXCEPT ![e] = r],
                    r.ref = tab[e].ref, r.key = tab[e].key, r.neigh = tab[e].neigh,
                    r.state = "SWITCHING" <=> tab[e].state = "SWITCHING"
             PROVE  Calm
  <2>1. CASE Send(c)
    BY <1>3, <2>1 DEF Send
  <2>2. CASE SendStale(c)
    <3> DEFINE r == [tab[e] EXCEPT !.state = IF @ = "STALE" THEN "VALID" ELSE @]
    <3>1. tab' = [tab EXCEPT ![e] = r]
      BY <2>2 DEF SendStale
    <3>2. /\ r \in HopRecords /\ r.ref = tab[e].ref /\ r.key = tab[e].key
          /\ r.neigh = tab[e].neigh
          /\ r.state = "SWITCHING" <=> tab[e].state = "SWITCHING"
      BY <1>1 DEF HopRecords, HopStates
    <3> QED BY <3>1, <3>2
  <2>3. CASE SendQueue(c) /\ tab' # tab
    <3> DEFINE r == [tab[e] EXCEPT !.arpq = Append(@, c)]
    <3>1. tab' = [tab EXCEPT ![e] = r]
      BY <2>3 DEF SendQueue
    <3>2. Append(tab[e].arpq, c) \in Seq(Users)
      BY <1>0, HopFields
    <3>3. r \in HopRecords
      BY <1>1, <3>2, HopUpdates, HopFields, <1>0
    <3>4. /\ r.ref = tab[e].ref /\ r.key = tab[e].key
          /\ r.neigh = tab[e].neigh /\ r.state = tab[e].state
      BY <1>1 DEF HopRecords
    <3> HIDE DEF r
    <3> QED BY <3>1, <3>3, <3>4
  <2>4. CASE SendKick(c)
    BY <1>3, <2>4 DEF SendKick
  <2>5. CASE SendWrite(c) /\ tab' # tab
    <3>1. WriteEntry(e, tab[e], 1)
      BY <2>5 DEF SendWrite
    <3>2. PICK q \in HopRecords :
            /\ tab' = [tab EXCEPT ![e] = q]
            /\ q.ref = tab[e].ref /\ q.key = tab[e].key /\ q.neigh = tab[e].neigh
            /\ q.state = "SWITCHING" <=> tab[e].state = "SWITCHING"
      BY <1>0, <1>1, <3>1, EntryWritten
    <3> QED BY <3>2
  <2> QED BY <1>3, <2>1, <2>2, <2>3, <2>4, <2>5
<1>4. tab[e].ref = 0 => r.neigh = tab[e].neigh /\ (tab[e].arpq = <<>> => r.arpq = <<>>)
  BY <1>0
<1>5. Settled(e) => r.neigh \in {tab[e].neigh, tab[e].key[1]}
  OBVIOUS
<1> HIDE DEF e
<1> QED BY <1>0, <1>2, <1>4, <1>5, CalmIfOne

(* ... and so are the replies to writes, ...                               *)
LEMMA ReplyIsCalm ==
  ASSUME L2tTypeOK, NEW e \in Entries, Reply(e) \/ Drain(e)
  PROVE  Calm
<1>1. /\ tab[e] \in HopRecords /\ tab[e].sync \in Nat /\ tab[e].arpq \in Seq(Users)
      /\ UNCHANGED <<chain, nfree, writer, at, want, pc>>
  BY HopFields DEF Reply, Drain, userVars
<1>2. CASE tab' = tab
  BY <1>1, <1>2, CalmIfIdle
<1>3. ASSUME NEW r \in HopRecords, tab' = [tab EXCEPT ![e] = r],
             r.ref = tab[e].ref, r.key = tab[e].key, r.neigh = tab[e].neigh,
             r.state = "SWITCHING" <=> tab[e].state = "SWITCHING",
             tab[e].arpq = <<>> => r.arpq = <<>>
      PROVE  Calm
  BY <1>1, <1>3, CalmIfOne
<1>4. CASE Reply(e)
  <2>1. tab[e].sync > 0
    BY <1>4 DEF Reply
  <2>2. ASSUME NEW s \in {"STALE", "VALID"}, tab[e].state # "SWITCHING",
               tab' = [tab EXCEPT ![e].state = s, ![e].arpq = <<>>, ![e].sync = @ - 1]
        PROVE  Calm
    <3> DEFINE r == [tab[e] EXCEPT !.state = s, !.arpq = <<>>, !.sync = @ - 1]
    <3>1. tab' = [tab EXCEPT ![e] = r]
      BY <2>2 DEF L2tTypeOK
    <3>2. s \in HopStates /\ <<>> \in Seq(Users) /\ tab[e].sync - 1 \in Nat
      BY <1>1, <2>1 DEF HopStates
    <3>3. r \in HopRecords
      BY <1>1, <3>2, HopUpdates
    <3>4. /\ r.ref = tab[e].ref /\ r.key = tab[e].key
          /\ r.neigh = tab[e].neigh /\ r.state = s /\ r.arpq = <<>>
      BY <1>1 DEF HopRecords
    <3> HIDE DEF r
    <3> QED BY <1>3, <2>2, <3>1, <3>3, <3>4
  <2>3. ASSUME tab' = [tab EXCEPT ![e].sync = @ - 1]
        PROVE  Calm
    <3> DEFINE r == [tab[e] EXCEPT !.sync = @ - 1]
    <3>1. tab' = [tab EXCEPT ![e] = r]
      BY <2>3
    <3>2. /\ r \in HopRecords /\ r.ref = tab[e].ref /\ r.key = tab[e].key
          /\ r.neigh = tab[e].neigh /\ r.state = tab[e].state /\ r.arpq = tab[e].arpq
      BY <1>1, <2>1 DEF HopRecords
    <3> HIDE DEF r
    <3> QED BY <1>3, <3>1, <3>2
  <2> QED BY <1>4, <2>2, <2>3 DEF Reply
<1>5. CASE Drain(e) /\ tab' # tab
  <2> DEFINE r == [tab[e] EXCEPT !.arpq = Tail(@)]
  <2>1. tab' = [tab EXCEPT ![e] = r] /\ tab[e].arpq # <<>>
    BY <1>5 DEF Drain
  <2>2. Tail(tab[e].arpq) \in Seq(Users)
    BY <1>1, <2>1
  <2>3. r \in HopRecords
    BY <1>1, <2>2, HopUpdates, HopFields
  <2>4. /\ r.ref = tab[e].ref /\ r.key = tab[e].key
        /\ r.neigh = tab[e].neigh /\ r.state = tab[e].state
    BY <1>1 DEF HopRecords
  <2> HIDE DEF r
  <2> QED BY <1>3, <2>1, <2>3, <2>4
<1> QED BY <1>2, <1>4, <1>5

(* ... what the neighbour layer does, and t4_l2t_update.                   *)
LEMMA NeighIsCalm ==
  ASSUME L2tTypeOK, HopControl, NEW n \in Neighs,
         Resolve(n) \/ Announce(n) \/ Age(n) \/ UpdateNothing(n) \/ Update(n)
  PROVE  Calm
<1>1. CASE Resolve(n) \/ Announce(n) \/ Age(n) \/ UpdateNothing(n)
  <2>1. UNCHANGED <<tab, chain, nfree, writer, at, want, pc>>
    BY <1>1 DEF Resolve, Announce, Age, UpdateNothing, NeighStep, userVars
  <2> QED BY <2>1, CalmIfIdle
<1>2. CASE Update(n)
  <2>1. UNCHANGED <<chain, nfree, writer, at, want, pc>>
    BY <1>2 DEF Update, userVars
  <2>2. PICK e \in Found(n) :
          LET r == [tab[e] EXCEPT !.neigh = n]
              s == [r EXCEPT !.state = IF nud[n] = "reachable" THEN "VALID" ELSE "STALE"]
          IN /\ r.ref > 0
             /\ \/ tab' = [tab EXCEPT ![e] = r]
                \/ r.state = "RESOLVING" /\ WriteEntry(e, r, 1)
                \/ WriteEntry(e, s, 0)
                \/ tab' = [tab EXCEPT ![e] = s]
    BY <1>2 DEF Update
  <2>3. e \in Entries /\ tab[e].key[1] = n /\ e \in Hops[Hash[n]] /\ Hash[n] \in Entries
    BY FoundIs, HashAssumption
  <2>4. tab[e] \in HopRecords
    BY <2>3, HopFields
  <2>5. ASSUME NEW q \in HopRecords, tab' = [tab EXCEPT ![e] = q],
               q.ref = tab[e].ref, q.key = tab[e].key, q.neigh = n,
               q.state = "SWITCHING" <=> tab[e].state = "SWITCHING"
        PROVE  Calm
    <3>1. tab[e].ref = 0 => q.neigh = tab[e].neigh /\ (tab[e].arpq = <<>> => q.arpq = <<>>)
      BY <2>2, <2>4 DEF HopRecords
    <3>2. Settled(e) => q.neigh \in {tab[e].neigh, tab[e].key[1]}
      BY <2>3, <2>5
    <3>3. \A u \in Users :
            pc'[u] = pc[u] \/ (u \in Conns /\ {pc[u], pc'[u]} \subseteq UsesHop \ {"reuse"})
      BY <2>1
    <3> QED BY <2>1, <2>3, <2>5, <3>1, <3>2, <3>3, CalmIfOne
  <2> DEFINE r == [tab[e] EXCEPT !.neigh = n]
             s == [r EXCEPT !.state = IF nud[n] = "reachable" THEN "VALID" ELSE "STALE"]
  <2>6. /\ r \in HopRecords /\ r.ref = tab[e].ref /\ r.key = tab[e].key /\ r.neigh = n
        /\ r.state = tab[e].state
    BY <2>4 DEF HopRecords
  <2>7. tab[e].state # "SWITCHING"
    BY <2>3 DEF ChainOK, HopControl
  <2>8. /\ s \in HopRecords /\ s.ref = tab[e].ref /\ s.key = tab[e].key /\ s.neigh = n
        /\ s.state = "SWITCHING" <=> tab[e].state = "SWITCHING"
    BY <2>4, <2>7 DEF HopRecords, HopStates
  <2>9. \/ tab' = [tab EXCEPT ![e] = r] \/ WriteEntry(e, r, 1)
        \/ WriteEntry(e, s, 0) \/ tab' = [tab EXCEPT ![e] = s]
    BY <2>2
  <2> HIDE DEF r, s
  <2>10. ASSUME WriteEntry(e, r, 1) \/ WriteEntry(e, s, 0) PROVE Calm
    BY <2>3, <2>5, <2>6, <2>8, <2>10, EntryWritten
  <2> QED BY <2>5, <2>6, <2>8, <2>9, <2>10
<1> QED BY <1>1, <1>2

-----------------------------------------------------------------------------
(* Nobody brings an entry up to date while the lock is free.               *)
LEMMA Unlocked ==
  ASSUME WriterOK, writer = None
  PROVE  /\ \A u \in Users : pc[u] \notin {"init", "reuse"}
         /\ Initialising = {} /\ \A e \in Entries : ~Reused(e)
<1>1. \A u \in Users : pc[u] \notin {"init", "reuse"}
  BY NoneAssumption DEF WriterOK
<1> QED BY <1>1 DEF Initialising, Reused

LEMMA LockedBy ==
  ASSUME WriterOK, NEW c \in Users, pc[c] \in {"init", "reuse"}
  PROVE  /\ writer = c /\ \A u \in Users \ {c} : pc[u] \notin {"init", "reuse"}
         /\ Initialising = IF pc[c] = "init" THEN {at[c]} ELSE {}
<1>1. writer = c /\ \A u \in Users \ {c} : pc[u] \notin {"init", "reuse"}
  BY DEF WriterOK
<1> QED BY <1>1 DEF Initialising

(* The users of an entry are counted.                                      *)
LEMMA UsersFinite ==
  ASSUME NEW e \in Entries
  PROVE  /\ IsFiniteSet(HopUsers[e]) /\ Cardinality(HopUsers[e]) \in Nat
         /\ IsFiniteSet(HopUsers'[e]) /\ Cardinality(HopUsers'[e]) \in Nat
<1>1. HopUsers[e] \subseteq Users /\ HopUsers'[e] \subseteq Users
  BY DEF HopUsers
<1> QED BY <1>1, UsersAssumption, FS_Subset, FS_CardinalityType

LEMMA Unused ==
  ASSUME L2tTypeOK, CountOK, NEW e \in Entries, tab[e].ref = 0
  PROVE  HopUsers[e] = {} /\ \A u \in Users : pc[u] \in UsesHop => at[u] # e
<1>1. Cardinality(HopUsers[e]) = 0
  BY UsersFinite DEF CountOK
<1>2. HopUsers[e] = {}
  BY <1>1, UsersFinite, FS_EmptySet
<1> QED BY <1>2 DEF HopUsers

LEMMA OneMoreUser ==
  ASSUME L2tTypeOK, CountOK, NEW e \in Entries, NEW u \in Users, pc[u] \notin UsesHop,
         pc'[u] \in UsesHop, at'[u] = e, tab'[e].ref = tab[e].ref + 1,
         \A f \in Entries \ {e} : tab'[f].ref = tab[f].ref,
         \A v \in Users \ {u} : pc'[v] = pc[v] /\ at'[v] = at[v]
  PROVE  CountOK'
<1>1. HopUsers'[e] = HopUsers[e] \cup {u} /\ u \notin HopUsers[e]
  BY DEF HopUsers
<1>2. \A f \in Entries \ {e} : HopUsers'[f] = HopUsers[f]
  BY DEF HopUsers
<1>3. Cardinality(HopUsers'[e]) = Cardinality(HopUsers[e]) + 1
  <2> DEFINE H == HopUsers[e]
  <2>1. IsFiniteSet(H) /\ u \notin H /\ HopUsers'[e] = H \cup {u}
    BY <1>1, UsersFinite
  <2> HIDE DEF H
  <2>2. Cardinality(H \cup {u}) = Cardinality(H) + 1
    BY <2>1, FS_AddElement
  <2> QED BY <2>1, <2>2 DEF H
<1>4. \A f \in Entries : tab[f].ref \in Nat
  BY HopFields
<1> QED BY <1>2, <1>3, <1>4, UsersFinite DEF CountOK

LEMMA OneUserLess ==
  ASSUME L2tTypeOK, CountOK, NEW u \in Users, pc[u] \in UsesHop,
         pc'[u] \notin UsesHop, tab'[at[u]].ref = tab[at[u]].ref - 1,
         \A f \in Entries \ {at[u]} : tab'[f].ref = tab[f].ref,
         \A v \in Users \ {u} : pc'[v] = pc[v] /\ at'[v] = at[v]
  PROVE  CountOK'
<1> DEFINE e == at[u]
<1>0. e \in Entries
  BY DEF L2tTypeOK
<1>1. HopUsers'[e] = HopUsers[e] \ {u} /\ u \in HopUsers[e]
  BY <1>0 DEF HopUsers
<1>2. \A f \in Entries \ {e} : HopUsers'[f] = HopUsers[f]
  BY <1>0 DEF HopUsers
<1>3. Cardinality(HopUsers'[e]) = Cardinality(HopUsers[e]) - 1
  BY <1>0, <1>1, UsersFinite, FS_RemoveElement
<1>4. \A f \in Entries : tab[f].ref \in Nat
  BY HopFields
<1> QED BY <1>0, <1>2, <1>3, <1>4, UsersFinite DEF CountOK

LEMMA SameUsers ==
  ASSUME L2tTypeOK, CountOK, \A f \in Entries : tab'[f].ref >= tab[f].ref /\ tab'[f].ref \in Nat,
         \A v \in Users : /\ pc'[v] \in UsesHop <=> pc[v] \in UsesHop
                          /\ pc[v] \in UsesHop => at'[v] = at[v]
  PROVE  CountOK'
<1>1. \A f \in Entries : HopUsers'[f] = HopUsers[f]
  BY DEF HopUsers
<1>2. \A f \in Entries : tab[f].ref \in Nat
  BY HopFields
<1> QED BY <1>1, <1>2, UsersFinite DEF CountOK

(* The free entries are counted, with those on the way.                    *)
LEMMA FreeCounted ==
  ASSUME FreeNotMissed, nfree \in Int, nfree' \in Int, NEW e, NEW u,
         LET G == FreeEntries \ Initialising
         IN \/ G' \subseteq G /\ Freeing' = Freeing /\ nfree' >= nfree
            \/ e \in G /\ G' \subseteq G \ {e} /\ Freeing' = Freeing /\ nfree' = nfree - 1
            \/ /\ G' \subseteq G \cup {e} /\ nfree' = nfree
               /\ Freeing' = Freeing \cup {u} /\ u \notin Freeing
            \/ /\ G' \subseteq G /\ nfree' = nfree + 1
               /\ Freeing' = Freeing \ {u} /\ u \in Freeing
  PROVE  FreeNotMissed'
<1> DEFINE G == FreeEntries \ Initialising
<1>1. IsFiniteSet(Entries)
  BY SizeAssumption, FS_Interval DEF Entries
<1>2. /\ IsFiniteSet(G) /\ IsFiniteSet(G') /\ Cardinality(G) \in Nat /\ Cardinality(G') \in Nat
  <2>1. G \subseteq Entries /\ G' \subseteq Entries
    BY DEF FreeEntries
  <2> HIDE DEF G
  <2> QED BY <1>1, <2>1, FS_Subset, FS_CardinalityType
<1>3. /\ IsFiniteSet(Freeing) /\ Cardinality(Freeing) \in Nat
      /\ IsFiniteSet(Freeing') /\ Cardinality(Freeing') \in Nat
  <2>1. Freeing \subseteq Users /\ Freeing' \subseteq Users
    BY DEF Freeing
  <2> QED BY <2>1, UsersAssumption, FS_Subset, FS_CardinalityType
<1>4. nfree + Cardinality(Freeing) >= Cardinality(G)
  BY DEF FreeNotMissed
<1> SUFFICES nfree' + Cardinality(Freeing') >= Cardinality(G')
  BY DEF FreeNotMissed
<1>5. \/ G' \subseteq G /\ Freeing' = Freeing /\ nfree' >= nfree
      \/ e \in G /\ G' \subseteq G \ {e} /\ Freeing' = Freeing /\ nfree' = nfree - 1
      \/ /\ G' \subseteq G \cup {e} /\ nfree' = nfree
         /\ Freeing' = Freeing \cup {u} /\ u \notin Freeing
      \/ /\ G' \subseteq G /\ nfree' = nfree + 1
         /\ Freeing' = Freeing \ {u} /\ u \in Freeing
  OBVIOUS
<1> HIDE DEF G
<1>6. ASSUME G' \subseteq G PROVE Cardinality(G') <= Cardinality(G)
  BY <1>2, <1>6, FS_Subset
<1>7. CASE G' \subseteq G /\ Freeing' = Freeing /\ nfree' >= nfree
  BY <1>2, <1>3, <1>4, <1>6, <1>7
<1>8. CASE e \in G /\ G' \subseteq G \ {e} /\ Freeing' = Freeing /\ nfree' = nfree - 1
  <2>1. IsFiniteSet(G \ {e}) /\ Cardinality(G \ {e}) = Cardinality(G) - 1
    BY <1>2, <1>8, FS_RemoveElement
  <2>2. Cardinality(G') <= Cardinality(G \ {e})
    BY <1>8, <2>1, FS_Subset
  <2> QED BY <1>2, <1>3, <1>4, <1>8, <2>1, <2>2
<1>9. CASE /\ G' \subseteq G \cup {e} /\ nfree' = nfree
           /\ Freeing' = Freeing \cup {u} /\ u \notin Freeing
  <2>1. IsFiniteSet(G \cup {e}) /\ Cardinality(G \cup {e}) <= Cardinality(G) + 1
        /\ Cardinality(G \cup {e}) \in Nat
    <3>1. IsFiniteSet(G \cup {e})
          /\ Cardinality(G \cup {e}) = IF e \in G THEN Cardinality(G) ELSE Cardinality(G) + 1
      BY <1>2, FS_AddElement
    <3> QED BY <1>2, <3>1
  <2>2. Cardinality(G') <= Cardinality(G \cup {e})
    BY <1>9, <2>1, FS_Subset
  <2>3. Cardinality(Freeing') = Cardinality(Freeing) + 1
    BY <1>3, <1>9, FS_AddElement
  <2> QED BY <1>2, <1>3, <1>4, <1>9, <2>1, <2>2, <2>3
<1>10. CASE /\ G' \subseteq G /\ nfree' = nfree + 1
            /\ Freeing' = Freeing \ {u} /\ u \in Freeing
  <2>1. Cardinality(Freeing') = Cardinality(Freeing) - 1
    BY <1>3, <1>10, FS_RemoveElement
  <2> QED BY <1>2, <1>3, <1>4, <1>6, <1>10, <2>1
<1> QED BY <1>5, <1>7, <1>8, <1>9, <1>10

-----------------------------------------------------------------------------
(* A connection's reference to an entry that is there.                     *)
LEMMA GetHitKeeps ==
  ASSUME L2tTypeOK, HopControl, NEW c \in Conns, NEW n \in Neighs, NEW t \in Tags,
         GetHit(c, n, t)
  PROVE  HopControl'
<1> USE DEF HopControl
<1>1. /\ c \in Users /\ pc[c] = "idle" /\ writer = None /\ writer' = c
      /\ chain' = chain /\ Hash[n] \in Entries
      /\ pc' = [pc EXCEPT ![c] = "reuse"] /\ want' = [want EXCEPT ![c] = <<n, t>>]
  BY HashAssumption DEF GetHit, GetStart, Goto, Users
<1>2. PICK e \in Hits(n, t) :
        /\ tab' = [tab EXCEPT ![e].ref = @ + 1]
        /\ nfree' = IF tab[e].ref = 0 THEN nfree - 1 ELSE nfree
        /\ at' = [at EXCEPT ![c] = e]
  BY DEF GetHit
<1>3. e \in Hops[Hash[n]] /\ tab[e].key = <<n, t>> /\ e \in Entries
  BY <1>1, <1>2, HopsOfEntries DEF Hits, Hops
<1>4. /\ \A f \in Entries : /\ tab'[f].key = tab[f].key /\ tab'[f].state = tab[f].state
                            /\ tab'[f].neigh = tab[f].neigh /\ tab'[f].arpq = tab[f].arpq
                            /\ tab[f].ref \in Nat
      /\ tab'[e].ref = tab[e].ref + 1 /\ \A f \in Entries \ {e} : tab'[f].ref = tab[f].ref
  BY <1>2, <1>3 DEF L2tTypeOK, HopRecords
<1>5. /\ pc'[c] = "reuse" /\ at'[c] = e /\ want'[c] = <<n, t>>
      /\ \A u \in Users \ {c} : pc'[u] = pc[u] /\ at'[u] = at[u] /\ want'[u] = want[u]
  BY <1>1, <1>2 DEF L2tTypeOK
<1>6. /\ \A u \in Users : pc[u] \notin {"init", "reuse"}
      /\ Initialising = {} /\ \A f \in Entries : ~Reused(f)
  BY <1>1, Unlocked
<1>7. Hops' = Hops /\ \A b \in Entries : Hops[b] \subseteq Entries
  BY <1>1, HopsOfEntries DEF Hops
<1>8. Initialising' = {} /\ Freeing' = Freeing
  BY <1>1, <1>5, <1>6 DEF Initialising, Freeing
<1>9. WriterOK'
  BY <1>1, <1>5, <1>6 DEF WriterOK
<1>10. CountOK'
  BY <1>1, <1>3, <1>4, <1>5, OneMoreUser DEF UsesHop
<1>11. ChainOK'
  BY <1>1, <1>3, <1>4, <1>7 DEF ChainOK, HopKeys
<1>12. InitOK'
  BY <1>5, <1>6 DEF InitOK
<1>13. UserOK'
  <2>1. \A u \in Users : at[u] \in Entries
    BY DEF L2tTypeOK
  <2> QED BY <1>1, <1>3, <1>4, <1>5, <2>1 DEF UserOK, ChainOK
<1>14. NeighOK'
  <2>1. \A f \in Entries \ {e} : Settled(f)' => Settled(f)
    BY <1>4, <1>6 DEF Settled
  <2>2. Reused(e)'
    BY <1>1, <1>5 DEF Reused
  <2>3. Settled(e)' => Settled(e)
    BY <1>3, <1>4, <1>6, <2>2 DEF Settled
  <2> QED BY <1>4, <2>1, <2>3 DEF NeighOK
<1>15. NothingKept'
  <2>1. \A u \in Freeing : at'[u] = at[u]
    BY <1>1, <1>5 DEF Freeing
  <2>2. \A f \in Entries : tab'[f].ref = 0 => tab[f].ref = 0
    BY <1>3, <1>4
  <2> QED BY <1>4, <1>6, <1>8, <2>1, <2>2 DEF NothingKept
<1>16. FreeNotMissed'
  <2>1. FreeEntries' = FreeEntries \ {e}
    BY <1>3, <1>4 DEF FreeEntries
  <2>2. tab[e].ref = 0 <=> e \in FreeEntries
    BY <1>3 DEF FreeEntries
  <2>3. nfree \in Int /\ nfree' \in Int
    BY <1>2 DEF L2tTypeOK
  <2>4. CASE tab[e].ref = 0
    BY <1>2, <1>6, <1>8, <2>1, <2>2, <2>3, <2>4, FreeCounted
  <2>5. CASE tab[e].ref # 0
    <3>1. nfree' >= nfree /\ FreeEntries' \subseteq FreeEntries
      BY <1>2, <2>1, <2>3, <2>5
    <3> QED BY <1>6, <1>8, <2>3, <3>1, FreeCounted
  <2> QED BY <2>4, <2>5
<1> QED BY <1>9, <1>10, <1>11, <1>12, <1>13, <1>14, <1>15, <1>16

(* The first user brings the entry up to date.                             *)
LEMMA GetReuseKeeps ==
  ASSUME L2tTypeOK, HopControl, NEW c \in Users, GetReuse(c)
  PROVE  HopControl'
<1> USE DEF HopControl
<1> DEFINE e == at[c]
           n == want[c][1]
<1>1. /\ pc[c] = "reuse" /\ writer' = None /\ pc' = [pc EXCEPT ![c] = "has"]
      /\ UNCHANGED <<chain, nfree, at, want>>
  BY DEF GetReuse, Goto, userVars
<1>2. /\ e \in Entries /\ tab[e].ref > 0 /\ tab[e].ref \in Nat /\ c \in Conns
      /\ tab[e].state # "SWITCHING" /\ tab[e].key = want[c]
  BY <1>1, SenderHas, HopFields DEF UsesHop
<1>3. /\ \A u \in Users \ {c} : pc[u] \notin {"init", "reuse"}
      /\ Initialising = {}
  BY <1>1, LockedBy
<1>4. /\ pc'[c] = "has" /\ \A u \in Users \ {c} : pc'[u] = pc[u]
  BY <1>1 DEF L2tTypeOK
<1>5. /\ \A f \in Entries : /\ tab'[f].ref = tab[f].ref /\ tab'[f].key = tab[f].key
                            /\ tab'[f].arpq = tab[f].arpq
      /\ \A f \in Entries \ {e} : tab'[f] = tab[f]
      /\ tab'[e].state # "SWITCHING"
      /\ tab[e].ref # 1 => tab' = tab
      /\ tab[e].ref = 1 => tab'[e].neigh = n
  <2>1. CASE tab[e].ref # 1
    <3>1. tab' = tab
      BY <2>1 DEF GetReuse
    <3> QED BY <1>2, <2>1, <3>1
  <2>2. CASE tab[e].ref = 1
    <3> DEFINE s == IF tab[e].dmac # Mac(n) \/ nud[n] \notin NudValid THEN "RESOLVING"
                    ELSE IF nud[n] = "reachable" THEN "VALID" ELSE "STALE"
    <3>1. tab' = [tab EXCEPT ![e].neigh = n, ![e].state = s]
      BY <2>2 DEF GetReuse
    <3>2. s # "SWITCHING"
      OBVIOUS
    <3> HIDE DEF s, n
    <3>3. tab \in [Entries -> HopRecords]
      BY DEF L2tTypeOK
    <3> QED BY <1>2, <2>2, <3>1, <3>2, <3>3 DEF HopRecords
  <2> QED BY <2>1, <2>2
<1> HIDE DEF e, n
<1>6. Hops' = Hops /\ \A b \in Entries : Hops[b] \subseteq Entries
  BY <1>1, HopsOfEntries DEF Hops
<1>7. Initialising' = {} /\ Freeing' = Freeing /\ FreeEntries' = FreeEntries
  BY <1>1, <1>3, <1>4, <1>5 DEF Initialising, Freeing, FreeEntries
<1>8. \A f \in Entries \ {e} : tab'[f].state = tab[f].state
  BY <1>5
<1>9. WriterOK'
  BY <1>3, <1>4 DEF WriterOK
<1>10. CountOK'
  <2>1. \A f \in Entries : tab'[f].ref >= tab[f].ref /\ tab'[f].ref \in Nat
    BY <1>5, HopFields
  <2> QED BY <1>1, <1>4, <2>1, SameUsers DEF UsesHop
<1>11. ChainOK'
  BY <1>1, <1>2, <1>5, <1>6, <1>8 DEF ChainOK
<1>12. InitOK'
  BY <1>3, <1>4 DEF InitOK
<1>13. UserOK'
  <2>1. \A u \in Users : at[u] \in Entries
    BY DEF L2tTypeOK
  <2> QED BY <1>1, <1>2, <1>4, <1>5, <1>8, <2>1 DEF UserOK, UsesHop
<1>14. NeighOK'
  <2>1. \A f \in Entries \ {e} : Settled(f)' => Settled(f)
    <3> SUFFICES ASSUME NEW f \in Entries \ {e}, Reused(f) PROVE Reused(f)'
      BY <1>5 DEF Settled
    <3>1. PICK u \in Users : pc[u] = "reuse" /\ at[u] = f
      BY DEF Reused
    <3>2. u # c
      BY <3>1 DEF e
    <3> QED BY <1>1, <1>4, <3>1, <3>2 DEF Reused
  <2>2. ASSUME tab[e].ref # 1 PROVE Settled(e) /\ tab'[e] = tab[e]
    BY <1>2, <1>5, <2>2 DEF Settled
  <2>3. ASSUME tab[e].ref = 1 PROVE tab'[e].neigh = tab'[e].key[1]
    BY <1>2, <1>5, <2>3 DEF n
  <2> QED BY <1>5, <2>1, <2>2, <2>3 DEF NeighOK
<1>15. NothingKept'
  BY <1>1, <1>2, <1>3, <1>5, <1>7 DEF NothingKept
<1>16. FreeNotMissed'
  BY <1>1, <1>3, <1>7 DEF FreeNotMissed
<1> QED BY <1>9, <1>10, <1>11, <1>12, <1>13, <1>14, <1>15, <1>16

(* An entry that nobody uses is taken for another neighbour.               *)
LEMMA GetAllocKeeps ==
  ASSUME L2tTypeOK, HopControl, NEW c \in Conns, NEW n \in Neighs, NEW t \in Tags,
         GetAlloc(c, n, t)
  PROVE  HopControl'
<1> USE DEF HopControl
<1> DEFINE e == Scan
<1>1. /\ c \in Users /\ pc[c] = "idle" /\ writer = None /\ writer' = c
      /\ chain' = Unchain(e) /\ nfree' = nfree - 1 /\ Hits(n, t) = {}
      /\ tab' = [tab EXCEPT ![e].state = "UNUSED"]
      /\ pc' = [pc EXCEPT ![c] = "init"] /\ want' = [want EXCEPT ![c] = <<n, t>>]
      /\ at' = [at EXCEPT ![c] = e] /\ Hash[n] \in Entries
  BY HashAssumption DEF GetAlloc, GetStart, Goto, Users
<1>2. e \in Entries /\ tab[e].ref = 0 /\ e \in FreeEntries
  BY ScanFindsFree DEF FreeEntries, GetAlloc
<1> HIDE DEF e
<1>3. /\ \A f \in Entries : /\ tab'[f].key = tab[f].key /\ tab'[f].ref = tab[f].ref
                            /\ tab'[f].neigh = tab[f].neigh /\ tab'[f].arpq = tab[f].arpq
                            /\ tab[f].ref \in Nat
      /\ tab'[e].state = "UNUSED" /\ \A f \in Entries \ {e} : tab'[f] = tab[f]
  BY <1>1, <1>2 DEF L2tTypeOK, HopRecords
<1>4. /\ pc'[c] = "init" /\ at'[c] = e /\ want'[c] = <<n, t>>
      /\ \A u \in Users \ {c} : pc'[u] = pc[u] /\ at'[u] = at[u] /\ want'[u] = want[u]
  BY <1>1, <1>2 DEF L2tTypeOK
<1>5. /\ \A u \in Users : pc[u] \notin {"init", "reuse"}
      /\ Initialising = {} /\ \A f \in Entries : ~Reused(f)
  BY <1>1, Unlocked
<1>6. \A b \in Entries : /\ Hops'[b] = Hops[b] \ {e} /\ IsInjective(chain'[b])
                         /\ Hops[b] \subseteq Entries
  BY <1>1, <1>2, Unchained, HopsOfEntries DEF Hops
<1>7. Initialising' = {e} /\ Freeing' = Freeing /\ FreeEntries' = FreeEntries
  BY <1>1, <1>3, <1>4, <1>5 DEF Initialising, Freeing, FreeEntries
<1>8. WriterOK'
  BY <1>1, <1>4, <1>5 DEF WriterOK
<1>9. CountOK'
  BY <1>1, <1>3, <1>4, SameUsers DEF UsesHop
<1>10. ChainOK'
  BY <1>2, <1>3, <1>6, HashAssumption DEF ChainOK, HopKeys
<1>11. InitOK'
  <2>1. \A f \in Hops[Hash[n]] : tab[f].key # <<n, t>>
    BY <1>1 DEF Hits, Hops
  <2>2. <<n, t>> \in HopKeys /\ <<n, t>>[1] = n
    BY DEF HopKeys
  <2> QED BY <1>1, <1>2, <1>3, <1>4, <1>5, <1>6, <2>1, <2>2 DEF InitOK
<1>12. UserOK'
  <2>1. \A u \in Users : at[u] \in Entries
    BY DEF L2tTypeOK
  <2> QED BY <1>1, <1>2, <1>3, <1>4, <2>1 DEF UserOK, UsesHop
<1>13. NeighOK'
  BY <1>2, <1>3, <1>5 DEF NeighOK, Settled
<1>14. NothingKept'
  <2>1. \A u \in Freeing : at'[u] = at[u]
    BY <1>1, <1>4 DEF Freeing
  <2> QED BY <1>3, <1>5, <1>7, <2>1 DEF NothingKept
<1>15. FreeNotMissed'
  <2>1. nfree \in Int /\ nfree' \in Int
    BY <1>1 DEF L2tTypeOK
  <2> QED BY <1>1, <1>2, <1>5, <1>7, <2>1, FreeCounted
<1> QED BY <1>8, <1>9, <1>10, <1>11, <1>12, <1>13, <1>14, <1>15

(* It gets its new neighbour and goes onto its chain.                      *)
LEMMA GetInitKeeps ==
  ASSUME L2tTypeOK, HopControl, NEW c \in Users, GetInit(c)
  PROVE  HopControl'
<1> USE DEF HopControl
<1> DEFINE e == at[c]
           n == want[c][1]
           b == Hash[n]
<1>1. /\ pc[c] = "init" /\ writer' = None /\ pc' = [pc EXCEPT ![c] = "has"]
      /\ UNCHANGED <<nfree, at, want>>
      /\ tab' = [tab EXCEPT ![e].state = "RESOLVING", ![e].key = want[c],
                            ![e].ref = 1, ![e].neigh = n]
      /\ chain' = [chain EXCEPT ![b] = <<e>> \o @]
  BY DEF GetInit, Goto, userVars
<1>2. /\ e \in Entries /\ tab[e].ref = 0 /\ want[c] \in HopKeys /\ n \in Neighs /\ b \in Entries
      /\ \A d \in Entries : e \notin Hops[d]
      /\ \A f \in Hops[b] : tab[f].key # want[c]
  BY <1>1, HashAssumption DEF InitOK, HopKeys, L2tTypeOK
<1> HIDE DEF e, n, b
<1>3. /\ \A u \in Users \ {c} : pc[u] \notin {"init", "reuse"}
      /\ Initialising = {e}
  BY <1>1, LockedBy DEF e
<1>4. /\ pc'[c] = "has" /\ \A u \in Users \ {c} : pc'[u] = pc[u]
  BY <1>1 DEF L2tTypeOK
<1>5. /\ tab'[e].state = "RESOLVING" /\ tab'[e].key = want[c] /\ tab'[e].ref = 1
      /\ tab'[e].neigh = n /\ \A f \in Entries \ {e} : tab'[f] = tab[f]
  BY <1>1, <1>2 DEF L2tTypeOK, HopRecords
<1>6. /\ chain[b] \in Seq(Entries) /\ IsInjective(chain[b]) /\ e \notin ToSet(chain[b])
      /\ chain'[b] = <<e>> \o chain[b] /\ \A d \in Entries \ {b} : chain'[d] = chain[d]
  BY <1>1, <1>2 DEF L2tTypeOK, ChainOK, Hops
<1>7. /\ \A d \in Entries : IsInjective(chain'[d]) /\ Hops[d] \subseteq Entries
      /\ Hops'[b] = Hops[b] \cup {e} /\ \A d \in Entries \ {b} : Hops'[d] = Hops[d]
  <2>1. /\ IsInjective(<<e>> \o chain[b])
        /\ ToSet(<<e>> \o chain[b]) = ToSet(chain[b]) \cup {e}
    BY <1>2, <1>6, PutAhead
  <2>2. IsInjective(chain'[b]) /\ Hops'[b] = Hops[b] \cup {e}
    BY <1>2, <1>6, <2>1 DEF Hops
  <2>3. \A d \in Entries \ {b} : IsInjective(chain'[d]) /\ Hops'[d] = Hops[d]
    BY <1>6 DEF Hops, ChainOK
  <2> QED BY <2>2, <2>3, HopsOfEntries
<1>8. Initialising' = {} /\ Freeing' = Freeing /\ FreeEntries' = FreeEntries \ {e}
  <2>1. \A u \in Users : pc'[u] # "init" /\ (pc'[u] = "free" <=> pc[u] = "free")
    BY <1>1, <1>3, <1>4
  <2>2. Initialising' = {} /\ Freeing' = Freeing
    BY <2>1 DEF Initialising, Freeing
  <2>3. \A f \in Entries : tab'[f].ref = 0 <=> f # e /\ tab[f].ref = 0
    BY <1>5
  <2> QED BY <2>2, <2>3 DEF FreeEntries
<1>9. WriterOK'
  BY <1>3, <1>4 DEF WriterOK
<1>10. CountOK'
  <2>1. at'[c] = e /\ pc[c] \notin UsesHop /\ pc'[c] \in UsesHop
    BY <1>1, <1>4 DEF e, UsesHop
  <2>2. tab'[e].ref = tab[e].ref + 1
    BY <1>2, <1>5
  <2> QED BY <1>1, <1>2, <1>4, <1>5, <2>1, <2>2, OneMoreUser
<1>11. ChainOK'
  <2>1. \A d \in Entries : \A f \in Hops'[d] :
          tab'[f].state # "SWITCHING" /\ tab'[f].key \in HopKeys /\ Hash[tab'[f].key[1]] = d
    BY <1>2, <1>5, <1>7 DEF ChainOK, b, n
  <2>2. \A d \in Entries : \A f, g \in Hops'[d] : tab'[f].key = tab'[g].key => f = g
    BY <1>2, <1>5, <1>7 DEF ChainOK
  <2>3. \A f \in Entries :
          tab'[f].ref > 0 /\ tab'[f].state # "SWITCHING" =>
            tab'[f].key \in HopKeys /\ f \in Hops'[Hash[tab'[f].key[1]]]
    <3>1. \A k \in HopKeys : Hash[k[1]] \in Entries
      BY HashAssumption DEF HopKeys
    <3> QED BY <1>2, <1>5, <1>7, <3>1 DEF ChainOK, b, n
  <2> QED BY <1>7, <2>1, <2>2, <2>3 DEF ChainOK
<1>12. InitOK'
  BY <1>3, <1>4 DEF InitOK
<1>13. UserOK'
  <2>1. \A u \in Users : at[u] \in Entries
    BY DEF L2tTypeOK
  <2>2. \A u \in Users \ {c} : pc[u] \in UsesHop => at[u] # e
    BY <1>2, Unused
  <2>3. \A u \in Users \ {c} : pc'[u] \in UsesHop =>
          pc[u] \in UsesHop /\ tab'[at[u]] = tab[at[u]]
    BY <1>4, <1>5, <2>1, <2>2
  <2>4. at'[c] = e /\ want'[c] = want[c] /\ pc'[c] = "has"
    BY <1>1, <1>4 DEF e
  <2>5. tab'[e].state # "SWITCHING" /\ tab'[e].key = want[c]
    BY <1>5
  <2>6. at' = at /\ want' = want
    BY <1>1
  <2> SUFFICES ASSUME NEW u \in Users, pc'[u] \in UsesHop
               PROVE  IF u \in Conns THEN tab'[at[u]].state # "SWITCHING" /\ tab'[at[u]].key = want[u]
                      ELSE pc'[u] = "has"
    BY <2>6, Zenon DEF UserOK
  <2>7. CASE u = c
    BY <2>4, <2>5, <2>6, <2>7
  <2>8. CASE u # c
    BY <1>4, <2>3, <2>8 DEF UserOK
  <2> QED BY <2>7, <2>8
<1>14. NeighOK'
  <2>1. \A f \in Entries \ {e} : Settled(f)' => Settled(f)
    BY <1>1, <1>3, <1>5 DEF Settled, Reused
  <2> QED BY <1>5, <2>1 DEF NeighOK, n
<1>15. NothingKept'
  <2>1. tab'[e].ref # 0
    BY <1>5
  <2>2. \A f \in Entries \ {e} : f \notin Initialising /\ tab'[f] = tab[f]
    BY <1>3, <1>5
  <2> QED BY <1>1, <1>8, <2>1, <2>2 DEF NothingKept
<1>16. FreeNotMissed'
  <2>1. nfree \in Int /\ nfree' \in Int /\ nfree' >= nfree
    BY <1>1 DEF L2tTypeOK
  <2> QED BY <1>3, <1>8, <2>1, FreeCounted
<1> QED BY <1>9, <1>10, <1>11, <1>12, <1>13, <1>14, <1>15, <1>16

(* A user puts its reference, the last of which is freed later.            *)
LEMMA ReleaseKeeps ==
  ASSUME L2tTypeOK, HopControl, NEW u \in Users, Release(u)
  PROVE  HopControl'
<1> USE DEF HopControl
<1> DEFINE e == at[u]
<1>1. /\ pc[u] = "has" /\ UNCHANGED <<chain, nfree, writer>>
      /\ tab' = [tab EXCEPT ![e].ref = @ - 1]
      /\ IF tab[e].ref = 1 THEN Goto(u, "free") /\ UNCHANGED <<at, want>> ELSE Leave(u)
  BY DEF Release
<1>2. e \in Entries /\ tab[e].ref > 0 /\ tab[e].ref \in Nat
  BY <1>1, SenderHas, HopFields DEF UsesHop
<1>3. /\ \A v \in Users \ {u} : pc'[v] = pc[v] /\ at'[v] = at[v] /\ want'[v] = want[v]
      /\ pc'[u] = IF tab[e].ref = 1 THEN "free" ELSE "idle"
      /\ tab[e].ref = 1 => at'[u] = e
  BY <1>1 DEF Goto, Leave, L2tTypeOK
<1> HIDE DEF e
<1>4. /\ \A f \in Entries : /\ tab'[f].key = tab[f].key /\ tab'[f].state = tab[f].state
                            /\ tab'[f].neigh = tab[f].neigh /\ tab'[f].arpq = tab[f].arpq
                            /\ tab[f].ref \in Nat
      /\ tab'[e].ref = tab[e].ref - 1 /\ \A f \in Entries \ {e} : tab'[f].ref = tab[f].ref
  BY <1>1, <1>2 DEF L2tTypeOK, HopRecords
<1>5. Hops' = Hops /\ \A b \in Entries : Hops[b] \subseteq Entries
  BY <1>1, HopsOfEntries DEF Hops
<1>6. \A v \in Users : /\ pc'[v] = "init" <=> pc[v] = "init"
                       /\ pc'[v] = "reuse" <=> pc[v] = "reuse"
                       /\ pc'[v] \in {"init", "reuse"} => v # u
  BY <1>1, <1>3
<1>7. Initialising' = Initialising /\ \A f \in Entries : Reused(f)' <=> Reused(f)
  BY <1>3, <1>6 DEF Initialising, Reused
<1>8. WriterOK'
  BY <1>1, <1>6 DEF WriterOK
<1>9. CountOK'
  <2>1. pc[u] \in UsesHop /\ pc'[u] \notin UsesHop
    BY <1>1, <1>3 DEF UsesHop
  <2>2. tab'[at[u]].ref = tab[at[u]].ref - 1 /\ \A f \in Entries \ {at[u]} : tab'[f].ref = tab[f].ref
    BY <1>4 DEF e
  <2> QED BY <1>3, <2>1, <2>2, OneUserLess
<1>10. ChainOK'
  BY <1>1, <1>2, <1>4, <1>5 DEF ChainOK
<1>11. InitOK'
  <2>1. \A v \in Users : pc[v] = "init" => /\ at[v] \in Entries /\ at[v] # e
                                           /\ Hash[want[v][1]] \in Entries
    BY <1>2, HashAssumption DEF InitOK, L2tTypeOK, HopKeys
  <2>2. \A v \in Users : pc'[v] = "init" => /\ pc[v] = "init" /\ at'[v] = at[v]
                                            /\ want'[v] = want[v] /\ tab'[at[v]].ref = tab[at[v]].ref
    BY <1>3, <1>4, <1>6, <2>1
  <2> QED BY <1>4, <1>5, <2>1, <2>2 DEF InitOK
<1>12. UserOK'
  <2>1. \A v \in Users : at[v] \in Entries
    BY DEF L2tTypeOK
  <2>2. pc'[u] \notin UsesHop
    BY <1>3 DEF UsesHop
  <2> QED BY <1>3, <1>4, <2>1, <2>2 DEF UserOK
<1>13. NeighOK'
  <2>1. \A f \in Entries : Settled(f)' => Settled(f)
    BY <1>2, <1>4, <1>7 DEF Settled
  <2> QED BY <1>4, <2>1 DEF NeighOK
<1>14. Freeing' = IF tab[e].ref = 1 THEN Freeing \cup {u} ELSE Freeing
  BY <1>1, <1>3 DEF Freeing
<1>15. u \notin Freeing
  BY <1>1 DEF Freeing
<1>16. NothingKept'
  <2> SUFFICES ASSUME NEW f \in Entries, tab'[f].ref = 0, \A v \in Freeing' : at'[v] # f,
                      f \notin Initialising
               PROVE  tab'[f].neigh = None /\ tab'[f].arpq = <<>>
    BY <1>7, Zenon DEF NothingKept
  <2>1. f # e
    <3>1. CASE tab[e].ref = 1
      BY <1>3, <1>14, <3>1
    <3>2. CASE tab[e].ref # 1
      BY <1>2, <1>4, <3>2
    <3> QED BY <3>1, <3>2
  <2>2. \A v \in Freeing : v \in Freeing' /\ at'[v] = at[v]
    BY <1>3, <1>14, <1>15 DEF Freeing
  <2> QED BY <1>4, <2>1, <2>2 DEF NothingKept
<1>17. FreeNotMissed'
  <2>1. nfree \in Int /\ nfree' = nfree
    BY <1>1 DEF L2tTypeOK
  <2>2. CASE tab[e].ref = 1
    <3>1. FreeEntries' \subseteq FreeEntries \cup {e}
      BY <1>4 DEF FreeEntries
    <3> QED BY <1>7, <1>14, <1>15, <2>1, <2>2, <3>1, FreeCounted
  <2>3. CASE tab[e].ref # 1
    <3>1. FreeEntries' \subseteq FreeEntries
      BY <1>2, <1>4, <2>3 DEF FreeEntries
    <3> QED BY <1>7, <1>14, <2>1, <2>3, <3>1, FreeCounted
  <2> QED BY <2>2, <2>3
<1> QED BY <1>8, <1>9, <1>10, <1>11, <1>12, <1>13, <1>16, <1>17

(* The entry is cleared, unless somebody uses it again.                    *)
LEMMA FreeKeeps ==
  ASSUME L2tTypeOK, HopControl, NEW u \in Users, Free(u)
  PROVE  HopControl'
<1> USE DEF HopControl
<1> DEFINE e == at[u]
<1>1. /\ pc[u] = "free" /\ UNCHANGED <<chain, writer>> /\ nfree' = nfree + 1 /\ Leave(u)
      /\ tab' = IF tab[e].ref = 0 THEN [tab EXCEPT ![e].neigh = None, ![e].arpq = <<>>]
                ELSE tab
  BY DEF Free
<1>2. e \in Entries /\ tab[e].ref \in Nat
  BY HopFields DEF L2tTypeOK
<1>3. /\ \A v \in Users \ {u} : pc'[v] = pc[v] /\ at'[v] = at[v] /\ want'[v] = want[v]
      /\ pc'[u] = "idle"
  BY <1>1 DEF Leave, Goto, L2tTypeOK
<1>4. /\ \A f \in Entries : /\ tab'[f].key = tab[f].key /\ tab'[f].state = tab[f].state
                            /\ tab'[f].ref = tab[f].ref /\ tab[f].ref \in Nat
      /\ \A f \in Entries \ {e} : tab'[f] = tab[f]
      /\ tab[e].ref = 0 => tab'[e].neigh = None /\ tab'[e].arpq = <<>>
      /\ tab[e].ref # 0 => tab' = tab
  <2>1. CASE tab[e].ref = 0
    <3> HIDE DEF e
    <3>1. tab' = [tab EXCEPT ![e].neigh = None, ![e].arpq = <<>>]
      BY <1>1, <2>1
    <3> QED BY <1>2, <2>1, <3>1 DEF L2tTypeOK, HopRecords
  <2>2. CASE tab[e].ref # 0
    <3>1. tab' = tab
      BY <1>1, <2>2
    <3> QED BY <2>2, <3>1, HopFields
  <2> QED BY <2>1, <2>2
<1> HIDE DEF e
<1>5. Hops' = Hops /\ \A b \in Entries : Hops[b] \subseteq Entries
  BY <1>1, HopsOfEntries DEF Hops
<1>6. \A v \in Users : /\ pc'[v] = "init" <=> pc[v] = "init"
                       /\ pc'[v] = "reuse" <=> pc[v] = "reuse"
                       /\ pc'[v] \in {"init", "reuse"} => v # u
  BY <1>1, <1>3
<1>7. /\ Initialising' = Initialising /\ \A f \in Entries : Reused(f)' <=> Reused(f)
      /\ FreeEntries' = FreeEntries
  BY <1>3, <1>4, <1>6 DEF Initialising, Reused, FreeEntries
<1>8. WriterOK'
  BY <1>1, <1>6 DEF WriterOK
<1>9. CountOK'
  <2>1. \A v \in Users : /\ pc'[v] \in UsesHop <=> pc[v] \in UsesHop
                         /\ pc[v] \in UsesHop => at'[v] = at[v]
    BY <1>1, <1>3 DEF UsesHop
  <2>2. \A f \in Entries : tab'[f].ref >= tab[f].ref /\ tab'[f].ref \in Nat
    BY <1>4
  <2> QED BY <2>1, <2>2, SameUsers
<1>10. ChainOK'
  <2>1. \A b \in Entries : IsInjective(chain'[b])
    BY <1>1 DEF ChainOK
  <2>2. \A b \in Entries : \A f \in Hops'[b] :
          tab'[f].state # "SWITCHING" /\ tab'[f].key \in HopKeys /\ Hash[tab'[f].key[1]] = b
    BY <1>4, <1>5 DEF ChainOK
  <2>3. \A b \in Entries : \A f, g \in Hops'[b] : tab'[f].key = tab'[g].key => f = g
    BY <1>4, <1>5 DEF ChainOK
  <2>4. \A f \in Entries :
          tab'[f].ref > 0 /\ tab'[f].state # "SWITCHING" =>
            tab'[f].key \in HopKeys /\ f \in Hops'[Hash[tab'[f].key[1]]]
    BY <1>4, <1>5 DEF ChainOK
  <2> QED BY <2>1, <2>2, <2>3, <2>4 DEF ChainOK
<1>11. InitOK'
  <2>1. \A v \in Users : pc[v] = "init" => at[v] \in Entries /\ Hash[want[v][1]] \in Entries
    BY HashAssumption DEF InitOK, L2tTypeOK, HopKeys
  <2>2. \A v \in Users : pc'[v] = "init" => /\ pc[v] = "init" /\ at'[v] = at[v]
                                            /\ want'[v] = want[v]
    BY <1>3, <1>6
  <2> QED BY <1>4, <1>5, <2>1, <2>2 DEF InitOK
<1>12. UserOK'
  <2>1. \A v \in Users : at[v] \in Entries
    BY DEF L2tTypeOK
  <2>2. pc'[u] \notin UsesHop
    BY <1>3 DEF UsesHop
  <2> QED BY <1>3, <1>4, <2>1, <2>2 DEF UserOK
<1>13. NeighOK'
  <2>1. \A f \in Entries : Settled(f)' => Settled(f) /\ tab'[f].neigh = tab[f].neigh
    BY <1>4, <1>7 DEF Settled
  <2> QED BY <1>4, <2>1 DEF NeighOK
<1>14. Freeing' = Freeing \ {u} /\ u \in Freeing
  BY <1>1, <1>3 DEF Freeing
<1>15. NothingKept'
  <2> SUFFICES ASSUME NEW f \in Entries, tab'[f].ref = 0, \A v \in Freeing' : at'[v] # f,
                      f \notin Initialising
               PROVE  tab'[f].neigh = None /\ tab'[f].arpq = <<>>
    BY <1>7, Zenon DEF NothingKept
  <2>1. CASE f = e
    BY <1>4, <2>1
  <2>2. CASE f # e
    <3>1. \A v \in Freeing : at[v] # f
      BY <1>3, <1>14, <2>2 DEF e, Freeing
    <3> QED BY <1>4, <2>2, <3>1 DEF NothingKept
  <2> QED BY <2>1, <2>2
<1>16. FreeNotMissed'
  <2>1. nfree \in Int /\ nfree' \in Int
    BY <1>1 DEF L2tTypeOK
  <2> QED BY <1>1, <1>7, <1>14, <2>1, FreeCounted
<1> QED BY <1>8, <1>9, <1>10, <1>11, <1>12, <1>13, <1>15, <1>16

(* A filter takes an entry of its own, or joins one of the same rule.      *)
LEMMA SwitchJoins ==
  ASSUME L2tTypeOK, HopControl, NEW f \in Switchers, NEW k \in Tags, NEW e \in SameRule(k),
         pc[f] = "idle", writer = None, UNCHANGED <<chain, nfree, writer, want>>,
         tab' = [tab EXCEPT ![e].ref = @ + 1], at' = [at EXCEPT ![f] = e], Goto(f, "has")
  PROVE  HopControl'
<1> USE DEF HopControl
<1>1. f \in Users /\ f \notin Conns /\ pc' = [pc EXCEPT ![f] = "has"]
  BY UsersAssumption DEF Users, Goto
<1>2. e \in Entries /\ tab[e].ref > 0 /\ tab[e].state = "SWITCHING" /\ tab[e].ref \in Nat
  BY HopFields DEF SameRule
<1>3. /\ \A g \in Entries : /\ tab'[g].key = tab[g].key /\ tab'[g].state = tab[g].state
                            /\ tab'[g].neigh = tab[g].neigh /\ tab'[g].arpq = tab[g].arpq
                            /\ tab[g].ref \in Nat
      /\ tab'[e].ref = tab[e].ref + 1 /\ \A g \in Entries \ {e} : tab'[g].ref = tab[g].ref
  BY <1>2 DEF L2tTypeOK, HopRecords
<1>4. /\ pc'[f] = "has" /\ at'[f] = e /\ want' = want
      /\ \A u \in Users \ {f} : pc'[u] = pc[u] /\ at'[u] = at[u]
  BY <1>1 DEF L2tTypeOK
<1>5. \A u \in Users : pc[u] \notin {"init", "reuse"} /\ pc'[u] \notin {"init", "reuse"}
  BY <1>4, Unlocked
<1>6. Hops' = Hops /\ \A b \in Entries : Hops[b] \subseteq Entries
  BY HopsOfEntries DEF Hops
<1>7. /\ Initialising = {} /\ Initialising' = {} /\ Freeing' = Freeing
      /\ FreeEntries' = FreeEntries /\ \A g \in Entries : ~Reused(g) /\ ~Reused(g)'
  <2>1. Freeing' = Freeing
    BY <1>4 DEF Freeing
  <2>2. FreeEntries' = FreeEntries
    BY <1>2, <1>3 DEF FreeEntries
  <2> QED BY <1>5, <2>1, <2>2 DEF Initialising, Reused
<1>8. WriterOK'
  BY <1>5 DEF WriterOK
<1>9. CountOK'
  BY <1>1, <1>2, <1>3, <1>4, OneMoreUser DEF UsesHop
<1>10. ChainOK'
  <2>1. \A g \in Entries : tab'[g].state # "SWITCHING" => tab'[g].ref = tab[g].ref
    BY <1>2, <1>3
  <2> QED BY <1>3, <1>6, <2>1 DEF ChainOK
<1>11. InitOK'
  BY <1>5 DEF InitOK
<1>12. UserOK'
  <2>1. \A u \in Users : at[u] \in Entries
    BY DEF L2tTypeOK
  <2> QED BY <1>1, <1>3, <1>4, <2>1 DEF UserOK
<1>13. NeighOK'
  <2>1. \A g \in Entries : Settled(g)' => Settled(g)
    BY <1>2, <1>3, <1>7 DEF Settled
  <2> QED BY <1>3, <2>1 DEF NeighOK
<1>14. NothingKept'
  <2>1. \A u \in Freeing : at'[u] = at[u]
    BY <1>4 DEF Freeing
  <2>2. \A g \in Entries : tab'[g].ref = 0 => tab[g].ref = 0
    BY <1>2, <1>3
  <2> QED BY <1>3, <1>7, <2>1, <2>2 DEF NothingKept
<1>15. FreeNotMissed'
  BY <1>7 DEF FreeNotMissed
<1> QED BY <1>8, <1>9, <1>10, <1>11, <1>12, <1>13, <1>14, <1>15

(* (A rule whose write fails leaves the entry counted and without a user.) *)
LEMMA SwitchTakes ==
  ASSUME L2tTypeOK, HopControl, NEW f \in Switchers, NEW e \in FreeEntries, NEW q \in HopRecords,
         pc[f] = "idle", writer = None, UNCHANGED <<writer, want>>, chain' = Unchain(e),
         tab' = [tab EXCEPT ![e] = q], q.state = "SWITCHING", q.ref = 1,
         \/ at' = [at EXCEPT ![f] = e] /\ Goto(f, "has") /\ nfree' = nfree
         \/ UNCHANGED <<at, pc>> /\ nfree' = nfree + 1
  PROVE  HopControl'
<1> USE DEF HopControl
<1>1. f \in Users /\ f \notin Conns
  BY UsersAssumption DEF Users
<1>2. /\ e \in Entries /\ tab[e].ref = 0
      /\ \A u \in Users : pc[u] \in UsesHop => at[u] # e
  BY Unused DEF FreeEntries
<1>3. tab'[e] = q /\ \A g \in Entries \ {e} : tab'[g] = tab[g]
  BY <1>2, HopChanged
<1>4. /\ \/ pc'[f] = "has" /\ at'[f] = e
         \/ pc'[f] = pc[f] /\ at'[f] = at[f]
      /\ \A u \in Users \ {f} : pc'[u] = pc[u] /\ at'[u] = at[u]
  BY <1>1 DEF Goto, L2tTypeOK
<1>5. \A u \in Users : pc[u] \notin {"init", "reuse"} /\ pc'[u] \notin {"init", "reuse"}
  BY <1>4, Unlocked
<1>6. \A b \in Entries : /\ Hops'[b] = Hops[b] \ {e} /\ IsInjective(chain'[b])
                         /\ Hops[b] \subseteq Entries
  BY <1>2, Unchained, HopsOfEntries DEF Hops
<1>7. /\ Initialising = {} /\ Initialising' = {} /\ Freeing' = Freeing
      /\ FreeEntries' \subseteq FreeEntries /\ \A g \in Entries : ~Reused(g) /\ ~Reused(g)'
  <2>1. Freeing' = Freeing
    BY <1>4 DEF Freeing
  <2>2. FreeEntries' \subseteq FreeEntries
    BY <1>2, <1>3 DEF FreeEntries
  <2> QED BY <1>5, <2>1, <2>2 DEF Initialising, Reused
<1>8. WriterOK'
  BY <1>5 DEF WriterOK
<1>9. CountOK'
  <2>1. CASE pc'[f] = "has" /\ at'[f] = e
    BY <1>1, <1>2, <1>3, <1>4, <2>1, OneMoreUser DEF UsesHop
  <2>2. CASE pc'[f] = pc[f] /\ at'[f] = at[f]
    <3>1. \A g \in Entries : tab'[g].ref >= tab[g].ref /\ tab'[g].ref \in Nat
      BY <1>2, <1>3, HopFields
    <3> QED BY <1>4, <2>2, <3>1, SameUsers
  <2> QED BY <1>4, <2>1, <2>2
<1>10. ChainOK'
  <2>1. \A b \in Entries : \A g \in Hops'[b] :
          tab'[g].state # "SWITCHING" /\ tab'[g].key \in HopKeys /\ Hash[tab'[g].key[1]] = b
    BY <1>3, <1>6 DEF ChainOK
  <2>2. \A b \in Entries : \A g, h \in Hops'[b] : tab'[g].key = tab'[h].key => g = h
    BY <1>3, <1>6 DEF ChainOK
  <2>3. \A g \in Entries :
          tab'[g].ref > 0 /\ tab'[g].state # "SWITCHING" =>
            tab'[g].key \in HopKeys /\ g \in Hops'[Hash[tab'[g].key[1]]]
    <3>1. \A kk \in HopKeys : Hash[kk[1]] \in Entries
      BY HashAssumption DEF HopKeys
    <3> QED BY <1>2, <1>3, <1>6, <3>1 DEF ChainOK
  <2> QED BY <1>6, <2>1, <2>2, <2>3 DEF ChainOK
<1>11. InitOK'
  BY <1>5 DEF InitOK
<1>12. UserOK'
  <2>1. \A u \in Users : at[u] \in Entries
    BY DEF L2tTypeOK
  <2> QED BY <1>1, <1>2, <1>3, <1>4, <2>1 DEF UserOK, UsesHop
<1>13. NeighOK'
  <2>1. \A g \in Entries : Settled(g)' => g # e /\ Settled(g)
    BY <1>2, <1>3, <1>7 DEF Settled
  <2> QED BY <1>3, <2>1 DEF NeighOK
<1>14. NothingKept'
  <2>1. \A u \in Freeing : at'[u] = at[u]
    BY <1>4 DEF Freeing
  <2> QED BY <1>2, <1>3, <1>7, <2>1 DEF NothingKept
<1>15. FreeNotMissed'
  <2>1. nfree \in Int /\ nfree' \in Int /\ nfree' >= nfree
    BY DEF L2tTypeOK
  <2> QED BY <1>7, <2>1, FreeCounted
<1> QED BY <1>8, <1>9, <1>10, <1>11, <1>12, <1>13, <1>14, <1>15

(* What a rule writes into its entry.                                      *)
LEMMA RuleRecord ==
  ASSUME L2tTypeOK, NEW e \in Entries, NEW k \in Tags
  PROVE  LET r == [tab[e] EXCEPT !.state = "SWITCHING", !.dmac = Rule(k), !.ref = 1]
         IN /\ r \in HopRecords /\ r.state = "SWITCHING" /\ r.ref = 1 /\ r.key = tab[e].key
            /\ r.neigh = tab[e].neigh /\ r.arpq = tab[e].arpq /\ r.sync = tab[e].sync
BY HopFields DEF HopRecords, HopStates, Rule

LEMMA SwitchAllocKeeps ==
  ASSUME L2tTypeOK, HopControl, NEW f \in Switchers, NEW k \in Tags, SwitchAlloc(f, k)
  PROVE  HopControl'
<1>1. pc[f] = "idle" /\ writer = None /\ UNCHANGED <<writer, want>>
  BY DEF SwitchAlloc
<1>2. CASE \E e \in SameRule(k) :
             /\ tab' = [tab EXCEPT ![e].ref = @ + 1]
             /\ at' = [at EXCEPT ![f] = e]
             /\ Goto(f, "has")
             /\ UNCHANGED <<chain, nfree, faults>>
  BY <1>1, <1>2, SwitchJoins
<1> DEFINE e == First(FreeEntries)
           r == [tab[e] EXCEPT !.state = "SWITCHING", !.dmac = Rule(k), !.ref = 1]
<1>3. CASE /\ FreeEntries # {} /\ chain' = Unchain(e) /\ WriteEntry(e, r, 0)
           /\ IF faults' = faults
              THEN at' = [at EXCEPT ![f] = e] /\ Goto(f, "has") /\ UNCHANGED nfree
              ELSE nfree' = nfree + 1 /\ UNCHANGED <<at, pc>>
  <2>1. e \in FreeEntries /\ e \in Entries
    BY <1>3, ScanFindsFree DEF FreeEntries
  <2>2. r \in HopRecords /\ r.state = "SWITCHING" /\ r.ref = 1
    BY <2>1, RuleRecord
  <2> HIDE DEF e, r
  <2>3. PICK q \in HopRecords : /\ tab' = [tab EXCEPT ![e] = q]
                                /\ q.ref = r.ref
                                /\ q.state = "SWITCHING" <=> r.state = "SWITCHING"
    BY <1>3, <2>1, <2>2, EntryWritten
  <2> QED BY <1>1, <1>3, <2>1, <2>2, <2>3, SwitchTakes
<1>4. CASE UNCHANGED <<tab, chain, nfree, at, pc, faults>>
  BY <1>1, <1>4, CalmIfIdle, CalmKeeps
<1> QED BY <1>2, <1>3, <1>4 DEF SwitchAlloc

(* A connection that is refused, or lost.                                  *)
LEMMA GetFailsKeeps ==
  ASSUME L2tTypeOK, HopControl, NEW c \in Conns, NEW n \in Neighs, NEW t \in Tags,
         GetRefused(c, n, t) \/ GetOverrun(c, n, t)
  PROVE  HopControl'
<1>1. CASE GetRefused(c, n, t)
  BY <1>1, CalmIfIdle, CalmKeeps DEF GetRefused
<1>2. CASE GetOverrun(c, n, t)
  <2>1. /\ tab' = tab /\ UNCHANGED <<chain, nfree, writer, at, want>>
        /\ pc[c] = "idle" /\ pc' = [pc EXCEPT ![c] = "lost"]
    BY <1>2 DEF GetOverrun, GetStart, Goto
  <2>2. \A u \in Users : pc'[u] = pc[u] \/ (pc[u] = "idle" /\ pc'[u] = "lost")
    BY <2>1 DEF L2tTypeOK
  <2>3. \A e \in Entries : tab'[e].neigh \in {tab[e].neigh, tab[e].key[1]}
    BY <2>1
  <2>4. Calm
    BY <2>1, <2>2, <2>3 DEF Calm
  <2> QED BY <2>4, CalmKeeps
<1> QED BY <1>1, <1>2

-----------------------------------------------------------------------------
(* The type invariant is inductive.                                        *)
LEMMA HopTabWritten ==
  ASSUME L2tTypeOK, NEW e \in Entries, NEW r \in HopRecords, NEW sync \in {0, 1},
         WriteEntry(e, r, sync)
  PROVE  tab' \in [Entries -> HopRecords] /\ faults' \in Nat
<1>1. PICK q \in HopRecords : tab' = [tab EXCEPT ![e] = q] /\ faults' \in {faults, faults + 1}
  BY EntryWritten
<1> QED BY <1>1, HopChanged DEF L2tTypeOK

LEMMA UserTabTyped ==
  ASSUME L2tTypeOK, HopControl, NEW u \in Users, UserNext(u)
  PROVE  tab' \in [Entries -> HopRecords] /\ faults' \in Nat
<1>0. tab \in [Entries -> HopRecords] /\ faults \in Nat /\ at[u] \in Entries
  BY DEF L2tTypeOK
<1>1. ASSUME NEW e \in Entries
      PROVE  /\ tab[e] \in HopRecords /\ tab[e].ref \in Nat /\ tab[e].arpq \in Seq(Users)
             /\ tab[e].ref + 1 \in Nat
  BY HopFields
<1>2. ASSUME NEW c \in Conns, NEW n \in Neighs, NEW t \in Tags, u = c, GetHit(c, n, t)
      PROVE  tab' \in [Entries -> HopRecords] /\ faults' \in Nat
  <2>1. PICK e \in Hits(n, t) : tab' = [tab EXCEPT ![e].ref = @ + 1]
    BY <1>2 DEF GetHit
  <2>2. e \in Entries
    BY HashAssumption, HopsOfEntries DEF Hits, Hops
  <2>3. tab' = [tab EXCEPT ![e] = [tab[e] EXCEPT !.ref = tab[e].ref + 1]]
    BY <2>1
  <2>4. [tab[e] EXCEPT !.ref = tab[e].ref + 1] \in HopRecords
    BY <1>1, <2>2 DEF HopRecords
  <2> QED BY <1>0, <1>2, <2>2, <2>3, <2>4, HopChanged DEF GetHit
<1>3. ASSUME NEW c \in Conns, NEW n \in Neighs, NEW t \in Tags, GetAlloc(c, n, t)
      PROVE  tab' \in [Entries -> HopRecords] /\ faults' \in Nat
  <2>1. Scan \in Entries
    BY <1>3, ScanFindsFree DEF FreeEntries, GetAlloc
  <2>2. [tab[Scan] EXCEPT !.state = "UNUSED"] \in HopRecords
    BY <1>1, <2>1 DEF HopRecords, HopStates
  <2>3. tab' = [tab EXCEPT ![Scan] = [tab[Scan] EXCEPT !.state = "UNUSED"]]
    BY <1>3 DEF GetAlloc
  <2> HIDE DEF Scan
  <2> QED BY <1>0, <1>3, <2>1, <2>2, <2>3, HopChanged DEF GetAlloc
<1>4. CASE GetReuse(u)
  <2> DEFINE e == at[u]
             n == want[u][1]
             s == IF tab[e].dmac # Mac(n) \/ nud[n] \notin NudValid THEN "RESOLVING"
                  ELSE IF nud[n] = "reachable" THEN "VALID" ELSE "STALE"
             r == [tab[e] EXCEPT !.neigh = n, !.state = s]
  <2>1. want[u] \in HopKeys
    <3>1. tab[e].ref > 0 /\ tab[e].state # "SWITCHING" /\ tab[e].key = want[u] /\ e \in Entries
      BY <1>4, SenderHas DEF UsesHop, GetReuse
    <3> QED BY <3>1 DEF HopControl, ChainOK
  <2>2. n \in Neighs /\ s \in HopStates
    BY <2>1 DEF HopKeys, HopStates
  <2>3. tab' = tab \/ tab' = [tab EXCEPT ![e] = r]
    BY <1>4 DEF GetReuse
  <2> HIDE DEF n, s
  <2>4. r \in HopRecords
    BY <1>0, <1>1, <2>2 DEF HopRecords
  <2> HIDE DEF r
  <2> QED BY <1>0, <1>4, <2>3, <2>4, HopChanged DEF GetReuse
<1>5. CASE GetInit(u)
  <2> DEFINE e == at[u]
             n == want[u][1]
             r == [tab[e] EXCEPT !.state = "RESOLVING", !.key = want[u], !.ref = 1, !.neigh = n]
  <2>1. want[u] \in HopKeys
    BY <1>5 DEF GetInit, HopControl, InitOK
  <2>2. n \in Neighs /\ "RESOLVING" \in HopStates /\ 1 \in Nat
    BY <2>1 DEF HopKeys, HopStates
  <2>3. tab' = [tab EXCEPT ![e] = r]
    BY <1>5 DEF GetInit
  <2> HIDE DEF n
  <2>4. r \in HopRecords
    BY <1>0, <1>1, <2>1, <2>2 DEF HopRecords
  <2> HIDE DEF r
  <2> QED BY <1>0, <1>5, <2>3, <2>4, HopChanged DEF GetInit
<1>6. CASE Release(u)
  <2> DEFINE e == at[u]
             r == [tab[e] EXCEPT !.ref = tab[e].ref - 1]
  <2>1. tab[e].ref > 0
    BY <1>6, SenderHas DEF UsesHop, Release
  <2>2. tab[e].ref - 1 \in Nat
    BY <1>0, <1>1, <2>1
  <2>3. tab' = [tab EXCEPT ![e] = r]
    BY <1>6 DEF Release
  <2>4. r \in HopRecords
    BY <1>0, <1>1, <2>2 DEF HopRecords
  <2> HIDE DEF r
  <2> QED BY <1>0, <1>6, <2>3, <2>4, HopChanged DEF Release
<1>7. CASE Free(u)
  <2> DEFINE e == at[u]
             r == [tab[e] EXCEPT !.neigh = None, !.arpq = <<>>]
  <2>1. tab' = tab \/ tab' = [tab EXCEPT ![e] = r]
    BY <1>7 DEF Free
  <2>2. None \in Neighs \cup {None} /\ <<>> \in Seq(Users)
    OBVIOUS
  <2>3. r \in HopRecords
    BY <1>0, <1>1, <2>2 DEF HopRecords
  <2> HIDE DEF r
  <2> QED BY <1>0, <1>7, <2>1, <2>3, HopChanged DEF Free
<1>8. CASE SendStale(u)
  <2> DEFINE e == at[u]
             r == [tab[e] EXCEPT !.state = IF @ = "STALE" THEN "VALID" ELSE @]
  <2>1. tab' = [tab EXCEPT ![e] = r]
    BY <1>8 DEF SendStale
  <2>2. r \in HopRecords
    BY <1>0, <1>1 DEF HopRecords, HopStates
  <2> HIDE DEF r
  <2> QED BY <1>0, <1>8, <2>1, <2>2, HopChanged DEF SendStale
<1>9. CASE SendQueue(u)
  <2> DEFINE e == at[u]
             r == [tab[e] EXCEPT !.arpq = Append(@, u)]
  <2>1. tab' = tab \/ tab' = [tab EXCEPT ![e] = r]
    BY <1>9 DEF SendQueue
  <2>2. Append(tab[e].arpq, u) \in Seq(Users)
    BY <1>0, <1>1
  <2>3. r \in HopRecords
    BY <1>0, <1>1, <2>2 DEF HopRecords
  <2> HIDE DEF r
  <2> QED BY <1>0, <1>9, <2>1, <2>3, HopChanged DEF SendQueue
<1>10. CASE SendWrite(u)
  <2>1. WriteEntry(at[u], tab[at[u]], 1) \/ UNCHANGED <<tab, faults>>
    BY <1>10 DEF SendWrite
  <2> QED BY <1>0, <1>1, <2>1, HopTabWritten
<1>11. ASSUME NEW k \in Tags, SwitchAlloc(u, k)
       PROVE  tab' \in [Entries -> HopRecords] /\ faults' \in Nat
  <2>1. CASE \E e \in SameRule(k) : tab' = [tab EXCEPT ![e].ref = @ + 1] /\ UNCHANGED faults
    <3>1. PICK e \in SameRule(k) : tab' = [tab EXCEPT ![e].ref = @ + 1] /\ UNCHANGED faults
      BY <2>1
    <3>2. e \in Entries
      BY DEF SameRule
    <3>3. tab' = [tab EXCEPT ![e] = [tab[e] EXCEPT !.ref = tab[e].ref + 1]]
      BY <3>1
    <3>4. [tab[e] EXCEPT !.ref = tab[e].ref + 1] \in HopRecords
      BY <1>1, <3>2 DEF HopRecords
    <3> QED BY <1>0, <3>1, <3>2, <3>3, <3>4, HopChanged
  <2> DEFINE e == First(FreeEntries)
             r == [tab[e] EXCEPT !.state = "SWITCHING", !.dmac = Rule(k), !.ref = 1]
  <2>2. CASE FreeEntries # {} /\ WriteEntry(e, r, 0)
    <3>1. e \in Entries
      BY <2>2, ScanFindsFree DEF FreeEntries
    <3>2. r \in HopRecords
      BY <3>1, RuleRecord
    <3> HIDE DEF e, r
    <3> QED BY <2>2, <3>1, <3>2, HopTabWritten
  <2>3. CASE UNCHANGED <<tab, faults>>
    BY <1>0, <2>3
  <2> QED BY <1>11, <2>1, <2>2, <2>3 DEF SwitchAlloc
<1>12. ASSUME UNCHANGED <<tab, faults>> PROVE tab' \in [Entries -> HopRecords] /\ faults' \in Nat
  BY <1>0, <1>12
<1>13. CASE Send(u) \/ SendKick(u) \/
            \E n \in Neighs, t \in Tags : GetRefused(u, n, t) \/ GetOverrun(u, n, t)
  BY <1>12, <1>13 DEF Send, SendKick, GetRefused, GetOverrun
<1> QED BY <1>2, <1>3, <1>4, <1>5, <1>6, <1>7, <1>8, <1>9, <1>10, <1>11, <1>13 DEF UserNext

LEMMA RepliesTyped ==
  ASSUME L2tTypeOK, NEW e \in Entries, Reply(e) \/ Drain(e)
  PROVE  tab' \in [Entries -> HopRecords] /\ faults' \in Nat
<1>0. tab \in [Entries -> HopRecords] /\ faults \in Nat
  BY DEF L2tTypeOK
<1>1. ASSUME NEW f \in Entries
      PROVE  /\ tab[f] \in HopRecords /\ tab[f].sync \in Nat /\ tab[f].arpq \in Seq(Users)
  BY HopFields
<1>2. CASE Reply(e)
  <2>1. tab[e].sync - 1 \in Nat /\ <<>> \in Seq(Users) /\ faults' \in Nat
    <3>1. tab[e].sync > 0 /\ faults' \in {faults, faults + 1}
      BY <1>2 DEF Reply
    <3> QED BY <1>0, <1>1, <3>1
  <2>2. ASSUME NEW s \in {"STALE", "VALID"},
               tab' = [tab EXCEPT ![e].state = s, ![e].arpq = <<>>, ![e].sync = @ - 1]
        PROVE  tab' \in [Entries -> HopRecords]
    <3> DEFINE r == [tab[e] EXCEPT !.state = s, !.arpq = <<>>, !.sync = @ - 1]
    <3>1. tab' = [tab EXCEPT ![e] = r]
      BY <2>2 DEF L2tTypeOK
    <3>2. s \in HopStates
      BY DEF HopStates
    <3>3. r \in HopRecords
      BY <1>1, <2>1, <3>2, HopUpdates
    <3> HIDE DEF r
    <3> QED BY <3>1, <3>3, HopChanged
  <2>3. ASSUME tab' = [tab EXCEPT ![e].sync = @ - 1]
        PROVE  tab' \in [Entries -> HopRecords]
    <3> DEFINE r == [tab[e] EXCEPT !.sync = @ - 1]
    <3>1. tab' = [tab EXCEPT ![e] = r]
      BY <2>3
    <3>2. r \in HopRecords
      BY <1>1, <2>1 DEF HopRecords
    <3> HIDE DEF r
    <3> QED BY <3>1, <3>2, HopChanged
  <2> QED BY <1>2, <2>1, <2>2, <2>3 DEF Reply
<1>3. CASE Drain(e)
  <2> DEFINE r == [tab[e] EXCEPT !.arpq = Tail(@)]
  <2>1. tab' = tab \/ (tab' = [tab EXCEPT ![e] = r] /\ tab[e].arpq # <<>>)
    BY <1>3 DEF Drain
  <2>2. ASSUME tab[e].arpq # <<>> PROVE r \in HopRecords
    <3>1. Tail(tab[e].arpq) \in Seq(Users)
      BY <1>1, <2>2
    <3> QED BY <1>1, <3>1 DEF HopRecords
  <2> HIDE DEF r
  <2> QED BY <1>0, <1>3, <2>1, <2>2, HopChanged DEF Drain
<1> QED BY <1>2, <1>3

LEMMA NeighTabTyped ==
  ASSUME L2tTypeOK, NEW n \in Neighs, NeighNext(n)
  PROVE  tab' \in [Entries -> HopRecords] /\ faults' \in Nat
<1>0. tab \in [Entries -> HopRecords] /\ faults \in Nat
  BY DEF L2tTypeOK
<1>1. ASSUME NEW f \in Entries
      PROVE  /\ tab[f] \in HopRecords /\ tab[f].sync \in Nat /\ tab[f].arpq \in Seq(Users)
  BY HopFields
<1>2. CASE Update(n)
  <2>1. PICK f \in Found(n) :
          LET r == [tab[f] EXCEPT !.neigh = n]
              s == [r EXCEPT !.state = IF nud[n] = "reachable" THEN "VALID" ELSE "STALE"]
          IN \/ tab' = [tab EXCEPT ![f] = r] /\ UNCHANGED faults
             \/ WriteEntry(f, r, 1)
             \/ WriteEntry(f, s, 0)
             \/ tab' = [tab EXCEPT ![f] = s] /\ UNCHANGED faults
    BY <1>2 DEF Update
  <2> DEFINE r == [tab[f] EXCEPT !.neigh = n]
             s == [r EXCEPT !.state = IF nud[n] = "reachable" THEN "VALID" ELSE "STALE"]
  <2>2. f \in Entries
    BY FoundIs
  <2>3. r \in HopRecords /\ s \in HopRecords
    BY <1>1, <2>2 DEF HopRecords, HopStates
  <2>4. \/ tab' = [tab EXCEPT ![f] = r] /\ UNCHANGED faults
        \/ WriteEntry(f, r, 1)
        \/ WriteEntry(f, s, 0)
        \/ tab' = [tab EXCEPT ![f] = s] /\ UNCHANGED faults
    BY <2>1
  <2> HIDE DEF r, s
  <2> QED BY <1>0, <2>2, <2>3, <2>4, HopChanged, HopTabWritten
<1>3. CASE Resolve(n) \/ Announce(n) \/ Age(n) \/ UpdateNothing(n)
  BY <1>0, <1>3 DEF Resolve, Announce, Age, UpdateNothing, NeighStep
<1> QED BY <1>2, <1>3 DEF NeighNext

(* The free entries and the chains.                                        *)
LEMMA ChainTyped ==
  ASSUME L2tTypeOK, HopControl, L2tNext
  PROVE  chain' \in [Entries -> Seq(Entries)] /\ nfree' \in Int
<1>0. chain \in [Entries -> Seq(Entries)] /\ nfree \in Int
  BY DEF L2tTypeOK
<1>1. ASSUME NEW u \in Users, UserNext(u)
      PROVE  chain' \in [Entries -> Seq(Entries)] /\ nfree' \in Int
  <2>1. ASSUME NEW n \in Neighs, NEW t \in Tags, GetAlloc(u, n, t)
        PROVE  chain' \in [Entries -> Seq(Entries)] /\ nfree' \in Int
    <3>1. Scan \in Entries /\ chain' = Unchain(Scan) /\ nfree' = nfree - 1
      BY <2>1, ScanFindsFree DEF FreeEntries, GetAlloc
    <3> QED BY <1>0, <3>1, Unchained DEF HopControl
  <2>2. CASE GetInit(u)
    <3> DEFINE e == at[u]
               b == Hash[want[u][1]]
    <3>1. e \in Entries /\ b \in Entries
      BY <2>2, HashAssumption DEF GetInit, HopControl, InitOK, HopKeys, L2tTypeOK
    <3>2. chain' = [chain EXCEPT ![b] = <<e>> \o chain[b]] /\ nfree' = nfree
      BY <2>2 DEF GetInit
    <3> HIDE DEF e, b
    <3>3. <<e>> \o chain[b] \in Seq(Entries)
      BY <1>0, <3>1
    <3> QED BY <1>0, <3>1, <3>2, <3>3
  <2>3. ASSUME NEW k \in Tags, SwitchAlloc(u, k)
        PROVE  chain' \in [Entries -> Seq(Entries)] /\ nfree' \in Int
    <3>1. CASE UNCHANGED <<chain, nfree>>
      BY <1>0, <3>1
    <3>2. CASE /\ FreeEntries # {} /\ chain' = Unchain(First(FreeEntries))
               /\ nfree' \in {nfree, nfree + 1}
      <4>1. First(FreeEntries) \in Entries
        BY <3>2, ScanFindsFree DEF FreeEntries
      <4> QED BY <1>0, <3>2, <4>1, Unchained DEF HopControl
    <3> QED BY <2>3, <3>1, <3>2 DEF SwitchAlloc
  <2>4. ASSUME NEW n \in Neighs, NEW t \in Tags, GetHit(u, n, t)
        PROVE  chain' = chain /\ nfree' \in {nfree, nfree - 1}
    BY <2>4 DEF GetHit
  <2>5. CASE Free(u)
    BY <1>0, <2>5 DEF Free
  <2>6. ASSUME NEW n \in Neighs, NEW t \in Tags, GetRefused(u, n, t) \/ GetOverrun(u, n, t)
        PROVE  UNCHANGED <<chain, nfree>>
    BY <2>6 DEF GetRefused, GetOverrun
  <2>7. CASE \/ GetReuse(u) \/ Release(u) \/ Send(u) \/ SendStale(u) \/ SendQueue(u)
             \/ SendKick(u) \/ SendWrite(u)
    BY <1>0, <2>7 DEF GetReuse, Release, Send, SendStale, SendQueue, SendKick, SendWrite
  <2> QED BY <1>0, <1>1, <2>1, <2>2, <2>3, <2>4, <2>5, <2>6, <2>7 DEF UserNext
<1>2. ASSUME NEW n \in Neighs, NeighNext(n) PROVE UNCHANGED <<chain, nfree>>
  BY <1>2 DEF NeighNext, Resolve, Announce, Age, UpdateNothing, Update, NeighStep
<1>3. ASSUME NEW e \in Entries, Reply(e) \/ Drain(e) PROVE UNCHANGED <<chain, nfree>>
  BY <1>3 DEF Reply, Drain
<1> QED BY <1>0, <1>1, <1>2, <1>3 DEF L2tNext

LEMMA NeighsTyped ==
  ASSUME L2tTypeOK, L2tNext
  PROVE  nud' \in [Neighs -> NudStates] /\ ha' \in [Neighs -> Nat] /\ moves' \in Nat
<1>0. nud \in [Neighs -> NudStates] /\ ha \in [Neighs -> Nat] /\ moves \in Nat
  BY DEF L2tTypeOK
<1>1. ASSUME NEW n, EventSend(n) PROVE nud' \in [Neighs -> NudStates]
  BY <1>0, <1>1 DEF EventSend, NudStates, NudValid
<1>2. ASSUME NEW u \in Users, Send(u) \/ SendKick(u)
      PROVE  nud' \in [Neighs -> NudStates] /\ ha' = ha /\ moves' = moves
  BY <1>0, <1>1, <1>2 DEF Send, SendKick
<1>3. ASSUME NEW u \in Users, UserNext(u), ~(Send(u) \/ SendKick(u))
      PROVE  UNCHANGED <<nud, ha, moves>>
  <2>1. ASSUME NEW n \in Neighs, NEW t \in Tags,
               GetHit(u, n, t) \/ GetAlloc(u, n, t) \/ GetRefused(u, n, t) \/ GetOverrun(u, n, t)
        PROVE  UNCHANGED <<nud, ha, moves>>
    BY <2>1 DEF GetHit, GetAlloc, GetRefused, GetOverrun, neighVars
  <2>2. ASSUME NEW k \in Tags, SwitchAlloc(u, k) PROVE UNCHANGED <<nud, ha, moves>>
    BY <2>2 DEF SwitchAlloc, neighVars
  <2>3. CASE \/ GetReuse(u) \/ GetInit(u) \/ Release(u) \/ Free(u) \/ SendStale(u)
             \/ SendQueue(u) \/ SendWrite(u)
    BY <2>3 DEF GetReuse, GetInit, Release, Free, SendStale, SendQueue, SendWrite, neighVars
  <2> QED BY <1>3, <2>1, <2>2, <2>3 DEF UserNext
<1>4. ASSUME NEW n \in Neighs, NeighNext(n)
      PROVE  nud' \in [Neighs -> NudStates] /\ ha' \in [Neighs -> Nat] /\ moves' \in Nat
  <2>1. ASSUME NEW s \in NudStates, NEW v \in Nat, NeighStep(n, s, v)
        PROVE  nud' \in [Neighs -> NudStates] /\ ha' \in [Neighs -> Nat]
    BY <1>0, <2>1 DEF NeighStep
  <2>2. {"failed", "reachable", "stale"} \subseteq NudStates /\ ha[n] \in Nat /\ ha[n] + 1 \in Nat
    BY <1>0 DEF NudStates, NudValid
  <2>3. CASE Resolve(n)
    BY <1>0, <2>1, <2>2, <2>3 DEF Resolve
  <2>4. CASE Announce(n)
    BY <1>0, <2>1, <2>2, <2>4 DEF Announce
  <2>5. CASE Age(n)
    BY <1>0, <2>1, <2>2, <2>5 DEF Age
  <2>6. CASE UpdateNothing(n) \/ Update(n)
    BY <1>0, <2>6 DEF UpdateNothing, Update, neighVars
  <2> QED BY <1>4, <2>3, <2>4, <2>5, <2>6 DEF NeighNext
<1>5. ASSUME NEW e \in Entries, Reply(e) \/ Drain(e) PROVE UNCHANGED <<nud, ha, moves>>
  BY <1>5 DEF Reply, Drain, neighVars
<1> QED BY <1>0, <1>2, <1>3, <1>4, <1>5 DEF L2tNext

LEMMA UsersTyped ==
  ASSUME L2tTypeOK, HopControl, L2tNext
  PROVE  /\ pc' \in [Users -> UsesHop \cup {"idle", "init", "free", "lost"}]
         /\ at' \in [Users -> Entries] /\ want' \in [Users -> HopKeys \cup {NoKey}]
<1> DEFINE Typed == /\ pc' \in [Users -> UsesHop \cup {"idle", "init", "free", "lost"}]
                    /\ at' \in [Users -> Entries]
                    /\ want' \in [Users -> HopKeys \cup {NoKey}]
<1>0. /\ pc \in [Users -> UsesHop \cup {"idle", "init", "free", "lost"}]
      /\ at \in [Users -> Entries] /\ want \in [Users -> HopKeys \cup {NoKey}]
  BY DEF L2tTypeOK
<1>1. ASSUME UNCHANGED <<pc, at, want>> PROVE Typed
  BY <1>0, <1>1
<1>2. ASSUME NEW u \in Users, NEW l \in UsesHop \cup {"idle", "init", "free", "lost"}, Goto(u, l)
      PROVE  pc' \in [Users -> UsesHop \cup {"idle", "init", "free", "lost"}]
  BY <1>0, <1>2 DEF Goto
<1>3. ASSUME NEW u \in Users, UserNext(u) PROVE Typed
  <2>1. ASSUME NEW n \in Neighs, NEW t \in Tags, GetHit(u, n, t) PROVE Typed
    <3>1. PICK e \in Hits(n, t) : at' = [at EXCEPT ![u] = e]
      BY <2>1 DEF GetHit
    <3>2. e \in Entries
      BY HashAssumption, HopsOfEntries DEF Hits, Hops
    <3>3. Goto(u, "reuse") /\ want' = [want EXCEPT ![u] = <<n, t>>] /\ <<n, t>> \in HopKeys
      BY <2>1 DEF GetHit, HopKeys
    <3> QED BY <1>0, <1>2, <3>1, <3>2, <3>3 DEF UsesHop
  <2>2. ASSUME NEW n \in Neighs, NEW t \in Tags, GetAlloc(u, n, t) PROVE Typed
    <3>1. Scan \in Entries /\ at' = [at EXCEPT ![u] = Scan]
      BY <2>2, ScanFindsFree DEF FreeEntries, GetAlloc
    <3>2. Goto(u, "init") /\ want' = [want EXCEPT ![u] = <<n, t>>] /\ <<n, t>> \in HopKeys
      BY <2>2 DEF GetAlloc, HopKeys
    <3> QED BY <1>0, <1>2, <3>1, <3>2
  <2>3. ASSUME NEW n \in Neighs, NEW t \in Tags, GetRefused(u, n, t) PROVE Typed
    BY <1>1, <2>3 DEF GetRefused
  <2>4. ASSUME NEW n \in Neighs, NEW t \in Tags, GetOverrun(u, n, t) PROVE Typed
    BY <1>0, <1>2, <2>4 DEF GetOverrun
  <2>5. CASE \/ GetReuse(u) \/ GetInit(u) \/ Send(u) \/ SendStale(u) \/ SendQueue(u)
             \/ SendKick(u) \/ SendWrite(u)
    <3>1. UNCHANGED <<at, want>> /\ \E l \in UsesHop : Goto(u, l)
      <4>1. CASE GetReuse(u) \/ GetInit(u)
        BY <4>1 DEF GetReuse, GetInit, userVars, UsesHop
      <4>2. CASE Send(u) \/ SendStale(u) \/ SendQueue(u)
        BY <4>2 DEF Send, SendStale, SendQueue, userVars, UsesHop
      <4>3. CASE SendKick(u) \/ SendWrite(u)
        BY <4>3 DEF SendKick, SendWrite, userVars, UsesHop
      <4> QED BY <2>5, <4>1, <4>2, <4>3
    <3> QED BY <1>0, <1>2, <3>1
  <2>6. ASSUME Leave(u) PROVE Typed
    BY <1>0, <1>2, <2>6, SizeAssumption DEF Leave, Entries
  <2>7. CASE Release(u)
    BY <1>0, <1>2, <2>6, <2>7 DEF Release
  <2>8. CASE Free(u)
    BY <2>6, <2>8 DEF Free
  <2>9. ASSUME NEW k \in Tags, SwitchAlloc(u, k) PROVE Typed
    <3>1. want' = want
      BY <2>9 DEF SwitchAlloc
    <3>2. CASE UNCHANGED <<at, pc>>
      BY <1>1, <3>1, <3>2
    <3>3. CASE \E e \in SameRule(k) : at' = [at EXCEPT ![u] = e] /\ Goto(u, "has")
      BY <1>0, <1>2, <3>1, <3>3 DEF SameRule, UsesHop
    <3>4. CASE /\ FreeEntries # {} /\ at' = [at EXCEPT ![u] = First(FreeEntries)]
               /\ Goto(u, "has")
      <4>1. First(FreeEntries) \in Entries
        BY <3>4, ScanFindsFree DEF FreeEntries
      <4> QED BY <1>0, <1>2, <3>1, <3>4, <4>1 DEF UsesHop
    <3> QED BY <2>9, <3>2, <3>3, <3>4 DEF SwitchAlloc
  <2> QED BY <1>3, <2>1, <2>2, <2>3, <2>4, <2>5, <2>7, <2>8, <2>9 DEF UserNext
<1>4. ASSUME NEW n \in Neighs, NeighNext(n) PROVE Typed
  BY <1>1, <1>4 DEF NeighNext, Resolve, Announce, Age, UpdateNothing, Update, NeighStep, userVars
<1>5. ASSUME NEW e \in Entries, Reply(e) \/ Drain(e) PROVE Typed
  BY <1>1, <1>5 DEF Reply, Drain, userVars
<1> QED BY <1>3, <1>4, <1>5 DEF L2tNext

(* Every step of the table keeps the types and the control invariant.      *)
LEMMA L2tTypeKept ==
  ASSUME L2tTypeOK, HopControl, [L2tNext]_l2tVars
  PROVE  L2tTypeOK'
<1>1. CASE UNCHANGED l2tVars
  BY <1>1 DEF l2tVars, L2tTypeOK
<1>2. CASE L2tNext
  <2>1. tab' \in [Entries -> HopRecords] /\ faults' \in Nat
    <3>1. CASE \E u \in Users : UserNext(u)
      BY <3>1, UserTabTyped
    <3>2. CASE \E n \in Neighs : NeighNext(n)
      BY <3>2, NeighTabTyped
    <3>3. CASE \E e \in Entries : Reply(e) \/ Drain(e)
      BY <3>3, RepliesTyped
    <3> QED BY <1>2, <3>1, <3>2, <3>3 DEF L2tNext
  <2> QED BY <1>2, <2>1, ChainTyped, NeighsTyped, UsersTyped DEF L2tTypeOK
<1> QED BY <1>1, <1>2

LEMMA HopControlKept ==
  ASSUME L2tTypeOK, HopControl, [L2tNext]_l2tVars
  PROVE  HopControl'
<1>1. CASE UNCHANGED l2tVars
  BY <1>1, CalmIfIdle, CalmKeeps DEF l2tVars
<1>2. ASSUME NEW u \in Users, UserNext(u) PROVE HopControl'
  <2>1. ASSUME NEW n \in Neighs, NEW t \in Tags, u \in Conns,
               GetHit(u, n, t) \/ GetAlloc(u, n, t) \/ GetRefused(u, n, t) \/ GetOverrun(u, n, t)
        PROVE  HopControl'
    BY <2>1, GetHitKeeps, GetAllocKeeps, GetFailsKeeps
  <2>2. CASE Send(u) \/ SendStale(u) \/ SendQueue(u) \/ SendKick(u) \/ SendWrite(u)
    BY <2>2, SendIsCalm, CalmKeeps
  <2> QED BY <1>2, <2>1, <2>2, GetReuseKeeps, GetInitKeeps, ReleaseKeeps, FreeKeeps,
             SwitchAllocKeeps DEF UserNext
<1>3. ASSUME NEW n \in Neighs, NeighNext(n) PROVE HopControl'
  BY <1>3, NeighIsCalm, CalmKeeps DEF NeighNext
<1>4. ASSUME NEW e \in Entries, Reply(e) \/ Drain(e) PROVE HopControl'
  BY <1>4, ReplyIsCalm, CalmKeeps
<1> QED BY <1>1, <1>2, <1>3, <1>4 DEF L2tNext

-----------------------------------------------------------------------------
(* Writes and addresses, of patient connections and one tag.               *)
LEMMA TwoUsers ==
  ASSUME L2tTypeOK, CountOK, NEW u \in Users, NEW v \in Users, u # v,
         pc[u] \in UsesHop, pc[v] \in UsesHop, at[u] = at[v]
  PROVE  tab[at[u]].ref > 1
<1> DEFINE e == at[u]
           H == HopUsers[e]
<1>1. e \in Entries /\ tab[e].ref \in Nat
  BY HopFields DEF L2tTypeOK
<1>2. {u, v} \subseteq H
  BY <1>1 DEF HopUsers
<1>3. IsFiniteSet(H) /\ Cardinality(H) \in Nat /\ tab[e].ref >= Cardinality(H)
  BY <1>1, UsersFinite DEF CountOK
<1> HIDE DEF H, e
<1>4. Cardinality({u, v}) = 2
  <2>1. IsFiniteSet({u}) /\ Cardinality({u}) = 1
    BY FS_Singleton
  <2>2. Cardinality({u} \cup {v}) = 1 + 1
    BY <2>1, FS_AddElement
  <2>3. {u, v} = {u} \cup {v}
    OBVIOUS
  <2> QED BY <2>2, <2>3
<1>5. Cardinality({u, v}) <= Cardinality(H)
  BY <1>2, <1>3, FS_Subset
<1> QED BY <1>1, <1>3, <1>4, <1>5 DEF e

(* The neighbour of an entry in use is known.                              *)
LEMMA SettledNeigh ==
  ASSUME L2tTypeOK, HopControl, NEW e \in Entries, Settled(e)
  PROVE  /\ tab[e].key \in HopKeys /\ tab[e].neigh = tab[e].key[1] /\ tab[e].neigh \in Neighs
         /\ tab[e].neigh # None /\ e \in Hops[Hash[tab[e].neigh]]
<1>1. tab[e].key \in HopKeys /\ e \in Hops[Hash[tab[e].key[1]]] /\ tab[e].neigh = tab[e].key[1]
  BY DEF HopControl, ChainOK, NeighOK, Settled
<1> QED BY <1>1, NoneAssumption DEF HopKeys

(* With one tag t4_l2t_update finds the entry of its neighbour.            *)
LEMMA OnlyOneFound ==
  ASSUME L2tTypeOK, HopControl, \A s, t \in Tags : s = t,
         NEW e \in Entries, Settled(e), NEW n, tab[e].neigh = n
  PROVE  Found(n) = {e}
<1> DEFINE s == chain[Hash[n]]
           Of == {i \in 1 .. Len(s) : tab[s[i]].key[1] = n}
           L == {j \in Of : \A k \in Of : j <= k}
<1>1. n \in Neighs /\ tab[e].key \in HopKeys /\ tab[e].key[1] = n /\ e \in Hops[Hash[n]]
  BY SettledNeigh
<1>2. Hash[n] \in Entries
  BY <1>1, HashAssumption
<1>3. s \in Seq(Entries) /\ ToSet(s) = Hops[Hash[n]]
  BY <1>2 DEF L2tTypeOK, Hops
<1>4. \A f \in Hops[Hash[n]] : tab[f].key[1] = n => f = e
  <2> SUFFICES ASSUME NEW f \in Hops[Hash[n]], tab[f].key[1] = n PROVE f = e
    OBVIOUS
  <2>1. tab[f].key \in HopKeys
    BY <1>2 DEF HopControl, ChainOK
  <2>2. tab[f].key = tab[e].key
    BY <1>1, <2>1 DEF HopKeys
  <2> QED BY <1>1, <1>2, <2>2 DEF HopControl, ChainOK
<1>5. \A i \in 1 .. Len(s) : s[i] \in Hops[Hash[n]]
  BY <1>3 DEF ToSet
<1>6. \A i \in Of : s[i] = e
  BY <1>4, <1>5
<1>7. Of # {} /\ Of \subseteq Nat
  <2>1. PICK i \in DOMAIN s : s[i] = e
    BY <1>1, <1>3 DEF ToSet
  <2>2. i \in Of
    BY <1>1, <1>3, <2>1
  <2> QED BY <2>2
<1>8. Found(n) = {s[i] : i \in L}
  BY Zenon DEF Found
<1> HIDE DEF s, Of
<1>9. L # {}
  BY <1>7, LeastExists
<1> QED BY <1>6, <1>8, <1>9

(* A calm step that changes one entry, or none.                            *)
LEMMA CalmRight ==
  ASSUME L2tTypeOK, HopControl, Calm, SyncOK, AddressOK, faults' = 0 => faults = 0,
         ha' = ha, notify' = notify, NEW e \in Entries,
         \A f \in Entries \ {e} : tab'[f] = tab[f],
         tab'[e].sync > 0 =>
           /\ tab'[e].state \notin {"RESOLVING", "UNUSED"}
           /\ tab[e].sync > 0 \/ (tab[e].ref > 0 /\ (tab[e].ref > 1 \/ ~Reused(e))),
         faults' = 0 /\ Settled(e) /\ tab'[e].state \in {"VALID", "STALE", "SYNC_WRITE"} =>
           tab'[e].neigh \in notify \/ tab'[e].dmac = Mac(tab'[e].neigh)
  PROVE  SyncOK' /\ AddressOK'
<1>1. /\ \A f \in Entries : Reused(f)' <=> Reused(f)
      /\ \A f \in Entries : Settled(f)' <=> Settled(f)
  BY CalmSame
<1>2. \A f \in Entries : tab'[f].ref = tab[f].ref
  BY DEF Calm
<1>3. SyncOK'
  BY <1>1, <1>2 DEF SyncOK, SyncAt
<1>4. AddressOK'
  BY <1>1 DEF AddressOK, AddressAt, Mac
<1> QED BY <1>3, <1>4

LEMMA CalmRightSame ==
  ASSUME L2tTypeOK, HopControl, Calm, SyncOK, AddressOK, faults' = faults,
         ha' = ha, notify' = notify, tab' = tab
  PROVE  SyncOK' /\ AddressOK'
<1>1. 1 \in Entries
  BY SizeAssumption DEF Entries
<1>2. tab[1].sync > 0 => tab[1].ref > 0 /\ tab[1].state \notin {"RESOLVING", "UNUSED"}
  BY <1>1 DEF SyncOK, SyncAt
<1>3. faults = 0 /\ Settled(1) /\ tab[1].state \in {"VALID", "STALE", "SYNC_WRITE"} =>
        tab[1].neigh \in notify \/ tab[1].dmac = Mac(tab[1].neigh)
  BY <1>1 DEF AddressOK, AddressAt
<1> QED BY <1>1, <1>2, <1>3, CalmRight

LEMMA SendRight ==
  ASSUME L2tTypeOK, HopControl, SyncOK, AddressOK, NEW c \in Users,
         Send(c) \/ SendStale(c) \/ SendQueue(c) \/ SendKick(c) \/ SendWrite(c)
  PROVE  SyncOK' /\ AddressOK'
<1> DEFINE e == at[c]
<1>1. Calm /\ ha' = ha /\ notify' = notify
  BY SendIsCalm DEF Send, SendStale, SendQueue, SendKick, SendWrite, neighVars
<1>2. e \in Entries /\ tab[e] \in HopRecords
  BY HopFields DEF L2tTypeOK
<1>3. CASE Send(c) \/ SendKick(c)
  BY <1>1, <1>3, CalmRightSame DEF Send, SendKick
<1>4. SyncAt(e) /\ (faults = 0 => AddressAt(e))
  BY <1>2 DEF SyncOK, AddressOK
<1>5. ASSUME NEW r \in HopRecords, tab' = [tab EXCEPT ![e] = r], faults' = faults,
             r.sync = tab[e].sync, r.neigh = tab[e].neigh, r.dmac = tab[e].dmac,
             r.state = tab[e].state \/ (tab[e].state = "STALE" /\ r.state = "VALID")
      PROVE  SyncOK' /\ AddressOK'
  <2>1. tab'[e] = r /\ \A f \in Entries \ {e} : tab'[f] = tab[f]
    BY <1>2, <1>5, HopChanged
  <2>2. r.sync > 0 => r.state \notin {"RESOLVING", "UNUSED"} /\ tab[e].sync > 0
    BY <1>4, <1>5 DEF SyncAt
  <2>3. faults = 0 /\ Settled(e) /\ r.state \in {"VALID", "STALE", "SYNC_WRITE"} =>
          r.neigh \in notify \/ r.dmac = Mac(r.neigh)
    BY <1>4, <1>5 DEF AddressAt
  <2> HIDE DEF e
  <2> QED BY <1>1, <1>2, <1>5, <2>1, <2>2, <2>3, CalmRight
<1>6. CASE SendStale(c)
  <2> DEFINE r == [tab[e] EXCEPT !.state = IF @ = "STALE" THEN "VALID" ELSE @]
  <2>1. tab' = [tab EXCEPT ![e] = r] /\ faults' = faults
    BY <1>6 DEF SendStale
  <2>2. /\ r \in HopRecords /\ r.sync = tab[e].sync /\ r.neigh = tab[e].neigh
        /\ r.dmac = tab[e].dmac
        /\ r.state = tab[e].state \/ (tab[e].state = "STALE" /\ r.state = "VALID")
    BY <1>2 DEF HopRecords, HopStates
  <2> HIDE DEF r
  <2> QED BY <1>5, <2>1, <2>2
<1>7. CASE SendQueue(c)
  <2> DEFINE r == [tab[e] EXCEPT !.arpq = Append(@, c)]
  <2>1. (tab' = tab \/ tab' = [tab EXCEPT ![e] = r]) /\ faults' = faults
    BY <1>7 DEF SendQueue
  <2>2. Append(tab[e].arpq, c) \in Seq(Users)
    BY <1>2, HopFields
  <2>3. /\ r \in HopRecords /\ r.sync = tab[e].sync /\ r.neigh = tab[e].neigh
        /\ r.dmac = tab[e].dmac /\ r.state = tab[e].state
    BY <1>2, <2>2 DEF HopRecords
  <2> HIDE DEF r
  <2> QED BY <1>1, <1>5, <2>1, <2>3, CalmRightSame
<1>8. CASE SendWrite(c) /\ ~UNCHANGED <<tab, faults>>
  <2>1. /\ pc[c] = "write" /\ tab[e].state = "RESOLVING" /\ WriteEntry(e, tab[e], 1)
    BY <1>8 DEF SendWrite
  <2>2. PICK q \in HopRecords :
          /\ tab' = [tab EXCEPT ![e] = q] /\ q.neigh = tab[e].neigh
          /\ \/ q = Written(tab[e], 1) /\ faults' = faults
             \/ q = tab[e] /\ faults' = faults + 1
    BY <1>2, <2>1, EntryWritten
  <2>3. tab'[e] = q /\ \A f \in Entries \ {e} : tab'[f] = tab[f]
    BY <1>2, <2>2, HopChanged
  <2>4. tab[e].ref > 0 /\ (tab[e].ref > 1 \/ ~Reused(e))
    <3>1. tab[e].ref > 0
      BY <2>1, SenderHas DEF UsesHop
    <3>2. ASSUME NEW v \in Users, pc[v] = "reuse", at[v] = e PROVE tab[e].ref > 1
      BY <2>1, <3>2, TwoUsers DEF UsesHop, HopControl
    <3> QED BY <3>1, <3>2 DEF Reused
  <2>5. tab[e].sync = 0 /\ faults \in Nat /\ faults + 1 # 0
    <3>1. tab[e].sync \in Nat /\ faults \in Nat
      BY <1>2, HopFields DEF L2tTypeOK
    <3> QED BY <1>4, <2>1, <3>1 DEF SyncAt
  <2>6. ASSUME q = Written(tab[e], 1)
        PROVE  q.state = "SYNC_WRITE" /\ (q.neigh # None => q.dmac = Mac(q.neigh))
    BY <1>2, <2>1, <2>6, WrittenFields
  <2>7. q.sync > 0 => q.state \notin {"RESOLVING", "UNUSED"}
    BY <2>2, <2>5, <2>6
  <2>8. faults' = 0 /\ Settled(e) /\ q.state \in {"VALID", "STALE", "SYNC_WRITE"} =>
          q.neigh \in notify \/ q.dmac = Mac(q.neigh)
    <3>1. Settled(e) => q.neigh # None
      BY <1>2, <2>2, SettledNeigh
    <3> QED BY <2>2, <2>5, <2>6, <3>1
  <2>9. faults' = 0 => faults = 0
    BY <2>2, <2>5
  <2> HIDE DEF e
  <2> QED BY <1>1, <1>2, <2>3, <2>4, <2>7, <2>8, <2>9, CalmRight
<1> QED BY <1>1, <1>3, <1>6, <1>7, <1>8, CalmRightSame

LEMMA ReplyRight ==
  ASSUME L2tTypeOK, HopControl, SyncOK, AddressOK, NEW e \in Entries, Reply(e) \/ Drain(e)
  PROVE  SyncOK' /\ AddressOK'
<1>1. Calm /\ ha' = ha /\ notify' = notify
  BY ReplyIsCalm DEF Reply, Drain, neighVars
<1>2. /\ tab[e] \in HopRecords /\ tab[e].state \in HopStates /\ tab[e].sync \in Nat
      /\ tab[e].arpq \in Seq(Users) /\ faults \in Nat
  BY HopFields DEF L2tTypeOK
<1>3. SyncAt(e) /\ (faults = 0 => AddressAt(e))
  BY DEF SyncOK, AddressOK
<1>4. ASSUME NEW r \in HopRecords, tab' = [tab EXCEPT ![e] = r], faults' \in {faults, faults + 1},
             r.sync > 0 => tab[e].sync > 0, r.neigh = tab[e].neigh, r.dmac = tab[e].dmac,
             \/ r.state = tab[e].state
             \/ /\ tab[e].sync > 0 /\ tab[e].state # "SWITCHING"
                /\ r.state \in {"STALE", "VALID"}
      PROVE  SyncOK' /\ AddressOK'
  <2>1. tab'[e] = r /\ \A f \in Entries \ {e} : tab'[f] = tab[f]
    BY <1>4, HopChanged
  <2>2. r.sync > 0 => r.state \notin {"RESOLVING", "UNUSED"} /\ tab[e].sync > 0
    BY <1>3, <1>4 DEF SyncAt
  <2>3. tab[e].sync > 0 => tab[e].state \in {"SWITCHING", "VALID", "STALE", "SYNC_WRITE"}
    BY <1>2, <1>3 DEF SyncAt, HopStates
  <2>4. faults' = 0 => faults = 0
    BY <1>2, <1>4
  <2>5. faults' = 0 /\ Settled(e) /\ r.state \in {"VALID", "STALE", "SYNC_WRITE"} =>
          r.neigh \in notify \/ r.dmac = Mac(r.neigh)
    BY <1>3, <1>4, <2>3, <2>4 DEF AddressAt
  <2> QED BY <1>1, <2>1, <2>2, <2>4, <2>5, CalmRight
<1>5. CASE Reply(e)
  <2>1. tab[e].sync > 0 /\ faults' \in {faults, faults + 1}
    BY <1>5 DEF Reply
  <2>2. ASSUME NEW s \in {"STALE", "VALID"}, tab[e].state # "SWITCHING",
               tab' = [tab EXCEPT ![e].state = s, ![e].arpq = <<>>, ![e].sync = @ - 1]
        PROVE  SyncOK' /\ AddressOK'
    <3> DEFINE r == [tab[e] EXCEPT !.state = s, !.arpq = <<>>, !.sync = @ - 1]
    <3>1. tab' = [tab EXCEPT ![e] = r]
      BY <2>2 DEF L2tTypeOK
    <3>2. s \in HopStates /\ <<>> \in Seq(Users) /\ tab[e].sync - 1 \in Nat
      BY <1>2, <2>1 DEF HopStates
    <3>3. r \in HopRecords
      BY <1>2, <3>2, HopUpdates
    <3>4. r.neigh = tab[e].neigh /\ r.dmac = tab[e].dmac /\ r.state = s
      BY <1>2 DEF HopRecords
    <3> HIDE DEF r
    <3> QED BY <1>4, <2>1, <2>2, <3>1, <3>3, <3>4
  <2>3. ASSUME tab' = [tab EXCEPT ![e].sync = @ - 1]
        PROVE  SyncOK' /\ AddressOK'
    <3> DEFINE r == [tab[e] EXCEPT !.sync = @ - 1]
    <3>1. tab' = [tab EXCEPT ![e] = r]
      BY <2>3
    <3>2. /\ r \in HopRecords /\ r.neigh = tab[e].neigh /\ r.dmac = tab[e].dmac
          /\ r.state = tab[e].state
      BY <1>2, <2>1 DEF HopRecords
    <3> HIDE DEF r
    <3> QED BY <1>4, <2>1, <3>1, <3>2
  <2> QED BY <1>5, <2>2, <2>3 DEF Reply
<1>6. CASE Drain(e)
  <2> DEFINE r == [tab[e] EXCEPT !.arpq = Tail(@)]
  <2>1. (tab' = tab \/ (tab' = [tab EXCEPT ![e] = r] /\ tab[e].arpq # <<>>)) /\ faults' = faults
    BY <1>6 DEF Drain
  <2>2. ASSUME tab[e].arpq # <<>>
        PROVE  /\ r \in HopRecords /\ r.sync = tab[e].sync /\ r.neigh = tab[e].neigh
               /\ r.dmac = tab[e].dmac /\ r.state = tab[e].state
    <3>1. Tail(tab[e].arpq) \in Seq(Users)
      BY <1>2, <2>2
    <3> QED BY <1>2, <3>1 DEF HopRecords
  <2> HIDE DEF r
  <2> QED BY <1>1, <1>4, <2>1, <2>2, CalmRightSame
<1> QED BY <1>5, <1>6

(* A change of a neighbour is on the way to t4_l2t_update ...              *)
LEMMA NeighRight ==
  ASSUME L2tTypeOK, HopControl, SyncOK, AddressOK, NEW n \in Neighs,
         Resolve(n) \/ Announce(n) \/ Age(n)
  PROVE  SyncOK' /\ AddressOK'
<1>1. /\ tab' = tab /\ faults' = faults /\ notify \subseteq notify'
      /\ n \in notify' \/ ha' = ha
      /\ \A m \in Neighs \ {n} : ha'[m] = ha[m]
  <2>1. ha \in [Neighs -> Nat]
    BY DEF L2tTypeOK
  <2>2. ha[n] = ha'[n] => ha' = ha
    <3>1. ASSUME ha' = [ha EXCEPT ![n] = ha[n]] PROVE ha' = ha
      BY <2>1, <3>1
    <3>2. \/ ha' = [ha EXCEPT ![n] = ha[n]]
          \/ ha' = [ha EXCEPT ![n] = ha[n] + 1]
      BY DEF Resolve, Announce, Age, NeighStep
    <3>3. ha[n] \in Nat
      BY <2>1
    <3> QED BY <2>1, <3>1, <3>2, <3>3
  <2>3. \A m \in Neighs \ {n} : ha'[m] = ha[m]
    BY <2>1 DEF Resolve, Announce, Age, NeighStep
  <2>4. n \in notify' \/ ha'[n] = ha[n]
    BY <2>1 DEF Resolve, Announce, Age, NeighStep
  <2>5. tab' = tab /\ faults' = faults /\ notify \subseteq notify'
    BY DEF Resolve, Announce, Age, NeighStep
  <2> QED BY <2>2, <2>3, <2>4, <2>5
<1>2. Calm
  BY NeighIsCalm
<1>3. /\ \A f \in Entries : Reused(f)' <=> Reused(f)
      /\ \A f \in Entries : Settled(f)' <=> Settled(f)
  BY <1>2, CalmSame
<1>4. SyncOK'
  BY <1>1, <1>3 DEF SyncOK, SyncAt
<1>5. AddressOK'
  <2> SUFFICES ASSUME faults = 0, NEW e \in Entries, Settled(e),
                      tab[e].state \in {"VALID", "STALE", "SYNC_WRITE"}
               PROVE  tab[e].neigh \in notify' \/ tab[e].dmac = Mac(tab[e].neigh)'
    BY <1>1, <1>3 DEF AddressOK, AddressAt
  <2>1. tab[e].neigh \in Neighs
    BY SettledNeigh
  <2>2. tab[e].neigh \in notify \/ tab[e].dmac = Mac(tab[e].neigh)
    BY DEF AddressOK, AddressAt
  <2>3. tab[e].neigh \in notify' \/ ha'[tab[e].neigh] = ha[tab[e].neigh]
    BY <1>1, <2>1
  <2> QED BY <1>1, <2>2, <2>3 DEF Mac
<1> QED BY <1>4, <1>5

(* ... which writes the address into the entry of the neighbour.           *)
LEMMA UpdateRight ==
  ASSUME L2tTypeOK, HopControl, SyncOK, AddressOK, \A s, t \in Tags : s = t,
         NEW n \in Neighs, UpdateNothing(n) \/ Update(n)
  PROVE  SyncOK' /\ AddressOK'
<1>1. /\ Calm /\ ha' = ha /\ notify' = notify \ {n} /\ writer = None
  BY NeighIsCalm DEF UpdateNothing, Update, neighVars
<1>2. /\ \A f \in Entries : Reused(f)' <=> Reused(f)
      /\ \A f \in Entries : Settled(f)' <=> Settled(f)
      /\ \A f \in Entries : tab'[f].ref = tab[f].ref
      /\ \A f \in Entries : ~Reused(f)
  BY <1>1, CalmSame, Unlocked DEF Calm, HopControl
<1>3. CASE UpdateNothing(n)
  <2>1. tab' = tab /\ faults' = faults /\ \A e \in Found(n) : tab[e].ref = 0
    BY <1>3 DEF UpdateNothing
  <2>2. SyncOK'
    BY <1>2, <2>1 DEF SyncOK, SyncAt
  <2>3. AddressOK'
    <3> SUFFICES ASSUME faults = 0, NEW e \in Entries, Settled(e),
                        tab[e].state \in {"VALID", "STALE", "SYNC_WRITE"}
                 PROVE  tab[e].neigh \in notify' \/ tab[e].dmac = Mac(tab[e].neigh)'
      BY <1>2, <2>1 DEF AddressOK, AddressAt
    <3>1. tab[e].neigh \in notify \/ tab[e].dmac = Mac(tab[e].neigh)
      BY DEF AddressOK, AddressAt
    <3>2. tab[e].neigh # n
      <4>1. ASSUME tab[e].neigh = n PROVE FALSE
        <5>1. Found(n) = {e}
          BY <4>1, OnlyOneFound
        <5>2. tab[e].ref = 0 /\ tab[e].ref > 0
          BY <2>1, <5>1 DEF Settled
        <5> QED BY <5>2
      <4> QED BY <4>1
    <3> QED BY <1>1, <2>1, <3>1, <3>2 DEF Mac
  <2> QED BY <2>2, <2>3
<1>4. CASE Update(n)
  <2>1. PICK e \in Found(n) :
          LET r == [tab[e] EXCEPT !.neigh = n]
              s == [r EXCEPT !.state = IF nud[n] = "reachable" THEN "VALID" ELSE "STALE"]
          IN /\ r.ref > 0
             /\ \/ r.state = "RESOLVING" /\ tab' = [tab EXCEPT ![e] = r] /\ faults' = faults
                \/ r.state = "RESOLVING" /\ WriteEntry(e, r, 1)
                \/ /\ r.state # "RESOLVING"
                   /\ IF r.dmac # Mac(n) THEN WriteEntry(e, s, 0)
                      ELSE tab' = [tab EXCEPT ![e] = s] /\ UNCHANGED faults
    BY <1>4 DEF Update
  <2> DEFINE r == [tab[e] EXCEPT !.neigh = n]
             s == [r EXCEPT !.state = IF nud[n] = "reachable" THEN "VALID" ELSE "STALE"]
  <2>2. /\ e \in Entries /\ e \in Hops[Hash[n]] /\ tab[e] \in HopRecords /\ tab[e].sync \in Nat
        /\ Hash[n] \in Entries /\ faults \in Nat
    BY FoundIs, HopFields, HashAssumption DEF L2tTypeOK
  <2>3. /\ r \in HopRecords /\ r.neigh = n /\ r.state = tab[e].state /\ r.sync = tab[e].sync
        /\ s \in HopRecords /\ s.neigh = n /\ s.state \in {"VALID", "STALE"}
        /\ s.sync = tab[e].sync /\ s.dmac = r.dmac /\ r.ref = tab[e].ref
    BY <2>2 DEF HopRecords, HopStates
  <2>4. /\ tab[e].ref > 0 /\ n # None
        /\ \/ r.state = "RESOLVING" /\ tab' = [tab EXCEPT ![e] = r] /\ faults' = faults
           \/ r.state = "RESOLVING" /\ WriteEntry(e, r, 1)
           \/ r.state # "RESOLVING" /\ WriteEntry(e, s, 0)
           \/ tab' = [tab EXCEPT ![e] = s] /\ faults' = faults /\ r.dmac = Mac(n)
    BY <2>1, <2>3, NoneAssumption
  <2> HIDE DEF r, s
  <2>5. PICK q \in HopRecords :
          /\ tab' = [tab EXCEPT ![e] = q]
          /\ q.sync > 0 => q.state \notin {"RESOLVING", "UNUSED"}
          /\ \/ faults' = faults + 1
             \/ /\ faults' = faults /\ q.neigh = n
                /\ (q.state = "RESOLVING" \/ q.dmac = Mac(n))
    <3>1. tab[e].state = "RESOLVING" => tab[e].sync = 0
      BY <2>2 DEF SyncOK, SyncAt
    <3>2. CASE r.state = "RESOLVING" /\ tab' = [tab EXCEPT ![e] = r] /\ faults' = faults
      <4>1. ~(r.sync > 0)
        BY <2>2, <2>3, <3>1, <3>2
      <4> QED BY <2>3, <3>2, <4>1
    <3>3. CASE r.state = "RESOLVING" /\ WriteEntry(e, r, 1)
      <4>1. PICK q \in HopRecords :
              /\ tab' = [tab EXCEPT ![e] = q] /\ q.neigh = n
              /\ \/ q = Written(r, 1) /\ faults' = faults
                 \/ q = r /\ faults' = faults + 1
        BY <2>2, <2>3, <3>3, EntryWritten
      <4>2. q = Written(r, 1) => q.state = "SYNC_WRITE" /\ q.dmac = Mac(n)
        BY <2>3, <2>4, <3>3, WrittenFields
      <4>3. q = r => ~(q.sync > 0)
        BY <2>2, <2>3, <3>1, <3>3
      <4> QED BY <4>1, <4>2, <4>3
    <3>4. CASE r.state # "RESOLVING" /\ WriteEntry(e, s, 0)
      <4>1. PICK q \in HopRecords :
              /\ tab' = [tab EXCEPT ![e] = q] /\ q.neigh = n
              /\ \/ q = Written(s, 0) /\ faults' = faults
                 \/ q = s /\ faults' = faults + 1
        BY <2>2, <2>3, <3>4, EntryWritten
      <4>2. q = Written(s, 0) => q.state = s.state /\ q.dmac = Mac(n)
        BY <2>3, <2>4, WrittenFields
      <4> QED BY <2>3, <4>1, <4>2
    <3>5. CASE tab' = [tab EXCEPT ![e] = s] /\ faults' = faults /\ r.dmac = Mac(n)
      BY <2>3, <3>5
    <3> QED BY <2>4, <3>2, <3>3, <3>4, <3>5
  <2>6. tab'[e] = q /\ \A f \in Entries \ {e} : tab'[f] = tab[f]
    BY <2>2, <2>5, HopChanged
  <2>7. SyncOK'
    BY <1>2, <2>4, <2>5, <2>6 DEF SyncOK, SyncAt
  <2>8. AddressOK'
    <3> SUFFICES ASSUME faults' = 0, NEW f \in Entries, Settled(f),
                        tab'[f].state \in {"VALID", "STALE", "SYNC_WRITE"}
                 PROVE  tab'[f].neigh \in notify' \/ tab'[f].dmac = Mac(tab[f].neigh)'
      BY <1>2 DEF AddressOK, AddressAt
    <3>1. faults' = faults /\ faults = 0
      BY <2>2, <2>5
    <3>2. CASE f = e
      BY <1>1, <2>2, <2>5, <2>6, <3>1, <3>2 DEF Mac
    <3>3. CASE f # e
      <4>1. tab[f].neigh \in notify \/ tab[f].dmac = Mac(tab[f].neigh)
        BY <2>6, <3>1, <3>3 DEF AddressOK, AddressAt
      <4>2. tab[f].neigh # n
        <5>1. ASSUME tab[f].neigh = n PROVE FALSE
          BY <3>3, <5>1, OnlyOneFound
        <5> QED BY <5>1
      <4> QED BY <1>1, <2>6, <3>3, <4>1, <4>2 DEF Mac
    <3> QED BY <3>2, <3>3
  <2> QED BY <2>7, <2>8
<1> QED BY <1>3, <1>4

(* References come and go: the first user of an entry finds no write under *)
(* way, and the last leaves none.                                          *)
LEMMA GetHitRight ==
  ASSUME L2tTypeOK, HopControl, SyncOK, AddressOK, NEW c \in Conns, NEW n \in Neighs,
         NEW t \in Tags, GetHit(c, n, t)
  PROVE  SyncOK' /\ AddressOK'
<1>1. /\ c \in Users /\ writer = None /\ faults' = faults /\ ha' = ha /\ notify' = notify
      /\ pc' = [pc EXCEPT ![c] = "reuse"]
  BY DEF GetHit, GetStart, Goto, Users, neighVars
<1>2. PICK e \in Hits(n, t) :
        tab' = [tab EXCEPT ![e].ref = @ + 1] /\ at' = [at EXCEPT ![c] = e]
  BY DEF GetHit
<1>3. e \in Entries
  BY HashAssumption, HopsOfEntries DEF Hits, Hops
<1>4. /\ \A f \in Entries : /\ tab'[f].state = tab[f].state /\ tab'[f].sync = tab[f].sync
                            /\ tab'[f].neigh = tab[f].neigh /\ tab'[f].dmac = tab[f].dmac
                            /\ tab[f].ref \in Nat
      /\ tab'[e].ref = tab[e].ref + 1 /\ \A f \in Entries \ {e} : tab'[f] = tab[f]
  <2> DEFINE r == [tab[e] EXCEPT !.ref = tab[e].ref + 1]
  <2>1. /\ r \in HopRecords /\ r.ref = tab[e].ref + 1 /\ r.state = tab[e].state
        /\ r.sync = tab[e].sync /\ r.neigh = tab[e].neigh /\ r.dmac = tab[e].dmac
    BY <1>3, HopFields DEF HopRecords
  <2>2. tab' = [tab EXCEPT ![e] = r]
    BY <1>2
  <2> HIDE DEF r
  <2>3. tab'[e] = r /\ \A f \in Entries \ {e} : tab'[f] = tab[f]
    BY <1>3, <2>1, <2>2, HopChanged
  <2> QED BY <1>3, <2>1, <2>3, HopFields
<1>5. \A u \in Users : pc[u] # "reuse"
  BY <1>1, Unlocked DEF HopControl
<1>6. /\ \A f \in Entries : ~Reused(f)
      /\ \A f \in Entries \ {e} : ~Reused(f)'
      /\ Reused(e)'
  BY <1>1, <1>2, <1>5 DEF Reused, L2tTypeOK
<1>7. SyncOK'
  <2> SUFFICES ASSUME NEW f \in Entries PROVE SyncAt(f)'
    BY DEF SyncOK
  <2>1. SyncAt(f)
    BY DEF SyncOK
  <2>2. CASE f = e
    BY <1>3, <1>4, <2>1, <2>2 DEF SyncAt
  <2>3. CASE f # e
    BY <1>4, <1>6, <2>1, <2>3 DEF SyncAt
  <2> QED BY <2>2, <2>3
<1>8. AddressOK'
  <2>1. \A f \in Entries : Settled(f)' => Settled(f)
    BY <1>3, <1>4, <1>6 DEF Settled
  <2> QED BY <1>1, <1>4, <2>1 DEF AddressOK, AddressAt, Mac
<1> QED BY <1>7, <1>8

LEMMA GetReuseRight ==
  ASSUME L2tTypeOK, HopControl, SyncOK, AddressOK, NEW c \in Users, GetReuse(c)
  PROVE  SyncOK' /\ AddressOK'
<1> DEFINE e == at[c]
           n == want[c][1]
           s == IF tab[e].dmac # Mac(n) \/ nud[n] \notin NudValid THEN "RESOLVING"
                ELSE IF nud[n] = "reachable" THEN "VALID" ELSE "STALE"
<1>1. /\ pc[c] = "reuse" /\ pc' = [pc EXCEPT ![c] = "has"]
      /\ faults' = faults /\ ha' = ha /\ notify' = notify /\ at' = at
      /\ tab' = IF tab[e].ref # 1 THEN tab ELSE [tab EXCEPT ![e].neigh = n, ![e].state = s]
  BY DEF GetReuse, Goto, userVars, neighVars
<1>2. /\ e \in Entries /\ tab[e].ref > 0 /\ tab[e].ref \in Nat /\ tab[e].sync \in Nat
      /\ tab[e].state # "SWITCHING"
  BY <1>1, SenderHas, HopFields DEF UsesHop
<1>3. \A u \in Users \ {c} : pc[u] # "reuse"
  BY <1>1, LockedBy DEF HopControl
<1>4. /\ \A f \in Entries : ~Reused(f)'
      /\ \A f \in Entries \ {e} : ~Reused(f)
      /\ Reused(e)
  BY <1>1, <1>3 DEF Reused, L2tTypeOK
<1>5. s = "RESOLVING" \/ tab[e].dmac = Mac(n)
  OBVIOUS
<1> HIDE DEF e, n, s
<1>6. SyncAt(e) /\ (tab[e].ref = 1 => tab[e].sync = 0)
  BY <1>2, <1>4 DEF SyncOK, SyncAt
<1>7. /\ \A f \in Entries : tab'[f].ref = tab[f].ref /\ tab'[f].sync = tab[f].sync
      /\ \A f \in Entries \ {e} : tab'[f] = tab[f]
      /\ tab[e].ref # 1 => tab' = tab
      /\ tab[e].ref = 1 => tab'[e].neigh = n /\ tab'[e].state = s /\ tab'[e].dmac = tab[e].dmac
  BY <1>1, <1>2 DEF L2tTypeOK, HopRecords
<1>8. SyncOK'
  <2> SUFFICES ASSUME NEW f \in Entries PROVE SyncAt(f)'
    BY DEF SyncOK
  <2>1. SyncAt(f)
    BY DEF SyncOK
  <2>2. CASE f = e /\ tab[e].ref = 1
    BY <1>6, <1>7, <2>2 DEF SyncAt
  <2>3. CASE f # e \/ tab[e].ref # 1
    BY <1>4, <1>7, <2>1, <2>3 DEF SyncAt
  <2> QED BY <2>2, <2>3
<1>9. AddressOK'
  <2> SUFFICES ASSUME faults = 0, NEW f \in Entries PROVE AddressAt(f)'
    BY <1>1 DEF AddressOK
  <2>1. AddressAt(f)
    BY DEF AddressOK
  <2>2. CASE f = e /\ tab[e].ref = 1
    BY <1>1, <1>5, <1>7, <2>2 DEF AddressAt, Mac
  <2>3. CASE f # e \/ tab[e].ref # 1
    <3>1. tab'[f] = tab[f] /\ (Settled(f)' => Settled(f))
      BY <1>2, <1>4, <1>7, <2>3 DEF Settled
    <3>2. ha' = ha /\ notify' = notify
      BY <1>1
    <3> QED BY <2>1, <3>1, <3>2 DEF AddressAt, Mac
  <2> QED BY <2>2, <2>3
<1> QED BY <1>8, <1>9

(* A step that makes an entry without references another.                  *)
LEMMA FreshRight ==
  ASSUME L2tTypeOK, HopControl, SyncOK, AddressOK, NEW e \in Entries, tab[e].ref = 0,
         faults' = 0 => faults = 0, ha' = ha, notify' = notify,
         \A f \in Entries \ {e} : tab'[f] = tab[f], tab'[e].sync = tab[e].sync,
         \/ tab'[e].ref = 0 \/ tab'[e].state \notin {"VALID", "STALE", "SYNC_WRITE"},
         \A f \in Entries \ {e} : Reused(f)' <=> Reused(f)
  PROVE  SyncOK' /\ AddressOK'
<1>1. tab[e].sync = 0
  BY HopFields DEF SyncOK, SyncAt
<1>2. SyncOK'
  <2> SUFFICES ASSUME NEW f \in Entries PROVE SyncAt(f)'
    BY DEF SyncOK
  <2>1. SyncAt(f)
    BY DEF SyncOK
  <2>2. CASE f = e
    BY <1>1, <2>2 DEF SyncAt
  <2>3. CASE f # e
    BY <2>1, <2>3 DEF SyncAt
  <2> QED BY <2>2, <2>3
<1>3. AddressOK'
  <2> SUFFICES ASSUME faults' = 0, NEW f \in Entries PROVE AddressAt(f)'
    BY DEF AddressOK
  <2>1. AddressAt(f)
    BY DEF AddressOK
  <2>2. CASE f = e
    BY <2>2 DEF AddressAt, Settled
  <2>3. CASE f # e
    BY <2>1, <2>3 DEF AddressAt, Settled, Mac
  <2> QED BY <2>2, <2>3
<1> QED BY <1>2, <1>3

LEMMA GetAllocRight ==
  ASSUME L2tTypeOK, HopControl, SyncOK, AddressOK, NEW c \in Conns, NEW n \in Neighs,
         NEW t \in Tags, GetAlloc(c, n, t)
  PROVE  SyncOK' /\ AddressOK'
<1> DEFINE e == Scan
<1>1. /\ c \in Users /\ writer = None /\ faults' = faults /\ ha' = ha /\ notify' = notify
      /\ tab' = [tab EXCEPT ![e].state = "UNUSED"]
      /\ pc' = [pc EXCEPT ![c] = "init"]
  BY DEF GetAlloc, GetStart, Goto, Users, neighVars
<1>2. e \in Entries /\ tab[e].ref = 0
  BY ScanFindsFree DEF FreeEntries, GetAlloc
<1> HIDE DEF e
<1>3. /\ tab'[e].ref = 0 /\ tab'[e].sync = tab[e].sync
      /\ \A f \in Entries \ {e} : tab'[f] = tab[f]
  BY <1>1, <1>2 DEF L2tTypeOK, HopRecords
<1>4. \A u \in Users : pc[u] # "reuse" /\ pc'[u] # "reuse"
  BY <1>1, Unlocked DEF HopControl, L2tTypeOK
<1>5. \A f \in Entries : Reused(f)' <=> Reused(f)
  BY <1>4 DEF Reused
<1> QED BY <1>1, <1>2, <1>3, <1>5, FreshRight

LEMMA GetInitRight ==
  ASSUME L2tTypeOK, HopControl, SyncOK, AddressOK, NEW c \in Users, GetInit(c)
  PROVE  SyncOK' /\ AddressOK'
<1> DEFINE e == at[c]
<1>1. /\ pc[c] = "init" /\ faults' = faults /\ ha' = ha /\ notify' = notify /\ at' = at
      /\ tab' = [tab EXCEPT ![e].state = "RESOLVING", ![e].key = want[c],
                            ![e].ref = 1, ![e].neigh = want[c][1]]
      /\ pc' = [pc EXCEPT ![c] = "has"]
  BY DEF GetInit, Goto, userVars, neighVars
<1>2. e \in Entries /\ tab[e].ref = 0
  BY <1>1 DEF HopControl, InitOK, L2tTypeOK
<1> HIDE DEF e
<1>3. /\ tab'[e].state = "RESOLVING" /\ tab'[e].sync = tab[e].sync
      /\ \A f \in Entries \ {e} : tab'[f] = tab[f]
  BY <1>1, <1>2 DEF L2tTypeOK, HopRecords
<1>4. \A u \in Users : pc'[u] = "reuse" <=> pc[u] = "reuse"
  BY <1>1 DEF L2tTypeOK
<1>5. \A f \in Entries : Reused(f)' <=> Reused(f)
  BY <1>1, <1>4 DEF Reused
<1> QED BY <1>1, <1>2, <1>3, <1>5, FreshRight

LEMMA ReleaseRight ==
  ASSUME L2tTypeOK, HopControl, SyncOK, AddressOK, Patient, NEW u \in Users, Release(u)
  PROVE  SyncOK' /\ AddressOK'
<1> DEFINE e == at[u]
<1>1. /\ pc[u] = "has" /\ faults' = faults /\ ha' = ha /\ notify' = notify
      /\ tab' = [tab EXCEPT ![e].ref = @ - 1] /\ tab[e].sync = 0
      /\ \E l \in {"idle", "free"} : Goto(u, l)
      /\ \A v \in Users \ {u} : at'[v] = at[v]
  BY DEF Release, Idle, Leave, neighVars, L2tTypeOK
<1>2. e \in Entries /\ tab[e].ref \in Nat /\ tab[e].ref > 0
  BY <1>1, SenderHas, HopFields DEF UsesHop
<1> HIDE DEF e
<1>3. /\ tab'[e].state = tab[e].state /\ tab'[e].sync = 0 /\ tab'[e].neigh = tab[e].neigh
      /\ tab'[e].dmac = tab[e].dmac /\ tab'[e].ref = tab[e].ref - 1
      /\ \A f \in Entries \ {e} : tab'[f] = tab[f]
  BY <1>1, <1>2 DEF L2tTypeOK, HopRecords
<1>4. \A f \in Entries : Reused(f)' <=> Reused(f)
  <2>1. /\ \A v \in Users \ {u} : pc'[v] = pc[v] /\ at'[v] = at[v]
        /\ pc[u] # "reuse" /\ pc'[u] # "reuse"
    BY <1>1 DEF Goto, L2tTypeOK
  <2> QED BY <2>1 DEF Reused
<1>5. SyncOK'
  <2> SUFFICES ASSUME NEW f \in Entries PROVE SyncAt(f)'
    BY DEF SyncOK
  <2>1. SyncAt(f)
    BY DEF SyncOK
  <2> QED BY <1>3, <1>4, <2>1 DEF SyncAt
<1>6. AddressOK'
  <2> SUFFICES ASSUME faults = 0, NEW f \in Entries PROVE AddressAt(f)'
    BY <1>1 DEF AddressOK
  <2>1. AddressAt(f)
    BY DEF AddressOK
  <2>2. Settled(f)' => Settled(f)
    BY <1>2, <1>3, <1>4 DEF Settled
  <2>3. /\ tab'[f].state = tab[f].state /\ tab'[f].neigh = tab[f].neigh
        /\ tab'[f].dmac = tab[f].dmac
    BY <1>3
  <2> QED BY <1>1, <2>1, <2>2, <2>3 DEF AddressAt, Mac
<1> QED BY <1>5, <1>6

LEMMA FreeRight ==
  ASSUME L2tTypeOK, HopControl, SyncOK, AddressOK, NEW u \in Users, Free(u)
  PROVE  SyncOK' /\ AddressOK'
<1> DEFINE e == at[u]
<1>1. /\ pc[u] = "free" /\ faults' = faults /\ ha' = ha /\ notify' = notify
      /\ tab' = IF tab[e].ref = 0 THEN [tab EXCEPT ![e].neigh = None, ![e].arpq = <<>>]
                ELSE tab
      /\ pc' = [pc EXCEPT ![u] = "idle"] /\ at' = [at EXCEPT ![u] = 1]
  BY DEF Free, Leave, Goto, neighVars
<1>2. e \in Entries
  BY DEF L2tTypeOK
<1> HIDE DEF e
<1>3. \A f \in Entries : Reused(f)' <=> Reused(f)
  <2>1. \A v \in Users : /\ pc'[v] = "reuse" <=> pc[v] = "reuse"
                         /\ pc[v] = "reuse" => at'[v] = at[v]
    BY <1>1 DEF L2tTypeOK
  <2> QED BY <2>1 DEF Reused
<1>4. CASE tab[e].ref = 0
  <2>1. /\ tab'[e].ref = 0 /\ tab'[e].sync = tab[e].sync
        /\ \A f \in Entries \ {e} : tab'[f] = tab[f]
    BY <1>1, <1>2, <1>4 DEF L2tTypeOK, HopRecords
  <2> QED BY <1>1, <1>2, <1>3, <1>4, <2>1, FreshRight
<1>5. CASE tab[e].ref # 0
  <2>1. tab' = tab
    BY <1>1, <1>5
  <2>2. SyncOK'
    BY <1>3, <2>1 DEF SyncOK, SyncAt
  <2>3. AddressOK'
    BY <1>1, <1>3, <2>1 DEF AddressOK, AddressAt, Settled, Mac
  <2> QED BY <2>2, <2>3
<1> QED BY <1>4, <1>5

LEMMA SwitchAllocRight ==
  ASSUME L2tTypeOK, HopControl, SyncOK, AddressOK, NEW f \in Switchers, NEW k \in Tags,
         SwitchAlloc(f, k)
  PROVE  SyncOK' /\ AddressOK'
<1>1. /\ f \in Users /\ pc[f] = "idle" /\ writer = None /\ ha' = ha /\ notify' = notify
      /\ faults \in Nat
  BY DEF SwitchAlloc, Users, neighVars, L2tTypeOK
<1>2. \A g \in Entries : ~Reused(g) /\ ~Reused(g)'
  <2>1. \A u \in Users : pc[u] # "reuse"
    BY <1>1, Unlocked DEF HopControl
  <2>2. pc' = pc \/ pc' = [pc EXCEPT ![f] = "has"]
    BY DEF SwitchAlloc, Goto
  <2>3. \A u \in Users : pc'[u] # "reuse"
    BY <2>1, <2>2 DEF L2tTypeOK
  <2> QED BY <2>1, <2>3 DEF Reused
<1>3. CASE \E e \in SameRule(k) : tab' = [tab EXCEPT ![e].ref = @ + 1] /\ faults' = faults
  <2>1. PICK e \in SameRule(k) : tab' = [tab EXCEPT ![e].ref = @ + 1] /\ faults' = faults
    BY <1>3
  <2>2. e \in Entries /\ tab[e].state = "SWITCHING" /\ tab[e].ref > 0 /\ tab[e].ref \in Nat
    BY HopFields DEF SameRule
  <2>3. /\ tab'[e].state = "SWITCHING" /\ tab'[e].ref > 0 /\ \A g \in Entries \ {e} : tab'[g] = tab[g]
    BY <2>1, <2>2 DEF L2tTypeOK, HopRecords
  <2>4. SyncOK'
    BY <1>2, <2>2, <2>3 DEF SyncOK, SyncAt
  <2>5. AddressOK'
    BY <1>1, <1>2, <2>1, <2>3 DEF AddressOK, AddressAt, Settled, Mac
  <2> QED BY <2>4, <2>5
<1> DEFINE e == First(FreeEntries)
           r == [tab[e] EXCEPT !.state = "SWITCHING", !.dmac = Rule(k), !.ref = 1]
<1>4. CASE FreeEntries # {} /\ WriteEntry(e, r, 0)
  <2>1. e \in Entries /\ tab[e].ref = 0
    BY <1>4, ScanFindsFree DEF FreeEntries
  <2>2. r \in HopRecords /\ r.state = "SWITCHING" /\ r.sync = tab[e].sync
    BY <2>1, RuleRecord
  <2> HIDE DEF e, r
  <2>3. PICK q \in HopRecords :
          /\ tab' = [tab EXCEPT ![e] = q]
          /\ q.state = "SWITCHING" <=> r.state = "SWITCHING"
          /\ \/ q = Written(r, 0) /\ faults' = faults
             \/ q = r /\ faults' = faults + 1
    BY <1>4, <2>1, <2>2, EntryWritten
  <2>4. q.sync = tab[e].sync
    <3>1. Written(r, 0).sync = r.sync + 0 /\ r.sync \in Nat
      BY <2>2, WrittenFields DEF HopRecords
    <3> QED BY <2>2, <2>3, <3>1
  <2>5. tab'[e] = q /\ \A g \in Entries \ {e} : tab'[g] = tab[g]
    BY <2>1, <2>3, HopChanged
  <2>6. faults' = 0 => faults = 0
    BY <1>1, <2>3
  <2> QED BY <1>1, <1>2, <2>1, <2>2, <2>3, <2>4, <2>5, <2>6, FreshRight
<1>5. CASE tab' = tab /\ faults' = faults
  <2>1. SyncOK'
    BY <1>2, <1>5 DEF SyncOK, SyncAt
  <2>2. AddressOK'
    BY <1>1, <1>2, <1>5 DEF AddressOK, AddressAt, Settled, Mac
  <2> QED BY <2>1, <2>2
<1> QED BY <1>3, <1>4, <1>5 DEF SwitchAlloc

LEMMA L2tRightKept ==
  ASSUME L2tTypeOK, HopControl, SyncOK, AddressOK, Patient, \A s, t \in Tags : s = t,
         [L2tNext]_l2tVars
  PROVE  SyncOK' /\ AddressOK'
<1>1. ASSUME UNCHANGED <<tab, pc, at, ha, notify, faults>> PROVE SyncOK' /\ AddressOK'
  <2>1. \A f \in Entries : Reused(f)' <=> Reused(f)
    BY <1>1 DEF Reused
  <2>2. SyncOK'
    BY <1>1, <2>1 DEF SyncOK, SyncAt
  <2>3. AddressOK'
    BY <1>1, <2>1 DEF AddressOK, AddressAt, Settled, Mac
  <2> QED BY <2>2, <2>3
<1>2. CASE UNCHANGED l2tVars
  BY <1>1, <1>2 DEF l2tVars
<1>3. ASSUME NEW u \in Users, UserNext(u) PROVE SyncOK' /\ AddressOK'
  <2>1. ASSUME NEW n \in Neighs, NEW t \in Tags, u \in Conns, GetRefused(u, n, t)
        PROVE  SyncOK' /\ AddressOK'
    BY <1>1, <2>1 DEF GetRefused, neighVars
  <2>2. ASSUME NEW n \in Neighs, NEW t \in Tags, u \in Conns, GetOverrun(u, n, t)
        PROVE  SyncOK' /\ AddressOK'
    <3>1. Calm
      <4>1. /\ tab' = tab /\ UNCHANGED <<chain, nfree, writer, at, want>>
            /\ pc[u] = "idle" /\ pc' = [pc EXCEPT ![u] = "lost"]
        BY <2>2 DEF GetOverrun, GetStart, Goto
      <4>2. \A v \in Users : pc'[v] = pc[v] \/ (pc[v] = "idle" /\ pc'[v] = "lost")
        BY <4>1 DEF L2tTypeOK
      <4>3. \A e \in Entries : tab'[e].neigh \in {tab[e].neigh, tab[e].key[1]}
        BY <4>1
      <4> QED BY <4>1, <4>2, <4>3 DEF Calm
    <3> QED BY <2>2, <3>1, CalmRightSame DEF GetOverrun, neighVars
  <2>3. ASSUME NEW n \in Neighs, NEW t \in Tags, u \in Conns, GetHit(u, n, t) \/ GetAlloc(u, n, t)
        PROVE  SyncOK' /\ AddressOK'
    BY <2>3, GetHitRight, GetAllocRight
  <2>4. CASE Send(u) \/ SendStale(u) \/ SendQueue(u) \/ SendKick(u) \/ SendWrite(u)
    BY <2>4, SendRight
  <2> QED BY <1>3, <2>1, <2>2, <2>3, <2>4, GetReuseRight, GetInitRight, ReleaseRight, FreeRight,
             SwitchAllocRight DEF UserNext
<1>4. ASSUME NEW n \in Neighs, NeighNext(n) PROVE SyncOK' /\ AddressOK'
  BY <1>4, NeighRight, UpdateRight DEF NeighNext
<1>5. ASSUME NEW e \in Entries, Reply(e) \/ Drain(e) PROVE SyncOK' /\ AddressOK'
  BY <1>5, ReplyRight
<1> QED BY <1>2, <1>3, <1>4, <1>5 DEF L2tNext

-----------------------------------------------------------------------------
LEMMA L2tStarts ==
  ASSUME L2tInit
  PROVE  L2tTypeOK /\ HopControl /\ SyncOK /\ AddressOK
<1>1. /\ tab = [e \in Entries |-> Fresh] /\ chain = [b \in Entries |-> <<>>]
      /\ nfree = Size /\ writer = None /\ notify = {} /\ faults = 0
      /\ pc = [u \in Users |-> "idle"] /\ at = [u \in Users |-> 1]
      /\ want = [u \in Users |-> NoKey]
  BY DEF L2tInit
<1>2. Fresh \in HopRecords
  BY DEF Fresh, HopRecords, HopStates, NoKey
<1>3. L2tTypeOK
  <2>1. nfree \in Int /\ faults \in Nat /\ 1 \in Entries
    BY <1>1, SizeAssumption DEF Entries
  <2>2. nud \in [Neighs -> NudStates] /\ ha \in [Neighs -> Nat] /\ moves \in Nat
    BY DEF L2tInit, NudStates, NudValid
  <2>3. chain \in [Entries -> Seq(Entries)]
    BY <1>1
  <2> QED BY <1>1, <1>2, <2>1, <2>2, <2>3 DEF L2tTypeOK
<1>4. /\ \A e \in Entries : tab[e].ref = 0 /\ tab[e].sync = 0 /\ tab[e].neigh = None
                            /\ tab[e].arpq = <<>>
      /\ \A u \in Users : pc[u] = "idle"
  BY <1>1 DEF Fresh
<1>5. \A b \in Entries : Hops[b] = {} /\ IsInjective(chain[b])
  BY <1>1 DEF Hops, ToSet, IsInjective
<1>6. WriterOK /\ InitOK /\ UserOK /\ NeighOK /\ NothingKept
  BY <1>4 DEF WriterOK, InitOK, UserOK, UsesHop, NeighOK, Settled, NothingKept
<1>7. ChainOK
  BY <1>4, <1>5 DEF ChainOK
<1>8. CountOK
  <2>1. \A e \in Entries : HopUsers[e] = {}
    BY <1>4 DEF HopUsers, UsesHop
  <2> QED BY <1>4, <2>1, FS_EmptySet DEF CountOK
<1>9. FreeNotMissed
  <2>1. Freeing = {} /\ Initialising = {} /\ FreeEntries = Entries
    BY <1>4 DEF Freeing, Initialising, FreeEntries
  <2>2. Cardinality({}) = 0 /\ Cardinality(Entries) = Size
    <3>1. Cardinality(1 .. Size) = IF 1 > Size THEN 0 ELSE Size - 1 + 1
      BY SizeAssumption, FS_Interval
    <3> QED BY <3>1, SizeAssumption, FS_EmptySet DEF Entries
  <2>3. FreeEntries \ Initialising = Entries
    BY <2>1
  <2> QED BY <1>1, <2>1, <2>2, <2>3, SizeAssumption DEF FreeNotMissed
<1>10. SyncOK /\ AddressOK
  BY <1>4 DEF SyncOK, SyncAt, AddressOK, AddressAt, Settled
<1> QED BY <1>3, <1>6, <1>7, <1>8, <1>9, <1>10 DEF HopControl

LEMMA ChainsFollow ==
  ASSUME L2tTypeOK, HopControl
  PROVE  ChainsSound
<1> USE DEF HopControl
<1>1. \A b, d \in Entries : b # d => Hops[b] \cap Hops[d] = {}
  BY DEF ChainOK
<1>2. \A e \in Entries : tab[e].ref > 0 =>
        IF tab[e].state = "SWITCHING" THEN \A b \in Entries : e \notin Hops[b]
        ELSE /\ e \in Hops[Hash[tab[e].key[1]]]
             /\ Hash[tab[e].key[1]] \in Entries
  <2>1. \A k \in HopKeys : Hash[k[1]] \in Entries
    BY HashAssumption DEF HopKeys
  <2> QED BY <2>1 DEF ChainOK
<1>3. \A b \in Entries : Hops[b] = ToSet(chain[b])
  BY DEF Hops
<1>4. /\ \A b \in Entries : IsInjective(chain[b])
      /\ \A b \in Entries : \A e, f \in Hops[b] : tab[e].key = tab[f].key => e = f
  BY DEF ChainOK
<1> QED BY <1>1, <1>2, <1>3, <1>4 DEF ChainsSound

LEMMA AddressFollows ==
  ASSUME L2tTypeOK, HopControl, AddressOK
  PROVE  RightAddress
<1> SUFFICES ASSUME faults = 0, NEW c \in Conns, pc[c] = "has",
                    tab[at[c]].state \in {"VALID", "STALE"}, tab[at[c]].neigh \notin notify
             PROVE  /\ tab[at[c]].neigh = want[c][1]
                    /\ tab[at[c]].dmac = Mac(tab[at[c]].neigh)
  BY DEF RightAddress
<1> DEFINE e == at[c]
<1>1. c \in Users /\ e \in Entries /\ tab[e].ref > 0 /\ tab[e].key = want[c]
  BY SenderHas DEF Users, UsesHop
<1>2. ASSUME Reused(e) PROVE tab[e].ref > 1
  <2>1. PICK v \in Users : pc[v] = "reuse" /\ at[v] = e
    BY <1>2 DEF Reused
  <2> QED BY <1>1, <2>1, TwoUsers DEF UsesHop, HopControl
<1>3. Settled(e)
  BY <1>1, <1>2 DEF Settled
<1>4. AddressAt(e)
  BY <1>1 DEF AddressOK
<1> QED BY <1>1, <1>3, <1>4, SettledNeigh DEF AddressAt

(* Whatever connections, rules and neighbours do, and whatever fails, a    *)
(* lookup finds the entry of its neighbour and only that, no free entry is *)
(* missed, and an entry that nobody uses keeps nothing (cxgb4_l2t_get,     *)
(* alloc_l2e, cxgb4_l2t_release, t4_l2e_free, t4_l2t_alloc_switching).     *)
THEOREM L2tChainsAlwaysSound == L2tSpec => [](ChainsSound /\ FreeNotMissed /\ NothingKept)
<1>1. L2tInit => L2tTypeOK /\ HopControl
  BY L2tStarts
<1>2. L2tTypeOK /\ HopControl /\ [L2tNext]_l2tVars => (L2tTypeOK /\ HopControl)'
  BY L2tTypeKept, HopControlKept
<1>3. L2tTypeOK /\ HopControl => ChainsSound /\ FreeNotMissed /\ NothingKept
  BY ChainsFollow DEF HopControl
<1> QED BY <1>1, <1>2, <1>3, PTL DEF L2tSpec

(* Connections that keep their references while a packet or a write is     *)
(* under way, and that look entries up by the neighbour alone, also send   *)
(* to its present address (cxgb4_l2t_send, t4_l2t_update, write_l2e,       *)
(* reuse_entry, do_l2t_write_rpl).                                         *)
THEOREM L2tTableSound ==
  ASSUME Patient, \A s, t \in Tags : s = t
  PROVE  L2tSpec => []TableSound
<1> DEFINE Inv == L2tTypeOK /\ HopControl /\ SyncOK /\ AddressOK
<1>1. L2tInit => Inv
  BY L2tStarts
<1>2. Inv /\ [L2tNext]_l2tVars => Inv'
  BY L2tTypeKept, HopControlKept, L2tRightKept
<1>3. Inv => TableSound
  BY ChainsFollow, AddressFollows DEF HopControl, TableSound
<1> QED BY <1>1, <1>2, <1>3, PTL DEF L2tSpec

(***************************************************************************)
(* Firmware commands: the list is a lock on the mailbox, and what a caller *)
(* takes for the reply is the reply to its own command                     *)
(***************************************************************************)
Places == {"idle", "queued", "head", "sent", "done"}
Messages == [is : {"command", "reply", "assertion"}, of : Nat]
Returns ==
  [is : {"command", "reply", "assertion", "none", "EBUSY", "ENXIO", "ETIMEDOUT"},
   of : Nat]
MbxTypeOK ==
  /\ mlist \in Seq(Callers)
  /\ cpc \in [Callers -> Places]
  /\ cmd \in [Callers -> Nat]
  /\ ret \in [Callers -> Returns]
  /\ owner \in {"NONE", "DRV", "FW"}
  /\ data \in Messages
  /\ ncmds \in Nat

(* The list holds the callers in the function, each once, and only the     *)
(* first is past the head.                                                 *)
OnceOnList == \A i, j \in 1 .. Len(mlist) : mlist[i] = mlist[j] => i = j
CallersListed ==
  \A c \in Callers : cpc[c] # "idle" <=> \E i \in 1 .. Len(mlist) : mlist[i] = c
HeadUses == \A c \in Callers : UsesMailbox(c) => mlist[1] = c
ListOK == OnceOnList /\ CallersListed /\ HeadUses

(* What the data registers hold while a command is out: this command, or   *)
(* its answer; and a valid message that the driver owns is an answer.      *)
DataOwn == \A c \in Callers : cpc[c] = "sent" /\ owner # "NONE" => data.of = cmd[c]
AnswerMarked == owner = "DRV" /\ msgvalid => data.is # "command"
RetOwn == \A c \in Callers : ret[c].is # "command" /\ (ret[c].of # 0 => ret[c].of = cmd[c])

MbxInv == MbxTypeOK /\ ListOK /\ DataOwn /\ AnswerMarked /\ RetOwn

-----------------------------------------------------------------------------
(* What list_del leaves: the other entries, in their order. *)
LEMMA RemoveAtProperties ==
  ASSUME NEW S, NEW s \in Seq(S), NEW i \in 1 .. Len(s)
  PROVE  /\ RemoveAt(s, i) \in Seq(S)
         /\ Len(RemoveAt(s, i)) = Len(s) - 1
         /\ \A j \in 1 .. Len(s) - 1 :
              RemoveAt(s, i)[j] = IF j < i THEN s[j] ELSE s[j + 1]
  <1> DEFINE a == SubSeq(s, 1, i - 1)
             b == SubSeq(s, i + 1, Len(s))
  <1>0. /\ Len(s) \in Nat /\ i \in Nat /\ \A j \in 1 .. Len(s) : s[j] \in S
        /\ i - 1 \in Int /\ i + 1 \in Int
        /\ \A j \in 1 .. i - 1 : s[j] \in S
        /\ \A j \in i + 1 .. Len(s) : s[j] \in S
    BY ElementOfSeq
  <1>1. /\ a \in Seq(S) /\ Len(a) = i - 1
        /\ \A j \in 1 .. i - 1 : a[j] = s[j]
    BY <1>0, SubSeqProperties
  <1>2. /\ b \in Seq(S) /\ Len(b) = Len(s) - i
        /\ \A j \in 1 .. Len(s) - i : b[j] = s[i + j]
    BY <1>0, SubSeqProperties
  <1> HIDE DEF a, b
  <1>3. /\ a \o b \in Seq(S) /\ Len(a \o b) = Len(a) + Len(b)
        /\ \A j \in 1 .. Len(a) + Len(b) :
             (a \o b)[j] = IF j <= Len(a) THEN a[j] ELSE b[j - Len(a)]
    BY <1>1, <1>2, ConcatProperties
  <1>4. Len(a) + Len(b) = Len(s) - 1
    BY <1>0, <1>1, <1>2
  <1>5. ASSUME NEW j \in 1 .. Len(s) - 1
        PROVE  (a \o b)[j] = IF j < i THEN s[j] ELSE s[j + 1]
    <2>1. CASE j < i
      BY <1>0, <1>1, <1>3, <1>4, <2>1
    <2>2. CASE j >= i
      <3>1. (a \o b)[j] = b[j - (i - 1)]
        BY <1>0, <1>1, <1>3, <1>4, <2>2
      <3>2. j - (i - 1) \in 1 .. Len(s) - i /\ i + (j - (i - 1)) = j + 1
        BY <1>0, <2>2
      <3> QED BY <1>0, <1>2, <2>2, <3>1, <3>2
    <2>3. j < i \/ j >= i
      BY <1>0
    <2> QED BY <2>1, <2>2, <2>3
  <1>6. RemoveAt(s, i) = a \o b
    BY DEF RemoveAt, a, b
  <1> QED BY <1>3, <1>4, <1>5, <1>6

(* A caller leaves the list: the others stay, once each, and if one of     *)
(* them has the mailbox it is still the first.                             *)
LEMMA LeaveListStep ==
  ASSUME MbxTypeOK, ListOK, NEW c \in Callers, NEW r, LeaveList(c, r)
  PROVE  /\ mlist' \in Seq(Callers)
         /\ ListOK'
  <1>1. PICK i \in 1 .. Len(mlist) : mlist[i] = c /\ mlist' = RemoveAt(mlist, i)
    BY DEF LeaveList
  <1>a. mlist \in Seq(Callers) /\ Len(mlist) \in Nat
    BY DEF MbxTypeOK
  <1>2. /\ mlist \in Seq(Callers) /\ Len(mlist) \in Nat
        /\ mlist' \in Seq(Callers) /\ Len(mlist') = Len(mlist) - 1
        /\ \A j \in 1 .. Len(mlist) - 1 :
             mlist'[j] = IF j < i THEN mlist[j] ELSE mlist[j + 1]
    BY <1>a, <1>1, RemoveAtProperties
  <1>3. cpc' = [cpc EXCEPT ![c] = "idle"] /\ cpc \in [Callers -> Places]
    BY DEF LeaveList, Step, MbxTypeOK
  <1>4. OnceOnList'
    BY <1>2, SMTT(20) DEF OnceOnList, ListOK
  <1>5. CallersListed'
    <2> SUFFICES ASSUME NEW d \in Callers
                 PROVE  cpc'[d] # "idle" <=> \E j \in 1 .. Len(mlist') : mlist'[j] = d
      BY DEF CallersListed
    <2>1. CASE d = c
      <3>1. \A j \in 1 .. Len(mlist') : mlist'[j] # c
        BY <1>1, <1>2 DEF OnceOnList, ListOK
      <3> QED BY <2>1, <3>1, <1>3
    <2>2. CASE d # c
      <3>1. (\E j \in 1 .. Len(mlist') : mlist'[j] = d)
              => \E j \in 1 .. Len(mlist) : mlist[j] = d
        BY <1>2
      <3>2. ASSUME NEW j \in 1 .. Len(mlist), mlist[j] = d
            PROVE  \E k \in 1 .. Len(mlist') : mlist'[k] = d
        <4>1. j # i BY <1>1, <2>2, <3>2
        <4>2. CASE j < i
          BY <1>2, <3>2, <4>2
        <4>3. CASE j > i
          <5>1. j - 1 \in 1 .. Len(mlist') /\ mlist'[j - 1] = d
            BY <1>2, <3>2, <4>3
          <5> QED BY <5>1
        <4> QED BY <1>2, <4>1, <4>2, <4>3
      <3> QED BY <2>2, <3>1, <3>2, <1>3 DEF CallersListed, ListOK
    <2> QED BY <2>1, <2>2
  <1>6. HeadUses'
    <2> SUFFICES ASSUME NEW d \in Callers, UsesMailbox(d)' PROVE mlist'[1] = d
      BY DEF HeadUses
    <2>1. d # c /\ UsesMailbox(d)
      BY <1>3 DEF UsesMailbox
    <2>2. mlist[1] = d /\ i > 1
      BY <1>1, <1>2, <2>1 DEF HeadUses, ListOK
    <2> QED BY <1>2, <2>2
  <1> QED BY <1>2, <1>4, <1>5, <1>6 DEF ListOK
(* What a step of LeaveList does not touch keeps its type. *)
LEMMA LeaveListType ==
  ASSUME MbxTypeOK, ListOK, NEW c \in Callers,
         NEW r \in Returns, LeaveList(c, r),
         UNCHANGED <<cmd, mailboxVars, fwdead, ncmds>>
  PROVE  MbxTypeOK'
  <1>1. mlist' \in Seq(Callers)
    BY LeaveListStep
  <1>2. cpc' \in [Callers -> Places] /\ ret' \in [Callers -> Returns]
    BY DEF LeaveList, Step, Return, MbxTypeOK, Places
  <1> QED BY <1>1, <1>2 DEF MbxTypeOK, mailboxVars

(* A caller that leaves with an error, or with what it has, disturbs       *)
(* nobody's command.                                                       *)
LEMMA LeaveListKeeps ==
  ASSUME MbxInv, NEW c \in Callers,
         NEW r \in Returns, r.is # "command",
         r.of # 0 => r.of = cmd[c],
         LeaveList(c, r), UNCHANGED <<cmd, mailboxVars, fwdead, ncmds>>
  PROVE  MbxInv'
  <1>1. MbxTypeOK' /\ ListOK'
    BY LeaveListType, LeaveListStep DEF MbxInv
  <1>2. /\ cpc' = [cpc EXCEPT ![c] = "idle"] /\ cpc \in [Callers -> Places]
        /\ ret' = [ret EXCEPT ![c] = r] /\ ret \in [Callers -> Returns]
        /\ UNCHANGED <<cmd, owner, msgvalid, data>>
    BY DEF LeaveList, Step, Return, MbxInv, MbxTypeOK, mailboxVars
  <1>3. DataOwn' /\ AnswerMarked' /\ RetOwn'
    BY <1>2 DEF MbxInv, DataOwn, AnswerMarked, RetOwn
  <1> QED BY <1>1, <1>3 DEF MbxInv

(* A caller that stays on the list, and is past its head if it moves, as   *)
(* only the first may be, keeps the list.                                  *)
LEMMA StepKeepsList ==
  ASSUME MbxTypeOK, ListOK, NEW c \in Callers, NEW l \in Places \ {"idle"},
         cpc[c] # "idle", mlist[1] = c, Step(c, l), UNCHANGED mlist
  PROVE  ListOK'
  <1>1. cpc' = [cpc EXCEPT ![c] = l] /\ cpc \in [Callers -> Places]
    BY DEF Step, MbxTypeOK
  <1>2. OnceOnList' BY DEF OnceOnList, ListOK
  <1>3. CallersListed' BY <1>1 DEF CallersListed, ListOK
  <1>4. HeadUses' BY <1>1 DEF HeadUses, ListOK, UsesMailbox
  <1> QED BY <1>2, <1>3, <1>4 DEF ListOK

LEMMA IssueStep ==
  ASSUME MbxInv, NEW c \in Callers, Issue(c)
  PROVE  MbxInv'
  <1>a. /\ mlist \in Seq(Callers) /\ Len(mlist) \in Nat
        /\ cpc' = [cpc EXCEPT ![c] = "queued"] /\ cpc \in [Callers -> Places]
        /\ cmd' = [cmd EXCEPT ![c] = ncmds + 1] /\ cmd \in [Callers -> Nat]
        /\ ret' = [ret EXCEPT ![c] = Error("none")]
        /\ ret \in [Callers -> Returns]
        /\ mlist' = Append(mlist, c) /\ cpc[c] = "idle"
        /\ UNCHANGED <<owner, msgvalid, data, fwdead>> /\ ncmds' = ncmds + 1
    BY DEF Issue, Step, Return, MbxInv, MbxTypeOK, mailboxVars
  <1>b. /\ mlist' \in Seq(Callers) /\ Len(mlist') = Len(mlist) + 1
        /\ \A j \in 1 .. Len(mlist) : mlist'[j] = mlist[j]
        /\ mlist'[Len(mlist) + 1] = c
    BY <1>a, AppendProperties
  <1>1. MbxTypeOK'
    BY <1>a, <1>b DEF MbxInv, MbxTypeOK, Places, Error, Returns, Messages
  <1>2. \A j \in 1 .. Len(mlist) : mlist[j] # c
    BY <1>a DEF MbxInv, ListOK, CallersListed
  <1>3. OnceOnList'
    BY <1>a, <1>b, <1>2 DEF MbxInv, ListOK, OnceOnList
  <1>4. CallersListed'
    <2> SUFFICES ASSUME NEW d \in Callers
                 PROVE  cpc'[d] # "idle" <=> \E j \in 1 .. Len(mlist') : mlist'[j] = d
      BY DEF CallersListed
    <2>1. CASE d = c
      BY <1>a, <1>b, <2>1
    <2>2. CASE d # c
      BY <1>a, <1>b, <2>2 DEF MbxInv, ListOK, CallersListed
    <2> QED BY <2>1, <2>2
  <1>5. HeadUses'
    <2> SUFFICES ASSUME NEW d \in Callers, UsesMailbox(d)' PROVE mlist'[1] = d
      BY DEF HeadUses
    <2>1. d # c /\ UsesMailbox(d)
      BY <1>a DEF UsesMailbox
    <2>2. mlist[1] = d /\ Len(mlist) > 0
      BY <1>a, <2>1 DEF MbxInv, ListOK, HeadUses, CallersListed, UsesMailbox
    <2> QED BY <1>a, <1>b, <2>2
  <1>6. DataOwn' /\ AnswerMarked' /\ RetOwn'
    BY <1>a DEF MbxInv, DataOwn, AnswerMarked, RetOwn, Error
  <1> QED BY <1>1, <1>3, <1>4, <1>5, <1>6 DEF MbxInv, ListOK

LEMMA GiveUpStep ==
  ASSUME MbxInv, NEW c \in Callers, GiveUp(c)
  PROVE  MbxInv'
  <1> DEFINE r == Error(IF fwdead THEN "ENXIO" ELSE "EBUSY")
  <1>1. r \in Returns /\ r.is # "command" /\ r.of = 0
    BY DEF Error, Returns
  <1>2. LeaveList(c, r) /\ UNCHANGED <<cmd, mailboxVars, fwdead, ncmds>>
    BY DEF GiveUp
  <1> HIDE DEF r
  <1> QED BY <1>1, <1>2, LeaveListKeeps

LEMMA AtHeadStep ==
  ASSUME MbxInv, NEW c \in Callers, AtHead(c)
  PROVE  MbxInv'
  <1>1. /\ cpc' = [cpc EXCEPT ![c] = "head"] /\ cpc \in [Callers -> Places]
        /\ cpc[c] = "queued" /\ mlist[1] = c
        /\ UNCHANGED <<mlist, cmd, ret, owner, msgvalid, data, fwdead, ncmds>>
    BY DEF AtHead, Step, MbxInv, MbxTypeOK, mailboxVars
  <1>2. MbxTypeOK'
    BY <1>1 DEF MbxInv, MbxTypeOK, Places
  <1>3. ListOK'
    BY <1>1, StepKeepsList DEF MbxInv, Step, Places
  <1>4. DataOwn' /\ AnswerMarked' /\ RetOwn'
    BY <1>1 DEF MbxInv, DataOwn, AnswerMarked, RetOwn
  <1> QED BY <1>2, <1>3, <1>4 DEF MbxInv

(* Only the first of the list has a command out, so no other caller's     *)
(* command is overwritten.                                                 *)
LEMMA SubmitStep ==
  ASSUME MbxInv, NEW c \in Callers, Submit(c)
  PROVE  MbxInv'
  <1>1. /\ cpc' = [cpc EXCEPT ![c] = "sent"] /\ cpc \in [Callers -> Places]
        /\ cpc[c] = "head" /\ mlist[1] = c
        /\ data' = [is |-> "command", of |-> cmd[c]]
        /\ owner' = "FW" /\ msgvalid' = TRUE
        /\ UNCHANGED <<mlist, cmd, ret, fwdead, ncmds>>
    BY DEF Submit, Step, MbxInv, MbxTypeOK, ListOK, HeadUses, UsesMailbox
  <1>2. MbxTypeOK'
    BY <1>1 DEF MbxInv, MbxTypeOK, Places, Messages
  <1>3. ListOK'
    BY <1>1, StepKeepsList DEF MbxInv, Step, Places
  <1>4. DataOwn'
    BY <1>1 DEF MbxInv, DataOwn, ListOK, HeadUses, UsesMailbox
  <1>5. AnswerMarked' /\ RetOwn'
    BY <1>1 DEF MbxInv, AnswerMarked, RetOwn
  <1> QED BY <1>2, <1>3, <1>4, <1>5 DEF MbxInv

LEMMA RefusedStep ==
  ASSUME MbxInv, NEW c \in Callers, Refused(c)
  PROVE  MbxInv'
  <1> DEFINE r == Error("EBUSY")
  <1>1. r \in Returns /\ r.is # "command" /\ r.of = 0
    BY DEF Error, Returns
  <1>2. LeaveList(c, r) /\ UNCHANGED <<cmd, mailboxVars, fwdead, ncmds>>
    BY DEF Refused
  <1> HIDE DEF r
  <1> QED BY <1>1, <1>2, LeaveListKeeps

LEMMA PollStep ==
  ASSUME MbxInv, NEW c \in Callers, Poll(c)
  PROVE  MbxInv'
  <1>1. /\ owner' = "NONE" /\ msgvalid' = FALSE /\ owner = "DRV"
        /\ UNCHANGED <<mlist, cmd, data, fwdead, ncmds>>
        /\ cpc[c] = "sent" /\ mlist[1] = c /\ data.of = cmd[c]
    BY DEF Poll, MbxInv, ListOK, HeadUses, UsesMailbox, DataOwn
  <1>2. AnswerMarked'
    BY <1>1 DEF AnswerMarked
  <1>3. DataOwn'
    BY <1>1 DEF DataOwn
  <1>4. CASE msgvalid
    <2>1. /\ cpc' = [cpc EXCEPT ![c] = "done"] /\ cpc \in [Callers -> Places]
          /\ ret' = [ret EXCEPT ![c] = data]
          /\ ret \in [Callers -> Returns]
          /\ data \in Messages
      BY <1>4 DEF Poll, Step, Return, MbxInv, MbxTypeOK
    <2>2. data \in Returns
      BY <2>1 DEF Messages, Returns
    <2>3. MbxTypeOK'
      BY <1>1, <2>1, <2>2 DEF MbxInv, MbxTypeOK, Places
    <2>4. ListOK'
      BY <1>1, <2>1, StepKeepsList DEF MbxInv, Step, Places
    <2>5. RetOwn'
      BY <1>1, <1>4, <2>1 DEF MbxInv, RetOwn, AnswerMarked
    <2> QED BY <1>2, <1>3, <2>3, <2>4, <2>5 DEF MbxInv
  <1>5. CASE ~msgvalid
    <2>1. UNCHANGED <<cpc, ret>>
      BY <1>5 DEF Poll
    <2>2. MbxTypeOK'
      BY <1>1, <2>1 DEF MbxInv, MbxTypeOK
    <2>3. ListOK' /\ RetOwn'
      BY <1>1, <2>1 DEF MbxInv, ListOK, OnceOnList, CallersListed, HeadUses,
         UsesMailbox, RetOwn
    <2> QED BY <1>2, <1>3, <2>2, <2>3 DEF MbxInv
  <1> QED BY <1>4, <1>5

LEMMA FinishStep ==
  ASSUME MbxInv, NEW c \in Callers, Finish(c)
  PROVE  MbxInv'
  <1>1. /\ ret[c] \in Returns /\ ret[c].is # "command"
        /\ ret[c].of # 0 => ret[c].of = cmd[c]
    BY DEF MbxInv, MbxTypeOK, RetOwn
  <1>2. LeaveList(c, ret[c]) /\ UNCHANGED <<cmd, mailboxVars, fwdead, ncmds>>
    BY DEF Finish
  <1> QED BY <1>1, <1>2, LeaveListKeeps

LEMMA TimedOutStep ==
  ASSUME MbxInv, NEW c \in Callers, TimedOut(c)
  PROVE  MbxInv'
  <1> DEFINE r == Error(IF fwdead THEN "ENXIO" ELSE "ETIMEDOUT")
  <1>1. r \in Returns /\ r.is # "command" /\ r.of = 0
    BY DEF Error, Returns
  <1>2. LeaveList(c, r) /\ UNCHANGED <<cmd, mailboxVars, fwdead, ncmds>>
    BY DEF TimedOut
  <1> HIDE DEF r
  <1> QED BY <1>1, <1>2, LeaveListKeeps

(* The firmware answers what is in the registers, or nothing.              *)
LEMMA FirmwareStep ==
  ASSUME MbxInv, FwReply \/ FwDrop \/ FwDies
  PROVE  MbxInv'
  <1>1. /\ UNCHANGED <<mlist, cpc, cmd, ret, ncmds>>
        /\ data' \in Messages /\ data'.of = data.of
        /\ (owner' = owner \/ (owner = "FW" /\ owner' = "DRV"))
    BY DEF FwReply, FwDrop, FwDies, mailboxVars, MbxInv, MbxTypeOK, Messages
  <1>2. MbxTypeOK'
    BY <1>1 DEF MbxInv, MbxTypeOK
  <1>3. ListOK' /\ RetOwn'
    BY <1>1 DEF MbxInv, ListOK, OnceOnList, CallersListed, HeadUses,
       UsesMailbox, RetOwn
  <1>4. DataOwn'
    BY <1>1 DEF MbxInv, DataOwn
  <1>5. AnswerMarked'
    <2>1. CASE FwReply
      BY <2>1 DEF AnswerMarked, FwReply
    <2>2. CASE FwDrop
      BY <2>2 DEF AnswerMarked, FwDrop
    <2>3. CASE FwDies
      BY <2>3 DEF MbxInv, AnswerMarked, FwDies, mailboxVars
    <2> QED BY <2>1, <2>2, <2>3
  <1> QED BY <1>2, <1>3, <1>4, <1>5 DEF MbxInv

LEMMA MbxInvInit == MbxInit => MbxInv
  <1> SUFFICES ASSUME MbxInit PROVE MbxInv OBVIOUS
  <1>1. mlist \in Seq(Callers) /\ Len(mlist) = 0
    BY EmptySeq DEF MbxInit
  <1>2. MbxTypeOK
    BY <1>1 DEF MbxInit, MbxTypeOK, Places, Error, Returns, Messages
  <1>3. ListOK
    BY <1>1 DEF MbxInit, ListOK, OnceOnList, CallersListed, HeadUses, UsesMailbox
  <1>4. DataOwn /\ AnswerMarked /\ RetOwn
    BY DEF MbxInit, DataOwn, AnswerMarked, RetOwn, Error
  <1> QED BY <1>2, <1>3, <1>4 DEF MbxInv

LEMMA MbxInvStep == MbxInv /\ [MbxNext]_mbxVars => MbxInv'
  <1> SUFFICES ASSUME MbxInv, [MbxNext]_mbxVars PROVE MbxInv' OBVIOUS
  <1>1. CASE UNCHANGED mbxVars
    <2>1. MbxTypeOK'
      BY <1>1 DEF mbxVars, MbxInv, MbxTypeOK
    <2>2. ListOK' /\ DataOwn' /\ AnswerMarked' /\ RetOwn'
      BY <1>1 DEF mbxVars, MbxInv, ListOK, OnceOnList, CallersListed, HeadUses,
         UsesMailbox, DataOwn, AnswerMarked, RetOwn
    <2> QED BY <2>1, <2>2 DEF MbxInv
  <1>2. ASSUME NEW c \in Callers, Issue(c) \/ GiveUp(c) \/ AtHead(c) \/ Submit(c)
        PROVE  MbxInv'
    BY <1>2, IssueStep, GiveUpStep, AtHeadStep, SubmitStep
  <1>3. ASSUME NEW c \in Callers, Refused(c) \/ Poll(c) \/ Finish(c) \/ TimedOut(c)
        PROVE  MbxInv'
    BY <1>3, RefusedStep, PollStep, FinishStep, TimedOutStep
  <1>4. CASE FwReply \/ FwDrop \/ FwDies
    BY <1>4, FirmwareStep
  <1> QED BY <1>1, <1>2, <1>3, <1>4 DEF MbxNext

LEMMA MbxInvImplies == MbxInv => MailboxSound
  BY DEF MbxInv, ListOK, OnceOnList, CallersListed, HeadUses, DataOwn, RetOwn,
     MailboxSound, MailboxExclusive, ReplyIsOwn, UsesMailbox

(* A command has the mailbox to itself from the head of the list until its *)
(* caller returns, and what the caller takes for the reply is the reply to *)
(* its own command, for any number of callers and of commands, whichever   *)
(* of them time out and whenever the firmware answers                      *)
(* (t4_wr_mbox_meat_timeout).                                              *)
THEOREM MbxSound == MbxSpec => []MailboxSound
  <1>1. MbxSpec => []MbxInv
    BY MbxInvInit, MbxInvStep, PTL DEF MbxSpec
  <1> QED BY <1>1, MbxInvImplies, PTL
==============================================================================
