------------------------------ MODULE QueueIds ------------------------------
(***************************************************************************)
(* The identifiers of RDMA queues (src/cxgb4/cxgb4_rdma_resource.c) and    *)
(* the calls of the RDMA driver that take and return them (qp.c, cq.c,     *)
(* provider.c).  Identifiers come in pages of Density: a page of doorbell  *)
(* registers is mapped into one process, so a process that needs a queue   *)
(* takes a whole page, and keeps the identifiers it does not use, once as  *)
(* identifiers of send and receive queues and once as those of completion  *)
(* queues, on two lists of its own until it closes.  A call allocates a    *)
(* list entry for each and may run out of memory at any of them.           *)
(* Raw queues, whose identifiers the firmware gives out, are left out.     *)
(***************************************************************************)
EXTENDS Naturals, FiniteSets, Sequences, SequencesExt, Functions

CONSTANTS Contexts,   \* processes, and the driver itself (rdev->uctx)
          Density,    \* qpmask + 1: identifiers of a page
          NumPages,   \* pages of the adapter's range of identifiers
          Objects,    \* queue pairs, shared receive queues and completion queues
          QueueKinds, \* "cq"; "rc", with two queues; "one", with one
          MaxQueues,  \* bound: queues created
          MaxNoMem    \* bound: allocations of a list entry that fail

ASSUME QueueIdsAssumption ==
  /\ Density \in Nat \ {0} /\ NumPages \in Nat \ {0}
  /\ MaxQueues \in Nat /\ MaxNoMem \in Nat
  /\ QueueKinds \subseteq {"cq", "rc", "one"} /\ Contexts \cap Objects = {}

VARIABLES qid_table, \* the pages nobody has
          qids,      \* the two lists of a context: uctx->qpids and uctx->cqids
          queue_obj, \* the objects: whose, of what kind, which identifiers, how far
          qid_cur,   \* res->stats.qid.cur
          nqueues, nomem
qidVars == <<qid_table, qids, queue_obj, qid_cur, nqueues, nomem>>

QidPages == {p * Density : p \in 1 .. NumPages}
PageOf(id) == id - (id % Density)
NoObject == [kind |-> "none", held |-> <<>>]
Lists == {"qp", "cq"}

QidInit ==
  /\ qid_table = QidPages
  /\ qids = [u \in Contexts |-> [l \in Lists |-> <<>>]]
  /\ queue_obj = [o \in Objects |-> NoObject]
  /\ qid_cur = 0 /\ nqueues = 0 /\ nomem = 0

----------------------------------------------------------------------------
(* The allocator.  A context's lock is held through each call.             *)

OtherList(l) == IF l = "qp" THEN "cq" ELSE "qp"
\* The lists with the first n entries that a new page makes, in the order of
\* the allocations: its identifiers but the first for the list that asked, then
\* all of them for the other.
Entered(lists, l, page, n) ==
  LET own == IF n < Density THEN n ELSE Density - 1
  IN  [lists EXCEPT ![l] = @ \o [i \in 1 .. own |-> page + i],
                    ![OtherList(l)] = @ \o [i \in 1 .. n - own |-> page + i - 1]]

\* cxgb4_uld_get_qpid and cxgb4_uld_get_cqid: the context's list l gives id.
GetFromList(u, l, id) ==
  /\ qids[u][l] # <<>> /\ id = Head(qids[u][l])
  /\ qids' = [qids EXCEPT ![u][l] = Tail(@)]
  /\ UNCHANGED <<qid_table, qid_cur, nomem>>
GetNewPage(u, l, id) ==
  /\ qids[u][l] = <<>> /\ id \in qid_table
  /\ qid_table' = qid_table \ {id}
  /\ qid_cur' = qid_cur + Density
  /\ \E n \in 0 .. 2 * Density - 1 :
       /\ qids' = [qids EXCEPT ![u] = Entered(@, l, id, n)]
       /\ IF n = 2 * Density - 1 THEN UNCHANGED nomem
          ELSE nomem < MaxNoMem /\ nomem' = nomem + 1
GetQid(u, l, id) == GetFromList(u, l, id) \/ GetNewPage(u, l, id)
NoQid(u, l) == qids[u][l] = <<>> /\ qid_table = {}

\* cxgb4_uld_put_qpid and cxgb4_uld_put_cqid: without memory for the entry the
\* identifier is forgotten.
PutQid(u, l, id) ==
  /\ UNCHANGED <<qid_table, qid_cur>>
  /\ \/ /\ qids' = [qids EXCEPT ![u][l] = Append(@, id)]
        /\ UNCHANGED nomem
     \/ /\ nomem < MaxNoMem /\ nomem' = nomem + 1
        /\ UNCHANGED qids

----------------------------------------------------------------------------
(* The RDMA driver.                                                        *)

ListOf(kind) == IF kind = "cq" THEN "cq" ELSE "qp"
\* A queue pair with a shared receive queue, and that queue, have one each.
QueuesOf(kind) == IF kind = "rc" THEN 2 ELSE 1

\* create_cq, alloc_srq_queue, alloc_rc_queues: each takes its identifiers
\* one by one.
CreateQueue(o, u, kind) ==
  /\ queue_obj[o] = NoObject
  /\ nqueues < MaxQueues /\ nqueues' = nqueues + 1
  /\ queue_obj' = [queue_obj EXCEPT
       ![o] = [kind |-> kind, held |-> <<>>, uctx |-> u, at |-> "create"]]
  /\ UNCHANGED <<qid_table, qids, qid_cur, nomem>>
TakeQid(o) ==
  LET q == queue_obj[o] IN
  /\ q # NoObject /\ q.at = "create" /\ Len(q.held) < QueuesOf(q.kind)
  /\ \/ \E id \in 1 .. (NumPages + 1) * Density :
          /\ GetQid(q.uctx, ListOf(q.kind), id)
          /\ UNCHANGED nqueues
          /\ queue_obj' = [queue_obj EXCEPT ![o].held = Append(@, id)]
     \/ /\ NoQid(q.uctx, ListOf(q.kind))
        /\ queue_obj' = [queue_obj EXCEPT ![o].at = "undo"]
        /\ UNCHANGED <<qid_table, qids, qid_cur, nqueues, nomem>>
\* The rest of the creation: memory, the work request, its reply.
QueueReady(o) ==
  LET q == queue_obj[o] IN
  /\ q # NoObject /\ q.at = "create" /\ Len(q.held) = QueuesOf(q.kind)
  /\ \E end \in {"ready", "undo"} : queue_obj' = [queue_obj EXCEPT ![o].at = end]
  /\ UNCHANGED <<qid_table, qids, qid_cur, nqueues, nomem>>
\* destroy_cq, free_srq_queue, free_rc_queues
DestroyQueue(o) ==
  /\ queue_obj[o] # NoObject /\ queue_obj[o].at = "ready"
  /\ queue_obj' = [queue_obj EXCEPT ![o].at = "undo"]
  /\ UNCHANGED <<qid_table, qids, qid_cur, nqueues, nomem>>
\* The receive queue's identifier goes back before the send queue's.
ReturnQid(o) ==
  LET q == queue_obj[o] IN
  /\ q # NoObject /\ q.at = "undo"
  /\ \/ /\ q.held # <<>>
        /\ PutQid(q.uctx, ListOf(q.kind), Last(q.held))
        /\ UNCHANGED nqueues
        /\ queue_obj' = [queue_obj EXCEPT ![o].held = Front(@)]
     \/ /\ q.held = <<>>
        /\ queue_obj' = [queue_obj EXCEPT ![o] = NoObject]
        /\ UNCHANGED <<qid_table, qids, qid_cur, nqueues, nomem>>

ReleaseContext_BothLists(u) == \* mutant: a page goes back for an entry of either list
  /\ \A o \in Objects : queue_obj[o] # NoObject => queue_obj[o].uctx # u
  /\ LET ids == qids[u]["qp"] \o qids[u]["cq"]
         firsts == {i \in DOMAIN ids : ids[i] % Density = 0}
     IN  /\ qid_table' = qid_table \cup {ids[i] : i \in firsts}
         /\ qid_cur' = qid_cur - Cardinality(firsts) * Density
  /\ qids' = [qids EXCEPT ![u] = [l \in Lists |-> <<>>]]
  /\ UNCHANGED <<queue_obj, nqueues, nomem>>
\* cxgb4_uld_release_dev_ucontext, for a process whose queues are destroyed:
\* a page goes back for the first of its identifiers on the list of queue
\* pairs.  (The context is ready for another process.)
ReleaseContext(u) ==
  /\ \A o \in Objects : queue_obj[o] # NoObject => queue_obj[o].uctx # u
  /\ LET ids == qids[u]["qp"]
         firsts == {i \in DOMAIN ids : ids[i] % Density = 0}
     IN  /\ qid_table' = qid_table \cup {ids[i] : i \in firsts}
         /\ qid_cur' = qid_cur - Cardinality(firsts) * Density
  /\ qids' = [qids EXCEPT ![u] = [l \in Lists |-> <<>>]]
  /\ UNCHANGED <<queue_obj, nqueues, nomem>>

QidNext ==
  \/ \E o \in Objects, u \in Contexts, kind \in QueueKinds : CreateQueue(o, u, kind)
  \/ \E o \in Objects : TakeQid(o) \/ QueueReady(o) \/ DestroyQueue(o) \/ ReturnQid(o)
  \/ \E u \in Contexts : ReleaseContext(u)
QidSpec == QidInit /\ [][QidNext]_qidVars

----------------------------------------------------------------------------
(* Properties                                                              *)

Owners == Contexts \cup Objects
\* The identifiers of one sort that a context has on its list or an object holds.
Has(w, l) ==
  IF w \in Contexts THEN qids[w][l]
  ELSE IF ListOf(queue_obj[w].kind) = l THEN queue_obj[w].held ELSE <<>>
ContextOf(w) == IF w \in Contexts THEN w ELSE queue_obj[w].uctx
PagesOf(w) == {PageOf(id) : id \in UNION {ToSet(Has(w, l)) : l \in Lists}}

\* No identifier is given to two queues of a sort (cxgb4_rdma_resource.c: an
\* identifier is on its list at most once, and nowhere while a queue has it).
IdsApart ==
  \A l \in Lists : \A v, w \in Owners :
    /\ IsInjective(Has(w, l))
    /\ v # w => ToSet(Has(v, l)) \cap ToSet(Has(w, l)) = {}

\* Two processes never share a page of doorbells, and a page that is free for
\* the next process is on nobody's list and under nobody's queue.
PagesApart ==
  \A v, w \in Owners :
    /\ PagesOf(w) \cap qid_table = {}
    /\ (PagesOf(v) \cap PagesOf(w) # {}) => ContextOf(v) = ContextOf(w)

\* The statistics count the pages that are out, and a page is lost only to an
\* allocation that failed: after the last process every other is back.
PagesComeBack ==
  LET lost == (QidPages \ qid_table) \ UNION {PagesOf(w) : w \in Owners}
  IN  /\ qid_cur = Density * Cardinality(QidPages \ qid_table)
      /\ Cardinality(lost) <= nomem

QidsSound == IdsApart /\ PagesApart /\ PagesComeBack
=============================================================================
