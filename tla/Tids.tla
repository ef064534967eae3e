------------------------------- MODULE Tids -------------------------------
(***************************************************************************)
(* Identifiers of offloaded connections (src/cxgb4/cxgb4_tid.c).  A        *)
(* connection takes an atid from the driver, gets a tid from the hardware, *)
(* enters it in the driver's table and gives the atid back; at its end the *)
(* tid leaves the table and a CPL_TID_RELEASE lets the hardware hand it    *)
(* out again.  Without memory for that message the tid is left to a work   *)
(* item: tid_release_head holds it, encoded in one word, 0 for none.  The  *)
(* adder and the work item hold different locks                            *)
(* (adap->tid_release_lock, t->tid_release_lock), so the steps of the work *)
(* item are actions of their own.                                          *)
(***************************************************************************)
EXTENDS TidTable

CONSTANTS Eps,           \* connections
          IPv6,          \* those that take max_range slots
          HwTids,        \* tids the hardware hands out
          TidRange,      \* max_range of the tids
          NAtids,        \* atids
          Queue,         \* the control queue of a connection
          Shift, Bits,   \* the encoding: tid << Shift in Bits bits
          MaxOpens,      \* bound: connections opened
          MaxNoMem,      \* bound: failed allocations
          NoTid

ASSUME TidsAssumption ==
  /\ IPv6 \subseteq Eps /\ HwTids \subseteq Nat /\ NoTid \notin HwTids
  /\ \E first, last \in HwTids : HwTids = first .. last
  /\ TidRange \in Nat \ {0} /\ NAtids \in Nat
  /\ Queue \in [Eps -> 0 .. 2^Shift - 1]

VARIABLES tids, atids,  \* the two tables
          hwtid,        \* what the hardware regards as in use: tid and slots
          release,      \* CPL_TID_RELEASE messages under way
          head,         \* tid_release_head
          queued,       \* tid_release_task is queued
          worker, taken,\* the work item: its step, what it read from head
          epc, atid, tid,  \* the connections
          opens, nomem
tidVars == <<tids, atids, hwtid, release, head, queued, worker, taken,
             epc, atid, tid, opens, nomem>>
headVars == <<head, queued, worker, taken>>

Base == CHOOSE b \in HwTids : \A t \in HwTids : b <= t
Span == Cardinality(HwTids)
Enc(t, q) == ((t * 2^Shift) % 2^Bits) + q
Dec_Queue(h) == h % 2^Shift \* mutant
Dec(h) == h \div 2^Shift
Wide(c) == c \in IPv6

TidInit ==
  /\ tids = NewTable(Base, Span, TidRange)
  /\ atids = NewTable(0, NAtids, 1)
  /\ hwtid = {} /\ release = {}
  /\ head = 0 /\ queued = FALSE /\ worker = "idle" /\ taken = 0
  /\ epc = [c \in Eps |-> "closed"]
  /\ atid = [c \in Eps |-> NoTid] /\ tid = [c \in Eps |-> NoTid]
  /\ opens = 0 /\ nomem = 0

\* c4iw_connect: an atid, unless there is none.
OpenAtid(c) ==
  /\ epc[c] = "closed" /\ opens < MaxOpens
  /\ opens' = opens + 1
  /\ IF FreeRegions(atids, 1) = {} THEN UNCHANGED <<atids, atid, epc>>
     ELSE /\ atids' = Take(atids, LowestFree(atids, 1), c, FALSE)
          /\ atid' = [atid EXCEPT ![c] = LowestFree(atids, 1)]
          /\ epc' = [epc EXCEPT ![c] = "opening"]
  /\ UNCHANGED <<tids, hwtid, release, headVars, tid, nomem>>

\* The hardware connects: it picks tids it regards as free.
HwConnect(c) ==
  /\ epc[c] = "opening"
  /\ \E t \in HwTids :
       LET n == Width(tids, Wide(c))
       IN /\ t = Aligned(tids, t, Wide(c)) /\ Region(t, n) \subseteq HwTids
          /\ \A h \in hwtid : Region(t, n) \cap Region(h[1], h[2]) = {}
          /\ hwtid' = hwtid \cup {<<t, n>>}
          /\ tid' = [tid EXCEPT ![c] = t]
  /\ epc' = [epc EXCEPT ![c] = "connected"]
  /\ UNCHANGED <<tids, atids, release, headVars, atid, opens, nomem>>

\* The open fails: the atid goes back.
OpenFails(c) ==
  /\ epc[c] = "opening"
  /\ atids' = FreeId(atids, atid[c], FALSE)
  /\ epc' = [epc EXCEPT ![c] = "closed"]
  /\ atid' = [atid EXCEPT ![c] = NoTid]
  /\ UNCHANGED <<tids, hwtid, release, headVars, tid, opens, nomem>>

\* act_establish enters the tid, ignoring the result, then frees the atid.
Establish(c) ==
  /\ epc[c] = "connected"
  /\ tids' = IF CanInsert(tids, tid[c], Wide(c))
             THEN InsertId(tids, tid[c], c, Wide(c)) ELSE tids
  /\ atids' = FreeId(atids, atid[c], FALSE)
  /\ atid' = [atid EXCEPT ![c] = NoTid]
  /\ epc' = [epc EXCEPT ![c] = "open"]
  /\ UNCHANGED <<hwtid, release, headVars, tid, opens, nomem>>

RemoveTid_OneSlot(c) == \* mutant
  /\ epc[c] = "open"
  /\ tids' = FreeId(tids, tid[c], FALSE)
  /\ epc' = [epc EXCEPT ![c] = "removed"]
  /\ UNCHANGED <<atids, hwtid, release, headVars, atid, tid, opens, nomem>>

\* cxgb4_tid_remove, under the lock of the table ...
RemoveTid(c) ==
  /\ epc[c] = "open"
  /\ tids' = FreeId(tids, tid[c], Wide(c))
  /\ epc' = [epc EXCEPT ![c] = "removed"]
  /\ UNCHANGED <<atids, hwtid, release, headVars, atid, tid, opens, nomem>>

Forget(c) ==
  /\ epc' = [epc EXCEPT ![c] = "closed"]
  /\ tid' = [tid EXCEPT ![c] = NoTid]

\* ... and then the message,
RemoveSend(c) ==
  /\ epc[c] = "removed"
  /\ release' = release \cup {tid[c]}
  /\ Forget(c)
  /\ UNCHANGED <<tids, atids, hwtid, headVars, atid, opens, nomem>>

\* or, without memory, the work item (cxgb4_tid_release_list_add).
RemoveDefer(c) ==
  /\ epc[c] = "removed" /\ nomem < MaxNoMem
  /\ nomem' = nomem + 1
  /\ head' = Enc(tid[c], Queue[c])
  /\ queued' = (queued \/ head = 0)
  /\ Forget(c)
  /\ UNCHANGED <<tids, atids, hwtid, release, worker, taken, atid, opens>>

\* cxgb4_tid_process_release_list: look, take, clear, send, look again.
WorkLook ==
  /\ \/ worker = "idle" /\ queued /\ queued' = FALSE
     \/ worker = "look" /\ UNCHANGED queued
  /\ taken' = head
  /\ worker' = IF head = 0 THEN "idle" ELSE "clear"
  /\ UNCHANGED <<tids, atids, hwtid, release, head, epc, atid, tid, opens, nomem>>
WorkClear ==
  /\ worker = "clear"
  /\ head' = 0
  /\ worker' = "send"
  /\ UNCHANGED <<tids, atids, hwtid, release, queued, taken, epc, atid, tid, opens, nomem>>
WorkSend ==
  /\ worker = "send"
  /\ release' = release \cup {Dec(taken)}
  /\ taken' = 0
  /\ worker' = "look"
  /\ UNCHANGED <<tids, atids, hwtid, head, queued, epc, atid, tid, opens, nomem>>

\* The hardware frees the tid.
HwRelease ==
  \E t \in release :
    /\ release' = release \ {t}
    /\ hwtid' = {h \in hwtid : h[1] # t}
    /\ UNCHANGED <<tids, atids, headVars, epc, atid, tid, opens, nomem>>

TidNext ==
  \/ \E c \in Eps : \/ OpenAtid(c) \/ HwConnect(c) \/ OpenFails(c) \/ Establish(c)
                    \/ RemoveTid(c) \/ RemoveSend(c) \/ RemoveDefer(c)
  \/ WorkLook \/ WorkClear \/ WorkSend \/ HwRelease
TidSpec == TidInit /\ [][TidNext]_tidVars

----------------------------------------------------------------------------
(* Properties                                                              *)

\* The bitmaps and the counts of both tables agree with their maps: no slot is
\* counted twice, none is lost, whatever the order of opens and removals
\* (cxgb4_tid_xarray_alloc, cxgb4_tid_xarray_free).
TidTablesAgree == Consistent(tids, Wide) /\ Consistent(atids, LAMBDA c : FALSE)

\* A tid that the hardware hands out is not in the table any more, so that its
\* insertion, whose result act_establish ignores, succeeds: a tid leaves the
\* table before the hardware hears of it (cxgb4_tid_remove).
TidNotTaken == \A c \in Eps : epc[c] = "connected" => CanInsert(tids, tid[c], Wide(c))

\* The hardware is told only of tids that it has given out and that nobody has:
\* a release never ends the next connection.
RightTidReleased ==
  \A t \in release : (\E h \in hwtid : h[1] = t) /\ (\A c \in Eps : tid[c] # t)

\* What a connection may rely on: its tid is its own, in the driver and in the
\* hardware (cxgb4_tid_insert, cxgb4_tid_remove).
TidsSound == TidTablesAgree /\ TidNotTaken /\ RightTidReleased

\* "Queue a TID release request", "Process the list of pending TID release
\* requests" (cxgb4_tid.c:245, 262): each tid in use is that of a connection,
\* or its release is under way or on the list.
NoReleaseLost ==
  \A h \in hwtid : \/ \E c \in Eps : tid[c] = h[1]
                    \/ h[1] \in release
                    \/ (head # 0 /\ Dec(head) = h[1])
                    \/ (taken # 0 /\ Dec(taken) = h[1])
==========================================================================
