------------------------------ MODULE RxQueue ------------------------------
(***************************************************************************)
(* A receive queue of the adapter (src/cxgb4/sge.c): a response queue and  *)
(* its free list.  The driver puts buffers on the free list, a ring; the   *)
(* doorbell gives them to the adapter a unit of 8 at a time.  The adapter  *)
(* packs packets into the buffers and writes one response each, whose      *)
(* generation bit says in which turn of the ring it was written.  A packet *)
(* goes on in the open buffer or begins in a new one.                      *)
(*                                                                         *)
(* NAPI polls the queue; at its end the interrupt is armed again.  A free  *)
(* list left low is marked starving, and a timer polls the queue for it,   *)
(* as the adapter, which has too few buffers, sends no more responses.     *)
(* The timer and the interrupt run beside the poll, on other processors.   *)
(* How large a buffer is, so how many a packet takes, the adapter knows as *)
(* the driver does; here the adapter chooses the number.                   *)
(***************************************************************************)
EXTENDS Naturals, Sequences

CONSTANTS FlSize,    \* buffers of the free list's ring
          Unit,      \* buffers of a hardware descriptor, 8 in the code
          Egress,    \* the SGE's Egress Congestion Threshold
          Frags,     \* how many buffers a packet may take
          RspSize,   \* entries of the response queue
          Budget,    \* responses a poll may process
          MaxRx,     \* bound: responses
          MaxRxFails \* bound: refills and handlers that find no memory

StarveThres == 2 * Egress + 1

ASSUME RxAssumption ==
  /\ Unit \in Nat \ {0} /\ Egress \in Nat
  /\ FlSize \in Nat /\ FlSize % Unit = 0 /\ FlSize >= StarveThres + 2 * Unit
  /\ Frags \subseteq 1 .. StarveThres
  /\ RspSize \in Nat \ {0} /\ Budget \in Nat \ {0}

VARIABLES fl,       \* struct sge_fl: cidx, pidx, avail, pend_cred
          sdesc,    \* per slot of the free list: "none", "mapped", "unmapped"
          offset,   \* rspq.offset: 0, or 1 for inside the open buffer
          rspq,     \* struct sge_rspq: cidx, gen
          rsp,      \* the response queue's entries
          napi,     \* "idle", or the step of the poll
          missed,   \* napi was scheduled during the poll
          work_done, \* responses this poll has processed
          filled,   \* buffers refill_fl has added
          gts,      \* GTS writes of polls that are complete
          starving, \* the bit in sge.starving_fl
          timer,    \* the step of cxgb4_sge_rx_timer_cb
          sge,      \* the adapter: the slot it takes next, the buffers it has,
                    \* whether one is open, idx and gen, credits, interrupt armed
          todo,     \* ghost: the responses the driver has yet to process
          nrx, nfails
rxVars == <<fl, sdesc, offset, rspq, rsp, napi, missed, work_done, filled, gts,
            starving, timer, sge, todo, nrx, nfails>>
flVars == <<fl, sdesc, offset>>
pollVars == <<napi, missed, work_done, filled, gts>>
boundVars == <<nrx, nfails>>

FlCap == FlSize - Unit
MaxRefill == 2 * Unit     \* MAX_RX_REFILL
FlSlots == 0 .. FlSize - 1
SlotAfter(s, n) == (s + n) % FlSize
SlotsFrom(s, n) == {SlotAfter(s, i) : i \in 0 .. n - 1}
SlotDistance(a, b) == (b + FlSize - a) % FlSize

\* A packet in n buffers from slot at; a message for the driver has none.
NoPkt == [new |-> FALSE, n |-> 0, at |-> 0]

\* fl_starving
FlStarving(f) == f.avail - f.pend <= StarveThres

\* n buffers enter the ring.
Filled(f, n) == [f EXCEPT !.pidx = SlotAfter(@, n), !.avail = @ + n]

\* t4_sge_alloc_rxq: the first refill may find too little memory.
RxInit ==
  /\ \E n \in 0 .. FlCap :
       LET f == Filled([cidx |-> 0, pidx |-> 0, avail |-> 0, pend |-> n % Unit], n)
       IN /\ fl = f /\ starving = FlStarving(f)
          /\ sdesc = [s \in FlSlots |-> IF s < n THEN "mapped" ELSE "none"]
          /\ sge = [next |-> 0, free |-> n - (n % Unit), open |-> FALSE,
                    idx |-> 0, gen |-> 1, credits |-> RspSize, armed |-> TRUE]
          /\ nfails = IF n = FlCap THEN 0 ELSE 1
  /\ nfails <= MaxRxFails
  /\ offset = 0
  /\ rspq = [cidx |-> 0, gen |-> 1]
  /\ rsp = [i \in 0 .. RspSize - 1 |-> [gen |-> 0, pkt |-> NoPkt]]
  /\ napi = "idle" /\ missed = FALSE /\ work_done = 0 /\ filled = 0 /\ gts = <<>>
  /\ timer = "idle" /\ todo = <<>> /\ nrx = 0
----------------------------------------------------------------------------
(* The poll: process_responses and napi_rx_handler                         *)

\* is_new_response
IsNew == rsp[rspq.cidx].gen = rspq.gen

\* rspq_next, on the adapter's index too
NextEntry(i, gen) ==
  IF i + 1 = RspSize THEN [idx |-> 0, gen |-> 1 - gen] ELSE [idx |-> i + 1, gen |-> gen]

\* A packet that begins in a new buffer frees the one that was open.
ClosesBuffer(pkt) == pkt.new /\ offset > 0

Consumed_Counted(n) == [fl EXCEPT !.cidx = SlotAfter(@, n)] \* mutant

\* The free list once n buffers at cidx are freed or unmapped, by free_rx_bufs
\* or unmap_rx_buf.
Consumed(n) == [fl EXCEPT !.cidx = SlotAfter(@, n), !.avail = @ - n]

\* The handler takes the packet: all its buffers but the last, which stays
\* open, have left the free list.
Process ==
  /\ napi = "poll" /\ work_done < Budget /\ IsNew
  /\ LET pkt == rsp[rspq.cidx].pkt
         n == (IF ClosesBuffer(pkt) THEN 1 ELSE 0) + (IF pkt.n > 0 THEN pkt.n - 1 ELSE 0)
         after == NextEntry(rspq.cidx, rspq.gen)
     IN /\ fl' = Consumed(n)
        /\ sdesc' = [s \in FlSlots |-> IF s \in SlotsFrom(fl.cidx, n) THEN "none" ELSE sdesc[s]]
        /\ offset' = IF pkt.n > 0 THEN 1 ELSE offset
        /\ rspq' = [cidx |-> after.idx, gen |-> after.gen]
        /\ rsp' = [rsp EXCEPT ![rspq.cidx].pkt = NoPkt] \* which is not read again
  /\ work_done' = work_done + 1
  /\ todo' = Tail(todo)
  /\ UNCHANGED <<napi, missed, filled, gts, starving, timer, sge, boundVars>>

\* It finds no memory: restore_rx_bufs puts the packet's buffers back,
\* unmapped, and the poll ends.
ProcessFails ==
  /\ napi = "poll" /\ work_done < Budget /\ IsNew
  /\ nfails < MaxRxFails /\ nfails' = nfails + 1
  /\ LET pkt == rsp[rspq.cidx].pkt
         n == IF ClosesBuffer(pkt) THEN 1 ELSE 0
         at == SlotAfter(fl.cidx, n)
     IN /\ fl' = Consumed(n)
        /\ sdesc' = [s \in FlSlots |-> IF n = 1 /\ s = fl.cidx THEN "none"
                                     ELSE IF pkt.n > 1 /\ s \in SlotsFrom(at, pkt.n - 1)
                                     THEN "unmapped" ELSE sdesc[s]]
        /\ offset' = IF pkt.new THEN 0 ELSE offset
  /\ napi' = "end"
  /\ UNCHANGED <<rspq, rsp, missed, work_done, filled, gts, starving, timer, sge, todo, nrx>>

LoopEnds == napi = "end" \/ (napi = "poll" /\ (work_done = Budget \/ ~IsNew))
NeedsRefill == FlCap - fl.avail >= MaxRefill

\* __refill_fl: refill_fl adds the buffers for which it finds memory.
Refill ==
  /\ LoopEnds /\ NeedsRefill
  /\ LET most == IF FlCap - fl.avail < MaxRefill THEN FlCap - fl.avail ELSE MaxRefill
     IN \E n \in 0 .. most :
          /\ nfails' = (IF n < most THEN nfails + 1 ELSE nfails) /\ nfails' <= MaxRxFails
          /\ fl' = Filled(fl, n)
          /\ sdesc' = [s \in FlSlots |-> IF s \in SlotsFrom(fl.pidx, n) THEN "mapped" ELSE sdesc[s]]
          /\ filled' = n
  /\ napi' = "ring"
  /\ UNCHANGED <<offset, rspq, rsp, missed, work_done, gts, starving, timer, sge, todo, nrx>>

\* Then it counts them, rings the doorbell for whole units (ring_fl_db) and
\* marks a list that is still low.
RefillRing ==
  /\ napi = "ring"
  /\ LET cred == fl.pend + filled
     IN /\ fl' = [fl EXCEPT !.pend = cred % Unit]
        /\ sge' = [sge EXCEPT !.free = @ + (cred - (cred % Unit))]
  /\ starving' = (starving \/ FlStarving(fl'))
  /\ filled' = 0 /\ napi' = "done"
  /\ UNCHANGED <<sdesc, offset, rspq, rsp, missed, work_done, gts, timer, todo, boundVars>>

NoRefill ==
  /\ LoopEnds /\ ~NeedsRefill
  /\ napi' = "done"
  /\ UNCHANGED <<flVars, rspq, rsp, missed, work_done, filled, gts, starving, timer, sge, todo, boundVars>>

\* A poll within its budget is complete and arms the interrupt; the other
\* returns the entries and goes on.
PollEnds ==
  /\ napi = "done" /\ Len(gts) < 2
  /\ IF work_done < Budget
     THEN /\ napi' = (IF missed THEN "poll" ELSE "idle") /\ missed' = FALSE
          /\ gts' = Append(gts, work_done)
          /\ UNCHANGED sge
     ELSE /\ napi' = "poll"
          /\ sge' = [sge EXCEPT !.credits = @ + work_done]
          /\ UNCHANGED <<missed, gts>>
  /\ work_done' = 0
  /\ UNCHANGED <<flVars, rspq, rsp, filled, starving, timer, todo, boundVars>>

\* The GTS write, when the queue may already be polled anew.
WriteGts ==
  /\ gts # <<>>
  /\ sge' = [sge EXCEPT !.credits = @ + Head(gts), !.armed = TRUE]
  /\ gts' = Tail(gts)
  /\ UNCHANGED <<flVars, rspq, rsp, napi, missed, work_done, filled, starving, timer, todo, boundVars>>
----------------------------------------------------------------------------
(* Who schedules the poll                                                  *)

\* napi_schedule
Schedule == IF napi = "idle" THEN napi' = "poll" /\ UNCHANGED missed
            ELSE missed' = TRUE /\ UNCHANGED napi

\* t4_sge_intr_msix, when entries have not been returned
Interrupt ==
  /\ sge.armed /\ sge.credits < RspSize
  /\ sge' = [sge EXCEPT !.armed = FALSE]
  /\ Schedule
  /\ UNCHANGED <<flVars, rspq, rsp, work_done, filled, gts, starving, timer, todo, boundVars>>

\* cxgb4_sge_rx_timer_cb clears the bit, looks at the free list and sets the
\* bit again if the queue is being polled.
RxTimerClear ==
  /\ timer = "idle" /\ starving
  /\ starving' = FALSE /\ timer' = "check"
  /\ UNCHANGED <<flVars, rspq, rsp, pollVars, sge, todo, boundVars>>

RxTimerCheck ==
  /\ timer = "check"
  /\ timer' = IF FlStarving(fl) /\ napi # "idle" THEN "again" ELSE "idle"
  /\ IF FlStarving(fl) THEN Schedule ELSE UNCHANGED <<napi, missed>>
  /\ UNCHANGED <<flVars, rspq, rsp, work_done, filled, gts, starving, sge, todo, boundVars>>

RxTimerAgain ==
  /\ timer = "again"
  /\ timer' = "idle" /\ starving' = TRUE
  /\ UNCHANGED <<flVars, rspq, rsp, pollVars, sge, todo, boundVars>>
----------------------------------------------------------------------------
(* The adapter                                                             *)

\* A message for the driver, a packet that fits the open buffer, or one that
\* begins in a new one.
Receive(pkt) ==
  /\ pkt.new => pkt.n <= sge.free
  /\ pkt # NoPkt /\ ~pkt.new => sge.open
  /\ LET after == NextEntry(sge.idx, sge.gen)
         taken == IF pkt.new THEN pkt.n ELSE 0
     IN sge' = [sge EXCEPT !.next = SlotAfter(@, taken), !.free = @ - taken,
                           !.open = @ \/ pkt.new, !.idx = after.idx, !.gen = after.gen,
                           !.credits = @ - 1]
  /\ rsp' = [rsp EXCEPT ![sge.idx] = [gen |-> sge.gen, pkt |-> pkt]]
  /\ todo' = Append(todo, pkt)

SgeReceives ==
  /\ nrx < MaxRx /\ nrx' = nrx + 1
  /\ sge.credits > 0
  /\ \/ Receive(NoPkt)
     \/ Receive([new |-> FALSE, n |-> 1, at |-> SlotAfter(sge.next, FlSize - 1)])
     \/ \E n \in Frags : Receive([new |-> TRUE, n |-> n, at |-> sge.next])
  /\ UNCHANGED <<flVars, rspq, pollVars, starving, timer, nfails>>

RxNext == \/ Process \/ ProcessFails \/ Refill \/ RefillRing \/ NoRefill \/ PollEnds
          \/ WriteGts \/ Interrupt
          \/ RxTimerClear \/ RxTimerCheck \/ RxTimerAgain
          \/ SgeReceives
RxSpec == RxInit /\ [][RxNext]_rxVars
----------------------------------------------------------------------------
(* Properties                                                              *)

\* The buffers in the ring, whether the adapter has them or a refill under way
\* has yet to count them, are those the indices, avail and pend_cred speak of;
\* none of them is lost or freed twice, and none given to the adapter is
\* unmapped, though handlers failed and gave buffers back.
BuffersAgree ==
  /\ fl.avail <= FlCap /\ fl.avail = SlotDistance(fl.cidx, fl.pidx)
  /\ fl.pend < Unit
  /\ sge.free = SlotDistance(sge.next, fl.pidx) - fl.pend - filled
  /\ SlotDistance(fl.cidx, sge.next) <= fl.avail
  /\ \A s \in FlSlots :
       /\ sdesc[s] # "none" <=> s \in SlotsFrom(fl.cidx, fl.avail)
       /\ s \in SlotsFrom(sge.next, sge.free) => sdesc[s] = "mapped"

\* The driver finds the responses that were written, in that order, across the
\* turns of the ring, each once but for those it gives back, and takes a packet
\* from the buffers into which the adapter wrote it.
ResponsesInOrder ==
  /\ IsNew <=> todo # <<>>
  /\ todo # <<>> =>
       LET pkt == Head(todo)
           from == SlotAfter(fl.cidx, IF ClosesBuffer(pkt) THEN 1 ELSE 0)
       IN /\ rsp[rspq.cidx].pkt = pkt
          /\ pkt.n > 0 => /\ from = pkt.at
                          /\ ~pkt.new => offset > 0
                          /\ \A s \in SlotsFrom(from, pkt.n) : sdesc[s] # "none"
  /\ sge.credits + Len(todo) + work_done <= RspSize

\* "A FL with <= fl_starve_thres buffers is starving and a periodic timer will
\* attempt to refill it" (sge.c:5358): the timer knows of the list when nobody
\* else is about to look at it.  The bit is set by a refill alone, and refills
\* wait until two descriptors are missing, up to a unit of the others not being
\* rung yet: this holds if FlSize >= StarveThres + 4 * Unit - 1, which the
\* smallest ring sge.c:4292 admits is not.
StarvingIsMarked ==
  napi = "idle" /\ timer = "idle" /\ FlStarving(fl) => starving

\* "we can get stuck waiting for new packets while the SGE is waiting for us to
\* give it more Free List entries" (sge.c:5360-5362): when the driver has come
\* to rest, no interrupt, timer or write of its own to come, no response waits
\* and the adapter has more buffers than its congestion threshold.
AtRest ==
  /\ napi = "idle" /\ timer = "idle" /\ ~starving /\ gts = <<>>
  /\ ~(sge.armed /\ sge.credits < RspSize)
NeverStuck == AtRest => todo = <<>> /\ sge.free > 2 * Egress

\* What the receive path promises at every step (sge.c:3826-3973, 4110-4134).
RxSound == BuffersAgree /\ ResponsesInOrder /\ StarvingIsMarked /\ NeverStuck
============================================================================
