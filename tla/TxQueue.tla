------------------------------ MODULE TxQueue ------------------------------
(***************************************************************************)
(* A transmit queue of the adapter (src/cxgb4/sge.c): a control queue, an  *)
(* offload queue or an Ethernet queue.  Work requests (WRs) go into a ring *)
(* of descriptors; the doorbell tells the adapter how many.  When the ring *)
(* has no room for a WR of any length the queue is full: the last WR asks  *)
(* for an egress update, whose handler restarts the queue.  Packets wait   *)
(* on sendq meanwhile, or in the network stack, which stops.  The indices  *)
(* and in_use move in descriptors, modulo the size of the ring.            *)
(*                                                                         *)
(* What runs under sendq.lock is one action; service_ofldq and             *)
(* restart_ctrlq drop the lock while they write a WR.  The stack's lock of *)
(* an Ethernet queue is only tried by the handlers of updates and timer.   *)
(***************************************************************************)
EXTENDS Naturals, Sequences, SequencesExt

CONSTANTS RingSize,     \* descriptors of the ring
          StopThres,    \* TXQ_STOP_THRES: the longest WR
          MaxReclaim,   \* MAX_TX_RECLAIM
          Batch,        \* descriptors that ring the doorbell early
          StopMapErrs,  \* BOOLEAN: a packet that fills the ring may fail to map
          MaxPackets,   \* bound: packets sent
          MaxMapErrs    \* bound: packets that fail to map

ASSUME TxAssumption ==
  /\ StopThres \in Nat \ {0} /\ MaxReclaim >= 2 * StopThres
  /\ RingSize > 2 * StopThres /\ Batch \in Nat

VARIABLES kind,         \* "ctrl", "ofld" or "eth"
          pidx, cidx, in_use,
          stat,         \* stat->cidx: the adapter's consumer index, as written
          hwcidx,       \* the adapter's consumer index
          ring,         \* WRs in the ring the adapter has not processed
          rung,         \* how many of them the doorbell has told of
          written,      \* descriptors the doorbell has yet to tell of
          sendq, full,  \* full: the stack's queue is stopped, for Ethernet
          service,      \* the step of service_ofldq, restart_ctrlq, eth_xmit
          hand,         \* the packet restart_ctrlq has taken off sendq
          updates,      \* egress updates under way
          tasklet,      \* qresume_tsk is scheduled
          maperr,       \* the queue is in sge.txq_maperr
          npackets, nmaperrs, bug
txVars == <<kind, pidx, cidx, in_use, stat, hwcidx, ring, rung, written, sendq,
            full, service, hand, updates, tasklet, maperr, npackets, nmaperrs, bug>>
hwVars == <<stat, hwcidx>>
wakeVars == <<updates, tasklet, maperr>>

TxInit ==
  /\ kind \in {"ctrl", "ofld", "eth"}
  /\ pidx = 0 /\ cidx = 0 /\ in_use = 0 /\ stat = 0 /\ hwcidx = 0
  /\ ring = <<>> /\ rung = 0 /\ written = 0
  /\ sendq = <<>> /\ full = FALSE /\ service = "idle" /\ hand = <<>>
  /\ updates = 0 /\ tasklet = FALSE /\ maperr = FALSE
  /\ npackets = 0 /\ nmaperrs = 0 /\ bug = FALSE

----------------------------------------------------------------------------
(* Helpers                                                                 *)

Avail(used) == RingSize - 1 - used
Reclaimable_NoWrap == stat - cidx \* mutant
Reclaimable == IF stat >= cidx THEN stat - cidx ELSE stat - cidx + RingSize
\* The number of descriptors from a to b.
Distance(a, b) == (b + RingSize - a) % RingSize
Advance(i, n) == IF i + n >= RingSize THEN i + n - RingSize ELSE i + n
\* What reclaim_completed_tx reclaims; reclaim_completed_tx_imm has no limit.
MinTx(a, b) == IF a <= b THEN a ELSE b
Reclaimed == IF kind = "ctrl" THEN Reclaimable ELSE MinTx(Reclaimable, MaxReclaim)

\* wr goes into the ring; the doorbell rings now or later.
Write(wr, now) ==
  /\ ring' = Append(ring, wr)
  /\ IF now THEN rung' = Len(ring) + 1 /\ written' = 0
            ELSE UNCHANGED rung /\ written' = written + wr.n
RingDoorbell == rung' = Len(ring) /\ written' = 0

\* A packet of any length that fits a WR.
Packets == [n : 1..StopThres, eq : {FALSE}, id : {npackets + 1}]
----------------------------------------------------------------------------
(* The control queue                                                       *)

\* ctrlq_check_stop, if the ring has no room with used descriptors in use:
\* it reclaims, and stops the queue if that is not enough.
CheckStop(used) ==
  LET low == Avail(used) < StopThres
      left == IF low THEN used - Reclaimed ELSE used
  IN [in_use |-> left, cidx |-> IF low THEN stat ELSE cidx, stop |-> Avail(left) < StopThres]

\* ctrl_xmit
CtrlXmit ==
  /\ kind = "ctrl" /\ npackets < MaxPackets /\ ~bug
  /\ npackets' = npackets + 1
  /\ \E wr \in Packets :
       IF full
       THEN /\ sendq' = Append(sendq, wr)
            /\ UNCHANGED <<pidx, cidx, in_use, ring, rung, written, full>>
       ELSE LET check == CheckStop(in_use + wr.n)
            IN /\ Write([wr EXCEPT !.eq = check.stop], TRUE)
               /\ pidx' = Advance(pidx, wr.n)
               /\ in_use' = check.in_use /\ cidx' = check.cidx /\ full' = check.stop
               /\ UNCHANGED sendq
  /\ UNCHANGED <<kind, hwVars, service, hand, wakeVars, nmaperrs, bug>>

NextOrEnd_StaysFull(used) == \* mutant
  IF sendq # <<>>
  THEN /\ hand' = <<Head(sendq)>> /\ sendq' = Tail(sendq)
       /\ pidx' = Advance(pidx, Head(sendq).n)
       /\ in_use' = used + Head(sendq).n
       /\ service' = "move"
       /\ UNCHANGED <<full, rung, written>>
  ELSE /\ RingDoorbell
       /\ service' = "idle" /\ in_use' = used
       /\ UNCHANGED <<full, sendq, hand, pidx>>

\* restart_ctrlq takes the next packet and its descriptors, or ends.
NextOrEnd(used) ==
  IF sendq # <<>>
  THEN /\ hand' = <<Head(sendq)>> /\ sendq' = Tail(sendq)
       /\ pidx' = Advance(pidx, Head(sendq).n)
       /\ in_use' = used + Head(sendq).n
       /\ service' = "move"
       /\ UNCHANGED <<full, rung, written>>
  ELSE /\ full' = FALSE /\ RingDoorbell
       /\ service' = "idle" /\ in_use' = used
       /\ UNCHANGED <<sendq, hand, pidx>>

\* BUG_ON(txq_avail(&q->q) < TXQ_STOP_THRES), of both restarts.
NoRoom == Avail(in_use - Reclaimed) < StopThres
Bug == /\ bug' = TRUE
       /\ UNCHANGED <<pidx, cidx, in_use, ring, rung, written, sendq, full, service, hand>>

CtrlRestart ==
  /\ kind = "ctrl" /\ tasklet /\ service = "idle" /\ ~bug
  /\ tasklet' = FALSE
  /\ \/ NoRoom /\ Bug
     \/ /\ ~NoRoom /\ UNCHANGED <<ring, bug>>
        /\ cidx' = stat
        /\ NextOrEnd(in_use - Reclaimed)
  /\ UNCHANGED <<kind, hwVars, updates, maperr, npackets, nmaperrs>>

\* The WR is written without the lock; the queue may fill up anew.
CtrlMove ==
  /\ kind = "ctrl" /\ service = "move"
  /\ LET check == CheckStop(in_use)
     IN /\ Write([hand[1] EXCEPT !.eq = check.stop],
                 check.stop \/ written + hand[1].n > Batch)
        /\ in_use' = check.in_use /\ cidx' = check.cidx
        /\ service' = IF check.stop THEN "idle" ELSE "link"
  /\ hand' = <<>>
  /\ UNCHANGED <<kind, pidx, hwVars, sendq, full, wakeVars, npackets, nmaperrs, bug>>

CtrlNext ==
  /\ kind = "ctrl" /\ service = "link"
  /\ NextOrEnd(in_use)
  /\ UNCHANGED <<kind, cidx, hwVars, ring, wakeVars, npackets, nmaperrs, bug>>
----------------------------------------------------------------------------
(* The offload queue                                                       *)

ServiceLoop_Unrung(q, isFull) == \* mutant
  service' = (IF q # <<>> /\ ~isFull THEN "move" ELSE "idle") /\ UNCHANGED <<rung, written>>

\* service_ofldq goes on with the head of q, or ends; it holds the lock.
ServiceLoop(q, isFull) ==
  IF q # <<>> /\ ~isFull
  THEN service' = "move" /\ UNCHANGED <<rung, written>>
  ELSE service' = "idle" /\ RingDoorbell

\* ofld_xmit: the first packet of sendq is serviced by its sender.
OfldXmit ==
  /\ kind = "ofld" /\ npackets < MaxPackets /\ ~bug
  /\ npackets' = npackets + 1
  /\ \E wr \in Packets : sendq' = Append(sendq, wr)
  /\ IF sendq = <<>> /\ service = "idle" THEN ServiceLoop(sendq', full)
                                         ELSE UNCHANGED <<service, rung, written>>
  /\ UNCHANGED <<kind, pidx, cidx, in_use, hwVars, ring, full, hand, wakeVars, nmaperrs, bug>>

\* ofld_xmit_direct, which drops the WR if anything is ahead of it.
OfldXmitDirect ==
  /\ kind = "ofld" /\ npackets < MaxPackets /\ ~bug
  /\ ~full /\ sendq = <<>> /\ service = "idle"
  /\ npackets' = npackets + 1
  /\ \E wr \in Packets :
       LET stop == Avail(in_use + wr.n) < StopThres
       IN /\ Write([wr EXCEPT !.eq = stop], TRUE)
          /\ pidx' = Advance(pidx, wr.n) /\ in_use' = in_use + wr.n
          /\ full' = stop
  /\ UNCHANGED <<kind, cidx, hwVars, sendq, service, hand, wakeVars, nmaperrs, bug>>

\* service_ofldq without the lock: the head of sendq asks for an egress update
\* if it fills the ring, and keeps the request if it cannot be mapped.
OfldMove ==
  /\ kind = "ofld" /\ service = "move" /\ ~bug
  /\ LET used == in_use - Reclaimed
         wr == Head(sendq)
         stop == Avail(used + wr.n) < StopThres
         marked == [wr EXCEPT !.eq = @ \/ stop]
     IN \/ /\ used + wr.n > RingSize - 1
           /\ Bug
           /\ UNCHANGED <<wakeVars, nmaperrs>>
        \/ /\ used + wr.n <= RingSize - 1
           /\ Write(marked, written + wr.n > Batch)
           /\ pidx' = Advance(pidx, wr.n) /\ in_use' = used + wr.n
           /\ cidx' = Advance(cidx, Reclaimed)
           /\ full' = (full \/ stop)
           /\ sendq' = [sendq EXCEPT ![1] = marked]
           /\ service' = "link"
           /\ UNCHANGED <<hand, wakeVars, nmaperrs, bug>>
        \/ /\ nmaperrs < MaxMapErrs /\ (stop => StopMapErrs)
           /\ nmaperrs' = nmaperrs + 1
           /\ in_use' = used /\ cidx' = Advance(cidx, Reclaimed)
           /\ full' = (full \/ stop)
           /\ sendq' = [sendq EXCEPT ![1] = marked]
           /\ maperr' = TRUE
           /\ service' = "idle" /\ RingDoorbell
           /\ UNCHANGED <<pidx, ring, hand, updates, tasklet, bug>>
  /\ UNCHANGED <<kind, hwVars, npackets>>

OfldNext ==
  /\ kind = "ofld" /\ service = "link"
  /\ sendq' = Tail(sendq)
  /\ ServiceLoop(Tail(sendq), full)
  /\ UNCHANGED <<kind, pidx, cidx, in_use, hwVars, ring, full, hand, wakeVars,
                 npackets, nmaperrs, bug>>

\* cxgb4_sge_uld_xmit_restart
OfldRestart ==
  /\ kind = "ofld" /\ tasklet /\ ~bug
  /\ tasklet' = FALSE
  /\ \/ NoRoom /\ Bug
     \/ /\ ~NoRoom
        /\ in_use' = in_use - Reclaimed /\ cidx' = Advance(cidx, Reclaimed)
        /\ full' = FALSE
        /\ IF service = "idle" THEN ServiceLoop(sendq, FALSE)
                               ELSE UNCHANGED <<service, rung, written>>
        /\ UNCHANGED <<pidx, ring, sendq, hand, bug>>
  /\ UNCHANGED <<kind, hwVars, updates, maperr, npackets, nmaperrs>>
----------------------------------------------------------------------------
(* The Ethernet queue                                                      *)

\* The stack has a packet.
EthSend ==
  /\ kind = "eth" /\ npackets < MaxPackets /\ ~bug
  /\ npackets' = npackets + 1
  /\ \E wr \in Packets : sendq' = Append(sendq, wr)
  /\ UNCHANGED <<kind, pidx, cidx, in_use, hwVars, ring, rung, written, full, service, hand,
                 wakeVars, nmaperrs, bug>>

\* It locks a queue that is not stopped and calls cxgb4_eth_xmit.
EthLock ==
  /\ kind = "eth" /\ service = "idle" /\ ~full /\ sendq # <<>> /\ ~bug
  /\ service' = "move"
  /\ UNCHANGED <<kind, pidx, cidx, in_use, hwVars, ring, rung, written, sendq, full, hand,
                 wakeVars, npackets, nmaperrs, bug>>

\* cxgb4_eth_xmit: "Tx ring full while queue awake!", or the packet cannot be
\* mapped and is dropped, or it goes out and may stop the queue.
EthXmit ==
  /\ kind = "eth" /\ service = "move"
  /\ service' = "idle"
  /\ cidx' = Advance(cidx, Reclaimed)
  /\ LET used == in_use - Reclaimed
         wr == Head(sendq)
         stop == Avail(used + wr.n) < StopThres
     IN \/ /\ wr.n > Avail(used)
           /\ in_use' = used /\ full' = TRUE /\ bug' = TRUE
           /\ UNCHANGED <<pidx, ring, rung, written, sendq, nmaperrs>>
        \/ /\ wr.n <= Avail(used) /\ nmaperrs < MaxMapErrs
           /\ nmaperrs' = nmaperrs + 1
           /\ in_use' = used /\ sendq' = Tail(sendq)
           /\ UNCHANGED <<pidx, ring, rung, written, full, bug>>
        \/ /\ wr.n <= Avail(used)
           /\ Write([wr EXCEPT !.eq = stop], TRUE)
           /\ pidx' = Advance(pidx, wr.n) /\ in_use' = used + wr.n
           /\ full' = stop /\ sendq' = Tail(sendq)
           /\ UNCHANGED <<nmaperrs, bug>>
  /\ UNCHANGED <<kind, hwVars, hand, wakeVars, npackets>>

\* t4_sge_eth_txq_egress_update does nothing if the lock is taken; it reclaims
\* up to a limit and wakes the queue by what the adapter has done.
EthUpdate(limit) ==
  IF in_use = 0 \/ service # "idle" THEN UNCHANGED <<cidx, in_use, full>>
  ELSE LET n == MinTx(Reclaimable, limit)
       IN /\ cidx' = Advance(cidx, n) /\ in_use' = in_use - n
          /\ full' = (full /\ Distance(stat, pidx) >= RingSize \div 2)

\* The timer comes by with what the queues before left of its budget.
EthTimer ==
  /\ kind = "eth" /\ ~bug
  /\ \E limit \in 1 .. RingSize : EthUpdate(limit)
  /\ UNCHANGED <<kind, pidx, hwVars, ring, rung, written, sendq, service, hand, wakeVars,
                 npackets, nmaperrs, bug>>
----------------------------------------------------------------------------
(* The adapter, its events and the timer                                   *)

\* A WR is processed; one that asks for it writes the index and sends an
\* egress update, for others the index may be written later.
HwProcess ==
  /\ rung > 0
  /\ LET wr == Head(ring)
         now == Advance(hwcidx, wr.n)
     IN /\ hwcidx' = now
        /\ stat' \in IF wr.eq THEN {now} ELSE {stat, now}
        /\ updates' = IF wr.eq THEN updates + 1 ELSE updates
  /\ ring' = Tail(ring) /\ rung' = rung - 1
  /\ UNCHANGED <<kind, pidx, cidx, in_use, written, sendq, full, service, hand,
                 tasklet, maperr, npackets, nmaperrs, bug>>

\* CPL_SGE_EGR_UPDATE in fwevtq_handler
EgrUpdate ==
  /\ updates > 0
  /\ updates' = updates - 1
  /\ IF kind = "eth" THEN EthUpdate(MaxReclaim) /\ UNCHANGED tasklet
     ELSE tasklet' = TRUE /\ UNCHANGED <<cidx, in_use, full>>
  /\ UNCHANGED <<kind, pidx, hwVars, ring, rung, written, sendq,
                 service, hand, maperr, npackets, nmaperrs, bug>>

\* cxgb4_sge_tx_timer_cb
TxTimer ==
  /\ maperr
  /\ maperr' = FALSE /\ tasklet' = TRUE
  /\ UNCHANGED <<kind, pidx, cidx, in_use, hwVars, ring, rung, written, sendq, full,
                 service, hand, updates, npackets, nmaperrs, bug>>

Restart == CtrlRestart \/ OfldRestart
GoOn == CtrlMove \/ CtrlNext \/ OfldMove \/ OfldNext \/ EthLock \/ EthXmit
TxNext == \/ CtrlXmit \/ CtrlRestart \/ CtrlMove \/ CtrlNext
          \/ OfldXmit \/ OfldXmitDirect \/ OfldMove \/ OfldNext \/ OfldRestart
          \/ EthSend \/ EthLock \/ EthXmit \/ EthTimer
          \/ HwProcess \/ EgrUpdate \/ TxTimer
TxFairness == /\ WF_txVars(Restart) /\ WF_txVars(GoOn) /\ WF_txVars(HwProcess)
              /\ WF_txVars(EgrUpdate) /\ WF_txVars(TxTimer)
              /\ WF_txVars(EthTimer)
TxSpec == TxInit /\ [][TxNext]_txVars /\ TxFairness
----------------------------------------------------------------------------
(* Properties                                                              *)

Outstanding == FoldSeq(LAMBDA wr, n : wr.n + n, 0, ring)

\* The indices and the count of descriptors agree across the wrap of the ring,
\* and no descriptor that the adapter has yet to read is counted free.  WRs
\* enter the ring once each and in the order in which they were sent, whoever
\* writes them: a sender, the sender of another, the tasklet.
RingSound ==
  /\ in_use \in 0 .. RingSize - 1 /\ in_use = Distance(cidx, pidx)
  /\ Distance(cidx, stat) <= Distance(cidx, hwcidx) /\ Distance(cidx, hwcidx) <= in_use
  /\ rung <= Len(ring)
  /\ Outstanding + (IF hand = <<>> THEN 0 ELSE hand[1].n) = Distance(hwcidx, pidx)
  /\ LET waiting == IF kind = "ofld" /\ service = "link" THEN Tail(sendq) ELSE sendq
         all == ring \o hand \o waiting
     IN \A i \in 1 .. Len(all) :
          IF kind = "eth" THEN i > 1 => all[i - 1].id < all[i].id
          ELSE all[i].id = npackets - Len(all) + i

\* "BUG_ON(txq_avail(&q->q) < TXQ_STOP_THRES)" (sge.c:2704, 4685): a restart
\* finds room for a WR of any length.  "Tx ring %u full while queue awake!"
\* (sge.c:1591): so does a packet for an Ethernet queue that is not stopped.
RestartFindsRoom == ~bug

\* No wake-up is lost: while packets wait, or the queue is full, and nobody
\* services it, something that restarts it is under way; a stopped Ethernet
\* queue may lose its update, but has descriptors in use, without which the
\* timer would pass it by for ever.  None comes too early: a restart finds
\* room, and none comes while a packet is written without the lock, whose
\* descriptors it would count at the same time.
WakeupComing ==
  /\ kind = "eth" /\ full => in_use > 0
  /\ kind # "eth" /\ (full \/ sendq # <<>>) /\ service = "idle" /\ ~bug =>
       updates > 0 \/ tasklet \/ maperr \/ \E i \in 1 .. rung : ring[i].eq
  /\ kind # "eth" /\ service = "move" => ~tasklet /\ updates = 0
  /\ RestartFindsRoom

\* A Tx queue (sge.c) neither loses a descriptor nor a wake-up.
TxSound == RingSound /\ WakeupComing

\* Packets that wait are sent (service_ofldq, restart_ctrlq).
TxDrains == []<>(sendq = <<>>)
==========================================================================
