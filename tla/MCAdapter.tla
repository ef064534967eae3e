---------------------------- MODULE MCAdapter ----------------------------
(***************************************************************************)
(* One instance of each component of the adapter driver, and of the RDMA   *)
(* driver's listeners, which use its stids.  The components share no       *)
(* variable: a behaviour runs one of them, chosen at the start, and the    *)
(* others stay in their initial states, in which their fairness asks for   *)
(* nothing.                                                                *)
(***************************************************************************)
EXTENDS L2Table, Tids, Filters, Mailbox, TxQueue, Listener, TLC
CONSTANTS n1, n2, e1, e2, e3, f1, f2, f3, s1, c1, c2, c3, l1, l2, t1, Parts

OneChain == [n \in Neighs |-> 1]
Queues == [c \in Eps |-> IF c = e1 THEN 0 ELSE 1]
FilterPorts == [f \in Flts |-> IF f = f3 THEN 1 ELSE 0]

VARIABLE part

AdapterInit ==
  /\ part \in Parts
  /\ L2tInit /\ TidInit /\ FltInit /\ MbxInit /\ TxInit /\ LsnInit
  /\ part # "txq" => kind = "ctrl"
  /\ nud = [n \in Neighs |-> IF n = n1 THEN "none" ELSE "reachable"]
AdapterNext ==
  /\ UNCHANGED part
  /\ \/ /\ part = "l2t" /\ L2tNext
        /\ UNCHANGED <<tidVars, fltVars, mbxVars, txVars, lepVars>>
     \/ /\ part = "tids" /\ TidNext
        /\ UNCHANGED <<l2tVars, fltVars, mbxVars, txVars, lepVars>>
     \/ /\ part = "filters" /\ FltNext
        /\ UNCHANGED <<l2tVars, tidVars, mbxVars, txVars, lepVars>>
     \/ /\ part = "mailbox" /\ MbxNext
        /\ UNCHANGED <<l2tVars, tidVars, fltVars, txVars, lepVars>>
     \/ /\ part = "txq" /\ TxNext
        /\ UNCHANGED <<l2tVars, tidVars, fltVars, mbxVars, lepVars>>
     \/ /\ part = "listen" /\ LsnNext
        /\ UNCHANGED <<l2tVars, tidVars, fltVars, mbxVars, txVars>>
AdapterSpec ==
  /\ AdapterInit
  /\ [][AdapterNext]_<<part, l2tVars, tidVars, fltVars, mbxVars, txVars, lepVars>>
  /\ L2tFairness /\ FltFairness /\ MbxFairness /\ TxFairness

\* Whoever waits for the firmware is answered or gives up, in its turn: the
\* callers of filters (cxgb4_filter.c) and of the mailbox (t4_hw.c).
CallsEnd == FilterCallsEnd /\ CommandsEnd

\* Packets that wait leave, for a neighbour (l2t.c) or for descriptors (sge.c).
QueuesDrain == QueueDrains /\ TxDrains
==========================================================================
