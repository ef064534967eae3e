---------------------------- MODULE MCResources ----------------------------
(***************************************************************************)
(* The instances for TLC of what both drivers hand out and take back: the  *)
(* slots of the shared receive queue, the buffers of a receive queue of    *)
(* the adapter driver, the identifiers of queues, and the indices and page *)
(* lists of memory regions.  They share no variable: a behaviour runs one  *)
(* of them, chosen at the start, and the others stay in their initial      *)
(* states.                                                                 *)
(***************************************************************************)
EXTENDS SharedRecvQueue, RxQueue, QueueIds, MemRegions, TLC

\* Connections are interchangeable, and so are processes (and indices of the
\* TPT, which are the same model values: fewer permutations).
Symmetry == Permutations(Conns) \cup Permutations(Contexts)

VARIABLE part

ResourcesInit ==
    /\ part \in {"srq", "rxq", "qids", "regions"}
    /\ Init /\ RxInit /\ QidInit /\ MemInit
    /\ part # "rxq" => nfails = 0
ResourcesNext ==
    /\ UNCHANGED part
    /\ \/ part = "srq" /\ Next /\ UNCHANGED <<rxVars, qidVars, memVars>>
       \/ part = "rxq" /\ RxNext /\ UNCHANGED <<vars, qidVars, memVars>>
       \/ part = "qids" /\ QidNext /\ UNCHANGED <<vars, rxVars, memVars>>
       \/ part = "regions" /\ MemNext /\ UNCHANGED <<vars, rxVars, qidVars>>
ResourcesSpec ==
    ResourcesInit /\ [][ResourcesNext]_<<part, vars, rxVars, qidVars, memVars>>

\* Queue ids (cxgb4_rdma_resource.c) and memory regions (mem.c): what is handed
\* out has one owner until it comes back, in the driver and in the adapter, and
\* comes back.
HandedOutOnce == QidsSound /\ RegionsSound
==========================================================================
