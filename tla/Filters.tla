------------------------------ MODULE Filters ------------------------------
(***************************************************************************)
(* Filters of the adapter (src/cxgb4/cxgb4_filter.c, normal filters).  A   *)
(* filter takes an identifier, references to the tables its rule needs and *)
(* asks the firmware to write it; a later request deletes it.  The reply   *)
(* names the identifier only.  A caller that gives a context waits for the *)
(* reply; without one a deletion is silent: the driver forgets the filter  *)
(* at once, and the identifier may be used again while the request and its *)
(* reply are under way.  Creations are sent on the control queue of the    *)
(* port, deletions on queue 0.  The listeners of the RDMA driver own the   *)
(* server filters, which they create and remove without a context.         *)
(*                                                                         *)
(* Creations and deletions run under the RTNL lock, the handler of replies *)
(* in softirq: each is one action.  A timeout of a waiting caller is left  *)
(* out: the firmware answers.                                              *)
(***************************************************************************)
EXTENDS TidTable, Sequences

CONSTANTS Rules,      \* filters that callers create
          Wides,      \* those of IPv6: max_range slots and a CLIP reference
          Rewriters,  \* those that rewrite MAC addresses: an L2T reference
          Listeners,  \* listeners of the RDMA driver, a server filter each
          Port,       \* the port of a filter
          FtidRange,  \* max_range of the ftids
          Ftids,      \* their number, from 0
          Sftids,     \* the first of the server part, which ends the range
          Hurried,    \* kinds of users that do not wait before they reuse an
                      \* identifier or stop: "silent", "ctx", "listen"
          MaxFlight,  \* bound: requests and replies under way
          MaxRefusals \* bound: errors of the firmware

ASSUME FiltersAssumption ==
  /\ Wides \subseteq Rules /\ Rewriters \subseteq Rules
  /\ Rules \cap Listeners = {}
  /\ Ftids \in Nat /\ Sftids \in 0 .. Ftids /\ FtidRange \in Nat \ {0}
  /\ Hurried \subseteq {"silent", "ctx", "listen"}

VARIABLES ftids, sftids,  \* tables of filters and of servers' identifiers
          flt,       \* filter_entry, or NoFlt
          refs,      \* references to the L2T and to the CLIP table
          reqs,      \* requests on the control queue of each port
          rpls,      \* replies on the firmware event queue
          hwflt,     \* filters of the hardware: identifier to filter
          waits,     \* what the caller of a filter waits for
          lsn, stid, \* the listeners
          refusals
fltVars == <<ftids, sftids, flt, refs, reqs, rpls, hwflt, waits,
             lsn, stid, refusals>>
lsnVars == <<sftids, lsn, stid>>

Flts == Rules \cup Listeners
Ports == {Port[f] : f \in Flts} \cup {0}
WideF(f) == f \in Wides
NoFlt == [live |-> FALSE]

FltInit ==
  /\ ftids = NewTable(0, Ftids, FtidRange)
  /\ sftids = NewTable(Sftids, Ftids - Sftids, 1)
  /\ flt = [f \in Flts |-> NoFlt]
  /\ refs = [l2t |-> 0, clip |-> 0]
  /\ reqs = [p \in Ports |-> <<>>] /\ rpls = <<>>
  /\ hwflt = <<>>
  /\ waits = [f \in Flts |-> "none"]
  /\ lsn = [s \in Listeners |-> "closed"] /\ stid = [s \in Listeners |-> 0]
  /\ refusals = 0

----------------------------------------------------------------------------
(* Helpers                                                                 *)

Refs(f, l2t) == [l2t |-> IF f \in Rewriters /\ l2t THEN 1 ELSE 0,
                 clip |-> IF f \in Wides THEN 1 ELSE 0]
Plus(a, b) == [k \in DOMAIN a |-> a[k] + b[k]]
Minus(a, b) == [k \in DOMAIN a |-> a[k] - b[k]]

ClearFilter_OneSlot(id, g) == \* mutant
  /\ ftids' = FreeId(ftids, id, FALSE)
  /\ refs' = Minus(refs, Refs(g, TRUE))
  /\ flt' = [flt EXCEPT ![g] = NoFlt]

\* cxgb4_ftid_filter_clear of g, which has identifier id.
ClearFilter(id, g) ==
  /\ ftids' = FreeId(ftids, id, WideF(g))
  /\ refs' = Minus(refs, Refs(g, TRUE))
  /\ flt' = [flt EXCEPT ![g] = NoFlt]

\* The entry with a request under way: pending until the reply.
Sent(f, id, ctx) == [live |-> TRUE, tid |-> id, pending |-> TRUE, valid |-> FALSE,
                     ctx |-> ctx, locked |-> f \in Listeners]
CreateWr(f, id) == [op |-> "add", tid |-> id, f |-> f]
DeleteWr(id) == [op |-> "del", tid |-> id]
InFlight == Len(rpls) + FoldFunctionOnSet(LAMBDA q, n : Len(q) + n, 0, reqs, Ports)
Enqueue(p, m) == reqs' = [reqs EXCEPT ![p] = Append(@, m)]
SendReq(p, m) == InFlight < MaxFlight /\ Enqueue(p, m)

\* Requests and replies about the slots S that are under way.
About(S) == {m \in (UNION {Range(reqs[p]) : p \in Ports}) \cup Range(rpls) :
               \/ m.tid \in S
               \/ m.tid % FtidRange = 0 /\ Region(m.tid, FtidRange) \cap S # {}}
\* The kind of user that lets f take slots: see Hurried.
KindOf(f, ctx) == IF ctx \/ Port[f] # 0 THEN "ctx"
                  ELSE IF f \in Rules THEN "silent" ELSE "listen"
MayTake(f, ctx, id) ==
  KindOf(f, ctx) \in Hurried \/ About(Region(id, Width(ftids, WideF(f)))) = {}
----------------------------------------------------------------------------
(* cxgb4_filter_create, cxgb4_filter_delete                                *)

\* cxgb4_ftid_insert at the identifier asked for, cxgb4_ftid_alloc for any.
GiveId(f, ctx, id) ==
  /\ MayTake(f, ctx, id)
  /\ ftids' = InsertId(ftids, id, f, WideF(f))
  /\ flt' = [flt EXCEPT ![f] = Sent(f, id, ctx)]
  /\ refs' = Plus(refs, Refs(f, TRUE))
  /\ SendReq(Port[f], CreateWr(f, id))
  /\ waits' = [waits EXCEPT ![f] = IF ctx THEN "add" ELSE @]
  /\ UNCHANGED <<rpls, hwflt, lsnVars, refusals>>

Create(f, ctx, id) ==
  /\ ~flt[f].live /\ waits[f] = "none"
  /\ id < Sftids
  /\ CanInsert(ftids, id, WideF(f))
  /\ GiveId(f, ctx, Aligned(ftids, id, WideF(f)))

CreateAny(f, ctx) ==
  LET n == Width(ftids, WideF(f))
  IN /\ ~flt[f].live /\ waits[f] = "none"
     /\ FreeRegions(ftids, n) # {}
     /\ GiveId(f, ctx, LowestFree(ftids, n))

\* The identifier is taken, or there is none: cxgb4_filter_clear gives back
\* what the rule took; without an L2T entry that is the CLIP reference.
CreateFails(f) ==
  /\ ~flt[f].live /\ waits[f] = "none"
  /\ \E l2t \in BOOLEAN :
       /\ \/ l2t /\ \E id \in 0 .. Sftids - 1 : ~CanInsert(ftids, id, WideF(f))
          \/ ~l2t /\ f \in Rewriters
       /\ refs' = Minus(Plus(refs, Refs(f, l2t)), Refs(f, l2t))
  /\ UNCHANGED <<ftids, flt, reqs, rpls, hwflt, waits, lsnVars, refusals>>

Deletable_Pending(id) == \* mutant
  /\ id < Sftids /\ id \in DOMAIN ftids.tab
  /\ ~flt[ftids.tab[id]].locked

\* What cxgb4_filter_normal_delete finds at id and may delete.
Deletable(id) ==
  /\ id < Sftids /\ id \in DOMAIN ftids.tab
  /\ LET g == flt[ftids.tab[id]] IN ~g.locked /\ ~g.pending

\* The caller waits for the reply, which clears the filter ...
DeleteCtx(id) ==
  /\ Deletable(id)
  /\ LET f == ftids.tab[id]
     IN /\ waits[f] = "none"
        /\ flt' = [flt EXCEPT ![f].ctx = TRUE, ![f].pending = TRUE]
        /\ SendReq(0, DeleteWr(id))
        /\ waits' = [waits EXCEPT ![f] = "del"]
  /\ UNCHANGED <<ftids, refs, rpls, hwflt, lsnVars, refusals>>

\* ... or the filter goes at once.
DeleteSilent(id) ==
  /\ Deletable(id)
  /\ SendReq(0, DeleteWr(id))
  /\ ClearFilter(id, ftids.tab[id])
  /\ UNCHANGED <<rpls, hwflt, waits, lsnVars, refusals>>
----------------------------------------------------------------------------
(* The RDMA driver's listeners (src/iw_cxgb4/cm.c)                          *)

ListenStart(s) ==
  /\ lsn[s] = "closed" /\ FreeRegions(sftids, 1) # {}
  /\ LET o == LowestFree(sftids, 1)
     IN /\ sftids' = Take(sftids, o, s, FALSE)
        /\ stid' = [stid EXCEPT ![s] = Sftids + o]
  /\ lsn' = [lsn EXCEPT ![s] = "inserting"]
  /\ UNCHANGED <<ftids, flt, refs, reqs, rpls, hwflt, waits, refusals>>

\* cxgb4_uld_server_filter_insert; create_server4 repeats it while the slot
\* is taken.  (MaxFlight is for the others: it would starve the retry.)
ListenInsert(s) ==
  /\ lsn[s] = "inserting" /\ CanInsert(ftids, stid[s], FALSE)
  /\ KindOf(s, FALSE) \in Hurried \/ About({stid[s]}) = {}
  /\ ~flt[s].live
  /\ ftids' = InsertId(ftids, stid[s], s, FALSE)
  /\ flt' = [flt EXCEPT ![s] = Sent(s, stid[s], FALSE)]
  /\ Enqueue(Port[s], CreateWr(s, stid[s]))
  /\ lsn' = [lsn EXCEPT ![s] = "listening"]
  /\ UNCHANGED <<sftids, stid, refs, rpls, hwflt, waits, refusals>>

\* c4iw_iw_destroy_listen ignores that cxgb4_uld_server_filter_remove finds no
\* valid filter.
ListenStop(s) ==
  /\ lsn[s] = "listening" /\ ("listen" \in Hurried \/ About({stid[s]}) = {})
  /\ IF stid[s] \in DOMAIN ftids.tab /\ flt[ftids.tab[stid[s]]].valid
     THEN SendReq(0, DeleteWr(stid[s])) /\ ClearFilter(stid[s], ftids.tab[stid[s]])
     ELSE UNCHANGED <<ftids, flt, refs, reqs>>
  /\ sftids' = FreeId(sftids, stid[s], FALSE)
  /\ lsn' = [lsn EXCEPT ![s] = "closed"]
  /\ UNCHANGED <<stid, rpls, hwflt, waits, refusals>>
----------------------------------------------------------------------------
(* The firmware and the replies                                            *)

FwStep(p) ==
  /\ reqs[p] # <<>>
  /\ LET m == Head(reqs[p])
     IN \/ /\ m.op = "del"
           /\ hwflt' = Restrict(hwflt, DOMAIN hwflt \ {m.tid})
           /\ rpls' = Append(rpls, [tid |-> m.tid, ret |-> "deleted"])
           /\ UNCHANGED refusals
        \/ /\ m.op = "add"
           /\ hwflt' = [i \in DOMAIN hwflt \cup {m.tid} |->
                          IF i = m.tid THEN m.f ELSE hwflt[i]]
           /\ rpls' = Append(rpls, [tid |-> m.tid, ret |-> "added"])
           /\ UNCHANGED refusals
        \/ /\ m.op = "add" /\ refusals < MaxRefusals
           /\ refusals' = refusals + 1
           /\ rpls' = Append(rpls, [tid |-> m.tid, ret |-> "error"])
           /\ UNCHANGED hwflt
  /\ reqs' = [reqs EXCEPT ![p] = Tail(@)]
  /\ UNCHANGED <<ftids, flt, refs, waits, lsnVars>>

Complete_IfLive(f) == \* mutant
  waits' = [waits EXCEPT ![f] = IF flt[f].ctx /\ flt'[f].live THEN "none" ELSE @]

\* complete(&ctx->completion) for the caller of f.
Complete(f) == waits' = [waits EXCEPT ![f] = IF flt[f].ctx THEN "none" ELSE @]

\* cxgb4_filter_normal_rpl
FilterReply ==
  /\ rpls # <<>>
  /\ rpls' = Tail(rpls)
  /\ LET r == Head(rpls)
         f == ftids.tab[r.tid]
     IN IF r.tid \notin DOMAIN ftids.tab THEN UNCHANGED <<ftids, flt, refs, waits>>
        ELSE \/ /\ r.ret = "deleted"
                /\ IF flt[f].ctx THEN ClearFilter(r.tid, f)
                   ELSE UNCHANGED <<ftids, flt, refs>>
                /\ Complete(f)
             \/ /\ r.ret = "added"
                /\ flt' = [flt EXCEPT ![f].ctx = FALSE, ![f].pending = FALSE,
                                      ![f].valid = TRUE]
                /\ Complete(f)
                /\ UNCHANGED <<ftids, refs>>
             \/ /\ r.ret = "error"
                /\ ClearFilter(r.tid, f)
                /\ Complete(f)
  /\ UNCHANGED <<reqs, hwflt, lsnVars, refusals>>

FltNext ==
  \/ \E f \in Rules, ctx \in BOOLEAN : \/ CreateAny(f, ctx)
                                       \/ \E id \in 0 .. Ftids - 1 : Create(f, ctx, id)
  \/ \E f \in Rules : CreateFails(f)
  \/ \E id \in 0 .. Ftids - 1 : DeleteCtx(id) \/ DeleteSilent(id)
  \/ \E s \in Listeners : ListenStart(s) \/ ListenInsert(s) \/ ListenStop(s)
  \/ \E p \in Ports : FwStep(p)
  \/ FilterReply
FltFairness == /\ \A p \in Ports : WF_fltVars(FwStep(p))
               /\ WF_fltVars(FilterReply)
               /\ \A s \in Listeners : WF_fltVars(ListenInsert(s))
FltSpec == FltInit /\ [][FltNext]_fltVars
FltFairSpec == FltSpec /\ FltFairness
----------------------------------------------------------------------------
(* Properties                                                              *)

\* The table of identifiers, its bitmap and the filters agree: every filter has
\* one region, aligned and of its width, that is its own, whichever way filters
\* come and go (cxgb4_ftid_insert, cxgb4_ftid_alloc, cxgb4_ftid_filter_clear).
IdsAgree ==
  /\ Consistent(ftids, WideF)
  /\ \A f \in Flts : flt[f].live <=> \E id \in DOMAIN ftids.tab : ftids.tab[id] = f
  /\ \A id \in DOMAIN ftids.tab : flt[ftids.tab[id]].tid = id

\* The references that filters hold of the L2T and of the CLIP table are those
\* counted: each way out of a creation or a deletion gives back what the filter
\* took, once (cxgb4_filter_hw_resources_free).
RefsAgree ==
  /\ refs.l2t = Cardinality({f \in Rewriters : flt[f].live})
  /\ refs.clip = Cardinality({f \in Wides : flt[f].live})

\* A server filter has a listener that listens: the removal whose result
\* c4iw_iw_destroy_listen ignores has removed it, or the next listener would
\* find the slot taken for ever (cxgb4_uld_server_filter_remove).
ServerFiltersOwned ==
  \A s \in Listeners : flt[s].live => lsn[s] = "listening" /\ stid[s] = flt[s].tid

\* Once nothing is under way about a slot, the hardware has there the filter
\* that the driver regards as valid, or none: replies that come late, to
\* filters that are gone, leave the two in agreement (cxgb4_filter_normal_rpl).
HwAgrees ==
  \A id \in 0 .. Ftids - 1 :
    About({id}) = {} =>
      /\ id \in DOMAIN hwflt <=> id \in DOMAIN ftids.tab
      /\ id \in DOMAIN hwflt => /\ hwflt[id] = ftids.tab[id]
                                /\ flt[hwflt[id]].valid /\ ~flt[hwflt[id]].pending
                                /\ waits[hwflt[id]] = "none"

\* What the driver believes is so: of its identifiers, of the references, of
\* the servers' filters and of the hardware (cxgb4_filter_normal_rpl).
FilterTableSound == IdsAgree /\ RefsAgree /\ ServerFiltersOwned /\ HwAgrees

\* A caller is told of success by the reply to its own request: the hardware
\* has the filter after a creation and has it no more after a deletion.
AnswerIsTrue ==
  [][\A f \in Rules :
       waits[f] # "none" /\ waits'[f] = "none" /\ Head(rpls).ret # "error" =>
         (waits[f] = "add" <=> \E id \in DOMAIN hwflt : hwflt[id] = f)]_fltVars

\* Every call ends: a caller that waits for the firmware's answer gets one, and
\* create_server4 does not find its slot taken for ever.
FilterCallsEnd ==
  /\ \A f \in Rules : []<>(waits[f] = "none")
  /\ \A s \in Listeners : []<>(lsn[s] # "inserting")

\* "Divide the available filter region into two parts" (cxgb4_tid.c:770): no
\* regular filter has an identifier of the servers' part.
PartsApart == \A id \in DOMAIN ftids.tab : id >= Sftids => ftids.tab[id] \in Listeners
==========================================================================
