----------------------------- MODULE MemRegions -----------------------------
(***************************************************************************)
(* Memory regions and windows of the RDMA driver (src/iw_cxgb4/mem.c):     *)
(* their index in the adapter's table of translations and protections      *)
(* (TPT), their list of physical pages in the adapter's memory (PBL), and  *)
(* the writes that put both there.  A call that writes waits for the       *)
(* reply; any number of calls run at once, one for each region.  The       *)
(* adapter takes the writes of the control queue in order.  Registration   *)
(* by work requests, and the state that remote invalidation clears, are    *)
(* left out; so are failures before the region has taken anything.         *)
(***************************************************************************)
EXTENDS Naturals, FiniteSets, Sequences, Functions

CONSTANTS Regions,     \* calls' objects (struct c4iw_mr, c4iw_mw)
          Stags,       \* indices of the TPT
          Pbls,        \* page lists the PBL pool has room for
          NoPbl,       \* the page list of a region without one
          NoStag,      \* T4_STAG_UNSET
          MaxRefused,  \* bound: writes the firmware refuses
          MaxRegFails  \* bound: allocations of memory that fail

ASSUME MemRegionsAssumption ==
  /\ NoPbl \notin Pbls /\ NoStag \notin Stags /\ IsFiniteSet(Stags)
  /\ MaxRefused \in Nat /\ MaxRegFails \in Nat

VARIABLES reg,       \* the regions: how far the call is, kind, stag, pbl, reply
          tpt_table, \* free indices
          pbl_pool,  \* free page lists
          mrs,       \* rhp->mrs: index to region
          mem_wrs,   \* writes on the control queue
          tpt,       \* the adapter: valid entries, their region and page list
          pages,     \* the adapter: the region whose pages a list holds
          left,      \* history: entries whose reset failed
          disabled,  \* T4_FATAL_ERROR
          refused, regfails
memVars == <<reg, tpt_table, pbl_pool, mrs, mem_wrs, tpt, pages, left, disabled,
             refused, regfails>>

NoRegion == [at |-> "none"]
\* c4iw_reg_user_mr; c4iw_alloc_mr, whose list is filled later; and, without a
\* page list, c4iw_get_dma_mr and c4iw_alloc_mw.
RegionKinds == {"user", "fast", "plain"}

MemInit ==
  /\ reg = [m \in Regions |-> NoRegion]
  /\ tpt_table = Stags /\ pbl_pool = Pbls
  /\ mrs = <<>> /\ mem_wrs = <<>> /\ tpt = <<>> /\ pages = <<>>
  /\ left = {} /\ disabled = FALSE /\ refused = 0 /\ regfails = 0

----------------------------------------------------------------------------
(* Helpers                                                                 *)

Put(f, k, v) == [x \in DOMAIN f \cup {k} |-> IF x = k THEN v ELSE f[x]]
Drop(f, k) == Restrict(f, DOMAIN f \ {k})
Goes(m, where) == reg' = [reg EXCEPT ![m].at = where, ![m].reply = "none"]
\* To c4iw_pblpool_free and the end of the call.
GivesUp(m) == reg' = [reg EXCEPT ![m].at = "free_pbl", ![m].reply = "none", ![m].stag = NoStag]
NoMemory == regfails < MaxRegFails /\ regfails' = regfails + 1
\* write_adapter_mem of a call that then waits for the reply.
Write(m, r, wr, then) ==
  /\ reg' = [reg EXCEPT ![m] = [r EXCEPT !.at = then, !.reply = "none"]]
  /\ mem_wrs' = Append(mem_wrs, wr)
Waiting == {"pages_sent", "tpt_sent", "reset_sent"}

----------------------------------------------------------------------------
(* c4iw_reg_user_mr, c4iw_get_dma_mr, c4iw_alloc_mr, c4iw_alloc_mw         *)

\* alloc_pbl, for the kinds that have a page list
StartCall(m) ==
  /\ reg[m] = NoRegion
  /\ \E kind \in RegionKinds, p \in pbl_pool \cup {NoPbl} :
       /\ (p = NoPbl) = (kind = "plain")
       /\ pbl_pool' = pbl_pool \ {p}
       /\ reg' = [reg EXCEPT ![m] =
            [at |-> IF kind = "user" THEN "pages" ELSE "register",
             kind |-> kind, stag |-> NoStag, pbl |-> p, reply |-> "none"]]
  /\ UNCHANGED <<tpt_table, mrs, mem_wrs, tpt, pages, left, disabled, refused, regfails>>

\* write_pbl, unless the device is disabled or there is no page for the list
WritePages(m) ==
  /\ reg[m].at = "pages"
  /\ \/ /\ ~disabled
        /\ Write(m, reg[m], [op |-> "pages", for |-> m, pbl |-> reg[m].pbl], "pages_sent")
        /\ UNCHANGED regfails
     \/ /\ \/ disabled /\ UNCHANGED regfails
           \/ NoMemory
        /\ GivesUp(m) /\ UNCHANGED mem_wrs
  /\ UNCHANGED <<tpt_table, pbl_pool, mrs, tpt, pages, left, disabled, refused>>
PagesWritten(m) ==
  /\ reg[m].at = "pages_sent" /\ reg[m].reply # "none"
  /\ IF reg[m].reply = "ok" THEN Goes(m, "register") ELSE GivesUp(m)
  /\ UNCHANGED <<tpt_table, pbl_pool, mrs, mem_wrs, tpt, pages, left, disabled, refused, regfails>>

\* write_tpt_entry, not to reset: an index, and the entry
Register(m) ==
  /\ reg[m].at = "register"
  /\ \/ \E s \in tpt_table :
          /\ ~disabled /\ tpt_table' = tpt_table \ {s}
          /\ Write(m, [reg[m] EXCEPT !.stag = s],
                   [op |-> "set", for |-> m, stag |-> s, pbl |-> reg[m].pbl], "tpt_sent")
          /\ UNCHANGED regfails
     \/ /\ \/ (disabled \/ tpt_table = {}) /\ UNCHANGED regfails
           \/ NoMemory
        /\ GivesUp(m) /\ UNCHANGED <<tpt_table, mem_wrs>>
  /\ UNCHANGED <<pbl_pool, mrs, tpt, pages, left, disabled, refused>>

\* Its end, and finish_mem_reg: a registration that fails keeps its index for
\* ever; one that cannot enter mrs resets the entry.
Registered(m) ==
  /\ reg[m].at = "tpt_sent" /\ reg[m].reply # "none"
  /\ IF reg[m].reply # "ok"
     THEN GivesUp(m) /\ UNCHANGED <<mrs, regfails>>
     ELSE IF reg[m].stag \in DOMAIN mrs
     THEN Goes(m, "reset") /\ UNCHANGED <<mrs, regfails>>
     ELSE \/ /\ mrs' = Put(mrs, reg[m].stag, m)
             /\ Goes(m, "live") /\ UNCHANGED regfails
          \/ NoMemory /\ Goes(m, "reset") /\ UNCHANGED mrs
  /\ UNCHANGED <<tpt_table, pbl_pool, mem_wrs, tpt, pages, left, disabled, refused>>

----------------------------------------------------------------------------
(* c4iw_dereg_mr, c4iw_dealloc_mw                                          *)

Dereg(m) ==
  /\ reg[m].at = "live"
  /\ mrs' = Drop(mrs, reg[m].stag)
  /\ Goes(m, "reset")
  /\ UNCHANGED <<tpt_table, pbl_pool, mem_wrs, tpt, pages, left, disabled, refused, regfails>>

ResetTpt_FreesPbl(m) == \* mutant: the page list goes back before the reply
  /\ reg[m].at = "reset" /\ ~disabled
  /\ reg' = [reg EXCEPT ![m].at = "reset_sent", ![m].reply = "none", ![m].pbl = NoPbl]
  /\ mem_wrs' = Append(mem_wrs, [op |-> "reset", for |-> m, stag |-> reg[m].stag])
  /\ pbl_pool' = pbl_pool \cup ({reg[m].pbl} \ {NoPbl})
  /\ UNCHANGED <<tpt_table, mrs, tpt, pages, left, disabled, refused, regfails>>
\* write_tpt_entry, to reset: when the device is disabled, or without memory,
\* nothing is written and the index stays taken.
ResetTpt(m) ==
  /\ reg[m].at = "reset"
  /\ \/ /\ ~disabled
        /\ Write(m, reg[m], [op |-> "reset", for |-> m, stag |-> reg[m].stag], "reset_sent")
        /\ UNCHANGED regfails
     \/ /\ \/ disabled /\ UNCHANGED regfails
           \/ NoMemory
        /\ GivesUp(m) /\ UNCHANGED mem_wrs
  /\ left' = IF reg'[m].at = "reset_sent" THEN left ELSE left \cup {reg[m].stag}
  /\ UNCHANGED <<tpt_table, pbl_pool, mrs, tpt, pages, disabled, refused>>
\* The index goes back whatever the reply.
TptReset(m) ==
  /\ reg[m].at = "reset_sent" /\ reg[m].reply # "none"
  /\ tpt_table' = tpt_table \cup {reg[m].stag}
  /\ GivesUp(m)
  /\ UNCHANGED <<pbl_pool, mrs, mem_wrs, tpt, pages, left, disabled, refused, regfails>>
\* c4iw_pblpool_free, if there is a page list; the call is over.
FreePbl(m) ==
  /\ reg[m].at = "free_pbl"
  /\ pbl_pool' = pbl_pool \cup ({reg[m].pbl} \ {NoPbl})
  /\ reg' = [reg EXCEPT ![m] = NoRegion]
  /\ UNCHANGED <<tpt_table, mrs, mem_wrs, tpt, pages, left, disabled, refused, regfails>>

----------------------------------------------------------------------------
(* The adapter and the clock                                               *)

Reply(m, ret) ==
  reg' = IF reg[m].at \in Waiting THEN [reg EXCEPT ![m].reply = ret] ELSE reg
\* The first write is done and answered.
AdapterWrites ==
  /\ mem_wrs # <<>> /\ mem_wrs' = Tail(mem_wrs)
  /\ LET wr == Head(mem_wrs) IN
     /\ tpt' = CASE wr.op = "set" -> Put(tpt, wr.stag, [for |-> wr.for, pbl |-> wr.pbl])
                 [] wr.op = "reset" -> Drop(tpt, wr.stag)
                 [] OTHER -> tpt
     /\ left' = IF wr.op = "pages" THEN left ELSE left \ {wr.stag}
     /\ pages' = IF wr.op = "pages" THEN Put(pages, wr.pbl, wr.for) ELSE pages
     /\ Reply(wr.for, "ok")
  /\ UNCHANGED <<tpt_table, pbl_pool, mrs, disabled, refused, regfails>>
\* The firmware refuses it.
AdapterRefuses ==
  /\ mem_wrs # <<>> /\ mem_wrs' = Tail(mem_wrs)
  /\ refused < MaxRefused /\ refused' = refused + 1
  /\ LET wr == Head(mem_wrs) IN
     /\ Reply(wr.for, "error")
     /\ left' = IF wr.op = "reset" THEN left \cup {wr.stag} ELSE left
  /\ UNCHANGED <<tpt_table, pbl_pool, mrs, tpt, pages, disabled, regfails>>
\* c4iw_wait_for_reply: the device is disabled.
ReplyLate(m) ==
  /\ reg[m].at \in Waiting /\ reg[m].reply = "none"
  /\ disabled' = TRUE
  /\ reg' = [reg EXCEPT ![m].reply = "error"]
  /\ UNCHANGED <<tpt_table, pbl_pool, mrs, mem_wrs, tpt, pages, left, refused, regfails>>

MemNext ==
  \/ \E m \in Regions :
       \/ StartCall(m) \/ WritePages(m) \/ PagesWritten(m)
       \/ Register(m) \/ Registered(m)
       \/ Dereg(m) \/ ResetTpt(m) \/ TptReset(m) \/ FreePbl(m) \/ ReplyLate(m)
  \/ AdapterWrites \/ AdapterRefuses
MemSpec == MemInit /\ [][MemNext]_memVars

----------------------------------------------------------------------------
(* Properties                                                              *)

HasStag == {m \in Regions : reg[m].at \in {"tpt_sent", "live", "reset", "reset_sent"}}
HasPbl == {m \in Regions : reg[m] # NoRegion /\ reg[m].pbl # NoPbl}

\* Regions that have an index, or a page list, have different ones, which are
\* not free; and mrs has the regions that are registered, so that no
\* registration finds another region there.
RegionsApart ==
  /\ \A m, n \in HasStag : m # n => reg[m].stag # reg[n].stag
  /\ \A m \in HasStag : reg[m].stag \notin tpt_table
  /\ \A m, n \in HasPbl : m # n => reg[m].pbl # reg[n].pbl
  /\ \A m \in Regions : reg[m].at = "live" => mrs[reg[m].stag] = m
  /\ \A s \in DOMAIN mrs : reg[mrs[s]].at = "live" /\ reg[mrs[s]].stag = s

\* A registered region works: the adapter has its entry, and its pages.
RegistrationsHold ==
  \A m \in Regions : reg[m].at = "live" =>
    /\ reg[m].stag \in DOMAIN tpt
    /\ tpt[reg[m].stag] = [for |-> m, pbl |-> reg[m].pbl]
    /\ reg[m].kind = "user" => pages[reg[m].pbl] = m

\* While every write is answered, a valid entry of the adapter whose reset did
\* not fail is that of a region that still has its index and its page list:
\* memory that was given back, or is another region's, cannot be reached.
EntriesHaveOwners ==
  ~disabled => \A s \in DOMAIN tpt \ left :
    LET m == tpt[s].for
    IN  /\ m \in HasStag /\ reg[m].stag = s /\ reg[m].pbl = tpt[s].pbl
        /\ reg[m].kind = "user" => pages[reg[m].pbl] = m

\* A page list is never lost, and an index only to a registration that the
\* firmware refuses, to a reset without memory or with the device.
NothingLost ==
  /\ Pbls \ pbl_pool = {reg[m].pbl : m \in HasPbl}
  /\ ~disabled =>
       Cardinality(Stags \ (tpt_table \cup {reg[m].stag : m \in HasStag})) <= refused + regfails

RegionsSound == RegionsApart /\ RegistrationsHold /\ EntriesHaveOwners /\ NothingLost
=============================================================================
