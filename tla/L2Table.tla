----------------------------- MODULE L2Table -----------------------------
(***************************************************************************)
(* The table of next hops of the adapter (src/cxgb4/l2t.c).  An entry      *)
(* holds the MAC address the hardware puts into the packets that name the  *)
(* entry.  Connections share the entries of a neighbour through a hash     *)
(* chain and count references; filters that rewrite the MAC address take   *)
(* entries of their own ("switching"); an entry without references stays   *)
(* on its chain until somebody recycles it.  A packet whose next hop is    *)
(* not known, or not yet in the hardware, waits on the entry's arpq for    *)
(* the neighbour layer and then for the reply to a synchronous write.      *)
(*                                                                         *)
(* Locks: d->lock (a reader-writer lock: writer), one lock per entry.      *)
(* What runs under the lock of an entry is one action; what runs between   *)
(* two critical sections is a step of its own.  Loopback neighbours, whose *)
(* address is that of the port, are left out.                              *)
(***************************************************************************)
EXTENDS Naturals, Sequences, SequencesExt, FiniteSets

CONSTANTS Size,       \* l2t_size
          Neighs,     \* neighbours: address and ifindex
          Tags,       \* what else an entry is looked up by: VLAN and port
          Hash,       \* addr_hash: the chain of a neighbour
          Conns,      \* connections that use the table
          Switchers,  \* filters that rewrite the MAC address
          Patient,    \* a connection keeps its reference while a packet or
                      \* a write of its entry is under way
          MaxWork,    \* bound: references asked for and packets sent
          MaxEvents,  \* bound: neighbours that move or age, allocations that
                      \* fail and error replies
          None

Entries == 1..Size
Users == Conns \cup Switchers

ASSUME SizeAssumption == Size \in Nat /\ Size >= 2
ASSUME HashAssumption == Hash \in [Neighs -> Entries]
ASSUME UsersAssumption == Conns \cap Switchers = {} /\ IsFiniteSet(Users)
ASSUME NoneAssumption == None \notin Neighs \cup Users

VARIABLES tab,     \* the entries: l2tab
          chain,   \* l2tab[hash].first and the next pointers
          nfree,
          rover,   \* the index after that of the last allocation
          writer,  \* the user that holds d->lock for writing
          nud, ha, \* the neighbour layer: state and address (by version)
          notify,  \* neighbours whose t4_l2t_update has yet to run
          drain,   \* entries a failed t4_l2t_update is emptying
          pc, at, want,  \* the users
          work, moves, faults, overrun
l2tVars == <<tab, chain, nfree, rover, writer, nud, ha, notify, drain,
             pc, at, want, work, moves, faults, overrun>>
userVars == <<at, want, work>>
neighVars == <<nud, ha, moves>>

NudValid == {"reachable", "stale", "probe"}
NoKey == <<None, None>>
Fresh == [state |-> "UNUSED", ref |-> 0, neigh |-> None, key |-> NoKey,
          dmac |-> NoKey, arpq |-> <<>>, sync |-> 0]

L2tInit ==
  /\ tab = [e \in Entries |-> Fresh]
  /\ chain = [b \in Entries |-> <<>>]
  /\ nfree = Size /\ rover = 1 /\ writer = None
  /\ nud \in [Neighs -> {"none", "reachable"}]
  /\ ha = [n \in Neighs |-> 0]
  /\ notify = {} /\ drain = {}
  /\ pc = [u \in Users |-> "idle"]
  /\ at = [u \in Users |-> 1]
  /\ want = [u \in Users |-> NoKey]
  /\ work = 0 /\ moves = 0 /\ faults = 0 /\ overrun = FALSE

----------------------------------------------------------------------------
(* Helpers                                                                 *)

\* The address of neighbour n as it is now.
Mac(n) == <<n, ha[n]>>

\* The effect of neigh_event_send(n) on the neighbour, and its result.
EventSend(n) ==
  nud' = [nud EXCEPT ![n] = CASE @ \in {"none", "failed"} -> "incomplete"
                              [] @ = "stale"              -> "probe"
                              [] OTHER                    -> @]
EventSendRc(n) == IF nud[n] \in NudValid THEN 0 ELSE 1

\* write_l2e of entry record r: the request carries the address of the
\* neighbour, if there is one; the entry of a synchronous write waits for
\* the reply, unless it belongs to a switching rule.
Written(r, sync) ==
  [r EXCEPT !.dmac = IF r.neigh # None THEN Mac(r.neigh) ELSE @,
            !.sync = @ + sync,
            !.state = IF sync = 1 /\ r.state # "SWITCHING" THEN "SYNC_WRITE"
                                                           ELSE @]

\* write_l2e either sends its request or finds no memory for it.
WriteEntry(e, r, sync) ==
  \/ /\ tab' = [tab EXCEPT ![e] = Written(r, sync)]
     /\ UNCHANGED faults
  \/ /\ moves + faults < MaxEvents
     /\ faults' = faults + 1
     /\ tab' = [tab EXCEPT ![e] = r]

Unchain_Kept(e) == chain \* mutant
\* Take an inactive entry off the chain it may still be on.
Unchain(e) == [b \in Entries |-> IF tab[e].state # "SWITCHING"
                                 THEN RemoveFirst(chain[b], e) ELSE chain[b]]

FreeEntries == {e \in Entries : tab[e].ref = 0}
First(S) == CHOOSE e \in S : \A f \in S : e <= f
\* The scan of alloc_l2e: from the rover to the end, then from the start.
Scan == IF \E e \in FreeEntries : e >= rover
        THEN First({e \in FreeEntries : e >= rover}) ELSE First(FreeEntries)

Goto(u, l) == pc' = [pc EXCEPT ![u] = l]
----------------------------------------------------------------------------
(* cxgb4_l2t_get: a connection takes a reference to the entry of (n, t)    *)

Hits(n, t) == {e \in ToSet(chain[Hash[n]]) : tab[e].key = <<n, t>>}

GetStart(c, n, t) ==
  /\ pc[c] = "idle" /\ work < MaxWork /\ writer = None
  /\ work' = work + 1

\* The entry is there: l2t_hold.  It may have had no references.
GetHit(c, n, t) ==
  /\ GetStart(c, n, t)
  /\ \E e \in Hits(n, t) :
       /\ tab' = [tab EXCEPT ![e].ref = @ + 1]
       /\ nfree' = IF tab[e].ref = 0 THEN nfree - 1 ELSE nfree
       /\ at' = [at EXCEPT ![c] = e]
  /\ writer' = c
  /\ Goto(c, "reuse")
  /\ want' = [want EXCEPT ![c] = <<n, t>>]
  /\ UNCHANGED <<chain, rover, neighVars, notify, drain, faults, overrun>>

GetReuse_KeepsAddress(c) == \* mutant
  LET e == at[c]
      n == want[c][1]
  IN /\ pc[c] = "reuse"
     /\ tab' = IF tab[e].ref # 1 THEN tab
               ELSE [tab EXCEPT ![e].neigh = n,
                      ![e].state = IF nud[n] \notin NudValid THEN "RESOLVING"
                                   ELSE IF nud[n] = "reachable" THEN "VALID"
                                                                ELSE "STALE"]
     /\ writer' = None
     /\ Goto(c, "has")
     /\ UNCHANGED <<chain, nfree, rover, neighVars, notify, drain, userVars, faults, overrun>>

\* The first reference: reuse_entry brings the entry up to date.
GetReuse(c) ==
  LET e == at[c]
      n == want[c][1]
  IN /\ pc[c] = "reuse"
     /\ tab' = IF tab[e].ref # 1 THEN tab
               ELSE [tab EXCEPT ![e].neigh = n,
                      ![e].state = IF tab[e].dmac # Mac(n) \/ nud[n] \notin NudValid
                                   THEN "RESOLVING"
                                   ELSE IF nud[n] = "reachable" THEN "VALID"
                                                                ELSE "STALE"]
     /\ writer' = None
     /\ Goto(c, "has")
     /\ UNCHANGED <<chain, nfree, rover, neighVars, notify, drain, userVars, faults, overrun>>

\* The entry is not there: alloc_l2e finds another for it, or refuses.
GetAlloc(c, n, t) ==
  /\ GetStart(c, n, t)
  /\ Hits(n, t) = {} /\ nfree > 0 /\ FreeEntries # {}
  /\ rover' = Scan + 1
  /\ nfree' = nfree - 1
  /\ chain' = Unchain(Scan)
  /\ tab' = [tab EXCEPT ![Scan].state = "UNUSED"]
  /\ at' = [at EXCEPT ![c] = Scan]
  /\ writer' = c
  /\ Goto(c, "init")
  /\ want' = [want EXCEPT ![c] = <<n, t>>]
  /\ UNCHANGED <<neighVars, notify, drain, faults, overrun>>

GetRefused(c, n, t) ==
  /\ GetStart(c, n, t)
  /\ Hits(n, t) = {} /\ nfree = 0
  /\ UNCHANGED <<tab, chain, nfree, rover, writer, neighVars, notify, drain,
                 pc, at, want, faults, overrun>>

\* nfree says that there is a free entry and there is none: the scan leaves
\* the table.  The connection is not followed any further.
GetOverrun(c, n, t) ==
  /\ GetStart(c, n, t)
  /\ Hits(n, t) = {} /\ nfree > 0 /\ FreeEntries = {}
  /\ overrun' = TRUE
  /\ Goto(c, "lost")
  /\ UNCHANGED <<tab, chain, nfree, rover, writer, neighVars, notify, drain,
                 at, want, faults>>

\* The new incarnation of the entry, under the entry's lock.
GetInit(c) ==
  LET e == at[c]
      n == want[c][1]
  IN /\ pc[c] = "init"
     /\ tab' = [tab EXCEPT ![e].state = "RESOLVING", ![e].key = want[c],
                           ![e].ref = 1, ![e].neigh = n]
     /\ chain' = [chain EXCEPT ![Hash[n]] = <<e>> \o @]
     /\ writer' = None
     /\ Goto(c, "has")
     /\ UNCHANGED <<nfree, rover, neighVars, notify, drain, userVars, faults, overrun>>

----------------------------------------------------------------------------
(* cxgb4_l2t_release                                                       *)

\* Nothing is under way on the entry that c holds.
Idle(c) == c \notin ToSet(tab[at[c]].arpq) /\ tab[at[c]].sync = 0

\* The user forgets its entry.
Leave(u) ==
  /\ Goto(u, "idle")
  /\ at' = [at EXCEPT ![u] = 1]
  /\ want' = [want EXCEPT ![u] = NoKey]

Release(u) ==
  LET e == at[u]
  IN /\ pc[u] = "has"
     /\ Patient => Idle(u)
     /\ tab' = [tab EXCEPT ![e].ref = @ - 1]
     /\ IF tab[e].ref = 1 THEN Goto(u, "free") /\ UNCHANGED <<at, want>> ELSE Leave(u)
     /\ UNCHANGED <<chain, nfree, rover, writer, neighVars, notify, drain,
                    work, faults, overrun>>

Free_CountsIfUnused(u) == \* mutant
  LET e == at[u]
  IN /\ pc[u] = "free"
     /\ IF tab[e].ref = 0
        THEN /\ tab' = [tab EXCEPT ![e].neigh = None, ![e].arpq = <<>>]
             /\ nfree' = nfree + 1
        ELSE UNCHANGED <<tab, nfree>>
     /\ Leave(u)
     /\ UNCHANGED <<chain, rover, writer, neighVars, notify, drain, work, faults, overrun>>

Free_ByState(u) == \* mutant
  LET e == at[u]
  IN /\ pc[u] = "free"
     /\ tab' = IF tab[e].state = "VALID"
               THEN [tab EXCEPT ![e].neigh = None, ![e].arpq = <<>>]
               ELSE tab
     /\ nfree' = nfree + 1
     /\ Leave(u)
     /\ UNCHANGED <<chain, rover, writer, neighVars, notify, drain, work, faults, overrun>>

\* t4_l2e_free: the entry may have been recycled in the meantime.
Free(u) ==
  LET e == at[u]
  IN /\ pc[u] = "free"
     /\ tab' = IF tab[e].ref = 0
               THEN [tab EXCEPT ![e].neigh = None, ![e].arpq = <<>>]
               ELSE tab
     /\ nfree' = nfree + 1
     /\ Leave(u)
     /\ UNCHANGED <<chain, rover, writer, neighVars, notify, drain,
                    work, faults, overrun>>

----------------------------------------------------------------------------
(* cxgb4_l2t_send                                                          *)

\* One look at the state, without the lock: a valid entry sends, a stale one
\* has the neighbour probed first, the others queue.
Send(c) ==
  LET r == tab[at[c]]
  IN /\ \/ pc[c] = "has" /\ c \in Conns /\ work < MaxWork /\ work' = work + 1
        \/ pc[c] = "again" /\ UNCHANGED work
     /\ \/ /\ r.state = "STALE"
           /\ EventSend(r.neigh)
           /\ Goto(c, "stale")
        \/ /\ r.state \in {"RESOLVING", "SYNC_WRITE"}
           /\ Goto(c, "queue")
           /\ UNCHANGED nud
        \/ /\ r.state = "VALID"
           /\ Goto(c, "has")
           /\ UNCHANGED nud
     /\ UNCHANGED <<tab, chain, nfree, rover, writer, ha, moves, notify, drain,
                    at, want, faults, overrun>>

\* The stale entry counts as valid while the neighbour is probed.
SendStale(c) ==
  LET e == at[c]
  IN /\ pc[c] = "stale"
     /\ tab' = [tab EXCEPT ![e].state = IF @ = "STALE" THEN "VALID" ELSE @]
     /\ Goto(c, "has")
     /\ UNCHANGED <<chain, nfree, rover, writer, neighVars, notify, drain,
                    userVars, faults, overrun>>

\* Under the lock the state may be another: then back to the start.
SendQueue(c) ==
  LET e == at[c]
  IN /\ pc[c] = "queue"
     /\ \/ /\ tab[e].state \in {"RESOLVING", "SYNC_WRITE"}
           /\ tab' = [tab EXCEPT ![e].arpq = Append(@, c)]
           /\ Goto(c, "kick")
        \/ /\ tab[e].state \notin {"RESOLVING", "SYNC_WRITE"}
           /\ Goto(c, "again")
           /\ UNCHANGED tab
     /\ UNCHANGED <<chain, nfree, rover, writer, neighVars, notify, drain,
                    userVars, faults, overrun>>

SendKick_Waits(c) == \* mutant
  LET r == tab[at[c]]
  IN /\ pc[c] = "kick"
     /\ IF r.state = "RESOLVING" THEN EventSend(r.neigh) ELSE UNCHANGED nud
     /\ Goto(c, "has")
     /\ UNCHANGED <<tab, chain, nfree, rover, writer, ha, moves, notify, drain,
                    userVars, faults, overrun>>

\* The neighbour layer is asked to resolve; if it has nothing to do the
\* packet must not wait for it.
SendKick(c) ==
  LET r == tab[at[c]]
  IN /\ pc[c] = "kick"
     /\ IF r.state = "RESOLVING"
        THEN /\ EventSend(r.neigh)
             /\ Goto(c, IF EventSendRc(r.neigh) = 0 THEN "write" ELSE "has")
        ELSE /\ Goto(c, "has")
             /\ UNCHANGED nud
     /\ UNCHANGED <<tab, chain, nfree, rover, writer, ha, moves, notify, drain,
                    userVars, faults, overrun>>

SendWrite(c) ==
  LET e == at[c]
  IN /\ pc[c] = "write"
     /\ IF tab[e].state = "RESOLVING" /\ tab[e].arpq # <<>>
        THEN WriteEntry(e, tab[e], 1)
        ELSE UNCHANGED <<tab, faults>>
     /\ Goto(c, "has")
     /\ UNCHANGED <<chain, nfree, rover, writer, neighVars, notify, drain, userVars, overrun>>
----------------------------------------------------------------------------
(* do_l2t_write_rpl: the reply to a synchronous write                      *)

\* The state follows the neighbour of the entry as it is when the reply
\* comes; an entry without neighbour makes that a read through NULL, whose
\* outcome is any.
Reply(e) ==
  LET r == tab[e]
      Known == IF r.neigh = None THEN {"STALE", "VALID"}
               ELSE {IF nud[r.neigh] = "stale" THEN "STALE" ELSE "VALID"}
  IN /\ r.sync > 0
     /\ \/ /\ r.state # "SWITCHING"
           /\ \E s \in Known : tab' = [tab EXCEPT ![e].state = s, ![e].arpq = <<>>,
                                                  ![e].sync = @ - 1]
           /\ UNCHANGED faults
        \/ /\ r.state = "SWITCHING"
           /\ tab' = [tab EXCEPT ![e].sync = @ - 1]
           /\ UNCHANGED faults
        \/ /\ moves + faults < MaxEvents   \* an error status: nobody is woken up
           /\ faults' = faults + 1
           /\ tab' = [tab EXCEPT ![e].sync = @ - 1]
     /\ UNCHANGED <<chain, nfree, rover, writer, neighVars, notify, drain,
                    pc, userVars, overrun>>

----------------------------------------------------------------------------
(* t4_l2t_update: the neighbour layer reports a change of n                *)

\* Only the first entry of the neighbour on the chain is looked at.
Found(n) ==
  LET s == chain[Hash[n]]
      Of == {i \in 1 .. Len(s) : tab[s[i]].key[1] = n}
  IN {s[i] : i \in {j \in Of : \A k \in Of : j <= k}}

UpdateNothing(n) ==
  /\ n \in notify /\ writer = None
  /\ \A e \in Found(n) : tab[e].ref = 0
  /\ notify' = notify \ {n}
  /\ UNCHANGED <<tab, chain, nfree, rover, writer, neighVars, drain,
                 pc, userVars, faults, overrun>>

Update(n) ==
  /\ n \in notify /\ writer = None
  /\ \E e \in Found(n) :
       LET r == [tab[e] EXCEPT !.neigh = n]
           s == [r EXCEPT !.state = IF nud[n] = "reachable" THEN "VALID" ELSE "STALE"]
       IN /\ r.ref > 0
          /\ \/ /\ r.state = "RESOLVING" /\ nud[n] = "failed"
                /\ tab' = [tab EXCEPT ![e] = r]
                /\ drain' = drain \cup {e}
                /\ UNCHANGED faults
             \/ /\ r.state = "RESOLVING" /\ nud[n] \in {"reachable", "stale"} /\ r.arpq # <<>>
                /\ WriteEntry(e, r, 1)
                /\ UNCHANGED drain
             \/ /\ r.state = "RESOLVING"
                /\ nud[n] # "failed" /\ (nud[n] \in {"reachable", "stale"} => r.arpq = <<>>)
                /\ tab' = [tab EXCEPT ![e] = r]
                /\ UNCHANGED <<drain, faults>>
             \/ /\ r.state # "RESOLVING"
                /\ IF r.dmac # Mac(n) THEN WriteEntry(e, s, 0)
                   ELSE tab' = [tab EXCEPT ![e] = s] /\ UNCHANGED faults
                /\ UNCHANGED drain
  /\ notify' = notify \ {n}
  /\ UNCHANGED <<chain, nfree, rover, writer, neighVars, pc, userVars, overrun>>

\* Resolution failed: the packets go to their failure handlers, one by one,
\* each with the lock of the entry dropped.
Drain(e) ==
  /\ e \in drain
  /\ IF tab[e].arpq = <<>>
     THEN drain' = drain \ {e} /\ UNCHANGED tab
     ELSE tab' = [tab EXCEPT ![e].arpq = Tail(@)] /\ UNCHANGED drain
  /\ UNCHANGED <<chain, nfree, rover, writer, neighVars, notify,
                 pc, userVars, faults, overrun>>

----------------------------------------------------------------------------
(* t4_l2t_alloc_switching: an entry for a filter that rewrites the address *)

Rule(k) == <<None, k>>
SameRule(k) == {e \in Entries : /\ tab[e].ref > 0 /\ tab[e].state = "SWITCHING"
                                /\ tab[e].dmac = Rule(k)}

SwitchAlloc(f, k) ==
  /\ pc[f] = "idle" /\ work < MaxWork /\ writer = None
  /\ work' = work + 1
  /\ \/ \E e \in SameRule(k) :
          /\ e = First(SameRule(k))
          /\ tab' = [tab EXCEPT ![e].ref = @ + 1]
          /\ at' = [at EXCEPT ![f] = e]
          /\ Goto(f, "has")
          /\ UNCHANGED <<chain, nfree, faults>>
     \/ /\ SameRule(k) = {} /\ FreeEntries # {}
        /\ LET e == First(FreeEntries)
               r == [tab[e] EXCEPT !.state = "SWITCHING", !.dmac = Rule(k), !.ref = 1]
           IN /\ chain' = Unchain(e)
              /\ WriteEntry(e, r, 0)
              /\ IF faults' = faults
                 THEN /\ at' = [at EXCEPT ![f] = e]
                      /\ Goto(f, "has")
                      /\ UNCHANGED nfree
                 ELSE /\ nfree' = nfree + 1   \* _t4_l2e_free of a held entry
                      /\ UNCHANGED <<at, pc>>
     \/ /\ SameRule(k) = {} /\ FreeEntries = {}
        /\ UNCHANGED <<tab, chain, nfree, at, pc, faults>>
  /\ UNCHANGED <<rover, writer, neighVars, notify, drain, want, overrun>>

----------------------------------------------------------------------------
(* The neighbour layer (external)                                          *)

NeighStep(n, s, v) ==
  /\ nud' = [nud EXCEPT ![n] = s]
  /\ ha' = [ha EXCEPT ![n] = v]
  /\ UNCHANGED <<tab, chain, nfree, rover, writer, drain, pc, userVars, faults, overrun>>

\* Resolution under way ends: with the address or without.
Resolve(n) ==
  /\ nud[n] \in {"incomplete", "probe"}
  /\ notify' = notify \cup {n}
  /\ \E s \in {"failed", "reachable"} : NeighStep(n, s, ha[n])
  /\ UNCHANGED moves

\* The peer announces a new address, asked or not; or the address gets old.
Announce(n) ==
  /\ moves + faults < MaxEvents /\ moves' = moves + 1
  /\ notify' = notify \cup {n}
  /\ \E s \in {"reachable", "stale"} : NeighStep(n, s, ha[n] + 1)
Age(n) ==
  /\ moves + faults < MaxEvents /\ moves' = moves + 1
  /\ nud[n] = "reachable"
  /\ notify' \in {notify, notify \cup {n}}
  /\ NeighStep(n, "stale", ha[n])

----------------------------------------------------------------------------
UserNext(u) ==
  \/ \E n \in Neighs, t \in Tags : u \in Conns /\
       (GetHit(u, n, t) \/ GetAlloc(u, n, t) \/ GetRefused(u, n, t) \/ GetOverrun(u, n, t))
  \/ GetReuse(u) \/ GetInit(u) \/ Release(u) \/ Free(u)
  \/ Send(u) \/ SendStale(u) \/ SendQueue(u) \/ SendKick(u) \/ SendWrite(u)
  \/ u \in Switchers /\ \E k \in Tags : SwitchAlloc(u, k)

NeighNext(n) == Resolve(n) \/ Announce(n) \/ Age(n) \/ UpdateNothing(n) \/ Update(n)

L2tNext ==
  \/ \E u \in Users : UserNext(u)
  \/ \E n \in Neighs : NeighNext(n)
  \/ \E e \in Entries : Reply(e) \/ Drain(e)

L2tSpec == L2tInit /\ [][L2tNext]_l2tVars

(* What the code relies on to go on: its threads run, the notifier of the  *)
(* neighbour layer calls, a resolution ends, the firmware answers.         *)
L2tFairness ==
  /\ \A u \in Users : WF_l2tVars(GetReuse(u) \/ GetInit(u) \/ Free(u) \/ SendStale(u)
                                 \/ SendQueue(u) \/ SendKick(u) \/ SendWrite(u)
                                 \/ (pc[u] = "again" /\ Send(u)))
  /\ \A n \in Neighs : WF_l2tVars(Resolve(n)) /\ WF_l2tVars(UpdateNothing(n) \/ Update(n))
  /\ \A e \in Entries : WF_l2tVars(Reply(e)) /\ WF_l2tVars(Drain(e))
L2tFairSpec == L2tSpec /\ L2tFairness

----------------------------------------------------------------------------
(* Properties                                                              *)

Initialising == {at[u] : u \in {v \in Users : pc[v] = "init"}}
Freeing == {u \in Users : pc[u] = "free"}

\* A lookup finds the entry of its neighbour and only that: an entry in use
\* is on the chain of its neighbour, exactly once; an entry of a switching
\* rule is on none, so no change of a neighbour reaches it; no two entries of
\* a chain answer to the same key (cxgb4_l2t_get, alloc_l2e, find_or_alloc_l2e).
ChainsSound ==
  /\ \A b \in Entries : IsInjective(chain[b])
  /\ \A b, d \in Entries : b # d => ToSet(chain[b]) \cap ToSet(chain[d]) = {}
  /\ \A b \in Entries : \A e, f \in ToSet(chain[b]) : tab[e].key = tab[f].key => e = f
  /\ \A e \in Entries \ Initialising :
       tab[e].ref > 0 =>
         IF tab[e].state = "SWITCHING" THEN \A b \in Entries : e \notin ToSet(chain[b])
         ELSE e \in ToSet(chain[Hash[tab[e].key[1]]])

\* No connection is refused while an entry is free: the count of free entries
\* and the frees under way (t4_l2e_free adds to it last) never come to less
\* than the entries without references.
FreeNotMissed ==
  nfree + Cardinality(Freeing) >= Cardinality(FreeEntries \ Initialising)

\* An entry without users holds neither a neighbour, which could not go away,
\* nor packets, whatever recycled it in the meantime (t4_l2e_free).
NothingKept ==
  \A e \in Entries : tab[e].ref = 0 /\ (\A u \in Freeing : at[u] # e) /\ e \notin Initialising
    => tab[e].neigh = None /\ tab[e].arpq = <<>>

\* A connection that sends without waiting sends to the present address of its
\* neighbour, unless the notifier still has to report the change: the writes of
\* send, update and reuse cover every order of events.
RightAddress ==
  faults = 0 =>
    \A c \in Conns :
      LET r == tab[at[c]]
      IN pc[c] = "has" /\ r.state \in {"VALID", "STALE"} /\ r.neigh \notin notify
           => r.neigh = want[c][1] /\ r.dmac = Mac(r.neigh)

\* The table serves its users: lookups find the right entry, a free entry is
\* not missed, an entry that nobody uses holds nothing (t4_l2e_free), and one
\* in use sends to the right address.
TableSound == ChainsSound /\ FreeNotMissed /\ NothingKept /\ RightAddress

\* The scan of alloc_l2e ends inside the table: "there's definitely a free
\* entry" (l2t.c:272).
FreeEntryFound == ~overrun

\* Nobody waits for nothing: a packet on the arpq of an entry leaves it, sent
\* or failed (short of failed allocations and of error replies).
QueueDrains ==
  \A c \in Conns :
    (pc[c] # "lost" /\ c \in ToSet(tab[at[c]].arpq)) ~>
    (c \notin ToSet(tab[at[c]].arpq) \/ faults > 0)
==========================================================================
