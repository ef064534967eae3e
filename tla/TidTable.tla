----------------------------- MODULE TidTable -----------------------------
(***************************************************************************)
(* One table of identifiers (src/cxgb4/cxgb4_tid.c): a bitmap of the slots *)
(* and a map from the identifiers in use to their owners.  An IPv6 user    *)
(* takes max consecutive slots, a power of two, aligned; it is known by    *)
(* the first.  The operators are those the allocators, the insertions and  *)
(* the frees of every kind of identifier call under the lock of the map.   *)
(***************************************************************************)
EXTENDS Naturals, FiniteSets, Functions

\* The empty table of the identifiers start .. start + size - 1.
NewTable(start, size, max) ==
  [start |-> start, size |-> size, max |-> max, bits |-> {}, tab |-> <<>>,
   in_use |-> 0, range_in_use |-> 0]

Width(t, range) == IF range THEN t.max ELSE 1
Region(o, n) == o .. o + n - 1
InRange(t, id) == id >= t.start /\ id < t.start + t.size

\* The identifier without its low bits.
Aligned(t, id, range) == id - (id % Width(t, range))

\* bitmap_find_free_region looks at the aligned regions, lowest first.
FreeRegions(t, n) == {o \in 0 .. t.size - n : o % n = 0 /\ Region(o, n) \cap t.bits = {}}
LowestFree(t, n) == CHOOSE o \in FreeRegions(t, n) : \A p \in FreeRegions(t, n) : o <= p

CanInsert(t, id, range) ==
  InRange(t, id) /\ Region(Aligned(t, id, range) - t.start, Width(t, range)) \cap t.bits = {}

\* Give the region at offset o to owner.
Take(t, o, owner, range) ==
  LET n == Width(t, range)
  IN [t EXCEPT !.bits = @ \cup Region(o, n),
               !.tab = [id \in DOMAIN @ \cup {t.start + o} |->
                          IF id = t.start + o THEN owner ELSE @[id]],
               !.in_use = IF range THEN @ ELSE @ + 1,
               !.range_in_use = IF range THEN @ + n ELSE @]

InsertId(t, id, owner, range) == Take(t, Aligned(t, id, range) - t.start, owner, range)

\* The free erases the identifier as it is given, without aligning it, and
\* does nothing if nobody owns it.
FreeId(t, id, range) ==
  LET n == Width(t, range)
  IN IF id \notin DOMAIN t.tab THEN t
     ELSE [t EXCEPT !.bits = @ \ Region(id - t.start, n),
                    !.tab = Restrict(@, DOMAIN @ \ {id}),
                    !.in_use = IF range THEN @ ELSE @ - 1,
                    !.range_in_use = IF range THEN @ - n ELSE @]

\* The bitmap and the counts say what the map says, given how many slots each
\* owner takes (wide): nobody's region overlaps another's, and none is lost.
Consistent(t, wide(_)) ==
  LET W == {id \in DOMAIN t.tab : wide(t.tab[id])}
      R(id) == Region(id - t.start, Width(t, id \in W))
  IN /\ t.bits = UNION {R(id) : id \in DOMAIN t.tab}
     /\ \A i, j \in DOMAIN t.tab : i # j => R(i) \cap R(j) = {}
     /\ t.in_use = Cardinality(DOMAIN t.tab \ W)
     /\ t.range_in_use = t.max * Cardinality(W)
==========================================================================
