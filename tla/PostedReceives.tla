--------------------------- MODULE PostedReceives ---------------------------
(***************************************************************************)
(* What a shared receive queue promises: receives are handed to the        *)
(* adapter in the order they were posted, each that was handed over is     *)
(* reported at most once, in any order, and none is reported before.       *)
(***************************************************************************)
EXTENDS Naturals, Sequences

CONSTANT WrIds     \* identities of receives, numbers in posting order

VARIABLES
    posted,    \* receives not yet handed to the adapter, in order
    out,       \* receives the adapter has
    reported   \* receives reported, in order
vars == <<posted, out, reported>>

Init == posted = <<>> /\ out = {} /\ reported = <<>>

(* A receive is posted, with an identity greater than any before. *)
Post(w) ==
    /\ \A i \in 1..Len(posted) : posted[i] < w
    /\ \A v \in out : v < w
    /\ \A i \in 1..Len(reported) : reported[i] < w
    /\ posted' = Append(posted, w)
    /\ UNCHANGED <<out, reported>>

(* The oldest posted receive goes to the adapter. *)
Hand == /\ posted # <<>>
        /\ out' = out \cup {Head(posted)}
        /\ posted' = Tail(posted)
        /\ UNCHANGED reported

(* A receive is posted and handed over at once, when none waits. *)
PostThrough(w) ==
    /\ posted = <<>>
    /\ \A v \in out : v < w
    /\ \A i \in 1..Len(reported) : reported[i] < w
    /\ out' = out \cup {w}
    /\ UNCHANGED <<posted, reported>>

Report(w) == /\ w \in out
             /\ out' = out \ {w}
             /\ reported' = Append(reported, w)
             /\ UNCHANGED posted

Next == \/ \E w \in WrIds : Post(w) \/ PostThrough(w) \/ Report(w)
        \/ Hand

Spec == Init /\ [][Next]_vars
=============================================================================
