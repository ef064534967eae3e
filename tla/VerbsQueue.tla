----------------------------- MODULE VerbsQueue -----------------------------
(***************************************************************************)
(* What a queue pair promises the consumer that posts work to it, with no  *)
(* rings, no completion queues and no adapter: the work requests (WRs) of  *)
(* each queue complete in the order they were posted, each at most once; a *)
(* WR whose completion is not requested is reported only when it did not   *)
(* succeed; and the completion of a drain WR, posted to a QP already       *)
(* flushed, comes after those of all the WRs posted before it (identifiers *)
(* grow in the order of posting).                                          *)
(*                                                                         *)
(* WorkQueues implements this specification; it maps its rings to sq and   *)
(* rq and the results of its polls to done.                                *)
(***************************************************************************)
EXTENDS Naturals, Sequences

CONSTANTS QPs,      \* the queue pairs
          WrIds,    \* the identifiers a consumer gives its WRs
          Statuses  \* completion statuses, "ok" among them

VARIABLES sq,   \* sq[q]: the outstanding send WRs, [wr, signaled], in order
          rq,   \* rq[q]: the identifiers of the outstanding receive WRs
          done, \* done[q]: the completions reported, [side, wr, status]
          exists

vars == <<sq, rq, done, exists>>

Init == /\ sq   = [q \in QPs |-> <<>>]
        /\ rq   = [q \in QPs |-> <<>>]
        /\ done = [q \in QPs |-> <<>>]
        /\ exists = [q \in QPs |-> TRUE]

(* s' is s with something appended. *)
Extends(s, t) == Len(t) > Len(s) /\ SubSeq(t, 1, Len(s)) = s

Drop(s, k) == SubSeq(s, k + 1, Len(s))

OnlyAt(f, g, q) == \A p \in QPs \ {q} : g[p] = f[p]

Report(q, side, wr, status) ==
    done' = [done EXCEPT ![q] = Append(@, [side |-> side, wr |-> wr, status |-> status])]

PostSend(q) == /\ Extends(sq[q], sq'[q])
               /\ OnlyAt(sq, sq', q)
               /\ UNCHANGED <<rq, done>>

PostRecv(q) == /\ Extends(rq[q], rq'[q])
               /\ OnlyAt(rq, rq', q)
               /\ UNCHANGED <<sq, done>>

(* The k-th outstanding WR is reported; the unsignaled ones before it are  *)
(* completed with it and never reported.                                   *)
CompleteSend(q) ==
    \E k \in 1..Len(sq[q]), status \in Statuses :
        /\ \A i \in 1..(k - 1) : ~sq[q][i].signaled
        /\ sq[q][k].signaled \/ status # "ok"
        /\ sq' = [sq EXCEPT ![q] = Drop(@, k)]
        /\ Report(q, "send", sq[q][k].wr, status)
        /\ UNCHANGED rq

CompleteRecv(q) ==
    \E status \in Statuses :
        /\ rq[q] # <<>>
        /\ rq' = [rq EXCEPT ![q] = Tail(@)]
        /\ Report(q, "recv", Head(rq[q]), status)
        /\ UNCHANGED sq

CompleteDrain(q) ==
    \E wr \in WrIds :
        /\ \/ /\ \A i \in 1..Len(sq[q]) : sq[q][i].wr > wr
              /\ Report(q, "send", wr, "flush")
           \/ /\ \A i \in 1..Len(rq[q]) : rq[q][i] > wr
              /\ Report(q, "recv", wr, "flush")
        /\ UNCHANGED <<sq, rq>>

(* The WRs of a destroyed QP are abandoned; it reports nothing more. *)
Destroy(q) == /\ exists' = [exists EXCEPT ![q] = FALSE]
              /\ sq' = [sq EXCEPT ![q] = <<>>]
              /\ rq' = [rq EXCEPT ![q] = <<>>]
              /\ UNCHANGED done

Use(q) == /\ exists[q]
          /\ \/ PostSend(q) \/ PostRecv(q)
             \/ CompleteSend(q) \/ CompleteRecv(q) \/ CompleteDrain(q)
          /\ UNCHANGED exists

Next == \E q \in QPs : Use(q) \/ Destroy(q)

Spec == Init /\ [][Next]_vars
=============================================================================
