------------------------------ MODULE MCQueues ------------------------------
(***************************************************************************)
(* Queue pairs that share a completion queue: the kernel's, or those of a  *)
(* process.  A behaviour runs one part, chosen at the start; the other     *)
(* stays in its initial state, in which its fairness asks for nothing.     *)
(***************************************************************************)
EXTENDS MCWorkQueues, UserQueues
CONSTANTS q1, q2, Parts

TwoQps == <<q1, q2>>
MaxTwo == [q \in {q1, q2} |-> 2]

VARIABLE part

\* User queue pairs: one, whose errors may come with an event and which
\* connects twice; or two with a WR each, of which the first may be reset.
Bounds ==
  IF part = "one" THEN life[q2] = 0
  ELSE /\ \A q \in UserQPs : life[q] = 1 /\ Len(posted[q]) <= 1 /\ ~uevent[q]
       /\ uqp[q2].state # "RESET"

QueuesInit ==
  /\ part \in Parts
  /\ Init /\ UrcInit
  /\ ucq.cidx = CqSize - 1
  /\ life[q1] = 1 /\ life[q2] = IF part = "two" THEN 1 ELSE 0
QueuesNext ==
  /\ UNCHANGED part
  /\ \/ part = "kernel" /\ CalmNext /\ UNCHANGED urcVars
     \/ part # "kernel" /\ UrcNext /\ Bounds' /\ UNCHANGED vars
QueuesSpec ==
  QueuesInit /\ [][QueuesNext]_<<part, vars, urcVars>> /\ UrcFairness
=============================================================================
