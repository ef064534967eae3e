---------------------------- MODULE MCWorkQueues ----------------------------
(* Instances of WorkQueues for TLC. *)
EXTENDS WorkQueues, TLC

W(op, signaled) == [op |-> op, signaled |-> signaled]

\* Writes of both kinds and signaled reads, which later writes overtake.
MixedSends == {<<W("WRITE", TRUE)>>, <<W("WRITE", FALSE)>>, <<W("READ", TRUE)>>}

\* Reads alone: signaled ones, and the chains rdma_rw posts, the last one signaled.
ReadChains == {<<W("READ", TRUE)>>, <<W("READ", FALSE), W("READ", TRUE)>>}

RecvsAndWrites == {RecvJob, <<W("WRITE", TRUE)>>}

SomeOfEach == {RecvJob, <<W("WRITE", FALSE)>>, <<W("READ", TRUE)>>}

\* Unsignaled reads that signaled writes overtake.
OvertakenReads == {<<W("READ", FALSE)>>, <<W("WRITE", TRUE)>>}

\* The QPs of Calm connect and stay connected while the others come and go.
CONSTANT Calm
CalmNext == Next /\ \A q \in Calm : /\ state'[q] \in {"IDLE", "RTS"}
                                    /\ live[q] => live'[q]
CalmSpec == Init /\ [][CalmNext]_vars
=============================================================================
