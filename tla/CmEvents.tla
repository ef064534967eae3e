------------------------------ MODULE CmEvents ------------------------------
(***************************************************************************)
(* What the connection manager promises the iWARP core about the events of *)
(* one connection (the calls of cm_id->event_handler), whatever the peer,  *)
(* the timers, the user of the QP and the adapter do:                      *)
(*   - a connection that was asked for is answered once, CONNECTED or      *)
(*     REFUSED; one that was accepted is ESTABLISHED, or taken back;       *)
(*   - DISCONNECT comes once, and only to a connection that was up;        *)
(*   - REFUSED and CLOSE are the last event, and end the use of cm_id;     *)
(*   - nothing is said about a connection before the cm_id is there or     *)
(*     after its use has ended.                                            *)
(***************************************************************************)
VARIABLES side,  \* "active" or "passive", for good
          told,  \* the last event
          cm_id  \* the connection manager has a reference of the cm_id

vars == <<side, told, cm_id>>

Init == /\ side \in {"active", "passive"}
        /\ told = "none" /\ cm_id = (side = "active")

Up == IF side = "active" THEN "CONNECTED" ELSE "ESTABLISHED"

(* The ULP accepts a request: it hands over the cm_id. *)
Given == /\ side = "passive" /\ told = "none" /\ ~cm_id
         /\ cm_id' = TRUE
         /\ UNCHANGED told

(* The accept fails; its caller knows from the result. *)
TakenBack == /\ side = "passive" /\ told = "none" /\ cm_id
             /\ cm_id' = FALSE
             /\ UNCHANGED told

Answer == /\ told = "none" /\ cm_id
          /\ told' = Up
          /\ UNCHANGED cm_id

Refuse == /\ side = "active" /\ told = "none" /\ cm_id
          /\ told' = "REFUSED" /\ cm_id' = FALSE

Disconnect == /\ told = Up /\ cm_id
              /\ told' = "DISCONNECT"
              /\ UNCHANGED cm_id

Close == /\ told \in {Up, "DISCONNECT"} /\ cm_id
         /\ told' = "CLOSE" /\ cm_id' = FALSE

Next == /\ Given \/ TakenBack \/ Answer \/ Refuse \/ Disconnect \/ Close
        /\ UNCHANGED side

Spec == Init /\ [][Next]_vars
=============================================================================
