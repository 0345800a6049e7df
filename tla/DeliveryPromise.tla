--------------------------- MODULE DeliveryPromise ---------------------------
(***************************************************************************)
(* What the watch host promises of the typed actions of one watch: at most *)
(* one send is ever attempted, and an action is recorded as delivered only *)
(* after its message has arrived; a record is never taken back.            *)
(***************************************************************************)
CONSTANT Message    \* what the host keeps a typed action by

VARIABLES
  called,     \* a send was attempted
  arrived,    \* keys of the messages that arrived
  recorded    \* keys recorded as delivered

vars == <<called, arrived, recorded>>

Init == called = FALSE /\ arrived = {} /\ recorded = {}

Attempt ==
  /\ ~called /\ called' = TRUE
  /\ \/ arrived' = arrived
     \/ \E k \in Message : arrived' = {k}
  /\ UNCHANGED recorded

Record ==
  /\ arrived # {}
  /\ recorded' = arrived
  /\ UNCHANGED <<called, arrived>>

Spec == Init /\ [][Attempt \/ Record]_vars
=============================================================================
