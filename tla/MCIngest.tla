------------------------------ MODULE MCIngest ------------------------------
(* Deliveries of one sender that share a message, one behind a message that  *)
(* is ignored, the other behind one without an id; a campaign writes to the  *)
(* same contact.                                                             *)
EXTENDS Ingest

CONSTANTS m0, m1, m2, alice

Senders == [m \in Msg |-> alice]

Batches == {<<m0, m1>>, <<m2, m1>>}
=============================================================================
