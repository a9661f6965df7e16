----------------------------- MODULE MCOutbound -----------------------------
(* Instances of Outbound: one number on the Cloud API, plans with room for   *)
(* one or two messages.                                                      *)
EXTENDS Outbound

MetaProvider == [a \in {Number} |-> "META_CLOUD"]

OneMessages == [q \in Plan |-> 1]
TwoMessages == [q \in Plan |-> 2]
=============================================================================
