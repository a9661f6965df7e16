----------------------------- MODULE MCInbound ------------------------------
(* A voice note and a text that asks for a person; a flow that loops on each *)
(* message and a KEYWORD flow that sends one message and ends in an edge to  *)
(* a node that was deleted.                                                  *)
EXTENDS Inbound, TLC

CONSTANTS m1, m2, loop, word

E(s, t, b) == [source |-> s, target |-> t, branch |-> b]

Docs == (loop :> [trigger |-> "INBOUND_MESSAGE", start |-> "t",
                  kind  |-> [t |-> "TRIGGER", c |-> "CONDITION", o |-> "OTHER"],
                  edges |-> <<E("t", "c", "none"), E("c", "o", "true"),
                              E("o", "c", "none")>>])
     @@ (word :> [trigger |-> "KEYWORD", start |-> "t",
                  kind  |-> [t |-> "TRIGGER", s |-> "SEND_MESSAGE"],
                  edges |-> <<E("t", "s", "none"), E("s", "gone", "none")>>])
=============================================================================
