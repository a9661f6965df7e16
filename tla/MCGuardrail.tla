---------------------------- MODULE MCGuardrail ----------------------------
(* One number on the Cloud API, two worker slots.                          *)
EXTENDS Guardrail, TLC

MetaProvider == [a \in Account |-> "META_CLOUD"]
=============================================================================
