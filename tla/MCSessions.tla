----------------------------- MODULE MCSessions -----------------------------
(* A few tokens, interchangeable, and requests that overlap. *)
EXTENDS Sessions, TLC

SessionSymmetry ==
    Permutations(Token) \cup Permutations(Device) \cup Permutations(Request)
=============================================================================
