----------------------------- MODULE MCAccounts -----------------------------
(* The tables whose rows clients and agencies make, and requests that overlap. *)
EXTENDS Accounts, TLC

AccountsSymmetry == Permutations(Request)
=============================================================================
