---------------------------- MODULE MCCampaign -----------------------------
(* Two contacts, two worker slots, a queue that remembers one job.         *)
EXTENDS Campaign, TLC

CampaignSymmetry == Permutations(Contact) \cup Permutations(Starter)
=============================================================================
