---- MODULE MCEmailCampaign ----
(* A small instance of EmailCampaign for TLC. *)
EXTENDS EmailCampaign, TLC

CONSTANTS s1, s2

Symmetric == Permutations(Servers)
====
