-------------------------- MODULE MCApprovalFlow --------------------------
(* Instances of ApprovalFlow for TLC.                                      *)
EXTENDS ApprovalFlow, TLC

\* Clients and addresses are interchangeable.
Symmetry == Permutations(Clients) \cup Permutations(Addresses)
=============================================================================
