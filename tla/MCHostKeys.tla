----------------------------- MODULE MCHostKeys -----------------------------
(* The hosts of a machine are alike.  After a tear the properties claim     *)
(* nothing, and its successors are not explored.  The key that bears the    *)
(* program's name is there before anything else happens, and the user has   *)
(* added the other one, between any steps of the hosts, when a wipe begins. *)
EXTENDS HostKeys, TLC

Alike == Permutations(Hosts)

Fresh == wiper = "idle" /\ \A h \in Hosts : pc[h] = "folder" /\ cleanup[h] = "none"
Whole ==
  /\ ~torn
  /\ Branded \subseteq installed \/ (Fresh /\ installed = {})
  /\ installed = UserKeys \/ wiper = "idle"
=============================================================================
