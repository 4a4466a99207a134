------------------------------ MODULE MCBroker ------------------------------
(* Instances of Broker for TLC.                                            *)
EXTENDS Broker, TLC

\* Session ids, host tokens and addresses are interchangeable.
Symmetry == Permutations(Uids) \cup Permutations(Tokens) \cup Permutations(Ips)

\* One step either way, one that is lost to the clamp of /extend.
MCMinutes == {2, -2, -9}
=============================================================================
