--------------------------- MODULE MCAgentSession ---------------------------
EXTENDS AgentSession

Offer(type, key, drop, once) == [type |-> type, key |-> key, drop |-> drop, once |-> once]

MCOffers == {Offer("http", FALSE, FALSE, FALSE), Offer("tcp", FALSE, FALSE, FALSE),
             Offer("ssh", TRUE, TRUE, FALSE), Offer("ssh", TRUE, TRUE, TRUE),
             Offer("ssh", FALSE, FALSE, FALSE)}

MCAgentOffers == {o \in MCOffers : o.type = "ssh" /\ ~o.once}
=============================================================================
