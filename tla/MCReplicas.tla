----------------------------- MODULE MCReplicas -----------------------------
EXTENDS Replicas
CONSTANTS A, B, C
AllAgents == {A, B, C}
NameOrder == [a \in AllAgents |-> IF a = A THEN 1 ELSE IF a = B THEN 2 ELSE 3]
=============================================================================
