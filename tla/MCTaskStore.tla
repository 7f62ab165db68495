----------------------------- MODULE MCTaskStore -----------------------------
EXTENDS TaskStore, TLC

CONSTANTS p1, p2, a1, a2, r1, r2, r3

Processes == Permutations({p1, p2})
RunNames  == Permutations({r1, r2, r3})
AgentIds  == Permutations({a1, a2})
Symmetric == Processes \cup RunNames \cup AgentIds

=============================================================================
