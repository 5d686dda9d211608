----------------------------- MODULE MCAgentRun -----------------------------
\* Model-checking instance of AgentRun: a requester, who is an administrator
\* too, and a second administrator.  Request slots are interchangeable.
EXTENDS AgentRun, TLC

CONSTANTS ann, bob, r1, r2

Slots == Permutations({r1, r2})
=============================================================================
