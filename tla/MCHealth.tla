------------------------------ MODULE MCHealth ------------------------------
\* Two services with keys that live for two periods, as the publisher's and realtime's do.
EXTENDS Health

MCPeriod == [s \in Services |-> 1]
MCKeyTtl == [s \in Services |-> 2 * MCPeriod[s]]
=============================================================================
