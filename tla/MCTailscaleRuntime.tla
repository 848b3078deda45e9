------------------------- MODULE MCTailscaleRuntime -------------------------
EXTENDS TailscaleRuntime

CONSTANTS a1, a2, s1, s2

\* Two processes share one state file; the first also has a host with another.
MCHosts == {[app |-> a1, state |-> s1, key |-> TRUE],
            [app |-> a1, state |-> s2, key |-> FALSE],
            [app |-> a2, state |-> s1, key |-> FALSE]}
=============================================================================
