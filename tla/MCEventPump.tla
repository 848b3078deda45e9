----------------------------- MODULE MCEventPump -----------------------------
EXTENDS EventPump

\* A long first transport, or two short ones.
MCLoads == {<<3, 0>>, <<2, 1>>}
=============================================================================
