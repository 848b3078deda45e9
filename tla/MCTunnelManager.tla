--------------------------- MODULE MCTunnelManager ---------------------------
(* TunnelManager for TLC: two tunnels of one host, of which only t1 is     *)
(* connected to.  Only peers are held back, to whom no fairness applies;   *)
(* tunnels share nothing but the table, so a busy t2 would add no case.    *)
EXTENDS TunnelManager

CONSTANTS t1, t2, h1

MCHostOf == [t \in Tunnels |-> h1]

MCNext == Next /\ accepted'[t2] = 0

MCSpec == Init /\ [][MCNext]_vars /\ Fairness
=============================================================================
