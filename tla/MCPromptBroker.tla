--------------------------- MODULE MCPromptBroker ---------------------------
(* PromptBroker for TLC.  A behaviour is either about two checks of one    *)
(* workstation's key, or about a bastion's key and a keyboard-interactive  *)
(* round of another workstation; the other checks never begin.  The first  *)
(* server presents k1: records of earlier versions hold any key, and the   *)
(* second server presents any.                                             *)
EXTENDS PromptBroker

CONSTANTS h1, h2, w1, w2, b1, q1, k1, k3, ed, rsa, addr

\* Keyboard-interactive rounds are the second workstation's.
MCOwnerOf == [c \in Checks |-> IF c = q1 THEN w2 ELSE w1]
MCEndpointOf == [c \in Checks |-> addr]
MCAlgorithmOf == [k \in Keys |-> IF k = k3 THEN rsa ELSE ed]

VARIABLE cast

MCInit == Init /\ cast \in {{h1, h2}, {b1, q1}}

\* Beginning a check is not subject to fairness.
MCNext ==
    /\ Next
    /\ UNCHANGED cast
    /\ \A c \in Checks \ cast : pc'[c] = "idle"
    /\ \A c \in {h1, b1} : key'[c] \in {None, k1}

MCSpec == MCInit /\ [][MCNext]_<<vars, cast>> /\ Fairness
=============================================================================
