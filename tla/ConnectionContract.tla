------------------------- MODULE ConnectionContract -------------------------
(***************************************************************************)
(* What a host's session promises its clients (terminal, files, tunnels,   *)
(* the supervisor), with none of its machinery: the link is Down,          *)
(* Establishing, Up or Lost; every connect and disconnect takes a ticket;  *)
(* the link becomes Up only by being established, on the transport of the  *)
(* newest ticket, and a closed link has no transport.                      *)
(* SessionLifecycle implements this specification.                         *)
(***************************************************************************)
EXTENDS Naturals

VARIABLES
    phase,    \* Down, Establishing, Up or Lost
    ticket,   \* newest ticket
    current   \* ticket of the installed transport, 0 for none

contractVars == <<phase, ticket, current>>

Init == phase = "Down" /\ ticket = 0 /\ current = 0

Open ==
    /\ phase # "Establishing"
    /\ phase' = "Establishing"
    /\ UNCHANGED <<ticket, current>>

TakeTicket ==
    /\ phase = "Establishing"
    /\ ticket' = ticket + 1
    /\ UNCHANGED <<phase, current>>

Install ==
    /\ phase = "Establishing"
    /\ ticket # 0
    /\ current' = ticket
    /\ UNCHANGED <<phase, ticket>>

Succeed ==
    /\ phase = "Establishing"
    /\ current # 0 /\ current = ticket
    /\ phase' = "Up"
    /\ UNCHANGED <<ticket, current>>

(* A failed connect may or may not have taken a ticket. *)
GiveUp ==
    /\ phase = "Establishing"
    /\ phase' = "Down"
    /\ ticket' \in {ticket, ticket + 1}
    /\ UNCHANGED current

(* The transport dropped, or the supervisor wants a retry or a person. *)
Reassess ==
    /\ phase # "Establishing"
    /\ phase' \in {"Down", "Lost"}
    /\ UNCHANGED <<ticket, current>>

Close ==
    /\ phase # "Establishing"
    /\ phase' = "Down"
    /\ ticket' = ticket + 1
    /\ current' = 0

Next == Open \/ TakeTicket \/ Install \/ Succeed \/ GiveUp \/ Reassess \/ Close

Spec == Init /\ [][Next]_contractVars
=============================================================================
