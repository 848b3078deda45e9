---------------------- MODULE MCConnectionSupervisor ------------------------
(* ConnectionSupervisor for TLC.  A behaviour is either about one attempt  *)
(* at a time and two commands, or about attempts that overlap after one    *)
(* command and one drop: the product would add states and no new case.     *)
EXTENDS ConnectionSupervisor

CONSTANTS t1, t2

VARIABLE cast

MCInit == Init /\ cast \in {"one", "two"}

Allowed ==
    /\ UNCHANGED cast
    /\ cast = "one" => task'[t2] = "idle"
    /\ cast = "two" =>
          /\ commands' <= 1
          /\ \A g \in Generation \ {1} : transport[g] = "live" => transport'[g] # "dropped"

\* The fairness of Spec; a tick owes nothing that Allowed holds back.
MCSpec ==
    /\ MCInit
    /\ [][Next /\ Allowed]_<<vars, cast>>
    /\ \A u \in Users : WF_vars(UserStep(u))
    /\ \A t \in Attempts : WF_vars(AttemptStep(t))
    /\ WF_vars(BackoffElapses)
    /\ WF_vars(Tick /\ Allowed)
    /\ \A c \in Callers :
          /\ WF_vars(LocalStep(c) /\ UNCHANGED supervisorVars)
          /\ SF_vars(AcquireGuard(c) /\ UNCHANGED supervisorVars)
    /\ \A g \in Generation : WF_vars(PumpStep(g) /\ UNCHANGED supervisorVars)
=============================================================================
