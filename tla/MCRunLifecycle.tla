--------------------------- MODULE MCRunLifecycle ---------------------------
(* RunLifecycle for TLC.  A behaviour is about two runs, with a stop of    *)
(* the desktop and all exit codes; or about three runs started one after   *)
(* the other, the second of which dies without a trace, so that the limit  *)
(* of the list is reached and left again.                                  *)
EXTENDS RunLifecycle

\* The newest run is a Quick one, the first one a Background one.
MCBackground == {1}
MCCodes == {0, 1, 125}

VARIABLE cast

MCInit == Init /\ cast \in {"two", "three"}

\* Only starts, stops and the remote host are held back, to which no
\* fairness applies.
Allowed ==
    /\ UNCHANGED cast
    /\ cast = "two" => row'[3].status = "Absent"
    /\ cast = "three" =>
          /\ UNCHANGED crashes
          /\ remote'[2] \in {"none", "requested", "dead"}
          /\ \A r \in Runs : code'[r] \in {0, NoExit}
          /\ \A r \in {2, 3} : row'[r].status # "Absent" => call[r - 1] = "done"

MCSpec == MCInit /\ [][Next /\ Allowed]_<<vars, cast>> /\ Fairness
=============================================================================
