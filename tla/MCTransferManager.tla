------------------------ MODULE MCTransferManager ---------------------------
(* TransferManager for TLC: all transfers write to one destination.  A     *)
(* behaviour is about t1 and a later t2; about t1 alone, paused, while the *)
(* event pump may die; or about t1 alone, retried, while its source        *)
(* changes.  The product of the three would add states and no new case.    *)
EXTENDS TransferManager

CONSTANTS t1, t2

OneDestination == [t \in Transfers |-> "model.bin"]

VARIABLE cast

MCInit ==
    /\ Init
    /\ cast \in {"pair", "paused", "retried"}
    /\ ~resumable[t2]

\* Only calls of users, changes of sources and the end of the pump are held
\* back, none of which fairness is about.
MCNext ==
    /\ Next
    /\ UNCHANGED cast
    /\ cast # "pair" \/ runs[t1] = 0 => runs'[t2] = 0
    /\ cast # "paused" => UNCHANGED <<pauses, pumpAlive>>
    /\ cast # "retried" => UNCHANGED <<retrying, version>>

\* The fairness of Spec, without the second worker of t2, which never exists.
MCSpec ==
    /\ MCInit
    /\ [][MCNext]_<<vars, cast>>
    /\ \A w \in {<<t1, 1>>, <<t1, 2>>, <<t2, 1>>} :
          WF_vars(WorkerStep(w)) /\ SF_vars(AcquirePermit(w))
    /\ \A c \in RetryCalls : WF_vars(RetryStep(c))
=============================================================================
