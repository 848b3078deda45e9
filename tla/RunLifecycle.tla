---------------------------- MODULE RunLifecycle ----------------------------
(***************************************************************************)
(* Run History of one host: the rows `run_action' writes around a remote   *)
(* command, the markers the remote wrapper script leaves, and the          *)
(* reconciliation pass that compares the two.                              *)
(*                                                                         *)
(* A row is written twice by its own call (Queued before the dispatch, the *)
(* observed outcome after it) and any number of times by `run_reconcile',  *)
(* which lists rows, awaits a remote probe, and only then writes what it   *)
(* learned. Nothing orders the two writers except the SQLite transaction   *)
(* each write is: the transition table is checked against the row as it is *)
(* then. The desktop may stop between any two steps; the remote host moves *)
(* on without it.                                                          *)
(*                                                                         *)
(* Runs are numbered in the order of `started_at_ms'. Previews, output     *)
(* sizes, session references and times are left out.                       *)
(***************************************************************************)
EXTENDS Integers, FiniteSets

CONSTANTS
    MaxRuns,      \* bound: rows of this host
    Background,   \* the runs whose action mode is Background; others are Quick
    Codes,        \* exit codes the remote shell may report
    NoExit,       \* `exit_code: None'
    Limit,        \* rows one pass lists (100 in the code)
    BatchSize,    \* rows one probe command covers (32 in the code)
    MaxCrashes    \* bound: times the desktop process stops

Runs == 1 .. MaxRuns

\* Exit code of the wrapper when it cannot write one of its markers.
MarkerFailure == 125

ASSUME RunAssumption ==
    /\ MaxRuns \in Nat /\ Limit \in Nat /\ BatchSize \in Nat \ {0}
    /\ MaxCrashes \in Nat
    /\ Background \subseteq Runs
    /\ Codes \subseteq Int /\ {0, MarkerFailure} \subseteq Codes
    /\ NoExit \notin Codes

VARIABLES
    row,       \* the persisted row of each run, [status, exit]
    call,      \* where the run_action call of each run stands
    outcome,   \* what that call is about to write, [status, exit]
    remote,    \* what became of the command on the host
    code,      \* exit code of the wrapper (or of the tmux launcher)
    pass,      \* where the run_reconcile call that holds the host stands
    todo,      \* rows it listed and has not probed yet
    probes,    \* what its probes answered
    cleanup,   \* runs whose metadata it will remove
    up,        \* is the desktop process running?
    crashes

remoteVars == <<remote, code>>
callVars == <<call, outcome>>
passVars == <<pass, todo, probes, cleanup>>
vars == <<row, callVars, remoteVars, passVars, up, crashes>>

Exits == Codes \cup {NoExit}

Reconcilable == {"Queued", "Running", "Unknown"}
Terminal == {"Succeeded", "Failed"}
Statuses == {"Absent"} \cup Reconcilable \cup Terminal
Rows == [status : Statuses, exit : Exits]

(* The remote command: not asked for; asked for but not begun; turned down *)
(* (the exec request, or the tmux launch); begun; ended with its exit_code *)
(* marker; ended without one; ended and its metadata removed.              *)
Phases == {"none", "requested", "refused", "running", "recorded", "dead", "cleaned"}
Begun == {"running", "recorded", "dead", "cleaned"}

ProbeStates == {"NotProbed", "Running", "Unknown", "Completed"}
Probes == [state : ProbeStates, exit : Exits]
NotProbed == [state |-> "NotProbed", exit |-> NoExit]

Row(status, exit) == [status |-> status, exit |-> exit]

Init ==
    /\ row = [r \in Runs |-> Row("Absent", NoExit)]
    /\ call = [r \in Runs |-> "idle"]
    /\ outcome = [r \in Runs |-> Row("Absent", NoExit)]
    /\ remote = [r \in Runs |-> "none"]
    /\ code = [r \in Runs |-> NoExit]
    /\ pass = "idle"
    /\ todo = {}
    /\ probes = [r \in Runs |-> NotProbed]
    /\ cleanup = {}
    /\ up = TRUE
    /\ crashes = 0

(***************************************************************************)
(* The pure pieces: the transition table and the two classifications.      *)
(***************************************************************************)

\* Mutant: terminal rows may still move.
run_transitionMutant(from, to) == to # "Queued"

\* Only the states a persisted Quick or Background row takes appear.
run_transition(from, to) ==
    \/ from = to
    \/ from = "Queued" /\ to \in {"Running", "Unknown"} \cup Terminal
    \/ from = "Running" /\ to \in {"Unknown"} \cup Terminal
    \/ from = "Unknown" /\ to \in {"Running"} \cup Terminal

completed_run_status(exit) ==
    CASE exit = 0 -> "Succeeded"
      [] exit = NoExit -> "Unknown"
      [] OTHER -> "Failed"

reconciled_run_fields(probe) ==
    IF probe.state = "Completed"
    THEN Row(IF probe.exit = 0 THEN "Succeeded" ELSE "Failed", probe.exit)
    ELSE Row(probe.state, NoExit)

\* The n most recently started runs of S: ORDER BY started_at_ms DESC LIMIT n.
Newest(S, n) == {r \in S : Cardinality({q \in S : q > r}) < n}

\* Mutant: Unknown is taken for settled.
list_reconcilable_by_hostMutant ==
    Newest({r \in Runs : row[r].status \in {"Queued", "Running"}}, Limit)

list_reconcilable_by_host ==
    Newest({r \in Runs : row[r].status \in Reconcilable}, Limit)

(***************************************************************************)
(* The remote host. The wrapper writes exit_code last, by an atomic rename,*)
(* so a run is recorded or it is not.                                      *)
(***************************************************************************)

\* The server accepts the exec request (Background: tmux accepts the launch).
RemoteStart(r) ==
    /\ remote[r] = "requested"
    /\ remote' = [remote EXCEPT ![r] = "running"]
    /\ UNCHANGED <<row, callVars, code, passVars, up, crashes>>

\* The server rejects the exec request, or the launcher exits non-zero
\* without a session: either way the command never begins.
RemoteRefuse(r) ==
    /\ remote[r] = "requested"
    /\ remote' = [remote EXCEPT ![r] = "refused"]
    /\ code' = [code EXCEPT ![r] = NoExit]
    /\ UNCHANGED <<row, callVars, passVars, up, crashes>>

LauncherFails(r, c) ==
    /\ remote[r] = "requested" /\ r \in Background /\ c # 0
    /\ remote' = [remote EXCEPT ![r] = "refused"]
    /\ code' = [code EXCEPT ![r] = c]
    /\ UNCHANGED <<row, callVars, passVars, up, crashes>>

RemoteFinish(r, c) ==
    /\ remote[r] = "running"
    /\ remote' = [remote EXCEPT ![r] = "recorded"]
    /\ code' = [code EXCEPT ![r] = c]
    /\ UNCHANGED <<row, callVars, passVars, up, crashes>>

\* A marker cannot be written: the wrapper exits 125 and leaves no exit_code.
MarkerFails(r) ==
    /\ remote[r] = "running"
    /\ remote' = [remote EXCEPT ![r] = "dead"]
    /\ code' = [code EXCEPT ![r] = MarkerFailure]
    /\ UNCHANGED <<row, callVars, passVars, up, crashes>>

\* The wrapper is killed, or the request is lost with its transport.
RemoteDie(r) ==
    /\ remote[r] \in {"requested", "running"}
    /\ remote' = [remote EXCEPT ![r] = "dead"]
    /\ UNCHANGED <<row, callVars, code, passVars, up, crashes>>

(***************************************************************************)
(* run_action, for a stored and confirmed Quick or Background action.      *)
(***************************************************************************)

\* The row is created before anything is sent.
Create(r) ==
    /\ up /\ call[r] = "idle" /\ row[r].status = "Absent"
    /\ \A q \in Runs : q < r => row[q].status # "Absent"
    /\ row' = [row EXCEPT ![r] = Row("Queued", NoExit)]
    /\ call' = [call EXCEPT ![r] = "opening"]
    /\ UNCHANGED <<outcome, remoteVars, passVars, up, crashes>>

Concludes(r, status, exit) ==
    /\ outcome' = [outcome EXCEPT ![r] = Row(status, exit)]
    /\ call' = [call EXCEPT ![r] = "finishing"]
    /\ UNCHANGED <<row, remoteVars, passVars, up, crashes>>

\* No session, no connection, or the channel did not open in time: nothing
\* was handed to the transport.
FailBeforeDispatch(r) ==
    /\ up /\ call[r] = "opening"
    /\ Concludes(r, "Failed", NoExit)

\* channel.exec hands the request to the transport; `dispatched' is set.
Dispatch(r) ==
    /\ up /\ call[r] = "opening"
    /\ call' = [call EXCEPT ![r] = "waiting"]
    /\ remote' = [remote EXCEPT ![r] = "requested"]
    /\ UNCHANGED <<row, outcome, code, passVars, up, crashes>>

\* ChannelMsg::Failure takes `dispatched' back.
ReceiveRejection(r) ==
    /\ up /\ call[r] = "waiting" /\ remote[r] = "refused" /\ code[r] = NoExit
    /\ Concludes(r, "Failed", NoExit)

\* The exit status of the exec: of the wrapper for Quick, of a launcher that
\* did not return zero for Background.
ReceiveExit(r) ==
    /\ up /\ call[r] = "waiting" /\ code[r] # NoExit
    /\ r \in Background => remote[r] = "refused"
    /\ Concludes(r, completed_run_status(code[r]), code[r])

\* tmux new-session returned zero: RunDisposition::BackgroundStarted.
ReceiveLaunched(r) ==
    /\ up /\ call[r] = "waiting" /\ r \in Background /\ remote[r] \in Begun
    /\ Concludes(r, "Running", NoExit)

\* Mutant: a lost answer is taken for a failure.
ResultLostMutant(r) ==
    /\ up /\ call[r] = "waiting"
    /\ Concludes(r, "Failed", NoExit)

\* The deadline passes, the transport fails, or the channel closes without an
\* exit status, after the dispatch.
ResultLost(r) ==
    /\ up /\ call[r] = "waiting"
    /\ Concludes(r, "Unknown", NoExit)

\* Mutant: the outcome is written only over the row the call created.
FinishMutant(r) ==
    /\ up /\ call[r] = "finishing"
    /\ call' = [call EXCEPT ![r] = "done"]
    /\ row' = IF row[r].status = "Queued" THEN [row EXCEPT ![r] = outcome[r]] ELSE row
    /\ UNCHANGED <<outcome, remoteVars, passVars, up, crashes>>

\* RunRepository::finish; a refused transition is returned as an error.
Finish(r) ==
    /\ up /\ call[r] = "finishing"
    /\ call' = [call EXCEPT ![r] = "done"]
    /\ row' = IF run_transition(row[r].status, outcome[r].status)
              THEN [row EXCEPT ![r] = outcome[r]]
              ELSE row
    /\ UNCHANGED <<outcome, remoteVars, passVars, up, crashes>>

(***************************************************************************)
(* run_reconcile. The `reconciling' set lets one call at a time pass for a *)
(* host; the others return Ok(0) and change nothing.                       *)
(***************************************************************************)

\* The call returns: ReconcileGuard gives the host back, its locals are gone.
PassEnds ==
    /\ pass' = "idle"
    /\ todo' = {} /\ cleanup' = {}
    /\ probes' = [r \in Runs |-> NotProbed]

ReconcileStart ==
    /\ up /\ pass = "idle"
    /\ pass' = "probing"
    /\ todo' = list_reconcilable_by_host
    /\ UNCHANGED <<row, callVars, remoteVars, probes, cleanup, up, crashes>>

(* What the probe command prints for a run and reconcile_remote_runs makes *)
(* of it. The marker is looked for first, the live pane of a Background    *)
(* session second; a script that ends in between looks unknown, and so     *)
(* does a marker that cannot be read or whose line does not parse.         *)
ProbeAnswers(r) ==
    CASE remote[r] = "recorded" ->
            {[state |-> "Completed", exit |-> code[r]],
             [state |-> "Unknown", exit |-> NoExit]}
      [] remote[r] = "running" /\ r \in Background ->
            {[state |-> s, exit |-> NoExit] : s \in {"Running", "Unknown"}}
      [] OTHER -> {[state |-> "Unknown", exit |-> NoExit]}

Batch == Newest(todo, BatchSize)

ProbeAnswered ==
    /\ up /\ pass = "probing" /\ todo # {}
    /\ \E answer \in [Batch -> UNION {ProbeAnswers(r) : r \in Batch}] :
          /\ \A r \in Batch : answer[r] \in ProbeAnswers(r)
          /\ probes' = [r \in Runs |-> IF r \in Batch THEN answer[r] ELSE probes[r]]
    /\ todo' = todo \ Batch
    /\ UNCHANGED <<row, callVars, remoteVars, pass, cleanup, up, crashes>>

\* The batch's probe failed: its rows are left alone.
ProbeFailed ==
    /\ up /\ pass = "probing" /\ todo # {}
    /\ todo' = todo \ Batch
    /\ UNCHANGED <<row, callVars, remoteVars, pass, probes, cleanup, up, crashes>>

Probed == {r \in Runs : probes[r].state # "NotProbed"}
Completed == {r \in Runs : probes[r].state = "Completed"}

(* finish_batch: one transaction over all answers. A single refused        *)
(* transition rolls all of it back and returns before any cleanup.         *)
BatchAccepted ==
    \A r \in Probed : run_transition(row[r].status, reconciled_run_fields(probes[r]).status)

finish_batch ==
    /\ up /\ pass = "probing" /\ todo = {} /\ BatchAccepted
    /\ row' = [r \in Runs |-> IF r \in Probed THEN reconciled_run_fields(probes[r]) ELSE row[r]]
    /\ cleanup' = Completed
    /\ pass' = "cleaning"
    /\ UNCHANGED <<callVars, remoteVars, todo, probes, up, crashes>>

\* Mutant: the error of the transaction does not stop the cleanup.
BatchRolledBackMutant ==
    /\ up /\ pass = "probing" /\ todo = {} /\ ~BatchAccepted
    /\ cleanup' = Completed
    /\ pass' = "cleaning"
    /\ UNCHANGED <<row, callVars, remoteVars, todo, probes, up, crashes>>

BatchRolledBack ==
    /\ up /\ pass = "probing" /\ todo = {} /\ ~BatchAccepted
    /\ PassEnds
    /\ UNCHANGED <<row, callVars, remoteVars, up, crashes>>

\* cleanup_remote_run_metadata, whose error is ignored.
Cleanup(r, removed) ==
    /\ up /\ pass = "cleaning" /\ Newest(cleanup, 1) = {r}
    /\ cleanup' = cleanup \ {r}
    /\ remote' = IF removed THEN [remote EXCEPT ![r] = "cleaned"] ELSE remote
    /\ UNCHANGED <<row, callVars, code, pass, todo, probes, up, crashes>>

ReconcileEnd ==
    /\ up /\ pass = "cleaning" /\ cleanup = {}
    /\ PassEnds
    /\ UNCHANGED <<row, callVars, remoteVars, up, crashes>>

(***************************************************************************)
(* The desktop process stops and is started again.                         *)
(***************************************************************************)

Crash ==
    /\ up /\ crashes < MaxCrashes
    /\ up' = FALSE
    /\ crashes' = crashes + 1
    /\ call' = [r \in Runs |-> IF call[r] \in {"idle", "done"} THEN call[r] ELSE "gone"]
    /\ PassEnds
    /\ UNCHANGED <<row, outcome, remoteVars>>

\* AppState::open runs recover_orphaned_quick_runs before anything else.
Restart ==
    /\ ~up
    /\ up' = TRUE
    /\ row' = [r \in Runs |->
                 IF r \notin Background /\ row[r].status \in {"Queued", "Running"}
                 THEN [row[r] EXCEPT !.status = "Unknown"] ELSE row[r]]
    /\ UNCHANGED <<callVars, remoteVars, passVars, crashes>>

RemoteStep(r) ==
    \/ RemoteStart(r) \/ RemoteRefuse(r) \/ MarkerFails(r) \/ RemoteDie(r)
    \/ \E c \in Codes : RemoteFinish(r, c) \/ LauncherFails(r, c)

RunAction(r) ==
    \/ Create(r) \/ FailBeforeDispatch(r) \/ Dispatch(r)
    \/ ReceiveRejection(r) \/ ReceiveExit(r) \/ ReceiveLaunched(r) \/ ResultLost(r)
    \/ Finish(r)

Reconcile ==
    \/ ReconcileStart \/ ProbeAnswered \/ ProbeFailed
    \/ finish_batch \/ BatchRolledBack
    \/ \E r \in Runs, removed \in BOOLEAN : Cleanup(r, removed)
    \/ ReconcileEnd

Next ==
    \/ \E r \in Runs : RemoteStep(r) \/ RunAction(r)
    \/ Reconcile
    \/ Crash \/ Restart

\* A database write that is due is made: both writers hold the lock only for
\* the write, with no await inside.
Fairness ==
    /\ WF_vars(finish_batch)
    /\ WF_vars(BatchRolledBack)
    /\ \A r \in Runs : WF_vars(Finish(r))

Spec == Init /\ [][Next]_vars /\ Fairness

-----------------------------------------------------------------------------
(* Correctness.                                                            *)

\* Type invariant.
RunTypeOK ==
    /\ row \in [Runs -> Rows]
    /\ call \in [Runs -> {"idle", "opening", "waiting", "finishing", "done", "gone"}]
    /\ outcome \in [Runs -> Rows]
    /\ remote \in [Runs -> Phases]
    /\ code \in [Runs -> Exits]
    /\ pass \in {"idle", "probing", "cleaning"}
    /\ todo \subseteq Runs /\ cleanup \subseteq Runs
    /\ probes \in [Runs -> Probes]
    /\ up \in BOOLEAN
    /\ crashes \in 0 .. MaxCrashes

\* A result that agrees with what happened on the host.
Truthful(r, result) ==
    /\ result.status = "Succeeded" =>
          remote[r] \in {"recorded", "cleaned"} /\ code[r] = 0 /\ result.exit = 0
    /\ result.status = "Failed" =>
          IF result.exit = NoExit THEN remote[r] \in {"none", "refused"}
          ELSE code[r] = result.exit /\ code[r] # 0

(* Run History never misreports: a Succeeded row means that the remote     *)
(* command itself ended with zero (a launcher's or transport's success is  *)
(* not enough), a Failed row with a code that the wrapper or the launcher  *)
(* ended with that code, and a Failed row without one that the command did *)
(* not begin, now or later. However the two writers, lost answers and      *)
(* restarts interleave.                                                    *)
HistoryIsTrue == \A r \in Runs : Truthful(r, row[r])

(* The remote evidence of a run is removed only once its row is settled    *)
(* for good: a crash, a rolled-back batch or a late run_action never       *)
(* leaves a run unresolved with its markers gone.                          *)
CleanedIsSettled ==
    \A r \in Runs : remote[r] = "cleaned" => row[r].status \in Terminal /\ row[r].exit = code[r]

(* What the call itself observed survives a pass that listed the row       *)
(* earlier and writes later, in either order: after run_action returns, an *)
(* exit code it saw is the one in the row.                                 *)
ObservedIsKept ==
    \A r \in Runs : call[r] = "done" /\ outcome[r].status \in Terminal => row[r] = outcome[r]

(* A settled result never changes, neither its status nor its exit code:   *)
(* not by a pass whose probe is older than the result, not by the late end *)
(* of the call, not by start-up recovery.                                  *)
SettledResultIsFinal ==
    [][\A r \in Runs : row[r].status \in Terminal => row'[r] = row[r]]_vars

\* Limit newer runs are unresolved, so that no pass lists r.
Crowded(r) ==
    Cardinality({q \in Runs : q > r /\ row[q].status \in Reconcilable}) >= Limit

\* A probe does not see the marker that a run has left.
Misread ==
    ProbeAnswered /\ \E r \in Batch :
        remote[r] = "recorded" /\ probes'[r].state = "Unknown"

(* A run that left its exit marker does not stay unresolved, whatever was  *)
(* lost, rolled back or restarted before, if passes go on and their probes *)
(* come to be answered and read - and as long as it is not crowded out:    *)
(* newer rows that can never be resolved keep their places in the list,    *)
(* and behind Limit of them a run stays unresolved for good.               *)
RecordedIsSettled ==
    []<><<ProbeAnswered>>_vars /\ ~[]<><<ProbeFailed>>_vars /\ ~[]<><<Misread>>_vars =>
        \A r \in Runs :
            []<>(\/ remote[r] # "recorded" \/ row[r].status \in Terminal
                 \/ Crowded(r))

=============================================================================
