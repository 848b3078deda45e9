----------------------- MODULE RunsAndTerminalsProofs -----------------------
(*****************************************************************************)
(* Two components whose proofs share no definition: Run History and the      *)
(* local terminals.                                                          *)
(*                                                                           *)
(* Run History is true, final and never orphaned, for any number of runs,    *)
(* any limits and any number of restarts. None of the properties is          *)
(* inductive: what a write may do to a row depends on what its writer        *)
(* learned earlier. IInv adds that what is in flight (the outcome of a call, *)
(* the answers of a probe, the cleanup list) is as true as what is stored,   *)
(* because the remote facts it rests on are stable.                          *)
(*                                                                           *)
(* Local terminals: the registry, the shells and the event streams agree,    *)
(* for any number of callers, terminals, subscriptions and any limits.       *)
(* PtyInv adds whose hands a terminal is in at every step of a command, and  *)
(* for every terminal where each of its events is: in the reader's hand, in  *)
(* the backlog or in one stream; where no subscribe overlapped an emit, the  *)
(* backlog or the subscriber's stream ends with the last event placed.       *)
(*****************************************************************************)
EXTENDS RunLifecycle, LocalPty, TLAPS, FiniteSetTheorems

\* Exit codes appear with the end of the wrapper or of the launcher.
CodesFit ==
    \A r \in Runs :
        /\ remote[r] \in {"none", "requested", "running"} => code[r] = NoExit
        /\ remote[r] \in {"recorded", "cleaned"} => code[r] # NoExit
        /\ remote[r] \in {"refused", "dead"} => code[r] # 0

\* Until the dispatch nothing exists on the host and nothing is settled.
NotYetDispatched ==
    \A r \in Runs : call[r] \in {"idle", "opening"} =>
        remote[r] = "none" /\ row[r].status \notin Terminal

\* A call that has begun has created its row.
CallsHaveRows ==
    \A r \in Runs :
        /\ call[r] # "idle" => row[r].status # "Absent"
        /\ call[r] \in {"finishing", "done"} => outcome[r].status # "Absent"

\* The outcome a call has concluded is true.
OutcomesTrue ==
    \A r \in Runs : call[r] \in {"finishing", "done"} => Truthful(r, outcome[r])

\* Before its own call has written, only a recorded exit settles a row.
SettledEarlyIsRecorded ==
    \A r \in Runs : call[r] \in {"waiting", "finishing"} /\ row[r].status \in Terminal =>
        remote[r] \in {"recorded", "cleaned"} /\ row[r].exit = code[r]

\* An answered Completed stays correct: the marker does not change.
ProbesTrue ==
    \A r \in Runs : probes[r].state = "Completed" =>
        remote[r] \in {"recorded", "cleaned"} /\ probes[r].exit = code[r]

\* Only settled runs are on the cleanup list.
CleanupIsSettled ==
    \A r \in cleanup :
        remote[r] \in {"recorded", "cleaned"} /\ row[r].status \in Terminal /\
              row[r].exit = code[r]

IInv ==
    /\ RunTypeOK /\ CodesFit /\ NotYetDispatched /\ CallsHaveRows /\ OutcomesTrue
    /\ SettledEarlyIsRecorded /\ ProbesTrue /\ CleanupIsSettled
    /\ HistoryIsTrue /\ CleanedIsSettled /\ ObservedIsKept

-----------------------------------------------------------------------------
(* The two writers agree: a true terminal result of a run that ended with  *)
(* a recorded exit is determined by the exit code.                         *)
LEMMA TrueResultsAgree ==
    ASSUME NEW r \in Runs, NEW a \in Rows, NEW b \in Rows,
           Truthful(r, a), Truthful(r, b),
           a.status \in Terminal, b.status \in Terminal,
           remote[r] \in {"recorded", "cleaned"}
    PROVE  a = b
BY DEF Truthful, Terminal, Rows

(* LIMIT and the batches only select.                                      *)
LEMMA NewestSelects ==
    ASSUME NEW S, NEW n PROVE Newest(S, n) \subseteq S
BY DEF Newest

(* A probe that answers Completed reports the recorded exit code.          *)
LEMMA AnswersFit ==
    ASSUME RunTypeOK, CodesFit, NEW r \in Runs, NEW a \in ProbeAnswers(r)
    PROVE  /\ a \in Probes
           /\ a.state = "Completed" => remote[r] = "recorded" /\ a.exit = code[r]
BY DEF RunTypeOK, CodesFit, ProbeAnswers, Probes, ProbeStates, Exits

(* What a pass writes for a Completed probe is true.                       *)
LEMMA FieldsAreTrue ==
    ASSUME RunTypeOK, CodesFit, ProbesTrue, NEW r \in Runs, probes[r].state # "NotProbed"
    PROVE  LET fields == reconciled_run_fields(probes[r])
           IN  /\ fields \in Rows
               /\ Truthful(r, fields)
               /\ fields.status \in Terminal =>
                     probes[r].state = "Completed" /\ fields.exit = code[r]
               /\ probes[r].state = "Completed" => fields.status \in Terminal
BY RunAssumption DEF RunTypeOK, Rows, Row, Exits, Statuses, Reconcilable, Terminal,
   Phases, Probes, ProbeStates, NotProbed, CodesFit, ProbesTrue, reconciled_run_fields,
   Truthful

(* A transaction that is accepted rewrites a settled row only with itself. *)
LEMMA SettledRowKept ==
    ASSUME RunTypeOK, CodesFit, ProbesTrue, HistoryIsTrue, BatchAccepted,
           NEW r \in Runs, row[r].status \in Terminal
    PROVE  (IF r \in Probed THEN reconciled_run_fields(probes[r]) ELSE row[r]) = row[r]
<1> SUFFICES ASSUME r \in Probed PROVE reconciled_run_fields(probes[r]) = row[r]
  OBVIOUS
<1>1. reconciled_run_fields(probes[r]).status = row[r].status
  BY DEF BatchAccepted, run_transition, Terminal
<1>2. probes[r].state = "Completed" /\ remote[r] \in {"recorded", "cleaned"}
  BY <1>1, FieldsAreTrue DEF Probed, ProbesTrue
<1> QED BY <1>1, <1>2, FieldsAreTrue, TrueResultsAgree DEF Probed, HistoryIsTrue, RunTypeOK

(* The answers a pass starts with say nothing.                             *)
LEMMA NothingProbed ==
    /\ [r \in Runs |-> NotProbed] \in [Runs -> Probes]
    /\ \A r \in Runs : [q \in Runs |-> NotProbed][r].state # "Completed"
BY DEF NotProbed, Probes, ProbeStates, Exits

(* The initial state is a history without rows.                            *)
LEMMA InitEstablishes == Init => IInv
BY RunAssumption DEF Init, IInv, RunTypeOK, Rows, Row, Exits, Statuses, Reconcilable,
   Terminal, Phases, Probes, ProbeStates, NotProbed, CodesFit, NotYetDispatched,
   CallsHaveRows, OutcomesTrue, SettledEarlyIsRecorded, ProbesTrue, CleanupIsSettled,
   HistoryIsTrue, CleanedIsSettled, ObservedIsKept, Truthful

(* The remote host moves: what is stored or in flight stays true because   *)
(* nothing that rests on an end of the command exists before that end.     *)
LEMMA RemoteStepPreserves ==
    ASSUME IInv, NEW r \in Runs, RemoteStep(r)
    PROVE  IInv'
<1> USE DEF Rows, Row, Exits, Statuses, Reconcilable, Terminal, Phases, Probes,
      ProbeStates, NotProbed
<1> USE DEF IInv, callVars, passVars
<1>1. CASE RemoteStart(r)
  <2>1. RunTypeOK'
    BY RunAssumption, <1>1 DEF RemoteStart, RunTypeOK
  <2>2. (CodesFit /\ NotYetDispatched /\ CallsHaveRows /\ OutcomesTrue /\
        SettledEarlyIsRecorded)'
    BY RunAssumption, <1>1 DEF RemoteStart, RunTypeOK, CodesFit, NotYetDispatched,
       CallsHaveRows, OutcomesTrue, SettledEarlyIsRecorded, Truthful
  <2>3. (ProbesTrue /\ CleanupIsSettled /\ HistoryIsTrue /\ CleanedIsSettled /\
        ObservedIsKept)'
    BY RunAssumption, <1>1 DEF RemoteStart, RunTypeOK, CodesFit, NotYetDispatched,
       CallsHaveRows, OutcomesTrue, SettledEarlyIsRecorded, ProbesTrue,
       CleanupIsSettled, HistoryIsTrue, CleanedIsSettled, ObservedIsKept, Truthful
  <2> QED BY <2>1, <2>2, <2>3
<1>2. CASE RemoteRefuse(r)
  <2>1. RunTypeOK'
    BY RunAssumption, <1>2 DEF RemoteRefuse, RunTypeOK
  <2>2. (CodesFit /\ NotYetDispatched /\ CallsHaveRows /\ OutcomesTrue /\
        SettledEarlyIsRecorded)'
    BY RunAssumption, <1>2 DEF RemoteRefuse, RunTypeOK, CodesFit, NotYetDispatched,
       CallsHaveRows, OutcomesTrue, SettledEarlyIsRecorded, Truthful
  <2>3. (ProbesTrue /\ CleanupIsSettled /\ HistoryIsTrue /\ CleanedIsSettled /\
        ObservedIsKept)'
    BY RunAssumption, <1>2 DEF RemoteRefuse, RunTypeOK, CodesFit, NotYetDispatched,
       CallsHaveRows, OutcomesTrue, SettledEarlyIsRecorded, ProbesTrue,
       CleanupIsSettled, HistoryIsTrue, CleanedIsSettled, ObservedIsKept, Truthful
  <2> QED BY <2>1, <2>2, <2>3
<1>3. CASE MarkerFails(r)
  <2>1. RunTypeOK'
    BY RunAssumption, <1>3 DEF MarkerFails, RunTypeOK, MarkerFailure
  <2>2. (CodesFit /\ NotYetDispatched /\ CallsHaveRows /\ OutcomesTrue /\
        SettledEarlyIsRecorded)'
    BY RunAssumption, <1>3 DEF MarkerFails, RunTypeOK, CodesFit, NotYetDispatched,
       CallsHaveRows, OutcomesTrue, SettledEarlyIsRecorded, Truthful, MarkerFailure
  <2>3. (ProbesTrue /\ CleanupIsSettled /\ HistoryIsTrue /\ CleanedIsSettled /\
        ObservedIsKept)'
    BY RunAssumption, <1>3 DEF MarkerFails, RunTypeOK, CodesFit, NotYetDispatched,
       CallsHaveRows, OutcomesTrue, SettledEarlyIsRecorded, ProbesTrue,
       CleanupIsSettled, HistoryIsTrue, CleanedIsSettled, ObservedIsKept, Truthful,
       MarkerFailure
  <2> QED BY <2>1, <2>2, <2>3
<1>4. CASE RemoteDie(r)
  <2>1. RunTypeOK'
    BY RunAssumption, <1>4 DEF RemoteDie, RunTypeOK
  <2>2. (CodesFit /\ NotYetDispatched /\ CallsHaveRows /\ OutcomesTrue /\
        SettledEarlyIsRecorded)'
    BY RunAssumption, <1>4 DEF RemoteDie, RunTypeOK, CodesFit, NotYetDispatched,
       CallsHaveRows, OutcomesTrue, SettledEarlyIsRecorded, Truthful
  <2>3. (ProbesTrue /\ CleanupIsSettled /\ HistoryIsTrue /\ CleanedIsSettled /\
        ObservedIsKept)'
    BY RunAssumption, <1>4 DEF RemoteDie, RunTypeOK, CodesFit, NotYetDispatched,
       CallsHaveRows, OutcomesTrue, SettledEarlyIsRecorded, ProbesTrue,
       CleanupIsSettled, HistoryIsTrue, CleanedIsSettled, ObservedIsKept, Truthful
  <2> QED BY <2>1, <2>2, <2>3
<1>5. ASSUME NEW c \in Codes, RemoteFinish(r, c) PROVE IInv'
  <2>1. RunTypeOK'
    BY RunAssumption, <1>5 DEF RemoteFinish, RunTypeOK
  <2>2. (CodesFit /\ NotYetDispatched /\ CallsHaveRows /\ OutcomesTrue /\
        SettledEarlyIsRecorded)'
    BY RunAssumption, <1>5 DEF RemoteFinish, RunTypeOK, CodesFit, NotYetDispatched,
       CallsHaveRows, OutcomesTrue, SettledEarlyIsRecorded, Truthful
  <2>3. (ProbesTrue /\ CleanupIsSettled /\ HistoryIsTrue /\ CleanedIsSettled /\
        ObservedIsKept)'
    BY RunAssumption, <1>5 DEF RemoteFinish, RunTypeOK, CodesFit, NotYetDispatched,
       CallsHaveRows, OutcomesTrue, SettledEarlyIsRecorded, ProbesTrue,
       CleanupIsSettled, HistoryIsTrue, CleanedIsSettled, ObservedIsKept, Truthful
  <2> QED BY <2>1, <2>2, <2>3
<1>6. ASSUME NEW c \in Codes, LauncherFails(r, c) PROVE IInv'
  <2>1. RunTypeOK'
    BY RunAssumption, <1>6 DEF LauncherFails, RunTypeOK
  <2>2. (CodesFit /\ NotYetDispatched /\ CallsHaveRows /\ OutcomesTrue /\
        SettledEarlyIsRecorded)'
    BY RunAssumption, <1>6 DEF LauncherFails, RunTypeOK, CodesFit, NotYetDispatched,
       CallsHaveRows, OutcomesTrue, SettledEarlyIsRecorded, Truthful
  <2>3. (ProbesTrue /\ CleanupIsSettled /\ HistoryIsTrue /\ CleanedIsSettled /\
        ObservedIsKept)'
    BY RunAssumption, <1>6 DEF LauncherFails, RunTypeOK, CodesFit, NotYetDispatched,
       CallsHaveRows, OutcomesTrue, SettledEarlyIsRecorded, ProbesTrue,
       CleanupIsSettled, HistoryIsTrue, CleanedIsSettled, ObservedIsKept, Truthful
  <2> QED BY <2>1, <2>2, <2>3
<1> QED BY <1>1, <1>2, <1>3, <1>4, <1>5, <1>6 DEF RemoteStep

(* A call concludes only what it learned, and writes it only where the     *)
(* transition table lets it.                                               *)
LEMMA RunActionPreserves ==
    ASSUME IInv, NEW r \in Runs, RunAction(r)
    PROVE  IInv'
<1> USE DEF Rows, Row, Exits, Statuses, Reconcilable, Terminal, Phases, Probes,
      ProbeStates, NotProbed
<1> USE DEF IInv, remoteVars, passVars
<1>1. CASE Create(r)
  <2>1. RunTypeOK'
    BY RunAssumption, <1>1 DEF Create, RunTypeOK
  <2>2. (CodesFit /\ NotYetDispatched /\ CallsHaveRows /\ OutcomesTrue /\
        SettledEarlyIsRecorded)'
    BY RunAssumption, <1>1 DEF Create, RunTypeOK, CodesFit, NotYetDispatched,
       CallsHaveRows, OutcomesTrue, SettledEarlyIsRecorded, Truthful
  <2>3. (ProbesTrue /\ CleanupIsSettled /\ HistoryIsTrue /\ CleanedIsSettled /\
        ObservedIsKept)'
    BY RunAssumption, <1>1 DEF Create, RunTypeOK, CodesFit, NotYetDispatched,
       CallsHaveRows, OutcomesTrue, SettledEarlyIsRecorded, ProbesTrue,
       CleanupIsSettled, HistoryIsTrue, CleanedIsSettled, ObservedIsKept, Truthful
  <2> QED BY <2>1, <2>2, <2>3
<1>2. CASE FailBeforeDispatch(r)
  <2>1. RunTypeOK'
    BY RunAssumption, <1>2 DEF FailBeforeDispatch, Concludes, RunTypeOK
  <2>2. (CodesFit /\ NotYetDispatched /\ CallsHaveRows /\ OutcomesTrue /\
        SettledEarlyIsRecorded)'
    BY RunAssumption, <1>2 DEF FailBeforeDispatch, Concludes, RunTypeOK, CodesFit,
       NotYetDispatched, CallsHaveRows, OutcomesTrue, SettledEarlyIsRecorded, Truthful
  <2>3. (ProbesTrue /\ CleanupIsSettled /\ HistoryIsTrue /\ CleanedIsSettled /\
        ObservedIsKept)'
    BY RunAssumption, <1>2 DEF FailBeforeDispatch, Concludes, RunTypeOK, CodesFit,
       NotYetDispatched, CallsHaveRows, OutcomesTrue, SettledEarlyIsRecorded,
       ProbesTrue, CleanupIsSettled, HistoryIsTrue, CleanedIsSettled, ObservedIsKept,
       Truthful
  <2> QED BY <2>1, <2>2, <2>3
<1>3. CASE Dispatch(r)
  <2>1. RunTypeOK'
    BY RunAssumption, <1>3 DEF Dispatch, RunTypeOK
  <2>2. (CodesFit /\ NotYetDispatched /\ CallsHaveRows /\ OutcomesTrue /\
        SettledEarlyIsRecorded)'
    BY RunAssumption, <1>3 DEF Dispatch, RunTypeOK, CodesFit, NotYetDispatched,
       CallsHaveRows, OutcomesTrue, SettledEarlyIsRecorded, Truthful
  <2>3. (ProbesTrue /\ CleanupIsSettled /\ HistoryIsTrue /\ CleanedIsSettled /\
        ObservedIsKept)'
    BY RunAssumption, <1>3 DEF Dispatch, RunTypeOK, CodesFit, NotYetDispatched,
       CallsHaveRows, OutcomesTrue, SettledEarlyIsRecorded, ProbesTrue,
       CleanupIsSettled, HistoryIsTrue, CleanedIsSettled, ObservedIsKept, Truthful
  <2> QED BY <2>1, <2>2, <2>3
<1>4. CASE ReceiveRejection(r)
  <2>1. RunTypeOK'
    BY RunAssumption, <1>4 DEF ReceiveRejection, Concludes, RunTypeOK
  <2>2. (CodesFit /\ NotYetDispatched /\ CallsHaveRows /\ OutcomesTrue /\
        SettledEarlyIsRecorded)'
    BY RunAssumption, <1>4 DEF ReceiveRejection, Concludes, RunTypeOK, CodesFit,
       NotYetDispatched, CallsHaveRows, OutcomesTrue, SettledEarlyIsRecorded, Truthful
  <2>3. (ProbesTrue /\ CleanupIsSettled /\ HistoryIsTrue /\ CleanedIsSettled /\
        ObservedIsKept)'
    BY RunAssumption, <1>4 DEF ReceiveRejection, Concludes, RunTypeOK, CodesFit,
       NotYetDispatched, CallsHaveRows, OutcomesTrue, SettledEarlyIsRecorded,
       ProbesTrue, CleanupIsSettled, HistoryIsTrue, CleanedIsSettled, ObservedIsKept,
       Truthful
  <2> QED BY <2>1, <2>2, <2>3
<1>5. CASE ReceiveExit(r)
  <2>1. RunTypeOK'
    BY RunAssumption, <1>5 DEF ReceiveExit, Concludes, completed_run_status, RunTypeOK
  <2>2. Truthful(r, Row(completed_run_status(code[r]), code[r]))
    BY RunAssumption, <1>5 DEF ReceiveExit, completed_run_status, Row, Truthful,
       RunTypeOK, CodesFit, Exits, Phases
  <2>3. outcome'[r] = Row(completed_run_status(code[r]), code[r])
    BY <1>5 DEF ReceiveExit, Concludes, RunTypeOK
  <2>4. OutcomesTrue'
    BY <1>5, <2>2, <2>3 DEF ReceiveExit, Concludes, RunTypeOK, OutcomesTrue, Truthful
  <2>5. (CodesFit /\ NotYetDispatched /\ CallsHaveRows /\ SettledEarlyIsRecorded)'
    BY RunAssumption, <1>5 DEF ReceiveExit, Concludes, completed_run_status, RunTypeOK,
       CodesFit, NotYetDispatched, CallsHaveRows, OutcomesTrue, SettledEarlyIsRecorded
  <2>6. (ProbesTrue /\ CleanupIsSettled /\ HistoryIsTrue /\ CleanedIsSettled /\
        ObservedIsKept)'
    BY RunAssumption, <1>5 DEF ReceiveExit, Concludes, RunTypeOK, CodesFit,
       NotYetDispatched, CallsHaveRows, OutcomesTrue, SettledEarlyIsRecorded,
       ProbesTrue, CleanupIsSettled, HistoryIsTrue, CleanedIsSettled, ObservedIsKept,
       Truthful
  <2> QED BY <2>1, <2>4, <2>5, <2>6
<1>6. CASE ReceiveLaunched(r)
  <2>1. RunTypeOK'
    BY RunAssumption, <1>6 DEF ReceiveLaunched, Concludes, RunTypeOK
  <2>2. (CodesFit /\ NotYetDispatched /\ CallsHaveRows /\ OutcomesTrue /\
        SettledEarlyIsRecorded)'
    BY RunAssumption, <1>6 DEF ReceiveLaunched, Concludes, RunTypeOK, CodesFit,
       NotYetDispatched, CallsHaveRows, OutcomesTrue, SettledEarlyIsRecorded, Truthful
  <2>3. (ProbesTrue /\ CleanupIsSettled /\ HistoryIsTrue /\ CleanedIsSettled /\
        ObservedIsKept)'
    BY RunAssumption, <1>6 DEF ReceiveLaunched, Concludes, RunTypeOK, CodesFit,
       NotYetDispatched, CallsHaveRows, OutcomesTrue, SettledEarlyIsRecorded,
       ProbesTrue, CleanupIsSettled, HistoryIsTrue, CleanedIsSettled, ObservedIsKept,
       Truthful
  <2> QED BY <2>1, <2>2, <2>3
<1>7. CASE ResultLost(r)
  <2>1. RunTypeOK'
    BY RunAssumption, <1>7 DEF ResultLost, Concludes, RunTypeOK
  <2>2. (CodesFit /\ NotYetDispatched /\ CallsHaveRows /\ OutcomesTrue /\
        SettledEarlyIsRecorded)'
    BY RunAssumption, <1>7 DEF ResultLost, Concludes, RunTypeOK, CodesFit,
       NotYetDispatched, CallsHaveRows, OutcomesTrue, SettledEarlyIsRecorded, Truthful
  <2>3. (ProbesTrue /\ CleanupIsSettled /\ HistoryIsTrue /\ CleanedIsSettled /\
        ObservedIsKept)'
    BY RunAssumption, <1>7 DEF ResultLost, Concludes, RunTypeOK, CodesFit,
       NotYetDispatched, CallsHaveRows, OutcomesTrue, SettledEarlyIsRecorded,
       ProbesTrue, CleanupIsSettled, HistoryIsTrue, CleanedIsSettled, ObservedIsKept,
       Truthful
  <2> QED BY <2>1, <2>2, <2>3
<1>8. CASE Finish(r)
  <2>1. RunTypeOK'
    BY <1>8 DEF Finish, RunTypeOK
  <2>2. row[r].status \in Terminal /\ outcome[r].status \in Terminal => row[r] = outcome[r]
    BY <1>8, TrueResultsAgree DEF Finish, RunTypeOK, OutcomesTrue, HistoryIsTrue,
       SettledEarlyIsRecorded
  <2>3. row[r].status \in Terminal => row' = row
    BY <1>8, <2>2 DEF Finish, run_transition, RunTypeOK
  <2>4. row[r].status \notin Terminal /\ outcome[r].status \in Terminal => row'[r] =
        outcome[r]
    <3>1. CASE outcome[r].status \in Terminal /\ row[r].status \in Reconcilable
      BY <1>8, <3>1 DEF Finish, run_transition, RunTypeOK, Terminal, Reconcilable
    <3>2. CASE row[r].status = "Absent"
      BY <1>8, <3>2 DEF Finish, run_transition, RunTypeOK, CallsHaveRows
    <3> QED BY <3>1, <3>2 DEF RunTypeOK, Rows, Statuses
  <2>5. ObservedIsKept'
    BY <1>8, <2>2, <2>3, <2>4 DEF Finish, RunTypeOK, ObservedIsKept
  <2>6. (CodesFit /\ NotYetDispatched /\ CallsHaveRows /\ OutcomesTrue /\
        SettledEarlyIsRecorded)'
    BY <1>8 DEF Finish, RunTypeOK, CodesFit, NotYetDispatched, CallsHaveRows,
       OutcomesTrue, SettledEarlyIsRecorded, Truthful
  <2>7. (HistoryIsTrue /\ ProbesTrue)'
    BY <1>8 DEF Finish, RunTypeOK, OutcomesTrue, ProbesTrue, HistoryIsTrue, Truthful
  <2>8. (CleanupIsSettled /\ CleanedIsSettled)'
    BY <1>8, <2>3 DEF Finish, RunTypeOK, CleanupIsSettled, CleanedIsSettled
  <2> QED BY <2>1, <2>5, <2>6, <2>7, <2>8
<1> QED BY <1>1, <1>2, <1>3, <1>4, <1>5, <1>6, <1>7, <1>8 DEF RunAction

(* A pass lists, asks, writes in one transaction, and only then removes    *)
(* remote evidence.                                                        *)
LEMMA ReconcilePreserves ==
    ASSUME IInv, Reconcile
    PROVE  IInv'
<1> USE DEF Rows, Row, Exits, Statuses, Reconcilable, Terminal, Phases, Probes,
      ProbeStates, NotProbed
<1> USE DEF IInv, callVars, remoteVars
<1>1. CASE ReconcileStart
  <2>1. list_reconcilable_by_host \subseteq Runs
    BY NewestSelects DEF list_reconcilable_by_host
  <2>2. RunTypeOK'
    BY <1>1, <2>1 DEF ReconcileStart, RunTypeOK
  <2> QED
    BY <1>1, <2>2 DEF ReconcileStart, CodesFit, NotYetDispatched, CallsHaveRows,
       OutcomesTrue, SettledEarlyIsRecorded, ProbesTrue, CleanupIsSettled,
       HistoryIsTrue, CleanedIsSettled, ObservedIsKept, Truthful
<1>2. CASE ProbeAnswered
  <2>1. Batch \subseteq Runs
    BY NewestSelects DEF Batch, RunTypeOK
  <2>2. PICK answer \in [Batch -> UNION {ProbeAnswers(r) : r \in Batch}] :
           /\ \A r \in Batch : answer[r] \in ProbeAnswers(r)
           /\ probes' = [r \in Runs |-> IF r \in Batch THEN answer[r] ELSE probes[r]]
    BY <1>2 DEF ProbeAnswered
  <2>3. RunTypeOK'
    BY <1>2, <2>1, <2>2, AnswersFit DEF ProbeAnswered, RunTypeOK
  <2>4. ProbesTrue'
    BY <1>2, <2>1, <2>2, AnswersFit DEF ProbeAnswered, ProbesTrue
  <2> QED
    BY <1>2, <2>3, <2>4 DEF ProbeAnswered, CodesFit, NotYetDispatched, CallsHaveRows,
       OutcomesTrue, SettledEarlyIsRecorded, CleanupIsSettled, HistoryIsTrue,
       CleanedIsSettled, ObservedIsKept, Truthful
<1>3. CASE ProbeFailed
  BY <1>3 DEF ProbeFailed, RunTypeOK, CodesFit, NotYetDispatched, CallsHaveRows,
     OutcomesTrue, SettledEarlyIsRecorded, ProbesTrue, CleanupIsSettled, HistoryIsTrue,
     CleanedIsSettled, ObservedIsKept, Truthful
<1>4. CASE finish_batch
  <2>1. RunTypeOK'
    BY <1>4, FieldsAreTrue DEF finish_batch, Probed, Completed, RunTypeOK
  <2>2. ASSUME NEW r \in Runs, row[r].status \in Terminal
        PROVE  row'[r] = row[r]
    BY <1>4, <2>2, SettledRowKept DEF finish_batch
  <2>3. ASSUME NEW r \in Runs, row'[r].status \in Terminal
        PROVE  row'[r] = row[r] \/ (r \in Completed /\ row'[r].exit = code[r])
    BY <1>4, <2>3, FieldsAreTrue DEF finish_batch, Probed, Completed
  <2>4. (CodesFit /\ OutcomesTrue /\ ProbesTrue)'
    BY <1>4 DEF finish_batch, CodesFit, OutcomesTrue, ProbesTrue, Truthful
  <2>5. (NotYetDispatched /\ SettledEarlyIsRecorded)'
    BY <1>4, <2>3 DEF finish_batch, Completed, NotYetDispatched, SettledEarlyIsRecorded,
       ProbesTrue
  <2>6. CallsHaveRows'
    BY <1>4 DEF finish_batch, BatchAccepted, Probed, run_transition, CallsHaveRows,
       reconciled_run_fields, Row, Terminal
  <2>7. HistoryIsTrue'
    BY <1>4, FieldsAreTrue DEF finish_batch, Probed, HistoryIsTrue, Truthful
  <2>8. CleanupIsSettled'
    BY <1>4, FieldsAreTrue DEF finish_batch, Probed, Completed, CleanupIsSettled, ProbesTrue
  <2>9. (CleanedIsSettled /\ ObservedIsKept)'
    BY <1>4, <2>2 DEF finish_batch, CleanedIsSettled, ObservedIsKept
  <2> QED BY <2>1, <2>4, <2>5, <2>6, <2>7, <2>8, <2>9
<1>5. CASE BatchRolledBack
  BY <1>5, NothingProbed DEF BatchRolledBack, PassEnds, RunTypeOK, CodesFit,
     NotYetDispatched, CallsHaveRows, OutcomesTrue, SettledEarlyIsRecorded, ProbesTrue,
     CleanupIsSettled, HistoryIsTrue, CleanedIsSettled, ObservedIsKept, Truthful
<1>6. ASSUME NEW r \in Runs, NEW removed \in BOOLEAN, Cleanup(r, removed) PROVE IInv'
  <2>1. r \in cleanup
    BY <1>6, NewestSelects DEF Cleanup
  <2>2. RunTypeOK'
    BY <1>6 DEF Cleanup, RunTypeOK, Phases
  <2>3. (CodesFit /\ NotYetDispatched /\ CallsHaveRows /\ OutcomesTrue /\
        SettledEarlyIsRecorded)'
    BY <1>6, <2>1 DEF Cleanup, RunTypeOK, CodesFit, NotYetDispatched, CallsHaveRows,
       OutcomesTrue, SettledEarlyIsRecorded, CleanupIsSettled, Truthful
  <2>4. (ProbesTrue /\ CleanupIsSettled /\ HistoryIsTrue /\ CleanedIsSettled /\
        ObservedIsKept)'
    BY <1>6, <2>1 DEF Cleanup, RunTypeOK, Phases, ProbesTrue, CleanupIsSettled,
       HistoryIsTrue, CleanedIsSettled, ObservedIsKept, Truthful
  <2> QED BY <2>2, <2>3, <2>4
<1>7. CASE ReconcileEnd
  BY <1>7, NothingProbed DEF ReconcileEnd, PassEnds, RunTypeOK, CodesFit,
     NotYetDispatched, CallsHaveRows, OutcomesTrue, SettledEarlyIsRecorded, ProbesTrue,
     CleanupIsSettled, HistoryIsTrue, CleanedIsSettled, ObservedIsKept, Truthful
<1> QED BY <1>1, <1>2, <1>3, <1>4, <1>5, <1>6, <1>7 DEF Reconcile

(* A stop loses what was in flight; the recovery at start-up touches no    *)
(* settled row.                                                            *)
LEMMA ProcessPreserves ==
    ASSUME IInv, Crash \/ Restart
    PROVE  IInv'
<1> USE DEF Rows, Row, Exits, Statuses, Reconcilable, Terminal, Phases, Probes,
      ProbeStates, NotProbed
<1> USE DEF IInv, callVars, remoteVars, passVars
<1>1. CASE Crash
  <2>1. RunTypeOK'
    <3>1. crashes' \in 0 .. MaxCrashes
      BY <1>1, RunAssumption DEF Crash, RunTypeOK
    <3> QED BY <1>1, <3>1, NothingProbed DEF Crash, PassEnds, RunTypeOK
  <2> QED
    BY <1>1, <2>1, NothingProbed DEF Crash, PassEnds, RunTypeOK, CodesFit,
       NotYetDispatched, CallsHaveRows, OutcomesTrue, SettledEarlyIsRecorded,
       ProbesTrue, CleanupIsSettled, HistoryIsTrue, CleanedIsSettled, ObservedIsKept,
       Truthful
<1>2. CASE Restart
  <2>1. RunTypeOK'
    BY <1>2 DEF Restart, RunTypeOK
  <2>2. (CodesFit /\ NotYetDispatched /\ CallsHaveRows /\ OutcomesTrue /\
        SettledEarlyIsRecorded)'
    BY <1>2 DEF Restart, RunTypeOK, CodesFit, NotYetDispatched, CallsHaveRows,
       OutcomesTrue, SettledEarlyIsRecorded, Truthful
  <2>3. (ProbesTrue /\ CleanupIsSettled /\ HistoryIsTrue /\ CleanedIsSettled /\
        ObservedIsKept)'
    BY <1>2 DEF Restart, RunTypeOK, ProbesTrue, CleanupIsSettled, HistoryIsTrue,
       CleanedIsSettled, ObservedIsKept, Truthful
  <2> QED BY <2>1, <2>2, <2>3
<1> QED BY <1>1, <1>2

(* Every step preserves the invariant.                                     *)
LEMMA NextPreserves == IInv /\ [Next]_vars => IInv'
<1> SUFFICES ASSUME IInv, [Next]_vars PROVE IInv'
  OBVIOUS
<1>1. CASE Next
  BY <1>1, RemoteStepPreserves, RunActionPreserves, ReconcilePreserves, ProcessPreserves
     DEF Next
<1>2. CASE UNCHANGED vars
  BY <1>2 DEF vars, callVars, remoteVars, passVars, IInv, RunTypeOK, CodesFit,
     NotYetDispatched, CallsHaveRows, OutcomesTrue, SettledEarlyIsRecorded, ProbesTrue,
     CleanupIsSettled, HistoryIsTrue, CleanedIsSettled, ObservedIsKept, Truthful
<1> QED BY <1>1, <1>2

(* The inductive invariant holds throughout.                               *)
THEOREM RunInvariant == Spec => []IInv
<1>1. Init => IInv
  BY InitEstablishes
<1>2. IInv /\ [Next]_vars => IInv'
  BY NextPreserves
<1> QED BY <1>1, <1>2, PTL DEF Spec

(* Run History stays well typed.                                           *)
THEOREM RunTypeCorrect == Spec => []RunTypeOK
<1>1. IInv => RunTypeOK
  BY DEF IInv
<1> QED BY <1>1, RunInvariant, PTL

(* Run History never misreports a remote command (commands.rs, run_action  *)
(* and run_reconcile), for any number of runs, restarts and passes.        *)
THEOREM HistoryAlwaysTrue == Spec => []HistoryIsTrue
<1>1. IInv => HistoryIsTrue
  BY DEF IInv
<1> QED BY <1>1, RunInvariant, PTL

(* Remote evidence is removed only after the row is settled.               *)
THEOREM CleanedAlwaysSettled == Spec => []CleanedIsSettled
<1>1. IInv => CleanedIsSettled
  BY DEF IInv
<1> QED BY <1>1, RunInvariant, PTL

(* An exit code the call observed is in the row when the call has returned.*)
THEOREM ObservedAlwaysKept == Spec => []ObservedIsKept
<1>1. IInv => ObservedIsKept
  BY DEF IInv
<1> QED BY <1>1, RunInvariant, PTL

(* No step changes a settled row.                                          *)
LEMMA StepKeepsSettled ==
    ASSUME IInv, [Next]_vars, NEW r \in Runs, row[r].status \in Terminal
    PROVE  row'[r] = row[r]
<1> USE DEF Rows, Row, Exits, Statuses, Reconcilable, Terminal, Phases, Probes,
      ProbeStates, NotProbed
<1> USE DEF IInv
<1>1. CASE \E q \in Runs : RemoteStep(q)
  BY <1>1 DEF RemoteStep, RemoteStart, RemoteRefuse, MarkerFails, RemoteDie,
     RemoteFinish, LauncherFails
<1>2. ASSUME NEW q \in Runs, RunAction(q) PROVE row'[r] = row[r]
  <2>1. CASE Create(q)
    BY <2>1 DEF Create, RunTypeOK, Terminal
  <2>2. CASE Finish(q)
    <3>1. CASE q = r
      <4>1. outcome[r].status \in Terminal => row[r] = outcome[r]
        BY <2>2, <3>1, TrueResultsAgree DEF Finish, RunTypeOK, OutcomesTrue,
           HistoryIsTrue, SettledEarlyIsRecorded
      <4> QED
        BY <2>2, <3>1, <4>1 DEF Finish, run_transition, RunTypeOK
    <3>2. CASE q # r
      BY <2>2, <3>2 DEF Finish, RunTypeOK
    <3> QED BY <3>1, <3>2
  <2> QED
    BY <1>2, <2>1, <2>2 DEF RunAction, FailBeforeDispatch, Dispatch, ReceiveRejection,
       ReceiveExit,
       ReceiveLaunched, ResultLost, Concludes
<1>3. CASE Reconcile
  <2>1. CASE finish_batch
    BY <2>1, SettledRowKept DEF finish_batch
  <2> QED
    BY <1>3, <2>1 DEF Reconcile, ReconcileStart, ProbeAnswered, ProbeFailed,
       BatchRolledBack, Cleanup, ReconcileEnd
<1>4. CASE Crash \/ Restart
  BY <1>4 DEF Crash, Restart, Terminal, RunTypeOK, Rows
<1>5. CASE UNCHANGED vars
  BY <1>5 DEF vars
<1> QED BY <1>1, <1>2, <1>3, <1>4, <1>5 DEF Next

(* A settled result never changes, whoever writes late.                    *)
THEOREM SettledResultsAreFinal == Spec => SettledResultIsFinal
<1>1. IInv /\ [Next]_vars => [\A r \in Runs : row[r].status \in Terminal => row'[r] =
      row[r]]_vars
  BY StepKeepsSettled
<1> QED BY <1>1, RunInvariant, PTL DEF Spec, SettledResultIsFinal

-----------------------------------------------------------------------------
\* ******************** Local terminals ********************

Commands == [pc : {"idle", "checked", "spawned", "inserted", "killing", "dropping", "shutdown"},
             id : Ids \cup {None}, todo : SUBSET Ids]
ReaderStates == [pc : {"none", "read", "reap", "clone", "send", "clear", "push", "end"},
                 event : Nat, sender : Subs \cup {None}, last : BOOLEAN]

\* The shape of every variable.
PtyTypes ==
    /\ TypeOK
    /\ command \in [Callers -> Commands]
    /\ reader \in [Ids -> ReaderStates]
    /\ emitted \in [Ids -> Nat]
    /\ subscriber \in [Ids -> Subs \cup {None}]
    /\ pending \in [Ids -> Seq(Nat)]
    /\ target \in [Subs -> Ids \cup {None}]
    /\ subscribed \in [Subs -> {"none", "set", "done"}]
    /\ receiver \in [Subs -> BOOLEAN]
    /\ stream \in [Subs -> Seq(Nat)]
    /\ taken \in [Subs -> Nat]

-----------------------------------------------------------------------------
(* The registry *)

\* An open has a terminal in hand that no other open has.
Holding(u) == command[u].pc \in {"spawned", "inserted"}

CommandsFit ==
    \A u \in Callers :
        /\ command[u].pc \in {"spawned", "inserted", "killing", "dropping"} =>
              command[u].id \in Ids /\ command[u].id < next_id
        /\ Holding(u) => reader[command[u].id].pc = "none"
        /\ \A v \in Callers : Holding(u) /\ Holding(v) /\ command[u].id = command[v].id => u = v

\* Numbers not given out yet name nothing.
FreshFit == \A t \in Ids : t >= next_id => t \notin hung_up \cup sessions /\ reader[t].pc = "none"

\* A running shell is registered, or in the hands of the open that will
\* register it, or of the close that will kill it, or its kill has failed and
\* its console is gone or about to go.
ShellsHeld ==
    \A t \in running :
        \/ t \in sessions
        \/ \E u \in Callers : command[u].pc \in {"spawned", "killing"} /\ command[u].id = t
        \/ /\ t \in hung_up
           /\ t \in master => \E u \in Callers : command[u].pc = "dropping" /\ command[u].id = t

\* A registered terminal without a reader is about to get one.
ReadersFollow ==
    \A t \in sessions :
        reader[t].pc # "none" \/ \E u \in Callers : command[u].pc = "inserted" /\ command[u].id = t

RegistryInv == CommandsFit /\ FreshFit /\ ShellsHeld /\ ReadersFollow

-----------------------------------------------------------------------------
(* The events of a terminal *)

\* How many events have left the reader's hands.
Placed(t) == IF Emitting(t) THEN emitted[t] - 1 ELSE emitted[t]

\* Queues of event numbers.
Below(q, n) == \A i \in 1 .. Len(q) : q[i] <= n
Increasing(q) == \A i, j \in 1 .. Len(q) : i < j => q[i] < q[j]
Distinct(q) == \A i, j \in 1 .. Len(q) : q[i] = q[j] => i = j
Apart(q, r) == \A i \in 1 .. Len(q), j \in 1 .. Len(r) : q[i] # r[j]
Block(q) == \A i \in 1 .. Len(q) - 1 : q[i + 1] = q[i] + 1
EndsAt(q, n) == q # <<>> => q[Len(q)] = n

\* Who the event in hand, its sender and the subscriber belong to.
OwnersAt(t) ==
    /\ Emitting(t) => reader[t].event = emitted[t] /\ emitted[t] >= 1
    /\ reader[t].pc \in {"send", "clear"} => reader[t].sender \in Subs /\ target[reader[t].sender] = t
    /\ subscriber[t] # None => target[subscriber[t]] = t

\* What is placed is old, the backlog is in order, and no event is in two
\* places.
OrderAt(t) ==
    /\ Below(pending[t], Placed(t)) /\ Increasing(pending[t])
    /\ \A s \in Subs : target[s] = t =>
          /\ Below(stream[s], Placed(t)) /\ Distinct(stream[s]) /\ Apart(stream[s], pending[t])
          /\ \A r \in Subs : target[r] = t /\ r # s => Apart(stream[s], stream[r])

\* Where no subscribe overlapped an emit: the backlog and the streams are blocks
\* of consecutive numbers, the backlog or the subscriber's stream ends with the
\* last event placed, and the reader sends to the subscriber there is.
WholeAt(t) ==
    /\ Block(pending[t]) /\ EndsAt(pending[t], Placed(t))
    /\ \A s \in Subs : target[s] = t =>
          /\ Block(stream[s])
          /\ subscribed[s] = "set" => /\ subscriber[t] = s /\ stream[s] = <<>>
                                      /\ reader[t].pc \notin {"send", "clear", "push"}
          /\ subscriber[t] = s /\ subscribed[s] = "done" =>
                pending[t] = <<>> /\ EndsAt(stream[s], Placed(t))
    /\ reader[t].pc \in {"send", "clear"} => reader[t].sender = subscriber[t]
    /\ reader[t].pc = "push" => subscriber[t] = None

EventsAt(t) == OwnersAt(t) /\ OrderAt(t) /\ (t \notin raced => WholeAt(t))

\* A subscription belongs to a terminal from its first step on, and its queue
\* holds at most EVENT_QUEUE events.
SubsFit ==
    \A s \in Subs :
        /\ s > subs => target[s] = None /\ subscribed[s] = "none" /\ stream[s] = <<>> /\ taken[s] = 0
        /\ s <= subs => target[s] \in Ids /\ subscribed[s] # "none"
        /\ subscribed[s] = "set" => taken[s] = 0
        /\ taken[s] <= Len(stream[s]) /\ Len(stream[s]) - taken[s] <= EventQueue

EventsInv == SubsFit /\ \A t \in Ids : EventsAt(t)

\* The inductive invariant of the local terminals.
PtyInv == PtyTypes /\ RegistryInv /\ EventsInv

-----------------------------------------------------------------------------
(* Basic facts *)

LEMMA PtyBasics ==
    /\ MaxId \in Nat /\ MaxSub \in Nat /\ MaxSessions \in Nat /\ MaxPending \in Nat /\ EventQueue \in Nat
    /\ MaxPending <= EventQueue /\ MaxPending >= 1 /\ None \notin Ids /\ None \notin Subs
    /\ \A l \in Loads : l.opens \in 0 .. MaxId /\ l.subs \in 0 .. MaxSub
BY LocalPtyAssumption DEF None, Ids, Subs

LEMMA IdleIsTyped == Idle \in Commands /\ Idle.pc = "idle" /\ Idle.todo = {}
BY DEF Idle, Commands, None

LEMMA NoReaderIsTyped ==
    /\ NoReader \in ReaderStates /\ NoReader.pc = "none" /\ NoReader.event = 0
    /\ NoReader.sender = None /\ NoReader.last = FALSE
BY DEF NoReader, ReaderStates, None

\* A set of terminals is finite.
LEMMA IdSetsAreFinite ==
    ASSUME NEW S \in SUBSET Ids
    PROVE  IsFiniteSet(S) /\ Cardinality(S) \in Nat
<1>1. IsFiniteSet(Ids)
  BY PtyBasics, FS_Interval DEF Ids
<1>2. IsFiniteSet(S)
  BY <1>1, FS_Subset
<1> QED BY <1>2, FS_CardinalityType

\* What a step of u does to the commands.
LEMMA CommandMoves ==
    ASSUME PtyTypes, NEW u \in Callers, NEW new \in Commands, command' = [command EXCEPT ![u] = new]
    PROVE  /\ command' \in [Callers -> Commands] /\ command'[u] = new
           /\ \A v \in Callers : v # u => command'[v] = command[v]
BY DEF PtyTypes

\* A command goes on at another place.
LEMMA GotoMoves ==
    ASSUME PtyTypes, NEW u \in Callers, NEW pc, Goto(u, pc),
           pc \in {"checked", "inserted", "dropping", "shutdown"}
    PROVE  \E new \in Commands : /\ command' = [command EXCEPT ![u] = new] /\ new.pc = pc
                                 /\ new.id = command[u].id /\ new.todo = command[u].todo
<1> DEFINE old == command[u]
           new == [old EXCEPT !.pc = pc]
<1>1. old \in Commands /\ command' = [command EXCEPT ![u] = new]
  BY DEF PtyTypes, Goto
<1> HIDE DEF old
<1>2. new \in Commands /\ new.pc = pc /\ new.id = old.id /\ new.todo = old.todo
  BY <1>1 DEF Commands
<1> HIDE DEF new
<1> QED BY <1>1, <1>2 DEF old

\* The registry keeps within its limit.
LEMMA RegistryIsBounded ==
    ASSUME PtyTypes,
           \/ sessions' \subseteq sessions
           \/ /\ Cardinality(sessions) < MaxSessions
              /\ \E t \in Ids : sessions' = sessions \cup {t}
    PROVE  sessions' \subseteq Ids /\ Cardinality(sessions') <= MaxSessions
<1>0. sessions \in SUBSET Ids /\ Cardinality(sessions) <= MaxSessions /\ MaxSessions \in Nat
  BY PtyBasics DEF PtyTypes, TypeOK
<1>1. IsFiniteSet(sessions) /\ Cardinality(sessions) \in Nat
  BY <1>0, IdSetsAreFinite
<1>2. CASE sessions' \subseteq sessions
  <2>1. sessions' \in SUBSET Ids
    BY <1>0, <1>2
  <2>2. Cardinality(sessions') <= Cardinality(sessions) /\ Cardinality(sessions') \in Nat
    BY <1>1, <1>2, <2>1, FS_Subset, IdSetsAreFinite
  <2> QED BY <1>0, <1>1, <2>1, <2>2
<1>3. ASSUME Cardinality(sessions) < MaxSessions, NEW t \in Ids, sessions' = sessions \cup {t}
      PROVE  sessions' \subseteq Ids /\ Cardinality(sessions') <= MaxSessions
  <2>1. Cardinality(sessions') \in {Cardinality(sessions), Cardinality(sessions) + 1}
    BY <1>1, <1>3, FS_AddElement
  <2> QED BY <1>0, <1>1, <1>3, <2>1
<1> QED BY <1>2, <1>3

-----------------------------------------------------------------------------
(* The steps of the commands *)

\* What a command may do to the ids that are held.
Advance(u, new) ==
    /\ new \in Commands
    /\ command' = [command EXCEPT ![u] = new]
    /\ new.pc \in {"spawned", "inserted", "killing", "dropping"} => new.id \in Ids /\ new.id < next_id'
    /\ \/ new.pc \notin {"spawned", "inserted"} /\ next_id' = next_id
       \/ Holding(u) /\ new.id = command[u].id /\ next_id' = next_id /\ reader' = reader
       \/ new.id = next_id /\ next_id' = next_id + 1 /\ reader' = reader
    /\ \A t \in Ids : \/ reader'[t].pc = reader[t].pc
                      \/ /\ reader'[t].pc # "none" /\ Holding(u) /\ t = command[u].id
                         /\ new.pc \notin {"spawned", "inserted"}
    /\ \/ hung_up' = hung_up
       \/ command[u].pc \in {"spawned", "inserted", "killing"} /\ hung_up' = hung_up \cup {command[u].id}
    /\ \/ sessions' \subseteq sessions
       \/ Holding(u) /\ sessions' = sessions \cup {command[u].id}

LEMMA AdvanceFits ==
    ASSUME PtyTypes, RegistryInv, NEW u \in Callers, NEW new, Advance(u, new)
    PROVE  CommandsFit' /\ FreshFit' /\ command' \in [Callers -> Commands]
<1> USE DEF Advance
<1>0. /\ command' \in [Callers -> Commands] /\ command'[u] = new
      /\ \A v \in Callers : v # u => command'[v] = command[v]
  BY CommandMoves
<1>1. CommandsFit /\ FreshFit /\ next_id \in Nat /\ \A t \in Ids : t \in Nat
  BY PtyBasics DEF RegistryInv, PtyTypes, TypeOK, Ids
<1>2. ASSUME NEW v \in Callers, v # u
      PROVE  /\ Holding(v)' = Holding(v)
             /\ command'[v].pc \in {"spawned", "inserted", "killing", "dropping"} =>
                   command'[v].id \in Ids /\ command'[v].id < next_id'
             /\ Holding(v) => /\ command[v].id \in Ids /\ command[v].id < next_id'
                              /\ reader'[command[v].id].pc = "none"
             /\ Holding(v) /\ Holding(u) => command[u].id # command[v].id
  BY <1>0, <1>1, <1>2 DEF CommandsFit, Holding
<1>3. Holding(u)' => /\ new.id \in Ids /\ new.id < next_id' /\ reader'[new.id].pc = "none"
                     /\ \A v \in Callers : Holding(v) /\ v # u => command[v].id # new.id
  BY <1>0, <1>1, <1>2 DEF CommandsFit, FreshFit, Holding
<1>4. CommandsFit'
  <2> SUFFICES ASSUME NEW v \in Callers
               PROVE  /\ command'[v].pc \in {"spawned", "inserted", "killing", "dropping"}
                            => command'[v].id \in Ids /\ command'[v].id < next_id'
                      /\ Holding(v)' => reader'[command'[v].id].pc = "none"
                      /\ \A w \in Callers :
                            Holding(v)' /\ Holding(w)' /\ command'[v].id = command'[w].id => v = w
    BY DEF CommandsFit, Holding
  <2>1. CASE v = u
    BY <1>0, <1>2, <1>3, <2>1
  <2>2. CASE v # u
    <3>1. /\ command'[v] = command[v] /\ Holding(v)' = Holding(v)
          /\ command'[v].pc \in {"spawned", "inserted", "killing", "dropping"} =>
                command'[v].id \in Ids /\ command'[v].id < next_id'
          /\ Holding(v) => reader'[command[v].id].pc = "none"
      BY <1>0, <1>2, <2>2
    <3>2. ASSUME NEW w \in Callers, Holding(v), Holding(w)', command[v].id = command'[w].id PROVE v = w
      <4>1. CASE w = u
        BY <1>0, <1>3, <2>2, <3>2, <4>1
      <4>2. CASE w # u
        BY <1>0, <1>1, <1>2, <3>2, <4>2 DEF CommandsFit
      <4> QED BY <4>1, <4>2
    <3> QED BY <3>1, <3>2
  <2> QED BY <2>1, <2>2
<1>5. FreshFit'
  BY <1>0, <1>1 DEF FreshFit, CommandsFit, Holding
<1> QED BY <1>0, <1>4, <1>5

\* The parts of TypeOK that a command can disturb.
LEMMA CommandTypes ==
    ASSUME PtyTypes, sessions' \subseteq Ids, Cardinality(sessions') <= MaxSessions,
           next_id' \in 1 .. MaxId + 1, command' \in [Callers -> Commands], reader' \in [Ids -> ReaderStates],
           master' \subseteq Ids, running' \subseteq Ids, lingering' \subseteq Ids, hung_up' \subseteq Ids,
           UNCHANGED <<load, emitted, sessionVars, subVars, raced>>
    PROVE  PtyTypes'
BY DEF PtyTypes, TypeOK, sessionVars, subVars

LEMMA OpenKeeps ==
    ASSUME PtyTypes, RegistryInv, NEW u \in Callers, OpenStep(u)
    PROVE  PtyTypes' /\ RegistryInv'
<1> USE DEF registryVars, consoleVars, emitVars
<1> DEFINE t == command[u].id
<1>0. /\ command[u] \in Commands /\ next_id \in 1 .. MaxId + 1 /\ reader \in [Ids -> ReaderStates]
      /\ sessions \subseteq Ids /\ Cardinality(sessions) <= MaxSessions
      /\ master \subseteq Ids /\ running \subseteq Ids /\ lingering \subseteq Ids /\ hung_up \subseteq Ids
      /\ CommandsFit /\ FreshFit /\ ShellsHeld /\ ReadersFollow /\ MaxId \in Nat
  BY PtyBasics DEF PtyTypes, TypeOK, RegistryInv
<1>1. CASE OpenCheck(u)
  <2>1. /\ command[u].pc = "idle" /\ Goto(u, "checked")
        /\ UNCHANGED <<load, sessions, next_id, consoleVars, emitVars, sessionVars, subVars, raced>>
    BY <1>1 DEF OpenCheck
  <2>2. PICK new \in Commands : command' = [command EXCEPT ![u] = new] /\ new.pc = "checked"
    BY <2>1, GotoMoves
  <2>30. Advance(u, new)
    BY <2>1, <2>2 DEF Advance, Holding
  <2>3. CommandsFit' /\ FreshFit' /\ command' \in [Callers -> Commands]
    BY <2>30, AdvanceFits
  <2>4. \A v \in Callers : command'[v].pc \in {"spawned", "killing", "inserted", "dropping"} \/
                           command[v].pc \in {"spawned", "killing", "inserted", "dropping"}
               => command'[v] = command[v]
    BY <2>1, <2>2, CommandMoves
  <2>5. ShellsHeld' /\ ReadersFollow'
    BY <1>0, <2>1, <2>4 DEF ShellsHeld, ReadersFollow
  <2> QED BY <1>0, <2>1, <2>3, <2>5, CommandTypes DEF RegistryInv
<1>2. CASE OpenFails(u)
  <2>1. /\ command[u].pc = "checked" /\ command' = [command EXCEPT ![u] = Idle]
        /\ UNCHANGED <<load, sessions, next_id, consoleVars, emitVars, sessionVars, subVars, raced>>
    BY <1>2 DEF OpenFails, Return
  <2>30. Advance(u, Idle)
    BY <2>1, IdleIsTyped DEF Advance, Holding
  <2>3. CommandsFit' /\ FreshFit' /\ command' \in [Callers -> Commands]
    BY <2>30, AdvanceFits
  <2>4. \A v \in Callers : command[v].pc \in {"spawned", "killing", "inserted", "dropping"}
               => command'[v] = command[v]
    BY <2>1, IdleIsTyped, CommandMoves
  <2>5. ShellsHeld' /\ ReadersFollow'
    BY <1>0, <2>1, <2>4 DEF ShellsHeld, ReadersFollow
  <2> QED BY <1>0, <2>1, <2>3, <2>5, CommandTypes DEF RegistryInv
<1>3. CASE OpenSpawn(u)
  <2> DEFINE old == command[u]
             new == [old EXCEPT !.pc = "spawned", !.id = next_id]
  <2>1. /\ command[u].pc = "checked" /\ next_id <= load.opens /\ next_id' = next_id + 1
        /\ master' = master \cup {next_id} /\ running' = running \cup {next_id}
        /\ lingering' \in {lingering, lingering \cup {next_id}}
        /\ command' = [command EXCEPT ![u].pc = "spawned", ![u].id = next_id]
        /\ UNCHANGED <<load, sessions, hung_up, emitVars, sessionVars, subVars, raced>>
    BY <1>3 DEF OpenSpawn
  <2>2. next_id \in Ids /\ next_id' \in 1 .. MaxId + 1 /\ next_id < next_id'
    BY <1>0, <2>1, PtyBasics DEF PtyTypes, TypeOK, Ids
  <2>3. command' = [command EXCEPT ![u] = new] /\ old \in Commands
    BY <1>0, <2>1 DEF PtyTypes
  <2> HIDE DEF old
  <2>4. new \in Commands /\ new.pc = "spawned" /\ new.id = next_id
    BY <2>2, <2>3 DEF Commands
  <2> HIDE DEF new
  <2>50. Advance(u, new)
    BY <2>1, <2>2, <2>3, <2>4 DEF Advance, Holding
  <2>5. CommandsFit' /\ FreshFit' /\ command' \in [Callers -> Commands]
    BY <2>50, AdvanceFits
  <2>6. /\ \A v \in Callers : command[v].pc \in {"spawned", "killing", "inserted", "dropping"}
               => command'[v] = command[v]
        /\ command'[u].pc = "spawned" /\ command'[u].id = next_id
    BY <2>1, <2>3, <2>4, CommandMoves
  <2>7. next_id \notin hung_up
    BY <1>0, <2>2 DEF FreshFit
  <2>9. ReadersFollow'
    <3>1. sessions' = sessions /\ reader' = reader /\ ReadersFollow
      BY <1>0, <2>1
    <3>2. \A v \in Callers : command[v].pc = "inserted" => command'[v] = command[v]
      BY <2>6
    <3> QED BY <3>1, <3>2 DEF ReadersFollow
  <2>8. ShellsHeld'
    <3> SUFFICES ASSUME NEW x \in running'
                 PROVE  \/ x \in sessions
                        \/ \E v \in Callers : command'[v].pc \in {"spawned", "killing"} /\ command'[v].id = x
                        \/ /\ x \in hung_up
                           /\ x \in master' =>
                                \E v \in Callers : command'[v].pc = "dropping" /\ command'[v].id = x
      BY <2>1 DEF ShellsHeld
    <3>1. CASE x = next_id
      BY <2>6, <3>1
    <3>2. CASE x # next_id
      <4>1. x \in running /\ (x \notin master => x \notin master')
        BY <2>1, <3>2
      <4> QED BY <1>0, <2>6, <4>1 DEF ShellsHeld
    <3> QED BY <3>1, <3>2
  <2> QED BY <1>0, <2>1, <2>2, <2>5, <2>8, <2>9, CommandTypes DEF RegistryInv
<1>4. CASE HandlesFail(u)
  <2>1. /\ command[u].pc = "spawned" /\ command' = [command EXCEPT ![u] = Idle]
        /\ master' = master \ {t} /\ hung_up' = hung_up \cup {t}
        /\ UNCHANGED <<load, sessions, next_id, running, lingering, emitVars, sessionVars, subVars, raced>>
    BY <1>4 DEF HandlesFail, Return
  <2>2. Holding(u) /\ t \in Ids
    BY <1>0, <2>1 DEF CommandsFit, Holding
  <2>30. Advance(u, Idle)
    BY <2>1, <2>2, IdleIsTyped DEF Advance, Holding
  <2>3. CommandsFit' /\ FreshFit' /\ command' \in [Callers -> Commands]
    BY <2>30, AdvanceFits
  <2>4. \A v \in Callers : command[v].pc \in {"spawned", "killing", "inserted", "dropping"} /\ v # u
            => command'[v] = command[v]
    BY <2>1, IdleIsTyped, CommandMoves
  <2>5. ShellsHeld' /\ ReadersFollow'
    BY <1>0, <2>1, <2>4 DEF ShellsHeld, ReadersFollow
  <2> QED BY <1>0, <2>1, <2>2, <2>3, <2>5, CommandTypes DEF RegistryInv
<1>5. CASE OpenInsert(u) /\ Cardinality(sessions) >= MaxSessions
  <2>1. /\ command[u].pc = "spawned" /\ command' = [command EXCEPT ![u] = Idle]
        /\ Kill(t) /\ master' = master \ {t}
        /\ UNCHANGED <<load, sessions, next_id, lingering, emitVars, sessionVars, subVars, raced>>
    BY <1>5 DEF OpenInsert, Return
  <2>2. /\ t \in Ids
        /\ \/ running' = running \ {t} /\ hung_up' = hung_up
           \/ hung_up' = hung_up \cup {t} /\ running' = running
    BY <1>0, <2>1 DEF Kill, CommandsFit
  <2>30. Advance(u, Idle)
    BY <2>1, <2>2, IdleIsTyped DEF Advance, Holding
  <2>3. CommandsFit' /\ FreshFit' /\ command' \in [Callers -> Commands]
    BY <2>30, AdvanceFits
  <2>4. \A v \in Callers : command[v].pc \in {"spawned", "killing", "inserted", "dropping"} /\ v # u
            => command'[v] = command[v]
    BY <2>1, IdleIsTyped, CommandMoves
  <2>5. ShellsHeld' /\ ReadersFollow'
    BY <1>0, <2>1, <2>2, <2>4 DEF ShellsHeld, ReadersFollow
  <2> QED BY <1>0, <2>1, <2>2, <2>3, <2>5, CommandTypes DEF RegistryInv
<1>6. CASE OpenInsert(u) /\ ~(Cardinality(sessions) >= MaxSessions)
  <2>1. /\ command[u].pc = "spawned" /\ Goto(u, "inserted") /\ sessions' = sessions \cup {t}
        /\ UNCHANGED <<load, next_id, consoleVars, emitVars, sessionVars, subVars, raced>>
    BY <1>6 DEF OpenInsert
  <2>2. PICK new \in Commands : /\ command' = [command EXCEPT ![u] = new] /\ new.pc = "inserted"
                                /\ new.id = t
    BY <2>1, GotoMoves
  <2>3. Holding(u) /\ t \in Ids /\ t < next_id
    BY <1>0, <2>1 DEF CommandsFit, Holding
  <2>40. Advance(u, new)
    BY <2>1, <2>2, <2>3 DEF Advance, Holding
  <2>4. CommandsFit' /\ FreshFit' /\ command' \in [Callers -> Commands]
    BY <2>40, AdvanceFits
  <2>5. /\ \A v \in Callers : command[v].pc \in {"spawned", "killing", "inserted", "dropping"} /\ v # u
               => command'[v] = command[v]
        /\ command'[u].pc = "inserted" /\ command'[u].id = t
    BY <2>1, <2>2, CommandMoves
  <2>6. ShellsHeld' /\ ReadersFollow'
    BY <1>0, <2>1, <2>5 DEF ShellsHeld, ReadersFollow
  <2>7. Cardinality(sessions) < MaxSessions
    BY <1>0, <1>6, IdSetsAreFinite, PtyBasics
  <2>8. sessions' \subseteq Ids /\ Cardinality(sessions') <= MaxSessions
    BY <2>1, <2>3, <2>7, RegistryIsBounded
  <2> QED BY <1>0, <2>1, <2>4, <2>6, <2>8, CommandTypes DEF RegistryInv
<1>7. CASE spawn_reader(u)
  <2> DEFINE old == reader[t]
             new == [old EXCEPT !.pc = "read"]
  <2>1. /\ command[u].pc = "inserted" /\ command' = [command EXCEPT ![u] = Idle]
        /\ reader' = [reader EXCEPT ![t].pc = "read"]
        /\ UNCHANGED <<load, sessions, next_id, consoleVars, emitted, sessionVars, subVars, raced>>
    BY <1>7 DEF spawn_reader, Return, GotoReader
  <2>2. Holding(u) /\ t \in Ids
    BY <1>0, <2>1 DEF CommandsFit, Holding
  <2>3. reader' = [reader EXCEPT ![t] = new] /\ old \in ReaderStates
    BY <1>0, <2>1, <2>2
  <2> HIDE DEF old
  <2>4. new \in ReaderStates /\ new.pc = "read"
    BY <2>3 DEF ReaderStates
  <2> HIDE DEF new
  <2>5. reader' \in [Ids -> ReaderStates] /\ reader'[t].pc = "read"
        /\ \A x \in Ids : x # t => reader'[x] = reader[x]
    BY <1>0, <2>2, <2>3, <2>4
  <2>60. Advance(u, Idle)
    BY <2>1, <2>2, <2>5, IdleIsTyped DEF Advance, Holding
  <2>6. CommandsFit' /\ FreshFit' /\ command' \in [Callers -> Commands]
    BY <2>60, AdvanceFits
  <2>7. \A v \in Callers : command[v].pc \in {"spawned", "killing", "inserted", "dropping"} /\ v # u
            => command'[v] = command[v]
    BY <2>1, IdleIsTyped, CommandMoves
  <2>8. ShellsHeld'
    BY <1>0, <2>1, <2>7 DEF ShellsHeld
  <2>9. ReadersFollow'
    BY <1>0, <2>1, <2>2, <2>5, <2>7 DEF ReadersFollow
  <2> QED BY <1>0, <2>1, <2>5, <2>6, <2>8, <2>9, CommandTypes DEF RegistryInv
<1>8. CASE SpawnReaderFails(u)
  <2>1. /\ command[u].pc = "inserted" /\ command' = [command EXCEPT ![u] = Idle]
        /\ sessions' = sessions \ {t} /\ Kill(t) /\ master' = master \ {t}
        /\ UNCHANGED <<load, next_id, lingering, emitVars, sessionVars, subVars, raced>>
    BY <1>8 DEF SpawnReaderFails, Return
  <2>2. /\ t \in Ids
        /\ \/ running' = running \ {t} /\ hung_up' = hung_up
           \/ hung_up' = hung_up \cup {t} /\ running' = running
    BY <1>0, <2>1 DEF Kill, CommandsFit
  <2>30. Advance(u, Idle)
    BY <2>1, <2>2, IdleIsTyped DEF Advance, Holding
  <2>3. CommandsFit' /\ FreshFit' /\ command' \in [Callers -> Commands]
    BY <2>30, AdvanceFits
  <2>4. \A v \in Callers : command[v].pc \in {"spawned", "killing", "inserted", "dropping"} /\ v # u
            => command'[v] = command[v]
    BY <2>1, IdleIsTyped, CommandMoves
  <2>5. ShellsHeld' /\ ReadersFollow'
    BY <1>0, <2>1, <2>2, <2>4 DEF ShellsHeld, ReadersFollow
  <2>6. sessions' \subseteq Ids /\ Cardinality(sessions') <= MaxSessions
    BY <2>1, RegistryIsBounded
  <2> QED BY <1>0, <2>1, <2>2, <2>3, <2>5, <2>6, CommandTypes DEF RegistryInv
<1> QED BY <1>1, <1>2, <1>3, <1>4, <1>5, <1>6, <1>7, <1>8 DEF OpenStep

\* close and the calls of it that shutdown makes.
LEMMA UnregisterKeeps ==
    ASSUME PtyTypes, RegistryInv, NEW u \in Callers, NEW t \in Ids, NEW rest \in SUBSET Ids,
           Unregister(u, t, rest), command[u].pc \in {"idle", "shutdown"}
    PROVE  PtyTypes' /\ RegistryInv'
<1> USE DEF registryVars, consoleVars, emitVars
<1> DEFINE new == [pc |-> "killing", id |-> t, todo |-> rest]
<1>0. /\ next_id \in 1 .. MaxId + 1 /\ reader \in [Ids -> ReaderStates] /\ sessions \subseteq Ids
      /\ master \subseteq Ids /\ running \subseteq Ids /\ lingering \subseteq Ids /\ hung_up \subseteq Ids
      /\ ShellsHeld /\ ReadersFollow /\ FreshFit
  BY DEF PtyTypes, TypeOK, RegistryInv
<1>1. /\ sessions' = sessions \ {t} /\ command' = [command EXCEPT ![u] = new]
      /\ UNCHANGED <<load, next_id, consoleVars, emitVars, sessionVars, subVars, raced>>
  BY DEF Unregister
<1>2. new \in Commands /\ new.pc = "killing" /\ new.id = t
  BY DEF Commands
<1> HIDE DEF new
<1>20. t < next_id
  BY <1>0, PtyBasics DEF Unregister, FreshFit, Ids
<1>30. Advance(u, new)
  BY <1>1, <1>2, <1>20 DEF Advance, Holding
<1>3. CommandsFit' /\ FreshFit' /\ command' \in [Callers -> Commands]
  BY <1>30, AdvanceFits
<1>4. /\ \A v \in Callers : command[v].pc \in {"spawned", "killing", "inserted", "dropping"}
               => command'[v] = command[v]
      /\ command'[u].pc = "killing" /\ command'[u].id = t
  BY <1>1, <1>2, CommandMoves
<1>5. ShellsHeld' /\ ReadersFollow'
  BY <1>0, <1>1, <1>4 DEF ShellsHeld, ReadersFollow
<1>6. sessions' \subseteq Ids /\ Cardinality(sessions') <= MaxSessions
  BY <1>1, RegistryIsBounded
<1> QED BY <1>0, <1>1, <1>3, <1>5, <1>6, CommandTypes DEF RegistryInv

LEMMA CloseKeeps ==
    ASSUME PtyTypes, RegistryInv, NEW u \in Callers,
           CloseStep(u) \/ shutdown(u) \/ \E t \in Ids : close(u, t)
    PROVE  PtyTypes' /\ RegistryInv'
<1> USE DEF registryVars, consoleVars, emitVars
<1>0. /\ command \in [Callers -> Commands] /\ command[u] \in Commands /\ next_id \in 1 .. MaxId + 1
      /\ reader \in [Ids -> ReaderStates] /\ sessions \subseteq Ids /\ Cardinality(sessions) <= MaxSessions
      /\ master \subseteq Ids /\ running \subseteq Ids /\ lingering \subseteq Ids /\ hung_up \subseteq Ids
      /\ CommandsFit /\ ShellsHeld /\ ReadersFollow
  BY DEF PtyTypes, TypeOK, RegistryInv
<1>1. ASSUME NEW t \in Ids, close(u, t) PROVE PtyTypes' /\ RegistryInv'
  BY <1>1, UnregisterKeeps DEF close
<1>2. CASE CloseKill(u)
  <2> DEFINE t == command[u].id
  <2>1. /\ command[u].pc = "killing" /\ Kill(t) /\ Goto(u, "dropping")
        /\ UNCHANGED <<load, sessions, next_id, master, lingering, emitVars, sessionVars, subVars, raced>>
    BY <1>2 DEF CloseKill
  <2>2. PICK new \in Commands : command' = [command EXCEPT ![u] = new] /\ new.pc = "dropping" /\ new.id = t
    BY <2>1, GotoMoves
  <2>3. /\ t \in Ids /\ t < next_id
        /\ \/ running' = running \ {t} /\ hung_up' = hung_up
           \/ hung_up' = hung_up \cup {t} /\ running' = running
    BY <1>0, <2>1 DEF Kill, CommandsFit
  <2>4. Advance(u, new)
    BY <2>1, <2>2, <2>3 DEF Advance, Holding
  <2>5. CommandsFit' /\ FreshFit' /\ command' \in [Callers -> Commands]
    BY <2>4, AdvanceFits
  <2>6. \A v \in Callers : command[v].pc \in {"spawned", "killing", "inserted", "dropping"} /\ v # u
            => command'[v] = command[v]
    BY <2>2, CommandMoves
  <2>8. command'[u].pc = "dropping" /\ command'[u].id = t
    BY <2>1, <2>2, CommandMoves
  <2>7. ShellsHeld' /\ ReadersFollow'
    BY <1>0, <2>1, <2>3, <2>6, <2>8 DEF ShellsHeld, ReadersFollow
  <2> QED BY <1>0, <2>1, <2>3, <2>5, <2>7, CommandTypes DEF RegistryInv
<1>3. CASE CloseMaster(u)
  <2> DEFINE t == command[u].id
  <2>1. /\ command[u].pc = "dropping" /\ master' = master \ {t}
        /\ command' = [command EXCEPT ![u] = Idle] \/ Goto(u, "shutdown")
        /\ UNCHANGED <<load, sessions, next_id, running, lingering, hung_up, emitVars, sessionVars, subVars, raced>>
    BY <1>3 DEF CloseMaster, Return
  <2>2. PICK new \in Commands : command' = [command EXCEPT ![u] = new] /\ new.pc \in {"idle", "shutdown"}
    BY <2>1, GotoMoves, IdleIsTyped
  <2>4. Advance(u, new)
    BY <2>1, <2>2 DEF Advance, Holding
  <2>5. CommandsFit' /\ FreshFit' /\ command' \in [Callers -> Commands]
    BY <2>4, AdvanceFits
  <2>6. \A v \in Callers : command[v].pc \in {"spawned", "killing", "inserted", "dropping"} /\ v # u
            => command'[v] = command[v]
    BY <2>1, <2>2, CommandMoves
  <2>7. ShellsHeld' /\ ReadersFollow'
    BY <1>0, <2>1, <2>6 DEF ShellsHeld, ReadersFollow
  <2> QED BY <1>0, <2>1, <2>5, <2>7, CommandTypes DEF RegistryInv
<1>4. ASSUME command[u].pc \in {"idle", "shutdown"},
             \E new \in Commands : command' = [command EXCEPT ![u] = new] /\ new.pc \in {"idle", "shutdown"},
             UNCHANGED <<load, registryVars, consoleVars, emitVars, sessionVars, subVars, raced>>
      PROVE  PtyTypes' /\ RegistryInv'
  <2>2. PICK new \in Commands : command' = [command EXCEPT ![u] = new] /\ new.pc \in {"idle", "shutdown"}
    BY <1>4
  <2>4. Advance(u, new)
    BY <1>4, <2>2 DEF Advance, Holding
  <2>5. CommandsFit' /\ FreshFit' /\ command' \in [Callers -> Commands]
    BY <2>4, AdvanceFits
  <2>6. \A v \in Callers : command[v].pc \in {"spawned", "killing", "inserted", "dropping"}
               => command'[v] = command[v]
    BY <1>4, <2>2, CommandMoves
  <2>7. ShellsHeld' /\ ReadersFollow'
    BY <1>0, <1>4, <2>6 DEF ShellsHeld, ReadersFollow
  <2> QED BY <1>0, <1>4, <2>5, <2>7, CommandTypes DEF RegistryInv
<1>5. CASE shutdown(u)
  <2> DEFINE new == [pc |-> "shutdown", id |-> None, todo |-> sessions]
  <2>1. /\ command[u].pc = "idle" /\ command' = [command EXCEPT ![u] = new]
        /\ UNCHANGED <<load, registryVars, consoleVars, emitVars, sessionVars, subVars, raced>>
    BY <1>5 DEF shutdown
  <2>2. new \in Commands /\ new.pc = "shutdown"
    BY <1>0 DEF Commands
  <2> HIDE DEF new
  <2> QED BY <1>4, <2>1, <2>2
<1>6. CASE ShutdownNext(u)
  <2> DEFINE old == command[u]
  <2>0. old \in Commands /\ old.pc = "shutdown" /\ old.todo \in SUBSET Ids
    BY <1>0, <1>6 DEF ShutdownNext, Commands
  <2>1. PICK t \in old.todo :
           LET rest == old.todo \ {t} IN
           \/ Unregister(u, t, rest)
           \/ /\ command' = [command EXCEPT ![u] = IF rest = {} THEN Idle ELSE [@ EXCEPT !.todo = rest]]
              /\ UNCHANGED <<load, registryVars, consoleVars, emitVars, sessionVars, subVars, raced>>
    BY <1>6 DEF ShutdownNext
  <2> DEFINE rest == old.todo \ {t}
             new == IF rest = {} THEN Idle ELSE [old EXCEPT !.todo = rest]
  <2>2. CASE Unregister(u, t, rest)
    BY <2>0, <2>2, UnregisterKeeps
  <2>3. CASE /\ command' = [command EXCEPT ![u] = IF rest = {} THEN Idle ELSE [@ EXCEPT !.todo = rest]]
             /\ UNCHANGED <<load, registryVars, consoleVars, emitVars, sessionVars, subVars, raced>>
    <3>1. command' = [command EXCEPT ![u] = new]
      BY <1>0, <2>3
    <3>2. rest \in SUBSET Ids
      BY <2>0
    <3> HIDE DEF rest, old
    <3>3. new \in Commands /\ new.pc \in {"idle", "shutdown"}
      BY <2>0, <3>2, IdleIsTyped DEF Commands
    <3> HIDE DEF new
    <3>4. command[u].pc = "shutdown"
      BY <2>0 DEF old
    <3> QED BY <1>4, <2>3, <3>1, <3>3, <3>4
  <2> QED BY <2>1, <2>2, <2>3
<1> QED BY <1>1, <1>2, <1>3, <1>5, <1>6 DEF CloseStep

\* A shell that exits is no orphan.
LEMMA ExitKeeps ==
    ASSUME PtyTypes, RegistryInv, NEW t \in Ids, ChildExits(t)
    PROVE  PtyTypes' /\ RegistryInv'
<1> USE DEF registryVars, consoleVars, emitVars
<1>1. /\ running' = running \ {t}
      /\ UNCHANGED <<load, sessions, next_id, master, lingering, hung_up, reader, emitted, sessionVars, subVars,
                     raced, command>>
  BY DEF ChildExits
<1>2. PtyTypes'
  BY <1>1, CommandTypes DEF PtyTypes, TypeOK
<1>3. CommandsFit' /\ FreshFit' /\ ReadersFollow'
  BY <1>1 DEF RegistryInv, CommandsFit, FreshFit, ReadersFollow, Holding
<1>4. ShellsHeld'
  BY <1>1 DEF RegistryInv, ShellsHeld
<1> QED BY <1>2, <1>3, <1>4 DEF RegistryInv

\* Readers and subscriptions leave the registry alone.
LEMMA EmitLeavesRegistry ==
    ASSUME PtyTypes, RegistryInv, UNCHANGED <<registryVars, consoleVars, command>>,
           \A t \in Ids : reader'[t].pc = "none" <=> reader[t].pc = "none"
    PROVE  RegistryInv'
<1> USE DEF registryVars, consoleVars, RegistryInv
<1>1. CommandsFit'
  BY DEF CommandsFit, Holding
<1>2. FreshFit'
  BY DEF FreshFit
<1>3. ShellsHeld'
  BY DEF ShellsHeld
<1>4. ReadersFollow'
  BY DEF ReadersFollow, PtyTypes, TypeOK
<1> QED BY <1>1, <1>2, <1>3, <1>4

-----------------------------------------------------------------------------
(* Queues *)

LEMMA EmptyQueue ==
    /\ <<>> \in Seq(Nat) /\ Len(<<>>) = 0 /\ Block(<<>>) /\ Increasing(<<>>) /\ Distinct(<<>>)
    /\ \A n : Below(<<>>, n) /\ EndsAt(<<>>, n)
    /\ \A q : Apart(<<>>, q) /\ Apart(q, <<>>)
BY DEF Block, Increasing, Distinct, Below, EndsAt, Apart

LEMMA IncreasingIsDistinct ==
    ASSUME NEW q \in Seq(Nat), Increasing(q)
    PROVE  Distinct(q)
<1> SUFFICES ASSUME NEW i \in 1 .. Len(q), NEW j \in 1 .. Len(q), q[i] = q[j], i # j PROVE FALSE
  BY DEF Distinct
<1>1. q[i] \in Nat /\ q[j] \in Nat
  OBVIOUS
<1> QED BY <1>1 DEF Increasing

\* A new event at the end of a queue.
LEMMA AppendedQueue ==
    ASSUME NEW q \in Seq(Nat), NEW e \in Nat, e >= 1, Below(q, e - 1)
    PROVE  /\ Append(q, e) \in Seq(Nat) /\ Len(Append(q, e)) = Len(q) + 1
           /\ Below(Append(q, e), e) /\ EndsAt(Append(q, e), e) /\ Append(q, e) # <<>>
           /\ Increasing(q) => Increasing(Append(q, e))
           /\ Distinct(q) => Distinct(Append(q, e))
           /\ Block(q) /\ EndsAt(q, e - 1) => Block(Append(q, e))
<1> DEFINE a == Append(q, e)
<1>1. /\ a \in Seq(Nat) /\ Len(a) = Len(q) + 1 /\ a[Len(q) + 1] = e /\ Len(q) \in Nat
      /\ \A i \in 1 .. Len(q) : a[i] = q[i] /\ q[i] \in Nat
  OBVIOUS
<1> HIDE DEF a
<1>2. Below(a, e)
  BY <1>1 DEF Below
<1>3. a # <<>> /\ EndsAt(a, e)
  BY <1>1 DEF EndsAt
<1>7. \A i \in 1 .. Len(a) : i = Len(q) + 1 \/ i \in 1 .. Len(q)
  BY <1>1
<1>8. \A i \in 1 .. Len(q) : a[i] \in Nat /\ a[i] < e /\ a[i] = q[i]
  BY <1>1 DEF Below
<1>4. ASSUME Increasing(q) PROVE Increasing(a)
  <2> SUFFICES ASSUME NEW i \in 1 .. Len(a), NEW j \in 1 .. Len(a), i < j PROVE a[i] < a[j]
    BY DEF Increasing
  <2>1. i \in 1 .. Len(q)
    BY <1>1
  <2>2. CASE j = Len(q) + 1
    BY <1>1, <1>8, <2>1, <2>2
  <2>3. CASE j \in 1 .. Len(q)
    <3>1. q[i] < q[j]
      BY <1>4, <2>1, <2>3 DEF Increasing
    <3> QED BY <1>8, <2>1, <2>3, <3>1
  <2> QED BY <1>7, <2>2, <2>3
<1>5. ASSUME Distinct(q) PROVE Distinct(a)
  <2> SUFFICES ASSUME NEW i \in 1 .. Len(a), NEW j \in 1 .. Len(a), a[i] = a[j] PROVE i = j
    BY DEF Distinct
  <2>1. CASE i \in 1 .. Len(q) /\ j \in 1 .. Len(q)
    <3>1. q[i] = q[j]
      BY <1>8, <2>1
    <3> QED BY <1>5, <2>1, <3>1 DEF Distinct
  <2>2. CASE i = Len(q) + 1 \/ j = Len(q) + 1
    BY <1>1, <1>7, <1>8, <2>2
  <2> QED BY <1>7, <2>1, <2>2
<1>6. ASSUME Block(q), EndsAt(q, e - 1) PROVE Block(a)
  <2> SUFFICES ASSUME NEW i \in 1 .. Len(a) - 1 PROVE a[i + 1] = a[i] + 1
    BY DEF Block
  <2>1. CASE i = Len(q)
    BY <1>1, <1>6, <2>1 DEF EndsAt
  <2>2. CASE i # Len(q)
    <3>1. i \in 1 .. Len(q) - 1 /\ i \in 1 .. Len(q) /\ i + 1 \in 1 .. Len(q)
      BY <1>1, <2>2
    <3>2. q[i + 1] = q[i] + 1
      BY <1>6, <3>1 DEF Block
    <3> QED BY <1>1, <3>1, <3>2
  <2> QED BY <2>1, <2>2
<1> QED BY <1>1, <1>2, <1>3, <1>4, <1>5, <1>6 DEF a

LEMMA AppendedApart ==
    ASSUME NEW q \in Seq(Nat), NEW r \in Seq(Nat), NEW e \in Nat, e >= 1, Below(r, e - 1), Apart(q, r)
    PROVE  Apart(Append(q, e), r) /\ Apart(r, Append(q, e))
<1> DEFINE a == Append(q, e)
<1>1. /\ Len(a) = Len(q) + 1 /\ a[Len(q) + 1] = e /\ Len(q) \in Nat
      /\ \A i \in 1 .. Len(q) : a[i] = q[i] /\ q[i] \in Nat
      /\ \A i \in 1 .. Len(r) : r[i] \in Nat
  OBVIOUS
<1> HIDE DEF a
<1>2. ASSUME NEW i \in 1 .. Len(a), NEW j \in 1 .. Len(r) PROVE a[i] # r[j]
  <2>1. CASE i = Len(q) + 1
    <3>1. r[j] \in Nat /\ r[j] <= e - 1
      BY <1>1 DEF Below
    <3> QED BY <1>1, <2>1, <3>1
  <2>2. CASE i \in 1 .. Len(q)
    <3>1. q[i] # r[j]
      BY <2>2 DEF Apart
    <3> QED BY <1>1, <2>2, <3>1
  <2> QED BY <1>1, <2>1, <2>2
<1> QED BY <1>2 DEF Apart, a

\* The oldest event leaves a backlog.
LEMMA EvictedQueue ==
    ASSUME NEW q \in Seq(Nat), Len(q) >= 1
    PROVE  /\ Tail(q) \in Seq(Nat) /\ Len(Tail(q)) = Len(q) - 1
           /\ Increasing(q) => Increasing(Tail(q))
           /\ Block(q) => Block(Tail(q))
           /\ \A n : (Below(q, n) => Below(Tail(q), n)) /\ (EndsAt(q, n) => EndsAt(Tail(q), n))
           /\ \A r : Apart(r, q) => Apart(r, Tail(q))
<1> DEFINE a == Tail(q)
<1>1. /\ a \in Seq(Nat) /\ Len(a) = Len(q) - 1 /\ Len(q) \in Nat
      /\ \A i \in 1 .. Len(q) - 1 : a[i] = q[i + 1] /\ i + 1 \in 1 .. Len(q)
  OBVIOUS
<1> HIDE DEF a
<1>2. ASSUME Increasing(q) PROVE Increasing(a)
  <2> SUFFICES ASSUME NEW i \in 1 .. Len(a), NEW j \in 1 .. Len(a), i < j PROVE a[i] < a[j]
    BY DEF Increasing
  <2>1. /\ a[i] = q[i + 1] /\ a[j] = q[j + 1] /\ i + 1 \in 1 .. Len(q) /\ j + 1 \in 1 .. Len(q)
        /\ i + 1 < j + 1
    BY <1>1
  <2>2. q[i + 1] < q[j + 1]
    BY <1>2, <2>1 DEF Increasing
  <2> QED BY <2>1, <2>2
<1>3. ASSUME Block(q) PROVE Block(a)
  <2> SUFFICES ASSUME NEW i \in 1 .. Len(a) - 1 PROVE a[i + 1] = a[i] + 1
    BY DEF Block
  <2>0. i \in 1 .. Len(q) - 1 /\ i + 1 \in 1 .. Len(q) - 1
    BY <1>1
  <2>1. a[i] = q[i + 1] /\ a[i + 1] = q[(i + 1) + 1]
    BY <1>1, <2>0
  <2>2. q[(i + 1) + 1] = q[i + 1] + 1
    BY <1>3, <2>0 DEF Block
  <2> QED BY <2>1, <2>2
<1>4. ASSUME NEW n, Below(q, n) PROVE Below(a, n)
  BY <1>1, <1>4 DEF Below
<1>5. ASSUME NEW n, EndsAt(q, n) PROVE EndsAt(a, n)
  <2> SUFFICES ASSUME a # <<>> PROVE a[Len(a)] = n
    BY DEF EndsAt
  <2>1. Len(a) \in 1 .. Len(q) - 1
    BY <1>1
  <2> QED BY <1>1, <1>5, <2>1 DEF EndsAt
<1>6. ASSUME NEW r, Apart(r, q) PROVE Apart(r, a)
  BY <1>1, <1>6 DEF Apart
<1> QED BY <1>1, <1>2, <1>3, <1>4, <1>5, <1>6 DEF a

LEMMA Concatenation ==
    ASSUME NEW q \in Seq(Nat), NEW m \in Seq(Nat)
    PROVE  /\ q \o m \in Seq(Nat) /\ Len(q \o m) = Len(q) + Len(m)
           /\ \A i \in 1 .. Len(q) : (q \o m)[i] = q[i]
           /\ \A i \in 1 .. Len(q) + Len(m) :
                 \/ i \in 1 .. Len(q)
                 \/ i - Len(q) \in 1 .. Len(m) /\ (q \o m)[i] = m[i - Len(q)]
<1>1. q \o m \in Seq(Nat)
  OBVIOUS
<1>2. Len(q \o m) = Len(q) + Len(m)
  OBVIOUS
<1>3. \A i \in 1 .. Len(q) : (q \o m)[i] = q[i]
  OBVIOUS
<1>4. ASSUME NEW i \in 1 .. Len(q) + Len(m), i \notin 1 .. Len(q)
      PROVE  i - Len(q) \in 1 .. Len(m) /\ (q \o m)[i] = m[i - Len(q)]
  BY <1>4
<1> QED BY <1>1, <1>2, <1>3, <1>4

\* The first k events of a backlog join a stream.
LEMMA JoinedQueue ==
    ASSUME NEW q \in Seq(Nat), NEW p \in Seq(Nat), NEW k \in 0 .. Len(p)
    PROVE  LET a == q \o SubSeq(p, 1, k) IN
           /\ a \in Seq(Nat) /\ Len(a) = Len(q) + k
           /\ Distinct(q) /\ Distinct(p) /\ Apart(q, p) => Distinct(a)
           /\ \A n : Below(q, n) /\ Below(p, n) => Below(a, n)
           /\ \A r : Apart(q, r) /\ Apart(p, r) => Apart(a, r)
           /\ \A r : Apart(r, q) /\ Apart(r, p) => Apart(r, a)
           /\ q = <<>> /\ k = Len(p) => a = p
<1> DEFINE m == SubSeq(p, 1, k)
           a == q \o m
<1>0. m \in Seq(Nat) /\ Len(m) = k /\ Len(q) \in Nat /\ Len(p) \in Nat
  OBVIOUS
<1>1. \A i \in 1 .. k : m[i] = p[i] /\ i \in 1 .. Len(p)
  OBVIOUS
<1> HIDE DEF m
<1>2. /\ a \in Seq(Nat) /\ Len(a) = Len(q) + k
      /\ \A i \in 1 .. Len(q) : a[i] = q[i]
  BY <1>0, Concatenation
<1>3. \A i \in 1 .. Len(a) : i \in 1 .. Len(q) \/ (i - Len(q) \in 1 .. k /\ a[i] = m[i - Len(q)])
  BY <1>0, Concatenation
<1>4. q = <<>> /\ k = Len(p) => a = p
  BY <1>0, <1>1
<1> HIDE DEF a
<1>5. ASSUME NEW i \in 1 .. Len(a)
      PROVE  \/ i \in 1 .. Len(q) /\ a[i] = q[i]
             \/ i - Len(q) \in 1 .. Len(p) /\ a[i] = p[i - Len(q)]
  BY <1>1, <1>2, <1>3
<1>6. ASSUME NEW n, Below(q, n), Below(p, n) PROVE Below(a, n)
  BY <1>5, <1>6 DEF Below
<1>7. ASSUME NEW r, Apart(q, r), Apart(p, r) PROVE Apart(a, r)
  BY <1>5, <1>7 DEF Apart
<1>8. ASSUME NEW r, Apart(r, q), Apart(r, p) PROVE Apart(r, a)
  BY <1>5, <1>8 DEF Apart
<1>9. ASSUME Distinct(q), Distinct(p), Apart(q, p) PROVE Distinct(a)
  <2> SUFFICES ASSUME NEW i \in 1 .. Len(a), NEW j \in 1 .. Len(a), a[i] = a[j] PROVE i = j
    BY DEF Distinct
  <2>0. i \in Int /\ j \in Int
    BY <1>2
  <2>1. CASE i \in 1 .. Len(q) /\ a[i] = q[i]
    <3>1. CASE j \in 1 .. Len(q) /\ a[j] = q[j]
      BY <1>9, <2>1, <3>1 DEF Distinct
    <3>2. CASE j - Len(q) \in 1 .. Len(p) /\ a[j] = p[j - Len(q)]
      BY <1>9, <2>1, <3>2 DEF Apart
    <3> QED BY <1>5, <3>1, <3>2
  <2>2. CASE i - Len(q) \in 1 .. Len(p) /\ a[i] = p[i - Len(q)]
    <3>1. CASE j \in 1 .. Len(q) /\ a[j] = q[j]
      BY <1>9, <2>2, <3>1 DEF Apart
    <3>2. CASE j - Len(q) \in 1 .. Len(p) /\ a[j] = p[j - Len(q)]
      <4>1. i - Len(q) = j - Len(q)
        BY <1>9, <2>2, <3>2 DEF Distinct
      <4> QED BY <1>0, <2>0, <4>1
    <3> QED BY <1>5, <3>1, <3>2
  <2> QED BY <1>5, <2>1, <2>2
<1> QED BY <1>2, <1>4, <1>6, <1>7, <1>8, <1>9 DEF a, m

-----------------------------------------------------------------------------
(* The events of a terminal, step by step *)

LEMMA EventsOf ==
    ASSUME PtyInv, NEW x \in Ids
    PROVE  /\ OwnersAt(x) /\ OrderAt(x) /\ (x \notin raced => WholeAt(x))
           /\ reader[x] \in ReaderStates /\ emitted[x] \in Nat /\ pending[x] \in Seq(Nat)
           /\ subscriber[x] \in Subs \cup {None} /\ Len(pending[x]) <= MaxPending /\ x # None
           /\ Placed(x) \in Nat
<1>1. /\ OwnersAt(x) /\ OrderAt(x) /\ (x \notin raced => WholeAt(x))
      /\ reader[x] \in ReaderStates /\ emitted[x] \in Nat /\ pending[x] \in Seq(Nat)
      /\ subscriber[x] \in Subs \cup {None} /\ Len(pending[x]) <= MaxPending /\ x # None
  BY PtyBasics DEF PtyInv, EventsInv, EventsAt, PtyTypes, TypeOK
<1>2. Placed(x) \in Nat
  BY <1>1 DEF Placed, OwnersAt
<1> QED BY <1>1, <1>2

\* Queues that stay, or are new and empty, stay in order.
LEMMA OrderStays ==
    ASSUME NEW x, OrderAt(x), Placed(x)' = Placed(x), pending'[x] = pending[x],
           \A s \in Subs : target'[s] = x => \/ stream'[s] = <<>>
                                             \/ target[s] = x /\ stream'[s] = stream[s]
    PROVE  OrderAt(x)'
<1>1. Below(pending[x], Placed(x))' /\ Increasing(pending[x])'
  BY DEF OrderAt, Below, Increasing
<1>2. ASSUME NEW s \in Subs, target'[s] = x
      PROVE  Below(stream'[s], Placed(x)) /\ Distinct(stream'[s]) /\ Apart(stream'[s], pending[x])
  <2>1. CASE stream'[s] = <<>>
    BY <2>1, EmptyQueue
  <2>2. CASE target[s] = x /\ stream'[s] = stream[s]
    BY <2>2 DEF OrderAt
  <2> QED BY <1>2, <2>1, <2>2
<1>3. ASSUME NEW s \in Subs, NEW r \in Subs, target'[s] = x, target'[r] = x, r # s
      PROVE  Apart(stream'[s], stream'[r])
  <2>1. CASE stream'[s] = <<>> \/ stream'[r] = <<>>
    BY <2>1, EmptyQueue
  <2>2. CASE target[s] = x /\ stream'[s] = stream[s] /\ target[r] = x /\ stream'[r] = stream[r]
    BY <1>3, <2>2 DEF OrderAt
  <2> QED BY <1>3, <2>1, <2>2
<1> QED BY <1>1, <1>2, <1>3 DEF OrderAt, Below, Distinct, Apart

\* A step leaves terminal x alone.
Same(x) ==
    /\ reader'[x] = reader[x] /\ emitted'[x] = emitted[x] /\ pending'[x] = pending[x]
    /\ subscriber'[x] = subscriber[x]
    /\ \A s \in Subs : /\ target'[s] = x <=> target[s] = x
                       /\ target[s] = x => stream'[s] = stream[s] /\ subscribed'[s] = subscribed[s]
    /\ x \in raced => x \in raced'

LEMMA ElsewhereKeeps ==
    ASSUME PtyInv, NEW x \in Ids, Same(x)
    PROVE  EventsAt(x)'
<1> USE DEF Same
<1>0. Placed(x)' = Placed(x) /\ Emitting(x)' = Emitting(x)
  BY DEF Placed, Emitting
<1>1. OwnersAt(x) /\ OrderAt(x) /\ (x \notin raced => WholeAt(x)) /\ subscriber[x] \in Subs \cup {None}
  BY EventsOf
<1>2. OwnersAt(x)'
  BY <1>0, <1>1 DEF OwnersAt
<1>3. OrderAt(x)'
  BY <1>0, <1>1, OrderStays
<1>4. ASSUME x \notin raced' PROVE WholeAt(x)'
  <2>1. WholeAt(x)
    BY <1>1, <1>4
  <2>2. Block(pending[x])' /\ EndsAt(pending[x], Placed(x))'
    BY <1>0, <2>1 DEF WholeAt, Block, EndsAt
  <2>3. ASSUME NEW s \in Subs, target'[s] = x
        PROVE  /\ Block(stream[s])'
               /\ (subscribed[s] = "set" => /\ subscriber[x] = s /\ stream[s] = <<>>
                                            /\ reader[x].pc \notin {"send", "clear", "push"})'
               /\ (subscriber[x] = s /\ subscribed[s] = "done" =>
                      pending[x] = <<>> /\ EndsAt(stream[s], Placed(x)))'
    BY <1>0, <2>1, <2>3 DEF WholeAt, Block, EndsAt
  <2>4. /\ (reader[x].pc \in {"send", "clear"} => reader[x].sender = subscriber[x])'
        /\ (reader[x].pc = "push" => subscriber[x] = None)'
    BY <2>1 DEF WholeAt
  <2> QED BY <2>2, <2>3, <2>4 DEF WholeAt
<1> QED BY <1>2, <1>3, <1>4 DEF EventsAt

\* Steps that touch no event.
LEMMA QuietKeeps ==
    ASSUME PtyInv, UNCHANGED <<emitted, sessionVars, subVars, raced>>,
           \A x \in Ids : \/ reader'[x] = reader[x]
                          \/ reader[x].pc \in {"none", "read"} /\ reader'[x].pc \in {"read", "reap"}
    PROVE  EventsInv'
<1> USE DEF sessionVars, subVars
<1>1. SubsFit'
  BY DEF PtyInv, EventsInv, SubsFit
<1>2. ASSUME NEW x \in Ids PROVE EventsAt(x)'
  <2>1. CASE reader'[x] = reader[x]
    BY <2>1, ElsewhereKeeps DEF Same
  <2>2. CASE reader[x].pc \in {"none", "read"} /\ reader'[x].pc \in {"read", "reap"}
    <3>0. /\ OwnersAt(x) /\ OrderAt(x) /\ (x \notin raced => WholeAt(x))
          /\ ~Emitting(x) /\ ~Emitting(x)' /\ Placed(x)' = Placed(x)
      BY <2>2, EventsOf DEF Emitting, Placed
    <3>1. OwnersAt(x)'
      BY <2>2, <3>0 DEF OwnersAt
    <3>2. OrderAt(x)'
      BY <3>0, OrderStays
    <3>3. ASSUME x \notin raced' PROVE WholeAt(x)'
      BY <2>2, <3>0, <3>3 DEF WholeAt, Block, EndsAt
    <3> QED BY <3>1, <3>2, <3>3 DEF EventsAt
  <2> QED BY <2>1, <2>2
<1> QED BY <1>1, <1>2 DEF EventsInv

\* What a step of t's reader does to the readers.
LEMMA ReaderMoves ==
    ASSUME PtyTypes, NEW t \in Ids, NEW new \in ReaderStates, reader' = [reader EXCEPT ![t] = new]
    PROVE  /\ reader' \in [Ids -> ReaderStates] /\ reader'[t] = new
           /\ \A x \in Ids : x # t => reader'[x] = reader[x]
BY DEF PtyTypes

LEMMA GotoReaderMoves ==
    ASSUME PtyTypes, NEW t \in Ids, NEW pc, GotoReader(t, pc), pc \in {"read", "reap", "clear", "push"}
    PROVE  \E new \in ReaderStates : /\ reader' = [reader EXCEPT ![t] = new] /\ new.pc = pc
                                     /\ new.event = reader[t].event /\ new.sender = reader[t].sender
<1> DEFINE old == reader[t]
           new == [old EXCEPT !.pc = pc]
<1>1. old \in ReaderStates /\ reader' = [reader EXCEPT ![t] = new]
  BY DEF PtyTypes, GotoReader
<1> HIDE DEF old
<1>2. new \in ReaderStates /\ new.pc = pc /\ new.event = old.event /\ new.sender = old.sender
  BY <1>1 DEF ReaderStates
<1> HIDE DEF new
<1> QED BY <1>1, <1>2 DEF old

LEMMA AfterEmitMoves ==
    ASSUME PtyTypes, NEW t \in Ids, AfterEmit(t)
    PROVE  \E new \in ReaderStates : reader' = [reader EXCEPT ![t] = new] /\ new.pc \in {"read", "end"}
<1> DEFINE new == [NoReader EXCEPT !.pc = IF reader[t].last THEN "end" ELSE "read"]
<1>1. reader' = [reader EXCEPT ![t] = new]
  BY DEF AfterEmit
<1>2. new \in ReaderStates /\ new.pc \in {"read", "end"}
  BY DEF NoReader, ReaderStates, None
<1> HIDE DEF new
<1> QED BY <1>1, <1>2

\* The parts of the types that a reader or a subscription can disturb.
LEMMA EventTypes ==
    ASSUME PtyTypes, UNCHANGED <<load, registryVars, consoleVars, command>>,
           reader' \in [Ids -> ReaderStates], emitted' \in [Ids -> Nat],
           subscriber' \in [Ids -> Subs \cup {None}], pending' \in [Ids -> Seq(Nat)],
           \A t \in Ids : Len(pending'[t]) <= MaxPending,
           subs' \in 0 .. MaxSub, target' \in [Subs -> Ids \cup {None}],
           subscribed' \in [Subs -> {"none", "set", "done"}], receiver' \in [Subs -> BOOLEAN],
           stream' \in [Subs -> Seq(Nat)], taken' \in [Subs -> Nat], raced' \subseteq Ids
    PROVE  PtyTypes'
BY DEF PtyTypes, TypeOK, registryVars, consoleVars

\* A step of terminal t keeps the invariant if it keeps what t has.
LEMMA StepKeeps ==
    ASSUME PtyInv, NEW t \in Ids, PtyTypes', RegistryInv', SubsFit', EventsAt(t)',
           \A x \in Ids : x # t => Same(x)
    PROVE  PtyInv'
<1>1. ASSUME NEW x \in Ids PROVE EventsAt(x)'
  BY ElsewhereKeeps
<1> QED BY <1>1 DEF PtyInv, EventsInv

-----------------------------------------------------------------------------
(* The reader *)

LEMMA MakeKeeps ==
    ASSUME PtyInv, NEW t \in Ids, NEW last \in BOOLEAN, reader[t].pc \in {"read", "reap"}, Make(t, last)
    PROVE  PtyInv'
<1> USE DEF sessionVars, subVars
<1> DEFINE new == [pc |-> "clone", event |-> emitted[t] + 1, sender |-> None, last |-> last]
<1>0. PtyTypes /\ RegistryInv /\ SubsFit /\ emitted \in [Ids -> Nat] /\ emitted[t] \in Nat
  BY DEF PtyInv, EventsInv, PtyTypes
<1>1. /\ emitted' = [emitted EXCEPT ![t] = @ + 1] /\ reader' = [reader EXCEPT ![t] = new]
      /\ UNCHANGED <<load, registryVars, consoleVars, sessionVars, subVars, raced, command>>
  BY DEF Make
<1>2. /\ new \in ReaderStates /\ new.pc = "clone" /\ new.event = emitted[t] + 1
  BY <1>0 DEF ReaderStates, None
<1> HIDE DEF new
<1>3. /\ emitted' \in [Ids -> Nat] /\ emitted'[t] = emitted[t] + 1
      /\ \A x \in Ids : x # t => emitted'[x] = emitted[x]
  BY <1>0, <1>1
<1>4. /\ reader' \in [Ids -> ReaderStates] /\ reader'[t] = new
      /\ \A x \in Ids : x # t => reader'[x] = reader[x]
  BY <1>0, <1>1, <1>2, ReaderMoves
<1>5. PtyTypes'
  BY <1>0, <1>1, <1>3, <1>4, EventTypes DEF PtyTypes, TypeOK
<1>6. RegistryInv'
  BY <1>0, <1>1, <1>2, <1>4, EmitLeavesRegistry
<1>7. SubsFit'
  BY <1>0, <1>1 DEF SubsFit
<1>8. \A x \in Ids : x # t => Same(x)
  BY <1>1, <1>3, <1>4 DEF Same
<1>9. EventsAt(t)'
  <2>00. OwnersAt(t) /\ OrderAt(t) /\ (t \notin raced => WholeAt(t))
    BY EventsOf
  <2>01. Emitting(t)' /\ ~Emitting(t)
    BY <1>2, <1>4 DEF Emitting
  <2>02. Placed(t)' = Placed(t)
    BY <1>0, <1>3, <2>01 DEF Placed
  <2>0. /\ OwnersAt(t) /\ OrderAt(t) /\ (t \notin raced => WholeAt(t))
        /\ Emitting(t)' /\ Placed(t)' = Placed(t)
    BY <2>00, <2>01, <2>02
  <2>1. OwnersAt(t)'
    BY <1>0, <1>1, <1>2, <1>3, <1>4, <2>0 DEF OwnersAt
  <2>2. OrderAt(t)'
    BY <1>1, <2>0, OrderStays
  <2>3. ASSUME t \notin raced' PROVE WholeAt(t)'
    BY <1>1, <1>2, <1>4, <2>0, <2>3 DEF WholeAt, Block, EndsAt
  <2> QED BY <2>1, <2>2, <2>3 DEF EventsAt
<1> QED BY <1>5, <1>6, <1>7, <1>8, <1>9, StepKeeps

\* Steps of an emit that leave the queues alone.
LEMMA HandKeeps ==
    ASSUME PtyInv, NEW t \in Ids, Emitting(t), NEW new \in ReaderStates,
           reader' = [reader EXCEPT ![t] = new],
           new.pc \in {"send", "clear", "push"}, new.event = reader[t].event,
           UNCHANGED <<load, registryVars, consoleVars, emitted, pending, subVars, command>>,
           subscriber' \in [Ids -> Subs \cup {None}],
           \A x \in Ids : x # t => subscriber'[x] = subscriber[x],
           subscriber'[t] \in {None, subscriber[t]},
           new.pc \in {"send", "clear"} => new.sender \in Subs /\ target[new.sender] = t,
           raced' \subseteq Ids, raced \subseteq raced',
           t \notin raced' =>
              /\ \A s \in Subs : target[s] = t => subscribed[s] # "set"
              /\ new.pc \in {"send", "clear"} => new.sender = subscriber'[t]
              /\ new.pc = "push" => subscriber'[t] = None
    PROVE  PtyInv'
<1> USE DEF subVars
<1>0. PtyTypes /\ RegistryInv /\ SubsFit
  BY DEF PtyInv, EventsInv
<1>4. /\ reader' \in [Ids -> ReaderStates] /\ reader'[t] = new
      /\ \A x \in Ids : x # t => reader'[x] = reader[x]
  BY <1>0, ReaderMoves
<1>5. PtyTypes'
  BY <1>0, <1>4, EventTypes DEF PtyTypes, TypeOK
<1>6. RegistryInv'
  BY <1>0, <1>4, EmitLeavesRegistry DEF Emitting
<1>7. SubsFit'
  BY <1>0 DEF SubsFit
<1>8. \A x \in Ids : x # t => Same(x)
  BY <1>4 DEF Same
<1>9. EventsAt(t)'
  <2>0. /\ OwnersAt(t) /\ OrderAt(t) /\ (t \notin raced => WholeAt(t))
        /\ Emitting(t)' /\ Placed(t)' = Placed(t)
    BY <1>0, <1>4, EventsOf DEF Emitting, Placed
  <2>1. OwnersAt(t)'
    BY <1>4, <2>0 DEF OwnersAt
  <2>2. OrderAt(t)'
    BY <2>0, OrderStays
  <2>3. ASSUME t \notin raced' PROVE WholeAt(t)'
    <3>1. WholeAt(t)
      BY <2>0, <2>3
    <3>2. Block(pending[t])' /\ EndsAt(pending[t], Placed(t))'
      BY <2>0, <3>1 DEF WholeAt, Block, EndsAt
    <3>3. ASSUME NEW s \in Subs, target'[s] = t
          PROVE  /\ Block(stream[s])' /\ subscribed'[s] # "set"
                 /\ (subscriber[t] = s /\ subscribed[s] = "done" =>
                        pending[t] = <<>> /\ EndsAt(stream[s], Placed(t)))'
      BY <2>0, <2>3, <3>1, <3>3, PtyBasics DEF WholeAt, Block, EndsAt
    <3> QED BY <1>4, <2>3, <3>2, <3>3 DEF WholeAt
  <2> QED BY <2>1, <2>2, <2>3 DEF EventsAt
<1> QED BY <1>5, <1>6, <1>7, <1>8, <1>9, StepKeeps

LEMMA EmitCloneKeeps ==
    ASSUME PtyInv, NEW t \in Ids, EmitClone(t)
    PROVE  PtyInv'
<1> DEFINE old == reader[t]
           pc == IF subscriber[t] = None THEN "push" ELSE "send"
           new == [old EXCEPT !.sender = subscriber[t], !.pc = pc]
<1>0. /\ PtyTypes /\ OwnersAt(t) /\ old \in ReaderStates /\ subscriber[t] \in Subs \cup {None}
      /\ subscriber \in [Ids -> Subs \cup {None}] /\ raced \subseteq Ids
  BY EventsOf DEF PtyInv, PtyTypes, TypeOK
<1>1. /\ old.pc = "clone" /\ reader' = [reader EXCEPT ![t] = new]
      /\ raced' = IF Subscribing(t) THEN raced \cup {t} ELSE raced
      /\ UNCHANGED <<load, registryVars, consoleVars, emitted, sessionVars, subVars, command>>
  BY <1>0 DEF EmitClone, MarkRace, PtyTypes
<1>2. Emitting(t)
  BY <1>1 DEF Emitting
<1> HIDE DEF old
<1>3. /\ new \in ReaderStates /\ new.pc = pc /\ new.event = old.event /\ new.sender = subscriber[t]
  BY <1>0 DEF ReaderStates
<1> HIDE DEF new
<1>4. /\ new.pc \in {"send", "push"} /\ (new.pc = "send" => subscriber[t] \in Subs)
      /\ (new.pc = "push" => subscriber[t] = None)
  BY <1>0, <1>3
<1>5. new.pc = "send" => target[new.sender] = t
  BY <1>0, <1>3, <1>4, PtyBasics DEF OwnersAt
<1>6. t \notin raced' => \A s \in Subs : target[s] = t => subscribed[s] # "set"
  BY <1>1 DEF Subscribing
<1>7. raced' \subseteq Ids /\ raced \subseteq raced'
  BY <1>0, <1>1
<1>8. new.event = reader[t].event /\ UNCHANGED <<subscriber, pending>>
  BY <1>1, <1>3 DEF old, sessionVars
<1> QED BY <1>0, <1>1, <1>2, <1>3, <1>4, <1>5, <1>6, <1>7, <1>8, HandKeeps

\* While an event is in hand on its way to a subscriber, and nothing raced, no
\* subscribe call is between its steps.
LEMMA InHandNoneSet ==
    ASSUME PtyInv, NEW t \in Ids, reader[t].pc \in {"send", "clear", "push"}, t \notin raced
    PROVE  \A s \in Subs : target[s] = t => subscribed[s] # "set"
BY EventsOf DEF WholeAt

LEMMA EmitFailsKeeps ==
    ASSUME PtyInv, NEW t \in Ids, EmitFails(t)
    PROVE  PtyInv'
<1>0. /\ PtyTypes /\ OwnersAt(t) /\ (t \notin raced => WholeAt(t))
      /\ subscriber \in [Ids -> Subs \cup {None}] /\ raced \subseteq Ids
  BY EventsOf DEF PtyInv, PtyTypes, TypeOK
<1>1. /\ reader[t].pc = "send" /\ GotoReader(t, "clear")
      /\ UNCHANGED <<load, registryVars, consoleVars, emitted, subscriber, pending, subVars, raced, command>>
  BY DEF EmitFails, sessionVars
<1>2. Emitting(t)
  BY <1>1 DEF Emitting
<1>3. PICK new \in ReaderStates : /\ reader' = [reader EXCEPT ![t] = new] /\ new.pc = "clear"
                                  /\ new.event = reader[t].event /\ new.sender = reader[t].sender
  BY <1>0, <1>1, GotoReaderMoves
<1>4. new.sender \in Subs /\ target[new.sender] = t
  BY <1>0, <1>1, <1>3 DEF OwnersAt
<1>5. t \notin raced' => new.sender = subscriber'[t]
  BY <1>0, <1>1, <1>3 DEF WholeAt
<1>6. t \notin raced' => \A s \in Subs : target[s] = t => subscribed[s] # "set"
  BY <1>1, InHandNoneSet
<1> QED BY <1>0, <1>1, <1>2, <1>3, <1>4, <1>5, <1>6, HandKeeps

LEMMA EmitClearKeeps ==
    ASSUME PtyInv, NEW t \in Ids, EmitClear(t)
    PROVE  PtyInv'
<1>0. /\ PtyTypes /\ subscriber \in [Ids -> Subs \cup {None}] /\ raced \subseteq Ids
  BY DEF PtyInv, PtyTypes, TypeOK
<1>1. /\ reader[t].pc = "clear" /\ GotoReader(t, "push") /\ subscriber' = [subscriber EXCEPT ![t] = None]
      /\ UNCHANGED <<load, registryVars, consoleVars, emitted, pending, subVars, raced, command>>
  BY DEF EmitClear
<1>2. Emitting(t)
  BY <1>1 DEF Emitting
<1>3. PICK new \in ReaderStates : /\ reader' = [reader EXCEPT ![t] = new] /\ new.pc = "push"
                                  /\ new.event = reader[t].event
  BY <1>0, <1>1, GotoReaderMoves
<1>4. /\ subscriber' \in [Ids -> Subs \cup {None}] /\ subscriber'[t] = None
      /\ \A x \in Ids : x # t => subscriber'[x] = subscriber[x]
  BY <1>0, <1>1
<1>6. t \notin raced' => \A s \in Subs : target[s] = t => subscribed[s] # "set"
  BY <1>1, InHandNoneSet
<1> QED BY <1>0, <1>1, <1>2, <1>3, <1>4, <1>6, HandKeeps

\* The event of an emit that ends is the next one to be placed.
LEMMA EmitEnds ==
    ASSUME PtyInv, NEW t \in Ids, reader[t].pc \in {"send", "push"}, AfterEmit(t), UNCHANGED emitted
    PROVE  /\ reader' \in [Ids -> ReaderStates] /\ reader'[t].pc \in {"read", "end"}
           /\ \A x \in Ids : x # t => reader'[x] = reader[x]
           /\ reader[t].event \in Nat /\ reader[t].event >= 1 /\ reader[t].event = emitted[t]
           /\ Placed(t) = reader[t].event - 1 /\ Placed(t)' = reader[t].event
           /\ ~Emitting(t)'
<1>0. PtyTypes /\ OwnersAt(t) /\ emitted[t] \in Nat
  BY EventsOf DEF PtyInv
<1>1. PICK new \in ReaderStates : reader' = [reader EXCEPT ![t] = new] /\ new.pc \in {"read", "end"}
  BY <1>0, AfterEmitMoves
<1>2. /\ reader' \in [Ids -> ReaderStates] /\ reader'[t] = new
      /\ \A x \in Ids : x # t => reader'[x] = reader[x]
  BY <1>0, <1>1, ReaderMoves
<1>3. Emitting(t) /\ ~Emitting(t)'
  BY <1>1, <1>2 DEF Emitting
<1>4. reader[t].event = emitted[t] /\ emitted[t] >= 1
  BY <1>0, <1>3 DEF OwnersAt
<1> QED BY <1>0, <1>1, <1>2, <1>3, <1>4 DEF Placed

\* Older bounds are bounds.
LEMMA BelowGrows ==
    ASSUME NEW q \in Seq(Nat), NEW n \in Nat, n >= 1, Below(q, n - 1)
    PROVE  Below(q, n)
<1> SUFFICES ASSUME NEW i \in 1 .. Len(q) PROVE q[i] <= n
  BY DEF Below
<1>1. q[i] \in Nat /\ q[i] <= n - 1
  BY DEF Below
<1> QED BY <1>1

LEMMA SubTypes ==
    ASSUME PtyInv, NEW s \in Subs
    PROVE  /\ stream[s] \in Seq(Nat) /\ taken[s] \in Nat /\ Len(stream[s]) \in Nat
           /\ target[s] \in Ids \cup {None} /\ subscribed[s] \in {"none", "set", "done"}
           /\ target[s] # None => subscribed[s] # "none"
           /\ taken[s] <= Len(stream[s]) /\ Len(stream[s]) - taken[s] <= EventQueue
           /\ subscribed[s] = "set" => taken[s] = 0
           /\ subscribed[s] # "none" => s <= subs /\ target[s] \in Ids
<1>1. /\ stream[s] \in Seq(Nat) /\ taken[s] \in Nat /\ target[s] \in Ids \cup {None}
      /\ subscribed[s] \in {"none", "set", "done"} /\ subs \in 0 .. MaxSub /\ s \in Nat
  BY PtyBasics DEF PtyInv, PtyTypes, TypeOK, Subs
<1>2. Len(stream[s]) \in Nat
  BY <1>1
<1>3. s > subs \/ s <= subs
  BY <1>1
<1> QED BY <1>1, <1>2, <1>3 DEF PtyInv, EventsInv, SubsFit

LEMMA EmitSendKeeps ==
    ASSUME PtyInv, NEW t \in Ids, EmitSend(t)
    PROVE  PtyInv'
<1> DEFINE s == reader[t].sender
           e == reader[t].event
<1>0. /\ PtyTypes /\ RegistryInv /\ SubsFit /\ OwnersAt(t) /\ OrderAt(t) /\ (t \notin raced => WholeAt(t))
      /\ stream \in [Subs -> Seq(Nat)] /\ pending[t] \in Seq(Nat) /\ EventQueue \in Nat
  BY EventsOf, PtyBasics DEF PtyInv, EventsInv, PtyTypes
<1>1. /\ reader[t].pc = "send" /\ Room(s) /\ stream' = [stream EXCEPT ![s] = Append(@, e)] /\ AfterEmit(t)
      /\ UNCHANGED <<load, registryVars, consoleVars, emitted, subscriber, pending, subs, target,
                     subscribed, receiver, taken, raced, command>>
  BY DEF EmitSend, sessionVars
<1>2. s \in Subs /\ target[s] = t
  BY <1>0, <1>1 DEF OwnersAt
<1>3. /\ reader' \in [Ids -> ReaderStates] /\ reader'[t].pc \in {"read", "end"}
      /\ \A x \in Ids : x # t => reader'[x] = reader[x]
      /\ e \in Nat /\ e >= 1 /\ e = emitted[t]
      /\ Placed(t) = e - 1 /\ Placed(t)' = e /\ ~Emitting(t)'
  BY <1>1, EmitEnds
<1> HIDE DEF s, e
<1>4. /\ stream' \in [Subs -> Seq(Nat)] /\ stream'[s] = Append(stream[s], e)
      /\ \A r \in Subs : r # s => stream'[r] = stream[r]
  BY <1>0, <1>1, <1>2, <1>3
<1>40. \A r \in Subs : target[r] = t => /\ stream[r] \in Seq(Nat) /\ Below(stream[r], e - 1)
                                        /\ Distinct(stream[r]) /\ Apart(stream[r], pending[t])
                                        /\ \A w \in Subs : target[w] = t /\ w # r => Apart(stream[r], stream[w])
  BY <1>0, <1>3 DEF OrderAt
<1>5. PtyTypes'
  BY <1>0, <1>1, <1>3, <1>4, EventTypes DEF PtyTypes, TypeOK
<1>6. RegistryInv'
  BY <1>0, <1>1, <1>3, EmitLeavesRegistry
<1>7. SubsFit'
  <2>1. /\ Len(stream'[s]) = Len(stream[s]) + 1 /\ s <= subs /\ taken[s] <= Len(stream[s])
        /\ Len(stream[s]) \in Nat /\ taken[s] \in Nat /\ target[s] \in Ids
    BY <1>2, <1>3, <1>4, <1>40, AppendedQueue, SubTypes, PtyBasics
  <2>2. Len(stream[s]) - taken[s] < EventQueue
    BY <1>1 DEF Room
  <2>3. taken[s] <= Len(stream'[s]) /\ Len(stream'[s]) - taken[s] <= EventQueue
    BY <1>0, <2>1, <2>2
  <2>4. ~(s > subs)
    BY <1>0, <1>2, <2>1, PtyBasics DEF SubsFit
  <2> QED BY <1>0, <1>1, <1>4, <2>3, <2>4 DEF SubsFit
<1>8. \A x \in Ids : x # t => Same(x)
  BY <1>1, <1>2, <1>3, <1>4 DEF Same
<1>9. OwnersAt(t)'
  BY <1>0, <1>1, <1>3 DEF OwnersAt
<1>10. OrderAt(t)'
  <2>1. Below(pending[t], e) /\ Increasing(pending[t]) /\ Below(pending[t], e - 1)
    BY <1>0, <1>3, BelowGrows DEF OrderAt
  <2>2. ASSUME NEW r \in Subs, target[r] = t
        PROVE  /\ Below(stream'[r], e) /\ Distinct(stream'[r]) /\ Apart(stream'[r], pending[t])
               /\ \A w \in Subs : target[w] = t /\ w # r => Apart(stream'[r], stream'[w])
    <3>1. CASE r = s
      <4>1. Below(stream'[r], e) /\ Distinct(stream'[r])
        BY <1>2, <1>3, <1>4, <1>40, <3>1, AppendedQueue
      <4>2. Apart(stream'[r], pending[t])
        <5>1. stream[s] \in Seq(Nat) /\ Apart(stream[s], pending[t]) /\ pending[t] \in Seq(Nat)
          BY <1>0, <1>2, <1>40
        <5> QED BY <1>3, <1>4, <2>1, <3>1, <5>1, AppendedApart
      <4>3. ASSUME NEW w \in Subs, target[w] = t, w # r PROVE Apart(stream'[r], stream'[w])
        BY <1>2, <1>3, <1>4, <1>40, <3>1, <4>3, AppendedApart
      <4> QED BY <4>1, <4>2, <4>3
    <3>2. CASE r # s
      <4>1. Below(stream'[r], e) /\ Distinct(stream'[r]) /\ Apart(stream'[r], pending[t])
        BY <1>3, <1>4, <1>40, <2>2, <3>2, BelowGrows
      <4>2. ASSUME NEW w \in Subs, target[w] = t, w # r PROVE Apart(stream'[r], stream'[w])
        <5>1. CASE w = s
          <6>1. stream[s] \in Seq(Nat) /\ stream[r] \in Seq(Nat) /\ Apart(stream[s], stream[r]) /\ Below(stream[r], e - 1)
            BY <1>2, <1>40, <2>2, <3>2
          <6> QED BY <1>3, <1>4, <3>2, <5>1, <6>1, AppendedApart
        <5>2. CASE w # s
          BY <1>4, <1>40, <2>2, <3>2, <4>2, <5>2
        <5> QED BY <5>1, <5>2
      <4> QED BY <4>1, <4>2
    <3> QED BY <3>1, <3>2
  <2> QED BY <1>1, <1>3, <2>1, <2>2 DEF OrderAt, Below, Increasing
<1>11. ASSUME t \notin raced' PROVE WholeAt(t)'
  <2>1. WholeAt(t) /\ s = subscriber[t] /\ subscribed[s] = "done"
    <3>1. WholeAt(t)
      BY <1>0, <1>1, <1>11
    <3>2. s = subscriber[t]
      BY <1>1, <3>1 DEF WholeAt, s
    <3>3. subscribed[s] \in {"set", "done"}
      BY <1>2, SubTypes, PtyBasics
    <3> QED BY <1>1, <1>2, <3>1, <3>2, <3>3 DEF WholeAt
  <2>2. pending[t] = <<>> /\ EndsAt(stream[s], e - 1) /\ Block(stream[s])
    BY <1>2, <1>3, <2>1 DEF WholeAt
  <2>3. Block(stream'[s]) /\ EndsAt(stream'[s], e)
    BY <1>2, <1>3, <1>4, <1>40, <2>2, AppendedQueue
  <2>4. Block(pending[t])' /\ EndsAt(pending[t], Placed(t))'
    BY <1>1, <2>2, EmptyQueue DEF Block, EndsAt
  <2>5. ASSUME NEW r \in Subs, target'[r] = t
        PROVE  /\ Block(stream'[r]) /\ subscribed'[r] # "set"
               /\ subscriber'[t] = r /\ subscribed'[r] = "done" =>
                        pending'[t] = <<>> /\ EndsAt(stream'[r], e)
    <3>1. subscribed[r] # "set" /\ Block(stream[r])
      BY <1>1, <2>1, <2>5 DEF WholeAt
    <3> QED BY <1>1, <1>4, <2>1, <2>2, <2>3, <3>1
  <2> QED BY <1>1, <1>3, <2>4, <2>5 DEF WholeAt, Block, EndsAt
<1>12. EventsAt(t)'
  BY <1>9, <1>10, <1>11 DEF EventsAt
<1> QED BY <1>5, <1>6, <1>7, <1>8, <1>12, StepKeeps

LEMMA EmitPushKeeps ==
    ASSUME PtyInv, NEW t \in Ids, EmitPush(t)
    PROVE  PtyInv'
<1> DEFINE e == reader[t].event
           p == IF Len(pending[t]) >= MaxPending THEN Tail(pending[t]) ELSE pending[t]
<1>0. /\ PtyTypes /\ RegistryInv /\ SubsFit /\ OwnersAt(t) /\ OrderAt(t) /\ (t \notin raced => WholeAt(t))
      /\ pending \in [Ids -> Seq(Nat)] /\ pending[t] \in Seq(Nat) /\ Len(pending[t]) \in Nat
      /\ Len(pending[t]) <= MaxPending /\ MaxPending \in Nat /\ MaxPending >= 1
      /\ \A x \in Ids : Len(pending[x]) <= MaxPending
  BY EventsOf, PtyBasics DEF PtyInv, EventsInv, PtyTypes, TypeOK
<1>1. /\ reader[t].pc = "push" /\ pending' = [pending EXCEPT ![t] = Append(p, e)] /\ AfterEmit(t)
      /\ UNCHANGED <<load, registryVars, consoleVars, emitted, subscriber, subVars, raced, command>>
  BY DEF EmitPush
<1>3. /\ reader' \in [Ids -> ReaderStates] /\ reader'[t].pc \in {"read", "end"}
      /\ \A x \in Ids : x # t => reader'[x] = reader[x]
      /\ e \in Nat /\ e >= 1 /\ e = emitted[t]
      /\ Placed(t) = e - 1 /\ Placed(t)' = e /\ ~Emitting(t)'
  BY <1>1, EmitEnds
<1> HIDE DEF e
<1>4. /\ p \in Seq(Nat) /\ Len(p) < MaxPending /\ Below(p, e - 1) /\ Increasing(p)
      /\ \A r : Apart(r, pending[t]) => Apart(r, p)
      /\ t \notin raced => Block(p) /\ EndsAt(p, e - 1)
  <2>0. /\ Below(pending[t], e - 1) /\ Increasing(pending[t])
        /\ t \notin raced => Block(pending[t]) /\ EndsAt(pending[t], e - 1)
    BY <1>0, <1>3 DEF OrderAt, WholeAt
  <2>1. CASE Len(pending[t]) >= MaxPending
    <3>1. p = Tail(pending[t]) /\ Len(pending[t]) >= 1
      BY <1>0, <2>1
    <3> HIDE DEF p
    <3> QED BY <1>0, <2>0, <3>1, EvictedQueue
  <2>2. CASE ~(Len(pending[t]) >= MaxPending)
    <3>1. p = pending[t]
      BY <2>2
    <3> HIDE DEF p
    <3> QED BY <1>0, <2>0, <2>2, <3>1
  <2> QED BY <2>1, <2>2
<1> HIDE DEF p
<1>41. /\ Append(p, e) \in Seq(Nat) /\ Len(Append(p, e)) <= MaxPending
       /\ Below(Append(p, e), e) /\ EndsAt(Append(p, e), e) /\ Increasing(Append(p, e))
       /\ t \notin raced => Block(Append(p, e))
  BY <1>0, <1>3, <1>4, AppendedQueue
<1>42. /\ pending' \in [Ids -> Seq(Nat)] /\ pending'[t] = Append(p, e)
       /\ \A x \in Ids : x # t => pending'[x] = pending[x]
       /\ \A x \in Ids : Len(pending'[x]) <= MaxPending
  BY <1>0, <1>1, <1>41
<1>40. \A r \in Subs : target[r] = t => /\ stream[r] \in Seq(Nat) /\ Below(stream[r], e - 1)
                                        /\ Distinct(stream[r]) /\ Apart(stream[r], pending[t])
                                        /\ \A w \in Subs : target[w] = t /\ w # r => Apart(stream[r], stream[w])
  BY <1>0, <1>3 DEF OrderAt, PtyTypes
<1>5. PtyTypes'
  BY <1>0, <1>1, <1>3, <1>42, EventTypes DEF PtyTypes, TypeOK, subVars
<1>6. RegistryInv'
  BY <1>0, <1>1, <1>3, EmitLeavesRegistry
<1>7. SubsFit'
  BY <1>0, <1>1 DEF SubsFit, subVars
<1>8. \A x \in Ids : x # t => Same(x)
  BY <1>1, <1>3, <1>42 DEF Same, subVars
<1>9. OwnersAt(t)'
  BY <1>0, <1>1, <1>3 DEF OwnersAt, subVars
<1>10. OrderAt(t)'
  <2>2. ASSUME NEW r \in Subs, target[r] = t
        PROVE  /\ Below(stream[r], e) /\ Distinct(stream[r]) /\ Apart(stream[r], pending'[t])
               /\ \A w \in Subs : target[w] = t /\ w # r => Apart(stream[r], stream[w])
    <3>1. Apart(stream[r], p)
      BY <1>4, <1>40, <2>2
    <3>2. Apart(p, stream[r])
      BY <3>1 DEF Apart
    <3>3. Apart(stream[r], Append(p, e))
      BY <1>3, <1>4, <1>40, <2>2, <3>2, AppendedApart
    <3>4. Below(stream[r], e)
      BY <1>3, <1>40, <2>2, BelowGrows
    <3> QED BY <1>40, <1>42, <2>2, <3>3, <3>4
  <2>3. Below(pending[t], Placed(t))' /\ Increasing(pending[t])'
    BY <1>3, <1>41, <1>42 DEF Below, Increasing
  <2>4. ASSUME NEW r \in Subs, target'[r] = t
        PROVE  /\ Below(stream[r], Placed(t))' /\ Distinct(stream[r])' /\ Apart(stream[r], pending[t])'
               /\ \A w \in Subs : target'[w] = t /\ w # r => Apart(stream[r], stream[w])'
    <3>1. stream' = stream /\ target' = target
      BY <1>1 DEF subVars
    <3> QED BY <1>3, <2>2, <2>4, <3>1 DEF Below, Distinct, Apart
  <2> QED BY <2>3, <2>4 DEF OrderAt
<1>11. ASSUME t \notin raced' PROVE WholeAt(t)'
  <2>1. WholeAt(t) /\ subscriber[t] = None /\ None \notin Subs
    BY <1>0, <1>1, <1>11, PtyBasics DEF WholeAt
  <2>4. Block(pending'[t]) /\ EndsAt(pending'[t], e)
    BY <1>1, <1>11, <1>41, <1>42
  <2>5. ASSUME NEW r \in Subs, target'[r] = t
        PROVE  Block(stream'[r]) /\ subscribed'[r] # "set" /\ subscriber'[t] # r
    BY <1>1, <2>1, <2>5 DEF WholeAt, subVars
  <2> QED BY <1>1, <1>3, <2>4, <2>5 DEF WholeAt, Block, EndsAt
<1>12. EventsAt(t)'
  BY <1>9, <1>10, <1>11 DEF EventsAt
<1> QED BY <1>5, <1>6, <1>7, <1>8, <1>12, StepKeeps

-----------------------------------------------------------------------------
(* Subscriptions *)

LEMMA SubscribeSetKeeps ==
    ASSUME PtyInv, NEW t \in Ids, SubscribeSet(t)
    PROVE  PtyInv'
<1> DEFINE s == subs + 1
<1>0. /\ PtyTypes /\ RegistryInv /\ SubsFit /\ OwnersAt(t) /\ OrderAt(t) /\ (t \notin raced => WholeAt(t))
      /\ load \in Loads /\ subs \in 0 .. MaxSub /\ target \in [Subs -> Ids \cup {None}]
      /\ subscribed \in [Subs -> {"none", "set", "done"}] /\ receiver \in [Subs -> BOOLEAN]
      /\ subscriber \in [Ids -> Subs \cup {None}] /\ raced \subseteq Ids /\ MaxSub \in Nat
  BY EventsOf, PtyBasics DEF PtyInv, EventsInv, PtyTypes, TypeOK
<1>1. /\ subs < load.subs /\ subs' = s /\ target' = [target EXCEPT ![s] = t]
      /\ subscribed' = [subscribed EXCEPT ![s] = "set"] /\ receiver' = [receiver EXCEPT ![s] = TRUE]
      /\ subscriber' = [subscriber EXCEPT ![t] = s]
      /\ raced' = IF Emitting(t) \/ Subscribing(t) THEN raced \cup {t} ELSE raced
      /\ UNCHANGED <<load, registryVars, consoleVars, reader, emitted, pending, stream, taken, command>>
  BY DEF SubscribeSet, MarkRace, emitVars
<1>2. s \in Subs /\ s > subs /\ subs' \in 0 .. MaxSub
  BY <1>0, <1>1, PtyBasics DEF Subs
<1>3. /\ target[s] = None /\ subscribed[s] = "none" /\ stream[s] = <<>> /\ taken[s] = 0
  BY <1>0, <1>2 DEF SubsFit
<1>31. \A r \in Subs : r \in Nat /\ (r > s => r > subs) /\ (r <= s /\ r # s => r <= subs) /\ (r > s => r # s)
  BY <1>0, PtyBasics DEF Subs
<1> HIDE DEF s
<1>4. /\ target' \in [Subs -> Ids \cup {None}] /\ target'[s] = t
      /\ \A r \in Subs : r # s => target'[r] = target[r]
  BY <1>0, <1>1, <1>2
<1>5. /\ subscribed' \in [Subs -> {"none", "set", "done"}] /\ subscribed'[s] = "set"
      /\ \A r \in Subs : r # s => subscribed'[r] = subscribed[r]
  BY <1>0, <1>1, <1>2
<1>6. /\ receiver' \in [Subs -> BOOLEAN]
      /\ subscriber' \in [Ids -> Subs \cup {None}] /\ subscriber'[t] = s
      /\ \A x \in Ids : x # t => subscriber'[x] = subscriber[x]
  BY <1>0, <1>1, <1>2
<1>7. raced' \subseteq Ids /\ raced \subseteq raced' /\ (t \notin raced' => ~Emitting(t) /\ ~Subscribing(t))
  BY <1>0, <1>1
<1>8. PtyTypes'
  BY <1>0, <1>1, <1>2, <1>4, <1>5, <1>6, <1>7, EventTypes DEF PtyTypes, TypeOK
<1>9. RegistryInv'
  BY <1>0, <1>1, EmitLeavesRegistry
<1>10. SubsFit'
  <2> SUFFICES ASSUME NEW r \in Subs
               PROVE  /\ r > s => target'[r] = None /\ subscribed'[r] = "none" /\ stream[r] = <<>> /\ taken[r] = 0
                      /\ r <= s => target'[r] \in Ids /\ subscribed'[r] # "none"
                      /\ subscribed'[r] = "set" => taken[r] = 0
                      /\ taken[r] <= Len(stream[r]) /\ Len(stream[r]) - taken[r] <= EventQueue
    BY <1>1 DEF SubsFit
  <2>1. taken[r] <= Len(stream[r]) /\ Len(stream[r]) - taken[r] <= EventQueue
    BY SubTypes
  <2>2. CASE r = s
    BY <1>2, <1>3, <1>4, <1>5, <1>31, <2>1, <2>2
  <2>3. CASE r # s
    BY <1>0, <1>4, <1>5, <1>31, <2>1, <2>3 DEF SubsFit
  <2> QED BY <2>2, <2>3
<1>11. \A x \in Ids : x # t => Same(x)
  <2> SUFFICES ASSUME NEW x \in Ids, x # t PROVE Same(x)
    OBVIOUS
  <2>1. \A r \in Subs : /\ target'[r] = x <=> target[r] = x
                        /\ target[r] = x => stream'[r] = stream[r] /\ subscribed'[r] = subscribed[r]
    BY <1>1, <1>3, <1>4, <1>5, PtyBasics
  <2> QED BY <1>1, <1>6, <1>7, <2>1 DEF Same
<1>12. EventsAt(t)'
  <2>0. Placed(t)' = Placed(t) /\ Emitting(t)' = Emitting(t)
    BY <1>1 DEF Placed, Emitting
  <2>1. OwnersAt(t)'
    <3>1. reader[t].pc \in {"send", "clear"} => reader[t].sender # s
      BY <1>0, <1>3, PtyBasics DEF OwnersAt
    <3> QED BY <1>0, <1>1, <1>4, <1>6, <2>0, <3>1 DEF OwnersAt
  <2>2. OrderAt(t)'
    <3>1. \A r \in Subs : target'[r] = t => \/ stream'[r] = <<>>
                                            \/ target[r] = t /\ stream'[r] = stream[r]
      BY <1>1, <1>3, <1>4
    <3> QED BY <1>0, <1>1, <2>0, <3>1, OrderStays
  <2>3. ASSUME t \notin raced' PROVE WholeAt(t)'
    <3>1. /\ WholeAt(t) /\ ~Emitting(t)
          /\ \A r \in Subs : target[r] = t => subscribed[r] # "set"
      BY <1>0, <1>7, <2>3 DEF Subscribing
    <3>2. reader'[t].pc \notin {"send", "clear", "push"}
      BY <1>1, <3>1 DEF Emitting
    <3>3. Block(pending[t])' /\ EndsAt(pending[t], Placed(t))'
      BY <1>1, <2>0, <3>1 DEF WholeAt, Block, EndsAt
    <3>4. ASSUME NEW r \in Subs, target'[r] = t
          PROVE  /\ Block(stream'[r]) /\ (subscribed'[r] = "set" => r = s /\ stream'[r] = <<>>)
                 /\ ~(subscriber'[t] = r /\ subscribed'[r] = "done")
      <4>1. CASE r = s
        BY <1>1, <1>3, <1>5, <4>1, EmptyQueue
      <4>2. CASE r # s
        BY <1>1, <1>4, <1>5, <1>6, <3>1, <3>4, <4>2 DEF WholeAt
      <4> QED BY <4>1, <4>2
    <3> QED BY <1>6, <3>2, <3>3, <3>4 DEF WholeAt, Block
  <2> QED BY <2>1, <2>2, <2>3 DEF EventsAt
<1> QED BY <1>8, <1>9, <1>10, <1>11, <1>12, StepKeeps

LEMMA SubscribeDrainKeeps ==
    ASSUME PtyInv, NEW s \in Subs, NEW t, t = target[s], SubscribeDrain(s)
    PROVE  PtyInv'
<1> DEFINE q == stream[s]
           p == pending[t]
           room == EventQueue - (Len(q) - taken[s])
           k == IF room < Len(p) THEN room ELSE Len(p)
           a == q \o SubSeq(p, 1, k)
<1>1. /\ subscribed[s] = "set" /\ subscribed' = [subscribed EXCEPT ![s] = "done"]
      /\ stream' = [stream EXCEPT ![s] = a]
      /\ pending' = [pending EXCEPT ![t] = <<>>]
      /\ raced' = IF Emitting(t) THEN raced \cup {t} ELSE raced
      /\ UNCHANGED <<load, registryVars, consoleVars, reader, emitted, subscriber, subs, target, receiver,
                     taken, command>>
  BY DEF SubscribeDrain, MarkRace, emitVars, PtyInv, PtyTypes
<1>2. /\ t \in Ids /\ s <= subs /\ taken[s] = 0 /\ q \in Seq(Nat) /\ Len(q) \in Nat /\ Len(q) <= EventQueue
      /\ EventQueue \in Nat /\ MaxPending \in Nat /\ MaxPending <= EventQueue
  BY <1>1, SubTypes, PtyBasics
<1>3. /\ PtyTypes /\ RegistryInv /\ SubsFit /\ OwnersAt(t) /\ OrderAt(t) /\ (t \notin raced => WholeAt(t))
      /\ p \in Seq(Nat) /\ Len(p) <= MaxPending /\ Len(p) \in Nat
  BY <1>2, EventsOf DEF PtyInv, EventsInv
<1> HIDE DEF q, p
<1>4. /\ k \in 0 .. Len(p) /\ Len(q) + k <= EventQueue /\ (q = <<>> => k = Len(p))
  <2>1. room = EventQueue - Len(q) /\ (q = <<>> => Len(q) = 0)
    BY <1>2, EmptyQueue
  <2> HIDE DEF room
  <2> QED BY <1>2, <1>3, <2>1
<1> HIDE DEF k, room
<1>5. /\ a \in Seq(Nat) /\ Len(a) = Len(q) + k
      /\ Distinct(q) /\ Distinct(p) /\ Apart(q, p) => Distinct(a)
      /\ \A n : Below(q, n) /\ Below(p, n) => Below(a, n)
      /\ \A r : Apart(q, r) /\ Apart(p, r) => Apart(a, r)
      /\ \A r : Apart(r, q) /\ Apart(r, p) => Apart(r, a)
      /\ q = <<>> /\ k = Len(p) => a = p
  BY ONLY <1>2, <1>3, <1>4, JoinedQueue
<1> HIDE DEF a
<1>6. /\ stream' \in [Subs -> Seq(Nat)] /\ stream'[s] = a
      /\ \A r \in Subs : r # s => stream'[r] = stream[r]
  BY <1>1, <1>3, <1>5 DEF PtyTypes
<1>7. /\ subscribed' \in [Subs -> {"none", "set", "done"}] /\ subscribed'[s] = "done"
      /\ \A r \in Subs : r # s => subscribed'[r] = subscribed[r]
  BY <1>1, <1>3 DEF PtyTypes
<1>8. /\ pending' \in [Ids -> Seq(Nat)] /\ pending'[t] = <<>>
      /\ \A x \in Ids : x # t => pending'[x] = pending[x]
  BY <1>1, <1>2, <1>3 DEF PtyTypes
<1>9. \A x \in Ids : Len(pending'[x]) <= MaxPending
  <2>1. Len(pending'[t]) <= MaxPending
    BY <1>2, <1>8, EmptyQueue
  <2>2. \A x \in Ids : Len(pending[x]) <= MaxPending
    BY <1>3 DEF PtyTypes, TypeOK
  <2> QED BY <1>8, <2>1, <2>2
<1>10. raced' \subseteq Ids /\ raced \subseteq raced' /\ (t \notin raced' => ~Emitting(t))
  BY <1>1, <1>2, <1>3 DEF PtyTypes, TypeOK
<1>11. PtyTypes'
  BY <1>1, <1>3, <1>6, <1>7, <1>8, <1>9, <1>10, EventTypes DEF PtyTypes, TypeOK
<1>12. RegistryInv'
  BY <1>1, <1>3, EmitLeavesRegistry
<1>13. SubsFit'
  <2> SUFFICES ASSUME NEW r \in Subs
               PROVE  /\ r > subs => target[r] = None /\ subscribed'[r] = "none" /\ stream'[r] = <<>> /\ taken[r] = 0
                      /\ r <= subs => target[r] \in Ids /\ subscribed'[r] # "none"
                      /\ subscribed'[r] = "set" => taken[r] = 0
                      /\ taken[r] <= Len(stream'[r]) /\ Len(stream'[r]) - taken[r] <= EventQueue
    BY <1>1 DEF SubsFit
  <2>1. CASE r = s
    <3>1. ~(s > subs)
      BY <1>1, <1>3 DEF SubsFit
    <3>2. taken[s] <= Len(a) /\ Len(a) - taken[s] <= EventQueue
      BY <1>2, <1>4, <1>5
    <3> QED BY <1>2, <1>6, <1>7, <2>1, <3>1, <3>2
  <2>2. CASE r # s
    BY <1>3, <1>6, <1>7, <2>2 DEF SubsFit
  <2> QED BY <2>1, <2>2
<1>14. \A x \in Ids : x # t => Same(x)
  BY <1>1, <1>6, <1>7, <1>8, <1>10 DEF Same
<1>15. /\ Below(p, Placed(t)) /\ Increasing(p)
       /\ \A r \in Subs : target[r] = t =>
             /\ Below(stream[r], Placed(t)) /\ Distinct(stream[r]) /\ Apart(stream[r], p)
             /\ \A w \in Subs : target[w] = t /\ w # r => Apart(stream[r], stream[w])
  BY <1>3 DEF OrderAt, p
<1>16. target[s] = t /\ stream[s] = q /\ pending[t] = p
  BY DEF q, p
<1>17. Placed(t)' = Placed(t) /\ Emitting(t)' = Emitting(t)
  BY <1>1 DEF Placed, Emitting
<1>18. OwnersAt(t)'
  BY <1>1, <1>3, <1>17 DEF OwnersAt
<1>19. OrderAt(t)'
  <2>1. Distinct(p)
    BY <1>3, <1>15, IncreasingIsDistinct
  <2>2. Below(a, Placed(t)) /\ Distinct(a)
    BY <1>5, <1>15, <1>16, <2>1
  <2>3. ASSUME NEW r \in Subs, target[r] = t, r # s PROVE Apart(a, stream[r]) /\ Apart(stream[r], a)
    <3>1. Apart(q, stream[r]) /\ Apart(stream[r], q) /\ Apart(stream[r], p)
      BY <1>15, <1>16, <2>3
    <3>2. Apart(p, stream[r])
      BY <3>1 DEF Apart
    <3> QED BY <1>5, <3>1, <3>2
  <2>4. ASSUME NEW r \in Subs, target[r] = t
        PROVE  /\ Below(stream'[r], Placed(t)) /\ Distinct(stream'[r]) /\ Apart(stream'[r], pending'[t])
               /\ \A w \in Subs : target[w] = t /\ w # r => Apart(stream'[r], stream'[w])
    <3>1. CASE r = s
      BY <1>6, <1>8, <2>2, <2>3, <3>1, EmptyQueue
    <3>2. CASE r # s
      <4>1. Below(stream'[r], Placed(t)) /\ Distinct(stream'[r]) /\ Apart(stream'[r], pending'[t])
        BY <1>6, <1>8, <1>15, <2>4, <3>2, EmptyQueue
      <4>2. ASSUME NEW w \in Subs, target[w] = t, w # r PROVE Apart(stream'[r], stream'[w])
        BY <1>6, <1>15, <2>3, <2>4, <3>2, <4>2
      <4> QED BY <4>1, <4>2
    <3> QED BY <3>1, <3>2
  <2>5. Below(pending'[t], Placed(t)') /\ Increasing(pending'[t])
    BY <1>8, EmptyQueue
  <2> QED BY <1>1, <1>17, <2>4, <2>5 DEF OrderAt, Below, Increasing, Distinct, Apart
<1>20. ASSUME t \notin raced' PROVE WholeAt(t)'
  <2>1. WholeAt(t) /\ ~Emitting(t)
    BY <1>3, <1>10, <1>20
  <2>2. subscriber[t] = s /\ q = <<>>
    BY <1>1, <1>16, <2>1 DEF WholeAt
  <2>3. a = p
    BY <1>4, <1>5, <2>2
  <2>4. Block(p) /\ EndsAt(p, Placed(t))
    BY <1>16, <2>1 DEF WholeAt
  <2>5. Block(pending'[t]) /\ EndsAt(pending'[t], Placed(t)')
    BY <1>8, EmptyQueue
  <2>6. ASSUME NEW r \in Subs, target'[r] = t
        PROVE  /\ Block(stream'[r]) /\ subscribed'[r] # "set"
               /\ subscriber'[t] = r /\ subscribed'[r] = "done" =>
                      pending'[t] = <<>> /\ EndsAt(stream'[r], Placed(t)')
    <3>1. CASE r = s
      BY <1>6, <1>7, <1>8, <1>17, <2>3, <2>4, <3>1
    <3>2. CASE r # s
      BY <1>1, <1>6, <1>7, <2>1, <2>2, <2>6, <3>2 DEF WholeAt
    <3> QED BY <3>1, <3>2
  <2>7. reader'[t].pc \notin {"send", "clear", "push"}
    BY <1>1, <2>1 DEF Emitting
  <2> QED BY <2>5, <2>6, <2>7 DEF WholeAt, Block, EndsAt
<1>21. EventsAt(t)'
  BY <1>18, <1>19, <1>20 DEF EventsAt
<1>22. t \in Ids /\ \A x \in Ids : x # t => Same(x)
  BY <1>2, <1>14
<1> QED BY <1>11, <1>12, <1>13, <1>21, <1>22, StepKeeps

LEMMA ForwardKeeps ==
    ASSUME PtyInv, NEW s \in Subs, Forward(s) \/ ForwardEnds(s)
    PROVE  PtyInv'
<1>0. PtyTypes /\ RegistryInv /\ SubsFit /\ taken \in [Subs -> Nat] /\ receiver \in [Subs -> BOOLEAN]
  BY DEF PtyInv, EventsInv, PtyTypes
<1>1. /\ taken' \in [Subs -> Nat] /\ receiver' \in [Subs -> BOOLEAN] /\ subscribed[s] = "done"
      /\ \A r \in Subs : r # s => taken'[r] = taken[r]
      /\ taken'[s] = taken[s] \/ (taken'[s] = taken[s] + 1 /\ taken[s] < Len(stream[s]))
      /\ UNCHANGED <<load, registryVars, consoleVars, reader, emitted, subscriber, pending, subs, target,
                     subscribed, stream, raced, command>>
  <2>1. CASE Forward(s)
    BY <1>0, <2>1 DEF Forward, emitVars, sessionVars
  <2>2. CASE ForwardEnds(s)
    BY <1>0, <2>2 DEF ForwardEnds, emitVars, sessionVars
  <2> QED BY <2>1, <2>2
<1>2. PtyTypes'
  BY <1>0, <1>1, EventTypes DEF PtyTypes, TypeOK
<1>3. RegistryInv'
  BY <1>0, <1>1, EmitLeavesRegistry
<1>4. SubsFit'
  <2>1. s <= subs /\ ~(s > subs) /\ target[s] \in Ids
    BY <1>0, <1>1, SubTypes DEF SubsFit
  <2>2. /\ taken[s] \in Nat /\ Len(stream[s]) \in Nat /\ Len(stream[s]) - taken[s] <= EventQueue
        /\ taken[s] <= Len(stream[s]) /\ EventQueue \in Nat
    BY SubTypes, PtyBasics
  <2>3. taken'[s] <= Len(stream[s]) /\ Len(stream[s]) - taken'[s] <= EventQueue
    BY <1>1, <2>2
  <2> QED BY <1>0, <1>1, <2>1, <2>3 DEF SubsFit
<1>5. \A x \in Ids : EventsAt(x)'
  BY <1>1, ElsewhereKeeps DEF Same
<1> QED BY <1>2, <1>3, <1>4, <1>5 DEF PtyInv, EventsInv

-----------------------------------------------------------------------------
(* The invariant *)

LEMMA PtyInitHolds ==
    ASSUME PtyInit
    PROVE  PtyInv
<1> USE DEF PtyInit
<1>1. Cardinality({}) = 0 /\ MaxSessions \in Nat /\ MaxPending \in Nat /\ MaxId \in Nat /\ MaxSub \in Nat
      /\ EventQueue \in Nat
  BY FS_EmptySet, PtyBasics
<1>2. PtyTypes
  BY <1>1, IdleIsTyped, NoReaderIsTyped, EmptyQueue DEF PtyTypes, TypeOK
<1>3. RegistryInv
  BY IdleIsTyped, NoReaderIsTyped DEF RegistryInv, CommandsFit, FreshFit, ShellsHeld, ReadersFollow, Holding
<1>4. SubsFit
  BY <1>1, EmptyQueue DEF SubsFit, Subs
<1>5. ASSUME NEW t \in Ids PROVE EventsAt(t)
  <2>1. ~Emitting(t) /\ reader[t].pc = "none" /\ t # None
    BY NoReaderIsTyped, PtyBasics DEF Emitting
  <2>2. OwnersAt(t)
    BY <2>1 DEF OwnersAt
  <2>3. OrderAt(t)
    BY <2>1, EmptyQueue DEF OrderAt
  <2>4. WholeAt(t)
    BY <2>1, EmptyQueue DEF WholeAt
  <2> QED BY <2>2, <2>3, <2>4 DEF EventsAt
<1> QED BY <1>2, <1>3, <1>4, <1>5 DEF PtyInv, EventsInv

LEMMA CommandKeepsEvents ==
    ASSUME PtyInv, NEW u \in Callers,
           OpenStep(u) \/ CloseStep(u) \/ shutdown(u) \/ \E t \in Ids : close(u, t)
    PROVE  EventsInv'
<1>0. PtyTypes /\ CommandsFit
  BY DEF PtyInv, RegistryInv
<1>1. CASE spawn_reader(u)
  <2>1. command[u].id \in Ids /\ reader[command[u].id].pc = "none"
    BY <1>0, <1>1 DEF spawn_reader, CommandsFit, Holding
  <2>2. PICK new \in ReaderStates : reader' = [reader EXCEPT ![command[u].id] = new] /\ new.pc = "read"
    BY <1>0, <1>1, <2>1, GotoReaderMoves DEF spawn_reader
  <2>3. reader'[command[u].id] = new /\ \A x \in Ids : x # command[u].id => reader'[x] = reader[x]
    BY <1>0, <2>1, <2>2, ReaderMoves
  <2>4. UNCHANGED <<emitted, sessionVars, subVars, raced>>
    BY <1>1 DEF spawn_reader
  <2> QED BY <2>1, <2>2, <2>3, <2>4, QuietKeeps
<1>2. CASE ~spawn_reader(u)
  <2>1. UNCHANGED <<reader, emitted, sessionVars, subVars, raced>>
    <3>1. CASE OpenStep(u)
      BY <1>2, <3>1 DEF OpenStep, OpenCheck, OpenFails, OpenSpawn, HandlesFail, OpenInsert, SpawnReaderFails, emitVars
    <3>2. CASE CloseStep(u)
      BY <3>2 DEF CloseStep, CloseKill, CloseMaster, ShutdownNext, Unregister, emitVars
    <3>3. CASE shutdown(u) \/ \E t \in Ids : close(u, t)
      BY <3>3 DEF shutdown, close, Unregister, emitVars
    <3> QED BY <3>1, <3>2, <3>3
  <2> QED BY <2>1, QuietKeeps
<1> QED BY <1>1, <1>2

LEMMA ReaderKeeps ==
    ASSUME PtyInv, NEW t \in Ids, ReaderStep(t) \/ ReadData(t) \/ ReadError(t)
    PROVE  PtyInv'
<1>1. CASE ReadEof(t)
  <2>0. PtyTypes /\ RegistryInv
    BY DEF PtyInv
  <2>1. /\ reader[t].pc = "read" /\ GotoReader(t, "reap")
        /\ UNCHANGED <<load, registryVars, consoleVars, emitted, sessionVars, subVars, raced, command>>
    BY <1>1 DEF ReadEof
  <2>2. PICK new \in ReaderStates : reader' = [reader EXCEPT ![t] = new] /\ new.pc = "reap"
    BY <2>0, <2>1, GotoReaderMoves
  <2>3. /\ reader' \in [Ids -> ReaderStates] /\ reader'[t] = new
        /\ \A x \in Ids : x # t => reader'[x] = reader[x]
    BY <2>0, <2>2, ReaderMoves
  <2>4. EventsInv'
    BY <2>1, <2>2, <2>3, QuietKeeps
  <2>5. RegistryInv'
    BY <2>0, <2>1, <2>2, <2>3, EmitLeavesRegistry
  <2>6. PtyTypes'
    BY <2>0, <2>1, <2>3 DEF PtyTypes, TypeOK, registryVars, consoleVars, sessionVars, subVars
  <2> QED BY <2>4, <2>5, <2>6 DEF PtyInv
<1>2. CASE child_exit_code(t)
  BY <1>2, MakeKeeps DEF child_exit_code
<1>3. CASE ReadData(t)
  BY <1>3, MakeKeeps DEF ReadData
<1>4. CASE ReadError(t)
  BY <1>4, MakeKeeps DEF ReadError
<1> QED BY <1>1, <1>2, <1>3, <1>4, EmitCloneKeeps, EmitSendKeeps, EmitFailsKeeps, EmitClearKeeps, EmitPushKeeps
        DEF ReaderStep, EmitStep

LEMMA PtyNextKeeps ==
    ASSUME PtyInv, [PtyNext]_ptyVars
    PROVE  PtyInv'
<1>0. PtyTypes /\ RegistryInv
  BY DEF PtyInv
<1>1. ASSUME NEW u \in Callers,
             OpenStep(u) \/ CloseStep(u) \/ shutdown(u) \/ \E t \in Ids : close(u, t)
      PROVE  PtyInv'
  <2>1. PtyTypes' /\ RegistryInv'
    BY <1>0, <1>1, OpenKeeps, CloseKeeps
  <2>2. EventsInv'
    BY <1>1, CommandKeepsEvents
  <2> QED BY <2>1, <2>2 DEF PtyInv
<1>2. ASSUME NEW t \in Ids, ChildExits(t) PROVE PtyInv'
  <2>1. EventsInv'
    BY <1>2, QuietKeeps DEF ChildExits, emitVars
  <2> QED BY <1>0, <1>2, <2>1, ExitKeeps DEF PtyInv
<1>3. CASE UNCHANGED ptyVars
  <2>1. UNCHANGED <<load, sessions, next_id, master, running, lingering, hung_up, reader, emitted,
                    sessionVars, subVars, raced, command>>
    BY <1>3 DEF ptyVars, registryVars, consoleVars, emitVars
  <2>2. EventsInv'
    BY <2>1, QuietKeeps
  <2>3. RegistryInv'
    BY <1>0, <2>1, EmitLeavesRegistry DEF registryVars, consoleVars
  <2>4. PtyTypes'
    BY <1>0, <2>1 DEF PtyTypes, TypeOK, sessionVars, subVars
  <2> QED BY <2>2, <2>3, <2>4 DEF PtyInv
<1>4. ASSUME NEW s \in Subs, SubscribeDrain(s) PROVE PtyInv'
  BY <1>4, SubscribeDrainKeeps
<1> QED BY <1>1, <1>2, <1>3, <1>4, ReaderKeeps, SubscribeSetKeeps, ForwardKeeps DEF PtyNext

\* What the inductive invariant says about the registry, the shells and the
\* streams.
LEMMA PtyInvImplies ==
    ASSUME PtyInv
    PROVE  TerminalInv
<1>0. PtyTypes /\ RegistryInv /\ TypeOK /\ sessions \subseteq Ids
  BY DEF PtyInv, PtyTypes, TypeOK
<1>1. RegisteredHasReader
  BY <1>0 DEF RegistryInv, ReadersFollow, RegisteredHasReader, InHand
<1>2. NoOrphanShell
  BY <1>0 DEF RegistryInv, ShellsHeld, NoOrphanShell, InHand
<1>3. StreamIsWholeUnlessRaced
  <2> SUFFICES ASSUME NEW s \in Subs, subs >= s, target[s] \notin raced
               PROVE  Block(stream[s])
    BY DEF StreamIsWholeUnlessRaced, Block
  <2>1. target[s] \in Ids
    BY DEF PtyInv, EventsInv, SubsFit
  <2> QED BY <2>1, EventsOf DEF WholeAt
<1>4. DeliveredOnce
  <2> SUFFICES ASSUME NEW s \in Subs, NEW r \in Subs, target[s] = target[r], target[s] # None,
                      NEW i \in 1 .. Len(stream[s])
               PROVE  /\ \A j \in 1 .. Len(stream[r]) : stream[s][i] = stream[r][j] => s = r /\ i = j
                      /\ ~Contains(pending[target[s]], stream[s][i])
    BY DEF DeliveredOnce
  <2>1. target[s] \in Ids
    BY SubTypes
  <2>2. /\ Distinct(stream[s]) /\ Apart(stream[s], pending[target[s]])
        /\ s # r => Apart(stream[s], stream[r])
    BY <2>1, EventsOf DEF OrderAt
  <2>3. ~Contains(pending[target[s]], stream[s][i])
    BY <2>2 DEF Contains, Apart
  <2>4. ASSUME NEW j \in 1 .. Len(stream[r]), stream[s][i] = stream[r][j] PROVE s = r /\ i = j
    <3>1. s = r
      BY <2>2, <2>4 DEF Apart
    <3> QED BY <2>2, <2>4, <3>1 DEF Distinct
  <2> QED BY <2>3, <2>4
<1> QED BY <1>0, <1>1, <1>2, <1>3, <1>4 DEF TerminalInv

\* However open, close, shutdown, subscribe, the readers and the forwarders
\* interleave, the registry keeps its limit, every registered terminal has or
\* gets a reader, no shell is left that nobody will kill, streams are whole
\* where no subscribe overlapped an emit, and no event is delivered twice.
THEOREM TerminalInvHolds == PtySpec => []TerminalInv
<1>1. PtyInit => PtyInv
  BY PtyInitHolds
<1>2. PtyInv /\ [PtyNext]_ptyVars => PtyInv'
  BY PtyNextKeeps
<1>3. PtyInv => TerminalInv
  BY PtyInvImplies
<1> QED BY <1>1, <1>2, <1>3, PTL DEF PtySpec
=============================================================================
