-------------------------- MODULE TransferManager ---------------------------
(***************************************************************************)
(* TransferManager of kodework-sftp (manager.rs): enqueue, pause, resume,  *)
(* cancel and retry of streaming transfers, the worker task of each run of *)
(* a transfer, the destination leases, the .part file and the rename that  *)
(* publishes it, and the reaper.                                           *)
(*                                                                         *)
(* Uploads and downloads run the same protocol and are not told apart.  A  *)
(* file is a sequence of chunks; a chunk is tagged with the source and the *)
(* version of the source it was read from, so that files are equal exactly *)
(* when their bytes are.                                                   *)
(***************************************************************************)
EXTENDS Naturals, Sequences, FiniteSets

CONSTANTS
    Transfers,      \* transfer ids
    NoTransfer,     \* a destination without lease
    Destinations,   \* lease keys: normalised destination paths
    Dest,           \* the destination of each transfer
    Chunks,         \* bound: chunks of a source file
    MaxPermits,     \* max_concurrency
    MaxRetries,     \* automatic retries of a transfer
    RetryCalls,     \* bound: calls of retry(id), each a task of its own
    PoliteRetry,    \* clients retry only what was reported to have ended
    MaxVersions,    \* bound: versions of a source file
    MaxPauses       \* bound: calls of pause(id)

ASSUME TransfersAssumption ==
    /\ NoTransfer \notin Transfers
    /\ Dest \in [Transfers -> Destinations]
    /\ PoliteRetry \in BOOLEAN
ASSUME BoundsAssumption ==
    /\ Chunks \in Nat \ {0} /\ MaxPermits \in Nat \ {0} /\ MaxVersions \in Nat \ {0}
    /\ MaxRetries \in Nat /\ MaxPauses \in Nat
    /\ IsFiniteSet(RetryCalls)

(* The worker of the n-th run of t is <<t, n>>; TransferControls.generation *)
(* counts the runs.                                                        *)
MaxRuns == 1 + Cardinality(RetryCalls)
Workers == Transfers \X (1..MaxRuns)

VARIABLES
    known,      \* transfers in the controls and requests maps
    lease,      \* TransferLeaseRegistry: owner of each destination
    pumpAlive,  \* pump_alive
    paused, cancelled, running, runs, retriesLeft,  \* TransferControls
    pauses,     \* pause calls so far
    resumable,  \* TransferRequest.resume
    at,         \* where each worker stands
    opened,     \* the worker's attempt has its files open
    offset,     \* chunks the worker's attempt has written
    began,      \* source version when the worker's attempt opened it
    retrying,   \* where each retry call stands, and for which transfer
    version,    \* current version of each transfer's source
    part,       \* the .part file of each destination, <<>> if not there
    partExists,
    published   \* the destination file itself, <<>> before the first rename

controlVars == <<paused, cancelled, running, runs, retriesLeft>>
requestVars == <<resumable, pauses>>
workerVars == <<at, opened, offset, began>>
fileVars == <<part, partExists, published>>
vars == <<known, lease, pumpAlive, controlVars, requestVars, workerVars,
          retrying, version, fileVars>>

Waits == {"pause_check", "arming", "waiting"}
Writes == {"chunk", "verify", "rename"}
Failures == {"Cancelled", "Backend", "Fatal"}
Holding == Waits \cup Writes \cup {"open", "proceed", "stopping", "releasing"}
               \cup Failures
Ended == {"reap_wait", "reap_remove", "gone"}
Step == {"none", "queued"} \cup Holding \cup Ended
Chunk == Transfers \X (1..MaxVersions)
Hole == <<NoTransfer, 0>>
File == UNION {[1..n -> Chunk \cup {Hole}] : n \in 0..Chunks}

TypeOK ==
    /\ known \subseteq Transfers
    /\ lease \in [Destinations -> Transfers \cup {NoTransfer}]
    /\ pumpAlive \in BOOLEAN
    /\ paused \in [Transfers -> BOOLEAN]
    /\ cancelled \in [Transfers -> BOOLEAN]
    /\ running \in [Transfers -> BOOLEAN]
    /\ runs \in [Transfers -> 0..MaxRuns]
    /\ retriesLeft \in [Transfers -> 0..MaxRetries]
    /\ pauses \in 0..MaxPauses
    /\ resumable \in [Transfers -> BOOLEAN]
    /\ at \in [Workers -> Step]
    /\ opened \in [Workers -> BOOLEAN]
    /\ offset \in [Workers -> 0..Chunks]
    /\ began \in [Workers -> 0..MaxVersions]
    /\ retrying \in [RetryCalls ->
                       {"none", "poll", "reset", "leased", "done"}
                         \X (Transfers \cup {NoTransfer})]
    /\ version \in [Transfers -> 1..MaxVersions]
    /\ part \in [Destinations -> File]
    /\ partExists \in [Destinations -> BOOLEAN]
    /\ published \in [Destinations -> File]

Init ==
    /\ known = {}
    /\ lease = [d \in Destinations |-> NoTransfer]
    /\ pumpAlive = TRUE
    /\ paused = [t \in Transfers |-> FALSE]
    /\ cancelled = [t \in Transfers |-> FALSE]
    /\ running = [t \in Transfers |-> FALSE]
    /\ runs = [t \in Transfers |-> 0]
    /\ retriesLeft = [t \in Transfers |-> MaxRetries]
    /\ pauses = 0
    /\ resumable \in [Transfers -> BOOLEAN]
    /\ at = [w \in Workers |-> "none"]
    /\ opened = [w \in Workers |-> FALSE]
    /\ offset = [w \in Workers |-> 0]
    /\ began = [w \in Workers |-> 0]
    /\ retrying = [c \in RetryCalls |-> <<"none", NoTransfer>>]
    /\ version = [t \in Transfers |-> 1]
    /\ part = [d \in Destinations |-> << >>]
    /\ partExists = [d \in Destinations |-> FALSE]
    /\ published = [d \in Destinations |-> << >>]

-----------------------------------------------------------------------------
(* enqueue_internal and spawn_worker *)

Spawn(t) ==
    /\ runs' = [runs EXCEPT ![t] = @ + 1]
    /\ at' = [at EXCEPT ![<<t, runs[t] + 1>>] = "queued"]

(* A destination that is leased is refused as DestinationBusy, and nothing *)
(* changes.                                                                *)
Enqueue(t) ==
    /\ runs[t] = 0
    /\ lease[Dest[t]] = NoTransfer
    /\ lease' = [lease EXCEPT ![Dest[t]] = t]
    /\ known' = known \cup {t}
    /\ Spawn(t)
    /\ UNCHANGED <<pumpAlive, paused, cancelled, running, retriesLeft,
                   requestVars, opened, offset, began, retrying, version, fileVars>>

-----------------------------------------------------------------------------
(* pause, resume, cancel.  notify_waiters wakes the workers whose Notified *)
(* exists, and no others.                                                  *)

NotifyWaiters(t) ==
    at' = [w \in Workers |->
              IF w[1] = t /\ at[w] = "waiting" THEN "pause_check" ELSE at[w]]

Pause(t) ==
    /\ t \in known
    /\ pauses < MaxPauses
    /\ pauses' = pauses + 1
    /\ paused' = [paused EXCEPT ![t] = TRUE]
    /\ UNCHANGED <<known, lease, pumpAlive, cancelled, running, runs,
                   retriesLeft, resumable, workerVars, retrying, version, fileVars>>

Resume(t) ==
    /\ t \in known
    /\ paused' = [paused EXCEPT ![t] = FALSE]
    /\ NotifyWaiters(t)
    /\ UNCHANGED <<known, lease, pumpAlive, cancelled, running, runs,
                   retriesLeft, requestVars, opened, offset, began, retrying,
                   version, fileVars>>

(* Mutant: cancel frees the destination itself. *)
CancelMutant(t) ==
    /\ t \in known
    /\ cancelled' = [cancelled EXCEPT ![t] = TRUE]
    /\ lease' = [lease EXCEPT ![Dest[t]] = NoTransfer]
    /\ NotifyWaiters(t)
    /\ UNCHANGED <<known, pumpAlive, paused, running, runs, retriesLeft,
                   requestVars, opened, offset, began, retrying, version, fileVars>>

Cancel(t) ==
    /\ t \in known
    /\ cancelled' = [cancelled EXCEPT ![t] = TRUE]
    /\ NotifyWaiters(t)
    /\ UNCHANGED <<known, lease, pumpAlive, paused, running, runs, retriesLeft,
                   requestVars, opened, offset, began, retrying, version, fileVars>>

-----------------------------------------------------------------------------
(* retry *)

(* A failure or cancellation is reported just before run_transfer returns. *)
ReportedEnded(t) ==
    runs[t] > 0 /\ at[<<t, runs[t]>>] \in {"stopping", "releasing"} \cup Ended

RetryBegin(c, t) ==
    /\ retrying[c][1] = "none"
    /\ t \in known
    /\ PoliteRetry => /\ ReportedEnded(t)
                      /\ \A k \in RetryCalls : retrying[k][2] # t
    /\ retrying' = [retrying EXCEPT ![c] = <<"poll", t>>]
    /\ UNCHANGED <<known, lease, pumpAlive, controlVars, requestVars,
                   workerVars, version, fileVars>>

(* The previous worker has left run_transfer: reset the controls. *)
RetryReset(c) ==
    LET t == retrying[c][2] IN
    /\ retrying[c][1] = "poll"
    /\ ~running[t]
    /\ cancelled' = [cancelled EXCEPT ![t] = FALSE]
    /\ paused' = [paused EXCEPT ![t] = FALSE]
    /\ retriesLeft' = [retriesLeft EXCEPT ![t] = MaxRetries]
    /\ retrying' = [retrying EXCEPT ![c] = <<"reset", t>>]
    /\ UNCHANGED <<known, lease, pumpAlive, running, runs, requestVars,
                   workerVars, version, fileVars>>

(* "transfer worker did not stop", or DestinationBusy. *)
RetryFails(c) ==
    LET t == retrying[c][2] IN
    /\ \/ retrying[c][1] = "poll" /\ running[t]
       \/ retrying[c][1] = "reset" /\ lease[Dest[t]] \notin {t, NoTransfer}
    /\ retrying' = [retrying EXCEPT ![c] = <<"done", NoTransfer>>]
    /\ UNCHANGED <<known, lease, pumpAlive, controlVars, requestVars,
                   workerVars, version, fileVars>>

RetryLease(c) ==
    LET t == retrying[c][2] IN
    /\ retrying[c][1] = "reset"
    /\ lease[Dest[t]] \in {t, NoTransfer}
    /\ lease' = [lease EXCEPT ![Dest[t]] = t]
    /\ retrying' = [retrying EXCEPT ![c] = <<"leased", t>>]
    /\ UNCHANGED <<known, pumpAlive, controlVars, requestVars, workerVars,
                   version, fileVars>>

RetrySpawn(c) ==
    /\ retrying[c][1] = "leased"
    /\ Spawn(retrying[c][2])
    /\ retrying' = [retrying EXCEPT ![c] = <<"done", NoTransfer>>]
    /\ UNCHANGED <<known, lease, pumpAlive, paused, cancelled, running,
                   retriesLeft, requestVars, opened, offset, began, version, fileVars>>

-----------------------------------------------------------------------------
(* The worker: semaphore, then run_transfer *)

Goto(w, from, to) == at[w] = from /\ at' = [at EXCEPT ![w] = to]

AcquirePermit(w) ==
    /\ Cardinality({v \in Workers : at[v] \in Holding}) < MaxPermits
    /\ Goto(w, "queued", "pause_check")
    /\ running' = [running EXCEPT ![w[1]] = TRUE]
    /\ UNCHANGED <<known, lease, pumpAlive, paused, cancelled, runs,
                   retriesLeft, requestVars, opened, offset, began, retrying,
                   version, fileVars>>

WorkerStays == UNCHANGED <<known, lease, pumpAlive, controlVars, requestVars,
                           opened, offset, began, retrying, version, fileVars>>

(* wait_while_paused: the load of paused, the creation of the Notified,    *)
(* and the wait.                                                           *)
PauseCheck(w) ==
    /\ Goto(w, "pause_check", IF paused[w[1]] THEN "arming" ELSE "proceed")
    /\ WorkerStays

Arm(w) == Goto(w, "arming", "waiting") /\ WorkerStays

(* The checks after the wait, at the start and before every chunk. *)
Proceed(w) ==
    /\ Goto(w, "proceed",
            IF cancelled[w[1]] \/ ~pumpAlive THEN "Cancelled"
            ELSE IF opened[w] THEN "chunk" ELSE "open")
    /\ WorkerStays

(* upload, download: open the source and the .part, resuming after an      *)
(* existing prefix of the source, else truncating.  The identity of the    *)
(* source is taken first, so a change during the awaits that follow is     *)
(* refused by Verify like one right after them: one step is enough.        *)
Open(w) ==
    LET t == w[1]
        d == Dest[t]
        source == [i \in 1..Chunks |-> <<t, version[t]>>]
        keep == resumable[t] /\ part[d] = SubSeq(source, 1, Len(part[d]))
    IN  /\ Goto(w, "open", "pause_check")
        /\ opened' = [opened EXCEPT ![w] = TRUE]
        /\ began' = [began EXCEPT ![w] = version[t]]
        /\ part' = [part EXCEPT ![d] = IF keep THEN @ ELSE << >>]
        /\ partExists' = [partExists EXCEPT ![d] = TRUE]
        /\ offset' = [offset EXCEPT ![w] = IF keep THEN Len(part[d]) ELSE 0]
        /\ UNCHANGED <<known, lease, pumpAlive, controlVars, requestVars,
                       retrying, version, published>>

(* A file with one chunk written at an offset; a write past the end leaves *)
(* a hole.                                                                 *)
WrittenAt(file, i, chunk) ==
    [j \in 1..(IF i > Len(file) THEN i ELSE Len(file)) |->
        IF j = i THEN chunk ELSE IF j <= Len(file) THEN file[j] ELSE Hole]

(* Read the next chunk and write it, or see the end of the source. *)
TransferChunk(w) ==
    LET t == w[1]
        d == Dest[t]
    IN  /\ IF offset[w] = Chunks
             THEN Goto(w, "chunk", "verify") /\ UNCHANGED <<offset, part>>
             ELSE /\ Goto(w, "chunk", "pause_check")
                  /\ offset' = [offset EXCEPT ![w] = @ + 1]
                  /\ part' = [part EXCEPT ![d] =
                                WrittenAt(@, offset[w] + 1, <<t, version[t]>>)]
        /\ UNCHANGED <<known, lease, pumpAlive, controlVars, requestVars,
                       opened, began, retrying, version, partExists, published>>

(* Mutant: the source is not looked at again before the rename. *)
VerifyMutant(w) == Goto(w, "verify", "rename") /\ WorkerStays

(* Compare the source's identity with the one at the start. *)
Verify(w) ==
    /\ Goto(w, "verify", IF version[w[1]] = began[w] THEN "rename" ELSE "Fatal")
    /\ WorkerStays

(* Publish the .part; without one the rename is a backend error.  Where a  *)
(* download replaces a file on Windows, the old one is moved aside and     *)
(* back if the rename fails; nothing of the manager looks in between.      *)
Rename(w) ==
    LET d == Dest[w[1]] IN
    /\ Goto(w, "rename", IF partExists[d] THEN "stopping" ELSE "Backend")
    /\ published' = [published EXCEPT ![d] = IF partExists[d] THEN part[d] ELSE @]
    /\ part' = [part EXCEPT ![d] = << >>]
    /\ partExists' = [partExists EXCEPT ![d] = FALSE]
    /\ UNCHANGED <<known, lease, pumpAlive, controlVars, requestVars, opened,
                   offset, began, retrying, version>>

(* Any file or network operation of upload or download may fail: Backend   *)
(* errors are retryable, the others (disk full, source gone) are not.      *)
OperationFails(w) ==
    /\ \E from \in {"open", "chunk", "verify", "rename"} :
          \E error \in {"Backend", "Fatal"} : Goto(w, from, error)
    /\ WorkerStays

(* Mutant: the retries are not counted down. *)
AttemptFailsMutant(w) ==
    LET t == w[1]
        again == at[w] = "Backend" /\ ~cancelled[t] /\ retriesLeft[t] > 0
    IN  /\ \E error \in Failures :
              Goto(w, error, IF again THEN "pause_check" ELSE "stopping")
        /\ opened' = [opened EXCEPT ![w] = FALSE]
        /\ UNCHANGED <<known, lease, pumpAlive, controlVars, requestVars,
                       offset, began, retrying, version, fileVars>>

(* run_transfer's loop over the errors of attempt_transfer. *)
AttemptFails(w) ==
    LET t == w[1]
        again == at[w] = "Backend" /\ ~cancelled[t] /\ retriesLeft[t] > 0
    IN  /\ \E error \in Failures :
              Goto(w, error, IF again THEN "pause_check" ELSE "stopping")
        /\ retriesLeft' = [retriesLeft EXCEPT ![t] = IF again THEN @ - 1 ELSE @]
        /\ opened' = [opened EXCEPT ![w] = FALSE]
        /\ UNCHANGED <<known, lease, pumpAlive, paused, cancelled, running,
                       runs, requestVars, offset, began, retrying, version,
                       fileVars>>

(* RunningGuard::drop as run_transfer returns. *)
StopRunning(w) ==
    /\ Goto(w, "stopping", "releasing")
    /\ running' = [running EXCEPT ![w[1]] = FALSE]
    /\ UNCHANGED <<known, lease, pumpAlive, paused, cancelled, runs,
                   retriesLeft, requestVars, opened, offset, began, retrying,
                   version, fileVars>>

release_lease(t) ==
    lease' = [lease EXCEPT ![Dest[t]] = IF @ = t THEN NoTransfer ELSE @]

ReleaseLease(w) ==
    /\ Goto(w, "releasing", "reap_wait")
    /\ release_lease(w[1])
    /\ UNCHANGED <<known, pumpAlive, controlVars, requestVars, opened, offset,
                   began, retrying, version, fileVars>>

(* REAP_DELAY later: the entries go unless the transfer was run again. *)
ReapCheck(w) ==
    /\ Goto(w, "reap_wait",
            IF runs[w[1]] = w[2] /\ ~running[w[1]] THEN "reap_remove" ELSE "gone")
    /\ WorkerStays

ReapRemove(w) ==
    /\ Goto(w, "reap_remove", "gone")
    /\ known' = known \ {w[1]}
    /\ release_lease(w[1])
    /\ UNCHANGED <<pumpAlive, controlVars, requestVars, opened, offset, began,
                   retrying, version, fileVars>>

-----------------------------------------------------------------------------
(* The environment: the source file changes, the session is disconnected.  *)

SourceChanges(t) ==
    /\ version[t] < MaxVersions
    /\ version' = [version EXCEPT ![t] = @ + 1]
    /\ UNCHANGED <<known, lease, pumpAlive, controlVars, requestVars,
                   workerVars, retrying, fileVars>>

event_pump_stopped ==
    /\ pumpAlive
    /\ pumpAlive' = FALSE
    /\ UNCHANGED <<known, lease, controlVars, requestVars, workerVars,
                   retrying, version, fileVars>>

-----------------------------------------------------------------------------
WorkerStep(w) ==
    \/ AcquirePermit(w) \/ PauseCheck(w) \/ Arm(w) \/ Proceed(w) \/ Open(w)
    \/ TransferChunk(w) \/ Verify(w) \/ Rename(w) \/ OperationFails(w)
    \/ AttemptFails(w) \/ StopRunning(w) \/ ReleaseLease(w)
    \/ ReapCheck(w) \/ ReapRemove(w)

RetryStep(c) ==
    RetryReset(c) \/ RetryFails(c) \/ RetryLease(c) \/ RetrySpawn(c)

Next ==
    \/ \E t \in Transfers : Enqueue(t) \/ Pause(t) \/ Resume(t) \/ Cancel(t)
                               \/ SourceChanges(t)
    \/ \E c \in RetryCalls, t \in Transfers : RetryBegin(c, t)
    \/ \E c \in RetryCalls : RetryStep(c)
    \/ \E w \in Workers : WorkerStep(w)
    \/ event_pump_stopped

(* Workers and retry calls are tasks of the runtime, and every file        *)
(* operation ends.  The semaphore serves its waiters in order.  Clients    *)
(* owe nothing: a paused transfer need not be resumed.                     *)
Fairness ==
    /\ \A w \in Workers : WF_vars(WorkerStep(w)) /\ SF_vars(AcquirePermit(w))
    /\ \A c \in RetryCalls : WF_vars(RetryStep(c))

Spec == Init /\ [][Next]_vars /\ Fairness

-----------------------------------------------------------------------------
(* Properties *)

Active(w) == at[w] \in Holding \ {"stopping", "releasing"}

(* The rename never publishes a torn file: what stands at a destination is *)
(* one version of one source, whole, through source changes, failures,     *)
(* resumed .part files of other runs and cancellation.                     *)
PublishedIsWhole ==
    \A d \in Destinations :
        \/ published[d] = << >>
        \/ \E chunk \in Chunk : published[d] = [i \in 1..Chunks |-> chunk]

(* A worker that works on a transfer that was not retried holds the lease  *)
(* of its destination, and the transfer can be paused and cancelled by its *)
(* id.  (After retry(id), the old worker's release may take the new lease.)*)
ActiveIsLeased ==
    \A w \in Workers :
        Active(w) /\ runs[w[1]] = 1 => lease[Dest[w[1]]] = w[1] /\ w[1] \in known

(* As long as nothing is paused, every transfer gives its destination      *)
(* back, whatever fails: no error path, no queue for a permit and no dead  *)
(* event pump keeps the lease.  (A paused transfer keeps its permit, so it *)
(* can hold up others.)                                                    *)
UnpausedFreesDestination ==
    [](\A t \in Transfers : ~paused[t]) =>
        \A t \in Transfers : (lease[Dest[t]] = t) ~> (lease[Dest[t]] # t)
=============================================================================
