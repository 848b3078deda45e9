---------------------- MODULE TransfersAndEventsProofs ----------------------
(***************************************************************************)
(* Proofs about TransferManager as the desktop uses it, which is without   *)
(* retry(id): for any number of transfers, destinations, permits, chunks   *)
(* and automatic retries, the leases keep two workers from writing to one  *)
(* destination, and what is published there is whole.                      *)
(*                                                                         *)
(* And about EventPump: for any channels, subscriptions, transports and    *)
(* limits, a subscription sees the output of a channel in order, without a *)
(* hole and from the first event that is still kept.  The events of one    *)
(* channel of one transport, a wire, are accounted for at every place they *)
(* can be: the queue, the pump's hand, the replay window, the inboxes.     *)
(***************************************************************************)
EXTENDS TransferManager, EventPump, TLAPS, FiniteSetTheorems, SequenceTheorems

(* The part of the state the leases depend on. *)
LeaseTypeOK ==
    /\ lease \in [Destinations -> Transfers \cup {NoTransfer}]
    /\ at \in [Workers -> Step]
    /\ runs \in [Transfers -> Nat]
    /\ opened \in [Workers -> BOOLEAN]
    /\ known \subseteq Transfers

(* A worker exists from enqueue on; until it releases the lease, which it  *)
(* does last, the lease is its transfer's, and so is its entry in controls *)
(* and requests.                                                           *)
LeaseInv ==
    /\ LeaseTypeOK
    /\ \A w \in Workers :
          /\ at[w] = "none" <=> runs[w[1]] = 0
          /\ at[w] \in {"queued"} \cup Holding =>
                lease[Dest[w[1]]] = w[1] /\ w[1] \in known

(* Without retry calls a transfer has a single worker. *)
LEMMA SingleRun ==
    ASSUME RetryCalls = {}
    PROVE  /\ MaxRuns = 1
           /\ \A w \in Workers : w[1] \in Transfers /\ w = <<w[1], 1>>
           /\ \A t \in Transfers : <<t, 1>> \in Workers
<1>1. MaxRuns = 1
  BY FS_EmptySet DEF MaxRuns
<1> QED
  BY <1>1 DEF Workers

USE DEF Holding, Ended, Waits, Writes, Failures, Step

(* Every step preserves the lease invariant, one case per action. *)
LEMMA NextLeaseInv ==
    ASSUME RetryCalls = {}, LeaseInv, [Next]_vars
    PROVE  LeaseInv'
<1> USE SingleRun, TransfersAssumption
<1> USE DEF LeaseInv, LeaseTypeOK, controlVars, requestVars, workerVars,
            fileVars, Goto, WorkerStays
<1>1. ASSUME NEW t \in Transfers, Enqueue(t) PROVE LeaseInv'
  BY <1>1 DEF Enqueue, Spawn
<1>2. ASSUME NEW t \in Transfers, Pause(t) PROVE LeaseInv'
  BY <1>2 DEF Pause
<1>3. ASSUME NEW t \in Transfers, Resume(t) PROVE LeaseInv'
  BY <1>3 DEF Resume, NotifyWaiters
<1>4. ASSUME NEW t \in Transfers, Cancel(t) PROVE LeaseInv'
  BY <1>4 DEF Cancel, NotifyWaiters
<1>5. ASSUME NEW t \in Transfers, SourceChanges(t) PROVE LeaseInv'
  BY <1>5 DEF SourceChanges
<1>6. ASSUME NEW w \in Workers, AcquirePermit(w) PROVE LeaseInv'
  BY <1>6 DEF AcquirePermit
<1>7. ASSUME NEW w \in Workers, PauseCheck(w) \/ Arm(w) PROVE LeaseInv'
  BY <1>7 DEF PauseCheck, Arm
<1>8. ASSUME NEW w \in Workers, Proceed(w) PROVE LeaseInv'
  BY <1>8 DEF Proceed
<1>9. ASSUME NEW w \in Workers, Open(w) PROVE LeaseInv'
  BY <1>9 DEF Open
<1>10. ASSUME NEW w \in Workers, TransferChunk(w) PROVE LeaseInv'
  BY <1>10 DEF TransferChunk
<1>11. ASSUME NEW w \in Workers, Verify(w) PROVE LeaseInv'
  BY <1>11 DEF Verify
<1>12. ASSUME NEW w \in Workers, Rename(w) PROVE LeaseInv'
  BY <1>12 DEF Rename
<1>13. ASSUME NEW w \in Workers, OperationFails(w) PROVE LeaseInv'
  BY <1>13 DEF OperationFails
<1>14. ASSUME NEW w \in Workers, AttemptFails(w) PROVE LeaseInv'
  BY <1>14 DEF AttemptFails
<1>15. ASSUME NEW w \in Workers, StopRunning(w) PROVE LeaseInv'
  BY <1>15 DEF StopRunning
<1>16. ASSUME NEW w \in Workers, ReleaseLease(w) PROVE LeaseInv'
  BY <1>16 DEF ReleaseLease, release_lease
<1>17. ASSUME NEW w \in Workers, ReapCheck(w) PROVE LeaseInv'
  BY <1>17 DEF ReapCheck
<1>18. ASSUME NEW w \in Workers, ReapRemove(w) PROVE LeaseInv'
  BY <1>18 DEF ReapRemove, release_lease
<1>19. ASSUME event_pump_stopped PROVE LeaseInv'
  BY <1>19 DEF event_pump_stopped
<1>20. ASSUME UNCHANGED vars PROVE LeaseInv'
  BY <1>20 DEF vars
<1> QED
  BY <1>1, <1>2, <1>3, <1>4, <1>5, <1>6, <1>7, <1>8, <1>9, <1>10, <1>11, <1>12,
     <1>13, <1>14, <1>15, <1>16, <1>17, <1>18, <1>19, <1>20
     DEF Next, WorkerStep

(* The desktop's transfers keep the lease invariant. *)
LEMMA LeaseInvariant ==
    ASSUME RetryCalls = {}
    PROVE  Spec => []LeaseInv
<1>1. Init => LeaseInv
  BY SingleRun, TransfersAssumption DEF Init, LeaseInv, LeaseTypeOK
<1>2. LeaseInv /\ [Next]_vars => LeaseInv'
  BY NextLeaseInv
<1> QED
  BY <1>1, <1>2, PTL DEF Spec

(* A worker that works on a transfer holds the lease of its destination    *)
(* and can be reached through pause and cancel, up to the release that is  *)
(* the last thing it does.                                                 *)
THEOREM ActiveAlwaysLeased ==
    ASSUME RetryCalls = {}
    PROVE  Spec => []ActiveIsLeased
<1>1. LeaseInv => ActiveIsLeased
  BY DEF LeaseInv, ActiveIsLeased, Active
<1> QED
  BY <1>1, LeaseInvariant, PTL

(* TROUBLESHOOTING says that concurrent writes to one destination are      *)
(* prevented.                                                              *)
Writing(w) == at[w] \in Writes \/ (opened[w] /\ at[w] \in Waits \cup {"proceed"})
NoConcurrentWrites ==
    \A v, w \in Workers :
        (v # w /\ Dest[v[1]] = Dest[w[1]]) => ~(Writing(v) /\ Writing(w))

(* Without retry(id), two transfers never write to one destination at the  *)
(* same time: enqueue refuses a leased destination and no worker gives its *)
(* lease up before it has stopped writing.                                 *)
THEOREM WritesAreExclusive ==
    ASSUME RetryCalls = {}
    PROVE  Spec => []NoConcurrentWrites
<1>1. LeaseInv => NoConcurrentWrites
  BY SingleRun DEF LeaseInv, NoConcurrentWrites, Writing
<1> QED
  BY <1>1, LeaseInvariant, PTL

-----------------------------------------------------------------------------
(* What is published *)

(* The part of the state the contents of files depend on. *)
FileTypeOK ==
    /\ version \in [Transfers -> 1..MaxVersions]
    /\ began \in [Workers -> 0..MaxVersions]
    /\ offset \in [Workers -> 0..Chunks]
    /\ part \in [Destinations -> File]
    /\ partExists \in [Destinations -> BOOLEAN]
    /\ published \in [Destinations -> File]

(* A worker has no files open before its attempt opens them. *)
OpensLate(w) == at[w] \in {"none", "queued", "open"} => ~opened[w]

(* The .part of an attempt that writes ends where the attempt stands.  As  *)
(* long as the source has the version the attempt began with, and for good *)
(* once that was verified at the end of the source, every chunk of it is   *)
(* of that version, those another run left behind included.                *)
PartFits(w) ==
    Writing(w) =>
        /\ opened[w]
        /\ began[w] \in 1..version[w[1]]
        /\ part[Dest[w[1]]] \in [1..offset[w] -> Chunk \cup {Hole}]
        /\ at[w] \in {"verify", "rename"} => offset[w] = Chunks
        /\ at[w] = "rename" \/ version[w[1]] = began[w] =>
              \A i \in 1..offset[w] : part[Dest[w[1]]][i] = <<w[1], began[w]>>

FileInv ==
    /\ FileTypeOK
    /\ \A w \in Workers : OpensLate(w) /\ PartFits(w)
    /\ PublishedIsWhole

(* Two workers never hold one destination. *)
LEMMA SoleHolder ==
    ASSUME RetryCalls = {}, LeaseInv, NEW v \in Workers, NEW w \in Workers,
           at[v] \in Holding, at[w] \in Holding, Dest[v[1]] = Dest[w[1]]
    PROVE  v = w
BY SingleRun DEF LeaseInv

(* Where a worker writes, it holds the destination. *)
LEMMA WriterHolds == \A w \in Workers : Writing(w) => at[w] \in Holding
BY DEF Writing

(* A file is a sequence of at most Chunks chunks. *)
LEMMA FileLength ==
    ASSUME NEW file \in File
    PROVE  Len(file) \in 0..Chunks /\ file \in [1..Len(file) -> Chunk \cup {Hole}]
<1>1. PICK n \in 0..Chunks : file \in [1..n -> Chunk \cup {Hole}]
  BY DEF File
<1>2. n \in Nat /\ file \in Seq(Chunk \cup {Hole})
  BY <1>1, BoundsAssumption, SeqDef
<1>3. Len(file) = n
  BY <1>1, <1>2, LenProperties
<1> QED BY <1>1, <1>3

(* A step that leaves files, versions and attempts alone and moves workers *)
(* only along run_transfer keeps the invariant.                            *)
LEMMA QuietFits ==
    ASSUME FileInv, UNCHANGED <<opened, offset, began, version, fileVars>>,
           \A v \in Workers :
              \/ at'[v] = at[v]
              \/ at'[v] = "queued" /\ at[v] = "none"
              \/ at'[v] \in Waits \cup {"proceed"} /\ at[v] \in {"queued"} \cup Waits
              \/ at'[v] = "chunk" /\ at[v] = "proceed" /\ opened[v]
              \/ at'[v] = "open" /\ at[v] = "proceed" /\ ~opened[v]
              \/ at'[v] = "rename" /\ at[v] = "verify" /\ version[v[1]] = began[v]
              \/ at'[v] \in Failures \cup Ended \cup {"stopping", "releasing"}
    PROVE  FileInv'
<1>1. FileTypeOK' /\ PublishedIsWhole'
  BY DEF FileInv, FileTypeOK, PublishedIsWhole, fileVars
<1>2. ASSUME NEW v \in Workers
      PROVE  OpensLate(v)' /\ PartFits(v)'
  <2>1. OpensLate(v) /\ PartFits(v)
    BY DEF FileInv
  <2>2. OpensLate(v)'
    BY <2>1 DEF OpensLate
  <2>3. Writing(v)' => Writing(v)
    BY <2>1 DEF Writing, OpensLate
  <2>4. PartFits(v)'
    BY <2>1, <2>3 DEF PartFits, fileVars
  <2> QED BY <2>2, <2>4
<1> QED BY <1>1, <1>2 DEF FileInv

(* Clients and the worker's steps between two file operations. *)
LEMMA QuietSteps ==
    ASSUME RetryCalls = {}, LeaseInv, FileInv,
           \/ \E t \in Transfers : Enqueue(t) \/ Pause(t) \/ Resume(t) \/ Cancel(t)
           \/ \E w \in Workers :
                 \/ AcquirePermit(w) \/ PauseCheck(w) \/ Arm(w) \/ Proceed(w) \/ Verify(w)
                 \/ OperationFails(w) \/ StopRunning(w) \/ ReleaseLease(w)
                 \/ ReapCheck(w) \/ ReapRemove(w)
           \/ event_pump_stopped \/ UNCHANGED vars
    PROVE  FileInv'
<1>1. UNCHANGED <<opened, offset, began, version, fileVars>>
  BY DEF Enqueue, Pause, Resume, Cancel, AcquirePermit, PauseCheck, Arm, Proceed, Verify,
     OperationFails, StopRunning, ReleaseLease, ReapCheck, ReapRemove, event_pump_stopped,
     WorkerStays, workerVars, fileVars, vars
<1>2. at \in [Workers -> Step]
  BY DEF LeaseInv, LeaseTypeOK
<1>3. ASSUME NEW t \in Transfers, Enqueue(t) PROVE FileInv'
  <2>1. /\ <<t, 1>> \in Workers /\ at[<<t, 1>>] = "none"
        /\ at' = [at EXCEPT ![<<t, 1>>] = "queued"]
    BY <1>3, SingleRun DEF Enqueue, Spawn, LeaseInv
  <2> QED BY <1>1, <1>2, <2>1, QuietFits
<1>4. ASSUME NEW t \in Transfers, Resume(t) \/ Cancel(t) PROVE FileInv'
  <2>1. at' = [w \in Workers |-> IF w[1] = t /\ at[w] = "waiting" THEN "pause_check" ELSE at[w]]
    BY <1>4 DEF Resume, Cancel, NotifyWaiters
  <2> QED BY <1>1, <1>2, <2>1, QuietFits
<1>5. ASSUME NEW w \in Workers, NEW from, NEW to, Goto(w, from, to),
             \/ to \in Waits \cup {"proceed"} /\ from \in {"queued"} \cup Waits
             \/ to = "chunk" /\ from = "proceed" /\ opened[w]
             \/ to = "open" /\ from = "proceed" /\ ~opened[w]
             \/ to = "rename" /\ from = "verify" /\ version[w[1]] = began[w]
             \/ to \in Failures \cup Ended \cup {"stopping", "releasing"}
      PROVE  FileInv'
  <2>1. at[w] = from /\ at' = [at EXCEPT ![w] = to]
    BY <1>5 DEF Goto
  <2> QED BY <1>1, <1>2, <1>5, <2>1, QuietFits
<1>6. ASSUME NEW w \in Workers, AcquirePermit(w) \/ PauseCheck(w) \/ Arm(w) \/ Proceed(w) PROVE FileInv'
  BY <1>5, <1>6 DEF AcquirePermit, PauseCheck, Arm, Proceed
<1>7. ASSUME NEW w \in Workers, Verify(w) \/ OperationFails(w) \/ StopRunning(w) PROVE FileInv'
  BY <1>5, <1>7 DEF Verify, OperationFails, StopRunning
<1>8. ASSUME NEW w \in Workers, ReleaseLease(w) \/ ReapCheck(w) \/ ReapRemove(w) PROVE FileInv'
  BY <1>5, <1>8 DEF ReleaseLease, ReapCheck, ReapRemove
<1>9. ASSUME (\E t \in Transfers : Pause(t)) \/ event_pump_stopped \/ UNCHANGED vars PROVE FileInv'
  <2>1. at' = at
    BY <1>9 DEF Pause, event_pump_stopped, workerVars, vars
  <2> QED BY <1>1, <2>1, QuietFits
<1> QED BY <1>3, <1>4, <1>6, <1>7, <1>8, <1>9

(* What the holder of a destination does to its .part is nothing to the    *)
(* other workers.                                                          *)
LEMMA OthersFit ==
    ASSUME RetryCalls = {}, LeaseInv, FileInv, NEW w \in Workers, at[w] \in Holding,
           NEW file, part' = [part EXCEPT ![Dest[w[1]]] = file], version' = version,
           NEW v \in Workers, v # w, at'[v] = at[v], opened'[v] = opened[v],
           began'[v] = began[v], offset'[v] = offset[v]
    PROVE  OpensLate(v)' /\ PartFits(v)'
<1>1. OpensLate(v) /\ PartFits(v)
  BY DEF FileInv
<1>2. OpensLate(v)'
  BY <1>1 DEF OpensLate
<1>3. Writing(v)' <=> Writing(v)
  BY DEF Writing
<1>4. ASSUME Writing(v)
      PROVE  part'[Dest[v[1]]] = part[Dest[v[1]]]
  <2>1. Dest[v[1]] # Dest[w[1]]
    BY <1>4, SoleHolder, WriterHolds
  <2> QED BY <2>1, SingleRun, TransfersAssumption DEF FileInv, FileTypeOK
<1>5. PartFits(v)'
  BY <1>1, <1>3, <1>4 DEF PartFits
<1> QED BY <1>2, <1>5

(* A worker that opens its files keeps the prefix of the source it finds,  *)
(* or starts again.                                                        *)
LEMMA OpenFits ==
    ASSUME RetryCalls = {}, LeaseInv, FileInv, NEW w \in Workers, Open(w)
    PROVE  FileInv'
<1> DEFINE t == w[1]
           d == Dest[t]
           source == [i \in 1..Chunks |-> <<t, version[t]>>]
           keep == resumable[t] /\ part[d] = SubSeq(source, 1, Len(part[d]))
           file == IF keep THEN part[d] ELSE << >>
           length == IF keep THEN Len(part[d]) ELSE 0
<1>1. /\ at[w] = "open" /\ at' = [at EXCEPT ![w] = "pause_check"]
      /\ opened' = [opened EXCEPT ![w] = TRUE] /\ began' = [began EXCEPT ![w] = version[t]]
      /\ part' = [part EXCEPT ![d] = file] /\ partExists' = [partExists EXCEPT ![d] = TRUE]
      /\ offset' = [offset EXCEPT ![w] = length]
      /\ UNCHANGED <<version, published>>
  BY DEF Open, Goto
<1>2. /\ t \in Transfers /\ d \in Destinations /\ version[t] \in 1..MaxVersions
      /\ part[d] \in File /\ at \in [Workers -> Step] /\ opened \in [Workers -> BOOLEAN]
      /\ MaxVersions \in Nat /\ Chunks \in Nat
  BY SingleRun, TransfersAssumption, BoundsAssumption DEF LeaseInv, LeaseTypeOK, FileInv, FileTypeOK
<1>3. /\ length \in 0..Chunks /\ file \in [1..length -> Chunk \cup {Hole}]
      /\ \A i \in 1..length : file[i] = <<t, version[t]>>
  <2>1. CASE keep
    <3>1. Len(part[d]) \in 0..Chunks /\ part[d] \in [1..Len(part[d]) -> Chunk \cup {Hole}]
      BY <1>2, FileLength
    <3>2. \A i \in 1..Len(part[d]) : source[i] = <<t, version[t]>> /\ source[i] \in Chunk
      BY <1>2, <3>1 DEF Chunk
    <3>3. \A i \in 1..Len(part[d]) : SubSeq(source, 1, Len(part[d]))[i] = source[i]
      BY <1>2, <3>1, <3>2, SubSeqProperties
    <3> QED BY <2>1, <3>1, <3>2, <3>3
  <2>2. CASE ~keep
    <3>1. << >> \in [1..0 -> Chunk \cup {Hole}]
      BY EmptySeq, LenProperties
    <3>2. file = << >> /\ length = 0
      BY <2>2
    <3> HIDE DEF keep, file, length
    <3>3. length \in 0..Chunks /\ file \in [1..length -> Chunk \cup {Hole}]
      BY <1>2, <3>1, <3>2
    <3> QED BY <3>2, <3>3
  <2> QED BY <2>1, <2>2
<1> HIDE DEF file, length
<1>4. file \in File
  BY <1>3 DEF File
<1>5. FileTypeOK'
  BY <1>1, <1>2, <1>3, <1>4 DEF FileInv, FileTypeOK
<1>6. PublishedIsWhole'
  BY <1>1 DEF FileInv, PublishedIsWhole
<1>7. OpensLate(w)' /\ PartFits(w)'
  <2>1. /\ at'[w] = "pause_check" /\ opened'[w] /\ began'[w] = version[t] /\ offset'[w] = length
        /\ part'[d] = file
    BY <1>1, <1>2 DEF FileInv, FileTypeOK
  <2>2. OpensLate(w)'
    BY <2>1 DEF OpensLate
  <2>3. PartFits(w)'
    BY <1>1, <1>2, <1>3, <2>1 DEF PartFits
  <2> QED BY <2>2, <2>3
<1>8. ASSUME NEW v \in Workers, v # w
      PROVE  OpensLate(v)' /\ PartFits(v)'
  <2>1. /\ at'[v] = at[v] /\ opened'[v] = opened[v] /\ began'[v] = began[v]
        /\ offset'[v] = offset[v]
    BY <1>1, <1>2, <1>8 DEF FileInv, FileTypeOK
  <2> QED BY <1>1, <1>8, <2>1, OthersFit
<1> QED BY <1>5, <1>6, <1>7, <1>8 DEF FileInv

(* A chunk goes to the end of the .part; at the end of the source all the  *)
(* chunks are there.                                                       *)
LEMMA ChunkFits ==
    ASSUME RetryCalls = {}, LeaseInv, FileInv, NEW w \in Workers, TransferChunk(w)
    PROVE  FileInv'
<1> DEFINE t == w[1]
           d == Dest[t]
<1>1. /\ t \in Transfers /\ d \in Destinations /\ version[t] \in 1..MaxVersions
      /\ part[d] \in File /\ at \in [Workers -> Step] /\ opened \in [Workers -> BOOLEAN]
      /\ MaxVersions \in Nat /\ Chunks \in Nat /\ offset[w] \in 0..Chunks
  BY SingleRun, TransfersAssumption, BoundsAssumption DEF LeaseInv, LeaseTypeOK, FileInv, FileTypeOK
<1>2. at[w] = "chunk" /\ UNCHANGED <<opened, began, version, partExists, published>>
  BY DEF TransferChunk, Goto
<1>3. Writing(w) /\ PartFits(w)
  BY <1>2 DEF Writing, FileInv
<1>4. CASE offset[w] = Chunks
  <2>1. at' = [at EXCEPT ![w] = "verify"] /\ UNCHANGED <<offset, part>>
    BY <1>4 DEF TransferChunk, Goto
  <2>2. PartFits(w)' /\ OpensLate(w)'
    <3>1. at'[w] = "verify"
      BY <1>1, <2>1
    <3> QED BY <1>2, <1>3, <1>4, <2>1, <3>1 DEF PartFits, OpensLate
  <2>3. ASSUME NEW v \in Workers, v # w
        PROVE  OpensLate(v)' /\ PartFits(v)'
    <3>1. at'[v] = at[v]
      BY <1>1, <2>1, <2>3
    <3>2. OpensLate(v) /\ PartFits(v) /\ (Writing(v)' <=> Writing(v))
      BY <1>2, <3>1 DEF FileInv, Writing
    <3> QED BY <1>2, <2>1, <3>1, <3>2 DEF PartFits, OpensLate
  <2>4. FileTypeOK' /\ PublishedIsWhole'
    BY <1>2, <2>1 DEF FileInv, FileTypeOK, PublishedIsWhole
  <2> QED BY <2>2, <2>3, <2>4 DEF FileInv
<1>5. CASE offset[w] # Chunks
  <2> DEFINE n == offset[w] + 1
             chunk == <<t, version[t]>>
             file == WrittenAt(part[d], n, chunk)
  <2>1. /\ at' = [at EXCEPT ![w] = "pause_check"] /\ offset' = [offset EXCEPT ![w] = n]
        /\ part' = [part EXCEPT ![d] = file]
    BY <1>1, <1>5 DEF TransferChunk, Goto, FileInv, FileTypeOK
  <2>2. n \in 1..Chunks /\ chunk \in Chunk
    BY <1>1, <1>5 DEF Chunk
  <2>3. part[d] \in [1..offset[w] -> Chunk \cup {Hole}] /\ Len(part[d]) = offset[w]
    <3>1. part[d] \in [1..offset[w] -> Chunk \cup {Hole}]
      BY <1>3 DEF PartFits
    <3>2. part[d] \in [1..Len(part[d]) -> Chunk \cup {Hole}] /\ Len(part[d]) \in 0..Chunks
      BY <1>1, FileLength
    <3> QED BY <1>1, <3>1, <3>2
  <2>4. /\ file \in [1..n -> Chunk \cup {Hole}] /\ file[n] = chunk
        /\ \A i \in 1..offset[w] : file[i] = part[d][i]
    <3>1. file = [j \in 1..n |-> IF j = n THEN chunk
                                 ELSE IF j <= offset[w] THEN part[d][j] ELSE Hole]
      BY <1>1, <2>3 DEF WrittenAt
    <3> HIDE DEF file, chunk
    <3> QED BY <1>1, <2>2, <2>3, <3>1
  <2> HIDE DEF file, chunk
  <2>5. file \in File
    BY <2>2, <2>4 DEF File
  <2>6. FileTypeOK' /\ PublishedIsWhole'
    BY <1>1, <1>2, <2>1, <2>2, <2>5 DEF FileInv, FileTypeOK, PublishedIsWhole
  <2>7. OpensLate(w)' /\ PartFits(w)'
    <3>1. at'[w] = "pause_check" /\ offset'[w] = n /\ part'[d] = file
      BY <1>1, <2>1 DEF FileInv, FileTypeOK
    <3>2. ASSUME version[t] = began[w], NEW i \in 1..n
          PROVE  file[i] = <<t, began[w]>>
      <4>1. CASE i = n
        BY <2>4, <3>2, <4>1 DEF chunk
      <4>2. CASE i # n
        <5>1. i \in 1..offset[w]
          BY <1>1, <4>2
        <5> QED BY <1>3, <2>4, <3>2, <5>1 DEF PartFits
      <4> QED BY <4>1, <4>2
    <3>3. OpensLate(w)'
      BY <3>1 DEF OpensLate
    <3>4. opened[w] /\ began[w] \in 1..version[t]
      BY <1>3 DEF PartFits
    <3>5. PartFits(w)'
      BY <1>2, <2>4, <3>1, <3>2, <3>4 DEF PartFits
    <3> QED BY <3>3, <3>5
  <2>8. ASSUME NEW v \in Workers, v # w
        PROVE  OpensLate(v)' /\ PartFits(v)'
    <3>1. at'[v] = at[v] /\ offset'[v] = offset[v]
      BY <1>1, <2>1, <2>8 DEF FileInv, FileTypeOK
    <3> QED BY <1>2, <2>1, <2>8, <3>1, OthersFit
  <2> QED BY <2>6, <2>7, <2>8 DEF FileInv
<1> QED BY <1>4, <1>5

(* The rename publishes the verified .part. *)
LEMMA RenameFits ==
    ASSUME RetryCalls = {}, LeaseInv, FileInv, NEW w \in Workers, Rename(w)
    PROVE  FileInv'
<1> DEFINE t == w[1]
           d == Dest[t]
<1>1. /\ at[w] = "rename"
      /\ at' = [at EXCEPT ![w] = IF partExists[d] THEN "stopping" ELSE "Backend"]
      /\ published' = [published EXCEPT ![d] = IF partExists[d] THEN part[d] ELSE @]
      /\ part' = [part EXCEPT ![d] = << >>] /\ partExists' = [partExists EXCEPT ![d] = FALSE]
      /\ UNCHANGED <<opened, offset, began, version>>
  BY DEF Rename, Goto
<1>2. /\ t \in Transfers /\ d \in Destinations /\ part[d] \in File
      /\ at \in [Workers -> Step] /\ MaxVersions \in Nat /\ Chunks \in Nat
      /\ version[t] \in 1..MaxVersions
  BY SingleRun, TransfersAssumption, BoundsAssumption DEF LeaseInv, LeaseTypeOK, FileInv, FileTypeOK
<1>3. part[d] = [i \in 1..Chunks |-> <<t, began[w]>>] /\ <<t, began[w]>> \in Chunk
  <2>1. Writing(w) /\ PartFits(w)
    BY <1>1 DEF Writing, FileInv
  <2>2. /\ began[w] \in 1..version[t] /\ part[d] \in [1..Chunks -> Chunk \cup {Hole}]
        /\ \A i \in 1..Chunks : part[d][i] = <<t, began[w]>>
    BY <1>1, <2>1 DEF PartFits
  <2>3. <<t, began[w]>> \in Chunk
    BY <1>2, <2>2 DEF Chunk
  <2> QED BY <2>2, <2>3
<1>4. PublishedIsWhole'
  <2> DEFINE Whole(chunk) == [i \in 1..Chunks |-> chunk]
  <2>1. ASSUME NEW e \in Destinations
        PROVE  published'[e] = published[e] \/ published'[e] = Whole(<<t, began[w]>>)
    BY <1>1, <1>2, <1>3, <2>1 DEF FileInv, FileTypeOK
  <2>2. \A e \in Destinations :
           published[e] = << >> \/ \E chunk \in Chunk : published[e] = Whole(chunk)
    BY DEF FileInv, PublishedIsWhole
  <2> HIDE DEF Whole
  <2>3. \A e \in Destinations :
           published'[e] = << >> \/ \E chunk \in Chunk : published'[e] = Whole(chunk)
    BY <1>3, <2>1, <2>2
  <2> QED BY <2>3 DEF Whole, PublishedIsWhole
<1>5. << >> \in File
  <2>1. << >> \in [1..0 -> Chunk \cup {Hole}]
    BY EmptySeq, LenProperties
  <2> QED BY <1>2, <2>1 DEF File
<1>6. FileTypeOK'
  BY <1>1, <1>2, <1>5 DEF FileInv, FileTypeOK
<1>7. ASSUME NEW v \in Workers
      PROVE  OpensLate(v)' /\ PartFits(v)'
  <2>1. CASE v = w
    <3>1. at'[v] \in {"stopping", "Backend"}
      BY <1>1, <1>2, <2>1
    <3> QED BY <3>1 DEF OpensLate, PartFits, Writing
  <2>2. CASE v # w
    BY <1>1, <1>2, <2>2, OthersFit
  <2> QED BY <2>1, <2>2
<1> QED BY <1>4, <1>6, <1>7 DEF FileInv

(* A failed attempt closes its files. *)
LEMMA FailureFits ==
    ASSUME RetryCalls = {}, LeaseInv, FileInv, NEW w \in Workers, AttemptFails(w)
    PROVE  FileInv'
<1>1. /\ \E to \in {"pause_check", "stopping"} : at' = [at EXCEPT ![w] = to]
      /\ opened' = [opened EXCEPT ![w] = FALSE]
      /\ UNCHANGED <<offset, began, version, part, partExists, published>>
  BY DEF AttemptFails, Goto, fileVars
<1>2. at \in [Workers -> Step] /\ opened \in [Workers -> BOOLEAN]
  BY DEF LeaseInv, LeaseTypeOK
<1>3. FileTypeOK' /\ PublishedIsWhole'
  BY <1>1 DEF FileInv, FileTypeOK, PublishedIsWhole
<1>4. OpensLate(w)' /\ PartFits(w)'
  BY <1>1, <1>2 DEF OpensLate, PartFits, Writing
<1>5. ASSUME NEW v \in Workers, v # w
      PROVE  OpensLate(v)' /\ PartFits(v)'
  <2>1. at'[v] = at[v] /\ opened'[v] = opened[v]
    BY <1>1, <1>2, <1>5
  <2>2. OpensLate(v) /\ PartFits(v) /\ (Writing(v)' <=> Writing(v))
    BY <2>1 DEF FileInv, Writing
  <2> QED BY <1>1, <2>1, <2>2 DEF PartFits, OpensLate
<1> QED BY <1>3, <1>4, <1>5 DEF FileInv

(* A source that changes has a version no attempt began with. *)
LEMMA ChangeFits ==
    ASSUME RetryCalls = {}, FileInv, NEW t \in Transfers, SourceChanges(t)
    PROVE  FileInv'
<1>1. /\ version[t] < MaxVersions /\ version' = [version EXCEPT ![t] = version[t] + 1]
      /\ UNCHANGED <<at, opened, offset, began, part, partExists, published>>
  BY DEF SourceChanges, workerVars, fileVars, FileInv, FileTypeOK
<1>2. MaxVersions \in Nat /\ version \in [Transfers -> 1..MaxVersions]
  BY BoundsAssumption DEF FileInv, FileTypeOK
<1>3. FileTypeOK' /\ PublishedIsWhole'
  BY <1>1, <1>2 DEF FileInv, FileTypeOK, PublishedIsWhole
<1>4. ASSUME NEW w \in Workers
      PROVE  OpensLate(w)' /\ PartFits(w)'
  <2>1. w[1] \in Transfers /\ version'[w[1]] = (IF w[1] = t THEN version[t] + 1 ELSE version[w[1]])
    BY <1>1, <1>2, SingleRun
  <2>2. OpensLate(w) /\ PartFits(w) /\ (Writing(w)' <=> Writing(w))
    BY <1>1 DEF FileInv, Writing
  <2>3. OpensLate(w)'
    BY <1>1, <2>2 DEF OpensLate
  <2>4. ASSUME began[w] \in 1..version[w[1]]
        PROVE  /\ began[w] \in 1..version'[w[1]]
               /\ version'[w[1]] = began[w] => version[w[1]] = began[w]
    BY <1>2, <2>1, <2>4
  <2>5. PartFits(w)'
    BY <1>1, <2>2, <2>4 DEF PartFits
  <2> QED BY <2>3, <2>5
<1> QED BY <1>3, <1>4 DEF FileInv

(* What the rename publishes is one version of one source, whole: through  *)
(* changes of the source under a running transfer, failed and repeated     *)
(* attempts, cancellation, and .part files that other transfers left at    *)
(* the destination and a resumable one takes up.                           *)
THEOREM PublishedAlwaysWhole ==
    ASSUME RetryCalls = {}
    PROVE  Spec => []PublishedIsWhole
<1>1. Init => FileInv
  <2> SUFFICES ASSUME Init PROVE FileInv
    OBVIOUS
  <2>1. << >> \in File
    <3>1. << >> \in [1..0 -> Chunk \cup {Hole}]
      BY EmptySeq, LenProperties
    <3> QED BY <3>1, BoundsAssumption DEF File
  <2>2. FileTypeOK
    BY <2>1, BoundsAssumption DEF Init, FileTypeOK
  <2>3. PublishedIsWhole /\ \A w \in Workers : OpensLate(w) /\ PartFits(w)
    BY DEF Init, PublishedIsWhole, OpensLate, PartFits, Writing
  <2> QED BY <2>2, <2>3 DEF FileInv
<1>2. LeaseInv /\ FileInv /\ [Next]_vars => FileInv'
  BY QuietSteps, OpenFits, ChunkFits, RenameFits, FailureFits, ChangeFits DEF Next, WorkerStep
<1>3. FileInv => PublishedIsWhole
  BY DEF FileInv
<1> QED
  BY <1>1, <1>2, <1>3, LeaseInvariant, PTL DEF Spec

-----------------------------------------------------------------------------
(* EventPump *)


PumpStates == [pc : {"none", "receiving", "routing", "sending", "ended"}, event : SessionEvent,
               targets : SUBSET Subs, primaries : [Filters -> Subs \cup {None}]]
Counts == [Generations -> [Sources -> Nat]]

\* The shape of every variable the proof looks at.
PumpTypes ==
    /\ generation \in 0 .. MaxGeneration
    /\ phase \in {"idle", "connecting", "attached", "closing"}
    /\ subscribers \subseteq Subs /\ missed \subseteq Subs
    /\ sent \in Counts
    /\ queue \in [Generations -> Seq(SessionEvent)]
    /\ pump \in [Generations -> PumpStates]
    /\ pending \in [Channels -> Seq(SessionEvent)]
    /\ inbox \in [Subs -> Seq(SessionEvent)]
    /\ room \in [Subs -> Nat]
    /\ filter \in [Subs -> Filters]
    /\ forwarder \in [Subs -> {"none", "running", "done"}]
    /\ received \in [Subs -> Counts]
    /\ evicted \in [Channels -> Nat]
    /\ stale \in [Generations -> Nat]

\* Queues, replay windows and inboxes are bounded.
BoundsFit ==
    /\ \A g \in Generations : Len(queue[g]) <= QueueSize
    /\ \A c \in Channels : Len(pending[c]) <= MaxPending
    /\ \A s \in Subs : Len(inbox[s]) <= room[s]

\* Pumps run for generations that were attached; what they hold is theirs and
\* goes to subscriptions that asked for it.
PumpFits(g) ==
    /\ (g > generation \/ (g = generation /\ phase = "connecting")) => pump[g].pc = "none"
    /\ pump[g].pc = "none" => \A c \in Sources : sent[g][c] = 0
    /\ \A i \in 1 .. Len(queue[g]) : queue[g][i].gen = g
    /\ pump[g].pc # "sending" => pump[g].targets = {}
    /\ pump[g].pc \in {"routing", "sending"} => pump[g].event.gen = g
    /\ \A s \in pump[g].targets : forwarder[s] # "none" /\ matches(s, pump[g].event)

PumpsFit == \A g \in Generations : PumpFits(g)

\* A subscription before its life and after it has nothing; while a living one
\* reads a channel nothing of the channel is kept for replay.
SubscriptionsFit ==
    \A s \in Subs :
        /\ s \in subscribers => forwarder[s] # "none"
        /\ forwarder[s] # "running" => inbox[s] = <<>> /\ received[s] = Nothing /\ s \notin missed
        /\ s \in subscribers /\ forwarder[s] = "running" /\ filter[s] \in Channels => pending[filter[s]] = <<>>

\* The replay window of a channel holds events of the channel.
WindowsFit == \A c \in Channels : \A i \in 1 .. Len(pending[c]) : pending[c][i].channel = c

\* A retired transport has no event through, or none in hand any more.
StaleFits ==
    \A g \in Generations : /\ stale[g] <= 1
                           /\ (g >= generation \/ pump[g].pc = "routing") => stale[g] = 0

-----------------------------------------------------------------------------
(* Events of one wire: channel c of transport g *)

On(e, g, c) == e.gen = g /\ e.channel = c
Has(q, g, c, m) == \E i \in 1 .. Len(q) : On(q[i], g, c) /\ q[i].n = m

\* The events of the wire in q are numbered from above lo to hi, in order and
\* without a hole; from lo + 1 on where the run is whole.
Wire(q, g, c, lo, hi, whole) ==
    /\ lo <= hi
    /\ \A i \in 1 .. Len(q) : On(q[i], g, c) => lo < q[i].n /\ q[i].n <= hi
    /\ \A i, j \in 1 .. Len(q) : On(q[i], g, c) /\ On(q[j], g, c) /\ i < j => q[i].n < q[j].n
    /\ \A m \in Nat : lo < m /\ m <= hi /\ (whole \/ m = hi \/ \E i \in 1 .. Len(q) : On(q[i], g, c) /\ q[i].n <= m)
                         => Has(q, g, c, m)

\* p events of the wire were taken from the queue.  How many of them have been
\* routed, and how many a subscription has had its turn for.
Routed(g, c, p) == IF pump[g].pc = "routing" /\ pump[g].event.channel = c THEN p - 1 ELSE p
Due(s, g, c, p) ==
    IF pump[g].event.channel = c /\ (pump[g].pc = "routing" \/ s \in pump[g].targets) THEN p - 1 ELSE p

\* The pump of g may yet, or will again, deliver to s.
Reach(s, g) == \/ s \in pump[g].targets
               \/ s \in subscribers /\ (generation = g \/ pump[g].pc = "routing")

Current(g) == phase = "attached" /\ generation = g
Untouched(c) == \A o \in Subs : forwarder[o] # "none" => filter[o] # c
Sole(s, c) == /\ forwarder[s] = "running" /\ filter[s] = c
              /\ \A o \in Subs \ {s} : forwarder[o] # "none" => filter[o] # c

QueueAt(g, c, p) ==
    /\ Wire(queue[g], g, c, p, sent[g][c], TRUE)
    /\ pump[g].pc \in {"routing", "sending"} /\ pump[g].event.channel = c => pump[g].event.n = p

\* The replay window: where events of the wire can still come it ends with the
\* last one routed, and until somebody subscribes it misses only what was
\* pushed out.
HeldAt(g, c, p) ==
    /\ \E hi \in Nat : /\ Wire(pending[c], g, c, 0, hi, FALSE)
                       /\ hi <= p
                       /\ (generation = g \/ pump[g].pc = "routing") => hi \in {0, Routed(g, c, p)}
    /\ Untouched(c) /\ Current(g) =>
          \A m \in Nat : evicted[c] < m /\ m <= Routed(g, c, p) => Has(pending[c], g, c, m)

\* The inbox of a subscription: hi is the last event that it was given.
GotAt(s, g, c, p) ==
    \E hi \in Nat :
        /\ Wire(inbox[s], g, c, received[s][g][c], hi, received[s][g][c] > 0)
        /\ hi <= p
        /\ hi > 0 => filter[s] \in {All, c}
        /\ Reach(s, g) => hi \in {0, Due(s, g, c, p)}
        /\ Sole(s, c) /\ Current(g) =>
              /\ hi > 0 /\ received[s][g][c] = 0 =>
                    \E i \in 1 .. Len(inbox[s]) : On(inbox[s][i], g, c) /\ inbox[s][i].n <= evicted[c] + 1
              /\ hi = 0 /\ Reach(s, g) => Due(s, g, c, p) <= evicted[c]

WireAt(g, c, p) ==
    QueueAt(g, c, p) /\ HeldAt(g, c, p) /\ \A s \in Subs \ missed : GotAt(s, g, c, p)

Frame == PumpTypes /\ BoundsFit /\ PumpsFit /\ SubscriptionsFit /\ WindowsFit /\ StaleFits
Wires == \A g \in Generations, c \in Channels : \E p \in Nat : WireAt(g, c, p)

\* The inductive invariant of the event pumps.
PumpInv == Frame /\ Wires

-----------------------------------------------------------------------------
(* Facts about one wire in a queue *)

\* The limits are numbers, and the markers are nobody's names.
LEMMA EventBasics ==
    /\ MaxGeneration \in Nat /\ QueueSize \in Nat /\ InboxSize \in Nat /\ Headroom \in Nat /\ MaxPending \in Nat
    /\ QueueSize > 0 /\ InboxSize > 0 /\ MaxPending > 0
    /\ End \notin Channels /\ All \notin Channels /\ None \notin Subs
BY EventAssumption

\* Events are numbered from 1.
LEMMA EventNumbers == \A e \in SessionEvent : e.n \in Nat /\ e.n > 0
BY DEF SessionEvent

\* The places of a queue hold events.
LEMMA QueueNumbers ==
    ASSUME NEW q \in Seq(SessionEvent)
    PROVE  /\ Len(q) \in Nat
           /\ \A i \in 1 .. Len(q) : q[i] \in SessionEvent /\ q[i].n \in Nat /\ q[i].n > 0
<1>1. Len(q) \in Nat /\ \A i \in 1 .. Len(q) : q[i] \in SessionEvent
  OBVIOUS
<1> QED BY <1>1, EventNumbers

\* The queue with one event more, and with one less.
LEMMA AppendPlaces ==
    ASSUME NEW q \in Seq(SessionEvent), NEW e \in SessionEvent
    PROVE  /\ Append(q, e) \in Seq(SessionEvent) /\ Append(q, e) # <<>>
           /\ Len(Append(q, e)) = Len(q) + 1 /\ Append(q, e)[Len(q) + 1] = e
           /\ \A i \in 1 .. Len(q) : Append(q, e)[i] = q[i]
OBVIOUS

LEMMA TailPlaces ==
    ASSUME NEW q \in Seq(SessionEvent), q # <<>>
    PROVE  /\ Tail(q) \in Seq(SessionEvent) /\ Head(q) \in SessionEvent
           /\ Len(Tail(q)) = Len(q) - 1 /\ Len(q) >= 1 /\ Head(q) = q[1]
           /\ \A i \in 1 .. Len(Tail(q)) : Tail(q)[i] = q[i + 1] /\ i + 1 \in 1 .. Len(q)
OBVIOUS

\* An empty queue holds no events of a wire.
LEMMA WireEmpty ==
    ASSUME NEW g, NEW c, NEW k \in Nat, NEW whole \in BOOLEAN
    PROVE  Wire(<<>>, g, c, k, k, whole)
BY DEF Wire, Has

\* In an empty queue the run that begins at lo ends there.
LEMMA WireOfEmpty ==
    ASSUME NEW g, NEW c, NEW lo \in Nat, NEW hi \in Nat, NEW whole \in BOOLEAN,
           Wire(<<>>, g, c, lo, hi, whole)
    PROVE  lo = hi
<1>1. ~ Has(<<>>, g, c, hi)
  BY DEF Has
<1> QED BY <1>1 DEF Wire

\* A queue without events of the wire.
LEMMA WireNone ==
    ASSUME NEW q \in Seq(SessionEvent), NEW g, NEW c,
           \A i \in 1 .. Len(q) : ~ On(q[i], g, c)
    PROVE  Wire(q, g, c, 0, 0, FALSE)
BY DEF Wire

\* What a queue has it keeps when an event is appended, which it then has.
LEMMA HasAppend ==
    ASSUME NEW q \in Seq(SessionEvent), NEW e \in SessionEvent, NEW g, NEW c, NEW m
    PROVE  /\ Has(q, g, c, m) => Has(Append(q, e), g, c, m)
           /\ On(e, g, c) /\ e.n = m => Has(Append(q, e), g, c, m)
<1>1. /\ Len(Append(q, e)) = Len(q) + 1 /\ Append(q, e)[Len(q) + 1] = e /\ Len(q) \in Nat
      /\ \A i \in 1 .. Len(q) : Append(q, e)[i] = q[i]
  OBVIOUS
<1>2. ASSUME Has(q, g, c, m)
      PROVE  Has(Append(q, e), g, c, m)
  <2>1. PICK i \in 1 .. Len(q) : On(q[i], g, c) /\ q[i].n = m
    BY <1>2 DEF Has
  <2> QED BY <1>1, <2>1 DEF Has
<1>3. ASSUME On(e, g, c), e.n = m
      PROVE  Has(Append(q, e), g, c, m)
  BY <1>1, <1>3 DEF Has
<1> QED BY <1>2, <1>3

\* An event with the next number continues a run.
LEMMA WireAppendOn ==
    ASSUME NEW q \in Seq(SessionEvent), NEW e \in SessionEvent, NEW g, NEW c,
           NEW lo \in Nat, NEW hi \in Nat, NEW whole \in BOOLEAN,
           Wire(q, g, c, lo, hi, whole), On(e, g, c), e.n = hi + 1
    PROVE  Wire(Append(q, e), g, c, lo, hi + 1, whole)
<1> DEFINE r == Append(q, e)
<1>1. /\ Len(r) = Len(q) + 1 /\ r[Len(q) + 1] = e /\ Len(q) \in Nat
      /\ \A i \in 1 .. Len(q) : r[i] = q[i] /\ q[i].n \in Nat
  BY QueueNumbers, AppendPlaces
<1>2. \A m : (Has(q, g, c, m) \/ m = hi + 1) => Has(r, g, c, m)
  BY HasAppend
<1> HIDE DEF r
<1>3. \A i \in 1 .. Len(r) : On(r[i], g, c) => lo < r[i].n /\ r[i].n <= hi + 1
  BY <1>1 DEF Wire
<1>4. \A i, j \in 1 .. Len(r) : On(r[i], g, c) /\ On(r[j], g, c) /\ i < j => r[i].n < r[j].n
  BY <1>1 DEF Wire
<1>5. ASSUME NEW m \in Nat, lo < m, m <= hi + 1,
             whole \/ m = hi + 1 \/ \E i \in 1 .. Len(r) : On(r[i], g, c) /\ r[i].n <= m
      PROVE  Has(r, g, c, m)
  <2>1. CASE m = hi + 1
    BY <2>1, <1>2
  <2>2. CASE m <= hi
    <3>1. whole \/ \E i \in 1 .. Len(q) : On(q[i], g, c) /\ q[i].n <= m
      BY <1>1, <1>5, <2>2
    <3> QED BY <3>1, <2>2, <1>5, <1>2 DEF Wire
  <2> QED BY <2>1, <2>2, <1>5
<1>6. lo <= hi + 1
  BY DEF Wire
<1> QED BY <1>3, <1>4, <1>5, <1>6 DEF Wire, r

\* A run that has not begun begins with any number.
LEMMA WireStart ==
    ASSUME NEW q \in Seq(SessionEvent), NEW e \in SessionEvent, NEW g, NEW c,
           Wire(q, g, c, 0, 0, FALSE), On(e, g, c)
    PROVE  Wire(Append(q, e), g, c, 0, e.n, FALSE)
<1> DEFINE r == Append(q, e)
<1>1. /\ Len(r) = Len(q) + 1 /\ r[Len(q) + 1] = e /\ Len(q) \in Nat
      /\ \A i \in 1 .. Len(q) : r[i] = q[i] /\ q[i].n \in Nat
      /\ e.n \in Nat /\ e.n > 0
  BY QueueNumbers, AppendPlaces, EventNumbers
<1>2. Has(r, g, c, e.n)
  BY HasAppend
<1> HIDE DEF r
<1>3. \A i \in 1 .. Len(q) : ~ On(q[i], g, c)
  BY <1>1 DEF Wire
<1>4. \A i \in 1 .. Len(r) : On(r[i], g, c) => i = Len(q) + 1
  BY <1>1, <1>3
<1> QED BY <1>1, <1>2, <1>4 DEF Wire, r

\* Events of other wires do not count.
LEMMA WireAppendOff ==
    ASSUME NEW q \in Seq(SessionEvent), NEW e \in SessionEvent, NEW g, NEW c,
           NEW lo \in Nat, NEW hi \in Nat, NEW whole \in BOOLEAN,
           Wire(q, g, c, lo, hi, whole), ~ On(e, g, c)
    PROVE  Wire(Append(q, e), g, c, lo, hi, whole)
<1> DEFINE r == Append(q, e)
<1>1. /\ Len(r) = Len(q) + 1 /\ r[Len(q) + 1] = e /\ Len(q) \in Nat
      /\ \A i \in 1 .. Len(q) : r[i] = q[i]
  OBVIOUS
<1>2. \A m : Has(q, g, c, m) => Has(r, g, c, m)
  BY HasAppend
<1> HIDE DEF r
<1>3. \A i \in 1 .. Len(r) : On(r[i], g, c) => i \in 1 .. Len(q) /\ r[i] = q[i]
  BY <1>1
<1>4. \A i \in 1 .. Len(r) : On(r[i], g, c) => lo < r[i].n /\ r[i].n <= hi
  BY <1>3 DEF Wire
<1>5. \A i, j \in 1 .. Len(r) : On(r[i], g, c) /\ On(r[j], g, c) /\ i < j => r[i].n < r[j].n
  BY <1>3 DEF Wire
<1>6. ASSUME NEW m \in Nat, lo < m, m <= hi,
             whole \/ m = hi \/ \E i \in 1 .. Len(r) : On(r[i], g, c) /\ r[i].n <= m
      PROVE  Has(r, g, c, m)
  <2>1. whole \/ m = hi \/ \E i \in 1 .. Len(q) : On(q[i], g, c) /\ q[i].n <= m
    BY <1>3, <1>6
  <2> QED BY <2>1, <1>6, <1>2 DEF Wire
<1> QED BY <1>4, <1>5, <1>6 DEF Wire, r

\* What a queue has is its first event or in the rest.
LEMMA HasTail ==
    ASSUME NEW q \in Seq(SessionEvent), q # <<>>, NEW g, NEW c, NEW m, Has(q, g, c, m)
    PROVE  (On(Head(q), g, c) /\ Head(q).n = m) \/ Has(Tail(q), g, c, m)
<1>1. /\ Len(Tail(q)) = Len(q) - 1 /\ Len(q) \in Nat /\ Head(q) = q[1]
      /\ \A i \in 1 .. Len(Tail(q)) : Tail(q)[i] = q[i + 1]
  OBVIOUS
<1>2. PICK i \in 1 .. Len(q) : On(q[i], g, c) /\ q[i].n = m
  BY DEF Has
<1>3. CASE i = 1
  BY <1>1, <1>2, <1>3
<1>4. CASE i # 1
  <2>1. i - 1 \in 1 .. Len(Tail(q)) /\ Tail(q)[i - 1] = q[i]
    BY <1>1, <1>4
  <2> QED BY <2>1, <1>2 DEF Has
<1> QED BY <1>3, <1>4

\* Whoever takes the first event of a wire has had all up to it.
LEMMA WireTailOn ==
    ASSUME NEW q \in Seq(SessionEvent), q # <<>>, NEW g, NEW c,
           NEW lo \in Nat, NEW hi \in Nat, NEW whole \in BOOLEAN,
           Wire(q, g, c, lo, hi, whole), On(Head(q), g, c)
    PROVE  /\ Wire(Tail(q), g, c, Head(q).n, hi, TRUE)
           /\ lo < Head(q).n /\ Head(q).n <= hi
           /\ whole => Head(q).n = lo + 1
<1> DEFINE r == Tail(q)
           h == Head(q)
<1>1. /\ Len(r) = Len(q) - 1 /\ Len(q) \in Nat /\ Len(q) >= 1 /\ h = q[1] /\ h.n \in Nat
      /\ \A i \in 1 .. Len(r) : r[i] = q[i + 1] /\ i + 1 \in 1 .. Len(q)
      /\ \A i \in 1 .. Len(q) : q[i].n \in Nat
  BY QueueNumbers, TailPlaces, EventNumbers
<1>2. \A m : Has(q, g, c, m) => h.n = m \/ Has(r, g, c, m)
  BY HasTail
<1>a. On(h, g, c)
  OBVIOUS
<1> HIDE DEF r, h
<1>3. lo < h.n /\ h.n <= hi
  BY <1>1, <1>a DEF Wire
<1>4. \A i \in 1 .. Len(r) : On(r[i], g, c) => h.n < r[i].n /\ r[i].n <= hi
  BY <1>1, <1>a DEF Wire
<1>5. ASSUME NEW i \in 1 .. Len(r), NEW j \in 1 .. Len(r), On(r[i], g, c), On(r[j], g, c), i < j
      PROVE  r[i].n < r[j].n
  <2>0. i + 1 < j + 1
    BY <1>1, <1>5
  <2>1. /\ i + 1 \in 1 .. Len(q) /\ j + 1 \in 1 .. Len(q) /\ i + 1 < j + 1
        /\ r[i] = q[i + 1] /\ r[j] = q[j + 1]
    BY <1>1, <2>0
  <2> QED BY <2>1, <1>5 DEF Wire
<1>6. ASSUME NEW m \in Nat, h.n < m, m <= hi
      PROVE  Has(r, g, c, m)
  <2>1. Has(q, g, c, m)
    BY <1>1, <1>3, <1>6, <1>a DEF Wire
  <2> QED BY <2>1, <1>2, <1>6, <1>1
<1>7. ASSUME whole
      PROVE  h.n = lo + 1
  <2>1. Has(q, g, c, lo + 1)
    BY <1>1, <1>3, <1>7 DEF Wire
  <2>2. PICK i \in 1 .. Len(q) : On(q[i], g, c) /\ q[i].n = lo + 1
    BY <2>1 DEF Has
  <2>3. i = 1 \/ q[1].n < q[i].n
    BY <1>1, <1>a, <2>2 DEF Wire
  <2> QED BY <2>2, <2>3, <1>1, <1>3
<1>8. Wire(r, g, c, h.n, hi, TRUE)
  BY <1>3, <1>4, <1>5, <1>6 DEF Wire
<1> QED BY <1>3, <1>7, <1>8 DEF r, h

\* An event of another wire leaves.
LEMMA WireTailOff ==
    ASSUME NEW q \in Seq(SessionEvent), q # <<>>, NEW g, NEW c,
           NEW lo \in Nat, NEW hi \in Nat, NEW whole \in BOOLEAN,
           Wire(q, g, c, lo, hi, whole), ~ On(Head(q), g, c)
    PROVE  Wire(Tail(q), g, c, lo, hi, whole)
<1> DEFINE r == Tail(q)
<1>1. /\ Len(r) = Len(q) - 1 /\ Len(q) \in Nat
      /\ \A i \in 1 .. Len(r) : r[i] = q[i + 1] /\ i + 1 \in 1 .. Len(q)
  OBVIOUS
<1>2. \A m : Has(q, g, c, m) => Has(r, g, c, m)
  BY HasTail
<1> HIDE DEF r
<1>3. \A i \in 1 .. Len(r) : On(r[i], g, c) => lo < r[i].n /\ r[i].n <= hi
  BY <1>1 DEF Wire
<1>4. ASSUME NEW i \in 1 .. Len(r), NEW j \in 1 .. Len(r), On(r[i], g, c), On(r[j], g, c), i < j
      PROVE  r[i].n < r[j].n
  <2>0. i + 1 < j + 1
    BY <1>1, <1>4
  <2>1. /\ i + 1 \in 1 .. Len(q) /\ j + 1 \in 1 .. Len(q) /\ i + 1 < j + 1
        /\ r[i] = q[i + 1] /\ r[j] = q[j + 1]
    BY <1>1, <2>0
  <2> QED BY <2>1, <1>4 DEF Wire
<1>5. ASSUME NEW m \in Nat, lo < m, m <= hi,
             whole \/ m = hi \/ \E i \in 1 .. Len(r) : On(r[i], g, c) /\ r[i].n <= m
      PROVE  Has(r, g, c, m)
  <2>1. whole \/ m = hi \/ \E i \in 1 .. Len(q) : On(q[i], g, c) /\ q[i].n <= m
    BY <1>1, <1>5
  <2> QED BY <2>1, <1>5, <1>2 DEF Wire
<1>6. lo <= hi
  BY DEF Wire
<1> QED BY <1>3, <1>4, <1>5, <1>6 DEF Wire, r

\* The same where the run is whole once something of it was read.
LEMMA ReadAppend ==
    ASSUME NEW q \in Seq(SessionEvent), NEW e \in SessionEvent, NEW g, NEW c, NEW lo \in Nat, NEW hi \in Nat,
           Wire(q, g, c, lo, hi, lo > 0)
    PROVE  /\ ~ On(e, g, c) => Wire(Append(q, e), g, c, lo, hi, lo > 0)
           /\ On(e, g, c) /\ e.n = hi + 1 => Wire(Append(q, e), g, c, lo, hi + 1, lo > 0)
<1> DEFINE w == lo > 0
<1>1. w \in BOOLEAN /\ Wire(q, g, c, lo, hi, w)
  OBVIOUS
<1> HIDE DEF w
<1>2. /\ ~ On(e, g, c) => Wire(Append(q, e), g, c, lo, hi, w)
      /\ On(e, g, c) /\ e.n = hi + 1 => Wire(Append(q, e), g, c, lo, hi + 1, w)
  BY <1>1, WireAppendOff, WireAppendOn
<1> QED BY <1>2 DEF w

\* A reader takes the first event.
LEMMA ReadTail ==
    ASSUME NEW q \in Seq(SessionEvent), q # <<>>, NEW g, NEW c, NEW lo \in Nat, NEW hi \in Nat,
           Wire(q, g, c, lo, hi, lo > 0)
    PROVE  /\ ~ On(Head(q), g, c) => Wire(Tail(q), g, c, lo, hi, lo > 0)
           /\ On(Head(q), g, c) => Wire(Tail(q), g, c, Head(q).n, hi, Head(q).n > 0) /\ 0 < Head(q).n /\ Head(q).n <= hi
<1> DEFINE w == lo > 0
<1>1. w \in BOOLEAN /\ Wire(q, g, c, lo, hi, w)
  OBVIOUS
<1> HIDE DEF w
<1>2. /\ ~ On(Head(q), g, c) => Wire(Tail(q), g, c, lo, hi, w)
      /\ On(Head(q), g, c) => Wire(Tail(q), g, c, Head(q).n, hi, TRUE) /\ Head(q).n <= hi
  BY <1>1, WireTailOff, WireTailOn
<1>3. 0 < Head(q).n /\ (Head(q).n > 0) = TRUE
  BY TailPlaces, EventNumbers
<1> QED BY <1>2, <1>3 DEF w

\* Pushing the oldest event out leaves the end of the run, or nothing of it.
LEMMA WireEvict ==
    ASSUME NEW q \in Seq(SessionEvent), q # <<>>, NEW g, NEW c, NEW hi \in Nat,
           Wire(q, g, c, 0, hi, FALSE)
    PROVE  Wire(Tail(q), g, c, 0, hi, FALSE) \/ Wire(Tail(q), g, c, 0, 0, FALSE)
<1> DEFINE r == Tail(q)
           k == Head(q).n
<1>1. CASE ~ On(Head(q), g, c)
  BY <1>1, WireTailOff
<1>2. CASE On(Head(q), g, c)
  <2>1. /\ Wire(r, g, c, k, hi, TRUE) /\ 0 < k /\ k <= hi /\ k \in Nat /\ Len(r) \in Nat
        /\ \A i \in 1 .. Len(r) : r[i].n \in Nat
    BY <1>2, WireTailOn, TailPlaces, EventNumbers, QueueNumbers
  <2> HIDE DEF r, k
  <2>2. CASE k = hi
    <3>1. \A i \in 1 .. Len(r) : ~ On(r[i], g, c)
      BY <2>1, <2>2 DEF Wire
    <3> QED BY <3>1 DEF Wire, r
  <2>3. CASE k < hi
    <3>1. \A i \in 1 .. Len(r) : On(r[i], g, c) => k < r[i].n
      BY <2>1 DEF Wire
    <3>2. \A i \in 1 .. Len(r) : On(r[i], g, c) => 0 < r[i].n /\ r[i].n <= hi
      BY <2>1 DEF Wire
    <3>3. ASSUME NEW m \in Nat, m <= hi, m = hi \/ \E i \in 1 .. Len(r) : On(r[i], g, c) /\ r[i].n <= m
          PROVE  Has(r, g, c, m)
      <4>1. k < m
        BY <3>1, <3>3, <2>1, <2>3
      <4> QED BY <4>1, <3>3, <2>1 DEF Wire
    <3>4. Wire(r, g, c, 0, hi, FALSE)
      BY <3>2, <3>3, <2>1 DEF Wire
    <3> QED BY <3>4 DEF r
  <2>4. k = hi \/ k < hi
    BY <2>1
  <2> QED BY <2>2, <2>3, <2>4
<1> QED BY <1>1, <1>2

\* The run ends with the event hi.
LEMMA WireHasLast ==
    ASSUME NEW q \in Seq(SessionEvent), NEW g, NEW c, NEW lo \in Nat, NEW hi \in Nat,
           NEW whole \in BOOLEAN, Wire(q, g, c, lo, hi, whole), lo < hi
    PROVE  Has(q, g, c, hi)
BY DEF Wire

\* When the window holds all events of the wire but the first v, it holds all but
\* the first v + 1 after its oldest event was pushed out.
LEMMA EvictKeeps ==
    ASSUME NEW q \in Seq(SessionEvent), q # <<>>, NEW g, NEW c, NEW hi \in Nat,
           Wire(q, g, c, 0, hi, FALSE), NEW v \in Nat, NEW top \in Nat,
           \A m \in Nat : v < m /\ m <= top => Has(q, g, c, m)
    PROVE  \A m \in Nat : v + 1 < m /\ m <= top => Has(Tail(q), g, c, m)
<1> SUFFICES ASSUME NEW m \in Nat, v + 1 < m, m <= top, ~ Has(Tail(q), g, c, m)
             PROVE  FALSE
  OBVIOUS
<1>1. Has(q, g, c, m) /\ Has(q, g, c, v + 1)
  OBVIOUS
<1>2. On(q[1], g, c) /\ q[1].n = m
  BY <1>1, HasTail, TailPlaces
<1>3. PICK i \in 1 .. Len(q) : On(q[i], g, c) /\ q[i].n = v + 1
  BY <1>1 DEF Has
<1>4. Len(q) \in Nat /\ 1 \in 1 .. Len(q) /\ 1 < i
  BY <1>2, <1>3, TailPlaces, QueueNumbers
<1>5. q[1].n < q[i].n
  BY <1>2, <1>3, <1>4 DEF Wire
<1> QED BY <1>2, <1>3, <1>5

\* The replay window takes an event: what it holds of a wire still ends where
\* it did, or with the event if that is of the wire, or is gone.
LEMMA WindowEnds ==
    ASSUME NEW q \in Seq(SessionEvent), NEW e \in SessionEvent, Len(q) <= MaxPending,
           NEW g, NEW c, NEW hi \in Nat, Wire(q, g, c, 0, hi, FALSE), NEW next \in Nat,
           \/ ~ On(e, g, c) /\ next = hi
           \/ On(e, g, c) /\ next = e.n /\ (hi = 0 \/ e.n = hi + 1)
    PROVE  /\ Wire(Append(q, e), g, c, 0, next, FALSE)
           /\ push_pending_event(q, e) = IF Len(q) = MaxPending THEN Tail(Append(q, e)) ELSE Append(q, e)
           /\ \/ Wire(push_pending_event(q, e), g, c, 0, next, FALSE)
              \/ Wire(push_pending_event(q, e), g, c, 0, 0, FALSE)
<1> DEFINE r == Append(q, e)
<1>1. r \in Seq(SessionEvent) /\ Len(r) = Len(q) + 1 /\ Len(q) \in Nat /\ MaxPending \in Nat /\ r # <<>>
  BY AppendPlaces, QueueNumbers, EventBasics
<1>2. Wire(r, g, c, 0, next, FALSE)
  BY WireAppendOff, WireAppendOn, WireStart
<1>3. push_pending_event(q, e) = IF Len(q) = MaxPending THEN Tail(r) ELSE r
  BY <1>1 DEF push_pending_event
<1> HIDE DEF r
<1>4. Wire(Tail(r), g, c, 0, next, FALSE) \/ Wire(Tail(r), g, c, 0, 0, FALSE)
  BY <1>1, <1>2, WireEvict
<1> QED BY <1>2, <1>3, <1>4 DEF r

\* It misses one event more at most, if it was full.
LEMMA WindowMisses ==
    ASSUME NEW q \in Seq(SessionEvent), NEW e \in SessionEvent, Len(q) <= MaxPending,
           NEW g, NEW c, NEW hi \in Nat, Wire(q, g, c, 0, hi, FALSE), NEW next \in Nat,
           \/ ~ On(e, g, c) /\ next = hi
           \/ On(e, g, c) /\ next = e.n /\ (hi = 0 \/ e.n = hi + 1),
           NEW v \in Nat, NEW top \in Nat,
           \A m \in Nat : v < m /\ m <= top => Has(q, g, c, m) \/ (On(e, g, c) /\ e.n = m)
    PROVE  \A m \in Nat : (IF Len(q) = MaxPending THEN v + 1 ELSE v) < m /\ m <= top
              => Has(push_pending_event(q, e), g, c, m)
<1> DEFINE r == Append(q, e)
<1>1. r \in Seq(SessionEvent) /\ r # <<>>
  BY AppendPlaces
<1>2. Wire(r, g, c, 0, next, FALSE) /\ push_pending_event(q, e) = IF Len(q) = MaxPending THEN Tail(r) ELSE r
  BY WindowEnds
<1>3. \A m \in Nat : v < m /\ m <= top => Has(r, g, c, m)
  BY HasAppend
<1> HIDE DEF r
<1>4. \A m \in Nat : v + 1 < m /\ m <= top => Has(Tail(r), g, c, m)
  BY <1>1, <1>2, <1>3, EvictKeeps
<1>5. CASE Len(q) = MaxPending
  BY <1>2, <1>4, <1>5
<1>6. CASE Len(q) # MaxPending
  BY <1>2, <1>3, <1>6
<1> QED BY <1>5, <1>6

\* The window stays a bounded queue of events of its channel.
LEMMA WindowTyped ==
    ASSUME NEW q \in Seq(SessionEvent), NEW e \in SessionEvent, Len(q) <= MaxPending,
           \A i \in 1 .. Len(q) : q[i].channel = e.channel
    PROVE  /\ push_pending_event(q, e) \in Seq(SessionEvent)
           /\ Len(push_pending_event(q, e)) <= MaxPending
           /\ \A i \in 1 .. Len(push_pending_event(q, e)) : push_pending_event(q, e)[i].channel = e.channel
<1> DEFINE r == Append(q, e)
<1>1. /\ r \in Seq(SessionEvent) /\ Len(r) = Len(q) + 1 /\ Len(q) \in Nat /\ MaxPending \in Nat /\ r # <<>>
  BY AppendPlaces, QueueNumbers, EventBasics
<1>4. \A i \in 1 .. Len(r) : r[i].channel = e.channel
  BY AppendPlaces, <1>1
<1>2. push_pending_event(q, e) = IF Len(q) = MaxPending THEN Tail(r) ELSE r
  BY <1>1 DEF push_pending_event
<1> HIDE DEF r
<1>3. /\ Tail(r) \in Seq(SessionEvent) /\ Len(Tail(r)) = Len(q)
      /\ \A i \in 1 .. Len(Tail(r)) : Tail(r)[i].channel = e.channel
  BY <1>1, <1>4, TailPlaces
<1> QED BY <1>1, <1>2, <1>3, <1>4

\* Without a hole, place by place.
LEMMA WireNoHole ==
    ASSUME NEW q \in Seq(SessionEvent), NEW g, NEW c, NEW lo \in Nat, NEW hi \in Nat,
           NEW whole \in BOOLEAN, lo # 0 => whole, Wire(q, g, c, lo, hi, whole), NEW i \in 1 .. Len(q), On(q[i], g, c)
    PROVE  /\ (\A j \in 1 .. Len(q) : On(q[j], g, c) => i <= j) => lo \in {0, q[i].n - 1}
           /\ \A j \in 1 .. Len(q) :
                 On(q[j], g, c) /\ j < i /\ (\A k \in 1 .. Len(q) : On(q[k], g, c) /\ k < i => k <= j)
                    => q[i].n = q[j].n + 1
<1>1. /\ Len(q) \in Nat /\ \A j \in 1 .. Len(q) : q[j].n \in Nat
      /\ \A j, k \in 1 .. Len(q) : On(q[j], g, c) /\ On(q[k], g, c) /\ j < k => q[j].n < q[k].n
      /\ lo < q[i].n /\ q[i].n <= hi
  BY QueueNumbers DEF Wire
<1>2. ASSUME \A j \in 1 .. Len(q) : On(q[j], g, c) => i <= j, lo # 0
      PROVE  lo = q[i].n - 1
  <2>1. Has(q, g, c, lo + 1)
    BY <1>1, <1>2 DEF Wire
  <2>2. PICK k \in 1 .. Len(q) : On(q[k], g, c) /\ q[k].n = lo + 1
    BY <2>1 DEF Has
  <2>3. i = k \/ q[i].n < q[k].n
    BY <1>1, <1>2, <2>2
  <2> QED BY <2>2, <2>3, <1>1
<1>3. ASSUME NEW j \in 1 .. Len(q), On(q[j], g, c), j < i,
             \A k \in 1 .. Len(q) : On(q[k], g, c) /\ k < i => k <= j
      PROVE  q[i].n = q[j].n + 1
  <2>1. q[j].n < q[i].n /\ lo < q[j].n
    BY <1>1, <1>3 DEF Wire
  <2>2. Has(q, g, c, q[j].n + 1)
    BY <1>1, <1>3, <2>1 DEF Wire
  <2>3. PICK k \in 1 .. Len(q) : On(q[k], g, c) /\ q[k].n = q[j].n + 1
    BY <2>2 DEF Has
  <2>4. ~ k < j /\ k # j /\ ~ i < k
    BY <1>1, <1>3, <2>1, <2>3
  <2>5. k = i
    BY <1>3, <2>3, <2>4, <1>1
  <2> QED BY <2>3, <2>5
<1> QED BY <1>2, <1>3

-----------------------------------------------------------------------------
(* What a step leaves alone *)

\* The queue of a wire.
LEMMA QueueSame ==
    ASSUME NEW g, NEW c, NEW p, QueueAt(g, c, p), queue'[g] = queue[g], sent'[g][c] = sent[g][c],
           pump'[g].pc \in {"routing", "sending"} /\ pump'[g].event.channel = c =>
              pump[g].pc \in {"routing", "sending"} /\ pump'[g].event = pump[g].event
    PROVE  QueueAt(g, c, p)'
BY DEF QueueAt

\* The replay window.
LEMMA HeldSame ==
    ASSUME NEW g, NEW c, NEW p, HeldAt(g, c, p), pending'[c] = pending[c], evicted'[c] = evicted[c],
           Routed(g, c, p)' = Routed(g, c, p),
           generation' = g \/ pump'[g].pc = "routing" => generation = g \/ pump[g].pc = "routing",
           Untouched(c)' /\ Current(g)' => Untouched(c) /\ Current(g)
    PROVE  HeldAt(g, c, p)'
<1>1. PICK hi \in Nat : /\ Wire(pending[c], g, c, 0, hi, FALSE) /\ hi <= p
                        /\ (generation = g \/ pump[g].pc = "routing") => hi \in {0, Routed(g, c, p)}
  BY DEF HeldAt
<1>2. Untouched(c)' /\ Current(g)' =>
         \A m \in Nat : evicted'[c] < m /\ m <= Routed(g, c, p)' => Has(pending'[c], g, c, m)
  BY DEF HeldAt
<1>3. /\ Wire(pending'[c], g, c, 0, hi, FALSE) /\ hi <= p
      /\ (generation' = g \/ pump'[g].pc = "routing") => hi \in {0, Routed(g, c, p)'}
  BY <1>1
<1> QED BY <1>2, <1>3 DEF HeldAt

\* An empty window.
LEMMA HeldEmpty ==
    ASSUME NEW g, NEW c, NEW p \in Nat, pending'[c] = <<>>,
           Untouched(c)' /\ Current(g)' => Routed(g, c, p)' = 0 /\ evicted'[c] = 0
    PROVE  HeldAt(g, c, p)'
<1>1. Wire(pending'[c], g, c, 0, 0, FALSE)
  BY WireEmpty
<1>2. 0 \in Nat /\ 0 <= p /\ 0 \in {0, Routed(g, c, p)'}
  OBVIOUS
<1>3. \E hi \in Nat : /\ Wire(pending'[c], g, c, 0, hi, FALSE) /\ hi <= p
                      /\ (generation' = g \/ pump'[g].pc = "routing") => hi \in {0, Routed(g, c, p)'}
  BY <1>1, <1>2
<1>4. Untouched(c)' /\ Current(g)' =>
         \A m \in Nat : evicted'[c] < m /\ m <= Routed(g, c, p)' => Has(pending'[c], g, c, m)
  OBVIOUS
<1> QED BY <1>3, <1>4 DEF HeldAt

\* A pump that does not move.
LEMMA PumpSame ==
    ASSUME NEW g, PumpFits(g), pump'[g] = pump[g], queue'[g] = queue[g], sent' = sent,
           generation' = generation, phase' = phase,
           \A s \in pump[g].targets : forwarder'[s] # "none" /\ filter'[s] = filter[s]
    PROVE  PumpFits(g)'
BY DEF PumpFits, matches

\* The inbox of a subscription.
LEMMA GotSame ==
    ASSUME NEW s, NEW g, NEW c, NEW p, GotAt(s, g, c, p), inbox'[s] = inbox[s],
           received'[s] = received[s], filter'[s] = filter[s],
           evicted[c] \in Nat, evicted'[c] \in Nat,
           \A i \in 1 .. Len(inbox[s]) : inbox[s][i].n \in Nat,
           Reach(s, g)' => Reach(s, g) /\ Due(s, g, c, p)' = Due(s, g, c, p),
           Sole(s, c)' /\ Current(g)' =>
              Sole(s, c) /\ Current(g) /\ evicted'[c] >= evicted[c] /\ Due(s, g, c, p) \in Int
    PROVE  GotAt(s, g, c, p)'
<1>1. PICK hi \in Nat :
        /\ Wire(inbox[s], g, c, received[s][g][c], hi, received[s][g][c] > 0)
        /\ hi <= p
        /\ hi > 0 => filter[s] \in {All, c}
        /\ Reach(s, g) => hi \in {0, Due(s, g, c, p)}
        /\ Sole(s, c) /\ Current(g) =>
              /\ hi > 0 /\ received[s][g][c] = 0 =>
                    \E i \in 1 .. Len(inbox[s]) : On(inbox[s][i], g, c) /\ inbox[s][i].n <= evicted[c] + 1
              /\ hi = 0 /\ Reach(s, g) => Due(s, g, c, p) <= evicted[c]
  BY DEF GotAt
<1>2. ASSUME Sole(s, c)', Current(g)'
      PROVE  /\ hi > 0 /\ received[s][g][c] = 0 =>
                   \E i \in 1 .. Len(inbox[s]) : On(inbox[s][i], g, c) /\ inbox[s][i].n <= evicted'[c] + 1
             /\ hi = 0 /\ Reach(s, g)' => Due(s, g, c, p)' <= evicted'[c]
  <2>1. Sole(s, c) /\ Current(g) /\ evicted'[c] >= evicted[c] /\ Due(s, g, c, p) \in Int
    BY <1>2
  <2>2. ASSUME hi > 0, received[s][g][c] = 0
        PROVE  \E i \in 1 .. Len(inbox[s]) : On(inbox[s][i], g, c) /\ inbox[s][i].n <= evicted'[c] + 1
    <3>1. PICK i \in 1 .. Len(inbox[s]) : On(inbox[s][i], g, c) /\ inbox[s][i].n <= evicted[c] + 1
      BY <1>1, <2>1, <2>2
    <3>2. inbox[s][i].n <= evicted'[c] + 1
      BY <2>1, <3>1
    <3> QED BY <3>1, <3>2
  <2>3. ASSUME hi = 0, Reach(s, g)'
        PROVE  Due(s, g, c, p)' <= evicted'[c]
    <3>1. Due(s, g, c, p)' = Due(s, g, c, p) /\ Due(s, g, c, p) <= evicted[c]
      BY <1>1, <2>1, <2>3
    <3> QED BY <2>1, <3>1
  <2> QED BY <2>2, <2>3
<1> QED BY <1>1, <1>2 DEF GotAt

\* A subscription that was given nothing.
LEMMA GotNothing ==
    ASSUME NEW s, NEW g, NEW c, NEW p \in Nat, Wire(inbox'[s], g, c, 0, 0, FALSE), received'[s][g][c] = 0,
           Sole(s, c)' /\ Current(g)' /\ Reach(s, g)' => Due(s, g, c, p)' <= evicted'[c]
    PROVE  GotAt(s, g, c, p)'
<1>1. (received'[s][g][c] > 0) = FALSE
  OBVIOUS
<1>2. Wire(inbox'[s], g, c, received'[s][g][c], 0, received'[s][g][c] > 0)
  BY <1>1
<1>3. 0 \in Nat /\ 0 <= p /\ 0 \in {0, Due(s, g, c, p)'} /\ ~ 0 > 0
  OBVIOUS
<1> QED BY <1>2, <1>3 DEF GotAt

-----------------------------------------------------------------------------
(* The steps of the transport *)

\* What the types say at one place.
LEMMA FrameTypes ==
    ASSUME Frame, NEW g \in Generations, NEW c \in Channels
    PROVE  /\ generation \in Nat /\ g \in Nat /\ c \in Sources /\ c # End
           /\ pump[g] \in PumpStates /\ pump[g].event \in SessionEvent /\ pump[g].targets \subseteq Subs
           /\ queue[g] \in Seq(SessionEvent) /\ pending[c] \in Seq(SessionEvent)
           /\ sent[g][c] \in Nat /\ evicted[c] \in Nat /\ stale[g] \in Nat
BY EventBasics DEF Frame, PumpTypes, PumpStates, Generations, Counts, Sources

LEMMA SubTypes ==
    ASSUME Frame, NEW s \in Subs, NEW g \in Generations, NEW c \in Channels
    PROVE  /\ inbox[s] \in Seq(SessionEvent) /\ filter[s] \in Filters
           /\ received[s][g][c] \in Nat
           /\ \A i \in 1 .. Len(inbox[s]) : inbox[s][i].n \in Nat
<1>1. inbox[s] \in Seq(SessionEvent) /\ filter[s] \in Filters /\ received[s][g][c] \in Nat
  BY DEF Frame, PumpTypes, Counts, Sources
<1> QED BY <1>1, QueueNumbers

\* Nothing has left the queue of a transport that has no pump yet.
LEMMA NothingTaken ==
    ASSUME Frame, NEW g \in Generations, NEW c \in Channels, NEW p \in Nat, QueueAt(g, c, p),
           pump[g].pc = "none"
    PROVE  p = 0
<1>1. sent[g][c] = 0
  BY DEF Frame, PumpsFit, PumpFits, Sources
<1> QED BY <1>1 DEF QueueAt, Wire

\* How far the pump has come is a number.
LEMMA DueTyped ==
    ASSUME NEW s, NEW g, NEW c, NEW p \in Nat
    PROVE  Due(s, g, c, p) \in Int /\ Routed(g, c, p) \in Int
BY DEF Due, Routed

\* In the beginning nothing has happened.
LEMMA PumpInitInv ==
    ASSUME PumpInit PROVE PumpInv
<1>1. ASSUME NEW g \in Generations PROVE Asleep \in PumpStates
  <2>1. Placeholder \in SessionEvent
    BY EventBasics DEF Placeholder, SessionEvent, Generations, Sources
  <2> QED BY <2>1 DEF Asleep, PumpStates
<1>2. Nothing \in Counts
  BY DEF Nothing, Counts
<1>3. PumpTypes
  <2>1. generation \in 0 .. MaxGeneration
    BY EventBasics DEF PumpInit
  <2>2. pump \in [Generations -> PumpStates] /\ queue \in [Generations -> Seq(SessionEvent)]
    BY <1>1 DEF PumpInit
  <2>3. pending \in [Channels -> Seq(SessionEvent)] /\ inbox \in [Subs -> Seq(SessionEvent)]
    BY DEF PumpInit
  <2> QED BY <1>2, <2>1, <2>2, <2>3 DEF PumpInit, PumpTypes, Filters
<1>4. BoundsFit
  BY EventBasics DEF PumpInit, BoundsFit
<1>5. PumpsFit /\ SubscriptionsFit /\ WindowsFit
  BY DEF PumpInit, PumpsFit, PumpFits, SubscriptionsFit, WindowsFit, Asleep, Nothing, Sources
<1>6. StaleFits
  BY DEF PumpInit, StaleFits
<1>7. ASSUME NEW g \in Generations, NEW c \in Channels
      PROVE  WireAt(g, c, 0)
  <2>1. /\ queue[g] = <<>> /\ sent[g][c] = 0 /\ pump[g] = Asleep /\ pending[c] = <<>> /\ phase = "idle"
        /\ \A s \in Subs : inbox[s] = <<>> /\ received[s][g][c] = 0
    BY DEF PumpInit, Nothing, Sources
  <2>2. Asleep.pc = "none" /\ Asleep.targets = {}
    BY DEF Asleep
  <2>3. Wire(<<>>, g, c, 0, 0, TRUE) /\ Wire(<<>>, g, c, 0, 0, FALSE)
    BY WireEmpty
  <2>4. QueueAt(g, c, 0)
    BY <2>1, <2>2, <2>3 DEF QueueAt
  <2>5. HeldAt(g, c, 0)
    <3>1. Wire(pending[c], g, c, 0, 0, FALSE)
      BY <2>1, <2>3
    <3>2. 0 \in {0, Routed(g, c, 0)} /\ 0 <= 0 /\ ~ Current(g)
      BY <2>1 DEF Current
    <3> QED BY <3>1, <3>2 DEF HeldAt
  <2>6. ASSUME NEW s \in Subs PROVE GotAt(s, g, c, 0)
    <3>1. (received[s][g][c] > 0) = FALSE
      BY <2>1
    <3>2. Wire(inbox[s], g, c, received[s][g][c], 0, received[s][g][c] > 0)
      BY <2>1, <2>3, <3>1
    <3>3. 0 \in Nat /\ ~ 0 > 0 /\ 0 <= 0 /\ 0 \in {0, Due(s, g, c, 0)} /\ ~ Current(g)
      BY <2>1 DEF Current
    <3> QED BY <3>2, <3>3 DEF GotAt
  <2> QED BY <2>4, <2>5, <2>6 DEF WireAt
<1> QED BY <1>3, <1>4, <1>5, <1>6, <1>7 DEF PumpInv, Frame, Wires

\* A new generation has no pump, and nothing of it is anywhere.
LEMMA ReserveGenerationKeeps ==
    ASSUME PumpInv, NEW next \in {"connecting", "closing"}, ReserveGeneration(next)
    PROVE  PumpInv'
<1>0. Frame
  BY DEF PumpInv
<1>1. /\ generation' = generation + 1 /\ generation' \in 0 .. MaxGeneration /\ phase' = next /\ generation \in Nat
      /\ UNCHANGED <<sent, load, queue, pump, subscribers, seat, pending, inbox, room, filter, forwarder,
                     callback, received, missed, evicted, stale>>
  BY <1>0, EventBasics DEF ReserveGeneration, renderVars, historyVars, Frame, PumpTypes
<1>2. PumpTypes' /\ BoundsFit' /\ SubscriptionsFit' /\ WindowsFit'
  BY <1>0, <1>1 DEF Frame, PumpTypes, BoundsFit, SubscriptionsFit, WindowsFit
<1>3. PumpsFit' /\ StaleFits'
  BY <1>0, <1>1 DEF Frame, PumpsFit, PumpFits, StaleFits, matches, Generations
<1>4. ASSUME NEW g \in Generations, NEW c \in Channels, NEW p \in Nat, WireAt(g, c, p)
      PROVE  WireAt(g, c, p)'
  <2>0. /\ Routed(g, c, p)' = Routed(g, c, p) /\ ~ Current(g)'
        /\ \A s : Due(s, g, c, p)' = Due(s, g, c, p)
    BY <1>1 DEF Routed, Due, Current
  <2>1. QueueAt(g, c, p)'
    BY <1>1, <1>4 DEF WireAt, QueueAt
  <2>2. generation' = g => p = 0
    <3>1. generation' = g => g > generation
      BY <1>1
    <3> QED BY <3>1, <1>0, <1>4, NothingTaken DEF Frame, PumpsFit, PumpFits, WireAt
  <2>3. HeldAt(g, c, p)'
    <3>1. PICK hi \in Nat : /\ Wire(pending[c], g, c, 0, hi, FALSE) /\ hi <= p
                            /\ (generation = g \/ pump[g].pc = "routing") => hi \in {0, Routed(g, c, p)}
      BY <1>4 DEF WireAt, HeldAt
    <3>2. generation' = g => hi = 0
      BY <2>2, <3>1
    <3> QED BY <1>1, <2>0, <3>1, <3>2 DEF HeldAt
  <2>4. ASSUME NEW s \in Subs \ missed' PROVE GotAt(s, g, c, p)'
    <3>1. PICK hi \in Nat : /\ Wire(inbox[s], g, c, received[s][g][c], hi, received[s][g][c] > 0)
                            /\ hi <= p /\ (hi > 0 => filter[s] \in {All, c})
                            /\ Reach(s, g) => hi \in {0, Due(s, g, c, p)}
      BY <1>1, <1>4, <2>4 DEF WireAt, GotAt
    <3>2. generation' = g => hi = 0
      BY <2>2, <3>1
    <3>3. Reach(s, g)' => hi \in {0, Due(s, g, c, p)'}
      BY <1>1, <2>0, <3>1, <3>2 DEF Reach
    <3> QED BY <1>1, <2>0, <3>1, <3>3 DEF GotAt
  <2> QED BY <2>1, <2>3, <2>4 DEF WireAt
<1> QED BY <1>2, <1>3, <1>4 DEF PumpInv, Frame, Wires

\* The new pump begins with an empty window.
LEMMA AttachKeeps ==
    ASSUME PumpInv, Attach PROVE PumpInv'
<1>0. Frame
  BY DEF PumpInv
<1>1. /\ phase = "connecting" /\ phase' = "attached"
      /\ pending' = [c \in Channels |-> <<>>] /\ evicted' = [c \in Channels |-> 0]
      /\ pump' = [pump EXCEPT ![generation].pc = "receiving"]
      /\ UNCHANGED <<generation, sent, load, queue, subscribers, seat, inbox, room, filter, forwarder,
                     callback, received, missed, stale>>
  BY DEF Attach, renderVars
<1>2. \A g \in Generations : /\ pump'[g] = IF g = generation THEN [pump[g] EXCEPT !.pc = "receiving"] ELSE pump[g]
                             /\ pump'[g].targets = pump[g].targets /\ pump'[g].event = pump[g].event
                             /\ g # generation => pump'[g].pc = pump[g].pc
                             /\ g = generation => pump'[g].pc = "receiving" /\ pump[g].pc = "none"
                             /\ pump'[g] \in PumpStates
  <2>1. pump \in [Generations -> PumpStates] /\ (generation \in Generations => pump[generation].pc = "none")
    BY <1>0, <1>1 DEF Frame, PumpTypes, PumpsFit, PumpFits
  <2> QED BY <1>1, <2>1 DEF PumpStates
<1>3. PumpTypes'
  <2>1. pump' \in [Generations -> PumpStates]
    BY <1>0, <1>1, <1>2 DEF Frame, PumpTypes
  <2>2. pending' \in [Channels -> Seq(SessionEvent)] /\ evicted' \in [Channels -> Nat]
    BY <1>1
  <2> QED BY <1>0, <1>1, <2>1, <2>2 DEF Frame, PumpTypes
<1>4. BoundsFit' /\ SubscriptionsFit' /\ WindowsFit'
  BY <1>0, <1>1, EventBasics DEF Frame, BoundsFit, SubscriptionsFit, WindowsFit, PumpTypes
<1>5. PumpsFit'
  <2> SUFFICES ASSUME NEW g \in Generations
               PROVE  /\ (g > generation' \/ (g = generation' /\ phase' = "connecting")) => pump'[g].pc = "none"
                      /\ pump'[g].pc = "none" => \A c \in Sources : sent'[g][c] = 0
                      /\ \A i \in 1 .. Len(queue'[g]) : queue'[g][i].gen = g
                      /\ pump'[g].pc # "sending" => pump'[g].targets = {}
                      /\ pump'[g].pc \in {"routing", "sending"} => pump'[g].event.gen = g
                      /\ \A s \in pump'[g].targets : forwarder'[s] # "none" /\ matches(s, pump[g].event)'
    BY DEF PumpsFit, PumpFits
  <2>1. \A s : matches(s, pump[g].event)' = matches(s, pump[g].event)
    BY <1>1, <1>2 DEF matches
  <2>2. CASE g = generation
    <3>1. /\ ~ g > generation' /\ phase' # "connecting" /\ pump'[g].pc = "receiving" /\ pump[g].pc = "none"
          /\ pump'[g].targets = pump[g].targets
      BY <1>0, <1>1, <1>2, <2>2 DEF Frame, PumpTypes
    <3> QED BY <1>0, <1>1, <3>1 DEF Frame, PumpsFit, PumpFits
  <2>3. CASE g # generation
    BY <1>0, <1>1, <1>2, <2>1, <2>3 DEF Frame, PumpsFit, PumpFits
  <2> QED BY <2>2, <2>3
<1>6. StaleFits'
  BY <1>0, <1>1, <1>2 DEF Frame, StaleFits
<1>7. ASSUME NEW g \in Generations, NEW c \in Channels, NEW p \in Nat, WireAt(g, c, p)
      PROVE  WireAt(g, c, p)'
  <2>0. pending'[c] = <<>> /\ evicted'[c] = 0 /\ (g = generation => p = 0)
    BY <1>0, <1>1, <1>2, <1>7, NothingTaken DEF WireAt
  <2>1. QueueAt(g, c, p)'
    BY <1>1, <1>2, <1>7 DEF WireAt, QueueAt
  <2>2. HeldAt(g, c, p)'
    <3>1. Current(g)' => Routed(g, c, p)' = 0
      BY <1>1, <1>2, <2>0 DEF Current, Routed
    <3> QED BY <2>0, <3>1, HeldEmpty
  <2>3. ASSUME NEW s \in Subs \ missed' PROVE GotAt(s, g, c, p)'
    <3>1. PICK hi \in Nat : /\ Wire(inbox[s], g, c, received[s][g][c], hi, received[s][g][c] > 0)
                            /\ hi <= p /\ (hi > 0 => filter[s] \in {All, c})
                            /\ Reach(s, g) => hi \in {0, Due(s, g, c, p)}
      BY <1>1, <1>7, <2>3 DEF WireAt, GotAt
    <3>2. ASSUME g = generation
          PROVE  hi = 0 /\ Due(s, g, c, p)' = 0
      <4>1. pump[g].targets = {}
        BY <1>0, <1>2, <3>2 DEF Frame, PumpsFit, PumpFits
      <4>2. pump'[g].targets = {} /\ pump'[g].pc = "receiving" /\ p = 0
        BY <1>2, <2>0, <3>2, <4>1
      <4>3. Due(s, g, c, p)' = p
        BY <4>2 DEF Due
      <4> QED BY <3>1, <4>2, <4>3
    <3>3. ASSUME g # generation
          PROVE  ~ Current(g)' /\ (Reach(s, g)' => hi \in {0, Due(s, g, c, p)'})
      BY <1>1, <1>2, <3>1, <3>3 DEF Current, Reach, Due
    <3> QED BY <1>1, <2>0, <3>1, <3>2, <3>3 DEF GotAt
  <2> QED BY <2>1, <2>2, <2>3 DEF WireAt
<1> QED BY <1>3, <1>4, <1>5, <1>6, <1>7 DEF PumpInv, Frame, Wires

\* A disconnect leaves no subscribers to reach.
LEMMA TeardownKeeps ==
    ASSUME PumpInv, Teardown PROVE PumpInv'
<1>0. Frame
  BY DEF PumpInv
<1>1. /\ phase' = "idle" /\ subscribers' = {} /\ pending' = [c \in Channels |-> <<>>]
      /\ UNCHANGED <<generation, sent, load, queue, pump, seat, inbox, room, filter, forwarder,
                     callback, received, missed, evicted, stale>>
  BY DEF Teardown, renderVars, historyVars
<1>2. PumpTypes'
  <2>1. pending' \in [Channels -> Seq(SessionEvent)]
    BY <1>1
  <2> QED BY <1>0, <1>1, <2>1 DEF Frame, PumpTypes
<1>3. BoundsFit' /\ SubscriptionsFit' /\ WindowsFit'
  BY <1>0, <1>1, EventBasics DEF Frame, BoundsFit, SubscriptionsFit, WindowsFit
<1>4. PumpsFit' /\ StaleFits'
  BY <1>0, <1>1 DEF Frame, PumpsFit, PumpFits, StaleFits, matches
<1>5. ASSUME NEW g \in Generations, NEW c \in Channels, NEW p \in Nat, WireAt(g, c, p)
      PROVE  WireAt(g, c, p)'
  <2>1. QueueAt(g, c, p)'
    BY <1>1, <1>5 DEF WireAt, QueueAt
  <2>2. HeldAt(g, c, p)'
    BY <1>1, HeldEmpty DEF Current
  <2>3. ASSUME NEW s \in Subs \ missed' PROVE GotAt(s, g, c, p)'
    <3>1. ~ Current(g)' /\ (Reach(s, g)' => Reach(s, g)) /\ Due(s, g, c, p)' = Due(s, g, c, p)
      BY <1>1 DEF Current, Reach, Due
    <3> QED BY <1>0, <1>1, <1>5, <3>1, GotSame, FrameTypes, SubTypes, <2>3 DEF WireAt
  <2> QED BY <2>1, <2>2, <2>3 DEF WireAt
<1> QED BY <1>2, <1>3, <1>4, <1>5 DEF PumpInv, Frame, Wires

\* The handler appends the next event of its wire to the queue.
LEMMA SendEventKeeps ==
    ASSUME PumpInv, NEW h \in Generations, NEW k \in Sources, send_event(h, k)
    PROVE  PumpInv'
<1> DEFINE e == [gen |-> h, channel |-> k, n |-> sent[h][k] + 1]
<1>0. Frame
  BY DEF PumpInv
<1>1. /\ pump[h].pc # "none" /\ Len(queue[h]) < QueueSize
      /\ sent' = [sent EXCEPT ![h][k] = @ + 1] /\ queue' = [queue EXCEPT ![h] = Append(@, e)]
      /\ UNCHANGED <<generation, phase, load, pump, subscribers, seat, pending, inbox, room, filter, forwarder,
                     callback, received, missed, evicted, stale>>
  BY DEF send_event, renderVars, historyVars
<1>2. e \in SessionEvent /\ e.gen = h /\ e.channel = k /\ e.n = sent[h][k] + 1 /\ sent[h][k] \in Nat
  BY <1>0 DEF Frame, PumpTypes, Counts, SessionEvent
<1> HIDE DEF e
<1>3. /\ sent' \in Counts
      /\ \A g \in Generations, c \in Sources :
            sent'[g][c] = IF g = h /\ c = k THEN sent[h][k] + 1 ELSE sent[g][c]
  BY <1>0, <1>1 DEF Frame, PumpTypes, Counts
<1>4. /\ queue' \in [Generations -> Seq(SessionEvent)] /\ queue[h] \in Seq(SessionEvent)
      /\ queue'[h] = Append(queue[h], e) /\ \A g \in Generations \ {h} : queue'[g] = queue[g]
  BY <1>0, <1>1, <1>2 DEF Frame, PumpTypes
<1>5. PumpTypes' /\ SubscriptionsFit' /\ WindowsFit' /\ StaleFits'
  BY <1>0, <1>1, <1>3, <1>4 DEF Frame, PumpTypes, SubscriptionsFit, WindowsFit, StaleFits
<1>6. BoundsFit'
  <2>1. Len(queue'[h]) <= QueueSize
    BY <1>1, <1>2, <1>4, AppendPlaces, QueueNumbers, EventBasics
  <2> QED BY <1>0, <1>1, <1>4, <2>1 DEF Frame, BoundsFit
<1>7. PumpsFit'
  <2>1. \A i \in 1 .. Len(queue'[h]) : queue'[h][i].gen = h
    <3>1. \A i \in 1 .. Len(queue[h]) : queue[h][i].gen = h
      BY <1>0 DEF Frame, PumpsFit, PumpFits
    <3>2. Len(queue[h]) \in Nat
      BY <1>4, QueueNumbers
    <3> QED BY <1>2, <1>4, <3>1, <3>2, AppendPlaces
  <2>2. \A g \in Generations : pump[g].pc = "none" => g # h /\ \A c \in Sources : sent'[g][c] = sent[g][c]
    BY <1>1, <1>3
  <2> QED BY <1>0, <1>1, <1>4, <2>1, <2>2 DEF Frame, PumpsFit, PumpFits, matches
<1>8. ASSUME NEW g \in Generations, NEW c \in Channels, NEW p \in Nat, WireAt(g, c, p)
      PROVE  WireAt(g, c, p)'
  <2>0. sent[g][c] \in Nat /\ Wire(queue[g], g, c, p, sent[g][c], TRUE) /\ c \in Sources
    BY <1>0, <1>8, FrameTypes DEF WireAt, QueueAt
  <2>1. Wire(queue'[g], g, c, p, sent'[g][c], TRUE)
    <3>1. CASE g = h /\ c = k
      <4>1. On(e, g, c) /\ e.n = sent[g][c] + 1 /\ sent'[g][c] = sent[g][c] + 1 /\ queue'[g] = Append(queue[g], e)
        BY <1>2, <1>3, <1>4, <2>0, <3>1 DEF On
      <4>2. Wire(Append(queue[g], e), g, c, p, sent[g][c] + 1, TRUE)
        BY <1>2, <1>4, <2>0, <3>1, <4>1, WireAppendOn
      <4> QED BY <4>1, <4>2
    <3>2. CASE g = h /\ c # k
      <4>1. ~ On(e, g, c) /\ sent'[g][c] = sent[g][c] /\ queue'[g] = Append(queue[g], e)
        BY <1>2, <1>3, <1>4, <2>0, <3>2 DEF On
      <4>2. Wire(Append(queue[g], e), g, c, p, sent[g][c], TRUE)
        BY <1>2, <1>4, <2>0, <3>2, <4>1, WireAppendOff
      <4> QED BY <4>1, <4>2
    <3>3. CASE g # h
      BY <1>3, <1>4, <2>0, <3>3
    <3> QED BY <3>1, <3>2, <3>3
  <2>2. QueueAt(g, c, p)'
    BY <1>1, <1>8, <2>1 DEF WireAt, QueueAt
  <2>3. HeldAt(g, c, p)'
    BY <1>1, <1>8 DEF WireAt, HeldAt, Routed, Untouched, Current
  <2>4. ASSUME NEW s \in Subs \ missed' PROVE GotAt(s, g, c, p)'
    <3>1. GotAt(s, g, c, p)
      BY <1>1, <1>8, <2>4 DEF WireAt
    <3> QED BY <1>1, <3>1 DEF GotAt, Reach, Due, Sole, Current
  <2> QED BY <2>2, <2>3, <2>4 DEF WireAt
<1> QED BY <1>5, <1>6, <1>7, <1>8 DEF PumpInv, Frame, Wires

-----------------------------------------------------------------------------
(* The steps of a pump *)

\* The pump takes the next event of a wire.
LEMMA PumpReceiveKeeps ==
    ASSUME PumpInv, NEW h \in Generations, PumpReceive(h)
    PROVE  PumpInv'
<1> DEFINE e == Head(queue[h])
<1>0. Frame
  BY DEF PumpInv
<1>1. /\ pump[h].pc = "receiving" /\ queue[h] # <<>> /\ queue' = [queue EXCEPT ![h] = Tail(@)]
      /\ pump' = IF generation = h THEN [pump EXCEPT ![h].pc = "routing", ![h].event = e] ELSE pump
      /\ UNCHANGED <<generation, phase, sent, load, subscribers, seat, pending, inbox, room, filter, forwarder,
                     callback, received, missed, evicted, stale>>
  BY DEF PumpReceive, transportVars, renderVars, historyVars
<1>2. /\ queue \in [Generations -> Seq(SessionEvent)] /\ queue[h] \in Seq(SessionEvent)
      /\ pump \in [Generations -> PumpStates] /\ pump[h].targets = {}
  BY <1>0, <1>1 DEF Frame, PumpTypes, PumpsFit, PumpFits
<1>3. e \in SessionEvent /\ e.gen = h
  <2>1. queue[h][1].gen = h
    <3>1. 1 \in 1 .. Len(queue[h])
      BY <1>1, <1>2, TailPlaces, QueueNumbers
    <3> QED BY <1>0, <3>1 DEF Frame, PumpsFit, PumpFits
  <2> QED BY <2>1, <1>1, <1>2, TailPlaces
<1> HIDE DEF e
<1>4. /\ queue' \in [Generations -> Seq(SessionEvent)] /\ queue'[h] = Tail(queue[h])
      /\ \A g \in Generations \ {h} : queue'[g] = queue[g]
  BY <1>1, <1>2
<1>5. /\ \A g \in Generations : pump'[g] \in PumpStates /\ pump'[g].targets = pump[g].targets
      /\ \A g \in Generations \ {h} : pump'[g] = pump[g]
      /\ generation = h => pump'[h].pc = "routing" /\ pump'[h].event = e
      /\ generation # h => pump'[h] = pump[h]
  <2>1. CASE generation # h
    BY <1>1, <1>2, <2>1 DEF PumpStates
  <2>2. CASE generation = h
    <3>1. pump' = [pump EXCEPT ![h] = [pump[h] EXCEPT !.pc = "routing", !.event = e]]
      BY <1>1, <1>2, <2>2
    <3> DEFINE x == [pump[h] EXCEPT !.pc = "routing", !.event = e]
    <3>4. pump[h] \in PumpStates /\ e \in SessionEvent
      BY <1>2, <1>3
    <3>2. x \in PumpStates /\ x.pc = "routing" /\ x.event = e /\ x.targets = pump[h].targets
      BY <3>4 DEF PumpStates
    <3> HIDE DEF x
    <3>3. pump'[h] = x /\ \A g \in Generations \ {h} : pump'[g] = pump[g]
      BY <1>2, <3>1 DEF x
    <3> QED BY <1>2, <2>2, <3>2, <3>3
  <2> QED BY <2>1, <2>2
<1>6. PumpTypes'
  <2>1. pump' \in [Generations -> PumpStates]
    BY <1>1, <1>2, <1>5
  <2> QED BY <1>0, <1>1, <1>4, <2>1 DEF Frame, PumpTypes
<1>7. BoundsFit'
  <2>1. Len(queue'[h]) <= QueueSize
    BY <1>0, <1>1, <1>2, <1>4, TailPlaces, QueueNumbers, EventBasics DEF Frame, BoundsFit
  <2> QED BY <1>0, <1>1, <1>4, <2>1 DEF Frame, BoundsFit
<1>8. SubscriptionsFit' /\ WindowsFit'
  BY <1>0, <1>1 DEF Frame, SubscriptionsFit, WindowsFit
<1>9. StaleFits'
  <2>1. generation = h => stale[h] = 0
    BY <1>0 DEF Frame, StaleFits, PumpTypes
  <2> QED BY <1>0, <1>1, <1>5, <2>1 DEF Frame, StaleFits
<1>10. PumpsFit'
  <2>1. \A i \in 1 .. Len(queue'[h]) : queue'[h][i].gen = h
    BY <1>0, <1>1, <1>2, <1>4, TailPlaces DEF Frame, PumpsFit, PumpFits
  <2>2. pump'[h].pc \in {"receiving", "routing"} /\ pump'[h].targets = {} /\ (pump'[h].pc = "routing" => pump'[h].event.gen = h)
    BY <1>1, <1>2, <1>3, <1>5
  <2>4. ~ h > generation /\ ~ (h = generation /\ phase = "connecting")
    BY <1>0, <1>1 DEF Frame, PumpsFit, PumpFits
  <2>5. ASSUME NEW g \in Generations, g # h
        PROVE  PumpFits(g)'
    <3>1. PumpFits(g) /\ pump'[g] = pump[g] /\ queue'[g] = queue[g]
      BY <1>0, <1>4, <1>5, <2>5 DEF Frame, PumpsFit
    <3>2. \A s \in pump[g].targets : forwarder'[s] # "none" /\ filter'[s] = filter[s]
      BY <1>1, <3>1 DEF PumpFits
    <3> QED BY <1>1, <3>1, <3>2, PumpSame
  <2>6. PumpFits(h)'
    BY <1>1, <2>1, <2>2, <2>4 DEF PumpFits
  <2> QED BY <2>5, <2>6 DEF PumpsFit
<1>11. ASSUME NEW g \in Generations, NEW c \in Channels, NEW p \in Nat, WireAt(g, c, p)
       PROVE  \E x \in Nat : WireAt(g, c, x)'
  <2>0. /\ sent[g][c] \in Nat /\ Wire(queue[g], g, c, p, sent[g][c], TRUE)
        /\ evicted[c] \in Nat /\ HeldAt(g, c, p)
        /\ \A s \in Subs \ missed : GotAt(s, g, c, p)
    BY <1>0, <1>11, FrameTypes DEF WireAt, QueueAt
  <2>1. CASE g # h
    <3>1. pump'[g] = pump[g] /\ queue'[g] = queue[g]
      BY <1>4, <1>5, <2>1
    <3>2. QueueAt(g, c, p)'
      BY <1>1, <1>11, <3>1 DEF WireAt, QueueAt
    <3>3. HeldAt(g, c, p)'
      BY <1>1, <2>0, <3>1 DEF HeldAt, Routed, Untouched, Current
    <3>4. ASSUME NEW s \in Subs \ missed' PROVE GotAt(s, g, c, p)'
      <4>1. GotAt(s, g, c, p) /\ Due(s, g, c, p) \in Int /\ \A i \in 1 .. Len(inbox[s]) : inbox[s][i].n \in Nat
        BY <1>0, <1>1, <2>0, <3>4, DueTyped, SubTypes
      <4>2. Reach(s, g)' = Reach(s, g) /\ Due(s, g, c, p)' = Due(s, g, c, p)
        BY <1>1, <3>1 DEF Reach, Due
      <4>3. Sole(s, c)' = Sole(s, c) /\ Current(g)' = Current(g)
        BY <1>1 DEF Sole, Current
      <4> QED BY <1>1, <2>0, <4>1, <4>2, <4>3, GotSame
    <3> QED BY <3>2, <3>3, <3>4 DEF WireAt
  <2>2. CASE g = h /\ e.channel = c
    <3>1. /\ Wire(Tail(queue[g]), g, c, p + 1, sent[g][c], TRUE) /\ e.n = p + 1 /\ p + 1 \in Nat
      <4>1. On(Head(queue[g]), g, c)
        BY <1>3, <2>2 DEF On, e
      <4>2. queue[g] \in Seq(SessionEvent) /\ queue[g] # <<>> /\ e = Head(queue[g])
        BY <1>1, <1>2, <2>2 DEF e
      <4>3. Head(queue[g]).n = p + 1 /\ Wire(Tail(queue[g]), g, c, Head(queue[g]).n, sent[g][c], TRUE)
        BY <2>0, <4>1, <4>2, WireTailOn
      <4>4. Wire(Tail(queue[g]), g, c, p + 1, sent[g][c], TRUE)
        BY <4>3
      <4>5. e.n = p + 1 /\ p + 1 \in Nat
        BY <4>2, <4>3
      <4> QED BY <4>4, <4>5
    <3>2. QueueAt(g, c, p + 1)'
      <4>1. Wire(queue'[g], g, c, p + 1, sent'[g][c], TRUE)
        BY <1>1, <1>4, <2>2, <3>1
      <4>2. pump'[g].pc \in {"routing", "sending"} => pump'[g].event = e
        BY <1>1, <1>5, <2>2
      <4> QED BY <3>1, <4>1, <4>2 DEF QueueAt
    <3>3. /\ Routed(g, c, p) = p /\ \A s : Due(s, g, c, p) = p
          /\ generation = g => Routed(g, c, p + 1)' = p /\ \A s : Due(s, g, c, p + 1)' = p
      BY <1>1, <1>2, <1>5, <2>2 DEF Routed, Due
    <3>4. HeldAt(g, c, p + 1)'
      <4>1. PICK hi \in Nat : /\ Wire(pending[c], g, c, 0, hi, FALSE) /\ hi <= p
                              /\ (generation = g \/ pump[g].pc = "routing") => hi \in {0, Routed(g, c, p)}
        BY <2>0 DEF HeldAt
      <4>2. hi <= p + 1 /\ ((generation' = g \/ pump'[g].pc = "routing") => hi \in {0, Routed(g, c, p + 1)'})
        BY <1>1, <1>5, <2>2, <3>3, <4>1
      <4>3. Untouched(c)' /\ Current(g)' =>
               \A m \in Nat : evicted'[c] < m /\ m <= Routed(g, c, p + 1)' => Has(pending'[c], g, c, m)
        BY <1>1, <2>0, <3>3 DEF HeldAt, Untouched, Current
      <4> QED BY <1>1, <4>1, <4>2, <4>3 DEF HeldAt
    <3>5. ASSUME NEW s \in Subs \ missed' PROVE GotAt(s, g, c, p + 1)'
      <4>1. PICK hi \in Nat :
              /\ Wire(inbox[s], g, c, received[s][g][c], hi, received[s][g][c] > 0)
              /\ hi <= p
              /\ hi > 0 => filter[s] \in {All, c}
              /\ Reach(s, g) => hi \in {0, Due(s, g, c, p)}
              /\ Sole(s, c) /\ Current(g) =>
                    /\ hi > 0 /\ received[s][g][c] = 0 =>
                          \E i \in 1 .. Len(inbox[s]) : On(inbox[s][i], g, c) /\ inbox[s][i].n <= evicted[c] + 1
                    /\ hi = 0 /\ Reach(s, g) => Due(s, g, c, p) <= evicted[c]
        BY <1>1, <2>0, <3>5 DEF GotAt
      <4>2. Reach(s, g)' => generation = g /\ Reach(s, g)
        BY <1>1, <1>2, <1>5, <2>2 DEF Reach
      <4>3. /\ hi <= p + 1 /\ (Reach(s, g)' => hi \in {0, Due(s, g, c, p + 1)'})
            /\ hi = 0 /\ Reach(s, g)' => Due(s, g, c, p + 1)' = Due(s, g, c, p) /\ Reach(s, g)
        BY <3>3, <4>1, <4>2
      <4>4. Sole(s, c)' = Sole(s, c) /\ Current(g)' = Current(g)
        BY <1>1 DEF Sole, Current
      <4> QED BY <1>1, <4>1, <4>3, <4>4 DEF GotAt
    <3> QED BY <3>1, <3>2, <3>4, <3>5 DEF WireAt
  <2>3. CASE g = h /\ e.channel # c
    <3>1. Wire(Tail(queue[g]), g, c, p, sent[g][c], TRUE)
      <4>1. ~ On(Head(queue[g]), g, c)
        BY <2>3 DEF On, e
      <4> QED BY <1>1, <1>2, <2>0, <2>3, <4>1, WireTailOff
    <3>2. QueueAt(g, c, p)'
      <4>1. Wire(queue'[g], g, c, p, sent'[g][c], TRUE)
        BY <1>1, <1>4, <2>3, <3>1
      <4>2. ~ (pump'[g].pc \in {"routing", "sending"} /\ pump'[g].event.channel = c)
        BY <1>1, <1>5, <2>3
      <4> QED BY <4>1, <4>2 DEF QueueAt
    <3>3. /\ Routed(g, c, p) = p /\ \A s : Due(s, g, c, p) = p
          /\ Routed(g, c, p)' = p /\ \A s : Due(s, g, c, p)' = p
      BY <1>1, <1>2, <1>5, <2>3 DEF Routed, Due
    <3>4. /\ (generation' = g \/ pump'[g].pc = "routing") => generation = g
          /\ \A s : Reach(s, g)' => Reach(s, g)
      BY <1>1, <1>2, <1>5, <2>3 DEF Reach
    <3>5. HeldAt(g, c, p)'
      <4>1. Untouched(c)' = Untouched(c) /\ Current(g)' = Current(g)
        BY <1>1 DEF Untouched, Current
      <4> QED BY <1>1, <2>0, <3>3, <3>4, <4>1, HeldSame
    <3>6. ASSUME NEW s \in Subs \ missed' PROVE GotAt(s, g, c, p)'
      <4>1. Sole(s, c)' = Sole(s, c) /\ Current(g)' = Current(g) /\ Due(s, g, c, p) \in Int
        BY <1>1, DueTyped DEF Sole, Current
      <4>2. \A i \in 1 .. Len(inbox[s]) : inbox[s][i].n \in Nat
        BY <1>0, <3>6, SubTypes
      <4> QED BY <1>1, <2>0, <3>3, <3>4, <3>6, <4>1, <4>2, GotSame
    <3> QED BY <3>2, <3>5, <3>6 DEF WireAt
  <2> QED BY <2>1, <2>2, <2>3
<1> QED BY <1>6, <1>7, <1>8, <1>9, <1>10, <1>11 DEF PumpInv, Frame, Wires

\* The pump with a set of targets to serve.
LEMMA ServingFacts ==
    ASSUME NEW g \in Generations, NEW q \in PumpStates, NEW T \in SUBSET Subs
    PROVE  /\ Serving(q, T) \in PumpStates /\ Serving(q, T).targets = T
           /\ T # {} => Serving(q, T).pc = "sending" /\ Serving(q, T).event = q.event
           /\ T = {} => /\ Serving(q, T).pc \in {"receiving", "ended"}
                        /\ Serving(q, T).event.channel = End
<1>1. Placeholder \in SessionEvent /\ Placeholder.channel = End
  BY EventBasics DEF Placeholder, SessionEvent, Generations, Sources
<1>2. Asleep \in PumpStates /\ Asleep.event = Placeholder /\ Asleep.targets = {}
  BY <1>1 DEF Asleep, PumpStates
<1>3. CASE T # {}
  BY <1>3 DEF Serving, PumpStates
<1>4. CASE T = {} /\ q.event.channel = End
  <2>1. Serving(q, T) = [Asleep EXCEPT !.pc = "ended"]
    BY <1>4 DEF Serving
  <2> QED BY <2>1, <1>1, <1>2, <1>4 DEF PumpStates
<1>5. CASE T = {} /\ q.event.channel # End
  <2>1. Serving(q, T) = [q EXCEPT !.pc = "receiving", !.targets = {}, !.event = Placeholder]
    BY <1>5 DEF Serving
  <2> QED BY <2>1, <1>1, <1>5 DEF PumpStates
<1> QED BY <1>3, <1>4, <1>5

\* One target of a pump is given the event, is gone, or is a mirror that misses
\* it.
LEMMA ServeKeeps ==
    ASSUME PumpInv, NEW h \in Generations, NEW r \in Subs, NEW q \in PumpStates,
           pump[h].pc = "sending", r \in pump[h].targets, q.event = pump[h].event,
           pump' = [pump EXCEPT ![h] = Serving(q, pump[h].targets \ {r})],
           \/ /\ inbox' = [inbox EXCEPT ![r] = Append(@, pump[h].event)]
              /\ ~ is_closed(r) /\ ~ Full(r) /\ missed' = missed
           \/ inbox' = inbox /\ is_closed(r) /\ missed' = missed
           \/ inbox' = inbox /\ ~ is_closed(r) /\ missed' = missed \cup {r},
           UNCHANGED <<transportVars, queue, subscribers, seat, pending, room, filter, forwarder, callback,
                       received, evicted, stale>>
    PROVE  PumpInv'
<1> DEFINE e == pump[h].event
           T == pump[h].targets \ {r}
<1>0. Frame
  BY DEF PumpInv
<1>1. /\ e \in SessionEvent /\ e.gen = h /\ T \in SUBSET Subs /\ r \in pump[h].targets
      /\ forwarder[r] # "none" /\ matches(r, e) /\ h <= generation /\ ~ (h = generation /\ phase = "connecting")
      /\ pump \in [Generations -> PumpStates] /\ inbox \in [Subs -> Seq(SessionEvent)]
      /\ \A x \in pump[h].targets : forwarder[x] # "none" /\ matches(x, e)
  <2>1. pump \in [Generations -> PumpStates] /\ inbox \in [Subs -> Seq(SessionEvent)] /\ PumpFits(h)
        /\ generation \in Nat /\ h \in Nat
    BY <1>0 DEF Frame, PumpTypes, PumpsFit, Generations
  <2>2. pump[h].event \in SessionEvent /\ pump[h].targets \subseteq Subs
    BY <2>1 DEF PumpStates
  <2> QED BY <2>1, <2>2 DEF PumpFits
<1>2. /\ UNCHANGED <<generation, phase, sent, load, queue, subscribers, seat, pending, room, filter, forwarder,
                     callback, received, evicted, stale>>
      /\ missed \subseteq missed'
  BY DEF transportVars
<1>3. /\ pump'[h] \in PumpStates /\ pump'[h].targets = T
      /\ T # {} => pump'[h].pc = "sending" /\ pump'[h].event = e
      /\ T = {} => pump'[h].pc \in {"receiving", "ended"} /\ pump'[h].event.channel = End
      /\ \A g \in Generations \ {h} : pump'[g] = pump[g]
      /\ pump' \in [Generations -> PumpStates]
  <2>0. T \in SUBSET Subs /\ q.event = e
    BY <1>1
  <2>2. pump'[h] = Serving(q, T)
    BY <1>1
  <2> HIDE DEF T, e
  <2>1. /\ Serving(q, T) \in PumpStates /\ Serving(q, T).targets = T
        /\ T # {} => Serving(q, T).pc = "sending" /\ Serving(q, T).event = e
        /\ T = {} => Serving(q, T).pc \in {"receiving", "ended"} /\ Serving(q, T).event.channel = End
    BY <2>0, ServingFacts
  <2> QED BY <1>1, <2>1, <2>2 DEF T
<1>4. /\ inbox' \in [Subs -> Seq(SessionEvent)]
      /\ \A s \in Subs \ {r} : inbox'[s] = inbox[s]
      /\ \/ inbox'[r] = Append(inbox[r], e) /\ ~ is_closed(r) /\ ~ Full(r)
         \/ inbox'[r] = inbox[r] /\ (is_closed(r) \/ r \in missed')
  <2>1. inbox \in [Subs -> Seq(SessionEvent)] /\ e \in SessionEvent /\ Append(inbox[r], e) \in Seq(SessionEvent)
    BY <1>1, AppendPlaces
  <2>2. CASE inbox' = [inbox EXCEPT ![r] = Append(@, e)] /\ ~ is_closed(r) /\ ~ Full(r)
    BY <2>1, <2>2
  <2>3. CASE inbox' = inbox /\ (is_closed(r) \/ r \in missed')
    BY <2>1, <2>3
  <2> QED BY <2>2, <2>3
<1>5. \A x : x \in T <=> x \in pump[h].targets /\ x # r
  OBVIOUS
<1>6. PumpTypes'
  <2>1. missed' \subseteq Subs
    BY <1>0 DEF Frame, PumpTypes
  <2> QED BY <1>0, <1>2, <1>3, <1>4, <2>1 DEF Frame, PumpTypes
<1>a. pump[h].pc = "sending"
  OBVIOUS
<1>b. ASSUME is_closed(r) PROVE inbox[r] = <<>> /\ received[r] = Nothing
  BY <1>0, <1>b DEF Frame, SubscriptionsFit, is_closed
<1>c. ~ is_closed(r) => forwarder[r] = "running"
  BY <1>0, <1>1 DEF Frame, PumpTypes, is_closed
<1>d. missed' \subseteq missed \cup (IF is_closed(r) THEN {} ELSE {r})
  OBVIOUS
<1> HIDE DEF e, T
<1>7. BoundsFit'
  <2>1. Len(inbox'[r]) <= room[r]
    <3>1. inbox[r] \in Seq(SessionEvent) /\ Len(inbox[r]) \in Nat /\ Len(inbox[r]) <= room[r] /\ room[r] \in Nat
      BY <1>0, <1>1, QueueNumbers DEF Frame, BoundsFit, PumpTypes
    <3>2. Len(Append(inbox[r], e)) = Len(inbox[r]) + 1
      BY <1>1, <3>1, AppendPlaces
    <3> QED BY <1>4, <3>1, <3>2 DEF Full
  <2> QED BY <1>0, <1>2, <1>4, <2>1 DEF Frame, BoundsFit
<1>8. SubscriptionsFit' /\ WindowsFit' /\ StaleFits'
  <2>1. WindowsFit'
    BY <1>0, <1>2 DEF Frame, WindowsFit
  <2>2. SubscriptionsFit'
    <3>1. forwarder[r] # "running" => inbox'[r] = inbox[r] /\ r \notin missed' \ missed
      BY <1>4, <1>c, <1>d
    <3>2. \A s \in Subs : forwarder[s] # "running" => inbox'[s] = inbox[s] /\ (s \in missed' => s \in missed)
      BY <1>4, <1>d, <3>1, <1>c
    <3> QED BY <1>0, <1>2, <3>2 DEF Frame, SubscriptionsFit
  <2>3. StaleFits'
    <3>1. \A g \in Generations : pump'[g].pc = "routing" => pump[g].pc = "routing"
      BY <1>3, <1>a
    <3> QED BY <1>0, <1>2, <3>1 DEF Frame, StaleFits
  <2> QED BY <2>1, <2>2, <2>3
<1>9. PumpsFit'
  <2>1. ASSUME NEW g \in Generations, g # h PROVE PumpFits(g)'
    <3>1. PumpFits(g) /\ pump'[g] = pump[g] /\ queue'[g] = queue[g]
      BY <1>0, <1>2, <1>3, <2>1 DEF Frame, PumpsFit
    <3>2. \A s \in pump[g].targets : forwarder'[s] # "none" /\ filter'[s] = filter[s]
      BY <1>2, <3>1 DEF PumpFits
    <3> QED BY <1>2, <3>1, <3>2, PumpSame
  <2>2. PumpFits(h)'
    <3>1. pump'[h].pc \notin {"none", "routing"} /\ ~ h > generation
      BY <1>0, <1>1, <1>3 DEF Frame, PumpTypes, Generations
    <3>2. \A s \in pump'[h].targets : forwarder'[s] # "none" /\ matches(s, pump[h].event)'
      BY <1>1, <1>2, <1>3, <1>5 DEF matches
    <3>3. pump'[h].pc # "sending" => pump'[h].targets = {}
      BY <1>3
    <3>4. pump'[h].pc = "sending" => pump'[h].event.gen = h
      BY <1>1, <1>3
    <3>5. \A i \in 1 .. Len(queue'[h]) : queue'[h][i].gen = h
      BY <1>0, <1>2 DEF Frame, PumpsFit, PumpFits
    <3> QED BY <1>1, <1>2, <3>1, <3>2, <3>3, <3>4, <3>5 DEF PumpFits
  <2> QED BY <2>1, <2>2 DEF PumpsFit
<1>10. ASSUME NEW g \in Generations, NEW c \in Channels, NEW p \in Nat, WireAt(g, c, p)
       PROVE  WireAt(g, c, p)'
  <2>0. c # End /\ evicted[c] \in Nat /\ QueueAt(g, c, p) /\ HeldAt(g, c, p)
    BY <1>0, <1>10, FrameTypes DEF WireAt
  <2>1. QueueAt(g, c, p)'
    <3>1. pump'[g].pc \in {"routing", "sending"} /\ pump'[g].event.channel = c =>
             pump[g].pc \in {"routing", "sending"} /\ pump'[g].event = pump[g].event
      BY <1>3, <1>a, <2>0 DEF e
    <3> QED BY <1>2, <2>0, <3>1, QueueSame
  <2>2. HeldAt(g, c, p)'
    <3>1. Routed(g, c, p)' = Routed(g, c, p) /\ (pump'[g].pc = "routing" => pump[g].pc = "routing")
      BY <1>3, <1>a DEF Routed
    <3>2. Untouched(c)' = Untouched(c) /\ Current(g)' = Current(g)
      BY <1>2 DEF Untouched, Current
    <3> QED BY <1>2, <2>0, <3>1, <3>2, HeldSame
  <2>3. ASSUME NEW s \in Subs \ missed' PROVE GotAt(s, g, c, p)'
    <3>0. /\ GotAt(s, g, c, p) /\ Sole(s, c)' = Sole(s, c) /\ Current(g)' = Current(g)
          /\ Due(s, g, c, p) \in Int /\ inbox[s] \in Seq(SessionEvent) /\ received[s][g][c] \in Nat
          /\ \A i \in 1 .. Len(inbox[s]) : inbox[s][i].n \in Nat
      <4>1. GotAt(s, g, c, p)
        BY <1>2, <1>10, <2>3 DEF WireAt
      <4>2. Sole(s, c)' = Sole(s, c) /\ Current(g)' = Current(g)
        BY <1>2 DEF Sole, Current
      <4> QED BY <1>0, <2>3, <4>1, <4>2, DueTyped, SubTypes
    <3>1. Reach(s, g)' => Reach(s, g)
      BY <1>2, <1>3, <1>5, <1>a DEF Reach
    <3>2. CASE g # h \/ s # r \/ c # e.channel
      <4>1. Due(s, g, c, p)' = Due(s, g, c, p)
        <5>1. CASE g # h
          BY <1>3, <5>1 DEF Due
        <5>2. CASE g = h /\ c # e.channel
          BY <1>3, <2>0, <5>2 DEF Due, e
        <5>3. CASE g = h /\ c = e.channel /\ s # r
          <6>1. s \in T <=> s \in pump[g].targets
            BY <1>5, <5>3
          <6>2. CASE T = {}
            BY <1>3, <1>a, <2>0, <5>3, <6>1, <6>2 DEF Due
          <6>3. CASE T # {}
            BY <1>3, <1>a, <5>3, <6>1, <6>3 DEF Due, e
          <6> QED BY <6>2, <6>3
        <5> QED BY <3>2, <5>1, <5>2, <5>3
      <4>2. CASE inbox'[s] = inbox[s]
        BY <1>2, <2>0, <3>0, <3>1, <4>1, <4>2, GotSame
      <4>3. CASE inbox'[s] # inbox[s]
        <5>1. s = r /\ inbox'[s] = Append(inbox[s], e) /\ ~ On(e, g, c)
          BY <1>1, <1>4, <2>3, <3>2, <4>3 DEF On
        <5> DEFINE lo == received[s][g][c]
        <5>2. PICK hi \in Nat :
                /\ Wire(inbox[s], g, c, lo, hi, lo > 0)
                /\ hi <= p
                /\ hi > 0 => filter[s] \in {All, c}
                /\ Reach(s, g) => hi \in {0, Due(s, g, c, p)}
                /\ Sole(s, c) /\ Current(g) =>
                      /\ hi > 0 /\ lo = 0 =>
                            \E i \in 1 .. Len(inbox[s]) : On(inbox[s][i], g, c) /\ inbox[s][i].n <= evicted[c] + 1
                      /\ hi = 0 /\ Reach(s, g) => Due(s, g, c, p) <= evicted[c]
          BY <3>0 DEF GotAt
        <5>7. Wire(Append(inbox[s], e), g, c, lo, hi, lo > 0)
          BY <1>1, <3>0, <5>1, <5>2, ReadAppend
        <5>3. Wire(inbox'[s], g, c, lo, hi, lo > 0)
          BY <5>1, <5>7
        <5>4. ASSUME NEW i \in 1 .. Len(inbox[s]) PROVE i \in 1 .. Len(inbox'[s]) /\ inbox'[s][i] = inbox[s][i]
          BY <1>1, <3>0, <5>1, AppendPlaces, QueueNumbers
        <5>5. ASSUME Sole(s, c), Current(g), hi > 0, lo = 0
              PROVE  \E i \in 1 .. Len(inbox'[s]) : On(inbox'[s][i], g, c) /\ inbox'[s][i].n <= evicted[c] + 1
          BY <5>2, <5>4, <5>5
        <5> QED BY <1>2, <3>0, <3>1, <4>1, <5>2, <5>3, <5>5 DEF GotAt
      <4> QED BY <4>2, <4>3
    <3>3. CASE g = h /\ s = r /\ c = e.channel
      <4> DEFINE lo == received[s][g][c]
      <4>1. /\ Reach(s, g) /\ Due(s, g, c, p) = p - 1 /\ e.n = p /\ p > 0 /\ On(e, g, c) /\ filter[s] \in {All, c}
            /\ Due(s, g, c, p)' = p
        <5>1. Reach(s, g) /\ Due(s, g, c, p) = p - 1
          BY <1>1, <3>3 DEF Reach, Due, e
        <5>2. e.n = p /\ p > 0
          BY <1>1, <1>a, <2>0, <3>3, EventNumbers DEF QueueAt, e
        <5>3. On(e, g, c) /\ filter[s] \in {All, c}
          BY <1>1, <3>3 DEF On, matches
        <5>4. Due(s, g, c, p)' = p
          BY <1>3, <1>5, <2>0, <3>3 DEF Due
        <5> QED BY <5>1, <5>2, <5>3, <5>4
      <4>2. PICK hi \in Nat :
              /\ Wire(inbox[s], g, c, lo, hi, lo > 0)
              /\ hi <= p
              /\ hi > 0 => filter[s] \in {All, c}
              /\ Reach(s, g) => hi \in {0, Due(s, g, c, p)}
              /\ Sole(s, c) /\ Current(g) =>
                    /\ hi > 0 /\ lo = 0 =>
                          \E i \in 1 .. Len(inbox[s]) : On(inbox[s][i], g, c) /\ inbox[s][i].n <= evicted[c] + 1
                    /\ hi = 0 /\ Reach(s, g) => Due(s, g, c, p) <= evicted[c]
        BY <3>0 DEF GotAt
      <4>3. CASE is_closed(r)
        <5>1. inbox'[s] = <<>> /\ lo = 0 /\ received'[s][g][c] = 0 /\ ~ Sole(s, c)'
          BY <1>2, <1>4, <1>b, <3>3, <4>3 DEF Nothing, Sources, Sole, is_closed
        <5>3. Wire(<<>>, g, c, 0, 0, FALSE)
          BY WireEmpty
        <5>2. Wire(inbox'[s], g, c, 0, 0, FALSE)
          BY <5>1, <5>3
        <5> QED BY <5>1, <5>2, GotNothing
      <4>4. CASE ~ is_closed(r)
        <5>1. inbox'[s] = Append(inbox[s], e)
          BY <1>4, <2>3, <3>3, <4>4
        <5>2. Wire(inbox'[s], g, c, lo, p, lo > 0)
          <6>1. CASE hi = 0
            <7>1. lo = 0 /\ (lo > 0) = FALSE
              BY <3>0, <4>2, <6>1 DEF Wire
            <7>2. Wire(inbox[s], g, c, 0, 0, FALSE)
              BY <4>2, <6>1, <7>1
            <7>4. Wire(Append(inbox[s], e), g, c, 0, e.n, FALSE)
              BY <1>1, <3>0, <4>1, <7>2, WireStart
            <7>3. Wire(inbox'[s], g, c, 0, p, FALSE)
              BY <4>1, <5>1, <7>4
            <7> QED BY <7>1, <7>3
          <6>2. CASE hi # 0
            <7>1. e.n = hi + 1 /\ p = hi + 1
              BY <4>1, <4>2, <6>2
            <7>4. Wire(Append(inbox[s], e), g, c, lo, hi + 1, lo > 0)
              BY <1>1, <3>0, <4>1, <4>2, <7>1, ReadAppend
            <7>2. Wire(inbox'[s], g, c, lo, hi + 1, lo > 0)
              BY <5>1, <7>4
            <7> QED BY <7>1, <7>2
          <6> QED BY <6>1, <6>2
        <5>3. ASSUME Sole(s, c), Current(g), lo = 0
              PROVE  \E i \in 1 .. Len(inbox'[s]) : On(inbox'[s][i], g, c) /\ inbox'[s][i].n <= evicted[c] + 1
          <6>0. /\ Len(inbox'[s]) = Len(inbox[s]) + 1 /\ inbox'[s][Len(inbox[s]) + 1] = e /\ Len(inbox[s]) \in Nat
                /\ \A i \in 1 .. Len(inbox[s]) : inbox'[s][i] = inbox[s][i]
            BY <1>1, <3>0, <5>1, AppendPlaces, QueueNumbers
          <6>1. CASE hi = 0
            <7>1. e.n <= evicted[c] + 1
              BY <2>0, <4>1, <4>2, <5>3, <6>1
            <7>2. Len(inbox[s]) + 1 \in 1 .. Len(inbox'[s])
              BY <6>0
            <7> QED BY <4>1, <6>0, <7>1, <7>2
          <6>2. CASE hi # 0
            <7>1. PICK i \in 1 .. Len(inbox[s]) : On(inbox[s][i], g, c) /\ inbox[s][i].n <= evicted[c] + 1
              BY <4>2, <5>3, <6>2
            <7>2. i \in 1 .. Len(inbox'[s])
              BY <6>0
            <7>3. inbox'[s][i] = inbox[s][i]
              BY <6>0
            <7> QED BY <7>1, <7>2, <7>3
          <6> QED BY <6>1, <6>2
        <5> QED BY <1>2, <3>0, <4>1, <5>2, <5>3 DEF GotAt
      <4> QED BY <4>3, <4>4
    <3> QED BY <3>2, <3>3
  <2> QED BY <2>1, <2>2, <2>3 DEF WireAt
<1> QED BY <1>6, <1>7, <1>8, <1>9, <1>10 DEF PumpInv, Frame, Wires

\* A primary is waited for, or found gone.
LEMMA PumpSendPrimaryKeeps ==
    ASSUME PumpInv, NEW h \in Generations, NEW r \in Subs, PumpSendPrimary(h, r)
    PROVE  PumpInv'
<1> DEFINE q == [pump[h] EXCEPT !.primaries[filter[r]] = IF is_closed(r) THEN None ELSE r]
<1>1. pump \in [Generations -> PumpStates] /\ filter[r] \in Filters
  BY DEF PumpInv, Frame, PumpTypes
<1>2. q \in PumpStates /\ q.event = pump[h].event
  BY <1>1 DEF PumpStates
<1>3. pump' = [pump EXCEPT ![h] = Serving(q, pump[h].targets \ {r})]
  BY <1>1 DEF PumpSendPrimary
<1>4. pump[h].pc = "sending" /\ r \in pump[h].targets
  BY DEF PumpSendPrimary, IsNext
<1>5. \/ /\ inbox' = [inbox EXCEPT ![r] = Append(@, pump[h].event)]
         /\ ~ is_closed(r) /\ ~ Full(r) /\ missed' = missed
      \/ inbox' = inbox /\ is_closed(r) /\ missed' = missed
  BY DEF PumpSendPrimary, Sent, historyVars
<1>6. UNCHANGED <<transportVars, queue, subscribers, seat, pending, room, filter, forwarder, callback,
                  received, evicted, stale>>
  BY DEF PumpSendPrimary, historyVars
<1> QED BY <1>2, <1>3, <1>4, <1>5, <1>6, ServeKeeps

\* A mirror is not waited for.
LEMMA PumpSendMirrorKeeps ==
    ASSUME PumpInv, NEW h \in Generations, NEW r \in Subs, PumpSendMirror(h, r)
    PROVE  PumpInv'
<1>1. pump[h] \in PumpStates
  BY DEF PumpInv, Frame, PumpTypes
<1>2. pump' = [pump EXCEPT ![h] = Serving(pump[h], pump[h].targets \ {r})]
  BY <1>1 DEF PumpSendMirror
<1>3. pump[h].pc = "sending" /\ r \in pump[h].targets
  BY DEF PumpSendMirror, IsNext
<1>4. \/ /\ inbox' = [inbox EXCEPT ![r] = Append(@, pump[h].event)]
         /\ ~ is_closed(r) /\ ~ Full(r) /\ missed' = missed
      \/ inbox' = inbox /\ is_closed(r) /\ missed' = missed
      \/ inbox' = inbox /\ ~ is_closed(r) /\ missed' = missed \cup {r}
  BY DEF PumpSendMirror, Sent
<1>5. UNCHANGED <<transportVars, queue, subscribers, seat, pending, room, filter, forwarder, callback,
                  received, evicted, stale>>
  BY DEF PumpSendMirror
<1> QED BY <1>1, <1>2, <1>3, <1>4, <1>5, ServeKeeps

\* The pump files an event with the window or copies the list of its readers.
LEMMA PumpRouteKeeps ==
    ASSUME PumpInv, NEW h \in Generations, PumpRoute(h)
    PROVE  PumpInv'
<1> DEFINE e == pump[h].event
           k == e.channel
           open == {s \in subscribers : ~ is_closed(s)}
           keep == k \in Channels /\ \A s \in open : filter[s] # k
           T == {s \in open : matches(s, e)}
           old == pump[h].primaries
           new == [f \in Filters |-> IF old[f] # None /\ is_closed(old[f]) THEN None ELSE old[f]]
           q == [pump[h] EXCEPT !.primaries = new]
<1>0. Frame
  BY DEF PumpInv
<1>1. /\ pump[h].pc = "routing" /\ subscribers' = open
      /\ pending' = IF keep THEN [pending EXCEPT ![k] = push_pending_event(@, e)] ELSE pending
      /\ evicted' = IF keep /\ Len(pending[k]) = MaxPending THEN [evicted EXCEPT ![k] = @ + 1] ELSE evicted
      /\ stale' = IF generation # h THEN [stale EXCEPT ![h] = @ + 1] ELSE stale
      /\ UNCHANGED <<generation, phase, sent, load, queue, seat, inbox, room, filter, forwarder, callback,
                     received, missed>>
  BY DEF PumpRoute, transportVars, renderVars
<1>2. /\ pump \in [Generations -> PumpStates] /\ pending \in [Channels -> Seq(SessionEvent)]
      /\ evicted \in [Channels -> Nat] /\ stale \in [Generations -> Nat] /\ subscribers \subseteq Subs
      /\ PumpFits(h) /\ generation \in Nat /\ h \in Nat
  BY <1>0 DEF Frame, PumpTypes, PumpsFit, Generations
<1>3. q \in PumpStates /\ q.event = e /\ e \in SessionEvent /\ T \in SUBSET Subs
  <2>3. old \in [Filters -> Subs \cup {None}]
    BY <1>2 DEF PumpStates
  <2>4. new \in [Filters -> Subs \cup {None}]
    <3> HIDE DEF old
    <3> QED BY <2>3
  <2>1. q \in PumpStates /\ q.event = e /\ e \in SessionEvent
    <3> HIDE DEF new
    <3> QED BY <1>2, <2>4 DEF PumpStates
  <2>2. T \in SUBSET Subs
    BY <1>2
  <2> QED BY <2>1, <2>2
<1>4. pump' = [pump EXCEPT ![h] = Serving(q, T)]
  BY <1>2 DEF PumpRoute
<1>5. /\ e.gen = h /\ h <= generation /\ ~ (h = generation /\ phase = "connecting")
  BY <1>1, <1>2 DEF PumpFits
<1>6. /\ \A s : s \in open <=> s \in subscribers /\ ~ is_closed(s)
      /\ \A s : s \in T <=> s \in open /\ matches(s, e)
      /\ \A s \in open : s \in Subs /\ forwarder[s] = "running"
  BY <1>0, <1>2 DEF Frame, SubscriptionsFit, PumpTypes, is_closed
<1>7. keep <=> k \in Channels /\ \A s \in open : filter[s] # k
  OBVIOUS
<1>8. k = e.channel
  OBVIOUS
<1>e. e = pump[h].event
  OBVIOUS
<1> HIDE DEF e, k, open, keep, T, q
<1>9. /\ pump' \in [Generations -> PumpStates] /\ pump'[h].targets = T
      /\ T # {} => pump'[h].pc = "sending" /\ pump'[h].event = e
      /\ T = {} => pump'[h].pc \in {"receiving", "ended"} /\ pump'[h].event.channel = End
      /\ \A g \in Generations \ {h} : pump'[g] = pump[g]
  <2>1. /\ Serving(q, T) \in PumpStates /\ Serving(q, T).targets = T
        /\ T # {} => Serving(q, T).pc = "sending" /\ Serving(q, T).event = e
        /\ T = {} => Serving(q, T).pc \in {"receiving", "ended"} /\ Serving(q, T).event.channel = End
    BY <1>3, ServingFacts
  <2>2. pump'[h] = Serving(q, T)
    BY <1>2, <1>4
  <2> QED BY <1>2, <1>4, <2>1, <2>2
<1>10. ASSUME keep
       PROVE  /\ k \in Channels /\ pending[k] \in Seq(SessionEvent) /\ Len(pending[k]) <= MaxPending
              /\ push_pending_event(pending[k], e) \in Seq(SessionEvent)
              /\ Len(push_pending_event(pending[k], e)) <= MaxPending
              /\ \A i \in 1 .. Len(push_pending_event(pending[k], e)) : push_pending_event(pending[k], e)[i].channel = k
              /\ pending'[k] = push_pending_event(pending[k], e)
              /\ pending' \in [Channels -> Seq(SessionEvent)]
              /\ \A c \in Channels \ {k} : pending'[c] = pending[c]
  <2>1. /\ k \in Channels /\ pending[k] \in Seq(SessionEvent) /\ Len(pending[k]) <= MaxPending
        /\ \A i \in 1 .. Len(pending[k]) : pending[k][i].channel = k
    BY <1>0, <1>2, <1>7, <1>10 DEF Frame, BoundsFit, WindowsFit
  <2>2. /\ push_pending_event(pending[k], e) \in Seq(SessionEvent)
        /\ Len(push_pending_event(pending[k], e)) <= MaxPending
        /\ \A i \in 1 .. Len(push_pending_event(pending[k], e)) : push_pending_event(pending[k], e)[i].channel = k
    <3> DEFINE w == pending[k]
    <3>1. w \in Seq(SessionEvent) /\ Len(w) <= MaxPending /\ \A i \in 1 .. Len(w) : w[i].channel = e.channel
      BY <1>8, <2>1
    <3> HIDE DEF w
    <3>2. /\ push_pending_event(w, e) \in Seq(SessionEvent) /\ Len(push_pending_event(w, e)) <= MaxPending
          /\ \A i \in 1 .. Len(push_pending_event(w, e)) : push_pending_event(w, e)[i].channel = e.channel
      BY <1>3, <3>1, WindowTyped
    <3> QED BY <1>8, <3>2 DEF w
  <2>3. pending' = [pending EXCEPT ![k] = push_pending_event(pending[k], e)]
    BY <1>1, <1>10
  <2> QED BY <1>2, <2>1, <2>2, <2>3
<1>11. /\ evicted' \in [Channels -> Nat] /\ stale' \in [Generations -> Nat]
       /\ \A c \in Channels : /\ evicted'[c] >= evicted[c] /\ (c # k => evicted'[c] = evicted[c])
                              /\ keep /\ c = k => evicted'[c] = IF Len(pending[c]) = MaxPending THEN evicted[c] + 1 ELSE evicted[c]
                              /\ ~ keep => evicted'[c] = evicted[c]
       /\ generation # h => stale'[h] = stale[h] + 1
       /\ generation = h => stale'[h] = stale[h]
       /\ \A g \in Generations \ {h} : stale'[g] = stale[g]
  BY <1>1, <1>2, <1>7
<1>12. ~ keep => pending' = pending
  BY <1>1
<1>13. PumpTypes'
  <2>1. subscribers' \subseteq Subs
    BY <1>1, <1>6
  <2> QED BY <1>0, <1>1, <1>9, <1>10, <1>11, <1>12, <2>1 DEF Frame, PumpTypes
<1>14. BoundsFit' /\ WindowsFit'
  <2>1. CASE keep
    <3>1. \A c \in Channels : Len(pending'[c]) <= MaxPending /\ \A i \in 1 .. Len(pending'[c]) : pending'[c][i].channel = c
      BY <1>0, <1>10, <2>1 DEF Frame, BoundsFit, WindowsFit
    <3> QED BY <1>0, <1>1, <3>1 DEF Frame, BoundsFit, WindowsFit
  <2>2. CASE ~ keep
    BY <1>0, <1>1, <1>12, <2>2 DEF Frame, BoundsFit, WindowsFit
  <2> QED BY <2>1, <2>2
<1>15. SubscriptionsFit'
  <2>1. ASSUME NEW s \in Subs, s \in subscribers', forwarder[s] = "running", filter[s] \in Channels
        PROVE  pending'[filter[s]] = <<>>
    <3>1. s \in subscribers /\ s \in open
      BY <1>1, <1>6, <2>1
    <3>2. pending[filter[s]] = <<>>
      BY <1>0, <2>1, <3>1 DEF Frame, SubscriptionsFit
    <3> QED BY <1>7, <1>10, <1>12, <2>1, <3>1, <3>2
  <2>2. \A s \in Subs : s \in subscribers' => s \in subscribers
    BY <1>1, <1>6
  <2> QED BY <1>0, <1>1, <2>1, <2>2 DEF Frame, SubscriptionsFit
<1>16. StaleFits'
  <2>1. stale[h] = 0 /\ pump'[h].pc # "routing"
    BY <1>0, <1>1, <1>9 DEF Frame, StaleFits
  <2>2. stale'[h] <= 1 /\ (h >= generation => stale'[h] = 0)
    BY <1>2, <1>5, <1>11, <2>1
  <2>3. ASSUME NEW g \in Generations, g # h
        PROVE  stale'[g] = stale[g] /\ pump'[g] = pump[g]
    BY <1>9, <1>11, <2>3
  <2> QED BY <1>0, <1>1, <2>1, <2>2, <2>3 DEF Frame, StaleFits
<1>17. PumpsFit'
  <2>1. ASSUME NEW g \in Generations, g # h PROVE PumpFits(g)'
    <3>1. PumpFits(g) /\ pump'[g] = pump[g] /\ queue'[g] = queue[g]
      BY <1>0, <1>1, <1>9, <2>1 DEF Frame, PumpsFit
    <3>2. \A s \in pump[g].targets : forwarder'[s] # "none" /\ filter'[s] = filter[s]
      BY <1>1, <3>1 DEF PumpFits
    <3> QED BY <1>1, <3>1, <3>2, PumpSame
  <2>2. PumpFits(h)'
    <3>1. pump'[h].pc \notin {"none", "routing"} /\ ~ h > generation
      BY <1>2, <1>5, <1>9
    <3>2. \A s \in pump'[h].targets : forwarder'[s] # "none" /\ matches(s, pump[h].event)'
      BY <1>1, <1>6, <1>9 DEF matches
    <3>3. pump'[h].pc # "sending" => pump'[h].targets = {}
      BY <1>9
    <3>4. pump'[h].pc = "sending" => pump'[h].event.gen = h
      BY <1>5, <1>9
    <3>5. \A i \in 1 .. Len(queue'[h]) : queue'[h][i].gen = h
      BY <1>1, <1>2 DEF PumpFits
    <3> QED BY <1>1, <1>5, <3>1, <3>2, <3>3, <3>4, <3>5 DEF PumpFits
  <2> QED BY <2>1, <2>2 DEF PumpsFit
<1>18. ASSUME NEW g \in Generations, NEW c \in Channels, NEW p \in Nat, WireAt(g, c, p)
       PROVE  WireAt(g, c, p)'
  <2>0. /\ c # End /\ evicted[c] \in Nat /\ evicted'[c] \in Nat /\ QueueAt(g, c, p) /\ HeldAt(g, c, p)
        /\ Untouched(c)' = Untouched(c) /\ Current(g)' = Current(g)
        /\ Routed(g, c, p) \in Int
    BY <1>0, <1>1, <1>9, <1>11, <1>18, FrameTypes, DueTyped DEF WireAt, Untouched, Current
  <2>1. QueueAt(g, c, p)'
    <3>1. pump'[g].pc \in {"routing", "sending"} /\ pump'[g].event.channel = c =>
             pump[g].pc \in {"routing", "sending"} /\ pump'[g].event = pump[g].event
      BY <1>1, <1>9, <2>0, <1>e
    <3> QED BY <1>1, <2>0, <3>1, QueueSame
  <2>2. /\ ~ (g = h /\ c = k) => Routed(g, c, p)' = Routed(g, c, p)
        /\ g = h => Routed(g, c, p)' = p
        /\ g = h /\ c = k => Routed(g, c, p) = p - 1 /\ e.n = p /\ p > 0
        /\ pump'[g].pc = "routing" => pump[g].pc = "routing"
    <3>1. ~ (g = h /\ c = k) => Routed(g, c, p)' = Routed(g, c, p)
      BY <1>8, <1>9, <1>e DEF Routed
    <3>2. g = h => Routed(g, c, p)' = p
      BY <1>9 DEF Routed
    <3>3. g = h /\ c = k => Routed(g, c, p) = p - 1
      BY <1>1, <1>8, <1>e DEF Routed
    <3>4. g = h /\ c = k => e.n = p /\ p > 0
      BY <1>1, <1>3, <1>8, <1>e, <2>0, EventNumbers DEF QueueAt
    <3>5. pump'[g].pc = "routing" => pump[g].pc = "routing"
      BY <1>9
    <3> QED BY <3>1, <3>2, <3>3, <3>4, <3>5
  <2>3. HeldAt(g, c, p)'
    <3>1. CASE c # k
      <4>1. pending'[c] = pending[c] /\ evicted'[c] = evicted[c]
        BY <1>10, <1>11, <1>12, <3>1
      <4> QED BY <1>1, <2>0, <2>2, <3>1, <4>1, HeldSame
    <3>2. CASE c = k /\ ~ keep
      <4>1. PICK s \in open : filter[s] = c
        BY <1>7, <3>2
      <4>2. pending'[c] = <<>>
        BY <1>0, <1>6, <1>12, <3>2, <4>1 DEF Frame, SubscriptionsFit
      <4>3. ~ Untouched(c)'
        BY <1>1, <1>6, <4>1 DEF Untouched
      <4> QED BY <4>2, <4>3, HeldEmpty
    <3>3. CASE c = k /\ keep
      <4> DEFINE w == push_pending_event(pending[c], e)
                 top == Routed(g, c, p)'
                 lim == IF Len(pending[c]) = MaxPending THEN evicted[c] + 1 ELSE evicted[c]
      <4>1. PICK hi \in Nat : /\ Wire(pending[c], g, c, 0, hi, FALSE) /\ hi <= p
                              /\ (generation = g \/ pump[g].pc = "routing") => hi \in {0, Routed(g, c, p)}
        BY <2>0 DEF HeldAt
      <4>2. On(e, g, c) <=> g = h
        BY <1>5, <1>8, <3>3 DEF On
      <4>3. PICK next \in Nat :
               /\ \/ ~ On(e, g, c) /\ next = hi
                  \/ On(e, g, c) /\ next = e.n /\ (hi = 0 \/ e.n = hi + 1)
               /\ next <= p /\ ((generation' = g \/ pump'[g].pc = "routing") => next \in {0, top})
        <5>1. CASE g # h
          <6>1. hi <= p /\ ((generation' = g \/ pump'[g].pc = "routing") => hi \in {0, top})
            BY <1>1, <2>2, <4>1, <5>1
          <6> QED BY <4>1, <4>2, <5>1, <6>1
        <5>2. CASE g = h
          <6>1. hi \in {0, p - 1} /\ e.n = p /\ p > 0 /\ top = p
            BY <1>1, <2>2, <3>3, <4>1, <5>2
          <6>2. hi = 0 \/ e.n = hi + 1
            BY <6>1
          <6> QED BY <4>2, <5>2, <6>1, <6>2
        <5> QED BY <5>1, <5>2
      <4>4. /\ pending'[c] = w /\ evicted'[c] = lim /\ pending[c] \in Seq(SessionEvent) /\ Len(pending[c]) <= MaxPending
            /\ e \in SessionEvent /\ evicted[c] \in Nat
        BY <1>3, <1>10, <1>11, <2>0, <3>3
      <4>5. Wire(w, g, c, 0, next, FALSE) \/ Wire(w, g, c, 0, 0, FALSE)
        BY <4>1, <4>3, <4>4, WindowEnds
      <4>6. ASSUME Untouched(c)', Current(g)'
            PROVE  \A m \in Nat : lim < m /\ m <= top => Has(w, g, c, m)
        <5>1. \A m \in Nat : evicted[c] < m /\ m <= Routed(g, c, p) => Has(pending[c], g, c, m)
          BY <2>0, <4>6 DEF HeldAt
        <5>2. top \in Int /\ (g # h => top = Routed(g, c, p)) /\ (g = h => top = p /\ e.n = p /\ Routed(g, c, p) = p - 1)
          <6>1. (g # h => top = Routed(g, c, p)) /\ (g = h => top = p /\ e.n = p /\ Routed(g, c, p) = p - 1)
            BY <2>2, <3>3
          <6> HIDE DEF top
          <6> QED BY <2>0, <6>1
        <5>3. \A m \in Nat : evicted[c] < m /\ m <= top => Has(pending[c], g, c, m) \/ (On(e, g, c) /\ e.n = m)
          <6> HIDE DEF top
          <6> QED BY <4>2, <5>1, <5>2
        <5>4. CASE top \in Nat
          BY <4>1, <4>3, <4>4, <5>3, <5>4, WindowMisses
        <5>5. CASE top \notin Nat
          <6> HIDE DEF top, lim, w
          <6>1. \A m \in Nat : ~ m <= top
            BY <5>2, <5>5
          <6> QED BY <6>1
        <5> QED BY <5>4, <5>5
      <4>7. PICK x \in {0, next} : Wire(w, g, c, 0, x, FALSE)
        BY <4>5
      <4>8. x \in Nat /\ x <= p /\ ((generation' = g \/ pump'[g].pc = "routing") => x \in {0, top})
        BY <4>3, <4>7
      <4> HIDE DEF w, top, lim
      <4>9. Wire(pending'[c], g, c, 0, x, FALSE)
        BY <4>4, <4>7
      <4>10. Untouched(c)' /\ Current(g)' => \A m \in Nat : evicted'[c] < m /\ m <= top => Has(pending'[c], g, c, m)
        BY <4>4, <4>6
      <4> QED BY <4>8, <4>9, <4>10 DEF HeldAt, top
    <3> QED BY <3>1, <3>2, <3>3
  <2>4. ASSUME NEW s \in Subs \ missed' PROVE GotAt(s, g, c, p)'
    <3>0. /\ GotAt(s, g, c, p) /\ Sole(s, c)' = Sole(s, c)
          /\ Due(s, g, c, p) \in Int /\ \A i \in 1 .. Len(inbox[s]) : inbox[s][i].n \in Nat
      <4>1. GotAt(s, g, c, p)
        BY <1>1, <1>18, <2>4 DEF WireAt
      <4>2. Sole(s, c)' = Sole(s, c)
        BY <1>1 DEF Sole
      <4> QED BY <1>0, <2>4, <4>1, <4>2, DueTyped, SubTypes
    <3>1. Reach(s, g)' => Reach(s, g)
      BY <1>1, <1>6, <1>9 DEF Reach
    <3>2. CASE ~ (g = h /\ c = k /\ s \notin T)
      <4>1. Due(s, g, c, p)' = Due(s, g, c, p)
        <5>1. CASE g # h
          BY <1>9, <5>1 DEF Due
        <5>2. CASE g = h /\ c # k
          BY <1>8, <1>9, <1>e, <2>0, <5>2 DEF Due
        <5>3. CASE g = h /\ c = k /\ s \in T
          <6>1. pump'[g].event = pump[g].event /\ pump[g].event.channel = c /\ s \in pump'[g].targets /\ pump[g].pc = "routing"
            BY <1>1, <1>8, <1>9, <1>e, <5>3
          <6> QED BY <6>1 DEF Due
        <5> QED BY <3>2, <5>1, <5>2, <5>3
      <4>2. evicted'[c] >= evicted[c]
        BY <1>11
      <4> QED BY <1>1, <2>0, <3>0, <3>1, <4>1, <4>2, GotSame
    <3>3. CASE g = h /\ c = k /\ s \notin T
      <4>1. Reach(s, g)' => s \in open /\ filter[s] \notin {All, c}
        BY <1>1, <1>6, <1>8, <1>9, <3>3 DEF Reach, matches
      <4>2. PICK hi \in Nat :
              /\ Wire(inbox[s], g, c, received[s][g][c], hi, received[s][g][c] > 0)
              /\ hi <= p
              /\ hi > 0 => filter[s] \in {All, c}
              /\ Reach(s, g) => hi \in {0, Due(s, g, c, p)}
              /\ Sole(s, c) /\ Current(g) =>
                    /\ hi > 0 /\ received[s][g][c] = 0 =>
                          \E i \in 1 .. Len(inbox[s]) : On(inbox[s][i], g, c) /\ inbox[s][i].n <= evicted[c] + 1
                    /\ hi = 0 /\ Reach(s, g) => Due(s, g, c, p) <= evicted[c]
        BY <3>0 DEF GotAt
      <4>3. Reach(s, g)' => hi = 0 /\ ~ Sole(s, c)
        BY <4>1, <4>2 DEF Sole
      <4>4. ASSUME Sole(s, c)', Current(g)', hi > 0, received[s][g][c] = 0
            PROVE  \E i \in 1 .. Len(inbox[s]) : On(inbox[s][i], g, c) /\ inbox[s][i].n <= evicted'[c] + 1
        <5>1. PICK i \in 1 .. Len(inbox[s]) : On(inbox[s][i], g, c) /\ inbox[s][i].n <= evicted[c] + 1
          BY <2>0, <3>0, <4>2, <4>4
        <5>3. inbox[s][i].n \in Nat /\ evicted'[c] >= evicted[c]
          BY <1>11, <3>0
        <5>2. inbox[s][i].n <= evicted'[c] + 1
          BY <2>0, <5>1, <5>3
        <5> QED BY <5>1, <5>2
      <4> QED BY <1>1, <3>0, <4>2, <4>3, <4>4 DEF GotAt
    <3> QED BY <3>2, <3>3
  <2> QED BY <2>1, <2>3, <2>4 DEF WireAt
<1> QED BY <1>13, <1>14, <1>15, <1>16, <1>17, <1>18 DEF PumpInv, Frame, Wires

-----------------------------------------------------------------------------
(* The steps of the renderer and its forwarding tasks *)

\* What the window held becomes what the subscription begins with.
LEMMA SubscribeKeeps ==
    ASSUME PumpInv, NEW r \in Subs, NEW f \in Filters, Subscribe(r, f)
    PROVE  PumpInv'
<1> DEFINE replay == IF f = All THEN <<>> ELSE pending[f]
           size == IF InboxSize > Len(replay) + Headroom THEN InboxSize ELSE Len(replay) + Headroom
<1>0. Frame
  BY DEF PumpInv
<1>1. /\ forwarder[r] = "none" /\ filter' = [filter EXCEPT ![r] = f] /\ room' = [room EXCEPT ![r] = size]
      /\ inbox' = [inbox EXCEPT ![r] = replay]
      /\ pending' = IF f = All THEN pending ELSE [pending EXCEPT ![f] = <<>>]
      /\ subscribers' = subscribers \cup {r}
      /\ forwarder' = [forwarder EXCEPT ![r] = "running"]
      /\ UNCHANGED <<generation, phase, sent, load, queue, pump, received, missed, evicted, stale>>
  BY DEF Subscribe, transportVars, historyVars
<1>2. /\ filter \in [Subs -> Filters] /\ room \in [Subs -> Nat] /\ inbox \in [Subs -> Seq(SessionEvent)]
      /\ pending \in [Channels -> Seq(SessionEvent)] /\ forwarder \in [Subs -> {"none", "running", "done"}]
      /\ subscribers \subseteq Subs
  BY <1>0 DEF Frame, PumpTypes
<1>3. replay \in Seq(SessionEvent) /\ Len(replay) \in Nat
  BY <1>2, QueueNumbers DEF Filters
<1>4. size \in Nat /\ Len(replay) <= size
  <2> HIDE DEF replay
  <2> QED BY <1>3, EventBasics
<1>5. f = All => replay = <<>>
  OBVIOUS
<1>6. f \in Channels => replay = pending[f]
  BY EventBasics
<1> HIDE DEF replay, size
<1>7. /\ filter' \in [Subs -> Filters] /\ room' \in [Subs -> Nat] /\ inbox' \in [Subs -> Seq(SessionEvent)]
      /\ pending' \in [Channels -> Seq(SessionEvent)] /\ forwarder' \in [Subs -> {"none", "running", "done"}]
      /\ filter'[r] = f /\ room'[r] = size /\ inbox'[r] = replay /\ forwarder'[r] = "running"
      /\ \A s \in Subs \ {r} : /\ filter'[s] = filter[s] /\ room'[s] = room[s] /\ inbox'[s] = inbox[s]
                               /\ forwarder'[s] = forwarder[s]
      /\ \A c \in Channels : pending'[c] = IF c = f THEN <<>> ELSE pending[c]
  <2>1. filter' \in [Subs -> Filters] /\ room' \in [Subs -> Nat] /\ inbox' \in [Subs -> Seq(SessionEvent)]
    BY <1>1, <1>2, <1>3, <1>4
  <2>2. pending' \in [Channels -> Seq(SessionEvent)] /\ \A c \in Channels : pending'[c] = IF c = f THEN <<>> ELSE pending[c]
    <3>1. CASE f = All
      BY <1>1, <1>2, <3>1, EventBasics
    <3>2. CASE f \in Channels
      <4>1. pending' = [pending EXCEPT ![f] = <<>>]
        BY <1>1, <3>2, EventBasics
      <4> QED BY <1>2, <3>2, <4>1
    <3> QED BY <3>1, <3>2 DEF Filters
  <2>3. forwarder' \in [Subs -> {"none", "running", "done"}] /\ forwarder'[r] = "running"
    BY <1>1, <1>2
  <2>4. filter'[r] = f /\ room'[r] = size /\ inbox'[r] = replay
    BY <1>1, <1>2
  <2>5. \A s \in Subs \ {r} : /\ filter'[s] = filter[s] /\ room'[s] = room[s] /\ inbox'[s] = inbox[s]
                              /\ forwarder'[s] = forwarder[s]
    BY <1>1, <1>2
  <2> QED BY <2>1, <2>2, <2>3, <2>4, <2>5
<1>8. /\ inbox[r] = <<>> /\ received[r] = Nothing /\ r \notin missed /\ r \notin subscribers
      /\ \A g \in Generations : r \notin pump[g].targets
  BY <1>0, <1>1 DEF Frame, SubscriptionsFit, PumpsFit, PumpFits
<1>9. PumpTypes'
  BY <1>0, <1>1, <1>7 DEF Frame, PumpTypes
<1>10. BoundsFit' /\ WindowsFit'
  <2>1. \A c \in Channels : Len(pending'[c]) <= MaxPending /\ \A i \in 1 .. Len(pending'[c]) : pending'[c][i].channel = c
    <3>1. ASSUME NEW c \in Channels
          PROVE  Len(pending'[c]) <= MaxPending /\ \A i \in 1 .. Len(pending'[c]) : pending'[c][i].channel = c
      <4>1. CASE c = f
        BY <1>7, <4>1, EventBasics
      <4>2. CASE c # f
        <5>1. pending'[c] = pending[c]
          BY <1>7, <4>2
        <5>2. Len(pending[c]) <= MaxPending /\ \A i \in 1 .. Len(pending[c]) : pending[c][i].channel = c
          BY <1>0 DEF Frame, BoundsFit, WindowsFit
        <5> QED BY <5>1, <5>2
      <4> QED BY <4>1, <4>2
    <3> QED BY <3>1
  <2>2. \A s \in Subs : Len(inbox'[s]) <= room'[s]
    BY <1>0, <1>4, <1>7 DEF Frame, BoundsFit
  <2> QED BY <1>0, <1>1, <2>1, <2>2 DEF Frame, BoundsFit, WindowsFit
<1>11. SubscriptionsFit'
  <2>1. ASSUME NEW s \in Subs, s \in subscribers', forwarder'[s] = "running", filter'[s] \in Channels
        PROVE  pending'[filter'[s]] = <<>>
    BY <1>0, <1>1, <1>7, <2>1 DEF Frame, SubscriptionsFit
  <2>2. \A s \in Subs : s \in subscribers' => forwarder'[s] # "none"
    BY <1>0, <1>1, <1>7 DEF Frame, SubscriptionsFit
  <2>3. \A s \in Subs : forwarder'[s] # "running" => inbox'[s] = <<>> /\ received'[s] = Nothing /\ s \notin missed'
    BY <1>0, <1>1, <1>7 DEF Frame, SubscriptionsFit
  <2> QED BY <2>1, <2>2, <2>3 DEF SubscriptionsFit
<1>12. StaleFits'
  BY <1>0, <1>1 DEF Frame, StaleFits
<1>13. PumpsFit'
  <2>1. ASSUME NEW g \in Generations PROVE PumpFits(g)'
    <3>1. PumpFits(g) /\ pump[g].targets \subseteq Subs
      BY <1>0 DEF Frame, PumpsFit, PumpTypes, PumpStates
    <3>2. \A s \in pump[g].targets : forwarder'[s] # "none" /\ filter'[s] = filter[s]
      BY <1>7, <1>8, <3>1 DEF PumpFits
    <3> QED BY <1>1, <3>1, <3>2, PumpSame
  <2> QED BY <2>1 DEF PumpsFit
<1>14. ASSUME NEW g \in Generations, NEW c \in Channels, NEW p \in Nat, WireAt(g, c, p)
       PROVE  WireAt(g, c, p)'
  <2>0. /\ evicted[c] \in Nat /\ QueueAt(g, c, p) /\ HeldAt(g, c, p) /\ Current(g)' = Current(g)
        /\ Routed(g, c, p)' = Routed(g, c, p) /\ Routed(g, c, p) \in Int /\ pending[c] \in Seq(SessionEvent)
        /\ \A s : Due(s, g, c, p)' = Due(s, g, c, p)
    BY <1>0, <1>1, <1>14, FrameTypes, DueTyped DEF WireAt, Current, Routed, Due
  <2>1. QueueAt(g, c, p)'
    BY <1>1, <2>0 DEF QueueAt
  <2>2. HeldAt(g, c, p)'
    <3>1. CASE c = f
      <4>1. ~ Untouched(c)' /\ pending'[c] = <<>>
        BY <1>7, <3>1 DEF Untouched
      <4> QED BY <4>1, HeldEmpty
    <3>2. CASE c # f
      <4>1. Untouched(c)' => Untouched(c)
        BY <1>1, <1>7 DEF Untouched
      <4>2. pending'[c] = pending[c]
        BY <1>7, <3>2
      <4> QED BY <1>1, <2>0, <4>1, <4>2, HeldSame
    <3> QED BY <3>1, <3>2
  <2>3. ASSUME NEW s \in Subs \ missed', s # r PROVE GotAt(s, g, c, p)'
    <3>1. /\ GotAt(s, g, c, p) /\ Due(s, g, c, p) \in Int /\ \A i \in 1 .. Len(inbox[s]) : inbox[s][i].n \in Nat
      BY <1>0, <1>1, <1>14, <2>3, DueTyped, SubTypes DEF WireAt
    <3>2. Reach(s, g)' => Reach(s, g)
      BY <1>1, <2>3 DEF Reach
    <3>3. Sole(s, c)' => Sole(s, c)
      BY <1>1, <1>7, <2>3 DEF Sole
    <3>4. inbox'[s] = inbox[s] /\ filter'[s] = filter[s] /\ received'[s] = received[s] /\ evicted'[c] = evicted[c]
      BY <1>1, <1>7, <2>3
    <3> QED BY <2>0, <3>1, <3>2, <3>3, <3>4, GotSame
  <2>4. GotAt(r, g, c, p)'
    <3>0. received'[r][g][c] = 0
      BY <1>1, <1>8 DEF Nothing, Sources
    <3>1. CASE c # f
      <4>1. \A i \in 1 .. Len(replay) : ~ On(replay[i], g, c)
        BY <1>0, <1>5, <1>6, <3>1 DEF Frame, WindowsFit, On, Filters
      <4>2. Wire(replay, g, c, 0, 0, FALSE)
        BY <1>3, <4>1, WireNone
      <4>3. Wire(inbox'[r], g, c, 0, 0, FALSE) /\ ~ Sole(r, c)'
        BY <1>7, <3>1, <4>2 DEF Sole
      <4> QED BY <3>0, <4>3, GotNothing
    <3>2. CASE c = f
      <4>1. PICK hi \in Nat : /\ Wire(pending[c], g, c, 0, hi, FALSE) /\ hi <= p
                              /\ (generation = g \/ pump[g].pc = "routing") => hi \in {0, Routed(g, c, p)}
        BY <2>0 DEF HeldAt
      <4>2. inbox'[r] = pending[c] /\ filter'[r] = c
        BY <1>6, <1>7, <3>2
      <4>3. Due(r, g, c, p)' = Routed(g, c, p)
        BY <1>1, <1>8 DEF Due, Routed
      <4>4. Reach(r, g)' => generation = g \/ pump[g].pc = "routing"
        BY <1>1, <1>8 DEF Reach
      <4>5. ASSUME Sole(r, c)', Current(g)'
            PROVE  \A m \in Nat : evicted[c] < m /\ m <= Routed(g, c, p) => Has(pending[c], g, c, m)
        <5>1. Untouched(c)
          BY <1>1, <1>7, <4>5 DEF Untouched, Sole
        <5> QED BY <2>0, <4>5, <5>1 DEF HeldAt
      <4>6. ASSUME Sole(r, c)', Current(g)', hi > 0
            PROVE  \E i \in 1 .. Len(pending[c]) : On(pending[c][i], g, c) /\ pending[c][i].n <= evicted[c] + 1
        <5>1. hi = Routed(g, c, p)
          BY <2>0, <4>1, <4>6 DEF Current
        <5>2. \E m \in Nat : m <= evicted[c] + 1 /\ Has(pending[c], g, c, m)
          <6>1. CASE hi <= evicted[c]
            <7>1. Has(pending[c], g, c, hi)
              BY <2>0, <4>1, <4>6, WireHasLast
            <7> QED BY <2>0, <6>1, <7>1
          <6>2. CASE evicted[c] < hi
            <7>1. Has(pending[c], g, c, evicted[c] + 1)
              BY <2>0, <4>5, <4>6, <5>1, <6>2
            <7> QED BY <2>0, <7>1
          <6> QED BY <2>0, <6>1, <6>2
        <5> QED BY <5>2 DEF Has
      <4>7. ASSUME Sole(r, c)', Current(g)', hi = 0
            PROVE  Routed(g, c, p) <= evicted[c]
        <5>1. SUFFICES ASSUME evicted[c] < Routed(g, c, p) PROVE FALSE
          BY <2>0
        <5>2. Routed(g, c, p) \in Nat
          BY <2>0, <5>1
        <5>3. Has(pending[c], g, c, Routed(g, c, p))
          BY <4>5, <4>7, <5>1, <5>2
        <5>4. PICK i \in 1 .. Len(pending[c]) : On(pending[c][i], g, c)
          BY <5>3 DEF Has
        <5>5. 0 < pending[c][i].n /\ pending[c][i].n <= 0
          BY <4>1, <4>7, <5>4 DEF Wire
        <5>6. pending[c][i].n \in Nat
          BY <2>0, QueueNumbers
        <5> QED BY <5>5, <5>6
      <4>8. (received'[r][g][c] > 0) = FALSE
        BY <3>0
      <4>9. Wire(inbox'[r], g, c, received'[r][g][c], hi, received'[r][g][c] > 0)
        BY <3>0, <4>1, <4>2, <4>8
      <4>10. Reach(r, g)' => hi \in {0, Due(r, g, c, p)'}
        BY <4>1, <4>3, <4>4
      <4>11. Sole(r, c)' /\ Current(g)' =>
                /\ hi > 0 /\ received'[r][g][c] = 0 =>
                      \E i \in 1 .. Len(inbox'[r]) : On(inbox'[r][i], g, c) /\ inbox'[r][i].n <= evicted'[c] + 1
                /\ hi = 0 /\ Reach(r, g)' => Due(r, g, c, p)' <= evicted'[c]
        BY <1>1, <4>2, <4>3, <4>6, <4>7
      <4> QED BY <4>1, <4>2, <4>9, <4>10, <4>11 DEF GotAt
    <3> QED BY <3>1, <3>2
  <2> QED BY <1>1, <2>1, <2>2, <2>3, <2>4 DEF WireAt
<1> QED BY <1>9, <1>10, <1>11, <1>12, <1>13, <1>14 DEF PumpInv, Frame, Wires

\* A task that is over has nothing.
LEMMA FinishKeeps ==
    ASSUME PumpInv, NEW r \in Subs, forwarder[r] = "running", Finish(r),
           UNCHANGED <<transportVars, queue, pump, subscribers, seat, pending, room, filter>>
    PROVE  PumpInv'
<1>0. Frame
  BY DEF PumpInv
<1>1. /\ forwarder' = [forwarder EXCEPT ![r] = "done"] /\ inbox' = [inbox EXCEPT ![r] = <<>>]
      /\ received' = [received EXCEPT ![r] = Nothing] /\ missed' = missed \ {r} /\ forwarder[r] = "running"
      /\ UNCHANGED <<generation, phase, sent, load, queue, pump, subscribers, pending, room, filter, evicted, stale>>
  BY DEF Finish, transportVars
<1>2. /\ forwarder \in [Subs -> {"none", "running", "done"}] /\ inbox \in [Subs -> Seq(SessionEvent)]
      /\ received \in [Subs -> Counts] /\ Nothing \in Counts
  BY <1>0 DEF Frame, PumpTypes, Nothing, Counts
<1>3. /\ forwarder' \in [Subs -> {"none", "running", "done"}] /\ inbox' \in [Subs -> Seq(SessionEvent)]
      /\ received' \in [Subs -> Counts]
      /\ forwarder'[r] = "done" /\ inbox'[r] = <<>> /\ received'[r] = Nothing
      /\ \A s \in Subs \ {r} : forwarder'[s] = forwarder[s] /\ inbox'[s] = inbox[s] /\ received'[s] = received[s]
  BY <1>1, <1>2
<1>4. PumpTypes'
  <2>1. missed' \subseteq Subs
    BY <1>0, <1>1 DEF Frame, PumpTypes
  <2> QED BY <1>0, <1>1, <1>3, <2>1 DEF Frame, PumpTypes
<1>5. BoundsFit' /\ WindowsFit' /\ StaleFits'
  <2>1. \A s \in Subs : Len(inbox'[s]) <= room'[s]
    BY <1>0, <1>1, <1>3 DEF Frame, BoundsFit, PumpTypes
  <2> QED BY <1>0, <1>1, <2>1 DEF Frame, BoundsFit, WindowsFit, StaleFits
<1>6. SubscriptionsFit'
  BY <1>0, <1>1, <1>3 DEF Frame, SubscriptionsFit
<1>7. PumpsFit'
  <2>1. ASSUME NEW g \in Generations PROVE PumpFits(g)'
    <3>1. PumpFits(g) /\ pump[g].targets \subseteq Subs
      BY <1>0 DEF Frame, PumpsFit, PumpTypes, PumpStates
    <3>2. \A s \in pump[g].targets : forwarder'[s] # "none" /\ filter'[s] = filter[s]
      BY <1>1, <1>3, <3>1 DEF PumpFits
    <3> QED BY <1>1, <3>1, <3>2, PumpSame
  <2> QED BY <2>1 DEF PumpsFit
<1>8. ASSUME NEW g \in Generations, NEW c \in Channels, NEW p \in Nat, WireAt(g, c, p)
      PROVE  WireAt(g, c, p)'
  <2>0. /\ evicted[c] \in Nat /\ QueueAt(g, c, p) /\ HeldAt(g, c, p) /\ Current(g)' = Current(g)
        /\ Routed(g, c, p)' = Routed(g, c, p)
        /\ \A s : Due(s, g, c, p)' = Due(s, g, c, p) /\ Reach(s, g)' = Reach(s, g)
    BY <1>0, <1>1, <1>8, FrameTypes DEF WireAt, Current, Routed, Due, Reach
  <2>1. QueueAt(g, c, p)'
    BY <1>1, <2>0 DEF QueueAt
  <2>2. HeldAt(g, c, p)'
    <3>1. Untouched(c)' => Untouched(c)
      BY <1>1, <1>3 DEF Untouched
    <3> QED BY <1>1, <2>0, <3>1, HeldSame
  <2>3. ASSUME NEW s \in Subs \ missed', s # r PROVE GotAt(s, g, c, p)'
    <3>1. /\ GotAt(s, g, c, p) /\ Due(s, g, c, p) \in Int /\ \A i \in 1 .. Len(inbox[s]) : inbox[s][i].n \in Nat
      BY <1>0, <1>1, <1>8, <2>3, DueTyped, SubTypes DEF WireAt
    <3>2. Sole(s, c)' => Sole(s, c)
      BY <1>1, <1>3, <2>3 DEF Sole
    <3>3. inbox'[s] = inbox[s] /\ filter'[s] = filter[s] /\ received'[s] = received[s] /\ evicted'[c] = evicted[c]
      BY <1>1, <1>3, <2>3
    <3> QED BY <2>0, <3>1, <3>2, <3>3, GotSame
  <2>4. GotAt(r, g, c, p)'
    <3>1. received'[r][g][c] = 0 /\ ~ Sole(r, c)'
      BY <1>3 DEF Nothing, Sources, Sole
    <3>2. Wire(<<>>, g, c, 0, 0, FALSE)
      BY WireEmpty
    <3>3. Wire(inbox'[r], g, c, 0, 0, FALSE)
      BY <1>3, <3>2
    <3> QED BY <3>1, <3>3, GotNothing
  <2> QED BY <2>1, <2>2, <2>3, <2>4 DEF WireAt
<1> QED BY <1>4, <1>5, <1>6, <1>7, <1>8 DEF PumpInv, Frame, Wires

\* The renderer is given the next event.
LEMMA ForwardKeeps ==
    ASSUME PumpInv, NEW r \in Subs, Forward(r)
    PROVE  PumpInv'
<1>1. CASE ~ callback[r]
  BY <1>1, FinishKeeps DEF Forward
<1>2. CASE callback[r]
  <2> DEFINE e == Head(inbox[r])
  <2>0. Frame
    BY DEF PumpInv
  <2>1. /\ forwarder[r] = "running" /\ inbox[r] # <<>> /\ inbox' = [inbox EXCEPT ![r] = Tail(@)]
        /\ received' = [received EXCEPT ![r][e.gen][e.channel] = e.n]
        /\ UNCHANGED <<generation, phase, sent, load, queue, pump, subscribers, pending, room, filter, forwarder,
                       missed, evicted, stale>>
    BY <1>2 DEF Forward, transportVars, historyVars
  <2>2. /\ inbox \in [Subs -> Seq(SessionEvent)] /\ received \in [Subs -> Counts] /\ inbox[r] \in Seq(SessionEvent)
    BY <2>0 DEF Frame, PumpTypes
  <2>3. e \in SessionEvent /\ e.gen \in Generations /\ e.channel \in Sources /\ e.n \in Nat
    <3>1. e \in SessionEvent
      BY <2>1, <2>2, TailPlaces
    <3> HIDE DEF e
    <3> QED BY <3>1 DEF SessionEvent
  <2>e. e = Head(inbox[r])
    OBVIOUS
  <2> HIDE DEF e
  <2>4. /\ inbox' \in [Subs -> Seq(SessionEvent)] /\ received' \in [Subs -> Counts]
        /\ inbox'[r] = Tail(inbox[r])
        /\ \A s \in Subs \ {r} : inbox'[s] = inbox[s] /\ received'[s] = received[s]
        /\ \A g \in Generations, c \in Sources :
              received'[r][g][c] = IF g = e.gen /\ c = e.channel THEN e.n ELSE received[r][g][c]
    <3>1. inbox' \in [Subs -> Seq(SessionEvent)] /\ inbox'[r] = Tail(inbox[r]) /\ \A s \in Subs \ {r} : inbox'[s] = inbox[s]
      BY <2>1, <2>2, TailPlaces
    <3>2. received' \in [Subs -> Counts] /\ \A s \in Subs \ {r} : received'[s] = received[s]
      BY <2>1, <2>2, <2>3 DEF Counts
    <3>3. \A g \in Generations, c \in Sources :
              received'[r][g][c] = IF g = e.gen /\ c = e.channel THEN e.n ELSE received[r][g][c]
      BY <2>1, <2>2, <2>3 DEF Counts
    <3> QED BY <3>1, <3>2, <3>3
  <2>5. PumpTypes'
    BY <2>0, <2>1, <2>4 DEF Frame, PumpTypes
  <2>6. BoundsFit' /\ WindowsFit' /\ StaleFits' /\ SubscriptionsFit'
    <3>1. \A s \in Subs : Len(inbox'[s]) <= room'[s]
      <4>1. Len(inbox'[r]) <= room[r]
        <5>1. Len(inbox[r]) \in Nat /\ Len(inbox[r]) <= room[r] /\ room[r] \in Nat
          BY <2>0, <2>2, QueueNumbers DEF Frame, BoundsFit, PumpTypes
        <5> QED BY <2>1, <2>2, <2>4, <5>1, TailPlaces
      <4> QED BY <2>0, <2>1, <2>4, <4>1 DEF Frame, BoundsFit
    <3>2. BoundsFit' /\ WindowsFit' /\ StaleFits'
      BY <2>0, <2>1, <3>1 DEF Frame, BoundsFit, WindowsFit, StaleFits
    <3>3. SubscriptionsFit'
      BY <2>0, <2>1, <2>4 DEF Frame, SubscriptionsFit
    <3> QED BY <3>2, <3>3
  <2>7. PumpsFit'
    <3>1. ASSUME NEW g \in Generations PROVE PumpFits(g)'
      <4>1. PumpFits(g)
        BY <2>0 DEF Frame, PumpsFit
      <4>2. \A s \in pump[g].targets : forwarder'[s] # "none" /\ filter'[s] = filter[s]
        BY <2>1, <4>1 DEF PumpFits
      <4> QED BY <2>1, <4>1, <4>2, PumpSame
    <3> QED BY <3>1 DEF PumpsFit
  <2>8. ASSUME NEW g \in Generations, NEW c \in Channels, NEW p \in Nat, WireAt(g, c, p)
        PROVE  WireAt(g, c, p)'
    <3>0. /\ evicted[c] \in Nat /\ QueueAt(g, c, p) /\ HeldAt(g, c, p) /\ Current(g)' = Current(g)
          /\ Routed(g, c, p)' = Routed(g, c, p) /\ Untouched(c)' = Untouched(c)
          /\ \A s : Due(s, g, c, p)' = Due(s, g, c, p) /\ Reach(s, g)' = Reach(s, g) /\ Sole(s, c)' = Sole(s, c)
      BY <2>0, <2>1, <2>8, FrameTypes DEF WireAt, Current, Routed, Due, Reach, Sole, Untouched
    <3>1. QueueAt(g, c, p)'
      BY <2>1, <3>0 DEF QueueAt
    <3>2. HeldAt(g, c, p)'
      BY <2>1, <3>0, HeldSame
    <3>3. ASSUME NEW s \in Subs \ missed', s # r PROVE GotAt(s, g, c, p)'
      <4>1. /\ GotAt(s, g, c, p) /\ Due(s, g, c, p) \in Int /\ \A i \in 1 .. Len(inbox[s]) : inbox[s][i].n \in Nat
        BY <2>0, <2>1, <2>8, <3>3, DueTyped, SubTypes DEF WireAt
      <4>2. inbox'[s] = inbox[s] /\ filter'[s] = filter[s] /\ received'[s] = received[s] /\ evicted'[c] = evicted[c]
        BY <2>1, <2>4, <3>3
      <4> QED BY <3>0, <4>1, <4>2, GotSame
    <3>4. ASSUME r \notin missed' PROVE GotAt(r, g, c, p)'
      <4> DEFINE lo == received[r][g][c]
      <4>0. lo \in Nat /\ c \in Sources
        BY <2>2 DEF Counts, Sources
      <4>1. PICK hi \in Nat :
              /\ Wire(inbox[r], g, c, lo, hi, lo > 0)
              /\ hi <= p
              /\ hi > 0 => filter[r] \in {All, c}
              /\ Reach(r, g) => hi \in {0, Due(r, g, c, p)}
              /\ Sole(r, c) /\ Current(g) =>
                    /\ hi > 0 /\ lo = 0 =>
                          \E i \in 1 .. Len(inbox[r]) : On(inbox[r][i], g, c) /\ inbox[r][i].n <= evicted[c] + 1
                    /\ hi = 0 /\ Reach(r, g) => Due(r, g, c, p) <= evicted[c]
        BY <2>1, <2>8, <3>4 DEF WireAt, GotAt
      <4>2. CASE On(e, g, c)
        <5>1. received'[r][g][c] = e.n
          BY <2>4, <4>0, <4>2 DEF On
        <5>2. Wire(Tail(inbox[r]), g, c, e.n, hi, e.n > 0) /\ 0 < e.n /\ e.n <= hi
          BY <2>1, <2>2, <2>e, <4>0, <4>1, <4>2, ReadTail
        <5>3. Wire(inbox'[r], g, c, received'[r][g][c], hi, received'[r][g][c] > 0)
          BY <2>4, <5>1, <5>2
        <5>4. received'[r][g][c] # 0 /\ hi # 0
          BY <2>3, <5>1, <5>2
        <5> QED BY <2>1, <3>0, <4>1, <5>3, <5>4 DEF GotAt
      <4>3. CASE ~ On(e, g, c)
        <5>1. received'[r][g][c] = lo
          BY <2>4, <4>0, <4>3 DEF On
        <5>2. Wire(Tail(inbox[r]), g, c, lo, hi, lo > 0)
          BY <2>1, <2>2, <2>e, <4>0, <4>1, <4>3, ReadTail
        <5>3. Wire(inbox'[r], g, c, received'[r][g][c], hi, received'[r][g][c] > 0)
          BY <2>4, <5>1, <5>2
        <5>4. ASSUME NEW i \in 1 .. Len(inbox[r]), On(inbox[r][i], g, c)
              PROVE  i - 1 \in 1 .. Len(inbox'[r]) /\ inbox'[r][i - 1] = inbox[r][i]
          <6>1. i # 1
            BY <2>1, <2>2, <2>e, <4>3, <5>4, TailPlaces
          <6>2. i - 1 \in 1 .. Len(inbox'[r]) /\ (i - 1) + 1 = i
            BY <2>1, <2>2, <2>4, <6>1, TailPlaces, QueueNumbers
          <6> QED BY <2>1, <2>2, <2>4, <6>2, TailPlaces
        <5>5. ASSUME Sole(r, c), Current(g), hi > 0, lo = 0
              PROVE  \E i \in 1 .. Len(inbox'[r]) : On(inbox'[r][i], g, c) /\ inbox'[r][i].n <= evicted[c] + 1
          <6>1. PICK i \in 1 .. Len(inbox[r]) : On(inbox[r][i], g, c) /\ inbox[r][i].n <= evicted[c] + 1
            BY <4>1, <5>5
          <6> QED BY <5>4, <6>1
        <5> QED BY <2>1, <3>0, <4>1, <5>1, <5>3, <5>5 DEF GotAt
      <4> QED BY <4>2, <4>3
    <3> QED BY <3>1, <3>2, <3>3, <3>4 DEF WireAt
  <2> QED BY <2>5, <2>6, <2>7, <2>8 DEF PumpInv, Frame, Wires
<1> QED BY <1>1, <1>2

\* Whether the renderer listens is nothing the pumps know.
LEMMA PumpStutterKeeps ==
    ASSUME PumpInv, UNCHANGED <<transportVars, queue, pump, subscribers, pending, inbox, room, filter, forwarder,
                                received, historyVars>>
    PROVE  PumpInv'
<1>1. /\ UNCHANGED <<generation, phase, sent, load, queue, pump, subscribers, pending, inbox, room, filter, forwarder,
                     received, missed, evicted, stale>>
  BY DEF transportVars, historyVars
<1>2. Frame'
  BY <1>1 DEF PumpInv, Frame, PumpTypes, BoundsFit, PumpsFit, PumpFits, SubscriptionsFit, WindowsFit, StaleFits, matches
<1>3. ASSUME NEW g \in Generations, NEW c \in Channels, NEW p \in Nat, WireAt(g, c, p)
      PROVE  WireAt(g, c, p)'
  <2>1. QueueAt(g, c, p)' /\ HeldAt(g, c, p)'
    BY <1>1, <1>3 DEF WireAt, QueueAt, HeldAt, Routed, Untouched, Current
  <2>2. ASSUME NEW s \in Subs \ missed' PROVE GotAt(s, g, c, p)'
    <3>1. GotAt(s, g, c, p)
      BY <1>1, <1>3, <2>2 DEF WireAt
    <3> QED BY <1>1, <3>1 DEF GotAt, Reach, Due, Sole, Current
  <2> QED BY <2>1, <2>2 DEF WireAt
<1> QED BY <1>2, <1>3 DEF PumpInv, Wires

-----------------------------------------------------------------------------
(* The theorems *)

\* Every step of the system keeps the invariant.
LEMMA PumpStepKeeps ==
    ASSUME PumpInv, [PumpNext]_pumpVars PROVE PumpInv'
<1>1. CASE UNCHANGED pumpVars
  BY <1>1, PumpStutterKeeps DEF pumpVars, renderVars
<1>2. CASE ReserveGeneration("connecting") \/ ReserveGeneration("closing")
  BY <1>2, ReserveGenerationKeeps
<1>3. CASE Attach \/ Teardown
  BY <1>3, AttachKeeps, TeardownKeeps
<1>4. ASSUME NEW g \in Generations, PumpStep(g) \/ \E c \in Sources : send_event(g, c)
      PROVE  PumpInv'
  BY <1>4, PumpReceiveKeeps, PumpRouteKeeps, PumpSendPrimaryKeeps, PumpSendMirrorKeeps, SendEventKeeps DEF PumpStep
<1>5. ASSUME NEW s \in Subs,
             (\E f \in Filters : Subscribe(s, f)) \/ Forward(s) \/ ForwardEnds(s) \/ Unsubscribe(s)
      PROVE  PumpInv'
  <2>1. CASE \E f \in Filters : Subscribe(s, f)
    BY <2>1, SubscribeKeeps
  <2>2. CASE Forward(s)
    BY <2>2, ForwardKeeps
  <2>3. CASE ForwardEnds(s)
    BY <2>3, FinishKeeps DEF ForwardEnds
  <2>4. CASE Unsubscribe(s)
    BY <2>4, PumpStutterKeeps DEF Unsubscribe
  <2> QED BY <1>5, <2>1, <2>2, <2>3, <2>4
<1> QED BY <1>1, <1>2, <1>3, <1>4, <1>5 DEF PumpNext

\* The account of every wire gives what subscriptions see.
LEMMA PumpInvImplies ==
    ASSUME PumpInv PROVE EventInv
<1>0. Frame
  BY DEF PumpInv
<1>1. PumpTypeOK
  <2>1. \A g \in Generations : ToSet(queue[g]) \subseteq SessionEvent
    BY <1>0 DEF Frame, PumpTypes, ToSet
  <2>2. \A g \in Generations : /\ pump[g].pc \in {"none", "receiving", "routing", "sending", "ended"}
                               /\ pump[g].event \in SessionEvent /\ pump[g].targets \subseteq Subs
    BY <1>0 DEF Frame, PumpTypes, PumpStates
  <2> QED BY <1>0, <2>1, <2>2 DEF Frame, PumpTypes, BoundsFit, PumpTypeOK
<1>2. ASSUME NEW s \in Subs, NEW g, NEW c, NEW i
      PROVE  i \in Waiting(s, g, c) <=> i \in 1 .. Len(inbox[s]) /\ On(inbox[s][i], g, c)
  <2>1. DOMAIN inbox[s] = 1 .. Len(inbox[s])
    BY <1>0 DEF Frame, PumpTypes
  <2> QED BY <2>1 DEF Waiting, On
<1>3. NoHole
  <2> SUFFICES ASSUME NEW s \in Subs \ missed, NEW g \in Generations, NEW c \in Channels, NEW i \in Waiting(s, g, c)
               PROVE  LET before == {j \in Waiting(s, g, c) : j < i}
                      IN  /\ before = {} => received[s][g][c] \in {0, inbox[s][i].n - 1}
                          /\ \A j \in before : (\A k \in before : k <= j) => inbox[s][i].n = inbox[s][j].n + 1
    BY DEF NoHole
  <2>1. /\ inbox[s] \in Seq(SessionEvent) /\ received[s][g][c] \in Nat /\ Len(inbox[s]) \in Nat
        /\ i \in 1 .. Len(inbox[s]) /\ On(inbox[s][i], g, c)
    BY <1>0, <1>2, SubTypes, QueueNumbers
  <2>2. PICK hi \in Nat : Wire(inbox[s], g, c, received[s][g][c], hi, received[s][g][c] > 0)
    BY DEF PumpInv, Wires, WireAt, GotAt
  <2> DEFINE q == inbox[s]
             lo == received[s][g][c]
             whole == lo > 0
  <2>6. q \in Seq(SessionEvent) /\ lo \in Nat /\ i \in 1 .. Len(q) /\ On(q[i], g, c)
    BY <2>1
  <2>7. Wire(q, g, c, lo, hi, whole)
    BY <2>2
  <2>8. whole \in BOOLEAN /\ (lo # 0 => whole)
    BY <2>1
  <2> HIDE DEF q, lo, whole
  <2>3. /\ (\A j \in 1 .. Len(q) : On(q[j], g, c) => i <= j) => lo \in {0, q[i].n - 1}
        /\ \A j \in 1 .. Len(q) :
              On(q[j], g, c) /\ j < i /\ (\A k \in 1 .. Len(q) : On(q[k], g, c) /\ k < i => k <= j)
                 => q[i].n = q[j].n + 1
    BY <2>6, <2>7, <2>8, WireNoHole
  <2>4. ASSUME {j \in Waiting(s, g, c) : j < i} = {}
        PROVE  received[s][g][c] \in {0, inbox[s][i].n - 1}
    <3>1. \A j \in 1 .. Len(inbox[s]) : On(inbox[s][j], g, c) => i <= j
      <4> SUFFICES ASSUME NEW j \in 1 .. Len(inbox[s]), On(inbox[s][j], g, c), j < i PROVE FALSE
        BY <2>1
      <4>1. j \in {x \in Waiting(s, g, c) : x < i}
        BY <1>2
      <4> QED BY <2>4, <4>1
    <3> QED BY <2>3, <3>1 DEF q, lo
  <2>5. ASSUME NEW j \in Waiting(s, g, c), j < i, \A k \in {x \in Waiting(s, g, c) : x < i} : k <= j
        PROVE  inbox[s][i].n = inbox[s][j].n + 1
    <3>1. j \in 1 .. Len(inbox[s]) /\ On(inbox[s][j], g, c)
      BY <1>2
    <3>2. \A k \in 1 .. Len(inbox[s]) : On(inbox[s][k], g, c) /\ k < i => k <= j
      BY <1>2, <2>5
    <3> QED BY <2>3, <2>5, <3>1, <3>2 DEF q, lo
  <2> QED BY <2>4, <2>5
<1>4. FirstSubscriptionIsWhole
  <2> SUFFICES ASSUME NEW s \in Subs \ missed, NEW i \in Waiting(s, generation, filter[s]),
                      filter[s] \in Channels, phase = "attached",
                      \A o \in Subs \ {s} : forwarder[o] # "none" => filter[o] # filter[s],
                      received[s][generation][filter[s]] = 0,
                      \A j \in Waiting(s, generation, filter[s]) : i <= j
               PROVE  inbox[s][i].n <= evicted[filter[s]] + 1
    BY DEF FirstSubscriptionIsWhole
  <2> DEFINE g == generation
             c == filter[s]
  <2>1. i \in 1 .. Len(inbox[s]) /\ On(inbox[s][i], g, c) /\ inbox[s] \in Seq(SessionEvent)
    BY <1>0, <1>2 DEF Frame, PumpTypes
  <2>2. g \in Generations /\ inbox[s][i].n \in Nat /\ inbox[s][i].n > 0 /\ Len(inbox[s]) \in Nat
    <3>1. inbox[s][i] \in SessionEvent /\ Len(inbox[s]) \in Nat
      BY <2>1, QueueNumbers
    <3> QED BY <2>1, <3>1, EventNumbers DEF On, SessionEvent
  <2>3. forwarder[s] = "running"
    <3>1. inbox[s] # <<>>
      BY <2>1, <2>2
    <3> QED BY <1>0, <3>1 DEF Frame, SubscriptionsFit
  <2>4. Sole(s, c) /\ Current(g)
    BY <2>3 DEF Sole, Current
  <2>5. PICK p \in Nat : GotAt(s, g, c, p)
    BY <2>2 DEF PumpInv, Wires, WireAt
  <2> HIDE DEF g, c
  <2>6. PICK hi \in Nat :
           /\ Wire(inbox[s], g, c, received[s][g][c], hi, received[s][g][c] > 0)
           /\ hi > 0 /\ received[s][g][c] = 0 =>
                 \E x \in 1 .. Len(inbox[s]) : On(inbox[s][x], g, c) /\ inbox[s][x].n <= evicted[c] + 1
    BY <2>4, <2>5 DEF GotAt
  <2>7. hi > 0
    BY <2>1, <2>2, <2>6 DEF Wire
  <2>8. received[s][g][c] = 0 /\ evicted[c] \in Nat
    BY <1>0 DEF g, c, Frame, PumpTypes
  <2>9. PICK x \in 1 .. Len(inbox[s]) : On(inbox[s][x], g, c) /\ inbox[s][x].n <= evicted[c] + 1
    BY <2>6, <2>7, <2>8
  <2>10. i <= x
    BY <1>2, <2>9 DEF g, c
  <2>11. i = x \/ inbox[s][i].n < inbox[s][x].n
    BY <2>1, <2>2, <2>6, <2>9, <2>10 DEF Wire
  <2>12. inbox[s][x].n \in Nat
    BY <2>1, QueueNumbers
  <2>13. inbox[s][i].n <= evicted[c] + 1
    BY <2>2, <2>8, <2>9, <2>11, <2>12
  <2> QED BY <2>13 DEF c
<1>5. AtMostOneStale
  BY <1>0 DEF Frame, StaleFits, AtMostOneStale
<1> QED BY <1>1, <1>3, <1>4, <1>5 DEF EventInv

\* Whoever subscribes, stalls, dies or reconnects meanwhile, pump_events gives
\* a subscription the output of a channel in order and without a hole, from the
\* first event that is still kept, and lets at most one event of a retired
\* transport through: for any channels, subscriptions, transports and limits.
THEOREM EventInvHolds == PumpSpec => []EventInv
<1>1. PumpInit => PumpInv
  BY PumpInitInv
<1>2. PumpInv /\ [PumpNext]_pumpVars => PumpInv'
  BY PumpStepKeeps
<1>3. PumpInv => EventInv
  BY PumpInvImplies
<1> QED BY <1>1, <1>2, <1>3, PTL DEF PumpSpec
=============================================================================
