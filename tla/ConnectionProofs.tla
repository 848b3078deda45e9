-------------------------- MODULE ConnectionProofs --------------------------
(***************************************************************************)
(* Proofs about a session and about the desktop that drives it, for any    *)
(* callers, users, attempts and bounds.                                    *)
(*                                                                         *)
(* SessionLifecycle: the inductive invariant is SessionTypeOK /\           *)
(* SessionInv; it is preserved even without the bound on new calls         *)
(* (SessionSafety), so what drives the session inherits it.                *)
(* ConnectionSupervisor: its steps are steps of the session or leave it    *)
(* alone, so the invariants hold of the composition; the reconnecting      *)
(* token serves its purpose up to the first disconnect; and a disconnect   *)
(* is not undone by an attempt in flight.                                  *)
(***************************************************************************)
EXTENDS ConnectionSupervisor, TLAPS

IInv == SessionTypeOK /\ SessionInv

(* The control points, to be expanded together. *)
USE DEF ConnectPC, DisconnectPC, PC, RestingStates

(* Facts about the transition table (connection_transition) that the       *)
(* guarded calls and the unguarded writers rely on.                        *)
LEMMA TransitionTable ==
    ASSUME NEW from \in ConnectionState, NEW to \in ConnectionState
    PROVE  /\ from \in RestingStates =>
                  connection_transition(from, "ResolvingAddress")
                    \/ from = "ResolvingAddress"
           /\ from \in RestingStates =>
                  connection_transition(from, "Disconnected")
                    \/ from = "Disconnected"
           /\ from \in {"ResolvingAddress", "Connecting"} =>
                  /\ connection_transition(from, "Failed")
                  /\ ~connection_transition(from, "Reconnecting")
                  /\ ~connection_transition(from, "WaitingForCredential")
           /\ connection_transition("ResolvingAddress", "Connecting")
           /\ connection_transition("Connecting", "Ready")
BY DEF connection_transition, LegalTransitions, ConnectionState

(* The initial state satisfies the invariant. *)
LEMMA InitIInv == SessionInit => IInv
<1> SUFFICES ASSUME SessionInit PROVE IInv
  OBVIOUS
<1>1. SessionTypeOK
  <2>1. registered \in BOOLEAN /\ state \in ConnectionState
    BY DEF SessionInit, ConnectionState
  <2>2. /\ generation \in 0..MaxGeneration /\ connection \in 0..MaxGeneration
        /\ gen \in [Callers -> 0..MaxGeneration]
    BY GenerationAssumption DEF SessionInit
  <2>3. left \in [Callers -> 0..MaxCandidates]
    BY CandidatesAssumption DEF SessionInit
  <2>4. /\ transport \in [Generation -> {"none", "live", "dropped"}]
        /\ pump \in [Generation -> PumpPC]
    BY DEF SessionInit, PumpPC
  <2>5. pc \in [Callers -> PC] /\ outcome \in [Callers -> Outcome]
    BY DEF SessionInit, Outcome
  <2> QED
    BY <2>1, <2>2, <2>3, <2>4, <2>5 DEF SessionInit, SessionTypeOK
<1>2. HolderInCall
  BY CallersAssumption DEF SessionInit, HolderInCall
<1>3. StateFollowsHolder
  BY DEF SessionInit, StateFollowsHolder
<1>4. NeverStrandedMidConnect /\ ReadyIsCurrent /\ GuardedWritesAccepted
  BY DEF SessionInit, NeverStrandedMidConnect, ReadyIsCurrent,
         GuardedWritesAccepted
<1> QED
  BY <1>1, <1>2, <1>3, <1>4 DEF IInv, SessionInv

(* Every step preserves the type invariant, one case per action. *)
LEMMA NextTypeOK ==
    ASSUME SessionTypeOK, [StartCall \/ OtherStep]_sessionVars
    PROVE  SessionTypeOK'
<1> USE GenerationAssumption, CandidatesAssumption
<1> USE DEF SessionTypeOK, controllerVars, transportVars, callerVars
<1>1. ASSUME NEW c \in Callers, Connect(c) PROVE SessionTypeOK'
  BY <1>1
     DEF Connect, Outcome
<1>2. ASSUME NEW c \in Callers, Disconnect(c) PROVE SessionTypeOK'
  BY <1>2
     DEF Disconnect, Outcome
<1>3. ASSUME NEW c \in Callers, mark_reconnecting(c) PROVE SessionTypeOK'
  BY <1>3
     DEF mark_reconnecting, Mark, MarkAccepted, accepts, ConnectionState
<1>4. ASSUME NEW c \in Callers, mark_waiting_for_credential(c) PROVE SessionTypeOK'
  BY <1>4
     DEF mark_waiting_for_credential, Mark, MarkAccepted, accepts,
         ConnectionState
<1>5. ASSUME NEW c \in Callers, ConnectLock(c) PROVE SessionTypeOK'
  BY <1>5
     DEF ConnectLock, SetStateAndContinue, Return, accepts, Outcome,
         ConnectionState, ConnectErrorKind
<1>6. ASSUME NEW c \in Callers, ConnectNoCandidates(c) PROVE SessionTypeOK'
  BY <1>6
     DEF ConnectNoCandidates, SetStateAndReturn, Return, accepts, Outcome,
         ConnectionState, ConnectErrorKind
<1>7. ASSUME NEW c \in Callers, ConnectReserve(c) PROVE SessionTypeOK'
  BY <1>7
     DEF ConnectReserve, SetStateAndContinue, Return, accepts, Outcome,
         ConnectionState, ConnectErrorKind
<1>8. ASSUME NEW c \in Callers, ConnectRefuseJump(c) PROVE SessionTypeOK'
  BY <1>8
     DEF ConnectRefuseJump, SetStateAndReturn, Return, accepts, Outcome,
         ConnectionState, ConnectErrorKind
<1>9. ASSUME NEW c \in Callers, ConnectDialled(c) PROVE SessionTypeOK'
  BY <1>9
     DEF ConnectDialled
<1>10. ASSUME NEW c \in Callers, ConnectNextCandidate(c) PROVE SessionTypeOK'
  BY <1>10
     DEF ConnectNextCandidate, SetStateAndContinue, Return, accepts, Outcome,
         ConnectionState, ConnectErrorKind
<1>11. ASSUME NEW c \in Callers, ConnectExhausted(c) PROVE SessionTypeOK'
  BY <1>11
     DEF ConnectExhausted, SetStateAndReturn, Return, accepts, Outcome,
         ConnectionState, ConnectErrorKind
<1>12. ASSUME NEW c \in Callers, ConnectFatal(c) PROVE SessionTypeOK'
  BY <1>12
     DEF ConnectFatal, SetStateAndReturn, Return, accepts, Outcome,
         ConnectionState, ConnectErrorKind
<1>13. ASSUME NEW c \in Callers, ConnectAttach(c) PROVE SessionTypeOK'
  BY <1>13
     DEF ConnectAttach, Return, Outcome, ConnectErrorKind, PumpPC
<1>14. ASSUME NEW c \in Callers, ConnectReady(c) PROVE SessionTypeOK'
  BY <1>14
     DEF ConnectReady, SetStateAndReturn, Return, accepts, Outcome,
         ConnectionState, ConnectErrorKind
<1>15. ASSUME NEW c \in Callers, DisconnectLock(c) PROVE SessionTypeOK'
  BY <1>15
     DEF DisconnectLock
<1>16. ASSUME NEW c \in Callers, DisconnectClose(c) PROVE SessionTypeOK'
  BY <1>16
     DEF DisconnectClose
<1>17. ASSUME NEW c \in Callers, DisconnectFinish(c) PROVE SessionTypeOK'
  BY <1>17
     DEF DisconnectFinish, SetStateAndReturn, Return, accepts, Outcome,
         ConnectionState, ConnectErrorKind
<1>18. ASSUME NEW g \in Generation, TransportDrop(g) PROVE SessionTypeOK'
  BY <1>18
     DEF TransportDrop, PumpPC
<1>19. ASSUME NEW g \in Generation, PumpReceive(g) PROVE SessionTypeOK'
  BY <1>19
     DEF PumpReceive, PumpGoto, PumpPC
<1>20. ASSUME NEW g \in Generation, PumpDeliver(g) PROVE SessionTypeOK'
  BY <1>20
     DEF PumpDeliver, PumpGoto, PumpPC
<1>21. ASSUME NEW g \in Generation, PumpReadState(g) PROVE SessionTypeOK'
  BY <1>21
     DEF PumpReadState, PumpGoto, PumpPC
<1>22. ASSUME NEW g \in Generation, PumpLoadGeneration(g) PROVE SessionTypeOK'
  BY <1>22
     DEF PumpLoadGeneration, PumpGoto, PumpPC
<1>23. ASSUME NEW g \in Generation, PumpCommit(g) PROVE SessionTypeOK'
  BY <1>23
     DEF PumpCommit, PumpGoto, accepts, PumpPC, ConnectionState
<1>24. ASSUME UNCHANGED sessionVars PROVE SessionTypeOK'
  BY <1>24 DEF sessionVars
<1> QED
  BY <1>1, <1>2, <1>3, <1>4, <1>5, <1>6, <1>7, <1>8, <1>9, <1>10, <1>11,
     <1>12, <1>13, <1>14, <1>15, <1>16, <1>17, <1>18, <1>19, <1>20, <1>21,
     <1>22, <1>23, <1>24
     DEF StartCall, OtherStep, CallStep, PumpStep

(* Every step preserves the relation of guard, state and generation, one   *)
(* case per action.                                                        *)
LEMMA NextSessionInv ==
    ASSUME IInv, [StartCall \/ OtherStep]_sessionVars
    PROVE  SessionInv'
<1> USE CallersAssumption, TransitionTable
<1> USE DEF IInv, SessionTypeOK, SessionInv, HolderInCall, StateFollowsHolder,
            NeverStrandedMidConnect, ReadyIsCurrent, GuardedWritesAccepted,
            controllerVars, transportVars, callerVars
<1>1. ASSUME NEW c \in Callers, Connect(c) PROVE SessionInv'
  BY <1>1
     DEF Connect
<1>2. ASSUME NEW c \in Callers, Disconnect(c) PROVE SessionInv'
  BY <1>2
     DEF Disconnect
<1>3. ASSUME NEW c \in Callers, mark_reconnecting(c) PROVE SessionInv'
  BY <1>3
     DEF mark_reconnecting, Mark, MarkAccepted, accepts, ConnectionState
<1>4. ASSUME NEW c \in Callers, mark_waiting_for_credential(c) PROVE SessionInv'
  BY <1>4
     DEF mark_waiting_for_credential, Mark, MarkAccepted, accepts,
         ConnectionState
<1>5. ASSUME NEW c \in Callers, ConnectLock(c) PROVE SessionInv'
  BY <1>5
     DEF ConnectLock, SetStateAndContinue, Return, accepts, ConnectionState
<1>6. ASSUME NEW c \in Callers, ConnectNoCandidates(c) PROVE SessionInv'
  BY <1>6
     DEF ConnectNoCandidates, SetStateAndReturn, Return, accepts,
         ConnectionState
<1>7. ASSUME NEW c \in Callers, ConnectReserve(c) PROVE SessionInv'
  BY <1>7
     DEF ConnectReserve, SetStateAndContinue, Return, accepts, ConnectionState
<1>8. ASSUME NEW c \in Callers, ConnectRefuseJump(c) PROVE SessionInv'
  BY <1>8
     DEF ConnectRefuseJump, SetStateAndReturn, Return, accepts,
         ConnectionState
<1>9. ASSUME NEW c \in Callers, ConnectDialled(c) PROVE SessionInv'
  BY <1>9
     DEF ConnectDialled
<1>10. ASSUME NEW c \in Callers, ConnectNextCandidate(c) PROVE SessionInv'
  BY <1>10
     DEF ConnectNextCandidate, SetStateAndContinue, Return, accepts,
         ConnectionState
<1>11. ASSUME NEW c \in Callers, ConnectExhausted(c) PROVE SessionInv'
  BY <1>11
     DEF ConnectExhausted, SetStateAndReturn, Return, accepts, ConnectionState
<1>12. ASSUME NEW c \in Callers, ConnectFatal(c) PROVE SessionInv'
  BY <1>12
     DEF ConnectFatal, SetStateAndReturn, Return, accepts, ConnectionState
<1>13. ASSUME NEW c \in Callers, ConnectAttach(c) PROVE SessionInv'
  BY <1>13
     DEF ConnectAttach, Return
<1>14. ASSUME NEW c \in Callers, ConnectReady(c) PROVE SessionInv'
  BY <1>14
     DEF ConnectReady, SetStateAndReturn, Return, accepts, ConnectionState
<1>15. ASSUME NEW c \in Callers, DisconnectLock(c) PROVE SessionInv'
  BY <1>15
     DEF DisconnectLock
<1>16. ASSUME NEW c \in Callers, DisconnectClose(c) PROVE SessionInv'
  BY <1>16
     DEF DisconnectClose
<1>17. ASSUME NEW c \in Callers, DisconnectFinish(c) PROVE SessionInv'
  BY <1>17
     DEF DisconnectFinish, SetStateAndReturn, Return, accepts, ConnectionState
<1>18. ASSUME NEW g \in Generation, TransportDrop(g) PROVE SessionInv'
  BY <1>18
     DEF TransportDrop
<1>19. ASSUME NEW g \in Generation, PumpReceive(g) PROVE SessionInv'
  BY <1>19
     DEF PumpReceive, PumpGoto
<1>20. ASSUME NEW g \in Generation, PumpDeliver(g) PROVE SessionInv'
  BY <1>20
     DEF PumpDeliver, PumpGoto
<1>21. ASSUME NEW g \in Generation, PumpReadState(g) PROVE SessionInv'
  BY <1>21
     DEF PumpReadState, PumpGoto
<1>22. ASSUME NEW g \in Generation, PumpLoadGeneration(g) PROVE SessionInv'
  BY <1>22
     DEF PumpLoadGeneration, PumpGoto
<1>23. ASSUME NEW g \in Generation, PumpCommit(g) PROVE SessionInv'
  BY <1>23
     DEF PumpCommit, PumpGoto, accepts, ConnectionState
<1>24. ASSUME UNCHANGED sessionVars PROVE SessionInv'
  BY <1>24 DEF sessionVars
<1> QED
  BY <1>1, <1>2, <1>3, <1>4, <1>5, <1>6, <1>7, <1>8, <1>9, <1>10, <1>11,
     <1>12, <1>13, <1>14, <1>15, <1>16, <1>17, <1>18, <1>19, <1>20, <1>21,
     <1>22, <1>23, <1>24
     DEF StartCall, OtherStep, CallStep, PumpStep

(* Whatever its callers do, a session keeps the invariant. *)
THEOREM SessionInvariant == SessionSafety => []IInv
<1>1. IInv /\ [StartCall \/ OtherStep]_sessionVars => IInv'
  BY NextTypeOK, NextSessionInv DEF IInv
<1> QED
  BY <1>1, InitIInv, PTL DEF SessionSafety

(* SessionSpec only bounds the calls that start. *)
LEMMA SpecIsSafe == SessionSpec => SessionSafety
<1>1. [SessionNext]_sessionVars => [StartCall \/ OtherStep]_sessionVars
  BY DEF SessionNext
<1> QED
  BY <1>1, PTL DEF SessionSpec, SessionSafety

(* The variables of one host's session keep their types under every        *)
(* interleaving of connects, disconnects, marks and pumps.                 *)
THEOREM SessionTypeCorrect == SessionSpec => []SessionTypeOK
BY SessionInvariant, SpecIsSafe, PTL DEF IInv

(* No connect_with_jump_auth_typed or disconnect ever fails because a      *)
(* set_state of its own is refused or its generation is stale at attach.   *)
THEOREM GuardedWritesAlwaysAccepted == SessionSpec => []GuardedWritesAccepted
BY SessionInvariant, SpecIsSafe, PTL DEF IInv, SessionInv

(* A session that is Ready outside a guarded call has its newest transport *)
(* installed: attach and disconnect never leave an older one there.        *)
THEOREM ReadyAlwaysCurrent == SessionSpec => []ReadyIsCurrent
BY SessionInvariant, SpecIsSafe, PTL DEF IInv, SessionInv

(* No error path of connect or disconnect leaves the session in a          *)
(* connecting state once connect_guard is released.                        *)
THEOREM NeverStranded == SessionSpec => []NeverStrandedMidConnect
BY SessionInvariant, SpecIsSafe, PTL DEF IInv, SessionInv

(* While a connect is under way neither a pump nor a mark_* call moves the *)
(* state: the write that leaves ResolvingAddress or Connecting is made by  *)
(* the holder of connect_guard, as it advances in its call.                *)
THEOREM ConnectingLeftByHolder == SessionSpec => OnlyHolderLeavesConnecting
<1> DEFINE Moved == state \in {"ResolvingAddress", "Connecting"} /\ state' # state
<1> DEFINE ByHolder == \E c \in Callers : guard = c /\ pc'[c] # pc[c]
<1>1. IInv /\ [StartCall \/ OtherStep]_sessionVars => [Moved => ByHolder]_sessionVars
  <2> SUFFICES ASSUME IInv, StartCall \/ OtherStep, Moved PROVE ByHolder
    OBVIOUS
  <2> USE DEF controllerVars, transportVars, callerVars
  <2>1. ASSUME NEW c \in Callers, CallStep(c) PROVE ByHolder
    <3>1. CASE ConnectLock(c) \/ DisconnectLock(c)
      BY <3>1, CallersAssumption
         DEF ConnectLock, DisconnectLock, IInv, SessionInv,
             NeverStrandedMidConnect
    <3>2. CASE ~(ConnectLock(c) \/ DisconnectLock(c))
      <4>1. guard = c
        BY <2>1, <3>2
           DEF CallStep, IInv, SessionInv, HolderInCall, ConnectNoCandidates,
               ConnectReserve, ConnectRefuseJump, ConnectDialled,
               ConnectNextCandidate, ConnectExhausted, ConnectFatal,
               ConnectAttach, ConnectReady, DisconnectClose, DisconnectFinish
      <4>2. pc'[c] # pc[c]
        BY <2>1, <3>2
           DEF CallStep, ConnectNoCandidates, IInv, SessionInv,
               StateFollowsHolder, SessionTypeOK,
               ConnectReserve, ConnectRefuseJump, ConnectDialled,
               ConnectNextCandidate, ConnectExhausted, ConnectFatal,
               ConnectAttach, ConnectReady, DisconnectClose, DisconnectFinish,
               SetStateAndReturn, SetStateAndContinue, Return
      <4> QED
        BY <4>1, <4>2
    <3> QED
      BY <3>1, <3>2
  <2>2. ASSUME NEW c \in Callers, Connect(c) \/ Disconnect(c) PROVE FALSE
    BY <2>2 DEF Connect, Disconnect
  <2>3. ASSUME NEW c \in Callers,
               mark_reconnecting(c) \/ mark_waiting_for_credential(c)
        PROVE  FALSE
    BY <2>3, TransitionTable
       DEF mark_reconnecting, mark_waiting_for_credential, Mark, MarkAccepted,
           accepts, IInv, SessionTypeOK, ConnectionState
  <2>4. ASSUME NEW g \in Generation, TransportDrop(g) \/ PumpStep(g)
        PROVE  FALSE
    BY <2>4, TransitionTable
       DEF TransportDrop, PumpStep, PumpReceive, PumpDeliver, PumpReadState,
           PumpLoadGeneration, PumpCommit, PumpGoto, accepts, IInv,
           SessionTypeOK, ConnectionState
  <2> QED
    BY <2>1, <2>2, <2>3, <2>4 DEF StartCall, OtherStep
<1> QED
  BY <1>1, SessionInvariant, SpecIsSafe, PTL DEF SessionSafety,
     OnlyHolderLeavesConnecting

(* Each step of the session is the contract's step that its name suggests, *)
(* or none at all.                                                         *)
LEMMA NextImplementsContract ==
    ASSUME IInv, [StartCall \/ OtherStep]_sessionVars
    PROVE  [Contract!Next]_(Contract!contractVars)
<1> USE CallersAssumption, TransitionTable
<1> USE DEF IInv, SessionTypeOK, SessionInv, HolderInCall, StateFollowsHolder,
            NeverStrandedMidConnect, controllerVars, transportVars, callerVars,
            Phase, Contract!contractVars
<1>1. ASSUME NEW c \in Callers, Connect(c)
      PROVE  UNCHANGED Contract!contractVars
  BY <1>1
     DEF Connect
<1>2. ASSUME NEW c \in Callers, Disconnect(c)
      PROVE  UNCHANGED Contract!contractVars
  BY <1>2
     DEF Disconnect
<1>3. ASSUME NEW c \in Callers, mark_reconnecting(c)
      PROVE  Contract!Reassess \/ UNCHANGED Contract!contractVars
  BY <1>3
     DEF mark_reconnecting, Mark, MarkAccepted, accepts, ConnectionState,
         Contract!Reassess
<1>4. ASSUME NEW c \in Callers, mark_waiting_for_credential(c)
      PROVE  Contract!Reassess \/ UNCHANGED Contract!contractVars
  BY <1>4
     DEF mark_waiting_for_credential, Mark, MarkAccepted, accepts,
         ConnectionState, Contract!Reassess
<1>5. ASSUME NEW c \in Callers, ConnectLock(c)
      PROVE  Contract!Open
  BY <1>5
     DEF ConnectLock, SetStateAndContinue, Return, accepts, ConnectionState,
         Contract!Open
<1>6. ASSUME NEW c \in Callers, ConnectNoCandidates(c)
      PROVE  Contract!GiveUp
  BY <1>6
     DEF ConnectNoCandidates, SetStateAndReturn, Return, accepts,
         ConnectionState, Contract!GiveUp
<1>7. ASSUME NEW c \in Callers, ConnectReserve(c)
      PROVE  Contract!TakeTicket
  BY <1>7
     DEF ConnectReserve, SetStateAndContinue, Return, accepts,
         ConnectionState, Contract!TakeTicket
<1>8. ASSUME NEW c \in Callers, ConnectRefuseJump(c)
      PROVE  Contract!GiveUp
  BY <1>8
     DEF ConnectRefuseJump, SetStateAndReturn, Return, accepts,
         ConnectionState, Contract!GiveUp
<1>9. ASSUME NEW c \in Callers, ConnectDialled(c)
      PROVE  UNCHANGED Contract!contractVars
  BY <1>9
     DEF ConnectDialled
<1>10. ASSUME NEW c \in Callers, ConnectNextCandidate(c)
      PROVE  UNCHANGED Contract!contractVars
  BY <1>10
     DEF ConnectNextCandidate, SetStateAndContinue, Return, accepts,
         ConnectionState
<1>11. ASSUME NEW c \in Callers, ConnectExhausted(c)
      PROVE  Contract!GiveUp
  BY <1>11
     DEF ConnectExhausted, SetStateAndReturn, Return, accepts,
         ConnectionState, Contract!GiveUp
<1>12. ASSUME NEW c \in Callers, ConnectFatal(c)
      PROVE  Contract!GiveUp
  BY <1>12
     DEF ConnectFatal, SetStateAndReturn, Return, accepts, ConnectionState,
         Contract!GiveUp
<1>13. ASSUME NEW c \in Callers, ConnectAttach(c)
      PROVE  Contract!Install
  BY <1>13
     DEF ConnectAttach, Return, Contract!Install
<1>14. ASSUME NEW c \in Callers, ConnectReady(c)
      PROVE  Contract!Succeed
  BY <1>14
     DEF ConnectReady, SetStateAndReturn, Return, accepts, ConnectionState,
         Contract!Succeed
<1>15. ASSUME NEW c \in Callers, DisconnectLock(c)
      PROVE  Contract!Close
  BY <1>15
     DEF DisconnectLock, Contract!Close
<1>16. ASSUME NEW c \in Callers, DisconnectClose(c)
      PROVE  UNCHANGED Contract!contractVars
  BY <1>16
     DEF DisconnectClose
<1>17. ASSUME NEW c \in Callers, DisconnectFinish(c)
      PROVE  UNCHANGED Contract!contractVars
  BY <1>17
     DEF DisconnectFinish, SetStateAndReturn, Return, accepts, ConnectionState
<1>18. ASSUME NEW g \in Generation, TransportDrop(g)
      PROVE  UNCHANGED Contract!contractVars
  BY <1>18
     DEF TransportDrop
<1>19. ASSUME NEW g \in Generation, PumpReceive(g)
      PROVE  UNCHANGED Contract!contractVars
  BY <1>19
     DEF PumpReceive, PumpGoto
<1>20. ASSUME NEW g \in Generation, PumpDeliver(g)
      PROVE  UNCHANGED Contract!contractVars
  BY <1>20
     DEF PumpDeliver, PumpGoto
<1>21. ASSUME NEW g \in Generation, PumpReadState(g)
      PROVE  UNCHANGED Contract!contractVars
  BY <1>21
     DEF PumpReadState, PumpGoto
<1>22. ASSUME NEW g \in Generation, PumpLoadGeneration(g)
      PROVE  UNCHANGED Contract!contractVars
  BY <1>22
     DEF PumpLoadGeneration, PumpGoto
<1>23. ASSUME NEW g \in Generation, PumpCommit(g)
      PROVE  Contract!Reassess \/ UNCHANGED Contract!contractVars
  BY <1>23
     DEF PumpCommit, PumpGoto, accepts, ConnectionState, Contract!Reassess
<1>24. ASSUME UNCHANGED sessionVars PROVE UNCHANGED Contract!contractVars
  BY <1>24 DEF sessionVars
<1> QED
  BY <1>1, <1>2, <1>3, <1>4, <1>5, <1>6, <1>7, <1>8, <1>9, <1>10, <1>11,
     <1>12, <1>13, <1>14, <1>15, <1>16, <1>17, <1>18, <1>19, <1>20, <1>21,
     <1>22, <1>23, <1>24
     DEF StartCall, OtherStep, CallStep, PumpStep, Contract!Next

(* A session implements ConnectionContract: whatever the interleaving of   *)
(* calls, marks, drops and pumps, it becomes Ready only through a connect, *)
(* on the transport of its newest generation.                              *)
THEOREM SessionImplementsContract == SessionSpec => ImplementsContract
<1>1. SessionInit => Contract!Init
  BY DEF SessionInit, Contract!Init, Phase
<1> QED
  BY <1>1, NextImplementsContract, SessionInvariant, SpecIsSafe, PTL
     DEF SessionSafety, ImplementsContract, Contract!Spec

-----------------------------------------------------------------------------
(* The supervisor and the commands *)

(* Every step of the composition is a step of the session or leaves the    *)
(* session alone.                                                          *)
LEMMA NextIsSessionStep ==
    [Next]_vars => [StartCall \/ OtherStep]_sessionVars
<1> SUFFICES ASSUME [Next]_vars PROVE [StartCall \/ OtherStep]_sessionVars
  OBVIOUS
<1>1. ASSUME NEW u \in Users, ConnectHost(u)
      PROVE  [StartCall \/ OtherStep]_sessionVars
  BY <1>1 DEF ConnectHost, sessionVars
<1>2. ASSUME NEW u \in Users, PreparedUser(u)
      PROVE  [StartCall \/ OtherStep]_sessionVars
  BY <1>2, TasksAssumption DEF PreparedUser, StartCall
<1>3. ASSUME NEW u \in Users, PrepareFailedUser(u)
      PROVE  [StartCall \/ OtherStep]_sessionVars
  BY <1>3 DEF PrepareFailedUser, sessionVars
<1>4. ASSUME NEW u \in Users, ConnectHostReturns(u)
      PROVE  [StartCall \/ OtherStep]_sessionVars
  BY <1>4 DEF ConnectHostReturns, sessionVars
<1>5. ASSUME NEW u \in Users, DropToken(u)
      PROVE  [StartCall \/ OtherStep]_sessionVars
  BY <1>5 DEF DropToken, sessionVars
<1>6. ASSUME NEW u \in Users, DropProfile(u)
      PROVE  [StartCall \/ OtherStep]_sessionVars
  BY <1>6, TasksAssumption DEF DropProfile, StartCall
<1>7. ASSUME NEW u \in Users, DisconnectHostReturns(u)
      PROVE  [StartCall \/ OtherStep]_sessionVars
  BY <1>7 DEF DisconnectHostReturns, sessionVars
<1>8. ASSUME NEW u \in Users, DeleteRecord(u)
      PROVE  [StartCall \/ OtherStep]_sessionVars
  BY <1>8 DEF DeleteRecord, sessionVars
<1>9. ASSUME NEW t \in Attempts, AttemptRefused(t)
      PROVE  [StartCall \/ OtherStep]_sessionVars
  BY <1>9 DEF AttemptRefused, sessionVars
<1>10. ASSUME NEW t \in Attempts, AttemptLoad(t)
      PROVE  [StartCall \/ OtherStep]_sessionVars
  BY <1>10 DEF AttemptLoad, sessionVars
<1>11. ASSUME NEW t \in Attempts, PreparedAttempt(t)
      PROVE  [StartCall \/ OtherStep]_sessionVars
  BY <1>11, TasksAssumption DEF PreparedAttempt, StartCall
<1>12. ASSUME NEW t \in Attempts, PrepareFailedAttempt(t)
      PROVE  [StartCall \/ OtherStep]_sessionVars
  BY <1>12 DEF PrepareFailedAttempt, sessionVars
<1>13. ASSUME NEW t \in Attempts, AttemptConnectReturns(t)
      PROVE  [StartCall \/ OtherStep]_sessionVars
  BY <1>13 DEF AttemptConnectReturns, sessionVars
<1>14. ASSUME NEW t \in Attempts, AttemptStillActive(t)
      PROVE  [StartCall \/ OtherStep]_sessionVars
  BY <1>14 DEF AttemptStillActive, sessionVars
<1>15. ASSUME NEW t \in Attempts, AttemptStillReady(t)
      PROVE  [StartCall \/ OtherStep]_sessionVars
  BY <1>15 DEF AttemptStillReady, sessionVars
<1>16. ASSUME NEW t \in Attempts, AttemptCancels(t)
      PROVE  [StartCall \/ OtherStep]_sessionVars
  BY <1>16, TasksAssumption DEF AttemptCancels, StartCall
<1>17. ASSUME NEW t \in Attempts, AttemptCancelled(t)
      PROVE  [StartCall \/ OtherStep]_sessionVars
  BY <1>17 DEF AttemptCancelled, sessionVars
<1>18. ASSUME NEW t \in Attempts, AttemptRelease(t)
      PROVE  [StartCall \/ OtherStep]_sessionVars
  BY <1>18 DEF AttemptRelease, sessionVars
<1>19. ASSUME NEW t \in Attempts, AttemptSettle(t)
      PROVE  [StartCall \/ OtherStep]_sessionVars
  BY <1>19 DEF AttemptSettle, sessionVars
<1>20. ASSUME NEW t \in Attempts, AttemptMark(t)
      PROVE  [StartCall \/ OtherStep]_sessionVars
  BY <1>20, TasksAssumption DEF AttemptMark, OtherStep
<1>21. ASSUME NEW t \in Attempts, AttemptReschedule(t)
      PROVE  [StartCall \/ OtherStep]_sessionVars
  BY <1>21 DEF AttemptReschedule, sessionVars
<1>22. ASSUME NEW t \in Attempts, TickAcquire(t)
      PROVE  [StartCall \/ OtherStep]_sessionVars
  BY <1>22 DEF TickAcquire, sessionVars
<1>23. ASSUME Wake
      PROVE  [StartCall \/ OtherStep]_sessionVars
  BY <1>23 DEF Wake, sessionVars
<1>24. ASSUME BackoffElapses
      PROVE  [StartCall \/ OtherStep]_sessionVars
  BY <1>24 DEF BackoffElapses, sessionVars
<1>25. ASSUME TickSnapshot
      PROVE  [StartCall \/ OtherStep]_sessionVars
  BY <1>25 DEF TickSnapshot, sessionVars
<1>26. ASSUME TickState
      PROVE  [StartCall \/ OtherStep]_sessionVars
  BY <1>26 DEF TickState, sessionVars
<1>27. ASSUME TickSkip
      PROVE  [StartCall \/ OtherStep]_sessionVars
  BY <1>27 DEF TickSkip, sessionVars
<1>28. ASSUME TickBound
      PROVE  [StartCall \/ OtherStep]_sessionVars
  BY <1>28 DEF TickBound, sessionVars
<1>29. ASSUME SessionStep
      PROVE  [StartCall \/ OtherStep]_sessionVars
  BY <1>29, TasksAssumption DEF SessionStep, OtherStep
<1>30. ASSUME UNCHANGED vars
      PROVE  [StartCall \/ OtherStep]_sessionVars
  BY <1>30 DEF vars, sessionVars
<1> QED
  BY <1>1, <1>2, <1>3, <1>4, <1>5, <1>6, <1>7, <1>8, <1>9, <1>10, <1>11,
      <1>12, <1>13, <1>14, <1>15, <1>16, <1>17, <1>18, <1>19, <1>20, <1>21,
      <1>22, <1>23, <1>24, <1>25, <1>26, <1>27, <1>28, <1>29, <1>30
     DEF Next, UserStep, AttemptStep, Tick

(* The commands, the supervisor and the reconnect attempts use the session *)
(* only as SessionLifecycle says it can be used.                           *)
LEMMA SupervisorUsesSession == Spec => SessionSafety
BY NextIsSessionStep, PTL DEF Spec, Init, SessionSafety

(* What SessionLifecycle promises therefore holds in the desktop: writes   *)
(* of guarded calls are accepted, Ready means the newest transport, and no *)
(* session is stranded in a connecting state.                              *)
THEOREM SupervisedSessionIsSafe ==
    Spec => [](GuardedWritesAccepted /\ ReadyIsCurrent /\ NeverStrandedMidConnect)
BY SupervisorUsesSession, SessionInvariant, PTL DEF IInv, SessionInv

(* Every step preserves the types of the supervisor's tables. *)
LEMMA NextSupervisorTypeOK ==
    ASSUME SupervisorTypeOK, [Next]_vars
    PROVE  SupervisorTypeOK'
<1>0. SessionTypeOK'
  BY NextIsSessionStep, NextTypeOK DEF SupervisorTypeOK
<1> USE <1>0, TasksAssumption, CommandsAssumption
<1> USE DEF SupervisorTypeOK, Goto, GiveCommand, given, Fails
<1>1. ASSUME NEW u \in Users, ConnectHost(u)
      PROVE  SupervisorTypeOK'
  BY <1>1 DEF ConnectHost, UserTask
<1>2. ASSUME NEW u \in Users, PreparedUser(u)
      PROVE  SupervisorTypeOK'
  BY <1>2 DEF PreparedUser, UserTask
<1>3. ASSUME NEW u \in Users, PrepareFailedUser(u)
      PROVE  SupervisorTypeOK'
  BY <1>3 DEF PrepareFailedUser, UserTask
<1>4. ASSUME NEW u \in Users, ConnectHostReturns(u)
      PROVE  SupervisorTypeOK'
  BY <1>4 DEF ConnectHostReturns, UserTask
<1>5. ASSUME NEW u \in Users, DropToken(u)
      PROVE  SupervisorTypeOK'
  <2>1. PICK next \in {"untokened", "undeleted"} : Goto(u, "idle", next)
    BY <1>5 DEF DropToken
  <2>2. task' \in [Callers -> UserTask \cup AttemptTask]
    BY <2>1 DEF UserTask
  <2>3. commands' \in 0..MaxCommands
    BY <1>5 DEF DropToken
  <2> QED
    BY <1>5, <2>2, <2>3 DEF DropToken
<1>6. ASSUME NEW u \in Users, DropProfile(u)
      PROVE  SupervisorTypeOK'
  BY <1>6 DEF DropProfile, UserTask
<1>7. ASSUME NEW u \in Users, DisconnectHostReturns(u)
      PROVE  SupervisorTypeOK'
  BY <1>7 DEF DisconnectHostReturns, UserTask
<1>8. ASSUME NEW u \in Users, DeleteRecord(u)
      PROVE  SupervisorTypeOK'
  BY <1>8 DEF DeleteRecord, UserTask
<1>9. ASSUME NEW t \in Attempts, AttemptRefused(t)
      PROVE  SupervisorTypeOK'
  BY <1>9 DEF AttemptRefused, AttemptTask, Report, ConnectErrorKind
<1>10. ASSUME NEW t \in Attempts, AttemptLoad(t)
      PROVE  SupervisorTypeOK'
  BY <1>10 DEF AttemptLoad, AttemptTask
<1>11. ASSUME NEW t \in Attempts, PreparedAttempt(t)
      PROVE  SupervisorTypeOK'
  BY <1>11 DEF PreparedAttempt, AttemptTask
<1>12. ASSUME NEW t \in Attempts, PrepareFailedAttempt(t)
      PROVE  SupervisorTypeOK'
  BY <1>12 DEF PrepareFailedAttempt, AttemptTask, Report, ConnectErrorKind
<1>13. ASSUME NEW t \in Attempts, AttemptConnectReturns(t)
      PROVE  SupervisorTypeOK'
  BY <1>13 DEF AttemptConnectReturns, AttemptTask, Report, ConnectErrorKind
<1>14. ASSUME NEW t \in Attempts, AttemptStillActive(t)
      PROVE  SupervisorTypeOK'
  BY <1>14 DEF AttemptStillActive, AttemptTask
<1>15. ASSUME NEW t \in Attempts, AttemptStillReady(t)
      PROVE  SupervisorTypeOK'
  BY <1>15 DEF AttemptStillReady, AttemptTask, Report, ConnectErrorKind
<1>16. ASSUME NEW t \in Attempts, AttemptCancels(t)
      PROVE  SupervisorTypeOK'
  BY <1>16 DEF AttemptCancels, AttemptTask
<1>17. ASSUME NEW t \in Attempts, AttemptCancelled(t)
      PROVE  SupervisorTypeOK'
  BY <1>17 DEF AttemptCancelled, AttemptTask, Report, ConnectErrorKind
<1>18. ASSUME NEW t \in Attempts, AttemptRelease(t)
      PROVE  SupervisorTypeOK'
  BY <1>18 DEF AttemptRelease, AttemptTask
<1>19. ASSUME NEW t \in Attempts, AttemptSettle(t)
      PROVE  SupervisorTypeOK'
  BY <1>19 DEF AttemptSettle, AttemptTask, Report, ConnectErrorKind
<1>20. ASSUME NEW t \in Attempts, AttemptMark(t)
      PROVE  SupervisorTypeOK'
  BY <1>20 DEF AttemptMark, AttemptTask, Report, ConnectErrorKind
<1>21. ASSUME NEW t \in Attempts, AttemptReschedule(t)
      PROVE  SupervisorTypeOK'
  BY <1>21 DEF AttemptReschedule, AttemptTask, Report, ConnectErrorKind, retryable
<1>22. ASSUME NEW t \in Attempts, TickAcquire(t)
      PROVE  SupervisorTypeOK'
  BY <1>22 DEF TickAcquire, AttemptTask
<1>23. ASSUME Wake
      PROVE  SupervisorTypeOK'
  BY <1>23 DEF Wake
<1>24. ASSUME BackoffElapses
      PROVE  SupervisorTypeOK'
  BY <1>24 DEF BackoffElapses
<1>25. ASSUME TickSnapshot
      PROVE  SupervisorTypeOK'
  BY <1>25 DEF TickSnapshot
<1>26. ASSUME TickState
      PROVE  SupervisorTypeOK'
  BY <1>26 DEF TickState
<1>27. ASSUME TickSkip
      PROVE  SupervisorTypeOK'
  BY <1>27 DEF TickSkip
<1>28. ASSUME TickBound
      PROVE  SupervisorTypeOK'
  BY <1>28 DEF TickBound
<1>29. ASSUME SessionStep
      PROVE  SupervisorTypeOK'
  BY <1>29 DEF SessionStep, supervisorVars
<1>30. ASSUME UNCHANGED vars
      PROVE  SupervisorTypeOK'
  BY <1>30 DEF vars, supervisorVars
<1> QED
  BY <1>1, <1>2, <1>3, <1>4, <1>5, <1>6, <1>7, <1>8, <1>9, <1>10, <1>11,
      <1>12, <1>13, <1>14, <1>15, <1>16, <1>17, <1>18, <1>19, <1>20, <1>21,
      <1>22, <1>23, <1>24, <1>25, <1>26, <1>27, <1>28, <1>29, <1>30
     DEF Next, UserStep, AttemptStep, Tick

(* The token and the attempts in flight, as an inductive invariant: until  *)
(* a disconnect or delete takes the token away, exactly the one attempt in *)
(* flight owns it.                                                         *)
TokenInv ==
    /\ TokenHasAttempt
    /\ SingleFlightUntilDisconnect
    /\ ~parted /\ InFlight # {} => token

(* Every step preserves the ownership of the token, one case per action.   *)
LEMMA NextTokenInv ==
    ASSUME SupervisorTypeOK, TokenInv, [Next]_vars
    PROVE  TokenInv'
<1> USE TasksAssumption
<1> USE DEF SupervisorTypeOK, TokenInv, TokenHasAttempt,
            SingleFlightUntilDisconnect, InFlight, Ended, Goto, given, Fails
<1>1. ASSUME NEW u \in Users, ConnectHost(u)
      PROVE  TokenInv'
  BY <1>1 DEF ConnectHost
<1>2. ASSUME NEW u \in Users, PreparedUser(u)
      PROVE  TokenInv'
  BY <1>2 DEF PreparedUser
<1>3. ASSUME NEW u \in Users, PrepareFailedUser(u)
      PROVE  TokenInv'
  BY <1>3 DEF PrepareFailedUser
<1>4. ASSUME NEW u \in Users, ConnectHostReturns(u)
      PROVE  TokenInv'
  BY <1>4 DEF ConnectHostReturns
<1>5. ASSUME NEW u \in Users, DropToken(u)
      PROVE  TokenInv'
  BY <1>5 DEF DropToken
<1>6. ASSUME NEW u \in Users, DropProfile(u)
      PROVE  TokenInv'
  BY <1>6 DEF DropProfile
<1>7. ASSUME NEW u \in Users, DisconnectHostReturns(u)
      PROVE  TokenInv'
  BY <1>7 DEF DisconnectHostReturns
<1>8. ASSUME NEW u \in Users, DeleteRecord(u)
      PROVE  TokenInv'
  BY <1>8 DEF DeleteRecord
<1>9. ASSUME NEW t \in Attempts, AttemptRefused(t)
      PROVE  TokenInv'
  BY <1>9 DEF AttemptRefused
<1>10. ASSUME NEW t \in Attempts, AttemptLoad(t)
      PROVE  TokenInv'
  BY <1>10 DEF AttemptLoad
<1>11. ASSUME NEW t \in Attempts, PreparedAttempt(t)
      PROVE  TokenInv'
  BY <1>11 DEF PreparedAttempt
<1>12. ASSUME NEW t \in Attempts, PrepareFailedAttempt(t)
      PROVE  TokenInv'
  BY <1>12 DEF PrepareFailedAttempt
<1>13. ASSUME NEW t \in Attempts, AttemptConnectReturns(t)
      PROVE  TokenInv'
  BY <1>13 DEF AttemptConnectReturns
<1>14. ASSUME NEW t \in Attempts, AttemptStillActive(t)
      PROVE  TokenInv'
  BY <1>14 DEF AttemptStillActive
<1>15. ASSUME NEW t \in Attempts, AttemptStillReady(t)
      PROVE  TokenInv'
  BY <1>15 DEF AttemptStillReady
<1>16. ASSUME NEW t \in Attempts, AttemptCancels(t)
      PROVE  TokenInv'
  BY <1>16 DEF AttemptCancels
<1>17. ASSUME NEW t \in Attempts, AttemptCancelled(t)
      PROVE  TokenInv'
  BY <1>17 DEF AttemptCancelled
<1>18. ASSUME NEW t \in Attempts, AttemptRelease(t)
      PROVE  TokenInv'
  BY <1>18 DEF AttemptRelease
<1>19. ASSUME NEW t \in Attempts, AttemptSettle(t)
      PROVE  TokenInv'
  BY <1>19 DEF AttemptSettle
<1>20. ASSUME NEW t \in Attempts, AttemptMark(t)
      PROVE  TokenInv'
  BY <1>20 DEF AttemptMark
<1>21. ASSUME NEW t \in Attempts, AttemptReschedule(t)
      PROVE  TokenInv'
  BY <1>21 DEF AttemptReschedule
<1>22. ASSUME NEW t \in Attempts, TickAcquire(t)
      PROVE  TokenInv'
  BY <1>22 DEF TickAcquire
<1>23. ASSUME Wake
      PROVE  TokenInv'
  BY <1>23 DEF Wake
<1>24. ASSUME BackoffElapses
      PROVE  TokenInv'
  BY <1>24 DEF BackoffElapses
<1>25. ASSUME TickSnapshot
      PROVE  TokenInv'
  BY <1>25 DEF TickSnapshot
<1>26. ASSUME TickState
      PROVE  TokenInv'
  BY <1>26 DEF TickState
<1>27. ASSUME TickSkip
      PROVE  TokenInv'
  BY <1>27 DEF TickSkip
<1>28. ASSUME TickBound
      PROVE  TokenInv'
  BY <1>28 DEF TickBound
<1>29. ASSUME SessionStep
      PROVE  TokenInv'
  BY <1>29 DEF SessionStep, supervisorVars
<1>30. ASSUME UNCHANGED vars
      PROVE  TokenInv'
  BY <1>30 DEF vars, supervisorVars
<1> QED
  BY <1>1, <1>2, <1>3, <1>4, <1>5, <1>6, <1>7, <1>8, <1>9, <1>10, <1>11,
      <1>12, <1>13, <1>14, <1>15, <1>16, <1>17, <1>18, <1>19, <1>20, <1>21,
      <1>22, <1>23, <1>24, <1>25, <1>26, <1>27, <1>28, <1>29, <1>30
     DEF Next, UserStep, AttemptStep, Tick

(* The initial state satisfies both invariants. *)
LEMMA InitSupervisor == Init => SupervisorTypeOK /\ TokenInv
<1> SUFFICES ASSUME Init PROVE SupervisorTypeOK /\ TokenInv
  OBVIOUS
<1>1. SupervisorTypeOK
  <2>1. SessionTypeOK
    BY InitIInv DEF Init, IInv
  <2>2. commands \in 0..MaxCommands
    BY CommandsAssumption DEF Init
  <2>3. /\ task \in [Callers -> UserTask \cup AttemptTask]
        /\ result \in [Attempts -> Report]
    BY DEF Init, UserTask, Report
  <2> QED
    BY <2>1, <2>2, <2>3 DEF Init, SupervisorTypeOK
<1>2. TokenInv
  BY TasksAssumption
     DEF Init, TokenInv, TokenHasAttempt, SingleFlightUntilDisconnect, InFlight,
         Ended
<1> QED
  BY <1>1, <1>2

(* The tables of the supervisor and the positions of commands and attempts *)
(* keep their types.                                                       *)
THEOREM SupervisorTypeCorrect == Spec => []SupervisorTypeOK
BY InitSupervisor, NextSupervisorTypeOK, PTL DEF Spec

(* The ownership of the reconnecting token, as Spec maintains it. *)
LEMMA TokenInvariant == Spec => []TokenInv
BY InitSupervisor, NextTokenInv, SupervisorTypeCorrect, PTL DEF Spec

(* The supervisor never leaves a host in its reconnecting set without an   *)
(* attempt that will remove it: supervision of a host cannot end that way. *)
THEOREM TokenAlwaysHasAttempt == Spec => []TokenHasAttempt
BY TokenInvariant, PTL DEF TokenInv

(* However many attempts may run, the reconnecting set admits one at a     *)
(* time per host until the user disconnects or deletes the host.           *)
THEOREM SingleFlightHolds == Spec => []SingleFlightUntilDisconnect
BY TokenInvariant, PTL DEF TokenInv

(* Who takes a live session down again, or registers it: the user or       *)
(* attempt whose connect has just returned, an attempt that is about to    *)
(* look at its token, and whoever is inside a disconnect.                  *)
Handler(c) ==
    \/ task[c] = "connecting" /\ pc[c] = "idle" /\ outcome[c] = "Connected"
    \/ task[c] = "check_active"
    \/ /\ task[c] \in {"disconnecting", "deleting", "cancelling"}
       /\ pc[c] \in {"disconnect_wait"} \cup DisconnectPC

(* The inductive invariant behind LiveIsSupervised: commands and attempts  *)
(* stand where their call says; the token goes before the profile; and a   *)
(* live session without a profile is in somebody's hands.                  *)
LiveInv ==
    /\ \A c \in Callers :
          /\ pc[c] \in {"connect_wait"} \cup ConnectPC => task[c] = "connecting"
          /\ pc[c] \in {"disconnect_wait"} \cup DisconnectPC =>
                task[c] \in {"disconnecting", "deleting", "cancelling"}
          /\ pc[c] # "idle" => registered
    /\ state = "Ready" => registered
    /\ ~raced /\ (~profile \/ Parting) => ~token
    /\ ~raced /\ state = "Ready" /\ ~profile => \E c \in Callers : Handler(c)

(* Every step keeps a live session in somebody's hands, one case per       *)
(* action.                                                                 *)
LEMMA NextLiveInv ==
    ASSUME SupervisorTypeOK, IInv, IInv', LiveInv, [Next]_vars
    PROVE  LiveInv'
<1> USE TasksAssumption
<1> USE DEF SupervisorTypeOK, SessionTypeOK, LiveInv, Handler, Parting, Goto,
            given, Fails, Returned, sessionVars, controllerVars,
            transportVars, callerVars, IInv, SessionInv, GuardedWritesAccepted
<1>1. ASSUME NEW u \in Users, ConnectHost(u)
      PROVE  LiveInv'
  BY <1>1 DEF ConnectHost
<1>2. ASSUME NEW u \in Users, PreparedUser(u)
      PROVE  LiveInv'
  BY <1>2 DEF PreparedUser, Connect
<1>3. ASSUME NEW u \in Users, PrepareFailedUser(u)
      PROVE  LiveInv'
  BY <1>3 DEF PrepareFailedUser
<1>4. ASSUME NEW u \in Users, ConnectHostReturns(u)
      PROVE  LiveInv'
  BY <1>4 DEF ConnectHostReturns
<1>5. ASSUME NEW u \in Users, DropToken(u)
      PROVE  LiveInv'
  BY <1>5 DEF DropToken
<1>6. ASSUME NEW u \in Users, DropProfile(u)
      PROVE  LiveInv'
  BY <1>6 DEF DropProfile, Disconnect
<1>7. ASSUME NEW u \in Users, DisconnectHostReturns(u)
      PROVE  LiveInv'
  BY <1>7 DEF DisconnectHostReturns
<1>8. ASSUME NEW u \in Users, DeleteRecord(u)
      PROVE  LiveInv'
  BY <1>8 DEF DeleteRecord
<1>9. ASSUME NEW t \in Attempts, AttemptRefused(t)
      PROVE  LiveInv'
  BY <1>9 DEF AttemptRefused
<1>10. ASSUME NEW t \in Attempts, AttemptLoad(t)
      PROVE  LiveInv'
  BY <1>10 DEF AttemptLoad
<1>11. ASSUME NEW t \in Attempts, PreparedAttempt(t)
      PROVE  LiveInv'
  BY <1>11 DEF PreparedAttempt, Connect
<1>12. ASSUME NEW t \in Attempts, PrepareFailedAttempt(t)
      PROVE  LiveInv'
  BY <1>12 DEF PrepareFailedAttempt
<1>13. ASSUME NEW t \in Attempts, AttemptConnectReturns(t)
      PROVE  LiveInv'
  BY <1>13 DEF AttemptConnectReturns, ConnectErrorKind
<1>14. ASSUME NEW t \in Attempts, AttemptStillActive(t)
      PROVE  LiveInv'
  BY <1>14 DEF AttemptStillActive
<1>15. ASSUME NEW t \in Attempts, AttemptStillReady(t)
      PROVE  LiveInv'
  BY <1>15 DEF AttemptStillReady
<1>16. ASSUME NEW t \in Attempts, AttemptCancels(t)
      PROVE  LiveInv'
  BY <1>16 DEF AttemptCancels, Disconnect
<1>17. ASSUME NEW t \in Attempts, AttemptCancelled(t)
      PROVE  LiveInv'
  BY <1>17 DEF AttemptCancelled
<1>18. ASSUME NEW t \in Attempts, AttemptRelease(t)
      PROVE  LiveInv'
  BY <1>18 DEF AttemptRelease
<1>19. ASSUME NEW t \in Attempts, AttemptSettle(t)
      PROVE  LiveInv'
  BY <1>19 DEF AttemptSettle
<1>20. ASSUME NEW t \in Attempts, AttemptMark(t)
      PROVE  LiveInv'
  BY <1>20 DEF AttemptMark, mark_reconnecting,
         mark_waiting_for_credential, Mark
<1>21. ASSUME NEW t \in Attempts, AttemptReschedule(t)
      PROVE  LiveInv'
  BY <1>21 DEF AttemptReschedule
<1>22. ASSUME NEW t \in Attempts, TickAcquire(t)
      PROVE  LiveInv'
  BY <1>22 DEF TickAcquire
<1>23. ASSUME Wake
      PROVE  LiveInv'
  BY <1>23 DEF Wake
<1>24. ASSUME BackoffElapses
      PROVE  LiveInv'
  BY <1>24 DEF BackoffElapses
<1>25. ASSUME TickSnapshot
      PROVE  LiveInv'
  BY <1>25 DEF TickSnapshot
<1>26. ASSUME TickState
      PROVE  LiveInv'
  BY <1>26 DEF TickState
<1>27. ASSUME TickSkip
      PROVE  LiveInv'
  BY <1>27 DEF TickSkip
<1>28. ASSUME TickBound
      PROVE  LiveInv'
  BY <1>28 DEF TickBound
<1>29. ASSUME SessionStep
      PROVE  LiveInv'
  <2> UNCHANGED supervisorVars
    BY <1>29 DEF SessionStep
  <2> USE DEF supervisorVars
  <2>1. ASSUME NEW c \in Callers, CallStep(c)
        PROVE  LiveInv'
    <3>1. CASE ConnectLock(c)
      BY <3>1 DEF ConnectLock, SetStateAndContinue, Return
    <3>2. CASE ConnectNoCandidates(c) \/ ConnectRefuseJump(c)
      BY <3>2 DEF ConnectNoCandidates, ConnectRefuseJump, SetStateAndReturn, Return
    <3>3. CASE ConnectReserve(c)
      BY <3>3 DEF ConnectReserve, SetStateAndContinue, Return
    <3>4. CASE ConnectDialled(c)
      BY <3>4 DEF ConnectDialled
    <3>5. CASE ConnectNextCandidate(c)
      BY <3>5 DEF ConnectNextCandidate, SetStateAndContinue, Return
    <3>6. CASE ConnectExhausted(c) \/ ConnectFatal(c)
      BY <3>6 DEF ConnectExhausted, ConnectFatal, SetStateAndReturn, Return
    <3>7. CASE ConnectAttach(c)
      BY <3>7 DEF ConnectAttach, Return
    <3>8. CASE ConnectReady(c)
      BY <3>8 DEF ConnectReady, SetStateAndReturn, Return
    <3>9. CASE DisconnectLock(c)
      BY <3>9 DEF DisconnectLock
    <3>10. CASE DisconnectClose(c)
      BY <3>10 DEF DisconnectClose
    <3>11. CASE DisconnectFinish(c)
      BY <3>11 DEF DisconnectFinish, SetStateAndReturn, Return
    <3> QED
      BY <2>1, <3>1, <3>2, <3>3, <3>4, <3>5, <3>6, <3>7, <3>8, <3>9, <3>10,
         <3>11 DEF CallStep
  <2>2. ASSUME NEW g \in Generation, TransportDrop(g) \/ PumpStep(g)
        PROVE  LiveInv'
    BY <2>2
       DEF TransportDrop, PumpStep, PumpReceive, PumpDeliver, PumpReadState,
           PumpLoadGeneration, PumpCommit, PumpGoto
  <2> QED
    BY <1>29, <2>1, <2>2 DEF SessionStep
<1>30. ASSUME UNCHANGED vars
      PROVE  LiveInv'
  BY <1>30 DEF vars, supervisorVars
<1> QED
  BY <1>1, <1>2, <1>3, <1>4, <1>5, <1>6, <1>7, <1>8, <1>9, <1>10, <1>11,
     <1>12, <1>13, <1>14, <1>15, <1>16, <1>17, <1>18, <1>19, <1>20,
     <1>21, <1>22, <1>23, <1>24, <1>25, <1>26, <1>27, <1>28, <1>29,
     <1>30
     DEF Next, UserStep, AttemptStep, Tick

(* A disconnect or delete is not undone by an attempt that was in flight:  *)
(* when commands and attempts are over, a Ready session is one the user    *)
(* has a profile for, unless an attempt was started from a stale snapshot. *)
THEOREM LiveAlwaysSupervised == Spec => []LiveIsSupervised
<1>1. Init => LiveInv
  BY DEF Init, SessionInit, LiveInv
<1>2. SupervisorTypeOK /\ LiveInv => LiveIsSupervised
  BY TasksAssumption DEF LiveInv, Handler, LiveIsSupervised, InFlight, Ended
<1>3. Spec => []IInv
  BY SupervisorUsesSession, SessionInvariant, PTL
<1> QED
  BY <1>1, <1>2, <1>3, NextLiveInv, SupervisorTypeCorrect, PTL DEF Spec

=============================================================================
