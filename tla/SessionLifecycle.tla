-------------------------- MODULE SessionLifecycle --------------------------
(***************************************************************************)
(* One host's entry of SessionManager (crates/kodework-core/session.rs):   *)
(* the ConnectionStateController, the per-host connect_guard, the          *)
(* installed transport and one event pump per transport.                   *)
(*                                                                         *)
(* Callers are the tasks that call the manager (Tauri commands, reconnect  *)
(* attempts).  A call is cut into one action per stretch of code between   *)
(* two awaits, and further wherever another thread can observe the         *)
(* difference: the controller keeps state and generation in two separate   *)
(* cells, so the pump's generation check and its state write are two       *)
(* steps.  In this module a caller may make any call when it is idle; the  *)
(* calls the desktop really makes are in ConnectionSupervisor.             *)
(***************************************************************************)
EXTENDS Naturals, FiniteSets, ConnectionStates

CONSTANTS
    Callers,          \* tasks that may be inside a SessionManager call
    NoCaller,         \* connect_guard is free
    MaxGeneration,    \* bound: transport generations a run may reserve
    MaxCandidates     \* bound: address candidates the resolver may return

ASSUME CallersAssumption == NoCaller \notin Callers
ASSUME GenerationAssumption == MaxGeneration \in Nat
ASSUME CandidatesAssumption == MaxCandidates \in Nat \ {0}

Generation == 1..MaxGeneration

VARIABLES
    registered,  \* the sessions map has an entry for the host
    state,       \* ConnectionStateController.state
    generation,  \* ConnectionStateController.generation
    guard,       \* holder of ActiveSession.connect_guard
    connection,  \* generation of ActiveSession.connection, 0 for None
    transport,   \* life of each transport: none, live, dropped
    pump,        \* pump_events task of each transport: where it stands
    pc,          \* where each caller stands in its call
    gen,         \* the caller's local generation / transport taken
    left,        \* candidates the caller has not tried, this one included
    outcome      \* result of the caller's last call

controllerVars == <<state, generation>>
transportVars == <<connection, transport, pump>>
callerVars == <<pc, gen, left, outcome>>
sessionVars == <<registered, state, generation, guard, connection, transport,
                 pump, pc, gen, left, outcome>>

ConnectPC == {"resolving", "dialing", "attaching", "attached"}
DisconnectPC == {"closing", "clearing"}
PC == {"idle", "connect_wait", "disconnect_wait"}
          \cup ConnectPC \cup DisconnectPC
PumpPC == {"none", "recv", "deliver", "read_state", "load_generation",
           "commit", "done"}
Outcome == {"none", "Connected", "Disconnected", "DisconnectFailed",
            "NoSession", "InvalidTransition"} \cup ConnectErrorKind

SessionTypeOK ==
    /\ registered \in BOOLEAN
    /\ state \in ConnectionState
    /\ generation \in 0..MaxGeneration
    /\ guard \in Callers \cup {NoCaller}
    /\ connection \in 0..MaxGeneration
    /\ transport \in [Generation -> {"none", "live", "dropped"}]
    /\ pump \in [Generation -> PumpPC]
    /\ pc \in [Callers -> PC]
    /\ gen \in [Callers -> 0..MaxGeneration]
    /\ left \in [Callers -> 0..MaxCandidates]
    /\ outcome \in [Callers -> Outcome]

SessionInit ==
    /\ registered = FALSE
    /\ state = "Disconnected"
    /\ generation = 0
    /\ guard = NoCaller
    /\ connection = 0
    /\ transport = [g \in Generation |-> "none"]
    /\ pump = [g \in Generation |-> "none"]
    /\ pc = [c \in Callers |-> "idle"]
    /\ gen = [c \in Callers |-> 0]
    /\ left = [c \in Callers |-> 0]
    /\ outcome = [c \in Callers |-> "none"]

-----------------------------------------------------------------------------
(* ConnectionStateController *)

(* Mutant: transition does not consult the table. *)
acceptsMutant(to) == to \in ConnectionState

(* transition accepts `to`: the current state, or a legal successor. *)
accepts(to) == state = to \/ connection_transition(state, to)

(* A call returns to its caller: its locals are gone, and so is its hold   *)
(* on connect_guard.                                                       *)
Return(c, result) ==
    /\ pc' = [pc EXCEPT ![c] = "idle"]
    /\ gen' = [gen EXCEPT ![c] = 0]
    /\ left' = [left EXCEPT ![c] = 0]
    /\ outcome' = [outcome EXCEPT ![c] = result]
    /\ guard' = NoCaller

(* set_state(to)? followed by a return: the write is refused as an          *)
(* invalid transition, and the error is what the caller gets.              *)
SetStateAndReturn(c, to, result) ==
    IF accepts(to)
        THEN state' = to /\ Return(c, result)
        ELSE UNCHANGED state /\ Return(c, "InvalidTransition")

(* set_state(to)? followed by more of the call, whose locals become        *)
(* generation g and n candidates left.                                     *)
SetStateAndContinue(c, to, next, g, n) ==
    IF accepts(to)
        THEN /\ state' = to
             /\ pc' = [pc EXCEPT ![c] = next]
             /\ gen' = [gen EXCEPT ![c] = g]
             /\ left' = [left EXCEPT ![c] = n]
             /\ guard' = c
             /\ UNCHANGED outcome
        ELSE UNCHANGED state /\ Return(c, "InvalidTransition")

-----------------------------------------------------------------------------
(* connect_with_jump_auth_typed *)

Connect(c) ==
    /\ pc[c] = "idle"
    /\ registered' = TRUE                              \* ensure_session
    /\ pc' = [pc EXCEPT ![c] = "connect_wait"]
    /\ outcome' = [outcome EXCEPT ![c] = "none"]
    /\ UNCHANGED <<controllerVars, guard, transportVars, gen, left>>

(* connect_guard.lock().await, then set_state(ResolvingAddress). *)
ConnectLock(c) ==
    /\ pc[c] = "connect_wait"
    /\ guard = NoCaller
    /\ SetStateAndContinue(c, "ResolvingAddress", "resolving", 0, 0)
    /\ UNCHANGED <<registered, generation, transportVars>>

(* Mutant: the early return without set_state(Failed). *)
ConnectNoCandidatesMutant(c) ==
    /\ pc[c] = "resolving"
    /\ Return(c, "Other")
    /\ UNCHANGED <<registered, controllerVars, transportVars>>

(* resolver.candidates(host).await found no enabled address. *)
ConnectNoCandidates(c) ==
    /\ pc[c] = "resolving"
    /\ SetStateAndReturn(c, "Failed", "Other")
    /\ UNCHANGED <<registered, generation, transportVars>>

(* Candidates found: reserve the generation and dial the first one.        *)
(* Reserving and the write of Connecting are one step because no reader    *)
(* tells ResolvingAddress and Connecting apart: the pump looks for Ready,  *)
(* and both refuse Reconnecting and WaitingForCredential.                  *)
ConnectReserve(c) ==
    /\ pc[c] = "resolving"
    /\ generation < MaxGeneration
    /\ generation' = generation + 1
    /\ \E n \in 1..MaxCandidates :
          SetStateAndContinue(c, "Connecting", "dialing", generation + 1, n)
    /\ UNCHANGED <<registered, transportVars>>

(* A jump host without credentials of its own: the generation is consumed, *)
(* nothing is dialled.                                                     *)
ConnectRefuseJump(c) ==
    /\ pc[c] = "resolving"
    /\ generation < MaxGeneration
    /\ generation' = generation + 1
    /\ SetStateAndReturn(c, "Failed", "Other")
    /\ UNCHANGED <<registered, transportVars>>

(* SshConnection::connect returned a transport.  It may drop from now on.  *)
ConnectDialled(c) ==
    /\ pc[c] = "dialing"
    /\ transport' = [transport EXCEPT ![gen[c]] = "live"]
    /\ pc' = [pc EXCEPT ![c] = "attaching"]
    /\ UNCHANGED <<registered, controllerVars, guard, connection, pump, gen,
                   left, outcome>>

(* A network-class failure with another candidate to try. *)
ConnectNextCandidate(c) ==
    /\ pc[c] = "dialing"
    /\ left[c] > 1
    /\ SetStateAndContinue(c, "Connecting", "dialing", gen[c], left[c] - 1)
    /\ UNCHANGED <<registered, generation, transportVars>>

(* Mutant: the error path cleans up through disconnect, which waits for the *)
(* connect_guard its own caller holds.                                     *)
ConnectExhaustedMutant(c) ==
    /\ pc[c] = "dialing"
    /\ left[c] = 1
    /\ state' = "Failed"
    /\ pc' = [pc EXCEPT ![c] = "disconnect_wait"]
    /\ UNCHANGED <<registered, generation, guard, transportVars, gen, left,
                   outcome>>

(* A network-class failure of the last candidate. *)
ConnectExhausted(c) ==
    /\ pc[c] = "dialing"
    /\ left[c] = 1
    /\ SetStateAndReturn(c, "Failed", "Network")
    /\ UNCHANGED <<registered, generation, transportVars>>

(* A failure that address fallback must not retry; From<SshError> maps no  *)
(* such error to a retryable kind.                                         *)
ConnectFatal(c) ==
    /\ pc[c] = "dialing"
    /\ \E kind \in {"Credential", "Other"} : SetStateAndReturn(c, "Failed", kind)
    /\ UNCHANGED <<registered, generation, transportVars>>

(* attach: install_generation, install the connection, start its pump. *)
ConnectAttach(c) ==
    /\ pc[c] = "attaching"
    /\ IF gen[c] < generation
         THEN /\ Return(c, "InvalidTransition")
              /\ UNCHANGED <<generation, connection, pump>>
         ELSE /\ generation' = gen[c]
              /\ connection' = gen[c]
              /\ pump' = [pump EXCEPT ![gen[c]] = "recv"]
              /\ pc' = [pc EXCEPT ![c] = "attached"]
              /\ UNCHANGED <<guard, gen, left, outcome>>
    /\ UNCHANGED <<registered, state, transport>>

ConnectReady(c) ==
    /\ pc[c] = "attached"
    /\ SetStateAndReturn(c, "Ready", "Connected")
    /\ UNCHANGED <<registered, generation, transportVars>>

-----------------------------------------------------------------------------
(* disconnect *)

Disconnect(c) ==
    /\ pc[c] = "idle"
    /\ pc' = [pc EXCEPT ![c] = IF registered THEN "disconnect_wait" ELSE "idle"]
    /\ outcome' = [outcome EXCEPT ![c] = IF registered THEN "none"
                                                       ELSE "NoSession"]
    /\ UNCHANGED <<registered, controllerVars, guard, transportVars, gen, left>>

(* Mutant: the generation is not retired when the teardown begins. *)
DisconnectLockMutant(c) ==
    /\ pc[c] = "disconnect_wait"
    /\ guard = NoCaller
    /\ guard' = c
    /\ gen' = [gen EXCEPT ![c] = connection]
    /\ connection' = 0
    /\ pc' = [pc EXCEPT ![c] = IF connection = 0 THEN "clearing" ELSE "closing"]
    /\ UNCHANGED <<registered, controllerVars, transport, pump, left, outcome>>

(* Under the guard: retire the generation, take the connection. *)
DisconnectLock(c) ==
    /\ pc[c] = "disconnect_wait"
    /\ guard = NoCaller
    /\ generation < MaxGeneration
    /\ guard' = c
    /\ generation' = generation + 1
    /\ gen' = [gen EXCEPT ![c] = connection]
    /\ connection' = 0
    /\ pc' = [pc EXCEPT ![c] = IF connection = 0 THEN "clearing" ELSE "closing"]
    /\ UNCHANGED <<registered, state, transport, pump, left, outcome>>

(* connection.disconnect().await: the transport ends, which its handler    *)
(* reports to the pump like any other end.                                 *)
DisconnectClose(c) ==
    /\ pc[c] = "closing"
    /\ transport' = [transport EXCEPT ![gen[c]] = "dropped"]
    /\ pc' = [pc EXCEPT ![c] = "clearing"]
    /\ UNCHANGED <<registered, controllerVars, guard, connection, pump, gen,
                   left, outcome>>

(* Mutant: the teardown does not end with set_state(Disconnected). *)
DisconnectFinishMutant(c) ==
    /\ pc[c] = "clearing"
    /\ Return(c, "Disconnected")
    /\ UNCHANGED <<registered, controllerVars, transportVars>>

(* The rest of the teardown, set_state(Disconnected), and the result of    *)
(* the transport's own disconnect (an error only if there was one).        *)
DisconnectFinish(c) ==
    /\ pc[c] = "clearing"
    /\ \E result \in {"Disconnected"} \cup
                        (IF gen[c] = 0 THEN {} ELSE {"DisconnectFailed"}) :
          SetStateAndReturn(c, "Disconnected", result)
    /\ UNCHANGED <<registered, generation, transportVars>>

-----------------------------------------------------------------------------
(* mark_reconnecting, mark_waiting_for_credential: set_state, no guard;    *)
(* a refused write is an error the caller sees and the state is untouched. *)

MarkAccepted(to) == registered /\ accepts(to)

Mark(c, to) ==
    /\ pc[c] = "idle"
    /\ state' = IF MarkAccepted(to) THEN to ELSE state
    /\ UNCHANGED <<registered, generation, guard, transportVars, callerVars>>

mark_reconnecting(c) == Mark(c, "Reconnecting")
mark_waiting_for_credential(c) == Mark(c, "WaitingForCredential")

-----------------------------------------------------------------------------
(* The transport (russh) and pump_events *)

(* The connection is lost; SshHandler::disconnected queues the one         *)
(* Disconnected or Error event of this transport for its pump.             *)
TransportDrop(g) ==
    /\ transport[g] = "live"
    /\ transport' = [transport EXCEPT ![g] = "dropped"]
    /\ UNCHANGED <<registered, controllerVars, guard, connection, pump,
                   callerVars>>

PumpGoto(g, next) ==
    /\ pump' = [pump EXCEPT ![g] = next]
    /\ UNCHANGED <<registered, generation, guard, connection, transport,
                   callerVars>>

(* events.recv().await yields the end-of-transport event; a stale pump     *)
(* drops it.  The queue then closes and the loop ends.                     *)
PumpReceive(g) ==
    /\ pump[g] = "recv"
    /\ transport[g] = "dropped"
    /\ PumpGoto(g, IF generation = g THEN "deliver" ELSE "done")
    /\ UNCHANGED state

(* The sends to the subscribers have been awaited; the generation is read  *)
(* again.                                                                  *)
PumpDeliver(g) ==
    /\ pump[g] = "deliver"
    /\ PumpGoto(g, IF generation = g THEN "read_state" ELSE "done")
    /\ UNCHANGED state

(* Mutant: the condition on the state inverted. *)
PumpReadStateMutant(g) ==
    /\ pump[g] = "read_state"
    /\ PumpGoto(g, IF state # "Ready" THEN "load_generation" ELSE "done")
    /\ UNCHANGED state

PumpReadState(g) ==
    /\ pump[g] = "read_state"
    /\ PumpGoto(g, IF state = "Ready" THEN "load_generation" ELSE "done")
    /\ UNCHANGED state

(* transition_for_generation loads the generation and compares it ...      *)
PumpLoadGeneration(g) ==
    /\ pump[g] = "load_generation"
    /\ PumpGoto(g, IF generation = g THEN "commit" ELSE "done")
    /\ UNCHANGED state

(* ... and then takes the lock of the state and writes it.                 *)
PumpCommit(g) ==
    /\ pump[g] = "commit"
    /\ PumpGoto(g, "done")
    /\ state' = IF accepts("Reconnecting") THEN "Reconnecting" ELSE state

-----------------------------------------------------------------------------
CallStep(c) ==
    \/ ConnectLock(c) \/ ConnectNoCandidates(c) \/ ConnectReserve(c)
    \/ ConnectRefuseJump(c) \/ ConnectDialled(c) \/ ConnectNextCandidate(c)
    \/ ConnectExhausted(c) \/ ConnectFatal(c) \/ ConnectAttach(c)
    \/ ConnectReady(c)
    \/ DisconnectLock(c) \/ DisconnectClose(c) \/ DisconnectFinish(c)

PumpStep(g) ==
    \/ PumpReceive(g) \/ PumpDeliver(g) \/ PumpReadState(g)
    \/ PumpLoadGeneration(g) \/ PumpCommit(g)

(* Every call reserves at most one generation: a new call starts only if   *)
(* the bound leaves one for it.                                            *)
WillReserve ==
    {c \in Callers : pc[c] \in {"connect_wait", "resolving", "disconnect_wait"}}
RoomForCall == generation + Cardinality(WillReserve) < MaxGeneration

StartCall == \E c \in Callers : Connect(c) \/ Disconnect(c)

OtherStep ==
    \/ \E c \in Callers :
          mark_reconnecting(c) \/ mark_waiting_for_credential(c) \/ CallStep(c)
    \/ \E g \in Generation : TransportDrop(g) \/ PumpStep(g)

SessionNext == (RoomForCall /\ StartCall) \/ OtherStep

(* What a session may do at all, without the bound on calls: the           *)
(* specification that the theorems and the composed modules use.           *)
SessionSafety == SessionInit /\ [][StartCall \/ OtherStep]_sessionVars

(* Where a call waits for a peer: dialling (the channel through a bastion  *)
(* has no deadline), the transport's own disconnect, and the closing of    *)
(* bridges and tunnels.  Nothing in the code makes these waits end.        *)
PeerPC == {"dialing", "closing", "clearing"}
LocalStep(c) == pc[c] \notin PeerPC /\ CallStep(c)

(* Tasks that can run are run by the runtime, and the waits of a call that *)
(* are not for a peer end (the resolver asks Tailscale under a deadline).  *)
(* connect_guard is a tokio Mutex, which serves its waiters in order, so a *)
(* caller that waits for it is not overtaken forever.  Nothing obliges a   *)
(* caller to call, a peer to answer, or a transport to drop.               *)
AcquireGuard(c) == ConnectLock(c) \/ DisconnectLock(c)

SessionFairness ==
    /\ \A c \in Callers :
          WF_sessionVars(LocalStep(c)) /\ SF_sessionVars(AcquireGuard(c))
    /\ \A g \in Generation : WF_sessionVars(PumpStep(g))

SessionSpec == SessionInit /\ [][SessionNext]_sessionVars /\ SessionFairness

-----------------------------------------------------------------------------
(* Properties *)

(* No connect or disconnect ever returns the internal error of a refused   *)
(* state write or of a stale attach: whatever the pumps and the unguarded  *)
(* mark_* calls do meanwhile, every set_state(..)? inside a guarded call   *)
(* is accepted.  (The comment of connection_transition tells of sessions   *)
(* that failed here with "invalid connection transition".)                 *)
GuardedWritesAccepted ==
    \A c \in Callers : outcome[c] # "InvalidTransition"

(* Ready means the newest transport: outside a guarded call, a Ready       *)
(* session has a connection and it is of the controller's generation, so   *)
(* its pump is the one whose events are not dropped as stale.              *)
ReadyIsCurrent ==
    state = "Ready" /\ guard = NoCaller
        => connection # 0 /\ connection = generation

(* Between guarded calls the session rests in a state from which connect   *)
(* and disconnect may both start; in particular no error path leaves it in *)
(* ResolvingAddress or Connecting with nobody working on it.               *)
RestingStates == {"Disconnected", "Ready", "Reconnecting",
                  "WaitingForCredential", "Failed"}
NeverStrandedMidConnect == guard = NoCaller => state \in RestingStates

(* While a guarded call is in a connect, nobody else moves the state: only *)
(* a step of the guard's holder leaves ResolvingAddress or Connecting.     *)
OnlyHolderLeavesConnecting ==
    [][(state \in {"ResolvingAddress", "Connecting"} /\ state' # state)
          => \E c \in Callers : guard = c /\ pc'[c] # pc[c]]_sessionVars

(* Why the four hold: the guard has one holder, which alone stands in a    *)
(* connect or disconnect, and the state follows where the holder stands;   *)
(* from dialling on, the holder's generation is the controller's.  This is *)
(* the inductive invariant of ConnectionProofs.                            *)
HolderInCall ==
    \A c \in Callers : guard = c <=> pc[c] \in ConnectPC \cup DisconnectPC
StateFollowsHolder ==
    \A c \in Callers :
        /\ pc[c] = "resolving" => state = "ResolvingAddress"
        /\ pc[c] \in {"dialing", "attaching", "attached"} =>
              state = "Connecting" /\ gen[c] = generation /\ gen[c] # 0
        /\ pc[c] = "attached" => connection = generation
        /\ pc[c] \in DisconnectPC => state \in RestingStates
SessionInv ==
    /\ HolderInCall
    /\ StateFollowsHolder
    /\ NeverStrandedMidConnect
    /\ ReadyIsCurrent
    /\ GuardedWritesAccepted

(* The session implements ConnectionContract.  A session being closed      *)
(* counts as Down from the moment its generation is retired, whatever the  *)
(* pump still writes, and states in which nobody works on the link are     *)
(* Down too.                                                               *)
Phase ==
    IF \E c \in Callers : pc[c] \in DisconnectPC THEN "Down"
    ELSE CASE state \in {"ResolvingAddress", "Connecting"} -> "Establishing"
           [] state = "Ready" -> "Up"
           [] state = "Reconnecting" -> "Lost"
           [] OTHER -> "Down"

Contract == INSTANCE ConnectionContract
                WITH phase <- Phase, ticket <- generation, current <- connection
ImplementsContract == Contract!Spec

(* The drop of the installed transport of a Ready session does not go      *)
(* unnoticed, however connects, disconnects and other pumps interleave:    *)
(* the session leaves Ready or that transport, unless the pump dismissed   *)
(* the event before the session was Ready (pump_events returns when it     *)
(* reads another state).                                                   *)
PendingDropSurfaces ==
    \A g \in Generation :
        (state = "Ready" /\ connection = g /\ transport[g] = "dropped"
           /\ pump[g] \in {"recv", "deliver", "read_state"})
            ~> ~(state = "Ready" /\ connection = g)
=============================================================================
