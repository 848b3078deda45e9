------------------------ MODULE ConnectionSupervisor ------------------------
(***************************************************************************)
(* The native reconnect supervisor of src-tauri/src/commands.rs, composed  *)
(* with the session it drives: the user's connect_host, disconnect_host    *)
(* and delete_host commands, the supervisor loop, and the reconnect        *)
(* attempts it spawns.  Users and attempts are the callers of              *)
(* SessionLifecycle, and every SessionManager call they make is the call   *)
(* modelled there.                                                         *)
(*                                                                         *)
(* The supervisor's tables hold one entry per host; here they are one      *)
(* host's entry.  They are separate mutexes, so an action touches one of   *)
(* them unless no other task can tell the difference.                      *)
(***************************************************************************)
EXTENDS SessionLifecycle

CONSTANTS
    Users,      \* renderer command streams; commands of one are sequential
    Attempts,   \* bound: reconnect attempts that may be in flight at once
    MaxCommands \* bound: commands the users give

ASSUME TasksAssumption ==
    Users \cap Attempts = {} /\ Callers = Users \cup Attempts
ASSUME CommandsAssumption == MaxCommands \in Nat

VARIABLES
    hostKnown,  \* the database has the host's record
    profile,    \* reconnect_profiles contains the host
    token,      \* reconnecting contains the host
    backoff,    \* retry_schedule has an entry that is not due yet
    loop,       \* where the supervisor loop stands in the host's iteration
    task,       \* where each user command and attempt stands
    result,     \* what an attempt is about to report
    commands,   \* how many commands the users have given
    parted,     \* history: one of them was a disconnect or a delete
    raced       \* history: an attempt began after the user's disconnect

given == <<commands, parted, raced>>
supervisorVars == <<hostKnown, profile, token, backoff, loop, task, result,
                    given>>
vars == <<sessionVars, supervisorVars>>

UserTask == {"idle", "prepare", "connecting", "untokened", "disconnecting",
             "undeleted", "deleting"}
AttemptTask == {"idle", "load", "prepare", "connecting", "check_active",
                "check_ready", "cancelling", "release", "settle", "mark",
                "reschedule"}
Report == {"none", "ok"} \cup ConnectErrorKind

SupervisorTypeOK ==
    /\ SessionTypeOK
    /\ hostKnown \in BOOLEAN /\ profile \in BOOLEAN /\ token \in BOOLEAN
    /\ backoff \in BOOLEAN
    /\ loop \in {"sleep", "scan", "acquire"}
    /\ task \in [Callers -> UserTask \cup AttemptTask]
    /\ result \in [Attempts -> Report]
    /\ commands \in 0..MaxCommands /\ parted \in BOOLEAN /\ raced \in BOOLEAN

Init ==
    /\ SessionInit
    /\ hostKnown = TRUE
    /\ profile = FALSE
    /\ token = FALSE
    /\ backoff = FALSE
    /\ loop = "sleep"
    /\ task = [c \in Callers |-> "idle"]
    /\ result = [t \in Attempts |-> "none"]
    /\ commands = 0 /\ parted = FALSE /\ raced = FALSE

Goto(c, from, to) == task[c] = from /\ task' = [task EXCEPT ![c] = to]

(* The SessionManager call that c made has returned. *)
Returned(c) == pc[c] = "idle"

(* The bounds: every command may reserve one generation and every attempt  *)
(* two, and a command or an attempt starts only if they are left.          *)
CallsAhead(c) ==
    CASE task[c] = "load" -> 2
      [] task[c] = "prepare" -> IF c \in Attempts THEN 2 ELSE 1
      [] task[c] \in {"untokened", "undeleted", "check_active", "check_ready"} -> 1
      [] task[c] = "connecting" -> IF c \in Attempts THEN 1 ELSE 0
      [] OTHER -> 0
Reserved == Cardinality(WillReserve)
              + Cardinality({call \in Callers \X {1, 2} : call[2] <= CallsAhead(call[1])})
RoomFor(n) == generation + Reserved + n <= MaxGeneration
GiveCommand == commands < MaxCommands /\ commands' = commands + 1

-----------------------------------------------------------------------------
(* connect_host *)

ConnectHost(u) ==
    /\ RoomFor(1) /\ GiveCommand
    /\ hostKnown
    /\ Goto(u, "idle", "prepare")
    /\ UNCHANGED <<sessionVars, hostKnown, profile, token, backoff, loop,
                   result, parted, raced>>

(* Everything connect_host_inner_with_profile does before it calls the     *)
(* session manager succeeded: record read and validated, Tailscale up,     *)
(* credentials resolved.                                                   *)
PreparedUser(u) ==
    /\ Goto(u, "prepare", "connecting")
    /\ Connect(u)
    /\ UNCHANGED <<hostKnown, profile, token, backoff, loop, result, given>>

(* ... or it failed, and the session was never touched. *)
PrepareFailedUser(u) ==
    /\ Goto(u, "prepare", "idle")
    /\ UNCHANGED <<sessionVars, hostKnown, profile, token, backoff, loop,
                   result, given>>

(* The connect returned; success registers the reconnect profile. *)
ConnectHostReturns(u) ==
    /\ Returned(u)
    /\ Goto(u, "connecting", "idle")
    /\ profile' = (profile \/ outcome[u] = "Connected")
    /\ UNCHANGED <<sessionVars, hostKnown, token, backoff, loop, result, given>>

-----------------------------------------------------------------------------
(* disconnect_host, and delete_host, which begins the same way: first the  *)
(* token goes, then the profile, then the session is disconnected.         *)

DropToken(u) ==
    /\ RoomFor(1) /\ GiveCommand
    /\ \E next \in {"untokened", "undeleted"} : Goto(u, "idle", next)
    /\ token' = FALSE
    /\ parted' = TRUE
    /\ UNCHANGED <<sessionVars, hostKnown, profile, backoff, loop, result, raced>>

DropProfile(u) ==
    /\ \/ Goto(u, "untokened", "disconnecting")
       \/ Goto(u, "undeleted", "deleting")
    /\ profile' = FALSE
    /\ Disconnect(u)
    /\ UNCHANGED <<hostKnown, token, backoff, loop, result, given>>

DisconnectHostReturns(u) ==
    /\ Returned(u)
    /\ Goto(u, "disconnecting", "idle")
    /\ UNCHANGED <<sessionVars, hostKnown, profile, token, backoff, loop,
                   result, given>>

(* delete_host ignores the disconnect's result and deletes the record; the *)
(* database may fail.                                                      *)
DeleteRecord(u) ==
    /\ Returned(u)
    /\ Goto(u, "deleting", "idle")
    /\ hostKnown' \in {hostKnown, FALSE}
    /\ UNCHANGED <<sessionVars, profile, token, backoff, loop, result, given>>

-----------------------------------------------------------------------------
(* start_connection_supervisor: one iteration over the profiles *)

(* A wake-up (resume from sleep) makes every backoff moot. *)
Wake ==
    /\ loop = "sleep"
    /\ backoff
    /\ backoff' = FALSE
    /\ UNCHANGED <<sessionVars, hostKnown, profile, token, loop, task, result,
                   given>>

BackoffElapses ==
    /\ backoff
    /\ backoff' = FALSE
    /\ UNCHANGED <<sessionVars, hostKnown, profile, token, loop, task, result,
                   given>>

(* The host is in the snapshot of reconnect_profiles. *)
TickSnapshot ==
    /\ loop = "sleep"
    /\ profile
    /\ loop' = "scan"
    /\ UNCHANGED <<sessionVars, hostKnown, profile, token, backoff, task,
                   result, given>>

(* Mutant: the supervisor looks for Failed hosts instead. *)
TickStateMutant ==
    /\ loop = "scan"
    /\ IF state = "Failed"
         THEN loop' = "acquire" /\ UNCHANGED backoff
         ELSE loop' = "sleep" /\ backoff' = FALSE
    /\ UNCHANGED <<sessionVars, hostKnown, profile, token, task, result, given>>

(* Only a Reconnecting host is the supervisor's business.  Forgetting the  *)
(* backoff of another one is a lock of its own in the code; that it may be *)
(* late only lets a retry start early, which Wake allows anyway.           *)
TickState ==
    /\ loop = "scan"
    /\ IF state = "Reconnecting"
         THEN loop' = "acquire" /\ UNCHANGED backoff
         ELSE loop' = "sleep" /\ backoff' = FALSE
    /\ UNCHANGED <<sessionVars, hostKnown, profile, token, task, result, given>>

(* The retry is not due, or reconnecting.insert says that an attempt is in *)
(* flight.                                                                 *)
TickSkip ==
    /\ loop = "acquire"
    /\ backoff \/ token
    /\ loop' = "sleep"
    /\ UNCHANGED <<sessionVars, hostKnown, profile, token, backoff, task,
                   result, given>>

(* Mutant: the result of reconnecting.insert is ignored. *)
TickAcquireMutant(t) ==
    /\ loop = "acquire"
    /\ ~backoff
    /\ RoomFor(2)
    /\ token' = TRUE
    /\ Goto(t, "idle", "load")
    /\ loop' = "sleep"
    /\ UNCHANGED <<sessionVars, hostKnown, profile, backoff, result, given>>

(* A command that has cleared the token and not yet the profile. *)
Parting == \E u \in Users : task[u] \in {"untokened", "undeleted"}

(* The snapshot of the profiles and the state read before may both be of   *)
(* the time before a disconnect that has begun, or ended, since.           *)
TickAcquire(t) ==
    /\ loop = "acquire"
    /\ ~backoff /\ ~token
    /\ RoomFor(2)
    /\ token' = TRUE
    /\ Goto(t, "idle", "load")
    /\ loop' = "sleep"
    /\ raced' = (raced \/ ~profile \/ Parting)
    /\ UNCHANGED <<sessionVars, hostKnown, profile, backoff, result, commands,
                   parted>>

(* The bound on generations or attempts ends the model's supervision. *)
TickBound ==
    /\ loop = "acquire"
    /\ ~backoff /\ ~token
    /\ ~RoomFor(2) \/ \A t \in Attempts : task[t] # "idle"
    /\ loop' = "sleep"
    /\ UNCHANGED <<sessionVars, hostKnown, profile, token, backoff, task,
                   result, given>>

-----------------------------------------------------------------------------
(* reconnect_once *)

Fails(t, from, kind) ==
    /\ Goto(t, from, "release")
    /\ result' = [result EXCEPT ![t] = kind]

(* The record is gone (on its first or second reading), or the host needs  *)
(* a person to authenticate, or the token is gone.                         *)
AttemptRefused(t) ==
    /\ \/ ~hostKnown /\ Fails(t, "load", "Other")
       \/ hostKnown /\ Fails(t, "load", "Credential")
       \/ hostKnown /\ ~token /\ Fails(t, "load", "Other")
    /\ UNCHANGED <<sessionVars, hostKnown, profile, token, backoff, loop, given>>

AttemptLoad(t) ==
    /\ hostKnown /\ token                         \* reconnect_is_active
    /\ Goto(t, "load", "prepare")
    /\ UNCHANGED <<sessionVars, hostKnown, profile, token, backoff, loop,
                   result, given>>

PreparedAttempt(t) ==
    /\ Goto(t, "prepare", "connecting")
    /\ Connect(t)
    /\ UNCHANGED <<hostKnown, profile, token, backoff, loop, result, given>>

(* Invalid record, Tailscale down, or no usable credential. *)
PrepareFailedAttempt(t) ==
    /\ \E kind \in ConnectErrorKind : Fails(t, "prepare", kind)
    /\ UNCHANGED <<sessionVars, hostKnown, profile, token, backoff, loop, given>>

AttemptConnectReturns(t) ==
    /\ Returned(t)
    /\ \/ outcome[t] = "Connected" /\ Goto(t, "connecting", "check_active")
                                  /\ UNCHANGED result
       \/ outcome[t] \in ConnectErrorKind /\ Fails(t, "connecting", outcome[t])
       \/ outcome[t] = "InvalidTransition" /\ Fails(t, "connecting", "Other")
    /\ UNCHANGED <<sessionVars, hostKnown, profile, token, backoff, loop, given>>

(* Mutant: the token is not looked at again after the connect. *)
AttemptStillActiveMutant(t) ==
    /\ Goto(t, "check_active", "check_ready")
    /\ UNCHANGED <<sessionVars, hostKnown, profile, token, backoff, loop,
                   result, given>>

(* !reconnect_is_active(..) || state != Ready: undo the connect. *)
AttemptStillActive(t) ==
    /\ token
    /\ Goto(t, "check_active", "check_ready")
    /\ UNCHANGED <<sessionVars, hostKnown, profile, token, backoff, loop,
                   result, given>>

AttemptStillReady(t) ==
    /\ state = "Ready"
    /\ Goto(t, "check_ready", "release")
    /\ result' = [result EXCEPT ![t] = "ok"]
    /\ UNCHANGED <<sessionVars, hostKnown, profile, token, backoff, loop, given>>

AttemptCancels(t) ==
    /\ \/ ~token /\ Goto(t, "check_active", "cancelling")
       \/ state # "Ready" /\ Goto(t, "check_ready", "cancelling")
    /\ Disconnect(t)
    /\ UNCHANGED <<hostKnown, profile, token, backoff, loop, result, given>>

AttemptCancelled(t) ==
    /\ Returned(t)
    /\ Fails(t, "cancelling", "Other")
    /\ UNCHANGED <<sessionVars, hostKnown, profile, token, backoff, loop, given>>

-----------------------------------------------------------------------------
(* The end of the spawned attempt *)

(* Mutant: the token is kept after the attempt. *)
AttemptReleaseMutant(t) ==
    /\ Goto(t, "release", "settle")
    /\ UNCHANGED <<sessionVars, hostKnown, profile, token, backoff, loop, result,
                   given>>

(* reconnecting.remove *)
AttemptRelease(t) ==
    /\ token' = FALSE
    /\ Goto(t, "release", "settle")
    /\ UNCHANGED <<sessionVars, hostKnown, profile, backoff, loop, result, given>>

(* The error of a host that is no longer supervised is dropped; credential *)
(* and retryable errors of one that is are marked in the session.          *)
AttemptSettle(t) ==
    /\ \/ /\ result[t] # "ok" /\ ~profile
          /\ Goto(t, "settle", "idle")
          /\ result' = [result EXCEPT ![t] = "none"]
       \/ /\ profile /\ (result[t] = "Credential" \/ retryable(result[t]))
          /\ Goto(t, "settle", "mark")
          /\ UNCHANGED result
       \/ /\ result[t] = "ok" \/ (result[t] = "Other" /\ profile)
          /\ Goto(t, "settle", "reschedule")
          /\ UNCHANGED result
    /\ UNCHANGED <<sessionVars, hostKnown, profile, token, backoff, loop, given>>

(* Credential failures wait for the user; retryable ones keep Reconnecting *)
(* if the session accepts it, and are over like other errors if not.       *)
AttemptMark(t) ==
    /\ Goto(t, "mark", "reschedule")
    /\ \/ /\ result[t] = "Credential"
          /\ mark_waiting_for_credential(t)
          /\ UNCHANGED result
       \/ /\ retryable(result[t])
          /\ mark_reconnecting(t)
          /\ result' = [result EXCEPT ![t] =
                          IF MarkAccepted("Reconnecting") THEN @ ELSE "Other"]
    /\ UNCHANGED <<hostKnown, profile, token, backoff, loop, given>>

(* A retryable error schedules the next attempt, everything else clears    *)
(* the schedule.                                                           *)
AttemptReschedule(t) ==
    /\ Goto(t, "reschedule", "idle")
    /\ backoff' = retryable(result[t])
    /\ result' = [result EXCEPT ![t] = "none"]
    /\ UNCHANGED <<sessionVars, hostKnown, profile, token, loop, given>>

-----------------------------------------------------------------------------
UserStep(u) ==
    \/ PreparedUser(u) \/ PrepareFailedUser(u) \/ ConnectHostReturns(u)
    \/ DropProfile(u) \/ DisconnectHostReturns(u) \/ DeleteRecord(u)

AttemptStep(t) ==
    \/ AttemptRefused(t) \/ AttemptLoad(t) \/ PreparedAttempt(t)
    \/ PrepareFailedAttempt(t) \/ AttemptConnectReturns(t)
    \/ AttemptStillActive(t) \/ AttemptStillReady(t) \/ AttemptCancels(t)
    \/ AttemptCancelled(t) \/ AttemptRelease(t) \/ AttemptSettle(t)
    \/ AttemptMark(t) \/ AttemptReschedule(t)

Tick == TickSnapshot \/ TickState \/ TickSkip \/ TickBound
            \/ \E t \in Attempts : TickAcquire(t)

SessionStep ==
    /\ \/ \E c \in Callers : CallStep(c)
       \/ \E g \in Generation : TransportDrop(g) \/ PumpStep(g)
    /\ UNCHANGED supervisorVars

Next ==
    \/ \E u \in Users : ConnectHost(u) \/ DropToken(u) \/ UserStep(u)
    \/ \E t \in Attempts : AttemptStep(t)
    \/ Wake \/ BackoffElapses \/ Tick
    \/ SessionStep

(* The runtime runs every task that can run, the guard is handed out in    *)
(* order (see SessionFairness), and time passes.  Users need not give      *)
(* commands, peers need not answer, transports need not drop, the machine  *)
(* need not wake.                                                          *)
Fairness ==
    /\ \A u \in Users : WF_vars(UserStep(u))
    /\ \A t \in Attempts : WF_vars(AttemptStep(t))
    /\ WF_vars(BackoffElapses)
    /\ WF_vars(Tick)
    /\ \A c \in Callers :
          /\ WF_vars(LocalStep(c) /\ UNCHANGED supervisorVars)
          /\ SF_vars(AcquireGuard(c) /\ UNCHANGED supervisorVars)
    /\ \A g \in Generation : WF_vars(PumpStep(g) /\ UNCHANGED supervisorVars)

Spec == Init /\ [][Next]_vars /\ Fairness

-----------------------------------------------------------------------------
(* Properties *)

(* Attempts that hold, or think they hold, the reconnecting token. *)
Ended == {"idle", "settle", "mark", "reschedule"}
InFlight == {t \in Attempts : task[t] \notin Ended}

(* The token never outlives its attempt: while reconnecting contains the   *)
(* host, some attempt is in flight that will take it out.  A stranded      *)
(* token would end automatic reconnection of the host for good.            *)
TokenHasAttempt == token => InFlight # {}

(* Attempts are single-flight per host as long as no disconnect or delete  *)
(* has taken the token away from under an attempt.                         *)
SingleFlightUntilDisconnect ==
    ~parted => \A t1, t2 \in InFlight : t1 = t2

(* A disconnect is final: when the commands have returned and no attempt   *)
(* is in flight, a live session is one the user has a profile for.  An     *)
(* attempt that was dialling when the user disconnected takes its          *)
(* transport down again (reconnect_once), and a user's own connect         *)
(* registers the profile.  Left out is the attempt that the supervisor     *)
(* starts from a snapshot older than the disconnect (raced): it finds its  *)
(* token in place and keeps the connection.                                *)
LiveIsSupervised ==
    (/\ ~raced /\ state = "Ready"
     /\ \A u \in Users : task[u] = "idle"
     /\ InFlight = {}) => profile

(* A supervised host that is Reconnecting gets an attempt, unless the user *)
(* takes over or the bounds of the model are used up.                      *)
ReconnectingIsRetried ==
    (profile /\ state = "Reconnecting")
        ~> (InFlight # {} \/ ~profile \/ state # "Reconnecting" \/ ~RoomFor(2))

(* Every command returns, provided that no wait for a peer lasts forever:  *)
(* neither the connect guard nor attempts that keep failing can block a    *)
(* user's connect, disconnect or delete for good.  Without the proviso it  *)
(* is false, for the peers' waits have no deadline and are made under the  *)
(* guard.                                                                  *)
CommandsReturn ==
    (\A c \in Callers : []<>(pc[c] \notin PeerPC))
        => \A u \in Users : (task[u] # "idle") ~> (task[u] = "idle")
=============================================================================
