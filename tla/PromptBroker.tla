---------------------------- MODULE PromptBroker ----------------------------
(***************************************************************************)
(* The two brokers that put a question to the user in the middle of an SSH *)
(* handshake: `HostKeyBroker' (is this server key to be trusted?) and      *)
(* `KeyboardInteractiveBroker' (one-time codes and the like).              *)
(*                                                                         *)
(* A check registers a oneshot sender under its request id, announces the  *)
(* question to the renderer, and waits for an answer or its deadline. The  *)
(* answer, the deadline, a cancellation by the owner and the abort of the  *)
(* connection race; each takes the two mutexes (`requests', `pending') one *)
(* after the other, so that every pair of steps may be interleaved.        *)
(*                                                                         *)
(* Request ids come from a counter and are never used twice: a check and   *)
(* its id are the same thing here, whichever broker it belongs to. A key   *)
(* stands for its fingerprint and its blob.                                *)
(***************************************************************************)
EXTENDS FiniteSets

CONSTANTS
    Owners,      \* workstations
    Callers,     \* threads that run the commands of the renderer
    HostChecks,      \* checks of a workstation's own key, trusted by HostId
    BastionChecks,   \* checks of a jump host's key, trusted by endpoint
    KeyboardChecks,  \* keyboard-interactive rounds
    OwnerOf,     \* `owner_host_id' of a check
    EndpointOf,  \* hostname and port of a check
    Endpoints,
    Keys,
    Algorithms,
    AlgorithmOf, \* of a key
    None

Checks == HostChecks \cup BastionChecks \cup KeyboardChecks
KeyChecks == HostChecks \cup BastionChecks

ASSUME BrokerAssumption ==
    /\ KeyboardChecks \cap KeyChecks = {} /\ HostChecks \cap BastionChecks = {}
    /\ OwnerOf \in [Checks -> Owners]
    /\ EndpointOf \in [Checks -> Endpoints]
    /\ AlgorithmOf \in [Keys -> Algorithms]
    /\ None \notin Checks \cup Keys \cup Owners \cup [key : Keys, blob : BOOLEAN]

VARIABLES
    pc,            \* where each check stands
    key,           \* the key its server presented
    slot,          \* what was sent through its oneshot channel
    verdict,       \* how it ended
    requests,      \* checks whose sender is in the broker's table
    pending,       \* checks whose question the renderer can see
    hostKeys,      \* trusted keys by HostId and algorithm
    endpointKeys,  \* trusted keys by endpoint
    at,            \* where each caller stands in an answer or a cancellation
    job,           \* the request it works on
    choice,        \* the answer it delivers
    batch,         \* the workstation whose requests it cancels
    todo,          \* the rest of its snapshot
    given,         \* history: checks their owner has agreed to
    cancelled      \* history: checks that some cancellation is done with

checkVars == <<pc, key, slot, verdict>>
tables == <<requests, pending>>
store == <<hostKeys, endpointKeys>>
callerVars == <<at, job, choice, batch, todo>>
history == <<given, cancelled>>
vars == <<checkVars, tables, store, callerVars, history>>

Trusting == {"TrustOnce", "TrustAndSave"}
Decisions == Trusting \cup {"Reject", "Responses"}

(* looking: before the lookup. promoting: a legacy record is copied.       *)
(* registering, announcing: before the insert into requests and pending.   *)
(* waiting: in the await. expired: the deadline has passed, the receiver   *)
(* still exists. saving: TrustAndSave is being persisted. ending, leaving: *)
(* the guard's forget, before the first and before the second table.       *)
Steps == {"idle", "looking", "promoting", "registering", "announcing", "waiting",
          "expired", "saving", "ending", "leaving", "done"}

(* Known: Ok, the key was on record. Answered: Ok, on the word of the user.*)
(* Failed: any of the errors (changed, rejected, cancelled, timed out,     *)
(* store unavailable, ...), or aborted.                                    *)
Verdicts == {"none", "Known", "Answered", "Failed"}

Records == [key : Keys, blob : BOOLEAN]

Init ==
    /\ pc = [c \in Checks |-> "idle"]
    /\ key = [c \in Checks |-> None]
    /\ slot = [c \in Checks |-> "none"]
    /\ verdict = [c \in Checks |-> "none"]
    /\ requests = {} /\ pending = {}
    /\ hostKeys = [o \in Owners |-> [a \in Algorithms |-> None]]
    \* Rows of earlier versions, some without the key blob.
    /\ endpointKeys \in [Endpoints -> Records \cup {None}]
    /\ at = [u \in Callers |-> "idle"]
    /\ job = [u \in Callers |-> None]
    /\ choice = [u \in Callers |-> "none"]
    /\ batch = [u \in Callers |-> None]
    /\ todo = [u \in Callers |-> {}]
    /\ given = {} /\ cancelled = {}

(***************************************************************************)
(* The store of trusted keys.                                              *)
(***************************************************************************)

get_for_host(o, a) == hostKeys[o][a]

get(e) == endpointKeys[e]

\* A host's record, else the legacy record of its endpoint if the algorithm fits.
lookup_for_host_match_algorithm(o, e, a) ==
    IF get_for_host(o, a) # None THEN get_for_host(o, a)
    ELSE IF get(e) # None /\ AlgorithmOf[get(e).key] = a THEN get(e)
    ELSE None

save_for_host(o, k) ==
    /\ hostKeys' = [hostKeys EXCEPT ![o][AlgorithmOf[k]] = [key |-> k, blob |-> TRUE]]
    /\ UNCHANGED endpointKeys

save(e, k) ==
    /\ endpointKeys' = [endpointKeys EXCEPT ![e] = [key |-> k, blob |-> TRUE]]
    /\ UNCHANGED hostKeys

\* What verify_for_connection finds: the match arm on `host_id'.
Saved(c) ==
    IF c \in HostChecks
    THEN lookup_for_host_match_algorithm(OwnerOf[c], EndpointOf[c], AlgorithmOf[key[c]])
    ELSE get(EndpointOf[c])

Persist(c) ==
    IF c \in HostChecks THEN save_for_host(OwnerOf[c], key[c])
    ELSE save(EndpointOf[c], key[c])

(***************************************************************************)
(* A check. Every return after the guard exists runs forget; the returns   *)
(* before it are final.                                                    *)
(***************************************************************************)

Goto(c, step) == pc' = [pc EXCEPT ![c] = step]

\* `return': the locals go, the receiver among them, and the guard, if there is
\* one, is dropped.
Conclude(c, result) ==
    /\ verdict' = [verdict EXCEPT ![c] = result]
    /\ key' = [key EXCEPT ![c] = None]
    /\ slot' = [slot EXCEPT ![c] = "none"]
    /\ Goto(c, IF pc[c] \in {"idle", "looking", "promoting"} THEN "done" ELSE "ending")

Active(c) == pc[c] \notin {"idle", "done"}

\* Mutant: connects of one host overlap.
MayStartMutant(c) == pc[c] = "idle"

\* One connect at a time per host: connect_guard is held while candidates and
\* jump host are dialled one after the other.
MayStart(c) == pc[c] = "idle" /\ \A d \in Checks : OwnerOf[d] = OwnerOf[c] => ~Active(d)

\* The server presents key k.
check_server_key(c, k) ==
    /\ c \in KeyChecks /\ MayStart(c)
    /\ key' = [key EXCEPT ![c] = k]
    /\ Goto(c, "looking")
    /\ UNCHANGED <<slot, verdict, tables, store, callerVars, history>>

\* The store cannot be read.
LookupFails(c) ==
    /\ pc[c] = "looking"
    /\ Conclude(c, "Failed")
    /\ UNCHANGED <<tables, store, callerVars, history>>

\* Known: trusted at once, unless a complete legacy record is to be promoted.
LookupMatches(c) ==
    /\ pc[c] = "looking"
    /\ Saved(c) # None /\ Saved(c).key = key[c]
    /\ IF c \in HostChecks /\ Saved(c).blob /\
            get_for_host(OwnerOf[c], AlgorithmOf[key[c]]) = None
       THEN Goto(c, "promoting") /\ UNCHANGED <<key, slot, verdict>>
       ELSE Conclude(c, "Known")
    /\ UNCHANGED <<tables, store, callerVars, history>>

\* HostKeyChanged.
LookupDiffers(c) ==
    /\ pc[c] = "looking"
    /\ Saved(c) # None /\ Saved(c).key # key[c]
    /\ Conclude(c, "Failed")
    /\ UNCHANGED <<tables, store, callerVars, history>>

LookupUnknown(c) ==
    /\ pc[c] = "looking"
    /\ Saved(c) = None
    /\ Goto(c, "registering")
    /\ UNCHANGED <<key, slot, verdict, tables, store, callerVars, history>>

\* promote_legacy_for_host; its failure is a failure of the check.
Promote(c) ==
    /\ pc[c] = "promoting"
    /\ \/ Persist(c) /\ Conclude(c, "Known")
       \/ Conclude(c, "Failed") /\ UNCHANGED store
    /\ UNCHANGED <<tables, callerVars, history>>

\* A keyboard-interactive round begins; more than 32 prompts are refused.
prompt_for_connection(c) ==
    /\ c \in KeyboardChecks /\ MayStart(c)
    /\ \/ Goto(c, "registering") /\ UNCHANGED <<key, slot, verdict>>
       \/ Conclude(c, "Failed")
    /\ UNCHANGED <<tables, store, callerVars, history>>

Register(c) ==
    /\ pc[c] = "registering"
    /\ requests' = requests \cup {c}
    /\ Goto(c, "announcing")
    /\ UNCHANGED <<key, slot, verdict, pending, store, callerVars, history>>

Announce(c) ==
    /\ pc[c] = "announcing"
    /\ pending' = pending \cup {c}
    /\ Goto(c, "waiting")
    /\ UNCHANGED <<key, slot, verdict, requests, store, callerVars, history>>

Delivering(u, c) == at[u] = "sending" /\ job[u] = c

\* The sender was dropped unused.
Dropped(c) == c \notin requests /\ slot[c] = "none" /\ \A u \in Callers : ~Delivering(u, c)

\* The answer of a host-key check arrives.
ReceiveDecision(c) ==
    /\ c \in KeyChecks /\ pc[c] = "waiting"
    /\ \/ slot[c] = "TrustOnce" /\ Conclude(c, "Answered")
       \/ slot[c] = "TrustAndSave" /\ Goto(c, "saving") /\ UNCHANGED <<key, slot, verdict>>
       \/ (slot[c] = "Reject" \/ Dropped(c)) /\ Conclude(c, "Failed")
    /\ UNCHANGED <<tables, store, callerVars, history>>

ReceiveResponses(c) ==
    /\ c \in KeyboardChecks /\ pc[c] = "waiting"
    /\ \/ slot[c] = "Responses" /\ Conclude(c, "Answered")
       \/ Dropped(c) /\ Conclude(c, "Failed")
    /\ UNCHANGED <<tables, store, callerVars, history>>

SaveTrusted(c) ==
    /\ pc[c] = "saving"
    /\ \/ Persist(c) /\ Conclude(c, "Answered")
       \/ Conclude(c, "Failed") /\ UNCHANGED store
    /\ UNCHANGED <<tables, callerVars, history>>

\* Mutant: no deadline.
ExpireMutant(c) == pc[c] = "expired" /\ UNCHANGED vars

\* The deadline of `tokio::time::timeout': the receiver is polled first.
Expire(c) ==
    /\ pc[c] = "waiting" /\ slot[c] = "none" /\ ~Dropped(c)
    /\ Goto(c, "expired")
    /\ UNCHANGED <<key, slot, verdict, tables, store, callerVars, history>>

\* The timeout is dropped, and the receiver with it.
CloseReceiver(c) ==
    /\ pc[c] = "expired"
    /\ Conclude(c, "Failed")
    /\ UNCHANGED <<tables, store, callerVars, history>>

\* The connection's task is dropped in the await.
Abort(c) ==
    /\ pc[c] = "waiting"
    /\ Conclude(c, "Failed")
    /\ UNCHANGED <<tables, store, callerVars, history>>

ForgetSender(c) ==
    /\ pc[c] = "ending"
    /\ requests' = requests \ {c}
    /\ Goto(c, "leaving")
    /\ UNCHANGED <<key, slot, verdict, pending, store, callerVars, history>>

\* Mutant: forget cleans only the table of senders.
ForgetPromptMutant(c) ==
    /\ pc[c] = "leaving"
    /\ Goto(c, "done")
    /\ UNCHANGED <<key, slot, verdict, tables, store, callerVars, history>>

ForgetPrompt(c) ==
    /\ pc[c] = "leaving"
    /\ pending' = pending \ {c}
    /\ Goto(c, "done")
    /\ UNCHANGED <<key, slot, verdict, requests, store, callerVars, history>>

(***************************************************************************)
(* Commands of the renderer. An answer that is refused at once (the        *)
(* request is not pending for this workstation) changes nothing.           *)
(***************************************************************************)

pending_for_owner(o) == {c \in pending : OwnerOf[c] = o}

\* Mutant: the workstation is not compared.
OwnedMutant(o, c) == c \in pending

Owned(o, c) == c \in pending_for_owner(o)

\* `answer' is about to run for request c.
Deliver(u, c, d) ==
    /\ at' = [at EXCEPT ![u] = "taking"]
    /\ job' = [job EXCEPT ![u] = c]
    /\ choice' = [choice EXCEPT ![u] = d]

answer_for_owner(u, o, c, d) ==
    /\ at[u] = "idle"
    /\ Owned(o, c)
    /\ Deliver(u, c, d)
    /\ given' = IF OwnerOf[c] = o /\ d # "Reject" THEN given \cup {c} ELSE given
    /\ UNCHANGED <<checkVars, tables, store, batch, todo, cancelled>>

answer_host_key(u, o) ==
    \E c \in KeyChecks, d \in Trusting \cup {"Reject"} : answer_for_owner(u, o, c, d)

answer_keyboard_interactive(u, o) ==
    \E c \in KeyboardChecks : answer_for_owner(u, o, c, "Responses")

\* Done with request c: the call returns, or its loop goes on.
Finish(u, c) ==
    /\ at' = [at EXCEPT ![u] = IF todo'[u] = {} THEN "idle" ELSE "cancelling"]
    /\ job' = [job EXCEPT ![u] = None]
    /\ choice' = [choice EXCEPT ![u] = "none"]
    /\ batch' = [batch EXCEPT ![u] = IF todo'[u] = {} THEN None ELSE @]
    /\ cancelled' = IF batch[u] = None THEN cancelled ELSE cancelled \cup {c}
    /\ UNCHANGED given

TakeSender(u) ==
    /\ at[u] = "taking"
    /\ UNCHANGED <<checkVars, pending, store, todo>>
    /\ IF job[u] \in requests
       THEN /\ requests' = requests \ {job[u]}
            /\ at' = [at EXCEPT ![u] = "sending"]
            /\ UNCHANGED <<job, choice, batch, history>>
       ELSE Finish(u, job[u]) /\ UNCHANGED requests

ReceiverOpen(c) == pc[c] \in {"announcing", "waiting", "expired"}

\* `deliver_answer' for responses: what cannot be sent is wiped.
Send(u) ==
    /\ at[u] = "sending"
    /\ UNCHANGED <<pc, key, verdict, tables, store, todo>>
    /\ IF ReceiverOpen(job[u])
       THEN /\ slot' = [slot EXCEPT ![job[u]] = choice[u]]
            /\ at' = [at EXCEPT ![u] = "retaining"]
            /\ UNCHANGED <<job, choice, batch, history>>
       ELSE Finish(u, job[u]) /\ UNCHANGED slot

Retain(u) ==
    /\ at[u] = "retaining"
    /\ pending' = pending \ {job[u]}
    /\ UNCHANGED <<checkVars, requests, store, todo>>
    /\ Finish(u, job[u])

\* connect_host, disconnect_host and delete_host cancel the questions of both
\* brokers before they wait for the session. An empty snapshot changes nothing.
cancel_for_owner(u, o, broker) ==
    /\ at[u] = "idle"
    /\ pending_for_owner(o) \cap broker # {}
    /\ at' = [at EXCEPT ![u] = "cancelling"]
    /\ batch' = [batch EXCEPT ![u] = o]
    /\ todo' = [todo EXCEPT ![u] = pending_for_owner(o) \cap broker]
    /\ UNCHANGED <<checkVars, tables, store, job, choice, history>>

\* An entry of the snapshot is rejected by answer_for_owner, if it is still pending.
CancelHostKey(u, c) ==
    /\ at[u] = "cancelling" /\ c \in todo[u] \cap KeyChecks
    /\ todo' = [todo EXCEPT ![u] = @ \ {c}]
    /\ UNCHANGED <<checkVars, tables, store>>
    /\ IF Owned(batch[u], c)
       THEN Deliver(u, c, "Reject") /\ UNCHANGED <<batch, history>>
       ELSE Finish(u, c)

\* Mutant: the question is withdrawn, its sender kept.
CancelKeyboardMutant(u, c) ==
    /\ at[u] = "cancelling" /\ c \in todo[u] \cap KeyboardChecks
    /\ todo' = [todo EXCEPT ![u] = @ \ {c}]
    /\ at' = [at EXCEPT ![u] = "retaining"]
    /\ job' = [job EXCEPT ![u] = c]
    /\ UNCHANGED <<checkVars, tables, store, choice, batch, history>>

\* Dropping the sender makes the authenticator return Cancelled.
CancelKeyboard(u, c) ==
    /\ at[u] = "cancelling" /\ c \in todo[u] \cap KeyboardChecks
    /\ todo' = [todo EXCEPT ![u] = @ \ {c}]
    /\ requests' = requests \ {c}
    /\ at' = [at EXCEPT ![u] = "retaining"]
    /\ job' = [job EXCEPT ![u] = c]
    /\ UNCHANGED <<checkVars, pending, store, choice, batch, history>>

-----------------------------------------------------------------------------
CheckStep(c) ==
    \/ LookupFails(c) \/ LookupMatches(c) \/ LookupDiffers(c) \/ LookupUnknown(c)
    \/ Promote(c) \/ Register(c) \/ Announce(c)
    \/ ReceiveDecision(c) \/ ReceiveResponses(c) \/ SaveTrusted(c)
    \/ Expire(c) \/ CloseReceiver(c) \/ ForgetSender(c) \/ ForgetPrompt(c)

CallerStep(u) ==
    \/ TakeSender(u) \/ Send(u) \/ Retain(u)
    \/ \E c \in Checks : CancelHostKey(u, c) \/ CancelKeyboard(u, c)

Next ==
    \/ \E c \in Checks :
          \/ \E k \in Keys : check_server_key(c, k)
          \/ prompt_for_connection(c) \/ CheckStep(c) \/ Abort(c)
    \/ \E u \in Callers :
          \/ \E o \in Owners :
                \/ answer_host_key(u, o) \/ answer_keyboard_interactive(u, o)
                \/ cancel_for_owner(u, o, KeyChecks) \/ cancel_for_owner(u, o, KeyboardChecks)
          \/ CallerStep(u)

\* Tasks run and timers fire; users need not answer.
Fairness == \A c \in Checks : WF_vars(CheckStep(c))

Spec == Init /\ [][Next]_vars /\ Fairness

-----------------------------------------------------------------------------
(***************************************************************************)
(* Properties.                                                             *)
(***************************************************************************)

(* Every variable has its type; a caller that works on a request knows     *)
(* which one, and a cancellation for whom it is made.                      *)
PromptTypeOK ==
    /\ pc \in [Checks -> Steps]
    /\ key \in [Checks -> Keys \cup {None}]
    /\ slot \in [Checks -> Decisions \cup {"none"}]
    /\ verdict \in [Checks -> Verdicts]
    /\ requests \subseteq Checks /\ pending \subseteq Checks
    /\ hostKeys \in [Owners -> [Algorithms -> Records \cup {None}]]
    /\ endpointKeys \in [Endpoints -> Records \cup {None}]
    /\ at \in [Callers -> {"idle", "taking", "sending", "retaining", "cancelling"}]
    /\ job \in [Callers -> Checks \cup {None}]
    /\ choice \in [Callers -> Decisions \cup {"none"}]
    /\ batch \in [Callers -> Owners \cup {None}]
    /\ todo \in [Callers -> SUBSET Checks]
    /\ given \subseteq Checks /\ cancelled \subseteq Checks
    /\ \A u \in Callers :
          /\ at[u] \in {"taking", "sending", "retaining"} => job[u] \in Checks
          /\ at[u] \in {"taking", "sending"} => choice[u] \in Decisions
          /\ at[u] = "cancelling" => batch[u] \in Owners

(* "Unconditional acceptance is never allowed": a connection goes on with  *)
(* an unknown key only if its own workstation agreed to this very request, *)
(* and with responses only if they are its owner's, however answers,       *)
(* deadlines, cancellations and failed saves cross.                        *)
TrustIsGiven ==
    \A c \in Checks : verdict[c] = "Answered" => c \in given

\* The check no longer depends on an answer to come.
Awake(c) == slot[c] # "none" \/ Dropped(c) \/ pc[c] # "waiting"

(* Once a cancellation is done with a question it saw, nobody can answer   *)
(* it any more, and the check does not sit out its deadline: it is awake,  *)
(* or an answer taken before the cancellation is being delivered.          *)
CancelWakes ==
    \A c \in cancelled :
        /\ c \notin requests
        /\ Awake(c) \/ \E u \in Callers : Delivering(u, c)

(* A check that has ended, by whatever way, has left both tables: no       *)
(* dialog without a connection, no sender that nobody waits for.           *)
NothingLeftBehind ==
    \A c \in Checks : pc[c] = "done" => c \notin requests \cup pending

(* "A changed fingerprint is a hard failure": the key on record for a      *)
(* workstation and an algorithm is never replaced by another, although the *)
(* lookup is made long before the save or the promotion it justifies.      *)
PinnedKeyStays ==
    [][\A o \in Owners, a \in Algorithms :
          hostKeys[o][a] # None =>
              hostKeys'[o][a] # None /\ hostKeys'[o][a].key = hostKeys[o][a].key]_vars

(* Every check ends: no handshake waits for ever for a user.               *)
ChecksEnd ==
    \A c \in Checks : pc[c] # "idle" ~> pc[c] = "done"
=============================================================================
