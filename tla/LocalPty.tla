------------------------------ MODULE LocalPty ------------------------------
(***************************************************************************)
(* Local terminals: kodework-local-pty/src/lib.rs and its commands.  open, *)
(* close and shutdown run on command threads and lock the registry only    *)
(* for single look-ups; every terminal has a reader thread that emits what *)
(* it reads to the subscriber or to a bounded backlog, and every           *)
(* subscription has a task that forwards its queue to the renderer.        *)
(*                                                                         *)
(* The pseudoconsole is external: the reader sees its end when the master  *)
(* is dropped, or when the child is gone and no descendant of it keeps the *)
(* console open.                                                           *)
(***************************************************************************)
EXTENDS Integers, Sequences, FiniteSets, SequencesExt

CONSTANTS
    Callers,       \* threads in a command
    MaxSessions,   \* MAX_SESSIONS
    MaxPending,    \* MAX_PENDING_EVENTS
    EventQueue,    \* EVENT_QUEUE
    Loads,         \* what an instance does: [opens, chunks, subs]
    MaxId, MaxSub  \* bounds on terminals and subscriptions

ASSUME LocalPtyAssumption ==
    /\ MaxSessions \in Nat \ {0}
    /\ MaxPending \in Nat \ {0}
    /\ EventQueue \in Nat /\ EventQueue >= MaxPending
    /\ {MaxId, MaxSub} \subseteq Nat
    /\ Loads \subseteq [opens : 0 .. MaxId, chunks : Nat, subs : 0 .. MaxSub]

Ids == 1 .. MaxId
Subs == 1 .. MaxSub
None == 0

VARIABLES
    load,       \* the load of this behaviour
    sessions,   \* LocalTerminalManager.sessions
    next_id,    \* LocalTerminalManager.next_id
    master,     \* terminals whose master handle is held
    running,    \* terminals whose child is running
    lingering,  \* terminals whose console a descendant keeps open
    hung_up,    \* history: terminals dropped without a kill that worked
    reader,     \* the reader thread of a terminal
    emitted,    \* number of events a reader made
    subscriber, \* LocalSession.subscriber
    pending,    \* LocalSession.pending
    subs,       \* number of subscriptions so far
    target,     \* the terminal of a subscription
    subscribed, \* where a subscribe call is: "none", "set" or "done"
    receiver,   \* whether a subscription's receiver is alive
    stream,     \* history: everything put in a subscription's queue
    taken,      \* how much of it the forwarder took
    raced,      \* history: terminals where a subscribe overlapped an emit
    command        \* the command a caller is in

registryVars == <<sessions, next_id>>
consoleVars == <<master, running, lingering, hung_up>>
emitVars == <<reader, emitted>>
sessionVars == <<subscriber, pending>>
subVars == <<subs, target, subscribed, receiver, stream, taken>>
ptyVars == <<load, registryVars, consoleVars, emitVars, sessionVars, subVars, raced, command>>

Idle == [pc |-> "idle", id |-> None, todo |-> {}]
NoReader == [pc |-> "none", event |-> 0, sender |-> None, last |-> FALSE]

PtyInit ==
    /\ load \in Loads
    /\ sessions = {} /\ next_id = 1
    /\ master = {} /\ running = {} /\ lingering = {} /\ hung_up = {}
    /\ reader = [t \in Ids |-> NoReader]
    /\ emitted = [t \in Ids |-> 0]
    /\ subscriber = [t \in Ids |-> None]
    /\ pending = [t \in Ids |-> <<>>]
    /\ subs = 0
    /\ target = [s \in Subs |-> None]
    /\ subscribed = [s \in Subs |-> "none"]
    /\ receiver = [s \in Subs |-> FALSE]
    /\ stream = [s \in Subs |-> <<>>]
    /\ taken = [s \in Subs |-> 0]
    /\ raced = {}
    /\ command = [u \in Callers |-> Idle]

Goto(u, pc) == command' = [command EXCEPT ![u].pc = pc]
Return(u) == command' = [command EXCEPT ![u] = Idle]
GotoReader(t, pc) == reader' = [reader EXCEPT ![t].pc = pc]

-----------------------------------------------------------------------------
(* open *)

\* Capacity is looked at, and the registry is released.
OpenCheck(u) ==
    /\ command[u].pc = "idle"
    /\ next_id <= load.opens
    /\ Cardinality(sessions) < MaxSessions
    /\ Goto(u, "checked")
    /\ UNCHANGED <<load, registryVars, consoleVars, emitVars, sessionVars, subVars, raced>>

\* No such shell or distribution, or no pseudoconsole: the error is returned.
OpenFails(u) ==
    /\ command[u].pc = "checked"
    /\ Return(u)
    /\ UNCHANGED <<load, registryVars, consoleVars, emitVars, sessionVars, subVars, raced>>

\* The id is taken and the shell is spawned; its tree may keep the console.
OpenSpawn(u) ==
    /\ command[u].pc = "checked"
    /\ next_id <= load.opens
    /\ next_id' = next_id + 1
    /\ master' = master \cup {next_id}
    /\ running' = running \cup {next_id}
    /\ \/ lingering' = lingering \cup {next_id}
       \/ UNCHANGED lingering
    /\ command' = [command EXCEPT ![u].pc = "spawned", ![u].id = next_id]
    /\ UNCHANGED <<load, sessions, hung_up, emitVars, sessionVars, subVars, raced>>

\* No reader or writer handle: the pty, with its master, is dropped; nobody
\* kills the shell.
HandlesFail(u) ==
    /\ command[u].pc = "spawned"
    /\ master' = master \ {command[u].id}
    /\ hung_up' = hung_up \cup {command[u].id}
    /\ Return(u)
    /\ UNCHANGED <<load, registryVars, running, lingering, emitVars, sessionVars, subVars, raced>>

\* A kill is tried once and its failure ignored.
Kill(t) ==
    \/ running' = running \ {t} /\ UNCHANGED hung_up
    \/ hung_up' = hung_up \cup {t} /\ UNCHANGED running

\* Mutant: the limit is not checked again after the spawn.
OpenInsertMutant(u) ==
    /\ command[u].pc = "spawned"
    /\ sessions' = sessions \cup {command[u].id}
    /\ Goto(u, "inserted")
    /\ UNCHANGED <<load, next_id, consoleVars, emitVars, sessionVars, subVars, raced>>

\* Mutant: the loser of the last slot does not kill its shell.
OpenInsertLeaves(u) ==
    /\ command[u].pc = "spawned"
    /\ IF Cardinality(sessions) >= MaxSessions
       THEN /\ master' = master \ {command[u].id}
            /\ Return(u)
            /\ UNCHANGED sessions
       ELSE /\ sessions' = sessions \cup {command[u].id}
            /\ Goto(u, "inserted")
            /\ UNCHANGED master
    /\ UNCHANGED <<load, next_id, running, lingering, hung_up, emitVars, sessionVars, subVars, raced>>

\* The bound is looked at again under the lock that inserts; a terminal over
\* it is killed and dropped.
OpenInsert(u) ==
    /\ command[u].pc = "spawned"
    /\ IF Cardinality(sessions) >= MaxSessions
       THEN /\ Kill(command[u].id)
            /\ master' = master \ {command[u].id}
            /\ Return(u)
            /\ UNCHANGED sessions
       ELSE /\ sessions' = sessions \cup {command[u].id}
            /\ Goto(u, "inserted")
            /\ UNCHANGED <<running, master, hung_up>>
    /\ UNCHANGED <<load, next_id, lingering, emitVars, sessionVars, subVars, raced>>

\* The reader thread starts and open returns the descriptor.
spawn_reader(u) ==
    /\ command[u].pc = "inserted"
    /\ GotoReader(command[u].id, "read")
    /\ Return(u)
    /\ UNCHANGED <<load, registryVars, consoleVars, emitted, sessionVars, subVars, raced>>

\* Mutant: a terminal without a reader stays registered.
SpawnReaderFailsMutant(u) ==
    /\ command[u].pc = "inserted"
    /\ running' = running \ {command[u].id}
    /\ Return(u)
    /\ UNCHANGED <<load, registryVars, master, lingering, hung_up, emitVars, sessionVars, subVars, raced>>

\* No thread: the terminal leaves the registry, is killed and dropped.
SpawnReaderFails(u) ==
    /\ command[u].pc = "inserted"
    /\ sessions' = sessions \ {command[u].id}
    /\ Kill(command[u].id)
    /\ master' = master \ {command[u].id}
    /\ Return(u)
    /\ UNCHANGED <<load, next_id, lingering, emitVars, sessionVars, subVars, raced>>

-----------------------------------------------------------------------------
(* close and shutdown *)

\* The terminal leaves the registry first; a second close finds it missing.
Unregister(u, t, todo) ==
    /\ t \in sessions
    /\ sessions' = sessions \ {t}
    /\ command' = [command EXCEPT ![u] = [pc |-> "killing", id |-> t, todo |-> todo]]
    /\ UNCHANGED <<load, next_id, consoleVars, emitVars, sessionVars, subVars, raced>>

close(u, t) == command[u].pc = "idle" /\ Unregister(u, t, {})

\* The child's lock may be held by the reader, which reaps it.
CloseKill(u) ==
    LET t == command[u].id IN
    /\ command[u].pc = "killing"
    /\ reader[t].pc # "reap"
    /\ Kill(t)
    /\ Goto(u, "dropping")
    /\ UNCHANGED <<load, registryVars, master, lingering, emitVars, sessionVars, subVars, raced>>

\* Dropping the master closes the pseudoconsole, which ends the reader.
CloseMaster(u) ==
    /\ command[u].pc = "dropping"
    /\ master' = master \ {command[u].id}
    /\ IF command[u].todo = {} THEN Return(u) ELSE Goto(u, "shutdown")
    /\ UNCHANGED <<load, registryVars, running, lingering, hung_up, emitVars, sessionVars, subVars, raced>>

\* shutdown closes the terminals of one look at the registry, one by one.
shutdown(u) ==
    /\ command[u].pc = "idle"
    /\ sessions # {}
    /\ command' = [command EXCEPT ![u] = [pc |-> "shutdown", id |-> None, todo |-> sessions]]
    /\ UNCHANGED <<load, registryVars, consoleVars, emitVars, sessionVars, subVars, raced>>

ShutdownNext(u) ==
    /\ command[u].pc = "shutdown"
    /\ \E t \in command[u].todo :
        LET rest == command[u].todo \ {t} IN
        IF t \in sessions THEN Unregister(u, t, rest)
        ELSE /\ command' = [command EXCEPT ![u] = IF rest = {} THEN Idle ELSE [@ EXCEPT !.todo = rest]]
             /\ UNCHANGED <<load, registryVars, consoleVars, emitVars, sessionVars, subVars, raced>>

\* The child exits by itself or because its console was closed.
ChildExits(t) ==
    /\ t \in running
    /\ running' = running \ {t}
    /\ UNCHANGED <<load, registryVars, master, lingering, hung_up, emitVars, sessionVars, subVars, raced, command>>

-----------------------------------------------------------------------------
(* The reader thread *)

ConsoleEnded(t) == t \notin master \/ (t \notin running /\ t \notin lingering)

\* An event is made; it is numbered in the order of the terminal's output.
Make(t, last) ==
    /\ emitted' = [emitted EXCEPT ![t] = @ + 1]
    /\ reader' = [reader EXCEPT ![t] = [pc |-> "clone", event |-> emitted[t] + 1,
                                         sender |-> None, last |-> last]]
    /\ UNCHANGED <<load, registryVars, consoleVars, sessionVars, subVars, raced, command>>

ReadData(t) ==
    /\ reader[t].pc = "read"
    /\ t \in master
    /\ emitted[t] < load.chunks
    /\ Make(t, FALSE)

\* End of output: the child is to be reaped, under its lock.
ReadEof(t) ==
    /\ reader[t].pc = "read"
    /\ ConsoleEnded(t)
    /\ GotoReader(t, "reap")
    /\ UNCHANGED <<load, registryVars, consoleVars, emitted, sessionVars, subVars, raced, command>>

\* Mutant: the status is waited for without a bound.
child_exit_codeMutant(t) ==
    /\ reader[t].pc = "reap"
    /\ t \notin running
    /\ Make(t, TRUE)

\* child_exit_code waits a bounded time for the status, which stays unknown
\* when the child is still there.
child_exit_code(t) ==
    /\ reader[t].pc = "reap"
    /\ Make(t, TRUE)

ReadError(t) ==
    /\ reader[t].pc = "read"
    /\ Make(t, TRUE)

\* The thread ends after the event that reports the end.
AfterEmit(t) == reader' = [reader EXCEPT ![t] = [NoReader EXCEPT
                               !.pc = IF reader[t].last THEN "end" ELSE "read"]]

\* A subscribe call of the terminal is between its two steps.
Subscribing(t) == \E s \in Subs : target[s] = t /\ subscribed[s] = "set"
Emitting(t) == reader[t].pc \in {"clone", "send", "clear", "push"}
MarkRace(t, overlap) == raced' = IF overlap THEN raced \cup {t} ELSE raced

\* emit clones the sender under the subscriber's lock.
EmitClone(t) ==
    /\ reader[t].pc = "clone"
    /\ reader' = [reader EXCEPT ![t].sender = subscriber[t],
                                ![t].pc = IF subscriber[t] = None THEN "push" ELSE "send"]
    /\ MarkRace(t, Subscribing(t))
    /\ UNCHANGED <<load, registryVars, consoleVars, emitted, sessionVars, subVars, command>>

Room(s) == Len(stream[s]) - taken[s] < EventQueue

\* blocking_send waits for room in the queue of a living receiver.
EmitSend(t) ==
    LET s == reader[t].sender IN
    /\ reader[t].pc = "send"
    /\ receiver[s] /\ Room(s)
    /\ stream' = [stream EXCEPT ![s] = Append(@, reader[t].event)]
    /\ AfterEmit(t)
    /\ UNCHANGED <<load, registryVars, consoleVars, emitted, sessionVars, subs, target,
                   subscribed, receiver, taken, raced, command>>

EmitFails(t) ==
    /\ reader[t].pc = "send"
    /\ ~receiver[reader[t].sender]
    /\ GotoReader(t, "clear")
    /\ UNCHANGED <<load, registryVars, consoleVars, emitted, sessionVars, subVars, raced, command>>

\* Whatever subscriber is there now is taken for the dead one.
EmitClear(t) ==
    /\ reader[t].pc = "clear"
    /\ subscriber' = [subscriber EXCEPT ![t] = None]
    /\ GotoReader(t, "push")
    /\ UNCHANGED <<load, registryVars, consoleVars, emitted, pending, subVars, raced, command>>

\* Mutant: the newest event is evicted.
EmitPushMutant(t) ==
    /\ reader[t].pc = "push"
    /\ pending' = [pending EXCEPT ![t] =
           Append(IF Len(@) >= MaxPending THEN Front(@) ELSE @, reader[t].event)]
    /\ AfterEmit(t)
    /\ UNCHANGED <<load, registryVars, consoleVars, emitted, subscriber, subVars, raced, command>>

\* A full backlog loses its oldest event.
EmitPush(t) ==
    /\ reader[t].pc = "push"
    /\ pending' = [pending EXCEPT ![t] =
           Append(IF Len(@) >= MaxPending THEN Tail(@) ELSE @, reader[t].event)]
    /\ AfterEmit(t)
    /\ UNCHANGED <<load, registryVars, consoleVars, emitted, subscriber, subVars, raced, command>>

-----------------------------------------------------------------------------
(* Subscriptions *)

\* The new sender replaces the old one ...
SubscribeSet(t) ==
    LET s == subs + 1 IN
    /\ t \in sessions
    /\ subs < load.subs
    /\ subs' = s
    /\ target' = [target EXCEPT ![s] = t]
    /\ subscribed' = [subscribed EXCEPT ![s] = "set"]
    /\ receiver' = [receiver EXCEPT ![s] = TRUE]
    /\ subscriber' = [subscriber EXCEPT ![t] = s]
    /\ MarkRace(t, Emitting(t) \/ Subscribing(t))
    /\ UNCHANGED <<load, registryVars, consoleVars, emitVars, pending, stream, taken, command>>

\* Mutant: the backlog is copied instead of drained.
SubscribeDrainMutant(s) ==
    LET t == target[s] IN
    /\ subscribed[s] = "set"
    /\ subscribed' = [subscribed EXCEPT ![s] = "done"]
    /\ stream' = [stream EXCEPT ![s] = @ \o pending[t]]
    /\ MarkRace(t, Emitting(t))
    /\ UNCHANGED <<load, registryVars, consoleVars, emitVars, sessionVars, subs, target, receiver,
                   taken, command>>

\* ... and the backlog is moved to its queue, as far as there is room.
SubscribeDrain(s) ==
    LET t == target[s]
        room == EventQueue - (Len(stream[s]) - taken[s])
        moved == SubSeq(pending[t], 1, IF room < Len(pending[t]) THEN room ELSE Len(pending[t]))
    IN  /\ subscribed[s] = "set"
        /\ subscribed' = [subscribed EXCEPT ![s] = "done"]
        /\ stream' = [stream EXCEPT ![s] = @ \o moved]
        /\ pending' = [pending EXCEPT ![t] = <<>>]
        /\ MarkRace(t, Emitting(t))
        /\ UNCHANGED <<load, registryVars, consoleVars, emitVars, subscriber, subs, target, receiver,
                       taken, command>>

\* A sender of the subscription's queue still exists.
HasSender(s) ==
    LET t == target[s] IN
    \/ subscribed[s] = "set"
    \/ reader[t].sender = s
    \/ subscriber[t] = s /\ (t \in sessions \/ reader[t].pc \notin {"none", "end"})

\* The forwarder gives an event to the renderer.
Forward(s) ==
    /\ subscribed[s] = "done" /\ receiver[s]
    /\ taken[s] < Len(stream[s])
    /\ taken' = [taken EXCEPT ![s] = @ + 1]
    /\ UNCHANGED <<load, registryVars, consoleVars, emitVars, sessionVars, subs, target,
                   subscribed, receiver, stream, raced, command>>

\* It ends when the renderer is gone, which a send tells it, or when all
\* senders are.
ForwardEnds(s) ==
    /\ subscribed[s] = "done" /\ receiver[s]
    /\ taken[s] < Len(stream[s]) \/ ~HasSender(s)
    /\ receiver' = [receiver EXCEPT ![s] = FALSE]
    /\ UNCHANGED <<load, registryVars, consoleVars, emitVars, sessionVars, subs, target,
                   subscribed, stream, taken, raced, command>>

-----------------------------------------------------------------------------
OpenStep(u) ==
    \/ OpenCheck(u) \/ OpenFails(u) \/ OpenSpawn(u) \/ HandlesFail(u)
    \/ OpenInsert(u) \/ spawn_reader(u) \/ SpawnReaderFails(u)

CloseStep(u) == CloseKill(u) \/ CloseMaster(u) \/ ShutdownNext(u)

EmitStep(t) ==
    EmitClone(t) \/ EmitSend(t) \/ EmitFails(t) \/ EmitClear(t) \/ EmitPush(t)

ReaderStep(t) == ReadEof(t) \/ child_exit_code(t) \/ EmitStep(t)

PtyNext ==
    \/ \E u \in Callers : OpenStep(u) \/ CloseStep(u) \/ shutdown(u) \/ \E t \in Ids : close(u, t)
    \/ \E t \in Ids : ReaderStep(t) \/ ReadData(t) \/ ReadError(t) \/ ChildExits(t) \/ SubscribeSet(t)
    \/ \E s \in Subs : SubscribeDrain(s) \/ Forward(s) \/ ForwardEnds(s)

\* Threads and tasks that can go on do; what the shell does is up to the shell.
PtyFairness ==
    /\ \A u \in Callers : WF_ptyVars(CloseStep(u))
    /\ \A t \in Ids : WF_ptyVars(ReaderStep(t))
    /\ \A s \in Subs : WF_ptyVars(SubscribeDrain(s)) /\ WF_ptyVars(Forward(s))

PtySpec == PtyInit /\ [][PtyNext]_ptyVars /\ PtyFairness

-----------------------------------------------------------------------------
(* Properties *)

InHand == {command[u].id : u \in Callers}

\* Every variable keeps its type; the registry never holds more terminals than
\* MAX_SESSIONS, although open spawns the shell without its lock, and a backlog
\* never more events than MAX_PENDING_EVENTS.
TypeOK ==
    /\ load \in Loads
    /\ sessions \subseteq Ids /\ Cardinality(sessions) <= MaxSessions
    /\ next_id \in 1 .. MaxId + 1
    /\ master \subseteq Ids /\ running \subseteq Ids /\ lingering \subseteq Ids /\ hung_up \subseteq Ids
    /\ \A t \in Ids : subscriber[t] \in Subs \cup {None} /\ Len(pending[t]) <= MaxPending
    /\ subs \in 0 .. MaxSub
    /\ raced \subseteq Ids

\* What open reported can be heard of: a registered terminal has a reader, or
\* its reader has reported the end, or its open is still on the way.
RegisteredHasReader ==
    \A t \in sessions : reader[t].pc # "none" \/ t \in InHand

\* No shell is left behind: a running one is registered, so that a close or a
\* shutdown will kill it, or a call still has it in hand, whichever of two
\* opens, a close and a shutdown got the terminal first.  Only a shell whose
\* kill failed, or whose open got no handles of its console, is left to notice
\* that the console is gone, and its console is.
NoOrphanShell == running \subseteq sessions \cup InHand \cup (hung_up \ master)

\* Over the seam of backlog and live delivery a subscription gets consecutive
\* events, the first of them the oldest that was not evicted, as long as no
\* subscribe call of the terminal overlapped an emit: the two take the locks
\* of subscriber and backlog one after the other.
StreamIsWholeUnlessRaced ==
    \A s \in Subs : subs >= s /\ target[s] \notin raced =>
        \A i \in 1 .. Len(stream[s]) - 1 : stream[s][i + 1] = stream[s][i] + 1

\* However subscribe and emit interleave, no event is delivered twice, neither
\* in one stream nor in two of the same terminal, nor kept for a next one.
DeliveredOnce ==
    \A s, r \in Subs : target[s] = target[r] /\ target[s] # None =>
        \A i \in 1 .. Len(stream[s]) :
            /\ \A j \in 1 .. Len(stream[r]) : stream[s][i] = stream[r][j] => s = r /\ i = j
            /\ ~Contains(pending[target[s]], stream[s][i])

\* The registry, the shells and the streams agree under overlapping open,
\* close, shutdown, subscribe and emit: no terminal without a reader, no shell
\* that nobody will kill, every event delivered at most once and in order.
TerminalInv ==
    /\ TypeOK
    /\ RegisteredHasReader
    /\ NoOrphanShell
    /\ StreamIsWholeUnlessRaced
    /\ DeliveredOnce

\* The reader of a closed terminal ends, also when descendants of the shell
\* keep the console open and when its renderer is gone or slow.
ClosedReaderEnds ==
    \A t \in Ids : (t < next_id /\ t \notin sessions \cup InHand) ~> (reader[t].pc \in {"none", "end"})
=============================================================================
