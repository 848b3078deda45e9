------------------------------ MODULE EventPump ------------------------------
(***************************************************************************)
(* How terminal events travel from a transport to the renderer:            *)
(* SshHandler sends into a bounded queue, pump_events of session.rs routes *)
(* each event to the subscribers of its channel or keeps it for replay,    *)
(* and the task of session_subscribe forwards a subscription to the IPC    *)
(* channel.  Transports are replaced underneath: connect reserves a        *)
(* generation and attach starts a pump for it while the pump of the old    *)
(* transport is still draining.                                            *)
(*                                                                         *)
(* An event is its generation, its SSH channel and its number on that      *)
(* channel; bytes are abstracted and the replay window counts events.      *)
(***************************************************************************)
EXTENDS Integers, Sequences, SequencesExt, FiniteSetsExt

CONSTANTS
    Channels,       \* SSH channel numbers of panes; transports reuse them
    End,            \* the events without a channel: Disconnected, Error
    Subs,           \* subscriptions the renderer may make
    All,            \* the filter of a subscription to everything
    None,           \* no primary is cached
    MaxGeneration,  \* bound on the transports
    Loads,          \* how many events the transports produce, one bound each
    QueueSize,      \* event_buffer_size of a transport
    InboxSize,      \* event_buffer of a subscription
    Headroom,       \* what subscribe adds to the length of a replay
    MaxPending      \* MAX_PENDING_PANE_EVENTS

ASSUME EventAssumption ==
    /\ End \notin Channels /\ All \notin Channels
    /\ None \notin Subs
    /\ MaxGeneration \in Nat
    /\ Loads \subseteq [1 .. MaxGeneration -> Nat] /\ Loads # {}
    /\ {QueueSize, InboxSize, Headroom, MaxPending} \subseteq Nat \ {0}

Generations == 1 .. MaxGeneration
Filters == Channels \cup {All}
Sources == Channels \cup {End}
SessionEvent == [gen : Generations, channel : Sources, n : Nat \ {0}]

VARIABLES
    generation,   \* controller.generation()
    phase,        \* what the holder of the connect guard is doing
    sent,         \* events a transport has produced, per channel
    load,         \* the bound of this behaviour, chosen at the start
    queue,        \* the bounded event stream of a transport
    pump,         \* pump_events of a transport
    subscribers,  \* session.subscribers
    seat,         \* the place of a subscription in the order of registration
    pending,      \* session.pending_events
    inbox,        \* the bounded channel of a subscription
    room,         \* its capacity
    filter,       \* the channel it asked for
    forwarder,    \* the task of session_subscribe
    callback,     \* the renderer still listens on the IPC channel
    received,     \* history: number of the last event the renderer was given
    missed,       \* history: mirrors that lost an event to a full inbox
    evicted,      \* history: events of the current transport pushed out of replay
    stale         \* history: events of a transport routed after it was retired

transportVars == <<generation, phase, sent, load>>
renderVars == <<inbox, room, filter, forwarder, callback, received>>
historyVars == <<missed, evicted, stale>>
pumpVars == <<transportVars, queue, pump, subscribers, seat, pending, renderVars, historyVars>>

Placeholder == [gen |-> 1, channel |-> End, n |-> 1]

Asleep == [pc |-> "none", event |-> Placeholder,
           targets |-> {}, primaries |-> [f \in Filters |-> None]]

Nothing == [g \in Generations |-> [c \in Sources |-> 0]]

PumpInit ==
    /\ generation = 0
    /\ phase = "idle"
    /\ sent = Nothing
    /\ load \in Loads
    /\ queue = [g \in Generations |-> <<>>]
    /\ pump = [g \in Generations |-> Asleep]
    /\ subscribers = {}
    /\ seat = [s \in Subs |-> 0]
    /\ pending = [c \in Channels |-> <<>>]
    /\ inbox = [s \in Subs |-> <<>>]
    /\ room = [s \in Subs |-> 0]
    /\ filter = [s \in Subs |-> All]
    /\ forwarder = [s \in Subs |-> "none"]
    /\ callback = [s \in Subs |-> FALSE]
    /\ received = [s \in Subs |-> Nothing]
    /\ missed = {}
    /\ evicted = [c \in Channels |-> 0]
    /\ stale = [g \in Generations |-> 0]

-----------------------------------------------------------------------------
(* The transport *)

\* connect reserves the next generation, disconnect retires the current one
\* the same way; both hold the connect guard.
ReserveGeneration(next) ==
    /\ phase \in {"idle", "attached"}
    /\ next = "closing" => phase = "attached"
    /\ generation < MaxGeneration
    /\ generation' = generation + 1
    /\ phase' = next
    /\ UNCHANGED <<sent, load, queue, pump, subscribers, seat, pending, renderVars, historyVars>>

\* attach installs the transport: the replay window is emptied and a pump is
\* started; the subscriptions stay.
Attach ==
    /\ phase = "connecting"
    /\ phase' = "attached"
    /\ pending' = [c \in Channels |-> <<>>]
    /\ evicted' = [c \in Channels |-> 0]
    /\ pump' = [pump EXCEPT ![generation].pc = "receiving"]
    /\ UNCHANGED <<generation, sent, load, queue, subscribers, seat, renderVars, missed, stale>>

\* disconnect drops the subscriptions and the replay window.
Teardown ==
    /\ phase = "closing"
    /\ phase' = "idle"
    /\ subscribers' = {}
    /\ pending' = [c \in Channels |-> <<>>]
    /\ UNCHANGED <<generation, sent, load, queue, pump, seat, renderVars, historyVars>>

Produced(g) == MapThenSumSet(LAMBDA c : sent[g][c], Sources)

\* The handler awaits room in the bounded stream; End is the last event.
send_event(g, c) ==
    /\ pump[g].pc # "none"
    /\ Produced(g) < load[g]
    /\ sent[g][End] = 0
    /\ Len(queue[g]) < QueueSize
    /\ sent' = [sent EXCEPT ![g][c] = @ + 1]
    /\ queue' = [queue EXCEPT ![g] = Append(@, [gen |-> g, channel |-> c, n |-> sent[g][c] + 1])]
    /\ UNCHANGED <<generation, phase, load, pump, subscribers, seat, pending, renderVars, historyVars>>

-----------------------------------------------------------------------------
(* pump_events *)

\* Mutant: the generation is not checked.
PumpReceiveMutant(g) ==
    /\ pump[g].pc = "receiving"
    /\ queue[g] # <<>>
    /\ queue' = [queue EXCEPT ![g] = Tail(@)]
    /\ pump' = [pump EXCEPT ![g].pc = "routing", ![g].event = Head(queue[g])]
    /\ UNCHANGED <<transportVars, subscribers, seat, pending, renderVars, historyVars>>

\* An event of a retired transport is discarded; the check is one load, made
\* before any lock is taken.
PumpReceive(g) ==
    /\ pump[g].pc = "receiving"
    /\ queue[g] # <<>>
    /\ queue' = [queue EXCEPT ![g] = Tail(@)]
    /\ pump' = IF generation = g
               THEN [pump EXCEPT ![g].pc = "routing", ![g].event = Head(queue[g])]
               ELSE pump
    /\ UNCHANGED <<transportVars, subscribers, seat, pending, renderVars, historyVars>>

\* A sender whose receiver is gone.
is_closed(s) == forwarder[s] = "done"

\* Mutant: the replay window is not bounded.
push_pending_eventMutant(held, event) == Append(held, event)

\* The oldest events leave the window of a channel when it is over its bound.
\* The bound on its bytes evicts in the same way and is left out.
push_pending_event(held, event) ==
    LET longer == Append(held, event)
    IN  IF Len(longer) > MaxPending THEN Tail(longer) ELSE longer

matches(s, event) == filter[s] = All \/ filter[s] = event.channel

\* The pump after it has left a list of targets to serve: back to its stream
\* when it is empty.  End is the last event of a stream; it goes on to the state
\* machine, which SessionLifecycle models, and the pump ends with its stream.
Serving(p, targets) ==
    IF targets # {} THEN [p EXCEPT !.pc = "sending", !.targets = targets]
    ELSE IF p.event.channel = End THEN [Asleep EXCEPT !.pc = "ended"]
    ELSE [p EXCEPT !.pc = "receiving", !.targets = {}, !.event = Placeholder]

\* Mutant: a subscription to everything counts as a reader of the channel.
PumpRouteMutant(g) ==
    LET event  == pump[g].event
        cached == pump[g].primaries
        open  == {s \in subscribers : ~ is_closed(s)}
        keep  == /\ event.channel \in Channels
                 /\ ~ \E s \in open : matches(s, event)
    IN  /\ pump[g].pc = "routing"
        /\ subscribers' = open
        /\ pending' = IF keep
              THEN [pending EXCEPT ![event.channel] = push_pending_event(@, event)]
              ELSE pending
        /\ evicted' = IF keep /\ Len(pending[event.channel]) = MaxPending
              THEN [evicted EXCEPT ![event.channel] = @ + 1] ELSE evicted
        /\ pump' = [pump EXCEPT ![g] = Serving(
              [@ EXCEPT !.primaries = [f \in Filters |->
                   IF cached[f] # None /\ is_closed(cached[f]) THEN None ELSE cached[f]]],
              {s \in open : matches(s, event)})]
        /\ stale' = IF generation # g THEN [stale EXCEPT ![g] = @ + 1] ELSE stale
        /\ UNCHANGED <<transportVars, queue, seat, renderVars, missed>>

\* Under the lock of the subscribers: dead ones are dropped, the event is kept
\* for replay when no subscription asks for its channel, and the list is copied.
\* Cached primaries that died are dropped as well.
PumpRoute(g) ==
    LET event  == pump[g].event
        cached == pump[g].primaries
        open  == {s \in subscribers : ~ is_closed(s)}
        keep  == /\ event.channel \in Channels
                 /\ \A s \in open : filter[s] # event.channel
    IN  /\ pump[g].pc = "routing"
        /\ subscribers' = open
        /\ pending' = IF keep
              THEN [pending EXCEPT ![event.channel] = push_pending_event(@, event)]
              ELSE pending
        /\ evicted' = IF keep /\ Len(pending[event.channel]) = MaxPending
              THEN [evicted EXCEPT ![event.channel] = @ + 1] ELSE evicted
        /\ pump' = [pump EXCEPT ![g] = Serving(
              [@ EXCEPT !.primaries = [f \in Filters |->
                   IF cached[f] # None /\ is_closed(cached[f]) THEN None ELSE cached[f]]],
              {s \in open : matches(s, event)})]
        /\ stale' = IF generation # g THEN [stale EXCEPT ![g] = @ + 1] ELSE stale
        /\ UNCHANGED <<transportVars, queue, seat, renderVars, missed>>

\* The targets are served in the order of their registration.
IsNext(g, s) ==
    /\ pump[g].pc = "sending" /\ s \in pump[g].targets
    /\ \A r \in pump[g].targets : seat[s] <= seat[r]

Sent(g, s) == inbox' = [inbox EXCEPT ![s] = Append(@, pump[g].event)]

Full(s) == Len(inbox[s]) >= room[s]

\* Mutant: the primary is not waited for either.
PumpSendPrimaryMutant(g, s) ==
    LET f == filter[s]
    IN  /\ IsNext(g, s)
        /\ pump[g].primaries[f] \in {None, s}
        /\ IF is_closed(s) \/ Full(s) THEN UNCHANGED inbox ELSE Sent(g, s)
        /\ pump' = [pump EXCEPT ![g] = Serving(
              [@ EXCEPT !.primaries[f] = IF is_closed(s) THEN None ELSE s], @.targets \ {s})]
        /\ UNCHANGED <<transportVars, queue, subscribers, seat, pending,
                       room, filter, forwarder, callback, received, historyVars>>

\* The first subscription of a filter to take an event becomes its primary:
\* the pump waits for room in it and goes on when its receiver is gone.
PumpSendPrimary(g, s) ==
    LET f == filter[s]
    IN  /\ IsNext(g, s)
        /\ pump[g].primaries[f] \in {None, s}
        /\ is_closed(s) \/ ~ Full(s)
        /\ IF is_closed(s) THEN UNCHANGED inbox ELSE Sent(g, s)
        /\ pump' = [pump EXCEPT ![g] = Serving(
              [@ EXCEPT !.primaries[f] = IF is_closed(s) THEN None ELSE s], @.targets \ {s})]
        /\ UNCHANGED <<transportVars, queue, subscribers, seat, pending,
                       room, filter, forwarder, callback, received, historyVars>>

\* A mirror never holds the pump up; what does not fit is dropped and counted.
PumpSendMirror(g, s) ==
    /\ IsNext(g, s)
    /\ pump[g].primaries[filter[s]] \notin {None, s}
    /\ IF is_closed(s) \/ Full(s)
       THEN missed' = (IF is_closed(s) THEN missed ELSE missed \cup {s}) /\ UNCHANGED inbox
       ELSE Sent(g, s) /\ UNCHANGED missed
    /\ pump' = [pump EXCEPT ![g] = Serving(@, @.targets \ {s})]
    /\ UNCHANGED <<transportVars, queue, subscribers, seat, pending,
                   room, filter, forwarder, callback, received, evicted, stale>>

-----------------------------------------------------------------------------
(* The renderer *)

\* subscribe takes the replay of its channel and registers under the locks the
\* pump routes with; the channel is made large enough for the replay.
Subscribe(s, f) ==
    LET replay == IF f = All THEN <<>> ELSE pending[f]
        wanted == Len(replay) + Headroom
    IN  /\ generation > 0
        /\ forwarder[s] = "none"
        /\ filter' = [filter EXCEPT ![s] = f]
        /\ room' = [room EXCEPT ![s] = IF InboxSize > wanted THEN InboxSize ELSE wanted]
        /\ inbox' = [inbox EXCEPT ![s] = replay]
        /\ pending' = IF f = All THEN pending ELSE [pending EXCEPT ![f] = <<>>]
        /\ subscribers' = subscribers \cup {s}
        /\ seat' = [seat EXCEPT ![s] = 1 + Cardinality({o \in Subs : forwarder[o] # "none"})]
        /\ forwarder' = [forwarder EXCEPT ![s] = "running"]
        /\ callback' = [callback EXCEPT ![s] = TRUE]
        /\ UNCHANGED <<transportVars, queue, pump, received, historyVars>>

\* The task is over and its receiver dropped.
Finish(s) ==
    /\ forwarder' = [forwarder EXCEPT ![s] = "done"]
    /\ callback' = [callback EXCEPT ![s] = FALSE]
    /\ inbox' = [inbox EXCEPT ![s] = <<>>]
    /\ received' = [received EXCEPT ![s] = Nothing]
    /\ missed' = missed \ {s}
    /\ UNCHANGED <<evicted, stale>>

\* Mutant: a forwarder whose renderer is gone holds on to its receiver.
ForwardMutant(s) ==
    LET event == Head(inbox[s]) IN
    /\ forwarder[s] = "running"
    /\ inbox[s] # <<>>
    /\ callback[s]
    /\ received' = [received EXCEPT ![s][event.gen][event.channel] = event.n]
    /\ inbox' = [inbox EXCEPT ![s] = Tail(@)]
    /\ UNCHANGED <<transportVars, queue, pump, subscribers, seat, pending, room, filter,
                   forwarder, callback, historyVars>>

\* The task hands the next event to the renderer, or learns by the failing
\* send that nobody listens and drops its receiver.
Forward(s) ==
    LET event == Head(inbox[s]) IN
    /\ forwarder[s] = "running"
    /\ inbox[s] # <<>>
    /\ IF callback[s]
       THEN /\ received' = [received EXCEPT ![s][event.gen][event.channel] = event.n]
            /\ inbox' = [inbox EXCEPT ![s] = Tail(@)]
            /\ UNCHANGED <<forwarder, callback, historyVars>>
       ELSE Finish(s)
    /\ UNCHANGED <<transportVars, queue, pump, subscribers, seat, pending, room, filter>>

\* Senders of a subscription that are still held somewhere.
HasSender(s) ==
    \/ s \in subscribers
    \/ \E g \in Generations : s \in pump[g].targets \/ pump[g].primaries[filter[s]] = s

\* recv() yields None once the last sender is gone.
ForwardEnds(s) ==
    /\ forwarder[s] = "running"
    /\ inbox[s] = <<>>
    /\ ~ HasSender(s)
    /\ Finish(s)
    /\ UNCHANGED <<transportVars, queue, pump, subscribers, seat, pending, room, filter>>

\* A terminal view goes away: only the IPC callback is unregistered.
Unsubscribe(s) ==
    /\ callback[s]
    /\ callback' = [callback EXCEPT ![s] = FALSE]
    /\ UNCHANGED <<transportVars, queue, pump, subscribers, seat, pending,
                   inbox, room, filter, forwarder, received, historyVars>>

-----------------------------------------------------------------------------
PumpStep(g) ==
    \/ PumpReceive(g) \/ PumpRoute(g)
    \/ \E s \in Subs : PumpSendPrimary(g, s) \/ PumpSendMirror(g, s)

PumpNext ==
    \/ ReserveGeneration("connecting") \/ ReserveGeneration("closing")
    \/ Attach \/ Teardown
    \/ \E g \in Generations : PumpStep(g) \/ \E c \in Sources : send_event(g, c)
    \/ \E s \in Subs : (\E f \in Filters : Subscribe(s, f)) \/ Forward(s) \/ ForwardEnds(s) \/ Unsubscribe(s)

(***************************************************************************)
(* The pumps and the forwarding tasks are spawned on the runtime and the   *)
(* IPC send does not wait, so a forwarding task always reads on.  Users,   *)
(* servers and the holder of the connect guard are not fair.               *)
(***************************************************************************)
PumpFairness ==
    /\ \A g \in Generations : WF_pumpVars(PumpStep(g))
    /\ \A s \in Subs : WF_pumpVars(Forward(s) \/ ForwardEnds(s))

PumpSpec == PumpInit /\ [][PumpNext]_pumpVars /\ PumpFairness

-----------------------------------------------------------------------------
(* Properties *)

\* Every variable keeps its type; inboxes and replay windows stay bounded.
PumpTypeOK ==
    /\ generation \in 0 .. MaxGeneration
    /\ phase \in {"idle", "connecting", "attached", "closing"}
    /\ \A g \in Generations : Len(queue[g]) <= QueueSize /\ ToSet(queue[g]) \subseteq SessionEvent
    /\ \A g \in Generations :
          /\ pump[g].pc \in {"none", "receiving", "routing", "sending", "ended"}
          /\ pump[g].event \in SessionEvent
          /\ pump[g].targets \subseteq Subs
    /\ subscribers \subseteq Subs
    /\ \A c \in Channels : Len(pending[c]) <= MaxPending
    /\ \A s \in Subs : Len(inbox[s]) <= room[s] /\ filter[s] \in Filters
    /\ missed \subseteq Subs

\* The places in an inbox of what waits there of one channel of one transport.
Waiting(s, g, c) == {i \in DOMAIN inbox[s] : inbox[s][i].gen = g /\ inbox[s][i].channel = c}

\* A subscription sees the events of a channel in the order of the wire and
\* without a hole, across the seam between replay and live delivery, across
\* the death of another subscription and its own promotion to primary; only a
\* mirror whose loss was counted in dropped_events may have one.
NoHole ==
    \A s \in Subs \ missed, g \in Generations, c \in Channels : \A i \in Waiting(s, g, c) :
        LET before == {j \in Waiting(s, g, c) : j < i}
        IN  /\ before = {} => received[s][g][c] \in {0, inbox[s][i].n - 1}
            /\ \A j \in before : (\A k \in before : k <= j) => inbox[s][i].n = inbox[s][j].n + 1

\* The first subscription ever made for a channel number starts at the first
\* event the replay window still held: output that arrives before the renderer
\* subscribes cannot fall into the gap, whoever else subscribes to everything.
FirstSubscriptionIsWhole ==
    \A s \in Subs \ missed : \A i \in Waiting(s, generation, filter[s]) :
        (/\ filter[s] \in Channels /\ phase = "attached"
         /\ \A o \in Subs \ {s} : forwarder[o] # "none" => filter[o] # filter[s]
         /\ received[s][generation][filter[s]] = 0
         /\ \A j \in Waiting(s, generation, filter[s]) : i <= j)
        => inbox[s][i].n <= evicted[filter[s]] + 1

\* After a transport is retired its pump lets at most the one event through
\* that was past the generation check: older output does not go on reaching
\* subscriptions or the replay window of the next transport.
AtMostOneStale == \A g \in Generations : stale[g] <= 1

\* What the pump owes its subscriptions whoever subscribes, stalls, dies or
\* reconnects meanwhile: output in order and without a hole, from the first
\* event that is still kept, and at most one event of a retired transport.
EventInv ==
    /\ PumpTypeOK
    /\ NoHole
    /\ FirstSubscriptionIsWhole
    /\ AtMostOneStale

\* The end of a transport passes its pump: no subscription, full, abandoned
\* by its renderer or registered on the side, holds the pump up forever.
EndPassesPump ==
    \A g \in Generations : (sent[g][End] = 1) ~> (queue[g] = <<>> /\ pump[g].pc \in {"receiving", "ended"})
=============================================================================
