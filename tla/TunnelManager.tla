---------------------------- MODULE TunnelManager ----------------------------
(***************************************************************************)
(* The SSH local port forwards of crates/kodework-core/src/tunnel.rs and   *)
(* the calls of SessionManager that open, close and reap them.  A tunnel   *)
(* is an accept loop, a table of join handles of its proxies, a live       *)
(* counter and a cancellation token; open(), close() and                   *)
(* close_all_for_host() of several callers interleave with the loop and    *)
(* with the proxies.                                                       *)
(*                                                                         *)
(* Addresses, ports and bytes are abstracted: an accepted connection is a  *)
(* number, a transport is its generation.                                  *)
(***************************************************************************)
EXTENDS Integers, FiniteSets

CONSTANTS
    Tunnels,        \* runtimes that open() may create
    Hosts,          \* hosts the tunnels belong to
    HostOf,         \* the host_id given to open(), per tunnel
    Closers,        \* concurrent callers of close()
    Reapers,        \* concurrent calls of close_all_for_host()
    NoProc,         \* the close_lock is free
    MaxConns,       \* bound on the connections one loop accepts
    MaxGeneration   \* bound on the transports of a host

ASSUME TunnelAssumption ==
    /\ Tunnels # {}
    /\ HostOf \in [Tunnels -> Hosts]
    /\ MaxConns \in Nat
    /\ MaxGeneration \in Nat
    /\ Closers \cap Reapers = {}
    /\ NoProc \notin Closers \cup Reapers

Procs == Closers \cup Reapers
Conns == 1 .. MaxConns

VARIABLES
    connection,   \* session.connection of each host: a generation, 0 for None
    generation,   \* the last generation attached, per host
    opening,      \* where the open() of a tunnel stands
    registry,     \* TunnelManager.tunnels
    state,        \* TunnelInfo.state
    accept,       \* where the accept loop stands
    handle,       \* accept_task is Some
    cancelled,    \* the cancellation token
    accepted,     \* next_conn of the loop
    proxy,        \* where each proxy task stands
    connections,  \* the join handles held for the proxies
    active,       \* active_connections
    lock,         \* holder of close_lock
    call,         \* the close() a process is in
    reap,         \* the close_all_for_host() a reaper is in
    late          \* history: tunnels entered after a reaper of their host looked

openVars  == <<opening, registry, state>>
loopVars  == <<accept, accepted>>
proxyVars == <<proxy, connections, active>>
closeVars == <<handle, cancelled, lock, call>>
hostVars  == <<connection, generation>>
vars == <<hostVars, openVars, loopVars, proxyVars, closeVars, reap, late>>

TunnelState == {"Creating", "Listening", "Closed", "Failed"}

Idle  == [pc |-> "idle", tunnel |-> CHOOSE t \in Tunnels : TRUE, joins |-> {}]
Asleep == [pc |-> "idle", host |-> CHOOSE h \in Hosts : TRUE, todo |-> {}, seen |-> {}]

\* The tunnels of a host that are in the table.
TunnelsOf(h) == {t \in registry : HostOf[t] = h}

\* Proxies whose ForwardProxyGuard has not been dropped.
Live(t) == {n \in Conns : proxy[t][n] = "running"}

Init ==
    /\ connection = [h \in Hosts |-> 0]
    /\ generation = [h \in Hosts |-> 0]
    /\ opening = [t \in Tunnels |-> "none"]
    /\ registry = {}
    /\ state = [t \in Tunnels |-> "Creating"]
    /\ accept = [t \in Tunnels |-> "none"]
    /\ handle = [t \in Tunnels |-> FALSE]
    /\ cancelled = [t \in Tunnels |-> FALSE]
    /\ accepted = [t \in Tunnels |-> 0]
    /\ proxy = [t \in Tunnels |-> [n \in Conns |-> "none"]]
    /\ connections = [t \in Tunnels |-> {}]
    /\ active = [t \in Tunnels |-> 0]
    /\ lock = [t \in Tunnels |-> NoProc]
    /\ call = [p \in Procs |-> Idle]
    /\ reap = [r \in Reapers |-> Asleep]
    /\ late = {}

-----------------------------------------------------------------------------
(* SessionManager *)

\* open_tunnel reads the connection of the session and enters open(), which
\* waits for the listener to be bound.
OpenTunnel(t) ==
    /\ opening[t] = "none"
    /\ connection[HostOf[t]] # 0
    /\ opening' = [opening EXCEPT ![t] = "binding"]
    /\ UNCHANGED <<hostVars, registry, state, loopVars, proxyVars, closeVars, reap, late>>

\* attach installs the connection of the next generation and spawns
\* close_all_for_host without waiting for it.
Attach(h, r) ==
    /\ generation[h] < MaxGeneration
    /\ reap[r].pc = "idle"
    /\ generation' = [generation EXCEPT ![h] = @ + 1]
    /\ connection' = [connection EXCEPT ![h] = generation[h] + 1]
    /\ reap' = [reap EXCEPT ![r] = [Asleep EXCEPT !.pc = "start", !.host = h]]
    /\ UNCHANGED <<openVars, loopVars, proxyVars, closeVars, late>>

\* disconnect takes the connection and then runs close_all_for_host itself.
Disconnect(h, r) ==
    /\ connection[h] # 0
    /\ reap[r].pc = "idle"
    /\ connection' = [connection EXCEPT ![h] = 0]
    /\ reap' = [reap EXCEPT ![r] = [Asleep EXCEPT !.pc = "start", !.host = h]]
    /\ UNCHANGED <<generation, openVars, loopVars, proxyVars, closeVars, late>>

-----------------------------------------------------------------------------
(* TunnelManager::open *)

\* The address cannot be bound: nothing was created.
BindFails(t) ==
    /\ opening[t] = "binding"
    /\ opening' = [opening EXCEPT ![t] = "failed"]
    /\ UNCHANGED <<hostVars, registry, state, loopVars, proxyVars, closeVars, reap, late>>

\* The listener is bound, the runtime built and the accept loop spawned.
Bound(t) ==
    /\ opening[t] = "binding"
    /\ opening' = [opening EXCEPT ![t] = "spawned"]
    /\ state' = [state EXCEPT ![t] = "Listening"]
    /\ accept' = [accept EXCEPT ![t] = "accepting"]
    /\ handle' = [handle EXCEPT ![t] = TRUE]
    /\ UNCHANGED <<hostVars, registry, accepted, proxyVars, cancelled, lock, call, reap, late>>

\* The runtime enters the table only now: until here no close can find it.
Register(t) ==
    /\ opening[t] = "spawned"
    /\ opening' = [opening EXCEPT ![t] = "done"]
    /\ registry' = registry \cup {t}
    /\ late' = IF \E r \in Reapers : reap[r].pc = "closing" /\ reap[r].host = HostOf[t]
               THEN late \cup {t} ELSE late
    /\ UNCHANGED <<hostVars, state, loopVars, proxyVars, closeVars, reap>>

-----------------------------------------------------------------------------
(* accept_loop *)

\* listener.accept() yields a socket; the loop now waits for forward_channel
\* and does not look at its token while it does.
AcceptConnection(t) ==
    /\ accept[t] = "accepting"
    /\ accepted[t] < MaxConns
    /\ accepted' = [accepted EXCEPT ![t] = @ + 1]
    /\ accept' = [accept EXCEPT ![t] = "forwarding"]
    /\ UNCHANGED <<hostVars, openVars, proxyVars, closeVars, reap, late>>

\* The channel is open: the count is raised before the proxy is spawned.
ForwardOpened(t) ==
    /\ accept[t] = "forwarding"
    /\ active' = [active EXCEPT ![t] = @ + 1]
    /\ proxy' = [proxy EXCEPT ![t][accepted[t]] = "running"]
    /\ accept' = [accept EXCEPT ![t] = "registering"]
    /\ UNCHANGED <<hostVars, openVars, accepted, connections, closeVars, reap, late>>

\* Join handles of finished tasks leave the table.
reap_finished_connections(t, held) == {n \in held : proxy[t][n] # "done"}

\* The handle enters the table after the spawn; the proxy may be gone already.
RegisterProxy(t) ==
    /\ accept[t] = "registering"
    /\ connections' = [connections EXCEPT
           ![t] = reap_finished_connections(t, @ \cup {accepted[t]})]
    /\ accept' = [accept EXCEPT ![t] = "accepting"]
    /\ UNCHANGED <<hostVars, openVars, accepted, proxy, active, closeVars, reap, late>>

\* accept() or forward_channel() fails: the tunnel is Failed, the loop ends and
\* the listener with it; its proxies stay.
LoopFails(t) ==
    /\ accept[t] \in {"accepting", "forwarding"}
    /\ state' = [state EXCEPT ![t] = "Failed"]
    /\ accept' = [accept EXCEPT ![t] = "ended"]
    /\ UNCHANGED <<hostVars, opening, registry, accepted, proxyVars, closeVars, reap, late>>

\* The token is seen at the top of the loop only.
LoopCancelled(t) ==
    /\ accept[t] = "accepting"
    /\ cancelled[t]
    /\ accept' = [accept EXCEPT ![t] = "ended"]
    /\ UNCHANGED <<hostVars, openVars, accepted, proxyVars, closeVars, reap, late>>

\* The proxy task leaves proxy_connection and drops its guard.
ProxyLeaves(t, n) ==
    /\ proxy[t][n] = "running"
    /\ proxy' = [proxy EXCEPT ![t][n] = "released"]
    /\ active' = [active EXCEPT ![t] = @ - 1]
    /\ UNCHANGED <<hostVars, openVars, loopVars, connections, closeVars, reap, late>>

\* One side reaches its end; peers may keep a connection open forever.
ProxyFinishes(t, n) == ProxyLeaves(t, n)

\* Mutant: a proxy needs close_lock to leave.
ProxyCancelledMutant(t, n) ==
    /\ cancelled[t]
    /\ lock[t] = NoProc
    /\ ProxyLeaves(t, n)

\* The shared token ends a proxy whatever its peers do.  (One that is already
\* shutting down its other side no longer looks at the token; that last write is
\* taken to end.)
ProxyCancelled(t, n) ==
    /\ cancelled[t]
    /\ ProxyLeaves(t, n)

\* Only then does the task drop its own join handle; the loop may insert the
\* handle later.
ProxyForgets(t, n) ==
    /\ proxy[t][n] = "released"
    /\ proxy' = [proxy EXCEPT ![t][n] = "forgotten"]
    /\ connections' = [connections EXCEPT ![t] = @ \ {n}]
    /\ UNCHANGED <<hostVars, openVars, loopVars, active, closeVars, reap, late>>

\* The task has returned: is_finished() holds and the handle can be joined.
ProxyReturns(t, n) ==
    /\ proxy[t][n] = "forgotten"
    /\ proxy' = [proxy EXCEPT ![t][n] = "done"]
    /\ UNCHANGED <<hostVars, openVars, loopVars, connections, active, closeVars, reap, late>>

\* list() reaps the handles of finished proxies of every tunnel.
List ==
    /\ \E t \in registry : reap_finished_connections(t, connections[t]) # connections[t]
    /\ connections' = [t \in Tunnels |->
           IF t \in registry THEN reap_finished_connections(t, connections[t]) ELSE connections[t]]
    /\ UNCHANGED <<hostVars, openVars, loopVars, proxy, active, closeVars, reap, late>>

-----------------------------------------------------------------------------
(* TunnelManager::close *)

Enter(p, t) == call' = [call EXCEPT ![p] = [Idle EXCEPT !.pc = "locking", !.tunnel = t]]

\* A tunnel_close command finds the runtime in the table.
Close(c, t) ==
    /\ call[c].pc = "idle"
    /\ t \in registry
    /\ Enter(c, t)
    /\ UNCHANGED <<hostVars, openVars, loopVars, proxyVars, handle, cancelled, lock, reap, late>>

\* Mutant: close does not wait for a close in progress.
CloseLockMutant(p) ==
    LET t == call[p].tunnel IN
    /\ call[p].pc = "locking"
    /\ lock' = [lock EXCEPT ![t] = p]
    /\ cancelled' = [cancelled EXCEPT ![t] = TRUE]
    /\ handle' = [handle EXCEPT ![t] = FALSE]
    /\ call' = [call EXCEPT ![p].pc = IF handle[t] THEN "joining" ELSE "draining"]
    /\ UNCHANGED <<hostVars, openVars, loopVars, proxyVars, reap, late>>

\* Under close_lock the token is cancelled and the accept task taken.
CloseLock(p) ==
    LET t == call[p].tunnel IN
    /\ call[p].pc = "locking"
    /\ lock[t] = NoProc
    /\ lock' = [lock EXCEPT ![t] = p]
    /\ cancelled' = [cancelled EXCEPT ![t] = TRUE]
    /\ handle' = [handle EXCEPT ![t] = FALSE]
    /\ call' = [call EXCEPT ![p].pc = IF handle[t] THEN "joining" ELSE "draining"]
    /\ UNCHANGED <<hostVars, openVars, loopVars, proxyVars, reap, late>>

\* The accept task is awaited.
CloseJoinAccept(p) ==
    /\ call[p].pc = "joining"
    /\ accept[call[p].tunnel] = "ended"
    /\ call' = [call EXCEPT ![p].pc = "draining"]
    /\ UNCHANGED <<hostVars, openVars, loopVars, proxyVars, handle, cancelled, lock, reap, late>>

\* The table of proxies is emptied into the list of tasks to await.
CloseDrain(p) ==
    LET t == call[p].tunnel IN
    /\ call[p].pc = "draining"
    /\ call' = [call EXCEPT ![p].pc = "awaiting", ![p].joins = connections[t]]
    /\ connections' = [connections EXCEPT ![t] = {}]
    /\ UNCHANGED <<hostVars, openVars, loopVars, proxy, active, handle, cancelled, lock, reap, late>>

\* Mutant: close does not await the proxies it drained.
CloseFinishMutant(p) ==
    LET t == call[p].tunnel IN
    /\ call[p].pc = "awaiting"
    /\ active' = [active EXCEPT ![t] = 0]
    /\ state' = [state EXCEPT ![t] = "Closed"]
    /\ lock' = [lock EXCEPT ![t] = NoProc]
    /\ call' = [call EXCEPT ![p] = Idle]
    /\ UNCHANGED <<hostVars, opening, registry, loopVars, proxy, connections, handle, cancelled, reap, late>>

\* Every drained proxy has been awaited: the count is normalised, the tunnel
\* is Closed and the lock is given back.
CloseFinish(p) ==
    LET t == call[p].tunnel IN
    /\ call[p].pc = "awaiting"
    /\ \A n \in call[p].joins : proxy[t][n] = "done"
    /\ active' = [active EXCEPT ![t] = 0]
    /\ state' = [state EXCEPT ![t] = "Closed"]
    /\ lock' = [lock EXCEPT ![t] = NoProc]
    /\ call' = [call EXCEPT ![p] = Idle]
    /\ UNCHANGED <<hostVars, opening, registry, loopVars, proxy, connections, handle, cancelled, reap, late>>

-----------------------------------------------------------------------------
(* TunnelManager::close_all_for_host *)

\* Mutant: tunnels that are still being created are not reaped.
ReapSnapshotMutant(r) ==
    LET mine == {t \in TunnelsOf(reap[r].host) : state[t] = "Listening"} IN
    /\ reap[r].pc = "start"
    /\ reap' = [reap EXCEPT ![r].pc = "closing", ![r].todo = mine, ![r].seen = mine]
    /\ UNCHANGED <<hostVars, openVars, loopVars, proxyVars, closeVars, late>>

\* The ids of the host are copied; nothing is locked while they are closed.
ReapSnapshot(r) ==
    LET mine == TunnelsOf(reap[r].host) IN
    /\ reap[r].pc = "start"
    /\ reap' = [reap EXCEPT ![r].pc = "closing", ![r].todo = mine, ![r].seen = mine]
    /\ UNCHANGED <<hostVars, openVars, loopVars, proxyVars, closeVars, late>>

\* They are closed one after the other; an id no longer in the table is done.
ReapNext(r, t) ==
    /\ reap[r].pc = "closing"
    /\ call[r].pc = "idle"
    /\ t \in reap[r].todo
    /\ reap' = [reap EXCEPT ![r].todo = @ \ {t}]
    /\ IF t \in registry THEN Enter(r, t) ELSE UNCHANGED call
    /\ UNCHANGED <<hostVars, openVars, loopVars, proxyVars, handle, cancelled, lock, late>>

\* Every tunnel of the host leaves the table, also one entered meanwhile.
ReapForget(r) ==
    /\ reap[r].pc = "closing"
    /\ call[r].pc = "idle"
    /\ reap[r].todo = {}
    /\ registry' = registry \ TunnelsOf(reap[r].host)
    /\ reap' = [reap EXCEPT ![r] = Asleep]
    /\ UNCHANGED <<hostVars, opening, state, loopVars, proxyVars, closeVars, late>>

-----------------------------------------------------------------------------
CloseStep(p) == CloseLock(p) \/ CloseJoinAccept(p) \/ CloseDrain(p) \/ CloseFinish(p)

ReapStep(r) == ReapSnapshot(r) \/ ReapForget(r) \/ \E t \in Tunnels : ReapNext(r, t)

OpenStep(t) == BindFails(t) \/ Bound(t) \/ Register(t)

\* What the loop does by itself or when the transport answers.
LoopStep(t) == ForwardOpened(t) \/ RegisterProxy(t) \/ LoopCancelled(t)

Next ==
    \/ \E h \in Hosts, r \in Reapers : Attach(h, r) \/ Disconnect(h, r)
    \/ \E t \in Tunnels :
          \/ OpenTunnel(t) \/ OpenStep(t)
          \/ AcceptConnection(t) \/ LoopStep(t) \/ LoopFails(t)
          \/ \E n \in Conns :
                \/ ProxyFinishes(t, n) \/ ProxyCancelled(t, n)
                \/ ProxyForgets(t, n) \/ ProxyReturns(t, n)
          \/ \E c \in Closers : Close(c, t)
    \/ List
    \/ \E p \in Procs : CloseStep(p)
    \/ \E r \in Reapers : ReapStep(r)

(***************************************************************************)
(* Every task the runtime scheduled runs; forward_channel is taken to      *)
(* answer (the keepalive ends a dead transport; a peer that is alive and   *)
(* silent would keep the accept loop, and with it a close); a proxy is     *)
(* only sure to end when its token is cancelled.                           *)
(***************************************************************************)
Fairness ==
    /\ \A t \in Tunnels :
          /\ WF_vars(LoopStep(t))
          /\ \A n \in Conns :
                /\ WF_vars(ProxyCancelled(t, n))
                /\ WF_vars(ProxyForgets(t, n) \/ ProxyReturns(t, n))
    /\ \A p \in Procs : SF_vars(CloseLock(p)) /\ WF_vars(CloseStep(p))
    /\ \A r \in Reapers : WF_vars(ReapStep(r))

Spec == Init /\ [][Next]_vars /\ Fairness

-----------------------------------------------------------------------------
(* Properties *)

\* Every variable keeps its type.
TypeOK ==
    /\ connection \in [Hosts -> 0 .. MaxGeneration]
    /\ generation \in [Hosts -> 0 .. MaxGeneration]
    /\ opening \in [Tunnels -> {"none", "binding", "failed", "spawned", "done"}]
    /\ registry \subseteq Tunnels
    /\ state \in [Tunnels -> TunnelState]
    /\ accept \in [Tunnels -> {"none", "accepting", "forwarding", "registering", "ended"}]
    /\ handle \in [Tunnels -> BOOLEAN]
    /\ cancelled \in [Tunnels -> BOOLEAN]
    /\ accepted \in [Tunnels -> 0 .. MaxConns]
    /\ proxy \in [Tunnels -> [Conns -> {"none", "running", "released", "forgotten", "done"}]]
    /\ connections \in [Tunnels -> SUBSET Conns]
    /\ active \in [Tunnels -> 0 .. MaxConns]
    /\ lock \in [Tunnels -> Procs \cup {NoProc}]
    /\ call \in [Procs -> [pc : {"idle", "locking", "joining", "draining", "awaiting"},
                           tunnel : Tunnels, joins : SUBSET Conns]]
    /\ reap \in [Reapers -> [pc : {"idle", "start", "closing"}, host : Hosts,
                             todo : SUBSET Tunnels, seen : SUBSET Tunnels]]
    /\ late \subseteq Tunnels

\* No listener and no proxy of a tunnel is left.
Quiet(t) == accept[t] \in {"none", "ended"} /\ Live(t) = {}

\* active_connections counts the proxies that hold their guard, at every
\* moment: the unconditional store(0) of close() never meets a proxy that
\* will still subtract itself (the u32 would wrap), whichever of close, the
\* loop's late insertion of a handle and the proxy's own removal comes first.
CountIsLive == \A t \in Tunnels : active[t] = Cardinality(Live(t))

\* A tunnel shown as Closed has no listener and no connection any more, also
\* when several close() calls overlap ("Idempotent, including concurrent
\* calls") or the loop was inside forward_channel when its token was cancelled.
ClosedIsQuiet == \A t \in Tunnels : state[t] = "Closed" => Quiet(t)

\* A tunnel that close_all_for_host dropped from the table has nothing left,
\* unless it entered the table between the snapshot and the final retain: that
\* one keeps its listener and nothing can close it any more.
ForgottenIsQuiet ==
    \A t \in Tunnels :
        (opening[t] = "done" /\ t \notin registry /\ t \notin late) => Quiet(t)

\* The state of the tunnels is sound whatever order opens, closes, proxies and
\* close_all_for_host come in: counters match the proxies, and what is closed
\* or forgotten has neither a listener nor a connection.
TunnelInv ==
    /\ TypeOK
    /\ CountIsLive
    /\ ClosedIsQuiet
    /\ ForgottenIsQuiet

\* Every close(), of a command or inside close_all_for_host, returns, however
\* long the peers of its connections stay.
ClosesReturn == \A p \in Procs : (call[p].pc # "idle") ~> (call[p].pc = "idle")
=============================================================================
