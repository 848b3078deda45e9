------------------------- MODULE TunnelManagerProofs -------------------------
(***************************************************************************)
(* Tunnels are sound for any number of tunnels, hosts, callers of close()  *)
(* and calls of close_all_for_host.                                        *)
(*                                                                         *)
(* TunnelInv is not inductive: that a finished close() leaves nothing      *)
(* behind depends on where every running proxy is known (its handle in the *)
(* table, in the hands of the loop, or in the list of the one close() that *)
(* drained it) and on close_lock keeping that close() alone.  IInv says    *)
(* both, and that a close_all_for_host still has to do, is doing or has    *)
(* done every tunnel of its host that did not arrive late.                 *)
(***************************************************************************)
EXTENDS TunnelManager, TLAPS, FiniteSetTheorems

InLock == {"joining", "draining", "awaiting"}

\* close_lock is held exactly by the close() that is past it.
LockFits ==
    \A t \in Tunnels, p \in Procs :
        lock[t] = p <=> (call[p].pc \in InLock /\ call[p].tunnel = t)

\* Only open() makes a tunnel: before it binds there is nothing of it, and
\* what the table, a close() or a reaper names has been opened.
OpenFits ==
    /\ \A t \in Tunnels :
          IF opening[t] \in {"spawned", "done"} THEN accept[t] # "none"
          ELSE accept[t] = "none" /\ state[t] = "Creating"
    /\ \A t \in registry : opening[t] = "done"
    /\ \A p \in Procs : call[p].pc # "idle" => opening[call[p].tunnel] = "done"

\* A proxy belongs to a connection the loop accepted, and to an earlier one
\* than the connection it is still opening a channel for.
ProxiesFit ==
    \A t \in Tunnels :
        /\ accept[t] \in {"forwarding", "registering"} => accepted[t] # 0
        /\ \A n \in Conns : proxy[t][n] # "none" =>
              n <= accepted[t] /\ (accept[t] = "forwarding" => n # accepted[t])

\* The accept task ends, is still to be taken, or is being awaited by the
\* close() that took it; past that wait it has ended.
HandleFits ==
    /\ \A t \in Tunnels : opening[t] \in {"spawned", "done"} =>
          \/ handle[t]
          \/ accept[t] = "ended"
          \/ \E p \in Procs : call[p].pc = "joining" /\ call[p].tunnel = t
    /\ \A p \in Procs : call[p].pc \in {"draining", "awaiting"} =>
          accept[call[p].tunnel] = "ended"

\* Every running proxy will be awaited: its handle is in the table, about to
\* enter it, or in the list of the close() that drained the table.
ProxiesHeld ==
    \A t \in Tunnels : \A n \in Conns : proxy[t][n] = "running" =>
        \/ n \in connections[t]
        \/ accept[t] = "registering" /\ n = accepted[t]
        \/ \E p \in Procs :
              call[p].pc = "awaiting" /\ call[p].tunnel = t /\ n \in call[p].joins

\* Nothing enters the table again once a close() has drained it.
DrainedIsEmpty ==
    \A p \in Procs : call[p].pc = "awaiting" => connections[call[p].tunnel] = {}

\* close_all_for_host misses no tunnel of its host but the late ones.
ReapFits ==
    \A r \in Reapers : reap[r].pc = "closing" =>
        \A t \in TunnelsOf(reap[r].host) :
            \/ t \in late \cup reap[r].todo
            \/ call[r].pc # "idle" /\ call[r].tunnel = t
            \/ Quiet(t)

IInv ==
    /\ TunnelInv
    /\ LockFits /\ OpenFits /\ ProxiesFit /\ HandleFits
    /\ ProxiesHeld /\ DrainedIsEmpty /\ ReapFits

-----------------------------------------------------------------------------
(* Which steps touch what *)

Calls == [pc : {"idle", "locking", "joining", "draining", "awaiting"},
          tunnel : Tunnels, joins : SUBSET Conns]
Reaps == [pc : {"idle", "start", "closing"}, host : Hosts,
          todo : SUBSET Tunnels, seen : SUBSET Tunnels]

\* The idle records are well typed.
LEMMA IdleIsTyped ==
    /\ Idle.pc = "idle" /\ Idle.tunnel \in Tunnels /\ Idle.joins = {}
    /\ Asleep.pc = "idle" /\ Asleep.host \in Hosts
BY TunnelAssumption DEF Idle, Asleep

\* Entering close() changes the record of the caller only.
LEMMA EnterEffect ==
    ASSUME TypeOK, NEW p \in Procs, NEW t \in Tunnels, Enter(p, t)
    PROVE  /\ call' \in [Procs -> Calls]
           /\ \A q \in Procs : q # p => call'[q] = call[q]
           /\ call'[p].pc = "locking" /\ call'[p].tunnel = t
BY IdleIsTyped DEF TypeOK, Enter, Idle, Calls

\* Only close() and the reaper's calls of it touch close_lock and the calls.
LEMMA CallFrame ==
    ASSUME [Next]_vars
    PROVE  \/ UNCHANGED <<lock, call>>
           \/ \E c \in Closers, t \in Tunnels : Close(c, t)
           \/ \E p \in Procs : CloseStep(p)
           \/ \E r \in Reapers, t \in Tunnels : ReapNext(r, t) /\ Enter(r, t)
<1> USE DEF closeVars
<1>1. CASE UNCHANGED vars \/ List \/ \E h \in Hosts, r \in Reapers : Attach(h, r) \/ Disconnect(h, r)
  BY <1>1 DEF vars, List, Attach, Disconnect
<1>2. ASSUME NEW t \in Tunnels, OpenTunnel(t) \/ OpenStep(t) PROVE UNCHANGED <<lock, call>>
  BY <1>2 DEF OpenTunnel, OpenStep, BindFails, Bound, Register
<1>3. ASSUME NEW t \in Tunnels, AcceptConnection(t) \/ LoopStep(t) \/ LoopFails(t)
      PROVE  UNCHANGED <<lock, call>>
  BY <1>3 DEF AcceptConnection, LoopStep, ForwardOpened, RegisterProxy, LoopCancelled, LoopFails
<1>4. ASSUME NEW t \in Tunnels, NEW n \in Conns,
             ProxyFinishes(t, n) \/ ProxyCancelled(t, n) \/ ProxyForgets(t, n) \/ ProxyReturns(t, n)
      PROVE  UNCHANGED <<lock, call>>
  BY <1>4 DEF ProxyFinishes, ProxyCancelled, ProxyLeaves, ProxyForgets, ProxyReturns
<1>5. ASSUME NEW r \in Reapers, ReapStep(r)
      PROVE  UNCHANGED <<lock, call>> \/ \E t \in Tunnels : ReapNext(r, t) /\ Enter(r, t)
  BY <1>5 DEF ReapStep, ReapSnapshot, ReapForget, ReapNext
<1> QED BY <1>1, <1>2, <1>3, <1>4, <1>5 DEF Next

\* Only open() and the loop touch where the loop stands and what it accepted.
LEMMA LoopFrame ==
    ASSUME [Next]_vars
    PROVE  \/ UNCHANGED loopVars
           \/ \E t \in Tunnels :
                 \/ Bound(t) \/ AcceptConnection(t) \/ ForwardOpened(t)
                 \/ RegisterProxy(t) \/ LoopCancelled(t) \/ LoopFails(t)
<1> USE DEF loopVars
<1>1. CASE UNCHANGED vars \/ List \/ \E h \in Hosts, r \in Reapers : Attach(h, r) \/ Disconnect(h, r)
  BY <1>1 DEF vars, List, Attach, Disconnect
<1>2. ASSUME NEW t \in Tunnels, OpenTunnel(t) \/ OpenStep(t) PROVE UNCHANGED loopVars \/ Bound(t)
  BY <1>2 DEF OpenTunnel, OpenStep, BindFails, Register
<1>3. ASSUME NEW t \in Tunnels, LoopStep(t)
      PROVE  ForwardOpened(t) \/ RegisterProxy(t) \/ LoopCancelled(t)
  BY <1>3 DEF LoopStep
<1>4. ASSUME NEW t \in Tunnels, NEW n \in Conns,
             ProxyFinishes(t, n) \/ ProxyCancelled(t, n) \/ ProxyForgets(t, n) \/ ProxyReturns(t, n)
      PROVE  UNCHANGED loopVars
  BY <1>4 DEF ProxyFinishes, ProxyCancelled, ProxyLeaves, ProxyForgets, ProxyReturns
<1>5. ASSUME NEW t \in Tunnels, NEW c \in Closers, Close(c, t) PROVE UNCHANGED loopVars
  BY <1>5 DEF Close
<1>6. ASSUME NEW p \in Procs, CloseStep(p) PROVE UNCHANGED loopVars
  BY <1>6 DEF CloseStep, CloseLock, CloseJoinAccept, CloseDrain, CloseFinish
<1>7. ASSUME NEW r \in Reapers, ReapStep(r) PROVE UNCHANGED loopVars
  BY <1>7 DEF ReapStep, ReapSnapshot, ReapForget, ReapNext
<1> QED BY <1>1, <1>2, <1>3, <1>4, <1>5, <1>6, <1>7 DEF Next

\* Only open() moves an opening and adds to the ones that came late.
LEMMA OpenFrame ==
    ASSUME [Next]_vars
    PROVE  UNCHANGED <<opening, late>> \/ \E u \in Tunnels : OpenTunnel(u) \/ OpenStep(u)
<1> USE DEF openVars
<1>1. CASE UNCHANGED vars \/ List \/ \E h \in Hosts, r \in Reapers : Attach(h, r) \/ Disconnect(h, r)
  BY <1>1 DEF vars, List, Attach, Disconnect
<1>2. ASSUME NEW t \in Tunnels, AcceptConnection(t) \/ LoopStep(t) \/ LoopFails(t)
      PROVE  UNCHANGED <<opening, late>>
  BY <1>2 DEF AcceptConnection, LoopStep, ForwardOpened, RegisterProxy, LoopCancelled, LoopFails
<1>3. ASSUME NEW t \in Tunnels, NEW n \in Conns,
             ProxyFinishes(t, n) \/ ProxyCancelled(t, n) \/ ProxyForgets(t, n) \/ ProxyReturns(t, n)
      PROVE  UNCHANGED <<opening, late>>
  BY <1>3 DEF ProxyFinishes, ProxyCancelled, ProxyLeaves, ProxyForgets, ProxyReturns
<1>4. ASSUME NEW t \in Tunnels, NEW c \in Closers, Close(c, t) PROVE UNCHANGED <<opening, late>>
  BY <1>4 DEF Close
<1>5. ASSUME NEW p \in Procs, CloseStep(p) PROVE UNCHANGED <<opening, late>>
  BY <1>5 DEF CloseStep, CloseLock, CloseJoinAccept, CloseDrain, CloseFinish
<1>6. ASSUME NEW r \in Reapers, ReapStep(r) PROVE UNCHANGED <<opening, late>>
  BY <1>6 DEF ReapStep, ReapSnapshot, ReapForget, ReapNext
<1> QED BY <1>1, <1>2, <1>3, <1>4, <1>5, <1>6 DEF Next

\* Only the loop starts a proxy, and only its own task ends it.
LEMMA ProxyFrame ==
    ASSUME [Next]_vars
    PROVE  \/ UNCHANGED proxy
           \/ \E t \in Tunnels : ForwardOpened(t)
           \/ \E t \in Tunnels, n \in Conns :
                 ProxyLeaves(t, n) \/ ProxyForgets(t, n) \/ ProxyReturns(t, n)
<1> USE DEF proxyVars
<1>1. CASE UNCHANGED vars \/ List \/ \E h \in Hosts, r \in Reapers : Attach(h, r) \/ Disconnect(h, r)
  BY <1>1 DEF vars, List, Attach, Disconnect
<1>2. ASSUME NEW t \in Tunnels, OpenTunnel(t) \/ OpenStep(t) PROVE UNCHANGED proxy
  BY <1>2 DEF OpenTunnel, OpenStep, BindFails, Bound, Register
<1>3. ASSUME NEW t \in Tunnels, AcceptConnection(t) \/ LoopStep(t) \/ LoopFails(t)
      PROVE  UNCHANGED proxy \/ ForwardOpened(t)
  BY <1>3 DEF AcceptConnection, LoopStep, RegisterProxy, LoopCancelled, LoopFails
<1>4. ASSUME NEW t \in Tunnels, NEW n \in Conns, ProxyFinishes(t, n) \/ ProxyCancelled(t, n)
      PROVE  ProxyLeaves(t, n)
  BY <1>4 DEF ProxyFinishes, ProxyCancelled
<1>5. ASSUME NEW t \in Tunnels, NEW c \in Closers, Close(c, t) PROVE UNCHANGED proxy
  BY <1>5 DEF Close
<1>6. ASSUME NEW p \in Procs, CloseStep(p) PROVE UNCHANGED proxy
  BY <1>6 DEF CloseStep, CloseLock, CloseJoinAccept, CloseDrain, CloseFinish
<1>7. ASSUME NEW r \in Reapers, ReapStep(r) PROVE UNCHANGED proxy
  BY <1>7 DEF ReapStep, ReapSnapshot, ReapForget, ReapNext
<1> QED BY <1>1, <1>2, <1>3, <1>4, <1>5, <1>6, <1>7 DEF Next

-----------------------------------------------------------------------------
(* The counter *)

\* Sets of connections are finite and no larger than the bound.
LEMMA ConnsAreFinite ==
    ASSUME NEW S \in SUBSET Conns
    PROVE  IsFiniteSet(S) /\ Cardinality(S) \in 0 .. MaxConns
<1>1. IsFiniteSet(Conns) /\ Cardinality(Conns) = MaxConns
  BY TunnelAssumption, FS_Interval DEF Conns
<1>2. IsFiniteSet(S) /\ Cardinality(S) <= Cardinality(Conns)
  BY <1>1, FS_Subset
<1>3. Cardinality(S) \in Nat
  BY <1>2, FS_CardinalityType
<1> QED BY <1>1, <1>2, <1>3, TunnelAssumption

\* A close() that has awaited what it drained leaves neither listener nor proxy.
LEMMA FinishIsQuiet ==
    ASSUME IInv, NEW p \in Procs, CloseFinish(p)
    PROVE  accept[call[p].tunnel] = "ended" /\ Live(call[p].tunnel) = {}
<1> DEFINE t == call[p].tunnel
<1>1. t \in Tunnels /\ call[p].pc = "awaiting"
  BY DEF IInv, TunnelInv, TypeOK, CloseFinish
<1>2. accept[t] = "ended" /\ connections[t] = {}
  BY <1>1 DEF IInv, HandleFits, DrainedIsEmpty
<1>3. \A q \in Procs : call[q].pc = "awaiting" /\ call[q].tunnel = t => q = p
  BY <1>1 DEF IInv, LockFits, InLock
<1>4. \A n \in call[p].joins : proxy[t][n] = "done"
  BY DEF CloseFinish
<1>5. ASSUME NEW n \in Conns PROVE proxy[t][n] # "running"
  BY <1>1, <1>2, <1>3, <1>4 DEF IInv, ProxiesHeld
<1> QED BY <1>2, <1>5 DEF Live

\* The counter follows the proxies through every step.
LEMMA CountKept ==
    IInv /\ [Next]_vars => active' \in [Tunnels -> 0 .. MaxConns] /\ CountIsLive'
<1> SUFFICES ASSUME IInv, [Next]_vars
             PROVE  active' \in [Tunnels -> 0 .. MaxConns] /\ CountIsLive'
  OBVIOUS
<1>1. TypeOK /\ ProxiesFit /\ \A u \in Tunnels : active[u] = Cardinality(Live(u))
  BY DEF IInv, TunnelInv, CountIsLive
<1> SUFFICES active' \in [Tunnels -> Int] /\ CountIsLive'
  <2>1. \A u \in Tunnels : Live(u)' \in SUBSET Conns
    BY DEF Live
  <2> QED BY <2>1, ConnsAreFinite DEF CountIsLive
<1>2. active \in [Tunnels -> Int]
  BY <1>1, TunnelAssumption DEF TypeOK
<1>3. CASE UNCHANGED <<active, proxy>>
  BY <1>1, <1>2, <1>3 DEF CountIsLive, Live
<1>4. ASSUME NEW t \in Tunnels, ForwardOpened(t)
      PROVE  active' \in [Tunnels -> Int] /\ CountIsLive'
  <2> DEFINE n == accepted[t]
  <2>1. n \in Conns /\ n \notin Live(t)
    BY <1>1, <1>4, TunnelAssumption DEF ForwardOpened, TypeOK, ProxiesFit, Conns, Live
  <2>2. Live(t)' = Live(t) \cup {n} /\ \A u \in Tunnels : u # t => Live(u)' = Live(u)
    BY <1>1, <1>4, <2>1 DEF ForwardOpened, TypeOK, Live
  <2>3. IsFiniteSet(Live(t))
    BY ConnsAreFinite DEF Live
  <2>4. Cardinality(Live(t)') = Cardinality(Live(t)) + 1
    BY <2>1, <2>2, <2>3, FS_AddElement
  <2> QED BY <1>1, <1>2, <1>4, <2>2, <2>4 DEF ForwardOpened, CountIsLive
<1>5. ASSUME NEW t \in Tunnels, NEW n \in Conns, ProxyLeaves(t, n)
      PROVE  active' \in [Tunnels -> Int] /\ CountIsLive'
  <2>1. n \in Live(t)
    BY <1>5 DEF ProxyLeaves, Live
  <2>2. Live(t)' = Live(t) \ {n} /\ \A u \in Tunnels : u # t => Live(u)' = Live(u)
    BY <1>1, <1>5 DEF ProxyLeaves, TypeOK, Live
  <2>3. IsFiniteSet(Live(t))
    BY ConnsAreFinite DEF Live
  <2>4. Cardinality(Live(t)') = Cardinality(Live(t)) - 1
    BY <2>1, <2>2, <2>3, FS_RemoveElement
  <2>5. active' = [active EXCEPT ![t] = @ - 1]
    BY <1>5 DEF ProxyLeaves
  <2>6. active' \in [Tunnels -> Int] /\ active'[t] = active[t] - 1
        /\ \A u \in Tunnels : u # t => active'[u] = active[u]
    BY <1>2, <2>5
  <2>7. active[t] = Cardinality(Live(t)) /\ active'[t] = Cardinality(Live(t)')
    BY <1>1, <2>4, <2>6
  <2> QED BY <1>1, <2>2, <2>6, <2>7 DEF CountIsLive
<1>6. ASSUME NEW t \in Tunnels, NEW n \in Conns, ProxyForgets(t, n) \/ ProxyReturns(t, n)
      PROVE  active' \in [Tunnels -> Int] /\ CountIsLive'
  <2>1. \A u \in Tunnels, m \in Conns : proxy[u][m] = "running" <=> proxy'[u][m] = "running"
    <3>1. CASE ProxyForgets(t, n)
      BY <1>1, <3>1 DEF ProxyForgets, TypeOK
    <3>2. CASE ProxyReturns(t, n)
      BY <1>1, <3>2 DEF ProxyReturns, TypeOK
    <3> QED BY <1>6, <3>1, <3>2
  <2>2. \A u \in Tunnels : Live(u)' = Live(u)
    BY <2>1 DEF Live
  <2> QED BY <1>1, <1>2, <1>6, <2>2 DEF ProxyForgets, ProxyReturns, CountIsLive
<1>7. ASSUME NEW p \in Procs, CloseFinish(p)
      PROVE  active' \in [Tunnels -> Int] /\ CountIsLive'
  <2>1. \A u \in Tunnels : Live(u)' = Live(u)
    BY <1>7 DEF CloseFinish, Live
  <2>2. Cardinality(Live(call[p].tunnel)) = 0
    BY <1>7, FinishIsQuiet, FS_EmptySet
  <2> QED BY <1>1, <1>2, <1>7, <2>1, <2>2 DEF CloseFinish, CountIsLive
<1> QED
  BY <1>3, <1>4, <1>5, <1>6, <1>7 DEF Next, vars, hostVars, openVars, loopVars, proxyVars,
     Attach, Disconnect, OpenTunnel, OpenStep, BindFails, Bound, Register,
     AcceptConnection, LoopStep, RegisterProxy, LoopCancelled, LoopFails, ProxyFinishes,
     ProxyCancelled, List, Close, CloseStep, CloseLock, CloseJoinAccept, CloseDrain,
     ReapStep, ReapSnapshot, ReapForget, ReapNext

-----------------------------------------------------------------------------
(* The parts of the inductive invariant *)

\* Every variable keeps its type.
LEMMA TypeKept == IInv /\ [Next]_vars => TypeOK'
<1> SUFFICES ASSUME IInv, [Next]_vars PROVE TypeOK'
  OBVIOUS
<1>1. TypeOK /\ ProxiesFit /\ active' \in [Tunnels -> 0 .. MaxConns]
  BY CountKept DEF IInv, TunnelInv
<1> USE TunnelAssumption
<1>2. ASSUME NEW h \in Hosts, NEW r \in Reapers, Attach(h, r) \/ Disconnect(h, r) PROVE TypeOK'
  <2>1. reap' \in [Reapers -> Reaps]
    <3>1. reap' = [reap EXCEPT ![r] = [Asleep EXCEPT !.pc = "start", !.host = h]]
      BY <1>2 DEF Attach, Disconnect
    <3>2. [Asleep EXCEPT !.pc = "start", !.host = h] \in Reaps
      BY DEF Asleep, Reaps
    <3> QED BY <1>1, <3>1, <3>2 DEF TypeOK, Reaps
  <2>2. connection' \in [Hosts -> 0 .. MaxGeneration] /\ generation' \in [Hosts -> 0 .. MaxGeneration]
    <3>1. CASE Attach(h, r)
      BY <1>1, <3>1 DEF Attach, TypeOK
    <3>2. CASE Disconnect(h, r)
      BY <1>1, <3>2 DEF Disconnect, TypeOK
    <3> QED BY <1>2, <3>1, <3>2
  <2> QED BY <1>1, <1>2, <2>1, <2>2 DEF Attach, Disconnect, TypeOK, Reaps, openVars, loopVars,
             proxyVars, closeVars
<1>3. ASSUME NEW t \in Tunnels, OpenTunnel(t) \/ BindFails(t) \/ Register(t) PROVE TypeOK'
  <2>1. opening' \in [Tunnels -> {"none", "binding", "failed", "spawned", "done"}]
    BY <1>1, <1>3 DEF OpenTunnel, BindFails, Register, TypeOK
  <2> QED BY <1>1, <1>3, <2>1 DEF OpenTunnel, BindFails, Register, TypeOK, hostVars, loopVars,
             proxyVars, closeVars
<1>4. ASSUME NEW t \in Tunnels, Bound(t) PROVE TypeOK'
  BY <1>1, <1>4 DEF Bound, TypeOK, TunnelState, hostVars, proxyVars
<1>5. ASSUME NEW t \in Tunnels, AcceptConnection(t) PROVE TypeOK'
  BY <1>1, <1>5 DEF AcceptConnection, TypeOK, hostVars, openVars, proxyVars, closeVars
<1>6. ASSUME NEW t \in Tunnels, LoopCancelled(t) PROVE TypeOK'
  BY <1>1, <1>6 DEF LoopCancelled, TypeOK, loopVars, hostVars, openVars, proxyVars, closeVars
<1>7. ASSUME NEW t \in Tunnels, LoopFails(t) PROVE TypeOK'
  BY <1>1, <1>7 DEF LoopFails, TypeOK, TunnelState, hostVars, proxyVars, closeVars
<1>8. ASSUME NEW t \in Tunnels, ForwardOpened(t) PROVE TypeOK'
  BY <1>1, <1>8 DEF ForwardOpened, TypeOK, hostVars, openVars, closeVars
<1>9. ASSUME NEW t \in Tunnels, RegisterProxy(t) PROVE TypeOK'
  <2>1. accepted[t] \in Conns
    BY <1>1, <1>9 DEF RegisterProxy, TypeOK, ProxiesFit, Conns
  <2> QED BY <1>1, <1>9, <2>1 DEF RegisterProxy, reap_finished_connections, TypeOK, hostVars,
             openVars, closeVars
<1>10. ASSUME NEW t \in Tunnels, NEW n \in Conns, ProxyLeaves(t, n) PROVE TypeOK'
  BY <1>1, <1>10 DEF ProxyLeaves, TypeOK, hostVars, openVars, loopVars, closeVars
<1>11. ASSUME NEW t \in Tunnels, NEW n \in Conns, ProxyForgets(t, n) PROVE TypeOK'
  BY <1>1, <1>11 DEF ProxyForgets, TypeOK, hostVars, openVars, loopVars, closeVars
<1>12. ASSUME NEW t \in Tunnels, NEW n \in Conns, ProxyReturns(t, n) PROVE TypeOK'
  BY <1>1, <1>12 DEF ProxyReturns, TypeOK, hostVars, openVars, loopVars, closeVars
<1>13. CASE List
  BY <1>1, <1>13 DEF List, reap_finished_connections, TypeOK, hostVars, openVars, loopVars,
     closeVars
<1>14. ASSUME NEW t \in Tunnels, NEW c \in Closers, Close(c, t) PROVE TypeOK'
  BY <1>1, <1>14, EnterEffect DEF Close, TypeOK, Calls, Procs, hostVars, openVars, loopVars, proxyVars
<1>15. ASSUME NEW p \in Procs, CloseStep(p) PROVE TypeOK'
  <2>1. call \in [Procs -> Calls] /\ call[p].tunnel \in Tunnels
    BY <1>1 DEF TypeOK, Calls
  <2>2. CASE CloseLock(p)
    <3>1. call' \in [Procs -> Calls]
      BY <2>1, <2>2 DEF CloseLock, Calls
    <3> QED BY <1>1, <2>1, <2>2, <3>1 DEF CloseLock, TypeOK, Calls, hostVars, openVars, loopVars,
               proxyVars
  <2>3. CASE CloseJoinAccept(p)
    <3>1. call' \in [Procs -> Calls]
      BY <2>1, <2>3 DEF CloseJoinAccept, Calls
    <3> QED BY <1>1, <2>3, <3>1 DEF CloseJoinAccept, TypeOK, Calls, hostVars, openVars, loopVars,
               proxyVars
  <2>4. CASE CloseDrain(p)
    <3>1. connections \in [Tunnels -> SUBSET Conns]
      BY <1>1 DEF TypeOK
    <3> DEFINE old == call[p]
               joins == connections[call[p].tunnel]
               new == [old EXCEPT !.pc = "awaiting", !.joins = joins]
    <3>3. call' = [call EXCEPT ![p] = new] /\ old \in Calls /\ joins \in SUBSET Conns
      BY <2>1, <2>4, <3>1 DEF CloseDrain
    <3> HIDE DEF old, joins
    <3>4. new \in Calls
      BY <3>3 DEF Calls
    <3> HIDE DEF new
    <3>2. call' \in [Procs -> Calls]
      BY <2>1, <3>3, <3>4
    <3> QED BY <1>1, <2>1, <2>4, <3>2 DEF CloseDrain, TypeOK, Calls, hostVars, openVars, loopVars
  <2>5. CASE CloseFinish(p)
    BY <1>1, <2>5, IdleIsTyped DEF CloseFinish, Idle, TypeOK, TunnelState, hostVars, loopVars
  <2> QED BY <1>15, <2>2, <2>3, <2>4, <2>5 DEF CloseStep
<1>16. ASSUME NEW r \in Reapers, ReapStep(r) PROVE TypeOK'
  <2>1. reap \in [Reapers -> Reaps] /\ registry \in SUBSET Tunnels
    BY <1>1 DEF TypeOK, Reaps
  <2>2. CASE ReapSnapshot(r)
    <3> DEFINE old == reap[r]
               mine == TunnelsOf(reap[r].host)
               new == [old EXCEPT !.pc = "closing", !.todo = mine, !.seen = mine]
    <3>2. reap' = [reap EXCEPT ![r] = new] /\ old \in Reaps
      BY <2>1, <2>2 DEF ReapSnapshot
    <3>3. mine \in SUBSET Tunnels
      BY <2>1 DEF TunnelsOf
    <3> HIDE DEF old, mine
    <3>4. new \in Reaps
      BY <3>2, <3>3 DEF Reaps
    <3> HIDE DEF new
    <3>1. reap' \in [Reapers -> Reaps]
      BY <2>1, <3>2, <3>4
    <3> QED BY <1>1, <2>2, <3>1 DEF ReapSnapshot, TypeOK, Reaps, hostVars, openVars, loopVars,
               proxyVars, closeVars
  <2>3. CASE ReapForget(r)
    <3>1. reap' \in [Reapers -> Reaps]
      BY <2>1, <2>3, IdleIsTyped DEF ReapForget, Asleep, Reaps
    <3> QED BY <1>1, <2>3, <3>1 DEF ReapForget, TypeOK, Reaps, hostVars, openVars, loopVars,
               proxyVars, closeVars
  <2>4. ASSUME NEW t \in Tunnels, ReapNext(r, t) PROVE TypeOK'
    <3>1. reap' \in [Reapers -> Reaps]
      BY <2>1, <2>4 DEF ReapNext, Reaps
    <3>2. call' \in [Procs -> Calls]
      BY <1>1, <2>4, EnterEffect DEF ReapNext, Procs, Calls, TypeOK
    <3> QED BY <1>1, <2>4, <3>1, <3>2 DEF ReapNext, TypeOK, Reaps, Calls, hostVars, openVars,
               loopVars, proxyVars
  <2> QED BY <1>16, <2>2, <2>3, <2>4 DEF ReapStep
<1>17. CASE UNCHANGED vars
  BY <1>1, <1>17 DEF TypeOK, vars, hostVars, openVars, loopVars, proxyVars, closeVars
<1> QED
  BY <1>2, <1>3, <1>4, <1>5, <1>6, <1>7, <1>8, <1>9, <1>10, <1>11, <1>12, <1>13, <1>14,
     <1>15, <1>16, <1>17 DEF Next, OpenStep, LoopStep, ProxyFinishes, ProxyCancelled

\* close_lock keeps one close() at a time past it.
LEMMA LockKept == IInv /\ [Next]_vars => LockFits'
<1> SUFFICES ASSUME IInv, [Next]_vars PROVE LockFits'
  OBVIOUS
<1>1. TypeOK /\ LockFits
  BY DEF IInv, TunnelInv
<1> USE TunnelAssumption DEF LockFits, InLock
<1>2. CASE UNCHANGED <<lock, call>>
  BY <1>1, <1>2
<1>3. ASSUME NEW p \in Procs, NEW t \in Tunnels, Enter(p, t), call[p].pc = "idle", UNCHANGED lock
      PROVE  LockFits'
  BY <1>1, <1>3, EnterEffect
<1>4. ASSUME NEW p \in Procs, CloseLock(p) \/ CloseJoinAccept(p) PROVE LockFits'
  BY <1>1, <1>4 DEF CloseLock, CloseJoinAccept, TypeOK, Procs
<1>5. ASSUME NEW p \in Procs, CloseDrain(p) PROVE LockFits'
  BY <1>1, <1>5 DEF CloseDrain, TypeOK
<1>6. ASSUME NEW p \in Procs, CloseFinish(p) PROVE LockFits'
  BY <1>1, <1>6, IdleIsTyped DEF CloseFinish, TypeOK, Procs
<1> QED
  BY <1>2, <1>3, <1>4, <1>5, <1>6, CallFrame DEF CloseStep, Close, ReapNext, Procs

\* The table, the calls and the loops agree with where open() stands.
LEMMA OpenKept == IInv /\ [Next]_vars => OpenFits'
<1> SUFFICES ASSUME IInv, [Next]_vars PROVE OpenFits'
  OBVIOUS
<1>1. TypeOK /\ OpenFits
  BY DEF IInv, TunnelInv
<1> USE DEF OpenFits
<1>2. CASE UNCHANGED <<opening, registry, state, accept, call>>
  BY <1>1, <1>2
<1>3. ASSUME NEW t \in Tunnels, OpenTunnel(t) PROVE OpenFits'
  BY <1>1, <1>3 DEF OpenTunnel, loopVars, closeVars, TypeOK
<1>4. ASSUME NEW t \in Tunnels, BindFails(t) PROVE OpenFits'
  BY <1>1, <1>4 DEF BindFails, loopVars, closeVars, TypeOK
<1>5. ASSUME NEW t \in Tunnels, Bound(t) PROVE OpenFits'
  BY <1>1, <1>5 DEF Bound, TypeOK
<1>6. ASSUME NEW t \in Tunnels, Register(t) PROVE OpenFits'
  BY <1>1, <1>6 DEF Register, loopVars, closeVars, TypeOK
<1>7. ASSUME NEW t \in Tunnels,
             \/ AcceptConnection(t) \/ ForwardOpened(t) \/ RegisterProxy(t)
             \/ LoopCancelled(t) \/ LoopFails(t)
      PROVE  OpenFits'
  BY <1>1, <1>7 DEF AcceptConnection, ForwardOpened, RegisterProxy, LoopCancelled, LoopFails,
     openVars, closeVars, TypeOK
<1>8. ASSUME NEW p \in Procs, NEW t \in registry, Enter(p, t), UNCHANGED <<openVars, loopVars>>
      PROVE  OpenFits'
  <2>1. t \in Tunnels
    BY <1>1 DEF TypeOK
  <2>2. call'[p].tunnel = t /\ \A q \in Procs : q # p => call'[q] = call[q]
    BY <1>1, <1>8, <2>1, EnterEffect
  <2> QED BY <1>1, <1>8, <2>1, <2>2 DEF openVars, loopVars
<1>9. ASSUME NEW p \in Procs, CloseStep(p) PROVE OpenFits'
  <2>1. UNCHANGED <<opening, registry, accept>>
    BY <1>9 DEF CloseStep, CloseLock, CloseJoinAccept, CloseDrain, CloseFinish, openVars, loopVars
  <2>2. \A q \in Procs : call'[q].pc # "idle" =>
            call[q].pc # "idle" /\ call'[q].tunnel = call[q].tunnel
    <3>1. CASE CloseLock(p)
      BY <1>1, <3>1 DEF CloseLock, TypeOK
    <3>2. CASE CloseJoinAccept(p)
      BY <1>1, <3>2 DEF CloseJoinAccept, TypeOK
    <3>3. CASE CloseDrain(p)
      BY <1>1, <3>3 DEF CloseDrain, TypeOK
    <3>4. CASE CloseFinish(p)
      BY <1>1, <3>4, IdleIsTyped DEF CloseFinish, TypeOK
    <3> QED BY <1>9, <3>1, <3>2, <3>3, <3>4 DEF CloseStep
  <2>3. \A t \in Tunnels : opening[t] \notin {"spawned", "done"} => state'[t] = state[t]
    <3>1. CASE CloseFinish(p)
      BY <1>1, <3>1 DEF CloseFinish, TypeOK
    <3> QED BY <1>9, <3>1 DEF CloseStep, CloseLock, CloseJoinAccept, CloseDrain, openVars
  <2> QED BY <1>1, <2>1, <2>2, <2>3
<1>10. ASSUME NEW r \in Reapers, ReapForget(r) PROVE OpenFits'
  BY <1>1, <1>10 DEF ReapForget, loopVars, closeVars
<1>11. ASSUME NEW r \in Reapers, NEW t \in Tunnels, ReapNext(r, t) PROVE OpenFits'
  BY <1>2, <1>8, <1>11 DEF ReapNext, Procs, openVars, loopVars
<1> QED
  BY <1>2, <1>3, <1>4, <1>5, <1>6, <1>7, <1>8, <1>9, <1>10, <1>11
     DEF Next, vars, openVars, loopVars, closeVars, Attach, Disconnect, OpenStep, LoopStep,
         ProxyFinishes, ProxyCancelled, ProxyLeaves, ProxyForgets, ProxyReturns, List,
         Close, Procs, ReapStep, ReapSnapshot

\* The loop numbers its proxies by the connections it accepted.
LEMMA ProxiesFitKept == IInv /\ [Next]_vars => ProxiesFit'
<1> SUFFICES ASSUME IInv, [Next]_vars PROVE ProxiesFit'
  OBVIOUS
<1>1. TypeOK /\ ProxiesFit /\ OpenFits
  BY DEF IInv, TunnelInv
<1> USE TunnelAssumption DEF ProxiesFit
<1>2. CASE UNCHANGED <<loopVars, proxy>>
  BY <1>1, <1>2 DEF loopVars
<1>3. ASSUME NEW t \in Tunnels, Bound(t) \/ LoopCancelled(t) \/ LoopFails(t) \/ RegisterProxy(t)
      PROVE  ProxiesFit'
  BY <1>1, <1>3 DEF Bound, LoopCancelled, LoopFails, RegisterProxy, proxyVars, TypeOK
<1>4. ASSUME NEW t \in Tunnels, AcceptConnection(t) PROVE ProxiesFit'
  BY <1>1, <1>4 DEF AcceptConnection, proxyVars, TypeOK, Conns
<1>5. ASSUME NEW t \in Tunnels, ForwardOpened(t) PROVE ProxiesFit'
  BY <1>1, <1>5 DEF ForwardOpened, TypeOK, Conns
<1>6. ASSUME NEW t \in Tunnels, NEW n \in Conns,
             ProxyLeaves(t, n) \/ ProxyForgets(t, n) \/ ProxyReturns(t, n)
      PROVE  ProxiesFit'
  <2>1. \A u \in Tunnels, m \in Conns : proxy'[u][m] # "none" => proxy[u][m] # "none"
    <3>1. CASE ProxyLeaves(t, n)
      BY <1>1, <3>1 DEF ProxyLeaves, TypeOK
    <3>2. CASE ProxyForgets(t, n)
      BY <1>1, <3>2 DEF ProxyForgets, TypeOK
    <3>3. CASE ProxyReturns(t, n)
      BY <1>1, <3>3 DEF ProxyReturns, TypeOK
    <3> QED BY <1>6, <3>1, <3>2, <3>3
  <2>2. UNCHANGED loopVars
    BY <1>6 DEF ProxyLeaves, ProxyForgets, ProxyReturns
  <2> QED BY <1>1, <2>1, <2>2 DEF loopVars
<1> QED
  BY <1>2, <1>3, <1>4, <1>5, <1>6, LoopFrame, ProxyFrame

\* No loop survives the close() that is past its wait for it.
LEMMA HandleKept == IInv /\ [Next]_vars => HandleFits'
<1> SUFFICES ASSUME IInv, [Next]_vars PROVE HandleFits'
  OBVIOUS
<1>1. TypeOK /\ LockFits /\ OpenFits /\ HandleFits
  BY DEF IInv, TunnelInv
<1> USE DEF HandleFits
<1>2. CASE UNCHANGED <<opening, accept, handle, call>>
  BY <1>1, <1>2
<1>3. ASSUME NEW t \in Tunnels, OpenTunnel(t) PROVE HandleFits'
  BY <1>1, <1>3 DEF OpenTunnel, loopVars, closeVars, TypeOK
<1>4. ASSUME NEW t \in Tunnels, BindFails(t) PROVE HandleFits'
  BY <1>1, <1>4 DEF BindFails, loopVars, closeVars, TypeOK
<1>5. ASSUME NEW t \in Tunnels, Bound(t) PROVE HandleFits'
  <2>1. \A u \in Tunnels : u # t => opening'[u] = opening[u] /\ accept'[u] = accept[u]
                                    /\ handle'[u] = handle[u]
    BY <1>1, <1>5 DEF Bound, TypeOK
  <2>4. handle'[t] /\ opening[t] = "binding" /\ call' = call
    BY <1>1, <1>5 DEF Bound, TypeOK
  <2>2. handle'[t] /\ accept[t] # "ended" /\ call' = call
    BY <1>1, <2>4 DEF OpenFits
  <2>3. \A p \in Procs : call[p].tunnel \in Tunnels
    BY <1>1 DEF TypeOK
  <2> QED BY <1>1, <2>1, <2>2, <2>3
<1>6. ASSUME NEW t \in Tunnels, Register(t) PROVE HandleFits'
  BY <1>1, <1>6 DEF Register, loopVars, closeVars, TypeOK
<1>7. ASSUME NEW t \in Tunnels,
             \/ AcceptConnection(t) \/ ForwardOpened(t) \/ RegisterProxy(t)
             \/ LoopCancelled(t) \/ LoopFails(t)
      PROVE  HandleFits'
  <2>1. UNCHANGED <<opening, handle, call>> /\ accept[t] # "ended"
    BY <1>7 DEF AcceptConnection, ForwardOpened, RegisterProxy, LoopCancelled, LoopFails,
       openVars, closeVars
  <2>2. \A u \in Tunnels : u # t => accept'[u] = accept[u]
    BY <1>1, <1>7 DEF AcceptConnection, ForwardOpened, RegisterProxy, LoopCancelled, LoopFails,
       TypeOK
  <2>3. \A p \in Procs : call[p].tunnel \in Tunnels
    BY <1>1 DEF TypeOK
  <2> QED BY <1>1, <2>1, <2>2, <2>3
<1>8. ASSUME NEW p \in Procs, NEW t \in Tunnels, Enter(p, t), call[p].pc = "idle",
             UNCHANGED <<opening, accept, handle>>
      PROVE  HandleFits'
  <2>1. call'[p].pc = "locking" /\ \A q \in Procs : q # p => call'[q] = call[q]
    BY <1>1, <1>8, EnterEffect
  <2> QED BY <1>1, <1>8, <2>1
<1>9. ASSUME NEW p \in Procs, CloseLock(p) PROVE HandleFits'
  <2> DEFINE t == call[p].tunnel
  <2>1. t \in Tunnels /\ opening[t] = "done" /\ UNCHANGED <<opening, accept>>
    BY <1>1, <1>9 DEF CloseLock, OpenFits, TypeOK, openVars, loopVars
  <2>2. \A q \in Procs : ~(call[q].pc \in InLock /\ call[q].tunnel = t)
    BY <1>1, <1>9, <2>1, TunnelAssumption DEF CloseLock, LockFits, Procs
  <2>3. handle[t] \/ accept[t] = "ended"
    BY <1>1, <2>1, <2>2 DEF InLock
  <2>4. /\ call'[p].pc = IF handle[t] THEN "joining" ELSE "draining"
        /\ call'[p].tunnel = t
        /\ \A q \in Procs : q # p => call'[q] = call[q]
        /\ call[p].pc = "locking"
        /\ \A u \in Tunnels : u # t => handle'[u] = handle[u]
    BY <1>1, <1>9, <2>1 DEF CloseLock, TypeOK
  <2> QED BY <1>1, <2>1, <2>3, <2>4
<1>10. ASSUME NEW p \in Procs, CloseJoinAccept(p) \/ CloseDrain(p) PROVE HandleFits'
  <2>1. UNCHANGED <<opening, accept, handle>> /\ accept[call[p].tunnel] = "ended"
    BY <1>1, <1>10 DEF CloseJoinAccept, CloseDrain, openVars, loopVars
  <2>2. /\ \A q \in Procs : q # p => call'[q] = call[q]
        /\ call'[p].tunnel = call[p].tunnel
    <3>1. CASE CloseJoinAccept(p)
      BY <1>1, <3>1 DEF CloseJoinAccept, TypeOK
    <3>2. CASE CloseDrain(p)
      BY <1>1, <3>2 DEF CloseDrain, TypeOK
    <3> QED BY <1>10, <3>1, <3>2
  <2> QED BY <1>1, <2>1, <2>2
<1>11. ASSUME NEW p \in Procs, CloseFinish(p) PROVE HandleFits'
  <2>1. call'[p].pc = "idle" /\ call[p].pc = "awaiting" /\ \A q \in Procs : q # p => call'[q] = call[q]
    BY <1>1, <1>11, IdleIsTyped DEF CloseFinish, TypeOK
  <2> QED BY <1>1, <1>11, <2>1 DEF CloseFinish, loopVars
<1>12. ASSUME NEW r \in Reapers, NEW t \in Tunnels, ReapNext(r, t) PROVE HandleFits'
  BY <1>2, <1>8, <1>12 DEF ReapNext, Procs, openVars, loopVars
<1> QED
  BY <1>2, <1>3, <1>4, <1>5, <1>6, <1>7, <1>8, <1>9, <1>10, <1>11, <1>12
     DEF Next, vars, openVars, loopVars, closeVars, Attach, Disconnect, OpenStep, LoopStep,
         ProxyFinishes, ProxyCancelled, ProxyLeaves, ProxyForgets, ProxyReturns, List,
         Close, CloseStep, Procs, ReapStep, ReapSnapshot, ReapForget

\* A drained table stays empty: the loop that fills it has ended.
LEMMA DrainedKept == IInv /\ [Next]_vars => DrainedIsEmpty'
<1> SUFFICES ASSUME IInv, [Next]_vars PROVE DrainedIsEmpty'
  OBVIOUS
<1>1. TypeOK /\ LockFits /\ HandleFits /\ DrainedIsEmpty
  BY DEF IInv, TunnelInv
<1> USE DEF DrainedIsEmpty
<1>2. CASE /\ \A q \in Procs : call'[q].pc = "awaiting" => call'[q] = call[q]
           /\ \A u \in Tunnels : connections'[u] \subseteq connections[u]
  <2>1. \A q \in Procs : call[q].tunnel \in Tunnels
    BY <1>1 DEF TypeOK
  <2> QED BY <1>1, <1>2, <2>1
<1>3. ASSUME NEW t \in Tunnels, RegisterProxy(t) PROVE DrainedIsEmpty'
  <2>1. \A u \in Tunnels : u # t => connections'[u] = connections[u]
    BY <1>1, <1>3 DEF RegisterProxy, TypeOK
  <2>2. accept[t] = "registering" /\ call' = call
    BY <1>3 DEF RegisterProxy, closeVars
  <2>3. \A q \in Procs : call[q].tunnel \in Tunnels
    BY <1>1 DEF TypeOK
  <2> QED BY <1>1, <2>1, <2>2, <2>3 DEF HandleFits
<1>4. ASSUME NEW t \in Tunnels, NEW n \in Conns, ProxyForgets(t, n) PROVE DrainedIsEmpty'
  BY <1>1, <1>2, <1>4 DEF ProxyForgets, TypeOK, closeVars
<1>5. CASE List
  BY <1>1, <1>2, <1>5 DEF List, reap_finished_connections, TypeOK, closeVars
<1>6. ASSUME NEW p \in Procs, NEW t \in Tunnels, Enter(p, t), UNCHANGED connections
      PROVE  DrainedIsEmpty'
  <2>1. call'[p].pc = "locking" /\ \A q \in Procs : q # p => call'[q] = call[q]
    BY <1>1, <1>6, EnterEffect
  <2> QED BY <1>2, <1>6, <2>1
<1>7. ASSUME NEW p \in Procs, CloseLock(p) \/ CloseJoinAccept(p) PROVE DrainedIsEmpty'
  <2>1. UNCHANGED connections
    BY <1>7 DEF CloseLock, CloseJoinAccept, proxyVars
  <2>2. call'[p].pc \in {"joining", "draining"} /\ \A q \in Procs : q # p => call'[q] = call[q]
    BY <1>1, <1>7 DEF CloseLock, CloseJoinAccept, TypeOK
  <2> QED BY <1>2, <2>1, <2>2
<1>8. ASSUME NEW p \in Procs, CloseDrain(p) PROVE DrainedIsEmpty'
  <2>1. /\ \A q \in Procs : q # p => call'[q] = call[q]
        /\ call'[p].tunnel = call[p].tunnel
    BY <1>1, <1>8 DEF CloseDrain, TypeOK
  <2>2. /\ connections'[call[p].tunnel] = {}
        /\ \A u \in Tunnels : u # call[p].tunnel => connections'[u] = connections[u]
    BY <1>1, <1>8 DEF CloseDrain, TypeOK
  <2>3. \A q \in Procs : call[q].tunnel \in Tunnels
    BY <1>1 DEF TypeOK
  <2> QED BY <1>1, <2>1, <2>2, <2>3
<1>9. ASSUME NEW p \in Procs, CloseFinish(p) PROVE DrainedIsEmpty'
  <2>1. call'[p].pc = "idle" /\ \A q \in Procs : q # p => call'[q] = call[q]
    BY <1>1, <1>9, IdleIsTyped DEF CloseFinish, TypeOK
  <2> QED BY <1>2, <1>9, <2>1 DEF CloseFinish
<1>10. ASSUME NEW r \in Reapers, NEW t \in Tunnels, ReapNext(r, t) PROVE DrainedIsEmpty'
  BY <1>2, <1>6, <1>10 DEF ReapNext, Procs, proxyVars
<1> QED
  BY <1>2, <1>3, <1>4, <1>5, <1>6, <1>7, <1>8, <1>9, <1>10
     DEF Next, vars, proxyVars, closeVars, Attach, Disconnect, OpenTunnel, OpenStep, BindFails,
         Bound, Register, AcceptConnection, LoopStep, ForwardOpened, LoopCancelled, LoopFails,
         ProxyFinishes, ProxyCancelled, ProxyLeaves, ProxyReturns,
         Close, CloseStep, Procs, ReapStep, ReapSnapshot, ReapForget

\* No running proxy is lost on the way between the loop, the table and the
\* close() that awaits it.
LEMMA HeldKept == IInv /\ [Next]_vars => ProxiesHeld'
<1> SUFFICES ASSUME IInv, [Next]_vars PROVE ProxiesHeld'
  OBVIOUS
<1>1. TypeOK /\ LockFits /\ HandleFits /\ ProxiesHeld
  BY DEF IInv, TunnelInv
<1>2. \A q \in Procs : call[q].tunnel \in Tunnels
  BY <1>1 DEF TypeOK
<1> USE DEF ProxiesHeld
<1>3. CASE /\ UNCHANGED loopVars
           /\ \A u \in Tunnels : \A m \in Conns : proxy'[u][m] = "running" =>
                 proxy[u][m] = "running" /\ (m \in connections[u] => m \in connections'[u])
           /\ \A q \in Procs : call[q].pc = "awaiting" => call'[q] = call[q]
  BY <1>1, <1>3 DEF loopVars
<1>4. ASSUME NEW t \in Tunnels,
             Bound(t) \/ AcceptConnection(t) \/ LoopCancelled(t) \/ LoopFails(t)
      PROVE  ProxiesHeld'
  <2>1. accept[t] # "registering" /\ UNCHANGED <<proxyVars, call>>
    BY <1>1, <1>4 DEF Bound, AcceptConnection, LoopCancelled, LoopFails, closeVars, IInv, OpenFits
  <2>2. \A u \in Tunnels : u # t => accept'[u] = accept[u] /\ accepted'[u] = accepted[u]
    BY <1>1, <1>4 DEF Bound, AcceptConnection, LoopCancelled, LoopFails, loopVars, TypeOK
  <2> QED BY <1>1, <2>1, <2>2 DEF proxyVars
<1>5. ASSUME NEW t \in Tunnels, ForwardOpened(t) PROVE ProxiesHeld'
  <2>1. /\ accept'[t] = "registering" /\ accept[t] = "forwarding"
        /\ \A u \in Tunnels : u # t => accept'[u] = accept[u]
        /\ UNCHANGED <<accepted, connections, call>>
    BY <1>1, <1>5 DEF ForwardOpened, TypeOK, closeVars
  <2>2. \A u \in Tunnels : \A m \in Conns :
            u # t \/ m # accepted[t] => proxy'[u][m] = proxy[u][m]
    BY <1>1, <1>5 DEF ForwardOpened, TypeOK
  <2> QED BY <1>1, <2>1, <2>2
<1>6. ASSUME NEW t \in Tunnels, RegisterProxy(t) PROVE ProxiesHeld'
  <2>1. /\ accept[t] = "registering"
        /\ \A u \in Tunnels : u # t => accept'[u] = accept[u] /\ connections'[u] = connections[u]
        /\ UNCHANGED <<accepted, proxy, call>>
    BY <1>1, <1>6 DEF RegisterProxy, TypeOK, closeVars
  <2>2. connections'[t] = {m \in connections[t] \cup {accepted[t]} : proxy[t][m] # "done"}
    BY <1>1, <1>6 DEF RegisterProxy, reap_finished_connections, TypeOK
  <2> QED BY <1>1, <2>1, <2>2
<1>7. ASSUME NEW t \in Tunnels, NEW n \in Conns, ProxyLeaves(t, n) PROVE ProxiesHeld'
  BY <1>1, <1>3, <1>7 DEF ProxyLeaves, TypeOK, closeVars
<1>8. ASSUME NEW t \in Tunnels, NEW n \in Conns, ProxyForgets(t, n) PROVE ProxiesHeld'
  <2>1. \A u \in Tunnels : \A m \in Conns :
            /\ u # t \/ m # n => proxy'[u][m] = proxy[u][m]
            /\ proxy'[t][n] = "forgotten"
    BY <1>1, <1>8 DEF ProxyForgets, TypeOK
  <2>2. \A u \in Tunnels : \A m \in Conns :
            (u # t \/ m # n) /\ m \in connections[u] => m \in connections'[u]
    BY <1>1, <1>8 DEF ProxyForgets, TypeOK
  <2> QED BY <1>3, <1>8, <2>1, <2>2 DEF ProxyForgets, closeVars
<1>9. ASSUME NEW t \in Tunnels, NEW n \in Conns, ProxyReturns(t, n) PROVE ProxiesHeld'
  BY <1>1, <1>3, <1>9 DEF ProxyReturns, TypeOK, closeVars
<1>10. CASE List
  BY <1>1, <1>3, <1>10 DEF List, reap_finished_connections, TypeOK, closeVars
<1>11. ASSUME NEW p \in Procs, NEW t \in Tunnels, Enter(p, t), call[p].pc = "idle",
              UNCHANGED <<loopVars, proxyVars>>
       PROVE  ProxiesHeld'
  <2>1. \A q \in Procs : q # p => call'[q] = call[q]
    BY <1>1, <1>11, EnterEffect
  <2> QED BY <1>3, <1>11, <2>1 DEF proxyVars
<1>12. ASSUME NEW p \in Procs, CloseLock(p) \/ CloseJoinAccept(p) PROVE ProxiesHeld'
  <2>1. call[p].pc # "awaiting" /\ \A q \in Procs : q # p => call'[q] = call[q]
    BY <1>1, <1>12 DEF CloseLock, CloseJoinAccept, TypeOK
  <2> QED BY <1>3, <1>12, <2>1 DEF CloseLock, CloseJoinAccept, proxyVars
<1>13. ASSUME NEW p \in Procs, CloseDrain(p) PROVE ProxiesHeld'
  <2>1. /\ \A q \in Procs : q # p => call'[q] = call[q]
        /\ call[p].pc = "draining"
        /\ call'[p].pc = "awaiting" /\ call'[p].tunnel = call[p].tunnel
        /\ call'[p].joins = connections[call[p].tunnel]
    BY <1>1, <1>13 DEF CloseDrain, TypeOK
  <2>2. \A u \in Tunnels : u # call[p].tunnel => connections'[u] = connections[u]
    BY <1>1, <1>2, <1>13 DEF CloseDrain, TypeOK
  <2>3. UNCHANGED <<proxy, accept, accepted>>
    BY <1>13 DEF CloseDrain, loopVars
  <2> QED BY <1>1, <1>2, <2>1, <2>2, <2>3
<1>14. ASSUME NEW p \in Procs, CloseFinish(p) PROVE ProxiesHeld'
  <2>1. \A q \in Procs : q # p => call'[q] = call[q]
    BY <1>1, <1>14 DEF CloseFinish, TypeOK
  <2>2. \A n \in Conns : proxy[call[p].tunnel][n] # "running"
    BY <1>14, FinishIsQuiet DEF Live
  <2> QED BY <1>1, <1>2, <1>14, <2>1, <2>2 DEF CloseFinish, loopVars
<1>15. ASSUME NEW r \in Reapers, NEW t \in Tunnels, ReapNext(r, t) PROVE ProxiesHeld'
  BY <1>3, <1>11, <1>15 DEF ReapNext, Procs, proxyVars
<1> QED
  BY <1>3, <1>4, <1>5, <1>6, <1>7, <1>8, <1>9, <1>10, <1>11, <1>12, <1>13, <1>14, <1>15
     DEF Next, vars, loopVars, proxyVars, closeVars, Attach, Disconnect, OpenTunnel, OpenStep,
         BindFails, Register, LoopStep, ProxyFinishes, ProxyCancelled,
         Close, CloseStep, Procs, ReapStep, ReapSnapshot, ReapForget

\* A tunnel without listener and proxies stays without: only its loop could
\* start another proxy.
LEMMA EndedStays ==
    ASSUME IInv, [Next]_vars, NEW t \in Tunnels, accept[t] = "ended", Live(t) = {}
    PROVE  accept'[t] = "ended" /\ Quiet(t)'
<1>1. TypeOK /\ OpenFits
  BY DEF IInv, TunnelInv
<1>2. accept'[t] = "ended"
  <2>1. ASSUME NEW u \in Tunnels, Bound(u) PROVE accept'[t] = accept[t]
    BY <1>1, <2>1 DEF Bound, TypeOK, OpenFits
  <2>2. ASSUME NEW u \in Tunnels,
               \/ AcceptConnection(u) \/ ForwardOpened(u) \/ RegisterProxy(u)
               \/ LoopCancelled(u) \/ LoopFails(u)
        PROVE  accept'[t] = accept[t]
    BY <1>1, <2>2 DEF AcceptConnection, ForwardOpened, RegisterProxy, LoopCancelled, LoopFails,
       TypeOK
  <2> QED BY <2>1, <2>2, LoopFrame DEF loopVars
<1>3. ASSUME NEW n \in Conns PROVE proxy'[t][n] # "running"
  <2>1. proxy[t][n] # "running"
    BY DEF Live
  <2>2. ASSUME NEW u \in Tunnels, ForwardOpened(u) PROVE proxy'[t][n] = proxy[t][n]
    BY <1>1, <2>2 DEF ForwardOpened, TypeOK
  <2>3. ASSUME NEW u \in Tunnels, NEW m \in Conns, ProxyLeaves(u, m)
        PROVE  proxy'[t][n] # "running"
    BY <1>1, <2>1, <2>3 DEF ProxyLeaves, TypeOK
  <2>4. ASSUME NEW u \in Tunnels, NEW m \in Conns, ProxyForgets(u, m)
        PROVE  proxy'[t][n] # "running"
    BY <1>1, <2>1, <2>4 DEF ProxyForgets, TypeOK
  <2>5. ASSUME NEW u \in Tunnels, NEW m \in Conns, ProxyReturns(u, m)
        PROVE  proxy'[t][n] # "running"
    BY <1>1, <2>1, <2>5 DEF ProxyReturns, TypeOK
  <2> QED BY <2>1, <2>2, <2>3, <2>4, <2>5, ProxyFrame
<1> QED BY <1>2, <1>3 DEF Quiet, Live

\* Once opened, a quiet tunnel stays quiet.
LEMMA QuietStays ==
    ASSUME IInv, [Next]_vars, NEW t \in Tunnels, opening[t] = "done", Quiet(t)
    PROVE  Quiet(t)'
<1>1. accept[t] = "ended"
  BY DEF IInv, OpenFits, Quiet
<1> QED BY <1>1, EndedStays DEF Quiet

\* Only a close() that has awaited everything shows a tunnel as Closed.
LEMMA ClosedKept == IInv /\ [Next]_vars => ClosedIsQuiet'
<1> SUFFICES ASSUME IInv, [Next]_vars, NEW t \in Tunnels, state'[t] = "Closed" PROVE Quiet(t)'
  BY DEF ClosedIsQuiet
<1>1. TypeOK /\ OpenFits /\ ClosedIsQuiet
  BY DEF IInv, TunnelInv
<1>2. CASE state[t] = "Closed"
  BY <1>1, <1>2, EndedStays DEF OpenFits, ClosedIsQuiet, Quiet
<1>3. CASE state[t] # "Closed"
  <2>1. \/ UNCHANGED state
        \/ \E u \in Tunnels : Bound(u) \/ LoopFails(u)
        \/ \E p \in Procs : CloseFinish(p)
    BY DEF Next, vars, openVars, Attach, Disconnect, OpenTunnel, OpenStep, BindFails,
       Register, AcceptConnection, LoopStep, ForwardOpened, RegisterProxy, LoopCancelled,
       ProxyFinishes, ProxyCancelled, ProxyLeaves, ProxyForgets, ProxyReturns, List,
       Close, CloseStep, CloseLock, CloseJoinAccept, CloseDrain,
       ReapStep, ReapSnapshot, ReapForget, ReapNext
  <2>2. ASSUME NEW u \in Tunnels, Bound(u) \/ LoopFails(u) PROVE FALSE
    BY <1>1, <1>3, <2>2 DEF Bound, LoopFails, TypeOK
  <2>3. PICK p \in Procs : CloseFinish(p)
    BY <1>3, <2>1, <2>2
  <2>4. call[p].tunnel = t
    BY <1>1, <1>3, <2>3 DEF CloseFinish, TypeOK
  <2> QED BY <2>3, <2>4, FinishIsQuiet, EndedStays
<1> QED BY <1>2, <1>3

\* A reaper accounts for every tunnel of its host until it has closed it.
LEMMA ReapKept == IInv /\ [Next]_vars => ReapFits'
<1> SUFFICES ASSUME IInv, [Next]_vars, NEW r \in Reapers, reap'[r].pc = "closing",
                    NEW t \in registry', HostOf[t] = reap'[r].host
             PROVE  \/ t \in late' \cup reap'[r].todo
                    \/ call'[r].pc # "idle" /\ call'[r].tunnel = t
                    \/ Quiet(t)'
  BY DEF ReapFits, TunnelsOf
<1> DEFINE Goal == \/ t \in late' \cup reap'[r].todo
                   \/ call'[r].pc # "idle" /\ call'[r].tunnel = t
                   \/ Quiet(t)'
<1>1. TypeOK /\ OpenFits /\ r \in Procs
  BY DEF IInv, TunnelInv, Procs
<1>2. ASSUME t \in registry, reap[r].pc = "closing", reap[r].host = reap'[r].host
      PROVE  \/ t \in late \cup reap[r].todo
             \/ call[r].pc # "idle" /\ call[r].tunnel = t
             \/ Quiet(t)'
  <2>1. t \in Tunnels /\ opening[t] = "done"
    BY <1>1, <1>2 DEF TypeOK, OpenFits
  <2>2. \/ t \in late \cup reap[r].todo
        \/ call[r].pc # "idle" /\ call[r].tunnel = t
        \/ Quiet(t)
    BY <1>2 DEF IInv, ReapFits, TunnelsOf
  <2> QED BY <2>1, <2>2, QuietStays
<1>3. CASE /\ registry' \subseteq registry /\ late' = late /\ reap'[r] = reap[r]
           /\ call[r].pc # "idle" => call'[r].pc # "idle" /\ call'[r].tunnel = call[r].tunnel
  BY <1>2, <1>3
<1>4. ASSUME NEW h \in Hosts, NEW s \in Reapers, Attach(h, s) \/ Disconnect(h, s) PROVE Goal
  <2>1. reap' = [reap EXCEPT ![s] = [Asleep EXCEPT !.pc = "start", !.host = h]]
    BY <1>4 DEF Attach, Disconnect
  <2>2. [Asleep EXCEPT !.pc = "start", !.host = h].pc = "start"
    BY DEF Asleep
  <2>3. s # r /\ reap'[r] = reap[r]
    BY <1>1, <2>1, <2>2 DEF TypeOK
  <2> QED BY <1>3, <1>4, <2>3 DEF Attach, Disconnect, openVars, closeVars
<1>5. ASSUME NEW u \in Tunnels, Register(u) PROVE Goal
  <2>1. CASE t = u
    BY <1>5, <2>1 DEF Register
  <2>2. CASE t # u
    BY <1>2, <1>5, <2>2 DEF Register, closeVars
  <2> QED BY <2>1, <2>2
<1>6. ASSUME NEW p \in Procs, NEW u \in Tunnels, Enter(p, u), call[p].pc = "idle",
             UNCHANGED <<registry, late>>, reap'[r] = reap[r]
      PROVE  Goal
  <2>1. \A q \in Procs : q # p => call'[q] = call[q]
    BY <1>1, <1>6, EnterEffect
  <2> QED BY <1>1, <1>3, <1>6, <2>1
<1>7. ASSUME NEW p \in Procs, CloseStep(p) PROVE Goal
  <2>1. UNCHANGED <<registry, late, reap>>
    BY <1>7 DEF CloseStep, CloseLock, CloseJoinAccept, CloseDrain, CloseFinish, openVars
  <2>2. CASE CloseLock(p)
    BY <1>1, <1>3, <2>1, <2>2 DEF CloseLock, TypeOK
  <2>3. CASE CloseJoinAccept(p)
    BY <1>1, <1>3, <2>1, <2>3 DEF CloseJoinAccept, TypeOK
  <2>4. CASE CloseDrain(p)
    BY <1>1, <1>3, <2>1, <2>4 DEF CloseDrain, TypeOK
  <2>5. CASE CloseFinish(p)
    <3>1. \A q \in Procs : q # p => call'[q] = call[q]
      BY <1>1, <2>5 DEF CloseFinish, TypeOK
    <3>2. call[p].tunnel \in Tunnels
      BY <1>1 DEF TypeOK
    <3>3. CASE r = p /\ call[p].tunnel = t
      BY <2>5, <3>2, <3>3, FinishIsQuiet, EndedStays
    <3>4. CASE r = p /\ call[p].tunnel # t
      BY <1>2, <2>1, <3>4
    <3>5. CASE r # p
      BY <1>1, <1>3, <2>1, <3>1, <3>5
    <3> QED BY <3>3, <3>4, <3>5
  <2> QED BY <1>7, <2>2, <2>3, <2>4, <2>5 DEF CloseStep
<1>8. ASSUME NEW s \in Reapers, ReapSnapshot(s) PROVE Goal
  <2>1. CASE s = r
    <3>1. reap[r].host \in Hosts /\ reap'[r].host = reap[r].host
          /\ reap'[r].todo = TunnelsOf(reap[r].host) /\ registry' = registry
      <4> DEFINE old == reap[r]
                 mine == TunnelsOf(reap[r].host)
                 new == [old EXCEPT !.pc = "closing", !.todo = mine, !.seen = mine]
      <4>3. reap \in [Reapers -> Reaps]
        BY <1>1 DEF TypeOK, Reaps
      <4>4. reap' = [reap EXCEPT ![r].pc = "closing", ![r].todo = mine, ![r].seen = mine]
            /\ registry' = registry
        BY <1>8, <2>1 DEF ReapSnapshot, openVars
      <4>1. reap' = [reap EXCEPT ![r] = new] /\ old \in Reaps /\ reap \in [Reapers -> Reaps]
            /\ registry' = registry
        BY <4>3, <4>4
      <4> HIDE DEF old, mine
      <4>2. new.host = old.host /\ new.todo = mine /\ old.host \in Hosts
        BY <4>1 DEF Reaps
      <4> HIDE DEF new
      <4> QED BY <4>1, <4>2 DEF old, mine
    <3> QED BY <3>1 DEF TunnelsOf
  <2>2. CASE s # r
    BY <1>1, <1>3, <1>8, <2>2 DEF ReapSnapshot, TypeOK, openVars, closeVars
  <2> QED BY <2>1, <2>2
<1>9. ASSUME NEW s \in Reapers, ReapForget(s) PROVE Goal
  <2>1. s # r /\ reap'[r] = reap[r]
    BY <1>1, <1>9, IdleIsTyped DEF ReapForget, TypeOK
  <2> QED BY <1>3, <1>9, <2>1 DEF ReapForget, closeVars
<1>10. ASSUME NEW s \in Reapers, NEW u \in Tunnels, ReapNext(s, u) PROVE Goal
  <2>1. UNCHANGED <<registry, late>> /\ s \in Procs
    BY <1>10 DEF ReapNext, openVars, Procs
  <2>2. CASE s = r
    <3>1. /\ call[r].pc = "idle" /\ reap'[r].todo = reap[r].todo \ {u}
          /\ reap[r].pc = "closing" /\ reap'[r].host = reap[r].host
      BY <1>1, <1>10, <2>2 DEF ReapNext, TypeOK
    <3>2. CASE u \in registry
      <4>1. call'[r].pc = "locking" /\ call'[r].tunnel = u
        BY <1>1, <1>10, <2>1, <2>2, <3>2, EnterEffect DEF ReapNext
      <4> QED BY <1>2, <2>1, <3>1, <4>1
    <3>3. CASE u \notin registry
      BY <1>2, <2>1, <3>1, <3>3
    <3> QED BY <3>2, <3>3
  <2>3. CASE s # r
    <3>1. reap'[r] = reap[r]
      BY <1>1, <1>10, <2>3 DEF ReapNext, TypeOK
    <3> QED BY <1>3, <1>6, <1>10, <2>1, <3>1 DEF ReapNext
  <2> QED BY <2>2, <2>3
<1> QED
  BY <1>3, <1>4, <1>5, <1>6, <1>7, <1>8, <1>9, <1>10
     DEF Next, vars, openVars, closeVars, OpenTunnel, OpenStep, BindFails, Bound,
         AcceptConnection, LoopStep, ForwardOpened, RegisterProxy, LoopCancelled, LoopFails,
         ProxyFinishes, ProxyCancelled, ProxyLeaves, ProxyForgets, ProxyReturns, List,
         Close, Procs, ReapStep

\* What a reaper drops from the table it has closed, unless it came late.
LEMMA ForgottenKept == IInv /\ [Next]_vars => ForgottenIsQuiet'
<1> SUFFICES ASSUME IInv, [Next]_vars, NEW t \in Tunnels,
                    opening'[t] = "done", t \notin registry', t \notin late'
             PROVE  Quiet(t)'
  BY DEF ForgottenIsQuiet
<1>1. TypeOK /\ OpenFits /\ ForgottenIsQuiet
  BY DEF IInv, TunnelInv
<1>2. opening[t] = "done" /\ t \notin late
  <2>1. \/ UNCHANGED <<opening, late>>
        \/ \E u \in Tunnels : OpenTunnel(u) \/ OpenStep(u)
    BY OpenFrame
  <2>2. ASSUME NEW u \in Tunnels, OpenTunnel(u) \/ BindFails(u) \/ Bound(u)
        PROVE  opening[t] = "done" /\ t \notin late
    BY <1>1, <2>2 DEF OpenTunnel, BindFails, Bound, TypeOK
  <2>3. ASSUME NEW u \in Tunnels, Register(u) PROVE opening[t] = "done" /\ t \notin late
    BY <1>1, <2>3 DEF Register, TypeOK
  <2> QED BY <2>1, <2>2, <2>3 DEF OpenStep
<1>3. CASE t \notin registry
  BY <1>1, <1>2, <1>3, QuietStays DEF ForgottenIsQuiet
<1>4. CASE t \in registry
  <2>1. \E r \in Reapers : ReapForget(r) /\ HostOf[t] = reap[r].host
    BY <1>4 DEF Next, vars, openVars, Attach, Disconnect, OpenTunnel, OpenStep, BindFails,
       Bound, Register, AcceptConnection, LoopStep, ForwardOpened, RegisterProxy, LoopCancelled,
       LoopFails, ProxyFinishes, ProxyCancelled, ProxyLeaves, ProxyForgets, ProxyReturns, List,
       Close, CloseStep, CloseLock, CloseJoinAccept, CloseDrain, CloseFinish,
       ReapStep, ReapSnapshot, ReapForget, ReapNext, TunnelsOf
  <2>2. Quiet(t)
    BY <1>2, <1>4, <2>1 DEF ReapForget, TunnelsOf, IInv, ReapFits
  <2> QED BY <1>2, <2>2, QuietStays
<1> QED BY <1>3, <1>4

-----------------------------------------------------------------------------
(* The theorems *)

\* The inductive invariant holds initially.
LEMMA InitHolds == Init => IInv
<1> SUFFICES ASSUME Init PROVE IInv
  OBVIOUS
<1> USE TunnelAssumption DEF Init
<1>1. TypeOK
  BY IdleIsTyped DEF TypeOK, TunnelState, Idle, Asleep
<1>2. CountIsLive
  <2>1. \A t \in Tunnels : Live(t) = {}
    BY DEF Live
  <2> QED BY <2>1, FS_EmptySet DEF CountIsLive
<1>3. ClosedIsQuiet /\ ForgottenIsQuiet /\ ReapFits
  BY IdleIsTyped DEF ClosedIsQuiet, ForgottenIsQuiet, ReapFits, Asleep
<1>4. LockFits /\ OpenFits /\ ProxiesFit
  BY IdleIsTyped DEF LockFits, InLock, OpenFits, ProxiesFit, Idle, Procs
<1>5. HandleFits /\ ProxiesHeld /\ DrainedIsEmpty
  BY IdleIsTyped DEF HandleFits, ProxiesHeld, DrainedIsEmpty, Idle
<1> QED BY <1>1, <1>2, <1>3, <1>4, <1>5 DEF IInv, TunnelInv

\* Opens, closes, proxies and close_all_for_host of any number of callers keep
\* the inductive invariant.
THEOREM TunnelInvariant == Spec => []IInv
<1>1. Init => IInv
  BY InitHolds
<1>2. IInv /\ [Next]_vars => IInv'
  BY TypeKept, CountKept, ClosedKept, ForgottenKept, LockKept, OpenKept, ProxiesFitKept,
     HandleKept, HeldKept, DrainedKept, ReapKept DEF IInv, TunnelInv
<1> QED BY <1>1, <1>2, PTL DEF Spec

\* In whatever order opens, closes, proxies and close_all_for_host come, the
\* counter of a tunnel is the number of its proxies, a Closed tunnel has
\* neither listener nor connection, and a forgotten one has neither unless it
\* entered the table behind the reaper's back.
THEOREM TunnelsAreSound == Spec => []TunnelInv
<1>1. IInv => TunnelInv
  BY DEF IInv
<1> QED BY <1>1, TunnelInvariant, PTL
=============================================================================
