--------------------------- MODULE TailscaleRuntime ---------------------------
(***************************************************************************)
(* The managed userspace tailscaled: kodework-tailscale/src/runtime.rs,    *)
(* Windows build, with the commands that call it.  Each application        *)
(* process holds at most one child daemon behind two mutexes: lifecycle    *)
(* serialises ensure and shutdown, inner guards the fields and is kept     *)
(* across the awaits of ensure_child.  status_for_config takes inner only  *)
(* for single reads and writes.  On disk, each state has a lock file       *)
(* without sharing, a lease naming the daemon, and a short-lived file with *)
(* the auth key.  Processes may crash at any step; daemons outlive them.   *)
(*                                                                         *)
(* Only configurations in EmbeddedUserspace mode with an absolute state    *)
(* path come here; the others return before they touch this state.  Waits  *)
(* with a deadline are one step with every outcome they may end in.        *)
(***************************************************************************)
EXTENDS Naturals, FiniteSets

CONSTANTS
    Apps,       \* application processes, each of which starts at most once
    Callers,    \* tasks in a command
    States,     \* state files
    Hosts,      \* hosts a process may prepare: [app, state, key]
    MaxPid,     \* bound on process ids
    MaxCalls,   \* bound on commands
    None        \* no process, no caller, no state

ASSUME RuntimeAssumption ==
    /\ None \notin Apps \cup Callers \cup States
    /\ "left" \notin Callers
    /\ Hosts \subseteq [app : Apps, state : States, key : BOOLEAN]
    /\ {MaxPid, MaxCalls} \subseteq Nat

Pids == 1 .. MaxPid
NoPid == 0

VARIABLES
    app,       \* "new", "up" or "ended"
    lifecycle, \* who holds TailscaleRuntime.lifecycle
    held,      \* who holds TailscaleRuntime.inner across an await
    child,     \* RuntimeInner.child, also standing for lease_path
    path,      \* RuntimeInner.state_path, also standing for socket
    cache,     \* RuntimeInner.cached_status
    lock,      \* the process with the lock file of a state open
    lease,     \* the lease file of a state
    auth,      \* whose auth key is in the handoff file of a state
    loggedIn,  \* whether the state file holds a login
    proc,      \* the processes of the machine
    lost,      \* history: daemons whose lease was removed or passed over
               \* while they lived
    call,      \* the command a caller is in
    calls      \* number of commands so far

innerVars == <<child, path, cache>>
fileVars == <<lock, lease, auth, loggedIn>>
mutexVars == <<lifecycle, held>>
vars == <<app, mutexVars, innerVars, fileVars, proc, lost, call, calls>>

----------------------------------------------------------------------------
\* Process ids, leases, status answers and calls

Free == [kind |-> "free", state |-> None, app |-> None]
Other == [kind |-> "other", state |-> None, app |-> None]
Daemon(s, a) == [kind |-> "daemon", state |-> s, app |-> a]

NoLease == [kind |-> "none", pid |-> NoPid, app |-> None]
Torn == [kind |-> "torn", pid |-> NoPid, app |-> None]
Written(p, a) == [kind |-> "written", pid |-> p, app |-> a]

\* CachedStatus: the state it is for, whether it says running, who asked for
\* it, and (history) the daemon that answered.
NoStatus == [state |-> None, running |-> FALSE, by |-> "none", at |-> NoPid]
CachedStatus(s, r, b, p) == [state |-> s, running |-> r, by |-> b, at |-> p]

Idle == [pc |-> "idle", app |-> None, state |-> None, key |-> FALSE,
         handle |-> NoPid, lease |-> NoLease, seen |-> Free, answer |-> NoStatus]

Init ==
    /\ app = [a \in Apps |-> "new"]
    /\ lifecycle = [a \in Apps |-> None]
    /\ held = [a \in Apps |-> None]
    /\ child = [a \in Apps |-> NoPid]
    /\ path = [a \in Apps |-> None]
    /\ cache = [a \in Apps |-> NoStatus]
    /\ lock = [s \in States |-> None]
    /\ lease = [s \in States |-> NoLease]
    /\ auth = [s \in States |-> None]
    /\ loggedIn = [s \in States |-> FALSE]
    /\ proc = [p \in Pids |-> Free]
    /\ lost = {}
    /\ call = [c \in Callers |-> Idle]
    /\ calls = 0

Daemons == {p \in Pids : proc[p].kind = "daemon"}

\* A process id stays taken while a process or a handle to it exists.
Available(p) ==
    /\ proc[p] = Free
    /\ \A a \in Apps : child[a] # p
    /\ \A c \in Callers : call[c].handle # p

Alive(a) == child[a] # NoPid /\ proc[child[a]].kind = "daemon"

\* socket_path: the pipe of a state is scoped to the process that made it.
\* The daemons that listen on it:
Listening(s, a) == {p \in Daemons : proc[p] = Daemon(s, a)}

\* The daemon the lease of a state names, when it is one of this state.
Leased(s) == {p \in Daemons : proc[p].state = s /\ lease[s] = Written(p, proc[p].app)}

\* remove_file, whose failure is ignored.
remove_lease(s) == lease' \in {lease, [lease EXCEPT ![s] = NoLease]}

At(c, pc) == call[c].pc = pc
A(c) == call[c].app
S(c) == call[c].state
Goto(c, pc) == call' = [call EXCEPT ![c].pc = pc]

----------------------------------------------------------------------------
\* Processes of the application and of the machine

Start(a) ==
    /\ app[a] = "new"
    /\ app' = [app EXCEPT ![a] = "up"]
    /\ UNCHANGED <<mutexVars, innerVars, fileVars, proc, lost, call, calls>>

\* The daemons of a process that one of its calls holds.
InHand(a) == {call[c].handle : c \in {d \in Callers : A(d) = a}} \ {NoPid}

\* The process is gone at any step: its memory, its tasks and its lock files,
\* but neither its daemon nor the files.
EndProcess(a) ==
    /\ app' = [app EXCEPT ![a] = "ended"]
    /\ lifecycle' = [lifecycle EXCEPT ![a] = None]
    /\ held' = [held EXCEPT ![a] = None]
    /\ child' = [child EXCEPT ![a] = NoPid]
    /\ path' = [path EXCEPT ![a] = None]
    /\ cache' = [cache EXCEPT ![a] = NoStatus]
    /\ lock' = [s \in States |-> IF lock[s] = a THEN None ELSE lock[s]]
    /\ auth' = [s \in States |->
                  IF auth[s] \in Callers /\ A(auth[s]) = a THEN "left" ELSE auth[s]]
    /\ lost' = lost \cup {p \in InHand(a) \cap Daemons :
                            lease'[proc[p].state] # Written(p, proc[p].app)}
    /\ call' = [c \in Callers |-> IF A(c) = a THEN Idle ELSE call[c]]
    /\ UNCHANGED <<loggedIn, proc, calls>>

\* A lease being written may be torn.
Crash(a) ==
    /\ app[a] = "up"
    /\ lease' \in {lease} \cup {[lease EXCEPT ![S(c)] = Torn] :
                                  c \in {d \in Callers : A(d) = a /\ At(d, "lease")}}
    /\ EndProcess(a)

\* A daemon ends by itself, or by a taskkill that outlived its deadline.
DaemonDies(p) ==
    /\ p \in Daemons
    /\ proc' = [proc EXCEPT ![p] = Free]
    /\ lost' = lost \ {p}
    /\ UNCHANGED <<app, mutexVars, innerVars, fileVars, call, calls>>

\* A process id a lease still names goes to an unrelated process.
OtherProcess(p) ==
    /\ Available(p)
    /\ \E s \in States : lease[s].pid = p
    /\ proc' = [proc EXCEPT ![p] = Other]
    /\ UNCHANGED <<app, mutexVars, innerVars, fileVars, lost, call, calls>>

\* STATUS_CACHE_TTL: an entry too old is never used again.
CacheExpires(a) ==
    /\ cache[a] # NoStatus
    /\ cache' = [cache EXCEPT ![a] = NoStatus]
    /\ UNCHANGED <<app, mutexVars, child, path, fileVars, proc, lost, call, calls>>

----------------------------------------------------------------------------
\* ensure: entering, and every way to leave

StartCall(c, a, s, k, pc) ==
    /\ app[a] = "up" /\ At(c, "idle") /\ calls < MaxCalls
    /\ calls' = calls + 1
    /\ call' = [call EXCEPT ![c] = [Idle EXCEPT !.pc = pc, !.app = a,
                                                !.state = s, !.key = k]]
    /\ UNCHANGED <<app, mutexVars, innerVars, fileVars, proc, lost>>

\* prepare_host_network: a host's state, and its auth key when it has a usable one.
prepare_host_network(c) ==
    \E h \in Hosts : StartCall(c, h.app, h.state, h.key, "enter")

ensure(c) ==
    /\ At(c, "enter") /\ lifecycle[A(c)] = None
    /\ lifecycle' = [lifecycle EXCEPT ![A(c)] = c]
    /\ Goto(c, "child")
    /\ UNCHANGED <<app, held, innerVars, fileVars, proc, lost, calls>>

\* Returning drops what the call still owns: the guards of both mutexes, the
\* lock file not yet moved into inner, and the AuthFileGuard (whose
\* removal is taken to succeed).
HasLocalLock(c) == call[c].pc \in {"clean", "inspect", "kill", "spawn", "lease"}

\* Mutant: the key file has no guard.
DropLocalsMutant(c) ==
    /\ lifecycle' = [lifecycle EXCEPT ![A(c)] = None]
    /\ held' = [held EXCEPT ![A(c)] = IF @ = c THEN None ELSE @]
    /\ lock' = IF HasLocalLock(c) THEN [lock EXCEPT ![S(c)] = None] ELSE lock
    /\ UNCHANGED auth

DropLocals(c) ==
    /\ lifecycle' = [lifecycle EXCEPT ![A(c)] = None]
    /\ held' = [held EXCEPT ![A(c)] = IF @ = c THEN None ELSE @]
    /\ lock' = IF HasLocalLock(c) THEN [lock EXCEPT ![S(c)] = None] ELSE lock
    /\ auth' = [s \in States |-> IF auth[s] = c THEN None ELSE auth[s]]

Return(c, status) ==
    /\ DropLocals(c)
    /\ call' = [call EXCEPT ![c] = [Idle EXCEPT !.pc = "done", !.answer = status]]

Fails(c) ==
    /\ DropLocals(c)
    /\ call' = [call EXCEPT ![c] = Idle]

End(c) ==
    /\ At(c, "done")
    /\ call' = [call EXCEPT ![c] = Idle]
    /\ UNCHANGED <<app, mutexVars, innerVars, fileVars, proc, lost, calls>>

----------------------------------------------------------------------------
\* ensure_child, under inner

StateDirectoryFails(c) ==
    /\ At(c, "child")
    /\ Fails(c)
    /\ UNCHANGED <<app, innerVars, lease, loggedIn, proc, lost, calls>>

ChildIsLive(c) ==
    /\ At(c, "child") /\ held[A(c)] = None /\ Alive(A(c))
    /\ IF path[A(c)] = S(c)
       THEN Goto(c, "cached") /\ UNCHANGED <<mutexVars, lock, auth>>
       ELSE Fails(c)
    /\ UNCHANGED <<app, innerVars, lease, loggedIn, proc, lost, calls>>

\* No child, or one that has exited: its lease goes first, then its lock.
\* (Its removal is taken to succeed: the process it names is gone.)
ChildIsDead(c) ==
    LET a == A(c) IN
    /\ At(c, "child") /\ held[a] = None /\ ~Alive(a)
    /\ held' = [held EXCEPT ![a] = c]
    /\ lease' = [s \in States |-> IF child[a] # NoPid /\ path[a] = s
                                  THEN NoLease ELSE lease[s]]
    /\ lock' = [s \in States |-> IF child[a] # NoPid /\ path[a] = s
                                 THEN None ELSE lock[s]]
    /\ child' = [child EXCEPT ![a] = NoPid]
    /\ path' = [path EXCEPT ![a] = None]
    /\ cache' = IF child[a] # NoPid THEN [cache EXCEPT ![a] = NoStatus] ELSE cache
    /\ Goto(c, "lock")
    /\ UNCHANGED <<app, lifecycle, auth, loggedIn, proc, lost, calls>>

\* Opened without sharing: refused while any handle to the file is open.
acquire_state_lock(c) ==
    /\ At(c, "lock")
    /\ \/ /\ lock[S(c)] = None
          /\ lock' = [lock EXCEPT ![S(c)] = A(c)]
          /\ Goto(c, "clean")
          /\ UNCHANGED <<mutexVars, auth>>
       \/ /\ lock[S(c)] # None
          /\ Fails(c)
    /\ UNCHANGED <<app, innerVars, lease, loggedIn, proc, lost, calls>>

----------------------------------------------------------------------------
\* cleanup_stale_daemon

\* The lease was dealt with and is removed.
Forget(c) ==
    /\ remove_lease(S(c))
    /\ call' = [call EXCEPT ![c].pc = "spawn", ![c].lease = NoLease, ![c].seen = Free]
    /\ UNCHANGED <<mutexVars, lock, auth>>

\* No lease, or one that cannot be parsed.
NothingStale(c) ==
    /\ At(c, "clean") /\ lease[S(c)].kind # "written"
    /\ Forget(c)
    /\ UNCHANGED <<app, innerVars, loggedIn, proc, lost, calls>>

\* Any error of the read counts as no lease: the daemon it names is passed over.
LeaseUnreadable(c) ==
    /\ At(c, "clean") /\ lease[S(c)] # NoLease
    /\ lost' = lost \cup Leased(S(c))
    /\ Goto(c, "spawn")
    /\ UNCHANGED <<app, mutexVars, innerVars, fileVars, proc, calls>>

\* Mutant: a stale lease is ignored.
ReadLeaseMutant(c) ==
    /\ At(c, "clean") /\ lease[S(c)].kind = "written"
    /\ Goto(c, "spawn")
    /\ UNCHANGED <<app, mutexVars, innerVars, fileVars, proc, lost, calls>>

ReadLease(c) ==
    /\ At(c, "clean") /\ lease[S(c)].kind = "written"
    /\ call' = [call EXCEPT ![c].pc = "inspect", ![c].lease = lease[S(c)]]
    /\ UNCHANGED <<app, mutexVars, innerVars, fileVars, proc, lost, calls>>

\* Mutant: the command line is not compared.
MatchesAnything(l, s) == proc[l.pid] # Free

\* The command line of the leased process names this state and this pipe.
Matches(l, s) == proc[l.pid] = Daemon(s, l.app)

\* The powershell query answers; with no match the lease is only removed.
Inspect(c) ==
    LET l == call[c].lease IN
    /\ At(c, "inspect")
    /\ IF Matches(l, S(c))
       THEN /\ call' = [call EXCEPT ![c].pc = "kill", ![c].seen = proc[l.pid]]
            /\ UNCHANGED <<lease, mutexVars, lock, auth>>
       ELSE Forget(c)
    /\ UNCHANGED <<app, innerVars, loggedIn, proc, lost, calls>>

\* The query exits with an error: treated like a process that is not ours.
InspectFails(c) ==
    /\ At(c, "inspect")
    /\ Forget(c)
    /\ lost' = lost \cup Leased(S(c))
    /\ UNCHANGED <<app, innerVars, loggedIn, proc, calls>>

\* Mutant: a failing cleanup removes the lease.
CleanupFailsUnleases(c) ==
    /\ At(c, "inspect") \/ At(c, "kill")
    /\ Fails(c)
    /\ lease' = [lease EXCEPT ![S(c)] = NoLease]
    /\ UNCHANGED <<app, innerVars, loggedIn, proc, lost, calls>>

\* The query or taskkill runs into its deadline, or taskkill reports an error:
\* the lease stays for the next attempt.
CleanupFails(c) ==
    /\ At(c, "inspect") \/ At(c, "kill")
    /\ Fails(c)
    /\ UNCHANGED <<app, innerVars, lease, loggedIn, proc, lost, calls>>

\* taskkill ends whatever has the process id by now.
KillStale(c) ==
    LET p == call[c].lease.pid IN
    /\ At(c, "kill") /\ proc[p] # Free
    /\ proc' = [proc EXCEPT ![p] = Free]
    /\ lost' = lost \ {p}
    /\ Forget(c)
    /\ UNCHANGED <<app, innerVars, loggedIn, calls>>

----------------------------------------------------------------------------
\* Spawning and leasing

Spawn(c) ==
    /\ At(c, "spawn")
    /\ \E p \in Pids :
         /\ Available(p)
         /\ proc' = [proc EXCEPT ![p] = Daemon(S(c), A(c))]
         /\ call' = [call EXCEPT ![c].pc = "lease", ![c].handle = p]
    /\ UNCHANGED <<app, mutexVars, innerVars, fileVars, lost, calls>>

SpawnFails(c) ==
    /\ At(c, "spawn")
    /\ Fails(c)
    /\ UNCHANGED <<app, innerVars, lease, loggedIn, proc, lost, calls>>

\* The lease is on disk and everything moves into inner.
write_runtime_lease(c) ==
    LET a == A(c)
        p == call[c].handle IN
    /\ At(c, "lease")
    /\ lease' = [lease EXCEPT ![S(c)] = Written(p, a)]
    /\ child' = [child EXCEPT ![a] = p]
    /\ path' = [path EXCEPT ![a] = S(c)]
    /\ cache' = [cache EXCEPT ![a] = NoStatus]
    /\ held' = [held EXCEPT ![a] = None]
    /\ call' = [call EXCEPT ![c].pc = "cached", ![c].handle = NoPid]
    /\ UNCHANGED <<app, lifecycle, lock, auth, loggedIn, proc, lost, calls>>

\* The lease cannot be written: the child is dropped, which kills it.
LeaseFails(c) ==
    /\ At(c, "lease")
    /\ lease' \in {lease, [lease EXCEPT ![S(c)] = Torn]}
    /\ proc' = [proc EXCEPT ![call[c].handle] = Free]
    /\ lost' = lost \ {call[c].handle}
    /\ Fails(c)
    /\ UNCHANGED <<app, innerVars, loggedIn, calls>>

----------------------------------------------------------------------------
\* ensure: the status, the login

\* cached_status: whatever is cached for the state is the answer of ensure.
cached_status(c) ==
    /\ At(c, "cached") /\ held[A(c)] = None
    /\ IF cache[A(c)].state = S(c)
       THEN Return(c, cache[A(c)])
       ELSE Goto(c, "reach") /\ UNCHANGED <<mutexVars, lock, auth>>
    /\ UNCHANGED <<app, innerVars, lease, loggedIn, proc, lost, calls>>

\* A daemon without a login is never running, one with a login may still be
\* starting.
Answers(c, by) == UNION {{CachedStatus(S(c), r, by, p) : r \in {FALSE, loggedIn[S(c)]}} :
                           p \in Listening(S(c), A(c))}

\* Mutant: any answer counts as running.
is_runningMutant(status) == status.running \in BOOLEAN

is_running(status) == status.running

\* The daemon answers before the deadline.
wait_until_reachable(c) ==
    /\ At(c, "reach")
    /\ \E status \in Answers(c, "ensure") :
         \/ /\ is_running(status)
            /\ call' = [call EXCEPT ![c].pc = "store", ![c].answer = status]
            /\ UNCHANGED <<mutexVars, lock, auth>>
         \/ /\ ~is_running(status) /\ call[c].key
            /\ Goto(c, "auth")
            /\ UNCHANGED <<mutexVars, lock, auth>>
         \/ /\ ~is_running(status) /\ ~call[c].key
            /\ Fails(c)
    /\ UNCHANGED <<app, innerVars, lease, loggedIn, proc, lost, calls>>

write_auth_file(c) ==
    /\ At(c, "auth")
    /\ auth' = [auth EXCEPT ![S(c)] = c]
    /\ Goto(c, "up")
    /\ UNCHANGED <<app, mutexVars, innerVars, lock, lease, loggedIn, proc, lost, calls>>

up_with_auth_key_file(c) ==
    /\ At(c, "up") /\ Listening(S(c), A(c)) # {}
    /\ loggedIn' = [loggedIn EXCEPT ![S(c)] = TRUE]
    /\ Goto(c, "running")
    /\ UNCHANGED <<app, mutexVars, innerVars, lock, lease, auth, proc, lost, calls>>

wait_until_running(c) ==
    /\ At(c, "running")
    /\ \E status \in Answers(c, "ensure") :
         /\ is_running(status)
         /\ call' = [call EXCEPT ![c].pc = "store", ![c].answer = status]
    /\ UNCHANGED <<app, mutexVars, innerVars, fileVars, proc, lost, calls>>

\* Mutant: a failing wait for reachability does not return.
EnsureFailsMutant(c) ==
    /\ call[c].pc \in {"auth", "up", "running"}
    /\ Fails(c)
    /\ UNCHANGED <<app, innerVars, lease, loggedIn, proc, lost, calls>>

\* A deadline passes, the CLI fails, the key file cannot be written or up is
\* refused.  A login that up gave up waiting for may have succeeded.
EnsureFails(c) ==
    /\ call[c].pc \in {"reach", "auth", "up", "running"}
    /\ Fails(c)
    /\ \/ UNCHANGED loggedIn
       \/ At(c, "up") /\ loggedIn' = [loggedIn EXCEPT ![S(c)] = TRUE]
    /\ UNCHANGED <<app, innerVars, lease, proc, lost, calls>>

\* cache_status, then ensure returns.
cache_status(c) ==
    LET a == A(c) IN
    /\ At(c, "store") /\ held[a] = None
    /\ cache' = [cache EXCEPT ![a] = call[c].answer]
    /\ Return(c, call[c].answer)
    /\ UNCHANGED <<app, child, path, lease, loggedIn, proc, lost, calls>>

----------------------------------------------------------------------------
\* status_for_config, outside lifecycle

\* Nothing usable is cached and the state is the active one: ask its daemon.
status_for_config(c) ==
    \E a \in Apps :
      /\ held[a] = None /\ path[a] # None
      /\ ~(Alive(a) /\ cache[a].state = path[a])
      /\ StartCall(c, a, path[a], FALSE, "query")

Query(c) ==
    /\ At(c, "query")
    /\ \/ \E status \in Answers(c, "status") :
            call' = [call EXCEPT ![c].pc = "answered", ![c].answer = status]
       \/ call' = [call EXCEPT ![c] = Idle]
    /\ UNCHANGED <<app, mutexVars, innerVars, fileVars, proc, lost, calls>>

\* Whatever has happened to the daemon since it answered.
StoreAnswer(c) ==
    /\ At(c, "answered") /\ held[A(c)] = None
    /\ cache' = [cache EXCEPT ![A(c)] = call[c].answer]
    /\ call' = [call EXCEPT ![c] = Idle]
    /\ UNCHANGED <<app, mutexVars, child, path, fileVars, proc, lost, calls>>

----------------------------------------------------------------------------
\* shutdown, then the process exits

Quit(c) == \E a \in Apps : StartCall(c, a, None, FALSE, "quit")

\* Mutant: the child stays in its slot.
shutdownMutant(c) ==
    LET a == A(c) IN
    /\ At(c, "quit") /\ lifecycle[a] = None /\ held[a] = None
    /\ lifecycle' = [lifecycle EXCEPT ![a] = c]
    /\ held' = [held EXCEPT ![a] = c]
    /\ cache' = [cache EXCEPT ![a] = NoStatus]
    /\ path' = [path EXCEPT ![a] = None]
    /\ lock' = [s \in States |-> IF lock[s] = a THEN None ELSE lock[s]]
    /\ call' = [call EXCEPT ![c].pc = "unlease", ![c].state = path[a],
                            ![c].handle = child[a]]
    /\ UNCHANGED <<app, child, lease, auth, loggedIn, proc, lost, calls>>

\* The fields are cleared in order; dropping state_lock lets other processes in.
shutdown(c) ==
    LET a == A(c) IN
    /\ At(c, "quit") /\ lifecycle[a] = None /\ held[a] = None
    /\ lifecycle' = [lifecycle EXCEPT ![a] = c]
    /\ held' = [held EXCEPT ![a] = c]
    /\ cache' = [cache EXCEPT ![a] = NoStatus]
    /\ path' = [path EXCEPT ![a] = None]
    /\ child' = [child EXCEPT ![a] = NoPid]
    /\ lock' = [s \in States |-> IF lock[s] = a THEN None ELSE lock[s]]
    /\ call' = [call EXCEPT ![c].pc = "unlease", ![c].state = path[a],
                            ![c].handle = child[a]]
    /\ UNCHANGED <<app, lease, auth, loggedIn, proc, lost, calls>>

\* The lease file is removed by name, whoever wrote it meanwhile.
RemoveLease(c) ==
    LET s == S(c)
        p == call[c].handle IN
    /\ At(c, "unlease")
    /\ IF p # NoPid THEN remove_lease(s) ELSE UNCHANGED lease
    /\ lost' = lost \cup {q \in Daemons \ {p} : p # NoPid /\ q \in Leased(s)
                                                /\ lease'[s] # lease[s]}
    /\ held' = [held EXCEPT ![A(c)] = None]
    /\ Goto(c, "stop")
    /\ UNCHANGED <<app, lifecycle, innerVars, lock, auth, loggedIn, proc, calls>>

StopChild(c) ==
    LET p == call[c].handle IN
    /\ At(c, "stop")
    /\ proc' = [q \in Pids |-> IF q = p /\ proc[q].kind = "daemon"
                               THEN Free ELSE proc[q]]
    /\ lost' = lost \ {p}
    /\ lifecycle' = [lifecycle EXCEPT ![A(c)] = None]
    /\ call' = [call EXCEPT ![c].pc = "exit", ![c].handle = NoPid]
    /\ UNCHANGED <<app, held, innerVars, fileVars, calls>>

Exit(c) ==
    /\ At(c, "exit")
    /\ UNCHANGED lease
    /\ EndProcess(A(c))

----------------------------------------------------------------------------
Step(c) ==
    \/ ensure(c) \/ End(c)
    \/ StateDirectoryFails(c) \/ ChildIsLive(c) \/ ChildIsDead(c)
    \/ acquire_state_lock(c) \/ NothingStale(c) \/ LeaseUnreadable(c) \/ ReadLease(c)
    \/ Inspect(c) \/ InspectFails(c) \/ CleanupFails(c) \/ KillStale(c) \/ Spawn(c) \/ SpawnFails(c)
    \/ write_runtime_lease(c) \/ LeaseFails(c)
    \/ cached_status(c) \/ wait_until_reachable(c) \/ write_auth_file(c)
    \/ up_with_auth_key_file(c) \/ wait_until_running(c) \/ EnsureFails(c)
    \/ cache_status(c) \/ Query(c) \/ StoreAnswer(c)
    \/ shutdown(c) \/ RemoveLease(c) \/ StopChild(c) \/ Exit(c)

Next ==
    \/ \E a \in Apps : Start(a) \/ Crash(a) \/ CacheExpires(a)
    \/ \E p \in Pids : DaemonDies(p) \/ OtherProcess(p)
    \/ \E c \in Callers : prepare_host_network(c) \/ status_for_config(c) \/ Quit(c)
                          \/ Step(c)

\* Every await ends: CLI calls, waits and cleanups have deadlines.
Spec == Init /\ [][Next]_vars /\ \A c \in Callers : WF_vars(Step(c))

----------------------------------------------------------------------------
\* Properties

Statuses == [state : States \cup {None}, running : BOOLEAN,
             by : {"none", "ensure", "status"}, at : 0 .. MaxPid]
Processes == [kind : {"free", "other", "daemon"},
              state : States \cup {None}, app : Apps \cup {None}]
Leases == [kind : {"none", "torn", "written"}, pid : 0 .. MaxPid,
           app : Apps \cup {None}]
Places == {"idle", "done", "enter", "child", "lock", "clean", "inspect", "kill", "spawn",
           "lease", "cached", "reach", "auth", "up", "running", "store",
           "query", "answered", "quit", "unlease", "stop", "exit"}

\* Type correctness, and what inner's fields owe each other: a process with a
\* child knows its state and holds that state's lock (RuntimeInner).
TypeOK ==
    /\ app \in [Apps -> {"new", "up", "ended"}]
    /\ lifecycle \in [Apps -> Callers \cup {None}]
    /\ held \in [Apps -> Callers \cup {None}]
    /\ child \in [Apps -> 0 .. MaxPid]
    /\ path \in [Apps -> States \cup {None}]
    /\ cache \in [Apps -> Statuses]
    /\ lock \in [States -> Apps \cup {None}]
    /\ lease \in [States -> Leases]
    /\ auth \in [States -> Callers \cup {None, "left"}]
    /\ loggedIn \in [States -> BOOLEAN]
    /\ proc \in [Pids -> Processes]
    /\ lost \subseteq Daemons
    /\ call \in [Callers -> [pc : Places, app : Apps \cup {None},
                             state : States \cup {None}, key : BOOLEAN,
                             handle : 0 .. MaxPid, lease : Leases, seen : Processes, answer : Statuses]]
    /\ calls \in 0 .. MaxCalls
    /\ \A a \in Apps : child[a] # NoPid => path[a] # None /\ lock[path[a]] = a

\* Daemons that a shutdown is about to stop.
Stopping == {call[c].handle : c \in {d \in Callers : At(d, "unlease") \/ At(d, "stop")}}

\* Two daemons never work on one state file (acquire_state_lock and
\* cleanup_stale_daemon), across processes, crashes and reused process ids,
\* unless one of them is being stopped or is in lost: a lease that could not be
\* read or whose process could not be inspected does not stop the next start.
OneDaemonPerState ==
    \A p, q \in Daemons :
      p # q /\ proc[p].state = proc[q].state => {p, q} \cap (lost \cup Stopping) # {}

\* A daemon without an owner is found again: whatever ends its process, the
\* lease of its state names it with its pipe, except in the windows that fill
\* lost: a crash between spawn and lease or between unlease and stop, a failing
\* inspection, an unreadable lease, and a shutdown that removes the lease of
\* the daemon another process has started since it dropped the lock.
OrphanIsLeased ==
    \A p \in Daemons :
      \/ p \in lost
      \/ \E a \in Apps : child[a] = p
      \/ \E c \in Callers : call[c].handle = p
      \/ lease[proc[p].state] = Written(p, proc[p].app)

\* cleanup_stale_daemon only ends a process that was a daemon of this state
\* when inspected, and never the child of a process that still holds the state.
\* (By then the process id may have gone to any other process of the machine.)
KillIsJustified ==
    [][\A c \in Callers : KillStale(c) =>
         LET p == call[c].lease.pid IN
         /\ call[c].seen.kind = "daemon" /\ call[c].seen.state = S(c)
         /\ \A a \in Apps : child[a] = p => path[a] # S(c)]_vars

\* The file with the auth key exists only while an ensure that wrote it is
\* between up and its return, unless the process died there (AuthFileGuard).
AuthFileIsBrief ==
    \A s \in States : auth[s] \in Callers =>
      call[auth[s]].pc \in {"up", "running", "store"} /\ S(auth[s]) = s

\* What ensure itself stores was said by the daemon that is the child as long as
\* the entry is there, and says running (lifecycle is held from ensure_child to
\* cache_status, ensure_child and shutdown clear the entry).  Nothing of the kind
\* holds of what status_for_config stores.
EnsuredIsOfThisChild ==
    /\ \A a \in Apps : cache[a].by = "ensure" =>
          cache[a].running /\ child[a] # NoPid /\ cache[a].at = child[a]
    /\ \A c \in Callers : At(c, "done") /\ call[c].answer.by = "ensure" =>
                             call[c].answer.running

\* What locks, leases, key files and cached statuses say of the daemons, across
\* processes and crashes: one daemon per state, every orphan can be found, no
\* key file without its ensure, no entry of ensure about an earlier daemon.
RuntimeInv ==
    /\ TypeOK
    /\ OneDaemonPerState
    /\ OrphanIsLeased
    /\ AuthFileIsBrief
    /\ EnsuredIsOfThisChild

\* Every command ends: locks are given back on every path and every wait has
\* a deadline, so quitting is never blocked by a daemon that does not answer.
CallsEnd == \A c \in Callers : ~At(c, "idle") ~> At(c, "idle")

============================================================================
