------------------------ MODULE TailscaleRuntimeProofs ------------------------
(***************************************************************************)
(* The managed tailscaled is handled soundly for any number of processes,  *)
(* commands, states and process ids, across crashes and reused ids.        *)
(*                                                                         *)
(* RuntimeInv is not inductive: that no second daemon is started on a      *)
(* state rests on what ensure has established since it took the lifecycle  *)
(* mutex, the mutex of the fields and the lock file of the state, on the   *)
(* lease of a state being about the daemon its last holder started, and    *)
(* that ensure's own cache entry is about the present child on the daemons *)
(* of a running process being its child or in the hands of its commands.   *)
(***************************************************************************)
EXTENDS TailscaleRuntime, TLAPS

\* Where a command stands while it holds the lock file itself, the mutex of
\* the fields, and the lifecycle mutex.
Locked == {"clean", "inspect", "kill", "spawn", "lease"}
Inner == {"lock", "unlease"} \cup Locked
InEnsure == {"child", "lock", "cached", "reach", "auth", "up", "running", "store"} \cup Locked
InLife == {"unlease", "stop"} \cup InEnsure
Started == {"cached", "reach", "auth", "up", "running", "store"}

Calls == [pc : Places, app : Apps \cup {None}, state : States \cup {None}, key : BOOLEAN,
          handle : 0 .. MaxPid, lease : Leases, seen : Processes, answer : Statuses]

\* What a command may rely on between its awaits.
CallFits(c) ==
    /\ call[c].pc \notin {"idle", "done"} =>
          call[c].app \in Apps /\ app[call[c].app] = "up"
    /\ call[c].pc \in {"enter", "query", "answered"} \cup InEnsure => call[c].state \in States
    /\ call[c].pc \in InLife => lifecycle[call[c].app] = c
    /\ call[c].pc \in Inner => held[call[c].app] = c /\ child[call[c].app] = NoPid
    /\ call[c].pc \in Locked => lock[call[c].state] = call[c].app
    /\ call[c].pc \in {"inspect", "kill"} =>
          /\ call[c].lease.kind = "written" /\ call[c].lease.pid \in Pids
          /\ lease[call[c].state] \in {call[c].lease, NoLease}
    /\ call[c].pc = "kill" =>
          call[c].seen.kind = "daemon" /\ call[c].seen.state = call[c].state
    /\ call[c].pc \in {"spawn", "lease"} =>
          Leased(call[c].state) \subseteq lost \cup {call[c].handle}
    /\ call[c].pc = "lease" =>
          /\ call[c].handle \in Pids
          /\ proc[call[c].handle] \in {Free, Daemon(call[c].state, call[c].app)}
    /\ call[c].handle # NoPid => call[c].pc \in {"lease", "unlease", "stop"}
    /\ call[c].pc \in Started => child[call[c].app] # NoPid
    /\ call[c].pc = "store" =>
          /\ call[c].answer.running /\ call[c].answer.at = child[call[c].app]
    /\ call[c].pc = "answered" => call[c].answer.by = "status"
    /\ call[c].pc = "done" /\ call[c].answer.by = "ensure" => call[c].answer.running

\* A process with a child holds its state, whose lease is about this child or
\* was removed by the shutdown of the holder before; what ensure has cached is
\* about this child.
AppFits(a) ==
    /\ child[a] # NoPid =>
          /\ path[a] \in States /\ lock[path[a]] = a
          /\ lease[path[a]] \in {Written(child[a], a), NoLease}
    /\ cache[a].by = "ensure" =>
          cache[a].running /\ child[a] # NoPid /\ cache[a].at = child[a]

\* A daemon of a process is its child or in the hands of its commands.
Owned(p, a) == child[a] = p \/ \E c \in Callers : call[c].handle = p /\ call[c].app = a

\* A daemon is in the hands of a command, leased, or given up, and while its
\* process runs, that process owns it.
DaemonFits(p) ==
    p \in Daemons =>
       /\ proc[p].state \in States /\ proc[p].app \in Apps
       /\ app[proc[p].app] = "ended" \/ Owned(p, proc[p].app)
       /\ \/ p \in lost
          \/ \E c \in Callers : call[c].handle = p
          \/ lease[proc[p].state] = Written(p, proc[p].app)

LeasesFit == \A s \in States : lease[s].kind = "written" => lease[s].pid \in Pids

\* TypeOK without what it says of children, which AppFits says.
Types ==
    /\ app \in [Apps -> {"new", "up", "ended"}]
    /\ lifecycle \in [Apps -> Callers \cup {None}]
    /\ held \in [Apps -> Callers \cup {None}]
    /\ child \in [Apps -> 0 .. MaxPid]
    /\ path \in [Apps -> States \cup {None}]
    /\ cache \in [Apps -> Statuses]
    /\ lock \in [States -> Apps \cup {None}]
    /\ lease \in [States -> Leases]
    /\ auth \in [States -> Callers \cup {None, "left"}]
    /\ loggedIn \in [States -> BOOLEAN]
    /\ proc \in [Pids -> Processes]
    /\ lost \subseteq Daemons
    /\ call \in [Callers -> Calls]
    /\ calls \in 0 .. MaxCalls

IInv ==
    /\ Types
    /\ \A c \in Callers : CallFits(c)
    /\ \A a \in Apps : AppFits(a)
    /\ \A p \in Pids : DaemonFits(p)
    /\ LeasesFit
    /\ AuthFileIsBrief

-----------------------------------------------------------------------------
(* Steps of a command *)

\* The command of c goes on, the others stay.
Moved(c) ==
    /\ call' \in [Callers -> Calls]
    /\ \A d \in Callers : d # c => call'[d] = call[d]

\* ... at pc, with the same process, state and handle.
MovedTo(c, pc) ==
    /\ Moved(c)
    /\ call'[c].pc = pc /\ call'[c].app = call[c].app /\ call'[c].state = call[c].state
    /\ call'[c].handle = call[c].handle

\* Constants and constant records have their types and are told apart.
LEMMA Basics ==
    /\ None \notin Apps /\ None \notin Callers /\ None \notin States /\ "left" \notin Callers
    /\ NoPid \notin Pids /\ 0 .. MaxPid = Pids \cup {NoPid} /\ MaxCalls \in Nat /\ MaxPid \in Nat
    /\ NoLease \in Leases /\ Torn \in Leases /\ NoLease.kind = "none" /\ Torn.kind = "torn"
    /\ Free \in Processes /\ Other \in Processes /\ Free.kind = "free" /\ Other.kind = "other"
    /\ NoStatus \in Statuses /\ NoStatus.by = "none" /\ NoStatus.running = FALSE
BY RuntimeAssumption DEF NoPid, Pids, NoLease, Torn, Leases, Free, Other, Processes, NoStatus,
   Statuses

\* A command that is not there.
LEMMA IdleFits ==
    /\ Idle \in Calls /\ Idle.pc = "idle" /\ Idle.app = None /\ Idle.state = None
    /\ Idle.handle = NoPid /\ Idle.answer = NoStatus /\ Idle.lease = NoLease
BY Basics DEF Idle, Calls, Places

\* What leases and daemons are made of.
LEMMA WrittenFits ==
    ASSUME NEW p \in Pids, NEW a \in Apps
    PROVE  Written(p, a) \in Leases /\ Written(p, a).kind = "written" /\ Written(p, a).pid = p
BY Basics DEF Written, Leases

LEMMA DaemonIsTyped ==
    ASSUME NEW s \in States, NEW a \in Apps
    PROVE  /\ Daemon(s, a) \in Processes /\ Daemon(s, a).kind = "daemon"
           /\ Daemon(s, a).state = s /\ Daemon(s, a).app = a
BY DEF Daemon, Processes

\* An answer to ensure or to status_for_config, and the daemon that gave it.
LEMMA AnswerFits ==
    ASSUME Types, NEW c \in Callers, call[c].state \in States, call[c].app \in Apps,
           NEW by \in {"ensure", "status"}, NEW status \in Answers(c, by)
    PROVE  /\ status \in Statuses /\ status.by = by
           /\ status.at \in Daemons /\ proc[status.at] = Daemon(call[c].state, call[c].app)
<1>3. PICK p \in Listening(call[c].state, call[c].app), r \in {FALSE, loggedIn[call[c].state]} :
         status = CachedStatus(call[c].state, r, by, p)
  BY DEF Answers, A, S
<1>2. r \in BOOLEAN /\ p \in Daemons /\ p \in Pids
      /\ proc[p] = Daemon(call[c].state, call[c].app)
  BY <1>3 DEF Types, Listening, Daemons
<1> QED BY <1>2, <1>3, Basics DEF CachedStatus, Statuses

LEMMA GotoMoves ==
    ASSUME Types, NEW c \in Callers, NEW pc \in Places, Goto(c, pc)
    PROVE  /\ MovedTo(c, pc)
           /\ call'[c].lease = call[c].lease /\ call'[c].seen = call[c].seen
           /\ call'[c].answer = call[c].answer
<1>1. call \in [Callers -> Calls] /\ call' = [call EXCEPT ![c].pc = pc]
  BY DEF Types, Goto
<1> QED BY <1>1 DEF MovedTo, Moved, Calls

\* An error ends the command.
LEMMA FailsMoves ==
    ASSUME Types, NEW c \in Callers, Fails(c)
    PROVE  Moved(c) /\ call'[c] = Idle
<1>1. call \in [Callers -> Calls] /\ call' = [call EXCEPT ![c] = Idle]
  BY DEF Types, Fails
<1> QED BY <1>1, IdleFits DEF Moved

\* ensure returns a status.
LEMMA ReturnMoves ==
    ASSUME Types, NEW c \in Callers, NEW status \in Statuses, Return(c, status)
    PROVE  /\ Moved(c)
           /\ call'[c].pc = "done" /\ call'[c].answer = status /\ call'[c].handle = NoPid
<1> DEFINE new == [Idle EXCEPT !.pc = "done", !.answer = status]
<1>1. call \in [Callers -> Calls] /\ call' = [call EXCEPT ![c] = new]
  BY DEF Types, Return
<1>2. new \in Calls /\ new.pc = "done" /\ new.answer = status /\ new.handle = NoPid
  BY Basics, IdleFits DEF Idle, Calls, Places
<1> HIDE DEF new
<1> QED BY <1>1, <1>2 DEF Moved

\* A command enters.
LEMMA StartMoves ==
    ASSUME Types, NEW c \in Callers, NEW a \in Apps, NEW s \in States \cup {None}, NEW k \in BOOLEAN,
           NEW pc \in Places, StartCall(c, a, s, k, pc)
    PROVE  /\ Moved(c)
           /\ call'[c].pc = pc /\ call'[c].app = a /\ call'[c].state = s
           /\ call'[c].handle = NoPid
<1> DEFINE new == [Idle EXCEPT !.pc = pc, !.app = a, !.state = s, !.key = k]
<1>1. call \in [Callers -> Calls] /\ call' = [call EXCEPT ![c] = new]
  BY DEF Types, StartCall
<1>2. new \in Calls /\ new.pc = pc /\ new.app = a /\ new.state = s /\ new.handle = NoPid
  BY Basics, IdleFits DEF Idle, Calls
<1> HIDE DEF new
<1> QED BY <1>1, <1>2 DEF Moved

\* A command goes on with an answer, with the lease it read, with what it saw.
LEMMA AnswerMoves ==
    ASSUME Types, NEW c \in Callers, NEW pc \in Places, NEW status \in Statuses,
           call' = [call EXCEPT ![c].pc = pc, ![c].answer = status]
    PROVE  MovedTo(c, pc) /\ call'[c].answer = status
<1> DEFINE new == [call[c] EXCEPT !.pc = pc, !.answer = status]
<1>1. call[c] \in Calls /\ call \in [Callers -> Calls]
  BY DEF Types
<1>2. call' = [call EXCEPT ![c] = new]
  BY <1>1
<1>3. /\ new \in Calls /\ new.pc = pc /\ new.answer = status /\ new.app = call[c].app
      /\ new.state = call[c].state /\ new.handle = call[c].handle
  BY <1>1 DEF Calls
<1> HIDE DEF new
<1> QED BY <1>1, <1>2, <1>3 DEF MovedTo, Moved

LEMMA LeaseMoves ==
    ASSUME Types, NEW c \in Callers, NEW pc \in Places, NEW l \in Leases,
           call' = [call EXCEPT ![c].pc = pc, ![c].lease = l]
    PROVE  MovedTo(c, pc) /\ call'[c].lease = l
<1> DEFINE new == [call[c] EXCEPT !.pc = pc, !.lease = l]
<1>1. call[c] \in Calls /\ call \in [Callers -> Calls]
  BY DEF Types
<1>2. call' = [call EXCEPT ![c] = new]
  BY <1>1
<1>3. /\ new \in Calls /\ new.pc = pc /\ new.lease = l /\ new.app = call[c].app
      /\ new.state = call[c].state /\ new.handle = call[c].handle
  BY <1>1 DEF Calls
<1> HIDE DEF new
<1> QED BY <1>1, <1>2, <1>3 DEF MovedTo, Moved

LEMMA SeenMoves ==
    ASSUME Types, NEW c \in Callers, NEW pc \in Places, NEW s \in Processes,
           call' = [call EXCEPT ![c].pc = pc, ![c].seen = s]
    PROVE  MovedTo(c, pc) /\ call'[c].seen = s /\ call'[c].lease = call[c].lease
<1> DEFINE new == [call[c] EXCEPT !.pc = pc, !.seen = s]
<1>1. call[c] \in Calls /\ call \in [Callers -> Calls]
  BY DEF Types
<1>2. call' = [call EXCEPT ![c] = new]
  BY <1>1
<1>3. /\ new \in Calls /\ new.pc = pc /\ new.seen = s /\ new.lease = call[c].lease
      /\ new.app = call[c].app /\ new.state = call[c].state /\ new.handle = call[c].handle
  BY <1>1 DEF Calls
<1> HIDE DEF new
<1> QED BY <1>1, <1>2, <1>3 DEF MovedTo, Moved

\* The stale lease is gone.
LEMMA ForgetMoves ==
    ASSUME Types, NEW c \in Callers, Forget(c)
    PROVE  MovedTo(c, "spawn")
<1>1. call \in [Callers -> Calls]
      /\ call' = [call EXCEPT ![c].pc = "spawn", ![c].lease = NoLease, ![c].seen = Free]
  BY DEF Types, Forget
<1>2. NoLease \in Leases /\ Free \in Processes /\ "spawn" \in Places
  BY Basics DEF Places
<1> DEFINE old == call[c]
           new == [old EXCEPT !.pc = "spawn", !.lease = NoLease, !.seen = Free]
<1>3. old \in Calls /\ call' = [call EXCEPT ![c] = new]
  BY <1>1
<1> HIDE DEF old
<1>4. /\ new \in Calls /\ new.pc = "spawn" /\ new.app = old.app
      /\ new.state = old.state /\ new.handle = old.handle
  BY <1>2, <1>3 DEF Calls
<1> HIDE DEF new
<1> QED BY <1>1, <1>3, <1>4 DEF MovedTo, Moved, old

\* A command takes a process handle.
LEMMA HandleMoves ==
    ASSUME Types, NEW c \in Callers, NEW pc \in Places, NEW p \in 0 .. MaxPid,
           call' = [call EXCEPT ![c].pc = pc, ![c].handle = p]
    PROVE  /\ Moved(c) /\ call'[c].pc = pc /\ call'[c].app = call[c].app
           /\ call'[c].state = call[c].state /\ call'[c].handle = p
<1> DEFINE old == call[c]
           new == [old EXCEPT !.pc = pc, !.handle = p]
<1>1. call \in [Callers -> Calls]
  BY DEF Types
<1>2. old \in Calls /\ call' = [call EXCEPT ![c] = new]
  BY <1>1
<1> HIDE DEF old
<1>3. /\ new \in Calls /\ new.pc = pc /\ new.app = old.app
      /\ new.state = old.state /\ new.handle = p
  BY <1>2 DEF Calls
<1> HIDE DEF new
<1> QED BY <1>1, <1>2, <1>3 DEF Moved, old

\* A command gives its process handle away.
LEMMA HandleLeaves ==
    ASSUME Types, NEW c \in Callers, NEW pc \in Places,
           call' = [call EXCEPT ![c].pc = pc, ![c].handle = NoPid]
    PROVE  /\ Moved(c) /\ call'[c].pc = pc /\ call'[c].app = call[c].app
           /\ call'[c].state = call[c].state /\ call'[c].handle = NoPid
<1> DEFINE old == call[c]
           new == [old EXCEPT !.pc = pc, !.handle = NoPid]
<1>1. call \in [Callers -> Calls]
  BY DEF Types
<1>2. old \in Calls /\ call' = [call EXCEPT ![c] = new]
  BY <1>1
<1> HIDE DEF old
<1>3. /\ new \in Calls /\ new.pc = pc /\ new.app = old.app
      /\ new.state = old.state /\ new.handle = NoPid
  BY <1>2, Basics DEF Calls
<1> HIDE DEF new
<1> QED BY <1>1, <1>2, <1>3 DEF Moved, old

\* What a step of c may do to what the other commands rely on.
Gentle(c) ==
    /\ Moved(c) /\ app' = app
    /\ \A a \in Apps : lifecycle'[a] = lifecycle[a] \/ lifecycle[a] \in {c, None}
    /\ \A a \in Apps : held'[a] = held[a] \/ held[a] \in {c, None}
    /\ \A a \in Apps : child'[a] = child[a] \/ lifecycle[a] \in {c, None}
    /\ \A s \in States : lock'[s] = lock[s] \/ lock[s] = None \/ lifecycle[lock[s]] \in {c, None}
    /\ \A s \in States : \/ lease'[s] = lease[s] \/ lease'[s] = NoLease
                         \/ lock[s] \in Apps /\ lifecycle[lock[s]] = c
    /\ \A p \in Pids : \/ proc'[p] = proc[p] \/ proc'[p] = Free
                       \/ /\ Available(p)
                          /\ \A d \in Callers : d # c /\ call[d].pc \in Locked =>
                                proc'[p].state # call[d].state
    /\ \A p \in lost : p \in lost' \/ proc'[p] = Free

\* Other commands keep what they rely on.
LEMMA GentleFits ==
    ASSUME Types, NEW c \in Callers, Gentle(c), NEW d \in Callers, d # c, CallFits(d)
    PROVE  CallFits(d)'
<1>1. call'[d] = call[d]
  BY DEF Gentle, Moved
<1>2. ASSUME call[d].pc \in InLife
      PROVE  call[d].app \in Apps /\ lifecycle[call[d].app] = d /\ lifecycle'[call[d].app] = d
  BY <1>2, Basics DEF CallFits, InLife, InEnsure, Locked, Gentle
<1>3. ASSUME call[d].pc \in Inner
      PROVE  held'[call[d].app] = d /\ child'[call[d].app] = NoPid
  BY <1>2, <1>3, Basics DEF CallFits, Inner, InLife, InEnsure, Locked, Gentle
<1>4. ASSUME call[d].pc \in Locked
      PROVE  /\ lock'[call[d].state] = call[d].app
             /\ lease'[call[d].state] \in {lease[call[d].state], NoLease}
  <2>1. /\ call[d].state \in States /\ lock[call[d].state] = call[d].app
        /\ call[d].app \in Apps /\ lifecycle[call[d].app] = d
    BY <1>2, <1>4 DEF CallFits, InLife, InEnsure, Locked
  <2> QED BY <2>1, Basics DEF Gentle
<1>5. ASSUME call[d].pc = "lease"
      PROVE  proc'[call[d].handle] \in {proc[call[d].handle], Free}
  BY <1>5 DEF CallFits, Gentle, Available
<1>6. ASSUME call[d].pc \in {"spawn", "lease"}
      PROVE  Leased(call[d].state)' \subseteq lost' \cup {call[d].handle}
  <2>1. /\ call[d].pc \in Locked /\ lease'[call[d].state] \in {lease[call[d].state], NoLease}
        /\ Leased(call[d].state) \subseteq lost \cup {call[d].handle}
    BY <1>4, <1>6 DEF CallFits, Locked
  <2>2. SUFFICES ASSUME NEW p \in Pids, proc'[p].kind = "daemon", proc'[p].state = call[d].state,
                        lease'[call[d].state] = Written(p, proc'[p].app)
                 PROVE  p \in lost' \cup {call[d].handle}
    BY <1>1 DEF Leased, Daemons
  <2>3. lease'[call[d].state] = lease[call[d].state]
    BY <2>1, <2>2, Basics DEF Written
  <2>4. proc'[p] = proc[p] /\ proc'[p] # Free
    BY <2>1, <2>2, Basics DEF Gentle
  <2>5. p \in Leased(call[d].state)
    BY <2>2, <2>3, <2>4 DEF Leased, Daemons
  <2> QED BY <2>1, <2>4, <2>5 DEF Gentle
<1>7. ASSUME call[d].pc \in InLife
      PROVE  child'[call[d].app] = child[call[d].app]
  BY <1>2, <1>7, Basics DEF Gentle
<1>8. /\ Started \subseteq InLife /\ Locked \subseteq InLife /\ app' = app
      /\ {"spawn", "lease", "inspect", "kill"} \subseteq Locked /\ "store" \in Started
  BY DEF Started, InLife, InEnsure, Locked, Gentle
<1>9. /\ call[d].pc \in InLife => lifecycle'[call[d].app] = d
      /\ call[d].pc \in Inner => held'[call[d].app] = d /\ child'[call[d].app] = NoPid
      /\ call[d].pc \in Locked => lock'[call[d].state] = call[d].app
      /\ call[d].pc \in {"inspect", "kill"} => lease'[call[d].state] \in {call[d].lease, NoLease}
      /\ call[d].pc = "lease" => proc'[call[d].handle] \in {Free, Daemon(call[d].state, call[d].app)}
      /\ call[d].pc \in Started => child'[call[d].app] = child[call[d].app]
  BY <1>2, <1>3, <1>4, <1>5, <1>7, <1>8 DEF CallFits
<1> HIDE DEF Started, InLife, Inner, Locked, InEnsure
<1> QED BY <1>1, <1>6, <1>8, <1>9 DEF CallFits

-----------------------------------------------------------------------------
(* Steps that only move their command *)

\* Key files belong to the commands that wrote them.
LEMMA AuthStays ==
    ASSUME Types, AuthFileIsBrief, NEW c \in Callers, Moved(c),
           \A s \in States : auth'[s] \in Callers \ {c} => auth'[s] = auth[s],
           \A s \in States : auth'[s] = c =>
              call'[c].pc \in {"up", "running", "store"} /\ call'[c].state = s
    PROVE  AuthFileIsBrief'
<1>1. ASSUME NEW s \in States, auth'[s] \in Callers
      PROVE  call'[auth'[s]].pc \in {"up", "running", "store"} /\ call'[auth'[s]].state = s
  <2>1. CASE auth'[s] = c
    BY <2>1
  <2>2. CASE auth'[s] # c
    <3>1. auth'[s] = auth[s] /\ call'[auth[s]] = call[auth[s]]
      BY <1>1, <2>2 DEF Moved
    <3> QED BY <1>1, <3>1 DEF AuthFileIsBrief, S
  <2> QED BY <2>1, <2>2
<1> QED BY <1>1 DEF AuthFileIsBrief, S

\* A step that leaves mutexes, fields, locks, leases and processes alone.
LEMMA QuietKeeps ==
    ASSUME IInv, NEW c \in Callers, Moved(c), Types', CallFits(c)',
           UNCHANGED <<app, lifecycle, held, child, path, cache, lock, lease, proc>>,
           lost \subseteq lost',
           call'[c].handle = call[c].handle, call[c].handle # NoPid => call'[c].app = call[c].app,
           \A s \in States : auth'[s] \in Callers \ {c} => auth'[s] = auth[s],
           \A s \in States : auth'[s] = c =>
              call'[c].pc \in {"up", "running", "store"} /\ call'[c].state = s
    PROVE  IInv'
<1>1. Gentle(c)
  BY DEF Gentle
<1>2. ASSUME NEW d \in Callers PROVE CallFits(d)'
  BY <1>1, <1>2, GentleFits DEF IInv
<1>3. ASSUME NEW a \in Apps PROVE AppFits(a)'
  BY <1>3 DEF IInv, AppFits
<1>4. ASSUME NEW p \in Pids PROVE DaemonFits(p)'
  <2>1. \A d \in Callers : call[d].handle = p => call'[d].handle = p /\ call'[d].app = call[d].app
    BY Basics DEF Moved
  <2> QED BY <2>1 DEF IInv, DaemonFits, Daemons, Owned
<1>5. LeasesFit' /\ AuthFileIsBrief'
  BY AuthStays DEF IInv, LeasesFit
<1> QED BY <1>2, <1>3, <1>4, <1>5 DEF IInv

\* A command starts.
LEMMA StartKeeps ==
    ASSUME IInv, NEW c \in Callers, NEW a \in Apps, NEW s \in States \cup {None}, NEW k \in BOOLEAN,
           NEW pc \in {"enter", "query", "quit"}, pc # "quit" => s \in States,
           StartCall(c, a, s, k, pc)
    PROVE  IInv'
<1>1. /\ Moved(c) /\ call'[c].pc = pc /\ call'[c].app = a /\ call'[c].state = s
      /\ call'[c].handle = NoPid
  BY StartMoves DEF IInv, Places
<1>2. /\ UNCHANGED <<app, lifecycle, held, child, path, cache, lock, lease, auth, loggedIn, proc, lost>>
      /\ calls' = calls + 1 /\ calls < MaxCalls /\ call[c].pc = "idle" /\ app[a] = "up"
  BY DEF StartCall, At, mutexVars, innerVars, fileVars
<1>3. calls' \in 0 .. MaxCalls
  BY <1>2, Basics DEF IInv, Types
<1>4. Types'
  BY <1>1, <1>2, <1>3 DEF IInv, Types, Moved, Daemons
<1>5. CallFits(c)'
  BY <1>1, <1>2 DEF CallFits, InLife, InEnsure, Inner, Locked, Started
<1>6. call[c].handle = NoPid /\ \A t \in States : auth[t] # c
  BY <1>2 DEF IInv, CallFits, AuthFileIsBrief
<1> QED BY <1>1, <1>2, <1>4, <1>5, <1>6, QuietKeeps

\* The ways a command starts.
LEMMA StartsKeep ==
    ASSUME IInv, NEW c \in Callers, prepare_host_network(c) \/ status_for_config(c) \/ Quit(c)
    PROVE  IInv'
<1>1. CASE prepare_host_network(c)
  <2>1. PICK h \in Hosts : StartCall(c, h.app, h.state, h.key, "enter")
    BY <1>1 DEF prepare_host_network
  <2>2. h.app \in Apps /\ h.state \in States /\ h.key \in BOOLEAN
    BY RuntimeAssumption
  <2> QED BY <2>1, <2>2, StartKeeps
<1>2. CASE status_for_config(c)
  <2>1. PICK a \in Apps : path[a] # None /\ StartCall(c, a, path[a], FALSE, "query")
    BY <1>2 DEF status_for_config
  <2>2. path[a] \in States
    BY <2>1 DEF IInv, Types
  <2> QED BY <2>1, <2>2, StartKeeps
<1>3. CASE Quit(c)
  <2>1. PICK a \in Apps : StartCall(c, a, None, FALSE, "quit")
    BY <1>3 DEF Quit
  <2> QED BY <2>1, StartKeeps
<1> QED BY <1>1, <1>2, <1>3

\* ensure goes on from one await to the next.
LEMMA OnwardKeeps ==
    ASSUME IInv, NEW c \in Callers, NEW pc \in Places, MovedTo(c, pc),
           UNCHANGED <<app, lifecycle, held, child, path, cache, lock, lease, proc, calls>>,
           lost \subseteq lost', lost' \subseteq Daemons,
           call[c].pc \in InEnsure, loggedIn' \in [States -> BOOLEAN],
           \/ /\ pc \in {"cached", "reach", "auth"} /\ child[call[c].app] # NoPid
              /\ call[c].pc \in {"child", "cached", "reach"} /\ auth' = auth
           \/ /\ pc = "store" /\ call'[c].answer.running
              /\ call'[c].answer.at = child[call[c].app]
              /\ call[c].pc \in {"reach", "running"} /\ auth' = auth
           \/ /\ pc = "spawn" /\ call[c].pc = "clean" /\ auth' = auth
              /\ Leased(call[c].state) \subseteq lost'
           \/ /\ pc = "up" /\ call[c].pc = "auth" /\ auth' = [auth EXCEPT ![call[c].state] = c]
           \/ /\ pc = "running" /\ call[c].pc = "up" /\ auth' = auth
           \/ /\ pc = "inspect" /\ call[c].pc = "clean" /\ auth' = auth
              /\ call'[c].lease = lease[call[c].state]
              /\ lease[call[c].state].kind = "written"
           \/ /\ pc = "kill" /\ call[c].pc = "inspect" /\ auth' = auth
              /\ call'[c].lease = call[c].lease
              /\ call'[c].seen.kind = "daemon" /\ call'[c].seen.state = call[c].state
    PROVE  IInv'
<1>1. /\ Moved(c) /\ call'[c].pc = pc /\ call'[c].app = call[c].app
      /\ call'[c].state = call[c].state /\ call'[c].handle = call[c].handle
  BY DEF MovedTo
<1>2. CallFits(c) /\ call[c].state \in States
  BY DEF IInv, CallFits
<1>3. auth' \in [States -> Callers \cup {None, "left"}]
  BY <1>2 DEF IInv, Types
<1>4. Types'
  BY <1>1, <1>3 DEF IInv, Types, Moved, Daemons
<1>5. CallFits(c)'
  <2>1. call[c].pc \in Locked /\ lease[call[c].state].kind = "written" =>
           lease[call[c].state].pid \in Pids
    BY <1>2 DEF IInv, LeasesFit
  <2>2. Leased(call[c].state)' = Leased(call[c].state)
    BY <1>1 DEF Leased, Daemons
  <2> QED BY <1>1, <1>2, <2>1, <2>2 DEF CallFits, InLife, InEnsure, Inner, Locked, Started
<1>6. /\ \A s \in States : auth'[s] \in Callers \ {c} => auth'[s] = auth[s]
      /\ \A s \in States : auth'[s] = c =>
            call'[c].pc \in {"up", "running", "store"} /\ call'[c].state = s
  <2>1. CASE pc = "up" /\ auth' = [auth EXCEPT ![call[c].state] = c] /\ call[c].pc = "auth"
    BY <1>1, <1>2, <2>1 DEF IInv, Types, AuthFileIsBrief
  <2>2. CASE auth' = auth /\ ~(pc = "up")
    <3>1. \A s \in States : auth[s] = c => call[c].pc \in {"up", "running", "store"} /\ call[c].state = s
      BY DEF IInv, AuthFileIsBrief, S
    <3> QED BY <1>1, <2>2, <3>1
  <2> QED BY <2>1, <2>2
<1> QED BY <1>1, <1>4, <1>5, <1>6, QuietKeeps

\* Whoever answers ensure is the child: the other daemons of this process would
\* be in the hands of a command that holds lifecycle.
LEMMA ChildAnswers ==
    ASSUME IInv, NEW c \in Callers, call[c].pc \in {"reach", "running"},
           NEW status \in Answers(c, "ensure")
    PROVE  status \in Statuses /\ status.at = child[call[c].app]
<1>1. /\ Types /\ call[c].app \in Apps /\ call[c].state \in States /\ app[call[c].app] = "up"
      /\ lifecycle[call[c].app] = c /\ call[c].handle = NoPid
  BY DEF IInv, CallFits, InLife, InEnsure
<1>2. /\ status \in Statuses /\ status.at \in Daemons
      /\ proc[status.at] = Daemon(call[c].state, call[c].app)
  BY <1>1, AnswerFits
<1>3. Owned(status.at, call[c].app) /\ status.at # NoPid
  <2>1. status.at \in Pids /\ DaemonFits(status.at)
    BY <1>2 DEF Daemons, IInv
  <2>2. proc[status.at].app = call[c].app
    BY <1>1, <1>2, DaemonIsTyped
  <2> QED BY <1>1, <1>2, <2>1, <2>2, Basics DEF DaemonFits
<1>4. ASSUME NEW d \in Callers, call[d].handle = status.at, call[d].app = call[c].app
      PROVE  FALSE
  BY <1>1, <1>3, <1>4 DEF IInv, CallFits, InLife, InEnsure, Locked
<1> QED BY <1>2, <1>3, <1>4 DEF Owned

\* The steps of ensure that go on.
LEMMA OnwardSteps ==
    ASSUME IInv, NEW c \in Callers,
           \/ LeaseUnreadable(c)
           \/ ReadLease(c) \/ write_auth_file(c) \/ up_with_auth_key_file(c) \/ wait_until_running(c)
           \/ ChildIsLive(c) /\ path[A(c)] = S(c)
           \/ cached_status(c) /\ cache[A(c)].state # S(c)
           \/ wait_until_reachable(c) /\ call'[c].pc \in {"store", "auth"}
           \/ Inspect(c) /\ Matches(call[c].lease, S(c))
    PROVE  IInv'
<1> USE DEF At, A, S, mutexVars, innerVars, fileVars
<1>0. /\ Types /\ CallFits(c) /\ call \in [Callers -> Calls] /\ loggedIn \in [States -> BOOLEAN]
      /\ lost \subseteq Daemons
  BY DEF IInv, Types
<1>9. CASE LeaseUnreadable(c)
  <2>1. MovedTo(c, "spawn")
    BY <1>0, <1>9, GotoMoves DEF LeaseUnreadable, Places
  <2>2. lost' = lost \cup Leased(call[c].state) /\ Leased(call[c].state) \subseteq Daemons
    BY <1>9 DEF LeaseUnreadable, Leased
  <2> QED BY <1>0, <1>9, <2>1, <2>2, OnwardKeeps DEF LeaseUnreadable, InEnsure, Locked, Places
<1>1. CASE ReadLease(c)
  <2>1. lease[call[c].state] \in Leases /\ call[c].state \in States
    BY <1>0, <1>1 DEF ReadLease, CallFits, InEnsure, Locked, Types
  <2>2. call' = [call EXCEPT ![c].pc = "inspect", ![c].lease = lease[call[c].state]]
        /\ "inspect" \in Places
    BY <1>1 DEF ReadLease, Places
  <2>3. MovedTo(c, "inspect") /\ call'[c].lease = lease[call[c].state]
    BY <1>0, <2>1, <2>2, LeaseMoves
  <2> QED BY <1>0, <1>1, <2>3, OnwardKeeps DEF ReadLease, InEnsure, Locked, Places
<1>2. CASE write_auth_file(c)
  <2>1. MovedTo(c, "up")
    BY <1>0, <1>2, GotoMoves DEF write_auth_file, Places
  <2> QED BY <1>0, <1>2, <2>1, OnwardKeeps DEF write_auth_file, InEnsure, Places
<1>3. CASE up_with_auth_key_file(c)
  <2>1. MovedTo(c, "running")
    BY <1>0, <1>3, GotoMoves DEF up_with_auth_key_file, Places
  <2>2. loggedIn' \in [States -> BOOLEAN]
    BY <1>0, <1>3 DEF up_with_auth_key_file
  <2> QED BY <1>0, <1>3, <2>1, <2>2, OnwardKeeps DEF up_with_auth_key_file, InEnsure, Places
<1>4. CASE wait_until_running(c)
  <2>1. PICK status \in Answers(c, "ensure") :
           /\ status.running
           /\ call' = [call EXCEPT ![c].pc = "store", ![c].answer = status]
    BY <1>4 DEF wait_until_running, is_running
  <2>2. status \in Statuses /\ status.at = child[call[c].app] /\ "store" \in Places
    BY <1>4, ChildAnswers DEF wait_until_running, Places
  <2>3. MovedTo(c, "store") /\ call'[c].answer = status
    BY <1>0, <2>1, <2>2, AnswerMoves
  <2> QED BY <1>0, <1>4, <2>1, <2>2, <2>3, OnwardKeeps DEF wait_until_running, InEnsure
<1>5. CASE ChildIsLive(c) /\ path[A(c)] = S(c)
  <2>1. MovedTo(c, "cached")
    BY <1>0, <1>5, GotoMoves DEF ChildIsLive, Places
  <2> QED BY <1>0, <1>5, <2>1, OnwardKeeps DEF ChildIsLive, Alive, InEnsure, Places
<1>6. CASE cached_status(c) /\ cache[A(c)].state # S(c)
  <2>1. MovedTo(c, "reach") /\ child[call[c].app] # NoPid
    BY <1>0, <1>6, GotoMoves DEF cached_status, Places, CallFits, Started
  <2> QED BY <1>0, <1>6, <2>1, OnwardKeeps DEF cached_status, InEnsure, Places
<1>7. CASE wait_until_reachable(c) /\ call'[c].pc \in {"store", "auth"}
  <2>1. ~Fails(c)
    BY <1>0, <1>7, FailsMoves, IdleFits
  <2>2. PICK status \in Answers(c, "ensure") :
           /\ \/ /\ status.running
                 /\ call' = [call EXCEPT ![c].pc = "store", ![c].answer = status]
              \/ Goto(c, "auth")
           /\ UNCHANGED <<mutexVars, lock, auth>>
    BY <1>7, <2>1 DEF wait_until_reachable, is_running
  <2>3. status \in Statuses /\ status.at = child[call[c].app] /\ "store" \in Places
        /\ child[call[c].app] # NoPid /\ call[c].pc = "reach"
    BY <1>0, <1>7, ChildAnswers DEF wait_until_reachable, Places, CallFits, Started
  <2>4. CASE Goto(c, "auth")
    <3>1. MovedTo(c, "auth")
      BY <1>0, <2>4, GotoMoves DEF Places
    <3> QED BY <1>0, <1>7, <2>2, <2>3, <3>1, OnwardKeeps DEF wait_until_reachable, InEnsure, Places
  <2>5. CASE status.running /\ call' = [call EXCEPT ![c].pc = "store", ![c].answer = status]
    <3>1. MovedTo(c, "store") /\ call'[c].answer = status
      BY <1>0, <2>3, <2>5, AnswerMoves
    <3> QED BY <1>0, <1>7, <2>2, <2>3, <2>5, <3>1, OnwardKeeps DEF wait_until_reachable, InEnsure
  <2> QED BY <2>2, <2>4, <2>5
<1>8. CASE Inspect(c) /\ Matches(call[c].lease, S(c))
  <2>1. /\ call[c].pc = "inspect" /\ call[c].state \in States /\ call[c].lease.pid \in Pids
        /\ call' = [call EXCEPT ![c].pc = "kill", ![c].seen = proc[call[c].lease.pid]]
        /\ proc[call[c].lease.pid] = Daemon(call[c].state, call[c].lease.app)
    BY <1>0, <1>8 DEF Inspect, Matches, CallFits, InEnsure, Locked
  <2>2. /\ proc[call[c].lease.pid] \in Processes /\ proc[call[c].lease.pid].kind = "daemon"
        /\ proc[call[c].lease.pid].state = call[c].state
    BY <1>0, <2>1 DEF Types, Daemon
  <2>3. /\ MovedTo(c, "kill") /\ call'[c].lease = call[c].lease
        /\ call'[c].seen = proc[call[c].lease.pid]
    <3>1. /\ call' = [call EXCEPT ![c].pc = "kill", ![c].seen = proc[call[c].lease.pid]]
          /\ proc[call[c].lease.pid] \in Processes /\ "kill" \in Places
      BY <2>1, <2>2 DEF Places
    <3> QED BY <1>0, <3>1, SeenMoves
  <2> QED BY <1>0, <1>8, <2>1, <2>2, <2>3, OnwardKeeps DEF Inspect, InEnsure, Locked, Places
<1> QED BY <1>1, <1>2, <1>3, <1>4, <1>5, <1>6, <1>7, <1>8, <1>9

\* status_for_config asks, or the answer of a command is taken.
LEMMA QuietSteps ==
    ASSUME IInv, NEW c \in Callers, End(c) \/ Query(c)
    PROVE  IInv'
<1> USE DEF At, A, S, mutexVars, innerVars, fileVars
<1>0. Types /\ CallFits(c) /\ call \in [Callers -> Calls] /\ loggedIn \in [States -> BOOLEAN]
  BY DEF IInv, Types
<1>1. call[c].pc \in {"done", "query"} /\ UNCHANGED <<app, lifecycle, held, child, path, cache, lock, lease, auth, loggedIn, proc, lost, calls>>
  BY DEF End, Query
<1>2. call[c].handle = NoPid /\ \A s \in States : auth[s] # c
  BY <1>0, <1>1 DEF CallFits, IInv, AuthFileIsBrief
<1>3. Moved(c) /\ call'[c].handle = NoPid /\ CallFits(c)'
  <2>1. CASE call' = [call EXCEPT ![c] = Idle]
    <3>1. Moved(c) /\ call'[c] = Idle
      BY <1>0, <2>1, IdleFits DEF Moved
    <3> QED BY <3>1, IdleFits DEF CallFits, Inner, InLife, InEnsure, Locked, Started
  <2>2. CASE \E status \in Answers(c, "status") : /\ call[c].pc = "query"
               /\ call' = [call EXCEPT ![c].pc = "answered", ![c].answer = status]
    <3>0. call[c].app \in Apps /\ call[c].state \in States /\ app[call[c].app] = "up"
      BY <1>0, <2>2 DEF CallFits
    <3>2. PICK status \in Answers(c, "status") :
             call' = [call EXCEPT ![c].pc = "answered", ![c].answer = status]
      BY <2>2
    <3>3. status \in Statuses /\ status.by = "status" /\ "answered" \in Places
      BY <1>0, <3>0, <3>2, AnswerFits DEF Places
    <3>1. MovedTo(c, "answered") /\ call'[c].answer = status
      BY <1>0, <3>2, <3>3, AnswerMoves
    <3> QED BY <1>1, <1>2, <3>0, <3>1, <3>3 DEF MovedTo, CallFits, Inner, InLife, InEnsure, Locked,
                                               Started
  <2> QED BY <1>1, <2>1, <2>2 DEF End, Query
<1>4. Types'
  BY <1>0, <1>1, <1>3 DEF Types, Moved, Daemons
<1> QED BY <1>1, <1>2, <1>3, <1>4, QuietKeeps

-----------------------------------------------------------------------------
(* Steps that give something back *)

\* ensure returns: the guards are dropped and, if the daemon could not be
\* leased, so is the daemon.
LEMMA LeaveKeeps ==
    ASSUME IInv, NEW c \in Callers, call[c].pc \in InEnsure, DropLocals(c), Moved(c),
           call'[c].pc \in {"idle", "done"}, call'[c].handle = NoPid,
           call'[c].pc = "done" /\ call'[c].answer.by = "ensure" => call'[c].answer.running,
           UNCHANGED <<app, child, path, calls>>, loggedIn' \in [States -> BOOLEAN],
           cache' \in [Apps -> Statuses],
           \A a \in Apps : \/ cache'[a] = cache[a]
                           \/ /\ cache'[a].at = child[a] /\ cache'[a].running
                              /\ child[a] # NoPid,
           \/ call[c].pc # "lease" /\ UNCHANGED <<lease, proc, lost>>
           \/ /\ call[c].pc = "lease" /\ lease' \in {lease, [lease EXCEPT ![S(c)] = Torn]}
              /\ proc' = [proc EXCEPT ![call[c].handle] = Free]
              /\ lost' = lost \ {call[c].handle}
    PROVE  IInv'
<1>1. /\ Types /\ CallFits(c) /\ call[c].app \in Apps /\ call[c].state \in States
      /\ lifecycle[call[c].app] = c
  BY DEF IInv, CallFits, InLife, InEnsure, Locked
<1>2. call[c].pc \in Locked =>
         lock[call[c].state] = call[c].app /\ child[call[c].app] = NoPid
  BY <1>1 DEF CallFits, Inner
<1>3. call[c].pc = "lease" =>
         /\ call[c].handle \in Pids /\ "lease" \in Locked
         /\ Leased(call[c].state) \subseteq lost \cup {call[c].handle}
  BY <1>1 DEF CallFits, Locked
<1>4. /\ lifecycle' = [lifecycle EXCEPT ![call[c].app] = None]
      /\ held' = [held EXCEPT ![call[c].app] = IF @ = c THEN None ELSE @]
      /\ auth' = [s \in States |-> IF auth[s] = c THEN None ELSE auth[s]]
      /\ \A s \in States : \/ lock'[s] = lock[s]
                           \/ lock'[s] = None /\ s = call[c].state /\ call[c].pc \in Locked
      /\ lock' \in [States -> Apps \cup {None}]
  BY <1>1 DEF DropLocals, HasLocalLock, Locked, A, S, Types
<1>5. /\ \A s \in States : \/ lease'[s] = lease[s]
                           \/ lease'[s] = Torn /\ s = call[c].state /\ call[c].pc = "lease"
      /\ lease' \in [States -> Leases]
  BY <1>1, Basics DEF S, Types
<1>6. /\ \A p \in Pids : proc'[p] = proc[p] \/ (proc'[p] = Free /\ p = call[c].handle)
      /\ proc' \in [Pids -> Processes]
      /\ lost' \subseteq lost
      /\ call[c].handle # NoPid => proc'[call[c].handle] = Free /\ lost' = lost \ {call[c].handle}
      /\ call[c].handle = NoPid => lost' = lost /\ proc' = proc
  <2>1. call[c].handle # NoPid => call[c].pc = "lease"
    BY <1>1 DEF CallFits, InEnsure, Locked
  <2>2. CASE call[c].pc # "lease"
    BY <1>1, <2>1, <2>2 DEF Types
  <2>3. CASE call[c].pc = "lease"
    BY <1>1, <1>3, <2>3, Basics DEF Types
  <2> QED BY <2>2, <2>3
<1>7. Gentle(c)
  BY <1>1, <1>2, <1>3, <1>4, <1>5, <1>6 DEF Gentle, Types
<1>8. Types'
  <2>1. lifecycle' \in [Apps -> Callers \cup {None}] /\ held' \in [Apps -> Callers \cup {None}]
        /\ auth' \in [States -> Callers \cup {None, "left"}] /\ call' \in [Callers -> Calls]
    BY <1>1, <1>4 DEF Types, Moved
  <2>2. lost' \subseteq Daemons'
    BY <1>1, <1>6, Basics DEF Types, Daemons
  <2> QED BY <1>1, <1>4, <1>5, <1>6, <2>1, <2>2 DEF Types
<1>9. ASSUME NEW d \in Callers PROVE CallFits(d)'
  <2>1. CASE d # c
    BY <1>1, <1>7, <2>1, GentleFits DEF IInv
  <2>2. CASE d = c
    BY <2>2 DEF CallFits, Inner, InLife, InEnsure, Locked, Started
  <2> QED BY <2>1, <2>2
<1>10. ASSUME NEW a \in Apps PROVE AppFits(a)'
  <2>1. AppFits(a)
    BY DEF IInv
  <2>2. ASSUME child[a] # NoPid
        PROVE  path[a] \in States /\ lock'[path[a]] = a /\ lease'[path[a]] = lease[path[a]]
    BY <1>2, <1>3, <1>4, <1>5, <2>1, <2>2 DEF AppFits
  <2> QED BY <2>1, <2>2 DEF AppFits
<1>11. ASSUME NEW p \in Pids PROVE DaemonFits(p)'
  <2>1. SUFFICES ASSUME p \in Daemons' PROVE DaemonFits(p)'
    BY DEF DaemonFits
  <2>2. proc'[p] = proc[p] /\ p # call[c].handle /\ p \in Daemons /\ (p \in lost => p \in lost')
    BY <1>6, <2>1, Basics DEF Daemons
  <2>3. DaemonFits(p)
    BY DEF IInv
  <2>4. \A d \in Callers : call[d].handle = p => call'[d] = call[d]
    BY <2>2 DEF Moved
  <2>5. ASSUME lease[proc[p].state] = Written(p, proc[p].app)
        PROVE  p \in lost' \/ lease'[proc[p].state] = lease[proc[p].state]
    <3>1. p \in Leased(proc[p].state) /\ proc[p].state \in States
      BY <2>2, <2>3, <2>5 DEF Leased, DaemonFits
    <3> QED BY <1>3, <1>5, <2>2, <3>1
  <2> QED BY <2>2, <2>3, <2>4, <2>5 DEF DaemonFits, Owned
<1>12. LeasesFit'
  BY <1>5, Basics DEF IInv, LeasesFit
<1>13. AuthFileIsBrief'
  BY <1>1, <1>4, Basics, AuthStays DEF IInv
<1> QED BY <1>8, <1>9, <1>10, <1>11, <1>12, <1>13 DEF IInv

\* ... with an error that leaves the daemons and their leases alone.
LEMMA FailKeeps ==
    ASSUME IInv, NEW c \in Callers, Fails(c), call[c].pc \in InEnsure, call[c].pc # "lease",
           loggedIn' \in [States -> BOOLEAN],
           UNCHANGED <<app, innerVars, lease, proc, lost, calls>>
    PROVE  IInv'
<1>1. Moved(c) /\ call'[c] = Idle /\ DropLocals(c)
  BY FailsMoves DEF IInv, Fails
<1>2. call'[c].pc = "idle" /\ call'[c].handle = NoPid
  BY <1>1, IdleFits
<1>3. UNCHANGED <<child, path, cache>> /\ cache \in [Apps -> Statuses]
  BY DEF innerVars, IInv, Types
<1> QED BY <1>1, <1>2, <1>3, LeaveKeeps

\* The steps of ensure that fail.
LEMMA FailSteps ==
    ASSUME IInv, NEW c \in Callers,
           \/ StateDirectoryFails(c) \/ CleanupFails(c) \/ SpawnFails(c) \/ EnsureFails(c)
           \/ ChildIsLive(c) /\ path[A(c)] # S(c)
           \/ acquire_state_lock(c) /\ lock[S(c)] # None
           \/ wait_until_reachable(c) /\ call'[c].pc \notin {"store", "auth"}
    PROVE  IInv'
<1>0. Types /\ loggedIn \in [States -> BOOLEAN]
  BY DEF IInv, Types
<1>1. CASE wait_until_reachable(c) /\ call'[c].pc \notin {"store", "auth"}
  <2>1. ~Goto(c, "auth")
    BY <1>0, <1>1, GotoMoves DEF MovedTo, Places
  <2>2. ASSUME NEW status \in Answers(c, "ensure"),
               call' = [call EXCEPT ![c].pc = "store", ![c].answer = status]
        PROVE  FALSE
    BY <1>0, <1>1, <2>2 DEF Types
  <2>3. Fails(c)
    BY <1>1, <2>1, <2>2 DEF wait_until_reachable
  <2> QED BY <1>0, <1>1, <2>3, FailKeeps DEF wait_until_reachable, At, InEnsure
<1>2. CASE ~(wait_until_reachable(c) /\ call'[c].pc \notin {"store", "auth"})
  <2>1. /\ Fails(c) /\ UNCHANGED <<app, innerVars, lease, proc, lost, calls>>
        /\ call[c].pc \in InEnsure /\ call[c].pc # "lease"
        /\ loggedIn' \in {loggedIn, [loggedIn EXCEPT ![S(c)] = TRUE]}
    BY <1>2 DEF StateDirectoryFails, CleanupFails, SpawnFails, EnsureFails, ChildIsLive,
                acquire_state_lock, At, InEnsure, Locked
  <2>2. loggedIn' \in [States -> BOOLEAN]
    BY <1>0, <2>1
  <2> QED BY <2>1, <2>2, FailKeeps
<1> QED BY <1>1, <1>2

\* The daemon that cannot be leased is dropped.
LEMMA LeaseFailsKeeps ==
    ASSUME IInv, NEW c \in Callers, LeaseFails(c)
    PROVE  IInv'
<1>1. Moved(c) /\ call'[c] = Idle /\ DropLocals(c)
  BY FailsMoves DEF IInv, Fails, LeaseFails
<1>2. call'[c].pc = "idle" /\ call'[c].handle = NoPid
  BY <1>1, IdleFits
<1>3. UNCHANGED <<child, path, cache>> /\ cache \in [Apps -> Statuses]
      /\ loggedIn' \in [States -> BOOLEAN]
  BY DEF innerVars, IInv, Types, LeaseFails
<1> QED BY <1>1, <1>2, <1>3, LeaveKeeps DEF LeaseFails, At, InEnsure, Locked

\* ensure returns what was cached, or the status it waited for.
LEMMA ReturnSteps ==
    ASSUME IInv, NEW c \in Callers,
           (cached_status(c) /\ cache[A(c)].state = S(c)) \/ cache_status(c)
    PROVE  IInv'
<1>0. /\ Types /\ cache \in [Apps -> Statuses] /\ call[c].app \in Apps /\ call[c].state \in States
      /\ call[c].pc \in InEnsure /\ call[c].pc # "lease" /\ call[c] \in Calls
      /\ loggedIn' \in [States -> BOOLEAN] /\ call[c].answer \in Statuses
  BY DEF IInv, Types, Calls, CallFits, cached_status, cache_status, At, InEnsure
<1>1. CASE cached_status(c) /\ cache[A(c)].state = S(c)
  <2>3. Return(c, cache[call[c].app]) /\ cache[call[c].app] \in Statuses
    BY <1>0, <1>1 DEF cached_status, A
  <2>1. /\ Moved(c) /\ call'[c].pc = "done" /\ call'[c].answer = cache[call[c].app]
        /\ call'[c].handle = NoPid /\ DropLocals(c)
    BY <1>0, <2>3, ReturnMoves DEF Return
  <2>2. cache[call[c].app].by = "ensure" => cache[call[c].app].running
    BY <1>0 DEF IInv, AppFits
  <2> QED BY <1>0, <1>1, <2>1, <2>2, LeaveKeeps DEF cached_status, innerVars
<1>2. CASE cache_status(c)
  <2> DEFINE entry == call[c].answer
  <2>2. /\ entry \in Statuses /\ entry.running /\ entry.at = child[call[c].app]
        /\ child[call[c].app] # NoPid
    BY <1>0, <1>2 DEF cache_status, At, IInv, CallFits, Started
  <2>3. cache' = [cache EXCEPT ![call[c].app] = entry] /\ Return(c, entry)
    BY <1>2 DEF cache_status, A
  <2> HIDE DEF entry
  <2>4. /\ Moved(c) /\ call'[c].pc = "done" /\ call'[c].answer = entry
        /\ call'[c].handle = NoPid /\ DropLocals(c)
    BY <1>0, <2>2, <2>3, ReturnMoves DEF Return
  <2>5. /\ cache' \in [Apps -> Statuses]
        /\ \A a \in Apps : \/ cache'[a] = cache[a]
                           \/ /\ cache'[a].at = child[a] /\ cache'[a].running
                              /\ child[a] # NoPid
    BY <1>0, <2>2, <2>3
  <2>6. UNCHANGED <<app, child, path, loggedIn, calls, lease, proc, lost>>
    BY <1>2 DEF cache_status
  <2> QED BY <1>0, <2>2, <2>4, <2>5, <2>6, LeaveKeeps
<1> QED BY <1>1, <1>2

\* The lease of the state is removed by the holder of its lock: the daemon it
\* named is gone or given up.
LEMMA ForgetKeeps ==
    ASSUME IInv, NEW c \in Callers, Forget(c), call[c].pc \in {"clean", "inspect", "kill"},
           UNCHANGED <<app, child, path, cache, loggedIn, calls>>,
           proc' \in [Pids -> Processes],
           \A p \in Pids : proc'[p] = proc[p] \/ proc'[p] = Free,
           lost' \subseteq Daemons',
           \A p \in Daemons' :
              /\ p \in lost => p \in lost'
              /\ proc[p].state = S(c) /\ lease[S(c)] = Written(p, proc[p].app) => p \in lost'
    PROVE  IInv'
<1>1. /\ Types /\ CallFits(c) /\ call[c].app \in Apps /\ call[c].state \in States
      /\ lifecycle[call[c].app] = c /\ lock[call[c].state] = call[c].app
      /\ held[call[c].app] = c /\ child[call[c].app] = NoPid
  BY DEF IInv, CallFits, InLife, InEnsure, Inner, Locked
<1>2. MovedTo(c, "spawn")
  BY <1>1, ForgetMoves
<1>3. /\ UNCHANGED <<lifecycle, held, lock, auth>>
      /\ \A s \in States : lease'[s] = lease[s] \/ (s = call[c].state /\ lease'[s] = NoLease)
      /\ lease' \in [States -> Leases]
  BY <1>1, Basics DEF Forget, remove_lease, mutexVars, Types, S
<1>11. \A p \in lost : p \in lost' \/ proc'[p] = Free
  BY <1>1, Basics DEF Types, Daemons
<1>4. Gentle(c)
  BY <1>1, <1>2, <1>3, <1>11 DEF Gentle, MovedTo
<1>5. Types'
  BY <1>1, <1>2, <1>3 DEF Types, MovedTo, Moved
<1>6. ASSUME NEW d \in Callers PROVE CallFits(d)'
  <2>1. CASE d # c
    BY <1>1, <1>4, <2>1, GentleFits DEF IInv
  <2>2. CASE d = c
    <3>1. call[c].handle = NoPid /\ app' = app
      BY <1>1 DEF CallFits
    <3>2. Leased(call[c].state)' \subseteq lost'
      <4>1. SUFFICES ASSUME NEW p \in Daemons', proc'[p].state = call[c].state,
                            lease'[call[c].state] = Written(p, proc'[p].app)
                     PROVE  p \in lost'
        BY <1>2 DEF Leased, MovedTo
      <4>2. lease'[call[c].state] # NoLease /\ proc'[p] = proc[p]
        BY <4>1, Basics DEF Written, Daemons
      <4> QED BY <1>1, <1>3, <4>1, <4>2 DEF S
    <3> QED BY <1>1, <1>2, <1>3, <2>2, <3>1, <3>2
            DEF MovedTo, CallFits, Inner, InLife, InEnsure, Locked, Started
  <2> QED BY <2>1, <2>2
<1>7. ASSUME NEW a \in Apps PROVE AppFits(a)'
  BY <1>1, <1>3 DEF IInv, AppFits
<1>8. ASSUME NEW p \in Pids PROVE DaemonFits(p)'
  <2>1. SUFFICES ASSUME p \in Daemons' PROVE DaemonFits(p)'
    BY DEF DaemonFits
  <2>2. proc'[p] = proc[p] /\ p \in Daemons /\ (p \in lost => p \in lost')
    BY <2>1, Basics DEF Daemons
  <2>3. DaemonFits(p)
    BY DEF IInv
  <2>4. \A d \in Callers : call'[d].handle = call[d].handle /\ call'[d].app = call[d].app
    BY <1>2 DEF MovedTo, Moved
  <2>5. ASSUME lease[proc[p].state] = Written(p, proc[p].app)
        PROVE  p \in lost' \/ lease'[proc[p].state] = lease[proc[p].state]
    <3>1. proc[p].state \in States
      BY <2>2, <2>3 DEF DaemonFits
    <3> QED BY <1>3, <2>1, <2>5, <3>1 DEF S
  <2> QED BY <2>2, <2>3, <2>4, <2>5 DEF DaemonFits, Owned
<1>9. LeasesFit'
  BY <1>3, Basics DEF IInv, LeasesFit
<1>10. AuthFileIsBrief'
  <2>1. \A s \in States : auth[s] # c
    BY DEF IInv, AuthFileIsBrief
  <2> QED BY <1>1, <1>2, <1>3, <2>1, AuthStays DEF IInv, MovedTo
<1> QED BY <1>5, <1>6, <1>7, <1>8, <1>9, <1>10 DEF IInv

\* cleanup_stale_daemon removes the lease.
LEMMA ForgetSteps ==
    ASSUME IInv, NEW c \in Callers,
           \/ NothingStale(c) \/ InspectFails(c) \/ KillStale(c)
           \/ Inspect(c) /\ ~Matches(call[c].lease, S(c))
    PROVE  IInv'
<1> USE DEF At, S, innerVars
<1>0. /\ Types /\ CallFits(c) /\ proc \in [Pids -> Processes] /\ lost \subseteq Daemons
      /\ Free \in Processes /\ call[c].pc \in {"clean", "inspect", "kill"}
  BY Basics DEF IInv, Types, NothingStale, InspectFails, KillStale, Inspect
<1>1. ASSUME NEW p \in Pids, lease[call[c].state] = Written(p, proc[p].app),
             call[c].pc \in {"inspect", "kill"}
      PROVE  call[c].lease = Written(p, proc[p].app) /\ call[c].lease.pid = p
  <2>1. lease[call[c].state] # NoLease
    BY <1>1, Basics DEF Written
  <2>2. call[c].lease = Written(p, proc[p].app)
    BY <1>0, <1>1, <2>1 DEF CallFits
  <2> QED BY <2>2 DEF Written
<1>2. CASE NothingStale(c)
  <2>1. \A p \in Pids : lease[call[c].state] # Written(p, proc[p].app)
    BY <1>2 DEF NothingStale, Written
  <2> QED BY <1>0, <1>2, <2>1, ForgetKeeps DEF NothingStale, Daemons
<1>3. CASE InspectFails(c)
  <2>1. /\ Forget(c) /\ call[c].pc = "inspect"
        /\ lost' = lost \cup Leased(call[c].state) /\ Leased(call[c].state) \subseteq Daemons
        /\ UNCHANGED <<app, child, path, cache, loggedIn, proc, calls>> /\ Daemons' = Daemons
    BY <1>3 DEF InspectFails, Daemons, Leased
  <2>2. lost' \subseteq Daemons'
    BY <1>0, <2>1
  <2>3. \A p \in Daemons' :
           /\ p \in lost => p \in lost'
           /\ proc[p].state = call[c].state /\ lease[call[c].state] = Written(p, proc[p].app) => p \in lost'
    BY <2>1 DEF Leased
  <2> QED BY <1>0, <2>1, <2>2, <2>3, ForgetKeeps
<1>4. CASE KillStale(c)
  <2>1. /\ Forget(c) /\ call[c].pc = "kill" /\ call[c].lease.pid \in Pids
        /\ proc' = [proc EXCEPT ![call[c].lease.pid] = Free]
        /\ lost' = lost \ {call[c].lease.pid}
        /\ UNCHANGED <<app, child, path, cache, loggedIn, calls>>
    BY <1>0, <1>4 DEF KillStale, CallFits
  <2>2. Daemons' = Daemons \ {call[c].lease.pid}
    BY <1>0, <2>1, Basics DEF Daemons
  <2>3. lost' \subseteq Daemons'
    BY <1>0, <2>1, <2>2
  <2>4. \A p \in Daemons' :
           /\ p \in lost => p \in lost'
           /\ proc[p].state = call[c].state /\ lease[call[c].state] = Written(p, proc[p].app) => p \in lost'
    BY <1>1, <2>1, <2>2 DEF Daemons
  <2>5. /\ proc' \in [Pids -> Processes]
        /\ \A p \in Pids : proc'[p] = proc[p] \/ proc'[p] = Free
    BY <1>0, <2>1
  <2> QED BY <1>0, <2>1, <2>3, <2>4, <2>5, ForgetKeeps
<1>5. CASE Inspect(c) /\ ~Matches(call[c].lease, S(c))
  <2>1. /\ Forget(c) /\ call[c].pc = "inspect" /\ proc[call[c].lease.pid] # Daemon(call[c].state, call[c].lease.app)
        /\ UNCHANGED <<app, child, path, cache, loggedIn, proc, lost, calls>> /\ Daemons' = Daemons
    BY <1>5 DEF Inspect, Matches, Daemons
  <2>2. ASSUME NEW p \in Daemons, proc[p].state = call[c].state,
               lease[call[c].state] = Written(p, proc[p].app)
        PROVE  FALSE
    <3>1. call[c].lease.pid = p /\ call[c].lease.app = proc[p].app /\ proc[p].kind = "daemon"
      BY <1>1, <2>1, <2>2 DEF Daemons, Written
    <3>2. proc[p] \in Processes
      BY <1>0 DEF Daemons
    <3>3. proc[p] = Daemon(call[c].state, call[c].lease.app)
      BY <2>2, <3>1, <3>2 DEF Processes, Daemon
    <3> QED BY <2>1, <3>1, <3>3
  <2> QED BY <1>0, <2>1, <2>2, ForgetKeeps
<1> QED BY <1>2, <1>3, <1>4, <1>5

-----------------------------------------------------------------------------
(* Steps that take something *)

\* A free mutex, a free lock file or a process id that nobody has.
LEMMA TakeKeeps ==
    ASSUME IInv, NEW c \in Callers, Moved(c), Types', CallFits(c)',
           UNCHANGED <<app, child, path, cache, lease, auth, lost>>,
           call[c].handle = NoPid, call'[c].app = call[c].app, \A s \in States : auth[s] # c,
           \A a \in Apps : lifecycle'[a] = lifecycle[a] \/ lifecycle[a] = None,
           \A a \in Apps : held'[a] = held[a] \/ held[a] = None,
           \A s \in States : lock'[s] = lock[s] \/ lock[s] = None,
           \A p \in Pids : \/ proc'[p] = proc[p]
                           \/ /\ Available(p) /\ call'[c].handle = p /\ call[c].pc = "spawn"
                              /\ proc'[p] = Daemon(call[c].state, call[c].app)
    PROVE  IInv'
<1>6. ASSUME call[c].pc = "spawn"
      PROVE  /\ call[c].state \in States /\ call[c].app \in Apps
             /\ lock[call[c].state] = call[c].app /\ lifecycle[call[c].app] = c
  BY <1>6 DEF IInv, CallFits, InLife, InEnsure, Locked
<1>7. ASSUME NEW d \in Callers, call[d].pc \in Locked, call[c].pc = "spawn", d # c
      PROVE  call[c].state # call[d].state
  <2>1. lock[call[d].state] = call[d].app /\ lifecycle[call[d].app] = d
    BY <1>7 DEF IInv, CallFits, InLife, InEnsure, Locked
  <2> QED BY <1>6, <1>7, <2>1
<1>1. Gentle(c)
  BY <1>6, <1>7, DaemonIsTyped DEF Gentle
<1>2. ASSUME NEW d \in Callers PROVE CallFits(d)'
  BY <1>1, <1>2, GentleFits DEF IInv
<1>3. ASSUME NEW a \in Apps PROVE AppFits(a)'
  BY <1>3, Basics DEF IInv, AppFits
<1>4. ASSUME NEW p \in Pids PROVE DaemonFits(p)'
  <2>1. CASE proc'[p] = proc[p]
    <3>1. \A d \in Callers : call[d].handle = p => call'[d] = call[d]
      BY Basics DEF Moved
    <3> QED BY <2>1, <3>1 DEF IInv, DaemonFits, Daemons, Owned
  <2>2. CASE proc'[p] # proc[p]
    <3>1. /\ call'[c].handle = p /\ call'[c].app = call[c].app
          /\ proc'[p].state \in States /\ proc'[p].app = call[c].app /\ call[c].app \in Apps
      BY <1>6, <2>2, DaemonIsTyped
    <3> QED BY <3>1 DEF DaemonFits, Owned
  <2> QED BY <2>1, <2>2
<1>5. LeasesFit' /\ AuthFileIsBrief'
  BY AuthStays DEF IInv, LeasesFit
<1> QED BY <1>2, <1>3, <1>4, <1>5 DEF IInv

LEMMA TakeSteps ==
    ASSUME IInv, NEW c \in Callers,
           \/ ensure(c) \/ Spawn(c)
           \/ acquire_state_lock(c) /\ lock[S(c)] = None
    PROVE  IInv'
<1> USE DEF At, A, S, mutexVars, innerVars, fileVars
<1>0. /\ Types /\ CallFits(c) /\ call \in [Callers -> Calls]
      /\ call[c].pc \in {"enter", "lock", "spawn"}
  BY DEF IInv, Types, ensure, Spawn, acquire_state_lock
<1>1. /\ call[c].app \in Apps /\ call[c].state \in States /\ call[c].handle = NoPid
      /\ \A s \in States : auth[s] # c
  BY <1>0 DEF CallFits, InEnsure, Locked, IInv, AuthFileIsBrief
<1>2. CASE ensure(c)
  <2>1. MovedTo(c, "child")
    BY <1>0, <1>2, GotoMoves DEF ensure, Places
  <2>2. /\ lifecycle' = [lifecycle EXCEPT ![call[c].app] = c] /\ lifecycle[call[c].app] = None
        /\ UNCHANGED <<app, held, child, path, cache, lock, lease, auth, loggedIn, proc, lost, calls>>
    BY <1>2 DEF ensure
  <2>3. Types'
    BY <1>0, <1>1, <2>1, <2>2 DEF Types, Daemons, MovedTo, Moved
  <2>4. CallFits(c)'
    BY <1>0, <1>1, <2>1, <2>2 DEF CallFits, MovedTo, Inner, InLife, InEnsure, Locked, Started, Types
  <2>5. \A a \in Apps : lifecycle'[a] = lifecycle[a] \/ lifecycle[a] = None
    BY <1>0, <1>1, <2>2 DEF Types
  <2> QED BY <1>1, <2>1, <2>2, <2>3, <2>4, <2>5, TakeKeeps DEF MovedTo
<1>3. CASE acquire_state_lock(c) /\ lock[S(c)] = None
  <2>1. MovedTo(c, "clean") /\ call[c].pc = "lock"
    BY <1>0, <1>3, GotoMoves DEF acquire_state_lock, Places
  <2>2. /\ lock' = [lock EXCEPT ![call[c].state] = call[c].app] /\ lock[call[c].state] = None
        /\ UNCHANGED <<app, lifecycle, held, child, path, cache, lease, auth, loggedIn, proc, lost, calls>>
    BY <1>3 DEF acquire_state_lock
  <2>3. Types'
    BY <1>0, <1>1, <2>1, <2>2 DEF Types, Daemons, MovedTo, Moved
  <2>4. CallFits(c)'
    BY <1>0, <1>1, <2>1, <2>2 DEF CallFits, MovedTo, Inner, InLife, InEnsure, Locked, Started, Types
  <2>5. \A s \in States : lock'[s] = lock[s] \/ lock[s] = None
    BY <1>0, <1>1, <2>2 DEF Types
  <2> QED BY <1>1, <2>1, <2>2, <2>3, <2>4, <2>5, TakeKeeps DEF MovedTo
<1>4. CASE Spawn(c)
  <2>1. PICK p \in Pids :
           /\ Available(p)
           /\ proc' = [proc EXCEPT ![p] = Daemon(call[c].state, call[c].app)]
           /\ call' = [call EXCEPT ![c].pc = "lease", ![c].handle = p]
    BY <1>4 DEF Spawn
  <2>2. UNCHANGED <<app, lifecycle, held, child, path, cache, lock, lease, auth, loggedIn, lost, calls>>
        /\ call[c].pc = "spawn"
    BY <1>4 DEF Spawn
  <2>3. p \in 0 .. MaxPid /\ "lease" \in Places
    BY Basics DEF Places
  <2>4. /\ Moved(c) /\ call'[c].pc = "lease" /\ call'[c].app = call[c].app
        /\ call'[c].state = call[c].state /\ call'[c].handle = p
    <3>1. Types /\ call' = [call EXCEPT ![c].pc = "lease", ![c].handle = p]
      BY <1>0, <2>1
    <3> QED BY <2>3, <3>1, HandleMoves
  <2>5. /\ proc \in [Pids -> Processes] /\ proc[p].kind # "daemon"
        /\ Daemon(call[c].state, call[c].app) \in Processes
    BY <1>0, <1>1, <2>1, Basics, DaemonIsTyped DEF Types, Available
  <2>6. Types'
    <3>1. proc' \in [Pids -> Processes]
      BY <2>1, <2>5
    <3>2. lost \subseteq Daemons'
      BY <1>0, <2>1, <2>5 DEF Types, Daemons
    <3> QED BY <1>0, <2>2, <2>4, <3>1, <3>2 DEF Types, Moved
  <2>7. proc'[p] = Daemon(call[c].state, call[c].app)
    BY <2>1, <2>5
  <2>10. Leased(call[c].state)' \subseteq lost \cup {p}
    <3>1. Leased(call[c].state) \subseteq lost
      BY <1>0, <1>1, <2>2, Basics DEF CallFits, Leased, Daemons
    <3>2. \A q \in Pids : q # p => proc'[q] = proc[q]
      BY <2>1, <2>5
    <3> QED BY <2>2, <2>4, <3>1, <3>2 DEF Leased, Daemons
  <2>8. CallFits(c)'
    BY <1>0, <1>1, <2>2, <2>4, <2>7, <2>10 DEF CallFits, Inner, InLife, InEnsure, Locked, Started
  <2>9. \A q \in Pids : \/ proc'[q] = proc[q]
                        \/ /\ Available(q) /\ call'[c].handle = q /\ call[c].pc = "spawn"
                           /\ proc'[q] = Daemon(call[c].state, call[c].app)
    BY <2>1, <2>2, <2>4, <2>5, <2>7
  <2> QED BY <1>1, <2>2, <2>4, <2>6, <2>8, <2>9, TakeKeeps
<1> QED BY <1>2, <1>3, <1>4

\* A child that has exited gives back its lease and its lock file.
LEMMA ChildIsDeadKeeps ==
    ASSUME IInv, NEW c \in Callers, ChildIsDead(c)
    PROVE  IInv'
<1> DEFINE a == call[c].app
           dead(s) == child[a] # NoPid /\ path[a] = s
<1>0. /\ Types /\ CallFits(c) /\ a \in Apps /\ call[c].state \in States /\ call[c].pc = "child"
      /\ lifecycle[a] = c /\ AppFits(a) /\ held[a] = None /\ ~Alive(a) /\ call[c].handle = NoPid
  BY DEF IInv, ChildIsDead, At, A, CallFits, InLife, InEnsure
<1>1. /\ held' = [held EXCEPT ![a] = c]
      /\ lease' = [s \in States |-> IF dead(s) THEN NoLease ELSE lease[s]]
      /\ lock' = [s \in States |-> IF dead(s) THEN None ELSE lock[s]]
      /\ child' = [child EXCEPT ![a] = NoPid] /\ path' = [path EXCEPT ![a] = None]
      /\ cache' = IF child[a] # NoPid THEN [cache EXCEPT ![a] = NoStatus] ELSE cache
      /\ UNCHANGED <<app, lifecycle, auth, loggedIn, proc, lost, calls>>
  BY DEF ChildIsDead, A
<1>2. MovedTo(c, "lock")
  BY <1>0, GotoMoves DEF ChildIsDead, Places
<1>3. \A s \in States : dead(s) =>
         lock[s] = a /\ lease[s] \in {Written(child[a], a), NoLease}
         /\ proc[child[a]].kind # "daemon"
  BY <1>0 DEF AppFits, Alive
<1>4. Types'
  <2>1. lease' \in [States -> Leases] /\ lock' \in [States -> Apps \cup {None}]
    BY <1>0, <1>1, Basics DEF Types
  <2>2. held' \in [Apps -> Callers \cup {None}] /\ child' \in [Apps -> 0 .. MaxPid]
        /\ path' \in [Apps -> States \cup {None}] /\ cache' \in [Apps -> Statuses]
    BY <1>0, <1>1, Basics DEF Types
  <2> QED BY <1>0, <1>1, <1>2, <2>1, <2>2 DEF Types, MovedTo, Moved, Daemons
<1>5. Gentle(c)
  <2>1. \A b \in Apps : held'[b] = held[b] \/ held[b] = None
    BY <1>0, <1>1 DEF Types
  <2>2. \A b \in Apps : child'[b] = child[b] \/ lifecycle[b] = c
    BY <1>0, <1>1 DEF Types
  <2>3. \A s \in States : lock'[s] = lock[s] \/ lock[s] = a
    BY <1>1, <1>3
  <2>4. \A s \in States : lease'[s] = lease[s] \/ lease'[s] = NoLease
    BY <1>1
  <2> HIDE DEF a, dead
  <2> QED BY <1>0, <1>1, <1>2, <2>1, <2>2, <2>3, <2>4 DEF Gentle, MovedTo
<1>6. ASSUME NEW d \in Callers PROVE CallFits(d)'
  <2>1. CASE d # c
    BY <1>0, <1>5, <2>1, GentleFits DEF IInv
  <2>2. CASE d = c
    <3>1. held'[a] = c /\ child'[a] = NoPid
      BY <1>0, <1>1 DEF Types
    <3> QED BY <1>0, <1>1, <1>2, <2>2, <3>1
            DEF CallFits, MovedTo, Inner, InLife, InEnsure, Locked, Started
  <2> QED BY <2>1, <2>2
<1>7. ASSUME NEW b \in Apps PROVE AppFits(b)'
  <2>1. CASE b = a
    BY <1>0, <1>1, <2>1, Basics DEF AppFits, Types
  <2>2. CASE b # a
    <3>1. child'[b] = child[b] /\ path'[b] = path[b] /\ cache'[b] = cache[b]
      BY <1>0, <1>1, <2>2 DEF Types
    <3>2. ASSUME child[b] # NoPid
          PROVE  path[b] \in States /\ lock'[path[b]] = lock[path[b]] /\ lease'[path[b]] = lease[path[b]]
      BY <1>1, <1>3, <2>2, <3>2 DEF IInv, AppFits
    <3> QED BY <3>1, <3>2 DEF IInv, AppFits
  <2> QED BY <2>1, <2>2
<1>8. ASSUME NEW p \in Pids PROVE DaemonFits(p)'
  <2>1. SUFFICES ASSUME p \in Daemons PROVE DaemonFits(p)'
    BY <1>1 DEF DaemonFits, Daemons
  <2>2. DaemonFits(p) /\ proc[p].kind = "daemon"
    BY <2>1 DEF IInv, Daemons
  <2>3. \A d \in Callers : call'[d].handle = call[d].handle /\ call'[d].app = call[d].app
    BY <1>2 DEF MovedTo, Moved
  <2>5. \A b \in Apps : child[b] = p => child'[b] = p
    BY <1>0, <1>1, <2>1, Basics DEF Types, Alive, Daemons
  <2>4. ASSUME lease[proc[p].state] = Written(p, proc[p].app)
        PROVE  lease'[proc[p].state] = lease[proc[p].state]
    <3>1. proc[p].state \in States
      BY <2>1, <2>2 DEF DaemonFits
    <3>2. CASE dead(proc[p].state)
      <4>1. lease[proc[p].state] = Written(child[a], a)
        BY <1>3, <2>4, <3>1, <3>2, Basics DEF Written
      <4>2. p = child[a]
        BY <2>4, <4>1 DEF Written
      <4> QED BY <1>3, <2>2, <3>1, <3>2, <4>2
    <3> QED BY <1>1, <3>1, <3>2
  <2> QED BY <1>1, <2>2, <2>3, <2>4, <2>5 DEF DaemonFits, Daemons, Owned
<1>9. LeasesFit'
  BY <1>1, Basics DEF IInv, LeasesFit
<1>10. AuthFileIsBrief'
  <2>1. \A s \in States : auth[s] # c
    BY <1>0 DEF IInv, AuthFileIsBrief
  <2> QED BY <1>0, <1>1, <1>2, <2>1, AuthStays DEF IInv, MovedTo
<1> QED BY <1>4, <1>6, <1>7, <1>8, <1>9, <1>10 DEF IInv

\* The daemon is leased and becomes the child.
LEMMA LeaseKeeps ==
    ASSUME IInv, NEW c \in Callers, write_runtime_lease(c)
    PROVE  IInv'
<1> DEFINE a == call[c].app
           s == call[c].state
           p == call[c].handle
<1>0. /\ Types /\ CallFits(c) /\ a \in Apps /\ s \in States /\ p \in Pids /\ call[c].pc = "lease"
      /\ lifecycle[a] = c /\ held[a] = c /\ lock[s] = a /\ Leased(s) \subseteq lost \cup {p}
      /\ proc[p] \in {Free, Daemon(s, a)} /\ child[a] = NoPid
  BY DEF IInv, write_runtime_lease, At, CallFits, InLife, InEnsure, Inner, Locked
<1>1. /\ lease' = [lease EXCEPT ![s] = Written(p, a)]
      /\ child' = [child EXCEPT ![a] = p] /\ path' = [path EXCEPT ![a] = s]
      /\ cache' = [cache EXCEPT ![a] = NoStatus] /\ held' = [held EXCEPT ![a] = None]
      /\ call' = [call EXCEPT ![c].pc = "cached", ![c].handle = NoPid]
      /\ UNCHANGED <<app, lifecycle, lock, auth, loggedIn, proc, lost, calls>>
  BY DEF write_runtime_lease, A, S
<1>2. /\ Moved(c) /\ call'[c].pc = "cached" /\ call'[c].app = a /\ call'[c].state = s
      /\ call'[c].handle = NoPid
  <2>1. "cached" \in Places
    BY DEF Places
  <2>2. Types /\ call' = [call EXCEPT ![c].pc = "cached", ![c].handle = NoPid]
    BY <1>0, <1>1
  <2> QED BY <2>1, <2>2, HandleLeaves
<1>3. Written(p, a) \in Leases /\ Written(p, a).kind = "written" /\ Written(p, a).pid = p
      /\ p \in 0 .. MaxPid
  BY <1>0, WrittenFits, Basics
<1> HIDE DEF a, s, p
<1>4. Types'
  <2>1. lease' \in [States -> Leases] /\ child' \in [Apps -> 0 .. MaxPid]
        /\ path' \in [Apps -> States \cup {None}] /\ cache' \in [Apps -> Statuses]
        /\ held' \in [Apps -> Callers \cup {None}]
    BY <1>0, <1>1, <1>3, Basics DEF Types
  <2> QED BY <1>0, <1>1, <1>2, <2>1 DEF Types, Moved, Daemons
<1>5. Gentle(c)
  BY <1>0, <1>1, <1>2 DEF Gentle, Types
<1>6. ASSUME NEW d \in Callers PROVE CallFits(d)'
  <2>1. CASE d # c
    BY <1>0, <1>5, <2>1, GentleFits DEF IInv
  <2>2. CASE d = c
    <3>1. child'[a] = p /\ p # NoPid /\ app[a] = "up"
      BY <1>0, <1>1, Basics DEF Types, CallFits, a
    <3> QED BY <1>0, <1>1, <1>2, <2>2, <3>1 DEF CallFits, Inner, InLife, InEnsure, Locked, Started
  <2> QED BY <2>1, <2>2
<1>7. ASSUME NEW b \in Apps PROVE AppFits(b)'
  <2>1. CASE b = a
    BY <1>0, <1>1, <2>1, Basics DEF AppFits, Types
  <2>2. CASE b # a
    <3>1. child'[b] = child[b] /\ path'[b] = path[b] /\ cache'[b] = cache[b] /\ AppFits(b)
      BY <1>0, <1>1, <2>2 DEF IInv, Types
    <3>2. ASSUME child[b] # NoPid
          PROVE  path[b] \in States /\ lease'[path[b]] = lease[path[b]]
      BY <1>0, <1>1, <2>2, <3>1, <3>2 DEF AppFits, Types
    <3> QED BY <1>1, <3>1, <3>2 DEF AppFits
  <2> QED BY <2>1, <2>2
<1>8. ASSUME NEW q \in Pids PROVE DaemonFits(q)'
  <2>1. SUFFICES ASSUME q \in Daemons PROVE DaemonFits(q)'
    BY <1>1 DEF DaemonFits, Daemons
  <2>2. DaemonFits(q) /\ proc[q].kind = "daemon"
    BY <2>1 DEF IInv, Daemons
  <2>3. CASE q = p
    <3>1. proc[p] = Daemon(s, a)
      BY <1>0, <2>2, <2>3, Basics
    <3>2. proc[p].state = s /\ proc[p].app = a
      BY <1>0, <3>1, DaemonIsTyped
    <3>3. lease'[s] = Written(p, a) /\ child'[a] = p
      BY <1>0, <1>1 DEF Types
    <3> QED BY <1>0, <1>1, <2>3, <3>2, <3>3 DEF DaemonFits, Owned
  <2>4. CASE q # p
    <3>1. \A d \in Callers : call[d].handle = q => call'[d] = call[d]
      BY <1>2, <2>4 DEF Moved, p
    <3>2. ASSUME lease[proc[q].state] = Written(q, proc[q].app)
          PROVE  q \in lost \/ lease'[proc[q].state] = lease[proc[q].state]
      <4>1. q \in Leased(proc[q].state) /\ proc[q].state \in States
        BY <2>1, <2>2, <3>2 DEF Leased, DaemonFits
      <4> QED BY <1>0, <1>1, <2>4, <4>1 DEF Types
    <3>3. \A b \in Apps : child[b] = q => child'[b] = q
      BY <1>0, <1>1, <2>1, Basics DEF Types, Daemons
    <3> QED BY <1>1, <2>2, <3>1, <3>2, <3>3 DEF DaemonFits, Daemons, Owned
  <2> QED BY <2>3, <2>4
<1>9. LeasesFit'
  BY <1>0, <1>1, <1>3 DEF IInv, LeasesFit, Types
<1>10. AuthFileIsBrief'
  <2>1. \A t \in States : auth[t] # c
    BY <1>0 DEF IInv, AuthFileIsBrief
  <2> QED BY <1>0, <1>1, <1>2, <2>1, AuthStays DEF IInv
<1> QED BY <1>4, <1>6, <1>7, <1>8, <1>9, <1>10 DEF IInv

\* status_for_config stores its answer for whatever child there is by now.
LEMMA StoreAnswerKeeps ==
    ASSUME IInv, NEW c \in Callers, StoreAnswer(c)
    PROVE  IInv'
<1> DEFINE a == call[c].app
           entry == call[c].answer
<1>0. /\ Types /\ CallFits(c) /\ call[c].pc = "answered" /\ call[c] \in Calls /\ a \in Apps
      /\ call[c].state \in States /\ call[c].handle = NoPid
      /\ entry \in Statuses /\ entry.by = "status"
  <2>1. Types /\ CallFits(c) /\ call[c].pc = "answered"
    BY DEF IInv, StoreAnswer, At
  <2>2. call[c] \in Calls /\ a \in Apps /\ call[c].state \in States /\ call[c].handle = NoPid
    BY <2>1 DEF CallFits, Types
  <2>3. entry \in Statuses /\ entry.by = "status"
    BY <2>1, <2>2 DEF Calls, CallFits
  <2> QED BY <2>1, <2>2, <2>3 DEF Types
<1>1. /\ cache' = [cache EXCEPT ![a] = entry] /\ call' = [call EXCEPT ![c] = Idle]
      /\ UNCHANGED <<app, lifecycle, held, child, path, lock, lease, auth, loggedIn, proc, lost, calls>>
  BY DEF StoreAnswer, A, S, mutexVars, fileVars
<1>3. Moved(c) /\ call'[c] = Idle
  BY <1>0, <1>1, IdleFits DEF Types, Moved
<1> HIDE DEF entry, a
<1>4. Types'
  BY <1>0, <1>1, <1>3 DEF Types, Moved, Daemons
<1>5. Gentle(c)
  BY <1>1, <1>3 DEF Gentle
<1>6. ASSUME NEW d \in Callers PROVE CallFits(d)'
  <2>1. CASE d # c
    BY <1>0, <1>5, <2>1, GentleFits DEF IInv
  <2>2. CASE d = c
    BY <1>3, <2>2, IdleFits DEF CallFits, Inner, InLife, InEnsure, Locked, Started
  <2> QED BY <2>1, <2>2
<1>7. ASSUME NEW b \in Apps PROVE AppFits(b)'
  BY <1>0, <1>1 DEF IInv, AppFits, Types
<1>8. ASSUME NEW p \in Pids PROVE DaemonFits(p)'
  <2>1. \A d \in Callers : call[d].handle = p => call'[d] = call[d]
    BY <1>0, <1>3, Basics DEF Moved
  <2> QED BY <1>1, <2>1 DEF IInv, DaemonFits, Daemons, Owned
<1>9. LeasesFit'
  BY <1>1 DEF IInv, LeasesFit
<1>10. AuthFileIsBrief'
  <2>1. \A t \in States : auth[t] # c
    BY <1>0 DEF IInv, AuthFileIsBrief
  <2> QED BY <1>0, <1>1, <1>3, <2>1, AuthStays DEF IInv
<1> QED BY <1>4, <1>6, <1>7, <1>8, <1>9, <1>10 DEF IInv

-----------------------------------------------------------------------------
(* shutdown *)

\* The child leaves the fields and the locks are dropped.
LEMMA ShutdownKeeps ==
    ASSUME IInv, NEW c \in Callers, shutdown(c)
    PROVE  IInv'
<1> DEFINE a == call[c].app
<1>0. /\ Types /\ CallFits(c) /\ a \in Apps /\ call[c].pc = "quit" /\ call[c].handle = NoPid
      /\ lifecycle[a] = None /\ held[a] = None
  BY DEF IInv, shutdown, At, A, CallFits
<1>1. /\ lifecycle' = [lifecycle EXCEPT ![a] = c] /\ held' = [held EXCEPT ![a] = c]
      /\ cache' = [cache EXCEPT ![a] = NoStatus] /\ path' = [path EXCEPT ![a] = None]
      /\ child' = [child EXCEPT ![a] = NoPid]
      /\ lock' = [s \in States |-> IF lock[s] = a THEN None ELSE lock[s]]
      /\ call' = [call EXCEPT ![c].pc = "unlease", ![c].state = path[a], ![c].handle = child[a]]
      /\ UNCHANGED <<app, lease, auth, loggedIn, proc, lost, calls>>
  BY DEF shutdown, A
<1>2. Moved(c) /\ call'[c].pc = "unlease" /\ call'[c].app = a /\ call'[c].handle = child[a]
  <2>1. /\ call \in [Callers -> Calls] /\ path[a] \in States \cup {None}
        /\ child[a] \in 0 .. MaxPid /\ "unlease" \in Places
    BY <1>0 DEF Types, Places
  <2> DEFINE new == [call[c] EXCEPT !.pc = "unlease", !.state = path[a], !.handle = child[a]]
  <2>2. new \in Calls /\ new.pc = "unlease" /\ new.app = a /\ new.handle = child[a]
    BY <2>1 DEF Calls
  <2>3. call' = [call EXCEPT ![c] = new]
    BY <1>1
  <2> HIDE DEF new
  <2> QED BY <2>1, <2>2, <2>3 DEF Moved
<1> HIDE DEF a
<1>4. Types'
  <2>1. lifecycle' \in [Apps -> Callers \cup {None}] /\ held' \in [Apps -> Callers \cup {None}]
        /\ child' \in [Apps -> 0 .. MaxPid]
        /\ path' \in [Apps -> States \cup {None}] /\ cache' \in [Apps -> Statuses]
        /\ lock' \in [States -> Apps \cup {None}]
    BY <1>0, <1>1, Basics DEF Types
  <2> QED BY <1>0, <1>1, <1>2, <2>1 DEF Types, Moved, Daemons
<1>5. Gentle(c)
  BY <1>0, <1>1, <1>2 DEF Gentle, Types
<1>6. ASSUME NEW d \in Callers PROVE CallFits(d)'
  <2>1. CASE d # c
    BY <1>0, <1>5, <2>1, GentleFits DEF IInv
  <2>2. CASE d = c
    <3>1. lifecycle'[a] = c /\ held'[a] = c /\ child'[a] = NoPid /\ app'[a] = "up"
      BY <1>0, <1>1 DEF Types, CallFits, a
    <3> QED BY <1>0, <1>2, <2>2, <3>1 DEF CallFits, Inner, InLife, InEnsure, Locked, Started
  <2> QED BY <2>1, <2>2
<1>7. ASSUME NEW b \in Apps PROVE AppFits(b)'
  BY <1>0, <1>1, Basics DEF IInv, AppFits, Types
<1>8. ASSUME NEW p \in Pids PROVE DaemonFits(p)'
  <2>1. \A d \in Callers : call[d].handle = p => call'[d] = call[d]
    BY <1>0, <1>2, Basics DEF Moved
  <2>2. ASSUME NEW b \in Apps, Owned(p, b) PROVE Owned(p, b)'
    <3>1. CASE b = a /\ child[a] = p
      BY <1>2, <3>1 DEF Owned
    <3>2. CASE child[b] = p /\ b # a
      BY <1>0, <1>1, <3>2 DEF Owned, Types
    <3> QED BY <2>1, <2>2, <3>1, <3>2 DEF Owned
  <2> QED BY <1>1, <2>1, <2>2 DEF IInv, DaemonFits, Daemons
<1>9. LeasesFit'
  BY <1>1 DEF IInv, LeasesFit
<1>10. AuthFileIsBrief'
  <2>1. \A t \in States : auth[t] # c
    BY <1>0 DEF IInv, AuthFileIsBrief
  <2> QED BY <1>0, <1>1, <1>2, <2>1, AuthStays DEF IInv
<1> QED BY <1>4, <1>6, <1>7, <1>8, <1>9, <1>10 DEF IInv

\* The lease is removed by name: a daemon of another process that it names by
\* now is given up.
LEMMA RemoveLeaseKeeps ==
    ASSUME IInv, NEW c \in Callers, RemoveLease(c)
    PROVE  IInv'
<1> DEFINE a == call[c].app
           s == call[c].state
           p == call[c].handle
<1>0. /\ Types /\ CallFits(c) /\ a \in Apps /\ call[c].pc = "unlease"
      /\ lifecycle[a] = c /\ held[a] = c
  BY DEF IInv, RemoveLease, At, CallFits, InLife, Inner
<1>1. /\ lease' \in [States -> Leases]
      /\ \A t \in States : lease'[t] = lease[t] \/ (p # NoPid /\ t = s /\ lease'[t] = NoLease)
      /\ lost' = lost \cup {q \in Daemons \ {p} : p # NoPid /\ q \in Leased(s)
                                                 /\ lease'[s] # lease[s]}
      /\ held' = [held EXCEPT ![a] = None]
      /\ UNCHANGED <<app, lifecycle, child, path, cache, lock, auth, loggedIn, proc, calls>>
  <2>1. lease \in [States -> Leases] /\ NoLease \in Leases
    BY <1>0, Basics DEF Types
  <2> QED BY <2>1 DEF RemoveLease, remove_lease, A, S, innerVars
<1>2. MovedTo(c, "stop")
  BY <1>0, GotoMoves DEF RemoveLease, Places
<1>3. call'[c].pc = "stop" /\ call'[c].app = a /\ Moved(c)
      /\ \A d \in Callers : call'[d].handle = call[d].handle /\ call'[d].app = call[d].app
  BY <1>2 DEF MovedTo, Moved
<1>11. call[c].handle = p
  OBVIOUS
<1> HIDE DEF a, s, p
<1>4. Types'
  <2>1. held' \in [Apps -> Callers \cup {None}]
    BY <1>0, <1>1, Basics DEF Types
  <2>2. lost' \subseteq Daemons /\ Daemons' = Daemons
    BY <1>0, <1>1 DEF Types, Daemons
  <2> QED BY <1>0, <1>1, <1>3, <2>1, <2>2 DEF Types, Moved
<1>5. Gentle(c)
  BY <1>0, <1>1, <1>3 DEF Gentle, Types
<1>6. ASSUME NEW d \in Callers PROVE CallFits(d)'
  <2>1. CASE d # c
    BY <1>0, <1>5, <2>1, GentleFits DEF IInv
  <2>2. CASE d = c
    <3>1. app[a] = "up"
      BY <1>0 DEF CallFits, a
    <3> QED BY <1>0, <1>1, <1>3, <2>2, <3>1 DEF CallFits, Inner, InLife, InEnsure, Locked, Started
  <2> QED BY <2>1, <2>2
<1>7. ASSUME NEW b \in Apps PROVE AppFits(b)'
  BY <1>1 DEF IInv, AppFits
<1>8. ASSUME NEW q \in Pids PROVE DaemonFits(q)'
  <2>1. SUFFICES ASSUME q \in Daemons PROVE DaemonFits(q)'
    BY <1>1 DEF DaemonFits, Daemons
  <2>2. DaemonFits(q)
    BY DEF IInv
  <2>3. ASSUME lease[proc[q].state] = Written(q, proc[q].app), q # p
        PROVE  q \in lost' \/ lease'[proc[q].state] = lease[proc[q].state]
    <3>1. proc[q].state \in States /\ q \in Leased(proc[q].state)
      BY <2>1, <2>2, <2>3 DEF DaemonFits, Leased
    <3> QED BY <1>1, <2>1, <2>3, <3>1
  <2> QED BY <1>1, <1>3, <1>11, <2>2, <2>3 DEF DaemonFits, Daemons, Owned
<1>9. LeasesFit'
  BY <1>1, Basics DEF IInv, LeasesFit
<1>10. AuthFileIsBrief'
  <2>1. \A t \in States : auth[t] # c
    BY <1>0 DEF IInv, AuthFileIsBrief
  <2> QED BY <1>0, <1>1, <1>3, <2>1, AuthStays DEF IInv
<1> QED BY <1>4, <1>6, <1>7, <1>8, <1>9, <1>10 DEF IInv

\* The child is stopped.
LEMMA StopChildKeeps ==
    ASSUME IInv, NEW c \in Callers, StopChild(c)
    PROVE  IInv'
<1> DEFINE a == call[c].app
           p == call[c].handle
<1>0. Types /\ CallFits(c) /\ a \in Apps /\ call[c].pc = "stop" /\ lifecycle[a] = c
  BY DEF IInv, StopChild, At, CallFits, InLife
<1>1. /\ proc' = [q \in Pids |-> IF q = p /\ proc[q].kind = "daemon" THEN Free ELSE proc[q]]
      /\ lost' = lost \ {p} /\ lifecycle' = [lifecycle EXCEPT ![a] = None]
      /\ call' = [call EXCEPT ![c].pc = "exit", ![c].handle = NoPid]
      /\ UNCHANGED <<app, held, child, path, cache, lock, lease, auth, loggedIn, calls>>
  BY DEF StopChild, A, innerVars, fileVars
<1>2. Moved(c) /\ call'[c].pc = "exit" /\ call'[c].app = a /\ call'[c].handle = NoPid
  <2>1. "exit" \in Places
    BY DEF Places
  <2>2. Types /\ call' = [call EXCEPT ![c].pc = "exit", ![c].handle = NoPid]
    BY <1>0, <1>1
  <2> QED BY <2>1, <2>2, HandleLeaves
<1>3. \A d \in Callers : d # c \/ call[d].handle = p
  OBVIOUS
<1> HIDE DEF a, p
<1>12. \A q \in lost : q \in lost' \/ proc'[q] = Free
  BY <1>0, <1>1 DEF Types, Daemons
<1>11. Daemons' = Daemons \ {p} /\ \A q \in Daemons' : proc'[q] = proc[q] /\ q # p
  BY <1>1, Basics DEF Daemons
<1>4. Types'
  <2>1. proc' \in [Pids -> Processes] /\ lifecycle' \in [Apps -> Callers \cup {None}]
    BY <1>0, <1>1, Basics DEF Types
  <2>2. lost' \subseteq Daemons'
    BY <1>0, <1>1, <1>11 DEF Types
  <2> QED BY <1>0, <1>1, <1>2, <2>1, <2>2 DEF Types, Moved
<1>5. Gentle(c)
  BY <1>0, <1>1, <1>2, <1>12 DEF Gentle, Types
<1>6. ASSUME NEW d \in Callers PROVE CallFits(d)'
  <2>1. CASE d # c
    BY <1>0, <1>5, <2>1, GentleFits DEF IInv
  <2>2. CASE d = c
    <3>1. app'[a] = "up"
      BY <1>0, <1>1 DEF CallFits, a
    <3> QED BY <1>0, <1>2, <2>2, <3>1 DEF CallFits, Inner, InLife, InEnsure, Locked, Started
  <2> QED BY <2>1, <2>2
<1>7. ASSUME NEW b \in Apps PROVE AppFits(b)'
  BY <1>1 DEF IInv, AppFits
<1>8. ASSUME NEW q \in Pids PROVE DaemonFits(q)'
  <2>1. SUFFICES ASSUME q \in Daemons' PROVE DaemonFits(q)'
    BY DEF DaemonFits
  <2>2. q \in Daemons /\ q # p /\ proc'[q] = proc[q] /\ DaemonFits(q)
    BY <1>11, <2>1 DEF IInv
  <2>3. \A d \in Callers : call[d].handle = q => call'[d] = call[d]
    BY <1>2, <1>3, <2>2 DEF Moved
  <2> QED BY <1>1, <2>2, <2>3 DEF DaemonFits, Owned
<1>9. LeasesFit'
  BY <1>1 DEF IInv, LeasesFit
<1>10. AuthFileIsBrief'
  <2>1. \A t \in States : auth[t] # c
    BY <1>0 DEF IInv, AuthFileIsBrief
  <2> QED BY <1>0, <1>1, <1>2, <2>1, AuthStays DEF IInv
<1> QED BY <1>4, <1>6, <1>7, <1>8, <1>9, <1>10 DEF IInv

-----------------------------------------------------------------------------
(* Processes *)

\* A process ends, at any step of its commands.
LEMMA EndKeeps ==
    ASSUME IInv, NEW a \in Apps, EndProcess(a),
           \/ lease' = lease
           \/ \E c \in Callers : /\ call[c].app = a /\ call[c].pc = "lease"
                                 /\ lease' = [lease EXCEPT ![call[c].state] = Torn]
    PROVE  IInv'
<1>0. Types
  BY DEF IInv
<1> DEFINE torn(s) == /\ lease'[s] = Torn /\ lock[s] = a
                      /\ Leased(s) \subseteq lost \cup InHand(a)
<1>1. lease' \in [States -> Leases] /\ \A s \in States : lease'[s] = lease[s] \/ torn(s)
  <2>1. CASE lease' = lease
    BY <1>0, <2>1 DEF Types
  <2>2. ASSUME NEW c \in Callers, call[c].app = a, call[c].pc = "lease",
               lease' = [lease EXCEPT ![call[c].state] = Torn]
        PROVE  lease' \in [States -> Leases] /\ \A s \in States : lease'[s] = lease[s] \/ torn(s)
    <3>1. /\ call[c].state \in States /\ lock[call[c].state] = a
          /\ Leased(call[c].state) \subseteq lost \cup {call[c].handle} /\ call[c].handle # NoPid
      BY <2>2, Basics DEF IInv, CallFits, InEnsure, Locked
    <3>2. call[c].handle \in InHand(a)
      BY <2>2, <3>1 DEF InHand, A
    <3> QED BY <1>0, <2>2, <3>1, <3>2, Basics DEF Types
  <2> QED BY <2>1, <2>2
<1>2. /\ app' = [app EXCEPT ![a] = "ended"] /\ lifecycle' = [lifecycle EXCEPT ![a] = None]
      /\ held' = [held EXCEPT ![a] = None] /\ child' = [child EXCEPT ![a] = NoPid]
      /\ path' = [path EXCEPT ![a] = None] /\ cache' = [cache EXCEPT ![a] = NoStatus]
      /\ lock' = [s \in States |-> IF lock[s] = a THEN None ELSE lock[s]]
      /\ auth' = [s \in States |-> IF auth[s] \in Callers /\ call[auth[s]].app = a
                                   THEN "left" ELSE auth[s]]
      /\ lost' = lost \cup {p \in InHand(a) \cap Daemons :
                              lease'[proc[p].state] # Written(p, proc[p].app)}
      /\ call' = [c \in Callers |-> IF call[c].app = a THEN Idle ELSE call[c]]
      /\ UNCHANGED <<loggedIn, proc, calls>> /\ Daemons' = Daemons
  BY DEF EndProcess, A, Daemons
<1>3. Types'
  <2>1. /\ app' \in [Apps -> {"new", "up", "ended"}] /\ lifecycle' \in [Apps -> Callers \cup {None}]
        /\ held' \in [Apps -> Callers \cup {None}] /\ child' \in [Apps -> 0 .. MaxPid]
        /\ path' \in [Apps -> States \cup {None}] /\ cache' \in [Apps -> Statuses]
    BY <1>0, <1>2, Basics DEF Types
  <2>2. /\ lock' \in [States -> Apps \cup {None}] /\ auth' \in [States -> Callers \cup {None, "left"}]
        /\ call' \in [Callers -> Calls]
    BY <1>0, <1>2, IdleFits DEF Types
  <2> QED BY <1>0, <1>1, <1>2, <2>1, <2>2 DEF Types
<1>4. ASSUME NEW d \in Callers PROVE CallFits(d)'
  <2>1. CASE call[d].app = a
    <3>1. call'[d] = Idle
      BY <1>2, <2>1
    <3> QED BY <3>1, IdleFits DEF CallFits, Inner, InLife, InEnsure, Locked, Started
  <2>2. CASE call[d].app # a
    <3>1. call'[d] = call[d] /\ CallFits(d)
      BY <1>2, <2>2 DEF IInv
    <3>2. ASSUME call[d].app \in Apps
          PROVE  /\ app'[call[d].app] = app[call[d].app]
                 /\ lifecycle'[call[d].app] = lifecycle[call[d].app]
                 /\ held'[call[d].app] = held[call[d].app] /\ child'[call[d].app] = child[call[d].app]
      BY <1>0, <1>2, <2>2, <3>2 DEF Types
    <3>3. ASSUME call[d].pc \in Locked
          PROVE  /\ lock'[call[d].state] = call[d].app
                 /\ lease'[call[d].state] = lease[call[d].state]
      <4>1. call[d].state \in States /\ lock[call[d].state] = call[d].app
        BY <3>1, <3>3 DEF CallFits, InEnsure, Locked
      <4> QED BY <1>1, <1>2, <2>2, <4>1
    <3>4. ASSUME call[d].pc \in {"spawn", "lease"}
          PROVE  Leased(call[d].state)' \subseteq lost' \cup {call[d].handle}
      <4>1. lease'[call[d].state] = lease[call[d].state]
            /\ Leased(call[d].state) \subseteq lost \cup {call[d].handle}
        BY <3>1, <3>3, <3>4 DEF CallFits, Locked
      <4>2. Leased(call[d].state)' = Leased(call[d].state) /\ lost \subseteq lost'
        BY <1>2, <3>1, <4>1 DEF Leased
      <4> QED BY <4>1, <4>2
    <3> HIDE DEF torn
    <3> QED BY <1>2, <3>1, <3>2, <3>3, <3>4 DEF CallFits, Inner, InLife, InEnsure, Locked, Started
  <2> QED BY <2>1, <2>2
<1>5. ASSUME NEW b \in Apps PROVE AppFits(b)'
  <2>1. CASE b = a
    BY <1>0, <1>2, <2>1, Basics DEF AppFits, Types
  <2>2. CASE b # a
    <3>1. child'[b] = child[b] /\ path'[b] = path[b] /\ cache'[b] = cache[b] /\ AppFits(b)
      BY <1>0, <1>2, <2>2 DEF IInv, Types
    <3>2. ASSUME child[b] # NoPid
          PROVE  path[b] \in States /\ lock'[path[b]] = b /\ lease'[path[b]] = lease[path[b]]
      BY <1>1, <1>2, <2>2, <3>1, <3>2 DEF AppFits
    <3> QED BY <3>1, <3>2 DEF AppFits
  <2> QED BY <2>1, <2>2
<1>6. ASSUME NEW p \in Pids PROVE DaemonFits(p)'
  <2>1. SUFFICES ASSUME p \in Daemons PROVE DaemonFits(p)'
    BY <1>2 DEF DaemonFits
  <2>2. DaemonFits(p)
    BY DEF IInv
  <2>3. ASSUME NEW d \in Callers, call[d].handle = p
        PROVE  \/ p \in lost' \/ call'[d].handle = p
               \/ lease'[proc[p].state] = Written(p, proc[p].app)
    <3>1. call[d].app = a => p \in InHand(a)
      BY <2>1, <2>3, Basics DEF InHand, A, Daemons
    <3> QED BY <1>2, <2>1, <2>3, <3>1
  <2>4. ASSUME lease[proc[p].state] = Written(p, proc[p].app)
        PROVE  p \in lost' \/ lease'[proc[p].state] = lease[proc[p].state]
    <3>1. proc[p].state \in States /\ p \in Leased(proc[p].state)
      BY <2>1, <2>2, <2>4 DEF DaemonFits, Leased
    <3> QED BY <1>1, <1>2, <2>1, <2>4, <3>1
  <2>5. app'[proc[p].app] = "ended" \/ Owned(p, proc[p].app)'
    <3>1. CASE proc[p].app = a
      BY <1>0, <1>2, <2>1, <2>2, <3>1 DEF Types, DaemonFits
    <3>2. CASE proc[p].app # a
      <4>1. \A d \in Callers : call[d].app = proc[p].app => call'[d] = call[d]
        BY <1>2, <3>2
      <4>2. /\ app'[proc[p].app] = app[proc[p].app] /\ child'[proc[p].app] = child[proc[p].app]
        BY <1>0, <1>2, <2>1, <2>2, <3>2 DEF Types, DaemonFits
      <4> QED BY <1>2, <2>1, <2>2, <4>1, <4>2 DEF DaemonFits, Owned
    <3> QED BY <3>1, <3>2
  <2> QED BY <1>2, <2>1, <2>2, <2>3, <2>4, <2>5 DEF DaemonFits
<1>7. LeasesFit'
  BY <1>1, Basics DEF IInv, LeasesFit
<1>8. AuthFileIsBrief'
  <2>1. ASSUME NEW s \in States, auth'[s] \in Callers
        PROVE  call'[auth'[s]].pc \in {"up", "running", "store"} /\ call'[auth'[s]].state = s
    <3>1. auth'[s] = auth[s] /\ call[auth[s]].app # a
      BY <1>2, <2>1, Basics
    <3>2. call'[auth[s]] = call[auth[s]]
      BY <1>2, <2>1, <3>1
    <3> QED BY <2>1, <3>1, <3>2 DEF IInv, AuthFileIsBrief, S
  <2> QED BY <2>1 DEF AuthFileIsBrief, S
<1> QED BY <1>3, <1>4, <1>5, <1>6, <1>7, <1>8 DEF IInv

LEMMA EndSteps ==
    ASSUME IInv, (\E a \in Apps : Crash(a)) \/ (\E c \in Callers : Exit(c))
    PROVE  IInv'
<1>1. CASE \E a \in Apps : Crash(a)
  <2>1. PICK a \in Apps : Crash(a)
    BY <1>1
  <2> QED BY <2>1, EndKeeps DEF Crash, A, At, S
<1>2. CASE \E c \in Callers : Exit(c)
  <2>1. PICK c \in Callers : Exit(c)
    BY <1>2
  <2>2. call[c].app \in Apps
    BY <2>1 DEF Exit, At, IInv, CallFits
  <2> QED BY <2>1, <2>2, EndKeeps DEF Exit, A
<1> QED BY <1>1, <1>2

\* What happens outside any command.
LEMMA OutsideSteps ==
    ASSUME IInv, \/ \E a \in Apps : Start(a) \/ CacheExpires(a)
                 \/ \E p \in Pids : DaemonDies(p) \/ OtherProcess(p)
    PROVE  IInv'
<1> USE DEF mutexVars, innerVars, fileVars
<1>0. Types
  BY DEF IInv
<1>1. ASSUME NEW a \in Apps, Start(a) \/ CacheExpires(a) PROVE IInv'
  <2>1. /\ UNCHANGED <<lifecycle, held, child, path, lock, lease, auth, loggedIn, proc, lost, call, calls>>
        /\ cache' \in {cache, [cache EXCEPT ![a] = NoStatus]}
        /\ app' = app \/ (app[a] = "new" /\ app' = [app EXCEPT ![a] = "up"])
        /\ Daemons' = Daemons
    BY <1>1 DEF Start, CacheExpires, Daemons
  <2>2. Types'
    <3>1. app' \in [Apps -> {"new", "up", "ended"}] /\ cache' \in [Apps -> Statuses]
      BY <1>0, <1>1, <2>1, Basics DEF Types
    <3> QED BY <1>0, <2>1, <3>1 DEF Types
  <2>7. \A b \in Apps : /\ app[b] = "up" => app'[b] = "up"
                        /\ app[b] = "ended" => app'[b] = "ended"
    BY <1>0, <1>1, <2>1 DEF Types
  <2>3. ASSUME NEW c \in Callers PROVE CallFits(c)'
    <3>1. CallFits(c) /\ (call[c].pc \in InEnsure => call[c].state \in States)
      BY DEF IInv, CallFits
    <3>2. Leased(call[c].state)' = Leased(call[c].state)
      BY <2>1 DEF Leased, Daemons
    <3>3. call'[c] = call[c]
      BY <2>1
    <3>4. call[c].app \in Apps /\ app[call[c].app] = "up" => app'[call[c].app] = "up"
      BY <2>7
    <3> QED BY <2>1, <3>1, <3>2, <3>3, <3>4 DEF CallFits
  <2>4. ASSUME NEW b \in Apps PROVE AppFits(b)'
    <3>1. cache'[b] \in {cache[b], NoStatus}
      BY <1>0, <1>1, <2>1 DEF Types
    <3> QED BY <2>1, <3>1, Basics DEF IInv, AppFits
  <2>5. ASSUME NEW p \in Pids PROVE DaemonFits(p)'
    <3>1. DaemonFits(p)
      BY DEF IInv
    <3>2. \A b : Owned(p, b) => Owned(p, b)'
      BY <2>1 DEF Owned
    <3>3. /\ Daemons' = Daemons /\ proc' = proc /\ lost' = lost /\ lease' = lease /\ call' = call
      BY <2>1
    <3> QED BY <2>7, <3>1, <3>2, <3>3 DEF DaemonFits
  <2>6. LeasesFit' /\ AuthFileIsBrief'
    BY <2>1 DEF IInv, LeasesFit, AuthFileIsBrief, S
  <2> QED BY <2>2, <2>3, <2>4, <2>5, <2>6 DEF IInv
<1>2. ASSUME NEW p \in Pids, DaemonDies(p) \/ OtherProcess(p) PROVE IInv'
  <2>1. /\ UNCHANGED <<app, lifecycle, held, child, path, cache, lock, lease, auth, loggedIn, call, calls>>
        /\ proc' \in {[proc EXCEPT ![p] = Free], [proc EXCEPT ![p] = Other]}
        /\ proc' = [proc EXCEPT ![p] = Free] \/ Available(p)
        /\ lost' = lost \ {p}
    <3>1. CASE OtherProcess(p)
      <4>1. p \notin lost
        BY <1>0, <3>1, Basics DEF OtherProcess, Available, Types, Daemons
      <4> QED BY <3>1, <4>1 DEF OtherProcess
    <3> QED BY <1>2, <3>1 DEF DaemonDies
  <2>2. /\ proc' \in [Pids -> Processes] /\ proc'[p].kind # "daemon"
        /\ \A q \in Pids : q # p => proc'[q] = proc[q]
    BY <1>0, <2>1, Basics DEF Types
  <2>3. Daemons' = Daemons \ {p}
    BY <2>2 DEF Daemons
  <2>4. Types'
    <3>1. lost' \subseteq Daemons'
      BY <1>0, <2>1, <2>3 DEF Types
    <3> QED BY <1>0, <2>1, <2>2, <3>1 DEF Types
  <2>5. ASSUME NEW c \in Callers PROVE CallFits(c)'
    <3>1. ASSUME call[c].pc = "lease"
          PROVE  proc'[call[c].handle] \in {proc[call[c].handle], Free}
      <4>1. call[c].handle \in Pids
        BY <3>1 DEF IInv, CallFits
      <4> QED BY <1>0, <2>1, <4>1 DEF Available, Types
    <3>2. \A s \in States : Leased(s)' \subseteq Leased(s) \ {p}
      BY <2>1, <2>2, <2>3 DEF Leased, Daemons
    <3> QED BY <2>1, <3>1, <3>2 DEF IInv, CallFits, InEnsure, Locked
  <2>6. ASSUME NEW a \in Apps PROVE AppFits(a)'
    BY <2>1 DEF IInv, AppFits
  <2>7. ASSUME NEW q \in Pids PROVE DaemonFits(q)'
    BY <2>1, <2>2, <2>3 DEF IInv, DaemonFits, Owned
  <2>8. LeasesFit' /\ AuthFileIsBrief'
    BY <2>1 DEF IInv, LeasesFit, AuthFileIsBrief, S
  <2> QED BY <2>4, <2>5, <2>6, <2>7, <2>8 DEF IInv
<1> QED BY <1>1, <1>2

-----------------------------------------------------------------------------
(* The invariant *)

LEMMA InitKeeps == Init => IInv
<1> SUFFICES ASSUME Init PROVE IInv
  OBVIOUS
<1>1. Types
  BY Basics, IdleFits DEF Init, Types, Daemons
<1>2. ASSUME NEW c \in Callers PROVE CallFits(c)
  <2>1. call[c] = Idle
    BY DEF Init
  <2> QED BY <2>1, IdleFits DEF CallFits, Inner, InLife, InEnsure, Locked, Started
<1>3. ASSUME NEW a \in Apps PROVE AppFits(a)
  BY Basics DEF Init, AppFits
<1>4. ASSUME NEW p \in Pids PROVE DaemonFits(p)
  BY Basics DEF Init, DaemonFits, Daemons
<1>5. LeasesFit /\ AuthFileIsBrief
  BY Basics DEF Init, LeasesFit, AuthFileIsBrief
<1> QED BY <1>1, <1>2, <1>3, <1>4, <1>5 DEF IInv

LEMMA StepKeeps ==
    ASSUME IInv, NEW c \in Callers, Step(c)
    PROVE  IInv'
<1>1. CASE LeaseUnreadable(c) \/ ReadLease(c) \/ write_auth_file(c) \/ up_with_auth_key_file(c) \/ wait_until_running(c)
  BY <1>1, OnwardSteps
<1>2. CASE ChildIsLive(c)
  BY <1>2, OnwardSteps, FailSteps
<1>3. CASE cached_status(c)
  BY <1>3, OnwardSteps, ReturnSteps
<1>4. CASE wait_until_reachable(c)
  BY <1>4, OnwardSteps, FailSteps
<1>5. CASE Inspect(c)
  BY <1>5, OnwardSteps, ForgetSteps
<1>6. CASE End(c) \/ Query(c)
  BY <1>6, QuietSteps
<1>7. CASE StateDirectoryFails(c) \/ CleanupFails(c) \/ SpawnFails(c) \/ EnsureFails(c)
  BY <1>7, FailSteps
<1>8. CASE acquire_state_lock(c)
  BY <1>8, FailSteps, TakeSteps
<1>9. CASE LeaseFails(c) \/ cache_status(c)
  BY <1>9, LeaseFailsKeeps, ReturnSteps
<1>10. CASE NothingStale(c) \/ InspectFails(c) \/ KillStale(c)
  BY <1>10, ForgetSteps
<1>11. CASE ensure(c) \/ Spawn(c)
  BY <1>11, TakeSteps
<1>12. CASE ChildIsDead(c) \/ write_runtime_lease(c) \/ StoreAnswer(c)
  BY <1>12, ChildIsDeadKeeps, LeaseKeeps, StoreAnswerKeeps
<1>13. CASE shutdown(c) \/ RemoveLease(c) \/ StopChild(c)
  BY <1>13, ShutdownKeeps, RemoveLeaseKeeps, StopChildKeeps
<1>14. CASE Exit(c)
  BY <1>14, EndSteps
<1> QED BY <1>1, <1>2, <1>3, <1>4, <1>5, <1>6, <1>7, <1>8, <1>9, <1>10, <1>11, <1>12, <1>13,
           <1>14 DEF Step

LEMMA NextKeeps ==
    ASSUME IInv, [Next]_vars
    PROVE  IInv'
<1>1. CASE UNCHANGED vars
  <2>1. UNCHANGED <<app, lifecycle, held, child, path, cache, lock, lease, auth, loggedIn, proc,
                    lost, call, calls>>
    BY <1>1 DEF vars, mutexVars, innerVars, fileVars
  <2> QED BY <2>1 DEF IInv, Types, Daemons, Leased, CallFits, AppFits, DaemonFits, Owned, LeasesFit,
                      AuthFileIsBrief, S
<1>2. CASE \E a \in Apps : Crash(a)
  BY <1>2, EndSteps
<1>3. CASE (\E a \in Apps : Start(a) \/ CacheExpires(a))
           \/ (\E p \in Pids : DaemonDies(p) \/ OtherProcess(p))
  BY <1>3, OutsideSteps
<1>4. CASE \E c \in Callers : prepare_host_network(c) \/ status_for_config(c) \/ Quit(c) \/ Step(c)
  BY <1>4, StartsKeep, StepKeeps
<1> QED BY <1>1, <1>2, <1>3, <1>4 DEF Next

\* What every command, process and daemon may rely on holds throughout,
\* whatever interleaving, crash, unreadable lease or reuse of process ids
\* (TailscaleRuntime).
THEOREM RuntimeInvariant == Spec => []IInv
<1>1. Init => IInv
  BY InitKeeps
<1>2. IInv /\ [Next]_vars => IInv'
  BY NextKeeps
<1> QED BY <1>1, <1>2, PTL DEF Spec

\* Two live daemons of one state: both are leased, or both in the hands of the
\* command that holds the lock of the state.
LEMMA OneDaemon == IInv => OneDaemonPerState
<1> SUFFICES ASSUME IInv, NEW p \in Daemons, NEW q \in Daemons, proc[p].state = proc[q].state,
                    {p, q} \cap (lost \cup Stopping) = {}
             PROVE  p = q
  BY DEF OneDaemonPerState
<1> DEFINE s == proc[p].state
<1>1. /\ p \in Pids /\ q \in Pids /\ DaemonFits(p) /\ DaemonFits(q) /\ s \in States
      /\ proc[p].kind = "daemon" /\ proc[q].kind = "daemon" /\ p # NoPid /\ q # NoPid
  BY Basics DEF IInv, Daemons, DaemonFits
<1>2. ASSUME NEW c \in Callers, call[c].handle \in {p, q}
      PROVE  /\ call[c].state = s /\ lock[s] = call[c].app /\ lifecycle[call[c].app] = c
             /\ Leased(s) \subseteq lost \cup {call[c].handle}
  <2>1. CallFits(c) /\ call[c].handle # NoPid
    BY <1>1, <1>2 DEF IInv
  <2>2. call[c].pc = "lease"
    <3>1. call[c].pc \in {"unlease", "stop"} => call[c].handle \in Stopping
      BY DEF Stopping, At
    <3> QED BY <1>2, <2>1, <3>1 DEF CallFits
  <2>3. call[c].state \in States /\ call[c].app \in Apps
    BY <2>1, <2>2 DEF CallFits, InEnsure, Locked
  <2>4. proc[call[c].handle] = Daemon(call[c].state, call[c].app)
    BY <1>1, <1>2, <2>1, <2>2, Basics DEF CallFits
  <2>5. call[c].state = s
    BY <1>2, <2>3, <2>4, DaemonIsTyped
  <2> QED BY <2>1, <2>2, <2>5 DEF CallFits, InLife, InEnsure, Locked
<1>3. \A r \in {p, q} : (\E c \in Callers : call[c].handle = r) \/ r \in Leased(s)
  BY <1>1 DEF DaemonFits, Leased
<1>4. CASE p \in Leased(s) /\ q \in Leased(s)
  BY <1>4 DEF Leased, Written
<1>5. CASE \E c \in Callers : call[c].handle \in {p, q}
  <2>1. PICK c \in Callers : call[c].handle \in {p, q}
    BY <1>5
  <2>2. ASSUME NEW r \in {p, q} PROVE r = call[c].handle
    <3>1. CASE r \in Leased(s)
      BY <1>2, <2>1, <3>1
    <3>2. ASSUME NEW d \in Callers, call[d].handle = r PROVE d = c
      BY <1>2, <2>1, <3>2
    <3> QED BY <1>3, <3>1, <3>2
  <2> QED BY <2>2
<1> QED BY <1>3, <1>4, <1>5

\* At most one daemon works on a state and every orphan is found again, outside
\* the windows that fill lost (the failing read and the failing inspection of a
\* lease among them), a key file never outlives its ensure, and what ensure has
\* cached was said by the present child: acquire_state_lock, cleanup_stale_
\* daemon, write_runtime_lease, AuthFileGuard and the mutexes of
\* TailscaleRuntime, for every number of processes and states.
THEOREM RuntimeIsSound == Spec => []RuntimeInv
<1>1. IInv => RuntimeInv
  <2> SUFFICES ASSUME IInv PROVE RuntimeInv
    OBVIOUS
  <2>1. TypeOK
    <3>1. \A a \in Apps : child[a] # NoPid => path[a] # None /\ lock[path[a]] = a
      BY Basics DEF IInv, AppFits
    <3> QED BY <3>1 DEF IInv, Types, TypeOK, Calls
  <2>2. OneDaemonPerState
    BY OneDaemon
  <2>3. OrphanIsLeased
    <3>1. ASSUME NEW p \in Daemons
          PROVE  \/ p \in lost \/ \E c \in Callers : call[c].handle = p
                 \/ lease[proc[p].state] = Written(p, proc[p].app)
      BY <3>1 DEF IInv, Daemons, DaemonFits
    <3> QED BY <3>1 DEF OrphanIsLeased
  <2>4. EnsuredIsOfThisChild
    BY DEF IInv, EnsuredIsOfThisChild, AppFits, CallFits, At
  <2> QED BY <2>1, <2>2, <2>3, <2>4 DEF IInv, RuntimeInv
<1> QED BY <1>1, RuntimeInvariant, PTL

\* taskkill is only used after the process with the leased id was seen to be a
\* daemon of this state, and never on the child of a process that holds the
\* state (cleanup_stale_daemon under the lock of acquire_state_lock).
THEOREM KillsAreJustified == Spec => KillIsJustified
<1> DEFINE Justified == \A c \in Callers : KillStale(c) =>
              LET p == call[c].lease.pid IN
              /\ call[c].seen.kind = "daemon" /\ call[c].seen.state = S(c)
              /\ \A a \in Apps : child[a] = p => path[a] # S(c)
<1>1. IInv => Justified
  <2> SUFFICES ASSUME IInv, NEW c \in Callers, KillStale(c)
               PROVE  /\ call[c].seen.kind = "daemon" /\ call[c].seen.state = call[c].state
                      /\ \A a \in Apps : child[a] = call[c].lease.pid => path[a] # call[c].state
    BY DEF S
  <2>1. /\ CallFits(c) /\ call[c].pc = "kill" /\ call[c].lease.pid \in Pids
        /\ lock[call[c].state] = call[c].app /\ child[call[c].app] = NoPid
    BY DEF IInv, KillStale, At, CallFits, Inner, Locked
  <2>2. ASSUME NEW a \in Apps, child[a] = call[c].lease.pid
        PROVE  path[a] # call[c].state
    <3>1. child[a] # NoPid /\ lock[path[a]] = a
      BY <2>1, <2>2, Basics DEF IInv, AppFits
    <3> QED BY <2>1, <3>1
  <2> QED BY <2>1, <2>2 DEF CallFits
<1>2. IInv => [Justified]_vars
  BY <1>1
<1> HIDE DEF Justified
<1>3. KillIsJustified <=> [][Justified]_vars
  BY DEF KillIsJustified, Justified
<1> QED BY <1>2, <1>3, RuntimeInvariant, PTL
=============================================================================
