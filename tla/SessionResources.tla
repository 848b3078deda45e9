-------------------------- MODULE SessionResources --------------------------
(***************************************************************************)
(* What a session keeps besides its transport: split panes, the SFTP       *)
(* subsystem, the transfer manager and the herdr bridges of session.rs,    *)
(* each on a channel of the transport it was opened over (open_pty,        *)
(* exec_owned, sftp and run_command of connection.rs), and the filter that *)
(* keeps the channels which are no terminals out of the event stream       *)
(* (handler.rs).  Every operation reads the connection, awaits, and        *)
(* installs what it got; attach and disconnect come in between.            *)
(*                                                                         *)
(* Channels are numbered over all transports, so that a number names one   *)
(* channel; tunnels are TunnelManager's, here only opened or refused.      *)
(***************************************************************************)
EXTENDS Integers, FiniteSets

CONSTANTS
    Callers,        \* concurrent calls of the session's API
    MaxPanes,       \* MAX_PANES_PER_HOST
    MaxChannels,    \* bound on the channels opened
    MaxGeneration   \* bound on the transports

ASSUME ResourceAssumption ==
    /\ MaxPanes \in Nat \ {0}
    /\ MaxChannels \in Nat
    /\ MaxGeneration \in Nat

Channels == 1 .. MaxChannels
PaneIds == 0 .. MaxChannels
None == 0

VARIABLES
    connection,  \* session.connection: a generation, None when there is none
    generation,  \* controller.generation()
    opened,      \* number of channels opened so far
    transport,   \* the generation a channel belongs to
    kind,        \* what a channel was opened for
    remote,      \* whether the server still has the channel
    filtered,    \* filtered_channels of the transports
    panes,       \* session.panes: pane id, channel
    next_pane,   \* session.next_pane
    sftp,        \* session.sftp: the channel of the subsystem
    transfers,   \* session.transfers: the channel its manager works on, and whose
    bridges,     \* session.herdr_bridges: the owners' channels
    call,        \* the call a caller is in
    shown,       \* history: the pairs open_pane has returned
    typed,       \* history: the last input, the channel it was meant for and took it
    issued,      \* history: managers returned since the slot was last emptied
    released     \* open channels whose owner let go of them on purpose, and the
                 \* owners of bridges that wait to be closed

hostVars == <<connection, generation>>
channelVars == <<opened, transport, kind, remote, filtered>>
cellVars == <<panes, next_pane, sftp, transfers, bridges>>
historyVars == <<shown, typed, issued, released>>
vars == <<hostVars, channelVars, cellVars, call, historyVars>>

Kinds == {"none", "pty", "exec", "sftp", "command"}
Idle == [op |-> "idle", pc |-> "idle", conn |-> None, channel |-> None]
NoSlot == [channel |-> None, maker |-> None]

Init ==
    /\ connection = None
    /\ generation = 0
    /\ opened = 0
    /\ transport = [c \in Channels |-> 0]
    /\ kind = [c \in Channels |-> "none"]
    /\ remote = [c \in Channels |-> FALSE]
    /\ filtered = {}
    /\ panes = {}
    /\ next_pane = 0
    /\ sftp = None
    /\ transfers = NoSlot
    /\ bridges = {}
    /\ call = [u \in Callers |-> Idle]
    /\ shown = {}
    /\ typed = <<None, None>>
    /\ issued = {}
    /\ released = {}

Goto(u, pc) == call' = [call EXCEPT ![u].pc = pc]
Return(u) == call' = [call EXCEPT ![u] = Idle]

\* An operation starts by cloning the connection out of the session.
Start(u, op) ==
    /\ call[u].pc = "idle"
    /\ connection # None
    /\ call' = [call EXCEPT ![u] = [op |-> op, pc |-> "opening", conn |-> connection, channel |-> None]]
    /\ UNCHANGED <<hostVars, channelVars, cellVars, historyVars>>

\* Owners let go of channels: what the server has closed needs no more care,
\* except the owner of a bridge, whose handle somebody still has to drop.
Release(cs) == released' = released \cup {c \in cs : remote[c] \/ kind[c] = "exec"}

-----------------------------------------------------------------------------
(* Channels of a transport *)

\* What a caller opens a channel for.
KindOf(op) == CASE op = "pane" -> "pty" [] op = "bridge" -> "exec"
                [] op \in {"sftp", "manager"} -> "sftp" [] op = "command" -> "command"

\* The server grants a channel; only run_command filters it in the same breath.
ChannelOpened(u) ==
    LET c == opened + 1
        k == KindOf(call[u].op)
    IN  /\ call[u].pc = "opening"
        /\ opened < MaxChannels
        /\ opened' = c
        /\ transport' = [transport EXCEPT ![c] = call[u].conn]
        /\ kind' = [kind EXCEPT ![c] = k]
        /\ remote' = [remote EXCEPT ![c] = TRUE]
        /\ filtered' = IF k = "command" THEN filtered \cup {c} ELSE filtered
        /\ call' = [call EXCEPT ![u].channel = c,
               ![u].pc = CASE k = "pty" -> "inserting" [] k = "command" -> "running"
                           [] OTHER -> "filtering"]
        /\ UNCHANGED <<hostVars, cellVars, historyVars>>

\* The transport or the server refuses: the operation returns the error.
OpenFails(u) ==
    /\ call[u].pc = "opening"
    /\ Return(u)
    /\ UNCHANGED <<hostVars, channelVars, cellVars, historyVars>>

\* exec_owned and sftp enter the channel in the filter after its request was
\* sent; the server may have closed it by then.
FilterChannel(u) ==
    /\ call[u].pc = "filtering"
    /\ filtered' = filtered \cup {call[u].channel}
    /\ Goto(u, "starting")
    /\ UNCHANGED <<hostVars, opened, transport, kind, remote, cellVars, historyVars>>

\* Mutant: the entry of a channel the server has closed is kept.
release_filtered_channelMutant(c) == filtered' = IF remote[c] THEN filtered \ {c} ELSE filtered

release_filtered_channel(c) == filtered' = filtered \ {c}

\* channel_close of the handler: the entry of the filter is reaped.
ChannelClosed(c) ==
    /\ remote[c]
    /\ remote' = [remote EXCEPT ![c] = FALSE]
    /\ filtered' = filtered \ {c}
    /\ released' = IF kind[c] = "exec" THEN released ELSE released \ {c}
    /\ UNCHANGED <<hostVars, opened, transport, kind, cellVars, call, shown, typed, issued>>

\* The guard of run_command removes the entry however the command ended.
CommandEnds(u) ==
    /\ call[u].pc = "running"
    /\ release_filtered_channel(call[u].channel)
    /\ Release({call[u].channel})
    /\ Return(u)
    /\ UNCHANGED <<hostVars, opened, transport, kind, remote, cellVars, shown, typed, issued>>

-----------------------------------------------------------------------------
(* Panes *)

\* Mutant: the limit is not checked again after the await.
InsertPaneMutant(u) ==
    /\ call[u].pc = "inserting"
    /\ panes' = panes \cup {<<next_pane, call[u].channel>>}
    /\ next_pane' = next_pane + 1
    /\ shown' = shown \cup {<<next_pane, call[u].channel>>}
    /\ Return(u)
    /\ UNCHANGED <<hostVars, channelVars, sftp, transfers, bridges, typed, issued, released>>

\* The id is taken first; the limit is checked under the lock of the panes.
InsertPane(u) ==
    /\ call[u].pc = "inserting"
    /\ next_pane' = next_pane + 1
    /\ IF Cardinality(panes) >= MaxPanes
       THEN Goto(u, "rejecting") /\ UNCHANGED <<panes, shown>>
       ELSE /\ panes' = panes \cup {<<next_pane, call[u].channel>>}
            /\ shown' = shown \cup {<<next_pane, call[u].channel>>}
            /\ Return(u)
    /\ UNCHANGED <<hostVars, channelVars, sftp, transfers, bridges, typed, issued, released>>

\* A PTY over the limit is closed before the error is returned.
RejectPane(u) ==
    /\ call[u].pc = "rejecting"
    /\ remote' = [remote EXCEPT ![call[u].channel] = FALSE]
    /\ Return(u)
    /\ UNCHANGED <<hostVars, opened, transport, kind, filtered, cellVars, historyVars>>

\* close_pane only drops the handle.
close_pane(p) ==
    /\ p \in panes
    /\ panes' = panes \ {p}
    /\ Release({p[2]})
    /\ UNCHANGED <<hostVars, channelVars, next_pane, sftp, transfers, bridges, call, shown, typed, issued>>

\* send_input looks the id up that open_pane gave to the renderer.
send_input(shownPane) ==
    \E p \in panes :
        /\ p[1] = shownPane[1]
        /\ typed' = <<shownPane[2], p[2]>>
        /\ UNCHANGED <<hostVars, channelVars, cellVars, call, shown, issued, released>>

-----------------------------------------------------------------------------
(* SFTP and transfers *)

\* The subsystem answers the version exchange over an open channel.
SftpStarts(u) ==
    /\ call[u].pc = "starting" /\ kind[call[u].channel] = "sftp"
    /\ remote[call[u].channel]
    /\ Goto(u, "installing")
    /\ UNCHANGED <<hostVars, channelVars, cellVars, historyVars>>

\* It does not: the filter entry goes and the stream closes its channel.
SftpFails(u) ==
    /\ call[u].pc = "starting" /\ kind[call[u].channel] = "sftp"
    /\ release_filtered_channel(call[u].channel)
    /\ remote' = [remote EXCEPT ![call[u].channel] = FALSE]
    /\ Return(u)
    /\ UNCHANGED <<hostVars, opened, transport, kind, cellVars, historyVars>>

\* The session keeps the first subsystem installed; a loser of the race uses
\* that one and drops its own.
InstallSftp(u) ==
    /\ call[u].pc = "installing"
    /\ IF sftp = None
       THEN sftp' = call[u].channel /\ UNCHANGED released
       ELSE Release({call[u].channel}) /\ UNCHANGED sftp
    /\ IF call[u].op = "manager"
       THEN call' = [call EXCEPT ![u].pc = "managing", ![u].channel = sftp']
       ELSE Return(u)
    /\ UNCHANGED <<hostVars, channelVars, panes, next_pane, transfers, bridges, shown, typed, issued>>

\* sftp_manager goes on with the subsystem the session already has.
ReuseSftp(u) ==
    /\ call[u].pc = "opening" /\ call[u].op = "manager"
    /\ sftp # None
    /\ call' = [call EXCEPT ![u].pc = "managing", ![u].channel = sftp]
    /\ UNCHANGED <<hostVars, channelVars, cellVars, historyVars>>

\* Mutant: the later manager replaces the earlier one.
InstallManagerMutant(u) ==
    LET made == [channel |-> call[u].channel, maker |-> u] IN
    /\ call[u].pc = "managing"
    /\ transfers' = made
    /\ issued' = issued \cup {made}
    /\ Return(u)
    /\ UNCHANGED <<hostVars, channelVars, panes, next_pane, sftp, bridges, shown, typed, released>>

\* A manager and its pump are made for the subsystem; the slot is looked at
\* again, and the manager another call put there meanwhile is returned.
InstallManager(u) ==
    LET made == [channel |-> call[u].channel, maker |-> u]
        kept == IF transfers = NoSlot THEN made ELSE transfers
    IN  /\ call[u].pc = "managing"
        /\ transfers' = kept
        /\ issued' = issued \cup {kept}
        /\ Return(u)
        /\ UNCHANGED <<hostVars, channelVars, panes, next_pane, sftp, bridges, shown, typed, released>>

-----------------------------------------------------------------------------
(* Bridges *)

\* socat outlived the grace period of ensure_running; open_tunnel reads the
\* connection anew.
OwnerRuns(u) ==
    /\ call[u].pc = "starting" /\ kind[call[u].channel] = "exec"
    /\ connection # None
    /\ Goto(u, "tunnelling")
    /\ UNCHANGED <<hostVars, channelVars, cellVars, historyVars>>

\* The owner is closed and its handle dropped, which releases the filter.
CloseOwner(c) ==
    /\ remote' = [remote EXCEPT ![c] = FALSE]
    /\ release_filtered_channel(c)

\* Mutant: a failing tunnel leaves the owner of the bridge open.
OwnerFailsMutant(u) ==
    /\ call[u].pc \in {"starting", "tunnelling"} /\ kind[call[u].channel] = "exec"
    /\ IF call[u].pc = "starting" THEN CloseOwner(call[u].channel)
       ELSE release_filtered_channel(call[u].channel) /\ UNCHANGED remote
    /\ \/ Return(u)
       \/ call' = [call EXCEPT ![u].pc = "opening", ![u].channel = None]
    /\ UNCHANGED <<hostVars, opened, transport, kind, cellVars, historyVars>>

\* socat exited during startup, or the tunnel could not be opened: the owner
\* is closed and the next port is tried, or the last error is returned.
OwnerFails(u) ==
    /\ call[u].pc \in {"starting", "tunnelling"} /\ kind[call[u].channel] = "exec"
    /\ CloseOwner(call[u].channel)
    /\ \/ Return(u)
       \/ call' = [call EXCEPT ![u].pc = "opening", ![u].channel = None]
    /\ UNCHANGED <<hostVars, opened, transport, kind, cellVars, historyVars>>

\* The tunnel is open and the bridge is registered, whatever has become of the
\* connection meanwhile.
InstallBridge(u) ==
    /\ call[u].pc = "tunnelling"
    /\ bridges' = bridges \cup {call[u].channel}
    /\ Return(u)
    /\ UNCHANGED <<hostVars, channelVars, panes, next_pane, sftp, transfers, historyVars>>

\* herdr_bridge_stop_by_id takes the bridge out of the table; its tunnel is
\* closed before its owner.
StopBridge(u, b) ==
    /\ call[u].pc = "idle"
    /\ b \in bridges
    /\ bridges' = bridges \ {b}
    /\ call' = [call EXCEPT ![u] = [Idle EXCEPT !.op = "stop", !.pc = "stopping", !.channel = b]]
    /\ UNCHANGED <<hostVars, channelVars, panes, next_pane, sftp, transfers, historyVars>>

\* The owner of a stopped bridge is closed.
StopOwner(u) ==
    /\ call[u].pc = "stopping"
    /\ CloseOwner(call[u].channel)
    /\ Return(u)
    /\ UNCHANGED <<hostVars, opened, transport, kind, cellVars, historyVars>>

\* attach and disconnect close the owners of the bridges they took out.
CloseReleasedOwner(c) ==
    /\ c \in released /\ kind[c] = "exec"
    /\ CloseOwner(c)
    /\ released' = released \ {c}
    /\ UNCHANGED <<hostVars, opened, transport, kind, cellVars, call, shown, typed, issued>>

-----------------------------------------------------------------------------
(* The transport is replaced or closed *)

\* What the session itself holds on to.
Held == {p[2] : p \in panes} \cup bridges \cup ({sftp} \ {None})

\* Mutant: the ids of panes start again.
AttachMutant ==
    /\ generation < MaxGeneration
    /\ generation' = generation + 1
    /\ connection' = generation + 1
    /\ panes' = {} /\ sftp' = None /\ transfers' = NoSlot /\ bridges' = {}
    /\ next_pane' = 0
    /\ issued' = {}
    /\ Release(Held)
    /\ UNCHANGED <<channelVars, call, shown, typed>>

\* attach installs the connection of the next generation and empties the cells;
\* the owners of bridges are closed by a task of their own.
Attach ==
    /\ generation < MaxGeneration
    /\ generation' = generation + 1
    /\ connection' = generation + 1
    /\ panes' = {} /\ sftp' = None /\ transfers' = NoSlot /\ bridges' = {}
    /\ issued' = {}
    /\ Release(Held)
    /\ UNCHANGED <<channelVars, next_pane, call, shown, typed>>

\* disconnect takes the connection first ...
DisconnectTake ==
    /\ connection # None
    /\ connection' = None
    /\ UNCHANGED <<generation, channelVars, cellVars, call, historyVars>>

\* ... and empties the cells after the transport was closed.
DisconnectClear ==
    /\ connection = None
    /\ Held # {} \/ transfers # NoSlot
    /\ panes' = {} /\ sftp' = None /\ transfers' = NoSlot /\ bridges' = {}
    /\ issued' = {}
    /\ Release(Held)
    /\ UNCHANGED <<hostVars, channelVars, next_pane, call, shown, typed>>

-----------------------------------------------------------------------------
CallStep(u) ==
    \/ ChannelOpened(u) \/ OpenFails(u) \/ FilterChannel(u) \/ CommandEnds(u)
    \/ InsertPane(u) \/ RejectPane(u)
    \/ SftpStarts(u) \/ SftpFails(u) \/ InstallSftp(u) \/ ReuseSftp(u) \/ InstallManager(u)
    \/ OwnerRuns(u) \/ OwnerFails(u) \/ InstallBridge(u) \/ StopOwner(u)

\* The entry points; a filled cell is returned at once.
open_pane(u) == Start(u, "pane")
run_remote(u) == Start(u, "command")
herdr_bridge(u) == Start(u, "bridge")
sftp_session(u) == sftp = None /\ Start(u, "sftp")
sftp_manager(u) == transfers = NoSlot /\ Start(u, "manager")

StartCall(u) ==
    \/ open_pane(u) \/ run_remote(u) \/ herdr_bridge(u)
    \/ sftp_session(u) \/ sftp_manager(u)
    \/ \E b \in bridges : StopBridge(u, b)

Next ==
    \/ \E u \in Callers : StartCall(u) \/ CallStep(u)
    \/ \E p \in panes : close_pane(p)
    \/ \E p \in shown : send_input(p)
    \/ \E c \in Channels : ChannelClosed(c) \/ CloseReleasedOwner(c)
    \/ Attach \/ DisconnectTake \/ DisconnectClear

Spec == Init /\ [][Next]_vars

-----------------------------------------------------------------------------
(* Properties *)

\* Channels a call in progress answers for.
InHand == {call[u].channel : u \in {v \in Callers : call[v].op # "manager" \/ call[v].pc # "managing"}}

\* Every variable keeps its type, and a host never has more panes than
\* MAX_PANES_PER_HOST, however many open_pane calls overlap.
TypeOK ==
    /\ connection \in 0 .. MaxGeneration
    /\ generation \in 0 .. MaxGeneration
    /\ opened \in 0 .. MaxChannels
    /\ transport \in [Channels -> 0 .. MaxGeneration]
    /\ kind \in [Channels -> Kinds]
    /\ remote \in [Channels -> BOOLEAN]
    /\ filtered \subseteq Channels
    /\ panes \subseteq PaneIds \X Channels /\ Cardinality(panes) <= MaxPanes
    /\ next_pane \in PaneIds
    /\ sftp \in Channels \cup {None}
    /\ bridges \subseteq Channels
    /\ shown \subseteq PaneIds \X Channels
    /\ typed \in (Channels \cup {None}) \X (Channels \cup {None})
    /\ released \subseteq Channels

\* Input reaches the terminal it was meant for or none: a renderer that still
\* shows a pane of an earlier transport cannot type into a terminal opened
\* later, since attach empties the panes but keeps counting their ids.
InputReachesItsTerminal == typed[1] = typed[2]

\* All callers of sftp_manager that returned since the slot was emptied got
\* the same manager, so pause, resume and cancel reach the manager that runs
\* the transfer.
OneManagerPerSlot == Cardinality(issued) <= 1 /\ (transfers # NoSlot => issued \subseteq {transfers})

\* Nothing is left open on the server that nobody can close: a channel is in
\* the hands of a call, kept by the session, or was let go on purpose; error
\* paths of open_pane, sftp and herdr_bridge close what they opened.
NoOrphanChannel ==
    \A c \in Channels : remote[c] => c \in InHand \cup Held \cup released

\* A channel the server closed and no owner holds any more has left the filter,
\* also when the close came before the entry was made: the filter cannot
\* silence a later terminal or grow for the life of a transport.
FilterIsReaped ==
    \A c \in filtered : remote[c] \/ c \in InHand \/ (kind[c] = "exec" /\ c \in Held \cup released)

\* What panes, the transfer slot and the event filter owe each other although
\* calls install them after an await: bounded panes, input that reaches its own
\* terminal, one manager per slot, a filter without leftovers.
ResourceInv ==
    /\ TypeOK
    /\ InputReachesItsTerminal
    /\ OneManagerPerSlot
    /\ FilterIsReaped
=============================================================================
