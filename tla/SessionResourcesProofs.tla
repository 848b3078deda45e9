------------------------ MODULE SessionResourcesProofs ------------------------
(***************************************************************************)
(* Panes, subsystems, managers and bridges are sound for any callers, any  *)
(* limit of panes and any number of channels and transports.               *)
(*                                                                         *)
(* ResourceInv and NoOrphanChannel are inductive only together with what a *)
(* call between two of its awaits may rely on: that the channel it opened  *)
(* is its own and of its kind, that a subsystem which answered is filtered *)
(* only while it is open, and that pane ids are counted, not reused.       *)
(***************************************************************************)
EXTENDS SessionResources, TLAPS, FiniteSetTheorems

Ops == {"idle", "pane", "command", "bridge", "sftp", "manager", "stop"}
Fresh == {"filtering", "starting", "installing", "running", "inserting", "rejecting", "tunnelling"}
Calls == [op : Ops, pc : Fresh \cup {"idle", "opening", "managing", "stopping"},
          conn : 0 .. MaxGeneration, channel : Channels \cup {None}]

\* A call holds a channel once it was opened, of the kind its step is about;
\* what a call opened itself no other call opened.
CallsFit ==
    /\ call \in [Callers -> Calls]
    /\ \A u \in Callers :
          /\ call[u].pc \in Fresh \cup {"opening"} => call[u].op \in Ops \ {"idle", "stop"}
          /\ IF call[u].pc \in {"idle", "opening"} THEN call[u].channel = None
             ELSE call[u].channel \in Channels
          /\ call[u].pc = "managing" => call[u].op = "manager"
          /\ call[u].pc \in Fresh => call[u].channel <= opened
          /\ call[u].pc \in {"filtering", "starting"} => kind[call[u].channel] \in {"exec", "sftp"}
          /\ call[u].pc \in {"inserting", "rejecting"} => kind[call[u].channel] = "pty"
          /\ call[u].pc = "tunnelling" => kind[call[u].channel] = "exec"
    /\ \A u, v \in Callers :
          call[u].pc \in Fresh /\ call[v].pc \in Fresh /\ call[u].channel = call[v].channel => u = v

\* Terminals are never filtered, and what is not opened has no kind; a
\* subsystem that has answered is in the filter only while it is open.
FilterFits ==
    /\ \A c \in filtered : c <= opened /\ kind[c] # "pty"
    /\ \A c \in Channels : kind[c] # "none" => c <= opened
    /\ \A u \in Callers : call[u].pc = "installing" /\ call[u].channel \in filtered =>
          remote[call[u].channel]

\* The PTYs whose call has taken an id.
Numbered == {c \in Channels : /\ kind[c] = "pty"
                              /\ \A u \in Callers : call[u].pc = "inserting" => call[u].channel # c}

\* A pane id is taken once and names one channel for ever.
PanesFit ==
    /\ next_pane = Cardinality(Numbered)
    /\ panes \subseteq shown
    /\ \A x \in shown : x[1] < next_pane
    /\ \A x, y \in shown : x[1] = y[1] => x[2] = y[2]

\* Managers are handed out from the slot only.
SlotFits == issued \subseteq {transfers} \ {NoSlot}

IInv == ResourceInv /\ NoOrphanChannel /\ CallsFit /\ FilterFits /\ PanesFit /\ SlotFits

-----------------------------------------------------------------------------
(* What a step does to its call *)

\* The call of u goes on as given, the others stay.
Moved(u, op, pc, channel) ==
    /\ call' \in [Callers -> Calls]
    /\ \A v \in Callers : v # u => call'[v] = call[v]
    /\ call'[u].op = op /\ call'[u].pc = pc /\ call'[u].channel = channel

\* No channel is numbered None, and the bounds are numbers.
LEMMA Numbers ==
    /\ None \notin Channels /\ None = 0
    /\ Channels \subseteq Nat /\ MaxChannels \in Nat /\ MaxGeneration \in Nat /\ MaxPanes \in Nat
    /\ Idle \in Calls /\ Idle.op = "idle" /\ Idle.pc = "idle" /\ Idle.channel = None
BY ResourceAssumption DEF Idle, Calls, Ops, None, Channels

\* The channels opened are counted by a number.
LEMMA OpenedIsNat == ASSUME TypeOK PROVE opened \in Nat
BY Numbers DEF TypeOK

\* Going on to another step keeps the operation and the channel.
LEMMA GotoMoves ==
    ASSUME CallsFit, NEW u \in Callers, NEW pc \in Fresh, Goto(u, pc)
    PROVE  Moved(u, call[u].op, pc, call[u].channel)
BY DEF CallsFit, Goto, Moved, Calls

\* A call that returns holds nothing.
LEMMA ReturnMoves ==
    ASSUME CallsFit, NEW u \in Callers, Return(u)
    PROVE  Moved(u, "idle", "idle", None)
BY Numbers DEF CallsFit, Return, Moved

\* A call starts with the connection it read.
LEMMA StartMoves ==
    ASSUME TypeOK, CallsFit, NEW u \in Callers, NEW op \in Ops, Start(u, op)
    PROVE  Moved(u, op, "opening", None)
BY DEF TypeOK, CallsFit, Start, Moved, Calls

\* A granted channel is new and of the kind the operation asked for.
LEMMA OpenedMoves ==
    ASSUME TypeOK, CallsFit, NEW u \in Callers, ChannelOpened(u)
    PROVE  /\ opened + 1 \in Channels
           /\ \/ call[u].op = "pane" /\ KindOf(call[u].op) = "pty"
                 /\ Moved(u, call[u].op, "inserting", opened + 1)
              \/ call[u].op = "command" /\ KindOf(call[u].op) = "command"
                 /\ Moved(u, call[u].op, "running", opened + 1)
              \/ call[u].op \in {"bridge", "sftp", "manager"}
                 /\ KindOf(call[u].op) \in {"exec", "sftp"}
                 /\ Moved(u, call[u].op, "filtering", opened + 1)
<1>1. opened + 1 \in Channels
  BY Numbers DEF TypeOK, ChannelOpened, Channels
<1>2. call[u] \in Calls /\ call \in [Callers -> Calls]
  BY DEF CallsFit
<1>3. call[u].op \in {"pane", "command", "bridge", "sftp", "manager"}
  BY DEF CallsFit, ChannelOpened, Ops
<1>4. CASE call[u].op = "pane"
  <2>1. KindOf(call[u].op) = "pty"
    BY <1>4 DEF KindOf
  <2>2. call' = [call EXCEPT ![u].channel = opened + 1, ![u].pc = "inserting"]
    BY <2>1 DEF ChannelOpened
  <2>3. Moved(u, call[u].op, "inserting", opened + 1)
    BY <1>1, <1>2, <2>2 DEF Moved, Calls, Fresh
  <2> QED BY <1>1, <1>4, <2>1, <2>3
<1>5. CASE call[u].op = "command"
  <2>1. KindOf(call[u].op) = "command"
    BY <1>5 DEF KindOf
  <2>2. call' = [call EXCEPT ![u].channel = opened + 1, ![u].pc = "running"]
    BY <2>1 DEF ChannelOpened
  <2>3. Moved(u, call[u].op, "running", opened + 1)
    BY <1>1, <1>2, <2>2 DEF Moved, Calls, Fresh
  <2> QED BY <1>1, <1>5, <2>1, <2>3
<1>6. CASE call[u].op \in {"bridge", "sftp", "manager"}
  <2>1. KindOf(call[u].op) \in {"exec", "sftp"}
    BY <1>6 DEF KindOf
  <2>2. call' = [call EXCEPT ![u].channel = opened + 1, ![u].pc = "filtering"]
    BY <2>1 DEF ChannelOpened
  <2>3. Moved(u, call[u].op, "filtering", opened + 1)
    BY <1>1, <1>2, <2>2 DEF Moved, Calls, Fresh
  <2> QED BY <1>1, <1>6, <2>1, <2>3
<1> QED BY <1>3, <1>4, <1>5, <1>6

\* The subsystem of the session, which may be the caller's, goes to a manager.
LEMMA InstallMoves ==
    ASSUME TypeOK, CallsFit, NEW u \in Callers, InstallSftp(u)
    PROVE  /\ sftp' \in Channels
           /\ \/ Moved(u, "idle", "idle", None)
              \/ Moved(u, "manager", "managing", sftp') /\ call[u].op = "manager"
<1>1. call[u].channel \in Channels /\ sftp' \in Channels
  BY DEF TypeOK, CallsFit, InstallSftp
<1>2. CASE call[u].op = "manager"
  <2>1. call' = [call EXCEPT ![u].pc = "managing", ![u].channel = sftp']
    BY <1>2 DEF InstallSftp
  <2> QED BY <1>1, <1>2, <2>1 DEF Moved, Calls, CallsFit
<1>3. CASE call[u].op # "manager"
  BY <1>1, <1>3, ReturnMoves DEF InstallSftp
<1> QED BY <1>2, <1>3

\* A manager is made for the subsystem the session has.
LEMMA ReuseMoves ==
    ASSUME TypeOK, CallsFit, NEW u \in Callers, ReuseSftp(u)
    PROVE  sftp \in Channels /\ Moved(u, "manager", "managing", sftp)
<1>1. sftp \in Channels /\ call' = [call EXCEPT ![u].pc = "managing", ![u].channel = sftp]
  BY DEF TypeOK, ReuseSftp
<1> QED BY <1>1 DEF Moved, Calls, CallsFit, ReuseSftp

\* A bridge that could not be started is given up or tried on the next port.
LEMMA OwnerFailsMoves ==
    ASSUME CallsFit, NEW u \in Callers, OwnerFails(u)
    PROVE  \/ Moved(u, "idle", "idle", None)
           \/ Moved(u, call[u].op, "opening", None)
<1>1. CASE Return(u)
  BY <1>1, ReturnMoves
<1>2. CASE call' = [call EXCEPT ![u].pc = "opening", ![u].channel = None]
  BY <1>2 DEF Moved, Calls, CallsFit
<1> QED BY <1>1, <1>2 DEF OwnerFails

\* A bridge taken out of the table is in the hands of the call.
LEMMA StopMoves ==
    ASSUME TypeOK, CallsFit, NEW u \in Callers, NEW b \in bridges, StopBridge(u, b)
    PROVE  b \in Channels /\ Moved(u, "stop", "stopping", b)
<1>1. b \in Channels
  BY DEF TypeOK
<1>2. [Idle EXCEPT !.op = "stop", !.pc = "stopping", !.channel = b] \in Calls
  BY <1>1, Numbers DEF Idle, Calls, Ops
<1>3. LET new == [Idle EXCEPT !.op = "stop", !.pc = "stopping", !.channel = b]
      IN  new.op = "stop" /\ new.pc = "stopping" /\ new.channel = b
  BY DEF Idle
<1> QED BY <1>1, <1>2, <1>3 DEF StopBridge, Moved, CallsFit

-----------------------------------------------------------------------------
(* Calls keep what they rely on *)

\* A call goes on to a step that fits, over its own channel or one nobody had.
LEMMA MovedFits ==
    ASSUME TypeOK, CallsFit, NEW u \in Callers, NEW op, NEW pc, NEW c, Moved(u, op, pc, c),
           opened' \in Nat, opened <= opened',
           \A d \in Channels : d <= opened => kind'[d] = kind[d],
           pc \in Fresh \cup {"opening"} => op \in Ops \ {"idle", "stop"},
           IF pc \in {"idle", "opening"} THEN c = None ELSE c \in Channels,
           pc = "managing" => op = "manager",
           pc \in Fresh => /\ c <= opened'
                           /\ c > opened \/ (call[u].pc \in Fresh /\ c = call[u].channel),
           pc \in {"filtering", "starting"} => kind'[c] \in {"exec", "sftp"},
           pc \in {"inserting", "rejecting"} => kind'[c] = "pty",
           pc = "tunnelling" => kind'[c] = "exec"
    PROVE  CallsFit'
<1>1. call' \in [Callers -> Calls]
  BY DEF Moved
<1>0. opened \in Nat /\ \A v \in Callers : call[v].pc \in Fresh =>
         call[v].channel \in Nat /\ call[v].channel \in Channels /\ call[v].channel <= opened
  BY OpenedIsNat, Numbers DEF CallsFit, Fresh
<1>2. ASSUME NEW v \in Callers
      PROVE  /\ call'[v].pc \in Fresh \cup {"opening"} => call'[v].op \in Ops \ {"idle", "stop"}
             /\ IF call'[v].pc \in {"idle", "opening"} THEN call'[v].channel = None
                ELSE call'[v].channel \in Channels
             /\ call'[v].pc = "managing" => call'[v].op = "manager"
             /\ call'[v].pc \in Fresh => call'[v].channel <= opened'
             /\ call'[v].pc \in {"filtering", "starting"} => kind'[call'[v].channel] \in {"exec", "sftp"}
             /\ call'[v].pc \in {"inserting", "rejecting"} => kind'[call'[v].channel] = "pty"
             /\ call'[v].pc = "tunnelling" => kind'[call'[v].channel] = "exec"
  <2>1. CASE v = u
    BY <2>1 DEF Moved
  <2>2. CASE v # u
    <3>1. call'[v] = call[v]
      BY <2>2 DEF Moved
    <3>2. call[v].pc \in Fresh => call[v].channel <= opened'
      BY <1>0
    <3>3. call[v].pc \in Fresh => kind'[call[v].channel] = kind[call[v].channel]
      BY DEF CallsFit, Fresh
    <3> QED BY <3>1, <3>2, <3>3 DEF CallsFit, Fresh
  <2> QED BY <2>1, <2>2
<1>3. ASSUME NEW v \in Callers, v # u, call'[v].pc \in Fresh, pc \in Fresh
      PROVE  call'[v].channel # c
  <2>1. call[v].pc \in Fresh /\ call'[v].channel = call[v].channel
    BY <1>3 DEF Moved
  <2>2. call[v].channel <= opened /\ call[v].channel \in Nat /\ opened \in Nat
    BY <1>0, <2>1
  <2>3. CASE c > opened
    BY <2>1, <2>2, <2>3
  <2>4. CASE call[u].pc \in Fresh /\ c = call[u].channel
    BY <1>3, <2>1, <2>4 DEF CallsFit
  <2> QED BY <1>3, <2>3, <2>4
<1>4. ASSUME NEW v \in Callers, NEW w \in Callers, call'[v].pc \in Fresh, call'[w].pc \in Fresh,
             call'[v].channel = call'[w].channel
      PROVE  v = w
  <2>1. CASE v = u
    BY <1>3, <1>4, <2>1 DEF Moved
  <2>2. CASE w = u
    BY <1>3, <1>4, <2>2 DEF Moved
  <2>3. CASE v # u /\ w # u
    BY <1>4, <2>3 DEF Moved, CallsFit
  <2> QED BY <2>1, <2>2, <2>3
<1> QED BY <1>1, <1>2, <1>4 DEF CallsFit

\* A call that returns relies on nothing any more.
LEMMA ReturnFits ==
    ASSUME TypeOK, CallsFit, NEW u \in Callers, Return(u), UNCHANGED <<opened, kind>>
    PROVE  CallsFit'
<1>1. Moved(u, "idle", "idle", None)
  BY ReturnMoves
<1>2. opened' \in Nat /\ opened <= opened'
  BY Numbers DEF TypeOK
<1> QED BY <1>1, <1>2, MovedFits DEF Fresh

\* Every step keeps CallsFit.
LEMMA CallsKept ==
    ASSUME TypeOK, CallsFit, FilterFits, [Next]_vars
    PROVE  CallsFit'
<1>0. ASSUME UNCHANGED <<call, opened, kind>>
      PROVE  CallsFit'
  BY <1>0 DEF CallsFit
<1>1. ASSUME UNCHANGED <<opened, kind>>
      PROVE  opened' \in Nat /\ opened <= opened'
  BY <1>1, OpenedIsNat
<1>2. ASSUME NEW u \in Callers, NEW op \in Ops \ {"idle", "stop"}, Start(u, op)
      PROVE  CallsFit'
  <2>1. Moved(u, op, "opening", None) /\ UNCHANGED <<opened, kind>>
    BY <1>2, StartMoves DEF Start, channelVars
  <2> QED BY <2>1, <1>1, MovedFits DEF Fresh
<1>3. ASSUME NEW u \in Callers, NEW b \in bridges, StopBridge(u, b)
      PROVE  CallsFit'
  <2>1. b \in Channels /\ Moved(u, "stop", "stopping", b) /\ UNCHANGED <<opened, kind>>
    BY <1>3, StopMoves DEF StopBridge, channelVars
  <2> QED BY <2>1, <1>1, MovedFits DEF Fresh
<1>4. ASSUME NEW u \in Callers, ChannelOpened(u)
      PROVE  CallsFit'
  <2>1. /\ opened + 1 \in Channels /\ opened' = opened + 1 /\ opened \in Nat
        /\ kind' = [kind EXCEPT ![opened + 1] = KindOf(call[u].op)]
    BY <1>4, OpenedMoves, OpenedIsNat DEF ChannelOpened
  <2>0. call[u].op \in Ops \ {"idle", "stop"}
    BY <1>4 DEF ChannelOpened, CallsFit
  <2>2. /\ opened' \in Nat /\ opened <= opened' /\ opened + 1 <= opened' /\ opened + 1 > opened
        /\ kind'[opened + 1] = KindOf(call[u].op)
        /\ \A d \in Channels : d <= opened => kind'[d] = kind[d]
    BY <2>1, Numbers DEF TypeOK
  <2>3. CASE Moved(u, call[u].op, "inserting", opened + 1) /\ KindOf(call[u].op) = "pty"
    BY <2>0, <2>1, <2>2, <2>3, MovedFits DEF Fresh
  <2>4. CASE Moved(u, call[u].op, "running", opened + 1)
    BY <2>0, <2>1, <2>2, <2>4, MovedFits DEF Fresh
  <2>5. CASE Moved(u, call[u].op, "filtering", opened + 1) /\ KindOf(call[u].op) \in {"exec", "sftp"}
    BY <2>0, <2>1, <2>2, <2>5, MovedFits DEF Fresh
  <2> QED BY <1>4, <2>3, <2>4, <2>5, OpenedMoves
<1>5. ASSUME NEW u \in Callers, FilterChannel(u)
      PROVE  CallsFit'
  <2>1. Moved(u, call[u].op, "starting", call[u].channel) /\ UNCHANGED <<opened, kind>>
    BY <1>5, GotoMoves DEF FilterChannel, Fresh
  <2>2. /\ call[u].pc = "filtering" /\ call[u].channel \in Channels
        /\ call[u].op \in Ops \ {"idle", "stop"}
        /\ call[u].channel <= opened /\ kind[call[u].channel] \in {"exec", "sftp"}
    BY <1>5 DEF FilterChannel, CallsFit, Fresh
  <2> QED BY <2>1, <2>2, <1>1, MovedFits DEF Fresh
<1>6. ASSUME NEW u \in Callers, InsertPane(u)
      PROVE  CallsFit'
  <2>1. CASE Return(u)
    BY <1>6, <2>1, ReturnFits DEF InsertPane, channelVars
  <2>2. CASE Goto(u, "rejecting")
    <3>1. Moved(u, call[u].op, "rejecting", call[u].channel) /\ UNCHANGED <<opened, kind>>
      BY <1>6, <2>2, GotoMoves DEF InsertPane, Fresh, channelVars
    <3>2. /\ call[u].pc = "inserting" /\ call[u].channel \in Channels
          /\ call[u].op \in Ops \ {"idle", "stop"}
        /\ call[u].channel <= opened /\ kind[call[u].channel] = "pty"
      BY <1>6 DEF InsertPane, CallsFit, Fresh
    <3> QED BY <3>1, <3>2, <1>1, MovedFits DEF Fresh
  <2> QED BY <1>6, <2>1, <2>2 DEF InsertPane
<1>7. ASSUME NEW u \in Callers, SftpStarts(u)
      PROVE  CallsFit'
  <2>1. Moved(u, call[u].op, "installing", call[u].channel) /\ UNCHANGED <<opened, kind>>
    BY <1>7, GotoMoves DEF SftpStarts, Fresh, channelVars
  <2>2. /\ call[u].pc = "starting" /\ call[u].channel \in Channels
        /\ call[u].op \in Ops \ {"idle", "stop"} /\ call[u].channel <= opened
    BY <1>7 DEF SftpStarts, CallsFit, Fresh
  <2> QED BY <2>1, <2>2, <1>1, MovedFits DEF Fresh
<1>8. ASSUME NEW u \in Callers, OwnerRuns(u)
      PROVE  CallsFit'
  <2>1. Moved(u, call[u].op, "tunnelling", call[u].channel) /\ UNCHANGED <<opened, kind>>
    BY <1>8, GotoMoves DEF OwnerRuns, Fresh, channelVars
  <2>2. /\ call[u].pc = "starting" /\ call[u].channel \in Channels
        /\ call[u].op \in Ops \ {"idle", "stop"}
        /\ call[u].channel <= opened /\ kind[call[u].channel] = "exec"
    BY <1>8 DEF OwnerRuns, CallsFit, Fresh
  <2> QED BY <2>1, <2>2, <1>1, MovedFits DEF Fresh
<1>9. ASSUME NEW u \in Callers, InstallSftp(u)
      PROVE  CallsFit'
  <2>1. sftp' \in Channels /\ UNCHANGED <<opened, kind>>
    BY <1>9, InstallMoves DEF InstallSftp, channelVars
  <2>2. CASE Moved(u, "idle", "idle", None)
    BY <2>1, <2>2, <1>1, MovedFits DEF Fresh
  <2>3. CASE Moved(u, "manager", "managing", sftp')
    BY <2>1, <2>3, <1>1, MovedFits DEF Fresh
  <2> QED BY <1>9, <2>2, <2>3, InstallMoves
<1>10. ASSUME NEW u \in Callers, ReuseSftp(u)
       PROVE  CallsFit'
  <2>1. sftp \in Channels /\ Moved(u, "manager", "managing", sftp) /\ UNCHANGED <<opened, kind>>
    BY <1>10, ReuseMoves DEF ReuseSftp, channelVars
  <2> QED BY <2>1, <1>1, MovedFits DEF Fresh
<1>11. ASSUME NEW u \in Callers, OwnerFails(u)
       PROVE  CallsFit'
  <2>1. UNCHANGED <<opened, kind>>
    BY <1>11 DEF OwnerFails
  <2>2. CASE Moved(u, "idle", "idle", None)
    BY <2>1, <2>2, <1>1, MovedFits DEF Fresh
  <2>3. CASE Moved(u, call[u].op, "opening", None)
    <3>1. call[u].op \in Ops \ {"idle", "stop"}
      BY <1>11 DEF OwnerFails, CallsFit, Fresh
    <3> QED BY <2>1, <2>3, <3>1, <1>1, MovedFits DEF Fresh
  <2> QED BY <1>11, <2>2, <2>3, OwnerFailsMoves
<1>12. ASSUME NEW u \in Callers, OpenFails(u) \/ CommandEnds(u) \/ RejectPane(u) \/ SftpFails(u)
                                 \/ InstallManager(u) \/ InstallBridge(u) \/ StopOwner(u)
       PROVE  CallsFit'
  BY <1>12, ReturnFits DEF OpenFails, CommandEnds, RejectPane, SftpFails, InstallManager,
     InstallBridge, StopOwner, channelVars
<1>13. ASSUME \/ \E p \in panes : close_pane(p)
              \/ \E p \in shown : send_input(p)
              \/ \E c \in Channels : ChannelClosed(c) \/ CloseReleasedOwner(c)
              \/ Attach \/ DisconnectTake \/ DisconnectClear
              \/ UNCHANGED vars
       PROVE  UNCHANGED <<call, opened, kind>>
  BY <1>13 DEF close_pane, send_input, ChannelClosed, CloseReleasedOwner, Attach,
     DisconnectTake, DisconnectClear, channelVars, vars
<1>14. ASSUME NEW u \in Callers, StartCall(u)
       PROVE  CallsFit'
  BY <1>2, <1>3, <1>14 DEF StartCall, open_pane, run_remote, herdr_bridge, sftp_session,
     sftp_manager, Ops
<1>15. ASSUME NEW u \in Callers, CallStep(u)
       PROVE  CallsFit'
  BY <1>4, <1>5, <1>6, <1>7, <1>8, <1>9, <1>10, <1>11, <1>12, <1>15 DEF CallStep
<1> QED BY <1>0, <1>13, <1>14, <1>15 DEF Next

-----------------------------------------------------------------------------
(* Every channel has somebody who closes it and clears its filter entry *)

\* What NoOrphanChannel and FilterIsReaped say of one channel.
Settled(c) ==
    /\ remote[c] => c \in InHand \cup Held \cup released
    /\ c \in filtered => \/ remote[c]
                         \/ c \in InHand
                         \/ kind[c] = "exec" /\ c \in Held \cup released

\* The two invariants, channel by channel.
LEMMA SettledSaysBoth ==
    ASSUME TypeOK
    PROVE  NoOrphanChannel /\ FilterIsReaped <=> \A c \in Channels : Settled(c)
BY DEF TypeOK, NoOrphanChannel, FilterIsReaped, Settled

\* Only the channel of the call that moves can leave the hands of a call.
LEMMA HandMoves ==
    ASSUME NEW u \in Callers, NEW op, NEW pc, NEW c, Moved(u, op, pc, c)
    PROVE  /\ InHand \subseteq InHand' \cup {call[u].channel}
           /\ (op # "manager" \/ pc # "managing") => c \in InHand'
<1>1. ASSUME NEW d \in InHand, d # call[u].channel
      PROVE  d \in InHand'
  <2>1. PICK v \in Callers : d = call[v].channel /\ (call[v].op # "manager" \/ call[v].pc # "managing")
    BY <1>1 DEF InHand
  <2>2. call'[v] = call[v]
    BY <1>1, <2>1 DEF Moved
  <2> QED BY <2>1, <2>2 DEF InHand
<1>2. ASSUME op # "manager" \/ pc # "managing"
      PROVE  c \in InHand'
  BY <1>2 DEF InHand, Moved
<1> QED BY <1>1, <1>2

\* A channel nothing of which changes stays settled; its owners may hand it on.
LEMMA SettledStays ==
    ASSUME NEW d \in Channels, Settled(d),
           remote'[d] = remote[d], d \in filtered' => d \in filtered,
           d \in filtered => kind'[d] = kind[d],
           d \in InHand => d \in InHand',
           d \in Held \cup released => d \in Held' \cup released'
    PROVE  Settled(d)'
BY DEF Settled

\* A channel in the hands of a call is settled, and so is one that is closed
\* and out of the filter.
LEMMA SettledAnew ==
    ASSUME NEW d \in Channels, d \in InHand' \/ (~remote'[d] /\ d \notin filtered')
    PROVE  Settled(d)'
BY DEF Settled

\* The channel of a call that returns has an owner, or is closed and reaped.
LEMMA SettledByReturn ==
    ASSUME TypeOK, CallsFit, FilterFits, NEW d \in Channels, Settled(d), NEW u \in Callers,
           \/ CommandEnds(u) \/ RejectPane(u) \/ SftpFails(u)
           \/ OwnerFails(u) \/ InstallBridge(u) \/ StopOwner(u)
    PROVE  Settled(d)'
<1>1. InHand \subseteq InHand' \cup {call[u].channel}
  BY ReturnMoves, OwnerFailsMoves, HandMoves DEF CommandEnds, RejectPane, SftpFails, OwnerFails,
     InstallBridge, StopOwner
<1>2. /\ remote \in [Channels -> BOOLEAN]
      /\ call[u].channel \in Channels
      /\ call[u].pc \in {"inserting", "rejecting"} => kind[call[u].channel] = "pty"
      /\ call[u].pc = "tunnelling" => kind[call[u].channel] = "exec"
  BY DEF CommandEnds, RejectPane, SftpFails, OwnerFails, InstallBridge, StopOwner, CallsFit, TypeOK
<1>3. CASE CommandEnds(u)
  <2>1. /\ UNCHANGED <<remote, kind, panes, sftp, bridges>> /\ filtered' = filtered \ {call[u].channel}
        /\ released' = released \cup {c \in {call[u].channel} : remote[c] \/ kind[c] = "exec"}
    BY <1>3 DEF CommandEnds, release_filtered_channel, Release, cellVars
  <2>2. Held' = Held
    BY <2>1 DEF Held
  <2>3. CASE d = call[u].channel
    BY <2>1, <2>2, <2>3 DEF Settled
  <2>4. CASE d # call[u].channel
    BY <1>1, <2>1, <2>2, <2>4, SettledStays
  <2> QED BY <2>3, <2>4
<1>4. CASE RejectPane(u)
  <2>1. /\ UNCHANGED <<filtered, kind, panes, sftp, bridges, released>>
        /\ remote' = [remote EXCEPT ![call[u].channel] = FALSE] /\ call[u].pc = "rejecting"
    BY <1>4 DEF RejectPane, cellVars, historyVars
  <2>0. Held' = Held
    BY <2>1 DEF Held
  <2>2. Held' = Held /\ ~remote'[call[u].channel] /\ call[u].channel \notin filtered'
    BY <1>2, <2>0, <2>1 DEF FilterFits
  <2>3. CASE d = call[u].channel
    BY <2>2, <2>3, SettledAnew
  <2>4. CASE d # call[u].channel
    BY <1>1, <1>2, <2>1, <2>2, <2>4, SettledStays
  <2> QED BY <2>3, <2>4
<1>5. CASE SftpFails(u) \/ OwnerFails(u) \/ StopOwner(u)
  <2>1. /\ UNCHANGED <<kind, panes, sftp, bridges, released>>
        /\ remote' = [remote EXCEPT ![call[u].channel] = FALSE]
        /\ filtered' = filtered \ {call[u].channel}
    BY <1>5 DEF SftpFails, OwnerFails, StopOwner, CloseOwner, release_filtered_channel, cellVars, historyVars
  <2>0. Held' = Held
    BY <2>1 DEF Held
  <2>2. Held' = Held /\ ~remote'[call[u].channel] /\ call[u].channel \notin filtered'
    BY <1>2, <2>0, <2>1
  <2>3. CASE d = call[u].channel
    BY <2>2, <2>3, SettledAnew
  <2>4. CASE d # call[u].channel
    BY <1>1, <1>2, <2>1, <2>2, <2>4, SettledStays
  <2> QED BY <2>3, <2>4
<1>6. CASE InstallBridge(u)
  <2>1. /\ UNCHANGED <<filtered, remote, kind, panes, sftp, released>>
        /\ bridges' = bridges \cup {call[u].channel} /\ call[u].pc = "tunnelling"
    BY <1>6 DEF InstallBridge, channelVars, historyVars
  <2>2. Held \subseteq Held' /\ call[u].channel \in Held'
    BY <2>1 DEF Held
  <2>3. CASE d = call[u].channel
    BY <1>2, <2>1, <2>2, <2>3 DEF Settled
  <2>4. CASE d # call[u].channel
    BY <1>1, <2>1, <2>2, <2>4, SettledStays
  <2> QED BY <2>3, <2>4
<1> QED BY <1>3, <1>4, <1>5, <1>6

\* A call that starts, ends empty-handed or goes on with its channel.
LEMMA SettledByQuietCall ==
    ASSUME TypeOK, CallsFit, FilterFits, NEW d \in Channels, Settled(d), NEW u \in Callers,
           \/ \E op \in Ops \ {"idle", "stop"} : Start(u, op)
           \/ OpenFails(u) \/ ReuseSftp(u) \/ FilterChannel(u) \/ SftpStarts(u) \/ OwnerRuns(u)
           \/ InstallManager(u)
    PROVE  Settled(d)'
<1>1. UNCHANGED <<remote, kind, panes, sftp, bridges, released>>
  BY DEF Start, OpenFails, ReuseSftp, FilterChannel, SftpStarts, OwnerRuns, InstallManager,
     channelVars, cellVars, historyVars
<1>2. Held' = Held
  BY <1>1 DEF Held
<1>3. CASE FilterChannel(u) \/ SftpStarts(u) \/ OwnerRuns(u)
  <2>1. call[u].channel \in InHand' /\ InHand \subseteq InHand' \cup {call[u].channel}
    BY <1>3, GotoMoves, HandMoves DEF FilterChannel, SftpStarts, OwnerRuns, Fresh
  <2>2. filtered' \subseteq filtered \cup {call[u].channel}
    BY <1>3 DEF FilterChannel, SftpStarts, OwnerRuns, channelVars
  <2>3. CASE d = call[u].channel
    BY <2>1, <2>3, SettledAnew
  <2>4. CASE d # call[u].channel
    BY <1>1, <1>2, <2>1, <2>2, <2>4, SettledStays
  <2> QED BY <2>3, <2>4
<1>4. CASE \/ \E op \in Ops \ {"idle", "stop"} : Start(u, op)
           \/ OpenFails(u) \/ ReuseSftp(u)
  <2>1. filtered' = filtered /\ call[u].channel = None
    BY <1>4 DEF Start, OpenFails, ReuseSftp, CallsFit, channelVars
  <2>2. InHand \subseteq InHand' \cup {call[u].channel}
    BY <1>4, StartMoves, ReturnMoves, ReuseMoves, HandMoves DEF OpenFails
  <2> QED BY <1>1, <1>2, <2>1, <2>2, Numbers, SettledStays
<1>5. CASE InstallManager(u)
  <2>1. filtered' = filtered /\ call[u].op = "manager" /\ call[u].pc = "managing" /\ Moved(u, "idle", "idle", None)
    BY <1>5, ReturnMoves DEF InstallManager, CallsFit, channelVars
  <2>2. InHand \subseteq InHand'
    BY <2>1 DEF InHand, Moved
  <2> QED BY <1>1, <1>2, <2>1, <2>2, SettledStays
<1> QED BY <1>3, <1>4, <1>5

\* A new channel is in the hands of its call; a terminal or subsystem goes
\* over to the session, a bridge that is stopped to the call.
LEMMA SettledByHandover ==
    ASSUME TypeOK, CallsFit, FilterFits, NEW d \in Channels, Settled(d), NEW u \in Callers,
           \/ ChannelOpened(u) \/ InsertPane(u) \/ InstallSftp(u)
           \/ \E b \in bridges : StopBridge(u, b)
    PROVE  Settled(d)'
<1>1. CASE ChannelOpened(u)
  <2>0. call[u].channel = None
    BY <1>1 DEF ChannelOpened, CallsFit
  <2>1. opened + 1 \in InHand' /\ InHand \subseteq InHand' \cup {call[u].channel}
    <3>1. PICK pc \in {"inserting", "running", "filtering"} : Moved(u, call[u].op, pc, opened + 1)
      BY <1>1, OpenedMoves
    <3> QED BY <3>1, HandMoves
  <2>2. /\ UNCHANGED <<panes, sftp, bridges, released>>
        /\ remote' = [remote EXCEPT ![opened + 1] = TRUE]
        /\ kind' = [kind EXCEPT ![opened + 1] = KindOf(call[u].op)]
        /\ filtered' \subseteq filtered \cup {opened + 1}
    BY <1>1 DEF ChannelOpened, cellVars, historyVars
  <2>3. Held' = Held
    BY <2>2 DEF Held
  <2>4. CASE d = opened + 1
    BY <2>1, <2>4, SettledAnew
  <2>5. CASE d # opened + 1
    <3>1. remote'[d] = remote[d] /\ kind'[d] = kind[d]
      BY <2>2, <2>5 DEF TypeOK
    <3> QED BY <2>0, <2>1, <2>2, <2>3, <2>5, <3>1, Numbers, SettledStays
  <2> QED BY <2>4, <2>5
<1>2. CASE InsertPane(u)
  <2>1. /\ UNCHANGED <<filtered, remote, kind, sftp, bridges, released>> /\ panes \subseteq panes'
        /\ call[u].channel \in Channels /\ call[u].pc = "inserting" /\ kind[call[u].channel] = "pty"
    BY <1>2 DEF InsertPane, CallsFit, channelVars
  <2>2. Held \subseteq Held' /\ call[u].channel \notin filtered'
    BY <2>1 DEF Held, FilterFits
  <2>3. InHand \subseteq InHand' \cup {call[u].channel}
    BY <1>2, ReturnMoves, GotoMoves, HandMoves DEF InsertPane, Fresh
  <2>4. call[u].channel \in InHand' \cup Held'
    <3>1. CASE Cardinality(panes) >= MaxPanes
      BY <1>2, <3>1, GotoMoves, HandMoves DEF InsertPane, Fresh
    <3>2. CASE ~(Cardinality(panes) >= MaxPanes)
      <4>1. <<next_pane, call[u].channel>> \in panes'
        BY <1>2, <3>2 DEF InsertPane
      <4> QED BY <4>1 DEF Held
    <3> QED BY <3>1, <3>2
  <2>5. CASE d = call[u].channel
    BY <2>1, <2>2, <2>4, <2>5 DEF Settled
  <2>6. CASE d # call[u].channel
    BY <2>1, <2>2, <2>3, <2>6, SettledStays
  <2> QED BY <2>5, <2>6
<1>3. CASE InstallSftp(u)
  <2>1. /\ UNCHANGED <<filtered, remote, kind, panes, bridges>> /\ sftp' \in Channels
        /\ call[u].channel \in Channels /\ call[u].pc = "installing"
        /\ sftp # None => sftp' = sftp
        /\ released \subseteq released'
        /\ \/ sftp' = call[u].channel
           \/ remote[call[u].channel] => call[u].channel \in released'
    BY <1>3, InstallMoves DEF InstallSftp, CallsFit, Release, channelVars
  <2>2. Held \subseteq Held' /\ (sftp' = call[u].channel => call[u].channel \in Held')
    BY <2>1, Numbers DEF Held
  <2>3. InHand \subseteq InHand' \cup {call[u].channel}
    BY <1>3, InstallMoves, HandMoves
  <2>4. call[u].channel \in filtered => remote[call[u].channel]
    BY <2>1 DEF FilterFits
  <2>5. CASE d = call[u].channel
    BY <2>1, <2>2, <2>4, <2>5 DEF Settled
  <2>6. CASE d # call[u].channel
    BY <2>1, <2>2, <2>3, <2>6, SettledStays
  <2> QED BY <2>5, <2>6
<1>4. CASE \E b \in bridges : StopBridge(u, b)
  <2>1. PICK b \in bridges : StopBridge(u, b)
    BY <1>4
  <2>2. /\ b \in InHand' /\ InHand \subseteq InHand' \cup {call[u].channel}
        /\ call[u].channel = None
    BY <2>1, StopMoves, HandMoves DEF StopBridge, CallsFit
  <2>3. UNCHANGED <<filtered, remote, kind, panes, sftp, released>> /\ bridges' = bridges \ {b}
    BY <2>1 DEF StopBridge, channelVars, historyVars
  <2>4. Held \subseteq Held' \cup {b}
    BY <2>3 DEF Held
  <2>5. CASE d = b
    BY <2>2, <2>5, SettledAnew
  <2>6. CASE d # b
    BY <2>2, <2>3, <2>4, <2>6, Numbers, SettledStays
  <2> QED BY <2>5, <2>6
<1> QED BY <1>1, <1>2, <1>3, <1>4

\* What the server, the tasks, attach and disconnect do to a channel.
LEMMA SettledByOthers ==
    ASSUME TypeOK, NEW d \in Channels, Settled(d),
           \/ \E p \in panes : close_pane(p)
           \/ \E p \in shown : send_input(p)
           \/ \E c \in Channels : ChannelClosed(c) \/ CloseReleasedOwner(c)
           \/ Attach \/ DisconnectTake \/ DisconnectClear
           \/ UNCHANGED vars
    PROVE  Settled(d)'
<1>1. InHand' = InHand
  <2>1. call' = call
    BY DEF close_pane, send_input, ChannelClosed, CloseReleasedOwner, Attach, DisconnectTake,
       DisconnectClear, vars
  <2> QED BY <2>1 DEF InHand
<1>2. CASE \E p \in panes : close_pane(p)
  <2>1. PICK p \in panes : close_pane(p)
    BY <1>2
  <2>2. /\ UNCHANGED <<filtered, remote, kind, sftp, bridges>> /\ panes' = panes \ {p}
        /\ released' = released \cup {c \in {p[2]} : remote[c] \/ kind[c] = "exec"}
    BY <2>1 DEF close_pane, Release, channelVars
  <2>3. Held \subseteq Held' \cup {p[2]}
    BY <2>2 DEF Held
  <2> QED BY <1>1, <2>2, <2>3 DEF Settled
<1>3. CASE (\E p \in shown : send_input(p)) \/ DisconnectTake \/ UNCHANGED vars
  <2>1. UNCHANGED <<filtered, remote, kind, panes, sftp, bridges, released>>
    BY <1>3 DEF send_input, DisconnectTake, channelVars, cellVars, historyVars, vars
  <2>2. Held' = Held
    BY <2>1 DEF Held
  <2> QED BY <1>1, <2>1, <2>2 DEF Settled
<1>4. ASSUME NEW c \in Channels, ChannelClosed(c) \/ CloseReleasedOwner(c)
      PROVE  Settled(d)'
  <2>1. /\ UNCHANGED <<kind, panes, sftp, bridges>> /\ remote' = [remote EXCEPT ![c] = FALSE]
        /\ filtered' = filtered \ {c} /\ (released' = released \/ released' = released \ {c})
    BY <1>4 DEF ChannelClosed, CloseReleasedOwner, CloseOwner, release_filtered_channel, cellVars
  <2>2. Held' = Held
    BY <2>1 DEF Held
  <2>3. remote'[d] = (IF d = c THEN FALSE ELSE remote[d])
    BY <2>1 DEF TypeOK
  <2> QED BY <1>1, <2>1, <2>2, <2>3 DEF Settled
<1>5. CASE Attach \/ DisconnectClear
  <2>1. /\ UNCHANGED <<filtered, remote, kind>>
        /\ released' = released \cup {c \in Held : remote[c] \/ kind[c] = "exec"}
    BY <1>5 DEF Attach, DisconnectClear, Release, channelVars
  <2> QED BY <1>1, <2>1 DEF Settled
<1> QED BY <1>2, <1>3, <1>4, <1>5

\* Every step keeps NoOrphanChannel and FilterIsReaped.
LEMMA SettledKept ==
    ASSUME TypeOK, CallsFit, FilterFits, NoOrphanChannel, FilterIsReaped, [Next]_vars, TypeOK'
    PROVE  NoOrphanChannel' /\ FilterIsReaped'
<1>1. ASSUME NEW d \in Channels
      PROVE  Settled(d)'
  <2>1. Settled(d)
    BY SettledSaysBoth
  <2>2. ASSUME NEW u \in Callers, StartCall(u)
        PROVE  Settled(d)'
    BY <2>1, <2>2, SettledByQuietCall, SettledByHandover DEF StartCall, open_pane, run_remote,
       herdr_bridge, sftp_session, sftp_manager, Ops
  <2>3. ASSUME NEW u \in Callers, CallStep(u)
        PROVE  Settled(d)'
    BY <2>1, <2>3, SettledByQuietCall, SettledByHandover, SettledByReturn DEF CallStep
  <2> QED BY <2>1, <2>2, <2>3, SettledByOthers DEF Next
<1>2. filtered' \subseteq Channels
  BY DEF TypeOK
<1> QED BY <1>1, <1>2 DEF NoOrphanChannel, FilterIsReaped, Settled

-----------------------------------------------------------------------------
(* The filter *)

\* Only the version exchange brings a call to where a subsystem is installed.
LEMMA InstallingStays ==
    ASSUME TypeOK, CallsFit, NEW u \in Callers, StartCall(u) \/ CallStep(u), ~SftpStarts(u)
    PROVE  \A v \in Callers : call'[v].pc = "installing" => call'[v] = call[v]
<1>1. \E op, pc, c : Moved(u, op, pc, c) /\ pc # "installing"
  <2>1. ASSUME NEW op \in Ops, Start(u, op)
        PROVE  Moved(u, op, "opening", None)
    BY <2>1, StartMoves
  <2>2. CASE StartCall(u)
    BY <2>1, <2>2, StopMoves DEF StartCall, open_pane, run_remote, herdr_bridge, sftp_session,
       sftp_manager, Ops
  <2>3. CASE ChannelOpened(u) \/ InstallSftp(u) \/ ReuseSftp(u) \/ OwnerFails(u)
    BY <2>3, OpenedMoves, InstallMoves, ReuseMoves, OwnerFailsMoves
  <2>4. CASE FilterChannel(u) \/ OwnerRuns(u)
    BY <2>4, GotoMoves DEF FilterChannel, OwnerRuns, Fresh
  <2>5. CASE InsertPane(u)
    BY <2>5, ReturnMoves, GotoMoves DEF InsertPane, Fresh
  <2>6. CASE OpenFails(u) \/ CommandEnds(u) \/ RejectPane(u) \/ SftpFails(u)
             \/ InstallManager(u) \/ InstallBridge(u) \/ StopOwner(u)
    BY <2>6, ReturnMoves DEF OpenFails, CommandEnds, RejectPane, SftpFails, InstallManager,
       InstallBridge, StopOwner
  <2> QED BY <2>2, <2>3, <2>4, <2>5, <2>6 DEF CallStep
<1> QED BY <1>1 DEF Moved

\* A step that opens no channel, filters none and changes only those it reaps.
LEMMA FilterStays ==
    ASSUME TypeOK, CallsFit, FilterFits, UNCHANGED <<opened, kind>>, filtered' \subseteq filtered,
           \A d \in Channels : remote'[d] = remote[d] \/ d \notin filtered',
           \A v \in Callers : call'[v].pc = "installing" => call'[v] = call[v]
    PROVE  FilterFits'
<1>1. \A v \in Callers : call[v].pc = "installing" => call[v].channel \in Channels
  BY DEF CallsFit
<1> QED BY <1>1 DEF FilterFits

\* Every step keeps FilterFits.
LEMMA FilterKept ==
    ASSUME TypeOK, CallsFit, FilterFits, [Next]_vars
    PROVE  FilterFits'
<1>1. ASSUME NEW u \in Callers, ChannelOpened(u)
      PROVE  FilterFits'
  <2>1. /\ opened + 1 \in Channels /\ opened' = opened + 1 /\ opened \in Nat
        /\ kind' = [kind EXCEPT ![opened + 1] = KindOf(call[u].op)]
        /\ remote' = [remote EXCEPT ![opened + 1] = TRUE]
        /\ filtered' \subseteq filtered \cup {opened + 1}
        /\ opened + 1 \in filtered' => opened + 1 \in filtered \/ KindOf(call[u].op) = "command"
    BY <1>1, OpenedMoves, OpenedIsNat DEF ChannelOpened
  <2>2. \A d \in Channels : d # opened + 1 => kind'[d] = kind[d] /\ remote'[d] = remote[d]
    BY <2>1 DEF TypeOK
  <2>3. kind'[opened + 1] = KindOf(call[u].op) /\ remote'[opened + 1]
    BY <2>1 DEF TypeOK
  <2>4. filtered \subseteq Channels /\ opened + 1 \notin filtered
    BY <2>1 DEF TypeOK, FilterFits
  <2>5. \A c \in filtered' : c <= opened' /\ kind'[c] # "pty"
    BY <2>1, <2>2, <2>3, <2>4, Numbers DEF FilterFits
  <2>6. \A c \in Channels : kind'[c] # "none" => c <= opened'
    BY <2>1, <2>2, <2>3, Numbers DEF FilterFits
  <2>7. \A v \in Callers : call'[v].pc = "installing" /\ call'[v].channel \in filtered' =>
           remote'[call'[v].channel]
    <3>1. \A v \in Callers : call'[v].pc = "installing" =>
             call'[v] = call[v] /\ call[v].channel \in Channels
      BY <1>1, InstallingStays DEF CallStep, SftpStarts, ChannelOpened, CallsFit
    <3> QED BY <2>1, <2>2, <2>3, <3>1 DEF FilterFits
  <2> QED BY <2>5, <2>6, <2>7 DEF FilterFits
<1>2. ASSUME NEW u \in Callers, FilterChannel(u)
      PROVE  FilterFits'
  <2>1. /\ UNCHANGED <<opened, kind, remote>> /\ filtered' = filtered \cup {call[u].channel}
        /\ Moved(u, call[u].op, "starting", call[u].channel)
        /\ call[u].pc \in Fresh /\ call[u].channel \in Channels
        /\ call[u].channel <= opened /\ kind[call[u].channel] \in {"exec", "sftp"}
    BY <1>2, GotoMoves DEF FilterChannel, CallsFit, Fresh
  <2>2. \A v \in Callers : call'[v].pc = "installing" =>
           call'[v] = call[v] /\ call[v].channel # call[u].channel
    BY <2>1 DEF Moved, CallsFit, Fresh
  <2> QED BY <2>1, <2>2 DEF FilterFits
<1>3. ASSUME NEW u \in Callers, SftpStarts(u)
      PROVE  FilterFits'
  <2>1. /\ UNCHANGED <<opened, kind, remote, filtered>> /\ remote[call[u].channel]
        /\ Moved(u, call[u].op, "installing", call[u].channel)
    BY <1>3, GotoMoves DEF SftpStarts, channelVars, Fresh
  <2> QED BY <2>1 DEF FilterFits, Moved
<1>4. ASSUME NEW u \in Callers, StartCall(u) \/ CallStep(u),
             ~ChannelOpened(u), ~FilterChannel(u), ~SftpStarts(u)
      PROVE  FilterFits'
  <2>1. UNCHANGED <<opened, kind>> /\ filtered' \subseteq filtered
    BY <1>4 DEF StartCall, open_pane, run_remote, herdr_bridge, sftp_session, sftp_manager, Start,
       StopBridge, CallStep, OpenFails, CommandEnds, InsertPane, RejectPane, SftpFails, InstallSftp,
       ReuseSftp, InstallManager, OwnerRuns, OwnerFails, InstallBridge, StopOwner, CloseOwner,
       release_filtered_channel, channelVars
  <2>2. ASSUME NEW d \in Channels
        PROVE  remote'[d] = remote[d] \/ d \notin filtered'
    <3>1. CASE RejectPane(u)
      BY <3>1 DEF RejectPane, CallsFit, FilterFits, TypeOK
    <3>2. CASE SftpFails(u) \/ OwnerFails(u) \/ StopOwner(u)
      BY <3>2 DEF SftpFails, OwnerFails, StopOwner, CloseOwner, release_filtered_channel, CallsFit,
         TypeOK
    <3>3. CASE ~RejectPane(u) /\ ~SftpFails(u) /\ ~OwnerFails(u) /\ ~StopOwner(u)
      BY <1>4, <3>3 DEF StartCall, open_pane, run_remote, herdr_bridge, sftp_session, sftp_manager,
         Start, StopBridge, CallStep, OpenFails, CommandEnds, InsertPane, InstallSftp, ReuseSftp,
         InstallManager, OwnerRuns, InstallBridge, channelVars
    <3> QED BY <3>1, <3>2, <3>3
  <2>3. \A v \in Callers : call'[v].pc = "installing" => call'[v] = call[v]
    BY <1>4, InstallingStays
  <2> QED BY <2>1, <2>2, <2>3, FilterStays
<1>5. ASSUME NEW c \in Channels, ChannelClosed(c) \/ CloseReleasedOwner(c)
      PROVE  FilterFits'
  <2>1. /\ UNCHANGED <<opened, kind, call>> /\ filtered' = filtered \ {c}
        /\ remote' = [remote EXCEPT ![c] = FALSE]
    BY <1>5 DEF ChannelClosed, CloseReleasedOwner, CloseOwner, release_filtered_channel
  <2>2. \A d \in Channels : remote'[d] = remote[d] \/ d \notin filtered'
    BY <2>1 DEF TypeOK
  <2> QED BY <2>1, <2>2, FilterStays
<1>6. ASSUME \/ \E p \in panes : close_pane(p)
             \/ \E p \in shown : send_input(p)
             \/ Attach \/ DisconnectTake \/ DisconnectClear
             \/ UNCHANGED vars
      PROVE  FilterFits'
  <2>1. UNCHANGED <<opened, kind, remote, filtered, call>>
    BY <1>6 DEF close_pane, send_input, Attach, DisconnectTake, DisconnectClear, channelVars, vars
  <2> QED BY <2>1 DEF FilterFits
<1> QED BY <1>1, <1>2, <1>3, <1>4, <1>5, <1>6 DEF Next

-----------------------------------------------------------------------------
(* Panes and their ids *)

\* Sets of channels and of panes are finite.
LEMMA Finite ==
    /\ \A S \in SUBSET Channels : IsFiniteSet(S) /\ Cardinality(S) \in 0 .. MaxChannels
    /\ \A S \in SUBSET (PaneIds \X Channels) : IsFiniteSet(S) /\ Cardinality(S) \in Nat
<1>1. IsFiniteSet(Channels) /\ Cardinality(Channels) = MaxChannels /\ IsFiniteSet(PaneIds)
  BY Numbers, FS_Interval DEF Channels, PaneIds
<1>2. IsFiniteSet(PaneIds \X Channels)
  BY <1>1, FS_Product
<1>3. ASSUME NEW S \in SUBSET Channels
      PROVE  IsFiniteSet(S) /\ Cardinality(S) \in 0 .. MaxChannels
  <2>1. IsFiniteSet(S) /\ Cardinality(S) <= MaxChannels
    BY <1>1, FS_Subset
  <2> QED BY <2>1, FS_CardinalityType, Numbers
<1>4. ASSUME NEW S \in SUBSET (PaneIds \X Channels)
      PROVE  IsFiniteSet(S) /\ Cardinality(S) \in Nat
  BY <1>2, FS_Subset, FS_CardinalityType
<1> QED BY <1>3, <1>4

\* Only open_pane's steps bring a call to where an id is taken, or away from it.
LEMMA InsertingStays ==
    ASSUME TypeOK, CallsFit, NEW u \in Callers, StartCall(u) \/ CallStep(u),
           ~ChannelOpened(u), ~InsertPane(u)
    PROVE  \A v \in Callers : call'[v].pc = "inserting" \/ call[v].pc = "inserting" =>
              call'[v] = call[v]
<1>1. call[u].pc # "inserting"
  BY DEF StartCall, open_pane, run_remote, herdr_bridge, sftp_session, sftp_manager, Start,
       StopBridge, CallStep, OpenFails, FilterChannel, CommandEnds, RejectPane, SftpStarts,
       SftpFails, InstallSftp, ReuseSftp, InstallManager, OwnerRuns, OwnerFails, InstallBridge,
       StopOwner
<1>2. \E op, pc, c : Moved(u, op, pc, c) /\ pc # "inserting"
  <2>1. ASSUME NEW op \in Ops, Start(u, op)
        PROVE  Moved(u, op, "opening", None)
    BY <2>1, StartMoves
  <2>2. CASE StartCall(u)
    BY <2>1, <2>2, StopMoves DEF StartCall, open_pane, run_remote, herdr_bridge, sftp_session,
       sftp_manager, Ops
  <2>3. CASE InstallSftp(u) \/ ReuseSftp(u) \/ OwnerFails(u)
    BY <2>3, InstallMoves, ReuseMoves, OwnerFailsMoves
  <2>4. CASE FilterChannel(u) \/ OwnerRuns(u) \/ SftpStarts(u)
    BY <2>4, GotoMoves DEF FilterChannel, OwnerRuns, SftpStarts, Fresh
  <2>5. CASE OpenFails(u) \/ CommandEnds(u) \/ RejectPane(u) \/ SftpFails(u)
             \/ InstallManager(u) \/ InstallBridge(u) \/ StopOwner(u)
    BY <2>5, ReturnMoves DEF OpenFails, CommandEnds, RejectPane, SftpFails, InstallManager,
       InstallBridge, StopOwner
  <2> QED BY <2>2, <2>3, <2>4, <2>5 DEF CallStep
<1> QED BY <1>1, <1>2 DEF Moved

\* An id is taken by InsertPane and by nothing else.
LEMMA NumberedKept ==
    ASSUME TypeOK, CallsFit, FilterFits, PanesFit, [Next]_vars
    PROVE  next_pane' = Cardinality(Numbered')
<1>1. ASSUME NEW u \in Callers, InsertPane(u)
      PROVE  next_pane' = Cardinality(Numbered')
  <2>1. \/ Moved(u, "idle", "idle", None)
        \/ Moved(u, call[u].op, "rejecting", call[u].channel)
    BY <1>1, ReturnMoves, GotoMoves DEF InsertPane, Fresh
  <2>2. /\ call[u].pc = "inserting" /\ call[u].channel \in Channels /\ kind[call[u].channel] = "pty"
        /\ kind' = kind /\ next_pane' = next_pane + 1
    BY <1>1 DEF InsertPane, CallsFit, channelVars
  <2>3. call'[u].pc # "inserting" /\ \A v \in Callers \ {u} : call'[v] = call[v]
    BY <2>1 DEF Moved
  <2>4. \A v \in Callers \ {u} : call[v].pc = "inserting" => call[v].channel # call[u].channel
    BY <2>2 DEF CallsFit, Fresh
  <2>5. Numbered' = Numbered \cup {call[u].channel} /\ call[u].channel \notin Numbered
    BY <2>2, <2>3, <2>4 DEF Numbered
  <2>6. IsFiniteSet(Numbered) /\ Cardinality(Numbered) \in Nat
    BY Finite DEF Numbered
  <2> QED BY <2>2, <2>5, <2>6, FS_AddElement DEF PanesFit
<1>2. ASSUME NEW u \in Callers, ChannelOpened(u)
      PROVE  next_pane' = Cardinality(Numbered')
  <2>1. /\ opened + 1 \in Channels /\ opened \in Nat /\ next_pane' = next_pane
        /\ kind' = [kind EXCEPT ![opened + 1] = KindOf(call[u].op)]
        /\ call[u].pc = "opening"
    BY <1>2, OpenedMoves, OpenedIsNat DEF ChannelOpened, cellVars
  <2>2. /\ \A d \in Channels : d # opened + 1 => kind'[d] = kind[d]
        /\ kind'[opened + 1] = KindOf(call[u].op) /\ kind[opened + 1] = "none"
    BY <2>1 DEF TypeOK, FilterFits
  <2>3. /\ \A v \in Callers \ {u} : call'[v] = call[v]
        /\ call'[u].channel = opened + 1
        /\ call'[u].pc = "inserting" \/ KindOf(call[u].op) # "pty"
    BY <1>2, OpenedMoves DEF Moved
  <2>4. Numbered' = Numbered
    <3>1. ASSUME NEW d \in Channels, d = opened + 1
          PROVE  d \notin Numbered /\ d \notin Numbered'
      BY <2>2, <2>3, <3>1 DEF Numbered
    <3>2. ASSUME NEW d \in Channels, d # opened + 1
          PROVE  d \in Numbered <=> d \in Numbered'
      BY <2>1, <2>2, <2>3, <3>2 DEF Numbered
    <3> QED BY <3>1, <3>2 DEF Numbered
  <2> QED BY <2>1, <2>4 DEF PanesFit
<1>3. ASSUME UNCHANGED <<kind, next_pane>>,
             \A v \in Callers : call'[v].pc = "inserting" \/ call[v].pc = "inserting" =>
                call'[v] = call[v]
      PROVE  next_pane' = Cardinality(Numbered')
  <2>1. Numbered' = Numbered
    BY <1>3 DEF Numbered
  <2> QED BY <1>3, <2>1 DEF PanesFit
<1>4. ASSUME NEW u \in Callers, StartCall(u) \/ CallStep(u), ~ChannelOpened(u), ~InsertPane(u)
      PROVE  UNCHANGED <<kind, next_pane>>
  BY <1>4 DEF StartCall, open_pane, run_remote, herdr_bridge, sftp_session, sftp_manager, Start,
     StopBridge, CallStep, OpenFails, FilterChannel, CommandEnds, RejectPane, SftpStarts, SftpFails,
     InstallSftp, ReuseSftp, InstallManager, OwnerRuns, OwnerFails, InstallBridge, StopOwner,
     channelVars, cellVars
<1>5. ASSUME \/ \E p \in panes : close_pane(p)
             \/ \E p \in shown : send_input(p)
             \/ \E c \in Channels : ChannelClosed(c) \/ CloseReleasedOwner(c)
             \/ Attach \/ DisconnectTake \/ DisconnectClear
             \/ UNCHANGED vars
      PROVE  UNCHANGED <<kind, next_pane, call>>
  BY <1>5 DEF close_pane, send_input, ChannelClosed, CloseReleasedOwner, Attach, DisconnectTake,
     DisconnectClear, channelVars, cellVars, vars
<1> QED BY <1>1, <1>2, <1>3, <1>4, <1>5, InsertingStays DEF Next

\* Panes shown keep their ids; only InsertPane shows a new one.
LEMMA ShownStays ==
    ASSUME [Next]_vars
    PROVE  \/ \E u \in Callers : InsertPane(u)
           \/ UNCHANGED <<shown, next_pane>> /\ panes' \subseteq panes
<1>1. ASSUME NEW u \in Callers, StartCall(u) \/ CallStep(u), ~InsertPane(u)
      PROVE  UNCHANGED <<shown, next_pane, panes>>
  BY <1>1 DEF StartCall, open_pane, run_remote, herdr_bridge, sftp_session, sftp_manager, Start,
     StopBridge, CallStep, ChannelOpened, OpenFails, FilterChannel, CommandEnds, RejectPane,
     SftpStarts, SftpFails, InstallSftp, ReuseSftp, InstallManager, OwnerRuns, OwnerFails,
     InstallBridge, StopOwner, cellVars, historyVars
<1>2. ASSUME \/ \E p \in panes : close_pane(p)
             \/ \E p \in shown : send_input(p)
             \/ \E c \in Channels : ChannelClosed(c) \/ CloseReleasedOwner(c)
             \/ Attach \/ DisconnectTake \/ DisconnectClear
             \/ UNCHANGED vars
      PROVE  UNCHANGED <<shown, next_pane>> /\ panes' \subseteq panes
  BY <1>2 DEF close_pane, send_input, ChannelClosed, CloseReleasedOwner, Attach, DisconnectTake,
     DisconnectClear, cellVars, historyVars, vars
<1> QED BY <1>1, <1>2 DEF Next

\* Every step keeps PanesFit.
LEMMA PanesKept ==
    ASSUME TypeOK, CallsFit, FilterFits, PanesFit, [Next]_vars
    PROVE  PanesFit'
<1>1. ASSUME NEW u \in Callers, InsertPane(u)
      PROVE  PanesFit'
  <2> DEFINE new == <<next_pane, call[u].channel>>
  <2>1. /\ next_pane \in Nat /\ next_pane' = next_pane + 1
        /\ shown \subseteq PaneIds \X Channels
        /\ \/ UNCHANGED <<panes, shown>>
           \/ panes' = panes \cup {new} /\ shown' = shown \cup {new}
    BY <1>1, Numbers DEF InsertPane, TypeOK, PaneIds
  <2>2. \A x \in shown : x[1] \in Nat /\ x[1] < next_pane
    BY <2>1, Numbers DEF PanesFit, PaneIds
  <2>3. new[1] = next_pane
    OBVIOUS
  <2> HIDE DEF new
  <2>4. panes' \subseteq shown'
    BY <2>1 DEF PanesFit
  <2>5. \A x \in shown' : x[1] < next_pane'
    BY <2>1, <2>2, <2>3
  <2>6. ASSUME NEW x \in shown', NEW y \in shown', x[1] = y[1]
        PROVE  x[2] = y[2]
    BY <2>1, <2>2, <2>3, <2>6 DEF PanesFit
  <2> QED BY <2>4, <2>5, <2>6, NumberedKept DEF PanesFit
<1>2. ASSUME UNCHANGED <<shown, next_pane>>, panes' \subseteq panes
      PROVE  PanesFit'
  BY <1>2, NumberedKept DEF PanesFit
<1> QED BY <1>1, <1>2, ShownStays

\* Every step keeps InputReachesItsTerminal: an id still in the table names the
\* channel it was returned with.
LEMMA InputKept ==
    ASSUME PanesFit, InputReachesItsTerminal, [Next]_vars
    PROVE  InputReachesItsTerminal'
<1>1. ASSUME NEW p \in shown, send_input(p)
      PROVE  InputReachesItsTerminal'
  <2>1. PICK q \in panes : q[1] = p[1] /\ typed' = <<p[2], q[2]>>
    BY <1>1 DEF send_input
  <2>2. p[2] = q[2]
    BY <2>1 DEF PanesFit
  <2> QED BY <2>1, <2>2 DEF InputReachesItsTerminal
<1>2. ASSUME NEW u \in Callers, StartCall(u) \/ CallStep(u)
      PROVE  typed' = typed
  BY <1>2 DEF StartCall, open_pane, run_remote, herdr_bridge, sftp_session, sftp_manager, Start,
     StopBridge, CallStep, ChannelOpened, OpenFails, FilterChannel, CommandEnds, InsertPane,
     RejectPane, SftpStarts, SftpFails, InstallSftp, ReuseSftp, InstallManager, OwnerRuns,
     OwnerFails, InstallBridge, StopOwner, historyVars
<1>3. ASSUME \/ \E p \in panes : close_pane(p)
             \/ \E c \in Channels : ChannelClosed(c) \/ CloseReleasedOwner(c)
             \/ Attach \/ DisconnectTake \/ DisconnectClear
             \/ UNCHANGED vars
      PROVE  typed' = typed
  BY <1>3 DEF close_pane, ChannelClosed, CloseReleasedOwner, Attach, DisconnectTake,
     DisconnectClear, historyVars, vars
<1> QED BY <1>1, <1>2, <1>3 DEF Next, InputReachesItsTerminal

-----------------------------------------------------------------------------
(* The transfer slot *)

\* Every step keeps SlotFits.
LEMMA SlotKept ==
    ASSUME CallsFit, SlotFits, [Next]_vars
    PROVE  SlotFits'
<1>1. ASSUME NEW u \in Callers, InstallManager(u)
      PROVE  SlotFits'
  <2>1. call[u].channel \in Channels
    BY <1>1 DEF InstallManager, CallsFit
  <2>2. [channel |-> call[u].channel, maker |-> u] # NoSlot
    BY <2>1, Numbers DEF NoSlot
  <2> QED BY <1>1, <2>2 DEF InstallManager, SlotFits
<1>2. ASSUME NEW u \in Callers, StartCall(u) \/ CallStep(u), ~InstallManager(u)
      PROVE  UNCHANGED <<transfers, issued>>
  BY <1>2 DEF StartCall, open_pane, run_remote, herdr_bridge, sftp_session, sftp_manager, Start,
     StopBridge, CallStep, ChannelOpened, OpenFails, FilterChannel, CommandEnds, InsertPane,
     RejectPane, SftpStarts, SftpFails, InstallSftp, ReuseSftp, OwnerRuns, OwnerFails,
     InstallBridge, StopOwner, cellVars, historyVars
<1>3. ASSUME \/ \E p \in panes : close_pane(p)
             \/ \E p \in shown : send_input(p)
             \/ \E c \in Channels : ChannelClosed(c) \/ CloseReleasedOwner(c)
             \/ Attach \/ DisconnectTake \/ DisconnectClear
             \/ UNCHANGED vars
      PROVE  issued' = {} \/ UNCHANGED <<transfers, issued>>
  BY <1>3 DEF close_pane, send_input, ChannelClosed, CloseReleasedOwner, Attach, DisconnectTake,
     DisconnectClear, cellVars, historyVars, vars
<1> QED BY <1>1, <1>2, <1>3 DEF Next, SlotFits

\* Managers from one slot are one manager.
LEMMA SlotHoldsOne == SlotFits => OneManagerPerSlot
<1>1. ASSUME issued \subseteq {transfers}
      PROVE  Cardinality(issued) <= 1
  <2>1. IsFiniteSet({transfers}) /\ Cardinality({transfers}) = 1 /\ issued \in SUBSET {transfers}
    BY <1>1, FS_Singleton
  <2>2. Cardinality(issued) <= Cardinality({transfers})
    BY <2>1, FS_Subset
  <2> QED BY <2>1, <2>2
<1> QED BY <1>1 DEF SlotFits, OneManagerPerSlot

-----------------------------------------------------------------------------
(* Types, and the theorems *)

\* Every step keeps TypeOK; the limit of panes holds because the table is
\* counted again when a pane is put in, whatever was awaited before.
LEMMA TypeKept ==
    ASSUME TypeOK, CallsFit, PanesFit', [Next]_vars
    PROVE  TypeOK'
<1>0. next_pane' \in PaneIds
  BY Finite DEF PanesFit, Numbered, PaneIds
<1>1. ASSUME NEW u \in Callers, InsertPane(u)
      PROVE  TypeOK'
  <2>1. next_pane \in PaneIds /\ call[u].channel \in Channels
    BY <1>1 DEF TypeOK, InsertPane, CallsFit
  <2>2. /\ panes' \subseteq PaneIds \X Channels /\ Cardinality(panes') <= MaxPanes
        /\ shown' \subseteq PaneIds \X Channels
    <3>1. CASE Cardinality(panes) >= MaxPanes
      BY <1>1, <3>1 DEF TypeOK, InsertPane
    <3>2. CASE ~(Cardinality(panes) >= MaxPanes)
      <4>1. /\ panes' = panes \cup {<<next_pane, call[u].channel>>}
            /\ shown' = shown \cup {<<next_pane, call[u].channel>>}
        BY <1>1, <3>2 DEF InsertPane
      <4>2. IsFiniteSet(panes) /\ Cardinality(panes) \in Nat
        BY Finite DEF TypeOK
      <4>3. Cardinality(panes') <= MaxPanes
        <5>1. Cardinality(panes') \in {Cardinality(panes), Cardinality(panes) + 1}
          BY <4>1, <4>2, FS_AddElement
        <5> QED BY <3>2, <4>2, <5>1, Numbers
      <4> QED BY <2>1, <4>1, <4>3 DEF TypeOK
    <3> QED BY <3>1, <3>2
  <2> QED BY <1>0, <1>1, <2>2 DEF TypeOK, InsertPane, hostVars, channelVars
<1>2. ASSUME NEW p \in panes, close_pane(p)
      PROVE  TypeOK'
  <2>1. panes \subseteq PaneIds \X Channels /\ panes' = panes \ {p} /\ p[2] \in Channels
    BY <1>2 DEF TypeOK, close_pane
  <2>2. panes' \subseteq PaneIds \X Channels /\ Cardinality(panes') <= MaxPanes
    <3>1. IsFiniteSet(panes) /\ Cardinality(panes) \in Nat /\ Cardinality(panes) <= MaxPanes
      BY Finite DEF TypeOK
    <3>2. Cardinality(panes') <= Cardinality(panes) /\ Cardinality(panes') \in Nat
      BY <2>1, <3>1, FS_Subset, FS_CardinalityType
    <3> QED BY <2>1, <3>1, <3>2, Numbers
  <2>3. released' \subseteq Channels
    BY <1>2, <2>1 DEF TypeOK, close_pane, Release
  <2> QED BY <1>2, <2>2, <2>3 DEF TypeOK, close_pane, hostVars, channelVars
<1>3. ASSUME Attach \/ DisconnectClear
      PROVE  TypeOK'
  <2>1. Held \subseteq Channels
    BY DEF TypeOK, Held
  <2>2. /\ panes' \subseteq PaneIds \X Channels /\ Cardinality(panes') <= MaxPanes
        /\ sftp' = None /\ bridges' = {}
    BY <1>3, FS_EmptySet, Numbers DEF Attach, DisconnectClear
  <2>3. released' \subseteq Channels
    BY <1>3, <2>1 DEF TypeOK, Attach, DisconnectClear, Release
  <2>4. connection' \in 0 .. MaxGeneration /\ generation' \in 0 .. MaxGeneration
    BY <1>3, Numbers DEF TypeOK, Attach, DisconnectClear, hostVars
  <2> QED BY <1>3, <2>2, <2>3, <2>4 DEF TypeOK, Attach, DisconnectClear, channelVars
<1>4. ASSUME NEW u \in Callers, ChannelOpened(u)
      PROVE  TypeOK'
  <2>1. /\ opened + 1 \in Channels /\ call[u].conn \in 0 .. MaxGeneration
        /\ KindOf(call[u].op) \in Kinds
    BY <1>4, OpenedMoves DEF CallsFit, Calls, Kinds
  <2>2. opened' \in 0 .. MaxChannels
    BY <1>4, <2>1, Numbers DEF ChannelOpened, Channels
  <2>3. /\ transport' \in [Channels -> 0 .. MaxGeneration] /\ kind' \in [Channels -> Kinds]
        /\ remote' \in [Channels -> BOOLEAN] /\ filtered' \subseteq Channels
    BY <1>4, <2>1 DEF ChannelOpened, TypeOK
  <2> QED BY <1>4, <2>2, <2>3 DEF ChannelOpened, TypeOK, hostVars, cellVars, historyVars
<1>5. ASSUME NEW u \in Callers, StartCall(u) \/ CallStep(u), ~InsertPane(u), ~ChannelOpened(u)
      PROVE  TypeOK'
  <2>1. call[u].channel \in Channels \cup {None}
    BY DEF CallsFit, Calls
  <2>2. CASE \/ FilterChannel(u) \/ CommandEnds(u) \/ RejectPane(u) \/ SftpFails(u)
             \/ InstallSftp(u) \/ OwnerFails(u) \/ InstallBridge(u) \/ StopOwner(u)
    <3>1. call[u].channel \in Channels
      BY <2>2 DEF FilterChannel, CommandEnds, RejectPane, SftpFails, InstallSftp, OwnerFails,
         InstallBridge, StopOwner, CallsFit
    <3>2. CASE FilterChannel(u) \/ CommandEnds(u)
      BY <3>1, <3>2 DEF FilterChannel, CommandEnds, TypeOK, release_filtered_channel, Release,
         hostVars, cellVars, historyVars
    <3>3. CASE RejectPane(u) \/ SftpFails(u) \/ OwnerFails(u) \/ StopOwner(u)
      BY <3>1, <3>3 DEF RejectPane, SftpFails, OwnerFails, StopOwner, CloseOwner, TypeOK,
         release_filtered_channel, hostVars, cellVars, historyVars
    <3>4. CASE InstallSftp(u)
      BY <3>1, <3>4 DEF InstallSftp, TypeOK, Release, hostVars, channelVars
    <3>5. CASE InstallBridge(u)
      BY <3>1, <3>5 DEF InstallBridge, TypeOK, hostVars, channelVars, historyVars
    <3> QED BY <2>2, <3>2, <3>3, <3>4, <3>5
  <2>3. CASE \/ StartCall(u) \/ OpenFails(u) \/ SftpStarts(u) \/ ReuseSftp(u)
             \/ InstallManager(u) \/ OwnerRuns(u)
    <3>1. /\ UNCHANGED <<hostVars, channelVars, panes, next_pane, sftp, shown, typed, released>>
          /\ bridges' \subseteq bridges
      BY <2>3 DEF StartCall, open_pane, run_remote, herdr_bridge, sftp_session, sftp_manager, Start,
         StopBridge, OpenFails, SftpStarts, ReuseSftp, InstallManager, OwnerRuns, cellVars,
         historyVars
    <3> QED BY <3>1 DEF TypeOK, hostVars, channelVars
  <2> QED BY <1>5, <2>2, <2>3 DEF CallStep
<1>6. ASSUME NEW p \in shown, send_input(p)
      PROVE  TypeOK'
  <2>1. p[2] \in Channels /\ \A q \in panes : q[2] \in Channels
    BY DEF TypeOK
  <2> QED BY <1>6, <2>1 DEF send_input, TypeOK, hostVars, channelVars, cellVars
<1>7. ASSUME NEW c \in Channels, ChannelClosed(c) \/ CloseReleasedOwner(c)
      PROVE  TypeOK'
  BY <1>7 DEF ChannelClosed, CloseReleasedOwner, CloseOwner, release_filtered_channel, TypeOK,
     hostVars, cellVars
<1>8. ASSUME DisconnectTake \/ UNCHANGED vars
      PROVE  TypeOK'
  <2>1. CASE DisconnectTake
    BY <2>1, Numbers DEF DisconnectTake, TypeOK, channelVars, cellVars, historyVars
  <2>2. CASE UNCHANGED vars
    BY <2>2 DEF TypeOK, hostVars, channelVars, cellVars, historyVars, vars
  <2> QED BY <1>8, <2>1, <2>2
<1> QED BY <1>1, <1>2, <1>3, <1>4, <1>5, <1>6, <1>7, <1>8 DEF Next

\* A session that was never connected satisfies the inductive invariant.
LEMMA InitHolds == Init => IInv
<1> SUFFICES ASSUME Init PROVE IInv
  OBVIOUS
<1>1. TypeOK
  BY FS_EmptySet, Numbers DEF Init, TypeOK, Kinds, PaneIds
<1>2. CallsFit
  BY Numbers DEF Init, CallsFit, Fresh
<1>3. FilterFits
  BY Numbers DEF Init, FilterFits
<1>4. Numbered = {}
  BY DEF Init, Numbered
<1>5. PanesFit
  BY <1>4, FS_EmptySet DEF Init, PanesFit
<1>6. SlotFits
  BY DEF Init, SlotFits
<1>7. NoOrphanChannel /\ FilterIsReaped
  BY DEF Init, NoOrphanChannel, FilterIsReaped
<1>8. InputReachesItsTerminal
  BY DEF Init, InputReachesItsTerminal
<1> QED BY <1>1, <1>2, <1>3, <1>5, <1>6, <1>7, <1>8, SlotHoldsOne DEF IInv, ResourceInv

\* Overlapping calls of the session's API, closes by the server, attach and
\* disconnect keep the inductive invariant.
THEOREM ResourcesInvariant == Spec => []IInv
<1>1. Init => IInv
  BY InitHolds
<1>2. IInv /\ [Next]_vars => IInv'
  <2> SUFFICES ASSUME IInv, [Next]_vars PROVE IInv'
    OBVIOUS
  <2>1. /\ TypeOK /\ CallsFit /\ FilterFits /\ PanesFit /\ SlotFits
        /\ NoOrphanChannel /\ FilterIsReaped /\ InputReachesItsTerminal
    BY DEF IInv, ResourceInv
  <2>2. CallsFit' /\ FilterFits' /\ PanesFit' /\ SlotFits' /\ InputReachesItsTerminal'
    BY <2>1, CallsKept, FilterKept, PanesKept, SlotKept, InputKept
  <2>3. TypeOK'
    BY <2>1, <2>2, TypeKept
  <2>4. NoOrphanChannel' /\ FilterIsReaped'
    BY <2>1, <2>3, SettledKept
  <2>5. OneManagerPerSlot'
    BY <2>2, SlotHoldsOne, PTL
  <2> QED BY <2>2, <2>3, <2>4, <2>5 DEF IInv, ResourceInv
<1> QED BY <1>1, <1>2, PTL DEF Spec

\* However many calls of open_pane, sftp_manager and herdr_bridge overlap with
\* attach, disconnect and closes by the server: a host has at most
\* MAX_PANES_PER_HOST panes, input reaches the terminal it was meant for, one
\* slot hands out one manager, and the filter keeps no entry of a channel that
\* is closed and that nobody holds.
THEOREM ResourcesAreSound == Spec => []ResourceInv
<1>1. IInv => ResourceInv
  BY DEF IInv
<1> QED BY <1>1, ResourcesInvariant, PTL

\* No error path and no lost race of open_pane, sftp, run_command or
\* herdr_bridge leaves a channel open that nobody can close.
THEOREM NoChannelIsOrphaned == Spec => []NoOrphanChannel
<1>1. IInv => NoOrphanChannel
  BY DEF IInv
<1> QED BY <1>1, ResourcesInvariant, PTL
=============================================================================
