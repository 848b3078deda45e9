------------------------------ MODULE MCDialing ------------------------------
EXTENDS Dialing

Address(n, k, p, e) == [name |-> n, kind |-> k, priority |-> p, enabled |-> e]

AddressSpace == {Address("a", "Manual", 0, TRUE), Address("a", "Tailscale", 0, TRUE),
                 Address("b", "Tailscale", 20, TRUE), Address("b", "Public", 0, TRUE),
                 Address("b", "Lan", 0, FALSE), Address("c", "Lan", 1, TRUE)}

AddressLists == UNION {[1 .. n -> AddressSpace] : n \in 0 .. 3}

MCStatuses == {NoStatus} \cup
    {[online |-> on, peers |-> ps, failed |-> FALSE] :
        on \in SUBSET {"a", "b"}, ps \in {<<>>, <<"b">>, <<"c", "d">>}}

HostOf(as, ts, us, j) ==
    [addresses |-> as, tailscale |-> ts, device |-> ts, userspace |-> us, jump |-> j]

M(owner, kind) == [owner |-> owner, kind |-> kind]
Target == {<<M("target", "password")>>, <<M("target", "key"), M("target", "agent"), M("target", "password")>>,
           <<M("target", "agent"), M("target", "interactive")>>}
Bastion == {<<>>, <<M("jump", "key"), M("jump", "password")>>}

\* All address lists with a call that is refused before it dials, and a host
\* with two candidates, direct, proxied or behind a bastion, that is dialled.
MCScenarios ==
    {[host |-> HostOf(as, ts, us, FALSE), auth |-> <<>>, jump_auth |-> <<>>] :
        as \in AddressLists, ts \in BOOLEAN, us \in BOOLEAN} \cup
    {[host |-> HostOf(<<Address("a", "Tailscale", 0, TRUE), Address("c", "Lan", 1, TRUE)>>, TRUE, us, j),
      auth |-> am, jump_auth |-> jm] :
        us \in BOOLEAN, j \in BOOLEAN, am \in Target, jm \in Bastion}
=============================================================================
