--------------------------- MODULE MCHostRecords ---------------------------
EXTENDS HostRecords

Payload(mode, auth, ts, jump) == [mode |-> mode, auth |-> auth, tailscale |-> ts, jump |-> jump]

OtherHosts(kind) == [kind |-> kind, host |-> "another"]
AnothersPassword == OtherHosts("ssh-password")

\* Every mode, a tailnet that is kept or removed, a bastion, and references of
\* another host.
MCPayloads ==
    {Payload("Password", AnothersPassword, NoConfig, NoJump),
     Payload("PublicKey", AnothersPassword, [set |-> TRUE, ref |-> OtherHosts("tailscale-auth")], NoJump),
     Payload("SshAgent", NoRef, NoConfig, [set |-> TRUE, mode |-> "Password", ref |-> AnothersPassword])}
=============================================================================
