------------------------------- MODULE Dialing -------------------------------
(***************************************************************************)
(* One connect call between reserving a generation and its result: the     *)
(* candidates of AddressCandidates are dialled one after the other         *)
(* (connect_with_jump_auth_typed of session.rs), each directly, through a  *)
(* proxy process or over a bastion (SshConnection::connect of              *)
(* connection.rs), and at each endpoint the host key is checked and the    *)
(* authentication methods are tried in order.                              *)
(*                                                                         *)
(* What name servers, peers, agents and users answer is open; a wait that  *)
(* has a deadline may also run into it.                                    *)
(***************************************************************************)
EXTENDS AddressCandidates

CONSTANTS
    Scenarios,   \* [host, auth, jump_auth]: what connect is called with
    Statuses,    \* answers of the Tailscale daemon
    MaxAddrs     \* bound on the addresses a name resolves to

\* The methods that are kept for an endpoint; the owner is the argument of
\* connect they came in.
MethodsOf(owner) == [owner : {owner}, kind : {"password", "key", "agent", "interactive"}]

ASSUME DialingAssumption ==
    /\ MaxAddrs \in Nat \ {0}
    /\ NoStatus \in Statuses
    /\ \A s \in Scenarios : /\ s.auth \in Seq(MethodsOf("target"))
                            /\ s.jump_auth \in Seq(MethodsOf("jump"))

VARIABLES
    scenario,   \* arguments of the call
    pc,         \* where the call is
    asked,      \* history: the Tailscale status the resolver got
    queue,      \* candidates not dialled yet
    current,    \* the candidate being dialled
    hop,        \* the endpoint of the attempt: "jump" or "target"
    addrs,      \* socket addresses of the endpoint left to try
    jump_auth,  \* methods for the bastion
    method,     \* the method whose turn it is
    turns,      \* how the methods before it went at this endpoint
    specific,   \* specific_error: its kind and the method that caused it
    verified,   \* endpoints whose key was accepted in this attempt
    offered,    \* history: methods a server was offered, and which server
    process,    \* the proxy process is alive
    result      \* the error returned, or last_error

dialVars == <<current, hop, addrs, process, verified>>
authVars == <<method, turns, specific>>
callVars == <<scenario, asked, queue, jump_auth>>
connectVars == <<callVars, pc, dialVars, authVars, offered, result>>

Host == scenario.host
NoCandidate == [name |-> "none", kind |-> "Manual", priority |-> 0, proxy |-> FALSE]
NoError == [kind |-> "none", method |-> 0]
Err(kind) == [kind |-> kind, method |-> 0]
\* What a transport that breaks is reported as; "Protocol" stands for every
\* kind that is no reason to dial another address.
TransportErrors == {"Protocol", "Timeout", "Unreachable"}

\* Methods of the endpoint that is being authenticated to.
Methods == IF hop = "jump" THEN jump_auth ELSE scenario.auth
Endpoint == <<hop, IF hop = "jump" THEN "bastion" ELSE current.name>>

DialInit ==
    /\ scenario \in Scenarios
    /\ pc = "resolve"
    /\ asked = NoStatus
    /\ queue = <<>>
    /\ current = NoCandidate
    /\ hop = "target"
    /\ addrs = 0
    /\ jump_auth = <<>>
    /\ method = 0 /\ turns = <<>> /\ specific = NoError
    /\ verified = {} /\ offered = {}
    /\ process = FALSE
    /\ result = NoError

-----------------------------------------------------------------------------
(* The candidate loop *)

\* The resolver asks the provider; without candidates the call fails.
Resolve ==
    /\ pc = "resolve"
    /\ \E status \in Statuses :
        /\ asked' = status
        /\ queue' = candidates(Host, status)
        /\ IF queue' = <<>>
           THEN pc' = "failed" /\ result' = Err("InvalidConfiguration")
           ELSE pc' = "reserve" /\ UNCHANGED result
    /\ UNCHANGED <<scenario, jump_auth, dialVars, authVars, offered>>

\* Mutant: a bastion without credentials is offered the target's.
ReserveMutant ==
    /\ pc = "reserve"
    /\ pc' = "next"
    /\ jump_auth' = IF Host.jump /\ scenario.jump_auth = <<>> THEN scenario.auth ELSE scenario.jump_auth
    /\ UNCHANGED <<scenario, asked, queue, dialVars, authVars, offered, result>>

\* A bastion needs credentials of its own.
Reserve ==
    /\ pc = "reserve"
    /\ IF Host.jump /\ scenario.jump_auth = <<>>
       THEN pc' = "failed" /\ result' = Err("InvalidConfiguration") /\ UNCHANGED jump_auth
       ELSE pc' = "next" /\ jump_auth' = scenario.jump_auth /\ UNCHANGED result
    /\ UNCHANGED <<scenario, asked, queue, dialVars, authVars, offered>>

NextCandidate ==
    /\ pc = "next"
    /\ queue # <<>>
    /\ current' = Head(queue)
    /\ queue' = Tail(queue)
    /\ hop' = IF Host.jump THEN "jump" ELSE "target"
    /\ pc' = "connect"
    /\ UNCHANGED <<scenario, asked, jump_auth, addrs, process, verified, authVars, offered, result>>

\* All candidates failed: the last error is returned.
Exhausted ==
    /\ pc = "next"
    /\ queue = <<>>
    /\ pc' = "failed"
    /\ UNCHANGED <<callVars, dialVars, authVars, offered, result>>

\* Only failures of the way to an address are a reason to try another.
address_fallback_is_retryable(kind) ==
    kind \in {"Timeout", "ConnectionRefused", "Unreachable", "NameResolution"}

\* Mutant: the proxy process is left behind.
FailMutant(error) ==
    /\ result' = error
    /\ pc' = IF address_fallback_is_retryable(error.kind) THEN "next" ELSE "failed"
    /\ verified' = {}
    /\ UNCHANGED <<callVars, current, hop, addrs, process, authVars, offered>>

\* An attempt ends with an error: its stream is dropped and with it the proxy
\* process and the connection to the bastion.
Fail(error) ==
    /\ result' = error
    /\ pc' = IF address_fallback_is_retryable(error.kind) THEN "next" ELSE "failed"
    /\ process' = FALSE
    /\ verified' = {}
    /\ UNCHANGED <<callVars, current, hop, addrs, authVars, offered>>

-----------------------------------------------------------------------------
(* connect_direct and connect_via_jump *)

Goto(next) ==
    /\ pc' = next
    /\ UNCHANGED <<callVars, dialVars, authVars, offered, result>>

\* The options are checked before anything is sent.  An empty list of methods
\* stands for the missing name, port and user as well, which fail alike.
RefuseOptions ==
    /\ pc = "connect"
    /\ Methods = <<>>
    /\ Fail(Err("InvalidConfiguration"))

\* A proxy is not used towards a bastion.
UsesProxy == hop = "target" /\ ~Host.jump /\ current.proxy

SpawnProxy ==
    /\ pc = "connect" /\ Methods # <<>>
    /\ UsesProxy
    /\ process' = TRUE
    /\ pc' = "kex"
    /\ UNCHANGED <<callVars, current, hop, addrs, verified, authVars, offered, result>>

SpawnProxyFails ==
    /\ pc = "connect" /\ Methods # <<>>
    /\ UsesProxy
    /\ Fail(Err("Io"))

Lookup ==
    /\ pc = "connect" /\ Methods # <<>>
    /\ ~UsesProxy
    /\ addrs' \in 1 .. MaxAddrs
    /\ pc' = "tcp"
    /\ UNCHANGED <<callVars, current, hop, process, verified, authVars, offered, result>>

LookupFails ==
    /\ pc = "connect" /\ Methods # <<>>
    /\ ~UsesProxy
    /\ Fail(Err("NameResolution"))

LookupTimesOut ==
    /\ pc = "connect" /\ Methods # <<>>
    /\ ~UsesProxy
    /\ Fail(Err("Timeout"))

\* The addresses of a name share one deadline.
TcpConnects == pc = "tcp" /\ Goto("kex")

TcpRefused ==
    /\ pc = "tcp"
    /\ IF addrs > 1
       THEN addrs' = addrs - 1 /\ UNCHANGED <<callVars, pc, current, hop, process, verified,
                                              authVars, offered, result>>
       ELSE \E kind \in {"ConnectionRefused", "Unreachable", "Io"} : Fail(Err(kind))

TcpTimesOut == pc = "tcp" /\ Fail(Err("Timeout"))

\* Mutant: the results of the bastion's methods are kept.
KeyAcceptedMutant ==
    /\ pc = "kex"
    /\ verified' = verified \cup {Endpoint}
    /\ method' = 1
    /\ pc' = "auth"
    /\ UNCHANGED <<callVars, current, hop, addrs, process, turns, specific, offered, result>>

KeyAccepted ==
    /\ pc = "kex"
    /\ verified' = verified \cup {Endpoint}
    /\ method' = 1 /\ turns' = <<>> /\ specific' = NoError
    /\ pc' = "auth"
    /\ UNCHANGED <<callVars, current, hop, addrs, process, offered, result>>

\* The key is refused or the exchange breaks off.
KexFails ==
    /\ pc = "kex"
    /\ \E kind \in TransportErrors \cup {"HostKey"} : Fail(Err(kind))

\* The exchange has an interactive budget of its own, at either hop.
KexTimesOut == pc = "kex" /\ Fail(Err("Timeout"))

\* The bastion grants a channel to the target's port.
ForwardOpens ==
    /\ pc = "forward"
    /\ hop' = "target"
    /\ pc' = "kex"
    /\ UNCHANGED <<callVars, current, addrs, process, verified, authVars, offered, result>>

\* The channel is refused or the connection to the bastion breaks.
ForwardRefused ==
    /\ pc = "forward"
    /\ \E kind \in TransportErrors : Fail(Err(kind))

-----------------------------------------------------------------------------
(* authenticate *)

Turn(how) ==
    /\ turns' = Append(turns, how)
    /\ method' = method + 1
    /\ pc' = "auth"

Kind == Methods[method].kind

\* Mutant: the last problem replaces the first.
MethodUnusableMutant ==
    /\ pc = "auth" /\ method <= Len(Methods)
    /\ Kind \in {"password", "key", "agent"}
    /\ Turn("unusable")
    /\ specific' = [kind |-> "InvalidConfiguration", method |-> method]
    /\ UNCHANGED <<callVars, dialVars, offered, result>>

\* get_or_insert: the first error of a method is kept.
Remember(kind) ==
    specific' = IF specific = NoError THEN [kind |-> kind, method |-> method] ELSE specific

\* A method that cannot be used here (no UTF-8, no key, no agent) is passed
\* over.
MethodUnusable ==
    /\ pc = "auth" /\ method <= Len(Methods)
    /\ Kind \in {"password", "key", "agent"}
    /\ Turn("unusable")
    /\ Remember("InvalidConfiguration")
    /\ UNCHANGED <<callVars, dialVars, offered, result>>

\* Only the user can supply the passphrase of a key.
PassphraseMissing ==
    /\ pc = "auth" /\ method <= Len(Methods)
    /\ Kind = "key"
    /\ Fail(Err("CredentialRequired"))

\* The credential, or a prompt for it, goes over the wire.
Offer ==
    /\ pc = "auth" /\ method <= Len(Methods)
    /\ offered' = offered \cup {[to |-> Endpoint, owner |-> Methods[method].owner,
                                 verified |-> Endpoint \in verified]}
    /\ pc' = "verdict"
    /\ UNCHANGED <<callVars, dialVars, authVars, result>>

Accepted ==
    /\ pc = "verdict"
    /\ Goto(IF hop = "jump" THEN "forward" ELSE "connected")

Rejected ==
    /\ pc = "verdict"
    /\ Turn("rejected")
    /\ UNCHANGED <<callVars, dialVars, specific, offered, result>>

\* A transport that breaks ends the attempt, except under the agent, whose
\* error counts as one of the method.
AuthBreaks ==
    /\ pc = "verdict"
    /\ \E kind \in TransportErrors :
        IF Kind = "agent"
        THEN /\ Turn("unusable")
             /\ Remember(kind)
             /\ UNCHANGED <<callVars, dialVars, offered, result>>
        ELSE Fail(Err(kind))

\* The user cancels a prompt, does not answer in time, or not all of it.
PromptFails ==
    /\ pc = "verdict"
    /\ Kind = "interactive"
    /\ \E kind \in {"Cancelled", "Timeout", "InvalidConfiguration"} : Fail(Err(kind))

\* Mutant: the budget is looked at between two methods only.
AuthTimesOutMutant ==
    /\ pc = "auth"
    /\ Fail(Err("Timeout"))

\* One budget is for all methods of an endpoint, and runs also while the server
\* or the user is silent.
AuthTimesOut ==
    /\ pc \in {"auth", "verdict"}
    /\ Fail(Err("Timeout"))

\* The methods are used up.
AuthFails ==
    /\ pc = "auth" /\ method > Len(Methods)
    /\ Fail(IF specific = NoError THEN Err("AuthenticationFailed") ELSE specific)

-----------------------------------------------------------------------------
LoopStep == Resolve \/ Reserve \/ NextCandidate \/ Exhausted

ConnectStep ==
    \/ RefuseOptions \/ SpawnProxy \/ SpawnProxyFails \/ Lookup \/ LookupFails
    \/ LookupTimesOut \/ TcpConnects \/ TcpRefused \/ TcpTimesOut \/ KeyAccepted \/ KexFails
    \/ KexTimesOut \/ ForwardOpens \/ ForwardRefused

AuthStep ==
    \/ MethodUnusable \/ PassphraseMissing \/ Offer \/ Accepted \/ Rejected \/ AuthBreaks
    \/ PromptFails \/ AuthTimesOut \/ AuthFails

DialNext == LoopStep \/ ConnectStep \/ AuthStep

\* What ends a wait although nobody answers.
Deadline == LookupTimesOut \/ TcpTimesOut \/ KexTimesOut \/ AuthTimesOut

\* Fair are the steps the call takes by itself (the Tailscale client that the
\* resolver asks has deadlines of its own) and its deadlines.  No name server,
\* peer, agent or user has to answer; nothing ends the wait for the bastion's
\* channel but the bastion.
Fairness ==
    WF_connectVars(LoopStep \/ RefuseOptions \/ SpawnProxy \/ SpawnProxyFails \/ AuthFails
                   \/ Deadline)

DialSpec == DialInit /\ [][DialNext]_connectVars /\ Fairness

-----------------------------------------------------------------------------
(* Properties *)

\* Every variable keeps its type.
DialTypeOK ==
    /\ pc \in {"resolve", "reserve", "next", "connect", "tcp", "kex", "auth", "verdict",
               "forward", "connected", "failed"}
    /\ hop \in {"jump", "target"}
    /\ addrs \in 0 .. MaxAddrs
    /\ process \in BOOLEAN
    /\ method = Len(turns) + 1 \/ (method = 0 /\ turns = <<>>)
    /\ specific.method \in 0 .. Len(turns)
    /\ hop = "jump" => Host.jump

\* Whatever the host's addresses and the tailnet look like, the call dials
\* every enabled address once, in the order of the policy, and through the
\* proxy where userspace networking needs it.
CandidatesAreRight ==
    pc = "reserve" =>
        IsResolution(queue, configured_candidates(Host) \o ProvidedCandidates(Host, asked))

\* A server is offered only the credentials kept for it, and only after its
\* key was accepted in this very attempt: a bastion never learns the target's
\* password, also when it has none of its own.
CredentialsStayHome == \A o \in offered : o.owner = o.to[1] /\ o.verified

\* When authentication fails without an abort, every method had its turn, and
\* the error tells of the first one that could not be used, if there was any.
DiagnosisIsFirst ==
    pc \in {"next", "failed"} /\ (result.kind = "AuthenticationFailed" \/ result.method # 0) =>
        /\ Len(turns) = Len(Methods)
        /\ \A i \in DOMAIN turns : turns[i] = "unusable" => result.method \in 1 .. i

\* The process of a proxied attempt does not outlive it: none is left when the
\* next candidate is dialled or the call has failed.
NoProcessLeft == process => UsesProxy /\ pc \in {"kex", "auth", "verdict", "connected"}

\* What a dialling call keeps to at every candidate, hop and method:
\* credentials only to their verified owner, the first diagnosis for the user,
\* no proxy process left over.
DialInv ==
    /\ DialTypeOK
    /\ CredentialsStayHome
    /\ DiagnosisIsFirst
    /\ NoProcessLeft

\* However silent name servers, peers, agents and users are, at whatever
\* candidate, hop and method, a call ends connected or with an error, unless a
\* bastion leaves the request for a channel unanswered for good: that wait has
\* no deadline.
DialEnds == []<>(pc # "forward") => <>(pc \in {"connected", "failed"})
=============================================================================
