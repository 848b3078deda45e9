------------------------- MODULE AddressCandidates -------------------------
(***************************************************************************)
(* The addresses a host is dialled at: the CandidateResolver of            *)
(* kodework-network and the Tailscale provider that feeds it.  Pure        *)
(* operators: an address is [name, kind, priority, enabled], where a name  *)
(* stands for a host name or IP with its port; a candidate adds whether it *)
(* is reached through a proxy process.  A Tailscale status is the set of   *)
(* names that are online and the IPs of the peers that match the host's    *)
(* device name, in the order of the peer map.                              *)
(***************************************************************************)
EXTENDS Integers, Sequences, FiniteSets, SequencesExt, TLC

CONSTANTS
    PreferTailscale,   \* ResolverPolicy.prefer_tailscale
    AllowPublic        \* ResolverPolicy.allow_public_fallback

AddressKind == {"Lan", "Tailscale", "Public", "JumpHost", "Manual"}
NoStatus == [failed |-> TRUE]

\* Lower wins.
score(kind) ==
    CASE kind = "Manual" -> 0
      [] kind = "Tailscale" -> IF PreferTailscale THEN 1 ELSE 3
      [] kind = "Lan" -> 2
      [] kind = "Public" -> IF AllowPublic THEN 4 ELSE 99
      [] kind = "JumpHost" -> 5

\* sort_key: the score, then the higher priority of the user.
Before(c, d) ==
    \/ score(c.kind) < score(d.kind)
    \/ score(c.kind) = score(d.kind) /\ c.priority > d.priority

\* sort_by_key is stable: equal candidates keep their order.
SortedCandidates(cs) ==
    LET first(i, j) == Before(cs[i], cs[j]) \/ (~Before(cs[j], cs[i]) /\ i < j)
        order == SortSeq([i \in DOMAIN cs |-> i], first)
    IN  [i \in DOMAIN cs |-> cs[order[i]]]

Candidate(address, proxy) == [name |-> address.name, kind |-> address.kind,
                              priority |-> address.priority, proxy |-> proxy]

configured_candidates(host) ==
    LET usable(a) == a.enabled /\ (AllowPublic \/ a.kind # "Public")
        used == SelectSeq(host.addresses, usable)
    IN  SortedCandidates([i \in DOMAIN used |-> Candidate(used[i], FALSE)])

TailscaleAddresses(host) ==
    SelectSeq(host.addresses, LAMBDA a : a.kind = "Tailscale" /\ a.enabled)

\* Configured Tailscale addresses that are online, then the peers with the
\* host's device name.
discover_candidates(host, status) ==
    LET online == SelectSeq(TailscaleAddresses(host), LAMBDA a : a.name \in status.online)
        found == [i \in DOMAIN status.peers |->
                     [name |-> status.peers[i], kind |-> "Tailscale", priority |-> 10]]
        cs == online \o (IF host.device THEN found ELSE <<>>)
    IN  [i \in DOMAIN cs |-> Candidate(cs[i], host.userspace)]

\* A host without Tailscale is not asked about; a failing provider adds none.
ProvidedCandidates(host, status) ==
    IF (~host.tailscale /\ TailscaleAddresses(host) = <<>>) \/ status = NoStatus
    THEN <<>>
    ELSE discover_candidates(host, status)

\* Mutant: the first of a name always stays.
deduplicateMutant(cs) ==
    FoldLeft(LAMBDA out, c : IF \E i \in DOMAIN out : out[i].name = c.name THEN out ELSE Append(out, c),
             <<>>, SortedCandidates(cs))

\* The first of a name stays in its place; one with a proxy takes the place of
\* one without.
deduplicate(cs) ==
    LET add(out, c) ==
            IF \A i \in DOMAIN out : out[i].name # c.name THEN Append(out, c)
            ELSE [i \in DOMAIN out |->
                     IF out[i].name = c.name /\ ~out[i].proxy /\ c.proxy THEN c ELSE out[i]]
    IN  SortedCandidates(FoldLeft(add, <<>>, cs))

candidates(host, status) ==
    deduplicate(configured_candidates(host) \o ProvidedCandidates(host, status))

\* What the resolver promises of its result cs for the addresses offered:
\* every name once, in the order of the policy, and a name that can be reached
\* through a proxy is.
IsResolution(cs, offeredCandidates) ==
    LET offers(n) == {c \in Range(offeredCandidates) : c.name = n} IN
    /\ {c.name : c \in Range(cs)} = {c.name : c \in Range(offeredCandidates)}
    /\ \A i, j \in DOMAIN cs : i < j => cs[i].name # cs[j].name /\ ~Before(cs[j], cs[i])
    /\ \A c \in Range(cs) : c \in offers(c.name) /\ c.proxy = \E d \in offers(c.name) : d.proxy
=============================================================================
