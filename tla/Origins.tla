------------------------------ MODULE Origins ------------------------------
(***************************************************************************)
(* Which sites may embed an agent: the Origin of a request is compared with *)
(* the agent's allowed_domains in two places, by createSession and before  *)
(* the history of a chat.  A name is the sequence of its labels, the        *)
(* top-level domain first, so that a domain is a prefix of its subdomains.  *)
(***************************************************************************)
EXTENDS Naturals, Sequences

LOCAL INSTANCE SequencesExt

CONSTANTS
    Label,      \* labels of names, in lower case
    Local       \* the hosts "localhost" and "127.0.0.1"

\* A label as it was typed: with a capital in it, or without.
Typed == [name: Label, upper: BOOLEAN]

\* new URL() puts a host in lower case.
Host == Seq([name: Label, upper: {FALSE}])
Origin == [kind: {"url"}, host: Host] \cup [kind: {"absent", "malformed"}]

\* allowed_domains, split at its commas; blank is NULL or nothing but space.
\* A list may be neither blank nor have an entry: ",".
AllowedDomains == [blank: BOOLEAN, entries: SUBSET Seq(Typed)]

Lower(d) == [i \in DOMAIN d |-> [name |-> d[i].name, upper |-> FALSE]]

\* hostname === d || hostname.endsWith(`.${d}`).
Covers(d, host) == IsPrefix(d, host)

\* What findByIdPublic and createSession read of an agent.
Embedded == [active: BOOLEAN, allowed: AllowedDomains]

\* AgentsService.validateDomain: what does not parse throws, as does absence.
ValidateDomain(allowed, origin) ==
    \/ allowed.blank
    \/ /\ origin.kind = "url"
       /\ \E d \in allowed.entries : Covers(d, origin.host)

\* ChatController.history, for what has passed its WidgetAuthGuard (Admits of
\* WidgetAuth): everything that is thrown is answered alike.
HistoryAdmits(agent, origin) == agent.active /\ ValidateDomain(agent.allowed, origin)

\* SessionService.assertOriginAllowed.
OriginAllowed(production, allowed, origin) ==
    \/ allowed.blank
    \/ /\ origin.kind = "url"
       /\ \/ ~production /\ origin.host \in Local
          \/ \E d \in allowed.entries : Covers(Lower(d), origin.host)

\* SessionService.createSession, before it looks for a token.
SessionAdmits(production, agent, origin) ==
    agent.active /\ OriginAllowed(production, agent.allowed, origin)

\* Where the gate of the session is open and that of the history is not: outside
\* production for a local host that no entry covers, and wherever an entry covers
\* the host only when its capitals are put in lower case, which validateDomain,
\* unlike assertOriginAllowed, does not do.
OnlySession(production, agent, origin) ==
    /\ agent.active /\ ~agent.allowed.blank /\ origin.kind = "url"
    /\ \A d \in agent.allowed.entries : Lower(d) = d => ~Covers(d, origin.host)
    /\ \/ ~production /\ origin.host \in Local
       \/ \E d \in agent.allowed.entries : Lower(d) # d /\ Covers(Lower(d), origin.host)

\* The two gates of a widget, compared: whoever is shown a history could have opened
\* the session for it; the reverse fails where OnlySession says, and nowhere else.
GatesCompare(production, agent, origin) ==
    /\ HistoryAdmits(agent, origin) => SessionAdmits(production, agent, origin)
    /\ SessionAdmits(production, agent, origin) /\ ~HistoryAdmits(agent, origin)
          <=> OnlySession(production, agent, origin)
=============================================================================
