---------------------------- MODULE OriginsProofs ----------------------------
(***************************************************************************)
(* How the two gates of Origins compare, for any labels, any list of        *)
(* domains and any origin.                                                 *)
(***************************************************************************)
EXTENDS Origins, SequenceTheorems, TLAPS

LOCAL INSTANCE SequencesExt

\* A host has no capitals, so neither has a domain that covers it.
LEMMA CoversLower ==
    ASSUME NEW d \in Seq(Typed), NEW host \in Host, Covers(d, host)
    PROVE  Lower(d) = d
  <1>1. /\ SubSeq(d, 1, Len(d)) = SubSeq(host, 1, Len(d))
        /\ Len(d) <= Len(host)
    BY DEF Covers, IsPrefix
  <1>2. /\ Len(d) \in Nat /\ DOMAIN d = 1..Len(d)
        /\ Len(host) \in Nat
        /\ \A i \in 1..Len(host) : host[i] \in [name: Label, upper: {FALSE}]
    BY ElementOfSeq, LenProperties DEF Host
  <1>3. ASSUME NEW i \in 1..Len(d)
        PROVE  d[i] = [name |-> d[i].name, upper |-> FALSE]
    <2>1. d[i] = host[i]
      <3>1. SubSeq(d, 1, Len(d))[i] = d[i]
        BY <1>2
      <3>2. SubSeq(host, 1, Len(d))[i] = host[i]
        BY <1>1, <1>2 DEF Host
      <3>3. QED
        BY <1>1, <3>1, <3>2
    <2>2. host[i] \in [name: Label, upper: {FALSE}]
      <3>1. i \in 1..Len(host)
        BY <1>1, <1>2
      <3>2. QED
        BY <1>2, <3>1
    <2>3. QED
      BY <2>1, <2>2
  <1>4. Lower(d) = [i \in 1..Len(d) |-> d[i]]
    BY <1>2, <1>3 DEF Lower
  <1>5. d = [i \in 1..Len(d) |-> d[i]]
    BY <1>2
  <1>6. QED
    BY <1>4, <1>5

\* Whoever is shown a history could have opened the session for it; a session that
\* is admitted has its history refused for a local host outside production, or where
\* only entries with capitals cover the host, and for no other list, origin or agent.
THEOREM GatesCompared ==
    ASSUME NEW agent \in Embedded, NEW origin \in Origin, NEW production \in BOOLEAN
    PROVE  GatesCompare(production, agent, origin)
  <1>1. agent.allowed.entries \subseteq Seq(Typed)
    BY DEF Embedded, AllowedDomains
  <1>2. origin.kind = "url" => origin.host \in Host
    BY DEF Origin
  <1>3. ASSUME NEW d \in agent.allowed.entries, origin.kind = "url", Covers(d, origin.host)
        PROVE  Lower(d) = d
    BY <1>1, <1>2, <1>3, CoversLower
  <1>4. ASSUME HistoryAdmits(agent, origin)
        PROVE  SessionAdmits(production, agent, origin)
    BY <1>3, <1>4 DEF HistoryAdmits, ValidateDomain, SessionAdmits, OriginAllowed
  <1>5. ASSUME SessionAdmits(production, agent, origin), ~HistoryAdmits(agent, origin)
        PROVE  OnlySession(production, agent, origin)
    <2>1. /\ agent.active /\ ~agent.allowed.blank /\ origin.kind = "url"
          /\ \A d \in agent.allowed.entries : ~Covers(d, origin.host)
      BY <1>5 DEF SessionAdmits, OriginAllowed, HistoryAdmits, ValidateDomain
    <2>2. \/ ~production /\ origin.host \in Local
          \/ \E d \in agent.allowed.entries : Covers(Lower(d), origin.host)
      BY <1>5, <2>1 DEF SessionAdmits, OriginAllowed
    <2>3. QED
      BY <2>1, <2>2 DEF OnlySession
  <1>6. ASSUME OnlySession(production, agent, origin)
        PROVE  SessionAdmits(production, agent, origin) /\ ~HistoryAdmits(agent, origin)
    <2>1. \A d \in agent.allowed.entries : ~Covers(d, origin.host)
      BY <1>3, <1>6 DEF OnlySession
    <2>2. QED
      BY <1>6, <2>1 DEF OnlySession, SessionAdmits, OriginAllowed, HistoryAdmits,
                        ValidateDomain
  <1>7. QED
    BY <1>4, <1>5, <1>6 DEF GatesCompare
=============================================================================
