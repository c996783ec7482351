----------------------------- MODULE WidgetAuth -----------------------------
(***************************************************************************)
(* WidgetAuthService: the codes mailed to members of an organization who    *)
(* use a private agent in the widget, and the tokens they get for them; the *)
(* sessions of SessionService, which share the cache; members and agents    *)
(* that are removed meanwhile.                                             *)
(***************************************************************************)
EXTENDS Team

CONSTANTS
    Visitor,        \* the addresses clients can name: the DTOs lower-case them
    Session,        \* ids the widgets choose
    Reach,          \* which of inactive, public and private an agent gets to be
    OtpRateLimit,   \* OTP_RATE_LIMIT
    Attempts,       \* wrong attempts after which a code is dead
    MaxCodes,       \* codes made in a behaviour: a bound
    MaxLost         \* comparisons with a code that are not counted: a bound

ASSUME VisitorAssumption == Visitor \subseteq Email
ASSUME ReachAssumption   == Reach \subseteq {"inactive", "public", "private"}
ASSUME LimitsAssumption  == {OtpRateLimit, Attempts, MaxCodes} \subseteq Nat \ {0}
ASSUME LostAssumption    == MaxLost \in Nat

VARIABLES
    otps,       \* widget_otp_codes: rows, see Otp
    made,       \* codes made so far; they are numbered by created_at
    cache,      \* the widget_session:<agent>:<session> keys
    reach,      \* of each agent: inactive, public or private
    tries,      \* history: how often what was submitted was compared with each
                \* code, as long as it can be
    lost        \* history: how many of the comparisons were never written down

widget == <<otps, made, cache, reach, tries, lost>>
all    == <<vars, widget>>

Code  == 1..MaxCodes
\* fresh: before expires_at; recent: created within the hour, expired.  An older row
\* stays in the table and no query finds it: it is left out.
Otp   == [code: Code, agent: Agent, email: Email, attempts: Nat, used: BOOLEAN,
          age: {"fresh", "recent"}]
Entry == [agent: Agent, session: Session, token: Token]

WidgetRequest ==
    [pc: {"checkAccess", "countCodes", "saveOtp"}, agent: Agent, email: Email]
        \cup [pc: {"countAttempt"}, code: Code, seen: Nat]
        \cup [pc: {"useCode"}, code: Code, agent: Agent, email: Email, session: Session]
        \cup [pc: {"readAgent", "readCache", "saveToken"}, agent: Agent,
              email: Email, session: Session]
        \cup [pc: {"readSession"}, agent: Agent, session: Session]
        \cup [pc: {"cacheToken"}, agent: Agent, session: Session, token: Token]

Active(a)  == AgentExists(a) /\ reach[a] # "inactive"
Private(a) == AgentExists(a) /\ reach[a] = "private"
Goto(r, pc) == Continue(r, [requests[r] EXCEPT !.pc = pc])

\* Nothing is compared again with a code that is used, expired or gone.
Usable(o) == ~o.used /\ o.age = "fresh"
InUse == {o.code : o \in {p \in otps : Usable(p)}}
ForgetTries == /\ tries' = [c \in Code |-> IF c \in InUse' THEN tries[c] ELSE 0]
               /\ lost'  = [c \in Code |-> IF c \in InUse' THEN lost[c] ELSE 0]

-----------------------------------------------------------------------------
(* requestOtp.  Whatever it finds, the answer is the same.                 *)

RequestOtp(r) ==
    /\ At(r, "idle")
    /\ \E a \in Agent, e \in Visitor :
          /\ Private(a)
          /\ Continue(r, [pc |-> "checkAccess", agent |-> a, email |-> e])
    /\ UNCHANGED <<tables, clients, widget>>

\* checkUserAccess.
HasAccess(email, a) ==
    \E u \in users, row \in agents : /\ u.email = email
                                     /\ row.id = a /\ row.org = u.org
                                     /\ MayUse(u, a)

\* Mutant of CheckAccess: nobody is asked for.
SkipAccess(r) ==
    /\ At(r, "checkAccess")
    /\ Goto(r, "countCodes")
    /\ UNCHANGED <<tables, clients, widget>>
\* The agent's organization is the one that was read with it; it never changes.
CheckAccess(r) ==
    /\ At(r, "checkAccess")
    /\ LET req == requests[r]
       IN IF HasAccess(req.email, req.agent) THEN Goto(r, "countCodes") ELSE Respond(r)
    /\ UNCHANGED <<tables, clients, widget>>

Recent(email, a) ==
    {o \in otps : o.email = email /\ o.agent = a}

\* Mutant of MayRequest: > for >=.
MayRequestOneMore(n) == ~(n > OtpRateLimit)
MayRequest(n)        == ~(n >= OtpRateLimit)

CountCodes(r) ==
    /\ At(r, "countCodes")
    /\ IF MayRequest(Cardinality(Recent(requests[r].email, requests[r].agent)))
       THEN Goto(r, "saveOtp") ELSE Respond(r)
    /\ UNCHANGED <<tables, clients, widget>>

\* Mutant of NewOtp: attempts has no default.
NewOtpNoDefault(req) == [code |-> made + 1, agent |-> req.agent, email |-> req.email,
                         used |-> FALSE, age |-> "fresh"]
NewOtp(req)          == [code |-> made + 1, agent |-> req.agent, email |-> req.email,
                         attempts |-> 0, used |-> FALSE, age |-> "fresh"]

\* The code is stored, and mailed to the address.
SaveOtp(r) ==
    /\ At(r, "saveOtp")
    /\ made < MaxCodes
    /\ LET req == requests[r]
       IN IF AgentExists(req.agent)
          THEN /\ otps' = otps \cup {NewOtp(req)}
               /\ made' = made + 1
          ELSE UNCHANGED <<otps, made>>     \* the foreign key is missing
    /\ Respond(r)
    /\ UNCHANGED <<tables, clients, cache, reach, tries, lost>>

-----------------------------------------------------------------------------
(* verifyOtp.                                                              *)

Unused(email, a) ==
    {o \in otps : o.email = email /\ o.agent = a /\ Usable(o)}
Newest(rows) == CHOOSE o \in rows : \A p \in rows : p.code <= o.code

\* The code submitted is the newest one, or it is not.
VerifyOtp(r) ==
    /\ At(r, "idle")
    /\ \E a \in Agent, e \in Visitor, s \in Session, right \in BOOLEAN :
          /\ Unused(e, a) # {}
          /\ LET otp == Newest(Unused(e, a))
             IN /\ otp.attempts < Attempts
                /\ tries' = [tries EXCEPT ![otp.code] = @ + 1]
                /\ Continue(r, IF right
                               THEN [pc |-> "useCode", code |-> otp.code, agent |-> a,
                                     email |-> e, session |-> s]
                               ELSE [pc |-> "countAttempt", code |-> otp.code,
                                     seen |-> otp.attempts])
    /\ UNCHANGED <<tables, clients, otps, made, cache, reach, lost>>

\* Mutant of Counted: the row that was read is saved with one more.
CountedOnRead(o, req) == req.seen + 1
\* increment: the database adds to what it has.
Counted(o, req)       == o.attempts + 1

CountAttempt(r) ==
    /\ At(r, "countAttempt")
    /\ otps' = {IF o.code = requests[r].code
                THEN [o EXCEPT !.attempts = Counted(o, requests[r])] ELSE o : o \in otps}
    /\ Respond(r)
    /\ UNCHANGED <<tables, clients, made, cache, reach, tries, lost>>

UseCode(r) ==
    /\ At(r, "useCode")
    /\ otps' = {IF o.code = requests[r].code THEN [o EXCEPT !.used = TRUE] ELSE o :
                   o \in otps}
    /\ LET req == requests[r]
       IN Continue(r, [pc |-> "readAgent", agent |-> req.agent, email |-> req.email,
                       session |-> req.session])
    /\ ForgetTries
    /\ UNCHANGED <<tables, clients, made, cache, reach>>

ReadAgent(r) ==
    /\ At(r, "readAgent")
    /\ IF Active(requests[r].agent) THEN Goto(r, "readCache") ELSE Respond(r)
    /\ UNCHANGED <<tables, clients, widget>>

Cached(a, s) == {e \in cache : e.agent = a /\ e.session = s}

\* A token in the cache is the answer.
ReadCache(r) ==
    /\ At(r, "readCache")
    /\ IF Cached(requests[r].agent, requests[r].session) = {}
       THEN Goto(r, "saveToken") ELSE Respond(r)
    /\ UNCHANGED <<tables, clients, widget>>

SaveToken(r) ==
    /\ At(r, "saveToken")
    /\ LET req == requests[r]
       IN IF AgentExists(req.agent)
          THEN \E t \in Token \ issued :
                  /\ widgetTokens' = widgetTokens \cup
                        {[token |-> t, agent |-> req.agent, email |-> req.email,
                          revoked |-> FALSE, expired |-> FALSE]}
                  /\ issued' = issued \cup {t}
                  /\ Continue(r, [pc |-> "cacheToken", agent |-> req.agent,
                                  session |-> req.session, token |-> t])
          ELSE Respond(r) /\ UNCHANGED <<widgetTokens, issued>>
    /\ UNCHANGED <<orgs, users, agents, access, invitations, refreshKeys, clients, widget>>

CacheToken(r) ==
    /\ At(r, "cacheToken")
    /\ LET req == requests[r]
       IN cache' = (cache \ Cached(req.agent, req.session)) \cup
                      {[agent |-> req.agent, session |-> req.session, token |-> req.token]}
    /\ Respond(r)
    /\ UNCHANGED <<tables, clients, otps, made, reach, tries, lost>>

-----------------------------------------------------------------------------
(* SessionService.createSession: for any agent; its tokens have no row.    *)

CreateSession(r) ==
    /\ At(r, "idle")
    /\ \E a \in Agent, s \in Session :
          /\ Active(a)
          /\ Continue(r, [pc |-> "readSession", agent |-> a, session |-> s])
    /\ UNCHANGED <<tables, clients, widget>>

ReadSession(r) ==
    /\ At(r, "readSession")
    /\ LET req == requests[r]
       IN IF Cached(req.agent, req.session) = {}
          THEN \E t \in Token \ issued :
                  /\ issued' = issued \cup {t}
                  /\ Continue(r, [pc |-> "cacheToken", agent |-> req.agent,
                                  session |-> req.session, token |-> t])
          ELSE Respond(r) /\ UNCHANGED issued
    /\ UNCHANGED <<orgs, users, agents, access, invitations, widgetTokens, refreshKeys,
                   clients, widget>>

\* WidgetAuthGuard.canActivate, for a request that carries the token.
Admits(t, a) ==
    /\ Active(a)
    /\ \/ reach[a] = "public"
       \/ \E row \in widgetTokens : /\ row.token = t /\ row.agent = a
                                    /\ ~row.revoked /\ ~row.expired

-----------------------------------------------------------------------------
(* Time, the cache, and what the team does meanwhile.                      *)

\* Ten minutes, then the hour, pass for a code; for an older one they have.
Older(o) == IF o.age = "fresh" THEN {[o EXCEPT !.age = "recent"]} ELSE {}
Age ==
    /\ \E o \in otps :
          /\ \A p \in otps : p.code < o.code => p.age # o.age
          /\ otps' = (otps \ {o}) \cup Older(o)
    /\ ForgetTries
    /\ UNCHANGED <<vars, made, cache, reach>>

\* A key ends its time to live, or Redis loses it.
Evict ==
    /\ \E e \in cache : cache' = cache \ {e}
    /\ UNCHANGED <<vars, otps, made, reach, tries, lost>>

\* The expires_at of a token passes.
ExpireToken ==
    /\ \E t \in widgetTokens :
          /\ ~t.expired
          /\ widgetTokens' = (widgetTokens \ {t}) \cup {[t EXCEPT !.expired = TRUE]}
    /\ UNCHANGED <<orgs, users, agents, access, invitations, refreshKeys, issued, clients,
                   requests, widget>>

\* AgentsService.update sets is_active and access_type.  It reads the row and saves
\* it some time later; any value at any time is what that comes to.
Configure ==
    /\ \E a \in Agent, to \in Reach :
          /\ AgentExists(a)
          /\ reach' = [reach EXCEPT ![a] = to]
    /\ UNCHANGED <<vars, otps, made, cache, tries, lost>>

\* The codes of an agent go with it, too.
DropAgent ==
    /\ RemoveAgent
    /\ otps' = {o \in otps : AgentExists(o.agent)'}
    /\ ForgetTries
    /\ UNCHANGED <<made, cache, reach>>

WidgetCall(r) == RequestOtp(r) \/ VerifyOtp(r) \/ CreateSession(r)
WidgetHandler(r) ==
    CheckAccess(r) \/ CountCodes(r) \/ SaveOtp(r) \/ CountAttempt(r) \/ UseCode(r)
        \/ ReadAgent(r) \/ ReadCache(r) \/ SaveToken(r) \/ CacheToken(r) \/ ReadSession(r)

\* The process dies or a query fails: the handler goes no further.  Where it was
\* about to write a comparison down, nobody ever will.
Uncounted(r) == /\ requests[r].pc \in {"countAttempt", "useCode"}
                /\ requests[r].code \in InUse
Fail(r) ==
    /\ ~At(r, "idle")
    /\ IF Uncounted(r)
       THEN /\ lost[requests[r].code] < MaxLost
            /\ lost' = [lost EXCEPT ![requests[r].code] = @ + 1]
       ELSE UNCHANGED lost
    /\ Respond(r)
    /\ UNCHANGED <<tables, clients, otps, made, cache, reach, tries>>

Next ==
    \/ \E r \in Req : \/ WidgetCall(r) \/ WidgetHandler(r) \/ Fail(r)
                      \/ (RemoveMember(r) \/ RemoveTx(r)) /\ UNCHANGED widget
    \/ Age \/ Evict \/ ExpireToken \/ Configure \/ DropAgent

-----------------------------------------------------------------------------
\* The tables, codes, cached tokens and what handlers carry are well typed.
WidgetTypeOK ==
    /\ users \subseteq User
    /\ agents \subseteq AgentRow
    /\ access \subseteq AccessRow
    /\ widgetTokens \subseteq WidgetToken
    /\ otps \subseteq Otp
    /\ made \in 0..MaxCodes
    /\ cache \subseteq Entry
    /\ reach \in [Agent -> Reach]
    /\ {tries, lost} \subseteq [Code -> Nat]
    /\ requests \in [Req -> {Idle} \cup TeamRequest \cup WidgetRequest]

\* "Rate limit: max OTP_RATE_LIMIT requests per hour": requests that overlap all
\* see the count before any of them is stored, so an address may get more codes,
\* but never more than one more for each request in flight with the last.
RateBounded ==
    \A a \in Agent, e \in Email :
        Cardinality(Recent(e, a)) < OtpRateLimit + Cardinality(Req)

\* A code is compared with what clients submit three times; verifications that
\* overlap may all have seen two attempts, and each makes one comparison more; and
\* one more for each whose increment, or whose usedAt, failed or was never sent
\* (widget-auth.service.ts:108, 113).  Also a code that is right, and used, ends the
\* comparisons that way.
TriesBounded == \A c \in Code : tries[c] < Attempts + Cardinality(Req) + lost[c]

HasHandler(e) ==
    \E r \in Req : \/ /\ requests[r].pc \in {"checkAccess", "countCodes", "saveOtp", "useCode",
                                           "readAgent", "readCache", "saveToken"}
                     /\ requests[r].email = e
                     /\ ~(At(r, "checkAccess") /\ \A u \in users : u.email # e)
LockedOut(e) ==
    /\ \A u \in users : u.email # e
    /\ \A o \in otps : o.email = e => ~Usable(o)
    /\ \A t \in widgetTokens : t.email = e => t.revoked \/ t.expired
    /\ ~HasHandler(e)

\* Once an address belongs to no member, has no code left, no token that is neither
\* revoked nor expired, and no handler at work for it, it stays so: nothing but a code lets
\* it in, and no code is made for it.  (removeMember revokes the tokens of a
\* member and leaves its codes.)
StaysOut == [][\A e \in Email : LockedOut(e) => LockedOut(e)']_all

\* WidgetAuthGuard: "Session expired -- please re-authenticate".  The token that
\* verifyOtp answers from the cache is one that the guard admits.
ReauthenticationHelps ==
    [][\A r \in Req : At(r, "readCache") /\ At(r, "idle")' =>
          \E e \in Cached(requests[r].agent, requests[r].session) :
              Admits(e.token, e.agent)]_all
=============================================================================
