--------------------------- MODULE WidgetAuthProofs --------------------------
(***************************************************************************)
(* Theorems about WidgetAuth, for any sets of agents, addresses, sessions,  *)
(* tokens and requests, any limits, and any team to start with.            *)
(***************************************************************************)
EXTENDS WidgetAuth, FiniteSetTheorems, WellFoundedInduction, TLAPS

\* A behaviour starts with any organizations, members, agents and tokens, but
\* without codes and handlers.
Start == /\ WidgetTypeOK
         /\ otps = {} /\ made = 0
         /\ tries = [c \in Code |-> 0] /\ lost = [c \in Code |-> 0]
         /\ requests = [r \in Req |-> Idle]
Behaviour == Start /\ [][Next]_all

(* ------------------------- Type correctness ---------------------------- *)

Request    == {Idle} \cup TeamRequest \cup WidgetRequest
CodeWanted == [pc: {"checkAccess", "countCodes", "saveOtp"}, agent: Agent, email: Email]
Verified   == [pc: {"readAgent", "readCache", "saveToken"}, agent: Agent, email: Email,
               session: Session]

\* What the program counter of a request says about the record.
LEMMA RequestFields ==
    ASSUME WidgetTypeOK, NEW r \in Req
    PROVE  /\ requests[r].pc \in {"checkAccess", "countCodes", "saveOtp"} =>
                 /\ requests[r] \in CodeWanted
                 /\ requests[r].agent \in Agent /\ requests[r].email \in Email
           /\ At(r, "countAttempt") => requests[r].code \in Code
           /\ At(r, "useCode") => /\ requests[r].code \in Code
                                  /\ requests[r].agent \in Agent
                                  /\ requests[r].email \in Email
                                  /\ requests[r].session \in Session
           /\ requests[r].pc \in {"readAgent", "readCache", "saveToken"} =>
                 /\ requests[r] \in Verified
                 /\ requests[r].agent \in Agent /\ requests[r].email \in Email
                 /\ requests[r].session \in Session
           /\ At(r, "readSession") => /\ requests[r].agent \in Agent
                                      /\ requests[r].session \in Session
           /\ At(r, "cacheToken") => /\ requests[r].agent \in Agent
                                     /\ requests[r].session \in Session
                                     /\ requests[r].token \in Token
           /\ At(r, "removeTx") => requests[r].target \in User
  <1>1. requests[r] \in Request
    BY DEF WidgetTypeOK, Request
  <1>2. requests[r].pc \in {"checkAccess", "countCodes", "saveOtp"} =>
           requests[r] \in CodeWanted
    BY <1>1 DEF Request, Idle, TeamRequest, WidgetRequest, CodeWanted
  <1>3. requests[r].pc \in {"readAgent", "readCache", "saveToken"} =>
           requests[r] \in Verified
    BY <1>1 DEF Request, Idle, TeamRequest, WidgetRequest, Verified
  <1>4. /\ At(r, "countAttempt") => requests[r].code \in Code
        /\ At(r, "useCode") => /\ requests[r].code \in Code
                               /\ requests[r].agent \in Agent
                               /\ requests[r].email \in Email
                               /\ requests[r].session \in Session
    BY <1>1 DEF Request, Idle, TeamRequest, WidgetRequest, At
  <1>5. /\ At(r, "readSession") => /\ requests[r].agent \in Agent
                                   /\ requests[r].session \in Session
        /\ At(r, "cacheToken") => /\ requests[r].agent \in Agent
                                  /\ requests[r].session \in Session
                                  /\ requests[r].token \in Token
        /\ At(r, "removeTx") => requests[r].target \in User
    BY <1>1 DEF Request, Idle, TeamRequest, WidgetRequest, At
  <1>6. QED
    BY <1>2, <1>3, <1>4, <1>5 DEF CodeWanted, Verified

\* A step of one handler leaves the others, and its own slot gets the record.
LEMMA ContinueSlots ==
    ASSUME WidgetTypeOK, NEW r \in Req, NEW rec, Continue(r, rec)
    PROVE  /\ requests'[r] = rec
           /\ \A s \in Req \ {r} : requests'[s] = requests[s]
           /\ rec \in Request => requests' \in [Req -> Request]
  BY DEF WidgetTypeOK, Continue, Request

LEMMA RespondSlots ==
    ASSUME WidgetTypeOK, NEW r \in Req, Respond(r)
    PROVE  /\ requests'[r] = Idle
           /\ \A s \in Req \ {r} : requests'[s] = requests[s]
           /\ requests' \in [Req -> Request]
  <1>1. Idle \in Request
    BY DEF Request
  <1>2. QED
    BY <1>1, ContinueSlots DEF Respond

\* The two chains of steps that keep their record but for the program counter.
LEMMA GotoSlots ==
    ASSUME WidgetTypeOK, NEW r \in Req, NEW pc, Goto(r, pc),
           \/ /\ requests[r].pc \in {"checkAccess", "countCodes", "saveOtp"}
              /\ pc \in {"checkAccess", "countCodes", "saveOtp"}
           \/ /\ requests[r].pc \in {"readAgent", "readCache", "saveToken"}
              /\ pc \in {"readAgent", "readCache", "saveToken"}
    PROVE  /\ requests'[r].pc = pc
           /\ requests'[r].agent = requests[r].agent
           /\ requests'[r].email = requests[r].email
           /\ \A s \in Req \ {r} : requests'[s] = requests[s]
           /\ requests' \in [Req -> Request]
  <1>1. ASSUME NEW rec \in CodeWanted, pc \in {"checkAccess", "countCodes", "saveOtp"}
        PROVE  /\ [rec EXCEPT !.pc = pc] \in Request
               /\ [rec EXCEPT !.pc = pc].pc = pc
               /\ [rec EXCEPT !.pc = pc].agent = rec.agent
               /\ [rec EXCEPT !.pc = pc].email = rec.email
    <2>1. [rec EXCEPT !.pc = pc] \in CodeWanted
      BY <1>1 DEF CodeWanted
    <2>2. QED
      BY <1>1, <2>1 DEF CodeWanted, Request, WidgetRequest
  <1>2. ASSUME NEW rec \in Verified, pc \in {"readAgent", "readCache", "saveToken"}
        PROVE  /\ [rec EXCEPT !.pc = pc] \in Request
               /\ [rec EXCEPT !.pc = pc].pc = pc
               /\ [rec EXCEPT !.pc = pc].agent = rec.agent
               /\ [rec EXCEPT !.pc = pc].email = rec.email
    <2>1. [rec EXCEPT !.pc = pc] \in Verified
      BY <1>2 DEF Verified
    <2>2. QED
      BY <1>2, <2>1 DEF Verified, Request, WidgetRequest
  <1>3. \/ requests[r] \in CodeWanted /\ pc \in {"checkAccess", "countCodes", "saveOtp"}
        \/ requests[r] \in Verified /\ pc \in {"readAgent", "readCache", "saveToken"}
    BY RequestFields
  <1>4. Continue(r, [requests[r] EXCEPT !.pc = pc])
    BY DEF Goto
  <1>5. CASE requests[r] \in CodeWanted /\ pc \in {"checkAccess", "countCodes", "saveOtp"}
    <2> DEFINE rec == requests[r]
               new == [rec EXCEPT !.pc = pc]
    <2>1. /\ new \in Request /\ new.pc = pc
          /\ new.agent = rec.agent /\ new.email = rec.email
      BY <1>1, <1>5
    <2>2. Continue(r, new)
      BY <1>4
    <2> HIDE DEF new
    <2>3. QED
      BY <2>1, <2>2, ContinueSlots
  <1>6. CASE requests[r] \in Verified /\ pc \in {"readAgent", "readCache", "saveToken"}
    <2> DEFINE rec == requests[r]
               new == [rec EXCEPT !.pc = pc]
    <2>1. /\ new \in Request /\ new.pc = pc
          /\ new.agent = rec.agent /\ new.email = rec.email
      BY <1>2, <1>6
    <2>2. Continue(r, new)
      BY <1>4
    <2> HIDE DEF new
    <2>3. QED
      BY <2>1, <2>2, ContinueSlots
  <1>7. QED
    BY <1>3, <1>5, <1>6

\* Of a set of rows that is not empty there is a newest one.
LEMMA NewestIsOne ==
    ASSUME NEW rows, rows \subseteq Otp, rows # {}
    PROVE  Newest(rows) \in rows
  <1> DEFINE ages == {MaxCodes - o.code : o \in rows}
             less == OpToRel(<, Nat)
  <1>1. MaxCodes \in Nat
    BY LimitsAssumption
  <1>2. \A o \in rows : o.code \in 1..MaxCodes
    BY DEF Otp, Code
  <1>3. ages \subseteq Nat /\ ages # {}
    BY <1>1, <1>2
  <1>4. PICK m \in ages : \A n \in ages : ~ (<<n, m>> \in less)
    <2> HIDE DEF ages
    <2>1. QED
      BY <1>3, NatLessThanWellFounded, WFMin, Zenon
  <1>5. \A n \in ages : ~ (n < m)
    BY <1>3, <1>4, Zenon DEF OpToRel
  <1>6. PICK o \in rows : m = MaxCodes - o.code
    BY <1>4
  <1>7. \A p \in rows : p.code <= o.code
    BY <1>1, <1>2, <1>5, <1>6
  <1>8. QED
    BY <1>7 DEF Newest

\* The code that is verified is the newest, so it is one of the rows.
LEMMA VerifiedCode ==
    ASSUME WidgetTypeOK, NEW a, NEW e, Unused(e, a) # {}
    PROVE  /\ Newest(Unused(e, a)) \in otps
           /\ Newest(Unused(e, a)) \in Otp
           /\ Usable(Newest(Unused(e, a)))
           /\ Newest(Unused(e, a)).code \in Code
           /\ Newest(Unused(e, a)).attempts \in Nat
  <1>1. Unused(e, a) \subseteq otps /\ otps \subseteq Otp
    BY DEF Unused, WidgetTypeOK
  <1>2. Newest(Unused(e, a)) \in Unused(e, a)
    BY <1>1, NewestIsOne
  <1>3. QED
    BY <1>1, <1>2 DEF Unused, Otp

\* requestOtp, verifyOtp and createSession keep the types.
LEMMA CallType ==
    ASSUME WidgetTypeOK, NEW r \in Req, WidgetCall(r)
    PROVE  WidgetTypeOK'
  <1>1. CASE RequestOtp(r)
    <2>1. PICK a \in Agent, e \in Visitor :
             Continue(r, [pc |-> "checkAccess", agent |-> a, email |-> e])
      BY <1>1 DEF RequestOtp
    <2>2. [pc |-> "checkAccess", agent |-> a, email |-> e] \in Request
      BY VisitorAssumption DEF Request, WidgetRequest
    <2>3. requests' \in [Req -> Request]
      BY <2>1, <2>2, ContinueSlots
    <2>4. QED
      BY <1>1, <2>3 DEF RequestOtp, WidgetTypeOK, tables, widget, Request
  <1>2. CASE VerifyOtp(r)
    <2>1. PICK a \in Agent, e \in Visitor, s \in Session, right \in BOOLEAN :
             /\ Unused(e, a) # {}
             /\ LET otp == Newest(Unused(e, a))
                IN /\ otp.attempts < Attempts
                   /\ tries' = [tries EXCEPT ![otp.code] = @ + 1]
                   /\ Continue(r, IF right
                                  THEN [pc |-> "useCode", code |-> otp.code, agent |-> a,
                                        email |-> e, session |-> s]
                                  ELSE [pc |-> "countAttempt", code |-> otp.code,
                                        seen |-> otp.attempts])
      BY <1>2 DEF VerifyOtp
    <2> DEFINE otp == Newest(Unused(e, a))
    <2>2. otp.code \in Code /\ otp.attempts \in Nat
      BY <2>1, VerifiedCode
    <2> HIDE DEF otp
    <2>3. tries' \in [Code -> Nat]
      <3>1. tries' = [tries EXCEPT ![otp.code] = @ + 1]
        BY <2>1 DEF otp
      <3>2. QED
        BY <2>2, <3>1 DEF WidgetTypeOK
    <2>4. /\ [pc |-> "useCode", code |-> otp.code, agent |-> a,
              email |-> e, session |-> s] \in Request
          /\ [pc |-> "countAttempt", code |-> otp.code, seen |-> otp.attempts] \in Request
      BY <2>2, VisitorAssumption DEF Request, WidgetRequest
    <2>5. requests' \in [Req -> Request]
      BY <2>1, <2>4, ContinueSlots DEF otp
    <2>6. QED
      BY <1>2, <2>3, <2>5 DEF VerifyOtp, WidgetTypeOK, tables, Request
  <1>3. CASE CreateSession(r)
    <2>1. PICK a \in Agent, s \in Session :
             Continue(r, [pc |-> "readSession", agent |-> a, session |-> s])
      BY <1>3 DEF CreateSession
    <2>2. [pc |-> "readSession", agent |-> a, session |-> s] \in Request
      BY DEF Request, WidgetRequest
    <2>3. requests' \in [Req -> Request]
      BY <2>1, <2>2, ContinueSlots
    <2>4. QED
      BY <1>3, <2>3 DEF CreateSession, WidgetTypeOK, tables, widget, Request
  <1>4. QED
    BY <1>1, <1>2, <1>3 DEF WidgetCall

\* What no longer compares is forgotten; the counters stay numbers.
LEMMA ForgetType ==
    ASSUME WidgetTypeOK, ForgetTries
    PROVE  {tries, lost}' \subseteq [Code -> Nat]
  BY DEF WidgetTypeOK, ForgetTries

\* Where a handler of the widget leaves its slots, and those of the others.
LEMMA HandlerSlots ==
    ASSUME WidgetTypeOK, NEW r \in Req, WidgetHandler(r)
    PROVE  /\ requests' \in [Req -> Request]
           /\ \A s \in Req \ {r} : requests'[s] = requests[s]
  <1>1. CASE CheckAccess(r)
    <2>1. Goto(r, "countCodes") \/ Respond(r)
      BY <1>1 DEF CheckAccess
    <2>2. QED
      BY <1>1, <2>1, GotoSlots, RespondSlots DEF CheckAccess, At
  <1>2. CASE CountCodes(r)
    <2>1. Goto(r, "saveOtp") \/ Respond(r)
      BY <1>2 DEF CountCodes
    <2>2. QED
      BY <1>2, <2>1, GotoSlots, RespondSlots DEF CountCodes, At
  <1>3. CASE SaveOtp(r) \/ CountAttempt(r) \/ CacheToken(r)
    <2>1. Respond(r)
      BY <1>3 DEF SaveOtp, CountAttempt, CacheToken
    <2>2. QED
      BY <2>1, RespondSlots
  <1>4. CASE UseCode(r)
    <2> DEFINE rec == [pc |-> "readAgent", agent |-> requests[r].agent,
                       email |-> requests[r].email, session |-> requests[r].session]
    <2>1. Continue(r, rec)
      BY <1>4 DEF UseCode
    <2>2. rec \in Request
      BY <1>4, RequestFields DEF UseCode, Request, WidgetRequest
    <2> HIDE DEF rec
    <2>3. QED
      BY <2>1, <2>2, ContinueSlots
  <1>5. CASE ReadAgent(r)
    <2>1. Goto(r, "readCache") \/ Respond(r)
      BY <1>5 DEF ReadAgent
    <2>2. QED
      BY <1>5, <2>1, GotoSlots, RespondSlots DEF ReadAgent, At
  <1>6. CASE ReadCache(r)
    <2>1. Goto(r, "saveToken") \/ Respond(r)
      BY <1>6 DEF ReadCache
    <2>2. QED
      BY <1>6, <2>1, GotoSlots, RespondSlots DEF ReadCache, At
  <1>7. CASE SaveToken(r) \/ ReadSession(r)
    <2>1. \/ \E t \in Token : Continue(r, [pc |-> "cacheToken", agent |-> requests[r].agent,
                                  session |-> requests[r].session, token |-> t])
          \/ Respond(r)
      <3>1. CASE SaveToken(r)
        BY <3>1, Zenon DEF SaveToken
      <3>2. CASE ReadSession(r)
        BY <3>2 DEF ReadSession
      <3>3. QED
        BY <1>7, <3>1, <3>2
    <2>2. requests[r].agent \in Agent /\ requests[r].session \in Session
      BY <1>7, RequestFields DEF SaveToken, ReadSession, At
    <2>3. CASE Respond(r)
      BY <2>3, RespondSlots
    <2>4. ASSUME NEW t \in Token,
                 Continue(r, [pc |-> "cacheToken", agent |-> requests[r].agent,
                              session |-> requests[r].session, token |-> t])
          PROVE  /\ requests' \in [Req -> Request]
                 /\ \A s \in Req \ {r} : requests'[s] = requests[s]
      <3>1. [pc |-> "cacheToken", agent |-> requests[r].agent,
             session |-> requests[r].session, token |-> t] \in Request
        BY <2>2 DEF Request, WidgetRequest
      <3>2. QED
        BY <2>4, <3>1, ContinueSlots
    <2>5. QED
      BY <2>1, <2>3, <2>4
  <1>8. QED
    BY <1>1, <1>2, <1>3, <1>4, <1>5, <1>6, <1>7 DEF WidgetHandler

\* The steps of the widget's handlers keep the types.
LEMMA HandlerType ==
    ASSUME WidgetTypeOK, NEW r \in Req, WidgetHandler(r)
    PROVE  WidgetTypeOK'
  <1> requests' \in [Req -> Request]
    BY HandlerSlots
  <1>1. CASE CheckAccess(r) \/ CountCodes(r) \/ ReadAgent(r) \/ ReadCache(r) \/ ReadSession(r)
    <2>1. UNCHANGED <<users, agents, access, widgetTokens, otps, made, cache, reach, tries, lost>>
      BY <1>1 DEF CheckAccess, CountCodes, ReadAgent, ReadCache, ReadSession, tables, widget
    <2>2. QED
      BY <2>1 DEF WidgetTypeOK, Request
  <1>2. CASE SaveOtp(r)
    <2>1. /\ UNCHANGED <<users, agents, access, widgetTokens, cache, reach, tries, lost>>
          /\ made < MaxCodes
          /\ \/ otps' = otps \cup {NewOtp(requests[r])} /\ made' = made + 1
             \/ UNCHANGED <<otps, made>>
      BY <1>2 DEF SaveOtp, tables
    <2>2. requests[r].agent \in Agent /\ requests[r].email \in Email
      BY <1>2, RequestFields DEF SaveOtp, At
    <2>3. made \in 0..MaxCodes /\ MaxCodes \in Nat
      BY LimitsAssumption DEF WidgetTypeOK
    <2>4. NewOtp(requests[r]) \in Otp
      BY <2>1, <2>2, <2>3 DEF NewOtp, Otp, Code
    <2>5. otps' \subseteq Otp /\ made' \in 0..MaxCodes
      BY <2>1, <2>3, <2>4 DEF WidgetTypeOK
    <2>6. QED
      BY <2>1, <2>5 DEF WidgetTypeOK, Request
  <1>3. CASE CountAttempt(r)
    <2>1. \A o \in Otp : [o EXCEPT !.attempts = Counted(o, requests[r])] \in Otp
      BY DEF Otp, Counted
    <2>2. otps' \subseteq Otp
      BY <1>3, <2>1 DEF CountAttempt, WidgetTypeOK
    <2>3. QED
      BY <1>3, <2>2 DEF CountAttempt, WidgetTypeOK, Request, tables
  <1>4. CASE UseCode(r)
    <2>1. \A o \in Otp : [o EXCEPT !.used = TRUE] \in Otp
      BY DEF Otp
    <2>2. otps' \subseteq Otp
      BY <1>4, <2>1 DEF UseCode, WidgetTypeOK
    <2>3. {tries, lost}' \subseteq [Code -> Nat]
      BY <1>4, ForgetType DEF UseCode
    <2>4. QED
      BY <1>4, <2>2, <2>3 DEF UseCode, WidgetTypeOK, Request, tables
  <1>5. CASE SaveToken(r)
    <2>1. requests[r].agent \in Agent /\ requests[r].email \in Email
      BY <1>5, RequestFields DEF SaveToken, At
    <2>2. \A t \in Token : [token |-> t, agent |-> requests[r].agent,
                            email |-> requests[r].email, revoked |-> FALSE,
                            expired |-> FALSE] \in WidgetToken
      BY <2>1 DEF WidgetToken
    <2>3. widgetTokens' \subseteq WidgetToken
      <3> DEFINE row(t) == [token |-> t, agent |-> requests[r].agent,
                            email |-> requests[r].email, revoked |-> FALSE,
                            expired |-> FALSE]
      <3>1. CASE AgentExists(requests[r].agent)
        <4>1. PICK t \in Token \ issued : widgetTokens' = widgetTokens \cup {row(t)}
          BY <1>5, <3>1, Zenon DEF SaveToken
        <4>2. QED
          BY <2>2, <4>1 DEF WidgetTypeOK
      <3>2. CASE ~AgentExists(requests[r].agent)
        <4>1. UNCHANGED <<widgetTokens, issued>>
          BY <1>5, <3>2, Zenon DEF SaveToken
        <4>2. QED
          BY <4>1 DEF WidgetTypeOK
      <3>3. QED
        BY <3>1, <3>2
    <2>4. QED
      BY <1>5, <2>3 DEF SaveToken, WidgetTypeOK, Request, widget
  <1>6. CASE CacheToken(r)
    <2>1. /\ requests[r].agent \in Agent /\ requests[r].session \in Session
          /\ requests[r].token \in Token
      BY <1>6, RequestFields DEF CacheToken
    <2>2. cache' \subseteq Entry
      BY <1>6, <2>1 DEF CacheToken, Cached, Entry, WidgetTypeOK
    <2>3. QED
      BY <1>6, <2>2 DEF CacheToken, WidgetTypeOK, Request, tables
  <1>7. QED
    BY <1>1, <1>2, <1>3, <1>4, <1>5, <1>6 DEF WidgetHandler

\* removeMember and the removal of an agent keep the types.
LEMMA RemoveType ==
    ASSUME WidgetTypeOK, NEW r \in Req, RemoveMember(r) \/ RemoveTx(r), UNCHANGED widget
    PROVE  /\ WidgetTypeOK'
           /\ \A s \in Req \ {r} : requests'[s] = requests[s]
           /\ requests'[r].pc \in {"idle", "removeTx"}
  <1> UNCHANGED <<otps, made, cache, reach, tries, lost>>
    BY DEF widget
  <1>1. CASE RemoveMember(r)
    <2>1. PICK target \in users : Continue(r, [pc |-> "removeTx", target |-> target])
      BY <1>1 DEF RemoveMember, FindMember
    <2>2. [pc |-> "removeTx", target |-> target] \in Request
      BY DEF WidgetTypeOK, Request, TeamRequest
    <2>3. /\ requests'[r].pc = "removeTx"
          /\ requests' \in [Req -> Request]
          /\ \A s \in Req \ {r} : requests'[s] = requests[s]
      BY <2>1, <2>2, ContinueSlots
    <2>4. QED
      BY <1>1, <2>3 DEF RemoveMember, WidgetTypeOK, Request, tables
  <1>2. CASE RemoveTx(r)
    <2>1. /\ requests'[r].pc = "idle"
          /\ requests' \in [Req -> Request]
          /\ \A s \in Req \ {r} : requests'[s] = requests[s]
      BY <1>2, RespondSlots DEF RemoveTx, Idle
    <2>2. \A t \in WidgetToken : \A u : Revoked(t, u) \in WidgetToken
      BY DEF Revoked, WidgetToken
    <2>3. /\ widgetTokens' \subseteq WidgetToken
          /\ users' \subseteq users /\ access' \subseteq access /\ agents' = agents
      BY <1>2, <2>2 DEF RemoveTx, WidgetTypeOK
    <2>4. QED
      BY <1>2, <2>1, <2>3 DEF WidgetTypeOK, Request
  <1>3. QED
    BY <1>1, <1>2

LEMMA OthersType ==
    ASSUME WidgetTypeOK, Age \/ Evict \/ ExpireToken \/ Configure \/ DropAgent
    PROVE  WidgetTypeOK' /\ requests' = requests
  <1>1. CASE Age
    <2>1. PICK o \in otps : otps' = (otps \ {o}) \cup Older(o)
      BY <1>1 DEF Age
    <2>2. Older(o) \subseteq Otp
      BY <2>1 DEF WidgetTypeOK, Otp, Older
    <2>3. otps' \subseteq Otp
      BY <2>1, <2>2 DEF WidgetTypeOK
    <2>4. {tries, lost}' \subseteq [Code -> Nat]
      BY <1>1, ForgetType DEF Age
    <2>5. QED
      BY <1>1, <2>3, <2>4 DEF Age, WidgetTypeOK, vars, tables
  <1>2. CASE Evict
    BY <1>2 DEF Evict, WidgetTypeOK, vars, tables
  <1>3. CASE Configure
    BY <1>3 DEF Configure, WidgetTypeOK, vars, tables
  <1>4. CASE DropAgent
    <2>1. {tries, lost}' \subseteq [Code -> Nat]
      BY <1>4, ForgetType DEF DropAgent
    <2>2. QED
      BY <1>4, <2>1 DEF DropAgent, RemoveAgent, WidgetTypeOK
  <1>5. CASE ExpireToken
    <2>1. \A t \in WidgetToken : [t EXCEPT !.expired = TRUE] \in WidgetToken
      BY DEF WidgetToken
    <2>2. widgetTokens' \subseteq WidgetToken
      BY <1>5, <2>1 DEF ExpireToken, WidgetTypeOK
    <2>3. QED
      BY <1>5, <2>2 DEF ExpireToken, WidgetTypeOK, widget
  <1>6. QED
    BY <1>1, <1>2, <1>3, <1>4, <1>5

\* A handler that fails leaves its slot, and at most its comparison to be lost.
LEMMA FailType ==
    ASSUME WidgetTypeOK, NEW r \in Req, Fail(r)
    PROVE  /\ WidgetTypeOK'
           /\ requests'[r] = Idle
           /\ \A s \in Req \ {r} : requests'[s] = requests[s]
           /\ UNCHANGED <<otps, made, tries>>
           /\ UNCHANGED <<users, widgetTokens>>
  <1>1. /\ requests'[r] = Idle
        /\ \A s \in Req \ {r} : requests'[s] = requests[s]
        /\ requests' \in [Req -> Request]
    BY RespondSlots DEF Fail
  <1>2. lost' \in [Code -> Nat]
    <2>1. CASE ~Uncounted(r)
      BY <2>1 DEF Fail, WidgetTypeOK
    <2>2. CASE Uncounted(r)
      BY <2>2 DEF Fail, WidgetTypeOK
    <2>3. QED
      BY <2>1, <2>2
  <1>3. UNCHANGED <<users, agents, access, widgetTokens, otps, made, cache, reach, tries>>
    BY DEF Fail, tables
  <1>4. QED
    BY <1>1, <1>2, <1>3 DEF WidgetTypeOK, Request

LEMMA TypeStep == WidgetTypeOK /\ [Next]_all => WidgetTypeOK'
  <1> SUFFICES ASSUME WidgetTypeOK, [Next]_all PROVE WidgetTypeOK'
    OBVIOUS
  <1>1. CASE UNCHANGED all
    BY <1>1 DEF all, vars, tables, widget, WidgetTypeOK
  <1>2. CASE Next
    BY <1>2, CallType, HandlerType, RemoveType, FailType, OthersType DEF Next
  <1>3. QED
    BY <1>1, <1>2

\* WidgetTypeOK: the tables, the codes, the cached tokens and what handlers
\* carry across their awaits are well typed, and no more codes exist than numbers.
THEOREM TypeCorrect == Behaviour => []WidgetTypeOK
  <1>1. Start => WidgetTypeOK
    BY DEF Start
  <1>2. QED
    BY <1>1, TypeStep, PTL DEF Behaviour

(* ------------------------- Limits on codes ----------------------------- *)

\* The number of a code names its row, and no row has a number yet to come.
Numbered == /\ \A o, p \in otps : o.code = p.code => o = p
            /\ \A o \in otps : o.code <= made

\* What a row keeps of the row it was.
Inherits(o, p) ==
    /\ p.code = o.code /\ p.agent = o.agent /\ p.email = o.email
    /\ Usable(p) => Usable(o)

\* Rows are rewritten or removed, but none comes in.
RowsKept == /\ made' = made
            /\ Numbered'
            /\ \A p \in otps' : \E o \in otps : Inherits(o, p)
RowsSame == \A p \in otps' : \E o \in otps : Inherits(o, p) /\ p.attempts = o.attempts

LEMMA CountedRows ==
    ASSUME WidgetTypeOK, Numbered, NEW r \in Req, CountAttempt(r)
    PROVE  /\ RowsKept
           /\ \A p \in otps' : \E o \in otps :
                 /\ Inherits(o, p)
                 /\ p.attempts = IF o.code = requests[r].code THEN o.attempts + 1
                                 ELSE o.attempts
  <1> DEFINE new(o) == IF o.code = requests[r].code
                       THEN [o EXCEPT !.attempts = Counted(o, requests[r])] ELSE o
  <1>1. otps' = {new(o) : o \in otps} /\ made' = made
    BY DEF CountAttempt
  <1>2. \A o \in otps : /\ Inherits(o, new(o))
                        /\ new(o).code = o.code
                        /\ new(o).attempts = IF o.code = requests[r].code
                                             THEN o.attempts + 1 ELSE o.attempts
    BY DEF WidgetTypeOK, Otp, Inherits, Usable, Counted
  <1> HIDE DEF new
  <1>3. Numbered'
    BY <1>1, <1>2 DEF Numbered
  <1>4. QED
    BY <1>1, <1>2, <1>3 DEF RowsKept

LEMMA UsedRows ==
    ASSUME WidgetTypeOK, Numbered, NEW r \in Req, UseCode(r)
    PROVE  /\ RowsKept /\ RowsSame
           /\ \A p \in otps' : p.code = requests[r].code => ~Usable(p)
  <1> DEFINE new(o) == IF o.code = requests[r].code THEN [o EXCEPT !.used = TRUE] ELSE o
  <1>1. otps' = {new(o) : o \in otps} /\ made' = made
    BY DEF UseCode
  <1>2. \A o \in otps : /\ Inherits(o, new(o))
                        /\ new(o).code = o.code
                        /\ new(o).attempts = o.attempts
                        /\ o.code = requests[r].code => ~Usable(new(o))
    BY DEF WidgetTypeOK, Otp, Inherits, Usable
  <1> HIDE DEF new
  <1>3. Numbered'
    BY <1>1, <1>2 DEF Numbered
  <1>4. QED
    BY <1>1, <1>2, <1>3 DEF RowsKept, RowsSame

LEMMA AgedRows ==
    ASSUME WidgetTypeOK, Numbered, Age
    PROVE  RowsKept /\ RowsSame
  <1>1. PICK o \in otps : otps' = (otps \ {o}) \cup Older(o)
    BY DEF Age
  <1>2. \A p \in Older(o) : /\ Inherits(o, p) /\ p.code = o.code
                            /\ p.attempts = o.attempts
                            /\ p = [o EXCEPT !.age = "recent"]
    BY DEF WidgetTypeOK, Otp, Inherits, Usable, Older
  <1>3. otps' = (otps \ {o}) \cup Older(o) /\ made' = made
    BY <1>1 DEF Age
  <1>4. \A p \in otps : Inherits(p, p)
    BY DEF Inherits
  <1>5. Numbered'
    BY <1>2, <1>3 DEF Numbered
  <1>6. QED
    BY <1>2, <1>3, <1>4, <1>5 DEF RowsKept, RowsSame

\* What leaves the rows alone, or takes some of them away.
LEMMA FewerRows ==
    ASSUME Numbered, otps' \subseteq otps, made' = made
    PROVE  RowsKept /\ RowsSame
  <1>1. \A p \in otps : Inherits(p, p)
    BY DEF Inherits
  <1>2. Numbered'
    BY DEF Numbered
  <1>3. QED
    BY <1>1, <1>2 DEF RowsKept, RowsSame

\* Every other step: calls, the handlers that only read, tokens, the cache, the
\* configuration, members and agents that are removed.
Elsewhere(r) ==
    \/ CheckAccess(r) \/ CountCodes(r) \/ ReadAgent(r) \/ ReadCache(r)
    \/ SaveToken(r) \/ CacheToken(r) \/ ReadSession(r) \/ WidgetCall(r) \/ Fail(r)
    \/ (RemoveMember(r) \/ RemoveTx(r)) /\ UNCHANGED widget

LEMMA OtherRows ==
    ASSUME Numbered,
           \/ \E r \in Req : Elsewhere(r)
           \/ Evict \/ ExpireToken \/ Configure \/ DropAgent \/ UNCHANGED all
    PROVE  RowsKept /\ RowsSame
  <1>1. ASSUME NEW r \in Req, Elsewhere(r)
        PROVE  UNCHANGED <<otps, made>>
    BY <1>1 DEF Elsewhere, CheckAccess, CountCodes, ReadAgent, ReadCache, SaveToken,
                CacheToken, ReadSession, WidgetCall, RequestOtp, VerifyOtp,
                CreateSession, Fail, widget
  <1>2. CASE Evict \/ ExpireToken \/ Configure \/ UNCHANGED all
    <2>1. UNCHANGED <<otps, made>>
      BY <1>2 DEF Evict, ExpireToken, Configure, all, widget
    <2>2. QED
      BY <2>1, FewerRows
  <1>3. CASE DropAgent
    <2>1. otps' \subseteq otps /\ made' = made
      BY <1>3 DEF DropAgent
    <2>2. QED
      BY <2>1, FewerRows
  <1>4. CASE \E r \in Req : Elsewhere(r)
    <2>1. UNCHANGED <<otps, made>>
      BY <1>1, <1>4
    <2>2. QED
      BY <2>1, FewerRows
  <1>5. QED
    BY <1>2, <1>3, <1>4

\* requestOtp draws the next number.
LEMMA SavedRows ==
    ASSUME WidgetTypeOK, Numbered, NEW r \in Req, SaveOtp(r)
    PROVE  /\ Numbered'
           /\ \/ UNCHANGED <<otps, made>>
              \/ /\ made' = made + 1 /\ made + 1 \in Code
                 /\ otps' = otps \cup {NewOtp(requests[r])}
           /\ UNCHANGED tries
  <1>1. /\ \/ UNCHANGED <<otps, made>>
           \/ made' = made + 1 /\ otps' = otps \cup {NewOtp(requests[r])}
        /\ made < MaxCodes /\ UNCHANGED tries
    BY DEF SaveOtp
  <1>2. made \in Nat /\ MaxCodes \in Nat
    BY LimitsAssumption DEF WidgetTypeOK
  <1>3. NewOtp(requests[r]).code = made + 1
    BY DEF NewOtp
  <1>4. \A o \in otps : o.code \in Nat
    BY LimitsAssumption DEF WidgetTypeOK, Otp, Code
  <1>5. Numbered'
    BY <1>1, <1>2, <1>3, <1>4 DEF Numbered
  <1>6. QED
    BY <1>1, <1>2, <1>5 DEF Code

RecentCodes(e, a) == {o.code : o \in Recent(e, a)}
Saving(e, a) == {r \in Req : /\ At(r, "saveOtp")
                             /\ requests[r].email = e /\ requests[r].agent = a}

\* A number for each row: as many numbers as rows.
LEMMA RecentCount ==
    ASSUME WidgetTypeOK, Numbered, NEW e, NEW a
    PROVE  /\ IsFiniteSet(Recent(e, a)) /\ IsFiniteSet(RecentCodes(e, a))
           /\ RecentCodes(e, a) \subseteq Code
           /\ Cardinality(Recent(e, a)) = Cardinality(RecentCodes(e, a))
           /\ Cardinality(RecentCodes(e, a)) \in Nat
  <1> DEFINE f == [o \in Recent(e, a) |-> o.code]
  <1>1. Recent(e, a) \subseteq otps /\ RecentCodes(e, a) \subseteq Code
    BY DEF Recent, RecentCodes, WidgetTypeOK, Otp
  <1>2. IsFiniteSet(Code)
    BY FS_Interval, LimitsAssumption DEF Code
  <1>3. IsFiniteSet(RecentCodes(e, a))
    BY <1>1, <1>2, FS_Subset
  <1>4. f \in Bijection(Recent(e, a), RecentCodes(e, a))
    <2>1. f \in [Recent(e, a) -> RecentCodes(e, a)]
      BY DEF RecentCodes
    <2>2. IsInjective(f)
      BY <1>1 DEF IsInjective, Numbered
    <2>3. \A c \in RecentCodes(e, a) : \E o \in Recent(e, a) : f[o] = c
      BY DEF RecentCodes
    <2>4. QED
      BY <2>1, <2>2, <2>3 DEF Bijection, Injection, Surjection
  <1>5. /\ IsFiniteSet(Recent(e, a))
        /\ Cardinality(Recent(e, a)) = Cardinality(RecentCodes(e, a))
    <2> HIDE DEF f
    <2>1. f \in Injection(Recent(e, a), RecentCodes(e, a))
      BY <1>4 DEF Bijection
    <2>2. f \in Surjection(Recent(e, a), RecentCodes(e, a))
      BY <1>4 DEF Bijection
    <2>3. QED
      BY <1>3, <2>1, <2>2, FS_Injection
  <1>6. QED
    BY <1>1, <1>3, <1>5, FS_CardinalityType

LEMMA SavingCount ==
    ASSUME IsFiniteSet(Req), NEW e, NEW a
    PROVE  /\ IsFiniteSet(Saving(e, a))
           /\ Cardinality(Saving(e, a)) \in Nat
           /\ Cardinality(Saving(e, a)) <= Cardinality(Req)
           /\ Cardinality(Req) \in Nat
  <1>1. Saving(e, a) \in SUBSET Req
    BY DEF Saving
  <1>2. QED
    BY <1>1, FS_Subset, FS_CardinalityType

\* Each code within the hour, and each request that has counted, but not stored.
Rated(e, a) == Cardinality(RecentCodes(e, a)) + Cardinality(Saving(e, a))
                  < OtpRateLimit + Cardinality(Req)

\* Fewer codes and fewer requests that are about to store keep the bound.
LEMMA FewerRated ==
    ASSUME WidgetTypeOK, Numbered, IsFiniteSet(Req), NEW e, NEW a, Rated(e, a),
           NEW codes, codes \subseteq RecentCodes(e, a),
           NEW saving, saving \subseteq Saving(e, a)
    PROVE  Cardinality(codes) + Cardinality(saving) < OtpRateLimit + Cardinality(Req)
  <1>1. /\ IsFiniteSet(RecentCodes(e, a)) /\ IsFiniteSet(Saving(e, a))
        /\ Cardinality(RecentCodes(e, a)) \in Nat /\ Cardinality(Saving(e, a)) \in Nat
        /\ Cardinality(Req) \in Nat
    BY RecentCount, SavingCount
  <1>2. IsFiniteSet(codes) /\ Cardinality(codes) <= Cardinality(RecentCodes(e, a))
    BY <1>1, FS_Subset
  <1>3. IsFiniteSet(saving) /\ Cardinality(saving) <= Cardinality(Saving(e, a))
    BY <1>1, FS_Subset
  <1>4. Cardinality(codes) \in Nat /\ Cardinality(saving) \in Nat
    BY <1>2, <1>3, FS_CardinalityType
  <1>5. OtpRateLimit \in Nat
    BY LimitsAssumption
  <1>6. QED
    BY <1>1, <1>2, <1>3, <1>4, <1>5 DEF Rated

\* Rows that are kept bring no new code within the hour.
LEMMA KeptCodes ==
    ASSUME RowsKept, NEW e, NEW a
    PROVE  RecentCodes(e, a)' \subseteq RecentCodes(e, a)
  BY DEF RowsKept, RecentCodes, Recent, Inherits

\* A request gets to store a code by counting; then the bound has room for all.
LEMMA CountRated ==
    ASSUME WidgetTypeOK, Numbered, IsFiniteSet(Req), NEW r \in Req, CountCodes(r),
           NEW e, NEW a, Rated(e, a)
    PROVE  Rated(e, a)'
  <1>1. UNCHANGED otps /\ RecentCodes(e, a)' = RecentCodes(e, a)
    BY DEF CountCodes, widget, RecentCodes, Recent
  <1>2. /\ At(r, "countCodes")
        /\ \/ Respond(r)
           \/ /\ Goto(r, "saveOtp")
              /\ MayRequest(Cardinality(Recent(requests[r].email, requests[r].agent)))
    BY DEF CountCodes
  <1> DEFINE saving == Saving(e, a)'
  <1>3. saving \subseteq Req
    BY DEF Saving
  <1>4. CASE Respond(r) \/ ~(requests[r].email = e /\ requests[r].agent = a)
    <2>1. saving \subseteq Saving(e, a)
      <3>1. CASE Respond(r)
        BY <3>1, RespondSlots DEF Saving, At, Idle
      <3>2. CASE Goto(r, "saveOtp") /\ ~(requests[r].email = e /\ requests[r].agent = a)
        BY <1>2, <3>2, GotoSlots DEF Saving, At
      <3>3. QED
        BY <1>2, <1>4, <3>1, <3>2
    <2>2. QED
      BY <1>1, <2>1, FewerRated DEF Rated
  <1>5. CASE /\ requests[r].email = e /\ requests[r].agent = a
             /\ MayRequest(Cardinality(Recent(e, a)))
    <2>1. /\ Cardinality(RecentCodes(e, a)) \in Nat
          /\ Cardinality(Recent(e, a)) = Cardinality(RecentCodes(e, a))
      BY RecentCount
    <2>2. Cardinality(RecentCodes(e, a)) < OtpRateLimit
      BY <1>5, <2>1, LimitsAssumption DEF MayRequest
    <2> HIDE DEF saving
    <2>3. IsFiniteSet(saving) /\ Cardinality(saving) <= Cardinality(Req)
      BY <1>3, FS_Subset
    <2>4. Cardinality(saving) \in Nat /\ Cardinality(Req) \in Nat
      BY <2>3, FS_CardinalityType
    <2>5. Cardinality(RecentCodes(e, a)) + Cardinality(saving) < OtpRateLimit + Cardinality(Req)
      BY <2>1, <2>2, <2>3, <2>4, LimitsAssumption
    <2>6. QED
      BY <1>1, <2>5 DEF Rated, saving
  <1>6. QED
    BY <1>2, <1>4, <1>5

\* Storing turns a request that has counted into a code.
LEMMA SaveRated ==
    ASSUME WidgetTypeOK, Numbered, IsFiniteSet(Req), NEW r \in Req, SaveOtp(r),
           NEW e, NEW a, Rated(e, a)
    PROVE  Rated(e, a)'
  <1> DEFINE saving == Saving(e, a)'
             codes == RecentCodes(e, a)'
  <1>1. saving = Saving(e, a) \ {r}
    <2>1. Respond(r)
      BY DEF SaveOtp
    <2>2. QED
      BY <2>1, RespondSlots DEF Saving, At, Idle
  <1>2. CASE codes \subseteq RecentCodes(e, a)
    BY <1>1, <1>2, FewerRated DEF Rated
  <1>3. CASE ~(codes \subseteq RecentCodes(e, a))
    <2>1. /\ made' = made + 1 /\ otps' = otps \cup {NewOtp(requests[r])}
      BY <1>3, SavedRows DEF RecentCodes, Recent
    <2> DEFINE new == NewOtp(requests[r])
    <2>n. /\ new.email = requests[r].email /\ new.agent = requests[r].agent
          /\ new.code = made + 1 /\ new.age = "fresh"
      BY DEF NewOtp
    <2> HIDE DEF new
    <2>m. otps' = otps \cup {new}
      BY <2>1 DEF new
    <2>2. requests[r].email = e /\ requests[r].agent = a
      BY <1>3, <2>m, <2>n DEF RecentCodes, Recent
    <2>3. r \in Saving(e, a)
      BY <2>2 DEF Saving, SaveOtp
    <2>4. codes = RecentCodes(e, a) \cup {made + 1}
      BY <2>2, <2>m, <2>n DEF RecentCodes, Recent
    <2>5. /\ IsFiniteSet(RecentCodes(e, a)) /\ IsFiniteSet(Saving(e, a))
          /\ Cardinality(RecentCodes(e, a)) \in Nat /\ Cardinality(Saving(e, a)) \in Nat
          /\ Cardinality(Req) \in Nat
      BY RecentCount, SavingCount
    <2> HIDE DEF saving, codes
    <2>6. Cardinality(saving) = Cardinality(Saving(e, a)) - 1
      BY <1>1, <2>3, <2>5, FS_RemoveElement
    <2>7. \/ Cardinality(codes) = Cardinality(RecentCodes(e, a)) + 1
          \/ Cardinality(codes) = Cardinality(RecentCodes(e, a))
      BY <2>4, <2>5, FS_AddElement
    <2>8. Cardinality(codes) + Cardinality(saving) < OtpRateLimit + Cardinality(Req)
      BY <2>5, <2>6, <2>7, LimitsAssumption DEF Rated
    <2>9. QED
      BY <2>8 DEF Rated, saving, codes
  <1>4. QED
    BY <1>2, <1>3

\* All other steps bring neither codes nor requests that have counted.
LEMMA OtherSaving ==
    ASSUME WidgetTypeOK, NEW e, NEW a, [Next]_all,
           ~\E r \in Req : CountCodes(r) \/ SaveOtp(r)
    PROVE  Saving(e, a)' \subseteq Saving(e, a)
  <1>1. ASSUME NEW r \in Req, requests'[r].pc # "saveOtp",
               \A s \in Req \ {r} : requests'[s] = requests[s]
        PROVE  Saving(e, a)' \subseteq Saving(e, a)
    BY <1>1 DEF Saving, At
  <1>2. ASSUME NEW r \in Req, WidgetCall(r)
        PROVE  Saving(e, a)' \subseteq Saving(e, a)
    <2>1. PICK rec : Continue(r, rec) /\ rec.pc # "saveOtp"
      <3>1. CASE RequestOtp(r)
        BY <3>1 DEF RequestOtp
      <3>2. CASE VerifyOtp(r)
        BY <3>2 DEF VerifyOtp
      <3>3. CASE CreateSession(r)
        BY <3>3 DEF CreateSession
      <3>4. QED
        BY <1>2, <3>1, <3>2, <3>3 DEF WidgetCall
    <2>2. QED
      BY <1>1, <2>1, ContinueSlots
  <1>3. ASSUME NEW r \in Req, WidgetHandler(r)
        PROVE  Saving(e, a)' \subseteq Saving(e, a)
    <2>1. requests'[r].pc # "saveOtp"
      <3>1. CASE CheckAccess(r)
        <4>1. Goto(r, "countCodes") \/ Respond(r)
          BY <3>1 DEF CheckAccess
        <4>2. QED
          BY <3>1, <4>1, GotoSlots, RespondSlots DEF CheckAccess, At, Idle
      <3>2. CASE CountAttempt(r) \/ CacheToken(r)
        BY <3>2, RespondSlots DEF CountAttempt, CacheToken, Idle
      <3>3. CASE UseCode(r)
        BY <3>3, ContinueSlots DEF UseCode
      <3>4. CASE ReadAgent(r)
        <4>1. Goto(r, "readCache") \/ Respond(r)
          BY <3>4 DEF ReadAgent
        <4>2. QED
          BY <3>4, <4>1, GotoSlots, RespondSlots DEF ReadAgent, At, Idle
      <3>5. CASE ReadCache(r)
        <4>1. Goto(r, "saveToken") \/ Respond(r)
          BY <3>5 DEF ReadCache
        <4>2. QED
          BY <3>5, <4>1, GotoSlots, RespondSlots DEF ReadCache, At, Idle
      <3>6. CASE SaveToken(r)
        <4>1. (\E t \in Token : Continue(r, [pc |-> "cacheToken",
                  agent |-> requests[r].agent, session |-> requests[r].session,
                  token |-> t])) \/ Respond(r)
          BY <3>6, Zenon DEF SaveToken
        <4>2. CASE Respond(r)
          BY <4>2, RespondSlots DEF Idle
        <4>3. ASSUME NEW rec, rec.pc = "cacheToken", Continue(r, rec)
              PROVE  requests'[r].pc # "saveOtp"
          BY <4>3, ContinueSlots
        <4>4. QED
          BY <4>1, <4>2, <4>3
      <3>7. CASE ReadSession(r)
        <4>1. (\E t \in Token : Continue(r, [pc |-> "cacheToken",
                  agent |-> requests[r].agent, session |-> requests[r].session,
                  token |-> t])) \/ Respond(r)
          BY <3>7 DEF ReadSession
        <4>2. CASE Respond(r)
          BY <4>2, RespondSlots DEF Idle
        <4>3. ASSUME NEW rec, rec.pc = "cacheToken", Continue(r, rec)
              PROVE  requests'[r].pc # "saveOtp"
          BY <4>3, ContinueSlots
        <4>4. QED
          BY <4>1, <4>2, <4>3
      <3>8. QED
        BY <1>3, <3>1, <3>2, <3>3, <3>4, <3>5, <3>6, <3>7 DEF WidgetHandler
    <2>2. QED
      BY <1>1, <1>3, <2>1, HandlerSlots
  <1>4. ASSUME NEW r \in Req, RemoveMember(r) \/ RemoveTx(r), UNCHANGED widget
        PROVE  Saving(e, a)' \subseteq Saving(e, a)
    BY <1>1, <1>4, RemoveType
  <1>5. CASE Age \/ Evict \/ ExpireToken \/ Configure \/ DropAgent
    BY <1>5, OthersType DEF Saving, At
  <1>6. CASE UNCHANGED all
    BY <1>6 DEF Saving, At, all, vars
  <1>7. ASSUME NEW r \in Req, Fail(r)
        PROVE  Saving(e, a)' \subseteq Saving(e, a)
    BY <1>1, <1>7, FailType DEF Idle
  <1>8. QED
    BY <1>2, <1>3, <1>4, <1>5, <1>6, <1>7 DEF Next

\* Which rows are there after a step.
LEMMA RowsStep ==
    ASSUME WidgetTypeOK, Numbered, [Next]_all
    PROVE  /\ Numbered'
           /\ RowsKept \/ \E r \in Req : SaveOtp(r)
  <1>1. ASSUME NEW r \in Req, SaveOtp(r)
        PROVE  Numbered'
    BY <1>1, SavedRows
  <1>2. ASSUME NEW r \in Req, CountAttempt(r)
        PROVE  RowsKept
    BY <1>2, CountedRows
  <1>3. ASSUME NEW r \in Req, UseCode(r)
        PROVE  RowsKept
    BY <1>3, UsedRows
  <1>4. CASE Age
    BY <1>4, AgedRows DEF RowsKept
  <1>5. ASSUME NEW r \in Req, Elsewhere(r)
        PROVE  RowsKept
    BY <1>5, OtherRows
  <1>6. CASE Evict \/ ExpireToken \/ Configure \/ DropAgent \/ UNCHANGED all
    BY <1>6, OtherRows DEF RowsKept
  <1>7. ASSUME NEW r \in Req,
               \/ WidgetCall(r) \/ WidgetHandler(r) \/ Fail(r)
               \/ (RemoveMember(r) \/ RemoveTx(r)) /\ UNCHANGED widget
        PROVE  SaveOtp(r) \/ CountAttempt(r) \/ UseCode(r) \/ Elsewhere(r)
    BY <1>7 DEF WidgetHandler, Elsewhere
  <1>8. ASSUME NEW r \in Req,
               \/ WidgetCall(r) \/ WidgetHandler(r) \/ Fail(r)
               \/ (RemoveMember(r) \/ RemoveTx(r)) /\ UNCHANGED widget
        PROVE  SaveOtp(r) \/ RowsKept
    BY <1>2, <1>3, <1>5, <1>7, <1>8
  <1>9. RowsKept \/ \E r \in Req : SaveOtp(r)
    <2>1. CASE Age \/ Evict \/ ExpireToken \/ Configure \/ DropAgent \/ UNCHANGED all
      BY <1>4, <1>6, <2>1
    <2>2. CASE Next
      BY <1>8, <2>1, <2>2 DEF Next
    <2>3. QED
      BY <2>1, <2>2
  <1>10. QED
    BY <1>1, <1>9 DEF RowsKept

\* Requests that overlap may all have counted before one of them stores: the
\* codes within the hour and those requests stay below the limit and one for
\* each request together.
RateInv == Numbered /\ \A a \in Agent, e \in Email : Rated(e, a)

LEMMA RateStep ==
    ASSUME IsFiniteSet(Req), WidgetTypeOK, RateInv, [Next]_all
    PROVE  RateInv'
  <1>1. Numbered /\ Numbered'
    BY RowsStep DEF RateInv
  <1>2. ASSUME NEW a \in Agent, NEW e \in Email
        PROVE  Rated(e, a)'
    <2>1. Rated(e, a)
      BY DEF RateInv
    <2>2. ASSUME NEW r \in Req, CountCodes(r)
          PROVE  Rated(e, a)'
      BY <1>1, <2>1, <2>2, CountRated
    <2>3. ASSUME NEW r \in Req, SaveOtp(r)
          PROVE  Rated(e, a)'
      BY <1>1, <2>1, <2>3, SaveRated
    <2>4. CASE ~\E r \in Req : CountCodes(r) \/ SaveOtp(r)
      <3>1. RowsKept
        BY <1>1, <2>4, RowsStep
      <3>2. RecentCodes(e, a)' \subseteq RecentCodes(e, a)
        BY <3>1, KeptCodes
      <3>3. Saving(e, a)' \subseteq Saving(e, a)
        BY <2>4, OtherSaving
      <3>4. QED
        BY <1>1, <2>1, <3>2, <3>3, FewerRated DEF Rated
    <2>5. QED
      BY <2>2, <2>3, <2>4
  <1>3. QED
    BY <1>1, <1>2 DEF RateInv

LEMMA RateInit ==
    ASSUME IsFiniteSet(Req), Start
    PROVE  RateInv
  <1>1. Numbered
    BY DEF Start, Numbered
  <1>2. ASSUME NEW a, NEW e
        PROVE  Rated(e, a)
    <2>1. RecentCodes(e, a) = {} /\ Saving(e, a) = {}
      BY DEF Start, RecentCodes, Recent, Saving, At, Idle
    <2>2. Cardinality({}) = 0 /\ Cardinality(Req) \in Nat
      BY FS_EmptySet, FS_CardinalityType
    <2>3. QED
      BY <2>1, <2>2, LimitsAssumption DEF Rated
  <1>3. QED
    BY <1>1, <1>2 DEF RateInv

\* RateBounded: the limit of requestOtp, counted before the code is stored, is
\* exceeded by less than the requests that overlap, whatever their number.
THEOREM RateHolds ==
    ASSUME IsFiniteSet(Req)
    PROVE  Behaviour => []RateBounded
  <1>1. Start => WidgetTypeOK /\ RateInv
    BY RateInit DEF Start
  <1>2. WidgetTypeOK /\ RateInv /\ [Next]_all => (WidgetTypeOK /\ RateInv)'
    BY TypeStep, RateStep
  <1>3. WidgetTypeOK /\ RateInv => RateBounded
    <2> SUFFICES ASSUME WidgetTypeOK, RateInv, NEW a \in Agent, NEW e \in Email
                 PROVE  Cardinality(Recent(e, a)) < OtpRateLimit + Cardinality(Req)
      BY DEF RateBounded
    <2>1. /\ Cardinality(Recent(e, a)) = Cardinality(RecentCodes(e, a))
          /\ Cardinality(RecentCodes(e, a)) \in Nat
      BY RecentCount DEF RateInv
    <2>2. Cardinality(Saving(e, a)) \in Nat /\ Cardinality(Req) \in Nat
      BY SavingCount
    <2>3. Rated(e, a)
      BY DEF RateInv
    <2>4. QED
      BY <2>1, <2>2, <2>3, LimitsAssumption DEF Rated
  <1>4. QED
    BY <1>1, <1>2, <1>3, PTL DEF Behaviour

(* ------------------------ Limits on attempts --------------------------- *)

Pending(c) == {r \in Req : /\ requests[r].pc \in {"countAttempt", "useCode"}
                           /\ requests[r].code = c}

LEMMA PendingCount ==
    ASSUME IsFiniteSet(Req), NEW c
    PROVE  /\ IsFiniteSet(Pending(c))
           /\ Cardinality(Pending(c)) \in Nat
           /\ Cardinality(Pending(c)) <= Cardinality(Req)
           /\ Cardinality(Req) \in Nat
  <1>1. Pending(c) \in SUBSET Req
    BY DEF Pending
  <1>2. QED
    BY <1>1, FS_Subset, FS_CardinalityType

\* Comparisons are counted in the row, by a handler still to write it, or lost.
Compared(o) ==
    Usable(o) => tries[o.code] <= o.attempts + Cardinality(Pending(o.code)) + lost[o.code]

TriesInv == /\ Numbered
            /\ \A o \in otps : Compared(o)
            /\ \A c \in Code : c > made => tries[c] = 0
            /\ TriesBounded

\* No other step compares; what can no longer be compared is forgotten.
LEMMA TriesLess ==
    ASSUME WidgetTypeOK, [Next]_all, ~\E r \in Req : VerifyOtp(r)
    PROVE  \A c \in Code : /\ \/ tries'[c] = tries[c] /\ lost'[c] >= lost[c]
                             \/ tries'[c] = 0
                          /\ {lost[c], lost'[c], tries[c]} \subseteq Nat
  <1> DEFINE Same == tries' = tries /\ lost' = lost
  <1>0. {lost, lost', tries} \subseteq [Code -> Nat]
    BY TypeStep DEF WidgetTypeOK
  <1>1. ASSUME NEW r \in Req, WidgetHandler(r)
        PROVE  Same \/ ForgetTries
    <2>1. CASE CheckAccess(r) \/ CountCodes(r) \/ ReadAgent(r) \/ ReadCache(r)
                  \/ SaveToken(r) \/ ReadSession(r)
      BY <2>1 DEF CheckAccess, CountCodes, ReadAgent, ReadCache, SaveToken, ReadSession,
                  widget
    <2>2. CASE SaveOtp(r) \/ CountAttempt(r) \/ UseCode(r) \/ CacheToken(r)
      BY <2>2 DEF SaveOtp, CountAttempt, UseCode, CacheToken
    <2>3. QED
      BY <1>1, <2>1, <2>2 DEF WidgetHandler
  <1>2. ASSUME NEW r \in Req, WidgetCall(r)
        PROVE  Same
    BY <1>2 DEF WidgetCall, RequestOtp, CreateSession, widget
  <1>3. ASSUME NEW r \in Req, UNCHANGED widget
        PROVE  Same
    BY <1>3 DEF widget
  <1>4. CASE Age \/ Evict \/ ExpireToken \/ Configure \/ DropAgent \/ UNCHANGED all
    <2>1. Same \/ ForgetTries
      BY <1>4 DEF Age, Evict, ExpireToken, Configure, DropAgent, all, widget
    <2>2. QED
      BY <1>0, <2>1 DEF ForgetTries
  <1>5. CASE Same \/ ForgetTries
    BY <1>0, <1>5 DEF ForgetTries
  <1>6. ASSUME NEW r \in Req, Fail(r)
        PROVE  tries' = tries /\ \A c \in Code : lost'[c] >= lost[c]
    <2>1. CASE ~Uncounted(r)
      BY <1>0, <1>6, <2>1 DEF Fail
    <2>2. CASE Uncounted(r)
      BY <1>0, <1>6, <2>2 DEF Fail
    <2>3. QED
      BY <2>1, <2>2
  <1> HIDE DEF Same
  <1>7. QED
    BY <1>0, <1>1, <1>2, <1>3, <1>4, <1>5, <1>6 DEF Next

\* Whoever has compared stays counted until the row is written.
LEMMA OtherPending ==
    ASSUME WidgetTypeOK, [Next]_all,
           ~\E r \in Req : CountAttempt(r) \/ UseCode(r) \/ Fail(r), NEW c
    PROVE  Pending(c) \subseteq Pending(c)'
  <1>1. ASSUME NEW r \in Req, ~(requests[r].pc \in {"countAttempt", "useCode"}),
               \A s \in Req \ {r} : requests'[s] = requests[s]
        PROVE  Pending(c) \subseteq Pending(c)'
    BY <1>1 DEF Pending
  <1>2. ASSUME NEW r \in Req, WidgetCall(r)
        PROVE  Pending(c) \subseteq Pending(c)'
    <2>1. At(r, "idle") /\ \E rec : Continue(r, rec)
      <3>1. CASE RequestOtp(r)
        BY <3>1 DEF RequestOtp
      <3>2. CASE VerifyOtp(r)
        BY <3>2 DEF VerifyOtp
      <3>3. CASE CreateSession(r)
        BY <3>3 DEF CreateSession
      <3>4. QED
        BY <1>2, <3>1, <3>2, <3>3 DEF WidgetCall
    <2>2. QED
      BY <1>1, <2>1, ContinueSlots DEF At
  <1>3. ASSUME NEW r \in Req, WidgetHandler(r)
        PROVE  Pending(c) \subseteq Pending(c)'
    <2>1. ~(requests[r].pc \in {"countAttempt", "useCode"})
      BY <1>3 DEF WidgetHandler, CheckAccess, CountCodes, SaveOtp, ReadAgent, ReadCache,
                  SaveToken, CacheToken, ReadSession, At
    <2>2. QED
      BY <1>1, <1>3, <2>1, HandlerSlots
  <1>4. ASSUME NEW r \in Req, RemoveMember(r) \/ RemoveTx(r), UNCHANGED widget
        PROVE  Pending(c) \subseteq Pending(c)'
    BY <1>1, <1>4, RemoveType DEF RemoveMember, RemoveTx, At
  <1>5. CASE Age \/ Evict \/ ExpireToken \/ Configure \/ DropAgent
    BY <1>5, OthersType DEF Pending
  <1>6. CASE UNCHANGED all
    BY <1>6 DEF Pending, all, vars
  <1>7. QED
    BY <1>2, <1>3, <1>4, <1>5, <1>6 DEF Next

\* Only countAttempt writes attempts.
LEMMA SameStep ==
    ASSUME WidgetTypeOK, Numbered, [Next]_all,
           ~\E r \in Req : SaveOtp(r) \/ CountAttempt(r)
    PROVE  RowsKept /\ RowsSame
  <1>1. ASSUME NEW r \in Req, UseCode(r)
        PROVE  RowsKept /\ RowsSame
    BY <1>1, UsedRows
  <1>2. ASSUME NEW r \in Req, Elsewhere(r)
        PROVE  RowsKept /\ RowsSame
    BY <1>2, OtherRows
  <1>3. CASE Age
    BY <1>3, AgedRows
  <1>4. CASE Evict \/ ExpireToken \/ Configure \/ DropAgent \/ UNCHANGED all
    BY <1>4, OtherRows
  <1>5. ASSUME NEW r \in Req,
               \/ WidgetCall(r) \/ WidgetHandler(r) \/ Fail(r)
               \/ (RemoveMember(r) \/ RemoveTx(r)) /\ UNCHANGED widget
        PROVE  UseCode(r) \/ Elsewhere(r)
    BY <1>5 DEF WidgetHandler, Elsewhere
  <1>6. CASE Next
    BY <1>1, <1>2, <1>3, <1>4, <1>5, <1>6 DEF Next
  <1>7. QED
    BY <1>4, <1>6

\* Numbers to come and the bound, where nothing is compared.
LEMMA UntriedStep ==
    ASSUME WidgetTypeOK, TriesInv, [Next]_all, ~\E r \in Req : VerifyOtp(r),
           IsFiniteSet(Req)
    PROVE  /\ \A c \in Code : c > made' => tries'[c] = 0
           /\ TriesBounded'
  <1>1. \A c \in Code : /\ \/ tries'[c] = tries[c] /\ lost'[c] >= lost[c]
                           \/ tries'[c] = 0
                        /\ {lost[c], lost'[c], tries[c]} \subseteq Nat
    BY TriesLess
  <1>2. made' \in {made, made + 1}
    <2>1. RowsKept \/ \E r \in Req : SaveOtp(r)
      BY RowsStep DEF TriesInv
    <2>2. QED
      BY <2>1, SavedRows DEF RowsKept, TriesInv
  <1>3. Cardinality(Req) \in Nat
    BY FS_CardinalityType
  <1>4. \A c \in Code : c > made' => tries'[c] = 0
    BY <1>1, <1>2, LimitsAssumption DEF TriesInv, WidgetTypeOK, Code
  <1>5. TriesBounded'
    BY <1>1, <1>3, LimitsAssumption DEF TriesInv, TriesBounded
  <1>6. QED
    BY <1>4, <1>5

LEMMA RowTries ==
    ASSUME WidgetTypeOK, NEW o \in otps
    PROVE  /\ o \in Otp /\ o.code \in Code /\ o.attempts \in Nat
           /\ tries[o.code] \in Nat /\ lost[o.code] \in Nat
  BY DEF WidgetTypeOK, Otp

\* Steps that neither compare nor store a code, nor count an attempt.
LEMMA OtherCompared ==
    ASSUME WidgetTypeOK, TriesInv, [Next]_all, IsFiniteSet(Req),
           ~\E r \in Req : \/ VerifyOtp(r) \/ SaveOtp(r) \/ CountAttempt(r)
                          \/ Fail(r),
           NEW p \in otps'
    PROVE  Compared(p)'
  <1> SUFFICES ASSUME Usable(p)
               PROVE  tries'[p.code] <= p.attempts + Cardinality(Pending(p.code)') + lost'[p.code]
    BY DEF Compared, Usable
  <1>1. PICK o \in otps : Inherits(o, p) /\ p.attempts = o.attempts
    BY SameStep DEF TriesInv, RowsSame
  <1>2. /\ Usable(o) /\ p.code = o.code /\ o.code \in Code
        /\ o.attempts \in Nat /\ tries[o.code] \in Nat /\ lost[o.code] \in Nat
    BY <1>1, RowTries DEF Inherits
  <1>3. tries[o.code] <= o.attempts + Cardinality(Pending(o.code)) + lost[o.code]
    BY <1>2 DEF TriesInv, Compared
  <1>4. /\ \/ tries'[o.code] = tries[o.code] /\ lost'[o.code] >= lost[o.code]
           \/ tries'[o.code] = 0
        /\ lost'[o.code] \in Nat
    BY <1>2, TriesLess
  <1>5. Pending(o.code) \subseteq Pending(o.code)'
    <2>1. CASE ~\E r \in Req : UseCode(r)
      BY <2>1, OtherPending
    <2>2. ASSUME NEW r \in Req, UseCode(r)
          PROVE  Pending(o.code) \subseteq Pending(o.code)'
      <3>1. requests[r].code # o.code
        BY <1>1, <1>2, <2>2, UsedRows DEF TriesInv
      <3>2. \A s \in Req \ {r} : requests'[s] = requests[s]
        BY <2>2, HandlerSlots DEF WidgetHandler
      <3>3. QED
        BY <3>1, <3>2 DEF Pending
    <2>3. QED
      BY <2>1, <2>2
  <1> DEFINE after == Pending(o.code)'
  <1>6. after \subseteq Req
    BY DEF Pending
  <1> HIDE DEF after
  <1>7. /\ Cardinality(Pending(o.code)) \in Nat /\ Cardinality(after) \in Nat
        /\ Cardinality(Pending(o.code)) <= Cardinality(after)
    <2>1. IsFiniteSet(after)
      BY <1>6, FS_Subset
    <2>2. Pending(o.code) \in SUBSET after
      BY <1>5 DEF after
    <2>3. QED
      BY <2>1, <2>2, FS_Subset, FS_CardinalityType
  <1>8. tries'[o.code] <= o.attempts + Cardinality(after) + lost'[o.code]
    BY <1>2, <1>3, <1>4, <1>7
  <1>9. QED
    BY <1>1, <1>2, <1>8 DEF after

\* The bound of a row only gets weaker while more requests are counted.
LEMMA MorePending ==
    ASSUME IsFiniteSet(Req), NEW c, NEW more \in SUBSET Req, Pending(c) \subseteq more
    PROVE  /\ Cardinality(more) \in Nat /\ Cardinality(Pending(c)) \in Nat
           /\ Cardinality(Pending(c)) <= Cardinality(more)
  <1>1. IsFiniteSet(more)
    BY FS_Subset
  <1>2. Pending(c) \in SUBSET more
    OBVIOUS
  <1>3. QED
    BY <1>1, <1>2, FS_Subset, FS_CardinalityType

\* countAttempt: the row counts what the handler counted.
LEMMA CountCompared ==
    ASSUME WidgetTypeOK, TriesInv, IsFiniteSet(Req), NEW r \in Req, CountAttempt(r),
           NEW p \in otps'
    PROVE  Compared(p)'
  <1> SUFFICES ASSUME Usable(p)
               PROVE  tries'[p.code] <= p.attempts + Cardinality(Pending(p.code)') + lost'[p.code]
    BY DEF Compared, Usable
  <1>1. PICK o \in otps :
           /\ Inherits(o, p)
           /\ p.attempts = IF o.code = requests[r].code THEN o.attempts + 1 ELSE o.attempts
    BY CountedRows DEF TriesInv
  <1>2. /\ Usable(o) /\ p.code = o.code /\ o.code \in Code
        /\ o.attempts \in Nat /\ tries[o.code] \in Nat /\ lost[o.code] \in Nat
    BY <1>1, RowTries DEF Inherits
  <1>3. tries[o.code] <= o.attempts + Cardinality(Pending(o.code)) + lost[o.code]
    BY <1>2 DEF TriesInv, Compared
  <1>4. tries' = tries /\ lost' = lost /\ Respond(r) /\ requests[r].pc = "countAttempt"
    BY DEF CountAttempt, At
  <1> DEFINE before == Pending(o.code)
             after == Pending(o.code)'
  <1>5. after = before \ {r} /\ (r \in before <=> requests[r].code = o.code)
    BY <1>4, RespondSlots DEF Pending, Idle
  <1>6. IsFiniteSet(before) /\ Cardinality(before) \in Nat
    BY PendingCount
  <1> HIDE DEF before, after
  <1>7. Cardinality(after) = IF requests[r].code = o.code THEN Cardinality(before) - 1
                             ELSE Cardinality(before)
    BY <1>5, <1>6, FS_RemoveElement
  <1>8. tries[o.code] <= p.attempts + Cardinality(after) + lost[o.code]
    BY <1>1, <1>2, <1>3, <1>6, <1>7 DEF before
  <1>9. QED
    BY <1>2, <1>4, <1>8 DEF after

\* What fails: the comparison its handler counted is lost.
LEMMA FailCompared ==
    ASSUME WidgetTypeOK, TriesInv, IsFiniteSet(Req), NEW r \in Req, Fail(r),
           NEW p \in otps'
    PROVE  Compared(p)'
  <1> SUFFICES ASSUME Usable(p)
               PROVE  tries'[p.code] <= p.attempts + Cardinality(Pending(p.code)') + lost'[p.code]
    BY DEF Compared, Usable
  <1>1. /\ p \in otps /\ tries' = tries /\ requests'[r] = Idle
        /\ \A s \in Req \ {r} : requests'[s] = requests[s]
    BY FailType
  <1>2. /\ p.code \in Code /\ p.attempts \in Nat
        /\ tries[p.code] \in Nat /\ lost[p.code] \in Nat
    BY <1>1, RowTries
  <1>3. tries[p.code] <= p.attempts + Cardinality(Pending(p.code)) + lost[p.code]
    BY <1>1 DEF TriesInv, Compared
  <1>4. p.code \in InUse
    BY <1>1 DEF InUse
  <1> DEFINE before == Pending(p.code)
             after == Pending(p.code)'
  <1>5. /\ after = before \ {r}
        /\ r \in before <=> Uncounted(r) /\ requests[r].code = p.code
    BY <1>1, <1>4 DEF Pending, Uncounted, Idle
  <1>6. IsFiniteSet(before) /\ Cardinality(before) \in Nat
    BY PendingCount
  <1> HIDE DEF before, after
  <1>7. CASE r \in before
    <2>1. Cardinality(after) = Cardinality(before) - 1
      BY <1>5, <1>6, <1>7, FS_RemoveElement
    <2>2. lost'[p.code] = lost[p.code] + 1
      BY <1>2, <1>5, <1>7 DEF Fail, WidgetTypeOK
    <2>3. QED
      BY <1>1, <1>2, <1>3, <1>6, <2>1, <2>2 DEF before, after
  <1>8. CASE r \notin before
    <2>1. after = before
      BY <1>5, <1>8
    <2>2. lost'[p.code] = lost[p.code]
      <3>1. CASE ~Uncounted(r)
        BY <3>1 DEF Fail
      <3>2. CASE Uncounted(r) /\ requests[r].code # p.code
        BY <1>2, <3>2 DEF Fail, WidgetTypeOK
      <3>3. QED
        BY <1>5, <1>8, <3>1, <3>2
    <2>3. QED
      BY <1>1, <1>3, <2>1, <2>2 DEF before, after
  <1>9. QED
    BY <1>7, <1>8

\* requestOtp: a new row has been compared with nothing.
LEMMA SaveCompared ==
    ASSUME WidgetTypeOK, TriesInv, IsFiniteSet(Req), NEW r \in Req, SaveOtp(r),
           NEW p \in otps'
    PROVE  Compared(p)'
  <1> SUFFICES ASSUME Usable(p)
               PROVE  tries'[p.code] <= p.attempts + Cardinality(Pending(p.code)') + lost'[p.code]
    BY DEF Compared, Usable
  <1> DEFINE after == Pending(p.code)'
  <1>1. after \subseteq Req /\ Pending(p.code) \subseteq after
    <2>1. \A s \in Req \ {r} : requests'[s] = requests[s]
      BY RespondSlots DEF SaveOtp
    <2>2. requests[r].pc = "saveOtp"
      BY DEF SaveOtp, At
    <2>3. QED
      BY <2>1, <2>2 DEF Pending
  <1> HIDE DEF after
  <1>2. /\ Cardinality(after) \in Nat /\ Cardinality(Pending(p.code)) \in Nat
        /\ Cardinality(Pending(p.code)) <= Cardinality(after)
    BY <1>1, MorePending
  <1>3. tries' = tries /\ lost' = lost
    BY DEF SaveOtp
  <1>4. CASE p \in otps
    <2>1. tries[p.code] <= p.attempts + Cardinality(Pending(p.code)) + lost[p.code]
      BY <1>4 DEF TriesInv, Compared
    <2>2. p.attempts \in Nat /\ {tries[p.code], lost[p.code]} \subseteq Nat
      BY <1>4, RowTries
    <2>3. QED
      BY <1>2, <1>3, <2>1, <2>2 DEF after
  <1>5. CASE p \notin otps
    <2>1. p = NewOtp(requests[r]) /\ made + 1 \in Code
      BY <1>5, SavedRows DEF TriesInv
    <2>2. p.code = made + 1 /\ p.attempts = 0
      BY <2>1 DEF NewOtp
    <2>3. tries[p.code] = 0 /\ lost[p.code] \in Nat
      BY <2>1, <2>2 DEF TriesInv, WidgetTypeOK
    <2>4. QED
      BY <1>2, <1>3, <2>2, <2>3 DEF after
  <1>6. QED
    BY <1>4, <1>5

\* verifyOtp: a comparison more, and a handler more that has it to count.
LEMMA VerifyTries ==
    ASSUME WidgetTypeOK, TriesInv, IsFiniteSet(Req), NEW r \in Req, VerifyOtp(r)
    PROVE  TriesInv'
  <1>1. PICK a \in Agent, e \in Visitor, s \in Session, right \in BOOLEAN :
           /\ Unused(e, a) # {}
           /\ LET otp == Newest(Unused(e, a))
              IN /\ otp.attempts < Attempts
                 /\ tries' = [tries EXCEPT ![otp.code] = @ + 1]
                 /\ Continue(r, IF right
                                THEN [pc |-> "useCode", code |-> otp.code, agent |-> a,
                                      email |-> e, session |-> s]
                                ELSE [pc |-> "countAttempt", code |-> otp.code,
                                      seen |-> otp.attempts])
    BY DEF VerifyOtp
  <1>2. PICK otp \in otps :
           /\ otp = Newest(Unused(e, a))
           /\ otp.code \in Code /\ otp.attempts \in Nat /\ Usable(otp)
           /\ otp.code <= made /\ tries[otp.code] \in Nat
           /\ lost[otp.code] \in Nat
    BY <1>1, VerifiedCode, RowTries DEF TriesInv, Numbered
  <1>3. /\ otp.attempts < Attempts
        /\ tries' = [tries EXCEPT ![otp.code] = @ + 1]
        /\ \E rec : /\ Continue(r, rec) /\ rec.code = otp.code
                    /\ rec.pc \in {"countAttempt", "useCode"}
    BY <1>1, <1>2
  <1>4. /\ requests'[r].code = otp.code
        /\ requests'[r].pc \in {"countAttempt", "useCode"}
        /\ \A q \in Req \ {r} : requests'[q] = requests[q]
    BY <1>3, ContinueSlots
  <1>5. requests[r].pc = "idle" /\ UNCHANGED <<otps, made, lost>>
    BY DEF VerifyOtp, At
  <1>6. /\ tries'[otp.code] = tries[otp.code] + 1
        /\ \A c \in Code : c # otp.code => tries'[c] = tries[c]
    BY <1>2, <1>3 DEF WidgetTypeOK
  <1> DEFINE before == Pending(otp.code)
             after == Pending(otp.code)'
  <1>7. after = before \cup {r} /\ r \notin before /\ after \subseteq Req
    BY <1>4, <1>5 DEF Pending
  <1>8. IsFiniteSet(before) /\ Cardinality(before) \in Nat /\ Cardinality(Req) \in Nat
    BY PendingCount
  <1>9. tries[otp.code] <= otp.attempts + Cardinality(before) + lost[otp.code]
    BY <1>2 DEF TriesInv, Compared
  <1> HIDE DEF before, after
  <1>10. /\ Cardinality(after) = Cardinality(before) + 1
         /\ Cardinality(after) <= Cardinality(Req)
    BY <1>7, <1>8, FS_AddElement, FS_Subset
  <1>11. tries'[otp.code] <= otp.attempts + Cardinality(after) + lost[otp.code]
    BY <1>2, <1>6, <1>8, <1>9, <1>10
  <1>12. tries'[otp.code] < Attempts + Cardinality(Req) + lost[otp.code]
    BY <1>2, <1>3, <1>6, <1>8, <1>9, <1>10, LimitsAssumption
  <1>13. TriesBounded'
    BY <1>5, <1>6, <1>12 DEF TriesInv, TriesBounded
  <1>14. \A c \in Code : c > made' => tries'[c] = 0
    BY <1>2, <1>5, <1>6, LimitsAssumption DEF TriesInv, Code, WidgetTypeOK
  <1>15. ASSUME NEW p \in otps', Usable(p)
         PROVE  tries'[p.code] <= p.attempts + Cardinality(Pending(p.code)') + lost'[p.code]
    <2>1. /\ p \in otps /\ p.code \in Code /\ p.attempts \in Nat
          /\ {tries[p.code], lost[p.code]} \subseteq Nat
      BY <1>5, <1>15, RowTries
    <2>2. CASE p.code = otp.code
      <3>1. p = otp
        BY <1>2, <2>1, <2>2 DEF TriesInv, Numbered
      <3>2. QED
        BY <1>5, <1>11, <3>1 DEF after
    <2>3. CASE p.code # otp.code
      <3> DEFINE more == Pending(p.code)'
      <3>1. more \subseteq Req /\ Pending(p.code) \subseteq more
        BY <1>4, <1>5 DEF Pending
      <3> HIDE DEF more
      <3>2. /\ Cardinality(more) \in Nat /\ Cardinality(Pending(p.code)) \in Nat
            /\ Cardinality(Pending(p.code)) <= Cardinality(more)
        BY <3>1, MorePending
      <3>3. tries[p.code] <= p.attempts + Cardinality(Pending(p.code)) + lost[p.code]
        BY <1>15, <2>1 DEF TriesInv, Compared
      <3>4. tries'[p.code] <= p.attempts + Cardinality(more) + lost'[p.code]
        BY <1>5, <1>6, <2>1, <2>3, <3>2, <3>3
      <3>5. QED
        BY <3>4 DEF more
    <2>4. QED
      BY <2>2, <2>3
  <1>16. \A p \in otps' : Compared(p)'
    BY <1>15 DEF Compared, Usable
  <1>17. Numbered'
    BY <1>5 DEF Numbered, TriesInv
  <1>18. QED
    BY <1>13, <1>14, <1>16, <1>17 DEF TriesInv

LEMMA TriesStep ==
    ASSUME IsFiniteSet(Req), WidgetTypeOK, TriesInv, [Next]_all
    PROVE  TriesInv'
  <1>1. ASSUME NEW r \in Req, VerifyOtp(r)
        PROVE  TriesInv'
    BY <1>1, VerifyTries
  <1>2. CASE ~\E r \in Req : VerifyOtp(r)
    <2>1. /\ \A c \in Code : c > made' => tries'[c] = 0
          /\ TriesBounded'
      BY <1>2, UntriedStep
    <2>2. Numbered'
      BY RowsStep DEF TriesInv
    <2>3. ASSUME NEW p \in otps'
          PROVE  Compared(p)'
      <3>1. ASSUME NEW r \in Req, CountAttempt(r)
            PROVE  Compared(p)'
        BY <3>1, CountCompared
      <3>2. ASSUME NEW r \in Req, SaveOtp(r)
            PROVE  Compared(p)'
        BY <3>2, SaveCompared
      <3>3. ASSUME NEW r \in Req, Fail(r)
            PROVE  Compared(p)'
        BY <3>3, FailCompared
      <3>4. CASE ~\E r \in Req : SaveOtp(r) \/ CountAttempt(r) \/ Fail(r)
        BY <1>2, <3>4, OtherCompared
      <3>5. QED
        BY <3>1, <3>2, <3>3, <3>4
    <2>4. QED
      BY <2>1, <2>2, <2>3 DEF TriesInv
  <1>3. QED
    BY <1>1, <1>2

LEMMA TriesInit ==
    ASSUME IsFiniteSet(Req), Start
    PROVE  TriesInv
  <1>1. Cardinality(Req) \in Nat
    BY FS_CardinalityType
  <1>2. \A c \in Code : tries[c] = 0 /\ lost[c] = 0
    BY DEF Start
  <1>3. TriesBounded
    BY <1>1, <1>2, LimitsAssumption DEF TriesBounded
  <1>4. otps = {}
    BY DEF Start
  <1>5. QED
    BY <1>2, <1>3, <1>4 DEF TriesInv, Numbered

\* TriesBounded: verifyOtp reads the attempts of a code and counts one later; for
\* any number of handlers at once a code is compared less often than the limit,
\* they, and the comparisons whose increment or usedAt was lost to a failure together.
THEOREM TriesHold ==
    ASSUME IsFiniteSet(Req)
    PROVE  Behaviour => []TriesBounded
  <1>1. Start => WidgetTypeOK /\ TriesInv
    BY TriesInit DEF Start
  <1>2. WidgetTypeOK /\ TriesInv /\ [Next]_all => (WidgetTypeOK /\ TriesInv)'
    BY TypeStep, TriesStep
  <1>3. TriesInv => TriesBounded
    BY DEF TriesInv
  <1>4. QED
    BY <1>1, <1>2, <1>3, PTL DEF Behaviour

(* ------------------------- Who is locked out --------------------------- *)

\* No step of the widget or of the removals adds a member.
LEMMA FewerUsers ==
    ASSUME [Next]_all
    PROVE  users' \subseteq users
  <1>1. ASSUME NEW r \in Req, WidgetCall(r)
        PROVE  users' = users
    BY <1>1 DEF WidgetCall, RequestOtp, VerifyOtp, CreateSession, tables
  <1>2. ASSUME NEW r \in Req, WidgetHandler(r)
        PROVE  users' = users
    <2>1. CASE CheckAccess(r) \/ CountCodes(r) \/ SaveOtp(r) \/ CountAttempt(r) \/ UseCode(r)
      BY <2>1 DEF CheckAccess, CountCodes, SaveOtp, CountAttempt, UseCode, tables
    <2>2. CASE ReadAgent(r) \/ ReadCache(r) \/ SaveToken(r) \/ CacheToken(r) \/ ReadSession(r)
      BY <2>2 DEF ReadAgent, ReadCache, SaveToken, CacheToken, ReadSession, tables
    <2>3. QED
      BY <1>2, <2>1, <2>2 DEF WidgetHandler
  <1>3. ASSUME NEW r \in Req, RemoveMember(r) \/ RemoveTx(r)
        PROVE  users' \subseteq users
    BY <1>3 DEF RemoveMember, RemoveTx, tables
  <1>4. CASE Age \/ Evict \/ ExpireToken \/ Configure \/ DropAgent \/ UNCHANGED all
    BY <1>4 DEF Age, Evict, ExpireToken, Configure, DropAgent, RemoveAgent, all, vars, tables
  <1>5. ASSUME NEW r \in Req, Fail(r)
        PROVE  users' = users
    BY <1>5 DEF Fail, tables
  <1>6. QED
    BY <1>1, <1>2, <1>3, <1>4, <1>5 DEF Next

\* A token that is neither revoked nor expired comes from verifyOtp only.
LEMMA RevokedStays ==
    ASSUME WidgetTypeOK, [Next]_all, NEW e \in Email, LockedOut(e)
    PROVE  \A t \in widgetTokens' : t.email = e => t.revoked \/ t.expired
  <1>1. \A t \in widgetTokens : t.email = e => t.revoked \/ t.expired
    BY DEF LockedOut
  <1>2. ASSUME NEW r \in Req, SaveToken(r)
        PROVE  \A t \in widgetTokens' : t.email = e => t.revoked \/ t.expired
    <2>1. requests[r].email # e
      BY <1>2 DEF LockedOut, HasHandler, SaveToken, At
    <2>2. CASE AgentExists(requests[r].agent)
      <3> DEFINE row(t) == [token |-> t, agent |-> requests[r].agent,
                            email |-> requests[r].email, revoked |-> FALSE,
                            expired |-> FALSE]
      <3>1. PICK t \in Token \ issued : widgetTokens' = widgetTokens \cup {row(t)}
        BY <1>2, <2>2, Zenon DEF SaveToken
      <3>2. row(t).email # e
        BY <2>1
      <3> HIDE DEF row
      <3>3. QED
        BY <1>1, <3>1, <3>2
    <2>3. CASE ~AgentExists(requests[r].agent)
      <3>1. UNCHANGED <<widgetTokens, issued>>
        BY <1>2, <2>3, Zenon DEF SaveToken
      <3>2. QED
        BY <1>1, <3>1
    <2>4. QED
      BY <2>2, <2>3
  <1>3. ASSUME NEW r \in Req, WidgetHandler(r), ~SaveToken(r)
        PROVE  widgetTokens' = widgetTokens
    <2>1. CASE CheckAccess(r) \/ CountCodes(r) \/ SaveOtp(r) \/ CountAttempt(r) \/ UseCode(r)
      BY <2>1 DEF CheckAccess, CountCodes, SaveOtp, CountAttempt, UseCode, tables
    <2>2. CASE ReadAgent(r) \/ ReadCache(r) \/ CacheToken(r) \/ ReadSession(r)
      BY <2>2 DEF ReadAgent, ReadCache, CacheToken, ReadSession, tables
    <2>3. QED
      BY <1>3, <2>1, <2>2 DEF WidgetHandler
  <1>4. ASSUME NEW r \in Req, WidgetCall(r) \/ RemoveMember(r)
        PROVE  widgetTokens' = widgetTokens
    BY <1>4 DEF WidgetCall, RequestOtp, VerifyOtp, CreateSession, RemoveMember, tables
  <1>5. ASSUME NEW r \in Req, RemoveTx(r)
        PROVE  \A t \in widgetTokens' : t.email = e => t.revoked \/ t.expired
    <2>1. \A t \in WidgetToken : \A u :
             /\ Revoked(t, u).email = t.email
             /\ t.revoked => Revoked(t, u).revoked
             /\ Revoked(t, u).expired = t.expired
      BY DEF Revoked, WidgetToken
    <2>2. \/ widgetTokens' = widgetTokens
          \/ widgetTokens' = {Revoked(t, requests[r].target) : t \in widgetTokens}
      BY <1>5 DEF RemoveTx
    <2>3. QED
      BY <1>1, <2>1, <2>2 DEF WidgetTypeOK
  <1>6. CASE Age \/ Evict \/ Configure \/ UNCHANGED all
    BY <1>1, <1>6 DEF Age, Evict, Configure, all, vars, tables
  <1>7. CASE DropAgent
    BY <1>1, <1>7 DEF DropAgent, RemoveAgent
  <1>8. CASE ExpireToken
    <2>1. \A t \in WidgetToken : /\ [t EXCEPT !.expired = TRUE].email = t.email
                                /\ [t EXCEPT !.expired = TRUE].expired
      BY DEF WidgetToken
    <2>2. QED
      BY <1>1, <1>8, <2>1 DEF ExpireToken, WidgetTypeOK
  <1>9. ASSUME NEW r \in Req, Fail(r)
        PROVE  widgetTokens' = widgetTokens
    BY <1>9 DEF Fail, tables
  <1>10. QED
    BY <1>1, <1>2, <1>3, <1>4, <1>5, <1>6, <1>7, <1>8, <1>9 DEF Next

\* A code that can be used comes from a handler of requestOtp for the address.
LEMMA UnusableStays ==
    ASSUME WidgetTypeOK, Numbered, [Next]_all, NEW e \in Email, LockedOut(e)
    PROVE  \A p \in otps' : p.email = e => ~Usable(p)
  <1>1. CASE RowsKept
    BY <1>1 DEF RowsKept, Inherits, LockedOut
  <1>2. ASSUME NEW r \in Req, SaveOtp(r)
        PROVE  \A p \in otps' : p.email = e => ~Usable(p)
    <2>1. requests[r].email # e
      BY <1>2 DEF LockedOut, HasHandler, SaveOtp, At
    <2>2. NewOtp(requests[r]).email # e
      BY <2>1 DEF NewOtp
    <2>3. otps' \subseteq otps \cup {NewOtp(requests[r])}
      BY <1>2, SavedRows
    <2>4. QED
      BY <2>2, <2>3 DEF LockedOut
  <1>3. QED
    BY <1>1, <1>2, RowsStep

\* A handler for the address, past the question whether it is a member's.
Serves(rec, e) == /\ rec.pc \in {"checkAccess", "countCodes", "saveOtp", "useCode",
                                 "readAgent", "readCache", "saveToken"}
                  /\ rec.email = e
                  /\ rec.pc # "checkAccess"

LEMMA ServesMeans ==
    ASSUME NEW e \in Email, LockedOut(e)
    PROVE  \A r \in Req : ~Serves(requests[r], e)
  BY DEF LockedOut, HasHandler, Serves, At

LEMMA CallServes ==
    ASSUME WidgetTypeOK, NEW e \in Email, LockedOut(e), NEW r \in Req, WidgetCall(r)
    PROVE  /\ ~Serves(requests'[r], e)
           /\ \A s \in Req \ {r} : requests'[s] = requests[s]
  <1>1. ASSUME NEW rec, Continue(r, rec), ~Serves(rec, e)
        PROVE  /\ ~Serves(requests'[r], e)
               /\ \A s \in Req \ {r} : requests'[s] = requests[s]
    BY <1>1, ContinueSlots
  <1>2. CASE RequestOtp(r)
    <2>1. PICK a \in Agent, f \in Visitor :
             Continue(r, [pc |-> "checkAccess", agent |-> a, email |-> f])
      BY <1>2 DEF RequestOtp
    <2>2. ~Serves([pc |-> "checkAccess", agent |-> a, email |-> f], e)
      BY DEF Serves
    <2>3. QED
      BY <1>1, <2>1, <2>2
  <1>3. CASE VerifyOtp(r)
    <2>1. PICK a \in Agent, f \in Visitor, s \in Session, right \in BOOLEAN :
             /\ Unused(f, a) # {}
             /\ LET otp == Newest(Unused(f, a))
                IN Continue(r, IF right
                               THEN [pc |-> "useCode", code |-> otp.code, agent |-> a,
                                     email |-> f, session |-> s]
                               ELSE [pc |-> "countAttempt", code |-> otp.code,
                                     seen |-> otp.attempts])
      BY <1>3 DEF VerifyOtp
    <2>2. f # e
      BY <2>1 DEF Unused, LockedOut
    <2> DEFINE otp == Newest(Unused(f, a))
               used == [pc |-> "useCode", code |-> otp.code, agent |-> a,
                        email |-> f, session |-> s]
               wrong == [pc |-> "countAttempt", code |-> otp.code, seen |-> otp.attempts]
    <2>3. Continue(r, used) \/ Continue(r, wrong)
      BY <2>1
    <2>4. ~Serves(used, e) /\ ~Serves(wrong, e)
      BY <2>2 DEF Serves
    <2> HIDE DEF used, wrong
    <2>5. QED
      BY <1>1, <2>3, <2>4
  <1>4. CASE CreateSession(r)
    <2>1. PICK a \in Agent, s \in Session :
             Continue(r, [pc |-> "readSession", agent |-> a, session |-> s])
      BY <1>4 DEF CreateSession
    <2>2. ~Serves([pc |-> "readSession", agent |-> a, session |-> s], e)
      BY DEF Serves
    <2>3. QED
      BY <1>1, <2>1, <2>2
  <1>5. QED
    BY <1>2, <1>3, <1>4 DEF WidgetCall

LEMMA HandlerServes ==
    ASSUME WidgetTypeOK, NEW e \in Email, LockedOut(e), NEW r \in Req, WidgetHandler(r)
    PROVE  ~Serves(requests'[r], e)
  <1>1. ASSUME Respond(r)
        PROVE  ~Serves(requests'[r], e)
    BY <1>1, RespondSlots DEF Serves, Idle
  <1>2. ~Serves(requests[r], e)
    BY ServesMeans
  <1>3. CASE CheckAccess(r)
    <2>1. HasAccess(requests[r].email, requests[r].agent) => requests[r].email # e
      BY DEF HasAccess, LockedOut
    <2>2. Respond(r) \/ (Goto(r, "countCodes") /\ requests[r].email # e)
      BY <1>3, <2>1 DEF CheckAccess
    <2>3. QED
      BY <1>1, <1>3, <2>2, GotoSlots DEF CheckAccess, At, Serves
  <1>4. CASE CountCodes(r)
    <2>1. Respond(r) \/ Goto(r, "saveOtp")
      BY <1>4 DEF CountCodes
    <2>2. QED
      BY <1>1, <1>2, <1>4, <2>1, GotoSlots DEF CountCodes, At, Serves
  <1>5. CASE SaveOtp(r) \/ CountAttempt(r) \/ CacheToken(r)
    BY <1>1, <1>5 DEF SaveOtp, CountAttempt, CacheToken
  <1>6. CASE UseCode(r)
    <2> DEFINE rec == [pc |-> "readAgent", agent |-> requests[r].agent,
                       email |-> requests[r].email, session |-> requests[r].session]
    <2>1. Continue(r, rec)
      BY <1>6 DEF UseCode
    <2>2. ~Serves(rec, e)
      BY <1>2, <1>6 DEF UseCode, At, Serves
    <2> HIDE DEF rec
    <2>3. QED
      BY <2>1, <2>2, ContinueSlots
  <1>7. CASE ReadAgent(r)
    <2>1. Respond(r) \/ Goto(r, "readCache")
      BY <1>7 DEF ReadAgent
    <2>2. QED
      BY <1>1, <1>2, <1>7, <2>1, GotoSlots DEF ReadAgent, At, Serves
  <1>8. CASE ReadCache(r)
    <2>1. Respond(r) \/ Goto(r, "saveToken")
      BY <1>8 DEF ReadCache
    <2>2. QED
      BY <1>1, <1>2, <1>8, <2>1, GotoSlots DEF ReadCache, At, Serves
  <1>9. CASE SaveToken(r) \/ ReadSession(r)
    <2>1. (\E t \in Token : Continue(r, [pc |-> "cacheToken",
              agent |-> requests[r].agent, session |-> requests[r].session,
              token |-> t])) \/ Respond(r)
      <3>1. CASE SaveToken(r)
        BY <3>1, Zenon DEF SaveToken
      <3>2. CASE ReadSession(r)
        BY <3>2 DEF ReadSession
      <3>3. QED
        BY <1>9, <3>1, <3>2
    <2>2. ASSUME NEW rec, rec.pc = "cacheToken", Continue(r, rec)
          PROVE  ~Serves(requests'[r], e)
      BY <2>2, ContinueSlots DEF Serves
    <2>3. QED
      BY <1>1, <2>1, <2>2
  <1>10. QED
    BY <1>3, <1>4, <1>5, <1>6, <1>7, <1>8, <1>9 DEF WidgetHandler

LEMMA NobodyServes ==
    ASSUME WidgetTypeOK, [Next]_all, NEW e \in Email, LockedOut(e), NEW s \in Req
    PROVE  ~Serves(requests'[s], e)
  <1>1. ~Serves(requests[s], e)
    BY ServesMeans
  <1>2. ASSUME NEW r \in Req, ~Serves(requests'[r], e),
               \A q \in Req \ {r} : requests'[q] = requests[q]
        PROVE  ~Serves(requests'[s], e)
    BY <1>1, <1>2
  <1>3. ASSUME NEW r \in Req, WidgetCall(r)
        PROVE  ~Serves(requests'[s], e)
    BY <1>2, <1>3, CallServes
  <1>4. ASSUME NEW r \in Req, WidgetHandler(r)
        PROVE  ~Serves(requests'[s], e)
    BY <1>2, <1>4, HandlerServes, HandlerSlots
  <1>5. ASSUME NEW r \in Req, RemoveMember(r) \/ RemoveTx(r), UNCHANGED widget
        PROVE  ~Serves(requests'[s], e)
    <2>1. ~Serves(requests'[r], e)
      BY <1>5, RemoveType DEF Serves
    <2>2. QED
      BY <1>2, <1>5, <2>1, RemoveType
  <1>6. CASE Age \/ Evict \/ ExpireToken \/ Configure \/ DropAgent
    BY <1>1, <1>6, OthersType
  <1>7. CASE UNCHANGED all
    BY <1>1, <1>7 DEF all, vars
  <1>8. ASSUME NEW r \in Req, Fail(r)
        PROVE  ~Serves(requests'[s], e)
    <2>1. ~Serves(requests'[r], e)
      BY <1>8, FailType DEF Serves, Idle
    <2>2. QED
      BY <1>2, <1>8, <2>1, FailType
  <1>9. QED
    BY <1>3, <1>4, <1>5, <1>6, <1>7, <1>8 DEF Next

LEMMA LockedStep ==
    ASSUME WidgetTypeOK, Numbered, [Next]_all, NEW e \in Email, LockedOut(e)
    PROVE  LockedOut(e)'
  <1>1. \A u \in users' : u.email # e
    BY FewerUsers DEF LockedOut
  <1>2. \A p \in otps' : p.email = e => ~Usable(p)
    BY UnusableStays
  <1>3. \A t \in widgetTokens' : t.email = e => t.revoked \/ t.expired
    BY RevokedStays
  <1>4. ~HasHandler(e)'
    BY <1>1, NobodyServes DEF HasHandler, Serves, At
  <1>5. QED
    BY <1>1, <1>2, <1>3, <1>4 DEF LockedOut, Usable

\* StaysOut: removeMember revokes the tokens of a member and leaves its codes;
\* who has no code left, no token and no handler at work does not come back in.
THEOREM LockedOutStays == Behaviour => StaysOut
  <1>1. Start => WidgetTypeOK /\ Numbered
    BY DEF Start, Numbered
  <1>2. WidgetTypeOK /\ Numbered /\ [Next]_all => (WidgetTypeOK /\ Numbered)'
    BY TypeStep, RowsStep
  <1>3. WidgetTypeOK /\ Numbered /\ [Next]_all =>
           [\A e \in Email : LockedOut(e) => LockedOut(e)']_all
    BY LockedStep
  <1>4. QED
    BY <1>1, <1>2, <1>3, PTL DEF Behaviour, StaysOut

=============================================================================
