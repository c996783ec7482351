--------------------------- MODULE SessionsProofs ---------------------------
(***************************************************************************)
(* Theorems about Sessions, for any sets of users, browsers and requests,   *)
(* any times to live, and without the bound on time.                       *)
(***************************************************************************)
EXTENDS Sessions, TLAPS

(* ------------------------- Type correctness ---------------------------- *)

\* What the program counter of a request says about its other fields.
LEMMA RequestFields ==
    ASSUME TypeOK, NEW r \in Req
    PROVE  /\ At(r, "sign") => /\ requests[r].user \in User
                               /\ requests[r].browser \in Browser
                               /\ requests[r].process \in Process
           /\ At(r, "load") => /\ requests[r].raw \in Jwt
                               /\ requests[r].browser \in Browser
                               /\ requests[r].process \in Process
           /\ At(r, "store") => /\ requests[r].token \in Jwt
                                /\ requests[r].browser \in Browser
                                /\ requests[r].process \in Process
           /\ At(r, "answer") => /\ requests[r].token \in Jwt
                                 /\ requests[r].browser \in Browser
           /\ At(r, "clear") => requests[r].browser \in Browser
  <1>1. requests[r] \in Request
    BY DEF TypeOK
  <1>2. QED
    BY <1>1 DEF Request, At

\* A step that moves one request to a well-typed record keeps the requests
\* well typed.
LEMMA ContinueType ==
    ASSUME TypeOK, NEW r \in Req, NEW rec \in Request, Continue(r, rec)
    PROVE  requests' \in [Req -> Request]
  BY DEF TypeOK, Continue

\* A slot without handler is well typed.
LEMMA RespondType ==
    ASSUME TypeOK, NEW r \in Req, Respond(r)
    PROVE  requests' \in [Req -> Request]
  <1>1. Idle \in Request
    BY DEF Idle, Request
  <1>2. QED
    BY <1>1, ContinueType DEF Respond

\* A set or a delete keeps both stores well typed.
LEMMA PutType ==
    ASSUME TypeOK, NEW p \in Process, NEW u \in User, NEW value \in Jwt \cup {NoJwt},
           NEW taken \in BOOLEAN, Put(p, u, value, taken)
    PROVE  /\ redis' \in [User -> Jwt \cup {NoJwt}]
           /\ memory' \in [Process -> [User -> Jwt \cup {NoJwt}]]
           /\ last' \in [User -> Jwt \cup {NoJwt}]
           /\ reached' \in [User -> Jwt \cup {NoJwt}]
  <1>1. CASE taken
    BY <1>1 DEF TypeOK, Put
  <1>2. CASE ~taken
    BY <1>2 DEF TypeOK, Put
  <1>3. QED
    BY <1>1, <1>2

\* A handler that has written goes on, or ends where Redis did not take it.
LEMMA PutThenType ==
    ASSUME TypeOK, NEW r \in Req, NEW p \in Process, NEW u \in User,
           NEW value \in Jwt \cup {NoJwt}, NEW rec \in Request,
           PutThen(r, p, u, value, rec), UNCHANGED <<users, now>>, UNCHANGED jar
    PROVE  TypeOK'
  <1>1. PICK taken \in BOOLEAN :
           /\ Put(p, u, value, taken)
           /\ \/ Continue(r, rec)
              \/ Respond(r)
    BY DEF PutThen
  <1>2. requests' \in [Req -> Request]
    BY <1>1, ContinueType, RespondType
  <1>3. /\ redis' \in [User -> Jwt \cup {NoJwt}]
        /\ memory' \in [Process -> [User -> Jwt \cup {NoJwt}]]
        /\ last' \in [User -> Jwt \cup {NoJwt}]
        /\ reached' \in [User -> Jwt \cup {NoJwt}]
    BY <1>1, PutType
  <1>4. QED
    BY <1>2, <1>3 DEF TypeOK

\* Neither a token nor a user's name is the absence of a token.
LEMMA JwtIsToken ==
    ASSUME NEW token \in Jwt
    PROVE  token.user \in User /\ token.at \in Nat
  BY DEF Jwt

\* What is signed is a token.
LEMMA SignedType ==
    ASSUME TypeOK, NEW r \in Req, NEW u \in User,
           requests[r].browser \in Browser, requests[r].process \in Process,
           Signed(r, u)
    PROVE  requests' \in [Req -> Request]
  <1>1. SignFor(u) \in Jwt
    BY DEF SignFor, Jwt, TypeOK
  <1>2. [pc |-> "store", token |-> SignFor(u), browser |-> requests[r].browser,
         process |-> requests[r].process] \in Request
    BY <1>1 DEF Request
  <1>3. QED
    BY <1>2, ContinueType DEF Signed

\* Calls keep the types.
LEMMA CallType ==
    ASSUME TypeOK, NEW r \in Req, Call(r)
    PROVE  TypeOK'
  <1>1. CASE Login(r)
    <2>1. PICK u \in users, b \in Browser, p \in Process :
             Continue(r, [pc |-> "sign", user |-> u, browser |-> b, process |-> p])
      BY <1>1 DEF Login
    <2>2. [pc |-> "sign", user |-> u, browser |-> b, process |-> p] \in Request
      BY DEF Request, TypeOK
    <2>3. QED
      BY <1>1, <2>1, <2>2, ContinueType DEF Login, TypeOK, store
  <1>2. CASE Refresh(r)
    <2>1. PICK b \in Browser, p \in Process :
             /\ jar[b].refresh # NoJwt
             /\ Continue(r, [pc |-> "load", raw |-> jar[b].refresh,
                             browser |-> b, process |-> p])
      BY <1>2 DEF Refresh
    <2>2. jar[b].refresh \in Jwt
      BY <2>1 DEF TypeOK, Cookies
    <2>3. [pc |-> "load", raw |-> jar[b].refresh, browser |-> b, process |-> p]
             \in Request
      BY <2>2 DEF Request
    <2>4. QED
      BY <1>2, <2>1, <2>3, ContinueType DEF Refresh, TypeOK, store
  <1>3. CASE Logout(r)
    <2>1. PICK b \in Browser, p \in Process :
             /\ jar[b].access # NoJwt
             /\ PutThen(r, p, jar[b].access.user, NoJwt, [pc |-> "clear", browser |-> b])
      BY <1>3 DEF Logout
    <2>2. jar[b].access.user \in User
      BY <2>1, JwtIsToken DEF TypeOK, Cookies
    <2>3. [pc |-> "clear", browser |-> b] \in Request
      BY DEF Request
    <2>4. QED
      BY <1>3, <2>1, <2>2, <2>3, PutThenType DEF Logout
  <1>4. QED
    BY <1>1, <1>2, <1>3 DEF Call

\* Handlers keep the types.
LEMMA HandlerType ==
    ASSUME TypeOK, NEW r \in Req, Handler(r)
    PROVE  TypeOK'
  <1>1. CASE Sign(r)
    BY <1>1, RequestFields, SignedType DEF Sign, TypeOK, store
  <1>2. CASE Load(r)
    <2>1. requests[r].raw.user \in User
      BY <1>2, RequestFields, JwtIsToken DEF Load
    <2>2. QED
      BY <1>2, <2>1, RequestFields, SignedType, RespondType DEF Load, TypeOK, store
  <1>3. CASE Store(r)
    <2>1. /\ requests[r].token \in Jwt
          /\ requests[r].browser \in Browser
          /\ requests[r].process \in Process
      BY <1>3, RequestFields DEF Store
    <2>2. [pc |-> "answer", token |-> requests[r].token,
           browser |-> requests[r].browser] \in Request
      BY <2>1 DEF Request
    <2>3. QED
      BY <1>3, <2>1, <2>2, JwtIsToken, PutThenType DEF Store
  <1>4. CASE Answer(r)
    <2>1. [access |-> requests[r].token, refresh |-> requests[r].token] \in Cookies
      BY <1>4, RequestFields DEF Answer, Cookies
    <2>2. QED
      BY <1>4, <2>1, RespondType DEF Answer, TypeOK, store
  <1>5. CASE Clear(r)
    <2>1. [jar EXCEPT ![requests[r].browser].access = NoJwt] \in [Browser -> Cookies]
      BY <1>5, RequestFields DEF Clear, TypeOK, Cookies
    <2>2. QED
      BY <1>5, <2>1, RespondType DEF Clear, TypeOK, store
  <1>6. QED
    BY <1>1, <1>2, <1>3, <1>4, <1>5 DEF Handler

\* Every step keeps the types.
LEMMA TypeStep ==
    ASSUME TypeOK, [Next]_vars
    PROVE  TypeOK'
  <1>1. ASSUME NEW r \in Req, Call(r) \/ Handler(r)
        PROVE  TypeOK'
    BY <1>1, CallType, HandlerType
  <1>2. ASSUME NEW r \in Req, Fail(r)
        PROVE  TypeOK'
    BY <1>2, RespondType DEF Fail, TypeOK, store
  <1>3. CASE LoseRedis
    BY <1>3 DEF LoseRedis, TypeOK
  <1>4. CASE LoseMemory
    BY <1>4 DEF LoseMemory, TypeOK
  <1>5. CASE RemoveUser
    BY <1>5 DEF RemoveUser, TypeOK, store
  <1>6. CASE Tick
    BY <1>6 DEF Tick, TypeOK, store
  <1>7. CASE UNCHANGED vars
    BY <1>7 DEF vars, store, TypeOK
  <1>8. QED
    BY <1>1, <1>2, <1>3, <1>4, <1>5, <1>6, <1>7 DEF Next

\* The initial state is well typed.
LEMMA InitType == Init => TypeOK
  BY DEF Init, TypeOK, Idle, Request, Cookies, NoCookies

\* What is stored, carried by handlers and kept in cookies is well typed.
THEOREM TypeCorrect == Spec => []TypeOK
  BY InitType, TypeStep, PTL DEF Spec

(* --------------- One process: the stores and the last set --------------- *)

\* A step of one handler leaves the others, and its own slot gets the record.
LEMMA ContinueSlots ==
    ASSUME TypeOK, NEW r \in Req, NEW rec, Continue(r, rec)
    PROVE  /\ requests'[r] = rec
           /\ \A s \in Req \ {r} : requests'[s] = requests[s]
  BY DEF TypeOK, Continue

\* What a handler that writes leaves its own slot.
LEMMA PutThenSlots ==
    ASSUME TypeOK, NEW r \in Req, NEW p, NEW u, NEW value, NEW rec,
           PutThen(r, p, u, value, rec)
    PROVE  /\ requests'[r] \in {rec, Idle}
           /\ \A s \in Req \ {r} : requests'[s] = requests[s]
  <1>1. Continue(r, rec) \/ Continue(r, Idle)
    BY DEF PutThen, Respond
  <1>2. QED
    BY <1>1, ContinueSlots

\* A set or a delete is about one key: where the key is not written, or with what.
LEMMA PutValues ==
    ASSUME TypeOK, NEW p \in Process, NEW u \in User, NEW value, NEW r, NEW rec,
           PutThen(r, p, u, value, rec)
    PROVE  /\ last'[u] = value /\ memory'[p][u] = value
           /\ \/ redis'[u] = value /\ reached'[u] = value
              \/ redis'[u] = redis[u] /\ reached'[u] = reached[u]
           /\ \A v \in User \ {u} : /\ redis'[v] = redis[v] /\ last'[v] = last[v]
                                    /\ reached'[v] = reached[v]
                                    /\ memory'[p][v] = memory[p][v]
  <1>1. PICK taken \in BOOLEAN : Put(p, u, value, taken)
    BY DEF PutThen
  <1>2. CASE taken
    BY <1>1, <1>2 DEF Put, TypeOK
  <1>3. CASE ~taken
    BY <1>1, <1>3 DEF Put, TypeOK
  <1>4. QED
    BY <1>2, <1>3

\* With one process, a set or a delete leaves each store what it took.
LEMMA PutAgreed ==
    ASSUME TypeOK, Agreed, OneProcess,
           NEW p \in Process, NEW u \in User, NEW value, NEW r, NEW rec,
           PutThen(r, p, u, value, rec)
    PROVE  Agreed'
  <1>1. \A q \in Process : q = p
    BY DEF OneProcess
  <1>2. QED
    BY <1>1, PutValues DEF Agreed

\* Every step keeps the stores to what the last set or delete left.
LEMMA AgreedStep ==
    ASSUME TypeOK, Agreed, OneProcess, [Next]_vars
    PROVE  Agreed'
  <1>1. ASSUME UNCHANGED store
        PROVE  Agreed'
    BY <1>1 DEF store, Agreed
  <1>2. ASSUME NEW r \in Req, Logout(r)
        PROVE  Agreed'
    <2>1. PICK b \in Browser, p \in Process :
             /\ jar[b].access # NoJwt
             /\ PutThen(r, p, jar[b].access.user, NoJwt, [pc |-> "clear", browser |-> b])
      BY <1>2 DEF Logout
    <2>2. jar[b].access.user \in User
      BY <2>1, JwtIsToken DEF TypeOK, Cookies
    <2>3. QED
      BY <2>1, <2>2, PutAgreed
  <1>3. ASSUME NEW r \in Req, Store(r)
        PROVE  Agreed'
    <2>1. /\ requests[r].process \in Process
          /\ requests[r].token.user \in User
          /\ PutThen(r, requests[r].process, requests[r].token.user, requests[r].token,
                     [pc |-> "answer", token |-> requests[r].token,
                      browser |-> requests[r].browser])
      BY <1>3, RequestFields, JwtIsToken DEF Store
    <2>2. QED
      BY <2>1, PutAgreed
  <1>4. ASSUME NEW r \in Req,
               \/ Login(r) \/ Refresh(r) \/ Sign(r) \/ Load(r)
               \/ Answer(r) \/ Clear(r) \/ Fail(r)
        PROVE  Agreed'
    BY <1>1, <1>4 DEF Login, Refresh, Sign, Load, Answer, Clear, Fail
  <1>5. CASE LoseRedis
    BY <1>5 DEF LoseRedis, Agreed, TypeOK
  <1>6. CASE LoseMemory
    <2>1. PICK p \in Process, u \in User :
             memory' = [memory EXCEPT ![p][u] = NoJwt]
      BY <1>6 DEF LoseMemory
    <2>2. \A q \in Process, v \in User : memory'[q][v] \in {memory[q][v], NoJwt}
      BY <2>1 DEF TypeOK
    <2>3. QED
      BY <1>6, <2>2 DEF LoseMemory, Agreed
  <1>7. CASE RemoveUser \/ Tick \/ UNCHANGED vars
    BY <1>1, <1>7 DEF RemoveUser, Tick, vars, store
  <1>8. QED
    BY <1>2, <1>3, <1>4, <1>5, <1>6, <1>7 DEF Next, Call, Handler

\* With a single process, its memory holds what the last set or delete of a key
\* left and Redis what the last that it took left, or they have lost it: the
\* invariant the two theorems below rest on.
THEOREM StoresAgree ==
    ASSUME OneProcess
    PROVE  Spec => [](TypeOK /\ Agreed)
  <1>1. Init => TypeOK /\ Agreed
    BY InitType DEF Init, Agreed
  <1>2. TypeOK /\ Agreed /\ [Next]_vars => (TypeOK /\ Agreed)'
    BY TypeStep, AgreedStep
  <1>3. QED
    BY <1>1, <1>2, PTL DEF Spec

\* Under the invariant, the token a refresh is let in with is the last one set, or
\* the last that Redis took.
LEMMA RefreshedIsLast ==
    ASSUME TypeOK, Agreed, NEW r \in Req, Refresh(r)
    PROVE  /\ At(r, "load")'
           /\ requests'[r].raw \in Jwt
           /\ requests'[r].raw \in {last[requests'[r].raw.user],
                                   reached[requests'[r].raw.user]}
           /\ requests'[r].raw # NoJwt
  <1>1. PICK b \in Browser, p \in Process :
           /\ jar[b].refresh # NoJwt
           /\ \E cached \in Get(p, jar[b].refresh.user) : Accepts(cached, jar[b].refresh)
           /\ Continue(r, [pc |-> "load", raw |-> jar[b].refresh,
                           browser |-> b, process |-> p])
    BY DEF Refresh
  <1>2. jar[b].refresh \in Jwt
    BY <1>1 DEF TypeOK, Cookies
  <1>3. jar[b].refresh.user \in User
    BY <1>2, JwtIsToken
  <1>4. jar[b].refresh \in {last[jar[b].refresh.user], reached[jar[b].refresh.user]}
    BY <1>1, <1>3 DEF Accepts, Get, Agreed
  <1>5. requests'[r] = [pc |-> "load", raw |-> jar[b].refresh,
                        browser |-> b, process |-> p]
    BY <1>1, ContinueSlots
  <1>6. QED
    BY <1>1, <1>2, <1>4, <1>5 DEF At

\* A step that brings a slot from idle to "load" is a refresh in that slot.
LEMMA OnlyRefreshLoads ==
    ASSUME TypeOK, [Next]_vars, NEW s \in Req, At(s, "idle"), At(s, "load")'
    PROVE  Refresh(s)
  <1>1. ASSUME NEW r \in Req, Login(r) \/ Logout(r) \/ Handler(r) \/ Fail(r)
        PROVE  FALSE
    <2>1. \E rec : Continue(r, rec) /\ rec.pc # "load"
      <3>1. CASE Login(r)
        BY <3>1 DEF Login
      <3>2. CASE Logout(r)
        BY <3>2 DEF Logout, PutThen, Respond, Idle
      <3>3. CASE Fail(r) \/ Answer(r) \/ Clear(r)
        BY <3>3 DEF Fail, Answer, Clear, Respond, Idle
      <3>4. CASE Sign(r)
        BY <3>4 DEF Sign, Signed
      <3>5. CASE Load(r)
        BY <3>5 DEF Load, Signed, Respond, Idle
      <3>6. CASE Store(r)
        BY <3>6 DEF Store, PutThen, Respond, Idle
      <3>7. QED
        BY <1>1, <3>1, <3>2, <3>3, <3>4, <3>5, <3>6 DEF Handler
    <2>2. QED
      BY <2>1, ContinueSlots DEF At
  <1>2. ASSUME NEW r \in Req, Refresh(r)
        PROVE  r = s
    <2>1. PICK rec : Continue(r, rec)
      BY <1>2 DEF Refresh
    <2>2. QED
      BY <2>1, ContinueSlots DEF At
  <1>3. ASSUME UNCHANGED requests
        PROVE  FALSE
    BY <1>3 DEF At
  <1>4. QED
    BY <1>1, <1>2, <1>3 DEF Next, Call, LoseRedis, LoseMemory, RemoveUser, Tick, vars

\* With one process, a refresh is let in only with the token that the last set
\* or delete of the key left, or the last of them that Redis took: of the rotated
\* and logged-out tokens none but the one that a failing Redis kept.
THEOREM RotationHolds ==
    ASSUME OneProcess
    PROVE  Spec => SupersededIsRefused
  <1>1. ASSUME TypeOK, Agreed, [Next]_vars,
               NEW r \in Req, At(r, "idle"), At(r, "load")'
        PROVE  requests'[r].raw \in {last[requests'[r].raw.user],
                                   reached[requests'[r].raw.user]}
    BY <1>1, OnlyRefreshLoads, RefreshedIsLast
  <1>2. TypeOK /\ Agreed /\ [Next]_vars =>
           [\A r \in Req : At(r, "idle") /\ At(r, "load")' =>
               LET raw == requests'[r].raw
               IN raw \in {last[raw.user], reached[raw.user]}]_vars
    BY <1>1
  <1>3. QED
    BY <1>2, StoresAgree, PTL DEF Spec, SupersededIsRefused

(* ------------------- Logout, and the removal of a user ------------------- *)

\* What a handler's slot holds after a step that signs for u.
LEMMA SignedSlot ==
    ASSUME TypeOK, NEW r \in Req, NEW u \in User, Signed(r, u)
    PROVE  /\ requests'[r].pc = "store"
           /\ requests'[r].token.user = u
           /\ \A s \in Req \ {r} : requests'[s] = requests[s]
  BY ContinueSlots DEF Signed, SignFor

\* With the row of u read or to be read by no handler that will set its key, a
\* step of a handler that is no login leaves it so, and its key deleted.
LEMMA LogoutKept ==
    ASSUME TypeOK, Agreed, NEW u \in User, LoggedOut(u), NEW r \in Req,
           Refresh(r) \/ Logout(r) \/ Handler(r) \/ Fail(r)
    PROVE  LoggedOut(u)'
  <1>1. ~GoingToSet(r, u) /\ last[u] = NoJwt /\ reached[u] = NoJwt
    BY DEF LoggedOut
  <1>2. \A s \in Req \ {r} : requests'[s] = requests[s]
    <2>1. PICK rec : Continue(r, rec)
      BY DEF Refresh, Logout, Handler, Fail, Sign, Load, Store, Answer, Clear,
             Signed, Respond, PutThen
    <2>2. QED
      BY <2>1, ContinueSlots
  <1>3. ~GoingToSet(r, u)' /\ last'[u] = NoJwt /\ reached'[u] = NoJwt
    <2>1. CASE Refresh(r)
      <3>1. /\ requests'[r].pc = "load"
            /\ requests'[r].raw.user # u
        BY <1>1, <2>1, RefreshedIsLast DEF At
      <3>2. QED
        BY <1>1, <2>1, <3>1 DEF GoingToSet, At, Refresh, store
    <2>2. CASE Logout(r)
      <3>1. PICK b \in Browser, p \in Process :
               /\ jar[b].access # NoJwt
               /\ PutThen(r, p, jar[b].access.user, NoJwt,
                          [pc |-> "clear", browser |-> b])
        BY <2>2 DEF Logout
      <3>2. jar[b].access.user \in User
        BY <3>1, JwtIsToken DEF TypeOK, Cookies
      <3>3. requests'[r].pc \in {"clear", "idle"}
        BY <3>1, PutThenSlots DEF Idle
      <3>4. last'[u] = NoJwt /\ reached'[u] = NoJwt
        BY <1>1, <3>1, <3>2, PutValues
      <3>5. QED
        BY <3>3, <3>4 DEF GoingToSet, At
    <2>3. CASE Sign(r)
      <3>1. requests[r].user \in User /\ requests[r].user # u
        BY <1>1, <2>3, RequestFields DEF Sign, GoingToSet
      <3>2. QED
        BY <1>1, <2>3, <3>1, SignedSlot DEF Sign, GoingToSet, At, store
    <2>4. CASE Load(r)
      <3>1. requests[r].raw.user \in User /\ requests[r].raw.user # u
        BY <1>1, <2>4, RequestFields, JwtIsToken DEF Load, GoingToSet
      <3>2. CASE Signed(r, requests[r].raw.user)
        BY <1>1, <2>4, <3>1, <3>2, SignedSlot DEF Load, GoingToSet, At, store
      <3>3. CASE Respond(r)
        BY <1>1, <2>4, <3>3, ContinueSlots DEF Load, Respond, Idle, GoingToSet, At, store
      <3>4. QED
        BY <2>4, <3>2, <3>3 DEF Load
    <2>5. CASE Store(r)
      <3>1. /\ requests[r].token.user # u /\ requests[r].token.user \in User
            /\ requests[r].process \in Process
        BY <1>1, <2>5, RequestFields, JwtIsToken DEF Store, GoingToSet
      <3>2. requests'[r].pc \in {"answer", "idle"}
        BY <2>5, PutThenSlots DEF Store, Idle
      <3>3. last'[u] = last[u] /\ reached'[u] = reached[u]
        BY <2>5, <3>1, PutValues DEF Store
      <3>4. QED
        BY <1>1, <3>2, <3>3 DEF GoingToSet, At
    <2>6. CASE Answer(r) \/ Clear(r) \/ Fail(r)
      <3>1. Respond(r) /\ UNCHANGED <<last, reached>>
        BY <2>6 DEF Answer, Clear, Fail, store
      <3>2. QED
        BY <1>1, <3>1, ContinueSlots DEF Respond, Idle, GoingToSet, At
    <2>7. QED
      BY <2>1, <2>2, <2>3, <2>4, <2>5, <2>6 DEF Handler
  <1>4. QED
    BY <1>1, <1>2, <1>3 DEF LoggedOut, GoingToSet, At

\* With one process, once a user is logged out, Redis has taken the deletion, and
\* the refreshes that were let in before are through, only a login brings the
\* session back.
THEOREM LogoutHolds ==
    ASSUME OneProcess
    PROVE  Spec => OnlyLoginEndsLogout
  <1>1. ASSUME TypeOK, Agreed, [Next]_vars,
               NEW u \in User, LoggedOut(u), ~LoggedOut(u)'
        PROVE  \E r \in Req : At(r, "idle") /\ At(r, "sign")' /\ requests'[r].user = u
    <2>1. ASSUME UNCHANGED <<requests, last, reached>>
          PROVE  FALSE
      BY <1>1, <2>1 DEF LoggedOut, GoingToSet, At
    <2>2. ~(LoseRedis \/ LoseMemory \/ RemoveUser \/ Tick \/ UNCHANGED vars)
      BY <2>1 DEF LoseRedis, LoseMemory, RemoveUser, Tick, vars, store
    <2>3. PICK r \in Req : Login(r)
      BY <1>1, <2>2, LogoutKept DEF Next, Call
    <2>4. PICK v \in users, b \in Browser, p \in Process :
             Continue(r, [pc |-> "sign", user |-> v, browser |-> b, process |-> p])
      BY <2>3 DEF Login
    <2>5. /\ requests'[r] = [pc |-> "sign", user |-> v, browser |-> b, process |-> p]
          /\ \A s \in Req \ {r} : requests'[s] = requests[s]
      BY <1>1, <2>4, ContinueSlots
    <2>6. UNCHANGED <<last, reached>>
      BY <2>3 DEF Login, store
    <2>7. v = u
      BY <1>1, <2>5, <2>6 DEF LoggedOut, GoingToSet, At
    <2>8. QED
      BY <2>3, <2>5, <2>7 DEF At, Login
  <1>2. TypeOK /\ Agreed /\ [Next]_vars =>
           [\A u \in User : LoggedOut(u) /\ ~LoggedOut(u)' =>
               \E r \in Req : At(r, "idle") /\ At(r, "sign")' /\ requests'[r].user = u]_vars
    BY <1>1
  <1>3. QED
    BY <1>2, StoresAgree, PTL DEF Spec, OnlyLoginEndsLogout

\* A step of one handler gives it no tokens of a user whose row is gone.
LEMMA GoneKept ==
    ASSUME TypeOK, NEW u \in User, u \notin users,
           \A s \in Req : ~HasTokensFor(s, u),
           NEW r \in Req, Call(r) \/ Handler(r) \/ Fail(r)
    PROVE  \A s \in Req : ~HasTokensFor(s, u)'
  <1>1. PICK rec : Continue(r, rec)
    BY DEF Call, Login, Refresh, Logout, Handler, Fail, Sign, Load, Store, Answer,
           Clear, Signed, Respond, PutThen
  <1>2. requests'[r] = rec /\ \A s \in Req \ {r} : requests'[s] = requests[s]
    BY <1>1, ContinueSlots
  <1>3. ~HasTokensFor(r, u)'
    <2>1. CASE Login(r)
      <3>1. PICK v \in users, b \in Browser, p \in Process :
               Continue(r, [pc |-> "sign", user |-> v, browser |-> b, process |-> p])
        BY <2>1 DEF Login
      <3>2. QED
        BY <3>1, ContinueSlots DEF HasTokensFor, At
    <2>2. CASE Refresh(r)
      <3>1. PICK b \in Browser, p \in Process :
               Continue(r, [pc |-> "load", raw |-> jar[b].refresh,
                            browser |-> b, process |-> p])
        BY <2>2 DEF Refresh
      <3>2. QED
        BY <3>1, ContinueSlots DEF HasTokensFor, At
    <2>3. CASE Logout(r)
      <3>1. PICK b \in Browser, p \in Process :
               PutThen(r, p, jar[b].access.user, NoJwt, [pc |-> "clear", browser |-> b])
        BY <2>3 DEF Logout
      <3>2. QED
        BY <3>1, PutThenSlots DEF HasTokensFor, At, Idle
    <2>4. CASE Sign(r)
      <3>1. requests[r].user \in User /\ requests[r].user # u
        BY <2>4, RequestFields DEF Sign, HasTokensFor
      <3>2. QED
        BY <2>4, <3>1, SignedSlot DEF Sign, HasTokensFor, At
    <2>5. CASE Load(r)
      <3>1. requests[r].raw.user \in User
        BY <2>5, RequestFields, JwtIsToken DEF Load
      <3>2. CASE requests[r].raw.user = u
        <4>1. Respond(r)
          BY <2>5, <3>2 DEF Load, Known
        <4>2. QED
          BY <4>1, ContinueSlots DEF Respond, Idle, HasTokensFor, At
      <3>3. CASE requests[r].raw.user # u /\ Signed(r, requests[r].raw.user)
        BY <3>1, <3>3, SignedSlot DEF HasTokensFor, At
      <3>4. CASE Respond(r)
        BY <3>4, ContinueSlots DEF Respond, Idle, HasTokensFor, At
      <3>5. QED
        BY <2>5, <3>2, <3>3, <3>4 DEF Load
    <2>6. CASE Store(r)
      <3>1. requests[r].token.user # u
        BY <2>6 DEF Store, HasTokensFor, At
      <3>2. requests'[r] \in {Idle, [pc |-> "answer", token |-> requests[r].token,
                                   browser |-> requests[r].browser]}
        BY <2>6, PutThenSlots DEF Store
      <3>3. QED
        BY <3>1, <3>2 DEF HasTokensFor, At, Idle
    <2>7. CASE Answer(r) \/ Clear(r) \/ Fail(r)
      <3>1. Respond(r)
        BY <2>7 DEF Answer, Clear, Fail
      <3>2. QED
        BY <3>1, ContinueSlots DEF Respond, Idle, HasTokensFor, At
    <2>8. QED
      BY <2>1, <2>2, <2>3, <2>4, <2>5, <2>6, <2>7 DEF Call, Handler
  <1>4. QED
    BY <1>2, <1>3 DEF HasTokensFor, At

\* Once the row of a user is gone and the handlers that read it before are
\* through, no handler holds or signs tokens for it again, in any number of
\* processes: Load looks the user up between the check and the signing.
THEOREM RemovedStaysOut == Spec => GoneGetsNothing
  <1>1. ASSUME TypeOK, [Next]_vars,
               NEW u \in User, u \notin users, \A s \in Req : ~HasTokensFor(s, u)
        PROVE  \A s \in Req : ~HasTokensFor(s, u)'
    <2>1. ASSUME UNCHANGED requests
          PROVE  \A s \in Req : ~HasTokensFor(s, u)'
      BY <1>1, <2>1 DEF HasTokensFor, At
    <2>2. QED
      BY <1>1, <2>1, GoneKept
         DEF Next, LoseRedis, LoseMemory, RemoveUser, Tick, vars
  <1>2. TypeOK /\ [Next]_vars =>
           [\A u \in User :
              /\ u \notin users
              /\ \A r \in Req : ~HasTokensFor(r, u)
              => \A r \in Req : ~HasTokensFor(r, u)']_vars
    BY <1>1
  <1>3. QED
    BY <1>2, TypeCorrect, PTL DEF Spec, GoneGetsNothing

=============================================================================
