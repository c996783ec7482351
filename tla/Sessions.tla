------------------------------ MODULE Sessions ------------------------------
(***************************************************************************)
(* The session of a user: login, refresh and logout of AuthService, the     *)
(* two cookies, and the key refresh:<id> of the cache, which lives in Redis *)
(* and, behind it, in a store of each process' memory.  A handler is cut at *)
(* its awaits, and runs in the process the request was sent to.            *)
(***************************************************************************)
EXTENDS Naturals

CONSTANTS
    User, Browser, Process,
    Req,                    \* slots for the HTTP requests in flight
    AccessTtl, RefreshTtl,  \* seconds a token of each kind is accepted
    MaxNow                  \* seconds in a behaviour: a bound

ASSUME TtlAssumption == {AccessTtl, RefreshTtl, MaxNow} \subseteq Nat

VARIABLES
    users,      \* ids whose row exists
    redis,      \* of each user: the hash Redis has
    memory,     \* of each process and user: the hash its memory has
    jar,        \* of each browser: its cookies
    now,        \* seconds
    requests,
    last,       \* history: what the last set or delete left of each key
    reached     \* history: what the last of them that Redis took left

store == <<redis, memory, last, reached>>
vars  == <<users, store, jar, now, requests>>

-----------------------------------------------------------------------------
\* A JWT: its payload is the user, and the second in which it was signed.  Two
\* that agree in both are one and the same string, and have one hash.
Jwt     == [user: User, at: Nat]
NoJwt   == [at |-> "none"]
Cookies == [access: Jwt \cup {NoJwt}, refresh: Jwt \cup {NoJwt}]
NoCookies == [access |-> NoJwt, refresh |-> NoJwt]

Request ==
    [pc: {"idle"}]
        \cup [pc: {"sign"}, user: User, browser: Browser, process: Process]
        \cup [pc: {"load"}, raw: Jwt, browser: Browser, process: Process]
        \cup [pc: {"store"}, token: Jwt, browser: Browser, process: Process]
        \cup [pc: {"answer"}, token: Jwt, browser: Browser]
        \cup [pc: {"clear"}, browser: Browser]

Idle             == [pc |-> "idle"]
At(r, pc)        == requests[r].pc = pc
Continue(r, rec) == requests' = [requests EXCEPT ![r] = rec]
Respond(r)       == Continue(r, Idle)

Init ==
    /\ users = User
    /\ redis  = [u \in User |-> NoJwt]
    /\ memory = [p \in Process |-> [u \in User |-> NoJwt]]
    /\ last    = [u \in User |-> NoJwt]
    /\ reached = [u \in User |-> NoJwt]
    /\ jar = [b \in Browser |-> NoCookies]
    /\ now = 0
    /\ requests = [r \in Req |-> Idle]

-----------------------------------------------------------------------------
(* CacheService over the two stores.                                       *)

\* get asks the stores in their order; the first that has the key answers.  When
\* Redis cannot be asked the memory is.
Get(p, u) == {IF redis[u] # NoJwt THEN redis[u] ELSE memory[p][u], memory[p][u]}

\* set and del go to both at once, to Redis and to the process' own memory; one
\* half may fail, and the other is done all the same.  The commands of a process
\* reach Redis in the order in which its memory is written.
Put(p, u, value, taken) ==
    /\ memory' = [memory EXCEPT ![p][u] = value]
    /\ last'   = [last EXCEPT ![u] = value]
    /\ IF taken
       THEN /\ redis'   = [redis EXCEPT ![u] = value]
            /\ reached' = [reached EXCEPT ![u] = value]
       ELSE UNCHANGED <<redis, reached>>

\* The error of the half that failed ends the handler, unless the client of Redis
\* only reports it.
PutThen(r, p, u, value, rec) ==
    \E taken \in BOOLEAN :
        /\ Put(p, u, value, taken)
        /\ \/ Continue(r, rec)
           \/ ~taken /\ Respond(r)

\* A key ends its time to live, or is evicted, or a restart empties a store.
LoseRedis ==
    /\ \E u \in User : redis' = [redis EXCEPT ![u] = NoJwt]
    /\ UNCHANGED <<users, memory, last, reached, jar, now, requests>>
LoseMemory ==
    /\ \E p \in Process, u \in User : memory' = [memory EXCEPT ![p][u] = NoJwt]
    /\ UNCHANGED <<users, redis, last, reached, jar, now, requests>>

-----------------------------------------------------------------------------
(* issueTokens: both tokens are signed, the hash of one is cached, and the  *)
(* answer sets both cookies, each with the path it was given.              *)

\* Mutant of SignFor: sign({}) for sign({ sub: user.id }).
SignNobody(u) == [at |-> now]
SignFor(u)    == [user |-> u, at |-> now]

Signed(r, u) ==
    Continue(r, [pc |-> "store", token |-> SignFor(u),
                 browser |-> requests[r].browser, process |-> requests[r].process])

Store(r) ==
    /\ At(r, "store")
    /\ LET req == requests[r]
       IN PutThen(r, req.process, req.token.user, req.token,
                  [pc |-> "answer", token |-> req.token, browser |-> req.browser])
    /\ UNCHANGED <<users, jar, now>>

Answer(r) ==
    /\ At(r, "answer")
    /\ LET req == requests[r]
       IN jar' = [jar EXCEPT ![req.browser] =
                     [access |-> req.token, refresh |-> req.token]]
    /\ Respond(r)
    /\ UNCHANGED <<users, store, now>>

-----------------------------------------------------------------------------
\* login: the row is read; bcrypt takes its time before the tokens are signed.
Login(r) ==
    /\ At(r, "idle")
    /\ \E u \in users, b \in Browser, p \in Process :
          Continue(r, [pc |-> "sign", user |-> u, browser |-> b, process |-> p])
    /\ UNCHANGED <<users, store, jar, now>>

Sign(r) ==
    /\ At(r, "sign")
    /\ Signed(r, requests[r].user)
    /\ UNCHANGED <<users, store, jar, now>>

\* Mutants of Accepts: any cached hash will do; a key that is missing will do.
AcceptsAny(cached, raw)     == cached # NoJwt
AcceptsMissing(cached, raw) == cached = NoJwt \/ cached = raw
Accepts(cached, raw)        == cached # NoJwt /\ cached = raw

\* refresh: the signature and the expiry of the cookie, then the cached hash.
\* The guards let it pass whatever the access token is (@Public).
Refresh(r) ==
    /\ At(r, "idle")
    /\ \E b \in Browser, p \in Process :
          LET raw == jar[b].refresh
          IN /\ raw # NoJwt
             /\ now < raw.at + RefreshTtl
             /\ \E cached \in Get(p, raw.user) : Accepts(cached, raw)
             /\ Continue(r, [pc |-> "load", raw |-> raw, browser |-> b, process |-> p])
    /\ UNCHANGED <<users, store, jar, now>>

\* Mutant of Known: nobody looks whether the user was found.
KnownOrNot(u) == TRUE
Known(u)      == u \in users

Load(r) ==
    /\ At(r, "load")
    /\ LET u == requests[r].raw.user
       IN IF Known(u) THEN Signed(r, u) ELSE Respond(r)
    /\ UNCHANGED <<users, store, jar, now>>

\* logout, for who has a valid access token: deletes the key.
Logout(r) ==
    /\ At(r, "idle")
    /\ \E b \in Browser, p \in Process :
          LET token == jar[b].access
          IN /\ token # NoJwt
             /\ now < token.at + AccessTtl
             /\ PutThen(r, p, token.user, NoJwt, [pc |-> "clear", browser |-> b])
    /\ UNCHANGED <<users, jar, now>>

\* clearCookies names /auth/refresh, where no cookie is: the refresh cookie was
\* set for /api/v1/auth/refresh, and stays.
Clear(r) ==
    /\ At(r, "clear")
    /\ jar' = [jar EXCEPT ![requests[r].browser].access = NoJwt]
    /\ Respond(r)
    /\ UNCHANGED <<users, store, now>>

-----------------------------------------------------------------------------
\* A handler dies, a query fails, or the answer never arrives.
Fail(r) ==
    /\ ~At(r, "idle")
    /\ Respond(r)
    /\ UNCHANGED <<users, store, jar, now>>

\* removeMember deletes the row, and leaves the key.
RemoveUser ==
    /\ \E u \in users : users' = users \ {u}
    /\ UNCHANGED <<store, jar, now, requests>>

Tick ==
    /\ now < MaxNow
    /\ now' = now + 1
    /\ UNCHANGED <<users, store, jar, requests>>

Call(r)    == Login(r) \/ Refresh(r) \/ Logout(r)
Handler(r) == Sign(r) \/ Load(r) \/ Store(r) \/ Answer(r) \/ Clear(r)

Next ==
    \/ \E r \in Req : Call(r) \/ Handler(r) \/ Fail(r)
    \/ LoseRedis \/ LoseMemory \/ RemoveUser \/ Tick

Spec == Init /\ [][Next]_vars

-----------------------------------------------------------------------------
\* What is stored, carried and kept in cookies is well typed.
TypeOK ==
    /\ users \subseteq User
    /\ redis \in [User -> Jwt \cup {NoJwt}]
    /\ memory \in [Process -> [User -> Jwt \cup {NoJwt}]]
    /\ {last, reached} \subseteq [User -> Jwt \cup {NoJwt}]
    /\ jar \in [Browser -> Cookies]
    /\ now \in Nat
    /\ requests \in [Req -> Request]

\* "Compare hash against Redis -- catches rotated or logged-out tokens": the
\* token a refresh is let in with is the one that the last set or delete of the
\* key left, or the last that Redis took; whatever the two stores lost, and in
\* whatever order logins, refreshes and logouts that overlap came to set and
\* delete.  (A rotation or logout that Redis did not take leaves the old hash
\* there, and get asks Redis first: that one token is not refused.)
SupersededIsRefused ==
    [][\A r \in Req : At(r, "idle") /\ At(r, "load")' =>
          LET raw == requests'[r].raw
          IN raw \in {last[raw.user], reached[raw.user]}]_vars

\* A handler that is going to set the key of u.
GoingToSet(r, u) ==
    \/ At(r, "sign")  /\ requests[r].user = u
    \/ At(r, "load")  /\ requests[r].raw.user = u
    \/ At(r, "store") /\ requests[r].token.user = u
LoggedOut(u) == /\ last[u] = NoJwt /\ reached[u] = NoJwt
                /\ \A r \in Req : ~GoingToSet(r, u)

\* Once a user is logged out, Redis has taken that, and the refreshes that were let
\* in before are through, nothing but a login ends that: not the refresh cookies, which
\* browsers keep, as logout clears another path.
OnlyLoginEndsLogout ==
    [][\A u \in User : LoggedOut(u) /\ ~LoggedOut(u)' =>
          \E r \in Req : At(r, "idle") /\ At(r, "sign")' /\ requests'[r].user = u]_vars

\* A handler that holds, or will sign, tokens of u without asking again.
HasTokensFor(r, u) ==
    \/ At(r, "sign") /\ requests[r].user = u
    \/ requests[r].pc \in {"store", "answer"} /\ requests[r].token.user = u

\* Who was removed gets no tokens: removeMember leaves the cached hash and the
\* cookies, but once the handlers that read the row before are through, none
\* holds tokens of that user again.
GoneGetsNothing ==
    [][\A u \in User :
          /\ u \notin users
          /\ \A r \in Req : ~HasTokensFor(r, u)
          => \A r \in Req : ~HasTokensFor(r, u)']_vars

-----------------------------------------------------------------------------
\* The inductive invariant for one process: its memory holds what the last set or
\* delete left, Redis what the last that it took left, or nothing.
OneProcess == \A p, q \in Process : p = q
Agreed ==
    \A u \in User : /\ redis[u] \in {reached[u], NoJwt}
                    /\ \A p \in Process : memory[p][u] \in {last[u], NoJwt}
=============================================================================
