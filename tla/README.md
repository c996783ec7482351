# TLA+ models of the Nexus backend

The backend is a NestJS service over Postgres, Redis, S3 and a mail provider. A
second service, agent-core (FastAPI, not in this repository), writes the chat
messages and indexes documents. This directory models the parts of it whose
correctness depends on what overlaps what. TLC checks them on small instances,
and TLAPS proves the central properties for every value of the constants.

Paths below are relative to `src/src/`.

## 1. Inventory

Node runs one handler at a time but switches at every `await`. So a handler is
a sequence of steps, and anything may happen between two of them: other
handlers in this process or another one, a crash, the expiry of a key. What was
read before an `await` is used after it. Transactions run under Postgres' default
isolation level, READ COMMITTED.

| Component | State | Operations | Talks to |
|---|---|---|---|
| accounts (`auth/`) | `users`, `organizations`, `refresh:<id>` keys, two cookies in each browser | register, login, refresh, logout | cache |
| invitations | `org_invitations` | send (and resend), validate, accept | accounts (issueTokens), mail, users, access rows |
| team | `users.role`, `user_agent_access` | listMembers, changeRole, removeMember, getAgentAccess, updateAgentAccess | widget tokens, users |
| agents | `agents` | create, update, remove, find, canAccessAgent, validateDomain | cascades to all that refers to an agent |
| widget authentication (`widget/auth/`, `common/guards/widget-auth.guard.ts`) | `widget_otp_codes`, `widget_auth_tokens` | requestOtp, verifyOtp, the guard | users, access rows, cache, mail |
| widget sessions (`widget/session/`) | `widget_session:<agent>:<session>` keys | createSession | agents; the cache key it shares with verifyOtp |
| message numbering (`database/migrations/`) | trigger function, `messages.sequence_number` | insert trigger, migrations up and down | agent-core's transactions |
| conversations | `conversations`, `messages` | findOrCreate, getMessages, getSessionMessages, incrementStats, end | the chat controller |
| documents | `documents`, S3 objects | upload URL, confirm, update, updateStatus, remove | S3, agent-core |
| tools | `tools`, `tool_calls` | create, update, remove, findForExecution, encryption of headers | agents; agent-core records calls |
| cache (`redis/`) | Redis, and a memory store per process behind it | get, set, delete | accounts, widget |
| guards and roles (`common/`) | none: the claims in the access token | JwtAuthGuard, RolesGuard | every route |
| schema (`database/migrations/`) | unique indexes, foreign keys | | all tables |
| organizations, users services | rows of the same tables | find, create, updatePlan | |
| analytics | `analytics_events` | log, summaries | conversations, agents |
| mail | none | sendInvite, sendOtp | invitations, widget |
| filters, errors, config, `main.ts` | none | | |
| test module | none | | |

What is hard, component by component, and what makes each correct:

* **accounts.** register commits the organization before its owner, and bcrypt
  leaves a window between the check of an address and the insertion. Tokens are
  signed from rows read earlier and live for an hour. Correct: an address has
  one account, an organization with members has exactly one owner, and owner
  claims never get out of date. A refresh token is compared with a hash in
  the cache; logins, refreshes and logouts overlap between the comparison and
  the set, the cache has two tiers that may lose keys, and a write may fail in one
  of them. Correct: who was logged out, or holds a token that was superseded, is
  refused, unless Redis did not take the write that says so.
* **invitations.** A check and an upsert, a mail that may fail after the commit,
  a row closed by its id after it may have been resent, tokens issued inside the
  transaction. Correct: an admin's place is offered by the owner only, and an
  accepted invitation stays closed.
* **team.** A target is checked, then written by its id; TypeORM's `save`
  inserts what it does not find; DELETE and INSERT of access rows overlap with each
  other and with the cascades of removals, and wait for each other's locks.
  Correct: the owner is never touched; a member loses its last access row, and so
  may use every agent, only in the ways that can be listed; no row dangles; whoever
  waits in a circle is ended, so every call comes to its end.
* **widget.** Counts and attempts are read, then acted upon; an attempt is counted
  after the comparison, by a statement that may fail; members and agents are removed
  meanwhile; the cache is shared by two services. Correct: limits are exceeded by no
  more than the requests in flight and the counts that were lost; who is out stays
  out.
* **messages.** A number is read from the table it is inserted into, by
  overlapping transactions, with a trigger that is exchanged under way; clients
  page while messages are committed. Correct: numbers without gap, pages that
  miss nothing, the last page is last.
* **documents.** Entities are saved as they were read; an object store and a table
  change one after the other; a call to another service may fail. Correct: what
  was removed in nobody's hands does not come back, no document is left indexing.
* **agents, tools.** A check of the organization, and a save or a delete some awaits
  later; headers are encrypted, and what is saved mixes old and new ones; foreign
  keys cascade, refuse, or cannot do what they say. Correct: no row refers to one
  that is gone, headers at rest are encrypted once, what was removed stays away. The
  origin of a request is compared with a list of domains in two places, which differ
  in capitals and in local hosts. Correct: they differ in nothing else.
* **conversations, analytics.** A lookup and an insertion against a unique key;
  counters kept by several statements without a transaction; an insertion that
  nobody awaits. Correct: counters that differ by no more than what is under way or
  has failed, calls and events that nothing deletes. (That a session has one
  conversation is the unique index itself.)

The list of hazards with their lines is in `PROJECT.json`.

## 2. Modules

| Module | What it models |
|---|---|
| `Tables` | the shared tables as sets of rows, unique indexes, tokens in clients' hands, the handlers in flight |
| `Accounts`, `Invitations`, `Team` | one action per step of each handler |
| `Membership` | the three against the same tables, crashes of handlers, the properties, the inductive invariant |
| `AgentAccess` | the transactions that write `user_agent_access`, lock by lock; it implements `Membership` |
| `Roster` | abstract: who belongs to which organization in which role |
| `MembershipProofs` | theorems about `Membership` |
| `AgentAccessProofs` | theorems about `AgentAccess` |
| `Sessions` | login, refresh and logout: refresh tokens, cookies, the two tiers of the cache, processes |
| `SessionsProofs` | theorems about `Sessions` |
| `WidgetAuth` | codes, tokens, sessions and the cache, over `Team` |
| `WidgetAuthProofs` | theorems about `WidgetAuth` |
| `MessageSequence` | trigger, transactions, migrations, pages |
| `MessageLog` | abstract: logs that grow at their end, readers that see a beginning |
| `MessageSequenceProofs` | theorems about `MessageSequence` |
| `Documents` | rows, objects and indexing of documents, and the agents they belong to |
| `DocumentsProofs` | theorems about `Documents` |
| `Agents` | the tables around agents, with their foreign keys; create, update, remove of agents |
| `Tools`, `Conversations` | the handlers of tools; of conversations, calls and events; both over `Agents` |
| `Workspace` | the three against the same tables, failures of handlers, the properties |
| `WorkspaceProofs` | theorems about `Workspace` |
| `Origins` | pure: the two comparisons of an origin with `allowed_domains` |
| `OriginsProofs` | where they agree and where they do not |
| `MCMembership`, `MCTeam`, `MCWidget`, `MCMessages`, `MCWorkspace` | instances for TLC |

How they correspond to the code:

* A table is a set of rows, each a record of the columns that matter. A row of
  `users` has id, email, org and role; of the timestamps, only what is asked of
  them is kept (`status` of an invitation, `age` of a code). `passwordHash`,
  names, prompts and the like are left out.
* `requests[r]` is the handler a slot runs: `pc` names the next step, the
  other fields are its local variables. `Register(r)` is the part of `register`
  up to the first `await` that lets others in; `SaveOrg(r)`, `SaveOwner(r)` and
  `IssueTokens(r)` follow. A handler that throws goes back to `Idle` and what it
  has committed stays.
* The caller of a protected route is an element of `jwts`: the claims of an
  access token signed at some time, not a row of `users`. Tokens are never
  taken out of `jwts`: a token that has expired only allows less.
* A transaction that reads nothing it depends on and whose statements wait for
  whoever holds the same keys is one action (`CreateUser`, `RemoveTx`).
  `updateAgentAccess` is cut open: its DELETE sees the rows committed when it
  starts (`DeleteRows`), `save` looks for the keys of the list (`SelectRows`), and
  INSERT and COMMIT are `InsertRows`, which also makes those that saw the same rows
  skip the ones that are gone. `Team` lets transactions end in any order.
* `AgentAccess` takes the same transactions apart, with removeMember and the
  `remove` of an agent beside them, for one owner and its members: a statement takes
  its locks one by one, in any order (`Take`), waits for the transaction that has a
  conflicting one, and Postgres ends somebody who waits in a circle
  (`DeadlockDetected`). A key of the INSERT is locked too, and for the foreign keys the
  rows that it refers to, once the rows are in (`Refer`). Each of its steps is a step
  of `Membership`, or none (`ImplementsMembership`): what `Team` does in one step
  loses nothing that the locks allow.
* `changeRole` ends in TypeORM's `save`, which is a SELECT by primary key
  (`Reload`) and then nothing, an UPDATE (`UpdateRole`) or an INSERT (`InsertUser`).
* Foreign keys and ON DELETE actions are in the actions that meet them:
  `RemoveTx` fails when the member has sent an invitation, `RemoveAgent` takes
  access rows, widget tokens and codes along.
* An invitation's `agents = {}` stands for NULL and for an empty array: the code
  treats both alike. In a request to updateAgentAccess they are kept apart (`ids`
  is `{}` for null, `{as}` for a list), because the DTO means different things by them.
* In the widget the DTOs put addresses in lower case, elsewhere they stay as
  typed. `Visitor` is the set of the addresses a widget can name; a user whose
  address is not in it cannot ask for a code.
* A code submitted to verifyOtp is the newest one or it is not (`right`); `tries`
  counts how often a code was compared, which no column does, as long as the code
  can still be compared (`Usable`; afterwards the number is of no use and dropped).
  `lost` counts those of them that were never counted, because the handler failed
  between the comparison and its UPDATE (`Fail`). A code older than an hour leaves the
  model, though not the table: no query finds it.
* In `Sessions` a JWT is its payload and the second it was signed in: two signed
  for a user in the same second are the same string, as in the code. `redis` and
  `memory` hold what stands for the hash; `Put` is `set` and `del`, which go to Redis
  and to the memory of the process that runs them. The Redis half may fail while the
  other is done; the handler then ends with the error, or goes on when the client of
  Redis only reports it (`PutThen`). `Get` is the set of possible answers: Redis first
  and then the memory, or the memory alone when Redis cannot be asked.
  `jar` is what a browser sends to `/api/v1/auth/refresh`: `Clear` removes the access
  cookie only, because the refresh cookie is cleared for another path than it was
  set for. `last` and `reached` are history: what the last set or delete of a key
  left, and what the last of them that Redis took left.
* In `Agents`, `Tools` and `Conversations` the caller of a handler is its
  organization, and the organization of an agent, which never changes, is the
  constant `Home`. `findOne` of a tool and then of its agent is one step: the second
  query finds the agent that the foreign key names, unless the tool went with it,
  which is the same refusal. `save` of a tool is cut as in `Team` (`Reload`,
  `UpdateRow`, `InsertAgain`); that of an agent is one step, as either of its outcomes
  leaves the row there.
* Headers are a secret and the number of times they were encrypted. Secrets are
  drawn fresh, so that an old one can be told from a new one.
* `Refused` is what the keys of `analytics_events` (no ON DELETE action) and
  `tool_calls` (SET NULL, in a column that is NOT NULL) make of a deletion. The
  cascades of an agent to tools and to conversations are two triggers, of which
  that to tools fires first: an agent with a tool that was called is refused, also
  when the calls would go with its conversations. `Team` and `Documents` have no
  events and no calls; there the deletion of an agent succeeds.
* `calls` is what agent-core records: a tool of the conversation's agent, which
  `findForExecution` looks up by both ids. Of an event the agent is
  kept: `log` leaves its conversation null.
* `findOrCreate`, `incrementStats`, `end`, `log` and `findForExecution` have no caller
  in `src/` yet. They are taken to be called for agents and conversations that were
  looked up before, at any time. A message counts one token; the third statement
  of incrementStats, the time of the last message, is left out.
* In `Origins` a name is the sequence of its labels, the top-level domain first: a
  domain covers a host when it is a prefix of it. A label carries whether it was
  typed with a capital. `HistoryAdmits` is what the history route asks after its
  `WidgetAuthGuard`, which is `Admits` of `WidgetAuth`.
* In `MessageSequence`, `tx[w]` is a transaction of agent-core: its rows, the
  advisory locks it holds, and where the trigger stands in its INSERT. Within
  the trigger each statement takes a new snapshot (`Visible`). `LockKey` is
  `hashtext`: different conversations may share a lock. `Up` and `Down` are the
  migration, which exchanges the function under open transactions.
* In `Documents` a table row is looked up by id (`documents[d]`, or `NoRow`). Callers
  are whoever the service lets in: of the agent's organization, but for the PATCH,
  which compares no organization. A confirmation reads an entity, and its save
  reads again: `Reload` finds the columns that differ, `Update` writes those, and
  `Insert` puts back a row that is gone. What a `findOne` asks of the agent follows
  from the row's foreign key, so it has no step of its own. The description in the
  body of a confirmation is chosen where it is used. `updateDoc` does not look at
  the agent of the route, nor does `PatchDoc`.
* `strays`, `gone`, `reported`, `said`, `lost` and `cut` are history of `Documents`: no
  guard reads them. They tell apart what the properties excuse: an object put
  after its document was removed, a call of agent-core that came to nothing, a
  confirmation that broke off.
* No controller calls `updateStatus`; its comment says that agent-core does. It is
  modelled as agent-core's only write to `documents`. agent-core may do a job in any
  time, fail at it, or lose it.
* The code of agent-core is not here. That it writes messages in transactions,
  several messages and conversations in one, which may roll back at any time, is
  assumed and is the most general behaviour.

## 3. Runs

| Run | Instance | Shows |
|---|---|---|
| `membership` | two organizations, two users, one agent, two requests in flight, from empty tables | `TypeOK`, `OneOwner`, `OwnerClaimsTrue`, `OwnerKept`, `Opened`, `ImplementsRoster` |
| `offers` | an owner and an admin, a third who may join, three addresses, three tokens, two requests; nobody logs out | `AdminOffersByOwner`, `AdminsByOwner`, `AcceptedIsFinal` |
| `access` | a member, two agents, two transactions, from any access rows | all properties of `AgentAccess`: `NoneDangling`, `Replaced`, `ImplementsMembership`, `CallsEnd` |
| `messages` | three messages, two conversations, two transactions, one client, pages of one | all properties of `MessageSequence` |
| `documents` | one document of one agent, two requests, from its creation | all properties of `Documents` |
| `widget` | an owner, a member, an agent that is private, public or inactive, three codes, limits 1 and 2, two requests, one lost count; the member or the agent is removed meanwhile | `WidgetTypeOK`, `RateBounded`, `TriesBounded`, `StaysOut` |
| `sessions` | one user, two browsers, one process, two requests, two seconds | all properties of `Sessions` |
| `workspace` | an agent of one of two organizations, two tools, two secrets, two conversations of one session, two requests, from empty tables | all properties of `Workspace`; `GatesCompare` of `Origins`, as an assumption that TLC evaluates |
| `widening`, `revival`, `reauth`, `rotated` | | what comments say and the code does not keep (section 5) |

Bounds, and why they are enough:

* Two requests in flight: each property relates at most two handlers that
  overlap, as each handler conflicts through one row or one count. For the
  owner properties and the roster the proofs do without the bound. How far
  overlapping requests exceed a limit is stated in terms of the number of
  request slots, and with two the excess is already reached.
* `Org`, `UserId`, `Token`, `Msg` and `MaxCodes` are pools that ids are drawn
  from and never returned to: they bound the length of a behaviour. Two users in
  `membership` are an owner and one who joins, or two owners; the runs that need
  a team start in one that `Spec` reaches (`TeamInit`, `WidgetInit`), and so
  spend the pools on what comes after.
* `offers` stops where somebody logs out (`KeysKept`): nothing that makes an admin
  reads the keys of refresh tokens.
* `OTP_RATE_LIMIT` (3), the three attempts and the page of 50 are constants of the
  modules and smaller in the runs: 1 or 2 codes, 1 or 2 attempts, one message.
  With pages of one, three messages make three pages.
* `sessions` has lifetimes of one and two seconds: an access token that has expired
  beside a refresh token that has not, and tokens of the same second and of
  different ones. Two browsers and two requests are a login, refresh or logout
  against another, of the same browser or not. Users do not meet in any action
  but `RemoveUser`, so one is enough. `rotated` has two processes.
* `workspace`: handlers of the agent's organization, and of another that is turned
  away, need one agent and two organizations. Two tools let a tool be removed and an id be drawn
  again, if it could; two conversations compete for one session; `MaxCount` bounds
  the messages counted in a conversation.
* `GatesAssumption` of `MCWorkspace` takes every list of three names and one with a
  capital, among them a domain, its subdomain and a local host, and every origin over
  them.
* `access`: a circle of waits needs two transactions, and two rows that are locked in
  different orders, so two agents. The rows of a second member would be locked by a
  removal of an agent only, like those of the first. `MaxLost` in `widget` bounds the
  comparisons whose count is lost: one shows that the bound moves by one.
* `documents` has one document and one agent: no action but the deletion of an
  agent touches two documents, and it treats each alike. Two requests and a job
  are the confirmation that is stale, the one that is not, and agent-core. `MaxJobs`
  bounds the jobs for a document: a confirmation then waits or is refused. One
  number of chunks, besides the zero of a new row, makes a stale count visible;
  two descriptions make a stale description visible.
* Symmetry: all pools in `membership`; request slots and the pools that no initial
  state and no constant names elsewhere (tokens; ids of tools and conversations,
  secrets); none in `sessions`. It is used with no liveness property.

`CHECK_DEADLOCK FALSE` in all runs but `messages`: when the pools are used up
and nobody calls, a behaviour may end. `messages` is checked for deadlock: a
migration is always possible, and a transaction is never stuck but for
`Rollback`, as Postgres resolves circles of locks.

Fairness is stated in `AgentAccess` and `Documents`. Weak fairness of each slot's
statements, or handler: the event loop runs each continuation that is ready, and it
is never withdrawn. Strong fairness of `Take`: Postgres queues who waits for a lock, so
it gets its turn though others come and go. Weak fairness of `DeadlockDetected`: who has
waited for `deadlock_timeout` looks for a circle. agent-core ends, well or badly, each
job it has accepted. Nothing is assumed of clients. The other specifications state
safety, and no fairness.

## 4. Proofs

The proof modules hold for all values of the constants, infinite ones included,
under the assumptions named in `MessageSequence` (`LockKey` maps conversations to
keys, `Limit` is positive) and `Documents` (ids of agents and documents differ,
`MaxJobs` is a number, the empty description is a description), `Sessions` (lifetimes
are numbers), `Agents` and `Conversations` (an agent has one home; ids of different
tables differ; `MaxCount` is a number), `WidgetAuth` (widgets name addresses; the
limits are positive; `MaxLost` is a number), and `AgentAccess` (members, agents and access
rows are different things). `Membership` needs none. Theorems that count handlers assume,
in their statement, that the set of request slots is finite.

**Membership.** `OneOwner` is not inductive: SaveOwner writes an owner for an
organization that it saved two steps before, and changeRole saves a row that it
read before. `IInv` adds what handlers in flight may still do: only one of them
is about to write the owner of an organization, which has no members yet; the
target that changeRole or removeMember carries is not, and never becomes, an
owner (`NeverOwner`); an invitation that accept has read and carries to the insertion
of the user offers an admin's place only if the owner made it (`GoodOffer`), though the
row may have been overwritten since; claims about to be signed are good (`GoodClaims`), which
means an owner's claims name the owner. The reason it works is that owners are
never touched: once it is shown that every step keeps owners (`OwnersStay`),
everything said of other handlers' records survives, by one lemma (`Preserve`).
From IInv follow `OneOwner`, `OwnerClaimsTrue`, `AdminOffersByOwner`, `OwnerKept`,
`AdminsByOwner`, and, by `UsersStep` (how a step changes `users`), the refinement of `Roster`:
`SaveOwner` maps to Found, `CreateUser` and a reviving `InsertUser` to Join,
`UpdateRole` to SetRole, `RemoveTx` to Leave.

`AcceptedIsFinal` follows from types: only `Upsert`, `CreateUser` and `Expire` write
invitations (`WhoWrites`), the first and the last leave an accepted one alone, and
closing one that is accepted changes nothing in it (`ClosedKeeps`).
`Opened` has an invariant of its own, `OwnRows`: the rows that a transaction of
updateAgentAccess deletes are those of its own member, and what it asked for and found
there is not among them. Without it, a commit for one member could lift the
restriction of another, or lift it by not inserting what it has just deleted.

**Agent access.** `NoneDangling` is not inductive: a commit inserts rows whose keys it
looked at some steps before. `IInv` adds that a transaction deletes what is its own, and
that a removal has locked what it removes (`OwnDeletes`); that it inserts what was asked
for and not found, and holds or takes the foreign keys of that before it commits
(`OwnInserts`); that its DELETE or cascade has seen every row of its member or agent, but
for those that came later, and that none comes later to a removal (`Covered`); that what
a foreign key has locked is there, and what an INSERT has locked is not (`Valid`). Other
commits keep all this because held locks do not conflict (`TypeOK`, `HeldApart`): whoever
deletes a member cannot share its row with whoever refers to it. From IInv follow
`NoDangling` and `Replacement`, for any members, agents and slots.

**Messages.** `Gapless` speaks of committed rows; numbers are computed from the
committed rows and the transaction's own. `IInv` says that what each transaction
sees is a segment 1..n of its conversation (`Contiguous`), that one
transaction at most has rows pending in a conversation (`Apart`: the unique
constraint, since all would begin with the same number), and that a number given
out may have become old, but never skips one (`SkipsNone`). Committing then
extends a segment. `UpToCursor` says that a client has been shown what there is up to
its cursor; since a commit only adds above the last number, nothing turns up
behind it: `NothingMissed`. `LastPageIsLast` needs that fewer than `Limit + 1` first
rows are all rows. `ImplementsLog` refines `MessageLog`: the mapping `InOrder` puts the
message at place i whose number has i - 1 numbers below it, which needs no
induction. Of a segment (`Segmented`, which holds of what is committed and of what a
client has seen, by `IInv` and `UpToCursor`), that is the message numbered i, and a
larger segment continues a smaller one (`SegmentPrefix`): a commit is `Grow`, a page
is `Show`, and every other step stutters. `LockInv`, for the locking body, says that who has rows
pending, or a number, in a conversation holds its lock: `LockPrevents`.

**Documents.** `NothingForgotten` and `LastWordStands` are inductive by themselves,
given types: what puts a row out of date (`Update`, `Insert`) leaves its handler where
it still has to call agent-core and set the description, and only a failure, which
is remembered, takes that away. `CleanedUp` needs `ObjectFirst`: a removal that is
about to delete the row has deleted the object, and what was put since strays.
`StaysGone` needs `GoneIsFree`, that nobody holds an entity of what is gone, and
`IdsDrawn`, that ids are not handed out again. `Appears` and `Disappears` say which
steps add a document and take one away.

**Sessions.** `SupersededIsRefused` and `OnlyLoginEndsLogout` hold for one process and, as
`rotated` shows, for one only: the theorems assume `OneProcess`. The invariant is
`Agreed`: the memory has what the last set or delete left, or nothing, and Redis what
the last of them that it took left, or nothing. So whatever the tiers lose and whichever
writes fail, `Get` answers with one of these two or with nothing, and no token that was
superseded before matches. When no write to Redis has failed since, the two are the same. `GoneGetsNothing` needs no such assumption: `Load` looks
at the row, and nothing after it does.

**Widget.** `RateBounded` counts rows; the invariant (`Rated`) counts the codes of an
address within the hour and, with them, the handlers that have counted and not yet
stored (`Saving`): a handler joins those only while the codes are below the limit,
and storing turns one into a code. `Numbered`, that a code names its row, makes the
number of rows the number of codes, whatever is rewritten in them. `TriesBounded`
likewise counts, for each code that can be used, its attempts, the handlers that
have compared and not yet written (`Pending`), and the comparisons whose write was lost. `StaysOut` follows from types and
`Numbered`, action by action. The theorems start from any team and any
configuration, without codes and handlers (`Start`).

**Workspace.** `WInv` is inductive: types; what rows and handlers name was drawn
(`Drawn`); rows and entities never disagree on the agent of a tool (`OneOwner`);
headers that are stored or about to be were encrypted once
(`AllSealed`); and `References`. Each action is summed up in a lemma (what it may do
to the tables), and the properties are shown of the summaries. `StatsAgree` has an
invariant of its own, for finitely many slots: a handler leaves `InFlight` by adding
to `totalTokens` or, by `Fail`, to `cut`, and an id that was not drawn has neither
(`Uncounted`). `StaysGone` says of each action what it inserts: an id that it draws,
or an entity that its handler holds.

**Origins.** `GatesCompared`: a domain that covers a host, which has no capitals,
has none itself, so that taking it in lower case changes nothing. So who is shown a
history passes the gate of the session. The reverse fails in two cases, and in no other:
a local host outside production, and a host that only entries with capitals cover.

Each IInv, `OwnRows`, and LockInv for the runs of messages, was checked by TLC before.

Only model-checked: `CallsEnd` and `IndexingEnds`, which are liveness under fairness, and
`ImplementsMembership`, that the one-step transactions of `Team` lose nothing that the
locks of `AgentAccess` allow. Every other property of the passing runs is stated by a
theorem.

## 5. Where code and comments part

* `widening`: when the last agent of a confined member is deleted, it may use all
  (`invitations/entities/org-invitation.entity.ts:39`, `team/dto/index.ts:15`).
* `revival`: a member removed while its role is being changed is inserted again
  (`team/team.service.ts:62`).
* `reauth`: verifyOtp answers with a cached token that the guard refuses
  (`widget/auth/widget-auth.service.ts:119`, `common/guards/widget-auth.guard.ts:52`).
* `rotated`: with two processes, a logout in one leaves the hash in the memory of the
  other, which lets the token in (`auth/auth.service.ts:105`,
  `redis/redis.module.ts:30`).

Met while reading, and not the subject of a run:

* A removed member that had joined by invitation cannot be invited again: the
  accepted row is taken for a member (`invitations/invitations.service.ts:82`).
* Two updates of a member's agents at once leave the union, not a replacement
  (`team/team.service.ts:132`): `Replaced` says what is left of the replacement.
* An empty list of agents lifts a member's restriction, as null does; the comment of
  the DTO says that it stands for no private agents (`team/dto/index.ts:15`,
  `team/team.service.ts:148`). `Opened` lists it among the ways to have no rows.
* A refresh or logout whose write to Redis fails leaves the old hash there, and `get`
  asks Redis first: the token that was to be rotated or logged out is let in again,
  with one process (`auth/auth.service.ts:131` and `161`, `redis/cache.service.ts:11`).
  `SupersededIsRefused` and `OnlyLoginEndsLogout` are stated up to that.
* A comparison with a code is counted by a later statement: when that fails the attempt
  was free (`widget/auth/widget-auth.service.ts:108`).
* "All list/find methods are scoped to the requesting org" (`agents/agents.service.ts:37`;
  also the top-level README, line 102): `findOneWithRoleCheck` looks an agent up by its
  id alone and returns it whatever the access rows say (`agents/agents.service.ts:75`),
  and the PATCH of a document compares neither agent nor organization
  (`documents/documents.controller.ts:109`, `documents/documents.service.ts:122`). No
  property here says that organizations are kept apart.
* The two comparisons of an origin differ in capitals and in local hosts
  (`agents/agents.service.ts:144`, `widget/session/session.service.ts:64`): a session that
  opens may have no history. `GatesCompared` says exactly when.
* Two refreshes of a browser at once, with one token, both pass; the browser may
  keep the answer of the one whose hash the other replaced
  (`auth/auth.service.ts:106`).
* A member who sent an invitation cannot be removed: the key of `invited_by` has no
  ON DELETE action (`team/team.service.ts:107`).
* The entity of a call says that its tool may be null; the column is NOT NULL, so a
  tool that was called cannot be deleted, nor its agent
  (`database/migrations/1781956081165-InitialMigration.ts:36`).
* `update` and `remove` of a tool look for the tool before they look at the
  organization of its agent: what the top-level README (line 102) calls a 403,
  never a 404, is a 404 for a tool that is not there (`tools/tools.service.ts:106`).
* A mail that fails leaves an invitation, or a code, that its addressee does not
  get (`invitations/invitations.service.ts:93`); the code still counts against the
  limit.
* A transaction of agent-core that writes to two conversations takes their locks in
  the order it writes: two of them may wait for each other until Postgres ends one
  (`database/migrations/1789319648965-AddLockToSequence.ts:12`).
* history has no cursor: of a longer conversation it shows the first page
  (`conversations/chat.controller.ts:66`).
* The widget puts addresses in lower case; register and invitations do not. Who is
  registered with a capital gets no code (`widget/auth/dto/request-otp.dto.ts:7`).

## 6. Not modelled

* Reads that change nothing: lists and single reads, listMembers, validate, the
  embed code, the sums of analytics. The comparisons and conditions that matter to
  what happens next are in the steps that make them.
* The organizations and users services: repositories of rows that `Tables` has;
  nothing calls `updatePlan`.
* Templates of mails, wording and status codes of errors, configuration, rate limits
  of the HTTP server, and the demonstration in `test/`: no state.
* `document_chunks`, which agent-core writes, and the milliseconds in the keys of
  objects, which are taken to be unique.
* In `AgentAccess`: the UPDATE of `granted_by` when `save` finds a row with another
  granter, the order in which Postgres serves its queues, and the two other writers of
  access rows and users, `accept` (which inserts rows of a user that nobody else sees
  yet) and the re-insertion by `changeRole`. `Membership` has those two.
* In `WidgetAuth` the read and the save of an agent's `update` are one step
  (`Configure`): what a stale save writes, another update could have written.
* Encryption itself: what `encrypt` does to a value is a layer, and a key that
  changes is not considered.
