# A TLA+ verification of k5n-mcp-hub

The hub is a single asyncio process that keeps a registry of MCP servers, watches
their health, discovers their capabilities, and proxies MCP calls to them: over HTTP
with a credential of its own or one exchanged for the caller, to a subprocess over
stdio, or to an HTTP API described by an OpenAPI document. This directory holds TLA+
models of the parts whose correctness depends on the order in which tasks run, TLC
configurations that check them on small instances, and TLAPS proofs of what matters
most for instances of every size. `PROJECT.json` ties every definition to the lines of
`src/` it models and lists runs, mutants, findings, hazards and theorems.

Everything in the hub runs on one event loop, so a step of a model is what a task does
from one point where it really suspends (a network call, a contended lock, an event) to
the next. An `await` of something that does not suspend (a storage method, an
uncontended lock) does not end a step. What a task read before such a point is kept in
its own state and may be stale when it goes on: that is where most of the properties
are.

## Inventory

| Component | State | Operations | Hard part |
|---|---|---|---|
| Storage (`storage/jsonfile.py`) | dictionary of records; JSON file | save, update, unregister, get, list, load at start | memory changes before the file is written; the write can raise; the file keeps a sanitized record; the store keeps the caller's object |
| Registry (`registry/service.py`) | none of its own | register with capability merge, health updates | a caller's whole-record write against the others' |
| Registration API (`routes/v1.py`, `routes/registry_api.py`) | one request | read existing, URL checks (network), merge, register, start discovery; DELETE | the existing record is read before the network |
| Health checker (`health/checker.py`) | a task; the copies listed for the cycle | list, probe `/health`, ping over MCP, record, auto-unregister | verdicts on copies; exceptions end the task |
| Discovery (`mcp/discovery.py`) | polling task; background tasks of registrations | handshake, list capabilities, save preserving health | long round trips on a copy, or on the stored object itself |
| Admin UI handlers (`routes/ui_*.py`) | one request | read, await, register the copy | no re-read before the write |
| stdio pool (`mcp/stdio_pool.py`) | entries with lock, ready and stop events, supervisor task | session, supervise, discard, close, close_all | starts that fail, time out or are cancelled under several callers |
| Tokens for backends (`mcp/auth.py`, `mcp/obo_cache.py`, `mcp/token_exchange.py`, `mcp/id_jag.py`) | bounded cache of exchanged tokens | lookup, exchange, store, evict, invalidate | the exchange is outside the lock; expiry; identity of the key |
| Proxy (`proxy/handler.py` and its helpers) | one call | authorize, inject a fault, forward, authenticate, send, retry once, stream | many exits, one retry, record kept from the start of the call |
| Caller authentication and authorization (`auth/*`) | JWKS cache: keys, two time stamps, a lock | verify a token, then an ID Token; fetch keys; authorize | key rotation and outages against the refresh limit; requests queue behind a fetch |
| OpenAPI import, revisions and jobs (`openapi/importer.py`, `jobs.py`, `revision.py`, `virtual_server.py`, `routes/openapi.py`) | job table, semaphore, per-server locks, the OpenAPI half of a record | submit, load in a child process, apply choices and settings, accept or reject a revision, prune | a read, a mapping thread, a write; a revision that changes under review; a client's body read inside the lock; writers that take no lock |
| OpenAPI mapping (`openapi/mapping.py` and what it calls) | none | choices and a spec to tools | name conflicts, operations that vanish or lose support |
| OpenAPI execution (`openapi/executor.py`) | none | one tool call to one HTTP request | conversions only |
| MCP clients (`mcp/sdk_client.py`, `stateless.py`, `pagination.py`, `mrtr.py`) | one connection lock per server URL; service tokens per server; pacing of polls | connect, negotiate, page through lists, read leniently, hand over | passes of five kinds against one server; cursors that repeat; tokens of replaced credentials |
| Trace recorder and telemetry | ring of entries | add, list, clear | bound |
| Agents | records of agents | register, list, delete | none concurrent |
| Lifecycle and configuration (`app.py`, `config.py`) | background tasks | start, shut down | order of shutdown |

How they interact: API, UI, checker and discovery share the registry; each gets copies
and writes whole records or single fields back. A registration starts a discovery that
holds the very object the store keeps. The proxy reads a record once per call and works
on that copy; it borrows processes from the stdio pool and tokens from the token cache.
The checker and discovery borrow from the pool too. The admin's changes reach calls in
flight only through the next lookup.

What makes them correct: no task undoes what another recorded (health verdicts,
deletions, capabilities, endpoint knowledge); the file and the memory tell one coherent
story after failures and restarts; a dead backend is noticed and removed; one process
per stdio server and none leaked; every session call ends; a user's call carries that
user's token and no other; a retry is a new token and only one; the cache stays within
its bound and never serves a token that outlives its user's session; whoever is served
was entitled, and the issuer is neither flooded nor a single point of failure; an OpenAPI
server exposes what an admin chose from a spec an admin saw; a job that runs is known and
ends; a backend's list is read in full, within a limit, and a salvaged one is reported as
such; a server is asked by one connection at a time, with a token that is alive.

## Modules

| Module | Models | Checked by | Proved in |
|---|---|---|---|
| `HubRegistry` | storage, registry, registration and DELETE, health checker, discovery, crash and restart | `MCHubRegistry` | `HubRegistryProofs` |
| `HubUi` | the UI handlers that write records; extends `HubRegistry` | `MCHubUi` | `HubUiProofs` |
| `StdioPool` | the pool for one server id, object by object | `MCStdioPool` | `StdioPoolProofs` |
| `SingleProcess` | abstract specification: one process, started again only after the last one stopped | refined by `StdioPool` | `StdioPoolProofs` |
| `ProxyCalls` | proxied calls, user tokens and their cache, the 401 retry | `MCProxyCalls` | `ProxyCallsProofs` |
| `OpenApiServers` | import jobs, server locks, choices, settings, revisions, the writers without a lock, failed saves and restarts | `MCOpenApiServers` | `OpenApiServersProofs` |
| `CallerAuth` | authentication strategies, JWKS cache, identity assertions, authorization | `MCCallerAuth` | `CallerAuthProofs` |
| `McpLists` | one discovery pass over a backend's lists, page by page | `MCMcpLists` | `McpListsProofs` |
| `McpClients` | passes of five kinds against a server: protocol, connection lock, service tokens, pacing | `MCMcpClients` | `McpClientsProofs` |

### HubRegistry and HubUi

`mem` is `JSONFileStorage._data`, `disk` the file. A record keeps its health fields, the
request its always-sent fields came from (`cfg`), the request its kept fields came from
(`cred`), whether capabilities are known (`caps`) and whether the stored object is still
in the hands of a discovery task (`shared`). `reqs` are registrations waiting for their
URL checks, `health` the checker's task with the copies it listed, `disc` the
discoveries under way, each with the copy (or the shared object) it works on. `judged`
and `deleted` are history: the last health some writer legitimately established, and the
ids whose deletion was acknowledged.

One action per step of the code: `RegisterBegin`, `RegisterRefused`, `RegisterCommit`
(with the merge of `Registry.register`, the save and the start of discovery);
`Unregister`; `HealthList`, `HealthPick`, `HealthEndpoint404`, `HealthEndpointWorked`,
`HealthEndpointFailed`, `HealthPing` (each with the writes and the auto-unregistration
that follow, in order) and `HealthCycleEnds`; `PollStart`, `DiscoverStore`,
`DiscoverFail`; `CrashAndRestart`. A save that raises leaves memory changed and the file
not (`SavesFailAt`) and, in the checker, ends the task. `GoDown` is the environment.
`HubUi` adds `UiRead` / `UiWrite`, `UiDiscover`, `UiEnd` for handlers that await between
read and write, and `UiTouch` for those that do not.

Abstractions: capabilities are known or not; the fields of a registration are two
representatives, one always sent and one kept; timestamps are present or absent.

### StdioPool and SingleProcess

An `_Entry` can be popped from the dictionary while callers wait on its lock or on its
event, so entries have identities; one that nobody refers to becomes `Blank` and is
used again. Steps of a caller (`Enter`, `Acquire`, `Wake`, `StartTimeout`, `Discarded`)
run from one suspension point of `session()` to the next, supervisors start, fail, exit
and tear down (`StartOk`, `StartFail`, `Exit`, `Teardown`), and `Close`, `CloseAll`,
`CloseAllTimeout` stop them. The lock's queue is first come, first served, as asyncio's
is. `OneProcess` is `SingleProcess!Spec` under the mapping of `running` to the entries
whose process nobody has asked to stop.

### ProxyCalls

One registered server; `conf` is its stored record, which `Configure` changes or deletes
at any time. A call copies it in `Arrive` and works on that copy: refused, answered by
fault injection, forwarded to a subprocess or to the hub's own OpenAPI server, or sent
to the backend as the service (`AsService`) or as the user. For the last, `AsUser` and
`ActorToken` end in `Lookup`, the first critical section of `OBOTokenCache.token`;
`Exchanged` is the second one, with `_expiry_for` and `_evict_if_needed`. `Rejected` is a
backend's 401: invalidate and authenticate again, once. `Responds` and `StreamEnds` are
the rest of `proxy_request`. `store` and `order` are the ordered dictionary.

Abstractions: audience, scope and resource are one value, subject and issuer one user;
tokens are numbered, so no token is issued twice; the two legs of enterprise-managed
authorization are one wait, since the hub keeps nothing between them; the hub's own
tokens are not modelled (`Service`); `expires_in` is what `_coerce_expires_in` leaves;
what a call leaves in the trace buffer is left out.

### OpenApiServers

`rec` is the registry's record of an id: none, a server of another kind, or the OpenAPI
half of a record (accepted spec, pending revision, selection, name overrides, health
probe, whether there is a base URL, tools); `disk` is the file, where records have no
tools. `task` is the code each admin request and each import job is running, with the
copy it read; `lockq` are the `ServerLocks`, `status` and `finished` the
`ImportJobStore`; `poll`, `view` and `form` are the copies held by a discovery poll, by a
capabilities page, and by a fault form or an initialize page; `joining` are the
registrations between their check and their write. A job goes `Submit`, `RunJob` (a
semaphore slot), `Loaded` or `LoadFails` (the child process); jobs and requests (`Ask`)
then queue for the lock, and under it go `Read`, `Unservable` or `Store`, and `Publish`,
each ending where the code waits for a thread. `accept` and `reject` read the client's
body inside the lock (`AwaitsBody`): it comes (`Read`), is refused (`BodyFails`), or
never comes. `Candidate` is the record each kind of request asks for (`apply_choices`,
`_new_server`, `_updated_server`, `_settings_update`, `_carried`), `CheckChoices` what
may be stored. `PollRead`/`PollWrite`, `ViewRead`/`ViewWrite`, `UiRead`/`UiWrite`/`UiEnd`
(`post_server_faults`, `get_initialize`), `Delete`, `JoinCheck`/`JoinWrite` take no lock.
Every `Write` changes the memory and then the file, unless that raises (`Outcomes`);
`SaveOther` stands for the saves of the rest of the hub, which write the whole file;
`CrashAndRestart` reads the file back.

Abstractions: a spec is its hash, and for each operation the tool name it derives, or
that it is absent or unsupported; names are valid or not; the time by which finished
jobs are pruned is any that respects their order. `edits` and `approved` are history.

### CallerAuth

`keys`, `attempt`, `rotation` and `lockq` are the `JWKSCache`; time stamps are ages up to
the refresh interval, beyond which the code does not distinguish. A request holds the
lock through `CachedKey`, or `StartFetch` and `EndFetch` (`key_for` awaits the fetch
inside the lock), and goes through it a second time for an ID Token. `WithKey` is the
rest of `authenticate` and the routes' authorization checks (`Answer`). The issuer
rotates its keys, goes down and comes back; tokens expire in the queue. Tokens say which
key they name, which signed them, and sum up issuer, expiry and claims in `valid`.

### McpLists

A pass asks for up to three lists. A backend is any function from pages to next cursors,
with any set of invalid pages. `Page` is one turn of `collect_pages`; `Invalid` is the
SDK's validation error, after which `list()` reads everything again below the validation;
`Fail` is any other error; `Store` is `_store_capabilities`'s verdict. Pages are always
appended, as the SDK client does; the stateless client drops a page whose value is not a
list (`stateless.py:98-105`), which is not modelled.

### McpClients

`pass[r][s]` is the pass of role `r` (poll, immediate discovery, health probe,
capabilities view, info probe) against server `s`, with the copy of the record it works
on; `lock` is `_connection_locks`, `tokens` is `TokenCache` (per server id), `pacing` is
`_poll_not_before`. `Stateless` decides which protocol a pass starts with, `Authorize`,
`TokenArrives`, `TokenFails` are `apply_server_auth` with the token request's await,
`Enter`, `OpenFails`, `Handshake`, `HandshakeFails` are `MCPClient`. A cached token knows
what the cache thinks is left of it and what its issuer knows is left; entries that will
not be used again are dropped at once. When the capabilities page cannot fetch its lists
itself it falls back on a discovery, which stores them, and then stores its own copy a
second time (`Store` with goal `post`). Hints of when to poll next are finite. One pass
per role and server runs at a time, which
the poll and the checker guarantee and for UI requests is a bound.

## Runs

Passing runs:

- `registry_races`: one server, two registrations, threshold 2, no failing writes. Two
  registrations are what it takes for one to be overtaken by another; any number of
  discoveries overlap. `HealthNeverReverted`, `DeletedStaysDeleted`, `CapabilitiesKept`
  hold: discovery's re-read (`_save_preserving_health`) and the merge of
  `Registry.register` do their work.
- `registry_crash`: writes of the file may raise, the hub may crash once, the backend
  may go down for good. What was acknowledged as deleted stays deleted, restored records
  are coherent, a missing health endpoint is remembered, and `DownServerRemoved`: a dead
  backend is unregistered as long as the checker's task runs.
- `ui_races`: a UI handler on top of registration, checker and discovery for a stdio
  server. The health fields still agree, whichever stale copy was written last. This is
  coherence of what is stored only: that a stale copy reverts a verdict or brings back a
  deleted server is listed below.
- `pool`: two callers, five entries (the most two callers and the dictionary can refer
  to at once), commands that may be refused, slow teardowns, `close` and `close_all`.
  No orphan, no lost wakeup, no lock that outlives its holder (`LockFollowsCallers`),
  refinement of `SingleProcess`, and every call of `session()` ends. Two callers make a
  queue of one; longer queues are covered by the proof. A serving process that a late
  caller discards is stopped, so none of these is about it (see below).
- `proxy`: two calls of two users and of a refused caller, a cache of one entry, five
  records (on-behalf-of with and without delegation, enterprise-managed, service,
  OpenAPI). With a margin of 1, a lifetime of 2 and sessions of 1 and 3, two clock values
  give live entries, entries that die in the cache, and tokens stored that are never
  live. One entry makes every second user evict.
- `openapi`: one server, two jobs one after the other, two other requests, and two
  revisions of a spec with three operations: under the second, two operations derive the
  same name and the third loses its support, so that a selection good for one revision
  cannot be served under the other. What is stored can be served
  (`StoredChoicesServable`), comes from an approved spec (`ServesApprovedSpec`), and lists
  tools that were mapped as a whole from one approved spec (`ToolsFromOneSpec`); edits
  under the lock do not overlap (`EditsDoNotOverlap`, which says nothing of the writers
  without a lock). With room for one unfinished job and no finished one, the second
  submission is refused or prunes, and the table stays within its limits
  (`JobTableBounded`). Writes succeed here; the proofs cover failing ones, restarts, and
  any number of slots and jobs.
- `openapi_jobs`: two jobs over one slot, one other request (an `accept` whose body may
  never come, a UI form, a deletion), writes that may raise, one crash. No job is
  forgotten while it runs (`JobsTracked`), and every job ends although it waits for the
  server's lock inside the only slot (`JobsEnd`), provided that no client keeps that lock
  for ever by not sending the body of its `accept` or `reject`. Stale copies, failed
  writes and the restart, after which no record has tools, leave tools that are not the
  mapping of the choices; the polls put them right time and again (`ToolsCatchUp`).
- `caller`: two requests at a time, two keys (one can be rotated out while the other is
  cached), an interval of one tick, all three strategies. Nobody unentitled is served,
  the issuer is asked at most twice in an interval, an outage changes no key, and a
  rotation is picked up for tokens that name the new key in their header
  (`RotationPickedUp`; for tokens without a `kid` it is not, see below).
- `lists`: two cursors make every chain, repetition and cycle of two possible, and a
  limit of four pages lets a cycle run into it. `PassEnds` is liveness.
- `clients`: one server registered twice with different credentials, two passes at a
  time of any kinds, a token lifetime above the reserve and a token request that takes a
  tick. One connection at a time, reused tokens are alive, tokens of replaced
  credentials fade (`OldCredentialsFade`), and the server is polled again and again.

Runs that show a disagreement between the code and what the repository says of it; the
quotations are in `PROJECT.json`:

- `registry_task`: a DELETE during a probe makes `update_health_and_uptime` raise
  `KeyError`, which ends the health checker for all servers.
- `openapi_poll`: a discovery poll maps its copy of an OpenAPI record in a thread and
  writes it back without the lock and without looking again; an admin's change or
  deletion made meanwhile is undone, which the comment above that code rules out.

Other disagreements met while modelling. The models contain the steps; no run states
them, so that the passing runs can be about what holds:

- the background discovery of a re-registration holds the stored object and clears
  capabilities the registration had just kept (`DiscoverStore` on a shared record);
- a server for which the hub has no credential of its own is recorded as healthy although
  its endpoint stopped answering (`HealthPing`, `UserOnly`);
- a UI handler that awaits between read and write brings back a deleted server and
  reverts health verdicts (`UiWrite`);
- a third caller that queued behind a failed start discards the process another caller
  has started since and is using (`Discarded` in `StdioPool`);
- the key of the user-token cache lacks `obo_actor_token_source`, so impersonation tokens
  are used after a record is switched to delegation (`KeyOf` in `ProxyCalls`);
- a fault form or an initialize page that read an OpenAPI record between an admin's write
  and the discovery that follows writes its copy back after it (`UiWrite`): the tools are
  then not the mapping of the selection, as `discovery.py:268` has it, and older than the
  last discovery (`ui_invoke.py:543`), until the next poll;
- an import registers its server and then waits for the discovery of its tools, still
  running (`Store`, `Publish`); a crash there loses the job but not the server, although
  `jobs.py:7` says that nothing is written until a job succeeds;
- a client that opens an `accept` or `reject` and never sends its body keeps the server's
  lock, and every import of that server that has a slot keeps the slot
  (`routes/openapi.py:344`, `AwaitsBody`): the proviso of `JobsEnd`;
- a token without a `kid` is tried with the one cached key (`jwt_bearer.py:104-107`);
  that key is found, so nothing is fetched (`jwt_bearer.py:92-94`), and after a rotation,
  "the normal key-rotation path" of `jwt_bearer.py:119-120`, such tokens are refused
  until one that names the new key comes by: the restriction in `RotationPickedUp`;
- `extract_ttl_ms` has no cap and takes an infinite `ttlMs`, after which the poll never
  asks that server again: `PolledAgain` is about finite hints.

Bounds are constants with the word "bound" in their declaration: registrations, UI and
admin requests, jobs, passes at a time, crashes, the failure count (it saturates at the
threshold, above which the code does not distinguish) and the clock. `CHECK_DEADLOCK
FALSE` is for behaviours that have used up these bounds, and in `lists` for the pass that
is over.

Fairness. `HubRegistry!FairSpec` is weak fairness of the checker's task, while it is
alive: `run_forever` loops with a sleep, and each probe has a timeout. Nothing is assumed
of admins, discovery or crashes (bounded). `StdioPool!FairSpec` is weak fairness of each
caller's steps inside `session()`, which includes the 30 s start timeout
(`StartTimeout`), and of the teardown of a supervisor that was asked to stop. Starting,
failing or exiting of a process is not assumed to happen. `OpenApiServers`: each job and
each task under a lock goes on unless it waits for its client's body (the child process
has a deadline, mapping threads end, asyncio wakes the first waiter), and the poll comes
round (`DiscoveryService.run_forever` catches what a pass raises and sleeps); nothing is
assumed of clients, admins and the other unlocked writers.
`CallerAuth`: whoever holds the key cache's lock goes on (a fetch has a timeout), time
passes, and, for `RotationPickedUp` alone, a caller with a token keeps presenting it
(strong fairness: it may have to wait for a free request); nothing is assumed of the
issuer. `McpLists`: a request is answered, fails or times out (for the stateless client
the timeout is per read of the socket, so a backend that trickles bytes can hold a
request longer than the model assumes). `McpClients`: the same for
each pass that does not wait for the lock, the poll loop comes round, time passes. The
safety runs assume none.

Each property of a passing run has a mutant: the plausible slip in the code it would
catch, written next to the definition it replaces (a dropped re-read, a missing reset,
a key that forgets the user, a supervisor that ends silently).

## Proofs

For every value of the constants that satisfies the modules' `ASSUME`s, in particular
any number of servers, callers, users, calls, registrations and crashes:

- `HubRegistryProofs`: `TypeCorrect`; `HealthVerdictsSurvive` (`HealthNeverReverted`);
  `DeletionIsFinal` (`DeletedStaysDeleted`). With `TypeOK` both are inductive. The work
  is in `HealthStepEffect`: however a step of the checker ends (one write, two, a
  failure of either, auto-unregistration) it changes only the server under probe, and
  records the health it leaves as judged. The action properties `CapabilitiesSurvive`
  (`CapabilitiesKept`) and `EndpointRemembered` (`MissingEndpointRemembered`) follow step
  by step, the first from `TypeOK` alone. The second needs `CopiesCurrent`: the checker
  asks for `/health` by copies it listed at the start of its cycle, and would forget a
  missing endpoint if such a copy were behind; it is not, since only the checker finds
  an endpoint missing, and it is then done with that server for the cycle.
- `HubUiProofs`: `HealthFieldsCoherent` (`HealthFieldsAgree`, for `UiSpec`) and
  `RestHealthCoherent` (the same for `Spec`, the hub without the UI). It is not
  inductive: a UI handler writes a copy back, a restart reads the file. The invariant
  adds that every copy in a handler, a discovery or the file is itself coherent
  (`AllCopiesCoherent`).
- `StdioPoolProofs`: `PoolInvariant`, `NoOrphans`, `NoWakeupLost` (`NoLostWakeup`),
  `ImplementsSingleProcess`, `LocksAreFollowed` (`LockFollowsCallers`). The
  invariant says that an entry some caller stands in or waits for has a supervisor
  (`Started`), that one without a supervisor is quiet and unlocked and one whose
  supervisor is over has set its event (`Quiet`), and that a process meant to run is in
  the dictionary (`Reachable`); the lemmas carry it through the helpers of `session()`
  in the order the code calls them. The refinement follows from `Reachable` and from no
  step stopping one process and starting another at once (`NoSwitch`). The locks are
  carried through the same helpers by `Held`: within a step, everybody but the caller
  under way stands as the locks and queues say, and that caller has exactly one lock,
  whichever entry it has turned to.
- `ProxyCallsProofs`: `ProxyInvariant`, `NobodyElsesToken` (`OwnTokenOnly`),
  `RetryIsFresh` (`RetrySendsAnother`), `ReuseIsLive` (`ReusedTokenLive`),
  `CacheStaysBounded` (`CacheBounded`). The cache
  holds each token under its own key, with an expiry no later than the token's and the
  session's (`StoreOK`); and while a retry waits for its second token, the rejected one
  is nowhere in the cache (`Retrying`): it was only under the key that was removed, and
  what other calls store meanwhile is new. For the bound, the order lists the stored
  keys exactly, each once (`Ordered`): so removing a key shortens it by one, storing one
  lengthens it by at most one, and evicting the oldest makes room for it.
- `OpenApiServersProofs`: `OpenApiInvariant`; from it `OpenApiTyped`, `StoredAreServable`,
  `SpecsAreApproved`, `ToolsAreOfOneSpec` (`ToolsFromOneSpec`), `LocksSeparate`,
  `JobsAreTracked`; on top of it `TableStaysBounded` (`JobTableBounded`). What is said of
  the stored record is not inductive, since polls, pages, forms and tasks write copies
  back and a restart reads the file: the invariant says it of the file and of every copy
  (`RecordsSound`, `TasksSound`). A task past the queue is the head of its lock's queue,
  so another one's write cannot fall between its read and its own. For the job table it adds that no finished job is unfinished and that numbers
  not yet given out are unused (`JobTable`). The bound on the table is a count: every
  job in it is going on or listed as finished, only `submit` adds one, and it first
  prunes the finished ones to their limit and refuses when too many are going on.
- `CallerAuthProofs`: `OutageChangesNoKey`, `AuthInvariant`, `OnlyTheEntitled`
  (`ServedEntitled`), `NoAmplifier` (`FetchesRateLimited`). The last rests on
  `FetchHistory`, which ties the ages of the last two fetches to the cache's two time
  stamps, with the exception the code makes for the first rotation refresh.
- `McpListsProofs`: `ListsInvariant`; from it `ListsTyped`, `PagingBounded`,
  `WalksFollowCursors`, `SalvageIsReported`, `AcceptedAreComplete`, for every backend and
  page limit. The invariant counts requests against the pages accumulated in each of the
  two readings, and ties salvaged lists to the client's issues.
- `McpClientsProofs`: `ClientsInvariant`; from it `ClientsTyped`, `ConnectionsExclusive`
  (`OneConnection`), `ReusedTokensLive` (`ReusableTokensAlive`). Whoever is connected
  heads the lock's queue and whoever waits is in it; what the cache thinks is left of a
  token exceeds the truth by at most the duration of a token request, which the reserve
  covers.

Model-checked only: liveness (`DownServerRemoved`, `CallsEnd`, `JobsEnd`, `ToolsCatchUp`,
`RotationPickedUp`, `PassEnds`, `OldCredentialsFade`, `PolledAgain`), which needs
fairness. Every safety property of the passing runs, invariant or action property, has
a theorem; `ProxyCalls` removes a key by its position rather than by filtering, since
what a filter keeps of a sequence would take an induction to prove.

## Not modelled

The SDK's transports and the libraries' cryptography and HTTP (used through their
outcomes); rendering of pages, downloads, logs and telemetry; the conversions of
documents: parsing and reference resolution of OpenAPI documents, Swagger 2, schemas,
arguments and responses of a tool call, import and export formats. These are functions
of their input with no state and no second actor, and what is hard about them is in the
data the models abstract. Configuration is checked once at start. Agents are read and
written by one request at a time. Multi-round-trip tool calls keep their state at the
caller.

Some hazards in code that is modelled have no property because nothing in the repository
says what should happen: a record registered anew during a probe can be unregistered for
its predecessor's failures; of two overlapping registrations the later one may restore
older secrets; an import that finishes while a registration of the same id is being
checked is overwritten; a server upgraded to a stateless-only revision is not asked for
it until it is registered anew.

## Plan

Done: registry, UI handlers, pool, proxied calls; then OpenAPI servers, caller
authentication, clients and lists. In order of what they would add:

1. The composition of registry and pool (a process may run a command the record no
   longer names) and the shutdown order of `app.py`.
2. The trace buffer, multi-round-trip calls, the order of credentials in
   `apply_server_auth`.
