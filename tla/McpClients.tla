----------------------------- MODULE McpClients -----------------------------
(***************************************************************************)
(* How the hub talks to its HTTP backends: which revision of the protocol  *)
(* a pass speaks (server/discover first, the initialize handshake behind   *)
(* it), the one handshake connection per server at a time that MCPClient   *)
(* queues for, the client-credentials tokens that TokenCache keeps per     *)
(* server, and the pacing of polls by the ttlMs hints of stateless lists.  *)
(*                                                                         *)
(* Every await is a step of its own.  Passes of five kinds run against a   *)
(* server: the discovery poll, an immediate discovery (after a             *)
(* registration, or asked for in the UI), the health probe, the            *)
(* capabilities view and the servers page's background probe.  Reading the *)
(* lists of a pass is a single step; McpLists has them and their pages.    *)
(* Time is what is left of each lifetime, in ticks.                        *)
(***************************************************************************)
EXTENDS Naturals, Sequences, FiniteSets

CONSTANTS
    Servers,          \* HTTP servers with OAuth client credentials
    NoRecord,         \* a server that is not registered
    NoToken,          \* no cached token
    NoHint,           \* no ttlMs
    Skew,             \* a cached token must outlive this (30 s)
    Transit,          \* a token request takes at most this (its timeout, 10 s)
    Lives,            \* environment: the expires_in values of issuers
    MaxLife,          \* the longest of them
    MaxHint,          \* environment: the longest ttlMs
    MaxRegistrations, \* bound: registrations, each with credentials of its own
    MaxBusy,          \* bound: passes in progress at a time
    MaxRefreshes      \* bound: discoveries and views asked for in the UI

Roles == {"poll", "now", "health", "view", "info"}

(* mcp_protocol_version: empty, the stateless revision, a handshake one. *)
Versions == {"unknown", "new", "old"}

Record == [ver : Versions, cred : 1 .. MaxRegistrations]

(* A cached token: the credentials it was obtained with, what the cache    *)
(* thinks is left of it and what the issuer knows is left.                 *)
Cached == [cred : 1 .. MaxRegistrations, left : 0 .. MaxLife, real : 0 .. MaxLife]

(* ttlMs, in ticks.  extract_ttl_ms takes any number that is not negative, *)
(* infinity included (1e999), after which a server is not polled until a   *)
(* pass of another kind drops its pacing; hints are finite here.           *)
Hints == {NoHint} \cup 0 .. MaxHint

Places == {"idle", "auth", "token", "post", "queue", "open", "store"}

(* A pass: its copy of the record; goal is what its credentials are for;   *)
(* live is the view outside its fallback to a discovery; found is a        *)
(* stateless pass whose server/discover was answered; a token request has  *)
(* life and age.                                                           *)
Pass == [at : Places, ver : Versions, cred : 1 .. MaxRegistrations,
         goal : {"post", "open"}, live : BOOLEAN, found : BOOLEAN,
         life : 0 .. MaxLife, age : 0 .. Transit]

ASSUME ClientsAssumption ==
    /\ Skew \in Nat /\ Transit \in Nat /\ Transit <= Skew
    /\ MaxLife \in Nat /\ Skew <= MaxLife /\ Lives \subseteq 0 .. MaxLife
    /\ NoRecord \notin Record /\ NoToken \notin Cached /\ NoHint \notin Nat
    /\ MaxHint \in Nat /\ MaxBusy \in Nat /\ MaxRegistrations \in Nat \ {0} /\ MaxRefreshes \in Nat

VARIABLES
    rec,        \* the registry
    pass,       \* pass[r][s]: the pass of role r against server s
    lock,       \* _connection_locks: the holder and those waiting for it
    tokens,     \* TokenCache._tokens
    pacing,     \* _poll_not_before, as the ticks left
    issued,     \* registrations so far
    refreshes   \* UI requests so far

vars == <<rec, pass, lock, tokens, pacing, issued, refreshes>>

TypeOK ==
    /\ rec \in [Servers -> {NoRecord} \cup Record]
    /\ pass \in [Roles -> [Servers -> Pass]]
    /\ lock \in [Servers -> Seq(Roles)]
    /\ tokens \in [Servers -> {NoToken} \cup Cached]
    /\ pacing \in [Servers -> Hints]
    /\ issued \in 0 .. MaxRegistrations /\ refreshes \in 0 .. MaxRefreshes

Idle == [at |-> "idle", ver |-> "unknown", cred |-> 1, goal |-> "post", live |-> FALSE,
         found |-> FALSE, life |-> 0, age |-> 0]

Init ==
    /\ rec = [s \in Servers |-> NoRecord]
    /\ pass = [r \in Roles |-> [s \in Servers |-> Idle]]
    /\ lock = [s \in Servers |-> <<>>]
    /\ tokens = [s \in Servers |-> NoToken]
    /\ pacing = [s \in Servers |-> NoHint]
    /\ issued = 0 /\ refreshes = 0

Registered == {s \in Servers : rec[s] # NoRecord}

Resting(r, s) == pass[r][s].at = "idle"

Room(n) == Cardinality({p \in Roles \X Servers : ~Resting(p[1], p[2])}) + n <= MaxBusy

Go(r, s, p) == pass' = [pass EXCEPT ![r][s] = p]

-----------------------------------------------------------------------------
(* Which protocol a pass starts with.  A discovery probes server/discover  *)
(* unless the record names a handshake revision, a health probe only if    *)
(* the record names the stateless one; the view and the info probe always  *)
(* shake hands.                                                            *)
Stateless(r, ver) ==
    \/ r \in {"poll", "now"} /\ ver \in {"unknown", "new"}
    \/ r = "health" /\ ver = "new"

StatelessPass(c) == [Idle EXCEPT !.at = "auth", !.cred = c.cred]

Queued(c) == [Idle EXCEPT !.at = "queue", !.cred = c.cred, !.goal = "open"]

(* Only the view ever stores the revision its copy came with. *)
Begun(r, c) ==
    IF Stateless(r, c.ver) THEN StatelessPass(c)
    ELSE IF r = "view" THEN [Queued(c) EXCEPT !.live = TRUE, !.ver = c.ver]
    ELSE Queued(c)

(* A handshake discovery drops the server's pacing. *)
Discovers(r) == r \in {"poll", "now"}

(* _connection_lock(url).acquire(): asyncio's locks are first come, first  *)
(* served.                                                                 *)
Waiting(q, r) == Append(q, r)

(* MCPClient.__aexit__, and __aenter__ when the transport does not open. *)
Released(s) == [lock EXCEPT ![s] = Tail(@)]

Begin(r, s) ==
    /\ Go(r, s, Begun(r, rec[s]))
    /\ lock' = IF Stateless(r, rec[s].ver) THEN lock ELSE [lock EXCEPT ![s] = Waiting(@, r)]

(* register_from_data, the registration and the background discovery it    *)
(* starts (one at a time here).  A new record has no known revision.       *)
Register(s) ==
    /\ issued < MaxRegistrations /\ Resting("now", s) /\ Room(1)
    /\ issued' = issued + 1
    /\ rec' = [rec EXCEPT ![s] = [ver |-> "unknown", cred |-> issued']]
    /\ Go("now", s, Begun("now", rec'[s]))
    /\ UNCHANGED <<lock, tokens, pacing, refreshes>>

Unregister(s) ==
    /\ rec[s] # NoRecord
    /\ rec' = [rec EXCEPT ![s] = NoRecord]
    /\ UNCHANGED <<pass, lock, tokens, pacing, issued, refreshes>>

(* poll_once, when the passes of the last one have ended: pacing of        *)
(* servers that are gone is dropped, and every server that is due gets a   *)
(* pass.                                                                   *)
Due(s) == pacing[s] \in {NoHint, 0}

PollOnce ==
    /\ \A s \in Servers : Resting("poll", s)
    /\ Registered # {}
    /\ LET due == {s \in Registered : Due(s)}
           direct == {s \in due : ~Stateless("poll", rec[s].ver)} IN
       /\ Room(Cardinality(due))
       /\ pass' = [pass EXCEPT !["poll"] =
                     [s \in Servers |-> IF s \in due THEN Begun("poll", rec[s]) ELSE @[s]]]
       /\ lock' = [s \in Servers |-> IF s \in direct THEN Waiting(lock[s], "poll") ELSE lock[s]]
       /\ pacing' = [s \in Servers |->
                       IF s \in direct \/ s \notin Registered THEN NoHint ELSE pacing[s]]
    /\ UNCHANGED <<rec, tokens, issued, refreshes>>

(* The health checker probes one server after the other. *)
HealthProbe(s) ==
    /\ \A x \in Servers : Resting("health", x)
    /\ rec[s] # NoRecord /\ Room(1)
    /\ Begin("health", s)
    /\ UNCHANGED <<rec, tokens, pacing, issued, refreshes>>

(* The capabilities page reads the lists live. *)
View(s) ==
    /\ Resting("view", s) /\ rec[s] # NoRecord /\ refreshes < MaxRefreshes /\ Room(1)
    /\ refreshes' = refreshes + 1
    /\ Begin("view", s)
    /\ UNCHANGED <<rec, tokens, pacing, issued>>

(* refresh-capabilities runs discover_immediately on a fresh copy. *)
Refresh(s) ==
    /\ Resting("now", s) /\ rec[s] # NoRecord /\ refreshes < MaxRefreshes /\ Room(1)
    /\ refreshes' = refreshes + 1
    /\ Begin("now", s)
    /\ pacing' = IF Stateless("now", rec[s].ver) THEN pacing ELSE [pacing EXCEPT ![s] = NoHint]
    /\ UNCHANGED <<rec, tokens, issued>>

(* The servers page probes a server whose transport is not known yet. *)
InfoProbe(s) ==
    /\ Resting("info", s) /\ rec[s] # NoRecord /\ rec[s].ver = "unknown"
    /\ refreshes < MaxRefreshes /\ Room(1)
    /\ refreshes' = refreshes + 1
    /\ Begin("info", s)
    /\ UNCHANGED <<rec, tokens, pacing, issued>>

-----------------------------------------------------------------------------
(* Credentials of a request: apply_server_auth over TokenCache.token. *)

(* Mutant of Fresh: no reserve. *)
FreshToTheEnd(t) == t # NoToken /\ t.left > 0

Fresh(t) == t # NoToken /\ t.left > Skew

(* An entry that would not be used again is as good as none. *)
Useful(t) == IF Fresh(t) THEN t ELSE NoToken

(* expires_in, at least the reserve *)
Expiry(life) == IF life > Skew THEN life ELSE Skew

(* What becomes of pass p when it needs credentials: a cached token is     *)
(* attached at once; otherwise the token endpoint is asked with the        *)
(* credentials of the pass's copy.  The issuer's clock starts here.        *)
Authorized(p, s) ==
    IF Fresh(tokens[s]) THEN {[p EXCEPT !.at = p.goal]}
    ELSE {[p EXCEPT !.at = "token", !.life = e] : e \in Lives}

Authorize(r, s) ==
    /\ pass[r][s].at = "auth"
    /\ \E q \in Authorized(pass[r][s], s) : Go(r, s, q)
    /\ UNCHANGED <<rec, lock, tokens, pacing, issued, refreshes>>

TokenArrives(r, s) ==
    LET p == pass[r][s] IN
    /\ p.at = "token"
    /\ tokens' = [tokens EXCEPT ![s] =
                    Useful([cred |-> p.cred, left |-> Expiry(p.life),
                            real |-> IF p.life > p.age THEN p.life - p.age ELSE 0])]
    /\ Go(r, s, [p EXCEPT !.at = p.goal, !.life = 0, !.age = 0])
    /\ UNCHANGED <<rec, lock, pacing, issued, refreshes>>

(* The request goes out without a credential. *)
TokenFails(r, s) ==
    LET p == pass[r][s] IN
    /\ p.at = "token"
    /\ Go(r, s, [p EXCEPT !.at = p.goal, !.life = 0, !.age = 0])
    /\ UNCHANGED <<rec, lock, tokens, pacing, issued, refreshes>>

-----------------------------------------------------------------------------
(* server/discover is answered: a health probe is done, a discovery notes  *)
(* the revision the server prefers and asks for the lists.                 *)
Discovered(r, s) ==
    LET p == pass[r][s] IN
    /\ p.at = "post"
    /\ \/ r = "health" /\ Go(r, s, Idle)
       \/ /\ r # "health" /\ ~p.found
          /\ \E v \in {"new", "old"} :
               \E q \in Authorized([p EXCEPT !.ver = v, !.found = TRUE], s) : Go(r, s, q)
    /\ UNCHANGED <<rec, lock, tokens, pacing, issued, refreshes>>

(* server/discover fails, for whatever reason: the health probe fails, a   *)
(* discovery goes on to the handshake.                                     *)
NotStateless(r, s) ==
    LET p == pass[r][s] IN
    /\ p.at = "post"
    /\ \/ /\ r = "health" /\ Go(r, s, Idle)
          /\ UNCHANGED <<lock, pacing>>
       \/ /\ r # "health" /\ ~p.found
          /\ Go(r, s, Queued(p))
          /\ lock' = [lock EXCEPT ![s] = Waiting(@, r)]
          /\ pacing' = [pacing EXCEPT ![s] = NoHint]
    /\ UNCHANGED <<rec, tokens, issued, refreshes>>

(* The stateless lists are read, or fail and are left out; h is the        *)
(* shortest of their hints, which paces the polls to come.                 *)
Listed(r, s) ==
    LET p == pass[r][s] IN
    /\ p.at = "post" /\ p.found
    /\ \E h \in Hints : pacing' = [pacing EXCEPT ![s] = h]
    /\ Go(r, s, [p EXCEPT !.at = "store", !.found = FALSE])
    /\ UNCHANGED <<rec, lock, tokens, issued, refreshes>>

-----------------------------------------------------------------------------
(* Mutant of Entered: the lock is not waited for. *)
EnteredAtOnce(r, s) == TRUE

Entered(r, s) == Head(lock[s]) = r

(* MCPClient.__aenter__: the lock is ours.  The info probe has no record   *)
(* and so no credentials.                                                  *)
Enter(r, s) ==
    LET p == pass[r][s] IN
    /\ p.at = "queue" /\ Entered(r, s)
    /\ \E q \in IF r = "info" THEN {[p EXCEPT !.at = "open"]} ELSE Authorized(p, s) : Go(r, s, q)
    /\ UNCHANGED <<rec, lock, tokens, pacing, issued, refreshes>>

(* What a failed connection leads to: the view (get_server_tools) falls    *)
(* back to a discovery with the copy it has, the others give up.  A list   *)
(* the view cannot read has the same effect.                               *)
AfterFailure(r, s) ==
    LET p == pass[r][s] IN
    IF ~p.live THEN Idle
    ELSE IF Stateless("now", p.ver) THEN StatelessPass(p) ELSE Queued(p)

Requeued(r, s, q) == IF AfterFailure(r, s).at = "queue" THEN Waiting(q, r) ELSE q

FailureUnpaces(r, s) ==
    IF AfterFailure(r, s).at = "queue" THEN [pacing EXCEPT ![s] = NoHint] ELSE pacing

(* Mutant of OpenFails: __aenter__ leaves the lock taken. *)
OpenFailsHolding(r, s) ==
    /\ pass[r][s].at = "open"
    /\ Go(r, s, AfterFailure(r, s))
    /\ UNCHANGED <<rec, lock, tokens, pacing, issued, refreshes>>

(* The transport does not open: the lock is released before the error      *)
(* leaves __aenter__.                                                      *)
OpenFails(r, s) ==
    /\ pass[r][s].at = "open"
    /\ Go(r, s, AfterFailure(r, s))
    /\ lock' = [lock EXCEPT ![s] = Requeued(r, s, Tail(@))]
    /\ pacing' = FailureUnpaces(r, s)
    /\ UNCHANGED <<rec, tokens, issued, refreshes>>

(* initialize fails or times out: __aexit__ closes the transport and       *)
(* releases the lock.                                                      *)
HandshakeFails(r, s) ==
    /\ pass[r][s].at = "open"
    /\ Go(r, s, AfterFailure(r, s))
    /\ lock' = [lock EXCEPT ![s] = Requeued(r, s, Tail(@))]
    /\ pacing' = FailureUnpaces(r, s)
    /\ UNCHANGED <<rec, tokens, issued, refreshes>>

(* initialize answers.  A discovery notes the revision, reads the lists    *)
(* and stores them while connected; the view reads its lists, leaves and   *)
(* then stores what it found, if anything; the ping is done; the info      *)
(* probe notes the revision in the record as it now stands.                *)
Handshake(r, s) ==
    LET p == pass[r][s] IN
    /\ p.at = "open"
    /\ CASE Discovers(r) \/ (r = "view" /\ ~p.live) ->
              /\ Go(r, s, [p EXCEPT !.at = "store", !.ver = "old"])
              /\ UNCHANGED <<rec, lock>>
         [] r = "view" /\ p.live ->
              /\ Go(r, s, [p EXCEPT !.at = "store", !.goal = "post"]) \/ Go(r, s, Idle)
              /\ lock' = Released(s) /\ rec' = rec
         [] r = "health" ->
              /\ Go(r, s, Idle)
              /\ lock' = Released(s) /\ rec' = rec
         [] r = "info" ->
              /\ Go(r, s, Idle)
              /\ lock' = Released(s)
              /\ rec' = IF rec[s] = NoRecord THEN rec ELSE [rec EXCEPT ![s].ver = "old"]
    /\ UNCHANGED <<tokens, pacing, issued, refreshes>>

(* The record goes back as the pass holds it.  A discovery, the view's own *)
(* fallback too, leaves a server alone that was unregistered meanwhile;    *)
(* the view registers what it found.  A handshake discovery then leaves    *)
(* its connection.  After its fallback the view stores the same copy once  *)
(* more, unless there was nothing in it.                                   *)
Store(r, s) ==
    LET p == pass[r][s] IN
    /\ p.at = "store"
    /\ rec' = IF ~p.live /\ rec[s] = NoRecord THEN rec
              ELSE [rec EXCEPT ![s] = [ver |-> p.ver, cred |-> p.cred]]
    /\ lock' = IF p.goal = "open" THEN Released(s) ELSE lock
    /\ \/ Go(r, s, Idle)
       \/ /\ r = "view" /\ ~p.live
          /\ Go(r, s, [p EXCEPT !.goal = "post", !.live = TRUE])
    /\ UNCHANGED <<tokens, pacing, issued, refreshes>>

-----------------------------------------------------------------------------
(* Mutant of Aged: a cached token never expires. *)
AgedNever(t) == t

Aged(t) ==
    IF t = NoToken THEN NoToken
    ELSE Useful([t EXCEPT !.left = @ - 1, !.real = IF @ = 0 THEN 0 ELSE @ - 1])

(* The passage of time.  A token request that has taken its timeout is     *)
(* resolved first.                                                         *)
Tick ==
    /\ \A r \in Roles, s \in Servers : pass[r][s].at = "token" => pass[r][s].age < Transit
    /\ tokens' = [s \in Servers |-> Aged(tokens[s])]
    /\ pacing' = [s \in Servers |->
                    IF pacing[s] \in {NoHint, 0} THEN pacing[s] ELSE pacing[s] - 1]
    /\ pass' = [r \in Roles |-> [s \in Servers |->
                  IF pass[r][s].at = "token" THEN [pass[r][s] EXCEPT !.age = @ + 1]
                  ELSE pass[r][s]]]
    /\ UNCHANGED <<rec, lock, issued, refreshes>>

(* What a pass does next, or what happens to it. *)
Step(r, s) ==
    \/ Authorize(r, s) \/ TokenArrives(r, s) \/ TokenFails(r, s)
    \/ Discovered(r, s) \/ NotStateless(r, s) \/ Listed(r, s)
    \/ Enter(r, s) \/ OpenFails(r, s)
    \/ Handshake(r, s) \/ HandshakeFails(r, s)
    \/ Store(r, s)

Next ==
    \/ PollOnce
    \/ \E s \in Servers :
         \/ Register(s) \/ Unregister(s) \/ HealthProbe(s)
         \/ View(s) \/ Refresh(s) \/ InfoProbe(s)
    \/ \E r \in Roles, s \in Servers : Step(r, s)
    \/ Tick

Spec == Init /\ [][Next]_vars

(* Every request of a pass has a timeout, so a pass that does not wait for *)
(* the lock goes on; the poll loop comes round; time passes.               *)
FairSpec ==
    /\ Spec
    /\ \A r \in Roles, s \in Servers : WF_vars(Step(r, s))
    /\ WF_vars(PollOnce)
    /\ WF_vars(Tick)

-----------------------------------------------------------------------------
Connected(r, s) ==
    /\ pass[r][s].goal = "open"
    /\ pass[r][s].at \in {"token", "open", "store"}

(* One handshake connection per server at a time, whichever of discovery,  *)
(* health checker, view and probe are at work, and it belongs to the       *)
(* holder of the lock.                                                     *)
OneConnection ==
    \A s \in Servers, r \in Roles : Connected(r, s) => lock[s] # <<>> /\ Head(lock[s]) = r

(* A token the cache would attach to a request is still valid at its       *)
(* issuer, however long the token request took.                            *)
ReusableTokensAlive == \A s \in Servers : tokens[s] # NoToken => tokens[s].real > 0

(* TokenCache keeps tokens by server id alone.  Once registrations and UI  *)
(* requests stop, tokens of replaced credentials stop being reused.        *)
OldCredentialsFade ==
    <>[](\A s \in Servers : rec[s] # NoRecord /\ tokens[s] # NoToken =>
                            tokens[s].cred = rec[s].cred)

(* A registered server is polled again and again: its poll begins whatever *)
(* its hints and the passes of other kinds did to the pacing, and ends     *)
(* whichever passes failed before it, since none of them leaves the        *)
(* connection lock taken.                                                  *)
PolledAgain ==
    \A s \in Servers :
      /\ rec[s] # NoRecord ~> (rec[s] = NoRecord \/ ~Resting("poll", s))
      /\ ~Resting("poll", s) ~> Resting("poll", s)

=============================================================================
