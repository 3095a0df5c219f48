----------------------------- MODULE CallerAuth -----------------------------
(***************************************************************************)
(* Who may call the hub: the authentication strategies, the cache of the   *)
(* issuer's signing keys (JWKSCache) that every bearer token goes through, *)
(* and the authorization checks of the routes.                             *)
(*                                                                         *)
(* The cache has one asyncio lock, held while the key set is fetched, so   *)
(* requests queue for it in the order of arrival.  Time is the age of the  *)
(* cache's two time stamps, in ticks, up to the refresh interval.          *)
(***************************************************************************)
EXTENDS Naturals, Sequences, FiniteSets

CONSTANTS
    Kids,        \* signing keys of the issuer, by key id
    NoKid,       \* a token whose header names no key
    Forged,      \* a token none of the issuer's keys signed
    NoKey,       \* no key found
    Subjects,    \* callers' identities
    Scopes,      \* OAuth scopes
    AdminScope,  \* auth.jwt.admin_scope
    Required,    \* auth.jwt.required_scopes
    Servers,     \* servers a request can be for
    ScopeOf,     \* ScopeOf[s]: the server's required_scope, or NoScope
    NoScope,
    Admin,       \* a request for an administrative operation
    Anonymous,   \* Principal.anonymous()
    Never,       \* a time stamp that was never set
    NoToken,     \* no Authorization header, no identity assertion
    Calls,       \* environment: the requests callers make
    Requests,    \* requests in flight at a time
    Interval,    \* min_refresh_interval_seconds, in ticks
    Modes        \* auth.type: "none", "basic", "jwt"

(* A JWT.  kid is what its header says, by the key that signed it; valid   *)
(* sums up issuer, expiry and the required claims, forHub the audience.    *)
Token == [kid : Kids \cup {NoKid}, by : Kids \cup {Forged}, sub : Subjects,
          valid : BOOLEAN, forHub : BOOLEAN, scopes : SUBSET Scopes]

(* A Principal; id is its id_token. *)
Principal == [sub : Subjects, scopes : SUBSET Scopes, id : {NoToken} \cup Token]

Targets == Servers \cup {Admin}

Codes == {"401", "403", "200"}

(* What a request presents, and what it is for. *)
Call == [tok : Token, asr : {NoToken} \cup Token, target : Targets]

(* A request in flight needs a key for its token, then for its assertion. *)
Request == [at : {"key", "fetch"}, leg : {"token", "assertion"}, call : Call]

(* An answered request: its principal if it has one, and what it presented *)
(* if that was a bearer token.                                             *)
Reply == [code : Codes, who : {Anonymous, NoToken} \cup Principal, call : {NoToken} \cup Call]

ASSUME CallerAssumption ==
    /\ Kids # {} /\ NoKid \notin Kids /\ Forged \notin Kids /\ NoKey \notin Kids
    /\ NoToken \notin Token \cup Request \cup Reply /\ Calls \subseteq Call
    /\ Anonymous \notin Principal /\ NoToken \notin Principal
    /\ ScopeOf \in [Servers -> Scopes \cup {NoScope}] /\ NoScope \notin Scopes
    /\ AdminScope \in Scopes /\ Required \subseteq Scopes /\ Admin \notin Servers
    /\ Interval \in Nat \ {0} /\ Never \notin Nat
    /\ Modes \subseteq {"none", "basic", "jwt"}

Ages == {Never} \cup 0 .. Interval

VARIABLES
    mode,       \* auth.type
    published,  \* environment: the keys the issuer publishes
    up,         \* environment: whether the JWKS endpoint answers
    keys,       \* JWKSCache._keys
    attempt,    \* age of _last_attempt
    rotation,   \* age of _last_rotation_refresh
    lockq,      \* JWKSCache._lock: the holder first, then the waiters
    req,        \* the requests in flight
    (* History, read by no action. *)
    reply,      \* the last reply
    last,       \* age of the last fetch, from its start; Interval if older or none
    previous    \* the same of the fetch before it

vars == <<mode, published, up, keys, attempt, rotation, lockq, req, reply, last, previous>>

TypeOK ==
    /\ mode \in Modes
    /\ published \subseteq Kids /\ keys \subseteq Kids
    /\ up \in BOOLEAN
    /\ attempt \in Ages /\ rotation \in Ages
    /\ lockq \in Seq(Requests)
    /\ req \in [Requests -> {NoToken} \cup Request]
    /\ reply \in {NoToken} \cup Reply
    /\ last \in 0 .. Interval /\ previous \in 0 .. Interval

Init ==
    /\ mode \in Modes
    /\ published \in SUBSET Kids
    /\ up \in BOOLEAN
    /\ keys = {}
    /\ attempt = Never /\ rotation = Never
    /\ lockq = <<>>
    /\ req = [r \in Requests |-> NoToken]
    /\ reply = NoToken
    /\ last = Interval /\ previous = Interval

-----------------------------------------------------------------------------
(* Authorization *)

Enforced == mode = "jwt"

IsAdmin(p) == ~Enforced \/ (p # Anonymous /\ AdminScope \in p.scopes)

(* may_call_server: a server that declares no scope is reachable by admins *)
(* alone.                                                                  *)
MayCall(p, s) ==
    \/ IsAdmin(p)
    \/ p # Anonymous /\ ScopeOf[s] # NoScope /\ ScopeOf[s] \in p.scopes

(* require_admin and require_server_access.  Of an anonymous caller of a   *)
(* server a login is asked for; of an authenticated one it would not help. *)
Answer(p, target) ==
    CASE target = Admin -> IF IsAdmin(p) THEN "200" ELSE "403"
      [] target # Admin /\ MayCall(p, target) -> "200"
      [] OTHER -> IF p = Anonymous THEN "401" ELSE "403"

Answered(p, target, call) == reply' = [code |-> Answer(p, target), who |-> p, call |-> call]

(* auth_required: no principal, no handler. *)
Unauthorized(call) == reply' = [code |-> "401", who |-> NoToken, call |-> call]

-----------------------------------------------------------------------------
(* JWKSCache *)

(* _lookup: without a key id only a single key is unambiguous. *)
Lookup(ks, kid) ==
    IF kid # NoKid THEN (IF kid \in ks THEN kid ELSE NoKey)
    ELSE IF Cardinality(ks) = 1 THEN CHOOSE k \in ks : TRUE ELSE NoKey

(* Mutant of MayRefresh: a load allows a rotation refresh every time. *)
MayRefreshAlways == attempt = Never \/ keys # {} \/ attempt = Interval

(* Mutant of MayRefresh: keys are loaded again once and never after. *)
MayRefreshOnce ==
    \/ attempt = Never
    \/ keys = {} /\ attempt = Interval
    \/ keys # {} /\ rotation = Never

(* _may_refresh: at once if never tried; no faster than the interval while *)
(* there are no keys; once at once after the first load, then no faster    *)
(* than the interval.                                                      *)
MayRefresh ==
    \/ attempt = Never
    \/ keys = {} /\ attempt = Interval
    \/ keys # {} /\ rotation \in {Never, Interval}

(* Mutant of Parsed: an unusable document empties the cache. *)
ParsedAll(document, cached) == document

(* _refresh keeps the cached keys if the document has none that is usable. *)
Parsed(document, cached) == IF document = {} THEN cached ELSE document

Holds(r, place) ==
    req[r] # NoToken /\ req[r].at = place /\ lockq # <<>> /\ Head(lockq) = r

Wanted(r) == IF req[r].leg = "token" THEN req[r].call.tok.kid ELSE req[r].call.asr.kid

(* jwt.decode; an ID Token's audience is not checked. *)
Verifies(t, key) == key # NoKey /\ t.by = key /\ t.valid

(* Mutant of OwnAssertion: anybody's ID Token will do. *)
OwnAssertionAny(tok, asr, key) == IF Verifies(asr, key) THEN asr ELSE NoToken

(* _identity_assertion_for: the ID Token counts only if it is the caller's *)
(* own; otherwise it is dropped and the request goes on without it.        *)
OwnAssertion(tok, asr, key) ==
    IF Verifies(asr, key) /\ asr.sub = tok.sub THEN asr ELSE NoToken

PrincipalOf(tok, id) == [sub |-> tok.sub, scopes |-> tok.scopes, id |-> id]

(* authenticate, once key_for has returned *)
Accepts(tok, key) == Verifies(tok, key) /\ tok.forHub /\ Required \subseteq tok.scopes

Done(r) == req' = [req EXCEPT ![r] = NoToken] /\ lockq' = Tail(lockq)

WithKey(r, key) ==
    LET c == req[r].call IN
    \/ /\ req[r].leg = "token" /\ ~Accepts(c.tok, key)
       /\ Unauthorized(c) /\ Done(r)
    \/ /\ req[r].leg = "token" /\ Accepts(c.tok, key) /\ c.asr = NoToken
       /\ Answered(PrincipalOf(c.tok, NoToken), c.target, c) /\ Done(r)
    \/ /\ req[r].leg = "token" /\ Accepts(c.tok, key) /\ c.asr # NoToken
       /\ req' = [req EXCEPT ![r].leg = "assertion", ![r].at = "key"]
       /\ lockq' = Append(Tail(lockq), r)
       /\ UNCHANGED reply
    \/ /\ req[r].leg = "assertion"
       /\ Answered(PrincipalOf(c.tok, OwnAssertion(c.tok, c.asr, key)), c.target, c) /\ Done(r)

(* key_for without a fetch: the key is cached, or fetching is too early. *)
CachedKey(r) ==
    /\ Holds(r, "key")
    /\ Lookup(keys, Wanted(r)) # NoKey \/ ~MayRefresh
    /\ WithKey(r, Lookup(keys, Wanted(r)))
    /\ UNCHANGED <<mode, published, up, keys, attempt, rotation, last, previous>>

StartFetch(r) ==
    /\ Holds(r, "key")
    /\ Lookup(keys, Wanted(r)) = NoKey /\ MayRefresh
    /\ req' = [req EXCEPT ![r].at = "fetch"]
    /\ last' = 0 /\ previous' = last
    /\ UNCHANGED <<mode, published, up, keys, attempt, rotation, lockq, reply>>

(* The response, an error or the timeout.  Either way both time stamps are *)
(* set; the keys change only with a usable document.                       *)
EndFetch(r) ==
    /\ Holds(r, "fetch")
    /\ keys' = IF up THEN Parsed(published, keys) ELSE keys
    /\ attempt' = 0
    /\ rotation' = IF keys # {} THEN 0 ELSE rotation
    /\ WithKey(r, Lookup(keys', Wanted(r)))
    /\ UNCHANGED <<mode, published, up, last, previous>>

-----------------------------------------------------------------------------
(* A request arrives with a bearer token and queues for the key cache. *)
Arrive(r, call) ==
    /\ req[r] = NoToken /\ mode = "jwt"
    /\ req' = [req EXCEPT ![r] = [at |-> "key", leg |-> "token", call |-> call]]
    /\ lockq' = Append(lockq, r)
    /\ UNCHANGED <<mode, published, up, keys, attempt, rotation, reply, last, previous>>

(* It arrives with no usable credential: NoAuthStrategy lets everyone in   *)
(* as anonymous, the others refuse.                                        *)
ArriveBare(target) ==
    /\ IF mode = "none" THEN Answered(Anonymous, target, NoToken) ELSE Unauthorized(NoToken)
    /\ UNCHANGED <<mode, published, up, keys, attempt, rotation, lockq, req, last, previous>>

(* It arrives with the one user name and password of BasicAuthStrategy. *)
ArriveBasic(target, u) ==
    /\ mode = "basic"
    /\ Answered([sub |-> u, scopes |-> {}, id |-> NoToken], target, NoToken)
    /\ UNCHANGED <<mode, published, up, keys, attempt, rotation, lockq, req, last, previous>>

(* The token of a waiting request expires before it is decoded. *)
Expire(r) ==
    /\ req[r] # NoToken /\ req[r].leg = "token" /\ req[r].call.tok.valid
    /\ req' = [req EXCEPT ![r].call.tok.valid = FALSE]
    /\ UNCHANGED <<mode, published, up, keys, attempt, rotation, lockq, reply, last, previous>>

Older(age) == IF age = Never \/ age = Interval THEN age ELSE age + 1

Tick ==
    /\ attempt' = Older(attempt) /\ rotation' = Older(rotation)
    /\ last' = Older(last) /\ previous' = Older(previous)
    /\ UNCHANGED <<mode, published, up, keys, lockq, req, reply>>

(* The issuer rotates its keys; its endpoint goes down and comes back. *)
Rotate(ks) ==
    /\ published' = ks
    /\ UNCHANGED <<mode, up, keys, attempt, rotation, lockq, req, reply, last, previous>>

Outage ==
    /\ up' = ~up
    /\ UNCHANGED <<mode, published, keys, attempt, rotation, lockq, req, reply, last, previous>>

Presents(call) == \E r \in Requests : Arrive(r, call)

KeyStep(r) == CachedKey(r) \/ StartFetch(r) \/ EndFetch(r)

Next ==
    \/ \E call \in Calls : Presents(call)
    \/ \E target \in Targets : ArriveBare(target) \/ \E u \in Subjects : ArriveBasic(target, u)
    \/ \E r \in Requests : KeyStep(r) \/ Expire(r)
    \/ Tick
    \/ \E ks \in SUBSET Kids : Rotate(ks)
    \/ Outage

(* The cache's steps and the clock go on (a fetch has a timeout), and a    *)
(* caller with a token keeps presenting it.                                *)
Fairness ==
    /\ \A r \in Requests : WF_vars(KeyStep(r))
    /\ WF_vars(Tick)
    /\ \A call \in Calls : SF_vars(Presents(call))

Spec == Init /\ [][Next]_vars /\ Fairness

-----------------------------------------------------------------------------
(* A flood of tokens with unknown key ids costs the issuer at most two     *)
(* fetches in any refresh interval, whatever is rotated, fails or arrives  *)
(* meanwhile: when a fetch starts, the last but one is at least as old as  *)
(* the interval (JWKSCache: not "a JWKS request amplifier").               *)
FetchesRateLimited == [][(\E r \in Requests : StartFetch(r)) => previous = Interval]_vars

(* A request that reaches a handler under auth.type jwt presented a token  *)
(* some key of the issuer signed, holds the admin scope or the scope its   *)
(* server asks for, acts as that token's subject, and an ID Token it       *)
(* carries along is the issuer's and its own.                              *)
ServedEntitled ==
    mode = "jwt" /\ reply # NoToken /\ reply.code = "200" =>
        LET c == reply.call
            p == reply.who
        IN
        /\ c.tok.by \in Kids /\ p.sub = c.tok.sub
        /\ AdminScope \in c.tok.scopes \/ (c.target # Admin /\ ScopeOf[c.target] \in c.tok.scopes)
        /\ p.id # NoToken => p.id.by \in Kids /\ p.id.sub = c.tok.sub

(* An outage of the issuer or an empty key set never locks out the callers *)
(* whose keys are cached: keys are only ever replaced by the published     *)
(* ones.                                                                   *)
OutageKeepsKeys == [][keys' # keys => up /\ keys' = published /\ keys' # {}]_keys

(* A key the issuer goes on publishing while its endpoint is up becomes    *)
(* known to the hub, and stays so, as long as someone presents a token     *)
(* that is signed with it and names it in its header (kid): the rate limit *)
(* only delays a rotation.  It is not so for tokens without a kid: with    *)
(* one key cached, _lookup answers that one, whatever is published, the    *)
(* signature check fails and nothing is fetched.                           *)
RotationPickedUp ==
    \A c \in Calls :
        c.tok.kid = c.tok.by =>
            (<>[](mode = "jwt" /\ c.tok.by \in published /\ up) => <>[](c.tok.by \in keys))
=============================================================================
