----------------------------- MODULE ProxyCalls -----------------------------
(***************************************************************************)
(* Calls proxied to one registered server: proxy_request from the registry *)
(* lookup to the end of the response stream, the outbound credential       *)
(* (apply_server_auth: on-behalf-of and enterprise-managed authorization), *)
(* the cache of exchanged tokens (OBOTokenCache) and the single            *)
(* re-exchange after a 401.                                                *)
(*                                                                         *)
(* A call works on the copy of the record it read at the start; the admin  *)
(* may change or delete the record meanwhile.  A step ends where the       *)
(* handler waits for the network: the caller's body, the hub's own actor   *)
(* token, the identity provider, the backend, the end of the stream.  The  *)
(* cache's critical sections never suspend.                                *)
(***************************************************************************)
EXTENDS Integers, Sequences, FiniteSets

Sequence == INSTANCE SequencesExt

CONSTANTS
    Calls,         \* the calls, each made once
    Users,         \* callers with a token to exchange
    Nobody,        \* an authenticated caller with none (basic auth, anonymous)
    Refused,       \* callers require_server_access turns away
    Auds,          \* values of the fields that are in the cache key (audience, scope, resource)
    Confs,         \* the records the admin may store
    None,          \* no record, no entry
    Service,       \* the server's own credential, or no credential
    Lifetimes,     \* expires_in of an exchanged token, after _coerce_expires_in
    Sessions,      \* how long the caller's own token is still valid
    Margin,        \* EXPIRY_MARGIN_SECONDS
    MaxEntries,    \* max_entries of the cache
    MaxTime        \* bound: the clock

Flows == {"obo", "ema"}

(* What a call reads of a RegisteredServer.  actor: obo_actor_token_source *)
(* is client_credentials.                                                  *)
Conf == [kind : {"http", "stdio", "openapi"}, auth : Flows \cup {"service"}, aud : Auds,
         actor : BOOLEAN, fault : BOOLEAN]

VARIABLES
    now,      \* the clock
    conf,     \* the stored record
    store,    \* OBOTokenCache._entries: by key
    order,    \* and their order, oldest first
    issued,   \* exchanges answered so far: the identity of the tokens
    call      \* the calls

vars == <<now, conf, store, order, issued, call>>

(* OBOCacheKey *)
Key == [user : Users, aud : Auds, flow : Flows]

(* A token: whom it speaks for, what it was issued for, its expiry and that *)
(* of the caller's token it was exchanged for.  No token is issued twice.  *)
Token == [id : Nat, user : Users, aud : Auds, flow : Flows, actor : BOOLEAN,
          exp : Int, session : Int]

(* _Entry: exp is its expires_at. *)
Entry == [tok : Token, exp : Int]

ASSUME ProxyAssumption ==
    /\ Confs \subseteq Conf
    /\ Nobody \notin Users /\ Refused \subseteq Users \cup {Nobody}
    /\ Lifetimes \subseteq Nat /\ Sessions \subseteq Nat
    /\ Margin \in Nat /\ MaxTime \in Nat /\ MaxEntries \in Nat \ {0}
    /\ None \notin Conf /\ None \notin Entry /\ Service \notin Token

(* sent: the credentials sent to the backend. *)
Call == [at : {"idle", "body", "local", "actor", "exchange", "send", "stream", "done", "raised"},
         who : Users \cup {Nobody}, session : Int, srv : Conf \cup {None},
         sent : Seq(Token \cup {Service})]

TypeOK ==
    /\ now \in 0 .. MaxTime
    /\ conf \in Confs \cup {None}
    /\ store \in [Key -> Entry \cup {None}]
    /\ order \in Seq(Key)
    /\ issued \in Nat
    /\ call \in [Calls -> Call]

Unused == [at |-> "idle", who |-> Nobody, session |-> 0, srv |-> None, sent |-> <<>>]

Init ==
    /\ now = 0
    /\ conf \in Confs
    /\ store = [k \in Key |-> None]
    /\ order = <<>>
    /\ issued = 0
    /\ call = [c \in Calls |-> Unused]

-----------------------------------------------------------------------------
(* OBOTokenCache *)

(* Mutant of KeyOf: the key of the client-credentials cache. *)
KeyOfServer(srv, who) ==
    [user |-> CHOOSE u \in Users : TRUE, aud |-> srv.aud, flow |-> srv.auth]

(* obo_cache_key *)
KeyOf(srv, who) == [user |-> who, aud |-> srv.aud, flow |-> srv.auth]

(* The order without k, which is in it at most once. *)
Drop(keys, k) ==
    IF \E i \in DOMAIN keys : keys[i] = k
    THEN Sequence!RemoveAt(keys, CHOOSE i \in DOMAIN keys : keys[i] = k)
    ELSE keys

(* Mutant of ExpiryFor: the caller's own session does not count. *)
ExpiryForOwn(lifetime, session) == now + lifetime

(* _expiry_for *)
ExpiryFor(lifetime, session) ==
    IF now + lifetime <= session THEN now + lifetime ELSE session

(* _is_live *)
IsLive(e) == e # None /\ e.exp - now > Margin

(* Mutant of Evicted: one entry too many. *)
EvictedLate(keys) == IF Len(keys) > MaxEntries + 1 THEN {Head(keys)} ELSE {}

(* _evict_if_needed, after one entry was added: the oldest goes. *)
Evicted(keys) == IF Len(keys) > MaxEntries THEN {Head(keys)} ELSE {}

(* The cache after storing entry e for k. *)
Stored(k, e) ==
    LET keys == Append(Drop(order, k), k)
        out  == Evicted(keys)
    IN  /\ store' = [x \in Key |-> CASE x \in out -> None
                                     [] x \notin out /\ x = k -> e
                                     [] OTHER -> store[x]]
        /\ order' = IF out = {} THEN keys ELSE Tail(keys)

(* The cache without k. *)
Removed(k) ==
    /\ store' = [store EXCEPT ![k] = None]
    /\ order' = Drop(order, k)

-----------------------------------------------------------------------------
(* proxy_request *)

Goes(c, x) == call' = [call EXCEPT ![c] = x]

Ends(c) == Goes(c, [call[c] EXCEPT !.at = "done"])

(* The registry lookup and the access check: an unknown server is answered *)
(* 404, a caller without access refused.                                   *)
Arrive(c, who, session) ==
    LET x == [call[c] EXCEPT !.who = who, !.session = now + session, !.srv = conf] IN
    /\ call[c].at = "idle"
    /\ \/ (conf = None \/ who \in Refused) /\ Goes(c, [x EXCEPT !.at = "done"])
       \/ conf # None /\ who \notin Refused /\ Goes(c, [x EXCEPT !.at = "body"])
    /\ UNCHANGED <<now, conf, store, order, issued>>

(* apply_fault_injection answers in the backend's place, at once or after  *)
(* its delay; a fault that does not fit the request lets it through.       *)
Fault(c) ==
    /\ call[c].at = "body" /\ call[c].srv.fault
    /\ Ends(c)
    /\ UNCHANGED <<now, conf, store, order, issued>>

(* forward_to_stdio, or the hub answering for an OpenAPI server, whose     *)
(* serve_openapi answers a GET with 405.                                   *)
Forward(c) ==
    /\ call[c].at = "body" /\ call[c].srv.kind # "http"
    /\ Goes(c, [call[c] EXCEPT !.at = "local"])
    /\ UNCHANGED <<now, conf, store, order, issued>>

NotAllowed(c) ==
    /\ call[c].at = "body" /\ call[c].srv.kind = "openapi"
    /\ Ends(c)
    /\ UNCHANGED <<now, conf, store, order, issued>>

Forwarded(c) ==
    /\ call[c].at = "local"
    /\ Ends(c)
    /\ UNCHANGED <<now, conf, store, order, issued>>

(* The server's own credential: no user involved, never exchanged. *)
AsService(c) ==
    /\ call[c].at = "body" /\ call[c].srv.kind = "http" /\ call[c].srv.auth = "service"
    /\ Goes(c, [call[c] EXCEPT !.at = "send", !.sent = Append(@, Service)])
    /\ UNCHANGED <<now, conf, store, order, issued>>

(* OBOTokenCache.token up to the exchange: a live entry is used and moved  *)
(* to the end, a dead one dropped.                                         *)
Lookup(c) ==
    LET k == KeyOf(call[c].srv, call[c].who)
        e == store[k]
    IN  \/ /\ IsLive(e)
           /\ Goes(c, [call[c] EXCEPT !.at = "send", !.sent = Append(@, e.tok)])
           /\ order' = Append(Drop(order, k), k)
           /\ UNCHANGED store
        \/ /\ ~IsLive(e)
           /\ Goes(c, [call[c] EXCEPT !.at = "exchange"])
           /\ Removed(k)

(* _apply_obo_auth and _apply_ema_auth for a caller that can be acted for: *)
(* delegation first gets the hub's own token.                              *)
AsUser(c) ==
    /\ call[c].at = "body" /\ call[c].srv.kind = "http" /\ call[c].srv.auth \in Flows
    /\ call[c].who # Nobody
    /\ IF call[c].srv.auth = "obo" /\ call[c].srv.actor
       THEN Goes(c, [call[c] EXCEPT !.at = "actor"]) /\ UNCHANGED <<store, order>>
       ELSE Lookup(c)
    /\ UNCHANGED <<now, conf, issued>>

(* Nobody to act for, or the record lacks what an exchange needs: fail     *)
(* closed.                                                                 *)
AuthFails(c) ==
    /\ call[c].at = "body" /\ call[c].srv.kind = "http" /\ call[c].srv.auth \in Flows
    /\ Ends(c)
    /\ UNCHANGED <<now, conf, store, order, issued>>

ActorToken(c) ==
    /\ call[c].at = "actor"
    /\ Lookup(c)
    /\ UNCHANGED <<now, conf, issued>>

(* The identity provider issued a token (for EMA: both legs succeeded).    *)
Exchanged(c, lifetime) ==
    LET x == call[c]
        t == [id |-> issued + 1, user |-> x.who, aud |-> x.srv.aud, flow |-> x.srv.auth,
              actor |-> x.srv.actor, exp |-> now + lifetime, session |-> x.session]
    IN
    /\ x.at = "exchange"
    /\ issued' = issued + 1
    /\ Stored(KeyOf(x.srv, x.who), [tok |-> t, exp |-> ExpiryFor(lifetime, x.session)])
    /\ Goes(c, [x EXCEPT !.at = "send", !.sent = Append(@, t)])
    /\ UNCHANGED <<now, conf>>

(* No actor token, or the exchange failed: the backend is not called. *)
ExchangeFails(c) ==
    /\ call[c].at \in {"actor", "exchange"}
    /\ Ends(c)
    /\ UNCHANGED <<now, conf, store, order, issued>>

(* The backend cannot be reached, at the first attempt or at the second. *)
Unreachable(c) ==
    /\ call[c].at = "send"
    /\ Ends(c)
    /\ UNCHANGED <<now, conf, store, order, issued>>

(* Any other exception of the connection leaves proxy_request. *)
Broken(c) ==
    /\ call[c].at = "send"
    /\ Goes(c, [call[c] EXCEPT !.at = "raised"])
    /\ UNCHANGED <<now, conf, store, order, issued>>

(* The backend answered 401 to an exchanged token and this was the first   *)
(* attempt: the retry is the one below.                                    *)
Retries(c) == call[c].srv.auth \in Flows /\ Len(call[c].sent) = 1

(* Mutant of Rejected: the rejected token stays in the cache. *)
RejectedKept(c) ==
    /\ call[c].at = "send" /\ Retries(c)
    /\ IF call[c].srv.auth = "obo" /\ call[c].srv.actor
       THEN Goes(c, [call[c] EXCEPT !.at = "actor"]) /\ UNCHANGED <<store, order>>
       ELSE Lookup(c)
    /\ UNCHANGED <<now, conf, issued>>

(* invalidate_obo_token, then apply_server_auth again: with the entry gone *)
(* the lookup that follows at once misses.                                 *)
Rejected(c) ==
    /\ call[c].at = "send" /\ Retries(c)
    /\ Removed(KeyOf(call[c].srv, call[c].who))
    /\ Goes(c, [call[c] EXCEPT !.at = IF call[c].srv.auth = "obo" /\ call[c].srv.actor
                                      THEN "actor" ELSE "exchange"])
    /\ UNCHANGED <<now, conf, issued>>

(* The response starts. *)
Responds(c) ==
    /\ call[c].at = "send"
    /\ Goes(c, [call[c] EXCEPT !.at = "stream"])
    /\ UNCHANGED <<now, conf, store, order, issued>>

StreamEnds(c) ==
    /\ call[c].at = "stream"
    /\ Ends(c)
    /\ UNCHANGED <<now, conf, store, order, issued>>

-----------------------------------------------------------------------------
(* The environment *)

Configure(k) ==
    /\ conf' = k
    /\ UNCHANGED <<now, store, order, issued, call>>

Tick ==
    /\ now < MaxTime
    /\ now' = now + 1
    /\ UNCHANGED <<conf, store, order, issued, call>>

Step(c) ==
    \/ \E who \in Users \cup {Nobody}, session \in Sessions : Arrive(c, who, session)
    \/ Fault(c) \/ Forward(c) \/ NotAllowed(c) \/ Forwarded(c)
    \/ AsService(c) \/ AsUser(c) \/ AuthFails(c) \/ ActorToken(c)
    \/ \E lifetime \in Lifetimes : Exchanged(c, lifetime)
    \/ ExchangeFails(c)
    \/ Unreachable(c) \/ Broken(c) \/ Rejected(c) \/ Responds(c) \/ StreamEnds(c)

Next ==
    \/ \E c \in Calls : Step(c)
    \/ \E k \in Confs \cup {None} : Configure(k)
    \/ Tick

Spec == Init /\ [][Next]_vars

-----------------------------------------------------------------------------
(* Properties *)

(* Whatever a call to an on-behalf-of or enterprise-managed server sends   *)
(* is a token of its own caller, issued for the audience, scope, resource  *)
(* and flow of the record the call read: never another user's token out of *)
(* the cache and never, after a failure, the server's own credential.      *)
OwnTokenOnly ==
    \A c \in Calls : \A i \in DOMAIN call[c].sent :
        call[c].srv.auth \in Flows =>
            LET t == call[c].sent[i] IN
            /\ t # Service
            /\ t.user = call[c].who /\ t.aud = call[c].srv.aud /\ t.flow = call[c].srv.auth

(* A backend's 401 costs one more attempt, never two, and the second one   *)
(* does not present the rejected token again, even when other calls of the *)
(* same user fill and empty the cache meanwhile.                           *)
RetrySendsAnother ==
    \A c \in Calls :
        /\ Len(call[c].sent) \leq 2
        /\ Len(call[c].sent) = 2 => call[c].sent[1] # call[c].sent[2]

(* A token taken from the cache is more than the margin away from its own  *)
(* expiry and from the end of the session it was exchanged in.             *)
ReusedTokenLive ==
    [][\A c \in Calls :
          Len(call'[c].sent) > Len(call[c].sent) /\ issued' = issued =>
             LET t == call'[c].sent[Len(call'[c].sent)] IN
             t # Service => t.exp - now > Margin /\ t.session - now > Margin]_vars

(* The cache holds at most max_entries tokens, and its order lists exactly *)
(* the keys that have one, each once.                                      *)
CacheBounded ==
    /\ Len(order) <= MaxEntries
    /\ \A k \in Key : store[k] # None <=> \E i \in DOMAIN order : order[i] = k
    /\ \A i, j \in DOMAIN order : order[i] = order[j] => i = j
=============================================================================
