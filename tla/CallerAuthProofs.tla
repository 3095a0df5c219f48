-------------------------- MODULE CallerAuthProofs --------------------------
(***************************************************************************)
(* Proofs about CallerAuth, for any number of keys, requests, callers and  *)
(* any refresh interval: who is served was entitled to it, the issuer is   *)
(* never asked more than twice in an interval, and an outage changes no    *)
(* cached key.                                                             *)
(***************************************************************************)
EXTENDS CallerAuth, FiniteSetTheorems, TLAPS

(* Mode, key set and history have their types. *)
KeysTyped ==
    /\ published \subseteq Kids /\ keys \subseteq Kids
    /\ attempt \in Ages /\ rotation \in Ages
    /\ last \in 0 .. Interval /\ previous \in 0 .. Interval

RequestsTyped ==
    /\ lockq \in Seq(Requests)
    /\ req \in [Requests -> {NoToken} \cup Request]

(* A request reached its second leg with a token one of the issuer's keys  *)
(* signed.                                                                 *)
SecondLegs ==
    \A r \in Requests : req[r] # NoToken /\ req[r].leg = "assertion" => req[r].call.tok.by \in Kids

AtFetch(r) == req[r] # NoToken /\ req[r].at = "fetch"

(* Whoever fetches holds the cache's lock. *)
FetcherHolds == \A r \in Requests : AtFetch(r) => lockq # <<>> /\ Head(lockq) = r

Fetching == \E r \in Requests : AtFetch(r)

(* The history of fetches against the two time stamps.  Stamps are set at  *)
(* the end of a fetch, so a stamp is never older than the last fetch's     *)
(* start.  Without a rotation refresh so far, the last fetch but one is    *)
(* old: the fetches that found no key were an interval apart.              *)
FetchHistory ==
    /\ previous >= last
    /\ attempt = Never /\ ~Fetching => last = Interval
    /\ attempt # Never /\ ~Fetching => attempt <= last
    /\ rotation # Never => keys # {}
    /\ rotation # Never /\ ~Fetching => rotation = attempt
    /\ rotation = Never /\ (keys = {} \/ ~Fetching) => previous = Interval

(* The inductive invariant. *)
AuthInv ==
    KeysTyped /\ RequestsTyped /\ SecondLegs /\ FetcherHolds /\ FetchHistory /\ ServedEntitled

-----------------------------------------------------------------------------
(* Keys *)

(* _lookup returns a key of the set, or none. *)
LEMMA LookupFinds ==
  ASSUME NEW ks, NEW kid
  PROVE  Lookup(ks, kid) \in ks \cup {NoKey}
  <1>1. CASE kid # NoKid
    BY <1>1 DEF Lookup
  <1>2. CASE kid = NoKid /\ Cardinality(ks) = 1
    <2>1. ks # {}
      BY <1>2, FS_EmptySet
    <2>2. (CHOOSE k \in ks : TRUE) \in ks
      BY <2>1
    <2> QED
      BY <1>2, <2>2 DEF Lookup
  <1>3. CASE kid = NoKid /\ Cardinality(ks) # 1
    BY <1>3 DEF Lookup
  <1> QED
    BY <1>1, <1>2, <1>3

(* A refresh leaves a set of the issuer's keys. *)
LEMMA RefreshTyped ==
  ASSUME NEW document \in SUBSET Kids, NEW cached \in SUBSET Kids
  PROVE  Parsed(document, cached) \in SUBSET Kids
  BY DEF Parsed

-----------------------------------------------------------------------------
(* Only a fetch that gets a usable document changes the cached keys. *)
THEOREM OutageChangesNoKey == Spec => OutageKeepsKeys
  <1>1. ASSUME [Next]_vars PROVE [keys' # keys => up /\ keys' = published /\ keys' # {}]_keys
    <2>1. CASE \E r \in Requests : EndFetch(r)
      BY <2>1 DEF EndFetch, Parsed
    <2>2. CASE keys' = keys
      BY <2>2
    <2> QED
      BY <1>1, <2>1, <2>2
      DEF Next, Presents, Arrive, ArriveBare, ArriveBasic, KeyStep, CachedKey, StartFetch, Expire,
          Tick, Rotate, Outage, vars
  <1> QED
    BY <1>1, PTL DEF Spec, OutageKeepsKeys

-----------------------------------------------------------------------------
(* A request with its key *)

(* Under auth.type jwt a 200 means the admin scope or the server's own. *)
LEMMA AnswerEntitles ==
  ASSUME mode = "jwt", NEW p, NEW target, Answer(p, target) = "200"
  PROVE  AdminScope \in p.scopes \/ (target # Admin /\ ScopeOf[target] \in p.scopes)
  BY DEF Answer, MayCall, IsAdmin, Enforced

(* key_for has returned, and the request is answered or goes on to its     *)
(* identity assertion.                                                     *)
LEMMA WithKeyKeeps ==
  ASSUME RequestsTyped, SecondLegs, FetcherHolds, ServedEntitled, mode' = mode,
         NEW r \in Requests, NEW key \in Kids \cup {NoKey},
         req[r] # NoToken, lockq # <<>>, Head(lockq) = r, WithKey(r, key)
  PROVE  RequestsTyped' /\ SecondLegs' /\ FetcherHolds' /\ ~Fetching' /\ ServedEntitled'
  <1> DEFINE c == req[r].call
  <1>1. /\ req[r] \in Request /\ c \in Call /\ c.tok \in Token /\ c.asr \in {NoToken} \cup Token
        /\ lockq \in Seq(Requests) /\ Tail(lockq) \in Seq(Requests)
    BY DEF RequestsTyped, Request, Call
  <1>2. \A x \in Requests : x # r => ~AtFetch(x)
    BY DEF FetcherHolds
  <1>3. ASSUME Done(r)
        PROVE  RequestsTyped' /\ SecondLegs' /\ FetcherHolds' /\ ~Fetching'
    <2>1. /\ req' = [req EXCEPT ![r] = NoToken] /\ lockq' = Tail(lockq)
      BY <1>3 DEF Done
    <2>2. RequestsTyped'
      BY <1>1, <2>1 DEF RequestsTyped
    <2>3. /\ req'[r] = NoToken /\ \A x \in Requests : x # r => req'[x] = req[x]
      BY <2>1 DEF RequestsTyped
    <2>4. \A x \in Requests : ~AtFetch(x)'
      BY <1>2, <2>3 DEF AtFetch
    <2> QED
      BY <2>2, <2>3, <2>4 DEF SecondLegs, FetcherHolds, Fetching
  <1>4. ASSUME Accepts(c.tok, key) PROVE c.tok.by \in Kids
    BY <1>4 DEF Accepts, Verifies
  <1>5. CASE req[r].leg = "token" /\ ~Accepts(c.tok, key)
    <2>1. Done(r) /\ reply' = [code |-> "401", who |-> NoToken, call |-> c]
      BY <1>5, CallerAssumption DEF WithKey, Unauthorized
    <2>2. ServedEntitled'
      BY <2>1 DEF ServedEntitled
    <2> QED
      BY <1>3, <2>1, <2>2
  <1>6. ASSUME NEW id, Done(r), c.tok.by \in Kids,
               Answered(PrincipalOf(c.tok, id), c.target, c),
               id # NoToken => id.by \in Kids /\ id.sub = c.tok.sub
        PROVE  RequestsTyped' /\ SecondLegs' /\ FetcherHolds' /\ ~Fetching' /\ ServedEntitled'
    <2> DEFINE p == PrincipalOf(c.tok, id)
    <2>1. p.sub = c.tok.sub /\ p.scopes = c.tok.scopes /\ p.id = id
      BY DEF PrincipalOf
    <2>2. reply' = [code |-> Answer(p, c.target), who |-> p, call |-> c]
      BY <1>6 DEF Answered
    <2>3. /\ reply'.code = Answer(p, c.target) /\ reply'.who = p /\ reply'.call = c
      BY <2>2
    <2>4. ASSUME mode = "jwt", Answer(p, c.target) = "200"
          PROVE  AdminScope \in p.scopes \/ (c.target # Admin /\ ScopeOf[c.target] \in p.scopes)
      BY <2>4, AnswerEntitles
    <2> HIDE DEF p
    <2>5. ServedEntitled'
      BY <1>6, <2>1, <2>3, <2>4 DEF ServedEntitled
    <2> QED
      BY <1>3, <1>6, <2>5
  <1>7. CASE req[r].leg = "token" /\ Accepts(c.tok, key) /\ c.asr = NoToken
    <2>1. Done(r) /\ Answered(PrincipalOf(c.tok, NoToken), c.target, c)
      BY <1>7 DEF WithKey
    <2> QED
      BY <1>4, <1>6, <1>7, <2>1
  <1>8. CASE req[r].leg = "token" /\ Accepts(c.tok, key) /\ c.asr # NoToken
    <2>1. /\ req' = [req EXCEPT ![r].leg = "assertion", ![r].at = "key"]
          /\ lockq' = Append(Tail(lockq), r) /\ reply' = reply
      BY <1>8 DEF WithKey
    <2>2. /\ req'[r] = [req[r] EXCEPT !.leg = "assertion", !.at = "key"]
          /\ req'[r] \in Request /\ req'[r].at = "key" /\ req'[r].call = c
          /\ \A x \in Requests : x # r => req'[x] = req[x]
      BY <1>1, <2>1 DEF RequestsTyped, Request
    <2>3. RequestsTyped'
      BY <1>1, <2>1, <2>2 DEF RequestsTyped
    <2>4. \A x \in Requests : ~AtFetch(x)'
      BY <1>2, <2>2 DEF AtFetch
    <2>5. SecondLegs'
      BY <1>4, <1>8, <2>2 DEF SecondLegs
    <2> QED
      BY <2>1, <2>3, <2>4, <2>5 DEF FetcherHolds, Fetching, ServedEntitled
  <1>9. CASE req[r].leg = "assertion"
    <2> DEFINE id == OwnAssertion(c.tok, c.asr, key)
    <2>1. Done(r) /\ Answered(PrincipalOf(c.tok, id), c.target, c)
      BY <1>9 DEF WithKey
    <2>2. c.tok.by \in Kids
      BY <1>9 DEF SecondLegs
    <2>3. id # NoToken => id.by \in Kids /\ id.sub = c.tok.sub
      BY DEF OwnAssertion, Verifies
    <2> HIDE DEF id
    <2> QED
      BY <1>6, <2>1, <2>2, <2>3
  <1> QED
    BY <1>1, <1>5, <1>7, <1>8, <1>9 DEF Request

-----------------------------------------------------------------------------
(* The steps *)

(* A fresh process has no key, no request and no fetch behind it. *)
LEMMA InitAuthInv == Init => AuthInv
  <1> SUFFICES ASSUME Init PROVE AuthInv
    OBVIOUS
  <1>1. KeysTyped /\ RequestsTyped
    BY CallerAssumption DEF Init, KeysTyped, RequestsTyped, Ages
  <1>2. \A r \in Requests : req[r] = NoToken
    BY DEF Init
  <1>3. SecondLegs /\ FetcherHolds /\ ~Fetching
    BY <1>2 DEF SecondLegs, FetcherHolds, Fetching, AtFetch
  <1>4. FetchHistory
    BY <1>3, CallerAssumption DEF Init, FetchHistory
  <1>5. ServedEntitled
    BY DEF Init, ServedEntitled
  <1> QED
    BY <1>1, <1>3, <1>4, <1>5 DEF AuthInv

(* Steps that leave the key cache, its lock and the requests alone. *)
LEMMA AuthStays ==
  ASSUME KeysTyped, RequestsTyped, SecondLegs, FetcherHolds, FetchHistory,
         UNCHANGED <<keys, attempt, rotation, lockq, req, last, previous>>, published' \subseteq Kids
  PROVE  KeysTyped' /\ RequestsTyped' /\ SecondLegs' /\ FetcherHolds' /\ FetchHistory'
  <1>1. Fetching' <=> Fetching
    BY DEF Fetching, AtFetch
  <1>2. KeysTyped' /\ RequestsTyped' /\ SecondLegs' /\ FetcherHolds'
    BY DEF KeysTyped, RequestsTyped, SecondLegs, FetcherHolds, AtFetch
  <1> QED
    BY <1>1, <1>2 DEF FetchHistory

(* A request that keeps its place in the cache's queue, or joins it. *)
LEMMA QueueJoined ==
  ASSUME RequestsTyped, SecondLegs, FetcherHolds, NEW r \in Requests, NEW call \in Call,
         req[r] = NoToken,
         req' = [req EXCEPT ![r] = [at |-> "key", leg |-> "token", call |-> call]],
         lockq' = Append(lockq, r)
  PROVE  RequestsTyped' /\ SecondLegs' /\ FetcherHolds' /\ (Fetching' <=> Fetching)
  <1>1. /\ req'[r] = [at |-> "key", leg |-> "token", call |-> call] /\ req'[r] \in Request
        /\ req'[r].at = "key" /\ req'[r].leg = "token"
        /\ \A x \in Requests : x # r => req'[x] = req[x]
    BY DEF RequestsTyped, Request
  <1>2. RequestsTyped'
    BY <1>1 DEF RequestsTyped
  <1>3. \A x \in Requests : AtFetch(x)' <=> AtFetch(x)
    BY <1>1 DEF AtFetch
  <1>4. lockq # <<>> => lockq' # <<>> /\ Head(lockq') = Head(lockq)
    BY DEF RequestsTyped
  <1> QED
    BY <1>1, <1>2, <1>3, <1>4 DEF SecondLegs, FetcherHolds, Fetching

(* While no fetch is under way, one may start only an interval after the   *)
(* last but one; if there is no key, only an interval after the last.      *)
LEMMA RefreshIsLate ==
  ASSUME KeysTyped, FetchHistory, ~Fetching, MayRefresh
  PROVE  previous = Interval /\ (keys = {} => last = Interval)
  BY CallerAssumption DEF KeysTyped, FetchHistory, MayRefresh, Ages

(* The steps of a request in the key cache. *)
LEMMA KeyStepKeeps ==
  ASSUME AuthInv, NEW r \in Requests, KeyStep(r)
  PROVE  AuthInv'
  <1>0. KeysTyped /\ RequestsTyped /\ SecondLegs /\ FetcherHolds /\ FetchHistory /\ ServedEntitled
    BY DEF AuthInv
  <1>1. CASE CachedKey(r)
    <2>1. /\ req[r] # NoToken /\ req[r].at = "key" /\ lockq # <<>> /\ Head(lockq) = r
      BY <1>1 DEF CachedKey, Holds
    <2>2. ~Fetching
      BY <1>0, <2>1 DEF Fetching, FetcherHolds, AtFetch
    <2>3. Lookup(keys, Wanted(r)) \in Kids \cup {NoKey}
      BY <1>0, LookupFinds DEF KeysTyped
    <2>4. RequestsTyped' /\ SecondLegs' /\ FetcherHolds' /\ ~Fetching' /\ ServedEntitled'
      BY <1>0, <1>1, <2>1, <2>3, WithKeyKeeps DEF CachedKey
    <2> QED
      BY <1>0, <1>1, <2>2, <2>4 DEF CachedKey, AuthInv, KeysTyped, FetchHistory
  <1>2. CASE StartFetch(r)
    <2>1. /\ req[r] # NoToken /\ req[r].at = "key" /\ lockq # <<>> /\ Head(lockq) = r
          /\ MayRefresh /\ req' = [req EXCEPT ![r].at = "fetch"]
          /\ last' = 0 /\ previous' = last
          /\ UNCHANGED <<mode, published, up, keys, attempt, rotation, lockq, reply>>
      BY <1>2 DEF StartFetch, Holds
    <2>2. ~Fetching
      BY <1>0, <2>1 DEF Fetching, FetcherHolds, AtFetch
    <2>3. keys = {} => last = Interval
      BY <1>0, <2>1, <2>2, RefreshIsLate
    <2>4. /\ req[r] \in Request /\ req'[r] \in Request /\ req'[r] # NoToken
          /\ req'[r].at = "fetch" /\ req'[r].leg = req[r].leg /\ req'[r].call = req[r].call
          /\ \A x \in Requests : x # r => req'[x] = req[x]
      BY <1>0, <2>1, CallerAssumption DEF RequestsTyped, Request
    <2>5. RequestsTyped'
      BY <1>0, <2>1, <2>4 DEF RequestsTyped
    <2>6. SecondLegs'
      BY <1>0, <2>1, <2>4 DEF SecondLegs
    <2>7. FetcherHolds' /\ Fetching'
      BY <2>1, <2>2, <2>4 DEF FetcherHolds, Fetching, AtFetch
    <2>8. FetchHistory'
      BY <1>0, <2>1, <2>3, <2>7, CallerAssumption DEF FetchHistory, KeysTyped
    <2>9. KeysTyped' /\ ServedEntitled'
      BY <1>0, <2>1, CallerAssumption DEF KeysTyped, ServedEntitled
    <2> QED
      BY <2>5, <2>6, <2>7, <2>8, <2>9 DEF AuthInv
  <1>3. CASE EndFetch(r)
    <2>1. /\ req[r] # NoToken /\ req[r].at = "fetch" /\ lockq # <<>> /\ Head(lockq) = r
          /\ keys' = IF up THEN Parsed(published, keys) ELSE keys
          /\ attempt' = 0 /\ rotation' = IF keys # {} THEN 0 ELSE rotation
          /\ WithKey(r, Lookup(keys', Wanted(r)))
          /\ UNCHANGED <<mode, published, up, last, previous>>
      BY <1>3 DEF EndFetch, Holds
    <2>2. keys' \subseteq Kids /\ (keys # {} => keys' # {})
      BY <1>0, <2>1 DEF KeysTyped, Parsed
    <2>3. Lookup(keys', Wanted(r)) \in Kids \cup {NoKey}
      BY <2>2, LookupFinds
    <2>4. RequestsTyped' /\ SecondLegs' /\ FetcherHolds' /\ ~Fetching' /\ ServedEntitled'
      BY <1>0, <2>1, <2>3, WithKeyKeeps
    <2>5. KeysTyped'
      BY <1>0, <2>1, <2>2, CallerAssumption DEF KeysTyped, Ages
    <2>6. FetchHistory'
      BY <1>0, <2>1, <2>2, <2>4, CallerAssumption DEF FetchHistory, KeysTyped
    <2> QED
      BY <2>4, <2>5, <2>6 DEF AuthInv
  <1> QED
    BY <1>1, <1>2, <1>3 DEF KeyStep

(* Time passes for all stamps alike. *)
LEMMA TickKeeps ==
  ASSUME AuthInv, Tick
  PROVE  AuthInv'
  <1>0. KeysTyped /\ RequestsTyped /\ SecondLegs /\ FetcherHolds /\ FetchHistory /\ ServedEntitled
    BY DEF AuthInv
  <1>1. /\ attempt' = Older(attempt) /\ rotation' = Older(rotation)
        /\ last' = Older(last) /\ previous' = Older(previous)
        /\ UNCHANGED <<mode, published, up, keys, lockq, req, reply>>
    BY DEF Tick
  <1>2. Fetching' <=> Fetching
    BY <1>1 DEF Fetching, AtFetch
  <1>3. KeysTyped'
    BY <1>0, <1>1, CallerAssumption DEF KeysTyped, Ages, Older
  <1>4. FetchHistory'
    BY <1>0, <1>1, <1>2, CallerAssumption DEF FetchHistory, KeysTyped, Ages, Older
  <1> QED
    BY <1>0, <1>1, <1>3, <1>4
    DEF AuthInv, RequestsTyped, SecondLegs, FetcherHolds, AtFetch, ServedEntitled

(* A token that expires while its request waits. *)
LEMMA ExpireKeeps ==
  ASSUME AuthInv, NEW r \in Requests, Expire(r)
  PROVE  AuthInv'
  <1>0. KeysTyped /\ RequestsTyped /\ SecondLegs /\ FetcherHolds /\ FetchHistory /\ ServedEntitled
    BY DEF AuthInv
  <1>1. /\ req[r] # NoToken /\ req[r].leg = "token"
        /\ req' = [req EXCEPT ![r].call.tok.valid = FALSE]
        /\ UNCHANGED <<mode, published, up, keys, attempt, rotation, lockq, reply, last, previous>>
    BY DEF Expire
  <1>2. req[r] \in Request /\ req[r].call \in Call /\ req[r].call.tok \in Token
    BY <1>0, <1>1 DEF RequestsTyped, Request, Call
  <1>3. [req[r].call.tok EXCEPT !.valid = FALSE] \in Token
    BY <1>2 DEF Token
  <1>4. [req[r].call EXCEPT !.tok.valid = FALSE] \in Call
    BY <1>2, <1>3 DEF Call
  <1>5. /\ req'[r] = [req[r] EXCEPT !.call.tok.valid = FALSE]
        /\ \A x \in Requests : x # r => req'[x] = req[x]
    BY <1>0, <1>1 DEF RequestsTyped
  <1>6. req'[r] \in Request /\ req'[r].at = req[r].at /\ req'[r].leg = "token"
    <2>1. PICK c \in Call : req'[r] = [req[r] EXCEPT !.call = c]
      BY <1>4, <1>5
    <2>2. req[r].at \in {"key", "fetch"}
      BY <1>2 DEF Request
    <2>3. req'[r] = [at |-> req[r].at, leg |-> req[r].leg, call |-> c]
      BY <1>2, <2>1 DEF Request
    <2> QED
      BY <1>1, <2>2, <2>3 DEF Request
  <1>7. req'[r] # NoToken
    BY <1>6, CallerAssumption
  <1>8. RequestsTyped'
    BY <1>0, <1>1, <1>6 DEF RequestsTyped
  <1>9. \A x \in Requests : AtFetch(x)' <=> AtFetch(x)
    BY <1>1, <1>5, <1>6, <1>7 DEF AtFetch
  <1>10. SecondLegs' /\ FetcherHolds' /\ (Fetching' <=> Fetching)
    BY <1>0, <1>1, <1>5, <1>6, <1>9 DEF SecondLegs, FetcherHolds, Fetching
  <1> QED
    BY <1>0, <1>1, <1>8, <1>10 DEF AuthInv, KeysTyped, FetchHistory, ServedEntitled

(* Every step keeps the invariant. *)
LEMMA StepAuthInv == AuthInv /\ [Next]_vars => AuthInv'
  <1> SUFFICES ASSUME AuthInv, [Next]_vars PROVE AuthInv'
    OBVIOUS
  <1>0. KeysTyped /\ RequestsTyped /\ SecondLegs /\ FetcherHolds /\ FetchHistory /\ ServedEntitled
    BY DEF AuthInv
  <1>1. ASSUME NEW call \in Calls, NEW r \in Requests, Arrive(r, call) PROVE AuthInv'
    <2>1. call \in Call
      BY CallerAssumption
    <2>2. RequestsTyped' /\ SecondLegs' /\ FetcherHolds' /\ (Fetching' <=> Fetching)
      BY <1>0, <1>1, <2>1, QueueJoined DEF Arrive
    <2> QED
      BY <1>0, <1>1, <2>2 DEF Arrive, AuthInv, KeysTyped, FetchHistory, ServedEntitled
  <1>2. ASSUME NEW target \in Targets, ArriveBare(target) PROVE AuthInv'
    <2>1. KeysTyped' /\ RequestsTyped' /\ SecondLegs' /\ FetcherHolds' /\ FetchHistory'
      BY <1>0, <1>2, AuthStays DEF ArriveBare, KeysTyped
    <2>2. mode = "jwt" => reply' = [code |-> "401", who |-> NoToken, call |-> NoToken]
      BY <1>2 DEF ArriveBare, Unauthorized
    <2>3. ServedEntitled'
      BY <1>2, <2>2 DEF ArriveBare, ServedEntitled
    <2> QED
      BY <2>1, <2>3 DEF AuthInv
  <1>3. ASSUME NEW target \in Targets, NEW u \in Subjects, ArriveBasic(target, u) PROVE AuthInv'
    <2>1. KeysTyped' /\ RequestsTyped' /\ SecondLegs' /\ FetcherHolds' /\ FetchHistory'
      BY <1>0, <1>3, AuthStays DEF ArriveBasic, KeysTyped
    <2>2. ServedEntitled'
      BY <1>3 DEF ArriveBasic, ServedEntitled
    <2> QED
      BY <2>1, <2>2 DEF AuthInv
  <1>4. CASE Outage \/ (\E ks \in SUBSET Kids : Rotate(ks)) \/ UNCHANGED vars
    <2>1. KeysTyped' /\ RequestsTyped' /\ SecondLegs' /\ FetcherHolds' /\ FetchHistory'
      BY <1>0, <1>4, AuthStays DEF Outage, Rotate, vars, KeysTyped
    <2>2. ServedEntitled'
      BY <1>0, <1>4 DEF Outage, Rotate, vars, ServedEntitled
    <2> QED
      BY <2>1, <2>2 DEF AuthInv
  <1> QED
    BY <1>1, <1>2, <1>3, <1>4, KeyStepKeeps, ExpireKeeps, TickKeeps DEF Next, Presents

(* The inductive invariant of the key cache and its callers: whoever       *)
(* fetches holds the lock, the stamps tell how old the last two fetches    *)
(* are, a second leg belongs to a verified token.                          *)
THEOREM AuthInvariant == Spec => []AuthInv
  BY InitAuthInv, StepAuthInv, PTL DEF Spec

(* Whoever is served under auth.type jwt was entitled, and acts as itself. *)
THEOREM OnlyTheEntitled == Spec => []ServedEntitled
  <1>1. AuthInv => ServedEntitled
    BY DEF AuthInv
  <1> QED
    BY <1>1, AuthInvariant, PTL

(* The issuer is asked at most twice in any refresh interval. *)
THEOREM NoAmplifier == Spec => FetchesRateLimited
  <1>1. AuthInv => ((\E r \in Requests : StartFetch(r)) => previous = Interval)
    <2> SUFFICES ASSUME AuthInv, NEW r \in Requests, StartFetch(r) PROVE previous = Interval
      OBVIOUS
    <2>1. ~Fetching
      BY DEF AuthInv, StartFetch, Holds, Fetching, FetcherHolds, AtFetch
    <2> QED
      BY <2>1, RefreshIsLate DEF AuthInv, StartFetch
  <1>2. AuthInv => [(\E r \in Requests : StartFetch(r)) => previous = Interval]_vars
    BY <1>1
  <1> QED
    BY <1>2, AuthInvariant, PTL DEF FetchesRateLimited
=============================================================================
