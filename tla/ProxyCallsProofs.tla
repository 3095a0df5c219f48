-------------------------- MODULE ProxyCallsProofs --------------------------
(***************************************************************************)
(* For any number of calls, users and records, and any cache size: a call  *)
(* sends only tokens of its own caller, its retry sends another token, a   *)
(* token out of the cache is live, and the cache keeps to its size.        *)
(*                                                                         *)
(* None of these is inductive.  A call's token comes out of the cache,     *)
(* so the cache must hold each token under its own key (StoreOK); and the  *)
(* rejected token must be absent from the whole cache until the second     *)
(* token is chosen, although other calls fill it meanwhile (Retrying): it  *)
(* was only ever under the key that was removed, and what is stored later  *)
(* is new.                                                                 *)
(***************************************************************************)
EXTENDS ProxyCalls, TLAPS, SequenceTheorems

(* The cache st when n exchanges were answered. *)
StoreOK(st, n) ==
    /\ st \in [Key -> Entry \cup {None}]
    /\ \A k \in Key : st[k] # None =>
        /\ st[k].tok.user = k.user /\ st[k].tok.aud = k.aud /\ st[k].tok.flow = k.flow
        /\ st[k].exp <= st[k].tok.exp /\ st[k].exp <= st[k].tok.session
        /\ st[k].tok.id <= n

(* What a call knows and has sent at each of its waiting points. *)
Placed(x) ==
    /\ x.at \in {"idle", "body", "local"} => x.sent = <<>>
    /\ x.at \notin {"idle", "done"} => x.srv \in Conf
    /\ x.at \in {"actor", "exchange"} =>
        x.who \in Users /\ x.srv.auth \in Flows /\ Len(x.sent) <= 1
    /\ x.at = "send" => Len(x.sent) \in {1, 2}
    /\ x.at = "send" /\ x.srv.auth \in Flows => x.who \in Users

Own(x) ==
    \A i \in DOMAIN x.sent : x.srv.auth \in Flows =>
        /\ x.sent[i] # Service
        /\ x.sent[i].user = x.who /\ x.sent[i].aud = x.srv.aud /\ x.sent[i].flow = x.srv.auth

(* The tokens of a call are among the n issued, and differ. *)
Sent(x, n) ==
    /\ \A i \in DOMAIN x.sent : x.sent[i] # Service => x.sent[i].id <= n
    /\ Len(x.sent) <= 2
    /\ Len(x.sent) = 2 => x.sent[1] # x.sent[2]

Retrying(x, st) ==
    x.at \in {"actor", "exchange"} /\ Len(x.sent) = 1 =>
        \A k \in Key : st[k] # None => st[k].tok # x.sent[1]

CallOK(x, st, n) ==
    x \in Call /\ Placed(x) /\ Own(x) /\ Sent(x, n) /\ Retrying(x, st)

ProxyInv ==
    /\ now \in Int /\ issued \in Nat
    /\ conf \in Conf \cup {None}
    /\ StoreOK(store, issued)
    /\ call \in [Calls -> Call]
    /\ \A c \in Calls : CallOK(call[c], store, issued)

(* The cache only loses entries or gains tokens newer than n. *)
OnlyNew(st, st2, n) ==
    \A k \in Key : st2[k] # None => st2[k] = st[k] \/ st2[k].tok.id > n

(* A step of one call keeps what holds of the others. *)
LEMMA OneCallMoves ==
    ASSUME ProxyInv, NEW c \in Calls, NEW x, Goes(c, x),
           issued' \in Nat, issued <= issued', now' \in Int, conf' \in Conf \cup {None},
           StoreOK(store', issued'), CallOK(x, store', issued'),
           OnlyNew(store, store', issued)
    PROVE  ProxyInv'
<1>1. call' \in [Calls -> Call] /\ call'[c] = x /\ \A d \in Calls \ {c} : call'[d] = call[d]
  BY DEF Goes, ProxyInv, CallOK
<1>2. ASSUME NEW d \in Calls, d # c PROVE CallOK(call[d], store', issued')
  <2>. DEFINE y == call[d]
  <2>1. y \in Call /\ Placed(y) /\ Own(y) /\ Sent(y, issued) /\ Retrying(y, store)
    BY DEF ProxyInv, CallOK
  <2>2. y.sent \in Seq(Token \cup {Service})
    BY <2>1 DEF Call
  <2>3. ASSUME NEW i \in DOMAIN y.sent, y.sent[i] # Service PROVE y.sent[i].id \in Nat
    BY <2>2, <2>3 DEF Token
  <2>4. Sent(y, issued')
    BY <2>1, <2>3 DEF Sent, ProxyInv
  <2>5. Retrying(y, store')
    <3>. SUFFICES ASSUME y.at \in {"actor", "exchange"}, Len(y.sent) = 1,
                         NEW k \in Key, store'[k] # None
                  PROVE  store'[k].tok # y.sent[1]
      BY DEF Retrying
    <3>1. CASE store'[k] = store[k]
      BY <3>1, <2>1 DEF Retrying
    <3>2. CASE store'[k].tok.id > issued
      <4>1. 1 \in DOMAIN y.sent
        BY <2>2
      <4>2. y.sent[1] # Service
        BY <4>1, <2>1 DEF Own, Placed
      <4>3. y.sent[1].id <= issued /\ y.sent[1].id \in Nat
        BY <4>1, <4>2, <2>1, <2>3 DEF Sent
      <4>. QED
        BY <3>2, <4>3 DEF ProxyInv
    <3>. QED
      BY <3>1, <3>2 DEF OnlyNew
  <2>. QED
    BY <2>1, <2>4, <2>5 DEF CallOK
<1>. QED
  BY <1>1, <1>2 DEF ProxyInv

(* A step that only moves one call. *)
LEMMA OnlyCallMoves ==
    ASSUME ProxyInv, NEW c \in Calls, NEW x, Goes(c, x), CallOK(x, store, issued),
           UNCHANGED <<now, conf, store, order, issued>>
    PROVE  ProxyInv'
<1>1. issued' = issued /\ now' = now /\ conf' = conf /\ store' = store
  OBVIOUS
<1>2. OnlyNew(store, store', issued)
  BY <1>1 DEF OnlyNew
<1>3. StoreOK(store', issued') /\ CallOK(x, store', issued')
  BY <1>1 DEF ProxyInv
<1>4. issued <= issued' /\ issued' \in Nat /\ now' \in Int /\ conf' \in Conf \cup {None}
  BY <1>1 DEF ProxyInv
<1>. QED
  BY <1>2, <1>3, <1>4, OneCallMoves

(* A call that ends, or raises, keeps what it sent. *)
LEMMA EndingIsOK ==
    ASSUME ProxyInv, NEW c \in Calls, NEW a \in {"done", "raised"},
           a = "raised" => call[c].srv \in Conf
    PROVE  CallOK([call[c] EXCEPT !.at = a], store, issued)
<1>. DEFINE x == call[c]
            y == [call[c] EXCEPT !.at = a]
<1>1. CallOK(x, store, issued)
  BY DEF ProxyInv
<1>2. x \in Call
  BY <1>1 DEF CallOK
<1>3. y \in Call /\ y.at = a /\ y.who = x.who /\ y.srv = x.srv /\ y.sent = x.sent
  BY <1>2 DEF Call
<1>4. Placed(y)
  BY <1>3 DEF Placed
<1>5. Own(y) /\ Sent(y, issued)
  BY <1>1, <1>3 DEF CallOK, Own, Sent
<1>6. Retrying(y, store)
  BY <1>3 DEF Retrying
<1>. QED
  BY <1>3, <1>4, <1>5, <1>6 DEF CallOK

LEMMA Ending ==
    ASSUME ProxyInv, NEW c \in Calls, Ends(c), UNCHANGED <<now, conf, store, order, issued>>
    PROVE  ProxyInv'
<1>1. CallOK([call[c] EXCEPT !.at = "done"], store, issued)
  BY EndingIsOK
<1>. QED
  BY <1>1, OnlyCallMoves DEF Ends

(* What holds of the copy, the caller and the sent tokens of a call.       *)
LEMMA OfCall ==
    ASSUME ProxyInv, NEW c \in Calls
    PROVE  /\ call[c] \in Call /\ Placed(call[c]) /\ Own(call[c])
           /\ Sent(call[c], issued) /\ Retrying(call[c], store)
           /\ call[c].sent \in Seq(Token \cup {Service})
BY DEF ProxyInv, CallOK, Call

(* Arriving. *)
LEMMA ArriveStep ==
    ASSUME ProxyInv, NEW c \in Calls, NEW who \in Users \cup {Nobody}, NEW session \in Sessions,
           Arrive(c, who, session)
    PROVE  ProxyInv'
<1>. USE ProxyAssumption
<1>. DEFINE x == [call[c] EXCEPT !.who = who, !.session = now + session, !.srv = conf]
<1>0. now + session \in Int /\ conf \in Conf \cup {None} /\ call[c].at = "idle"
  BY DEF ProxyInv, Arrive
<1>1. call[c] \in Call /\ call[c].sent = <<>>
  BY <1>0, OfCall DEF Placed
<1>2. x \in Call /\ x.sent = <<>> /\ x.srv = conf
  BY <1>0, <1>1 DEF Call
<1>3. ASSUME NEW y \in Call, y.sent = <<>>, y.srv = conf, y.at \in {"done", "body"},
             y.at = "body" => conf # None
      PROVE  CallOK(y, store, issued)
  <2>1. Placed(y)
    BY <1>0, <1>3 DEF Placed
  <2>2. Own(y) /\ Sent(y, issued) /\ Retrying(y, store)
    BY <1>3 DEF Own, Sent, Retrying
  <2>. QED
    BY <1>3, <2>1, <2>2 DEF CallOK
<1>4. CASE Goes(c, [x EXCEPT !.at = "done"])
  <2>1. CallOK([x EXCEPT !.at = "done"], store, issued)
    <3>1. [x EXCEPT !.at = "done"] \in Call
      BY <1>2 DEF Call
    <3>. QED
      BY <3>1, <1>2, <1>3 DEF Call
  <2>. QED
    BY <1>4, <2>1, OnlyCallMoves DEF Arrive
<1>5. CASE conf # None /\ Goes(c, [x EXCEPT !.at = "body"])
  <2>1. CallOK([x EXCEPT !.at = "body"], store, issued)
    <3>1. [x EXCEPT !.at = "body"] \in Call
      BY <1>2 DEF Call
    <3>. QED
      BY <3>1, <1>2, <1>3, <1>5 DEF Call
  <2>. QED
    BY <1>5, <2>1, OnlyCallMoves DEF Arrive
<1>. QED
  BY <1>4, <1>5 DEF Arrive

(* A call that sends credential t, in the cache st after n exchanges. *)
LEMMA Sending ==
    ASSUME ProxyInv, NEW c \in Calls, NEW t \in Token \cup {Service}, NEW st, NEW n \in Nat,
           call[c].at \in {"body", "actor", "exchange"},
           issued <= n, t # Service => t.id <= n,
           call[c].srv.auth \in Flows =>
              /\ call[c].who \in Users /\ t # Service
              /\ t.user = call[c].who /\ t.aud = call[c].srv.aud /\ t.flow = call[c].srv.auth,
           Len(call[c].sent) = 1 => t # call[c].sent[1]
    PROVE  CallOK([call[c] EXCEPT !.at = "send", !.sent = Append(@, t)], st, n)
<1>. USE ProxyAssumption
<1>. DEFINE x == call[c]
            y == [call[c] EXCEPT !.at = "send", !.sent = Append(@, t)]
            T == Token \cup {Service}
<1>1. x \in Call /\ Placed(x) /\ Own(x) /\ Sent(x, issued) /\ x.sent \in Seq(T)
  BY OfCall
<1>2. x.srv \in Conf /\ Len(x.sent) <= 1
  BY <1>1 DEF Placed
<1>3. /\ Append(x.sent, t) \in Seq(T) /\ Len(Append(x.sent, t)) = Len(x.sent) + 1
      /\ \A i \in 1 .. Len(x.sent) : Append(x.sent, t)[i] = x.sent[i]
      /\ Append(x.sent, t)[Len(x.sent) + 1] = t
      /\ Len(x.sent) \in Nat /\ DOMAIN x.sent = 1 .. Len(x.sent)
      /\ DOMAIN Append(x.sent, t) = 1 .. (Len(x.sent) + 1)
  BY <1>1
<1>4. /\ y \in Call /\ y.at = "send" /\ y.who = x.who /\ y.srv = x.srv
      /\ y.sent = Append(x.sent, t)
  <2>1. y.sent = Append(x.sent, t) /\ y.at = "send"
    BY <1>1 DEF Call
  <2>. QED
    BY <2>1, <1>1, <1>3 DEF Call
<1>. HIDE DEF y
<1>5. Placed(y) /\ Retrying(y, st)
  BY <1>1, <1>2, <1>3, <1>4 DEF Placed, Retrying
<1>6. Own(y)
  <2>. SUFFICES ASSUME NEW i \in 1 .. (Len(x.sent) + 1), x.srv.auth \in Flows
                PROVE  /\ y.sent[i] # Service
                       /\ y.sent[i].user = x.who /\ y.sent[i].aud = x.srv.aud
                       /\ y.sent[i].flow = x.srv.auth
    BY <1>3, <1>4 DEF Own
  <2>1. CASE i \in 1 .. Len(x.sent)
    <3>1. y.sent[i] = x.sent[i] /\ i \in DOMAIN x.sent
      BY <2>1, <1>3, <1>4
    <3>. QED
      BY <3>1, <1>1 DEF Own
  <2>2. CASE i = Len(x.sent) + 1
    BY <2>2, <1>3, <1>4
  <2>. QED
    BY <2>1, <2>2, <1>3
<1>7. Sent(y, n)
  <2>1. ASSUME NEW i \in 1 .. (Len(x.sent) + 1), y.sent[i] # Service PROVE y.sent[i].id <= n
    <3>1. CASE i \in 1 .. Len(x.sent)
      <4>1. y.sent[i] = x.sent[i] /\ i \in DOMAIN x.sent /\ x.sent[i] \in Token
        BY <3>1, <2>1, <1>1, <1>3, <1>4
      <4>2. x.sent[i].id <= issued /\ x.sent[i].id \in Nat
        BY <4>1, <2>1, <1>1 DEF Sent, Token
      <4>. QED
        BY <4>1, <4>2 DEF ProxyInv
    <3>2. CASE i = Len(x.sent) + 1
      <4>1. y.sent[i] = t
        BY <3>2, <1>3, <1>4
      <4>. QED
        BY <4>1, <2>1
    <3>. QED
      BY <3>1, <3>2, <1>3
  <2>2. Len(y.sent) <= 2
    BY <1>2, <1>3, <1>4
  <2>3. Len(y.sent) = 2 => y.sent[1] # y.sent[2]
    <3>. SUFFICES ASSUME Len(y.sent) = 2 PROVE y.sent[1] # y.sent[2]
      OBVIOUS
    <3>1. Len(x.sent) = 1
      <4>1. Len(Append(x.sent, t)) = 2
        BY <1>4
      <4>2. Len(x.sent) + 1 = 2 /\ Len(x.sent) \in Nat
        BY <4>1, <1>3
      <4>3. \A m \in Nat : m + 1 = 2 => m = 1
        OBVIOUS
      <4>. QED
        BY <4>2, <4>3, Zenon
    <3>2. y.sent[1] = x.sent[1] /\ y.sent[2] = t
      BY <3>1, <1>3, <1>4
    <3>. QED
      BY <3>1, <3>2
  <2>4. DOMAIN y.sent = 1 .. (Len(x.sent) + 1)
    BY <1>3, <1>4
  <2>. HIDE DEF x
  <2>. QED
    BY <2>1, <2>2, <2>3, <2>4 DEF Sent
<1>8. CallOK(y, st, n)
  BY <1>4, <1>5, <1>6, <1>7 DEF CallOK
<1>. QED
  BY <1>8 DEF y

(* A call that starts or repeats its way to a token, in the cache st.      *)
LEMMA Waiting ==
    ASSUME ProxyInv, NEW c \in Calls, NEW st, NEW a \in {"actor", "exchange"},
           call[c].at \in {"body", "actor", "send"}, call[c].srv.auth \in Flows,
           call[c].who \in Users, Len(call[c].sent) <= 1,
           Len(call[c].sent) = 1 =>
              \A k \in Key : st[k] # None => st[k].tok # call[c].sent[1]
    PROVE  CallOK([call[c] EXCEPT !.at = a], st, issued)
<1>. DEFINE x == call[c]
            y == [call[c] EXCEPT !.at = a]
<1>1. x \in Call /\ Placed(x) /\ Own(x) /\ Sent(x, issued)
  BY OfCall
<1>2. /\ y \in Call /\ y.at = a /\ y.who = x.who /\ y.srv = x.srv
      /\ y.sent = x.sent
  BY <1>1 DEF Call
<1>. HIDE DEF y
<1>3. Placed(y)
  BY <1>1, <1>2 DEF Placed
<1>4. Own(y) /\ Sent(y, issued) /\ Retrying(y, st)
  BY <1>1, <1>2 DEF Own, Sent, Retrying
<1>5. CallOK(y, st, issued)
  BY <1>2, <1>3, <1>4 DEF CallOK
<1>. QED
  BY <1>5 DEF y

(* The cache without one key. *)
LEMMA RemovedIsOK ==
    ASSUME ProxyInv, NEW k \in Key, Removed(k)
    PROVE  /\ StoreOK(store', issued) /\ OnlyNew(store, store', issued)
           /\ store'[k] = None /\ \A j \in Key : store'[j] # None => store'[j] = store[j]
<1>1. StoreOK(store, issued)
  BY DEF ProxyInv
<1>2. /\ store' \in [Key -> Entry \cup {None}] /\ store'[k] = None
      /\ \A j \in Key : store'[j] # None => store'[j] = store[j]
  BY <1>1 DEF Removed, StoreOK
<1>. QED
  BY <1>1, <1>2 DEF StoreOK, OnlyNew

LEMMA LookupStep ==
    ASSUME ProxyInv, NEW c \in Calls, Lookup(c), UNCHANGED <<now, conf, issued>>,
           call[c].at \in {"body", "actor"}, call[c].srv.auth \in Flows, call[c].who \in Users
    PROVE  ProxyInv'
<1>. USE ProxyAssumption
<1>. DEFINE x == call[c]
            k == KeyOf(x.srv, x.who)
            e == store[k]
<1>1. x \in Call /\ Placed(x) /\ Own(x) /\ Sent(x, issued) /\ Retrying(x, store)
  BY OfCall
<1>2. x.srv \in Conf /\ Len(x.sent) <= 1 /\ (Len(x.sent) = 1 => x.at = "actor")
  BY <1>1 DEF Placed
<1>3. k \in Key /\ k.user = x.who /\ k.aud = x.srv.aud /\ k.flow = x.srv.auth
  BY <1>2 DEF KeyOf, Key, Conf
<1>4. StoreOK(store, issued) /\ now \in Int /\ issued \in Nat /\ conf \in Conf \cup {None}
  BY DEF ProxyInv
<1>5. CASE IsLive(e) /\ Goes(c, [x EXCEPT !.at = "send", !.sent = Append(@, e.tok)]) /\ UNCHANGED store
  <2>. HIDE DEF k
  <2>1. e \in Entry /\ e # None /\ e.tok \in Token
    BY <1>3, <1>4, <1>5 DEF StoreOK, IsLive, Entry
  <2>2. e.tok.user = x.who /\ e.tok.aud = x.srv.aud /\ e.tok.flow = x.srv.auth /\ e.tok.id <= issued
    BY <1>3, <1>4, <2>1 DEF StoreOK
  <2>3. Len(x.sent) = 1 => e.tok # x.sent[1]
    BY <1>1, <1>2, <1>3, <2>1 DEF Retrying
  <2>. HIDE DEF e
  <2>4. CallOK([x EXCEPT !.at = "send", !.sent = Append(@, e.tok)], store, issued)
    <3>1. issued <= issued /\ e.tok \in Token \cup {Service} /\ e.tok # Service
      BY <1>4, <2>1
    <3>. QED
      BY <3>1, <2>2, <2>3, <1>4, Sending
  <2>5. OnlyNew(store, store', issued) /\ store' = store /\ issued' = issued /\ now' = now /\ conf' = conf
    BY <1>5 DEF OnlyNew
  <2>. QED
    BY <1>4, <1>5, <2>4, <2>5, OneCallMoves
<1>6. CASE Goes(c, [x EXCEPT !.at = "exchange"]) /\ Removed(k)
  <2>. HIDE DEF k
  <2>1. /\ StoreOK(store', issued) /\ OnlyNew(store, store', issued)
        /\ \A j \in Key : store'[j] # None => store'[j] = store[j]
    BY <1>3, <1>6, RemovedIsOK
  <2>2. Len(x.sent) = 1 => \A j \in Key : store'[j] # None => store'[j].tok # x.sent[1]
    BY <2>1, <1>1, <1>2 DEF Retrying
  <2>3. CallOK([x EXCEPT !.at = "exchange"], store', issued)
    BY <2>2, <1>2, Waiting
  <2>. QED
    BY <1>4, <1>6, <2>1, <2>3, OneCallMoves
<1>. QED
  BY <1>5, <1>6 DEF Lookup

LEMMA AsUserStep ==
    ASSUME ProxyInv, NEW c \in Calls, AsUser(c)
    PROVE  ProxyInv'
<1>. USE ProxyAssumption
<1>1. call[c].at = "body" /\ call[c].srv.auth \in Flows /\ call[c].who \in Users
  BY OfCall DEF AsUser, Call
<1>2. CASE Goes(c, [call[c] EXCEPT !.at = "actor"]) /\ UNCHANGED <<store, order>>
  <2>1. Len(call[c].sent) = 0
    BY <1>1, OfCall DEF Placed
  <2>2. "actor" \in {"actor", "exchange"} /\ Len(call[c].sent) <= 1 /\ Len(call[c].sent) # 1
    BY <2>1
  <2>3. CallOK([call[c] EXCEPT !.at = "actor"], store, issued)
    BY <1>1, <2>2, Waiting
  <2>. QED
    BY <1>2, <2>3, OnlyCallMoves DEF AsUser
<1>3. CASE Lookup(c)
  BY <1>1, <1>3, LookupStep DEF AsUser
<1>. QED
  BY <1>2, <1>3 DEF AsUser

LEMMA ActorTokenStep ==
    ASSUME ProxyInv, NEW c \in Calls, ActorToken(c)
    PROVE  ProxyInv'
<1>1. call[c].at = "actor" /\ call[c].srv.auth \in Flows /\ call[c].who \in Users
  BY OfCall DEF ActorToken, Placed
<1>. QED
  BY <1>1, LookupStep DEF ActorToken

(* The rejected token was under no other key than the one removed. *)
LEMMA RejectedStep ==
    ASSUME ProxyInv, NEW c \in Calls, Rejected(c)
    PROVE  ProxyInv'
<1>. USE ProxyAssumption
<1>. DEFINE x == call[c]
            k == KeyOf(x.srv, x.who)
            a == IF x.srv.auth = "obo" /\ x.srv.actor THEN "actor" ELSE "exchange"
<1>1. x \in Call /\ Placed(x) /\ Own(x) /\ Sent(x, issued) /\ x.sent \in Seq(Token \cup {Service})
  BY OfCall
<1>2. x.at = "send" /\ x.srv.auth \in Flows /\ Len(x.sent) = 1 /\ x.srv \in Conf /\ x.who \in Users
  BY <1>1 DEF Rejected, Retries, Placed
<1>3. k \in Key /\ k.user = x.who /\ k.aud = x.srv.aud /\ k.flow = x.srv.auth
  BY <1>2 DEF KeyOf, Key, Conf
<1>4. Removed(k) /\ Goes(c, [x EXCEPT !.at = a]) /\ UNCHANGED <<now, conf, issued>>
  BY DEF Rejected
<1>. HIDE DEF k
<1>5. /\ StoreOK(store', issued) /\ OnlyNew(store, store', issued) /\ store'[k] = None
      /\ \A j \in Key : store'[j] # None => store'[j] = store[j]
  BY <1>3, <1>4, RemovedIsOK
<1>6. ASSUME NEW j \in Key, store'[j] # None PROVE store'[j].tok # x.sent[1]
  <2>1. j # k
    BY <1>5, <1>6
  <2>2. j.user # k.user \/ j.aud # k.aud \/ j.flow # k.flow
    BY <2>1, <1>3 DEF Key
  <2>3. /\ store'[j].tok.user = j.user /\ store'[j].tok.aud = j.aud /\ store'[j].tok.flow = j.flow
    BY <1>5, <1>6 DEF StoreOK
  <2>4. 1 \in DOMAIN x.sent
    BY <1>1, <1>2
  <2>5. x.sent[1].user = k.user /\ x.sent[1].aud = k.aud /\ x.sent[1].flow = k.flow
    BY <2>4, <1>1, <1>2, <1>3 DEF Own
  <2>. QED
    BY <2>2, <2>3, <2>5
<1>7. CallOK([x EXCEPT !.at = a], store', issued)
  <2>1. a \in {"actor", "exchange"} /\ Len(x.sent) <= 1
    BY <1>2
  <2>. HIDE DEF a
  <2>. QED
    BY <2>1, <1>2, <1>6, Waiting
<1>8. issued' = issued /\ now' = now /\ conf' = conf /\ issued \in Nat /\ now \in Int /\ conf \in Conf \cup {None}
  BY <1>4 DEF ProxyInv
<1>. QED
  BY <1>4, <1>5, <1>7, <1>8, OneCallMoves

LEMMA ExchangedStep ==
    ASSUME ProxyInv, NEW c \in Calls, NEW lifetime \in Lifetimes, Exchanged(c, lifetime)
    PROVE  ProxyInv'
<1>. USE ProxyAssumption
<1>. DEFINE x == call[c]
            k == KeyOf(x.srv, x.who)
            t == [id |-> issued + 1, user |-> x.who, aud |-> x.srv.aud, flow |-> x.srv.auth,
                  actor |-> x.srv.actor, exp |-> now + lifetime, session |-> x.session]
            e == [tok |-> t, exp |-> ExpiryFor(lifetime, x.session)]
<1>1. x \in Call /\ Placed(x) /\ Sent(x, issued) /\ x.sent \in Seq(Token \cup {Service})
  BY OfCall
<1>2. x.at = "exchange" /\ x.srv \in Conf /\ x.srv.auth \in Flows /\ x.who \in Users /\ x.session \in Int
  BY <1>1 DEF Exchanged, Placed, Call
<1>3. k \in Key /\ k.user = x.who /\ k.aud = x.srv.aud /\ k.flow = x.srv.auth
  BY <1>2 DEF KeyOf, Key, Conf
<1>4. StoreOK(store, issued) /\ now \in Int /\ issued \in Nat /\ conf \in Conf \cup {None} /\ lifetime \in Nat
  BY DEF ProxyInv
<1>5. /\ t \in Token /\ t.id = issued + 1 /\ t.user = x.who /\ t.aud = x.srv.aud
      /\ t.flow = x.srv.auth /\ t.exp = now + lifetime /\ t.session = x.session
  BY <1>2, <1>4 DEF Token, Conf
<1>6. /\ ExpiryFor(lifetime, x.session) \in Int
      /\ ExpiryFor(lifetime, x.session) <= now + lifetime
      /\ ExpiryFor(lifetime, x.session) <= x.session
  BY <1>2, <1>4 DEF ExpiryFor
<1>7. /\ Stored(k, e) /\ Goes(c, [x EXCEPT !.at = "send", !.sent = Append(@, t)])
      /\ issued' = issued + 1 /\ UNCHANGED <<now, conf>>
  BY DEF Exchanged
<1>. HIDE DEF k, t
<1>8. e \in Entry /\ e.tok = t /\ e.exp <= t.exp /\ e.exp <= t.session
  BY <1>5, <1>6 DEF Entry
<1>. HIDE DEF e
<1>9. /\ store' \in [Key -> Entry \cup {None}]
      /\ \A j \in Key : store'[j] # None => store'[j] = store[j] \/ (j = k /\ store'[j] = e)
  BY <1>4, <1>7, <1>8 DEF Stored, StoreOK
<1>10. StoreOK(store', issued')
  <2>. SUFFICES ASSUME NEW j \in Key, store'[j] # None
                PROVE  /\ store'[j].tok.user = j.user /\ store'[j].tok.aud = j.aud
                       /\ store'[j].tok.flow = j.flow
                       /\ store'[j].exp <= store'[j].tok.exp /\ store'[j].exp <= store'[j].tok.session
                       /\ store'[j].tok.id <= issued + 1
    BY <1>7, <1>9 DEF StoreOK
  <2>1. CASE store'[j] = store[j]
    <3>1. store[j] \in Entry /\ store[j].tok.id \in Nat
      BY <2>1, <1>4 DEF StoreOK, Entry, Token
    <3>2. store[j].tok.id <= issued
      BY <2>1, <1>4 DEF StoreOK
    <3>3. store[j].tok.id <= issued + 1
      BY <3>1, <3>2, <1>4
    <3>. QED
      BY <2>1, <3>3, <1>4 DEF StoreOK
  <2>2. CASE j = k /\ store'[j] = e
    BY <2>2, <1>3, <1>4, <1>5, <1>8
  <2>. QED
    BY <2>1, <2>2, <1>9
<1>11. OnlyNew(store, store', issued)
  BY <1>4, <1>5, <1>8, <1>9 DEF OnlyNew
<1>12. Len(x.sent) = 1 => t # x.sent[1]
  <2>. SUFFICES ASSUME Len(x.sent) = 1, t = x.sent[1] PROVE FALSE
    OBVIOUS
  <2>1. 1 \in DOMAIN x.sent /\ x.sent[1] # Service
    BY <1>1, <1>5
  <2>2. x.sent[1].id <= issued
    BY <2>1, <1>1 DEF Sent
  <2>. QED
    BY <2>2, <1>4, <1>5
<1>13. CallOK([x EXCEPT !.at = "send", !.sent = Append(@, t)], store', issued')
  <2>1. /\ issued + 1 \in Nat /\ issued <= issued + 1 /\ t.id <= issued + 1 /\ t # Service
        /\ t \in Token \cup {Service}
    BY <1>4, <1>5
  <2>2. CallOK([x EXCEPT !.at = "send", !.sent = Append(@, t)], store', issued + 1)
    BY <2>1, <1>2, <1>5, <1>12, Sending
  <2>. QED
    BY <2>2, <1>7
<1>14. issued' \in Nat /\ issued <= issued' /\ now' \in Int /\ conf' \in Conf \cup {None}
  BY <1>4, <1>7
<1>. QED
  BY <1>7, <1>10, <1>11, <1>13, <1>14, OneCallMoves

LEMMA RespondsStep ==
    ASSUME ProxyInv, NEW c \in Calls, Responds(c)
    PROVE  ProxyInv'
<1>. DEFINE x == call[c]
            y == [x EXCEPT !.at = "stream"]
<1>1. x \in Call /\ Placed(x) /\ Own(x) /\ Sent(x, issued) /\ x.at = "send"
  BY OfCall DEF Responds
<1>2. y \in Call /\ y.at = "stream" /\ y.who = x.who /\ y.srv = x.srv /\ y.sent = x.sent
  BY <1>1 DEF Call
<1>3. Goes(c, y) /\ UNCHANGED <<now, conf, store, order, issued>>
  BY DEF Responds
<1>. HIDE DEF y
<1>4. Placed(y) /\ Own(y) /\ Sent(y, issued) /\ Retrying(y, store)
  BY <1>1, <1>2 DEF Placed, Own, Sent, Retrying
<1>. QED
  BY <1>2, <1>3, <1>4, OnlyCallMoves DEF CallOK

LEMMA AsServiceStep ==
    ASSUME ProxyInv, NEW c \in Calls, AsService(c)
    PROVE  ProxyInv'
<1>1. call[c].at = "body" /\ call[c].srv.auth \notin Flows /\ call[c].sent = <<>>
  BY OfCall DEF AsService, Placed, Flows
<1>2. Len(call[c].sent) # 1 /\ issued \in Nat /\ issued <= issued
  BY <1>1 DEF ProxyInv
<1>3. CallOK([call[c] EXCEPT !.at = "send", !.sent = Append(@, Service)], store, issued)
  BY <1>1, <1>2, Sending
<1>. QED
  BY <1>3, OnlyCallMoves DEF AsService

LEMMA ForwardStep ==
    ASSUME ProxyInv, NEW c \in Calls, Forward(c)
    PROVE  ProxyInv'
<1>. DEFINE x == call[c]
            y == [x EXCEPT !.at = "local"]
<1>1. x \in Call /\ Placed(x) /\ Own(x) /\ Sent(x, issued) /\ x.at = "body"
  BY OfCall DEF Forward
<1>2. /\ y \in Call /\ y.at = "local" /\ y.who = x.who /\ y.srv = x.srv /\ y.sent = x.sent
     
  BY <1>1 DEF Call
<1>3. Goes(c, y) /\ UNCHANGED <<now, conf, store, order, issued>>
  BY DEF Forward
<1>. HIDE DEF y
<1>4. Placed(y) /\ Own(y) /\ Sent(y, issued) /\ Retrying(y, store)
  BY <1>1, <1>2 DEF Placed, Own, Sent, Retrying
<1>. QED
  BY <1>2, <1>3, <1>4, OnlyCallMoves DEF CallOK

LEMMA BrokenStep ==
    ASSUME ProxyInv, NEW c \in Calls, Broken(c)
    PROVE  ProxyInv'
<1>. DEFINE x == call[c]
<1>1. x \in Call /\ x.srv \in Conf
  BY OfCall DEF Broken, Placed
<1>2. CallOK([x EXCEPT !.at = "raised"], store, issued)
  BY <1>1, EndingIsOK
<1>. QED
  BY <1>2, OnlyCallMoves DEF Broken

LEMMA InitInv == Init => ProxyInv
<1>. SUFFICES ASSUME Init PROVE ProxyInv
  OBVIOUS
<1>. USE ProxyAssumption
<1>1. Unused \in Call /\ Unused.at = "idle" /\ Unused.sent = <<>>
  BY EmptySeq DEF Unused, Call
<1>2. \A c \in Calls : call[c] = Unused
  BY DEF Init
<1>3. Placed(Unused) /\ Own(Unused) /\ Sent(Unused, issued) /\ Retrying(Unused, store)
  BY <1>1 DEF Placed, Own, Sent, Retrying
<1>4. StoreOK(store, issued)
  BY DEF Init, StoreOK
<1>5. call \in [Calls -> Call] /\ \A c \in Calls : CallOK(call[c], store, issued)
  BY <1>1, <1>2, <1>3 DEF CallOK, Init
<1>. QED
  BY <1>4, <1>5 DEF Init, ProxyInv

LEMMA StepKeepsInv ==
    ASSUME ProxyInv, NEW c \in Calls, Step(c)
    PROVE  ProxyInv'
<1>1. ASSUME NEW who \in Users \cup {Nobody}, NEW session \in Sessions, Arrive(c, who, session)
      PROVE  ProxyInv'
  BY <1>1, ArriveStep
<1>2. CASE Fault(c) \/ Forwarded(c) \/ AuthFails(c) \/ ExchangeFails(c)
  BY <1>2, Ending DEF Fault, Forwarded, AuthFails, ExchangeFails
<1>3. CASE NotAllowed(c) \/ Unreachable(c) \/ StreamEnds(c)
  BY <1>3, Ending DEF NotAllowed, Unreachable, StreamEnds
<1>4. CASE Forward(c) \/ Broken(c) \/ AsService(c) \/ Responds(c)
  BY <1>4, ForwardStep, BrokenStep, AsServiceStep, RespondsStep
<1>5. CASE AsUser(c) \/ ActorToken(c) \/ Rejected(c)
  BY <1>5, AsUserStep, ActorTokenStep, RejectedStep
<1>6. ASSUME NEW lifetime \in Lifetimes, Exchanged(c, lifetime) PROVE ProxyInv'
  BY <1>6, ExchangedStep
<1>. QED
  BY <1>1, <1>2, <1>3, <1>4, <1>5, <1>6 DEF Step

LEMMA NextKeepsInv == ProxyInv /\ [Next]_vars => ProxyInv'
<1>. SUFFICES ASSUME ProxyInv, [Next]_vars PROVE ProxyInv'
  OBVIOUS
<1>. USE ProxyAssumption
<1>1. ASSUME NEW c \in Calls, Step(c) PROVE ProxyInv'
  BY <1>1, StepKeepsInv
<1>2. ASSUME NEW k \in Confs \cup {None}, Configure(k) PROVE ProxyInv'
  BY <1>2 DEF Configure, ProxyInv
<1>3. CASE Tick
  BY <1>3 DEF Tick, ProxyInv
<1>4. CASE UNCHANGED vars
  BY <1>4 DEF vars, ProxyInv
<1>. QED
  BY <1>1, <1>2, <1>3, <1>4 DEF Next

(* The inductive invariant of the proxied calls and the token cache. *)
THEOREM ProxyInvariant == Spec => []ProxyInv
BY InitInv, NextKeepsInv, PTL DEF Spec

(* For every cache size and any number of users and calls: no call sends   *)
(* another user's token, one minted for another audience or flow, or, in   *)
(* place of a token, the server's own credential (proxy_request with       *)
(* OBOTokenCache and apply_server_auth).                                   *)
THEOREM NobodyElsesToken == Spec => []OwnTokenOnly
<1>1. ProxyInv => OwnTokenOnly
  BY DEF ProxyInv, CallOK, Own, OwnTokenOnly
<1>. QED
  BY <1>1, ProxyInvariant, PTL

(* The retry after a backend's 401 happens at most once and never presents *)
(* the rejected token again, whatever other calls do to the cache in       *)
(* between.                                                                *)
THEOREM RetryIsFresh == Spec => []RetrySendsAnother
<1>1. ProxyInv => RetrySendsAnother
  BY DEF ProxyInv, CallOK, Sent, RetrySendsAnother
<1>. QED
  BY <1>1, ProxyInvariant, PTL

(* What ReusedTokenLive says of one step of call d. *)
Reuse(d) ==
    Len(call'[d].sent) > Len(call[d].sent) /\ issued' = issued =>
        LET t == call'[d].sent[Len(call'[d].sent)] IN
        t # Service => t.exp - now > Margin /\ t.session - now > Margin

(* A step of c that sends nothing, and a step of another call. *)
LEMMA NothingSent ==
    ASSUME ProxyInv, NEW c \in Calls, NEW x, Goes(c, x), x.sent = call[c].sent, NEW d \in Calls
    PROVE  Reuse(d)
<1>1. call'[d].sent = call[d].sent
  BY DEF Goes, ProxyInv
<1>2. Len(call[d].sent) \in Nat
  BY OfCall
<1>. QED
  BY <1>1, <1>2 DEF Reuse

LEMMA LookupIsLive ==
    ASSUME ProxyInv, NEW c \in Calls, Lookup(c), call[c].at \in {"body", "actor"},
           call[c].srv.auth \in Flows, call[c].who \in Users, NEW d \in Calls
    PROVE  Reuse(d)
<1>. USE ProxyAssumption
<1>. DEFINE x == call[c]
            k == KeyOf(x.srv, x.who)
            e == store[k]
            y == [x EXCEPT !.at = "send", !.sent = Append(@, e.tok)]
<1>1. x \in Call /\ Placed(x) /\ x.sent \in Seq(Token \cup {Service})
  BY OfCall
<1>2. k \in Key
  BY <1>1 DEF KeyOf, Key, Conf, Placed
<1>3. CASE IsLive(e) /\ Goes(c, y)
  <2>. HIDE DEF k
  <2>1. e \in Entry /\ e # None /\ e.exp - now > Margin /\ e.exp <= e.tok.exp /\ e.exp <= e.tok.session
    BY <1>2, <1>3 DEF ProxyInv, StoreOK, IsLive
  <2>2. e.tok.exp \in Int /\ e.tok.session \in Int /\ e.exp \in Int /\ e.tok \in Token
    BY <2>1 DEF Entry, Token
  <2>3. e.tok.exp - now > Margin /\ e.tok.session - now > Margin
    BY <2>1, <2>2 DEF ProxyInv
  <2>. HIDE DEF e
  <2>4. y.sent = Append(x.sent, e.tok)
    BY <1>1 DEF Call
  <2>5. Append(x.sent, e.tok)[Len(Append(x.sent, e.tok))] = e.tok
    BY <1>1, <2>2
  <2>6. CASE d = c
    <3>1. call'[d] = y
      BY <1>3, <2>6 DEF Goes, ProxyInv
    <3>. QED
      BY <3>1, <2>3, <2>4, <2>5 DEF Reuse
  <2>7. CASE d # c
    <3>1. call'[d] = call[d] /\ Len(call[d].sent) \in Nat
      BY <1>3, <2>7, OfCall DEF Goes, ProxyInv
    <3>. QED
      BY <3>1 DEF Reuse
  <2>. QED
    BY <2>6, <2>7
<1>4. CASE Goes(c, [x EXCEPT !.at = "exchange"])
  <2>1. [x EXCEPT !.at = "exchange"].sent = x.sent
    BY <1>1 DEF Call
  <2>. QED
    BY <1>4, <2>1, NothingSent
<1>. QED
  BY <1>3, <1>4 DEF Lookup

LEMMA StepReuse ==
    ASSUME ProxyInv, NEW c \in Calls, Step(c), NEW d \in Calls
    PROVE  Reuse(d)
<1>. DEFINE x == call[c]
<1>1. x \in Call /\ Placed(x) /\ x.sent \in Seq(Token \cup {Service})
  BY OfCall
<1>2. CASE \E y : Goes(c, y) /\ y.sent = x.sent
  BY <1>2, NothingSent
<1>3. ASSUME NEW who \in Users \cup {Nobody}, NEW session \in Sessions, Arrive(c, who, session)
      PROVE  Reuse(d)
  <2>. DEFINE z == [x EXCEPT !.who = who, !.session = now + session, !.srv = conf]
  <2>1. [z EXCEPT !.at = "done"].sent = x.sent /\ [z EXCEPT !.at = "body"].sent = x.sent
    BY <1>1 DEF Call
  <2>2. \E y : Goes(c, y) /\ y.sent = x.sent
    BY <1>3, <2>1 DEF Arrive
  <2>. QED
    BY <1>2, <2>2
<1>5. CASE \E a : Goes(c, [x EXCEPT !.at = a])
  <2>1. PICK a : Goes(c, [x EXCEPT !.at = a])
    BY <1>5
  <2>2. [x EXCEPT !.at = a].sent = x.sent
    BY <1>1 DEF Call
  <2>. QED
    BY <1>2, <2>1, <2>2
<1>6. CASE AsService(c)
  <2>1. [x EXCEPT !.at = "send", !.sent = Append(@, Service)].sent = Append(x.sent, Service)
    BY <1>1 DEF Call
  <2>2. Append(x.sent, Service)[Len(Append(x.sent, Service))] = Service
    BY <1>1
  <2>3. CASE d = c
    <3>1. call'[d].sent = Append(x.sent, Service)
      BY <1>6, <2>1, <2>3 DEF AsService, Goes, ProxyInv
    <3>. QED
      BY <3>1, <2>2 DEF Reuse
  <2>4. CASE d # c
    <3>1. call'[d] = call[d] /\ Len(call[d].sent) \in Nat
      BY <1>6, <2>4, OfCall DEF AsService, Goes, ProxyInv
    <3>. QED
      BY <3>1 DEF Reuse
  <2>. QED
    BY <2>3, <2>4
<1>7. CASE AsUser(c)
  <2>1. x.at = "body" /\ x.srv.auth \in Flows /\ x.who \in Users
    BY <1>1, <1>7 DEF AsUser, Call
  <2>2. CASE Lookup(c)
    BY <2>1, <2>2, LookupIsLive
  <2>. QED
    BY <1>5, <1>7, <2>2 DEF AsUser
<1>8. CASE ActorToken(c)
  <2>1. x.at = "actor" /\ x.srv.auth \in Flows /\ x.who \in Users
    BY <1>1, <1>8 DEF ActorToken, Placed
  <2>. QED
    BY <2>1, <1>8, LookupIsLive DEF ActorToken
<1>9. ASSUME NEW lifetime \in Lifetimes, Exchanged(c, lifetime) PROVE Reuse(d)
  BY <1>9 DEF Exchanged, Reuse, ProxyInv
<1>10. CASE Fault(c) \/ Forwarded(c) \/ AuthFails(c) \/ ExchangeFails(c) \/ NotAllowed(c) \/ Unreachable(c) \/ StreamEnds(c)
  BY <1>5, <1>10 DEF Fault, Forwarded, AuthFails, ExchangeFails, NotAllowed, Unreachable, StreamEnds, Ends
<1>11. CASE Forward(c) \/ Broken(c) \/ Rejected(c) \/ Responds(c)
  BY <1>5, <1>11 DEF Forward, Broken, Rejected, Responds
<1>. QED
  BY <1>3, <1>6, <1>7, <1>8, <1>9, <1>10, <1>11 DEF Step

(* A token taken from OBOTokenCache outlives the margin and the session it *)
(* was exchanged in (_is_live and _expiry_for), however long it was cached. *)
THEOREM ReuseIsLive == Spec => ReusedTokenLive
<1>1. ProxyInv /\ [Next]_vars => [\A c \in Calls : Reuse(c)]_vars
  <2>. SUFFICES ASSUME ProxyInv, Next, NEW d \in Calls PROVE Reuse(d)
    OBVIOUS
  <2>1. ASSUME NEW c \in Calls, Step(c) PROVE Reuse(d)
    BY <2>1, StepReuse
  <2>2. CASE call' = call
    BY <2>2, OfCall DEF Reuse
  <2>. QED
    BY <2>1, <2>2 DEF Next, Configure, Tick
<1>. QED
  BY <1>1, ProxyInvariant, PTL DEF Spec, ReusedTokenLive, Reuse

-----------------------------------------------------------------------------
(* The bound of the cache.  That the order lists exactly the stored keys,  *)
(* each once, is what makes one eviction enough.                           *)

In(x, keys) == \E i \in 1 .. Len(keys) : keys[i] = x

Distinct(keys) == \A i, j \in 1 .. Len(keys) : keys[i] = keys[j] => i = j

(* The keys of a cache st in their order. *)
Ordered(st, keys) ==
    /\ keys \in Seq(Key)
    /\ Distinct(keys)
    /\ \A k \in Key : st[k] # None <=> In(k, keys)

CacheInv == Ordered(store, order) /\ Len(order) <= MaxEntries

(* A sequence without its position p. *)
LEMMA RemoveAtEffect ==
    ASSUME NEW S, NEW keys \in Seq(S), NEW p \in 1 .. Len(keys)
    PROVE  /\ Sequence!RemoveAt(keys, p) \in Seq(S)
           /\ Len(Sequence!RemoveAt(keys, p)) = Len(keys) - 1
           /\ \A i \in 1 .. Len(Sequence!RemoveAt(keys, p)) :
                 Sequence!RemoveAt(keys, p)[i] = IF i < p THEN keys[i] ELSE keys[i + 1]
<1>. DEFINE a == SubSeq(keys, 1, p - 1)
            b == SubSeq(keys, p + 1, Len(keys))
            d == Sequence!RemoveAt(keys, p)
            l == Len(keys)
<1>0. l \in Nat /\ p \in Nat /\ 1 <= p /\ p <= l /\ \A i \in 1 .. l : keys[i] \in S
  OBVIOUS
<1>1. d = a \o b
  BY DEF Sequence!RemoveAt
<1>2. a \in Seq(S) /\ Len(a) = p - 1 /\ \A i \in 1 .. p - 1 : a[i] = keys[i]
  BY <1>0
<1>3. b \in Seq(S) /\ Len(b) = l - p /\ \A i \in 1 .. l - p : b[i] = keys[(p + 1) + i - 1]
  <2>1. p + 1 \in Int /\ l \in Int /\ \A i \in p + 1 .. l : keys[i] \in S
    BY <1>0
  <2>2. /\ b \in Seq(S) /\ Len(b) = IF p + 1 <= l THEN l - (p + 1) + 1 ELSE 0
        /\ \A i \in 1 .. l - (p + 1) + 1 : b[i] = keys[(p + 1) + i - 1]
    BY <2>1, SubSeqProperties
  <2>. HIDE DEF b, l
  <2>3. l - (p + 1) + 1 = l - p /\ (p + 1 <= l \/ l - p = 0)
    BY <1>0
  <2>. QED
    BY <2>2, <2>3
<1>. HIDE DEF a, b, d, l
<1>4. /\ a \o b \in Seq(S) /\ Len(a \o b) = Len(a) + Len(b)
      /\ \A i \in 1 .. Len(a) + Len(b) :
            (a \o b)[i] = IF i <= Len(a) THEN a[i] ELSE b[i - Len(a)]
  BY <1>2, <1>3, ConcatProperties
<1>5. (p - 1) + (l - p) = l - 1
  BY <1>0
<1>6. /\ d \in Seq(S) /\ Len(d) = l - 1
      /\ \A i \in 1 .. l - 1 : d[i] = IF i <= p - 1 THEN a[i] ELSE b[i - (p - 1)]
  BY <1>1, <1>2, <1>3, <1>4, <1>5
<1>7. ASSUME NEW i \in 1 .. l - 1
      PROVE  d[i] = IF i < p THEN keys[i] ELSE keys[i + 1]
  <2>1. CASE i < p
    <3>1. i <= p - 1 /\ i \in 1 .. p - 1
      BY <1>0, <2>1
    <3>. QED
      BY <1>2, <1>6, <2>1, <3>1
  <2>2. CASE ~(i < p)
    <3>1. ~(i <= p - 1) /\ i - (p - 1) \in 1 .. l - p /\ (p + 1) + (i - (p - 1)) - 1 = i + 1
      BY <1>0, <2>2
    <3>2. d[i] = b[i - (p - 1)] /\ b[i - (p - 1)] = keys[(p + 1) + (i - (p - 1)) - 1]
      BY <1>3, <1>6, <3>1
    <3>. QED
      BY <2>2, <3>1, <3>2
  <2>. QED
    BY <2>1, <2>2
<1>. QED
  BY <1>6, <1>7 DEF d, l

(* Removing a key leaves the others, each once. *)
LEMMA DropEffect ==
    ASSUME NEW S, NEW keys \in Seq(S), Distinct(keys), NEW k
    PROVE  /\ Drop(keys, k) \in Seq(S) /\ Distinct(Drop(keys, k))
           /\ Len(Drop(keys, k)) = IF In(k, keys) THEN Len(keys) - 1 ELSE Len(keys)
           /\ \A x : In(x, Drop(keys, k)) <=> x # k /\ In(x, keys)
<1>0. Len(keys) \in Nat /\ DOMAIN keys = 1 .. Len(keys)
  OBVIOUS
<1>1. CASE ~In(k, keys)
  <2>1. Drop(keys, k) = keys
    BY <1>0, <1>1 DEF Drop, In
  <2>. QED
    BY <1>1, <2>1 DEF In
<1>2. CASE In(k, keys)
  <2>. DEFINE p == CHOOSE i \in DOMAIN keys : keys[i] = k
              d == Drop(keys, k)
  <2>1. p \in 1 .. Len(keys) /\ keys[p] = k
    BY <1>0, <1>2 DEF In
  <2>2. d = Sequence!RemoveAt(keys, p)
    BY <1>0, <1>2 DEF Drop, In
  <2>. HIDE DEF p
  <2>3. /\ d \in Seq(S) /\ Len(d) = Len(keys) - 1
        /\ \A i \in 1 .. Len(d) : d[i] = IF i < p THEN keys[i] ELSE keys[i + 1]
    BY <2>1, <2>2, RemoveAtEffect
  <2>. HIDE DEF d
  <2>4. Distinct(d)
    BY <1>0, <2>1, <2>3 DEF Distinct
  <2>5. ASSUME NEW x, In(x, d) PROVE x # k /\ In(x, keys)
    <3>1. PICK i \in 1 .. Len(d) : d[i] = x
      BY <2>5 DEF In
    <3>2. \E h \in 1 .. Len(keys) : h # p /\ keys[h] = x
      BY <1>0, <2>1, <2>3, <3>1
    <3>. QED
      BY <2>1, <3>2 DEF In, Distinct
  <2>6. ASSUME NEW x, x # k, In(x, keys) PROVE In(x, d)
    <3>1. PICK h \in 1 .. Len(keys) : keys[h] = x /\ h # p
      BY <2>1, <2>6 DEF In
    <3>2. CASE h < p
      BY <1>0, <2>1, <2>3, <3>1, <3>2 DEF In
    <3>3. CASE h > p
      <4>1. h - 1 \in 1 .. Len(d) /\ ~(h - 1 < p) /\ (h - 1) + 1 = h
        BY <1>0, <2>1, <2>3, <3>1, <3>3
      <4>2. d[h - 1] = x
        BY <2>3, <3>1, <4>1
      <4>. QED
        BY <4>1, <4>2 DEF In
    <3>. QED
      BY <1>0, <2>1, <3>1, <3>2, <3>3
  <2>. QED
    BY <1>2, <2>3, <2>4, <2>5, <2>6 DEF d
<1>. QED
  BY <1>1, <1>2

(* Moving a key to the end, or adding it there. *)
LEMMA AppendEffect ==
    ASSUME NEW keys \in Seq(Key), Distinct(keys), NEW k \in Key, ~In(k, keys)
    PROVE  /\ Append(keys, k) \in Seq(Key) /\ Distinct(Append(keys, k))
           /\ Len(Append(keys, k)) = Len(keys) + 1
           /\ \A x : In(x, Append(keys, k)) <=> x = k \/ In(x, keys)
<1>. DEFINE d == Append(keys, k)
<1>1. /\ d \in Seq(Key) /\ Len(d) = Len(keys) + 1 /\ Len(keys) \in Nat
      /\ \A i \in 1 .. Len(d) : d[i] = IF i = Len(d) THEN k ELSE keys[i]
  OBVIOUS
<1>. HIDE DEF d
<1>2. Distinct(d)
  BY <1>1 DEF Distinct, In
<1>3. \A x : In(x, d) <=> x = k \/ In(x, keys)
  BY <1>1 DEF In
<1>. QED
  BY <1>1, <1>2, <1>3 DEF d

(* Dropping the oldest. *)
LEMMA TailEffect ==
    ASSUME NEW keys \in Seq(Key), Distinct(keys), keys # <<>>
    PROVE  /\ Tail(keys) \in Seq(Key) /\ Distinct(Tail(keys)) /\ Len(Tail(keys)) = Len(keys) - 1
           /\ \A x : In(x, Tail(keys)) <=> x # Head(keys) /\ In(x, keys)
<1>. DEFINE d == Tail(keys)
<1>1. /\ d \in Seq(Key) /\ Len(d) = Len(keys) - 1 /\ Len(keys) \in Nat /\ Len(keys) >= 1
      /\ \A i \in 1 .. Len(d) : d[i] = keys[i + 1]
      /\ Head(keys) = keys[1]
  OBVIOUS
<1>. HIDE DEF d
<1>2. Distinct(d)
  BY <1>1 DEF Distinct
<1>3. ASSUME NEW x, In(x, d) PROVE x # Head(keys) /\ In(x, keys)
  BY <1>1, <1>3 DEF In, Distinct
<1>4. ASSUME NEW x, x # Head(keys), In(x, keys) PROVE In(x, d)
  <2>1. PICK h \in 1 .. Len(keys) : keys[h] = x /\ h # 1
    BY <1>1, <1>4 DEF In
  <2>2. h - 1 \in 1 .. Len(d) /\ d[h - 1] = x
    BY <1>1, <2>1
  <2>. QED
    BY <2>2 DEF In
<1>. QED
  BY <1>1, <1>2, <1>3, <1>4 DEF d

(* A cache whose entry for k is gone. *)
LEMMA RemovedOrdered ==
    ASSUME ProxyInv, CacheInv, NEW k \in Key, Removed(k)
    PROVE  CacheInv'
<1>1. /\ order \in Seq(Key) /\ Distinct(order) /\ Len(order) <= MaxEntries /\ Len(order) \in Nat
      /\ \A x \in Key : store[x] # None <=> In(x, order)
      /\ store \in [Key -> Entry \cup {None}]
  BY DEF CacheInv, Ordered, ProxyInv, StoreOK
<1>2. order' = Drop(order, k) /\ \A x \in Key : store'[x] = IF x = k THEN None ELSE store[x]
  BY <1>1 DEF Removed
<1>3. /\ order' \in Seq(Key) /\ Distinct(order') /\ Len(order') <= Len(order) /\ Len(order') \in Nat
      /\ \A x : In(x, order') <=> x # k /\ In(x, order)
  <2>. DEFINE d == Drop(order, k)
  <2>1. /\ d \in Seq(Key) /\ Distinct(d) /\ (Len(d) = Len(order) - 1 \/ Len(d) = Len(order))
        /\ \A x : In(x, d) <=> x # k /\ In(x, order)
    BY <1>1, DropEffect
  <2>. HIDE DEF d
  <2>2. Len(d) \in Nat /\ Len(d) <= Len(order)
    BY <1>1, <2>1
  <2>. QED
    BY <1>2, <2>1, <2>2 DEF d
<1>4. \A x \in Key : store'[x] # None <=> In(x, order')
  BY <1>1, <1>2, <1>3
<1>5. Len(order') <= MaxEntries
  BY <1>1, <1>3, ProxyAssumption
<1>. QED
  BY <1>3, <1>4, <1>5 DEF CacheInv, Ordered

(* _evict_if_needed removes one entry, and one is enough. *)
LEMMA StoredOrdered ==
    ASSUME ProxyInv, CacheInv, NEW k \in Key, NEW e \in Entry, Stored(k, e)
    PROVE  CacheInv'
<1>. DEFINE rest == Drop(order, k)
            keys == Append(rest, k)
            out  == Evicted(keys)
<1>1. /\ order \in Seq(Key) /\ Distinct(order) /\ Len(order) <= MaxEntries /\ Len(order) \in Nat
      /\ \A x \in Key : store[x] # None <=> In(x, order)
  BY DEF CacheInv, Ordered
<1>2. /\ store' = [x \in Key |-> CASE x \in out -> None
                                   [] x \notin out /\ x = k -> e
                                   [] OTHER -> store[x]]
      /\ order' = IF out = {} THEN keys ELSE Tail(keys)
  BY DEF Stored
<1>3. /\ rest \in Seq(Key) /\ Distinct(rest) /\ ~In(k, rest)
      /\ Len(rest) <= MaxEntries /\ Len(rest) \in Nat
      /\ \A x : In(x, rest) <=> x # k /\ In(x, order)
  BY <1>1, DropEffect, ProxyAssumption
<1>. HIDE DEF rest
<1>4. /\ keys \in Seq(Key) /\ Distinct(keys) /\ Len(keys) = Len(rest) + 1
      /\ \A x : In(x, keys) <=> x = k \/ In(x, rest)
  BY <1>3, AppendEffect
<1>. HIDE DEF keys
<1>5. e # None
  BY ProxyAssumption
<1>6. CASE Len(keys) > MaxEntries
  <2>1. out = {Head(keys)} /\ keys # <<>>
    BY <1>3, <1>4, <1>6, ProxyAssumption DEF Evicted
  <2>2. order' = Tail(keys)
    BY <1>2, <2>1
  <2>3. /\ order' \in Seq(Key) /\ Distinct(order') /\ Len(order') = Len(keys) - 1
        /\ \A x : In(x, order') <=> x # Head(keys) /\ In(x, keys)
    BY <1>4, <2>1, <2>2, TailEffect
  <2>4. \A x \in Key : store'[x] = IF x = Head(keys) THEN None ELSE IF x = k THEN e ELSE store[x]
    BY <1>2, <2>1
  <2>5. \A x \in Key : store'[x] # None <=> In(x, order')
    BY <1>1, <1>3, <1>4, <1>5, <2>3, <2>4
  <2>6. Len(order') <= MaxEntries
    BY <1>3, <1>4, <2>3, ProxyAssumption
  <2>. QED
    BY <2>3, <2>5, <2>6 DEF CacheInv, Ordered
<1>7. CASE ~(Len(keys) > MaxEntries)
  <2>1. out = {}
    BY <1>7 DEF Evicted
  <2>2. order' = keys /\ \A x \in Key : store'[x] = IF x = k THEN e ELSE store[x]
    BY <1>2, <2>1
  <2>3. \A x \in Key : store'[x] # None <=> In(x, order')
    BY <1>1, <1>3, <1>4, <1>5, <2>2
  <2>4. Len(order') <= MaxEntries
    BY <1>3, <1>4, <1>7, <2>2, ProxyAssumption
  <2>. QED
    BY <1>4, <2>2, <2>3, <2>4 DEF CacheInv, Ordered
<1>. QED
  BY <1>6, <1>7

(* The key a call uses once it has a caller to act for. *)
LEMMA CallKey ==
    ASSUME NEW x, x.srv \in Conf, x.srv.auth \in Flows, x.who \in Users
    PROVE  KeyOf(x.srv, x.who) \in Key
BY DEF KeyOf, Key, Conf

(* A lookup moves a live entry to the end or drops a dead one. *)
LEMMA LookupOrdered ==
    ASSUME ProxyInv, CacheInv, NEW c \in Calls, Lookup(c), KeyOf(call[c].srv, call[c].who) \in Key
    PROVE  CacheInv'
<1>. DEFINE k == KeyOf(call[c].srv, call[c].who)
            rest == Drop(order, k)
<1>1. /\ order \in Seq(Key) /\ Distinct(order) /\ Len(order) <= MaxEntries /\ Len(order) \in Nat
      /\ \A x \in Key : store[x] # None <=> In(x, order)
  BY DEF CacheInv, Ordered
<1>2. CASE IsLive(store[k]) /\ order' = Append(rest, k) /\ UNCHANGED store
  <2>. HIDE DEF k
  <2>1. k \in Key /\ In(k, order)
    BY <1>1, <1>2 DEF IsLive, k
  <2>2. /\ rest \in Seq(Key) /\ Distinct(rest) /\ ~In(k, rest) /\ Len(rest) = Len(order) - 1
        /\ \A x : In(x, rest) <=> x # k /\ In(x, order)
    BY <1>1, <2>1, DropEffect
  <2>. HIDE DEF rest
  <2>3. /\ order' \in Seq(Key) /\ Distinct(order') /\ Len(order') = Len(rest) + 1
        /\ \A x : In(x, order') <=> x = k \/ In(x, rest)
    BY <1>2, <2>1, <2>2, AppendEffect
  <2>4. \A x \in Key : store'[x] # None <=> In(x, order')
    BY <1>1, <1>2, <2>1, <2>2, <2>3
  <2>5. Len(order') <= MaxEntries
    BY <1>1, <2>2, <2>3
  <2>. QED
    BY <2>3, <2>4, <2>5 DEF CacheInv, Ordered
<1>3. CASE Removed(k)
  BY <1>3, RemovedOrdered
<1>. QED
  BY <1>2, <1>3 DEF Lookup

(* The exchanged token is stored under the caller's key. *)
LEMMA ExchangedOrdered ==
    ASSUME ProxyInv, CacheInv, NEW c \in Calls, NEW lifetime \in Lifetimes, Exchanged(c, lifetime)
    PROVE  CacheInv'
<1>. USE ProxyAssumption
<1>. DEFINE x == call[c]
            t == [id |-> issued + 1, user |-> x.who, aud |-> x.srv.aud, flow |-> x.srv.auth,
                  actor |-> x.srv.actor, exp |-> now + lifetime, session |-> x.session]
            e == [tok |-> t, exp |-> ExpiryFor(lifetime, x.session)]
<1>1. x \in Call /\ Placed(x)
  BY OfCall
<1>2. x.at = "exchange" /\ x.srv \in Conf /\ x.srv.auth \in Flows /\ x.who \in Users /\ x.session \in Int
  BY <1>1 DEF Exchanged, Placed, Call
<1>3. now \in Int /\ issued \in Nat /\ lifetime \in Nat
  BY DEF ProxyInv
<1>4. t \in Token
  BY <1>2, <1>3 DEF Token, Conf
<1>5. ExpiryFor(lifetime, x.session) \in Int
  BY <1>2, <1>3 DEF ExpiryFor
<1>6. Stored(KeyOf(x.srv, x.who), e)
  BY DEF Exchanged
<1>. HIDE DEF t
<1>7. e \in Entry
  BY <1>4, <1>5 DEF Entry
<1>. HIDE DEF e
<1>8. KeyOf(x.srv, x.who) \in Key
  BY <1>2, CallKey
<1>. QED
  BY <1>6, <1>7, <1>8, StoredOrdered

(* Every step keeps the order and the bound of the cache. *)
LEMMA NextOrdered == ProxyInv /\ CacheInv /\ [Next]_vars => CacheInv'
<1>. SUFFICES ASSUME ProxyInv, CacheInv, [Next]_vars PROVE CacheInv'
  OBVIOUS
<1>1. UNCHANGED <<store, order>> => CacheInv'
  BY DEF CacheInv, Ordered
<1>2. ASSUME NEW c \in Calls, Step(c) PROVE CacheInv'
  <2>1. call[c] \in Call /\ Placed(call[c])
    BY OfCall
  <2>2. CASE \E lifetime \in Lifetimes : Exchanged(c, lifetime)
    BY <2>2, ExchangedOrdered
  <2>3. CASE AsUser(c)
    <3>1. call[c].srv \in Conf /\ call[c].srv.auth \in Flows /\ call[c].who \in Users
      BY <2>1, <2>3 DEF AsUser, Placed, Call
    <3>2. KeyOf(call[c].srv, call[c].who) \in Key
      BY <3>1, CallKey
    <3>. QED
      BY <1>1, <2>3, <3>2, LookupOrdered DEF AsUser
  <2>4. CASE ActorToken(c)
    <3>1. call[c].srv \in Conf /\ call[c].srv.auth \in Flows /\ call[c].who \in Users
      BY <2>1, <2>4 DEF ActorToken, Placed
    <3>2. KeyOf(call[c].srv, call[c].who) \in Key
      BY <3>1, CallKey
    <3>. QED
      BY <2>4, <3>2, LookupOrdered DEF ActorToken
  <2>5. CASE Rejected(c)
    <3>1. call[c].srv \in Conf /\ call[c].srv.auth \in Flows /\ call[c].who \in Users
      BY <2>1, <2>5 DEF Rejected, Retries, Placed
    <3>2. KeyOf(call[c].srv, call[c].who) \in Key
      BY <3>1, CallKey
    <3>. QED
      BY <2>5, <3>2, RemovedOrdered DEF Rejected
  <2>6. \/ UNCHANGED <<store, order>>
        \/ \E lifetime \in Lifetimes : Exchanged(c, lifetime)
        \/ AsUser(c) \/ ActorToken(c) \/ Rejected(c)
    BY <1>2 DEF Step, Arrive, Fault, Forward, NotAllowed, Forwarded, AsService, AuthFails,
                ExchangeFails, Unreachable, Broken, Responds, StreamEnds
  <2>. QED
    BY <1>1, <2>2, <2>3, <2>4, <2>5, <2>6
<1>3. ASSUME NEW k \in Confs \cup {None}, Configure(k) PROVE CacheInv'
  BY <1>1, <1>3 DEF Configure
<1>4. CASE Tick \/ UNCHANGED vars
  BY <1>1, <1>4 DEF Tick, vars
<1>. QED
  BY <1>2, <1>3, <1>4 DEF Next

(* OBOTokenCache never holds more than max_entries tokens, whatever calls  *)
(* fill, use, invalidate and evict at the same time, and its order never   *)
(* loses or repeats a key: evicting one entry per insertion is enough.     *)
THEOREM CacheStaysBounded == Spec => []CacheBounded
<1>1. Init => CacheInv
  <2>. SUFFICES ASSUME Init PROVE CacheInv
    OBVIOUS
  <2>1. order = <<>> /\ order \in Seq(Key) /\ Len(order) = 0
    BY EmptySeq DEF Init
  <2>2. Distinct(order) /\ \A k \in Key : store[k] # None <=> In(k, order)
    BY <2>1 DEF Init, Distinct, In
  <2>. QED
    BY <2>1, <2>2, ProxyAssumption DEF CacheInv, Ordered
<1>2. CacheInv => CacheBounded
  <2>. SUFFICES ASSUME CacheInv PROVE CacheBounded
    OBVIOUS
  <2>1. DOMAIN order = 1 .. Len(order)
    BY DEF CacheInv, Ordered
  <2>. QED
    BY <2>1 DEF CacheInv, Ordered, CacheBounded, Distinct, In
<1>. QED
  BY <1>1, <1>2, NextOrdered, ProxyInvariant, PTL DEF Spec
=============================================================================
