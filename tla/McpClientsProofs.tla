-------------------------- MODULE McpClientsProofs --------------------------
(***************************************************************************)
(* Proofs about McpClients, for any number of servers, registrations and   *)
(* passes: a server has one handshake connection at a time, and a token    *)
(* the cache would attach is still valid at its issuer.                    *)
(***************************************************************************)
EXTENDS McpClients, TLAPS

(* What a pass needs its credentials for follows from where it is: only a  *)
(* pass that queued for the lock opens a connection.                       *)
Aimed(p) ==
    /\ p.at \in {"auth", "post"} => p.goal = "post"
    /\ p.at \in {"queue", "open"} => p.goal = "open"

Connecting(p) == p.goal = "open" /\ p.at \in {"token", "open", "store"}

InLine(x, q) == \E i \in 1 .. Len(q) : q[i] = x

Holder(x, q) == q # <<>> /\ Head(q) = x

(* The passes against one server and its lock: who waits is in line, who   *)
(* is connected holds the lock.                                            *)
LockFollowed(s) ==
    \A x \in Roles :
        /\ Aimed(pass[x][s])
        /\ pass[x][s].at = "queue" => InLine(x, lock[s])
        /\ Connecting(pass[x][s]) => Holder(x, lock[s])

(* A cached token would be used, and the cache overestimates what is left  *)
(* of it by no more than a token request takes.                            *)
TokensUsable ==
    \A s \in Servers : tokens[s] # NoToken =>
        tokens[s].left > Skew /\ tokens[s].left <= tokens[s].real + Transit

ClientsInv == TypeOK /\ (\A s \in Servers : LockFollowed(s)) /\ TokensUsable

-----------------------------------------------------------------------------
(* The lock's queue *)

(* Joining the queue puts one in line and changes nobody's place. *)
LEMMA Joined ==
  ASSUME NEW q \in Seq(Roles), NEW r \in Roles
  PROVE  /\ Append(q, r) \in Seq(Roles)
         /\ InLine(r, Append(q, r))
         /\ \A x \in Roles : InLine(x, q) => InLine(x, Append(q, r))
         /\ \A x \in Roles : Holder(x, q) => Holder(x, Append(q, r))
  <1>1. /\ Append(q, r) \in Seq(Roles) /\ Len(Append(q, r)) = Len(q) + 1 /\ Len(q) \in Nat
        /\ Append(q, r)[Len(q) + 1] = r /\ Append(q, r) # <<>>
        /\ \A i \in 1 .. Len(q) : Append(q, r)[i] = q[i]
    OBVIOUS
  <1>2. InLine(r, Append(q, r))
    BY <1>1 DEF InLine
  <1>3. ASSUME NEW x \in Roles, InLine(x, q) PROVE InLine(x, Append(q, r))
    BY <1>1, <1>3 DEF InLine
  <1>4. ASSUME NEW x \in Roles, Holder(x, q) PROVE Holder(x, Append(q, r))
    BY <1>1, <1>4 DEF Holder
  <1> QED
    BY <1>1, <1>2, <1>3, <1>4

(* When the holder leaves, everyone else is still in line. *)
LEMMA Left ==
  ASSUME NEW q \in Seq(Roles), NEW r \in Roles, Holder(r, q)
  PROVE  /\ Tail(q) \in Seq(Roles)
         /\ \A x \in Roles : x # r /\ InLine(x, q) => InLine(x, Tail(q))
  <1>1. /\ Tail(q) \in Seq(Roles) /\ Len(q) \in Nat \ {0} /\ Len(Tail(q)) = Len(q) - 1
        /\ \A i \in 1 .. Len(q) - 1 : Tail(q)[i] = q[i + 1]
        /\ q[1] = r
    BY DEF Holder
  <1>2. ASSUME NEW x \in Roles, x # r, InLine(x, q) PROVE InLine(x, Tail(q))
    <2>1. PICK i \in 1 .. Len(q) : q[i] = x
      BY <1>2 DEF InLine
    <2>2. i - 1 \in 1 .. Len(Tail(q)) /\ Tail(q)[i - 1] = x
      BY <1>1, <1>2, <2>1
    <2> QED
      BY <2>2 DEF InLine
  <1> QED
    BY <1>1, <1>2

(* What a step of pass r against server s may do to the lock: go on within *)
(* its rights, join the queue, leave the lock, or leave it and join again. *)
Stays(r, s, q, l) == l = lock[s] /\ q.at # "queue" /\ (Connecting(q) => Holder(r, lock[s]))

Joins(r, s, q, l) == l = Append(lock[s], r) /\ ~Connecting(q)

Leaves(r, s, q, l) ==
    Holder(r, lock[s]) /\ l = Tail(lock[s]) /\ ~Connecting(q) /\ q.at # "queue"

Returns(r, s, q, l) == Holder(r, lock[s]) /\ l = Append(Tail(lock[s]), r) /\ ~Connecting(q)

(* Each of the four keeps the lock of the server followed. *)
LEMMA PassStep ==
  ASSUME TypeOK, NEW s \in Servers, LockFollowed(s), NEW r \in Roles, NEW q \in Pass, Aimed(q),
         pass'[r][s] = q, \A x \in Roles : x # r => pass'[x][s] = pass[x][s],
         \/ Stays(r, s, q, lock'[s]) \/ Joins(r, s, q, lock'[s])
         \/ Leaves(r, s, q, lock'[s]) \/ Returns(r, s, q, lock'[s])
  PROVE  LockFollowed(s)' /\ lock'[s] \in Seq(Roles)
  <1>0. lock[s] \in Seq(Roles)
    BY DEF TypeOK
  <1>1. CASE Stays(r, s, q, lock'[s])
    BY <1>0, <1>1 DEF Stays, LockFollowed
  <1>2. CASE Joins(r, s, q, lock'[s])
    <2>1. /\ lock'[s] \in Seq(Roles) /\ InLine(r, lock'[s])
          /\ \A x \in Roles : InLine(x, lock[s]) => InLine(x, lock'[s])
          /\ \A x \in Roles : Holder(x, lock[s]) => Holder(x, lock'[s])
      BY <1>0, <1>2, Joined DEF Joins
    <2> QED
      BY <1>2, <2>1 DEF Joins, LockFollowed
  <1>3. CASE Leaves(r, s, q, lock'[s])
    <2>1. /\ lock'[s] \in Seq(Roles)
          /\ \A x \in Roles : x # r /\ InLine(x, lock[s]) => InLine(x, lock'[s])
      BY <1>0, <1>3, Left DEF Leaves
    <2>2. \A x \in Roles : x # r => ~Connecting(pass[x][s])
      BY <1>3 DEF Leaves, LockFollowed, Holder
    <2> QED
      BY <1>3, <2>1, <2>2 DEF Leaves, LockFollowed
  <1>4. CASE Returns(r, s, q, lock'[s])
    <2>1. /\ Tail(lock[s]) \in Seq(Roles)
          /\ \A x \in Roles : x # r /\ InLine(x, lock[s]) => InLine(x, Tail(lock[s]))
      BY <1>0, <1>4, Left DEF Returns
    <2>2. /\ lock'[s] \in Seq(Roles) /\ InLine(r, lock'[s])
          /\ \A x \in Roles : InLine(x, Tail(lock[s])) => InLine(x, lock'[s])
      BY <1>4, <2>1, Joined DEF Returns
    <2>3. \A x \in Roles : x # r => ~Connecting(pass[x][s])
      BY <1>4 DEF Returns, LockFollowed, Holder
    <2> QED
      BY <1>4, <2>1, <2>2, <2>3 DEF Returns, LockFollowed
  <1> QED
    BY <1>1, <1>2, <1>3, <1>4

(* The same over all servers, for a step that changes one pass. *)
LEMMA OnePass ==
  ASSUME ClientsInv, NEW s \in Servers, NEW r \in Roles, NEW q \in Pass, Aimed(q), Go(r, s, q),
         NEW l, lock' = [lock EXCEPT ![s] = l],
         \/ Stays(r, s, q, l) \/ Joins(r, s, q, l) \/ Leaves(r, s, q, l) \/ Returns(r, s, q, l)
  PROVE  /\ pass' \in [Roles -> [Servers -> Pass]]
         /\ lock' \in [Servers -> Seq(Roles)]
         /\ \A x \in Servers : LockFollowed(x)'
  <1>0. TypeOK /\ \A x \in Servers : LockFollowed(x)
    BY DEF ClientsInv
  <1>1. /\ pass \in [Roles -> [Servers -> Pass]] /\ lock \in [Servers -> Seq(Roles)]
    BY <1>0 DEF TypeOK
  <1>2. /\ pass' \in [Roles -> [Servers -> Pass]] /\ pass'[r][s] = q
        /\ \A x \in Roles : x # r => pass'[x][s] = pass[x][s]
        /\ \A y \in Servers : y # s => \A x \in Roles : pass'[x][y] = pass[x][y]
        /\ lock'[s] = l /\ \A y \in Servers : y # s => lock'[y] = lock[y]
    BY <1>1 DEF Go
  <1>3. LockFollowed(s)' /\ lock'[s] \in Seq(Roles)
    BY <1>0, <1>2, PassStep
  <1>4. ASSUME NEW y \in Servers, y # s PROVE LockFollowed(y)'
    BY <1>0, <1>2, <1>4 DEF LockFollowed
  <1>5. lock' \in [Servers -> Seq(Roles)]
    BY <1>1, <1>3
  <1> QED
    BY <1>2, <1>3, <1>4, <1>5

(* A step that leaves all locks alone. *)
LEMMA OnePassStays ==
  ASSUME ClientsInv, NEW s \in Servers, NEW r \in Roles, NEW q \in Pass, Aimed(q), Go(r, s, q),
         lock' = lock, q.at # "queue", Connecting(q) => Holder(r, lock[s])
  PROVE  /\ pass' \in [Roles -> [Servers -> Pass]]
         /\ lock' \in [Servers -> Seq(Roles)]
         /\ \A x \in Servers : LockFollowed(x)'
  <1>1. lock' = [lock EXCEPT ![s] = lock[s]]
    BY DEF ClientsInv, TypeOK
  <1>2. Stays(r, s, q, lock[s])
    BY DEF Stays
  <1> QED
    BY <1>1, <1>2, OnePass

(* A connected pass holds the lock. *)
LEMMA ConnectedHolds ==
  ASSUME ClientsInv, NEW s \in Servers, NEW r \in Roles
  PROVE  /\ pass[r][s] \in Pass /\ Aimed(pass[r][s])
         /\ Connecting(pass[r][s]) => Holder(r, lock[s])
         /\ pass[r][s].at = "queue" => InLine(r, lock[s])
  BY DEF ClientsInv, TypeOK, LockFollowed

-----------------------------------------------------------------------------
(* How passes begin and get their credentials *)

(* Every pass begins well typed, with its aim. *)
LEMMA Beginnings ==
  ASSUME NEW c, c.cred \in 1 .. MaxRegistrations
  PROVE  /\ Idle \in Pass /\ Aimed(Idle) /\ ~Connecting(Idle) /\ Idle.at = "idle"
         /\ StatelessPass(c) \in Pass /\ Aimed(StatelessPass(c)) /\ ~Connecting(StatelessPass(c))
         /\ StatelessPass(c).at = "auth"
         /\ Queued(c) \in Pass /\ Aimed(Queued(c)) /\ ~Connecting(Queued(c))
         /\ Queued(c).at = "queue"
  <1>1. Idle \in Pass /\ Idle.at = "idle" /\ Idle.goal = "post"
    BY ClientsAssumption DEF Idle, Pass, Places, Versions
  <1>2. StatelessPass(c) \in Pass /\ StatelessPass(c).at = "auth" /\ StatelessPass(c).goal = "post"
    BY <1>1 DEF StatelessPass, Pass, Places
  <1>3. Queued(c) \in Pass /\ Queued(c).at = "queue" /\ Queued(c).goal = "open"
    BY <1>1 DEF Queued, Pass, Places
  <1> QED
    BY <1>1, <1>2, <1>3 DEF Aimed, Connecting

(* The pass a role begins against a record: stateless, or in the queue. *)
LEMMA BeginTyped ==
  ASSUME NEW r \in Roles, NEW c \in Record
  PROVE  /\ Begun(r, c) \in Pass /\ Aimed(Begun(r, c)) /\ ~Connecting(Begun(r, c))
         /\ Begun(r, c).at = IF Stateless(r, c.ver) THEN "auth" ELSE "queue"
  <1>1. c.cred \in 1 .. MaxRegistrations /\ c.ver \in Versions
    BY DEF Record
  <1>2. /\ StatelessPass(c) \in Pass /\ Aimed(StatelessPass(c)) /\ ~Connecting(StatelessPass(c))
        /\ StatelessPass(c).at = "auth"
        /\ Queued(c) \in Pass /\ Aimed(Queued(c)) /\ ~Connecting(Queued(c))
        /\ Queued(c).at = "queue"
    BY <1>1, Beginnings
  <1>3. LET v == [Queued(c) EXCEPT !.live = TRUE, !.ver = c.ver] IN
        v \in Pass /\ Aimed(v) /\ ~Connecting(v) /\ v.at = "queue"
    BY <1>1, <1>2 DEF Pass, Aimed, Connecting
  <1> QED
    BY <1>2, <1>3 DEF Begun

(* Asking for credentials leads to the aim or to the token endpoint. *)
LEMMA AuthorizedTyped ==
  ASSUME NEW p \in Pass, NEW s \in Servers, NEW q \in Authorized(p, s)
  PROVE  /\ q \in Pass /\ q.goal = p.goal /\ q.at \in {p.goal, "token"}
         /\ Aimed(q)
  <1>1. p.goal \in {"post", "open"}
    BY DEF Pass
  <1>2. CASE q = [p EXCEPT !.at = p.goal]
    BY <1>1, <1>2 DEF Pass, Places, Aimed
  <1>3. ASSUME NEW e \in Lives, q = [p EXCEPT !.at = "token", !.life = e]
        PROVE  q \in Pass /\ q.goal = p.goal /\ q.at = "token"
    <2>1. e \in 0 .. MaxLife
      BY ClientsAssumption
    <2> QED
      BY <1>3, <2>1 DEF Pass, Places
  <1> QED
    BY <1>2, <1>3 DEF Authorized, Aimed

-----------------------------------------------------------------------------
(* The steps *)

(* Nothing is registered, cached or under way at the start. *)
LEMMA InitClientsInv == Init => ClientsInv
  <1> SUFFICES ASSUME Init PROVE ClientsInv
    OBVIOUS
  <1>0. [cred |-> 1].cred \in 1 .. MaxRegistrations
    BY ClientsAssumption
  <1>1. Idle \in Pass /\ Aimed(Idle) /\ ~Connecting(Idle) /\ Idle.at = "idle"
    BY <1>0, Beginnings
  <1>2. TypeOK
    BY <1>1, ClientsAssumption DEF Init, TypeOK, Hints
  <1>3. \A s \in Servers : LockFollowed(s)
    BY <1>1 DEF Init, LockFollowed
  <1>4. TokensUsable
    BY DEF Init, TokensUsable
  <1> QED
    BY <1>2, <1>3, <1>4 DEF ClientsInv

(* The beginnings of a pass that one request asks for. *)
LEMMA BeginKeeps ==
  ASSUME ClientsInv, NEW s \in Servers, NEW r \in Roles, rec[s] # NoRecord, Begin(r, s)
  PROVE  /\ pass' \in [Roles -> [Servers -> Pass]]
         /\ lock' \in [Servers -> Seq(Roles)]
         /\ \A x \in Servers : LockFollowed(x)'
  <1> DEFINE q == Begun(r, rec[s])
  <1>1. rec[s] \in Record
    BY DEF ClientsInv, TypeOK
  <1>2. /\ q \in Pass /\ Aimed(q) /\ ~Connecting(q)
        /\ q.at = IF Stateless(r, rec[s].ver) THEN "auth" ELSE "queue"
    BY <1>1, BeginTyped
  <1>3. Go(r, s, q)
    BY DEF Begin
  <1> HIDE DEF q
  <1>4. CASE Stateless(r, rec[s].ver)
    BY <1>2, <1>3, <1>4, OnePassStays DEF Begin
  <1>5. CASE ~Stateless(r, rec[s].ver)
    <2>1. lock' = [lock EXCEPT ![s] = Append(lock[s], r)]
      BY <1>5 DEF Begin, Waiting
    <2>2. Joins(r, s, q, Append(lock[s], r))
      BY <1>2 DEF Joins
    <2> QED
      BY <1>2, <1>3, <2>1, <2>2, OnePass
  <1> QED
    BY <1>4, <1>5

(* Steps of the registry, the poll loop, the checker and the UI. *)
LEMMA RequestsKeep ==
  ASSUME ClientsInv, NEW s \in Servers,
         \/ Register(s) \/ Unregister(s) \/ HealthProbe(s) \/ View(s) \/ Refresh(s) \/ InfoProbe(s)
  PROVE  ClientsInv'
  <1>0. TypeOK /\ TokensUsable /\ \A x \in Servers : LockFollowed(x)
    BY DEF ClientsInv
  <1>1. CASE Register(s)
    <2>1. rec'[s] = [ver |-> "unknown", cred |-> issued + 1] /\ rec'[s] \in Record
      BY <1>0, <1>1, ClientsAssumption DEF Register, TypeOK, Record, Versions
    <2>2. /\ Begun("now", rec'[s]) \in Pass /\ Aimed(Begun("now", rec'[s]))
          /\ ~Connecting(Begun("now", rec'[s])) /\ Begun("now", rec'[s]).at = "auth"
      BY <2>1, BeginTyped DEF Stateless, Roles
    <2>3. /\ pass' \in [Roles -> [Servers -> Pass]]
          /\ lock' \in [Servers -> Seq(Roles)]
          /\ \A x \in Servers : LockFollowed(x)'
      BY <1>1, <2>2, OnePassStays DEF Register, Roles
    <2>4. /\ rec' \in [Servers -> {NoRecord} \cup Record] /\ issued' \in 0 .. MaxRegistrations
      BY <1>0, <1>1, <2>1, ClientsAssumption DEF Register, TypeOK
    <2> QED
      BY <1>0, <1>1, <2>3, <2>4 DEF Register, ClientsInv, TypeOK, TokensUsable
  <1>2. CASE Unregister(s)
    BY <1>0, <1>2 DEF Unregister, ClientsInv, TypeOK, TokensUsable, LockFollowed
  <1>3. CASE HealthProbe(s)
    <2>1. /\ pass' \in [Roles -> [Servers -> Pass]]
          /\ lock' \in [Servers -> Seq(Roles)]
          /\ \A x \in Servers : LockFollowed(x)'
      BY <1>3, BeginKeeps DEF HealthProbe, Roles
    <2> QED
      BY <1>0, <1>3, <2>1 DEF HealthProbe, ClientsInv, TypeOK, TokensUsable
  <1>4. CASE View(s)
    <2>1. /\ pass' \in [Roles -> [Servers -> Pass]]
          /\ lock' \in [Servers -> Seq(Roles)]
          /\ \A x \in Servers : LockFollowed(x)'
      BY <1>4, BeginKeeps DEF View, Roles
    <2>2. refreshes' \in 0 .. MaxRefreshes
      BY <1>0, <1>4, ClientsAssumption DEF View, TypeOK
    <2> QED
      BY <1>0, <1>4, <2>1, <2>2 DEF View, ClientsInv, TypeOK, TokensUsable
  <1>5. CASE Refresh(s)
    <2>1. /\ pass' \in [Roles -> [Servers -> Pass]]
          /\ lock' \in [Servers -> Seq(Roles)]
          /\ \A x \in Servers : LockFollowed(x)'
      BY <1>5, BeginKeeps DEF Refresh, Roles
    <2>2. refreshes' \in 0 .. MaxRefreshes /\ pacing' \in [Servers -> Hints]
      BY <1>0, <1>5, ClientsAssumption DEF Refresh, TypeOK, Hints
    <2> QED
      BY <1>0, <1>5, <2>1, <2>2 DEF Refresh, ClientsInv, TypeOK, TokensUsable
  <1>6. CASE InfoProbe(s)
    <2>1. /\ pass' \in [Roles -> [Servers -> Pass]]
          /\ lock' \in [Servers -> Seq(Roles)]
          /\ \A x \in Servers : LockFollowed(x)'
      BY <1>6, BeginKeeps DEF InfoProbe, Roles
    <2>2. refreshes' \in 0 .. MaxRefreshes
      BY <1>0, <1>6, ClientsAssumption DEF InfoProbe, TypeOK
    <2> QED
      BY <1>0, <1>6, <2>1, <2>2 DEF InfoProbe, ClientsInv, TypeOK, TokensUsable
  <1> QED
    BY <1>1, <1>2, <1>3, <1>4, <1>5, <1>6

(* A poll begins a pass against every server that is due. *)
LEMMA PollKeeps ==
  ASSUME ClientsInv, PollOnce
  PROVE  ClientsInv'
  <1>0. TypeOK /\ TokensUsable /\ \A x \in Servers : LockFollowed(x)
    BY DEF ClientsInv
  <1> DEFINE due == {s \in Registered : Due(s)}
             direct == {s \in due : ~Stateless("poll", rec[s].ver)}
  <1>1. /\ pass' = [pass EXCEPT !["poll"] =
                     [s \in Servers |-> IF s \in due THEN Begun("poll", rec[s]) ELSE @[s]]]
        /\ lock' = [s \in Servers |-> IF s \in direct THEN Append(lock[s], "poll") ELSE lock[s]]
        /\ pacing' = [s \in Servers |->
                       IF s \in direct \/ s \notin Registered THEN NoHint ELSE pacing[s]]
        /\ UNCHANGED <<rec, tokens, issued, refreshes>>
    BY DEF PollOnce, Waiting
  <1>2. "poll" \in Roles
    BY DEF Roles
  <1>3. ASSUME NEW s \in Servers
        PROVE  LockFollowed(s)' /\ lock'[s] \in Seq(Roles) /\ pass'["poll"][s] \in Pass
    <2>1. \A x \in Roles : x # "poll" => pass'[x][s] = pass[x][s]
      BY <1>0, <1>1 DEF TypeOK
    <2>2. CASE s \notin due
      BY <1>0, <1>1, <1>2, <2>1, <2>2 DEF TypeOK, LockFollowed
    <2>3. CASE s \in due
      <3>1. rec[s] \in Record
        BY <1>0, <2>3 DEF TypeOK, Registered
      <3>2. /\ Begun("poll", rec[s]) \in Pass /\ Aimed(Begun("poll", rec[s]))
            /\ ~Connecting(Begun("poll", rec[s]))
            /\ Begun("poll", rec[s]).at = IF Stateless("poll", rec[s].ver) THEN "auth" ELSE "queue"
        BY <1>2, <3>1, BeginTyped
      <3>3. pass'["poll"][s] = Begun("poll", rec[s])
        BY <1>0, <1>1, <1>2, <2>3 DEF TypeOK
      <3>4. \/ Stays("poll", s, Begun("poll", rec[s]), lock'[s])
            \/ Joins("poll", s, Begun("poll", rec[s]), lock'[s])
        BY <1>1, <2>3, <3>2 DEF Stays, Joins
      <3> QED
        BY <1>0, <1>2, <2>1, <3>2, <3>3, <3>4, PassStep
    <2> QED
      BY <2>2, <2>3
  <1>4. pass' \in [Roles -> [Servers -> Pass]]
    <2>1. pass \in [Roles -> [Servers -> Pass]]
      BY <1>0 DEF TypeOK
    <2>2. pass'["poll"] \in [Servers -> Pass]
      BY <1>1, <1>2, <1>3, <2>1
    <2> QED
      BY <1>1, <2>1, <2>2
  <1>5. lock' \in [Servers -> Seq(Roles)] /\ pacing' \in [Servers -> Hints]
    BY <1>0, <1>1, <1>3 DEF TypeOK, Hints
  <1> QED
    BY <1>0, <1>1, <1>3, <1>4, <1>5 DEF ClientsInv, TypeOK, TokensUsable

(* Credentials are asked for and arrive, or not. *)
LEMMA CredentialsKeep ==
  ASSUME ClientsInv, NEW r \in Roles, NEW s \in Servers,
         Authorize(r, s) \/ TokenArrives(r, s) \/ TokenFails(r, s)
  PROVE  ClientsInv'
  <1> DEFINE p == pass[r][s]
             done == [p EXCEPT !.at = p.goal, !.life = 0, !.age = 0]
             Kept == /\ pass' \in [Roles -> [Servers -> Pass]]
                     /\ lock' \in [Servers -> Seq(Roles)]
                     /\ \A x \in Servers : LockFollowed(x)'
  <1>0. TypeOK /\ TokensUsable
    BY DEF ClientsInv
  <1>1. p \in Pass /\ Aimed(p) /\ (Connecting(p) => Holder(r, lock[s]))
    BY ConnectedHolds
  <1>2. CASE Authorize(r, s)
    <2>1. PICK q \in Authorized(p, s) : Go(r, s, q)
      BY <1>2 DEF Authorize
    <2>2. q \in Pass /\ q.goal = p.goal /\ q.at \in {p.goal, "token"} /\ Aimed(q)
      BY <1>1, AuthorizedTyped
    <2>3. p.goal = "post"
      BY <1>1, <1>2 DEF Authorize, Aimed
    <2>4. Kept
      BY <1>2, <2>1, <2>2, <2>3, OnePassStays DEF Authorize, Connecting
    <2> QED
      BY <1>0, <1>2, <2>4 DEF Authorize, ClientsInv, TypeOK, TokensUsable
  <1>3. done \in Pass /\ done.goal = p.goal /\ done.at = p.goal /\ p.goal \in {"post", "open"}
    <2>1. p.goal \in {"post", "open"} /\ 0 \in 0 .. MaxLife /\ 0 \in 0 .. Transit
      BY <1>1, ClientsAssumption DEF Pass
    <2> QED
      BY <1>1, <2>1 DEF Pass, Places
  <1> HIDE DEF done
  <1>4. ASSUME p.at = "token", Go(r, s, done), lock' = lock PROVE Kept
    <2>1. Aimed(done) /\ done.at # "queue" /\ (Connecting(done) => Connecting(p))
      BY <1>3, <1>4 DEF Aimed, Connecting
    <2> QED
      BY <1>1, <1>3, <1>4, <2>1, OnePassStays
  <1>5. CASE TokenFails(r, s)
    <2>1. Kept
      BY <1>4, <1>5 DEF TokenFails, done
    <2> QED
      BY <1>0, <1>5, <2>1 DEF TokenFails, ClientsInv, TypeOK, TokensUsable
  <1>6. CASE TokenArrives(r, s)
    <2> DEFINE real == IF p.life > p.age THEN p.life - p.age ELSE 0
               t == [cred |-> p.cred, left |-> Expiry(p.life), real |-> real]
    <2>1. Kept
      BY <1>4, <1>6 DEF TokenArrives, done
    <2>2. tokens' = [tokens EXCEPT ![s] = Useful(t)]
      BY <1>6 DEF TokenArrives
    <2>3. /\ p.cred \in 1 .. MaxRegistrations /\ p.life \in 0 .. MaxLife /\ p.age \in 0 .. Transit
      BY <1>1 DEF Pass
    <2>4. t \in Cached
      BY <2>3, ClientsAssumption DEF Cached, Expiry
    <2>5. t.left > Skew => t.left <= t.real + Transit
      BY <2>3, ClientsAssumption DEF Expiry
    <2> HIDE DEF t
    <2>6. /\ Useful(t) \in {NoToken} \cup Cached
          /\ Useful(t) # NoToken => Useful(t).left > Skew /\ Useful(t).left <= Useful(t).real + Transit
      BY <2>4, <2>5 DEF Useful, Fresh
    <2>7. tokens' \in [Servers -> {NoToken} \cup Cached] /\ TokensUsable'
      BY <1>0, <2>2, <2>6 DEF TypeOK, TokensUsable
    <2> QED
      BY <1>0, <1>6, <2>1, <2>7 DEF TokenArrives, ClientsInv, TypeOK
  <1> QED
    BY <1>2, <1>5, <1>6

(* The stateless exchange. *)
LEMMA StatelessKeep ==
  ASSUME ClientsInv, NEW r \in Roles, NEW s \in Servers,
         Discovered(r, s) \/ NotStateless(r, s) \/ Listed(r, s)
  PROVE  ClientsInv'
  <1> DEFINE p == pass[r][s]
             Kept == /\ pass' \in [Roles -> [Servers -> Pass]]
                     /\ lock' \in [Servers -> Seq(Roles)]
                     /\ \A x \in Servers : LockFollowed(x)'
  <1>0. TypeOK /\ TokensUsable
    BY DEF ClientsInv
  <1>1. p \in Pass /\ Aimed(p) /\ p.at = "post" /\ p.goal = "post"
        /\ p.cred \in 1 .. MaxRegistrations
    BY ConnectedHolds DEF Discovered, NotStateless, Listed, Aimed, Pass
  <1>2. /\ Idle \in Pass /\ Aimed(Idle) /\ ~Connecting(Idle) /\ Idle.at = "idle"
        /\ Queued(p) \in Pass /\ Aimed(Queued(p)) /\ ~Connecting(Queued(p))
    BY <1>1, Beginnings
  <1>3. ASSUME Go(r, s, Idle), lock' = lock PROVE Kept
    BY <1>2, <1>3, OnePassStays
  <1>4. CASE Discovered(r, s)
    <2>1. CASE Go(r, s, Idle)
      BY <1>0, <1>3, <1>4, <2>1 DEF Discovered, ClientsInv, TypeOK, TokensUsable
    <2>2. CASE ~Go(r, s, Idle)
      <3>1. PICK v \in {"new", "old"} :
               \E q \in Authorized([p EXCEPT !.ver = v, !.found = TRUE], s) : Go(r, s, q)
        BY <1>4, <2>2 DEF Discovered
      <3>2. PICK q \in Authorized([p EXCEPT !.ver = v, !.found = TRUE], s) : Go(r, s, q)
        BY <3>1
      <3>3. /\ [p EXCEPT !.ver = v, !.found = TRUE] \in Pass
            /\ [p EXCEPT !.ver = v, !.found = TRUE].goal = "post"
        BY <1>1 DEF Pass, Versions
      <3>4. q \in Pass /\ q.goal = "post" /\ q.at \in {"post", "token"} /\ Aimed(q)
        BY <3>2, <3>3, AuthorizedTyped
      <3>5. Kept
        BY <1>4, <3>2, <3>4, OnePassStays DEF Discovered, Connecting
      <3> QED
        BY <1>0, <1>4, <3>5 DEF Discovered, ClientsInv, TypeOK, TokensUsable
    <2> QED
      BY <2>1, <2>2
  <1>5. CASE NotStateless(r, s)
    <2>1. CASE Go(r, s, Idle) /\ UNCHANGED <<lock, pacing>>
      BY <1>0, <1>3, <1>5, <2>1 DEF NotStateless, ClientsInv, TypeOK, TokensUsable
    <2>2. CASE /\ Go(r, s, Queued(p))
               /\ lock' = [lock EXCEPT ![s] = Append(lock[s], r)]
               /\ pacing' = [pacing EXCEPT ![s] = NoHint]
      <3>1. Joins(r, s, Queued(p), Append(lock[s], r))
        BY <1>2 DEF Joins
      <3>2. Kept
        BY <1>2, <2>2, <3>1, OnePass
      <3>3. pacing' \in [Servers -> Hints]
        BY <1>0, <2>2 DEF TypeOK, Hints
      <3> QED
        BY <1>0, <1>5, <3>2, <3>3 DEF NotStateless, ClientsInv, TypeOK, TokensUsable
    <2> QED
      BY <1>5, <2>1, <2>2 DEF NotStateless, Waiting
  <1>6. CASE Listed(r, s)
    <2> DEFINE q == [p EXCEPT !.at = "store", !.found = FALSE]
    <2>1. q \in Pass /\ q.at = "store" /\ q.goal = "post" /\ Go(r, s, q)
      BY <1>1, <1>6 DEF Listed, Pass, Places
    <2>2. Aimed(q) /\ ~Connecting(q)
      BY <2>1 DEF Aimed, Connecting
    <2> HIDE DEF q
    <2>3. Kept
      BY <1>6, <2>1, <2>2, OnePassStays DEF Listed
    <2>4. pacing' \in [Servers -> Hints]
      BY <1>0, <1>6 DEF Listed, TypeOK
    <2> QED
      BY <1>0, <1>6, <2>3, <2>4 DEF Listed, ClientsInv, TypeOK, TokensUsable
  <1> QED
    BY <1>4, <1>5, <1>6

(* The handshake connection, from the lock to the stored record. *)
LEMMA ConnectionKeeps ==
  ASSUME ClientsInv, NEW r \in Roles, NEW s \in Servers,
         \/ Enter(r, s) \/ OpenFails(r, s) \/ HandshakeFails(r, s) \/ Handshake(r, s) \/ Store(r, s)
  PROVE  ClientsInv'
  <1> DEFINE p == pass[r][s]
             Kept == /\ pass' \in [Roles -> [Servers -> Pass]]
                     /\ lock' \in [Servers -> Seq(Roles)]
                     /\ \A x \in Servers : LockFollowed(x)'
  <1>0. TypeOK /\ TokensUsable
    BY DEF ClientsInv
  <1>1. /\ p \in Pass /\ Aimed(p) /\ (Connecting(p) => Holder(r, lock[s]))
        /\ p.at = "queue" => InLine(r, lock[s])
    BY ConnectedHolds
  <1>2. p.cred \in 1 .. MaxRegistrations /\ p.ver \in Versions
    BY <1>1 DEF Pass
  <1>3. /\ Idle \in Pass /\ Aimed(Idle) /\ ~Connecting(Idle) /\ Idle.at = "idle"
        /\ StatelessPass(p) \in Pass /\ Aimed(StatelessPass(p)) /\ ~Connecting(StatelessPass(p))
        /\ StatelessPass(p).at = "auth"
        /\ Queued(p) \in Pass /\ Aimed(Queued(p)) /\ ~Connecting(Queued(p))
        /\ Queued(p).at = "queue"
    BY <1>2, Beginnings
  <1>4. CASE Enter(r, s)
    <2>1. lock[s] \in Seq(Roles)
      BY <1>0 DEF TypeOK
    <2>2. Holder(r, lock[s]) /\ p.goal = "open"
      BY <1>1, <1>4, <2>1 DEF Enter, Entered, Holder, InLine, Aimed
    <2>3. \E q \in Pass : /\ Go(r, s, q) /\ Aimed(q) /\ q.at # "queue"
      <3>1. CASE r = "info"
        <4>1. [p EXCEPT !.at = "open"] \in Pass /\ Aimed([p EXCEPT !.at = "open"])
          BY <1>1, <2>2 DEF Pass, Places, Aimed
        <4> QED
          BY <1>1, <1>4, <3>1, <4>1 DEF Enter, Pass
      <3>2. CASE r # "info"
        <4>1. PICK q \in Authorized(p, s) : Go(r, s, q)
          BY <1>4, <3>2 DEF Enter
        <4>2. q \in Pass /\ q.at \in {"open", "token"} /\ Aimed(q)
          BY <1>1, <2>2, <4>1, AuthorizedTyped
        <4> QED
          BY <4>1, <4>2
      <3> QED
        BY <3>1, <3>2
    <2>4. Kept
      BY <1>4, <2>2, <2>3, OnePassStays DEF Enter
    <2> QED
      BY <1>0, <1>4, <2>4 DEF Enter, ClientsInv, TypeOK, TokensUsable
  <1>5. CASE OpenFails(r, s) \/ HandshakeFails(r, s)
    <2> DEFINE q == AfterFailure(r, s)
               l == Requeued(r, s, Tail(lock[s]))
    <2>1. /\ p.at = "open" /\ Go(r, s, q) /\ lock' = [lock EXCEPT ![s] = l]
          /\ pacing' = FailureUnpaces(r, s)
          /\ UNCHANGED <<rec, tokens, issued, refreshes>>
      BY <1>5 DEF OpenFails, HandshakeFails
    <2>2. Holder(r, lock[s])
      BY <1>1, <2>1 DEF Aimed, Connecting
    <2>3. q \in Pass /\ Aimed(q) /\ ~Connecting(q)
      BY <1>3 DEF AfterFailure
    <2>4. Leaves(r, s, q, l) \/ Returns(r, s, q, l)
      BY <2>2, <2>3 DEF Leaves, Returns, Requeued, Waiting
    <2>5. pacing' \in [Servers -> Hints]
      BY <1>0, <2>1 DEF FailureUnpaces, TypeOK, Hints
    <2> HIDE DEF q, l
    <2>6. Kept
      BY <2>1, <2>3, <2>4, OnePass
    <2> QED
      BY <1>0, <2>1, <2>5, <2>6 DEF ClientsInv, TypeOK, TokensUsable
  <1>6. CASE Handshake(r, s)
    <2>0. p.at = "open" /\ p.goal = "open" /\ Holder(r, lock[s]) /\ UNCHANGED <<tokens, pacing, issued, refreshes>>
      BY <1>1, <1>6 DEF Handshake, Aimed, Connecting
    <2>1. CASE Discovers(r) \/ (r = "view" /\ ~p.live)
      <3> DEFINE q == [p EXCEPT !.at = "store", !.ver = "old"]
      <3>1. Go(r, s, q) /\ UNCHANGED <<rec, lock>>
        BY <1>6, <2>1 DEF Handshake, Discovers
      <3>2. q \in Pass /\ q.at = "store"
        BY <1>1 DEF Pass, Places, Versions
      <3>3. Aimed(q)
        BY <3>2 DEF Aimed
      <3> HIDE DEF q
      <3>4. Kept
        BY <2>0, <3>1, <3>2, <3>3, OnePassStays
      <3> QED
        BY <1>0, <2>0, <3>1, <3>4 DEF ClientsInv, TypeOK, TokensUsable
    <2>2. CASE r = "view" /\ p.live
      <3> DEFINE q0 == [p EXCEPT !.at = "store", !.goal = "post"]
      <3>0. q0 \in Pass /\ q0.at = "store" /\ q0.goal = "post"
        BY <1>1 DEF Pass, Places
      <3>1. PICK q \in {q0, Idle} :
               Go(r, s, q) /\ lock' = [lock EXCEPT ![s] = Tail(lock[s])] /\ rec' = rec
        BY <1>6, <2>2 DEF Handshake, Discovers, Released
      <3> HIDE DEF q0
      <3>2. q \in Pass /\ Aimed(q) /\ ~Connecting(q) /\ q.at # "queue"
        BY <1>3, <3>0 DEF Aimed, Connecting, Idle
      <3>3. Leaves(r, s, q, Tail(lock[s]))
        BY <2>0, <3>2 DEF Leaves
      <3>4. Kept
        BY <3>1, <3>2, <3>3, OnePass
      <3> QED
        BY <1>0, <2>0, <3>1, <3>4 DEF ClientsInv, TypeOK, TokensUsable
    <2>3. CASE r \in {"health", "info"}
      <3>1. /\ Go(r, s, Idle) /\ lock' = [lock EXCEPT ![s] = Tail(lock[s])]
            /\ \/ rec' = rec
               \/ rec[s] # NoRecord /\ rec' = [rec EXCEPT ![s].ver = "old"]
        BY <1>6, <2>3 DEF Handshake, Discovers, Released
      <3>2. Leaves(r, s, Idle, Tail(lock[s]))
        BY <1>3, <2>0 DEF Leaves
      <3>3. Kept
        BY <1>3, <3>1, <3>2, OnePass
      <3>4. rec' \in [Servers -> {NoRecord} \cup Record]
        BY <1>0, <3>1 DEF TypeOK, Record, Versions
      <3> QED
        BY <1>0, <2>0, <3>3, <3>4 DEF ClientsInv, TypeOK, TokensUsable
    <2> QED
      BY <2>1, <2>2, <2>3 DEF Roles, Discovers
  <1>7. CASE Store(r, s)
    <2> DEFINE q0 == [p EXCEPT !.goal = "post", !.live = TRUE]
    <2>0. p.at = "store" /\ q0 \in Pass /\ q0.at = "store" /\ q0.goal = "post"
      BY <1>1, <1>7 DEF Store, Pass
    <2>1. PICK q \in {q0, Idle} :
             /\ Go(r, s, q) /\ UNCHANGED <<tokens, pacing, issued, refreshes>>
             /\ lock' = IF p.goal = "open" THEN [lock EXCEPT ![s] = Tail(lock[s])] ELSE lock
      BY <1>7 DEF Store, Released
    <2> HIDE DEF q0
    <2>5. q \in Pass /\ Aimed(q) /\ ~Connecting(q) /\ q.at # "queue"
      BY <1>3, <2>0 DEF Aimed, Connecting, Idle
    <2>2. ASSUME p.goal = "open" PROVE Kept
      <3>1. Leaves(r, s, q, Tail(lock[s]))
        BY <1>1, <2>0, <2>2, <2>5 DEF Leaves, Connecting
      <3> QED
        BY <2>1, <2>2, <2>5, <3>1, OnePass
    <2>3. ASSUME p.goal # "open" PROVE Kept
      BY <2>1, <2>3, <2>5, OnePassStays
    <2>4. rec' \in [Servers -> {NoRecord} \cup Record]
      BY <1>0, <1>2, <1>7 DEF Store, TypeOK, Record
    <2> QED
      BY <1>0, <2>1, <2>2, <2>3, <2>4 DEF ClientsInv, TypeOK, TokensUsable
  <1> QED
    BY <1>4, <1>5, <1>6, <1>7

(* Time passes: the cached tokens lose what they have, the token requests  *)
(* under way come closer to their timeout.                                 *)
LEMMA TickKeeps ==
  ASSUME ClientsInv, Tick
  PROVE  ClientsInv'
  <1>0. TypeOK /\ TokensUsable /\ \A x \in Servers : LockFollowed(x)
    BY DEF ClientsInv
  <1>1. ASSUME NEW r \in Roles, NEW s \in Servers
        PROVE  /\ pass'[r][s] \in Pass
               /\ pass'[r][s].at = pass[r][s].at /\ pass'[r][s].goal = pass[r][s].goal
    <2>1. pass[r][s] \in Pass
      BY <1>0 DEF TypeOK
    <2>2. pass'[r][s] = IF pass[r][s].at = "token"
                        THEN [pass[r][s] EXCEPT !.age = pass[r][s].age + 1] ELSE pass[r][s]
      BY DEF Tick
    <2>3. CASE pass[r][s].at = "token"
      <3>1. pass[r][s].age + 1 \in 0 .. Transit
        BY <2>1, <2>3, ClientsAssumption DEF Tick, Pass
      <3> QED
        BY <2>1, <2>2, <2>3, <3>1 DEF Pass
    <2> QED
      BY <2>1, <2>2, <2>3
  <1>2. pass' \in [Roles -> [Servers -> Pass]]
    BY <1>1 DEF Tick
  <1>3. ASSUME NEW s \in Servers PROVE LockFollowed(s)'
    <2>1. lock' = lock
      BY DEF Tick
    <2> QED
      BY <1>0, <1>1, <2>1 DEF LockFollowed, Aimed, Connecting
  <1>4. ASSUME NEW s \in Servers, tokens[s] # NoToken
        PROVE  LET u == Aged(tokens[s]) IN
               u = NoToken \/ (u \in Cached /\ u.left > Skew /\ u.left <= u.real + Transit)
    <2> DEFINE t == tokens[s]
               u == [t EXCEPT !.left = @ - 1, !.real = IF @ = 0 THEN 0 ELSE @ - 1]
    <2>1. t \in Cached /\ t.left > Skew /\ t.left <= t.real + Transit
      BY <1>0, <1>4 DEF TypeOK, TokensUsable
    <2>2. /\ t.left \in 0 .. MaxLife /\ t.real \in 0 .. MaxLife
          /\ u.left = t.left - 1 /\ u.real = IF t.real = 0 THEN 0 ELSE t.real - 1
      BY <2>1 DEF Cached
    <2>3. /\ t.left - 1 \in 0 .. MaxLife
          /\ (IF t.real = 0 THEN 0 ELSE t.real - 1) \in 0 .. MaxLife
          /\ t.left - 1 <= (IF t.real = 0 THEN 0 ELSE t.real - 1) + Transit
      BY <2>1, <2>2, ClientsAssumption
    <2>4. u \in Cached /\ u.left <= u.real + Transit
      BY <2>1, <2>2, <2>3 DEF Cached
    <2>5. Aged(t) = Useful(u)
      BY <1>4 DEF Aged
    <2>6. Useful(u) = NoToken \/ (Useful(u) = u /\ u.left > Skew)
      BY DEF Useful, Fresh
    <2> HIDE DEF u
    <2> QED
      BY <2>4, <2>5, <2>6
  <1>5. tokens' \in [Servers -> {NoToken} \cup Cached] /\ TokensUsable'
    <2>1. tokens' = [s \in Servers |-> Aged(tokens[s])]
      BY DEF Tick
    <2>2. \A s \in Servers : tokens[s] = NoToken => Aged(tokens[s]) = NoToken
      BY DEF Aged
    <2> QED
      BY <1>4, <2>1, <2>2 DEF TokensUsable
  <1>6. pacing' \in [Servers -> Hints]
    <2>1. ASSUME NEW s \in Servers, pacing[s] \notin {NoHint, 0} PROVE pacing[s] - 1 \in 0 .. MaxHint
      BY <1>0, <2>1, ClientsAssumption DEF TypeOK, Hints
    <2> QED
      BY <1>0, <2>1 DEF Tick, TypeOK, Hints
  <1> QED
    BY <1>0, <1>2, <1>3, <1>5, <1>6 DEF Tick, ClientsInv, TypeOK

-----------------------------------------------------------------------------
(* Every step keeps the invariant. *)
LEMMA StepClientsInv == ClientsInv /\ [Next]_vars => ClientsInv'
  <1> SUFFICES ASSUME ClientsInv, [Next]_vars PROVE ClientsInv'
    OBVIOUS
  <1>1. CASE UNCHANGED vars
    BY <1>1 DEF vars, ClientsInv, TypeOK, LockFollowed, TokensUsable
  <1>2. ASSUME NEW r \in Roles, NEW s \in Servers, Step(r, s) PROVE ClientsInv'
    BY <1>2, CredentialsKeep, StatelessKeep, ConnectionKeeps DEF Step
  <1> QED
    BY <1>1, <1>2, RequestsKeep, PollKeeps, TickKeeps DEF Next

(* The inductive invariant of the passes: who is connected holds the lock, *)
(* who waits is in line, and a cached token is overestimated by at most    *)
(* the duration of a token request.                                        *)
THEOREM ClientsInvariant == Spec => []ClientsInv
  BY InitClientsInv, StepClientsInv, PTL DEF Spec

(* Every state is well typed, the lifetimes of tokens included. *)
THEOREM ClientsTyped == Spec => []TypeOK
  <1>1. ClientsInv => TypeOK
    BY DEF ClientsInv
  <1> QED
    BY <1>1, ClientsInvariant, PTL

(* A server has one handshake connection at a time, that of the holder of  *)
(* its lock, however passes of all kinds interleave and fail.              *)
THEOREM ConnectionsExclusive == Spec => []OneConnection
  <1>1. ClientsInv => OneConnection
    BY DEF ClientsInv, OneConnection, Connected, LockFollowed, Connecting, Holder
  <1> QED
    BY <1>1, ClientsInvariant, PTL

(* A token the cache would attach is valid at its issuer: the reserve of   *)
(* 30 s covers the 10 s a token request may take.                          *)
THEOREM ReusedTokensLive == Spec => []ReusableTokensAlive
  <1>1. ClientsInv => ReusableTokensAlive
    <2> SUFFICES ASSUME ClientsInv, NEW s \in Servers, tokens[s] # NoToken
                 PROVE  tokens[s].real > 0
      BY DEF ReusableTokensAlive
    <2>1. tokens[s] \in Cached /\ tokens[s].left > Skew /\ tokens[s].left <= tokens[s].real + Transit
      BY DEF ClientsInv, TypeOK, TokensUsable
    <2> QED
      BY <2>1, ClientsAssumption DEF Cached
  <1> QED
    BY <1>1, ClientsInvariant, PTL
=============================================================================
