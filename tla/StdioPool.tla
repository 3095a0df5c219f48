----------------------------- MODULE StdioPool -----------------------------
(***************************************************************************)
(* StdioPool: long-lived stdio server processes, here for one server id    *)
(* (entries of different ids share nothing but the dictionary).            *)
(*                                                                         *)
(* An entry is an object: it can be popped from the dictionary while       *)
(* callers still wait on its lock or on its ready event, so entries have   *)
(* identities.  An entry nobody refers to any more is Blank, and its       *)
(* identity is used again, once its supervisor is over or was asked to     *)
(* stop: what that supervisor still does is read by nobody.                *)
(*                                                                         *)
(* A caller's step runs from one suspension point of session() to the      *)
(* next: the entry's lock when it is held, the ready event, and _discard's *)
(* wait for a cancelled supervisor.                                        *)
(***************************************************************************)
EXTENDS Naturals, Sequences, FiniteSets

CONSTANTS
    Callers,       \* concurrent callers of session(): proxy, health, discovery
    Entries,       \* identities of _Entry objects
    None,          \* no entry, no caller
    Barred,        \* callers whose copy of the record may name a command that is not allowed
    Closers,       \* which of "close" and "close_all" somebody calls
    SlowTeardown   \* whether a cancelled supervisor may outlive _discard's 5 s

ASSUME PoolAssumption ==
    /\ Entries \subseteq Nat
    /\ None \notin Entries /\ None \notin Callers
    /\ Barred \subseteq Callers
    /\ Closers \subseteq {"close", "close_all"}
    /\ SlowTeardown \in BOOLEAN

VARIABLES
    current,   \* self._entries.get(server_id)
    entry,     \* the _Entry objects
    caller     \* where each caller stands in session()

vars == <<current, entry, caller>>

(* task: not created; before the end of the handshake; holding the session *)
(* open; over.  cancelled: task.cancel() was called.                       *)
Entry == [task : {"none", "starting", "serving", "done"}, ready : BOOLEAN, session : BOOLEAN,
          stop : BOOLEAN, cancelled : BOOLEAN, lock : Callers \cup {None}, queue : Seq(Callers)]

Blank == [task |-> "none", ready |-> FALSE, session |-> FALSE, stop |-> FALSE,
          cancelled |-> FALSE, lock |-> None, queue |-> <<>>]

(* mine: the entry whose lock is taken; want: the one whose ready event is *)
(* awaited; dying: the one whose supervisor _discard waits for, before a   *)
(* new start ("restart") or before raising ("giveup").                     *)
Caller == [at : {"idle", "lock", "ready", "restart", "giveup"}, mine : Entries \cup {None},
           want : Entries \cup {None}, dying : Entries \cup {None}]

Idle == [at |-> "idle", mine |-> None, want |-> None, dying |-> None]

TypeOK ==
    /\ current \in Entries \cup {None}
    /\ entry \in [Entries -> Entry]
    /\ caller \in [Callers -> Caller]
    /\ \A c \in Callers : caller[c].at # "idle" => caller[c].mine \in Entries

Init ==
    /\ current = None
    /\ entry = [e \in Entries |-> Blank]
    /\ caller = [c \in Callers |-> Idle]

-----------------------------------------------------------------------------
(* Objects *)

Live(x) == x.task \in {"starting", "serving"}

RefsOf(cur, cs) == {cur} \cup UNION {{cs[c].mine, cs[c].want, cs[c].dying} : c \in Callers}

(* A process that nobody asked to stop. *)
Meant(x) == Live(x) /\ ~x.stop

Unused == {e \in Entries : e \notin RefsOf(current, caller) /\ ~Meant(entry[e])}

Fresh(e) == e \in Unused /\ \A f \in Unused : e <= f

(* The next state: dictionary content cur, callers cs and entries es, the  *)
(* objects nobody refers to any more left out.                             *)
Settle(es, cur, cs) ==
    /\ current' = cur
    /\ caller' = cs
    /\ entry' = [e \in Entries |-> IF e \in RefsOf(cur, cs) \/ Meant(es[e]) THEN es[e] ELSE Blank]

(* Mutant of SetDefault: an entry is always made. *)
SetDefaultAlwaysNew(cur, e) == Fresh(e)

(* setdefault on dictionary content cur: e is the stored entry or a new one. *)
SetDefault(cur, e) == IF cur = None THEN Fresh(e) ELSE e = cur

(* Mutant of Stopped: the entry is popped and its process forgotten. *)
StoppedNot(x) == x

(* _discard: stop is set and a supervisor that is not over is cancelled.   *)
(* Its caller then waits for that supervisor.                              *)
Stopped(x) == [x EXCEPT !.stop = TRUE, !.cancelled = Live(x)]

Popped(es, cur) == IF cur = None THEN es ELSE [es EXCEPT ![cur] = Stopped(@)]

DiscardWaits(es, cur) == cur # None /\ Live(es[cur])

-----------------------------------------------------------------------------
(* session() *)

(* Mutant of Leave: the lock is not released. *)
LeaveLocked(c, lk, es, cur) == Settle(es, cur, [caller EXCEPT ![c] = Idle])

(* Mutant of Leave: the lock of the entry the name is bound to by then. *)
LeaveRebound(c, lk, es, cur) ==
    LET bound == IF caller[c].at = "ready" THEN caller[c].want ELSE lk IN
    Settle([es EXCEPT ![bound].lock = None], cur, [caller EXCEPT ![c] = Idle])

(* c returns or raises; the lock of lk is released. *)
Leave(c, lk, es, cur) ==
    Settle([es EXCEPT ![lk].lock = None], cur, [caller EXCEPT ![c] = Idle])

(* _discard, up to its wait: the stored entry is popped and stopped. *)
DiscardThen(c, lk, es, cur, at) ==
    Settle(Popped(es, cur), None,
           [caller EXCEPT ![c] = [at |-> at, mine |-> lk, want |-> None, dying |-> cur]])

(* The start failed or took too long: discard, then raise. *)
GiveUp(c, lk, es, cur) ==
    \/ DiscardWaits(es, cur) /\ DiscardThen(c, lk, es, cur, "giveup")
    \/ ~DiscardWaits(es, cur) /\ Leave(c, lk, Popped(es, cur), None)

(* ready is set: by a session, or by a supervisor that is over. *)
Woken(c, lk, e, es, cur) ==
    \/ es[e].session /\ Leave(c, lk, es, cur)
    \/ ~es[e].session /\ GiveUp(c, lk, es, cur)

(* The supervisor of e is created unless it has one, and c waits for ready. *)
(* A command that is not on the allowlist raises instead.                  *)
StartAndWait(c, lk, e, es, cur) ==
    \/ es[e].task = "none" /\ c \in Barred /\ Leave(c, lk, es, cur)
    \/ es[e].ready /\ Woken(c, lk, e, es, cur)
    \/ /\ ~es[e].ready
       /\ Settle([es EXCEPT ![e].task = IF @ = "none" THEN "starting" ELSE @], cur,
                 [caller EXCEPT ![c] = [at |-> "ready", mine |-> lk, want |-> e, dying |-> None]])

(* After a discard: the entry found or made by setdefault is started. *)
Restart(c, lk, es, cur) ==
    \E e \in Entries : SetDefault(cur, e) /\ StartAndWait(c, lk, e, es, e)

(* The body of session(), with the lock of lk just taken. *)
Body(c, lk, es, cur) ==
    \/ /\ es[lk].ready /\ es[lk].session
       /\ Leave(c, lk, es, cur)
    \/ /\ ~(es[lk].ready /\ es[lk].session)
       /\ es[lk].task = "done"
       /\ \/ DiscardWaits(es, cur) /\ DiscardThen(c, lk, es, cur, "restart")
          \/ ~DiscardWaits(es, cur) /\ Restart(c, lk, Popped(es, cur), None)
    \/ /\ ~(es[lk].ready /\ es[lk].session)
       /\ es[lk].task # "done"
       /\ StartAndWait(c, lk, lk, es, cur)

(* The call finds the lock free, or queues for it. *)
Enter(c) ==
    /\ caller[c].at = "idle"
    /\ \E e \in Entries :
         /\ SetDefault(current, e)
         /\ \/ /\ entry[e].lock = None /\ entry[e].queue = <<>>
               /\ Body(c, e, [entry EXCEPT ![e].lock = c], e)
            \/ /\ entry[e].lock # None \/ entry[e].queue # <<>>
               /\ Settle([entry EXCEPT ![e].queue = Append(@, c)], e,
                         [caller EXCEPT ![c] = [Idle EXCEPT !.at = "lock", !.mine = e]])

(* asyncio.Lock wakes its waiters in order. *)
Acquire(c) ==
    LET e == caller[c].mine IN
    /\ caller[c].at = "lock"
    /\ entry[e].lock = None
    /\ entry[e].queue # <<>> /\ Head(entry[e].queue) = c
    /\ Body(c, e, [entry EXCEPT ![e].lock = c, ![e].queue = Tail(@)], current)

Wake(c) ==
    /\ caller[c].at = "ready"
    /\ entry[caller[c].want].ready
    /\ Woken(c, caller[c].mine, caller[c].want, entry, current)

(* START_TIMEOUT_SECONDS went by. *)
StartTimeout(c) ==
    /\ caller[c].at = "ready"
    /\ ~entry[caller[c].want].ready
    /\ GiveUp(c, caller[c].mine, entry, current)

(* asyncio.wait([task], timeout=5) came back. *)
Discarded(c) ==
    /\ caller[c].at \in {"restart", "giveup"}
    /\ SlowTeardown \/ ~Live(entry[caller[c].dying])
    /\ \/ caller[c].at = "restart" /\ Restart(c, caller[c].mine, entry, current)
       \/ caller[c].at = "giveup" /\ Leave(c, caller[c].mine, entry, current)

-----------------------------------------------------------------------------
(* The supervisor task of an entry *)

Supervise(e, x) == Settle([entry EXCEPT ![e] = x], current, caller)

(* The handshake succeeded. *)
StartOk(e) ==
    /\ entry[e].task = "starting" /\ ~entry[e].cancelled
    /\ Supervise(e, [entry[e] EXCEPT !.task = "serving", !.session = TRUE, !.ready = TRUE])

(* Mutant of Over: the waiters are not woken. *)
OverSilently(x) == [x EXCEPT !.task = "done", !.session = FALSE]

(* The finally clause: no session, and whoever waits is woken. *)
Over(x) == [x EXCEPT !.task = "done", !.session = FALSE, !.ready = TRUE]

(* The command could not be run, or the handshake failed. *)
StartFail(e) ==
    /\ entry[e].task = "starting"
    /\ Supervise(e, Over(entry[e]))

(* The process went away by itself and the transport raised. *)
Exit(e) ==
    /\ entry[e].task = "serving" /\ ~entry[e].stop
    /\ Supervise(e, Over(entry[e]))

(* Asked to stop or cancelled: the transport is closed, then finally. *)
Teardown(e) ==
    /\ \/ Live(entry[e]) /\ entry[e].cancelled
       \/ entry[e].task = "serving" /\ entry[e].stop
    /\ Supervise(e, Over(entry[e]))

-----------------------------------------------------------------------------
(* close and close_all.  What they wait for afterwards changes nothing,    *)
(* except that close_all cancels the supervisors that did not stop.        *)
Close ==
    /\ "close" \in Closers
    /\ current # None
    /\ Settle(Popped(entry, current), None, caller)

CloseAll ==
    /\ "close_all" \in Closers
    /\ current # None
    /\ Settle([entry EXCEPT ![current].stop = TRUE], None, caller)

CloseAllTimeout(e) ==
    /\ Live(entry[e]) /\ entry[e].stop /\ ~entry[e].cancelled
    /\ Supervise(e, [entry[e] EXCEPT !.cancelled = TRUE])

-----------------------------------------------------------------------------

Session(c) == Acquire(c) \/ Wake(c) \/ StartTimeout(c) \/ Discarded(c)

Next ==
    \/ \E c \in Callers : Enter(c) \/ Acquire(c) \/ Wake(c) \/ StartTimeout(c) \/ Discarded(c)
    \/ \E e \in Entries : StartOk(e) \/ StartFail(e) \/ Exit(e) \/ Teardown(e) \/ CloseAllTimeout(e)
    \/ Close
    \/ CloseAll

Spec == Init /\ [][Next]_vars

(* The event loop runs every task that can go on, timeouts expire, and the *)
(* SDK's teardown is bounded.                                              *)
FairSpec ==
    /\ Spec
    /\ \A c \in Callers : WF_vars(Session(c))
    /\ \A e \in Entries : WF_vars(Teardown(e))

-----------------------------------------------------------------------------
(* Properties *)

(* A process that nobody asked to stop is the one in the dictionary, so    *)
(* that close and close_all can reach it: no interleaving of starts,       *)
(* failures, timeouts and discards leaks one.                              *)
NoOrphanProcess ==
    \A e \in Entries : Meant(entry[e]) => current = e

(* Nobody waits for a start that is not going on and was never reported:   *)
(* the supervisor wakes its waiters however it ends.                       *)
NoLostWakeup ==
    \A c \in Callers :
        caller[c].at = "ready" => Live(entry[caller[c].want]) \/ entry[caller[c].want].ready

Inside(x, e) == x.at \in {"ready", "restart", "giveup"} /\ x.mine = e

Queued(x, e) == x.at = "lock" /\ x.mine = e

(* An entry's lock is held exactly by the caller inside its session()      *)
(* block, and its queue is exactly the callers that wait, each once.  So   *)
(* starts of one entry are serialized, and no return, failure, timeout or  *)
(* discard, although it rebinds the entry under the lock, leaves a lock    *)
(* that nobody releases or a waiter that nobody wakes.                     *)
LockFollowsCallers ==
    \A e \in Entries :
        LET q == entry[e].queue IN
        /\ \A c \in Callers : entry[e].lock = c <=> Inside(caller[c], e)
        /\ \A c \in Callers : Queued(caller[c], e) <=> \E i \in DOMAIN q : q[i] = c
        /\ \A i, j \in DOMAIN q : q[i] = q[j] => i = j

(* The pool implements SingleProcess: one process per server that is meant *)
(* to run, and no new one before that was stopped or ended.                *)
Promise == INSTANCE SingleProcess
              WITH Processes <- Entries,
                   running <- {e \in Entries : Meant(entry[e])}

OneProcess == Promise!Spec

(* Every call of session() returns or raises. *)
CallsEnd == \A c \in Callers : caller[c].at # "idle" ~> caller[c].at = "idle"
=============================================================================
