-------------------------- MODULE StdioPoolProofs --------------------------
(***************************************************************************)
(* For any number of callers and entries: the stdio pool leaks no process, *)
(* loses no wakeup, strands no lock and implements SingleProcess.          *)
(*                                                                         *)
(* NoOrphanProcess alone is not inductive: a caller that holds the lock of *)
(* an entry could create a supervisor for it after the entry was popped.   *)
(* It cannot, because an entry some caller stands in always has one.  The  *)
(* same holds of the entry whose ready event a caller awaits, and a        *)
(* supervisor that is over has set it: no wakeup is lost.                  *)
(*                                                                         *)
(* LockFollowsCallers is carried through the helpers of session() by Held, *)
(* which says the same of everybody but the caller under way.              *)
(***************************************************************************)
EXTENDS StdioPool, TLAPS, SequenceTheorems

(* The parts of the inductive invariant, of a dictionary content, callers  *)
(* and entries that may still be on their way to the next state.           *)
Reachable(es, cur) == \A e \in Entries : Meant(es[e]) => cur = e

Started(es, cs) ==
    \A c \in Callers :
        /\ cs[c].at # "idle" => cs[c].mine \in Entries /\ es[cs[c].mine].task # "none"
        /\ cs[c].at = "ready" => cs[c].want \in Entries /\ es[cs[c].want].task # "none"

(* An entry without a supervisor was never reported ready and nobody waits *)
(* for its lock; one whose supervisor is over was reported.                *)
Quiet(es) ==
    \A e \in Entries :
        /\ es[e].task = "none" => ~es[e].ready /\ es[e].queue = <<>>
        /\ es[e].task = "done" => es[e].ready

(* Nobody holds the lock of an entry without a supervisor, except perhaps  *)
(* the caller in lk.                                                       *)
Unlocked(es, lk) == \A e \in Entries \ {lk} : es[e].task = "none" => es[e].lock = None

PoolInv ==
    /\ TypeOK
    /\ Quiet(entry)
    /\ Unlocked(entry, None)
    /\ Reachable(entry, current)
    /\ Started(entry, caller)

(* No process is replaced by another in one step. *)
NoSwitch(es) == \A p, q \in Entries : Meant(entry[p]) /\ Meant(es[q]) => p = q

Typed(es, cur) == es \in [Entries -> Entry] /\ cur \in Entries \cup {None}

(* What holds of the values the helpers of session() work on, for a caller *)
(* that holds the lock of lk.                                              *)
Work(es, cur, lk) ==
    /\ Typed(es, cur)
    /\ Quiet(es)
    /\ Unlocked(es, lk)
    /\ Reachable(es, cur)
    /\ Started(es, caller)
    /\ NoSwitch(es)

Done == PoolInv' /\ NoSwitch(entry')

(* Settle keeps every part: what it blanks is neither meant to run nor     *)
(* referred to.                                                            *)
LEMMA SettleKeeps ==
    ASSUME NEW es, NEW cur, NEW cs, Typed(es, cur), cs \in [Callers -> Caller],
           Quiet(es), Unlocked(es, None), Reachable(es, cur), Started(es, cs), NoSwitch(es), Settle(es, cur, cs)
    PROVE  Done
<1>. USE PoolAssumption
<1>1. Blank \in Entry
  BY EmptySeq DEF Blank, Entry
<1>2. TypeOK'
  BY <1>1 DEF TypeOK, Settle, Typed, Started
<1>3. ~Meant(Blank)
  BY DEF Meant, Live, Blank
<1>4. \A e \in Entries : Meant(entry'[e]) => Meant(es[e])
  BY <1>3 DEF Settle
<1>5. Reachable(entry', current') /\ NoSwitch(entry')
  BY <1>4 DEF Settle, Reachable, NoSwitch
<1>6. Started(entry', caller')
  <2>1. \A e \in Entries : e \in RefsOf(cur, cs) => entry'[e] = es[e]
    BY DEF Settle
  <2>2. \A c \in Callers : cs[c].mine \in RefsOf(cur, cs) /\ cs[c].want \in RefsOf(cur, cs)
    BY DEF RefsOf
  <2>. QED
    BY <2>1, <2>2 DEF Started, Settle
<1>7. Quiet(entry')
  BY DEF Quiet, Settle, Blank
<1>8. Unlocked(entry', None)
  BY DEF Unlocked, Settle, Blank
<1>. QED
  BY <1>2, <1>5, <1>6, <1>7, <1>8 DEF Done, PoolInv, Quiet, Unlocked, Reachable, Started

(* Idle and the positions a caller can take are well formed. *)
LEMMA CallerTypes ==
    ASSUME PoolInv, NEW c \in Callers, NEW lk \in Entries, NEW e \in Entries \cup {None}
    PROVE  /\ [caller EXCEPT ![c] = Idle] \in [Callers -> Caller]
           /\ [caller EXCEPT ![c] = [Idle EXCEPT !.at = "lock", !.mine = lk]] \in [Callers -> Caller]
           /\ [caller EXCEPT ![c] = [at |-> "ready", mine |-> lk, want |-> e, dying |-> None]]
                 \in [Callers -> Caller]
           /\ \A at \in {"restart", "giveup"} :
                 [caller EXCEPT ![c] = [at |-> at, mine |-> lk, want |-> None, dying |-> e]]
                    \in [Callers -> Caller]
BY DEF PoolInv, TypeOK, Caller, Idle

(* Releasing a lock touches neither task nor stop. *)
LEMMA ReleaseKeeps ==
    ASSUME PoolInv, NEW es, NEW cur, NEW lk \in Entries, Work(es, cur, lk), NEW c \in Callers \cup {None}
    PROVE  Work([es EXCEPT ![lk].lock = c], cur, lk)
<1>. DEFINE fs == [es EXCEPT ![lk].lock = c]
<1>1. fs \in [Entries -> Entry]
  BY DEF Work, Typed, Entry
<1>2. \A e \in Entries : /\ fs[e].task = es[e].task
                         /\ fs[e].stop = es[e].stop /\ fs[e].ready = es[e].ready
                         /\ fs[e].queue = es[e].queue
                         /\ e # lk => fs[e].lock = es[e].lock
  BY DEF Work, Typed, Entry
<1>3. \A e \in Entries : Meant(fs[e]) <=> Meant(es[e])
  BY <1>2 DEF Meant, Live
<1>. HIDE DEF fs
<1>4. Typed(fs, cur) /\ Reachable(fs, cur) /\ NoSwitch(fs)
  BY <1>1, <1>3 DEF Work, Typed, Reachable, NoSwitch
<1>5. Quiet(fs) /\ Started(fs, caller)
  BY <1>2 DEF Work, Quiet, Started
<1>6. Unlocked(fs, lk)
  BY <1>2 DEF Work, Unlocked
<1>. QED
  BY <1>4, <1>5, <1>6 DEF Work, fs

(* c returns or raises. *)
LEMMA LeaveKeeps ==
    ASSUME PoolInv, NEW es, NEW cur, NEW lk \in Entries, Work(es, cur, lk), NEW c \in Callers,
           Leave(c, lk, es, cur)
    PROVE  Done
<1>. DEFINE fs == [es EXCEPT ![lk].lock = None]
            cs == [caller EXCEPT ![c] = Idle]
<1>1. Work(fs, cur, lk)
  BY ReleaseKeeps
<1>2. cs \in [Callers -> Caller]
  BY CallerTypes
<1>3. Started(fs, cs)
  BY <1>1 DEF Work, Started, PoolInv, TypeOK, Idle
<1>4. Settle(fs, cur, cs)
  BY DEF Leave
<1>5. fs[lk].lock = None
  BY DEF Work, Typed, Entry
<1>. HIDE DEF fs, cs
<1>6. Unlocked(fs, None)
  BY <1>1, <1>5 DEF Work, Unlocked
<1>. QED
  BY <1>1, <1>2, <1>3, <1>4, <1>6, SettleKeeps DEF Work

(* Popping and stopping the stored entry leaves nothing that is meant to   *)
(* run.                                                                    *)
LEMMA PoppedKeeps ==
    ASSUME PoolInv, NEW es, NEW cur, NEW lk, Work(es, cur, lk)
    PROVE  /\ Work(Popped(es, cur), None, lk)
           /\ \A e \in Entries : ~Meant(Popped(es, cur)[e]) /\ Popped(es, cur)[e].task = es[e].task
<1>. DEFINE fs == Popped(es, cur)
<1>1. \A x \in Entry : /\ Stopped(x) \in Entry /\ Stopped(x).task = x.task
                       /\ Stopped(x).ready = x.ready /\ Stopped(x).queue = x.queue
                       /\ Stopped(x).lock = x.lock /\ ~Meant(Stopped(x))
  <2>. SUFFICES ASSUME NEW x \in Entry
                PROVE  /\ Stopped(x) \in Entry /\ Stopped(x).task = x.task
                       /\ Stopped(x).ready = x.ready /\ Stopped(x).queue = x.queue
                       /\ Stopped(x).lock = x.lock /\ ~Meant(Stopped(x))
    OBVIOUS
  <2>1. CASE Live(x)
    <3>1. Stopped(x) = [x EXCEPT !.stop = TRUE, !.cancelled = TRUE]
      BY <2>1 DEF Stopped
    <3>. QED
      BY <3>1 DEF Entry, Meant
  <2>2. CASE ~Live(x)
    <3>1. Stopped(x) = [x EXCEPT !.stop = TRUE, !.cancelled = FALSE]
      <4>1. Live(x) = FALSE
        BY <2>2 DEF Live
      <4>. QED
        BY <4>1 DEF Stopped
    <3>. QED
      BY <3>1 DEF Entry, Meant
  <2>. QED
    BY <2>1, <2>2
<1>2. fs \in [Entries -> Entry]
  BY <1>1 DEF Popped, Work, Typed
<1>3. \A e \in Entries : /\ fs[e].task = es[e].task /\ fs[e].ready = es[e].ready
                         /\ fs[e].queue = es[e].queue /\ fs[e].lock = es[e].lock
  BY <1>1 DEF Popped, Work, Typed
<1>4. \A e \in Entries : ~Meant(fs[e])
  BY <1>1, PoolAssumption DEF Popped, Work, Typed, Reachable
<1>. HIDE DEF fs
<1>5. Work(fs, None, lk)
  BY <1>2, <1>3, <1>4 DEF Work, Typed, Quiet, Unlocked, Reachable, Started, NoSwitch
<1>. QED
  BY <1>3, <1>4, <1>5 DEF fs

(* _discard up to its wait. *)
LEMMA DiscardKeeps ==
    ASSUME PoolInv, NEW es, NEW cur, NEW lk \in Entries, Work(es, cur, lk), NEW c \in Callers,
           es[lk].task # "none", NEW at \in {"restart", "giveup"},
           DiscardThen(c, lk, es, cur, at)
    PROVE  Done
<1>. DEFINE fs == Popped(es, cur)
            cs == [caller EXCEPT ![c] = [at |-> at, mine |-> lk, want |-> None, dying |-> cur]]
<1>1. Work(fs, None, lk) /\ fs[lk].task # "none"
  BY PoppedKeeps
<1>2. cs \in [Callers -> Caller]
  BY CallerTypes DEF Work, Typed
<1>3. Settle(fs, None, cs)
  BY DEF DiscardThen
<1>4. \A d \in Callers : cs[d] = caller[d] \/ (cs[d].mine = lk /\ cs[d].at # "ready")
  BY DEF PoolInv, TypeOK
<1>. HIDE DEF fs, cs
<1>5. Started(fs, cs)
  BY <1>1, <1>4 DEF Work, Started
<1>6. Unlocked(fs, None)
  BY <1>1 DEF Work, Unlocked
<1>. QED
  BY <1>1, <1>2, <1>3, <1>5, <1>6, SettleKeeps DEF Work

(* The start failed or took too long. *)
LEMMA GiveUpKeeps ==
    ASSUME PoolInv, NEW es, NEW cur, NEW lk \in Entries, Work(es, cur, lk), NEW c \in Callers,
           es[lk].task # "none", GiveUp(c, lk, es, cur)
    PROVE  Done
<1>1. CASE DiscardThen(c, lk, es, cur, "giveup")
  BY <1>1, DiscardKeeps
<1>2. CASE Leave(c, lk, Popped(es, cur), None)
  BY <1>2, PoppedKeeps, LeaveKeeps
<1>. QED
  BY <1>1, <1>2 DEF GiveUp

(* A supervisor is created only for the entry that is in the dictionary. *)
LEMMA StartKeeps ==
    ASSUME PoolInv, NEW es, NEW cur, NEW lk \in Entries, Work(es, cur, lk), NEW c \in Callers,
           NEW e \in Entries, es[lk].task # "none" \/ e = lk,
           es[e].task = "none" => cur = e /\ \A p \in Entries : Meant(entry[p]) => p = e,
           StartAndWait(c, lk, e, es, cur)
    PROVE  Done
<1>1. CASE Leave(c, lk, es, cur)
  BY <1>1, LeaveKeeps
<1>2. CASE es[e].ready /\ GiveUp(c, lk, es, cur)
  BY <1>2, GiveUpKeeps DEF Work, Quiet
<1>3. CASE Settle([es EXCEPT ![e].task = IF @ = "none" THEN "starting" ELSE @], cur,
                  [caller EXCEPT ![c] = [at |-> "ready", mine |-> lk, want |-> e, dying |-> None]])
  <2>. DEFINE fs == [es EXCEPT ![e].task = IF @ = "none" THEN "starting" ELSE @]
              cs == [caller EXCEPT ![c] = [at |-> "ready", mine |-> lk, want |-> e, dying |-> None]]
  <2>1. fs \in [Entries -> Entry]
    BY DEF Work, Typed, Entry
  <2>2. /\ \A f \in Entries : f # e => fs[f] = es[f]
        /\ fs[e].task # "none"
        /\ es[e].task # "none" => fs[e].task = es[e].task
        /\ es[e].task = "none" => fs[e].task = "starting"
        /\ fs[e].stop = es[e].stop /\ fs[e].ready = es[e].ready
        /\ fs[e].queue = es[e].queue /\ fs[e].lock = es[e].lock
    BY DEF Work, Typed, Entry
  <2>3. cs \in [Callers -> Caller]
    BY CallerTypes
  <2>4. \A d \in Callers : cs[d] = caller[d] \/ (cs[d].mine = lk /\ cs[d].want = e)
    BY DEF PoolInv, TypeOK
  <2>. HIDE DEF fs, cs
  <2>5. \A f \in Entries : Meant(fs[f]) => Meant(es[f]) \/ (f = e /\ es[e].task = "none")
    BY <2>2 DEF Meant, Live
  <2>6. Reachable(fs, cur) /\ NoSwitch(fs)
    BY <2>5 DEF Work, Reachable, NoSwitch
  <2>7. fs[lk].task # "none"
    BY <2>2
  <2>8. \A f \in Entries : es[f].task # "none" => fs[f].task # "none"
    BY <2>2
  <2>9. Started(fs, cs)
    BY <2>2, <2>4, <2>7, <2>8 DEF Work, Started
  <2>10. Settle(fs, cur, cs)
    BY <1>3 DEF fs, cs
  <2>11. Quiet(fs)
    BY <2>2 DEF Work, Quiet
  <2>12. Unlocked(fs, None)
    BY <2>2, <2>7 DEF Work, Unlocked
  <2>. QED
    BY <2>1, <2>3, <2>6, <2>9, <2>10, <2>11, <2>12, SettleKeeps DEF Work, Typed
<1>. QED
  BY <1>1, <1>2, <1>3 DEF StartAndWait, Woken

(* After a discard: the entry that setdefault finds or makes is started. *)
LEMMA RestartKeeps ==
    ASSUME PoolInv, NEW es, NEW cur, NEW lk \in Entries, Work(es, cur, lk), NEW c \in Callers,
           es[lk].task # "none",
           \A p \in Entries : Meant(entry[p]) => p = cur,
           Restart(c, lk, es, cur)
    PROVE  Done
<1>1. PICK e \in Entries : SetDefault(cur, e) /\ StartAndWait(c, lk, e, es, e)
  BY DEF Restart
<1>2. \A p \in Entries : Meant(entry[p]) => p = e
  BY <1>1, PoolAssumption DEF SetDefault
<1>3. Work(es, e, lk)
  BY <1>1, PoolAssumption DEF Work, Typed, Reachable, SetDefault
<1>. QED
  BY <1>1, <1>2, <1>3, StartKeeps

(* The body of session() with the lock just taken. *)
LEMMA BodyKeeps ==
    ASSUME PoolInv, NEW es, NEW cur, NEW lk \in Entries, Work(es, cur, lk), NEW c \in Callers,
           es[lk].task = "none" => cur = lk,
           \A p \in Entries : Meant(entry[p]) => p = cur,
           \A p \in Entries : Meant(entry[p]) => Meant(es[p]),
           Body(c, lk, es, cur)
    PROVE  Done
<1>1. CASE Leave(c, lk, es, cur)
  BY <1>1, LeaveKeeps
<1>2. CASE es[lk].task = "done" /\ DiscardThen(c, lk, es, cur, "restart")
  BY <1>2, DiscardKeeps
<1>3. CASE es[lk].task = "done" /\ ~DiscardWaits(es, cur) /\ Restart(c, lk, Popped(es, cur), None)
  <2>1. \A p \in Entries : ~Meant(entry[p])
    BY <1>3, PoolAssumption DEF DiscardWaits, Meant, Live
  <2>2. Work(Popped(es, cur), None, lk) /\ Popped(es, cur)[lk].task # "none"
    BY <1>3, PoppedKeeps
  <2>. QED
    BY <1>3, <2>1, <2>2, RestartKeeps
<1>4. CASE StartAndWait(c, lk, lk, es, cur)
  BY <1>4, StartKeeps
<1>. QED
  BY <1>1, <1>2, <1>3, <1>4 DEF Body

(* A new call. *)
LEMMA EnterKeeps ==
    ASSUME PoolInv, NEW c \in Callers, Enter(c)
    PROVE  Done
<1>0. PICK e \in Entries :
         /\ SetDefault(current, e)
         /\ \/ Body(c, e, [entry EXCEPT ![e].lock = c], e)
            \/ /\ entry[e].lock # None \/ entry[e].queue # <<>>
               /\ Settle([entry EXCEPT ![e].queue = Append(@, c)], e,
                         [caller EXCEPT ![c] = [Idle EXCEPT !.at = "lock", !.mine = e]])
  BY DEF Enter
<1>1. \A p \in Entries : Meant(entry[p]) => p = e
  BY <1>0, PoolAssumption DEF SetDefault, PoolInv, Reachable
<1>2. Work(entry, e, e)
  BY <1>1, PoolAssumption DEF PoolInv, TypeOK, Work, Typed, Unlocked, Reachable, NoSwitch
<1>3. CASE Body(c, e, [entry EXCEPT ![e].lock = c], e)
  <2>1. Work([entry EXCEPT ![e].lock = c], e, e)
    BY <1>2, ReleaseKeeps
  <2>2. \A p \in Entries : Meant(entry[p]) => Meant([entry EXCEPT ![e].lock = c][p])
    BY DEF Meant, Live, PoolInv, TypeOK, Entry
  <2>. QED
    BY <1>1, <1>3, <2>1, <2>2, BodyKeeps
<1>4. CASE /\ entry[e].lock # None \/ entry[e].queue # <<>>
           /\ Settle([entry EXCEPT ![e].queue = Append(@, c)], e,
                     [caller EXCEPT ![c] = [Idle EXCEPT !.at = "lock", !.mine = e]])
  <2>. DEFINE fs == [entry EXCEPT ![e].queue = Append(@, c)]
              cs == [caller EXCEPT ![c] = [Idle EXCEPT !.at = "lock", !.mine = e]]
  <2>1. fs \in [Entries -> Entry]
    <3>1. entry[e].queue \in Seq(Callers) /\ entry[e] \in Entry
      BY DEF PoolInv, TypeOK, Entry
    <3>2. Append(entry[e].queue, c) \in Seq(Callers)
      BY <3>1, AppendProperties
    <3>. QED
      BY <3>1, <3>2 DEF PoolInv, TypeOK, Entry
  <2>2. /\ \A f \in Entries : f # e => fs[f] = entry[f]
        /\ fs[e].task = entry[e].task /\ fs[e].stop = entry[e].stop
        /\ fs[e].ready = entry[e].ready
    BY DEF PoolInv, TypeOK, Entry
  <2>3. cs \in [Callers -> Caller]
    BY CallerTypes
  <2>4. \A d \in Callers : cs[d] = caller[d] \/ (cs[d].mine = e /\ cs[d].at # "ready")
    BY DEF PoolInv, TypeOK, Idle
  <2>5. entry[e].task # "none"
    BY <1>4, PoolAssumption DEF PoolInv, Quiet, Unlocked
  <2>6. Settle(fs, e, cs)
    BY <1>4
  <2>. HIDE DEF fs, cs
  <2>7. Quiet(fs) /\ Unlocked(fs, None)
    BY <2>2, <2>5 DEF PoolInv, Quiet, Unlocked
  <2>8. Reachable(fs, e) /\ NoSwitch(fs)
    BY <1>1, <2>2 DEF Reachable, NoSwitch, Meant, Live
  <2>9. Started(fs, cs)
    BY <2>2, <2>4, <2>5 DEF PoolInv, Started
  <2>. QED
    BY <2>1, <2>3, <2>6, <2>7, <2>8, <2>9, SettleKeeps DEF Typed
<1>. QED
  BY <1>0, <1>3, <1>4

(* A caller that is not idle works on the current state. *)
LEMMA CallerWorks ==
    ASSUME PoolInv, NEW c \in Callers, caller[c].at # "idle"
    PROVE  /\ caller[c].mine \in Entries
           /\ entry[caller[c].mine].task # "none"
           /\ Work(entry, current, caller[c].mine)
           /\ \A p \in Entries : Meant(entry[p]) => p = current
<1>1. caller[c].mine \in Entries /\ entry[caller[c].mine].task # "none"
  BY DEF PoolInv, Started
<1>2. \A p \in Entries : Meant(entry[p]) => p = current
  BY DEF PoolInv, Reachable
<1>3. Unlocked(entry, caller[c].mine)
  BY PoolAssumption DEF PoolInv, Unlocked
<1>. QED
  BY <1>1, <1>2, <1>3 DEF PoolInv, TypeOK, Work, Typed, NoSwitch

(* The lock was released and c is the next in its queue. *)
LEMMA AcquireKeeps ==
    ASSUME PoolInv, NEW c \in Callers, Acquire(c)
    PROVE  Done
<1>. DEFINE e == caller[c].mine
            fs == [entry EXCEPT ![e].lock = c, ![e].queue = Tail(@)]
<1>1. /\ e \in Entries /\ entry[e].task # "none" /\ Work(entry, current, e)
      /\ \A p \in Entries : Meant(entry[p]) => p = current
  BY CallerWorks DEF Acquire
<1>2. Tail(entry[e].queue) \in Seq(Callers) /\ entry[e] \in Entry
  <2>1. entry[e] \in Entry /\ entry[e].queue \in Seq(Callers) /\ entry[e].queue # <<>>
    BY <1>1 DEF PoolInv, TypeOK, Entry, Acquire
  <2>. QED
    BY <2>1, HeadTailProperties
<1>3. fs \in [Entries -> Entry]
  BY <1>1, <1>2 DEF PoolInv, TypeOK, Entry
<1>4. /\ \A f \in Entries : f # e => fs[f] = entry[f]
      /\ fs[e].task = entry[e].task /\ fs[e].stop = entry[e].stop
      /\ fs[e].ready = entry[e].ready
  BY <1>1, <1>2 DEF PoolInv, TypeOK, Entry
<1>5. Body(c, e, fs, current)
  BY DEF Acquire
<1>. HIDE DEF fs, e
<1>6. \A f \in Entries : Meant(fs[f]) <=> Meant(entry[f])
  BY <1>4 DEF Meant, Live
<1>7. Quiet(fs) /\ Unlocked(fs, e) /\ Started(fs, caller)
  BY <1>1, <1>4 DEF Work, Quiet, Unlocked, Started
<1>8. Work(fs, current, e)
  BY <1>1, <1>3, <1>6, <1>7 DEF Work, Typed, Reachable, NoSwitch
<1>9. fs[e].task # "none"
  BY <1>1, <1>4
<1>. QED
  BY <1>1, <1>5, <1>6, <1>8, <1>9, BodyKeeps

(* The other steps of a caller. *)
LEMMA SessionKeeps ==
    ASSUME PoolInv, NEW c \in Callers, Wake(c) \/ StartTimeout(c) \/ Discarded(c)
    PROVE  Done
<1>. DEFINE lk == caller[c].mine
<1>1. /\ lk \in Entries /\ entry[lk].task # "none" /\ Work(entry, current, lk)
      /\ \A p \in Entries : Meant(entry[p]) => p = current
  BY CallerWorks DEF Wake, StartTimeout, Discarded
<1>. HIDE DEF lk
<1>2. CASE Leave(c, lk, entry, current)
  BY <1>1, <1>2, LeaveKeeps
<1>3. CASE GiveUp(c, lk, entry, current)
  BY <1>1, <1>3, GiveUpKeeps
<1>4. CASE Restart(c, lk, entry, current)
  BY <1>1, <1>4, RestartKeeps
<1>. QED
  BY <1>2, <1>3, <1>4 DEF Wake, Woken, StartTimeout, Discarded, lk

(* A step of a supervisor: only its own entry changes, a task is not       *)
(* created, and a process asked to stop stays asked.                       *)
LEMMA SuperviseKeeps ==
    ASSUME PoolInv, NEW e \in Entries, NEW x \in Entry, Supervise(e, x),
           entry[e].task # "none", x.task # "none", Live(x) => Live(entry[e]),
           x.stop = entry[e].stop, x.task = "done" => x.ready
    PROVE  Done
<1>. DEFINE fs == [entry EXCEPT ![e] = x]
<1>1. /\ fs \in [Entries -> Entry] /\ fs[e] = x
      /\ \A f \in Entries : f # e => fs[f] = entry[f]
  BY DEF PoolInv, TypeOK
<1>2. Settle(fs, current, caller)
  BY DEF Supervise
<1>. HIDE DEF fs
<1>3. \A f \in Entries : Meant(fs[f]) => Meant(entry[f])
  BY <1>1 DEF Meant
<1>4. Reachable(fs, current) /\ NoSwitch(fs)
  BY <1>3 DEF PoolInv, Reachable, NoSwitch
<1>5. Quiet(fs) /\ Unlocked(fs, None) /\ Started(fs, caller)
  BY <1>1 DEF PoolInv, Quiet, Unlocked, Started
<1>. QED
  BY <1>1, <1>2, <1>4, <1>5, SettleKeeps DEF PoolInv, TypeOK, Typed

(* The supervisor's steps are of that kind. *)
LEMMA SupervisorKeeps ==
    ASSUME PoolInv, NEW e \in Entries,
           StartOk(e) \/ StartFail(e) \/ Exit(e) \/ Teardown(e) \/ CloseAllTimeout(e)
    PROVE  Done
<1>. entry[e] \in Entry
  BY DEF PoolInv, TypeOK
<1>1. CASE StartOk(e)
  <2>. DEFINE x == [entry[e] EXCEPT !.task = "serving", !.session = TRUE, !.ready = TRUE]
  <2>1. x \in Entry /\ x.task = "serving" /\ x.stop = entry[e].stop
    BY DEF Entry
  <2>2. Supervise(e, x) /\ entry[e].task = "starting"
    BY <1>1 DEF StartOk
  <2>. QED
    BY <2>1, <2>2, SuperviseKeeps DEF Live
<1>2. CASE StartFail(e) \/ Exit(e) \/ Teardown(e)
  <2>1. /\ Over(entry[e]) \in Entry /\ Over(entry[e]).task = "done"
        /\ Over(entry[e]).stop = entry[e].stop /\ Over(entry[e]).ready
    BY DEF Over, Entry
  <2>2. Supervise(e, Over(entry[e])) /\ entry[e].task # "none"
    BY <1>2 DEF StartFail, Exit, Teardown, Live
  <2>. QED
    BY <2>1, <2>2, SuperviseKeeps DEF Live
<1>3. CASE CloseAllTimeout(e)
  <2>. DEFINE x == [entry[e] EXCEPT !.cancelled = TRUE]
  <2>1. x \in Entry /\ x.task = entry[e].task /\ x.stop = entry[e].stop
    BY DEF Entry
  <2>2. Supervise(e, x) /\ Live(entry[e])
    BY <1>3 DEF CloseAllTimeout
  <2>. QED
    BY <2>1, <2>2, SuperviseKeeps DEF Live
<1>. QED
  BY <1>1, <1>2, <1>3

(* close and close_all. *)
LEMMA CloseKeeps ==
    ASSUME PoolInv, Close \/ CloseAll
    PROVE  Done
<1>0. Work(entry, current, None) /\ current \in Entries /\ caller \in [Callers -> Caller]
  BY DEF PoolInv, TypeOK, Work, Typed, Reachable, NoSwitch, Close, CloseAll
<1>1. CASE Close
  <2>1. Work(Popped(entry, current), None, None)
    BY <1>0, PoppedKeeps
  <2>. QED
    BY <1>0, <1>1, <2>1, SettleKeeps DEF Close, Work
<1>2. CASE CloseAll
  <2>. DEFINE fs == [entry EXCEPT ![current].stop = TRUE]
  <2>1. fs \in [Entries -> Entry]
    BY <1>0 DEF Work, Typed, Entry
  <2>2. /\ \A f \in Entries : f # current => fs[f] = entry[f]
        /\ fs[current].task = entry[current].task /\ fs[current].ready = entry[current].ready
        /\ fs[current].queue = entry[current].queue /\ fs[current].lock = entry[current].lock
        /\ fs[current].stop = TRUE
    BY <1>0 DEF Work, Typed, Entry
  <2>3. Settle(fs, None, caller)
    BY <1>2 DEF CloseAll
  <2>. HIDE DEF fs
  <2>4. \A f \in Entries : ~Meant(fs[f])
    BY <1>0, <2>2 DEF Meant, Work, Reachable
  <2>5. Quiet(fs) /\ Unlocked(fs, None) /\ Started(fs, caller)
    BY <1>0, <2>2 DEF Work, Quiet, Unlocked, Started
  <2>. QED
    BY <1>0, <2>1, <2>3, <2>4, <2>5, SettleKeeps DEF Typed, Reachable, NoSwitch
<1>. QED
  BY <1>1, <1>2

(* Every step keeps the invariant and replaces no process by another. *)
LEMMA PoolStep ==
    ASSUME PoolInv, Next
    PROVE  Done
<1>1. ASSUME NEW c \in Callers, Enter(c)
      PROVE  Done
  BY <1>1, EnterKeeps
<1>2. ASSUME NEW c \in Callers, Acquire(c)
      PROVE  Done
  BY <1>2, AcquireKeeps
<1>3. ASSUME NEW c \in Callers, Wake(c) \/ StartTimeout(c) \/ Discarded(c)
      PROVE  Done
  BY <1>3, SessionKeeps
<1>4. ASSUME NEW e \in Entries,
             StartOk(e) \/ StartFail(e) \/ Exit(e) \/ Teardown(e) \/ CloseAllTimeout(e)
      PROVE  Done
  BY <1>4, SupervisorKeeps
<1>5. CASE Close \/ CloseAll
  BY <1>5, CloseKeeps
<1>. QED
  BY <1>1, <1>2, <1>3, <1>4, <1>5 DEF Next

(* The empty pool. *)
LEMMA PoolStart == Init => PoolInv
<1>. SUFFICES ASSUME Init PROVE PoolInv
  OBVIOUS
<1>1. Blank \in Entry /\ Idle \in Caller
  BY EmptySeq DEF Blank, Entry, Idle, Caller
<1>2. TypeOK
  BY <1>1 DEF Init, TypeOK, Idle
<1>3. Quiet(entry) /\ Unlocked(entry, None) /\ Reachable(entry, current) /\ Started(entry, caller)
  BY DEF Init, Quiet, Unlocked, Reachable, Started, Blank, Idle, Meant, Live
<1>. QED
  BY <1>2, <1>3 DEF PoolInv

(* The invariant holds always. *)
THEOREM PoolInvariant == Spec => []PoolInv
<1>1. PoolInv /\ UNCHANGED vars => PoolInv'
  BY DEF PoolInv, TypeOK, Quiet, Unlocked, Reachable, Started, vars
<1>2. PoolInv /\ [Next]_vars => PoolInv'
  BY <1>1, PoolStep DEF Done
<1>. QED
  BY <1>2, PoolStart, PTL DEF Spec

(* However starts, failures, timeouts, discards and closes of any number   *)
(* of callers interleave, a process nobody asked to stop is the one that   *)
(* close and close_all find in the dictionary.                             *)
THEOREM NoOrphans == Spec => []NoOrphanProcess
<1>1. PoolInv => NoOrphanProcess
  BY DEF PoolInv, Reachable, NoOrphanProcess
<1>. QED
  BY <1>1, PoolInvariant, PTL

(* Every caller that waits on the ready event waits for a supervisor that  *)
(* is still at work or has set it: _supervise's finally clause, popped     *)
(* entries and late callers included, no wakeup is lost.                   *)
THEOREM NoWakeupLost == Spec => []NoLostWakeup
<1>1. PoolInv => NoLostWakeup
  <2>. SUFFICES ASSUME PoolInv, NEW c \in Callers, caller[c].at = "ready"
                PROVE  Live(entry[caller[c].want]) \/ entry[caller[c].want].ready
    BY DEF NoLostWakeup
  <2>1. caller[c].want \in Entries /\ entry[caller[c].want].task # "none"
    BY DEF PoolInv, Started
  <2>2. entry[caller[c].want].task \in {"none", "starting", "serving", "done"}
    BY <2>1 DEF PoolInv, TypeOK, Entry
  <2>. QED
    BY <2>1, <2>2 DEF PoolInv, Quiet, Live
<1>. QED
  BY <1>1, PoolInvariant, PTL

(* The pool implements SingleProcess: session(), _supervise and _discard   *)
(* never run two processes that are meant to run, and never replace one    *)
(* without stopping it first.                                              *)
THEOREM ImplementsSingleProcess == Spec => OneProcess
<1>. DEFINE run == {e \in Entries : Meant(entry[e])}
<1>1. Init => Promise!Init
  BY DEF Init, Promise!Init, Meant, Live, Blank
<1>2. PoolInv /\ [Next]_vars => [Promise!Next]_run
  <2>1. CASE UNCHANGED vars
    BY <2>1 DEF vars
  <2>2. ASSUME PoolInv, Next
        PROVE  Promise!Next \/ run' = run
    <3>0. Done
      BY <2>2, PoolStep
    <3>1. \A p, q \in run : p = q
      BY <2>2 DEF PoolInv, Reachable
    <3>2. \A p, q \in run' : p = q
      BY <3>0 DEF Done, PoolInv, Reachable
    <3>3. \A p \in run, q \in run' : p = q
      BY <3>0 DEF Done, NoSwitch
    <3>4. run' \subseteq Entries
      OBVIOUS
    <3>. HIDE DEF run
    <3>5. CASE run = run'
      BY <3>5
    <3>6. CASE run = {} /\ run' # {}
      <4>1. PICK p \in Entries : run' = {p}
        BY <3>2, <3>4, <3>6
      <4>. QED
        BY <3>6, <4>1 DEF Promise!Next, Promise!Start, run
    <3>7. CASE run # {} /\ run' = {}
      BY <3>7 DEF Promise!Next, Promise!StopOrExit, run
    <3>. QED
      BY <3>1, <3>2, <3>3, <3>5, <3>6, <3>7
  <2>. QED
    BY <2>1, <2>2
<1>. QED
  BY <1>1, <1>2, PoolInvariant, PTL DEF Spec, OneProcess, Promise!Spec

-----------------------------------------------------------------------------
(* Locks *)

In(c, q) == \E i \in 1 .. Len(q) : q[i] = c

Distinct(q) == \A i, j \in 1 .. Len(q) : q[i] = q[j] => i = j

(* LockFollowsCallers of entries es and callers cs that may still be on    *)
(* their way to the next state.                                            *)
Followed(es, cs) ==
    \A e \in Entries :
        /\ Distinct(es[e].queue)
        /\ \A d \in Callers : /\ es[e].lock = d <=> Inside(cs[d], e)
                              /\ Queued(cs[d], e) <=> In(d, es[e].queue)

(* The same while c works under the lock of lk, whatever becomes of c. *)
Held(c, lk, es) ==
    /\ es \in [Entries -> Entry]
    /\ \A e \in Entries :
        /\ Distinct(es[e].queue)
        /\ es[e].lock = c <=> e = lk
        /\ ~In(c, es[e].queue)
        /\ \A d \in Callers \ {c} : /\ es[e].lock = d <=> Inside(caller[d], e)
                                    /\ Queued(caller[d], e) <=> In(d, es[e].queue)

(* The entries es differ from fs in neither locks nor queues. *)
SameLocks(es, fs) ==
    \A e \in Entries : fs[e].lock = es[e].lock /\ fs[e].queue = es[e].queue

LEMMA HeldCarries ==
    ASSUME NEW c \in Callers, NEW lk \in Entries, NEW es, NEW fs, Held(c, lk, es),
           fs \in [Entries -> Entry], SameLocks(es, fs)
    PROVE  Held(c, lk, fs)
  BY DEF Held, SameLocks

(* The objects Settle blanks are nobody's. *)
LEMMA SettleFollows ==
    ASSUME NEW es, NEW cur, NEW cs, Followed(es, cs), Settle(es, cur, cs)
    PROVE  Followed(entry', caller')
<1>. SUFFICES ASSUME NEW e \in Entries
              PROVE  /\ Distinct(entry'[e].queue)
                     /\ \A d \in Callers : /\ entry'[e].lock = d <=> Inside(cs[d], e)
                                           /\ Queued(cs[d], e) <=> In(d, entry'[e].queue)
  BY DEF Followed, Settle
<1>1. CASE entry'[e] = es[e]
  BY <1>1 DEF Followed
<1>2. CASE entry'[e] = Blank /\ e \notin RefsOf(cur, cs)
  <2>1. \A d \in Callers : cs[d].mine # e
    BY <1>2 DEF RefsOf
  <2>2. Blank.lock = None /\ Blank.queue = <<>> /\ Len(<<>>) = 0
    BY DEF Blank
  <2>3. Distinct(<<>>) /\ \A d \in Callers : ~In(d, <<>>)
    BY <2>2 DEF Distinct, In
  <2>. QED
    BY <1>2, <2>1, <2>2, <2>3, PoolAssumption DEF Inside, Queued
<1>. QED
  BY <1>1, <1>2 DEF Settle

(* c goes on to wait under the lock it holds. *)
LEMMA WaitFollows ==
    ASSUME PoolInv, NEW c \in Callers, NEW lk \in Entries, NEW es, NEW cur, Held(c, lk, es),
           NEW at \in {"ready", "restart", "giveup"}, NEW w, NEW d,
           Settle(es, cur, [caller EXCEPT ![c] = [at |-> at, mine |-> lk, want |-> w, dying |-> d]])
    PROVE  Followed(entry', caller')
<1>. DEFINE cs == [caller EXCEPT ![c] = [at |-> at, mine |-> lk, want |-> w, dying |-> d]]
<1>1. cs[c].at = at /\ cs[c].mine = lk /\ \A o \in Callers \ {c} : cs[o] = caller[o]
  BY DEF PoolInv, TypeOK
<1>. HIDE DEF cs
<1>2. \A e \in Entries : (Inside(cs[c], e) <=> e = lk) /\ ~Queued(cs[c], e)
  BY <1>1 DEF Inside, Queued
<1>3. Followed(es, cs)
  BY <1>1, <1>2 DEF Followed, Held
<1>. QED
  BY <1>3, SettleFollows DEF cs

(* c lets go of it. *)
LEMMA LeaveFollows ==
    ASSUME PoolInv, NEW c \in Callers, NEW lk \in Entries, NEW es, NEW cur, Held(c, lk, es),
           Leave(c, lk, es, cur)
    PROVE  Followed(entry', caller')
<1>. DEFINE fs == [es EXCEPT ![lk].lock = None]
            cs == [caller EXCEPT ![c] = Idle]
<1>1. /\ \A e \in Entries : e # lk => fs[e] = es[e]
      /\ fs[lk].lock = None /\ fs[lk].queue = es[lk].queue
  BY DEF Held, Entry
<1>2. cs[c] = Idle /\ \A o \in Callers \ {c} : cs[o] = caller[o]
  BY DEF PoolInv, TypeOK
<1>3. Settle(fs, cur, cs)
  BY DEF Leave
<1>. HIDE DEF fs, cs
<1>4. \A e \in Entries : ~Inside(cs[c], e) /\ ~Queued(cs[c], e)
  BY <1>2 DEF Inside, Queued, Idle
<1>5. es[lk].lock = c
  BY DEF Held
<1>6. \A e \in Entries : fs[e].lock # c /\ fs[e].queue = es[e].queue
  BY <1>1, PoolAssumption DEF Held
<1>7. \A e \in Entries, o \in Callers \ {c} : fs[e].lock = o <=> es[e].lock = o
  BY <1>1, <1>5, PoolAssumption
<1>8. Followed(fs, cs)
  BY <1>2, <1>4, <1>6, <1>7 DEF Followed, Held
<1>. QED
  BY <1>3, <1>8, SettleFollows

LEMMA PoppedLocks ==
    ASSUME NEW es \in [Entries -> Entry], NEW cur \in Entries \cup {None}
    PROVE  Popped(es, cur) \in [Entries -> Entry] /\ SameLocks(es, Popped(es, cur))
<1>1. \A x \in Entry : /\ Stopped(x) \in Entry
                       /\ Stopped(x).queue = x.queue /\ Stopped(x).lock = x.lock
  <2>. SUFFICES ASSUME NEW x \in Entry
                PROVE  /\ Stopped(x) \in Entry
                       /\ Stopped(x).queue = x.queue /\ Stopped(x).lock = x.lock
    OBVIOUS
  <2>1. Live(x) \in BOOLEAN
    BY DEF Live
  <2>. DEFINE b == Live(x)
  <2>. HIDE DEF b
  <2>2. Stopped(x) = [x EXCEPT !.stop = TRUE, !.cancelled = b]
    BY DEF Stopped, b
  <2>. QED
    BY <2>1, <2>2 DEF Entry, b
<1>. QED
  BY <1>1 DEF Popped, SameLocks

LEMMA GiveUpFollows ==
    ASSUME PoolInv, NEW c \in Callers, NEW lk \in Entries, NEW es, NEW cur \in Entries \cup {None},
           Held(c, lk, es), GiveUp(c, lk, es, cur)
    PROVE  Followed(entry', caller')
<1>1. Held(c, lk, Popped(es, cur))
  BY PoppedLocks, HeldCarries DEF Held
<1>2. CASE DiscardThen(c, lk, es, cur, "giveup")
  BY <1>1, <1>2, WaitFollows DEF DiscardThen
<1>3. CASE Leave(c, lk, Popped(es, cur), None)
  BY <1>1, <1>3, LeaveFollows
<1>. QED
  BY <1>2, <1>3 DEF GiveUp

(* Starting e, which need not be the entry whose lock is held. *)
LEMMA StartFollows ==
    ASSUME PoolInv, NEW c \in Callers, NEW lk \in Entries, NEW es, NEW cur \in Entries \cup {None},
           Held(c, lk, es), NEW e \in Entries, StartAndWait(c, lk, e, es, cur)
    PROVE  Followed(entry', caller')
<1>1. CASE Leave(c, lk, es, cur)
  BY <1>1, LeaveFollows
<1>2. CASE GiveUp(c, lk, es, cur)
  BY <1>2, GiveUpFollows
<1>3. CASE Settle([es EXCEPT ![e].task = IF @ = "none" THEN "starting" ELSE @], cur,
                  [caller EXCEPT ![c] = [at |-> "ready", mine |-> lk, want |-> e, dying |-> None]])
  <2>. DEFINE fs == [es EXCEPT ![e].task = IF @ = "none" THEN "starting" ELSE @]
  <2>0. es \in [Entries -> Entry]
    BY DEF Held
  <2>1. fs \in [Entries -> Entry] /\ SameLocks(es, fs)
    <3>1. fs \in [Entries -> Entry]
      BY <2>0 DEF Entry
    <3>2. SameLocks(es, fs)
      BY <2>0 DEF SameLocks, Entry
    <3>. QED
      BY <3>1, <3>2
  <2>. HIDE DEF fs
  <2>2. Held(c, lk, fs)
    BY <2>1, HeldCarries
  <2>. QED
    BY <1>3, <2>2, WaitFollows DEF fs
<1>. QED
  BY <1>1, <1>2, <1>3 DEF StartAndWait, Woken

LEMMA RestartFollows ==
    ASSUME PoolInv, NEW c \in Callers, NEW lk \in Entries, NEW es, NEW cur,
           Held(c, lk, es), Restart(c, lk, es, cur)
    PROVE  Followed(entry', caller')
  BY StartFollows DEF Restart

LEMMA BodyFollows ==
    ASSUME PoolInv, NEW c \in Callers, NEW lk \in Entries, NEW es, NEW cur \in Entries \cup {None},
           Held(c, lk, es), Body(c, lk, es, cur)
    PROVE  Followed(entry', caller')
<1>1. Held(c, lk, Popped(es, cur))
  BY PoppedLocks, HeldCarries DEF Held
<1>2. CASE Leave(c, lk, es, cur)
  BY <1>2, LeaveFollows
<1>3. CASE DiscardThen(c, lk, es, cur, "restart")
  BY <1>1, <1>3, WaitFollows DEF DiscardThen
<1>4. CASE Restart(c, lk, Popped(es, cur), None)
  BY <1>1, <1>4, RestartFollows
<1>5. CASE StartAndWait(c, lk, lk, es, cur)
  BY <1>5, StartFollows
<1>. QED
  BY <1>2, <1>3, <1>4, <1>5 DEF Body

(* A new call takes a free lock or joins the end of its queue. *)
LEMMA EnterFollows ==
    ASSUME PoolInv, Followed(entry, caller), NEW c \in Callers, Enter(c)
    PROVE  Followed(entry', caller')
<1>0. PICK e \in Entries :
         \/ entry[e].lock = None /\ Body(c, e, [entry EXCEPT ![e].lock = c], e)
         \/ Settle([entry EXCEPT ![e].queue = Append(@, c)], e,
                   [caller EXCEPT ![c] = [Idle EXCEPT !.at = "lock", !.mine = e]])
  BY DEF Enter
<1>1. \A f \in Entries : ~Inside(caller[c], f) /\ ~Queued(caller[c], f)
  BY DEF Enter, Inside, Queued
<1>2. entry \in [Entries -> Entry] /\ entry[e].queue \in Seq(Callers)
  BY DEF PoolInv, TypeOK, Entry
<1>3. CASE entry[e].lock = None /\ Body(c, e, [entry EXCEPT ![e].lock = c], e)
  <2>. DEFINE fs == [entry EXCEPT ![e].lock = c]
  <2>1. /\ fs \in [Entries -> Entry] /\ fs[e].lock = c /\ fs[e].queue = entry[e].queue
        /\ \A f \in Entries : f # e => fs[f] = entry[f]
    BY <1>2 DEF Entry
  <2>. HIDE DEF fs
  <2>2. \A d \in Callers : ~Inside(caller[d], e)
    BY <1>3, PoolAssumption DEF Followed
  <2>3. Held(c, e, fs)
    BY <1>1, <2>1, <2>2 DEF Held, Followed
  <2>. QED
    BY <1>3, <2>3, BodyFollows DEF fs
<1>4. CASE Settle([entry EXCEPT ![e].queue = Append(@, c)], e,
                  [caller EXCEPT ![c] = [Idle EXCEPT !.at = "lock", !.mine = e]])
  <2>. DEFINE q == entry[e].queue
              p == Append(q, c)
              fs == [entry EXCEPT ![e].queue = p]
              cs == [caller EXCEPT ![c] = [Idle EXCEPT !.at = "lock", !.mine = e]]
  <2>1. /\ fs[e].lock = entry[e].lock /\ fs[e].queue = p
        /\ \A f \in Entries : f # e => fs[f] = entry[f]
    BY <1>2 DEF Entry
  <2>2. cs[c].at = "lock" /\ cs[c].mine = e /\ \A d \in Callers \ {c} : cs[d] = caller[d]
    BY DEF PoolInv, TypeOK, Idle
  <2>3. ~In(c, q) /\ Distinct(q)
    BY <1>1 DEF Followed
  <2>4. Settle(fs, e, cs)
    BY <1>4
  <2>5. /\ q \in Seq(Callers) /\ Len(p) = Len(q) + 1 /\ p[Len(q) + 1] = c
        /\ \A i \in 1 .. Len(q) : p[i] = q[i]
    BY <1>2, AppendProperties
  <2>. HIDE DEF q, p, fs, cs
  <2>6. Len(q) \in Nat
    BY <2>5, LenProperties
  <2>7. \A i \in 1 .. Len(p) : i \in 1 .. Len(q) \/ i = Len(q) + 1
    BY <2>5, <2>6
  <2>8. Distinct(p)
    BY <2>3, <2>5, <2>6, <2>7 DEF Distinct, In
  <2>9. In(c, p) /\ \A d \in Callers \ {c} : In(d, p) <=> In(d, q)
    BY <2>5, <2>6, <2>7 DEF In
  <2>10. \A f \in Entries : ~Inside(cs[c], f) /\ (Queued(cs[c], f) <=> f = e)
    BY <2>2 DEF Inside, Queued
  <2>11. Followed(fs, cs)
    <3>. SUFFICES ASSUME NEW f \in Entries
                  PROVE  /\ Distinct(fs[f].queue)
                         /\ \A d \in Callers : /\ fs[f].lock = d <=> Inside(cs[d], f)
                                               /\ Queued(cs[d], f) <=> In(d, fs[f].queue)
      BY DEF Followed
    <3>1. CASE f = e
      BY <1>1, <2>1, <2>2, <2>8, <2>9, <2>10, <3>1 DEF Followed, q
    <3>2. CASE f # e
      BY <1>1, <2>1, <2>2, <2>10, <3>2 DEF Followed
    <3>. QED
      BY <3>1, <3>2
  <2>. QED
    BY <2>4, <2>11, SettleFollows
<1>. QED
  BY <1>0, <1>3, <1>4

(* The next in line takes the lock. *)
LEMMA AcquireFollows ==
    ASSUME PoolInv, Followed(entry, caller), NEW c \in Callers, Acquire(c)
    PROVE  Followed(entry', caller')
<1>. DEFINE e == caller[c].mine
            q == entry[e].queue
            p == Tail(q)
            fs == [entry EXCEPT ![e].lock = c, ![e].queue = p]
<1>1. /\ e \in Entries /\ caller[c].at = "lock" /\ entry[e].lock = None
      /\ q # <<>> /\ Head(q) = c /\ Body(c, e, fs, current)
  BY DEF Acquire, PoolInv, Started
<1>2. entry \in [Entries -> Entry] /\ q \in Seq(Callers) /\ current \in Entries \cup {None}
  BY <1>1 DEF PoolInv, TypeOK, Entry
<1>3. p \in Seq(Callers) /\ Len(p) = Len(q) - 1 /\ \A i \in 1 .. Len(p) : p[i] = q[i + 1]
  BY <1>1, <1>2, HeadTailProperties
<1>4. Len(q) \in Nat /\ Len(q) # 0 /\ q[1] = c
  BY <1>1, <1>2, HeadTailProperties, EmptySeq, LenProperties
<1>5. /\ fs \in [Entries -> Entry] /\ fs[e].lock = c /\ fs[e].queue = p
      /\ \A f \in Entries : f # e => fs[f] = entry[f]
  BY <1>1, <1>2, <1>3 DEF Entry
<1>6. \A f \in Entries : ~Inside(caller[c], f) /\ (Queued(caller[c], f) <=> f = e)
  BY <1>1 DEF Inside, Queued
<1>. HIDE DEF e, q, p, fs
<1>7. Distinct(q)
  BY <1>1 DEF Followed, q
<1>8. \A i \in 1 .. Len(p) : i + 1 \in 1 .. Len(q) /\ i + 1 # 1
  BY <1>3, <1>4
<1>9. Distinct(p) /\ ~In(c, p)
  BY <1>3, <1>4, <1>7, <1>8 DEF Distinct, In
<1>10. \A d \in Callers \ {c} : In(d, p) <=> In(d, q)
  <2>. SUFFICES ASSUME NEW d \in Callers \ {c} PROVE In(d, p) <=> In(d, q)
    OBVIOUS
  <2>1. ASSUME NEW i \in 1 .. Len(q), q[i] = d PROVE In(d, p)
    <3>1. i - 1 \in 1 .. Len(p) /\ (i - 1) + 1 = i
      BY <1>3, <1>4, <2>1
    <3>. QED
      BY <1>3, <2>1, <3>1 DEF In
  <2>2. ASSUME NEW i \in 1 .. Len(p), p[i] = d PROVE In(d, q)
    BY <1>3, <1>8, <2>2 DEF In
  <2>. QED
    BY <2>1, <2>2 DEF In
<1>11. \A d \in Callers : ~Inside(caller[d], e)
  BY <1>1, PoolAssumption DEF Followed
<1>12. Held(c, e, fs)
  <2>. SUFFICES ASSUME NEW f \in Entries
                PROVE  /\ Distinct(fs[f].queue)
                       /\ fs[f].lock = c <=> f = e
                       /\ ~In(c, fs[f].queue)
                       /\ \A d \in Callers \ {c} :
                             /\ fs[f].lock = d <=> Inside(caller[d], f)
                             /\ Queued(caller[d], f) <=> In(d, fs[f].queue)
    BY <1>5 DEF Held
  <2>1. CASE f = e
    BY <1>5, <1>9, <1>10, <1>11, <2>1 DEF Followed, q
  <2>2. CASE f # e
    BY <1>5, <1>6, <2>2 DEF Followed
  <2>. QED
    BY <2>1, <2>2
<1>. QED
  BY <1>1, <1>2, <1>12, BodyFollows

(* The other steps of a caller, which is inside. *)
LEMMA SessionFollows ==
    ASSUME PoolInv, Followed(entry, caller), NEW c \in Callers,
           Wake(c) \/ StartTimeout(c) \/ Discarded(c)
    PROVE  Followed(entry', caller')
<1>. DEFINE lk == caller[c].mine
<1>1. caller[c].at \in {"ready", "restart", "giveup"}
  BY DEF Wake, StartTimeout, Discarded
<1>2. lk \in Entries /\ entry \in [Entries -> Entry] /\ current \in Entries \cup {None}
  BY <1>1 DEF PoolInv, TypeOK
<1>3. \A e \in Entries : (Inside(caller[c], e) <=> e = lk) /\ ~Queued(caller[c], e)
  BY <1>1 DEF Inside, Queued
<1>. HIDE DEF lk
<1>4. Held(c, lk, entry)
  BY <1>2, <1>3 DEF Held, Followed
<1>5. CASE Leave(c, lk, entry, current)
  BY <1>2, <1>4, <1>5, LeaveFollows
<1>6. CASE GiveUp(c, lk, entry, current)
  BY <1>2, <1>4, <1>6, GiveUpFollows
<1>7. CASE Restart(c, lk, entry, current)
  BY <1>2, <1>4, <1>7, RestartFollows
<1>. QED
  BY <1>5, <1>6, <1>7 DEF Wake, Woken, StartTimeout, Discarded, lk

(* Supervisors, close and close_all touch no lock. *)
LEMMA OthersFollow ==
    ASSUME PoolInv, Followed(entry, caller),
           \/ Close \/ CloseAll
           \/ \E e \in Entries : StartOk(e) \/ StartFail(e) \/ Exit(e) \/ Teardown(e) \/ CloseAllTimeout(e)
    PROVE  Followed(entry', caller')
<1>1. entry \in [Entries -> Entry] /\ current \in Entries \cup {None}
  BY DEF PoolInv, TypeOK
<1>2. ASSUME NEW es, NEW cur, SameLocks(entry, es), Settle(es, cur, caller)
      PROVE  Followed(entry', caller')
  <2>1. Followed(es, caller)
    BY <1>2 DEF Followed, SameLocks
  <2>. QED
    BY <1>2, <2>1, SettleFollows
<1>3. ASSUME NEW e \in Entries, NEW x, Supervise(e, x),
             x.lock = entry[e].lock, x.queue = entry[e].queue
      PROVE  Followed(entry', caller')
  <2>1. SameLocks(entry, [entry EXCEPT ![e] = x])
    BY <1>1, <1>3 DEF SameLocks
  <2>. QED
    BY <1>2, <1>3, <2>1 DEF Supervise
<1>4. ASSUME NEW e \in Entries,
             StartOk(e) \/ StartFail(e) \/ Exit(e) \/ Teardown(e) \/ CloseAllTimeout(e)
      PROVE  \E x : Supervise(e, x) /\ x.lock = entry[e].lock /\ x.queue = entry[e].queue
  <2>1. entry[e] \in Entry
    BY <1>1
  <2>2. CASE StartOk(e)
    <3>. DEFINE x == [entry[e] EXCEPT !.task = "serving", !.session = TRUE, !.ready = TRUE]
    <3>1. x.lock = entry[e].lock /\ x.queue = entry[e].queue
      BY <2>1 DEF Entry
    <3>. QED
      BY <2>2, <3>1 DEF StartOk
  <2>3. CASE StartFail(e) \/ Exit(e) \/ Teardown(e)
    <3>1. Over(entry[e]).lock = entry[e].lock /\ Over(entry[e]).queue = entry[e].queue
      BY <2>1 DEF Entry, Over
    <3>. QED
      BY <2>3, <3>1 DEF StartFail, Exit, Teardown
  <2>4. CASE CloseAllTimeout(e)
    <3>. DEFINE x == [entry[e] EXCEPT !.cancelled = TRUE]
    <3>1. x.lock = entry[e].lock /\ x.queue = entry[e].queue
      BY <2>1 DEF Entry
    <3>. QED
      BY <2>4, <3>1 DEF CloseAllTimeout
  <2>. QED
    BY <1>4, <2>2, <2>3, <2>4
<1>5. CASE Close
  BY <1>1, <1>2, <1>5, PoppedLocks DEF Close
<1>6. CASE CloseAll
  <2>1. SameLocks(entry, [entry EXCEPT ![current].stop = TRUE])
    BY <1>1 DEF SameLocks, Entry
  <2>. QED
    BY <1>2, <1>6, <2>1 DEF CloseAll
<1>. QED
  BY <1>3, <1>4, <1>5, <1>6

(* For any number of callers and entries: the lock of an entry is held by  *)
(* the caller inside its session() block and by no other, and its queue is *)
(* who waits, through failed starts, timeouts, discards that rebind the    *)
(* entry under the lock, and closes that pop it.                           *)
THEOREM LocksAreFollowed == Spec => []LockFollowsCallers
<1>1. Init => Followed(entry, caller)
  <2>. SUFFICES ASSUME Init PROVE Followed(entry, caller)
    OBVIOUS
  <2>1. Blank.lock = None /\ Blank.queue = <<>> /\ Len(<<>>) = 0 /\ Idle.at = "idle"
    BY DEF Blank, Idle
  <2>2. Distinct(<<>>) /\ \A d \in Callers : ~In(d, <<>>)
    BY <2>1 DEF Distinct, In
  <2>. QED
    BY <2>1, <2>2, PoolAssumption DEF Init, Followed, Inside, Queued
<1>2. PoolInv /\ Followed(entry, caller) /\ [Next]_vars => Followed(entry, caller)'
  <2>. SUFFICES ASSUME PoolInv, Followed(entry, caller), [Next]_vars
                PROVE  Followed(entry', caller')
    BY DEF Followed
  <2>1. CASE UNCHANGED vars
    BY <2>1 DEF vars
  <2>2. CASE Next
    BY <2>2, EnterFollows, AcquireFollows, SessionFollows, OthersFollow DEF Next
  <2>. QED
    BY <2>1, <2>2
<1>3. PoolInv /\ Followed(entry, caller) => LockFollowsCallers
  <2>. SUFFICES ASSUME PoolInv, Followed(entry, caller) PROVE LockFollowsCallers
    OBVIOUS
  <2>1. \A e \in Entries : DOMAIN entry[e].queue = 1 .. Len(entry[e].queue)
    BY DEF PoolInv, TypeOK, Entry
  <2>. QED
    BY <2>1 DEF Followed, Distinct, In, LockFollowsCallers
<1>. QED
  BY <1>1, <1>2, <1>3, PoolInvariant, PTL DEF Spec
=============================================================================
