------------------------- MODULE HubRegistryProofs -------------------------
(***************************************************************************)
(* Theorems about HubRegistry, for every set of servers and every value of *)
(* the other constants: type correctness; no discovery reverts a health    *)
(* verdict; an acknowledged deletion is final; known capabilities and a    *)
(* missing health endpoint are not forgotten by writers of older copies.   *)
(***************************************************************************)
EXTENDS HubRegistry, TLAPS, SequenceTheorems

Stores == [Servers -> Slot]

(* The states of the store that differ from the current one in the server  *)
(* under probe at most.  There the health fields agree if they do now, the *)
(* capabilities are the same, and a ping forgets no missing endpoint.      *)
Touched ==
    {m \in Stores :
        /\ \A s \in Servers \ {health.cur} : m[s] = mem[s]
        /\ Coherent(mem[health.cur].h) /\ m[health.cur] # NoRecord
           => Coherent(m[health.cur].h)
        /\ m[health.cur] # NoRecord => m[health.cur].caps = mem[health.cur].caps
        /\ m[health.cur] # NoRecord /\ health.at = "ping" /\ mem[health.cur].h.supports = "no"
           => m[health.cur].h.supports = "no"}

(* What any step of the health checker may do to the store. *)
StoreEffect ==
    \/ UNCHANGED <<mem, disk, judged>>
    \/ /\ mem[health.cur] # NoRecord /\ health.at \in {"endpoint", "ping"}
       /\ mem' \in Touched
       /\ disk' = disk \/ \E m \in Touched : disk' = SanitizeAll(m)
       /\ judged' = [judged EXCEPT ![health.cur] =
                        IF mem'[health.cur] = NoRecord THEN FreshHealth ELSE mem'[health.cur].h]

HealthTypeOK(hc) ==
    /\ hc \in [at : Places, cur : Servers, todo : SUBSET Servers, snap : [Servers -> Slot]]
    /\ \A s \in hc.todo : hc.snap[s] \in Record
    /\ hc.at \in {"endpoint", "ping"} => hc.snap[hc.cur] \in Record

-----------------------------------------------------------------------------
(* Sanitizing a record, or a whole store, keeps it well typed and keeps the *)
(* absent ids absent: what the file can hold.                              *)
LEMMA SanitizeType ==
    /\ \A r \in Slot : Sanitize(r) \in Slot
    /\ \A m \in Stores : SanitizeAll(m) \in Stores
    /\ \A m \in Stores, s \in Servers : m[s] = NoRecord => SanitizeAll(m)[s] = NoRecord
<1>1. \A r \in Slot : Sanitize(r) \in Slot
  BY RegistryAssumption DEF Slot, Record, Health, Sanitize, SanitizedHealth
<1> QED
  BY <1>1 DEF Stores, SanitizeAll, Sanitize

(* A copy is a record with the same fields. *)
LEMMA CopyType ==
    ASSUME NEW r \in Slot
    PROVE  /\ Copy(r) \in Slot
           /\ r # NoRecord => /\ Copy(r) \in Record /\ Copy(r) # NoRecord
                              /\ Copy(r).h = r.h /\ Copy(r).caps = r.caps
  BY RegistryAssumption DEF Copy, Slot, Record

(* The health of a fresh registration is a health. *)
LEMMA FreshType == FreshHealth \in Health
  BY RegistryAssumption DEF FreshHealth, Health, Supports

(* The resting state of the health checker, and its dead one, are typed. *)
LEMMA AsleepType ==
    /\ HealthTypeOK(Asleep)
    /\ HealthTypeOK([Asleep EXCEPT !.at = "dead"])
<1>1. (CHOOSE s \in Servers : TRUE) \in Servers
  BY RegistryAssumption
<1> QED
  BY <1>1 DEF HealthTypeOK, Asleep, Places, Slot

(* A sequence of writes touches only the server under probe: whether all   *)
(* of them are saved or one of them fails, so do memory and the file.      *)
LEMMA WritesTouch ==
    ASSUME TypeOK, NEW ms \in Seq(Touched), Len(ms) >= 1, NEW next,
           HealthTypeOK(next), HealthWrites(ms, next), health.at \in {"endpoint", "ping"}
    PROVE  StoreEffect /\ HealthTypeOK(health')
<1>1. CASE mem[health.cur] = NoRecord
  BY <1>1, AsleepType DEF HealthWrites, HealthTaskDies, StoreEffect
<1>2. CASE mem[health.cur] # NoRecord
  <2>1. \A k \in 1 .. Len(ms) : ms[k] \in Touched
    OBVIOUS
  <2>2. CASE SavesAll(ms) /\ health' = next
    <3>1. mem' \in Touched /\ disk' = SanitizeAll(mem')
      BY <2>1, <2>2 DEF SavesAll
    <3> QED
      BY <1>2, <2>2, <3>1 DEF HealthWrites, StoreEffect
  <2>3. CASE \E k \in 1 .. Len(ms) : SavesFailAt(ms, k) /\ HealthTaskDies
    <3>1. PICK k \in 1 .. Len(ms) : SavesFailAt(ms, k) /\ HealthTaskDies
      BY <2>3
    <3>2. mem' \in Touched
      BY <2>1, <3>1 DEF SavesFailAt
    <3>3. disk' = disk \/ \E m \in Touched : disk' = SanitizeAll(m)
      <4>1. CASE k = 1
        BY <3>1, <4>1 DEF SavesFailAt
      <4>2. CASE k # 1
        <5>1. k - 1 \in 1 .. Len(ms)
          BY <4>2
        <5> QED
          BY <2>1, <3>1, <4>2, <5>1 DEF SavesFailAt
      <4> QED BY <4>1, <4>2
    <3> QED
      BY <1>2, <3>1, <3>2, <3>3, AsleepType DEF HealthWrites, StoreEffect, HealthTaskDies
  <2> QED
    BY <1>2, <2>2, <2>3 DEF HealthWrites
<1> QED BY <1>1, <1>2

(* The records the checker writes are typed and touch that server only. *)
LEMMA SetHealthTouches ==
    ASSUME TypeOK, mem[health.cur] # NoRecord, NEW h \in Health,
           Coherent(mem[health.cur].h) => Coherent(h),
           health.at = "ping" /\ mem[health.cur].h.supports = "no" => h.supports = "no"
    PROVE  SetHealth(mem, health.cur, h) \in Touched
<1>1. mem[health.cur] \in Record /\ health.cur \in Servers
  BY DEF TypeOK, Slot
<1>2. Copy(mem[health.cur]) \in Record /\ Copy(mem[health.cur]).caps = mem[health.cur].caps
  BY <1>1, CopyType DEF Slot
<1>3. [Copy(mem[health.cur]) EXCEPT !.h = h] \in Slot
      /\ [Copy(mem[health.cur]) EXCEPT !.h = h].h = h
      /\ [Copy(mem[health.cur]) EXCEPT !.h = h].caps = mem[health.cur].caps
  BY <1>2 DEF Record, Slot
<1> QED
  BY <1>1, <1>3 DEF SetHealth, Touched, Stores, TypeOK

(* The failure count of a verdict stays within its bound. *)
LEMMA NewFailsType ==
    ASSUME NEW r \in Record, NEW healthy \in BOOLEAN
    PROVE  NewFails(r, healthy) \in 0 .. MaxFails
  BY RegistryAssumption DEF NewFails, Record, Health

(* A verdict, after at most the write that remembers the endpoint, touches *)
(* the server under probe only.                                            *)
LEMMA VerdictTouches ==
    ASSUME TypeOK, health.at \in {"endpoint", "ping"}, NEW healthy \in BOOLEAN,
           NEW ms0, NEW h0,
           mem[health.cur] # NoRecord => ms0 \in Seq(Touched) /\ h0 \in Health,
           health.at = "ping" => h0 = mem[health.cur].h,
           Verdict(ms0, h0, healthy)
    PROVE  StoreEffect /\ HealthTypeOK(health')
<1> DEFINE s  == health.cur
           h1 == UpdatedHealth(h0, healthy, NewFails(Snap, healthy))
           stdio == IF s \in Stdio /\ Snap.h.supports # "no"
                    THEN <<SetHealth(mem, s, [h1 EXCEPT !.supports = "no"])>> ELSE <<>>
           gone == IF GivesUp(Snap, healthy) THEN <<UnregisterIn(mem, s)>> ELSE <<>>
           ms == ms0 \o <<SetHealth(mem, s, h1)>> \o stdio \o gone
<1>1. HealthWrites(ms, Resume)
  BY DEF Verdict
<1>2. HealthTypeOK(Resume)
  BY DEF TypeOK, HealthTypeOK, Resume, Places
<1>3. CASE mem[s] = NoRecord
  BY <1>1, <1>3, AsleepType DEF HealthWrites, HealthTaskDies, StoreEffect
<1>4. CASE mem[s] # NoRecord
  <2>1. Snap \in Record /\ s \in Servers
    BY DEF TypeOK, Snap
  <2>2. h1 \in Health /\ [h1 EXCEPT !.supports = "no"] \in Health
    BY <1>4, <2>1, NewFailsType DEF UpdatedHealth, Health, Supports
  <2>coh. Coherent(h1) /\ Coherent([h1 EXCEPT !.supports = "no"])
    BY <1>4 DEF Coherent, UpdatedHealth, NewFails, Health
  <2>sup. health.at = "ping" /\ mem[s].h.supports = "no" => h1.supports = "no"
    BY <1>4 DEF UpdatedHealth, Health
  <2>sup2. [h1 EXCEPT !.supports = "no"].supports = "no"
    BY <2>2 DEF Health
  <2>3. SetHealth(mem, s, h1) \in Touched
    BY <1>4, <2>2, <2>coh, <2>sup, SetHealthTouches
  <2>4. SetHealth(mem, s, [h1 EXCEPT !.supports = "no"]) \in Touched
    BY <1>4, <2>2, <2>coh, <2>sup2, SetHealthTouches
  <2>5. UnregisterIn(mem, s) \in Touched
    BY <2>1 DEF UnregisterIn, Touched, Stores, TypeOK, Slot
  <2> HIDE DEF h1
  <2>6. stdio \in Seq(Touched) /\ gone \in Seq(Touched)
    BY <2>4, <2>5
  <2>7. <<SetHealth(mem, s, h1)>> \in Seq(Touched) /\ Len(<<SetHealth(mem, s, h1)>>) = 1
    BY <2>3
  <2> HIDE DEF stdio, gone
  <2>8. ms0 \o <<SetHealth(mem, s, h1)>> \in Seq(Touched)
        /\ Len(ms0 \o <<SetHealth(mem, s, h1)>>) >= 1
    BY <1>4, <2>7, ConcatProperties, LenProperties
  <2>9. ms \in Seq(Touched) /\ Len(ms) >= 1
    BY <2>6, <2>8, ConcatProperties, LenProperties
  <2> HIDE DEF ms
  <2> QED
    BY <1>1, <1>2, <2>9, WritesTouch
<1> QED BY <1>3, <1>4

(* Every step of the health checker, with its KeyError and its failed      *)
(* writes, touches the server under probe only.                            *)
LEMMA HealthStepEffect ==
    ASSUME TypeOK, HealthStep
    PROVE  /\ StoreEffect /\ HealthTypeOK(health')
           /\ UNCHANGED <<reqs, disc, down, issued, crashes, deleted>>
<1>1. CASE HealthList
  <2>1. \A s \in Servers : Copy(mem[s]) \in Slot /\ (mem[s] # NoRecord => Copy(mem[s]) \in Record)
    BY CopyType DEF TypeOK
  <2> QED
    BY <1>1, <2>1 DEF HealthList, StoreEffect, HealthTypeOK, TypeOK, Places, Registered
<1>2. ASSUME NEW s \in Servers, HealthPick(s)
      PROVE  StoreEffect /\ HealthTypeOK(health')
             /\ UNCHANGED <<reqs, disc, down, issued, crashes, deleted>>
  BY <1>2 DEF HealthPick, StoreEffect, HealthTypeOK, TypeOK, Places
<1>3. CASE HealthCycleEnds
  BY <1>3, AsleepType DEF HealthCycleEnds, StoreEffect
<1>4. CASE HealthEndpoint404
  <2> DEFINE h == [mem[health.cur].h EXCEPT !.supports = "no"]
             next == [health EXCEPT !.at = "ping"]
             ms == <<SetHealth(mem, health.cur, h)>>
  <2>1. HealthWrites(ms, next) /\ health.at = "endpoint" /\ UNCHANGED <<reqs, disc, down, issued, crashes, deleted>>
    BY <1>4 DEF HealthEndpoint404
  <2>2. HealthTypeOK(next)
    BY <1>4 DEF HealthEndpoint404, HealthTypeOK, TypeOK, Places
  <2>3. CASE mem[health.cur] = NoRecord
    BY <2>1, <2>3, AsleepType DEF HealthWrites, HealthTaskDies, StoreEffect
  <2>4. CASE mem[health.cur] # NoRecord
    <3>1. h \in Health /\ (Coherent(mem[health.cur].h) => Coherent(h))
      BY <2>4 DEF TypeOK, Slot, Record, Health, Supports, Coherent
    <3>2. ms \in Seq(Touched) /\ Len(ms) >= 1
      BY <2>1, <2>4, <3>1, SetHealthTouches
    <3> HIDE DEF ms, next
    <3> QED BY <2>1, <2>2, <3>2, WritesTouch
  <2> QED BY <2>1, <2>3, <2>4
<1>5. ASSUME NEW b \in BOOLEAN, HealthEndpointWorked(b)
      PROVE  StoreEffect /\ HealthTypeOK(health')
             /\ UNCHANGED <<reqs, disc, down, issued, crashes, deleted>>
  <2> DEFINE s == health.cur
             learnt == Snap.h.supports = "unknown"
             h == IF learnt THEN [mem[s].h EXCEPT !.supports = "yes"] ELSE mem[s].h
             ms == IF learnt THEN <<SetHealth(mem, s, h)>> ELSE <<>>
             next == [health EXCEPT !.at = "ping"]
  <2>1. health.at = "endpoint" /\ UNCHANGED <<reqs, disc, down, issued, crashes, deleted>>
    BY <1>5 DEF HealthEndpointWorked
  <2>2. HealthTypeOK(next)
    BY <2>1 DEF HealthTypeOK, TypeOK, Places
  <2>3. ASSUME mem[s] # NoRecord
        PROVE  h \in Health /\ ms \in Seq(Touched) /\ (learnt => Len(ms) >= 1)
    <3>1. h \in Health /\ (Coherent(mem[s].h) => Coherent(h))
      BY <2>3 DEF TypeOK, Slot, Record, Health, Supports, Coherent
    <3>2. SetHealth(mem, s, h) \in Touched
      BY <2>1, <2>3, <3>1, SetHealthTouches
    <3> HIDE DEF h
    <3> QED BY <3>1, <3>2
  <2>4. \/ b /\ Verdict(ms, h, TRUE)
        \/ ~b /\ learnt /\ HealthWrites(ms, next)
        \/ ~b /\ ~learnt /\ health' = next /\ UNCHANGED <<mem, disk, judged>>
    BY <1>5 DEF HealthEndpointWorked
  <2> HIDE DEF h, ms, next
  <2>5. CASE Verdict(ms, h, TRUE)
    BY <2>1, <2>3, <2>5, VerdictTouches
  <2>6. CASE learnt /\ HealthWrites(ms, next)
    <3>1. CASE mem[s] = NoRecord
      BY <2>1, <2>6, <3>1, AsleepType DEF HealthWrites, HealthTaskDies, StoreEffect
    <3>2. CASE mem[s] # NoRecord
      BY <2>1, <2>2, <2>3, <2>6, <3>2, WritesTouch
    <3> QED BY <3>1, <3>2
  <2>7. CASE health' = next /\ UNCHANGED <<mem, disk, judged>>
    BY <2>1, <2>2, <2>7 DEF StoreEffect
  <2> QED BY <2>4, <2>5, <2>6, <2>7
<1>6. CASE HealthEndpointFailed
  BY <1>6 DEF HealthEndpointFailed, StoreEffect, HealthTypeOK, TypeOK, Places
<1>7. ASSUME NEW b \in BOOLEAN, HealthPing(b)
      PROVE  StoreEffect /\ HealthTypeOK(health')
             /\ UNCHANGED <<reqs, disc, down, issued, crashes, deleted>>
  <2>1. mem[health.cur] # NoRecord => mem[health.cur].h \in Health
    BY DEF TypeOK, Slot, Record
  <2>2. << >> \in Seq(Touched)
    OBVIOUS
  <2> QED
    BY <1>7, <2>1, <2>2, VerdictTouches DEF HealthPing
<1> QED
  BY <1>1, <1>2, <1>3, <1>4, <1>5, <1>6, <1>7 DEF HealthStep

-----------------------------------------------------------------------------
(* Type correctness *)

(* The record a registration or a discovery stores is typed. *)
LEMMA RegisterInType ==
    ASSUME TypeOK, NEW s \in Servers, NEW r \in Record
    PROVE  RegisterIn(mem, s, r) \in Stores /\ RegisterIn(mem, s, r)[s] \in Record
<1>1. mem[s] \in Slot
  BY DEF TypeOK
<1>2. Merged(r, mem[s]) \in Record
  BY <1>1 DEF Merged, Record, Slot
<1> QED
  BY <1>2 DEF RegisterIn, Stores, TypeOK, Slot

(* A single write leaves memory and the file typed, saved or not. *)
LEMMA OneWriteType ==
    ASSUME TypeOK, NEW m \in Stores, SavesAll(<<m>>) \/ SavesFailAt(<<m>>, 1)
    PROVE  mem' = m /\ mem' \in Stores /\ disk' \in Stores
           /\ (disk' = disk \/ disk' = SanitizeAll(m))
<1>1. Len(<<m>>) = 1 /\ <<m>>[1] = m
  OBVIOUS
<1> QED
  BY <1>1, SanitizeType DEF SavesAll, SavesFailAt, TypeOK, Stores

(* The record a registration stores is well formed. *)
LEMMA NewRecordType ==
    ASSUME NEW r \in Request PROVE NewRecord(r) \in Record
<1>1. KeptCred(r) \in 0 .. MaxRegistrations
  BY RegistryAssumption DEF KeptCred, Request, Slot, Record
<1> QED
  BY <1>1, FreshType DEF NewRecord, Record, Request

(* A discovery that saves writes one store: it differs at that server only, *)
(* and there not in the health, nor does it lose capabilities unless its   *)
(* record may be the stored object.                                        *)
LEMMA DiscoverWrites ==
    ASSUME TypeOK, NEW t \in disc, NEW found \in BOOLEAN, DiscoverStore(t, found),
           mem[t.srv] # NoRecord
    PROVE  \E m \in Stores :
              /\ SavesAll(<<m>>) \/ SavesFailAt(<<m>>, 1)
              /\ \A o \in Servers \ {t.srv} : m[o] = mem[o]
              /\ m[t.srv] \in Record /\ m[t.srv].h = mem[t.srv].h
              /\ ~t.rec.shared /\ mem[t.srv].caps => m[t.srv].caps
<1> DEFINE m0 == Assigned(t, found)
           r == PreservingHealth([t.rec EXCEPT !.caps = found, !.shared = FALSE], m0[t.srv])
           m == RegisterIn(m0, t.srv, r)
<1>1. t.srv \in Servers /\ t.rec \in Record /\ mem[t.srv] \in Record
  BY DEF TypeOK, Task, Slot
<1>2. /\ m0 \in Stores /\ m0[t.srv] \in Record /\ m0[t.srv].h = mem[t.srv].h
      /\ \A o \in Servers \ {t.srv} : m0[o] = mem[o]
      /\ ~t.rec.shared => m0 = mem
  BY <1>1 DEF Assigned, Aliased, TypeOK, Stores, Slot, Record
<1> HIDE DEF m0
<1>3. r \in Record /\ r.h = mem[t.srv].h
  BY <1>1, <1>2 DEF PreservingHealth, Record
<1>4. SavesAll(<<m>>) \/ SavesFailAt(<<m>>, 1)
  BY DEF DiscoverStore, m0
<1> HIDE DEF r
<1>5. /\ Merged(r, m0[t.srv]) \in Record /\ Merged(r, m0[t.srv]).h = r.h
      /\ m0[t.srv].caps => Merged(r, m0[t.srv]).caps
  <2>1. Merged(r, m0[t.srv]) \in Record /\ Merged(r, m0[t.srv]).h = r.h
    BY <1>2, <1>3 DEF Merged, Record
  <2>2. ASSUME m0[t.srv].caps PROVE Merged(r, m0[t.srv]).caps
    BY <1>2, <1>3, <2>2, RegistryAssumption DEF Merged, Record
  <2> QED BY <2>1, <2>2
<1>6. /\ m \in Stores /\ m[t.srv] = Merged(r, m0[t.srv])
      /\ \A o \in Servers \ {t.srv} : m[o] = mem[o]
  BY <1>1, <1>2, <1>5 DEF RegisterIn, Stores, Slot
<1> QED
  BY <1>2, <1>3, <1>4, <1>5, <1>6

(* Every step of the hub keeps the types: one case per action. *)
LEMMA TypeStep == TypeOK /\ [Next]_vars => TypeOK'
<1> SUFFICES ASSUME TypeOK, [Next]_vars PROVE TypeOK'
  OBVIOUS
<1>1. ASSUME NEW s \in Servers, NEW sends \in BOOLEAN, NEW self \in BOOLEAN,
             RegisterBegin(s, sends, self)
      PROVE  TypeOK'
  <2>1. [srv |-> s, cfg |-> issued + 1, sends |-> sends, self |-> self, existing |-> Copy(mem[s])]
            \in Request
    BY <1>1, CopyType, RegistryAssumption DEF RegisterBegin, Request, TypeOK
  <2> QED
    BY <1>1, <2>1, RegistryAssumption DEF RegisterBegin, TypeOK
<1>2. ASSUME NEW r \in reqs, RegisterRefused(r) PROVE TypeOK'
  BY <1>2 DEF RegisterRefused, TypeOK
<1>3. ASSUME NEW r \in reqs, RegisterCommit(r) PROVE TypeOK'
  <2> DEFINE m == RegisterIn(mem, r.srv, NewRecord(r))
  <2>1. r \in Request /\ r.srv \in Servers
    BY DEF TypeOK, Request
  <2>2. m \in Stores /\ m[r.srv] \in Record
    BY <2>1, NewRecordType, RegisterInType
  <2> HIDE DEF m
  <2>3. mem' \in Stores /\ disk' \in Stores
    BY <1>3, <2>2, OneWriteType DEF RegisterCommit, m
  <2>4. [srv |-> r.srv, by |-> "background", rec |-> m[r.srv]] \in Task
    BY <2>1, <2>2 DEF Task
  <2>5. disc' \subseteq Task
    BY <1>3, <2>4 DEF RegisterCommit, m, TypeOK
  <2>6. judged' \in [Servers -> Health]
    BY <1>3, FreshType DEF RegisterCommit, TypeOK
  <2> QED
    BY <1>3, <2>3, <2>5, <2>6 DEF RegisterCommit, TypeOK, Stores
<1>4. ASSUME NEW s \in Servers, Unregister(s) PROVE TypeOK'
  <2>1. UnregisterIn(mem, s) \in Stores
    BY DEF UnregisterIn, TypeOK, Stores, Slot
  <2>2. mem' \in Stores /\ disk' \in Stores
    BY <1>4, <2>1, OneWriteType DEF Unregister
  <2>3. judged' \in [Servers -> Health]
    BY <1>4, FreshType DEF Unregister, TypeOK
  <2> QED
    BY <1>4, <2>2, <2>3 DEF Unregister, TypeOK, Stores
<1>5. ASSUME NEW s \in Servers, GoDown(s) PROVE TypeOK'
  BY <1>5 DEF GoDown, TypeOK
<1>6. CASE HealthStep
  <2>1. /\ StoreEffect /\ HealthTypeOK(health')
        /\ UNCHANGED <<reqs, disc, down, issued, crashes, deleted>>
    BY <1>6, HealthStepEffect
  <2>2. mem' \in Stores /\ disk' \in Stores /\ judged' \in [Servers -> Health]
    <3>1. CASE UNCHANGED <<mem, disk, judged>>
      BY <3>1 DEF TypeOK, Stores
    <3>2. CASE mem' \in Touched
               /\ (disk' = disk \/ \E m \in Touched : disk' = SanitizeAll(m))
               /\ judged' = [judged EXCEPT ![health.cur] =
                     IF mem'[health.cur] = NoRecord THEN FreshHealth ELSE mem'[health.cur].h]
      <4>1. mem' \in Stores /\ disk' \in Stores
        BY <3>2, SanitizeType DEF Touched, TypeOK, Stores
      <4>2. (IF mem'[health.cur] = NoRecord THEN FreshHealth ELSE mem'[health.cur].h) \in Health
        BY <4>1, FreshType DEF Stores, Slot, Record, TypeOK
      <4> QED BY <3>2, <4>1, <4>2 DEF TypeOK
    <3> QED BY <2>1, <3>1, <3>2 DEF StoreEffect
  <2> QED
    BY <2>1, <2>2 DEF TypeOK, Stores, HealthTypeOK
<1>7. ASSUME NEW due \in SUBSET Servers, PollStart(due) PROVE TypeOK'
  <2>1. \A s \in due : [srv |-> s, by |-> "poll", rec |-> Copy(mem[s])] \in Task
    BY <1>7, CopyType DEF PollStart, Registered, TypeOK, Task
  <2> QED
    BY <1>7, <2>1 DEF PollStart, TypeOK
<1>8. ASSUME NEW t \in disc, DiscoverFail(t) PROVE TypeOK'
  BY <1>8 DEF DiscoverFail, TypeOK
<1>9. ASSUME NEW t \in disc, NEW found \in BOOLEAN, DiscoverStore(t, found) PROVE TypeOK'
  <2>2. CASE mem[t.srv] = NoRecord
    BY <1>9, <2>2 DEF DiscoverStore, TypeOK
  <2>3. CASE mem[t.srv] # NoRecord
    <3>1. PICK m \in Stores : SavesAll(<<m>>) \/ SavesFailAt(<<m>>, 1)
      BY <1>9, <2>3, DiscoverWrites
    <3>4. mem' \in Stores /\ disk' \in Stores
      BY <3>1, OneWriteType
    <3> QED
      BY <1>9, <3>4 DEF DiscoverStore, TypeOK, Stores
  <2> QED BY <2>2, <2>3
<1>10. CASE CrashAndRestart
  <2>1. judged' \in [Servers -> Health]
    BY <1>10, FreshType DEF CrashAndRestart, TypeOK, Slot, Record
  <2>2. HealthTypeOK(health')
    BY <1>10, AsleepType DEF CrashAndRestart
  <2> QED
    BY <1>10, <2>1, <2>2, RegistryAssumption DEF CrashAndRestart, TypeOK, HealthTypeOK
<1>11. CASE UNCHANGED vars
  BY <1>11 DEF vars, TypeOK
<1> QED
  BY <1>1, <1>2, <1>3, <1>4, <1>5, <1>6, <1>7, <1>8, <1>9, <1>10, <1>11 DEF Next

(* The empty registry is well typed. *)
LEMMA TypeInit == Init => TypeOK
  BY AsleepType, FreshType, RegistryAssumption DEF Init, TypeOK, HealthTypeOK, Slot

(* Every reachable state of the registry and its tasks is well typed: in   *)
(* particular a task that resumes after its await always holds a record.   *)
THEOREM TypeCorrect == Spec => []TypeOK
  BY TypeInit, TypeStep, PTL DEF Spec

-----------------------------------------------------------------------------
(* A registration, too, leaves the other servers alone. *)
LEMMA RegisterInOthers ==
    ASSUME TypeOK, NEW s \in Servers, NEW r
    PROVE  /\ \A o \in Servers \ {s} : RegisterIn(mem, s, r)[o] = mem[o]
           /\ RegisterIn(mem, s, r)[s] = Merged(r, mem[s])
  BY DEF RegisterIn, TypeOK

(* Merging capabilities leaves the health of the written record alone. *)
LEMMA MergedHealth ==
    ASSUME NEW r \in Record, NEW e \in Slot
    PROVE  Merged(r, e) \in Record /\ Merged(r, e).h = r.h
  BY DEF Merged, Record, Slot

(* No step writes back a health that is not the last verdict's. *)
LEMMA HealthStays ==
    TypeOK /\ HealthNeverReverted /\ [Next]_vars => HealthNeverReverted'
<1> SUFFICES ASSUME TypeOK, HealthNeverReverted, [Next]_vars,
                    NEW s \in Servers, mem'[s] # NoRecord
             PROVE  mem'[s].h = judged'[s]
  BY DEF HealthNeverReverted
<1>1. CASE UNCHANGED <<mem, judged>>
  BY <1>1 DEF HealthNeverReverted
<1>2. ASSUME NEW r \in reqs, RegisterCommit(r) PROVE mem'[s].h = judged'[s]
  <2> DEFINE m == RegisterIn(mem, r.srv, NewRecord(r))
  <2>1. r \in Request /\ r.srv \in Servers /\ NewRecord(r) \in Record
    BY NewRecordType DEF TypeOK, Request
  <2>2. m \in Stores
    BY <2>1, RegisterInType
  <2>3. mem' = m
    <3> HIDE DEF m
    <3> QED BY <1>2, <2>2, OneWriteType DEF RegisterCommit, m
  <2>4. judged' = [judged EXCEPT ![r.srv] = FreshHealth]
    BY <1>2 DEF RegisterCommit
  <2>5. CASE s = r.srv
    <3>1. mem'[s] = Merged(NewRecord(r), mem[s])
      BY <2>1, <2>3, <2>5, RegisterInOthers
    <3>2. mem'[s].h = NewRecord(r).h
      BY <2>1, <3>1, MergedHealth DEF TypeOK
    <3> QED BY <2>4, <2>5, <3>2 DEF NewRecord, TypeOK
  <2>6. CASE s # r.srv
    <3>1. mem'[s] = mem[s]
      BY <2>1, <2>3, <2>6, RegisterInOthers
    <3> QED BY <2>4, <2>6, <3>1 DEF HealthNeverReverted, TypeOK
  <2> QED BY <2>5, <2>6
<1>3. ASSUME NEW d \in Servers, Unregister(d) PROVE mem'[s].h = judged'[s]
  <2>1. UnregisterIn(mem, d) \in Stores
    BY DEF UnregisterIn, TypeOK, Stores, Slot
  <2>2. mem' = UnregisterIn(mem, d)
    BY <1>3, <2>1, OneWriteType DEF Unregister
  <2>3. s # d /\ mem'[s] = mem[s]
    BY <2>2 DEF UnregisterIn, TypeOK
  <2> QED BY <1>3, <2>3 DEF Unregister, HealthNeverReverted, TypeOK
<1>4. CASE HealthStep
  <2>1. StoreEffect
    BY <1>4, HealthStepEffect
  <2>2. CASE s = health.cur
    BY <1>1, <2>1, <2>2 DEF StoreEffect, TypeOK
  <2>3. CASE s # health.cur
    BY <1>1, <2>1, <2>3 DEF StoreEffect, Touched, HealthNeverReverted, TypeOK
  <2> QED BY <2>2, <2>3
<1>5. ASSUME NEW t \in disc, NEW found \in BOOLEAN, DiscoverStore(t, found)
      PROVE  mem'[s].h = judged'[s]
  <2>1. t.srv \in Servers /\ judged' = judged
    BY <1>5 DEF TypeOK, Task, DiscoverStore
  <2>2. CASE mem[t.srv] = NoRecord
    BY <1>1, <1>5, <2>2 DEF DiscoverStore
  <2>3. CASE mem[t.srv] # NoRecord
    <3>1. PICK m \in Stores :
              /\ SavesAll(<<m>>) \/ SavesFailAt(<<m>>, 1)
              /\ \A o \in Servers \ {t.srv} : m[o] = mem[o]
              /\ m[t.srv] \in Record /\ m[t.srv].h = mem[t.srv].h
      BY <1>5, <2>3, DiscoverWrites
    <3>2. mem' = m
      BY <3>1, OneWriteType
    <3> QED
      BY <2>1, <2>3, <3>1, <3>2 DEF HealthNeverReverted
  <2> QED BY <2>2, <2>3
<1>6. CASE CrashAndRestart
  BY <1>6 DEF CrashAndRestart, TypeOK
<1> QED
  BY <1>1, <1>2, <1>3, <1>4, <1>5, <1>6
     DEF Next, vars, RegisterBegin, RegisterRefused, GoDown, PollStart, DiscoverFail

(* Discovery never reverts a health verdict produced while it was talking  *)
(* to the server: _save_preserving_health is sufficient for the API, the   *)
(* health checker and discovery together, failed writes and crashes        *)
(* included.                                                               *)
THEOREM HealthVerdictsSurvive == Spec => []HealthNeverReverted
<1>1. Init => HealthNeverReverted
  BY DEF Init, HealthNeverReverted
<1>2. TypeOK /\ HealthNeverReverted /\ [Next]_vars => HealthNeverReverted'
  BY HealthStays
<1> QED
  BY <1>1, <1>2, TypeCorrect, PTL DEF Spec

-----------------------------------------------------------------------------
(* No step brings a deleted server back. *)
LEMMA DeletionStays ==
    TypeOK /\ DeletedStaysDeleted /\ [Next]_vars => DeletedStaysDeleted'
<1> SUFFICES ASSUME TypeOK, DeletedStaysDeleted, [Next]_vars, NEW s \in deleted'
             PROVE  mem'[s] = NoRecord /\ disk'[s] = NoRecord
  BY DEF DeletedStaysDeleted
<1>1. CASE UNCHANGED <<mem, disk, deleted>>
  BY <1>1 DEF DeletedStaysDeleted
<1>2. ASSUME NEW r \in reqs, RegisterCommit(r) PROVE mem'[s] = NoRecord /\ disk'[s] = NoRecord
  <2> DEFINE m == RegisterIn(mem, r.srv, NewRecord(r))
  <2>1. r.srv \in Servers /\ NewRecord(r) \in Record
    BY NewRecordType DEF TypeOK, Request
  <2>2. s \in deleted /\ s # r.srv /\ s \in Servers
    BY <1>2 DEF RegisterCommit, TypeOK
  <2>3. m \in Stores /\ m[s] = NoRecord
    BY <2>1, <2>2, RegisterInType, RegisterInOthers DEF DeletedStaysDeleted
  <2> HIDE DEF m
  <2>4. mem' = m /\ (disk' = disk \/ disk' = SanitizeAll(m))
    BY <1>2, <2>3, OneWriteType DEF RegisterCommit, m
  <2> QED BY <2>2, <2>3, <2>4, SanitizeType DEF DeletedStaysDeleted
<1>3. ASSUME NEW d \in Servers, Unregister(d) PROVE mem'[s] = NoRecord /\ disk'[s] = NoRecord
  <2> DEFINE m == UnregisterIn(mem, d)
  <2>1. m \in Stores /\ m[d] = NoRecord /\ \A o \in Servers \ {d} : m[o] = mem[o]
    BY DEF UnregisterIn, TypeOK, Stores, Slot
  <2>2. s \in Servers /\ (s # d => s \in deleted)
    BY <1>3 DEF Unregister, TypeOK
  <2>3. m[s] = NoRecord
    BY <2>1, <2>2 DEF DeletedStaysDeleted
  <2>4. CASE SavesAll(<<m>>)
    BY <2>1, <2>2, <2>3, <2>4, SanitizeType DEF SavesAll
  <2>5. CASE SavesFailAt(<<m>>, 1) /\ deleted' = deleted
    BY <2>3, <2>5 DEF SavesFailAt, DeletedStaysDeleted
  <2> QED BY <1>3, <2>4, <2>5 DEF Unregister
<1>4. CASE HealthStep
  <2>1. StoreEffect /\ deleted' = deleted
    BY <1>4, HealthStepEffect
  <2>2. s \in Servers /\ s \in deleted /\ mem[s] = NoRecord /\ disk[s] = NoRecord
    BY <2>1 DEF TypeOK, DeletedStaysDeleted
  <2>3. CASE mem[health.cur] # NoRecord /\ mem' \in Touched
             /\ (disk' = disk \/ \E m \in Touched : disk' = SanitizeAll(m))
    <3>1. \A m \in Touched : m \in Stores /\ m[s] = NoRecord
      BY <2>2, <2>3 DEF Touched
    <3> QED BY <2>2, <2>3, <3>1, SanitizeType
  <2> QED BY <1>1, <2>1, <2>3 DEF StoreEffect
<1>5. ASSUME NEW t \in disc, NEW found \in BOOLEAN, DiscoverStore(t, found)
      PROVE  mem'[s] = NoRecord /\ disk'[s] = NoRecord
  <2>1. t.srv \in Servers /\ s \in deleted /\ s \in Servers
    BY <1>5 DEF TypeOK, Task, DiscoverStore
  <2>2. CASE mem[t.srv] = NoRecord
    BY <1>1, <1>5, <2>2 DEF DiscoverStore
  <2>3. CASE mem[t.srv] # NoRecord
    <3>1. PICK m \in Stores :
              /\ SavesAll(<<m>>) \/ SavesFailAt(<<m>>, 1)
              /\ \A o \in Servers \ {t.srv} : m[o] = mem[o]
      BY <1>5, <2>3, DiscoverWrites
    <3>2. m[s] = NoRecord
      BY <2>1, <2>3, <3>1 DEF DeletedStaysDeleted
    <3>3. mem' = m /\ (disk' = disk \/ disk' = SanitizeAll(m))
      BY <3>1, OneWriteType
    <3> QED BY <2>1, <3>2, <3>3, SanitizeType DEF DeletedStaysDeleted
  <2> QED BY <2>2, <2>3
<1>6. CASE CrashAndRestart
  BY <1>6 DEF CrashAndRestart, DeletedStaysDeleted
<1> QED
  BY <1>1, <1>2, <1>3, <1>4, <1>5, <1>6
     DEF Next, vars, RegisterBegin, RegisterRefused, GoDown, PollStart, DiscoverFail

(* A DELETE that was answered 204 is final: no probe, no discovery, no     *)
(* failed write and no restart brings the server back, in memory or in the *)
(* file, before somebody registers it again.                               *)
THEOREM DeletionIsFinal == Spec => []DeletedStaysDeleted
<1>1. Init => DeletedStaysDeleted
  BY DEF Init, DeletedStaysDeleted
<1>2. TypeOK /\ DeletedStaysDeleted /\ [Next]_vars => DeletedStaysDeleted'
  BY DeletionStays
<1> QED
  BY <1>1, <1>2, TypeCorrect, PTL DEF Spec
-----------------------------------------------------------------------------
(* Capabilities *)

(* A write of one store, saved or not, is what memory holds afterwards. *)
LEMMA RegisterWrites ==
    ASSUME TypeOK, NEW r \in reqs, RegisterCommit(r)
    PROVE  /\ r.srv \in Servers
           /\ \A o \in Servers \ {r.srv} : mem'[o] = mem[o]
           /\ mem'[r.srv] = Merged(NewRecord(r), mem[r.srv])
           /\ mem'[r.srv] \in Record /\ mem'[r.srv].h = FreshHealth
<1> DEFINE m == RegisterIn(mem, r.srv, NewRecord(r))
<1>1. r.srv \in Servers /\ NewRecord(r) \in Record /\ NewRecord(r).h = FreshHealth
  BY NewRecordType DEF TypeOK, Request, NewRecord
<1>2. m \in Stores
  BY <1>1, RegisterInType
<1>3. mem' = m
  <2> HIDE DEF m
  <2> QED BY <1>2, OneWriteType DEF RegisterCommit, m
<1>4. mem[r.srv] \in Slot
  BY <1>1 DEF TypeOK
<1> QED
  BY <1>1, <1>3, <1>4, RegisterInOthers, MergedHealth

LEMMA UnregisterWrites ==
    ASSUME TypeOK, NEW d \in Servers, Unregister(d)
    PROVE  mem'[d] = NoRecord /\ \A o \in Servers \ {d} : mem'[o] = mem[o]
<1>1. UnregisterIn(mem, d) \in Stores
  BY DEF UnregisterIn, TypeOK, Stores, Slot
<1>2. mem' = UnregisterIn(mem, d)
  BY <1>1, OneWriteType DEF Unregister
<1> QED
  BY <1>2 DEF UnregisterIn, TypeOK

(* A step other than a restart that forgets a record's capabilities is the *)
(* end of a discovery that a registration started.                         *)
LEMMA CapabilitiesStay ==
    ASSUME TypeOK, Next, NEW s \in Servers,
           mem[s] # NoRecord, mem'[s] # NoRecord, crashes' = crashes, mem[s].caps,
           \A t \in disc \ disc' : ~(t.srv = s /\ t.rec.shared)
    PROVE  mem'[s].caps
<1>0. mem[s] \in Record
  BY DEF TypeOK, Slot
<1>1. CASE UNCHANGED mem
  BY <1>1
<1>2. ASSUME NEW r \in reqs, RegisterCommit(r) PROVE mem'[s].caps
  <2>1. CASE s = r.srv
    <3>1. mem'[s] = Merged(NewRecord(r), mem[s]) /\ NewRecord(r) \in Record
      BY <1>2, <2>1, RegisterWrites, NewRecordType DEF TypeOK
    <3> QED
      BY <1>0, <3>1 DEF Merged, Record
  <2>2. CASE s # r.srv
    BY <1>2, <2>2, RegisterWrites
  <2> QED BY <2>1, <2>2
<1>3. ASSUME NEW d \in Servers, Unregister(d) PROVE mem'[s].caps
  BY <1>3, UnregisterWrites
<1>4. CASE HealthStep
  <2>1. StoreEffect
    BY <1>4, HealthStepEffect
  <2> QED
    BY <1>1, <2>1 DEF StoreEffect, Touched
<1>5. ASSUME NEW t \in disc, NEW found \in BOOLEAN, DiscoverStore(t, found) PROVE mem'[s].caps
  <2>1. t \in disc \ disc' /\ ~(t.srv = s /\ t.rec.shared)
    BY <1>5 DEF DiscoverStore
  <2>2. CASE mem[t.srv] = NoRecord
    BY <1>1, <1>5, <2>2 DEF DiscoverStore
  <2>3. CASE mem[t.srv] # NoRecord
    <3>1. PICK m \in Stores :
              /\ SavesAll(<<m>>) \/ SavesFailAt(<<m>>, 1)
              /\ \A o \in Servers \ {t.srv} : m[o] = mem[o]
              /\ ~t.rec.shared /\ mem[t.srv].caps => m[t.srv].caps
      BY <1>5, <2>3, DiscoverWrites
    <3>2. mem' = m
      BY <3>1, OneWriteType
    <3> QED
      BY <2>1, <3>1, <3>2
  <2> QED BY <2>2, <2>3
<1>6. CASE CrashAndRestart
  BY <1>6 DEF CrashAndRestart, TypeOK
<1> QED
  BY <1>1, <1>2, <1>3, <1>4, <1>5, <1>6
     DEF Next, RegisterBegin, RegisterRefused, GoDown, PollStart, DiscoverFail

(* Registry.register's merge is enough: no re-registration, verdict or     *)
(* discovery with an older copy loses capabilities, except the background  *)
(* discovery that holds the stored object itself, and a restart.           *)
THEOREM CapabilitiesSurvive == Spec => CapabilitiesKept
<1> DEFINE Kept(s) ==
      /\ mem[s] # NoRecord /\ mem'[s] # NoRecord /\ crashes' = crashes
      /\ \A t \in disc \ disc' : ~(t.srv = s /\ t.rec.shared)
      => (mem[s].caps => mem'[s].caps)
<1>1. TypeOK /\ [Next]_vars => [\A s \in Servers : Kept(s)]_vars
  BY CapabilitiesStay
<1> QED
  BY <1>1, TypeCorrect, PTL DEF Spec, CapabilitiesKept

-----------------------------------------------------------------------------
(* The missing /health endpoint *)

(* The servers the checker will still ask for /health in this cycle. *)
ToAsk == health.todo \cup (IF health.at = "endpoint" THEN {health.cur} ELSE {})

(* Only the checker records that there is no endpoint, and it does so once *)
(* it is done with the server: the copy it goes by is never behind.        *)
CopiesCurrent ==
    /\ health.at \in {"endpoint", "ping"} => health.cur \notin health.todo
    /\ health.at = "endpoint" => health.snap[health.cur].h.supports # "no"
    /\ \A s \in ToAsk :
          mem[s] # NoRecord /\ mem[s].h.supports = "no" => health.snap[s].h.supports = "no"

(* A step that leaves the checker alone and makes no record lack the       *)
(* endpoint.                                                               *)
LEMMA CopiesCarry ==
    ASSUME TypeOK, CopiesCurrent, health' = health,
           \A s \in Servers : mem'[s] # NoRecord /\ mem'[s].h.supports = "no" =>
                                 mem[s] # NoRecord /\ mem[s].h.supports = "no"
    PROVE  CopiesCurrent'
<1>1. ToAsk \subseteq Servers /\ ToAsk' = ToAsk
  BY DEF ToAsk, TypeOK
<1> QED
  BY <1>1 DEF CopiesCurrent

(* A checker with nothing to ask. *)
LEMMA CopiesRest ==
    ASSUME health' = Asleep \/ health' = [Asleep EXCEPT !.at = "dead"]
    PROVE  CopiesCurrent'
<1>1. /\ Asleep.at = "sleep" /\ Asleep.todo = {}
      /\ [Asleep EXCEPT !.at = "dead"].at = "dead" /\ [Asleep EXCEPT !.at = "dead"].todo = {}
  BY DEF Asleep
<1>2. health'.at \in {"sleep", "dead"} /\ health'.todo = {}
  BY <1>1
<1> QED
  BY <1>2 DEF CopiesCurrent, ToAsk

(* A step of the checker on the server under probe leaves the others to do. *)
LEMMA ProbeMoves ==
    ASSUME TypeOK,
           \/ HealthEndpoint404 \/ HealthEndpointFailed
           \/ \E b \in BOOLEAN : HealthEndpointWorked(b) \/ HealthPing(b)
    PROVE  /\ health.at \in {"endpoint", "ping"}
           /\ \/ health' = [Asleep EXCEPT !.at = "dead"]
              \/ \E at \in {"next", "ping"} : health' = [health EXCEPT !.at = at]
  BY DEF HealthEndpoint404, HealthEndpointFailed, HealthEndpointWorked, HealthPing, Verdict,
         HealthWrites, HealthTaskDies, Resume

LEMMA ProbeKeepsCopies ==
    ASSUME TypeOK, CopiesCurrent, StoreEffect, health.at \in {"endpoint", "ping"},
           NEW at \in {"next", "ping"}, health' = [health EXCEPT !.at = at]
    PROVE  CopiesCurrent'
<1>1. /\ health'.at = at /\ health'.todo = health.todo /\ health'.snap = health.snap
      /\ health'.cur = health.cur
  BY DEF TypeOK
<1>2. ToAsk' = health.todo /\ health.todo \subseteq ToAsk /\ health.todo \subseteq Servers
  BY <1>1 DEF ToAsk, TypeOK
<1>3. \A s \in health.todo : mem'[s] = mem[s]
  BY <1>2 DEF StoreEffect, Touched, CopiesCurrent
<1> QED
  BY <1>1, <1>2, <1>3 DEF CopiesCurrent

(* The other steps of the checker. *)
LEMMA HealthKeepsCopies ==
    ASSUME TypeOK, CopiesCurrent, HealthStep
    PROVE  CopiesCurrent'
<1>0. StoreEffect
  BY HealthStepEffect
<1>1. CASE HealthList
  <2>1. /\ health'.at = "next" /\ health'.todo = Registered /\ mem' = mem
        /\ \A s \in Servers : health'.snap[s] = Copy(mem[s])
    BY <1>1 DEF HealthList, TypeOK
  <2>2. \A s \in Servers : mem[s] # NoRecord => Copy(mem[s]).h = mem[s].h
    BY CopyType DEF TypeOK
  <2> QED
    BY <2>1, <2>2 DEF CopiesCurrent, ToAsk, Registered
<1>2. ASSUME NEW s \in Servers, HealthPick(s) PROVE CopiesCurrent'
  <2>1. /\ s \in health.todo /\ health'.cur = s /\ health'.todo = health.todo \ {s}
        /\ health'.snap = health.snap /\ mem' = mem
        /\ health'.at \in {"endpoint", "ping"}
        /\ health'.at = "endpoint" => health.snap[s].h.supports # "no"
    BY <1>2 DEF HealthPick, TypeOK
  <2>2. ToAsk' \subseteq health.todo /\ health.todo \subseteq ToAsk
    BY <2>1 DEF ToAsk
  <2> QED
    BY <2>1, <2>2 DEF CopiesCurrent
<1>3. CASE HealthCycleEnds
  BY <1>3, CopiesRest DEF HealthCycleEnds
<1>4. CASE \/ HealthEndpoint404 \/ HealthEndpointFailed
           \/ \E b \in BOOLEAN : HealthEndpointWorked(b) \/ HealthPing(b)
  BY <1>0, <1>4, ProbeMoves, ProbeKeepsCopies, CopiesRest
<1> QED
  BY <1>1, <1>2, <1>3, <1>4 DEF HealthStep

(* Every step keeps the checker's copies current. *)
LEMMA CopiesStep == TypeOK /\ CopiesCurrent /\ [Next]_vars => CopiesCurrent'
<1> SUFFICES ASSUME TypeOK, CopiesCurrent, [Next]_vars PROVE CopiesCurrent'
  OBVIOUS
<1>1. CASE UNCHANGED <<mem, health>>
  BY <1>1, CopiesCarry
<1>2. ASSUME NEW r \in reqs, RegisterCommit(r) PROVE CopiesCurrent'
  <2>1. health' = health
    BY <1>2 DEF RegisterCommit
  <2>2. \A s \in Servers : mem'[s] = mem[s] \/ mem'[s].h = FreshHealth
    BY <1>2, RegisterWrites
  <2> QED
    BY <2>1, <2>2, CopiesCarry DEF FreshHealth
<1>3. ASSUME NEW d \in Servers, Unregister(d) PROVE CopiesCurrent'
  BY <1>3, UnregisterWrites, CopiesCarry DEF Unregister
<1>4. CASE HealthStep
  BY <1>4, HealthKeepsCopies
<1>5. ASSUME NEW t \in disc, NEW found \in BOOLEAN, DiscoverStore(t, found) PROVE CopiesCurrent'
  <2>1. health' = health
    BY <1>5 DEF DiscoverStore
  <2>2. CASE mem[t.srv] = NoRecord
    BY <1>1, <1>5, <2>1, <2>2 DEF DiscoverStore
  <2>3. CASE mem[t.srv] # NoRecord
    <3>1. PICK m \in Stores :
              /\ SavesAll(<<m>>) \/ SavesFailAt(<<m>>, 1)
              /\ \A o \in Servers \ {t.srv} : m[o] = mem[o]
              /\ m[t.srv].h = mem[t.srv].h
      BY <1>5, <2>3, DiscoverWrites
    <3>2. mem' = m
      BY <3>1, OneWriteType
    <3> QED
      BY <2>1, <2>3, <3>1, <3>2, CopiesCarry
  <2> QED BY <2>2, <2>3
<1>6. CASE CrashAndRestart
  BY <1>6, CopiesRest DEF CrashAndRestart
<1> QED
  BY <1>1, <1>2, <1>3, <1>4, <1>5, <1>6
     DEF Next, vars, RegisterBegin, RegisterRefused, GoDown, PollStart, DiscoverFail

(* No step but a registration, or a restart from an older file, makes the  *)
(* hub ask again.                                                          *)
LEMMA MissingEndpointStays ==
    ASSUME TypeOK, CopiesCurrent, Next, NEW s \in Servers,
           mem[s] # NoRecord, mem'[s] # NoRecord, mem[s].h.supports = "no",
           reqs \subseteq reqs' \/ crashes' # crashes,
           crashes' # crashes => disk = SanitizeAll(mem)
    PROVE  mem'[s].h.supports = "no"
<1>0. mem[s] \in Record
  BY DEF TypeOK, Slot
<1>1. CASE UNCHANGED mem
  BY <1>1
<1>2. ASSUME NEW r \in reqs, RegisterCommit(r) PROVE FALSE
  BY <1>2 DEF RegisterCommit
<1>3. ASSUME NEW d \in Servers, Unregister(d) PROVE mem'[s].h.supports = "no"
  BY <1>3, UnregisterWrites
<1>4. CASE HealthStep
  <2>1. StoreEffect
    BY <1>4, HealthStepEffect
  <2>2. CASE s = health.cur /\ health.at = "endpoint"
    <3>1. s \in ToAsk
      BY <2>2 DEF ToAsk
    <3> QED
      BY <2>2, <3>1 DEF CopiesCurrent
  <2>3. CASE ~(s = health.cur /\ health.at = "endpoint")
    BY <1>1, <2>1, <2>3 DEF StoreEffect, Touched
  <2> QED BY <2>2, <2>3
<1>5. ASSUME NEW t \in disc, NEW found \in BOOLEAN, DiscoverStore(t, found)
      PROVE  mem'[s].h.supports = "no"
  <2>2. CASE mem[t.srv] = NoRecord
    BY <1>1, <1>5, <2>2 DEF DiscoverStore
  <2>3. CASE mem[t.srv] # NoRecord
    <3>1. PICK m \in Stores :
              /\ SavesAll(<<m>>) \/ SavesFailAt(<<m>>, 1)
              /\ \A o \in Servers \ {t.srv} : m[o] = mem[o]
              /\ m[t.srv].h = mem[t.srv].h
      BY <1>5, <2>3, DiscoverWrites
    <3>2. mem' = m
      BY <3>1, OneWriteType
    <3> QED
      BY <3>1, <3>2
  <2> QED BY <2>2, <2>3
<1>6. CASE CrashAndRestart
  <2>1. mem'[s] = Sanitize(mem[s])
    <3>1. crashes' # crashes /\ mem' = disk
      BY <1>6 DEF CrashAndRestart, TypeOK
    <3> QED
      BY <3>1 DEF SanitizeAll
  <2>2. Sanitize(mem[s]).h = SanitizedHealth(mem[s].h) /\ mem[s].h \in Health
    BY <1>0 DEF Sanitize, Record
  <2>3. SanitizedHealth(mem[s].h).supports = mem[s].h.supports
    BY <2>2 DEF SanitizedHealth, Health
  <2> QED
    BY <2>1, <2>2, <2>3
<1> QED
  BY <1>1, <1>2, <1>3, <1>4, <1>5, <1>6
     DEF Next, RegisterBegin, RegisterRefused, GoDown, PollStart, DiscoverFail

(* A missing /health endpoint is remembered until the server is registered *)
(* anew, across verdicts, discoveries, failed writes and restarts, although *)
(* the checker decides by copies listed at the start of its cycle.         *)
THEOREM EndpointRemembered == Spec => MissingEndpointRemembered
<1> DEFINE Kept(s) ==
      /\ mem[s] # NoRecord /\ mem'[s] # NoRecord
      /\ mem[s].h.supports = "no"
      /\ reqs \subseteq reqs' \/ crashes' # crashes
      /\ crashes' # crashes => disk = SanitizeAll(mem)
      => mem'[s].h.supports = "no"
<1>1. Init => CopiesCurrent
  BY DEF Init, CopiesCurrent, ToAsk, Asleep
<1>2. TypeOK /\ CopiesCurrent /\ [Next]_vars => [\A s \in Servers : Kept(s)]_vars
  BY MissingEndpointStays
<1> QED
  BY <1>1, <1>2, CopiesStep, TypeCorrect, PTL DEF Spec, MissingEndpointRemembered
=============================================================================
