---------------------------- MODULE HubUiProofs ----------------------------
(***************************************************************************)
(* The health fields of a record agree however the writers of the record   *)
(* interleave, the admin UI's whole-record writes included.                *)
(***************************************************************************)
EXTENDS HubUi, HubRegistryProofs

FileCoherent == \A s \in Servers : disk[s] # NoRecord => Coherent(disk[s].h)

StoreCoherent(m) == \A s \in Servers : m[s] # NoRecord => Coherent(m[s].h)

-----------------------------------------------------------------------------
(* What the file keeps of a coherent store is coherent. *)
LEMMA SanitizedCoherent ==
    ASSUME NEW m \in Stores, StoreCoherent(m), NEW s \in Servers,
           SanitizeAll(m)[s] # NoRecord
    PROVE  Coherent(SanitizeAll(m)[s].h)
<1>1. m[s] \in Record /\ SanitizeAll(m)[s] = Sanitize(m[s])
  BY DEF Stores, Slot, SanitizeAll, Sanitize
<1>2. Sanitize(m[s]).h = SanitizedHealth(m[s].h)
  BY <1>1, RegistryAssumption DEF Sanitize, Record
<1> QED
  BY <1>1, <1>2 DEF SanitizedHealth, Coherent, Record, Health

(* Registering a coherent record keeps the store and the file coherent,    *)
(* whether the write of the file succeeds or not.                          *)
LEMMA RegisterCoherent ==
    ASSUME TypeOK, HealthFieldsAgree, FileCoherent, NEW s \in Servers,
           NEW r \in Record, Coherent(r.h),
           SavesAll(<<RegisterIn(mem, s, r)>>) \/ SavesFailAt(<<RegisterIn(mem, s, r)>>, 1)
    PROVE  HealthFieldsAgree' /\ FileCoherent' /\ mem' \in Stores /\ disk' \in Stores
<1> DEFINE m == RegisterIn(mem, s, r)
<1>1. m \in Stores
  BY RegisterInType
<1>2. mem[s] \in Slot
  BY DEF TypeOK
<1>3. StoreCoherent(m)
  BY <1>2, RegisterInOthers, MergedHealth DEF StoreCoherent, HealthFieldsAgree
<1> HIDE DEF m
<1>4. mem' = m /\ disk' \in Stores /\ (disk' = disk \/ disk' = SanitizeAll(m))
  BY <1>1, OneWriteType DEF m
<1>5. FileCoherent'
  BY <1>1, <1>3, <1>4, SanitizedCoherent DEF FileCoherent
<1> QED
  BY <1>1, <1>3, <1>4, <1>5 DEF HealthFieldsAgree, StoreCoherent

(* The steps of the API, the health checker, discovery and a crash keep    *)
(* the health fields in agreement, in memory and in what the file keeps.   *)
LEMMA HubStepCoherent ==
    TypeOK /\ HealthFieldsAgree /\ FileCoherent /\ Next => HealthFieldsAgree' /\ FileCoherent'
<1> SUFFICES ASSUME TypeOK, HealthFieldsAgree, FileCoherent, Next
             PROVE  HealthFieldsAgree' /\ FileCoherent'
  OBVIOUS
<1>1. CASE UNCHANGED <<mem, disk>>
  BY <1>1 DEF HealthFieldsAgree, FileCoherent
<1>2. ASSUME NEW r \in reqs, RegisterCommit(r) PROVE HealthFieldsAgree' /\ FileCoherent'
  <2>1. r.srv \in Servers /\ NewRecord(r) \in Record
    BY NewRecordType DEF TypeOK, Request
  <2>2. Coherent(NewRecord(r).h)
    BY DEF Coherent, NewRecord, FreshHealth
  <2> QED BY <1>2, <2>1, <2>2, RegisterCoherent DEF RegisterCommit
<1>3. ASSUME NEW d \in Servers, Unregister(d) PROVE HealthFieldsAgree' /\ FileCoherent'
  <2> DEFINE m == UnregisterIn(mem, d)
  <2>1. m \in Stores /\ m[d] = NoRecord /\ \A o \in Servers \ {d} : m[o] = mem[o]
    BY DEF UnregisterIn, TypeOK, Stores, Slot
  <2>2. StoreCoherent(m)
    BY <2>1 DEF StoreCoherent, HealthFieldsAgree
  <2> HIDE DEF m
  <2>3. mem' = m /\ (disk' = disk \/ disk' = SanitizeAll(m))
    BY <1>3, <2>1, OneWriteType DEF Unregister, m
  <2> QED
    BY <2>1, <2>2, <2>3, SanitizedCoherent DEF FileCoherent, StoreCoherent, HealthFieldsAgree
<1>4. CASE HealthStep
  <2>1. StoreEffect
    BY <1>4, HealthStepEffect
  <2>2. CASE mem[health.cur] # NoRecord /\ mem' \in Touched
             /\ (disk' = disk \/ \E m \in Touched : disk' = SanitizeAll(m))
    <3>1. Coherent(mem[health.cur].h)
      BY <2>2 DEF HealthFieldsAgree, TypeOK
    <3>2. \A m \in Touched : m \in Stores /\ StoreCoherent(m)
      BY <3>1 DEF Touched, StoreCoherent, HealthFieldsAgree
    <3>3. FileCoherent'
      BY <2>2, <3>2, SanitizedCoherent DEF FileCoherent
    <3> QED
      BY <2>2, <3>2, <3>3 DEF HealthFieldsAgree, StoreCoherent
  <2> QED BY <1>1, <2>1, <2>2 DEF StoreEffect
<1>5. ASSUME NEW t \in disc, NEW found \in BOOLEAN, DiscoverStore(t, found)
      PROVE  HealthFieldsAgree' /\ FileCoherent'
  <2>1. t.srv \in Servers
    BY DEF TypeOK, Task
  <2>2. CASE mem[t.srv] = NoRecord
    BY <1>1, <1>5, <2>2 DEF DiscoverStore
  <2>3. CASE mem[t.srv] # NoRecord
    <3>1. PICK m \in Stores :
              /\ SavesAll(<<m>>) \/ SavesFailAt(<<m>>, 1)
              /\ \A o \in Servers \ {t.srv} : m[o] = mem[o]
              /\ m[t.srv] \in Record /\ m[t.srv].h = mem[t.srv].h
      BY <1>5, <2>3, DiscoverWrites
    <3>2. StoreCoherent(m)
      BY <2>1, <2>3, <3>1 DEF StoreCoherent, HealthFieldsAgree
    <3>3. mem' = m /\ (disk' = disk \/ disk' = SanitizeAll(m))
      BY <3>1, OneWriteType
    <3> QED
      BY <3>2, <3>3, SanitizedCoherent DEF FileCoherent, StoreCoherent, HealthFieldsAgree
  <2> QED BY <2>2, <2>3
<1>6. CASE CrashAndRestart
  BY <1>6 DEF CrashAndRestart, HealthFieldsAgree, FileCoherent
<1> QED
  BY <1>1, <1>2, <1>3, <1>4, <1>5, <1>6
     DEF Next, RegisterBegin, RegisterRefused, GoDown, PollStart, DiscoverFail

-----------------------------------------------------------------------------
(* Every copy a handler can write back is typed and coherent, whatever the *)
(* step: this is the inductive invariant.                                  *)
LEMMA UiStep ==
    UiTypeOK /\ AllCopiesCoherent /\ [UiNext]_uiVars => UiTypeOK' /\ AllCopiesCoherent'
<1> SUFFICES ASSUME UiTypeOK, AllCopiesCoherent, [UiNext]_uiVars
             PROVE  UiTypeOK' /\ AllCopiesCoherent'
  OBVIOUS
<1>0. TypeOK /\ HealthFieldsAgree /\ FileCoherent
  BY DEF UiTypeOK, AllCopiesCoherent, FileCoherent
<1>1. CASE HubStep
  <2>1. TypeOK'
    BY <1>0, <1>1, TypeStep DEF HubStep
  <2>2. HealthFieldsAgree' /\ FileCoherent'
    BY <1>0, <1>1, HubStepCoherent DEF HubStep
  <2>3. ui' \subseteq ui /\ uiCount' = uiCount
    BY <1>1 DEF HubStep
  <2> QED
    BY <2>1, <2>2, <2>3 DEF UiTypeOK, AllCopiesCoherent, FileCoherent
<1>2. ASSUME NEW s \in Servers, UiRead(s) PROVE UiTypeOK' /\ AllCopiesCoherent'
  <2>1. UNCHANGED vars /\ ui' = ui \cup {[srv |-> s, rec |-> Copy(mem[s])]}
        /\ uiCount' = uiCount + 1 /\ uiCount < MaxUi /\ mem[s] # NoRecord
    BY <1>2 DEF UiRead
  <2>2. TypeOK'
    BY <1>0, <2>1, TypeStep DEF vars
  <2>3. [srv |-> s, rec |-> Copy(mem[s])] \in UiHandler /\ Coherent(Copy(mem[s]).h)
    BY <1>0, <2>1, CopyType DEF UiHandler, TypeOK, HealthFieldsAgree
  <2>4. UiTypeOK'
    BY <2>1, <2>2, <2>3, UiAssumption DEF UiTypeOK
  <2> QED
    BY <1>0, <2>1, <2>3, <2>4 DEF AllCopiesCoherent, HealthFieldsAgree, FileCoherent, vars
<1>3. ASSUME NEW w \in ui, UiEnd(w) PROVE UiTypeOK' /\ AllCopiesCoherent'
  <2>1. UNCHANGED vars /\ ui' = ui \ {w} /\ uiCount' = uiCount
    BY <1>3 DEF UiEnd
  <2>2. TypeOK'
    BY <1>0, <2>1, TypeStep DEF vars
  <2> QED
    BY <2>1, <2>2 DEF UiTypeOK, AllCopiesCoherent, HealthFieldsAgree, FileCoherent, vars
<1>4. ASSUME NEW w \in ui, NEW learnt \in BOOLEAN, UiWrite(w, learnt)
      PROVE  UiTypeOK' /\ AllCopiesCoherent'
  <2> DEFINE r == UiRecord(w, learnt)
             v == [w EXCEPT !.rec = RegisterIn(mem, w.srv, r)[w.srv]]
  <2>1. w.srv \in Servers /\ w.rec \in Record /\ Coherent(w.rec.h) /\ w \in UiHandler
    BY DEF UiTypeOK, UiHandler, AllCopiesCoherent
  <2>2. r \in Record /\ r.h = w.rec.h
    BY <2>1 DEF UiRecord, Record
  <2>3. SavesAll(<<RegisterIn(mem, w.srv, r)>>) \/ SavesFailAt(<<RegisterIn(mem, w.srv, r)>>, 1)
    BY <1>4 DEF UiWrite
  <2>4. ui' \subseteq ui \cup {v}
    BY <1>4 DEF UiWrite
  <2> HIDE DEF r
  <2>5. HealthFieldsAgree' /\ FileCoherent' /\ mem' \in Stores /\ disk' \in Stores
    BY <1>0, <2>1, <2>2, <2>3, RegisterCoherent
  <2>6. v \in UiHandler /\ Coherent(v.rec.h)
    <3>1. mem[w.srv] \in Slot
      BY <1>0, <2>1 DEF TypeOK
    <3>2. /\ RegisterIn(mem, w.srv, r)[w.srv] \in Record
          /\ RegisterIn(mem, w.srv, r)[w.srv].h = r.h
      BY <1>0, <2>1, <2>2, <3>1, RegisterInOthers, MergedHealth
    <3> QED
      BY <2>1, <2>2, <3>2 DEF UiHandler
  <2>7. UNCHANGED <<reqs, health, disc, down, issued, crashes, judged, deleted, uiCount>>
    BY <1>4 DEF UiWrite
  <2>8. TypeOK'
    BY <1>0, <2>5, <2>7 DEF TypeOK, Stores
  <2> HIDE DEF v
  <2> QED
    BY <2>4, <2>5, <2>6, <2>7, <2>8 DEF UiTypeOK, AllCopiesCoherent, FileCoherent
<1>6. ASSUME NEW w \in ui, NEW found \in BOOLEAN, UiDiscover(w, found)
      PROVE  UiTypeOK' /\ AllCopiesCoherent'
  <2> DEFINE r == PreservingHealth(UiRecord(w, found), mem[w.srv])
  <2>1. w.srv \in Servers /\ w.rec \in Record /\ mem[w.srv] \in Record /\ mem[w.srv] # NoRecord
    BY <1>0, <1>6 DEF UiTypeOK, UiHandler, TypeOK, Slot, UiDiscover
  <2>2. r \in Record /\ r.h = mem[w.srv].h
    BY <2>1 DEF UiRecord, PreservingHealth, Record
  <2>3. Coherent(r.h)
    BY <1>0, <2>1, <2>2 DEF HealthFieldsAgree
  <2>4. SavesAll(<<RegisterIn(mem, w.srv, r)>>) \/ SavesFailAt(<<RegisterIn(mem, w.srv, r)>>, 1)
    BY <1>6 DEF UiDiscover
  <2> HIDE DEF r
  <2>5. HealthFieldsAgree' /\ FileCoherent' /\ mem' \in Stores /\ disk' \in Stores
    BY <1>0, <2>1, <2>2, <2>3, <2>4, RegisterCoherent
  <2>6. /\ ui' = ui \ {w}
        /\ UNCHANGED <<reqs, health, disc, down, issued, crashes, judged, deleted, uiCount>>
    BY <1>6 DEF UiDiscover
  <2>7. TypeOK'
    BY <1>0, <2>5, <2>6 DEF TypeOK, Stores
  <2> QED
    BY <2>5, <2>6, <2>7 DEF UiTypeOK, AllCopiesCoherent, FileCoherent
<1>7. ASSUME NEW s \in Servers, UiTouch(s) PROVE UiTypeOK' /\ AllCopiesCoherent'
  <2>1. /\ Copy(mem[s]) \in Record /\ Copy(mem[s]).h = mem[s].h /\ mem[s] # NoRecord
    BY <1>0, <1>7, CopyType DEF UiTouch, TypeOK
  <2>2. Coherent(Copy(mem[s]).h)
    BY <1>0, <2>1 DEF HealthFieldsAgree
  <2>3. HealthFieldsAgree' /\ FileCoherent' /\ mem' \in Stores /\ disk' \in Stores
    BY <1>0, <1>7, <2>1, <2>2, RegisterCoherent DEF UiTouch
  <2>4. UNCHANGED <<reqs, health, disc, down, issued, crashes, judged, deleted, ui, uiCount>>
    BY <1>7 DEF UiTouch
  <2>5. TypeOK'
    BY <1>0, <2>3, <2>4 DEF TypeOK, Stores
  <2> QED
    BY <2>3, <2>4, <2>5 DEF UiTypeOK, AllCopiesCoherent, FileCoherent
<1>5. CASE UNCHANGED uiVars
  <2>1. TypeOK'
    BY <1>0, <1>5, TypeStep DEF uiVars, vars
  <2> QED
    BY <1>5, <2>1 DEF uiVars, UiTypeOK, AllCopiesCoherent, HealthFieldsAgree, FileCoherent
<1> QED
  BY <1>1, <1>2, <1>3, <1>4, <1>5, <1>6, <1>7 DEF UiNext

(* healthy, healthy_since and consecutive_fails never contradict each      *)
(* other in a stored record, although the UI writes back whole records     *)
(* read before an await: each copy carries the three fields together.      *)
THEOREM HealthFieldsCoherent == UiSpec => []HealthFieldsAgree
<1>1. UiInit => UiTypeOK /\ AllCopiesCoherent
  BY TypeInit, UiAssumption
     DEF UiInit, Init, UiTypeOK, AllCopiesCoherent, HealthFieldsAgree
<1>2. UiTypeOK /\ AllCopiesCoherent /\ [UiNext]_uiVars => (UiTypeOK /\ AllCopiesCoherent)'
  BY UiStep
<1>3. AllCopiesCoherent => HealthFieldsAgree
  BY DEF AllCopiesCoherent
<1> QED
  BY <1>1, <1>2, <1>3, PTL DEF UiSpec

(* The same of the hub without the UI's writes: neither overlapping probes *)
(* and registrations, nor failed saves, nor what a restart reads back make *)
(* the three fields contradict each other.                                 *)
THEOREM RestHealthCoherent == Spec => []HealthFieldsAgree
<1>1. Init => TypeOK /\ HealthFieldsAgree /\ FileCoherent
  BY TypeInit DEF Init, HealthFieldsAgree, FileCoherent
<1>2. TypeOK /\ HealthFieldsAgree /\ FileCoherent /\ [Next]_vars
      => (HealthFieldsAgree /\ FileCoherent)'
  <2>1. HealthFieldsAgree /\ FileCoherent /\ UNCHANGED vars => (HealthFieldsAgree /\ FileCoherent)'
    BY DEF vars, HealthFieldsAgree, FileCoherent
  <2> QED
    BY <2>1, HubStepCoherent
<1> QED
  BY <1>1, <1>2, TypeCorrect, PTL DEF Spec
=============================================================================
