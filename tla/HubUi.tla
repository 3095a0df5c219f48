------------------------------- MODULE HubUi -------------------------------
(***************************************************************************)
(* The admin UI's handlers that register a whole record again: the fault  *)
(* form, the capabilities page, Initialize, Invoke and the playground read *)
(* it, wait for the network or for the body of the request, and write it   *)
(* back; the verbose-trace toggle, the server-card probe and the           *)
(* capabilities page with cached lists read and write it with no await     *)
(* between.  They share the registry with the API and the background loops *)
(* of HubRegistry.                                                         *)
(***************************************************************************)
EXTENDS HubRegistry

CONSTANT MaxUi   \* bound: UI requests admitted

ASSUME UiAssumption == MaxUi \in Nat

VARIABLES
    ui,       \* handlers waiting, each with the copy of the record it read
    uiCount   \* UI requests admitted so far

uiVars == <<mem, disk, reqs, health, disc, down, issued, crashes, judged, deleted, ui, uiCount>>

UiHandler == [srv : Servers, rec : Record]

UiTypeOK ==
    /\ TypeOK
    /\ ui \subseteq UiHandler
    /\ uiCount \in 0 .. MaxUi

UiInit == Init /\ ui = {} /\ uiCount = 0

(* registry.get, then an await.  An unknown id is answered 404. *)
UiRead(s) ==
    /\ uiCount < MaxUi
    /\ mem[s] # NoRecord
    /\ ui' = ui \cup {[srv |-> s, rec |-> Copy(mem[s])]}
    /\ uiCount' = uiCount + 1
    /\ UNCHANGED vars

(* registry.register of the copy read before the await, with what the      *)
(* handler edited or learnt: the capabilities page sets tools, prompts and *)
(* resources; the others change fields that are not modelled.              *)
UiRecord(w, learnt) == [w.rec EXCEPT !.caps = @ \/ learnt]

(* Initialize and Invoke may write twice, each time the same object, which *)
(* took over the stored capabilities at the first write.                   *)
UiWrite(w, learnt) ==
    LET m == RegisterIn(mem, w.srv, UiRecord(w, learnt)) IN
    /\ \/ ui' = ui \ {w}
       \/ ui' = (ui \ {w}) \cup {[w EXCEPT !.rec = m[w.srv]]}
    /\ SavesAll(<<m>>) \/ SavesFailAt(<<m>>, 1)
    /\ UNCHANGED <<reqs, health, disc, down, issued, crashes, judged, deleted, uiCount>>

(* The capabilities page falls back on discover_immediately, which takes   *)
(* over the stored health fields before the page registers the record.     *)
UiDiscover(w, found) ==
    LET m == RegisterIn(mem, w.srv, PreservingHealth(UiRecord(w, found), mem[w.srv])) IN
    /\ mem[w.srv] # NoRecord
    /\ ui' = ui \ {w}
    /\ SavesAll(<<m>>) \/ SavesFailAt(<<m>>, 1)
    /\ UNCHANGED <<reqs, health, disc, down, issued, crashes, judged, deleted, uiCount>>

(* get and register with no await between: no field modelled here changes, *)
(* but the stored object is another one and the file is written.           *)
UiTouch(s) ==
    LET m == RegisterIn(mem, s, Copy(mem[s])) IN
    /\ mem[s] # NoRecord
    /\ SavesAll(<<m>>) \/ SavesFailAt(<<m>>, 1)
    /\ UNCHANGED <<reqs, health, disc, down, issued, crashes, judged, deleted, ui, uiCount>>

(* Nothing changed or the call failed: the handler answers without writing. *)
UiEnd(w) ==
    /\ ui' = ui \ {w}
    /\ UNCHANGED <<vars, uiCount>>

(* A crash takes the waiting handlers with it. *)
HubStep ==
    /\ Next
    /\ ui' = IF crashes' = crashes THEN ui ELSE {}
    /\ UNCHANGED uiCount

UiNext ==
    \/ HubStep
    \/ \E s \in Servers : UiRead(s) \/ UiTouch(s)
    \/ \E w \in ui : UiEnd(w) \/ \E learnt \in BOOLEAN : UiWrite(w, learnt) \/ UiDiscover(w, learnt)

UiSpec == UiInit /\ [][UiNext]_uiVars

-----------------------------------------------------------------------------

(* The coherence of the health fields (see HealthFieldsAgree) of every copy *)
(* that can still become the stored record: the inductive strengthening of  *)
(* HealthFieldsAgree when whole records are written back.                   *)
AllCopiesCoherent ==
    /\ HealthFieldsAgree
    /\ \A s \in Servers : disk[s] # NoRecord => Coherent(disk[s].h)
    /\ \A w \in ui : Coherent(w.rec.h)
=============================================================================
