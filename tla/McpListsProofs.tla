--------------------------- MODULE McpListsProofs ---------------------------
(***************************************************************************)
(* Proofs about McpLists, for any number of cursors and any page limit:    *)
(* whatever cursors a backend offers, what is read is a walk along them,   *)
(* its cost is bounded, an accepted list is complete, and a list that had  *)
(* to be salvaged is reported.                                             *)
(***************************************************************************)
EXTENDS McpLists, TLAPS

(* Where a reading stands: the next request follows the last page, the     *)
(* page limit is not reached, and the requests sent are the pages of this  *)
(* reading and at most MaxPages of an abandoned one.                       *)
Reading ==
    /\ phase \in {"strict", "lenient"} =>
         /\ cursor = IF items = <<>> THEN First ELSE chain.next[items[Len(items)]]
         /\ Len(items) < MaxPages
    /\ phase = "strict" => fetches = Len(items)
    /\ phase = "lenient" => fetches <= MaxPages + Len(items)

(* A salvaged list leaves an issue behind, which decides the verdict. *)
Reported ==
    /\ salvaged # {} => issues
    /\ phase = "stored" /\ issues => conformant = "no"

ListsInv == TypeOK /\ Reading /\ RequestsBounded /\ ItemsFollowCursors /\ Reported

(* A pass starts with the invariant: nothing has been read. *)
LEMMA InitListsInv == Init => ListsInv
  <1> SUFFICES ASSUME Init PROVE ListsInv
    OBVIOUS
  <1> USE ListsAssumption
  <1>1. NoChain \in Chain
    BY DEF NoChain, Chain, Pages
  <1>2. TypeOK
    <2>0. items \in Seq(Pages)
      BY DEF Init
    <2>1. issues \in BOOLEAN
      BY Zenon DEF Init
    <2>2. /\ client \in Clients /\ method \in Methods /\ phase \in Phases
          /\ cursor \in Pages /\ fetches \in Nat
          /\ got \in [Methods -> {NoList} \cup {"list"}]
          /\ salvaged \in SUBSET Methods /\ conformant \in Verdicts
      BY DEF Init, Methods, Clients, Phases, Pages, Verdicts
    <2>3. chain \in Chain
      BY <1>1 DEF Init
    <2> QED
      BY <2>0, <2>1, <2>2, <2>3 DEF TypeOK
  <1>3. Reading /\ RequestsBounded /\ ItemsFollowCursors /\ Reported
    BY DEF Init, Reading, RequestsBounded, ItemsFollowCursors, Reported
  <1> QED
    BY <1>2, <1>3 DEF ListsInv

(* Appending the page that the cursor names keeps the walk a walk. *)
LEMMA WalkGrows ==
  ASSUME TypeOK, Reading, ItemsFollowCursors, phase \in {"strict", "lenient"}
  PROVE  LET w == Append(items, cursor) IN
         /\ w \in Seq(Pages) /\ w # <<>> /\ Len(w) = Len(items) + 1
         /\ w[Len(w)] = cursor /\ w[1] = First
         /\ \A i \in 1 .. Len(w) - 1 : w[i + 1] = chain.next[w[i]]
  <1> DEFINE w == Append(items, cursor)
  <1>1. items \in Seq(Pages) /\ cursor \in Pages
    BY DEF TypeOK
  <1>2. /\ w \in Seq(Pages) /\ w # <<>> /\ Len(w) = Len(items) + 1 /\ w[Len(w)] = cursor
        /\ \A i \in 1 .. Len(items) : w[i] = items[i]
        /\ Len(items) \in Nat
    BY <1>1
  <1>3. w[1] = First
    BY <1>1, <1>2 DEF Reading, ItemsFollowCursors
  <1>4. ASSUME NEW i \in 1 .. Len(w) - 1 PROVE w[i + 1] = chain.next[w[i]]
    <2>1. CASE i = Len(items)
      BY <1>1, <1>2, <2>1 DEF Reading
    <2>2. CASE i < Len(items)
      BY <1>1, <1>2, <2>2 DEF ItemsFollowCursors
    <2> QED
      BY <1>2, <2>1, <2>2
  <1> QED
    BY <1>2, <1>3, <1>4

(* Moving on to the next list keeps the place of the pass well typed. *)
LEMMA OnwardTypes ==
  ASSUME TypeOK, Onward
  PROVE  method' \in Methods /\ phase' \in {"open", "done"}
  BY DEF TypeOK, Onward, Methods

(* Every step of a pass keeps the invariant. *)
LEMMA StepListsInv == ListsInv /\ [Next]_vars => ListsInv'
  <1> SUFFICES ASSUME ListsInv, [Next]_vars PROVE ListsInv'
    OBVIOUS
  <1> USE ListsAssumption
  <1>0. TypeOK /\ Reading /\ RequestsBounded /\ ItemsFollowCursors /\ Reported
    BY DEF ListsInv
  <1>1. CASE Skip
    <2>1. method' \in Methods /\ phase' \in {"open", "done"}
      BY <1>0, <1>1, OnwardTypes DEF Skip
    <2>2. TypeOK'
      BY <1>0, <1>1, <2>1 DEF Skip, TypeOK, Phases
    <2> QED
      BY <1>0, <1>1, <2>1, <2>2
      DEF Skip, ListsInv, Reading, RequestsBounded, ItemsFollowCursors, Reported
  <1>2. ASSUME NEW c \in Chain, Ask(c) PROVE ListsInv'
    <2>1. TypeOK'
      BY <1>0, <1>2 DEF Ask, TypeOK, Phases, Pages
    <2> QED
      BY <1>0, <1>2, <2>1
      DEF Ask, ListsInv, Reading, RequestsBounded, ItemsFollowCursors, Reported
  <1>3. CASE Page
    <2> DEFINE w == Append(items, cursor)
    <2>1. /\ w \in Seq(Pages) /\ w # <<>> /\ Len(w) = Len(items) + 1
          /\ w[Len(w)] = cursor /\ w[1] = First
          /\ \A i \in 1 .. Len(w) - 1 : w[i + 1] = chain.next[w[i]]
      BY <1>0, <1>3, WalkGrows DEF Page
    <2>2. /\ items' = w /\ fetches' = fetches + 1 /\ chain' = chain
          /\ Len(items) \in Nat /\ Len(items) < MaxPages
          /\ phase \in {"strict", "lenient"}
      BY <1>0, <1>3 DEF Page, TypeOK, Reading
    <2>3. RequestsBounded'
      BY <1>0, <2>2 DEF Reading, RequestsBounded, TypeOK
    <2> HIDE DEF w
    <2>4. CASE Continues(cursor, Len(items) + 1)
      <3>1. /\ cursor' = chain.next[cursor]
            /\ UNCHANGED <<client, method, phase, got, issues, salvaged, conformant>>
        BY <1>3, <2>4 DEF Page
      <3>2. cursor' \in Pages
        BY <1>0, <2>4, <3>1 DEF Continues, TypeOK, Chain, Pages
      <3>3. TypeOK'
        BY <1>0, <2>1, <2>2, <3>1, <3>2 DEF TypeOK
      <3>4. Reading'
        <4>1. Len(items') < MaxPages
          BY <2>1, <2>2, <2>4 DEF Continues
        <4>2. cursor' = IF items' = <<>> THEN First ELSE chain'.next[items'[Len(items')]]
          BY <2>1, <2>2, <3>1
        <4> QED
          BY <1>0, <2>1, <2>2, <3>1, <4>1, <4>2 DEF Reading, TypeOK
      <3>5. ItemsFollowCursors'
        BY <2>1, <2>2, <3>1 DEF ItemsFollowCursors
      <3> QED
        BY <1>0, <2>3, <3>1, <3>3, <3>4, <3>5 DEF ListsInv, Reported
    <2>5. CASE ~Continues(cursor, Len(items) + 1)
      <3>1. /\ got' = [got EXCEPT ![method] = "list"]
            /\ issues' = Notes
            /\ salvaged' = IF phase = "lenient" THEN salvaged \cup {method} ELSE salvaged
            /\ cursor' = cursor /\ Onward
            /\ UNCHANGED <<client, conformant>>
        BY <1>3, <2>5 DEF Page
      <3>2. method' \in Methods /\ phase' \in {"open", "done"}
        BY <1>0, <3>1, OnwardTypes
      <3>3. TypeOK'
        BY <1>0, <2>1, <2>2, <3>1, <3>2 DEF TypeOK, Phases, Notes
      <3>4. Reading' /\ ItemsFollowCursors'
        BY <2>1, <2>2, <3>2 DEF Reading, ItemsFollowCursors
      <3>5. Reported'
        BY <1>0, <3>1, <3>2 DEF Reported, Notes
      <3> QED
        BY <2>3, <3>3, <3>4, <3>5 DEF ListsInv
    <2> QED
      BY <2>4, <2>5
  <1>4. CASE Invalid
    <2>1. TypeOK'
      BY <1>0, <1>4 DEF Invalid, FallBack, TypeOK, Phases, Pages
    <2> QED
      BY <1>0, <1>4, <2>1
      DEF Invalid, FallBack, ListsInv, Reading, RequestsBounded, ItemsFollowCursors, Reported,
          TypeOK
  <1>5. CASE Fail
    <2>1. method' \in Methods /\ phase' \in {"open", "done"}
      BY <1>0, <1>5, OnwardTypes DEF Fail
    <2>2. TypeOK'
      BY <1>0, <1>5, <2>1 DEF Fail, TypeOK, Phases, Pages
    <2> QED
      BY <1>0, <1>5, <2>1, <2>2
      DEF Fail, ListsInv, Reading, RequestsBounded, ItemsFollowCursors, Reported
  <1>6. ASSUME NEW sound \in BOOLEAN, Store(sound) PROVE ListsInv'
    <2>1. TypeOK'
      BY <1>0, <1>6 DEF Store, Verdict, TypeOK, Phases, Verdicts
    <2> QED
      BY <1>0, <1>6, <2>1
      DEF Store, Verdict, ListsInv, Reading, RequestsBounded, ItemsFollowCursors, Reported
  <1>7. CASE UNCHANGED vars
    BY <1>0, <1>7
    DEF vars, ListsInv, TypeOK, Reading, RequestsBounded, ItemsFollowCursors, Reported
  <1> QED
    BY <1>1, <1>2, <1>3, <1>4, <1>5, <1>6, <1>7 DEF Next

(* The inductive invariant of a discovery pass: a reading stands where the *)
(* backend's cursors led it, within its limits, and nothing salvaged goes  *)
(* unreported.                                                             *)
THEOREM ListsInvariant == Spec => []ListsInv
  BY InitListsInv, StepListsInv, PTL DEF Spec

(* Every state of a pass is well typed; in particular collect_pages never  *)
(* asks with the cursor a last page does not offer.                        *)
THEOREM ListsTyped == Spec => []TypeOK
  <1>1. ListsInv => TypeOK
    BY DEF ListsInv
  <1> QED
    BY <1>1, ListsInvariant, PTL

(* One list costs at most twice MAX_PAGES requests, for every backend.     *)
THEOREM PagingBounded == Spec => []RequestsBounded
  <1>1. ListsInv => RequestsBounded
    BY DEF ListsInv
  <1> QED
    BY <1>1, ListsInvariant, PTL

(* What collect_pages accumulates is a walk along the backend's cursors    *)
(* from the first page, also after a lenient second reading.               *)
THEOREM WalksFollowCursors == Spec => []ItemsFollowCursors
  <1>1. ListsInv => ItemsFollowCursors
    BY DEF ListsInv
  <1> QED
    BY <1>1, ListsInvariant, PTL

(* A list that had to be read leniently is never stored as conformant.     *)
THEOREM SalvageIsReported == Spec => []SalvageReported
  <1>1. ListsInv => SalvageReported
    BY DEF ListsInv, Reported, SalvageReported
  <1> QED
    BY <1>1, ListsInvariant, PTL

(* A list is accepted as complete only at the end of the backend's cursors *)
(* or at the page limit.                                                   *)
THEOREM AcceptedAreComplete == Spec => AcceptedListsComplete
  <1> DEFINE Ended ==
        \A m \in Methods : got[m] = NoList /\ got'[m] # NoList =>
           LET last == items'[Len(items')] IN
           \/ chain.next[last] \in {NoCursor, last}
           \/ Len(items') = MaxPages
  <1> USE ListsAssumption
  <1>1. ASSUME ListsInv, [Next]_vars PROVE [Ended]_vars
    <2>0. TypeOK /\ Reading /\ ItemsFollowCursors
      BY <1>1 DEF ListsInv
    <2>1. CASE got' = got
      BY <2>1
    <2>2. CASE Page /\ ~Continues(cursor, Len(items) + 1)
      <3>1. /\ items' = Append(items, cursor)
            /\ Len(items) \in Nat /\ Len(items) < MaxPages
        BY <2>0, <2>2 DEF Page, TypeOK, Reading
      <3>2. items'[Len(items')] = cursor /\ Len(items') = Len(items) + 1
        BY <2>0, <2>2, <3>1, WalkGrows DEF Page
      <3>3. \/ chain.next[cursor] \in {NoCursor, cursor}
            \/ Len(items) + 1 = MaxPages
        BY <2>2, <3>1 DEF Continues
      <3> QED
        BY <3>2, <3>3
    <2> QED
      BY <1>1, <2>1, <2>2 DEF Next, Skip, Ask, Page, Invalid, Fail, Store, vars
  <1>2. ListsInv /\ [Next]_vars => [Ended]_vars
    BY <1>1
  <1> QED
    BY <1>2, ListsInvariant, PTL DEF Spec, AcceptedListsComplete
=============================================================================
