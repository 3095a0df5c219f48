------------------------------ MODULE McpLists ------------------------------
(***************************************************************************)
(* How the hub reads the capability lists of a backend in one discovery    *)
(* pass: the pages of tools/list, prompts/list and resources/list,         *)
(* followed by cursor (collect_pages), through the SDK's validating client *)
(* with its lenient second reading, or through the stateless client; and   *)
(* what the pass then stores about them (_store_capabilities).             *)
(*                                                                         *)
(* The backend decides everything: a page is known by the cursor it was    *)
(* asked with, any page may follow any, a page may violate the schema of   *)
(* the negotiated revision, and any request may fail or time out.          *)
(***************************************************************************)
EXTENDS Naturals, Sequences, FiniteSets

CONSTANTS
    Cursors,      \* the cursors a backend can offer
    First,        \* the request without a cursor
    NoCursor,     \* a page that offers no cursor
    MaxPages,     \* pagination.MAX_PAGES
    NoList        \* a list that was not asked for or not obtained (None)

Pages == Cursors \cup {First}

(* What a backend serves for one list: the cursor each page offers, and    *)
(* the pages that do not validate.                                         *)
Chain == [next : [Pages -> Cursors \cup {NoCursor}], bad : SUBSET Pages]

(* tools/list, prompts/list, resources/list, in the order a pass asks. *)
Methods == 1 .. 3

(* MCPClient over HTTP or stdio, or StatelessMCPClient. *)
Clients == {"sdk", "stateless"}

Phases == {"open", "strict", "lenient", "done", "stored"}

(* schema_conformant: None, True or False. *)
Verdicts == {"unknown", "yes", "no"}

ASSUME ListsAssumption ==
    /\ MaxPages \in Nat \ {0}
    /\ First \notin Cursors /\ NoCursor \notin Pages

VARIABLES
    client,     \* which client the pass uses
    method,     \* the list asked for, or the last one
    phase,      \* where the pass is
    chain,      \* environment: what the backend serves for this list
    cursor,     \* collect_pages: the cursor of the next request
    items,      \* collect_pages: accumulated, by page
    fetches,    \* requests sent for this list
    got,        \* tools_raw, prompts_raw, resources_raw
    issues,     \* whether client.schema_issues is non-empty
    salvaged,   \* history: lists obtained although a page was invalid
    conformant  \* server.schema_conformant

vars == <<client, method, phase, chain, cursor, items, fetches, got, issues,
          salvaged, conformant>>

TypeOK ==
    /\ client \in Clients /\ method \in Methods /\ phase \in Phases
    /\ chain \in Chain
    /\ cursor \in Pages /\ items \in Seq(Pages) /\ fetches \in Nat
    /\ got \in [Methods -> {NoList} \cup {"list"}]
    /\ issues \in BOOLEAN /\ salvaged \in SUBSET Methods
    /\ conformant \in Verdicts

NoChain == [next |-> [c \in Pages |-> NoCursor], bad |-> {}]

Init ==
    /\ client \in Clients
    /\ method = 1 /\ phase = "open"
    /\ chain = NoChain
    /\ cursor = First /\ items = <<>> /\ fetches = 0
    /\ got = [m \in Methods |-> NoList]
    /\ issues = FALSE /\ salvaged = {} /\ conformant = "unknown"

-----------------------------------------------------------------------------
(* Mutant of Onward: the same list is asked for again. *)
OnwardAgain == phase' = "open" /\ method' = method

(* Moving on to the next list of the pass, or to the store. *)
Onward ==
    /\ phase' = IF method < 3 THEN "open" ELSE "done"
    /\ method' = IF method < 3 THEN method + 1 ELSE method

(* A list is only asked for when the server advertises it; a stateless     *)
(* server is asked for all three.                                          *)
Skip ==
    /\ phase = "open" /\ client = "sdk"
    /\ Onward
    /\ UNCHANGED <<client, chain, cursor, items, fetches, got, issues, salvaged, conformant>>

(* list(): a new reading starts without a cursor. *)
Ask(c) ==
    /\ phase = "open"
    /\ phase' = "strict" /\ chain' = c
    /\ cursor' = First /\ items' = <<>> /\ fetches' = 0
    /\ UNCHANGED <<client, method, got, issues, salvaged, conformant>>

(* The SDK validates a page before handing it over; the lenient reading    *)
(* and the stateless client take any page.                                 *)
Rejected(c) == client = "sdk" /\ phase = "strict" /\ c \in chain.bad

(* Mutants of Continues: no page limit, no test for a missing cursor, a    *)
(* limit one too low.                                                      *)
ContinuesUnbounded(c, n) == chain.next[c] # NoCursor /\ chain.next[c] # c

ContinuesPastEnd(c, n) == chain.next[c] # c /\ n < MaxPages

ContinuesOneShort(c, n) ==
    chain.next[c] # NoCursor /\ chain.next[c] # c /\ n < MaxPages - 1

(* collect_pages goes on while there is a cursor, it is not the one just   *)
(* used, and the page limit is not reached.                                *)
Continues(c, n) ==
    /\ chain.next[c] # NoCursor
    /\ chain.next[c] # c
    /\ n < MaxPages

(* _list_leniently records that the response did not validate. *)
Notes == issues \/ phase = "lenient"

(* A page arrives and is merged; the reading goes on or the list is        *)
(* complete.  (The stateless client's merge would pass over a page that    *)
(* has no list under the method's key; every page has one here.)           *)
Page ==
    /\ phase \in {"strict", "lenient"} /\ ~Rejected(cursor)
    /\ fetches' = fetches + 1
    /\ items' = Append(items, cursor)
    /\ \/ /\ Continues(cursor, Len(items) + 1)
          /\ cursor' = chain.next[cursor]
          /\ UNCHANGED <<method, phase, got, issues, salvaged>>
       \/ /\ ~Continues(cursor, Len(items) + 1)
          /\ got' = [got EXCEPT ![method] = "list"]
          /\ issues' = Notes
          /\ salvaged' = IF phase = "lenient" THEN salvaged \cup {method} ELSE salvaged
          /\ cursor' = cursor
          /\ Onward
    /\ UNCHANGED <<client, chain, conformant>>

(* Mutant of FallBack: the valid pages are kept and read again. *)
FallBackKeeping == items' = items

FallBack == items' = <<>>

(* An invalid page abandons the strict reading; list() asks for everything *)
(* again, from the first page, below the SDK's validation.                 *)
Invalid ==
    /\ phase = "strict" /\ Rejected(cursor)
    /\ fetches' = fetches + 1
    /\ phase' = "lenient" /\ cursor' = First
    /\ FallBack
    /\ UNCHANGED <<client, method, chain, got, issues, salvaged, conformant>>

(* A timeout, a transport or protocol error, an HTTP error, a JSON-RPC     *)
(* error or an unreadable body ends the reading: the list stays None, what *)
(* was accumulated is dropped, and the pass goes on with the next list.    *)
(* The same when the SDK offers no raw requests to be lenient with.        *)
Fail ==
    /\ phase \in {"strict", "lenient"}
    /\ Onward
    /\ items' = <<>> /\ cursor' = First
    /\ UNCHANGED <<client, chain, fetches, got, issues, salvaged, conformant>>

(* Mutant of Verdict: the client's issues are forgotten. *)
VerdictOfToolsOnly(sound) == IF got[1] = NoList THEN "unknown" ELSE IF sound THEN "yes" ELSE "no"

(* _store_capabilities: the tools are checked (sound is the check's        *)
(* verdict on the list as repaired), and a client that had issues          *)
(* overrides it.                                                           *)
Verdict(sound) ==
    IF issues THEN "no"
    ELSE IF got[1] = NoList THEN "unknown"
    ELSE IF sound THEN "yes" ELSE "no"

Store(sound) ==
    /\ phase = "done"
    /\ phase' = "stored"
    /\ conformant' = Verdict(sound)
    /\ UNCHANGED <<client, method, chain, cursor, items, fetches, got, issues, salvaged>>

Next ==
    \/ Skip
    \/ \E c \in Chain : Ask(c)
    \/ Page
    \/ Invalid
    \/ Fail
    \/ \E sound \in BOOLEAN : Store(sound)

Spec == Init /\ [][Next]_vars

(* Every request is bounded by its timeout, so a reading that has begun    *)
(* takes its next step, and a pass stores what it read.                    *)
FairSpec ==
    /\ Spec
    /\ WF_vars(Page \/ Invalid \/ Fail)
    /\ WF_vars(Skip \/ \E c \in Chain : Ask(c))
    /\ WF_vars(\E sound \in BOOLEAN : Store(sound))

-----------------------------------------------------------------------------
(* Whatever collect_pages has accumulated is a walk along the backend's    *)
(* cursors from the first page on, with no page skipped, and a page read   *)
(* twice only where the backend's cursors form a cycle: the second reading *)
(* must not start on top of what the strict one had collected.             *)
ItemsFollowCursors ==
    /\ items # <<>> => items[1] = First
    /\ \A i \in 1 .. Len(items) - 1 : items[i + 1] = chain.next[items[i]]
    /\ phase = "strict" => items = <<>> \/ cursor = chain.next[items[Len(items)]]

(* A list is accepted as complete only where the backend stopped offering  *)
(* cursors, repeated the one just used, or the page limit cut it off.      *)
AcceptedListsComplete ==
    [][\A m \in Methods : got[m] = NoList /\ got'[m] # NoList =>
           LET last == items'[Len(items')] IN
           \/ chain.next[last] \in {NoCursor, last}
           \/ Len(items') = MaxPages]_vars

(* However the backend answers, one list costs at most MAX_PAGES requests  *)
(* and, when the strict reading failed, MAX_PAGES more.                    *)
RequestsBounded == fetches <= 2 * MaxPages

(* A response that had to be read leniently is never stored as conformant, *)
(* whichever of the three lists it was and whatever the others did.        *)
SalvageReported ==
    phase = "stored" /\ salvaged # {} => conformant = "no"

(* A discovery pass reads its lists to the end and stores them, whatever   *)
(* cursors the backend offers.                                             *)
PassEnds == <>(phase = "stored")

=============================================================================
