--------------------------- MODULE OpenApiServers ---------------------------
(***************************************************************************)
(* The OpenAPI servers of the hub: import jobs, the per-server locks, the  *)
(* admin's choices (selection, overrides, health probe, base URL), spec    *)
(* revisions that wait for an admin, and the writers of the same records   *)
(* that take no lock: the discovery poll, the capabilities page, the fault *)
(* form, the initialize page, DELETE and /v1/register.                     *)
(*                                                                         *)
(* Everything runs on one event loop.  An action ends where the code       *)
(* suspends: waiting for a semaphore slot, loading a spec in a child       *)
(* process, waiting for the lock, mapping a spec in a thread, reading a    *)
(* client's body.  What a task read before such a point is its copy, which *)
(* may be stale afterwards.  Every write changes the memory first and then *)
(* the file, whose write may raise; a restart reads the file.              *)
(***************************************************************************)
EXTENDS Naturals, Sequences, FiniteSets

CONSTANTS
    Servers,      \* server ids
    Specs,        \* spec contents, one per canonical sha256
    Ops,          \* operations, by (METHOD, path template)
    Names,        \* valid MCP tool names
    Absent,       \* Derived: the spec has no such operation
    Unsupported,  \* Derived: it has, but it cannot be a tool
    Derived,      \* Derived[v][o]: the name _tool_name derives, Absent or Unsupported
    Probeable,    \* Probeable[v]: plain GETs without required parameters
    NoName,       \* an operation without an override
    BadName,      \* an override that is no valid tool name
    NoOp,         \* no health probe
    Keep,         \* a field a request does not send
    NoSpec,       \* no pending revision
    NoRecord,     \* no such server
    HttpRecord,   \* the id belongs to a server that is not an OpenAPI one
    NoTask,       \* an idle handler, a job that is not running any code
    Choices,      \* environment: the choices admins send
    PersistMayFail, \* whether writing the JSON file can raise
    Handlers,     \* admin requests in flight at a time
    MaxRunning,   \* ImportJobStore max_running
    MaxQueued,    \* max_queued
    MaxFinished,  \* max_finished
    MaxJobs,      \* bound: jobs ever submitted
    MaxRequests,  \* bound: other admin requests
    MaxCrashes    \* bound: crashes of the hub

JobIds == 1 .. MaxJobs
Tasks == Handlers \cup JobIds

Overrides == [Ops -> Names \cup {NoName, BadName}]

Choice == [sel : {Keep} \cup SUBSET Ops, ov : {Keep} \cup Overrides, probe : {Keep, NoOp} \cup Ops]

Tool == [name : Names, op : Ops, spec : Specs]

(* The OpenAPI half of a RegisteredServer.  base says whether a base URL   *)
(* is set: without one the server is a draft.                              *)
Record == [snap : Specs, pend : Specs \cup {NoSpec}, sel : SUBSET Ops, ov : Overrides,
           probe : Ops \cup {NoOp}, base : BOOLEAN, tools : SUBSET Tool]

Slot == Record \cup {NoRecord, HttpRecord}

Kinds == {"import", "tools", "settings", "accept", "reject"}

(* A request.  spec is the document of an import (NoSpec until loaded) or  *)
(* the revision an admin reviewed.                                         *)
Request == [kind : Kinds, srv : Servers, choice : Choice, base : BOOLEAN,
            spec : Specs \cup {NoSpec}]

(* seen is history: the edits made when the task read its copy. *)
Task == [at : {"slot", "load", "lock", "map", "discover"}, q : Request, copy : Slot,
         seen : Nat]

ASSUME OpenApiAssumption ==
    /\ Derived \in [Specs -> [Ops -> Names \cup {Absent, Unsupported}]]
    /\ Probeable \in [Specs -> SUBSET Ops]
    /\ \A v \in Specs : \A o \in Probeable[v] : Derived[v][o] \in Names
    /\ Choices \subseteq Choice
    /\ {Absent, Unsupported, NoName, BadName} \cap Names = {}
    /\ Absent # Unsupported /\ NoName # BadName
    /\ {NoOp, Keep} \cap Ops = {} /\ NoOp # Keep
    /\ NoSpec \notin Specs
    /\ NoRecord \notin Record \cup {HttpRecord} /\ HttpRecord \notin Record
    /\ NoTask \notin Task
    /\ Handlers \cap JobIds = {}
    /\ MaxRunning \in Nat \ {0} /\ MaxQueued \in Nat \ {0} /\ MaxFinished \in Nat
    /\ PersistMayFail \in BOOLEAN
    /\ MaxJobs \in Nat /\ MaxRequests \in Nat /\ MaxCrashes \in Nat

VARIABLES
    rec,       \* the registry's record of each id
    disk,      \* the record of each id in the JSON file
    task,      \* the code each handler and each job is running
    lockq,     \* ServerLocks: the holder first, then the waiters
    status,    \* ImportJobStore._jobs ("none": no such job, "gone": pruned)
    finished,  \* ImportJobStore._finished_at: finished jobs, oldest first
    poll,      \* the copy a discovery poll maps
    view,      \* the copy a capabilities page maps
    form,      \* the copy a fault form or an initialize page holds
    joining,   \* ids with a /v1/register between its check and its write
    submitted, \* jobs submitted
    requests,  \* other admin requests made
    crashes,   \* crashes of the hub
    (* History, read by no action. *)
    edits,     \* writes made under the lock
    approved   \* specs an admin imported as a new server or named in an acceptance

vars == <<rec, disk, task, lockq, status, finished, poll, view, form, joining, submitted,
          requests, crashes, edits, approved>>

Unfinished == {"queued", "running"}
Finished == {"succeeded", "failed"}

TypeOK ==
    /\ rec \in [Servers -> Slot]
    /\ disk \in [Servers -> Slot]
    /\ task \in [Tasks -> Task \cup {NoTask}]
    /\ lockq \in [Servers -> Seq(Tasks)]
    /\ status \in [JobIds -> Unfinished \cup Finished \cup {"none", "gone"}]
    /\ finished \in Seq(JobIds)
    /\ poll \in [Servers -> Slot]
    /\ view \in [Servers -> Slot]
    /\ form \in [Servers -> Slot]
    /\ joining \subseteq Servers
    /\ submitted \in 0 .. MaxJobs
    /\ requests \in 0 .. MaxRequests
    /\ crashes \in 0 .. MaxCrashes
    /\ edits \in [Servers -> Nat]
    /\ approved \in [Servers -> SUBSET Specs]

IsOpenApi(r) == r \in Record

-----------------------------------------------------------------------------
(* The mapping of a record's choices to tools *)

Present(v) == {o \in Ops : Derived[v][o] # Absent}
Supported(v) == {o \in Ops : Derived[v][o] \in Names}

(* _tool_name *)
ToolName(r, o) == IF r.ov[o] \in Names THEN r.ov[o] ELSE Derived[r.snap][o]

(* A selected operation that is no longer in the spec is skipped. *)
Chosen(r) == r.sel \cap Present(r.snap)

(* Mutant of Maps: an unsupported operation can be enabled. *)
MapsUnsupported(r) == \A o, p \in Chosen(r) : o # p => ToolName(r, o) # ToolName(r, p)

(* build_tools raises no MappingError. *)
Maps(r) ==
    /\ Chosen(r) \subseteq Supported(r.snap)
    /\ \A o \in Chosen(r) : r.ov[o] # BadName
    /\ \A o, p \in Chosen(r) : o # p => ToolName(r, o) # ToolName(r, p)

(* openapi_tools, with no tools for a selection that cannot be served *)
ToolsOf(r) ==
    IF Maps(r) THEN {[name |-> ToolName(r, o), op |-> o, spec |-> r.snap] : o \in Chosen(r)}
    ELSE {}

(* check_choices *)
CheckChoices(r) ==
    /\ r.sel # {} \/ r.probe # NoOp => r.base
    /\ Maps(r)
    /\ r.probe # NoOp => r.probe \in Probeable[r.snap]

Pick(sent, stored) == IF sent = Keep THEN stored ELSE sent

(* apply_choices: each field that was sent replaces the stored one. *)
ApplyChoices(r, c) ==
    [r EXCEPT !.sel = Pick(c.sel, @), !.ov = Pick(c.ov, @), !.probe = Pick(c.probe, @)]

(* _new_server *)
NewServer(q) ==
    ApplyChoices([snap |-> q.spec, pend |-> NoSpec, sel |-> {}, ov |-> [o \in Ops |-> NoName],
                  probe |-> NoOp, base |-> q.base, tools |-> {}], q.choice)

(* _updated_server: a changed spec waits as the pending revision. *)
Revised(r, v) == IF v = r.snap THEN r ELSE [r EXCEPT !.pend = v]

(* _settings_update: an empty base URL keeps the stored one. *)
ApplySettings(r, q) == [r EXCEPT !.base = @ \/ q.base]

(* _carried: the choices the pending revision can still serve *)
Carried(r) ==
    [r EXCEPT !.snap = r.pend, !.pend = NoSpec,
              !.sel = @ \cap Supported(r.pend),
              !.ov = [o \in Ops |-> IF o \in Supported(r.pend) THEN @[o] ELSE NoName],
              !.probe = IF @ \in Probeable[r.pend] THEN @ ELSE NoOp]

(* The record a request asks for, given the copy it read. *)
Candidate(r, q) ==
    CASE q.kind = "import" /\ r = NoRecord -> NewServer(q)
      [] q.kind = "import" /\ r # NoRecord ->
           ApplyChoices(ApplySettings(Revised(r, q.spec), q), q.choice)
      [] q.kind = "tools" -> ApplyChoices(r, q.choice)
      [] q.kind = "settings" -> ApplySettings(r, q)
      [] q.kind = "accept" -> Carried(r)
      [] q.kind = "reject" -> [r EXCEPT !.pend = NoSpec]

(* Mutant of Refused: any pending revision will do. *)
RefusedUnread(r, q) ==
    IF q.kind = "import" THEN r = HttpRecord
    ELSE ~IsOpenApi(r) \/ (q.kind \in {"accept", "reject"} /\ r.pend = NoSpec)

(* 404, 409 and ImportRejected: what the code refuses on reading the       *)
(* record.  An import makes a missing server; a revision is settled only   *)
(* by the hash of the one that is pending.                                 *)
Refused(r, q) ==
    IF q.kind = "import" THEN r = HttpRecord
    ELSE ~IsOpenApi(r) \/ (q.kind \in {"accept", "reject"} /\ (r.pend = NoSpec \/ r.pend # q.spec))

(* sanitize_for_persistence: the file has no tools. *)
Sanitize(r) == IF IsOpenApi(r) THEN [r EXCEPT !.tools = {}] ELSE r

SanitizeAll(rs) == [s \in Servers |-> Sanitize(rs[s])]

(* registry.register and the storage's save: the memory, then the file     *)
(* with every record.  If that raises, the memory is changed all the same. *)
Write(s, r, ok) ==
    /\ rec' = [rec EXCEPT ![s] = r]
    /\ disk' = IF ok THEN SanitizeAll([rec EXCEPT ![s] = r]) ELSE disk

Outcomes == IF PersistMayFail THEN BOOLEAN ELSE {TRUE}

-----------------------------------------------------------------------------
Init ==
    /\ rec \in [Servers -> {NoRecord, HttpRecord}]
    /\ disk = rec
    /\ task = [t \in Tasks |-> NoTask]
    /\ lockq = [s \in Servers |-> <<>>]
    /\ status = [j \in JobIds |-> "none"]
    /\ finished = <<>>
    /\ poll = [s \in Servers |-> NoRecord]
    /\ view = [s \in Servers |-> NoRecord]
    /\ form = [s \in Servers |-> NoRecord]
    /\ joining = {}
    /\ submitted = 0
    /\ requests = 0
    /\ crashes = 0
    /\ edits = [s \in Servers |-> 0]
    /\ approved = [s \in Servers |-> {}]

(* ImportJobStore *)

InTable(j) == status[j] \notin {"none", "gone"}

(* Some k of the finished jobs are older than the retention time: the      *)
(* clock is monotonic, so they are the first k to finish.                  *)
Prunable(k) == {finished[i] : i \in 1 .. k}

(* _prune drops those and the oldest beyond max_finished. *)
Prune(st, k) ==
    /\ k \in 0 .. Len(finished) /\ Len(finished) - k <= MaxFinished
    /\ status' = [j \in JobIds |-> IF j \in Prunable(k) THEN "gone" ELSE st[j]]
    /\ finished' = SubSeq(finished, k + 1, Len(finished))

(* Mutant of Waiting: only the jobs that have not started count. *)
WaitingQueued == Cardinality({j \in JobIds : status[j] = "queued"})

Waiting == Cardinality({j \in JobIds : status[j] \in Unfinished})

(* start_import and refresh: 409 for an id that is not an OpenAPI server,  *)
(* 429 when too many jobs are unfinished, else 202 and a new job.  A       *)
(* refresh is an import that sends nothing but the spec's URL.             *)
Submit(s, c, b, k) ==
    /\ submitted < MaxJobs
    /\ rec[s] # HttpRecord
    /\ Waiting < MaxQueued
    /\ LET j == submitted + 1 IN
        /\ Prune([status EXCEPT ![j] = "queued"], k)
        /\ task' = [task EXCEPT ![j] =
             [at |-> "slot", copy |-> NoRecord, seen |-> 0,
              q |-> [kind |-> "import", srv |-> s, choice |-> c, base |-> b, spec |-> NoSpec]]]
        /\ submitted' = j
    /\ UNCHANGED <<rec, disk, lockq, poll, view, form, joining, requests, crashes, edits, approved>>

(* get_import, and a submit that is refused with 429 *)
ReadJobs(k) ==
    /\ k > 0
    /\ Prune(status, k)
    /\ UNCHANGED <<rec, disk, task, lockq, poll, view, form, joining, submitted, requests,
                   crashes, edits, approved>>

Running == {j \in JobIds : status[j] = "running"}

(* _run gets a slot of the semaphore, in the order of arrival. *)
RunJob(j) ==
    /\ status[j] = "queued" /\ \A i \in JobIds : status[i] = "queued" => j <= i
    /\ Cardinality(Running) < MaxRunning
    /\ status' = [status EXCEPT ![j] = "running"]
    /\ task' = [task EXCEPT ![j].at = "load"]
    /\ UNCHANGED <<rec, disk, lockq, finished, poll, view, form, joining, submitted, requests,
                   crashes, edits, approved>>

(* Mutant of Finish: _run does not catch what the import raises. *)
FinishIfDone(t, outcome) ==
    IF t \in JobIds /\ outcome = "succeeded"
    THEN /\ status' = [status EXCEPT ![t] = outcome]
         /\ finished' = Append(finished, t)
    ELSE UNCHANGED <<status, finished>>

(* _finish for a job; for a handler, the response. *)
Finish(t, outcome) ==
    IF t \in JobIds
    THEN /\ status' = [status EXCEPT ![t] = outcome]
         /\ finished' = Append(finished, t)
    ELSE UNCHANGED <<status, finished>>

(* SpecError: the fetch fails, the child is killed at its deadline or      *)
(* crashes, or the document is no valid spec.                              *)
LoadFails(j) ==
    /\ task[j] # NoTask /\ task[j].at = "load"
    /\ task' = [task EXCEPT ![j] = NoTask]
    /\ Finish(j, "failed")
    /\ UNCHANGED <<rec, disk, lockq, poll, view, form, joining, submitted, requests, crashes,
                   edits, approved>>

(* Mutant of Entered: the lock is not waited for. *)
EnteredAtOnce(q, t) == <<t>> \o q

(* async with locks(id): in the order of arrival *)
Entered(q, t) == Append(q, t)

(* The spec is loaded before the lock is asked for. *)
Loaded(j, v) ==
    /\ task[j] # NoTask /\ task[j].at = "load"
    /\ task' = [task EXCEPT ![j].at = "lock", ![j].q.spec = v]
    /\ lockq' = [lockq EXCEPT ![task[j].q.srv] = Entered(@, j)]
    /\ UNCHANGED <<rec, disk, status, finished, poll, view, form, joining, submitted, requests,
                   crashes, edits, approved>>

(* put_tools, patch_settings, accept, reject: the lock is asked for.  The  *)
(* first two have read and validated the request's body by then.           *)
Ask(h, q) ==
    /\ task[h] = NoTask /\ requests < MaxRequests
    /\ requests' = requests + 1
    /\ task' = [task EXCEPT ![h] = [at |-> "lock", q |-> q, copy |-> NoRecord, seen |-> 0]]
    /\ lockq' = [lockq EXCEPT ![q.srv] = Entered(@, h)]
    /\ UNCHANGED <<rec, disk, status, finished, poll, view, form, joining, submitted, crashes,
                   edits, approved>>

Holds(t, place) ==
    /\ task[t] # NoTask /\ task[t].at = place
    /\ lockq[task[t].q.srv] # <<>> /\ Head(lockq[task[t].q.srv]) = t

(* Mutant of Release: an early return leaves the lock taken. *)
ReleaseForgotten(s) == UNCHANGED lockq

Release(s) == lockq' = [lockq EXCEPT ![s] = Tail(@)]

(* The task returns or raises inside async with: it leaves the lock. *)
Leave(t, outcome) ==
    /\ task' = [task EXCEPT ![t] = NoTask]
    /\ Release(task[t].q.srv)
    /\ Finish(t, outcome)

(* accept and reject read the request's body inside the lock. *)
AwaitsBody(t) == Holds(t, "lock") /\ task[t].q.kind \in {"accept", "reject"}

(* The body is too large, no valid choice, or the client hangs up. *)
BodyFails(t) ==
    /\ AwaitsBody(t)
    /\ Leave(t, "failed")
    /\ UNCHANGED <<rec, disk, poll, view, form, joining, submitted, requests, crashes, edits,
                   approved>>

(* The lock is held (and the body has come); the record is read and,       *)
(* unless it is refused, goes to the mapping thread.  An admin who sends a *)
(* hash has reviewed that revision.  (A rejection maps nothing: letting    *)
(* others run before it is stored only adds behaviours.)                   *)
Read(t) ==
    /\ Holds(t, "lock")
    /\ LET q == task[t].q
           s == q.srv
       IN
        /\ IF Refused(rec[s], q)
           THEN Leave(t, "failed")
           ELSE /\ task' = [task EXCEPT ![t].at = "map", ![t].copy = rec[s], ![t].seen = edits[s]]
                /\ UNCHANGED <<lockq, status, finished>>
        /\ approved' = IF q.kind = "accept" THEN [approved EXCEPT ![s] = @ \cup {q.spec}]
                       ELSE approved
    /\ UNCHANGED <<rec, disk, poll, view, form, joining, submitted, requests, crashes, edits>>

(* Mutant of Accepts: what cannot be served is stored all the same. *)
AcceptsAnything(r, q) == TRUE

(* MappingError from check_choices; a rejection is not checked. *)
Accepts(r, q) == q.kind = "reject" \/ CheckChoices(Candidate(r, q))

(* MappingError: nothing is stored. *)
Unservable(t) ==
    /\ Holds(t, "map")
    /\ ~Accepts(task[t].copy, task[t].q)
    /\ Leave(t, "failed")
    /\ UNCHANGED <<rec, disk, poll, view, form, joining, submitted, requests, crashes, edits,
                   approved>>

(* registry.register of the candidate.  discover_immediately follows with  *)
(* no suspension in between: it reads the record back and maps it in a     *)
(* thread.  A rejection changes no tool and is done; if the file cannot be *)
(* written the operation fails here, with the record changed.              *)
Store(t, ok) ==
    /\ Holds(t, "map")
    /\ Accepts(task[t].copy, task[t].q)
    /\ LET q == task[t].q
           s == q.srv
           r == Candidate(task[t].copy, q)
       IN
        /\ Write(s, r, ok)
        /\ edits' = [edits EXCEPT ![s] = @ + 1]
        /\ approved' = IF q.kind = "import" /\ task[t].copy = NoRecord
                       THEN [approved EXCEPT ![s] = @ \cup {q.spec}] ELSE approved
        /\ IF ok /\ q.kind # "reject"
           THEN /\ task' = [task EXCEPT ![t].at = "discover", ![t].copy = r]
                /\ UNCHANGED <<lockq, status, finished>>
           ELSE Leave(t, "failed")
    /\ UNCHANGED <<poll, view, form, joining, submitted, requests, crashes>>

(* Mutants of Discovered: the tools are not computed anew; they are added  *)
(* to the ones that are there.                                             *)
DiscoveredStale(r) == r

DiscoveredMerged(r) == [r EXCEPT !.tools = @ \cup ToolsOf(r)]

(* _discover_openapi's last lines: the whole copy, with its tools *)
Discovered(r) == [r EXCEPT !.tools = ToolsOf(r)]

Publish(t, ok) ==
    /\ Holds(t, "discover")
    /\ Write(task[t].q.srv, Discovered(task[t].copy), ok)
    /\ Leave(t, IF ok THEN "succeeded" ELSE "failed")
    /\ UNCHANGED <<poll, view, form, joining, submitted, requests, crashes, edits, approved>>

-----------------------------------------------------------------------------
(* The writers that take no lock *)

(* _discover_openapi from poll_once: it reads the stored record ... *)
PollRead(s) ==
    /\ poll[s] = NoRecord /\ IsOpenApi(rec[s])
    /\ poll' = [poll EXCEPT ![s] = rec[s]]
    /\ UNCHANGED <<rec, disk, task, lockq, status, finished, view, form, joining, submitted,
                   requests, crashes, edits, approved>>

(* ... and writes it back when the mapping thread is done. *)
PollWrite(s, ok) ==
    /\ poll[s] # NoRecord
    /\ Write(s, Discovered(poll[s]), ok)
    /\ poll' = [poll EXCEPT ![s] = NoRecord]
    /\ UNCHANGED <<task, lockq, status, finished, view, form, joining, submitted, requests,
                   crashes, edits, approved>>

(* get_server_tools: a record without tools is mapped for the page ... *)
ViewRead(s) ==
    /\ view[s] = NoRecord /\ IsOpenApi(rec[s]) /\ rec[s].tools = {}
    /\ view' = [view EXCEPT ![s] = rec[s]]
    /\ UNCHANGED <<rec, disk, task, lockq, status, finished, poll, form, joining, submitted,
                   requests, crashes, edits, approved>>

(* ... and written back if there are any. *)
ViewWrite(s, ok) ==
    /\ view[s] # NoRecord
    /\ IF ToolsOf(view[s]) = {} THEN UNCHANGED <<rec, disk>>
       ELSE Write(s, Discovered(view[s]), ok)
    /\ view' = [view EXCEPT ![s] = NoRecord]
    /\ UNCHANGED <<task, lockq, status, finished, poll, form, joining, submitted, requests,
                   crashes, edits, approved>>

(* post_server_faults and get_initialize read the record, of whatever      *)
(* kind, before they wait for the form or for the hub's own answer ...     *)
UiRead(s) ==
    /\ requests < MaxRequests /\ form[s] = NoRecord /\ rec[s] # NoRecord
    /\ requests' = requests + 1
    /\ form' = [form EXCEPT ![s] = rec[s]]
    /\ UNCHANGED <<rec, disk, task, lockq, status, finished, poll, view, joining, submitted,
                   crashes, edits, approved>>

(* ... and write the whole copy back with a field set that is not modelled *)
(* here, whatever is stored by then.                                       *)
UiWrite(s, ok) ==
    /\ form[s] # NoRecord
    /\ Write(s, form[s], ok)
    /\ form' = [form EXCEPT ![s] = NoRecord]
    /\ UNCHANGED <<task, lockq, status, finished, poll, view, joining, submitted, requests,
                   crashes, edits, approved>>

(* The client hangs up, or the handshake showed nothing new. *)
UiEnd(s) ==
    /\ form[s] # NoRecord
    /\ form' = [form EXCEPT ![s] = NoRecord]
    /\ UNCHANGED <<rec, disk, task, lockq, status, finished, poll, view, joining, submitted,
                   requests, crashes, edits, approved>>

(* DELETE *)
Delete(s, ok) ==
    /\ requests < MaxRequests /\ rec[s] # NoRecord
    /\ requests' = requests + 1
    /\ Write(s, NoRecord, ok)
    /\ UNCHANGED <<task, lockq, status, finished, poll, view, form, joining, submitted, crashes,
                   edits, approved>>

(* /v1/register: 409 for an OpenAPI server, then the URL checks ... *)
JoinCheck(s) ==
    /\ requests < MaxRequests /\ s \notin joining /\ ~IsOpenApi(rec[s])
    /\ requests' = requests + 1
    /\ joining' = joining \cup {s}
    /\ UNCHANGED <<rec, disk, task, lockq, status, finished, poll, view, form, submitted, crashes,
                   edits, approved>>

(* ... then the write, whatever is stored by then. *)
JoinWrite(s, ok) ==
    /\ s \in joining
    /\ Write(s, HttpRecord, ok)
    /\ joining' = joining \ {s}
    /\ UNCHANGED <<task, lockq, status, finished, poll, view, form, submitted, requests, crashes,
                   edits, approved>>

(* Any other save, such as a health verdict's, writes the whole file. *)
SaveOther ==
    /\ disk' = SanitizeAll(rec)
    /\ UNCHANGED <<rec, task, lockq, status, finished, poll, view, form, joining, submitted,
                   requests, crashes, edits, approved>>

(* The storage is read from the file; jobs, locks and requests are gone. *)
CrashAndRestart ==
    /\ crashes < MaxCrashes
    /\ crashes' = crashes + 1
    /\ rec' = disk
    /\ task' = [t \in Tasks |-> NoTask]
    /\ lockq' = [s \in Servers |-> <<>>]
    /\ status' = [j \in JobIds |-> IF status[j] = "none" THEN "none" ELSE "gone"]
    /\ finished' = <<>>
    /\ poll' = [s \in Servers |-> NoRecord]
    /\ view' = [s \in Servers |-> NoRecord]
    /\ form' = [s \in Servers |-> NoRecord]
    /\ joining' = {}
    /\ UNCHANGED <<disk, submitted, requests, edits, approved>>

Unchosen == [sel |-> Keep, ov |-> Keep, probe |-> Keep]

Requests(s) ==
    {[kind |-> "tools", srv |-> s, choice |-> c, base |-> FALSE, spec |-> NoSpec] : c \in Choices}
    \cup {[kind |-> "settings", srv |-> s, choice |-> Unchosen, base |-> b, spec |-> NoSpec] :
             b \in BOOLEAN}
    \cup {[kind |-> k, srv |-> s, choice |-> Unchosen, base |-> FALSE, spec |-> v] :
             k \in {"accept", "reject"}, v \in Specs}

JobStep(j) == RunJob(j) \/ LoadFails(j) \/ \E v \in Specs : Loaded(j, v)

(* What the hub does for the holder of a lock *)
LockedStep(t) ==
    \/ ~AwaitsBody(t) /\ Read(t)
    \/ Unservable(t)
    \/ \E ok \in Outcomes : Store(t, ok) \/ Publish(t, ok)

(* What waits for the client: nothing bounds the time a body takes. *)
ClientStep(t) == BodyFails(t) \/ (AwaitsBody(t) /\ Read(t))

PollStep(s) == PollRead(s) \/ \E ok \in Outcomes : PollWrite(s, ok)

UnlockedWrite(s, ok) ==
    ViewWrite(s, ok) \/ UiWrite(s, ok) \/ Delete(s, ok) \/ JoinWrite(s, ok)

Next ==
    \/ \E s \in Servers, c \in Choices \cup {Unchosen}, b \in BOOLEAN, k \in 0 .. MaxJobs :
           Submit(s, c, b, k)
    \/ \E k \in 1 .. MaxJobs : ReadJobs(k)
    \/ \E j \in JobIds : JobStep(j)
    \/ \E h \in Handlers, s \in Servers : \E q \in Requests(s) : Ask(h, q)
    \/ \E t \in Tasks : LockedStep(t) \/ ClientStep(t)
    \/ \E s \in Servers :
          \/ PollStep(s) \/ ViewRead(s) \/ UiRead(s) \/ UiEnd(s) \/ JoinCheck(s)
          \/ \E ok \in Outcomes : UnlockedWrite(s, ok)
    \/ SaveOther
    \/ CrashAndRestart

(* Every task of the hub that can go on does: the spec's child has a       *)
(* deadline, the mapping threads end, the semaphore and the lock wake      *)
(* their waiters, the poll comes round.  Nothing is assumed of clients.    *)
Fairness ==
    /\ \A j \in JobIds : WF_vars(JobStep(j))
    /\ \A t \in Tasks : WF_vars(LockedStep(t))
    /\ \A s \in Servers : WF_vars(PollStep(s))

Spec == Init /\ [][Next]_vars /\ Fairness

-----------------------------------------------------------------------------
(* Whatever the order of imports, choices, revisions, polls, pages, failed *)
(* writes and restarts, a stored OpenAPI record passes check_choices: its  *)
(* selection maps to tools with different names, its probe is usable, a    *)
(* draft exposes nothing.                                                  *)
StoredChoicesServable ==
    \A s \in Servers : IsOpenApi(rec[s]) => CheckChoices(rec[s])

(* The tools are all of one spec, which an admin approved and which        *)
(* supports their operations, and no two have a name or an operation in    *)
(* common.                                                                 *)
FromOneSpec(tools, specs) ==
    /\ \A x \in tools : x.spec \in specs /\ x.op \in Supported(x.spec)
    /\ \A x, y \in tools : x.spec = y.spec /\ (x # y => x.name # y.name /\ x.op # y.op)

(* Stale copies written back without the lock, failed writes and restarts  *)
(* may leave tools on a record that are not the mapping of its choices,    *)
(* but never a mixture: what the servers page lists was mapped as a whole  *)
(* from one approved spec (_discover_openapi replaces the list).           *)
ToolsFromOneSpec ==
    \A s \in Servers : IsOpenApi(rec[s]) => FromOneSpec(rec[s].tools, approved[s])

(* The tools of a record are time and again the mapping of its choices:    *)
(* whatever a stale copy, a failed write or a restart left there, the next *)
(* poll puts right.                                                        *)
ToolsCatchUp ==
    \A s \in Servers : []<>(IsOpenApi(rec[s]) => rec[s].tools = ToolsOf(rec[s]))

(* The spec a server serves was imported by an admin when the server was   *)
(* made, or named by its hash in an acceptance: never a revision that      *)
(* replaced the reviewed one (RevisionChoice), and never a changed spec on *)
(* import alone.                                                           *)
ServesApprovedSpec ==
    \A s \in Servers : IsOpenApi(rec[s]) => rec[s].snap \in approved[s]

(* Between reading a record under the lock and writing it back no other    *)
(* locked operation has written it (ServerLocks: else each would "write    *)
(* back the other's stale copy").                                          *)
EditsDoNotOverlap ==
    \A t \in Tasks :
        task[t] # NoTask /\ task[t].at = "map" => task[t].seen = edits[task[t].q.srv]

(* A job is unfinished in the table as long as it runs code, and no        *)
(* longer: pruning never drops one that is still going on, and none is     *)
(* left "running" when its task has ended.                                 *)
JobsTracked == \A j \in JobIds : task[j] # NoTask <=> status[j] \in Unfinished

(* The job table stays within max_queued + max_finished, although jobs     *)
(* finish at any time and the table is pruned only when it is used.        *)
JobTableBounded == Cardinality({j \in JobIds : InTable(j)}) <= MaxQueued + MaxFinished

(* Every job that is submitted ends, although it holds its slot while it   *)
(* waits for the server's lock, provided that no client keeps a lock for   *)
(* ever by not sending the body of its accept or reject: the slots and the *)
(* locks never wait for each other in a circle.  Without the proviso it is *)
(* false, as _reviewed_revision reads the body inside the lock and without *)
(* a timeout.                                                              *)
JobsEnd ==
    (\A h \in Handlers : []<>~AwaitsBody(h)) =>
        \A j \in JobIds : status[j] = "queued" ~> status[j] \notin Unfinished

(* A poll writes back what the admins chose and leaves a deleted server    *)
(* deleted (_discover_openapi: a copy from before an admin's change,       *)
(* written back, "would undo the change.  A server deleted meanwhile stays *)
(* deleted").                                                              *)
PollUndoesNothing ==
    [][\A s \in Servers :
          poll[s] # NoRecord /\ poll'[s] = NoRecord =>
              /\ IsOpenApi(rec[s])
              /\ rec'[s] = Discovered(rec[s])]_vars
=============================================================================
