------------------------ MODULE OpenApiServersProofs ------------------------
(***************************************************************************)
(* Proofs about OpenApiServers, for any servers, specs, choices, handlers  *)
(* and limits, through failed writes and restarts: what is stored can be   *)
(* served, comes from an approved spec and lists tools of one approved     *)
(* spec; edits under the lock do not overlap; the job table knows every    *)
(* job that runs and stays within its limits.                              *)
(***************************************************************************)
EXTENDS OpenApiServers, TLAPS, FiniteSetTheorems

(* What is true of any copy of a server's record, given approved specs. *)
SoundIn(r, specs) ==
    IsOpenApi(r) => /\ CheckChoices(r)
                    /\ r.snap \in specs
                    /\ FromOneSpec(r.tools, specs)

Sound(s, r) == SoundIn(r, approved[s])

RecordsSound ==
    \A s \in Servers :
        /\ Sound(s, rec[s]) /\ Sound(s, disk[s])
        /\ Sound(s, poll[s]) /\ Sound(s, view[s]) /\ Sound(s, form[s])
        /\ poll[s] = NoRecord \/ IsOpenApi(poll[s])
        /\ view[s] = NoRecord \/ IsOpenApi(view[s])

Leads(t, s) == lockq[s] # <<>> /\ Head(lockq[s]) = t

(* The copy of a task at the mapping thread was admitted, and nobody has   *)
(* edited the record since.                                                *)
Mapping(t, s, q) ==
    /\ Leads(t, s)
    /\ ~Refused(task[t].copy, q)
    /\ Sound(s, task[t].copy)
    /\ q.kind = "accept" => q.spec \in approved[s]
    /\ task[t].seen = edits[s]

Discovering(t, s) == Leads(t, s) /\ IsOpenApi(task[t].copy) /\ Sound(s, task[t].copy)

(* What a task relies on at each place where it is suspended. *)
TaskSound(t) ==
    task[t] # NoTask =>
        LET q == task[t].q IN
        /\ q.kind = "import" /\ task[t].at \in {"lock", "map"} => q.spec \in Specs
        /\ q.kind = "accept" => q.spec \in Specs
        /\ task[t].at = "map" => Mapping(t, q.srv, q)
        /\ task[t].at = "discover" => Discovering(t, q.srv)

TasksSound == \A t \in Tasks : TaskSound(t)

(* The job table: no job listed as finished is unfinished, later numbers   *)
(* are unused, a job is an import and is queued while it has no slot.      *)
JobTable ==
    /\ \A i \in 1 .. Len(finished) :
          status[finished[i]] \notin Unfinished /\ finished[i] <= submitted
    /\ \A j \in JobIds : j > submitted => task[j] = NoTask
    /\ \A j \in JobIds :
          task[j] # NoTask =>
              task[j].q.kind = "import" /\ (task[j].at = "slot" <=> status[j] = "queued")

(* The inductive invariant. *)
OpenApiInv == TypeOK /\ RecordsSound /\ TasksSound /\ JobTable /\ JobsTracked

-----------------------------------------------------------------------------
(* Records and choices *)

(* check_choices and the tools look at five fields only. *)
LEMMA SameChoices ==
  ASSUME NEW r, NEW x,
         x.snap = r.snap, x.sel = r.sel, x.ov = r.ov, x.probe = r.probe, x.base = r.base
  PROVE  /\ CheckChoices(x) <=> CheckChoices(r)
         /\ ToolsOf(x) = ToolsOf(r)
  <1>1. Chosen(x) = Chosen(r) /\ \A o : ToolName(x, o) = ToolName(r, o)
    BY DEF Chosen, ToolName
  <1>2. Maps(x) <=> Maps(r)
    BY <1>1 DEF Maps
  <1>3. CheckChoices(x) <=> CheckChoices(r)
    BY <1>2 DEF CheckChoices
  <1>4. {[name |-> ToolName(x, o), op |-> o, spec |-> x.snap] : o \in Chosen(x)}
          = {[name |-> ToolName(r, o), op |-> o, spec |-> r.snap] : o \in Chosen(r)}
    BY <1>1
  <1> QED
    BY <1>2, <1>3, <1>4 DEF ToolsOf

(* What maps has tools of the type of tools. *)
LEMMA ToolsTyped ==
  ASSUME NEW r \in Record
  PROVE  ToolsOf(r) \in SUBSET Tool
  <1>1. CASE Maps(r)
    <2>1. ASSUME NEW o \in Chosen(r) PROVE ToolName(r, o) \in Names /\ o \in Ops
      BY <1>1, <2>1 DEF Maps, Chosen, Supported, Present, ToolName
    <2>2. ASSUME NEW o \in Chosen(r)
          PROVE  [name |-> ToolName(r, o), op |-> o, spec |-> r.snap] \in Tool
      BY <2>1, <2>2 DEF Tool, Record
    <2> QED
      BY <1>1, <2>2 DEF ToolsOf
  <1>2. CASE ~Maps(r)
    BY <1>2 DEF ToolsOf
  <1> QED
    BY <1>1, <1>2

(* Discovery changes the tools of a record and nothing else. *)
LEMMA DiscoveryKeeps ==
  ASSUME NEW r \in Record
  PROVE  /\ Discovered(r) \in Record
         /\ Discovered(r).tools = ToolsOf(Discovered(r))
         /\ Discovered(r).snap = r.snap
         /\ CheckChoices(Discovered(r)) <=> CheckChoices(r)
  <1>1. ToolsOf(r) \in SUBSET Tool
    BY ToolsTyped
  <1>2. Discovered(r) = [snap |-> r.snap, pend |-> r.pend, sel |-> r.sel, ov |-> r.ov,
                         probe |-> r.probe, base |-> r.base, tools |-> ToolsOf(r)]
    BY DEF Discovered, Record
  <1>3. Discovered(r) \in Record
    BY <1>1, <1>2 DEF Record
  <1>4. ToolsOf(Discovered(r)) = ToolsOf(r) /\ (CheckChoices(Discovered(r)) <=> CheckChoices(r))
    BY <1>2, SameChoices
  <1> QED
    BY <1>2, <1>3, <1>4

(* apply_choices makes records of records and keeps the spec. *)
LEMMA ChoicesTyped ==
  ASSUME NEW r \in Record, NEW c \in Choice
  PROVE  /\ ApplyChoices(r, c) \in Record
         /\ ApplyChoices(r, c).snap = r.snap /\ ApplyChoices(r, c).tools = r.tools
  <1> DEFINE a == Pick(c.sel, r.sel)
             b == Pick(c.ov, r.ov)
             d == Pick(c.probe, r.probe)
  <1>1. a \in SUBSET Ops /\ b \in Overrides /\ d \in Ops \cup {NoOp}
    BY DEF Pick, Choice, Record
  <1>2. ApplyChoices(r, c) = [r EXCEPT !.sel = a, !.ov = b, !.probe = d]
    BY Zenon DEF ApplyChoices
  <1> HIDE DEF a, b, d
  <1> QED
    BY <1>1, <1>2 DEF Record

(* The record a request asks for, by kind, and the spec it would serve. *)
LEMMA CandidateTyped ==
  ASSUME NEW r \in Slot, NEW q \in Request, ~Refused(r, q),
         q.kind = "import" => q.spec \in Specs
  PROVE  /\ Candidate(r, q) \in Record
         /\ q.kind = "import" /\ r = NoRecord => Candidate(r, q).snap = q.spec
         /\ q.kind = "accept" => Candidate(r, q).snap = q.spec
         /\ q.kind # "accept" /\ r # NoRecord => IsOpenApi(r) /\ Candidate(r, q).snap = r.snap
         /\ q.kind # "import" => IsOpenApi(r)
         /\ Candidate(r, q).tools = IF r = NoRecord THEN {} ELSE r.tools
  <1>0. q.choice \in Choice /\ q.base \in BOOLEAN /\ q.kind \in Kinds /\ q.spec \in Specs \cup {NoSpec}
    BY DEF Request
  <1>1. CASE q.kind = "import" /\ r = NoRecord
    <2> DEFINE fresh == [snap |-> q.spec, pend |-> NoSpec, sel |-> {}, ov |-> [o \in Ops |-> NoName],
                         probe |-> NoOp, base |-> q.base, tools |-> {}]
    <2>1. [o \in Ops |-> NoName] \in Overrides
      BY DEF Overrides
    <2>2. fresh \in Record
      BY <1>0, <1>1, <2>1 DEF Record
    <2>3. /\ ApplyChoices(fresh, q.choice) \in Record
          /\ ApplyChoices(fresh, q.choice).snap = fresh.snap
          /\ ApplyChoices(fresh, q.choice).tools = fresh.tools
      BY <1>0, <2>2, ChoicesTyped
    <2>4. Candidate(r, q) = ApplyChoices(fresh, q.choice)
      BY <1>1 DEF Candidate, NewServer
    <2> QED
      BY <1>1, <2>3, <2>4
  <1>2. CASE q.kind = "import" /\ r # NoRecord
    <2>1. r \in Record
      BY <1>2 DEF Refused, Slot
    <2>2. /\ Revised(r, q.spec) \in Record
          /\ Revised(r, q.spec).snap = r.snap /\ Revised(r, q.spec).tools = r.tools
      <3>1. CASE q.spec = r.snap
        BY <2>1, <3>1 DEF Revised
      <3>2. CASE q.spec # r.snap
        <4>1. Revised(r, q.spec) =
                [snap |-> r.snap, pend |-> q.spec, sel |-> r.sel, ov |-> r.ov, probe |-> r.probe,
                 base |-> r.base, tools |-> r.tools]
          BY <2>1, <3>2 DEF Revised, Record
        <4> QED
          BY <1>2, <2>1, <4>1 DEF Record
      <3> QED
        BY <3>1, <3>2
    <2>3. \A x \in Record : /\ ApplySettings(x, q) \in Record
                            /\ ApplySettings(x, q).snap = x.snap
                            /\ ApplySettings(x, q).tools = x.tools
      BY <1>0 DEF ApplySettings, Record
    <2>4. Candidate(r, q) = ApplyChoices(ApplySettings(Revised(r, q.spec), q), q.choice)
      BY <1>2 DEF Candidate
    <2> QED
      BY <1>0, <1>2, <2>1, <2>2, <2>3, <2>4, ChoicesTyped DEF IsOpenApi
  <1>3. CASE q.kind # "import"
    <2>1. r \in Record /\ r # NoRecord
      BY <1>3, OpenApiAssumption DEF Refused, IsOpenApi
    <2>2. CASE q.kind = "tools"
      BY <1>0, <2>1, <2>2, ChoicesTyped DEF Candidate, IsOpenApi
    <2>3. CASE q.kind = "settings"
      <3>1. Candidate(r, q) = ApplySettings(r, q)
        BY <2>3 DEF Candidate
      <3> QED
        BY <1>0, <2>1, <2>3, <3>1 DEF ApplySettings, Record, IsOpenApi
    <2>4. CASE q.kind = "accept"
      <3>1. r.pend = q.spec /\ q.spec \in Specs
        BY <1>0, <2>1, <2>4 DEF Refused, IsOpenApi
      <3> DEFINE a == r.sel \cap Supported(r.pend)
                 b == [o \in Ops |-> IF o \in Supported(r.pend) THEN r.ov[o] ELSE NoName]
                 d == IF r.probe \in Probeable[r.pend] THEN r.probe ELSE NoOp
      <3>2. a \in SUBSET Ops /\ b \in Overrides /\ d \in Ops \cup {NoOp}
        BY <2>1 DEF Record, Overrides
      <3>3. Carried(r) =
              [r EXCEPT !.snap = r.pend, !.pend = NoSpec, !.sel = a, !.ov = b, !.probe = d]
        BY Zenon DEF Carried
      <3> HIDE DEF a, b, d
      <3>4. Carried(r) \in Record /\ Carried(r).snap = q.spec /\ Carried(r).tools = r.tools
        BY <2>1, <3>1, <3>2, <3>3 DEF Record
      <3> QED
        BY <2>1, <2>4, <3>4 DEF Candidate, IsOpenApi
    <2>5. CASE q.kind = "reject"
      <3>1. Candidate(r, q) = [r EXCEPT !.pend = NoSpec]
        BY <2>5 DEF Candidate
      <3> QED
        BY <2>1, <2>5, <3>1 DEF Record, IsOpenApi
    <2> QED
      BY <1>0, <1>3, <2>2, <2>3, <2>4, <2>5 DEF Kinds
  <1> QED
    BY <1>1, <1>2, <1>3

(* A rejection leaves the choices of a record alone. *)
LEMMA RejectionKeeps ==
  ASSUME NEW r \in Record, NEW q, q.kind = "reject"
  PROVE  CheckChoices(Candidate(r, q)) <=> CheckChoices(r)
  <1>1. Candidate(r, q) = [snap |-> r.snap, pend |-> NoSpec, sel |-> r.sel, ov |-> r.ov,
                           probe |-> r.probe, base |-> r.base, tools |-> r.tools]
    BY DEF Candidate, Record
  <1> QED
    BY <1>1, SameChoices

-----------------------------------------------------------------------------
(* Sound records *)

(* What is sound stays so while specs are only added to the approved ones. *)
LEMMA SoundGrows ==
  ASSUME NEW r, NEW A, NEW B, A \subseteq B, SoundIn(r, A)
  PROVE  SoundIn(r, B)
  BY DEF SoundIn, FromOneSpec

(* An id without an OpenAPI record *)
LEMMA NoneSound ==
  ASSUME NEW A
  PROVE  /\ NoRecord \in Slot /\ HttpRecord \in Slot
         /\ ~IsOpenApi(NoRecord) /\ ~IsOpenApi(HttpRecord)
         /\ SoundIn(NoRecord, A) /\ SoundIn(HttpRecord, A)
  BY OpenApiAssumption DEF Slot, IsOpenApi, SoundIn

(* The mapping gives tools of the record's own spec, under different       *)
(* names.                                                                  *)
LEMMA MappedFromOne ==
  ASSUME NEW r \in Record, NEW A, r.snap \in A
  PROVE  FromOneSpec(ToolsOf(r), A)
  <1>1. CASE Maps(r)
    <2>1. \A o \in Chosen(r) : o \in Supported(r.snap)
      BY <1>1 DEF Maps
    <2>2. \A o, p \in Chosen(r) : o # p => ToolName(r, o) # ToolName(r, p)
      BY <1>1 DEF Maps
    <2>3. ASSUME NEW x \in ToolsOf(r)
          PROVE  \E o \in Chosen(r) : x = [name |-> ToolName(r, o), op |-> o, spec |-> r.snap]
      BY <1>1, <2>3 DEF ToolsOf
    <2>4. ASSUME NEW x \in ToolsOf(r), NEW y \in ToolsOf(r)
          PROVE  /\ x.spec \in A /\ x.op \in Supported(x.spec) /\ x.spec = y.spec
                 /\ x # y => x.name # y.name /\ x.op # y.op
      <3>1. PICK o \in Chosen(r) : x = [name |-> ToolName(r, o), op |-> o, spec |-> r.snap]
        BY <2>3
      <3>2. PICK p \in Chosen(r) : y = [name |-> ToolName(r, p), op |-> p, spec |-> r.snap]
        BY <2>3
      <3> QED
        BY <2>1, <2>2, <3>1, <3>2
    <2> QED
      BY <2>4 DEF FromOneSpec
  <1>2. CASE ~Maps(r)
    BY <1>2 DEF ToolsOf, FromOneSpec
  <1> QED
    BY <1>1, <1>2

(* Discovery makes sound records of sound records. *)
LEMMA DiscoverySound ==
  ASSUME NEW r \in Record, NEW A, SoundIn(r, A)
  PROVE  Discovered(r) \in Record /\ SoundIn(Discovered(r), A)
  <1>1. CheckChoices(r) /\ r.snap \in A
    BY DEF SoundIn, IsOpenApi
  <1>2. /\ Discovered(r) \in Record /\ Discovered(r).snap = r.snap
        /\ CheckChoices(Discovered(r)) <=> CheckChoices(r)
        /\ Discovered(r).tools = ToolsOf(Discovered(r))
    BY DiscoveryKeeps
  <1>3. FromOneSpec(ToolsOf(Discovered(r)), A)
    BY <1>1, <1>2, MappedFromOne
  <1> QED
    BY <1>1, <1>2, <1>3 DEF SoundIn

(* So does the file. *)
LEMMA SanitizeSound ==
  ASSUME NEW r \in Slot, NEW A, SoundIn(r, A)
  PROVE  Sanitize(r) \in Slot /\ SoundIn(Sanitize(r), A)
  <1>1. CASE r \in Record
    <2>1. Sanitize(r) = [snap |-> r.snap, pend |-> r.pend, sel |-> r.sel, ov |-> r.ov,
                         probe |-> r.probe, base |-> r.base, tools |-> {}]
      BY <1>1 DEF Sanitize, IsOpenApi, Record
    <2>2. Sanitize(r) \in Record
      BY <1>1, <2>1 DEF Record
    <2>3. CheckChoices(Sanitize(r)) /\ Sanitize(r).snap \in A
      BY <1>1, <2>1, SameChoices DEF SoundIn, IsOpenApi
    <2> QED
      BY <2>1, <2>2, <2>3 DEF SoundIn, FromOneSpec, Slot
  <1>2. CASE r \notin Record
    BY <1>2 DEF Sanitize, IsOpenApi
  <1> QED
    BY <1>1, <1>2

(* The candidate of an admitted and accepted request is sound. *)
LEMMA CandidateSound ==
  ASSUME NEW r \in Slot, NEW q \in Request, ~Refused(r, q), Accepts(r, q),
         q.kind = "import" => q.spec \in Specs,
         NEW A, NEW B, A \subseteq B, SoundIn(r, A),
         q.kind = "accept" => q.spec \in B,
         q.kind = "import" /\ r = NoRecord => q.spec \in B
  PROVE  Candidate(r, q) \in Record /\ SoundIn(Candidate(r, q), B)
  <1>1. /\ Candidate(r, q) \in Record
        /\ q.kind = "import" /\ r = NoRecord => Candidate(r, q).snap = q.spec
        /\ q.kind = "accept" => Candidate(r, q).snap = q.spec
        /\ q.kind # "accept" /\ r # NoRecord => IsOpenApi(r) /\ Candidate(r, q).snap = r.snap
        /\ q.kind # "import" => IsOpenApi(r)
        /\ Candidate(r, q).tools = IF r = NoRecord THEN {} ELSE r.tools
    BY CandidateTyped
  <1>2. ~IsOpenApi(NoRecord)
    BY NoneSound
  <1>3. CASE r = NoRecord
    <2>1. q.kind = "import"
      BY <1>1, <1>2, <1>3
    <2>2. CheckChoices(Candidate(r, q))
      BY <2>1 DEF Accepts
    <2>3. FromOneSpec({}, B)
      BY DEF FromOneSpec
    <2> QED
      BY <1>1, <1>3, <2>1, <2>2, <2>3 DEF SoundIn
  <1>4. CASE r # NoRecord
    <2>1. IsOpenApi(r)
      BY <1>1, <1>4
    <2>2. CheckChoices(r) /\ r.snap \in B /\ FromOneSpec(r.tools, B)
      BY <2>1, SoundGrows DEF SoundIn
    <2>3. CheckChoices(Candidate(r, q))
      BY <2>1, <2>2, RejectionKeeps DEF Accepts, IsOpenApi
    <2>4. Candidate(r, q).snap \in B
      BY <1>1, <1>4, <2>2
    <2> QED
      BY <1>1, <1>4, <2>2, <2>3, <2>4 DEF SoundIn
  <1> QED
    BY <1>3, <1>4

(* A write of a sound record, whether or not the file takes it. *)
LEMMA WriteSound ==
  ASSUME TypeOK, RecordsSound, NEW s \in Servers, NEW r \in Slot, NEW ok, Write(s, r, ok),
         \A x \in Servers : approved[x] \subseteq approved'[x],
         SoundIn(r, approved'[s]),
         \A x \in Servers : /\ poll'[x] \in {poll[x], NoRecord}
                            /\ view'[x] \in {view[x], NoRecord}
                            /\ form'[x] \in {form[x], NoRecord}
  PROVE  rec' \in [Servers -> Slot] /\ disk' \in [Servers -> Slot] /\ RecordsSound'
  <1> DEFINE m == [rec EXCEPT ![s] = r]
  <1>1. rec' = m /\ disk' = IF ok THEN SanitizeAll(m) ELSE disk
    BY DEF Write
  <1>2. m \in [Servers -> Slot] /\ \A x \in Servers : m[x] = IF x = s THEN r ELSE rec[x]
    BY DEF TypeOK
  <1> HIDE DEF m
  <1>3. ASSUME NEW x \in Servers
        PROVE  /\ SoundIn(m[x], approved'[x]) /\ SoundIn(disk[x], approved'[x])
               /\ SoundIn(poll[x], approved'[x]) /\ SoundIn(view[x], approved'[x])
               /\ SoundIn(form[x], approved'[x]) /\ SoundIn(NoRecord, approved'[x])
    BY <1>2, SoundGrows, NoneSound DEF RecordsSound, Sound
  <1>4. SanitizeAll(m) \in [Servers -> Slot]
        /\ \A x \in Servers : SoundIn(SanitizeAll(m)[x], approved'[x])
    BY <1>2, <1>3, SanitizeSound DEF SanitizeAll
  <1>5. /\ rec' \in [Servers -> Slot] /\ disk' \in [Servers -> Slot]
        /\ \A x \in Servers : SoundIn(rec'[x], approved'[x]) /\ SoundIn(disk'[x], approved'[x])
    BY <1>1, <1>2, <1>3, <1>4 DEF TypeOK
  <1>6. \A x \in Servers : /\ poll'[x] = NoRecord \/ IsOpenApi(poll'[x])
                           /\ view'[x] = NoRecord \/ IsOpenApi(view'[x])
    BY DEF RecordsSound
  <1> QED
    BY <1>3, <1>5, <1>6 DEF RecordsSound, Sound, IsOpenApi

-----------------------------------------------------------------------------
(* Tasks, locks, jobs *)

(* Entering a queue leaves its head where it is. *)
LEMMA EnterKeeps ==
  ASSUME NEW q \in Seq(Tasks), NEW t \in Tasks
  PROVE  /\ Entered(q, t) \in Seq(Tasks) /\ Entered(q, t) # <<>>
         /\ q # <<>> => Head(Entered(q, t)) = Head(q)
  <1>1. /\ Append(q, t) \in Seq(Tasks) /\ Len(Append(q, t)) = Len(q) + 1 /\ Len(q) \in Nat
        /\ \A i \in 1 .. Len(q) : Append(q, t)[i] = q[i]
    OBVIOUS
  <1>2. Append(q, t) # <<>>
    BY <1>1
  <1>3. ASSUME q # <<>> PROVE Head(Append(q, t)) = Head(q)
    <2>1. 1 \in 1 .. Len(q) /\ Head(q) = q[1] /\ Head(Append(q, t)) = Append(q, t)[1]
      BY <1>1, <1>2, <1>3
    <2> QED
      BY <1>1, <2>1
  <1> QED
    BY <1>1, <1>2, <1>3 DEF Entered

(* A task that does not move keeps what it relies on if its lock, and the  *)
(* edits of the record it copied, are left alone.                          *)
LEMMA TaskCarries ==
  ASSUME TypeOK, NEW u \in Tasks, TaskSound(u), task'[u] = task[u],
         \A s \in Servers : approved[s] \subseteq approved'[s],
         task[u] # NoTask /\ task[u].at \in {"map", "discover"} =>
             /\ lockq'[task[u].q.srv] # <<>> /\ Head(lockq'[task[u].q.srv]) = u
             /\ edits'[task[u].q.srv] = edits[task[u].q.srv]
  PROVE  TaskSound(u)'
  <1>1. CASE task[u] = NoTask
    BY <1>1 DEF TaskSound
  <1>2. CASE task[u] # NoTask
    <2>1. task[u].q.srv \in Servers
      BY <1>2 DEF TypeOK, Task, Request
    <2> DEFINE s == task[u].q.srv
    <2>2. approved[s] \subseteq approved'[s]
      BY <2>1
    <2>3. \A r : Sound(s, r) => SoundIn(r, approved'[s])
      BY <2>2, SoundGrows DEF Sound
    <2>4. task[u].at = "map" => Mapping(u, s, task[u].q)'
      BY <1>2, <2>2, <2>3 DEF TaskSound, Mapping, Leads, Sound
    <2>5. task[u].at = "discover" => Discovering(u, s)'
      BY <1>2, <2>3 DEF TaskSound, Discovering, Leads, Sound
    <2> QED
      BY <1>2, <2>4, <2>5 DEF TaskSound
  <1> QED
    BY <1>1, <1>2

(* Stored and copied records stay sound while specs are only added to the  *)
(* approved ones.                                                          *)
LEMMA RecordsCarry ==
  ASSUME RecordsSound, UNCHANGED <<rec, disk, poll, view, form>>,
         \A s \in Servers : approved[s] \subseteq approved'[s]
  PROVE  RecordsSound'
  BY SoundGrows DEF RecordsSound, Sound, IsOpenApi

(* A task that ends, with its outcome in the table if it is a job. *)
LEMMA EndKeepsJobs ==
  ASSUME TypeOK, JobTable, JobsTracked, NEW t \in Tasks, task[t] # NoTask,
         NEW o \in Finished, Finish(t, o), task' = [task EXCEPT ![t] = NoTask],
         submitted' = submitted
  PROVE  /\ status' \in [JobIds -> Unfinished \cup Finished \cup {"none", "gone"}]
         /\ finished' \in Seq(JobIds)
         /\ JobTable' /\ JobsTracked'
  <1>0. JobIds \subseteq Tasks
    BY DEF Tasks
  <1>1. \A j \in JobIds : task'[j] = IF j = t THEN NoTask ELSE task[j]
    BY <1>0 DEF TypeOK
  <1>2. CASE t \in JobIds
    <2>1. /\ status' = [status EXCEPT ![t] = o]
          /\ finished' = Append(finished, t)
      BY <1>2 DEF Finish
    <2>2. status \in [JobIds -> Unfinished \cup Finished \cup {"none", "gone"}]
          /\ finished \in Seq(JobIds)
      BY DEF TypeOK
    <2>3. \A j \in JobIds : status'[j] = IF j = t THEN o ELSE status[j]
      BY <2>1, <2>2
    <2>4. status' \in [JobIds -> Unfinished \cup Finished \cup {"none", "gone"}]
          /\ finished' \in Seq(JobIds)
      BY <1>2, <2>1, <2>2
    <2>5. t <= submitted /\ o \notin Unfinished
      BY <1>2 DEF JobTable, TypeOK, JobIds, Finished, Unfinished
    <2>6. ASSUME NEW i \in 1 .. Len(finished')
          PROVE  status'[finished'[i]] \notin Unfinished /\ finished'[i] <= submitted
      <3>1. \/ i \in 1 .. Len(finished) /\ finished'[i] = finished[i] /\ finished[i] \in JobIds
            \/ finished'[i] = t
        BY <2>1, <2>2
      <3> QED
        BY <1>2, <2>3, <2>5, <3>1 DEF JobTable
    <2>7. JobsTracked'
      BY <1>1, <2>3 DEF JobsTracked, Finished, Unfinished
    <2> QED
      BY <1>1, <2>1, <2>3, <2>4, <2>6, <2>7 DEF JobTable
  <1>3. CASE t \notin JobIds
    <2>1. UNCHANGED <<status, finished, submitted>> /\ \A j \in JobIds : task'[j] = task[j]
      BY <1>1, <1>3 DEF Finish
    <2>2. /\ status' \in [JobIds -> Unfinished \cup Finished \cup {"none", "gone"}]
          /\ finished' \in Seq(JobIds)
      BY <2>1 DEF TypeOK
    <2>3. JobTable' /\ JobsTracked'
      BY <2>1 DEF JobTable, JobsTracked
    <2> QED
      BY <2>2, <2>3
  <1> QED
    BY <1>2, <1>3

(* A task that moves to another place; a job does so while it runs. *)
LEMMA MoveKeepsJobs ==
  ASSUME TypeOK, JobTable, JobsTracked, NEW t \in Tasks, NEW k \in Task,
         task' = [task EXCEPT ![t] = k],
         t \in JobIds => task[t] # NoTask /\ task[t].at # "slot" /\ k.q.kind = "import",
         k.at # "slot",
         UNCHANGED <<status, finished, submitted>>
  PROVE  JobTable' /\ JobsTracked'
  <1>1. \A j \in JobIds : j \in Tasks /\ task'[j] = IF j = t THEN k ELSE task[j]
    BY DEF TypeOK, Tasks
  <1>2. k # NoTask
    BY OpenApiAssumption
  <1> QED
    BY <1>1, <1>2 DEF JobTable, JobsTracked

(* A locked task leaves: nobody else was past the queue. *)
LEMMA LeaveKeeps ==
  ASSUME TypeOK, TasksSound, NEW t \in Tasks, task[t] # NoTask, Leads(t, task[t].q.srv),
         task' = [task EXCEPT ![t] = NoTask], Release(task[t].q.srv),
         \A s \in Servers : approved[s] \subseteq approved'[s],
         \A s \in Servers : s # task[t].q.srv => edits'[s] = edits[s]
  PROVE  lockq' \in [Servers -> Seq(Tasks)] /\ TasksSound'
  <1> DEFINE s == task[t].q.srv
  <1>1. s \in Servers /\ lockq[s] \in Seq(Tasks) /\ lockq[s] # <<>>
    BY DEF TypeOK, Task, Request, Leads
  <1>2. Tail(lockq[s]) \in Seq(Tasks)
    BY <1>1
  <1>3. lockq' = [lockq EXCEPT ![s] = Tail(lockq[s])]
    BY DEF Release
  <1> HIDE DEF s
  <1>4. lockq' \in [Servers -> Seq(Tasks)] /\ \A x \in Servers : x # s => lockq'[x] = lockq[x]
    BY <1>1, <1>2, <1>3 DEF TypeOK
  <1>5. ASSUME NEW u \in Tasks PROVE TaskSound(u)'
    <2>1. CASE u = t
      BY <2>1 DEF TaskSound, TypeOK
    <2>2. CASE u # t
      <3>1. task'[u] = task[u]
        BY <2>2 DEF TypeOK
      <3>2. ASSUME task[u] # NoTask, task[u].at \in {"map", "discover"}
            PROVE  task[u].q.srv \in Servers /\ task[u].q.srv # s /\ Leads(u, task[u].q.srv)
        BY <2>2, <3>2 DEF TasksSound, TaskSound, Mapping, Discovering, Leads, TypeOK, Task, Request,
                          s
      <3>3. TaskSound(u)
        BY DEF TasksSound
      <3> QED
        BY <1>4, <3>1, <3>2, <3>3, TaskCarries DEF Leads, s
    <2> QED
      BY <2>1, <2>2
  <1> QED
    BY <1>4, <1>5 DEF TasksSound

-----------------------------------------------------------------------------
(* The steps *)

(* Nothing is stored at first. *)
LEMMA InitInv == Init => OpenApiInv
  <1> SUFFICES ASSUME Init PROVE OpenApiInv
    OBVIOUS
  <1>1. \A s \in Servers : /\ rec[s] \in {NoRecord, HttpRecord} /\ disk[s] \in {NoRecord, HttpRecord}
                           /\ poll[s] = NoRecord /\ view[s] = NoRecord /\ form[s] = NoRecord
    BY DEF Init
  <1>2. \A t \in Tasks : task[t] = NoTask
    BY DEF Init
  <1>3. JobIds \subseteq Tasks
    BY DEF Tasks
  <1>4. TypeOK
    BY OpenApiAssumption DEF Init, TypeOK, Slot
  <1>5. JobTable /\ JobsTracked
    BY <1>2, <1>3 DEF Init, JobTable, JobsTracked, Unfinished
  <1>6. RecordsSound
    BY <1>1, NoneSound DEF RecordsSound, Sound
  <1> QED
    BY <1>2, <1>4, <1>5, <1>6 DEF OpenApiInv, TasksSound, TaskSound

(* Tasks that nothing touched *)
LEMMA TasksCarry ==
  ASSUME TypeOK, TasksSound, UNCHANGED <<task, lockq, edits, approved>>
  PROVE  TasksSound'
  <1> SUFFICES ASSUME NEW u \in Tasks PROVE TaskSound(u)'
    BY DEF TasksSound
  <1> QED
    BY DEF TasksSound, TaskSound, Mapping, Discovering, Leads, Sound

(* The jobs that nothing touched *)
LEMMA JobsCarry ==
  ASSUME JobTable, JobsTracked, UNCHANGED <<task, status, finished, submitted>>
  PROVE  JobTable' /\ JobsTracked'
  BY DEF JobTable, JobsTracked

(* The writers without a lock write a sound record. *)
LEMMA WriteKeeps ==
  ASSUME OpenApiInv, NEW s \in Servers, NEW r \in Slot, NEW ok, Write(s, r, ok),
         SoundIn(r, approved[s]),
         poll' \in [Servers -> Slot], view' \in [Servers -> Slot], form' \in [Servers -> Slot],
         \A x \in Servers : /\ poll'[x] \in {poll[x], NoRecord}
                            /\ view'[x] \in {view[x], NoRecord}
                            /\ form'[x] \in {form[x], NoRecord},
         joining' \subseteq Servers, requests' \in 0 .. MaxRequests,
         UNCHANGED <<task, lockq, status, finished, submitted, crashes, edits, approved>>
  PROVE  OpenApiInv'
  <1>0. TypeOK /\ RecordsSound /\ TasksSound /\ JobTable /\ JobsTracked
    BY DEF OpenApiInv
  <1>1. rec' \in [Servers -> Slot] /\ disk' \in [Servers -> Slot] /\ RecordsSound'
    BY <1>0, WriteSound
  <1>2. TypeOK'
    BY <1>0, <1>1 DEF TypeOK
  <1> QED
    BY <1>0, <1>1, <1>2, TasksCarry, JobsCarry DEF OpenApiInv

(* A reader of the record, or the end of one, with nothing written. *)
LEMMA CopyKeeps ==
  ASSUME OpenApiInv, UNCHANGED <<rec, disk>>,
         poll' \in [Servers -> Slot], view' \in [Servers -> Slot], form' \in [Servers -> Slot],
         \A x \in Servers : /\ poll'[x] \in {poll[x], NoRecord} \/ (poll'[x] = rec[x] /\ IsOpenApi(rec[x]))
                            /\ view'[x] \in {view[x], NoRecord} \/ (view'[x] = rec[x] /\ IsOpenApi(rec[x]))
                            /\ form'[x] \in {form[x], NoRecord, rec[x]},
         joining' \subseteq Servers, requests' \in 0 .. MaxRequests,
         UNCHANGED <<task, lockq, status, finished, submitted, crashes, edits, approved>>
  PROVE  OpenApiInv'
  <1>0. TypeOK /\ RecordsSound /\ TasksSound /\ JobTable /\ JobsTracked
    BY DEF OpenApiInv
  <1>1. TypeOK'
    BY <1>0 DEF TypeOK
  <1>2. \A x \in Servers : SoundIn(NoRecord, approved[x])
    BY NoneSound
  <1>3. RecordsSound'
    BY <1>0, <1>2 DEF RecordsSound, Sound, IsOpenApi
  <1> QED
    BY <1>0, <1>1, <1>3, TasksCarry, JobsCarry DEF OpenApiInv

(* The poll, the pages, the fault form, DELETE and /v1/register. *)
LEMMA UnlockedStepKeeps ==
  ASSUME OpenApiInv, NEW s \in Servers,
         \/ PollStep(s) \/ ViewRead(s) \/ UiRead(s) \/ UiEnd(s) \/ JoinCheck(s)
         \/ \E ok \in Outcomes : UnlockedWrite(s, ok)
  PROVE  OpenApiInv'
  <1>0. TypeOK /\ RecordsSound
    BY DEF OpenApiInv
  <1>1. NoRecord \in Slot /\ HttpRecord \in Slot
        /\ SoundIn(NoRecord, approved[s]) /\ SoundIn(HttpRecord, approved[s])
    BY NoneSound
  <1>2. /\ rec \in [Servers -> Slot] /\ poll \in [Servers -> Slot]
        /\ view \in [Servers -> Slot] /\ form \in [Servers -> Slot]
        /\ joining \subseteq Servers /\ requests \in 0 .. MaxRequests
    BY <1>0 DEF TypeOK
  <1>3. ASSUME NEW r \in Record, SoundIn(r, approved[s])
        PROVE  Discovered(r) \in Slot /\ SoundIn(Discovered(r), approved[s])
    BY <1>3, DiscoverySound DEF Slot
  <1>4. /\ SoundIn(poll[s], approved[s]) /\ SoundIn(view[s], approved[s])
        /\ SoundIn(form[s], approved[s])
    BY <1>0 DEF RecordsSound, Sound
  <1>5. requests < MaxRequests => requests + 1 \in 0 .. MaxRequests
    BY <1>2, OpenApiAssumption
  <1>6. CASE PollRead(s)
    BY <1>2, <1>6, CopyKeeps DEF PollRead
  <1>7. CASE ViewRead(s)
    BY <1>2, <1>7, CopyKeeps DEF ViewRead
  <1>8. CASE UiRead(s)
    BY <1>2, <1>5, <1>8, CopyKeeps DEF UiRead
  <1>9. CASE UiEnd(s)
    BY <1>1, <1>2, <1>9, CopyKeeps DEF UiEnd
  <1>10. CASE JoinCheck(s)
    BY <1>2, <1>5, <1>10, CopyKeeps DEF JoinCheck
  <1>11. ASSUME NEW ok \in Outcomes, PollWrite(s, ok) PROVE OpenApiInv'
    <2>1. poll[s] \in Record
      BY <1>0, <1>11 DEF PollWrite, RecordsSound, IsOpenApi
    <2>2. Discovered(poll[s]) \in Slot /\ SoundIn(Discovered(poll[s]), approved[s])
      BY <1>3, <1>4, <2>1
    <2> QED
      BY <1>1, <1>2, <1>11, <2>2, WriteKeeps DEF PollWrite
  <1>12. ASSUME NEW ok \in Outcomes, ViewWrite(s, ok) PROVE OpenApiInv'
    <2>1. view[s] \in Record
      BY <1>0, <1>12 DEF ViewWrite, RecordsSound, IsOpenApi
    <2>2. Discovered(view[s]) \in Slot /\ SoundIn(Discovered(view[s]), approved[s])
      BY <1>3, <1>4, <2>1
    <2>3. CASE ToolsOf(view[s]) = {}
      BY <1>1, <1>2, <1>12, <2>3, CopyKeeps DEF ViewWrite
    <2>4. CASE ToolsOf(view[s]) # {}
      BY <1>1, <1>2, <1>12, <2>2, <2>4, WriteKeeps DEF ViewWrite
    <2> QED
      BY <2>3, <2>4
  <1>13. ASSUME NEW ok \in Outcomes, UiWrite(s, ok) PROVE OpenApiInv'
    <2>1. form[s] \in Slot
      BY <1>2
    <2> QED
      BY <1>1, <1>2, <1>4, <1>13, <2>1, WriteKeeps DEF UiWrite
  <1>14. ASSUME NEW ok \in Outcomes, Delete(s, ok) PROVE OpenApiInv'
    BY <1>1, <1>2, <1>5, <1>14, WriteKeeps DEF Delete
  <1>15. ASSUME NEW ok \in Outcomes, JoinWrite(s, ok) PROVE OpenApiInv'
    BY <1>1, <1>2, <1>15, WriteKeeps DEF JoinWrite
  <1> QED
    BY <1>6, <1>7, <1>8, <1>9, <1>10, <1>11, <1>12, <1>13, <1>14, <1>15
    DEF PollStep, UnlockedWrite

(* A save of another record writes the file. *)
LEMMA SaveOtherKeeps ==
  ASSUME OpenApiInv, SaveOther
  PROVE  OpenApiInv'
  <1>0. TypeOK /\ RecordsSound /\ TasksSound /\ JobTable /\ JobsTracked
    BY DEF OpenApiInv
  <1>1. /\ disk' = SanitizeAll(rec)
        /\ UNCHANGED <<rec, task, lockq, status, finished, poll, view, form, joining, submitted,
                       requests, crashes, edits, approved>>
    BY DEF SaveOther
  <1>2. \A x \in Servers : rec[x] \in Slot /\ SoundIn(rec[x], approved[x])
    BY <1>0 DEF TypeOK, RecordsSound, Sound
  <1>3. disk' \in [Servers -> Slot] /\ \A x \in Servers : SoundIn(disk'[x], approved[x])
    BY <1>1, <1>2, SanitizeSound DEF SanitizeAll
  <1>4. TypeOK'
    BY <1>0, <1>1, <1>3 DEF TypeOK
  <1>5. RecordsSound'
    BY <1>0, <1>1, <1>3 DEF RecordsSound, Sound, IsOpenApi
  <1> QED
    BY <1>0, <1>1, <1>4, <1>5, TasksCarry, JobsCarry DEF OpenApiInv

(* After a restart there are the records of the file and nothing else. *)
LEMMA CrashKeeps ==
  ASSUME OpenApiInv, CrashAndRestart
  PROVE  OpenApiInv'
  <1>0. TypeOK /\ RecordsSound /\ JobTable
    BY DEF OpenApiInv
  <1>1. /\ crashes < MaxCrashes /\ crashes' = crashes + 1
        /\ rec' = disk /\ task' = [t \in Tasks |-> NoTask] /\ lockq' = [s \in Servers |-> <<>>]
        /\ status' = [j \in JobIds |-> IF status[j] = "none" THEN "none" ELSE "gone"]
        /\ finished' = <<>> /\ joining' = {}
        /\ poll' = [s \in Servers |-> NoRecord] /\ view' = [s \in Servers |-> NoRecord]
        /\ form' = [s \in Servers |-> NoRecord]
        /\ UNCHANGED <<disk, submitted, requests, edits, approved>>
    BY DEF CrashAndRestart
  <1>2. NoRecord \in Slot /\ \A s \in Servers : SoundIn(NoRecord, approved[s])
    BY NoneSound
  <1>3. /\ status' \in [JobIds -> Unfinished \cup Finished \cup {"none", "gone"}]
        /\ \A j \in JobIds : status'[j] \notin Unfinished
    BY <1>1 DEF Unfinished
  <1>4. finished' \in Seq(JobIds) /\ Len(finished') = 0
    BY <1>1
  <1>5. \A t \in Tasks : task'[t] = NoTask
    BY <1>1
  <1>6. crashes' \in 0 .. MaxCrashes
    BY <1>0, <1>1, OpenApiAssumption DEF TypeOK
  <1>7. TypeOK'
    BY <1>0, <1>1, <1>2, <1>3, <1>4, <1>6 DEF TypeOK
  <1>8. RecordsSound'
    BY <1>0, <1>1, <1>2 DEF RecordsSound, Sound
  <1>9. TasksSound'
    BY <1>5 DEF TasksSound, TaskSound
  <1>10. JobTable' /\ JobsTracked'
    BY <1>3, <1>4, <1>5 DEF JobTable, JobsTracked, Tasks
  <1> QED
    BY <1>7, <1>8, <1>9, <1>10 DEF OpenApiInv

(* _prune: the jobs it drops are finished, and what it keeps is in order. *)
LEMMA PruneKeeps ==
  ASSUME TypeOK, JobTable, NEW st, NEW k, Prune(st, k),
         st \in [JobIds -> Unfinished \cup Finished \cup {"none", "gone"}]
  PROVE  /\ status' \in [JobIds -> Unfinished \cup Finished \cup {"none", "gone"}]
         /\ finished' \in Seq(JobIds)
         /\ \A i \in 1 .. Len(finished') : \E h \in 1 .. Len(finished) : finished'[i] = finished[h]
         /\ \A j \in JobIds :
               \/ status'[j] = st[j]
               \/ status'[j] = "gone" /\ status[j] \notin Unfinished /\ j <= submitted
  <1>1. /\ k \in 0 .. Len(finished) /\ finished \in Seq(JobIds) /\ Len(finished) \in Nat
        /\ status' = [j \in JobIds |-> IF j \in Prunable(k) THEN "gone" ELSE st[j]]
        /\ finished' = SubSeq(finished, k + 1, Len(finished))
    BY DEF Prune, TypeOK
  <1>2. status' \in [JobIds -> Unfinished \cup Finished \cup {"none", "gone"}]
    BY <1>1
  <1>3. /\ finished' \in Seq(JobIds)
        /\ \A i \in 1 .. Len(finished') : finished'[i] = finished[k + i] /\ k + i \in 1 .. Len(finished)
    BY <1>1
  <1>4. \A j \in Prunable(k) : status[j] \notin Unfinished /\ j <= submitted
    BY <1>1 DEF Prunable, JobTable
  <1> QED
    BY <1>1, <1>2, <1>3, <1>4

(* get_import *)
LEMMA ReadJobsKeeps ==
  ASSUME OpenApiInv, NEW k, ReadJobs(k)
  PROVE  OpenApiInv'
  <1>0. TypeOK /\ RecordsSound /\ TasksSound /\ JobTable /\ JobsTracked
    BY DEF OpenApiInv
  <1>1. Prune(status, k)
        /\ UNCHANGED <<rec, disk, task, lockq, poll, view, form, joining, submitted, requests,
                       crashes, edits, approved>>
    BY DEF ReadJobs
  <1>2. status \in [JobIds -> Unfinished \cup Finished \cup {"none", "gone"}]
        /\ finished \in Seq(JobIds)
    BY <1>0 DEF TypeOK
  <1>3. /\ status' \in [JobIds -> Unfinished \cup Finished \cup {"none", "gone"}]
        /\ finished' \in Seq(JobIds)
        /\ \A i \in 1 .. Len(finished') : \E h \in 1 .. Len(finished) : finished'[i] = finished[h]
        /\ \A j \in JobIds :
              \/ status'[j] = status[j]
              \/ status'[j] = "gone" /\ status[j] \notin Unfinished /\ j <= submitted
    BY <1>0, <1>1, <1>2, PruneKeeps
  <1>4. TypeOK'
    BY <1>0, <1>1, <1>3 DEF TypeOK
  <1>5. \A j \in JobIds :
           /\ status'[j] \in Unfinished <=> status[j] \in Unfinished
           /\ status'[j] = "queued" <=> status[j] = "queued"
    BY <1>3 DEF Unfinished
  <1>6. ASSUME NEW i \in 1 .. Len(finished')
        PROVE  status'[finished'[i]] \notin Unfinished /\ finished'[i] <= submitted
    BY <1>0, <1>2, <1>3, <1>5 DEF JobTable
  <1>7. JobTable' /\ JobsTracked'
    BY <1>0, <1>1, <1>5, <1>6 DEF JobTable, JobsTracked
  <1> QED
    BY <1>0, <1>1, <1>4, <1>7, TasksCarry, RecordsCarry DEF OpenApiInv

(* A task that is not past the queue gets a new place before the lock. *)
LEMMA WaitKeeps ==
  ASSUME OpenApiInv, NEW t \in Tasks, NEW k \in Task,
         task[t] = NoTask \/ task[t].at \in {"slot", "load"},
         task' = [task EXCEPT ![t] = k],
         k.at \in {"slot", "load", "lock"},
         k.q.kind = "import" /\ k.at = "lock" => k.q.spec \in Specs,
         k.q.kind = "accept" => k.q.spec \in Specs,
         lockq' = lockq \/ lockq' = [lockq EXCEPT ![k.q.srv] = Entered(lockq[k.q.srv], t)],
         UNCHANGED <<rec, disk, poll, view, form, joining, crashes, edits>>,
         \A s \in Servers : approved[s] \subseteq approved'[s]
  PROVE  /\ task' \in [Tasks -> Task \cup {NoTask}] /\ lockq' \in [Servers -> Seq(Tasks)]
         /\ TasksSound' /\ RecordsSound'
  <1>0. TypeOK /\ RecordsSound /\ TasksSound
    BY DEF OpenApiInv
  <1>1. k.q.srv \in Servers
    BY DEF Task, Request
  <1>2. task' \in [Tasks -> Task \cup {NoTask}]
        /\ \A u \in Tasks : task'[u] = IF u = t THEN k ELSE task[u]
    BY <1>0 DEF TypeOK
  <1>3. ASSUME NEW s \in Servers
        PROVE  /\ lockq'[s] \in Seq(Tasks)
               /\ lockq[s] # <<>> => lockq'[s] # <<>> /\ Head(lockq'[s]) = Head(lockq[s])
    <2>1. lockq[s] \in Seq(Tasks) /\ lockq \in [Servers -> Seq(Tasks)]
      BY <1>0 DEF TypeOK
    <2>2. lockq'[s] = lockq[s] \/ lockq'[s] = Entered(lockq[s], t)
      BY <1>1, <2>1
    <2> QED
      BY <2>1, <2>2, EnterKeeps
  <1>4. lockq' \in [Servers -> Seq(Tasks)]
    BY <1>0, <1>1, <1>3, EnterKeeps DEF TypeOK
  <1>5. ASSUME NEW u \in Tasks PROVE TaskSound(u)'
    <2>1. CASE u = t
      <3>1. task'[u] = k
        BY <1>2, <2>1
      <3> QED
        BY <3>1 DEF TaskSound
    <2>2. CASE u # t
      <3>1. task'[u] = task[u] /\ TaskSound(u)
        BY <1>0, <1>2, <2>2 DEF TasksSound
      <3>2. ASSUME task[u] # NoTask, task[u].at \in {"map", "discover"}
            PROVE  task[u].q.srv \in Servers /\ Leads(u, task[u].q.srv)
        BY <1>0, <3>1, <3>2 DEF TaskSound, Mapping, Discovering, TypeOK, Task, Request
      <3> QED
        BY <1>0, <1>3, <3>1, <3>2, TaskCarries DEF Leads
    <2> QED
      BY <2>1, <2>2
  <1> QED
    BY <1>0, <1>2, <1>4, <1>5, RecordsCarry DEF TasksSound

(* start_import and refresh *)
LEMMA SubmitKeeps ==
  ASSUME OpenApiInv, NEW s \in Servers, NEW c \in Choices \cup {Unchosen}, NEW b \in BOOLEAN,
         NEW k, Submit(s, c, b, k)
  PROVE  OpenApiInv'
  <1>0. TypeOK /\ RecordsSound /\ TasksSound /\ JobTable /\ JobsTracked
    BY DEF OpenApiInv
  <1> DEFINE j == submitted + 1
             q == [kind |-> "import", srv |-> s, choice |-> c, base |-> b, spec |-> NoSpec]
             new == [at |-> "slot", copy |-> NoRecord, seen |-> 0, q |-> q]
             st == [status EXCEPT ![j] = "queued"]
  <1>1. /\ Prune(st, k) /\ task' = [task EXCEPT ![j] = new] /\ submitted' = j /\ submitted < MaxJobs
        /\ UNCHANGED <<rec, disk, lockq, poll, view, form, joining, requests, crashes, edits,
                       approved>>
    BY DEF Submit
  <1>2. j \in JobIds /\ j \in Tasks /\ submitted \in Nat /\ submitted' \in 0 .. MaxJobs
    BY <1>0, <1>1, OpenApiAssumption DEF TypeOK, JobIds, Tasks
  <1>3. new \in Task
    <2>1. c \in Choice
      BY OpenApiAssumption DEF Unchosen, Choice
    <2>2. q \in Request
      BY <2>1 DEF Request, Kinds
    <2> QED
      BY <2>2 DEF Task, Slot
  <1>4. task[j] = NoTask /\ new.at = "slot" /\ new.q.kind = "import" /\ new # NoTask
    BY <1>0, <1>2, <1>3, OpenApiAssumption DEF JobTable
  <1>5. st \in [JobIds -> Unfinished \cup Finished \cup {"none", "gone"}]
        /\ st[j] = "queued" /\ \A i \in JobIds : i # j => st[i] = status[i]
    BY <1>0, <1>2 DEF TypeOK, Unfinished
  <1> HIDE DEF new, st
  <1>6. /\ status' \in [JobIds -> Unfinished \cup Finished \cup {"none", "gone"}]
        /\ finished' \in Seq(JobIds)
        /\ \A i \in 1 .. Len(finished') : \E h \in 1 .. Len(finished) : finished'[i] = finished[h]
        /\ \A i \in JobIds :
              \/ status'[i] = st[i]
              \/ status'[i] = "gone" /\ status[i] \notin Unfinished /\ i <= submitted
    BY <1>0, <1>1, <1>5, PruneKeeps
  <1>7. /\ task' \in [Tasks -> Task \cup {NoTask}] /\ lockq' \in [Servers -> Seq(Tasks)]
        /\ TasksSound' /\ RecordsSound'
    BY <1>1, <1>2, <1>3, <1>4, WaitKeeps
  <1>8. TypeOK'
    BY <1>0, <1>1, <1>2, <1>6, <1>7 DEF TypeOK
  <1>9. \A i \in JobIds : i \in Tasks /\ task'[i] = IF i = j THEN new ELSE task[i]
    BY <1>0, <1>1 DEF TypeOK, Tasks
  <1>10. /\ status'[j] = "queued"
         /\ \A i \in JobIds :
               i # j => /\ status'[i] \in Unfinished <=> status[i] \in Unfinished
                        /\ status'[i] = "queued" <=> status[i] = "queued"
    BY <1>2, <1>5, <1>6 DEF Unfinished
  <1>11. JobsTracked'
    BY <1>0, <1>4, <1>9, <1>10 DEF JobsTracked, Unfinished
  <1>12. ASSUME NEW i \in 1 .. Len(finished')
         PROVE  status'[finished'[i]] \notin Unfinished /\ finished'[i] <= submitted'
    <2>1. PICK h \in 1 .. Len(finished) : finished'[i] = finished[h]
      BY <1>6
    <2>2. finished[h] \in JobIds /\ finished[h] <= submitted /\ status[finished[h]] \notin Unfinished
      BY <1>0 DEF TypeOK, JobTable
    <2> QED
      BY <1>1, <1>2, <1>10, <2>1, <2>2 DEF JobIds
  <1>13. JobTable'
    BY <1>0, <1>1, <1>2, <1>4, <1>9, <1>10, <1>12 DEF JobTable, JobIds
  <1> QED
    BY <1>7, <1>8, <1>11, <1>13 DEF OpenApiInv

(* A slot, the spec's child process, the queue for the lock. *)
LEMMA JobStepKeeps ==
  ASSUME OpenApiInv, NEW j \in JobIds, JobStep(j)
  PROVE  OpenApiInv'
  <1>0. TypeOK /\ RecordsSound /\ TasksSound /\ JobTable /\ JobsTracked
    BY DEF OpenApiInv
  <1>1. j \in Tasks
    BY DEF Tasks
  <1>2. ASSUME task[j] # NoTask
        PROVE  /\ task[j] \in Task /\ task[j].q \in Request /\ task[j].q.srv \in Servers
               /\ task[j].q.kind = "import"
    BY <1>0, <1>1, <1>2 DEF TypeOK, Task, Request, JobTable
  <1>3. CASE RunJob(j)
    <2>1. /\ status[j] = "queued" /\ status' = [status EXCEPT ![j] = "running"]
          /\ task' = [task EXCEPT ![j].at = "load"]
          /\ UNCHANGED <<rec, disk, lockq, finished, poll, view, form, joining, submitted,
                         requests, crashes, edits, approved>>
      BY <1>3 DEF RunJob
    <2>2. task[j] # NoTask
      BY <1>0, <2>1 DEF JobsTracked, Unfinished
    <2> DEFINE k == [task[j] EXCEPT !.at = "load"]
    <2>3. k \in Task /\ k.at = "load" /\ k.q = task[j].q /\ task' = [task EXCEPT ![j] = k]
      BY <1>0, <1>1, <1>2, <2>1, <2>2 DEF Task, TypeOK
    <2>4. k # NoTask
      BY <2>3, OpenApiAssumption
    <2> HIDE DEF k
    <2>5. task[j].at = "slot"
      BY <1>0, <2>1, <2>2 DEF JobTable
    <2>6. /\ task' \in [Tasks -> Task \cup {NoTask}] /\ lockq' \in [Servers -> Seq(Tasks)]
          /\ TasksSound' /\ RecordsSound'
      BY <1>1, <1>2, <2>1, <2>2, <2>3, <2>5, WaitKeeps
    <2>7. status' \in [JobIds -> Unfinished \cup Finished \cup {"none", "gone"}]
          /\ \A i \in JobIds : status'[i] = IF i = j THEN "running" ELSE status[i]
      BY <1>0, <2>1 DEF TypeOK, Unfinished
    <2>8. TypeOK'
      BY <1>0, <2>1, <2>6, <2>7 DEF TypeOK
    <2>9. \A i \in JobIds : i \in Tasks /\ task'[i] = IF i = j THEN k ELSE task[i]
      BY <1>0, <2>3 DEF TypeOK, Tasks
    <2>10. JobsTracked'
      BY <1>0, <2>1, <2>4, <2>7, <2>9 DEF JobsTracked, Unfinished
    <2>11. \A i \in 1 .. Len(finished) : finished[i] \in JobIds /\ finished[i] # j
      BY <1>0, <2>1 DEF JobTable, TypeOK, Unfinished
    <2>12. JobTable'
      BY <1>0, <1>2, <2>1, <2>2, <2>3, <2>7, <2>9, <2>11 DEF JobTable
    <2> QED
      BY <2>6, <2>8, <2>10, <2>12 DEF OpenApiInv
  <1>4. CASE LoadFails(j)
    <2>1. /\ task[j] # NoTask /\ task[j].at = "load" /\ task' = [task EXCEPT ![j] = NoTask]
          /\ Finish(j, "failed")
          /\ UNCHANGED <<rec, disk, lockq, poll, view, form, joining, submitted, requests,
                         crashes, edits, approved>>
      BY <1>4 DEF LoadFails
    <2>2. \A u \in Tasks : task'[u] = IF u = j THEN NoTask ELSE task[u]
      BY <1>0, <2>1 DEF TypeOK
    <2>3. /\ status' \in [JobIds -> Unfinished \cup Finished \cup {"none", "gone"}]
          /\ finished' \in Seq(JobIds) /\ JobTable' /\ JobsTracked'
      BY <1>0, <1>1, <2>1, EndKeepsJobs DEF Finished
    <2>4. TypeOK'
      BY <1>0, <1>1, <2>1, <2>3 DEF TypeOK
    <2>5. ASSUME NEW u \in Tasks PROVE TaskSound(u)'
      <3>1. CASE u = j
        BY <2>2, <3>1 DEF TaskSound
      <3>2. CASE u # j
        <4>1. task'[u] = task[u] /\ TaskSound(u)
          BY <1>0, <2>2, <3>2 DEF TasksSound
        <4> QED
          BY <1>0, <2>1, <4>1, TaskCarries DEF TaskSound, Mapping, Discovering, Leads
      <3> QED
        BY <3>1, <3>2
    <2> QED
      BY <1>0, <2>1, <2>3, <2>4, <2>5, RecordsCarry DEF OpenApiInv, TasksSound
  <1>5. ASSUME NEW v \in Specs, Loaded(j, v) PROVE OpenApiInv'
    <2>1. /\ task[j] # NoTask /\ task[j].at = "load"
          /\ task' = [task EXCEPT ![j].at = "lock", ![j].q.spec = v]
          /\ lockq' = [lockq EXCEPT ![task[j].q.srv] = Entered(lockq[task[j].q.srv], j)]
          /\ UNCHANGED <<rec, disk, status, finished, poll, view, form, joining, submitted,
                         requests, crashes, edits, approved>>
      BY <1>5 DEF Loaded
    <2> DEFINE q == [task[j].q EXCEPT !.spec = v]
               k == [task[j] EXCEPT !.at = "lock", !.q.spec = v]
    <2>2. q \in Request /\ q.srv = task[j].q.srv /\ q.kind = "import" /\ q.spec = v
      BY <1>2, <2>1 DEF Request
    <2>3. k = [[task[j] EXCEPT !.at = "lock"] EXCEPT !.q = q]
      BY <1>2, <2>1 DEF Task
    <2>4. task' = [task EXCEPT ![j] = k]
      BY <1>0, <1>1, <2>1 DEF TypeOK
    <2> HIDE DEF q
    <2>5. k \in Task /\ k.at = "lock" /\ k.q = q
      BY <1>2, <2>1, <2>2, <2>3 DEF Task
    <2> HIDE DEF k
    <2>6. /\ task' \in [Tasks -> Task \cup {NoTask}] /\ lockq' \in [Servers -> Seq(Tasks)]
          /\ TasksSound' /\ RecordsSound'
      BY <1>1, <2>1, <2>2, <2>4, <2>5, WaitKeeps
    <2>7. JobTable' /\ JobsTracked'
      BY <1>0, <1>1, <2>1, <2>2, <2>4, <2>5, MoveKeepsJobs
    <2>8. TypeOK'
      BY <1>0, <2>1, <2>6 DEF TypeOK
    <2> QED
      BY <2>6, <2>7, <2>8 DEF OpenApiInv
  <1> QED
    BY <1>3, <1>4, <1>5 DEF JobStep

(* put_tools, patch_settings, accept and reject reach the lock. *)
LEMMA AskKeeps ==
  ASSUME OpenApiInv, NEW h \in Handlers, NEW s \in Servers, NEW q \in Requests(s), Ask(h, q)
  PROVE  OpenApiInv'
  <1>0. TypeOK /\ RecordsSound /\ TasksSound /\ JobTable /\ JobsTracked
    BY DEF OpenApiInv
  <1>1. q \in Request /\ q.srv = s /\ q.kind # "import"
    <2>1. Unchosen \in Choice /\ \A c \in Choices : c \in Choice
      BY OpenApiAssumption DEF Unchosen, Choice
    <2>2. CASE \E c \in Choices :
                 q = [kind |-> "tools", srv |-> s, choice |-> c, base |-> FALSE, spec |-> NoSpec]
      BY <2>1, <2>2 DEF Request, Kinds
    <2>3. CASE \E b \in BOOLEAN :
                 q = [kind |-> "settings", srv |-> s, choice |-> Unchosen, base |-> b, spec |-> NoSpec]
      BY <2>1, <2>3 DEF Request, Kinds
    <2>4. CASE \E k \in {"accept", "reject"}, v \in Specs :
                 q = [kind |-> k, srv |-> s, choice |-> Unchosen, base |-> FALSE, spec |-> v]
      BY <2>1, <2>4 DEF Request, Kinds
    <2> QED
      BY <2>2, <2>3, <2>4 DEF Requests
  <1> DEFINE k == [at |-> "lock", q |-> q, copy |-> NoRecord, seen |-> 0]
  <1>2. k \in Task /\ k.at = "lock" /\ k.q = q
    BY <1>1 DEF Task, Slot
  <1>3. /\ task[h] = NoTask /\ task' = [task EXCEPT ![h] = k] /\ requests < MaxRequests
        /\ requests' = requests + 1
        /\ lockq' = [lockq EXCEPT ![q.srv] = Entered(lockq[q.srv], h)]
        /\ UNCHANGED <<rec, disk, status, finished, poll, view, form, joining, submitted, crashes,
                       edits, approved>>
    BY DEF Ask
  <1> HIDE DEF k
  <1>4. h \in Tasks /\ h \notin JobIds
    BY OpenApiAssumption DEF Tasks
  <1>5. q.kind = "accept" => q.spec \in Specs
    BY DEF Requests
  <1>7. /\ task' \in [Tasks -> Task \cup {NoTask}] /\ lockq' \in [Servers -> Seq(Tasks)]
        /\ TasksSound' /\ RecordsSound'
    BY <1>1, <1>2, <1>3, <1>4, <1>5, WaitKeeps
  <1>8. JobTable' /\ JobsTracked'
    BY <1>0, <1>2, <1>3, <1>4, MoveKeepsJobs
  <1>9. TypeOK'
    BY <1>0, <1>3, <1>7, OpenApiAssumption DEF TypeOK
  <1> QED
    BY <1>7, <1>8, <1>9 DEF OpenApiInv

(* The types of a task that is under way. *)
LEMMA TaskTyped ==
  ASSUME TypeOK, NEW t \in Tasks, task[t] # NoTask
  PROVE  /\ task[t] \in Task /\ task[t].q \in Request /\ task[t].q.srv \in Servers
         /\ task[t].copy \in Slot
  BY DEF TypeOK, Task, Request

(* The holder of a lock ends without a write. *)
LEMMA GiveUpKeeps ==
  ASSUME OpenApiInv, NEW t \in Tasks, task[t] # NoTask, Leads(t, task[t].q.srv),
         Leave(t, "failed"),
         approved' \in [Servers -> SUBSET Specs],
         \A s \in Servers : approved[s] \subseteq approved'[s],
         UNCHANGED <<rec, disk, poll, view, form, joining, submitted, requests, crashes, edits>>
  PROVE  OpenApiInv'
  <1>0. TypeOK /\ RecordsSound /\ TasksSound /\ JobTable /\ JobsTracked
    BY DEF OpenApiInv
  <1>1. /\ task' = [task EXCEPT ![t] = NoTask] /\ Release(task[t].q.srv) /\ Finish(t, "failed")
    BY DEF Leave
  <1>2. /\ status' \in [JobIds -> Unfinished \cup Finished \cup {"none", "gone"}]
        /\ finished' \in Seq(JobIds) /\ JobTable' /\ JobsTracked'
    BY <1>0, <1>1, EndKeepsJobs DEF Finished
  <1>3. lockq' \in [Servers -> Seq(Tasks)] /\ TasksSound'
    BY <1>0, <1>1, LeaveKeeps
  <1>4. TypeOK'
    BY <1>0, <1>1, <1>2, <1>3 DEF TypeOK
  <1> QED
    BY <1>0, <1>2, <1>3, <1>4, RecordsCarry DEF OpenApiInv

(* The body of an accept or reject does not come, or is no choice. *)
LEMMA BodyFailsKeeps ==
  ASSUME OpenApiInv, NEW t \in Tasks, BodyFails(t)
  PROVE  OpenApiInv'
  <1>1. approved \in [Servers -> SUBSET Specs]
    BY DEF OpenApiInv, TypeOK
  <1> QED
    BY <1>1, GiveUpKeeps DEF BodyFails, AwaitsBody, Holds, Leads

(* The holder of a lock moves on, keeping the lock. *)
LEMMA HolderMoves ==
  ASSUME TypeOK, TasksSound, NEW t \in Tasks, task[t] # NoTask, Leads(t, task[t].q.srv),
         NEW k \in Task, task' = [task EXCEPT ![t] = k], k.q = task[t].q, lockq' = lockq,
         \A x \in Servers : approved[x] \subseteq approved'[x],
         \A x \in Servers : x # task[t].q.srv => edits'[x] = edits[x],
         TaskSound(t)'
  PROVE  task' \in [Tasks -> Task \cup {NoTask}] /\ TasksSound'
  <1>1. task' \in [Tasks -> Task \cup {NoTask}]
        /\ \A u \in Tasks : task'[u] = IF u = t THEN k ELSE task[u]
    BY DEF TypeOK
  <1>2. ASSUME NEW u \in Tasks, u # t PROVE TaskSound(u)'
    <2>1. task'[u] = task[u] /\ TaskSound(u)
      BY <1>1, <1>2 DEF TasksSound
    <2>2. ASSUME task[u] # NoTask, task[u].at \in {"map", "discover"}
          PROVE  /\ task[u].q.srv \in Servers /\ task[u].q.srv # task[t].q.srv
                 /\ Leads(u, task[u].q.srv)
      BY <1>2, <2>1, <2>2, TaskTyped DEF TaskSound, Mapping, Discovering, Leads
    <2> QED
      BY <2>1, <2>2, TaskCarries DEF Leads
  <1> QED
    BY <1>1, <1>2 DEF TasksSound

(* The record is read under the lock. *)
LEMMA ReadKeeps ==
  ASSUME OpenApiInv, NEW t \in Tasks, Read(t)
  PROVE  OpenApiInv'
  <1>0. TypeOK /\ RecordsSound /\ TasksSound /\ JobTable /\ JobsTracked
    BY DEF OpenApiInv
  <1> DEFINE s == task[t].q.srv
             q == task[t].q
  <1>1. /\ task[t] # NoTask /\ task[t].at = "lock" /\ Leads(t, s)
        /\ approved' = IF q.kind = "accept" THEN [approved EXCEPT ![s] = @ \cup {q.spec}]
                       ELSE approved
        /\ UNCHANGED <<rec, disk, poll, view, form, joining, submitted, requests, crashes, edits>>
    BY DEF Read, Holds, Leads
  <1>2. task[t] \in Task /\ q \in Request /\ s \in Servers
    BY <1>0, <1>1, TaskTyped
  <1>3. /\ q.kind = "import" => q.spec \in Specs
        /\ q.kind = "accept" => q.spec \in Specs
    BY <1>0, <1>1 DEF TasksSound, TaskSound
  <1>4. /\ approved' \in [Servers -> SUBSET Specs]
        /\ \A x \in Servers : approved[x] \subseteq approved'[x]
        /\ q.kind = "accept" => q.spec \in approved'[s]
    BY <1>0, <1>1, <1>2, <1>3 DEF TypeOK
  <1>5. CASE Refused(rec[s], q)
    <2>1. Leave(t, "failed")
      BY <1>5 DEF Read
    <2> QED
      BY <1>1, <1>4, <2>1, GiveUpKeeps
  <1>6. CASE ~Refused(rec[s], q)
    <2>1. /\ task' = [task EXCEPT ![t].at = "map", ![t].copy = rec[s], ![t].seen = edits[s]]
          /\ UNCHANGED <<lockq, status, finished>>
      BY <1>6 DEF Read
    <2> DEFINE k == [task[t] EXCEPT !.at = "map", !.copy = rec[s], !.seen = edits[s]]
    <2>2. task' = [task EXCEPT ![t] = k]
      BY <1>0, <2>1 DEF TypeOK
    <2>3. rec[s] \in Slot /\ edits[s] \in Nat
      BY <1>0, <1>2 DEF TypeOK
    <2>4. k \in Task /\ k.at = "map" /\ k.q = q /\ k.copy = rec[s] /\ k.seen = edits[s]
      BY <1>2, <2>3 DEF Task
    <2> HIDE DEF k
    <2>5. task'[t] = k /\ k # NoTask
      BY <1>0, <2>2, <2>4, OpenApiAssumption DEF TypeOK
    <2>6. SoundIn(rec[s], approved'[s])
      BY <1>0, <1>2, <1>4, SoundGrows DEF RecordsSound, Sound
    <2>7. TaskSound(t)'
      BY <1>1, <1>3, <1>4, <1>6, <2>1, <2>4, <2>5, <2>6 DEF TaskSound, Mapping, Leads, Sound
    <2>8. task' \in [Tasks -> Task \cup {NoTask}] /\ TasksSound'
      BY <1>0, <1>1, <1>4, <2>1, <2>2, <2>4, <2>7, HolderMoves
    <2>9. TypeOK'
      BY <1>0, <1>1, <1>4, <2>1, <2>8 DEF TypeOK
    <2>10. JobTable' /\ JobsTracked'
      <3>1. t \in JobIds => q.kind = "import"
        BY <1>0, <1>1 DEF JobTable
      <3> QED
        BY <1>0, <1>1, <2>1, <2>2, <2>4, <3>1, MoveKeepsJobs
    <2> QED
      BY <1>0, <1>1, <1>4, <2>8, <2>9, <2>10, RecordsCarry DEF OpenApiInv
  <1> QED
    BY <1>5, <1>6

(* The mapping refuses the candidate. *)
LEMMA UnservableKeeps ==
  ASSUME OpenApiInv, NEW t \in Tasks, Unservable(t)
  PROVE  OpenApiInv'
  <1>1. approved \in [Servers -> SUBSET Specs]
    BY DEF OpenApiInv, TypeOK
  <1> QED
    BY <1>1, GiveUpKeeps DEF Unservable, Holds, Leads

(* The holder of a lock writes a sound record and leaves. *)
LEMMA LastWriteKeeps ==
  ASSUME OpenApiInv, NEW t \in Tasks, task[t] # NoTask, Leads(t, task[t].q.srv),
         NEW r \in Slot, NEW ok, Write(task[t].q.srv, r, ok),
         NEW o \in Finished, Leave(t, o),
         approved' \in [Servers -> SUBSET Specs],
         \A s \in Servers : approved[s] \subseteq approved'[s],
         SoundIn(r, approved'[task[t].q.srv]),
         edits' \in [Servers -> Nat],
         \A s \in Servers : s # task[t].q.srv => edits'[s] = edits[s],
         UNCHANGED <<poll, view, form, joining, submitted, requests, crashes>>
  PROVE  OpenApiInv'
  <1>0. TypeOK /\ RecordsSound /\ TasksSound /\ JobTable /\ JobsTracked
    BY DEF OpenApiInv
  <1>1. task' = [task EXCEPT ![t] = NoTask] /\ Release(task[t].q.srv) /\ Finish(t, o)
    BY DEF Leave
  <1>2. task[t].q.srv \in Servers
    BY <1>0, TaskTyped
  <1>3. rec' \in [Servers -> Slot] /\ disk' \in [Servers -> Slot] /\ RecordsSound'
    BY <1>0, <1>2, WriteSound
  <1>4. /\ status' \in [JobIds -> Unfinished \cup Finished \cup {"none", "gone"}]
        /\ finished' \in Seq(JobIds) /\ JobTable' /\ JobsTracked'
    BY <1>0, <1>1, EndKeepsJobs
  <1>5. lockq' \in [Servers -> Seq(Tasks)] /\ TasksSound'
    BY <1>0, <1>1, LeaveKeeps
  <1>6. task' \in [Tasks -> Task \cup {NoTask}]
    BY <1>0, <1>1 DEF TypeOK
  <1>7. TypeOK'
    BY <1>0, <1>3, <1>4, <1>5, <1>6 DEF TypeOK
  <1> QED
    BY <1>3, <1>4, <1>5, <1>7 DEF OpenApiInv

(* The discovered tools are written and the lock is left. *)
LEMMA PublishKeeps ==
  ASSUME OpenApiInv, NEW t \in Tasks, NEW ok \in Outcomes, Publish(t, ok)
  PROVE  OpenApiInv'
  <1>0. TypeOK /\ RecordsSound /\ TasksSound
    BY DEF OpenApiInv
  <1> DEFINE s == task[t].q.srv
             r == Discovered(task[t].copy)
             o == IF ok THEN "succeeded" ELSE "failed"
  <1>1. /\ task[t] # NoTask /\ task[t].at = "discover" /\ Leads(t, s)
        /\ Write(s, r, ok) /\ Leave(t, o)
        /\ UNCHANGED <<poll, view, form, joining, submitted, requests, crashes, edits, approved>>
    BY DEF Publish, Holds, Leads
  <1>2. s \in Servers /\ task[t].copy \in Record /\ SoundIn(task[t].copy, approved[s])
    BY <1>0, <1>1, TaskTyped DEF TasksSound, TaskSound, Discovering, IsOpenApi, Sound
  <1>3. r \in Slot /\ SoundIn(r, approved'[s])
    BY <1>1, <1>2, DiscoverySound DEF Slot
  <1>4. o \in Finished
    BY DEF Finished
  <1>5. approved \in [Servers -> SUBSET Specs] /\ edits \in [Servers -> Nat]
    BY <1>0 DEF TypeOK
  <1> HIDE DEF r, o
  <1> QED
    BY <1>1, <1>3, <1>4, <1>5, LastWriteKeeps

(* The candidate is stored: it maps, and it serves an approved spec.  The  *)
(* task goes on to its discovery or is done.                               *)
LEMMA StoreKeeps ==
  ASSUME OpenApiInv, NEW t \in Tasks, NEW ok \in Outcomes, Store(t, ok)
  PROVE  OpenApiInv'
  <1>0. TypeOK /\ RecordsSound /\ TasksSound /\ JobTable /\ JobsTracked
    BY DEF OpenApiInv
  <1> DEFINE s == task[t].q.srv
             q == task[t].q
             r == Candidate(task[t].copy, q)
  <1>1. /\ task[t] # NoTask /\ task[t].at = "map" /\ Leads(t, s) /\ Accepts(task[t].copy, q)
        /\ Write(s, r, ok)
        /\ edits' = [edits EXCEPT ![s] = @ + 1]
        /\ approved' = IF q.kind = "import" /\ task[t].copy = NoRecord
                       THEN [approved EXCEPT ![s] = @ \cup {q.spec}] ELSE approved
        /\ UNCHANGED <<poll, view, form, joining, submitted, requests, crashes>>
    BY DEF Store, Holds, Leads
  <1>2. \/ Leave(t, "failed")
        \/ /\ task' = [task EXCEPT ![t].at = "discover", ![t].copy = r]
           /\ UNCHANGED <<lockq, status, finished>>
    BY DEF Store
  <1>3. task[t] \in Task /\ q \in Request /\ s \in Servers /\ task[t].copy \in Slot
    BY <1>0, <1>1, TaskTyped
  <1>4. /\ ~Refused(task[t].copy, q) /\ SoundIn(task[t].copy, approved[s])
        /\ q.kind = "import" => q.spec \in Specs
        /\ q.kind = "accept" => q.spec \in approved[s]
        /\ q.kind = "accept" => q.spec \in Specs
    BY <1>0, <1>1 DEF TasksSound, TaskSound, Mapping, Sound
  <1>5. /\ approved' \in [Servers -> SUBSET Specs]
        /\ \A x \in Servers : approved[x] \subseteq approved'[x]
        /\ q.kind = "import" /\ task[t].copy = NoRecord => q.spec \in approved'[s]
    BY <1>0, <1>1, <1>3, <1>4 DEF TypeOK
  <1>6. r \in Record /\ SoundIn(r, approved'[s])
    <2>1. approved[s] \subseteq approved'[s] /\ (q.kind = "accept" => q.spec \in approved'[s])
      BY <1>3, <1>4, <1>5
    <2> QED
      BY <1>1, <1>3, <1>4, <1>5, <2>1, CandidateSound
  <1> HIDE DEF r
  <1>7. r \in Slot
    BY <1>6 DEF Slot
  <1>8. edits' \in [Servers -> Nat] /\ \A x \in Servers : x # s => edits'[x] = edits[x]
    BY <1>0, <1>1, <1>3 DEF TypeOK
  <1>9. CASE Leave(t, "failed")
    <2>1. "failed" \in Finished
      BY DEF Finished
    <2> QED
      BY <1>1, <1>5, <1>6, <1>7, <1>8, <1>9, <2>1, LastWriteKeeps
  <1>10. CASE /\ task' = [task EXCEPT ![t].at = "discover", ![t].copy = r]
              /\ UNCHANGED <<lockq, status, finished>>
    <2> DEFINE k == [task[t] EXCEPT !.at = "discover", !.copy = r]
    <2>1. task' = [task EXCEPT ![t] = k]
      BY <1>0, <1>10 DEF TypeOK
    <2>2. k \in Task /\ k.at = "discover" /\ k.q = q /\ k.copy = r
      BY <1>3, <1>7 DEF Task
    <2> HIDE DEF k
    <2>3. task'[t] = k /\ k # NoTask
      BY <1>0, <2>1, <2>2, OpenApiAssumption DEF TypeOK
    <2>4. Discovering(t, s)'
      BY <1>1, <1>6, <1>10, <2>2, <2>3 DEF Discovering, Leads, Sound, IsOpenApi
    <2>5. TaskSound(t)'
      BY <1>4, <2>2, <2>3, <2>4 DEF TaskSound
    <2>6. task' \in [Tasks -> Task \cup {NoTask}] /\ TasksSound'
      BY <1>0, <1>1, <1>5, <1>8, <1>10, <2>1, <2>2, <2>5, HolderMoves
    <2>7. rec' \in [Servers -> Slot] /\ disk' \in [Servers -> Slot] /\ RecordsSound'
      BY <1>0, <1>1, <1>3, <1>5, <1>6, <1>7, WriteSound
    <2>8. TypeOK'
      BY <1>0, <1>1, <1>5, <1>8, <1>10, <2>6, <2>7 DEF TypeOK
    <2>9. JobTable' /\ JobsTracked'
      <3>1. t \in JobIds => q.kind = "import"
        BY <1>0, <1>1 DEF JobTable
      <3> QED
        BY <1>0, <1>1, <1>10, <2>1, <2>2, <3>1, MoveKeepsJobs
    <2> QED
      BY <2>6, <2>7, <2>8, <2>9 DEF OpenApiInv
  <1> QED
    BY <1>2, <1>9, <1>10

(* Every step keeps the invariant. *)
LEMMA StepInv == OpenApiInv /\ [Next]_vars => OpenApiInv'
  <1> SUFFICES ASSUME OpenApiInv, [Next]_vars PROVE OpenApiInv'
    OBVIOUS
  <1>1. CASE UNCHANGED vars
    <2>1. TypeOK /\ RecordsSound /\ TasksSound /\ JobTable /\ JobsTracked
      BY DEF OpenApiInv
    <2>2. UNCHANGED <<rec, disk, task, lockq, status, finished, poll, view, form, joining,
                      submitted, requests, crashes, edits, approved>>
      BY <1>1 DEF vars
    <2>3. TypeOK'
      BY <2>1, <2>2 DEF TypeOK
    <2> QED
      BY <2>1, <2>2, <2>3, TasksCarry, JobsCarry, RecordsCarry DEF OpenApiInv
  <1>2. ASSUME NEW s \in Servers, NEW c \in Choices \cup {Unchosen}, NEW b \in BOOLEAN,
               NEW k \in 0 .. MaxJobs, Submit(s, c, b, k)
        PROVE  OpenApiInv'
    BY <1>2, SubmitKeeps
  <1>3. ASSUME NEW k \in 1 .. MaxJobs, ReadJobs(k) PROVE OpenApiInv'
    BY <1>3, ReadJobsKeeps
  <1>4. ASSUME NEW j \in JobIds, JobStep(j) PROVE OpenApiInv'
    BY <1>4, JobStepKeeps
  <1>5. ASSUME NEW h \in Handlers, NEW s \in Servers, NEW q \in Requests(s), Ask(h, q)
        PROVE  OpenApiInv'
    BY <1>5, AskKeeps
  <1>6. ASSUME NEW t \in Tasks, LockedStep(t) PROVE OpenApiInv'
    BY <1>6, ReadKeeps, UnservableKeeps, StoreKeeps, PublishKeeps DEF LockedStep
  <1>7. ASSUME NEW t \in Tasks, ClientStep(t) PROVE OpenApiInv'
    BY <1>7, ReadKeeps, BodyFailsKeeps DEF ClientStep
  <1>8. ASSUME NEW s \in Servers,
               \/ PollStep(s) \/ ViewRead(s) \/ UiRead(s) \/ UiEnd(s) \/ JoinCheck(s)
               \/ \E ok \in Outcomes : UnlockedWrite(s, ok)
        PROVE  OpenApiInv'
    BY <1>8, UnlockedStepKeeps
  <1>9. CASE SaveOther \/ CrashAndRestart
    BY <1>9, SaveOtherKeeps, CrashKeeps
  <1> QED
    BY <1>1, <1>2, <1>3, <1>4, <1>5, <1>6, <1>7, <1>8, <1>9 DEF Next

-----------------------------------------------------------------------------
(* The inductive invariant holds throughout: every stored or copied record *)
(* is sound, the holder of a lock is the only task past its queue, and the *)
(* job table matches the tasks.                                            *)
THEOREM OpenApiInvariant == Spec => []OpenApiInv
  BY InitInv, StepInv, PTL DEF Spec

(* The state of the registry, the locks and the job store has its types.   *)
THEOREM OpenApiTyped == Spec => []TypeOK
  <1>1. OpenApiInv => TypeOK
    BY DEF OpenApiInv
  <1> QED
    BY <1>1, OpenApiInvariant, PTL

(* check_choices accepts whatever the registry stores, for every order of  *)
(* imports, edits, revisions, polls, page views and deletions.             *)
THEOREM StoredAreServable == Spec => []StoredChoicesServable
  <1>1. OpenApiInv => StoredChoicesServable
    BY DEF OpenApiInv, RecordsSound, Sound, SoundIn, StoredChoicesServable
  <1> QED
    BY <1>1, OpenApiInvariant, PTL

(* A server serves a spec that an admin imported as new or reviewed.       *)
THEOREM SpecsAreApproved == Spec => []ServesApprovedSpec
  <1>1. OpenApiInv => ServesApprovedSpec
    BY DEF OpenApiInv, RecordsSound, Sound, SoundIn, ServesApprovedSpec
  <1> QED
    BY <1>1, OpenApiInvariant, PTL

(* Tools of two specs, or two tools of one name, are never listed          *)
(* together, whatever stale copies are written back and whatever restarts  *)
(* and failed writes do; each tool's operation is supported by a spec that *)
(* an admin approved.                                                      *)
THEOREM ToolsAreOfOneSpec == Spec => []ToolsFromOneSpec
  <1>1. OpenApiInv => ToolsFromOneSpec
    BY DEF OpenApiInv, RecordsSound, Sound, SoundIn, ToolsFromOneSpec
  <1> QED
    BY <1>1, OpenApiInvariant, PTL

(* The per-server locks keep read-map-write operations apart.              *)
THEOREM LocksSeparate == Spec => []EditsDoNotOverlap
  <1>1. OpenApiInv => EditsDoNotOverlap
    BY DEF OpenApiInv, TasksSound, TaskSound, Mapping, EditsDoNotOverlap
  <1> QED
    BY <1>1, OpenApiInvariant, PTL

(* The table shows a job as unfinished exactly while its task runs,        *)
(* whatever is pruned when.                                                *)
THEOREM JobsAreTracked == Spec => []JobsTracked
  <1>1. OpenApiInv => JobsTracked
    BY DEF OpenApiInv
  <1> QED
    BY <1>1, OpenApiInvariant, PTL

-----------------------------------------------------------------------------
(* The bound of the job table.  Jobs finish between two uses of the table, *)
(* so the finished ones alone have no bound but the whole table does: it   *)
(* grows in submit only, which prunes first.                               *)

(* A finished job that was not pruned is in _finished_at. *)
Listed ==
    \A j \in JobIds : status[j] \in Finished => \E i \in 1 .. Len(finished) : finished[i] = j

Table == {j \in JobIds : InTable(j)}
Ongoing == {j \in JobIds : status[j] \in Unfinished}

TableInv == Listed /\ JobTableBounded

(* A sequence has at most as many elements as positions. *)
LEMMA RangeBound ==
  ASSUME NEW S, NEW q \in Seq(S)
  PROVE  LET R == {q[i] : i \in 1 .. Len(q)}
         IN  IsFiniteSet(R) /\ Cardinality(R) \in Nat /\ Cardinality(R) <= Len(q)
  <1> DEFINE R == {q[i] : i \in 1 .. Len(q)}
             f == [i \in 1 .. Len(q) |-> q[i]]
  <1>1. Len(q) \in Nat
    OBVIOUS
  <1>2. f \in Surjection(1 .. Len(q), R)
    BY DEF Surjection
  <1>3. IsFiniteSet(1 .. Len(q)) /\ Cardinality(1 .. Len(q)) = Len(q)
    BY <1>1, FS_Interval
  <1> HIDE DEF f, R
  <1>4. IsFiniteSet(R) /\ Cardinality(R) <= Len(q)
    BY <1>2, <1>3, FS_Surjection
  <1>5. Cardinality(R) \in Nat
    BY <1>4, FS_CardinalityType
  <1> QED
    BY <1>4, <1>5 DEF R

(* Sets of jobs are finite. *)
LEMMA JobSets ==
  ASSUME NEW S \in SUBSET JobIds
  PROVE  IsFiniteSet(S) /\ Cardinality(S) \in Nat
  <1>1. JobIds \subseteq Nat /\ \A j \in JobIds : j <= MaxJobs
    BY OpenApiAssumption DEF JobIds
  <1>2. IsFiniteSet(S)
    BY <1>1, FS_BoundedSetOfNaturals, OpenApiAssumption
  <1> QED
    BY <1>2, FS_CardinalityType

(* A step that puts no job into the table keeps its bound. *)
LEMMA TableShrinks ==
  ASSUME JobTableBounded, Table' \subseteq Table
  PROVE  JobTableBounded'
  <1>1. Table \subseteq JobIds /\ Table' \subseteq JobIds
    BY DEF Table
  <1>2. IsFiniteSet(Table) /\ Cardinality(Table) \in Nat /\ Cardinality(Table') \in Nat
    BY <1>1, JobSets
  <1>3. Cardinality(Table') <= Cardinality(Table)
    BY <1>2, FS_Subset
  <1> QED
    BY <1>2, <1>3, OpenApiAssumption DEF JobTableBounded, Table

(* _prune keeps the finished jobs that it does not drop, at most           *)
(* max_finished of them, and puts none into the table.                     *)
LEMMA PruneLists ==
  ASSUME TypeOK, Listed, NEW st, NEW k, Prune(st, k),
         st \in [JobIds -> Unfinished \cup Finished \cup {"none", "gone"}],
         \A j \in JobIds : st[j] \in Finished => status[j] \in Finished
  PROVE  /\ Listed'
         /\ finished' \in Seq(JobIds) /\ Len(finished') <= MaxFinished
         /\ \A j \in JobIds : InTable(j)' => status'[j] = st[j]
  <1>1. /\ k \in 0 .. Len(finished) /\ finished \in Seq(JobIds) /\ Len(finished) \in Nat
        /\ Len(finished) - k <= MaxFinished
        /\ status' = [j \in JobIds |-> IF j \in Prunable(k) THEN "gone" ELSE st[j]]
        /\ finished' = SubSeq(finished, k + 1, Len(finished))
    BY DEF Prune, TypeOK
  <1>2. /\ finished' \in Seq(JobIds) /\ Len(finished') = Len(finished) - k
        /\ \A i \in 1 .. Len(finished') : finished'[i] = finished[k + i]
    BY <1>1
  <1>3. ASSUME NEW j \in JobIds, status'[j] \in Finished
        PROVE  \E i \in 1 .. Len(finished') : finished'[i] = j
    <2>1. j \notin Prunable(k) /\ st[j] \in Finished
      BY <1>1, <1>3 DEF Finished
    <2>2. PICK h \in 1 .. Len(finished) : finished[h] = j
      BY <2>1 DEF Listed
    <2>3. h > k
      BY <1>1, <2>1, <2>2 DEF Prunable
    <2>4. h - k \in 1 .. Len(finished') /\ k + (h - k) = h
      BY <1>1, <1>2, <2>3
    <2>5. finished'[h - k] = j
      BY <1>2, <2>2, <2>4
    <2> QED
      BY <2>4, <2>5
  <1>4. \A j \in JobIds : InTable(j)' => status'[j] = st[j]
    BY <1>1 DEF InTable
  <1> QED
    BY <1>1, <1>2, <1>3, <1>4 DEF Listed
(* A job that ends moves from the unfinished to the listed ones. *)
LEMMA EndLists ==
  ASSUME TypeOK, JobsTracked, TableInv, NEW t \in Tasks, task[t] # NoTask,
         NEW o \in Finished, Finish(t, o)
  PROVE  TableInv'
  <1>0. /\ status \in [JobIds -> Unfinished \cup Finished \cup {"none", "gone"}]
        /\ finished \in Seq(JobIds) /\ Len(finished) \in Nat
        /\ Listed /\ JobTableBounded
    BY DEF TypeOK, TableInv
  <1>1. CASE t \in JobIds
    <2>1. status' = [status EXCEPT ![t] = o] /\ finished' = Append(finished, t)
      BY <1>1 DEF Finish
    <2>2. \A j \in JobIds : status'[j] = IF j = t THEN o ELSE status[j]
      BY <1>0, <2>1
    <2>3. InTable(t)
      BY <1>1 DEF JobsTracked, InTable, Unfinished
    <2>4. Table' \subseteq Table
      BY <2>2, <2>3 DEF Table, InTable
    <2>5. /\ Len(finished') = Len(finished) + 1 /\ finished'[Len(finished) + 1] = t
          /\ \A i \in 1 .. Len(finished) : i \in 1 .. Len(finished') /\ finished'[i] = finished[i]
      BY <1>0, <1>1, <2>1
    <2>6. ASSUME NEW j \in JobIds, status'[j] \in Finished
          PROVE  \E i \in 1 .. Len(finished') : finished'[i] = j
      <3>1. CASE j = t
        BY <1>0, <2>5, <3>1
      <3>2. CASE j # t
        <4>1. PICK i \in 1 .. Len(finished) : finished[i] = j
          BY <1>0, <2>2, <2>6, <3>2 DEF Listed
        <4> QED
          BY <2>5, <4>1
      <3> QED
        BY <3>1, <3>2
    <2> QED
      BY <1>0, <2>4, <2>6, TableShrinks DEF TableInv, Listed
  <1>2. CASE t \notin JobIds
    BY <1>0, <1>2 DEF Finish, TableInv, Listed, JobTableBounded, InTable
  <1> QED
    BY <1>1, <1>2

(* start_import: with the new job there are at most max_queued unfinished  *)
(* jobs, and max_finished others are left.                                 *)
LEMMA SubmitBounded ==
  ASSUME OpenApiInv, TableInv, NEW s, NEW c, NEW b, NEW k, Submit(s, c, b, k)
  PROVE  TableInv'
  <1> DEFINE j == submitted + 1
             st == [status EXCEPT ![j] = "queued"]
             R == {finished'[i] : i \in 1 .. Len(finished')}
  <1>0. TypeOK /\ Listed
    BY DEF OpenApiInv, TableInv
  <1>1. /\ Prune(st, k) /\ Waiting < MaxQueued
        /\ j \in JobIds /\ status \in [JobIds -> Unfinished \cup Finished \cup {"none", "gone"}]
    BY <1>0, OpenApiAssumption DEF Submit, TypeOK, JobIds
  <1>2. /\ st \in [JobIds -> Unfinished \cup Finished \cup {"none", "gone"}]
        /\ st[j] = "queued" /\ \A i \in JobIds : i # j => st[i] = status[i]
    BY <1>1 DEF Unfinished
  <1> HIDE DEF st, j
  <1>3. \A i \in JobIds : st[i] \in Finished => status[i] \in Finished
    BY <1>1, <1>2 DEF Finished
  <1>4. /\ Listed' /\ finished' \in Seq(JobIds) /\ Len(finished') <= MaxFinished
        /\ \A i \in JobIds : InTable(i)' => status'[i] = st[i]
    BY <1>0, <1>1, <1>2, <1>3, PruneLists
  <1>5. Table' \subseteq (Ongoing \cup {j}) \cup R
    <2> SUFFICES ASSUME NEW i \in JobIds, InTable(i)', i # j, status[i] \notin Unfinished
                 PROVE  i \in R
      BY DEF Table, Ongoing
    <2>1. status'[i] = status[i] /\ status'[i] \in Finished
      BY <1>1, <1>2, <1>4 DEF InTable
    <2>2. PICK h \in 1 .. Len(finished') : finished'[h] = i
      BY <1>4, <2>1 DEF Listed
    <2> QED
      BY <2>2
  <1>6. /\ IsFiniteSet(Ongoing) /\ Cardinality(Ongoing) \in Nat /\ Cardinality(Ongoing) < MaxQueued
        /\ IsFiniteSet(Table') /\ Cardinality(Table') \in Nat
    <2>1. Ongoing \subseteq JobIds /\ Table' \subseteq JobIds
      BY DEF Ongoing, Table
    <2>2. Cardinality(Ongoing) < MaxQueued
      BY <1>1 DEF Waiting, Ongoing
    <2> QED
      BY <2>1, <2>2, JobSets
  <1>7. IsFiniteSet(R) /\ Cardinality(R) \in Nat /\ Cardinality(R) <= Len(finished')
    BY <1>4, RangeBound
  <1>8. Len(finished') \in Nat
    BY <1>4
  <1> HIDE DEF R
  <1> DEFINE W == Ongoing \cup {j}
  <1>9. IsFiniteSet(W) /\ Cardinality(W) \in Nat /\ Cardinality(W) <= MaxQueued
    <2>1. IsFiniteSet(W) /\ (Cardinality(W) = Cardinality(Ongoing) \/ Cardinality(W) = Cardinality(Ongoing) + 1)
      BY <1>6, FS_AddElement
    <2> QED
      BY <1>6, <2>1, OpenApiAssumption
  <1> HIDE DEF W
  <1>10. /\ IsFiniteSet(W \cup R)
         /\ Cardinality(W \cup R) = Cardinality(W) + Cardinality(R) - Cardinality(W \cap R)
    BY <1>7, <1>9, FS_Union
  <1>11. Cardinality(W \cap R) \in Nat
    <2>1. IsFiniteSet(W \cap R)
      BY <1>9, FS_Subset
    <2> QED
      BY <2>1, FS_CardinalityType
  <1>12. Cardinality(W \cup R) \in Nat /\ Cardinality(Table') <= Cardinality(W \cup R)
    <2>1. Table' \in SUBSET (W \cup R)
      BY <1>5 DEF W
    <2> QED
      BY <1>10, <2>1, FS_Subset, FS_CardinalityType
  <1>13. Cardinality(Table') <= MaxQueued + MaxFinished
    BY <1>4, <1>6, <1>7, <1>8, <1>9, <1>10, <1>11, <1>12, OpenApiAssumption
  <1> QED
    BY <1>4, <1>13 DEF TableInv, JobTableBounded, Table

(* Reading the job table prunes it. *)
LEMMA ReadJobsBounded ==
  ASSUME OpenApiInv, TableInv, NEW k, ReadJobs(k)
  PROVE  TableInv'
  <1>1. /\ TypeOK /\ Listed /\ JobTableBounded /\ Prune(status, k)
        /\ status \in [JobIds -> Unfinished \cup Finished \cup {"none", "gone"}]
    BY DEF OpenApiInv, TypeOK, TableInv, ReadJobs
  <1>2. Listed' /\ \A j \in JobIds : InTable(j)' => status'[j] = status[j]
    BY <1>1, PruneLists
  <1>3. Table' \subseteq Table
    BY <1>2 DEF Table, InTable
  <1> QED
    BY <1>1, <1>2, <1>3, TableShrinks DEF TableInv

(* Every step keeps the bound. *)
LEMMA StepBounded == OpenApiInv /\ TableInv /\ [Next]_vars => TableInv'
  <1> SUFFICES ASSUME OpenApiInv, TableInv, [Next]_vars PROVE TableInv'
    OBVIOUS
  <1>0. TypeOK /\ JobsTracked
    BY DEF OpenApiInv
  <1>1. UNCHANGED <<status, finished>> => TableInv'
    BY DEF TableInv, Listed, JobTableBounded, InTable
  <1>2. ASSUME NEW t \in Tasks, task[t] # NoTask,
               NEW o \in Finished, Finish(t, o)
        PROVE  TableInv'
    BY <1>0, <1>2, EndLists
  <1>3. ASSUME NEW s \in Servers, NEW c \in Choices \cup {Unchosen}, NEW b \in BOOLEAN,
               NEW k \in 0 .. MaxJobs, Submit(s, c, b, k)
        PROVE  TableInv'
    BY <1>3, SubmitBounded
  <1>4. ASSUME NEW k \in 1 .. MaxJobs, ReadJobs(k) PROVE TableInv'
    BY <1>4, ReadJobsBounded
  <1>5. ASSUME NEW j \in JobIds, JobStep(j) PROVE TableInv'
    <2>1. CASE RunJob(j)
      <3>1. \A i \in JobIds : status'[i] = IF i = j THEN "running" ELSE status[i]
        BY <1>0, <2>1 DEF RunJob, TypeOK
      <3>2. finished' = finished /\ status[j] = "queued"
        BY <2>1 DEF RunJob
      <3>3. Table' \subseteq Table
        BY <3>1, <3>2 DEF Table, InTable
      <3>4. Listed'
        BY <3>1, <3>2 DEF TableInv, Listed, Finished
      <3> QED
        BY <3>3, <3>4, TableShrinks DEF TableInv
    <2>2. CASE LoadFails(j)
      BY <1>2, <2>2 DEF LoadFails, Tasks, Finished
    <2>3. CASE \E v \in Specs : Loaded(j, v)
      BY <1>1, <2>3 DEF Loaded
    <2> QED
      BY <1>5, <2>1, <2>2, <2>3 DEF JobStep
  <1>6. ASSUME NEW h \in Handlers, NEW s \in Servers, NEW q \in Requests(s), Ask(h, q)
        PROVE  TableInv'
    BY <1>1, <1>6 DEF Ask
  <1>7. ASSUME NEW t \in Tasks, LockedStep(t) PROVE TableInv'
    <2>1. task[t] # NoTask
      BY <1>7 DEF LockedStep, Read, Unservable, Store, Publish, Holds
    <2>2. CASE Read(t)
      BY <1>1, <1>2, <2>1, <2>2 DEF Read, Leave, Finished
    <2>3. CASE Unservable(t)
      BY <1>2, <2>1, <2>3 DEF Unservable, Leave, Finished
    <2>4. ASSUME NEW ok, Store(t, ok) PROVE TableInv'
      BY <1>1, <1>2, <2>1, <2>4 DEF Store, Leave, Finished
    <2>5. ASSUME NEW ok, Publish(t, ok) PROVE TableInv'
      BY <1>2, <2>1, <2>5 DEF Publish, Leave, Finished
    <2> QED
      BY <1>7, <2>2, <2>3, <2>4, <2>5 DEF LockedStep
  <1>8. ASSUME NEW t \in Tasks, ClientStep(t) PROVE TableInv'
    <2>1. task[t] # NoTask
      BY <1>8 DEF ClientStep, BodyFails, AwaitsBody, Holds
    <2>2. CASE Read(t)
      BY <1>1, <1>2, <2>1, <2>2 DEF Read, Leave, Finished
    <2>3. CASE BodyFails(t)
      BY <1>2, <2>1, <2>3 DEF BodyFails, Leave, Finished
    <2> QED
      BY <1>8, <2>2, <2>3 DEF ClientStep
  <1>9. ASSUME NEW s \in Servers,
               \/ PollStep(s) \/ ViewRead(s) \/ UiRead(s) \/ UiEnd(s) \/ JoinCheck(s)
               \/ \E ok \in Outcomes : UnlockedWrite(s, ok)
        PROVE  TableInv'
    BY <1>1, <1>9 DEF PollStep, PollRead, PollWrite, ViewRead, UiRead, UiEnd, JoinCheck,
                      UnlockedWrite, ViewWrite, UiWrite, Delete, JoinWrite
  <1>10. CASE SaveOther
    BY <1>1, <1>10 DEF SaveOther
  <1>11. CASE CrashAndRestart
    <2>1. \A j \in JobIds : status'[j] \in {"none", "gone"}
      BY <1>11 DEF CrashAndRestart
    <2>2. Table' \subseteq Table
      BY <2>1 DEF Table, InTable
    <2>3. Listed'
      BY <2>1 DEF Listed, Finished
    <2> QED
      BY <2>2, <2>3, TableShrinks DEF TableInv
  <1> QED
    BY <1>1, <1>3, <1>4, <1>5, <1>6, <1>7, <1>8, <1>9, <1>10, <1>11 DEF Next, vars

(* However many jobs are submitted and whenever they end, the job table    *)
(* stays within max_queued + max_finished although it is pruned only when  *)
(* it is used.                                                             *)
THEOREM TableStaysBounded == Spec => []JobTableBounded
  <1>1. Init => TableInv
    <2> SUFFICES ASSUME Init PROVE TableInv
      OBVIOUS
    <2>1. Table = {}
      BY DEF Init, Table, InTable
    <2>2. Cardinality(Table) = 0
      BY <2>1, FS_EmptySet
    <2>3. Listed
      BY DEF Init, Listed, Finished
    <2> QED
      BY <2>2, <2>3, OpenApiAssumption DEF TableInv, JobTableBounded, Table
  <1>2. TableInv => JobTableBounded
    BY DEF TableInv
  <1> QED
    BY <1>1, <1>2, StepBounded, OpenApiInvariant, PTL DEF Spec
=============================================================================
