---------------------------- MODULE HubRegistry ----------------------------
(***************************************************************************)
(* The server registry of the hub and everything that writes to it on a    *)
(* timer or through the REST API: JSONFileStorage, Registry, the           *)
(* registration and unregistration routes, the health checker and the      *)
(* discovery service.                                                      *)
(*                                                                         *)
(* The hub is one asyncio process.  The bodies of the storage methods      *)
(* never suspend (the file is written synchronously), so every storage     *)
(* call, and every run of calls with no network await between them, is one *)
(* step.  An action ends where the code really suspends: the URL check of  *)
(* a registration, a probe of the health checker, a discovery round trip.  *)
(* What the code read before that point stays in the task's own state and  *)
(* may be stale when the task resumes.                                     *)
(***************************************************************************)
EXTENDS Naturals, Sequences, FiniteSets

CONSTANTS
    Servers,           \* the server ids
    Stdio,             \* the ids registered with transport_kind "stdio"
    UserOnly,          \* the ids the hub has no credential of its own for (needs_user_identity)
    NoRecord,          \* "no such id in the store"
    FailureThreshold,  \* healthcheck.failure_threshold
    AutoUnregister,    \* healthcheck.auto_unregister
    Mortal,            \* environment: backends that may go down for good
    PersistMayFail,    \* whether writing the JSON file can raise
    MaxRegistrations,  \* bound: registration requests admitted
    MaxFails,          \* bound: consecutive_fails saturates here
    MaxCrashes         \* bound: crashes of the hub

Supports == {"unknown", "yes", "no"}   \* supports_health_endpoint: None, True, False

(* The health fields of a record.  since says whether healthy_since is set. *)
Health == [healthy : BOOLEAN, since : BOOLEAN, fails : 0 .. MaxFails, supports : Supports]

(* A RegisteredServer.  cfg is the registration request its url and other  *)
(* always-sent fields came from, cred the one its KEPT_ON_REREGISTRATION   *)
(* fields came from (0: none sent yet), caps whether tools, prompts or     *)
(* resources are known.  The storage keeps the very object it is given and *)
(* hands out copies: shared says that the object is also in the hands of   *)
(* the background discovery its registration started.                      *)
Record == [cfg : 1 .. MaxRegistrations, cred : 0 .. MaxRegistrations,
           caps : BOOLEAN, shared : BOOLEAN, h : Health]

Slot == Record \cup {NoRecord}

ASSUME RegistryAssumption ==
    /\ Servers # {} /\ Stdio \subseteq Servers /\ Mortal \subseteq Servers
    /\ UserOnly \subseteq Servers
    /\ NoRecord \notin Record
    /\ FailureThreshold \in Nat \ {0}
    /\ MaxFails \in Nat /\ MaxFails >= FailureThreshold
    /\ MaxRegistrations \in Nat \ {0}
    /\ MaxCrashes \in Nat
    /\ AutoUnregister \in BOOLEAN /\ PersistMayFail \in BOOLEAN

VARIABLES
    mem,      \* storage._data
    disk,     \* the JSON file
    reqs,     \* registration requests waiting for their URL checks
    health,   \* the health checker task
    disc,     \* discovery tasks: of the current poll, and in the background
    down,     \* environment: backends that stopped answering for good
    issued,   \* registration requests admitted so far
    crashes,  \* crashes so far
    (* History, read by no action. *)
    judged,   \* the last health verdict or reset of each record
    deleted   \* ids whose last admin operation was an acknowledged DELETE

vars == <<mem, disk, reqs, health, disc, down, issued, crashes, judged, deleted>>

(* A probe of the health checker stands in one of these places. *)
Places == {"sleep", "next", "endpoint", "ping", "dead"}

Request == [srv : Servers, cfg : 1 .. MaxRegistrations, sends : BOOLEAN,
            self : BOOLEAN, existing : Slot]

Task == [srv : Servers, by : {"poll", "background"}, rec : Record]

TypeOK ==
    /\ mem \in [Servers -> Slot]
    /\ disk \in [Servers -> Slot]
    /\ reqs \subseteq Request
    /\ health \in [at : Places, cur : Servers, todo : SUBSET Servers, snap : [Servers -> Slot]]
    /\ \A s \in health.todo : health.snap[s] \in Record
    /\ health.at \in {"endpoint", "ping"} => health.snap[health.cur] \in Record
    /\ disc \subseteq Task
    /\ down \subseteq Servers
    /\ issued \in 0 .. MaxRegistrations
    /\ crashes \in 0 .. MaxCrashes
    /\ judged \in [Servers -> Health]
    /\ deleted \subseteq Servers

-----------------------------------------------------------------------------
(* Storage *)

Registered == {s \in Servers : mem[s] # NoRecord}

(* get and list: a deep copy *)
Copy(r) == IF r = NoRecord THEN NoRecord ELSE [r EXCEPT !.shared = FALSE]

(* Mutants of SanitizedHealth: healthy_since survives the restart; what is *)
(* known of the health endpoint does not.                                  *)
SanitizedHealthKeepsSince(h) == [h EXCEPT !.healthy = FALSE]

SanitizedHealthForgetsEndpoint(h) ==
    [h EXCEPT !.healthy = FALSE, !.since = FALSE, !.supports = "unknown"]

(* RegisteredServer.sanitize_for_persistence: what the file keeps. *)
SanitizedHealth(h) == [h EXCEPT !.healthy = FALSE, !.since = FALSE]

Sanitize(r) ==
    IF r = NoRecord THEN NoRecord
    ELSE [r EXCEPT !.caps = FALSE, !.shared = FALSE, !.h = SanitizedHealth(@)]

SanitizeAll(m) == [s \in Servers |-> Sanitize(m[s])]

(* Successive states of the store, each one persisted before the next is   *)
(* made.  The whole file is rewritten each time.                           *)
SavesAll(ms) ==
    /\ mem' = ms[Len(ms)]
    /\ disk' = SanitizeAll(ms[Len(ms)])

(* _persist_locked raises at the k-th of them: memory already holds the    *)
(* change, the file is the one of the write before.                        *)
SavesFailAt(ms, k) ==
    /\ PersistMayFail
    /\ mem' = ms[k]
    /\ disk' = IF k = 1 THEN disk ELSE SanitizeAll(ms[k - 1])

(* Mutant of Merged: the record replaces the stored one as it is. *)
MergedOverwrites(r, existing) == r

(* Mutant of Merged: of the stored health only the verdict is kept. *)
MergedHalfHealth(r, existing) ==
    IF existing = NoRecord THEN r
    ELSE [r EXCEPT !.caps = @ \/ existing.caps, !.h.healthy = existing.h.healthy]

(* Registry.register on top of the storage: a record that carries no       *)
(* capabilities keeps the stored ones.                                     *)
Merged(r, existing) ==
    IF existing = NoRecord THEN r
    ELSE [r EXCEPT !.caps = @ \/ existing.caps]

RegisterIn(m, s, r) == [m EXCEPT ![s] = Merged(r, m[s])]

(* Registry.unregister *)
UnregisterIn(m, s) == [m EXCEPT ![s] = NoRecord]

-----------------------------------------------------------------------------
(* Init: an empty registry, the health checker about to list it. *)

FreshHealth == [healthy |-> TRUE, since |-> FALSE, fails |-> 0, supports |-> "unknown"]

Asleep == [at |-> "sleep", cur |-> CHOOSE s \in Servers : TRUE, todo |-> {},
           snap |-> [s \in Servers |-> NoRecord]]

Init ==
    /\ mem = [s \in Servers |-> NoRecord]
    /\ disk = [s \in Servers |-> NoRecord]
    /\ reqs = {}
    /\ health = Asleep
    /\ disc = {}
    /\ down = {}
    /\ issued = 0
    /\ crashes = 0
    /\ judged = [s \in Servers |-> FreshHealth]
    /\ deleted = {}

-----------------------------------------------------------------------------
(* The REST API *)

(* register_from_data up to its first await: the stored record is read,    *)
(* then the URL is checked over the network.                               *)
RegisterBegin(s, sends, self) ==
    /\ issued < MaxRegistrations
    /\ issued' = issued + 1
    /\ reqs' = reqs \cup {[srv |-> s, cfg |-> issued + 1, sends |-> sends,
                           self |-> self, existing |-> Copy(mem[s])]}
    /\ UNCHANGED <<mem, disk, health, disc, down, crashes, judged, deleted>>

(* The checks failed: 400, nothing stored. *)
RegisterRefused(r) ==
    /\ reqs' = reqs \ {r}
    /\ UNCHANGED <<mem, disk, health, disc, down, issued, crashes, judged, deleted>>

(* Fields left empty in the request come from the record read at the start. *)
KeptCred(r) ==
    CASE r.sends -> r.cfg
      [] ~r.sends /\ r.existing # NoRecord -> r.existing.cred
      [] OTHER -> 0

NewRecord(r) == [cfg |-> r.cfg, cred |-> KeptCred(r), caps |-> FALSE, shared |-> ~r.self,
                 h |-> FreshHealth]

(* The checks passed: the record replaces the stored one.  A registration  *)
(* that is not "self" starts a discovery task on the record it stored.     *)
RegisterCommit(r) ==
    LET m == RegisterIn(mem, r.srv, NewRecord(r)) IN
    /\ reqs' = reqs \ {r}
    /\ judged' = [judged EXCEPT ![r.srv] = FreshHealth]
    /\ deleted' = deleted \ {r.srv}
    /\ \/ /\ SavesAll(<<m>>)
          /\ disc' = IF r.self THEN disc
                     ELSE disc \cup {[srv |-> r.srv, by |-> "background", rec |-> m[r.srv]]}
       \/ SavesFailAt(<<m>>, 1) /\ UNCHANGED disc
    /\ UNCHANGED <<health, down, issued, crashes>>

(* Mutant of Unregister: the file is not rewritten. *)
UnregisterInMemory(s) ==
    /\ mem[s] # NoRecord
    /\ mem' = UnregisterIn(mem, s)
    /\ deleted' = deleted \cup {s}
    /\ judged' = [judged EXCEPT ![s] = FreshHealth]
    /\ UNCHANGED <<disk, reqs, health, disc, down, issued, crashes>>

(* unregister_server.  An unknown id is answered with an error. *)
Unregister(s) ==
    LET m == UnregisterIn(mem, s) IN
    /\ mem[s] # NoRecord
    /\ \/ SavesAll(<<m>>) /\ deleted' = deleted \cup {s}
       \/ SavesFailAt(<<m>>, 1) /\ UNCHANGED deleted
    /\ judged' = [judged EXCEPT ![s] = FreshHealth]
    /\ UNCHANGED <<reqs, health, disc, down, issued, crashes>>

-----------------------------------------------------------------------------
(* The health checker: one task that goes through the servers one by one,  *)
(* always on the copies it listed at the start of the cycle.               *)

Snap == health.snap[health.cur]

(* check_all_once: list *)
HealthList ==
    /\ health.at = "sleep"
    /\ health' = [health EXCEPT !.at = "next", !.todo = Registered,
                                !.snap = [s \in Servers |-> Copy(mem[s])]]
    /\ UNCHANGED <<mem, disk, reqs, disc, down, issued, crashes, judged, deleted>>

(* A server with no /health endpoint, and every stdio server, goes         *)
(* straight to the ping.                                                   *)
HealthPick(s) ==
    /\ health.at = "next"
    /\ s \in health.todo
    /\ LET pinged == s \in Stdio \/ health.snap[s].h.supports = "no" IN
       health' = [health EXCEPT !.cur = s, !.todo = @ \ {s},
                                !.at = IF pinged THEN "ping" ELSE "endpoint"]
    /\ UNCHANGED <<mem, disk, reqs, disc, down, issued, crashes, judged, deleted>>

HealthCycleEnds ==
    /\ health.at = "next"
    /\ health.todo = {}
    /\ health' = Asleep
    /\ UNCHANGED <<mem, disk, reqs, disc, down, issued, crashes, judged, deleted>>

(* Registry.update_health_and_uptime *)
UpdatedHealth(h, healthy, fails) ==
    [h EXCEPT !.healthy = healthy, !.since = healthy, !.fails = fails]

SetHealth(m, s, h) == [m EXCEPT ![s] = [Copy(m[s]) EXCEPT !.h = h]]

(* Mutant of NewFails: a failure always counts as the first. *)
NewFailsFirst(r, healthy) == IF healthy THEN 0 ELSE 1

(* new_fails, from the listed copy *)
NewFails(r, healthy) ==
    CASE healthy -> 0
      [] ~healthy /\ r.h.fails < MaxFails -> r.h.fails + 1
      [] OTHER -> MaxFails

(* Whether this verdict makes the checker unregister the server. *)
GivesUp(r, healthy) ==
    ~healthy /\ AutoUnregister /\ NewFails(r, healthy) >= FailureThreshold

(* An exception leaves check_all_once and run_forever: the task is over.   *)
HealthTaskDies == health' = [Asleep EXCEPT !.at = "dead"]

(* The registry writes of one step of the checker on the current server,   *)
(* and where the task goes.  The helpers raise KeyError when the id is gone. *)
HealthWrites(ms, next) ==
    \/ /\ mem[health.cur] = NoRecord
       /\ HealthTaskDies
       /\ UNCHANGED <<mem, disk, judged>>
    \/ /\ mem[health.cur] # NoRecord
       /\ \/ SavesAll(ms) /\ health' = next
          \/ \E k \in 1 .. Len(ms) : SavesFailAt(ms, k) /\ HealthTaskDies
       /\ judged' = [judged EXCEPT ![health.cur] =
                        IF mem'[health.cur] = NoRecord THEN FreshHealth ELSE mem'[health.cur].h]

Resume == [health EXCEPT !.at = "next"]

(* The verdict on the current server: update_health_and_uptime, for stdio  *)
(* also set_supports_health_endpoint(False), then perhaps unregister.      *)
(* h0 is the health stored before, ms0 the writes already made.            *)
Verdict(ms0, h0, healthy) ==
    LET s  == health.cur
        h1 == UpdatedHealth(h0, healthy, NewFails(Snap, healthy))
        stdio == IF s \in Stdio /\ Snap.h.supports # "no"
                 THEN <<SetHealth(mem, s, [h1 EXCEPT !.supports = "no"])>> ELSE <<>>
        gone == IF GivesUp(Snap, healthy) THEN <<UnregisterIn(mem, s)>> ELSE <<>>
    IN  HealthWrites(ms0 \o <<SetHealth(mem, s, h1)>> \o stdio \o gone, Resume)

(* check_service_health came back.  404: remember there is no endpoint and *)
(* ping instead.                                                           *)
HealthEndpoint404 ==
    /\ health.at = "endpoint"
    /\ health.cur \notin down
    /\ LET h == [mem[health.cur].h EXCEPT !.supports = "no"]
       IN  HealthWrites(<<SetHealth(mem, health.cur, h)>>, [health EXCEPT !.at = "ping"])
    /\ UNCHANGED <<reqs, disc, down, issued, crashes, deleted>>

(* The endpoint answered 200 and its body said healthy or not: the first   *)
(* such answer is remembered.  Unhealthy goes on to the ping.              *)
HealthEndpointWorked(healthy) ==
    /\ health.at = "endpoint"
    /\ health.cur \notin down
    /\ LET s == health.cur
           learnt == Snap.h.supports = "unknown"
           h == IF learnt THEN [mem[s].h EXCEPT !.supports = "yes"] ELSE mem[s].h
           ms == IF learnt THEN <<SetHealth(mem, s, h)>> ELSE <<>>
       IN  \/ healthy /\ Verdict(ms, h, TRUE)
           \/ /\ ~healthy /\ learnt
              /\ HealthWrites(ms, [health EXCEPT !.at = "ping"])
           \/ /\ ~healthy /\ ~learnt
              /\ health' = [health EXCEPT !.at = "ping"]
              /\ UNCHANGED <<mem, disk, judged>>
    /\ UNCHANGED <<reqs, disc, down, issued, crashes, deleted>>

(* Unreachable, or some other status: nothing learnt, ping. *)
HealthEndpointFailed ==
    /\ health.at = "endpoint"
    /\ health' = [health EXCEPT !.at = "ping"]
    /\ UNCHANGED <<mem, disk, reqs, disc, down, issued, crashes, judged, deleted>>

(* _mcp_probe (stdio: a ping on the pooled session) was answered, or       *)
(* answered 429, or failed.  A server only users can authenticate to is    *)
(* not probed and counts as having answered.                               *)
HealthPing(healthy) ==
    /\ health.at = "ping"
    /\ IF health.cur \in UserOnly \ Stdio THEN healthy ELSE healthy => health.cur \notin down
    /\ Verdict(<<>>, mem[health.cur].h, healthy)
    /\ UNCHANGED <<reqs, disc, down, issued, crashes, deleted>>

HealthStep ==
    \/ HealthList
    \/ \E s \in Servers : HealthPick(s)
    \/ HealthCycleEnds
    \/ HealthEndpoint404
    \/ \E b \in BOOLEAN : HealthEndpointWorked(b)
    \/ HealthEndpointFailed
    \/ \E b \in BOOLEAN : HealthPing(b)

-----------------------------------------------------------------------------
(* The discovery service *)

(* Mutant of PollStart: servers that are no longer registered are polled. *)
PollStartUnlisted(due) ==
    /\ due # {}
    /\ \A t \in disc : t.by # "poll"
    /\ disc' = disc \cup {[srv |-> s, by |-> "poll", rec |-> Copy(mem[s])] : s \in due}
    /\ UNCHANGED <<mem, disk, reqs, health, down, issued, crashes, judged, deleted>>

(* poll_once: a task per listed server that is due and can be discovered   *)
(* with the service identity.  The next poll starts when all of them ended. *)
PollStart(due) ==
    /\ due # {} /\ due \subseteq Registered \ UserOnly
    /\ \A t \in disc : t.by # "poll"
    /\ disc' = disc \cup {[srv |-> s, by |-> "poll", rec |-> Copy(mem[s])] : s \in due}
    /\ UNCHANGED <<mem, disk, reqs, health, down, issued, crashes, judged, deleted>>

(* Mutant of PreservingHealth: the health read before the round trip is    *)
(* written back.                                                           *)
PreservingNothing(r, current) == r

(* _save_preserving_health: the record read before the round trip, with    *)
(* the health fields of the stored one.                                    *)
PreservingHealth(r, current) == [r EXCEPT !.h = current.h]

(* Mutant of DiscoverStore: it does not look whether the server is gone. *)
DiscoverStoreUnchecked(t, found) ==
    LET r0 == [t.rec EXCEPT !.caps = found, !.shared = FALSE]
        r == IF mem[t.srv] = NoRecord THEN r0 ELSE PreservingHealth(r0, mem[t.srv])
        m == RegisterIn(mem, t.srv, r)
    IN
    /\ disc' = disc \ {t}
    /\ SavesAll(<<m>>) \/ SavesFailAt(<<m>>, 1)
    /\ UNCHANGED <<reqs, health, down, issued, crashes, judged, deleted>>

(* Whether the task's record is the stored object itself. *)
Aliased(t) ==
    /\ mem[t.srv] # NoRecord
    /\ mem[t.srv].shared /\ t.rec.shared /\ mem[t.srv].cfg = t.rec.cfg

(* The lists are assigned to the task's record: to the stored one if it is *)
(* the same object.                                                        *)
Assigned(t, found) == IF Aliased(t) THEN [mem EXCEPT ![t.srv].caps = found] ELSE mem

(* The round trip ended and _store_capabilities saves what it found, unless *)
(* the server was unregistered meanwhile.                                  *)
DiscoverStore(t, found) ==
    LET m0 == Assigned(t, found)
        r == PreservingHealth([t.rec EXCEPT !.caps = found, !.shared = FALSE], m0[t.srv])
        m == RegisterIn(m0, t.srv, r)
    IN
    /\ disc' = disc \ {t}
    /\ \/ mem[t.srv] = NoRecord /\ UNCHANGED <<mem, disk>>
       \/ mem[t.srv] # NoRecord /\ (SavesAll(<<m>>) \/ SavesFailAt(<<m>>, 1))
    /\ UNCHANGED <<reqs, health, down, issued, crashes, judged, deleted>>

(* The round trip failed: logged, nothing saved. *)
DiscoverFail(t) ==
    /\ disc' = disc \ {t}
    /\ UNCHANGED <<mem, disk, reqs, health, down, issued, crashes, judged, deleted>>

-----------------------------------------------------------------------------
(* The environment *)

GoDown(s) ==
    /\ s \in Mortal \ down
    /\ down' = down \cup {s}
    /\ UNCHANGED <<mem, disk, reqs, health, disc, issued, crashes, judged, deleted>>

(* The process dies and starts again: tasks and requests are gone,         *)
(* JSONFileStorage.init loads the file.                                    *)
CrashAndRestart ==
    /\ crashes < MaxCrashes
    /\ crashes' = crashes + 1
    /\ mem' = disk
    /\ reqs' = {} /\ disc' = {} /\ health' = Asleep
    /\ judged' = [s \in Servers |-> IF disk[s] = NoRecord THEN FreshHealth ELSE disk[s].h]
    /\ UNCHANGED <<disk, down, issued, deleted>>

-----------------------------------------------------------------------------

Next ==
    \/ \E s \in Servers, sends, self \in BOOLEAN : RegisterBegin(s, sends, self)
    \/ \E r \in reqs : RegisterRefused(r) \/ RegisterCommit(r)
    \/ \E s \in Servers : Unregister(s) \/ GoDown(s)
    \/ HealthStep
    \/ \E due \in SUBSET Servers : PollStart(due)
    \/ \E t \in disc : DiscoverFail(t) \/ \E found \in BOOLEAN : DiscoverStore(t, found)
    \/ CrashAndRestart

Spec == Init /\ [][Next]_vars

(* The event loop keeps running the health checker, and a probe ends: every *)
(* network call it makes has a timeout.                                    *)
FairSpec == Spec /\ WF_vars(HealthStep)

-----------------------------------------------------------------------------
(* Properties *)

(* A record that is healthy counts no failure, and only a healthy record   *)
(* has a healthy_since: update_health_and_uptime writes the three together *)
(* and every later whole-record write must carry them together, whatever   *)
(* copy it started from.                                                   *)
Coherent(h) == (h.since => h.healthy) /\ (h.healthy => h.fails = 0)

HealthFieldsAgree == \A s \in Servers : mem[s] # NoRecord => Coherent(mem[s].h)

(* The health fields of a stored record are those of the last verdict of   *)
(* the checker, registration or restart: no discovery writes back the      *)
(* health it read before its round trip.                                   *)
HealthNeverReverted == \A s \in Servers : mem[s] # NoRecord => mem[s].h = judged[s]

(* A server whose DELETE was answered 204 stays away, in memory and in the *)
(* file, through probes and discoveries in flight and through restarts,    *)
(* until somebody registers it again.                                      *)
DeletedStaysDeleted == \A s \in deleted : mem[s] = NoRecord /\ disk[s] = NoRecord

(* Capabilities once discovered survive every later write of the record,   *)
(* a re-registration and the writes of tasks holding an older copy         *)
(* included; only a restart forgets them, and the discovery a registration *)
(* starts, which may hold the stored object and clear its lists.           *)
CapabilitiesKept ==
    [][\A s \in Servers :
          /\ mem[s] # NoRecord /\ mem'[s] # NoRecord /\ crashes' = crashes
          /\ \A t \in disc \ disc' : ~(t.srv = s /\ t.rec.shared)
          => (mem[s].caps => mem'[s].caps)]_vars

(* Once a server is known to have no /health endpoint it is remembered,    *)
(* even across restarts, until it is registered anew.  (A restart after a  *)
(* failed write of the file restores what the file has.)                   *)
MissingEndpointRemembered ==
    [][\A s \in Servers :
          /\ mem[s] # NoRecord /\ mem'[s] # NoRecord
          /\ mem[s].h.supports = "no"
          /\ reqs \subseteq reqs' \/ crashes' # crashes
          /\ crashes' # crashes => disk = SanitizeAll(mem)
          => mem'[s].h.supports = "no"]_vars

(* With auto_unregister on, a backend that went down for good does not stay *)
(* registered as long as the checker runs.                                 *)
DownServerRemoved ==
    \A s \in Servers : s \in down ~> (mem[s] = NoRecord \/ health.at = "dead")

(* The health checker keeps running: nothing an admin does through the API *)
(* ends its task.                                                          *)
HealthCheckerSurvives == health.at # "dead"
=============================================================================
