------------------------------- MODULE Install -------------------------------
(***************************************************************************)
(* Upgrading the core binary and the geo data: the TUI's flows download a  *)
(* release, put it into the inbox and ask the helper, which verifies it,   *)
(* replaces the installed file and restarts the core                       *)
(* (clard-core/src/upgrade.rs, geodata.rs; upgrade_core_flow and           *)
(* update_geodata_flow of the TUI; install_core and install_geodata of the *)
(* helper with their RPC handlers).                                        *)
(*                                                                         *)
(* The content of a file is the number of the release it came from; a file *)
(* written in part is Partial.  A flow is one task of the TUI; each call   *)
(* it makes has its own inbox file (process id and time are in the name).  *)
(* The helper serves one install at a time, under the locks of the store,  *)
(* the settings and the core.                                              *)
(***************************************************************************)
EXTENDS Naturals, FiniteSets

CONSTANTS
  FLOWS,       \* tasks of the TUI, each started once
  Nothing,     \* no file, no request, no error
  Partial,     \* content of a file that is being written
  MAX_RELEASE, \* releases the server publishes
  MAX_FAULTS   \* failed system calls, crashes and timed out calls

\* An install the helper is at: whose, how far, and whether a step failed.
Jobs == [flow : FLOWS, error : BOOLEAN,
         at : {"verify", "copy", "copied", "rename", "sha", "clean",
               "restart", "answer"}]

ASSUME InstallAssumption ==
  /\ MAX_RELEASE \in Nat \ {0} /\ MAX_FAULTS \in Nat
  /\ Nothing \notin Nat \union Jobs
  /\ Partial \notin Nat /\ Nothing # Partial

VARIABLES
  latest,  \* release the server has now
  flows,   \* per flow: where it is, what it installs, the release it holds
  inbox,   \* per flow: content of the file it put there
  calls,   \* flows whose request the helper has to answer
  job,     \* the install the helper is at: flow and step, or Nothing
  disk,    \* the installed file of every kind
  tmp,     \* the temporary file beside each of them
  record,  \* core.sha256 and core.version
  core,    \* what the running core was started from, or Nothing
  auto,    \* geo_auto_install_started
  faults,  \* how much has failed so far
  left     \* flows whose inbox file a failure left where it is

vars == <<latest, flows, inbox, calls, job, disk, tmp, record, core, auto,
          faults, left>>

KINDS == {"core", "geoip", "geosite"}
Releases == 1 .. MAX_RELEASE
MAX_ATTEMPTS == 3

Fault == faults < MAX_FAULTS /\ faults' = faults + 1
\* A failure after which the inbox files of `fs` stay, or none does.
Leaves(fs) == Fault /\ left' = left \union fs
NoFault == UNCHANGED <<faults, left>>

-----------------------------------------------------------------------------
(* Answers of the download servers.                                        *)

Reply == [sent : BOOLEAN, good : BOOLEAN, size : {"empty", "fits", "huge"},
          gzip : BOOLEAN, asset : BOOLEAN]

\* fetch_latest_release, then download_core: a body that is not gzip (an
\* empty one is not) is an error.
CoreDownload(release, body) ==
  CASE ~release.sent \/ ~release.good -> "Release"
    [] ~release.asset -> "AssetNotFound"
    [] ~body.sent -> "Request"
    [] ~body.good -> "HttpStatus"
    [] body.size = "huge" -> "TooLarge"
    [] ~body.gzip \/ body.size = "empty" -> "Gzip"
    [] OTHER -> "ok"

\* fetch_bytes of geodata.rs: too large a body is a Request error.
GeoDownload(body) ==
  CASE ~body.sent -> "Request"
    [] ~body.good -> "HttpStatus"
    [] body.size = "empty" -> "Empty"
    [] body.size = "huge" -> "Request"
    [] OTHER -> "ok"

CoreOutcomes == {CoreDownload(release, body) : release, body \in Reply}
GeoOutcomes == {GeoDownload(body) : body \in Reply}

-----------------------------------------------------------------------------
(* The TUI's flows.                                                        *)

Start(f, kind) ==
  /\ flows[f].at = "new"
  /\ flows' = [flows EXCEPT ![f] = [at |-> "download", kind |-> kind,
                                    holds |-> Nothing, tries |-> 0]]

\* upgrade_core and update_geodata: the keys `i` and `g`.
UpgradeCore(f) ==
  /\ Start(f, "core")
  /\ UNCHANGED <<latest, inbox, calls, job, disk, tmp, record, core, auto,
                 faults, left>>
UpdateGeodata(f) ==
  /\ Start(f, "geoip")
  /\ UNCHANGED <<latest, inbox, calls, job, disk, tmp, record, core, auto,
                 faults, left>>

\* geo_data_ready: both files there and big enough.
GeoDataReady == \A k \in {"geoip", "geosite"} : disk[k] # Nothing

\* on_core_status: once per session, when the status says geo is missing.
OnCoreStatus(f) ==
  /\ ~GeoDataReady /\ ~auto
  /\ auto' = TRUE
  /\ Start(f, "geoip")
  /\ UNCHANGED <<latest, inbox, calls, job, disk, tmp, record, core, faults,
                 left>>

Goes(f, step) == flows' = [flows EXCEPT ![f].at = step]

\* download_latest, one attempt.
DownloadCore(f) ==
  /\ flows[f].at = "download" /\ flows[f].kind = "core"
  /\ \E outcome \in CoreOutcomes :
       IF outcome = "ok"
       THEN flows' = [flows EXCEPT ![f].at = "write", ![f].holds = latest]
       ELSE Goes(f, "failed")
  /\ UNCHANGED <<latest, inbox, calls, job, disk, tmp, record, core, auto,
                 faults, left>>

\* download_geo_from: a Request error is tried again, three attempts in all.
DownloadGeo(f) ==
  /\ flows[f].at = "download" /\ flows[f].kind # "core"
  /\ \E outcome \in GeoOutcomes :
       CASE outcome = "ok" ->
              flows' = [flows EXCEPT ![f].at = "write", ![f].holds = latest]
         [] outcome = "Request" /\ flows[f].tries < MAX_ATTEMPTS - 1
              -> flows' = [flows EXCEPT ![f].tries = @ + 1]
         [] OTHER -> Goes(f, "failed")
  /\ UNCHANGED <<latest, inbox, calls, job, disk, tmp, record, core, auto,
                 faults, left>>

\* fs::write into the inbox, then the call.
WriteInbox(f) ==
  /\ flows[f].at = "write"
  /\ \/ /\ inbox' = [inbox EXCEPT ![f] = flows[f].holds]
        /\ calls' = calls \union {f}
        /\ Goes(f, "call")
        /\ NoFault
     \/ /\ Leaves({f})
        /\ inbox' = [inbox EXCEPT ![f] = Partial]
        /\ Goes(f, "failed")
        /\ UNCHANGED calls
  /\ UNCHANGED <<latest, job, disk, tmp, record, core, auto>>

\* rpc::call gives up after ten seconds; the helper goes on.
GiveUp(f) ==
  /\ flows[f].at = "call"
  /\ Leaves({})
  /\ Goes(f, "failed")
  /\ UNCHANGED <<latest, inbox, calls, job, disk, tmp, record, core, auto>>

-----------------------------------------------------------------------------
(* The helper.  job.at is the next step of the install it is at.           *)

Kind == flows[job.flow].kind
Holds == flows[job.flow].holds
Next1(step) == job' = [job EXCEPT !.at = step]
\* The way out of a failed step: the answer is an error.
Fails == job' = [job EXCEPT !.at = "answer", !.error = TRUE]
\* install_core and install_geodata return early: the inbox file stays.
FailsEarly == Leaves({job.flow}) /\ Fails

\* The request gets the locks.
Serve(f) ==
  /\ job = Nothing /\ f \in calls
  /\ job' = [flow |-> f, at |-> "verify", error |-> FALSE]
  /\ UNCHANGED <<latest, flows, inbox, calls, disk, tmp, record, core, auto,
                 faults, left>>

\* verify_inbox_sha256: the hash sent is that of what the flow holds; a
\* file that differs is deleted, one that cannot be opened or read is not.
Verify ==
  /\ job # Nothing /\ job.at = "verify"
  /\ IF inbox[job.flow] # Holds
     THEN /\ inbox' = [inbox EXCEPT ![job.flow] = Nothing]
          /\ Fails
          /\ NoFault
     ELSE /\ \/ Next1("copy") /\ NoFault
             \/ FailsEarly
          /\ UNCHANGED inbox
  /\ UNCHANGED <<latest, flows, calls, disk, tmp, record, core, auto>>

\* Mutant of Copy: straight onto the installed file.
CopyOver ==
  /\ job # Nothing /\ job.at = "copy"
  /\ \/ Next1("copied") /\ NoFault
     \/ FailsEarly
  /\ disk' = [disk EXCEPT ![Kind] = Partial]
  /\ UNCHANGED <<latest, flows, inbox, calls, tmp, record, core, auto>>

\* create() of the temporary file, and the copy under way.
Copy ==
  /\ job # Nothing /\ job.at = "copy"
  /\ \/ Next1("copied") /\ NoFault
     \/ FailsEarly
  /\ tmp' = [tmp EXCEPT ![Kind] = Partial]
  /\ UNCHANGED <<latest, flows, inbox, calls, disk, record, core, auto>>

\* Copied, synced to the disk and made executable.
Copied ==
  /\ job # Nothing /\ job.at = "copied"
  /\ \/ /\ tmp' = [tmp EXCEPT ![Kind] = inbox[job.flow]]
        /\ Next1("rename")
        /\ NoFault
     \/ FailsEarly /\ UNCHANGED tmp
  /\ UNCHANGED <<latest, flows, inbox, calls, disk, record, core, auto>>

\* The atomic replacement.
Rename ==
  /\ job # Nothing /\ job.at = "rename"
  /\ \/ /\ disk' = [disk EXCEPT ![Kind] = tmp[Kind]]
        /\ tmp' = [tmp EXCEPT ![Kind] = Nothing]
        /\ Next1(IF Kind = "core" THEN "sha" ELSE "clean")
        /\ NoFault
     \/ FailsEarly /\ UNCHANGED <<disk, tmp>>
  /\ UNCHANGED <<latest, flows, inbox, calls, record, core, auto>>

\* core.sha256: a failure is reported although the binary is the new one.
RecordSha ==
  /\ job # Nothing /\ job.at = "sha"
  /\ \/ /\ record' = [record EXCEPT !.sha = Holds]
        /\ Next1("clean")
        /\ NoFault
     \/ FailsEarly /\ UNCHANGED record
  /\ UNCHANGED <<latest, flows, inbox, calls, disk, tmp, core, auto>>

\* Mutant of Clean: the file of a client that has gone stays.
CleanForWaiting ==
  /\ job # Nothing /\ job.at = "clean"
  /\ inbox' = IF flows[job.flow].at # "call" THEN inbox
              ELSE [inbox EXCEPT ![job.flow] = Nothing]
  /\ record' = IF Kind = "core" THEN [record EXCEPT !.version = Holds]
               ELSE record
  /\ Next1("restart")
  /\ UNCHANGED <<latest, flows, calls, disk, tmp, core, auto, faults, left>>

\* The inbox file goes, and core.version is written; failures of either
\* are ignored.
Clean ==
  /\ job # Nothing /\ job.at = "clean"
  /\ \E failing \in SUBSET {"remove", "version"} :
       /\ "version" \in failing => Kind = "core"
       /\ inbox' = IF "remove" \in failing THEN inbox
                   ELSE [inbox EXCEPT ![job.flow] = Nothing]
       /\ record' = IF "version" \in failing \/ Kind # "core" THEN record
                    ELSE [record EXCEPT !.version = Holds]
       /\ IF failing = {} THEN NoFault
          ELSE Leaves(IF "remove" \in failing THEN {job.flow} ELSE {})
  /\ Next1("restart")
  /\ UNCHANGED <<latest, flows, calls, disk, tmp, core, auto>>

\* Mutant of Restart: the new file waits for the next start.
RestartLater ==
  /\ job # Nothing /\ job.at = "restart"
  /\ Next1("answer")
  /\ UNCHANGED <<latest, flows, inbox, calls, disk, tmp, record, core, auto,
                 faults, left>>

\* A running core is restarted from what is installed now.
Restart ==
  /\ job # Nothing /\ job.at = "restart"
  /\ IF core = Nothing THEN Next1("answer") /\ UNCHANGED <<core, faults, left>>
     ELSE \/ core' = disk /\ Next1("answer") /\ NoFault
          \/ Leaves({}) /\ Fails /\ core' = Nothing
  /\ UNCHANGED <<latest, flows, inbox, calls, disk, tmp, record, auto>>

\* Mutant of Told: an error is taken for an answer.
ToldOk(fl, error) ==
  IF fl.at # "call" THEN fl
  ELSE [fl EXCEPT !.at = "ok"]

\* The flow after an answer: geosite follows geoip.
Told(fl, error) ==
  IF fl.at # "call" THEN fl
  ELSE IF error THEN [fl EXCEPT !.at = "failed"]
  ELSE IF fl.kind = "geoip"
  THEN [at |-> "download", kind |-> "geosite", holds |-> Nothing,
        tries |-> 0]
  ELSE [fl EXCEPT !.at = "ok"]

\* The locks are let go and the client, if it still waits, is answered.
Answer ==
  /\ job # Nothing /\ job.at = "answer"
  /\ flows' = [flows EXCEPT ![job.flow] = Told(@, job.error)]
  /\ calls' = calls \ {job.flow}
  /\ job' = Nothing
  /\ UNCHANGED <<latest, inbox, disk, tmp, record, core, auto, faults, left>>

\* The helper dies: the core of its unit goes with it, and whoever waits
\* reads the end of the connection.
Crash ==
  /\ Leaves(calls)
  /\ job' = Nothing /\ core' = Nothing /\ calls' = {}
  /\ flows' = [f \in FLOWS |->
                 IF f \in calls THEN Told(flows[f], TRUE) ELSE flows[f]]
  /\ UNCHANGED <<latest, inbox, disk, tmp, record, auto>>

-----------------------------------------------------------------------------
(* The core and the server of releases.                                    *)

\* Start and stop take the core lock; a crash of the core does not.
StartCore ==
  /\ job = Nothing /\ core = Nothing /\ disk["core"] # Nothing
  /\ core' = disk
  /\ UNCHANGED <<latest, flows, inbox, calls, job, disk, tmp, record, auto,
                 faults, left>>

CoreEnds ==
  /\ core # Nothing
  /\ core' = Nothing
  /\ UNCHANGED <<latest, flows, inbox, calls, job, disk, tmp, record, auto,
                 faults, left>>

Publish ==
  /\ latest < MAX_RELEASE
  /\ latest' = latest + 1
  /\ UNCHANGED <<flows, inbox, calls, job, disk, tmp, record, core, auto,
                 faults, left>>

-----------------------------------------------------------------------------
Init ==
  /\ latest = 1
  /\ flows = [f \in FLOWS |-> [at |-> "new", kind |-> "core",
                               holds |-> Nothing, tries |-> 0]]
  /\ inbox = [f \in FLOWS |-> Nothing]
  /\ calls = {} /\ job = Nothing
  \* The package brings a core, and no geo data.
  /\ disk = [k \in KINDS |-> IF k = "core" THEN 1 ELSE Nothing]
  /\ tmp = [k \in KINDS |-> Nothing]
  /\ record = [sha |-> 1, version |-> 1]
  /\ core = Nothing /\ auto = FALSE /\ faults = 0 /\ left = {}

Client(f) == UpgradeCore(f) \/ UpdateGeodata(f) \/ OnCoreStatus(f)
Task(f) == DownloadCore(f) \/ DownloadGeo(f) \/ WriteInbox(f)
Work == Verify \/ Copy \/ Copied \/ Rename \/ RecordSha \/ Clean \/ Restart
        \/ Answer

Next ==
  \/ \E f \in FLOWS : Client(f) \/ Task(f) \/ GiveUp(f) \/ Serve(f)
  \/ Work
  \/ Crash \/ StartCore \/ CoreEnds \/ Publish

Spec == Init /\ [][Next]_vars

\* The helper's task runs on, and so do the tasks of the TUI.
FairSpec == /\ Spec /\ WF_vars(Work)
            /\ \A f \in FLOWS : WF_vars(Task(f)) /\ SF_vars(Serve(f))

-----------------------------------------------------------------------------
(* Properties.                                                             *)

Content == Releases \union {Nothing, Partial}
Whole == Releases \union {Nothing}

TypeOK ==
  /\ latest \in Releases
  /\ flows \in [FLOWS -> [at : {"new", "download", "write", "call", "ok",
                                "failed"},
                          kind : KINDS, holds : Whole,
                          tries : 0 .. MAX_ATTEMPTS - 1]]
  /\ inbox \in [FLOWS -> Content]
  /\ calls \subseteq FLOWS
  /\ job = Nothing \/ job \in Jobs
  /\ disk \in [KINDS -> Content] /\ tmp \in [KINDS -> Content]
  /\ record \in [sha : Releases, version : Releases]
  /\ core = Nothing \/ core \in [KINDS -> Content]
  /\ auto \in BOOLEAN /\ faults \in 0 .. MAX_FAULTS /\ left \subseteq FLOWS

(* Whatever step fails, whoever crashes and however many flows run: the    *)
(* installed files are never partial, nor is anything the core was started *)
(* from (install_core, install_geodata).                                   *)
InstalledIsWhole ==
  /\ \A k \in KINDS : disk[k] \in Whole
  /\ core # Nothing => \A k \in KINDS : core[k] \in Whole

(* With nothing having failed, between two installs the records are those  *)
(* of the binary, and the running core is what is installed: it never goes *)
(* on with the files of before.                                            *)
QuietAgrees ==
  job = Nothing /\ faults = 0 =>
    /\ record.sha = disk["core"] /\ record.version = disk["core"]
    /\ core # Nothing => core = disk

(* A client that is told ok has its own release in place, recorded with    *)
(* its hash, and running if a core runs, also when other flows install at  *)
(* the same time and when steps whose failure is ignored fail.             *)
OkMeansInstalled ==
  [][\A f \in FLOWS :
       flows[f].at = "call" /\
       (flows'[f].at = "ok" \/ flows'[f].kind # flows[f].kind) =>
         LET k == flows[f].kind
         IN  /\ disk'[k] = flows[f].holds
             /\ k = "core" => record'.sha = disk'["core"]
             /\ core' # Nothing => core'[k] = disk'[k]]_vars

(* What is put into the inbox is taken out of it again, whether the client *)
(* still waits for the answer or gave up, whatever happens to the installs *)
(* of others, and also when the version is not recorded or the core does   *)
(* not come back: a file stays only when its own write failed, the helper  *)
(* died before it was through with it, the removal failed, or a step that  *)
(* install_core and install_geodata return early from (which is every one  *)
(* from opening the file to recording its hash, but for a wrong hash).     *)
InboxIsEmptied ==
  \A f \in FLOWS : inbox[f] # Nothing ~> inbox[f] = Nothing \/ f \in left

=============================================================================
