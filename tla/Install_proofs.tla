--------------------------- MODULE Install_proofs ---------------------------
(***************************************************************************)
(* Proofs about Install, for any number of flows and releases and any      *)
(* bound on the faults.                                                    *)
(***************************************************************************)
EXTENDS Install, TLAPS

(* The request that is being served is one that waits, and a flow that     *)
(* waits or has given up keeps the release it asked for.                   *)
Pending ==
  /\ \A f \in calls : flows[f].at \in {"call", "failed"}
  /\ \A f \in FLOWS : flows[f].at = "write" \/ f \in calls =>
       flows[f].holds \in Releases
  /\ job # Nothing => job.flow \in calls

(* The new binary is in place.                                             *)
Placed == \/ job.at \in {"sha", "clean", "restart"}
          \/ job.at = "answer" /\ ~job.error

(* What the steps of an install have done so far.                          *)
Progress ==
  job # Nothing =>
    /\ job.at \in {"copy", "copied"} => inbox[job.flow] = Holds
    /\ job.at = "rename" => tmp[Kind] = Holds
    /\ job.at = "sha" => Kind = "core"
    /\ Placed => disk[Kind] = Holds
    /\ Placed /\ job.at # "sha" /\ Kind = "core" => record.sha = Holds
    /\ Placed /\ job.at = "answer" /\ core # Nothing => core = disk

(* Without a fault, what agrees at each step.                              *)
Agreement ==
  faults = 0 =>
    /\ (job = Nothing \/ Kind # "core" \/ job.at \notin {"sha", "clean"}) =>
         record.sha = disk["core"] /\ record.version = disk["core"]
    /\ (job = Nothing \/ job.at \notin {"sha", "clean", "restart"}) =>
         core = Nothing \/ core = disk

IInv == TypeOK /\ Pending /\ Progress /\ InstalledIsWhole /\ Agreement

USE InstallAssumption DEF InstallAssumption

-----------------------------------------------------------------------------
(* The initial states.                                                     *)

LEMMA InitIInv == Init => IInv
<1> SUFFICES ASSUME Init PROVE IInv
  OBVIOUS
<1> USE DEF Init, Releases, KINDS
<1>1. TypeOK
  <2>1. 1 \in Releases /\ MAX_ATTEMPTS - 1 = 2 /\ 0 \in 0 .. 2
    BY DEF MAX_ATTEMPTS
  <2>2. flows \in [FLOWS -> [at : {"new", "download", "write", "call", "ok",
                                  "failed"},
                            kind : KINDS, holds : Whole,
                            tries : 0 .. MAX_ATTEMPTS - 1]]
    BY <2>1 DEF Whole
  <2>3. disk \in [KINDS -> Content] /\ tmp \in [KINDS -> Content]
    BY <2>1 DEF Content
  <2>4. record \in [sha : Releases, version : Releases]
    BY <2>1
  <2>5. inbox \in [FLOWS -> Content]
    BY DEF Content
  <2>6. /\ latest \in Releases /\ calls \subseteq FLOWS /\ job = Nothing
        /\ core = Nothing /\ auto \in BOOLEAN /\ faults \in 0 .. MAX_FAULTS
        /\ left \subseteq FLOWS
    <3>1. latest = 1 /\ calls = {} /\ job = Nothing /\ core = Nothing
          /\ auto = FALSE /\ faults = 0 /\ left = {}
      OBVIOUS
    <3>2. 0 \in 0 .. MAX_FAULTS
      OBVIOUS
    <3>3. QED
      BY <2>1, <3>1, <3>2
  <2> HIDE DEF Init, Releases, KINDS
  <2>7. QED
    BY <2>2, <2>3, <2>4, <2>5, <2>6 DEF TypeOK
<1>2. Pending
  BY DEF Pending
<1>3. Progress
  BY DEF Progress
<1>4. InstalledIsWhole
  BY DEF InstalledIsWhole, Whole
<1>5. Agreement
  BY DEF Agreement
<1>6. QED
  BY <1>1, <1>2, <1>3, <1>4, <1>5 DEF IInv

-----------------------------------------------------------------------------
(* The flows of the TUI.                                                   *)
LEMMA UpgradeCoreStep ==
  ASSUME NEW f \in FLOWS, IInv, UpgradeCore(f) PROVE IInv'
<1> USE DEF IInv, UpgradeCore, Start
<1>1. TypeOK'
  BY DEF TypeOK, Jobs, Content, Whole, Releases, KINDS, MAX_ATTEMPTS
<1>2. Pending'
  BY DEF Pending, TypeOK, Jobs
<1>3. Progress'
  BY DEF Progress, Placed, Kind, Holds, Pending, TypeOK, Jobs
<1>4. InstalledIsWhole'
  BY DEF InstalledIsWhole, Whole, Progress, TypeOK, Jobs, Kind, Holds
<1>5. Agreement'
  BY DEF Agreement, Kind, TypeOK, Jobs, Pending
<1>6. QED
  BY <1>1, <1>2, <1>3, <1>4, <1>5

LEMMA UpdateGeodataStep ==
  ASSUME NEW f \in FLOWS, IInv, UpdateGeodata(f) PROVE IInv'
<1> USE DEF IInv, UpdateGeodata, Start
<1>1. TypeOK'
  BY DEF TypeOK, Jobs, Content, Whole, Releases, KINDS, MAX_ATTEMPTS
<1>2. Pending'
  BY DEF Pending, TypeOK, Jobs
<1>3. Progress'
  BY DEF Progress, Placed, Kind, Holds, Pending, TypeOK, Jobs
<1>4. InstalledIsWhole'
  BY DEF InstalledIsWhole, Whole, Progress, TypeOK, Jobs, Kind, Holds
<1>5. Agreement'
  BY DEF Agreement, Kind, TypeOK, Jobs, Pending
<1>6. QED
  BY <1>1, <1>2, <1>3, <1>4, <1>5

LEMMA OnCoreStatusStep ==
  ASSUME NEW f \in FLOWS, IInv, OnCoreStatus(f) PROVE IInv'
<1> USE DEF IInv, OnCoreStatus, Start
<1>1. TypeOK'
  BY DEF TypeOK, Jobs, Content, Whole, Releases, KINDS, MAX_ATTEMPTS
<1>2. Pending'
  BY DEF Pending, TypeOK, Jobs
<1>3. Progress'
  BY DEF Progress, Placed, Kind, Holds, Pending, TypeOK, Jobs
<1>4. InstalledIsWhole'
  BY DEF InstalledIsWhole, Whole, Progress, TypeOK, Jobs, Kind, Holds
<1>5. Agreement'
  BY DEF Agreement, Kind, TypeOK, Jobs, Pending
<1>6. QED
  BY <1>1, <1>2, <1>3, <1>4, <1>5

LEMMA DownloadCoreStep ==
  ASSUME NEW f \in FLOWS, IInv, DownloadCore(f) PROVE IInv'
<1> USE DEF IInv, DownloadCore, Goes
<1>1. TypeOK'
  BY DEF TypeOK, Jobs, Content, Whole, Releases, KINDS, MAX_ATTEMPTS
<1>2. Pending'
  BY DEF Pending, TypeOK, Jobs
<1>3. Progress'
  BY DEF Progress, Placed, Kind, Holds, Pending, TypeOK, Jobs
<1>4. InstalledIsWhole'
  BY DEF InstalledIsWhole, Whole, Progress, TypeOK, Jobs, Kind, Holds
<1>5. Agreement'
  BY DEF Agreement, Kind, TypeOK, Jobs, Pending
<1>6. QED
  BY <1>1, <1>2, <1>3, <1>4, <1>5

LEMMA DownloadGeoStep ==
  ASSUME NEW f \in FLOWS, IInv, DownloadGeo(f) PROVE IInv'
<1> USE DEF IInv, DownloadGeo, Goes
<1>1. TypeOK'
  BY DEF TypeOK, Jobs, Content, Whole, Releases, KINDS, MAX_ATTEMPTS
<1>2. Pending'
  <2>1. flows \in [FLOWS -> [at : {"new", "download", "write", "call", "ok",
                                 "failed"},
                           kind : KINDS, holds : Whole,
                           tries : 0 .. MAX_ATTEMPTS - 1]]
    BY DEF TypeOK
  <2>2. latest \in Releases /\ f \notin calls
    BY DEF TypeOK, Pending
  <2>3. ASSUME NEW g \in FLOWS
        PROVE  \/ /\ flows'[g].holds = flows[g].holds
                  /\ flows'[g].at = flows[g].at \/ flows'[g].at = "failed"
               \/ g = f /\ flows'[g].holds = latest
    BY <2>1
  <2>4. QED
    BY <2>2, <2>3 DEF Pending, TypeOK
<1>3. Progress'
  BY DEF Progress, Placed, Kind, Holds, Pending, TypeOK, Jobs
<1>4. InstalledIsWhole'
  BY DEF InstalledIsWhole, Whole, Progress, TypeOK, Jobs, Kind, Holds
<1>5. Agreement'
  BY DEF Agreement, Kind, TypeOK, Jobs, Pending
<1>6. QED
  BY <1>1, <1>2, <1>3, <1>4, <1>5

LEMMA WriteInboxStep ==
  ASSUME NEW f \in FLOWS, IInv, WriteInbox(f) PROVE IInv'
<1> USE DEF IInv, WriteInbox, Leaves, NoFault, Fault, Goes
<1>1. TypeOK'
  BY DEF TypeOK, Jobs, Content, Whole, Releases, KINDS, MAX_ATTEMPTS
<1>2. Pending'
  <2>1. flows[f].holds \in Releases /\ f \notin calls
    BY DEF Pending
  <2>2. flows \in [FLOWS -> [at : {"new", "download", "write", "call", "ok",
                                 "failed"},
                           kind : KINDS, holds : Whole,
                           tries : 0 .. MAX_ATTEMPTS - 1]]
    BY DEF TypeOK
  <2>3. CASE Goes(f, "call") /\ calls' = calls \union {f}
    <3>1. ASSUME NEW g \in FLOWS
          PROVE  /\ flows'[g].holds = flows[g].holds
                 /\ flows'[g].at = IF g = f THEN "call" ELSE flows[g].at
      BY <2>2, <2>3
    <3>2. QED
      BY <2>1, <2>3, <3>1 DEF Pending, TypeOK
  <2>4. CASE Goes(f, "failed") /\ calls' = calls
    <3>1. ASSUME NEW g \in FLOWS
          PROVE  /\ flows'[g].holds = flows[g].holds
                 /\ flows'[g].at = IF g = f THEN "failed" ELSE flows[g].at
      BY <2>2, <2>4
    <3>2. QED
      BY <2>1, <2>4, <3>1 DEF Pending, TypeOK
  <2>5. QED
    BY <2>3, <2>4
<1>3. Progress'
  BY DEF Progress, Placed, Kind, Holds, Pending, TypeOK, Jobs
<1>4. InstalledIsWhole'
  BY DEF InstalledIsWhole, Whole, Progress, TypeOK, Jobs, Kind, Holds
<1>5. Agreement'
  BY DEF Agreement, Kind, TypeOK, Jobs, Pending
<1>6. QED
  BY <1>1, <1>2, <1>3, <1>4, <1>5

LEMMA GiveUpStep ==
  ASSUME NEW f \in FLOWS, IInv, GiveUp(f) PROVE IInv'
<1> USE DEF IInv, GiveUp, Leaves, Fault, Goes
<1>1. TypeOK'
  BY DEF TypeOK, Jobs, Content, Whole, Releases, KINDS, MAX_ATTEMPTS
<1>2. Pending'
  BY DEF Pending, TypeOK, Jobs
<1>3. Progress'
  BY DEF Progress, Placed, Kind, Holds, Pending, TypeOK, Jobs
<1>4. InstalledIsWhole'
  BY DEF InstalledIsWhole, Whole, Progress, TypeOK, Jobs, Kind, Holds
<1>5. Agreement'
  BY DEF Agreement, Kind, TypeOK, Jobs, Pending
<1>6. QED
  BY <1>1, <1>2, <1>3, <1>4, <1>5

-----------------------------------------------------------------------------
(* The helper.                                                             *)

LEMMA ServeStep ==
  ASSUME NEW f \in FLOWS, IInv, Serve(f) PROVE IInv'
<1> USE DEF IInv, Serve
<1>1. TypeOK'
  BY DEF TypeOK, Jobs, Content, Whole, Releases, KINDS, MAX_ATTEMPTS
<1>2. Pending'
  BY DEF Pending, TypeOK, Jobs
<1>3. Progress'
  BY DEF Progress, Placed, Kind, Holds, Pending, TypeOK, Jobs
<1>4. InstalledIsWhole'
  BY DEF InstalledIsWhole, Whole, Progress, TypeOK, Jobs, Kind, Holds
<1>5. Agreement'
  BY DEF Agreement, Kind, TypeOK, Jobs, Pending
<1>6. QED
  BY <1>1, <1>2, <1>3, <1>4, <1>5

LEMMA VerifyStep ==
  ASSUME IInv, Verify PROVE IInv'
<1> USE DEF IInv, Verify, Next1, Fails, FailsEarly, Leaves, NoFault,
           Fault
<1>a. job \in Jobs /\ job' \in Jobs /\ job'.flow = job.flow
      /\ job.flow \in FLOWS
  BY DEF TypeOK, Jobs
<1>b. Kind \in KINDS /\ Kind' = Kind /\ Holds' = Holds /\ Holds \in Releases
  BY <1>a DEF Kind, Holds, TypeOK, Pending
<1>c. \/ job'.at = "copy" /\ inbox[job.flow] = Holds /\ inbox' = inbox
      \/ job'.at = "answer" /\ job'.error
  BY <1>a DEF Jobs
<1>1. TypeOK'
  BY <1>a, <1>b DEF TypeOK, Content, Whole
<1>2. Pending'
  BY DEF Pending, TypeOK, Jobs
<1>3. Progress'
  BY <1>a, <1>b, <1>c DEF Progress, Placed
<1>4. InstalledIsWhole'
  BY <1>a, <1>b DEF InstalledIsWhole, Whole, Progress, TypeOK
<1>5. Agreement'
  BY <1>a, <1>b DEF Agreement, Progress, Placed, TypeOK, Jobs
<1>6. QED
  BY <1>1, <1>2, <1>3, <1>4, <1>5

LEMMA CopyStep ==
  ASSUME IInv, Copy PROVE IInv'
<1> USE DEF IInv, Copy, Next1, Fails, FailsEarly, Leaves, NoFault,
           Fault
<1>a. job \in Jobs /\ job' \in Jobs /\ job'.flow = job.flow
      /\ job.flow \in FLOWS
  BY DEF TypeOK, Jobs
<1>b. Kind \in KINDS /\ Kind' = Kind /\ Holds' = Holds /\ Holds \in Releases
  BY <1>a DEF Kind, Holds, TypeOK, Pending
<1>c. \/ job'.at = "copied"
      \/ job'.at = "answer" /\ job'.error
  BY <1>a DEF Jobs
<1>1. TypeOK'
  BY <1>a, <1>b DEF TypeOK, Content, Whole
<1>2. Pending'
  BY DEF Pending, TypeOK, Jobs
<1>3. Progress'
  BY <1>a, <1>b, <1>c DEF Progress, Placed
<1>4. InstalledIsWhole'
  BY <1>a, <1>b DEF InstalledIsWhole, Whole, Progress, TypeOK
<1>5. Agreement'
  BY <1>a, <1>b DEF Agreement, Progress, Placed, TypeOK, Jobs
<1>6. QED
  BY <1>1, <1>2, <1>3, <1>4, <1>5

LEMMA CopiedStep ==
  ASSUME IInv, Copied PROVE IInv'
<1> USE DEF IInv, Copied, Next1, Fails, FailsEarly, Leaves, NoFault,
           Fault
<1>a. job \in Jobs /\ job' \in Jobs /\ job'.flow = job.flow
      /\ job.flow \in FLOWS
  BY DEF TypeOK, Jobs
<1>b. Kind \in KINDS /\ Kind' = Kind /\ Holds' = Holds /\ Holds \in Releases
  BY <1>a DEF Kind, Holds, TypeOK, Pending
<1>c. \/ job'.at = "rename" /\ tmp'[Kind] = inbox[job.flow]
      \/ job'.at = "answer" /\ job'.error
  BY <1>a, <1>b DEF Jobs, TypeOK
<1>1. TypeOK'
  BY <1>a, <1>b DEF TypeOK, Content, Whole
<1>2. Pending'
  BY DEF Pending, TypeOK, Jobs
<1>3. Progress'
  BY <1>a, <1>b, <1>c DEF Progress, Placed
<1>4. InstalledIsWhole'
  BY <1>a, <1>b DEF InstalledIsWhole, Whole, Progress, TypeOK
<1>5. Agreement'
  BY <1>a, <1>b DEF Agreement, Progress, Placed, TypeOK, Jobs
<1>6. QED
  BY <1>1, <1>2, <1>3, <1>4, <1>5

LEMMA RenameStep ==
  ASSUME IInv, Rename PROVE IInv'
<1> USE DEF IInv, Rename, Next1, Fails, FailsEarly, Leaves, NoFault,
           Fault
<1>a. job \in Jobs /\ job' \in Jobs /\ job'.flow = job.flow
      /\ job.flow \in FLOWS
  BY DEF TypeOK, Jobs
<1>b. Kind \in KINDS /\ Kind' = Kind /\ Holds' = Holds /\ Holds \in Releases
  BY <1>a DEF Kind, Holds, TypeOK, Pending
<1>d. /\ faults \in Nat /\ record \in [sha : Releases, version : Releases]
      /\ disk \in [KINDS -> Content] /\ inbox \in [FLOWS -> Content]
  BY DEF TypeOK
<1>c. \/ /\ job'.at = IF Kind = "core" THEN "sha" ELSE "clean"
         /\ disk'[Kind] = tmp[Kind]
         /\ \A k \in KINDS \ {Kind} : disk'[k] = disk[k]
         /\ faults' = faults
      \/ /\ job'.at = "answer" /\ job'.error /\ disk' = disk
         /\ faults' # 0
  <2>1. CASE faults' = faults + 1
    <3>1. Fails /\ disk' = disk
      BY <2>1, <1>d
    <3>2. job'.at = "answer" /\ job'.error
      BY <3>1, <1>a DEF Jobs
    <3>3. QED
      BY <2>1, <3>1, <3>2, <1>d
  <2>2. CASE faults' = faults
    BY <2>2, <1>a, <1>b, <1>d DEF Jobs
  <2>3. QED
    BY <2>1, <2>2
<1>1. TypeOK'
  BY <1>a, <1>b DEF TypeOK, Content, Whole
<1>2. Pending'
  BY DEF Pending, TypeOK, Jobs
<1>3. Progress'
  BY <1>a, <1>b, <1>c DEF Progress, Placed
<1>4. InstalledIsWhole'
  BY <1>a, <1>b DEF InstalledIsWhole, Whole, Progress, TypeOK
<1>5. Agreement'
  BY <1>a, <1>b, <1>c DEF Agreement, Progress, KINDS
<1>6. QED
  BY <1>1, <1>2, <1>3, <1>4, <1>5

LEMMA RecordShaStep ==
  ASSUME IInv, RecordSha PROVE IInv'
<1> USE DEF IInv, RecordSha, Next1, Fails, FailsEarly, Leaves, NoFault,
           Fault
<1>a. job \in Jobs /\ job' \in Jobs /\ job'.flow = job.flow
      /\ job.flow \in FLOWS
  BY DEF TypeOK, Jobs
<1>b. Kind \in KINDS /\ Kind' = Kind /\ Holds' = Holds /\ Holds \in Releases
  BY <1>a DEF Kind, Holds, TypeOK, Pending
<1>d. /\ faults \in Nat /\ record \in [sha : Releases, version : Releases]
      /\ disk \in [KINDS -> Content] /\ inbox \in [FLOWS -> Content]
  BY DEF TypeOK
<1>c. \/ /\ job'.at = "clean" /\ record'.sha = Holds
         /\ record'.version = record.version /\ faults' = faults
      \/ /\ job'.at = "answer" /\ job'.error /\ record' = record
         /\ faults' # 0
  <2>1. CASE faults' = faults + 1
    <3>1. Fails /\ record' = record
      BY <2>1, <1>d
    <3>2. job'.at = "answer" /\ job'.error
      BY <3>1, <1>a DEF Jobs
    <3>3. QED
      BY <2>1, <3>1, <3>2, <1>d
  <2>2. CASE faults' = faults
    BY <2>2, <1>a, <1>b, <1>d DEF Jobs
  <2>3. QED
    BY <2>1, <2>2
<1>1. TypeOK'
  BY <1>a, <1>b DEF TypeOK, Content, Whole
<1>2. Pending'
  BY DEF Pending, TypeOK, Jobs
<1>3. Progress'
  BY <1>a, <1>b, <1>c DEF Progress, Placed
<1>4. InstalledIsWhole'
  BY <1>a, <1>b DEF InstalledIsWhole, Whole, Progress, TypeOK
<1>5. Agreement'
  BY <1>a, <1>b, <1>c DEF Agreement, Progress, Placed
<1>6. QED
  BY <1>1, <1>2, <1>3, <1>4, <1>5

LEMMA CleanStep ==
  ASSUME IInv, Clean PROVE IInv'
<1> USE DEF IInv, Clean, Next1, Leaves, NoFault, Fault
<1>a. job \in Jobs /\ job' \in Jobs /\ job'.flow = job.flow
      /\ job.flow \in FLOWS
  BY DEF TypeOK, Jobs
<1>b. Kind \in KINDS /\ Kind' = Kind /\ Holds' = Holds /\ Holds \in Releases
  BY <1>a DEF Kind, Holds, TypeOK, Pending
<1>d. /\ faults \in Nat /\ record \in [sha : Releases, version : Releases]
      /\ disk \in [KINDS -> Content] /\ inbox \in [FLOWS -> Content]
  BY DEF TypeOK
<1>c. /\ job'.at = "restart"
      /\ record'.sha = record.sha
      /\ Kind # "core" => record'.version = record.version
      /\ faults' = 0 => /\ faults = 0
                        /\ Kind = "core" => record'.version = Holds
  <2>1. job'.at = "restart"
    BY <1>a DEF Jobs
  <2>2. faults' = 0 => faults = 0
    BY <1>d
  <2>3. record' = record \/ record' = [record EXCEPT !.version = Holds]
    OBVIOUS
  <2>4. record'.sha = record.sha
    BY <2>3, <1>d
  <2>5. Kind # "core" => record' = record
    OBVIOUS
  <2>6. Kind = "core" /\ faults' = 0 => record'.version = Holds
    BY <1>d
  <2>7. QED
    BY <2>1, <2>2, <2>4, <2>5, <2>6
<1>1. TypeOK'
  <2>1. record' \in [sha : Releases, version : Releases]
    BY <1>b, <1>d
  <2>2. inbox' \in [FLOWS -> Content]
    BY <1>d DEF Content
  <2>3. faults' \in 0 .. MAX_FAULTS /\ left' \subseteq FLOWS
    BY <1>a DEF TypeOK
  <2>4. QED
    BY <1>a, <2>1, <2>2, <2>3 DEF TypeOK
<1>2. Pending'
  BY DEF Pending, TypeOK, Jobs
<1>3. Progress'
  BY <1>a, <1>b, <1>c DEF Progress, Placed
<1>4. InstalledIsWhole'
  BY <1>a, <1>b DEF InstalledIsWhole, Whole, Progress, TypeOK
<1>5. Agreement'
  BY <1>a, <1>b, <1>c DEF Agreement, Progress, Placed
<1>6. QED
  BY <1>1, <1>2, <1>3, <1>4, <1>5

LEMMA RestartStep ==
  ASSUME IInv, Restart PROVE IInv'
<1> USE DEF IInv, Restart, Next1, Fails, FailsEarly, Leaves, NoFault,
           Fault
<1>a. job \in Jobs /\ job' \in Jobs /\ job'.flow = job.flow
      /\ job.flow \in FLOWS
  BY DEF TypeOK, Jobs
<1>b. Kind \in KINDS /\ Kind' = Kind /\ Holds' = Holds /\ Holds \in Releases
  BY <1>a DEF Kind, Holds, TypeOK, Pending
<1>1. TypeOK'
  BY <1>a, <1>b DEF TypeOK, Content, Whole
<1>2. Pending'
  BY DEF Pending, TypeOK, Jobs
<1>3. Progress'
  BY <1>a, <1>b DEF Progress, Placed, TypeOK, Jobs
<1>4. InstalledIsWhole'
  BY <1>a, <1>b DEF InstalledIsWhole, Whole, Progress, TypeOK
<1>5. Agreement'
  BY <1>a, <1>b DEF Agreement, Progress, Placed, TypeOK, Jobs
<1>6. QED
  BY <1>1, <1>2, <1>3, <1>4, <1>5

LEMMA AnswerStep ==
  ASSUME IInv, Answer PROVE IInv'
<1> USE DEF IInv, Answer, Told
<1>1. TypeOK'
  BY DEF TypeOK, Jobs, Content, Whole, Releases, KINDS, MAX_ATTEMPTS
<1>2. Pending'
  BY DEF Pending, TypeOK, Jobs
<1>3. Progress'
  BY DEF Progress, Placed, Kind, Holds, Pending, TypeOK, Jobs
<1>4. InstalledIsWhole'
  BY DEF InstalledIsWhole, Whole, Progress, TypeOK, Jobs, Kind, Holds
<1>5. Agreement'
  BY DEF Agreement, Kind, TypeOK, Jobs, Pending
<1>6. QED
  BY <1>1, <1>2, <1>3, <1>4, <1>5

LEMMA CrashStep ==
  ASSUME IInv, Crash PROVE IInv'
<1> USE DEF IInv, Crash, Told, Leaves, Fault
<1>1. TypeOK'
  <2> DEFINE Flow == [at : {"new", "download", "write", "call", "ok", "failed"},
                      kind : KINDS, holds : Whole,
                      tries : 0 .. MAX_ATTEMPTS - 1]
  <2>1. ASSUME NEW f \in FLOWS PROVE flows'[f] \in Flow
    <3>1. flows[f] \in Flow
      BY DEF TypeOK
    <3>2. QED
      BY <3>1
  <2>2. flows' \in [FLOWS -> Flow]
    BY <2>1
  <2>3. faults' \in 0 .. MAX_FAULTS /\ left' \subseteq FLOWS
    BY DEF TypeOK
  <2>4. QED
    BY <2>2, <2>3 DEF TypeOK
<1>2. Pending'
  BY DEF Pending, TypeOK, Jobs
<1>3. Progress'
  BY DEF Progress, Placed, Kind, Holds, Pending, TypeOK, Jobs
<1>4. InstalledIsWhole'
  BY DEF InstalledIsWhole, Whole, Progress, TypeOK, Jobs, Kind, Holds
<1>5. Agreement'
  BY DEF Agreement, Kind, TypeOK, Jobs, Pending
<1>6. QED
  BY <1>1, <1>2, <1>3, <1>4, <1>5

-----------------------------------------------------------------------------
(* The core and the server of releases.                                    *)

LEMMA StartCoreStep ==
  ASSUME IInv, StartCore PROVE IInv'
<1> USE DEF IInv, StartCore
<1>1. TypeOK'
  BY DEF TypeOK, Jobs, Content, Whole, Releases, KINDS, MAX_ATTEMPTS
<1>2. Pending'
  BY DEF Pending, TypeOK, Jobs
<1>3. Progress'
  BY DEF Progress, Placed, Kind, Holds, Pending, TypeOK, Jobs
<1>4. InstalledIsWhole'
  BY DEF InstalledIsWhole, Whole, Progress, TypeOK, Jobs, Kind, Holds
<1>5. Agreement'
  BY DEF Agreement, Kind, TypeOK, Jobs, Pending
<1>6. QED
  BY <1>1, <1>2, <1>3, <1>4, <1>5

LEMMA CoreEndsStep ==
  ASSUME IInv, CoreEnds PROVE IInv'
<1> USE DEF IInv, CoreEnds
<1>1. TypeOK'
  BY DEF TypeOK, Jobs, Content, Whole, Releases, KINDS, MAX_ATTEMPTS
<1>2. Pending'
  BY DEF Pending, TypeOK, Jobs
<1>3. Progress'
  BY DEF Progress, Placed, Kind, Holds, Pending, TypeOK, Jobs
<1>4. InstalledIsWhole'
  BY DEF InstalledIsWhole, Whole, Progress, TypeOK, Jobs, Kind, Holds
<1>5. Agreement'
  BY DEF Agreement, Kind, TypeOK, Jobs, Pending
<1>6. QED
  BY <1>1, <1>2, <1>3, <1>4, <1>5

LEMMA PublishStep ==
  ASSUME IInv, Publish PROVE IInv'
<1> USE DEF IInv, Publish
<1>1. TypeOK'
  BY DEF TypeOK, Jobs, Content, Whole, Releases, KINDS, MAX_ATTEMPTS
<1>2. Pending'
  BY DEF Pending, TypeOK, Jobs
<1>3. Progress'
  BY DEF Progress, Placed, Kind, Holds, Pending, TypeOK, Jobs
<1>4. InstalledIsWhole'
  BY DEF InstalledIsWhole, Whole, Progress, TypeOK, Jobs, Kind, Holds
<1>5. Agreement'
  BY DEF Agreement, Kind, TypeOK, Jobs, Pending
<1>6. QED
  BY <1>1, <1>2, <1>3, <1>4, <1>5

-----------------------------------------------------------------------------
(* The whole.                                                              *)

LEMMA StutterStep ==
  ASSUME IInv, UNCHANGED vars PROVE IInv'
<1> USE DEF IInv, vars
<1>1. TypeOK' /\ Pending' /\ InstalledIsWhole'
  BY DEF TypeOK, Pending, InstalledIsWhole
<1>2. Progress' /\ Agreement'
  BY DEF Progress, Placed, Agreement, Kind, Holds
<1>3. QED
  BY <1>1, <1>2

LEMMA NextStep ==
  ASSUME IInv, Next PROVE IInv'
<1>1. ASSUME NEW f \in FLOWS, Client(f) \/ Task(f) \/ GiveUp(f) \/ Serve(f)
      PROVE  IInv'
  BY <1>1, UpgradeCoreStep, UpdateGeodataStep, OnCoreStatusStep,
     DownloadCoreStep, DownloadGeoStep, WriteInboxStep, GiveUpStep, ServeStep
  DEF Client, Task
<1>2. CASE Work
  BY <1>2, VerifyStep, CopyStep, CopiedStep, RenameStep, RecordShaStep,
     CleanStep, RestartStep, AnswerStep
  DEF Work
<1>3. CASE Crash \/ StartCore \/ CoreEnds \/ Publish
  BY <1>3, CrashStep, StartCoreStep, CoreEndsStep, PublishStep
<1>4. QED
  BY <1>1, <1>2, <1>3 DEF Next

LEMMA Invariance == Spec => []IInv
<1>1. IInv /\ [Next]_vars => IInv'
  BY NextStep, StutterStep
<1>2. QED
  BY InitIInv, <1>1, PTL DEF Spec

(* Every variable keeps its type, the release a flow holds and the steps   *)
(* of an install included.                                                 *)
THEOREM TypeInvariant == Spec => []TypeOK
<1>1. IInv => TypeOK
  BY DEF IInv
<1>2. QED
  BY Invariance, <1>1, PTL

(* For any number of flows, releases and faults: neither the installed     *)
(* files nor what the core was started from are ever a part of a file.     *)
THEOREM InstalledIsWholeAlways == Spec => []InstalledIsWhole
<1>1. IInv => InstalledIsWhole
  BY DEF IInv
<1>2. QED
  BY Invariance, <1>1, PTL

(* Without faults, between two installs records, binary and running core   *)
(* agree.                                                                  *)
THEOREM QuietAgreesAlways == Spec => []QuietAgrees
<1>1. IInv => QuietAgrees
  BY DEF IInv, Agreement, QuietAgrees
<1>2. QED
  BY Invariance, <1>1, PTL

(* The flow's own release is installed when it is told ok: only the answer *)
(* to its own request moves a flow on from its call, and an install that   *)
(* answers without an error has come through every step.                   *)
LEMMA AnswerOk ==
  ASSUME IInv, Answer, NEW f \in FLOWS, flows[f].at = "call",
         flows'[f].at = "ok" \/ flows'[f].kind # flows[f].kind
  PROVE  /\ disk'[flows[f].kind] = flows[f].holds
         /\ flows[f].kind = "core" => record'.sha = disk'["core"]
         /\ core' # Nothing => core'[flows[f].kind] = disk'[flows[f].kind]
<1>1. flows \in [FLOWS -> [at : {"new", "download", "write", "call", "ok",
                               "failed"},
                         kind : KINDS, holds : Whole,
                         tries : 0 .. MAX_ATTEMPTS - 1]]
  BY DEF IInv, TypeOK
<1>2. flows' = [flows EXCEPT ![job.flow] = Told(@, job.error)]
  BY DEF Answer
<1>3. job.flow = f
  BY <1>1, <1>2
<1>4. ~job.error
  <2>1. SUFFICES ASSUME job.error PROVE FALSE
    OBVIOUS
  <2>2. flows'[f] = [flows[f] EXCEPT !.at = "failed"]
    BY <1>1, <1>2, <1>3, <2>1 DEF Told
  <2>3. QED
    BY <1>1, <2>2
<1>5. /\ disk[Kind] = Holds
      /\ Kind = "core" => record.sha = Holds
      /\ core # Nothing => core = disk
  BY <1>4 DEF IInv, Progress, Placed, Answer
<1>6. QED
  BY <1>3, <1>5 DEF Answer, Kind, Holds

THEOREM OkMeansInstalledAlways == Spec => OkMeansInstalled
<1> DEFINE Installed(f) ==
      flows[f].at = "call" /\
      (flows'[f].at = "ok" \/ flows'[f].kind # flows[f].kind) =>
        LET k == flows[f].kind
        IN  /\ disk'[k] = flows[f].holds
            /\ k = "core" => record'.sha = disk'["core"]
            /\ core' # Nothing => core'[k] = disk'[k]
<1>1. IInv /\ [Next]_vars => [\A f \in FLOWS : Installed(f)]_vars
  <2> SUFFICES ASSUME IInv, Next, NEW f \in FLOWS PROVE Installed(f)
    BY DEF vars
  <2>1. flows \in [FLOWS -> [at : {"new", "download", "write", "call", "ok",
                                 "failed"},
                           kind : KINDS, holds : Whole,
                           tries : 0 .. MAX_ATTEMPTS - 1]]
    BY DEF IInv, TypeOK
  <2>2. CASE Answer
    BY <2>2, AnswerOk
  <2>3. CASE Crash
    <3>1. flows'[f] = flows[f] \/ flows'[f] = [flows[f] EXCEPT !.at = "failed"]
      BY <2>1, <2>3 DEF Crash, Told
    <3>2. QED
      BY <2>1, <3>1
  <2>4. CASE \E g \in FLOWS : Client(g) \/ Task(g) \/ GiveUp(g)
    <3>1. PICK g \in FLOWS : Client(g) \/ Task(g) \/ GiveUp(g)
      BY <2>4
    <3>2. CASE flows[g].at # "call"
      BY <2>1, <3>1, <3>2
      DEF Client, Task, GiveUp, UpgradeCore, UpdateGeodata, OnCoreStatus,
          Start, DownloadCore, DownloadGeo, WriteInbox, Goes
    <3>3. CASE GiveUp(g)
      BY <2>1, <3>3 DEF GiveUp, Goes
    <3>4. QED
      BY <3>1, <3>2, <3>3
      DEF Client, Task, UpgradeCore, UpdateGeodata, OnCoreStatus, Start,
          DownloadCore, DownloadGeo, WriteInbox
  <2>5. CASE flows' = flows
    BY <2>1, <2>5
  <2>6. QED
    BY <2>2, <2>3, <2>4, <2>5
    DEF Next, Work, Serve, Verify, Copy, Copied, Rename, RecordSha, Clean,
        Restart, StartCore, CoreEnds, Publish
<1>2. QED
  BY Invariance, <1>1, PTL DEF Spec, OkMeansInstalled
=============================================================================
