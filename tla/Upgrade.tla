-------------------------------- MODULE Upgrade --------------------------------
(***************************************************************************)
(* The in-dashboard upgrade (src/internal/upgrade).  The running service   *)
(* looks for a release, downloads and verifies its archive, stages it in   *)
(* the handoff directory and writes a request; the applier, a process that *)
(* systemd starts as root when the request appears, verifies everything    *)
(* again, swaps the binary, restarts the service and records a result.     *)
(*                                                                         *)
(* The two share nothing but the files of the directory, and each step     *)
(* that reads or changes a file is a step of its own.  The content of an   *)
(* archive, or of the binary in it, is the version and the build it was    *)
(* published as; an upload may be replaced, or hold the wrong binary.      *)
(***************************************************************************)
EXTENDS Versions, FiniteSets

CONSTANTS
  None,         \* no value
  Releases,     \* versions that are published in the course of a behaviour
  First,        \* the version that is installed at first
  Mispackaged,  \* contents whose binary does not report its version
  RetryAfter,   \* CheckRetryInterval
  CheckTTL,     \* how long a successful check is reused
  MaxBuilds,    \* bound on the uploads of an archive, of one version again
  MaxAttempts,  \* bound on the upgrades the dashboard asks for
  MaxFaults     \* bound on failing operations and crashes

ASSUME UpgradeAssumption ==
  /\ Releases \subseteq Version /\ First \in Version /\ None \notin Version \cup Nat
  /\ RetryAfter \in Nat /\ CheckTTL \in Nat /\ RetryAfter <= CheckTTL
  /\ MaxBuilds \in Nat \ {0} /\ MaxAttempts \in Nat /\ MaxFaults \in Nat

Attempts == 1..MaxAttempts   \* in the order in which they begin
Targets == {v \in Releases : IsStable(v)}
Content == [of : Releases \cup {First}, build : 0..MaxBuilds]
Background == 0   \* holds runMu for a check that Status has started
Partial == [of |-> None, build |-> 0]

VARIABLES
  source,     \* what the release endpoint answers: a version, or None
  build,      \* the upload of each version that its checksums list now
  request,    \* request.json: the target, and the attempt that wrote it
  result,     \* result.json
  staged,     \* the archive of each version under its final name
  part,       \* and under its partial name
  binary,     \* the installed binary
  backup,     \* the rollback copy next to it
  running,    \* the binary the service runs
  check,      \* the Checker: latest, err, attempted, and the age of that
  checking,   \* who holds Checker.runMu
  preparing,  \* Manager.preparing
  prep,       \* the Prepare of each attempt
  apply,      \* the applier; `swapped' is history: it has replaced the binary
  cleared,    \* history: the last attempt that has cleared the directory
  faults      \* history: failures so far

github  == <<source, build>>
files   == <<request, result, staged, part>>
install == <<binary, backup>>
checker == <<check, checking>>
manager == <<preparing, prep>>
vars    == <<github, files, install, running, checker, manager, apply, cleared, faults>>

NotChecked == [latest |-> None, err |-> FALSE, attempted |-> FALSE, age |-> 0]
NoPrepare  == [at |-> "new", target |-> None, want |-> None, got |-> None]
NoApply    == [at |-> "off", installed |-> None, target |-> None, attempt |-> 0,
               want |-> None, handle |-> None, swapped |-> FALSE, outcome |-> None]

Init ==
  /\ source = None /\ build = [v \in Targets |-> 1]
  /\ request = None /\ result = None
  /\ staged = [v \in Targets |-> None] /\ part = staged
  /\ binary = [of |-> First, build |-> 0] /\ running = binary /\ backup = None
  /\ check = NotChecked /\ checking = None
  /\ preparing = FALSE /\ prep = [p \in Attempts |-> NoPrepare]
  /\ apply = NoApply
  /\ cleared = 0 /\ faults = 0

Fault   == faults < MaxFaults /\ faults' = faults + 1
NoFault == UNCHANGED faults

----------------------------------------------------------------------------
(* The release check.                                                       *)
Due ==
  \/ ~check.attempted
  \/ check.age >= (IF check.err \/ check.latest = None THEN RetryAfter ELSE CheckTTL)

Ask(who) ==
  /\ checking' = who
  /\ check' = [check EXCEPT !.attempted = TRUE, !.age = 0]

(* Manager.Status: EnsureFresh starts a check in the background, if one is  *)
(* due and none runs.                                                       *)
Status ==
  /\ checking = None /\ Due
  /\ Ask(Background)
  /\ UNCHANGED <<github, files, install, running, manager, apply, cleared, faults>>

(* What Source.Latest makes of an answer: only a published stable release.  *)
Usable(answer) == answer # None /\ IsStable(answer)

(* The end of runCheck.  A failure keeps what was known.                    *)
Known ==
  \/ Usable(source) /\ NoFault /\ check' = [check EXCEPT !.latest = source, !.err = FALSE]
  \/ ~Usable(source) /\ NoFault /\ check' = [check EXCEPT !.err = TRUE]
  \/ Fault /\ check' = [check EXCEPT !.err = TRUE]

Checked ==
  /\ checking = Background
  /\ Known
  /\ checking' = None
  /\ UNCHANGED <<github, files, install, running, manager, apply, cleared>>

----------------------------------------------------------------------------
(* Manager.Prepare.                                                         *)
Done == [NoPrepare EXCEPT !.at = "done"]

Leave(p) ==
  /\ preparing' = FALSE
  /\ prep' = [prep EXCEPT ![p] = Done]

Goto(p, at) == prep' = [prep EXCEPT ![p].at = at]

(* A mutant: the slot is not looked at.                                     *)
FreeAlways == TRUE

(* beginPrepare and Detect.                                                 *)
Free == ~preparing

Begin(p) ==
  /\ prep[p].at = "new" /\ \A q \in 1..(p - 1) : prep[q].at # "new"
  /\ IF Free THEN preparing' = TRUE /\ Goto(p, "check")
     ELSE prep' = [prep EXCEPT ![p] = Done] /\ UNCHANGED preparing
  /\ UNCHANGED <<github, files, install, running, checker, apply, cleared, faults>>

(* A mutant: a check that is under way is not waited for.                   *)
RefreshUnlessBusy(p) ==
  /\ prep[p].at = "check"
  /\ IF Due /\ checking = None THEN Ask(p) /\ Goto(p, "asking") ELSE Goto(p, "decide") /\ UNCHANGED checker
  /\ UNCHANGED <<github, files, install, running, preparing, apply, cleared, faults>>

(* Refresh waits for runMu, and asks if a check is due.                     *)
Refresh(p) ==
  /\ prep[p].at = "check" /\ checking = None
  /\ IF Due THEN Ask(p) /\ Goto(p, "asking") ELSE Goto(p, "decide") /\ UNCHANGED checker
  /\ UNCHANGED <<github, files, install, running, preparing, apply, cleared, faults>>

Refreshed(p) ==
  /\ prep[p].at = "asking"
  /\ Known
  /\ checking' = None
  /\ Goto(p, "decide")
  /\ UNCHANGED <<github, files, install, running, preparing, apply, cleared>>

(* The snapshot says what the target is, if any.                            *)
Decide(p) ==
  /\ prep[p].at = "decide"
  /\ IF check.latest # None /\ IsUpgrade(running.of, check.latest)
     THEN /\ prep' = [prep EXCEPT ![p].at = "clear", ![p].target = check.latest]
          /\ UNCHANGED preparing
     ELSE Leave(p)
  /\ UNCHANGED <<github, files, install, running, checker, apply, cleared, faults>>

ClearResult(p) ==
  /\ prep[p].at = "clear"
  /\ result' = None
  /\ Goto(p, "unrequest")
  /\ UNCHANGED <<github, request, staged, part, install, running, checker, preparing, apply, cleared, faults>>

ClearRequest(p) ==
  /\ prep[p].at = "unrequest"
  /\ request' = None
  /\ cleared' = p
  /\ Goto(p, "prune")
  /\ UNCHANGED <<github, result, staged, part, install, running, checker, preparing, apply, faults>>

(* pruneStagedArchives keeps the archive of the target.                     *)
Prune(p) ==
  /\ prep[p].at = "prune"
  /\ staged' = [v \in Targets |-> IF v = prep[p].target THEN staged[v] ELSE None]
  /\ part' = [v \in Targets |-> None]
  /\ Goto(p, "download")
  /\ UNCHANGED <<github, request, result, install, running, checker, preparing, apply, cleared, faults>>

(* DownloadArchive: the checksums are read, the archive is written under    *)
(* its partial name, verified, and gets its final name.                     *)
Download(p) ==
  LET v == prep[p].target IN
  /\ prep[p].at = "download"
  /\ prep' = [prep EXCEPT ![p].at = "downloading", ![p].want = [of |-> v, build |-> build[v]]]
  /\ part' = [part EXCEPT ![v] = Partial]
  /\ UNCHANGED <<github, request, result, staged, install, running, checker, preparing, apply, cleared, faults>>

Downloaded(p) ==
  LET v == prep[p].target IN
  /\ prep[p].at = "downloading"
  /\ \/ /\ prep' = [prep EXCEPT ![p].at = "stage", ![p].got = [of |-> v, build |-> build[v]]]
        /\ part' = [part EXCEPT ![v] = [of |-> v, build |-> build[v]]]
        /\ NoFault /\ UNCHANGED preparing
     \/ /\ Fault
        /\ part' = [part EXCEPT ![v] = None]
        /\ Leave(p)
  /\ UNCHANGED <<github, request, result, staged, install, running, checker, apply, cleared>>

Stage(p) ==
  LET v == prep[p].target IN
  /\ prep[p].at = "stage"
  /\ part' = [part EXCEPT ![v] = None]
  /\ IF prep[p].want = prep[p].got
     THEN /\ staged' = [staged EXCEPT ![v] = part[v]]
          /\ prep' = [prep EXCEPT ![p].at = "request", ![p].want = None, ![p].got = None]
          /\ UNCHANGED preparing
     ELSE UNCHANGED staged /\ Leave(p)
  /\ UNCHANGED <<github, request, result, install, running, checker, apply, cleared, faults>>

(* WriteRequest: under a temporary name, then renamed.                      *)
WriteRequest(p) ==
  /\ prep[p].at = "request"
  /\ request' = [target |-> prep[p].target, attempt |-> p]
  /\ Leave(p)
  /\ UNCHANGED <<github, result, staged, part, install, running, checker, apply, cleared, faults>>

(* Any operation may fail, and the caller may go away, which ends the       *)
(* Prepare where it stands.                                                 *)
PrepareFails(p) ==
  /\ prep[p].at \in {"clear", "unrequest", "prune", "download", "stage", "request"}
  /\ Fault
  /\ Leave(p)
  /\ UNCHANGED <<github, files, install, running, checker, apply, cleared>>

PrepareStep(p) ==
  \/ Refresh(p) \/ Refreshed(p) \/ Decide(p) \/ ClearResult(p) \/ ClearRequest(p) \/ Prune(p)
  \/ Download(p) \/ Downloaded(p) \/ Stage(p) \/ WriteRequest(p) \/ PrepareFails(p)

----------------------------------------------------------------------------
(* The applier.  The path unit starts the installed binary while there is a *)
(* request.                                                                 *)
Activate ==
  /\ apply.at = "off" /\ request # None
  /\ apply' = [NoApply EXCEPT !.at = "read", !.installed = binary.of]
  /\ UNCHANGED <<github, files, install, running, checker, manager, cleared, faults>>

Report(outcome) == apply' = [NoApply EXCEPT !.at = "report", !.outcome = outcome,
                                              !.target = apply.target, !.attempt = apply.attempt,
                                              !.swapped = apply.swapped]
Refuse == Report("failed")

ReadRequest ==
  /\ apply.at = "read"
  /\ \/ request = None /\ NoFault /\ apply' = NoApply /\ UNCHANGED request
     \/ /\ request # None /\ NoFault
        /\ apply' = [apply EXCEPT !.at = "remove", !.target = request.target, !.attempt = request.attempt]
        /\ UNCHANGED request
     \/ request # None /\ Fault /\ request' = None /\ Refuse
  /\ UNCHANGED <<github, result, staged, part, install, running, checker, manager, cleared>>

(* A mutant: the request is left for the end of a successful run.           *)
RemoveRequestLater ==
  /\ apply.at = "remove"
  /\ NoFault /\ apply' = [apply EXCEPT !.at = "judge"]
  /\ UNCHANGED <<github, files, install, running, checker, manager, cleared>>

(* The request is consumed before any work starts.                          *)
RemoveRequest ==
  /\ apply.at = "remove"
  /\ \/ NoFault /\ request' = None /\ apply' = [apply EXCEPT !.at = "judge"]
     \/ Fault /\ UNCHANGED request /\ Refuse
  /\ UNCHANGED <<github, result, staged, part, install, running, checker, manager, cleared>>

(* A mutant: any version but the installed one.                             *)
NewEnoughIfOther == apply.target # apply.installed

NewEnough == Compare(apply.target, apply.installed) > 0

Judge ==
  /\ apply.at = "judge"
  /\ IF NewEnough THEN apply' = [apply EXCEPT !.at = "digest", !.installed = None] ELSE Refuse
  /\ UNCHANGED <<github, files, install, running, checker, manager, cleared, faults>>

(* resolveInstallPath and publishedDigest: the checksums are read again.    *)
PublishedDigest ==
  /\ apply.at = "digest"
  /\ \/ NoFault /\ apply' = [apply EXCEPT !.at = "open",
                                          !.want = [of |-> apply.target, build |-> build[apply.target]]]
     \/ Fault /\ Refuse
  /\ UNCHANGED <<github, files, install, running, checker, manager, cleared>>

OpenStagedArchive ==
  /\ apply.at = "open"
  /\ IF staged[apply.target] = None THEN Refuse
     ELSE apply' = [apply EXCEPT !.at = "verify", !.handle = staged[apply.target]]
  /\ UNCHANGED <<github, files, install, running, checker, manager, cleared, faults>>

(* A mutant: only the version is looked at.                                 *)
VerifiedVersion == apply.handle \notin Mispackaged

(* extractVerifiedBinary: the digest of the bytes that were extracted, and  *)
(* the version the new binary reports.                                      *)
Verified == apply.handle = apply.want /\ apply.handle \notin Mispackaged

Extract ==
  /\ apply.at = "verify"
  /\ \/ Verified /\ NoFault /\ apply' = [apply EXCEPT !.at = "backup"]
     \/ ~Verified /\ NoFault /\ Refuse
     \/ Fault /\ Refuse
  /\ UNCHANGED <<github, files, install, running, checker, manager, cleared>>

(* A mutant: a copy that is there already is kept.                          *)
CopyOnce == IF backup = None THEN binary ELSE backup

Copy == binary

Backup ==
  /\ apply.at = "backup"
  /\ \/ NoFault /\ backup' = Copy /\ apply' = [apply EXCEPT !.at = "swap"]
     \/ Fault /\ UNCHANGED backup /\ Refuse
  /\ UNCHANGED <<github, files, binary, running, checker, manager, cleared>>

Swap ==
  /\ apply.at = "swap"
  /\ \/ /\ NoFault
        /\ binary' = apply.handle
        /\ apply' = [apply EXCEPT !.at = "clean", !.swapped = TRUE, !.want = None, !.handle = None]
     \/ Fault /\ Refuse /\ UNCHANGED binary
  /\ UNCHANGED <<github, files, backup, running, checker, manager, cleared>>

(* A mutant: the run is refused if it does not.                             *)
CleanOrRefuse ==
  /\ apply.at = "clean"
  /\ \/ /\ NoFault /\ staged' = [staged EXCEPT ![apply.target] = None]
        /\ apply' = [apply EXCEPT !.at = "restart"]
     \/ Fault /\ UNCHANGED staged /\ Refuse
  /\ UNCHANGED <<github, request, result, part, install, running, checker, manager, cleared>>

(* The archive is removed, whether that works or not.                       *)
Clean ==
  /\ apply.at = "clean"
  /\ \/ NoFault /\ staged' = [staged EXCEPT ![apply.target] = None]
     \/ Fault /\ UNCHANGED staged
  /\ apply' = [apply EXCEPT !.at = "restart"]
  /\ UNCHANGED <<github, request, result, part, install, running, checker, manager, cleared>>

(* A new process of the service begins with nothing in memory.              *)
ServiceStarts ==
  /\ running' = binary
  /\ check' = NotChecked /\ checking' = None
  /\ preparing' = FALSE /\ prep' = [p \in Attempts |-> IF prep[p].at = "new" THEN NoPrepare ELSE Done]

Restart ==
  /\ apply.at = "restart"
  /\ \/ NoFault /\ ServiceStarts /\ Report("succeeded")
     \/ Fault /\ UNCHANGED <<running, checker, manager>> /\ Report("restart_required")
  /\ UNCHANGED <<github, files, install, cleared>>

WriteResult ==
  /\ apply.at = "report"
  /\ \/ NoFault /\ result' = [status |-> apply.outcome, target |-> apply.target,
                                 attempt |-> apply.attempt, swapped |-> apply.swapped]
     \/ Fault /\ UNCHANGED result
  /\ apply' = NoApply
  /\ UNCHANGED <<github, request, staged, part, install, running, checker, manager, cleared>>

ApplyStep ==
  \/ Activate \/ ReadRequest \/ RemoveRequest \/ Judge \/ PublishedDigest \/ OpenStagedArchive
  \/ Extract \/ Backup \/ Swap \/ Clean \/ Restart \/ WriteResult

----------------------------------------------------------------------------
(* The service ends and systemd starts it again; the machine goes down, and *)
(* the applier with it.                                                     *)
ServiceCrash ==
  /\ Fault
  /\ ServiceStarts
  /\ UNCHANGED <<github, files, install, apply, cleared>>

Reboot ==
  /\ apply.at # "off" /\ Fault
  /\ ServiceStarts
  /\ apply' = NoApply
  /\ UNCHANGED <<github, files, install, cleared>>

(* The project publishes or withdraws a release, or uploads one again.      *)
Publish ==
  /\ source' \in (Releases \cup {None}) \ {source}
  /\ UNCHANGED <<build, files, install, running, checker, manager, apply, cleared, faults>>

Upload ==
  /\ \E v \in Targets :
       /\ build[v] < MaxBuilds /\ \A w \in Targets \ {v} : build[w] = 1
       /\ build' = [build EXCEPT ![v] = @ + 1]
  /\ UNCHANGED <<source, files, install, running, checker, manager, apply, cleared, faults>>

Tick ==
  /\ check.attempted
  /\ check' = [check EXCEPT !.age = IF @ < CheckTTL THEN @ + 1 ELSE @]
  /\ UNCHANGED <<github, files, install, running, checking, manager, apply, cleared, faults>>

Next ==
  \/ Status \/ Checked
  \/ \E p \in Attempts : Begin(p) \/ PrepareStep(p)
  \/ ApplyStep
  \/ ServiceCrash \/ Reboot
  \/ Publish \/ Upload \/ Tick

Spec == Init /\ [][Next]_vars

(* systemd starts the applier while its path condition holds, and processes *)
(* run.                                                                     *)
Fairness == WF_vars(ApplyStep) /\ \A p \in Attempts : WF_vars(PrepareStep(p))

LiveSpec == Spec /\ Fairness

----------------------------------------------------------------------------
Outcomes == {"succeeded", "restart_required", "failed"}

TypeOK ==
  /\ source \in Releases \cup {None} /\ build \in [Targets -> 1..MaxBuilds]
  /\ request = None \/ request \in [target : Targets, attempt : Attempts]
  /\ result = None \/ result.status \in Outcomes
  /\ \A v \in Targets : staged[v] \in Content \cup {None} /\ part[v] \in Content \cup {None, Partial}
  /\ binary \in Content /\ running \in Content /\ backup \in Content \cup {None}
  /\ check.latest \in Targets \cup {None} /\ check.age \in 0..CheckTTL
  /\ checking = None \/ checking \in Attempts \cup {Background}

(* "An unverified archive never remains under the name the privileged       *)
(* applier looks for" (DownloadArchive), whatever crashes, overlaps or is   *)
(* uploaded again: what is staged is a whole archive of its version.        *)
StagedIsVerified ==
  /\ TypeOK
  /\ \A v \in Targets : staged[v] # None => staged[v].of = v /\ staged[v].build \in 1..build[v]

(* Only a stable release newer than the binary it replaces is ever          *)
(* installed, and only as the applier's own checksums list it, although the *)
(* request and the archive were written by another process, at another      *)
(* time, and perhaps for another binary; and "the binary being replaced is  *)
(* kept next to the install path for rollback", however often an applier    *)
(* was stopped on its way.                                                  *)
SwapsAreSafe ==
  [][binary' # binary =>
       /\ IsUpgrade(binary.of, binary'.of)
       /\ binary' = apply.want /\ binary' \notin Mispackaged
       /\ backup' = binary]_vars

(* What the dashboard is told is true: after "failed" the run has           *)
(* installed nothing, after "restart_required" it has, and after            *)
(* "succeeded" the service runs what it installed, or something newer.      *)
ResultIsTrue ==
  result # None =>
    CASE result.status = "failed" -> ~result.swapped
      [] result.status = "restart_required" -> result.swapped
      [] result.status = "succeeded" ->
           result.swapped /\ Compare(running.of, result.target) >= 0

(* The release endpoint is asked at most once in RetryAfter, however often  *)
(* the dashboard asks for the status or begins an upgrade and whatever the  *)
(* answer is; and an upgrade is refused for want of a release only after a  *)
(* check that really failed, never because one is under way.                *)
ChecksArePaced ==
  [][/\ checking' # None /\ checking' # checking => ~check.attempted \/ check.age >= RetryAfter
     /\ \A p \in Attempts : prep[p].at = "decide" /\ check.latest = None => check.err]_vars

(* A request is consumed: whether it is applied, refused or interrupted, it *)
(* does not start the applier forever.                                      *)
RequestsEnd == request # None ~> request = None

(* "The dashboard cannot show a stale result as this attempt's" (Prepare):  *)
(* once an attempt has cleared the directory, no older one writes a result. *)
NoStaleResult == result # None => result.attempt >= cleared

=============================================================================
