----------------------------- MODULE UpgradeProofs -----------------------------
(***************************************************************************)
(* Theorems about Upgrade: what is staged is verified, what is installed   *)
(* is newer and as published, what is reported is true, and the release    *)
(* endpoint is asked at a pace, for any releases, uploads and attempts and *)
(* any number of failures and crashes.                                     *)
(***************************************************************************)
EXTENDS Upgrade, TLAPS

PrepSteps == {"new", "check", "asking", "decide", "clear", "unrequest", "prune", "download", "downloading",
              "stage", "request", "done"}
Active    == PrepSteps \ {"new", "done"}
Targeted  == {"clear", "unrequest", "prune", "download", "downloading", "stage", "request"}

ApplySteps == {"off", "read", "remove", "judge", "digest", "open", "verify", "backup", "swap", "clean",
               "restart", "report"}

CheckType  == [latest : Targets \cup {None}, err : BOOLEAN, attempted : BOOLEAN, age : 0..CheckTTL]
PrepType   == [at : PrepSteps, target : Targets \cup {None}, want : Content \cup {None},
               got : Content \cup {None}]
ApplyType  == [at : ApplySteps, installed : Releases \cup {First, None}, target : Targets \cup {None},
               attempt : {0} \cup Attempts, want : Content \cup {None}, handle : Content \cup {None},
               swapped : BOOLEAN, outcome : Outcomes \cup {None}]
ResultType == [status : Outcomes, target : Targets \cup {None}, attempt : {0} \cup Attempts, swapped : BOOLEAN]

Types ==
  /\ source \in Releases \cup {None} /\ build \in [Targets -> 1..MaxBuilds]
  /\ request \in [target : Targets, attempt : Attempts] \cup {None}
  /\ result \in ResultType \cup {None}
  /\ staged \in [Targets -> Content \cup {None}]
  /\ part \in [Targets -> Content \cup {None, Partial}]
  /\ binary \in Content /\ running \in Content /\ backup \in Content \cup {None}
  /\ check \in CheckType
  /\ checking \in Attempts \cup {Background, None}
  /\ prep \in [Attempts -> PrepType]
  /\ apply \in ApplyType

(* A content that was published as version v, after b uploads of each.       *)
IsUpload(c, v, b) == c.of = v /\ c.build \in 1..b[v]

(* One attempt at most is under way, it has a target from the check on, and *)
(* what it has downloaded is under the partial name of its target.          *)
PrepInv ==
  /\ \A p \in Attempts : prep[p].at \in Active => preparing = TRUE
  /\ \A p, q \in Attempts : prep[p].at \in Active /\ prep[q].at \in Active => p = q
  /\ \A p \in Attempts : prep[p].at \in Targeted => prep[p].target \in Targets
  /\ \A p \in Attempts : prep[p].at = "stage" =>
       /\ part[prep[p].target] = prep[p].got
       /\ prep[p].got # None => IsUpload(prep[p].got, prep[p].target, build)

StagedInv == \A v \in Targets : staged[v] # None => IsUpload(staged[v], v, build)

(* How far the applier has got, and what it knows by then of the binary.    *)
ApplyInv ==
  /\ apply.at \notin {"off", "read", "report"} => apply.target \in Targets
  /\ apply.at \in {"read", "remove", "judge"} => apply.installed = binary.of
  /\ apply.at \in {"digest", "open", "verify", "backup", "swap"} => Compare(apply.target, binary.of) > 0
  /\ apply.at \in {"open", "verify", "backup", "swap"} => apply.want \in Content /\ apply.want.of = apply.target
  /\ apply.at \in {"backup", "swap"} => apply.handle = apply.want /\ apply.handle \notin Mispackaged
  /\ apply.at = "swap" => backup = binary
  /\ apply.at \in {"clean", "restart"} => binary.of = apply.target
  /\ apply.at \notin {"clean", "restart", "report"} => apply.swapped = FALSE
  /\ apply.at \in {"clean", "restart"} => apply.swapped = TRUE
  /\ apply.at = "report" => apply.outcome \in Outcomes /\ apply.swapped = (apply.outcome # "failed")

(* What is installed and what runs are at least version v.                  *)
Reached(v, installed, runs) ==
  /\ v \in Targets /\ installed \in Targets
  /\ Compare(installed, v) >= 0 /\ Compare(runs, v) >= 0

ResultInv ==
  /\ apply.at = "report" /\ apply.outcome = "succeeded" => Reached(apply.target, binary.of, running.of)
  /\ result # None => result.swapped = (result.status # "failed")
  /\ result # None /\ result.status = "succeeded" => Reached(result.target, binary.of, running.of)

(* After a check that ended, either a release is known or it failed.        *)
CheckInv ==
  /\ check.attempted /\ checking = None /\ check.latest = None => check.err
  /\ \A p \in Attempts : prep[p].at = "decide" /\ check.latest = None => check.err

Inv == Types /\ PrepInv /\ StagedInv /\ ApplyInv /\ ResultInv /\ CheckInv

-----------------------------------------------------------------------------
(* Stable versions are ordered by their three numbers.                      *)

LEMMA CompareStable ==
  ASSUME NEW a \in Version, NEW b \in Version, IsStable(a), IsStable(b)
  PROVE  Compare(a, b) = IF a.major # b.major THEN CompareInt(a.major, b.major)
                         ELSE IF a.minor # b.minor THEN CompareInt(a.minor, b.minor)
                         ELSE CompareInt(a.patch, b.patch)
<1>1. ComparePrerelease(a.pre, b.pre) = 0
  <2>1. \A x, y : x = y => ComparePrerelease(x, y) = 0
    BY DEF ComparePrerelease
  <2>2. a.pre = b.pre
    BY DEF IsStable
  <2> QED BY <2>1, <2>2
<1>2. a.patch = b.patch /\ a.patch \in Nat => CompareInt(a.patch, b.patch) = 0
  BY DEF CompareInt
<1> QED
  BY <1>1, <1>2 DEF Compare, Version

LEMMA AtLeastIsTransitive ==
  ASSUME NEW a \in Targets, NEW b \in Targets, NEW c \in Targets, Compare(a, b) >= 0, Compare(b, c) >= 0
  PROVE  Compare(a, c) >= 0
<1>1. /\ a \in Version /\ b \in Version /\ c \in Version
      /\ IsStable(a) /\ IsStable(b) /\ IsStable(c)
  BY UpgradeAssumption DEF Targets
<1>2. \A v \in {a, b, c} : v.major \in Nat /\ v.minor \in Nat /\ v.patch \in Nat
  BY <1>1 DEF Version
<1> DEFINE C(x, y) == IF x.major # y.major THEN CompareInt(x.major, y.major)
                      ELSE IF x.minor # y.minor THEN CompareInt(x.minor, y.minor)
                      ELSE CompareInt(x.patch, y.patch)
<1>3. C(a, b) >= 0 /\ C(b, c) >= 0 /\ Compare(a, c) = C(a, c)
  BY <1>1, CompareStable
<1>4. \A x, y \in Nat : CompareInt(x, y) >= 0 <=> x >= y
  BY DEF CompareInt
<1>5. \A x, y \in Nat : CompareInt(x, y) \in {-1, 0, 1}
  BY DEF CompareInt
<1> QED
  BY <1>2, <1>3, <1>4, <1>5

LEMMA CompareSelf ==
  ASSUME NEW v \in Targets
  PROVE  Compare(v, v) = 0
<1>1. v \in Version /\ v.patch \in Nat
  BY UpgradeAssumption DEF Targets, Version
<1>2. CompareInt(v.patch, v.patch) = 0
  BY <1>1 DEF CompareInt
<1> QED
  BY <1>1, <1>2, CompareStable DEF Targets

LEMMA CompareIsInt ==
  ASSUME NEW a \in Version, NEW b \in Version
  PROVE  Compare(a, b) \in {-1, 0, 1}
<1>1. \A x, y : CompareInt(x, y) \in {-1, 0, 1}
  BY DEF CompareInt
<1>2. \A x, y : CompareIdentifier(x, y) \in {-1, 0, 1}
  BY <1>1 DEF CompareIdentifier
<1>3. \A x, y : ComparePrerelease(x, y) \in {-1, 0, 1}
  BY <1>1, <1>2 DEF ComparePrerelease
<1> QED
  BY <1>1, <1>3 DEF Compare

LEMMA InvInit == Init => Inv
<1> SUFFICES ASSUME Init PROVE Inv
  OBVIOUS
<1> USE UpgradeAssumption DEF Init
<1>1. Types
  <2>1. /\ source \in Releases \cup {None} /\ build \in [Targets -> 1..MaxBuilds]
        /\ request \in [target : Targets, attempt : Attempts] \cup {None}
        /\ result \in ResultType \cup {None}
        /\ staged \in [Targets -> Content \cup {None}]
        /\ part \in [Targets -> Content \cup {None, Partial}]
    OBVIOUS
  <2>2. binary \in Content /\ running \in Content /\ backup \in Content \cup {None}
    BY DEF Content
  <2>3. check \in CheckType
    BY DEF CheckType, NotChecked
  <2>4. NoPrepare \in PrepType
    BY DEF PrepType, PrepSteps, NoPrepare
  <2>5. prep \in [Attempts -> PrepType]
    BY <2>4
  <2>6. apply \in ApplyType
    BY DEF ApplyType, ApplySteps, NoApply
  <2> QED BY <2>1, <2>2, <2>3, <2>5, <2>6 DEF Types
<1>2. PrepInv
  BY DEF PrepInv, NoPrepare, Active, Targeted
<1>3. StagedInv
  BY DEF StagedInv
<1>4. ApplyInv
  BY DEF ApplyInv, NoApply
<1>5. ResultInv
  BY DEF ResultInv, NoApply
<1>6. CheckInv
  BY DEF CheckInv, NotChecked, NoPrepare
<1> QED
  BY <1>1, <1>2, <1>3, <1>4, <1>5, <1>6 DEF Inv

-----------------------------------------------------------------------------
(* Who changes what: every other step leaves the variable alone.            *)

Starts == Restart \/ ServiceCrash \/ Reboot

Changed ==
  /\ UNCHANGED source \/ Publish
  /\ UNCHANGED build \/ Upload
  /\ UNCHANGED request \/ (\E p \in Attempts : ClearRequest(p) \/ WriteRequest(p))
                       \/ ReadRequest \/ RemoveRequest
  /\ UNCHANGED result \/ (\E p \in Attempts : ClearResult(p)) \/ WriteResult
  /\ UNCHANGED staged \/ (\E p \in Attempts : Prune(p) \/ Stage(p)) \/ Clean
  /\ UNCHANGED part \/ (\E p \in Attempts : Prune(p) \/ Download(p) \/ Downloaded(p) \/ Stage(p))
  /\ UNCHANGED binary \/ Swap
  /\ UNCHANGED backup \/ Backup
  /\ UNCHANGED running \/ Starts
  /\ UNCHANGED checker \/ Status \/ Checked \/ Tick \/ Starts
                       \/ (\E p \in Attempts : Refresh(p) \/ Refreshed(p))
  /\ UNCHANGED manager \/ Starts \/ (\E p \in Attempts : Begin(p) \/ PrepareStep(p))
  /\ UNCHANGED apply \/ ApplyStep \/ Reboot

LEMMA NextChanges == Next => Changed
<1> SUFFICES ASSUME Next PROVE Changed
  OBVIOUS
<1> USE DEF Changed, Starts, github, files, install, checker, manager, ApplyStep, PrepareStep
<1>1. CASE Status
  BY <1>1 DEF Status
<1>2. CASE Checked
  BY <1>2 DEF Checked
<1>3. CASE ServiceCrash
  BY <1>3 DEF ServiceCrash
<1>4. CASE Reboot
  BY <1>4 DEF Reboot
<1>5. CASE Publish
  BY <1>5 DEF Publish
<1>6. CASE Upload
  BY <1>6 DEF Upload
<1>7. CASE Tick
  BY <1>7 DEF Tick
<1>8. CASE Activate
  BY <1>8 DEF Activate
<1>9. CASE ReadRequest
  BY <1>9 DEF ReadRequest
<1>10. CASE RemoveRequest
  BY <1>10 DEF RemoveRequest
<1>11. CASE Judge
  BY <1>11 DEF Judge
<1>12. CASE PublishedDigest
  BY <1>12 DEF PublishedDigest
<1>13. CASE OpenStagedArchive
  BY <1>13 DEF OpenStagedArchive
<1>14. CASE Extract
  BY <1>14 DEF Extract
<1>15. CASE Backup
  BY <1>15 DEF Backup
<1>16. CASE Swap
  BY <1>16 DEF Swap
<1>17. CASE Clean
  BY <1>17 DEF Clean
<1>18. CASE Restart
  BY <1>18 DEF Restart
<1>19. CASE WriteResult
  BY <1>19 DEF WriteResult
<1>20. ASSUME NEW p \in Attempts, Begin(p) \/ PrepareStep(p) PROVE Changed
  <2>1. CASE Begin(p)
    BY <2>1 DEF Begin
  <2>2. CASE Refresh(p)
    BY <2>2 DEF Refresh
  <2>3. CASE Refreshed(p)
    BY <2>3 DEF Refreshed
  <2>4. CASE Decide(p)
    BY <2>4 DEF Decide
  <2>5. CASE ClearResult(p)
    BY <2>5 DEF ClearResult
  <2>6. CASE ClearRequest(p)
    BY <2>6 DEF ClearRequest
  <2>7. CASE Prune(p)
    BY <2>7 DEF Prune
  <2>8. CASE Download(p)
    BY <2>8 DEF Download
  <2>9. CASE Downloaded(p)
    BY <2>9 DEF Downloaded
  <2>10. CASE Stage(p)
    BY <2>10 DEF Stage
  <2>11. CASE WriteRequest(p)
    BY <2>11 DEF WriteRequest
  <2>12. CASE PrepareFails(p)
    BY <2>12 DEF PrepareFails
  <2> QED BY <1>20, <2>1, <2>2, <2>3, <2>4, <2>5, <2>6, <2>7, <2>8, <2>9, <2>10, <2>11, <2>12
<1> QED BY <1>1, <1>2, <1>3, <1>4, <1>5, <1>6, <1>7, <1>8, <1>9, <1>10, <1>11, <1>12, <1>13, <1>14, <1>15, <1>16, <1>17, <1>18, <1>19, <1>20 DEF Next

-----------------------------------------------------------------------------
(* Types.                                                                   *)

LEMMA UploadsAreContent ==
  ASSUME Types, NEW v \in Targets
  PROVE  /\ v \in Releases /\ build[v] \in 1..MaxBuilds
         /\ [of |-> v, build |-> build[v]] \in Content
<1> USE UpgradeAssumption
<1>1. v \in Releases /\ build[v] \in 1..MaxBuilds
  BY DEF Types, Targets
<1> QED BY <1>1 DEF Content

LEMMA KnownKeepsType ==
  ASSUME Types, Known
  PROVE  check' \in CheckType
<1>1. Usable(source) => source \in Targets
  BY DEF Types, Usable, Targets
<1> QED BY <1>1 DEF Known, Types, CheckType

LEMMA CheckTypeStep ==
  ASSUME Types, Changed
  PROVE  check' \in CheckType /\ checking' \in Attempts \cup {Background, None}
<1> USE UpgradeAssumption
<1>1. check \in CheckType /\ checking \in Attempts \cup {Background, None}
  BY DEF Types
<1>2. ASSUME NEW who, Ask(who) PROVE check' \in CheckType /\ checking' = who
  <2>1. 0 \in 0..CheckTTL
    OBVIOUS
  <2> HIDE UpgradeAssumption
  <2>2. [check EXCEPT !.attempted = TRUE, !.age = 0] \in CheckType
    BY <1>1, <2>1 DEF CheckType
  <2> QED BY <1>2, <2>2 DEF Ask
<1>3. CASE UNCHANGED checker
  BY <1>1, <1>3 DEF checker
<1>4. CASE Status
  BY <1>2, <1>4 DEF Status
<1>5. CASE Checked
  BY <1>5, KnownKeepsType DEF Checked
<1>6. CASE Tick
  BY <1>1, <1>6 DEF Tick, CheckType
<1>7. CASE Starts
  <2>1. NotChecked \in CheckType
    BY DEF NotChecked, CheckType
  <2>2. ServiceStarts => check' = NotChecked /\ checking' = None
    BY DEF ServiceStarts
  <2> QED BY <1>1, <1>7, <2>1, <2>2 DEF Starts, Restart, ServiceCrash, Reboot, checker
<1>8. ASSUME NEW p \in Attempts, Refresh(p) \/ Refreshed(p)
      PROVE  check' \in CheckType /\ checking' \in Attempts \cup {Background, None}
  <2>1. CASE Refresh(p)
    BY <1>1, <1>2, <2>1 DEF Refresh, checker
  <2>2. CASE Refreshed(p)
    BY <2>2, KnownKeepsType DEF Refreshed
  <2> QED BY <1>8, <2>1, <2>2
<1> QED BY <1>3, <1>4, <1>5, <1>6, <1>7, <1>8 DEF Changed

LEMMA PrepTypeStep ==
  ASSUME Types, PrepInv, Changed
  PROVE  prep' \in [Attempts -> PrepType]
<1> USE UpgradeAssumption DEF Goto, Leave
<1>1. prep \in [Attempts -> PrepType] /\ Done \in PrepType /\ NoPrepare \in PrepType
  BY DEF Types, PrepType, PrepSteps, Done, NoPrepare
<1> HIDE DEF PrepType
<1>2. CASE UNCHANGED manager
  BY <1>1, <1>2 DEF manager
<1>3. CASE Starts
  <2>1. ServiceStarts => prep' \in [Attempts -> PrepType]
    BY <1>1 DEF ServiceStarts
  <2> QED BY <1>1, <1>3, <2>1 DEF Starts, Restart, ServiceCrash, Reboot, manager
<1>4. ASSUME NEW p \in Attempts, Begin(p) \/ PrepareStep(p) PROVE prep' \in [Attempts -> PrepType]
  <2>1. prep[p] \in PrepType
    BY <1>1
  <2>2. \A at \in PrepSteps : [prep EXCEPT ![p].at = at] \in [Attempts -> PrepType]
    <3>1. \A at \in PrepSteps : [prep[p] EXCEPT !.at = at] \in PrepType
      BY <2>1 DEF PrepType
    <3> QED BY <1>1, <3>1
  <2>3. CASE Begin(p)
    BY <1>1, <2>2, <2>3 DEF Begin, PrepSteps
  <2>4. CASE Refresh(p)
    BY <2>2, <2>4 DEF Refresh, PrepSteps
  <2>5. CASE Refreshed(p)
    BY <2>2, <2>5 DEF Refreshed, PrepSteps
  <2>6. CASE Decide(p)
    <3>1. check.latest # None => [prep[p] EXCEPT !.at = "clear", !.target = check.latest] \in PrepType
      BY <2>1 DEF PrepType, PrepSteps, Types, CheckType
    <3> QED BY <1>1, <2>6, <3>1 DEF Decide
  <2>7. CASE ClearResult(p)
    BY <2>2, <2>7 DEF ClearResult, PrepSteps
  <2>8. CASE ClearRequest(p)
    BY <2>2, <2>8 DEF ClearRequest, PrepSteps
  <2>9. CASE Prune(p)
    BY <2>2, <2>9 DEF Prune, PrepSteps
  <2> DEFINE v == prep[p].target
             upload == [of |-> v, build |-> build[v]]
  <2>10. prep[p].at \in Targeted => upload \in Content
    BY UploadsAreContent DEF PrepInv
  <2>11. CASE Download(p)
    <3>1. upload \in Content
      BY <2>10, <2>11 DEF Download, Targeted
    <3> HIDE DEF upload
    <3>2. [prep[p] EXCEPT !.at = "downloading", !.want = upload] \in PrepType
      BY <2>1, <3>1 DEF PrepType, PrepSteps
    <3> QED BY <1>1, <2>11, <3>2 DEF Download, upload
  <2>12. CASE Downloaded(p)
    <3>1. upload \in Content
      BY <2>10, <2>12 DEF Downloaded, Targeted
    <3> HIDE DEF upload
    <3>2. [prep[p] EXCEPT !.at = "stage", !.got = upload] \in PrepType
      BY <2>1, <3>1 DEF PrepType, PrepSteps
    <3> QED BY <1>1, <2>12, <3>2 DEF Downloaded, upload
  <2>13. CASE Stage(p)
    <3>1. [prep[p] EXCEPT !.at = "request", !.want = None, !.got = None] \in PrepType
      BY <2>1 DEF PrepType, PrepSteps
    <3> QED BY <1>1, <2>13, <3>1 DEF Stage
  <2>14. CASE WriteRequest(p)
    BY <1>1, <2>14 DEF WriteRequest
  <2>15. CASE PrepareFails(p)
    BY <1>1, <2>15 DEF PrepareFails
  <2> QED BY <1>4, <2>3, <2>4, <2>5, <2>6, <2>7, <2>8, <2>9, <2>11, <2>12, <2>13, <2>14, <2>15 DEF PrepareStep
<1> QED BY <1>2, <1>3, <1>4 DEF Changed

LEMMA ReportKeepsType ==
  ASSUME apply \in ApplyType, NEW outcome \in Outcomes, Report(outcome)
  PROVE  apply' \in ApplyType
BY UpgradeAssumption DEF Report, ApplyType, ApplySteps, NoApply

LEMMA ApplyTypeStep ==
  ASSUME Types, ApplyInv, Changed
  PROVE  apply' \in ApplyType
<1> USE UpgradeAssumption
<1>1. apply \in ApplyType /\ NoApply \in ApplyType
  BY DEF Types, ApplyType, ApplySteps, NoApply
<1>2. Refuse => apply' \in ApplyType
  BY <1>1, ReportKeepsType DEF Refuse, Outcomes
<1>3. CASE UNCHANGED apply
  BY <1>1, <1>3
<1>4. CASE Reboot
  BY <1>1, <1>4 DEF Reboot
<1>5. \A at \in ApplySteps : [apply EXCEPT !.at = at] \in ApplyType
  BY <1>1 DEF ApplyType
<1>6. CASE Activate
  <2>1. binary.of \in Releases \cup {First}
    BY DEF Types, Content
  <2> QED BY <1>6, <2>1 DEF Activate, ApplyType, ApplySteps, NoApply
<1>7. CASE ReadRequest
  <2>1. CASE request # None /\ apply' = [apply EXCEPT !.at = "remove", !.target = request.target,
                                                       !.attempt = request.attempt]
    <3>1. request.target \in Targets /\ request.attempt \in Attempts
      BY <2>1 DEF Types
    <3> QED BY <1>1, <2>1, <3>1 DEF ApplyType, ApplySteps
  <2> QED BY <1>1, <1>2, <1>7, <2>1 DEF ReadRequest
<1>8. CASE RemoveRequest
  BY <1>2, <1>5, <1>8 DEF RemoveRequest, ApplySteps
<1>9. CASE Judge
  <2>1. [apply EXCEPT !.at = "digest", !.installed = None] \in ApplyType
    BY <1>1 DEF ApplyType, ApplySteps
  <2> QED BY <1>2, <1>9, <2>1 DEF Judge
<1>10. CASE PublishedDigest
  <2> DEFINE upload == [of |-> apply.target, build |-> build[apply.target]]
  <2>1. upload \in Content
    BY <1>10, UploadsAreContent DEF PublishedDigest, ApplyInv
  <2> HIDE DEF upload
  <2>2. [apply EXCEPT !.at = "open", !.want = upload] \in ApplyType
    BY <1>1, <2>1 DEF ApplyType, ApplySteps
  <2> QED BY <1>2, <1>10, <2>2 DEF PublishedDigest, upload
<1>11. CASE OpenStagedArchive
  <2>1. apply.target \in Targets
    BY <1>11 DEF OpenStagedArchive, ApplyInv
  <2>2. staged[apply.target] # None =>
          [apply EXCEPT !.at = "verify", !.handle = staged[apply.target]] \in ApplyType
    BY <1>1, <2>1 DEF ApplyType, ApplySteps, Types
  <2> QED BY <1>2, <1>11, <2>2 DEF OpenStagedArchive
<1>12. CASE Extract
  BY <1>2, <1>5, <1>12 DEF Extract, ApplySteps
<1>13. CASE Backup
  BY <1>2, <1>5, <1>13 DEF Backup, ApplySteps
<1>14. CASE Swap
  <2>1. [apply EXCEPT !.at = "clean", !.swapped = TRUE, !.want = None, !.handle = None] \in ApplyType
    BY <1>1 DEF ApplyType, ApplySteps
  <2> QED BY <1>2, <1>14, <2>1 DEF Swap
<1>15. CASE Clean
  BY <1>5, <1>15 DEF Clean, ApplySteps
<1>16. CASE Restart
  BY <1>1, <1>16, ReportKeepsType DEF Restart, Outcomes
<1>17. CASE WriteResult
  BY <1>1, <1>17 DEF WriteResult
<1> QED
  BY <1>3, <1>4, <1>6, <1>7, <1>8, <1>9, <1>10, <1>11, <1>12, <1>13, <1>14, <1>15, <1>16, <1>17
  DEF Changed, ApplyStep

LEMMA TypesStep ==
  ASSUME Types, PrepInv, ApplyInv, Changed
  PROVE  Types'
<1> USE UpgradeAssumption
<1>1. source' \in Releases \cup {None}
  BY DEF Types, Changed, Publish
<1>2. build' \in [Targets -> 1..MaxBuilds]
  <2>1. ASSUME NEW v \in Targets, build[v] < MaxBuilds, build' = [build EXCEPT ![v] = @ + 1]
        PROVE  build' \in [Targets -> 1..MaxBuilds]
    <3>1. build[v] + 1 \in 1..MaxBuilds
      BY <2>1 DEF Types
    <3> QED BY <2>1, <3>1 DEF Types
  <2> QED BY <2>1 DEF Types, Changed, Upload
<1>3. request' \in [target : Targets, attempt : Attempts] \cup {None}
  <2>1. ASSUME NEW p \in Attempts, WriteRequest(p) PROVE request' \in [target : Targets, attempt : Attempts]
    BY <2>1 DEF WriteRequest, PrepInv, Targeted
  <2> QED BY <2>1 DEF Types, Changed, ClearRequest, ReadRequest, RemoveRequest
<1>4. result' \in ResultType \cup {None}
  <2>1. CASE WriteResult
    BY <2>1 DEF WriteResult, Types, ApplyType, ApplyInv, ResultType
  <2> QED BY <2>1 DEF Types, Changed, ClearResult
<1>5. \A p \in Attempts : prep[p].at \in Targeted =>
        LET v == prep[p].target IN v \in Targets /\ [of |-> v, build |-> build[v]] \in Content
  BY UploadsAreContent DEF PrepInv
<1>6. staged' \in [Targets -> Content \cup {None}]
  <2>1. ASSUME NEW p \in Attempts, Prune(p) PROVE staged' \in [Targets -> Content \cup {None}]
    BY <2>1 DEF Prune, Types
  <2>2. ASSUME NEW p \in Attempts, Stage(p) PROVE staged' \in [Targets -> Content \cup {None}]
    <3>1. prep[p].target \in Targets /\ part[prep[p].target] \in Content \cup {None}
      BY <2>2 DEF Stage, PrepInv, Targeted, Types, PrepType
    <3> QED BY <2>2, <3>1 DEF Stage, Types
  <2>3. CASE Clean
    BY <2>3 DEF Clean, Types
  <2> QED BY <2>1, <2>2, <2>3 DEF Types, Changed
<1>7. part' \in [Targets -> Content \cup {None, Partial}]
  <2>1. ASSUME NEW p \in Attempts, Prune(p) PROVE part' \in [Targets -> Content \cup {None, Partial}]
    BY <2>1 DEF Prune
  <2>2. ASSUME NEW p \in Attempts, Download(p) PROVE part' \in [Targets -> Content \cup {None, Partial}]
    BY <2>2 DEF Download, Types
  <2>3. ASSUME NEW p \in Attempts, Downloaded(p) PROVE part' \in [Targets -> Content \cup {None, Partial}]
    <3>1. [of |-> prep[p].target, build |-> build[prep[p].target]] \in Content
      BY <1>5, <2>3 DEF Downloaded, Targeted
    <3> QED BY <2>3, <3>1 DEF Downloaded, Types
  <2>4. ASSUME NEW p \in Attempts, Stage(p) PROVE part' \in [Targets -> Content \cup {None, Partial}]
    BY <2>4 DEF Stage, Types
  <2> QED BY <2>1, <2>2, <2>3, <2>4 DEF Types, Changed
<1>8. binary' \in Content
  BY DEF Types, Changed, Swap, ApplyInv
<1>9. running' \in Content
  BY DEF Types, Changed, Starts, Restart, ServiceCrash, Reboot, ServiceStarts
<1>10. backup' \in Content \cup {None}
  BY DEF Types, Changed, Backup, Copy
<1> QED
  BY <1>1, <1>2, <1>3, <1>4, <1>6, <1>7, <1>8, <1>9, <1>10, CheckTypeStep, PrepTypeStep, ApplyTypeStep
  DEF Types

-----------------------------------------------------------------------------
(* The other conjuncts of the invariant.                                    *)

(* An upload may be replaced, but it was published.                         *)
LEMMA UploadsStay ==
  ASSUME Types, Changed, NEW v \in Targets, NEW c, IsUpload(c, v, build)
  PROVE  IsUpload(c, v, build')
<1>1. build[v] \in Nat /\ build'[v] \in Nat /\ build'[v] >= build[v]
  <2>1. build \in [Targets -> Nat]
    BY UpgradeAssumption DEF Types
  <2> QED BY <2>1 DEF Changed, Upload
<1> QED BY <1>1 DEF IsUpload

LEMMA PrepInvStep ==
  ASSUME Types, PrepInv, Changed
  PROVE  PrepInv'
<1> USE DEF Goto, Leave
<1>1. prep \in [Attempts -> PrepType]
  BY DEF Types
<1>2. CASE UNCHANGED manager /\ UNCHANGED part
  <2>1. ASSUME NEW p \in Attempts, prep[p].at = "stage"
        PROVE  /\ part'[prep[p].target] = prep[p].got
               /\ prep[p].got # None => IsUpload(prep[p].got, prep[p].target, build')
    <3>1. prep[p].target \in Targets
      BY <2>1 DEF PrepInv, Targeted
    <3>2. prep[p].got # None => IsUpload(prep[p].got, prep[p].target, build)
      BY <2>1 DEF PrepInv
    <3>3. prep[p].got # None => IsUpload(prep[p].got, prep[p].target, build')
      BY <3>1, <3>2, UploadsStay
    <3> QED BY <1>2, <2>1, <3>3 DEF PrepInv
  <2> QED BY <1>2, <2>1 DEF PrepInv, manager
<1>3. CASE Starts
  <2>1. ServiceStarts => \A p \in Attempts : prep'[p].at \in {"new", "done"}
    BY DEF ServiceStarts, NoPrepare, Done
  <2>2. (\A p \in Attempts : prep'[p].at \in {"new", "done"}) => PrepInv'
    BY DEF PrepInv, Active, Targeted
  <2>3. UNCHANGED part /\ (ServiceStarts \/ UNCHANGED manager)
    BY <1>3 DEF Starts, Restart, ServiceCrash, Reboot, manager, files
  <2> QED BY <1>2, <2>1, <2>2, <2>3
<1>4. ASSUME NEW p \in Attempts, Begin(p) \/ PrepareStep(p) PROVE PrepInv'
  <2>1. \A q \in Attempts \ {p} : prep'[q] = prep[q]
    BY <1>1, <1>4 DEF Begin, PrepareStep, Refresh, Refreshed, Decide, ClearResult, ClearRequest, Prune,
                      Download, Downloaded, Stage, WriteRequest, PrepareFails
  <2> DEFINE upload == [of |-> prep[p].target, build |-> build[prep[p].target]]
             Moved ==
               /\ prep'[p].at \in Active => preparing' = TRUE
               /\ prep'[p].at \in Targeted => prep'[p].target \in Targets
               /\ prep'[p].at = "stage" =>
                    /\ prep[p].at \in Targeted /\ prep'[p].target = prep[p].target /\ UNCHANGED build
                    /\ prep'[p].got = upload /\ part' = [part EXCEPT ![prep[p].target] = upload]
  <2>2. /\ prep[p].at \in Active => preparing = TRUE
        /\ prep[p].at \in Targeted => prep[p].target \in Targets
        /\ check.latest # None => check.latest \in Targets
    BY DEF PrepInv, Types, CheckType
  <2> HIDE DEF upload
  <2> USE DEF Active, PrepSteps, Targeted, Done, NoPrepare
  <2>3. Begin(p) => Moved
    <3>1. Begin(p) => prep'[p].at = "done" \/ (prep'[p].at = "check" /\ preparing' = TRUE)
      BY <1>1 DEF Begin, PrepType
    <3> QED BY <2>2, <3>1
  <2>4. Refresh(p) => Moved
    <3>1. Refresh(p) => prep[p].at \in Active /\ prep'[p].at \in {"asking", "decide"} /\ UNCHANGED preparing
      BY <1>1 DEF Refresh, PrepType
    <3> QED BY <2>2, <3>1
  <2>5. Refreshed(p) => Moved
    <3>1. Refreshed(p) => prep[p].at \in Active /\ prep'[p].at = "decide" /\ UNCHANGED preparing
      BY <1>1 DEF Refreshed, PrepType
    <3> QED BY <2>2, <3>1
  <2>6. Decide(p) => Moved
    <3>1. Decide(p) => \/ prep'[p].at = "done"
                        \/ /\ prep[p].at \in Active /\ prep'[p].at = "clear" /\ UNCHANGED preparing
                           /\ check.latest # None /\ prep'[p].target = check.latest
      BY <1>1 DEF Decide, PrepType
    <3> QED BY <2>2, <3>1
  <2>7. ClearResult(p) => Moved
    BY <1>1, <2>2 DEF ClearResult
  <2>8. ClearRequest(p) => Moved
    BY <1>1, <2>2 DEF ClearRequest
  <2>9. Prune(p) => Moved
    BY <1>1, <2>2 DEF Prune
  <2>10. Download(p) => Moved
    <3>1. Download(p) => /\ prep[p].at = "download" /\ prep'[p].at = "downloading" /\ UNCHANGED preparing
                          /\ prep'[p].target = prep[p].target
      BY <1>1 DEF Download, PrepType
    <3> QED BY <2>2, <3>1
  <2>11. Downloaded(p) => Moved
    <3>1. Downloaded(p) => \/ prep'[p].at = "done"
                            \/ /\ prep[p].at = "downloading" /\ prep'[p].at = "stage" /\ UNCHANGED <<preparing, build>>
                               /\ prep'[p].target = prep[p].target /\ prep'[p].got = upload
                               /\ part' = [part EXCEPT ![prep[p].target] = upload]
      BY <1>1 DEF Downloaded, PrepType, upload, github
    <3> QED BY <2>2, <3>1
  <2>12. Stage(p) => Moved
    <3>1. Stage(p) => \/ prep'[p].at = "done"
                       \/ /\ prep[p].at = "stage" /\ prep'[p].at = "request" /\ UNCHANGED preparing
                          /\ prep'[p].target = prep[p].target
      BY <1>1 DEF Stage, PrepType
    <3> QED BY <2>2, <3>1
  <2>13. WriteRequest(p) => Moved
    BY <1>1, <2>2 DEF WriteRequest
  <2>14. PrepareFails(p) => Moved
    BY <1>1, <2>2 DEF PrepareFails
  <2>15. Moved
    BY <1>4, <2>3, <2>4, <2>5, <2>6, <2>7, <2>8, <2>9, <2>10, <2>11, <2>12, <2>13, <2>14 DEF PrepareStep
  <2> HIDE DEF Active, PrepSteps, Targeted, Done, NoPrepare
  <2>16. ASSUME NEW q \in Attempts \ {p}, prep[q].at \in Active
        PROVE  prep'[p].at = "done" /\ UNCHANGED <<preparing, part>>
    <3>1. CASE Begin(p)
      BY <1>1, <2>16, <3>1 DEF Begin, PrepInv, Free, Done, NoPrepare, files
    <3>2. ~PrepareStep(p)
      <4>1. PrepareStep(p) => prep[p].at \in Active
        BY DEF PrepareStep, Refresh, Refreshed, Decide, ClearResult, ClearRequest, Prune, Download,
               Downloaded, Stage, WriteRequest, PrepareFails, Active, PrepSteps
      <4> QED BY <2>16, <4>1 DEF PrepInv
    <3> QED BY <1>4, <3>1, <3>2
  <2>17. prep'[p].at = "stage" =>
          /\ part'[prep'[p].target] = prep'[p].got
          /\ IsUpload(prep'[p].got, prep'[p].target, build')
    <3> SUFFICES ASSUME prep'[p].at = "stage"
                 PROVE  part'[prep'[p].target] = prep'[p].got /\ IsUpload(prep'[p].got, prep'[p].target, build')
      OBVIOUS
    <3> DEFINE v == prep[p].target
    <3>1. /\ v \in Targets /\ prep'[p].target = v /\ prep'[p].got = upload /\ build' = build
          /\ part' = [part EXCEPT ![v] = upload]
      BY <2>2, <2>15
    <3>2. part'[v] = upload
      BY <3>1 DEF Types
    <3>3. build[v] \in 1..build[v]
      BY <3>1, UpgradeAssumption DEF Types
    <3>4. upload.of = v /\ upload.build \in 1..build[v]
      BY <3>3 DEF upload
    <3> QED BY <3>1, <3>2, <3>4 DEF IsUpload
  <2>18. ASSUME NEW q \in Attempts \ {p}, prep[q].at = "stage"
        PROVE  /\ part'[prep[q].target] = prep[q].got
               /\ prep[q].got # None => IsUpload(prep[q].got, prep[q].target, build')
    <3>1. UNCHANGED part
      BY <2>18, <2>16 DEF Active, PrepSteps
    <3>2. prep[q].target \in Targets
      BY <2>18 DEF PrepInv, Targeted
    <3>3. prep[q].got # None => IsUpload(prep[q].got, prep[q].target, build')
      BY <2>18, <3>2, UploadsStay DEF PrepInv
    <3> QED BY <2>18, <3>1, <3>3 DEF PrepInv
  <2>19. \A q \in Attempts : prep'[q].at \in Active => preparing' = TRUE
    BY <2>1, <2>15, <2>16 DEF PrepInv
  <2>20. \A q, s \in Attempts : prep'[q].at \in Active /\ prep'[s].at \in Active => q = s
    <3>1. "done" \notin Active
      BY DEF Active
    <3> QED BY <2>1, <2>16, <3>1 DEF PrepInv
  <2>21. \A q \in Attempts : prep'[q].at \in Targeted => prep'[q].target \in Targets
    BY <2>1, <2>15 DEF PrepInv
  <2>22. \A q \in Attempts : prep'[q].at = "stage" =>
          /\ part'[prep'[q].target] = prep'[q].got
          /\ prep'[q].got # None => IsUpload(prep'[q].got, prep'[q].target, build')
    <3> SUFFICES ASSUME NEW q \in Attempts, prep'[q].at = "stage"
                 PROVE  /\ part'[prep'[q].target] = prep'[q].got
                        /\ prep'[q].got # None => IsUpload(prep'[q].got, prep'[q].target, build')
      OBVIOUS
    <3>1. CASE q = p
      BY <2>17, <3>1
    <3>2. CASE q # p
      <4>1. prep'[q] = prep[q] /\ prep[q].at = "stage"
        BY <2>1, <3>2
      <4> QED BY <2>18, <3>2, <4>1 DEF IsUpload
    <3> QED BY <3>1, <3>2
  <2> QED BY <2>19, <2>20, <2>21, <2>22 DEF PrepInv
<1> QED BY <1>2, <1>3, <1>4 DEF Changed, PrepareStep

LEMMA StagedInvStep ==
  ASSUME Types, PrepInv, StagedInv, Changed
  PROVE  StagedInv'
<1>1. ASSUME NEW v \in Targets, staged'[v] # None
      PROVE  IsUpload(staged'[v], v, build)
  <2>1. staged[v] # None => IsUpload(staged[v], v, build)
    BY DEF StagedInv
  <2>2. CASE UNCHANGED staged
    BY <1>1, <2>1, <2>2
  <2>3. ASSUME NEW p \in Attempts, Prune(p) PROVE IsUpload(staged'[v], v, build)
    BY <1>1, <2>1, <2>3 DEF Prune
  <2>4. ASSUME NEW p \in Attempts, Stage(p) PROVE IsUpload(staged'[v], v, build)
    <3>1. staged'[v] = staged[v] \/ (v = prep[p].target /\ staged'[v] = part[v])
      BY <2>4 DEF Stage, Types
    <3>2. /\ part[prep[p].target] = prep[p].got
          /\ prep[p].got # None => IsUpload(prep[p].got, prep[p].target, build)
      BY <2>4 DEF Stage, PrepInv
    <3> QED BY <1>1, <2>1, <3>1, <3>2
  <2>5. CASE Clean
    BY <1>1, <2>1, <2>5 DEF Clean, Types
  <2> QED BY <2>2, <2>3, <2>4, <2>5 DEF Changed
<1> QED BY <1>1, UploadsStay DEF StagedInv

LEMMA ApplyInvStep ==
  ASSUME Types, StagedInv, ApplyInv, Changed
  PROVE  ApplyInv'
<1>1. apply \in ApplyType
  BY DEF Types
<1>2. CASE UNCHANGED <<apply, install>>
  BY <1>2 DEF ApplyInv, install
<1>3. NoApply = apply' => ApplyInv'
  BY DEF ApplyInv, NoApply
<1>4. CASE Reboot
  BY <1>3, <1>4 DEF Reboot
<1>5. CASE Activate
  BY <1>5 DEF Activate, ApplyInv, NoApply, install
<1>6. Refuse /\ apply.swapped = FALSE => ApplyInv'
  BY UpgradeAssumption DEF Refuse, Report, ApplyInv, NoApply, Outcomes
<1>7. CASE ReadRequest
  <2>1. apply.swapped = FALSE
    BY <1>7 DEF ReadRequest, ApplyInv
  <2>2. CASE request # None /\ apply' = [apply EXCEPT !.at = "remove", !.target = request.target,
                                                       !.attempt = request.attempt]
    <3>1. request.target \in Targets
      BY <2>2 DEF Types
    <3> QED BY <1>1, <1>7, <2>1, <2>2, <3>1 DEF ReadRequest, ApplyInv, ApplyType, install
  <2> QED BY <1>3, <1>6, <1>7, <2>1, <2>2 DEF ReadRequest
<1>8. CASE RemoveRequest
  <2>1. apply.swapped = FALSE
    BY <1>8 DEF RemoveRequest, ApplyInv
  <2>2. CASE apply' = [apply EXCEPT !.at = "judge"]
    BY <1>1, <1>8, <2>1, <2>2 DEF RemoveRequest, ApplyInv, ApplyType, install
  <2> QED BY <1>6, <1>8, <2>1, <2>2 DEF RemoveRequest
<1>9. CASE Judge
  <2>1. apply.swapped = FALSE
    BY <1>9 DEF Judge, ApplyInv
  <2>2. CASE NewEnough /\ apply' = [apply EXCEPT !.at = "digest", !.installed = None]
    BY <1>1, <1>9, <2>1, <2>2 DEF Judge, ApplyInv, ApplyType, NewEnough, install
  <2> QED BY <1>6, <1>9, <2>1, <2>2 DEF Judge
<1>10. CASE PublishedDigest
  <2>1. apply.swapped = FALSE /\ apply.target \in Targets
    BY <1>10 DEF PublishedDigest, ApplyInv
  <2> DEFINE upload == [of |-> apply.target, build |-> build[apply.target]]
  <2>2. upload \in Content /\ upload.of = apply.target
    BY <2>1, UploadsAreContent
  <2> HIDE DEF upload
  <2>3. CASE apply' = [apply EXCEPT !.at = "open", !.want = upload]
    BY <1>1, <1>10, <2>1, <2>2, <2>3 DEF PublishedDigest, ApplyInv, ApplyType, install
  <2> QED BY <1>6, <1>10, <2>1, <2>3 DEF PublishedDigest, upload
<1>11. CASE OpenStagedArchive
  <2>1. apply.swapped = FALSE
    BY <1>11 DEF OpenStagedArchive, ApplyInv
  <2>2. CASE apply' = [apply EXCEPT !.at = "verify", !.handle = staged[apply.target]]
    BY <1>1, <1>11, <2>1, <2>2 DEF OpenStagedArchive, ApplyInv, ApplyType, install
  <2> QED BY <1>6, <1>11, <2>1, <2>2 DEF OpenStagedArchive
<1>12. CASE Extract
  <2>1. apply.swapped = FALSE
    BY <1>12 DEF Extract, ApplyInv
  <2>2. CASE Verified /\ apply' = [apply EXCEPT !.at = "backup"]
    BY <1>1, <1>12, <2>1, <2>2 DEF Extract, ApplyInv, ApplyType, Verified, install
  <2> QED BY <1>6, <1>12, <2>1, <2>2 DEF Extract
<1>13. CASE Backup
  <2>1. apply.swapped = FALSE
    BY <1>13 DEF Backup, ApplyInv
  <2>2. CASE backup' = Copy /\ apply' = [apply EXCEPT !.at = "swap"]
    BY <1>1, <1>13, <2>1, <2>2 DEF Backup, ApplyInv, ApplyType, Copy
  <2> QED BY <1>6, <1>13, <2>1, <2>2 DEF Backup
<1>14. CASE Swap
  <2>1. /\ apply.swapped = FALSE /\ apply.target \in Targets
        /\ apply.handle.of = apply.target
    BY <1>14 DEF Swap, ApplyInv
  <2>2. CASE /\ binary' = apply.handle
             /\ apply' = [apply EXCEPT !.at = "clean", !.swapped = TRUE, !.want = None, !.handle = None]
    BY <1>1, <2>1, <2>2 DEF ApplyInv, ApplyType
  <2> QED BY <1>6, <1>14, <2>1, <2>2 DEF Swap
<1>15. CASE Clean
  BY <1>1, <1>15 DEF Clean, ApplyInv, ApplyType, install
<1>16. CASE Restart
  <2>1. apply.swapped = TRUE
    BY <1>16 DEF Restart, ApplyInv
  <2>2. CASE Report("succeeded")
    BY <2>1, <2>2 DEF Report, ApplyInv, NoApply, Outcomes
  <2>3. CASE Report("restart_required")
    BY <2>1, <2>3 DEF Report, ApplyInv, NoApply, Outcomes
  <2> QED BY <1>16, <2>2, <2>3 DEF Restart
<1>17. CASE WriteResult
  BY <1>3, <1>17 DEF WriteResult
<1>18. UNCHANGED apply => UNCHANGED install \/ ApplyStep
  BY DEF Changed, install, ApplyStep
<1> QED
  BY <1>2, <1>4, <1>5, <1>7, <1>8, <1>9, <1>10, <1>11, <1>12, <1>13, <1>14, <1>15, <1>16, <1>17, <1>18
  DEF Changed, ApplyStep

LEMMA CheckInvStep ==
  ASSUME Types, PrepInv, CheckInv, Changed
  PROVE  CheckInv'
<1> USE DEF Goto, Leave
<1>1. prep \in [Attempts -> PrepType] /\ check \in CheckType
  BY DEF Types
<1>2. Known /\ check'.latest = None => check'.err
  BY <1>1 DEF Known, Usable, CheckType
<1>3. CASE UNCHANGED checker /\ UNCHANGED manager
  BY <1>3 DEF CheckInv, checker, manager
<1>4. CASE Starts
  <2>1. ServiceStarts => CheckInv'
    BY DEF ServiceStarts, CheckInv, NotChecked, NoPrepare, Done
  <2> QED BY <1>3, <1>4, <2>1 DEF Starts, Restart, ServiceCrash, Reboot, checker, manager
<1>5. CASE Status
  BY <1>1, <1>5, UpgradeAssumption DEF Status, Ask, CheckInv, CheckType, Background, manager
<1>6. CASE Checked
  BY <1>2, <1>6 DEF Checked, CheckInv, manager
<1>7. CASE Tick
  BY <1>1, <1>7 DEF Tick, CheckInv, CheckType, manager
<1>8. ASSUME NEW p \in Attempts, Begin(p) \/ PrepareStep(p) PROVE CheckInv'
  <2>1. \A q \in Attempts \ {p} : prep'[q] = prep[q]
    BY <1>1, <1>8 DEF Begin, PrepareStep, Refresh, Refreshed, Decide, ClearResult, ClearRequest, Prune,
                      Download, Downloaded, Stage, WriteRequest, PrepareFails
  <2>2. CASE Refresh(p)
    <3>1. CASE Due
      <4>1. p # None
        BY UpgradeAssumption DEF Attempts
      <4>2. checking' = p /\ check'.latest = check.latest /\ check'.err = check.err
        BY <1>1, <2>2, <3>1 DEF Refresh, Ask, CheckType
      <4>3. prep'[p].at = "asking"
        BY <1>1, <2>2, <3>1 DEF Refresh, PrepType
      <4> QED BY <2>1, <4>1, <4>2, <4>3 DEF CheckInv
    <3>2. CASE ~Due
      BY <2>1, <2>2, <3>2 DEF Refresh, Due, CheckInv, checker
    <3> QED BY <3>1, <3>2
  <2>3. CASE Refreshed(p)
    BY <1>2, <2>1, <2>3 DEF Refreshed, CheckInv
  <2>4. CASE ~Refresh(p) /\ ~Refreshed(p)
    <3>1. prep'[p].at # "decide"
      <4> USE DEF Done, NoPrepare, PrepType
      <4>1. CASE Begin(p)
        BY <1>1, <4>1 DEF Begin
      <4>2. CASE Decide(p)
        BY <1>1, <4>2 DEF Decide
      <4>3. CASE ClearResult(p)
        BY <1>1, <4>3 DEF ClearResult
      <4>4. CASE ClearRequest(p)
        BY <1>1, <4>4 DEF ClearRequest
      <4>5. CASE Prune(p)
        BY <1>1, <4>5 DEF Prune
      <4>6. CASE Download(p)
        BY <1>1, <4>6 DEF Download
      <4>7. CASE Downloaded(p)
        BY <1>1, <4>7 DEF Downloaded
      <4>8. CASE Stage(p)
        BY <1>1, <4>8 DEF Stage
      <4>9. CASE WriteRequest(p)
        BY <1>1, <4>9 DEF WriteRequest
      <4>10. CASE PrepareFails(p)
        BY <1>1, <4>10 DEF PrepareFails
      <4> QED BY <1>8, <2>4, <4>1, <4>2, <4>3, <4>4, <4>5, <4>6, <4>7, <4>8, <4>9, <4>10 DEF PrepareStep
    <3>2. UNCHANGED checker
      BY <1>8, <2>4
         DEF Begin, PrepareStep, Decide, ClearResult, ClearRequest, Prune, Download, Downloaded, Stage,
             WriteRequest, PrepareFails
    <3> QED BY <2>1, <3>1, <3>2 DEF CheckInv, checker
  <2> QED BY <2>2, <2>3, <2>4
<1> QED BY <1>3, <1>4, <1>5, <1>6, <1>7, <1>8 DEF Changed, PrepareStep

LEMMA ReachedStays ==
  ASSUME Types, ApplyInv, Changed, NEW v, Reached(v, binary.of, running.of)
  PROVE  Reached(v, binary'.of, running'.of)
<1>1. CASE binary' = binary
  <2>1. running' \in {running, binary}
    BY <1>1 DEF Changed, Starts, Restart, ServiceCrash, Reboot, ServiceStarts
  <2> QED BY <1>1, <2>1 DEF Reached
<1>2. CASE binary' # binary
  <2>1. Swap /\ binary' = apply.handle
    BY <1>2 DEF Changed, Swap
  <2>2. running' = running
    BY <2>1 DEF Swap
  <2>3. /\ apply.target \in Targets /\ binary'.of = apply.target
        /\ Compare(apply.target, binary.of) > 0
    BY <2>1 DEF Swap, ApplyInv
  <2>4. apply.target \in Version /\ binary.of \in Version
    BY <2>3, UpgradeAssumption DEF Targets, Types, Content
  <2>5. Compare(apply.target, binary.of) >= 0
    BY <2>3, <2>4, CompareIsInt
  <2>6. Compare(apply.target, v) >= 0
    BY <2>3, <2>5, AtLeastIsTransitive DEF Reached
  <2> QED BY <2>2, <2>3, <2>6 DEF Reached
<1> QED BY <1>1, <1>2

LEMMA ResultInvStep ==
  ASSUME Types, ApplyInv, ResultInv, Changed
  PROVE  ResultInv'
<1>1. ASSUME apply'.at = "report", apply'.outcome = "succeeded"
      PROVE  Reached(apply'.target, binary'.of, running'.of)
  <2>1. CASE UNCHANGED apply
    BY <1>1, <2>1, ReachedStays DEF ResultInv
  <2>2. CASE Restart
    <3>1. /\ Report("succeeded") /\ ServiceStarts /\ UNCHANGED install
      BY <1>1, <2>2 DEF Restart, Report, NoApply
    <3>2. apply'.target = apply.target /\ binary' = binary /\ running' = binary
      BY <3>1 DEF Report, NoApply, ServiceStarts, install
    <3>3. apply.target \in Targets /\ binary.of = apply.target
      BY <2>2 DEF Restart, ApplyInv
    <3> QED BY <3>2, <3>3, CompareSelf DEF Reached
  <2>3. CASE Reboot
    BY <1>1, <2>3 DEF Reboot, NoApply
  <2>4. ApplyStep => Restart
    <3> USE DEF NoApply, Report, Refuse
    <3>1. apply \in ApplyType
      BY DEF Types
    <3>2. ~Activate
      BY <1>1, <3>1 DEF Activate, ApplyType
    <3>3. ~ReadRequest
      <4>1. ReadRequest =>
              apply' \in {NoApply, [apply EXCEPT !.at = "remove", !.target = request.target,
                                                !.attempt = request.attempt]} \/ Refuse
        BY DEF ReadRequest
      <4>2. apply'.outcome = "failed" \/ ~Refuse
        OBVIOUS
      <4>3. apply' # NoApply
        BY <1>1
      <4>4. apply' # [apply EXCEPT !.at = "remove", !.target = request.target, !.attempt = request.attempt]
        BY <1>1, <3>1 DEF ApplyType
      <4> QED BY <1>1, <4>1, <4>2, <4>3, <4>4
    <3>4. ~RemoveRequest
      BY <1>1, <3>1 DEF RemoveRequest, ApplyType
    <3>5. ~Judge
      BY <1>1, <3>1 DEF Judge, ApplyType
    <3>6. ~PublishedDigest
      BY <1>1, <3>1 DEF PublishedDigest, ApplyType
    <3>7. ~OpenStagedArchive
      BY <1>1, <3>1 DEF OpenStagedArchive, ApplyType
    <3>8. ~Extract
      BY <1>1, <3>1 DEF Extract, ApplyType
    <3>9. ~Backup
      BY <1>1, <3>1 DEF Backup, ApplyType
    <3>10. ~Swap
      BY <1>1, <3>1 DEF Swap, ApplyType
    <3>11. ~Clean
      BY <1>1, <3>1 DEF Clean, ApplyType
    <3>12. ~WriteResult
      BY <1>1, <3>1 DEF WriteResult, ApplyType
    <3> QED BY <3>2, <3>3, <3>4, <3>5, <3>6, <3>7, <3>8, <3>9, <3>10, <3>11, <3>12 DEF ApplyStep
  <2> QED BY <2>1, <2>2, <2>3, <2>4 DEF Changed
<1>2. ASSUME result' # None
      PROVE  /\ result'.swapped = (result'.status # "failed")
             /\ result'.status = "succeeded" => Reached(result'.target, binary'.of, running'.of)
  <2>1. CASE UNCHANGED result
    BY <1>2, <2>1, ReachedStays DEF ResultInv
  <2>2. CASE result' # result
    <3>1. WriteResult /\ result' = [status |-> apply.outcome, target |-> apply.target,
                                    attempt |-> apply.attempt, swapped |-> apply.swapped]
      BY <1>2, <2>2 DEF Changed, ClearResult, WriteResult
    <3>2. apply.swapped = (apply.outcome # "failed")
      BY <3>1 DEF WriteResult, ApplyInv
    <3>3. apply.outcome = "succeeded" => Reached(apply.target, binary.of, running.of)
      BY <3>1 DEF WriteResult, ResultInv
    <3>4. apply.outcome = "succeeded" => Reached(apply.target, binary'.of, running'.of)
      BY <3>3, ReachedStays
    <3> QED BY <3>1, <3>2, <3>4
  <2> QED BY <2>1, <2>2
<1> QED BY <1>1, <1>2 DEF ResultInv

LEMMA InvStep == Inv /\ [Next]_vars => Inv'
<1> SUFFICES ASSUME Inv, [Next]_vars PROVE Inv'
  OBVIOUS
<1>1. CASE Next
  <2>1. Changed
    BY <1>1, NextChanges
  <2> QED
    BY <2>1, TypesStep, PrepInvStep, StagedInvStep, ApplyInvStep, ResultInvStep, CheckInvStep DEF Inv
<1>2. CASE UNCHANGED vars
  BY <1>2
  DEF vars, github, files, install, checker, manager, Inv, Types, PrepInv, StagedInv, ApplyInv, ResultInv, CheckInv
<1> QED BY <1>1, <1>2

LEMMA InvHolds == Spec => []Inv
<1> QED BY InvInit, InvStep, PTL DEF Spec

-----------------------------------------------------------------------------
(* What is staged under its final name is a whole upload of its version,    *)
(* whatever crashes, overlaps or is uploaded again (DownloadArchive).       *)
THEOREM OnlyVerifiedIsStaged == Spec => []StagedIsVerified
<1>1. Inv => StagedIsVerified
  <2> SUFFICES ASSUME Inv PROVE StagedIsVerified
    OBVIOUS
  <2>1. TypeOK
    BY DEF Inv, Types, TypeOK, ResultType, CheckType
  <2> QED BY <2>1 DEF Inv, StagedInv, IsUpload, StagedIsVerified
<1> QED BY <1>1, InvHolds, PTL

(* The result the dashboard reads is true of what is installed and of what  *)
(* runs, from when it is written until it is cleared (ApplyPending).        *)
THEOREM ResultsAreTrue == Spec => []ResultIsTrue
<1>1. Inv => ResultIsTrue
  <2> SUFFICES ASSUME Inv, result # None PROVE ResultIsTrue
    BY DEF ResultIsTrue
  <2>1. result.status \in Outcomes /\ result.swapped = (result.status # "failed")
    BY DEF Inv, Types, ResultType, ResultInv
  <2>2. result.status = "succeeded" => Compare(running.of, result.target) >= 0
    BY DEF Inv, ResultInv, Reached
  <2> QED BY <2>1, <2>2 DEF ResultIsTrue, Outcomes
<1> QED BY <1>1, InvHolds, PTL

(* A step that replaces the binary installs a newer stable release, as the  *)
(* applier's own checksums list it, and keeps the old binary.               *)
THEOREM SwapsKeepSafe == Spec => SwapsAreSafe
<1>1. Inv /\ [Next]_vars =>
        [binary' # binary => /\ IsUpgrade(binary.of, binary'.of)
                             /\ binary' = apply.want /\ binary' \notin Mispackaged
                             /\ backup' = binary]_vars
  <2> SUFFICES ASSUME Inv, Next, binary' # binary
               PROVE  /\ IsUpgrade(binary.of, binary'.of)
                      /\ binary' = apply.want /\ binary' \notin Mispackaged
                      /\ backup' = binary
    OBVIOUS
  <2>1. Swap /\ binary' = apply.handle
    BY NextChanges DEF Changed, Swap
  <2>2. /\ apply.handle = apply.want /\ apply.handle \notin Mispackaged
        /\ apply.want.of = apply.target /\ apply.target \in Targets
        /\ Compare(apply.target, binary.of) > 0
    BY <2>1 DEF Inv, ApplyInv, Swap
  <2>3. backup' = binary
    BY <2>1 DEF Inv, ApplyInv, Swap
  <2> QED BY <2>1, <2>2, <2>3 DEF IsUpgrade, Targets
<1> QED BY <1>1, InvHolds, PTL DEF Spec, SwapsAreSafe

(* A check begins only when none has been made or the last is old enough,   *)
(* and an attempt that finds no release was preceded by a check that failed *)
(* (Checker).                                                               *)
THEOREM ChecksKeepPace == Spec => ChecksArePaced
<1>1. Inv /\ [Next]_vars =>
        [/\ checking' # None /\ checking' # checking => ~check.attempted \/ check.age >= RetryAfter
         /\ \A p \in Attempts : prep[p].at = "decide" /\ check.latest = None => check.err]_vars
  <2> SUFFICES ASSUME Inv, Next
               PROVE  /\ checking' # None /\ checking' # checking => ~check.attempted \/ check.age >= RetryAfter
                      /\ \A p \in Attempts : prep[p].at = "decide" /\ check.latest = None => check.err
    OBVIOUS
  <2>1. Due => ~check.attempted \/ check.age >= RetryAfter
    BY UpgradeAssumption DEF Due, Inv, Types, CheckType
  <2>2. checking' # None /\ checking' # checking => Due
    BY NextChanges DEF Changed, checker, Status, Checked, Tick, Starts, Restart, ServiceCrash, Reboot,
                       ServiceStarts, Refresh, Refreshed
  <2> QED BY <2>1, <2>2 DEF Inv, CheckInv
<1> QED BY <1>1, InvHolds, PTL DEF Spec, ChecksArePaced

=============================================================================
