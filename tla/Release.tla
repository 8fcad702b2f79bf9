------------------------------ MODULE Release ------------------------------
(***************************************************************************)
(* The release of a tag: the job that .github/workflows/release.yml runs   *)
(* for it, and the checks of cmd/releasehelper (verify-compat, notes,      *)
(* verify-release, verify-install) that decide whether its archives are    *)
(* published.                                                              *)
(*                                                                         *)
(* A job may be lost at any step and be run again for the same tag.  What  *)
(* the build leaves in dist/ is not trusted: an archive may be absent,     *)
(* incomplete, not listed in SHA256SUMS or written again after the sums    *)
(* were taken.  Two builds of one target differ in their bytes (times in   *)
(* the archive), so the bytes of an archive are the attempt that built it. *)
(***************************************************************************)
EXTENDS Naturals, Sequences, FiniteSets

CONSTANTS ReleaseTargets, \* the supported release targets
          Smoked,         \* the target whose archive is installed and run
          MaxAttempts     \* bound on how often the job is run

\* What is assumed of the constants.
ASSUME ReleaseAssumption ==
    /\ IsFiniteSet(ReleaseTargets) /\ Smoked \in ReleaseTargets
    /\ {"SHA256SUMS", "manifest"} \cap ReleaseTargets = {}
    /\ MaxAttempts \in Nat \ {0}

VARIABLES tagged,     \* what the tagged source tree holds
          jobAt,      \* the step of the job
          attempt,    \* how often the job has been started
          dist,       \* what the job has built
          published   \* the assets of the public release

releaseVars == <<tagged, jobAt, attempt, dist, published>>

Versions == {"this", "other"}
Go == "1.25"
Runners == {"ubuntu", "windows", "macos"}
Headings == {"Summary", "OperatorAction", "Rollback"}
InstallPins == {"goInstall", "installExample", "windowsExample", "unixExample"}
ActionPins == {"uses", "tagRef", "versionNote"}
IssuePins == {"placeholder"}
Pins == InstallPins \cup ActionPins \cup IssuePins
StageFiles == {"binary", "LICENSE", "NOTICE", "TRADEMARKS", "README", "CHANGELOG"}
Commands == {"doctor", "list-mutators", "fast", "summary", "survivors",
             "recommendations", "governance", "history", "sarif", "github-summary"}
ReportFiles == {"json", "summary", "junit", "html", "sarif", "github-summary"}

\* The steps of the publish job that verify-compat looks for; the job runs the
\* steps its own tree names.
WorkflowSteps ==
    {"verify-compat", "go-install", "install-smoke", "verify-release", "archive-smoke"}

NoArchive == [bytes |-> 0, files |-> {}]
NoDist == [archives |-> [t \in ReleaseTargets |-> NoArchive], sums |-> [t \in ReleaseTargets |-> 0],
           notes |-> {}, manifest |-> [t \in ReleaseTargets |-> 0]]
Assets == ReleaseTargets \cup {"SHA256SUMS", "manifest"}

-----------------------------------------------------------------------------
(* verify-compat                                                            *)

\* Mutated form of MatrixHolds: the include list is not consumed, so that a runner may
\* stand in it twice.
MatrixHoldsKnown(matrix) ==
    /\ Len(matrix) = Cardinality(Runners)
    /\ \A i \in 1..Len(matrix) : matrix[i].os \in Runners /\ matrix[i].go = Go

\* The include list of a matrix is consumed runner by runner: no runner may be
\* missing, be named twice or be unknown, and each has the supported Go.
MatrixHolds(matrix) ==
    LET Left(i) == Runners \ {matrix[j].os : j \in 1..(i - 1)}
    IN  /\ Len(matrix) = Cardinality(Runners)
        /\ \A i \in 1..Len(matrix) : matrix[i].os \in Left(i) /\ matrix[i].go = Go

\* The job's setup-go step, and the smoke step's go-version input, name the
\* supported version.
SetupHolds(version) == version = Go

DocHolds == tagged.rows = Runners /\ tagged.docBaseline = Go

TestWorkflowHolds ==
    /\ SetupHolds(tagged.testSetup) /\ SetupHolds(tagged.actionInput)
    /\ MatrixHolds(tagged.testMatrix)

\* Both smoke steps run "verify-install": the workflow must hold two of them.
HasStep(step) == step \in tagged.steps
InstallSteps == Cardinality(tagged.steps \cap {"install-smoke", "archive-smoke"})

ReleaseWorkflowHolds ==
    /\ SetupHolds(tagged.setup) /\ MatrixHolds(tagged.matrix)
    /\ HasStep("verify-compat") /\ HasStep("verify-release") /\ HasStep("go-install")
    /\ InstallSteps >= 2

CompatHolds ==
    /\ tagged.goMod = Go
    /\ DocHolds /\ TestWorkflowHolds /\ ReleaseWorkflowHolds

(* verify-release                                                           *)

NoteHolds == tagged.noteFile /\ Headings \subseteq tagged.note

\* The notes are the changelog's section of the version and the upgrade note
\* without its title; there are none when either is missing.
NotesBuilt == tagged.changelog = "text" /\ tagged.noteFile
ReleaseNotes == {"Title", "Changelog", "UpgradeNotes"} \cup tagged.note
NotesHold(notes) == {"Title", "Changelog", "UpgradeNotes", "Rollback"} \subseteq notes

\* Each pattern occurs, and every occurrence names this version.
PinsHold(pins) == \A p \in pins : tagged.pins[p] = {"this"}

\* A line that marks the current release names no other version; the marker
\* itself is optional.
MarkerHolds == tagged.marker \subseteq {"this"}

WaveHolds == tagged.wave = [install |-> "this", ref |-> "this"] /\ tagged.waveDefault = "this"

AlignmentHolds ==
    /\ WaveHolds /\ PinsHold(InstallPins) /\ PinsHold(ActionPins) /\ PinsHold(IssuePins)
    /\ MarkerHolds

\* An archive may hold more than the stage files, never less.
ContentsHold(archive) == StageFiles \subseteq archive.files

\* The lines of SHA256SUMS, and the hash of a file: two archives have the same
\* hash when they have the same bytes.
Listed(t) == dist.sums[t] # 0
Hash(archive) == archive.bytes

\* Mutated form of ArchiveHolds: the sum of an archive is listed, and not compared.
ArchiveHoldsListed(t) ==
    dist.archives[t] # NoArchive /\ Listed(t) /\ ContentsHold(dist.archives[t])

ArchiveHolds(t) ==
    LET archive == dist.archives[t]
    IN  /\ archive # NoArchive
        /\ Listed(t) /\ Hash(archive) = dist.sums[t]
        /\ ContentsHold(archive)

(* verify-install                                                           *)

\* A binary passes the smoke when every command succeeds and the fast run has
\* left every report file, the JSON one in the known schema.
SmokeHolds ==
    /\ Commands \subseteq tagged.binary.commands
    /\ ReportFiles \subseteq tagged.binary.reports
    /\ tagged.binary.schema = "1"

\* An archive is extracted into a cleared directory; its binary is looked for.
InstalledFrom(archive) == archive # NoArchive /\ "binary" \in archive.files

-----------------------------------------------------------------------------
(* The trees a tag can be put on: a good one, any with one thing wrong, and *)
(* any of these whose workflow has also lost a step that would find out.    *)

GoodMatrix == <<[os |-> "ubuntu", go |-> Go], [os |-> "windows", go |-> Go],
                [os |-> "macos", go |-> Go]>>
BadMatrices == { Tail(GoodMatrix), Append(GoodMatrix, GoodMatrix[1]),
                 [GoodMatrix EXCEPT ![3].os = "ubuntu"], [GoodMatrix EXCEPT ![3].os = "plan9"],
                 [GoodMatrix EXCEPT ![2].go = "1.24"] }
GoodTree ==
    [goMod |-> Go, rows |-> Runners, docBaseline |-> Go, testSetup |-> Go, actionInput |-> Go,
     testMatrix |-> GoodMatrix, setup |-> Go, matrix |-> GoodMatrix, steps |-> WorkflowSteps,
     changelog |-> "text", noteFile |-> TRUE, note |-> Headings, pins |-> [p \in Pins |-> {"this"}],
     marker |-> {"this"}, wave |-> [install |-> "this", ref |-> "this"], waveDefault |-> "this",
     binary |-> [commands |-> Commands, reports |-> ReportFiles, schema |-> "1"]]
FlawOfATree ==
    UNION { {[GoodTree EXCEPT ![field] = "1.24"] :
                 field \in {"goMod", "docBaseline", "testSetup", "actionInput", "setup"}},
            {[GoodTree EXCEPT !.rows = @ \ {r}] : r \in Runners},
            {[GoodTree EXCEPT !.matrix = m] : m \in BadMatrices},
            {[GoodTree EXCEPT !.testMatrix = m] : m \in BadMatrices},
            {[GoodTree EXCEPT !.steps = @ \ {s}] : s \in WorkflowSteps},
            {[GoodTree EXCEPT !.changelog = c] : c \in {"absent", "empty"}},
            {[GoodTree EXCEPT !.noteFile = FALSE]},
            {[GoodTree EXCEPT !.note = hs] : hs \in SUBSET Headings},
            {[GoodTree EXCEPT !.pins[p] = vs] : p \in Pins, vs \in SUBSET Versions},
            {[GoodTree EXCEPT !.marker = vs] : vs \in SUBSET Versions},
            {[GoodTree EXCEPT !.wave[field] = "other"] : field \in {"install", "ref"}},
            {[GoodTree EXCEPT !.waveDefault = "other"]},
            {[GoodTree EXCEPT !.binary.commands = @ \ {c}] : c \in Commands},
            {[GoodTree EXCEPT !.binary.reports = @ \ {f}] : f \in ReportFiles},
            {[GoodTree EXCEPT !.binary.schema = "2"]} }
FlawedTrees ==
    FlawOfATree \cup {[tree EXCEPT !.steps = @ \ {s}] : tree \in FlawOfATree, s \in WorkflowSteps}

ReleaseInit ==
    /\ tagged \in FlawedTrees \cup {GoodTree}
    /\ jobAt = "compat" /\ attempt = 1 /\ dist = NoDist
    /\ published = [a \in Assets |-> <<>>]

\* A step that fails ends the job; one that the tree's workflow does not hold is
\* not run.
JobGoto(step, holds) ==
    /\ jobAt' = IF holds THEN step ELSE "failed"
    /\ UNCHANGED <<tagged, attempt, published>>
Runs(step, check) == step \in tagged.steps => check

VerifyCompat == jobAt = "compat" /\ JobGoto("install", Runs("verify-compat", CompatHolds)) /\ UNCHANGED dist

\* go install of the tag, and the smoke run of the installed binary.
GoInstall ==
    /\ jobAt = "install"
    /\ JobGoto("notes", Runs("install-smoke", HasStep("go-install") /\ SmokeHolds))
    /\ UNCHANGED dist

Notes ==
    /\ jobAt = "notes" /\ JobGoto("build", NotesBuilt)
    /\ dist' = [dist EXCEPT !.notes = IF NotesBuilt THEN ReleaseNotes ELSE {}]

Built == [t \in ReleaseTargets |-> [bytes |-> attempt, files |-> StageFiles]]

\* The archives of every target and their sums, as they should be or with one
\* of them wrong.
Build ==
    LET sums == [t \in ReleaseTargets |-> attempt]
        Left(archives, listed) == dist' = [dist EXCEPT !.archives = archives, !.sums = listed]
    IN  /\ jobAt = "build" /\ JobGoto("verify", TRUE)
        /\ \/ Left(Built, sums)
           \/ \E t \in ReleaseTargets :
                 \/ Left([Built EXCEPT ![t] = NoArchive], sums)
                 \/ Left([Built EXCEPT ![t].bytes = attempt + MaxAttempts], sums)
                 \/ Left(Built, [sums EXCEPT ![t] = 0])
                 \/ \E f \in StageFiles : Left([Built EXCEPT ![t].files = @ \ {f}], sums)

\* verify-release: the manifest is written only after every check has passed.
VerifyRelease ==
    LET holds == /\ NoteHolds /\ NotesHold(dist.notes) /\ AlignmentHolds
                 /\ \A t \in ReleaseTargets : ArchiveHolds(t)
    IN  /\ jobAt = "verify" /\ JobGoto("archive", Runs("verify-release", holds))
        /\ dist' = IF HasStep("verify-release") /\ holds
                   THEN [dist EXCEPT !.manifest = [t \in ReleaseTargets |-> dist.archives[t].bytes]]
                   ELSE dist

ArchiveSmoke ==
    /\ jobAt = "archive"
    /\ JobGoto("publish", Runs("archive-smoke", InstalledFrom(dist.archives[Smoked]) /\ SmokeHolds))
    /\ UNCHANGED dist

\* The files in dist/ that the release action's patterns match.
DistFiles == {t \in ReleaseTargets : dist.archives[t] # NoArchive} \cup {"SHA256SUMS"}
             \cup (IF dist.manifest = NoDist.manifest THEN {} ELSE {"manifest"})

\* The release action uploads one file after the other and replaces the asset of an
\* earlier attempt; an asset for which there is no file stays as it was.
Upload(a) ==
    LET content == CASE a \in ReleaseTargets -> <<attempt, dist.archives[a]>>
                     [] a = "SHA256SUMS" -> <<attempt, dist.sums>>
                     [] a = "manifest" -> <<attempt, dist.manifest>>
    IN  /\ jobAt = "publish" /\ a \in DistFiles /\ published[a] # content
        /\ published' = [published EXCEPT ![a] = content]
        /\ jobAt' = IF \A b \in DistFiles : published'[b] # <<>> /\ published'[b][1] = attempt
                 THEN "done" ELSE jobAt
        /\ UNCHANGED <<tagged, attempt, dist>>

\* The runner is lost.
Lose == jobAt \notin {"failed", "done"} /\ JobGoto("failed", TRUE) /\ UNCHANGED dist

\* The job is run again for the same tag, on a fresh checkout.
Rerun ==
    /\ jobAt \in {"failed", "done"} /\ attempt < MaxAttempts
    /\ attempt' = attempt + 1 /\ jobAt' = "compat" /\ dist' = NoDist
    /\ UNCHANGED <<tagged, published>>

ReleaseNext ==
    \/ VerifyCompat \/ GoInstall \/ Notes \/ Build \/ VerifyRelease \/ ArchiveSmoke
    \/ \E a \in Assets : Upload(a)
    \/ Lose \/ Rerun

ReleaseSpec == ReleaseInit /\ [][ReleaseNext]_releaseVars

-----------------------------------------------------------------------------
(* Properties                                                               *)

\* Once a job has published, the public archives are those the public sums and
\* the public manifest name, whatever earlier attempts had left there, and each
\* holds every file a user expects (cmdVerifyRelease, verifyArchiveContents).  It is
\* enough that the workflow has kept verify-release, or verify-compat, which looks
\* for it (verifyReleaseWorkflow); nothing looks at the archives of a tree whose
\* workflow has lost both.
PublishedSetIsOneBuild ==
    jobAt = "done" /\ (HasStep("verify-compat") \/ HasStep("verify-release")) =>
        \A t \in ReleaseTargets :
            LET archive == published[t][2]
            IN  /\ archive.bytes = published["SHA256SUMS"][2][t]
                /\ archive.bytes = published["manifest"][2][t]
                /\ StageFiles \subseteq archive.files

\* A tree is smoked on every supported platform with the supported Go; its documents
\* name this version only, and its notes say how to roll back; its binary works.
SmokedEverywhere ==
    \A m \in {tagged.matrix, tagged.testMatrix} :
        /\ {m[i].os : i \in 1..Len(m)} = Runners
        /\ \A i \in 1..Len(m) : m[i].go = Go
TellsVersion ==
    /\ "other" \notin tagged.marker /\ \A p \in Pins : "other" \notin tagged.pins[p]
    /\ "Rollback" \in tagged.note
BinaryWorks == Commands \subseteq tagged.binary.commands

\* What an upload says of the tree, whichever flaws it has and whichever of its own
\* checks its workflow has lost: as long as verify-compat is there, the tree has lost
\* no other step and is sound; without it, each step that is left still
\* keeps back the trees with the flaws that it looks for (verifyReleaseWorkflow,
\* verifyCompatibilityMatrixJob, verifyReleaseAlignment, cmdVerifyInstall).
UploadedTreesAreSound ==
    (\E a \in Assets : published[a] # <<>>) =>
        /\ tagged.changelog = "text"
        /\ HasStep("verify-compat") =>
              WorkflowSteps \subseteq tagged.steps /\ SmokedEverywhere /\ TellsVersion /\ BinaryWorks
        /\ HasStep("verify-release") => TellsVersion
        /\ HasStep("install-smoke") \/ HasStep("archive-smoke") => BinaryWorks

-----------------------------------------------------------------------------
(* What the proofs rest on: an inductive invariant.                         *)

\* The steps that come after each of the others.
AfterArchive == {"publish", "done"}
AfterVerify == {"archive"} \cup AfterArchive
AfterNotes == {"build", "verify"} \cup AfterVerify
AfterInstall == {"notes"} \cup AfterNotes
AfterCompat == {"install"} \cup AfterInstall

\* What the steps that the workflow holds have seen to hold, once they have passed.
Verified ==
    /\ NoteHolds /\ AlignmentHolds
    /\ \A t \in ReleaseTargets : /\ ArchiveHolds(t)
                                /\ dist.manifest[t] = dist.archives[t].bytes
Checked ==
    /\ jobAt \in AfterCompat => Runs("verify-compat", CompatHolds)
    /\ jobAt \in AfterInstall => Runs("install-smoke", SmokeHolds)
    /\ jobAt \in AfterNotes => NotesBuilt
    /\ jobAt \in AfterVerify => (HasStep("verify-release") => Verified)
    /\ jobAt \in AfterArchive => Runs("archive-smoke", SmokeHolds)

\* What this attempt has published is what it built, and it has verified that.
Content(a) == <<attempt, IF a \in ReleaseTargets THEN dist.archives[a]
                         ELSE IF a = "SHA256SUMS" THEN dist.sums ELSE dist.manifest>>
PublishedInTurn ==
    /\ DOMAIN published = Assets
    /\ \A a \in Assets : published[a] # <<>> =>
          /\ published[a][1] \in 1..attempt
          /\ published[a][1] = attempt =>
                jobAt \in {"publish", "done", "failed"} /\ published[a] = Content(a)
    /\ jobAt = "done" => \A a \in DistFiles : published[a] # <<>> /\ published[a][1] = attempt

ReleaseInv ==
    /\ attempt \in Nat \ {0}
    /\ dist = [archives |-> dist.archives, sums |-> dist.sums, notes |-> dist.notes,
               manifest |-> dist.manifest]
    /\ Checked
    /\ PublishedInTurn /\ UploadedTreesAreSound
=============================================================================
