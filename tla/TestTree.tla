------------------------------ MODULE TestTree ------------------------------
(***************************************************************************)
(* The tree a mutant is tested in (selection_flow.go, coverageprofile,     *)
(* cache_flow.go, isolate, mutationfs, gotestenv, and the daemon's         *)
(* worker).  Each process decides one mutant of file "x" at a time: it     *)
(* discovers the mutant, selects tests by the coverage profile, looks up   *)
(* the incremental cache, makes a copy of the module or an overlay of one  *)
(* file, mutates it, runs the tests, stores the verdict and removes what   *)
(* it made.  A worker of the daemon does so for a mutant it is sent, in a  *)
(* copy and without the cache.                                             *)
(*                                                                         *)
(* Processes share the tree, which is edited while they run, the cache     *)
(* directory and the temporary directory.  A file is its version; an edit  *)
(* of "x" may move the text of the mutant, or remove it.                   *)
(***************************************************************************)
EXTENDS Integers, Sequences, FiniteSets, FiniteSetsExt, SequencesExt

CONSTANTS Workers,    \* the processes
          Configs,    \* the configurations; see Selects, Prepare and TempRoot
          Covers,     \* the coverage profiles
          MaxRuns, MaxEdits   \* bounds

\* What is assumed of the constants; the modules that give their values assume it.
TestTreeAssumption ==
    /\ MaxRuns \in Nat /\ MaxEdits \in Nat
    /\ \A c \in Configs :
          \* those that serve the daemon's protocol; they know no temporary root
          /\ c.daemons \subseteq Workers /\ (c.daemons # {} => c.tempRoot = <<>>)
          /\ c.mode \in {"all", "package", "coverage"} /\ c.prefilter \in BOOLEAN
          /\ c.isolation \in {"temp-workdir", "overlay"}
          /\ c.cache \in {"off", "read-only", "incremental"}

NoResult == "none"

VARIABLES config, cover, tree, edits,
          entries,    \* the cache: entries[key], TornEntry while one is written
          left,       \* the directories in the temporary directory
          killed,     \* those whose process was killed
          w           \* w[i]: process i

treeVars == <<config, cover, tree, edits, entries, left, killed, w>>

\* The files in the order of a walk: go.mod, the mutated file, the tests next to it,
\* and a file of another package.
Walk == <<"mod", "x", "x_test", "y">>
Names == ToSet(Walk)
MutantFile == <<"p", "x.go">>
MutantLine == 7
TornEntry == [torn |-> TRUE]
Absent == [name \in Names |-> [version |-> -1, place |-> "gone"]]

-----------------------------------------------------------------------------
(* Test selection                                                           *)

IsGoTestCommand(command) == Len(command) >= 2 /\ SubSeq(command, 1, 2) = <<"go", "test">>

\* Blocks that were executed count, by path, by suffix or by base name alone; a
\* profile without any block that parses is searched for the name.
FileMatches(path) == IsSuffix(MutantFile, path) \/ Last(path) = Last(MutantFile)
DataSignal ==
    LET hits == {b \in cover.blocks : b.count > 0 /\ FileMatches(b.file)}
    IN  IF cover.blocks = {} THEN [line |-> cover.mentions, file |-> cover.mentions]
        ELSE [line |-> \E b \in hits : MutantLine \in b.first..b.last, file |-> hits # {}]
CoverageSignal == IF cover.exists THEN DataSignal ELSE [line |-> FALSE, file |-> FALSE]

\* Flags whose value is an argument of its own; after any other flag, -p among them,
\* the value passes for a package.
SeparateValue == {"-run", "-bench", "-count", "-timeout", "-coverprofile", "-covermode", "-coverpkg",
                  "-tags", "-cpu", "-parallel", "-shuffle"}
Flags == SeparateValue \cup {"-v", "-race", "-short", "-p", "-exec", "-vet"}
Positional(command) ==
    LET value[n \in 1..Len(command)] ==
            n > 3 /\ command[n - 1] \in SeparateValue /\ ~value[n - 1]
    IN  {n \in 3..Len(command) : command[n] \notin Flags /\ ~value[n]}
PackageScopedCommand(command) ==
    LET packages == Positional(command)
        kept == SelectSeq([n \in DOMAIN command |-> n], LAMBDA n : n \notin packages \/ n = Min(packages))
        scoped == [n \in DOMAIN kept |-> IF kept[n] \in packages THEN "./p" ELSE command[kept[n]]]
    IN  IF packages = {} THEN Append(scoped, "./p") ELSE scoped

Plan(covers, command) == [covers |-> covers, command |-> command]
SelectTests ==
    LET command == IF config.command = <<>> THEN <<"go", "test", "./...">> ELSE config.command
        scoped == PackageScopedCommand(command)
        signal == CoverageSignal
    IN  CASE config.prefilter /\ ~signal.file -> Plan(FALSE, command)
          [] config.mode = "package" /\ IsGoTestCommand(command) -> Plan(TRUE, scoped)
          [] config.mode = "coverage" -> IF signal.file /\ IsGoTestCommand(command)
                                         THEN Plan(TRUE, scoped) ELSE Plan(FALSE, command)
          [] OTHER -> Plan(TRUE, command)

-----------------------------------------------------------------------------
(* Where copies are made.  Windows avoids a system directory in OneDrive,   *)
(* on a network path, or that contains or lies in the module; a configured  *)
(* one is taken as it is.                                                   *)

PathContainsOther(a, b) == IsPrefix(a, b) \/ IsPrefix(b, a)
Synced(path) == "onedrive" \in ToSet(path)
Risky(path, m) == Synced(path) \/ m.unc[path] \/ PathContainsOther(m.module, path)
ResolveTempRoot(m) ==
    LET fit == SelectSeq(m.candidates, LAMBDA path : ~Risky(path, m))
    IN  IF config.tempRoot # <<>> THEN config.tempRoot
        ELSE IF m.windows /\ Risky(m.systemTemp, m) /\ fit # <<>> THEN Head(fit)
        ELSE m.systemTemp
\* A copy into the module itself goes on into the copy until a path is too long.
CopyEnds == ~IsPrefix(config.machine.module, ResolveTempRoot(config.machine))

-----------------------------------------------------------------------------
Idle == [at |-> "idle", runs |-> 0, fingerprint |-> 0, command |-> <<>>, key |-> <<>>,
         was |-> Absent, seen |-> Absent, disturbed |-> FALSE, mutated |-> NoResult, pass |-> FALSE,
         todo |-> {}, result |-> NoResult, hit |-> TornEntry]

TreeInit ==
    /\ config \in Configs /\ cover \in Covers
    /\ tree = [name \in Names |-> [version |-> 0, place |-> "same"]] /\ edits = 0
    /\ entries = [key \in {} |-> TornEntry] /\ left = {} /\ killed = {}
    /\ w = [i \in Workers |-> Idle]

At(i, step) == w[i].at = step
Then(i, step) == w' = [w EXCEPT ![i].at = step]
Dir(i) == <<i, w[i].runs>>
End(i, result) == w' = [w EXCEPT ![i] = [Idle EXCEPT !.runs = w[i].runs, !.result = result]]

\* Discovery names the mutant after the file it was found in; the daemon is sent one
\* that was found in the first version.
Begin(i) ==
    /\ At(i, "idle") /\ w[i].runs < MaxRuns
    /\ w' = [w EXCEPT ![i] = [Idle EXCEPT !.runs = w[i].runs + 1,
                                !.at = IF i \in config.daemons THEN "prepare" ELSE "select",
                                !.command = IF i \in config.daemons THEN <<"go", "test", "./p">> ELSE <<>>,
                                !.fingerprint = IF i \in config.daemons THEN 0 ELSE tree["x"].version]]
    /\ UNCHANGED <<config, cover, tree, edits, entries, left, killed>>

Select(i) ==
    /\ At(i, "select")
    /\ IF SelectTests.covers THEN w' = [w EXCEPT ![i].at = "key", ![i].command = SelectTests.command]
       ELSE End(i, "not_covered")
    /\ UNCHANGED <<config, cover, tree, edits, entries, left, killed>>

\* Mutated form of CacheKey: the tests are left out of the key.
CacheKeyWithoutTests(i) ==
    [fingerprint |-> w[i].fingerprint, command |-> w[i].command,
     files |-> [name \in {"mod", "x"} |-> tree[name].version]]

\* The tests of other packages and the sources next to the mutant are not in the key.
CacheKey(i) ==
    [fingerprint |-> w[i].fingerprint, command |-> w[i].command,
     files |-> [name \in {"mod", "x", "x_test"} |-> tree[name].version]]

ReadKey(i) ==
    /\ At(i, "key")
    /\ w' = [w EXCEPT ![i].at = IF config.cache = "off" THEN "prepare" ELSE "get",
                      ![i].key = CacheKey(i), ![i].was = tree]
    /\ UNCHANGED <<config, cover, tree, edits, entries, left, killed>>

\* An entry that cannot be parsed is no hit.
GetCached(i) ==
    /\ At(i, "get")
    /\ IF w[i].key \in DOMAIN entries /\ entries[w[i].key] # TornEntry
       THEN w' = [w EXCEPT ![i] = [Idle EXCEPT !.runs = w[i].runs, !.result = "cached",
                                     !.was = w[i].was, !.hit = entries[w[i].key]]]
       ELSE Then(i, "prepare")
    /\ UNCHANGED <<config, cover, tree, edits, entries, left, killed>>

Overlay(i) == i \notin config.daemons /\ config.isolation = "overlay"

CreateTempDir(i) ==
    /\ At(i, "prepare")
    /\ left' = left \cup {Dir(i)}
    /\ w' = [w EXCEPT ![i].at = "read", ![i].todo = IF Overlay(i) THEN {"x"} ELSE Names]
    /\ UNCHANGED <<config, cover, tree, edits, entries, killed>>

\* The file or the whole module is copied, file by file.
See(i, name) == w' = [w EXCEPT ![i].todo = @ \ {name}, ![i].seen[name] = tree[name]]
Copy(i) ==
    /\ At(i, "read") /\ (Overlay(i) \/ CopyEnds)
    /\ \E n \in 1..Len(Walk) :
          /\ Walk[n] \in w[i].todo /\ \A m \in 1..(n - 1) : Walk[m] \notin w[i].todo
          /\ See(i, Walk[n])
    /\ UNCHANGED <<config, cover, tree, edits, entries, left, killed>>

RemoveAfterError(i) == left' = left \ {Dir(i)} /\ End(i, "error")
FailCopy(i) ==
    /\ At(i, "read") /\ ~Overlay(i) /\ ~CopyEnds
    /\ RemoveAfterError(i)
    /\ UNCHANGED <<config, cover, tree, edits, entries, killed>>

\* Where the text of the mutant stands in a version of "x".
Place(i, x) == IF x.version = w[i].fingerprint THEN "same" ELSE x.place
\* Only go test has a flag for the overlay: any other command reads the file itself.
\* With an overlay the tests read the other files where they are.
ReadByTests(i) ==
    IF ~Overlay(i) THEN {} ELSE IF IsGoTestCommand(w[i].command) THEN Names \ {"x"} ELSE Names
Mutated(i) ==
    IF Overlay(i) /\ ~IsGoTestCommand(w[i].command) THEN NoResult ELSE Place(i, w[i].seen["x"])

BeginTest(i) ==
    w' = [w EXCEPT ![i].at = "test", ![i].mutated = Mutated(i), ![i].todo = ReadByTests(i)]

\* Mutated form of ApplyReplacement: the directory stays when the text is not found.
ApplyReplacementKeepingDir(i) ==
    /\ At(i, "read") /\ w[i].todo = {}
    /\ IF Place(i, w[i].seen["x"]) = "gone" THEN End(i, "error")
       ELSE BeginTest(i)
    /\ UNCHANGED <<config, cover, tree, edits, entries, left, killed>>

ApplyReplacement(i) ==
    /\ At(i, "read") /\ w[i].todo = {}
    /\ IF Place(i, w[i].seen["x"]) = "gone" THEN RemoveAfterError(i)
       ELSE BeginTest(i) /\ UNCHANGED left
    /\ UNCHANGED <<config, cover, tree, edits, entries, killed>>

TestReads(i) ==
    /\ At(i, "test")
    /\ \E name \in w[i].todo : See(i, name)
    /\ UNCHANGED <<config, cover, tree, edits, entries, left, killed>>

Writes(i) == i \notin config.daemons /\ config.cache = "incremental"
Test(i) ==
    /\ At(i, "test") /\ w[i].todo = {}
    /\ \E pass \in BOOLEAN :
          w' = [w EXCEPT ![i].at = IF Writes(i) THEN "put" ELSE "cleanup", ![i].pass = pass,
                         ![i].result = IF pass THEN "survived" ELSE "killed"]
    /\ UNCHANGED <<config, cover, tree, edits, entries, left, killed>>
FailTest(i) ==
    /\ At(i, "test")
    /\ w' = [w EXCEPT ![i].at = "cleanup", ![i].result = "error"]
    /\ UNCHANGED <<config, cover, tree, edits, entries, left, killed>>

\* An entry is written in place.
Put(key, entry) ==
    entries' = [k \in DOMAIN entries \cup {key} |-> IF k = key THEN entry ELSE entries[k]]
PutCached(i) ==
    /\ \/ At(i, "put") /\ Put(w[i].key, TornEntry) /\ Then(i, "write")
       \/ /\ At(i, "write") /\ Then(i, "cleanup")
          /\ Put(w[i].key, [torn |-> FALSE, seen |-> w[i].seen, pass |-> w[i].pass,
                            disturbed |-> w[i].disturbed])
    /\ UNCHANGED <<config, cover, tree, edits, left, killed>>

Cleanup(i) ==
    /\ At(i, "cleanup")
    /\ left' = left \ {Dir(i)} /\ End(i, w[i].result)
    /\ UNCHANGED <<config, cover, tree, edits, entries, killed>>

Kill(i) ==
    /\ ~At(i, "idle") /\ End(i, "killed process")
    /\ killed' = killed \cup {Dir(i)}
    /\ UNCHANGED <<config, cover, tree, edits, entries, left>>

\* Somebody edits a file; every process under way is disturbed.
Edit ==
    /\ edits < MaxEdits /\ edits' = edits + 1
    /\ \E name \in Names, place \in {"other", "gone"} :
          /\ name # "x" => place = "other"
          /\ tree' = [tree EXCEPT ![name] = [version |-> edits + 1, place |-> place]]
    /\ w' = [i \in Workers |-> [w[i] EXCEPT !.disturbed = w[i].disturbed \/ ~At(i, "idle")]]
    /\ UNCHANGED <<config, cover, entries, left, killed>>

TreeNext ==
    \/ \E i \in Workers :
          \/ Begin(i) \/ Select(i) \/ ReadKey(i) \/ GetCached(i) \/ CreateTempDir(i) \/ Copy(i)
          \/ FailCopy(i) \/ ApplyReplacement(i) \/ TestReads(i) \/ Test(i) \/ FailTest(i)
          \/ PutCached(i) \/ Cleanup(i) \/ Kill(i)
    \/ Edit

TreeSpec == TreeInit /\ [][TreeNext]_treeVars

-----------------------------------------------------------------------------
\* A verdict taken from the cache that was observed without an edit in between was
\* observed on the same mutated file, the same tests next to it and the same go.mod
\* as the run that takes it has, and it is a whole entry
\* (cacheKey, getCached, putCached, cache_flow.go).
HitsAreOfKeyedTree ==
    \A i \in Workers : w[i].result = "cached" =>
        /\ w[i].hit # TornEntry
        /\ ~w[i].hit.disturbed =>
              \A name \in {"mod", "x", "x_test"} : w[i].hit.seen[name] = w[i].was[name]

\* Whatever step fails, a process that was not killed leaves no directory behind
\* (prepareMutation, workspace_flow.go; CopyModuleWithRoot, isolate.go;
\* PrepareOverlay, mutationfs.go).
WorkdirsAreRemoved ==
    \A d \in left : d \in killed \/ (d = Dir(d[1]) /\ ~At(d[1], "idle"))

\* The tests of a mutant that survives ran over the mutated file
\* (WithOverlayFlag, gotestenv.go; prepareOverlayMutation, workspace_flow.go).
SurvivorsWereMutated ==
    \A i \in Workers : ~At(i, "idle") /\ w[i].result = "survived" => w[i].mutated # NoResult

-----------------------------------------------------------------------------
(* What the proofs rest on: an inductive invariant.                         *)

FileVersions == [version : Int, place : {"same", "other", "gone"}]
CacheEntries == {TornEntry} \cup [torn : {FALSE}, seen : [Names -> FileVersions], pass : BOOLEAN, disturbed : BOOLEAN]
KeyNames == {"mod", "x", "x_test"}

\* The steps of a process that uses the cache or may, that has taken its key, and
\* that has a directory.
Cached == {"select", "key", "get", "put", "write"}
WithDir == {"read", "test", "put", "write", "cleanup"}
PastKey == {"get", "prepare"} \cup WithDir
Steps == {"idle", "select", "key"} \cup PastKey

Process(r) ==
    /\ DOMAIN r = DOMAIN Idle
    /\ r.at \in Steps /\ r.runs \in Nat /\ r.pass \in BOOLEAN /\ r.disturbed \in BOOLEAN
    /\ r.was \in [Names -> FileVersions] /\ r.seen \in [Names -> FileVersions] /\ r.todo \subseteq Names
    /\ r.at # "idle" => r.result # "cached"

TypeOK ==
    /\ edits \in Nat /\ tree \in [Names -> FileVersions]
    /\ \A key \in DOMAIN entries : entries[key] \in CacheEntries
    /\ DOMAIN w = Workers
    /\ \A i \in Workers : Process(w[i]) /\ (w[i].at \in Cached => i \notin config.daemons)

\* A directory is one of a killed process, or of the run its process is at.
Owned ==
    /\ left \subseteq Workers \X Nat
    /\ \A d \in left : d \in killed \/ (d = Dir(d[1]) /\ w[d[1]].at \in WithDir)

\* Whatever was read of a file, by anyone, is one of the versions it has had: what
\* has the same version is the same.
Snapshots(name) ==
    {Absent[name], tree[name]} \cup {w[i].was[name] : i \in Workers} \cup {w[i].seen[name] : i \in Workers}
    \cup {entries[key].seen[name] : key \in {key \in DOMAIN entries : entries[key] # TornEntry}}
Dated ==
    \A name \in Names : \A s, t \in Snapshots(name) :
        s.version <= edits /\ (s.version = t.version => s = t)

\* What process i has read of the tree it tests.
Known(i) ==
    CASE At(i, "read") -> (IF Overlay(i) THEN {"x"} ELSE Names) \ w[i].todo
      [] At(i, "test") -> Names \ w[i].todo
      [] w[i].at \in {"put", "write"} -> Names
      [] OTHER -> {}

\* A key tells the versions it was taken from, and a process that no edit has
\* disturbed since has read these.
Keyed ==
    \A i \in Workers \ config.daemons : w[i].at \in PastKey =>
        /\ \A name \in KeyNames : w[i].key.files[name] = w[i].was[name].version
        /\ ~w[i].disturbed => w[i].was = tree /\ \A name \in Known(i) : w[i].seen[name] = tree[name]

\* An entry of an undisturbed process was observed on the versions its key tells.
Sound ==
    \A key \in DOMAIN entries : entries[key] # TornEntry /\ ~entries[key].disturbed =>
        \A name \in KeyNames : entries[key].seen[name].version = key.files[name]

TreeInv == TypeOK /\ Owned /\ Dated /\ Keyed /\ Sound /\ HitsAreOfKeyedTree
=============================================================================
