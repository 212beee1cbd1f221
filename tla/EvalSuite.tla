----------------------------- MODULE EvalSuite -----------------------------
(***************************************************************************)
(* virage eval suite: runSuite of suite-runner.ts, the archive cache of     *)
(* archive.ts, the plugin cache of plugin-install.ts, the experiment table  *)
(* and the gate of the suite.  A run may be killed at every step and        *)
(* repeated; between runs the suite may be edited and the archives behind   *)
(* its URLs may be published anew.                                          *)
(***************************************************************************)
EXTENDS Integers, Sequences, FiniteSets, SequencesExt

CONSTANTS
  Variants,     \* the variants of the suite in their order: [name, db, pins, skip];
                \* db is the run directory, named after the archive and the pins
  Baseline,     \* the name of the baseline variant
  MaxEdits,     \* bound on edits of the suite and on publications
  MaxKills      \* bound on kills

ASSUME SuiteAssumption ==
  /\ Variants \in Seq(ToSet(Variants)) /\ \A i \in DOMAIN Variants : Variants[i].skip \in BOOLEAN
  /\ MaxEdits \in Nat /\ MaxKills \in Nat

Databases == {Variants[i].db : i \in DOMAIN Variants}

VARIABLES
  edition,     \* how often the suite was edited: what its fingerprint tells apart
  published,   \* database -> version of the archive behind its URL
  cacheDir,    \* database -> its extracted directory
  stagingDir,  \* database -> the directory it is extracted to
  modules,     \* database -> its node_modules: "absent", "partial" or "whole"
  progressFile,\* edition -> the progress file: [kind, results]
  experiments, \* the experiment table, as a set of [name, edition, seen]
  suite,       \* the running command: [step, at, noCache, results]
  kills

suiteVars == <<edition, published, cacheDir, stagingDir, modules, progressFile,
               experiments, suite, kills>>

\* A directory: the versions some of whose files are in it, and whether an
\* extraction of the last of them is complete.
NoDir == [versions |-> {}, whole |-> FALSE]

NoSuite == [step |-> "idle", at |-> 0, noCache |-> FALSE, results |-> <<>>]

\* A progress file: absent, torn or with the results so far.
NoProgress == [kind |-> "absent", results |-> <<>>]

TornProgress == [kind |-> "torn", results |-> <<>>]

Saved(results) == [kind |-> "saved", results |-> results]

Editions == 0..MaxEdits

SuiteInit ==
  /\ edition = 0 /\ published = [d \in Databases |-> 1]
  /\ cacheDir = [d \in Databases |-> NoDir]
  /\ stagingDir = [d \in Databases |-> NoDir]
  /\ modules = [d \in Databases |-> "absent"]
  /\ progressFile = [e \in Editions |-> NoProgress]
  /\ experiments = {} /\ suite = NoSuite /\ kills = 0

Database == Variants[suite.at].db

Go(step) == suite' = [suite EXCEPT !.step = step]

ResultNames == {suite.results[i].name : i \in DOMAIN suite.results}

----------------------------------------------------------------------------

\* Faulty variant: the fingerprint is not part of the name of the progress file.
ResumedOfAnySuite(noCache) ==
  IF noCache THEN <<>>
  ELSE IF progressFile[edition].kind = "absent" /\ edition > 0
       THEN progressFile[edition - 1].results ELSE progressFile[edition].results

\* The results a run with this fingerprint saved; a file that does not parse
\* counts as none.
Resumed(noCache) ==
  IF noCache THEN <<>> ELSE progressFile[edition].results

BeginSuite(noCache) ==
  /\ suite.step = "idle"
  /\ suite' = [step |-> "variant", at |-> 1, noCache |-> noCache,
               results |-> Resumed(noCache)]
  /\ UNCHANGED <<edition, published, cacheDir, stagingDir, modules, progressFile,
                 experiments, kills>>

\* The loop over the variants: a skipped one and a completed one are passed by.
NextVariant ==
  /\ suite.step = "variant" /\ suite.at <= Len(Variants)
  /\ IF Variants[suite.at].skip \/ Variants[suite.at].name \in ResultNames
     THEN suite' = [suite EXCEPT !.at = @ + 1]
     ELSE Go("archive")
  /\ UNCHANGED <<edition, published, cacheDir, stagingDir, modules, progressFile,
                 experiments, kills>>

\* An extracted directory that exists is used as it is; otherwise the archive is
\* downloaded to a temporary place and compared with the digest of the suite.
DownloadAndExtractTo ==
  /\ suite.step = "archive"
  /\ IF ~suite.noCache /\ cacheDir[Database].versions # {}
     THEN Go("plugins")
     ELSE Go("extract")
  /\ UNCHANGED <<edition, published, cacheDir, stagingDir, modules, progressFile,
                 experiments, kills>>

\* Files of the archive reach the staging directory; what an earlier extraction
\* left there stays.
ExtractSome ==
  /\ suite.step = "extract"
  /\ stagingDir' = [stagingDir EXCEPT ![Database] =
                      [versions |-> @.versions \cup {published[Database]}, whole |-> FALSE]]
  /\ UNCHANGED <<edition, published, cacheDir, modules, progressFile, experiments,
                 suite, kills>>

ExtractAll ==
  /\ suite.step = "extract"
  /\ stagingDir' = [stagingDir EXCEPT ![Database] =
                      [versions |-> @.versions \cup {published[Database]}, whole |-> TRUE]]
  /\ Go(IF suite.noCache /\ cacheDir[Database].versions # {} THEN "remove" ELSE "rename")
  /\ UNCHANGED <<edition, published, cacheDir, modules, progressFile, experiments, kills>>

\* A failing extraction removes the staging directory and ends the command.
ExtractFails ==
  /\ suite.step = "extract"
  /\ stagingDir' = [stagingDir EXCEPT ![Database] = NoDir]
  /\ suite' = NoSuite
  /\ UNCHANGED <<edition, published, cacheDir, modules, progressFile, experiments, kills>>

\* With noCache the old directory goes before the new one takes its name.
RemoveOld ==
  /\ suite.step = "remove"
  /\ cacheDir' = [cacheDir EXCEPT ![Database] = NoDir]
  /\ Go("rename")
  /\ UNCHANGED <<edition, published, stagingDir, modules, progressFile, experiments, kills>>

RenameStaging ==
  /\ suite.step = "rename"
  /\ cacheDir' = [cacheDir EXCEPT ![Database] = stagingDir[Database]]
  /\ stagingDir' = [stagingDir EXCEPT ![Database] = NoDir]
  /\ Go("plugins")
  /\ UNCHANGED <<edition, published, modules, progressFile, experiments, kills>>

\* Plugins the configuration pins are installed beside the archive, unless there
\* is a node_modules already.
EnsurePluginsInstalled ==
  /\ suite.step = "plugins"
  /\ IF ~Variants[suite.at].pins \/ modules[Database] # "absent"
     THEN Go("evaluate") /\ UNCHANGED modules
     ELSE Go("install") /\ modules' = [modules EXCEPT ![Database] = "partial"]
  /\ UNCHANGED <<edition, published, cacheDir, stagingDir, progressFile, experiments, kills>>

Installed ==
  /\ suite.step = "install"
  /\ modules' = [modules EXCEPT ![Database] = "whole"]
  /\ Go("evaluate")
  /\ UNCHANGED <<edition, published, cacheDir, stagingDir, progressFile, experiments, kills>>

\* The configuration is loaded from a temporary file, the store is opened on the
\* extracted directory and every query of the dataset is run against it.
Evaluate ==
  /\ suite.step = "evaluate"
  /\ Go("save")
  /\ UNCHANGED <<edition, published, cacheDir, stagingDir, modules, progressFile,
                 experiments, kills>>

\* A step of the variant throws: the command ends, the progress stays.
Throw ==
  /\ suite.step \in {"archive", "install", "evaluate"}
  /\ suite' = NoSuite
  /\ UNCHANGED <<edition, published, cacheDir, stagingDir, modules, progressFile,
                 experiments, kills>>

Result ==
  [name |-> Variants[suite.at].name, edition |-> edition, seen |-> cacheDir[Database]]

\* The experiment is a row of the database before the variant counts as done.
SaveRun ==
  /\ suite.step = "save"
  /\ experiments' = experiments \cup {Result}
  /\ suite' = [suite EXCEPT !.step = "progress", !.results = Append(@, Result)]
  /\ UNCHANGED <<edition, published, cacheDir, stagingDir, modules, progressFile, kills>>

\* Faulty variant: the progress is the last result only.
WriteProgressLast ==
  /\ suite.step = "progress"
  /\ progressFile' \in {[progressFile EXCEPT ![edition] = Saved(<<Last(suite.results)>>)], progressFile}
  /\ suite' = [suite EXCEPT !.step = "variant", !.at = @ + 1]
  /\ UNCHANGED <<edition, published, cacheDir, stagingDir, modules, experiments, kills>>

\* The progress file is replaced in place; a failing write is ignored.
WriteProgress ==
  /\ suite.step = "progress"
  /\ progressFile' \in {[progressFile EXCEPT ![edition] = Saved(suite.results)], progressFile}
  /\ suite' = [suite EXCEPT !.step = "variant", !.at = @ + 1]
  /\ UNCHANGED <<edition, published, cacheDir, stagingDir, modules, experiments, kills>>

\* The comparisons with the baseline and the gate; then the progress file goes.
\* A baseline that has no result is an error, and the file stays.
Finish ==
  /\ suite.step = "variant" /\ suite.at > Len(Variants)
  /\ IF Baseline \in ResultNames
     THEN /\ suite' = [suite EXCEPT !.step = "reported"]
          /\ progressFile' = [progressFile EXCEPT ![edition] = NoProgress]
     ELSE suite' = NoSuite /\ UNCHANGED progressFile
  /\ UNCHANGED <<edition, published, cacheDir, stagingDir, modules, experiments, kills>>

Leave ==
  /\ suite.step = "reported" /\ suite' = NoSuite
  /\ UNCHANGED <<edition, published, cacheDir, stagingDir, modules, progressFile,
                 experiments, kills>>

\* A kill in the middle of the write leaves the progress file torn.
KillSuite ==
  /\ suite.step # "idle" /\ kills < MaxKills
  /\ kills' = kills + 1 /\ suite' = NoSuite
  /\ progressFile' \in {progressFile} \cup
       (IF suite.step = "progress" THEN {[progressFile EXCEPT ![edition] = TornProgress]} ELSE {})
  /\ UNCHANGED <<edition, published, cacheDir, stagingDir, modules, experiments>>

\* The suite file or the dataset is edited between two commands.
EditSuite ==
  /\ suite.step = "idle" /\ edition < MaxEdits
  /\ edition' = edition + 1
  /\ UNCHANGED <<published, cacheDir, stagingDir, modules, progressFile, experiments,
                 suite, kills>>

\* Another archive is put behind a URL.
Publish(d) ==
  /\ published[d] <= MaxEdits
  /\ published' = [published EXCEPT ![d] = @ + 1]
  /\ UNCHANGED <<edition, cacheDir, stagingDir, modules, progressFile, experiments,
                 suite, kills>>

SuiteNext ==
  \/ \E noCache \in BOOLEAN : BeginSuite(noCache)
  \/ NextVariant \/ DownloadAndExtractTo
  \/ ExtractSome \/ ExtractAll \/ ExtractFails \/ RemoveOld \/ RenameStaging
  \/ EnsurePluginsInstalled \/ Installed \/ Evaluate \/ Throw
  \/ SaveRun \/ WriteProgress \/ Finish \/ Leave
  \/ KillSuite \/ EditSuite \/ \E d \in Databases : Publish(d)

SuiteSpec == SuiteInit /\ [][SuiteNext]_suiteVars

----------------------------------------------------------------------------
(* Properties.                                                              *)

\* The caches, the progress files and the running command are what the code
\* can leave behind.
SuiteTypeOK ==
  /\ edition \in Editions /\ kills \in 0..MaxKills
  /\ \A d \in Databases :
       /\ cacheDir[d].versions \subseteq 1..published[d]
       /\ modules[d] \in {"absent", "partial", "whole"}
  /\ \A e \in Editions : progressFile[e].kind = "saved" <=> progressFile[e].results # <<>>
  /\ suite.at \in 0..(Len(Variants) + 1)

\* No variant is ever evaluated on a directory an interrupted extraction left:
\* whatever was killed, the directory that has the name is a whole extraction.
WholeArchives ==
  /\ suite.step \in {"evaluate", "save"} => cacheDir[Database].whole
  /\ \A r \in experiments : r.seen.whole

\* A report has every variant that is not skipped once, whether it was run by
\* this command or taken from the progress of one that was interrupted.
ReportComplete ==
  suite.step = "reported" =>
    /\ ResultNames = {Variants[i].name : i \in {j \in DOMAIN Variants : ~Variants[j].skip}}
    /\ \A i, j \in DOMAIN suite.results :
         suite.results[i].name = suite.results[j].name => i = j

\* A result taken from the progress is of the suite and the dataset as they are
\* now.
ResultsOfThisSuite ==
  suite.step \in {"variant", "reported"} =>
    \A i \in DOMAIN suite.results : suite.results[i].edition = edition

\* What the progress file calls done has its row in the experiment table: the
\* run id it names can be opened by virage experiment.
DoneWasSaved ==
  \A e \in Editions : ToSet(progressFile[e].results) \subseteq experiments

\* A report is what the suite asks for: every variant once, from this edition of
\* suite and dataset, measured on whole archives, and each backed by a saved run,
\* whatever was interrupted and resumed before.
ReportSound ==
  SuiteTypeOK /\ WholeArchives /\ ReportComplete /\ ResultsOfThisSuite /\ DoneWasSaved

\* A variant the progress file calls done stays done until the suite has been
\* reported: only a torn write or a command told not to use the cache forgets it.
NoWorkLost ==
  [][\A e \in Editions :
       progressFile'[e] # progressFile[e] =>
         \/ progressFile'[e] = TornProgress
         \/ suite'.step = "reported"
         \/ suite.noCache
         \/ IsPrefix(progressFile[e].results, progressFile'[e].results)]_suiteVars
=============================================================================
