----------------------------- MODULE GitSource ------------------------------
(***************************************************************************)
(* How the TypeScript pipeline learns what changed                         *)
(* (packages/virage-core/src/core: git-tracker.ts and                      *)
(* cli-git-source-repository.ts; packages/virage-git-isomorphic).  A scan  *)
(* lists the files, asks git for the revision of each, compares with what  *)
(* the last run recorded and reads the changed files.  Git is asked in     *)
(* several calls, while users edit, stage and commit: `head', `gitIndex'   *)
(* and `work' are what the last commit, the index and the working tree     *)
(* hold.                                                                   *)
(* The SHA of a blob is its content; a file git knows nothing about gets   *)
(* the name of the commit.                                                 *)
(***************************************************************************)
EXTENDS Naturals, FiniteSets

CONSTANTS
    Paths,          \* the files the patterns of the chunkers match
    Blobs,          \* contents
    Uncovered,      \* paths that the include or ignore list of every entry drops
    GloballyIgnored,\* paths under IGNORED_DIRS or globalIgnore
    GitIgnored,     \* paths .gitignore names
    MaxGitSteps,    \* bound: edits, stagings and commits
    MaxGitFailures  \* bound: calls of git that fail

NoFile == "absent"

ASSUME GitAssumption == NoFile \notin Blobs /\ GitIgnored \subseteq Paths

VARIABLES
    repository,     \* "cli" (CliGitSourceRepository) or "iso" (isomorphic-git)
    head, gitIndex, work,
    commits,        \* how many commits there are: the name of HEAD
    gitSteps, gitFailures,
    scan,           \* where the scan is: see NoScan
    known,          \* the revision the last runs recorded for each path
    indexed,        \* the content they read
    unsure,         \* history: paths the scan may be wrong about, and why it may
    tainted         \* history: paths recorded by a scan that was unsure of them

gitVars == <<repository, head, gitIndex, work, commits, gitSteps, gitFailures, scan, known, indexed,
             unsure, tainted>>

None   == <<"none">>
Blob(b)   == <<"blob", b>>
Commit(n) == <<"commit", n>>

\* treeRead and statusRead are settled promises; tree maps paths to blobs, dirty
\* is the status, hashed what hash-object answered, revisions the result.
NoScan ==
    [phase |-> "idle", files |-> {}, treeRead |-> FALSE, statusRead |-> FALSE,
     tree |-> [p \in Paths |-> NoFile], dirty |-> {}, asked |-> {}, hashed |-> [p \in Paths |-> NoFile],
     revisions |-> [p \in Paths |-> None], toProcess |-> {}]

GitInit ==
    /\ repository \in {"cli", "iso"}
    /\ head \in [Paths -> Blobs \cup {NoFile}]
    /\ \A p \in GitIgnored : head[p] = NoFile
    /\ gitIndex = head /\ work = head
    /\ commits = 1 /\ gitSteps = 0 /\ gitFailures = 0
    /\ scan = NoScan
    /\ known = [p \in Paths |-> None]
    /\ indexed = [p \in Paths |-> NoFile]
    /\ unsure = {} /\ tainted = {}

-----------------------------------------------------------------------------
(* What users and git do.                                                  *)

Scanning == scan.phase # "idle"
UserStep ==
    /\ gitSteps < MaxGitSteps /\ gitSteps' = gitSteps + 1
    /\ UNCHANGED <<repository, gitFailures, scan, known, indexed, tainted>>

Edit(p) ==
    /\ UserStep
    /\ \E b \in (Blobs \cup {NoFile}) \ {work[p]} : work' = [work EXCEPT ![p] = b]
    /\ unsure' = IF Scanning THEN unsure \cup {p} ELSE unsure
    /\ UNCHANGED <<head, gitIndex, commits>>

Stage(p) ==
    /\ UserStep
    /\ p \notin GitIgnored /\ gitIndex[p] # work[p]
    /\ gitIndex' = [gitIndex EXCEPT ![p] = work[p]]
    /\ UNCHANGED <<head, work, commits, unsure>>

\* A commit between the two questions to git makes the answers contradict: the
\* tree is the old one and the status says that the file is as in the new one.
MakeCommit ==
    /\ UserStep
    /\ gitIndex # head
    /\ head' = gitIndex
    /\ commits' = commits + 1
    /\ unsure' = IF scan.treeRead /\ ~scan.statusRead
                 THEN unsure \cup {p \in Paths : gitIndex[p] # head[p]} ELSE unsure
    /\ UNCHANGED <<gitIndex, work>>

\* git status: a path that git ignores is not among the untracked ones.
Reported(p) == ~(p \in GitIgnored /\ gitIndex[p] = NoFile /\ head[p] = NoFile)
Status ==
    IF repository = "cli"
    THEN {p \in Paths : Reported(p) /\ (work[p] # gitIndex[p] \/ gitIndex[p] # head[p])}
    ELSE {p \in Paths : Reported(p) /\ work[p] # head[p]}

-----------------------------------------------------------------------------
(* The scan: GitTracker.getCurrentState and getFileRevisions.              *)

ScanStep == UNCHANGED <<repository, head, gitIndex, work, commits, gitSteps>>
Fails    == gitFailures < MaxGitFailures /\ gitFailures' = gitFailures + 1

GetAllTrackedFiles ==
    /\ scan.phase = "idle"
    /\ LET files == {p \in Paths : work[p] # NoFile} \ GloballyIgnored
       IN  scan' = [NoScan EXCEPT !.phase = IF files = {} THEN "revisions" ELSE "asking", !.files = files]
    /\ unsure' = {}
    /\ ScanStep /\ UNCHANGED <<gitFailures, known, indexed, tainted>>

\* ls-tree, or the walk of HEAD.  A failure is an empty tree to the one and the
\* end of the scan to the other.
ReadTree ==
    /\ scan.phase = "asking" /\ ~scan.treeRead
    /\ \/ /\ scan' = [scan EXCEPT !.treeRead = TRUE, !.tree = head]
          /\ UNCHANGED gitFailures
       \/ /\ Fails
          /\ scan' = IF repository = "cli" THEN [scan EXCEPT !.treeRead = TRUE] ELSE NoScan
    /\ ScanStep /\ UNCHANGED <<known, indexed, unsure, tainted>>

\* The status is asked for at the same time as the tree, or after it; when it
\* fails no file counts as dirty.
ReadStatus ==
    /\ scan.phase = "asking" /\ ~scan.statusRead
    /\ repository = "iso" => scan.treeRead
    /\ \/ /\ scan' = [scan EXCEPT !.statusRead = TRUE, !.dirty = Status]
          /\ UNCHANGED <<gitFailures, unsure>>
       \/ /\ Fails
          /\ scan' = [scan EXCEPT !.statusRead = TRUE]
          /\ unsure' = unsure \cup scan.files
    /\ ScanStep /\ UNCHANGED <<known, indexed, tainted>>

Answered       == scan.phase = "asking" /\ scan.treeRead /\ scan.statusRead
DirtyFiles     == scan.files \cap scan.dirty
UntrackedFiles == {p \in scan.files \ scan.dirty : scan.tree[p] = NoFile}

\* hash-object of the dirty files, all at once, then of those that are neither
\* dirty nor in the tree.  A failure leaves the file out.
HashObject(p) ==
    /\ repository = "cli" /\ Answered
    /\ p \in IF DirtyFiles \subseteq scan.asked THEN UntrackedFiles ELSE DirtyFiles
    /\ p \notin scan.asked
    /\ \/ /\ scan' = [scan EXCEPT !.asked = @ \cup {p}, !.hashed[p] = work[p]]
          /\ UNCHANGED <<gitFailures, unsure>>
       \/ /\ Fails
          /\ scan' = [scan EXCEPT !.asked = @ \cup {p}]
          /\ unsure' = unsure \cup {p}
    /\ ScanStep /\ UNCHANGED <<known, indexed, tainted>>

Found(b) == IF b = NoFile THEN None ELSE Blob(b)
First(a, b) == IF a # NoFile THEN a ELSE b

\* Faulty variant: a file of the tree is never hashed.
CliRevisionOfTree(p) == Found(First(scan.tree[p], scan.hashed[p]))

\* The main loop of the CLI repository, ...
CliRevision(p) ==
    Found(IF p \in scan.dirty THEN First(scan.hashed[p], scan.tree[p]) ELSE First(scan.tree[p], scan.hashed[p]))

\* ... and of the other one, which reads the files as it goes.
IsoRevision(p) ==
    Found(IF p \notin scan.dirty /\ scan.tree[p] # NoFile THEN scan.tree[p] ELSE work[p])

GetFileRevisions ==
    /\ Answered
    /\ repository = "cli" => DirtyFiles \cup UntrackedFiles \subseteq scan.asked
    /\ scan' = [scan EXCEPT !.phase = "revisions",
                            !.revisions = [p \in Paths |->
                                IF p \notin scan.files THEN None
                                ELSE IF repository = "cli" THEN CliRevision(p) ELSE IsoRevision(p)]]
    /\ ScanStep /\ UNCHANGED <<gitFailures, known, indexed, unsure, tainted>>

\* A file without a revision gets the name of the commit.
Revision(p) == IF scan.revisions[p] = None THEN Commit(commits) ELSE scan.revisions[p]

\* getCurrentState drops what no entry covers; getChangedFiles compares it with
\* what is known.  Rows of files that are gone are removed before the others are
\* read (Orchestrator!PrepareUpdate and ForgetFile).
GetChangedFiles ==
    /\ scan.phase = "revisions"
    /\ LET current == scan.files \ Uncovered
           gone    == {p \in Paths : known[p] # None} \ current
       IN  /\ scan' = [scan EXCEPT !.phase = "reading", !.revisions = [p \in Paths |-> Revision(p)],
                                   !.toProcess = {p \in current : known[p] # Revision(p)}]
           /\ known' = [p \in Paths |-> IF p \in gone THEN None ELSE known[p]]
           /\ indexed' = [p \in Paths |-> IF p \in gone THEN NoFile ELSE indexed[p]]
           /\ tainted' = tainted \ gone
    /\ ScanStep /\ UNCHANGED <<gitFailures, unsure>>

\* getCurrentRevision fails, and with it the scan.
NoRevision ==
    /\ scan.phase = "revisions"
    /\ Fails
    /\ scan' = NoScan
    /\ ScanStep /\ UNCHANGED <<known, indexed, unsure, tainted>>

\* A changed file is read and recorded under the revision of the scan; one that
\* is gone by now is given up (Orchestrator!ChunkFile and ChunkerFails).
IndexFile(p) ==
    /\ scan.phase = "reading" /\ p \in scan.toProcess
    /\ scan' = [scan EXCEPT !.toProcess = @ \ {p}]
    /\ IF work[p] = NoFile
       THEN UNCHANGED <<known, indexed, tainted>>
       ELSE /\ known' = [known EXCEPT ![p] = scan.revisions[p]]
            /\ indexed' = [indexed EXCEPT ![p] = work[p]]
            /\ tainted' = IF p \in unsure THEN tainted \cup {p} ELSE tainted \ {p}
    /\ ScanStep /\ UNCHANGED <<gitFailures, unsure>>

EndScan ==
    /\ scan.phase = "reading" /\ scan.toProcess = {}
    /\ scan' = NoScan
    /\ ScanStep /\ UNCHANGED <<gitFailures, known, indexed, unsure, tainted>>

GitNext ==
    \/ \E p \in Paths : Edit(p) \/ Stage(p) \/ HashObject(p) \/ IndexFile(p)
    \/ MakeCommit \/ GetAllTrackedFiles \/ ReadTree \/ ReadStatus \/ GetFileRevisions
    \/ GetChangedFiles \/ NoRevision \/ EndScan

GitSpec == GitInit /\ [][GitNext]_gitVars

-----------------------------------------------------------------------------
(* Properties.                                                             *)

Revisions == {None} \cup {Blob(b) : b \in Blobs} \cup {Commit(n) : n \in 1..commits}
GitTypeOK ==
    /\ known \in [Paths -> Revisions]
    /\ indexed \in [Paths -> Blobs \cup {NoFile}]
    /\ scan.toProcess \subseteq scan.files /\ scan.files \subseteq Paths \ GloballyIgnored
    /\ scan.asked \subseteq scan.files

\* The revision recorded for a file names the content that was read: committed,
\* staged, dirty, untracked or ignored, whichever repository was asked, unless the
\* scan that recorded it was disturbed (an edit of that file, a commit of it
\* between the two questions, a failed status or hash-object).  A failed ls-tree
\* does no harm to the CLI repository.
RevisionNamesContent ==
    \A p \in Paths \ tainted, b \in Blobs : known[p] = Blob(b) => indexed[p] = b

\* When a scan that nothing disturbed ends, every covered file was indexed with the
\* content it has, those the scan calls unchanged too, and no other file is known.
QuietScanSeesAll ==
    (scan.phase = "reading" /\ scan.toProcess = {} /\ unsure = {}) =>
        \A p \in Paths :
            IF work[p] = NoFile \/ p \in GloballyIgnored \cup Uncovered
            THEN known[p] = None
            ELSE p \notin tainted => indexed[p] = work[p]

\* A scan sees what changed.
ScanFaithful == GitTypeOK /\ RevisionNamesContent /\ QuietScanSeesAll
=============================================================================
