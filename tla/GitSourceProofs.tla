--------------------------- MODULE GitSourceProofs ---------------------------
(***************************************************************************)
(* ScanFaithful for every repository, every set of paths and contents and  *)
(* every number of edits, stagings, commits and failed calls.  A path is   *)
(* sure when nothing disturbed the running scan about it; the invariant    *)
(* follows, for the sure paths, what each answer of git is worth once the  *)
(* others have moved on.                                                   *)
(***************************************************************************)
EXTENDS GitSource, TLAPS

Held   == Blobs \cup {NoFile}
Phases == {"idle", "asking", "revisions", "reading"}

ScanTypes ==
  [phase : Phases, files : SUBSET (Paths \ GloballyIgnored), treeRead : BOOLEAN, statusRead : BOOLEAN,
   tree : [Paths -> Held], dirty : SUBSET Paths, asked : SUBSET Paths, hashed : [Paths -> Held],
   revisions : [Paths -> Revisions], toProcess : SUBSET Paths]

Types ==
  /\ repository \in {"cli", "iso"}
  /\ head \in [Paths -> Held] /\ gitIndex \in [Paths -> Held] /\ work \in [Paths -> Held]
  /\ commits \in Nat \ {0}
  /\ scan \in ScanTypes
  /\ scan.asked \subseteq scan.files /\ scan.toProcess \subseteq scan.files \ Uncovered
  /\ known \in [Paths -> Revisions] /\ indexed \in [Paths -> Held]
  /\ unsure \subseteq Paths /\ tainted \subseteq Paths

\* A path that .gitignore names is neither staged nor committed.
IgnoredUntracked == \A p \in GitIgnored : head[p] = NoFile /\ gitIndex[p] = NoFile

\* The list of files still holds for the sure paths.
ListHolds ==
  Scanning => \A p \in Paths \ unsure :
                p \in scan.files <=> work[p] # NoFile /\ p \notin GloballyIgnored

\* A sure file that the status does not name is as committed, and stays so: the
\* CLI looks at the index too, the other repository only at the commit.
StatusHolds ==
  scan.phase = "asking" /\ scan.statusRead /\ repository = "cli" =>
    \A p \in scan.files \ (unsure \cup scan.dirty \cup GitIgnored) :
      work[p] = gitIndex[p] /\ gitIndex[p] = head[p]

\* Before git answered, the tree is empty.
TreeUnread ==
  scan.phase = "asking" /\ ~scan.treeRead => \A p \in Paths : scan.tree[p] = NoFile

\* Until the status is read a commit of a sure file would be noticed.
TreeWaits ==
  scan.phase = "asking" /\ scan.treeRead /\ ~scan.statusRead =>
    \A p \in scan.files \ unsure : scan.tree[p] \in {head[p], NoFile}

\* Afterwards the tree tells the content of a clean file, or nothing.
TreeHolds ==
  scan.phase = "asking" /\ scan.treeRead /\ scan.statusRead =>
    \A p \in scan.files \ (unsure \cup scan.dirty) : scan.tree[p] \in {work[p], NoFile}

\* What was hashed is what the file still holds.
HashHolds ==
  scan.phase = "asking" => \A p \in scan.asked \ unsure : scan.hashed[p] = work[p]

\* The isomorphic repository asks for the status last.
IsoOrder ==
  scan.phase = "asking" /\ repository = "iso" /\ scan.statusRead => scan.treeRead

\* The revision of a sure file is its content.
RevisionsHold ==
  scan.phase \in {"revisions", "reading"} =>
    \A p \in scan.files \ unsure : scan.revisions[p] = Blob(work[p])

\* What is not to be processed any more is known by that revision, and nothing is
\* known but what the scan covers.
ProcessedKnown ==
  scan.phase = "reading" =>
    /\ \A p \in (scan.files \ Uncovered) \ (unsure \cup scan.toProcess) : known[p] = scan.revisions[p]
    /\ \A p \in Paths \ (scan.files \ Uncovered) : known[p] = None

IInv ==
  /\ Types /\ IgnoredUntracked /\ ListHolds /\ StatusHolds /\ TreeUnread /\ TreeWaits
  /\ TreeHolds /\ HashHolds /\ IsoOrder /\ RevisionsHold /\ ProcessedKnown /\ RevisionNamesContent

----------------------------------------------------------------------------
(* What the invariant gives.                                               *)

(* A revision is one of three kinds, and tells its content.                *)
LEMMA Kinds ==
  /\ \A a, b \in Held : Blob(a) = Blob(b) => a = b
  /\ \A b \in Held : Blob(b) # None
  /\ \A b \in Held, n \in Nat : Blob(b) # Commit(n)
  /\ \A n \in Nat : Commit(n) # None
BY DEF Blob, Commit, None

\* The invariant implies what the run checks.
LEMMA Faithful == IInv => ScanFaithful
<1> SUFFICES ASSUME IInv PROVE ScanFaithful
  OBVIOUS
<1>1. GitTypeOK
  BY DEF IInv, Types, ScanTypes, GitTypeOK, Held
<1>2. ASSUME scan.phase = "reading", scan.toProcess = {}, unsure = {}, NEW p \in Paths
      PROVE  IF work[p] = NoFile \/ p \in GloballyIgnored \cup Uncovered
             THEN known[p] = None
             ELSE p \notin tainted => indexed[p] = work[p]
  <2>1. p \in scan.files <=> work[p] # NoFile /\ p \notin GloballyIgnored
    BY <1>2 DEF IInv, ListHolds, Scanning
  <2>2. CASE work[p] = NoFile \/ p \in GloballyIgnored \cup Uncovered
    BY <2>1, <2>2, <1>2 DEF IInv, ProcessedKnown
  <2>3. CASE ~(work[p] = NoFile \/ p \in GloballyIgnored \cup Uncovered)
    <3>1. p \in (scan.files \ Uncovered) \ (unsure \cup scan.toProcess)
      BY <2>1, <2>3, <1>2
    <3>2. known[p] = Blob(work[p])
      BY <3>1, <1>2 DEF IInv, ProcessedKnown, RevisionsHold
    <3>3. work[p] \in Blobs
      BY <2>3 DEF IInv, Types, Held
    <3> QED
      BY <2>3, <3>2, <3>3 DEF IInv, RevisionNamesContent
  <2> QED
    BY <2>2, <2>3
<1>3. QuietScanSeesAll
  BY <1>2 DEF QuietScanSeesAll
<1> QED
  BY <1>1, <1>3 DEF ScanFaithful, IInv

\* It holds before the first scan.
LEMMA InitInv == GitInit => IInv
<1> SUFFICES ASSUME GitInit PROVE IInv
  OBVIOUS
<1>1. /\ None \in Revisions
      /\ \A b : Blob(b) # None
  BY DEF Revisions, Blob, None
<1>2. scan \in ScanTypes /\ scan.phase = "idle" /\ scan.asked = {} /\ scan.toProcess = {}
  BY <1>1 DEF GitInit, NoScan, ScanTypes, Phases, Held
<1>3. Types
  BY <1>1, <1>2 DEF GitInit, Types, Held
<1>4. RevisionNamesContent
  BY <1>1 DEF GitInit, RevisionNamesContent
<1>5. IgnoredUntracked
  BY DEF GitInit, IgnoredUntracked
<1> QED
  BY <1>2, <1>3, <1>4, <1>5 DEF IInv, ListHolds, Scanning, StatusHolds, TreeUnread, TreeWaits, TreeHolds,
    HashHolds, IsoOrder, RevisionsHold, ProcessedKnown
----------------------------------------------------------------------------
(* Users: an edit makes the scan unsure of its path, a staging moves the   *)
(* index to the content, a commit moves the commit to the index.           *)

\* An edit makes its file unsure if it falls into a scan.
LEMMA EditKeeps ==
  ASSUME IInv, NEW p \in Paths, Edit(p)
  PROVE  IInv'
<1> USE DEF IInv
<1>1. /\ UNCHANGED <<repository, scan, known, indexed, tainted, head, gitIndex, commits>>
      /\ work' \in [Paths -> Held]
      /\ \A q \in Paths \ {p} : work'[q] = work[q]
      /\ unsure \subseteq unsure' /\ unsure' \subseteq Paths
      /\ Scanning => p \in unsure'
  BY DEF Edit, UserStep, Types, Held
<1>2. Scanning => \A q \in Paths \ unsure' : q \notin unsure /\ work'[q] = work[q]
  BY <1>1
<1>3. Types' /\ IgnoredUntracked'
  BY <1>1 DEF Types, IgnoredUntracked, ScanTypes, Revisions
<1>4. ListHolds'
  BY <1>1, <1>2 DEF ListHolds, Scanning
<1>5. StatusHolds' /\ TreeUnread' /\ TreeWaits' /\ TreeHolds' /\ IsoOrder'
  BY <1>1, <1>2 DEF StatusHolds, TreeUnread, TreeWaits, TreeHolds, IsoOrder, Scanning, Types, ScanTypes
<1>6. HashHolds' /\ RevisionsHold'
  BY <1>1, <1>2 DEF HashHolds, RevisionsHold, Scanning, Types, ScanTypes
<1>7. ProcessedKnown' /\ RevisionNamesContent'
  BY <1>1, <1>2 DEF ProcessedKnown, RevisionNamesContent
<1> QED
  BY <1>3, <1>4, <1>5, <1>6, <1>7

\* Staging a file changes nothing that a sure file rests on.
LEMMA StageKeeps ==
  ASSUME IInv, NEW p \in Paths, Stage(p)
  PROVE  IInv'
<1> USE DEF IInv
<1>1. /\ UNCHANGED <<repository, scan, known, indexed, tainted, head, work, commits, unsure>>
      /\ gitIndex' \in [Paths -> Held]
      /\ \A q \in Paths \ {p} : gitIndex'[q] = gitIndex[q]
      /\ gitIndex'[p] = work[p] /\ gitIndex[p] # work[p] /\ p \notin GitIgnored
  BY DEF Stage, UserStep, Types
<1>2. Types' /\ IgnoredUntracked'
  BY <1>1, GitAssumption DEF Types, IgnoredUntracked, ScanTypes, Revisions
<1>3. StatusHolds'
  BY <1>1 DEF StatusHolds, Types, ScanTypes
<1>4. ListHolds' /\ TreeUnread' /\ TreeWaits' /\ TreeHolds' /\ IsoOrder'
  BY <1>1 DEF ListHolds, Scanning, TreeUnread, TreeWaits, TreeHolds, IsoOrder
<1>5. HashHolds' /\ RevisionsHold' /\ ProcessedKnown' /\ RevisionNamesContent'
  BY <1>1 DEF HashHolds, RevisionsHold, ProcessedKnown, RevisionNamesContent
<1> QED
  BY <1>2, <1>3, <1>4, <1>5

\* A commit makes the files it changes unsure if it falls between two questions.
LEMMA CommitKeeps ==
  ASSUME IInv, MakeCommit
  PROVE  IInv'
<1> USE DEF IInv
<1>1. /\ UNCHANGED <<repository, scan, known, indexed, tainted, gitIndex, work>>
      /\ head' = gitIndex /\ commits' = commits + 1
      /\ unsure \subseteq unsure' /\ unsure' \subseteq Paths
      /\ scan.treeRead /\ ~scan.statusRead =>
           \A q \in Paths \ unsure' : head'[q] = head[q]
  BY DEF MakeCommit, UserStep, Types
<1>2. /\ commits' \in Nat \ {0} /\ 1..commits \subseteq 1..commits'
      /\ Revisions \subseteq Revisions'
  BY <1>1 DEF Types, Revisions
<1>3. scan' \in ScanTypes' /\ known' \in [Paths -> Revisions']
  BY <1>1, <1>2 DEF Types, ScanTypes
<1>4. Types' /\ IgnoredUntracked'
  BY <1>1, <1>2, <1>3 DEF Types, IgnoredUntracked
<1>5. StatusHolds'
  BY <1>1 DEF StatusHolds, Types, ScanTypes
<1>6. TreeWaits'
  BY <1>1 DEF TreeWaits, Types, ScanTypes
<1>7. ListHolds' /\ TreeUnread' /\ TreeHolds' /\ IsoOrder'
  BY <1>1 DEF ListHolds, Scanning, TreeUnread, TreeHolds, IsoOrder
<1>8. HashHolds' /\ RevisionsHold' /\ ProcessedKnown' /\ RevisionNamesContent'
  BY <1>1 DEF HashHolds, RevisionsHold, ProcessedKnown, RevisionNamesContent
<1> QED
  BY <1>4, <1>5, <1>6, <1>7, <1>8
----------------------------------------------------------------------------
(* The scan, call by call.                                                 *)

(* A scan that ends or fails leaves nothing to be faithful about but what  *)
(* is recorded.                                                            *)
LEMMA NoScanKeeps ==
  ASSUME IInv, scan' = NoScan, ScanStep, UNCHANGED <<known, indexed, unsure, tainted>>
  PROVE  IInv'
<1> USE DEF IInv
<1>1. UNCHANGED <<repository, head, gitIndex, work, commits>>
  BY DEF ScanStep
<1>2. Revisions' = Revisions /\ None \in Revisions
  BY <1>1 DEF Revisions
<1>3. /\ scan'.phase = "idle" /\ scan'.asked = {} /\ scan'.toProcess = {}
      /\ scan' \in ScanTypes'
  BY <1>2 DEF NoScan, ScanTypes, Phases, Held
<1>4. Types' /\ IgnoredUntracked' /\ RevisionNamesContent'
  BY <1>1, <1>2, <1>3 DEF Types, IgnoredUntracked, RevisionNamesContent
<1> QED
  BY <1>3, <1>4 DEF ListHolds, Scanning, StatusHolds, TreeUnread, TreeWaits, TreeHolds,
    HashHolds, IsoOrder, RevisionsHold, ProcessedKnown

\* The list of files a scan starts with is that of the work tree.
LEMMA GetAllTrackedFilesKeeps ==
  ASSUME IInv, GetAllTrackedFiles
  PROVE  IInv'
<1> USE DEF IInv
<1> DEFINE files == {p \in Paths : work[p] # NoFile} \ GloballyIgnored
<1>1. UNCHANGED <<repository, head, gitIndex, work, commits, known, indexed, tainted>>
  BY DEF GetAllTrackedFiles, ScanStep
<1>2. Revisions' = Revisions /\ None \in Revisions
  BY <1>1 DEF Revisions
<1>3. /\ scan'.files = files /\ scan'.asked = {} /\ scan'.toProcess = {}
      /\ scan'.treeRead = FALSE /\ scan'.statusRead = FALSE
      /\ \A p \in Paths : scan'.tree[p] = NoFile
      /\ \/ scan'.phase = "asking"
         \/ scan'.phase = "revisions" /\ files = {}
      /\ unsure' = {}
  BY DEF GetAllTrackedFiles, NoScan
<1>4. scan' \in ScanTypes'
  BY <1>2 DEF GetAllTrackedFiles, NoScan, ScanTypes, Phases, Held
<1>5. Types' /\ IgnoredUntracked' /\ RevisionNamesContent'
  BY <1>1, <1>2, <1>3, <1>4 DEF Types, IgnoredUntracked, RevisionNamesContent
<1>6. ListHolds' /\ TreeUnread'
  BY <1>1, <1>3 DEF ListHolds, TreeUnread
<1> QED
  BY <1>3, <1>5, <1>6 DEF StatusHolds, TreeWaits, TreeHolds, HashHolds, IsoOrder,
    RevisionsHold, ProcessedKnown

\* The tree that git answers is that of the commit, or nothing.
LEMMA ReadTreeKeeps ==
  ASSUME IInv, ReadTree
  PROVE  IInv'
<1> USE DEF IInv
<1>1. /\ UNCHANGED <<repository, head, gitIndex, work, commits, known, indexed, unsure, tainted>>
      /\ scan.phase = "asking" /\ ~scan.treeRead
  BY DEF ReadTree, ScanStep
<1>2. CASE scan' = NoScan
  BY <1>2, NoScanKeeps DEF ReadTree
<1>3. ASSUME NEW t \in [Paths -> Held], t = head \/ (\A p \in Paths : t[p] = NoFile),
             repository = "iso" => t = head,
             scan' = [scan EXCEPT !.treeRead = TRUE, !.tree = t]
      PROVE  IInv'
  <2>1. /\ scan'.phase = "asking" /\ scan'.files = scan.files /\ scan'.treeRead = TRUE
        /\ scan'.statusRead = scan.statusRead /\ scan'.tree = t /\ scan'.dirty = scan.dirty
        /\ scan'.asked = scan.asked /\ scan'.hashed = scan.hashed
        /\ scan'.revisions = scan.revisions /\ scan'.toProcess = scan.toProcess
        /\ scan' \in ScanTypes
    BY <1>1, <1>3 DEF Types, ScanTypes
  <2>2. Revisions' = Revisions
    BY <1>1 DEF Revisions
  <2>3. Types' /\ IgnoredUntracked' /\ RevisionNamesContent'
    BY <1>1, <2>1, <2>2 DEF Types, ScanTypes, IgnoredUntracked, RevisionNamesContent
  <2>4. ListHolds' /\ StatusHolds' /\ HashHolds' /\ IsoOrder'
    BY <1>1, <2>1 DEF ListHolds, Scanning, StatusHolds, HashHolds, IsoOrder
  <2>5. TreeUnread' /\ TreeWaits'
    BY <1>1, <1>3, <2>1 DEF TreeUnread, TreeWaits, Types, ScanTypes
  <2>6. TreeHolds'
    <3> SUFFICES ASSUME scan.statusRead, NEW p \in scan.files \ (unsure \cup scan.dirty)
                 PROVE  t[p] \in {work[p], NoFile}
      BY <1>1, <2>1 DEF TreeHolds
    <3>1. p \in Paths
      BY DEF Types, ScanTypes
    <3>2. repository = "cli"
      BY <1>1 DEF IsoOrder, Types
    <3>3. CASE p \in GitIgnored
      BY <1>3, <3>1, <3>3 DEF IgnoredUntracked
    <3>4. CASE p \notin GitIgnored
      BY <1>1, <1>3, <3>1, <3>2, <3>4 DEF StatusHolds
    <3> QED
      BY <3>3, <3>4
  <2> QED
    BY <2>1, <2>3, <2>4, <2>5, <2>6 DEF RevisionsHold, ProcessedKnown
<1>4. CASE scan' = [scan EXCEPT !.treeRead = TRUE, !.tree = head]
  BY <1>3, <1>4 DEF Types
<1>5. CASE repository = "cli" /\ scan' = [scan EXCEPT !.treeRead = TRUE]
  <2>1. scan.tree \in [Paths -> Held] /\ \A p \in Paths : scan.tree[p] = NoFile
    BY <1>1 DEF Types, ScanTypes, TreeUnread
  <2>2. scan' = [scan EXCEPT !.treeRead = TRUE, !.tree = scan.tree]
    BY <1>5 DEF Types, ScanTypes
  <2> QED
    BY <1>3, <1>5, <2>1, <2>2
<1> QED
  BY <1>2, <1>4, <1>5 DEF ReadTree

\* The status names every sure file that is not as committed.
LEMMA ReadStatusKeeps ==
  ASSUME IInv, ReadStatus
  PROVE  IInv'
<1> USE DEF IInv
<1>1. /\ UNCHANGED <<repository, head, gitIndex, work, commits, known, indexed, tainted>>
      /\ scan.phase = "asking" /\ ~scan.statusRead
      /\ repository = "iso" => scan.treeRead
  BY DEF ReadStatus, ScanStep
<1>2. Status \subseteq Paths /\ scan.dirty \subseteq Paths
  BY DEF Status, Types, ScanTypes
<1>3. PICK d \in SUBSET Paths :
        /\ scan' = [scan EXCEPT !.statusRead = TRUE, !.dirty = d]
        /\ \/ d = Status /\ unsure' = unsure
           \/ unsure' = unsure \cup scan.files
  <2>1. CASE scan' = [scan EXCEPT !.statusRead = TRUE, !.dirty = Status] /\ UNCHANGED unsure
    BY <1>2, <2>1
  <2>2. CASE scan' = [scan EXCEPT !.statusRead = TRUE] /\ unsure' = unsure \cup scan.files
    <3>1. scan' = [scan EXCEPT !.statusRead = TRUE, !.dirty = scan.dirty]
      BY <2>2 DEF Types, ScanTypes
    <3> QED
      BY <1>2, <2>2, <3>1
  <2> QED
    BY <2>1, <2>2 DEF ReadStatus
<1>4. /\ scan'.phase = "asking" /\ scan'.files = scan.files /\ scan'.treeRead = scan.treeRead
      /\ scan'.statusRead = TRUE /\ scan'.tree = scan.tree /\ scan'.dirty = d
      /\ scan'.asked = scan.asked /\ scan'.hashed = scan.hashed
      /\ scan'.revisions = scan.revisions /\ scan'.toProcess = scan.toProcess
      /\ scan' \in ScanTypes
  BY <1>1, <1>3 DEF Types, ScanTypes
<1>5. /\ unsure \subseteq unsure' /\ unsure' \subseteq Paths
      /\ Revisions' = Revisions
  BY <1>1, <1>3 DEF Types, ScanTypes, Revisions
<1>6. Types' /\ IgnoredUntracked' /\ RevisionNamesContent'
  BY <1>1, <1>4, <1>5 DEF Types, ScanTypes, IgnoredUntracked, RevisionNamesContent
<1>7. ListHolds' /\ TreeUnread' /\ TreeWaits' /\ HashHolds' /\ IsoOrder'
  BY <1>1, <1>4, <1>5 DEF ListHolds, Scanning, TreeUnread, TreeWaits, HashHolds, IsoOrder
<1>8. ASSUME NEW p \in scan.files \ (unsure' \cup d)
      PROVE  /\ p \in Paths /\ p \notin unsure
             /\ p \notin GitIgnored => work[p] = head[p]
             /\ p \notin GitIgnored /\ repository = "cli" => gitIndex[p] = head[p]
  <2>1. d = Status /\ p \in Paths /\ p \notin unsure
    BY <1>3, <1>5 DEF Types, ScanTypes
  <2>2. p \notin GitIgnored => Reported(p)
    BY DEF Reported
  <2> QED
    BY <2>1, <2>2 DEF Status, Types
<1>9. StatusHolds'
  BY <1>1, <1>4, <1>8 DEF StatusHolds
<1>10. TreeHolds'
  <2> SUFFICES ASSUME scan.treeRead, NEW p \in scan.files \ (unsure' \cup d)
               PROVE  scan.tree[p] \in {work[p], NoFile}
    BY <1>1, <1>4 DEF TreeHolds
  <2>1. scan.tree[p] \in {head[p], NoFile}
    BY <1>1, <1>8 DEF TreeWaits
  <2>2. CASE p \in GitIgnored
    BY <2>1, <2>2 DEF IgnoredUntracked
  <2>3. CASE p \notin GitIgnored
    BY <2>1, <2>3, <1>8
  <2> QED
    BY <2>2, <2>3
<1> QED
  BY <1>4, <1>6, <1>7, <1>9, <1>10 DEF RevisionsHold, ProcessedKnown

\* A dirty file that is hashed gets the revision of its content.
LEMMA HashObjectKeeps ==
  ASSUME IInv, NEW p \in Paths, HashObject(p)
  PROVE  IInv'
<1> USE DEF IInv
<1>1. /\ UNCHANGED <<repository, head, gitIndex, work, commits, known, indexed, tainted>>
      /\ scan.phase = "asking" /\ p \in scan.files
  BY DEF HashObject, ScanStep, Answered, DirtyFiles, UntrackedFiles
<1> DEFINE answer == [scan.hashed EXCEPT ![p] = work[p]]
<1>a. answer \in [Paths -> Held] /\ answer[p] = work[p] /\ \A q \in Paths \ {p} : answer[q] = scan.hashed[q]
  BY DEF Types, ScanTypes
<1>b. PICK h \in [Paths -> Held] :
        /\ scan' = [scan EXCEPT !.asked = scan.asked \cup {p}, !.hashed = h]
        /\ \A q \in Paths \ {p} : h[q] = scan.hashed[q]
        /\ \/ h[p] = work[p] /\ unsure' = unsure
           \/ unsure' = unsure \cup {p}
  <2>1. CASE /\ scan' = [scan EXCEPT !.asked = @ \cup {p}, !.hashed[p] = work[p]]
             /\ unsure' = unsure
    <3>1. scan' = [scan EXCEPT !.asked = scan.asked \cup {p}, !.hashed = answer]
      BY <2>1 DEF Types, ScanTypes
    <3> HIDE DEF answer
    <3> QED
      BY <2>1, <3>1, <1>a
  <2>2. CASE scan' = [scan EXCEPT !.asked = @ \cup {p}] /\ unsure' = unsure \cup {p}
    <3>1. /\ scan.hashed \in [Paths -> Held]
          /\ scan' = [scan EXCEPT !.asked = scan.asked \cup {p}, !.hashed = scan.hashed]
      BY <2>2 DEF Types, ScanTypes
    <3> QED
      BY <2>2, <3>1
  <2> QED
    BY <2>1, <2>2 DEF HashObject
<1>2. /\ scan'.phase = "asking" /\ scan'.files = scan.files /\ scan'.treeRead = scan.treeRead
      /\ scan'.statusRead = scan.statusRead /\ scan'.tree = scan.tree /\ scan'.dirty = scan.dirty
      /\ scan'.asked = scan.asked \cup {p} /\ scan'.hashed = h
      /\ scan'.revisions = scan.revisions /\ scan'.toProcess = scan.toProcess
      /\ scan' \in ScanTypes
  BY <1>1, <1>b DEF Types, ScanTypes
<1>3. /\ \A q \in Paths \ {p} : scan'.hashed[q] = scan.hashed[q]
      /\ \/ scan'.hashed[p] = work[p] /\ unsure' = unsure
         \/ unsure' = unsure \cup {p}
  BY <1>b, <1>2
<1>4. unsure \subseteq unsure' /\ unsure' \subseteq Paths /\ Revisions' = Revisions
  BY <1>1, <1>3 DEF Types, Revisions
<1>5. Types' /\ IgnoredUntracked' /\ RevisionNamesContent'
  BY <1>1, <1>2, <1>4 DEF Types, ScanTypes, IgnoredUntracked, RevisionNamesContent
<1>6. ListHolds' /\ TreeUnread' /\ TreeWaits' /\ IsoOrder'
  BY <1>1, <1>2, <1>4 DEF ListHolds, Scanning, TreeUnread, TreeWaits, IsoOrder
<1>7. StatusHolds' /\ TreeHolds'
  BY <1>1, <1>2, <1>4 DEF StatusHolds, TreeHolds
<1>8. HashHolds'
  BY <1>1, <1>2, <1>3, <1>4 DEF HashHolds, Types, ScanTypes
<1> QED
  BY <1>2, <1>5, <1>6, <1>7, <1>8 DEF RevisionsHold, ProcessedKnown

(* Every sure file gets its content: from the tree when it is clean and    *)
(* tracked, from its hash otherwise.                                       *)
LEMMA GetFileRevisionsKeeps ==
  ASSUME IInv, GetFileRevisions
  PROVE  IInv'
<1> USE DEF IInv
<1>1. /\ UNCHANGED <<repository, head, gitIndex, work, commits, known, indexed, unsure, tainted>>
      /\ scan.phase = "asking" /\ scan.treeRead /\ scan.statusRead
      /\ repository = "cli" => DirtyFiles \cup UntrackedFiles \subseteq scan.asked
  BY DEF GetFileRevisions, ScanStep, Answered
<1> DEFINE rev == [p \in Paths |->
                     IF p \notin scan.files THEN None
                     ELSE IF repository = "cli" THEN CliRevision(p) ELSE IsoRevision(p)]
<1>2. \A b \in Held : Found(b) \in Revisions
  BY DEF Found, Held, Revisions
<1>3. \A p \in Paths : CliRevision(p) \in Revisions /\ IsoRevision(p) \in Revisions
  <2> TAKE p \in Paths
  <2>1. scan.tree[p] \in Held /\ scan.hashed[p] \in Held /\ work[p] \in Held
    BY DEF Types, ScanTypes
  <2> QED
    BY <2>1, <1>2 DEF CliRevision, IsoRevision, First
<1>4. rev \in [Paths -> Revisions]
  BY <1>3 DEF Revisions
<1>5. ASSUME NEW p \in scan.files \ unsure
      PROVE  rev[p] = Blob(work[p])
  <2>1. p \in Paths /\ work[p] # NoFile
    BY <1>1 DEF Types, ScanTypes, ListHolds, Scanning
  <2>2. p \notin scan.dirty => scan.tree[p] \in {work[p], NoFile}
    BY <1>1 DEF TreeHolds
  <2>3. CASE repository = "cli"
    <3>1. p \in scan.asked => scan.hashed[p] = work[p]
      BY <1>1 DEF HashHolds
    <3>2. p \in scan.dirty \/ scan.tree[p] = NoFile => p \in scan.asked
      BY <1>1, <2>3 DEF DirtyFiles, UntrackedFiles
    <3>3. CliRevision(p) = Blob(work[p])
      BY <2>1, <2>2, <3>1, <3>2 DEF CliRevision, Found, First
    <3> QED
      BY <2>1, <2>3, <3>3
  <2>4. CASE repository # "cli"
    <3>1. IsoRevision(p) = Blob(work[p])
      BY <2>1, <2>2 DEF IsoRevision, Found
    <3> QED
      BY <2>1, <2>4, <3>1
  <2> QED
    BY <2>3, <2>4
<1>6. scan' = [scan EXCEPT !.phase = "revisions", !.revisions = rev]
  BY DEF GetFileRevisions
<1> HIDE DEF rev
<1>7. /\ scan'.phase = "revisions" /\ scan'.files = scan.files
      /\ scan'.asked = scan.asked /\ scan'.toProcess = scan.toProcess /\ scan'.revisions = rev
      /\ scan' \in ScanTypes
  BY <1>4, <1>6 DEF Types, ScanTypes, Phases
<1>8. Revisions' = Revisions
  BY <1>1 DEF Revisions
<1>9. Types' /\ IgnoredUntracked' /\ RevisionNamesContent'
  BY <1>1, <1>7, <1>8 DEF Types, ScanTypes, IgnoredUntracked, RevisionNamesContent
<1>10. ListHolds' /\ RevisionsHold'
  BY <1>1, <1>5, <1>7 DEF ListHolds, Scanning, RevisionsHold
<1> QED
  BY <1>7, <1>9, <1>10 DEF StatusHolds, TreeUnread, TreeWaits, TreeHolds, HashHolds, IsoOrder,
    ProcessedKnown

\* The files whose revision is the known one are not processed again.
LEMMA GetChangedFilesKeeps ==
  ASSUME IInv, GetChangedFiles
  PROVE  IInv'
<1> USE DEF IInv
<1> DEFINE current == scan.files \ Uncovered
           gone    == {p \in Paths : known[p] # None} \ current
           rev     == [p \in Paths |-> Revision(p)]
<1>1. /\ UNCHANGED <<repository, head, gitIndex, work, commits, unsure>>
      /\ scan.phase = "revisions"
  BY DEF GetChangedFiles, ScanStep
<1>2. /\ scan' = [scan EXCEPT !.phase = "reading", !.revisions = rev,
                              !.toProcess = {p \in current : known[p] # Revision(p)}]
      /\ known' = [p \in Paths |-> IF p \in gone THEN None ELSE known[p]]
      /\ indexed' = [p \in Paths |-> IF p \in gone THEN NoFile ELSE indexed[p]]
      /\ tainted' = tainted \ gone
  BY DEF GetChangedFiles
<1>3. Revisions' = Revisions /\ None \in Revisions /\ Commit(commits) \in Revisions
  BY <1>1 DEF Revisions, Types
<1>4. rev \in [Paths -> Revisions] /\ \A p \in Paths : rev[p] = Revision(p)
  BY <1>3 DEF Revision, Types, ScanTypes
<1>5. \A p \in Paths : scan.revisions[p] # None => rev[p] = scan.revisions[p]
  BY <1>4 DEF Revision
<1> HIDE DEF rev
<1>6. /\ scan'.phase = "reading" /\ scan'.files = scan.files
      /\ scan'.asked = scan.asked /\ scan'.revisions = rev
      /\ scan'.toProcess = {p \in current : known[p] # rev[p]}
      /\ scan' \in ScanTypes
  BY <1>2, <1>4 DEF Types, ScanTypes, Phases
<1>7. known' \in [Paths -> Revisions] /\ indexed' \in [Paths -> Held]
  BY <1>2, <1>3 DEF Types, Held
<1>8. Types' /\ IgnoredUntracked'
  BY <1>1, <1>2, <1>3, <1>6, <1>7 DEF Types, ScanTypes, IgnoredUntracked
<1>9. RevisionNamesContent'
  <2> SUFFICES ASSUME NEW p \in Paths \ tainted', NEW b \in Blobs, known'[p] = Blob(b)
               PROVE  indexed'[p] = b
    BY DEF RevisionNamesContent
  <2>1. p \notin gone
    BY <1>2, Kinds DEF Held
  <2> QED
    BY <2>1, <1>2 DEF RevisionNamesContent
<1>10. ListHolds' /\ RevisionsHold'
  <2>1. ListHolds'
    BY <1>1, <1>6 DEF ListHolds, Scanning
  <2>2. ASSUME NEW p \in scan.files \ unsure
        PROVE  rev[p] = Blob(work[p])
    <3>1. p \in Paths /\ work[p] \in Held /\ scan.revisions[p] = Blob(work[p])
      BY <1>1 DEF Types, ScanTypes, RevisionsHold
    <3> QED
      BY <3>1, <1>5, Kinds
  <2> QED
    BY <2>1, <2>2, <1>1, <1>6 DEF RevisionsHold
<1>11. ProcessedKnown'
  <2>1. \A p \in current : p \in Paths /\ known'[p] = known[p]
    BY <1>2 DEF Types, ScanTypes
  <2>2. \A p \in Paths \ current : known'[p] = None
    BY <1>2
  <2> QED
    BY <1>6, <2>1, <2>2 DEF ProcessedKnown
<1> QED
  BY <1>6, <1>8, <1>9, <1>10, <1>11 DEF StatusHolds, TreeUnread, TreeWaits, TreeHolds, HashHolds, IsoOrder

\* The content that is indexed is the one its revision names.
LEMMA IndexFileKeeps ==
  ASSUME IInv, NEW p \in Paths, IndexFile(p)
  PROVE  IInv'
<1> USE DEF IInv
<1>1. /\ UNCHANGED <<repository, head, gitIndex, work, commits, unsure>>
      /\ scan.phase = "reading" /\ p \in scan.toProcess
  BY DEF IndexFile, ScanStep
<1>2. /\ scan'.phase = "reading" /\ scan'.files = scan.files
      /\ scan'.asked = scan.asked /\ scan'.revisions = scan.revisions
      /\ scan'.toProcess = scan.toProcess \ {p}
      /\ scan' \in ScanTypes
  BY <1>1 DEF IndexFile, Types, ScanTypes
<1>3. /\ p \in scan.files \ Uncovered /\ scan.revisions[p] \in Revisions /\ work[p] \in Held
      /\ Revisions' = Revisions
  BY <1>1 DEF Types, ScanTypes, Revisions
<1>4. p \notin unsure => work[p] # NoFile /\ scan.revisions[p] = Blob(work[p])
  BY <1>1, <1>3 DEF ListHolds, Scanning, RevisionsHold
<1>5. /\ \A q \in Paths \ {p} : known'[q] = known[q] /\ indexed'[q] = indexed[q]
                                  /\ (q \in tainted' <=> q \in tainted)
      /\ \/ known' = known /\ indexed' = indexed /\ tainted' = tainted /\ work[p] = NoFile
         \/ /\ known'[p] = scan.revisions[p] /\ indexed'[p] = work[p]
            /\ p \in tainted' <=> p \in unsure
      /\ known' \in [Paths -> Revisions] /\ indexed' \in [Paths -> Held] /\ tainted' \subseteq Paths
  BY <1>3 DEF IndexFile, Types
<1>6. Types' /\ IgnoredUntracked'
  BY <1>1, <1>2, <1>3, <1>5 DEF Types, ScanTypes, IgnoredUntracked
<1>7. RevisionNamesContent'
  <2> SUFFICES ASSUME NEW q \in Paths \ tainted', NEW b \in Blobs, known'[q] = Blob(b)
               PROVE  indexed'[q] = b
    BY DEF RevisionNamesContent
  <2>1. CASE q # p \/ (known' = known /\ indexed' = indexed /\ tainted' = tainted)
    BY <2>1, <1>5 DEF RevisionNamesContent
  <2>2. CASE q = p /\ known'[p] = scan.revisions[p] /\ indexed'[p] = work[p] /\ (p \in tainted' <=> p \in unsure)
    BY <2>2, <1>3, <1>4, Kinds DEF Held
  <2> QED
    BY <2>1, <2>2, <1>5
<1>8. ListHolds' /\ RevisionsHold'
  BY <1>1, <1>2 DEF ListHolds, Scanning, RevisionsHold
<1>9. ProcessedKnown'
  BY <1>1, <1>2, <1>3, <1>4, <1>5 DEF ProcessedKnown, Types, ScanTypes
<1> QED
  BY <1>2, <1>6, <1>7, <1>8, <1>9 DEF StatusHolds, TreeUnread, TreeWaits, TreeHolds, HashHolds, IsoOrder

\* The invariant is inductive.
LEMMA StepInv == IInv /\ [GitNext]_gitVars => IInv'
<1> SUFFICES ASSUME IInv, [GitNext]_gitVars PROVE IInv'
  OBVIOUS
<1>1. CASE UNCHANGED gitVars
  BY <1>1 DEF gitVars, IInv, Types, ScanTypes, Revisions, IgnoredUntracked, ListHolds, Scanning,
    StatusHolds, TreeUnread, TreeWaits, TreeHolds, HashHolds, IsoOrder, RevisionsHold,
    ProcessedKnown, RevisionNamesContent
<1>2. CASE GetAllTrackedFiles
  BY <1>2, GetAllTrackedFilesKeeps
<1>3. CASE NoRevision \/ EndScan
  BY <1>3, NoScanKeeps DEF NoRevision, EndScan
<1> QED
  BY <1>1, <1>2, <1>3, EditKeeps, StageKeeps, CommitKeeps, ReadTreeKeeps, ReadStatusKeeps,
    HashObjectKeeps, GetFileRevisionsKeeps, GetChangedFilesKeeps, IndexFileKeeps DEF GitNext

(* What the scan sees is what is there: whichever repository is asked and  *)
(* however edits, stagings, commits and failures fall between its calls, a *)
(* recorded revision names the content that was read, unless the scan was  *)
(* disturbed about that file, and a scan nothing disturbed leaves every    *)
(* covered file indexed as it is and nothing else known.                   *)
THEOREM ScansAreFaithful == GitSpec => []ScanFaithful
<1>1. GitSpec => []IInv
  BY InitInv, StepInv, PTL DEF GitSpec
<1> QED
  BY <1>1, Faithful, PTL
=============================================================================
