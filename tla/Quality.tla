------------------------------ MODULE Quality ------------------------------
(***************************************************************************)
(* virage quality, in TypeScript ("ts") and in the engine ("rs"): the       *)
(* assessment of eight components of the pipeline in their order, its score *)
(* and its gates, and the history of reports.  What a metric measures is an *)
(* input; which metrics are measured, how they are weighed and what becomes *)
(* of the report is the code's.                                             *)
(***************************************************************************)
EXTENDS Integers, Sequences, FiniteSets, SequencesExt, FiniteSetsExt

CONSTANTS
  SampleSize,        \* --sample-size
  Totals,            \* numbers of chunks the store may hold
  Dims,              \* numbers of components of a vector
  KEEP,              \* maxRuns of the history
  MaxFlaws,          \* MaxFlaws[n]: bound on the components of the n-th run in which
                     \* something could be better
  MaxQualityRuns,    \* bound on runs
  MaxQualityKills    \* bound on kills

ASSUME QualityAssumption ==
  /\ SampleSize \in Nat /\ Totals \subseteq Nat /\ Dims \subseteq Nat \ {0, 1} /\ KEEP \in Nat \ {0}
  /\ MaxQualityRuns \in Nat /\ MaxQualityKills \in Nat
  /\ MaxFlaws \in [1..MaxQualityRuns -> Nat]

Tools == {"ts", "rs"}

\* The percentages a measured metric takes.
Grades == {0, 100}

VARIABLES
  qrun,         \* the running command
  qhistory,     \* tool -> its history directory: [reports, feed, badge]
  qclock,       \* the time in the unit of the tool's timestamps
  qruns,        \* number of runs so far
  qkills,
  exited        \* the command that came to its end last: [tool, run, saved, code]

qualityVars == <<qrun, qhistory, qclock, qruns, qkills, exited>>

NoQuality == [step |-> "idle"]

NoExit == [tool |-> "ts", run |-> 0, saved |-> FALSE, code |-> 0]

QualityInit ==
  /\ qrun = NoQuality
  /\ qhistory = [t \in Tools |-> [reports |-> {}, feed |-> 0, badge |-> 0]]
  /\ qclock = 0 /\ qruns = 0 /\ qkills = 0
  /\ exited = NoExit

----------------------------------------------------------------------------
(* Metrics.  The weights are twice those of the code.                       *)

Measured(weight, value) ==
  [weight |-> weight, value |-> value, skipped |-> FALSE, gate |-> "none"]

Skipped(weight) ==
  [weight |-> weight, value |-> 0, skipped |-> TRUE, gate |-> "none"]

MustPass(weight, value, passed) ==
  [weight |-> weight, value |-> value, skipped |-> FALSE,
   gate |-> IF passed THEN "passed" ELSE "failed"]

MeasuredIf(condition, weight, value) ==
  IF condition THEN Measured(weight, value) ELSE Skipped(weight)

\* The runner hands no AST node counts over, so that Integrity is never measured.
ChunkingMetrics(v) == <<Measured(4, v), Skipped(4), Measured(1, v), Measured(2, v)>>

ChunkingMetricsRs(v, ast) ==
  <<Measured(4, v), MeasuredIf(ast, 4, v), Measured(1, v), Measured(2, v)>>

IMPORT_RESOLUTION_MIN == 70

\* What the chunks of a sample may have beside a breadcrumb.
Fields == {"code", "imports", "siblings"}

\* Four fields are expected of every chunk: breadcrumb, fqn, imports and siblings;
\* those in `filled' are in all chunks, the others in next to none.  A name is
\* measured for code only.
Completeness(v, filled) ==
  (v + (IF "code" \in filled THEN v ELSE 0) + 100 * Cardinality(filled \ {"code"})) \div 4

\* The runner never sets the field siblings, only the links themselves.  It hands
\* over how many imports there are and never how many of them are resolved.
MetadataMetrics(v, fields, filled) ==
  LET resolved == 0
  IN  <<Measured(2, Completeness(v, filled \ {"siblings"})), Measured(2, v),
        MeasuredIf("code" \in fields, 2, v),
        IF "imports" \in fields THEN MustPass(2, resolved, resolved > IMPORT_RESOLUTION_MIN)
                                ELSE Skipped(2),
        MeasuredIf("siblings" \in fields, 1, v)>>

MetadataMetricsRs(v, fields, filled) ==
  <<Measured(2, Completeness(v, filled)), Measured(2, v),
    MeasuredIf("code" \in fields, 2, v),
    IF "imports" \in fields THEN MustPass(2, v, v >= IMPORT_RESOLUTION_MIN) ELSE Skipped(2),
    MeasuredIf("siblings" \in fields, 1, v)>>

DenseInputMetrics(v, enriched) == <<Measured(2, v), MeasuredIf(enriched, 2, v)>>

DenseInputMetricsRs(v, enriched) == <<Measured(2, v), MeasuredIf(enriched, 2, v)>>

SELF_RECALL_MIN == 80

\* 95 percent of the variance in k of d components: 70 to 90 percent of them are
\* wanted.
NormalizeIntrinsicDimension(k, d) ==
  IF 10 * k < 7 * d THEN (1000 * k) \div (7 * d)
  ELSE IF 10 * k <= 9 * d THEN 100 ELSE (1000 * (d - k)) \div d

\* n vectors of d components span n - 1 of them, and no more than 64 are looked at:
\* the best a sample can reach.
IntrinsicDimension(v, n, d) ==
  LET looked == Min({d, n - 1, 64})
      best   == Max({NormalizeIntrinsicDimension(k, d) : k \in 1..looked})
  IN  Min({v, best})

\* The distance to the fifth neighbour needs six vectors.
Uniformity(v, n) == IF n < 6 THEN 0 ELSE v

\* The geometry needs four vectors; the recall of the chunks themselves does not.
\* With fewer the fraction of outliers counts as none.
DenseEmbeddingMetrics(v, recall, outliers, n, d) ==
  LET enough == n >= 4
  IN  <<MustPass(6, recall, recall >= SELF_RECALL_MIN),
        IF enough THEN Measured(2, IntrinsicDimension(v, n, d)) ELSE Skipped(2),
        MeasuredIf(enough, 2, Uniformity(v, n)), MeasuredIf(enough, 1, v),
        IF enough THEN MustPass(2, IF outliers THEN 0 ELSE 100, ~outliers) ELSE Skipped(2)>>

DenseEmbeddingMetricsRs(v, recall, outliers, n, d) ==
  LET enough == n >= 4
  IN  <<MustPass(6, recall, recall >= SELF_RECALL_MIN),
        IF enough THEN Measured(2, IntrinsicDimension(v, n, d)) ELSE Skipped(2),
        MeasuredIf(enough, 2, Uniformity(v, n)), MeasuredIf(enough, 1, v),
        IF enough THEN MustPass(2, IF outliers THEN 0 ELSE 100, ~outliers) ELSE Skipped(2)>>

\* No term frequencies of the corpus are handed over.
SparseInputMetrics(v, sparse) == <<MeasuredIf(sparse, 2, v), Skipped(1)>>

SparseInputMetricsRs(v, sparse) == <<MeasuredIf(sparse, 2, v), Skipped(1)>>

LexicalRetrievalMetrics(v, fts) == <<MeasuredIf(fts, 3, v)>>

LexicalRetrievalMetricsRs(v, fts) == <<MeasuredIf(fts, 3, v)>>

\* Neither runner collects samples or scores of the reranker.
RerankerInputMetrics == <<Skipped(2), Skipped(2), Skipped(1), Skipped(2)>>

RerankerInputMetricsRs == <<Skipped(2), Skipped(2), Skipped(1), Skipped(2)>>

RerankerMetrics == <<Skipped(5), Skipped(2), Skipped(1)>>

RerankerMetricsRs == <<Skipped(5), Skipped(2), Skipped(1)>>

----------------------------------------------------------------------------
(* Scores, in hundredths of a percent.                                      *)

Indices(metrics) == {i \in DOMAIN metrics : ~metrics[i].skipped}

AggregateComponent(metrics) ==
  LET active == Indices(metrics)
  IN  IF active = {} THEN 0
      ELSE (100 * MapThenSumSet(LAMBDA i : metrics[i].value * metrics[i].weight, active))
             \div MapThenSumSet(LAMBDA i : metrics[i].weight, active)

Component(metrics, weight, skipped) ==
  [score |-> AggregateComponent(metrics), weight |-> weight, skipped |-> skipped,
   gates |-> {metrics[i].gate : i \in Indices(metrics)} \ {"none"}]

AggregateOverall(components) ==
  LET active == {i \in DOMAIN components : ~components[i].skipped}
  IN  IF active = {} THEN 0
      ELSE MapThenSumSet(LAMBDA i : components[i].score * components[i].weight, active)
             \div MapThenSumSet(LAMBDA i : components[i].weight, active)

\* The gates of the metrics that were measured.
GateFailed(components) == \E i \in DOMAIN components : "failed" \in components[i].gates

\* Faulty variant: the gates do not decide.
ComputeStatusByScore(overall, components) == IF overall < 7000 THEN "FAIL" ELSE "PASS"

ComputeStatus(overall, components) ==
  IF overall < 7000 \/ GateFailed(components) THEN "FAIL" ELSE "PASS"

----------------------------------------------------------------------------
(* The assessment.                                                          *)

\* The chunks of the sample: every one, or n of them at even distances.
SampleArray(total, n) ==
  IF total <= n THEN 0..(total - 1) ELSE {(i * total) \div n : i \in 0..(n - 1)}

\* A store that lists nothing, or cannot list, is an error and leaves no trace.
BeginQuality(tool, total, failFast, history) ==
  /\ qrun = NoQuality /\ qruns < MaxQualityRuns /\ total > 0
  /\ tool = "rs" => ~failFast /\ history
  /\ qruns' = qruns + 1
  /\ qclock' \in IF tool = "ts" THEN {qclock + 1} ELSE {qclock, qclock + 1}
  /\ qrun' = [step |-> "assess", tool |-> tool, run |-> qruns', total |-> total,
              sample |-> SampleArray(total, SampleSize), failFast |-> failFast,
              history |-> history, components |-> <<>>, flaws |-> 0, short |-> {},
              stopped |-> FALSE, score |-> 0, status |-> "none"]
  /\ exited' = NoExit
  /\ UNCHANGED <<qhistory, qkills>>

\* A component is measured; in TypeScript the components 1, 2 and 4 are followed by
\* a look at the gates, and with --fail-fast a gate that failed ends the assessment.
Assess(component, perfect, short) ==
  LET components == Append(qrun.components, component)
      flaws == qrun.flaws + IF perfect THEN 0 ELSE 1
      stop == /\ qrun.failFast /\ Len(components) \in {1, 2, 4}
              /\ GateFailed(components)
  IN  /\ flaws <= MaxFlaws[qrun.run]
      /\ qrun' = [qrun EXCEPT !.components = components,
                              !.flaws = flaws, !.short = @ \cup short,
                              !.stopped = stop,
                              !.step = IF stop \/ Len(components) = 8 THEN "report" ELSE @]
      /\ UNCHANGED <<qhistory, qclock, qruns, qkills, exited>>

At(n) == qrun.step = "assess" /\ Len(qrun.components) = n - 1

Pick(ts, rs) == IF qrun.tool = "ts" THEN ts ELSE rs

Chunking(v, ast) ==
  /\ At(1) /\ (ast => qrun.tool = "rs")
  /\ Assess(Component(Pick(ChunkingMetrics(v), ChunkingMetricsRs(v, ast)), 11, FALSE),
            v = 100, {})

Metadata(v, fields, filled) ==
  /\ At(2)
  /\ Assess(Component(Pick(MetadataMetrics(v, fields, filled), MetadataMetricsRs(v, fields, filled)),
                      9, FALSE),
            v = 100, fields \cap {"imports"})

DenseInput(v, enriched) ==
  /\ At(3)
  /\ Assess(Component(Pick(DenseInputMetrics(v, enriched), DenseInputMetricsRs(v, enriched)),
                      4, FALSE),
            v = 100, {})

DenseEmbedding(v, recall, outliers, d) ==
  LET n == Cardinality(qrun.sample)
  IN  /\ At(4)
      /\ Assess(Component(Pick(DenseEmbeddingMetrics(v, recall, outliers, n, d),
                               DenseEmbeddingMetricsRs(v, recall, outliers, n, d)), 13, FALSE),
                recall = 100 /\ (n >= 4 => v = 100 /\ ~outliers), {})

SparseInput(v, sparse) ==
  /\ At(5)
  /\ Assess(Component(Pick(SparseInputMetrics(v, sparse), SparseInputMetricsRs(v, sparse)),
                      3, ~sparse),
            sparse => v = 100, {})

\* Without full text search the metric is skipped, and the component counts as 0.
LexicalRetrieval(v, fts) ==
  /\ At(6)
  /\ Assess(Component(Pick(LexicalRetrievalMetrics(v, fts), LexicalRetrievalMetricsRs(v, fts)),
                      3, FALSE),
            fts => v = 100, {})

\* TypeScript leaves the component out when no reranker is configured; the engine
\* leaves it out when all its metrics are skipped.
RerankerInput(reranker) ==
  /\ At(7)
  /\ Assess(Component(Pick(RerankerInputMetrics, RerankerInputMetricsRs), 7,
                      Pick(~reranker, Indices(RerankerInputMetricsRs) = {})),
            TRUE, IF reranker THEN {"reranker"} ELSE {})

Reranker ==
  /\ At(8)
  /\ Assess(Component(Pick(RerankerMetrics, RerankerMetricsRs), 8,
                      Pick("reranker" \notin qrun.short, Indices(RerankerMetricsRs) = {})),
            TRUE, {})

\* The components are weighed and the report has its status; no later step looks
\* at them again.
BuildReport ==
  /\ qrun.step = "report"
  /\ LET overall == AggregateOverall(qrun.components)
     IN  qrun' = [qrun EXCEPT !.step = IF qrun.history THEN "save" ELSE "exit",
                              !.components = <<>>, !.score = overall,
                              !.status = ComputeStatus(overall, qrun.components)]
  /\ UNCHANGED <<qhistory, qclock, qruns, qkills, exited>>

----------------------------------------------------------------------------
(* The history.                                                             *)

OfThisRun(torn) == [id |-> qclock, run |-> qrun.run, torn |-> torn]

\* A report has the name of its timestamp, and replaces one of the same name.
WithReport(reports, report) == {r \in reports : r.id # report.id} \cup {report}

\* The reports with the greatest names stay, whether they can be read or not.
PruneHistory(reports) ==
  {r \in reports : Cardinality({q \in reports : q.id > r.id}) < KEEP}

\* The report is on disk, and its score is not looked at again.
SaveReport ==
  /\ qrun.step = "save"
  /\ LET reports == WithReport(qhistory[qrun.tool].reports, OfThisRun(FALSE))
     IN  qhistory' = [qhistory EXCEPT ![qrun.tool].reports = Pick(reports, PruneHistory(reports))]
  /\ qrun' = [qrun EXCEPT !.step = "feed", !.score = 0]
  /\ UNCHANGED <<qclock, qruns, qkills, exited>>

WriteFeed ==
  /\ qrun.step = "feed"
  /\ qhistory' = [qhistory EXCEPT ![qrun.tool].feed = qrun.run]
  /\ qrun' = [qrun EXCEPT !.step = "badge"]
  /\ UNCHANGED <<qclock, qruns, qkills, exited>>

WriteBadge ==
  /\ qrun.step = "badge"
  /\ qhistory' = [qhistory EXCEPT ![qrun.tool].badge = qrun.run]
  /\ qrun' = [qrun EXCEPT !.step = Pick("prune", "exit")]
  /\ UNCHANGED <<qclock, qruns, qkills, exited>>

Prune ==
  /\ qrun.step = "prune"
  /\ qhistory' = [qhistory EXCEPT !["ts"].reports = PruneHistory(@)]
  /\ qrun' = [qrun EXCEPT !.step = "exit"]
  /\ UNCHANGED <<qclock, qruns, qkills, exited>>

\* --fail-fast, --ci of the engine: a report that failed is an exit code.
ExitQuality(ci) ==
  /\ qrun.step = "exit" /\ (qrun.tool = "ts" => ci = qrun.failFast)
  /\ exited' = [tool |-> qrun.tool, run |-> qrun.run, saved |-> qrun.history,
                code |-> IF ci /\ qrun.status = "FAIL" THEN 1 ELSE 0]
  /\ qrun' = NoQuality
  /\ UNCHANGED <<qhistory, qclock, qruns, qkills>>

\* A kill, or an embedder or a store that throws.  A report may be left torn.
KillQuality ==
  /\ qrun # NoQuality /\ qkills < MaxQualityKills
  /\ qkills' = qkills + 1 /\ qrun' = NoQuality
  /\ qhistory' \in {qhistory} \cup
       (IF qrun.step = "save"
        THEN {[qhistory EXCEPT ![qrun.tool].reports = WithReport(@, OfThisRun(TRUE))]}
        ELSE {})
  /\ UNCHANGED <<qclock, qruns, exited>>

\* What quality history shows: the reports that can be read, the newest first.
ListQualityHistory(tool) ==
  SetToSortSeq({r \in qhistory[tool].reports : ~r.torn}, LAMBDA q, r : q.id > r.id)

QualityNext ==
  \/ \E tool \in Tools, total \in Totals, failFast, history \in BOOLEAN :
       BeginQuality(tool, total, failFast, history)
  \/ \E v \in Grades, b \in BOOLEAN :
       Chunking(v, b) \/ DenseInput(v, b) \/ SparseInput(v, b) \/ LexicalRetrieval(v, b)
  \/ \E v \in Grades, fields \in SUBSET Fields :
       \E filled \in SUBSET fields : Metadata(v, fields, filled)
  \/ \E v \in Grades, recall \in {SELF_RECALL_MIN - 1, SELF_RECALL_MIN, 100},
        outliers \in BOOLEAN, d \in Dims : DenseEmbedding(v, recall, outliers, d)
  \/ \E reranker \in BOOLEAN : RerankerInput(reranker)
  \/ Reranker \/ BuildReport
  \/ SaveReport \/ WriteFeed \/ WriteBadge \/ Prune
  \/ \E ci \in BOOLEAN : ExitQuality(ci)
  \/ KillQuality

QualitySpec == QualityInit /\ [][QualityNext]_qualityVars

----------------------------------------------------------------------------
(* Properties.                                                              *)

\* Scores stay between 0 and 100 percent and a history holds one report per
\* timestamp.
QualityTypeOK ==
  /\ qrun # NoQuality =>
       /\ qrun.score \in 0..10000 /\ qrun.status \in {"none", "PASS", "FAIL"}
       /\ \A i \in DOMAIN qrun.components : qrun.components[i].score \in 0..10000
  /\ \A t \in Tools :
       /\ qhistory[t].feed \in 0..qruns /\ qhistory[t].badge \in 0..qruns
       /\ \A q, r \in qhistory[t].reports : q.id = r.id => q = r

\* A sample never has a chunk twice and never leaves one out for it: the recall
\* is over SampleSize chunks, or over all of them.
SampleIsSpread ==
  qrun # NoQuality =>
    /\ Cardinality(qrun.sample) = Min({qrun.total, SampleSize})
    /\ qrun.sample \subseteq 0..(qrun.total - 1)

\* An assessment --fail-fast cut short is a failed one, although the components
\* that were left out are missing in the weighted score.
EarlyStopFails ==
  qrun # NoQuality /\ qrun.stopped /\ qrun.status # "none" => qrun.status = "FAIL"

\* A corpus that is as good as can be in everything the runner measures passes,
\* whatever there is nothing to measure of (code, links, sparse texts, full text
\* search), however few its chunks and however many components its vectors have.
\* The exceptions are those of the TypeScript runner: any import fails its gate,
\* and a reranker adds two components that count as 0, with which a corpus without
\* fault fails unless nearly everything else can be measured and reaches 100.
PerfectPasses ==
  qrun # NoQuality /\ qrun.flaws = 0 /\ qrun.status = "FAIL" =>
    qrun.tool = "ts" /\ qrun.short \cap {"imports", "reranker"} # {}

\* A command that came to its end has its report in the history, as the newest
\* of at most KEEP, whatever its exit code says.
ExitedRunListed ==
  qrun = NoQuality /\ exited.run = qruns /\ exited.saved =>
    LET listed == ListQualityHistory(exited.tool)
    IN  /\ listed # <<>> /\ Head(listed).run = exited.run
        /\ Cardinality(qhistory[exited.tool].reports) <= KEEP

\* The badge and the feed never show a run whose report was not written: after
\* any kill they are of the newest report or of an older one.
BadgeBehindReport ==
  \A t \in Tools :
    LET newest == Max({0} \cup {r.run : r \in qhistory[t].reports})
    IN  qhistory[t].badge <= newest /\ qhistory[t].badge <= qhistory[t].feed /\ qhistory[t].feed <= newest

\* What a reader of the history, the feed and the badge sees follows the reports
\* on disk, with kills between the writes and a history cut to KEEP.
ReportsListed == ExitedRunListed /\ BadgeBehindReport

\* An assessment can be relied on, in both tools: an even sample, no pass for
\* one that was cut short, no fail for a corpus without fault, and a history,
\* feed and badge that follow the reports.
AssessmentSound ==
  QualityTypeOK /\ SampleIsSpread /\ EarlyStopFails /\ PerfectPasses /\ ReportsListed
=============================================================================
