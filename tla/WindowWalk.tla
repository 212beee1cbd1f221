----------------------------- MODULE WindowWalk -----------------------------
(***************************************************************************)
(* The window walk every chunker ends in: walk_to_chunks of walk.rs and     *)
(* walkToChunks of virage-chunker-ce-ast, which run the same loop.  The     *)
(* nodes of a document are visited depth first; leaf texts become segments  *)
(* and segments become windows.  A text is known by its leaf and the        *)
(* characters it holds of it: Rust measures it in bytes, TypeScript in      *)
(* characters.                                                              *)
(***************************************************************************)
EXTENDS Integers, Sequences, FiniteSets, SequencesExt

CONSTANTS
  Nodes,      \* what a document is made of: headings [type, level, title] and
              \* leaves [type, chars, width], width being the bytes of a character
  MaxNodes,   \* bound on the nodes of a document
  MAX, MIN,   \* max_tokens and the resolved min_tokens
  Overlaps    \* overlaps between windows, in tenths and already clamped to 0..9

ASSUME WindowAssumption ==
  /\ MaxNodes \in Nat /\ MAX \in Nat \ {0} /\ MIN \in 0..MAX /\ Overlaps \subseteq 0..9
  /\ \A n \in Nodes :
       \/ n.type = "heading" /\ n.level \in Nat \ {0}
       \/ n.type # "heading" /\ n.chars \in Nat /\ n.width \in 1..4

CHARS_PER_TOKEN == 4

VARIABLES
  document,   \* the nodes visited so far, in depth-first order
  crumbs,     \* the breadcrumb
  segments,   \* the text segments
  options,    \* [impl, overlap, recursive, adaptive]
  window,     \* the window being built
  windows,    \* the windows built: [texts, crumb, from, to, truncated], texts
              \* being indices of segments, from and to a range of bytes
  walker,     \* [phase, start, idx, tokens]: the two loops and current_tokens
  artifacts   \* the chunks returned: [id, index, siblings, truncated]

walkVars == <<document, crumbs, segments, options, window, windows, walker, artifacts>>

NoWindow == [texts |-> <<>>, crumb |-> <<>>, from |-> 0, to |-> 0, truncated |-> FALSE]

NoOptions == [impl |-> "rs", overlap |-> 0, recursive |-> FALSE, adaptive |-> FALSE]

WalkInit ==
  /\ document = <<>> /\ crumbs = <<>> /\ segments = <<>> /\ options = NoOptions
  /\ window = NoWindow /\ windows = <<>>
  /\ walker = [phase |-> "visit", start |-> 1, idx |-> 1, tokens |-> 0]
  /\ artifacts = <<>>

----------------------------------------------------------------------------

\* Where the next node begins, in bytes.
DocumentEnd == IF segments = <<>> THEN 0 ELSE Last(segments).to

\* A heading takes the place of the one of its level and drops the deeper ones.
Breadcrumb(node) == Append(SubSeq(crumbs, 1, Min({node.level - 1, Len(crumbs)})), node.title)

IsLeaf(node) == node.type \notin {"heading", "image", "link"} /\ node.chars > 0

\* visit: one node of the depth-first walk.
Visit(node) ==
  /\ walker.phase = "visit" /\ Len(document) < MaxNodes
  /\ document' = Append(document, node)
  /\ crumbs' = IF node.type = "heading" THEN Breadcrumb(node) ELSE crumbs
  /\ segments' =
       IF IsLeaf(node)
       THEN Append(segments,
              [leaf |-> Len(document) + 1, type |-> node.type, width |-> node.width,
               first |-> 1, last |-> node.chars, crumb |-> crumbs,
               from |-> DocumentEnd, to |-> DocumentEnd + node.chars * node.width])
       ELSE segments
  /\ UNCHANGED <<options, window, windows, walker, artifacts>>

\* The length of a text, in the unit of the implementation.
TextLength(impl, seg) ==
  (seg.last - seg.first + 1) * (IF impl = "rs" THEN seg.width ELSE 1)

EstimateTokens(length) == (length + CHARS_PER_TOKEN - 1) \div CHARS_PER_TOKEN

\* floor_char_boundary: the whole characters within that many bytes.
FloorCharBoundary(seg, bytes) == bytes \div seg.width

\* The parts of a text cut every n characters.
Parts(seg, n) ==
  [k \in 1..((seg.last + n - 1) \div n) |->
     [seg EXCEPT !.first = (k - 1) * n + 1, !.last = Min({k * n, seg.last})]]

\* split_oversized: whole characters only, and the range of bytes of each part.
SplitOversized(seg) ==
  IF TextLength("rs", seg) <= MAX * CHARS_PER_TOKEN THEN <<seg>>
  ELSE LET parts == Parts(seg, FloorCharBoundary(seg, MAX * CHARS_PER_TOKEN))
       IN  [k \in DOMAIN parts |->
              [parts[k] EXCEPT !.from = seg.from + (parts[k].first - 1) * seg.width,
                               !.to = seg.from + parts[k].last * seg.width]]

\* splitOversized of TypeScript counts characters and adds them to a byte offset.
SplitOversizedTs(seg) ==
  IF TextLength("ts", seg) <= MAX * CHARS_PER_TOKEN THEN <<seg>>
  ELSE LET parts == Parts(seg, MAX * CHARS_PER_TOKEN)
       IN  [k \in DOMAIN parts |->
              [parts[k] EXCEPT !.from = seg.from + parts[k].first - 1,
                               !.to = seg.from + parts[k].last]]

\* The whole document is visited: without a segment there is nothing to do,
\* otherwise oversized ones are split when the option says so.
WalkToChunks(opts) ==
  /\ walker.phase = "visit" /\ segments # <<>>
  /\ options' = opts
  /\ segments' =
       IF ~opts.recursive THEN segments
       ELSE FlattenSeq([k \in DOMAIN segments |->
              IF opts.impl = "rs" THEN SplitOversized(segments[k])
              ELSE SplitOversizedTs(segments[k])])
  /\ walker' = [walker EXCEPT !.phase = "open"]
  /\ UNCHANGED <<document, crumbs, window, windows, artifacts>>

----------------------------------------------------------------------------

\* The outer loop: a window opens at the segment that is next.
OpenWindow ==
  /\ walker.phase = "open" /\ walker.start <= Len(segments)
  /\ LET first == segments[walker.start]
     IN  window' = [texts |-> <<>>, crumb |-> first.crumb, from |-> first.from,
                    to |-> first.to, truncated |-> FALSE]
  /\ walker' = [walker EXCEPT !.phase = "fill", !.idx = walker.start, !.tokens = 0]
  /\ UNCHANGED <<document, crumbs, segments, options, windows, artifacts>>

TokensOf(k) == EstimateTokens(TextLength(options.impl, segments[k]))

\* adaptive_size halves the limit for code and table cells.
EffectiveMax(seg) ==
  IF options.adaptive /\ seg.type \in {"code", "table-cell"} THEN (MAX + 1) \div 2 ELSE MAX

\* The segment would overflow the window.
Overflows(seg) == walker.tokens + TokensOf(walker.idx) > EffectiveMax(seg)

\* The window is closed before this segment: it begins another section, or it
\* would overflow.
ClosesWindow ==
  /\ walker.tokens > 0 /\ walker.idx <= Len(segments)
  /\ LET seg == segments[walker.idx]
     IN  seg.crumb # window.crumb \/ Overflows(seg)

\* A single segment that is too large is cut, which ends the window.
HardCut ==
  /\ walker.phase = "fill" /\ walker.idx <= Len(segments)
  /\ ~ClosesWindow /\ TokensOf(walker.idx) > MAX
  /\ window' = [window EXCEPT !.texts = Append(@, walker.idx),
                              !.to = segments[walker.idx].to, !.truncated = TRUE]
  /\ walker' = [walker EXCEPT !.idx = @ + 1, !.phase = "close"]
  /\ UNCHANGED <<document, crumbs, segments, options, windows, artifacts>>

\* The segment joins the window.
Take ==
  /\ walker.phase = "fill" /\ walker.idx <= Len(segments)
  /\ ~ClosesWindow /\ TokensOf(walker.idx) <= MAX
  /\ window' = [window EXCEPT !.texts = Append(@, walker.idx), !.to = segments[walker.idx].to]
  /\ walker' = [walker EXCEPT !.idx = @ + 1, !.tokens = @ + TokensOf(walker.idx)]
  /\ UNCHANGED <<document, crumbs, segments, options, windows, artifacts>>

----------------------------------------------------------------------------

\* The tokens of the segments from a to b.
TokensBetween(a, b) == FoldLeft(LAMBDA sum, k : sum + TokensOf(k), 0, [k \in 1..(b - a + 1) |-> a + k - 1])

\* So many tokens reach back far enough: Rust cuts the target to whole tokens.
ReachesTarget(tokens) ==
  IF options.impl = "rs"
  THEN tokens >= (walker.tokens * options.overlap) \div 10
  ELSE tokens * 10 >= walker.tokens * options.overlap

\* The walk back from the end of the window: the last segment before which the
\* overlap is reached, and the first of the window at the latest.
Back == Max({b \in walker.start .. walker.idx - 1 :
               b = walker.start \/ ReachesTarget(TokensBetween(b + 1, walker.idx - 1))})

\* Where the next window begins.
NextStart ==
  IF window.texts = <<>> THEN walker.start + 1
  ELSE IF options.overlap > 0 /\ walker.idx > walker.start + 1
       THEN Max({walker.start + 1, Back + 1})
  ELSE walker.idx

\* The window is emitted.
CloseWindow ==
  /\ \/ walker.phase = "close"
     \/ walker.phase = "fill" /\ (walker.idx > Len(segments) \/ ClosesWindow)
  /\ windows' = IF window.texts = <<>> THEN windows ELSE Append(windows, window)
  /\ walker' = [walker EXCEPT !.phase = "open", !.start = NextStart]
  /\ UNCHANGED <<document, crumbs, segments, options, window, artifacts>>

\* The characters of a window's text; a segment that was cut counts as MAX tokens.
JoinedLength(w) ==
  IF w.truncated THEN MAX * CHARS_PER_TOKEN
  ELSE FoldLeft(LAMBDA sum, k : sum + TextLength(options.impl, segments[k]),
                2 * (Len(w.texts) - 1), w.texts)

\* The texts of the last window follow those of the one before.
Merged(prev, last) == [prev EXCEPT !.texts = @ \o last.texts, !.to = last.to]

\* Faulty variant: a short window joins its predecessor in another section too.
MergeTrailingAny ==
  LET n == Len(windows)
  IN  IF /\ n > 1
         /\ EstimateTokens(JoinedLength(windows[n])) < MIN
      THEN Append(SubSeq(windows, 1, n - 2), Merged(windows[n - 1], windows[n]))
      ELSE windows

\* A short last window joins its predecessor when both are of one section.
MergeTrailing ==
  LET n == Len(windows)
  IN  IF /\ n > 1 /\ windows[n].crumb = windows[n - 1].crumb
         /\ EstimateTokens(JoinedLength(windows[n])) < MIN
      THEN Append(SubSeq(windows, 1, n - 2), Merged(windows[n - 1], windows[n]))
      ELSE windows

\* What is hashed to the id of a chunk: the breadcrumb and the texts, two equal
\* leaves having equal texts.
DenseText(w) ==
  <<w.crumb, [i \in DOMAIN w.texts |->
                LET seg == segments[w.texts[i]]
                IN  <<document[seg.leaf], seg.first, seg.last>>]>>

Neighbours(ws, i) == {DenseText(ws[k]) : k \in {i - 1, i + 1} \cap DOMAIN ws}

\* One artifact per window, with the ids of its neighbours.
BuildArtifacts(ws) ==
  [i \in DOMAIN ws |-> [id |-> DenseText(ws[i]), index |-> i - 1,
                        siblings |-> Neighbours(ws, i), truncated |-> ws[i].truncated]]

\* All segments are in windows: the short tail is merged and the artifacts are
\* returned.
Emit ==
  /\ walker.phase = "open" /\ walker.start > Len(segments)
  /\ windows' = MergeTrailing
  /\ artifacts' = BuildArtifacts(MergeTrailing)
  /\ walker' = [walker EXCEPT !.phase = "done"]
  /\ UNCHANGED <<document, crumbs, segments, options, window>>

Options == [impl : {"rs", "ts"}, overlap : Overlaps, recursive : BOOLEAN, adaptive : BOOLEAN]

WalkNext ==
  \/ \E node \in Nodes : Visit(node)
  \/ \E opts \in Options : WalkToChunks(opts)
  \/ OpenWindow \/ HardCut \/ Take \/ CloseWindow \/ Emit

----------------------------------------------------------------------------

WalkTypeOK ==
  /\ document \in Seq(Nodes) /\ Len(document) <= MaxNodes
  /\ options \in Options
  /\ walker.phase \in {"visit", "open", "fill", "close", "done"}
  /\ walker.start \in 1 .. Len(segments) + 1 /\ walker.idx \in 1 .. Len(segments) + 1
  /\ walker.tokens \in 0..MAX
  /\ \A k \in DOMAIN windows : ToSet(windows[k].texts) \subseteq DOMAIN segments

\* The windows are the document, each segment once and in order.
WindowsPartition ==
  FlattenSeq([w \in DOMAIN windows |-> windows[w].texts]) = [k \in DOMAIN segments |-> k]

\* Every character of every leaf is in a window, split or not, whatever the
\* overlap: a text is only cut without the recursive option, and then its window
\* is the one that is marked truncated.  Without overlap each is in one window
\* only, and in order.
NothingLost ==
  walker.phase = "done" =>
    /\ options.overlap = 0 => WindowsPartition
    /\ \A d \in DOMAIN document : IsLeaf(document[d]) =>
         LET holding == {k \in DOMAIN segments : segments[k].leaf = d}
         IN  /\ \A c \in 1..document[d].chars :
                  \E k \in holding : c \in segments[k].first .. segments[k].last
             /\ \A k \in holding :
                  \E w \in DOMAIN windows :
                    /\ k \in ToSet(windows[w].texts)
                    /\ TokensOf(k) > MAX => windows[w].truncated /\ ~options.recursive

\* A window never mixes sections, the merged last one included: its breadcrumb
\* is that of all of its texts.
OneSection ==
  \A w \in DOMAIN windows : \A i \in DOMAIN windows[w].texts :
    segments[windows[w].texts[i]].crumb = windows[w].crumb

\* Before separators and breadcrumb a window holds at most max_tokens; only the
\* last one may hold a merged tail of less than min_tokens on top of it.
SizeBounded ==
  \A w \in DOMAIN windows : ~windows[w].truncated =>
    FoldLeft(LAMBDA sum, k : sum + TextLength(options.impl, segments[k]), 0, windows[w].texts)
      <= CHARS_PER_TOKEN * (IF walker.phase = "done" /\ w = Len(windows)
                            THEN MAX + MIN ELSE MAX)

\* The range of bytes a window reports holds all of its texts, which is how the
\* fully qualified name and the nodes in its bounds are found.  TypeScript adds
\* characters to bytes, so this holds there for texts of one byte per character.
RangesHoldTexts ==
  options.impl = "rs" \/ (\A d \in DOMAIN document : IsLeaf(document[d]) => document[d].width = 1) =>
    \A w \in DOMAIN windows : \A i \in DOMAIN windows[w].texts :
      LET seg == segments[windows[w].texts[i]]
      IN  windows[w].from <= seg.from /\ seg.to <= windows[w].to

\* The headings a document position is under: those no later heading of the same
\* or a higher level has ended.
Ancestors(d) ==
  SelectSeq([i \in 1..(d - 1) |-> i],
            LAMBDA i : /\ document[i].type = "heading"
                       /\ ~\E j \in (i + 1)..(d - 1) :
                             document[j].type = "heading" /\ document[j].level <= document[i].level)

\* No heading skips a level.
WellNested ==
  \A d \in DOMAIN document :
    document[d].type = "heading" => document[d].level <= Len(Ancestors(d)) + 1

\* In a document whose headings skip no level, the breadcrumb of a text is its
\* enclosing headings.  With a level skipped a sibling is taken for a child.
BreadcrumbIsAncestors ==
  WellNested =>
    \A k \in DOMAIN segments :
      LET above == Ancestors(segments[k].leaf)
      IN  segments[k].crumb = [i \in DOMAIN above |-> document[above[i]].title]

\* The siblings of a chunk are chunks of the same result, so context can be put
\* together from them: no id is left of a window that was merged away.
SiblingsResolve ==
  \A i \in DOMAIN artifacts :
    artifacts[i].siblings \subseteq {artifacts[k].id : k \in DOMAIN artifacts}

\* Every window starts behind the one before, or the walk would never end.
WindowsAdvance ==
  \A w \in DOMAIN windows \ {1} : windows[w].texts[1] > windows[w - 1].texts[1]

\* The chunks hold the whole file and every one is well formed: from one section,
\* of bounded size, with the range of its texts, the headings above it and
\* siblings that exist, and each begins behind the one before.
WindowsWellFormed ==
  /\ WalkTypeOK /\ NothingLost /\ OneSection /\ SizeBounded /\ WindowsAdvance
  /\ RangesHoldTexts /\ BreadcrumbIsAncestors /\ SiblingsResolve

=============================================================================
