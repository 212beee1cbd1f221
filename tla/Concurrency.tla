---------------------------- MODULE Concurrency ----------------------------
(***************************************************************************)
(* The concurrency strategies of the indexing pipeline                     *)
(* (crates/virage-engine/src/pipeline/concurrency.rs).  A strategy tells   *)
(* how many of the spawned workers may pull work right now: FixedWorkers   *)
(* always answers the same count, RamSampling scales the count between two *)
(* watermarks with the memory available at the time of the call.           *)
(* Memory is counted in whole MB, as the code does after dividing by MB.   *)
(* The floating point scale `1.0 + frac * (max - 1)`, rounded half away    *)
(* from zero, is the exact rational division below.                        *)
(***************************************************************************)
EXTENDS Integers

Larger(a, b) == IF a >= b THEN a ELSE b

Smaller(a, b) == IF a <= b THEN a ELSE b

\* Nearest integer to n/d, halves upward (f64::round on non-negative values).
Rounded(n, d) == (2 * n + d) \div (2 * d)

Clamped(x, lo, hi) == Larger(lo, Smaller(x, hi))

----------------------------------------------------------------------------
\* A strategy: kind "fixed" uses only max.

FixedWorkers(count) ==
  [kind |-> "fixed", max |-> Larger(count, 1), low |-> 0, high |-> 1]

\* RamSampling::with_source, with its default watermarks.
WithSource(max_workers) ==
  [kind |-> "ram", max |-> Larger(max_workers, 1), low |-> 512, high |-> 1536]

\* RamSampling::with_watermarks: high is kept above low.
WithWatermarks(s, low_mb, high_mb) ==
  [s EXCEPT !.low = low_mb, !.high = Larger(high_mb, low_mb + 1)]

\* default_watermarks_mb: 15 % and 50 % of the host's memory, with floors.
DefaultLow(total_mb) == Larger(Rounded(15 * total_mb, 100), 128)

DefaultHigh(total_mb) ==
  Larger(Rounded(total_mb, 2), DefaultLow(total_mb) + 128)

\* RamSampling::new on a host with total_mb of memory.
NewRamSampling(max_workers, total_mb) ==
  LET total == Larger(total_mb, 1)
  IN  WithWatermarks(WithSource(max_workers),
                     DefaultLow(total), DefaultHigh(total))

\* Faulty variant: the scale counts the memory used, not the memory free.
ScaledDown(s, available_mb) ==
  1 + Rounded((s.high - available_mb) * (s.max - 1), s.high - s.low)

\* The line between the watermarks, before it is clamped.
Scaled(s, available_mb) ==
  1 + Rounded((available_mb - s.low) * (s.max - 1), s.high - s.low)

\* Faulty variant: the floor of one worker is lost.
WorkersForNoFloor(s, available_mb) ==
  IF available_mb <= s.low THEN 0
  ELSE IF available_mb >= s.high THEN s.max
  ELSE Clamped(Scaled(s, available_mb), 0, s.max)

WorkersFor(s, available_mb) ==
  IF available_mb <= s.low THEN 1
  ELSE IF available_mb >= s.high THEN s.max
  ELSE Clamped(Scaled(s, available_mb), 1, s.max)

CurrentWorkers(s, available_mb) ==
  IF s.kind = "fixed" THEN s.max ELSE WorkersFor(s, available_mb)

\* No --workers flag, or no pipeline.concurrency in the config.
Unset == -1

\* resolve_concurrency: the ceiling of workers to spawn and the strategy that
\* throttles them.  An explicit strategy wins; without one an explicit count
\* is pinned.  (run_pipeline reads a missing strategy as FixedWorkers.)
ResolveConcurrency(args, cfg, cfg_strategy, default, dynamic, total_mb) ==
  LET explicit == IF args # Unset THEN args ELSE cfg
      ceiling  == IF explicit # Unset THEN explicit ELSE default
      ram      == \/ cfg_strategy = "ramSampling"
                  \/ cfg_strategy # "fixed" /\ dynamic /\ explicit = Unset
  IN  [workers  |-> ceiling,
       strategy |-> IF ram THEN NewRamSampling(ceiling, total_mb)
                    ELSE FixedWorkers(Larger(ceiling, 1))]

\* Every strategy the constructors above can build.
Strategies ==
  {s \in [kind : {"fixed", "ram"}, max : Nat \ {0}, low : Nat, high : Nat] :
     s.low < s.high}

============================================================================
