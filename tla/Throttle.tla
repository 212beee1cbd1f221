------------------------------ MODULE Throttle ------------------------------
(***************************************************************************)
(* A concurrency strategy at work: what the command line, the config and   *)
(* the host resolve to, while the memory of the host drifts.               *)
(***************************************************************************)
EXTENDS Concurrency

CONSTANTS
  Counts,         \* worker counts a flag or the config may give, and Unset
  TotalSet,       \* sizes of host, in MB
  Watermarks,     \* operator-chosen watermark pairs <<low, high>>
  Headroom        \* how far above the high watermark the memory may rise

ASSUME ThrottleAssumption ==
  /\ Counts \subseteq Nat \cup {Unset} /\ TotalSet \subseteq Nat
  /\ Watermarks \subseteq Nat \X Nat /\ Headroom \in Nat

VARIABLES
  spawned,    \* how many workers the coordinator spawned
  strategy,   \* the strategy that throttles them
  available   \* the memory available now

throttleVars == <<spawned, strategy, available>>

\* What the command line, the config and the host may lead to.
Resolved ==
  {ResolveConcurrency(a, c, s, 4, TRUE, t) :
     a \in Counts, c \in Counts, s \in {"fixed", "ramSampling", "none"},
     t \in TotalSet}

\* The same with watermarks chosen by an operator.
Tuned ==
  {[r EXCEPT !.strategy = WithWatermarks(@, w[1], w[2])] :
     r \in {x \in Resolved : x.strategy.kind = "ram"}, w \in Watermarks}

ThrottleInit ==
  /\ \E r \in Resolved \cup Tuned :
       strategy = r.strategy /\ spawned = Larger(r.workers, 1)
  /\ available = 0

\* Other programs release or take one MB.
Drift ==
  /\ \/ available < strategy.high + Headroom /\ available' = available + 1
     \/ available > 0 /\ available' = available - 1
  /\ UNCHANGED <<spawned, strategy>>

ThrottleSpec == ThrottleInit /\ [][Drift]_throttleVars

Active == CurrentWorkers(strategy, available)

-----------------------------------------------------------------------------
(* Properties.                                                             *)

\* The throttle follows the memory: it leaves one worker at least and never
\* counts more than were spawned, it never opens when memory is taken, never
\* closes when memory is released, and has no cliff: when the watermarks leave
\* room for a MB per worker, a drift of one MB moves the count by at most one.
FollowsMemory ==
  /\ Active \in 1..spawned
  /\ [][/\ Active' \in 1..spawned
        /\ available' > available => Active' >= Active
        /\ available' < available => Active' <= Active
        /\ strategy.high - strategy.low >= strategy.max => Active' - Active \in -1..1]_throttleVars
=============================================================================
