----------------------------- MODULE RouteConfig -----------------------------
(***************************************************************************)
(* The configuration of the route policy of WinMTRRoutePolicy.h, and what  *)
(* its constructor makes of it.                                            *)
(***************************************************************************)
EXTENDS Integers

CONSTANTS
  PathConfig,   \* the RoutePolicyConfig given to the constructor
  MaxCycles     \* bound: the number of completed cycles

PathConfigFields ==
  { "start_ttl", "minimum_ttl", "max_hops", "unknown_host_limit",
    "exploration_period", "exploration_frontier_ttls", "shrink_confirmations" }

ASSUME RoutePolicyAssumption ==
  PathConfig \in [PathConfigFields -> Nat] /\ MaxCycles \in Nat

Larger(a, b)  == IF a < b THEN b ELSE a
Smaller(a, b) == IF a < b THEN a ELSE b

normalize(c) ==
  LET start == Larger(1, c.start_ttl)
      hops  == Larger(start, c.max_hops)
  IN  [c EXCEPT !.start_ttl            = start,
                !.max_hops             = hops,
                !.minimum_ttl          = Smaller(@, hops),
                !.unknown_host_limit   = Larger(1, @),
                !.shrink_confirmations = Larger(1, @)]

config_ == normalize(PathConfig)
Hops    == config_.start_ttl .. config_.max_hops
=============================================================================
