---------------------------- MODULE MCTraceLoop ----------------------------
(***************************************************************************)
(* Instances of TraceLoop for TLC.                                         *)
(***************************************************************************)
EXTENDS TraceLoop

\* A session of one cycle on two hops, with a grace shorter than the timeout:
\* the probe of the second hop is under way when the first hop turns out to be
\* the destination, or when the cycle ends.
OneCycle ==
  [ interval_ms |-> 2, timeout_ms |-> 2, grace_ms |-> 1, start_ttl |-> 1,
    minimum_ttl |-> 0, max_hops |-> 2, unknown_host_limit |-> 1,
    max_global_pps |-> 1000, cycles |-> 1, reply_cache_ms |-> 0 ]

\* One hop with a reply cache, probed until the trace is stopped.
OneHop == [OneCycle EXCEPT !.max_hops = 1, !.cycles = 0, !.reply_cache_ms = 2]

Exploring == [ period |-> 2, frontier |-> 1, shrink |-> 1 ]
=============================================================================
