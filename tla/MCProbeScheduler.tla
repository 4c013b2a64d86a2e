-------------------------- MODULE MCProbeScheduler --------------------------
(***************************************************************************)
(* Instances of ProbeScheduler for TLC.  Times are a few milliseconds, so  *)
(* that a slot, a deadline and the session-wide pacing meet within a       *)
(* handful of ticks.                                                       *)
(***************************************************************************)
EXTENDS ProbeScheduler

\* Two TTLs and one probe in flight in the whole session, while the transport
\* may hold one for each TTL, and a quota of one: with three slots in two
\* epochs every limit binds, the transport ones on probes that timed out or
\* belong to the earlier epoch.  The zeros exercise normalize().
LimitsConfig ==
  [ interval_ms |-> 1, timeout_ms |-> 1, first_ttl |-> 0, last_ttl |-> 2,
    max_inflight |-> 0, max_inflight_per_ttl |-> 1,
    max_transport_outstanding |-> 2, max_transport_outstanding_per_ttl |-> 0,
    max_global_pps |-> 1000, probes_per_ttl |-> 1 ]

\* Two cycles on one TTL.
QuotaConfig ==
  [ interval_ms |-> 1, timeout_ms |-> 1, first_ttl |-> 1, last_ttl |-> 1,
    max_inflight |-> 2, max_inflight_per_ttl |-> 2,
    max_transport_outstanding |-> 2, max_transport_outstanding_per_ttl |-> 2,
    max_global_pps |-> 500, probes_per_ttl |-> 2 ]
=============================================================================
