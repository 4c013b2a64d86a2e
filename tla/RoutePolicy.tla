----------------------------- MODULE RoutePolicy -----------------------------
(***************************************************************************)
(* The route policy of WinMTRRoutePolicy.h: how far along the path the     *)
(* trace loop probes.  After the first full sweep the ceiling follows the  *)
(* destination, or the last router that answered plus a tail of silent     *)
(* ones; every exploration_period cycles a few TTLs beyond it are tried    *)
(* again.  A longer path is adopted at once, a shorter one only after      *)
(* shrink_confirmations explorations agree on it.                          *)
(*                                                                         *)
(* The class is single threaded and is called by the trace loop only:      *)
(* note_reply() for every accepted reply, complete_cycle() when the number *)
(* of completed cycles has grown, reset() when the statistics are reset.   *)
(***************************************************************************)
EXTENDS RouteConfig

VARIABLES
  exploring_,             \* are TTLs beyond the ceiling being tried?
  initial_discovery_,     \* is this the first sweep?
  highest_response_ttl_,  \* the farthest TTL that answered in this exploration
  destination_ttl_,       \* the nearest TTL the destination answered at, or 0
  stable_ceiling_,        \* the last TTL probed outside explorations
  shrink_candidate_,      \* a lower ceiling awaiting confirmation, or 0
  shrink_confirmations_   \* explorations that agreed on it

vars == << exploring_, initial_discovery_, highest_response_ttl_,
           destination_ttl_, stable_ceiling_, shrink_candidate_,
           shrink_confirmations_ >>

mandatory_ttl == Larger(config_.start_ttl, config_.minimum_ttl)

\* How far the replies of the current exploration say the path goes.
normal_ceiling ==
  IF destination_ttl_ # 0 THEN Larger(mandatory_ttl, destination_ttl_)
  ELSE LET tail_origin == IF highest_response_ttl_ = 0
                          THEN config_.start_ttl - 1 ELSE highest_response_ttl_
       IN  Smaller(config_.max_hops,
                   Larger(mandatory_ttl, tail_origin + config_.unknown_host_limit))

-----------------------------------------------------------------------------
Init ==
  /\ exploring_ = TRUE /\ initial_discovery_ = TRUE
  /\ highest_response_ttl_ = 0 /\ destination_ttl_ = 0
  /\ stable_ceiling_ = config_.max_hops
  /\ shrink_candidate_ = 0 /\ shrink_confirmations_ = 0

reset ==
  /\ exploring_' = TRUE /\ initial_discovery_' = TRUE
  /\ highest_response_ttl_' = 0 /\ destination_ttl_' = 0
  /\ stable_ceiling_' = config_.max_hops
  /\ shrink_candidate_' = 0 /\ shrink_confirmations_' = 0

note_reply(ttl, destination) ==
  /\ highest_response_ttl_' =
       IF ttl \in Hops THEN Larger(highest_response_ttl_, ttl)
       ELSE highest_response_ttl_
  /\ destination_ttl_' =
       IF ttl \notin Hops \/ ~destination THEN destination_ttl_
       ELSE IF destination_ttl_ = 0 THEN ttl
       ELSE Smaller(destination_ttl_, ttl)
  /\ UNCHANGED << exploring_, initial_discovery_, stable_ceiling_,
                  shrink_candidate_, shrink_confirmations_ >>

\* The exploration that ends now found the path shorter than it was ...
Shrinking == exploring_ /\ ~initial_discovery_ /\ normal_ceiling < stable_ceiling_

\* ... as so many explorations in a row have.
Confirmations ==
  IF shrink_candidate_ = normal_ceiling THEN shrink_confirmations_ + 1 ELSE 1

Confirmed == Shrinking /\ Confirmations >= config_.shrink_confirmations

\* Mutant: the first exploration that finds the path shorter is believed.
ceiling_after_cycle_without_hysteresis ==
  IF exploring_ THEN normal_ceiling ELSE stable_ceiling_

ceiling_after_cycle ==
  IF exploring_ /\ (Shrinking => Confirmed) THEN normal_ceiling ELSE stable_ceiling_

Explores(completed_cycles) ==
  /\ config_.exploration_period # 0
  /\ completed_cycles # 0 /\ completed_cycles % config_.exploration_period = 0
  /\ ceiling_after_cycle < config_.max_hops

\* Mutant: the frontier is not cut off at the last hop.
NextCeiling_unbounded(completed_cycles) ==
  IF Explores(completed_cycles)
  THEN ceiling_after_cycle + config_.exploration_frontier_ttls
  ELSE IF exploring_ THEN ceiling_after_cycle ELSE 0

\* The new active ceiling complete_cycle() returns, or 0 for nothing to change.
NextCeiling(completed_cycles) ==
  IF Explores(completed_cycles)
  THEN Smaller(config_.max_hops,
               ceiling_after_cycle + config_.exploration_frontier_ttls)
  ELSE IF exploring_ THEN ceiling_after_cycle ELSE 0

\* Mutant: an exploration still believes in the destination seen before it.
complete_cycle_keeps_destination(completed_cycles) ==
  /\ stable_ceiling_' = ceiling_after_cycle
  /\ initial_discovery_' = (initial_discovery_ /\ ~exploring_)
  /\ shrink_candidate_' = IF Shrinking /\ ~Confirmed THEN normal_ceiling
                          ELSE IF exploring_ THEN 0 ELSE shrink_candidate_
  /\ shrink_confirmations_' = IF Shrinking /\ ~Confirmed THEN Confirmations
                              ELSE IF exploring_ THEN 0 ELSE shrink_confirmations_
  /\ exploring_' = Explores(completed_cycles)
  /\ highest_response_ttl_' =
       IF Explores(completed_cycles) THEN 0 ELSE highest_response_ttl_
  /\ UNCHANGED destination_ttl_

complete_cycle(completed_cycles) ==
  /\ stable_ceiling_' = ceiling_after_cycle
  /\ initial_discovery_' = (initial_discovery_ /\ ~exploring_)
  /\ shrink_candidate_' = IF Shrinking /\ ~Confirmed THEN normal_ceiling
                          ELSE IF exploring_ THEN 0 ELSE shrink_candidate_
  /\ shrink_confirmations_' = IF Shrinking /\ ~Confirmed THEN Confirmations
                              ELSE IF exploring_ THEN 0 ELSE shrink_confirmations_
  /\ exploring_' = Explores(completed_cycles)
  /\ highest_response_ttl_' =
       IF Explores(completed_cycles) THEN 0 ELSE highest_response_ttl_
  /\ destination_ttl_' = IF Explores(completed_cycles) THEN 0 ELSE destination_ttl_

-----------------------------------------------------------------------------
Next ==
  \/ reset
  \/ \E ttl \in 0 .. config_.max_hops + 1, destination \in BOOLEAN :
       note_reply(ttl, destination)
  \/ \E completed_cycles \in 1 .. MaxCycles : complete_cycle(completed_cycles)

Spec == Init /\ [][Next]_vars

-----------------------------------------------------------------------------
\* Properties

\* Every variable keeps its type.
TypeOK ==
  /\ exploring_ \in BOOLEAN /\ initial_discovery_ \in BOOLEAN
  /\ highest_response_ttl_ \in {0} \cup Hops
  /\ destination_ttl_ \in {0} \cup Hops
  /\ stable_ceiling_ \in Hops
  /\ shrink_candidate_ \in {0} \cup Hops
  /\ shrink_confirmations_ \in Nat

\* The ceiling given to the scheduler always reaches the TTL the user asked
\* to probe at least, and never passes the last hop.
CeilingInBounds ==
  /\ mandatory_ttl <= stable_ceiling_
  /\ \A n \in 1 .. MaxCycles :
       NextCeiling(n) # 0 => NextCeiling(n) \in mandatory_ttl .. config_.max_hops

\* A candidate for a shorter path is always shorter than the path in use, and
\* never confirmed without having been adopted.
CandidateIsPending ==
  IF shrink_candidate_ = 0 THEN shrink_confirmations_ = 0
  ELSE /\ shrink_candidate_ < stable_ceiling_
       /\ shrink_confirmations_ \in 1 .. config_.shrink_confirmations - 1
=============================================================================
