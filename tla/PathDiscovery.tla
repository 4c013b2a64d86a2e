---------------------------- MODULE PathDiscovery ----------------------------
(***************************************************************************)
(* How the trace loop follows a path that changes: RoutePolicy together    *)
(* with the parts of DoTrace() that call it, on a network whose routers    *)
(* may fall silent and whose path may get longer or shorter.               *)
(*                                                                         *)
(* Time is left out: the probes of one cycle are answered in any order,    *)
(* and a cycle is complete when every TTL being probed has been heard or   *)
(* given up.  TraceLoop has the timing.                                    *)
(***************************************************************************)
EXTENDS RouteConfig, Sequences, FiniteSets

CONSTANTS
  Paths,        \* the paths the network may take, [length, answering]
  MaxFound      \* bound: explorations remembered by the history variable

VARIABLES
  exploring_, initial_discovery_, highest_response_ttl_, destination_ttl_,
  stable_ceiling_, shrink_candidate_, shrink_confirmations_,
  reported_cycles,   \* completed cycles, counted up to MaxCycles and over
  active_last_ttl,   \* the scheduler's active_last_ttl()
  waiting,           \* the TTLs of this cycle that are still to be heard from
  path,              \* the path the network takes now
  found              \* history: the ceilings the latest explorations came to

policy_vars == << exploring_, initial_discovery_, highest_response_ttl_,
                  destination_ttl_, stable_ceiling_, shrink_candidate_,
                  shrink_confirmations_ >>
vars == << policy_vars, reported_cycles, active_last_ttl, waiting, path, found >>

Policy == INSTANCE RoutePolicy

Active(t) == config_.start_ttl .. t

PathType == [ length : Nat, answering : SUBSET Hops ]

ASSUME PathDiscoveryAssumption ==
  /\ Paths \subseteq PathType /\ MaxFound \in Nat
  /\ config_.exploration_period # 0 /\ MaxCycles % config_.exploration_period = 0
  /\ config_.shrink_confirmations <= MaxFound

\* The destination answers every probe that reaches it.
AtDestination(t) == t >= path.length

-----------------------------------------------------------------------------
Init ==
  /\ Policy!Init
  /\ reported_cycles = 0
  /\ active_last_ttl = config_.max_hops
  /\ waiting = Active(active_last_ttl)
  /\ path \in Paths
  /\ found = << >>

\* The network changes its mind.
RouteChange ==
  /\ path' \in Paths \ {path}
  /\ UNCHANGED << policy_vars, reported_cycles, active_last_ttl, waiting, found >>

\* A reply that counts: TTLs beyond the destination are no longer probed, and
\* what is still under way to them is ignored.
Reply(t) ==
  /\ t \in waiting /\ t \in path.answering
  /\ Policy!note_reply(t, AtDestination(t))
  /\ active_last_ttl' = IF AtDestination(t) THEN Larger(Policy!mandatory_ttl, t)
                        ELSE active_last_ttl
  /\ waiting' = (waiting \ {t}) \cap Active(active_last_ttl')
  /\ UNCHANGED << reported_cycles, path, found >>

\* No usable reply before the deadline.
Timeout(t) ==
  /\ t \in waiting /\ t \notin path.answering
  /\ waiting' = waiting \ {t}
  /\ UNCHANGED << policy_vars, reported_cycles, active_last_ttl, path, found >>

\* Only the remainder by exploration_period and being nonzero matter: MaxCycles
\* is a multiple of the period.
NextCycle == IF reported_cycles = MaxCycles THEN 1 ELSE reported_cycles + 1

Latest(s) == IF Len(s) > MaxFound THEN Tail(s) ELSE s

\* refresh_completed_cycles() in DoTrace().
CycleDone ==
  /\ waiting = {}
  /\ reported_cycles' = NextCycle
  /\ Policy!complete_cycle(NextCycle)
  /\ active_last_ttl' = IF Policy!NextCeiling(NextCycle) # 0
                        THEN Policy!NextCeiling(NextCycle) ELSE active_last_ttl
  /\ waiting' = Active(active_last_ttl')
  /\ found' = IF exploring_ THEN Latest(Append(found, Policy!normal_ceiling))
              ELSE found
  /\ UNCHANGED path

\* The pass of DoTrace() that finds the statistics reset.
ResetHops ==
  /\ Policy!reset
  /\ reported_cycles' = 0
  /\ active_last_ttl' = config_.max_hops
  /\ waiting' = Active(active_last_ttl')
  /\ found' = << >>
  /\ UNCHANGED path

Next ==
  \/ RouteChange
  \/ ResetHops
  \/ \E t \in waiting : Reply(t) \/ Timeout(t)
  \/ CycleDone

\* The transport reports every probe, as a reply or as a timeout, and the
\* trace loop handles every report.
Fairness ==
  /\ WF_vars(CycleDone)
  /\ WF_vars(\E t \in waiting : Reply(t) \/ Timeout(t))

Spec == Init /\ [][Next]_vars /\ Fairness

-----------------------------------------------------------------------------
\* Properties

\* The policy remembers hops only, and every ceiling it may hand out, as well as
\* the one in use, reaches the TTL the user asked to probe at least and never
\* passes the last hop.
CeilingInBounds ==
  /\ Policy!TypeOK /\ Policy!CeilingInBounds
  /\ active_last_ttl \in Policy!mandatory_ttl .. config_.max_hops
  /\ waiting \subseteq Active(active_last_ttl)

\* A path is believed shorter only after as many explorations as configured
\* came to that same end one after the other, so a path that flaps within one
\* exploration never hides the hops behind it.
ShrinkIsConfirmed ==
  [][stable_ceiling_' < stable_ceiling_ /\ ~initial_discovery_ =>
       /\ Len(found') >= config_.shrink_confirmations
       /\ \A i \in Len(found') - config_.shrink_confirmations + 1 .. Len(found') :
            found'[i] = stable_ceiling_']_vars

\* The loop probes up to the destination, and never less than what the user
\* asked for.
FollowsPath ==
  active_last_ttl = Larger(Policy!mandatory_ttl, path.length)

Answers == path.length \in path.answering

\* A path that stays as it is and whose destination answers is found however
\* it changed before, and the loop keeps to it between explorations.
PathIsFound ==
  <>[][path' = path]_vars => <>[](Answers /\ ~exploring_ => FollowsPath)

\* The frontier probes detect route growth: a path that stays as it is and
\* whose destination answers is not cut off short of the destination for ever.
RouteGrowthIsDetected ==
  <>[][path' = path]_vars => []<>(Answers => active_last_ttl >= path.length)
=============================================================================
