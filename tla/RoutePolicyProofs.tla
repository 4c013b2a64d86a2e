-------------------------- MODULE RoutePolicyProofs --------------------------
(***************************************************************************)
(* Theorems about RoutePolicy, and about PathDiscovery, which uses it, for *)
(* every configuration, any number of completed cycles and any paths.      *)
(*                                                                         *)
(* The three invariants of the policy are inductive only together: a       *)
(* candidate shorter than the stable ceiling is what keeps a shrinking     *)
(* path among the hops, and the mandatory TTL below the stable ceiling is  *)
(* what keeps an exploration from ending below it.  The range the loop     *)
(* probes follows from them.                                               *)
(***************************************************************************)
EXTENDS PathDiscovery, TLAPS

\* The configuration after normalize(): the hops are not empty, and what the
\* user asked to probe at least is one of them.
LEMMA NormalConfig ==
  /\ Policy!config_.start_ttl \in Nat \ {0} /\ Policy!config_.max_hops \in Nat
  /\ Policy!config_.start_ttl <= Policy!config_.max_hops
  /\ Policy!config_.minimum_ttl \in Nat /\ Policy!config_.minimum_ttl <= Policy!config_.max_hops
  /\ Policy!config_.unknown_host_limit \in Nat \ {0}
  /\ Policy!config_.exploration_period \in Nat
  /\ Policy!config_.exploration_frontier_ttls \in Nat
  /\ Policy!config_.shrink_confirmations \in Nat \ {0}
<1>1. /\ PathConfig.start_ttl \in Nat /\ PathConfig.minimum_ttl \in Nat
      /\ PathConfig.max_hops \in Nat /\ PathConfig.unknown_host_limit \in Nat
      /\ PathConfig.exploration_period \in Nat
      /\ PathConfig.exploration_frontier_ttls \in Nat
      /\ PathConfig.shrink_confirmations \in Nat
  BY RoutePolicyAssumption DEF PathConfigFields
<1>2. PathConfig = [f \in PathConfigFields |-> PathConfig[f]]
  BY RoutePolicyAssumption
<1>3. /\ Policy!config_.start_ttl = Policy!Larger(1, PathConfig.start_ttl)
      /\ Policy!config_.max_hops = Policy!Larger(Policy!config_.start_ttl, PathConfig.max_hops)
      /\ Policy!config_.minimum_ttl = Policy!Smaller(PathConfig.minimum_ttl, Policy!config_.max_hops)
      /\ Policy!config_.unknown_host_limit = Policy!Larger(1, PathConfig.unknown_host_limit)
      /\ Policy!config_.shrink_confirmations = Policy!Larger(1, PathConfig.shrink_confirmations)
      /\ Policy!config_.exploration_period = PathConfig.exploration_period
      /\ Policy!config_.exploration_frontier_ttls = PathConfig.exploration_frontier_ttls
  BY <1>2, RoutePolicyAssumption DEF Policy!config_, Policy!normalize, PathConfigFields
<1> QED
  BY <1>1, <1>3 DEF Policy!Larger, Policy!Smaller

\* What the user asked to probe at least is a hop.
LEMMA MandatoryIsHop == Policy!mandatory_ttl \in Policy!Hops
BY NormalConfig DEF Policy!mandatory_ttl, Policy!Hops, Policy!Larger

\* An exploration always ends at a hop the user wants probed.
LEMMA CeilingIsHop ==
  ASSUME Policy!TypeOK
  PROVE  Policy!normal_ceiling \in Policy!mandatory_ttl .. Policy!config_.max_hops
<1>1. Policy!mandatory_ttl \in Policy!config_.start_ttl .. Policy!config_.max_hops
  BY MandatoryIsHop DEF Policy!Hops
<1>2. /\ destination_ttl_ \in {0} \cup (Policy!config_.start_ttl .. Policy!config_.max_hops)
      /\ highest_response_ttl_ \in {0} \cup (Policy!config_.start_ttl .. Policy!config_.max_hops)
  BY DEF Policy!TypeOK, Policy!Hops
<1>3. CASE destination_ttl_ # 0
  BY <1>1, <1>2, <1>3, NormalConfig DEF Policy!normal_ceiling, Policy!Larger
<1>4. CASE destination_ttl_ = 0
  <2> DEFINE tail == (IF highest_response_ttl_ = 0 THEN Policy!config_.start_ttl - 1
                      ELSE highest_response_ttl_) + Policy!config_.unknown_host_limit
  <2>1. tail \in Nat
    BY <1>2, NormalConfig
  <2>2. Policy!normal_ceiling = Policy!Smaller(Policy!config_.max_hops, Policy!Larger(Policy!mandatory_ttl, tail))
    BY <1>4 DEF Policy!normal_ceiling
  <2> HIDE DEF tail
  <2> QED
    BY <1>1, <2>1, <2>2, NormalConfig DEF Policy!Larger, Policy!Smaller
<1> QED
  BY <1>3, <1>4

InBounds == Policy!mandatory_ttl <= stable_ceiling_

IInv == Policy!TypeOK /\ InBounds /\ Policy!CandidateIsPending

\* The ceiling a cycle leads to is in bounds as well.
LEMMA NextInBounds ==
  ASSUME IInv
  PROVE  /\ Policy!ceiling_after_cycle \in Policy!Hops
         /\ Policy!mandatory_ttl <= Policy!ceiling_after_cycle
         /\ \A n \in Nat : Policy!NextCeiling(n) # 0 =>
              Policy!NextCeiling(n) \in Policy!mandatory_ttl .. Policy!config_.max_hops
<1>1. Policy!normal_ceiling \in Policy!mandatory_ttl .. Policy!config_.max_hops
  BY CeilingIsHop DEF IInv
<1>2. Policy!mandatory_ttl \in Policy!config_.start_ttl .. Policy!config_.max_hops
  BY MandatoryIsHop DEF Policy!Hops
<1>3. stable_ceiling_ \in Policy!mandatory_ttl .. Policy!config_.max_hops
  BY <1>2, NormalConfig DEF IInv, InBounds, Policy!TypeOK, Policy!Hops
<1>4. Policy!ceiling_after_cycle \in Policy!mandatory_ttl .. Policy!config_.max_hops
  BY <1>1, <1>3 DEF Policy!ceiling_after_cycle
<1>5. ASSUME NEW n \in Nat, Policy!NextCeiling(n) # 0
      PROVE  Policy!NextCeiling(n) \in Policy!mandatory_ttl .. Policy!config_.max_hops
  <2>1. CASE Policy!Explores(n)
    BY <2>1, <1>2, <1>4, NormalConfig DEF Policy!NextCeiling, Policy!Smaller
  <2>2. CASE ~Policy!Explores(n)
    BY <2>2, <1>4, <1>5 DEF Policy!NextCeiling
  <2> QED
    BY <2>1, <2>2
<1> QED
  BY <1>2, <1>4, <1>5, NormalConfig DEF Policy!Hops

LEMMA InitIInv == Policy!Init => IInv
<1> SUFFICES ASSUME Policy!Init PROVE IInv
  OBVIOUS
<1>1. Policy!TypeOK
  BY NormalConfig DEF Policy!Init, Policy!TypeOK, Policy!Hops
<1>2. InBounds
  BY MandatoryIsHop, NormalConfig DEF Policy!Init, InBounds, Policy!Hops
<1>3. Policy!CandidateIsPending
  BY DEF Policy!Init, Policy!CandidateIsPending
<1> QED
  BY <1>1, <1>2, <1>3 DEF IInv

LEMMA ResetKeeps == ASSUME IInv, Policy!reset PROVE IInv'
<1>1. Policy!TypeOK'
  BY NormalConfig DEF Policy!reset, Policy!TypeOK, Policy!Hops
<1>2. InBounds'
  BY MandatoryIsHop, NormalConfig DEF Policy!reset, InBounds, Policy!Hops, Policy!mandatory_ttl
<1>3. Policy!CandidateIsPending'
  BY DEF Policy!reset, Policy!CandidateIsPending
<1> QED
  BY <1>1, <1>2, <1>3 DEF IInv

LEMMA ReplyKeeps ==
  ASSUME IInv, NEW ttl \in Nat, NEW destination \in BOOLEAN,
         Policy!note_reply(ttl, destination)
  PROVE  IInv'
<1>1. Policy!TypeOK'
  BY DEF Policy!note_reply, IInv, Policy!TypeOK, Policy!Hops, Policy!Larger, Policy!Smaller
<1>2. InBounds' /\ Policy!CandidateIsPending'
  BY DEF Policy!note_reply, IInv, InBounds, Policy!CandidateIsPending, Policy!mandatory_ttl
<1> QED
  BY <1>1, <1>2 DEF IInv

LEMMA CycleKeeps ==
  ASSUME IInv, NEW n \in Nat, Policy!complete_cycle(n)
  PROVE  IInv'
<1>1. Policy!normal_ceiling \in Policy!Hops
  <2>1. Policy!normal_ceiling \in Policy!mandatory_ttl .. Policy!config_.max_hops
    BY CeilingIsHop DEF IInv
  <2>2. Policy!mandatory_ttl \in Policy!config_.start_ttl .. Policy!config_.max_hops
    BY MandatoryIsHop DEF Policy!Hops
  <2> QED
    BY <2>1, <2>2, NormalConfig DEF Policy!Hops
<1>2. Policy!ceiling_after_cycle \in Policy!Hops /\ Policy!mandatory_ttl <= Policy!ceiling_after_cycle
  BY NextInBounds
<1>3. stable_ceiling_' = Policy!ceiling_after_cycle
  BY DEF Policy!complete_cycle
<1>4. InBounds'
  BY <1>2, <1>3 DEF InBounds, Policy!mandatory_ttl
<1>5. shrink_candidate_ \in {0} \cup Policy!Hops /\ shrink_confirmations_ \in Nat
  BY DEF IInv, Policy!TypeOK
<1>6. Policy!TypeOK'
  <2>1. exploring_' \in BOOLEAN /\ initial_discovery_' \in BOOLEAN
    BY DEF Policy!complete_cycle, IInv, Policy!TypeOK, Policy!Explores
  <2>2. highest_response_ttl_' \in {0} \cup Policy!Hops /\ destination_ttl_' \in {0} \cup Policy!Hops
    BY DEF Policy!complete_cycle, IInv, Policy!TypeOK
  <2>3. shrink_candidate_' \in {0} \cup Policy!Hops
    BY <1>1, <1>5 DEF Policy!complete_cycle
  <2>4. shrink_confirmations_' \in Nat
    BY <1>5 DEF Policy!complete_cycle, Policy!Confirmations
  <2> QED
    BY <1>2, <1>3, <2>1, <2>2, <2>3, <2>4 DEF Policy!TypeOK
<1>7. Policy!CandidateIsPending'
  <2>1. CASE Policy!Shrinking /\ ~Policy!Confirmed
    <3>1. /\ shrink_candidate_' = Policy!normal_ceiling
          /\ shrink_confirmations_' = Policy!Confirmations
      BY <2>1 DEF Policy!complete_cycle
    <3>2. Policy!ceiling_after_cycle = stable_ceiling_ /\ Policy!normal_ceiling < stable_ceiling_
      BY <2>1 DEF Policy!ceiling_after_cycle, Policy!Shrinking
    <3>3. Policy!Confirmations \in Nat /\ Policy!Confirmations >= 1
      BY <1>5 DEF Policy!Confirmations
    <3>4. Policy!Confirmations <= Policy!config_.shrink_confirmations - 1
      BY <2>1, <3>3, NormalConfig DEF Policy!Confirmed
    <3>5. Policy!normal_ceiling # 0
      BY <1>1, NormalConfig DEF Policy!Hops
    <3> QED
      BY <1>3, <3>1, <3>2, <3>3, <3>4, <3>5, NormalConfig DEF Policy!CandidateIsPending
  <2>2. CASE ~(Policy!Shrinking /\ ~Policy!Confirmed) /\ exploring_
    BY <2>2 DEF Policy!complete_cycle, Policy!CandidateIsPending
  <2>3. CASE ~(Policy!Shrinking /\ ~Policy!Confirmed) /\ ~exploring_
    <3>1. /\ shrink_candidate_' = shrink_candidate_
          /\ shrink_confirmations_' = shrink_confirmations_
      BY <2>3 DEF Policy!complete_cycle
    <3>2. stable_ceiling_' = stable_ceiling_
      BY <1>3, <2>3 DEF Policy!ceiling_after_cycle
    <3> QED
      BY <3>1, <3>2 DEF IInv, Policy!CandidateIsPending
  <2> QED
    BY <2>1, <2>2, <2>3
<1> QED
  BY <1>4, <1>6, <1>7 DEF IInv

LEMMA StepIInv == IInv /\ [Policy!Next]_(Policy!vars) => IInv'
<1> SUFFICES ASSUME IInv, [Policy!Next]_(Policy!vars) PROVE IInv'
  OBVIOUS
<1>1. CASE Policy!reset
  BY <1>1, ResetKeeps
<1>2. ASSUME NEW ttl \in 0 .. Policy!config_.max_hops + 1, NEW destination \in BOOLEAN,
             Policy!note_reply(ttl, destination)
      PROVE  IInv'
  BY <1>2, ReplyKeeps, NormalConfig
<1>3. ASSUME NEW n \in 1 .. MaxCycles, Policy!complete_cycle(n)
      PROVE  IInv'
  BY <1>3, CycleKeeps, RoutePolicyAssumption
<1>4. CASE UNCHANGED Policy!vars
  BY <1>4 DEF Policy!vars, IInv, Policy!TypeOK, InBounds, Policy!CandidateIsPending, Policy!mandatory_ttl
<1> QED
  BY <1>1, <1>2, <1>3, <1>4 DEF Policy!Next

LEMMA Inductive == Policy!Spec => []IInv
BY InitIInv, StepIInv, PTL DEF Policy!Spec

\* Every variable of the route policy keeps its type: the TTLs it remembers
\* are hops of the session or zero.
THEOREM RouteTypeCorrect == Policy!Spec => []Policy!TypeOK
<1>1. IInv => Policy!TypeOK
  BY DEF IInv
<1> QED
  BY <1>1, Inductive, PTL

\* Whatever replies come in and however many cycles are completed, the ceiling
\* given to the scheduler reaches what the user asked for and never passes the
\* last hop.
THEOREM CeilingStaysInBounds == Policy!Spec => []Policy!CeilingInBounds
<1>1. IInv => Policy!CeilingInBounds
  BY NextInBounds, RoutePolicyAssumption DEF IInv, InBounds, Policy!CeilingInBounds
<1> QED
  BY <1>1, Inductive, PTL

\* A shorter path waits for its confirmations, and is adopted with the last.
THEOREM CandidateWaits == Policy!Spec => []Policy!CandidateIsPending
<1>1. IInv => Policy!CandidateIsPending
  BY DEF IInv
<1> QED
  BY <1>1, Inductive, PTL

-----------------------------------------------------------------------------
\* The loop's use of the policy

\* PathDiscovery and the policy are given the same configuration.
LEMMA SameConfig ==
  /\ config_ = Policy!config_
  /\ \A a, b : Larger(a, b) = Policy!Larger(a, b)
BY DEF config_, Policy!config_, normalize, Policy!normalize, Larger, Policy!Larger,
       Smaller, Policy!Smaller

\* The range probed is one the policy handed out, or all hops, or ends at the
\* destination; what is still to be heard from is in it.
RangeInBounds ==
  /\ active_last_ttl \in Policy!mandatory_ttl .. config_.max_hops
  /\ waiting \subseteq Active(active_last_ttl)

DiscoveryInv == IInv /\ RangeInBounds /\ reported_cycles \in Nat

LEMMA DiscoveryInit == Init => DiscoveryInv
<1>. SUFFICES ASSUME Init PROVE DiscoveryInv
  OBVIOUS
<1>1. IInv
  BY InitIInv DEF Init
<1>2. config_.max_hops \in Policy!mandatory_ttl .. config_.max_hops
  BY MandatoryIsHop, NormalConfig, SameConfig DEF Policy!Hops
<1>. QED
  BY <1>1, <1>2 DEF Init, DiscoveryInv, RangeInBounds

LEMMA DiscoveryReply ==
  ASSUME DiscoveryInv, NEW t \in waiting, Reply(t)
  PROVE  DiscoveryInv'
<1>1. t \in config_.start_ttl .. active_last_ttl
  BY DEF DiscoveryInv, RangeInBounds, Active
<1>2. t \in Nat /\ AtDestination(t) \in BOOLEAN
  BY <1>1, NormalConfig, SameConfig DEF AtDestination
<1>3. IInv'
  BY <1>2, ReplyKeeps DEF Reply, DiscoveryInv
<1>4. active_last_ttl' \in Policy!mandatory_ttl .. config_.max_hops
  <2>1. Policy!mandatory_ttl \in Nat /\ Policy!mandatory_ttl <= config_.max_hops
        /\ config_.max_hops \in Nat
    BY MandatoryIsHop, NormalConfig, SameConfig DEF Policy!Hops
  <2>2. active_last_ttl \in Policy!mandatory_ttl .. config_.max_hops
    BY DEF DiscoveryInv, RangeInBounds
  <2>3. active_last_ttl' = active_last_ttl
          \/ active_last_ttl' = Larger(Policy!mandatory_ttl, t)
    BY DEF Reply
  <2>. QED
    BY <1>1, <1>2, <2>1, <2>2, <2>3 DEF Larger
<1>5. waiting' \subseteq Active(active_last_ttl')
  BY DEF Reply
<1>6. RangeInBounds'
  BY <1>4, <1>5 DEF RangeInBounds, Active, Policy!mandatory_ttl
<1>. QED
  BY <1>3, <1>6 DEF DiscoveryInv, Reply

LEMMA DiscoveryCycle == DiscoveryInv /\ CycleDone => DiscoveryInv'
<1>. SUFFICES ASSUME DiscoveryInv, CycleDone PROVE DiscoveryInv'
  OBVIOUS
<1>1. NextCycle \in Nat
  BY DEF DiscoveryInv, NextCycle
<1>2. IInv'
  BY <1>1, CycleKeeps DEF DiscoveryInv, CycleDone
<1>3. Policy!NextCeiling(NextCycle) # 0 =>
        Policy!NextCeiling(NextCycle) \in Policy!mandatory_ttl .. config_.max_hops
  BY <1>1, NextInBounds, SameConfig DEF DiscoveryInv
<1>4. active_last_ttl' \in Policy!mandatory_ttl .. config_.max_hops
  BY <1>3 DEF DiscoveryInv, RangeInBounds, CycleDone
<1>5. RangeInBounds'
  BY <1>4 DEF RangeInBounds, Active, CycleDone, Policy!mandatory_ttl
<1>. QED
  BY <1>1, <1>2, <1>5 DEF DiscoveryInv, CycleDone

LEMMA DiscoveryStep == DiscoveryInv /\ [Next]_vars => DiscoveryInv'
<1>. SUFFICES ASSUME DiscoveryInv, [Next]_vars PROVE DiscoveryInv'
  OBVIOUS
<1>1. ASSUME UNCHANGED << policy_vars, reported_cycles, active_last_ttl >>,
             waiting' \subseteq waiting
      PROVE  DiscoveryInv'
  <2>1. IInv'
    BY <1>1 DEF DiscoveryInv, policy_vars, IInv, Policy!TypeOK, InBounds,
                Policy!CandidateIsPending, Policy!mandatory_ttl
  <2>. QED
    BY <1>1, <2>1 DEF DiscoveryInv, RangeInBounds, Active, Policy!mandatory_ttl
<1>2. CASE RouteChange
  BY <1>1, <1>2 DEF RouteChange
<1>3. CASE ResetHops
  <2>1. IInv'
    BY <1>3, ResetKeeps DEF DiscoveryInv, ResetHops
  <2>2. config_.max_hops \in Policy!mandatory_ttl .. config_.max_hops
    BY MandatoryIsHop, NormalConfig, SameConfig DEF Policy!Hops
  <2>3. RangeInBounds'
    BY <1>3, <2>2 DEF RangeInBounds, Active, ResetHops, Policy!mandatory_ttl
  <2>. QED
    BY <1>3, <2>1, <2>3 DEF DiscoveryInv, ResetHops
<1>4. ASSUME NEW t \in waiting, Reply(t) PROVE DiscoveryInv'
  BY <1>4, DiscoveryReply
<1>5. ASSUME NEW t \in waiting, Timeout(t) PROVE DiscoveryInv'
  BY <1>1, <1>5 DEF Timeout
<1>6. CASE CycleDone
  BY <1>6, DiscoveryCycle
<1>7. CASE UNCHANGED vars
  BY <1>1, <1>7 DEF vars
<1>. QED
  BY <1>2, <1>3, <1>4, <1>5, <1>6, <1>7 DEF Next

\* Whatever paths the network takes and whoever is silent, the loop probes what
\* the user asked for at least and never beyond the last hop, and so does every
\* ceiling the policy may still hand out.
THEOREM DiscoveryStaysInBounds == Spec => []CeilingInBounds
<1>1. DiscoveryInv => CeilingInBounds
  <2>. SUFFICES ASSUME DiscoveryInv PROVE CeilingInBounds
    OBVIOUS
  <2>1. Policy!TypeOK /\ Policy!CeilingInBounds
    BY NextInBounds, RoutePolicyAssumption DEF DiscoveryInv, IInv, InBounds,
       Policy!CeilingInBounds
  <2>. QED
    BY <2>1 DEF DiscoveryInv, RangeInBounds, CeilingInBounds
<1>. QED
  BY <1>1, DiscoveryInit, DiscoveryStep, PTL DEF Spec

-----------------------------------------------------------------------------
\* A path is believed shorter only when the latest explorations agree on it

\* The latest n explorations all came to c.
Agree(s, n, c) ==
  n <= Len(s) /\ \A i \in Len(s) - n + 1 .. Len(s) : s[i] = c

\* The policy counts what the explorations found.
CandidateIsCounted ==
  /\ found \in Seq(Policy!Hops) /\ Len(found) <= MaxFound
  /\ shrink_candidate_ # 0 => Agree(found, shrink_confirmations_, shrink_candidate_)

\* Another exploration that agrees; as many as are counted are remembered.
LEMMA OneMoreAgrees ==
  ASSUME NEW s \in Seq(Policy!Hops), Len(s) <= MaxFound, MaxFound \in Nat,
         NEW c \in Policy!Hops, NEW n \in Nat, n + 1 <= MaxFound, Agree(s, n, c)
  PROVE  /\ Latest(Append(s, c)) \in Seq(Policy!Hops)
         /\ Len(Latest(Append(s, c))) <= MaxFound
         /\ Agree(Latest(Append(s, c)), n + 1, c)
<1>. DEFINE longer == Append(s, c)
<1>1. /\ longer \in Seq(Policy!Hops) /\ Len(longer) = Len(s) + 1 /\ Len(s) \in Nat
      /\ \A i \in 1 .. Len(s) : longer[i] = s[i]
      /\ longer[Len(s) + 1] = c
  OBVIOUS
<1>2. Agree(longer, n + 1, c)
  <2>1. \A i \in Len(longer) - (n + 1) + 1 .. Len(longer) :
          i \in Len(s) - n + 1 .. Len(s) \/ i = Len(s) + 1
    BY <1>1
  <2>2. \A i \in Len(s) - n + 1 .. Len(s) : i \in 1 .. Len(s) /\ s[i] = c
    BY <1>1 DEF Agree
  <2>3. \A i \in Len(longer) - (n + 1) + 1 .. Len(longer) : longer[i] = c
    BY <1>1, <2>1, <2>2
  <2>. QED
    BY <1>1, <2>3 DEF Agree
<1>. HIDE DEF longer
<1>3. CASE Len(longer) > MaxFound
  <2>1. /\ Latest(longer) = Tail(longer) /\ longer # << >>
        /\ Latest(longer) \in Seq(Policy!Hops) /\ Len(Latest(longer)) = Len(longer) - 1
        /\ \A i \in 1 .. Len(longer) - 1 : Latest(longer)[i] = longer[i + 1]
    BY <1>1, <1>3 DEF Latest
  <2>2. n + 1 <= Len(Latest(longer))
    BY <1>1, <1>3, <2>1
  <2>3. ASSUME NEW i \in Len(Latest(longer)) - (n + 1) + 1 .. Len(Latest(longer))
        PROVE  Latest(longer)[i] = c
    <3>1. i \in 1 .. Len(longer) - 1 /\ i + 1 \in Len(longer) - (n + 1) + 1 .. Len(longer)
      BY <1>1, <2>1, <2>2
    <3>. QED
      BY <1>2, <2>1, <3>1 DEF Agree
  <2>. QED
    BY <1>1, <2>1, <2>2, <2>3 DEF Agree, longer
<1>4. CASE ~(Len(longer) > MaxFound)
  BY <1>1, <1>2, <1>4 DEF Latest, longer
<1>. QED
  BY <1>3, <1>4

\* An exploration that ends is counted, or there is no candidate any more.
LEMMA ExplorationCounts ==
  ASSUME DiscoveryInv, CandidateIsCounted, CycleDone, exploring_
  PROVE  /\ found' \in Seq(Policy!Hops) /\ Len(found') <= MaxFound
         /\ Policy!Confirmations \in Nat
         /\ Policy!Confirmations <= Policy!config_.shrink_confirmations
         /\ Agree(found', Policy!Confirmations, Policy!normal_ceiling)
<1>1. Policy!normal_ceiling \in Policy!Hops
  <2>1. Policy!normal_ceiling \in Policy!mandatory_ttl .. Policy!config_.max_hops
    BY CeilingIsHop DEF DiscoveryInv, IInv
  <2>2. Policy!mandatory_ttl \in Policy!config_.start_ttl .. Policy!config_.max_hops
    BY MandatoryIsHop DEF Policy!Hops
  <2>. QED
    BY <2>1, <2>2, NormalConfig DEF Policy!Hops
<1>2. /\ MaxFound \in Nat /\ Policy!config_.shrink_confirmations <= MaxFound
      /\ Policy!config_.shrink_confirmations \in Nat \ {0}
  BY PathDiscoveryAssumption, NormalConfig, SameConfig
<1>3. found' = Latest(Append(found, Policy!normal_ceiling))
  BY DEF CycleDone
<1>4. found \in Seq(Policy!Hops) /\ Len(found) <= MaxFound /\ Len(found) \in Nat
  BY DEF CandidateIsCounted
<1>5. CASE shrink_candidate_ = Policy!normal_ceiling
  <2>1. shrink_candidate_ # 0
    BY <1>1, <1>5, NormalConfig DEF Policy!Hops
  <2>2. shrink_confirmations_ \in 1 .. Policy!config_.shrink_confirmations - 1
    BY <2>1 DEF DiscoveryInv, IInv, Policy!CandidateIsPending
  <2>3. Agree(found, shrink_confirmations_, Policy!normal_ceiling)
    BY <1>5, <2>1 DEF CandidateIsCounted
  <2>4. Policy!Confirmations = shrink_confirmations_ + 1
    BY <1>5 DEF Policy!Confirmations
  <2>5. shrink_confirmations_ \in Nat /\ shrink_confirmations_ + 1 <= MaxFound
    BY <1>2, <2>2
  <2>6. Policy!Confirmations \in Nat
        /\ Policy!Confirmations <= Policy!config_.shrink_confirmations
    BY <1>2, <2>2, <2>4
  <2>. QED
    BY <1>1, <1>2, <1>3, <1>4, <2>3, <2>4, <2>5, <2>6, OneMoreAgrees
<1>6. CASE shrink_candidate_ # Policy!normal_ceiling
  <2>1. Policy!Confirmations = 0 + 1
    BY <1>6 DEF Policy!Confirmations
  <2>2. Agree(found, 0, Policy!normal_ceiling)
    BY <1>4 DEF Agree
  <2>3. 0 + 1 <= MaxFound /\ 0 + 1 <= Policy!config_.shrink_confirmations /\ 0 + 1 \in Nat
    BY <1>2
  <2>. QED
    BY <1>1, <1>2, <1>3, <1>4, <2>1, <2>2, <2>3, OneMoreAgrees
<1>. QED
  BY <1>5, <1>6

LEMMA CountedCycle ==
  ASSUME DiscoveryInv, CandidateIsCounted, CycleDone
  PROVE  /\ CandidateIsCounted'
         /\ stable_ceiling_' < stable_ceiling_ /\ ~initial_discovery_ =>
              Agree(found', config_.shrink_confirmations, stable_ceiling_')
<1>1. /\ stable_ceiling_' = Policy!ceiling_after_cycle
      /\ shrink_candidate_' = IF Policy!Shrinking /\ ~Policy!Confirmed
                              THEN Policy!normal_ceiling
                              ELSE IF exploring_ THEN 0 ELSE shrink_candidate_
      /\ shrink_confirmations_' = IF Policy!Shrinking /\ ~Policy!Confirmed
                                  THEN Policy!Confirmations
                                  ELSE IF exploring_ THEN 0 ELSE shrink_confirmations_
  BY DEF CycleDone, Policy!complete_cycle
<1>2. CASE ~exploring_
  <2>1. UNCHANGED << found, shrink_candidate_, shrink_confirmations_, stable_ceiling_ >>
    BY <1>1, <1>2 DEF CycleDone, Policy!Shrinking, Policy!ceiling_after_cycle
  <2>2. stable_ceiling_ \in Int
    BY NormalConfig DEF DiscoveryInv, IInv, Policy!TypeOK, Policy!Hops
  <2>3. CandidateIsCounted'
    BY <2>1 DEF CandidateIsCounted, Agree, Policy!Hops, Policy!config_, Policy!normalize,
                Policy!Larger, Policy!Smaller
  <2>. QED
    BY <2>1, <2>2, <2>3
<1>3. CASE exploring_
  <2>1. /\ found' \in Seq(Policy!Hops) /\ Len(found') <= MaxFound
        /\ Policy!Confirmations \in Nat
        /\ Policy!Confirmations <= Policy!config_.shrink_confirmations
        /\ Agree(found', Policy!Confirmations, Policy!normal_ceiling)
    BY <1>3, ExplorationCounts
  <2>2. shrink_candidate_' # 0 => /\ shrink_candidate_' = Policy!normal_ceiling
                                  /\ shrink_confirmations_' = Policy!Confirmations
    BY <1>1, <1>3
  <2>3. CandidateIsCounted'
    BY <2>1, <2>2 DEF CandidateIsCounted, Agree, Policy!Hops, Policy!config_, Policy!normalize,
                      Policy!Larger, Policy!Smaller
  <2>4. ASSUME stable_ceiling_' < stable_ceiling_, ~initial_discovery_
        PROVE  Agree(found', config_.shrink_confirmations, stable_ceiling_')
    <3>1. stable_ceiling_ \in Int
      BY NormalConfig DEF DiscoveryInv, IInv, Policy!TypeOK, Policy!Hops
    <3>2. Policy!Confirmed /\ stable_ceiling_' = Policy!normal_ceiling
      BY <1>1, <1>3, <2>4, <3>1 DEF Policy!ceiling_after_cycle, Policy!Shrinking
    <3>3. Policy!Confirmations = config_.shrink_confirmations
      BY <2>1, <3>2, NormalConfig, SameConfig DEF Policy!Confirmed
    <3>. QED
      BY <2>1, <3>2, <3>3
  <2>. QED
    BY <2>3, <2>4
<1>. QED
  BY <1>2, <1>3

LEMMA CountedStep ==
  ASSUME DiscoveryInv, CandidateIsCounted, [Next]_vars
  PROVE  /\ CandidateIsCounted'
         /\ stable_ceiling_' < stable_ceiling_ /\ ~initial_discovery_ =>
              Agree(found', config_.shrink_confirmations, stable_ceiling_')
<1>1. stable_ceiling_ \in Int /\ stable_ceiling_ <= Policy!config_.max_hops
  BY NormalConfig DEF DiscoveryInv, IInv, Policy!TypeOK, Policy!Hops
<1>2. MaxFound \in Nat
  BY PathDiscoveryAssumption
<1>3. CASE ResetHops
  <2>1. found' = << >> /\ shrink_candidate_' = 0 /\ stable_ceiling_' = Policy!config_.max_hops
    BY <1>3 DEF ResetHops, Policy!reset
  <2>. QED
    BY <1>1, <1>2, <2>1, NormalConfig DEF CandidateIsCounted
<1>4. CASE CycleDone
  BY <1>4, CountedCycle
<1>5. CASE UNCHANGED << stable_ceiling_, shrink_candidate_, shrink_confirmations_, found >>
  BY <1>1, <1>5 DEF CandidateIsCounted, Agree, Policy!Hops, Policy!config_, Policy!normalize,
                    Policy!Larger, Policy!Smaller
<1>. QED
  BY <1>3, <1>4, <1>5 DEF Next, RouteChange, Reply, Timeout, Policy!note_reply, vars, policy_vars

\* The hops behind a shorter path are hidden only when as many explorations as
\* configured found that path, one after the other.
THEOREM ShrinkAlwaysConfirmed == Spec => ShrinkIsConfirmed
<1>1. Init => CandidateIsCounted
  BY PathDiscoveryAssumption DEF Init, Policy!Init, CandidateIsCounted
<1>2. DiscoveryInv /\ CandidateIsCounted /\ [Next]_vars => CandidateIsCounted'
  BY CountedStep
<1>3. DiscoveryInv /\ CandidateIsCounted /\ [Next]_vars =>
        [stable_ceiling_' < stable_ceiling_ /\ ~initial_discovery_ =>
           /\ Len(found') >= config_.shrink_confirmations
           /\ \A i \in Len(found') - config_.shrink_confirmations + 1 .. Len(found') :
                found'[i] = stable_ceiling_']_vars
  <2>. SUFFICES ASSUME DiscoveryInv, CandidateIsCounted, [Next]_vars,
                       stable_ceiling_' < stable_ceiling_, ~initial_discovery_
                PROVE  /\ Len(found') >= config_.shrink_confirmations
                       /\ \A i \in Len(found') - config_.shrink_confirmations + 1 .. Len(found') :
                            found'[i] = stable_ceiling_'
    OBVIOUS
  <2>1. Agree(found', config_.shrink_confirmations, stable_ceiling_')
    BY CountedStep
  <2>2. found' \in Seq(Policy!Hops)
    BY CountedStep DEF CandidateIsCounted, Policy!Hops, Policy!config_, Policy!normalize,
                       Policy!Larger, Policy!Smaller
  <2>3. Len(found') \in Nat /\ config_.shrink_confirmations \in Nat
    BY <2>2, NormalConfig, SameConfig
  <2>. QED
    BY <2>1, <2>3 DEF Agree
<1>. QED
  BY <1>1, <1>2, <1>3, DiscoveryInit, DiscoveryStep, PTL DEF Spec, ShrinkIsConfirmed

=============================================================================
