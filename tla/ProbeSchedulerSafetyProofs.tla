--------------------- MODULE ProbeSchedulerSafetyProofs ---------------------
(***************************************************************************)
(* The properties of ProbeScheduler that rest on the accounting invariant  *)
(* IInv of ProbeSchedulerProofs: the safety properties, what a step of     *)
(* reserve_due() may do to the deadlines, and, in the last part, that the  *)
(* scheduler implements ProbeLifecycle, action by action.                  *)
(***************************************************************************)
EXTENDS ProbeSchedulerProofs, WellFoundedInduction

-----------------------------------------------------------------------------
\* CapsRespected, as one fact about the session and one about each TTL.
SessionCaps ==
  /\ logical_inflight_ + reserved_ <= config_.max_inflight
  /\ transport_outstanding_ + reserved_ <= config_.max_transport_outstanding

TtlCaps(t) ==
  /\ counters[t]["in_flight"] + reserved[t] <= config_.max_inflight_per_ttl
  /\ counters[t]["transport_outstanding"] + reserved[t]
       <= config_.max_transport_outstanding_per_ttl

\* The counts the limits compare, in the old and in the new state.
LEMMA CountsKnown ==
  ASSUME IInv
  PROVE  /\ reserved_ \in Nat /\ logical_inflight_ \in Nat
         /\ transport_outstanding_ \in Nat
         /\ \A t \in TTL : /\ reserved[t] \in Nat
                           /\ counters[t]["in_flight"] \in Nat
                           /\ counters[t]["transport_outstanding"] \in Nat
         /\ \A t \in TTL, c \in CounterNames : counters[t][c] \in Nat
         /\ \A s \in DOMAIN records_ :
              /\ records_[s] \in Records /\ records_[s].ttl \in TTL
              /\ records_[s].state \in RecordState
  BY DEF IInv, TypeOK, CounterNames, Records

LEMMA CapValues ==
  /\ config_.max_inflight \in Nat /\ config_.max_transport_outstanding \in Nat
  /\ config_.max_inflight_per_ttl \in Nat
  /\ config_.max_transport_outstanding_per_ttl \in Nat
  BY ConfigFacts

\* A step that adds to none of the counts keeps the limits.
LEMMA CapsByLowering ==
  ASSUME IInv, IInv', CapsRespected,
         reserved_' <= reserved_, logical_inflight_' <= logical_inflight_,
         transport_outstanding_' <= transport_outstanding_,
         \A t \in TTL :
           /\ reserved'[t] <= reserved[t]
           /\ counters'[t]["in_flight"] <= counters[t]["in_flight"]
           /\ counters'[t]["transport_outstanding"]
                <= counters[t]["transport_outstanding"]
  PROVE  CapsRespected'
<1>1. /\ reserved_ \in Nat /\ logical_inflight_ \in Nat /\ transport_outstanding_ \in Nat
      /\ reserved_' \in Nat /\ logical_inflight_' \in Nat
      /\ transport_outstanding_' \in Nat
  BY DEF IInv, TypeOK
<1>2. SessionCaps'
  BY <1>1, CapValues DEF CapsRespected, SessionCaps
<1>3. ASSUME NEW t \in TTL PROVE TtlCaps(t)'
  <2>1. /\ reserved[t] \in Nat /\ counters[t]["in_flight"] \in Nat
        /\ counters[t]["transport_outstanding"] \in Nat
    BY DEF IInv, TypeOK, CounterNames
  <2>2. /\ reserved'[t] \in Nat /\ counters'[t]["in_flight"] \in Nat
        /\ counters'[t]["transport_outstanding"] \in Nat
    BY DEF IInv, TypeOK, CounterNames
  <2>3. TtlCaps(t)
    BY DEF CapsRespected, TtlCaps
  <2>4. QED BY <2>1, <2>2, <2>3, CapValues DEF TtlCaps
<1>4. QED BY <1>2, <1>3 DEF CapsRespected, SessionCaps, TtlCaps

\* A probe that is issued leaves the reservations as it enters the counts of
\* the probes in flight, so every sum stays what it was.
LEMMA CapsIssued ==
  ASSUME IInv, CapsRespected, NEW s \in DOMAIN records_, mark_issued(s, now)
  PROVE  CapsRespected'
<1> DEFINE k == records_[s].ttl
           up == { "sent", "in_flight", "transport_outstanding" }
<1>1. k \in TTL
  BY CountsKnown
<1>2. \A t \in TTL, c \in CounterNames :
        counters'[t][c] = counters[t][c] + (IF t = k /\ c \in up THEN 1 ELSE 0)
  <2>1. \A t \in TTL, c \in CounterNames : counters[t][c] \in Nat
    BY CountsKnown
  <2>2. QED BY <1>1, <2>1, CountValue DEF mark_issued, IInv
<1>3. reserved \in [TTL -> Nat]
  BY DEF IInv, TypeOK
<1>4. \A t \in TTL : reserved'[t] = reserved[t] - Same(t, k)
  BY <1>1, <1>3 DEF mark_issued, Unreserve, Same
<1>5. SessionCaps'
  BY CountsKnown, CapValues DEF mark_issued, Unreserve, CapsRespected, SessionCaps
<1>6. ASSUME NEW t \in TTL PROVE TtlCaps(t)'
  <2>1. /\ counters'[t]["in_flight"] = counters[t]["in_flight"] + Same(t, k)
        /\ counters'[t]["transport_outstanding"]
             = counters[t]["transport_outstanding"] + Same(t, k)
    BY <1>2 DEF CounterNames, Same
  <2>2. reserved'[t] = reserved[t] - Same(t, k) /\ TtlCaps(t)
    BY <1>4 DEF CapsRespected, TtlCaps
  <2>3. Same(t, k) \in Nat
    BY DEF Same
  <2>4. QED BY <2>1, <2>2, <2>3, CountsKnown DEF TtlCaps
<1>7. QED BY <1>5, <1>6 DEF CapsRespected, SessionCaps, TtlCaps

\* A slot is reserved only where every limit leaves room for it.
LEMMA CapsReserved ==
  ASSUME IInv, CapsRespected, reserve_due
  PROVE  CapsRespected'
<1>1. \A t \in TTL : counters'[t]["in_flight"] = counters[t]["in_flight"]
        /\ counters'[t]["transport_outstanding"] = counters[t]["transport_outstanding"]
  BY ReserveVisits
<1>2. UNCHANGED << logical_inflight_, transport_outstanding_ >>
  BY DEF reserve_due
<1>3. CASE UNCHANGED << reserved, reserved_ >>
  BY <1>1, <1>2, <1>3 DEF CapsRespected
<1>4. ASSUME NEW k \in Chosen, reserved' = [reserved EXCEPT ![k] = @ + 1],
             reserved_' = reserved_ + 1
      PROVE  CapsRespected'
  <2>1. k \in TTL /\ ~Full(k)
    <3>1. ShapeOK
      BY IInvFacts
    <3>2. QED BY <3>1, ConfigFacts, TTLFacts
                 DEF Chosen, Skipped, Visited, Due, ShapeOK, TTL
  <2>2. /\ counters[k]["in_flight"] + reserved[k] < config_.max_inflight_per_ttl
        /\ counters[k]["transport_outstanding"] + reserved[k]
             < config_.max_transport_outstanding_per_ttl
        /\ logical_inflight_ + reserved_ < config_.max_inflight
        /\ transport_outstanding_ + reserved_ < config_.max_transport_outstanding
    <3>1. /\ reserved[k] \in Nat /\ counters[k]["in_flight"] \in Nat
          /\ counters[k]["transport_outstanding"] \in Nat
          /\ reserved_ \in Nat /\ logical_inflight_ \in Nat
          /\ transport_outstanding_ \in Nat
      BY <2>1, CountsKnown
    <3>2. QED BY <2>1, <3>1, CapValues DEF Full, logical_full, transport_full
  <2>3. SessionCaps'
    BY <1>2, <1>4, <2>2, CountsKnown, CapValues DEF SessionCaps
  <2>4. ASSUME NEW t \in TTL PROVE TtlCaps(t)'
    <3>1. reserved'[t] = reserved[t] + Same(t, k)
      <4>1. reserved \in [TTL -> Nat]
        BY DEF IInv, TypeOK
      <4>2. QED BY <1>4, <2>1, <4>1 DEF Same
    <3>2. TtlCaps(t)
      BY DEF CapsRespected, TtlCaps
    <3>3. /\ reserved[t] \in Nat /\ counters[t]["in_flight"] \in Nat
          /\ counters[t]["transport_outstanding"] \in Nat
      BY CountsKnown
    <3>4. QED BY <1>1, <2>2, <3>1, <3>2, <3>3, CapValues DEF TtlCaps, Same
  <2>5. QED BY <2>3, <2>4 DEF CapsRespected, SessionCaps, TtlCaps
<1>5. QED BY <1>3, <1>4 DEF reserve_due

-----------------------------------------------------------------------------
\* Every step but a reservation and a send only takes records away or settles
\* them: none becomes reserved or issued, none becomes outstanding.
Shrinks ==
  /\ DOMAIN records_' \subseteq DOMAIN records_
  /\ \A u \in DOMAIN records_' :
       /\ records_'[u].ttl = records_[u].ttl
       /\ records_'[u].epoch = records_[u].epoch
       /\ records_'[u].state = "reserved" <=> records_[u].state = "reserved"
       /\ records_'[u].state = "issued" => records_[u].state = "issued"
       /\ records_[u].state = "ignored_epoch" => records_'[u].state = "ignored_epoch"

LEMMA WithoutShrinks ==
  ASSUME NEW S, records_' = Without(S)
  PROVE  Shrinks
  BY DEF Shrinks, Without

\* A step that replaces the state of some records and drops others.
LEMMA ResettledShrinks ==
  ASSUME NEW D \in SUBSET DOMAIN records_, DOMAIN records_' = D,
         \A u \in D : \/ records_'[u] = records_[u]
                      \/ /\ records_[u].state # "reserved"
                         /\ records_'[u].ttl = records_[u].ttl
                         /\ records_'[u].epoch = records_[u].epoch
                         /\ \/ records_'[u].state = "ignored_epoch"
                            \/ /\ records_[u].state = "issued"
                               /\ records_'[u].state \in { "timed_out", "cancelled" }
  PROVE  Shrinks
  BY DEF Shrinks

LEMMA RetireShrinks ==
  ASSUME IInv, retire_logical_state_for_epoch_change
  PROVE  Shrinks
<1>1. records_' = [u \in Outstanding |->
                     [records_[u] EXCEPT !.state = "ignored_epoch"]]
  BY DEF retire_logical_state_for_epoch_change
<1>2. Outstanding \in SUBSET DOMAIN records_ /\ DOMAIN records_' = Outstanding
  BY <1>1 DEF Outstanding
<1>3. ASSUME NEW u \in Outstanding
      PROVE /\ records_[u].state # "reserved"
            /\ records_'[u].ttl = records_[u].ttl
            /\ records_'[u].epoch = records_[u].epoch
            /\ records_'[u].state = "ignored_epoch"
  <2>1. records_[u] \in Records
    BY <1>2, CountsKnown
  <2>2. QED BY <1>1, <2>1 DEF Outstanding, Records
<1>4. QED BY <1>2, <1>3, ResettledShrinks

LEMMA CancelShrinks ==
  ASSUME IInv, cancel_pending
  PROVE  Shrinks
<1>1. records_' = [u \in Outstanding |->
        IF records_[u].state = "issued"
        THEN [records_[u] EXCEPT !.state = "cancelled"] ELSE records_[u]]
  BY DEF cancel_pending
<1>2. Outstanding \in SUBSET DOMAIN records_ /\ DOMAIN records_' = Outstanding
  BY <1>1 DEF Outstanding
<1>3. ASSUME NEW u \in Outstanding
      PROVE \/ records_'[u] = records_[u]
            \/ /\ records_[u].state = "issued"
               /\ records_'[u].ttl = records_[u].ttl
               /\ records_'[u].epoch = records_[u].epoch
               /\ records_'[u].state = "cancelled"
  <2>1. records_[u] \in Records
    BY <1>2, CountsKnown
  <2>2. QED BY <1>1, <2>1 DEF Outstanding, Records
<1>4. QED BY <1>2, <1>3, ResettledShrinks

LEMMA ExpireShrinks ==
  ASSUME IInv, expire
  PROVE  Shrinks
<1>1. records_' = [u \in DOMAIN records_ |->
        IF u \in Expired THEN [records_[u] EXCEPT !.state = "timed_out"]
        ELSE records_[u]]
  BY DEF expire
<1>2. ASSUME NEW u \in DOMAIN records_
      PROVE \/ records_'[u] = records_[u]
            \/ /\ records_[u].state = "issued"
               /\ records_'[u].ttl = records_[u].ttl
               /\ records_'[u].epoch = records_[u].epoch
               /\ records_'[u].state = "timed_out"
  <2>1. records_[u] \in Records
    BY CountsKnown
  <2>2. QED BY <1>1, <2>1 DEF Expired, InState, Records
<1>3. DOMAIN records_' = DOMAIN records_
  BY <1>1
<1>4. QED BY <1>2, <1>3, ResettledShrinks

\* The three kinds of step there are.
LEMMA StepKinds ==
  ASSUME IInv, [Next]_vars
  PROVE  \/ Shrinks
         \/ reserve_due
         \/ \E s \in DOMAIN records_ : mark_issued(s, now)
<1>1. CASE Tick \/ UNCHANGED vars
  BY <1>1 DEF Tick, vars, Shrinks
<1>2. ASSUME NEW epoch, restart(epoch) \/ stop PROVE Shrinks
  BY <1>2, RetireShrinks DEF restart, stop
<1>3. CASE begin_drain
  BY <1>3, WithoutShrinks DEF begin_drain
<1>4. CASE cancel_pending
  BY <1>4, CancelShrinks
<1>5. ASSUME NEW last, NEW at, set_last_ttl(last, at) PROVE Shrinks
  BY <1>5 DEF set_last_ttl, Shrinks
<1>6. ASSUME NEW s \in DOMAIN records_, mark_issue_failed(s) \/ mark_cached(s)
      PROVE  Shrinks
  BY <1>6, WithoutShrinks DEF mark_issue_failed, mark_cached
<1>7. ASSUME NEW s \in DOMAIN records_, NEW kind, NEW at, complete(s, kind, at)
      PROVE  Shrinks
  BY <1>7, WithoutShrinks DEF complete
<1>8. CASE expire
  BY <1>8, ExpireShrinks
<1>9. QED BY <1>1, <1>2, <1>3, <1>4, <1>5, <1>6, <1>7, <1>8 DEF Next

\* Fewer records: no count of RecordsAccounted grows.
LEMMA CapsByShrinking ==
  ASSUME IInv, IInv', CapsRespected, Shrinks
  PROVE  CapsRespected'
<1> DEFINE r == records_
           q == records_'
<1>1. /\ DOMAIN q \subseteq DOMAIN r
      /\ \A u \in DOMAIN q :
           /\ q[u].ttl = r[u].ttl
           /\ q[u].state = "reserved" <=> r[u].state = "reserved"
           /\ q[u].state = "issued" => r[u].state = "issued"
  BY DEF Shrinks
<1>2. IsFiniteSet(DOMAIN r)
  BY IInvFacts
<1>3. SessionMatches' /\ \A t \in TTL : Matches(t)'
  BY DEF IInv, RecordsAccounted, SessionMatches, Matches, NIn, NAt, NOut, NOutAt,
         InState, InStateAt, Outstanding, OutstandingAt
<1>4. SessionMatches /\ \A t \in TTL : Matches(t)
  BY IInvFacts
<1>5. ASSUME NEW S \in SUBSET DOMAIN r, NEW T \in SUBSET S
      PROVE  Cardinality(T) <= Cardinality(S)
  BY <1>2, <1>5, FS_Subset
<1> HIDE DEF q, r
<1>6. /\ NIn(q, "reserved") <= NIn(r, "reserved")
      /\ NIn(q, "issued") <= NIn(r, "issued")
      /\ NOut(q) <= NOut(r)
  BY <1>1, <1>5 DEF NIn, NOut
<1>7. ASSUME NEW t
      PROVE /\ NAt(q, "reserved", t) <= NAt(r, "reserved", t)
            /\ NAt(q, "issued", t) <= NAt(r, "issued", t)
            /\ NOutAt(q, t) <= NOutAt(r, t)
  BY <1>1, <1>5 DEF NAt, NOutAt
<1>8. /\ reserved_' <= reserved_ /\ logical_inflight_' <= logical_inflight_
      /\ transport_outstanding_' <= transport_outstanding_
  BY <1>3, <1>4, <1>6 DEF SessionMatches, q, r
<1>9. \A t \in TTL :
        /\ reserved'[t] <= reserved[t]
        /\ counters'[t]["in_flight"] <= counters[t]["in_flight"]
        /\ counters'[t]["transport_outstanding"]
             <= counters[t]["transport_outstanding"]
  BY <1>3, <1>4, <1>7 DEF Matches, q, r
<1>10. QED BY <1>8, <1>9, CapsByLowering

LEMMA InitCaps == Init => CapsRespected
<1> SUFFICES ASSUME Init PROVE CapsRespected
  OBVIOUS
<1>1. \A t \in TTL : counters[t]["in_flight"] = 0 /\ reserved[t] = 0
                     /\ counters[t]["transport_outstanding"] = 0
  BY DEF Init, ZeroCounters, CounterNames
<1>2. QED BY <1>1, CapValues DEF Init, CapsRespected

LEMMA StepCaps == IInv /\ CapsRespected /\ [Next]_vars => CapsRespected'
<1> SUFFICES ASSUME IInv, CapsRespected, [Next]_vars PROVE CapsRespected'
  OBVIOUS
<1>1. IInv'
  BY StepIInv
<1>2. CASE Shrinks
  BY <1>1, <1>2, CapsByShrinking
<1>3. CASE reserve_due
  BY <1>3, CapsReserved
<1>4. ASSUME NEW s \in DOMAIN records_, mark_issued(s, now) PROVE CapsRespected'
  BY <1>4, CapsIssued
<1>5. QED BY <1>2, <1>3, <1>4, StepKinds

\* No order of calls ever puts more probes in flight, or more requests in the
\* transport, than the configuration allows, whatever the configuration.
THEOREM CapsHold == Spec => []CapsRespected
  BY InitCaps, StepCaps, Inductive, PTL DEF Spec

-----------------------------------------------------------------------------
\* Draining and epochs.
LEMMA StepDrain ==
  IInv /\ DrainLeavesNoReservation /\ [Next]_vars => DrainLeavesNoReservation'
<1> SUFFICES ASSUME IInv, DrainLeavesNoReservation, [Next]_vars, ~active_'
             PROVE  reserved_' = 0
  BY DEF DrainLeavesNoReservation
<1>1. ASSUME NEW s \in DOMAIN records_, Unreserve(s) PROVE FALSE
  <2>1. ~active_
    BY <1>1 DEF Unreserve
  <2>2. Cardinality(InState("reserved")) = 0
    BY <2>1 DEF IInv, RecordsAccounted, DrainLeavesNoReservation
  <2>3. IsFiniteSet(InState("reserved"))
    <3>1. InState("reserved") \in SUBSET DOMAIN records_
      BY DEF InState
    <3>2. QED BY <3>1, IInvFacts, FS_Subset
  <2>4. s \in InState("reserved")
    BY <1>1 DEF Unreserve
  <2>5. QED BY <2>2, <2>3, <2>4, FS_EmptySet
<1>2. CASE reserve_due
  BY <1>2 DEF reserve_due, CanReserve
<1>3. ASSUME NEW s \in DOMAIN records_,
             mark_issued(s, now) \/ mark_issue_failed(s) \/ mark_cached(s)
      PROVE FALSE
  BY <1>1, <1>3 DEF mark_issued, mark_issue_failed, mark_cached
<1>4. ASSUME NEW epoch, restart(epoch) PROVE reserved_' = 0
  BY <1>4 DEF restart
<1>5. CASE stop
  BY <1>5, Retired DEF stop
<1>6. CASE begin_drain \/ cancel_pending
  BY <1>6, ReservedZero DEF begin_drain, cancel_pending, DropReservations
<1>7. CASE UNCHANGED << active_, reserved_ >>
  BY <1>7 DEF DrainLeavesNoReservation
<1>8. ASSUME NEW s \in DOMAIN records_, NEW kind, NEW at, complete(s, kind, at)
      PROVE UNCHANGED << active_, reserved_ >>
  BY <1>8 DEF complete
<1>9. ASSUME NEW last, NEW at, set_last_ttl(last, at) PROVE UNCHANGED << active_, reserved_ >>
  BY <1>9 DEF set_last_ttl
<1>10. CASE expire \/ Tick \/ UNCHANGED vars
  BY <1>7, <1>10 DEF expire, Tick, vars
<1>11. QED BY <1>2, <1>3, <1>4, <1>5, <1>6, <1>7, <1>8, <1>9, <1>10 DEF Next

\* Once draining has begun, no reservation is left that could still be sent.
THEOREM DrainIsClean == Spec => []DrainLeavesNoReservation
<1>1. Init => DrainLeavesNoReservation
  BY DEF Init, DrainLeavesNoReservation
<1>2. QED BY <1>1, StepDrain, Inductive, PTL DEF Spec

LEMMA StepCurrent ==
  IInv /\ LiveRecordsAreCurrent /\ [Next]_vars => LiveRecordsAreCurrent'
<1> SUFFICES ASSUME IInv, LiveRecordsAreCurrent, [Next]_vars
             PROVE  LiveRecordsAreCurrent'
  OBVIOUS
<1>1. ASSUME NEW epoch, restart(epoch) PROVE LiveRecordsAreCurrent'
  <2>1. \A s \in DOMAIN records_' : records_'[s].state = "ignored_epoch"
    <3>1. records_' = [u \in Outstanding |->
                         [records_[u] EXCEPT !.state = "ignored_epoch"]]
      BY <1>1 DEF restart, retire_logical_state_for_epoch_change
    <3>2. \A u \in Outstanding : records_[u] \in Records
      BY CountsKnown DEF Outstanding
    <3>3. QED BY <3>1, <3>2 DEF Records
  <2>2. QED BY <2>1 DEF LiveRecordsAreCurrent
<1>2. CASE epoch_' = epoch_ /\ Shrinks
  <2>1. ASSUME NEW s \in DOMAIN records_', records_'[s].state # "ignored_epoch"
        PROVE  records_'[s].epoch = epoch_'
    <3>1. /\ s \in DOMAIN records_ /\ records_'[s].epoch = records_[s].epoch
          /\ records_[s].state # "ignored_epoch"
      BY <1>2, <2>1 DEF Shrinks
    <3>2. records_[s].state \in RecordState
      BY <3>1, CountsKnown
    <3>3. QED BY <1>2, <3>1, <3>2 DEF LiveRecordsAreCurrent, RecordState
  <2>2. QED BY <2>1 DEF LiveRecordsAreCurrent
<1>3. CASE reserve_due
  <2>1. epoch_' = epoch_
    BY <1>3 DEF reserve_due
  <2>2. ASSUME NEW s \in DOMAIN records_'
        PROVE  \/ s \in DOMAIN records_ /\ records_'[s] = records_[s]
               \/ records_'[s].epoch = epoch_
    BY <1>3 DEF reserve_due
  <2>3. QED BY <2>1, <2>2 DEF LiveRecordsAreCurrent
<1>4. ASSUME NEW s \in DOMAIN records_, mark_issued(s, now)
      PROVE  LiveRecordsAreCurrent'
  <2>1. epoch_' = epoch_ /\ DOMAIN records_' = DOMAIN records_
    BY <1>4 DEF mark_issued, Unreserve, plan
  <2>2. records_[s] \in Records /\ records_[s].state = "reserved"
    BY <1>4, CountsKnown DEF mark_issued, Unreserve, InState
  <2>3. \A u \in DOMAIN records_ :
          /\ u # s => records_'[u] = records_[u]
          /\ u = s => records_'[u].epoch = records_[u].epoch
    BY <1>4, <2>2 DEF mark_issued, Records
  <2>4. records_[s].epoch = epoch_
    BY <2>2 DEF LiveRecordsAreCurrent
  <2>5. QED BY <2>1, <2>3, <2>4 DEF LiveRecordsAreCurrent
<1>5. (\E epoch : restart(epoch)) \/ epoch_' = epoch_
  <2>1. ASSUME NEW s \in DOMAIN records_,
               mark_issued(s, now) \/ mark_issue_failed(s) \/ mark_cached(s)
        PROVE  epoch_' = epoch_
    BY <2>1 DEF mark_issued, mark_issue_failed, mark_cached, Unreserve, plan
  <2>2. ASSUME NEW s, NEW kind, NEW at, complete(s, kind, at) PROVE epoch_' = epoch_
    BY <2>2 DEF complete, plan
  <2>3. ASSUME NEW last, NEW at, set_last_ttl(last, at) PROVE epoch_' = epoch_
    BY <2>3 DEF set_last_ttl
  <2>4. CASE stop \/ begin_drain \/ cancel_pending \/ expire \/ Tick
    BY <2>4 DEF stop, begin_drain, cancel_pending, expire, Tick, plan
  <2>5. CASE reserve_due \/ UNCHANGED vars
    BY <2>5 DEF reserve_due, vars
  <2>6. QED BY <2>1, <2>2, <2>3, <2>4, <2>5 DEF Next
<1>6. QED BY <1>1, <1>2, <1>3, <1>4, <1>5, StepKinds

\* Only records of the running epoch can still count for it.
THEOREM LiveIsCurrent == Spec => []LiveRecordsAreCurrent
<1>1. Init => LiveRecordsAreCurrent
  BY DEF Init, LiveRecordsAreCurrent
<1>2. QED BY <1>1, StepCurrent, Inductive, PTL DEF Spec

-----------------------------------------------------------------------------
\* reserve_due() changes only the statistics of the scheduler itself.
LEMMA ReserveKeeps ==
  ASSUME IInv, reserve_due, NEW t \in TTL
  PROVE  \A c \in CounterNames \ { "scheduler_late_slots", "scheduler_skipped",
                "scheduler_lateness_total_ms", "scheduler_lateness_max_ms" } :
           counters'[t][c] = counters[t][c]
<1>1. ShapeOK /\ CountersOK
  BY IInvFacts
<1>2. counters'[t] = IF t \in Visited THEN Noted(t) ELSE counters[t]
  BY DEF reserve_due
<1>3. t \in Visited => next_send_at[t] <= now
  BY DEF Visited, Due
<1>4. QED BY <1>1, <1>2, <1>3, NotedValue

\* Every probe is counted once.
Once(t) ==
  /\ counters[t]["completed"] = counters[t]["received"] + counters[t]["timed_out"]
  /\ Settled(t) <= counters[t]["sent"]

\* The one step after which a probe is missing from the counts.
Forgets == stop /\ InState("issued") # {}

\* A step keeps both sides of the account of a TTL.
Balanced(t) == Once(t)' /\ (NoneForgotten(t) => NoneForgotten(t)')

\* The steps that move a whole number n of the probes of a TTL from the ones in
\* flight to one outcome.
LEMMA OnceMoved ==
  ASSUME IInv, NEW t \in TTL, Once(t), NEW n \in Nat,
         n <= counters[t]["in_flight"],
         \/ counters'[t] = [counters[t] EXCEPT !["in_flight"] = @ - n,
                                               !["cancelled"] = @ + n]
         \/ counters'[t] = [counters[t] EXCEPT !["completed"] = @ + n,
                                               !["timed_out"] = @ + n,
                                               !["in_flight"] = @ - n]
  PROVE  Balanced(t)
<1>1. counters[t] \in [CounterNames -> Nat]
  BY DEF IInv, TypeOK
<1>2. QED BY <1>1 DEF Balanced, Once, NoneForgotten, Settled, CounterNames

\* ... or to none.
LEMMA OnceDropped ==
  ASSUME IInv, NEW t \in TTL, Once(t), NEW n \in Nat,
         n <= counters[t]["in_flight"],
         counters'[t] = [counters[t] EXCEPT !["in_flight"] = @ - n]
  PROVE  Once(t)' /\ (n = 0 => Balanced(t))
<1>1. counters[t] \in [CounterNames -> Nat]
  BY DEF IInv, TypeOK
<1>2. QED BY <1>1 DEF Balanced, Once, NoneForgotten, Settled, CounterNames

LEMMA OnceKept ==
  ASSUME IInv, NEW t \in TTL, Once(t),
         \A c \in { "sent", "completed", "received", "timed_out", "in_flight",
                    "cancelled" } : counters'[t][c] = counters[t][c],
         \E n \in Nat : counters'[t]["local_errors"] = counters[t]["local_errors"] + n
  PROVE  Balanced(t)
<1>1. counters[t] \in [CounterNames -> Nat]
  BY DEF IInv, TypeOK
<1>2. QED BY <1>1 DEF Balanced, Once, NoneForgotten, Settled, CounterNames

\* A completed probe leaves the ones in flight only if it was one of them,
\* and then it is a reply, a timeout or a local error.
LEMMA OnceCompleted ==
  ASSUME IInv, NEW s \in DOMAIN records_, NEW kind, NEW at, complete(s, kind, at),
         NEW t \in TTL, Once(t)
  PROVE  Balanced(t)
<1> DEFINE k    == records_[s].ttl
           d    == Disposition(s, kind, at)
           up   == Raised(d)
           down == Lowered(s)
<1>1. k \in TTL /\ records_[s].state \in RecordState /\ records_[s].state # "reserved"
  BY CountsKnown DEF complete, Outstanding
<1>2. counters \in [TTL -> [CounterNames -> Nat]]
  BY DEF IInv, TypeOK
<1>3. counters' = Count(k, up, down)
  BY DEF complete
<1>4. \A c \in CounterNames :
        counters'[t][c] = IF t # k THEN counters[t][c]
                          ELSE IF c \in up THEN counters[t][c] + 1
                          ELSE IF c \in down THEN counters[t][c] - 1
                          ELSE counters[t][c]
  <2>1. counters[k]["transport_outstanding"] # 0 \/ "transport_outstanding" \notin down
    BY DEF Lowered
  <2>2. records_[s].state = "issued" => counters[k]["in_flight"] # 0
    <3>1. counters[k]["in_flight"] = Cardinality(InStateAt("issued", k))
      BY <1>1 DEF IInv, RecordsAccounted
    <3>2. IsFiniteSet(InStateAt("issued", k))
      <4>1. InStateAt("issued", k) \in SUBSET DOMAIN records_
        BY DEF InStateAt
      <4>2. QED BY <4>1, IInvFacts, FS_Subset
    <3>3. records_[s].state = "issued" => s \in InStateAt("issued", k)
      BY DEF InStateAt
    <3>4. QED BY <3>1, <3>2, <3>3, FS_EmptySet
  <2>3. \A c \in down : c \in up \/ counters[k][c] # 0
    BY <2>1, <2>2 DEF Lowered
  <2> HIDE DEF up, down
  <2>4. QED BY <1>1, <1>2, <1>3, <2>3, CountValue DEF IInv
<1>5. "in_flight" \in down <=> records_[s].state = "issued"
  BY DEF Lowered
<1>6. down \subseteq { "in_flight", "transport_outstanding" }
  BY DEF Lowered
<1>7. /\ "in_flight" \notin up /\ "sent" \notin up /\ "cancelled" \notin up
      /\ "completed" \in up <=> ("received" \in up \/ "timed_out" \in up)
      /\ ~("received" \in up /\ "timed_out" \in up)
      /\ "completed" \in up => records_[s].state = "issued"
      /\ records_[s].state = "issued" => "completed" \in up \/ "local_errors" \in up
  <2>1. /\ "completed" \in up => records_[s].state = "issued"
        /\ records_[s].state = "issued" => "completed" \in up \/ "local_errors" \in up
    BY <1>1 DEF Disposition, Raised, RecordState
  <2>2. \A x : /\ "in_flight" \notin Raised(x) /\ "sent" \notin Raised(x)
               /\ "cancelled" \notin Raised(x)
               /\ "completed" \in Raised(x)
                    <=> ("received" \in Raised(x) \/ "timed_out" \in Raised(x))
               /\ ~("received" \in Raised(x) /\ "timed_out" \in Raised(x))
    BY DEF Raised
  <2>3. QED BY <2>1, <2>2
<1> HIDE DEF up, down
<1>8. /\ counters'[t]["sent"] = counters[t]["sent"]
      /\ counters'[t]["cancelled"] = counters[t]["cancelled"]
      /\ counters'[t]["completed"] = counters[t]["completed"]
           + (IF t = k /\ "completed" \in up THEN 1 ELSE 0)
      /\ counters'[t]["received"] = counters[t]["received"]
           + (IF t = k /\ "received" \in up THEN 1 ELSE 0)
      /\ counters'[t]["local_errors"] = counters[t]["local_errors"]
           + (IF t = k /\ "local_errors" \in up THEN 1 ELSE 0)
      /\ counters'[t]["timed_out"] = counters[t]["timed_out"]
           + (IF t = k /\ "timed_out" \in up THEN 1 ELSE 0)
      /\ counters'[t]["in_flight"] = counters[t]["in_flight"]
           - (IF t = k /\ "in_flight" \in down THEN 1 ELSE 0)
  BY <1>2, <1>4, <1>6, <1>7 DEF CounterNames
<1>9. \A c \in CounterNames : counters[t][c] \in Nat
  BY <1>2
<1>10. Once(t)'
  BY <1>5, <1>7, <1>8, <1>9 DEF Once, Settled, CounterNames
<1>11. NoneForgotten(t) => NoneForgotten(t)'
  BY <1>5, <1>7, <1>8, <1>9 DEF NoneForgotten, Settled, CounterNames
<1>12. QED BY <1>10, <1>11 DEF Balanced

LEMMA RestartForgets ==
  ASSUME NEW epoch, restart(epoch), NEW t \in TTL
  PROVE  Once(t)' /\ NoneForgotten(t)'
  BY DEF restart, Once, NoneForgotten, Settled, ZeroCounters, CounterNames

LEMMA StepOnce ==
  ASSUME IInv, [Next]_vars, NEW t \in TTL, Once(t)
  PROVE  Once(t)' /\ (~Forgets => Balanced(t))
<1>1. ASSUME NEW epoch, restart(epoch) PROVE Balanced(t)
  BY <1>1, RestartForgets DEF Balanced
<1>2. CASE stop \/ cancel_pending
  <2> DEFINE n == Cardinality(InStateAt("issued", t))
  <2>1. n \in Nat /\ n <= counters[t]["in_flight"]
    BY PartsAreFinite DEF IInv, RecordsAccounted
  <2>2. InState("issued") = {} => n = 0
    <3>1. InStateAt("issued", t) \subseteq InState("issued")
      BY DEF InState, InStateAt
    <3>2. QED BY <3>1, FS_EmptySet
  <2>3. stop => counters'[t] = [counters[t] EXCEPT !["in_flight"] = @ - n]
    BY DEF stop
  <2>4. cancel_pending => counters'[t] = [counters[t] EXCEPT !["in_flight"] = @ - n,
                                                             !["cancelled"] = @ + n]
    BY DEF cancel_pending
  <2> HIDE DEF n
  <2>5. CASE cancel_pending
    BY <2>1, <2>4, <2>5, OnceMoved DEF Balanced
  <2>6. CASE stop
    BY <2>1, <2>2, <2>3, <2>6, OnceDropped DEF Forgets
  <2>7. QED BY <1>2, <2>5, <2>6
<1>3. CASE expire
  <2> DEFINE past == { s \in Expired : records_[s].ttl = t }
             n    == Cardinality(past)
  <2>1. past \in SUBSET InStateAt("issued", t)
    BY DEF Expired, InState, InStateAt
  <2>2. IsFiniteSet(InStateAt("issued", t))
    <3>1. InStateAt("issued", t) \in SUBSET DOMAIN records_
      BY DEF InStateAt
    <3>2. QED BY <3>1, IInvFacts, FS_Subset
  <2>3. n \in Nat /\ n <= Cardinality(InStateAt("issued", t))
    BY <2>1, <2>2, FS_Subset, FS_CardinalityType
  <2>4. n \in Nat /\ n <= counters[t]["in_flight"]
    BY <2>3 DEF IInv, RecordsAccounted
  <2>5. counters'[t] = [counters[t] EXCEPT !["completed"] = @ + n,
                                           !["timed_out"] = @ + n,
                                           !["in_flight"] = @ - n]
    BY <1>3 DEF expire
  <2> HIDE DEF n
  <2>6. QED BY <2>4, <2>5, OnceMoved DEF Balanced
<1>4. CASE UNCHANGED counters
  BY <1>4 DEF Balanced, Once, NoneForgotten, Settled
<1>5. CASE begin_drain \/ Tick \/ UNCHANGED vars
  BY <1>4, <1>5 DEF begin_drain, Tick, vars
<1>6. ASSUME NEW last, NEW at, set_last_ttl(last, at) PROVE Balanced(t)
  <2>1. UNCHANGED counters
    BY <1>6 DEF set_last_ttl
  <2>2. QED BY <2>1 DEF Balanced, Once, NoneForgotten, Settled
<1>7. CASE reserve_due
  <2>1. \A c \in CounterNames \ { "scheduler_late_slots", "scheduler_skipped",
                "scheduler_lateness_total_ms", "scheduler_lateness_max_ms" } :
          counters'[t][c] = counters[t][c]
    BY <1>7, ReserveKeeps
  <2>2. counters'[t]["local_errors"] = counters[t]["local_errors"] + 0
    BY <2>1 DEF IInv, TypeOK, CounterNames
  <2>3. QED BY <2>1, <2>2, OnceKept DEF CounterNames, Balanced
<1>8. ASSUME NEW s \in DOMAIN records_, mark_issued(s, now) PROVE Balanced(t)
  <2> DEFINE up == { "sent", "in_flight", "transport_outstanding" }
  <2>1. records_[s].ttl \in TTL /\ \A c \in CounterNames : counters[t][c] \in Nat
    BY CountsKnown
  <2>2. \A c \in CounterNames : counters'[t][c] = counters[t][c]
          + (IF t = records_[s].ttl /\ c \in up THEN 1 ELSE 0)
    BY <1>8, <2>1, CountValue DEF mark_issued, IInv
  <2>3. QED BY <2>1, <2>2 DEF Balanced, Once, NoneForgotten, Settled, CounterNames
<1>9. ASSUME NEW s \in DOMAIN records_, mark_issue_failed(s) \/ mark_cached(s)
      PROVE  Balanced(t)
  <2>1. PICK x \in { "local_errors", "cache_skipped" } :
          counters' = Count(records_[s].ttl, {x}, {})
    BY <1>9 DEF mark_issue_failed, mark_cached
  <2>2. records_[s].ttl \in TTL
    BY CountsKnown
  <2>3. \A c \in CounterNames \ {x} : counters'[t][c] = counters[t][c]
    BY <2>1, <2>2, CountValue DEF IInv
  <2>4. \E n \in Nat : counters'[t]["local_errors"] = counters[t]["local_errors"] + n
    <3>1. counters[t]["local_errors"] \in Nat
      BY DEF IInv, TypeOK, CounterNames
    <3>2. counters'[t]["local_errors"] = counters[t]["local_errors"]
            + (IF t = records_[s].ttl /\ x = "local_errors" THEN 1 ELSE 0)
      BY <2>1, <2>2, <3>1, CountValue DEF IInv, CounterNames
    <3>3. QED BY <3>1, <3>2
  <2>5. QED BY <2>1, <2>3, <2>4, OnceKept DEF CounterNames
<1>10. ASSUME NEW s \in DOMAIN records_, NEW kind, NEW at, complete(s, kind, at)
       PROVE  Balanced(t)
  BY <1>10, OnceCompleted
<1>11. QED BY <1>1, <1>2, <1>3, <1>5, <1>6, <1>7, <1>8, <1>9, <1>10 DEF Next, Balanced

\* Slots may be reserved after a step only if they could be before, or in a new
\* epoch.
LEMMA StaysActive ==
  ASSUME [Next]_vars, active_'
  PROVE  (active_ /\ ~Forgets) \/ \E epoch : restart(epoch)
<1>1. ~stop
  BY DEF stop
<1>2. UNCHANGED active_ \/ active_' = FALSE \/ \E epoch : restart(epoch)
  BY DEF Next, vars, Tick, stop, begin_drain, cancel_pending, DropReservations, set_last_ttl,
         reserve_due, mark_issued, mark_issue_failed, mark_cached, Unreserve, complete, expire
<1>3. QED BY <1>1, <1>2 DEF Forgets

\* No probe is counted twice, whatever the order of timeouts, cancellations,
\* epoch changes and completions, and none is forgotten while slots are reserved.
THEOREM CountedOnce == Spec => []ProbesCountedOnce
<1> DEFINE Counted == \A t \in TTL : Once(t) /\ (active_ => NoneForgotten(t))
<1>1. Init => Counted
  BY DEF Init, Once, NoneForgotten, Settled, ZeroCounters, CounterNames
<1>2. IInv /\ Counted /\ [Next]_vars => Counted'
  <2> SUFFICES ASSUME IInv, Counted, [Next]_vars, NEW t \in TTL
               PROVE  Once(t)' /\ (active_' => NoneForgotten(t)')
    OBVIOUS
  <2>1. QED BY StepOnce, StaysActive, RestartForgets DEF Balanced
<1>3. Counted => ProbesCountedOnce
  BY DEF Once, ProbesCountedOnce
<1>4. QED BY <1>1, <1>2, <1>3, Inductive, PTL DEF Spec

\* Draining forgets none either: unless stop() finds probes in flight, every
\* probe that was sent is in flight, completed, cancelled or has failed.
THEOREM EverySentIsAccounted ==
  Spec /\ [][~Forgets]_vars => [](\A t \in TTL : NoneForgotten(t))
<1> DEFINE Counted == \A t \in TTL : Once(t) /\ NoneForgotten(t)
<1>1. Init => Counted
  BY DEF Init, Once, NoneForgotten, Settled, ZeroCounters, CounterNames
<1>2. IInv /\ Counted /\ [Next]_vars /\ [~Forgets]_vars => Counted'
  <2> SUFFICES ASSUME IInv, Counted, [Next]_vars, [~Forgets]_vars, NEW t \in TTL
               PROVE  Once(t)' /\ NoneForgotten(t)'
    OBVIOUS
  <2>1. CASE ~Forgets
    BY <2>1, StepOnce DEF Balanced
  <2>2. CASE UNCHANGED vars
    BY <2>2 DEF vars, Once, NoneForgotten, Settled
  <2>3. QED BY <2>1, <2>2
<1>3. Counted => \A t \in TTL : NoneForgotten(t)
  OBVIOUS
<1>4. QED BY <1>1, <1>2, <1>3, Inductive, PTL DEF Spec

-----------------------------------------------------------------------------
\* The quota of one TTL.
Quota(t) ==
  config_.probes_per_ttl # 0 =>
    counters[t]["sent"] + counters[t]["cache_skipped"] + reserved[t]
      <= config_.probes_per_ttl

\* What a step may do to a TTL without adding a slot to it.
LEMMA QuotaKept ==
  ASSUME IInv, IInv', NEW t \in TTL, Quota(t),
         counters'[t]["sent"] + counters'[t]["cache_skipped"] + reserved'[t]
           <= counters[t]["sent"] + counters[t]["cache_skipped"] + reserved[t]
  PROVE  Quota(t)'
<1>1. /\ counters[t]["sent"] \in Nat /\ counters[t]["cache_skipped"] \in Nat
      /\ reserved[t] \in Nat
  BY DEF IInv, TypeOK, CounterNames
<1>2. /\ counters'[t]["sent"] \in Nat /\ counters'[t]["cache_skipped"] \in Nat
      /\ reserved'[t] \in Nat
  BY DEF IInv, TypeOK, CounterNames
<1>3. QED BY <1>1, <1>2, ConfigFacts DEF Quota

LEMMA StepQuota ==
  ASSUME IInv, [Next]_vars, NEW t \in TTL, Quota(t)
  PROVE  Quota(t)'
<1>0. IInv'
  BY StepIInv
<1>0a. /\ counters[t] \in [CounterNames -> Nat] /\ reserved[t] \in Nat
      /\ reserved \in [TTL -> Nat]
  BY DEF IInv, TypeOK
<1>1. ASSUME NEW epoch, restart(epoch) PROVE Quota(t)'
  BY <1>1, ConfigFacts DEF restart, Quota, ZeroCounters, CounterNames
<1>2. CASE stop \/ begin_drain \/ cancel_pending
  <2>1. reserved'[t] = 0
    BY <1>2, ReservedZero DEF stop, begin_drain, cancel_pending, DropReservations
  <2>2. /\ counters'[t]["sent"] = counters[t]["sent"]
        /\ counters'[t]["cache_skipped"] = counters[t]["cache_skipped"]
    BY <1>2, <1>0a DEF stop, begin_drain, cancel_pending, CounterNames
  <2>3. QED BY <1>0, <1>0a, <2>1, <2>2, QuotaKept DEF CounterNames
<1>3. CASE expire
  <2>1. /\ reserved'[t] = reserved[t]
        /\ counters'[t]["sent"] = counters[t]["sent"]
        /\ counters'[t]["cache_skipped"] = counters[t]["cache_skipped"]
    BY <1>3, <1>0a DEF expire, CounterNames
  <2>2. QED BY <2>1 DEF Quota
<1>4. CASE UNCHANGED << counters, reserved >>
  BY <1>4 DEF Quota
<1>5. CASE Tick \/ UNCHANGED vars
  BY <1>4, <1>5 DEF Tick, vars
<1>6. ASSUME NEW last, NEW at, set_last_ttl(last, at) PROVE Quota(t)'
  BY <1>4, <1>6 DEF set_last_ttl
<1>7. CASE reserve_due
  <2>1. /\ counters'[t]["sent"] = counters[t]["sent"]
        /\ counters'[t]["cache_skipped"] = counters[t]["cache_skipped"]
    BY <1>7, ReserveKeeps DEF CounterNames
  <2>2. CASE reserved'[t] = reserved[t]
    BY <2>1, <2>2 DEF Quota
  <2>3. CASE t \in Chosen /\ reserved'[t] = reserved[t] + 1
    <3>1. ~quota_reached(t)
      BY <2>3 DEF Chosen, Visited, Due
    <3>2. config_.probes_per_ttl # 0 =>
            counters[t]["sent"] + counters[t]["local_errors"]
              + counters[t]["cache_skipped"] + reserved[t] < config_.probes_per_ttl
      BY <1>0a, <3>1, ConfigFacts DEF quota_reached, CounterNames
    <3>3. QED BY <1>0a, <2>1, <2>3, <3>2, ConfigFacts DEF Quota, CounterNames
  <2>4. reserved'[t] = reserved[t] \/ (t \in Chosen /\ reserved'[t] = reserved[t] + 1)
    BY <1>7, <1>0a DEF reserve_due
  <2>5. QED BY <2>2, <2>3, <2>4
<1>8. ASSUME NEW s \in DOMAIN records_, Unreserve(s), NEW up,
             counters' = Count(records_[s].ttl, up, {}),
             ~("sent" \in up /\ "cache_skipped" \in up)
      PROVE  Quota(t)'
  <2>1. records_[s].ttl \in TTL
    BY CountsKnown
  <2>2. reserved'[t] = reserved[t] - Same(t, records_[s].ttl)
    BY <1>8, <1>0a, <2>1 DEF Unreserve, Same
  <2>3. \A c \in CounterNames : counters'[t][c]
          = IF t # records_[s].ttl THEN counters[t][c]
            ELSE IF c \in up THEN counters[t][c] + 1 ELSE counters[t][c]
    BY <1>8, <2>1, CountValue DEF IInv
  <2>4. /\ counters'[t]["sent"] = counters[t]["sent"]
             + (IF t = records_[s].ttl /\ "sent" \in up THEN 1 ELSE 0)
        /\ counters'[t]["cache_skipped"] = counters[t]["cache_skipped"]
             + (IF t = records_[s].ttl /\ "cache_skipped" \in up THEN 1 ELSE 0)
    BY <1>0a, <2>3 DEF CounterNames
  <2>5. counters[t]["sent"] \in Nat /\ counters[t]["cache_skipped"] \in Nat
    BY <1>0a DEF CounterNames
  <2>6. counters'[t]["sent"] + counters'[t]["cache_skipped"] + reserved'[t]
          <= counters[t]["sent"] + counters[t]["cache_skipped"] + reserved[t]
    BY <1>8, <1>0a, <2>2, <2>4, <2>5 DEF Same
  <2>7. QED BY <1>0, <2>6, QuotaKept
<1>9. ASSUME NEW s \in DOMAIN records_,
             mark_issued(s, now) \/ mark_issue_failed(s) \/ mark_cached(s)
      PROVE  Quota(t)'
  BY <1>8, <1>9 DEF mark_issued, mark_issue_failed, mark_cached
<1>10. ASSUME NEW s \in DOMAIN records_, NEW kind, NEW at, complete(s, kind, at)
       PROVE  Quota(t)'
  <2> DEFINE up == Raised(Disposition(s, kind, at))
  <2>1. counters'[t] = IF t = records_[s].ttl
          THEN [c \in CounterNames |->
                  IF c \in up THEN counters[t][c] + 1
                  ELSE IF c \in Lowered(s) THEN counters[t][c] - 1
                  ELSE counters[t][c]]
          ELSE counters[t]
    BY <1>10, <1>0a DEF complete, Count, IInv, TypeOK
  <2>2. "sent" \notin up /\ "cache_skipped" \notin up
    <3>1. \A x : "sent" \notin Raised(x) /\ "cache_skipped" \notin Raised(x)
      BY DEF Raised
    <3>2. QED BY <3>1
  <2>3. "sent" \notin Lowered(s) /\ "cache_skipped" \notin Lowered(s)
    BY DEF Lowered
  <2> HIDE DEF up
  <2>4. /\ counters'[t]["sent"] = counters[t]["sent"]
        /\ counters'[t]["cache_skipped"] = counters[t]["cache_skipped"]
    BY <2>1, <2>2, <2>3 DEF CounterNames
  <2>5. reserved' = reserved
    BY <1>10 DEF complete
  <2>6. QED BY <2>4, <2>5 DEF Quota
<1>11. QED BY <1>1, <1>2, <1>3, <1>5, <1>6, <1>7, <1>9, <1>10 DEF Next

\* With a finite number of cycles no TTL is ever probed more often than that.
THEOREM QuotaHolds == Spec => []QuotaRespected
<1> DEFINE AllQuota == \A t \in TTL : Quota(t)
<1>1. Init => AllQuota
  BY ConfigFacts DEF Init, Quota, ZeroCounters, CounterNames
<1>2. IInv /\ AllQuota /\ [Next]_vars => AllQuota'
  BY StepQuota
<1>3. AllQuota => QuotaRespected
  BY DEF Quota, QuotaRespected
<1>4. QED BY <1>1, <1>2, <1>3, Inductive, PTL DEF Spec

-----------------------------------------------------------------------------
\* Sets of natural numbers have a least element.
LEMMA LeastNatural ==
  ASSUME NEW S \in SUBSET Nat, S # {}
  PROVE  \E n \in S : \A m \in S : n <= m
<1>1. IsWellFoundedOn(OpToRel(<, Nat), Nat)
  BY NatLessThanWellFounded
<1>2. PICK n \in S : \A m \in S : ~(<< m, n >> \in OpToRel(<, Nat))
  BY <1>1, WFMin
<1>3. \A m \in S : ~(m < n)
  BY <1>2 DEF OpToRel
<1>. QED
  BY <1>3

\* next_wake_at() is right in every state of the right types.
LEMMA WakeExact == TypeOK => WakeIsExact
<1>. SUFFICES ASSUME TypeOK PROVE WakeIsExact
  OBVIOUS
<1>1. \A t \in TTL : AtLeast(next_global_send_at_, next_send_at[t]) <= now
                       <=> next_global_send_at_ <= now /\ next_send_at[t] <= now
  BY DEF TypeOK, AtLeast
<1>2. config_.first_ttl .. active_last_ttl_ \subseteq TTL
  BY ConfigFacts DEF TypeOK, TTL
<1>3. (\E w \in WakeTimes : w <= now)
        <=> \/ \E t \in config_.first_ttl .. active_last_ttl_ :
                 /\ active_ /\ ~quota_reached(t)
                 /\ AtLeast(next_global_send_at_, next_send_at[t]) <= now
            \/ \E s \in InState("issued") : records_[s].deadline <= now
  BY DEF WakeTimes
<1>4. CanReserve <=> /\ active_ /\ next_global_send_at_ <= now
                     /\ \E t \in config_.first_ttl .. active_last_ttl_ :
                          ~quota_reached(t) /\ next_send_at[t] <= now
  BY DEF CanReserve, Due, TypeOK
<1>. QED
  BY <1>1, <1>2, <1>3, <1>4 DEF WakeIsExact, Expired

-----------------------------------------------------------------------------
\* Only reserve_due() hands out a number, and only it passes over a full TTL.
LEMMA OnlyReserves ==
  ASSUME IInv, [Next]_vars,
         \/ sequence_' > sequence_
         \/ \E t \in TTL : counters'[t]["scheduler_skipped"] > counters[t]["scheduler_skipped"]
  PROVE  reserve_due
<1>. SUFFICES ASSUME ~reserve_due
              PROVE  /\ sequence_' = sequence_
                     /\ \A t \in TTL : ~(counters'[t]["scheduler_skipped"]
                                            > counters[t]["scheduler_skipped"])
  BY DEF IInv, TypeOK
<1>0. /\ counters \in [TTL -> [CounterNames -> Nat]] /\ "scheduler_skipped" \in CounterNames
      /\ \A t \in TTL : counters[t] \in [CounterNames -> Nat]
                         /\ counters[t]["scheduler_skipped"] \in Nat
  BY DEF IInv, TypeOK, CounterNames
<1>1. ASSUME NEW epoch, restart(epoch)
      PROVE  /\ sequence_' = sequence_
             /\ \A t \in TTL : counters'[t]["scheduler_skipped"] = 0
  BY <1>1, <1>0 DEF restart, ZeroCounters
<1>2. CASE stop \/ begin_drain \/ cancel_pending \/ expire
  <2>1. sequence_' = sequence_
    BY <1>2 DEF stop, begin_drain, cancel_pending, expire, plan
  <2>2. \A t \in TTL : counters'[t]["scheduler_skipped"] = counters[t]["scheduler_skipped"]
    BY <1>2, <1>0 DEF stop, begin_drain, cancel_pending, expire
  <2>. QED
    BY <1>0, <2>1, <2>2
<1>3. ASSUME NEW s \in DOMAIN records_, NEW kind, NEW at,
             mark_issued(s, now) \/ mark_issue_failed(s) \/ mark_cached(s)
               \/ complete(s, kind, at)
      PROVE  /\ sequence_' = sequence_
             /\ \A t \in TTL : counters'[t]["scheduler_skipped"]
                                  = counters[t]["scheduler_skipped"]
  <2>1. \A x : "scheduler_skipped" \notin Raised(x)
    BY DEF Raised
  <2>2. "scheduler_skipped" \notin Lowered(s)
    BY DEF Lowered
  <2>3. PICK up, down : /\ counters' = Count(records_[s].ttl, up, down)
                        /\ "scheduler_skipped" \notin up /\ "scheduler_skipped" \notin down
    <3>1. CASE complete(s, kind, at)
      BY <3>1, <2>1, <2>2 DEF complete
    <3>2. CASE mark_issued(s, now) \/ mark_issue_failed(s) \/ mark_cached(s)
      BY <3>2 DEF mark_issued, mark_issue_failed, mark_cached
    <3>. QED
      BY <1>3, <3>1, <3>2
  <2>4. \A t \in TTL : counters'[t]["scheduler_skipped"] = counters[t]["scheduler_skipped"]
    BY <2>3, <1>0 DEF Count
  <2>5. sequence_' = sequence_
    BY <1>3 DEF mark_issued, mark_issue_failed, mark_cached, complete, Unreserve, plan
  <2>. QED
    BY <2>4, <2>5
<1>4. ASSUME UNCHANGED << sequence_, counters >>
      PROVE  /\ sequence_' = sequence_
             /\ \A t \in TTL : counters'[t]["scheduler_skipped"]
                                  = counters[t]["scheduler_skipped"]
  BY <1>4
<1>5. CASE Tick \/ UNCHANGED vars
  BY <1>0, <1>4, <1>5 DEF Tick, plan, vars
<1>6. ASSUME NEW last, NEW at, set_last_ttl(last, at) PROVE UNCHANGED << sequence_, counters >>
  BY <1>6 DEF set_last_ttl
<1>7. \A n \in Nat : ~(0 > n) /\ ~(n > n)
  OBVIOUS
<1>. QED
  BY <1>0, <1>1, <1>2, <1>3, <1>4, <1>5, <1>6, <1>7 DEF Next

\* A deadline moves by whole intervals.
LEMMA NextSlotOnCadence ==
  ASSUME ShapeOK, NEW t \in TTL, next_send_at[t] <= now
  PROVE  (NextSlotAfterNow(t) - next_send_at[t]) % config_.interval_ms = 0
<1>. DEFINE d == config_.interval_ms
            k == (now - next_send_at[t]) \div d + 1
<1>1. d \in Nat \ {0} /\ next_send_at[t] \in Nat /\ now - next_send_at[t] \in Nat
  BY ConfigFacts, SchedulerAssumption DEF ShapeOK
<1>2. k \in Nat
  <2>1. (now - next_send_at[t]) \div d \in Nat
    BY <1>1
  <2>. QED
    BY <2>1
<1>3. NextSlotAfterNow(t) - next_send_at[t] = k * d
  <2>1. k * d \in Int
    BY <1>1, <1>2
  <2>. QED
    BY <1>1, <2>1 DEF NextSlotAfterNow
<1>. HIDE DEF d, k
<1>4. (k * d) % d = 0
  BY <1>1, <1>2
<1>. QED
  BY <1>3, <1>4 DEF d

LEMMA PaceStep ==
  ASSUME IInv, reserve_due, NEW t \in TTL, next_send_at'[t] # next_send_at[t]
  PROVE  /\ next_send_at'[t] > now
         /\ (next_send_at'[t] - next_send_at[t]) % config_.interval_ms = 0
<1>1. ShapeOK
  BY IInvFacts
<1>2. t \in Visited /\ next_send_at'[t] = NextSlotAfterNow(t)
  BY DEF reserve_due
<1>3. next_send_at[t] <= now
  BY <1>2 DEF Visited, Due
<1>. QED
  BY <1>1, <1>2, <1>3, NextSlotType, NextSlotOnCadence

\* A late scheduler never sends a burst, for any interval and however late.
THEOREM NeverABurst == Spec => NoCatchUpBurst
<1>1. IInv /\ [Next]_vars =>
        [(sequence_' > sequence_ \/ \E t \in TTL :
            counters'[t]["scheduler_skipped"] > counters[t]["scheduler_skipped"]) =>
           \A t \in TTL : next_send_at'[t] # next_send_at[t] =>
             /\ next_send_at'[t] > now
             /\ (next_send_at'[t] - next_send_at[t]) % config_.interval_ms = 0]_vars
  BY OnlyReserves, PaceStep
<1>. QED
  BY <1>1, Inductive, PTL DEF Spec, NoCatchUpBurst

-----------------------------------------------------------------------------
\* Among the due TTLs with room, one comes before all others.
LEMMA FirstWithRoom ==
  ASSUME ShapeOK, NEW B \in SUBSET Due, B # {}
  PROVE  \E t \in B : \A u \in B : ~Before(u, t)
<1>1. Due \subseteq TTL
  BY ConfigFacts DEF Due, ShapeOK, TTL
<1>2. \A t \in B : t \in Nat /\ next_send_at[t] \in Nat
  BY <1>1, TTLFacts DEF ShapeOK
<1>. DEFINE times == { next_send_at[t] : t \in B }
<1>3. PICK n \in times : \A m \in times : n <= m
  <2>1. times \in SUBSET Nat /\ times # {}
    BY <1>2
  <2>. HIDE DEF times
  <2>. QED
    BY <2>1, LeastNatural
<1>. DEFINE first == { t \in B : next_send_at[t] = n }
<1>4. PICK t \in first : \A u \in first : t <= u
  <2>1. first \in SUBSET Nat /\ first # {}
    BY <1>2
  <2>. HIDE DEF first
  <2>. QED
    BY <2>1, LeastNatural
<1>5. ASSUME NEW u \in B PROVE ~Before(u, t)
  <2>1. next_send_at[t] <= next_send_at[u] /\ t \in B
    BY <1>3, <1>4
  <2>2. next_send_at[u] = next_send_at[t] => t <= u
    BY <1>4
  <2>. QED
    BY <1>2, <2>1, <2>2 DEF Before
<1>. QED
  BY <1>4, <1>5

\* If the loop finds no slot, there was none to find.
LEMMA NothingChosen ==
  ASSUME IInv, Chosen = {}, NEW t \in Due
  PROVE  Full(t)
<1>. SUFFICES ASSUME ~Full(t) PROVE FALSE
  OBVIOUS
<1>. DEFINE B == { u \in Due : ~Full(u) }
<1>1. PICK u \in B : \A v \in B : ~Before(v, u)
  <2>1. B \in SUBSET Due /\ B # {}
    OBVIOUS
  <2>. HIDE DEF B
  <2>. QED
    BY <2>1, IInvFacts, FirstWithRoom
<1>2. u \in Visited /\ u \notin Skipped
  BY <1>1 DEF Visited, Skipped
<1>. QED
  BY <1>2 DEF Chosen

\* Backpressure on one TTL never starves another, for any limits.
THEOREM FullOnesArePassed == Spec => FullTtlDoesNotBlockOthers
<1>1. ASSUME IInv, reserve_due
      PROVE  sequence_' > sequence_ \/ \A t \in Due : Full(t)
  <2>1. Chosen = {} \/ sequence_' = sequence_ + 1
    BY <1>1 DEF reserve_due
  <2>2. sequence_ \in Int
    BY <1>1 DEF IInv, TypeOK
  <2>. QED
    BY <1>1, <2>1, <2>2, NothingChosen
<1>2. IInv /\ [Next]_vars =>
        [(\E t \in TTL : counters'[t]["scheduler_skipped"]
                            > counters[t]["scheduler_skipped"])
           => (sequence_' > sequence_ \/ \A t \in Due : Full(t))]_vars
  BY <1>1, OnlyReserves
<1>. QED
  BY <1>2, Inductive, PTL DEF Spec, FullTtlDoesNotBlockOthers

\* The loop sleeps exactly as long as it may.
THEOREM WakesInTime == Spec => []WakeIsExact
  BY WakeExact, TypeCorrect, PTL

-----------------------------------------------------------------------------
\* The refinement: what the abstract life of a probe sees of the scheduler.
\* The records of the new state, number by number.
LEMMA SeenValue ==
  ASSUME NEW s \in 1..MaxSequence
  PROVE  ProbeSeen[s] = IF s \in DOMAIN records_
                        THEN [ ttl |-> records_[s].ttl, stage |-> StageOf(records_[s].state) ]
                        ELSE [ ttl |-> 0, stage |-> IF s > sequence_ THEN "unused" ELSE "closed" ]
  BY DEF ProbeSeen

LEMMA SeenStages ==
  ASSUME IInv, NEW s \in 1..MaxSequence
  PROVE  /\ ProbeSeen[s].stage = "reserved" <=> s \in InState("reserved")
         /\ ProbeSeen[s].stage = "waiting" <=> s \in InState("issued")
         /\ ProbeSeen[s].stage \in { "waiting", "settled", "abandoned" } <=> s \in Outstanding
         /\ ProbeSeen[s].stage = "unused" <=> s > sequence_
<1>1. \A u \in DOMAIN records_ : records_[u].state \in RecordState
  BY CountsKnown
<1>2. sequence_ \in Int /\ DOMAIN records_ \subseteq 1..sequence_
  BY DEF IInv, TypeOK
<1>3. \A st \in RecordState :
        /\ StageOf(st) = "reserved" <=> st = "reserved"
        /\ StageOf(st) = "waiting" <=> st = "issued"
        /\ StageOf(st) \in { "waiting", "settled", "abandoned" } <=> st # "reserved"
        /\ StageOf(st) # "unused" /\ StageOf(st) # "closed"
  BY DEF StageOf, RecordState
<1>4. CASE s \in DOMAIN records_
  <2>1. ProbeSeen[s].stage = StageOf(records_[s].state) /\ ~(s > sequence_)
    <3>1. ProbeSeen[s] = [ ttl |-> records_[s].ttl, stage |-> StageOf(records_[s].state) ]
      BY <1>4, SeenValue
    <3>. QED
      BY <1>2, <1>4, <3>1
  <2>. QED
    BY <1>1, <1>3, <1>4, <2>1 DEF InState, Outstanding
<1>5. CASE s \notin DOMAIN records_
  <2>1. ProbeSeen[s].stage = IF s > sequence_ THEN "unused" ELSE "closed"
    <3>1. ProbeSeen[s] = [ ttl |-> 0, stage |-> IF s > sequence_ THEN "unused" ELSE "closed" ]
      BY <1>5, SeenValue
    <3>. QED
      BY <3>1
  <2>. QED
    BY <1>5, <2>1 DEF InState, Outstanding
<1>. QED
  BY <1>4, <1>5

\* Every record has its number among the sequence numbers.
LEMMA NumbersInRange ==
  ASSUME IInv
  PROVE  /\ sequence_ \in 0..MaxSequence /\ DOMAIN records_ \subseteq 1..MaxSequence
         /\ \A s \in DOMAIN records_ : s <= sequence_
  BY SchedulerAssumption DEF IInv, TypeOK

LEMMA SeenTtl ==
  ASSUME IInv, NEW s \in DOMAIN records_
  PROVE  s \in 1..MaxSequence /\ ProbeSeen[s].ttl = records_[s].ttl
<1>1. s \in 1..MaxSequence
  BY NumbersInRange
<1>2. ProbeSeen[s] = [ ttl |-> records_[s].ttl, stage |-> StageOf(records_[s].state) ]
  BY <1>1, SeenValue
<1>. QED
  BY <1>1, <1>2

LEMMA SeenTypes ==
  /\ ProbeSeen = [s \in 1..MaxSequence |-> ProbeSeen[s]]
  /\ TallySeen = [t \in TTL |-> TallySeen[t]]
  /\ DOMAIN ProbeSeen = 1..MaxSequence /\ DOMAIN TallySeen = TTL
  BY DEF ProbeSeen, TallySeen

LEMMA SeenReserve ==
  ASSUME IInv, IInv', reserve_due
  PROVE  Lifecycle!Next \/ UNCHANGED << ProbeSeen, TallySeen >>
<1>1. UNCHANGED TallySeen
  BY ReserveKeeps DEF TallySeen, CounterNames
<1>2. CASE UNCHANGED << sequence_, records_ >>
  BY <1>1, <1>2 DEF ProbeSeen
<1>3. ASSUME NEW t \in Chosen, sequence_' = sequence_ + 1,
             records_' = [s \in DOMAIN records_ \cup {sequence_'} |->
               IF s = sequence_'
               THEN [ttl |-> t, epoch |-> epoch_, state |-> "reserved", deadline |-> 0]
               ELSE records_[s]]
      PROVE  Lifecycle!Next
  <2>. DEFINE s == sequence_'
  <2>1. sequence_ \in Nat /\ s = sequence_ + 1 /\ s \in 1..MaxSequence
    BY <1>3, NumbersInRange DEF IInv, TypeOK
  <2>2. t \in TTL
    BY IInvFacts, ConfigFacts, TTLFacts DEF Chosen, Visited, Due, ShapeOK, TTL
  <2>3. ProbeSeen[s].stage = "unused"
        /\ \A u \in 1..MaxSequence : u < s => ProbeSeen[u].stage # "unused"
    BY <2>1, SeenStages
  <2>4. ProbeSeen' = [ProbeSeen EXCEPT ![s] = [ ttl |-> t, stage |-> "reserved" ]]
    <3>1. s \notin DOMAIN records_
      BY <2>1, NumbersInRange
    <3>2. ASSUME NEW u \in 1..MaxSequence
          PROVE  ProbeSeen'[u] = IF u = s THEN [ ttl |-> t, stage |-> "reserved" ]
                                 ELSE ProbeSeen[u]
      BY <1>3, <2>1, <3>1, SeenValue DEF ProbeSeen, StageOf
    <3>. QED
      BY <2>1, <3>2 DEF ProbeSeen
  <2>5. Lifecycle!Reserve(s, t)
    BY <1>1, <2>3, <2>4 DEF Lifecycle!Reserve
  <2>. QED
    BY <2>1, <2>2, <2>5 DEF Lifecycle!Next
<1>. QED
  BY <1>2, <1>3 DEF reserve_due

\* A number whose record is gone is closed.
LEMMA GoneIsClosed ==
  ASSUME IInv, NEW s \in DOMAIN records_, s \notin DOMAIN records_', UNCHANGED sequence_
  PROVE  ProbeSeen'[s] = Lifecycle!Closed
<1>1. s \in 1..MaxSequence /\ ~(s > sequence_)
  BY NumbersInRange
<1>2. ProbeSeen'[s] = [ ttl |-> 0, stage |-> IF s > sequence_' THEN "unused" ELSE "closed" ]
  BY <1>1 DEF ProbeSeen
<1>. QED
  BY <1>1, <1>2 DEF Lifecycle!Closed

\* A number whose record stays as it is.
LEMMA SameIsSame ==
  ASSUME NEW s \in 1..MaxSequence, UNCHANGED sequence_,
         s \in DOMAIN records_ <=> s \in DOMAIN records_',
         s \in DOMAIN records_ => /\ records_'[s].ttl = records_[s].ttl
                                  /\ records_'[s].state = records_[s].state
  PROVE  ProbeSeen'[s] = ProbeSeen[s]
  BY DEF ProbeSeen

\* A number whose record changes its state.
LEMMA MovedStage ==
  ASSUME IInv, NEW s \in DOMAIN records_, s \in DOMAIN records_',
         records_'[s].ttl = records_[s].ttl
  PROVE  /\ ProbeSeen'[s] = [ProbeSeen[s] EXCEPT !.stage = StageOf(records_'[s].state)]
         /\ ProbeSeen[s].ttl = records_[s].ttl /\ records_[s].ttl \in TTL
<1>1. s \in 1..MaxSequence
  BY NumbersInRange
<1>2. ProbeSeen[s] = [ ttl |-> records_[s].ttl, stage |-> StageOf(records_[s].state) ]
  BY <1>1, SeenValue
<1>3. ProbeSeen'[s] = [ ttl |-> records_'[s].ttl, stage |-> StageOf(records_'[s].state) ]
  BY <1>1 DEF ProbeSeen
<1>. QED
  BY <1>2, <1>3, CountsKnown

\* The tally after a step that raises some counters of one TTL.
LEMMA TallyCounted ==
  ASSUME IInv, NEW k \in TTL, NEW up, NEW down, counters' = Count(k, up, down),
         "sent" \notin down, "completed" \notin down, "cancelled" \notin down,
         "local_errors" \notin down, "cancelled" \notin up
  PROVE  LET counted == up \cap { "sent", "completed", "local_errors" }
         IN  /\ counted = {} => UNCHANGED TallySeen
             /\ counted = { "sent" } => TallySeen' = [TallySeen EXCEPT ![k].sent = @ + 1]
             /\ counted = { "completed" } =>
                  TallySeen' = [TallySeen EXCEPT ![k].completed = @ + 1]
             /\ counted = { "local_errors" } =>
                  TallySeen' = [TallySeen EXCEPT ![k].errors = @ + 1]
<1>1. /\ counters \in [TTL -> [CounterNames -> Nat]]
      /\ { "sent", "completed", "cancelled", "local_errors" } \subseteq CounterNames
  BY DEF IInv, TypeOK, CounterNames
<1>2. ASSUME NEW t \in TTL, t # k PROVE TallySeen'[t] = TallySeen[t]
  BY <1>1, <1>2 DEF TallySeen, Count
<1>3. \A c \in CounterNames : counters'[k][c] = IF c \in up THEN counters[k][c] + 1
                                ELSE IF c \in down THEN counters[k][c] - 1
                                ELSE counters[k][c]
  BY <1>1 DEF Count
<1>4. TallySeen[k] = [ sent      |-> counters[k]["sent"],
                       completed |-> counters[k]["completed"],
                       cancelled |-> counters[k]["cancelled"],
                       errors    |-> counters[k]["local_errors"] ]
  BY DEF TallySeen
<1>5. TallySeen'[k] = [ sent      |-> counters'[k]["sent"],
                        completed |-> counters'[k]["completed"],
                        cancelled |-> counters'[k]["cancelled"],
                        errors    |-> counters'[k]["local_errors"] ]
  BY DEF TallySeen
<1>6. \A c \in { "sent", "completed", "cancelled", "local_errors" } :
        counters'[k][c] = IF c \in up THEN counters[k][c] + 1 ELSE counters[k][c]
  BY <1>1, <1>3
<1>. DEFINE counted == up \cap { "sent", "completed", "local_errors" }
<1>7. /\ counted = {} => TallySeen'[k] = TallySeen[k]
      /\ counted = { "sent" } =>
           TallySeen'[k] = [TallySeen[k] EXCEPT !.sent = TallySeen[k].sent + 1]
      /\ counted = { "completed" } =>
           TallySeen'[k] = [TallySeen[k] EXCEPT !.completed = TallySeen[k].completed + 1]
      /\ counted = { "local_errors" } =>
           TallySeen'[k] = [TallySeen[k] EXCEPT !.errors = TallySeen[k].errors + 1]
  <2>1. ASSUME counted = {}
        PROVE  TallySeen'[k] = TallySeen[k]
    <3>1. "sent" \notin up /\ "completed" \notin up /\ "local_errors" \notin up
      BY <2>1
    <3>2. /\ counters'[k]["sent"] = counters[k]["sent"]
          /\ counters'[k]["completed"] = counters[k]["completed"]
          /\ counters'[k]["cancelled"] = counters[k]["cancelled"]
          /\ counters'[k]["local_errors"] = counters[k]["local_errors"]
      BY <1>6, <3>1
    <3>. QED
      BY <1>4, <1>5, <3>2
  <2>2. ASSUME counted = { "sent" }
        PROVE  TallySeen'[k] = [TallySeen[k] EXCEPT !.sent = TallySeen[k].sent + 1]
    <3>1. "sent" \in up /\ "completed" \notin up /\ "local_errors" \notin up
      BY <2>2
    <3>2. /\ counters'[k]["sent"] = counters[k]["sent"] + 1
          /\ counters'[k]["completed"] = counters[k]["completed"]
          /\ counters'[k]["cancelled"] = counters[k]["cancelled"]
          /\ counters'[k]["local_errors"] = counters[k]["local_errors"]
      BY <1>6, <3>1
    <3>. QED
      BY <1>4, <1>5, <3>2
  <2>3. ASSUME counted = { "completed" }
        PROVE  TallySeen'[k] = [TallySeen[k] EXCEPT !.completed = TallySeen[k].completed + 1]
    <3>1. "sent" \notin up /\ "completed" \in up /\ "local_errors" \notin up
      BY <2>3
    <3>2. /\ counters'[k]["sent"] = counters[k]["sent"]
          /\ counters'[k]["completed"] = counters[k]["completed"] + 1
          /\ counters'[k]["cancelled"] = counters[k]["cancelled"]
          /\ counters'[k]["local_errors"] = counters[k]["local_errors"]
      BY <1>6, <3>1
    <3>. QED
      BY <1>4, <1>5, <3>2
  <2>4. ASSUME counted = { "local_errors" }
        PROVE  TallySeen'[k] = [TallySeen[k] EXCEPT !.errors = TallySeen[k].errors + 1]
    <3>1. "sent" \notin up /\ "completed" \notin up /\ "local_errors" \in up
      BY <2>4
    <3>2. /\ counters'[k]["sent"] = counters[k]["sent"]
          /\ counters'[k]["completed"] = counters[k]["completed"]
          /\ counters'[k]["cancelled"] = counters[k]["cancelled"]
          /\ counters'[k]["local_errors"] = counters[k]["local_errors"] + 1
      BY <1>6, <3>1
    <3>. QED
      BY <1>4, <1>5, <3>2
  <2>. QED
    BY <2>1, <2>2, <2>3, <2>4
<1>8. TallySeen' = [t \in TTL |-> IF t = k THEN TallySeen'[k] ELSE TallySeen[t]]
  BY <1>2 DEF TallySeen
<1>9. TallySeen = [t \in TTL |-> TallySeen[t]]
  BY DEF TallySeen
<1>. QED
  BY <1>7, <1>8, <1>9

LEMMA SeenIssue ==
  ASSUME IInv, IInv', NEW s \in DOMAIN records_, mark_issued(s, now)
  PROVE  Lifecycle!Next
<1>1. /\ s \in 1..MaxSequence /\ ProbeSeen[s].stage = "reserved"
      /\ UNCHANGED sequence_ /\ DOMAIN records_' = DOMAIN records_
      /\ records_'[s].ttl = records_[s].ttl /\ records_'[s].state = "issued"
      /\ \A u \in DOMAIN records_ \ {s} : records_'[u] = records_[u]
  <2>1. s \in 1..MaxSequence /\ s \in InState("reserved") /\ UNCHANGED sequence_
    BY NumbersInRange DEF mark_issued, Unreserve, plan
  <2>2. records_[s] \in Records
    BY CountsKnown
  <2>3. records_' = [records_ EXCEPT ![s] = [records_[s] EXCEPT !.state = "issued",
                                     !.deadline = now + config_.timeout_ms]]
    BY DEF mark_issued
  <2>. QED
    BY <2>1, <2>2, <2>3, SeenStages DEF Records
<1>2. /\ ProbeSeen'[s] = [ProbeSeen[s] EXCEPT !.stage = "waiting"]
      /\ ProbeSeen[s].ttl = records_[s].ttl /\ records_[s].ttl \in TTL
  BY <1>1, MovedStage DEF StageOf
<1>3. \A u \in 1..MaxSequence \ {s} : ProbeSeen'[u] = ProbeSeen[u]
  BY <1>1, SameIsSame
<1>4. ProbeSeen' = [ProbeSeen EXCEPT ![s].stage = "waiting"]
  BY <1>1, <1>2, <1>3 DEF ProbeSeen
<1>5. TallySeen' = [TallySeen EXCEPT ![ProbeSeen[s].ttl].sent = @ + 1]
  <2>1. counters' = Count(records_[s].ttl, { "sent", "in_flight", "transport_outstanding" }, {})
    BY DEF mark_issued
  <2>. QED
    BY <1>2, <2>1, TallyCounted
<1>6. Lifecycle!Issue(s)
  BY <1>1, <1>4, <1>5 DEF Lifecycle!Issue
<1>. QED
  BY <1>1, <1>6 DEF Lifecycle!Next

\* A record is taken away: its number is closed, the others are as before.
LEMMA TakenIsClosed ==
  ASSUME IInv, NEW s \in DOMAIN records_, records_' = Without({s}), UNCHANGED sequence_
  PROVE  s \in 1..MaxSequence /\ ProbeSeen' = [ProbeSeen EXCEPT ![s] = Lifecycle!Closed]
<1>1. /\ s \in 1..MaxSequence /\ DOMAIN records_' = DOMAIN records_ \ {s}
      /\ \A u \in DOMAIN records_' : records_'[u] = records_[u]
  BY NumbersInRange DEF Without
<1>2. ProbeSeen'[s] = Lifecycle!Closed
  BY <1>1, GoneIsClosed
<1>3. \A u \in 1..MaxSequence \ {s} : ProbeSeen'[u] = ProbeSeen[u]
  BY <1>1, SameIsSame
<1>. QED
  BY <1>1, <1>2, <1>3 DEF ProbeSeen

LEMMA SeenRefuse ==
  ASSUME IInv, NEW s \in DOMAIN records_, mark_issue_failed(s) \/ mark_cached(s)
  PROVE  Lifecycle!Next
<1>1. /\ s \in 1..MaxSequence /\ ProbeSeen[s].stage = "reserved"
      /\ records_[s].ttl \in TTL /\ ProbeSeen[s].ttl = records_[s].ttl
  <2>1. s \in 1..MaxSequence /\ s \in InState("reserved")
    BY NumbersInRange DEF mark_issue_failed, mark_cached, Unreserve
  <2>. QED
    BY <2>1, SeenStages, SeenTtl, CountsKnown
<1>2. ProbeSeen' = [ProbeSeen EXCEPT ![s] = Lifecycle!Closed]
  BY TakenIsClosed DEF mark_issue_failed, mark_cached, Unreserve, plan
<1>3. \/ UNCHANGED TallySeen
      \/ TallySeen' = [TallySeen EXCEPT ![ProbeSeen[s].ttl].errors = @ + 1]
  <2>1. CASE mark_issue_failed(s)
    BY <1>1, <2>1, TallyCounted DEF mark_issue_failed
  <2>2. CASE mark_cached(s)
    BY <1>1, <2>2, TallyCounted DEF mark_cached
  <2>. QED
    BY <2>1, <2>2
<1>4. Lifecycle!Refuse(s)
  BY <1>1, <1>2, <1>3 DEF Lifecycle!Refuse
<1>. QED
  BY <1>1, <1>4 DEF Lifecycle!Next

LEMMA SeenComplete ==
  ASSUME IInv, NEW s \in DOMAIN records_, NEW kind \in CompletionKind, NEW at,
         complete(s, kind, at)
  PROVE  Lifecycle!Next
<1>. DEFINE k  == records_[s].ttl
            up == Raised(Disposition(s, kind, at))
            counted == up \cap { "sent", "completed", "local_errors" }
<1>1. /\ s \in 1..MaxSequence /\ k \in TTL /\ records_[s].state \in RecordState
      /\ s \in Outstanding /\ records_[s].state # "reserved"
  BY NumbersInRange, CountsKnown DEF complete, Outstanding
<1>2. /\ ProbeSeen[s].stage \in { "waiting", "settled", "abandoned" }
      /\ ProbeSeen[s].stage = "waiting" <=> records_[s].state = "issued"
      /\ ProbeSeen[s].ttl = k
  BY <1>1, SeenStages, SeenTtl DEF InState
<1>3. ProbeSeen' = [ProbeSeen EXCEPT ![s] = Lifecycle!Closed]
  BY TakenIsClosed DEF complete, plan
<1>4. /\ records_[s].state = "issued" => counted \in { { "completed" }, { "local_errors" } }
      /\ records_[s].state # "issued" => counted = {}
      /\ "cancelled" \notin up
  BY <1>1 DEF Disposition, Raised, RecordState
<1>5. /\ counted = {} => UNCHANGED TallySeen
      /\ counted = { "completed" } => TallySeen' = [TallySeen EXCEPT ![k].completed = @ + 1]
      /\ counted = { "local_errors" } => TallySeen' = [TallySeen EXCEPT ![k].errors = @ + 1]
  <2>1. counters' = Count(k, up, Lowered(s)) /\ "cancelled" \notin up
    BY <1>4 DEF complete
  <2>2. Lowered(s) \subseteq { "in_flight", "transport_outstanding" }
    BY DEF Lowered
  <2>. HIDE DEF up, k
  <2>. QED
    BY <1>1, <2>1, <2>2, TallyCounted
<1>. HIDE DEF counted
<1>6. Lifecycle!HandBack(s)
  BY <1>2, <1>3, <1>4, <1>5 DEF Lifecycle!HandBack
<1>. QED
  BY <1>1, <1>6 DEF Lifecycle!Next

LEMMA SameCardinality == \A S : Lifecycle!Cardinality(S) = Cardinality(S)
  BY Zenon DEF Lifecycle!Cardinality, Cardinality

\* The sets of numbers the abstract steps speak of.
LEMMA SeenSets ==
  ASSUME IInv
  PROVE  /\ Lifecycle!At("waiting") = InState("issued")
         /\ Lifecycle!At("reserved") = InState("reserved")
         /\ \A S \in SUBSET DOMAIN records_ : \A t :
              Lifecycle!On(S, t) = Cardinality({ s \in S : records_[s].ttl = t })
<1>1. DOMAIN records_ \subseteq 1..MaxSequence
  BY NumbersInRange
<1>2. \A s \in DOMAIN records_ : ProbeSeen[s].ttl = records_[s].ttl
  BY SeenTtl
<1>3. ASSUME NEW S \in SUBSET DOMAIN records_, NEW t
      PROVE  Lifecycle!On(S, t) = Cardinality({ s \in S : records_[s].ttl = t })
  <2>1. { s \in S : ProbeSeen[s].ttl = t } = { s \in S : records_[s].ttl = t }
    BY <1>2
  <2>. QED
    <3>1. Lifecycle!On(S, t) = Cardinality({ s \in S : ProbeSeen[s].ttl = t })
      BY SameCardinality, Zenon DEF Lifecycle!On
    <3>. QED
      BY <2>1, <3>1, Zenon
<1>4. InState("issued") \subseteq 1..MaxSequence /\ InState("reserved") \subseteq 1..MaxSequence
  BY <1>1 DEF InState
<1>. QED
  BY <1>3, <1>4, SeenStages DEF Lifecycle!At

LEMMA SeenExpire ==
  ASSUME IInv, IInv', expire
  PROVE  Lifecycle!Next
<1>1. /\ Expired # {} /\ Expired \subseteq InState("issued")
      /\ Expired \in SUBSET DOMAIN records_
      /\ DOMAIN records_' = DOMAIN records_ /\ UNCHANGED sequence_
  BY DEF expire, Expired, InState, plan
<1>2. ASSUME NEW s \in 1..MaxSequence
      PROVE  ProbeSeen'[s] = IF s \in Expired THEN [ProbeSeen[s] EXCEPT !.stage = "settled"]
                             ELSE ProbeSeen[s]
  <2>1. CASE s \in Expired
    <3>1. records_[s] \in Records /\ s \in DOMAIN records_
      BY <1>1, <2>1, CountsKnown
    <3>2. records_'[s].ttl = records_[s].ttl /\ records_'[s].state = "timed_out"
      BY <2>1, <3>1 DEF expire, Records
    <3>3. ProbeSeen'[s] = [ProbeSeen[s] EXCEPT !.stage = StageOf(records_'[s].state)]
      BY <1>1, <3>1, <3>2, MovedStage
    <3>4. StageOf("timed_out") = "settled"
      BY DEF StageOf
    <3>. QED
      BY <2>1, <3>2, <3>3, <3>4
  <2>2. CASE s \notin Expired
    BY <1>1, <2>2, SameIsSame DEF expire
  <2>. QED
    BY <2>1, <2>2
<1>3. ASSUME NEW t \in TTL
      PROVE  TallySeen'[t] = [TallySeen[t] EXCEPT !.completed = @ + Lifecycle!On(Expired, t)]
  <2>. DEFINE n == Cardinality({ s \in Expired : records_[s].ttl = t })
  <2>1. counters'[t] = [counters[t] EXCEPT !["completed"] = @ + n, !["timed_out"] = @ + n,
                                           !["in_flight"] = @ - n]
    BY DEF expire
  <2>2. counters[t] \in [CounterNames -> Nat]
    BY DEF IInv, TypeOK
  <2>3. Lifecycle!On(Expired, t) = n
    BY <1>1, SeenSets
  <2>. HIDE DEF n
  <2>4. /\ counters'[t]["completed"] = counters[t]["completed"] + n
        /\ \A c \in { "sent", "cancelled", "local_errors" } : counters'[t][c] = counters[t][c]
    BY <2>1, <2>2 DEF CounterNames
  <2>. QED
    BY <2>3, <2>4 DEF TallySeen
<1>4. Lifecycle!TimeOut(Expired)
  BY <1>1, <1>2, <1>3, SeenSets DEF ProbeSeen, TallySeen, Lifecycle!TimeOut
<1>. QED
  BY <1>1, <1>4, SeenSets DEF Lifecycle!Next

\* What a step that drops every reservation does to the numbers.
LEMMA SeenDropped ==
  ASSUME IInv, DOMAIN records_' = Outstanding, UNCHANGED sequence_, NEW s \in 1..MaxSequence
  PROVE  /\ s \in InState("reserved") => ProbeSeen'[s] = Lifecycle!Closed
         /\ s \notin DOMAIN records_ => ProbeSeen'[s] = ProbeSeen[s]
         /\ s \in Outstanding /\ records_'[s] = records_[s] => ProbeSeen'[s] = ProbeSeen[s]
<1>1. /\ Outstanding \subseteq DOMAIN records_
      /\ s \in InState("reserved") => s \in DOMAIN records_ /\ s \notin Outstanding
  BY DEF Outstanding, InState
<1>2. s \in InState("reserved") => ProbeSeen'[s] = Lifecycle!Closed
  BY <1>1, GoneIsClosed
<1>3. s \notin DOMAIN records_ => ProbeSeen'[s] = ProbeSeen[s]
  BY <1>1, SameIsSame
<1>4. s \in Outstanding /\ records_'[s] = records_[s] => ProbeSeen'[s] = ProbeSeen[s]
  BY <1>1, SameIsSame
<1>. QED
  BY <1>2, <1>3, <1>4

LEMMA SeenDrain ==
  ASSUME IInv, begin_drain
  PROVE  Lifecycle!Next
<1>1. DOMAIN records_' = Outstanding /\ \A s \in Outstanding : records_'[s] = records_[s]
  BY DEF begin_drain, Without, Outstanding, InState
<1>2. UNCHANGED << sequence_, counters >>
  BY DEF begin_drain, plan
<1>3. ASSUME NEW s \in 1..MaxSequence
      PROVE  ProbeSeen'[s] = IF s \in {} THEN [ProbeSeen[s] EXCEPT !.stage = "settled"]
                             ELSE IF s \in InState("reserved") THEN Lifecycle!Closed
                             ELSE ProbeSeen[s]
  <2>1. s \notin DOMAIN records_ \/ s \in Outstanding \/ s \in InState("reserved")
    BY DEF Outstanding, InState
  <2>2. s \in Outstanding => s \notin InState("reserved")
    BY DEF Outstanding, InState
  <2>3. s \notin DOMAIN records_ => s \notin InState("reserved")
    BY DEF InState
  <2>. QED
    BY <1>1, <1>2, <2>1, <2>2, <2>3, SeenDropped
<1>4. ASSUME NEW t \in TTL
      PROVE  TallySeen'[t] = [TallySeen[t] EXCEPT !.cancelled = @ + Lifecycle!On({}, t)]
  <2>1. Lifecycle!On({}, t) = 0
    <3>1. { s \in {} : records_[s].ttl = t } = {}
      OBVIOUS
    <3>. QED
      BY <3>1, SeenSets, FS_EmptySet
  <2>2. counters[t]["cancelled"] \in Nat
    BY CountsKnown DEF CounterNames
  <2>. QED
    BY <1>2, <2>1, <2>2 DEF TallySeen
<1>5. Lifecycle!Drain
  <2>. SUFFICES /\ ProbeSeen' = [s \in 1..MaxSequence |->
                     IF s \in {} THEN [ProbeSeen[s] EXCEPT !.stage = "settled"]
                     ELSE IF s \in Lifecycle!At("reserved") THEN Lifecycle!Closed
                     ELSE ProbeSeen[s]]
                /\ TallySeen' = [t \in TTL |->
                     [TallySeen[t] EXCEPT !.cancelled = @ + Lifecycle!On({}, t)]]
    BY DEF Lifecycle!Drain
  <2>1. Lifecycle!At("reserved") = InState("reserved")
    BY SeenSets
  <2>. QED
    BY <1>3, <1>4, <2>1 DEF ProbeSeen, TallySeen
<1>. QED
  BY <1>5 DEF Lifecycle!Next

LEMMA SeenCancel ==
  ASSUME IInv, cancel_pending
  PROVE  Lifecycle!Next
<1>. DEFINE S == InState("issued")
<1>1. /\ DOMAIN records_' = Outstanding
      /\ \A s \in Outstanding : records_'[s] = IF records_[s].state = "issued"
            THEN [records_[s] EXCEPT !.state = "cancelled"] ELSE records_[s]
  BY DEF cancel_pending
<1>2. UNCHANGED sequence_
  BY DEF cancel_pending, plan
<1>3. ASSUME NEW s \in 1..MaxSequence
      PROVE  ProbeSeen'[s] = IF s \in S THEN [ProbeSeen[s] EXCEPT !.stage = "settled"]
                             ELSE IF s \in InState("reserved") THEN Lifecycle!Closed
                             ELSE ProbeSeen[s]
  <2>1. CASE s \in S
    <3>1. s \in DOMAIN records_ /\ s \in Outstanding /\ records_[s].state = "issued"
      BY <2>1 DEF Outstanding, InState
    <3>2. records_'[s].ttl = records_[s].ttl /\ records_'[s].state = "cancelled"
      BY <1>1, <3>1, CountsKnown DEF Records
    <3>3. ProbeSeen'[s] = [ProbeSeen[s] EXCEPT !.stage = StageOf(records_'[s].state)]
      BY <1>1, <3>1, <3>2, MovedStage
    <3>4. StageOf("cancelled") = "settled"
      BY DEF StageOf
    <3>. QED
      BY <2>1, <3>2, <3>3, <3>4
  <2>2. CASE s \notin S
    <3>1. s \notin DOMAIN records_ \/ s \in Outstanding \/ s \in InState("reserved")
      BY DEF Outstanding, InState
    <3>2. s \in Outstanding => s \notin InState("reserved") /\ records_'[s] = records_[s]
      BY <1>1, <2>2 DEF Outstanding, InState
    <3>3. s \notin DOMAIN records_ => s \notin InState("reserved")
      BY DEF InState
    <3>. QED
      BY <1>1, <1>2, <2>2, <3>1, <3>2, <3>3, SeenDropped
  <2>. QED
    BY <2>1, <2>2
<1>4. ASSUME NEW t \in TTL
      PROVE  TallySeen'[t] = [TallySeen[t] EXCEPT !.cancelled = @ + Lifecycle!On(S, t)]
  <2>. DEFINE n == Cardinality(InStateAt("issued", t))
  <2>1. counters'[t] = [counters[t] EXCEPT !["in_flight"] = @ - n, !["cancelled"] = @ + n]
    BY DEF cancel_pending
  <2>2. counters[t] \in [CounterNames -> Nat]
    BY DEF IInv, TypeOK
  <2>3. Lifecycle!On(S, t) = n
    <3>1. S \in SUBSET DOMAIN records_
      BY DEF InState
    <3>2. { s \in S : records_[s].ttl = t } = InStateAt("issued", t)
      BY DEF InState, InStateAt
    <3>. QED
      BY <3>1, <3>2, SeenSets
  <2>. HIDE DEF n
  <2>4. /\ counters'[t]["cancelled"] = counters[t]["cancelled"] + n
        /\ \A c \in { "sent", "completed", "local_errors" } : counters'[t][c] = counters[t][c]
    BY <2>1, <2>2 DEF CounterNames
  <2>. QED
    BY <2>3, <2>4 DEF TallySeen
<1>5. Lifecycle!Drain
  <2>1. Lifecycle!At("reserved") = InState("reserved") /\ Lifecycle!At("waiting") = S
    BY SeenSets
  <2>. SUFFICES /\ ProbeSeen' = [s \in 1..MaxSequence |->
                     IF s \in S THEN [ProbeSeen[s] EXCEPT !.stage = "settled"]
                     ELSE IF s \in Lifecycle!At("reserved") THEN Lifecycle!Closed
                     ELSE ProbeSeen[s]]
                /\ TallySeen' = [t \in TTL |->
                     [TallySeen[t] EXCEPT !.cancelled = @ + Lifecycle!On(S, t)]]
    BY <2>1 DEF Lifecycle!Drain
  <2>. QED
    BY <1>3, <1>4, <2>1 DEF ProbeSeen, TallySeen
<1>. QED
  BY <1>5 DEF Lifecycle!Next

\* restart() and stop() leave every number closed or abandoned.
LEMMA SeenRetire ==
  ASSUME IInv, retire_logical_state_for_epoch_change, UNCHANGED sequence_,
         UNCHANGED TallySeen \/ TallySeen' = [t \in TTL |-> Lifecycle!NoOutcomes]
  PROVE  Lifecycle!Next
<1>1. /\ DOMAIN records_' = Outstanding
      /\ \A s \in Outstanding : records_'[s] = [records_[s] EXCEPT !.state = "ignored_epoch"]
  BY DEF retire_logical_state_for_epoch_change
<1>2. ASSUME NEW s \in 1..MaxSequence
      PROVE  ProbeSeen'[s] =
               IF ProbeSeen[s].stage = "reserved" THEN Lifecycle!Closed
               ELSE IF ProbeSeen[s].stage \in { "waiting", "settled" }
               THEN [ProbeSeen[s] EXCEPT !.stage = "abandoned"] ELSE ProbeSeen[s]
  <2>1. CASE s \in Outstanding
    <3>1. s \in DOMAIN records_ /\ records_[s].state # "reserved"
      BY <2>1 DEF Outstanding
    <3>2. records_'[s].ttl = records_[s].ttl /\ records_'[s].state = "ignored_epoch"
      BY <1>1, <2>1, <3>1, CountsKnown DEF Records
    <3>3. StageOf("ignored_epoch") = "abandoned"
      BY DEF StageOf
    <3>4. ProbeSeen'[s] = [ProbeSeen[s] EXCEPT !.stage = "abandoned"]
      BY <1>1, <2>1, <3>1, <3>2, <3>3, MovedStage
    <3>5. ProbeSeen[s].stage \in { "waiting", "settled", "abandoned" }
      BY <2>1, SeenStages
    <3>6. ProbeSeen[s].stage = "abandoned"
            => [ProbeSeen[s] EXCEPT !.stage = "abandoned"] = ProbeSeen[s]
      <4>1. ProbeSeen[s] = [ ttl |-> records_[s].ttl, stage |-> StageOf(records_[s].state) ]
        BY <3>1, SeenValue
      <4>. QED
        BY <4>1
    <3>. QED
      BY <3>4, <3>5, <3>6
  <2>2. CASE s \in InState("reserved")
    BY <1>1, <2>2, SeenDropped, SeenStages
  <2>3. CASE s \notin DOMAIN records_
    <3>1. s \notin Outstanding /\ s \notin InState("reserved")
      BY <2>3 DEF Outstanding, InState
    <3>2. ProbeSeen[s].stage \notin { "reserved", "waiting", "settled" }
      BY <3>1, SeenStages
    <3>. QED
      BY <1>1, <2>3, <3>2, SeenDropped
  <2>4. s \notin DOMAIN records_ \/ s \in Outstanding \/ s \in InState("reserved")
    BY DEF Outstanding, InState
  <2>. QED
    BY <2>1, <2>2, <2>3, <2>4
<1>3. Lifecycle!Abandon
  BY <1>2 DEF ProbeSeen, Lifecycle!Abandon
<1>. QED
  BY <1>3 DEF Lifecycle!Next

LEMMA SeenRestart ==
  ASSUME IInv, NEW epoch, restart(epoch)
  PROVE  Lifecycle!Next
<1>1. TallySeen' = [t \in TTL |-> Lifecycle!NoOutcomes]
  BY DEF restart, TallySeen, ZeroCounters, CounterNames, Lifecycle!NoOutcomes
<1>. QED
  BY <1>1, SeenRetire DEF restart

LEMMA SeenStop ==
  ASSUME IInv, stop
  PROVE  Lifecycle!Next
<1>1. \A t \in TTL : counters[t] \in [CounterNames -> Nat]
  BY DEF IInv, TypeOK
<1>2. UNCHANGED TallySeen
  BY <1>1 DEF stop, TallySeen, CounterNames
<1>. QED
  BY <1>2, SeenRetire DEF stop, plan

LEMMA SeenInit == Init => Lifecycle!Init
<1>. SUFFICES ASSUME Init PROVE Lifecycle!Init
  OBVIOUS
<1>1. DOMAIN records_ = {} /\ sequence_ = 0
  BY DEF Init
<1>2. ProbeSeen = [s \in 1..MaxSequence |-> [ ttl |-> 0, stage |-> "unused" ]]
  BY <1>1 DEF ProbeSeen
<1>3. TallySeen = [t \in TTL |-> Lifecycle!NoOutcomes]
  BY DEF Init, TallySeen, ZeroCounters, CounterNames, Lifecycle!NoOutcomes
<1>. QED
  BY <1>2, <1>3 DEF Lifecycle!Init

LEMMA SeenStep ==
  ASSUME IInv, IInv', [Next]_vars
  PROVE  [Lifecycle!Next]_<< ProbeSeen, TallySeen >>
<1>1. ASSUME UNCHANGED << sequence_, records_, counters >>
      PROVE  UNCHANGED << ProbeSeen, TallySeen >>
  BY <1>1 DEF ProbeSeen, TallySeen
<1>2. CASE Tick \/ UNCHANGED vars
  BY <1>1, <1>2 DEF Tick, plan, vars
<1>3. ASSUME NEW last, NEW at, set_last_ttl(last, at) PROVE UNCHANGED << ProbeSeen, TallySeen >>
  BY <1>1, <1>3 DEF set_last_ttl
<1>4. ASSUME NEW epoch, restart(epoch) PROVE Lifecycle!Next
  BY <1>4, SeenRestart
<1>5. CASE stop \/ begin_drain \/ cancel_pending \/ expire
  BY <1>5, SeenStop, SeenDrain, SeenCancel, SeenExpire
<1>6. CASE reserve_due
  BY <1>6, SeenReserve
<1>7. ASSUME NEW s \in DOMAIN records_,
             mark_issued(s, now) \/ mark_issue_failed(s) \/ mark_cached(s)
      PROVE  Lifecycle!Next
  BY <1>7, SeenIssue, SeenRefuse
<1>8. ASSUME NEW s \in DOMAIN records_, NEW kind \in CompletionKind, NEW at,
             complete(s, kind, at)
      PROVE  Lifecycle!Next
  BY <1>8, SeenComplete
<1>. QED
  BY <1>2, <1>3, <1>4, <1>5, <1>6, <1>7, <1>8 DEF Next

\* For every configuration, whatever the order of the calls, a probe lives as
\* ProbeLifecycle says and is counted at most once.
THEOREM LifecycleIsImplemented == Spec => ImplementsLifecycle
<1>1. IInv /\ IInv' /\ [Next]_vars => [Lifecycle!Next]_<< ProbeSeen, TallySeen >>
  BY SeenStep
<1>. QED
  BY <1>1, SeenInit, Inductive, PTL DEF Spec, ImplementsLifecycle, Lifecycle!Spec
=============================================================================
