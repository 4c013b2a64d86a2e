--------------------------- MODULE ProbeScheduler ---------------------------
(***************************************************************************)
(* The probe scheduler of WinMTRProbeScheduler.h: which TTL is probed      *)
(* when, how many probes may be outstanding, and what became of each one.  *)
(*                                                                         *)
(* One action per public method.  The class is single threaded; its only   *)
(* client is the trace loop, so the methods may be called in any order,    *)
(* with now the clock as the client last read it.  set_last_ttl() may be   *)
(* given a later reading, and a completion is stamped by the worker that   *)
(* saw it, at most MaxLag later.  A rejected call (unknown token, wrong    *)
(* record state, nothing due) changes nothing and is a stuttering step.    *)
(*                                                                         *)
(* records_ is a function from the sequence numbers that still have a      *)
(* record.  A counter that the code decrements below zero would wrap to    *)
(* 2^64-1; here it would leave Nat and break TypeOK.                       *)
(***************************************************************************)
EXTENDS Integers, FiniteSets

CONSTANTS
  Config,       \* the SchedulerConfig given to the constructor
  FirstEpoch,   \* the data epoch at start()
  MaxNow,       \* bound: the clock stops here
  MaxLag,       \* bound: how far the clock gets ahead of now within one pass
  MaxSequence,  \* bound: slots reserved in one session
  MaxSkipped,   \* bound: slots skipped per TTL and epoch
  MaxEpoch      \* bound: the last data epoch

ConfigFields ==
  { "interval_ms", "timeout_ms", "first_ttl", "last_ttl", "max_inflight",
    "max_inflight_per_ttl", "max_transport_outstanding",
    "max_transport_outstanding_per_ttl", "max_global_pps", "probes_per_ttl" }

ASSUME SchedulerAssumption ==
  /\ Config \in [ConfigFields -> Nat]
  /\ FirstEpoch \in Nat /\ MaxEpoch \in Nat
  /\ MaxNow \in Nat /\ MaxLag \in Nat /\ MaxSequence \in Nat /\ MaxSkipped \in Nat

AtLeast(low, value) == IF value < low THEN low ELSE value

\* The limits the constructor enforces: every one positive, and the session
\* limits never below the per-TTL ones.
normalize(c) ==
  LET first   == AtLeast(1, c.first_ttl)
      per     == AtLeast(1, c.max_inflight_per_ttl)
      session == AtLeast(per, c.max_inflight)
  IN  [ interval_ms                       |-> AtLeast(1, c.interval_ms),
        timeout_ms                        |-> AtLeast(1, c.timeout_ms),
        first_ttl                         |-> first,
        last_ttl                          |-> AtLeast(first, c.last_ttl),
        max_inflight                      |-> session,
        max_inflight_per_ttl              |-> per,
        max_transport_outstanding         |->
          AtLeast(session, c.max_transport_outstanding),
        max_transport_outstanding_per_ttl |->
          AtLeast(per, c.max_transport_outstanding_per_ttl),
        max_global_pps                    |-> AtLeast(1, c.max_global_pps),
        probes_per_ttl                    |-> c.probes_per_ttl ]

config_ == normalize(Config)
TTL     == config_.first_ttl .. config_.last_ttl

global_spacing_ms ==
  AtLeast(1, (1000 + config_.max_global_pps - 1) \div config_.max_global_pps)

RecordState == { "reserved", "issued", "timed_out", "cancelled", "ignored_epoch" }

CounterNames ==
  { "sent", "completed", "received", "timed_out", "in_flight", "local_errors",
    "cancelled", "scheduler_skipped", "cache_skipped", "late_completions",
    "transport_outstanding", "scheduler_late_slots",
    "scheduler_lateness_total_ms", "scheduler_lateness_max_ms" }

ZeroCounters == [c \in CounterNames |-> 0]

CompletionKind == { "reply", "timeout", "local_error" }

VARIABLES
  now,                    \* steady_clock as the trace loop last read it
  active_,                \* may slots be reserved?
  epoch_,                 \* the data epoch tokens are stamped with
  sequence_,              \* the last sequence number handed out
  active_last_ttl_,       \* the highest TTL being probed
  next_global_send_at_,   \* session-wide pacing
  next_send_at,           \* ttl_[t].next_send_at
  reserved,               \* ttl_[t].reserved
  counters,               \* ttl_[t].counters
  records_,               \* sequence -> [ttl, epoch, state, deadline]
  logical_inflight_, transport_outstanding_, reserved_   \* session totals

vars == << now, active_, epoch_, sequence_, active_last_ttl_,
           next_global_send_at_, next_send_at, reserved, counters, records_,
           logical_inflight_, transport_outstanding_, reserved_ >>

\* What only start(), restart(), set_last_ttl() and reserve_due() change.
plan == << epoch_, sequence_, active_last_ttl_, next_global_send_at_,
           next_send_at >>

-----------------------------------------------------------------------------
\* Records and counters

Records == [ ttl : TTL, epoch : Nat, state : RecordState, deadline : Nat ]

InState(st)      == { s \in DOMAIN records_ : records_[s].state = st }
InStateAt(st, t) == { s \in DOMAIN records_ : records_[s].state = st
                                             /\ records_[s].ttl = t }

\* The records whose ICMP request the transport has not handed back.
Outstanding      == { s \in DOMAIN records_ : records_[s].state # "reserved" }
OutstandingAt(t) == { s \in DOMAIN records_ : records_[s].state # "reserved"
                                             /\ records_[s].ttl = t }

Without(S) == [s \in DOMAIN records_ \ S |-> records_[s]]

\* counters with every field named in up raised by one at TTL t, and every
\* field named in down lowered by one.
Count(t, up, down) ==
  [counters EXCEPT ![t] =
     [c \in CounterNames |-> IF c \in up THEN @[c] + 1
                             ELSE IF c \in down THEN @[c] - 1 ELSE @[c]]]

\* Mutant: one slot more than the quota.
quota_reached_off_by_one(t) ==
  /\ config_.probes_per_ttl # 0
  /\ counters[t]["sent"] + counters[t]["local_errors"]
       + counters[t]["cache_skipped"] + reserved[t] > config_.probes_per_ttl

quota_reached(t) ==
  /\ config_.probes_per_ttl # 0
  /\ counters[t]["sent"] + counters[t]["local_errors"]
       + counters[t]["cache_skipped"] + reserved[t] >= config_.probes_per_ttl

quotas_reached ==
  /\ config_.probes_per_ttl # 0
  /\ \A t \in config_.first_ttl .. active_last_ttl_ : quota_reached(t)

\* Mutant: the session-wide pacing is left out of the wake-up time.
WakeTimes_without_pacing ==
  { next_send_at[t] : t \in { u \in config_.first_ttl .. active_last_ttl_ :
                                active_ /\ ~quota_reached(u) } }
  \cup { records_[s].deadline : s \in InState("issued") }

\* The instants the trace loop must not sleep past; next_wake_at() returns
\* the least of them, or nothing when there is none.
WakeTimes ==
  { AtLeast(next_global_send_at_, next_send_at[t]) :
      t \in { u \in config_.first_ttl .. active_last_ttl_ :
                active_ /\ ~quota_reached(u) } }
  \cup { records_[s].deadline : s \in InState("issued") }

-----------------------------------------------------------------------------
\* start(), restart() and stop()

\* The deadlines of one sweep, spread evenly over one interval.
Staggered(at) ==
  [t \in TTL |-> at + ((t - config_.first_ttl) * config_.interval_ms)
                        \div (config_.last_ttl - config_.first_ttl + 1)]

\* The records and the session totals once the epoch they belong to is over:
\* reservations vanish, everything the transport still holds is ignored.
retire_logical_state_for_epoch_change ==
  /\ records_' = [s \in Outstanding |->
                    [records_[s] EXCEPT !.state = "ignored_epoch"]]
  /\ logical_inflight_' = logical_inflight_ - Cardinality(InState("issued"))
  /\ reserved_' = reserved_ - Cardinality(InState("reserved"))
  /\ UNCHANGED transport_outstanding_

Init ==
  /\ now = 0
  /\ active_ = TRUE
  /\ epoch_ = FirstEpoch
  /\ sequence_ = 0
  /\ active_last_ttl_ = config_.last_ttl
  /\ next_global_send_at_ = now
  /\ next_send_at = Staggered(now)
  /\ reserved = [t \in TTL |-> 0]
  /\ counters = [t \in TTL |-> ZeroCounters]
  /\ records_ = << >>
  /\ logical_inflight_ = 0
  /\ transport_outstanding_ = 0
  /\ reserved_ = 0

\* Mutant: the requests the transport still holds are forgotten.
restart_forgets_transport(epoch) ==
  /\ retire_logical_state_for_epoch_change
  /\ epoch_' = epoch
  /\ active_' = TRUE
  /\ active_last_ttl_' = config_.last_ttl
  /\ counters' = [t \in TTL |-> ZeroCounters]
  /\ reserved' = [t \in TTL |-> 0]
  /\ next_global_send_at_' = now
  /\ next_send_at' = Staggered(now)
  /\ UNCHANGED << now, sequence_ >>

restart(epoch) ==
  /\ retire_logical_state_for_epoch_change
  /\ epoch_' = epoch
  /\ active_' = TRUE
  /\ active_last_ttl_' = config_.last_ttl
  /\ counters' = [t \in TTL |->
       [ZeroCounters EXCEPT !["transport_outstanding"]
          = counters[t]["transport_outstanding"]]]
  /\ reserved' = [t \in TTL |-> 0]
  /\ next_global_send_at_' = now
  /\ next_send_at' = Staggered(now)
  /\ UNCHANGED << now, sequence_ >>

stop ==
  /\ retire_logical_state_for_epoch_change
  /\ active_' = FALSE
  /\ counters' = [t \in TTL |->
       [counters[t] EXCEPT !["in_flight"]
          = @ - Cardinality(InStateAt("issued", t))]]
  /\ reserved' = [t \in TTL |-> reserved[t] - Cardinality(InStateAt("reserved", t))]
  /\ UNCHANGED << now, plan >>

-----------------------------------------------------------------------------
\* Draining

DropReservations ==
  /\ active_' = FALSE
  /\ reserved' = [t \in TTL |-> reserved[t] - Cardinality(InStateAt("reserved", t))]
  /\ reserved_' = reserved_ - Cardinality(InState("reserved"))

begin_drain ==
  /\ DropReservations
  /\ records_' = Without(InState("reserved"))
  /\ UNCHANGED << now, plan, counters, logical_inflight_, transport_outstanding_ >>

\* The probes still awaiting their deadline are given up, not counted as lost.
cancel_pending ==
  /\ DropReservations
  /\ records_' = [s \in Outstanding |->
       IF records_[s].state = "issued"
       THEN [records_[s] EXCEPT !.state = "cancelled"] ELSE records_[s]]
  /\ counters' = [t \in TTL |->
       LET n == Cardinality(InStateAt("issued", t))
       IN  [counters[t] EXCEPT !["in_flight"] = @ - n, !["cancelled"] = @ + n]]
  /\ logical_inflight_' = logical_inflight_ - Cardinality(InState("issued"))
  /\ UNCHANGED << now, plan, transport_outstanding_ >>

-----------------------------------------------------------------------------
\* Choosing what to send

set_last_ttl(last, at) ==
  LET next_last == IF last < config_.first_ttl THEN config_.first_ttl
                   ELSE IF last > config_.last_ttl THEN config_.last_ttl
                   ELSE last
      added == next_last - active_last_ttl_
  IN  /\ next_last # active_last_ttl_
      /\ active_last_ttl_' = next_last
      /\ next_send_at' = [t \in TTL |->
           IF t \in active_last_ttl_ + 1 .. next_last
           THEN at + ((t - active_last_ttl_ - 1) * config_.interval_ms) \div added
           ELSE next_send_at[t]]
      /\ UNCHANGED << now, active_, epoch_, sequence_, next_global_send_at_, reserved,
                      counters, records_, logical_inflight_,
                      transport_outstanding_, reserved_ >>

\* Mutant: one probe more than the limits.
logical_full_off_by_one(t) ==
  \/ counters[t]["in_flight"] + reserved[t] > config_.max_inflight_per_ttl
  \/ logical_inflight_ + reserved_ > config_.max_inflight

logical_full(t) ==
  \/ counters[t]["in_flight"] + reserved[t] >= config_.max_inflight_per_ttl
  \/ logical_inflight_ + reserved_ >= config_.max_inflight

transport_full(t) ==
  \/ counters[t]["transport_outstanding"] + reserved[t]
       >= config_.max_transport_outstanding_per_ttl
  \/ transport_outstanding_ + reserved_ >= config_.max_transport_outstanding

Full(t) == logical_full(t) \/ transport_full(t)

Due == { t \in config_.first_ttl .. active_last_ttl_ :
           ~quota_reached(t) /\ next_send_at[t] <= now }

\* The loop takes the longest overdue TTL first, the lower one on a tie.
Before(t, u) == \/ next_send_at[t] < next_send_at[u]
                \/ next_send_at[t] = next_send_at[u] /\ t < u

\* Mutant: the loop gives up at the first TTL, full or not.
Visited_stops_at_full == { t \in Due : \A u \in Due : ~Before(u, t) }

\* It passes over full TTLs and ends at the first one with room.
Visited == { t \in Due : \A u \in Due : Before(u, t) => Full(u) }
Skipped == { t \in Visited : Full(t) }
Chosen  == Visited \ Skipped

\* Mutant: the deadline advances one interval at a time.
NextSlot_catches_up(t) == next_send_at[t] + config_.interval_ms

\* The first slot of t's cadence after now: overdue slots are not made up for.
NextSlotAfterNow(t) ==
  next_send_at[t]
    + ((now - next_send_at[t]) \div config_.interval_ms + 1) * config_.interval_ms

\* The counters of a TTL the loop visited.
Noted(t) ==
  LET lateness == now - next_send_at[t]
      c        == counters[t]
  IN  [c EXCEPT
        !["scheduler_late_slots"]        = @ + (IF lateness > 0 THEN 1 ELSE 0),
        !["scheduler_lateness_total_ms"] = @ + lateness,
        !["scheduler_lateness_max_ms"]   = AtLeast(@, lateness),
        !["scheduler_skipped"]           = @ + (IF Full(t) THEN 1 ELSE 0)]

CanReserve == active_ /\ now >= next_global_send_at_ /\ Due # {}

reserve_due ==
  /\ CanReserve
  /\ \A t \in Skipped : counters[t]["scheduler_skipped"] < MaxSkipped
  /\ next_send_at' = [t \in TTL |->
       IF t \in Visited THEN NextSlotAfterNow(t) ELSE next_send_at[t]]
  /\ counters' = [t \in TTL |-> IF t \in Visited THEN Noted(t) ELSE counters[t]]
  /\ \/ /\ Chosen = {}
        /\ UNCHANGED << sequence_, records_, reserved, reserved_, next_global_send_at_ >>
     \/ /\ sequence_ < MaxSequence
        /\ sequence_' = sequence_ + 1
        /\ \E t \in Chosen :
             /\ records_' = [s \in DOMAIN records_ \cup {sequence_'} |->
                  IF s = sequence_'
                  THEN [ttl |-> t, epoch |-> epoch_, state |-> "reserved",
                        deadline |-> 0]
                  ELSE records_[s]]
             /\ reserved' = [reserved EXCEPT ![t] = @ + 1]
        /\ reserved_' = reserved_ + 1
        /\ next_global_send_at_' = now + global_spacing_ms
  /\ UNCHANGED << now, active_, epoch_, active_last_ttl_, logical_inflight_,
                  transport_outstanding_ >>

-----------------------------------------------------------------------------
\* What becomes of a reservation

Unreserve(s) ==
  /\ s \in InState("reserved")
  /\ reserved' = [reserved EXCEPT ![records_[s].ttl] = @ - 1]
  /\ reserved_' = reserved_ - 1
  /\ UNCHANGED << now, active_, plan >>

mark_issued(s, actual_send_at) ==
  /\ Unreserve(s)
  /\ counters' = Count(records_[s].ttl,
                       { "sent", "in_flight", "transport_outstanding" }, {})
  /\ logical_inflight_' = logical_inflight_ + 1
  /\ transport_outstanding_' = transport_outstanding_ + 1
  /\ records_' = [records_ EXCEPT ![s].state = "issued",
                    ![s].deadline = actual_send_at + config_.timeout_ms]

mark_issue_failed(s) ==
  /\ Unreserve(s)
  /\ counters' = Count(records_[s].ttl, { "local_errors" }, {})
  /\ records_' = Without({s})
  /\ UNCHANGED << logical_inflight_, transport_outstanding_ >>

mark_cached(s) ==
  /\ Unreserve(s)
  /\ counters' = Count(records_[s].ttl, { "cache_skipped" }, {})
  /\ records_' = Without({s})
  /\ UNCHANGED << logical_inflight_, transport_outstanding_ >>

-----------------------------------------------------------------------------
\* Deadlines and completions

Expired == { s \in InState("issued") : records_[s].deadline <= now }

expire ==
  /\ Expired # {}
  /\ records_' = [s \in DOMAIN records_ |->
       IF s \in Expired THEN [records_[s] EXCEPT !.state = "timed_out"]
       ELSE records_[s]]
  /\ counters' = [t \in TTL |->
       LET n == Cardinality({ s \in Expired : records_[s].ttl = t })
       IN  [counters[t] EXCEPT !["completed"] = @ + n, !["timed_out"] = @ + n,
                               !["in_flight"] = @ - n]]
  /\ logical_inflight_' = logical_inflight_ - Cardinality(Expired)
  /\ UNCHANGED << now, active_, plan, reserved, reserved_, transport_outstanding_ >>

\* complete()'s answer for the record of s.
Disposition(s, kind, completed_at) ==
  CASE records_[s].state = "ignored_epoch" -> "ignored_epoch"
    [] records_[s].state = "cancelled"     -> "cancelled"
    [] records_[s].state = "timed_out"     -> "late_discarded"
    [] records_[s].state = "reserved"      -> "unknown_token"
    [] OTHER -> IF completed_at > records_[s].deadline
                THEN "late_discarded_after_timeout"
                ELSE CASE kind = "reply"   -> "accepted_reply"
                       [] kind = "timeout" -> "accepted_timeout"
                       [] OTHER            -> "accepted_local_error"

\* Mutant: a late answer counts as a second timeout.
Raised_late_again(disposition) ==
  CASE disposition = "accepted_reply"       -> { "completed", "received" }
    [] disposition = "accepted_timeout"     -> { "completed", "timed_out" }
    [] disposition = "accepted_local_error" -> { "local_errors" }
    [] disposition \in { "late_discarded", "late_discarded_after_timeout" }
         -> { "completed", "timed_out", "late_completions" }
    [] OTHER -> {}

\* The counters each answer raises.
Raised(disposition) ==
  CASE disposition = "accepted_reply"       -> { "completed", "received" }
    [] disposition = "accepted_timeout"     -> { "completed", "timed_out" }
    [] disposition = "accepted_local_error" -> { "local_errors" }
    [] disposition = "late_discarded"       -> { "late_completions" }
    [] disposition = "late_discarded_after_timeout"
         -> { "completed", "timed_out", "late_completions" }
    [] OTHER -> {}

\* retire_transport(): both counts saturate at zero.
Lowered(s) ==
  (IF records_[s].state = "issued" THEN { "in_flight" } ELSE {})
  \cup (IF counters[records_[s].ttl]["transport_outstanding"] # 0
        THEN { "transport_outstanding" } ELSE {})

\* Mutant: the record is not erased.
complete_keeps_record(s, kind, completed_at) ==
  /\ s \in Outstanding
  /\ counters' = Count(records_[s].ttl,
                       Raised(Disposition(s, kind, completed_at)), Lowered(s))
  /\ logical_inflight_' =
       IF records_[s].state = "issued" THEN logical_inflight_ - 1
       ELSE logical_inflight_
  /\ transport_outstanding_' =
       IF transport_outstanding_ # 0 THEN transport_outstanding_ - 1 ELSE 0
  /\ UNCHANGED << records_, now, active_, plan, reserved, reserved_ >>

complete(s, kind, completed_at) ==
  /\ s \in Outstanding
  /\ counters' = Count(records_[s].ttl,
                       Raised(Disposition(s, kind, completed_at)), Lowered(s))
  /\ logical_inflight_' =
       IF records_[s].state = "issued" THEN logical_inflight_ - 1
       ELSE logical_inflight_
  /\ transport_outstanding_' =
       IF transport_outstanding_ # 0 THEN transport_outstanding_ - 1 ELSE 0
  /\ records_' = Without({s})
  /\ UNCHANGED << now, active_, plan, reserved, reserved_ >>

-----------------------------------------------------------------------------
Tick ==
  /\ now' \in now + 1 .. MaxNow
  /\ UNCHANGED << active_, plan, reserved, counters, records_,
                  logical_inflight_, transport_outstanding_, reserved_ >>

Next ==
  \/ Tick
  \/ \E epoch \in epoch_ + 1 .. MaxEpoch : restart(epoch)
  \/ stop
  \/ begin_drain
  \/ cancel_pending
  \/ \E last \in 0 .. config_.last_ttl + 1, at \in now .. now + MaxLag :
       set_last_ttl(last, at)
  \/ reserve_due
  \/ \E s \in DOMAIN records_ :
       \/ mark_issued(s, now)
       \/ mark_issue_failed(s)
       \/ mark_cached(s)
       \/ \E kind \in CompletionKind, completed_at \in 0 .. now + MaxLag :
            complete(s, kind, completed_at)
  \/ expire

Spec == Init /\ [][Next]_vars

-----------------------------------------------------------------------------
\* Properties

\* Every variable keeps its type; in particular no unsigned counter of the
\* code is ever decremented below zero.
TypeOK ==
  /\ now \in 0..MaxNow
  /\ active_ \in BOOLEAN
  /\ epoch_ \in Nat
  /\ sequence_ \in 0..MaxSequence
  /\ active_last_ttl_ \in TTL
  /\ next_global_send_at_ \in Nat
  /\ next_send_at \in [TTL -> Nat]
  /\ reserved \in [TTL -> Nat]
  /\ counters \in [TTL -> [CounterNames -> Nat]]
  /\ DOMAIN records_ \subseteq 1..sequence_
  /\ records_ \in [DOMAIN records_ -> Records]
  /\ logical_inflight_ \in Nat
  /\ transport_outstanding_ \in Nat
  /\ reserved_ \in Nat

\* The counts the limits are checked against are the numbers of records in
\* the states they count, per TTL and for the session, across drains,
\* cancellations and epoch changes.
RecordsAccounted ==
  /\ reserved_ = Cardinality(InState("reserved"))
  /\ logical_inflight_ = Cardinality(InState("issued"))
  /\ transport_outstanding_ = Cardinality(Outstanding)
  /\ \A t \in TTL :
       /\ reserved[t] = Cardinality(InStateAt("reserved", t))
       /\ counters[t]["in_flight"] = Cardinality(InStateAt("issued", t))
       /\ counters[t]["transport_outstanding"] = Cardinality(OutstandingAt(t))

\* No interleaving of calls puts more probes in flight, or more requests in
\* the transport, than the configuration allows; the transport limits count
\* the requests of earlier epochs too.
CapsRespected ==
  /\ logical_inflight_ + reserved_ <= config_.max_inflight
  /\ transport_outstanding_ + reserved_ <= config_.max_transport_outstanding
  /\ \A t \in TTL :
       /\ counters[t]["in_flight"] + reserved[t] <= config_.max_inflight_per_ttl
       /\ counters[t]["transport_outstanding"] + reserved[t]
            <= config_.max_transport_outstanding_per_ttl

Settled(t) == counters[t]["completed"] + counters[t]["in_flight"]
                + counters[t]["cancelled"]

\* A probe that was sent and is not settled failed locally; local_errors counts
\* those that failed before they were sent, too.
NoneForgotten(t) == counters[t]["sent"] <= Settled(t) + counters[t]["local_errors"]

\* A probe is counted once: the probes completed, in flight or cancelled are
\* distinct probes that were sent, and every completion is either a reply or
\* a timeout.  And none is forgotten; only stop(), after which no probe is sent,
\* drops those in flight without counting them.
ProbesCountedOnce ==
  \A t \in TTL :
    /\ counters[t]["completed"] = counters[t]["received"] + counters[t]["timed_out"]
    /\ Settled(t) <= counters[t]["sent"]
    /\ active_ => NoneForgotten(t)

\* With a finite number of cycles no TTL is ever probed more often than that.
QuotaRespected ==
  config_.probes_per_ttl # 0 =>
    \A t \in TTL :
      counters[t]["sent"] + counters[t]["cache_skipped"] + reserved[t]
        <= config_.probes_per_ttl

\* A session of N cycles gives every TTL N slots before it ends.
EveryTtlGetsItsCycles ==
  quotas_reached /\ epoch_ = FirstEpoch /\ reserved_ = 0 =>
    sequence_ >= config_.probes_per_ttl * (active_last_ttl_ - config_.first_ttl + 1)

\* Once draining has begun no reservation is left that could still be sent.
DrainLeavesNoReservation == ~active_ => reserved_ = 0

\* Only records of the running epoch can still count for it.
LiveRecordsAreCurrent ==
  \A s \in DOMAIN records_ :
    records_[s].state \in { "reserved", "issued", "timed_out", "cancelled" }
      => records_[s].epoch = epoch_

\* next_wake_at() tells the trace loop the truth: an instant that has come
\* means there is a slot or a deadline to handle now, and nothing that could
\* be handled now is missing from it.
WakeIsExact ==
  (\E w \in WakeTimes : w <= now) <=> (CanReserve \/ Expired # {})

\* A late scheduler never sends a burst: a slot that was due is moved past
\* now in one step, and it stays on the cadence it was on.
NoCatchUpBurst ==
  [][(sequence_' > sequence_ \/ \E t \in TTL :
        counters'[t]["scheduler_skipped"] > counters[t]["scheduler_skipped"]) =>
       \A t \in TTL : next_send_at'[t] # next_send_at[t] =>
         /\ next_send_at'[t] > now
         /\ (next_send_at'[t] - next_send_at[t]) % config_.interval_ms = 0]_vars

\* Backpressure on one TTL never starves another: a due TTL with room gets
\* the slot although an older due one is full.
FullTtlDoesNotBlockOthers ==
  [][(\E t \in TTL : counters'[t]["scheduler_skipped"]
                       > counters[t]["scheduler_skipped"])
       => (sequence_' > sequence_ \/ \A t \in Due : Full(t))]_vars

\* The life of a probe, as the rest of the program may rely on it.
StageOf(state) ==
  CASE state = "reserved"      -> "reserved"
    [] state = "issued"        -> "waiting"
    [] state = "ignored_epoch" -> "abandoned"
    [] OTHER                   -> "settled"

ProbeSeen ==
  [s \in 1..MaxSequence |->
     IF s \in DOMAIN records_
     THEN [ ttl |-> records_[s].ttl, stage |-> StageOf(records_[s].state) ]
     ELSE [ ttl |-> 0, stage |-> IF s > sequence_ THEN "unused" ELSE "closed" ]]

TallySeen ==
  [t \in TTL |->
     [ sent      |-> counters[t]["sent"],
       completed |-> counters[t]["completed"],
       cancelled |-> counters[t]["cancelled"],
       errors    |-> counters[t]["local_errors"] ]]

Lifecycle ==
  INSTANCE ProbeLifecycle WITH
    Ttls <- TTL, Sequences <- 1..MaxSequence, probe <- ProbeSeen, tally <- TallySeen

\* The scheduler implements the abstract life of a probe.
ImplementsLifecycle == Lifecycle!Spec
=============================================================================
