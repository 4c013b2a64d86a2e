----------------------------- MODULE TraceLoop -----------------------------
(***************************************************************************)
(* The trace loop, WinMTRNet::DoTrace(), with everything that runs beside  *)
(* it: the thread pool callbacks that send the ICMP requests and push      *)
(* their results, the user interface that resets the statistics and stops  *)
(* the trace, and the clock.                                               *)
(*                                                                         *)
(* pc is the place in the loop's pass.  A step takes the loop from one     *)
(* access of shared state to the next; the scheduler and the route policy  *)
(* belong to the loop alone, so what it does to them in between joins that *)
(* step.  The commit functions lock ghMutex and compare epochs, so several *)
(* commits in a row are one step: a reset between them wipes the first     *)
(* ones and turns the others away, as a reset after all of them would.     *)
(*                                                                         *)
(* One trace is modelled, from beginSession() to finishSession().          *)
(***************************************************************************)
EXTENDS Integers, Sequences, FiniteSets, FiniteSetsExt

CONSTANTS
  Options,           \* the WinMTRTraceOptions of the session
  FirstRoundOnly,    \* DoTrace()'s stop_after_unreached_first_round
  PathExploration,   \* WinMTRUtils' PATH_ constants, [period, frontier, shrink]
  FirstEpoch,        \* the data epoch after beginSession()
  MaxEpoch,          \* bound: the last data epoch, and so the number of resets
  MaxNow,            \* bound: the clock stops here
  MaxLag             \* bound: how long a pass of the loop may take

OptionFields ==
  { "interval_ms", "timeout_ms", "grace_ms", "start_ttl", "minimum_ttl",
    "max_hops", "unknown_host_limit", "max_global_pps", "cycles",
    "reply_cache_ms" }

ASSUME TraceLoopAssumption ==
  /\ Options \in [OptionFields -> Nat]
  /\ Options.interval_ms >= 1 /\ Options.timeout_ms >= 1
  /\ 1 <= Options.start_ttl /\ Options.start_ttl <= Options.max_hops
  /\ Options.minimum_ttl <= Options.max_hops
  /\ FirstRoundOnly \in BOOLEAN
  /\ PathExploration \in [{ "period", "frontier", "shrink" } -> Nat]
  /\ FirstEpoch \in Nat /\ MaxEpoch \in Nat /\ FirstEpoch <= MaxEpoch
  /\ MaxNow \in Nat /\ MaxLag \in Nat

Clamp(low, high, value) ==
  IF value < low THEN low ELSE IF value > high THEN high ELSE value

\* The probes of one TTL that can be under way at once: one per interval for
\* as long as a reply may take.
per_ttl_inflight ==
  (Options.timeout_ms + Options.interval_ms - 1) \div Options.interval_ms

scheduler_config ==
  [ interval_ms                       |-> Options.interval_ms,
    timeout_ms                        |-> Options.timeout_ms,
    first_ttl                         |-> Options.start_ttl,
    last_ttl                          |-> Options.max_hops,
    max_inflight                      |->
      Clamp(128, 4096, Options.max_hops * per_ttl_inflight),
    max_inflight_per_ttl              |-> per_ttl_inflight,
    max_transport_outstanding         |->
      Clamp(128, 4096, Options.max_hops * (per_ttl_inflight + 1)),
    max_transport_outstanding_per_ttl |-> per_ttl_inflight + 1,
    max_global_pps                    |-> Options.max_global_pps,
    probes_per_ttl                    |-> IF FirstRoundOnly THEN 1 ELSE Options.cycles ]

route_config ==
  [ start_ttl                 |-> Options.start_ttl,
    minimum_ttl               |-> Options.minimum_ttl,
    max_hops                  |-> Options.max_hops,
    unknown_host_limit        |-> Options.unknown_host_limit,
    exploration_period        |-> PathExploration.period,
    exploration_frontier_ttls |-> PathExploration.frontier,
    shrink_confirmations      |-> PathExploration.shrink ]

\* Bounds that MaxNow implies: a slot needs a reading of the clock of its own
\* in its epoch.
MaxSlots == (MaxNow + 1) + (MaxEpoch - FirstEpoch)

VARIABLES
  \* the scheduler's members, and now, the clock as the loop last read it
  now, active_, epoch_, sequence_, active_last_ttl_, next_global_send_at_,
  next_send_at, reserved, counters, records_, logical_inflight_,
  transport_outstanding_, reserved_,
  \* the route policy's members
  exploring_, initial_discovery_, highest_response_ttl_, destination_ttl_,
  stable_ceiling_, shrink_candidate_, shrink_confirmations_,
  \* the locals of DoTrace()
  pc,
  stopping,
  drain_deadline,               \* {} or the one instant the grace ends
  reported_cycles,
  session_reached_destination,
  session_had_usable_reply,
  requests,                     \* sequence -> the scheduled_probe it owns
  batch,                        \* what drain() returned and is left to handle
  pending_ttl,                  \* the set_last_ttl() call still to make, or 0
  \* what the loop shares with the other threads
  clock,
  stop_requested,               \* the stop token
  data_epoch,
  ready,                        \* probe_completion_queue::ready
  host,                         \* the statistics of every TTL
  display_max_ttl, session_destination_ttl, completed_cycles, tracing

scheduler_vars == << now, active_, epoch_, sequence_, active_last_ttl_,
                     next_global_send_at_, next_send_at, reserved, counters,
                     records_, logical_inflight_, transport_outstanding_,
                     reserved_ >>
route_vars     == << exploring_, initial_discovery_, highest_response_ttl_,
                     destination_ttl_, stable_ceiling_, shrink_candidate_,
                     shrink_confirmations_ >>
drain_vars     == << stopping, drain_deadline >>
result_vars    == << session_reached_destination, session_had_usable_reply >>
shared_vars    == << clock, stop_requested, data_epoch >>
display_vars   == << host, display_max_ttl, session_destination_ttl,
                     completed_cycles >>

vars == << scheduler_vars, route_vars, pc, drain_vars, reported_cycles,
           result_vars, requests, batch, pending_ttl, shared_vars, ready,
           display_vars, tracing >>

Scheduler == INSTANCE ProbeScheduler WITH
               Config      <- scheduler_config,
               MaxSequence <- MaxSlots,
               MaxSkipped  <- MaxSlots

Route == INSTANCE RoutePolicy WITH
           PathConfig <- route_config,
           MaxCycles  <- MaxSlots

TTL           == Scheduler!TTL
mandatory_ttl == Route!mandatory_ttl

-----------------------------------------------------------------------------
\* The statistics of a TTL, and the functions that commit to them

HopCounters ==
  { "xmit", "completed", "returned", "timed_out", "in_flight", "local_errors",
    "cancelled", "scheduler_skipped", "cache_skipped", "late_completions",
    "post_destination_completions" }
HopTicks == { "last_reply_tick", "last_destination_reply_tick" }

s_nethost == [c \in HopCounters \cup HopTicks |-> 0]

\* GetTickCount64() runs with the clock and is never zero.
GetTickCount64(at) == at + 1

\* A hop with n probes noted: every counter in up grows, and those in down
\* shrink, but not below zero.
Note(hop, n, up, down) ==
  [c \in DOMAIN hop |-> IF c \in up THEN hop[c] + n
                        ELSE IF c \in down THEN Clamp(0, hop[c], hop[c] - n)
                        ELSE hop[c]]

noteIssued(hop)     == Note(hop, 1, { "xmit", "in_flight" }, {})
noteTimeouts(hop, n) == Note(hop, n, { "completed", "timed_out" }, { "in_flight" })
noteReply(hop, tick) ==
  [Note(hop, 1, { "completed", "returned" }, { "in_flight" })
     EXCEPT !["last_reply_tick"] = tick]
noteLocalError(hop, was_issued) ==
  Note(hop, 1, { "local_errors" }, IF was_issued THEN { "in_flight" } ELSE {})
noteCancelled(hop, n)   == Note(hop, n, { "cancelled" }, { "in_flight" })
noteSchedulerSkipped(hop) == Note(hop, 1, { "scheduler_skipped" }, {})
noteCacheSkipped(hop)     == Note(hop, 1, { "cache_skipped" }, {})
noteLateCompletion(hop)   == Note(hop, 1, { "late_completions" }, {})
notePostDestinations(hop, n) ==
  Note(hop, n, { "post_destination_completions" }, { "in_flight" })

\* Mutant: the epoch the probe belongs to is not looked at.
Fresh_never_checked(epoch) == TRUE

\* The test every commit function makes under ghMutex.
Fresh(epoch) == data_epoch = epoch

\* A commit that does not widen the display.
CommitHop(ttl, epoch, hop) ==
  /\ host' = IF Fresh(epoch) THEN [host EXCEPT ![ttl] = hop] ELSE host
  /\ UNCHANGED << display_max_ttl, session_destination_ttl, completed_cycles >>

\* A commit that shows the table up to ttl.
CommitShown(ttl, epoch, hop) ==
  /\ host' = IF Fresh(epoch) THEN [host EXCEPT ![ttl] = hop] ELSE host
  /\ display_max_ttl' = IF Fresh(epoch) THEN Route!Larger(display_max_ttl, ttl)
                        ELSE display_max_ttl
  /\ UNCHANGED << session_destination_ttl, completed_cycles >>

commitReply(ttl, epoch, tick, is_destination) ==
  LET hop == noteReply(host[ttl], tick)
  IN  IF Fresh(epoch)
      THEN /\ host' = [host EXCEPT ![ttl] =
                IF is_destination
                THEN [hop EXCEPT !["last_destination_reply_tick"] = tick] ELSE hop]
           /\ display_max_ttl' = Route!Larger(display_max_ttl, ttl)
           /\ session_destination_ttl' =
                IF ~is_destination THEN session_destination_ttl
                ELSE IF session_destination_ttl = 0 THEN ttl
                ELSE Route!Smaller(session_destination_ttl, ttl)
           /\ UNCHANGED completed_cycles
      ELSE UNCHANGED display_vars

\* Is a reply at this TTL recent enough to spare a probe?
Recent(tick) ==
  /\ tick # 0 /\ GetTickCount64(clock) >= tick
  /\ GetTickCount64(clock) - tick <= Options.reply_cache_ms

replyIsCached(ttl, epoch) ==
  /\ Options.reply_cache_ms # 0
  /\ Fresh(epoch)
  /\ Recent(host[ttl]["last_reply_tick"])

-----------------------------------------------------------------------------
\* The start of the trace: beginSession(), and DoTrace() up to its loop.
Init ==
  /\ Scheduler!Init
  /\ Route!Init
  /\ pc = "top"
  /\ stopping = FALSE /\ drain_deadline = {}
  /\ reported_cycles = 0
  /\ session_reached_destination = FALSE /\ session_had_usable_reply = FALSE
  /\ requests = << >> /\ batch = << >> /\ pending_ttl = 0
  /\ clock = now /\ stop_requested = FALSE /\ data_epoch = FirstEpoch
  /\ ready = << >>
  /\ host = [t \in TTL |-> s_nethost]
  /\ display_max_ttl = 0 /\ session_destination_ttl = 0 /\ completed_cycles = 0
  /\ tracing = TRUE

\* The shared state but for ready, which no step of the loop but one changes.
LoopKeeps == UNCHANGED << shared_vars, tracing >>

-----------------------------------------------------------------------------
\* The beginning of a pass: the clock is read ...
ReadClock ==
  /\ pc = "top" /\ pc' = "epoch"
  /\ now' = clock
  /\ UNCHANGED << active_, epoch_, sequence_, active_last_ttl_,
                  next_global_send_at_, next_send_at, reserved, counters,
                  records_, logical_inflight_, transport_outstanding_, reserved_ >>
  /\ UNCHANGED << route_vars, drain_vars, reported_cycles, result_vars, requests,
                  batch, pending_ttl, ready, display_vars >>
  /\ LoopKeeps

\* ... a reset of the statistics is noticed, unless the trace is ending ...
AdoptEpoch ==
  IF stopping \/ data_epoch = epoch_
  THEN UNCHANGED << scheduler_vars, route_vars, reported_cycles, result_vars >>
  ELSE /\ Scheduler!restart(data_epoch)
       /\ Route!reset
       /\ reported_cycles' = 0
       /\ session_reached_destination' = FALSE
       /\ session_had_usable_reply' = FALSE

\* Mutant: the results taken stay in the queue.
Drain_keeps_ready ==
  /\ pc = "epoch" /\ pc' = "complete"
  /\ AdoptEpoch
  /\ batch' = ready
  /\ UNCHANGED << drain_vars, requests, pending_ttl, ready, display_vars >>
  /\ LoopKeeps

\* ... and the results the workers have pushed so far are taken.
Drain ==
  /\ pc = "epoch" /\ pc' = "complete"
  /\ AdoptEpoch
  /\ batch' = ready /\ ready' = << >>
  /\ UNCHANGED << drain_vars, requests, pending_ttl, display_vars >>
  /\ LoopKeeps

\* A probe beyond the destination, which the statistics leave out.
Beyond(ttl) ==
  destination_ttl_ # 0 /\ ttl > Route!Larger(mandatory_ttl, destination_ttl_)

Request == requests[Head(batch)]

\* What complete() says of the first result of the batch.
disposition ==
  IF Head(batch) \in Scheduler!Outstanding
  THEN Scheduler!Disposition(Head(batch), Request.kind, Request.completed_at)
  ELSE "unknown_token"

accepted_after_destination ==
  /\ Beyond(Request.ttl)
  /\ disposition \in { "accepted_reply", "accepted_timeout", "accepted_local_error",
                       "late_discarded_after_timeout" }

\* The commit calls for the first result of the batch.
CommitCompletion ==
  LET t   == Request.ttl
      e   == Request.epoch
      hop == host[t]
  IN  CASE accepted_after_destination ->
             CommitHop(t, e, IF disposition = "late_discarded_after_timeout"
                             THEN noteLateCompletion(notePostDestinations(hop, 1))
                             ELSE notePostDestinations(hop, 1))
        [] disposition = "accepted_reply" /\ ~accepted_after_destination ->
             commitReply(t, e, GetTickCount64(Request.completed_at), Request.destination)
        [] disposition = "accepted_timeout" /\ ~accepted_after_destination ->
             CommitShown(t, e, noteTimeouts(hop, 1))
        [] disposition = "accepted_local_error" /\ ~accepted_after_destination ->
             CommitHop(t, e, noteLocalError(hop, TRUE))
        [] disposition = "late_discarded" ->
             CommitHop(t, e, noteLateCompletion(hop))
        [] disposition = "late_discarded_after_timeout" /\ ~accepted_after_destination ->
             CommitShown(t, e, noteLateCompletion(noteTimeouts(hop, 1)))
        [] disposition \in { "cancelled", "ignored_epoch", "unknown_token" } ->
             UNCHANGED display_vars

\* A reply that counts tells the route policy, and the destination's own reply
\* ends the path at its TTL.
NoteReply ==
  IF disposition = "accepted_reply" /\ ~accepted_after_destination
  THEN /\ session_had_usable_reply' = TRUE
       /\ session_reached_destination' =
            (session_reached_destination \/ Request.destination)
       /\ Route!note_reply(Request.ttl, Request.destination)
       /\ pending_ttl' = IF Request.destination
                         THEN Route!Larger(mandatory_ttl, Request.ttl) ELSE 0
  ELSE UNCHANGED << result_vars, route_vars, pending_ttl >>

\* One result of the batch.  By RequestsMatchRecords its request is always
\* found and its token always known.
Complete ==
  /\ pc = "complete" /\ batch # << >> /\ pending_ttl = 0 /\ UNCHANGED pc
  /\ Scheduler!complete(Head(batch), Request.kind, Request.completed_at)
  /\ CommitCompletion
  /\ NoteReply
  /\ requests' = [s \in DOMAIN requests \ { Head(batch) } |-> requests[s]]
  /\ batch' = Tail(batch)
  /\ UNCHANGED << drain_vars, reported_cycles, ready >>
  /\ LoopKeeps

\* Mutant: a new range starts the sweep of all its TTLs again.
SetLastTtl_restarts_sweep(ttl, at) ==
  /\ active_last_ttl_' = Clamp(Options.start_ttl, Options.max_hops, ttl)
  /\ next_send_at' = Scheduler!Staggered(at)
  /\ UNCHANGED << now, active_, epoch_, sequence_, next_global_send_at_, reserved,
                  counters, records_, logical_inflight_, transport_outstanding_,
                  reserved_ >>

SetLastTtl(ttl, at) ==
  \/ Scheduler!set_last_ttl(ttl, at)
  \/ /\ Clamp(Options.start_ttl, Options.max_hops, ttl) = active_last_ttl_
     /\ UNCHANGED scheduler_vars

\* The set_last_ttl() call that follows a reply of the destination.
FollowDestination ==
  /\ pending_ttl # 0 /\ pending_ttl' = 0 /\ UNCHANGED pc
  /\ SetLastTtl(pending_ttl, now)
  /\ UNCHANGED << route_vars, drain_vars, reported_cycles, result_vars, requests,
                  batch, ready, display_vars >>
  /\ LoopKeeps

-----------------------------------------------------------------------------
\* Stopping

\* The stop token is looked at, when the batch has been handled.
CheckStop ==
  /\ pc = "complete" /\ batch = << >> /\ pending_ttl = 0 /\ pc' = "expire"
  /\ IF stop_requested /\ ~stopping
     THEN /\ stopping' = TRUE
          /\ Scheduler!begin_drain
          /\ drain_deadline' = { now + Options.grace_ms }
     ELSE UNCHANGED << drain_vars, scheduler_vars >>
  /\ UNCHANGED << route_vars, reported_cycles, result_vars, requests, batch,
                  pending_ttl, ready, display_vars >>
  /\ LoopKeeps

ExpiredAt(t) == { s \in Scheduler!Expired : records_[s].ttl = t }

\* The probes whose deadline has passed are timeouts.
Expire ==
  /\ pc = "expire" /\ pc' = "grace"
  /\ IF Scheduler!Expired = {} THEN UNCHANGED << scheduler_vars, display_vars >>
     ELSE /\ Scheduler!expire
          /\ host' = [t \in TTL |->
               LET n == Cardinality(ExpiredAt(t))
               IN  IF n = 0 \/ ~Fresh(epoch_) THEN host[t]
                   ELSE IF Beyond(t) THEN notePostDestinations(host[t], n)
                   ELSE noteTimeouts(host[t], n)]
          /\ display_max_ttl' =
               IF Fresh(epoch_)
               THEN Max({ display_max_ttl }
                        \cup { t \in TTL : ExpiredAt(t) # {} /\ ~Beyond(t) })
               ELSE display_max_ttl
          /\ UNCHANGED << session_destination_ttl, completed_cycles >>
  /\ UNCHANGED << route_vars, drain_vars, reported_cycles, result_vars, requests,
                  batch, pending_ttl, ready >>
  /\ LoopKeeps

\* Nothing left to wait for, or no more time for it.
Settled     == stopping /\ logical_inflight_ = 0
GraceIsOver == stopping /\ ~Settled /\ \E d \in drain_deadline : now >= d

\* Mutant: the probes given up stay in flight in the statistics.
Grace_without_commit ==
  /\ pc = "grace" /\ pc' = IF stopping THEN "exit" ELSE "reserve"
  /\ IF GraceIsOver THEN Scheduler!cancel_pending ELSE UNCHANGED scheduler_vars
  /\ drain_deadline' = IF Settled \/ GraceIsOver THEN {} ELSE drain_deadline
  /\ UNCHANGED << route_vars, stopping, reported_cycles, result_vars, requests,
                  batch, pending_ttl, ready, display_vars >>
  /\ LoopKeeps

\* The end of the grace period: what is still in flight is given up.
Grace ==
  /\ pc = "grace" /\ pc' = IF stopping THEN "exit" ELSE "reserve"
  /\ IF GraceIsOver
     THEN /\ Scheduler!cancel_pending
          /\ host' = [t \in TTL |->
               LET n == Cardinality(Scheduler!InStateAt("issued", t))
               IN  IF Fresh(epoch_) /\ n # 0 THEN noteCancelled(host[t], n) ELSE host[t]]
     ELSE UNCHANGED << scheduler_vars, host >>
  /\ drain_deadline' = IF Settled \/ GraceIsOver THEN {} ELSE drain_deadline
  /\ UNCHANGED << route_vars, stopping, reported_cycles, result_vars, requests,
                  batch, pending_ttl, ready, display_max_ttl,
                  session_destination_ttl, completed_cycles >>
  /\ LoopKeeps

-----------------------------------------------------------------------------
\* Sending

\* The slots that are due: at most one, since the session-wide pacing leaves at
\* least a millisecond between two.
Reserve ==
  /\ pc = "reserve"
  /\ IF ~Scheduler!CanReserve
     THEN /\ pc' = "refresh" /\ UNCHANGED << scheduler_vars, host >>
     ELSE /\ Scheduler!reserve_due
          /\ pc' = IF Scheduler!Chosen = {} THEN "refresh" ELSE "issue"
          /\ host' = [t \in TTL |->
               IF Fresh(epoch_) /\ t \in Scheduler!Skipped
               THEN noteSchedulerSkipped(host[t]) ELSE host[t]]
  /\ UNCHANGED << route_vars, drain_vars, reported_cycles, result_vars, requests,
                  batch, pending_ttl, ready, display_max_ttl,
                  session_destination_ttl, completed_cycles >>
  /\ LoopKeeps

\* The sequence number and the TTL of the slot to send.
Slot    == sequence_
SlotTtl == records_[Slot].ttl

\* A recent reply spares the probe.
IssueCached ==
  LET destination == Recent(host[SlotTtl]["last_destination_reply_tick"])
  IN  /\ replyIsCached(SlotTtl, epoch_)
      /\ Scheduler!mark_cached(Slot)
      /\ CommitHop(SlotTtl, epoch_, noteCacheSkipped(host[SlotTtl]))
      /\ session_reached_destination' = (session_reached_destination \/ destination)
      /\ IF destination THEN Route!note_reply(SlotTtl, TRUE) ELSE UNCHANGED route_vars
      /\ pending_ttl' = IF destination THEN Route!Larger(mandatory_ttl, SlotTtl) ELSE 0
      /\ UNCHANGED << session_had_usable_reply, requests >>

\* The ICMP handle or the work item cannot be made, or memory runs out.
IssueFails ==
  /\ ~replyIsCached(SlotTtl, epoch_)
  /\ Scheduler!mark_issue_failed(Slot)
  /\ CommitHop(SlotTtl, epoch_, noteLocalError(host[SlotTtl], FALSE))
  /\ UNCHANGED << route_vars, result_vars, pending_ttl, requests >>

scheduled_probe(ttl, epoch) ==
  [ ttl |-> ttl, epoch |-> epoch, stage |-> "running", kind |-> "local_error",
    destination |-> FALSE, completed_at |-> 0 ]

\* The request is handed to the thread pool.
IssueSends ==
  /\ ~replyIsCached(SlotTtl, epoch_)
  /\ Scheduler!mark_issued(Slot, now)
  /\ requests' = [s \in DOMAIN requests \cup {Slot} |->
       IF s = Slot THEN scheduled_probe(SlotTtl, epoch_) ELSE requests[s]]
  /\ CommitShown(SlotTtl, epoch_, noteIssued(host[SlotTtl]))
  /\ UNCHANGED << route_vars, result_vars, pending_ttl >>

Issue ==
  /\ pc = "issue" /\ pc' = "refresh"
  /\ IssueCached \/ IssueFails \/ IssueSends
  /\ UNCHANGED << drain_vars, reported_cycles, batch, ready >>
  /\ LoopKeeps

\* The cycles every TTL being probed has completed.
Minimum ==
  Min({ counters[t]["completed"] + counters[t]["local_errors"]
          + counters[t]["cache_skipped"] : t \in Options.start_ttl .. active_last_ttl_ })

\* refresh_completed_cycles()
Refresh ==
  /\ pc = "refresh" /\ pending_ttl = 0 /\ pc' = "quota"
  /\ IF Minimum > reported_cycles
     THEN /\ reported_cycles' = Minimum
          /\ completed_cycles' = IF Fresh(epoch_) THEN Route!Larger(completed_cycles, Minimum)
                                 ELSE completed_cycles
          /\ Route!complete_cycle(Minimum)
          /\ IF Route!NextCeiling(Minimum) # 0
             THEN SetLastTtl(Route!NextCeiling(Minimum), clock)
             ELSE UNCHANGED scheduler_vars
     ELSE UNCHANGED << scheduler_vars, route_vars, reported_cycles, completed_cycles >>
  /\ UNCHANGED << drain_vars, result_vars, requests, batch, pending_ttl, ready, host,
                  display_max_ttl, session_destination_ttl >>
  /\ LoopKeeps

\* Mutant: the end of the cycles starts no grace period.
CheckQuota_without_deadline ==
  /\ pc = "quota" /\ pc' = "exit"
  /\ IF Scheduler!quotas_reached
     THEN stopping' = TRUE /\ Scheduler!begin_drain
     ELSE UNCHANGED << stopping, scheduler_vars >>
  /\ UNCHANGED << drain_deadline, route_vars, reported_cycles, result_vars,
                  requests, batch, pending_ttl, ready, display_vars >>
  /\ LoopKeeps

\* A session of so many cycles ends by itself.
CheckQuota ==
  /\ pc = "quota" /\ pc' = "exit"
  /\ IF Scheduler!quotas_reached
     THEN /\ stopping' = TRUE
          /\ Scheduler!begin_drain
          /\ drain_deadline' = IF logical_inflight_ = 0 THEN {}
                               ELSE { now + Options.grace_ms }
     ELSE UNCHANGED << drain_vars, scheduler_vars >>
  /\ UNCHANGED << route_vars, reported_cycles, result_vars, requests, batch,
                  pending_ttl, ready, display_vars >>
  /\ LoopKeeps

-----------------------------------------------------------------------------
\* The end of a pass

\* Mutant: only the probes in flight are waited for.
Idle_by_inflight == logical_inflight_ = 0

Idle == transport_outstanding_ = 0 /\ requests = << >>

\* What the loop may not sleep past.
Wakes == Scheduler!WakeTimes \cup drain_deadline

Sleeps == IF Wakes = {} THEN stopping ELSE Min(Wakes) > now

\* The trace is over, finishSession(), or the loop waits, or goes on at once.
Exit ==
  /\ pc = "exit"
  /\ pc' = IF stopping /\ Idle THEN "finished" ELSE IF Sleeps THEN "wait" ELSE "top"
  /\ tracing' = (tracing /\ ~(stopping /\ Idle))
  /\ UNCHANGED << scheduler_vars, route_vars, drain_vars, reported_cycles,
                  result_vars, requests, batch, pending_ttl, ready, shared_vars,
                  display_vars >>

\* Mutant: the stop token does not end the wait.
Woken_by_results ==
  ready # << >> \/ (Wakes # {} /\ clock >= Min(Wakes))

\* probe_completion_queue::wait() and wait_until(): a result, the time to wake
\* up, or, unless the loop is stopping already, the stop token.
Woken ==
  \/ ready # << >>
  \/ Wakes # {} /\ clock >= Min(Wakes)
  \/ stop_requested /\ ~stopping

Wake ==
  /\ pc = "wait" /\ Woken /\ pc' = "top"
  /\ UNCHANGED << scheduler_vars, route_vars, drain_vars, reported_cycles,
                  result_vars, requests, batch, pending_ttl, ready, display_vars >>
  /\ LoopKeeps

Loop ==
  ReadClock \/ Drain \/ Complete \/ FollowDestination \/ CheckStop \/ Expire
    \/ Grace \/ Reserve \/ Issue \/ Refresh \/ CheckQuota \/ Exit \/ Wake

-----------------------------------------------------------------------------
\* The other threads

WorkersKeep == UNCHANGED << scheduler_vars, route_vars, pc, drain_vars,
                            reported_cycles, result_vars, batch, pending_ttl,
                            shared_vars, display_vars, tracing >>

\* The ICMP call of probe_work_callback() returns, with an answer or without,
\* and the time is noted.
Answer(s) ==
  /\ s \in DOMAIN requests /\ requests[s].stage = "running"
  /\ \E kind \in Scheduler!CompletionKind, destination \in BOOLEAN :
       /\ destination => kind = "reply"
       /\ requests' = [requests EXCEPT ![s] =
            [@ EXCEPT !.stage = "answered", !.kind = kind,
                      !.destination = destination, !.completed_at = clock]]
  /\ UNCHANGED ready
  /\ WorkersKeep

\* The callback pushes its result.
Push(s) ==
  /\ s \in DOMAIN requests /\ requests[s].stage = "answered"
  /\ requests' = [requests EXCEPT ![s].stage = "pushed"]
  /\ ready' = Append(ready, s)
  /\ WorkersKeep

InterfaceKeeps == UNCHANGED << scheduler_vars, route_vars, pc, drain_vars,
                               reported_cycles, result_vars, requests, batch,
                               pending_ttl, ready, tracing >>

\* The user resets the statistics.
ResetHops ==
  /\ data_epoch < MaxEpoch
  /\ data_epoch' = data_epoch + 1
  /\ host' = [t \in TTL |-> s_nethost]
  /\ display_max_ttl' = 0 /\ session_destination_ttl' = 0 /\ completed_cycles' = 0
  /\ UNCHANGED << clock, stop_requested >>
  /\ InterfaceKeeps

\* The user stops the trace.
RequestStop ==
  /\ ~stop_requested /\ stop_requested' = TRUE
  /\ UNCHANGED << clock, data_epoch, display_vars >>
  /\ InterfaceKeeps

\* Time passes; within one pass of the loop no more than MaxLag.
Tick ==
  /\ clock < MaxNow /\ pc # "finished"
  /\ pc = "wait" \/ clock - now < MaxLag
  /\ clock' = clock + 1
  /\ UNCHANGED << stop_requested, data_epoch, display_vars >>
  /\ InterfaceKeeps

\* DoTrace() has returned.
Returned == pc = "finished" /\ UNCHANGED vars

Next ==
  \/ Loop
  \/ \E s \in DOMAIN requests : Answer(s) \/ Push(s)
  \/ ResetHops
  \/ RequestStop
  \/ Tick
  \/ Returned

\* The loop keeps running, and every ICMP call returns: IcmpSendEcho2Ex() has
\* a time limit of its own.  Nothing makes the user stop the trace.
Fairness ==
  /\ WF_vars(Loop)
  /\ \A s \in 1 .. MaxSlots : WF_vars(Answer(s)) /\ WF_vars(Push(s))

Spec == Init /\ [][Next]_vars /\ Fairness

-----------------------------------------------------------------------------
\* Properties

Stages == { "running", "answered", "pushed" }

\* Every variable keeps its type.
TypeOK ==
  /\ Scheduler!TypeOK
  /\ Route!TypeOK
  /\ pc \in { "top", "epoch", "complete", "expire", "grace", "reserve", "issue",
              "refresh", "quota", "exit", "wait", "finished" }
  /\ stopping \in BOOLEAN
  /\ drain_deadline \subseteq Nat /\ Cardinality(drain_deadline) <= 1
  /\ reported_cycles \in Nat /\ completed_cycles \in Nat
  /\ session_reached_destination \in BOOLEAN /\ session_had_usable_reply \in BOOLEAN
  /\ requests \in [DOMAIN requests ->
       [ ttl : TTL, epoch : Nat, stage : Stages, kind : Scheduler!CompletionKind,
         destination : BOOLEAN, completed_at : Nat ]]
  /\ batch \in Seq(DOMAIN requests) /\ ready \in Seq(DOMAIN requests)
  /\ pending_ttl \in {0} \cup TTL
  /\ clock \in now .. MaxNow /\ data_epoch \in epoch_ .. MaxEpoch
  /\ stop_requested \in BOOLEAN /\ tracing \in BOOLEAN
  /\ host \in [TTL -> [HopCounters \cup HopTicks -> Nat]]
  /\ display_max_ttl \in {0} \cup TTL
  /\ session_destination_ttl \in {0} \cup TTL

\* The loop owns a request exactly as long as the scheduler counts it as being
\* in the transport ...
RequestsMatchRecords ==
  /\ DOMAIN requests = Scheduler!Outstanding
  /\ \A s \in DOMAIN requests :
       /\ requests[s].ttl = records_[s].ttl /\ requests[s].epoch = records_[s].epoch

\* ... and its result is in the queue or in the batch at one place, and only if
\* it has been pushed.
ResultsQueuedOnce ==
  \A s \in DOMAIN requests :
    LET places == { i \in 1 .. Len(batch \o ready) : (batch \o ready)[i] = s }
    IN  Cardinality(places) = IF requests[s].stage = "pushed" THEN 1 ELSE 0

\* Whatever became of a probe meanwhile, its request is kept until its result
\* comes, and the result is handled once.
RequestsAccounted == RequestsMatchRecords /\ ResultsQueuedOnce

\* What the display shows of an epoch is what the scheduler counted in it.
StatisticsAgree ==
  data_epoch = epoch_ =>
    \A t \in TTL :
      LET h == host[t]
          c == counters[t]
      IN  /\ h["xmit"] = c["sent"]
          /\ h["in_flight"] = c["in_flight"]
          /\ h["cancelled"] = c["cancelled"]
          /\ h["scheduler_skipped"] = c["scheduler_skipped"]
          /\ h["cache_skipped"] = c["cache_skipped"]
          /\ h["late_completions"] = c["late_completions"]
          /\ h["completed"] = h["returned"] + h["timed_out"]
          /\ h["completed"] + h["local_errors"] + h["post_destination_completions"]
               = c["completed"] + c["local_errors"]

\* Once the statistics have been reset, nothing of the epoch before gets into
\* them, whether the loop goes on or is ending ...
ResetIsClean ==
  data_epoch # epoch_ =>
    /\ \A t \in TTL : host[t] = s_nethost
    /\ display_max_ttl = 0 /\ session_destination_ttl = 0 /\ completed_cycles = 0

\* ... and what DoTrace() will return agrees with what is displayed.
ResultAgreesWithDisplay ==
  data_epoch = epoch_ =>
    /\ session_reached_destination <=> session_destination_ttl # 0
    /\ session_had_usable_reply <=> \E t \in TTL : host[t]["returned"] > 0

\* The display and the result are those of one epoch, before and after the loop
\* has noticed that the statistics were reset.
DisplayIsOfEpoch == TypeOK /\ ResetIsClean /\ ResultAgreesWithDisplay

\* The grace period ends: an ending loop that goes to sleep with probes in
\* flight wakes up in time to give them up, and no deadline that is past is
\* left over to wake it again at once.
GraceIsRespected ==
  pc = "wait" /\ stopping =>
    /\ logical_inflight_ > 0 => drain_deadline # {}
    /\ \A d \in drain_deadline : now < d

\* When DoTrace() returns, no callback is left that could still use what it
\* owned, and every probe of the session has been accounted for.
FinishedIsQuiet ==
  pc = "finished" =>
    /\ requests = << >> /\ ready = << >> /\ batch = << >>
    /\ \A t \in TTL :
         LET h == host[t]
         IN  /\ h["in_flight"] = 0
             /\ h["xmit"] <= h["completed"] + h["local_errors"] + h["cancelled"]
                               + h["post_destination_completions"]

\* The loop uses the scheduler only in ways the scheduler allows, so what is
\* proved of the scheduler holds in the trace.
UsesScheduler == Scheduler!Spec

\* A trace that is told to stop ends, whatever is under way.
StopEnds == stop_requested ~> pc = "finished"

\* The loop does not spin: it comes to sleep, or to its end, again and again.
LoopSleeps == []<>(pc \in { "wait", "finished" })

=============================================================================
