--------------------------- MODULE TraceLoopProofs ---------------------------
(***************************************************************************)
(* Proofs about TraceLoop, for every session, number of resets and length  *)
(* of the trace.                                                           *)
(*                                                                         *)
(*   LoopInv      a request is kept exactly as long as the transport has   *)
(*                it, and its result is handled once.  RequestsAccounted   *)
(*                relates the requests, the scheduler's records, the queue *)
(*                and the batch; added is why no result is taken twice:    *)
(*                the batch is empty whenever the queue is drained.        *)
(*   LoopUses     adds the types the scheduler's methods require.  With it *)
(*                every step of the loop is a step of the scheduler, whose *)
(*                theorems then hold of the loop's scheduler (Proved).     *)
(*   GraceInv     no deadline of the grace period is left in the past.     *)
(*   DisplayInv   the statistics of a hop follow the scheduler's counters, *)
(*                and the display and the result are of one epoch.         *)
(***************************************************************************)
EXTENDS TraceLoop, SequenceTheorems, FiniteSetTheorems, TLAPS

-----------------------------------------------------------------------------
\* Records and requests are maps to records of the right shape.
RecordMap ==
  /\ records_ = [s \in DOMAIN records_ |-> records_[s]]
  /\ \A s \in DOMAIN records_ :
       records_[s] = [ ttl |-> records_[s].ttl, epoch |-> records_[s].epoch,
                       state |-> records_[s].state, deadline |-> records_[s].deadline ]

RequestMap ==
  /\ requests = [s \in DOMAIN requests |-> requests[s]]
  /\ \A s \in DOMAIN requests :
       requests[s] = [ ttl |-> requests[s].ttl, epoch |-> requests[s].epoch,
                       stage |-> requests[s].stage, kind |-> requests[s].kind,
                       destination |-> requests[s].destination,
                       completed_at |-> requests[s].completed_at ]

\* Sequence numbers not handed out yet have no record.
NumbersAreFresh == sequence_ \in Nat /\ DOMAIN records_ \subseteq 1 .. sequence_

\* What is reserved is reserved in the epoch the scheduler is in.
ReservationsAreCurrent ==
  \A s \in DOMAIN records_ :
    records_[s].state = "reserved" => records_[s].epoch = epoch_

RecordInv == RecordMap /\ NumbersAreFresh /\ ReservationsAreCurrent

Occurs(s, q)   == \E i \in 1 .. Len(q) : q[i] = s
NoRepeats(q)   == \A i, j \in 1 .. Len(q) : q[i] = q[j] => i = j
Disjoint(p, q) == \A i \in 1 .. Len(p), j \in 1 .. Len(q) : p[i] # q[j]

\* ResultsQueuedOnce without counting.
QueueInv ==
  /\ batch \in Seq(DOMAIN requests) /\ ready \in Seq(DOMAIN requests)
  /\ NoRepeats(batch) /\ NoRepeats(ready) /\ Disjoint(batch, ready)
  /\ \A s \in DOMAIN requests :
       requests[s].stage = "pushed" <=> (Occurs(s, batch) \/ Occurs(s, ready))

\* Results are handled before anything else is done.
BatchIsHandled == batch # << >> => pc = "complete"

LoopInv ==
  /\ RecordInv
  /\ RequestMap
  /\ RequestsMatchRecords
  /\ QueueInv
  /\ BatchIsHandled

-----------------------------------------------------------------------------
\* What most calls of the scheduler do to its records: those that the
\* transport holds stay, with their TTL and their epoch.
TransportKept ==
  /\ RecordInv'
  /\ (Scheduler!Outstanding)' = Scheduler!Outstanding
  /\ \A s \in Scheduler!Outstanding :
       records_'[s].ttl = records_[s].ttl /\ records_'[s].epoch = records_[s].epoch

LEMMA RecordsUnchanged ==
  ASSUME RecordInv, UNCHANGED << records_, sequence_, epoch_ >>
  PROVE  TransportKept
BY DEF RecordInv, RecordMap, NumbersAreFresh, ReservationsAreCurrent, TransportKept,
       Scheduler!Outstanding

LEMMA RestartKeeps ==
  ASSUME RecordInv, NEW epoch, Scheduler!restart(epoch)
  PROVE  TransportKept
<1>1. /\ records_' = [s \in Scheduler!Outstanding |->
                        [records_[s] EXCEPT !.state = "ignored_epoch"]]
      /\ sequence_' = sequence_
  BY DEF Scheduler!restart, Scheduler!retire_logical_state_for_epoch_change
<1>2. Scheduler!Outstanding \subseteq DOMAIN records_
  BY DEF Scheduler!Outstanding
<1>3. DOMAIN records_' = Scheduler!Outstanding
  BY <1>1
<1>4. \A s \in Scheduler!Outstanding :
        records_'[s] = [ ttl |-> records_[s].ttl, epoch |-> records_[s].epoch,
                         state |-> "ignored_epoch", deadline |-> records_[s].deadline ]
  BY <1>1, <1>2 DEF RecordInv, RecordMap
<1>f. \A s \in Scheduler!Outstanding :
        /\ records_'[s].ttl = records_[s].ttl /\ records_'[s].epoch = records_[s].epoch
        /\ records_'[s].state # "reserved"
  BY <1>1, <1>2 DEF RecordInv, RecordMap, Scheduler!Outstanding
<1>5. (Scheduler!Outstanding)' = Scheduler!Outstanding
  BY <1>3, <1>f DEF Scheduler!Outstanding
<1>6. RecordMap'
  BY <1>1, <1>3, <1>4 DEF RecordMap
<1>7. NumbersAreFresh'
  BY <1>1, <1>2, <1>3 DEF RecordInv, NumbersAreFresh
<1>8. ReservationsAreCurrent'
  BY <1>3, <1>f DEF RecordInv, ReservationsAreCurrent
<1>. QED
  BY <1>f, <1>5, <1>6, <1>7, <1>8 DEF TransportKept, RecordInv

LEMMA BeginDrainKeeps ==
  ASSUME RecordInv, Scheduler!begin_drain
  PROVE  TransportKept
<1>1. /\ records_' = [s \in DOMAIN records_ \ Scheduler!InState("reserved") |-> records_[s]]
      /\ sequence_' = sequence_ /\ epoch_' = epoch_
  BY DEF Scheduler!begin_drain, Scheduler!Without, Scheduler!plan
<1>2. (Scheduler!Outstanding)' = Scheduler!Outstanding
  BY <1>1 DEF Scheduler!Outstanding, Scheduler!InState
<1>3. RecordMap' /\ NumbersAreFresh'
  BY <1>1 DEF RecordInv, RecordMap, NumbersAreFresh
<1>8. ReservationsAreCurrent'
  BY <1>1 DEF RecordInv, ReservationsAreCurrent
<1>. QED
  BY <1>1, <1>2, <1>3, <1>8 DEF TransportKept, RecordInv, Scheduler!Outstanding, Scheduler!InState

LEMMA CancelKeeps ==
  ASSUME RecordInv, Scheduler!cancel_pending
  PROVE  TransportKept
<1>1. /\ records_' = [s \in Scheduler!Outstanding |->
             IF records_[s].state = "issued"
             THEN [records_[s] EXCEPT !.state = "cancelled"] ELSE records_[s]]
      /\ sequence_' = sequence_ /\ epoch_' = epoch_
  BY DEF Scheduler!cancel_pending, Scheduler!plan
<1>2. Scheduler!Outstanding \subseteq DOMAIN records_
  BY DEF Scheduler!Outstanding
<1>3. DOMAIN records_' = Scheduler!Outstanding
  BY <1>1
<1>4. \A s \in Scheduler!Outstanding :
        /\ records_'[s] = [ ttl |-> records_[s].ttl, epoch |-> records_[s].epoch,
                            state |-> records_'[s].state, deadline |-> records_[s].deadline ]
        /\ records_'[s].state # "reserved"
  BY <1>1, <1>2 DEF RecordInv, RecordMap, Scheduler!Outstanding
<1>f. \A s \in Scheduler!Outstanding :
        records_'[s].ttl = records_[s].ttl /\ records_'[s].epoch = records_[s].epoch
  BY <1>1, <1>2 DEF RecordInv, RecordMap, Scheduler!Outstanding
<1>5. (Scheduler!Outstanding)' = Scheduler!Outstanding
  BY <1>3, <1>4 DEF Scheduler!Outstanding
<1>6. RecordMap'
  BY <1>1, <1>3, <1>4 DEF RecordMap
<1>7. NumbersAreFresh'
  BY <1>1, <1>2, <1>3 DEF RecordInv, NumbersAreFresh
<1>8. ReservationsAreCurrent'
  BY <1>3, <1>4 DEF RecordInv, ReservationsAreCurrent
<1>. QED
  BY <1>f, <1>5, <1>6, <1>7, <1>8 DEF TransportKept, RecordInv

LEMMA ExpireKeeps ==
  ASSUME RecordInv, Scheduler!expire
  PROVE  TransportKept
<1>1. /\ records_' = [s \in DOMAIN records_ |->
             IF s \in Scheduler!Expired THEN [records_[s] EXCEPT !.state = "timed_out"]
             ELSE records_[s]]
      /\ sequence_' = sequence_ /\ epoch_' = epoch_
  BY DEF Scheduler!expire, Scheduler!plan
<1>2. \A s \in Scheduler!Expired : s \in DOMAIN records_ /\ records_[s].state # "reserved"
  BY DEF Scheduler!Expired, Scheduler!InState
<1>3. DOMAIN records_' = DOMAIN records_
  BY <1>1
<1>4. \A s \in DOMAIN records_ :
        /\ records_'[s] = [ ttl |-> records_[s].ttl, epoch |-> records_[s].epoch,
                            state |-> records_'[s].state, deadline |-> records_[s].deadline ]
        /\ records_'[s].state # "reserved" <=> records_[s].state # "reserved"
  BY <1>1, <1>2 DEF RecordInv, RecordMap
<1>f. \A s \in DOMAIN records_ :
        records_'[s].ttl = records_[s].ttl /\ records_'[s].epoch = records_[s].epoch
  BY <1>1, <1>2 DEF RecordInv, RecordMap, Scheduler!Outstanding
<1>5. (Scheduler!Outstanding)' = Scheduler!Outstanding
  BY <1>3, <1>4 DEF Scheduler!Outstanding
<1>6. RecordMap'
  BY <1>1, <1>3, <1>4 DEF RecordMap
<1>7. NumbersAreFresh'
  BY <1>1, <1>3 DEF RecordInv, NumbersAreFresh
<1>8. ReservationsAreCurrent'
  BY <1>1, <1>3, <1>4, <1>f DEF RecordInv, ReservationsAreCurrent
<1>. QED
  BY <1>f, <1>5, <1>6, <1>7, <1>8 DEF TransportKept, RecordInv, Scheduler!Outstanding

LEMMA ReserveKeeps ==
  ASSUME RecordInv, Scheduler!reserve_due
  PROVE  TransportKept
<1>1. CASE UNCHANGED << records_, sequence_, epoch_ >>
  BY <1>1, RecordsUnchanged
<1>2. ASSUME NEW t, sequence_' = sequence_ + 1, epoch_' = epoch_,
             records_' = [s \in DOMAIN records_ \cup {sequence_'} |->
                  IF s = sequence_'
                  THEN [ttl |-> t, epoch |-> epoch_, state |-> "reserved", deadline |-> 0]
                  ELSE records_[s]]
      PROVE  TransportKept
  <2>1. sequence_' \in Nat /\ sequence_' \notin DOMAIN records_
    BY <1>2 DEF RecordInv, NumbersAreFresh
  <2>2. DOMAIN records_' = DOMAIN records_ \cup {sequence_'}
    BY <1>2
  <2>3. /\ \A s \in DOMAIN records_ : records_'[s] = records_[s]
        /\ records_'[sequence_'] =
             [ttl |-> t, epoch |-> epoch_, state |-> "reserved", deadline |-> 0]
    BY <1>2, <2>1
  <2>4. (Scheduler!Outstanding)' = Scheduler!Outstanding
    BY <2>1, <2>2, <2>3 DEF Scheduler!Outstanding
  <2>5. RecordMap'
    BY <1>2, <2>2, <2>3 DEF RecordMap, RecordInv
  <2>6. NumbersAreFresh'
    BY <1>2, <2>1, <2>2 DEF RecordInv, NumbersAreFresh
  <2>7. ReservationsAreCurrent'
    BY <1>2, <2>1, <2>2, <2>3 DEF RecordInv, ReservationsAreCurrent
  <2>. QED
    BY <2>3, <2>4, <2>5, <2>6, <2>7 DEF TransportKept, RecordInv, Scheduler!Outstanding
<1>3. \/ UNCHANGED << records_, sequence_, epoch_ >>
      \/ /\ sequence_' = sequence_ + 1 /\ epoch_' = epoch_
         /\ \E t \in Scheduler!Chosen :
              records_' = [s \in DOMAIN records_ \cup {sequence_'} |->
                  IF s = sequence_'
                  THEN [ttl |-> t, epoch |-> epoch_, state |-> "reserved", deadline |-> 0]
                  ELSE records_[s]]
  BY DEF Scheduler!reserve_due
<1>. QED
  BY <1>1, <1>2, <1>3

\* A reservation that comes to nothing.
LEMMA DroppedKeeps ==
  ASSUME RecordInv, NEW s, Scheduler!mark_cached(s) \/ Scheduler!mark_issue_failed(s)
  PROVE  TransportKept
<1>1. /\ records_' = [r \in DOMAIN records_ \ {s} |-> records_[r]]
      /\ sequence_' = sequence_ /\ epoch_' = epoch_
      /\ s \in Scheduler!InState("reserved")
  BY DEF Scheduler!mark_cached, Scheduler!mark_issue_failed, Scheduler!Unreserve,
         Scheduler!Without, Scheduler!plan
<1>2. (Scheduler!Outstanding)' = Scheduler!Outstanding
  BY <1>1 DEF Scheduler!Outstanding, Scheduler!InState
<1>3. RecordMap' /\ NumbersAreFresh'
  BY <1>1 DEF RecordInv, RecordMap, NumbersAreFresh
<1>8. ReservationsAreCurrent'
  BY <1>1 DEF RecordInv, ReservationsAreCurrent
<1>. QED
  BY <1>1, <1>2, <1>3, <1>8 DEF TransportKept, RecordInv, Scheduler!Outstanding, Scheduler!InState

LEMMA SetLastTtlKeeps ==
  ASSUME RecordInv, NEW ttl, NEW at, SetLastTtl(ttl, at)
  PROVE  TransportKept
<1>1. UNCHANGED << records_, sequence_, epoch_ >>
  BY DEF SetLastTtl, Scheduler!set_last_ttl, scheduler_vars
<1>. QED
  BY <1>1, RecordsUnchanged

-----------------------------------------------------------------------------
\* Steps that touch neither a request nor the queue.
Quiet ==
  /\ TransportKept
  /\ UNCHANGED << requests, batch, ready >>
  /\ pc' = pc \/ pc # "complete" \/ batch = << >>

LEMMA QuietStep == LoopInv /\ Quiet => LoopInv'
<1>. SUFFICES ASSUME LoopInv, Quiet PROVE LoopInv'
  OBVIOUS
<1>1. RecordInv'
  BY DEF Quiet, TransportKept
<1>2. RequestMap' /\ QueueInv'
  BY DEF LoopInv, Quiet, RequestMap, QueueInv, NoRepeats, Disjoint, Occurs
<1>3. RequestsMatchRecords'
  BY DEF LoopInv, Quiet, RequestsMatchRecords, TransportKept
<1>4. BatchIsHandled'
  BY DEF LoopInv, Quiet, BatchIsHandled
<1>. QED
  BY <1>1, <1>2, <1>3, <1>4 DEF LoopInv

LEMMA AdoptKeeps ==
  ASSUME RecordInv, AdoptEpoch
  PROVE  TransportKept
<1>1. CASE UNCHANGED scheduler_vars
  BY <1>1, RecordsUnchanged DEF scheduler_vars
<1>2. CASE Scheduler!restart(data_epoch)
  BY <1>2, RestartKeeps
<1>. QED
  BY <1>1, <1>2 DEF AdoptEpoch

\* The results go from the queue to the batch, which was empty.
LEMMA DrainStep == LoopInv /\ Drain => LoopInv'
<1>. SUFFICES ASSUME LoopInv, Drain PROVE LoopInv'
  OBVIOUS
<1>1. /\ pc = "epoch" /\ pc' = "complete" /\ AdoptEpoch
      /\ batch' = ready /\ ready' = << >> /\ requests' = requests
  BY DEF Drain
<1>2. batch = << >>
  BY <1>1 DEF LoopInv, BatchIsHandled
<1>3. TransportKept
  BY <1>1, AdoptKeeps DEF LoopInv
<1>4. RecordInv' /\ RequestMap' /\ RequestsMatchRecords' /\ BatchIsHandled'
  BY <1>1, <1>3 DEF LoopInv, RequestMap, RequestsMatchRecords, TransportKept, BatchIsHandled
<1>5. << >> \in Seq(DOMAIN requests) /\ Len(<< >>) = 0
  OBVIOUS
<1>6. NoRepeats(ready) /\ NoRepeats(<< >>) /\ Disjoint(ready, << >>)
  BY <1>5 DEF LoopInv, QueueInv, NoRepeats, Disjoint
<1>7. \A s : ~Occurs(s, << >>)
  BY <1>5 DEF Occurs
<1>8. /\ ready \in Seq(DOMAIN requests)
      /\ \A s \in DOMAIN requests :
           requests[s].stage = "pushed" <=> Occurs(s, ready)
  BY <1>2, <1>7 DEF LoopInv, QueueInv
<1>9. QueueInv'
  <2>1. NoRepeats(batch') /\ NoRepeats(ready') /\ Disjoint(batch', ready')
    BY <1>1, <1>6
  <2>2. batch' \in Seq(DOMAIN requests') /\ ready' \in Seq(DOMAIN requests')
    BY <1>1, <1>5, <1>8
  <2>3. \A s \in DOMAIN requests' :
          requests'[s].stage = "pushed" <=> (Occurs(s, batch') \/ Occurs(s, ready'))
    BY <1>1, <1>7, <1>8
  <2>. QED
    BY <2>1, <2>2, <2>3 DEF QueueInv, NoRepeats, Disjoint, Occurs
<1>. QED
  BY <1>4, <1>9 DEF LoopInv

\* A sequence is over every set its elements are in.
LEMMA SequenceNarrows ==
  ASSUME NEW S, NEW T, NEW x \in Seq(S), \A i \in 1 .. Len(x) : x[i] \in T
  PROVE  x \in Seq(T)
<1>1. x \in [1 .. Len(x) -> T] /\ Len(x) \in Nat
  OBVIOUS
<1>. QED
  BY <1>1, SeqDef

\* The first result of the batch is handled, and its request is given up.
LEMMA CompleteStep == LoopInv /\ Complete => LoopInv'
<1>. SUFFICES ASSUME LoopInv, Complete PROVE LoopInv'
  OBVIOUS
<1>. DEFINE s == Head(batch)
            q == Tail(batch)
<1>1. /\ pc = "complete" /\ pc' = pc /\ batch # << >>
      /\ requests' = [r \in DOMAIN requests \ {s} |-> requests[r]]
      /\ batch' = q /\ ready' = ready
  BY DEF Complete
<1>2. /\ records_' = [r \in DOMAIN records_ \ {s} |-> records_[r]]
      /\ sequence_' = sequence_ /\ epoch_' = epoch_
  BY DEF Complete, Scheduler!complete, Scheduler!Without, Scheduler!plan
<1>3. RecordInv'
  BY <1>2 DEF LoopInv, RecordInv, RecordMap, NumbersAreFresh, ReservationsAreCurrent
<1>4. RequestMap' /\ RequestsMatchRecords' /\ BatchIsHandled'
  <2>1. (Scheduler!Outstanding)' = Scheduler!Outstanding \ {s}
    BY <1>2 DEF Scheduler!Outstanding
  <2>2. RequestsMatchRecords'
    BY <1>1, <1>2, <2>1 DEF LoopInv, RequestsMatchRecords, Scheduler!Outstanding
  <2>. QED
    BY <1>1, <2>2 DEF LoopInv, RequestMap, BatchIsHandled
<1>5. /\ batch \in Seq(DOMAIN requests) /\ ready \in Seq(DOMAIN requests)
      /\ NoRepeats(batch) /\ NoRepeats(ready) /\ Disjoint(batch, ready)
  BY DEF LoopInv, QueueInv
<1>6. /\ q \in Seq(DOMAIN requests) /\ Len(q) = Len(batch) - 1 /\ Len(batch) \in Nat
      /\ Len(batch) >= 1 /\ s = batch[1]
      /\ \A i \in 1 .. Len(q) : q[i] = batch[i + 1]
  BY <1>1, <1>5
<1>. HIDE DEF s, q
<1>7. NoRepeats(q)
  BY <1>5, <1>6 DEF NoRepeats
<1>8. /\ \A i \in 1 .. Len(q) : q[i] # s
      /\ \A i \in 1 .. Len(ready) : ready[i] # s
  BY <1>5, <1>6 DEF NoRepeats, Disjoint
<1>9. Disjoint(q, ready)
  BY <1>5, <1>6 DEF Disjoint
<1>10. \A r : r # s => (Occurs(r, q) <=> Occurs(r, batch))
  <2>. SUFFICES ASSUME NEW r, r # s PROVE Occurs(r, q) <=> Occurs(r, batch)
    OBVIOUS
  <2>1. ASSUME Occurs(r, q) PROVE Occurs(r, batch)
    BY <1>6, <2>1 DEF Occurs
  <2>2. ASSUME Occurs(r, batch) PROVE Occurs(r, q)
    <3>1. PICK i \in 1 .. Len(batch) : batch[i] = r
      BY <2>2 DEF Occurs
    <3>2. i # 1 /\ i - 1 \in 1 .. Len(q)
      BY <1>6, <3>1
    <3>3. q[i - 1] = batch[(i - 1) + 1] /\ (i - 1) + 1 = i
      BY <1>6, <3>2
    <3>. QED
      BY <3>1, <3>2, <3>3 DEF Occurs
  <2>. QED
    BY <2>1, <2>2
<1>11. q \in Seq(DOMAIN requests \ {s}) /\ ready \in Seq(DOMAIN requests \ {s})
  <2>1. \A i \in 1 .. Len(q) : q[i] \in DOMAIN requests \ {s}
    BY <1>6, <1>8, ElementOfSeq
  <2>2. \A i \in 1 .. Len(ready) : ready[i] \in DOMAIN requests \ {s}
    BY <1>5, <1>8, ElementOfSeq
  <2>. QED
    BY <1>5, <1>6, <2>1, <2>2, SequenceNarrows
<1>12. DOMAIN requests' = DOMAIN requests \ {s}
  BY <1>1
<1>13. QueueInv'
  <2>1. \A r \in DOMAIN requests' :
          requests'[r].stage = "pushed" <=> (Occurs(r, batch') \/ Occurs(r, ready'))
    BY <1>1, <1>10, <1>12 DEF LoopInv, QueueInv
  <2>2. NoRepeats(batch') /\ NoRepeats(ready') /\ Disjoint(batch', ready')
    BY <1>1, <1>5, <1>7, <1>9
  <2>3. batch' \in Seq(DOMAIN requests') /\ ready' \in Seq(DOMAIN requests')
    BY <1>1, <1>11, <1>12
  <2>. QED
    BY <2>1, <2>2, <2>3 DEF QueueInv, NoRepeats, Disjoint, Occurs
<1>. QED
  BY <1>3, <1>4, <1>13 DEF LoopInv

\* Two fields of a record are replaced.
LEMMA RecordExcept ==
  ASSUME NEW r, NEW state, NEW deadline,
         r = [ ttl |-> r.ttl, epoch |-> r.epoch, state |-> r.state,
               deadline |-> r.deadline ]
  PROVE  [[r EXCEPT !.state = state] EXCEPT !.deadline = deadline]
           = [ ttl |-> r.ttl, epoch |-> r.epoch, state |-> state,
               deadline |-> deadline ]
<1>1. DOMAIN r = { "ttl", "epoch", "state", "deadline" }
  OBVIOUS
<1>2. [[r EXCEPT !.state = state] EXCEPT !.deadline = deadline]
        = [c \in { "ttl", "epoch", "state", "deadline" } |->
             IF c = "state" THEN state ELSE IF c = "deadline" THEN deadline ELSE r[c]]
  BY <1>1
<1>. QED
  BY <1>2

\* A slot that is sent becomes a request and leaves the reservations.
LEMMA SendStep == LoopInv /\ Issue /\ IssueSends => LoopInv'
<1>. SUFFICES ASSUME LoopInv, Issue, IssueSends PROVE LoopInv'
  OBVIOUS
<1>1. /\ pc = "issue" /\ batch' = batch /\ ready' = ready
      /\ requests' = [s \in DOMAIN requests \cup {Slot} |->
           IF s = Slot THEN scheduled_probe(SlotTtl, epoch_) ELSE requests[s]]
  BY DEF Issue, IssueSends
<1>2. /\ Slot \in DOMAIN records_ /\ records_[Slot].state = "reserved"
      /\ records_' = [records_ EXCEPT ![Slot].state = "issued",
                        ![Slot].deadline = now + Scheduler!config_.timeout_ms]
      /\ sequence_' = sequence_ /\ epoch_' = epoch_
  BY DEF IssueSends, Scheduler!mark_issued, Scheduler!Unreserve, Scheduler!InState,
         Scheduler!plan
<1>3. /\ DOMAIN records_' = DOMAIN records_
      /\ \A s \in DOMAIN records_ \ {Slot} : records_'[s] = records_[s]
      /\ records_'[Slot] = [ ttl |-> records_[Slot].ttl, epoch |-> records_[Slot].epoch,
                             state |-> "issued",
                             deadline |-> now + Scheduler!config_.timeout_ms ]
  <2>1. /\ DOMAIN records_' = DOMAIN records_
        /\ \A s \in DOMAIN records_ \ {Slot} : records_'[s] = records_[s]
        /\ records_'[Slot] = [[records_[Slot] EXCEPT !.state = "issued"]
              EXCEPT !.deadline = now + Scheduler!config_.timeout_ms]
    BY <1>2 DEF LoopInv, RecordInv, RecordMap
  <2>. QED
    BY <1>2, <2>1, RecordExcept DEF LoopInv, RecordInv, RecordMap
<1>4. RecordMap'
  BY <1>2, <1>3 DEF LoopInv, RecordInv, RecordMap
<1>5. NumbersAreFresh'
  BY <1>2, <1>3 DEF LoopInv, RecordInv, NumbersAreFresh
<1>6. Slot \notin DOMAIN requests /\ DOMAIN requests = Scheduler!Outstanding
  BY <1>2 DEF LoopInv, RequestsMatchRecords, Scheduler!Outstanding
<1>7. (Scheduler!Outstanding)' = Scheduler!Outstanding \cup {Slot}
  BY <1>2, <1>3 DEF Scheduler!Outstanding
<1>8. /\ DOMAIN requests' = DOMAIN requests \cup {Slot}
      /\ \A s \in DOMAIN requests : requests'[s] = requests[s]
      /\ requests'[Slot] =
           [ ttl |-> SlotTtl, epoch |-> epoch_, stage |-> "running",
             kind |-> "local_error", destination |-> FALSE, completed_at |-> 0 ]
  BY <1>1, <1>6 DEF scheduled_probe
<1>9. RequestMap'
  BY <1>1, <1>8 DEF LoopInv, RequestMap
<1>10. ReservationsAreCurrent'
  BY <1>2, <1>3 DEF LoopInv, RecordInv, ReservationsAreCurrent
<1>11. RequestsMatchRecords'
  <2>1. records_[Slot].epoch = epoch_ /\ SlotTtl = records_[Slot].ttl
    BY <1>2 DEF LoopInv, RecordInv, ReservationsAreCurrent, SlotTtl
  <2>2. requests'[Slot].ttl = records_'[Slot].ttl /\ requests'[Slot].epoch = records_'[Slot].epoch
    BY <1>3, <1>8, <2>1
  <2>3. \A s \in DOMAIN requests :
          requests'[s].ttl = records_'[s].ttl /\ requests'[s].epoch = records_'[s].epoch
    BY <1>3, <1>6, <1>8 DEF LoopInv, RequestsMatchRecords, Scheduler!Outstanding
  <2>. QED
    BY <1>6, <1>7, <1>8, <2>2, <2>3 DEF RequestsMatchRecords
<1>12. QueueInv'
  <2>1. /\ batch \in Seq(DOMAIN requests) /\ ready \in Seq(DOMAIN requests)
        /\ NoRepeats(batch) /\ NoRepeats(ready) /\ Disjoint(batch, ready)
        /\ \A s \in DOMAIN requests :
             requests[s].stage = "pushed" <=> (Occurs(s, batch) \/ Occurs(s, ready))
    BY DEF LoopInv, QueueInv
  <2>2. batch' \in Seq(DOMAIN requests') /\ ready' \in Seq(DOMAIN requests')
    BY <1>1, <1>8, <2>1, SeqMonotonic
  <2>3. ~Occurs(Slot, batch) /\ ~Occurs(Slot, ready)
    BY <1>6, <2>1, ElementOfSeq DEF Occurs
  <2>4. requests'[Slot].stage = "running"
    BY <1>8
  <2>5. \A s \in DOMAIN requests' :
          requests'[s].stage = "pushed" <=> (Occurs(s, batch') \/ Occurs(s, ready'))
    BY <1>1, <1>8, <2>1, <2>3, <2>4
  <2>. QED
    <3>1. NoRepeats(batch') /\ NoRepeats(ready') /\ Disjoint(batch', ready')
      BY <1>1, <2>1
    <3>. QED
      BY <2>2, <2>5, <3>1 DEF QueueInv, NoRepeats, Disjoint, Occurs
<1>. QED
  BY <1>1, <1>4, <1>5, <1>9, <1>10, <1>11, <1>12
     DEF LoopInv, RecordInv, BatchIsHandled

\* An answer replaces four fields of a request.
LEMMA RequestExcept ==
  ASSUME NEW r, NEW stage, NEW kind, NEW destination, NEW at,
         r = [ ttl |-> r.ttl, epoch |-> r.epoch, stage |-> r.stage, kind |-> r.kind,
               destination |-> r.destination, completed_at |-> r.completed_at ]
  PROVE  [r EXCEPT !.stage = stage, !.kind = kind, !.destination = destination,
                   !.completed_at = at]
           = [ ttl |-> r.ttl, epoch |-> r.epoch, stage |-> stage, kind |-> kind,
               destination |-> destination, completed_at |-> at ]
<1>1. DOMAIN r = { "ttl", "epoch", "stage", "kind", "destination", "completed_at" }
  OBVIOUS
<1>2. [r EXCEPT !.stage = stage, !.kind = kind, !.destination = destination,
                !.completed_at = at]
        = [c \in { "ttl", "epoch", "stage", "kind", "destination", "completed_at" } |->
             IF c = "stage" THEN stage ELSE IF c = "kind" THEN kind
             ELSE IF c = "destination" THEN destination
             ELSE IF c = "completed_at" THEN at ELSE r[c]]
  BY <1>1
<1>. QED
  BY <1>2

\* The answer to a request and its time are noted.
LEMMA AnswerStep == \A s : LoopInv /\ Answer(s) => LoopInv'
<1>. SUFFICES ASSUME NEW s, LoopInv, Answer(s) PROVE LoopInv'
  OBVIOUS
<1>1. /\ s \in DOMAIN requests /\ requests[s].stage = "running"
      /\ UNCHANGED << records_, sequence_, epoch_, pc, batch, ready >>
  BY DEF Answer, WorkersKeep, scheduler_vars
<1>2. PICK kind, destination :
        requests' = [requests EXCEPT ![s] =
            [@ EXCEPT !.stage = "answered", !.kind = kind,
                      !.destination = destination, !.completed_at = clock]]
  BY DEF Answer
<1>3. /\ DOMAIN requests' = DOMAIN requests
      /\ \A r \in DOMAIN requests \ {s} : requests'[r] = requests[r]
      /\ requests'[s] =
           [ ttl |-> requests[s].ttl, epoch |-> requests[s].epoch, stage |-> "answered",
             kind |-> kind, destination |-> destination, completed_at |-> clock ]
  <2>. DEFINE r == requests[s]
  <2>1. r = [ ttl |-> r.ttl, epoch |-> r.epoch, stage |-> r.stage, kind |-> r.kind,
              destination |-> r.destination, completed_at |-> r.completed_at ]
    BY <1>1 DEF LoopInv, RequestMap
  <2>2. requests'[s] = [r EXCEPT !.stage = "answered", !.kind = kind,
                          !.destination = destination, !.completed_at = clock]
    BY <1>1, <1>2
  <2>3. /\ DOMAIN requests' = DOMAIN requests
        /\ \A q \in DOMAIN requests \ {s} : requests'[q] = requests[q]
    BY <1>1, <1>2 DEF LoopInv, RequestMap
  <2>. HIDE DEF r
  <2>4. requests'[s] =
           [ ttl |-> r.ttl, epoch |-> r.epoch, stage |-> "answered",
             kind |-> kind, destination |-> destination, completed_at |-> clock ]
    BY <2>1, <2>2, RequestExcept
  <2>. QED
    BY <2>3, <2>4 DEF r
<1>4. RequestMap'
  BY <1>2, <1>3 DEF LoopInv, RequestMap
<1>5. RequestsMatchRecords'
  BY <1>1, <1>3 DEF LoopInv, RequestsMatchRecords, Scheduler!Outstanding
<1>6. \A r \in DOMAIN requests :
        requests'[r].stage = "pushed" <=> requests[r].stage = "pushed"
  BY <1>1, <1>3
<1>7. QueueInv'
  BY <1>1, <1>3, <1>6 DEF LoopInv, QueueInv, NoRepeats, Disjoint, Occurs
<1>8. RecordInv' /\ BatchIsHandled'
  BY <1>1, RecordsUnchanged DEF LoopInv, TransportKept, BatchIsHandled
<1>. QED
  BY <1>4, <1>5, <1>7, <1>8 DEF LoopInv

\* An answered request is put into the queue, where it was not before.
LEMMA PushStep == \A s : LoopInv /\ Push(s) => LoopInv'
<1>. SUFFICES ASSUME NEW s, LoopInv, Push(s) PROVE LoopInv'
  OBVIOUS
<1>1. /\ s \in DOMAIN requests /\ requests[s].stage = "answered"
      /\ requests' = [requests EXCEPT ![s].stage = "pushed"]
      /\ ready' = Append(ready, s)
      /\ UNCHANGED << records_, sequence_, epoch_, pc, batch >>
  BY DEF Push, WorkersKeep, scheduler_vars
<1>2. /\ DOMAIN requests' = DOMAIN requests
      /\ \A r \in DOMAIN requests \ {s} : requests'[r] = requests[r]
      /\ requests'[s] =
           [ ttl |-> requests[s].ttl, epoch |-> requests[s].epoch, stage |-> "pushed",
             kind |-> requests[s].kind, destination |-> requests[s].destination,
             completed_at |-> requests[s].completed_at ]
  BY <1>1 DEF LoopInv, RequestMap
<1>3. RequestMap'
  BY <1>1, <1>2 DEF LoopInv, RequestMap
<1>4. RequestsMatchRecords'
  BY <1>1, <1>2 DEF LoopInv, RequestsMatchRecords, Scheduler!Outstanding
<1>5. RecordInv' /\ BatchIsHandled'
  BY <1>1, RecordsUnchanged DEF LoopInv, TransportKept, BatchIsHandled
<1>6. /\ batch \in Seq(DOMAIN requests) /\ ready \in Seq(DOMAIN requests)
      /\ NoRepeats(batch) /\ NoRepeats(ready) /\ Disjoint(batch, ready)
      /\ ~Occurs(s, batch) /\ ~Occurs(s, ready)
      /\ \A r \in DOMAIN requests :
           requests[r].stage = "pushed" <=> (Occurs(r, batch) \/ Occurs(r, ready))
  BY <1>1 DEF LoopInv, QueueInv
<1>7. /\ ready' \in Seq(DOMAIN requests) /\ Len(ready') = Len(ready) + 1
      /\ Len(ready) \in Nat /\ ready'[Len(ready) + 1] = s
      /\ \A i \in 1 .. Len(ready) : ready'[i] = ready[i]
  BY <1>1, <1>6
<1>8. NoRepeats(ready') /\ Disjoint(batch, ready')
  <2>1. \A i \in 1 .. Len(ready') : i \in 1 .. Len(ready) \/ i = Len(ready) + 1
    BY <1>7
  <2>2. \A i \in 1 .. Len(ready) : ready[i] # s
    BY <1>6 DEF Occurs
  <2>3. \A i \in 1 .. Len(batch) : batch[i] # s
    BY <1>6 DEF Occurs
  <2>4. NoRepeats(ready')
    BY <1>6, <1>7, <2>1, <2>2 DEF NoRepeats
  <2>5. Disjoint(batch, ready')
    BY <1>6, <1>7, <2>1, <2>3 DEF Disjoint
  <2>. QED
    BY <2>4, <2>5
<1>9. \A r : Occurs(r, ready') <=> (r = s \/ Occurs(r, ready))
  BY <1>7 DEF Occurs
<1>10. QueueInv'
  <2>1. \A r \in DOMAIN requests' :
          requests'[r].stage = "pushed" <=> (Occurs(r, batch') \/ Occurs(r, ready'))
    BY <1>1, <1>2, <1>6, <1>9
  <2>2. /\ batch' \in Seq(DOMAIN requests') /\ ready' \in Seq(DOMAIN requests')
        /\ NoRepeats(batch') /\ NoRepeats(ready') /\ Disjoint(batch', ready')
    BY <1>1, <1>2, <1>6, <1>7, <1>8
  <2>. QED
    BY <2>1, <2>2 DEF QueueInv, NoRepeats, Disjoint, Occurs
<1>. QED
  BY <1>3, <1>4, <1>5, <1>10 DEF LoopInv

-----------------------------------------------------------------------------
\* The inductive invariant

LEMMA LoopInitInv == Init => LoopInv
<1>. SUFFICES ASSUME Init PROVE LoopInv
  OBVIOUS
<1>1. /\ records_ = << >> /\ requests = << >> /\ batch = << >> /\ ready = << >>
      /\ sequence_ = 0
  BY DEF Init, Scheduler!Init
<1>2. DOMAIN records_ = {} /\ DOMAIN requests = {}
  BY <1>1
<1>3. RecordInv /\ RequestMap
  BY <1>1, <1>2 DEF RecordInv, RecordMap, NumbersAreFresh, ReservationsAreCurrent, RequestMap
<1>4. RequestsMatchRecords
  BY <1>2 DEF RequestsMatchRecords, Scheduler!Outstanding
<1>5. Len(batch) = 0 /\ Len(ready) = 0 /\ << >> \in Seq(DOMAIN requests)
  BY <1>1
<1>6. QueueInv
  BY <1>1, <1>2, <1>5 DEF QueueInv, NoRepeats, Disjoint, Occurs
<1>. QED
  BY <1>1, <1>3, <1>4, <1>6 DEF LoopInv, BatchIsHandled

\* Every step of the loop but three is quiet.
LEMMA QuietLoopSteps ==
  ASSUME LoopInv,
         \/ ReadClock \/ FollowDestination \/ CheckStop \/ Expire \/ Grace \/ Reserve
         \/ (Issue /\ ~IssueSends) \/ Refresh \/ CheckQuota \/ Exit \/ Wake
  PROVE  Quiet
<1>. RecordInv
  BY DEF LoopInv
<1>1. CASE ReadClock
  BY <1>1, RecordsUnchanged DEF ReadClock, Quiet
<1>2. CASE FollowDestination
  BY <1>2, SetLastTtlKeeps DEF FollowDestination, Quiet
<1>3. CASE CheckStop
  <2>1. CASE Scheduler!begin_drain
    BY <1>3, <2>1, BeginDrainKeeps DEF CheckStop, Quiet
  <2>2. CASE UNCHANGED scheduler_vars
    BY <1>3, <2>2, RecordsUnchanged DEF CheckStop, Quiet, scheduler_vars
  <2>. QED
    BY <1>3, <2>1, <2>2 DEF CheckStop
<1>4. CASE Expire
  <2>1. CASE Scheduler!expire
    BY <1>4, <2>1, ExpireKeeps DEF Expire, Quiet
  <2>2. CASE UNCHANGED scheduler_vars
    BY <1>4, <2>2, RecordsUnchanged DEF Expire, Quiet, scheduler_vars
  <2>. QED
    BY <1>4, <2>1, <2>2 DEF Expire
<1>5. CASE Grace
  <2>1. CASE Scheduler!cancel_pending
    BY <1>5, <2>1, CancelKeeps DEF Grace, Quiet
  <2>2. CASE UNCHANGED scheduler_vars
    BY <1>5, <2>2, RecordsUnchanged DEF Grace, Quiet, scheduler_vars
  <2>. QED
    BY <1>5, <2>1, <2>2 DEF Grace
<1>6. CASE Reserve
  <2>1. CASE Scheduler!reserve_due
    BY <1>6, <2>1, ReserveKeeps DEF Reserve, Quiet
  <2>2. CASE UNCHANGED scheduler_vars
    BY <1>6, <2>2, RecordsUnchanged DEF Reserve, Quiet, scheduler_vars
  <2>. QED
    BY <1>6, <2>1, <2>2 DEF Reserve
<1>7. CASE Issue /\ ~IssueSends
  <2>1. CASE IssueCached
    BY <1>7, <2>1, DroppedKeeps DEF Issue, IssueCached, Quiet
  <2>2. CASE IssueFails
    BY <1>7, <2>2, DroppedKeeps DEF Issue, IssueFails, Quiet
  <2>. QED
    BY <1>7, <2>1, <2>2 DEF Issue
<1>8. CASE Refresh
  <2>1. CASE UNCHANGED scheduler_vars
    BY <1>8, <2>1, RecordsUnchanged DEF Refresh, Quiet, scheduler_vars
  <2>2. CASE SetLastTtl(Route!NextCeiling(Minimum), clock)
    BY <1>8, <2>2, SetLastTtlKeeps DEF Refresh, Quiet
  <2>. QED
    BY <1>8, <2>1, <2>2 DEF Refresh
<1>9. CASE CheckQuota
  <2>1. CASE Scheduler!begin_drain
    BY <1>9, <2>1, BeginDrainKeeps DEF CheckQuota, Quiet
  <2>2. CASE UNCHANGED scheduler_vars
    BY <1>9, <2>2, RecordsUnchanged DEF CheckQuota, Quiet, scheduler_vars
  <2>. QED
    BY <1>9, <2>1, <2>2 DEF CheckQuota
<1>10. CASE Exit
  BY <1>10, RecordsUnchanged DEF Exit, Quiet, scheduler_vars
<1>11. CASE Wake
  BY <1>11, RecordsUnchanged DEF Wake, Quiet, scheduler_vars
<1>. QED
  BY <1>1, <1>2, <1>3, <1>4, <1>5, <1>6, <1>7, <1>8, <1>9, <1>10, <1>11

\* So is what the user and the clock do.
LEMMA QuietOtherSteps ==
  ASSUME LoopInv, ResetHops \/ RequestStop \/ Tick \/ UNCHANGED vars
  PROVE  Quiet
<1>1. UNCHANGED << scheduler_vars, pc, requests, batch, ready >>
  BY DEF ResetHops, RequestStop, Tick, InterfaceKeeps, vars
<1>. QED
  BY <1>1, RecordsUnchanged DEF LoopInv, Quiet, scheduler_vars

LEMMA LoopInvStep == LoopInv /\ [Next]_vars => LoopInv'
<1>. SUFFICES ASSUME LoopInv, [Next]_vars PROVE LoopInv'
  OBVIOUS
<1>1. CASE Loop
  <2>1. CASE Drain
    BY <2>1, DrainStep
  <2>2. CASE Complete
    BY <2>2, CompleteStep
  <2>3. CASE Issue /\ IssueSends
    BY <2>3, SendStep
  <2>4. CASE \/ ReadClock \/ FollowDestination \/ CheckStop \/ Expire \/ Grace \/ Reserve
             \/ (Issue /\ ~IssueSends) \/ Refresh \/ CheckQuota \/ Exit \/ Wake
    BY <2>4, QuietLoopSteps, QuietStep
  <2>. QED
    BY <1>1, <2>1, <2>2, <2>3, <2>4 DEF Loop
<1>2. CASE \E s \in DOMAIN requests : Answer(s) \/ Push(s)
  BY <1>2, AnswerStep, PushStep
<1>3. CASE ResetHops \/ RequestStop \/ Tick \/ UNCHANGED vars
  BY <1>3, QuietOtherSteps, QuietStep
<1>. QED
  BY <1>1, <1>2, <1>3 DEF Next, Returned

\* Where a result is, by counting.
LEMMA QueuedOnce == LoopInv => RequestsAccounted
<1>. SUFFICES ASSUME LoopInv PROVE RequestsAccounted
  OBVIOUS
<1>. DEFINE q == batch \o ready
<1>1. /\ batch \in Seq(DOMAIN requests) /\ ready \in Seq(DOMAIN requests)
      /\ NoRepeats(batch) /\ NoRepeats(ready) /\ Disjoint(batch, ready)
      /\ \A s \in DOMAIN requests :
           requests[s].stage = "pushed" <=> (Occurs(s, batch) \/ Occurs(s, ready))
  BY DEF LoopInv, QueueInv
<1>2. /\ Len(q) = Len(batch) + Len(ready) /\ Len(batch) \in Nat /\ Len(ready) \in Nat
      /\ \A i \in 1 .. Len(batch) + Len(ready) :
           q[i] = IF i <= Len(batch) THEN batch[i] ELSE ready[i - Len(batch)]
  BY <1>1, ConcatProperties
<1>. HIDE DEF q
<1>3. NoRepeats(q)
  <2>. SUFFICES ASSUME NEW i \in 1 .. Len(q), NEW j \in 1 .. Len(q), q[i] = q[j]
                PROVE  i = j
    BY DEF NoRepeats
  <2>1. CASE i <= Len(batch) /\ j <= Len(batch)
    BY <1>1, <1>2, <2>1 DEF NoRepeats
  <2>2. CASE ~(i <= Len(batch)) /\ ~(j <= Len(batch))
    <3>1. i - Len(batch) \in 1 .. Len(ready) /\ j - Len(batch) \in 1 .. Len(ready)
      BY <1>2, <2>2
    <3>2. ready[i - Len(batch)] = ready[j - Len(batch)]
      BY <1>2, <2>2
    <3>3. \A k, l \in 1 .. Len(ready) : ready[k] = ready[l] => k = l
      BY <1>1 DEF NoRepeats
    <3>4. i - Len(batch) = j - Len(batch)
      BY <3>1, <3>2, <3>3
    <3>5. i \in Int /\ j \in Int /\ Len(batch) \in Int
      BY <1>2
    <3>. QED
      BY <3>4, <3>5
  <2>3. CASE i <= Len(batch) /\ ~(j <= Len(batch))
    <3>1. i \in 1 .. Len(batch) /\ j - Len(batch) \in 1 .. Len(ready)
      BY <1>2, <2>3
    <3>2. batch[i] = ready[j - Len(batch)]
      BY <1>2, <2>3
    <3>. QED
      BY <1>1, <3>1, <3>2 DEF Disjoint
  <2>4. CASE ~(i <= Len(batch)) /\ j <= Len(batch)
    <3>1. j \in 1 .. Len(batch) /\ i - Len(batch) \in 1 .. Len(ready)
      BY <1>2, <2>4
    <3>2. batch[j] = ready[i - Len(batch)]
      BY <1>2, <2>4
    <3>. QED
      BY <1>1, <3>1, <3>2 DEF Disjoint
  <2>. QED
    BY <2>1, <2>2, <2>3, <2>4
<1>4. \A s : Occurs(s, q) <=> (Occurs(s, batch) \/ Occurs(s, ready))
  <2>. SUFFICES ASSUME NEW s
                PROVE  Occurs(s, q) <=> (Occurs(s, batch) \/ Occurs(s, ready))
    OBVIOUS
  <2>1. ASSUME Occurs(s, q) PROVE Occurs(s, batch) \/ Occurs(s, ready)
    <3>1. PICK i \in 1 .. Len(q) : q[i] = s
      BY <2>1 DEF Occurs
    <3>2. CASE i <= Len(batch)
      BY <1>2, <3>1, <3>2 DEF Occurs
    <3>3. CASE ~(i <= Len(batch))
      <4>1. i - Len(batch) \in 1 .. Len(ready) /\ ready[i - Len(batch)] = s
        BY <1>2, <3>1, <3>3
      <4>. QED
        BY <4>1 DEF Occurs
    <3>. QED
      BY <3>2, <3>3
  <2>2. ASSUME Occurs(s, batch) PROVE Occurs(s, q)
    BY <1>2, <2>2 DEF Occurs
  <2>3. ASSUME Occurs(s, ready) PROVE Occurs(s, q)
    <3>1. PICK i \in 1 .. Len(ready) : ready[i] = s
      BY <2>3 DEF Occurs
    <3>2. Len(batch) + i \in 1 .. Len(q) /\ q[Len(batch) + i] = s
      BY <1>2, <3>1
    <3>. QED
      BY <3>2 DEF Occurs
  <2>. QED
    BY <2>1, <2>2, <2>3
<1>5. ASSUME NEW s \in DOMAIN requests
      PROVE  Cardinality({ i \in 1 .. Len(q) : q[i] = s })
               = IF requests[s].stage = "pushed" THEN 1 ELSE 0
  <2>1. CASE Occurs(s, q)
    <3>1. PICK i \in 1 .. Len(q) : q[i] = s
      BY <2>1 DEF Occurs
    <3>2. { j \in 1 .. Len(q) : q[j] = s } = { i }
      BY <1>3, <3>1 DEF NoRepeats
    <3>. QED
      BY <1>1, <1>4, <2>1, <3>2, FS_Singleton
  <2>2. CASE ~Occurs(s, q)
    <3>1. { j \in 1 .. Len(q) : q[j] = s } = {}
      BY <2>2 DEF Occurs
    <3>. QED
      BY <1>1, <1>4, <2>2, <3>1, FS_EmptySet
  <2>. QED
    BY <2>1, <2>2
<1>6. ResultsQueuedOnce
  BY <1>5 DEF ResultsQueuedOnce, q
<1>. QED
  BY <1>6 DEF LoopInv, RequestsAccounted

-----------------------------------------------------------------------------
\* Results

\* The invariant holds from the beginning of the trace to its end.
THEOREM LoopInvariant == Spec => []LoopInv
BY LoopInitInv, LoopInvStep, PTL DEF Spec

\* A request is kept exactly as long as the transport has it, and its result
\* waits in one place from the moment it is pushed until it is handled.
THEOREM RequestsAlwaysAccounted == Spec => []RequestsAccounted
BY LoopInvariant, QueuedOnce, PTL

\* complete() is never called for a token the scheduler does not know, nor for
\* a request whose callback may still write to it.
ResultsAreKnown ==
  batch # << >> => /\ Head(batch) \in Scheduler!Outstanding
                   /\ Head(batch) \in DOMAIN requests
                   /\ Request.stage = "pushed"

LEMMA HeadIsKnown == LoopInv => ResultsAreKnown
<1>. SUFFICES ASSUME LoopInv, batch # << >>
              PROVE  /\ Head(batch) \in Scheduler!Outstanding
                     /\ Head(batch) \in DOMAIN requests
                     /\ Request.stage = "pushed"
  BY DEF ResultsAreKnown
<1>1. batch \in Seq(DOMAIN requests)
  BY DEF LoopInv, QueueInv
<1>2. 1 \in 1 .. Len(batch) /\ Head(batch) = batch[1] /\ Head(batch) \in DOMAIN requests
  BY <1>1
<1>3. Occurs(Head(batch), batch)
  BY <1>2 DEF Occurs
<1>. QED
  BY <1>2, <1>3 DEF LoopInv, QueueInv, RequestsMatchRecords, Request

\* No result is handed to the scheduler that it does not know.
THEOREM ResultsAlwaysKnown == Spec => []ResultsAreKnown
BY LoopInvariant, HeadIsKnown, PTL

\* Once DoTrace() has returned no callback is left that could use what it
\* owned, and no result that nobody will take.
ReturnsOwningNothing ==
  pc = "finished" => requests = << >> /\ ready = << >> /\ batch = << >>

NoRequestsAtEnd == pc = "finished" => requests = << >>

LEMMA NoRequestsStep == NoRequestsAtEnd /\ [Next]_vars => NoRequestsAtEnd'
<1>. SUFFICES ASSUME NoRequestsAtEnd, [Next]_vars PROVE NoRequestsAtEnd'
  OBVIOUS
<1>1. CASE Loop
  <2>1. CASE Exit
    BY <2>1 DEF Exit, Idle, NoRequestsAtEnd
  <2>2. CASE ReadClock \/ Drain \/ CheckStop \/ Expire \/ Grace \/ Reserve
               \/ Issue \/ Refresh \/ CheckQuota \/ Wake
    BY <2>2 DEF ReadClock, Drain, CheckStop, Expire, Grace, Reserve, Issue, Refresh,
                CheckQuota, Wake, NoRequestsAtEnd
  <2>3. CASE Complete \/ FollowDestination
    BY <2>3 DEF Complete, FollowDestination, NoRequestsAtEnd
  <2>. QED
    BY <1>1, <2>1, <2>2, <2>3 DEF Loop
<1>2. CASE \E s \in DOMAIN requests : Answer(s) \/ Push(s)
  <2>1. PICK s \in DOMAIN requests : Answer(s) \/ Push(s)
    BY <1>2
  <2>2. pc' = pc
    BY <2>1 DEF Answer, Push, WorkersKeep
  <2>3. requests # << >>
    <3>1. DOMAIN << >> = {}
      OBVIOUS
    <3>. QED
      BY <3>1
  <2>. QED
    BY <2>2, <2>3 DEF NoRequestsAtEnd
<1>3. CASE ResetHops \/ RequestStop \/ Tick \/ UNCHANGED vars
  BY <1>3 DEF ResetHops, RequestStop, Tick, InterfaceKeeps, vars, NoRequestsAtEnd
<1>. QED
  BY <1>1, <1>2, <1>3 DEF Next, Returned

\* A trace that has returned leaves nothing behind that still runs.
THEOREM TraceReturnsOwningNothing == Spec => []ReturnsOwningNothing
<1>1. Init => NoRequestsAtEnd
  BY DEF Init, NoRequestsAtEnd
<1>2. LoopInv /\ NoRequestsAtEnd => ReturnsOwningNothing
  <2>. SUFFICES ASSUME LoopInv, NoRequestsAtEnd, pc = "finished"
                PROVE  requests = << >> /\ ready = << >> /\ batch = << >>
    BY DEF ReturnsOwningNothing
  <2>1. requests = << >> /\ DOMAIN requests = {}
    BY DEF NoRequestsAtEnd
  <2>2. batch \in Seq({}) /\ ready \in Seq({})
    BY <2>1 DEF LoopInv, QueueInv
  <2>3. \A q \in Seq({}) : q = << >>
    <3>1. \A q \in Seq({}) : q # << >> => q[1] \in {}
      BY EmptySeq, ElementOfSeq
    <3>. QED
      BY <3>1
  <2>. QED
    BY <2>1, <2>2, <2>3
<1>. QED
  BY <1>1, <1>2, LoopInvariant, NoRequestsStep, PTL DEF Spec

-----------------------------------------------------------------------------
\* The scheduler in the loop.  What is proved of ProbeScheduler is proved of the
\* loop's instance of it as well: Proved is that instance, with its theorems.

Proved == INSTANCE ProbeSchedulerSafetyProofs WITH
            Config      <- scheduler_config,
            MaxSequence <- MaxSlots,
            MaxSkipped  <- MaxSlots

LEMMA OptionFacts ==
  /\ Options.interval_ms \in Nat \ {0} /\ Options.timeout_ms \in Nat \ {0}
  /\ Options.start_ttl \in Nat \ {0} /\ Options.max_hops \in Nat
  /\ Options.start_ttl <= Options.max_hops
  /\ Options.minimum_ttl \in Nat /\ Options.minimum_ttl <= Options.max_hops
  /\ Options.grace_ms \in Nat /\ Options.unknown_host_limit \in Nat
  /\ Options.max_global_pps \in Nat /\ Options.cycles \in Nat /\ Options.reply_cache_ms \in Nat
BY TraceLoopAssumption DEF OptionFields

LEMMA ConfigIsLegal == Proved!SchedulerAssumption
<1>1. per_ttl_inflight \in Nat
  BY OptionFacts DEF per_ttl_inflight
<1>2. \A value \in Int : Clamp(128, 4096, value) \in Nat
  BY DEF Clamp
<1>3. /\ Options.max_hops * per_ttl_inflight \in Int
      /\ Options.max_hops * (per_ttl_inflight + 1) \in Int
  BY <1>1, OptionFacts
<1>4. scheduler_config \in [Proved!ConfigFields -> Nat]
  BY <1>1, <1>2, <1>3, OptionFacts DEF scheduler_config, Proved!ConfigFields
<1>5. MaxSlots \in Nat
  BY TraceLoopAssumption DEF MaxSlots
<1>. QED
  BY <1>4, <1>5, TraceLoopAssumption DEF Proved!SchedulerAssumption

LEMMA SameScheduler ==
  /\ Scheduler!Init <=> Proved!Init
  /\ [Scheduler!Next]_(Scheduler!vars) <=> [Proved!Next]_(Proved!vars)
<1>1. Scheduler!Init <=> Proved!Init
  BY Zenon DEF
       Scheduler!AtLeast, Scheduler!normalize, Scheduler!config_, Scheduler!TTL,
       Scheduler!CounterNames, Scheduler!ZeroCounters, Scheduler!Staggered, Scheduler!Init,
       Scheduler!Cardinality, Proved!AtLeast, Proved!normalize, Proved!config_, Proved!TTL,
       Proved!CounterNames, Proved!ZeroCounters, Proved!Staggered, Proved!Init,
       Proved!Cardinality
<1>2. Scheduler!Next <=> Proved!Next
  BY Zenon DEF
       Scheduler!AtLeast, Scheduler!normalize, Scheduler!config_, Scheduler!TTL,
       Scheduler!global_spacing_ms, Scheduler!CounterNames, Scheduler!ZeroCounters,
       Scheduler!CompletionKind, Scheduler!plan, Scheduler!InState, Scheduler!InStateAt,
       Scheduler!Outstanding, Scheduler!Without, Scheduler!Count, Scheduler!quota_reached,
       Scheduler!Staggered, Scheduler!retire_logical_state_for_epoch_change,
       Scheduler!restart, Scheduler!stop, Scheduler!DropReservations, Scheduler!begin_drain,
       Scheduler!cancel_pending, Scheduler!set_last_ttl, Scheduler!logical_full,
       Scheduler!transport_full, Scheduler!Full, Scheduler!Due, Scheduler!Before,
       Scheduler!Visited, Scheduler!Skipped, Scheduler!Chosen, Scheduler!NextSlotAfterNow,
       Scheduler!Noted, Scheduler!CanReserve, Scheduler!reserve_due, Scheduler!Unreserve,
       Scheduler!mark_issued, Scheduler!mark_issue_failed, Scheduler!mark_cached,
       Scheduler!Expired, Scheduler!expire, Scheduler!Disposition, Scheduler!Raised,
       Scheduler!Lowered, Scheduler!complete, Scheduler!Tick, Scheduler!Next,
       Scheduler!Cardinality, Proved!AtLeast, Proved!normalize, Proved!config_, Proved!TTL,
       Proved!global_spacing_ms, Proved!CounterNames, Proved!ZeroCounters,
       Proved!CompletionKind, Proved!plan, Proved!InState, Proved!InStateAt,
       Proved!Outstanding, Proved!Without, Proved!Count, Proved!quota_reached,
       Proved!Staggered, Proved!retire_logical_state_for_epoch_change, Proved!restart,
       Proved!stop, Proved!DropReservations, Proved!begin_drain, Proved!cancel_pending,
       Proved!set_last_ttl, Proved!logical_full, Proved!transport_full, Proved!Full,
       Proved!Due, Proved!Before, Proved!Visited, Proved!Skipped, Proved!Chosen,
       Proved!NextSlotAfterNow, Proved!Noted, Proved!CanReserve, Proved!reserve_due,
       Proved!Unreserve, Proved!mark_issued, Proved!mark_issue_failed, Proved!mark_cached,
       Proved!Expired, Proved!expire, Proved!Disposition, Proved!Raised, Proved!Lowered,
       Proved!complete, Proved!Tick, Proved!Next, Proved!Cardinality
<1>. QED
  BY <1>1, <1>2 DEF Scheduler!vars, Proved!vars

LEMMA SameSets ==
  /\ Scheduler!TTL = Proved!TTL /\ Scheduler!Outstanding = Proved!Outstanding
  /\ Scheduler!config_ = Proved!config_
  /\ \A st : Scheduler!InState(st) = Proved!InState(st)
  /\ \A st, t : Scheduler!InStateAt(st, t) = Proved!InStateAt(st, t)
  /\ Scheduler!WakeTimes = Proved!WakeTimes
  /\ Scheduler!CompletionKind = Proved!CompletionKind
BY Zenon DEF
       Scheduler!AtLeast, Scheduler!normalize, Scheduler!config_, Scheduler!TTL,
       Scheduler!Cardinality, Scheduler!Outstanding, Scheduler!InState, Scheduler!InStateAt,
       Scheduler!quota_reached, Scheduler!WakeTimes, Scheduler!CompletionKind,
       Proved!AtLeast, Proved!normalize, Proved!config_, Proved!TTL, Proved!Cardinality,
       Proved!Outstanding, Proved!InState, Proved!InStateAt, Proved!quota_reached,
       Proved!WakeTimes, Proved!CompletionKind

\* The hops of the trace.
LEMMA HopFacts ==
  /\ TTL = Options.start_ttl .. Options.max_hops /\ Route!Hops = TTL
  /\ Scheduler!config_.first_ttl = Options.start_ttl /\ Scheduler!config_.last_ttl = Options.max_hops
  /\ Route!config_.start_ttl = Options.start_ttl /\ Route!config_.max_hops = Options.max_hops
  /\ mandatory_ttl \in TTL
  /\ Route!config_.unknown_host_limit \in Nat /\ Route!config_.shrink_confirmations \in Nat
  /\ Route!config_.exploration_frontier_ttls \in Nat
<1>1. /\ Scheduler!config_.first_ttl = Options.start_ttl
      /\ Scheduler!config_.last_ttl = Options.max_hops
  BY OptionFacts DEF Scheduler!config_, Scheduler!normalize, Scheduler!AtLeast, scheduler_config
<1>2. /\ Route!config_.start_ttl = Options.start_ttl /\ Route!config_.max_hops = Options.max_hops
      /\ Route!config_.minimum_ttl = Options.minimum_ttl
      /\ Route!config_.unknown_host_limit \in Nat /\ Route!config_.shrink_confirmations \in Nat
      /\ Route!config_.exploration_frontier_ttls \in Nat
  BY OptionFacts, TraceLoopAssumption
  DEF Route!config_, Route!normalize, Route!Larger, Route!Smaller, route_config
<1>3. /\ TTL = Options.start_ttl .. Options.max_hops /\ Route!Hops = TTL
  BY <1>1, <1>2 DEF TTL, Scheduler!TTL, Route!Hops
<1>. QED
  BY <1>1, <1>2, <1>3, OptionFacts DEF mandatory_ttl, Route!mandatory_ttl, Route!Larger

LEMMA NormalCeilingInHops ==
  ASSUME Route!TypeOK
  PROVE  Route!normal_ceiling \in TTL
<1>. DEFINE low == Options.start_ttl
            high == Options.max_hops
            limit == Route!config_.unknown_host_limit
<1>1. /\ TTL = low .. high /\ low \in Nat /\ high \in Nat /\ limit \in Nat
      /\ Route!mandatory_ttl \in low .. high
      /\ Route!config_.start_ttl = low /\ Route!config_.max_hops = high
      /\ destination_ttl_ \in {0} \cup low .. high /\ highest_response_ttl_ \in {0} \cup low .. high
  BY HopFacts, OptionFacts DEF Route!TypeOK, mandatory_ttl
<1>. HIDE DEF low, high, limit
<1>. QED
  BY <1>1 DEF Route!normal_ceiling, Route!Larger, Route!Smaller, limit

LEMMA CeilingsInHops ==
  ASSUME Route!TypeOK
  PROVE  /\ Route!ceiling_after_cycle \in TTL
         /\ \A n : Route!NextCeiling(n) \in {0} \cup TTL
<1>1. Route!ceiling_after_cycle \in TTL
  BY NormalCeilingInHops, HopFacts DEF Route!TypeOK, Route!ceiling_after_cycle
<1>2. /\ TTL = Options.start_ttl .. Options.max_hops /\ Options.start_ttl \in Nat
      /\ Options.max_hops \in Nat /\ Route!config_.exploration_frontier_ttls \in Nat
      /\ Route!config_.max_hops = Options.max_hops
  BY HopFacts, OptionFacts
<1>. QED
  BY <1>1, <1>2 DEF Route!NextCeiling, Route!Smaller

LEMMA RouteResets ==
  ASSUME Route!reset
  PROVE  Route!TypeOK'
BY HopFacts, OptionFacts DEF Route!reset, Route!TypeOK

LEMMA RouteReplies ==
  ASSUME Route!TypeOK, NEW ttl, NEW destination, Route!note_reply(ttl, destination)
  PROVE  Route!TypeOK'
BY HopFacts, OptionFacts DEF Route!note_reply, Route!TypeOK, Route!Larger, Route!Smaller

LEMMA RouteCompletes ==
  ASSUME Route!TypeOK, NEW n, Route!complete_cycle(n)
  PROVE  Route!TypeOK'
<1>1. Route!normal_ceiling \in TTL /\ Route!ceiling_after_cycle \in TTL
  BY NormalCeilingInHops, CeilingsInHops
<1>2. Route!Confirmations \in Nat
  BY DEF Route!TypeOK, Route!Confirmations
<1>3. /\ stable_ceiling_' \in TTL /\ shrink_candidate_' \in {0} \cup TTL
      /\ shrink_confirmations_' \in Nat
      /\ highest_response_ttl_' \in {0} \cup TTL /\ destination_ttl_' \in {0} \cup TTL
  BY <1>1, <1>2, HopFacts DEF Route!complete_cycle, Route!TypeOK
<1>4. exploring_' \in BOOLEAN /\ initial_discovery_' \in BOOLEAN
  BY Zenon DEF Route!complete_cycle, Route!TypeOK, Route!Explores
<1>. QED
  BY <1>3, <1>4, HopFacts DEF Route!TypeOK

-----------------------------------------------------------------------------
\* The types the loop needs in order to call the scheduler as it may be called.

Places == { "top", "epoch", "complete", "expire", "grace", "reserve", "issue",
            "refresh", "quota", "exit", "wait", "finished" }

\* Between two passes the clock may run ahead of now, within one no more than
\* MaxLag.
ClockOK ==
  /\ pc \in Places
  /\ now \in Nat /\ clock \in now .. MaxNow
  /\ pc \notin { "top", "wait", "finished" } => clock <= now + MaxLag

EpochOK == epoch_ \in Nat /\ data_epoch \in epoch_ .. MaxEpoch

RequestsOK ==
  \A s \in DOMAIN requests :
    /\ requests[s].stage \in Stages /\ requests[s].kind \in Scheduler!CompletionKind
    /\ requests[s].destination \in BOOLEAN /\ requests[s].completed_at \in 0 .. clock

LoopTypes ==
  ClockOK /\ EpochOK /\ RequestsOK /\ pending_ttl \in {0} \cup TTL /\ Route!TypeOK

LoopUses == LoopInv /\ LoopTypes /\ Proved!IInv

LEMMA RecordFacts ==
  ASSUME Proved!IInv
  PROVE  /\ \A s \in DOMAIN records_ : records_[s].ttl \in TTL
         /\ \A s \in DOMAIN records_ : records_[s].epoch \in Nat /\ records_[s].deadline \in Nat
         /\ now \in 0 .. MaxNow /\ epoch_ \in Nat /\ sequence_ \in Nat
BY SameSets, TraceLoopAssumption DEF Proved!IInv, Proved!TypeOK, Proved!Records, TTL, MaxSlots

LEMMA RequestTtl ==
  ASSUME LoopInv, Proved!IInv
  PROVE  \A s \in DOMAIN requests : requests[s].ttl \in TTL /\ s \in DOMAIN records_
BY RecordFacts DEF LoopInv, RequestsMatchRecords, Scheduler!Outstanding

\* The clock and the place in the pass.
LEMMA ClockStep ==
  ASSUME ClockOK, [Next]_vars
  PROVE  ClockOK'
<1>. TraceLoopAssumption
  BY TraceLoopAssumption
<1>1. CASE ReadClock
  BY <1>1, TraceLoopAssumption DEF ReadClock, LoopKeeps, shared_vars, ClockOK, Places
<1>2. ASSUME now' = now, clock' = clock, pc' \in Places,
             pc \notin { "top", "wait", "finished" } \/ pc' \in { "top", "wait", "finished" }
      PROVE  ClockOK'
  BY <1>2, TraceLoopAssumption DEF ClockOK
<1>3. ASSUME AdoptEpoch \/ Scheduler!begin_drain \/ Scheduler!cancel_pending \/ Scheduler!expire
             \/ Scheduler!reserve_due \/ (\E ttl, at : SetLastTtl(ttl, at)) \/ UNCHANGED scheduler_vars
      PROVE  now' = now
  BY <1>3 DEF AdoptEpoch, Scheduler!begin_drain, Scheduler!cancel_pending, Scheduler!expire,
     Scheduler!reserve_due, SetLastTtl, Scheduler!set_last_ttl, Scheduler!restart, scheduler_vars
<1>4. CASE Drain
  BY <1>2, <1>3, <1>4 DEF Drain, LoopKeeps, shared_vars, Places
<1>5. CASE Complete
  BY <1>2, <1>5 DEF Complete, Scheduler!complete, LoopKeeps, shared_vars, ClockOK
<1>6. CASE FollowDestination
  BY <1>2, <1>3, <1>6 DEF FollowDestination, LoopKeeps, shared_vars, ClockOK
<1>7. CASE CheckStop \/ Expire \/ Grace \/ Reserve \/ CheckQuota
  BY <1>2, <1>3, <1>7 DEF CheckStop, Expire, Grace, Reserve, CheckQuota, LoopKeeps, shared_vars, Places
<1>8. CASE Refresh
  BY <1>2, <1>3, <1>8 DEF Refresh, LoopKeeps, shared_vars, Places
<1>9. CASE Issue
  <2>1. now' = now
    BY <1>9 DEF Issue, IssueCached, IssueFails, IssueSends, Scheduler!mark_cached,
       Scheduler!mark_issue_failed, Scheduler!mark_issued, Scheduler!Unreserve
  <2>. QED
    BY <1>2, <1>9, <2>1 DEF Issue, LoopKeeps, shared_vars, Places
<1>10. CASE Exit \/ Wake
  BY <1>2, <1>3, <1>10 DEF Exit, Wake, LoopKeeps, shared_vars, Places
<1>11. CASE \/ \E s \in DOMAIN requests : Answer(s) \/ Push(s)
            \/ ResetHops \/ RequestStop \/ UNCHANGED vars
  <2>1. UNCHANGED << scheduler_vars, pc, clock >>
    BY <1>11 DEF Answer, Push, WorkersKeep, ResetHops, RequestStop, InterfaceKeeps, vars, shared_vars
  <2>. QED
    BY <1>2, <1>3, <2>1 DEF ClockOK
<1>12. CASE Tick
  BY <1>12, TraceLoopAssumption DEF Tick, InterfaceKeeps, scheduler_vars, ClockOK
<1>. QED
  BY <1>1, <1>4, <1>5, <1>6, <1>7, <1>8, <1>9, <1>10, <1>11, <1>12 DEF Next, Loop, Returned

LEMMA EpochStep ==
  ASSUME EpochOK, [Next]_vars
  PROVE  EpochOK'
<1>1. ASSUME epoch_' = epoch_ \/ epoch_' = data_epoch, data_epoch' = data_epoch
      PROVE  EpochOK'
  BY <1>1, TraceLoopAssumption DEF EpochOK
<1>2. CASE ResetHops
  BY <1>2, TraceLoopAssumption DEF ResetHops, InterfaceKeeps, scheduler_vars, EpochOK
<1>3. ASSUME AdoptEpoch \/ Scheduler!begin_drain \/ Scheduler!cancel_pending \/ Scheduler!expire
             \/ Scheduler!reserve_due \/ (\E ttl, at : SetLastTtl(ttl, at)) \/ UNCHANGED scheduler_vars
      PROVE  epoch_' = epoch_ \/ epoch_' = data_epoch
  BY <1>3 DEF AdoptEpoch, Scheduler!begin_drain, Scheduler!cancel_pending, Scheduler!expire, Scheduler!plan,
     Scheduler!reserve_due, SetLastTtl, Scheduler!set_last_ttl, Scheduler!restart, scheduler_vars
<1>4. CASE ReadClock
  BY <1>1, <1>4 DEF ReadClock, LoopKeeps, shared_vars
<1>5. CASE Complete
  BY <1>1, <1>5 DEF Complete, Scheduler!complete, Scheduler!plan, LoopKeeps, shared_vars
<1>6. CASE Drain \/ FollowDestination \/ CheckStop \/ Expire \/ Grace \/ Reserve \/ CheckQuota
  BY <1>1, <1>3, <1>6 DEF Drain, FollowDestination, CheckStop, Expire, Grace, Reserve, CheckQuota,
     LoopKeeps, shared_vars
<1>8. CASE Refresh \/ Exit \/ Wake
  BY <1>1, <1>3, <1>8 DEF Refresh, Exit, Wake, LoopKeeps, shared_vars
<1>9. CASE Issue
  <2>1. epoch_' = epoch_
    BY <1>9 DEF Issue, IssueCached, IssueFails, IssueSends, Scheduler!mark_cached, Scheduler!plan,
       Scheduler!mark_issue_failed, Scheduler!mark_issued, Scheduler!Unreserve
  <2>. QED
    BY <1>1, <1>9, <2>1 DEF Issue, LoopKeeps, shared_vars
<1>11. CASE \/ \E s \in DOMAIN requests : Answer(s) \/ Push(s)
            \/ RequestStop \/ Tick \/ UNCHANGED vars
  <2>1. UNCHANGED << scheduler_vars, data_epoch >>
    BY <1>11 DEF Answer, Push, WorkersKeep, Tick, RequestStop, InterfaceKeeps, vars, shared_vars
  <2>. QED
    BY <1>1, <1>3, <2>1
<1>. QED
  BY <1>2, <1>4, <1>5, <1>6, <1>8, <1>9, <1>11 DEF Next, Loop, Returned

\* What the callbacks report.
LEMMA RequestsStep ==
  ASSUME LoopInv, ClockOK, RequestsOK, [Next]_vars
  PROVE  RequestsOK'
<1>1. ASSUME \A s \in DOMAIN requests' : s \in DOMAIN requests /\ requests'[s] = requests[s],
             clock' = clock \/ clock' = clock + 1
      PROVE  RequestsOK'
  <2>1. \A at \in 0 .. clock : at \in 0 .. clock'
    BY <1>1, TraceLoopAssumption DEF ClockOK
  <2>. QED
    BY <1>1, <2>1 DEF RequestsOK
<1>2. CASE Complete
  BY <1>1, <1>2 DEF Complete, LoopKeeps, shared_vars
<1>3. CASE Issue
  <2>1. CASE IssueSends
    <3>1. /\ requests' = [s \in DOMAIN requests \cup {Slot} |->
               IF s = Slot THEN scheduled_probe(SlotTtl, epoch_) ELSE requests[s]]
          /\ clock' = clock /\ 0 \in 0 .. clock
      BY <1>3, <2>1, TraceLoopAssumption DEF IssueSends, Issue, LoopKeeps, shared_vars, ClockOK
    <3>. QED
      BY <3>1 DEF RequestsOK, scheduled_probe, Stages, Scheduler!CompletionKind
  <2>2. CASE IssueCached \/ IssueFails
    BY <1>1, <1>3, <2>2 DEF Issue, IssueCached, IssueFails, LoopKeeps, shared_vars
  <2>. QED
    BY <1>3, <2>1, <2>2 DEF Issue
<1>4. ASSUME NEW s \in DOMAIN requests, Answer(s) PROVE RequestsOK'
  <2>1. PICK kind \in Scheduler!CompletionKind, destination \in BOOLEAN :
          requests' = [requests EXCEPT ![s] =
            [@ EXCEPT !.stage = "answered", !.kind = kind,
                      !.destination = destination, !.completed_at = clock]]
    BY <1>4 DEF Answer
  <2>2. requests'[s] = [ ttl |-> requests[s].ttl, epoch |-> requests[s].epoch, stage |-> "answered",
                         kind |-> kind, destination |-> destination, completed_at |-> clock ]
    BY <2>1, RequestExcept DEF LoopInv, RequestMap
  <2>3. clock' = clock /\ clock \in 0 .. clock
    BY <1>4, TraceLoopAssumption DEF Answer, WorkersKeep, shared_vars, ClockOK
  <2>. QED
    BY <2>1, <2>2, <2>3 DEF RequestsOK, Stages
<1>5. ASSUME NEW s \in DOMAIN requests, Push(s) PROVE RequestsOK'
  <2>1. requests' = [requests EXCEPT ![s].stage = "pushed"] /\ clock' = clock
    BY <1>5 DEF Push, WorkersKeep, shared_vars
  <2>2. requests'[s] =
          [ ttl |-> requests[s].ttl, epoch |-> requests[s].epoch, stage |-> "pushed",
            kind |-> requests[s].kind, destination |-> requests[s].destination,
            completed_at |-> requests[s].completed_at ]
    BY <2>1 DEF LoopInv, RequestMap
  <2>. QED
    BY <2>1, <2>2 DEF RequestsOK, Stages
<1>6. CASE \/ ReadClock \/ Drain \/ FollowDestination \/ CheckStop \/ Expire \/ Grace \/ Reserve
           \/ Refresh \/ CheckQuota
  BY <1>1, <1>6 DEF ReadClock, Drain, FollowDestination, CheckStop, Expire, Grace, Reserve, Refresh,
     CheckQuota, LoopKeeps, shared_vars
<1>7. CASE Exit \/ Wake \/ ResetHops \/ RequestStop \/ Tick \/ UNCHANGED vars
  BY <1>1, <1>7 DEF Exit, Wake, LoopKeeps, shared_vars, ResetHops, RequestStop, Tick, InterfaceKeeps,
     vars
<1>. QED
  BY <1>2, <1>3, <1>4, <1>5, <1>6, <1>7 DEF Next, Loop, Returned

LEMMA RouteSame ==
  ASSUME Route!TypeOK, UNCHANGED route_vars
  PROVE  Route!TypeOK'
BY DEF Route!TypeOK, route_vars

\* The route policy is told of hops of the trace only, and asks for no other.
LEMMA RouteStep ==
  ASSUME LoopUses, [Next]_vars
  PROVE  pending_ttl' \in {0} \cup TTL /\ Route!TypeOK'
<1>1. /\ pending_ttl \in {0} \cup TTL /\ Route!TypeOK
      /\ \A ttl \in TTL : Route!Larger(mandatory_ttl, ttl) \in TTL
  BY HopFacts DEF LoopUses, LoopTypes, Route!Larger
<1>2. CASE Drain
  <2>1. pending_ttl' = pending_ttl /\ (Route!reset \/ UNCHANGED route_vars)
    BY <1>2 DEF Drain, AdoptEpoch
  <2>. QED
    BY <1>1, <2>1, RouteResets, RouteSame
<1>3. CASE Complete
  <2>1. Request.ttl \in TTL
    <3>1. Head(batch) \in DOMAIN requests
      BY <1>3, HeadIsKnown DEF LoopUses, ResultsAreKnown, Complete
    <3>. QED
      BY <3>1, RequestTtl DEF LoopUses, Request
  <2>2. \/ UNCHANGED << route_vars, pending_ttl >>
        \/ /\ Route!note_reply(Request.ttl, Request.destination)
           /\ pending_ttl' = IF Request.destination
                             THEN Route!Larger(mandatory_ttl, Request.ttl) ELSE 0
    BY <1>3 DEF Complete, NoteReply
  <2>. QED
    BY <1>1, <2>1, <2>2, RouteReplies, RouteSame
<1>4. CASE Issue
  <2>1. SlotTtl \in TTL
    BY <1>4, RecordFacts DEF LoopUses, Issue, IssueCached, IssueFails, IssueSends, Slot, SlotTtl,
       Scheduler!mark_cached, Scheduler!mark_issue_failed, Scheduler!mark_issued, Scheduler!Unreserve,
       Scheduler!InState
  <2>2. \/ UNCHANGED << route_vars, pending_ttl >>
        \/ /\ Route!note_reply(SlotTtl, TRUE) \/ UNCHANGED route_vars
           /\ pending_ttl' = Route!Larger(mandatory_ttl, SlotTtl) \/ pending_ttl' = 0
    BY <1>4 DEF Issue, IssueCached, IssueFails, IssueSends
  <2>. QED
    BY <1>1, <2>1, <2>2, RouteReplies, RouteSame
<1>5. CASE Refresh
  <2>1. pending_ttl' = pending_ttl /\ (Route!complete_cycle(Minimum) \/ UNCHANGED route_vars)
    BY <1>5 DEF Refresh
  <2>. QED
    BY <1>1, <2>1, RouteCompletes, RouteSame
<1>6. CASE FollowDestination
  BY <1>1, <1>6, RouteSame DEF FollowDestination
<1>7. CASE \/ ReadClock \/ CheckStop \/ Expire \/ Grace \/ Reserve \/ CheckQuota \/ Exit \/ Wake
           \/ \E s \in DOMAIN requests : Answer(s) \/ Push(s)
           \/ ResetHops \/ RequestStop \/ Tick \/ UNCHANGED vars
  <2>1. UNCHANGED << route_vars, pending_ttl >>
    BY <1>7 DEF ReadClock, CheckStop, Expire, Grace, Reserve, CheckQuota, Exit, Wake, Answer, Push,
       WorkersKeep, ResetHops, RequestStop, Tick, InterfaceKeeps, vars
  <2>. QED
    BY <1>1, <2>1, RouteSame
<1>. QED
  BY <1>2, <1>3, <1>4, <1>5, <1>6, <1>7 DEF Next, Loop, Returned

-----------------------------------------------------------------------------
\* Every step of the loop uses the scheduler in a way it allows.

LEMMA RangeIsAllowed ==
  ASSUME ClockOK, NEW ttl \in {0} \cup TTL, NEW at \in now .. now + MaxLag, SetLastTtl(ttl, at)
  PROVE  [Scheduler!Next]_(Scheduler!vars)
<1>1. CASE UNCHANGED scheduler_vars
  BY <1>1 DEF scheduler_vars, Scheduler!vars
<1>2. CASE Scheduler!set_last_ttl(ttl, at)
  <2>1. ttl \in 0 .. Scheduler!config_.last_ttl + 1
    BY HopFacts, OptionFacts
  <2>. QED
    BY <1>2, <2>1 DEF Scheduler!Next
<1>. QED
  BY <1>1, <1>2 DEF SetLastTtl

LEMMA UsesStep ==
  ASSUME LoopUses, [Next]_vars
  PROVE  [Scheduler!Next]_(Scheduler!vars)
<1>1. /\ ClockOK /\ EpochOK /\ RequestsOK /\ now \in Nat /\ clock \in now .. MaxNow
      /\ pending_ttl \in {0} \cup TTL /\ Route!TypeOK
  BY DEF LoopUses, LoopTypes, ClockOK
<1>2. ASSUME UNCHANGED scheduler_vars PROVE UNCHANGED Scheduler!vars
  BY <1>2 DEF scheduler_vars, Scheduler!vars
<1>3. CASE ReadClock
  <2>1. CASE clock = now
    BY <1>2, <1>3, <2>1 DEF ReadClock, scheduler_vars
  <2>2. CASE clock # now
    <3>1. now' \in now + 1 .. MaxNow
      BY <1>1, <1>3, <2>2, TraceLoopAssumption DEF ReadClock
    <3>2. Scheduler!Tick
      BY <1>3, <3>1 DEF ReadClock, Scheduler!Tick, Scheduler!plan
    <3>. QED
      BY <3>2 DEF Scheduler!Next
  <2>. QED
    BY <2>1, <2>2
<1>4. CASE Drain
  <2>1. CASE UNCHANGED scheduler_vars
    BY <1>2, <2>1
  <2>2. CASE data_epoch # epoch_ /\ Scheduler!restart(data_epoch)
    <3>1. data_epoch \in epoch_ + 1 .. MaxEpoch
      BY <1>1, <2>2, TraceLoopAssumption DEF EpochOK
    <3>. QED
      BY <2>2, <3>1 DEF Scheduler!Next
  <2>. QED
    BY <1>4, <2>1, <2>2 DEF Drain, AdoptEpoch
<1>5. CASE Complete
  <2>1. Head(batch) \in DOMAIN requests /\ Head(batch) \in DOMAIN records_
    BY <1>5, HeadIsKnown, RequestTtl DEF LoopUses, ResultsAreKnown, Complete
  <2>2. Request.kind \in Scheduler!CompletionKind /\ Request.completed_at \in 0 .. now + MaxLag
    <3>1. clock <= now + MaxLag
      BY <1>1, <1>5 DEF ClockOK, Complete
    <3>2. Request.kind \in Scheduler!CompletionKind /\ Request.completed_at \in 0 .. clock
      BY <1>1, <2>1 DEF RequestsOK, Request
    <3>. QED
      BY <1>1, <3>1, <3>2, TraceLoopAssumption
  <2>3. Scheduler!complete(Head(batch), Request.kind, Request.completed_at)
    BY <1>5 DEF Complete
  <2>. QED
    BY <2>1, <2>2, <2>3 DEF Scheduler!Next
<1>6. CASE FollowDestination
  <2>1. now \in now .. now + MaxLag
    BY <1>1, TraceLoopAssumption
  <2>. QED
    BY <1>1, <1>6, <2>1, RangeIsAllowed DEF FollowDestination
<1>7. CASE Refresh
  <2>1. CASE UNCHANGED scheduler_vars
    BY <1>2, <2>1
  <2>2. CASE SetLastTtl(Route!NextCeiling(Minimum), clock)
    <3>1. clock \in now .. now + MaxLag
      BY <1>1, <1>7, TraceLoopAssumption DEF ClockOK, Refresh
    <3>2. Route!NextCeiling(Minimum) \in {0} \cup TTL
      BY <1>1, CeilingsInHops
    <3>. QED
      BY <1>1, <2>2, <3>1, <3>2, RangeIsAllowed
  <2>. QED
    BY <1>7, <2>1, <2>2 DEF Refresh
<1>8. CASE Issue
  BY <1>8 DEF Issue, IssueCached, IssueFails, IssueSends, Scheduler!Next, Scheduler!mark_cached,
     Scheduler!mark_issue_failed, Scheduler!mark_issued, Scheduler!Unreserve, Scheduler!InState
<1>9. CASE CheckStop \/ Expire \/ Grace \/ Reserve \/ CheckQuota
  <2>1. \/ Scheduler!begin_drain \/ Scheduler!expire \/ Scheduler!cancel_pending
        \/ Scheduler!reserve_due \/ UNCHANGED scheduler_vars
    BY <1>9 DEF CheckStop, Expire, Grace, Reserve, CheckQuota
  <2>. QED
    BY <1>2, <2>1 DEF Scheduler!Next
<1>10. CASE \/ Exit \/ Wake
            \/ \E s \in DOMAIN requests : Answer(s) \/ Push(s)
            \/ ResetHops \/ RequestStop \/ Tick \/ UNCHANGED vars
  <2>1. UNCHANGED scheduler_vars
    BY <1>10 DEF Exit, Wake, Answer, Push, WorkersKeep, ResetHops, RequestStop, Tick, InterfaceKeeps,
       vars
  <2>. QED
    BY <1>2, <2>1
<1>. QED
  BY <1>3, <1>4, <1>5, <1>6, <1>7, <1>8, <1>9, <1>10 DEF Next, Loop, Returned

LEMMA UsesInit ==
  ASSUME Init
  PROVE  LoopUses
<1>1. LoopInv
  BY LoopInitInv
<1>2. Proved!IInv
  BY SameScheduler, ConfigIsLegal, Proved!InitIInv DEF Init
<1>3. DOMAIN requests = {}
  BY DEF Init
<1>4. /\ pc = "top" /\ now = 0 /\ clock = 0 /\ epoch_ = FirstEpoch /\ data_epoch = FirstEpoch
      /\ pending_ttl = 0 /\ Route!Init
  BY DEF Init, Scheduler!Init
<1>5. ClockOK /\ EpochOK /\ RequestsOK
  BY <1>3, <1>4, TraceLoopAssumption DEF ClockOK, Places, EpochOK, RequestsOK
<1>6. Route!TypeOK
  BY <1>4, HopFacts, OptionFacts DEF Route!Init, Route!TypeOK
<1>. QED
  BY <1>1, <1>2, <1>4, <1>5, <1>6 DEF LoopUses, LoopTypes

LEMMA UsesKept ==
  ASSUME LoopUses, [Next]_vars
  PROVE  LoopUses'
<1>1. LoopInv'
  BY LoopInvStep DEF LoopUses
<1>2. LoopTypes'
  BY ClockStep, EpochStep, RequestsStep, RouteStep DEF LoopUses, LoopTypes
<1>3. Proved!IInv'
  BY UsesStep, SameScheduler, ConfigIsLegal, Proved!StepIInv DEF LoopUses
<1>. QED
  BY <1>1, <1>2, <1>3 DEF LoopUses

\* Whatever the user and the network do, the loop calls the scheduler with what
\* its methods require: a clock that does not run back, a TTL of the session and
\* tokens the scheduler has handed out.
THEOREM LoopUsesInvariant == Spec => []LoopUses
BY UsesInit, UsesKept, PTL DEF Spec

\* The loop calls the scheduler only in ways the scheduler allows: what is
\* proved of the scheduler for every client holds of the one it has.
THEOREM LoopRefinesScheduler == Spec => UsesScheduler
<1>1. Init => Scheduler!Init
  BY DEF Init
<1>. QED
  BY <1>1, UsesStep, LoopUsesInvariant, PTL DEF Spec, UsesScheduler, Scheduler!Spec

LEMMA SchedulerRuns == Spec => Proved!Spec
<1>1. Scheduler!Spec => Proved!Spec
  BY SameScheduler, PTL DEF Scheduler!Spec, Proved!Spec
<1>. QED
  BY <1>1, LoopRefinesScheduler, PTL DEF UsesScheduler

-----------------------------------------------------------------------------
\* What the scheduler's invariant says of the session, in the loop's words.

LEMMA SameCounts ==
  /\ \A S : Scheduler!Cardinality(S) = Cardinality(S) /\ Proved!Cardinality(S) = Cardinality(S)
  /\ \A S : Proved!IsFiniteSet(S) <=> IsFiniteSet(S)
BY Zenon DEF Scheduler!Cardinality, Proved!Cardinality, Cardinality, Proved!IsFiniteSet, IsFiniteSet

LEMMA CountFacts ==
  ASSUME Proved!IInv
  PROVE  /\ \A S \in SUBSET DOMAIN records_ : IsFiniteSet(S) /\ Cardinality(S) \in Nat
         /\ logical_inflight_ \in Nat /\ transport_outstanding_ \in Nat
         /\ logical_inflight_ = Cardinality(Scheduler!InState("issued"))
         /\ \A t \in TTL : counters[t]["in_flight"] = Cardinality(Scheduler!InStateAt("issued", t))
         /\ \A t \in TTL, c \in Scheduler!CounterNames : counters[t][c] \in Nat
<1>1. Proved!TypeOK /\ Proved!RecordsAccounted
  BY DEF Proved!IInv
<1>2. \A S \in SUBSET DOMAIN records_ : IsFiniteSet(S) /\ Cardinality(S) \in Nat
  BY <1>1, ConfigIsLegal, Proved!FiniteParts, SameCounts
<1>3. Scheduler!CounterNames = Proved!CounterNames
  BY DEF Scheduler!CounterNames, Proved!CounterNames
<1>4. \A t \in TTL, c \in Scheduler!CounterNames : counters[t][c] \in Nat
  BY <1>1, <1>3, SameSets DEF Proved!TypeOK, TTL
<1>. QED
  BY <1>1, <1>2, <1>4, SameSets, SameCounts DEF Proved!TypeOK, Proved!RecordsAccounted, TTL

LEMMA WakesAreTimes ==
  ASSUME Proved!IInv
  PROVE  Scheduler!WakeTimes \subseteq Nat
<1>1. Proved!TypeOK
  BY DEF Proved!IInv
<1>2. /\ next_global_send_at_ \in Nat /\ next_send_at \in [TTL -> Nat]
      /\ active_last_ttl_ \in TTL
  BY <1>1, SameSets DEF Proved!TypeOK, TTL
<1>3. \A s \in DOMAIN records_ : records_[s].deadline \in Nat
  BY RecordFacts
<1>4. Scheduler!config_.first_ttl .. active_last_ttl_ \subseteq TTL
  BY <1>2, HopFacts, OptionFacts
<1>5. \A t \in TTL : Scheduler!AtLeast(next_global_send_at_, next_send_at[t]) \in Nat
  BY <1>2 DEF Scheduler!AtLeast
<1>. QED
  BY <1>3, <1>4, <1>5 DEF Scheduler!WakeTimes, Scheduler!InState

\* A step makes the number of probes in flight grow only by sending one.
LEMMA InflightSteps ==
  ASSUME Proved!IInv, [Next]_vars, ~Issue
  PROVE  logical_inflight_' > 0 => logical_inflight_ > 0
<1>1. /\ logical_inflight_ \in Nat /\ logical_inflight_ = Cardinality(Scheduler!InState("issued"))
      /\ \A S \in SUBSET DOMAIN records_ : Cardinality(S) \in Nat
  BY CountFacts
<1>2. ASSUME AdoptEpoch \/ Scheduler!begin_drain \/ Scheduler!cancel_pending \/ Scheduler!expire
             \/ Scheduler!reserve_due \/ (\E ttl, at : SetLastTtl(ttl, at)) \/ UNCHANGED scheduler_vars
      PROVE  logical_inflight_' > 0 => logical_inflight_ > 0
  <2>1. \/ logical_inflight_' = logical_inflight_
        \/ logical_inflight_' = logical_inflight_ - Cardinality(Scheduler!InState("issued"))
        \/ logical_inflight_' = logical_inflight_ - Cardinality(Scheduler!Expired)
    BY <1>2, SameCounts DEF AdoptEpoch, Scheduler!begin_drain, Scheduler!cancel_pending,
       Scheduler!expire, Scheduler!reserve_due, SetLastTtl, Scheduler!set_last_ttl,
       Scheduler!restart, Scheduler!retire_logical_state_for_epoch_change, scheduler_vars
  <2>2. /\ Cardinality(Scheduler!InState("issued")) \in Nat /\ Cardinality(Scheduler!Expired) \in Nat
    BY <1>1 DEF Scheduler!Expired, Scheduler!InState
  <2>. QED
    BY <1>1, <2>1, <2>2
<1>3. CASE Complete
  BY <1>1, <1>3 DEF Complete, Scheduler!complete
<1>4. CASE \/ ReadClock \/ Drain \/ FollowDestination \/ CheckStop \/ Expire \/ Grace \/ Reserve
           \/ Refresh \/ CheckQuota
  BY <1>2, <1>4 DEF ReadClock, Drain, FollowDestination, CheckStop, Expire, Grace, Reserve, Refresh,
     CheckQuota
<1>5. CASE \/ Exit \/ Wake
           \/ \E s \in DOMAIN requests : Answer(s) \/ Push(s)
           \/ ResetHops \/ RequestStop \/ Tick \/ UNCHANGED vars
  <2>1. UNCHANGED scheduler_vars
    BY <1>5 DEF Exit, Wake, Answer, Push, WorkersKeep, ResetHops, RequestStop, Tick, InterfaceKeeps,
       vars
  <2>. QED
    BY <1>2, <2>1
<1>. QED
  BY <1>3, <1>4, <1>5 DEF Next, Loop, Returned

-----------------------------------------------------------------------------
\* The grace period

\* An ending loop sends nothing any more, and has a deadline for what it still
\* waits for.
GraceInv ==
  /\ pc \in { "reserve", "issue", "refresh", "quota" } => ~stopping
  /\ stopping \in BOOLEAN
  /\ drain_deadline = {} \/ \E d \in Nat : drain_deadline = { d }
  /\ stopping /\ logical_inflight_ > 0 => drain_deadline # {}
  /\ pc = "wait" => \A d \in drain_deadline : now < d

LEMMA GraceExit ==
  ASSUME LoopUses, GraceInv, Exit, pc' = "wait"
  PROVE  \A d \in drain_deadline : now < d
<1>. SUFFICES ASSUME NEW d \in drain_deadline PROVE now < d
  OBVIOUS
<1>1. Wakes # {} /\ Wakes \subseteq Nat /\ d \in Wakes /\ now \in Nat
  BY WakesAreTimes DEF GraceInv, Wakes, LoopUses, LoopTypes, ClockOK
<1>2. Min(Wakes) > now
  BY <1>1 DEF Exit, Sleeps
<1>3. PICK n \in Wakes : \A m \in Wakes : n <= m
  BY <1>1, ConfigIsLegal, Proved!LeastNatural
<1>4. Min(Wakes) \in Wakes /\ \A m \in Wakes : Min(Wakes) <= m
  BY <1>3 DEF Min
<1>5. Min(Wakes) \in Nat /\ d \in Nat /\ Min(Wakes) <= d
  BY <1>1, <1>4
<1>. HIDE DEF Min
<1>. QED
  BY <1>1, <1>2, <1>5

LEMMA GraceStep ==
  ASSUME LoopUses, GraceInv, [Next]_vars
  PROVE  GraceInv'
<1>1. /\ Proved!IInv /\ ClockOK /\ now \in Nat /\ pc \in Places
  BY DEF LoopUses, LoopTypes, ClockOK
<1>2. ~Issue => (logical_inflight_' > 0 => logical_inflight_ > 0)
  BY <1>1, InflightSteps
<1>3. now + Options.grace_ms \in Nat
  BY <1>1, OptionFacts
<1>a. ASSUME drain_deadline' = { now + Options.grace_ms }
      PROVE  drain_deadline' # {} /\ \E d \in Nat : drain_deadline' = { d }
  <2>. DEFINE over == now + Options.grace_ms
  <2>1. over \in Nat /\ drain_deadline' = { over }
    BY <1>3, <1>a
  <2>. HIDE DEF over
  <2>. QED
    BY <2>1
<1>4. CASE CheckStop
  <2>1. \/ UNCHANGED drain_vars
        \/ stopping' = TRUE /\ drain_deadline' = { now + Options.grace_ms }
    BY <1>4 DEF CheckStop
  <2>2. pc' = "expire" /\ ~Issue
    BY <1>4 DEF CheckStop, Issue
  <2>3. CASE UNCHANGED drain_vars
    BY <1>2, <2>2, <2>3 DEF GraceInv, drain_vars
  <2>4. CASE stopping' = TRUE /\ drain_deadline' = { now + Options.grace_ms }
    <3>1. drain_deadline' # {} /\ \E d \in Nat : drain_deadline' = { d }
      BY <1>a, <2>4
    <3>. QED
      BY <2>2, <2>4, <3>1 DEF GraceInv
  <2>. QED
    BY <2>1, <2>3, <2>4
<1>5. CASE CheckQuota
  <2>1. \/ UNCHANGED drain_vars
        \/ /\ stopping' = TRUE /\ logical_inflight_' = logical_inflight_
           /\ drain_deadline' = IF logical_inflight_ = 0 THEN {} ELSE { now + Options.grace_ms }
    BY <1>5 DEF CheckQuota, Scheduler!begin_drain
  <2>2. pc' = "exit" /\ ~Issue
    BY <1>5 DEF CheckQuota, Issue
  <2>3. CASE UNCHANGED drain_vars
    BY <1>2, <2>2, <2>3 DEF GraceInv, drain_vars
  <2>4. CASE /\ stopping' = TRUE /\ logical_inflight_' = logical_inflight_
             /\ drain_deadline' = IF logical_inflight_ = 0 THEN {} ELSE { now + Options.grace_ms }
    <3>1. CASE logical_inflight_ = 0
      BY <2>2, <2>4, <3>1 DEF GraceInv
    <3>2. CASE logical_inflight_ # 0
      <4>1. drain_deadline' # {} /\ \E d \in Nat : drain_deadline' = { d }
        BY <1>a, <2>4, <3>2
      <4>. QED
        BY <2>2, <2>4, <4>1 DEF GraceInv
    <3>. QED
      BY <3>1, <3>2
  <2>. QED
    BY <2>1, <2>3, <2>4
<1>6. CASE Grace
  <2>1. /\ pc' = (IF stopping THEN "exit" ELSE "reserve") /\ stopping' = stopping
        /\ drain_deadline' = IF Settled \/ GraceIsOver THEN {} ELSE drain_deadline
    BY <1>6 DEF Grace
  <2>2. Settled \/ GraceIsOver => ~(logical_inflight_' > 0)
    <3>1. CASE Settled
      BY <1>2, <1>6, <3>1 DEF Settled, Grace, Issue
    <3>2. CASE GraceIsOver
      <4>1. logical_inflight_' = logical_inflight_ - Cardinality(Scheduler!InState("issued"))
        BY <1>6, <3>2, SameCounts DEF Grace, Scheduler!cancel_pending
      <4>. QED
        BY <1>1, <4>1, CountFacts
    <3>. QED
      BY <3>1, <3>2
  <2>3. ~Issue
    BY <1>6 DEF Grace, Issue
  <2>. QED
    BY <1>2, <2>1, <2>2, <2>3 DEF GraceInv
<1>7. CASE Exit
  <2>1. /\ UNCHANGED << drain_vars, now, logical_inflight_ >>
        /\ pc' \in { "finished", "wait", "top" }
    BY <1>7 DEF Exit, scheduler_vars
  <2>. QED
    BY <1>7, <2>1, GraceExit DEF GraceInv, drain_vars
<1>8. CASE Issue \/ Reserve \/ Refresh
  <2>1. pc \in { "reserve", "issue", "refresh" } /\ pc' \in { "issue", "refresh", "quota" }
        /\ UNCHANGED drain_vars
    BY <1>8 DEF Issue, Reserve, Refresh
  <2>. QED
    BY <2>1 DEF GraceInv, drain_vars
<1>9. CASE ReadClock \/ Drain \/ Complete \/ FollowDestination \/ Expire \/ Wake
  <2>1. CASE FollowDestination
    <3>1. UNCHANGED << drain_vars, pc, now, logical_inflight_ >>
      BY <2>1 DEF FollowDestination, SetLastTtl, Scheduler!set_last_ttl, scheduler_vars
    <3>. QED
      BY <3>1 DEF GraceInv, drain_vars
  <2>2. CASE ReadClock \/ Drain \/ Complete \/ Expire \/ Wake
    <3>1. UNCHANGED drain_vars /\ pc' \in { "top", "epoch", "complete", "expire", "grace" }
      BY <2>2 DEF ReadClock, Drain, Complete, Expire, Wake
    <3>2. ~Issue
      BY <2>2 DEF ReadClock, Drain, Complete, Expire, Wake, Issue
    <3>. QED
      BY <1>2, <3>1, <3>2 DEF GraceInv, drain_vars
  <2>. QED
    BY <1>9, <2>1, <2>2
<1>10. CASE \/ \E s \in DOMAIN requests : Answer(s) \/ Push(s)
            \/ ResetHops \/ RequestStop \/ Tick \/ UNCHANGED vars
  <2>1. UNCHANGED << scheduler_vars, pc, drain_vars >>
    BY <1>10 DEF Answer, Push, WorkersKeep, ResetHops, RequestStop, Tick, InterfaceKeeps, vars
  <2>. QED
    BY <2>1 DEF GraceInv, drain_vars, scheduler_vars
<1>. QED
  BY <1>4, <1>5, <1>6, <1>7, <1>8, <1>9, <1>10 DEF Next, Loop, Returned

LEMMA GraceInvariant == Spec => []GraceInv
<1>1. Init => GraceInv
  BY DEF Init, GraceInv
<1>. QED
  BY <1>1, GraceStep, LoopUsesInvariant, PTL DEF Spec

\* An ending loop never sleeps past the end of the grace period.
THEOREM GraceAlwaysRespected == Spec => []GraceIsRespected
<1>1. GraceInv => GraceIsRespected
  BY DEF GraceInv, GraceIsRespected
<1>. QED
  BY <1>1, GraceInvariant, PTL

-----------------------------------------------------------------------------
\* The statistics of one TTL, h, and the scheduler's counters of it, c.

Fields == HopCounters \cup HopTicks
Hop    == [Fields -> Nat]
Names  == Scheduler!CounterNames

Tallies(h, c) ==
  /\ h["xmit"] = c["sent"]
  /\ h["in_flight"] = c["in_flight"]
  /\ h["cancelled"] = c["cancelled"]
  /\ h["scheduler_skipped"] = c["scheduler_skipped"]
  /\ h["cache_skipped"] = c["cache_skipped"]
  /\ h["late_completions"] = c["late_completions"]
  /\ h["completed"] = h["returned"] + h["timed_out"]
  /\ h["completed"] + h["local_errors"] + h["post_destination_completions"]
       = c["completed"] + c["local_errors"]
  /\ c["sent"] <= c["completed"] + c["local_errors"] + c["cancelled"] + c["in_flight"]

\* The counters that Tallies looks at.
Tallied == { "sent", "in_flight", "cancelled", "scheduler_skipped", "cache_skipped",
             "late_completions", "completed", "local_errors" }

\* What a step adds to the counters of a TTL.
Moves(c, d, n, up, down) ==
  \A f \in Tallied : d[f] = IF f \in up THEN c[f] + n ELSE IF f \in down THEN c[f] - n ELSE c[f]

\* A hop is noted on without a reply of it being noted.
NoReply(h, g) ==
  /\ g \in Hop /\ g["returned"] = h["returned"]
  /\ g["last_destination_reply_tick"] = h["last_destination_reply_tick"]

LEMMA NoteValue ==
  ASSUME NEW h \in Hop, NEW n \in Nat, NEW up, NEW down
  PROVE  /\ Note(h, n, up, down) \in Hop
         /\ \A f \in Fields : Note(h, n, up, down)[f] =
              IF f \in up THEN h[f] + n
              ELSE IF f \in down THEN (IF h[f] < n THEN 0 ELSE h[f] - n) ELSE h[f]
<1>1. DOMAIN h = Fields /\ \A f \in Fields : h[f] \in Nat
  BY DEF Hop
<1>2. \A f \in Fields : Clamp(0, h[f], h[f] - n) = IF h[f] < n THEN 0 ELSE h[f] - n
  BY <1>1 DEF Clamp
<1>3. \A f \in Fields : Note(h, n, up, down)[f] =
              IF f \in up THEN h[f] + n
              ELSE IF f \in down THEN (IF h[f] < n THEN 0 ELSE h[f] - n) ELSE h[f]
  BY <1>1, <1>2 DEF Note
<1>4. Note(h, n, up, down) = [f \in Fields |-> Note(h, n, up, down)[f]]
  BY <1>1 DEF Note
<1>5. \A f \in Fields : Note(h, n, up, down)[f] \in Nat
  BY <1>1, <1>3
<1>. QED
  BY <1>3, <1>4, <1>5 DEF Hop

LEMMA TalliesSame ==
  ASSUME NEW h, NEW c, NEW d, Tallies(h, c), \A f \in Tallied : d[f] = c[f]
  PROVE  Tallies(h, d)
BY DEF Tallies, Tallied

LEMMA TallyIssued ==
  ASSUME NEW h \in Hop, NEW c \in [Names -> Nat], NEW d, Tallies(h, c),
         Moves(c, d, 1, { "sent", "in_flight" }, {})
  PROVE  Tallies(noteIssued(h), d) /\ NoReply(h, noteIssued(h))
<1>. DEFINE g == noteIssued(h)
<1>1. g \in Hop /\ \A f \in Fields : g[f] = IF f \in { "xmit", "in_flight" } THEN h[f] + 1 ELSE h[f]
  BY NoteValue DEF noteIssued
<1>. HIDE DEF g
<1>2. \A f \in Fields : h[f] \in Nat
  BY DEF Hop
<1>3. \A f \in Tallied : c[f] \in Nat
  BY DEF Tallied, Names, Scheduler!CounterNames
<1>4. Tallies(g, d)
  BY <1>1, <1>2, <1>3 DEF Tallies, Tallied, Moves, Fields, HopCounters, HopTicks
<1>5. NoReply(h, g)
  BY <1>1 DEF NoReply, Fields, HopCounters, HopTicks
<1>. QED
  BY <1>4, <1>5 DEF g

LEMMA TallyTimeouts ==
  ASSUME NEW h \in Hop, NEW c \in [Names -> Nat], NEW d, NEW n \in Nat, n <= c["in_flight"],
         Tallies(h, c), Moves(c, d, n, { "completed" }, { "in_flight" })
  PROVE  /\ Tallies(noteTimeouts(h, n), d) /\ NoReply(h, noteTimeouts(h, n))
         /\ Tallies(notePostDestinations(h, n), d) /\ NoReply(h, notePostDestinations(h, n))
<1>. DEFINE g == noteTimeouts(h, n)
            p == notePostDestinations(h, n)
<1>1. /\ g \in Hop
      /\ \A f \in Fields : g[f] =
           IF f \in { "completed", "timed_out" } THEN h[f] + n
           ELSE IF f \in { "in_flight" } THEN (IF h[f] < n THEN 0 ELSE h[f] - n) ELSE h[f]
  BY NoteValue DEF noteTimeouts
<1>2. /\ p \in Hop
      /\ \A f \in Fields : p[f] =
           IF f \in { "post_destination_completions" } THEN h[f] + n
           ELSE IF f \in { "in_flight" } THEN (IF h[f] < n THEN 0 ELSE h[f] - n) ELSE h[f]
  BY NoteValue DEF notePostDestinations
<1>. HIDE DEF g, p
<1>3. \A f \in Fields : h[f] \in Nat
  BY DEF Hop
<1>4. \A f \in Tallied : c[f] \in Nat
  BY DEF Tallied, Names, Scheduler!CounterNames
<1>5. Tallies(g, d) /\ NoReply(h, g)
  BY <1>1, <1>3, <1>4 DEF Tallies, NoReply, Tallied, Moves, Fields, HopCounters, HopTicks
<1>6. Tallies(p, d)
  <2>1. /\ p["xmit"] = h["xmit"] /\ p["in_flight"] = h["in_flight"] - n
        /\ p["cancelled"] = h["cancelled"] /\ p["scheduler_skipped"] = h["scheduler_skipped"]
        /\ p["cache_skipped"] = h["cache_skipped"] /\ p["late_completions"] = h["late_completions"]
        /\ p["completed"] = h["completed"] /\ p["returned"] = h["returned"]
        /\ p["timed_out"] = h["timed_out"] /\ p["local_errors"] = h["local_errors"]
        /\ p["post_destination_completions"] = h["post_destination_completions"] + n
    BY <1>2, <1>3 DEF Tallies, Fields, HopCounters, HopTicks
  <2>2. /\ d["sent"] = c["sent"] /\ d["in_flight"] = c["in_flight"] - n
        /\ d["cancelled"] = c["cancelled"] /\ d["scheduler_skipped"] = c["scheduler_skipped"]
        /\ d["cache_skipped"] = c["cache_skipped"] /\ d["late_completions"] = c["late_completions"]
        /\ d["completed"] = c["completed"] + n /\ d["local_errors"] = c["local_errors"]
    BY DEF Moves, Tallied
  <2>3. /\ h["completed"] \in Nat /\ h["local_errors"] \in Nat
        /\ h["post_destination_completions"] \in Nat
        /\ c["sent"] \in Nat /\ c["in_flight"] \in Nat /\ c["cancelled"] \in Nat
        /\ c["completed"] \in Nat /\ c["local_errors"] \in Nat
    BY <1>3, <1>4 DEF Tallied, Fields, HopCounters, HopTicks
  <2>. QED
    BY <2>1, <2>2, <2>3 DEF Tallies
<1>7. NoReply(h, p)
  BY <1>2 DEF NoReply, Fields, HopCounters, HopTicks
<1>. QED
  BY <1>5, <1>6, <1>7 DEF g, p

LEMMA TallyReply ==
  ASSUME NEW h \in Hop, NEW c \in [Names -> Nat], NEW d, NEW tick \in Nat, 1 <= c["in_flight"],
         Tallies(h, c), Moves(c, d, 1, { "completed" }, { "in_flight" })
  PROVE  /\ noteReply(h, tick) \in Hop /\ Tallies(noteReply(h, tick), d)
         /\ noteReply(h, tick)["returned"] > 0
         /\ noteReply(h, tick)["last_destination_reply_tick"] = h["last_destination_reply_tick"]
<1>. DEFINE k == Note(h, 1, { "completed", "returned" }, { "in_flight" })
            g == noteReply(h, tick)
<1>1. /\ k \in Hop
      /\ \A f \in Fields : k[f] =
           IF f \in { "completed", "returned" } THEN h[f] + 1
           ELSE IF f \in { "in_flight" } THEN (IF h[f] < 1 THEN 0 ELSE h[f] - 1) ELSE h[f]
  BY NoteValue
<1>2. g = [k EXCEPT !["last_reply_tick"] = tick]
  BY DEF noteReply
<1>. HIDE DEF g, k
<1>3. g \in Hop /\ \A f \in Fields \ { "last_reply_tick" } : g[f] = k[f]
  BY <1>1, <1>2 DEF Hop
<1>4. \A f \in Fields : h[f] \in Nat
  BY DEF Hop
<1>5. \A f \in Tallied : c[f] \in Nat
  BY DEF Tallied, Names, Scheduler!CounterNames
<1>6. Tallies(g, d)
  BY <1>1, <1>3, <1>4, <1>5 DEF Tallies, Tallied, Moves, Fields, HopCounters, HopTicks
<1>7. g["returned"] > 0 /\ g["last_destination_reply_tick"] = h["last_destination_reply_tick"]
  BY <1>1, <1>3, <1>4 DEF Fields, HopCounters, HopTicks
<1>. QED
  BY <1>3, <1>6, <1>7 DEF g

LEMMA TallyLocalError ==
  ASSUME NEW h \in Hop, NEW c \in [Names -> Nat], NEW d, NEW was_issued \in BOOLEAN,
         was_issued => 1 <= c["in_flight"], Tallies(h, c),
         Moves(c, d, 1, { "local_errors" }, IF was_issued THEN { "in_flight" } ELSE {})
  PROVE  /\ Tallies(noteLocalError(h, was_issued), d) /\ NoReply(h, noteLocalError(h, was_issued))
         /\ was_issued => /\ Tallies(notePostDestinations(h, 1), d)
                          /\ NoReply(h, notePostDestinations(h, 1))
<1>. DEFINE g == noteLocalError(h, was_issued)
            p == notePostDestinations(h, 1)
<1>1. /\ g \in Hop
      /\ \A f \in Fields : g[f] =
           IF f \in { "local_errors" } THEN h[f] + 1
           ELSE IF f \in (IF was_issued THEN { "in_flight" } ELSE {})
                THEN (IF h[f] < 1 THEN 0 ELSE h[f] - 1) ELSE h[f]
  BY NoteValue DEF noteLocalError
<1>2. /\ p \in Hop
      /\ \A f \in Fields : p[f] =
           IF f \in { "post_destination_completions" } THEN h[f] + 1
           ELSE IF f \in { "in_flight" } THEN (IF h[f] < 1 THEN 0 ELSE h[f] - 1) ELSE h[f]
  BY NoteValue DEF notePostDestinations
<1>. HIDE DEF g, p
<1>3. \A f \in Fields : h[f] \in Nat
  BY DEF Hop
<1>4. \A f \in Tallied : c[f] \in Nat
  BY DEF Tallied, Names, Scheduler!CounterNames
<1>5. CASE was_issued
  <2>1. Tallies(g, d) /\ NoReply(h, g)
    BY <1>1, <1>3, <1>4, <1>5 DEF Tallies, NoReply, Tallied, Moves, Fields, HopCounters, HopTicks
  <2>2. Tallies(p, d) /\ NoReply(h, p)
    BY <1>2, <1>3, <1>4, <1>5 DEF Tallies, NoReply, Tallied, Moves, Fields, HopCounters, HopTicks
  <2>. QED
    BY <2>1, <2>2 DEF g, p
<1>6. CASE ~was_issued
  <2>1. Tallies(g, d) /\ NoReply(h, g)
    BY <1>1, <1>3, <1>4, <1>6 DEF Tallies, NoReply, Tallied, Moves, Fields, HopCounters, HopTicks
  <2>. QED
    BY <1>6, <2>1 DEF g
<1>. QED
  BY <1>5, <1>6

LEMMA TallyCancelled ==
  ASSUME NEW h \in Hop, NEW c \in [Names -> Nat], NEW d, NEW n \in Nat, n <= c["in_flight"],
         Tallies(h, c), Moves(c, d, n, { "cancelled" }, { "in_flight" })
  PROVE  Tallies(noteCancelled(h, n), d) /\ NoReply(h, noteCancelled(h, n))
<1>. DEFINE g == noteCancelled(h, n)
<1>1. /\ g \in Hop
      /\ \A f \in Fields : g[f] =
           IF f \in { "cancelled" } THEN h[f] + n
           ELSE IF f \in { "in_flight" } THEN (IF h[f] < n THEN 0 ELSE h[f] - n) ELSE h[f]
  BY NoteValue DEF noteCancelled
<1>. HIDE DEF g
<1>2. \A f \in Fields : h[f] \in Nat
  BY DEF Hop
<1>3. \A f \in Tallied : c[f] \in Nat
  BY DEF Tallied, Names, Scheduler!CounterNames
<1>4. Tallies(g, d) /\ NoReply(h, g)
  BY <1>1, <1>2, <1>3 DEF Tallies, NoReply, Tallied, Moves, Fields, HopCounters, HopTicks
<1>. QED
  BY <1>4 DEF g

\* The counters that are one field of both.
LEMMA TallySkipped ==
  ASSUME NEW h \in Hop, NEW c \in [Names -> Nat], NEW d,
         NEW f \in { "scheduler_skipped", "cache_skipped", "late_completions" },
         Tallies(h, c), Moves(c, d, 1, { f }, {})
  PROVE  Tallies(Note(h, 1, { f }, {}), d) /\ NoReply(h, Note(h, 1, { f }, {}))
<1>. DEFINE g == Note(h, 1, { f }, {})
<1>1. g \in Hop /\ \A x \in Fields : g[x] = IF x = f THEN h[x] + 1 ELSE h[x]
  BY NoteValue
<1>. HIDE DEF g
<1>2. \A x \in Fields : h[x] \in Nat
  BY DEF Hop
<1>3. \A x \in Tallied : c[x] \in Nat /\ d[x] = IF x = f THEN c[x] + 1 ELSE c[x]
  BY DEF Tallied, Names, Scheduler!CounterNames, Moves
<1>4. Tallies(g, d)
  <2>1. CASE f = "scheduler_skipped"
    BY <1>1, <1>2, <1>3, <2>1 DEF Tallies, Tallied, Fields, HopCounters, HopTicks
  <2>2. CASE f = "cache_skipped"
    BY <1>1, <1>2, <1>3, <2>2 DEF Tallies, Tallied, Fields, HopCounters, HopTicks
  <2>3. CASE f = "late_completions"
    BY <1>1, <1>2, <1>3, <2>3 DEF Tallies, Tallied, Fields, HopCounters, HopTicks
  <2>. QED
    BY <2>1, <2>2, <2>3
<1>5. NoReply(h, g)
  BY <1>1, <1>2 DEF NoReply, Fields, HopCounters, HopTicks
<1>. QED
  BY <1>4, <1>5 DEF g

LEMMA TallyLate ==
  ASSUME NEW h \in Hop, NEW c \in [Names -> Nat], NEW d \in [Names -> Nat], 1 <= c["in_flight"],
         Tallies(h, c), Moves(c, d, 1, { "completed", "late_completions" }, { "in_flight" })
  PROVE  /\ Tallies(noteLateCompletion(noteTimeouts(h, 1)), d)
         /\ NoReply(h, noteLateCompletion(noteTimeouts(h, 1)))
         /\ Tallies(noteLateCompletion(notePostDestinations(h, 1)), d)
         /\ NoReply(h, noteLateCompletion(notePostDestinations(h, 1)))
<1>. DEFINE e == [f \in Names |-> IF f = "late_completions" THEN c[f] ELSE d[f]]
            g == noteTimeouts(h, 1)
            p == notePostDestinations(h, 1)
<1>1. e \in [Names -> Nat] /\ \A f \in Tallied : e[f] = IF f = "late_completions" THEN c[f] ELSE d[f]
  BY DEF Tallied, Names, Scheduler!CounterNames
<1>. HIDE DEF e
<1>2. Moves(c, e, 1, { "completed" }, { "in_flight" })
  BY <1>1 DEF Moves
<1>3. /\ Tallies(g, e) /\ NoReply(h, g) /\ Tallies(p, e) /\ NoReply(h, p)
  BY <1>2, TallyTimeouts
<1>. HIDE DEF g, p
<1>4. \A f \in Tallied : c[f] \in Nat
  BY DEF Tallied, Names, Scheduler!CounterNames
<1>5. Moves(e, d, 1, { "late_completions" }, {})
  BY <1>1, <1>4 DEF Moves
<1>6. "late_completions" \in { "scheduler_skipped", "cache_skipped", "late_completions" }
  OBVIOUS
<1>7. g \in Hop /\ p \in Hop
  BY <1>3 DEF NoReply
<1>8. /\ Tallies(noteLateCompletion(g), d) /\ NoReply(g, noteLateCompletion(g))
      /\ Tallies(noteLateCompletion(p), d) /\ NoReply(p, noteLateCompletion(p))
  BY <1>1, <1>3, <1>5, <1>6, <1>7, TallySkipped DEF noteLateCompletion
<1>9. NoReply(h, noteLateCompletion(g)) /\ NoReply(h, noteLateCompletion(p))
  BY <1>3, <1>8 DEF NoReply
<1>. QED
  BY <1>8, <1>9 DEF g, p

LEMMA CountMoves ==
  ASSUME counters \in [TTL -> [Names -> Nat]], NEW t \in TTL, NEW up, NEW down,
         counters' = Scheduler!Count(t, up, down)
  PROVE  /\ Moves(counters[t], counters'[t], 1, up, down)
         /\ \A u \in TTL : u # t => counters'[u] = counters[u]
<1>1. counters' = [counters EXCEPT ![t] =
        [f \in Names |-> IF f \in up THEN counters[t][f] + 1
                         ELSE IF f \in down THEN counters[t][f] - 1 ELSE counters[t][f]]]
  BY DEF Scheduler!Count, Names
<1>2. \A f \in Tallied : f \in Names
  BY DEF Tallied, Names, Scheduler!CounterNames
<1>3. counters'[t] = [f \in Names |-> IF f \in up THEN counters[t][f] + 1
                         ELSE IF f \in down THEN counters[t][f] - 1 ELSE counters[t][f]]
  BY <1>1
<1>. QED
  BY <1>1, <1>2, <1>3 DEF Moves

-----------------------------------------------------------------------------
\* The display and what DoTrace() will return, while the trace runs.

HostAgrees ==
  data_epoch = epoch_ => \A t \in TTL : Tallies(host[t], counters[t])

\* A reply of the destination that the cache knows is a reply that is shown.
DestinationSeen ==
  \A t \in TTL : host[t]["last_destination_reply_tick"] # 0 => session_destination_ttl # 0

ShownTyped ==
  /\ host \in [TTL -> Hop]
  /\ display_max_ttl \in {0} \cup TTL /\ session_destination_ttl \in {0} \cup TTL
  /\ completed_cycles \in Nat /\ reported_cycles \in Nat
  /\ session_reached_destination \in BOOLEAN /\ session_had_usable_reply \in BOOLEAN

DisplayInv ==
  /\ ShownTyped /\ HostAgrees /\ DestinationSeen
  /\ ResetIsClean /\ ResultAgreesWithDisplay

\* Most steps change only what the display shows of probes without a reply.
Plain ==
  /\ UNCHANGED << data_epoch, epoch_, session_destination_ttl, session_had_usable_reply,
                  session_reached_destination >>
  /\ host' \in [TTL -> Hop]
  /\ \A t \in TTL : NoReply(host[t], host'[t])
  /\ data_epoch # epoch_ => UNCHANGED << host, display_max_ttl, completed_cycles >>
  /\ display_max_ttl' \in {0} \cup TTL /\ completed_cycles' \in Nat /\ reported_cycles' \in Nat
  /\ data_epoch = epoch_ => \A t \in TTL : Tallies(host'[t], counters'[t])

LEMMA PlainKeeps == DisplayInv /\ Plain => DisplayInv'
<1>. SUFFICES ASSUME DisplayInv, Plain PROVE DisplayInv'
  OBVIOUS
<1>1. ShownTyped'
  BY DEF DisplayInv, ShownTyped, Plain
<1>2. HostAgrees'
  BY DEF HostAgrees, Plain
<1>3. DestinationSeen'
  BY DEF DisplayInv, DestinationSeen, Plain, NoReply
<1>4. ResetIsClean'
  BY DEF DisplayInv, ResetIsClean, Plain
<1>5. ResultAgreesWithDisplay'
  BY DEF DisplayInv, ResultAgreesWithDisplay, Plain, NoReply
<1>. QED
  BY <1>1, <1>2, <1>3, <1>4, <1>5 DEF DisplayInv

\* A hop is left as it is.
LEMMA NothingNoted ==
  ASSUME DisplayInv
  PROVE  \A t \in TTL : NoReply(host[t], host[t])
BY DEF DisplayInv, ShownTyped, NoReply

\* Steps that change neither the statistics nor the counters.
LEMMA StillPlain ==
  ASSUME DisplayInv,
         UNCHANGED << data_epoch, epoch_, display_vars, result_vars, reported_cycles, counters >>
  PROVE  Plain
BY NothingNoted DEF DisplayInv, ShownTyped, HostAgrees, Plain, display_vars, result_vars

\* The ordinary steps.
LEMMA StillSteps ==
  ASSUME DisplayInv,
         \/ ReadClock \/ FollowDestination \/ CheckStop \/ CheckQuota \/ Exit \/ Wake
         \/ \E s \in DOMAIN requests : Answer(s) \/ Push(s)
         \/ RequestStop \/ Tick \/ UNCHANGED vars
  PROVE  Plain
<1>1. UNCHANGED << data_epoch, epoch_, counters >>
  <2>1. CASE ReadClock \/ Exit \/ Wake
    BY <2>1 DEF ReadClock, Exit, Wake, LoopKeeps, shared_vars, scheduler_vars
  <2>2. CASE FollowDestination
    BY <2>2 DEF FollowDestination, SetLastTtl, Scheduler!set_last_ttl, LoopKeeps, shared_vars,
       scheduler_vars
  <2>3. CASE CheckStop \/ CheckQuota
    BY <2>3 DEF CheckStop, CheckQuota, Scheduler!begin_drain, Scheduler!plan, LoopKeeps,
       shared_vars, scheduler_vars
  <2>4. CASE \/ \E s \in DOMAIN requests : Answer(s) \/ Push(s)
             \/ RequestStop \/ Tick \/ UNCHANGED vars
    BY <2>4 DEF Answer, Push, WorkersKeep, RequestStop, Tick, InterfaceKeeps, vars, shared_vars,
       scheduler_vars
  <2>. QED
    BY <2>1, <2>2, <2>3, <2>4
<1>2. UNCHANGED << display_vars, result_vars, reported_cycles >>
  <2>1. CASE ReadClock \/ FollowDestination \/ CheckStop \/ CheckQuota \/ Exit \/ Wake
    BY <2>1 DEF ReadClock, FollowDestination, CheckStop, CheckQuota, Exit, Wake
  <2>2. CASE \/ \E s \in DOMAIN requests : Answer(s) \/ Push(s)
             \/ RequestStop \/ Tick \/ UNCHANGED vars
    BY <2>2 DEF Answer, Push, WorkersKeep, RequestStop, Tick, InterfaceKeeps, vars
  <2>. QED
    BY <2>1, <2>2
<1>. QED
  BY <1>1, <1>2, StillPlain

LEMMA ZeroTallies ==
  ASSUME NEW c, \A f \in Tallied : c[f] = 0
  PROVE  s_nethost \in Hop /\ Tallies(s_nethost, c)
<1>1. s_nethost \in Hop /\ \A f \in Fields : s_nethost[f] = 0
  BY DEF s_nethost, Hop, Fields
<1>. HIDE DEF s_nethost
<1>. QED
  BY <1>1 DEF Tallies, Tallied, Fields, HopCounters, HopTicks

LEMMA ZeroHop ==
  /\ s_nethost \in Hop /\ s_nethost["returned"] = 0
  /\ s_nethost["last_destination_reply_tick"] = 0
BY DEF s_nethost, Hop, Fields, HopCounters, HopTicks

\* The loop adopts a new epoch: the display was cleared when it began.
LEMMA DrainDisplays ==
  ASSUME DisplayInv, Drain
  PROVE  DisplayInv'
<1>1. CASE UNCHANGED << scheduler_vars, reported_cycles, result_vars >>
  <2>1. UNCHANGED << data_epoch, epoch_, display_vars, result_vars, reported_cycles, counters >>
    BY <1>1 DEF Drain, LoopKeeps, shared_vars, scheduler_vars
  <2>. QED
    BY <2>1, StillPlain, PlainKeeps
<1>2. CASE /\ data_epoch # epoch_ /\ Scheduler!restart(data_epoch)
           /\ reported_cycles' = 0
           /\ session_reached_destination' = FALSE /\ session_had_usable_reply' = FALSE
  <2>1. /\ UNCHANGED << data_epoch, display_vars >> /\ epoch_' = data_epoch
        /\ counters' = [t \in TTL |->
             [Scheduler!ZeroCounters EXCEPT !["transport_outstanding"]
                = counters[t]["transport_outstanding"]]]
    BY <1>2 DEF Drain, LoopKeeps, shared_vars, Scheduler!restart, TTL
  <2>2. /\ \A t \in TTL : host[t] = s_nethost
        /\ display_max_ttl = 0 /\ session_destination_ttl = 0 /\ completed_cycles = 0
    BY <1>2 DEF DisplayInv, ResetIsClean
  <2>3. \A t \in TTL : \A f \in Tallied : counters'[t][f] = 0
    BY <2>1 DEF Tallied, Scheduler!ZeroCounters, Scheduler!CounterNames
  <2>4. \A t \in TTL : Tallies(host'[t], counters'[t])
    <3>1. \A t \in TTL : host'[t] = s_nethost
      BY <2>1, <2>2 DEF display_vars
    <3>. QED
      BY <2>3, <3>1, ZeroTallies
  <2>5. HostAgrees'
    BY <2>4 DEF HostAgrees
  <2>6. ShownTyped' /\ DestinationSeen' /\ ResetIsClean'
    BY <1>2, <2>1 DEF DisplayInv, ShownTyped, DestinationSeen, ResetIsClean, display_vars
  <2>7. ResultAgreesWithDisplay'
    <3>1. \A t \in TTL : host'[t]["returned"] = 0
      BY <2>1, <2>2, ZeroHop DEF display_vars
    <3>. QED
      BY <1>2, <2>1, <2>2, <3>1 DEF ResultAgreesWithDisplay, display_vars
  <2>. QED
    BY <2>5, <2>6, <2>7 DEF DisplayInv
<1>. QED
  BY <1>1, <1>2 DEF Drain, AdoptEpoch

LEMMA ResetDisplays ==
  ASSUME DisplayInv, EpochOK, ResetHops
  PROVE  DisplayInv'
<1>1. /\ UNCHANGED << epoch_, result_vars, reported_cycles >> /\ data_epoch' # epoch_'
      /\ host' = [t \in TTL |-> s_nethost]
      /\ display_max_ttl' = 0 /\ session_destination_ttl' = 0 /\ completed_cycles' = 0
  BY TraceLoopAssumption DEF ResetHops, InterfaceKeeps, scheduler_vars, EpochOK
<1>. HIDE DEF s_nethost
<1>2. ShownTyped'
  BY <1>1, ZeroHop DEF DisplayInv, ShownTyped, result_vars
<1>3. DestinationSeen' /\ ResetIsClean'
  BY <1>1, ZeroHop DEF DestinationSeen, ResetIsClean
<1>. QED
  BY <1>1, <1>2, <1>3 DEF DisplayInv, HostAgrees, ResultAgreesWithDisplay

\* The least element of a set of natural numbers, and the greatest one of a
\* bounded set.
LEMMA MinOfNaturals ==
  ASSUME NEW S \in SUBSET Nat, S # {}
  PROVE  Min(S) \in S /\ \A n \in S : Min(S) <= n
<1>1. PICK n \in S : \A m \in S : n <= m
  BY ConfigIsLegal, Proved!LeastNatural
<1>. QED
  BY <1>1 DEF Min

LEMMA MaxOfBounded ==
  ASSUME NEW high \in Nat, NEW S \in SUBSET (0 .. high), S # {}
  PROVE  Max(S) \in S
<1>. DEFINE T == { high - n : n \in S }
<1>1. T \in SUBSET Nat /\ T # {}
  <2>1. \A n \in S : high - n \in Nat
    OBVIOUS
  <2>2. PICK n \in S : TRUE
    OBVIOUS
  <2>. QED
    BY <2>1, <2>2
<1>2. PICK m \in T : \A k \in T : m <= k
  BY <1>1, ConfigIsLegal, Proved!LeastNatural
<1>3. PICK n \in S : m = high - n
  BY <1>2
<1>4. \A k \in S : n >= k
  <2>. SUFFICES ASSUME NEW k \in S PROVE n >= k
    OBVIOUS
  <2>1. high - k \in T
    OBVIOUS
  <2>2. high - n <= high - k /\ k \in Int /\ n \in Int
    BY <1>2, <1>3, <2>1
  <2>. QED
    BY <2>2
<1>. QED
  BY <1>4 DEF Max

\* The cycles are counted.
LEMMA RefreshDisplays ==
  ASSUME DisplayInv, Proved!IInv, Refresh
  PROVE  Plain
<1>1. UNCHANGED << data_epoch, epoch_, result_vars, host, display_max_ttl,
                   session_destination_ttl, counters >>
  BY DEF Refresh, SetLastTtl, Scheduler!set_last_ttl, LoopKeeps, shared_vars, scheduler_vars
<1>2. Minimum \in Nat
  <2>. DEFINE cycles(t) == counters[t]["completed"] + counters[t]["local_errors"]
                              + counters[t]["cache_skipped"]
              S == { cycles(t) : t \in Options.start_ttl .. active_last_ttl_ }
  <2>1. active_last_ttl_ \in TTL
    BY SameSets DEF Proved!IInv, Proved!TypeOK, TTL
  <2>2. /\ Options.start_ttl .. active_last_ttl_ \subseteq TTL
        /\ Options.start_ttl \in Options.start_ttl .. active_last_ttl_
    BY <2>1, HopFacts, OptionFacts
  <2>3. \A t \in TTL : cycles(t) \in Nat
    BY CountFacts DEF Scheduler!CounterNames
  <2>. HIDE DEF cycles
  <2>4. S \in SUBSET Nat /\ S # {}
    BY <2>2, <2>3
  <2>5. Min(S) \in S
    BY <2>4, MinOfNaturals
  <2>6. Minimum = Min(S)
    BY DEF Minimum, cycles
  <2>. QED
    BY <2>4, <2>5, <2>6
<1>3. /\ reported_cycles' \in Nat /\ completed_cycles' \in Nat
      /\ data_epoch # epoch_ => completed_cycles' = completed_cycles
  BY <1>2 DEF Refresh, Fresh, Route!Larger, DisplayInv, ShownTyped
<1>. QED
  BY <1>1, <1>3, NothingNoted DEF Plain, DisplayInv, ShownTyped, HostAgrees, result_vars

LEMMA ManyHops ==
  ASSUME DisplayInv,
         UNCHANGED << data_epoch, epoch_, session_destination_ttl, result_vars, reported_cycles,
                      completed_cycles >>,
         host' = [t \in TTL |-> host'[t]], display_max_ttl' \in {0} \cup TTL,
         data_epoch # epoch_ => /\ display_max_ttl' = display_max_ttl
                                /\ \A t \in TTL : host'[t] = host[t],
         data_epoch = epoch_ => \A t \in TTL : /\ Tallies(host'[t], counters'[t])
                                               /\ NoReply(host[t], host'[t])
  PROVE  Plain
<1>1. \A t \in TTL : NoReply(host[t], host'[t])
  BY NothingNoted
<1>2. host' \in [TTL -> Hop]
  <2>1. \A t \in TTL : host'[t] \in Hop
    BY <1>1 DEF NoReply
  <2>. QED
    BY <2>1
<1>3. data_epoch # epoch_ => host' = host
  BY DEF DisplayInv, ShownTyped
<1>. QED
  BY <1>1, <1>2, <1>3 DEF Plain, DisplayInv, ShownTyped, result_vars

LEMMA OneHop ==
  ASSUME DisplayInv, NEW t \in TTL, NEW g,
         UNCHANGED << data_epoch, epoch_, session_destination_ttl, result_vars, reported_cycles,
                      completed_cycles >>,
         host' = IF data_epoch = epoch_ THEN [host EXCEPT ![t] = g] ELSE host,
         display_max_ttl' = (IF data_epoch = epoch_ THEN Route!Larger(display_max_ttl, t)
                             ELSE display_max_ttl) \/ display_max_ttl' = display_max_ttl,
         \A u \in TTL : u # t => counters'[u] = counters[u],
         data_epoch = epoch_ => Tallies(g, counters'[t]) /\ NoReply(host[t], g)
  PROVE  Plain
<1>1. host = [u \in TTL |-> host[u]]
  BY DEF DisplayInv, ShownTyped
<1>2. host' = [u \in TTL |-> host'[u]]
  BY <1>1
<1>3. display_max_ttl' \in {0} \cup TTL
  BY DEF DisplayInv, ShownTyped, Route!Larger
<1>4. ASSUME data_epoch = epoch_, NEW u \in TTL
      PROVE  Tallies(host'[u], counters'[u]) /\ NoReply(host[u], host'[u])
  <2>1. host'[u] = IF u = t THEN g ELSE host[u]
    BY <1>1, <1>4
  <2>2. CASE u = t
    BY <1>4, <2>1, <2>2
  <2>3. CASE u # t
    BY <1>4, <2>1, <2>3, NothingNoted DEF DisplayInv, HostAgrees
  <2>. QED
    BY <2>2, <2>3
<1>. QED
  BY <1>2, <1>3, <1>4, ManyHops

LEMMA CountersTyped ==
  ASSUME Proved!IInv
  PROVE  counters \in [TTL -> [Names -> Nat]]
<1>1. Names = Proved!CounterNames
  BY DEF Names, Scheduler!CounterNames, Proved!CounterNames
<1>. QED
  BY <1>1, SameSets DEF Proved!IInv, Proved!TypeOK, TTL

\* One probe comes to nothing or is sent.
LEMMA IssueDisplays ==
  ASSUME DisplayInv, Proved!IInv, Issue
  PROVE  Plain
<1>. DEFINE t == SlotTtl
<1>1. t \in TTL /\ counters \in [TTL -> [Names -> Nat]] /\ host[t] \in Hop
  <2>1. t \in TTL
    BY RecordFacts DEF Issue, IssueCached, IssueFails, IssueSends, Slot, SlotTtl,
       Scheduler!mark_cached, Scheduler!mark_issue_failed, Scheduler!mark_issued,
       Scheduler!Unreserve, Scheduler!InState
  <2>. QED
    BY <2>1, CountersTyped DEF DisplayInv, ShownTyped
<1>2. data_epoch = epoch_ => Tallies(host[t], counters[t])
  BY <1>1 DEF DisplayInv, HostAgrees
<1>3. UNCHANGED << data_epoch, epoch_, reported_cycles >>
  <2>1. UNCHANGED << data_epoch, reported_cycles >>
    BY DEF Issue, LoopKeeps, shared_vars
  <2>2. epoch_' = epoch_
    BY DEF Issue, IssueCached, IssueFails, IssueSends, Scheduler!mark_cached, Scheduler!plan,
       Scheduler!mark_issue_failed, Scheduler!mark_issued, Scheduler!Unreserve
  <2>. QED
    BY <2>1, <2>2
<1>4. Fresh(epoch_) <=> data_epoch = epoch_
  BY DEF Fresh
<1>5. counters[t] \in [Names -> Nat]
  BY <1>1
<1>. HIDE DEF t
<1>6. CASE IssueCached
  <2>. DEFINE g == noteCacheSkipped(host[t])
              destination == Recent(host[t]["last_destination_reply_tick"])
  <2>1. /\ counters' = Scheduler!Count(t, { "cache_skipped" }, {})
        /\ data_epoch = epoch_
        /\ host' = [host EXCEPT ![t] = g]
        /\ UNCHANGED << display_max_ttl, session_destination_ttl, completed_cycles,
                        session_had_usable_reply >>
        /\ session_reached_destination' = (session_reached_destination \/ destination)
    BY <1>4, <1>6 DEF IssueCached, Scheduler!mark_cached, CommitHop, replyIsCached, t, SlotTtl
  <2>2. destination => session_reached_destination
    BY <1>1, <2>1 DEF Recent, DisplayInv, DestinationSeen, ResultAgreesWithDisplay
  <2>3. session_reached_destination' = session_reached_destination
    BY <2>1, <2>2, Zenon DEF DisplayInv, ShownTyped
  <2>4. /\ Moves(counters[t], counters'[t], 1, { "cache_skipped" }, {})
        /\ \A u \in TTL : u # t => counters'[u] = counters[u]
    BY <1>1, <2>1, CountMoves
  <2>5. Tallies(g, counters'[t]) /\ NoReply(host[t], g)
    BY <1>1, <1>2, <1>5, <2>1, <2>4, TallySkipped DEF noteCacheSkipped
  <2>. HIDE DEF g, destination
  <2>. QED
    BY <1>1, <1>3, <2>1, <2>3, <2>4, <2>5, OneHop DEF result_vars
<1>7. CASE IssueFails
  <2>. DEFINE g == noteLocalError(host[t], FALSE)
  <2>1. /\ counters' = Scheduler!Count(t, { "local_errors" }, {})
        /\ host' = IF data_epoch = epoch_ THEN [host EXCEPT ![t] = g] ELSE host
        /\ UNCHANGED << display_max_ttl, session_destination_ttl, completed_cycles, result_vars >>
    BY <1>4, <1>7 DEF IssueFails, Scheduler!mark_issue_failed, CommitHop, t, SlotTtl
  <2>2. /\ Moves(counters[t], counters'[t], 1, { "local_errors" }, {})
        /\ \A u \in TTL : u # t => counters'[u] = counters[u]
    BY <1>1, <2>1, CountMoves
  <2>3. data_epoch = epoch_ => Tallies(g, counters'[t]) /\ NoReply(host[t], g)
    BY <1>1, <1>2, <1>5, <2>2, TallyLocalError
  <2>. HIDE DEF g
  <2>. QED
    BY <1>1, <1>3, <2>1, <2>2, <2>3, OneHop
<1>8. CASE IssueSends
  <2>. DEFINE g == noteIssued(host[t])
  <2>1. /\ counters' = Scheduler!Count(t, { "sent", "in_flight", "transport_outstanding" }, {})
        /\ host' = IF data_epoch = epoch_ THEN [host EXCEPT ![t] = g] ELSE host
        /\ display_max_ttl' = IF data_epoch = epoch_ THEN Route!Larger(display_max_ttl, t)
                              ELSE display_max_ttl
        /\ UNCHANGED << session_destination_ttl, completed_cycles, result_vars >>
    BY <1>4, <1>8 DEF IssueSends, Scheduler!mark_issued, CommitShown, t, SlotTtl
  <2>2. /\ Moves(counters[t], counters'[t], 1, { "sent", "in_flight", "transport_outstanding" }, {})
        /\ \A u \in TTL : u # t => counters'[u] = counters[u]
    BY <1>1, <2>1, CountMoves
  <2>3. Moves(counters[t], counters'[t], 1, { "sent", "in_flight" }, {})
    BY <2>2 DEF Moves, Tallied
  <2>4. data_epoch = epoch_ => Tallies(g, counters'[t]) /\ NoReply(host[t], g)
    BY <1>1, <1>2, <1>5, <2>3, TallyIssued
  <2>. HIDE DEF g
  <2>. QED
    BY <1>1, <1>3, <2>1, <2>2, <2>4, OneHop
<1>. QED
  BY <1>6, <1>7, <1>8 DEF Issue

\* The slots skipped are noted where the scheduler counts them.
LEMMA ReserveDisplays ==
  ASSUME DisplayInv, Proved!IInv, Reserve
  PROVE  Plain
<1>1. UNCHANGED << data_epoch, epoch_, session_destination_ttl, result_vars, reported_cycles,
                   completed_cycles, display_max_ttl >>
  BY DEF Reserve, Scheduler!reserve_due, LoopKeeps, shared_vars, scheduler_vars
<1>2. CASE UNCHANGED << scheduler_vars, host >>
  BY <1>1, <1>2, StillPlain DEF display_vars, scheduler_vars
<1>3. CASE /\ Scheduler!reserve_due
           /\ host' = [t \in TTL |->
                IF Fresh(epoch_) /\ t \in Scheduler!Skipped
                THEN noteSchedulerSkipped(host[t]) ELSE host[t]]
  <2>1. counters' = [t \in TTL |-> IF t \in Scheduler!Visited THEN Scheduler!Noted(t)
                                   ELSE counters[t]]
    BY <1>3 DEF Scheduler!reserve_due, TTL
  <2>2. host' = [t \in TTL |-> host'[t]]
    BY <1>3
  <2>3. data_epoch # epoch_ => \A t \in TTL : host'[t] = host[t]
    BY <1>3 DEF Fresh
  <2>4. ASSUME data_epoch = epoch_, NEW t \in TTL
        PROVE  Tallies(host'[t], counters'[t]) /\ NoReply(host[t], host'[t])
    <3>1. /\ host[t] \in Hop /\ counters[t] \in [Names -> Nat] /\ Tallies(host[t], counters[t])
      BY <2>4, CountersTyped DEF DisplayInv, ShownTyped, HostAgrees
    <3>2. CASE t \in Scheduler!Skipped
      <4>1. /\ host'[t] = noteSchedulerSkipped(host[t])
            /\ counters'[t] = Scheduler!Noted(t) /\ Scheduler!Full(t)
        BY <1>3, <2>1, <2>4, <3>2 DEF Fresh, Scheduler!Skipped
      <4>2. Moves(counters[t], counters'[t], 1, { "scheduler_skipped" }, {})
        BY <3>1, <4>1 DEF Moves, Tallied, Scheduler!Noted, Names, Scheduler!CounterNames
      <4>. QED
        BY <3>1, <4>1, <4>2, TallySkipped DEF noteSchedulerSkipped
    <3>3. CASE t \notin Scheduler!Skipped
      <4>1. host'[t] = host[t]
        BY <1>3, <3>3
      <4>2. \A f \in Tallied : counters'[t][f] = counters[t][f]
        <5>1. CASE t \in Scheduler!Visited
          <6>1. counters'[t] = Scheduler!Noted(t) /\ ~Scheduler!Full(t)
            BY <2>1, <3>3, <5>1 DEF Scheduler!Skipped
          <6>. QED
            BY <3>1, <6>1 DEF Tallied, Scheduler!Noted, Names, Scheduler!CounterNames
        <5>2. CASE t \notin Scheduler!Visited
          BY <2>1, <5>2
        <5>. QED
          BY <5>1, <5>2
      <4>. QED
        BY <3>1, <4>1, <4>2, TalliesSame, NothingNoted
    <3>. QED
      BY <3>2, <3>3
  <2>. QED
    BY <1>1, <2>2, <2>3, <2>4, ManyHops DEF DisplayInv, ShownTyped
<1>. QED
  BY <1>2, <1>3 DEF Reserve

\* What is given up at the end of the grace is noted as cancelled.
LEMMA GraceDisplays ==
  ASSUME DisplayInv, Proved!IInv, Grace
  PROVE  Plain
<1>1. UNCHANGED << data_epoch, epoch_, session_destination_ttl, result_vars, reported_cycles,
                   completed_cycles, display_max_ttl >>
  BY DEF Grace, Scheduler!cancel_pending, Scheduler!plan, LoopKeeps, shared_vars, scheduler_vars
<1>2. CASE UNCHANGED << scheduler_vars, host >>
  BY <1>1, <1>2, StillPlain DEF display_vars, scheduler_vars
<1>3. CASE /\ Scheduler!cancel_pending
           /\ host' = [t \in TTL |->
               LET n == Cardinality(Scheduler!InStateAt("issued", t))
               IN  IF Fresh(epoch_) /\ n # 0 THEN noteCancelled(host[t], n) ELSE host[t]]
  <2>. DEFINE num(t) == Cardinality(Scheduler!InStateAt("issued", t))
  <2>1. counters' = [t \in TTL |->
           [counters[t] EXCEPT !["in_flight"] = @ - num(t), !["cancelled"] = @ + num(t)]]
    BY <1>3, SameCounts DEF Scheduler!cancel_pending, TTL
  <2>2. \A t \in TTL : num(t) \in Nat /\ num(t) = counters[t]["in_flight"]
    BY CountFacts DEF Scheduler!CounterNames
  <2>a. \A t \in TTL : host'[t] = IF Fresh(epoch_) /\ num(t) # 0 THEN noteCancelled(host[t], num(t))
                                  ELSE host[t]
    BY <1>3
  <2>. HIDE DEF num
  <2>3. host' = [t \in TTL |-> host'[t]]
    BY <1>3
  <2>4. data_epoch # epoch_ => \A t \in TTL : host'[t] = host[t]
    BY <2>a DEF Fresh
  <2>5. ASSUME data_epoch = epoch_, NEW t \in TTL
        PROVE  Tallies(host'[t], counters'[t]) /\ NoReply(host[t], host'[t])
    <3>1. /\ host[t] \in Hop /\ counters[t] \in [Names -> Nat] /\ Tallies(host[t], counters[t])
      BY <2>5, CountersTyped DEF DisplayInv, ShownTyped, HostAgrees
    <3>2. counters'[t] = [counters[t] EXCEPT !["in_flight"] = @ - num(t), !["cancelled"] = @ + num(t)]
      BY <2>1
    <3>3. Moves(counters[t], counters'[t], num(t), { "cancelled" }, { "in_flight" })
      BY <3>1, <3>2 DEF Moves, Tallied, Names, Scheduler!CounterNames
    <3>4. CASE num(t) # 0
      <4>1. host'[t] = noteCancelled(host[t], num(t))
        BY <2>5, <2>a, <3>4 DEF Fresh
      <4>2. num(t) \in Nat /\ num(t) <= counters[t]["in_flight"]
        BY <2>2
      <4>. QED
        BY <3>1, <3>3, <4>1, <4>2, TallyCancelled
    <3>5. CASE num(t) = 0
      <4>1. \A f \in Tallied : counters[t][f] \in Nat
        BY <3>1 DEF Tallied, Names, Scheduler!CounterNames
      <4>2. \A f \in Tallied : counters'[t][f] = counters[t][f]
        BY <3>3, <3>5, <4>1 DEF Moves
      <4>3. host'[t] = host[t]
        BY <2>a, <3>5
      <4>. QED
        BY <3>1, <4>2, <4>3, TalliesSame, NothingNoted
    <3>. QED
      BY <3>4, <3>5
  <2>. QED
    BY <1>1, <2>3, <2>4, <2>5, ManyHops DEF DisplayInv, ShownTyped
<1>. QED
  BY <1>2, <1>3 DEF Grace

\* The probes whose time is over are noted as timeouts, or, beyond the
\* destination, apart.
LEMMA ExpireDisplays ==
  ASSUME DisplayInv, Proved!IInv, Proved!IInv', Expire
  PROVE  Plain
<1>1. UNCHANGED << data_epoch, epoch_, session_destination_ttl, result_vars, reported_cycles,
                   completed_cycles >>
  BY DEF Expire, Scheduler!expire, Scheduler!plan, LoopKeeps, shared_vars, scheduler_vars, display_vars
<1>2. CASE UNCHANGED << scheduler_vars, display_vars >>
  BY <1>1, <1>2, StillPlain DEF display_vars, scheduler_vars
<1>3. CASE /\ Scheduler!expire
           /\ host' = [t \in TTL |->
                LET n == Cardinality(ExpiredAt(t))
                IN  IF n = 0 \/ ~Fresh(epoch_) THEN host[t]
                    ELSE IF Beyond(t) THEN notePostDestinations(host[t], n)
                    ELSE noteTimeouts(host[t], n)]
           /\ display_max_ttl' =
                IF Fresh(epoch_)
                THEN Max({ display_max_ttl }
                         \cup { t \in TTL : ExpiredAt(t) # {} /\ ~Beyond(t) })
                ELSE display_max_ttl
  <2>. DEFINE num(t) == Cardinality(ExpiredAt(t))
              shown  == { display_max_ttl } \cup { t \in TTL : ExpiredAt(t) # {} /\ ~Beyond(t) }
  <2>1. counters' = [t \in TTL |->
           [counters[t] EXCEPT !["completed"] = @ + num(t), !["timed_out"] = @ + num(t),
                               !["in_flight"] = @ - num(t)]]
    BY <1>3, SameCounts DEF Scheduler!expire, TTL, ExpiredAt
  <2>2. \A t \in TTL : num(t) \in Nat
    <3>1. \A t \in TTL : ExpiredAt(t) \in SUBSET DOMAIN records_
      BY DEF ExpiredAt, Scheduler!Expired, Scheduler!InState
    <3>. QED
      BY <3>1, CountFacts
  <2>3. \A t \in TTL : num(t) <= counters[t]["in_flight"]
    <3>1. ASSUME NEW t \in TTL PROVE num(t) <= counters[t]["in_flight"]
      <4>a. Names = Proved!CounterNames
        BY DEF Names, Scheduler!CounterNames, Proved!CounterNames
      <4>b. counters' \in [TTL -> [Names -> Nat]]
        BY <4>a, SameSets DEF Proved!IInv, Proved!TypeOK, TTL
      <4>1. counters[t] \in [Names -> Nat] /\ counters'[t] \in [Names -> Nat]
        BY <4>b, CountersTyped
      <4>2. counters[t]["in_flight"] \in Nat /\ counters'[t]["in_flight"] \in Nat
        BY <4>1 DEF Names, Scheduler!CounterNames
      <4>3. counters'[t] = [counters[t] EXCEPT !["completed"] = @ + num(t),
                                !["timed_out"] = @ + num(t), !["in_flight"] = @ - num(t)]
        BY <2>1
      <4>4. counters'[t]["in_flight"] = counters[t]["in_flight"] - num(t)
        BY <4>1, <4>3 DEF Names, Scheduler!CounterNames
      <4>. QED
        BY <2>2, <4>2, <4>4
    <3>. QED
      BY <3>1
  <2>a. \A t \in TTL : host'[t] = IF num(t) = 0 \/ ~Fresh(epoch_) THEN host[t]
                                  ELSE IF Beyond(t) THEN notePostDestinations(host[t], num(t))
                                  ELSE noteTimeouts(host[t], num(t))
    BY <1>3
  <2>. HIDE DEF num
  <2>4. host' = [t \in TTL |-> host'[t]]
    BY <1>3
  <2>5. data_epoch # epoch_ => /\ display_max_ttl' = display_max_ttl
                               /\ \A t \in TTL : host'[t] = host[t]
    BY <1>3, <2>a DEF Fresh
  <2>6. display_max_ttl' \in {0} \cup TTL
    <3>1. display_max_ttl \in {0} \cup TTL
      BY DEF DisplayInv, ShownTyped
    <3>2. Options.max_hops \in Nat /\ {0} \cup TTL \subseteq 0 .. Options.max_hops
      BY HopFacts, OptionFacts
    <3>3. shown \in SUBSET (0 .. Options.max_hops) /\ shown # {} /\ shown \subseteq {0} \cup TTL
      BY <3>1, <3>2
    <3>4. display_max_ttl' = Max(shown) \/ display_max_ttl' = display_max_ttl
      BY <1>3
    <3>. HIDE DEF shown
    <3>5. Max(shown) \in shown
      BY <3>2, <3>3, MaxOfBounded
    <3>. QED
      BY <3>1, <3>3, <3>4, <3>5
  <2>7. ASSUME data_epoch = epoch_, NEW t \in TTL
        PROVE  Tallies(host'[t], counters'[t]) /\ NoReply(host[t], host'[t])
    <3>1. /\ host[t] \in Hop /\ counters[t] \in [Names -> Nat] /\ Tallies(host[t], counters[t])
      BY <2>7, CountersTyped DEF DisplayInv, ShownTyped, HostAgrees
    <3>2. counters'[t] = [counters[t] EXCEPT !["completed"] = @ + num(t),
                                !["timed_out"] = @ + num(t), !["in_flight"] = @ - num(t)]
      BY <2>1
    <3>3. Moves(counters[t], counters'[t], num(t), { "completed" }, { "in_flight" })
      BY <3>1, <3>2 DEF Moves, Tallied, Names, Scheduler!CounterNames
    <3>4. CASE num(t) # 0
      <4>1. \/ host'[t] = notePostDestinations(host[t], num(t))
            \/ host'[t] = noteTimeouts(host[t], num(t))
        BY <2>7, <2>a, <3>4 DEF Fresh
      <4>. QED
        BY <2>2, <2>3, <3>1, <3>3, <4>1, TallyTimeouts
    <3>5. CASE num(t) = 0
      <4>1. \A f \in Tallied : counters[t][f] \in Nat
        BY <3>1 DEF Tallied, Names, Scheduler!CounterNames
      <4>2. \A f \in Tallied : counters'[t][f] = counters[t][f]
        BY <3>3, <3>5, <4>1 DEF Moves
      <4>3. host'[t] = host[t]
        BY <2>a, <3>5
      <4>. QED
        BY <3>1, <4>2, <4>3, TalliesSame, NothingNoted
    <3>. QED
      BY <3>4, <3>5
  <2>. QED
    BY <1>1, <2>4, <2>5, <2>6, <2>7, ManyHops
<1>. QED
  BY <1>2, <1>3 DEF Expire

\* A request belongs to the scheduler's epoch or to one before.
RequestsPast == \A s \in DOMAIN requests : requests[s].epoch <= epoch_

LEMMA PastStep ==
  ASSUME LoopUses, RequestsPast, [Next]_vars
  PROVE  RequestsPast'
<1>1. /\ epoch_ \in Nat /\ data_epoch \in Nat /\ epoch_ <= data_epoch
      /\ epoch_' \in Nat
  <2>1. EpochOK /\ EpochOK'
    BY UsesKept DEF LoopUses, LoopTypes
  <2>. QED
    BY <2>1, TraceLoopAssumption DEF EpochOK
<1>2. \A s \in DOMAIN requests : requests[s].epoch \in Nat
  BY RecordFacts, RequestTtl DEF LoopUses, LoopInv, RequestsMatchRecords
<1>3. epoch_ <= epoch_'
  <2>1. CASE Complete
    BY <1>1, <2>1 DEF Complete, Scheduler!complete, Scheduler!plan
  <2>2. CASE Issue
    <3>1. epoch_' = epoch_
      BY <2>2 DEF Issue, IssueCached, IssueFails, IssueSends, Scheduler!mark_cached,
         Scheduler!plan, Scheduler!mark_issue_failed, Scheduler!mark_issued, Scheduler!Unreserve
    <3>. QED
      BY <1>1, <3>1
  <2>3. ASSUME AdoptEpoch \/ Scheduler!begin_drain \/ Scheduler!cancel_pending \/ Scheduler!expire
               \/ Scheduler!reserve_due \/ (\E ttl, at : SetLastTtl(ttl, at)) \/ UNCHANGED scheduler_vars
        PROVE  epoch_ <= epoch_'
    <3>1. epoch_' = epoch_ \/ epoch_' = data_epoch
      BY <2>3 DEF AdoptEpoch, Scheduler!begin_drain, Scheduler!cancel_pending, Scheduler!expire,
         Scheduler!plan, Scheduler!reserve_due, SetLastTtl, Scheduler!set_last_ttl,
         Scheduler!restart, scheduler_vars
    <3>. QED
      BY <1>1, <3>1
  <2>4. CASE Drain \/ FollowDestination \/ CheckStop \/ Expire \/ Grace \/ Reserve \/ Refresh \/ CheckQuota
    BY <2>3, <2>4 DEF Drain, FollowDestination, CheckStop, Expire, Grace, Reserve, Refresh, CheckQuota
  <2>5. CASE ReadClock
    BY <1>1, <2>5 DEF ReadClock
  <2>6. CASE \/ Exit \/ Wake
             \/ \E s \in DOMAIN requests : Answer(s) \/ Push(s)
             \/ ResetHops \/ RequestStop \/ Tick \/ UNCHANGED vars
    <3>1. UNCHANGED scheduler_vars
      BY <2>6 DEF Exit, Wake, Answer, Push, WorkersKeep, ResetHops, RequestStop, Tick,
         InterfaceKeeps, vars
    <3>. QED
      BY <2>3, <3>1
  <2>. QED
    BY <2>1, <2>2, <2>4, <2>5, <2>6 DEF Next, Loop, Returned
<1>4. \A s \in DOMAIN requests' :
        \/ s \in DOMAIN requests /\ requests'[s].epoch = requests[s].epoch
        \/ requests'[s].epoch = epoch_
  <2>1. CASE Complete
    BY <2>1 DEF Complete
  <2>2. CASE Issue
    <3>1. \/ requests' = requests
          \/ requests' = [s \in DOMAIN requests \cup {Slot} |->
               IF s = Slot THEN scheduled_probe(SlotTtl, epoch_) ELSE requests[s]]
      BY <2>2 DEF Issue, IssueCached, IssueFails, IssueSends
    <3>2. scheduled_probe(SlotTtl, epoch_).epoch = epoch_
      BY DEF scheduled_probe
    <3>. HIDE DEF scheduled_probe, Slot, SlotTtl
    <3>. QED
      BY <3>1, <3>2
  <2>3. CASE \E s \in DOMAIN requests : Answer(s) \/ Push(s)
    <3>1. PICK s \in DOMAIN requests : Answer(s) \/ Push(s)
      BY <2>3
    <3>2. /\ DOMAIN requests' = DOMAIN requests
          /\ \A r \in DOMAIN requests \ {s} : requests'[r] = requests[r]
      BY <3>1 DEF Answer, Push
    <3>3. requests'[s].epoch = requests[s].epoch
      <4>1. CASE Answer(s)
        <5>1. PICK kind \in Scheduler!CompletionKind, destination \in BOOLEAN :
                requests' = [requests EXCEPT ![s] =
                  [@ EXCEPT !.stage = "answered", !.kind = kind,
                            !.destination = destination, !.completed_at = clock]]
          BY <4>1 DEF Answer
        <5>2. requests'[s] = [ ttl |-> requests[s].ttl, epoch |-> requests[s].epoch,
                               stage |-> "answered", kind |-> kind,
                               destination |-> destination, completed_at |-> clock ]
          BY <5>1, RequestExcept DEF LoopUses, LoopInv, RequestMap
        <5>. QED
          BY <5>2
      <4>2. CASE Push(s)
        <5>1. requests'[s] = [ ttl |-> requests[s].ttl, epoch |-> requests[s].epoch, stage |-> "pushed",
                               kind |-> requests[s].kind, destination |-> requests[s].destination,
                               completed_at |-> requests[s].completed_at ]
          BY <4>2 DEF Push, LoopUses, LoopInv, RequestMap
        <5>. QED
          BY <5>1
      <4>. QED
        BY <3>1, <4>1, <4>2
    <3>. QED
      BY <3>2, <3>3
  <2>4. CASE ReadClock \/ Drain \/ FollowDestination \/ CheckStop \/ Expire \/ Grace \/ Reserve
             \/ Refresh \/ CheckQuota
    BY <2>4 DEF ReadClock, Drain, FollowDestination, CheckStop, Expire, Grace, Reserve, Refresh,
       CheckQuota
  <2>5. CASE Exit \/ Wake \/ ResetHops \/ RequestStop \/ Tick \/ UNCHANGED vars
    BY <2>5 DEF Exit, Wake, ResetHops, RequestStop, Tick, InterfaceKeeps, vars
  <2>. QED
    BY <2>1, <2>2, <2>3, <2>4, <2>5 DEF Next, Loop, Returned
<1>. QED
  BY <1>1, <1>2, <1>3, <1>4 DEF RequestsPast

LEMMA TalliesTick ==
  ASSUME NEW h \in Hop, NEW c, NEW tick \in Nat, Tallies(h, c)
  PROVE  LET g == [h EXCEPT !["last_destination_reply_tick"] = tick]
         IN  /\ g \in Hop /\ Tallies(g, c) /\ g["returned"] = h["returned"]
             /\ g["last_destination_reply_tick"] = tick
<1>. DEFINE g == [h EXCEPT !["last_destination_reply_tick"] = tick]
<1>1. /\ g \in Hop /\ \A f \in HopCounters : g[f] = h[f]
      /\ g["last_destination_reply_tick"] = tick
  BY DEF Hop, Fields, HopCounters, HopTicks
<1>. HIDE DEF g
<1>2. Tallies(g, c) /\ g["returned"] = h["returned"]
  BY <1>1 DEF Tallies, HopCounters
<1>. QED
  BY <1>1, <1>2 DEF g

\* What the result at hand is about.
LEMMA ResultFacts ==
  ASSUME LoopUses, Proved!LiveRecordsAreCurrent, RequestsPast, Complete
  PROVE  LET s == Head(batch)
             live == records_[s].state \in { "issued", "timed_out", "cancelled" }
         IN  /\ s \in DOMAIN requests /\ s \in Scheduler!Outstanding /\ s \in DOMAIN records_
             /\ Request.ttl = records_[s].ttl /\ Request.ttl \in TTL
             /\ Request.destination \in BOOLEAN /\ Request.completed_at \in Nat
             /\ Request.kind \in { "reply", "timeout", "local_error" }
             /\ records_[s].state \in { "issued", "timed_out", "cancelled", "ignored_epoch" }
             /\ live => (Fresh(Request.epoch) <=> data_epoch = epoch_)
             /\ data_epoch # epoch_ => ~Fresh(Request.epoch)
<1>. DEFINE s == Head(batch)
<1>1. /\ s \in DOMAIN requests /\ s \in Scheduler!Outstanding
  BY HeadIsKnown DEF LoopUses, Complete, ResultsAreKnown
<1>2. s \in DOMAIN records_ /\ records_[s].state # "reserved"
  BY <1>1 DEF Scheduler!Outstanding
<1>3. /\ Request.ttl = records_[s].ttl /\ Request.epoch = records_[s].epoch
  BY <1>1 DEF LoopUses, LoopInv, RequestsMatchRecords, Request
<1>4. Request.ttl \in TTL
  BY <1>2, <1>3, RecordFacts DEF LoopUses
<1>5. records_[s] \in Proved!Records
  BY <1>2 DEF LoopUses, Proved!IInv, Proved!TypeOK
<1>6. records_[s].state \in { "issued", "timed_out", "cancelled", "ignored_epoch" }
  BY <1>2, <1>5 DEF Proved!Records, Proved!RecordState
<1>7. /\ Request.destination \in BOOLEAN /\ Request.kind \in Scheduler!CompletionKind
      /\ Request.completed_at \in 0 .. clock
  BY <1>1 DEF LoopUses, LoopTypes, RequestsOK, Request
<1>8. Request.completed_at \in Nat
  BY <1>7, TraceLoopAssumption DEF LoopUses, LoopTypes, ClockOK
<1>9. records_[s].state \in { "issued", "timed_out", "cancelled" } => records_[s].epoch = epoch_
  BY <1>2 DEF Proved!LiveRecordsAreCurrent
<1>10. /\ Request.epoch \in Nat /\ epoch_ \in Nat /\ data_epoch \in Nat
       /\ Request.epoch <= epoch_ /\ epoch_ <= data_epoch
  <2>1. Request.epoch \in Nat
    BY <1>2, <1>3, RecordFacts DEF LoopUses
  <2>2. Request.epoch <= epoch_
    BY <1>1 DEF RequestsPast, Request
  <2>. QED
    BY <2>1, <2>2, TraceLoopAssumption DEF LoopUses, LoopTypes, EpochOK
<1>. HIDE DEF s
<1>11. /\ records_[s].state \in { "issued", "timed_out", "cancelled" }
            => (Fresh(Request.epoch) <=> data_epoch = epoch_)
       /\ data_epoch # epoch_ => ~Fresh(Request.epoch)
  BY <1>3, <1>9, <1>10 DEF Fresh
<1>. QED
  BY <1>1, <1>2, <1>3, <1>4, <1>6, <1>7, <1>8, <1>11 DEF Scheduler!CompletionKind, s

\* What the scheduler counts for it.
LEMMA CompleteCounts ==
  ASSUME LoopUses, Proved!IInv', Proved!LiveRecordsAreCurrent, RequestsPast, Complete
  PROVE  LET t == Request.ttl
             held == IF records_[Head(batch)].state = "issued" THEN { "in_flight" } ELSE {}
         IN  /\ counters[t] \in [Names -> Nat] /\ counters'[t] \in [Names -> Nat]
             /\ Moves(counters[t], counters'[t], 1, Scheduler!Raised(disposition), held)
             /\ \A u \in TTL : u # t => counters'[u] = counters[u]
             /\ records_[Head(batch)].state = "issued" => 1 <= counters[t]["in_flight"]
             /\ UNCHANGED << data_epoch, epoch_, reported_cycles >>
<1>. DEFINE t == Request.ttl
            s == Head(batch)
            held == IF records_[s].state = "issued" THEN { "in_flight" } ELSE {}
            up == Scheduler!Raised(disposition)
<1>1. /\ s \in Scheduler!Outstanding /\ t = records_[s].ttl /\ t \in TTL
  BY ResultFacts
<1>2. counters' = Scheduler!Count(t, up, Scheduler!Lowered(s))
  BY <1>1 DEF Complete, Scheduler!complete, disposition
<1>3. counters \in [TTL -> [Names -> Nat]]
  BY CountersTyped DEF LoopUses
<1>4. counters' \in [TTL -> [Names -> Nat]]
  <2>1. Names = Proved!CounterNames
    BY DEF Names, Scheduler!CounterNames, Proved!CounterNames
  <2>. QED
    BY <2>1, SameSets DEF Proved!IInv, Proved!TypeOK, TTL
<1>5. /\ Moves(counters[t], counters'[t], 1, up, Scheduler!Lowered(s))
      /\ \A u \in TTL : u # t => counters'[u] = counters[u]
  BY <1>1, <1>2, <1>3, CountMoves
<1>6. \A f \in Tallied : f \in Scheduler!Lowered(s) <=> f \in held
  BY DEF Tallied, Scheduler!Lowered
<1>7. Moves(counters[t], counters'[t], 1, up, held)
  BY <1>5, <1>6 DEF Moves
<1>8. records_[s].state = "issued" => 1 <= counters[t]["in_flight"]
  <2>1. counters[t]["in_flight"] \in Nat /\ counters'[t]["in_flight"] \in Nat
    BY <1>1, <1>3, <1>4 DEF Names, Scheduler!CounterNames
  <2>2. "in_flight" \notin up /\ "in_flight" \in Tallied
    BY DEF Scheduler!Raised, Tallied
  <2>3. records_[s].state = "issued" => counters'[t]["in_flight"] = counters[t]["in_flight"] - 1
    BY <1>7, <2>2 DEF Moves
  <2>. QED
    BY <2>1, <2>3
<1>9. UNCHANGED << data_epoch, epoch_, reported_cycles >>
  BY DEF Complete, Scheduler!complete, Scheduler!plan, LoopKeeps, shared_vars
<1>. QED
  BY <1>1, <1>3, <1>4, <1>5, <1>7, <1>8, <1>9

\* What complete() says of a result, by the state of its record.
LEMMA Dispositions ==
  ASSUME LoopUses, Proved!LiveRecordsAreCurrent, RequestsPast, Complete
  PROVE  LET state == records_[Head(batch)].state
         IN  /\ state = "ignored_epoch" => disposition = "ignored_epoch"
             /\ state = "cancelled" => disposition = "cancelled"
             /\ state = "timed_out" => disposition = "late_discarded"
             /\ state = "issued" =>
                  disposition \in { "accepted_reply", "accepted_timeout", "accepted_local_error",
                                    "late_discarded_after_timeout" }
             /\ state \in { "ignored_epoch", "cancelled", "timed_out", "issued" }
<1>1. /\ Head(batch) \in Scheduler!Outstanding
      /\ records_[Head(batch)].state \in { "issued", "timed_out", "cancelled", "ignored_epoch" }
  BY ResultFacts
<1>. QED
  BY <1>1 DEF disposition, Scheduler!Disposition

\* The commit of the result at hand, one disposition at a time.
LEMMA CommitCases ==
  ASSUME CommitCompletion
  PROVE  LET t == Request.ttl
             e == Request.epoch
             hop == host[t]
         IN  /\ disposition \in { "ignored_epoch", "cancelled" } => UNCHANGED display_vars
             /\ disposition = "late_discarded" => CommitHop(t, e, noteLateCompletion(hop))
             /\ accepted_after_destination =>
                  CommitHop(t, e, IF disposition = "late_discarded_after_timeout"
                                  THEN noteLateCompletion(notePostDestinations(hop, 1))
                                  ELSE notePostDestinations(hop, 1))
             /\ ~accepted_after_destination =>
                  /\ disposition = "accepted_reply" =>
                       commitReply(t, e, GetTickCount64(Request.completed_at), Request.destination)
                  /\ disposition = "accepted_timeout" => CommitShown(t, e, noteTimeouts(hop, 1))
                  /\ disposition = "accepted_local_error" => CommitHop(t, e, noteLocalError(hop, TRUE))
                  /\ disposition = "late_discarded_after_timeout" =>
                       CommitShown(t, e, noteLateCompletion(noteTimeouts(hop, 1)))
<1>. DEFINE t == Request.ttl
            e == Request.epoch
            hop == host[t]
<1>1. CASE accepted_after_destination
  <2>1. disposition \notin { "ignored_epoch", "cancelled", "late_discarded" }
    BY <1>1 DEF accepted_after_destination
  <2>2. CommitHop(t, e, IF disposition = "late_discarded_after_timeout"
                        THEN noteLateCompletion(notePostDestinations(hop, 1))
                        ELSE notePostDestinations(hop, 1))
    <3>1. /\ ~(disposition \in { "cancelled", "ignored_epoch", "unknown_token" })
          /\ disposition # "late_discarded"
      BY <1>1 DEF accepted_after_destination
    <3>. QED
      BY <1>1, <3>1 DEF CommitCompletion
  <2>. QED
    BY <1>1, <2>1, <2>2
<1>2. CASE ~accepted_after_destination
  <2>1. disposition = "accepted_reply" =>
          commitReply(t, e, GetTickCount64(Request.completed_at), Request.destination)
    BY <1>2 DEF CommitCompletion
  <2>2. disposition = "accepted_timeout" => CommitShown(t, e, noteTimeouts(hop, 1))
    BY <1>2 DEF CommitCompletion
  <2>3. disposition = "accepted_local_error" => CommitHop(t, e, noteLocalError(hop, TRUE))
    BY <1>2 DEF CommitCompletion
  <2>4. disposition = "late_discarded_after_timeout" =>
          CommitShown(t, e, noteLateCompletion(noteTimeouts(hop, 1)))
    BY <1>2 DEF CommitCompletion
  <2>5. disposition = "late_discarded" => CommitHop(t, e, noteLateCompletion(hop))
    BY <1>2 DEF CommitCompletion
  <2>6. disposition \in { "ignored_epoch", "cancelled" } => UNCHANGED display_vars
    BY <1>2 DEF CommitCompletion
  <2>. QED
    BY <1>2, <2>1, <2>2, <2>3, <2>4, <2>5, <2>6
<1>. QED
  BY <1>1, <1>2

\* A result that is no reply that counts is noted as such, or not at all.
LEMMA OtherResults ==
  ASSUME LoopUses, Proved!IInv', Proved!LiveRecordsAreCurrent, RequestsPast, DisplayInv, Complete,
         ~(disposition = "accepted_reply" /\ ~accepted_after_destination)
  PROVE  Plain
<1>. DEFINE t     == Request.ttl
            e     == Request.epoch
            hop   == host[t]
            c     == counters[t]
            d     == counters'[t]
            state == records_[Head(batch)].state
            held  == IF state = "issued" THEN { "in_flight" } ELSE {}
            up    == Scheduler!Raised(disposition)
            after == disposition = "late_discarded_after_timeout"
            late  == noteLateCompletion(notePostDestinations(hop, 1))
            post  == notePostDestinations(hop, 1)
<1>1. /\ t \in TTL /\ state \in { "issued", "timed_out", "cancelled", "ignored_epoch" }
      /\ state \in { "issued", "timed_out", "cancelled" } => (Fresh(e) <=> data_epoch = epoch_)
      /\ data_epoch # epoch_ => ~Fresh(e)
  BY ResultFacts
<1>2. /\ c \in [Names -> Nat] /\ d \in [Names -> Nat]
      /\ Moves(c, d, 1, up, held)
      /\ \A u \in TTL : u # t => counters'[u] = counters[u]
      /\ state = "issued" => 1 <= c["in_flight"]
      /\ UNCHANGED << data_epoch, epoch_, reported_cycles >>
  BY CompleteCounts
<1>3. hop \in Hop /\ (data_epoch = epoch_ => Tallies(hop, c))
  BY <1>1 DEF DisplayInv, ShownTyped, HostAgrees
<1>4. UNCHANGED result_vars
  BY DEF Complete, NoteReply
<1>5. CommitCompletion
  BY DEF Complete
<1>6. /\ state = "ignored_epoch" => disposition = "ignored_epoch"
      /\ state = "cancelled" => disposition = "cancelled"
      /\ state = "timed_out" => disposition = "late_discarded"
      /\ state = "issued" =>
           disposition \in { "accepted_reply", "accepted_timeout", "accepted_local_error",
                             "late_discarded_after_timeout" }
  BY Dispositions
<1>7. ASSUME NEW g, CommitHop(t, e, g) \/ CommitShown(t, e, g),
             state \in { "issued", "timed_out" },
             data_epoch = epoch_ => Tallies(g, d) /\ NoReply(hop, g)
      PROVE  Plain
  <2>1. /\ host' = IF data_epoch = epoch_ THEN [host EXCEPT ![t] = g] ELSE host
        /\ display_max_ttl' = (IF data_epoch = epoch_ THEN Route!Larger(display_max_ttl, t)
                               ELSE display_max_ttl) \/ display_max_ttl' = display_max_ttl
        /\ UNCHANGED << session_destination_ttl, completed_cycles >>
    BY <1>1, <1>7 DEF CommitHop, CommitShown
  <2>. HIDE DEF t
  <2>. QED
    BY <1>1, <1>2, <1>4, <1>7, <2>1, OneHop
<1>8. CASE state \in { "ignored_epoch", "cancelled" }
  <2>1. UNCHANGED display_vars
    BY <1>5, <1>6, <1>8, CommitCases
  <2>2. Scheduler!Raised(disposition) = {}
    BY <1>6, <1>8 DEF Scheduler!Raised
  <2>3. \A f \in Tallied : d[f] = c[f]
    BY <1>2, <1>8, <2>2 DEF Moves
  <2>4. ASSUME data_epoch = epoch_, NEW u \in TTL PROVE Tallies(host[u], counters'[u])
    <3>1. Tallies(host[u], counters[u])
      BY <2>4 DEF DisplayInv, HostAgrees
    <3>. HIDE DEF t, hop
    <3>. QED
      BY <1>2, <2>3, <3>1, TalliesSame
  <2>. QED
    BY <1>2, <1>4, <2>1, <2>4, NothingNoted DEF Plain, DisplayInv, ShownTyped, display_vars, result_vars
<1>9. CASE state = "timed_out"
  <2>1. CommitHop(t, e, noteLateCompletion(hop))
    BY <1>5, <1>6, <1>9, CommitCases
  <2>2. Scheduler!Raised(disposition) = { "late_completions" }
    BY <1>6, <1>9 DEF Scheduler!Raised
  <2>3. Moves(c, d, 1, { "late_completions" }, {})
    BY <1>2, <1>9, <2>2
  <2>4. data_epoch = epoch_ => /\ Tallies(noteLateCompletion(hop), d)
                               /\ NoReply(hop, noteLateCompletion(hop))
    BY <1>2, <1>3, <2>3, TallySkipped DEF noteLateCompletion
  <2>. QED
    BY <1>7, <1>9, <2>1, <2>4
<1>10. CASE state = "issued" /\ after
  <2>1. Moves(c, d, 1, { "completed", "late_completions" }, { "in_flight" })
    BY <1>2, <1>10 DEF Moves, Tallied, Scheduler!Raised
  <2>. DEFINE shown == noteLateCompletion(noteTimeouts(hop, 1))
  <2>2. data_epoch = epoch_ => /\ Tallies(shown, d) /\ NoReply(hop, shown)
                               /\ Tallies(late, d) /\ NoReply(hop, late)
    BY <1>2, <1>3, <1>10, <2>1, TallyLate
  <2>3. CommitShown(t, e, shown) \/ CommitHop(t, e, late)
    BY <1>5, <1>10, CommitCases
  <2>. HIDE DEF shown, late
  <2>. QED
    BY <1>7, <1>10, <2>2, <2>3
<1>11. CASE state = "issued" /\ disposition \in { "accepted_reply", "accepted_timeout" }
  <2>1. Moves(c, d, 1, { "completed" }, { "in_flight" })
    BY <1>2, <1>11 DEF Moves, Tallied, Scheduler!Raised
  <2>. DEFINE shown == noteTimeouts(hop, 1)
  <2>2. data_epoch = epoch_ => /\ Tallies(shown, d) /\ NoReply(hop, shown)
                               /\ Tallies(post, d) /\ NoReply(hop, post)
    BY <1>2, <1>3, <1>11, <2>1, TallyTimeouts
  <2>3. CommitShown(t, e, shown) \/ CommitHop(t, e, post)
    BY <1>5, <1>11, CommitCases
  <2>. HIDE DEF shown, post
  <2>. QED
    BY <1>7, <1>11, <2>2, <2>3
<1>12. CASE state = "issued" /\ disposition = "accepted_local_error"
  <2>1. Moves(c, d, 1, { "local_errors" }, { "in_flight" })
    BY <1>2, <1>12 DEF Moves, Tallied, Scheduler!Raised
  <2>. DEFINE shown == noteLocalError(hop, TRUE)
  <2>2. data_epoch = epoch_ => /\ Tallies(shown, d) /\ NoReply(hop, shown)
                               /\ Tallies(post, d) /\ NoReply(hop, post)
    BY <1>2, <1>3, <1>12, <2>1, TallyLocalError
  <2>3. CommitHop(t, e, shown) \/ CommitHop(t, e, post)
    BY <1>5, <1>12, CommitCases
  <2>. HIDE DEF shown, post
  <2>. QED
    BY <1>7, <1>12, <2>2, <2>3
<1>. QED
  BY <1>1, <1>6, <1>8, <1>9, <1>10, <1>11, <1>12

\* A reply that counts is shown, and is what DoTrace() will return.
LEMMA ReplyResult ==
  ASSUME LoopUses, Proved!IInv', Proved!LiveRecordsAreCurrent, RequestsPast, DisplayInv, Complete,
         disposition = "accepted_reply", ~accepted_after_destination
  PROVE  DisplayInv'
<1>. DEFINE t    == Request.ttl
            hop  == host[t]
            tick == GetTickCount64(Request.completed_at)
            h1   == noteReply(hop, tick)
            g    == IF Request.destination
                    THEN [h1 EXCEPT !["last_destination_reply_tick"] = tick] ELSE h1
<1>1. /\ t \in TTL /\ t # 0
      /\ records_[Head(batch)].state = "issued" /\ (Fresh(Request.epoch) <=> data_epoch = epoch_)
      /\ Request.destination \in BOOLEAN /\ tick \in Nat
  <2>1. records_[Head(batch)].state = "issued"
    BY Dispositions
  <2>2. /\ Request.ttl \in TTL /\ Request.destination \in BOOLEAN
        /\ Request.completed_at \in Nat
        /\ Fresh(Request.epoch) <=> data_epoch = epoch_
    BY <2>1, ResultFacts
  <2>3. Request.ttl # 0
    BY <2>2, HopFacts, OptionFacts
  <2>4. tick \in Nat
    BY <2>2 DEF GetTickCount64
  <2>. QED
    BY <2>1, <2>2, <2>3, <2>4
<1>2. /\ counters[t] \in [Names -> Nat] /\ counters'[t] \in [Names -> Nat]
      /\ \A u \in TTL : u # t => counters'[u] = counters[u]
      /\ Moves(counters[t], counters'[t], 1, Scheduler!Raised(disposition), { "in_flight" })
      /\ 1 <= counters[t]["in_flight"]
      /\ UNCHANGED << data_epoch, epoch_, reported_cycles >>
  BY <1>1, CompleteCounts
<1>3. Moves(counters[t], counters'[t], 1, { "completed" }, { "in_flight" })
  BY <1>2 DEF Moves, Tallied, Scheduler!Raised
<1>4. /\ session_had_usable_reply' = TRUE
      /\ session_reached_destination' = (session_reached_destination \/ Request.destination)
  BY DEF Complete, NoteReply
<1>5. commitReply(t, Request.epoch, tick, Request.destination)
  BY CommitCases DEF Complete
<1>6. CASE data_epoch # epoch_
  <2>1. UNCHANGED display_vars
    BY <1>1, <1>5, <1>6 DEF commitReply
  <2>2. session_reached_destination' \in BOOLEAN
    BY <1>1, <1>4, Zenon DEF DisplayInv, ShownTyped
  <2>. QED
    BY <1>2, <1>4, <1>6, <2>1, <2>2
    DEF DisplayInv, ShownTyped, HostAgrees, DestinationSeen, ResetIsClean, ResultAgreesWithDisplay,
        display_vars
<1>7. CASE data_epoch = epoch_
  <2>1. hop \in Hop /\ Tallies(hop, counters[t])
    BY <1>1, <1>7 DEF DisplayInv, ShownTyped, HostAgrees
  <2>2. /\ h1 \in Hop /\ Tallies(h1, counters'[t]) /\ h1["returned"] > 0
        /\ h1["last_destination_reply_tick"] = hop["last_destination_reply_tick"]
    BY <1>1, <1>2, <1>3, <2>1, TallyReply
  <2>. HIDE DEF h1, tick
  <2>3. /\ g \in Hop /\ Tallies(g, counters'[t]) /\ g["returned"] > 0
        /\ ~Request.destination =>
             g["last_destination_reply_tick"] = hop["last_destination_reply_tick"]
    <3>1. CASE Request.destination
      BY <1>1, <2>2, <3>1, TalliesTick
    <3>2. CASE ~Request.destination
      BY <2>2, <3>2
    <3>. QED
      BY <3>1, <3>2
  <2>4. /\ host' = [host EXCEPT ![t] = g]
        /\ display_max_ttl' = Route!Larger(display_max_ttl, t)
        /\ session_destination_ttl' =
             IF ~Request.destination THEN session_destination_ttl
             ELSE IF session_destination_ttl = 0 THEN t
             ELSE Route!Smaller(session_destination_ttl, t)
        /\ UNCHANGED completed_cycles
    BY <1>1, <1>5, <1>7 DEF commitReply, h1
  <2>. HIDE DEF g
  <2>5. host = [u \in TTL |-> host[u]] /\ \A u \in TTL : host[u] \in Hop
    BY DEF DisplayInv, ShownTyped
  <2>6. /\ host' \in [TTL -> Hop] /\ host'[t] = g
        /\ \A u \in TTL : u # t => host'[u] = host[u]
    BY <1>1, <2>3, <2>4, <2>5
  <2>7. /\ session_destination_ttl' # 0 <=> (session_destination_ttl # 0 \/ Request.destination)
        /\ session_destination_ttl' \in {0} \cup TTL /\ display_max_ttl' \in {0} \cup TTL
    BY <1>1, <2>4, HopFacts, OptionFacts DEF DisplayInv, ShownTyped, Route!Smaller, Route!Larger
  <2>8. ShownTyped'
    <3>1. session_reached_destination' \in BOOLEAN
      BY <1>1, <1>4, Zenon DEF DisplayInv, ShownTyped
    <3>. QED
      BY <1>2, <1>4, <2>4, <2>6, <2>7, <3>1 DEF DisplayInv, ShownTyped
  <2>9. HostAgrees'
    <3>1. \A u \in TTL : Tallies(host'[u], counters'[u])
      BY <1>2, <1>7, <2>3, <2>6 DEF DisplayInv, HostAgrees
    <3>. QED
      BY <3>1 DEF HostAgrees
  <2>10. DestinationSeen'
    BY <1>1, <2>3, <2>6, <2>7 DEF DisplayInv, DestinationSeen
  <2>11. ResetIsClean'
    BY <1>2, <1>7 DEF ResetIsClean
  <2>12. ResultAgreesWithDisplay'
    <3>1. \E u \in TTL : host'[u]["returned"] > 0
      BY <1>1, <2>3, <2>6
    <3>2. session_reached_destination' <=> session_destination_ttl' # 0
      BY <1>4, <1>7, <2>7 DEF DisplayInv, ResultAgreesWithDisplay
    <3>. QED
      BY <1>4, <3>1, <3>2 DEF ResultAgreesWithDisplay
  <2>. QED
    BY <2>8, <2>9, <2>10, <2>11, <2>12 DEF DisplayInv
<1>. QED
  BY <1>6, <1>7

-----------------------------------------------------------------------------
\* The statistics, the display and the result

LEMMA DisplayInit == Init => DisplayInv
<1>. SUFFICES ASSUME Init PROVE DisplayInv
  OBVIOUS
<1>1. /\ host = [t \in TTL |-> s_nethost] /\ data_epoch = FirstEpoch /\ epoch_ = FirstEpoch
      /\ display_max_ttl = 0 /\ session_destination_ttl = 0 /\ completed_cycles = 0
      /\ reported_cycles = 0 /\ session_reached_destination = FALSE
      /\ session_had_usable_reply = FALSE
      /\ counters = [t \in TTL |-> Scheduler!ZeroCounters]
  BY DEF Init, Scheduler!Init, TTL
<1>2. \A t \in TTL : \A f \in Tallied : counters[t][f] = 0
  BY <1>1 DEF Tallied, Scheduler!ZeroCounters, Scheduler!CounterNames
<1>. HIDE DEF s_nethost
<1>3. ShownTyped /\ DestinationSeen /\ ResetIsClean /\ ResultAgreesWithDisplay
  <2>1. \A t \in TTL : /\ host[t] = s_nethost /\ host[t]["returned"] = 0
                       /\ host[t]["last_destination_reply_tick"] = 0
    BY <1>1, ZeroHop
  <2>2. host \in [TTL -> Hop]
    BY <1>1, ZeroHop
  <2>3. ShownTyped
    BY <1>1, <2>2 DEF ShownTyped
  <2>4. DestinationSeen
    BY <2>1 DEF DestinationSeen
  <2>5. ResetIsClean
    BY <1>1 DEF ResetIsClean
  <2>6. ~ \E t \in TTL : host[t]["returned"] > 0
    BY <2>1
  <2>7. ResultAgreesWithDisplay
    BY <1>1, <2>6 DEF ResultAgreesWithDisplay
  <2>. QED
    BY <2>3, <2>4, <2>5, <2>7
<1>4. HostAgrees
  BY <1>1, <1>2, ZeroTallies DEF HostAgrees
<1>. QED
  BY <1>3, <1>4 DEF DisplayInv

LEMMA DisplayStep ==
  ASSUME LoopUses, Proved!LiveRecordsAreCurrent, RequestsPast, DisplayInv, [Next]_vars
  PROVE  DisplayInv'
<1>1. Proved!IInv /\ Proved!IInv' /\ EpochOK
  BY UsesKept DEF LoopUses, LoopTypes
<1>2. CASE Drain
  BY <1>2, DrainDisplays
<1>3. CASE ResetHops
  BY <1>1, <1>3, ResetDisplays
<1>4. CASE Complete
  <2>1. CASE disposition = "accepted_reply" /\ ~accepted_after_destination
    BY <1>1, <1>4, <2>1, ReplyResult
  <2>2. CASE ~(disposition = "accepted_reply" /\ ~accepted_after_destination)
    BY <1>1, <1>4, <2>2, OtherResults, PlainKeeps
  <2>. QED
    BY <2>1, <2>2
<1>5. CASE Refresh
  BY <1>1, <1>5, RefreshDisplays, PlainKeeps
<1>6. CASE Issue
  BY <1>1, <1>6, IssueDisplays, PlainKeeps
<1>7. CASE Reserve
  BY <1>1, <1>7, ReserveDisplays, PlainKeeps
<1>8. CASE Grace
  BY <1>1, <1>8, GraceDisplays, PlainKeeps
<1>9. CASE Expire
  BY <1>1, <1>9, ExpireDisplays, PlainKeeps
<1>10. CASE \/ ReadClock \/ FollowDestination \/ CheckStop \/ CheckQuota \/ Exit \/ Wake
            \/ \E s \in DOMAIN requests : Answer(s) \/ Push(s)
            \/ RequestStop \/ Tick \/ UNCHANGED vars
  BY <1>10, StillSteps, PlainKeeps
<1>. QED
  BY <1>2, <1>3, <1>4, <1>5, <1>6, <1>7, <1>8, <1>9, <1>10 DEF Next, Loop, Returned

LEMMA RecordsStayCurrent == Spec => []Proved!LiveRecordsAreCurrent
<1>1. Proved!Spec => []Proved!LiveRecordsAreCurrent
  BY ConfigIsLegal, Proved!LiveIsCurrent
<1>. QED
  BY <1>1, SchedulerRuns, PTL

LEMMA DisplayInvariant == Spec => [](RequestsPast /\ DisplayInv)
<1>1. Init => RequestsPast
  <2>1. Init => DOMAIN requests = {}
    BY DEF Init
  <2>. QED
    BY <2>1 DEF RequestsPast
<1>2. LoopUses /\ RequestsPast /\ [Next]_vars => RequestsPast'
  BY PastStep
<1>3. LoopUses /\ Proved!LiveRecordsAreCurrent /\ RequestsPast /\ DisplayInv /\ [Next]_vars
        => DisplayInv'
  BY DisplayStep
<1>. QED
  BY <1>1, <1>2, <1>3, DisplayInit, LoopUsesInvariant, RecordsStayCurrent, PTL DEF Spec

\* Whatever the order of replies, timeouts, resets and cancellations, the
\* statistics of an epoch are the scheduler's counts of it.
THEOREM StatisticsAlwaysAgree == Spec => []StatisticsAgree
<1>1. DisplayInv => StatisticsAgree
  BY DEF DisplayInv, HostAgrees, Tallies, StatisticsAgree
<1>. QED
  BY <1>1, DisplayInvariant, PTL

LEMMA SchedulerTyped == Proved!TypeOK => Scheduler!TypeOK
<1>1. Scheduler!TypeOK <=> Proved!TypeOK
  BY Zenon DEF
       Scheduler!TypeOK, Scheduler!Records, Scheduler!RecordState, Scheduler!CounterNames,
       Scheduler!TTL, Scheduler!config_, Scheduler!normalize, Scheduler!AtLeast,
       Proved!TypeOK, Proved!Records, Proved!RecordState, Proved!CounterNames,
       Proved!TTL, Proved!config_, Proved!normalize, Proved!AtLeast
<1>. QED
  BY <1>1

\* The two flags that no other invariant types.
Flags == stop_requested \in BOOLEAN /\ tracing \in BOOLEAN

LEMMA FlagsStep ==
  ASSUME Flags, [Next]_vars
  PROVE  Flags'
<1>1. CASE Exit
  <2>1. stop_requested' = stop_requested /\ tracing' \in BOOLEAN
    <3>1. /\ stop_requested' = stop_requested
          /\ tracing' = (tracing /\ ~(stopping /\ Idle))
      BY <1>1 DEF Exit, shared_vars
    <3>. QED
      BY <3>1, Zenon DEF Flags
  <2>. QED
    BY <2>1 DEF Flags
<1>2. CASE \/ ReadClock \/ Drain \/ Complete \/ FollowDestination \/ CheckStop \/ Expire
           \/ Grace \/ Reserve \/ Issue \/ Refresh \/ CheckQuota \/ Wake
  BY <1>2 DEF ReadClock, Drain, Complete, FollowDestination, CheckStop, Expire, Grace, Reserve,
     Issue, Refresh, CheckQuota, Wake, LoopKeeps, shared_vars, Flags
<1>3. CASE \/ \E s \in DOMAIN requests : Answer(s) \/ Push(s)
           \/ ResetHops \/ RequestStop \/ Tick \/ UNCHANGED vars
  BY <1>3 DEF Answer, Push, WorkersKeep, ResetHops, RequestStop, Tick, InterfaceKeeps, vars,
     shared_vars, Flags
<1>. QED
  BY <1>1, <1>2, <1>3 DEF Next, Loop, Returned

LEMMA FlagsInvariant == Spec => []Flags
<1>1. Init => Flags
  BY DEF Init, Flags
<1>. QED
  BY <1>1, FlagsStep, PTL DEF Spec

LEMMA LoopTypeOK ==
  ASSUME LoopUses, GraceInv, DisplayInv, Flags
  PROVE  TypeOK
<1>1. Scheduler!TypeOK /\ Route!TypeOK
  BY SchedulerTyped DEF LoopUses, LoopTypes, Proved!IInv
<1>2. /\ pc \in Places /\ clock \in now .. MaxNow /\ data_epoch \in epoch_ .. MaxEpoch
      /\ pending_ttl \in {0} \cup TTL
  BY DEF LoopUses, LoopTypes, ClockOK, EpochOK
<1>3. drain_deadline \subseteq Nat /\ Cardinality(drain_deadline) <= 1
  <2>1. CASE drain_deadline = {}
    BY <2>1, FS_EmptySet
  <2>2. CASE \E d \in Nat : drain_deadline = { d }
    <3>1. PICK d \in Nat : drain_deadline = { d }
      BY <2>2
    <3>2. Cardinality({ d }) = 1
      BY FS_Singleton
    <3>. QED
      BY <3>1, <3>2
  <2>. QED
    BY <2>1, <2>2 DEF GraceInv
<1>4. requests \in [DOMAIN requests ->
        [ ttl : TTL, epoch : Nat, stage : Stages, kind : Scheduler!CompletionKind,
          destination : BOOLEAN, completed_at : Nat ]]
  <2>1. \A s \in DOMAIN requests :
          /\ requests[s].ttl \in TTL /\ requests[s].epoch \in Nat
          /\ requests[s].stage \in Stages /\ requests[s].kind \in Scheduler!CompletionKind
          /\ requests[s].destination \in BOOLEAN /\ requests[s].completed_at \in Nat
    <3>1. \A s \in DOMAIN requests : requests[s].ttl \in TTL /\ requests[s].epoch \in Nat
      BY RequestTtl, RecordFacts DEF LoopUses, LoopInv, RequestsMatchRecords
    <3>2. \A at \in 0 .. clock : at \in Nat
      BY TraceLoopAssumption DEF LoopUses, LoopTypes, ClockOK
    <3>. QED
      BY <3>1, <3>2 DEF LoopUses, LoopTypes, RequestsOK
  <2>. QED
    BY <2>1 DEF LoopUses, LoopInv, RequestMap
<1>5. batch \in Seq(DOMAIN requests) /\ ready \in Seq(DOMAIN requests)
  BY DEF LoopUses, LoopInv, QueueInv
<1>6. host \in [TTL -> [HopCounters \cup HopTicks -> Nat]]
  BY DEF DisplayInv, ShownTyped, Hop, Fields
<1>. QED
  BY <1>1, <1>2, <1>3, <1>4, <1>5, <1>6 DEF TypeOK, Places, GraceInv, DisplayInv, ShownTyped, Flags

\* What is shown is of one epoch, what DoTrace() returns agrees with it, and
\* every variable keeps its type.
THEOREM DisplayAlwaysOfEpoch == Spec => []DisplayIsOfEpoch
<1>1. LoopUses /\ GraceInv /\ DisplayInv /\ Flags => DisplayIsOfEpoch
  BY LoopTypeOK DEF DisplayIsOfEpoch, DisplayInv
<1>. QED
  BY <1>1, LoopUsesInvariant, GraceInvariant, DisplayInvariant, FlagsInvariant, PTL

\* When DoTrace() has returned, every probe sent is accounted for in what is
\* shown, and no callback is left.
THEOREM FinishedAlwaysQuiet == Spec => []FinishedIsQuiet
<1>1. LoopUses /\ DisplayInv /\ ReturnsOwningNothing => FinishedIsQuiet
  <2>. SUFFICES ASSUME LoopUses, DisplayInv, ReturnsOwningNothing, pc = "finished",
                       NEW t \in TTL
                PROVE  /\ host[t]["in_flight"] = 0
                       /\ host[t]["xmit"] <= host[t]["completed"] + host[t]["local_errors"]
                            + host[t]["cancelled"] + host[t]["post_destination_completions"]
    BY DEF FinishedIsQuiet, ReturnsOwningNothing
  <2>1. CASE data_epoch # epoch_
    <3>1. host[t] = s_nethost /\ \A f \in HopCounters : s_nethost[f] = 0
      BY <2>1 DEF DisplayInv, ResetIsClean, s_nethost
    <3>. HIDE DEF s_nethost
    <3>. QED
      BY <3>1 DEF HopCounters
  <2>2. CASE data_epoch = epoch_
    <3>1. counters[t]["in_flight"] = 0
      <4>1. Scheduler!Outstanding = {}
        BY DEF ReturnsOwningNothing, LoopUses, LoopInv, RequestsMatchRecords
      <4>2. Scheduler!InStateAt("issued", t) = {}
        BY <4>1 DEF Scheduler!Outstanding, Scheduler!InStateAt
      <4>. QED
        BY <4>2, CountFacts, FS_EmptySet DEF LoopUses
    <3>2. Tallies(host[t], counters[t]) /\ host[t] \in Hop /\ counters[t] \in [Names -> Nat]
      BY <2>2, CountersTyped DEF DisplayInv, HostAgrees, ShownTyped, LoopUses
    <3>3. /\ \A f \in HopCounters : host[t][f] \in Nat
          /\ \A f \in Names : counters[t][f] \in Nat
      BY <3>2 DEF Hop, Fields
    <3>. QED
      BY <3>1, <3>2, <3>3 DEF Tallies, HopCounters, Names, Scheduler!CounterNames
  <2>. QED
    BY <2>1, <2>2
<1>. QED
  BY <1>1, LoopUsesInvariant, DisplayInvariant, TraceReturnsOwningNothing, PTL

\* What the scheduler promises every client it keeps in a whole trace, whatever
\* the network, the user and the callbacks do: the limits on probes in flight
\* and in the transport, the quota, that a probe is counted once, and the pace.
THEOREM TraceKeepsLimits ==
  Spec => /\ []Proved!CapsRespected
          /\ []Proved!QuotaRespected
          /\ []Proved!ProbesCountedOnce
          /\ Proved!NoCatchUpBurst
<1>1. /\ Proved!Spec => []Proved!CapsRespected
      /\ Proved!Spec => []Proved!QuotaRespected
      /\ Proved!Spec => []Proved!ProbesCountedOnce
      /\ Proved!Spec => Proved!NoCatchUpBurst
  BY ConfigIsLegal, Proved!CapsHold, Proved!QuotaHolds, Proved!CountedOnce, Proved!NeverABurst
<1>. QED
  BY <1>1, SchedulerRuns, PTL

=============================================================================
