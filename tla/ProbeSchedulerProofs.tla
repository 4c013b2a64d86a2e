------------------------ MODULE ProbeSchedulerProofs ------------------------
EXTENDS ProbeScheduler, FiniteSetTheorems, TLAPS

LEMMA ConfigFacts ==
  /\ config_.interval_ms \in Nat \ {0}
  /\ config_.timeout_ms \in Nat \ {0}
  /\ config_.first_ttl \in Nat \ {0}
  /\ config_.last_ttl \in Nat
  /\ config_.first_ttl <= config_.last_ttl
  /\ config_.max_inflight \in Nat
  /\ config_.max_inflight_per_ttl \in Nat \ {0}
  /\ config_.max_inflight_per_ttl <= config_.max_inflight
  /\ config_.max_transport_outstanding \in Nat
  /\ config_.max_transport_outstanding_per_ttl \in Nat
  /\ config_.max_global_pps \in Nat \ {0}
  /\ config_.probes_per_ttl \in Nat
<1>1. /\ Config.interval_ms \in Nat /\ Config.timeout_ms \in Nat
      /\ Config.first_ttl \in Nat /\ Config.last_ttl \in Nat
      /\ Config.max_inflight \in Nat /\ Config.max_inflight_per_ttl \in Nat
      /\ Config.max_transport_outstanding \in Nat
      /\ Config.max_transport_outstanding_per_ttl \in Nat
      /\ Config.max_global_pps \in Nat /\ Config.probes_per_ttl \in Nat
  BY SchedulerAssumption DEF ConfigFields
<1>2. QED
  BY <1>1 DEF config_, normalize, AtLeast

LEMMA SpacingFact == global_spacing_ms \in Nat
  BY ConfigFacts DEF global_spacing_ms, AtLeast

LEMMA TTLFacts == TTL \subseteq Nat /\ config_.first_ttl \in TTL /\ config_.last_ttl \in TTL
  BY ConfigFacts DEF TTL

LEMMA StaggeredType == ASSUME NEW at \in Nat PROVE Staggered(at) \in [TTL -> Nat]
<1>1. ASSUME NEW t \in TTL PROVE
        ((t - config_.first_ttl) * config_.interval_ms)
           \div (config_.last_ttl - config_.first_ttl + 1) \in Nat
  <2>1. (t - config_.first_ttl) * config_.interval_ms \in Nat
    BY ConfigFacts DEF TTL
  <2>2. config_.last_ttl - config_.first_ttl + 1 \in Nat \ {0}
    BY ConfigFacts
  <2>3. QED BY <2>1, <2>2
<1>2. QED BY <1>1 DEF Staggered

LEMMA CardAdd ==
  ASSUME NEW S, IsFiniteSet(S), NEW x, x \notin S
  PROVE  IsFiniteSet(S \cup {x}) /\ Cardinality(S \cup {x}) = Cardinality(S) + 1
  BY FS_AddElement

LEMMA CardRemove ==
  ASSUME NEW S, IsFiniteSet(S), NEW x \in S
  PROVE  IsFiniteSet(S \ {x}) /\ Cardinality(S \ {x}) = Cardinality(S) - 1
  BY FS_RemoveElement

LEMMA CardMinus ==
  ASSUME NEW S, IsFiniteSet(S), NEW T \in SUBSET S
  PROVE  /\ IsFiniteSet(S \ T) /\ IsFiniteSet(T)
         /\ Cardinality(T) \in Nat /\ Cardinality(S) \in Nat
         /\ Cardinality(S \ T) = Cardinality(S) - Cardinality(T)
<1>1. IsFiniteSet(T) /\ IsFiniteSet(S \ T)
  BY FS_Subset
<1>2. (S \ T) \cup T = S
  OBVIOUS
<1>3. (S \ T) \cap T = {}
  OBVIOUS
<1>4. Cardinality((S \ T) \cup T)
        = Cardinality(S \ T) + Cardinality(T) - Cardinality((S \ T) \cap T)
  BY <1>1, FS_Union
<1>5. Cardinality(S) = Cardinality(S \ T) + Cardinality(T) - 0
  BY <1>2, <1>3, <1>4, FS_EmptySet, Zenon
<1>6. Cardinality(S) \in Nat /\ Cardinality(T) \in Nat /\ Cardinality(S \ T) \in Nat
  BY <1>1, FS_CardinalityType
<1>7. QED BY <1>1, <1>5, <1>6

-----------------------------------------------------------------------------
IInv == TypeOK /\ RecordsAccounted

\* Every set of records is finite.
LEMMA FiniteParts ==
  ASSUME TypeOK
  PROVE  /\ IsFiniteSet(DOMAIN records_)
         /\ \A S \in SUBSET DOMAIN records_ : IsFiniteSet(S) /\ Cardinality(S) \in Nat
<1>1. IsFiniteSet(1..sequence_)
  <2>1. sequence_ \in Int
    BY DEF TypeOK
  <2>2. QED BY <2>1, FS_Interval
<1>2. DOMAIN records_ \subseteq 1..sequence_
  BY Zenon DEF TypeOK
<1>3. IsFiniteSet(DOMAIN records_)
  BY <1>1, <1>2, FS_Subset
<1>4. QED BY <1>3, FS_Subset, FS_CardinalityType

LEMMA PartsAreFinite ==
  ASSUME TypeOK
  PROVE  \A st, t : Cardinality(InState(st)) \in Nat
                    /\ Cardinality(InStateAt(st, t)) \in Nat
<1>1. \A st, t : InState(st) \in SUBSET DOMAIN records_
                 /\ InStateAt(st, t) \in SUBSET DOMAIN records_
  BY DEF InState, InStateAt
<1>2. QED BY <1>1, FiniteParts

LEMMA InitIInv == Init => IInv
<1> SUFFICES ASSUME Init PROVE IInv
  OBVIOUS
<1>1. DOMAIN records_ = {}
  BY DEF Init
<1>2. TypeOK
  BY <1>1, StaggeredType, TTLFacts, SchedulerAssumption
     DEF Init, TypeOK, ZeroCounters
<1>3. /\ InState("reserved") = {} /\ InState("issued") = {} /\ Outstanding = {}
      /\ \A t \in TTL : /\ InStateAt("reserved", t) = {}
                        /\ InStateAt("issued", t) = {}
                        /\ OutstandingAt(t) = {}
  BY <1>1 DEF InState, InStateAt, Outstanding, OutstandingAt
<1>4. RecordsAccounted
  <2>1. Cardinality({}) = 0
    BY FS_EmptySet
  <2>2. \A t \in TTL : counters[t]["in_flight"] = 0
                       /\ counters[t]["transport_outstanding"] = 0 /\ reserved[t] = 0
    BY DEF Init, ZeroCounters, CounterNames
  <2>3. QED BY <1>3, <2>1, <2>2 DEF Init, RecordsAccounted
<1>5. QED BY <1>2, <1>4 DEF IInv

\* Count raises and lowers what it says and nothing else.
LEMMA CountValue ==
  ASSUME TypeOK, NEW t \in TTL, NEW up, NEW down,
         \A c \in down : c \in up \/ counters[t][c] # 0
  PROVE  /\ Count(t, up, down) \in [TTL -> [CounterNames -> Nat]]
         /\ \A u \in TTL, c \in CounterNames :
              Count(t, up, down)[u][c] =
                IF u # t THEN counters[u][c]
                ELSE IF c \in up THEN counters[u][c] + 1
                ELSE IF c \in down THEN counters[u][c] - 1 ELSE counters[u][c]
<1>1. counters \in [TTL -> [CounterNames -> Nat]]
  BY DEF TypeOK
<1> DEFINE new == [c \in CounterNames |->
                     IF c \in up THEN counters[t][c] + 1
                     ELSE IF c \in down THEN counters[t][c] - 1 ELSE counters[t][c]]
<1>2. Count(t, up, down) = [counters EXCEPT ![t] = new]
  BY DEF Count
<1>3. new \in [CounterNames -> Nat]
  BY <1>1
<1>4. QED BY <1>1, <1>2, <1>3

-----------------------------------------------------------------------------
\* How the numbers RecordsAccounted speaks of change with the record map r.
NIn(r, st)     == Cardinality({ u \in DOMAIN r : r[u].state = st })
NAt(r, st, t)  == Cardinality({ u \in DOMAIN r : r[u].state = st /\ r[u].ttl = t })
NOut(r)        == Cardinality({ u \in DOMAIN r : r[u].state # "reserved" })
NOutAt(r, t)   == Cardinality({ u \in DOMAIN r : r[u].state # "reserved"
                                                /\ r[u].ttl = t })
\* What one record x adds to each of them.
Hit(x, st)      == IF x.state = st THEN 1 ELSE 0
HitAt(x, st, t) == IF x.state = st /\ x.ttl = t THEN 1 ELSE 0
Held(x)         == IF x.state # "reserved" THEN 1 ELSE 0
HeldAt(x, t)    == IF x.state # "reserved" /\ x.ttl = t THEN 1 ELSE 0

\* 1 when the numbers are the same TTL.
Same(x, y) == IF x = y THEN 1 ELSE 0

\* The numbers are natural.
LEMMA CountsAreNat ==
  ASSUME NEW r, IsFiniteSet(DOMAIN r), NEW st, NEW t
  PROVE  NIn(r, st) \in Nat /\ NAt(r, st, t) \in Nat
         /\ NOut(r) \in Nat /\ NOutAt(r, t) \in Nat
<1>1. ASSUME NEW S \in SUBSET DOMAIN r PROVE Cardinality(S) \in Nat
  BY FS_Subset, FS_CardinalityType
<1>2. /\ { u \in DOMAIN r : r[u].state = st } \in SUBSET DOMAIN r
      /\ { u \in DOMAIN r : r[u].state = st /\ r[u].ttl = t } \in SUBSET DOMAIN r
      /\ { u \in DOMAIN r : r[u].state # "reserved" } \in SUBSET DOMAIN r
      /\ { u \in DOMAIN r : r[u].state # "reserved" /\ r[u].ttl = t }
           \in SUBSET DOMAIN r
  OBVIOUS
<1>3. QED BY <1>1, <1>2, Zenon DEF NIn, NAt, NOut, NOutAt

\* A set loses x, if it had it, when x is left out of its domain.
LEMMA CardWithout ==
  ASSUME NEW S, IsFiniteSet(S), NEW x, NEW T, T = S \ {x}
  PROVE  /\ x \in S => Cardinality(S) = Cardinality(T) + 1
         /\ x \notin S => Cardinality(S) = Cardinality(T)
<1>1. CASE x \in S
  <2>1. Cardinality(S \ {x}) = Cardinality(S) - 1
    BY <1>1, FS_RemoveElement
  <2>2. Cardinality(S) \in Nat
    BY FS_CardinalityType
  <2>3. QED BY <1>1, <2>1, <2>2
<1>2. CASE x \notin S
  <2>1. T = S
    BY <1>2
  <2>2. QED BY <1>2, <2>1
<1>3. QED BY <1>1, <1>2

\* One record more: it is counted where it belongs and nowhere else.
LEMMA RecordAdded ==
  ASSUME NEW r, IsFiniteSet(DOMAIN r), NEW s \in DOMAIN r,
         NEW m, DOMAIN m = DOMAIN r \ {s}, \A u \in DOMAIN m : m[u] = r[u],
         NEW st, NEW t
  PROVE  /\ NIn(r, st) = NIn(m, st) + Hit(r[s], st)
         /\ NAt(r, st, t) = NAt(m, st, t) + HitAt(r[s], st, t)
         /\ NOut(r) = NOut(m) + Held(r[s])
         /\ NOutAt(r, t) = NOutAt(m, t) + HeldAt(r[s], t)
<1> DEFINE in(f)    == { u \in DOMAIN f : f[u].state = st }
           at(f)    == { u \in DOMAIN f : f[u].state = st /\ f[u].ttl = t }
           out(f)   == { u \in DOMAIN f : f[u].state # "reserved" }
           outAt(f) == { u \in DOMAIN f : f[u].state # "reserved" /\ f[u].ttl = t }
<1>1. /\ IsFiniteSet(in(r)) /\ IsFiniteSet(at(r))
      /\ IsFiniteSet(out(r)) /\ IsFiniteSet(outAt(r))
  <2>1. ASSUME NEW S \in SUBSET DOMAIN r PROVE IsFiniteSet(S)
    BY FS_Subset
  <2>2. QED BY <2>1
<1>2. /\ in(m) = in(r) \ {s} /\ at(m) = at(r) \ {s}
      /\ out(m) = out(r) \ {s} /\ outAt(m) = outAt(r) \ {s}
  OBVIOUS
<1>3. /\ s \in in(r) <=> r[s].state = st
      /\ s \in at(r) <=> (r[s].state = st /\ r[s].ttl = t)
      /\ s \in out(r) <=> r[s].state # "reserved"
      /\ s \in outAt(r) <=> (r[s].state # "reserved" /\ r[s].ttl = t)
  OBVIOUS
<1>4. ASSUME NEW S, IsFiniteSet(S), NEW T, T = S \ {s}
      PROVE Cardinality(S) = Cardinality(T) + (IF s \in S THEN 1 ELSE 0)
  <2>1. IsFiniteSet(T) /\ Cardinality(T) \in Nat
    BY <1>4, FS_Subset, FS_CardinalityType
  <2>2. QED BY <1>4, <2>1, CardWithout
<1>5. /\ Cardinality(in(r)) = Cardinality(in(m)) + (IF s \in in(r) THEN 1 ELSE 0)
      /\ Cardinality(at(r)) = Cardinality(at(m)) + (IF s \in at(r) THEN 1 ELSE 0)
      /\ Cardinality(out(r)) = Cardinality(out(m)) + (IF s \in out(r) THEN 1 ELSE 0)
      /\ Cardinality(outAt(r)) = Cardinality(outAt(m)) + (IF s \in outAt(r) THEN 1 ELSE 0)
  <2> HIDE DEF in, at, out, outAt
  <2>1. QED BY <1>1, <1>2, <1>4
<1>6. QED BY <1>3, <1>5 DEF NIn, NAt, NOut, NOutAt,
                            Hit, HitAt, Held, HeldAt

\* One record changes: it leaves the counts it was in and enters those it
\* belongs to now.
LEMMA RecordChanged ==
  ASSUME NEW r, IsFiniteSet(DOMAIN r), NEW s \in DOMAIN r,
         NEW q, DOMAIN q = DOMAIN r, \A u \in DOMAIN r \ {s} : q[u] = r[u],
         NEW st, NEW t
  PROVE  /\ NIn(q, st) = NIn(r, st) + Hit(q[s], st) - Hit(r[s], st)
         /\ NAt(q, st, t) = NAt(r, st, t) + HitAt(q[s], st, t)
                              - HitAt(r[s], st, t)
         /\ NOut(q) = NOut(r) + Held(q[s])
                        - Held(r[s])
         /\ NOutAt(q, t) = NOutAt(r, t) + HeldAt(q[s], t)
                             - HeldAt(r[s], t)
<1> DEFINE m == [u \in DOMAIN r \ {s} |-> r[u]]
<1>1. DOMAIN m = DOMAIN r \ {s} /\ \A u \in DOMAIN m : m[u] = r[u] /\ m[u] = q[u]
  OBVIOUS
<1>2. IsFiniteSet(DOMAIN m)
  BY <1>1, FS_RemoveElement
<1> HIDE DEF m
<1>3. /\ NIn(r, st) = NIn(m, st) + Hit(r[s], st)
      /\ NAt(r, st, t) = NAt(m, st, t) + HitAt(r[s], st, t)
      /\ NOut(r) = NOut(m) + Held(r[s])
      /\ NOutAt(r, t) = NOutAt(m, t) + HeldAt(r[s], t)
  BY <1>1, RecordAdded
<1>4. /\ NIn(q, st) = NIn(m, st) + Hit(q[s], st)
      /\ NAt(q, st, t) = NAt(m, st, t) + HitAt(q[s], st, t)
      /\ NOut(q) = NOut(m) + Held(q[s])
      /\ NOutAt(q, t) = NOutAt(m, t) + HeldAt(q[s], t)
  BY <1>1, RecordAdded
<1>5. /\ NIn(m, st) \in Nat /\ NAt(m, st, t) \in Nat
      /\ NOut(m) \in Nat /\ NOutAt(m, t) \in Nat
  BY <1>2, CountsAreNat
<1>6. QED BY <1>3, <1>4, <1>5 DEF Hit, HitAt, Held, HeldAt

-----------------------------------------------------------------------------
\* RecordsAccounted in the terms of these counts.
Matches(t) ==
  /\ reserved[t] = NAt(records_, "reserved", t)
  /\ counters[t]["in_flight"] = NAt(records_, "issued", t)
  /\ counters[t]["transport_outstanding"] = NOutAt(records_, t)

SessionMatches ==
  /\ reserved_ = NIn(records_, "reserved")
  /\ logical_inflight_ = NIn(records_, "issued")
  /\ transport_outstanding_ = NOut(records_)

LEMMA AccountedIsMatching ==
  RecordsAccounted <=> SessionMatches /\ \A t \in TTL : Matches(t)
  BY DEF RecordsAccounted, SessionMatches, Matches, NIn, NAt, NOut, NOutAt,
         InState, InStateAt, Outstanding, OutstandingAt

\* The part of TypeOK that does not say that a count is natural.
ShapeOK ==
  /\ now \in 0..MaxNow
  /\ active_ \in BOOLEAN
  /\ epoch_ \in Nat
  /\ sequence_ \in 0..MaxSequence
  /\ active_last_ttl_ \in TTL
  /\ next_global_send_at_ \in Nat
  /\ next_send_at \in [TTL -> Nat]
  /\ DOMAIN records_ \subseteq 1..sequence_
  /\ records_ \in [DOMAIN records_ -> Records]

CountersOK == counters \in [TTL -> [CounterNames -> Nat]]

ReservedOK == reserved \in [TTL -> Int]

\* What IInv says, in these terms.
LEMMA IInvFacts ==
  ASSUME IInv
  PROVE  /\ ShapeOK /\ CountersOK /\ ReservedOK /\ SessionMatches
         /\ \A t \in TTL : Matches(t)
         /\ IsFiniteSet(DOMAIN records_)
<1>1. ShapeOK /\ CountersOK /\ ReservedOK
  BY DEF IInv, TypeOK, ShapeOK, CountersOK, ReservedOK
<1>2. SessionMatches /\ \A t \in TTL : Matches(t)
  BY AccountedIsMatching DEF IInv
<1>3. IsFiniteSet(DOMAIN records_)
  BY FiniteParts DEF IInv
<1>4. QED BY <1>1, <1>2, <1>3

\* In the new state, the session totals and the reservations are natural
\* because they count something.
LEMMA IInvNext ==
  ASSUME ShapeOK', CountersOK', ReservedOK', SessionMatches',
         \A t \in TTL : Matches(t)'
  PROVE  IInv'
<1>1. IsFiniteSet(DOMAIN records_')
  <2>1. sequence_' \in Int
    BY DEF ShapeOK
  <2>2. IsFiniteSet(1..sequence_')
    BY <2>1, FS_Interval
  <2>3. QED BY <2>2, FS_Subset, Zenon DEF ShapeOK
<1>2. reserved_' \in Nat /\ logical_inflight_' \in Nat /\ transport_outstanding_' \in Nat
  BY <1>1, CountsAreNat DEF SessionMatches
<1>3. \A t \in TTL : reserved'[t] \in Nat
  BY <1>1, CountsAreNat DEF Matches
<1>4. reserved' \in [TTL -> Nat]
  BY <1>3 DEF ReservedOK
<1>5. TypeOK'
  BY <1>2, <1>4 DEF TypeOK, ShapeOK, CountersOK
<1>6. RecordsAccounted'
  BY DEF RecordsAccounted, SessionMatches, Matches, NIn, NAt, NOut, NOutAt,
         InState, InStateAt, Outstanding, OutstandingAt
<1>7. QED BY <1>5, <1>6 DEF IInv

-----------------------------------------------------------------------------
\* mark_issued() moves one record from the reserved to the issued ones.
LEMMA IssuedStep ==
  ASSUME IInv, NEW s \in DOMAIN records_, mark_issued(s, now)
  PROVE  IInv'
<1> DEFINE k  == records_[s].ttl
           up == { "sent", "in_flight", "transport_outstanding" }
<1>0. /\ ShapeOK /\ CountersOK /\ ReservedOK /\ SessionMatches
      /\ \A t \in TTL : Matches(t)
      /\ IsFiniteSet(DOMAIN records_)
  BY IInvFacts
<1>1. records_[s] \in Records /\ k \in TTL /\ records_[s].state = "reserved"
  BY <1>0 DEF ShapeOK, mark_issued, Unreserve, InState, Records
<1>2. /\ DOMAIN records_' = DOMAIN records_
      /\ \A u \in DOMAIN records_ \ {s} : records_'[u] = records_[u]
      /\ records_'[s] = [records_[s] EXCEPT !.state = "issued",
                           !.deadline = now + config_.timeout_ms]
  BY <1>0 DEF ShapeOK, mark_issued
<1>3. records_'[s] \in Records /\ records_'[s].state = "issued" /\ records_'[s].ttl = k
  <2>1. now + config_.timeout_ms \in Nat
    BY <1>0, ConfigFacts DEF ShapeOK
  <2>2. QED BY <1>1, <1>2, <2>1 DEF Records, RecordState
<1>4. /\ CountersOK'
      /\ \A t \in TTL, c \in CounterNames :
           counters'[t][c] = counters[t][c] + (IF t = k /\ c \in up THEN 1 ELSE 0)
  BY <1>0, <1>1, CountValue DEF CountersOK, mark_issued, IInv
<1>5. /\ ReservedOK'
      /\ \A t \in TTL : reserved'[t] = reserved[t] - Same(t, k)
  BY <1>0, <1>1 DEF ReservedOK, mark_issued, Unreserve, Same
<1>6. ShapeOK'
  BY <1>0, <1>2, <1>3 DEF ShapeOK, mark_issued, Unreserve, plan
<1>7. ASSUME NEW st, NEW t
      PROVE /\ NIn(records_', st) = NIn(records_, st) + (IF st = "issued" THEN 1 ELSE 0)
                                      - (IF st = "reserved" THEN 1 ELSE 0)
            /\ NAt(records_', st, t) = NAt(records_, st, t)
                 + (IF st = "issued" /\ k = t THEN 1 ELSE 0)
                 - (IF st = "reserved" /\ k = t THEN 1 ELSE 0)
            /\ NOut(records_') = NOut(records_) + 1
            /\ NOutAt(records_', t) = NOutAt(records_, t) + Same(t, k)
            /\ NIn(records_, st) \in Nat /\ NAt(records_, st, t) \in Nat
            /\ NOut(records_) \in Nat /\ NOutAt(records_, t) \in Nat
  <2> DEFINE q == records_'
  <2>0. /\ IsFiniteSet(DOMAIN records_) /\ DOMAIN q = DOMAIN records_
        /\ \A u \in DOMAIN records_ \ {s} : q[u] = records_[u]
    BY <1>0, <1>2
  <2> HIDE DEF q
  <2>1. /\ NIn(q, st) = NIn(records_, st) + Hit(q[s], st)
             - Hit(records_[s], st)
        /\ NAt(q, st, t) = NAt(records_, st, t)
             + HitAt(q[s], st, t)
             - HitAt(records_[s], st, t)
        /\ NOut(q) = NOut(records_) + Held(q[s])
             - Held(records_[s])
        /\ NOutAt(q, t) = NOutAt(records_, t)
             + HeldAt(q[s], t)
             - HeldAt(records_[s], t)
    BY <2>0, RecordChanged
  <2>2. /\ NIn(records_, st) \in Nat /\ NAt(records_, st, t) \in Nat
        /\ NOut(records_) \in Nat /\ NOutAt(records_, t) \in Nat
    BY <1>0, CountsAreNat
  <2>3. QED BY <1>1, <1>3, <2>1, <2>2 DEF q, Hit, HitAt, Held, HeldAt, Same
<1>8. SessionMatches'
  <2>1. /\ NIn(records_', "reserved") = NIn(records_, "reserved") - 1
        /\ NIn(records_', "issued") = NIn(records_, "issued") + 1
        /\ NOut(records_') = NOut(records_) + 1
    BY <1>7
  <2>2. /\ reserved_' = reserved_ - 1
        /\ logical_inflight_' = logical_inflight_ + 1
        /\ transport_outstanding_' = transport_outstanding_ + 1
    BY DEF mark_issued, Unreserve
  <2>3. QED BY <1>0, <2>1, <2>2 DEF SessionMatches
<1>9. ASSUME NEW t \in TTL PROVE Matches(t)'
  <2>1. /\ reserved'[t] = reserved[t] - Same(t, k)
        /\ counters'[t]["in_flight"] = counters[t]["in_flight"] + Same(t, k)
        /\ counters'[t]["transport_outstanding"]
             = counters[t]["transport_outstanding"] + Same(t, k)
    BY <1>4, <1>5 DEF Same, CounterNames
  <2>2. Matches(t)
    BY <1>0
  <2>3. QED BY <2>1, <2>2, <1>7 DEF Matches, Same
<1>10. QED BY <1>4, <1>5, <1>6, <1>8, <1>9, IInvNext

-----------------------------------------------------------------------------
\* A record is taken away: every count it was in goes down by one.
LEMMA RecordTaken ==
  ASSUME IInv, NEW s \in DOMAIN records_, records_' = Without({s}), NEW st, NEW t
  PROVE  /\ NIn(records_, st) = NIn(records_', st) + Hit(records_[s], st)
         /\ NAt(records_, st, t) = NAt(records_', st, t)
              + HitAt(records_[s], st, t)
         /\ NOut(records_) = NOut(records_') + Held(records_[s])
         /\ NOutAt(records_, t) = NOutAt(records_', t)
              + HeldAt(records_[s], t)
         /\ NIn(records_', st) \in Nat /\ NAt(records_', st, t) \in Nat
         /\ NOut(records_') \in Nat /\ NOutAt(records_', t) \in Nat
<1> DEFINE m == records_'
<1>1. /\ DOMAIN m = DOMAIN records_ \ {s}
      /\ \A u \in DOMAIN m : m[u] = records_[u]
  BY DEF Without
<1>2. IsFiniteSet(DOMAIN records_)
  BY IInvFacts
<1>3. IsFiniteSet(DOMAIN m)
  BY <1>1, <1>2, FS_RemoveElement
<1> HIDE DEF m
<1>4. /\ NIn(records_, st) = NIn(m, st) + Hit(records_[s], st)
      /\ NAt(records_, st, t) = NAt(m, st, t)
           + HitAt(records_[s], st, t)
      /\ NOut(records_) = NOut(m) + Held(records_[s])
      /\ NOutAt(records_, t) = NOutAt(m, t)
           + HeldAt(records_[s], t)
  BY <1>1, <1>2, RecordAdded
<1>5. /\ NIn(m, st) \in Nat /\ NAt(m, st, t) \in Nat
      /\ NOut(m) \in Nat /\ NOutAt(m, t) \in Nat
  BY <1>3, CountsAreNat
<1>6. QED BY <1>4, <1>5 DEF m

\* The record map that is left keeps its shape.
LEMMA TakenShape ==
  ASSUME ShapeOK, NEW S, records_' = Without(S), active_' \in BOOLEAN,
         UNCHANGED << now, plan >>
  PROVE  ShapeOK'
<1>1. /\ DOMAIN records_' \subseteq DOMAIN records_
      /\ \A u \in DOMAIN records_' : records_'[u] = records_[u]
  BY DEF Without
<1>2. records_' \in [DOMAIN records_' -> Records]
  BY <1>1 DEF ShapeOK, Without
<1>3. QED BY <1>1, <1>2 DEF ShapeOK, plan

\* mark_issue_failed() and mark_cached() take a reserved record away.
LEMMA RefusedStep ==
  ASSUME IInv, NEW s \in DOMAIN records_, Unreserve(s),
         NEW c \in { "local_errors", "cache_skipped" },
         counters' = Count(records_[s].ttl, {c}, {}),
         records_' = Without({s}),
         UNCHANGED << logical_inflight_, transport_outstanding_ >>
  PROVE  IInv'
<1> DEFINE k == records_[s].ttl
<1>0. /\ ShapeOK /\ CountersOK /\ ReservedOK /\ SessionMatches
      /\ \A t \in TTL : Matches(t)
  BY IInvFacts
<1>1. k \in TTL /\ records_[s].state = "reserved"
  BY <1>0 DEF ShapeOK, Unreserve, InState, Records
<1>2. /\ CountersOK'
      /\ \A t \in TTL : counters'[t]["in_flight"] = counters[t]["in_flight"]
           /\ counters'[t]["transport_outstanding"] = counters[t]["transport_outstanding"]
  BY <1>1, CountValue DEF CountersOK, IInv, CounterNames
<1>3. /\ ReservedOK'
      /\ \A t \in TTL : reserved'[t] = reserved[t] - Same(t, k)
  BY <1>0, <1>1 DEF ReservedOK, Unreserve, Same
<1>4. ShapeOK'
  BY <1>0, TakenShape DEF Unreserve, ShapeOK
<1>5. SessionMatches'
  <2>1. /\ NIn(records_, "reserved") = NIn(records_', "reserved") + 1
        /\ NIn(records_, "issued") = NIn(records_', "issued") + 0
        /\ NOut(records_) = NOut(records_') + 0
        /\ NIn(records_', "reserved") \in Nat /\ NIn(records_', "issued") \in Nat
        /\ NOut(records_') \in Nat
    BY <1>1, RecordTaken DEF Hit, Held
  <2>2. QED BY <1>0, <2>1 DEF SessionMatches, Unreserve
<1>6. ASSUME NEW t \in TTL PROVE Matches(t)'
  <2>1. /\ NAt(records_, "reserved", t) = NAt(records_', "reserved", t) + Same(t, k)
        /\ NAt(records_, "issued", t) = NAt(records_', "issued", t)
        /\ NOutAt(records_, t) = NOutAt(records_', t)
        /\ NAt(records_', "reserved", t) \in Nat
    <3>1. /\ NAt(records_, "reserved", t) = NAt(records_', "reserved", t)
               + HitAt(records_[s], "reserved", t)
          /\ NAt(records_, "issued", t) = NAt(records_', "issued", t)
               + HitAt(records_[s], "issued", t)
          /\ NOutAt(records_, t) = NOutAt(records_', t)
               + HeldAt(records_[s], t)
          /\ NAt(records_', "reserved", t) \in Nat /\ NAt(records_', "issued", t) \in Nat
          /\ NOutAt(records_', t) \in Nat
      BY RecordTaken
    <3>2. QED BY <1>1, <3>1 DEF HitAt, HeldAt, Same
  <2>2. Matches(t)
    BY <1>0
  <2>3. /\ reserved'[t] = reserved[t] - Same(t, k)
        /\ counters'[t]["in_flight"] = counters[t]["in_flight"]
        /\ counters'[t]["transport_outstanding"] = counters[t]["transport_outstanding"]
    BY <1>2, <1>3
  <2>4. QED BY <2>1, <2>2, <2>3 DEF Matches, Same
<1>7. QED BY <1>2, <1>3, <1>4, <1>5, <1>6, IInvNext

-----------------------------------------------------------------------------
\* What complete() raises is never one of the accounted counters.
LEMMA RaisedFact ==
  ASSUME NEW s, NEW kind, NEW at
  PROVE  LET up == Raised(Disposition(s, kind, at))
         IN  /\ up \subseteq CounterNames
             /\ "in_flight" \notin up /\ "transport_outstanding" \notin up
<1> DEFINE d == Disposition(s, kind, at)
<1>1. \A x : /\ Raised(x) \subseteq CounterNames
             /\ "in_flight" \notin Raised(x) /\ "transport_outstanding" \notin Raised(x)
  BY DEF Raised, CounterNames
<1>2. QED BY <1>1

\* complete() takes away a record the transport held.
LEMMA CompleteStep ==
  ASSUME IInv, NEW s \in DOMAIN records_, NEW kind, NEW at, complete(s, kind, at)
  PROVE  IInv'
<1> DEFINE k    == records_[s].ttl
           up   == Raised(Disposition(s, kind, at))
           down == Lowered(s)
           live == IF records_[s].state = "issued" THEN 1 ELSE 0
<1>0. /\ ShapeOK /\ CountersOK /\ ReservedOK /\ SessionMatches
      /\ \A t \in TTL : Matches(t)
  BY IInvFacts
<1>1. k \in TTL /\ records_[s].state # "reserved"
  BY <1>0 DEF ShapeOK, complete, Outstanding, Records
<1>2. records_' = Without({s})
  BY DEF complete
<1>3. ASSUME NEW t
      PROVE /\ NAt(records_, "reserved", t) = NAt(records_', "reserved", t)
            /\ NAt(records_, "issued", t) = NAt(records_', "issued", t)
                 + (IF t = k THEN live ELSE 0)
            /\ NOutAt(records_, t) = NOutAt(records_', t) + Same(t, k)
            /\ NAt(records_', "reserved", t) \in Nat /\ NAt(records_', "issued", t) \in Nat
            /\ NOutAt(records_', t) \in Nat
  <2>1. /\ NAt(records_, "reserved", t) = NAt(records_', "reserved", t)
             + HitAt(records_[s], "reserved", t)
        /\ NAt(records_, "issued", t) = NAt(records_', "issued", t)
             + HitAt(records_[s], "issued", t)
        /\ NOutAt(records_, t) = NOutAt(records_', t) + HeldAt(records_[s], t)
        /\ NAt(records_', "reserved", t) \in Nat /\ NAt(records_', "issued", t) \in Nat
        /\ NOutAt(records_', t) \in Nat
    BY <1>2, RecordTaken
  <2>2. QED BY <1>1, <2>1 DEF HitAt, HeldAt, Same
<1>4. Matches(k)
  BY <1>0, <1>1
<1>5. /\ "transport_outstanding" \in down
      /\ "in_flight" \in down <=> live = 1
      /\ down \subseteq { "in_flight", "transport_outstanding" }
      /\ \A c \in down : counters[k][c] # 0
  <2>1. counters[k]["transport_outstanding"] # 0
    BY <1>3, <1>4 DEF Matches, Same
  <2>2. live = 1 => counters[k]["in_flight"] # 0
    BY <1>3, <1>4 DEF Matches
  <2>3. QED BY <2>1, <2>2 DEF Lowered
<1>6. counters' = Count(k, up, down)
  BY DEF complete
<1>7. /\ up \subseteq CounterNames
      /\ "in_flight" \notin up /\ "transport_outstanding" \notin up
  BY RaisedFact
<1> HIDE DEF up, down
<1>8. /\ CountersOK'
      /\ \A t \in TTL, c \in CounterNames :
           counters'[t][c] = IF t # k THEN counters[t][c]
                             ELSE IF c \in up THEN counters[t][c] + 1
                             ELSE IF c \in down THEN counters[t][c] - 1
                             ELSE counters[t][c]
  BY <1>1, <1>5, <1>6, CountValue DEF CountersOK, IInv
<1>9. ShapeOK' /\ ReservedOK'
  BY <1>0, <1>2, TakenShape DEF complete, ShapeOK, ReservedOK
<1>10. SessionMatches'
  <2>1. /\ NIn(records_, "reserved") = NIn(records_', "reserved") + Hit(records_[s], "reserved")
        /\ NIn(records_, "issued") = NIn(records_', "issued") + Hit(records_[s], "issued")
        /\ NOut(records_) = NOut(records_') + Held(records_[s])
        /\ NIn(records_', "reserved") \in Nat /\ NIn(records_', "issued") \in Nat
        /\ NOut(records_') \in Nat
    BY <1>2, RecordTaken
  <2>2. QED BY <1>0, <1>1, <2>1 DEF SessionMatches, complete, Hit, Held
<1>11. ASSUME NEW t \in TTL PROVE Matches(t)'
  <2>1. Matches(t)
    BY <1>0
  <2>2. /\ counters'[t]["in_flight"] = counters[t]["in_flight"]
             - (IF t = k THEN live ELSE 0)
        /\ counters'[t]["transport_outstanding"]
             = counters[t]["transport_outstanding"] - Same(t, k)
        /\ reserved'[t] = reserved[t]
    <3>1. "in_flight" \in CounterNames /\ "transport_outstanding" \in CounterNames
      BY DEF CounterNames
    <3>2. counters[t]["in_flight"] \in Nat /\ counters[t]["transport_outstanding"] \in Nat
      BY <1>0, <3>1 DEF CountersOK
    <3>3. reserved' = reserved
      BY DEF complete
    <3>4. QED BY <1>5, <1>7, <1>8, <3>1, <3>2, <3>3 DEF Same
  <2>3. QED BY <1>3, <2>1, <2>2 DEF Matches, Same
<1>12. QED BY <1>8, <1>9, <1>10, <1>11, IInvNext

-----------------------------------------------------------------------------
\* begin_drain(), cancel_pending(), stop() and restart() drop the reserved
\* records and keep the others on their TTL.
ReservationsGone ==
  /\ DOMAIN records_' = Outstanding
  /\ \A u \in Outstanding : /\ records_'[u] \in Records
                            /\ records_'[u].ttl = records_[u].ttl
                            /\ records_'[u].state # "reserved"
  /\ records_' = [u \in Outstanding |-> records_'[u]]

LEMMA GoneCounts ==
  ASSUME IInv, ReservationsGone
  PROVE  /\ NIn(records_', "reserved") = 0
         /\ NOut(records_') = NOut(records_)
         /\ \A t : /\ NAt(records_', "reserved", t) = 0
                   /\ NOutAt(records_', t) = NOutAt(records_, t)
<1> DEFINE q == records_'
<1>1. /\ DOMAIN q = { u \in DOMAIN records_ : records_[u].state # "reserved" }
      /\ \A u \in DOMAIN q : q[u].ttl = records_[u].ttl /\ q[u].state # "reserved"
  BY DEF ReservationsGone, Outstanding
<1> HIDE DEF q
<1>2. /\ { u \in DOMAIN q : q[u].state = "reserved" } = {}
      /\ { u \in DOMAIN q : q[u].state # "reserved" }
           = { u \in DOMAIN records_ : records_[u].state # "reserved" }
  BY <1>1
<1>3. ASSUME NEW t
      PROVE /\ { u \in DOMAIN q : q[u].state = "reserved" /\ q[u].ttl = t } = {}
            /\ { u \in DOMAIN q : q[u].state # "reserved" /\ q[u].ttl = t }
                 = { u \in DOMAIN records_ : records_[u].state # "reserved"
                                             /\ records_[u].ttl = t }
  BY <1>1
<1>4. NIn(q, "reserved") = 0 /\ NOut(q) = NOut(records_)
  BY <1>2, FS_EmptySet DEF NIn, NOut
<1>5. ASSUME NEW t
      PROVE NAt(q, "reserved", t) = 0 /\ NOutAt(q, t) = NOutAt(records_, t)
  BY <1>3, FS_EmptySet DEF NAt, NOutAt
<1>6. QED BY <1>4, <1>5 DEF q

LEMMA GoneShape ==
  ASSUME IInv, ReservationsGone, UNCHANGED << now, plan >>, active_' \in BOOLEAN
  PROVE  ShapeOK'
<1>1. ShapeOK
  BY IInvFacts
<1>2. DOMAIN records_' \subseteq 1..sequence_'
  BY <1>1 DEF ReservationsGone, Outstanding, ShapeOK, plan
<1>3. records_' \in [DOMAIN records_' -> Records]
  BY DEF ReservationsGone
<1>4. QED BY <1>1, <1>2, <1>3 DEF ShapeOK, plan

\* Nothing is left in flight when no record is left issued.
LEMMA NoneIssued ==
  ASSUME \A u \in DOMAIN records_' : records_'[u].state # "issued"
  PROVE  NIn(records_', "issued") = 0 /\ \A t : NAt(records_', "issued", t) = 0
<1>1. { u \in DOMAIN records_' : records_'[u].state = "issued" } = {}
  OBVIOUS
<1>2. \A t : { u \in DOMAIN records_' : records_'[u].state = "issued"
                                        /\ records_'[u].ttl = t } = {}
  OBVIOUS
<1>3. QED BY <1>1, <1>2, FS_EmptySet DEF NIn, NAt

\* The reservation counts drop to zero with the reservations.
LEMMA ReservedZero ==
  ASSUME IInv
  PROVE  /\ reserved_ - Cardinality(InState("reserved")) = 0
         /\ logical_inflight_ - Cardinality(InState("issued")) = 0
         /\ \A t \in TTL :
              /\ reserved[t] - Cardinality(InStateAt("reserved", t)) = 0
              /\ counters[t]["in_flight"] - Cardinality(InStateAt("issued", t)) = 0
<1>1. RecordsAccounted
  BY DEF IInv
<1>2. \A st, t : Cardinality(InState(st)) \in Nat /\ Cardinality(InStateAt(st, t)) \in Nat
  BY PartsAreFinite DEF IInv
<1>3. QED BY <1>1, <1>2 DEF RecordsAccounted

LEMMA DrainStep ==
  ASSUME IInv, begin_drain
  PROVE  IInv'
<1>0. /\ ShapeOK /\ CountersOK /\ ReservedOK /\ SessionMatches
      /\ \A t \in TTL : Matches(t)
  BY IInvFacts
<1>1. records_' = [u \in Outstanding |-> records_[u]]
  <2>1. DOMAIN records_ \ InState("reserved") = Outstanding
    BY DEF InState, Outstanding
  <2>2. QED BY <2>1 DEF begin_drain, Without
<1>2. ReservationsGone
  BY <1>0, <1>1 DEF ReservationsGone, Outstanding, ShapeOK
<1>3. /\ NIn(records_', "issued") = NIn(records_, "issued")
      /\ \A t : NAt(records_', "issued", t) = NAt(records_, "issued", t)
  <2> DEFINE q == records_'
  <2>1. /\ DOMAIN q = { u \in DOMAIN records_ : records_[u].state # "reserved" }
        /\ \A u \in DOMAIN q : q[u] = records_[u]
    BY <1>1 DEF Outstanding
  <2> HIDE DEF q
  <2>2. { u \in DOMAIN q : q[u].state = "issued" }
          = { u \in DOMAIN records_ : records_[u].state = "issued" }
    BY <2>1
  <2>3. ASSUME NEW t
        PROVE { u \in DOMAIN q : q[u].state = "issued" /\ q[u].ttl = t }
                = { u \in DOMAIN records_ : records_[u].state = "issued"
                                            /\ records_[u].ttl = t }
    BY <2>1
  <2>4. QED BY <2>2, <2>3 DEF q, NIn, NAt
<1>4. ShapeOK' /\ CountersOK'
  BY <1>0, <1>2, GoneShape DEF begin_drain, DropReservations, CountersOK
<1>5. ReservedOK' /\ \A t \in TTL : reserved'[t] = 0
  BY ReservedZero DEF begin_drain, DropReservations, ReservedOK
<1>6. SessionMatches'
  BY <1>0, <1>2, <1>3, GoneCounts, ReservedZero
     DEF SessionMatches, begin_drain, DropReservations
<1>7. \A t \in TTL : Matches(t)'
  BY <1>0, <1>2, <1>3, <1>5, GoneCounts DEF Matches, begin_drain
<1>8. QED BY <1>4, <1>5, <1>6, <1>7, IInvNext

LEMMA CancelStep ==
  ASSUME IInv, cancel_pending
  PROVE  IInv'
<1>0. /\ ShapeOK /\ CountersOK /\ ReservedOK /\ SessionMatches
      /\ \A t \in TTL : Matches(t)
  BY IInvFacts
<1>1. ReservationsGone
  <2>1. ASSUME NEW u \in Outstanding
        PROVE /\ records_'[u] \in Records
              /\ records_'[u].ttl = records_[u].ttl
              /\ records_'[u].state # "reserved"
    BY <1>0 DEF cancel_pending, Outstanding, ShapeOK, Records, RecordState
  <2>2. QED BY <2>1 DEF ReservationsGone, cancel_pending
<1>2. \A u \in DOMAIN records_' : records_'[u].state # "issued"
  BY <1>0 DEF cancel_pending, Outstanding, ShapeOK, Records
<1>3. /\ CountersOK'
      /\ \A t \in TTL : /\ counters'[t]["in_flight"] = 0
                        /\ counters'[t]["transport_outstanding"]
                             = counters[t]["transport_outstanding"]
  <2>1. ASSUME NEW t \in TTL
        PROVE /\ counters'[t] \in [CounterNames -> Nat]
              /\ counters'[t]["in_flight"] = 0
              /\ counters'[t]["transport_outstanding"]
                   = counters[t]["transport_outstanding"]
    <3> DEFINE n == Cardinality(InStateAt("issued", t))
    <3>1. n \in Nat /\ counters[t]["in_flight"] - n = 0
      BY PartsAreFinite, ReservedZero DEF IInv
    <3>2. counters'[t] = [counters[t] EXCEPT !["in_flight"] = @ - n,
                                             !["cancelled"] = @ + n]
      BY DEF cancel_pending
    <3>3. counters[t] \in [CounterNames -> Nat]
      BY <1>0 DEF CountersOK
    <3> HIDE DEF n
    <3>4. QED BY <3>1, <3>2, <3>3 DEF CounterNames
  <2>2. counters' = [t \in TTL |-> counters'[t]]
    BY DEF cancel_pending
  <2>3. QED BY <2>1, <2>2 DEF CountersOK
<1>4. ShapeOK'
  BY <1>1, GoneShape DEF cancel_pending, DropReservations
<1>5. ReservedOK' /\ \A t \in TTL : reserved'[t] = 0
  BY ReservedZero DEF cancel_pending, DropReservations, ReservedOK
<1>6. SessionMatches'
  BY <1>0, <1>1, <1>2, GoneCounts, NoneIssued, ReservedZero
     DEF SessionMatches, cancel_pending, DropReservations
<1>7. \A t \in TTL : Matches(t)'
  BY <1>0, <1>1, <1>2, <1>3, <1>5, GoneCounts, NoneIssued DEF Matches
<1>8. QED BY <1>3, <1>4, <1>5, <1>6, <1>7, IInvNext

\* What retire_logical_state_for_epoch_change does to the records.
LEMMA Retired ==
  ASSUME IInv, retire_logical_state_for_epoch_change
  PROVE  /\ ReservationsGone
         /\ \A u \in DOMAIN records_' : records_'[u].state # "issued"
         /\ reserved_' = 0 /\ logical_inflight_' = 0
<1>0. ShapeOK
  BY IInvFacts
<1>1. records_' = [u \in Outstanding |->
                     [records_[u] EXCEPT !.state = "ignored_epoch"]]
  BY DEF retire_logical_state_for_epoch_change
<1>2. ASSUME NEW u \in Outstanding
      PROVE /\ records_'[u] \in Records
            /\ records_'[u].ttl = records_[u].ttl
            /\ records_'[u].state = "ignored_epoch"
  BY <1>0, <1>1 DEF Outstanding, ShapeOK, Records, RecordState
<1>3. ReservationsGone
  BY <1>1, <1>2 DEF ReservationsGone
<1>4. \A u \in DOMAIN records_' : records_'[u].state # "issued"
  BY <1>1, <1>2
<1>5. reserved_' = 0 /\ logical_inflight_' = 0
  BY ReservedZero DEF retire_logical_state_for_epoch_change
<1>6. QED BY <1>3, <1>4, <1>5

LEMMA StopStep ==
  ASSUME IInv, stop
  PROVE  IInv'
<1>0. /\ ShapeOK /\ CountersOK /\ ReservedOK /\ SessionMatches
      /\ \A t \in TTL : Matches(t)
  BY IInvFacts
<1>1. /\ ReservationsGone
      /\ \A u \in DOMAIN records_' : records_'[u].state # "issued"
      /\ reserved_' = 0 /\ logical_inflight_' = 0
  BY Retired DEF stop
<1>2. /\ CountersOK'
      /\ \A t \in TTL : /\ counters'[t]["in_flight"] = 0
                        /\ counters'[t]["transport_outstanding"]
                             = counters[t]["transport_outstanding"]
  <2>1. ASSUME NEW t \in TTL
        PROVE /\ counters'[t] \in [CounterNames -> Nat]
              /\ counters'[t]["in_flight"] = 0
              /\ counters'[t]["transport_outstanding"]
                   = counters[t]["transport_outstanding"]
    <3> DEFINE n == Cardinality(InStateAt("issued", t))
    <3>1. counters[t]["in_flight"] - n = 0
      BY ReservedZero
    <3>2. counters'[t] = [counters[t] EXCEPT !["in_flight"] = @ - n]
      BY DEF stop
    <3>3. counters[t] \in [CounterNames -> Nat]
      BY <1>0 DEF CountersOK
    <3> HIDE DEF n
    <3>4. QED BY <3>1, <3>2, <3>3 DEF CounterNames
  <2>2. counters' = [t \in TTL |-> counters'[t]]
    BY DEF stop
  <2>3. QED BY <2>1, <2>2 DEF CountersOK
<1>3. ShapeOK'
  BY <1>1, GoneShape DEF stop
<1>4. ReservedOK' /\ \A t \in TTL : reserved'[t] = 0
  BY ReservedZero DEF stop, ReservedOK
<1>5. transport_outstanding_' = transport_outstanding_
  BY DEF stop, retire_logical_state_for_epoch_change
<1>6. SessionMatches'
  BY <1>0, <1>1, <1>5, GoneCounts, NoneIssued DEF SessionMatches
<1>7. \A t \in TTL : Matches(t)'
  BY <1>0, <1>1, <1>2, <1>4, GoneCounts, NoneIssued DEF Matches
<1>8. QED BY <1>2, <1>3, <1>4, <1>6, <1>7, IInvNext

\* restart() zeroes every counter but the number of requests the transport
\* still holds, which are the records that stay.
LEMMA RestartStep ==
  ASSUME IInv, NEW epoch \in Nat, restart(epoch)
  PROVE  IInv'
<1>0. /\ ShapeOK /\ CountersOK /\ ReservedOK /\ SessionMatches
      /\ \A t \in TTL : Matches(t)
  BY IInvFacts
<1>1. /\ ReservationsGone
      /\ \A u \in DOMAIN records_' : records_'[u].state # "issued"
      /\ reserved_' = 0 /\ logical_inflight_' = 0
  BY Retired DEF restart
<1>2. counters' = [t \in TTL |->
        [ZeroCounters EXCEPT !["transport_outstanding"]
           = counters[t]["transport_outstanding"]]]
  BY DEF restart
<1>3. /\ CountersOK'
      /\ \A t \in TTL : /\ counters'[t]["in_flight"] = 0
                        /\ counters'[t]["transport_outstanding"]
                             = counters[t]["transport_outstanding"]
  <2>1. \A t \in TTL : counters[t]["transport_outstanding"] \in Nat
    BY <1>0 DEF CountersOK, CounterNames
  <2>2. QED BY <1>2, <2>1 DEF CountersOK, ZeroCounters, CounterNames
<1>4. ShapeOK'
  <2>1. DOMAIN records_' \subseteq 1..sequence_'
    BY <1>0, <1>1 DEF restart, ReservationsGone, Outstanding, ShapeOK
  <2>2. records_' \in [DOMAIN records_' -> Records]
    BY <1>1 DEF ReservationsGone
  <2>3. now \in Nat /\ next_send_at' \in [TTL -> Nat]
    BY <1>0, StaggeredType, SchedulerAssumption DEF restart, ShapeOK
  <2>4. QED BY <1>0, <2>1, <2>2, <2>3, TTLFacts DEF ShapeOK, restart
<1>5. ReservedOK' /\ \A t \in TTL : reserved'[t] = 0
  BY DEF restart, ReservedOK
<1>6. transport_outstanding_' = transport_outstanding_
  BY DEF restart, retire_logical_state_for_epoch_change
<1>7. SessionMatches'
  BY <1>0, <1>1, <1>6, GoneCounts, NoneIssued DEF SessionMatches
<1>8. \A t \in TTL : Matches(t)'
  BY <1>0, <1>1, <1>3, <1>5, GoneCounts, NoneIssued DEF Matches
<1>9. QED BY <1>3, <1>4, <1>5, <1>7, <1>8, IInvNext

-----------------------------------------------------------------------------
\* The steps that leave the records alone.
LEMMA SameRecords ==
  ASSUME IInv, ShapeOK',
         UNCHANGED << records_, reserved, reserved_, counters,
                      logical_inflight_, transport_outstanding_ >>
  PROVE  IInv'
<1>0. /\ CountersOK /\ ReservedOK /\ SessionMatches /\ \A t \in TTL : Matches(t)
  BY IInvFacts
<1>1. CountersOK' /\ ReservedOK' /\ SessionMatches'
  BY <1>0 DEF CountersOK, ReservedOK, SessionMatches
<1>2. \A t \in TTL : Matches(t)'
  BY <1>0 DEF Matches
<1>3. QED BY <1>1, <1>2, IInvNext

LEMMA TickStep == ASSUME IInv, Tick PROVE IInv'
<1>1. ShapeOK
  BY IInvFacts
<1>2. ShapeOK'
  BY <1>1, SchedulerAssumption DEF ShapeOK, Tick, plan
<1>3. QED BY <1>2, SameRecords DEF Tick

LEMMA SetLastStep ==
  ASSUME IInv, NEW last \in Int, NEW at \in Nat, set_last_ttl(last, at)
  PROVE  IInv'
<1> DEFINE next  == IF last < config_.first_ttl THEN config_.first_ttl
                    ELSE IF last > config_.last_ttl THEN config_.last_ttl
                    ELSE last
           added == next - active_last_ttl_
<1>0. ShapeOK
  BY IInvFacts
<1>1. next \in TTL /\ next # active_last_ttl_ /\ active_last_ttl_' = next
  BY ConfigFacts DEF set_last_ttl, TTL
<1>2. next_send_at' = [t \in TTL |->
         IF t \in active_last_ttl_ + 1 .. next
         THEN at + ((t - active_last_ttl_ - 1) * config_.interval_ms) \div added
         ELSE next_send_at[t]]
  BY DEF set_last_ttl
<1>3. active_last_ttl_ \in Nat /\ next \in Nat /\ now \in Nat
  BY <1>0, <1>1, TTLFacts, SchedulerAssumption DEF ShapeOK
<1> HIDE DEF next
<1>4. ASSUME NEW t \in TTL, t \in active_last_ttl_ + 1 .. next
      PROVE at + ((t - active_last_ttl_ - 1) * config_.interval_ms) \div added \in Nat
  <2>1. (t - active_last_ttl_ - 1) * config_.interval_ms \in Nat
    <3>1. t - active_last_ttl_ - 1 \in Nat
      BY <1>3, <1>4
    <3>2. QED BY <3>1, ConfigFacts
  <2>2. added \in Nat \ {0}
    BY <1>3, <1>4
  <2> HIDE DEF added
  <2>3. QED BY <1>3, <2>1, <2>2
<1>5. next_send_at' \in [TTL -> Nat]
  BY <1>0, <1>2, <1>4 DEF ShapeOK
<1>6. ShapeOK'
  BY <1>0, <1>1, <1>5 DEF ShapeOK, set_last_ttl
<1>7. QED BY <1>6, SameRecords DEF set_last_ttl

-----------------------------------------------------------------------------
\* expire() turns the issued records past their deadline into timed-out ones,
\* which the transport still holds.
LEMMA ExpireStep ==
  ASSUME IInv, expire
  PROVE  IInv'
<1> DEFINE q     == records_'
           at(t) == { u \in Expired : records_[u].ttl = t }
           n(t)  == Cardinality(at(t))
<1>0. /\ ShapeOK /\ CountersOK /\ ReservedOK /\ SessionMatches
      /\ \A t \in TTL : Matches(t)
      /\ IsFiniteSet(DOMAIN records_)
  BY IInvFacts
<1>1. /\ DOMAIN q = DOMAIN records_
      /\ \A u \in DOMAIN records_ \ Expired : q[u] = records_[u]
      /\ \A u \in Expired : /\ u \in DOMAIN records_
                            /\ q[u] = [records_[u] EXCEPT !.state = "timed_out"]
                            /\ records_[u].state = "issued"
  BY DEF expire, Expired, InState
<1>2. \A u \in DOMAIN records_ : records_[u] \in Records
  BY <1>0 DEF ShapeOK
<1>3. ASSUME NEW u \in Expired
      PROVE q[u] \in Records /\ q[u].state = "timed_out" /\ q[u].ttl = records_[u].ttl
  <2>1. records_[u] \in Records /\ q[u] = [records_[u] EXCEPT !.state = "timed_out"]
    BY <1>1, <1>2
  <2>2. QED BY <2>1 DEF Records, RecordState
<1>4. q = [u \in DOMAIN q |-> q[u]]
  BY DEF expire
<1>5. ShapeOK'
  <2>1. q \in [DOMAIN q -> Records]
    BY <1>1, <1>2, <1>3, <1>4
  <2>2. DOMAIN q \subseteq 1..sequence_
    BY <1>0, <1>1 DEF ShapeOK
  <2>3. UNCHANGED << now, active_, plan >>
    BY DEF expire
  <2>4. QED BY <1>0, <2>1, <2>2, <2>3 DEF ShapeOK, plan
<1>6. /\ UNCHANGED << reserved, reserved_, transport_outstanding_ >>
      /\ logical_inflight_' = logical_inflight_ - Cardinality(Expired)
      /\ counters' = [t \in TTL |->
           [counters[t] EXCEPT !["completed"] = @ + n(t), !["timed_out"] = @ + n(t),
                               !["in_flight"] = @ - n(t)]]
  BY DEF expire
<1> HIDE DEF q
<1>6a. ASSUME NEW u \in DOMAIN records_
      PROVE /\ q[u].ttl = records_[u].ttl
            /\ q[u].state = "reserved" <=> records_[u].state = "reserved"
            /\ q[u].state = "issued" <=> records_[u].state = "issued" /\ u \notin Expired
  BY <1>1, <1>3
<1>7. /\ NIn(q, "reserved") = NIn(records_, "reserved")
      /\ NOut(q) = NOut(records_)
      /\ NIn(q, "issued") = NIn(records_, "issued") - Cardinality(Expired)
  <2>1. { u \in DOMAIN q : q[u].state = "reserved" }
          = { u \in DOMAIN records_ : records_[u].state = "reserved" }
    BY <1>1, <1>6a
  <2>2. { u \in DOMAIN q : q[u].state # "reserved" }
          = { u \in DOMAIN records_ : records_[u].state # "reserved" }
    BY <1>1, <1>6a
  <2>3. { u \in DOMAIN q : q[u].state = "issued" }
          = { u \in DOMAIN records_ : records_[u].state = "issued" } \ Expired
    BY <1>1, <1>6a
  <2>4. Expired \in SUBSET { u \in DOMAIN records_ : records_[u].state = "issued" }
    BY <1>1
  <2>5. IsFiniteSet({ u \in DOMAIN records_ : records_[u].state = "issued" })
    BY <1>0, FS_Subset
  <2>6. QED BY <2>1, <2>2, <2>3, <2>4, <2>5, CardMinus DEF NIn, NOut
<1>8. ASSUME NEW t
      PROVE /\ NAt(q, "reserved", t) = NAt(records_, "reserved", t)
            /\ NOutAt(q, t) = NOutAt(records_, t)
            /\ NAt(q, "issued", t) = NAt(records_, "issued", t) - n(t)
            /\ n(t) \in Nat /\ NAt(q, "issued", t) \in Nat
            /\ NAt(records_, "issued", t) \in Nat
  <2> DEFINE was == { u \in DOMAIN records_ :
                        records_[u].state = "issued" /\ records_[u].ttl = t }
  <2>1. { u \in DOMAIN q : q[u].state = "reserved" /\ q[u].ttl = t }
          = { u \in DOMAIN records_ : records_[u].state = "reserved"
                                      /\ records_[u].ttl = t }
    BY <1>1, <1>6a
  <2>2. { u \in DOMAIN q : q[u].state # "reserved" /\ q[u].ttl = t }
          = { u \in DOMAIN records_ : records_[u].state # "reserved"
                                      /\ records_[u].ttl = t }
    BY <1>1, <1>6a
  <2>3. { u \in DOMAIN q : q[u].state = "issued" /\ q[u].ttl = t } = was \ at(t)
    BY <1>1, <1>6a
  <2>4. at(t) \in SUBSET was
    BY <1>1
  <2>5. IsFiniteSet(was) /\ IsFiniteSet(was \ at(t))
    BY <1>0, FS_Subset
  <2> HIDE DEF was, at
  <2>6. /\ Cardinality(was \ at(t)) = Cardinality(was) - Cardinality(at(t))
        /\ Cardinality(at(t)) \in Nat /\ Cardinality(was) \in Nat
    BY <2>4, <2>5, CardMinus
  <2>7. Cardinality(was \ at(t)) \in Nat
    BY <2>5, FS_CardinalityType
  <2>8. NAt(records_, "issued", t) = Cardinality(was)
        /\ NAt(q, "issued", t) = Cardinality(was \ at(t))
    BY <2>3 DEF NAt, was
  <2>9. QED BY <2>1, <2>2, <2>6, <2>7, <2>8 DEF NAt, NOutAt
<1>9. ASSUME NEW t \in TTL
      PROVE /\ counters'[t] \in [CounterNames -> Nat]
            /\ counters'[t]["in_flight"] = counters[t]["in_flight"] - n(t)
            /\ counters'[t]["transport_outstanding"]
                 = counters[t]["transport_outstanding"]
  <2>1. n(t) \in Nat /\ counters[t]["in_flight"] - n(t) \in Nat
    BY <1>0, <1>8 DEF Matches
  <2>2. counters[t] \in [CounterNames -> Nat]
    BY <1>0 DEF CountersOK
  <2>3. counters'[t] =
          [counters[t] EXCEPT !["completed"] = @ + n(t), !["timed_out"] = @ + n(t),
                              !["in_flight"] = @ - n(t)]
    BY <1>6
  <2> HIDE DEF n
  <2>4. QED BY <2>1, <2>2, <2>3 DEF CounterNames
<1>10. CountersOK'
  BY <1>6, <1>9 DEF CountersOK
<1>11. ReservedOK'
  BY <1>0, <1>6 DEF ReservedOK
<1>12. SessionMatches'
  BY <1>0, <1>6, <1>7 DEF SessionMatches, q
<1>13. ASSUME NEW t \in TTL PROVE Matches(t)'
  <2> HIDE DEF n
  <2>1. Matches(t)
    BY <1>0
  <2>2. QED BY <1>6, <1>8, <1>9, <2>1 DEF Matches, q
<1>14. QED BY <1>5, <1>10, <1>11, <1>12, <1>13, IInvNext

-----------------------------------------------------------------------------
\* Where reserve_due() leaves a deadline, and the counters of the TTLs it
\* visited.
LEMMA NextSlotType ==
  ASSUME ShapeOK, NEW t \in TTL, next_send_at[t] <= now
  PROVE  /\ NextSlotAfterNow(t) \in Nat
         /\ NextSlotAfterNow(t) > now
<1> DEFINE late == now - next_send_at[t]
           d    == config_.interval_ms
<1>1. late \in Nat /\ next_send_at[t] \in Nat /\ now \in Nat
  BY SchedulerAssumption DEF ShapeOK
<1>2. d \in Nat \ {0}
  BY ConfigFacts
<1>3. NextSlotAfterNow(t) = next_send_at[t] + (late \div d + 1) * d
  BY DEF NextSlotAfterNow
<1> HIDE DEF late, d
<1>4. late \div d \in Nat /\ late < (late \div d + 1) * d
  <2>1. late \div d \in Nat /\ (late % d) \in 0..(d - 1)
        /\ late = d * (late \div d) + (late % d)
    BY <1>1, <1>2
  <2>2. (late \div d + 1) * d = d * (late \div d) + d
    BY <1>2, <2>1
  <2>3. QED BY <1>1, <1>2, <2>1, <2>2
<1>5. (late \div d + 1) * d \in Nat
  BY <1>2, <1>4
<1>6. QED BY <1>1, <1>3, <1>4, <1>5 DEF late

LEMMA NotedValue ==
  ASSUME ShapeOK, CountersOK, NEW t \in TTL, next_send_at[t] <= now
  PROVE  /\ Noted(t) \in [CounterNames -> Nat]
         /\ \A c \in CounterNames \ { "scheduler_late_slots", "scheduler_skipped",
                "scheduler_lateness_total_ms", "scheduler_lateness_max_ms" } :
              Noted(t)[c] = counters[t][c]
<1>1. now - next_send_at[t] \in Nat
  BY SchedulerAssumption DEF ShapeOK
<1>2. counters[t] \in [CounterNames -> Nat]
  BY DEF CountersOK
<1>3. QED BY <1>1, <1>2 DEF Noted, CounterNames, AtLeast

\* What reserve_due() does to the TTLs, whether it finds a slot or not.
LEMMA ReserveVisits ==
  ASSUME IInv, reserve_due
  PROVE  /\ next_send_at' \in [TTL -> Nat]
         /\ CountersOK'
         /\ \A t \in TTL : counters'[t]["in_flight"] = counters[t]["in_flight"]
              /\ counters'[t]["transport_outstanding"]
                   = counters[t]["transport_outstanding"]
<1>0. ShapeOK /\ CountersOK
  BY IInvFacts
<1>1. \A t \in Visited : t \in TTL /\ next_send_at[t] <= now
  BY <1>0, ConfigFacts, TTLFacts DEF Visited, Due, ShapeOK, TTL
<1>2. next_send_at' \in [TTL -> Nat]
  BY <1>0, <1>1, NextSlotType DEF reserve_due, ShapeOK
<1>3. counters' = [t \in TTL |-> IF t \in Visited THEN Noted(t) ELSE counters[t]]
  BY DEF reserve_due
<1>4. ASSUME NEW t \in TTL
      PROVE /\ counters'[t] \in [CounterNames -> Nat]
            /\ counters'[t]["in_flight"] = counters[t]["in_flight"]
            /\ counters'[t]["transport_outstanding"]
                 = counters[t]["transport_outstanding"]
  <2>1. CASE t \in Visited
    <3>1. counters'[t] = Noted(t)
      BY <1>3, <2>1
    <3>2. QED BY <1>0, <1>1, <2>1, <3>1, NotedValue DEF CounterNames
  <2>2. CASE t \notin Visited
    BY <1>0, <1>3, <2>2 DEF CountersOK
  <2>3. QED BY <2>1, <2>2
<1>5. QED BY <1>2, <1>3, <1>4 DEF CountersOK

LEMMA ReserveStep ==
  ASSUME IInv, reserve_due
  PROVE  IInv'
<1>0. /\ ShapeOK /\ CountersOK /\ ReservedOK /\ SessionMatches
      /\ \A t \in TTL : Matches(t)
      /\ IsFiniteSet(DOMAIN records_)
  BY IInvFacts
<1>1. /\ next_send_at' \in [TTL -> Nat]
      /\ CountersOK'
      /\ \A t \in TTL : counters'[t]["in_flight"] = counters[t]["in_flight"]
           /\ counters'[t]["transport_outstanding"]
                = counters[t]["transport_outstanding"]
  BY ReserveVisits
<1>2. UNCHANGED << now, active_, epoch_, active_last_ttl_, logical_inflight_,
                   transport_outstanding_ >>
  BY DEF reserve_due
<1>3. CASE UNCHANGED << sequence_, records_, reserved, reserved_, next_global_send_at_ >>
  <2>1. ShapeOK'
    BY <1>0, <1>1, <1>2, <1>3 DEF ShapeOK
  <2>2. ReservedOK' /\ SessionMatches' /\ \A t \in TTL : Matches(t)'
    BY <1>0, <1>1, <1>2, <1>3 DEF ReservedOK, SessionMatches, Matches
  <2>3. QED BY <1>1, <2>1, <2>2, IInvNext
<1>4. ASSUME NEW k \in Chosen,
             sequence_ < MaxSequence, sequence_' = sequence_ + 1,
             records_' = [s \in DOMAIN records_ \cup {sequence_'} |->
               IF s = sequence_'
               THEN [ttl |-> k, epoch |-> epoch_, state |-> "reserved", deadline |-> 0]
               ELSE records_[s]],
             reserved' = [reserved EXCEPT ![k] = @ + 1],
             reserved_' = reserved_ + 1,
             next_global_send_at_' = now + global_spacing_ms
      PROVE  IInv'
  <2> DEFINE q == records_'
             s == sequence_'
             x == [ttl |-> k, epoch |-> epoch_, state |-> "reserved", deadline |-> 0]
  <2>1. k \in TTL
    BY <1>0, ConfigFacts, TTLFacts DEF Chosen, Visited, Due, ShapeOK, TTL
  <2>2. x \in Records
    BY <1>0, <2>1 DEF ShapeOK, Records, RecordState
  <2>3. sequence_ \in Nat /\ DOMAIN records_ \subseteq 1..sequence_ /\ s = sequence_ + 1
    BY <1>0, <1>4, SchedulerAssumption DEF ShapeOK
  <2>4. s \notin DOMAIN records_
    BY <2>3
  <2>5. /\ DOMAIN q = DOMAIN records_ \cup {s}
        /\ q[s] = x
        /\ \A u \in DOMAIN records_ : q[u] = records_[u]
    BY <1>4, <2>4
  <2>6. ShapeOK'
    <3>1. q \in [DOMAIN q -> Records]
      BY <1>0, <1>4, <2>2 DEF ShapeOK
    <3>2. DOMAIN q \subseteq 1..s
      BY <2>3, <2>5
    <3>3. s \in 0..MaxSequence
      BY <1>4, <2>3, SchedulerAssumption
    <3>4. next_global_send_at_' \in Nat
      BY <1>0, <1>4, SpacingFact, SchedulerAssumption DEF ShapeOK
    <3>5. QED BY <1>0, <1>1, <1>2, <3>1, <3>2, <3>3, <3>4 DEF ShapeOK
  <2>7. IsFiniteSet(DOMAIN q)
    BY <1>0, <2>4, <2>5, CardAdd
  <2> HIDE DEF q, s, x
  <2>8. DOMAIN records_ = DOMAIN q \ {s} /\ s \in DOMAIN q
        /\ \A u \in DOMAIN records_ : records_[u] = q[u]
    BY <2>4, <2>5
  <2>9. x.state = "reserved" /\ x.ttl = k
    BY DEF x
  <2>10. ASSUME NEW st, NEW t
         PROVE /\ NIn(q, st) = NIn(records_, st) + Hit(x, st)
               /\ NAt(q, st, t) = NAt(records_, st, t) + HitAt(x, st, t)
               /\ NOut(q) = NOut(records_) + Held(x)
               /\ NOutAt(q, t) = NOutAt(records_, t) + HeldAt(x, t)
               /\ NIn(records_, st) \in Nat /\ NAt(records_, st, t) \in Nat
               /\ NOut(records_) \in Nat /\ NOutAt(records_, t) \in Nat
    <3>1. /\ NIn(q, st) = NIn(records_, st) + Hit(q[s], st)
          /\ NAt(q, st, t) = NAt(records_, st, t) + HitAt(q[s], st, t)
          /\ NOut(q) = NOut(records_) + Held(q[s])
          /\ NOutAt(q, t) = NOutAt(records_, t) + HeldAt(q[s], t)
      BY <2>7, <2>8, RecordAdded
    <3>2. /\ NIn(records_, st) \in Nat /\ NAt(records_, st, t) \in Nat
          /\ NOut(records_) \in Nat /\ NOutAt(records_, t) \in Nat
      BY <1>0, CountsAreNat
    <3>3. QED BY <2>5, <3>1, <3>2
  <2>11. ReservedOK' /\ \A t \in TTL : reserved'[t] = reserved[t] + Same(t, k)
    BY <1>0, <1>4, <2>1 DEF ReservedOK, Same
  <2>12. SessionMatches'
    <3>1. /\ NIn(q, "reserved") = NIn(records_, "reserved") + 1
          /\ NIn(q, "issued") = NIn(records_, "issued")
          /\ NOut(q) = NOut(records_)
      BY <2>9, <2>10 DEF Hit, Held
    <3>2. QED BY <1>0, <1>2, <1>4, <3>1 DEF SessionMatches, q
  <2>13. ASSUME NEW t \in TTL PROVE Matches(t)'
    <3>1. /\ NAt(q, "reserved", t) = NAt(records_, "reserved", t) + Same(t, k)
          /\ NAt(q, "issued", t) = NAt(records_, "issued", t)
          /\ NOutAt(q, t) = NOutAt(records_, t)
      <4>1. /\ NAt(q, "reserved", t) = NAt(records_, "reserved", t)
                 + HitAt(x, "reserved", t)
            /\ NAt(q, "issued", t) = NAt(records_, "issued", t) + HitAt(x, "issued", t)
            /\ NOutAt(q, t) = NOutAt(records_, t) + HeldAt(x, t)
            /\ NAt(records_, "issued", t) \in Nat /\ NOutAt(records_, t) \in Nat
        BY <2>10
      <4>2. QED BY <2>9, <4>1 DEF HitAt, HeldAt, Same
    <3>2. Matches(t)
      BY <1>0
    <3>3. QED BY <1>1, <2>11, <3>1, <3>2 DEF Matches, q
  <2>14. QED BY <1>1, <2>6, <2>11, <2>12, <2>13, IInvNext
<1>5. QED BY <1>3, <1>4 DEF reserve_due

-----------------------------------------------------------------------------
\* Every step of the scheduler preserves the invariant.
LEMMA StepIInv == IInv /\ [Next]_vars => IInv'
<1> SUFFICES ASSUME IInv, [Next]_vars PROVE IInv'
  OBVIOUS
<1>1. CASE Tick
  BY <1>1, TickStep
<1>2. ASSUME NEW epoch \in epoch_ + 1 .. MaxEpoch, restart(epoch) PROVE IInv'
  <2>1. epoch \in Nat
    BY <1>2, IInvFacts, SchedulerAssumption DEF ShapeOK
  <2>2. QED BY <1>2, <2>1, RestartStep
<1>3. CASE stop
  BY <1>3, StopStep
<1>4. CASE begin_drain
  BY <1>4, DrainStep
<1>5. CASE cancel_pending
  BY <1>5, CancelStep
<1>6. ASSUME NEW last \in 0 .. config_.last_ttl + 1, NEW at \in now .. now + MaxLag,
             set_last_ttl(last, at)
      PROVE IInv'
  <2>1. last \in Int /\ at \in Nat
    BY IInvFacts, SchedulerAssumption DEF ShapeOK
  <2>2. QED BY <1>6, <2>1, SetLastStep
<1>7. CASE reserve_due
  BY <1>7, ReserveStep
<1>8. ASSUME NEW s \in DOMAIN records_, mark_issued(s, now) PROVE IInv'
  BY <1>8, IssuedStep
<1>9. ASSUME NEW s \in DOMAIN records_, mark_issue_failed(s) PROVE IInv'
  <2>1. /\ Unreserve(s)
        /\ counters' = Count(records_[s].ttl, { "local_errors" }, {})
        /\ records_' = Without({s})
        /\ UNCHANGED << logical_inflight_, transport_outstanding_ >>
    BY <1>9 DEF mark_issue_failed
  <2>2. QED BY <2>1, RefusedStep
<1>10. ASSUME NEW s \in DOMAIN records_, mark_cached(s) PROVE IInv'
  <2>1. /\ Unreserve(s)
        /\ counters' = Count(records_[s].ttl, { "cache_skipped" }, {})
        /\ records_' = Without({s})
        /\ UNCHANGED << logical_inflight_, transport_outstanding_ >>
    BY <1>10 DEF mark_cached
  <2>2. QED BY <2>1, RefusedStep
<1>11. ASSUME NEW s \in DOMAIN records_, NEW kind, NEW at, complete(s, kind, at)
       PROVE IInv'
  BY <1>11, CompleteStep
<1>12. CASE expire
  BY <1>12, ExpireStep
<1>13. CASE UNCHANGED vars
  <2>1. ShapeOK'
    BY <1>13, IInvFacts DEF vars, ShapeOK
  <2>2. QED BY <1>13, <2>1, SameRecords DEF vars
<1>14. QED
  BY <1>1, <1>2, <1>3, <1>4, <1>5, <1>6, <1>7, <1>8, <1>9, <1>10, <1>11, <1>12,
     <1>13 DEF Next

LEMMA Inductive == Spec => []IInv
  BY InitIInv, StepIInv, PTL DEF Spec

\* Every variable of the scheduler keeps its type for every configuration: in
\* particular no decrement of an unsigned counter ever wraps below zero.
THEOREM TypeCorrect == Spec => []TypeOK
<1>1. IInv => TypeOK
  BY DEF IInv
<1>2. QED BY <1>1, Inductive, PTL

\* Whatever the order of the calls, the counts that the limits are checked
\* against are the numbers of records in the states they count.
THEOREM Accounting == Spec => []RecordsAccounted
<1>1. IInv => RecordsAccounted
  BY DEF IInv
<1>2. QED BY <1>1, Inductive, PTL
=============================================================================
