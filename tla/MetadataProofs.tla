---------------------------- MODULE MetadataProofs ----------------------------
(***************************************************************************)
(* Proofs about MetadataPipeline, for any addresses, workers, options and  *)
(* limits: every lookup is tracked exactly as long as it is under way, what *)
(* the hops show is what is cached, and a cancelled lookup leaves nothing  *)
(* in the cache.                                                           *)
(*                                                                         *)
(* The invariant says where the lookup of a registered address is, without *)
(* counting (OncePlaced), and that the jobs of the epoch that runs carry   *)
(* the options of the session that runs (JobOK): the others are cancelled, *)
(* whatever place they are in when the epoch ends.                         *)
(***************************************************************************)
EXTENDS MetadataPipeline, SequenceTheorems, FiniteSetTheorems, TLAPS

Value == Provider \cup { "dns" }

WorkerState ==
  { Idle } \cup [ at : { "popped" }, job : metadata_job ]
           \cup [ at : { "asking" }, job : metadata_job, started : 1 .. MaxNow ]

\* A job is of an epoch that has begun, and of this session if of this epoch.
JobOK(job) ==
  job.epoch <= data_epoch /\ (~Cancelled(job) => job.options = session_options)

JobsOK ==
  /\ request.at # "none" => JobOK(request.job)
  /\ \A i \in 1 .. Len(metadata_jobs) : JobOK(metadata_jobs[i])
  /\ \A w \in Worker : worker[w].at # "idle" => JobOK(worker[w].job)

\* The places where an address may be looked up.
Asked(a)   == request.at \in { "push", "undo" } /\ Looking(request.job, a)
Queued(a)  == { i \in 1 .. Len(metadata_jobs) : Looking(metadata_jobs[i], a) }
Working(a) == { w \in Worker : worker[w].at # "idle" /\ Looking(worker[w].job, a) }

Registered(a) == << data_epoch, a >> \in reverse_dns_inflight

OncePlaced(a) ==
  IF Registered(a)
  THEN \/ Asked(a) /\ Queued(a) = {} /\ Working(a) = {}
       \/ ~Asked(a) /\ (\E i \in Queued(a) : Queued(a) = {i}) /\ Working(a) = {}
       \/ ~Asked(a) /\ Queued(a) = {} /\ (\E w \in Working(a) : Working(a) = {w})
  ELSE ~Asked(a) /\ Queued(a) = {} /\ Working(a) = {}

Shape ==
  /\ TypeOK
  /\ worker \in [Worker -> WorkerState]
  /\ shown \in [DOMAIN shown -> [Fields -> Value]]
  /\ IsFiniteSet(DOMAIN responder_lookup_cache)

Placed == \A a \in Address : OncePlaced(a)

MetaInv == Shape /\ JobsOK /\ Placed

-----------------------------------------------------------------------------
\* What the operators of the model return.

LEMMA WorkerCases ==
  ASSUME NEW state \in WorkerState
  PROVE  \/ state = Idle /\ state.at = "idle"
         \/ state.at = "popped" /\ state.job \in metadata_job
         \/ state.at = "asking" /\ state.job \in metadata_job /\ state.started \in 1 .. MaxNow
BY DEF WorkerState, Idle

LEMMA RequestCases ==
  ASSUME TypeOK
  PROVE  \/ request = NoRequest /\ request.at = "none"
         \/ /\ request \in [ at : { "insert", "push", "undo" }, job : metadata_job ]
            /\ request.job \in metadata_job /\ request.at \in { "insert", "push", "undo" }
BY DEF TypeOK, NoRequest

LEMMA AnswersTyped ==
  ASSUME NEW job, NEW answer \in Answers(job)
  PROVE  answer \in [Fields -> Value]
<1>1. \A fields \in queryAddress(job) : fields \in [Fields -> Value]
  BY DEF queryAddress, Nothing, Fields, Value, Provider, Owner
<1>2. PICK fields \in queryAddress(job) :
        \/ answer = fields
        \/ \E name \in { "none", "dns" } : answer = [fields EXCEPT !["name"] = name]
  BY DEF Answers
<1>3. \A name \in { "none", "dns" } : name \in Value
  BY DEF Value, Provider
<1>. QED
  BY <1>1, <1>2, <1>3

LEMMA UpdateTyped ==
  ASSUME NEW table, table \in [DOMAIN table -> [Fields -> Value]],
         NEW a, NEW fields \in [Fields -> Value]
  PROVE  /\ updateResponder(table, a, fields) \in [DOMAIN table -> [Fields -> Value]]
         /\ DOMAIN updateResponder(table, a, fields) = DOMAIN table
BY DEF updateResponder

LEMMA DisplayedTyped ==
  ASSUME NEW fields \in [Fields -> Value], NEW name, NEW network
  PROVE  Displayed(fields, name, network) \in [Fields -> Value]
BY DEF Displayed, Value, Provider

LEMMA CacheShown ==
  ASSUME TypeOK, NEW a, Cached(a), NEW options
  PROVE  DisplayedFromCache(a, options) \in [Fields -> Value]
<1>1. responder_lookup_cache[a].fields \in [Fields -> Value]
  BY DEF TypeOK, Cached, responder_metadata, Value
<1>. QED
  BY <1>1, DisplayedTyped DEF DisplayedFromCache

LEMMA MergedTyped ==
  ASSUME TypeOK, NEW job \in metadata_job, NEW fields \in [Fields -> Value],
         NEW started \in 1 .. MaxNow
  PROVE  Merged(job, fields, started) \in responder_metadata
<1>. DEFINE entry == Merged(job, fields, started)
            previous == responder_lookup_cache[job.address]
<1>1. /\ MaxNow \in Nat /\ 0 \in 0 .. MaxNow /\ started \in 0 .. MaxNow
      /\ job.options.resolve_hostname \in BOOLEAN /\ job.options.lookup_asn_isp \in BOOLEAN
  BY MetadataAssumption DEF metadata_job
<1>2. CASE ~Cached(job.address)
  <2>1. entry =
          [ fields |-> fields, hostname_queried |-> job.options.resolve_hostname,
            network_queried |-> job.options.lookup_asn_isp,
            hostname_cached_at |-> IF job.options.resolve_hostname THEN started ELSE 0,
            network_cached_at |-> IF job.options.lookup_asn_isp THEN started ELSE 0,
            cached_at |-> started ]
    BY <1>2 DEF Merged
  <2>. QED
    BY <1>1, <2>1 DEF responder_metadata, Value
<1>3. CASE Cached(job.address)
  <2>1. previous \in responder_metadata
    BY <1>3 DEF TypeOK, Cached
  <2>2. /\ previous.fields \in [Fields -> Value]
        /\ previous.hostname_queried \in BOOLEAN /\ previous.network_queried \in BOOLEAN
        /\ previous.hostname_cached_at \in 0 .. MaxNow
        /\ previous.network_cached_at \in 0 .. MaxNow
    BY <2>1 DEF responder_metadata, Value
  <2>3. entry =
          [ fields |-> [f \in Fields |-> IF fields[f] = "none" THEN previous.fields[f]
                                         ELSE fields[f]],
            hostname_queried   |-> job.options.resolve_hostname \/ previous.hostname_queried,
            network_queried    |-> job.options.lookup_asn_isp \/ previous.network_queried,
            hostname_cached_at |-> IF job.options.resolve_hostname
                                   THEN (IF job.options.resolve_hostname THEN started ELSE 0)
                                   ELSE previous.hostname_cached_at,
            network_cached_at  |-> IF job.options.lookup_asn_isp
                                   THEN (IF job.options.lookup_asn_isp THEN started ELSE 0)
                                   ELSE previous.network_cached_at,
            cached_at          |-> started ]
    BY <1>3 DEF Merged
  <2>4. [f \in Fields |-> IF fields[f] = "none" THEN previous.fields[f] ELSE fields[f]]
          \in [Fields -> Value]
    BY <2>2
  <2>. QED
    BY <1>1, <2>2, <2>3, <2>4 DEF responder_metadata, Value
<1>. QED
  BY <1>2, <1>3

\* The entries that stay leave room for the new one.
LEMMA RoomForOne ==
  ASSUME Shape, NEW a \in Address, NEW keys \in Remaining(a)
  PROVE  /\ keys \subseteq DOMAIN responder_lookup_cache
         /\ IsFiniteSet(keys \cup {a}) /\ Cardinality(keys \cup {a}) <= MaxEntries
<1>. DEFINE cached == DOMAIN responder_lookup_cache
<1>1. /\ IsFiniteSet(cached) /\ Cardinality(cached) <= MaxEntries
      /\ MaxEntries \in Nat \ {0} /\ Cardinality(cached) \in Nat
  BY MetadataAssumption, FS_CardinalityType DEF Shape, TypeOK
<1>2. CASE a \in cached \/ Cardinality(cached) < MaxEntries
  <2>1. keys = cached
    BY <1>2 DEF Remaining
  <2>2. IsFiniteSet(keys \cup {a}) /\ Cardinality(keys \cup {a}) =
          IF a \in cached THEN Cardinality(cached) ELSE Cardinality(cached) + 1
    BY <1>1, <2>1, FS_AddElement
  <2>. QED
    BY <1>1, <1>2, <2>1, <2>2
<1>3. CASE ~(a \in cached \/ Cardinality(cached) < MaxEntries)
  <2>1. PICK b \in cached : keys = cached \ {b}
    BY <1>3 DEF Remaining
  <2>2. IsFiniteSet(keys) /\ Cardinality(keys) = Cardinality(cached) - 1
    BY <1>1, <2>1, FS_RemoveElement
  <2>3. IsFiniteSet(keys \cup {a}) /\ Cardinality(keys \cup {a}) = Cardinality(keys) + 1
    BY <1>3, <2>1, <2>2, FS_AddElement
  <2>. QED
    BY <1>1, <2>1, <2>2, <2>3
<1>. QED
  BY <1>2, <1>3

-----------------------------------------------------------------------------
\* The types, action by action.

LEMMA EmptyMap ==
  ASSUME NEW S
  PROVE  DOMAIN << >> = {} /\ << >> \in [{} -> S] /\ << >> \in Seq(S) /\ Len(<< >>) = 0
OBVIOUS

LEMMA InitShape ==
  ASSUME Init
  PROVE  Shape
<1>1. /\ data_epoch = 1 /\ session_options \in Options /\ now = 1 /\ request = NoRequest
      /\ responder_lookup_cache = << >> /\ shown = << >> /\ metadata_jobs = << >>
      /\ worker = [w \in Worker |-> Idle]
  BY DEF Init
<1>2. IsFiniteSet({}) /\ Cardinality({}) = 0
  BY FS_EmptySet
<1>3. TypeOK
  <2>1. 1 \in 1 .. MaxEpoch
    BY MetadataAssumption
  <2>. QED
    BY <1>1, <1>2, <2>1, EmptyMap, MetadataAssumption DEF TypeOK
<1>4. worker \in [Worker -> WorkerState]
  BY <1>1 DEF WorkerState
<1>5. shown \in [DOMAIN shown -> [Fields -> Value]] /\ IsFiniteSet(DOMAIN responder_lookup_cache)
  BY <1>1, <1>2, EmptyMap
<1>. QED
  BY <1>3, <1>4, <1>5 DEF Shape

LEMMA CommitShape ==
  ASSUME Shape, NEW a \in Address, commitReply(a)
  PROVE  Shape'
<1>. DEFINE observed == IF a \in DOMAIN shown THEN shown
                        ELSE [b \in DOMAIN shown \cup {a} |-> IF b = a THEN Nothing ELSE shown[b]]
            job == [ address |-> a, epoch |-> data_epoch, options |-> session_options ]
<1>1. /\ shown' = IF Cached(a)
                  THEN updateResponder(observed, a, DisplayedFromCache(a, session_options))
                  ELSE observed
      /\ request' = IF Needed(a, session_options) THEN [ at |-> "insert", job |-> job ] ELSE NoRequest
      /\ UNCHANGED << data_epoch, session_options, responder_lookup_cache, reverse_dns_inflight,
                      metadata_jobs, worker, obtained, now >>
  BY DEF commitReply
<1>2. Nothing \in [Fields -> Value]
  BY DEF Nothing, Value, Provider
<1>3. /\ observed \in [DOMAIN observed -> [Fields -> Value]]
      /\ DOMAIN observed = DOMAIN shown \cup {a}
  BY <1>2 DEF Shape
<1>4. /\ shown' \in [DOMAIN shown' -> [Fields -> Value]]
      /\ DOMAIN shown' = DOMAIN shown \cup {a}
  <2>. HIDE DEF observed
  <2>1. CASE Cached(a)
    <3>. DEFINE fields == DisplayedFromCache(a, session_options)
    <3>1. fields \in [Fields -> Value]
      BY <2>1, CacheShown DEF Shape
    <3>. HIDE DEF fields
    <3>2. /\ updateResponder(observed, a, fields) \in [DOMAIN observed -> [Fields -> Value]]
          /\ DOMAIN updateResponder(observed, a, fields) = DOMAIN observed
      BY <1>3, <3>1, UpdateTyped
    <3>. QED
      BY <1>1, <1>3, <2>1, <3>2 DEF fields
  <2>2. CASE ~Cached(a)
    BY <1>1, <1>3, <2>2
  <2>. QED
    BY <2>1, <2>2
<1>5. job \in metadata_job
  <2>1. data_epoch \in 0 .. MaxEpoch /\ session_options \in Options
    BY MetadataAssumption DEF Shape, TypeOK
  <2>. QED
    BY <2>1 DEF metadata_job
<1>6. request' = NoRequest \/ request' \in [ at : { "insert", "push", "undo" }, job : metadata_job ]
  BY <1>1, <1>5
<1>. QED
  BY <1>1, <1>4, <1>6 DEF Shape, TypeOK

LEMMA InsertShape ==
  ASSUME Shape, Insert
  PROVE  Shape'
<1>. DEFINE job == request.job
<1>1. /\ request.at = "insert"
      /\ shown' = IF Cached(job.address) /\ ~Cancelled(job)
                  THEN updateResponder(shown, job.address, DisplayedFromCache(job.address, job.options))
                  ELSE shown
      /\ request' = NoRequest \/ request' = [request EXCEPT !.at = "push"]
      /\ UNCHANGED << data_epoch, session_options, responder_lookup_cache, metadata_jobs, worker,
                      obtained, now >>
  BY DEF Insert
<1>2. request \in [ at : { "insert", "push", "undo" }, job : metadata_job ]
  BY <1>1, RequestCases DEF Shape
<1>3. request' = NoRequest \/ request' \in [ at : { "insert", "push", "undo" }, job : metadata_job ]
  BY <1>1, <1>2
<1>4. shown' \in [DOMAIN shown' -> [Fields -> Value]] /\ DOMAIN shown' = DOMAIN shown
  <2>1. CASE Cached(job.address) /\ ~Cancelled(job)
    <3>. DEFINE fields == DisplayedFromCache(job.address, job.options)
    <3>1. fields \in [Fields -> Value]
      BY <2>1, CacheShown DEF Shape
    <3>. HIDE DEF fields
    <3>2. /\ updateResponder(shown, job.address, fields) \in [DOMAIN shown -> [Fields -> Value]]
          /\ DOMAIN updateResponder(shown, job.address, fields) = DOMAIN shown
      BY <3>1, UpdateTyped DEF Shape
    <3>. QED
      BY <1>1, <2>1, <3>2 DEF fields
  <2>2. CASE ~(Cached(job.address) /\ ~Cancelled(job))
    BY <1>1, <2>2 DEF Shape
  <2>. QED
    BY <2>1, <2>2
<1>. QED
  BY <1>1, <1>3, <1>4 DEF Shape, TypeOK

LEMMA PushShape ==
  ASSUME Shape, Push
  PROVE  Shape'
<1>1. request \in [ at : { "insert", "push", "undo" }, job : metadata_job ]
  BY RequestCases DEF Shape, Push
<1>2. metadata_jobs' \in Seq(metadata_job) /\ Len(metadata_jobs') <= MaxJobs
  <2>1. metadata_jobs \in Seq(metadata_job) /\ MaxJobs \in Nat
    BY MetadataAssumption DEF Shape, TypeOK
  <2>2. CASE Len(metadata_jobs) < MaxJobs
    <3>1. metadata_jobs' = Append(metadata_jobs, request.job) /\ request.job \in metadata_job
      BY <1>1, <2>2 DEF Push
    <3>. QED
      BY <2>1, <2>2, <3>1, AppendProperties, LenProperties
  <2>3. CASE ~(Len(metadata_jobs) < MaxJobs)
    BY <2>3 DEF Shape, TypeOK, Push
  <2>. QED
    BY <2>2, <2>3
<1>3. request' = NoRequest \/ request' \in [ at : { "insert", "push", "undo" }, job : metadata_job ]
  BY <1>1 DEF Push
<1>. QED
  BY <1>2, <1>3 DEF Shape, TypeOK, Push

LEMMA UndoShape ==
  ASSUME Shape, Undo
  PROVE  Shape'
BY DEF Shape, TypeOK, Undo

LEMMA PopShape ==
  ASSUME Shape, NEW w \in Worker, Pop(w)
  PROVE  Shape'
<1>1. /\ metadata_jobs \in Seq(metadata_job) /\ metadata_jobs # << >>
      /\ metadata_jobs' = Tail(metadata_jobs)
      /\ worker' = [worker EXCEPT ![w] = [ at |-> "popped", job |-> Head(metadata_jobs) ]]
  BY DEF Shape, TypeOK, Pop
<1>2. /\ Head(metadata_jobs) \in metadata_job /\ Tail(metadata_jobs) \in Seq(metadata_job)
      /\ Len(Tail(metadata_jobs)) = Len(metadata_jobs) - 1 /\ Len(metadata_jobs) \in Nat
  BY <1>1, HeadTailProperties, LenProperties
<1>3. [ at |-> "popped", job |-> Head(metadata_jobs) ] \in WorkerState
  BY <1>2 DEF WorkerState
<1>4. worker' \in [Worker -> WorkerState]
  BY <1>1, <1>3 DEF Shape
<1>5. Len(metadata_jobs') <= MaxJobs
  BY <1>1, <1>2, MetadataAssumption DEF Shape, TypeOK
<1>. QED
  BY <1>1, <1>2, <1>4, <1>5 DEF Shape, TypeOK, Pop

LEMMA BeginShape ==
  ASSUME Shape, NEW w \in Worker, Begin(w)
  PROVE  Shape'
<1>1. worker[w].at = "popped" /\ worker[w].job \in metadata_job
  BY WorkerCases DEF Shape, Begin
<1>2. /\ Idle \in WorkerState
      /\ [ at |-> "asking", job |-> worker[w].job, started |-> now ] \in WorkerState
  BY <1>1 DEF WorkerState, Shape, TypeOK
<1>3. worker' \in [Worker -> WorkerState]
  BY <1>2 DEF Begin, Shape
<1>. QED
  BY <1>3 DEF Shape, TypeOK, Begin

LEMMA ThrowShape ==
  ASSUME Shape, NEW w \in Worker, Throw(w)
  PROVE  Shape'
<1>1. worker' \in [Worker -> WorkerState]
  BY DEF Throw, Shape, WorkerState
<1>. QED
  BY <1>1 DEF Shape, TypeOK, Throw

\* What an answer changes: nothing, or one entry and what the hops say of it.
Stored(job, entry, keys) ==
  /\ responder_lookup_cache' = [b \in keys \cup { job.address } |->
       IF b = job.address THEN entry ELSE responder_lookup_cache[b]]
  /\ shown' = updateResponder(shown, job.address,
       Displayed(entry.fields, job.options.resolve_hostname, job.options.lookup_asn_isp))

LEMMA FinishStores ==
  ASSUME Shape, NEW w \in Worker, Finish(w)
  PROVE  /\ worker[w].at = "asking" /\ worker[w].job \in metadata_job
         /\ \/ UNCHANGED << responder_lookup_cache, shown >>
            \/ /\ ~Cancelled(worker[w].job)
               /\ \E entry \in responder_metadata, keys \in Remaining(worker[w].job.address) :
                    Stored(worker[w].job, entry, keys)
<1>. DEFINE job == worker[w].job
            started == worker[w].started
<1>1. worker[w].at = "asking" /\ job \in metadata_job /\ started \in 1 .. MaxNow
  BY WorkerCases DEF Shape, Finish
<1>2. CASE Cancelled(job)
  BY <1>1, <1>2 DEF Finish
<1>3. CASE ~Cancelled(job)
  <2>1. PICK answer \in Answers(job), keys \in Remaining(job.address) :
          Stored(job, Merged(job, answer, started), keys)
    BY <1>3 DEF Finish, Stored
  <2>2. Merged(job, answer, started) \in responder_metadata
    BY <1>1, AnswersTyped, MergedTyped DEF Shape
  <2>. QED
    BY <1>1, <1>3, <2>1, <2>2
<1>. QED
  BY <1>2, <1>3

LEMMA FinishShape ==
  ASSUME Shape, NEW w \in Worker, Finish(w)
  PROVE  Shape'
<1>1. worker' \in [Worker -> WorkerState]
  BY DEF Finish, Shape, WorkerState
<1>. DEFINE job == worker[w].job
<1>2. CASE UNCHANGED << responder_lookup_cache, shown >>
  BY <1>1, <1>2 DEF Shape, TypeOK, Finish
<1>3. ASSUME NEW entry \in responder_metadata, NEW keys \in Remaining(job.address),
             Stored(job, entry, keys), job.address \in Address
      PROVE  Shape'
  <2>. DEFINE fields == Displayed(entry.fields, job.options.resolve_hostname,
                                  job.options.lookup_asn_isp)
              cached == keys \cup { job.address }
  <2>1. /\ responder_lookup_cache' = [b \in cached |->
             IF b = job.address THEN entry ELSE responder_lookup_cache[b]]
        /\ shown' = updateResponder(shown, job.address, fields)
    BY <1>3 DEF Stored
  <2>2. /\ keys \subseteq DOMAIN responder_lookup_cache
        /\ IsFiniteSet(cached) /\ Cardinality(cached) <= MaxEntries
    BY <1>3, RoomForOne
  <2>3. fields \in [Fields -> Value]
    <3>1. entry.fields \in [Fields -> Value]
      BY DEF responder_metadata, Value
    <3>. QED
      BY <3>1, DisplayedTyped
  <2>. HIDE DEF fields
  <2>4. /\ shown' \in [DOMAIN shown -> [Fields -> Value]] /\ DOMAIN shown' = DOMAIN shown
    BY <2>1, <2>3, UpdateTyped DEF Shape
  <2>5. \A b \in keys : responder_lookup_cache[b] \in responder_metadata
    BY <2>2 DEF Shape, TypeOK
  <2>6. /\ DOMAIN responder_lookup_cache' = cached
        /\ responder_lookup_cache' \in [cached -> responder_metadata]
    BY <2>1, <2>5
  <2>7. cached \subseteq Address
    BY <1>3, <2>2 DEF Shape, TypeOK
  <2>. HIDE DEF cached
  <2>. QED
    BY <1>1, <2>2, <2>4, <2>6, <2>7 DEF Shape, TypeOK, Finish
<1>4. job.address \in Address
  BY FinishStores DEF metadata_job
<1>. QED
  BY <1>2, <1>3, <1>4, FinishStores

LEMMA NewEpochShape ==
  ASSUME Shape, NewEpoch
  PROVE  Shape'
<1>1. /\ data_epoch' \in 1 .. MaxEpoch /\ session_options' \in Options
  BY MetadataAssumption DEF Shape, TypeOK, NewEpoch
<1>2. MaxJobs >= 0
  BY MetadataAssumption
<1>. QED
  BY <1>1, <1>2, EmptyMap DEF Shape, TypeOK, NewEpoch

LEMMA TickShape ==
  ASSUME Shape, Tick
  PROVE  Shape'
BY MetadataAssumption DEF Shape, TypeOK, Tick

LEMMA StepShape ==
  ASSUME Shape, Next
  PROVE  Shape'
BY CommitShape, InsertShape, PushShape, UndoShape, PopShape, BeginShape, FinishShape, ThrowShape,
   NewEpochShape, TickShape DEF Next

-----------------------------------------------------------------------------
\* Jobs carry the options of the session they were asked for in.

LEMMA InitJobs ==
  ASSUME Init
  PROVE  JobsOK
BY DEF Init, JobsOK, NoRequest, Idle

LEMMA JobOKStays ==
  ASSUME NEW job, UNCHANGED << data_epoch, session_options >>
  PROVE  JobOK(job)' = JobOK(job)
BY DEF JobOK, Cancelled

\* Every job an epoch left behind is cancelled in the next.
LEMMA JobOKOutlives ==
  ASSUME Shape, NEW job \in metadata_job, JobOK(job), NewEpoch
  PROVE  JobOK(job)'
<1>1. data_epoch' = data_epoch + 1 /\ data_epoch \in Nat /\ job.epoch \in Int
  BY MetadataAssumption DEF NewEpoch, Shape, TypeOK, metadata_job
<1>. QED
  BY <1>1 DEF JobOK, Cancelled

LEMMA StepJobs ==
  ASSUME Shape, JobsOK, Next
  PROVE  JobsOK'
<1>1. ASSUME NEW a \in Address, commitReply(a) PROVE JobsOK'
  <2>1. JobOK([ address |-> a, epoch |-> data_epoch, options |-> session_options ])'
    BY <1>1 DEF commitReply, JobOK, Cancelled, Shape, TypeOK
  <2>. QED
    BY <1>1, <2>1, JobOKStays DEF commitReply, JobsOK, NoRequest
<1>2. CASE Insert \/ Undo
  <2>1. request'.at # "none" => request.at # "none" /\ request'.job = request.job
    BY <1>2, RequestCases DEF Insert, Undo, NoRequest, Shape
  <2>2. UNCHANGED << data_epoch, session_options, metadata_jobs, worker >>
    BY <1>2 DEF Insert, Undo
  <2>. QED
    BY <2>1, <2>2, JobOKStays DEF JobsOK
<1>3. CASE Push
  <2>1. UNCHANGED << data_epoch, session_options, worker >>
    BY <1>3 DEF Push
  <2>2. request.at # "none" /\ JobOK(request.job) /\ request.job \in metadata_job
    BY <1>3, RequestCases DEF Push, JobsOK, Shape
  <2>3. request'.at # "none" => request'.job = request.job
    BY <1>3, RequestCases DEF Push, NoRequest, Shape
  <2>4. \A i \in 1 .. Len(metadata_jobs') : JobOK(metadata_jobs'[i])
    <3>1. metadata_jobs \in Seq(metadata_job)
      BY DEF Shape, TypeOK
    <3>2. CASE metadata_jobs' = Append(metadata_jobs, request.job)
      BY <2>2, <3>1, <3>2, AppendProperties, LenProperties DEF JobsOK
    <3>3. CASE metadata_jobs' = metadata_jobs
      BY <3>3 DEF JobsOK
    <3>. QED
      BY <1>3, <3>2, <3>3 DEF Push
  <2>. QED
    BY <2>1, <2>2, <2>3, <2>4, JobOKStays DEF JobsOK
<1>4. ASSUME NEW w \in Worker, Pop(w) PROVE JobsOK'
  <2>1. /\ UNCHANGED << data_epoch, session_options, request >> /\ metadata_jobs # << >>
        /\ metadata_jobs' = Tail(metadata_jobs)
        /\ worker' = [worker EXCEPT ![w] = [ at |-> "popped", job |-> Head(metadata_jobs) ]]
    BY <1>4 DEF Pop
  <2>2. /\ metadata_jobs \in Seq(metadata_job) /\ Len(metadata_jobs) \in Nat /\ Len(metadata_jobs) >= 1
        /\ Head(metadata_jobs) = metadata_jobs[1]
        /\ Len(metadata_jobs') = Len(metadata_jobs) - 1
        /\ \A i \in 1 .. Len(metadata_jobs') : metadata_jobs'[i] = metadata_jobs[i + 1]
    BY <2>1, HeadTailProperties, EmptySeq, LenProperties DEF Shape, TypeOK
  <2>3. \A i \in 1 .. Len(metadata_jobs') : JobOK(metadata_jobs'[i])
    BY <2>2 DEF JobsOK
  <2>4. JobOK(Head(metadata_jobs))
    BY <2>2 DEF JobsOK
  <2>5. \A v \in Worker : worker'[v].at # "idle" => JobOK(worker'[v].job)
    BY <2>1, <2>4 DEF JobsOK, Shape
  <2>. QED
    BY <2>1, <2>3, <2>5, JobOKStays DEF JobsOK
<1>5. ASSUME NEW w \in Worker, Begin(w) \/ Finish(w) \/ Throw(w) PROVE JobsOK'
  <2>1. UNCHANGED << data_epoch, session_options, request, metadata_jobs >>
    BY <1>5 DEF Begin, Finish, Throw
  <2>2. \A v \in Worker :
          worker'[v].at # "idle" => worker[v].at # "idle" /\ worker'[v].job = worker[v].job
    BY <1>5 DEF Begin, Finish, Throw, Shape, Idle
  <2>. QED
    BY <2>1, <2>2, JobOKStays DEF JobsOK
<1>6. CASE NewEpoch
  <2>1. metadata_jobs' = << >> /\ UNCHANGED << request, worker >>
    BY <1>6 DEF NewEpoch
  <2>2. \A job \in metadata_job : JobOK(job) => JobOK(job)'
    BY <1>6, JobOKOutlives
  <2>3. request'.at # "none" => request'.job \in metadata_job /\ JobOK(request'.job)
    BY <2>1, RequestCases DEF Shape, JobsOK
  <2>4. \A w \in Worker :
          worker'[w].at # "idle" => worker'[w].job \in metadata_job /\ JobOK(worker'[w].job)
    BY <2>1, WorkerCases DEF Shape, JobsOK
  <2>. QED
    BY <2>1, <2>2, <2>3, <2>4, EmptyMap DEF JobsOK
<1>7. CASE Tick
  BY <1>7, JobOKStays DEF Tick, JobsOK
<1>. QED
  BY <1>1, <1>2, <1>3, <1>4, <1>5, <1>6, <1>7 DEF Next

-----------------------------------------------------------------------------
\* Where a lookup is, action by action.

LEMMA InitPlaced ==
  ASSUME Init
  PROVE  Placed
<1>. SUFFICES ASSUME NEW a \in Address PROVE OncePlaced(a)
  BY DEF Placed
<1>1. ~Registered(a) /\ ~Asked(a) /\ Working(a) = {}
  BY DEF Init, Registered, Asked, Working, NoRequest, Idle
<1>2. Queued(a) = {}
  BY EmptyMap DEF Init, Queued
<1>. QED
  BY <1>1, <1>2 DEF OncePlaced

LEMMA SamePlaces ==
  ASSUME NEW a, OncePlaced(a), Registered(a)' <=> Registered(a), Asked(a)' <=> Asked(a),
         Queued(a)' = Queued(a), Working(a)' = Working(a)
  PROVE  OncePlaced(a)'
BY DEF OncePlaced

\* In what places an address is, seen from one of them.
LEMMA PlacesExclude ==
  ASSUME NEW a, OncePlaced(a)
  PROVE  /\ Asked(a) => Registered(a) /\ Queued(a) = {} /\ Working(a) = {}
         /\ \A i \in Queued(a) : Registered(a) /\ ~Asked(a) /\ Queued(a) = {i} /\ Working(a) = {}
         /\ \A w \in Working(a) : Registered(a) /\ ~Asked(a) /\ Queued(a) = {} /\ Working(a) = {w}
BY DEF OncePlaced

\* A job is being looked up for an address if its token is the address's.
LEMMA LookingIsToken ==
  ASSUME NEW job, NEW a
  PROVE  Looking(job, a) <=> Token(job) = << data_epoch, a >>
BY DEF Looking, Token, Cancelled

LEMMA InsertPlaced ==
  ASSUME Shape, Placed, Insert
  PROVE  Placed'
<1>. SUFFICES ASSUME NEW a \in Address PROVE OncePlaced(a)'
  BY DEF Placed
<1>. DEFINE job == request.job
<1>1. /\ OncePlaced(a) /\ request.at = "insert"
      /\ UNCHANGED << data_epoch, metadata_jobs, worker >>
  BY DEF Placed, Insert
<1>2. ~Asked(a) /\ Queued(a)' = Queued(a) /\ Working(a)' = Working(a)
  BY <1>1 DEF Asked, Queued, Working, Looking, Cancelled
<1>3. CASE request' = NoRequest /\ UNCHANGED reverse_dns_inflight
  <2>1. ~Asked(a)' /\ (Registered(a)' <=> Registered(a))
    BY <1>1, <1>3 DEF Asked, Registered, NoRequest
  <2>. QED
    BY <1>1, <1>2, <2>1, SamePlaces
<1>4. CASE /\ ~Cancelled(job) /\ Token(job) \notin reverse_dns_inflight
           /\ request' = [request EXCEPT !.at = "push"]
           /\ reverse_dns_inflight' = reverse_dns_inflight \cup { Token(job) }
  <2>1. request'.at = "push" /\ request'.job = job
    BY <1>1, <1>4, RequestCases DEF Shape
  <2>2. Asked(a)' <=> Looking(job, a)
    BY <1>1, <2>1 DEF Asked, Looking, Cancelled
  <2>3. CASE Looking(job, a)
    <3>1. Token(job) = << data_epoch, a >>
      BY <2>3, LookingIsToken
    <3>2. ~Registered(a) /\ Registered(a)'
      BY <1>1, <1>4, <3>1 DEF Registered
    <3>. QED
      BY <1>1, <1>2, <2>2, <2>3, <3>2 DEF OncePlaced
  <2>4. CASE ~Looking(job, a)
    <3>1. Token(job) # << data_epoch, a >>
      BY <2>4, LookingIsToken
    <3>2. Registered(a)' <=> Registered(a)
      BY <1>1, <1>4, <3>1 DEF Registered
    <3>. QED
      BY <1>1, <1>2, <2>2, <2>4, <3>2, SamePlaces
  <2>. QED
    BY <2>3, <2>4
<1>. QED
  BY <1>3, <1>4 DEF Insert

LEMMA PushPlaced ==
  ASSUME Shape, Placed, Push
  PROVE  Placed'
<1>. SUFFICES ASSUME NEW a \in Address PROVE OncePlaced(a)'
  BY DEF Placed
<1>. DEFINE job == request.job
<1>1. /\ OncePlaced(a) /\ request.at = "push"
      /\ UNCHANGED << data_epoch, reverse_dns_inflight, worker >>
  BY DEF Placed, Push
<1>2. (Registered(a)' <=> Registered(a)) /\ Working(a)' = Working(a) /\ (Asked(a) <=> Looking(job, a))
  BY <1>1 DEF Registered, Asked, Working, Looking, Cancelled
<1>3. CASE request' = [request EXCEPT !.at = "undo"] /\ UNCHANGED metadata_jobs
  <2>1. request'.at = "undo" /\ request'.job = job
    BY <1>1, <1>3, RequestCases DEF Shape
  <2>2. (Asked(a)' <=> Asked(a)) /\ Queued(a)' = Queued(a)
    BY <1>1, <1>3, <2>1 DEF Asked, Queued, Looking, Cancelled
  <2>. QED
    BY <1>1, <1>2, <2>2, SamePlaces
<1>4. CASE metadata_jobs' = Append(metadata_jobs, job) /\ request' = NoRequest
  <2>1. /\ Len(metadata_jobs) \in Nat /\ Len(metadata_jobs') = Len(metadata_jobs) + 1
        /\ \A i \in 1 .. Len(metadata_jobs) : metadata_jobs'[i] = metadata_jobs[i]
        /\ metadata_jobs'[Len(metadata_jobs) + 1] = job
    <3>1. metadata_jobs \in Seq(metadata_job) /\ job \in metadata_job
      BY <1>1, RequestCases DEF Shape, TypeOK
    <3>. QED
      BY <1>4, <3>1, AppendProperties, LenProperties
  <2>2. ~Asked(a)'
    BY <1>4 DEF Asked, NoRequest
  <2>3. Queued(a)' = Queued(a) \cup (IF Looking(job, a) THEN { Len(metadata_jobs) + 1 } ELSE {})
    BY <1>1, <2>1 DEF Queued, Looking, Cancelled
  <2>4. CASE Looking(job, a)
    <3>1. Queued(a)' = { Len(metadata_jobs) + 1 }
      BY <1>1, <1>2, <2>3, <2>4, PlacesExclude
    <3>. QED
      BY <1>1, <1>2, <2>2, <2>4, <3>1, PlacesExclude DEF OncePlaced
  <2>5. CASE ~Looking(job, a)
    BY <1>1, <1>2, <2>2, <2>3, <2>5, SamePlaces
  <2>. QED
    BY <2>4, <2>5
<1>. QED
  BY <1>3, <1>4 DEF Push

LEMMA UndoPlaced ==
  ASSUME Shape, Placed, Undo
  PROVE  Placed'
<1>. SUFFICES ASSUME NEW a \in Address PROVE OncePlaced(a)'
  BY DEF Placed
<1>. DEFINE job == request.job
<1>1. /\ OncePlaced(a) /\ request.at = "undo" /\ request' = NoRequest
      /\ reverse_dns_inflight' = reverse_dns_inflight \ { Token(job) }
      /\ UNCHANGED << data_epoch, metadata_jobs, worker >>
  BY DEF Placed, Undo
<1>2. /\ Queued(a)' = Queued(a) /\ Working(a)' = Working(a) /\ ~Asked(a)'
      /\ Asked(a) <=> Looking(job, a)
  BY <1>1 DEF Asked, Queued, Working, Looking, Cancelled, NoRequest
<1>3. Registered(a)' <=> Registered(a) /\ ~Looking(job, a)
  BY <1>1, LookingIsToken DEF Registered
<1>. QED
  BY <1>1, <1>2, <1>3, PlacesExclude DEF OncePlaced

\* The first job of the queue goes to a worker, the others move up.
LEMMA PopPlaced ==
  ASSUME Shape, Placed, NEW w \in Worker, Pop(w)
  PROVE  Placed'
<1>. SUFFICES ASSUME NEW a \in Address PROVE OncePlaced(a)'
  BY DEF Placed
<1>. DEFINE job == Head(metadata_jobs)
<1>1. /\ OncePlaced(a) /\ worker[w].at = "idle" /\ metadata_jobs # << >>
      /\ worker' = [worker EXCEPT ![w] = [ at |-> "popped", job |-> job ]]
      /\ metadata_jobs' = Tail(metadata_jobs)
      /\ UNCHANGED << data_epoch, reverse_dns_inflight, request >>
  BY DEF Placed, Pop
<1>2. /\ metadata_jobs \in Seq(metadata_job) /\ Len(metadata_jobs) \in Nat /\ Len(metadata_jobs) >= 1
      /\ job = metadata_jobs[1] /\ Len(metadata_jobs') = Len(metadata_jobs) - 1
      /\ \A i \in 1 .. Len(metadata_jobs') : metadata_jobs'[i] = metadata_jobs[i + 1]
  BY <1>1, HeadTailProperties, EmptySeq, LenProperties DEF Shape, TypeOK
<1>3. (Registered(a)' <=> Registered(a)) /\ (Asked(a)' <=> Asked(a))
  BY <1>1 DEF Registered, Asked, Looking, Cancelled
<1>4. \A i \in Int : i \in Queued(a)' <=> i >= 1 /\ i + 1 \in Queued(a)
  BY <1>1, <1>2 DEF Queued, Looking, Cancelled
<1>5. 1 \in Queued(a) <=> Looking(job, a)
  BY <1>2 DEF Queued
<1>6. Working(a)' = Working(a) \cup (IF Looking(job, a) THEN {w} ELSE {})
  BY <1>1 DEF Working, Looking, Cancelled, Shape
<1>7. Queued(a) \subseteq Int /\ Queued(a)' \subseteq Int
  BY DEF Queued
<1>8. CASE Looking(job, a)
  <2>1. Registered(a) /\ ~Asked(a) /\ Queued(a) = {1} /\ Working(a) = {}
    BY <1>1, <1>5, <1>8, PlacesExclude
  <2>2. Queued(a)' = {}
    BY <1>4, <1>7, <2>1
  <2>. QED
    BY <1>3, <1>6, <1>8, <2>1, <2>2 DEF OncePlaced
<1>9. CASE ~Looking(job, a)
  <2>1. Working(a)' = Working(a)
    BY <1>6, <1>9
  <2>2. CASE Queued(a) = {}
    <3>1. Queued(a)' = {}
      BY <1>4, <1>7, <2>2
    <3>. QED
      BY <1>1, <1>3, <2>1, <2>2, <3>1, SamePlaces
  <2>3. ASSUME NEW i \in Queued(a) PROVE OncePlaced(a)'
    <3>1. Registered(a) /\ ~Asked(a) /\ Queued(a) = {i} /\ Working(a) = {} /\ i # 1
      BY <1>1, <1>5, <1>9, <2>3, PlacesExclude
    <3>2. i \in Int /\ i - 1 >= 1
      BY <2>3, <3>1 DEF Queued
    <3>3. Queued(a)' = { i - 1 }
      BY <1>4, <1>7, <3>1, <3>2
    <3>. QED
      BY <1>3, <2>1, <3>1, <3>3 DEF OncePlaced
  <2>. QED
    BY <2>2, <2>3
<1>. QED
  BY <1>8, <1>9

\* A worker that is done takes its token away.
Released(w) ==
  /\ worker[w].at # "idle" /\ worker' = [worker EXCEPT ![w] = Idle]
  /\ reverse_dns_inflight' = reverse_dns_inflight \ { Token(worker[w].job) }
  /\ UNCHANGED << data_epoch, metadata_jobs, request >>

LEMMA ReleasePlaced ==
  ASSUME Shape, Placed, NEW w \in Worker, Released(w)
  PROVE  Placed'
<1>. SUFFICES ASSUME NEW a \in Address PROVE OncePlaced(a)'
  BY DEF Placed
<1>. DEFINE job == worker[w].job
<1>1. /\ OncePlaced(a) /\ worker[w].at # "idle" /\ worker' = [worker EXCEPT ![w] = Idle]
      /\ reverse_dns_inflight' = reverse_dns_inflight \ { Token(job) }
      /\ UNCHANGED << data_epoch, metadata_jobs, request >>
  BY DEF Placed, Released
<1>2. Queued(a)' = Queued(a) /\ (Asked(a)' <=> Asked(a))
  BY <1>1 DEF Queued, Asked, Looking, Cancelled
<1>3. (w \in Working(a) <=> Looking(job, a)) /\ Working(a)' = Working(a) \ {w}
  BY <1>1 DEF Working, Looking, Cancelled, Shape, Idle
<1>4. Registered(a)' <=> Registered(a) /\ ~Looking(job, a)
  BY <1>1, LookingIsToken DEF Registered
<1>5. CASE Looking(job, a)
  <2>1. ~Asked(a) /\ Queued(a) = {} /\ Working(a) = {w}
    BY <1>1, <1>3, <1>5, PlacesExclude
  <2>. QED
    BY <1>2, <1>3, <1>4, <1>5, <2>1 DEF OncePlaced
<1>6. CASE ~Looking(job, a)
  <2>1. Working(a)' = Working(a) /\ (Registered(a)' <=> Registered(a))
    BY <1>3, <1>4, <1>6
  <2>. QED
    BY <1>1, <1>2, <2>1, SamePlaces
<1>. QED
  BY <1>5, <1>6

\* A job that begins is looked up by the worker that took it.
LEMMA BeginPlaced ==
  ASSUME Shape, Placed, NEW w \in Worker, Begin(w)
  PROVE  Placed'
<1>1. CASE Cancelled(worker[w].job)
  BY <1>1, ReleasePlaced DEF Begin, Released
<1>2. CASE ~Cancelled(worker[w].job)
  <2>1. /\ UNCHANGED << data_epoch, reverse_dns_inflight, metadata_jobs, request >>
        /\ \A v \in Worker : /\ (worker'[v].at = "idle" <=> worker[v].at = "idle")
                             /\ worker[v].at # "idle" => worker'[v].job = worker[v].job
    BY <1>2 DEF Begin, Shape
  <2>2. ASSUME NEW a \in Address
        PROVE  /\ (Registered(a)' <=> Registered(a)) /\ (Asked(a)' <=> Asked(a))
               /\ Queued(a)' = Queued(a) /\ Working(a)' = Working(a)
    BY <2>1 DEF Registered, Asked, Queued, Working, Looking, Cancelled
  <2>. QED
    BY <2>2, SamePlaces DEF Placed
<1>. QED
  BY <1>1, <1>2

LEMMA NewEpochPlaced ==
  ASSUME Shape, JobsOK, NewEpoch
  PROVE  Placed'
<1>. SUFFICES ASSUME NEW a \in Address PROVE OncePlaced(a)'
  BY DEF Placed
<1>1. /\ data_epoch \in Nat /\ data_epoch' = data_epoch + 1 /\ metadata_jobs' = << >>
      /\ reverse_dns_inflight' = {} /\ UNCHANGED << request, worker >>
  BY DEF Shape, TypeOK, NewEpoch
<1>2. ASSUME NEW job \in metadata_job, job.epoch <= data_epoch
      PROVE  job.epoch # data_epoch'
  BY <1>1, <1>2, MetadataAssumption DEF metadata_job
<1>3. ~Asked(a)'
  BY <1>1, <1>2, RequestCases DEF Asked, Looking, Cancelled, JobsOK, JobOK, Shape
<1>4. Working(a)' = {}
  BY <1>1, <1>2, WorkerCases DEF Working, Looking, Cancelled, JobsOK, JobOK, Shape
<1>5. Queued(a)' = {} /\ ~Registered(a)'
  BY <1>1, EmptyMap DEF Queued, Registered
<1>. QED
  BY <1>3, <1>4, <1>5 DEF OncePlaced

LEMMA StepPlaced ==
  ASSUME MetaInv, Next
  PROVE  Placed'
<1>. USE DEF MetaInv
<1>1. ASSUME NEW a \in Address, commitReply(a) PROVE Placed'
  <2>1. /\ UNCHANGED << data_epoch, reverse_dns_inflight, metadata_jobs, worker >>
        /\ request.at \notin { "push", "undo" } /\ request'.at \notin { "push", "undo" }
    BY <1>1 DEF commitReply, NoRequest
  <2>2. ASSUME NEW b \in Address
        PROVE  /\ (Registered(b)' <=> Registered(b)) /\ (Asked(b)' <=> Asked(b))
               /\ Queued(b)' = Queued(b) /\ Working(b)' = Working(b)
    BY <2>1 DEF Registered, Asked, Queued, Working, Looking, Cancelled
  <2>. QED
    BY <2>2, SamePlaces DEF Placed
<1>2. ASSUME NEW w \in Worker, Finish(w) \/ Throw(w) PROVE Placed'
  BY <1>2, ReleasePlaced DEF Finish, Throw, Released
<1>3. CASE Tick
  <2>2. ASSUME NEW b \in Address
        PROVE  /\ (Registered(b)' <=> Registered(b)) /\ (Asked(b)' <=> Asked(b))
               /\ Queued(b)' = Queued(b) /\ Working(b)' = Working(b)
    BY <1>3 DEF Tick, Registered, Asked, Queued, Working, Looking, Cancelled
  <2>. QED
    BY <2>2, SamePlaces DEF Placed
<1>. QED
  BY <1>1, <1>2, <1>3, InsertPlaced, PushPlaced, UndoPlaced, PopPlaced, BeginPlaced, NewEpochPlaced
  DEF Next

-----------------------------------------------------------------------------
\* The invariant, and what it says of the lookups.

LEMMA MetaInitially ==
  ASSUME Init
  PROVE  MetaInv
BY InitShape, InitJobs, InitPlaced DEF MetaInv

LEMMA MetaStep ==
  ASSUME MetaInv, [Next]_vars
  PROVE  MetaInv'
<1>1. CASE Next
  BY <1>1, StepShape, StepJobs, StepPlaced DEF MetaInv
<1>2. CASE UNCHANGED vars
  <2>1. Shape'
    BY <1>2 DEF MetaInv, Shape, TypeOK, vars
  <2>2. JobsOK'
    BY <1>2, JobOKStays DEF MetaInv, JobsOK, vars
  <2>3. ASSUME NEW b \in Address
        PROVE  /\ (Registered(b)' <=> Registered(b)) /\ (Asked(b)' <=> Asked(b))
               /\ Queued(b)' = Queued(b) /\ Working(b)' = Working(b)
    BY <1>2 DEF vars, Registered, Asked, Queued, Working, Looking, Cancelled
  <2>4. Placed'
    BY <2>3, SamePlaces DEF MetaInv, Placed
  <2>. QED
    BY <2>1, <2>2, <2>4 DEF MetaInv
<1>. QED
  BY <1>1, <1>2

LEMMA MetaHolds == Spec => []MetaInv
BY MetaInitially, MetaStep, PTL DEF Spec

LEMMA LookupsCounted ==
  ASSUME MetaInv
  PROVE  LookupsAreTracked
<1>1. TypeOK
  BY DEF MetaInv, Shape
<1>2. ASSUME NEW a \in Address
      PROVE  Lookups(a) = IF Registered(a) THEN 1 ELSE 0
  <2>1. Lookups(a) =
          (IF Asked(a) THEN 1 ELSE 0) + Cardinality(Queued(a)) + Cardinality(Working(a))
    BY Zenon DEF Lookups, Asked, Queued, Working
  <2>2. OncePlaced(a)
    BY DEF MetaInv, Placed
  <2>3. Cardinality({}) = 0 /\ \A x : Cardinality({x}) = 1
    BY FS_EmptySet, FS_Singleton
  <2>. HIDE DEF Asked, Queued, Working, Registered
  <2>4. CASE Asked(a) /\ Queued(a) = {} /\ Working(a) = {} /\ Registered(a)
    BY <2>1, <2>3, <2>4
  <2>5. CASE ~Asked(a) /\ (\E i \in Queued(a) : Queued(a) = {i}) /\ Working(a) = {} /\ Registered(a)
    <3>1. PICK i \in Queued(a) : Queued(a) = {i}
      BY <2>5
    <3>2. Cardinality(Queued(a)) = 1
      BY <2>3, <3>1
    <3>. QED
      BY <2>1, <2>3, <2>5, <3>2
  <2>6. CASE ~Asked(a) /\ Queued(a) = {} /\ (\E w \in Working(a) : Working(a) = {w}) /\ Registered(a)
    <3>1. PICK w \in Working(a) : Working(a) = {w}
      BY <2>6
    <3>2. Cardinality(Working(a)) = 1
      BY <2>3, <3>1
    <3>. QED
      BY <2>1, <2>3, <2>6, <3>2
  <2>7. CASE ~Asked(a) /\ Queued(a) = {} /\ Working(a) = {} /\ ~Registered(a)
    BY <2>1, <2>3, <2>7
  <2>. QED
    BY <2>2, <2>4, <2>5, <2>6, <2>7 DEF OncePlaced
<1>. QED
  BY <1>1, <1>2 DEF LookupsAreTracked, Registered

\* An address is looked up once at a time, and registered exactly as long as a
\* lookup of this epoch is in the queue, at a worker or in the loop's hands,
\* for every number of workers and length of the queue: a reset, a full queue,
\* a cancelled job or an exception leaves none registered that nobody works on.
THEOREM LookupsTracked == Spec => []LookupsAreTracked
BY MetaHolds, LookupsCounted, PTL

-----------------------------------------------------------------------------
\* Only an answer to a lookup of this epoch changes the cache.
LEMMA CancelledStep ==
  ASSUME MetaInv, [Next]_vars,
         NEW a \in DOMAIN responder_lookup_cache',
         a \in DOMAIN responder_lookup_cache => responder_lookup_cache'[a] # responder_lookup_cache[a]
  PROVE  Registered(a)
<1>1. responder_lookup_cache' # responder_lookup_cache
  OBVIOUS
<1>2. PICK w \in Worker : Finish(w)
  BY <1>1 DEF Next, vars, commitReply, Insert, Push, Undo, Pop, Begin, Throw, NewEpoch, Tick
<1>. DEFINE job == worker[w].job
<1>3. /\ Shape /\ worker[w].at = "asking" /\ job \in metadata_job /\ ~Cancelled(job)
      /\ \E entry \in responder_metadata, keys \in Remaining(job.address) : Stored(job, entry, keys)
  BY <1>1, <1>2, FinishStores DEF MetaInv
<1>4. PICK entry \in responder_metadata, keys \in Remaining(job.address) : Stored(job, entry, keys)
  BY <1>3
<1>5. job.address \in Address /\ keys \subseteq DOMAIN responder_lookup_cache
  BY <1>3, <1>4, RoomForOne DEF metadata_job
<1>6. a = job.address
  BY <1>4, <1>5 DEF Stored
<1>7. w \in Working(a)
  BY <1>3, <1>6 DEF Working, Looking
<1>8. OncePlaced(a)
  BY <1>5, <1>6 DEF MetaInv, Placed
<1>. QED
  BY <1>7, <1>8, PlacesExclude

\* Whatever changes in the cache is the answer to a lookup that is registered
\* in the epoch that runs: a lookup that was cancelled, and may have been cut
\* short, leaves nothing there.
THEOREM CancelledStaysOut == Spec => CancelledLeavesNothing
<1>1. ASSUME MetaInv, [Next]_vars
      PROVE  [\A a \in DOMAIN responder_lookup_cache' :
               (a \in DOMAIN responder_lookup_cache =>
                  responder_lookup_cache'[a] # responder_lookup_cache[a])
                 => << data_epoch, a >> \in reverse_dns_inflight]_vars
  BY <1>1, CancelledStep DEF Registered
<1>. QED
  BY <1>1, MetaHolds, PTL DEF Spec, CancelledLeavesNothing

-----------------------------------------------------------------------------
\* What is shown is what is cached.

Agrees(a) ==
  \A f \in Fields :
    LET displayed == DisplayedFromCache(a, session_options)
    IN  displayed[f] # "none" => shown[a][f] = displayed[f]

LEMMA ShownIsAgreed ==
  ShownIsCached <=> \A a \in DOMAIN shown \cap DOMAIN responder_lookup_cache : Agrees(a)
BY Zenon DEF ShownIsCached, Agrees

LEMMA UpdateShows ==
  ASSUME NEW table, table \in [DOMAIN table -> [Fields -> Value]],
         NEW a, NEW fields \in [Fields -> Value]
  PROVE  /\ \A b \in DOMAIN table \ {a} : updateResponder(table, a, fields)[b] = table[b]
         /\ a \in DOMAIN table =>
              \A f \in Fields : fields[f] # "none" => updateResponder(table, a, fields)[a][f] = fields[f]
BY DEF updateResponder

\* Where neither the hops nor the entry change, they go on to agree.
LEMMA AgreesStays ==
  ASSUME NEW a, Agrees(a), UNCHANGED << session_options, now >>,
         shown'[a] = shown[a], responder_lookup_cache'[a] = responder_lookup_cache[a]
  PROVE  Agrees(a)'
<1>1. DisplayedFromCache(a, session_options)' = DisplayedFromCache(a, session_options)
  BY DEF DisplayedFromCache, hostnameCacheFresh, networkCacheFresh, Within
<1>. QED
  BY <1>1 DEF Agrees

\* An entry only gets older.
LEMMA AgreesInTime ==
  ASSUME Shape, Tick, NEW a \in DOMAIN shown \cap DOMAIN responder_lookup_cache, Agrees(a)
  PROVE  Agrees(a)'
<1>. DEFINE m == responder_lookup_cache[a]
<1>1. /\ now' = now + 1 /\ UNCHANGED << session_options, responder_lookup_cache, shown >>
      /\ now \in Int /\ Lifetime \in Int /\ NegativeLifetime \in Int
  BY MetadataAssumption DEF Tick, Shape, TypeOK
<1>2. m.hostname_cached_at \in Int /\ m.network_cached_at \in Int
  BY MetadataAssumption DEF Shape, TypeOK, responder_metadata
<1>3. (hostnameCacheFresh(m)' => hostnameCacheFresh(m)) /\ (networkCacheFresh(m)' => networkCacheFresh(m))
  BY <1>1, <1>2 DEF hostnameCacheFresh, networkCacheFresh, Within
<1>4. ASSUME NEW f \in Fields, DisplayedFromCache(a, session_options)'[f] # "none"
      PROVE  DisplayedFromCache(a, session_options)[f] = DisplayedFromCache(a, session_options)'[f]
  BY <1>1, <1>3, <1>4 DEF DisplayedFromCache, Displayed
<1>. QED
  BY <1>1, <1>4 DEF Agrees

LEMMA CommitShows ==
  ASSUME MetaInv, ShownIsCached, NEW c \in Address, commitReply(c)
  PROVE  ShownIsCached'
<1>. SUFFICES ASSUME NEW a \in DOMAIN shown' \cap DOMAIN responder_lookup_cache'
              PROVE  Agrees(a)'
  BY ShownIsAgreed DEF Agrees, ShownIsCached
<1>. DEFINE observed == IF c \in DOMAIN shown THEN shown
                        ELSE [b \in DOMAIN shown \cup {c} |-> IF b = c THEN Nothing ELSE shown[b]]
            fields == DisplayedFromCache(c, session_options)
<1>1. /\ Shape /\ UNCHANGED << session_options, responder_lookup_cache, now >>
      /\ shown' = IF Cached(c) THEN updateResponder(observed, c, fields) ELSE observed
  BY DEF MetaInv, commitReply
<1>2. /\ observed \in [DOMAIN observed -> [Fields -> Value]]
      /\ DOMAIN observed = DOMAIN shown \cup {c}
      /\ \A b \in DOMAIN shown \ {c} : observed[b] = shown[b]
  <2>1. Nothing \in [Fields -> Value]
    BY DEF Nothing, Value, Provider
  <2>. QED
    BY <1>1, <2>1 DEF Shape
<1>. HIDE DEF observed
<1>3. CASE a = c
  <2>1. Cached(c)
    BY <1>1, <1>3 DEF Cached
  <2>2. fields \in [Fields -> Value]
    BY <1>1, <2>1, CacheShown DEF Shape
  <2>3. DisplayedFromCache(a, session_options)' = fields
    BY <1>1, <1>3 DEF DisplayedFromCache, hostnameCacheFresh, networkCacheFresh, Within
  <2>. HIDE DEF fields
  <2>4. \A f \in Fields : fields[f] # "none" => shown'[a][f] = fields[f]
    BY <1>1, <1>2, <1>3, <2>1, <2>2, UpdateShows
  <2>. QED
    BY <2>3, <2>4 DEF Agrees
<1>4. CASE a # c
  <2>1. a \in DOMAIN shown /\ shown'[a] = observed[a]
    <3>1. CASE Cached(c)
      <4>1. fields \in [Fields -> Value]
        BY <1>1, <3>1, CacheShown DEF Shape
      <4>. HIDE DEF fields
      <4>2. DOMAIN shown' = DOMAIN observed
        BY <1>1, <1>2, <3>1, <4>1, UpdateTyped
      <4>. QED
        BY <1>1, <1>2, <1>4, <3>1, <4>1, <4>2, UpdateShows
    <3>2. CASE ~Cached(c)
      BY <1>1, <1>2, <1>4, <3>2
    <3>. QED
      BY <3>1, <3>2
  <2>2. shown'[a] = shown[a] /\ a \in DOMAIN shown \cap DOMAIN responder_lookup_cache
    BY <1>1, <1>2, <1>4, <2>1
  <2>3. Agrees(a)
    BY <2>2, ShownIsAgreed
  <2>. QED
    BY <1>1, <2>2, <2>3, AgreesStays
<1>. QED
  BY <1>3, <1>4

LEMMA InsertShows ==
  ASSUME MetaInv, ShownIsCached, Insert
  PROVE  ShownIsCached'
<1>. SUFFICES ASSUME NEW a \in DOMAIN shown' \cap DOMAIN responder_lookup_cache'
              PROVE  Agrees(a)'
  BY ShownIsAgreed DEF Agrees, ShownIsCached
<1>. DEFINE job == request.job
            c == job.address
            fields == DisplayedFromCache(c, job.options)
<1>1. /\ Shape /\ JobsOK /\ request.at = "insert"
      /\ UNCHANGED << session_options, responder_lookup_cache, now >>
      /\ shown' = IF Cached(c) /\ ~Cancelled(job) THEN updateResponder(shown, c, fields) ELSE shown
  BY DEF MetaInv, Insert
<1>2. shown \in [DOMAIN shown -> [Fields -> Value]]
  BY <1>1 DEF Shape
<1>3. CASE Cached(c) /\ ~Cancelled(job)
  <2>1. fields \in [Fields -> Value] /\ job.options = session_options
    BY <1>1, <1>3, CacheShown DEF Shape, JobsOK, JobOK
  <2>2. fields = DisplayedFromCache(c, session_options)
    BY <2>1
  <2>. HIDE DEF fields
  <2>3. DOMAIN shown' = DOMAIN shown
    BY <1>1, <1>2, <1>3, <2>1, UpdateTyped
  <2>4. CASE a = c
    <3>1. DisplayedFromCache(a, session_options)' = fields
      BY <1>1, <2>2, <2>4 DEF DisplayedFromCache, hostnameCacheFresh, networkCacheFresh, Within
    <3>2. \A f \in Fields : fields[f] # "none" => shown'[a][f] = fields[f]
      BY <1>1, <1>2, <1>3, <2>1, <2>3, <2>4, UpdateShows
    <3>. QED
      BY <3>1, <3>2 DEF Agrees
  <2>5. CASE a # c
    <3>1. shown'[a] = shown[a]
      BY <1>1, <1>2, <1>3, <2>1, <2>3, <2>5, UpdateShows
    <3>2. Agrees(a)
      BY <1>1, <2>3, ShownIsAgreed
    <3>. QED
      BY <1>1, <3>1, <3>2, AgreesStays
  <2>. QED
    BY <2>4, <2>5
<1>4. CASE ~(Cached(c) /\ ~Cancelled(job))
  <2>1. shown' = shown
    BY <1>1, <1>4
  <2>2. Agrees(a)
    BY <1>1, <2>1, ShownIsAgreed
  <2>. QED
    BY <1>1, <2>1, <2>2, AgreesStays
<1>. QED
  BY <1>3, <1>4

LEMMA FinishShows ==
  ASSUME MetaInv, ShownIsCached, NEW w \in Worker, Finish(w)
  PROVE  ShownIsCached'
<1>. SUFFICES ASSUME NEW a \in DOMAIN shown' \cap DOMAIN responder_lookup_cache'
              PROVE  Agrees(a)'
  BY ShownIsAgreed DEF Agrees, ShownIsCached
<1>. DEFINE job == worker[w].job
            c == job.address
<1>1. /\ Shape /\ JobsOK /\ worker[w].at = "asking" /\ UNCHANGED << session_options, now >>
      /\ job \in metadata_job
  BY FinishStores DEF MetaInv, Finish
<1>2. CASE UNCHANGED << responder_lookup_cache, shown >>
  <2>1. Agrees(a)
    BY <1>2, ShownIsAgreed
  <2>. QED
    BY <1>1, <1>2, <2>1, AgreesStays
<1>3. ASSUME ~Cancelled(job), NEW entry \in responder_metadata, NEW keys \in Remaining(c),
             Stored(job, entry, keys)
      PROVE  Agrees(a)'
  <2>. DEFINE fields == Displayed(entry.fields, job.options.resolve_hostname,
                                  job.options.lookup_asn_isp)
  <2>1. /\ keys \subseteq DOMAIN responder_lookup_cache
        /\ responder_lookup_cache' = [b \in keys \cup {c} |->
             IF b = c THEN entry ELSE responder_lookup_cache[b]]
        /\ shown' = updateResponder(shown, c, fields)
    BY <1>1, <1>3, RoomForOne DEF Stored, metadata_job
  <2>2. fields \in [Fields -> Value] /\ job.options = session_options
    <3>1. entry.fields \in [Fields -> Value]
      BY DEF responder_metadata, Value
    <3>. QED
      BY <1>1, <1>3, <3>1, DisplayedTyped DEF JobsOK, JobOK
  <2>3. shown \in [DOMAIN shown -> [Fields -> Value]]
    BY <1>1 DEF Shape
  <2>4. DOMAIN shown' = DOMAIN shown
    <3>. HIDE DEF fields
    <3>. QED
      BY <2>1, <2>2, <2>3, UpdateTyped
  <2>5. CASE a = c
    <3>1. ASSUME NEW f \in Fields, DisplayedFromCache(a, session_options)'[f] # "none"
          PROVE  fields[f] = DisplayedFromCache(a, session_options)'[f]
      <4>1. responder_lookup_cache'[a] = entry
        BY <2>1, <2>5
      <4>2. DisplayedFromCache(a, session_options)' =
              Displayed(entry.fields, session_options.resolve_hostname /\ hostnameCacheFresh(entry),
                                      session_options.lookup_asn_isp /\ networkCacheFresh(entry))
        BY <1>1, <4>1 DEF DisplayedFromCache, hostnameCacheFresh, networkCacheFresh, Within
      <4>. QED
        BY <2>2, <3>1, <4>2 DEF Displayed
    <3>. HIDE DEF fields
    <3>2. \A f \in Fields : fields[f] # "none" => shown'[a][f] = fields[f]
      BY <2>1, <2>2, <2>3, <2>4, <2>5, UpdateShows
    <3>. QED
      BY <3>1, <3>2 DEF Agrees
  <2>6. CASE a # c
    <3>. HIDE DEF fields
    <3>1. shown'[a] = shown[a]
      BY <2>1, <2>2, <2>3, <2>4, <2>6, UpdateShows
    <3>2. a \in DOMAIN responder_lookup_cache /\ responder_lookup_cache'[a] = responder_lookup_cache[a]
      BY <2>1, <2>6
    <3>3. Agrees(a)
      BY <2>4, <3>2, ShownIsAgreed
    <3>. QED
      BY <1>1, <3>1, <3>2, <3>3, AgreesStays
  <2>. QED
    BY <2>5, <2>6
<1>. QED
  BY <1>1, <1>2, <1>3, FinishStores

LEMMA ShownStep ==
  ASSUME MetaInv, ShownIsCached, [Next]_vars
  PROVE  ShownIsCached'
<1>1. CASE \/ UNCHANGED vars \/ Push \/ Undo
           \/ \E w \in Worker : Pop(w) \/ Begin(w) \/ Throw(w)
  <2>1. UNCHANGED << session_options, responder_lookup_cache, shown, now >>
    BY <1>1 DEF vars, Push, Undo, Pop, Begin, Throw
  <2>2. ASSUME NEW a \in DOMAIN shown \cap DOMAIN responder_lookup_cache
        PROVE  Agrees(a)'
    BY <2>1, AgreesStays, ShownIsAgreed
  <2>. QED
    BY <2>1, <2>2 DEF ShownIsCached, Agrees
<1>2. CASE Tick
  <2>1. UNCHANGED << responder_lookup_cache, shown >>
    BY <1>2 DEF Tick
  <2>2. ASSUME NEW a \in DOMAIN shown \cap DOMAIN responder_lookup_cache
        PROVE  Agrees(a)'
    BY <1>2, AgreesInTime, ShownIsAgreed DEF MetaInv
  <2>. QED
    BY <2>1, <2>2 DEF ShownIsCached, Agrees
<1>3. CASE NewEpoch
  <2>1. DOMAIN shown' = {}
    BY <1>3, EmptyMap DEF NewEpoch
  <2>. QED
    BY <2>1 DEF ShownIsCached
<1>. QED
  BY <1>1, <1>2, <1>3, CommitShows, InsertShows, FinishShows DEF Next

\* As long as an entry of the cache is fresh, its fields are what the hops say
\* of its address, whatever came first: the reply, which takes them from the
\* cache, or the answer, which goes to the hops as well.
THEOREM HopsShowTheCache == Spec => []ShownIsCached
<1>1. ASSUME Init PROVE ShownIsCached
  BY <1>1, EmptyMap DEF Init, ShownIsCached
<1>. QED
  BY <1>1, MetaHolds, ShownStep, PTL DEF Spec

=============================================================================
