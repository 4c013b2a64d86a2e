-------------------------- MODULE MetadataPipeline --------------------------
(***************************************************************************)
(* How the names and owners of responding addresses are looked up: the     *)
(* trace loop commits a reply and asks for a lookup, a bounded queue hands *)
(* it to a worker, and the result goes to a cache that outlives sessions   *)
(* and to every hop the address answers for.  A reset of the statistics    *)
(* and a new session cancel what is under way.                             *)
(*                                                                         *)
(* ghMutex and metadata_queue_mutex are never held together here except by *)
(* a reset, so a step is what happens under one of them.  What a field     *)
(* says is left out: its value is the provider it came from.  The name of  *)
(* the network goes with its number, and one hop stands for all: an answer *)
(* is written to every hop the address is in, and what is cached to the    *)
(* hop that replied and, if it is looked up again, to the others.          *)
(***************************************************************************)
EXTENDS Integers, Sequences, FiniteSets

CONSTANTS
  Address,          \* responders
  Public,           \* those isPublicAddress() lets out to the providers
  Worker,           \* METADATA_WORKER_COUNT workers
  Options,          \* sessions' choices of [resolve_hostname, lookup_asn_isp]
  MaxJobs,          \* MAX_PENDING_METADATA_JOBS
  MaxEntries,       \* MAX_RESPONDER_METADATA_CACHE_ENTRIES
  Lifetime,         \* RESPONDER_METADATA_CACHE_SECONDS
  NegativeLifetime, \* RESPONDER_METADATA_NEGATIVE_CACHE_SECONDS
  MaxEpoch,         \* bound: sessions and resets
  MaxNow            \* bound: the clock stops here

ASSUME MetadataAssumption ==
  /\ Public \subseteq Address /\ Options # {}
  /\ Options \subseteq [ resolve_hostname : BOOLEAN, lookup_asn_isp : BOOLEAN ]
  /\ MaxJobs \in Nat \ {0} /\ MaxEntries \in Nat \ {0}
  /\ Lifetime \in Nat /\ NegativeLifetime \in Nat
  /\ MaxEpoch \in Nat \ {0} /\ MaxNow \in Nat \ {0}

VARIABLES
  data_epoch, session_options,
  responder_lookup_cache,    \* address -> responder_metadata
  reverse_dns_inflight,      \* lookup tokens, << epoch, address >>
  metadata_jobs,
  request,                   \* where the trace loop is in scheduleReverseLookup()
  worker,                    \* where every worker is
  shown,                     \* address -> what the hops say of it
  obtained,                  \* history: when the owner in the cache was learnt
  now

vars == << data_epoch, session_options, responder_lookup_cache, reverse_dns_inflight,
           metadata_jobs, request, worker, shown, obtained, now >>

Provider == { "none", "ipinfo", "cymru" }
Fields   == { "name", "country", "asn", "source", "failure_reason" }
Owner    == { "country", "asn" }
Nothing  == [f \in Fields |-> "none"]

responder_metadata ==
  [ fields : [Fields -> Provider \cup { "dns" }], hostname_queried : BOOLEAN,
    network_queried : BOOLEAN, hostname_cached_at : 0 .. MaxNow,
    network_cached_at : 0 .. MaxNow, cached_at : 0 .. MaxNow ]

metadata_job == [ address : Address, epoch : 0 .. MaxEpoch, options : Options ]

\* The stop source is replaced together with the epoch, so a job is cancelled
\* when its epoch is over.
Cancelled(job) == job.epoch # data_epoch
Token(job)     == << job.epoch, job.address >>

-----------------------------------------------------------------------------
\* The cache

Within(tick, lifetime) == tick # 0 /\ now - tick <= lifetime

hostnameCacheFresh(m) ==
  /\ m.hostname_queried
  /\ Within(m.hostname_cached_at,
            IF m.fields["name"] = "none" THEN NegativeLifetime ELSE Lifetime)

networkCacheFresh(m) ==
  /\ m.network_queried
  /\ Within(m.network_cached_at,
            IF \A f \in Owner : m.fields[f] = "none" THEN NegativeLifetime ELSE Lifetime)

Cached(a) == a \in DOMAIN responder_lookup_cache

\* What the options let be shown, of an entry that is fresh.
Displayed(fields, name, network) ==
  [f \in Fields |-> IF (IF f = "name" THEN name ELSE network) THEN fields[f] ELSE "none"]

DisplayedFromCache(a, options) ==
  LET m == responder_lookup_cache[a]
  IN  Displayed(m.fields, options.resolve_hostname /\ hostnameCacheFresh(m),
                          options.lookup_asn_isp /\ networkCacheFresh(m))

Needed(a, options) ==
  \/ options.resolve_hostname /\ ~(Cached(a) /\ hostnameCacheFresh(responder_lookup_cache[a]))
  \/ options.lookup_asn_isp /\ ~(Cached(a) /\ networkCacheFresh(responder_lookup_cache[a]))

\* updateResponder() on every hop: an empty field changes nothing, and only an
\* address that has replied is in a hop.
updateResponder(table, a, fields) ==
  IF a \notin DOMAIN table THEN table
  ELSE [table EXCEPT ![a] = [f \in Fields |-> IF fields[f] = "none" THEN @[f] ELSE fields[f]]]

-----------------------------------------------------------------------------
\* The trace loop

NoRequest == [ at |-> "none" ]

\* Mutant: what is cached is left to the lookup.
commitReply_ignores_cache(a) ==
  /\ request.at = "none"
  /\ shown' = IF a \in DOMAIN shown THEN shown ELSE [b \in DOMAIN shown \cup {a} |->
                IF b = a THEN Nothing ELSE shown[b]]
  /\ request' = IF Needed(a, session_options)
                THEN [ at |-> "insert",
                       job |-> [ address |-> a, epoch |-> data_epoch, options |-> session_options ] ]
                ELSE NoRequest
  /\ UNCHANGED << data_epoch, session_options, responder_lookup_cache, reverse_dns_inflight,
                  metadata_jobs, worker, obtained, now >>

\* commitReply() of a reply of this epoch.
commitReply(a) ==
  /\ request.at = "none"
  /\ LET observed == IF a \in DOMAIN shown THEN shown
                     ELSE [b \in DOMAIN shown \cup {a} |-> IF b = a THEN Nothing ELSE shown[b]]
     IN  shown' = IF Cached(a)
                  THEN updateResponder(observed, a, DisplayedFromCache(a, session_options))
                  ELSE observed
  /\ request' = IF Needed(a, session_options)
                THEN [ at |-> "insert",
                       job |-> [ address |-> a, epoch |-> data_epoch, options |-> session_options ] ]
                ELSE NoRequest
  /\ UNCHANGED << data_epoch, session_options, responder_lookup_cache, reverse_dns_inflight,
                  metadata_jobs, worker, obtained, now >>

\* Mutant: a lookup that is under way already is not noticed.
Insert_without_dedup ==
  /\ request.at = "insert"
  /\ LET job == request.job
         a   == job.address
     IN  /\ shown' = IF Cached(a) /\ ~Cancelled(job)
                     THEN updateResponder(shown, a, DisplayedFromCache(a, job.options)) ELSE shown
         /\ IF Cancelled(job) \/ ~Needed(a, job.options)
            THEN request' = NoRequest /\ UNCHANGED reverse_dns_inflight
            ELSE /\ request' = [request EXCEPT !.at = "push"]
                 /\ reverse_dns_inflight' = reverse_dns_inflight \cup { Token(job) }
  /\ UNCHANGED << data_epoch, session_options, responder_lookup_cache, metadata_jobs, worker,
                  obtained, now >>

\* scheduleReverseLookup(), first lock: the lookup may have become useless, or
\* be under way; else it is registered.
Insert ==
  /\ request.at = "insert"
  /\ LET job == request.job
         a   == job.address
     IN  /\ shown' = IF Cached(a) /\ ~Cancelled(job)
                     THEN updateResponder(shown, a, DisplayedFromCache(a, job.options)) ELSE shown
         /\ IF Cancelled(job) \/ ~Needed(a, job.options) \/ Token(job) \in reverse_dns_inflight
            THEN request' = NoRequest /\ UNCHANGED reverse_dns_inflight
            ELSE /\ request' = [request EXCEPT !.at = "push"]
                 /\ reverse_dns_inflight' = reverse_dns_inflight \cup { Token(job) }
  /\ UNCHANGED << data_epoch, session_options, responder_lookup_cache, metadata_jobs, worker,
                  obtained, now >>

\* Second lock: the queue takes it or is full.
Push ==
  /\ request.at = "push"
  /\ IF Len(metadata_jobs) < MaxJobs
     THEN metadata_jobs' = Append(metadata_jobs, request.job) /\ request' = NoRequest
     ELSE request' = [request EXCEPT !.at = "undo"] /\ UNCHANGED metadata_jobs
  /\ UNCHANGED << data_epoch, session_options, responder_lookup_cache, reverse_dns_inflight,
                  worker, shown, obtained, now >>

\* A lookup that was turned away may be asked for again.
Undo ==
  /\ request.at = "undo" /\ request' = NoRequest
  /\ reverse_dns_inflight' = reverse_dns_inflight \ { Token(request.job) }
  /\ UNCHANGED << data_epoch, session_options, responder_lookup_cache, metadata_jobs, worker,
                  shown, obtained, now >>

-----------------------------------------------------------------------------
\* The workers, metadataWorkerLoop()

Idle == [ at |-> "idle" ]

Pop(w) ==
  /\ worker[w].at = "idle" /\ metadata_jobs # << >>
  /\ worker' = [worker EXCEPT ![w] = [ at |-> "popped", job |-> Head(metadata_jobs) ]]
  /\ metadata_jobs' = Tail(metadata_jobs)
  /\ UNCHANGED << data_epoch, session_options, responder_lookup_cache, reverse_dns_inflight,
                  request, shown, obtained, now >>

\* A cancelled job is dropped; else executeMetadataJob() begins, and notes the
\* time.
Begin(w) ==
  /\ worker[w].at = "popped"
  /\ IF Cancelled(worker[w].job)
     THEN /\ worker' = [worker EXCEPT ![w] = Idle]
          /\ reverse_dns_inflight' = reverse_dns_inflight \ { Token(worker[w].job) }
     ELSE /\ worker' = [worker EXCEPT ![w] =
                          [ at |-> "asking", job |-> worker[w].job, started |-> now ]]
          /\ UNCHANGED reverse_dns_inflight
  /\ UNCHANGED << data_epoch, session_options, responder_lookup_cache, metadata_jobs, request,
                  shown, obtained, now >>

\* queryAddress(): what ipinfo knows, with a reason for what was cut short, or
\* else Team Cymru, which knows no country, or neither.
queryAddress(job) ==
  IF ~job.options.lookup_asn_isp \/ job.address \notin Public THEN { Nothing }
  ELSE { [f \in Fields |-> IF f \in known \cup { "source" } THEN "ipinfo" ELSE "none"] :
           known \in SUBSET (Owner \cup { "failure_reason" }) }
       \cup { [Nothing EXCEPT !["asn"] = "cymru", !["source"] = "cymru"],
              [Nothing EXCEPT !["failure_reason"] = "ipinfo"] }

\* The name comes with the owner or from the resolver, if it is wanted.
Answers(job) ==
  UNION { IF job.options.resolve_hostname
          THEN { [fields EXCEPT !["name"] = name] : name \in { "none", "dns" } }
          ELSE { fields } : fields \in queryAddress(job) }

\* Fields the lookup left empty are taken from the entry before.
Merged(job, fields, started) ==
  LET hostname_at == IF job.options.resolve_hostname THEN started ELSE 0
      network_at  == IF job.options.lookup_asn_isp THEN started ELSE 0
  IN  IF ~Cached(job.address)
      THEN [ fields |-> fields, hostname_queried |-> job.options.resolve_hostname,
             network_queried |-> job.options.lookup_asn_isp,
             hostname_cached_at |-> hostname_at, network_cached_at |-> network_at,
             cached_at |-> started ]
      ELSE LET previous == responder_lookup_cache[job.address]
           IN  [ fields |-> [f \in Fields |-> IF fields[f] = "none" THEN previous.fields[f]
                                              ELSE fields[f]],
                 hostname_queried   |-> job.options.resolve_hostname \/ previous.hostname_queried,
                 network_queried    |-> job.options.lookup_asn_isp \/ previous.network_queried,
                 hostname_cached_at |-> IF job.options.resolve_hostname THEN hostname_at
                                        ELSE previous.hostname_cached_at,
                 network_cached_at  |-> IF job.options.lookup_asn_isp THEN network_at
                                        ELSE previous.network_cached_at,
                 cached_at          |-> started ]

\* The entries that stay when one for address a comes; of several oldest ones
\* any may go.
Remaining(a) ==
  LET keys   == DOMAIN responder_lookup_cache
      oldest == { b \in keys : \A c \in keys :
                    responder_lookup_cache[b].cached_at <= responder_lookup_cache[c].cached_at }
  IN  IF a \in keys \/ Cardinality(keys) < MaxEntries THEN { keys }
      ELSE { keys \ {b} : b \in oldest }

\* Mutant: the epoch is not compared when the answer comes.
Finish_any_epoch(w) ==
  /\ worker[w].at = "asking" /\ worker' = [worker EXCEPT ![w] = Idle]
  /\ reverse_dns_inflight' = reverse_dns_inflight \ { Token(worker[w].job) }
  /\ LET job == worker[w].job
         a   == job.address
     IN  \E answer \in Answers(job), keys \in Remaining(a) :
           LET entry == Merged(job, answer, worker[w].started)
           IN  /\ responder_lookup_cache' = [b \in keys \cup {a} |->
                    IF b = a THEN entry ELSE responder_lookup_cache[b]]
               /\ obtained' = [obtained EXCEPT ![a] =
                    IF answer["asn"] # "none" THEN worker[w].started ELSE @]
               /\ shown' = updateResponder(shown, a, Displayed(entry.fields,
                    job.options.resolve_hostname, job.options.lookup_asn_isp))
  /\ UNCHANGED << data_epoch, session_options, metadata_jobs, request, now >>

\* The answer comes.
Finish(w) ==
  /\ worker[w].at = "asking" /\ worker' = [worker EXCEPT ![w] = Idle]
  /\ reverse_dns_inflight' = reverse_dns_inflight \ { Token(worker[w].job) }
  /\ LET job == worker[w].job
         a   == job.address
     IN  IF Cancelled(job) THEN UNCHANGED << responder_lookup_cache, shown, obtained >>
         ELSE \E answer \in Answers(job), keys \in Remaining(a) :
           LET entry == Merged(job, answer, worker[w].started)
           IN  /\ responder_lookup_cache' = [b \in keys \cup {a} |->
                    IF b = a THEN entry ELSE responder_lookup_cache[b]]
               /\ obtained' = [obtained EXCEPT ![a] =
                    IF answer["asn"] # "none" THEN worker[w].started ELSE @]
               /\ shown' = updateResponder(shown, a, Displayed(entry.fields,
                    job.options.resolve_hostname, job.options.lookup_asn_isp))
  /\ UNCHANGED << data_epoch, session_options, metadata_jobs, request, now >>

\* Mutant: an exception leaves the lookup registered.
Throw_keeps_token(w) ==
  /\ worker[w].at = "asking" /\ worker' = [worker EXCEPT ![w] = Idle]
  /\ UNCHANGED << data_epoch, session_options, responder_lookup_cache, reverse_dns_inflight,
                  metadata_jobs, request, shown, obtained, now >>

\* Something is thrown on the way.
Throw(w) ==
  /\ worker[w].at = "asking" /\ worker' = [worker EXCEPT ![w] = Idle]
  /\ reverse_dns_inflight' = reverse_dns_inflight \ { Token(worker[w].job) }
  /\ UNCHANGED << data_epoch, session_options, responder_lookup_cache, metadata_jobs, request,
                  shown, obtained, now >>

-----------------------------------------------------------------------------
\* ResetHops(), at any time, and beginSession(), by the trace loop's thread,
\* with the options of the new session.
NewEpoch ==
  /\ data_epoch < MaxEpoch /\ data_epoch' = data_epoch + 1
  /\ session_options' \in IF request.at = "none" THEN Options ELSE { session_options }
  /\ metadata_jobs' = << >> /\ reverse_dns_inflight' = {} /\ shown' = << >>
  /\ UNCHANGED << responder_lookup_cache, request, worker, obtained, now >>

Tick ==
  /\ now < MaxNow /\ now' = now + 1
  /\ UNCHANGED << data_epoch, session_options, responder_lookup_cache, reverse_dns_inflight,
                  metadata_jobs, request, worker, shown, obtained >>

Init ==
  /\ data_epoch = 1 /\ session_options \in Options
  /\ responder_lookup_cache = << >> /\ reverse_dns_inflight = {}
  /\ metadata_jobs = << >> /\ request = NoRequest
  /\ worker = [w \in Worker |-> Idle]
  /\ shown = << >> /\ obtained = [a \in Address |-> 0] /\ now = 1

Next ==
  \/ \E a \in Address : commitReply(a)
  \/ Insert \/ Push \/ Undo
  \/ \E w \in Worker : Pop(w) \/ Begin(w) \/ Finish(w) \/ Throw(w)
  \/ NewEpoch \/ Tick

\* The loop and the workers go on; providers and the resolver answer or give up.
Fairness ==
  /\ WF_vars(Insert \/ Push \/ Undo)
  /\ \A w \in Worker : WF_vars(Pop(w) \/ Begin(w) \/ Finish(w) \/ Throw(w))

Spec == Init /\ [][Next]_vars /\ Fairness

-----------------------------------------------------------------------------
\* Properties

\* Every variable keeps its type; queue and cache keep their limits.
TypeOK ==
  /\ data_epoch \in 1 .. MaxEpoch /\ session_options \in Options
  /\ responder_lookup_cache \in [DOMAIN responder_lookup_cache -> responder_metadata]
  /\ DOMAIN responder_lookup_cache \subseteq Address
  /\ Cardinality(DOMAIN responder_lookup_cache) <= MaxEntries
  /\ metadata_jobs \in Seq(metadata_job) /\ Len(metadata_jobs) <= MaxJobs
  /\ request = NoRequest \/ request \in [ at : { "insert", "push", "undo" }, job : metadata_job ]
  /\ DOMAIN shown \subseteq Address /\ now \in 1 .. MaxNow

\* The lookups of an address that are not over, wherever they are.
Looking(job, a) == job.address = a /\ ~Cancelled(job)

Lookups(a) ==
  (IF request.at \in { "push", "undo" } /\ Looking(request.job, a) THEN 1 ELSE 0)
  + Cardinality({ i \in 1 .. Len(metadata_jobs) : Looking(metadata_jobs[i], a) })
  + Cardinality({ w \in Worker : worker[w].at # "idle" /\ Looking(worker[w].job, a) })

\* An address is looked up once at a time, and is registered exactly as long as
\* it is: no reset in between leaves one registered that nobody works on, which
\* would never be looked up again.  Queue and cache keep their limits meanwhile.
LookupsAreTracked ==
  /\ TypeOK
  /\ \A a \in Address :
       Lookups(a) = IF << data_epoch, a >> \in reverse_dns_inflight THEN 1 ELSE 0

\* Every registered lookup comes to its end.
LookupsEnd ==
  \A a \in Address, e \in 1 .. MaxEpoch :
    << e, a >> \in reverse_dns_inflight ~> << e, a >> \notin reverse_dns_inflight

\* A lookup that was cancelled, and may have been cut short, leaves nothing in
\* the cache.
CancelledLeavesNothing ==
  [][\A a \in DOMAIN responder_lookup_cache' :
       (a \in DOMAIN responder_lookup_cache =>
          responder_lookup_cache'[a] # responder_lookup_cache[a])
         => << data_epoch, a >> \in reverse_dns_inflight]_vars

\* The hops show what is known: as long as an entry is fresh, its fields are
\* those shown for its address, whether the reply or the answer came first.
ShownIsCached ==
  \A a \in DOMAIN shown \cap DOMAIN responder_lookup_cache :
    LET displayed == DisplayedFromCache(a, session_options)
    IN  \A f \in Fields : displayed[f] # "none" => shown[a][f] = displayed[f]

\* An owner is not kept longer than the lifetime of the cache after the
\* provider named it.
OwnerExpires ==
  \A a \in DOMAIN responder_lookup_cache :
    LET m == responder_lookup_cache[a]
    IN  networkCacheFresh(m) /\ m.fields["asn"] # "none" => now - obtained[a] <= Lifetime
=============================================================================
