------------------------------ MODULE TraceStart ------------------------------
(***************************************************************************)
(* What the trace thread does before DoTrace(): pingThread() in            *)
(* WinMTRDialog-tracing.cpp takes the address the user wrote or asks       *)
(* ResolveAddressesWithDeadline() in WinMTRDnsUtil.ixx, and lets           *)
(* SelectCandidate() in WinMTRNet-Tracing.cpp race the candidates, each    *)
(* with a worker thread that waits for its head start to be over and then  *)
(* sends one probe.  The user may stop the trace at any point.             *)
(*                                                                         *)
(* Time is left out: a deadline passes when it does.  A wake-up may be     *)
(* missed, since request_stop() notifies without the lock: a worker that   *)
(* could go home early may, and must only when its head start is over.     *)
(***************************************************************************)
EXTENDS Integers, Sequences, FiniteSets

CONSTANTS
  Address,        \* addresses a name may have
  IPv4,           \* those of them that are IPv4
  MaxCandidates   \* 8 in the code

ASSUME StartAssumption ==
  IPv4 \subseteq Address /\ IsFiniteSet(Address) /\ MaxCandidates \in Nat \ {0}

VARIABLES
  stop_requested,   \* of the thread's stop token
  at,               \* where the thread is
  families,         \* those of the families that useIPv4 and useIPv6 admit
  query,            \* the query of the system's resolver
  wait,             \* how WaitForMultipleObjects() came back
  candidates,
  worker,           \* the workers of the race, one per candidate
  winner,           \* the index of the first candidate recorded, or 0
  aborted,          \* a worker could not be created
  outcome           \* what became of the start

raceVars  == << worker, winner, aborted >>
startVars == << stop_requested, at, families, query, wait, candidates, raceVars, outcome >>

Families == { "IPv4", "IPv6" }
Of(family) == IF family = "IPv4" THEN IPv4 ELSE Address \ IPv4

\* What collect_addresses() can return, none twice.  The order of the addresses
\* of a family counts, that of the two families does not.
Orders(A) == { s \in UNION { [1 .. n -> A] : n \in 0 .. Cardinality(A) } :
                 \A i, j \in DOMAIN s : s[i] = s[j] => i = j }
Answers   == { [f \in Families |-> IF f = "IPv4" THEN s4 ELSE s6] :
                 s4 \in Orders(Of("IPv4")), s6 \in Orders(Of("IPv6")) }
NoAnswer  == [f \in Families |-> << >>]

NoQuery   == [ at |-> "none", synchronous |-> FALSE, addresses |-> NoAnswer, late |-> FALSE ]
NoOutcome == [ kind |-> "none", index |-> 0 ]

StartInit ==
  /\ stop_requested = FALSE /\ at = "idle" /\ families = {}
  /\ query = NoQuery /\ wait = "none" /\ candidates = << >>
  /\ worker = << >> /\ winner = 0 /\ aborted = FALSE
  /\ outcome = NoOutcome

End(kind, index) ==
  at' = "idle" /\ outcome' = [ kind |-> kind, index |-> index ]

-----------------------------------------------------------------------------
(* pingThread() *)

\* Transit(TRACING) starts the thread; what the user entered may be an address
\* of a family that is in use.
Begin ==
  /\ at = "idle"
  /\ families' \in SUBSET Families
  /\ stop_requested' = FALSE /\ query' = NoQuery /\ wait' = "none" /\ outcome' = NoOutcome
  /\ worker' = << >> /\ winner' = 0 /\ aborted' = FALSE
  /\ \/ at' = "resolve" /\ candidates' = << >>
     \/ at' = "select" /\ \E f \in families' : \E a \in Of(f) : candidates' = << a >>

\* stopTrace().
RequestStop ==
  /\ at # "idle" /\ ~stop_requested
  /\ stop_requested' = TRUE
  /\ UNCHANGED << at, families, query, wait, candidates, raceVars, outcome >>

\* The families take turns, IPv4 first, until one is used up.
TakeTurns(a, b) ==
  LET turns == IF Len(a) < Len(b) THEN Len(a) ELSE Len(b)
  IN  [ k \in 1 .. Len(a) + Len(b) |->
          IF k <= 2 * turns THEN IF k % 2 = 1 THEN a[(k + 1) \div 2] ELSE b[k \div 2]
          ELSE IF Len(a) > turns THEN a[k - turns] ELSE b[k - turns] ]

FirstOf(s, n) == IF Len(s) > n THEN SubSeq(s, 1, n) ELSE s

InUse(addresses, family) == IF family \in families THEN addresses[family] ELSE << >>

CandidatesOf(addresses) ==
  FirstOf(TakeTurns(InUse(addresses, "IPv4"), InUse(addresses, "IPv6")), MaxCandidates)

\* ResolveAddressesWithDeadline() returns addresses, none in case of an error.
Resolved(addresses) ==
  /\ candidates' = CandidatesOf(addresses)
  /\ at' = "select"

-----------------------------------------------------------------------------
(* ResolveAddressesWithDeadline() *)

\* The query is started, or fails at once; only the newer systems can do it in
\* the background.
StartQuery ==
  /\ at = "resolve"
  /\ \/ stop_requested /\ Resolved(NoAnswer) /\ UNCHANGED query
     \/ ~stop_requested /\ Resolved(NoAnswer) /\ UNCHANGED query
     \/ /\ ~stop_requested
        /\ \E s \in BOOLEAN :
             query' = [NoQuery EXCEPT !.at = "pending", !.synchronous = s]
        /\ at' = "wait" /\ UNCHANGED candidates
  /\ UNCHANGED << stop_requested, families, wait, raceVars, outcome >>

\* The system's resolver comes back, after its own timeout at the latest.  It is
\* late if nobody wants its answer any more.
QueryCompletes ==
  /\ query.at = "pending"
  /\ \E addresses \in Answers :
       query' = [query EXCEPT !.at = "complete", !.addresses = addresses,
                              !.late = stop_requested \/ at = "cancel"]
  /\ UNCHANGED << stop_requested, at, families, wait, candidates, raceVars, outcome >>

\* WaitForMultipleObjects(): the query is complete, the trace was stopped, or
\* the deadline has passed or the wait failed with neither.
Waited(how) ==
  /\ at = "wait" /\ wait' = how
  /\ UNCHANGED << stop_requested, families, query, candidates, raceVars, outcome >>

WaitComplete  == Waited("complete") /\ query.at = "complete" /\ at' = "result"
WaitCancelled == Waited("cancelled") /\ ~query.synchronous /\ stop_requested /\ at' = "cancel"

\* Mutant: the wait has no deadline.
WaitTimedOut_infinite == FALSE

WaitTimedOut  == Waited("timed out") /\ ~query.synchronous /\ query.at = "pending"
                   /\ at' = "cancel"
WaitFailed    == Waited("failed") /\ ~query.synchronous /\ at' = "cancel"

\* Mutant: a query that is cancelled is left to itself.
CancelQuery_without_waiting ==
  /\ at = "cancel" /\ at' = "result"
  /\ UNCHANGED << stop_requested, families, query, wait, candidates, raceVars, outcome >>

\* GetAddrInfoExCancel(), and then the wait without a limit for the query, which
\* uses the caller's stack, to be over.
CancelQuery ==
  /\ at = "cancel" /\ query.at = "complete" /\ at' = "result"
  /\ UNCHANGED << stop_requested, families, query, wait, candidates, raceVars, outcome >>

\* Mutant: what the resolver says after the deadline counts.
TakeResult_in_any_case ==
  /\ at = "result"
  /\ Resolved(IF stop_requested THEN NoAnswer ELSE query.addresses)
  /\ UNCHANGED << stop_requested, families, query, wait, raceVars, outcome >>

\* The result counts if it came in time and the trace goes on.
TakeResult ==
  /\ at = "result"
  /\ Resolved(IF stop_requested \/ wait # "complete" THEN NoAnswer ELSE query.addresses)
  /\ UNCHANGED << stop_requested, families, query, wait, raceVars, outcome >>

-----------------------------------------------------------------------------
(* SelectCandidate() *)

\* No candidate, or stopped; one candidate is taken as it is; more are raced,
\* unless there is no memory for the race.
Select ==
  /\ at = "select"
  /\ \/ stop_requested /\ End("cancelled", 0) /\ UNCHANGED worker
     \/ candidates = << >> /\ ~stop_requested /\ End("unresolved", 0) /\ UNCHANGED worker
     \/ Len(candidates) = 1 /\ ~stop_requested /\ End("tracing", 1) /\ UNCHANGED worker
     \/ Len(candidates) > 1 /\ ~stop_requested /\ End("failed", 0) /\ UNCHANGED worker
     \/ /\ Len(candidates) > 1 /\ ~stop_requested
        /\ worker' = [i \in DOMAIN candidates |-> "new"]
        /\ at' = "create" /\ UNCHANGED outcome
  /\ UNCHANGED << stop_requested, families, query, wait, candidates, winner, aborted >>

\* The next worker is created, or cannot be.
Creatable(i) == worker[i] = "new" /\ \A j \in 1 .. i - 1 : worker[j] # "new"

CreateWorker ==
  /\ at = "create"
  /\ \E i \in DOMAIN worker :
       /\ Creatable(i)
       /\ \/ /\ worker' = [worker EXCEPT ![i] = "waiting"]
             /\ at' = IF i = Len(candidates) THEN "join" ELSE "create"
             /\ UNCHANGED aborted
          \/ aborted' = TRUE /\ at' = "join" /\ UNCHANGED worker
  /\ UNCHANGED << stop_requested, families, query, wait, candidates, winner, outcome >>

Decided == stop_requested \/ aborted \/ winner # 0

\* A worker is woken before its head start is over: only to go home.
WakeEarly(i) ==
  /\ worker[i] = "waiting" /\ Decided
  /\ worker' = [worker EXCEPT ![i] = "quit"]
  /\ UNCHANGED << stop_requested, at, families, query, wait, candidates, winner, aborted,
                  outcome >>

HeadStartOver(i) ==
  /\ worker[i] = "waiting"
  /\ worker' = [worker EXCEPT ![i] = IF Decided THEN "quit" ELSE "probing"]
  /\ UNCHANGED << stop_requested, at, families, query, wait, candidates, winner, aborted,
                  outcome >>

\* probe_candidate_once(): an answer that comes after the stop does not count.
ProbeEnds(i) ==
  /\ worker[i] = "probing"
  /\ \/ worker' = [worker EXCEPT ![i] = "silent"]
     \/ ~stop_requested /\ worker' = [worker EXCEPT ![i] = "answered"]
  /\ UNCHANGED << stop_requested, at, families, query, wait, candidates, winner, aborted,
                  outcome >>

\* The first to get the lock is the winner.
Record(i) ==
  /\ worker[i] = "answered"
  /\ worker' = [worker EXCEPT ![i] = "recorded"]
  /\ winner' = IF winner = 0 THEN i ELSE winner
  /\ UNCHANGED << stop_requested, at, families, query, wait, candidates, aborted, outcome >>

Joined(i) == worker[i] \in { "new", "quit", "silent", "recorded" }

\* Mutant: the first candidate is taken as soon as it has had its chance.
Join_first_only ==
  /\ at = "join" /\ (Joined(1) \/ winner # 0)
  /\ IF stop_requested THEN End("cancelled", 0)
     ELSE End("tracing", IF winner = 0 THEN 1 ELSE winner)
  /\ UNCHANGED << stop_requested, families, query, wait, candidates, raceVars >>

Join ==
  /\ at = "join" /\ \A i \in DOMAIN worker : Joined(i)
  /\ IF stop_requested THEN End("cancelled", 0)
     ELSE End("tracing", IF winner = 0 THEN 1 ELSE winner)
  /\ UNCHANGED << stop_requested, families, query, wait, candidates, raceVars >>

\* What goes on of itself: a wait may fail, and need not.
Resolving == StartQuery \/ WaitComplete \/ WaitCancelled \/ WaitTimedOut
               \/ CancelQuery \/ TakeResult

Racing(i) == HeadStartOver(i) \/ ProbeEnds(i) \/ Record(i)

StartNext ==
  \/ Begin \/ RequestStop
  \/ StartQuery \/ QueryCompletes \/ WaitComplete \/ WaitCancelled \/ WaitTimedOut
  \/ WaitFailed \/ CancelQuery \/ TakeResult
  \/ Select \/ CreateWorker \/ Join
  \/ \E i \in DOMAIN worker :
       WakeEarly(i) \/ HeadStartOver(i) \/ ProbeEnds(i) \/ Record(i)

\* Threads are scheduled and deadlines pass.  The system's resolver is trusted
\* to return when it is cancelled, or when it was given no one to tell.
StartFairness ==
  /\ WF_startVars(Resolving \/ Select \/ CreateWorker \/ Join)
  /\ WF_startVars(QueryCompletes /\ (at = "cancel" \/ query.synchronous))
  /\ \A i \in 1 .. MaxCandidates : WF_startVars(i \in DOMAIN worker /\ Racing(i))

StartSpec == StartInit /\ [][StartNext]_startVars /\ StartFairness

-----------------------------------------------------------------------------
\* Properties

StartTypeOK ==
  /\ stop_requested \in BOOLEAN /\ aborted \in BOOLEAN
  /\ at \in { "idle", "resolve", "wait", "cancel", "result", "select", "create", "join" }
  /\ families \subseteq Families
  /\ query \in [ at : { "none", "pending", "complete" }, synchronous : BOOLEAN,
                  addresses : Answers, late : BOOLEAN ]
  /\ wait \in { "none", "complete", "cancelled", "timed out", "failed" }
  /\ candidates \in Seq(Address) /\ Len(candidates) <= MaxCandidates
  /\ DOMAIN worker \in { {}, DOMAIN candidates }
  /\ \A i \in DOMAIN worker :
       worker[i] \in { "new", "waiting", "probing", "answered", "silent", "recorded", "quit" }
  /\ winner \in {0} \cup DOMAIN worker
  /\ outcome.kind \in { "none", "cancelled", "unresolved", "failed", "tracing" }
  /\ outcome.index \in {0} \cup DOMAIN candidates

\* Addresses are not used if the resolver came back with them after the trace was
\* stopped, or after the caller had given the query up because the deadline had
\* passed.  And no query outlives the call whose stack it writes to.
AnswerInTime ==
  /\ query.late => candidates = << >>
  /\ query.at = "pending" => at \in { "wait", "cancel" }

\* The race is won by a candidate that answered.  The first candidate is the
\* fallback only when every single one was tried and none did, or the race could
\* not be held; and no worker is left when it is over.
RightCandidate ==
  outcome.kind = "tracing" /\ worker # << >> =>
    /\ \A i \in DOMAIN worker : Joined(i)
    /\ \/ worker[outcome.index] = "recorded"
       \/ /\ outcome.index = 1 /\ \A i \in DOMAIN worker : worker[i] # "recorded"
          /\ aborted \/ \A i \in DOMAIN worker : worker[i] = "silent"

\* A start comes to an end, stopped or not, whatever the resolver and the
\* candidates do.
StartEnds == at # "idle" ~> at = "idle"
=============================================================================
