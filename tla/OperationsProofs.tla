-------------------------- MODULE OperationsProofs --------------------------
(***************************************************************************)
(* Proofs about the operations that share no state: TraceStart, ReportFile *)
(* and HostHistory, in this order, each for any values of its constants.   *)
(*                                                                         *)
(* AnswerInTime rests on the candidates being there only when the query is *)
(* over.  RightCandidate rests on what the workers' states say of the      *)
(* race: there is a winner once one has recorded, and a worker that went   *)
(* home early, or was never created, did so for a reason that is still     *)
(* there when the race is over.                                            *)
(*                                                                         *)
(* ReportIsWhole rests on the data being on the disk before the move.      *)
(* ClearedStaysAway rests on the values being written before their number, *)
(* so that no value left over from a list cut short is ever counted: such  *)
(* values may be in the registry, and are hosts that were cleared.         *)
(* HistoryIsOneList rests on what is stored being one run of values: the   *)
(* end of the old list, from the first value not deleted yet, or the       *)
(* beginning of the new one.  A list that is loaded is that run, since two *)
(* lists of the same hosts in the same order are equal (SameOrder).        *)
(***************************************************************************)
EXTENDS TraceStart, HostHistory, ReportFile, SequenceTheorems, FiniteSetTheorems,
        NaturalsInduction, WellFoundedInduction, TLAPS

-----------------------------------------------------------------------------
\* TraceStart
WorkerStates == { "new", "waiting", "probing", "answered", "silent", "recorded", "quit" }

StartTypes ==
  /\ stop_requested \in BOOLEAN
  /\ aborted \in BOOLEAN
  /\ families \subseteq Families
  /\ query \in [ at : { "none", "pending", "complete" }, synchronous : BOOLEAN,
                  addresses : [Families -> Seq(Address)], late : BOOLEAN ]
  /\ candidates \in Seq(Address)
  /\ worker \in [DOMAIN worker -> WorkerStates]
  /\ DOMAIN worker \subseteq DOMAIN candidates
  /\ outcome \in [ kind : { "none", "cancelled", "unresolved", "failed", "tracing" },
                    index : Nat ]

\* Nobody wants the answer: the trace was stopped, or the wait ended without it.
Unwanted == stop_requested \/ (at # "wait" /\ wait # "complete")

\* The query's answer is late only when it does not count, a query is given up
\* only when its wait ended without it, and there are no candidates before the
\* answer has been taken.
QueryInv ==
  /\ query.late => Unwanted /\ candidates = << >>
  /\ at = "cancel" => wait # "complete"
  /\ at \in { "resolve", "wait", "cancel", "result" } => candidates = << >>
  /\ query.at = "pending" => at \in { "wait", "cancel" }

\* What the workers' states say of the race.
RaceInv ==
  /\ worker # << >> => at \in { "create", "join", "idle" }
  /\ outcome.kind # "none" => at = "idle"
  /\ at = "idle" => \A i \in DOMAIN worker : Joined(i)
  /\ winner # 0 => winner \in DOMAIN worker /\ worker[winner] = "recorded"
  /\ \A i \in DOMAIN worker : worker[i] = "recorded" => winner # 0
  /\ \A i \in DOMAIN worker : worker[i] = "quit" => Decided
  /\ at # "create" => \A i \in DOMAIN worker : worker[i] = "new" => aborted

StartInv == StartTypes /\ QueryInv /\ RaceInv /\ RightCandidate

-----------------------------------------------------------------------------
(* The operators *)

\* The lists of a set are sequences.
LEMMA OrdersAreLists ==
  ASSUME NEW A \in SUBSET Address
  PROVE  Orders(A) \subseteq Seq(Address)
<1>1. Cardinality(A) \in Nat
  BY StartAssumption, FS_Subset, FS_CardinalityType
<1>2. ASSUME NEW s \in Orders(A) PROVE s \in Seq(Address)
  <2>1. PICK n \in 0 .. Cardinality(A) : s \in [1 .. n -> A]
    BY DEF Orders
  <2>2. n \in Nat
    BY <1>1
  <2>. QED  BY <2>1, <2>2
<1>. QED  BY <1>2

\* collect_addresses() returns sequences of addresses, of each family.
LEMMA AnswersAreLists == Answers \subseteq [Families -> Seq(Address)]
<1>1. \A f \in Families : Of(f) \in SUBSET Address
  BY StartAssumption DEF Of, Families
<1>2. ASSUME NEW s4 \in Orders(Of("IPv4")), NEW s6 \in Orders(Of("IPv6"))
      PROVE  [f \in Families |-> IF f = "IPv4" THEN s4 ELSE s6] \in [Families -> Seq(Address)]
  <2>1. s4 \in Seq(Address) /\ s6 \in Seq(Address)
    BY <1>1, OrdersAreLists DEF Families
  <2>. QED  BY <2>1
<1>. QED  BY <1>2 DEF Answers

\* Families that take turns make a sequence of their addresses ...
LEMMA TurnsAreLists ==
  ASSUME NEW a \in Seq(Address), NEW b \in Seq(Address)
  PROVE  /\ TakeTurns(a, b) \in Seq(Address)
         /\ a = << >> /\ b = << >> => TakeTurns(a, b) = << >>
<1>. DEFINE turns == IF Len(a) < Len(b) THEN Len(a) ELSE Len(b)
            E(k) == IF k <= 2 * turns THEN IF k % 2 = 1 THEN a[(k + 1) \div 2] ELSE b[k \div 2]
                    ELSE IF Len(a) > turns THEN a[k - turns] ELSE b[k - turns]
<1>1. /\ Len(a) \in Nat /\ Len(b) \in Nat /\ turns \in Nat
      /\ turns <= Len(a) /\ turns <= Len(b)
      /\ Len(a) > turns => turns = Len(b)
      /\ ~(Len(a) > turns) => turns = Len(a)
  OBVIOUS
<1>2. /\ \A k \in 1 .. Len(a) : a[k] \in Address
      /\ \A k \in 1 .. Len(b) : b[k] \in Address
  OBVIOUS
<1>3. ASSUME NEW k \in 1 .. Len(a) + Len(b) PROVE E(k) \in Address
  <2>. HIDE DEF turns
  <2>1. CASE k <= 2 * turns /\ k % 2 = 1
    <3>1. (k + 1) \div 2 \in 1 .. Len(a)
      BY <1>1, <2>1
    <3>. QED  BY <2>1, <3>1, <1>2
  <2>2. CASE k <= 2 * turns /\ k % 2 # 1
    <3>1. k \div 2 \in 1 .. Len(b)
      BY <1>1, <2>2
    <3>. QED  BY <2>2, <3>1, <1>2
  <2>3. CASE ~(k <= 2 * turns)
    <3>1. CASE Len(a) > turns
      <4>1. k - turns \in 1 .. Len(a)
        BY <1>1, <2>3, <3>1
      <4>. QED  BY <2>3, <3>1, <4>1, <1>2
    <3>2. CASE ~(Len(a) > turns)
      <4>1. k - turns \in 1 .. Len(b)
        BY <1>1, <2>3, <3>2
      <4>. QED  BY <2>3, <3>2, <4>1, <1>2
    <3>. QED  BY <3>1, <3>2
  <2>. QED  BY <2>1, <2>2, <2>3
<1>4. TakeTurns(a, b) = [ k \in 1 .. Len(a) + Len(b) |-> E(k) ]
  BY DEF TakeTurns
<1>. HIDE DEF E, turns
<1>5. TakeTurns(a, b) \in Seq(Address)
  BY <1>1, <1>3, <1>4
<1>6. ASSUME a = << >>, b = << >> PROVE TakeTurns(a, b) = << >>
  <2>1. DOMAIN TakeTurns(a, b) = 1 .. 0
    BY <1>4, <1>6
  <2>. QED  BY <1>5, <2>1
<1>. QED  BY <1>5, <1>6

\* ... which is cut to the first few.
LEMMA CandidatesAreLists ==
  ASSUME NEW addresses \in [Families -> Seq(Address)]
  PROVE  /\ CandidatesOf(addresses) \in Seq(Address)
         /\ addresses = NoAnswer => CandidatesOf(addresses) = << >>
<1>. DEFINE a == InUse(addresses, "IPv4")
            b == InUse(addresses, "IPv6")
            t == TakeTurns(a, b)
<1>1. a \in Seq(Address) /\ b \in Seq(Address)
  BY DEF InUse, Families
<1>2. addresses = NoAnswer => a = << >> /\ b = << >>
  BY DEF InUse, Families, NoAnswer
<1>. HIDE DEF a, b
<1>3. t \in Seq(Address) /\ (addresses = NoAnswer => t = << >>)
  BY <1>1, <1>2, TurnsAreLists
<1>4. CandidatesOf(addresses) = FirstOf(t, MaxCandidates)
  BY DEF CandidatesOf, a, b
<1>. HIDE DEF t
<1>5. FirstOf(t, MaxCandidates) \in Seq(Address)
  BY <1>3, StartAssumption DEF FirstOf
<1>6. t = << >> => FirstOf(t, MaxCandidates) = << >>
  BY StartAssumption DEF FirstOf
<1>. QED  BY <1>3, <1>4, <1>5, <1>6

-----------------------------------------------------------------------------
(* The steps up to the race *)

LEMMA StartInitInv == StartInit => StartInv
<1>. SUFFICES ASSUME StartInit PROVE StartInv
  OBVIOUS
<1>1. NoQuery \in [ at : { "none", "pending", "complete" }, synchronous : BOOLEAN,
                     addresses : [Families -> Seq(Address)], late : BOOLEAN ]
  BY DEF NoQuery, NoAnswer
<1>2. DOMAIN << >> = {}
  OBVIOUS
<1>3. StartTypes
  <2>1. << >> \in Seq(WorkerStates)
    OBVIOUS
  <2>2. << >> \in [1 .. Len(<< >>) -> WorkerStates]
    BY <2>1
  <2>3. worker \in [DOMAIN worker -> WorkerStates]
    BY <1>2, <2>2 DEF StartInit
  <2>4. DOMAIN worker \subseteq DOMAIN candidates
    BY <1>2 DEF StartInit
  <2>5. outcome \in [ kind : { "none", "cancelled", "unresolved", "failed", "tracing" },
                       index : Nat ]
    BY DEF StartInit, NoOutcome
  <2>6. candidates \in Seq(Address)
    BY DEF StartInit
  <2>. QED  BY <1>1, <2>3, <2>4, <2>5, <2>6 DEF StartInit, StartTypes
<1>4. QueryInv
  BY DEF StartInit, QueryInv, NoQuery
<1>5. RaceInv /\ RightCandidate
  BY <1>2 DEF StartInit, RaceInv, RightCandidate, NoOutcome
<1>. QED  BY <1>3, <1>4, <1>5 DEF StartInv

\* While the name is resolved there is no race, and it stays so until there is.
LEMMA NotRacing ==
  ASSUME StartInv, at \notin { "create", "join", "idle" }, at' # "idle",
         UNCHANGED << raceVars, outcome >>
  PROVE  RaceInv' /\ RightCandidate'
<1>1. worker = << >> /\ outcome.kind = "none" /\ winner = 0
  BY DEF StartInv, RaceInv, StartTypes
<1>2. worker' = << >> /\ outcome' = outcome /\ winner' = 0
  BY <1>1 DEF raceVars
<1>3. DOMAIN << >> = {}
  OBVIOUS
<1>4. RaceInv'
  BY <1>1, <1>2, <1>3 DEF RaceInv
<1>5. RightCandidate'
  BY <1>1, <1>2 DEF RightCandidate
<1>. QED  BY <1>4, <1>5

\* A step of the query keeps the types if it keeps those of what it changes.
LEMMA QueryStepTypes ==
  ASSUME StartInv, UNCHANGED << stop_requested, families, raceVars, outcome >>,
         at \notin { "create", "join", "idle" },
         query' \in [ at : { "none", "pending", "complete" }, synchronous : BOOLEAN,
                      addresses : [Families -> Seq(Address)], late : BOOLEAN ],
         candidates' \in Seq(Address)
  PROVE  StartTypes'
<1>1. worker = << >>
  BY DEF StartInv, RaceInv
<1>2. worker' = << >> /\ DOMAIN << >> = {}
  BY <1>1 DEF raceVars
<1>. QED  BY <1>2 DEF StartInv, StartTypes, raceVars

LEMMA StartQueryStep == ASSUME StartInv, StartQuery PROVE StartInv'
<1>1. /\ at = "resolve" /\ at' \in { "wait", "select" }
      /\ UNCHANGED << stop_requested, families, wait, raceVars, outcome >>
  BY DEF StartQuery, Resolved
<1>2. RaceInv' /\ RightCandidate'
  BY <1>1, NotRacing
<1>3. NoAnswer \in [Families -> Seq(Address)]
  BY DEF NoAnswer
<1>4. candidates = << >> /\ query.at # "pending" /\ (query.late => Unwanted)
  BY <1>1 DEF StartInv, QueryInv
<1>5. candidates' = << >>
  BY <1>3, <1>4, CandidatesAreLists DEF StartQuery, Resolved
<1>6. CASE query' = query
  <2>1. at' = "select"
    BY <1>6, <1>4, <1>1 DEF StartQuery, Resolved, NoQuery
  <2>2. StartTypes'
    BY <1>1, <1>5, <1>6, QueryStepTypes DEF StartInv, StartTypes
  <2>3. QueryInv'
    BY <1>1, <1>4, <1>5, <1>6, <2>1 DEF QueryInv, Unwanted
  <2>. QED  BY <1>2, <2>2, <2>3 DEF StartInv
<1>7. CASE query' # query
  <2>1. PICK s \in BOOLEAN :
           query' = [NoQuery EXCEPT !.at = "pending", !.synchronous = s]
    BY <1>7 DEF StartQuery
  <2>2. at' = "wait"
    BY <1>7 DEF StartQuery
  <2>3. query' = [ at |-> "pending", synchronous |-> s, addresses |-> NoAnswer, late |-> FALSE ]
    BY <2>1 DEF NoQuery
  <2>4. StartTypes'
    BY <1>1, <1>3, <1>5, <2>3, QueryStepTypes
  <2>5. QueryInv'
    BY <1>5, <2>2, <2>3 DEF QueryInv
  <2>. QED  BY <1>2, <2>4, <2>5 DEF StartInv
<1>. QED  BY <1>6, <1>7

LEMMA QueryCompletesStep == ASSUME StartInv, QueryCompletes PROVE StartInv'
<1>1. /\ query.at = "pending" /\ at \in { "wait", "cancel" } /\ candidates = << >>
      /\ UNCHANGED << stop_requested, at, families, wait, candidates, raceVars, outcome >>
  BY DEF StartInv, QueryInv, QueryCompletes
<1>2. RaceInv' /\ RightCandidate'
  BY <1>1, NotRacing
<1>3. PICK addresses \in Answers :
        query' = [query EXCEPT !.at = "complete", !.addresses = addresses,
                               !.late = stop_requested \/ at = "cancel"]
  BY DEF QueryCompletes
<1>4. addresses \in [Families -> Seq(Address)]
  BY AnswersAreLists
<1>5. /\ query' \in [ at : { "none", "pending", "complete" }, synchronous : BOOLEAN,
                       addresses : [Families -> Seq(Address)], late : BOOLEAN ]
      /\ query'.at = "complete" /\ (query'.late => stop_requested \/ at = "cancel")
  BY <1>3, <1>4 DEF StartInv, StartTypes
<1>6. StartTypes'
  BY <1>1, <1>5, QueryStepTypes DEF StartInv, StartTypes
<1>7. QueryInv'
  BY <1>1, <1>5 DEF StartInv, QueryInv, Unwanted
<1>. QED  BY <1>2, <1>6, <1>7 DEF StartInv

\* The waits, and the cancellation: only the place changes.
LEMMA WaitStep ==
  ASSUME StartInv,
         WaitComplete \/ WaitCancelled \/ WaitTimedOut \/ WaitFailed \/ CancelQuery
  PROVE  StartInv'
<1>1. /\ at \in { "wait", "cancel" } /\ at' \in { "cancel", "result" }
      /\ at' = "result" => query.at = "complete"
      /\ at' = "cancel" => wait' # "complete"
      /\ at = "wait" \/ wait' = wait
      /\ UNCHANGED << stop_requested, families, query, candidates, raceVars, outcome >>
  BY DEF WaitComplete, WaitCancelled, WaitTimedOut, WaitFailed, CancelQuery, Waited
<1>2. RaceInv' /\ RightCandidate'
  BY <1>1, NotRacing
<1>3. StartTypes'
  BY <1>1, QueryStepTypes DEF StartInv, StartTypes
<1>4. QueryInv'
  BY <1>1 DEF StartInv, QueryInv, Unwanted
<1>. QED  BY <1>2, <1>3, <1>4 DEF StartInv

LEMMA TakeResultStep == ASSUME StartInv, TakeResult PROVE StartInv'
<1>. DEFINE taken == IF stop_requested \/ wait # "complete" THEN NoAnswer ELSE query.addresses
<1>1. /\ at = "result" /\ at' = "select" /\ candidates' = CandidatesOf(taken)
      /\ UNCHANGED << stop_requested, families, query, wait, raceVars, outcome >>
  BY DEF TakeResult, Resolved
<1>2. RaceInv' /\ RightCandidate'
  BY <1>1, NotRacing
<1>3. taken \in [Families -> Seq(Address)]
  BY DEF StartInv, StartTypes, NoAnswer
<1>4. Unwanted => taken = NoAnswer
  BY <1>1 DEF Unwanted
<1>. HIDE DEF taken
<1>5. /\ candidates' \in Seq(Address)
      /\ Unwanted => candidates' = << >>
  BY <1>1, <1>3, <1>4, CandidatesAreLists
<1>6. StartTypes'
  BY <1>1, <1>5, QueryStepTypes DEF StartInv, StartTypes
<1>7. QueryInv'
  BY <1>1, <1>5 DEF StartInv, QueryInv, Unwanted
<1>. QED  BY <1>2, <1>6, <1>7 DEF StartInv

-----------------------------------------------------------------------------
(* The race *)

LEMMA BeginStep == ASSUME StartInv, Begin PROVE StartInv'
<1>1. /\ at' \in { "resolve", "select" } /\ stop_requested' = FALSE /\ query' = NoQuery
      /\ outcome' = NoOutcome /\ worker' = << >> /\ winner' = 0 /\ aborted' = FALSE
      /\ families' \in SUBSET Families
  BY DEF Begin
<1>2. /\ DOMAIN << >> = {}
      /\ << >> \in [DOMAIN << >> -> WorkerStates]
  <2>1. << >> \in Seq(WorkerStates)
    OBVIOUS
  <2>. QED  BY <2>1
<1>3. candidates' \in Seq(Address) /\ (at' = "resolve" => candidates' = << >>)
  <2>1. \A f \in families' : Of(f) \subseteq Address
    BY <1>1, StartAssumption DEF Families, Of
  <2>3. CASE at' = "resolve"
    BY <2>3 DEF Begin
  <2>4. CASE at' # "resolve"
    <3>1. PICK f \in families' : \E a \in Of(f) : candidates' = << a >>
      BY <2>4 DEF Begin
    <3>2. PICK a \in Of(f) : candidates' = << a >>
      BY <3>1
    <3>. QED  BY <2>1, <2>4, <3>2
  <2>. QED  BY <2>3, <2>4
<1>4. StartTypes'
  <2>1. query' \in [ at : { "none", "pending", "complete" }, synchronous : BOOLEAN,
                     addresses : [Families -> Seq(Address)], late : BOOLEAN ]
    BY <1>1 DEF NoQuery, NoAnswer
  <2>2. outcome' \in [ kind : { "none", "cancelled", "unresolved", "failed", "tracing" },
                        index : Nat ]
    BY <1>1 DEF NoOutcome
  <2>3. worker' \in [DOMAIN worker' -> WorkerStates] /\ DOMAIN worker' \subseteq DOMAIN candidates'
    BY <1>1, <1>2
  <2>. QED  BY <1>1, <1>3, <2>1, <2>2, <2>3 DEF StartTypes
<1>5. QueryInv'
  BY <1>1, <1>3 DEF QueryInv, NoQuery, Unwanted
<1>6. RaceInv' /\ RightCandidate'
  BY <1>1, <1>2 DEF RaceInv, RightCandidate, NoOutcome
<1>. QED  BY <1>4, <1>5, <1>6 DEF StartInv

LEMMA RequestStopStep == ASSUME StartInv, RequestStop PROVE StartInv'
<1>1. /\ at # "idle" /\ stop_requested' = TRUE
      /\ UNCHANGED << at, families, query, wait, candidates, worker, winner, aborted, outcome >>
  BY DEF RequestStop, raceVars
<1>2. StartTypes' /\ QueryInv'
  BY <1>1 DEF StartInv, StartTypes, QueryInv, Unwanted
<1>3. RaceInv'
  BY <1>1 DEF StartInv, RaceInv, Joined, Decided
<1>4. RightCandidate'
  BY <1>1 DEF StartInv, RightCandidate, Joined
<1>. QED  BY <1>2, <1>3, <1>4 DEF StartInv

LEMMA SelectStep == ASSUME StartInv, Select PROVE StartInv'
<1>1. /\ at = "select"
      /\ UNCHANGED << stop_requested, families, query, wait, candidates, winner, aborted >>
  BY DEF Select
<1>2. worker = << >> /\ winner = 0 /\ DOMAIN << >> = {} /\ outcome.kind = "none"
  BY <1>1 DEF StartInv, RaceInv, StartTypes
<1>3. query.at # "pending"
  BY <1>1 DEF StartInv, QueryInv, Unwanted
<1>4. CASE UNCHANGED worker
  <2>1. CASE at' = "create"
    \* Two workers at least are there then, and none was before.
    <3>1. worker' = [j \in DOMAIN candidates |-> "new"] /\ Len(candidates) > 1
      BY <2>1 DEF Select, End
    <3>2. DOMAIN worker' = 1 .. Len(candidates) /\ Len(candidates) \in Nat
      BY <3>1 DEF StartInv, StartTypes
    <3>. QED  BY <1>2, <1>4, <3>1, <3>2
  <2>2. CASE at' # "create"
    <3>1. /\ at' = "idle"
          /\ outcome' \in [ kind : { "none", "cancelled", "unresolved", "failed", "tracing" },
                             index : Nat ]
      BY <2>2 DEF Select, End
    <3>2. StartTypes'
      BY <1>1, <1>4, <3>1 DEF StartInv, StartTypes
    <3>3. QueryInv'
      BY <1>1, <1>3, <3>1 DEF StartInv, QueryInv, Unwanted
    <3>4. RaceInv' /\ RightCandidate'
      BY <1>1, <1>2, <1>4, <3>1 DEF RaceInv, RightCandidate
    <3>. QED  BY <3>2, <3>3, <3>4 DEF StartInv
  <2>. QED  BY <2>1, <2>2
<1>5. CASE ~(UNCHANGED worker)
  <2>1. worker' = [j \in DOMAIN candidates |-> "new"] /\ at' = "create" /\ outcome' = outcome
    BY <1>5 DEF Select
  <2>2. \A j \in DOMAIN worker' : worker'[j] = "new"
    BY <2>1
  <2>3. StartTypes'
    BY <1>1, <2>1 DEF StartInv, StartTypes, WorkerStates
  <2>4. QueryInv'
    BY <1>1, <1>3, <2>1 DEF StartInv, QueryInv, Unwanted
  <2>5. RaceInv'
    BY <1>1, <1>2, <2>1, <2>2 DEF RaceInv
  <2>6. RightCandidate'
    BY <1>2, <2>1 DEF RightCandidate
  <2>. QED  BY <2>3, <2>4, <2>5, <2>6 DEF StartInv
<1>. QED  BY <1>4, <1>5

\* While workers are created or joined, there is no outcome.
LEMMA RaceHasNoOutcome ==
  ASSUME StartInv, at \in { "create", "join" }
  PROVE  outcome.kind = "none"
BY DEF StartInv, RaceInv, StartTypes

LEMMA CreateWorkerStep == ASSUME StartInv, CreateWorker PROVE StartInv'
<1>1. /\ at = "create" /\ at' \in { "create", "join" }
      /\ UNCHANGED << stop_requested, families, query, wait, candidates, winner, outcome >>
  BY DEF CreateWorker
<1>2. PICK i \in DOMAIN worker :
        /\ Creatable(i)
        /\ \/ /\ worker' = [worker EXCEPT ![i] = "waiting"]
              /\ at' = IF i = Len(candidates) THEN "join" ELSE "create"
              /\ UNCHANGED aborted
           \/ aborted' = TRUE /\ at' = "join" /\ UNCHANGED worker
  BY DEF CreateWorker
<1>3. worker[i] = "new"
  BY <1>2 DEF Creatable
<1>4. /\ worker' \in [DOMAIN worker -> WorkerStates] /\ DOMAIN worker' = DOMAIN worker
      /\ \A j \in DOMAIN worker : worker'[j] = worker[j] \/ (j = i /\ worker'[j] = "waiting")
  BY <1>2 DEF StartInv, StartTypes, WorkerStates
<1>5. StartTypes'
  BY <1>1, <1>2, <1>4 DEF StartInv, StartTypes
<1>6. QueryInv'
  BY <1>1 DEF StartInv, QueryInv, Unwanted
<1>7. at' = "join" => aborted' \/ \A j \in DOMAIN worker' : worker'[j] # "new"
  <2>1. CASE worker' = [worker EXCEPT ![i] = "waiting"] /\ i = Len(candidates)
    <3>1. \A j \in DOMAIN worker : j \in 1 .. Len(candidates) /\ Len(candidates) \in Nat
      BY DEF StartInv, StartTypes
    <3>2. \A j \in DOMAIN worker : j = i \/ j \in 1 .. i - 1
      BY <2>1, <3>1
    <3>3. \A j \in 1 .. i - 1 : worker[j] # "new"
      BY <1>2 DEF Creatable
    <3>. QED  BY <1>4, <2>1, <3>2, <3>3
  <2>. QED  BY <1>2, <2>1
<1>8. RaceInv'
  <2>1. Decided => Decided'
    BY <1>1, <1>2 DEF Decided
  <2>2. winner # 0 => winner # i
    BY <1>3 DEF StartInv, RaceInv
  <2>3. outcome.kind = "none"
    BY <1>1, RaceHasNoOutcome
  <2>. QED  BY <1>1, <1>3, <1>4, <1>7, <2>1, <2>2, <2>3 DEF StartInv, RaceInv
<1>9. RightCandidate'
  BY <1>1, RaceHasNoOutcome DEF RightCandidate
<1>. QED  BY <1>5, <1>6, <1>8, <1>9 DEF StartInv

\* A worker that is under way takes a step: the race is not over.
LEMMA WorkerStep ==
  ASSUME StartInv, NEW i \in DOMAIN worker,
         worker[i] \in { "waiting", "probing", "answered" },
         NEW next \in { "probing", "answered", "silent", "recorded", "quit" },
         worker' = [worker EXCEPT ![i] = next],
         next = "quit" => Decided,
         winner' = IF next = "recorded" /\ winner = 0 THEN i ELSE winner,
         UNCHANGED << stop_requested, at, families, query, wait, candidates, aborted, outcome >>
  PROVE  StartInv'
<1>1. at \in { "create", "join" }
  <2>1. DOMAIN << >> = {}
    OBVIOUS
  <2>2. worker # << >>
    BY <2>1
  <2>3. ~ Joined(i)
    BY DEF Joined
  <2>. QED  BY <2>2, <2>3 DEF StartInv, RaceInv
<1>2. /\ worker' \in [DOMAIN worker -> WorkerStates] /\ DOMAIN worker' = DOMAIN worker
      /\ \A j \in DOMAIN worker : worker'[j] = IF j = i THEN next ELSE worker[j]
  BY DEF StartInv, StartTypes, WorkerStates
<1>3. i # 0
  BY DEF StartInv, StartTypes
<1>4. StartTypes'
  BY <1>2 DEF StartInv, StartTypes
<1>5. QueryInv'
  BY DEF StartInv, QueryInv, Unwanted
<1>6. outcome.kind = "none"
  BY <1>1, RaceHasNoOutcome
<1>7. RaceInv'
  <2>1. Decided => Decided'
    BY <1>3 DEF Decided
  <2>2. winner' # 0 => winner' \in DOMAIN worker' /\ worker'[winner'] = "recorded"
    BY <1>2, <1>3 DEF StartInv, RaceInv
  <2>3. \A j \in DOMAIN worker' : worker'[j] = "recorded" => winner' # 0
    BY <1>2, <1>3 DEF StartInv, RaceInv
  <2>4. \A j \in DOMAIN worker' : worker'[j] = "quit" => Decided'
    BY <1>2, <2>1 DEF StartInv, RaceInv
  <2>5. at' # "create" => \A j \in DOMAIN worker' : worker'[j] = "new" => aborted'
    BY <1>2 DEF StartInv, RaceInv
  <2>. QED  BY <1>1, <1>6, <2>2, <2>3, <2>4, <2>5 DEF RaceInv
<1>8. RightCandidate'
  BY <1>6 DEF RightCandidate
<1>. QED  BY <1>4, <1>5, <1>7, <1>8 DEF StartInv

LEMMA WorkersStep ==
  ASSUME StartInv, NEW i \in DOMAIN worker,
         WakeEarly(i) \/ HeadStartOver(i) \/ ProbeEnds(i) \/ Record(i)
  PROVE  StartInv'
<1>1. CASE WakeEarly(i)
  BY <1>1, WorkerStep DEF WakeEarly
<1>2. CASE HeadStartOver(i)
  BY <1>2, WorkerStep DEF HeadStartOver
<1>3. CASE ProbeEnds(i)
  BY <1>3, WorkerStep DEF ProbeEnds
<1>4. CASE Record(i)
  BY <1>4, WorkerStep DEF Record
<1>. QED  BY <1>1, <1>2, <1>3, <1>4

LEMMA JoinStep == ASSUME StartInv, Join PROVE StartInv'
<1>1. /\ at = "join" /\ at' = "idle" /\ \A i \in DOMAIN worker : Joined(i)
      /\ UNCHANGED << stop_requested, families, query, wait, candidates, worker, winner, aborted >>
  BY DEF Join, End, raceVars
<1>2. outcome' = IF stop_requested THEN [ kind |-> "cancelled", index |-> 0 ]
                 ELSE [ kind |-> "tracing", index |-> IF winner = 0 THEN 1 ELSE winner ]
  BY DEF Join, End
<1>3. winner # 0 => winner \in Nat
  BY DEF StartInv, StartTypes, RaceInv
<1>4. outcome' \in [ kind : { "none", "cancelled", "unresolved", "failed", "tracing" },
                     index : Nat ]
  BY <1>2, <1>3
<1>5. StartTypes'
  BY <1>1, <1>4 DEF StartInv, StartTypes
<1>6. QueryInv'
  BY <1>1 DEF StartInv, QueryInv, Unwanted
<1>7. RaceInv'
  BY <1>1 DEF StartInv, RaceInv, Joined, Decided
<1>8. RightCandidate'
  <2>. SUFFICES ASSUME outcome'.kind = "tracing"
                PROVE  /\ \A i \in DOMAIN worker : Joined(i)
                       /\ \/ worker[outcome'.index] = "recorded"
                          \/ /\ outcome'.index = 1
                             /\ \A i \in DOMAIN worker : worker[i] # "recorded"
                             /\ aborted \/ \A i \in DOMAIN worker : worker[i] = "silent"
    BY <1>1 DEF RightCandidate, Joined
  <2>1. ~ stop_requested /\ outcome'.index = IF winner = 0 THEN 1 ELSE winner
    BY <1>2 DEF StartInv, StartTypes
  <2>2. CASE winner # 0
    BY <1>1, <2>1, <2>2 DEF StartInv, RaceInv
  <2>3. CASE winner = 0
    <3>1. \A i \in DOMAIN worker : worker[i] # "recorded"
      BY <2>3 DEF StartInv, RaceInv
    <3>2. ASSUME ~ aborted, NEW i \in DOMAIN worker PROVE worker[i] = "silent"
      BY <1>1, <2>1, <2>3, <3>1, <3>2 DEF StartInv, RaceInv, Joined, Decided
    <3>. QED  BY <1>1, <2>1, <2>3, <3>1, <3>2
  <2>. QED  BY <2>2, <2>3
<1>. QED  BY <1>5, <1>6, <1>7, <1>8 DEF StartInv

-----------------------------------------------------------------------------
(* The theorems *)

LEMMA StartStep == StartInv /\ [StartNext]_startVars => StartInv'
<1>. SUFFICES ASSUME StartInv, [StartNext]_startVars PROVE StartInv'
  OBVIOUS
<1>1. CASE UNCHANGED startVars
  BY <1>1 DEF startVars, raceVars, StartInv, StartTypes, QueryInv, Unwanted, RaceInv, RightCandidate,
              Joined, Decided
<1>2. CASE StartNext
  BY <1>2, BeginStep, RequestStopStep, StartQueryStep, QueryCompletesStep, WaitStep,
     TakeResultStep, SelectStep, CreateWorkerStep, WorkersStep, JoinStep DEF StartNext
<1>. QED  BY <1>1, <1>2

\* A stopped trace never takes an answer that came after the stop, and a query
\* is over when ResolveAddressesWithDeadline() returns.
THEOREM AnswerAlwaysInTime == StartSpec => []AnswerInTime
<1>1. StartInv => AnswerInTime
  BY DEF StartInv, QueryInv, AnswerInTime
<1>. QED  BY <1>1, StartInitInv, StartStep, PTL DEF StartSpec

\* SelectCandidate() returns a candidate that answered, or the first one when
\* none did; and its workers are gone.
THEOREM CandidateIsRight == StartSpec => []RightCandidate
<1>1. StartInv => RightCandidate
  BY DEF StartInv
<1>. QED  BY <1>1, StartInitInv, StartStep, PTL DEF StartSpec

-----------------------------------------------------------------------------
\* ReportFile
OnDisk(file) == file.on_disk = MaxPieces /\ file.written = MaxPieces

\* The temporary file is on the disk when it is to be moved.
FlushedBeforeMove ==
  /\ exporter.at = "move" => OnDisk(temporary)
  /\ exporter.at = "close" /\ ~exporter.failed => OnDisk(temporary)
  /\ exporter.at \in { "create", "write" } => ~exporter.failed

ReportInv ==
  /\ ReportTypeOK
  /\ temporary.on_disk <= temporary.written
  /\ target = NoFile \/ OnDisk(target)
  /\ FlushedBeforeMove

LEMMA ReportInitInv == ReportInit => ReportInv
BY ReportAssumption DEF ReportInit, ReportInv, ReportTypeOK, FlushedBeforeMove, NoFile, File, Steps

\* What Goto and Fail do to the exporter.
LEMMA GotoFail ==
  ASSUME ReportTypeOK, NEW step \in Steps
  PROVE  /\ Goto(step) \/ Fail(step) =>
              /\ exporter' \in [ at : Steps, report : 0 .. MaxReports, failed : BOOLEAN ]
              /\ exporter'.at = step
         /\ Goto(step) => exporter'.failed = exporter.failed
         /\ Fail(step) => exporter'.failed = TRUE
BY DEF ReportTypeOK, Goto, Fail

LEMMA ReportStep == ReportInv /\ [ReportNext]_reportVars => ReportInv'
<1>. SUFFICES ASSUME ReportInv, [ReportNext]_reportVars PROVE ReportInv'
  OBVIOUS
<1>. USE ReportAssumption
<1>a. NoFile \in File /\ NoFile.on_disk <= NoFile.written
  BY DEF NoFile, File
<1>b. /\ ReportTypeOK /\ temporary \in File /\ target \in File
      /\ exporter \in [ at : Steps, report : 0 .. MaxReports, failed : BOOLEAN ]
      /\ temporary.on_disk <= temporary.written
      /\ target = NoFile \/ OnDisk(target)
      /\ FlushedBeforeMove
  BY DEF ReportInv, ReportTypeOK
<1>c. { "write", "delete", "close", "move", "idle", "create" } \subseteq Steps
  BY DEF Steps
<1>1. CASE UNCHANGED reportVars
  BY <1>1 DEF reportVars, ReportInv, ReportTypeOK, FlushedBeforeMove, OnDisk
<1>2. CASE Export
  <2>1. /\ exporter' \in [ at : Steps, report : 0 .. MaxReports, failed : BOOLEAN ]
        /\ exporter'.at \in { "idle", "create" }
        /\ exporter'.at = "create" => ~exporter'.failed
    <3>1. exporter.report + 1 \in 0 .. MaxReports /\ "create" \in Steps /\ "idle" \in Steps
      BY <1>2, <1>b, <1>c DEF Export
    <3>2. CASE exporter' = [ at |-> "create", report |-> exporter.report + 1, failed |-> FALSE ]
      BY <3>1, <3>2
    <3>3. CASE exporter' = [exporter EXCEPT !.report = @ + 1]
      <4>1. exporter'.at = "idle"
        BY <1>2, <1>b, <3>3 DEF Export
      <4>. QED  BY <1>b, <3>1, <3>3, <4>1
    <3>. QED  BY <1>2, <3>2, <3>3 DEF Export
  <2>2. temporary' \in File /\ temporary'.on_disk <= temporary'.written /\ target' = target
    <3>1. [NoFile EXCEPT !.report = exporter.report + 1]
            = [ report |-> exporter.report + 1, written |-> 0, on_disk |-> 0 ]
      BY DEF NoFile
    <3>. QED  BY <1>2, <1>b, <3>1 DEF Export, File
  <2>. QED  BY <1>b, <2>1, <2>2 DEF ReportInv, ReportTypeOK, FlushedBeforeMove
<1>3. CASE CreateFileW
  BY <1>3, <1>b, <1>c, GotoFail DEF CreateFileW, ReportInv, ReportTypeOK, FlushedBeforeMove
<1>4. CASE WriteFile
  <2>1. CASE UNCHANGED exporter
    <3>1. PICK n \in temporary.written + 1 .. MaxPieces :
            temporary' = [temporary EXCEPT !.written = n]
      BY <1>4, <1>b, <1>c, <2>1, GotoFail DEF WriteFile
    <3>2. temporary' \in File /\ temporary'.on_disk <= temporary'.written
      BY <1>b, <3>1 DEF File
    <3>. QED  BY <1>4, <1>b, <2>1, <3>2 DEF WriteFile, ReportInv, ReportTypeOK, FlushedBeforeMove
  <2>2. CASE Fail("close") /\ UNCHANGED temporary
    BY <1>4, <1>b, <1>c, <2>2, GotoFail DEF WriteFile, ReportInv, ReportTypeOK, FlushedBeforeMove
  <2>. QED  BY <1>4, <2>1, <2>2 DEF WriteFile
<1>5. CASE FlushFileBuffers
  <2>1. CASE Goto("close") /\ temporary' = [temporary EXCEPT !.on_disk = temporary.written]
    <3>1. temporary' \in File /\ temporary'.on_disk <= temporary'.written /\ OnDisk(temporary')
      BY <1>5, <1>b, <2>1 DEF FlushFileBuffers, Whole, File, OnDisk
    <3>. QED  BY <1>5, <1>b, <1>c, <2>1, <3>1, GotoFail
              DEF FlushFileBuffers, ReportInv, ReportTypeOK, FlushedBeforeMove
  <2>2. CASE Fail("close") /\ UNCHANGED temporary
    BY <1>5, <1>b, <1>c, <2>2, GotoFail
    DEF FlushFileBuffers, ReportInv, ReportTypeOK, FlushedBeforeMove
  <2>. QED  BY <1>5, <2>1, <2>2 DEF FlushFileBuffers
<1>6. CASE CloseHandle
  <2>1. CASE exporter.failed
    BY <1>6, <1>b, <1>c, <2>1, GotoFail
    DEF CloseHandle, ReportInv, ReportTypeOK, FlushedBeforeMove
  <2>2. CASE ~exporter.failed
    BY <1>6, <1>b, <1>c, <2>2, GotoFail
    DEF CloseHandle, ReportInv, ReportTypeOK, FlushedBeforeMove
  <2>. QED  BY <2>1, <2>2
<1>7. CASE MoveFileExW
  BY <1>7, <1>a, <1>b, <1>c, GotoFail
  DEF MoveFileExW, ReportInv, ReportTypeOK, FlushedBeforeMove
<1>8. CASE DeleteFileW
  BY <1>8, <1>a, <1>b, <1>c, GotoFail DEF DeleteFileW, ReportInv, ReportTypeOK, FlushedBeforeMove
<1>9. CASE WriteBack
  <2>1. CASE temporary.on_disk < temporary.written
    <3>1. ~OnDisk(temporary)
      BY <1>b, <2>1 DEF OnDisk, File
    <3>2. CASE UNCHANGED target
      <4>1. /\ temporary' = [temporary EXCEPT !.on_disk = @ + 1] \/ temporary' = temporary
            /\ UNCHANGED exporter
        BY <1>9 DEF WriteBack
      <4>2. temporary' \in File /\ temporary'.on_disk <= temporary'.written
        BY <1>b, <2>1, <4>1 DEF File
      <4>. QED  BY <1>b, <3>1, <3>2, <4>1, <4>2 DEF ReportInv, ReportTypeOK, FlushedBeforeMove
    <3>3. CASE ~(UNCHANGED target)
      BY <1>9, <1>b, <3>3 DEF WriteBack, OnDisk, NoFile, File
    <3>. QED  BY <3>2, <3>3
  <2>2. CASE ~(temporary.on_disk < temporary.written)
    BY <1>9, <1>b, <2>2 DEF WriteBack, OnDisk, NoFile, File
  <2>. QED  BY <2>1, <2>2
<1>10. CASE ExporterEnds
  BY <1>10, <1>b, <1>c, GotoFail DEF ExporterEnds, ReportInv, ReportTypeOK, FlushedBeforeMove
<1>11. CASE PowerFails
  <2>1. /\ temporary' \in File /\ temporary'.on_disk <= temporary'.written
        /\ target' \in File /\ (target' = NoFile \/ OnDisk(target'))
    <3>1. target' = target
      BY <1>11, <1>b DEF PowerFails, OnDisk, NoFile, File
    <3>. QED  BY <1>11, <1>b, <3>1 DEF PowerFails, File
  <2>. QED  BY <1>11, <1>b, <1>c, <2>1, GotoFail
            DEF PowerFails, ReportInv, ReportTypeOK, FlushedBeforeMove
<1>. QED  BY <1>1, <1>2, <1>3, <1>4, <1>5, <1>6, <1>7, <1>8, <1>9, <1>10, <1>11 DEF ReportNext

\* Whatever fails, and whenever the process ends or the power goes, the report
\* the user chose to write over is whole.
THEOREM ReportAlwaysWhole == ReportSpec => []ReportIsWhole
<1>1. ReportInv => ReportIsWhole
  BY DEF ReportInv, ReportIsWhole, OnDisk, Whole
<1>. QED  BY <1>1, ReportInitInv, ReportStep, PTL DEF ReportSpec

-----------------------------------------------------------------------------
(* The lists of the history *)

Distinct(s) == \A i, j \in DOMAIN s : s[i] = s[j] => i = j

\* What Lists holds, as sequences.
LEMMA ListsAre ==
  ASSUME NEW s
  PROVE  s \in Lists <=> s \in Seq(Host) /\ Len(s) <= MAX_MAX_LRU /\ Distinct(s)
<1>. USE HistoryAssumption
<1>1. ASSUME s \in Lists PROVE s \in Seq(Host) /\ Len(s) <= MAX_MAX_LRU /\ Distinct(s)
  <2>1. PICK n \in 0 .. MAX_MAX_LRU : s \in [1 .. n -> Host]
    BY <1>1 DEF Lists
  <2>2. n \in Nat /\ n <= MAX_MAX_LRU
    OBVIOUS
  <2>3. s \in Seq(Host) /\ Len(s) = n
    BY <2>1, <2>2
  <2>. QED  BY <1>1, <2>2, <2>3 DEF Lists, Distinct
<1>2. ASSUME s \in Seq(Host), Len(s) <= MAX_MAX_LRU, Distinct(s) PROVE s \in Lists
  <2>1. Len(s) \in 0 .. MAX_MAX_LRU /\ s \in [1 .. Len(s) -> Host]
    BY <1>2
  <2>2. s \in UNION { [1 .. n -> Host] : n \in 0 .. MAX_MAX_LRU }
    BY <2>1
  <2>. QED  BY <1>2, <2>2 DEF Lists, Distinct
<1>. QED  BY <1>1, <1>2

\* keepNewest() returns a list within the limit, of hosts that were there.
LEMMA KeepNewestLists ==
  ASSUME NEW s \in Seq(Host), Distinct(s), NEW limit \in Limit
  PROVE  /\ keepNewest(s, limit) \in Lists
         /\ \A k \in DOMAIN keepNewest(s, limit) :
              \E j \in DOMAIN s : keepNewest(s, limit)[k] = s[j]
<1>. USE HistoryAssumption
<1>. DEFINE r == keepNewest(s, limit)
<1>1. limit \in Nat /\ 1 <= limit /\ limit <= MAX_MAX_LRU
  BY DEF Limit, Index
<1>2. CASE Len(s) > limit
  <2>1. r = SubSeq(s, Len(s) - limit + 1, Len(s))
    BY <1>2 DEF keepNewest
  <2>2. r \in Seq(Host) /\ Len(r) = limit
    BY <1>1, <1>2, <2>1
  <2>3. \A k \in 1 .. limit : r[k] = s[k + Len(s) - limit] /\ k + Len(s) - limit \in 1 .. Len(s)
    BY <1>1, <1>2, <2>1
  <2>. HIDE DEF r
  <2>4. Distinct(r)
    <3>. SUFFICES ASSUME NEW a \in 1 .. limit, NEW b \in 1 .. limit, r[a] = r[b]
                  PROVE  a = b
      BY <2>2 DEF Distinct
    <3>1. s[a + Len(s) - limit] = s[b + Len(s) - limit]
      BY <2>3
    <3>2. a + Len(s) - limit = b + Len(s) - limit
      BY <2>3, <3>1 DEF Distinct
    <3>3. Len(s) \in Int /\ limit \in Int /\ a \in Int /\ b \in Int
      BY <1>1
    <3>. QED  BY <3>2, <3>3
  <2>5. \A k \in DOMAIN r : \E j \in DOMAIN s : r[k] = s[j]
    BY <2>2, <2>3
  <2>6. r \in Lists
    BY <1>1, <2>2, <2>4, ListsAre
  <2>. QED  BY <2>5, <2>6 DEF r
<1>3. CASE ~(Len(s) > limit)
  <2>1. r = s
    BY <1>3 DEF keepNewest
  <2>2. Len(s) <= MAX_MAX_LRU
    BY <1>1, <1>3
  <2>. QED  BY <2>1, <2>2, ListsAre
<1>. QED  BY <1>2, <1>3

\* A host is taken out of a list, and is put at its end.
LEMMA MovedToEnd ==
  ASSUME NEW s \in Lists, NEW h \in Host
  PROVE  LET r == Append(Without(s, h), h)
         IN  /\ r \in Seq(Host) /\ Distinct(r)
             /\ \A k \in DOMAIN r : r[k] = h \/ \E j \in DOMAIN s : r[k] = s[j]
<1>. DEFINE w == Without(s, h)
            r == Append(w, h)
<1>1. s \in Seq(Host) /\ Distinct(s) /\ Len(s) \in Nat /\ DOMAIN s = 1 .. Len(s)
  BY ListsAre
<1>2. /\ w \in Seq(Host) /\ Distinct(w)
      /\ \A k \in DOMAIN w : w[k] # h /\ \E j \in DOMAIN s : w[k] = s[j]
  <2>1. CASE \E k \in DOMAIN s : s[k] = h
    <3>. DEFINE c == CHOOSE k \in DOMAIN s : s[k] = h
                a == SubSeq(s, 1, c - 1)
                b == SubSeq(s, c + 1, Len(s))
    <3>1. c \in 1 .. Len(s) /\ s[c] = h
      BY <1>1, <2>1
    <3>2. w = a \o b
      BY <2>1 DEF Without, RemoveAt
    <3>. HIDE DEF c
    <3>3. /\ a \in Seq(Host) /\ Len(a) = c - 1
          /\ \A k \in 1 .. c - 1 : a[k] = s[k]
      BY <1>1, <3>1
    <3>4. /\ b \in Seq(Host) /\ Len(b) = Len(s) - c
          /\ \A k \in 1 .. Len(s) - c : b[k] = s[k + c]
      <4>1. c + 1 \in 1 .. Len(s) + 1 /\ Len(s) \in (c + 1) - 1 .. Len(s)
        BY <1>1, <3>1
      <4>2. /\ b \in Seq(Host) /\ Len(b) = Len(s) - (c + 1) + 1
            /\ \A k \in 1 .. Len(s) - (c + 1) + 1 : b[k] = s[c + 1 + k - 1]
        BY <1>1, <4>1, SubSeqProperties
      <4>3. \A k \in 1 .. Len(s) - c : c + 1 + k - 1 = k + c
        BY <1>1, <3>1
      <4>4. Len(s) - (c + 1) + 1 = Len(s) - c
        BY <1>1, <3>1
      <4>. QED  BY <4>2, <4>3, <4>4
    <3>. HIDE DEF a, b, w
    <3>5. w \in Seq(Host) /\ Len(w) = Len(s) - 1 /\ DOMAIN w = 1 .. Len(s) - 1
      <4>1. w \in Seq(Host) /\ Len(w) = Len(a) + Len(b)
        BY <3>2, <3>3, <3>4, ConcatProperties
      <4>2. c - 1 + (Len(s) - c) = Len(s) - 1
        BY <1>1, <3>1
      <4>. QED  BY <3>3, <3>4, <4>1, <4>2
    <3>6. \A k \in 1 .. Len(s) - 1 : w[k] = IF k < c THEN a[k] ELSE b[k - (c - 1)]
      BY <1>1, <3>1, <3>2, <3>3, <3>4
    <3>7. \A k \in 1 .. Len(s) - 1 : w[k] = IF k < c THEN s[k] ELSE s[k + 1]
      <4>1. ASSUME NEW k \in 1 .. Len(s) - 1, k < c PROVE w[k] = s[k]
        BY <1>1, <3>1, <3>3, <3>6, <4>1
      <4>2. ASSUME NEW k \in 1 .. Len(s) - 1, ~(k < c) PROVE w[k] = s[k + 1]
        <5>1. k - (c - 1) \in 1 .. Len(s) - c /\ k - (c - 1) + c = k + 1
          BY <1>1, <3>1, <4>2
        <5>. QED  BY <3>4, <3>6, <4>2, <5>1
      <4>. QED  BY <4>1, <4>2
    <3>8. \A k \in DOMAIN w : w[k] # h /\ \E j \in DOMAIN s : w[k] = s[j]
      <4>. SUFFICES ASSUME NEW k \in 1 .. Len(s) - 1
                    PROVE  \E j \in 1 .. Len(s) : j # c /\ w[k] = s[j]
        BY <1>1, <3>1, <3>5 DEF Distinct
      <4>1. CASE k < c
        BY <1>1, <3>7, <4>1
      <4>2. CASE ~(k < c)
        <5>1. k + 1 \in 1 .. Len(s) /\ k + 1 # c
          BY <1>1, <3>1, <4>2
        <5>. QED  BY <3>7, <4>2, <5>1
      <4>. QED  BY <4>1, <4>2
    <3>9. Distinct(w)
      <4>. SUFFICES ASSUME NEW i \in 1 .. Len(s) - 1, NEW j \in 1 .. Len(s) - 1, w[i] = w[j]
                    PROVE  i = j
        BY <3>5 DEF Distinct
      <4>1. \A k, l \in 1 .. Len(s) : s[k] = s[l] => k = l
        BY <1>1 DEF Distinct
      <4>2. i \in 1 .. Len(s) /\ i + 1 \in 1 .. Len(s) /\ j \in 1 .. Len(s) /\ j + 1 \in 1 .. Len(s)
        BY <1>1
      <4>3. CASE i < c /\ j < c
        BY <3>7, <4>1, <4>2, <4>3
      <4>4. CASE ~(i < c) /\ ~(j < c)
        BY <3>7, <4>1, <4>2, <4>4
      <4>5. CASE i < c /\ ~(j < c)
        <5>1. i = j + 1
          BY <3>7, <4>1, <4>2, <4>5
        <5>. QED  BY <1>1, <3>1, <4>5, <5>1
      <4>6. CASE ~(i < c) /\ j < c
        <5>1. i + 1 = j
          BY <3>7, <4>1, <4>2, <4>6
        <5>. QED  BY <1>1, <3>1, <4>6, <5>1
      <4>. QED  BY <4>3, <4>4, <4>5, <4>6
    <3>. QED  BY <3>5, <3>8, <3>9
  <2>2. CASE ~ \E k \in DOMAIN s : s[k] = h
    <3>1. w = s
      BY <2>2 DEF Without
    <3>. QED  BY <1>1, <2>2, <3>1
  <2>. QED  BY <2>1, <2>2
<1>. HIDE DEF w
<1>3. /\ r \in Seq(Host) /\ Len(r) = Len(w) + 1 /\ DOMAIN r = 1 .. Len(w) + 1
      /\ \A k \in 1 .. Len(w) + 1 : r[k] = IF k = Len(w) + 1 THEN h ELSE w[k]
      /\ Len(w) \in Nat /\ DOMAIN w = 1 .. Len(w)
  BY <1>2
<1>. HIDE DEF r
<1>4. \A k \in 1 .. Len(w) : w[k] # h /\ r[k] = w[k]
  BY <1>2, <1>3
<1>5. Distinct(r)
  BY <1>2, <1>3, <1>4 DEF Distinct
<1>6. \A k \in DOMAIN r : r[k] = h \/ \E j \in DOMAIN s : r[k] = s[j]
  BY <1>2, <1>3
<1>. QED  BY <1>3, <1>5, <1>6 DEF r, w

-----------------------------------------------------------------------------
(* The history *)

PersistType ==
  [ at : { "closed", "idle", "save", "delete", "write" }, index : 1 .. MAX_MAX_LRU + 1,
    oldCount : 0 .. MAX_MAX_LRU, hosts : Lists, session : Lists, clears : BOOLEAN ]

\* Only hosts that were entered are counted in the registry, are in the dialog's
\* copy, or are to be written.
EnteredOnly ==
  /\ \A i \in 1 .. HistoryCount : HistoryHost[i] # NoHost => HistoryHost[i] \in entered
  /\ \A k \in DOMAIN sessionHistory : sessionHistory[k] \in entered
  /\ persist.at \in { "delete", "write" } =>
       /\ \A k \in DOMAIN persist.hosts : persist.hosts[k] \in entered
       /\ \A k \in DOMAIN persist.session : persist.session[k] \in entered
       /\ persist.clears => persist.hosts = << >> /\ persist.session = << >>
  /\ persist.at = "write" =>
       \A i \in 1 .. persist.index - 1 : i \in Index => HistoryHost[i] \in entered

HistoryInv == HistoryTypeOK /\ EnteredOnly

LEMMA EmptyList == << >> \in Lists /\ DOMAIN << >> = {}
<1>1. << >> \in Seq(Host) /\ Len(<< >>) = 0 /\ DOMAIN << >> = {}
  OBVIOUS
<1>2. Distinct(<< >>)
  BY <1>1 DEF Distinct
<1>3. 0 <= MAX_MAX_LRU
  BY HistoryAssumption
<1>. QED  BY <1>1, <1>2, <1>3, ListsAre

LEMMA AtType ==
  ASSUME NEW place \in { "closed", "idle", "save" }
  PROVE  At(place) \in PersistType /\ At(place).at = place
BY EmptyList, HistoryAssumption DEF At, PersistType

LEMMA HistoryInitInv == HistoryInit => HistoryInv
<1>. SUFFICES ASSUME HistoryInit PROVE HistoryInv
  OBVIOUS
<1>. USE HistoryAssumption
<1>1. persist \in PersistType /\ persist.at = "closed"
  BY AtType DEF HistoryInit
<1>2. HistoryTypeOK
  BY <1>1, EmptyList DEF HistoryInit, HistoryTypeOK, PersistType, Limit, Index
<1>3. EnteredOnly
  BY <1>1, EmptyList DEF HistoryInit, EnteredOnly
<1>. QED  BY <1>2, <1>3 DEF HistoryInv

\* persistHistory() begins: nothing is written yet.
LEMMA PersistBegins ==
  ASSUME HistoryInv, NEW hosts \in Lists, NEW session \in Lists, NEW clears \in BOOLEAN,
         persistHistory(hosts, session, clears),
         clears => hosts = << >> /\ session = << >>,
         \A k \in DOMAIN hosts : hosts[k] \in entered',
         \A k \in DOMAIN session : session[k] \in entered',
         MaxLRU' \in Limit, historyLimit' \in Limit, persistentHistoryLimit' \in Limit,
         UNCHANGED << HistoryCount, HistoryHost >>,
         sessionHistory' \in Lists,
         \A k \in DOMAIN sessionHistory' : sessionHistory'[k] \in entered',
         entered \subseteq entered', entered' \subseteq Host
  PROVE  HistoryInv'
<1>. USE HistoryAssumption
<1>1. /\ persist' = [ at |-> "delete", index |-> 1, oldCount |-> HistoryCount,
                      hosts |-> hosts, session |-> session, clears |-> clears ]
      /\ previous' \in Lists
  BY DEF persistHistory
<1>2. HistoryCount \in 0 .. MAX_MAX_LRU /\ HistoryHost \in [Index -> Host \cup {NoHost}]
  BY DEF HistoryInv, HistoryTypeOK
<1>3. persist' \in PersistType
  BY <1>1, <1>2 DEF PersistType
<1>4. HistoryTypeOK'
  BY <1>1, <1>2, <1>3 DEF HistoryTypeOK, PersistType
<1>5. \A i \in 1 .. HistoryCount : HistoryHost[i] # NoHost => HistoryHost[i] \in entered
  BY DEF HistoryInv, EnteredOnly
<1>6. EnteredOnly'
  BY <1>1, <1>5 DEF EnteredOnly
<1>. QED  BY <1>4, <1>6 DEF HistoryInv

\* What is loaded has been entered.
LEMMA LoadedIsEntered ==
  ASSUME HistoryInv, NEW hosts \in Lists, loadPersistedHistory(hosts)
  PROVE  \A k \in DOMAIN hosts : hosts[k] \in entered
BY DEF loadPersistedHistory, Stored, HistoryInv, EnteredOnly

\* The newest of a list of hosts that were entered are such a list.
LEMMA NewestEntered ==
  ASSUME NEW s \in Lists, NEW limit \in Limit, NEW E,
         \A k \in DOMAIN s : s[k] \in E
  PROVE  /\ keepNewest(s, limit) \in Lists
         /\ \A k \in DOMAIN keepNewest(s, limit) : keepNewest(s, limit)[k] \in E
BY ListsAre, KeepNewestLists

LEMMA InitRegistryStep == ASSUME HistoryInv, InitRegistry PROVE HistoryInv'
<1>1. PICK hosts \in Lists :
        /\ loadPersistedHistory(hosts)
        /\ persistHistory(keepNewest(hosts, MaxLRU), keepNewest(hosts, MaxLRU), FALSE)
  BY DEF InitRegistry
<1>2. MaxLRU \in Limit /\ entered \subseteq Host /\ sessionHistory \in Lists
  BY DEF HistoryInv, HistoryTypeOK
<1>3. /\ historyLimit' = MaxLRU /\ persistentHistoryLimit' = MaxLRU
      /\ UNCHANGED << MaxLRU, HistoryCount, HistoryHost, sessionHistory, entered >>
  BY DEF InitRegistry, registryVars
<1>4. \A k \in DOMAIN hosts : hosts[k] \in entered
  BY <1>1, LoadedIsEntered
<1>. DEFINE r == keepNewest(hosts, MaxLRU)
<1>5. r \in Lists /\ \A k \in DOMAIN r : r[k] \in entered
  BY <1>2, <1>4, NewestEntered
<1>. HIDE DEF r
<1>6. persistHistory(r, r, FALSE)
  BY <1>1 DEF r
<1>7. \A k \in DOMAIN sessionHistory : sessionHistory[k] \in entered
  BY DEF HistoryInv, EnteredOnly
<1>. QED  BY <1>2, <1>3, <1>5, <1>6, <1>7, PersistBegins

LEMMA SessionLimitType ==
  ASSUME historyLimit \in Limit, persistentHistoryLimit \in Limit
  PROVE  sessionLimit \in Limit
BY DEF sessionLimit

LEMMA InitRegistryLimitedStep == ASSUME HistoryInv, InitRegistryLimited PROVE HistoryInv'
<1>1. PICK hosts \in Lists :
        loadPersistedHistory(hosts) /\ sessionHistory' = keepNewest(hosts, sessionLimit')
  BY DEF InitRegistryLimited
<1>2. /\ historyLimit' \in Limit /\ persistentHistoryLimit' \in Limit
      /\ persist' = At("idle")
      /\ UNCHANGED << MaxLRU, HistoryCount, HistoryHost, previous, entered >>
  BY DEF InitRegistryLimited, registryVars, HistoryInv, HistoryTypeOK
<1>3. sessionLimit' \in Limit
  BY <1>2 DEF sessionLimit
<1>4. sessionHistory' \in Lists /\ \A k \in DOMAIN sessionHistory' : sessionHistory'[k] \in entered
  BY <1>1, <1>3, LoadedIsEntered, NewestEntered
<1>5. persist' \in PersistType /\ persist'.at = "idle"
  BY <1>2, AtType
<1>6. HistoryTypeOK'
  BY <1>2, <1>4, <1>5 DEF HistoryInv, HistoryTypeOK, PersistType
<1>7. EnteredOnly'
  BY <1>2, <1>4, <1>5 DEF HistoryInv, EnteredOnly
<1>. QED  BY <1>6, <1>7 DEF HistoryInv

LEMMA AddHostStep ==
  ASSUME HistoryInv, NEW host \in Host, AddHostToHistory(host)
  PROVE  HistoryInv'
<1>. DEFINE a == Append(Without(sessionHistory, host), host)
            r == keepNewest(a, sessionLimit)
            w == keepNewest(r, persistentHistoryLimit)
<1>1. /\ sessionHistory' = r /\ persistHistory(keepNewest(sessionHistory', persistentHistoryLimit),
                                                 sessionHistory', FALSE)
      /\ entered' = entered \cup {host}
      /\ UNCHANGED << MaxLRU, HistoryCount, HistoryHost, historyLimit, persistentHistoryLimit >>
  BY DEF AddHostToHistory, registryVars, limitVars
<1>2. /\ MaxLRU \in Limit /\ historyLimit \in Limit /\ persistentHistoryLimit \in Limit
      /\ sessionHistory \in Lists /\ entered \subseteq Host
      /\ \A k \in DOMAIN sessionHistory : sessionHistory[k] \in entered
  BY DEF HistoryInv, HistoryTypeOK, EnteredOnly
<1>3. /\ a \in Seq(Host) /\ Distinct(a)
      /\ \A k \in DOMAIN a : a[k] \in entered'
  BY <1>1, <1>2, MovedToEnd
<1>. HIDE DEF a
<1>4. sessionLimit \in Limit
  BY <1>2, SessionLimitType
<1>5. r \in Lists /\ \A k \in DOMAIN r : r[k] \in entered'
  BY <1>3, <1>4, KeepNewestLists
<1>. HIDE DEF r
<1>6. w \in Lists /\ \A k \in DOMAIN w : w[k] \in entered'
  BY <1>2, <1>5, NewestEntered
<1>. HIDE DEF w
<1>7. persistHistory(w, r, FALSE)
  BY <1>1 DEF w
<1>. QED  BY <1>1, <1>2, <1>5, <1>6, <1>7, PersistBegins

LEMMA ClearHistoryStep == ASSUME HistoryInv, ClearHistory PROVE HistoryInv'
<1>1. /\ persistHistory(<< >>, << >>, TRUE)
      /\ UNCHANGED << MaxLRU, HistoryCount, HistoryHost, historyLimit, persistentHistoryLimit,
                      sessionHistory, entered >>
  BY DEF ClearHistory, registryVars, limitVars
<1>2. /\ MaxLRU \in Limit /\ historyLimit \in Limit /\ persistentHistoryLimit \in Limit
      /\ sessionHistory \in Lists /\ entered \subseteq Host
      /\ \A k \in DOMAIN sessionHistory : sessionHistory[k] \in entered
  BY DEF HistoryInv, HistoryTypeOK, EnteredOnly
<1>. QED  BY <1>1, <1>2, EmptyList, PersistBegins

LEMMA OnOptionsStep == ASSUME HistoryInv, OnOptions PROVE HistoryInv'
<1>1. /\ historyLimit' \in Limit /\ persistentHistoryLimit' \in Limit /\ persist' = At("save")
      /\ UNCHANGED << MaxLRU, HistoryCount, HistoryHost, sessionHistory, previous, entered >>
  BY DEF OnOptions, registryVars
<1>2. persist' \in PersistType /\ persist'.at = "save"
  BY <1>1, AtType
<1>3. HistoryTypeOK'
  BY <1>1, <1>2 DEF HistoryInv, HistoryTypeOK, PersistType
<1>4. EnteredOnly'
  BY <1>1, <1>2 DEF HistoryInv, EnteredOnly
<1>. QED  BY <1>3, <1>4 DEF HistoryInv

LEMMA SaveSettingsStep == ASSUME HistoryInv, SaveSettings PROVE HistoryInv'
<1>. DEFINE r == keepNewest(sessionHistory, historyLimit)
<1>1. /\ MaxLRU' = historyLimit /\ sessionHistory' = r
      /\ persistHistory(sessionHistory', sessionHistory', FALSE)
      /\ UNCHANGED << HistoryCount, HistoryHost, historyLimit, persistentHistoryLimit, entered >>
  BY DEF SaveSettings, limitVars
<1>2. /\ historyLimit \in Limit /\ persistentHistoryLimit \in Limit
      /\ sessionHistory \in Lists /\ entered \subseteq Host
      /\ \A k \in DOMAIN sessionHistory : sessionHistory[k] \in entered
  BY DEF HistoryInv, HistoryTypeOK, EnteredOnly
<1>3. r \in Lists /\ \A k \in DOMAIN r : r[k] \in entered
  BY <1>2, NewestEntered
<1>. HIDE DEF r
<1>. QED  BY <1>1, <1>2, <1>3, PersistBegins

\* The steps of persistHistory(): what is counted in the registry is deleted,
\* or replaced by what is to be written.
LEMMA DeleteValueStep == ASSUME HistoryInv, DeleteValue PROVE HistoryInv'
<1>. USE HistoryAssumption
<1>1. /\ persist.at = "delete" /\ DeletesLeft
      /\ HistoryHost' = [HistoryHost EXCEPT ![persist.index] = NoHost]
      /\ persist' = [persist EXCEPT !.index = @ + 1]
      /\ UNCHANGED << MaxLRU, HistoryCount, historyLimit, persistentHistoryLimit, sessionHistory,
                      previous, entered >>
  BY DEF DeleteValue, limitVars
<1>2. persist \in PersistType /\ HistoryHost \in [Index -> Host \cup {NoHost}]
  BY DEF HistoryInv, HistoryTypeOK, PersistType
<1>3. persist.index \in Nat /\ persist.oldCount <= MAX_MAX_LRU /\ persist.oldCount \in Nat
  BY <1>2 DEF PersistType
<1>4. Len(persist.hosts) \in Nat /\ Len(persist.hosts) <= MAX_MAX_LRU
  BY <1>2, ListsAre DEF PersistType
<1>5. persist.index <= MAX_MAX_LRU
  BY <1>1, <1>3, <1>4 DEF DeletesLeft
<1>6. /\ persist' \in PersistType /\ persist'.at = "delete" /\ persist'.clears = persist.clears
      /\ persist'.hosts = persist.hosts /\ persist'.session = persist.session
  BY <1>1, <1>2, <1>5 DEF PersistType
<1>7. /\ HistoryHost' \in [Index -> Host \cup {NoHost}]
      /\ \A i \in Index : HistoryHost'[i] = NoHost \/ HistoryHost'[i] = HistoryHost[i]
  BY <1>1, <1>2
<1>8. HistoryTypeOK'
  BY <1>1, <1>6, <1>7 DEF HistoryInv, HistoryTypeOK, PersistType
<1>9. 1 .. HistoryCount \subseteq Index
  BY DEF HistoryInv, HistoryTypeOK, Index
<1>10. EnteredOnly'
  BY <1>1, <1>6, <1>7, <1>9 DEF HistoryInv, EnteredOnly
<1>. QED  BY <1>8, <1>10 DEF HistoryInv

LEMMA DeletesDoneStep == ASSUME HistoryInv, DeletesDone PROVE HistoryInv'
<1>. USE HistoryAssumption
<1>1. /\ persist.at = "delete" /\ persist' = [persist EXCEPT !.at = "write", !.index = 1]
      /\ UNCHANGED << MaxLRU, HistoryCount, HistoryHost, historyLimit, persistentHistoryLimit,
                      sessionHistory, previous, entered >>
  BY DEF DeletesDone, registryVars, limitVars
<1>2. persist \in PersistType
  BY DEF HistoryInv, HistoryTypeOK, PersistType
<1>3. /\ persist' \in PersistType /\ persist'.at = "write" /\ persist'.index = 1
      /\ persist'.hosts = persist.hosts /\ persist'.session = persist.session
      /\ persist'.clears = persist.clears
  <2>1. 1 \in 1 .. MAX_MAX_LRU + 1 /\ "write" \in { "closed", "idle", "save", "delete", "write" }
    OBVIOUS
  <2>2. persist' \in PersistType
    BY <1>1, <1>2, <2>1 DEF PersistType
  <2>. QED  BY <1>1, <1>2, <2>2 DEF PersistType
<1>4. HistoryTypeOK'
  BY <1>1, <1>3 DEF HistoryInv, HistoryTypeOK, PersistType
<1>5. EnteredOnly'
  BY <1>1, <1>3 DEF HistoryInv, EnteredOnly
<1>. QED  BY <1>4, <1>5 DEF HistoryInv

LEMMA SetStringValueStep == ASSUME HistoryInv, SetStringValue PROVE HistoryInv'
<1>. USE HistoryAssumption
<1>1. /\ persist.at = "write" /\ persist.index <= Len(persist.hosts)
      /\ HistoryHost' = [HistoryHost EXCEPT ![persist.index] = persist.hosts[persist.index]]
      /\ persist' = [persist EXCEPT !.index = @ + 1]
      /\ UNCHANGED << MaxLRU, HistoryCount, historyLimit, persistentHistoryLimit, sessionHistory,
                      previous, entered >>
  BY DEF SetStringValue, limitVars
<1>2. persist \in PersistType /\ HistoryHost \in [Index -> Host \cup {NoHost}]
  BY DEF HistoryInv, HistoryTypeOK, PersistType
<1>3. persist.index \in Nat /\ 1 <= persist.index /\ persist.hosts \in Lists
  BY <1>2 DEF PersistType
<1>4. persist.hosts \in Seq(Host) /\ Len(persist.hosts) <= MAX_MAX_LRU
  BY <1>3, ListsAre
<1>5. /\ persist.index <= MAX_MAX_LRU /\ persist.index \in DOMAIN persist.hosts
      /\ persist.hosts[persist.index] \in Host
  BY <1>1, <1>3, <1>4
<1>6. persist.hosts[persist.index] \in entered
  BY <1>1, <1>5 DEF HistoryInv, EnteredOnly
<1>7. /\ persist' \in PersistType /\ persist'.at = "write" /\ persist'.clears = persist.clears
      /\ persist'.hosts = persist.hosts /\ persist'.session = persist.session
      /\ persist'.index = persist.index + 1
  BY <1>1, <1>2, <1>5 DEF PersistType
<1>8. /\ HistoryHost' \in [Index -> Host \cup {NoHost}]
      /\ \A i \in Index : HistoryHost'[i] = IF i = persist.index THEN persist.hosts[persist.index]
                                            ELSE HistoryHost[i]
  BY <1>1, <1>2, <1>5
<1>9. HistoryTypeOK'
  BY <1>1, <1>7, <1>8 DEF HistoryInv, HistoryTypeOK, PersistType
<1>10. 1 .. HistoryCount \subseteq Index
  BY DEF HistoryInv, HistoryTypeOK, Index
<1>11. \A i \in 1 .. HistoryCount : HistoryHost'[i] # NoHost => HistoryHost'[i] \in entered
  BY <1>6, <1>8, <1>10 DEF HistoryInv, EnteredOnly
<1>12. \A i \in 1 .. persist'.index - 1 : i \in Index => HistoryHost'[i] \in entered
  <2>1. \A i \in 1 .. persist'.index - 1 : i = persist.index \/ i \in 1 .. persist.index - 1
    BY <1>3, <1>7
  <2>. QED  BY <1>1, <1>6, <1>8, <2>1 DEF HistoryInv, EnteredOnly
<1>13. EnteredOnly'
  BY <1>1, <1>7, <1>11, <1>12 DEF HistoryInv, EnteredOnly
<1>. QED  BY <1>9, <1>13 DEF HistoryInv

LEMMA SetCountStep == ASSUME HistoryInv, SetCount PROVE HistoryInv'
<1>. USE HistoryAssumption
<1>1. /\ persist.at = "write" /\ persist.index > Len(persist.hosts)
      /\ HistoryCount' = Len(persist.hosts) /\ persist' = At("idle") /\ previous' = << >>
      /\ sessionHistory' = persist.session
      /\ entered' = IF persist.clears THEN {} ELSE entered
      /\ UNCHANGED << MaxLRU, HistoryHost, historyLimit, persistentHistoryLimit >>
  BY DEF SetCount, limitVars
<1>2. persist \in PersistType /\ entered \subseteq Host
  BY DEF HistoryInv, HistoryTypeOK, PersistType
<1>3. persist.index \in Nat /\ persist.hosts \in Lists /\ persist.session \in Lists
  BY <1>2 DEF PersistType
<1>4. Len(persist.hosts) \in Nat /\ Len(persist.hosts) <= MAX_MAX_LRU
  BY <1>3, ListsAre
<1>5. persist' \in PersistType /\ persist'.at = "idle"
  BY <1>1, AtType
<1>6. HistoryTypeOK'
  BY <1>1, <1>2, <1>3, <1>4, <1>5, EmptyList DEF HistoryInv, HistoryTypeOK, PersistType
<1>7. CASE persist.clears
  <2>1. persist.hosts = << >> /\ persist.session = << >>
    BY <1>1, <1>7 DEF HistoryInv, EnteredOnly
  <2>2. HistoryCount' = 0 /\ DOMAIN sessionHistory' = {}
    BY <1>1, <2>1, EmptyList
  <2>3. EnteredOnly'
    BY <1>5, <2>2 DEF EnteredOnly
  <2>. QED  BY <1>6, <2>3 DEF HistoryInv
<1>8. CASE ~persist.clears
  <2>1. \A i \in 1 .. Len(persist.hosts) : i \in 1 .. persist.index - 1 /\ i \in Index
    BY <1>1, <1>3, <1>4 DEF Index
  <2>2. \A i \in 1 .. HistoryCount' : HistoryHost'[i] \in entered'
    BY <1>1, <1>8, <2>1 DEF HistoryInv, EnteredOnly
  <2>3. EnteredOnly'
    BY <1>1, <1>5, <1>8, <2>2 DEF HistoryInv, EnteredOnly
  <2>. QED  BY <1>6, <2>3 DEF HistoryInv
<1>. QED  BY <1>7, <1>8

LEMMA ProcessEndsStep == ASSUME HistoryInv, ProcessEnds PROVE HistoryInv'
<1>1. /\ persist' = At("closed") /\ sessionHistory' = << >> /\ previous' = << >>
      /\ UNCHANGED << MaxLRU, HistoryCount, HistoryHost, historyLimit, persistentHistoryLimit,
                      entered >>
  BY DEF ProcessEnds, registryVars, limitVars
<1>2. persist' \in PersistType /\ persist'.at = "closed"
  BY <1>1, AtType
<1>3. HistoryTypeOK'
  BY <1>1, <1>2, EmptyList DEF HistoryInv, HistoryTypeOK, PersistType
<1>4. EnteredOnly'
  BY <1>1, <1>2, EmptyList DEF HistoryInv, EnteredOnly
<1>. QED  BY <1>3, <1>4 DEF HistoryInv

LEMMA HistoryStep == HistoryInv /\ [HistoryNext]_historyVars => HistoryInv'
<1>. SUFFICES ASSUME HistoryInv, [HistoryNext]_historyVars PROVE HistoryInv'
  OBVIOUS
<1>1. CASE UNCHANGED historyVars
  <2>1. UNCHANGED << MaxLRU, HistoryCount, HistoryHost, historyLimit, persistentHistoryLimit,
                     sessionHistory, persist, previous, entered >>
    BY <1>1 DEF historyVars, registryVars, limitVars
  <2>. QED  BY <2>1 DEF HistoryInv, HistoryTypeOK, EnteredOnly
<1>2. CASE HistoryNext
  BY <1>2, InitRegistryStep, InitRegistryLimitedStep, AddHostStep, ClearHistoryStep,
     OnOptionsStep, SaveSettingsStep, DeleteValueStep, DeletesDoneStep, SetStringValueStep,
     SetCountStep, ProcessEndsStep DEF HistoryNext
<1>. QED  BY <1>1, <1>2

\* The registry and the dialog hold lists within the limits, whenever the
\* process ends.
THEOREM HistoryTypeCorrect == HistorySpec => []HistoryTypeOK
<1>1. HistoryInv => HistoryTypeOK
  BY DEF HistoryInv
<1>. QED  BY <1>1, HistoryInitInv, HistoryStep, PTL DEF HistorySpec

\* A host that was cleared is never loaded or shown again, unless it is entered
\* again, even if persistHistory() has been cut short before or since.
THEOREM ClearedAlwaysAway == HistorySpec => []ClearedStaysAway
<1>1. HistoryInv => ClearedStaysAway
  BY DEF HistoryInv, EnteredOnly, ClearedStaysAway, Stored
<1>. QED  BY <1>1, HistoryInitInv, HistoryStep, PTL DEF HistorySpec

-----------------------------------------------------------------------------
\* The history is one list

LEMMA LeastNatural ==
  ASSUME NEW S \in SUBSET Nat, S # {}
  PROVE  \E n \in S : \A m \in S : n <= m
<1>1. IsWellFoundedOn(OpToRel(<, Nat), Nat)
  BY NatLessThanWellFounded
<1>2. PICK n \in S : \A m \in S : ~(<< m, n >> \in OpToRel(<, Nat))
  BY <1>1, WFMin
<1>3. \A m \in S : ~(m < n)
  BY <1>2 DEF OpToRel
<1>. QED  BY <1>3

\* Two lists of the same hosts in the same order are equal.
LEMMA SameOrder ==
  ASSUME NEW s \in Lists, NEW t \in Lists,
         \A k \in 1 .. Len(t) : \E a \in 1 .. Len(s) : t[k] = s[a],
         \A a \in 1 .. Len(s) : \E k \in 1 .. Len(t) : t[k] = s[a],
         \A k, l \in 1 .. Len(t) : \A a, b \in 1 .. Len(s) :
           k < l /\ t[k] = s[a] /\ t[l] = s[b] => a < b
  PROVE  s = t
<1>1. /\ s \in Seq(Host) /\ t \in Seq(Host) /\ Len(s) \in Nat /\ Len(t) \in Nat
      /\ \A a, b \in 1 .. Len(s) : s[a] = s[b] => a = b
      /\ \A k, l \in 1 .. Len(t) : t[k] = t[l] => k = l
  BY ListsAre DEF Distinct
<1>. DEFINE D == { k \in 1 .. Len(s) : k > Len(t) \/ s[k] # t[k] }
<1>2. D = {}
  <2>. SUFFICES ASSUME D # {} PROVE FALSE
    OBVIOUS
  <2>1. PICK d \in D : \A m \in D : d <= m
    <3>1. D \in SUBSET Nat
      BY <1>1
    <3>. HIDE DEF D
    <3>. QED  BY <3>1, LeastNatural
  <2>2. d \in 1 .. Len(s)
    OBVIOUS
  <2>3. ASSUME NEW k \in 1 .. Len(s), k < d PROVE k \in 1 .. Len(t) /\ t[k] = s[k]
    <3>1. k \notin D
      BY <2>1, <2>2, <2>3
    <3>. QED  BY <1>1, <3>1
  <2>4. PICK k \in 1 .. Len(t) : t[k] = s[d]
    BY <2>2
  <2>5. CASE k < d
    BY <1>1, <2>2, <2>3, <2>4, <2>5
  <2>6. CASE k = d
    BY <1>1, <2>1, <2>4, <2>6
  <2>7. CASE k > d
    <3>1. d \in 1 .. Len(t)
      BY <1>1, <2>2, <2>7
    <3>2. PICK a \in 1 .. Len(s) : t[d] = s[a]
      BY <3>1
    <3>3. a < d
      BY <2>2, <2>4, <2>7, <3>1, <3>2
    <3>. QED  BY <1>1, <2>2, <2>3, <3>1, <3>2, <3>3
  <2>. QED  BY <1>1, <2>2, <2>5, <2>6, <2>7
<1>3. \A k \in 1 .. Len(s) : k \in 1 .. Len(t) /\ s[k] = t[k]
  BY <1>1, <1>2
<1>4. Len(s) <= Len(t)
  BY <1>1, <1>3
<1>5. Len(t) <= Len(s)
  <2>. SUFFICES ASSUME Len(t) > Len(s) PROVE FALSE
    BY <1>1
  <2>1. Len(s) + 1 \in 1 .. Len(t)
    BY <1>1
  <2>2. PICK a \in 1 .. Len(s) : t[Len(s) + 1] = s[a]
    BY <2>1
  <2>. QED  BY <1>1, <1>3, <2>1, <2>2
<1>. QED  BY <1>1, <1>3, <1>4, <1>5

\* The values stored are s, one after the other, from index lo.
StoredFrom(lo, s) ==
  /\ Stored = lo .. lo + Len(s) - 1
  /\ \A k \in 1 .. Len(s) : HistoryHost[lo + k - 1] = s[k]

RegistryHas(s) == \E lo \in Nat \ {0} : StoredFrom(lo, s)

\* What is loaded is what the registry has.
LEMMA LoadedIsStored ==
  ASSUME NEW s \in Lists, RegistryHas(s), NEW hosts \in Lists, loadPersistedHistory(hosts)
  PROVE  hosts = s
<1>1. /\ Len(s) \in Nat /\ Len(hosts) \in Nat /\ DOMAIN hosts = 1 .. Len(hosts)
      /\ \A a, b \in 1 .. Len(s) : s[a] = s[b] => a = b
  BY ListsAre DEF Distinct
<1>2. PICK lo \in Nat \ {0} : StoredFrom(lo, s)
  BY DEF RegistryHas
<1>3. \A i \in Stored : /\ i - lo + 1 \in 1 .. Len(s) /\ HistoryHost[i] = s[i - lo + 1]
                        /\ i \in Int
  <2>1. ASSUME NEW i \in Stored
        PROVE  i - lo + 1 \in 1 .. Len(s) /\ i \in Int /\ lo + (i - lo + 1) - 1 = i
    BY <1>1, <1>2 DEF StoredFrom
  <2>. QED  BY <1>2, <2>1 DEF StoredFrom
<1>4. \A a \in 1 .. Len(s) : lo + a - 1 \in Stored /\ HistoryHost[lo + a - 1] = s[a]
  BY <1>1, <1>2 DEF StoredFrom
<1>5. \A i \in Stored : IsLast(i)
  <2>1. ASSUME NEW i \in Stored, NEW j \in Stored, HistoryHost[j] = HistoryHost[i]
        PROVE  j <= i
    <3>1. j - lo + 1 = i - lo + 1
      BY <1>1, <1>3, <2>1
    <3>. QED  BY <1>3, <3>1
  <2>. QED  BY <2>1 DEF IsLast
<1>6. \A k \in 1 .. Len(hosts) : \E a \in 1 .. Len(s) : hosts[k] = s[a]
  <2>. TAKE k \in 1 .. Len(hosts)
  <2>1. PICK i \in Stored : HistoryHost[i] = hosts[k]
    BY <1>1 DEF loadPersistedHistory
  <2>. QED  BY <1>3, <2>1
<1>7. \A a \in 1 .. Len(s) : \E k \in 1 .. Len(hosts) : hosts[k] = s[a]
  BY <1>1, <1>4, <1>5 DEF loadPersistedHistory
<1>8. ASSUME NEW k \in 1 .. Len(hosts), NEW l \in 1 .. Len(hosts),
             NEW a \in 1 .. Len(s), NEW b \in 1 .. Len(s),
             k < l, hosts[k] = s[a], hosts[l] = s[b]
      PROVE  a < b
  <2>. DEFINE i == lo + a - 1
              j == lo + b - 1
  <2>1. /\ i \in Stored /\ IsLast(i) /\ HistoryHost[i] = hosts[k]
        /\ j \in Stored /\ IsLast(j) /\ HistoryHost[j] = hosts[l]
        /\ k \in DOMAIN hosts /\ l \in DOMAIN hosts
    BY <1>1, <1>4, <1>5, <1>8
  <2>2. i < j => a < b
    OBVIOUS
  <2>. HIDE DEF i, j
  <2>3. i < j
    BY <1>8, <2>1 DEF loadPersistedHistory
  <2>. QED  BY <2>2, <2>3
<1>. QED  BY <1>6, <1>7, <1>8, SameOrder

\* Cutting a list twice is cutting it once.
LEMMA NewestOfNewest ==
  ASSUME NEW s \in Seq(Host), NEW l \in Limit, NEW p \in Limit, p <= l
  PROVE  keepNewest(keepNewest(s, l), p) = keepNewest(s, p)
<1>1. l \in Nat \ {0} /\ p \in Nat \ {0} /\ Len(s) \in Nat
  BY HistoryAssumption DEF Limit, Index
<1>2. CASE ~(Len(s) > l)
  BY <1>2 DEF keepNewest
<1>3. CASE Len(s) > l
  <2>. DEFINE r == SubSeq(s, Len(s) - l + 1, Len(s))
  <2>1. keepNewest(s, l) = r
    BY <1>3 DEF keepNewest
  <2>2. /\ r \in Seq(Host) /\ Len(r) = l
        /\ \A k \in 1 .. l : r[k] = s[k + Len(s) - l]
    BY <1>1, <1>3
  <2>. HIDE DEF r
  <2>3. keepNewest(s, p) = SubSeq(s, Len(s) - p + 1, Len(s))
    BY <1>1, <1>3 DEF keepNewest
  <2>4. CASE l = p
    BY <1>1, <2>1, <2>2, <2>3, <2>4 DEF keepNewest, r
  <2>5. CASE p < l
    <3>. DEFINE x == SubSeq(r, l - p + 1, l)
                y == SubSeq(s, Len(s) - p + 1, Len(s))
    <3>1. keepNewest(r, p) = x
      BY <1>1, <2>2, <2>5 DEF keepNewest
    <3>2. x \in Seq(Host) /\ Len(x) = p /\ \A k \in 1 .. p : x[k] = r[k + l - p]
      BY <1>1, <2>2, <2>5
    <3>3. y \in Seq(Host) /\ Len(y) = p /\ \A k \in 1 .. p : y[k] = s[k + Len(s) - p]
      BY <1>1, <1>3, <2>5
    <3>4. \A k \in 1 .. p : k + l - p \in 1 .. l /\ (k + l - p) + Len(s) - l = k + Len(s) - p
      BY <1>1, <2>5
    <3>5. \A k \in 1 .. p : r[k + l - p] = s[k + Len(s) - p]
      BY <2>2, <3>4
    <3>6. keepNewest(keepNewest(s, l), p) = x /\ keepNewest(s, p) = y
      BY <2>1, <2>3, <3>1
    <3>. HIDE DEF x, y
    <3>7. \A k \in 1 .. p : x[k] = y[k]
      BY <3>2, <3>3, <3>5
    <3>8. x = y
      BY <3>2, <3>3, <3>7, SeqEqual
    <3>. QED  BY <3>6, <3>8
  <2>. QED  BY <1>1, <2>4, <2>5
<1>. QED  BY <1>2, <1>3

SameNewest(s, t, limit) == keepNewest(s, limit) = keepNewest(t, limit)

\* s is the end of t.
EndOf(s, t) ==
  Len(s) <= Len(t) /\ \A k \in 1 .. Len(s) : s[k] = t[Len(t) - Len(s) + k]

\* Between two calls of persistHistory() the registry has the list the dialog
\* has, up to what the limit cuts off; while values are deleted, the end of the
\* list it had; and while values are written, the beginning of the new one.
Persisting == persist.at \in { "delete", "write" }

HasOneList ==
  \E s \in Lists : /\ RegistryHas(s)
                   /\ persist.at = "idle" => SameNewest(s, sessionHistory, persistentHistoryLimit)
                   /\ persist.at = "delete" => EndOf(s, previous)

WritesTheNewest ==
  Persisting => SameNewest(persist.hosts, persist.session, persistentHistoryLimit)

DeletedSoFar ==
  persist.at = "delete" =>
    /\ persist.oldCount = HistoryCount
    /\ \A i \in 1 .. persist.index - 1 : i \in Index => HistoryHost[i] = NoHost

WrittenSoFar ==
  persist.at = "write" =>
    /\ persist.index <= Len(persist.hosts) + 1
    /\ \A i \in 1 .. persist.index - 1 : HistoryHost[i] = persist.hosts[i]
    /\ \A i \in persist.index .. HistoryCount : HistoryHost[i] = NoHost

OneListInv == HasOneList /\ WritesTheNewest /\ DeletedSoFar /\ WrittenSoFar

LEMMA OneListInit == HistoryInit => OneListInv
<1>. SUFFICES ASSUME HistoryInit PROVE OneListInv
  OBVIOUS
<1>1. persist.at = "closed" /\ HistoryCount = 0
  BY DEF HistoryInit, At
<1>2. Stored = {}
  BY <1>1 DEF Stored
<1>3. RegistryHas(<< >>)
  <2>1. 1 .. 1 + Len(<< >>) - 1 = {} /\ 1 .. Len(<< >>) = {}
    OBVIOUS
  <2>2. StoredFrom(1, << >>)
    BY <1>2, <2>1 DEF StoredFrom
  <2>. QED  BY <2>2 DEF RegistryHas
<1>. QED
  BY <1>1, <1>3, EmptyList DEF OneListInv, HasOneList, WritesTheNewest, DeletedSoFar,
                               WrittenSoFar, Persisting

\* persistHistory() begins with the list the registry has.
LEMMA OneListBegins ==
  ASSUME HistoryInv, OneListInv, NEW hosts, NEW session, NEW clears,
         persistHistory(hosts, session, clears), UNCHANGED << HistoryCount, HistoryHost >>,
         SameNewest(hosts, session, persistentHistoryLimit')
  PROVE  OneListInv'
<1>1. /\ persist'.at = "delete" /\ persist'.index = 1 /\ persist'.oldCount = HistoryCount
      /\ persist'.hosts = hosts /\ persist'.session = session
  BY DEF persistHistory
<1>2. PICK s \in Lists : RegistryHas(s)
  BY DEF OneListInv, HasOneList
<1>3. previous' = s
  BY <1>2, LoadedIsStored DEF persistHistory
<1>4. EndOf(s, previous')
  <2>1. Len(s) \in Nat
    BY ListsAre
  <2>. QED  BY <1>3, <2>1 DEF EndOf
<1>5. RegistryHas(s)'
  BY <1>2 DEF RegistryHas, StoredFrom, Stored
<1>6. HasOneList'
  BY <1>1, <1>2, <1>4, <1>5 DEF HasOneList
<1>. QED
  BY <1>1, <1>6 DEF OneListInv, WritesTheNewest, DeletedSoFar, WrittenSoFar, Persisting

\* Deleting the value at persist.index takes the first one away, or nothing.
LEMMA DeleteKeepsEnd == ASSUME HistoryInv, OneListInv, DeleteValue PROVE OneListInv'
<1>. USE HistoryAssumption
<1>1. /\ persist.at = "delete"
      /\ HistoryHost' = [HistoryHost EXCEPT ![persist.index] = NoHost]
      /\ persist' = [persist EXCEPT !.index = @ + 1]
      /\ UNCHANGED << HistoryCount, persistentHistoryLimit, sessionHistory, previous >>
  BY DEF DeleteValue, limitVars
<1>2. /\ persist \in PersistType /\ HistoryHost \in [Index -> Host \cup {NoHost}]
      /\ HistoryCount \in 0 .. MAX_MAX_LRU
  BY DEF HistoryInv, HistoryTypeOK, PersistType
<1>3. /\ persist.index \in Nat \ {0} /\ persist'.at = "delete" /\ persist'.index = persist.index + 1
      /\ persist'.oldCount = persist.oldCount /\ persist'.hosts = persist.hosts
      /\ persist'.session = persist.session
  BY <1>1, <1>2 DEF PersistType
<1>4. \A i \in Index : HistoryHost'[i] = IF i = persist.index THEN NoHost ELSE HistoryHost[i]
  BY <1>1, <1>2
<1>5. \A i \in 1 .. persist.index - 1 : i \in Index => HistoryHost[i] = NoHost
  BY <1>1 DEF OneListInv, DeletedSoFar
<1>6. Stored' = Stored \ { persist.index } /\ Stored \subseteq Index
  BY <1>1, <1>2, <1>4 DEF Stored, Index
<1>7. PICK s \in Lists : RegistryHas(s) /\ EndOf(s, previous)
  BY <1>1 DEF OneListInv, HasOneList
<1>8. PICK lo \in Nat \ {0} : StoredFrom(lo, s)
  BY <1>7 DEF RegistryHas
<1>9. /\ s \in Seq(Host) /\ Len(s) \in Nat /\ Distinct(s) /\ Len(s) <= MAX_MAX_LRU
      /\ previous \in Lists /\ Len(previous) \in Nat
  BY ListsAre DEF HistoryInv, HistoryTypeOK
<1>10. \A k \in 1 .. Len(s) : lo + k - 1 \in Stored /\ HistoryHost[lo + k - 1] = s[k]
  BY <1>8, <1>9 DEF StoredFrom
<1>11. HasOneList'
  <2>1. CASE persist.index \notin Stored
    <3>1. StoredFrom(lo, s)'
      <4>1. Stored' = Stored
        BY <1>6, <2>1
      <4>2. \A k \in 1 .. Len(s) : HistoryHost'[lo + k - 1] = s[k]
        BY <1>4, <1>6, <1>10, <2>1
      <4>. QED  BY <1>8, <4>1, <4>2 DEF StoredFrom
    <3>. QED  BY <1>1, <1>3, <1>7, <3>1 DEF HasOneList, RegistryHas
  <2>2. CASE persist.index \in Stored
    <3>1. persist.index \in lo .. lo + Len(s) - 1 /\ Len(s) >= 1
      BY <1>8, <1>9, <2>2 DEF StoredFrom
    <3>2. lo = persist.index
      <4>. SUFFICES ASSUME lo < persist.index PROVE FALSE
        BY <3>1
      <4>1. lo \in Stored /\ lo \in Index /\ lo \in 1 .. persist.index - 1
        BY <1>3, <1>6, <1>8, <1>9, <3>1 DEF StoredFrom
      <4>. QED  BY <1>5, <4>1 DEF Stored
    <3>3. s # << >>
      BY <3>1
    <3>4. /\ Tail(s) \in Seq(Host) /\ Len(Tail(s)) = Len(s) - 1
          /\ \A k \in 1 .. Len(s) - 1 : Tail(s)[k] = s[k + 1]
      BY <1>9, <3>3
    <3>. DEFINE r == Tail(s)
    <3>. HIDE DEF r
    <3>5. r \in Lists
      <4>1. Distinct(r)
        BY <1>9, <3>4 DEF Distinct, r
      <4>2. r \in Seq(Host) /\ Len(r) <= MAX_MAX_LRU
        BY <1>9, <3>4 DEF r
      <4>. QED  BY <4>1, <4>2, ListsAre
    <3>6. Stored' = lo + 1 .. (lo + 1) + Len(r) - 1
      BY <1>6, <1>8, <1>9, <3>2, <3>4 DEF StoredFrom, r
    <3>7. \A k \in 1 .. Len(r) : HistoryHost'[(lo + 1) + k - 1] = r[k]
      <4>. TAKE k \in 1 .. Len(r)
      <4>1. k + 1 \in 1 .. Len(s) /\ r[k] = s[k + 1] /\ (lo + 1) + k - 1 = lo + (k + 1) - 1
            /\ (lo + 1) + k - 1 # persist.index
        BY <1>9, <3>2, <3>4 DEF r
      <4>2. lo + (k + 1) - 1 \in Index /\ HistoryHost[lo + (k + 1) - 1] = s[k + 1]
        BY <1>6, <1>10, <4>1
      <4>. QED  BY <1>4, <4>1, <4>2
    <3>8. EndOf(r, previous)
      <4>1. Len(r) <= Len(previous) /\ Len(r) = Len(s) - 1 /\ Len(s) <= Len(previous)
        BY <1>7, <1>9, <3>4 DEF EndOf, r
      <4>2. ASSUME NEW k \in 1 .. Len(r) PROVE r[k] = previous[Len(previous) - Len(r) + k]
        <5>1. /\ k + 1 \in 1 .. Len(s) /\ r[k] = s[k + 1]
              /\ Len(previous) - Len(s) + (k + 1) = Len(previous) - Len(r) + k
          BY <1>9, <3>4, <4>1 DEF r
        <5>. QED  BY <1>7, <5>1 DEF EndOf
      <4>. QED  BY <4>1, <4>2 DEF EndOf
    <3>9. RegistryHas(r)'
      <4>1. StoredFrom(lo + 1, r)'
        BY <3>6, <3>7 DEF StoredFrom
      <4>. QED  BY <4>1 DEF RegistryHas
    <3>. QED  BY <1>1, <1>3, <3>5, <3>8, <3>9 DEF HasOneList
  <2>. QED  BY <2>1, <2>2
<1>12. DeletedSoFar'
  <2>1. \A i \in 1 .. persist'.index - 1 : i = persist.index \/ i \in 1 .. persist.index - 1
    BY <1>3
  <2>. QED  BY <1>1, <1>3, <1>4, <1>5, <2>1 DEF OneListInv, DeletedSoFar
<1>. QED
  BY <1>1, <1>3, <1>11, <1>12 DEF OneListInv, WritesTheNewest, WrittenSoFar, Persisting

\* When all values are deleted, none that counts is left.
LEMMA DeletedAll == ASSUME HistoryInv, OneListInv, DeletesDone PROVE OneListInv'
<1>. USE HistoryAssumption
<1>1. /\ persist.at = "delete" /\ ~DeletesLeft
      /\ persist' = [persist EXCEPT !.at = "write", !.index = 1]
      /\ UNCHANGED << HistoryCount, HistoryHost, persistentHistoryLimit, sessionHistory, previous >>
  BY DEF DeletesDone, registryVars, limitVars
<1>2. persist \in PersistType /\ HistoryCount \in 0 .. MAX_MAX_LRU
  BY DEF HistoryInv, HistoryTypeOK, PersistType
<1>3. /\ persist.index \in Nat /\ persist.oldCount = HistoryCount /\ persist.hosts \in Lists
      /\ \A i \in 1 .. persist.index - 1 : i \in Index => HistoryHost[i] = NoHost
  BY <1>1, <1>2 DEF PersistType, OneListInv, DeletedSoFar
<1>4. /\ persist'.at = "write" /\ persist'.index = 1 /\ persist'.hosts = persist.hosts
      /\ persist'.session = persist.session
  BY <1>1, <1>2 DEF PersistType
<1>5. Len(persist.hosts) \in Nat
  BY <1>3, ListsAre
<1>6. HistoryCount < persist.index
  BY <1>1, <1>2, <1>3, <1>5 DEF DeletesLeft
<1>7. \A i \in 1 .. HistoryCount : HistoryHost[i] = NoHost
  BY <1>2, <1>3, <1>6 DEF Index
<1>8. WrittenSoFar'
  BY <1>1, <1>4, <1>5, <1>7 DEF WrittenSoFar
<1>9. HasOneList'
  <2>1. PICK s \in Lists : RegistryHas(s)
    BY DEF OneListInv, HasOneList
  <2>2. RegistryHas(s)'
    BY <1>1, <2>1 DEF RegistryHas, StoredFrom, Stored
  <2>. QED  BY <1>4, <2>1, <2>2 DEF HasOneList
<1>. QED
  BY <1>1, <1>4, <1>8, <1>9 DEF OneListInv, WritesTheNewest, DeletedSoFar, Persisting

\* The registry has as much of the new list as is written, and counted.
LEMMA PrefixIsStored ==
  ASSUME NEW hosts \in Lists, NEW m \in Nat, m <= Len(hosts),
         Stored = 1 .. m, \A i \in 1 .. m : HistoryHost[i] = hosts[i]
  PROVE  SubSeq(hosts, 1, m) \in Lists /\ RegistryHas(SubSeq(hosts, 1, m))
<1>1. hosts \in Seq(Host) /\ Len(hosts) \in Nat /\ Len(hosts) <= MAX_MAX_LRU /\ Distinct(hosts)
  BY ListsAre
<1>. DEFINE r == SubSeq(hosts, 1, m)
<1>2. r \in Seq(Host) /\ Len(r) = m /\ \A k \in 1 .. m : r[k] = hosts[k]
  BY <1>1
<1>. HIDE DEF r
<1>3. Distinct(r)
  BY <1>1, <1>2 DEF Distinct
<1>4. r \in Lists
  BY <1>1, <1>2, <1>3, HistoryAssumption, ListsAre
<1>5. StoredFrom(1, r)
  BY <1>2 DEF StoredFrom
<1>. QED  BY <1>4, <1>5 DEF RegistryHas, r

\* What is stored while values are written.
LEMMA WrittenIsStored ==
  ASSUME HistoryInv, WrittenSoFar, persist.at = "write"
  PROVE  \E m \in Nat : /\ m <= Len(persist.hosts) /\ Stored = 1 .. m
                        /\ \A i \in 1 .. m : HistoryHost[i] = persist.hosts[i]
<1>. USE HistoryAssumption
<1>1. persist \in PersistType /\ HistoryCount \in 0 .. MAX_MAX_LRU
  BY DEF HistoryInv, HistoryTypeOK, PersistType
<1>2. persist.index \in Nat \ {0} /\ persist.hosts \in Lists
  BY <1>1 DEF PersistType
<1>3. /\ persist.hosts \in Seq(Host) /\ Len(persist.hosts) \in Nat
      /\ \A i \in 1 .. Len(persist.hosts) : persist.hosts[i] \in Host
  BY <1>2, ListsAre
<1>4. /\ persist.index <= Len(persist.hosts) + 1
      /\ \A i \in 1 .. persist.index - 1 : HistoryHost[i] = persist.hosts[i]
      /\ \A i \in persist.index .. HistoryCount : HistoryHost[i] = NoHost
  BY DEF WrittenSoFar
<1>. DEFINE m == IF persist.index - 1 < HistoryCount THEN persist.index - 1 ELSE HistoryCount
<1>5. m \in Nat /\ m <= Len(persist.hosts) /\ m <= HistoryCount
  BY <1>1, <1>2, <1>3, <1>4
<1>6. \A i \in 1 .. m : HistoryHost[i] = persist.hosts[i] /\ HistoryHost[i] # NoHost
  <2>1. \A i \in 1 .. m : i \in 1 .. persist.index - 1 /\ i \in 1 .. Len(persist.hosts)
    BY <1>1, <1>2, <1>3, <1>4
  <2>. QED  BY <1>3, <1>4, <2>1
<1>7. \A i \in 1 .. HistoryCount : i \in 1 .. m \/ HistoryHost[i] = NoHost
  BY <1>1, <1>2, <1>4
<1>8. Stored = 1 .. m
  BY <1>1, <1>5, <1>6, <1>7 DEF Stored
<1>. HIDE DEF m
<1>. QED  BY <1>5, <1>6, <1>8

LEMMA WritesKeepPrefix == ASSUME HistoryInv, OneListInv, SetStringValue PROVE OneListInv'
<1>. USE HistoryAssumption
<1>1. /\ persist.at = "write" /\ persist.index <= Len(persist.hosts)
      /\ HistoryHost' = [HistoryHost EXCEPT ![persist.index] = persist.hosts[persist.index]]
      /\ persist' = [persist EXCEPT !.index = @ + 1]
      /\ UNCHANGED << HistoryCount, persistentHistoryLimit >>
  BY DEF SetStringValue, limitVars
<1>2. /\ persist \in PersistType /\ HistoryHost \in [Index -> Host \cup {NoHost}]
      /\ HistoryCount \in 0 .. MAX_MAX_LRU
  BY DEF HistoryInv, HistoryTypeOK, PersistType
<1>3. /\ persist.index \in Nat \ {0} /\ persist.hosts \in Lists
      /\ persist'.at = "write" /\ persist'.index = persist.index + 1
      /\ persist'.hosts = persist.hosts /\ persist'.session = persist.session
  BY <1>1, <1>2 DEF PersistType
<1>4. Len(persist.hosts) \in Nat /\ Len(persist.hosts) <= MAX_MAX_LRU
  BY <1>3, ListsAre
<1>5. \A i \in Index : HistoryHost'[i] = IF i = persist.index THEN persist.hosts[persist.index]
                                         ELSE HistoryHost[i]
  BY <1>1, <1>2
<1>6. /\ \A i \in 1 .. persist.index - 1 : HistoryHost[i] = persist.hosts[i]
      /\ \A i \in persist.index .. HistoryCount : HistoryHost[i] = NoHost
  BY <1>1 DEF OneListInv, WrittenSoFar
<1>7. WrittenSoFar'
  <2>1. \A i \in 1 .. persist'.index - 1 : HistoryHost'[i] = persist'.hosts[i]
    <3>. TAKE i \in 1 .. persist'.index - 1
    <3>1. i \in Index /\ (i = persist.index \/ i \in 1 .. persist.index - 1)
      BY <1>1, <1>3, <1>4 DEF Index
    <3>. QED  BY <1>3, <1>5, <1>6, <3>1
  <2>2. \A i \in persist'.index .. HistoryCount' : HistoryHost'[i] = NoHost
    <3>. TAKE i \in persist'.index .. HistoryCount'
    <3>1. i \in Index /\ i # persist.index /\ i \in persist.index .. HistoryCount
      BY <1>1, <1>2, <1>3 DEF Index
    <3>. QED  BY <1>5, <1>6, <3>1
  <2>3. persist'.index <= Len(persist'.hosts) + 1
    BY <1>1, <1>3, <1>4
  <2>. QED  BY <2>1, <2>2, <2>3 DEF WrittenSoFar
<1>8. HasOneList'
  <2>. DEFINE m == IF persist.index < HistoryCount THEN persist.index ELSE HistoryCount
              q == SubSeq(persist.hosts, 1, m)
  <2>1. m \in Nat /\ m <= Len(persist.hosts) /\ m <= persist.index /\ m <= HistoryCount
    BY <1>1, <1>2, <1>3, <1>4
  <2>2. /\ persist.hosts \in Seq(Host) /\ Distinct(persist.hosts)
        /\ \A i \in 1 .. Len(persist.hosts) : persist.hosts[i] \in Host
    BY <1>3, ListsAre
  <2>3. \A i \in 1 .. m : HistoryHost'[i] = persist.hosts[i] /\ HistoryHost'[i] # NoHost
    <3>. TAKE i \in 1 .. m
    <3>1. i \in 1 .. persist'.index - 1 /\ i \in 1 .. Len(persist.hosts)
      BY <1>1, <1>3, <1>4, <2>1
    <3>. QED  BY <1>3, <1>7, <2>2, <3>1 DEF WrittenSoFar
  <2>4. \A i \in 1 .. HistoryCount : i \in 1 .. m \/ i \in persist'.index .. HistoryCount
    BY <1>2, <1>3
  <2>5. Stored' = 1 .. m
    <3>. HIDE DEF m
    <3>1. \A i \in 1 .. HistoryCount : i \in 1 .. m \/ HistoryHost'[i] = NoHost
      BY <1>1, <1>3, <1>7, <2>4 DEF WrittenSoFar
    <3>. QED  BY <1>1, <1>2, <2>1, <2>3, <3>1 DEF Stored
  <2>. HIDE DEF m
  <2>6. q \in Seq(Host) /\ Len(q) = m /\ \A k \in 1 .. m : q[k] = persist.hosts[k]
    BY <1>4, <2>1, <2>2
  <2>. HIDE DEF q
  <2>7. q \in Lists
    <3>1. Distinct(q)
      BY <1>4, <2>1, <2>2, <2>6 DEF Distinct
    <3>. QED  BY <1>4, <2>1, <2>6, <3>1, ListsAre
  <2>8. PICK r \in Lists : r = q
    BY <2>7
  <2>9. Len(r) = m /\ \A k \in 1 .. m : r[k] = persist.hosts[k] /\ 1 + k - 1 = k
    BY <2>1, <2>6, <2>8
  <2>10. StoredFrom(1, r)'
    BY <2>1, <2>3, <2>5, <2>9 DEF StoredFrom
  <2>11. RegistryHas(r)'
    BY <2>10 DEF RegistryHas
  <2>. QED  BY <1>3, <2>11 DEF HasOneList
<1>. QED
  BY <1>1, <1>3, <1>7, <1>8 DEF OneListInv, WritesTheNewest, DeletedSoFar, Persisting

\* With the number of values the new list is the one stored.
LEMMA CountEndsList == ASSUME HistoryInv, OneListInv, SetCount PROVE OneListInv'
<1>. USE HistoryAssumption
<1>1. /\ persist.at = "write" /\ persist.index > Len(persist.hosts)
      /\ HistoryCount' = Len(persist.hosts) /\ persist'.at = "idle"
      /\ sessionHistory' = persist.session
      /\ UNCHANGED << HistoryHost, persistentHistoryLimit >>
  BY DEF SetCount, limitVars, At
<1>2. persist \in PersistType
  BY DEF HistoryInv, HistoryTypeOK, PersistType
<1>3. persist.index \in Nat \ {0} /\ persist.hosts \in Lists
  BY <1>2 DEF PersistType
<1>4. /\ persist.hosts \in Seq(Host) /\ Len(persist.hosts) \in Nat
      /\ \A i \in 1 .. Len(persist.hosts) : persist.hosts[i] \in Host
  BY <1>3, ListsAre
<1>5. \A i \in 1 .. Len(persist.hosts) : HistoryHost[i] = persist.hosts[i] /\ HistoryHost[i] # NoHost
  <2>1. \A i \in 1 .. Len(persist.hosts) : i \in 1 .. persist.index - 1
    BY <1>1, <1>3, <1>4
  <2>. QED  BY <1>1, <1>4, <2>1 DEF OneListInv, WrittenSoFar
<1>6. Stored' = 1 .. Len(persist.hosts)
  BY <1>1, <1>5 DEF Stored
<1>7. PICK r \in Lists : r = persist.hosts
  BY <1>3
<1>8. RegistryHas(r)'
  <2>1. \A k \in 1 .. Len(r) : HistoryHost[1 + k - 1] = r[k] /\ 1 + Len(r) - 1 = Len(r)
    BY <1>4, <1>5, <1>7
  <2>2. StoredFrom(1, r)'
    BY <1>1, <1>4, <1>6, <1>7, <2>1 DEF StoredFrom
  <2>. QED  BY <2>2 DEF RegistryHas
<1>9. SameNewest(r, sessionHistory', persistentHistoryLimit')
  BY <1>1, <1>7 DEF OneListInv, WritesTheNewest, Persisting
<1>10. HasOneList'
  BY <1>1, <1>8, <1>9 DEF HasOneList
<1>. QED
  BY <1>1, <1>10 DEF OneListInv, WritesTheNewest, DeletedSoFar, WrittenSoFar, Persisting

\* Steps that leave the registry alone and call nothing.
LEMMA OneListRests ==
  ASSUME OneListInv, UNCHANGED << HistoryCount, HistoryHost >>,
         persist'.at \in { "closed", "save" }
  PROVE  OneListInv'
<1>1. PICK s \in Lists : RegistryHas(s)
  BY DEF OneListInv, HasOneList
<1>2. RegistryHas(s)'
  BY <1>1 DEF RegistryHas, StoredFrom, Stored
<1>. QED
  BY <1>1, <1>2 DEF OneListInv, HasOneList, WritesTheNewest, DeletedSoFar, WrittenSoFar, Persisting

\* A limit on the command line that is below the one stored does not count.
LEMMA LimitedKeepsList == ASSUME HistoryInv, OneListInv, InitRegistryLimited PROVE OneListInv'
<1>1. PICK hosts \in Lists :
        loadPersistedHistory(hosts) /\ sessionHistory' = keepNewest(hosts, sessionLimit')
  BY DEF InitRegistryLimited
<1>2. /\ historyLimit' \in Limit /\ persistentHistoryLimit' \in Limit /\ persist'.at = "idle"
      /\ UNCHANGED << HistoryCount, HistoryHost >>
  BY DEF InitRegistryLimited, registryVars, HistoryInv, HistoryTypeOK, At
<1>3. sessionLimit' \in Limit /\ persistentHistoryLimit' <= sessionLimit'
  BY <1>2, HistoryAssumption DEF sessionLimit, Limit, Index
<1>4. PICK s \in Lists : RegistryHas(s)
  BY DEF OneListInv, HasOneList
<1>5. hosts = s /\ s \in Seq(Host)
  BY <1>1, <1>4, LoadedIsStored, ListsAre
<1>6. SameNewest(s, sessionHistory', persistentHistoryLimit')
  <2>. DEFINE l == sessionLimit'
              p == persistentHistoryLimit'
  <2>1. l \in Limit /\ p \in Limit /\ p <= l
    BY <1>2, <1>3
  <2>2. sessionHistory' = keepNewest(s, l)
    BY <1>1, <1>5
  <2>. HIDE DEF l, p
  <2>3. keepNewest(keepNewest(s, l), p) = keepNewest(s, p)
    BY <1>5, <2>1, NewestOfNewest
  <2>. QED  BY <2>2, <2>3 DEF SameNewest, p
<1>7. RegistryHas(s)'
  BY <1>2, <1>4 DEF RegistryHas, StoredFrom, Stored
<1>8. HasOneList'
  BY <1>2, <1>4, <1>6, <1>7 DEF HasOneList
<1>. QED
  BY <1>2, <1>8 DEF OneListInv, WritesTheNewest, DeletedSoFar, WrittenSoFar, Persisting

LEMMA AddHostKeepsList ==
  ASSUME HistoryInv, OneListInv, NEW host \in Host, AddHostToHistory(host)
  PROVE  OneListInv'
<1>. DEFINE a == Append(Without(sessionHistory, host), host)
            r == keepNewest(a, sessionLimit)
            p == persistentHistoryLimit
<1>1. /\ persistHistory(keepNewest(r, p), r, FALSE)
      /\ UNCHANGED << HistoryCount, HistoryHost, persistentHistoryLimit >>
  BY DEF AddHostToHistory, registryVars, limitVars
<1>2. p \in Limit /\ historyLimit \in Limit /\ sessionHistory \in Lists
  BY DEF HistoryInv, HistoryTypeOK
<1>3. a \in Seq(Host) /\ Distinct(a) /\ sessionLimit \in Limit
  BY <1>2, MovedToEnd, SessionLimitType
<1>. HIDE DEF a
<1>4. r \in Seq(Host)
  BY <1>3, KeepNewestLists, ListsAre
<1>. HIDE DEF r
<1>5. SameNewest(keepNewest(r, p), r, p)
  <2>1. p <= p
    BY <1>2, HistoryAssumption DEF Limit, Index
  <2>. HIDE DEF p
  <2>. QED  BY <1>2, <1>4, <2>1, NewestOfNewest DEF SameNewest
<1>. QED  BY <1>1, <1>5, OneListBegins

LEMMA OneListStep ==
  ASSUME HistoryInv, OneListInv, [HistoryNext]_historyVars
  PROVE  OneListInv'
<1>1. CASE InitRegistry
  <2>1. PICK hosts \in Lists :
          persistHistory(keepNewest(hosts, MaxLRU), keepNewest(hosts, MaxLRU), FALSE)
    BY <1>1 DEF InitRegistry
  <2>2. UNCHANGED << HistoryCount, HistoryHost >>
    BY <1>1 DEF InitRegistry, registryVars
  <2>. QED  BY <2>1, <2>2, OneListBegins DEF SameNewest
<1>2. CASE ClearHistory
  <2>1. persistHistory(<< >>, << >>, TRUE) /\ UNCHANGED << HistoryCount, HistoryHost >>
    BY <1>2 DEF ClearHistory, registryVars
  <2>. QED  BY <2>1, OneListBegins DEF SameNewest
<1>3. CASE SaveSettings
  <2>1. /\ persistHistory(sessionHistory', sessionHistory', FALSE)
        /\ UNCHANGED << HistoryCount, HistoryHost >>
    BY <1>3 DEF SaveSettings
  <2>. DEFINE r == sessionHistory'
  <2>2. persistHistory(r, r, FALSE)
    BY <2>1
  <2>. HIDE DEF r
  <2>. QED  BY <2>1, <2>2, OneListBegins DEF SameNewest
<1>4. CASE OnOptions \/ ProcessEnds
  <2>1. persist'.at \in { "closed", "save" } /\ UNCHANGED << HistoryCount, HistoryHost >>
    BY <1>4 DEF OnOptions, ProcessEnds, At, registryVars
  <2>. QED  BY <2>1, OneListRests
<1>5. CASE UNCHANGED historyVars
  <2>1. UNCHANGED << HistoryCount, HistoryHost, persistentHistoryLimit, sessionHistory, persist,
                     previous >>
    BY <1>5 DEF historyVars, registryVars, limitVars
  <2>. QED
    BY <2>1 DEF OneListInv, HasOneList, RegistryHas, StoredFrom, Stored, WritesTheNewest,
                DeletedSoFar, WrittenSoFar, Persisting
<1>. QED
  BY <1>1, <1>2, <1>3, <1>4, <1>5, LimitedKeepsList, AddHostKeepsList, DeleteKeepsEnd,
     DeletedAll, WritesKeepPrefix, CountEndsList DEF HistoryNext

\* The end and the beginning of a list, as the community modules have them.
LEMMA EndsAndBeginnings ==
  ASSUME NEW s \in Seq(Host), NEW t \in Seq(Host)
  PROVE  /\ EndOf(s, t) => IsSuffix(s, t)
         /\ \A m \in 0 .. Len(t) : IsPrefix(SubSeq(t, 1, m), t)
<1>1. ASSUME EndOf(s, t) PROVE IsSuffix(s, t)
  <2>. DEFINE x == Reverse(s)
              y == Reverse(t)
  <2>1. /\ x \in Seq(Host) /\ Len(x) = Len(s)
        /\ \A k \in 1 .. Len(s) : x[k] = s[Len(s) - k + 1]
    BY DEF Reverse
  <2>2. /\ y \in Seq(Host) /\ Len(y) = Len(t)
        /\ \A k \in 1 .. Len(t) : y[k] = t[Len(t) - k + 1]
    BY DEF Reverse
  <2>3. Len(s) <= Len(t) /\ \A k \in 1 .. Len(s) : s[k] = t[Len(t) - Len(s) + k]
    BY <1>1 DEF EndOf
  <2>. HIDE DEF x, y
  <2>4. ASSUME NEW k \in 1 .. Len(s) PROVE x[k] = y[k]
    <3>1. /\ Len(s) - k + 1 \in 1 .. Len(s) /\ k \in 1 .. Len(t)
          /\ Len(t) - Len(s) + (Len(s) - k + 1) = Len(t) - k + 1
      BY <2>3
    <3>2. s[Len(s) - k + 1] = t[Len(t) - Len(s) + (Len(s) - k + 1)]
      BY <2>3, <3>1
    <3>. QED  BY <2>1, <2>2, <3>1, <3>2
  <2>5. SubSeq(x, 1, Len(x)) \in Seq(Host) /\ SubSeq(y, 1, Len(x)) \in Seq(Host)
        /\ Len(SubSeq(x, 1, Len(x))) = Len(s) /\ Len(SubSeq(y, 1, Len(x))) = Len(s)
        /\ \A k \in 1 .. Len(s) : SubSeq(x, 1, Len(x))[k] = x[k] /\ SubSeq(y, 1, Len(x))[k] = y[k]
    BY <2>1, <2>2, <2>3
  <2>6. SubSeq(x, 1, Len(x)) = SubSeq(y, 1, Len(x))
    BY <2>4, <2>5, SeqEqual
  <2>7. IsPrefix(x, y)
    BY <2>1, <2>2, <2>3, <2>6 DEF IsPrefix
  <2>. QED  BY <2>7 DEF IsSuffix, x, y
<1>2. ASSUME NEW m \in 0 .. Len(t) PROVE IsPrefix(SubSeq(t, 1, m), t)
  <2>. DEFINE x == SubSeq(t, 1, m)
  <2>1. x \in Seq(Host) /\ Len(x) = m
    OBVIOUS
  <2>. HIDE DEF x
  <2>2. SubSeq(x, 1, Len(x)) = x
    BY <2>1
  <2>. QED  BY <2>1, <2>2 DEF IsPrefix, x
<1>. QED  BY <1>1, <1>2

\* Wherever persistHistory() is cut short, the next start finds one of the lists
\* there were, or a part of it, and never a mixture; when it is through, the
\* next start finds what the dialog shows.
THEOREM HistoryAlwaysOneList == HistorySpec => []HistoryIsOneList
<1>1. ASSUME HistoryInv, OneListInv PROVE HistoryIsOneList
  <2>. SUFFICES ASSUME NEW hosts \in Lists, loadPersistedHistory(hosts)
                PROVE  /\ persist.at \in { "delete", "write" } =>
                            IsSuffix(hosts, previous) \/ IsPrefix(hosts, persist.hosts)
                       /\ persist.at = "idle" =>
                            keepNewest(hosts, persistentHistoryLimit)
                              = keepNewest(sessionHistory, persistentHistoryLimit)
    BY DEF HistoryIsOneList
  <2>1. PICK s \in Lists :
          /\ RegistryHas(s)
          /\ persist.at = "idle" => SameNewest(s, sessionHistory, persistentHistoryLimit)
          /\ persist.at = "delete" => EndOf(s, previous)
    BY <1>1 DEF OneListInv, HasOneList
  <2>2. hosts = s
    BY <2>1, LoadedIsStored
  <2>3. CASE persist.at = "delete"
    <3>1. previous \in Lists
      BY <1>1 DEF HistoryInv, HistoryTypeOK
    <3>2. s \in Seq(Host) /\ previous \in Seq(Host)
      BY <3>1, ListsAre
    <3>. QED  BY <2>1, <2>2, <2>3, <3>2, EndsAndBeginnings
  <2>4. CASE persist.at = "write"
    <3>1. PICK m \in Nat : /\ m <= Len(persist.hosts) /\ Stored = 1 .. m
                           /\ \A i \in 1 .. m : HistoryHost[i] = persist.hosts[i]
      BY <1>1, <2>4, WrittenIsStored DEF OneListInv
    <3>2. persist.hosts \in Lists
      BY <1>1 DEF HistoryInv, HistoryTypeOK
    <3>3. persist.hosts \in Seq(Host) /\ Len(persist.hosts) \in Nat
      BY <3>2, ListsAre
    <3>4. SubSeq(persist.hosts, 1, m) \in Lists /\ RegistryHas(SubSeq(persist.hosts, 1, m))
      BY <3>1, <3>2, PrefixIsStored
    <3>5. hosts = SubSeq(persist.hosts, 1, m)
      BY <3>4, LoadedIsStored
    <3>6. m \in 0 .. Len(persist.hosts)
      BY <3>1, <3>3
    <3>. QED  BY <2>4, <3>3, <3>5, <3>6, EndsAndBeginnings
  <2>. QED  BY <2>1, <2>2, <2>3, <2>4 DEF SameNewest
<1>2. HistoryInv /\ OneListInv => HistoryIsOneList
  BY <1>1
<1>3. HistoryInv /\ OneListInv /\ [HistoryNext]_historyVars => OneListInv'
  BY OneListStep
<1>. QED
  BY <1>2, <1>3, HistoryInitInv, HistoryStep, OneListInit, PTL DEF HistorySpec

=============================================================================
