--------------------------- MODULE ProviderQueries ---------------------------
(***************************************************************************)
(* How WinMTRNetworkData.cpp asks the providers of public information: a   *)
(* query asks them one after the other until one gives a usable answer,    *)
(* and the health of a provider, which all queries share, keeps them from  *)
(* asking one that has failed until a delay is over that grows with every  *)
(* failure.  The threads of queryCurrent() and the workers that call       *)
(* queryAddress() run side by side, and any may be stopped, by the user or *)
(* by the budget of eight seconds.                                         *)
(*                                                                         *)
(* Delays are in steps of the first one, and without their jitter.         *)
(***************************************************************************)
EXTENDS Integers, Sequences

CONSTANTS
  Provider,
  DnsProvider,   \* those of them that are asked by DNS
  Asker,         \* the threads that ask
  Chain,         \* the providers a thread asks, in this order
  MaxFailures,   \* 10 in the code
  MaxExponent    \* 8 in the code

ASSUME ProviderAssumption ==
  /\ DnsProvider \subseteq Provider /\ Chain \in [Asker -> Seq(Provider)]
  /\ MaxFailures \in Nat \ {0} /\ MaxExponent \in Nat

VARIABLES
  consecutiveFailures,   \* ProviderHealth of each provider: its failures ...
  cooldown,              \* ... and how long it is still not to be asked
  asking,                \* where a thread is: in httpGet() or queryCymru(), or between
  stopping,              \* has its stop token been set?
  position               \* the place in its chain it has come to

healthVars   == << consecutiveFailures, cooldown >>
providerVars == << healthVars, asking, stopping, position >>

LesserOf(a, b) == IF a < b THEN a ELSE b

Failures(p) == LesserOf(consecutiveFailures[p] + 1, MaxFailures)

recordProviderResult(p, success) ==
  /\ consecutiveFailures' = [consecutiveFailures EXCEPT ![p] = IF success THEN 0 ELSE Failures(p)]
  /\ cooldown' = [cooldown EXCEPT ![p] =
                    IF success THEN 0 ELSE 2 ^ LesserOf(Failures(p) - 1, MaxExponent)]

ProviderInit ==
  /\ consecutiveFailures = [p \in Provider |-> 0] /\ cooldown = [p \in Provider |-> 0]
  /\ asking = [a \in Asker |-> "idle"] /\ stopping = [a \in Asker |-> FALSE]
  /\ position = [a \in Asker |-> 1]

-----------------------------------------------------------------------------
\* The provider the thread has come to.
Current(a) == Chain[a][position[a]]

\* The query is over, or goes on with the next provider, if there is one.
Ends(a) == asking' = [asking EXCEPT ![a] = "idle"] /\ UNCHANGED << stopping, position >>

GoesOn(a) ==
  IF position[a] = Len(Chain[a]) THEN Ends(a)
  ELSE /\ asking' = [asking EXCEPT ![a] = "between"]
       /\ position' = [position EXCEPT ![a] = @ + 1]
       /\ UNCHANGED stopping

Goes(a, place) == asking' = [asking EXCEPT ![a] = place] /\ UNCHANGED << stopping, position >>

\* queryCurrentFamily() or queryAddress() is called.
StartAsking(a) ==
  /\ asking[a] = "idle" /\ Chain[a] # << >>
  /\ asking' = [asking EXCEPT ![a] = "between"]
  /\ stopping' = [stopping EXCEPT ![a] = FALSE]
  /\ position' = [position EXCEPT ![a] = 1]
  /\ UNCHANGED healthVars

\* The user, or the budget.
StopAsking(a) ==
  /\ asking[a] # "idle" /\ ~stopping[a]
  /\ stopping' = [stopping EXCEPT ![a] = TRUE]
  /\ UNCHANGED << healthVars, asking, position >>

\* Mutant: a provider is asked whatever its health.
Approach_unhealthy(a) ==
  /\ asking[a] = "between"
  /\ \/ stopping[a] /\ Ends(a)
     \/ /\ ~stopping[a]
        /\ Goes(a, IF Current(a) \in DnsProvider THEN "dns" ELSE "connect")
  /\ UNCHANGED healthVars

\* The beginning of httpGet() and queryCymru(): providerAvailable().
Approach(a) ==
  /\ asking[a] = "between"
  /\ \/ stopping[a] /\ Ends(a)
     \/ ~stopping[a] /\ cooldown[Current(a)] > 0 /\ GoesOn(a)
     \/ /\ ~stopping[a] /\ cooldown[Current(a)] = 0
        /\ Goes(a, IF Current(a) \in DnsProvider THEN "dns" ELSE "connect")
  /\ UNCHANGED healthVars

Fails(a) == recordProviderResult(Current(a), FALSE) /\ GoesOn(a)

\* Up to the request: a stop that comes before it is recorded as a failure, too.
Connect(a) ==
  /\ asking[a] = "connect"
  /\ \/ Fails(a)
     \/ ~stopping[a] /\ Goes(a, "request") /\ UNCHANGED healthVars

\* A whole answer counts for the provider, whether it can be used or not.
Answered(a) == recordProviderResult(Current(a), TRUE) /\ (Ends(a) \/ GoesOn(a))

\* The request is sent and read; a stop closes it and is not held against the
\* provider, but an answer that was all there counts.
Request(a) ==
  /\ asking[a] = "request"
  /\ \/ Answered(a)
     \/ Fails(a)
     \/ stopping[a] /\ Ends(a) /\ UNCHANGED healthVars

\* queryCymru() cannot be stopped.
QueryCymru(a) ==
  /\ asking[a] = "dns"
  /\ Answered(a) \/ Fails(a)

CoolDown ==
  /\ \E p \in Provider : cooldown[p] > 0
  /\ cooldown' = [p \in Provider |-> IF cooldown[p] > 0 THEN cooldown[p] - 1 ELSE 0]
  /\ UNCHANGED << consecutiveFailures, asking, stopping, position >>

ProviderNext ==
  \/ \E a \in Asker :
       StartAsking(a) \/ StopAsking(a) \/ Approach(a) \/ Connect(a) \/ Request(a) \/ QueryCymru(a)
  \/ CoolDown

\* Time passes.
ProviderFairness == WF_providerVars(CoolDown)

ProviderSpec == ProviderInit /\ [][ProviderNext]_providerVars /\ ProviderFairness

-----------------------------------------------------------------------------
\* Properties

ProviderTypeOK ==
  /\ consecutiveFailures \in [Provider -> 0 .. MaxFailures]
  /\ cooldown \in [Provider -> 0 .. 2 ^ MaxExponent]
  /\ asking \in [Asker -> { "idle", "between", "connect", "request", "dns" }]
  /\ stopping \in [Asker -> BOOLEAN]
  /\ \A a \in Asker : position[a] \in {1} \cup DOMAIN Chain[a]

\* However many queries run into its failures, and however late they record
\* them, a provider is allowed to be asked again and again.
ProviderIsAskedAgain == \A p \in Provider : []<>(cooldown[p] = 0)
=============================================================================
