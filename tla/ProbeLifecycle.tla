--------------------------- MODULE ProbeLifecycle ---------------------------
(***************************************************************************)
(* What a probe scheduler promises, whatever its timing: each sequence     *)
(* number is used for one probe, the probe passes through the stages       *)
(*                                                                         *)
(*   unused -> reserved -> waiting -> settled -> closed                    *)
(*                                                                         *)
(* in that order, possibly skipping some, and it is counted at most once,  *)
(* while it is still waiting and its epoch still runs.                     *)
(***************************************************************************)
EXTENDS Integers, FiniteSets

CONSTANTS Ttls, Sequences

VARIABLES
  probe,   \* [ttl, stage] of each sequence number; ttl 0 while it has none
  tally    \* the outcomes of the current epoch, per TTL

Stage == { "unused", "reserved", "waiting", "settled", "abandoned", "closed" }

NoOutcomes == [ sent |-> 0, completed |-> 0, cancelled |-> 0, errors |-> 0 ]
Closed     == [ ttl |-> 0, stage |-> "closed" ]

At(stage)     == { s \in Sequences : probe[s].stage = stage }
On(S, t)      == Cardinality({ s \in S : probe[s].ttl = t })

Init ==
  /\ probe = [s \in Sequences |-> [ ttl |-> 0, stage |-> "unused" ]]
  /\ tally = [t \in Ttls |-> NoOutcomes]

Reserve(s, t) ==
  /\ probe[s].stage = "unused"
  /\ \A u \in Sequences : u < s => probe[u].stage # "unused"
  /\ probe' = [probe EXCEPT ![s] = [ ttl |-> t, stage |-> "reserved" ]]
  /\ UNCHANGED tally

Issue(s) ==
  /\ probe[s].stage = "reserved"
  /\ probe' = [probe EXCEPT ![s].stage = "waiting"]
  /\ tally' = [tally EXCEPT ![probe[s].ttl].sent = @ + 1]

\* Nothing is sent for the slot: the reply was cached, or sending failed.
Refuse(s) ==
  /\ probe[s].stage = "reserved"
  /\ probe' = [probe EXCEPT ![s] = Closed]
  /\ \/ UNCHANGED tally
     \/ tally' = [tally EXCEPT ![probe[s].ttl].errors = @ + 1]

\* Deadlines pass while the transport still has the probes.
TimeOut(S) ==
  /\ S # {} /\ S \subseteq At("waiting")
  /\ probe' = [s \in Sequences |->
       IF s \in S THEN [probe[s] EXCEPT !.stage = "settled"] ELSE probe[s]]
  /\ tally' = [t \in Ttls |-> [tally[t] EXCEPT !.completed = @ + On(S, t)]]

\* A drain begins, and perhaps the probes under way are given up at once.
Drain ==
  /\ \E S \in { {}, At("waiting") } :
       /\ probe' = [s \in Sequences |->
            IF s \in S THEN [probe[s] EXCEPT !.stage = "settled"]
            ELSE IF s \in At("reserved") THEN Closed ELSE probe[s]]
       /\ tally' = [t \in Ttls |-> [tally[t] EXCEPT !.cancelled = @ + On(S, t)]]

\* The transport hands the probe back; only a waiting one is counted.
HandBack(s) ==
  /\ probe[s].stage \in { "waiting", "settled", "abandoned" }
  /\ probe' = [probe EXCEPT ![s] = Closed]
  /\ IF probe[s].stage = "waiting"
     THEN \/ tally' = [tally EXCEPT ![probe[s].ttl].completed = @ + 1]
          \/ tally' = [tally EXCEPT ![probe[s].ttl].errors = @ + 1]
     ELSE UNCHANGED tally

\* The epoch ends: nothing that was under way will be counted any more.
Abandon ==
  /\ probe' = [s \in Sequences |->
       IF probe[s].stage = "reserved" THEN Closed
       ELSE IF probe[s].stage \in { "waiting", "settled" }
       THEN [probe[s] EXCEPT !.stage = "abandoned"] ELSE probe[s]]
  /\ \/ UNCHANGED tally
     \/ tally' = [t \in Ttls |-> NoOutcomes]

Next ==
  \/ \E s \in Sequences, t \in Ttls : Reserve(s, t)
  \/ \E s \in Sequences : Issue(s) \/ Refuse(s) \/ HandBack(s)
  \/ \E S \in SUBSET At("waiting") : TimeOut(S)
  \/ Drain
  \/ Abandon

Spec == Init /\ [][Next]_<< probe, tally >>
=============================================================================
