------------------------- MODULE NetworkInfoProofs -------------------------
(***************************************************************************)
(* Proofs about NetworkInfo: types, that the interface joins no query that *)
(* is under way, that a query turned off stays off, and that the display   *)
(* ends up to date; however many queries supersede one another and however *)
(* late their messages are.                                                *)
(***************************************************************************)
EXTENDS NetworkInfo, TLAPS

Busy == { "query", "decide", "store", "end" }

\* The flag says where the thread is, and is down while the interface joins.
RunningFollows ==
  /\ networkInfoRunning <=> networkInfoThread.at \in Busy
  /\ ui = "join" => ~networkInfoRunning
  /\ networkInfoThread.at \in Busy \cup {"post"} => networkInfoThread.generation # 0

\* What is off is superseded: no result or message has the current generation.
OffIsSuperseded ==
  ~queryPublicInfo =>
    /\ networkInfoThread.at \in Busy \cup {"post"} =>
         networkInfoThread.generation < networkInfoGeneration
    /\ \A i \in 1 .. Len(ready) : ready[i].generation < networkInfoGeneration

IInv == TypeOK /\ RunningFollows /\ OffIsOff /\ OffIsSuperseded
-----------------------------------------------------------------------------
AllPlaces == Busy \cup { "none", "post", "done" }
ThreadType(g)  == [ at : AllPlaces, stop : BOOLEAN, generation : 0 .. g, value : Info,
                    deliver : BOOLEAN ]
MessageType(g) == [ generation : 1 .. g, delivered : BOOLEAN ]

LEMMA TypeParts ==
  ASSUME TypeOK
  PROVE  /\ networkInfoThread \in ThreadType(networkInfoGeneration)
         /\ ready \in Seq(MessageType(networkInfoGeneration))
         /\ networkInfoGeneration \in Nat
  BY DEF TypeOK, ThreadType, MessageType, AllPlaces, Busy

\* What is left to show of TypeOK when the clock and the events stand still.
LEMMA TypeRest ==
  ASSUME IInv, UNCHANGED world,
         queryPublicInfo' \in BOOLEAN, networkInfoRunning' \in BOOLEAN,
         networkInfoRestartPending' \in BOOLEAN, exiting' \in BOOLEAN,
         publicInfoRefreshMode' \in Modes, networkInfoGeneration' \in Nat,
         networkInfoThread' \in ThreadType(networkInfoGeneration'),
         networkInfo' \in Info,
         lastNetworkInfoQueryTick' \in { lastNetworkInfoQueryTick, now },
         lastNetworkChangeRefreshTick' \in { lastNetworkChangeRefreshTick, now },
         ready' \in Seq(MessageType(networkInfoGeneration')),
         changes' \in { changes, changes - 1 }, changes' >= 0,
         ui' \in { "loop", "start", "join" },
         display'.text \in { "value", "failed", "querying" }
  PROVE  TypeOK'
<1>1. /\ now \in 1 .. MaxNow /\ events \in 1 .. MaxEvents /\ changes \in 0 .. events
      /\ network \in 1 .. events /\ lastNetworkInfoQueryTick \in 0 .. now
      /\ lastNetworkChangeRefreshTick \in 0 .. now
      /\ MaxNow \in Nat /\ MaxEvents \in Nat
  BY NetworkInfoAssumption DEF IInv, TypeOK
<1>2. now' = now /\ events' = events /\ network' = network
  BY DEF world
<1>3. /\ changes' \in 0 .. events' /\ lastNetworkInfoQueryTick' \in 0 .. now'
      /\ lastNetworkChangeRefreshTick' \in 0 .. now'
  BY <1>1, <1>2
<1>4. QED BY <1>1, <1>2, <1>3 DEF TypeOK, ThreadType, MessageType, AllPlaces, Busy

\* An event leaves the bounds of the changes and the versions valid.
LEMMA NewEvent ==
  ASSUME IInv, events < MaxEvents, events' = events + 1,
         UNCHANGED << changes, network, now >>
  PROVE  /\ changes' \in 0 .. events' /\ network' \in 1 .. events'
         /\ now' \in 1 .. MaxNow /\ events' \in 1 .. MaxEvents
  BY NetworkInfoAssumption DEF IInv, TypeOK

\* Raising the generation makes room.
LEMMA GenerationGrows ==
  ASSUME NEW g \in Nat, NEW h \in Nat, g <= h
  PROVE  /\ ThreadType(g) \subseteq ThreadType(h)
         /\ \A r \in Seq(MessageType(g)) : r \in Seq(MessageType(h))
<1>1. ThreadType(g) \subseteq ThreadType(h)
  BY DEF ThreadType
<1>2. MessageType(g) \subseteq MessageType(h)
  BY DEF MessageType
<1>3. QED BY <1>1, <1>2

LEMMA NoInfoType == NoInfo \in Info /\ \A g \in Nat : NoThread \in ThreadType(g)
<1>1. NoInfo \in Info
  BY NetworkInfoAssumption DEF NoInfo, Info, Versions
<1>2. QED BY <1>1 DEF NoThread, ThreadType, AllPlaces

LEMMA TailKeeps ==
  ASSUME NEW T, NEW m \in Seq(T), m # << >>
  PROVE  /\ Tail(m) \in Seq(T) /\ Head(m) \in T /\ Head(m) = m[1] /\ Len(m) \in Nat \ {0}
         /\ Len(Tail(m)) = Len(m) - 1
         /\ \A i \in 1 .. Len(Tail(m)) : \E j \in 1 .. Len(m) : Tail(m)[i] = m[j]
<1>1. /\ Tail(m) \in Seq(T) /\ Head(m) \in T /\ Head(m) = m[1] /\ Len(m) \in Nat \ {0}
      /\ Len(Tail(m)) = Len(m) - 1
      /\ \A i \in 1 .. Len(Tail(m)) : Tail(m)[i] = m[i + 1]
  OBVIOUS
<1>2. \A i \in 1 .. Len(Tail(m)) : i + 1 \in 1 .. Len(m)
  BY <1>1
<1>3. QED BY <1>1, <1>2

LEMMA InitIInv == Init => IInv
<1> SUFFICES ASSUME Init PROVE IInv
  OBVIOUS
<1>1. networkInfo \in Info
  BY NoInfoType DEF Init, Info, NoInfo
<1>2. networkInfoThread \in ThreadType(networkInfoGeneration) /\ networkInfoThread.at = "none"
  BY NoInfoType DEF Init, NoThread
<1>3. display.text \in { "failed", "querying" } /\ (~queryPublicInfo => display = Fixed("failed"))
  BY DEF Init, Fixed
<1>4. ready = << >> /\ Len(ready) = 0
  BY DEF Init
<1>5. TypeOK
  <2>1. /\ now \in 1 .. MaxNow /\ events \in 1 .. MaxEvents /\ changes \in 0 .. events
        /\ network \in 1 .. events /\ lastNetworkInfoQueryTick \in 0 .. now
        /\ lastNetworkChangeRefreshTick \in 0 .. now
    BY NetworkInfoAssumption DEF Init
  <2>2. networkInfoGeneration \in Nat /\ ui \in { "loop", "start", "join" }
    BY DEF Init
  <2>3. ready \in Seq([ generation : 1 .. networkInfoGeneration, delivered : BOOLEAN ])
    BY <1>4
  <2>4. /\ queryPublicInfo \in BOOLEAN /\ networkInfoRunning \in BOOLEAN
        /\ networkInfoRestartPending \in BOOLEAN /\ exiting \in BOOLEAN
        /\ publicInfoRefreshMode \in Modes
    BY DEF Init
  <2>5. QED BY <1>1, <1>2, <1>3, <2>1, <2>2, <2>3, <2>4
            DEF TypeOK, ThreadType, AllPlaces, Busy
<1>6. QED BY <1>2, <1>3, <1>4, <1>5
          DEF Init, IInv, RunningFollows, OffIsOff, OffIsSuperseded, Under, Busy

-----------------------------------------------------------------------------
\* The thread of a query.

\* A step of the thread that does not post.
LEMMA ThreadStep ==
  ASSUME IInv, Query \/ Decide \/ Store \/ EndRunning
  PROVE  IInv'
<1>0. /\ networkInfoThread \in ThreadType(networkInfoGeneration)
      /\ ready \in Seq(MessageType(networkInfoGeneration)) /\ networkInfoGeneration \in Nat
  BY TypeParts DEF IInv
<1>1. /\ UNCHANGED << queryPublicInfo, publicInfoRefreshMode, networkInfoGeneration,
                      networkInfoRestartPending, lastNetworkInfoQueryTick,
                      lastNetworkChangeRefreshTick, changes, ui, display, exiting >>
      /\ UNCHANGED world /\ ready' = ready
  BY DEF Query, Decide, Store, EndRunning, InterfaceKeeps, settings, ticks
<1>2. /\ networkInfoThread.at \in Busy
      /\ networkInfoThread' \in ThreadType(networkInfoGeneration)
      /\ networkInfoThread'.at \in Busy \cup {"post"}
      /\ networkInfoThread'.generation = networkInfoThread.generation
      /\ networkInfoThread'.stop = networkInfoThread.stop
      /\ networkInfoRunning' \in BOOLEAN
      /\ networkInfoRunning' => networkInfoRunning
      /\ networkInfoRunning' <=> networkInfoThread'.at \in Busy
      /\ networkInfo' \in Info
  <2>0. /\ networkInfo \in Info /\ NoInfo \in Info /\ networkInfoRunning \in BOOLEAN
        /\ networkInfoRunning <=> networkInfoThread.at \in Busy
    BY NoInfoType DEF IInv, TypeOK, RunningFollows
  <2>1. CASE Query
    <3>1. PICK value \in { 0, network }, servers \in BOOLEAN :
            networkInfoThread' = [networkInfoThread EXCEPT !.at = "decide",
              !.value = [NoInfo EXCEPT !.value = value, !.servers = servers]]
      BY <2>1 DEF Query
    <3>2. value \in Versions
      BY <3>1, NetworkInfoAssumption DEF IInv, TypeOK, Versions
    <3>3. [NoInfo EXCEPT !.value = value, !.servers = servers] \in Info
      BY <3>2 DEF NoInfo, Info
    <3>4. QED BY <1>0, <2>0, <2>1, <3>1, <3>3 DEF Query, ThreadType, AllPlaces, Busy
  <2>2. CASE Decide
    BY <1>0, <2>0, <2>2 DEF Decide, ThreadType, AllPlaces, Busy
  <2>3. CASE Store
    <3>1. networkInfo' \in Info
      BY <1>0, <2>0, <2>3 DEF Store, ThreadType, Info
    <3>2. QED BY <1>0, <2>0, <2>3, <3>1 DEF Store, ThreadType, AllPlaces, Busy
  <2>4. CASE EndRunning
    BY <1>0, <2>0, <2>4 DEF EndRunning, ThreadType, AllPlaces, Busy
  <2>5. QED BY <2>1, <2>2, <2>3, <2>4
<1>3. TypeOK'
  BY <1>0, <1>1, <1>2, TypeRest DEF IInv, TypeOK
<1>4. RunningFollows'
  BY <1>1, <1>2 DEF IInv, RunningFollows
<1>5. OffIsOff'
  BY <1>1, <1>2 DEF IInv, OffIsOff, Under, Busy
<1>6. OffIsSuperseded'
  BY <1>1, <1>2 DEF IInv, OffIsSuperseded
<1>7. QED BY <1>3, <1>4, <1>5, <1>6 DEF IInv

LEMMA PostStep == ASSUME IInv, Post PROVE IInv'
<1>0. /\ networkInfoThread \in ThreadType(networkInfoGeneration)
      /\ ready \in Seq(MessageType(networkInfoGeneration)) /\ networkInfoGeneration \in Nat
  BY TypeParts DEF IInv
<1>1. /\ UNCHANGED << queryPublicInfo, publicInfoRefreshMode, networkInfoGeneration,
                      networkInfoRestartPending, lastNetworkInfoQueryTick,
                      lastNetworkChangeRefreshTick, changes, ui, display, exiting,
                      networkInfoRunning, networkInfo >>
      /\ UNCHANGED world
  BY DEF Post, InterfaceKeeps, settings, ticks
<1> DEFINE m == [ generation |-> networkInfoThread.generation,
                  delivered  |-> networkInfoThread.deliver ]
<1>2. networkInfoThread.at = "post" /\ ready' = Append(ready, m)
  BY DEF Post
<1>3. m \in MessageType(networkInfoGeneration) /\ m.generation = networkInfoThread.generation
  BY <1>0, <1>2 DEF IInv, RunningFollows, ThreadType, MessageType
<1> HIDE DEF m
<1>4. networkInfoThread' \in ThreadType(networkInfoGeneration) /\ networkInfoThread'.at = "done"
  BY <1>0, NoInfoType DEF Post, NoThread, ThreadType, AllPlaces
<1>5. ready' \in Seq(MessageType(networkInfoGeneration))
  BY <1>0, <1>2, <1>3
<1>6. TypeOK'
  BY <1>0, <1>1, <1>4, <1>5, TypeRest DEF IInv, TypeOK
<1>7. RunningFollows' /\ OffIsOff'
  BY <1>1, <1>2, <1>4 DEF IInv, RunningFollows, OffIsOff, Under, Busy
<1>8. OffIsSuperseded'
  BY <1>0, <1>1, <1>2, <1>3, <1>4 DEF IInv, OffIsSuperseded, Busy
<1>9. QED BY <1>6, <1>7, <1>8 DEF IInv
-----------------------------------------------------------------------------
\* The interface.

\* A query that is asked to stop stays where it is, and is superseded.
LEMMA Stopping ==
  ASSUME IInv, stopNetworkInfoQuery
  PROVE  /\ networkInfoGeneration' = networkInfoGeneration + 1
         /\ networkInfoGeneration' \in Nat
         /\ networkInfoThread' \in ThreadType(networkInfoGeneration')
         /\ networkInfoThread'.at = networkInfoThread.at
         /\ networkInfoThread'.generation = networkInfoThread.generation
         /\ networkInfoThread.at \in Busy \cup {"post"} => networkInfoThread'.stop
         /\ ready \in Seq(MessageType(networkInfoGeneration'))
<1>1. /\ networkInfoThread \in ThreadType(networkInfoGeneration)
      /\ ready \in Seq(MessageType(networkInfoGeneration)) /\ networkInfoGeneration \in Nat
  BY TypeParts DEF IInv
<1>2. /\ networkInfoGeneration' = networkInfoGeneration + 1
      /\ networkInfoGeneration' \in Nat
  BY <1>1 DEF stopNetworkInfoQuery
<1>3. /\ networkInfoThread \in ThreadType(networkInfoGeneration')
      /\ ready \in Seq(MessageType(networkInfoGeneration'))
  BY <1>1, <1>2, GenerationGrows
<1>4. QED BY <1>2, <1>3 DEF stopNetworkInfoQuery, ThreadType, Busy

\* Starting one does this, announces it and marks what is known.
LEMMA Starting ==
  ASSUME IInv, startNetworkInfoQuery
  PROVE  /\ stopNetworkInfoQuery /\ ui' = "start" /\ networkInfo' \in Info
         /\ display'.text \in { "value", "failed", "querying" }
<1>1. networkInfo \in Info
  BY DEF IInv, TypeOK
<1>2. QED BY <1>1 DEF startNetworkInfoQuery, Summary, Fixed, Info

\* A handler that leaves the thread where it is, and does not turn the query
\* off without superseding it, keeps the invariant.
LEMMA HandlerStep ==
  ASSUME IInv, TypeOK', OffIsOff', networkInfoRunning' = networkInfoRunning,
         networkInfoThread'.at = networkInfoThread.at,
         networkInfoThread'.generation = networkInfoThread.generation,
         ui' # "join" \/ ~networkInfoRunning,
         \/ networkInfoGeneration' = networkInfoGeneration
              /\ (~queryPublicInfo' => ~queryPublicInfo)
         \/ networkInfoGeneration' = networkInfoGeneration + 1,
         ready' = ready \/ (ready # << >> /\ ready' = Tail(ready))
  PROVE  IInv'
<1>1. /\ networkInfoThread \in ThreadType(networkInfoGeneration)
      /\ ready \in Seq(MessageType(networkInfoGeneration)) /\ networkInfoGeneration \in Nat
  BY TypeParts DEF IInv
<1>2. RunningFollows'
  BY DEF IInv, RunningFollows
<1>3. ASSUME ~queryPublicInfo'
      PROVE  /\ networkInfoThread.at \in Busy \cup {"post"} =>
                  networkInfoThread.generation < networkInfoGeneration'
             /\ \A i \in 1 .. Len(ready) : ready[i].generation < networkInfoGeneration'
  <2>0. \A i \in 1 .. Len(ready) :
          ready[i].generation \in Nat /\ ready[i].generation <= networkInfoGeneration
    <3>1. \A i \in 1 .. Len(ready) : ready[i] \in MessageType(networkInfoGeneration)
      BY <1>1
    <3>2. \A x \in MessageType(networkInfoGeneration) :
            x.generation \in Nat /\ x.generation <= networkInfoGeneration
      BY <1>1 DEF MessageType
    <3>3. QED BY <3>1, <3>2
  <2>1. networkInfoThread.generation \in Nat
        /\ networkInfoThread.generation <= networkInfoGeneration
    BY <1>1 DEF ThreadType
  <2>2. CASE ~queryPublicInfo
    <3>1. /\ networkInfoThread.at \in Busy \cup {"post"} =>
               networkInfoThread.generation < networkInfoGeneration
          /\ \A i \in 1 .. Len(ready) : ready[i].generation < networkInfoGeneration
      BY <2>2 DEF IInv, OffIsSuperseded
    <3>2. networkInfoGeneration' \in { networkInfoGeneration, networkInfoGeneration + 1 }
      OBVIOUS
    <3>3. QED BY <1>1, <2>0, <2>1, <3>1, <3>2
  <2>3. CASE networkInfoGeneration' = networkInfoGeneration + 1
    BY <1>1, <2>0, <2>1, <2>3
  <2>4. QED BY <1>3, <2>2, <2>3
<1>4. ASSUME ready # << >>, ready' = Tail(ready)
      PROVE  \A i \in 1 .. Len(ready') : \E j \in 1 .. Len(ready) : ready'[i] = ready[j]
  BY <1>1, <1>4, TailKeeps
<1>5. \A i \in 1 .. Len(ready') : \E j \in 1 .. Len(ready) : ready'[i] = ready[j]
  BY <1>4
<1>6. OffIsSuperseded'
  BY <1>3, <1>5 DEF OffIsSuperseded
<1>7. QED BY <1>2, <1>6 DEF IInv

LEMMA StartOrDeferStep == ASSUME IInv, StartOrDefer PROVE IInv'
<1>0. /\ networkInfoThread \in ThreadType(networkInfoGeneration)
      /\ ready \in Seq(MessageType(networkInfoGeneration)) /\ networkInfoGeneration \in Nat
  BY TypeParts DEF IInv
<1>1. /\ ui = "start"
      /\ UNCHANGED << queryPublicInfo, publicInfoRefreshMode, networkInfoGeneration,
                      networkInfoRunning, ready, lastNetworkInfoQueryTick,
                      lastNetworkChangeRefreshTick, networkInfoThread, networkInfo, changes,
                      display, exiting >>
      /\ UNCHANGED world
  BY DEF StartOrDefer, settings, ticks
<1>2. /\ networkInfoRestartPending' \in BOOLEAN /\ ui' \in { "loop", "join" }
      /\ ui' = "join" => networkInfoThread.at = "none" \/ ~networkInfoRunning
  BY DEF StartOrDefer, IInv, TypeOK
<1>3. TypeOK'
  BY <1>0, <1>1, <1>2, TypeRest DEF IInv, TypeOK
<1>4. queryPublicInfo
  BY <1>1 DEF IInv, OffIsOff
<1>5. ui' # "join" \/ ~networkInfoRunning
  BY <1>2 DEF IInv, RunningFollows, Busy
<1>6. OffIsOff'
  BY <1>1, <1>4 DEF OffIsOff
<1>7. /\ networkInfoRunning' = networkInfoRunning
      /\ networkInfoThread'.at = networkInfoThread.at
      /\ networkInfoThread'.generation = networkInfoThread.generation
      /\ networkInfoGeneration' = networkInfoGeneration
      /\ (~queryPublicInfo' => ~queryPublicInfo) /\ ready' = ready
  BY <1>1, <1>4
<1>8. QED BY <1>3, <1>5, <1>6, <1>7, HandlerStep

LEMMA LaunchStep == ASSUME IInv, Launch PROVE IInv'
<1>0. /\ networkInfoThread \in ThreadType(networkInfoGeneration)
      /\ ready \in Seq(MessageType(networkInfoGeneration)) /\ networkInfoGeneration \in Nat
  BY TypeParts DEF IInv
<1>1. /\ ui = "join" /\ ui' = "loop" /\ networkInfoRestartPending' = FALSE
      /\ lastNetworkInfoQueryTick' = now /\ networkInfoRunning' = TRUE
      /\ networkInfoGeneration' = networkInfoGeneration + 1
      /\ networkInfoThread' = [NoThread EXCEPT !.at = "query",
                                 !.generation = networkInfoGeneration']
      /\ UNCHANGED << queryPublicInfo, publicInfoRefreshMode, networkInfo,
                      lastNetworkChangeRefreshTick, ready, changes, display, exiting >>
      /\ UNCHANGED world
  BY DEF Launch, settings
<1>2. networkInfoGeneration' \in Nat \ {0}
  BY <1>0, <1>1
<1>3. /\ networkInfoThread' \in ThreadType(networkInfoGeneration')
      /\ networkInfoThread'.at = "query"
      /\ networkInfoThread'.generation = networkInfoGeneration'
  <2> DEFINE g == networkInfoGeneration'
  <2>1. g \in Nat /\ networkInfoThread' = [NoThread EXCEPT !.at = "query", !.generation = g]
    BY <1>1, <1>2
  <2> HIDE DEF g
  <2>2. NoThread \in ThreadType(g) /\ g \in 0 .. g /\ "query" \in AllPlaces
    BY <2>1, NoInfoType DEF AllPlaces, Busy
  <2>3. /\ networkInfoThread' \in ThreadType(g) /\ networkInfoThread'.at = "query"
        /\ networkInfoThread'.generation = g
    BY <2>1, <2>2 DEF ThreadType
  <2>4. QED BY <2>3 DEF g
<1>4. ready' \in Seq(MessageType(networkInfoGeneration'))
  BY <1>0, <1>1, <1>2, GenerationGrows
<1>5. TypeOK'
  <2>1. /\ queryPublicInfo' \in BOOLEAN /\ publicInfoRefreshMode' \in Modes
        /\ exiting' \in BOOLEAN /\ networkInfo' \in Info
        /\ changes' = changes /\ changes >= 0
        /\ display'.text \in { "value", "failed", "querying" }
    BY <1>1 DEF IInv, TypeOK
  <2>2. /\ networkInfoRunning' \in BOOLEAN /\ networkInfoRestartPending' \in BOOLEAN
        /\ networkInfoGeneration' \in Nat /\ ui' \in { "loop", "start", "join" }
        /\ lastNetworkInfoQueryTick' = now
        /\ lastNetworkChangeRefreshTick' = lastNetworkChangeRefreshTick
        /\ UNCHANGED world
    BY <1>1, <1>2
  <2>3. QED BY <1>3, <1>4, <2>1, <2>2, TypeRest
<1>6. queryPublicInfo'
  BY <1>1 DEF IInv, OffIsOff
<1>7. RunningFollows' /\ OffIsOff' /\ OffIsSuperseded'
  BY <1>1, <1>2, <1>3, <1>6 DEF RunningFollows, OffIsOff, OffIsSuperseded, Busy
<1>8. QED BY <1>5, <1>7 DEF IInv
LEMMA ReadyStep == ASSUME IInv, OnNetworkInfoReady PROVE IInv'
<1>0. /\ networkInfoThread \in ThreadType(networkInfoGeneration)
      /\ ready \in Seq(MessageType(networkInfoGeneration)) /\ networkInfoGeneration \in Nat
  BY TypeParts DEF IInv
<1>1. /\ ui = "loop" /\ networkInfoRestartPending' = FALSE
      /\ UNCHANGED << queryPublicInfo, publicInfoRefreshMode, networkInfoRunning,
                      lastNetworkInfoQueryTick, lastNetworkChangeRefreshTick, changes, exiting >>
      /\ UNCHANGED world
  BY DEF OnNetworkInfoReady, Handles, settings, ticks
<1>2. ready # << >> /\ ready' = Tail(ready)
  BY DEF OnNetworkInfoReady
<1>3. /\ queryPublicInfo' \in BOOLEAN /\ networkInfoRunning' \in BOOLEAN
      /\ networkInfoRestartPending' \in BOOLEAN /\ exiting' \in BOOLEAN
      /\ publicInfoRefreshMode' \in Modes
      /\ changes' = changes /\ changes' >= 0
      /\ networkInfo \in Info /\ ui \in { "loop", "start", "join" }
  <2>1. networkInfoRestartPending' \in BOOLEAN
    BY <1>1
  <2>2. /\ queryPublicInfo \in BOOLEAN /\ networkInfoRunning \in BOOLEAN
        /\ exiting \in BOOLEAN /\ publicInfoRefreshMode \in Modes
        /\ changes >= 0 /\ networkInfo \in Info /\ ui \in { "loop", "start", "join" }
    BY DEF IInv, TypeOK
  <2>3. QED BY <1>1, <2>1, <2>2
<1>4. CASE queryPublicInfo /\ startNetworkInfoQuery
  <2>1. /\ networkInfoGeneration' = networkInfoGeneration + 1
        /\ networkInfoGeneration' \in Nat
        /\ networkInfoThread' \in ThreadType(networkInfoGeneration')
        /\ networkInfoThread'.at = networkInfoThread.at
        /\ networkInfoThread'.generation = networkInfoThread.generation
        /\ ready \in Seq(MessageType(networkInfoGeneration'))
        /\ ui' = "start" /\ networkInfo' \in Info
        /\ display'.text \in { "value", "failed", "querying" }
    BY <1>4, Starting, Stopping
  <2>2. ready' \in Seq(MessageType(networkInfoGeneration'))
    BY <1>2, <2>1, TailKeeps
  <2>3. TypeOK'
    BY <1>1, <1>3, <2>1, <2>2, TypeRest
  <2>4. OffIsOff'
    BY <1>1, <1>4 DEF OffIsOff
  <2>5. QED BY <1>1, <1>2, <2>1, <2>3, <2>4, HandlerStep
<1>5. CASE ~(queryPublicInfo /\ startNetworkInfoQuery)
  <2>1. /\ UNCHANGED << ui, networkInfoGeneration, networkInfoThread, networkInfo >>
        /\ \/ display' = display
           \/ display' = Summary(networkInfo) /\ Head(ready).generation = networkInfoGeneration
    BY <1>5 DEF OnNetworkInfoReady, NothingStarts
  <2>2. ready' \in Seq(MessageType(networkInfoGeneration'))
    BY <1>0, <1>2, <2>1, TailKeeps
  <2>3. display'.text \in { "value", "failed", "querying" }
    BY <2>1 DEF Summary, IInv, TypeOK
  <2>4. TypeOK'
    BY <1>0, <1>1, <1>3, <2>1, <2>2, <2>3, TypeRest
  <2>5. ~queryPublicInfo => display' = display
    <3>1. Head(ready) = ready[1] /\ 1 \in 1 .. Len(ready) /\ ready[1].generation \in Nat
      <4>1. Head(ready) = ready[1] /\ Len(ready) \in Nat \ {0}
            /\ Head(ready) \in MessageType(networkInfoGeneration)
        BY <1>0, <1>2, TailKeeps
      <4>2. QED BY <4>1 DEF MessageType
    <3>2. ~queryPublicInfo => ready[1].generation < networkInfoGeneration
      BY <3>1 DEF IInv, OffIsSuperseded
    <3>3. QED BY <1>0, <2>1, <3>1, <3>2
  <2>6. OffIsOff'
    BY <1>1, <2>1, <2>5 DEF IInv, OffIsOff, Under
  <2>7. ui' # "join"
    BY <1>1, <2>1
  <2>8. QED BY <1>1, <1>2, <2>1, <2>4, <2>6, <2>7, HandlerStep
<1>6. QED BY <1>4, <1>5

\* A query that starts while messages stay where they are.
LEMMA StartStep ==
  ASSUME IInv, queryPublicInfo', startNetworkInfoQuery, UNCHANGED world,
         UNCHANGED << networkInfoRunning, networkInfoRestartPending, ready, exiting,
                      lastNetworkInfoQueryTick >>,
         publicInfoRefreshMode' \in Modes, queryPublicInfo' \in BOOLEAN,
         lastNetworkChangeRefreshTick' \in { lastNetworkChangeRefreshTick, now },
         changes' \in { changes, changes - 1 }, changes' >= 0
  PROVE  IInv'
<1>1. /\ networkInfoGeneration' = networkInfoGeneration + 1
      /\ networkInfoGeneration' \in Nat
      /\ networkInfoThread' \in ThreadType(networkInfoGeneration')
      /\ networkInfoThread'.at = networkInfoThread.at
      /\ networkInfoThread'.generation = networkInfoThread.generation
      /\ ready \in Seq(MessageType(networkInfoGeneration'))
      /\ ui' = "start" /\ networkInfo' \in Info
      /\ display'.text \in { "value", "failed", "querying" }
  BY Starting, Stopping
<1>2. TypeOK'
  BY <1>1, TypeRest DEF IInv, TypeOK
<1>3. OffIsOff'
  BY DEF OffIsOff
<1>4. QED BY <1>1, <1>2, <1>3, HandlerStep

\* Nothing starts: what the other properties look at stays.
LEMMA NothingStep ==
  ASSUME IInv, NothingStarts, TypeOK',
         UNCHANGED << networkInfoRunning, ready, queryPublicInfo >>
  PROVE  IInv'
<1>1. UNCHANGED << ui, networkInfoGeneration, networkInfoThread, display >>
  BY DEF NothingStarts
<1>2. QED BY <1>1 DEF IInv, RunningFollows, OffIsOff, OffIsSuperseded, Under

LEMMA ChangedStep == ASSUME IInv, OnNetworkInterfaceChanged PROVE IInv'
<1>0. /\ networkInfoThread \in ThreadType(networkInfoGeneration)
      /\ ready \in Seq(MessageType(networkInfoGeneration)) /\ networkInfoGeneration \in Nat
  BY TypeParts DEF IInv
<1>1. /\ UNCHANGED << queryPublicInfo, publicInfoRefreshMode, networkInfoRunning,
                      networkInfoRestartPending, ready, lastNetworkInfoQueryTick, exiting >>
      /\ UNCHANGED world
  BY DEF OnNetworkInterfaceChanged, settings
<1>2. changes' = changes - 1 /\ changes' >= 0
  <2>1. changes \in Int
    BY DEF IInv, TypeOK
  <2>2. QED BY <2>1 DEF OnNetworkInterfaceChanged
<1>3. CASE queryPublicInfo /\ startNetworkInfoQuery /\ lastNetworkChangeRefreshTick' = now
  <2>1. queryPublicInfo' /\ queryPublicInfo' \in BOOLEAN /\ publicInfoRefreshMode' \in Modes
    BY <1>1, <1>3 DEF IInv, TypeOK
  <2>2. QED BY <1>1, <1>2, <1>3, <2>1, StartStep
<1>4. CASE UNCHANGED lastNetworkChangeRefreshTick /\ NothingStarts
  <2>1. TypeOK'
    BY <1>0, <1>1, <1>2, <1>4, TypeRest DEF NothingStarts, IInv, TypeOK
  <2>2. QED BY <1>1, <1>4, <2>1, NothingStep
<1>5. QED BY <1>3, <1>4 DEF OnNetworkInterfaceChanged

LEMMA TimerStep == ASSUME IInv, OnTimer PROVE IInv'
<1>1. /\ startNetworkInfoQuery /\ queryPublicInfo
      /\ UNCHANGED << queryPublicInfo, publicInfoRefreshMode, networkInfoRunning,
                      networkInfoRestartPending, ready, lastNetworkInfoQueryTick,
                      lastNetworkChangeRefreshTick, changes, exiting >>
      /\ UNCHANGED world
  BY DEF OnTimer, settings, ticks
<1>2. /\ queryPublicInfo' /\ queryPublicInfo' \in BOOLEAN /\ publicInfoRefreshMode' \in Modes
      /\ changes' = changes /\ changes' >= 0
  BY <1>1 DEF IInv, TypeOK
<1>3. QED BY <1>1, <1>2, StartStep
LEMMA RefreshStep == ASSUME IInv, Refresh PROVE IInv'
<1>0. /\ networkInfoThread \in ThreadType(networkInfoGeneration) /\ networkInfoGeneration \in Nat
  BY TypeParts DEF IInv
<1>1. /\ startNetworkInfoQuery /\ queryPublicInfo /\ events < MaxEvents /\ events' = events + 1
      /\ UNCHANGED << queryPublicInfo, publicInfoRefreshMode, networkInfoRunning,
                      networkInfoRestartPending, ready, lastNetworkInfoQueryTick,
                      lastNetworkChangeRefreshTick, changes, exiting, network, now >>
  BY DEF Refresh, Event, settings, ticks
<1>2. /\ networkInfoGeneration' = networkInfoGeneration + 1
      /\ networkInfoGeneration' \in Nat
      /\ networkInfoThread' \in ThreadType(networkInfoGeneration')
      /\ networkInfoThread'.at = networkInfoThread.at
      /\ networkInfoThread'.generation = networkInfoThread.generation
      /\ ready \in Seq(MessageType(networkInfoGeneration'))
      /\ ui' = "start" /\ networkInfo' \in Info
      /\ display'.text \in { "value", "failed", "querying" }
  BY <1>1, Starting, Stopping
<1>3. TypeOK'
  BY <1>1, <1>2, NewEvent DEF IInv, TypeOK, ThreadType, MessageType, AllPlaces, Busy
<1>4. OffIsOff'
  BY <1>1 DEF OffIsOff
<1>5. QED BY <1>1, <1>2, <1>3, <1>4, HandlerStep

LEMMA OptionsStep == ASSUME IInv, OnOptions PROVE IInv'
<1>0. /\ networkInfoThread \in ThreadType(networkInfoGeneration) /\ networkInfoGeneration \in Nat
      /\ ready \in Seq(MessageType(networkInfoGeneration))
  BY TypeParts DEF IInv
<1>1. /\ ui = "loop" /\ events < MaxEvents /\ events' = events + 1
      /\ queryPublicInfo' \in BOOLEAN /\ publicInfoRefreshMode' \in Modes
      /\ UNCHANGED << networkInfoRunning, ready, lastNetworkInfoQueryTick,
                      lastNetworkChangeRefreshTick, changes, exiting, network, now >>
  BY DEF OnOptions, Handles, Event, ticks
<1> USE DEF ThreadType, MessageType, AllPlaces, Busy
<1>2. CASE queryPublicInfo' /\ startNetworkInfoQuery /\ UNCHANGED networkInfoRestartPending
  <2>1. /\ networkInfoGeneration' = networkInfoGeneration + 1
        /\ networkInfoGeneration' \in Nat
        /\ networkInfoThread' \in ThreadType(networkInfoGeneration')
        /\ networkInfoThread'.at = networkInfoThread.at
        /\ networkInfoThread'.generation = networkInfoThread.generation
        /\ ready \in Seq(MessageType(networkInfoGeneration'))
        /\ ui' = "start" /\ networkInfo' \in Info
        /\ display'.text \in { "value", "failed", "querying" }
    BY <1>2, Starting, Stopping
  <2>2. TypeOK'
    BY <1>1, <1>2, <2>1, NewEvent DEF IInv, TypeOK
  <2>3. OffIsOff'
    BY <1>2 DEF OffIsOff
  <2>4. QED BY <1>1, <2>1, <2>2, <2>3, HandlerStep
<1>3. CASE /\ queryPublicInfo /\ ~queryPublicInfo' /\ networkInfoRestartPending' = FALSE
           /\ stopNetworkInfoQuery /\ networkInfo' = NoInfo
           /\ display' = Fixed("failed") /\ UNCHANGED ui
  <2>1. /\ networkInfoGeneration' = networkInfoGeneration + 1
        /\ networkInfoGeneration' \in Nat
        /\ networkInfoThread' \in ThreadType(networkInfoGeneration')
        /\ networkInfoThread'.at = networkInfoThread.at
        /\ networkInfoThread'.generation = networkInfoThread.generation
        /\ networkInfoThread.at \in Busy \cup {"post"} => networkInfoThread'.stop
        /\ ready \in Seq(MessageType(networkInfoGeneration'))
    BY <1>3, Stopping
  <2>2. networkInfo' \in Info /\ display'.text = "failed" /\ ui' = "loop"
    BY <1>1, <1>3, NoInfoType DEF Fixed
  <2>3. TypeOK'
    BY <1>1, <1>3, <2>1, <2>2, NewEvent DEF IInv, TypeOK
  <2>4. OffIsOff'
    BY <1>0, <1>3, <2>1, <2>2 DEF OffIsOff, Under
  <2>5. QED BY <1>1, <2>1, <2>2, <2>3, <2>4, HandlerStep
<1>4. CASE /\ NothingStarts /\ UNCHANGED networkInfoRestartPending
           /\ ~queryPublicInfo' => ~queryPublicInfo
  <2>1. UNCHANGED << ui, networkInfoGeneration, networkInfoThread, networkInfo, display >>
    BY <1>4 DEF NothingStarts
  <2>2. TypeOK'
    BY <1>1, <1>4, <2>1, NewEvent DEF IInv, TypeOK
  <2>3. OffIsOff'
    BY <1>1, <1>4, <2>1 DEF IInv, OffIsOff, Under
  <2>4. ui' # "join"
    BY <1>1, <2>1
  <2>5. QED BY <1>1, <1>4, <2>1, <2>2, <2>3, <2>4, HandlerStep
<1>5. QED BY <1>1, <1>2, <1>3, <1>4 DEF OnOptions

LEMMA CloseStep == ASSUME IInv, OnClose PROVE IInv'
<1>0. /\ networkInfoThread \in ThreadType(networkInfoGeneration) /\ networkInfoGeneration \in Nat
  BY TypeParts DEF IInv
<1>1. /\ ui = "loop" /\ events < MaxEvents /\ events' = events + 1 /\ exiting' = TRUE
      /\ stopNetworkInfoQuery
      /\ UNCHANGED << queryPublicInfo, publicInfoRefreshMode, networkInfoRunning,
                      networkInfoRestartPending, networkInfo, ready, lastNetworkInfoQueryTick,
                      lastNetworkChangeRefreshTick, changes, ui, display, network, now >>
  BY DEF OnClose, Handles, Event, settings, ticks
<1>2. /\ networkInfoGeneration' = networkInfoGeneration + 1
      /\ networkInfoGeneration' \in Nat
      /\ networkInfoThread' \in ThreadType(networkInfoGeneration')
      /\ networkInfoThread'.at = networkInfoThread.at
      /\ networkInfoThread'.generation = networkInfoThread.generation
      /\ networkInfoThread.at \in Busy \cup {"post"} => networkInfoThread'.stop
      /\ ready \in Seq(MessageType(networkInfoGeneration'))
  BY <1>1, Stopping
<1>3. TypeOK'
  BY <1>1, <1>2, NewEvent DEF IInv, TypeOK, ThreadType, MessageType, AllPlaces, Busy
<1>4. OffIsOff'
  BY <1>0, <1>1, <1>2 DEF IInv, OffIsOff, Under, ThreadType, AllPlaces, Busy
<1>5. ui' # "join"
  BY <1>1
<1>6. QED BY <1>1, <1>2, <1>3, <1>4, <1>5, HandlerStep

\* Steps outside the dialog, and none.
LEMMA WorldStep == ASSUME IInv, NetworkChange \/ Tick \/ UNCHANGED vars PROVE IInv'
<1>1. UNCHANGED << queryPublicInfo, publicInfoRefreshMode, networkInfoGeneration,
                   networkInfoRunning, networkInfoRestartPending, networkInfoThread,
                   networkInfo, lastNetworkInfoQueryTick, lastNetworkChangeRefreshTick,
                   ready, ui, display, exiting >>
  BY DEF NetworkChange, Tick, vars, settings, ticks
<1>2. /\ now' \in 1 .. MaxNow /\ events' \in 1 .. MaxEvents /\ changes' \in 0 .. events'
      /\ network' \in 1 .. events' /\ now <= now'
  BY NetworkInfoAssumption DEF NetworkChange, Tick, vars, world, Event, IInv, TypeOK
<1>3. lastNetworkInfoQueryTick' \in 0 .. now' /\ lastNetworkChangeRefreshTick' \in 0 .. now'
  BY <1>1, <1>2, NetworkInfoAssumption DEF IInv, TypeOK
<1>4. TypeOK'
  BY <1>1, <1>2, <1>3 DEF IInv, TypeOK
<1>5. QED BY <1>1, <1>4 DEF IInv, RunningFollows, OffIsOff, OffIsSuperseded, Under

-----------------------------------------------------------------------------
\* The invariant holds whatever the user, the network and the threads do.
THEOREM InfoInvariant == Spec => []IInv
<1>1. IInv /\ [Next]_vars => IInv'
  BY ThreadStep, PostStep, StartOrDeferStep, LaunchStep, ReadyStep, ChangedStep, TimerStep,
     RefreshStep, OptionsStep, CloseStep, WorldStep
     DEF Next, Thread, Interface, Idles
<1>2. QED BY InitIInv, <1>1, PTL DEF Spec

\* Every variable of the query and its dialog keeps its type.
THEOREM InfoTypeCorrect == Spec => []TypeOK
<1>1. IInv => TypeOK
  BY DEF IInv
<1>2. QED BY <1>1, InfoInvariant, PTL

\* The interface thread never joins a query that is under way, however many
\* were superseded.
THEOREM QueryJoinIsShort == Spec => []JoinIsShort
<1>1. IInv => JoinIsShort
  <2>1. IInv => networkInfoThread.at \in AllPlaces
    BY TypeParts DEF IInv, ThreadType
  <2>2. QED BY <2>1 DEF IInv, RunningFollows, JoinIsShort, Under, AllPlaces, Busy
<1>2. QED BY <1>1, InfoInvariant, PTL

\* Turned off, the query stays off: nothing runs on that was not told to stop,
\* and no late result is displayed.
THEOREM OffStaysOff == Spec => []OffIsOff
<1>1. IInv => OffIsOff
  BY DEF IInv
<1>2. QED BY <1>1, InfoInvariant, PTL

-----------------------------------------------------------------------------
\* What becomes of a refresh.  While the interface is not about to start a query
\* the display owes its next change to the query under way, to its message, or
\* to the message of the query it waits for; or it is up to date.

Wanted ==
  /\ networkInfoThread.at \in Busy \cup {"post"}
  /\ networkInfoThread.generation = networkInfoGeneration /\ ~networkInfoThread.stop
  /\ networkInfoThread.at \in { "store", "end", "post" } => networkInfoThread.deliver
  /\ networkInfoThread.at \in { "end", "post" } => ~networkInfo.refreshing

Answered ==
  /\ networkInfoThread.at \in { "none", "done" } /\ ~networkInfo.refreshing
  /\ \E i \in 1 .. Len(ready) :
       ready[i].generation = networkInfoGeneration /\ ready[i].delivered

Shown ==
  /\ networkInfoThread.at \in { "none", "done" } /\ ~networkInfo.refreshing
  /\ display = Summary(networkInfo)

MessageComes == networkInfoThread.at \in Busy \cup {"post"} \/ ready # << >>

ResultIsClean == ~networkInfoThread.value.refreshing

RefreshFollows ==
  queryPublicInfo /\ ~exiting /\ ui = "loop" =>
    IF networkInfoRestartPending THEN MessageComes ELSE Wanted \/ Answered \/ Shown

UpToDate == ResultIsClean /\ RefreshFollows

LEMMA InitUpToDate == Init => UpToDate
  BY DEF Init, NoThread, NoInfo, UpToDate, ResultIsClean, RefreshFollows

\* The thread, up to its message.
LEMMA ThreadUpToDate ==
  ASSUME IInv, UpToDate, Query \/ Decide \/ Store \/ EndRunning
  PROVE  UpToDate'
<1>0. networkInfoThread \in ThreadType(networkInfoGeneration) /\ networkInfo \in Info
  BY TypeParts DEF IInv, TypeOK
<1>1. UNCHANGED << queryPublicInfo, networkInfoGeneration, networkInfoRestartPending,
                   ui, display, exiting, ready >>
  BY DEF Query, Decide, Store, EndRunning, InterfaceKeeps, settings
<1>2. /\ networkInfoThread.at \in Busy /\ networkInfoThread'.at \in Busy \cup {"post"}
      /\ ResultIsClean'
      /\ Wanted => Wanted'
  <2>1. CASE Query
    <3>1. PICK value \in { 0, network }, servers \in BOOLEAN :
            networkInfoThread' = [networkInfoThread EXCEPT !.at = "decide",
              !.value = [NoInfo EXCEPT !.value = value, !.servers = servers]]
      BY <2>1 DEF Query
    <3>2. ~[NoInfo EXCEPT !.value = value, !.servers = servers].refreshing
      BY DEF NoInfo
    <3>3. UNCHANGED networkInfo /\ networkInfoThread.at = "query"
      BY <2>1 DEF Query
    <3>4. QED BY <1>0, <1>1, <3>1, <3>2, <3>3
              DEF ThreadType, Busy, Wanted, ResultIsClean
  <2>2. CASE Decide
    BY <1>0, <1>1, <2>2 DEF Decide, ThreadType, Busy, Wanted, UpToDate, ResultIsClean
  <2>3. CASE Store
    <3>1. /\ networkInfoThread.at = "store" /\ networkInfoThread'.at = "end"
          /\ UNCHANGED << networkInfoThread.generation, networkInfoThread.stop,
                          networkInfoThread.deliver >>
          /\ networkInfoThread'.value = NoInfo
      BY <1>0, <2>3 DEF Store, ThreadType
    <3>2. networkInfoThread.deliver => ~networkInfo'.refreshing
      BY <1>0, <2>3 DEF Store, Info, UpToDate, ResultIsClean
    <3>3. ~NoInfo.refreshing
      BY DEF NoInfo
    <3>4. QED BY <1>1, <3>1, <3>2, <3>3 DEF Busy, Wanted, ResultIsClean
  <2>4. CASE EndRunning
    BY <1>0, <1>1, <2>4 DEF EndRunning, ThreadType, Busy, Wanted, UpToDate, ResultIsClean
  <2>5. QED BY <2>1, <2>2, <2>3, <2>4
<1>3. ~Answered /\ ~Shown
  BY <1>2 DEF Answered, Shown, Busy
<1>4. MessageComes'
  BY <1>2 DEF MessageComes
<1>5. QED BY <1>1, <1>2, <1>3, <1>4 DEF UpToDate, RefreshFollows

\* The message of the query that is wanted says that there is a result.
LEMMA PostUpToDate == ASSUME IInv, UpToDate, Post PROVE UpToDate'
<1>0. ready \in Seq(MessageType(networkInfoGeneration))
  BY TypeParts DEF IInv
<1>1. UNCHANGED << queryPublicInfo, networkInfoGeneration, networkInfoRestartPending,
                   networkInfo, ui, display, exiting >>
  BY DEF Post, InterfaceKeeps, settings
<1> DEFINE m == [ generation |-> networkInfoThread.generation,
                  delivered  |-> networkInfoThread.deliver ]
<1>2. networkInfoThread.at = "post" /\ ready' = Append(ready, m)
  BY DEF Post
<1>3. networkInfoThread' = [NoThread EXCEPT !.at = "done"]
  BY DEF Post
<1>4. networkInfoThread'.at = "done" /\ ResultIsClean'
  BY <1>3 DEF NoThread, NoInfo, ResultIsClean
<1>5. /\ Len(ready') \in Nat \ {0} /\ Len(ready') \in 1 .. Len(ready')
      /\ ready'[Len(ready')] = m /\ ready' # << >>
  <2>. HIDE DEF m
  <2>. QED BY <1>0, <1>2
<1>6. Wanted => Answered'
  <2>1. Wanted => m.generation = networkInfoGeneration /\ m.delivered /\ ~networkInfo.refreshing
    BY <1>2 DEF Wanted
  <2>. HIDE DEF m
  <2>. QED BY <1>1, <1>4, <1>5, <2>1 DEF Answered
<1>7. MessageComes' /\ ~Answered /\ ~Shown
  BY <1>2, <1>5 DEF MessageComes, Answered, Shown
<1>. QED BY <1>1, <1>4, <1>6, <1>7 DEF UpToDate, RefreshFollows

\* A query that is told to stop keeps what it found.
LEMMA StoppingIsClean ==
  ASSUME UpToDate, IInv, stopNetworkInfoQuery
  PROVE  ResultIsClean'
<1>1. networkInfoThread \in ThreadType(networkInfoGeneration)
  BY TypeParts DEF IInv
<1>. QED BY <1>1 DEF stopNetworkInfoQuery, ThreadType, UpToDate, ResultIsClean

LEMMA StartUpToDate ==
  ASSUME UpToDate, IInv, startNetworkInfoQuery
  PROVE  UpToDate'
<1>1. ResultIsClean'
  BY StoppingIsClean DEF startNetworkInfoQuery
<1>. QED BY <1>1 DEF startNetworkInfoQuery, UpToDate, RefreshFollows

\* The query before is waited for, and its message will come; or it is joined.
LEMMA BeginsUpToDate ==
  ASSUME IInv, UpToDate, StartOrDefer \/ Launch
  PROVE  UpToDate'
<1>1. CASE StartOrDefer
  <2>1. UNCHANGED << networkInfoThread, networkInfoRunning >>
    BY <1>1 DEF StartOrDefer
  <2>2. ui' = "loop" => networkInfoRunning /\ networkInfoRestartPending'
    BY <1>1 DEF StartOrDefer
  <2>3. networkInfoRunning => MessageComes'
    BY <2>1 DEF IInv, RunningFollows, MessageComes
  <2>. QED BY <2>1, <2>2, <2>3 DEF UpToDate, RefreshFollows, ResultIsClean
<1>2. CASE Launch
  <2>1. networkInfoThread' = [NoThread EXCEPT !.at = "query",
                                              !.generation = networkInfoGeneration']
    BY <1>2 DEF Launch
  <2>2. /\ networkInfoThread'.at = "query" /\ networkInfoThread'.generation = networkInfoGeneration'
        /\ ~networkInfoThread'.stop /\ ResultIsClean'
    BY <2>1 DEF NoThread, NoInfo, ResultIsClean
  <2>3. Wanted' /\ ~networkInfoRestartPending'
    BY <1>2, <2>2 DEF Wanted, Busy, Launch
  <2>. QED BY <2>2, <2>3 DEF UpToDate, RefreshFollows
<1>. QED BY <1>1, <1>2

\* A message brings the display up to date, starts the query that is waiting, or
\* is one of those that count no more.
LEMMA ReadyUpToDate == ASSUME IInv, UpToDate, OnNetworkInfoReady PROVE UpToDate'
<1>0. ready \in Seq(MessageType(networkInfoGeneration))
  BY TypeParts DEF IInv
<1>1. UNCHANGED << queryPublicInfo, exiting >> /\ ~networkInfoRestartPending' /\ ui = "loop"
  BY DEF OnNetworkInfoReady, settings, Handles
<1>2. CASE queryPublicInfo /\ startNetworkInfoQuery
  BY <1>2, StartUpToDate
<1>3. CASE ~queryPublicInfo /\ UNCHANGED networkInfoThread
  BY <1>1, <1>3 DEF UpToDate, RefreshFollows, ResultIsClean
<1>4. CASE queryPublicInfo /\ ~startNetworkInfoQuery
  <2>1. UNCHANGED << networkInfoGeneration, networkInfoThread, networkInfo >>
        /\ ~networkInfoRestartPending
    BY <1>4 DEF OnNetworkInfoReady, NothingStarts
  <2>2. IF Head(ready).generation = networkInfoGeneration /\ Head(ready).delivered
        THEN display' = Summary(networkInfo) ELSE display' = display
    BY <1>4, <2>1 DEF OnNetworkInfoReady, NothingStarts
  <2>3. Wanted => Wanted'
    BY <2>1 DEF Wanted
  <2>4. Shown => Shown'
    BY <2>1, <2>2 DEF Shown
  <2>5. ASSUME Answered PROVE Answered' \/ Shown'
    <3>1. PICK i \in 1 .. Len(ready) :
            ready[i].generation = networkInfoGeneration /\ ready[i].delivered
      BY <2>5 DEF Answered
    <3>2. CASE i = 1
      <4>1. Head(ready) = ready[1]
        BY <1>0, TailKeeps DEF OnNetworkInfoReady
      <4>. QED BY <2>1, <2>2, <2>5, <3>1, <3>2, <4>1 DEF Answered, Shown
    <3>3. CASE i # 1
      <4>1. ready' = Tail(ready) /\ ready # << >>
        BY DEF OnNetworkInfoReady
      <4>2. i - 1 \in 1 .. Len(ready') /\ ready'[i - 1] = ready[i]
        BY <1>0, <3>3, <4>1
      <4>. QED BY <2>1, <2>5, <3>1, <4>2 DEF Answered
    <3>. QED BY <3>2, <3>3
  <2>. QED BY <1>1, <1>4, <2>1, <2>3, <2>4, <2>5 DEF UpToDate, RefreshFollows, ResultIsClean
<1>5. ~queryPublicInfo => UNCHANGED networkInfoThread
  BY DEF OnNetworkInfoReady, NothingStarts, IInv, OffIsSuperseded
<1>. QED BY <1>2, <1>3, <1>4, <1>5

\* What the display depends on.
LEMMA UpToDateRests ==
  ASSUME UpToDate,
         UNCHANGED << queryPublicInfo, networkInfoGeneration, networkInfoRestartPending,
                      networkInfoThread, networkInfo, ready, ui, display, exiting >>
  PROVE  UpToDate'
  BY DEF UpToDate, RefreshFollows, ResultIsClean, Wanted, Answered, Shown, MessageComes

LEMMA OptionsUpToDate == ASSUME IInv, UpToDate, OnOptions PROVE UpToDate'
<1>1. UNCHANGED << ready, exiting >>
  BY DEF OnOptions
<1>2. CASE startNetworkInfoQuery
  BY <1>2, StartUpToDate
<1>3. CASE ~queryPublicInfo' /\ stopNetworkInfoQuery
  BY <1>3, StoppingIsClean DEF UpToDate, RefreshFollows
<1>4. CASE NothingStarts /\ UNCHANGED << queryPublicInfo, networkInfoRestartPending >>
  BY <1>1, <1>4, UpToDateRests DEF NothingStarts
<1>5. CASE ~queryPublicInfo' /\ NothingStarts
  BY <1>5 DEF NothingStarts, UpToDate, RefreshFollows, ResultIsClean
<1>6. queryPublicInfo \in BOOLEAN /\ queryPublicInfo' \in BOOLEAN
  BY DEF IInv, TypeOK, OnOptions
<1>. QED BY <1>2, <1>3, <1>4, <1>5, <1>6 DEF OnOptions

LEMMA StepUpToDate == ASSUME IInv, UpToDate, [Next]_vars PROVE UpToDate'
<1>1. CASE OnNetworkInterfaceChanged
  <2>1. CASE startNetworkInfoQuery
    BY <2>1, StartUpToDate
  <2>2. CASE NothingStarts
    BY <1>1, <2>2, UpToDateRests DEF OnNetworkInterfaceChanged, NothingStarts, settings
  <2>. QED BY <1>1, <2>1, <2>2 DEF OnNetworkInterfaceChanged
<1>2. CASE OnTimer \/ Refresh
  BY <1>2, StartUpToDate DEF OnTimer, Refresh
<1>3. CASE OnClose
  BY <1>3, StoppingIsClean DEF OnClose, UpToDate, RefreshFollows
<1>4. CASE NetworkChange \/ Tick \/ UNCHANGED vars
  BY <1>4, UpToDateRests DEF NetworkChange, Tick, vars, settings
<1>. QED BY <1>1, <1>2, <1>3, <1>4, ThreadUpToDate, PostUpToDate, BeginsUpToDate,
            ReadyUpToDate, OptionsUpToDate DEF Next, Thread, Interface, Idles

\* Whatever queries superseded each other and in whatever order their messages
\* arrived, the dialog ends up showing what the latest one left.
THEOREM AlwaysEndsUpToDate == Spec => []EndsUpToDate
<1>1. IInv /\ UpToDate => EndsUpToDate
  <2>1. Quiet /\ queryPublicInfo /\ ~exiting => ~MessageComes /\ ~Wanted
    BY DEF Quiet, MessageComes, Wanted, Busy
  <2>2. Quiet => ~Answered
    BY DEF Quiet, Answered
  <2>. QED BY <2>1, <2>2 DEF UpToDate, RefreshFollows, Quiet, Shown, EndsUpToDate
<1>2. IInv /\ UpToDate /\ [Next]_vars => UpToDate'
  BY StepUpToDate
<1>. QED BY <1>1, <1>2, InitUpToDate, InfoInvariant, PTL DEF Spec
=============================================================================
