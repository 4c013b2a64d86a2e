---------------------------- MODULE NetworkInfo ----------------------------
(***************************************************************************)
(* The background query for the public address and its provider, which the *)
(* dialog starts at startup, when an interface changes or an interval has  *)
(* passed, when the options change and on request.                         *)
(*                                                                         *)
(* The interface thread never waits for a query under way: it asks it to   *)
(* stop, remembers that another one is wanted and starts that one when the *)
(* message of the first arrives.  ui is where startNetworkInfoQuery() is.  *)
(* The network is a version number that a query finds or does not find.    *)
(***************************************************************************)
EXTENDS Integers, Sequences

CONSTANTS
  Modes,          \* publicInfoRefreshMode values, of "on_change" and "interval"
  Debounce,       \* debounceMilliseconds
  Interval,       \* publicInfoRefreshMinutes
  MaxNow,         \* bound: the clock stops here
  MaxEvents       \* bound: interface changes, options and requests of the user

ASSUME NetworkInfoAssumption ==
  /\ Modes \subseteq { "on_change", "interval" } /\ Modes # {}
  /\ Debounce \in Nat \ {0} /\ Interval \in Nat \ {0}
  /\ MaxNow \in Nat \ {0} /\ MaxEvents \in Nat \ {0}

VARIABLES
  queryPublicInfo, publicInfoRefreshMode,
  networkInfoGeneration, networkInfoRunning, networkInfoRestartPending,
  networkInfoThread,     \* the jthread and where its query is
  networkInfo,           \* the network version known, or 0, whether a name server
                         \* of the machine is known, and the two marks
  lastNetworkInfoQueryTick, lastNetworkChangeRefreshTick,
  ready,                 \* messageNetworkInfoReady, posted and not handled
  changes,               \* messageNetworkInterfaceChanged, posted and not handled
  ui,
  display,               \* what the dialog shows
  exiting,               \* the dialog's state is EXIT
  network,               \* the version of the network now
  now, events

settings == << queryPublicInfo, publicInfoRefreshMode >>
ticks    == << lastNetworkInfoQueryTick, lastNetworkChangeRefreshTick >>
world    == << network, now, events >>

vars == << settings, networkInfoGeneration, networkInfoRunning,
           networkInfoRestartPending, networkInfoThread, networkInfo, ticks, ready,
           changes, ui, display, exiting, world >>

Versions == 0 .. MaxEvents
Info     == [ value : Versions, servers : BOOLEAN, refreshing : BOOLEAN, stale : BOOLEAN ]
NoInfo   == [ value |-> 0, servers |-> FALSE, refreshing |-> FALSE, stale |-> FALSE ]
NoThread == [ at |-> "none", stop |-> FALSE, generation |-> 0, value |-> NoInfo,
              deliver |-> FALSE ]

\* The name servers of the machine count as a result, too.
anyAvailable(info) == info.value # 0 \/ info.servers

\* The texts of the dialog: a query's result, or one of two fixed ones.
Summary(info) == [ text |-> IF info.value # 0 THEN "value" ELSE "failed", info |-> info ]
Fixed(text)   == [ text |-> text, info |-> NoInfo ]

-----------------------------------------------------------------------------
\* The thread of a query

InterfaceKeeps == UNCHANGED << settings, networkInfoGeneration,
                               networkInfoRestartPending, ticks, changes, ui, display,
                               exiting, world >>

\* queryCurrent() finds out about the network, or does not; it reads the name
\* servers of the machine unless it is cut short before, by being told to stop
\* or by its budget of eight seconds.
Query ==
  /\ networkInfoThread.at = "query"
  /\ \E value \in { 0, network }, servers \in BOOLEAN :
       networkInfoThread' = [networkInfoThread EXCEPT !.at = "decide",
         !.value = [NoInfo EXCEPT !.value = value, !.servers = servers]]
  /\ UNCHANGED << networkInfoRunning, networkInfo, ready >>
  /\ InterfaceKeeps

\* Is the result still wanted?
Decide ==
  /\ networkInfoThread.at = "decide"
  /\ networkInfoThread' = [networkInfoThread EXCEPT !.at = "store",
       !.deliver = ~networkInfoThread.stop
                     /\ networkInfoThread.generation = networkInfoGeneration]
  /\ UNCHANGED << networkInfoRunning, networkInfo, ready >>
  /\ InterfaceKeeps

\* Mutant: a query that found nothing leaves the marks alone.
Store_keeps_marks ==
  /\ networkInfoThread.at = "store"
  /\ networkInfoThread' = [networkInfoThread EXCEPT !.at = "end", !.value = NoInfo]
  /\ networkInfo' =
       IF networkInfoThread.deliver /\ anyAvailable(networkInfoThread.value)
       THEN networkInfoThread.value ELSE networkInfo
  /\ UNCHANGED << networkInfoRunning, ready >>
  /\ InterfaceKeeps

\* The result replaces what was known, unless there is none: then what was
\* known stays and is marked.  By now it may not be wanted any more.
Store ==
  /\ networkInfoThread.at = "store"
  /\ networkInfoThread' = [networkInfoThread EXCEPT !.at = "end", !.value = NoInfo]
  /\ networkInfo' =
       IF ~networkInfoThread.deliver THEN networkInfo
       ELSE IF anyAvailable(networkInfoThread.value) \/ ~anyAvailable(networkInfo)
       THEN networkInfoThread.value
       ELSE [networkInfo EXCEPT !.refreshing = FALSE, !.stale = TRUE]
  /\ UNCHANGED << networkInfoRunning, ready >>
  /\ InterfaceKeeps

EndRunning ==
  /\ networkInfoThread.at = "end"
  /\ networkInfoThread' = [networkInfoThread EXCEPT !.at = "post"]
  /\ networkInfoRunning' = FALSE
  /\ UNCHANGED << networkInfo, ready >>
  /\ InterfaceKeeps

Post ==
  /\ networkInfoThread.at = "post"
  /\ networkInfoThread' = [NoThread EXCEPT !.at = "done"]
  /\ ready' = Append(ready, [ generation |-> networkInfoThread.generation,
                              delivered  |-> networkInfoThread.deliver ])
  /\ UNCHANGED << networkInfoRunning, networkInfo >>
  /\ InterfaceKeeps

Thread == Query \/ Decide \/ Store \/ EndRunning \/ Post

-----------------------------------------------------------------------------
\* The interface thread

Handles == ui = "loop"

\* stopNetworkInfoQuery()
stopNetworkInfoQuery ==
  /\ networkInfoGeneration' = networkInfoGeneration + 1
  /\ networkInfoThread' = IF networkInfoThread.at \in { "none", "done" } THEN networkInfoThread
                          ELSE [networkInfoThread EXCEPT !.stop = TRUE]

\* startNetworkInfoQuery() up to its look at the query before.
startNetworkInfoQuery ==
  /\ ui' = "start"
  /\ stopNetworkInfoQuery
  /\ networkInfo' = [networkInfo EXCEPT !.refreshing = TRUE, !.stale = FALSE]
  /\ display' = IF anyAvailable(networkInfo) THEN Summary(networkInfo') ELSE Fixed("querying")

NothingStarts == UNCHANGED << ui, networkInfoGeneration, networkInfoThread, networkInfo,
                              display >>

\* Mutant: the old query is always joined.
StartOrDefer_always_joins ==
  /\ ui = "start" /\ ui' = "join"
  /\ UNCHANGED << settings, networkInfoGeneration, networkInfoRunning, ready, ticks,
                  networkInfoRestartPending, networkInfoThread, networkInfo, changes,
                  display, exiting, world >>

\* The query before still runs: another one is wanted.  Or it is joined.
StartOrDefer ==
  /\ ui = "start"
  /\ IF networkInfoThread.at # "none" /\ networkInfoRunning
     THEN ui' = "loop" /\ networkInfoRestartPending' = TRUE
     ELSE ui' = "join" /\ UNCHANGED networkInfoRestartPending
  /\ UNCHANGED << settings, networkInfoGeneration, networkInfoRunning, ready, ticks,
                  networkInfoThread, networkInfo, changes, display, exiting, world >>

\* The old thread is joined and the new one started.
Launch ==
  /\ ui = "join" /\ networkInfoThread.at \in { "none", "done" } /\ ui' = "loop"
  /\ networkInfoRestartPending' = FALSE
  /\ lastNetworkInfoQueryTick' = now
  /\ networkInfoGeneration' = networkInfoGeneration + 1
  /\ networkInfoRunning' = TRUE
  /\ networkInfoThread' = [NoThread EXCEPT !.at = "query", !.generation = networkInfoGeneration']
  /\ UNCHANGED << settings, networkInfo, lastNetworkChangeRefreshTick, ready, changes,
                  display, exiting, world >>

\* Mutant: a restart that is pending is left to somebody else.
OnNetworkInfoReady_no_restart ==
  /\ Handles /\ ready # << >> /\ ready' = Tail(ready)
  /\ networkInfoRestartPending' = FALSE
  /\ IF ~networkInfoRestartPending /\ Head(ready).delivered
          /\ Head(ready).generation = networkInfoGeneration
     THEN /\ display' = Summary(networkInfo)
          /\ UNCHANGED << ui, networkInfoGeneration, networkInfoThread, networkInfo >>
     ELSE NothingStarts
  /\ UNCHANGED << settings, networkInfoRunning, ticks, changes, exiting, world >>

OnNetworkInfoReady ==
  /\ Handles /\ ready # << >> /\ ready' = Tail(ready)
  /\ networkInfoRestartPending' = FALSE
  /\ IF networkInfoRestartPending
     THEN IF queryPublicInfo THEN startNetworkInfoQuery ELSE NothingStarts
     ELSE IF Head(ready).generation = networkInfoGeneration /\ Head(ready).delivered
     THEN /\ display' = Summary(networkInfo)
          /\ UNCHANGED << ui, networkInfoGeneration, networkInfoThread, networkInfo >>
     ELSE NothingStarts
  /\ UNCHANGED << settings, networkInfoRunning, ticks, changes, exiting, world >>

\* OnNetworkInterfaceChanged(): a change soon after one that was followed is
\* dropped.
OnNetworkInterfaceChanged ==
  /\ Handles /\ changes > 0 /\ changes' = changes - 1
  /\ IF /\ queryPublicInfo /\ publicInfoRefreshMode = "on_change" /\ ~exiting
        /\ \/ lastNetworkChangeRefreshTick = 0
           \/ now - lastNetworkChangeRefreshTick >= Debounce
     THEN lastNetworkChangeRefreshTick' = now /\ startNetworkInfoQuery
     ELSE UNCHANGED lastNetworkChangeRefreshTick /\ NothingStarts
  /\ UNCHANGED << settings, networkInfoRunning, networkInfoRestartPending, ready,
                  lastNetworkInfoQueryTick, exiting, world >>

\* OnTimer(): the interval has passed.
OnTimer ==
  /\ Handles /\ queryPublicInfo /\ publicInfoRefreshMode = "interval"
  /\ ~networkInfoRunning
  /\ lastNetworkInfoQueryTick = 0 \/ now - lastNetworkInfoQueryTick >= Interval
  /\ startNetworkInfoQuery
  /\ UNCHANGED << settings, networkInfoRunning, networkInfoRestartPending, ready, ticks,
                  changes, exiting, world >>

\* Things the user does and the network does, MaxEvents in all.
Event == events < MaxEvents /\ events' = events + 1

\* The details are shown, and refreshed.
Refresh ==
  /\ Handles /\ Event /\ queryPublicInfo /\ anyAvailable(networkInfo)
  /\ startNetworkInfoQuery
  /\ UNCHANGED << settings, networkInfoRunning, networkInfoRestartPending, ready, ticks,
                  changes, exiting, network, now >>

\* Mutant: the query under way goes on.
OnOptions_lets_it_run ==
  /\ Handles /\ Event /\ ~exiting
  /\ queryPublicInfo' \in BOOLEAN /\ publicInfoRefreshMode' \in Modes
  /\ \E minutesChanged \in BOOLEAN :
     IF queryPublicInfo' /\ (~queryPublicInfo \/ minutesChanged
                             \/ publicInfoRefreshMode' # publicInfoRefreshMode)
     THEN startNetworkInfoQuery /\ UNCHANGED networkInfoRestartPending
     ELSE IF queryPublicInfo /\ ~queryPublicInfo'
     THEN /\ networkInfoRestartPending' = FALSE
          /\ networkInfo' = NoInfo /\ display' = Fixed("failed")
          /\ UNCHANGED << ui, networkInfoGeneration, networkInfoThread >>
     ELSE NothingStarts /\ UNCHANGED networkInfoRestartPending
  /\ UNCHANGED << networkInfoRunning, ready, ticks, changes, exiting, network, now >>

\* OnOptions(), which is closed to a dialog that does not idle.  Other minutes are
\* only that: Interval stands for any number of them.
OnOptions ==
  /\ Handles /\ Event /\ ~exiting
  /\ queryPublicInfo' \in BOOLEAN /\ publicInfoRefreshMode' \in Modes
  /\ \E minutesChanged \in BOOLEAN :
     IF queryPublicInfo' /\ (~queryPublicInfo \/ minutesChanged
                             \/ publicInfoRefreshMode' # publicInfoRefreshMode)
     THEN startNetworkInfoQuery /\ UNCHANGED networkInfoRestartPending
     ELSE IF queryPublicInfo /\ ~queryPublicInfo'
     THEN /\ networkInfoRestartPending' = FALSE
          /\ stopNetworkInfoQuery
          /\ networkInfo' = NoInfo /\ display' = Fixed("failed") /\ UNCHANGED ui
     ELSE NothingStarts /\ UNCHANGED networkInfoRestartPending
  /\ UNCHANGED << networkInfoRunning, ready, ticks, changes, exiting, network, now >>

\* Transit(EXIT) while a trace is still to end, so that the dialog stays.
OnClose ==
  /\ Handles /\ Event /\ ~exiting /\ exiting' = TRUE
  /\ stopNetworkInfoQuery
  /\ UNCHANGED << settings, networkInfoRunning, networkInfoRestartPending, networkInfo,
                  ready, ticks, changes, ui, display, network, now >>

Interface == StartOrDefer \/ Launch \/ OnNetworkInfoReady \/ OnNetworkInterfaceChanged

-----------------------------------------------------------------------------
\* NetworkInterfaceChangeCallback()
NetworkChange ==
  /\ Event /\ network' = network + 1 /\ changes' = changes + 1
  /\ UNCHANGED << settings, networkInfoGeneration, networkInfoRunning, ready, ticks,
                  networkInfoRestartPending, networkInfoThread, networkInfo, ui, display,
                  exiting, now >>

Tick ==
  /\ now < MaxNow /\ now' = now + 1
  /\ UNCHANGED << settings, networkInfoGeneration, networkInfoRunning, ready, ticks,
                  networkInfoRestartPending, networkInfoThread, networkInfo, ui, display,
                  exiting, network, events, changes >>

\* OnInitDialog()
Init ==
  /\ queryPublicInfo \in BOOLEAN /\ publicInfoRefreshMode \in Modes
  /\ networkInfoGeneration = IF queryPublicInfo THEN 1 ELSE 0
  /\ networkInfoRunning = FALSE /\ networkInfoRestartPending = FALSE
  /\ networkInfoThread = NoThread
  /\ networkInfo = [NoInfo EXCEPT !.refreshing = queryPublicInfo]
  /\ lastNetworkInfoQueryTick = 0 /\ lastNetworkChangeRefreshTick = 0
  /\ ready = << >> /\ changes = 0
  /\ ui = IF queryPublicInfo THEN "start" ELSE "loop"
  /\ display = Fixed(IF queryPublicInfo THEN "querying" ELSE "failed")
  /\ exiting = FALSE /\ network = 1 /\ now = 1 /\ events = 1

Quiet == networkInfoThread.at \in { "none", "done" } /\ ready = << >> /\ ui = "loop"

\* The dialog has nothing to do.
Idles == Quiet /\ UNCHANGED vars

Next ==
  \/ Thread \/ Interface \/ OnTimer
  \/ Refresh \/ OnOptions \/ OnClose \/ NetworkChange \/ Tick
  \/ Idles

\* Queries end, the interface handles its messages and its timer.
Fairness == WF_vars(Thread) /\ WF_vars(Interface) /\ WF_vars(OnTimer)

Spec == Init /\ [][Next]_vars /\ Fairness

-----------------------------------------------------------------------------
\* Properties

\* Every variable keeps its type.
TypeOK ==
  /\ queryPublicInfo \in BOOLEAN /\ networkInfoRunning \in BOOLEAN
  /\ networkInfoRestartPending \in BOOLEAN /\ exiting \in BOOLEAN
  /\ publicInfoRefreshMode \in Modes
  /\ networkInfoGeneration \in Nat
  /\ networkInfoThread \in
       [ at : { "none", "query", "decide", "store", "end", "post", "done" },
         stop : BOOLEAN, generation : 0 .. networkInfoGeneration, value : Info,
         deliver : BOOLEAN ]
  /\ networkInfo \in Info
  /\ lastNetworkInfoQueryTick \in 0 .. now /\ lastNetworkChangeRefreshTick \in 0 .. now
  /\ ready \in Seq([ generation : 1 .. networkInfoGeneration, delivered : BOOLEAN ])
  /\ changes \in 0 .. events /\ network \in 1 .. events
  /\ now \in 1 .. MaxNow /\ events \in 1 .. MaxEvents
  /\ ui \in { "loop", "start", "join" }
  /\ display.text \in { "value", "failed", "querying" }

Under == networkInfoThread.at \notin { "none", "post", "done" }

\* The interface never waits for a query: one that it joins has nothing left
\* to do but to post its message.
JoinIsShort == ui = "join" => ~Under

\* Once the user has turned the query off, none is under way that was not told
\* to stop, and no late result gets on display.
OffIsOff ==
  ~queryPublicInfo =>
    /\ Under => networkInfoThread.stop
    /\ display = Fixed("failed") /\ ui = "loop"

\* Whatever queries superseded each other, in the end the dialog shows what
\* the latest one left, and does not say that it is still being refreshed.
EndsUpToDate ==
  Quiet /\ queryPublicInfo /\ ~exiting =>
    /\ display = Summary(networkInfo)
    /\ ~networkInfo.refreshing /\ ~networkInfoRestartPending

\* A refresh that was announced comes to its end, even if it has to wait for a
\* query it supersedes: the dialog does not say for ever that it is refreshing.
RefreshEnds ==
  networkInfo.refreshing ~> ~networkInfo.refreshing \/ exiting

\* A refresh that fails leaves the last address known, marked as stale; only
\* turning the query off forgets it.
LastSuccessIsKept ==
  [][queryPublicInfo /\ networkInfo.value # 0 =>
       networkInfo'.value # 0 \/ ~queryPublicInfo']_vars
=============================================================================
