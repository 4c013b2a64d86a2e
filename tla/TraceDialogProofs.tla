------------------------- MODULE TraceDialogProofs -------------------------
(***************************************************************************)
(* Proofs about TraceDialog: types, that the interface never joins a       *)
(* thread that is busy, that IDLE means that nothing runs, and that the    *)
(* dialog closes only then; however many traces there are, and however     *)
(* late their messages.                                                    *)
(*                                                                         *)
(* None of the three is inductive: each rests on what the thread's place   *)
(* says about the two flags, and on a message of the current trace being   *)
(* posted only when its thread has ended.                                  *)
(***************************************************************************)
EXTENDS TraceDialog, TLAPS

Running == { "resolve", "select", "begin", "trace", "notify", "clear" }

\* The flags follow the thread; only one that is not yet started is announced
\* by tracing alone.
FlagsFollow ==
  /\ traceThread.at \in Running => tracing
  /\ traceThread.at \in { "post", "done" } => ~tracing
  /\ traceThread.at = "none" /\ ui # "join" => ~tracing
  /\ net_tracing <=> traceThread.at \in { "trace", "notify" }
  /\ traceThread.at # "none" =>
       traceThread.generation = traceGeneration /\ traceGeneration # 0

\* The interface joins to begin a trace, when nothing is left of the one
\* before, or to become idle, when the thread has cleared its flag.
JoinIsOrderly ==
  ui = "join" =>
    \/ state = "TRACING" /\ tracing /\ traceThread.at = "none" /\ traceGeneration # 0
    \/ state = "IDLE" /\ traceThread.at \in { "post", "done" }

\* A message of the current trace means that it has ended.
MessagesAreLate ==
  \A i \in 1 .. Len(messages) :
    /\ messages[i].generation <= traceGeneration
    /\ messages[i].generation = traceGeneration => ~tracing

IInv ==
  /\ TypeOK /\ FlagsFollow /\ JoinIsOrderly /\ IdleIsIdle /\ MessagesAreLate
  /\ box => ~tracing
  /\ closed => ~tracing

-----------------------------------------------------------------------------
ThreadType == [ at : Places, stop : BOOLEAN, generation : 0 .. MaxGeneration,
                error : Errors ]
MessageType == [ generation : 1 .. MaxGeneration, error : Errors ]

\* TypeOK, one variable at a time.
TypeList ==
  /\ state \in { "IDLE", "TRACING", "STOPPING", "EXIT" }
  /\ tracing \in BOOLEAN /\ net_tracing \in BOOLEAN /\ box \in BOOLEAN
  /\ closed \in BOOLEAN /\ traceDataDirty \in BOOLEAN /\ has_data \in BOOLEAN
  /\ stale \in BOOLEAN /\ listIsVisible \in BOOLEAN
  /\ traceGeneration \in 0 .. MaxGeneration
  /\ traceThread \in ThreadType
  /\ messages \in Seq(MessageType)
  /\ ui \in { "loop", "redraw", "check", "join", "ended" }
  /\ redrawDivider \in 0 .. RedrawEvery - 1

LEMMA TypeParts == (TypeOK <=> TypeList) /\ (TypeOK' <=> TypeList')
<1>1. TypeOK <=> TypeList
  BY Zenon DEF TypeOK, TypeList, ThreadType, MessageType
<1>2. TypeOK' <=> TypeList'
  BY Zenon DEF TypeOK, TypeList, ThreadType, MessageType
<1>3. QED BY <1>1, <1>2

\* What Goes does to the thread.
LEMMA GoesMoves ==
  ASSUME traceThread \in ThreadType, NEW from \in Places, NEW to \in Places,
         NEW error \in Errors, Goes(from, to, error)
  PROVE  /\ traceThread.at = from /\ traceThread' \in ThreadType
         /\ traceThread'.at = to /\ traceThread'.error = error
         /\ traceThread'.generation = traceThread.generation
  BY DEF Goes, ThreadType

\* Asking a thread to stop leaves it where it is.
LEMMA AskingStays ==
  ASSUME traceThread \in ThreadType
  PROVE  /\ AskedToStop \in ThreadType
         /\ AskedToStop.at = traceThread.at
         /\ AskedToStop.generation = traceThread.generation
  BY DEF AskedToStop, ThreadType

LEMMA NoThreadIsNone == NoThread \in ThreadType /\ NoThread.at = "none"
  <1>1. MaxGeneration \in Nat
    BY TraceDialogAssumption
  <1>2. QED BY <1>1 DEF NoThread, ThreadType, Places, Errors

\* A message that is handled is one that was posted.
LEMMA TailKeeps ==
  ASSUME NEW T, NEW m \in Seq(T), m # << >>
  PROVE  /\ Tail(m) \in Seq(T) /\ Head(m) \in T /\ Head(m) = m[1] /\ Len(m) \in Nat \ {0}
         /\ Len(Tail(m)) = Len(m) - 1
         /\ \A i \in 1 .. Len(Tail(m)) : Tail(m)[i] = m[i + 1]
  OBVIOUS

LEMMA InitIInv == Init => IInv
<1> SUFFICES ASSUME Init PROVE IInv
  OBVIOUS
<1>1. TypeOK
  <2>1. << >> \in Seq(MessageType)
    OBVIOUS
  <2>2. 0 \in 0 .. MaxGeneration /\ 0 \in 0 .. RedrawEvery - 1
    BY TraceDialogAssumption
  <2>3. QED BY <2>1, <2>2, NoThreadIsNone, TypeParts DEF Init, TypeList
<1>2. FlagsFollow /\ JoinIsOrderly /\ IdleIsIdle /\ (box => ~tracing) /\ (closed => ~tracing)
  BY NoThreadIsNone DEF Init, FlagsFollow, JoinIsOrderly, IdleIsIdle, Running
<1>3. MessagesAreLate
  BY DEF Init, MessagesAreLate
<1>4. QED BY <1>1, <1>2, <1>3 DEF IInv

-----------------------------------------------------------------------------
\* What a step of the thread keeps, and what it has to show for the rest.

\* The thread goes on towards its end; the flag falls as it passes "clear".
LEMMA ThreadGoesOn ==
  ASSUME IInv, InterfaceKeeps,
         NEW from \in Running, NEW to \in Places \ {"none"}, NEW error \in Errors,
         Goes(from, to, error),
         messages' = messages, traceDataDirty' \in BOOLEAN,
         has_data' \in BOOLEAN, stale' \in BOOLEAN, net_tracing' \in BOOLEAN,
         (tracing' <=> to \in Running), tracing' \in BOOLEAN,
         net_tracing' <=> to \in { "trace", "notify" }
  PROVE  IInv'
<1>0. /\ traceThread \in ThreadType /\ from \in Places /\ to \in Places
  BY TypeParts DEF IInv, TypeList, Running, Places
<1>1. /\ traceThread.at = from /\ traceThread' \in ThreadType
      /\ traceThread'.at = to /\ traceThread'.generation = traceThread.generation
  BY <1>0, GoesMoves
<1>2. tracing
  BY <1>1 DEF IInv, FlagsFollow
<1>3. /\ UNCHANGED << state, traceGeneration, ui, box, closed, redrawDivider,
                      listIsVisible >>
  BY DEF InterfaceKeeps
<1>4. TypeOK'
  BY <1>1, <1>3, TypeParts DEF IInv, TypeList
<1>5. ui # "join" /\ state # "IDLE" /\ ~box /\ ~closed
  BY <1>1, <1>2 DEF IInv, JoinIsOrderly, IdleIsIdle, Running
<1>6. FlagsFollow'
  BY <1>1, <1>3, <1>5 DEF IInv, FlagsFollow, Running, Places
<1>7. JoinIsOrderly' /\ IdleIsIdle' /\ (box => ~tracing)' /\ (closed => ~tracing)'
  BY <1>3, <1>5 DEF JoinIsOrderly, IdleIsIdle
<1>8. MessagesAreLate'
  BY <1>2, <1>3 DEF IInv, MessagesAreLate
<1>9. QED BY <1>4, <1>6, <1>7, <1>8 DEF IInv

LEMMA ThreadStep ==
  ASSUME IInv, Resolve \/ Select \/ Begin \/ Commit \/ Notify \/ Finish \/ Clear
  PROVE  IInv'
<1>0. /\ traceThread \in ThreadType /\ tracing \in BOOLEAN /\ net_tracing \in BOOLEAN
      /\ has_data \in BOOLEAN /\ stale \in BOOLEAN /\ traceDataDirty \in BOOLEAN
  BY TypeParts DEF IInv, TypeList
<1>1. /\ traceThread.at \in Running => tracing
      /\ net_tracing <=> traceThread.at \in { "trace", "notify" }
  BY DEF IInv, FlagsFollow
<1>2. traceThread.error \in Errors
  BY <1>0 DEF ThreadType
<1> DEFINE Moves(from, to, error) ==
      /\ from \in Running /\ to \in Places \ {"none"} /\ error \in Errors
      /\ Goes(from, to, error)
      /\ (tracing' <=> to \in Running) /\ tracing' \in BOOLEAN
      /\ net_tracing' <=> to \in { "trace", "notify" }
<1>3. /\ InterfaceKeeps /\ messages' = messages /\ traceDataDirty' \in BOOLEAN
      /\ has_data' \in BOOLEAN /\ stale' \in BOOLEAN /\ net_tracing' \in BOOLEAN
  BY <1>0 DEF Resolve, Select, Begin, Commit, Notify, Finish, Clear, data_vars
<1>4. \E from, to, error : Moves(from, to, error)
  <2>1. CASE Resolve
    <3>1. Moves("resolve", "select", "success") \/ Moves("resolve", "clear", "not_found")
      BY <1>0, <1>1, <2>1 DEF Resolve, Goes, Running, Places, Errors
    <3>2. QED BY <3>1
  <2>2. CASE Select
    <3>1. \/ Moves("select", "clear", "cancelled") \/ Moves("select", "begin", "success")
          \/ Moves("select", "clear", "failed")
      BY <1>0, <1>1, <2>2 DEF Select, Goes, Running, Places, Errors
    <3>2. QED BY <3>1
  <2>3. CASE Begin
    <3>1. \/ Moves("begin", "trace", "success") \/ Moves("begin", "clear", "success")
          \/ Moves("begin", "clear", "failed")
      BY <1>0, <1>1, <2>3 DEF Begin, Goes, Running, Places, Errors
    <3>2. QED BY <3>1
  <2>4. CASE Commit
    <3>1. Moves("trace", "notify", "success")
      BY <1>0, <1>1, <2>4 DEF Commit, Goes, Running, Places, Errors
    <3>2. QED BY <3>1
  <2>5. CASE Notify
    <3>1. Moves("notify", "trace", "success")
      BY <1>0, <1>1, <2>5 DEF Notify, Goes, Running, Places, Errors
    <3>2. QED BY <3>1
  <2>6. CASE Finish
    <3>1. Moves("trace", "clear", "success") \/ Moves("trace", "clear", "failed")
      BY <1>0, <1>1, <2>6 DEF Finish, Goes, Running, Places, Errors
    <3>2. QED BY <3>1
  <2>7. CASE Clear
    <3>1. Goes("clear", "post", traceThread.error) /\ tracing' = FALSE
          /\ net_tracing' = net_tracing
      BY <2>7 DEF Clear
    <3>2. traceThread.at = "clear"
      BY <3>1 DEF Goes
    <3>3. ~net_tracing'
      BY <1>1, <3>1, <3>2
    <3>4. "clear" \in Running /\ "post" \in Places \ {"none"} /\ "post" \notin Running
      BY DEF Running, Places
    <3>5. (tracing' <=> "post" \in Running) /\ tracing' \in BOOLEAN
      BY <3>1, <3>4
    <3>6. net_tracing' <=> "post" \in { "trace", "notify" }
      BY <3>3
    <3>7. Moves("clear", "post", traceThread.error)
      BY <1>2, <3>1, <3>4, <3>5, <3>6, Zenon
    <3>8. QED BY <3>7
  <2>8. QED BY <2>1, <2>2, <2>3, <2>4, <2>5, <2>6, <2>7
<1>5. PICK from, to, error : Moves(from, to, error)
  BY <1>4
<1>6. QED BY <1>3, <1>5, ThreadGoesOn

\* The message carries the generation of a thread that has cleared its flag.
LEMMA PostStep == ASSUME IInv, Post PROVE IInv'
<1>0. /\ traceThread \in ThreadType /\ messages \in Seq(MessageType)
      /\ traceGeneration \in 0 .. MaxGeneration
  BY TypeParts DEF IInv, TypeList
<1>1. /\ traceThread.at = "post" /\ traceThread' \in ThreadType
      /\ traceThread'.at = "done" /\ traceThread'.generation = traceThread.generation
  <2>1. traceThread.error \in Errors /\ Goes("post", "done", traceThread.error)
    BY <1>0 DEF Post, ThreadType
  <2>2. "post" \in Places /\ "done" \in Places
    BY DEF Places
  <2>3. QED BY <1>0, <2>1, <2>2, GoesMoves
<1>2. /\ UNCHANGED << state, traceGeneration, ui, box, closed, redrawDivider, listIsVisible >>
      /\ UNCHANGED << tracing, net_tracing, has_data, stale, traceDataDirty >>
  BY DEF Post, InterfaceKeeps, data_vars
<1>3. ~tracing /\ traceThread.generation = traceGeneration /\ traceGeneration # 0
  BY <1>1 DEF IInv, FlagsFollow
<1> DEFINE m == [ generation |-> traceThread.generation, error |-> Reported ]
<1>4. m \in MessageType /\ m.generation = traceGeneration
  <2>1. Reported \in Errors
    BY <1>0 DEF Reported, ThreadType, Errors
  <2>2. traceThread.generation \in 1 .. MaxGeneration
    BY <1>0, <1>3, TraceDialogAssumption
  <2>3. QED BY <1>3, <2>1, <2>2 DEF MessageType
<1>5. messages' = Append(messages, m) \/ messages' = messages
  BY DEF Post
<1> HIDE DEF m
<1>6. TypeOK'
  <2>1. messages' \in Seq(MessageType)
    BY <1>0, <1>4, <1>5
  <2>2. QED BY <1>1, <1>2, <2>1, TypeParts DEF IInv, TypeList
<1>7. FlagsFollow'
  BY <1>1, <1>2, <1>3 DEF IInv, FlagsFollow, Running
<1>8. JoinIsOrderly' /\ IdleIsIdle' /\ (box => ~tracing)' /\ (closed => ~tracing)'
  BY <1>1, <1>2, <1>3 DEF IInv, JoinIsOrderly, IdleIsIdle
<1>9. MessagesAreLate'
  BY <1>0, <1>2, <1>3, <1>4, <1>5 DEF IInv, MessagesAreLate
<1>10. QED BY <1>6, <1>7, <1>8, <1>9 DEF IInv

-----------------------------------------------------------------------------
\* The interface. A step that leaves the thread in place and the flags alone
\* keeps what is known of them.

LEMMA StartStep == ASSUME IInv, Start PROVE IInv'
<1>0. /\ traceThread \in ThreadType /\ traceGeneration \in 0 .. MaxGeneration
      /\ MaxGeneration \in Nat
  BY TypeParts, TraceDialogAssumption DEF IInv, TypeList
<1>1. /\ AskedToStop \in ThreadType /\ AskedToStop.at = traceThread.at
  BY <1>0, AskingStays
<1>2. /\ ui = "loop" /\ ~closed /\ ~box /\ state = "IDLE" /\ traceGeneration < MaxGeneration
      /\ has_data' = FALSE /\ stale' = TRUE /\ listIsVisible' = FALSE
      /\ state' = "TRACING" /\ tracing' = TRUE /\ traceGeneration' = traceGeneration + 1
      /\ ui' = "join" /\ traceThread' = AskedToStop
      /\ UNCHANGED << net_tracing, messages, box, closed, traceDataDirty, redrawDivider >>
  BY DEF Start, Handles, ClearDisplay
<1>3. traceThread.at = "none" /\ ~net_tracing
  BY <1>2 DEF IInv, IdleIsIdle
<1>4. TypeOK'
  <2>1. traceGeneration' \in 0 .. MaxGeneration
    BY <1>0, <1>2
  <2>2. traceThread' \in ThreadType
    BY <1>1, <1>2
  <2>3. TypeList
    BY TypeParts DEF IInv
  <2>4. QED BY <1>2, <2>1, <2>2, <2>3, TypeParts DEF TypeList
<1>5. FlagsFollow' /\ JoinIsOrderly' /\ IdleIsIdle' /\ (box => ~tracing)' /\ (closed => ~tracing)'
  BY <1>0, <1>1, <1>2, <1>3 DEF FlagsFollow, JoinIsOrderly, IdleIsIdle, Running
<1>6. MessagesAreLate'
  <2>1. \A i \in 1 .. Len(messages) : messages[i] \in MessageType
    BY TypeParts DEF IInv, TypeList
  <2>2. QED BY <1>0, <1>2, <2>1 DEF IInv, MessagesAreLate, MessageType
<1>7. QED BY <1>4, <1>5, <1>6 DEF IInv

\* Handlers that at most ask the thread to stop and change what is displayed.
LEMMA QuietStep ==
  ASSUME IInv, ui # "join", ui' # "join",
         traceThread' \in { traceThread, AskedToStop },
         state' = state \/ state' \in { "STOPPING", "EXIT" },
         UNCHANGED << tracing, net_tracing, traceGeneration, messages, box >>,
         closed' = closed \/ ~tracing, TypeOK'
  PROVE  IInv'
<1>0. traceThread \in ThreadType
  BY TypeParts DEF IInv, TypeList
<1>1. traceThread'.at = traceThread.at /\ traceThread'.generation = traceThread.generation
  BY <1>0, AskingStays
<1>2. FlagsFollow' /\ JoinIsOrderly' /\ IdleIsIdle'
  BY <1>1 DEF IInv, FlagsFollow, JoinIsOrderly, IdleIsIdle
<1>3. MessagesAreLate' /\ (box => ~tracing)' /\ (closed => ~tracing)'
  BY DEF IInv, MessagesAreLate
<1>4. QED BY <1>2, <1>3 DEF IInv
\* What is kept when the trace is found to be over: the thread is left alone,
\* or joined once it has cleared its flag.
LEMMA OverStep ==
  ASSUME IInv, ui # "join", ~tracing, TraceIsOver,
         UNCHANGED << tracing, net_tracing, traceGeneration >>,
         MessagesAreLate', TypeOK'
  PROVE  IInv'
<1>0. traceThread \in ThreadType
  BY TypeParts DEF IInv, TypeList
<1>1. /\ AskedToStop.at = traceThread.at /\ AskedToStop.generation = traceThread.generation
  BY <1>0, AskingStays
<1>2. traceThread.at \in { "none", "post", "done" } /\ ~net_tracing
  BY <1>0 DEF IInv, FlagsFollow, ThreadType, Places, Running
<1>3. /\ traceThread'.at = traceThread.at
      /\ traceThread'.generation = traceThread.generation
      /\ \/ ui' = "loop" /\ state' = state
         \/ ui' = "loop" /\ state' = "IDLE" /\ traceThread.at = "none"
         \/ ui' = "join" /\ state' = "IDLE" /\ traceThread.at # "none"
  BY <1>1 DEF TraceIsOver, TransitIdle
<1>4. FlagsFollow' /\ JoinIsOrderly' /\ IdleIsIdle'
  BY <1>2, <1>3 DEF IInv, FlagsFollow, JoinIsOrderly, IdleIsIdle, Running
<1>5. QED BY <1>4 DEF IInv

LEMMA OverType ==
  ASSUME IInv, TraceIsOver
  PROVE  /\ state' \in { "IDLE", "TRACING", "STOPPING", "EXIT" } /\ closed' \in BOOLEAN
         /\ ui' \in { "loop", "redraw", "check", "join", "ended" }
         /\ traceThread' \in ThreadType
<1>0. TypeList
  BY TypeParts DEF IInv
<1>1. AskedToStop \in ThreadType
  BY <1>0, AskingStays DEF TypeList
<1>2. QED BY <1>0, <1>1 DEF TraceIsOver, TransitIdle, TypeList

LEMMA StopStep == ASSUME IInv, Stop PROVE IInv'
<1>0. TypeList /\ AskedToStop \in ThreadType
  BY TypeParts, AskingStays DEF IInv, TypeList
<1>1. TypeOK'
  BY <1>0, TypeParts DEF Stop, DisplayRedraw, TypeList
<1>2. QED BY <1>1, QuietStep DEF Stop, Handles

LEMMA CloseStep == ASSUME IInv, OnClose PROVE IInv'
<1>0. TypeList /\ AskedToStop \in ThreadType
  BY TypeParts, AskingStays DEF IInv, TypeList
<1>1. TypeOK'
  BY <1>0, TypeParts DEF OnClose, ThreadKeeps, data_vars, TypeList
<1>2. closed \in BOOLEAN /\ ~closed
  BY <1>0 DEF OnClose, Handles, TypeList
<1>3. closed' = closed \/ ~tracing
  BY <1>2 DEF OnClose
<1>4. QED BY <1>1, <1>3, QuietStep DEF OnClose, Handles, ThreadKeeps, data_vars

LEMMA ResetStep == ASSUME IInv, OnResetStatistics PROVE IInv'
<1>0. TypeList
  BY TypeParts DEF IInv
<1>1. TypeOK'
  BY <1>0, TypeParts DEF OnResetStatistics, ClearDisplay, thread_vars, TypeList
<1>2. QED BY <1>1, QuietStep DEF OnResetStatistics, Handles, thread_vars

LEMMA TimerStep == ASSUME IInv, OnTimer PROVE IInv'
<1>0. TypeList
  BY TypeParts DEF IInv
<1>1. redrawDivider' \in 0 .. RedrawEvery - 1
  <2>1. redrawDivider \in 0 .. RedrawEvery - 1 /\ RedrawEvery \in Nat \ {0}
    BY <1>0, TraceDialogAssumption DEF TypeList
  <2>2. ((redrawDivider + 1) % RedrawEvery) \in 0 .. RedrawEvery - 1
    BY <2>1
  <2>3. QED BY <2>1, <2>2 DEF OnTimer
<1>2. ui = "loop" /\ ui' \in { "redraw", "check" }
  BY DEF OnTimer, Handles
<1>3. TypeOK'
  BY <1>0, <1>1, <1>2, TypeParts DEF OnTimer, thread_vars, data_vars, TypeList
<1>4. QED BY <1>2, <1>3, QuietStep DEF OnTimer, thread_vars

LEMMA RedrawStep == ASSUME IInv, TimerRedraw PROVE IInv'
<1>0. TypeList
  BY TypeParts DEF IInv
<1>1. TypeOK'
  BY <1>0, TypeParts DEF TimerRedraw, DisplayRedraw, thread_vars, TypeList
<1>2. QED BY <1>1, QuietStep DEF TimerRedraw, thread_vars

LEMMA CheckStep == ASSUME IInv, TimerCheck PROVE IInv'
<1>0. TypeList
  BY TypeParts DEF IInv
<1>1. CASE tracing \/ net_tracing
  <2>1. TypeOK'
    BY <1>0, <1>1, TypeParts DEF TimerCheck, ThreadKeeps, data_vars, TypeList
  <2>2. QED BY <1>1, <2>1, QuietStep DEF TimerCheck, ThreadKeeps
<1>2. CASE ~tracing /\ ~net_tracing
  <2>1. TypeOK'
    BY <1>0, <1>2, OverType, TypeParts DEF TimerCheck, ThreadKeeps, data_vars, TypeList
  <2>2. MessagesAreLate'
    BY DEF IInv, MessagesAreLate, TimerCheck
  <2>3. (box => ~tracing)' /\ ~tracing'
    BY <1>2 DEF TimerCheck
  <2>4. QED BY <1>2, <2>1, <2>2, OverStep DEF TimerCheck, ThreadKeeps
<1>3. QED BY <1>1, <1>2
LEMMA JoinedStep == ASSUME IInv, Joined PROVE IInv'
<1>0. TypeList
  BY TypeParts DEF IInv
<1>1. /\ ui = "join" /\ traceThread.at \in { "none", "done" } /\ ui' = "loop"
      /\ UNCHANGED << state, tracing, traceGeneration, messages, box, closed, redrawDivider,
                      listIsVisible, net_tracing, traceDataDirty, has_data, stale >>
  BY DEF Joined, ThreadKeeps, data_vars
<1> DEFINE new == [NoThread EXCEPT !.at = "resolve", !.generation = traceGeneration]
<1>2. new \in ThreadType /\ new.at = "resolve" /\ new.generation = traceGeneration
  BY <1>0, NoThreadIsNone DEF TypeList, ThreadType, NoThread, Places
<1>3. \/ state = "TRACING" /\ tracing /\ traceThread.at = "none" /\ traceGeneration # 0
           /\ traceThread' = new
      \/ state = "IDLE" /\ traceThread.at = "done" /\ traceThread' = NoThread
  BY <1>1 DEF Joined, IInv, JoinIsOrderly
<1> HIDE DEF new
<1>4. TypeOK'
  BY <1>0, <1>1, <1>2, <1>3, NoThreadIsNone, TypeParts DEF TypeList
<1>5. (box => ~tracing)' /\ (closed => ~tracing)' /\ MessagesAreLate'
  BY <1>1 DEF IInv, MessagesAreLate
<1>6. CASE state = "TRACING"
  <2>1. tracing /\ ~net_tracing
    BY <1>1, <1>3, <1>6 DEF IInv, FlagsFollow, JoinIsOrderly
  <2>2. QED BY <1>1, <1>2, <1>3, <1>4, <1>5, <1>6, <2>1
            DEF IInv, FlagsFollow, JoinIsOrderly, IdleIsIdle, Running
<1>7. CASE state = "IDLE"
  <2>1. ~tracing /\ ~net_tracing
    BY <1>7 DEF IInv, IdleIsIdle
  <2>2. traceThread'.at = "none"
    BY <1>3, <1>7, NoThreadIsNone
  <2>3. QED BY <1>1, <1>4, <1>5, <1>7, <2>1, <2>2
            DEF IInv, FlagsFollow, JoinIsOrderly, IdleIsIdle, Running
<1>8. QED BY <1>3, <1>6, <1>7

LEMMA FinishedStep == ASSUME IInv, OnTraceFinished PROVE IInv'
<1>0. TypeList
  BY TypeParts DEF IInv
<1>1. /\ ui = "loop" /\ ~closed /\ messages # << >> /\ messages' = Tail(messages)
      /\ UNCHANGED << tracing, traceGeneration, net_tracing, has_data, traceDataDirty,
                      redrawDivider >>
  BY DEF OnTraceFinished, Handles
<1>2. /\ messages' \in Seq(MessageType) /\ Head(messages) = messages[1]
      /\ Len(messages) \in Nat \ {0} /\ Len(messages') = Len(messages) - 1
      /\ \A i \in 1 .. Len(messages') : messages'[i] = messages[i + 1]
  BY <1>0, <1>1, TailKeeps DEF TypeList
<1>3. MessagesAreLate'
  BY <1>1, <1>2 DEF IInv, MessagesAreLate
<1>4. CASE Head(messages).generation # traceGeneration
  <2>1. UNCHANGED << state, traceThread, ui, closed, box, stale, listIsVisible >>
    BY <1>4 DEF OnTraceFinished
  <2>2. TypeOK'
    BY <1>0, <1>1, <1>2, <2>1, TypeParts DEF TypeList
  <2>3. QED BY <1>1, <1>3, <2>1, <2>2 DEF IInv, FlagsFollow, JoinIsOrderly, IdleIsIdle
<1>5. CASE Head(messages).generation = traceGeneration
  <2>1. ~tracing
    BY <1>2, <1>5 DEF IInv, MessagesAreLate
  <2>2. stale' \in BOOLEAN /\ listIsVisible' \in BOOLEAN
    BY <1>0, <1>5 DEF OnTraceFinished, DisplayRedraw, TypeList
  <2>3. CASE box' = TRUE /\ UNCHANGED << state, traceThread, ui, closed >>
    <3>1. TypeOK'
      BY <1>0, <1>1, <1>2, <2>2, <2>3, TypeParts DEF TypeList
    <3>2. QED BY <1>1, <1>3, <2>1, <2>3, <3>1 DEF IInv, FlagsFollow, JoinIsOrderly, IdleIsIdle
  <2>4. CASE TraceIsOver /\ UNCHANGED box
    <3>1. TypeOK'
      BY <1>0, <1>1, <1>2, <2>2, <2>4, OverType, TypeParts DEF TypeList
    <3>2. QED BY <1>1, <1>3, <2>1, <2>4, <3>1, OverStep
  <2>5. QED BY <1>5, <2>3, <2>4 DEF OnTraceFinished
<1>6. QED BY <1>4, <1>5

LEMMA BoxStep == ASSUME IInv, BoxClosed PROVE IInv'
<1>0. TypeList
  BY TypeParts DEF IInv
<1>1. TypeOK'
  BY <1>0, OverType, TypeParts DEF BoxClosed, ThreadKeeps, data_vars, TypeList
<1>2. ~tracing /\ ui # "join"
  BY DEF BoxClosed, IInv
<1>3. MessagesAreLate'
  BY DEF BoxClosed, IInv, MessagesAreLate
<1>4. QED BY <1>1, <1>2, <1>3, OverStep DEF BoxClosed, ThreadKeeps

LEMMA DestroyStep == ASSUME IInv, Destroy PROVE IInv'
<1>0. TypeList
  BY TypeParts DEF IInv
<1>1. /\ ui = "loop" /\ ui' = "ended" /\ closed /\ traceThread' = NoThread
      /\ traceThread.at \in { "none", "done" }
      /\ UNCHANGED << state, traceGeneration, tracing, messages, box, closed, redrawDivider,
                      listIsVisible, net_tracing, traceDataDirty, has_data, stale >>
  BY DEF Destroy, ThreadKeeps, data_vars
<1>2. TypeOK'
  BY <1>0, <1>1, NoThreadIsNone, TypeParts DEF TypeList
<1>3. ~tracing /\ ~net_tracing /\ traceThread'.at = "none"
  BY <1>1, NoThreadIsNone DEF IInv, FlagsFollow
<1>4. QED BY <1>1, <1>2, <1>3
          DEF IInv, FlagsFollow, JoinIsOrderly, IdleIsIdle, MessagesAreLate, Running

LEMMA StutterStep == ASSUME IInv, UNCHANGED vars PROVE IInv'
<1>1. UNCHANGED << state, traceGeneration, traceThread, tracing, net_tracing, messages, ui,
                   box, closed, has_data, stale, traceDataDirty, redrawDivider,
                   listIsVisible >>
  BY DEF vars, thread_vars, data_vars, display_vars
<1>2. QED BY <1>1 DEF IInv, TypeOK, FlagsFollow, JoinIsOrderly, IdleIsIdle, MessagesAreLate

-----------------------------------------------------------------------------
\* The invariant holds in every dialog, whatever the two threads do.
THEOREM DialogInvariant == Spec => []IInv
<1>1. IInv /\ [Next]_vars => IInv'
  BY ThreadStep, PostStep, StartStep, StopStep, CloseStep, ResetStep, TimerStep, RedrawStep,
     CheckStep, JoinedStep, FinishedStep, BoxStep, DestroyStep, StutterStep
     DEF Next, Thread, Interface, Ended
<1>2. QED BY InitIInv, <1>1, PTL DEF Spec

\* Every variable of the dialog and its thread keeps its type.
THEOREM DialogTypeCorrect == Spec => []TypeOK
<1>1. IInv => TypeOK
  BY DEF IInv
<1>2. QED BY <1>1, DialogInvariant, PTL

\* The interface thread never joins a thread that still resolves or traces,
\* however many traces are started and however late their messages come.
THEOREM JoinStaysShort == Spec => []JoinIsShort
<1>1. IInv => JoinIsShort
  BY DEF IInv, JoinIsOrderly, JoinIsShort, AtItsEnd
<1>2. QED BY <1>1, DialogInvariant, PTL

\* A dialog in IDLE has no trace and no thread left but the one it is joining.
THEOREM IdleStaysIdle == Spec => []IdleIsIdle
<1>1. IInv => IdleIsIdle
  BY DEF IInv
<1>2. QED BY <1>1, DialogInvariant, PTL

\* The dialog is closed only when nothing is being traced.
THEOREM CloseIsQuiet == Spec => []ClosesQuietly
<1>1. IInv => ClosesQuietly
  <2>1. IInv => traceThread.at \in Places
    BY TypeParts DEF IInv, TypeList, ThreadType
  <2>2. QED BY <2>1 DEF IInv, FlagsFollow, ClosesQuietly, AtItsEnd, Running, Places
<1>2. QED BY <1>1, DialogInvariant, PTL
=============================================================================
