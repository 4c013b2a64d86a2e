---------------------------- MODULE TraceDialog ----------------------------
(***************************************************************************)
(* The dialog's state machine and the thread that traces for it.           *)
(*                                                                         *)
(* Two threads meet here.  The interface thread handles buttons, the       *)
(* 100 ms timer and posted messages one at a time; ui is what it is in the *)
(* middle of.  The trace thread, pingThread(), runs from "resolve" to      *)
(* "done" and then waits to be joined.  The end of a trace is noticed      *)
(* twice, by the timer and by the message the thread posts; the message    *)
(* may fail to be posted, and may be handled when the next trace runs.     *)
(*                                                                         *)
(* What DoTrace() does is TraceLoop; here it changes data, and ends.       *)
(***************************************************************************)
EXTENDS Integers, Sequences

CONSTANTS
  RedrawEvery,      \* the ticks of the timer between redraws, 5 in OnTimer()
  MaxGeneration     \* bound: how many traces are started

ASSUME TraceDialogAssumption == RedrawEvery \in Nat \ {0} /\ MaxGeneration \in Nat

VARIABLES
  state,            \* STATES
  tracing,          \* set for the thread, cleared by it
  traceGeneration,
  traceThread,      \* the jthread and where pingThread() is
  net_tracing,      \* wmtrnet->isTracing()
  messages,         \* messageTraceFinished, posted and not yet handled
  ui,               \* what the interface thread is in the middle of
  box,              \* AfxMessageBox() of OnTraceFinished() is open
  closed,           \* CDialog::OnOK() was called
  traceDataDirty,
  redrawDivider,    \* modulo RedrawEvery
  has_data,         \* some hop was probed
  stale,            \* revision # lastRenderedRevision
  listIsVisible

thread_vars  == << traceThread, tracing, net_tracing, messages >>
data_vars    == << has_data, stale >>
display_vars == << traceDataDirty, redrawDivider, listIsVisible >>

vars == << state, traceGeneration, thread_vars, ui, box, closed, data_vars,
           display_vars >>

Errors == { "success", "not_found", "cancelled", "failed" }

NoThread == [ at |-> "none", stop |-> FALSE, generation |-> 0, error |-> "success" ]
Places   == { "none", "resolve", "select", "begin", "trace", "notify", "clear",
              "post", "done" }

Init ==
  /\ state = "IDLE" /\ tracing = FALSE /\ traceGeneration = 0
  /\ traceThread = NoThread /\ net_tracing = FALSE /\ messages = << >>
  /\ ui = "loop" /\ box = FALSE /\ closed = FALSE
  /\ traceDataDirty = FALSE /\ redrawDivider = 0
  /\ has_data = FALSE /\ stale = TRUE /\ listIsVisible = FALSE

-----------------------------------------------------------------------------
\* The trace thread, pingThread()

\* The thread goes from one place to another, remembering what it will report.
Goes(from, to, error) ==
  /\ traceThread.at = from
  /\ traceThread' = [traceThread EXCEPT !.at = to, !.error = error]

InterfaceKeeps == UNCHANGED << state, traceGeneration, ui, box, closed,
                               redrawDivider, listIsVisible >>

\* The host is an address or is resolved, or is not; resolving gives up when
\* the thread is told to stop, and after five seconds anyway.
Resolve ==
  /\ \/ ~traceThread.stop /\ Goes("resolve", "select", "success")
     \/ Goes("resolve", "clear", "not_found")
  /\ UNCHANGED << tracing, net_tracing, messages, data_vars, traceDataDirty >>
  /\ InterfaceKeeps

\* SelectCandidate() settles on an address unless the thread is told to stop.
Select ==
  /\ \/ traceThread.stop /\ Goes("select", "clear", "cancelled")
     \/ ~traceThread.stop /\ Goes("select", "begin", "success")
     \/ Goes("select", "clear", "failed")
  /\ UNCHANGED << tracing, net_tracing, messages, data_vars, traceDataDirty >>
  /\ InterfaceKeeps

\* DoTrace() takes the tracing flag and begins its session, or throws.
Begin ==
  /\ \/ ~net_tracing /\ Goes("begin", "trace", "success")
          /\ net_tracing' = TRUE /\ has_data' = FALSE /\ stale' = TRUE
     \/ net_tracing /\ Goes("begin", "clear", "success")
          /\ UNCHANGED << net_tracing, data_vars >>
     \/ Goes("begin", "clear", "failed")
          /\ UNCHANGED << net_tracing, data_vars >>
  /\ UNCHANGED << tracing, messages, traceDataDirty >>
  /\ InterfaceKeeps

\* The loop commits something to the statistics ...
Commit ==
  /\ Goes("trace", "notify", "success")
  /\ has_data' = TRUE /\ stale' = TRUE
  /\ UNCHANGED << tracing, net_tracing, messages, traceDataDirty >>
  /\ InterfaceKeeps

\* ... and tells the dialog, notifyTraceDataChanged().
Notify ==
  /\ Goes("notify", "trace", "success")
  /\ traceDataDirty' = TRUE
  /\ UNCHANGED << tracing, net_tracing, messages, data_vars >>
  /\ InterfaceKeeps

\* finishSession(): the loop was told to stop, has run its cycles, or threw.
Finish ==
  /\ \E error \in { "success", "failed" } : Goes("trace", "clear", error)
  /\ net_tracing' = FALSE /\ stale' = TRUE
  /\ UNCHANGED << tracing, messages, has_data, traceDataDirty >>
  /\ InterfaceKeeps

Clear ==
  /\ Goes("clear", "post", traceThread.error)
  /\ tracing' = FALSE
  /\ UNCHANGED << net_tracing, messages, data_vars, traceDataDirty >>
  /\ InterfaceKeeps

\* What the thread reports; the stop token is looked at again.
Reported == IF traceThread.error = "not_found" /\ traceThread.stop THEN "cancelled"
            ELSE traceThread.error

\* PostMessageW() may fail; nobody looks.
Post ==
  /\ Goes("post", "done", traceThread.error)
  /\ \/ messages' = Append(messages, [ generation |-> traceThread.generation,
                                       error      |-> Reported ])
     \/ UNCHANGED messages
  /\ UNCHANGED << tracing, net_tracing, data_vars, traceDataDirty >>
  /\ InterfaceKeeps

Thread == Resolve \/ Select \/ Begin \/ Commit \/ Notify \/ Finish \/ Clear \/ Post

-----------------------------------------------------------------------------
\* The interface thread

ThreadKeeps == UNCHANGED << net_tracing, traceDataDirty, data_vars >>

\* stopTrace()
AskedToStop == IF traceThread.at = "none" THEN traceThread
               ELSE [traceThread EXCEPT !.stop = TRUE]

\* The dialog handles something new: it is not in the middle of a handler, or
\* it is showing the message box, whose own loop handles messages.
Handles == ui = "loop" /\ ~closed

\* DisplayRedraw(): the list is shown once there is something to show.
DisplayRedraw ==
  /\ stale' = FALSE
  /\ listIsVisible' = IF has_data THEN listIsVisible \/ stale
                      ELSE listIsVisible /\ ~stale

\* wmtrnet->ResetHops(), and the list is emptied.
ClearDisplay == has_data' = FALSE /\ stale' = TRUE /\ listIsVisible' = FALSE

\* OnRestart() while nothing runs, and Transit(TRACING) up to the join of the
\* thread before.
Start ==
  /\ Handles /\ ~box /\ state = "IDLE" /\ traceGeneration < MaxGeneration
  /\ ClearDisplay
  /\ state' = "TRACING" /\ tracing' = TRUE /\ traceGeneration' = traceGeneration + 1
  /\ ui' = "join" /\ traceThread' = AskedToStop
  /\ UNCHANGED << net_tracing, messages, box, closed, traceDataDirty, redrawDivider >>

\* OnRestart() while a trace runs, Transit(STOPPING).
Stop ==
  /\ Handles /\ ~box /\ state = "TRACING"
  /\ state' = "STOPPING" /\ traceThread' = AskedToStop
  /\ DisplayRedraw
  /\ UNCHANGED << tracing, traceGeneration, net_tracing, messages, ui, box, closed,
                  has_data, traceDataDirty, redrawDivider >>

\* Mutant: the dialog closes although the thread still runs.
OnClose_at_once ==
  /\ Handles /\ state' = "EXIT" /\ traceThread' = AskedToStop /\ closed' = TRUE
  /\ ThreadKeeps
  /\ UNCHANGED << tracing, traceGeneration, messages, ui, box, redrawDivider, listIsVisible >>

\* OnClose() and OnCancel(), Transit(EXIT).
OnClose ==
  /\ Handles /\ state' = "EXIT" /\ traceThread' = AskedToStop
  /\ closed' = (~tracing /\ ~net_tracing)
  /\ ThreadKeeps
  /\ UNCHANGED << tracing, traceGeneration, messages, ui, box, redrawDivider, listIsVisible >>

OnResetStatistics ==
  /\ Handles /\ ~box
  /\ ClearDisplay
  /\ UNCHANGED << state, traceGeneration, thread_vars, ui, box, closed, traceDataDirty,
                  redrawDivider >>

\* Mutant: a list that is shown does not count.
OnTimer_only_while_tracing ==
  /\ Handles /\ traceDataDirty' = FALSE
  /\ IF traceDataDirty THEN ui' = "redraw" /\ UNCHANGED redrawDivider
     ELSE IF state \in { "TRACING", "STOPPING" }
     THEN /\ redrawDivider' = (redrawDivider + 1) % RedrawEvery
          /\ ui' = IF redrawDivider' = 0 THEN "redraw" ELSE "check"
     ELSE ui' = "check" /\ UNCHANGED redrawDivider
  /\ UNCHANGED << state, traceGeneration, thread_vars, box, closed, data_vars, listIsVisible >>

\* OnTimer(): is there something to draw?
OnTimer ==
  /\ Handles /\ traceDataDirty' = FALSE
  /\ IF traceDataDirty THEN ui' = "redraw" /\ UNCHANGED redrawDivider
     ELSE IF state \in { "TRACING", "STOPPING" } \/ listIsVisible
     THEN /\ redrawDivider' = (redrawDivider + 1) % RedrawEvery
          /\ ui' = IF redrawDivider' = 0 THEN "redraw" ELSE "check"
     ELSE ui' = "check" /\ UNCHANGED redrawDivider
  /\ UNCHANGED << state, traceGeneration, thread_vars, box, closed, data_vars, listIsVisible >>

TimerRedraw ==
  /\ ui = "redraw" /\ ui' = "check"
  /\ DisplayRedraw
  /\ UNCHANGED << state, traceGeneration, thread_vars, box, closed, has_data,
                  traceDataDirty, redrawDivider >>

\* Transit(IDLE) up to the join: the thread is joined if it has cleared tracing.
TransitIdle ==
  /\ state' = "IDLE"
  /\ IF traceThread.at # "none" /\ ~tracing
     THEN ui' = "join" /\ traceThread' = AskedToStop
     ELSE ui' = "loop" /\ UNCHANGED traceThread

\* What both ends of a trace lead to.
TraceIsOver ==
  \/ state = "EXIT" /\ closed' = TRUE /\ ui' = "loop" /\ UNCHANGED << state, traceThread >>
  \/ state \in { "TRACING", "STOPPING" } /\ TransitIdle /\ UNCHANGED closed
  \/ state = "IDLE" /\ ui' = "loop" /\ UNCHANGED << state, traceThread, closed >>

\* Mutant: the timer leaves the end of a trace to the message.
TimerCheck_trusts_message ==
  /\ ui = "check" /\ ui' = "loop"
  /\ UNCHANGED << state, traceThread, closed, tracing, traceGeneration, messages, box,
                  redrawDivider, listIsVisible >>
  /\ ThreadKeeps

\* Mutant: only the network object is asked whether it is tracing.
TimerCheck_asks_net_only ==
  /\ ui = "check"
  /\ IF net_tracing THEN ui' = "loop" /\ UNCHANGED << state, traceThread, closed >>
     ELSE TraceIsOver
  /\ UNCHANGED << tracing, traceGeneration, messages, box, redrawDivider, listIsVisible >>
  /\ ThreadKeeps

\* OnTimer(): has the trace come to its end?
TimerCheck ==
  /\ ui = "check"
  /\ IF tracing \/ net_tracing THEN ui' = "loop" /\ UNCHANGED << state, traceThread, closed >>
     ELSE TraceIsOver
  /\ UNCHANGED << tracing, traceGeneration, messages, box, redrawDivider, listIsVisible >>
  /\ ThreadKeeps

\* The thread has ended and is joined; Transit(TRACING) starts the next one.
Joined ==
  /\ ui = "join" /\ traceThread.at \in { "none", "done" }
  /\ ui' = "loop"
  /\ traceThread' = IF state = "TRACING"
                    THEN [NoThread EXCEPT !.at = "resolve", !.generation = traceGeneration]
                    ELSE NoThread
  /\ UNCHANGED << state, tracing, traceGeneration, messages, box, closed, redrawDivider,
                  listIsVisible >>
  /\ ThreadKeeps

\* Mutant: the generation of the message is not compared.
OnTraceFinished_any_generation ==
  /\ Handles /\ messages # << >> /\ messages' = Tail(messages)
  /\ DisplayRedraw
  /\ IF Head(messages).error \in { "not_found", "failed" } /\ state # "EXIT"
     THEN box' = TRUE /\ UNCHANGED << state, traceThread, ui, closed >>
     ELSE TraceIsOver /\ UNCHANGED box
  /\ UNCHANGED << tracing, traceGeneration, net_tracing, has_data, traceDataDirty,
                  redrawDivider >>

\* OnTraceFinished() of a trace that is not the current one any more, and of
\* the current one, up to its message box if it failed.
OnTraceFinished ==
  /\ Handles /\ messages # << >> /\ messages' = Tail(messages)
  /\ IF Head(messages).generation # traceGeneration
     THEN UNCHANGED << state, traceThread, ui, closed, box, stale, listIsVisible >>
     ELSE /\ DisplayRedraw
          /\ IF Head(messages).error \in { "not_found", "failed" } /\ state # "EXIT"
             THEN box' = TRUE /\ UNCHANGED << state, traceThread, ui, closed >>
             ELSE TraceIsOver /\ UNCHANGED box
  /\ UNCHANGED << tracing, traceGeneration, net_tracing, has_data, traceDataDirty,
                  redrawDivider >>

\* The user closes the message box and OnTraceFinished() goes on.
BoxClosed ==
  /\ box /\ ui = "loop" /\ box' = FALSE
  /\ TraceIsOver
  /\ UNCHANGED << tracing, traceGeneration, messages, redrawDivider, listIsVisible >>
  /\ ThreadKeeps

\* ~WinMTRDialog(), which joins the thread once more.
Destroy ==
  /\ closed /\ ~box /\ ui = "loop" /\ ui' = "ended"
  /\ traceThread.at \in { "none", "done" } /\ traceThread' = NoThread
  /\ UNCHANGED << state, traceGeneration, tracing, messages, box, closed, redrawDivider,
                  listIsVisible >>
  /\ ThreadKeeps

Interface == TimerRedraw \/ TimerCheck \/ Joined \/ Destroy

Ended == ui = "ended" /\ UNCHANGED vars

Next ==
  \/ Thread
  \/ Start \/ Stop \/ OnClose \/ OnResetStatistics
  \/ OnTimer \/ OnTraceFinished \/ BoxClosed \/ Interface
  \/ Ended

\* The timer ticks, handlers go on, and every step of the thread comes to its
\* end: resolving has a time limit, and a trace that is told to stop ends
\* (StopEnds of TraceLoop).  The user closes the message box, sometime; nothing
\* makes him do anything else.  A trace may run for ever.
Fairness ==
  /\ WF_vars(OnTimer) /\ WF_vars(OnTraceFinished) /\ WF_vars(Interface)
  /\ WF_vars(BoxClosed)
  /\ WF_vars(Resolve) /\ WF_vars(Select) /\ WF_vars(Begin) /\ WF_vars(Notify)
  /\ WF_vars(Clear) /\ WF_vars(Post)
  /\ SF_vars(traceThread.stop /\ Finish)

Spec == Init /\ [][Next]_vars /\ Fairness

-----------------------------------------------------------------------------
\* Properties

\* Every variable keeps its type.
TypeOK ==
  /\ state \in { "IDLE", "TRACING", "STOPPING", "EXIT" }
  /\ { tracing, net_tracing, box, closed, traceDataDirty, has_data, stale,
       listIsVisible } \subseteq BOOLEAN
  /\ traceGeneration \in 0 .. MaxGeneration
  /\ traceThread \in [ at : Places, stop : BOOLEAN, generation : 0 .. MaxGeneration,
                       error : Errors ]
  /\ messages \in Seq([ generation : 1 .. MaxGeneration, error : Errors ])
  /\ ui \in { "loop", "redraw", "check", "join", "ended" }
  /\ redrawDivider \in 0 .. RedrawEvery - 1

AtItsEnd == { "none", "post", "done" }

\* The interface freezes for no longer than it takes the thread to post its
\* message: it never joins one that still resolves or traces.
JoinIsShort == ui = "join" => traceThread.at \in AtItsEnd

\* A dialog that offers to start a trace has none, however the timer and the
\* message of the last one came in.
IdleIsIdle ==
  state = "IDLE" =>
    /\ ~tracing /\ ~net_tracing
    /\ traceThread.at = "none" \/ ui = "join"

\* The dialog is gone only when nothing is being traced on its behalf.
ClosesQuietly == closed => ~tracing /\ ~net_tracing /\ traceThread.at \in AtItsEnd

\* A dialog that is closed goes away, whatever was under way.
CloseEnds == state = "EXIT" ~> ui = "ended"

\* The end of a trace is noticed even if its message is never posted.
EndIsNoticed ==
  state \in { "TRACING", "STOPPING" } /\ traceThread.at = "done" ~>
    state \in { "IDLE", "EXIT" }

\* What is displayed catches up with the statistics again and again, also when
\* the last change was made after the last notification.
DisplayCatchesUp == []<>(closed \/ (has_data => ~stale /\ listIsVisible))
=============================================================================
