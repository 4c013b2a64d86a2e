# WinMTR-Hyper: models, checks and proofs

WinMTR-Hyper is a Windows trace route and ping tool in C++23 (MFC). This
directory holds TLA+ models of the parts of it whose correctness depends on
order, concurrency, limits and time, the TLC configurations that check them,
and proofs about most of them that TLAPS checks. `PROJECT.json` maps every
definition to the source lines it stands for, and lists the runs, the hazards,
the findings and the theorems.

Checking a run and a proof:

    tlc -workers 2 -config MCTraceLoop_reset.cfg MCTraceLoop
    tlapm ProbeSchedulerProofs.tla


## 1. Inventory

### Threads

| Thread | What it runs |
|---|---|
| interface thread | the dialog's handlers: buttons, the 100 ms timer, posted messages |
| trace thread | `pingThread()`: resolve, select an address, `DoTrace()` |
| thread pool | one callback per ICMP request, `probe_work_callback()` |
| metadata workers | four `jthread`s, `metadataWorkerLoop()` |
| query thread | one at a time, `startNetworkInfoQuery()` |
| system callback | `NetworkInterfaceChangeCallback()`, posts a message |

Shared state: `ghMutex` guards hops, session, epoch and the metadata cache;
`metadata_queue_mutex` the lookup queue; the completion queue has a lock of its
own; `networkInfoMutex` the public network information; the rest is atomics and
posted messages.

### Components

**Probe scheduler** (`WinMTRProbeScheduler.h`). State: the next send time of
every TTL, reservations, counters, one record per probe that is reserved or in
the transport, four limits, the session-wide pacing. Operations: `start`,
`restart`, `stop`, `begin_drain`, `cancel_pending`, `set_last_ttl`,
`reserve_due`, `mark_issued`, `mark_issue_failed`, `mark_cached`, `complete`,
`expire`, `next_wake_at`, `quotas_reached`. Called by the trace loop only. Hard:
a probe's deadline, its answer, a drain and a new epoch come in every order, and
the limits are checked against counts that all of these move. Correct when the
counts agree with the records, the limits hold, every probe is counted once, no
slot is made up for in a burst, and the wake-up time is neither early nor late.

**Route policy** (`WinMTRRoutePolicy.h`). State: the stable ceiling, the farthest
reply and the destination of the current exploration, a candidate for a shorter
path. Operations: `reset`, `note_reply`, `complete_cycle`. Hard: a path that
changes while it is explored. Correct when ceilings stay within what the user
asked for and the last hop, growth is followed at once, shrinkage after
confirmation, and a path that stays is found.

**Trace loop** (`WinMTRNet-Tracing.cpp`). State: the locals of `DoTrace()`, the
requests it owns, the completion queue, the statistics of every hop. Operations:
one pass of the loop, the callback, the reset, the stop. Hard: results of an old
epoch arrive after a reset; a callback still uses a request when the loop wants
to end; deadlines, grace and answers race. Correct when no request is lost or
freed early, the display agrees with the scheduler, a reset is clean, and a
stopped trace ends.

**Responder metadata** (same file). State: the lookup cache, the tokens of
lookups under way, the bounded queue, the workers. Operations:
`scheduleReverseLookup`, `metadataWorkerLoop`, `executeMetadataJob`, and the part
of a reset and of a new session that cancels. Hard: a reset between the
registration of a lookup and its queueing; a full queue; expiry while a lookup
is under way. Correct when an address is looked up once at a time, every lookup
that was registered ends, cancelled ones leave nothing, and fresh data is shown.

**Dialog state machine** (`WinMTRDialog-StateMachine.cpp`, `-tracing.cpp`). State:
IDLE, TRACING, STOPPING or EXIT, the trace thread with its generation and the
`tracing` flag, posted messages, the redraw flags. Operations: the handlers.
Hard: the end of a trace is noticed by the timer and by a message that may come
late or never; a message box runs a loop of its own inside a handler. Correct
when the interface never waits for a busy thread, IDLE means that nothing runs,
and closing always ends.

**Public network information** (`WinMTRDialog-display.cpp`). State: the query
thread, its generation, the pending restart, the value. Hard: queries that
supersede one another. Correct when the interface does not wait, the last query
is what is shown, and a refresh ends.

**Network data providers** (`WinMTRNetworkData.cpp`). State: the health of every
provider, shared by all queries. Operations: `queryCurrentFamily`, `queryAddress`,
`httpGet`, `queryCymru`, `recordProviderResult`, the budget. Hard: queries side by
side that fail, succeed and are stopped in any order. Correct when a provider that
failed is left alone for a while, and asked again.

**Name resolution** (`WinMTRDnsUtil.ixx`). State: a query of the system's resolver
that writes to its caller's stack. Hard: completion, deadline and stop race. Correct
when no query outlives its caller, no late answer is used, and the call returns.

**Candidate selection** (`SelectCandidate`). State: one worker thread per candidate,
the winner. Hard: head starts, answers, a stop and a worker that cannot be made.
Correct when the winner answered, the fallback is one, and all workers are joined.

**History** (`WinMTRDialog-registry.cpp`). State: the hosts traced, in the registry
and in the dialog, and two limits. Hard: the list is rewritten value by value, and
the process may end in between. Correct when what is loaded was a list once, and
what was cleared stays away.

**Export** (`WinMTRDialog-exporter.cpp`). State: the user's file and a temporary one.
Hard: every call may fail, the power may go. Correct when the file is whole.

**Command line**, **hop statistics** (`WinMTRSNetHost.ixx`), settings, stateless
helpers and windows.

Interactions: the dialog starts a trace thread, which drives the trace loop; the
loop owns a scheduler and a route policy, hands requests to the thread pool and
takes results from the completion queue; its commits ask for lookups; the dialog
reads snapshots. Resets reach the loop and the metadata only through the epoch.
Before the loop, the same thread resolves the name and selects a candidate. The
providers are asked by the metadata workers and the query thread.


## 2. Modules

| Module | Models | Composed of |
|---|---|---|
| `ProbeScheduler` | the class `ProbeScheduler` | |
| `ProbeLifecycle` | abstract: what becomes of a probe | implemented by `ProbeScheduler` |
| `RouteConfig` | the configuration of the route policy | |
| `RoutePolicy` | the class `RoutePolicy` | `RouteConfig` |
| `PathDiscovery` | the policy, the loop's use of it, a changing network | `RouteConfig`, `RoutePolicy` |
| `TraceLoop` | `DoTrace()`, its callbacks, reset, stop, the clock | `ProbeScheduler`, `RoutePolicy` |
| `TraceDialog` | the dialog's states and the trace thread | |
| `NetworkInfo` | the public information query | |
| `MetadataPipeline` | lookups of names and owners | |
| `TraceStart` | resolving a name and selecting a candidate | |
| `ProviderQueries` | queries to the providers, their health | |
| `HostHistory` | the history of hosts, stored and shown | |
| `ReportFile` | saving a report | |
| `ProbeSchedulerProofs`, `ProbeSchedulerSafetyProofs`, `RoutePolicyProofs`, `TraceLoopProofs`, `TraceDialogProofs`, `NetworkInfoProofs`, `MetadataProofs`, `OperationsProofs` | proofs | the modules they extend |
| `MC...` | instances for TLC; `MCOperations` has the last four models | |

Some modules hold operators whose comment begins with "Mutant:". Each changes one
definition the way a plausible bug would, and shows, put in its place, that a
property can tell the difference. No specification uses them.

### ProbeScheduler

One variable per member, one action per public method. The class is single
threaded, so a method is one step. `start()` is `Init`. A call that is rejected
(unknown token, wrong state) is a stuttering step. `stop()` is an action although
only tests call it. `now` is the clock as the client last read it; `set_last_ttl`
may be given a later reading and a completion may carry one, both at most
`MaxLag` later. Counters are unsigned in the code: here a decrement below zero
leaves `Nat` and breaks `TypeOK`. `reserve_due` reserves one slot per call,
because the pacing sets the next instant later than `now`.

`ProbeLifecycle` says what the rest of the program may rely on: a sequence
number is used once, a probe passes its stages in order, and is counted at most
once, only while it waits. `ImplementsLifecycle` is the refinement.

### RoutePolicy and PathDiscovery

`RoutePolicy` is the class. `PathDiscovery` runs it as `DoTrace()` does on a
network whose path and whose silent routers change; a cycle is a set of TTLs that
are answered or given up in any order. It leaves time out, which `TraceLoop` has.

### TraceLoop

`pc` is the place in the loop's pass. A step takes the loop from one access of
shared state to the next; the scheduler and the policy are the loop's own, so what
happens to them in between joins the step. Several commits in a row are one step:
each locks `ghMutex` and compares the epoch, so a reset between two of them wipes
the first and turns the second away, as a reset after both would. A request's life
is running, answered (the time is stamped), pushed; stamping and pushing are two
steps, since the loop may run between them. What a reply says is a choice of four
outcomes. One session is modelled, and the session number, being constant, is left
out. `GetTickCount64()` is the clock plus one: it is never zero.

### TraceDialog

The interface thread handles one thing at a time. A handler that reads or changes
what the trace thread changes is split at these places (`ui`): the timer into
redraw and check, a join into its wait and its end. The message box lets other
handlers in but disables the buttons; the close message can still be posted. The
order of messages and buttons is any order. `PostMessageW` may fail. `DoTrace()` is
an unbounded number of commits and an end.

### NetworkInfo

The network is a version number a query finds or misses. The query thread is split
at every shared access: the query, the decision to deliver, the store under the
lock, the running flag, the message. `startNetworkInfoQuery()` is split before its
look at the running flag and before the join. Messages are assumed to arrive. A
close that happens while no trace runs destroys the dialog and is not followed.

### MetadataPipeline

A step is what happens under one lock. A field's value is the provider it came
from, which is what the properties tell apart. Stop source and epoch are replaced
under one lock, so a job is cancelled when its epoch is over. The cache is bounded
and outlives sessions; entries have two lifetimes. `obtained` is a history
variable: when the owner in the cache was named by a provider. One hop stands for
all in which an address appears.

### TraceStart

The thread is at one place (`at`) in `pingThread()`, `ResolveAddressesWithDeadline()`
or `SelectCandidate()`; the system's resolver and the workers of the race step beside
it, and the user may stop the trace at any point. A deadline passes when it does, so
every order of deadline, completion and stop occurs. The resolver may be one that
works in the background or one that does not. `request_stop()` notifies without the
lock, so a worker may miss the wake-up; then it goes home when its head start is
over. A name has addresses of both families in any order. `query.late` is a history
variable: the answer came after the stop, or after the caller had given the query up
because its deadline had passed.

### ProviderQueries

Several threads go through their chains of providers; `httpGet()` is split where it
looks at the stop token, and a result is recorded in one step, as it is under the lock
of the health. Delays are counted in steps of the first one, without jitter. A stop
between the connection and the request is recorded as a failure of the provider
(`WinMTRNetworkData.cpp:253`); one after it is not.

### HostHistory

Every deletion, every write and the write of the number is a step of its own in
`persistHistory()`, and the process may end between any two. `persist` carries what
the caller does when the call returns. Values left over from a longer list may stay
in the registry after a crash, but beyond the number that is loaded. `previous` and
`entered` are history variables. One process uses the registry.

### ReportFile

`writeUtf8File()` with a step per system call, each of which may fail. A file is how
much of it was written and how much of that is on the disk; the cache is written
back at any time. The export may be ended by the process or by a loss of power, which
loses what is not on the disk. The move is atomic.


## 3. Runs

### Runs that pass

* **sched_limits**: two TTLs, one probe in flight, two in the transport, a quota of
  one, two epochs, zeros in the configuration, any order of methods. Accounts and
  wake-up time exact, limits and quota kept, every probe counted once and none
  forgotten, no bursts, no starvation, and `ImplementsLifecycle`: late answers change nothing.
* **path_short**: paths of two and three hops that change at any time: ceilings are in
  bounds, shrinkage is confirmed by consecutive explorations, and a path that stays is
  found.
* **loop_reset**: one hop, reply cache, grace shorter than the timeout, a reset at
  any moment: requests match records, results are handled once, a reset is clean,
  the result agrees with the display.
* **loop_ends**: a session of one cycle on two hops, with probes beyond the
  destination under way: the display agrees with the scheduler, the loop sleeps
  and is not woken by a deadline that is over, the grace is respected, a stopped trace ends and is quiet, and
  `UsesScheduler`: the loop's steps are steps of `ProbeScheduler`, so what is proved
  of the scheduler holds in the trace.
* **dialog**: three traces: the interface never joins a busy thread, IDLE is idle,
  the dialog closes only when nothing runs and always does, the end of a trace is
  noticed even without a message, the display catches up.
* **info_queries**: queries superseded, turned off, refreshed, failing: the join is
  short, off is off, the dialog ends up to date, a refresh ends.
* **metadata_lookups**: two addresses, two workers, a queue and a cache of one, a
  reset or a new session with other options at any moment: every token has one lookup
  that will end, what is fresh in the cache is shown, and what was cancelled leaves
  nothing behind.
* **operations**: the four models that share nothing, one at a time. The history, with a
  limit of up to three of three hosts: what the next start finds was a list, and
  what was cleared stays away. A report of two pieces, saved twice: the file is whole.
  A start with four addresses and three candidates: no query outlives its caller, no
  answer is used that came after a stop or the deadline, the right candidate wins, and the start ends. Two threads that
  ask two providers in opposite orders: a provider is asked again and again.

### Runs that find a disagreement with what the repository says

| Run | What the code does | What is said |
|---|---|---|
| sched_cycles | a sent probe that fails locally counts twice against the quota | `IMPLEMENTATION_COMPARISON.md:140` |
| path_growth | once the stable ceiling is `max_hops` and a reply lowers the range, no exploration starts again | the frontier detects growth |
| info_failure | a failed refresh that knows the local name servers wipes the address | `IMPLEMENTATION_COMPARISON.md:245` |
| metadata_expiry | a failed refresh makes an expired owner fresh again | comment at `WinMTRUtils.ixx:83` |

Details and the lines are under "findings" in `PROJECT.json`.

Other disagreements met while modelling; TLC showed each on an instance of the
module named, and no run is kept for it:

* `TraceLoop`: a reply that a worker stamped within the deadline but pushes after
  the loop's `drain()` finds its probe expired and is discarded as late
  (`WinMTRNet-Tracing.cpp:783`); `docs/STATISTICS.md:25` counts as timed out only
  probes without a usable reply within the deadline.
* `TraceLoop`: a reset starts the session-wide pacing afresh
  (`WinMTRProbeScheduler.h:448`), so two probes leave within less than its spacing;
  `docs/CLI.md:22` calls the rate a hard limit for the whole session.
* `TraceLoop`: the getters cut the table at `display_max_ttl` and
  `session_destination_ttl` only; the comment at `WinMTRNet-Tracing.cpp:1019` says
  that they limit it to the contiguous completed prefix.
* `TraceLoop`: the status line of a stopping trace sums the probes in flight of the
  hops in that table (`WinMTRDialog-display.cpp:1151`), `docs/STATISTICS.md:35`
  promises those of all TTLs.
* `MetadataPipeline`: a field the lookup left empty is filled from the entry before,
  whatever provider that came from (`WinMTRNet-Tracing.cpp:1280`); the comment at
  `WinMTRNetworkData.cpp:667` says that fields are never merged.
* `NetworkInfo`: the last change of a burst of interface changes is dropped
  (`WinMTRDialog-StateMachine.cpp:168`); `docs/CLI.md:44` says that a change is
  followed by a refresh.


## 4. Bounds

| Bound | Where | Why it is enough |
|---|---|---|
| `MaxNow`, `MaxLag` | scheduler, loop | times are a few milliseconds: a slot, its deadline, the pacing and the grace all meet within two to three ticks (four in the run of two cycles); a lag of one lets the clock pass a deadline within a pass |
| `MaxSequence` | scheduler | three slots: two of the first epoch, still in the transport or settled, and one of the second; every limit binds |
| `MaxSkipped` | scheduler | only counts; one skip distinguishes skipping from sending |
| `MaxEpoch` | scheduler, loop, metadata | two epochs: the old and the new one |
| `MaxSlots` | loop | derived from `MaxNow`: a slot needs a reading of the clock of its own in its epoch, so it does not bound anything |
| `MaxCycles`, `MaxFound` | policy, paths | as many explorations are remembered as a shorter path needs confirmations; cycles only matter modulo the period |
| `RedrawEvery` | dialog | 2 instead of 5: the divider only has to skip a tick |
| `MaxGeneration` | dialog | three traces: a message of the first can arrive in the third |
| `MaxEvents`, `Debounce`, `Interval` | information | two events besides the start make a burst, a superseded query and one that is turned off and on; both intervals are one tick |
| `MAX_MAX_LRU`, `Host` | history | three hosts fill the largest limit, and smaller ones cut the list |
| `MaxReports`, `MaxPieces` | report | the second report replaces the first; two pieces can be cut between |
| `Address`, `MaxCandidates` | start | two addresses of each family, more than are tried |
| `MaxFailures`, `MaxExponent` | providers | 3 and 1 instead of 10 and 8: the count and the delay both reach their ends |
| `MaxJobs`, `MaxEntries`, `Lifetime` | metadata | a queue and a cache of one are full at once; lifetimes of one and zero expire within the clock |

The mutants show that the interesting cases occur within these bounds.


## 5. Fairness

* `TraceLoop`: the loop keeps running, and every ICMP call returns and is pushed:
  `IcmpSendEcho2Ex` has a time limit of its own. Nothing is assumed of the user and
  the clock.
* `PathDiscovery`: every probe is reported as a reply or a timeout.
* `TraceDialog`: the timer ticks, handlers go on, resolving has a limit of five
  seconds. A trace need not end, but one that is told to stop does: `StopEnds` of
  `TraceLoop` is what justifies strong fairness of `traceThread.stop /\ Finish`
  (the loop alternates between committing and notifying, hence strong). The user
  closes a message box sometime and need do nothing else.
* `NetworkInfo`: a query ends (its budget is eight seconds), messages and the timer
  are handled. No fairness of changes and of the clock.
* `MetadataPipeline`: loop and workers go on, providers answer or give up.
* `TraceStart`: threads go on and deadlines pass. The resolver returns when it is
  cancelled, or has its own timeout where it cannot be. A worker's head start is over
  after at most 250 ms per candidate, and its probe has a time limit. No fairness of
  an early wake-up, which may be missed, nor of a wait that fails.
* `ProviderQueries`: time passes. Nothing is assumed of the threads.
* The scheduler, the policy, the history and the export: safety only.


## 6. Proofs

Every safety invariant, every action property and both refinements that a passing run
checks are theorems: the run shows the property on a small instance, the theorem for
every value of the constants. The invariants below were checked by TLC before they
were proved. The only assumptions are the named ones of the modules. They say what
the constructors and the settings allow, and two of them concern bounds of the model
and not the code: `FirstEpoch <= MaxEpoch` lets the trace begin, and
`config_.shrink_confirmations <= MaxFound` lets the history variable of
`PathDiscovery` remember as many explorations as a confirmation takes.

**ProbeSchedulerProofs** proves `TypeCorrect` and `Accounting`, for every configuration,
bound and epoch, from `SchedulerAssumption` alone. Neither is inductive by itself:
whether a decrement stays in `Nat` depends on the count being the number of records
in a state. The inductive invariant `IInv` therefore joins `TypeOK` and
`RecordsAccounted`; the proofs use the latter in the form of `SessionMatches` and
`Matches(t)`, which say the same with counts that are functions of the record map
(`AccountedIsMatching`), and proceed step by step: first the algebra of `InState` and
`Outstanding` under adding, changing and removing records (`RecordAdded`,
`RecordChanged`, `RecordTaken`), then one lemma per method.

**ProbeSchedulerSafetyProofs** rests on it.

* Limits: `CapsHold` (every step but `reserve_due` and `mark_issued` lowers the counts;
  `mark_issued` trades a reservation for a probe in flight), `DrainIsClean`,
  `LiveIsCurrent` and `QuotaHolds`.
* Counting, in both directions: `CountedOnce` says that completed, cancelled and
  in-flight probes are distinct probes that were sent, and, while slots may be reserved,
  that all others are local errors. `EverySentIsAccounted` carries the second half
  through a drain and a cancellation. It has an assumption on the steps, that `stop()`
  finds no probe in flight (`Forgets`): `stop()` drops such probes without counting
  them. The trace loop never calls it, and `FinishedAlwaysQuiet` shows what a trace has
  accounted for when it returns.
* Pacing: `NeverABurst`, an action property, from what one reservation does to the
  deadline of its TTL and of the session. `FullOnesArePassed`: if a due TTL has room,
  one of them is the first in the order the code sorts by (`FirstWithRoom`, from the
  well-foundedness of the naturals), and the full ones before it are passed over.
  `WakesInTime` compares the instants `next_wake_at()` offers with what `reserve_due` and
  `expire_due` would find.
* Refinement: `LifecycleIsImplemented`. `StageOf` maps a record, or its absence, to the
  stage of its probe. Each method takes some probes one stage further and leaves the
  others, and the tallies follow the counters.

**RoutePolicyProofs** proves `RouteTypeCorrect`, `CeilingStaysInBounds` and `CandidateWaits`
from an inductive invariant that bounds every remembered TTL, for every
configuration the constructor may be given. `DiscoveryStaysInBounds` carries it over to
`PathDiscovery`, whatever paths the network takes: every step of the discovery is a
sequence of the policy's own steps, so the policy's invariant is kept, and the range
that is probed is cut by what the policy hands out. `ShrinkAlwaysConfirmed` relates two
states and a history: its invariant `CandidateIsCounted` says that what the policy
counts towards a candidate is what the latest explorations found, one after the
other, so no exploration that disagreed can be among those that confirm.

**TraceLoopProofs** is about every session, any number of resets and any length.

* `RequestsAlwaysAccounted`, `ResultsAlwaysKnown`, `TraceReturnsOwningNothing`. The
  invariant `LoopInv` restates `ResultsQueuedOnce` without counting (`QueueInv`) and
  adds that the batch is empty whenever the queue is drained (`BatchIsHandled`), that
  no number beyond `sequence_` has a record, and that what is reserved is of the epoch
  the scheduler is in. Most steps are `Quiet`: the calls of the scheduler they make keep
  the records of what the transport holds (`TransportKept`, one lemma per call), so only
  draining, completing, sending, answering and pushing need an argument of their own. A
  reset meanwhile changes states of records, never which requests are owned: that is
  why a callback's memory is safe whatever the user does.
* `LoopRefinesScheduler`: `UsesScheduler` holds, since `LoopUses` gives each call the
  types and the order the method requires. `Proved` is the scheduler of the loop with
  its theorems, and `TraceKeepsLimits` draws the conclusion: the limits, the quota,
  the counting and the pacing hold of a whole trace, whatever the network, the user
  and the callbacks do.
* `GraceAlwaysRespected`: an ending loop sends nothing any more, so probes in flight keep
  the deadline they were given; the loop sleeps only until an instant that is still to
  come, and that deadline is one of those it considers (`GraceInv`).
* `StatisticsAlwaysAgree`, `DisplayAlwaysOfEpoch`, `FinishedAlwaysQuiet`: `DisplayInv` says,
  hop by hop, which sums of the displayed counters are counters of the scheduler
  (`Tallies`). It holds while the display and the scheduler are of one epoch; between a
  reset and its adoption by the loop every hop is blank, which is why each commit has
  to compare the epochs again.

**TraceDialogProofs** proves `DialogTypeCorrect`, `JoinStaysShort`, `IdleStaysIdle` and
`CloseIsQuiet` for any number of traces. Its invariant says where the thread may be
when each of the two flags is set (`FlagsFollow`), what the interface may be joining
(`JoinIsOrderly`), and that a message of the current generation is posted only by a
thread that has ended (`MessagesAreLate`): without the last, a message left over could
bring a dialog to IDLE while its next trace runs.

**NetworkInfoProofs** proves `InfoTypeCorrect`, `QueryJoinIsShort` and `OffStaysOff` for any
number of events. `networkInfoRunning` says exactly where the thread is
(`RunningFollows`), and once the query is off every thread and message left has an
older generation (`OffIsSuperseded`), which is why none of them reaches the display.
`AlwaysEndsUpToDate` adds who owes the display its next change (`UpToDate`): while the
query is on, the display is up to date (`Shown`), or it gets what it lacks from the query
under way (`Wanted`), from that query's message (`Answered`), or from the refresh that a
message yet to come will start. The disjuncts hand the debt on, and none drops it.

**MetadataProofs** proves `LookupsTracked`, `CancelledStaysOut` and `HopsShowTheCache`. The
tokens are counted by `LookupsAreTracked`; the invariant does without counting, and
places the lookup of a registered address in exactly one of the request, the queue
and the workers (`OncePlaced`). A job of the epoch that runs carries the options of the
session that runs (`JobOK`), so what a worker brings back is either cancelled or fit
to be shown, wherever it was when the session changed.

**OperationsProofs** has three independent parts.

* `TraceStart`: `AnswerAlwaysInTime` and `CandidateIsRight` for any addresses and any number
  of candidates. The invariants follow the query (one under way keeps the thread in the
  call; one that was late was cut by a stop that is still requested, or by a wait that
  ended without it) and the race (a
  winner is a worker that recorded, and a worker goes home only for a reason).
* `ReportFile`: `ReportAlwaysWhole` (what is to be moved is on the disk, and the move is
  all or nothing).
* `HostHistory`: `HistoryTypeCorrect`, `ClearedAlwaysAway` (what is about to be written was
  entered, and values left over are never counted) and `HistoryAlwaysOneList`. A crash
  leaves the end of the old list or the beginning of the new one (`DeletedSoFar`,
  `WrittenSoFar`); a list loaded from either has the hosts of a list that was, in their
  order. That two such lists are equal is shown without induction: at the least index
  where they differ there would be a host out of order (`SameOrder`).

Only model-checked: liveness, which is out of the prover's reach together with
`ENABLED`: `CloseEnds`, `EndIsNoticed`, `DisplayCatchesUp`, `StopEnds`, `LoopSleeps`,
`LookupsEnd`, `RefreshEnds`, `StartEnds`, `ProviderIsAskedAgain` and `PathIsFound`. The four
disagreements are counterexamples of TLC. The types of `TraceDialog`, `NetworkInfo` and
`HostHistory` are proved and not run; those of the scheduler, the policy and the loop
are conjuncts of their invariants.


## 7. What is not modelled

* Parsing of ICMP replies, HTTP, JSON, DNS packets: a choice of outcomes.
* Round-trip statistics, jitter and the list of responders of a hop.
* Text, layout, painting, settings that are read and written one by one.
* Stateless tables (`WinMTRAddressPolicy.h`, `WinMTRProbeParameters.h`), which the
  repository's unit tests cover.
* Several sessions in one `TraceLoop`: the flag that keeps them apart is in
  `TraceDialog`.
* Two processes that use the registry at the same time, and calls of the registry
  that fail.
* The command line: one pass over values, each of which is accepted or refused.


## 8. Plan

Done, in this order: `ProbeScheduler` and its proofs, `ProbeLifecycle`, `RoutePolicy` and
its proofs, `PathDiscovery`, `TraceLoop`, `TraceDialog`, `NetworkInfo`,
`MetadataPipeline`, the proofs of `TraceDialog` and `NetworkInfo`, `HostHistory`,
`ReportFile`, `TraceStart`, `ProviderQueries`, and the proofs of these and of `TraceLoop`;
then the refinements, the action properties and the invariants that were only
model-checked.

Left, most useful first:

1. The policy inside the loop: that every step of `TraceLoop` is a step of
   `RoutePolicy` or leaves it alone, as it is proved of the scheduler, so that the bounds
   of the ceilings hold of a whole trace.
2. Facts behind the liveness properties that are safety, as theorems: a loop that
   sleeps sleeps no longer than the next deadline, a provider's delay is bounded.
3. `PathDiscovery` with cycles counted per TTL, for the exploration that is skipped
   when the minimum jumps over a multiple of the period (`WinMTRNet-Tracing.cpp:689`).
4. The bounded list of responders of a hop and its statistics as functions, checked
   against reference definitions; the JSON reader likewise.
