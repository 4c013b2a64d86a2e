----------------------------- MODULE HostHistory -----------------------------
(***************************************************************************)
(* The list of hosts the user has traced (WinMTRDialog-registry.cpp): a    *)
(* copy in the registry, one value per host and one for their number, and  *)
(* a copy in the dialog.  persistHistory() is not atomic: it deletes the   *)
(* values, writes the new ones and only then their number, and the process *)
(* may end after any of these steps.                                       *)
(*                                                                         *)
(* One process at a time uses the registry here, and its calls succeed.    *)
(* Two names that differ in case only are the same host.                   *)
(***************************************************************************)
EXTENDS Integers, Sequences, SequencesExt

CONSTANTS
  Host,          \* the names a user may enter
  NoHost,        \* a value that is not there
  MAX_MAX_LRU    \* the largest limit of the list

ASSUME HistoryAssumption == MAX_MAX_LRU \in Nat \ {0} /\ NoHost \notin Host

VARIABLES
  MaxLRU,           \* registry: the limit saved with the settings
  HistoryCount,     \* registry: the number of hosts
  HistoryHost,      \* registry: the values Host1, Host2, ...
  historyLimit,     \* the limit of what is shown
  persistentHistoryLimit,
  sessionHistory,   \* the dialog's copy, oldest first
  persist,          \* where persistHistory(), or its caller, has got to
  previous,         \* history: what would have been loaded before it began
  entered           \* history: the hosts entered since the list was cleared

registryVars == << MaxLRU, HistoryCount, HistoryHost >>
limitVars    == << historyLimit, persistentHistoryLimit >>
historyVars  == << registryVars, limitVars, sessionHistory, persist, previous, entered >>

Index  == 1 .. MAX_MAX_LRU
Limit  == Index

\* The lists of hosts without duplicates.
Lists ==
  { s \in UNION { [1 .. n -> Host] : n \in 0 .. MAX_MAX_LRU } :
      \A i, j \in DOMAIN s : s[i] = s[j] => i = j }

keepNewest(hosts, limit) ==
  IF Len(hosts) > limit THEN SubSeq(hosts, Len(hosts) - limit + 1, Len(hosts)) ELSE hosts

-----------------------------------------------------------------------------
(* The registry *)

Stored == { i \in 1 .. HistoryCount : HistoryHost[i] # NoHost }

\* The last value that names the host.
IsLast(i) == i \in Stored /\ \A j \in Stored : HistoryHost[j] = HistoryHost[i] => j <= i

\* loadPersistedHistory() returns hosts: missing values are skipped, and of
\* duplicates the last one counts.
loadPersistedHistory(hosts) ==
  /\ \A i \in Stored : IsLast(i) => \E k \in DOMAIN hosts : hosts[k] = HistoryHost[i]
  /\ \A k \in DOMAIN hosts : \E i \in Stored : HistoryHost[i] = hosts[k]
  /\ \A k, l \in DOMAIN hosts : \A i, j \in Stored :
       /\ k < l /\ IsLast(i) /\ HistoryHost[i] = hosts[k]
       /\ IsLast(j) /\ HistoryHost[j] = hosts[l]
       => i < j

\* No call is under way.
At(place) == [ at |-> place, index |-> 1, oldCount |-> 0, hosts |-> << >>,
               session |-> << >>, clears |-> FALSE ]

\* persistHistory(hosts) begins; its caller then sets sessionHistory to session.
persistHistory(hosts, session, clears) ==
  /\ persist' = [ at |-> "delete", index |-> 1, oldCount |-> HistoryCount,
                  hosts |-> hosts, session |-> session, clears |-> clears ]
  /\ previous' \in { s \in Lists : loadPersistedHistory(s) }

\* Mutant: only as many values are deleted as there will be.
DeletesLeft_new_only == persist.index <= Len(persist.hosts)

\* All values that are or will be in use are deleted ...
DeletesLeft == persist.index <= persist.oldCount \/ persist.index <= Len(persist.hosts)

DeleteValue ==
  /\ persist.at = "delete" /\ DeletesLeft
  /\ HistoryHost' = [HistoryHost EXCEPT ![persist.index] = NoHost]
  /\ persist' = [persist EXCEPT !.index = @ + 1]
  /\ UNCHANGED << MaxLRU, HistoryCount, limitVars, sessionHistory, previous, entered >>

DeletesDone ==
  /\ persist.at = "delete" /\ ~DeletesLeft
  /\ persist' = [persist EXCEPT !.at = "write", !.index = 1]
  /\ UNCHANGED << registryVars, limitVars, sessionHistory, previous, entered >>

\* ... the new ones are written ...
SetStringValue ==
  /\ persist.at = "write" /\ persist.index <= Len(persist.hosts)
  /\ HistoryHost' = [HistoryHost EXCEPT ![persist.index] = persist.hosts[persist.index]]
  /\ persist' = [persist EXCEPT !.index = @ + 1]
  /\ UNCHANGED << MaxLRU, HistoryCount, limitVars, sessionHistory, previous, entered >>

\* ... and their number; the caller goes on.
SetCount ==
  /\ persist.at = "write" /\ persist.index > Len(persist.hosts)
  /\ HistoryCount' = Len(persist.hosts)
  /\ persist' = At("idle") /\ previous' = << >>
  /\ sessionHistory' = persist.session
  /\ entered' = IF persist.clears THEN {} ELSE entered
  /\ UNCHANGED << MaxLRU, HistoryHost, limitVars >>

-----------------------------------------------------------------------------
(* The dialog *)

sessionLimit == IF historyLimit < persistentHistoryLimit THEN persistentHistoryLimit
                ELSE historyLimit

HistoryInit ==
  /\ MaxLRU \in Limit
  /\ HistoryCount = 0 /\ HistoryHost = [i \in Index |-> NoHost]
  /\ historyLimit = MAX_MAX_LRU /\ persistentHistoryLimit = MAX_MAX_LRU
  /\ sessionHistory = << >>
  /\ persist = At("closed")
  /\ previous = << >> /\ entered = {}

\* InitRegistry() without a limit on the command line: the list is cut to the
\* limit saved, and written back.
InitRegistry ==
  /\ persist.at = "closed"
  /\ historyLimit' = MaxLRU /\ persistentHistoryLimit' = MaxLRU
  /\ \E hosts \in Lists :
       /\ loadPersistedHistory(hosts)
       /\ persistHistory(keepNewest(hosts, MaxLRU), keepNewest(hosts, MaxLRU), FALSE)
  /\ UNCHANGED << registryVars, sessionHistory, entered >>

\* With a limit on the command line, the registry is left as it is.
InitRegistryLimited ==
  /\ persist.at = "closed"
  /\ historyLimit' \in Limit /\ persistentHistoryLimit' = MaxLRU
  /\ \E hosts \in Lists :
       /\ loadPersistedHistory(hosts)
       /\ sessionHistory' = keepNewest(hosts, sessionLimit')
  /\ persist' = At("idle")
  /\ UNCHANGED << registryVars, previous, entered >>

\* remove_if(): a list names a host once at most.
Without(hosts, host) ==
  IF \E k \in DOMAIN hosts : hosts[k] = host
  THEN RemoveAt(hosts, CHOOSE k \in DOMAIN hosts : hosts[k] = host) ELSE hosts

\* OnRestart() with a host to trace.
AddHostToHistory(host) ==
  /\ persist.at = "idle"
  /\ sessionHistory' = keepNewest(Append(Without(sessionHistory, host), host), sessionLimit)
  /\ persistHistory(keepNewest(sessionHistory', persistentHistoryLimit), sessionHistory', FALSE)
  /\ entered' = entered \cup {host}
  /\ UNCHANGED << registryVars, limitVars >>

\* Mutant: the dialog's copy survives.
ClearHistory_keeps_session ==
  /\ persist.at = "idle"
  /\ persistHistory(<< >>, sessionHistory, TRUE)
  /\ UNCHANGED << registryVars, limitVars, sessionHistory, entered >>

\* The last item of the list of hosts.
ClearHistory ==
  /\ persist.at = "idle"
  /\ persistHistory(<< >>, << >>, TRUE)
  /\ UNCHANGED << registryVars, limitVars, sessionHistory, entered >>

\* OnOptions(): another limit is chosen ...
OnOptions ==
  /\ persist.at = "idle"
  /\ historyLimit' \in Limit /\ persistentHistoryLimit' = historyLimit'
  /\ persist' = At("save")
  /\ UNCHANGED << registryVars, sessionHistory, previous, entered >>

\* ... SaveSettings() writes it, and then the list is cut to it.
SaveSettings ==
  /\ persist.at = "save"
  /\ MaxLRU' = historyLimit
  /\ sessionHistory' = keepNewest(sessionHistory, historyLimit)
  /\ persistHistory(sessionHistory', sessionHistory', FALSE)
  /\ UNCHANGED << HistoryCount, HistoryHost, limitVars, entered >>

\* The process ends, in order or not.
ProcessEnds ==
  /\ persist.at # "closed"
  /\ persist' = At("closed")
  /\ sessionHistory' = << >> /\ previous' = << >>
  /\ UNCHANGED << registryVars, limitVars, entered >>

HistoryNext ==
  \/ InitRegistry \/ InitRegistryLimited
  \/ \E host \in Host : AddHostToHistory(host)
  \/ ClearHistory \/ OnOptions \/ SaveSettings
  \/ DeleteValue \/ DeletesDone \/ SetStringValue \/ SetCount
  \/ ProcessEnds

HistorySpec == HistoryInit /\ [][HistoryNext]_historyVars

-----------------------------------------------------------------------------
\* Properties

HistoryTypeOK ==
  /\ MaxLRU \in Limit /\ historyLimit \in Limit /\ persistentHistoryLimit \in Limit
  /\ HistoryCount \in 0 .. MAX_MAX_LRU
  /\ HistoryHost \in [Index -> Host \cup {NoHost}]
  /\ sessionHistory \in Lists
  /\ persist \in [ at : { "closed", "idle", "save", "delete", "write" },
                    index : 1 .. MAX_MAX_LRU + 1, oldCount : 0 .. MAX_MAX_LRU,
                    hosts : Lists, session : Lists, clears : BOOLEAN ]
  /\ previous \in Lists /\ entered \subseteq Host

\* However persistHistory() is cut short, the next start finds a list that was
\* one: the end of the list before, or the beginning of the new one, and never
\* a mixture of the two.  When it is through, the next start finds what the
\* dialog had.
HistoryIsOneList ==
  \A hosts \in Lists :
    loadPersistedHistory(hosts) =>
      /\ persist.at \in { "delete", "write" } =>
           IsSuffix(hosts, previous) \/ IsPrefix(hosts, persist.hosts)
      /\ persist.at = "idle" =>
           keepNewest(hosts, persistentHistoryLimit)
             = keepNewest(sessionHistory, persistentHistoryLimit)

\* Hosts that were cleared do not come back, neither from the registry nor from
\* the dialog's copy, unless they are entered again.
ClearedStaysAway ==
  /\ \A i \in Stored : HistoryHost[i] \in entered
  /\ \A k \in DOMAIN sessionHistory : sessionHistory[k] \in entered
=============================================================================
