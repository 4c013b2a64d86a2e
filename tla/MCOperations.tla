---------------------------- MODULE MCOperations ----------------------------
(***************************************************************************)
(* The operations of the dialog that share no state with one another or    *)
(* with the trace loop: the history of hosts, saving a report, the start   *)
(* of a trace and the queries to the providers.  A behaviour of them all   *)
(* is one of each, interleaved, and a property of one does not depend on   *)
(* the others: each behaviour here is one of a single operation.           *)
(***************************************************************************)
EXTENDS HostHistory, ReportFile, TraceStart, ProviderQueries

CONSTANTS a4, b4, a6, b6      \* addresses
CONSTANTS http, dns           \* providers
CONSTANTS t1, t2              \* threads that ask them

FourAddresses == { a4, b4, a6, b6 }
TwoOfThem     == { a4, b4 }
TwoProviders  == { http, dns }
OneByDns      == { dns }
TwoThreads    == { t1, t2 }
InTurns       == (t1 :> << http, dns >>) @@ (t2 :> << dns, http >>)

VARIABLE operation

vars == << operation, historyVars, reportVars, startVars, providerVars >>

Init ==
  /\ operation \in { "history", "report", "start", "providers" }
  /\ HistoryInit /\ ReportInit /\ StartInit /\ ProviderInit
  /\ operation # "history" => MaxLRU = MAX_MAX_LRU

Next ==
  /\ UNCHANGED operation
  /\ \/ /\ operation = "history" /\ HistoryNext
        /\ UNCHANGED << reportVars, startVars, providerVars >>
     \/ /\ operation = "report" /\ ReportNext
        /\ UNCHANGED << historyVars, startVars, providerVars >>
     \/ /\ operation = "start" /\ StartNext
        /\ UNCHANGED << historyVars, reportVars, providerVars >>
     \/ /\ operation = "providers" /\ ProviderNext
        /\ UNCHANGED << historyVars, reportVars, startVars >>

Spec == Init /\ [][Next]_vars /\ StartFairness /\ ProviderFairness
=============================================================================
