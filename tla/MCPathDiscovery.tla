--------------------------- MODULE MCPathDiscovery ---------------------------
(***************************************************************************)
(* Networks for PathDiscovery: four hops of which two are asked for, one   *)
(* silent router tolerated, explorations every second cycle two hops       *)
(* ahead, two to confirm a shorter path.                                   *)
(***************************************************************************)
EXTENDS PathDiscovery

FourHops ==
  [ start_ttl |-> 1, minimum_ttl |-> 2, max_hops |-> 4, unknown_host_limit |-> 1,
    exploration_period |-> 2, exploration_frontier_ttls |-> 2,
    shrink_confirmations |-> 2 ]

\* Paths of two and three hops whose destination answers, one of them with a
\* silent router on the way.
ShortPaths ==
  { [ length |-> n, answering |-> 1..4 ] : n \in 2..3 }
  \cup { [ length |-> 3, answering |-> {1, 3, 4} ] }

\* The destination of the three-hop path is silent at times: the tail of
\* silent routers then ends at the last hop.
LongPaths == ShortPaths \cup { [ length |-> 3, answering |-> 1..2 ],
                               [ length |-> 4, answering |-> 1..4 ] }
=============================================================================
