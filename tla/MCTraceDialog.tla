--------------------------- MODULE MCTraceDialog ---------------------------
(***************************************************************************)
(* An instance of TraceDialog for TLC: three traces, each started while    *)
(* messages of the ones before may still be on their way.                  *)
(***************************************************************************)
EXTENDS TraceDialog
=============================================================================
