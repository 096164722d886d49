------------------------------- MODULE MCTracer -------------------------------
(***************************************************************************)
(* Instances of Tracer for TLC: any mode, or the monitor's own.            *)
(***************************************************************************)
EXTENDS Tracer

AnyMode   == TraceMode
SpawnOnly == {"SPAWN"}
=============================================================================
