---------------------------- MODULE MCInitTracer ----------------------------
(***************************************************************************)
(* InitTracer for TLC: the symmetry of the pids, and the refinement        *)
(* mapping to what the monitor promises about init.                        *)
(***************************************************************************)
EXTENDS InitTracer, TLC

Symmetry == Permutations(Pid)

Lifecycle == INSTANCE TracingLifecycle WITH state <- tracing, attached <- initTraced

(* Every behaviour of the monitor is one of TracingLifecycle: init is held *)
(* while TRACING or STOPPING and let go of in the end (request_start,      *)
(* request_stop, request_exit, request_rearm, notify_init_detached).  That *)
(* it lets go in the end holds where no stop of init takes the place of    *)
(* the interrupt, which is the fault "midfork".                            *)
ImplementsLifecycle == Lifecycle!Spec
=============================================================================
