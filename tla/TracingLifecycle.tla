-------------------------- MODULE TracingLifecycle --------------------------
(***************************************************************************)
(* What the monitor promises about init: it is traced from the monitor's   *)
(* start until a stop has been carried out or the monitor is gone, and     *)
(* both of these do happen.                                                *)
(***************************************************************************)
VARIABLES state,    \* what the monitor reports
          attached  \* whether it traces init

vars == <<state, attached>>

Init == state = "TRACING" /\ attached = TRUE

Start == state \in {"STOPPING", "STOPPED"} /\ state' = "TRACING" /\ attached' = TRUE

Stop == state = "TRACING" /\ state' = "STOPPING" /\ UNCHANGED attached

(* A rearm on a stopped monitor starts it and, failing, stops it again. *)
Restop == state = "STOPPED" /\ state' = "STOPPING" /\ attached' = TRUE

LetGo == state = "STOPPING" /\ state' = "STOPPED" /\ attached' = FALSE

Exit == state # "EXITING" /\ state' = "EXITING" /\ UNCHANGED attached

Leave == state = "EXITING" /\ attached /\ attached' = FALSE /\ UNCHANGED state

Next == Start \/ Stop \/ Restop \/ LetGo \/ Exit \/ Leave

Safety == Init /\ [][Next]_vars

Spec == Safety /\ WF_vars(LetGo) /\ WF_vars(Leave)
=============================================================================
