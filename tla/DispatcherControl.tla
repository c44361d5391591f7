-------------------------- MODULE DispatcherControl --------------------------
(***************************************************************************)
(* What the configuration handler promises about the agent's dispatchers,  *)
(* seen from outside: the configuration switches them on and off at any    *)
(* time; they are started only while the configuration enables them; they  *)
(* may stop at any time (stop_dispatcher, or a restart whose memory check  *)
(* fails).                                                                 *)
(***************************************************************************)
VARIABLES
    enabled,   \* the configuration enables the dispatchers
    running    \* the dispatchers run

Init == enabled \in BOOLEAN /\ running \in BOOLEAN /\ (running => enabled)

Configure == enabled' \in BOOLEAN /\ UNCHANGED running

Start == enabled /\ running' = TRUE /\ UNCHANGED enabled

Halt == running' = FALSE /\ UNCHANGED enabled

Next == Configure \/ Start \/ Halt

Spec == Init /\ [][Next]_<<enabled, running>>
====
