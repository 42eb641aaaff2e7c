---------------------------- MODULE MCSupervisor ----------------------------
(***************************************************************************)
(* Supervisor on a small instance: requests and threads are model values.   *)
(* They are not declared symmetric: liveness is checked in the same run.    *)
(***************************************************************************)
EXTENDS Supervisor
=============================================================================
