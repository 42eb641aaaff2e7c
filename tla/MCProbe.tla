------------------------------- MODULE MCProbe -------------------------------
(***************************************************************************)
(* Probe on a small instance: two watches.                                  *)
(***************************************************************************)
EXTENDS Probe

TwoWatches == <<"#status@class", "count:li">>
=============================================================================
