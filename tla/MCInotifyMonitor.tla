-------------------------- MODULE MCInotifyMonitor --------------------------
(***************************************************************************)
(* InotifyMonitor for TLC, with objects and paths as model values.         *)
(***************************************************************************)
EXTENDS InotifyMonitor, TLC
=============================================================================
