---------------------------- MODULE MCEventWatcher ---------------------------
(* Instances of EventWatcher for TLC.                                      *)
EXTENDS EventWatcher

CONSTANTS s1, s2

=============================================================================
