---------------------------- MODULE MCEventFeed ----------------------------
(* Small instances of EventFeed for TLC.                                  *)
EXTENDS EventFeed, TLC
=============================================================================
