--------------------------- MODULE MCCalmRecords ---------------------------
(***************************************************************************)
(* The records of CalmRecords alone, for the run that repeats a frame.     *)
(***************************************************************************)
EXTENDS CalmRecords, CalmScenes
============================================================================
