----------------------------- MODULE CalmScenes -----------------------------
(***************************************************************************)
(* The scenes of CalmRecords that TLC explores.                            *)
(***************************************************************************)

\* Counts the entries, leaves every request its time: losses and restarts.
PatientScene == [careful |-> TRUE, repeats |-> FALSE, hasty |-> FALSE,
                 errors |-> FALSE, airLosses |-> TRUE, lengths |-> {2},
                 maxRecords |-> 2, maxWrites |-> 14, maxFaults |-> 2,
                 maxTurns |-> 3]

\* Goes by the last entry, is turned down and gives up early; nothing is lost.
HastyScene == [careful |-> FALSE, repeats |-> FALSE, hasty |-> TRUE,
               errors |-> TRUE, airLosses |-> FALSE, lengths |-> {2, 4},
               maxRecords |-> 2, maxWrites |-> 4, maxFaults |-> 0,
               maxTurns |-> 2]

\* Counts, repeats its frames, and reads records that do not fit into a frame.
RepeatingScene == [careful |-> TRUE, repeats |-> TRUE, hasty |-> FALSE,
                   errors |-> TRUE, airLosses |-> TRUE, lengths |-> {3, 4},
                   maxRecords |-> 2, maxWrites |-> 4, maxFaults |-> 1,
                   maxTurns |-> 1]

AllScenes == {PatientScene, HastyScene, RepeatingScene}
RepeatingScenes == {RepeatingScene}
=============================================================================
