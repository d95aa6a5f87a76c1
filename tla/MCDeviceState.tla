--------------------------- MODULE MCDeviceState ---------------------------
(***************************************************************************)
(* What the APP gets to know of the device, as small instances for TLC:    *)
(* the copy of the SOC's settings, with one environment for each group of  *)
(* settings; the push of that copy; the records of the calming sessions.   *)
(* In the code the three share g_ctrlState only, and the push takes its    *)
(* values as they come, so a behaviour explores one part and leaves the    *)
(* other two where they begin.                                             *)
(***************************************************************************)
EXTENDS DeviceState, StatusPush, CalmRecords, CalmScenes

VARIABLE part      \* the part that moves

ASSUME PartsAssumption ==
    DeviceConstants /\ PushConstants /\ RecordsConstants

allVars == <<deviceVars, vars, recordVars, part>>

FirstOrder == CHOOSE o \in Orders : TRUE

\* Volume: overlapping, refused and lost commands, malformed strategies.
VolumeEnv == [used |-> {"VOLUME_SET", "VOLUME_GET", "STATUS_GET", "STRATEGY_SET"},
              volumes |-> Volumes, orders |-> {FirstOrder}, pipelined |-> TRUE,
              malformed |-> TRUE, refusals |-> TRUE, away |-> FALSE,
              notices |-> FALSE,
              maxCmds |-> 3, maxEvents |-> 0, maxLosses |-> 1]

\* Recordings, with one that reaches its longest.
RecordingEnv == [used |-> {"REC_START", "REC_STOP", "REC_SAVE", "REC_DELETE",
                           "REC_INFO_GET", "FACTORY_RESET"},
                 volumes |-> {100}, orders |-> {FirstOrder}, pipelined |-> TRUE,
                 malformed |-> FALSE, refusals |-> TRUE, away |-> FALSE,
                 notices |-> FALSE,
                 maxCmds |-> 4, maxEvents |-> 1, maxLosses |-> 1]

\* Power, with sessions that begin and end; then with a SOC that restarts or
\* refuses, and notices.
WorkEnv == [used |-> {"POWER_CTRL", "STATUS_GET"},
            volumes |-> {100}, orders |-> {FirstOrder}, pipelined |-> TRUE,
            malformed |-> FALSE, refusals |-> FALSE, away |-> FALSE,
            notices |-> FALSE,
            maxCmds |-> 3, maxEvents |-> 3, maxLosses |-> 1]
RestartEnv == [WorkEnv EXCEPT !.used = {"POWER_CTRL"}, !.refusals = TRUE,
                              !.notices = TRUE, !.maxEvents = 2]

\* Modes and strategies, one command after the other.
ModeEnv == [used |-> {"CALM_MODE_SET", "CALM_MODE_GET", "STATUS_GET",
                      "STRATEGY_SET", "STRATEGY_GET", "FACTORY_RESET"},
            volumes |-> {100}, orders |-> Orders, pipelined |-> FALSE,
            malformed |-> TRUE, refusals |-> FALSE, away |-> FALSE, notices |-> FALSE,
            maxCmds |-> 4, maxEvents |-> 0, maxLosses |-> 1]

\* Music that ends on its own, and an APP that comes and goes.
MusicEnv == [used |-> {"MUSIC_SELECT", "MUSIC_PLAY", "MUSIC_PLAY_STOP"},
             volumes |-> {100}, orders |-> {FirstOrder}, pipelined |-> TRUE,
             malformed |-> FALSE, refusals |-> TRUE, away |-> TRUE, notices |-> FALSE,
             maxCmds |-> 3, maxEvents |-> 1, maxLosses |-> 1]

\* Recordings are played; the time is set.
PlayEnv == [used |-> {"REC_PLAY", "REC_PLAY_STOP", "TIME_SET", "REC_START",
                      "REC_STOP"},
            volumes |-> {100}, orders |-> {FirstOrder}, pipelined |-> FALSE,
            malformed |-> FALSE, refusals |-> TRUE, away |-> FALSE, notices |-> FALSE,
            maxCmds |-> 3, maxEvents |-> 0, maxLosses |-> 0]

AllEnvs == {VolumeEnv, RecordingEnv, WorkEnv, RestartEnv, ModeEnv, MusicEnv,
            PlayEnv}

\* Where a part begins that does not move
SettingsAtRest == /\ env = VolumeEnv /\ soc.mode = 0
                  /\ g_ctrlState.volume = 100 /\ soc.volume = 100
PushAtRest == /\ work = 1 /\ charge = 0
              /\ settings = CHOOSE s \in Settings : TRUE
RecordsAtRest == scene = CHOOSE s \in Scenes : TRUE

MCInit == /\ DeviceInit /\ Init /\ RecordsInit
          /\ \/ part = "settings" /\ PushAtRest /\ RecordsAtRest
             \/ part = "push" /\ SettingsAtRest /\ RecordsAtRest
             \/ part = "records" /\ SettingsAtRest /\ PushAtRest

MCNext == /\ UNCHANGED part
          /\ \/ /\ part = "settings" /\ DeviceNext
                /\ UNCHANGED <<vars, recordVars>>
             \/ /\ part = "push" /\ Next
                /\ UNCHANGED <<deviceVars, recordVars>>
             \/ /\ part = "records" /\ RecordsNext
                /\ UNCHANGED <<deviceVars, vars>>

MCSpec == MCInit /\ [][MCNext]_allVars /\ RecordsFairness

============================================================================
