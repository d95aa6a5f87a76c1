---------------------------- MODULE MCAdcMonitor ----------------------------
(***************************************************************************)
(* Small instances of the ADC monitor for TLC: one in which temperatures   *)
(* and the sensor move, one in which the voltage and the APP do, one in    *)
(* which the power is switched on and ended again, and a sweep of the two  *)
(* tables over everything the ADC delivers.                                *)
(***************************************************************************)
EXTENDS AdcMonitor, AdcTables

HeatUse == [bands |-> Bands, targets |-> {Fixed}, loose |-> TRUE,
            power |-> FALSE, app |-> FALSE]
LevelUse == [bands |-> {Cool}, targets |-> Targets \ {Fixed}, loose |-> FALSE,
             power |-> FALSE, app |-> TRUE]
\* Power switched on, ended by heat or by an empty battery that is charging.
PowerUse == [bands |-> {Burning}, targets |-> {0}, loose |-> FALSE,
             power |-> TRUE, app |-> FALSE]

SweepUse == [bands |-> {Cool}, targets |-> {Fixed}, loose |-> FALSE,
             power |-> FALSE, app |-> FALSE]

AllUses == {HeatUse, LevelUse, PowerUse, SweepUse}

MCInit == MonitorInit /\ SweepInit
MCNext == \/ mv = 0 /\ MonitorNext /\ UNCHANGED mv
          \/ MonitorInit /\ use = SweepUse /\ Sweep /\ UNCHANGED allVars

\* The main loop comes round.
MCSpec == /\ MCInit /\ [][MCNext]_<<allVars, mv>>
          /\ WF_allVars(mv = 0 /\ monitor_poll)
          /\ WF_allVars(mv = 0 /\ level_update)
===========================================================================
