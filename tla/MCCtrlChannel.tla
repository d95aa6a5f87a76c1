--------------------------- MODULE MCCtrlChannel ---------------------------
(***************************************************************************)
(* Small instances of the command channel for TLC: the APPs the firmware   *)
(* has to do with.                                                         *)
(***************************************************************************)
EXTENDS CtrlChannel

CONSTANTS volume, reward, uid, record_get, other

\* Repeats and sends whatever it likes, as fast as it can.
AnyApp == [used |-> {volume, record_get}, payloads |-> {TRUE},
           patience |-> 0, retryDepth |-> 2, maxReqs |-> 3, maxSends |-> 3,
           maxBads |-> 0, maxLinks |-> 1, loopTicks |-> 1]

\* Waits longer than a request can take.
PatientApp == [AnyApp EXCEPT !.patience = RspTimeout + 1, !.maxReqs = 2]

\* Repeats its last frame only, across disconnections.
LastFrameApp == [AnyApp EXCEPT !.retryDepth = 1, !.maxReqs = 2, !.maxLinks = 3]

\* All kinds of commands and payloads, and malformed frames.
AllFramesApp == [used |-> {volume, reward, uid, record_get, other},
                 payloads |-> BOOLEAN, patience |-> 0, retryDepth |-> 1,
                 maxReqs |-> 2, maxSends |-> 2, maxBads |-> 1, maxLinks |-> 1,
                 loopTicks |-> 0]

AllApps == {AnyApp, PatientApp, LastFrameApp, AllFramesApp}

\* One command, once.
OneCommandApp == {[AnyApp EXCEPT !.used = {volume}, !.retryDepth = 0,
                                 !.maxReqs = 1, !.maxSends = 1]}
============================================================================
