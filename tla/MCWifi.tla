------------------------------- MODULE MCWifi -------------------------------
(***************************************************************************)
(* A small instance of WifiManager: one network whose password is right    *)
(* and one whose password is wrong.  A behaviour has one giver of orders,  *)
(* the panel or the console, chosen at the beginning; boot, its retries    *)
(* and resets belong to both.                                              *)
(***************************************************************************)
EXTENDS WifiManager

CONSTANTS n1, n2

VARIABLE by
mcvars == <<m, screen, by>>

MCInit == Init /\ by \in Actors
MCNext ==
    /\ by' = by
    /\ \/ Frame \/ Air \/ Reboot \/ StartupBegin \/ StartupEnds
       \/ by = "panel" /\ Panel
       \/ by = "console" /\ Console
\* The frames are fair at the console; what the panel asks for ends in its
\* own time, and no property of it is temporal.
MCSpec == MCInit /\ [][MCNext]_mcvars /\ WF_vars(by = "console" /\ FrameProgress)

(* StartupSettles, where the frames are fair.                              *)
SettlesAtTheConsole == by = "console" => StartupSettles
=============================================================================
