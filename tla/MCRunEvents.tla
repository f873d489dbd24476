---------------------------- MODULE MCRunEvents ----------------------------
(* The events of a run for TLC with one of three surroundings: clients     *)
(* that trigger several events, without waiting for answers, while the     *)
(* clock of a device that stays drifts; with fewer events, a device that   *)
(* keeps time and comes and goes, noticed or not, while a client plays and *)
(* pauses; or the same for a shorter time and with fewer commands, while   *)
(* the run may stop or fail.  Which one a behaviour has never changes.     *)
EXTENDS RunEvents

CONSTANTS DeviceTriggers, DeviceRequests,  \* bounds of the second and third
          DeviceInputs,                    \* bound of the second: events,
                                           \* requests and keys together
          OtherPresses,                    \* bound of the first and third
          EndingTime, EndingCommands       \* bounds of the third

VARIABLE focus

Device == INSTANCE RunEvents WITH MaxDrift <- 0,
                                  MaxRequests <- DeviceRequests

MCInit == Init /\ focus \in {"clients", "device", "ending"}

MCNext == /\ \/ /\ focus = "clients" /\ Next
                /\ device' = "connected" /\ wait' = "none" /\ ~stopping'
                /\ presses' <= OtherPresses
             \/ /\ focus = "device" /\ Device!Next
                /\ triggers' <= DeviceTriggers /\ ~stopping'
                /\ triggers' + requests' + presses' <= DeviceInputs
             \/ /\ focus = "ending" /\ Device!Next
                /\ triggers' + requests' <= EndingCommands
                /\ clock' <= EndingTime /\ presses' <= OtherPresses
                /\ device' # "deaf"
          /\ UNCHANGED focus

\* Fairness of RunEvents, for the surroundings a behaviour has.  The actions
\* named do not depend on the bounds in which these differ.
MCFair(step) == step /\ UNCHANGED focus

MCSpec == /\ MCInit /\ [][MCNext]_<<vars, focus>>
          /\ WF_vars(MCFair(RenderStep))
          /\ SF_vars(MCFair(StartBlock))
          /\ WF_vars(MCFair(ReportFull))
          /\ WF_vars(MCFair(CloseConnection))
          /\ WF_vars(MCFair(Answered))
=============================================================================
