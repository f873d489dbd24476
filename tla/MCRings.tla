------------------------------ MODULE MCRings ------------------------------
(* The rings of the two hosts for TLC, each in behaviours of its own: the  *)
(* output ring of a stream, given by the constants of SampleRing; its      *)
(* input ring, which differs in what the callback pushes and in being      *)
(* discarded; and the ring from the worklet to its page.  Which one a      *)
(* behaviour is about never changes.                                       *)
EXTENDS SampleRing, WebAudioOutput

CONSTANTS InputPushSizes

VARIABLES host

Input == INSTANCE SampleRing WITH PushAlignment <- PopAlignment,
                                  PushSizes <- InputPushSizes,
                                  MayDiscard <- TRUE

MCInit == /\ Init /\ WebInit
          /\ host \in {"output", "input", "page"}
          /\ host # "page" => listening = {}

\* Behaviours of the page are followed until a drain moves its index back;
\* they may also come to rest.
PageNext == ~rewound /\ WebNext

MCNext == /\ \/ /\ \/ host = "output" /\ Next
                   \/ host = "input" /\ Input!Next
                /\ UNCHANGED webVars
             \/ /\ host = "page"
                /\ PageNext \/ UNCHANGED webVars
                /\ UNCHANGED vars
          /\ UNCHANGED host

\* WebFairness, for the behaviours that it has.
MCFair(step) == host = "page" /\ ~rewound /\ step /\ UNCHANGED <<vars, host>>

MCSpec == /\ MCInit /\ [][MCNext]_<<vars, webVars, host>>
          /\ WF_webVars(MCFair(WorkletStep))
          /\ WF_webVars(MCFair(DrainStep \/ LoopStep))
=============================================================================
