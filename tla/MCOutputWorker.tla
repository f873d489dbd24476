--------------------------- MODULE MCOutputWorker ---------------------------
(* The output worker for TLC with either of its two consumers: the control *)
(* server (ControlJson is TRUE) and the printer to standard output, which  *)
(* gets more records.  Which one a behaviour has never changes.            *)
EXTENDS OutputWorker

CONSTANT PrinterRecords

VARIABLE consumer

Printer == INSTANCE OutputWorker WITH ControlJson <- FALSE,
                                      MaxRecords <- PrinterRecords

MCInit == \/ consumer = "server" /\ Init
          \/ consumer = "printer" /\ Printer!Init

MCNext == /\ \/ consumer = "server" /\ Next
             \/ consumer = "printer" /\ Printer!Next
          /\ UNCHANGED consumer

\* Fairness of OutputWorker, for the consumer a behaviour has.
MCFair(serverStep, printerStep) ==
    \/ consumer = "server" /\ serverStep
    \/ consumer = "printer" /\ printerStep

MCSpec ==
    /\ MCInit /\ [][MCNext]_<<vars, consumer>>
    /\ WF_vars(MCFair(RenderStep, Printer!RenderStep) /\ UNCHANGED consumer)
    /\ WF_vars(MCFair(WorkerStep, Printer!WorkerStep) /\ UNCHANGED consumer)
    /\ WF_vars(MCFair(ServerStep, Printer!ServerStep) /\ UNCHANGED consumer)
    /\ WF_vars(MCFair(PrinterStep, Printer!PrinterStep) /\ UNCHANGED consumer)
=============================================================================
