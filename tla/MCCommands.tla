----------------------------- MODULE MCCommands -----------------------------
(* The finite instance of the components that meet no other one: the DDP   *)
(* output test, the capture of a frame, the runtime controller, the        *)
(* reading of the history page by page, and the operator sessions.  They   *)
(* share nothing, so a behaviour runs one of them and leaves the others    *)
(* where they begin.                                                       *)
EXTENDS DDPOutput, CaptureFrame, RuntimeController, HealthPages, SessionControl, TLC

CONSTANTS i1, i2, alice, bob, carol

TwoThreads == {i1, i2}
ThreeClients == {alice, bob, carol}

\* Neither request threads nor clients are ordered.
Symmetry == Permutations(Threads) \cup Permutations(Clients)

VARIABLE command  \* what the operator has called

commandVars == <<command, vars, captureVars, runtimeVars, pagesVars, sessionVars>>

CommandInit ==
  /\ command \in {"output", "capture", "runtime", "pages", "sessions"}
  /\ Init /\ CaptureInit /\ RuntimeInit /\ PagesInit /\ SessionInit
  /\ command # "output" => planned = 1
  /\ command # "pages" => listing = "events"
  /\ command # "runtime" => enabled = {} /\ injected = {}

CommandNext ==
  /\ UNCHANGED command
  /\ \/ /\ command = "output" /\ Next
        /\ UNCHANGED <<captureVars, runtimeVars, pagesVars, sessionVars>>
     \/ /\ command = "capture" /\ CaptureNext
        /\ UNCHANGED <<vars, runtimeVars, pagesVars, sessionVars>>
     \/ /\ command = "runtime" /\ RuntimeNext
        /\ UNCHANGED <<vars, captureVars, pagesVars, sessionVars>>
     \/ /\ command = "pages" /\ PagesNext
        /\ UNCHANGED <<vars, captureVars, runtimeVars, sessionVars>>
     \/ /\ command = "sessions" /\ SessionNext
        /\ UNCHANGED <<vars, captureVars, runtimeVars, pagesVars>>

CommandSpec == CommandInit /\ [][CommandNext]_commandVars
=============================================================================
