-------------------------- MODULE MCDeviceControls --------------------------
(* DeviceControls for TLC: which forms are posted and what is allowlisted. *)
EXTENDS DeviceControls, TLC

CONSTANTS t1, t2

TwoThreads == {t1, t2}

Form(parent, c, authorized, confirmed) ==
    [parent |-> parent, command |-> c, authorized |-> authorized, confirmed |-> confirmed]
AmbientForm(operation, confirmed) == Form(operation, Set("led", 0), TRUE, confirmed)
CommandForm(c) == Form("none", c, TRUE, TRUE)

(* Both ambient operations against component commands of both services. *)
Contention == {AmbientForm("ambient_on", FALSE), AmbientForm("ambient_off", TRUE),
               CommandForm(Set("power", 0)), CommandForm(Set("led", 1))}

(* Ambient off after a standalone LED command, nothing else. *)
IsolationContention == {AmbientForm("ambient_off", TRUE), CommandForm(Set("led", 1))}

(* Somebody else, not through the control plane. *)
OthersEnableLED == {Set("led", 1)}

(* Every way to be refused before the gate, and the brightness command. *)
Refusals == {AmbientForm("ambient_on", FALSE), AmbientForm("ambient_off", FALSE),
             AmbientForm("ambient_off", TRUE),
             Form("ambient_on", Set("led", 0), FALSE, TRUE),
             Form("none", Set("power", 1), FALSE, TRUE),
             Form("none", Set("power", 0), TRUE, FALSE),
             CommandForm(Set("brightness", 1)), CommandForm(Set("brightness", 2)),
             CommandForm(Set("grabber", 1))}

Everything == [target : Switch, value : {0, 1}] \union
              [target : {"brightness"}, value : Level]
WithoutGrabber == Everything \ {Set("grabber", 1)}

OneEach == [l \in Limiter |-> 1]

Symmetry == Permutations(Thread)
=============================================================================
