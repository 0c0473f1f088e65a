--------------------------- MODULE MCControlPlane ---------------------------
(* ControlPlane for TLC: one control thread and one page. *)
EXTENDS ControlPlane

CONSTANTS t1, r1

OneThread == {t1}
OneReader == {r1}

Form(parent, c) == [parent |-> parent, command |-> c, authorized |-> TRUE, confirmed |-> TRUE]

(* A sequence that uses both services, and one command of each service. *)
AmbientOn == {Form("ambient_on", Set("led", 0))}
BothServices == {Form("none", Set("led", 1)), Form("none", Set("power", 1))}

AnyOperation == AmbientOn \union BothServices

Everything == [target : Switch, value : {0, 1}]
OneEach == [l \in Limiter |-> 1]
OthersUseWLED == {Set("power", 0)}
=============================================================================
