-------------------------- MODULE MCConfigProfiles --------------------------
(* Finite instances of ConfigProfiles.                                     *)
EXTENDS ConfigProfiles

CONSTANTS c1, c2, b1, b2, b3, p1, old, new, broken

TwoCommands == {c1, c2}
OneProfile  == {p1}
AllDocuments   == {old, new, broken}
\* The second command runs in an environment that turns old down.
ValidDocuments == [c \in Commands |-> IF c = c2 THEN {new} ELSE {old, new}]
ThreeBackups == {b1, b2, b3}
=============================================================================
