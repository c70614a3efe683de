--------------------------- MODULE MCRegistration ---------------------------
(* Registration with a plugin of each kind the repository has, in the path *)
(* and added by name.                                                      *)
EXTENDS Registration

CONSTANTS api, cpu, headless, other

InPath == {api, cpu, headless}
ByName == {other}
Pushes == [l \in InPath \cup ByName |-> IF l \in {api, other} THEN {0} ELSE {}]
Pulls == [l \in InPath \cup ByName |->
             CASE l = cpu -> {0} [] l = other -> {1} [] OTHER -> {}]
First == {cpu}
MakeConnectors == {api, headless}
Single == {headless}
=============================================================================
