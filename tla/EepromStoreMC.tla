---------------------------- MODULE EepromStoreMC ----------------------------
(* Installations of EepromStore's instances: a record of each kind by itself, *)
(* and a composed one with one written from memory.                         *)
EXTENDS EepromStore
Of(o, e, f) == [order |-> o, maxEdits |-> e, maxFaults |-> f]
Kinds == {Of(<<r>>, 1, 1) : r \in {"wifi", "profiles", "display", "touch", "tuning"}}
Copies == {Of(<<"motors">>, 1, 0)}
Edits == {Of(<<"profiles">>, 2, 0)}
Pair  == {Of(<<"wifi", "profiles">>, 0, 1)}
KindsEditsPair == Kinds \cup Copies \cup Edits \cup Pair
Unchecked      == {Of(<<"profiles">>, 1, 1)}
SharedCopy     == {Of(<<"tuning">>, 1, 0)}
=============================================================================
