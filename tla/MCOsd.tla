------------------------------- MODULE MCOsd --------------------------------
(* An instance of OsdKeys for TLC: a visual row with RETURN and one with     *)
(* CAPS, one rebindable button whose roller offers the settings function,    *)
(* and a two-page menu.                                                      *)
EXTENDS OsdKeys
MCCode == <<90, 88>>
MCCentre == <<4, 6>>
MCvrows == <<[start |-> 1, count |-> 1], [start |-> 2, count |-> 1]>>
MCBound == <<"A">>
MCbind_default == [b \in {"A"} |-> 90]
MCkeybind_cycle == <<0, 241, 90, 255>>
Row(type, arg) == [type |-> type, arg |-> arg]
MCmenus == [m \in {"main", "controls"} |->
    IF m = "main" THEN <<Row("submenu", "controls"), Row("spacer", ""),
                         Row("defaults", ""), Row("reset", "")>>
    ELSE <<Row("keybind", "A")>>]
MCWords == {{}, {"A"}, {"B"}, {"X"}, {"L1"}, {"down"}, {"right"}, {"A", "L1"}}
MCProfiles == {[b \in {"A"} |-> 88]}
=============================================================================
