----------------------------- MODULE MCFeatures -----------------------------
(* Three plugins, one of them broken and one without features, and two       *)
(* activities; calls of a module, of a plugin and of the statistics.         *)
EXTENDS Features

CONSTANTS a1, a2, scoring, other, broken

MCActivity == {a1, a2}
MCPlugin == {scoring, other, broken}
MCBroken == {broken}

Of(name, kinds, activities, current) ==
    [at : {"use"}, name : {name}, kind : kinds, activity : activities,
     current : {current}, lost : {FALSE}]

(* An activity is put on and off the record, the current one is put off it;  *)
(* a key names the statistics and no feature.                                *)
MCCalls == Of(scoring, {"on", "off"}, {a1}, FALSE)
             \cup Of(scoring, {"on"}, {a2}, FALSE)
             \cup Of(scoring, {"get", "on"}, {a1}, TRUE)
             \cup Of(scoring, {"bare"}, {a1}, FALSE)
             \cup Of(other, {"get"}, {a1}, FALSE)
             \cup Of("resources", {"get"}, {a1}, FALSE)
=============================================================================
