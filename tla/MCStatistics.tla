---------------------------- MODULE MCStatistics ----------------------------
(* Statistics with two activities and one pair of an agent and a resource.   *)
EXTENDS Statistics

CONSTANTS a1, a2, i1

MCActivity == {a1, a2}
MCItem == {i1}
MCPrivate == {a2}
=============================================================================
