----------------------------- MODULE MCLinking ------------------------------
(* Linking with two activities, one file and one application, by the agent   *)
(* of the favorites and another one.                                         *)
EXTENDS Linking, TLC

CONSTANTS a1, a2, f1, p1, other

MCActivity == {a1, a2}
MCAgent == {Favorites, other}
MCPath == {f1}
MCApplication == {p1}
(* What earlier calls left, by versions with and without the prefix.         *)
Row(a, agent, kind) == [act |-> a, agent |-> agent,
                        res |-> [kind |-> kind, name |-> p1]]
MCInherited == {Row(a, Favorites, "prefixed") : a \in MCActivity}
                 \cup {Row(a, other, "plain") : a \in MCActivity}

Symmetry == Permutations(MCActivity)
=============================================================================
