---------------------------- MODULE MCActivities ----------------------------
(* Activities with three ids, started from files the program itself writes.  *)
EXTENDS Activities, TLC

CONSTANTS a1, a2, a3, main, dbus

MCActivity == {a1, a2, a3}

(* No file yet.                                                              *)
Fresh == [names |-> {}, running |-> {}, stopped |-> {}, lists |-> {},
          current |-> NoActivity]

(* One activity up and one down, either of them last used.                   *)
OneDown(x, y, last) == [names |-> {x, y}, running |-> {x}, stopped |-> {y},
                        lists |-> {"running", "stopped"}, current |-> last]

(* The last used one was removed.                                            *)
LastUsedGone(x, y) == [OneDown(x, x, y) EXCEPT !.stopped = {}]

Pairs == {w \in MCActivity \X MCActivity : w[1] # w[2]}

MCInitialConfigs == {Fresh} \cup {OneDown(w[1], w[2], w[1]) : w \in Pairs}
                            \cup {OneDown(w[1], w[2], w[2]) : w \in Pairs}
                            \cup {LastUsedGone(w[1], w[2]) : w \in Pairs}

Symmetry == Permutations(MCActivity)
=============================================================================
