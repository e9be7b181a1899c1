---------------------------- MODULE MCKSMServer -----------------------------
(* KSMServer on two activities, asked by the main thread and the thread of   *)
(* the D-Bus adaptor.                                                        *)
EXTENDS KSMServer

CONSTANTS a1, a2, main, dbus

MCActivity == {a1, a2}

(* The second activity is only ever started.                                 *)
MCAsked == {[act |-> a1, start |-> TRUE], [act |-> a1, start |-> FALSE],
            [act |-> a2, start |-> TRUE]}

MCThread == {main, dbus}
=============================================================================
