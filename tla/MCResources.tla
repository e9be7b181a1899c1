---------------------------- MODULE MCResources -----------------------------
(* Resources and the plugin that shares them, with one program, two          *)
(* resources, one of which is an "about:" page, and two windows.             *)
EXTENDS Slc

CONSTANTS p, u1, u2, w1, w2

MCUri == {u1, u2}
MCWid == {w1, w2}

Of(w, u, types) == [app : {p}, wid : {w}, uri : {u}, type : types]

(* All there is to do with one resource in one window, while another one, a  *)
(* second window and a program without windows get in between.               *)
MCInputs == Of(w1, u1, {"Opened", "Closed", "FocussedIn", "FocussedOut"})
              \cup Of(w1, u2, {"FocussedIn"})
              \cup Of(w2, u1, {"Opened"})
              \cup Of(NoWid, u1, {"Accessed"})
=============================================================================
