------------------------------ MODULE MCSpies -------------------------------
(* One document of each kind.                                                *)
EXTENDS ResourceInfo

CONSTANTS d1, d2

MCDoc == {d1, d2}
MCGtkDoc == {d2}
MCDescribed == {d1}
=============================================================================
