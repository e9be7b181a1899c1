---------------------------- MODULE MCConfigSync ----------------------------
(* ConfigSync with the main thread and the thread of the D-Bus adaptor.      *)
EXTENDS ConfigSync

CONSTANTS main, dbus

MCWriter == {main, dbus}
=============================================================================
