---------------------------- MODULE MCIttiTimer ------------------------------
(* Small instances of IttiTimer for TLC.                                   *)
EXTENDS IttiTimer
CONSTANTS a, b
OneCaller == {a}
TwoCallers == {a, b}
==============================================================================
