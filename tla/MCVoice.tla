------------------------------ MODULE MCVoice ------------------------------
(***************************************************************************)
(* Model-checking voice chat: with a listener few frames, in every order;  *)
(* without one more, for the gate.                                         *)
(***************************************************************************)
EXTENDS Voice

MCFrames == [raylib |-> 4, godot |-> 4, nobody |-> 10]

=============================================================================
