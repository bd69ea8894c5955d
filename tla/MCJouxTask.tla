----------------------------- MODULE MCJouxTask -----------------------------
(* JouxTask with the inputs of JouxInputs.                                     *)
EXTENDS JouxTask, JouxInputs

=============================================================================
