---------------------------- MODULE MCTirePressure ----------------------------
(* One consumer, as in the application; the samples after the first are low. *)
EXTENDS TirePressure

CONSTANT c1

OneConsumer == {c1}
LaterAreLow == {2, 3}
===============================================================================
