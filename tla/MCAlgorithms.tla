---------------------------- MODULE MCAlgorithms ----------------------------
(* TLC's instance of Algorithms.tla: an instance with two further          *)
(* dimensions, and another one that has one of them.                       *)
EXTENDS Algorithms

CONSTANTS i1, i2, asg, image
FourDimensions ==
  {[instance |-> i1, extra |-> Alone], [instance |-> i1, extra |-> asg],
   [instance |-> i1, extra |-> image], [instance |-> i2, extra |-> asg]}
OddNumbers == {1, 3}
=============================================================================
