----------------------------- MODULE MCGetDupCirc -----------------------------
(* Instances of GetDupCirc for TLC: with three rings of an image the averages *)
(* have denominators 2, 3 and 4.                                              *)
EXTENDS GetDupCirc

ThreeRings == 12

=============================================================================
