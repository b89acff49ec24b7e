-------------------------------- MODULE MCGui --------------------------------
(* Instances of Gui for TLC.                                               *)
EXTENDS Gui, TLC

(* The application and the others compete for the full screen.             *)
LayerOfPort == [p \in Ports |-> IF p = Desktop THEN "Desktop" ELSE "Fullscreen"]

(* Keys are only compared.                                                 *)
KeySymmetry == Permutations(Keys)
=============================================================================
