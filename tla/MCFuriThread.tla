---------------------------- MODULE MCFuriThread ----------------------------
(* Instances of FuriThread for TLC.                                        *)
EXTENDS FuriThread
=============================================================================
