-------------------------- MODULE MCRegenCoalescer --------------------------
(* Instances of RegenCoalescer for TLC.                                    *)
EXTENDS RegenCoalescer

CONSTANTS w1, w2
=============================================================================
