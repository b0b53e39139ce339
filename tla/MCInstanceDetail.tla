-------------------------- MODULE MCInstanceDetail --------------------------
(* Instances of InstanceDetail for TLC.                                    *)
EXTENDS InstanceDetail, TLC

CONSTANTS i1, i2, g1, g2

(* Two instances, of two RGDs.                                             *)
OwnRGDs == i1 :> g1 @@ i2 :> g2

=============================================================================
