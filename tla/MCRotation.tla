----------------------------- MODULE MCRotation -----------------------------
(* Instances of Rotation for TLC, sized in the cfg files.                    *)
EXTENDS Rotation
=============================================================================
