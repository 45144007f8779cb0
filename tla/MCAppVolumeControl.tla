------------------------- MODULE MCAppVolumeControl --------------------------
(* Two applications and room for both, or for one of them.                  *)
EXTENDS AppVolumeControl

CONSTANTS t1, t2, p1, p2

\* 130 is out of range.
AskedVolumes == {40, 130}
=============================================================================
