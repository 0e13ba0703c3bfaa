--------------------------- MODULE MCVolumeUpdate ---------------------------
(* VolumeUpdate for TLC.                                                   *)
EXTENDS VolumeUpdate
=============================================================================
