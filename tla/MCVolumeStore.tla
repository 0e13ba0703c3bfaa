--------------------------- MODULE MCVolumeStore ---------------------------
(* VolumeStore for TLC.  Goroutines of one kind are interchangeable, except*)
(* updaters: they put their own names into the metadata, consistently, so  *)
(* they are interchangeable too.                                           *)
EXTENDS VolumeStore, TLC

Symmetry == Permutations(Creators) \cup Permutations(Updaters) \cup Permutations(Readers)
=============================================================================
