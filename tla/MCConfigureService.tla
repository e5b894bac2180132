------------------------- MODULE MCConfigureService -------------------------
(***************************************************************************)
(* ConfigureService on small instances.                                    *)
(***************************************************************************)
EXTENDS ConfigureService, TLC

\* Workers are interchangeable; used by the runs that check no liveness.
Symmetry == Permutations(Workers)
=============================================================================
