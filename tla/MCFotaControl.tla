--------------------------- MODULE MCFotaControl ---------------------------
(***************************************************************************)
(* Constants of the model-checking runs of FotaControl.                    *)
(***************************************************************************)
EXTENDS FotaControl

TwoRevisions == 1..2
=============================================================================
