------------------------------ MODULE MCViewer ------------------------------
(* Small instances of Viewer. *)
EXTENDS Viewer

CONSTANTS tokens, models
=============================================================================
