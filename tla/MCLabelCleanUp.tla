--------------------------- MODULE MCLabelCleanUp ---------------------------
(* Instance of LabelCleanUp for TLC.                                        *)
EXTENDS LabelCleanUp
=============================================================================
