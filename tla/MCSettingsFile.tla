--------------------------- MODULE MCSettingsFile ---------------------------
(***************************************************************************)
(* Two contents, two attempts for a name and three names in the life of a  *)
(* process: enough for a save to meet the leftovers of two crashes.        *)
(***************************************************************************)
EXTENDS SettingsFile
=============================================================================
