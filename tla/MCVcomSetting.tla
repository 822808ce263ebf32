--------------------------- MODULE MCVcomSetting ---------------------------
(***************************************************************************)
(* VcomSetting with words of three bits: the one the setting uses, and two *)
(* that only an operation cut short can tell apart.                        *)
(***************************************************************************)
EXTENDS VcomSetting
=============================================================================
