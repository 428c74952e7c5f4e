------------------------------- MODULE Absence -------------------------------
(***************************************************************************)
(* The value components that run side by side in one specification share:  *)
(* the absence of a row, an answer, a holder or a setting.                 *)
(***************************************************************************)
CONSTANT None
=============================================================================
