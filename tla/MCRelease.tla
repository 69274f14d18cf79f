------------------------------- MODULE MCRelease -------------------------------
(***************************************************************************)
(* Finite instances of PlatformValidation.                                 *)
(***************************************************************************)
EXTENDS PlatformValidation

CONSTANTS own, other

=============================================================================
