-------------------------------- MODULE MCOutput --------------------------------
(***************************************************************************)
(* Finite instances of OutputTransport.                                    *)
(***************************************************************************)
EXTENDS OutputTransport

=============================================================================
