------------------------- MODULE MCComposedRequest --------------------------
(* ComposedRequest for TLC, with a tool of each kind.                      *)
EXTENDS ComposedRequest
=============================================================================
