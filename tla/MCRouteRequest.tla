--------------------------- MODULE MCRouteRequest ---------------------------
(* RouteRequest for TLC: a primary provider and a fallback of another      *)
(* format.                                                                 *)
EXTENDS RouteRequest

MCFormats == <<"openai", "anthropic">>
=============================================================================
