--------------------------- MODULE MCProxyLifecycle ---------------------------
(* Two proxies, one with a plugin that has hooks, and three calls that may *)
(* overlap in every way.                                                   *)
EXTENDS ProxyLifecycle

CONSTANTS web, api

MCProxy  == {web, api}
MCHooked == {web}

MCCalls ==
  {<<"start", {web}>>, <<"start", {api}>>, <<"stop", {web}>>,
   <<"reload", {web}>>, <<"shutdown", MCProxy>>}
=============================================================================
