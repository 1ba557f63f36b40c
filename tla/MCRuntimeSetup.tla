-------------------------- MODULE MCRuntimeSetup --------------------------
(* TLC instance of RuntimeSetup: one server, and two WebViews of which the *)
(* second lacks a file of the first.                                       *)
EXTENDS RuntimeSetup, TLC

CONSTANTS s1, w1, w2, jar, lib, helper

MCServers  == {s1}
MCWebviews == {w1, w2}
MCParts    == {jar, lib, helper}
MCPartsOf  == (s1 :> {jar}) @@ (w1 :> {lib, helper}) @@ (w2 :> {lib})
=============================================================================
