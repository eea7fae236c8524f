----------------------------- MODULE MCRoutes -----------------------------
(* Instances of Routes for TLC. *)
EXTENDS Routes

CONSTANTS s1, s2

TwoServers == <<s1, s2>>
============================================================================
