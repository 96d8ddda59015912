---------------------------- MODULE MCRateLimiter ----------------------------
(* A small instance of RateLimiter for TLC. *)
EXTENDS RateLimiter

CONSTANTS c1, c2
MCClients == {c1, c2}
=============================================================================
