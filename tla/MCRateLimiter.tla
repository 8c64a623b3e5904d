--------------------------- MODULE MCRateLimiter ---------------------------
(* RateLimiter for TLC. Requests other than the exempt ones are            *)
(* interchangeable, and so are clients. *)
EXTENDS RateLimiter, TLC

Symmetry == Permutations(Requests \ ExemptRequests) \cup Permutations(Clients)
=============================================================================
