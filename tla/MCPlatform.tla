----------------------------- MODULE MCPlatform ------------------------------
(* Two requests at a time, for one tenant that exists or not yet; two users. *)
EXTENDS Platform, TLC

CONSTANTS s1, u1, u2, r1, r2, x, tok

MCSlugs == {s1}
MCUsers == {u1, u2}
MCRequests == {r1, r2}
MCSecrets == {x}
MCTokens == {tok}
Symmetry == Permutations(MCUsers) \union Permutations(MCRequests)
==============================================================================
