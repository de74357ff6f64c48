---------------------------- MODULE MCRateLimiter ----------------------------
(***************************************************************************)
(* Three callers of two tenants ask up to four times around the turn of a   *)
(* minute; a minute has two ticks, a key lives for three.                   *)
(***************************************************************************)
EXTENDS RateLimiter, TLC

CONSTANTS t1, t2, c1, c2, c3

MCTenants == {t1, t2}
MCCallers == {c1, c2, c3}
Symmetry == Permutations(MCTenants) \union Permutations(MCCallers)
==============================================================================
