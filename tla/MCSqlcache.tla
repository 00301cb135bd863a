----------------------------- MODULE MCSqlcache -----------------------------
(* Sqlcache with a cache without parameters and one with two.               *)
EXTENDS Sqlcache

CONSTANTS t1, t2, a, b, x, y

MCNumKeys == <<0, 2>>
MCOneCache == <<1>>

MCSymmetry == Permutations({t1, t2}) \union Permutations({a, b}) \union Permutations({x, y})
=============================================================================
