---------------------------- MODULE MCRateLimit -----------------------------
(***************************************************************************)
(* Two limits, "2/second" and "1/second", in ticks of half a second: the   *)
(* lower one has the smaller bucket and the slower refill.                 *)
(***************************************************************************)
EXTENDS RateLimit, TLC

MCLimits == {[capacity |-> 2, unit |-> 1], [capacity |-> 1, unit |-> 1]}
KeySymmetry == Permutations(Keys)
=============================================================================
