----------------------------- MODULE MCRateLimit -----------------------------
(* A token is two units and fills in two ticks, the burst is one token: the   *)
(* key lives for four ticks, and the skew of the clocks is at its limit.  The *)
(* gateways are interchangeable, and the properties are invariants.           *)
EXTENDS RateLimit, TLC

GatewaySymmetry == Permutations(Gateways)
=============================================================================
