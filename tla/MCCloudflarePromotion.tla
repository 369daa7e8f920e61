----------------------- MODULE MCCloudflarePromotion -----------------------
(* Two operations set a binding each: what one sets, the other inherits. *)
EXTENDS CloudflarePromotion, TLC

CONSTANTS o1, o2

MCSets == (o1 :> {"A"}) @@ (o2 :> {"B"})
MCSymmetry == Permutations(Process)
=============================================================================
