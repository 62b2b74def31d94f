-------------------------- MODULE MCRouteRegistry --------------------------
(* Two processes and three projects, of which two share a base name and one  *)
(* is started in both modes: collisions, replacements and prunes all occur. *)
EXTENDS RouteRegistry, TLC

CONSTANTS p1, p2, shopA, shopB, etl, hShop, hEtl, d1

MCHostOf == (shopA :> hShop) @@ (shopB :> hShop) @@ (etl :> hEtl)
MCModesOf == (shopA :> {"docker", "standalone"}) @@ (shopB :> {"docker"}) @@ (etl :> {"standalone"})
=============================================================================
