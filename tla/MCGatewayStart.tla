--------------------------- MODULE MCGatewayStart ---------------------------
(* Two sessions that start the workers of a server with a few slots.        *)
EXTENDS GatewayStart
=============================================================================
