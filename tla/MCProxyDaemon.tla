--------------------------- MODULE MCProxyDaemon ---------------------------
(* Two terminals, one or two projects, one release and the development build.*)
EXTENDS ProxyDaemon

CONSTANTS t1, t2, shop, etl, v1, v2
=============================================================================
