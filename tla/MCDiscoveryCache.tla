--------------------------- MODULE MCDiscoveryCache ---------------------------
EXTENDS DiscoveryCache

CONSTANTS a1, a2
=============================================================================
