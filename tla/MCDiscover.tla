------------------------------ MODULE MCDiscover ------------------------------
EXTENDS Discover

CONSTANTS c1, c2

MCListings == {{}, {1, 2}, {1, 2, 3}}
=============================================================================
