------------------------------ MODULE MCRegistry ------------------------------
EXTENDS Registry, TLC

CONSTANTS a1, a2, b1, users, orders

MCServiceOf == (a1 :> users) @@ (a2 :> users) @@ (b1 :> orders)
=============================================================================
