---- MODULE MCEndToEnd ----
EXTENDS EndToEnd
CONSTANTS a1, users
MCServiceOf == [i \in Instance |-> users]
====
