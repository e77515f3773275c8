------------------------------ MODULE MCAgent -------------------------------
(* The agent with two servers and one name.                                *)
EXTENDS Agent

CONSTANTS s1, s2, n1

MCServers == {s1, s2}
MCNames == {n1}
MCHome == [server |-> s1, name |-> n1]

=============================================================================
