------------------------------- MODULE MCTcp -------------------------------
(* Tcp for TLC: numbers that wrap within the connection, and no data. *)
EXTENDS Tcp

Numbers == [h \in Hosts |-> IF h = "A" THEN 30 ELSE 31]
Nothing == [h \in Hosts |-> 0]
=============================================================================
