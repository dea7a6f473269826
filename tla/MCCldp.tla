-------------------------------- MODULE MCCldp --------------------------------
(* An instance of Cldp for TLC: what the users of cldp_client may ask, and    *)
(* how often the programs are started: the server and one of the clients once *)
(* more at their addresses.                                                   *)
EXTENDS Cldp

CONSTANT c2

Asked == {<<>>, <<"hostname", "systime">>}
Starts == [p \in Server \union Client |-> IF p = c2 THEN 1 ELSE 2]
===============================================================================
