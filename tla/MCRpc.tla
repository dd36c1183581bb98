------------------------------- MODULE MCRpc -------------------------------
(* A small instance of Rpc for TLC: one call that writes, one that reads.  *)
EXTENDS Rpc

CONSTANTS t1, t2

MCTools == {t1, t2}
MCMethod == [t \in MCTools |-> IF t = t1 THEN "append_event" ELSE "read_context"]
=============================================================================
