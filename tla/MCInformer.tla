------------------------------- MODULE MCInformer -------------------------------
(* Small instances of Informer for TLC.                                    *)
EXTENDS Informer

Lagging == [create |-> 2, edit |-> 2, relist |-> 2, restart |-> 1, fail |-> 1]
Expired == [create |-> 2, edit |-> 0, relist |-> 1, restart |-> 0, fail |-> 0]
===============================================================================
