------------------------------ MODULE MCConfig ------------------------------
(* Two requests at a time, two policy names, two tables, one subscriber.   *)
EXTENDS Config

CONSTANTS a, b
MCBase == <<[name |-> a, table |-> 1]>>
MCOffered == {[name |-> n, table |-> 2] : n \in {a, b}}
MCLists == {<<[name |-> b, table |-> 2]>>}
=============================================================================
