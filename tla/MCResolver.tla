----------------------------- MODULE MCResolver -----------------------------
(***************************************************************************)
(* Three domains and two zones.  With two queries for aliases, the first   *)
(* zone has a domain with one alias too many, one with a single alias and  *)
(* one that is its own alias; the second has a domain in a loop of         *)
(* aliases, one without address records and one that does not exist.       *)
(***************************************************************************)
EXTENDS Resolver, TLC

CONSTANTS d1, d2, d3, x, y

MCDomains == {d1, d2, d3}
MCNames == MCDomains \cup {x, y}
None == [n \in MCNames |-> NoName]
Bare == [n \in MCNames |-> {}]

MCZones == {
    [cname |-> d1 :> x @@ x :> y @@ d2 :> y @@ d3 :> d3 @@ None,
     has |-> y :> {"AAAA"} @@ d3 :> {"A"} @@ Bare, absent |-> {}],
    [cname |-> d1 :> x @@ x :> d1 @@ None, has |-> Bare, absent |-> {d3}]}
=============================================================================
