-------------------------------- MODULE Dns --------------------------------
(***************************************************************************)
(* internal/resolver/dns.go and queryDomain: what one attempt to resolve a *)
(* domain concludes from the answers it gets.                              *)
(*                                                                         *)
(* A zone says of every name where its CNAME points, which kinds of        *)
(* address records it has, and whether it exists.  The upstream server is  *)
(* external and recursive: asked for addresses it follows aliases itself,  *)
(* as far as they go.  Any query may fail instead of being answered.       *)
(***************************************************************************)
EXTENDS Integers, FiniteSets

CONSTANTS
    Names,            \* the domains of the batch and the names they alias
    Zones,            \* what the DNS may say of them
    FollowCNAME, MaxCNAMEChain

Kinds == {"A", "AAAA"}
NoName == "none"
ChainErrors == {"loop", "too long"}   \* what followCNAME may return for a name

\* A name that does not exist has no address records.
ASSUME DnsAssumption ==
    /\ FollowCNAME \in BOOLEAN
    /\ MaxCNAMEChain \in Nat \ {0}
    /\ IsFiniteSet(Names) /\ Names \cap ({NoName} \cup ChainErrors) = {}
    /\ \A z \in Zones : /\ z.cname \in [Names -> Names \cup {NoName}]
                        /\ z.has \in [Names -> SUBSET Kinds]
                        /\ z.absent \subseteq Names
                        /\ \A n \in z.absent : z.has[n] = {}

\* cname == "" || cname == current: no more CNAMEs
Terminal(z, n) == z.cname[n] \in {NoName, n}

\* The names met on the way from n, one hop at a time; the end repeats.
Walk(z, n, hops) ==
    LET walk[i \in 0..hops] ==
            IF i = 0 THEN n
            ELSE IF Terminal(z, walk[i - 1]) THEN walk[i - 1]
            ELSE z.cname[walk[i - 1]]
    IN walk

-----------------------------------------------------------------------------
(* The upstream server *)

End(z, n) == Walk(z, n, Cardinality(Names))[Cardinality(Names)]

Upstream(z, n, kind) ==
    LET end == End(z, n)
    IN IF ~Terminal(z, end) THEN "servfail"
       ELSE IF kind \in z.has[end] THEN "addrs"
       ELSE IF end \in z.absent THEN "nxdomain" ELSE "empty"

-----------------------------------------------------------------------------
(* followCNAME, queryType, queryDomain *)

\* What followCNAME returns when the query of hop number cut fails (none does
\* if cut is MaxCNAMEChain): a name, or one of its two errors.  Iteration i
\* first tests visited, then asks for the CNAME of the name it has reached.
followCNAME(z, n, cut) ==
    LET walk    == Walk(z, n, MaxCNAMEChain)
        Loop(i) == \E j \in 0..(i - 1) : walk[j] = walk[i]
        Over(i) == i = cut \/ Terminal(z, walk[i])
        stops   == {i \in 0..(MaxCNAMEChain - 1) : Loop(i) \/ Over(i)}
    IN IF stops = {} THEN "too long"
       ELSE LET i == CHOOSE i \in stops : \A j \in stops : i <= j
            IN IF Loop(i) THEN "loop" ELSE walk[i]

Targets(z, n) ==
    IF FollowCNAME THEN {followCNAME(z, n, cut) : cut \in 0..MaxCNAMEChain}
    ELSE {n}

\* queryType: the answer, an error isRetryable recognises, or another error
\* (a cancelled context, REFUSED, an unreachable network).
Replies(z, n, kind) == {Upstream(z, n, kind), "timeout", "other"}

isRetryable(r) == r \in {"servfail", "timeout"}

\* Mutant: no addresses at all means NXDOMAIN, errors or not.
ConcludeNoAddresses(a, aaaa) ==
    IF "addrs" \in {a, aaaa} THEN "valid" ELSE "nxdomain"

\* The verdict on the replies to the A and AAAA queries.  Addresses of one
\* kind are enough, whatever became of the other query.
Conclude(a, aaaa) ==
    IF "addrs" \in {a, aaaa} THEN "valid"
    ELSE IF "nxdomain" \in {a, aaaa} \/ {a, aaaa} = {"empty"} THEN "nxdomain"
    ELSE IF isRetryable(a) \/ isRetryable(aaaa) THEN "retry"
    ELSE "failed"

\* What queryDomain may return for domain d: an error of followCNAME is final.
queryDomain(z, d) ==
    UNION {IF t \in Names
           THEN {Conclude(a, aaaa) : a \in Replies(z, t, "A"),
                                     aaaa \in Replies(z, t, "AAAA")}
           ELSE {"badchain"} : t \in Targets(z, d)}

Verdicts == [z \in Zones |-> [d \in Names |-> queryDomain(z, d)]]
=============================================================================
