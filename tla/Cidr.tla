-------------------------------- MODULE Cidr --------------------------------
(***************************************************************************)
(* From stored addresses to exported prefixes: pkg/cidr (the radix tree),  *)
(* internal/aggregator (the levels) and their callers, the export step of  *)
(* a pipeline run and `d2ip export`.  The widths are parameters: an        *)
(* address of family f has Bits[f] bits, and Go's int has IntBits of them, *)
(* so that an instance has the two cases of the real program, 32 < 64 for  *)
(* IPv4 and 128 > 64 for IPv6.                                             *)
(***************************************************************************)
EXTENDS Integers, FiniteSets, Sequences, SequencesExt

CONSTANTS
  V4Bits, V6Bits,  \* the widths of the addresses: 32 and 128
  IntBits,         \* the width of Go's int: 64
  Seen,            \* the addresses that the resolver may store
  MaxSeen,         \* bound: addresses stored in one behaviour
  Confs            \* the configurations that are tried

Bits == [v4 |-> V4Bits, v6 |-> V6Bits]

Families == DOMAIN Bits

\* 2 ^ n, in a form that the provers can unfold.
Pow2[n \in Nat] == IF n = 0 THEN 1 ELSE 2 * Pow2[n - 1]

Addresses == UNION {[fam : {f}, n : 0 .. Pow2[Bits[f]] - 1] : f \in Families}

\* IPv4 has room in an int at every depth that can be merged, IPv6 has not.
ASSUME WidthAssumption ==
  /\ V4Bits \in Nat \ {0} /\ V6Bits \in Nat \ {0} /\ IntBits \in Nat \ {0}
  /\ V4Bits < IntBits
ASSUME SeenAssumption == Seen \subseteq Addresses /\ MaxSeen \in Nat

\* AggregationConfig.  A policy without a section of its own has one that is
\* not enabled: runPolicy does not tell the two apart.
Settings == [enabled : BOOLEAN, level : STRING, v4 : Int, v6 : Int]

ASSUME ConfAssumption == \A c \in Confs : {c.policy, c.global} \subseteq Settings

VARIABLES
  stored,   \* the addresses in the cache
  conf,     \* [policy, global]: the aggregation settings of this process
  out       \* [v4, v6, of]: the prefix lists of the last export, and what
            \* was stored then

cidrVars == <<stored, conf, out>>

-----------------------------------------------------------------------------
(* Prefixes *)

Prefix(f, depth, base) == [fam |-> f, n |-> base, len |-> depth]

Size(f, depth) == Pow2[Bits[f] - depth]

\* The numbers of the addresses below the node (depth, base).
Block(f, depth, base) == base .. base + Size(f, depth) - 1

Extent(p) == {[fam |-> p.fam, n |-> k] : k \in Block(p.fam, p.len, p.n)}

-----------------------------------------------------------------------------
(* The tree *)

\* levelToThreshold, in quarters: -1.0, 1.0, 0.75, 0.5, and 1.0 for anything
\* else.
levelToThreshold(level) ==
  CASE level = "off"        -> -4
    [] level = "balanced"   -> 3
    [] level = "aggressive" -> 2
    [] OTHER                -> 4

\* 1 << n in an int of IntBits bits: the sign bit at n = IntBits - 1, nothing
\* from there on.
Shifted(n) ==
  CASE n >= IntBits    -> 0
    [] n = IntBits - 1 -> -Pow2[n]
    [] OTHER           -> Pow2[n]

\* float64(count) / float64(max) >= threshold; a division by zero is +Inf.
RatioReaches(count, max, quarters) ==
  CASE max = 0 -> TRUE
    [] max > 0 -> 4 * count >= quarters * max
    [] max < 0 -> 4 * count <= quarters * max

countLeaves(f, nums, depth, base) == Cardinality(nums \cap Block(f, depth, base))

\* Mutant: the ratio has to exceed the threshold.
canMergeMoreThan(f, depth, count, quarters, maxPrefix) ==
  /\ depth > 0 /\ depth >= maxPrefix
  /\ RatioReaches(count, Shifted(Bits[f] - depth), quarters)
  /\ 4 * count # quarters * Shifted(Bits[f] - depth)

canMerge(f, depth, count, quarters, maxPrefix) ==
  /\ depth > 0
  /\ depth >= maxPrefix
  /\ RatioReaches(count, Shifted(Bits[f] - depth), quarters)

\* Mutant: the prefixes of the halves stay in the list.
MergedKeepsBelow(f, depth, base, below) == below \o <<Prefix(f, depth, base)>>

\* What a merge returns: one prefix, in place of those of its halves.
Merged(f, depth, base, below) == <<Prefix(f, depth, base)>>

\* One call of the walk, given what the calls one level deeper return: a node
\* without addresses is nil, a leaf is its own prefix, a node whose two halves
\* hold addresses becomes one prefix when it may be merged, and any other
\* returns the prefixes of its halves.
Collected(f, nums, quarters, maxPrefix, depth, base, deeper) ==
  LET middle == base + Size(f, depth + 1)
      left   == countLeaves(f, nums, depth + 1, base)
      right  == countLeaves(f, nums, depth + 1, middle)
      below  == deeper[base] \o deeper[middle]
  IN IF countLeaves(f, nums, depth, base) = 0 THEN << >>
     ELSE IF depth = Bits[f] THEN <<Prefix(f, depth, base)>>
     ELSE IF /\ left > 0 /\ right > 0
             /\ canMerge(f, depth, left + right, quarters, maxPrefix)
     THEN Merged(f, depth, base, below)
     ELSE below

\* The walk from the root; the nodes of node[h] have h bits below them.
collectPrefixes(f, nums, quarters, maxPrefix) ==
  LET node[h \in 0 .. Bits[f]] ==
        [base \in Nat |->
           Collected(f, nums, quarters, maxPrefix, Bits[f] - h, base, node[h - 1])]
  IN node[Bits[f]][0]

\* aggregateFamily: the ceiling is clamped and the list loses its order and
\* its repetitions, which is why the callers' lists are sets here.
aggregateFamily(f, in, quarters, maxPrefix) ==
  LET clamped == IF maxPrefix < 0 THEN 0
                 ELSE IF maxPrefix > Bits[f] THEN Bits[f] ELSE maxPrefix
  IN collectPrefixes(f, {a.n : a \in in}, quarters, clamped)

\* compareAddrs on the 16-byte forms.  Inside one family it compares the
\* numbers; the callers never mix the families in one list.
compareAddrs(p, q) == p.n < q.n

\* sort.Slice: the k-th place is for the element with k - 1 before it.  No two
\* prefixes of a list are equal, so it does not matter how equal ones are put.
Sorted(list) ==
  LET before(i) == {j \in DOMAIN list :
                      \/ compareAddrs(list[j], list[i])
                      \/ j < i /\ ~compareAddrs(list[i], list[j])}
  IN [k \in DOMAIN list |->
        list[CHOOSE i \in DOMAIN list : Cardinality(before(i)) = k - 1]]

Aggregate(in, quarters, maxPrefix) ==
  LET of(f)  == {a \in in : a.fam = f}
  IN Sorted(aggregateFamily("v4", of("v4"), quarters, maxPrefix)
              \o aggregateFamily("v6", of("v6"), quarters, maxPrefix))

AggregateV4(in, level, maxPrefix) ==
  Aggregate(in, levelToThreshold(level), maxPrefix)

AggregateV6(in, level, maxPrefix) ==
  Aggregate(in, levelToThreshold(level), maxPrefix)

\* The level of a configuration; runPolicy takes any other word for balanced.
LevelOf(word) ==
  IF word \in {"off", "conservative", "balanced", "aggressive"}
  THEN word ELSE "balanced"

\* No aggregation: one host prefix for each address, in the rows' order.
Hosts(in) == SetToSeq({Prefix(a.fam, Bits[a.fam], a.n) : a \in in})

\* The policy's settings when they are enabled, the global ones otherwise.
\* A policy cannot turn off what the global section turns on.
Effective == IF conf.policy.enabled THEN conf.policy ELSE conf.global

-----------------------------------------------------------------------------
(* Actions *)

CidrInit ==
  /\ stored = {}
  /\ conf \in Confs
  /\ out = [v4 |-> << >>, v6 |-> << >>, of |-> {}]

\* A run resolves one address more.  Runs follow one another and each ends
\* with its export.
Store(a) ==
  /\ Cardinality(stored) < MaxSeen
  /\ out.of = stored
  /\ a \notin stored
  /\ stored' = stored \cup {a}
  /\ UNCHANGED <<conf, out>>

\* The aggregation step of runPolicy over the addresses `in`.
ExportOf(in) ==
  LET of(f) == {a \in in : a.fam = f}
      s     == Effective
  IN /\ out' = IF s.enabled
                THEN [v4 |-> AggregateV4(of("v4"), LevelOf(s.level), s.v4),
                      v6 |-> AggregateV6(of("v6"), LevelOf(s.level), s.v6),
                      of |-> in]
                ELSE [v4 |-> Hosts(of("v4")), v6 |-> Hosts(of("v6")), of |-> in]
     /\ UNCHANGED <<stored, conf>>

\* Mutant: only what is new since the last export is exported.
ExportResolvedNow == ExportOf(stored \ out.of)

\* It takes what the cache holds, not what this run resolved.
Export == ExportOf(stored)

CidrNext == Export \/ \E a \in Seen : Store(a)

CidrSpec == CidrInit /\ [][CidrNext]_cidrVars

-----------------------------------------------------------------------------
(* Properties *)

Exported == Range(out.v4) \cup Range(out.v6)

Covered(ps) == UNION {Extent(p) : p \in ps}

Ceiling(f) == IF Effective.enabled THEN Effective[f] ELSE Bits[f]

\* Every variable has its type, and every exported prefix is of its family.
CidrTypeOK ==
  /\ stored \subseteq Seen /\ Cardinality(stored) <= MaxSeen
  /\ conf \in Confs
  /\ out.of \subseteq stored
  /\ \A f \in Families : \A p \in Range(out[f]) :
        p.fam = f /\ p.len \in 0 .. Bits[f] /\ p.n \in 0 .. Pow2[Bits[f]] - 1

\* Each address that was stored at the export is in exactly one prefix of it,
\* and no prefix is without one: the list has no holes, no overlaps and no
\* invented networks, at any level and with any ceiling (aggregate.go:24-27).
CoveredOnce ==
  /\ \A a \in out.of : Cardinality({p \in Exported : a \in Extent(p)}) = 1
  /\ \A p \in Exported : Extent(p) \cap out.of # {}
  /\ \A f \in Families : Cardinality(Range(out[f])) = Len(out[f])

\* The reference, from what aggregate.go and aggregator.go say of the levels:
\* the share of a network, in quarters, that has to be stored before it stands
\* for its addresses.
StoredShare == [conservative |-> 4, balanced |-> 3, aggressive |-> 2]

\* A network qualifies when the level merges at all, both of its halves hold a
\* stored address, it is neither the whole address space nor wider than the
\* ceiling, and the stored share of it reaches the level's.
Qualifies(p) ==
  LET size  == Size(p.fam, p.len)
      half  == size \div 2
      held  == Extent(p) \cap out.of
      level == LevelOf(Effective.level)
  IN /\ level \in DOMAIN StoredShare
     /\ p.len \in 1 .. Bits[p.fam] - 1 /\ p.len >= Ceiling(p.fam)
     /\ \E a, b \in held : a.n < p.n + half /\ b.n >= p.n + half
     /\ Cardinality(held) * 4 >= StoredShare[level] * size

Networks ==
  UNION {UNION {{Prefix(f, d, k * Size(f, d)) : k \in 0 .. Pow2[d] - 1} :
                  d \in 0 .. Bits[f]} : f \in Families}

\* An int holds the number of addresses in p.
Countable(p) == Size(p.fam, p.len) < Pow2[IntBits - 1]

\* What may stand for an address: its host prefix, or a network that qualifies.
Candidates(a) ==
  {p \in Networks : /\ a \in Extent(p) /\ Countable(p)
                    /\ Qualifies(p) \/ p.len = Bits[p.fam]}

\* The level off is set and in force.
LevelOff == Effective.enabled /\ LevelOf(Effective.level) = "off"

\* The prefix that stands for an address is the widest of its candidates: the
\* walk of the tree neither misses a merge nor makes one too many, at every
\* level that merges and without aggregation (tree.go:98-184), and an
\* aggregated list is in the order that aggregate.go:24 promises.  Nothing is
\* said of the two cases in which the code does not do what its comments say,
\* see NoExtras: the level off, and networks whose addresses an int cannot
\* count.
AsReference ==
  /\ ~LevelOff =>
       \A p \in Exported : Countable(p) =>
          \A a \in Extent(p) \cap out.of :
             p \in Candidates(a) /\ \A r \in Candidates(a) : p.len <= r.len
  /\ Effective.enabled =>
       \A f \in Families : \A i, j \in DOMAIN out[f] : i < j => out[f][i].n < out[f][j].n

\* "Lossless when threshold=1.0: all input addresses are covered, no extras"
\* (aggregate.go:27), and "No aggregation, /32 or /128 per address" for the
\* level off (aggregator.go:15): both export the stored addresses, no others.
NoExtras ==
  Effective.enabled /\ LevelOf(Effective.level) \in {"off", "conservative"} =>
    Covered(Exported) = out.of

\* More addresses never take a network out of an export: what one export
\* covers, every later one with the same settings covers too.  With a ratio
\* that could fall when an address is added this would fail.
GrowsOnly ==
  [][Covered(Exported) \subseteq Covered(Exported)']_cidrVars
=============================================================================
