----------------------------- MODULE MCRegistry -----------------------------
EXTENDS Registry, TLC

MCOffered == {[prefix |-> "p", provider |-> "mmdb"],
              [prefix |-> "q", provider |-> "v2flygeosite"]}
MCNested == {[prefix |-> "p", provider |-> "ipverse"]}
MCSymmetry == Permutations(Threads) \cup Permutations(Ids)
=============================================================================
