-------------------------------- MODULE MCCli --------------------------------
EXTENDS Cli, TLC

MCNothing == << >>
MCContents == (SUBSET (Versions \cup {Garbled})) \X AggLevels

Symmetry == Permutations(Users)
=============================================================================
