----------------------------- MODULE MCStateStore -----------------------------
\* Two readers of the upstream and one caller of Snapshot.
EXTENDS StateStore, TLC

CONSTANTS location, head, wield, r1, r2, h1

OneColumn == {location}
TwoSlots == {head, wield}
TwoWriters == {r1, r2}
OneReader == {h1}
StoreSymmetry == Permutations(TwoSlots) \union Permutations(TwoWriters)
===============================================================================
