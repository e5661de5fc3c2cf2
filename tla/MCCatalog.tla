------------------------------ MODULE MCCatalog ------------------------------
EXTENDS OutfitCatalog, TLC

Symmetric == Permutations(Handler) \cup Permutations(Slot) \cup Permutations(Name)
               \cup Permutations(Player)
==============================================================================
