\* Two sellers, three web workers: allocations and sales in every interleaving.
SPECIFICATION FairSpec
CONSTANTS
  Seller = {s1, s2}
  Clerk = {c1, c2, c3}
  Lot <- Lots
  Initial = 4
INVARIANTS TypeOK SoldWithinAllocation NoOverallocation
PROPERTIES RequestsEnd
