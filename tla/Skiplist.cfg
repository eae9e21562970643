\* Every list of up to five nodes with up to three layers.
CONSTANTS
  Items <- FiveItems
  MAX_SKIPLIST_LAYER = 3
  Head = Head
  Nil = Nil
SPECIFICATION Spec
INVARIANT TypeOK
INVARIANT ByRankIsInverse
INVARIANT NothingAboveCurrLayer
INVARIANT PrevIsInverse
PROPERTY SortedItemsSpec
