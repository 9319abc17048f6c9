SPECIFICATION Spec
CONSTANTS
  Rows <- MCRows
  Rank <- MCRank
  Scopes = {"n", "m"}
  Limit = 2
  AllNamespaces = "all"
INVARIANTS
  CountedPagingReachesAll
