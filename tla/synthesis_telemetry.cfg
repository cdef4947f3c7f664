SPECIFICATION SynthesisSpec
CONSTANTS
  Asker = {"t1"}
  Question = {"a", "b"}
  SNote = {"s1", "s2", "s3"}
  EntityHits <- EntityHitsOf
  SearchHits <- SearchHitsOf
  LowTier = {}
  Wanted = 2
  Unsafe = {"s3"}
  MaxQueries = 2
  MaxEvents = 3
INVARIANT SynthesisUnderItsQuery
CHECK_DEADLOCK FALSE
