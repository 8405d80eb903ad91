SPECIFICATION Spec
CONSTANTS
  t1 = t1  t2 = t2  id1 = id1  id2 = id2
  Agents = {1, 2, 3}
  Topics = {t1, t2}
  Ids = {id1, id2}
  MaxPartition = 1
  Hash <- MCHash
  Feed <- MCFeed
INVARIANTS
  RoutedAsMetadataSays
PROPERTIES
  TopicIDsCarried
