SPECIFICATION FairSpec
CONSTANTS
  metrics = metrics
  item = item
  prefs = prefs
  ListKey = {metrics}
  ItemKey = {item, prefs}
  LeaseKey = {item}
  PropertyKey = {item}
  PrefsKey = {prefs}
  ResourceOf <- MCResourceOf
  Task = {t1, t2}
  Handler = {h1}
  TTL = 1
  RegTTL = 2
  Latency = 1
  MaxVersion = 1
INVARIANTS TypeOK BoundedStaleness
PROPERTY CacheSettles
