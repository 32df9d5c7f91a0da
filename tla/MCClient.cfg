SPECIFICATION FairSpec
CONSTANTS
  Consumer = {"c1", "c2", "d"}
  Conn = {"k1", "k2"}
  Rpc = {"m1", "m2"}
  Key = {"service", "host"}
  ClientOf <- MCClientOf
  KeyOf <- MCKeyOf
  CacheKeyOf <- MCCacheKeyOf
  Cached = {"c1", "c2"}
  Registered = {"c1", "c2"}
INVARIANTS
  CountersAreTicked
  CountersAreOwned
  GroupsFireLast
  UsersAreCounted
  ClosedConsumersRest
PROPERTIES
  ConsumersBecomeReady
