SPECIFICATION Spec
CONSTANTS
  a = a
  b = b
  c = c
  NoBlock = NoBlock
  Advert <- MCAdvert
  Provider = {"p1", "p2"}
  Key = {"k1", "k2"}
  Flat = {"f1"}
  Block = {"m1"}
  ProviderOf <- MCProviderOf
  KeyOf <- MCKeyOf
  FlatOf <- MCFlatOf
  BlockOf <- MCBlockOf
  MaxBucket = 1
INVARIANTS
  AnnouncedOnce
  CacheCoversVisible
PROPERTIES
  KeptIsNovel
  HardDeleteKeepsExact
  KeepsPromise
