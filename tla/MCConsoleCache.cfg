SPECIFICATION FairCacheSpec
CONSTANTS
  Watched <- MCWatched
  NoData = NoData
  MaxVersion = 2
  MaxJobs = 1
INVARIANTS ReadYourWrites PagesAreTold
PROPERTIES PagesCatchUp ViewSpec
