\* A cap, its medium and their dim, under two manifests; one lookup of each kind.
CONSTANTS
  Caps = {"c"}
  Media = {"m"}
  Dims = {"d"}
  MediaOf <- Shared
  DimsOf <- AllDims
  Pins = {1, 2}
  Manifest <- Revisions
  Patient = {"get"}
  Impatient = {"cached"}
SPECIFICATION FairSpec
INVARIANT Whole
PROPERTY Hydrated
\* A process that runs and misses nothing rests.
CHECK_DEADLOCK FALSE
