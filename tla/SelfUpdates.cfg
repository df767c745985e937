\* Three releases, on Unix and on Windows; faults are not bounded.
CONSTANTS
  Systems <- Both
  MaxRelease = 3
SPECIFICATION FairSpec
INVARIANTS PairPublished CartridgesKept
PROPERTY Converges
\* On Windows a stopped update may leave no executable, and then nothing runs.
CHECK_DEADLOCK FALSE
