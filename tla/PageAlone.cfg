SPECIFICATION FairClientSpec
CONSTANTS
  j1 = j1  f1 = f1  f2 = f2  m1 = m1
  Jobs = {j1}
  Messages = {m1}
  Calls = {1, 2}
  Files = {f1, f2}
INVARIANTS
  TypeOK
  ImportIsPreviewed
  ActiveJobsAreWatched
  LoadingIsAwaited
PROPERTY
  EveryCallEnds
