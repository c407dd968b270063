SPECIFICATION FairSpec
CONSTANTS
  Jobs = {1, 2}
  InboxIds = {"inbox 1"}
  DemoMailbox <- DemoMessages
INVARIANTS
  TypeOK
  AtMostOneImport
  ThreadsAreActive
  ErasesAlone
  JobsInvariant
PROPERTIES
  CompletionShowsMap
  PollsAdvance
  ShowsJobBoard
  EveryJobEnds
