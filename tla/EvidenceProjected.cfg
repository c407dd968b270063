SPECIFICATION Spec
CONSTANTS
  Identities <- Messages
  Addresses <- People
  Texts <- LabelTexts
  Participants <- Mail
  Subject <- Subjects
  ThreadKey <- Threads
  Domain <- Domains
  PersonalDomains = {"mail"}
  Length <- Lengths
  Folded <- Ranks
  Inputs <- Lists
  Raw <- Mailbox
  Continuations <- ShortHeaders
  Normal <- Normals
  NoAddress = "no address"
  OwnerSets = {{}, {"me@home"}, {"me@home", "alias@home"}}
INVARIANTS
  TypeOK
  MapMatchesEvidence
  EdgesJoinNodes
  OneVotePerMessage
  ProjectionInvariant
  PersonsNamedAsMentioned
CHECK_DEADLOCK FALSE
