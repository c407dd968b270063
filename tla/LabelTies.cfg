SPECIFICATION Spec
CONSTANTS
  Identities <- Messages
  Addresses <- People
  Texts <- LabelTexts
  Participants <- Mail
  Subject <- Subjects
  ThreadKey <- Threads
  Domain <- Domains
  PersonalDomains = {"mail"}
  Length <- Lengths
  Folded <- Ranks
  Inputs <- Lists
  Raw <- Mailbox
  Continuations <- ShortHeaders
  Normal <- Normals
  NoAddress = "no address"
  OwnerSets = {{}, {"me@home"}, {"me@home", "alias@home"}}
INVARIANT
  InputOrderIrrelevant
CHECK_DEADLOCK FALSE
