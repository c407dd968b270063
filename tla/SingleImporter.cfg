SPECIFICATION Spec
CONSTANTS
  server = server  cli = cli
  me = me
  a = a  b = b  c = c
  inbox = inbox  archive = archive
  Importers = {server}
  Supervised = {server}
  Awaited = {server}
  Owners = {me}
  Paths = {inbox, archive}
  RecordIds = {a, b, c}
  MaxVersion = 1
  Content <- InboxAndArchive
  Restorable = {inbox}
  BatchSize = 1
  NoCursor = NoCursor
  Nobody = Nobody
INVARIANT
  QuiescentMapCurrent
PROPERTY
  CheckpointNeverRewinds
