SPECIFICATION FairSpec
CONSTANTS
  server = server  cli = cli
  me = me
  a = a  b = b  c = c
  inbox = inbox  archive = archive
  Importers = {server, cli}
  Supervised = {server}
  Awaited = {server}
  Owners = {me}
  Paths = {inbox}
  RecordIds = {a, b, c}
  MaxVersion = 0
  Content <- SteadyInbox
  Restorable = {}
  BatchSize = 1
  NoCursor = NoCursor
  Nobody = Nobody
INVARIANT
  ProvenanceClosed
PROPERTY
  EveryRunEnds
