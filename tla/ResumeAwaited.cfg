SPECIFICATION Spec
CONSTANTS
  server = server  cli = cli
  me = me
  a = a  b = b  c = c
  inbox = inbox  archive = archive
  Importers = {server, cli}
  Supervised = {server}
  Awaited = {server, cli}
  Owners = {me}
  Paths = {inbox, archive}
  RecordIds = {a, b, c}
  MaxVersion = 1
  Content <- InboxAndArchive
  Restorable = {}
  BatchSize = 2
  NoCursor = NoCursor
  Nobody = Nobody
INVARIANTS
  TypeOK
  ResumeSafe
  CompletedImportIsWhole
  BatchIsValid
  ResumeInvariant
PROPERTY
  KeepsLedger
