SPECIFICATION Spec
CONSTANTS
  worker = worker  cli = cli
  Messages = {"m1", "m2"}
  Importers = {worker, cli}
  Supervised = {worker}
  MaxWal = 3
  Nobody = Nobody
INVARIANTS
  TypeOK
  LoadIsOneMap
  SummaryCoversMap
  ErasureReachesDisk
  VaultInvariant
