SPECIFICATION Spec
CONSTANTS
  Setups <- MCSetups
  Seqs <- MCSeqs
  NBatch = 4
  Pad = 4
  Cells = 12
INVARIANTS
  CopiesFit
  RowsOfTheirTokens
  NothingElseReadable
  PooledOfLastUbatch
  ReusedAsBuilt
