SPECIFICATION MCSpec
CONSTANTS
  m1 = m1
  m2 = m2
  NoBytes = NoBytes
  NoModel = NoBytes
  Paths <- MCPaths
  Inputs <- MCInputs
  ModelOf <- MCModelOf
  KeyFiles <- MCKeyFiles
  Invocations <- MCOtherNames
  MaxRuns = 3
  BlockSize = 2
  HeaderSize = 2
  MaxModelSize = 12
  ByteMax = 3
  MaixMagic <- MCMagic
  ModelInt8 = 0
  SubSizeAt <- MCSubSizeAt
  LayersBody = 4
  Keys <- MCKeys
  Enc <- MCEnc
  Dec <- MCDec
  XorByte <- MCXorByte
  Models <- MCModels
  Ivs <- MCIvs
INVARIANT
  SavedPackageStays
CHECK_DEADLOCK FALSE
