SPECIFICATION MCSpec
CONSTANTS
  m1 = m1
  m2 = m2
  NoBytes = NoBytes
  NoModel = NoBytes
  Paths <- MCPaths
  Inputs <- MCInputs
  ModelOf <- MCModelOf
  KeyFiles <- MCKeyFiles
  Invocations <- MCInvocations
  MaxRuns = 3
  BlockSize = 2
  HeaderSize = 2
  MaxModelSize = 12
  ByteMax = 3
  MaixMagic <- MCMagic
  ModelInt8 = 0
  SubSizeAt <- MCSubSizeAt
  LayersBody = 4
  Keys <- MCKeys
  Enc <- MCEnc
  Dec <- MCDec
  XorByte <- MCXorByte
  Models <- MCModels
  Ivs <- MCIvs
INVARIANTS
  KeyOpensPackage
  ArtifactsAgree
  TypeOK
  DamageIsLocal
  RoundTrip
CHECK_DEADLOCK FALSE
