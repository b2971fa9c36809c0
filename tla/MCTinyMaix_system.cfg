SPECIFICATION MCSpec
CONSTANTS
  c1 = c1
  c2 = c2
  Clients = {c1, c2}
  NoClient = NoClient
  MaxHandles = 2
  OperMax = 2
  KeyMax = 2
  BlockSize = 4
  HeaderSize = 2
  MaxModelSize = 14
  ByteMax = 7
  MaixMagic <- MCMagic
  ModelInt8 = 0
  SubSizeAt = {5, 6}
  LayersBody = 8
  Packages <- AllPackages
  DevMode = TRUE
  ImageSize = 2
  Pixel <- MCPixel
  BuiltinPic <- MCBuiltin
  Class <- MCClass
  DirectCalls <- MCDirectCalls
INVARIANTS
  TypeOK
  ResourcesReleased
  LoadedModelIntact
  DecryptsWithDerivedKey
  OneAnswer
  HandlesBalanced
PROPERTIES
  EveryCallReturns
  ImplementsContract
