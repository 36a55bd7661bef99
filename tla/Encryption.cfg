CONSTANTS
  Thread <- Threads
  Object <- Encryptors
  Obfuscator = {1, 2, 3}
  Nobody = Nobody
  NoKey <- Uninitialized
  End = End
  EndOfMessage <- OneByte
  Radix = 10
  FieldDigits = 2
  MaxMessages = 3
  Configurations <- TwoSided
  SignBytes = 2
  RsaBytes = 3
  DhBytes = 2
  ConvBufferSize = 2
  None = None
SPECIFICATION EncryptionSpec
INVARIANTS
  EncryptionTypeOK
  RightKey
  HiddenAtRest
  HandshakeIntact
  Readable
PROPERTIES
  AllReplied
CHECK_DEADLOCK FALSE
