CONSTANTS
  Inputs <- TerminatedTexts
  Size = 5
  KeepDelimiter = TRUE
  Newline = Newline
  Junk = Junk
  MaxLength = 9
  EndA = EndA
  EndB = EndB
  EndOfMessage <- TwoBytes
  Radix = 10
  FieldDigits = 2
  BufferSize = 14
  ChunkSize = 7
  Capacity = 9
  SetPipeSize = TRUE
  PipeSize = 16
SPECIFICATION RequestsSpec
INVARIANTS
  ReadsLines
  EveryRequestOnce
  EchoesSource
CHECK_DEADLOCK FALSE
