SPECIFICATION Spec
CONSTANTS
  Buffers = {"input", "output"}
  MinSize = 1
  MaxAuto = 2
  MaxRealign = 1
  MaxCopy = 1
  ReadVecs = 2
  WriteVecs = 2
  MaxBytes = 3
  MaxSize = 2
  MaxChains = 4
  Careful = {"prepend", "remove_buffer", "prepend_buffer"}
INVARIANTS
  ChainsFit
  LastWithData
  SameBytes
  LengthsAgree
