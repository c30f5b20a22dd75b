SPECIFICATION Spec
CONSTANTS
  Empty = Empty
  NotText = {"bad"}
  Names = {"n"}
  Hashes = {"h"}
  Numbers <- MCNumbers
  MaxStream = 2
  Window = 1
INVARIANTS
  TypeOK
  ReadAsWritten
  RequestSurvives
  OnlyBadNamesFail
  SizeIsLength
