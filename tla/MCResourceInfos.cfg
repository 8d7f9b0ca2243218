\* holdings of three pages, over two versions of the ledger, with two failed requests
SPECIFICATION FairSpec
CONSTANTS
  Input <- MCInput
  Unsure <- MCUnsure
  BatchSize = 2
  Pages <- MCPages
  Emptied <- MCEmptied
  ValidatorOf <- MCValidatorOf
  MaxVersion = 2
  MaxFaults = 2
INVARIANTS
  TypeOK
  OneVersion
  AnswerWhole
PROPERTY PagesArrive
CHECK_DEADLOCK FALSE
