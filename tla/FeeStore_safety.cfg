SPECIFICATION FairSpec
CONSTANTS
  r1 = r1
  r2 = r2
  e1 = e1
  e2 = e2
  t1 = t1
  t2 = t2
  q1 = q1
  q2 = q2
  None = None
  NoTx = NoTx
  Run <- TwoRuns
  Execution <- TwoExecutions
  Tx <- TwoTxs
  MaxDeaths = 1
  Request = {q1, q2}
  Pays <- SomePay
  Legacy <- OneLegacy
INVARIANTS
  TypeOK
  SettlementBacked
  AnswersAgree
  AnswersDurable
  SettledWasPaid
PROPERTIES
  LedgerSpec
  ClaimCompletes
