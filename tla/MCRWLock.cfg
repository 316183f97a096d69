SPECIFICATION Spec
CONSTANT Thread = {t1, t2, t3, t4}
INVARIANTS
  TypeOK
  Exclusion
  CounterCountsHolders
  WaitingCountsExact
  NoLostWriterWakeup
  NoLostReaderWakeup
PROPERTIES
  ImplementsReadersWriters
  ReadersEnter
