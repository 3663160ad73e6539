CONSTANTS
  Texts <- MCTexts
  Traced <- MCTraced
  t1 = t1
  t2 = t2
  t3 = t3
  Thread <- MCThread
  NoLocalTask = NoLocalTask
SPECIFICATION TraceSpec
SYMMETRY MCSymmetry
INVARIANTS NoRace SameAsSerial ReportsBrokenOrder
