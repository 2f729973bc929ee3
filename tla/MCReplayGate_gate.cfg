\* A suite of four cases and two ill-formed ones; the tail share scaled from 20 to 3.
SPECIFICATION GateSpec
CONSTANTS
  Absent = Absent
  Suites <- MCSuites
  Answers <- MCAnswers
  Timings <- MCTimings
  Metadata <- MCMetadata
  Budget = 3
  MaxWord = 1
  TailShare = 3
  Threshold <- MCThreshold
INVARIANTS ReportsExact GateSound
CHECK_DEADLOCK FALSE
