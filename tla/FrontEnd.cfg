SPECIFICATION Spec
CONSTANTS
  Suites <- MCSuites
  MaxTests = 3
PROPERTIES
  ParsesAsWritten
  RejectsExactlyTheIllegal
  EmittedCodeIsValid
  RunsAsWritten
