CONSTANTS
  Crates <- MCCrates
  Before <- MCBefore
  FileOf <- MCFileOf
  CodableFile = "Codable.swift"
  Texts <- MCTexts
  Helpers <- MCHelpers
  Sources <- MCSources
  MaxRuns = 3
  Absent = Absent
  Torn = Torn
  CodableString = CodableString
  CodableLine = CodableLine
SPECIFICATION Spec
CHECK_DEADLOCK FALSE
INVARIANT CodableKept
