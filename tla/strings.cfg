CONSTANTS
  Top = 6
  PageSize = 2
  Bytes <- MCBytes
  Routines <- MCRoutines
  Patterns <- MCPatterns
  Subjects <- MCSubjects
  FlagSets <- Flags
  Texts <- MCTexts
  Bases = {0, 2, 10, 16, 36, 37}
  Width = 4
  Commands <- MCCommands
  Others <- MCOthers
  None = None
SPECIFICATION LibcSpec
INVARIANTS
  CopiesAsC
  ComparesAsC
  SearchesAsC
  NumbersAsC
  TokensAsC
  MatchesAsPosix
  OptionsParsed
CHECK_DEADLOCK FALSE
