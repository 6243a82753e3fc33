SPECIFICATION Spec
CONSTANTS
  Alphabet <- MCAlphabet
  Dotted = {"a.b"}
  NameRole <- MCNameRole
  Accounts <- MCAccounts
  Width = 2
  Attempts = 2
  Ceiling = 3
  MaxTokens = 3
  Answers <- MCAnswers
  DialErrors <- MCDialErrors
  Quoted = {"quoted"}
  SizeOf <- MCSizeOf
  DayOf <- MCDayOf
  UIDsOf <- MCUIDsOf
INVARIANTS
  PlanHonoured
  ReportTells
  SelectionHonoured
PROPERTIES
  MintsOnlyRefused
