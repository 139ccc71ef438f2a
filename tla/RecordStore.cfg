\* Requests in any order, with inputs, formulas, ids that do not exist, a key
\* that is too long, and conditions.
SPECIFICATION FairSpec
CONSTANTS
  Key = {k1, long}
  LongKey = {long}
  NumFields = 5
  Mod = 2
  Value <- MCValue
  Zero = 0
  Formula <- MCFormula
  Deps <- MCDeps
  Eval <- MCEval
  Where <- MCWhere
  Matches <- MCMatches
  Writable = {0, 1, 3}
  BadIds = {5, 6}
  MaxEntries = 1
  MaxWrites = 2
INVARIANTS
  RecordTypeOK
  NothingForgotten
  FormulasCurrent
PROPERTIES
  ImplementsStore
  SetEnds
CHECK_DEADLOCK FALSE
