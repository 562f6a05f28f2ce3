\* Two agents that say different things of themselves, searches of every kind.
CONSTANTS
  a1 = a1
  a2 = a2
  gcc = gcc
  clang = clang
  NoName = NoName
  Agents = {a1, a2}
  Compilers <- MCCompilers
  Names = {gcc}
  Versions <- MCVersions
  Operators = {"==", "!=", "<", ">", "<=", ">=", "has", "has_not", "contains", "contains_not"}
  MaxMatchers = 2
  Texts <- MCTexts
CHECK_DEADLOCK FALSE
SPECIFICATION Spec
INVARIANTS OffersSupport OfferedOnce OffersRegistered OppositesDisagree
