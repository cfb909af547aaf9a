SPECIFICATION Spec
CONSTANTS
  Value <- MCValue
  MaxInt = 1
  MaxDepth = 2
  Names = {"a", "b", "c", "d", "n", "e", "deep", "loop", "say", "cc", "ifelse", "calc"}
  ExprCommands = {"calc"}
  Targets = {"v", "w"}
  Dynamic = {"{_}", "{_2}"}
  Substs <- MCSubsts
  RawCommands <- MCRawCommands
  Handlers = {"a", "b", "d", "n", "say", "calc"}
  Bodies <- MCBodies
  Denied = {"d"}
  ReadOnly = {"w"}
  NoInput = {"n"}
  Refs <- MCRefs
  MaxInvocations = 5
  MaxBodies = 2
  MaxSubsts = 1
  Tokens = {"a", "c", "d", "n", "e", "deep", "loop", "say", "cc", "ifelse", "calc", "{_}", "{_2}", "{!b}", "|", "&&", "||", "(", ")", "->", "v", "w", ";"}
  ExprTokens = {"0", "1", "m", "xs", "+", "-", "<", "and", "not", "in", "??", "(e", "e)", "[", "]", ":len", "//"}
  Common = {"a", "v", "ifelse", "|", "(", ")"}
  MaxLine = 8
  MaxExpr = 5
  Answers = {"ok", "no", "fail", "cold"}
INVARIANTS   PreflightCovers
CHECK_DEADLOCK FALSE
