SPECIFICATION Spec
CONSTANTS
  N = 3
INVARIANTS
  OrderIsTopological
  AnswerIsRight
  OperatorsAgree
