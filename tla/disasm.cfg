SPECIFICATION Spec
CONSTANTS
  Symbol <- MCSymbol
  MaxLines = 3
  Half = 4
  Sign = 2
  Reg = {"r3", "r4"}
  Imm = {1, 2}
  Value = {15}
  MaxInsns = 3
  MaxAnnotated = 1
INVARIANTS NamesNearest FindsDisjoint PairIsTheValue
PROPERTIES EaIsTheCpus CommentIsRight
