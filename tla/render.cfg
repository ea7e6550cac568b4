SPECIFICATION Spec
CONSTANTS
  Pages <- MCPages
  MaxListsDepth = 2
  IndentationLevel = 4
INVARIANTS LinesAreSound TextIsKept BlocksApart NumbersAreRight TablesAreAligned
