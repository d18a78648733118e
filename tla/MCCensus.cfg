SPECIFICATION Spec
CONSTANTS
    Width = 4
    MaxMarks = 3
INVARIANT SeekFindsNearest
