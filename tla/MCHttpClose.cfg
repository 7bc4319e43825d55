SPECIFICATION Spec
CONSTANTS
  Uploads = {u1}
  Gets = {g1}
  Layouts <- DocumentedLayouts
  MaxSize = 2
  Old = Old
  Hole = Hole
  NoInode = NoInode
SYMMETRY Symmetry
INVARIANT NoHalfFile
