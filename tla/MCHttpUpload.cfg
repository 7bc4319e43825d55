SPECIFICATION Spec
CONSTANTS
  Uploads = {u1, u2}
  Gets = {g1}
  Layouts <- MCLayouts
  MaxSize = 2
  Old = Old
  Hole = Hole
  NoInode = NoInode
SYMMETRY Symmetry
INVARIANTS TypeOK DestIsWhole NothingLeftBehind GetIsOneVersion
PROPERTY OkIsPublished
