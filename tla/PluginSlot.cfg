SPECIFICATION FairSpec
CONSTANTS
  Names <- MCNames
  Libs <- MCLibs
  Confs <- MCConfs
  Rank <- MCRank
  Texts <- MCTexts
  Absent <- MCAbsent
  Workers = {w1}
  MaxLoads = 3
  None = None
  face = face
  ocr = ocr
  liba = liba
  libb = libb
  libc = libc
  x = x
  y = y
INVARIANTS
  TypeOK
  SlotIsList
  HandlersMapped
  ModelAsConfigured
PROPERTY LoadEnds
