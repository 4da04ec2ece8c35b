SPECIFICATION Spec
CONSTANTS
  Requests = {r1, r2}
  Queries <- MCArglessQueries
  Names <- MCNames
  Loaded <- MCLoaded
  NeedsExt <- MCNeedsExt
  Urls <- MCUrls
  Size <- MCSize
  Faults = {}
  None = None
  face = face
  ocr = ocr
  ghost = ghost
  cat = cat
  dog = dog
INVARIANT SrcRequired
