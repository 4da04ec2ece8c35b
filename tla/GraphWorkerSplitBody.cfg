SPECIFICATION Spec
CONSTANTS
  Requests = {r1, r2}
  Queries <- MCPlainQueries
  Names <- MCNames
  Loaded <- MCLoaded
  NeedsExt <- MCNeedsExt
  Urls <- MCUrls
  Size <- MCSize
  Faults = {}
  None = None
  face = face
  ocr = ocr
  ghost = ghost
  cat = cat
  dog = dog
INVARIANT LinksAnswered
