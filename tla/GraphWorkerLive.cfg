SPECIFICATION FairSpec
CONSTANTS
  Requests = {r1, r2}
  Queries <- MCLiveQueries
  Names <- MCNames
  Loaded <- MCLoaded
  NeedsExt <- MCNeedsExt
  Urls <- MCUrls
  Size <- MCSize
  Faults = {"body", "create", "write", "fetch", "plugin", "alloc", "client"}
  None = None
  face = face
  ocr = ocr
  ghost = ghost
  cat = cat
  dog = dog
PROPERTY ArrivedIsClosed
