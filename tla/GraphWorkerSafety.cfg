SPECIFICATION Spec
CONSTANTS
  Requests = {r1, r2}
  Queries <- MCQueries
  Names <- MCNames
  Loaded <- MCLoaded
  NeedsExt <- MCNeedsExt
  Urls <- MCUrls
  Size <- MCSize
  Faults = {"body", "create", "write", "fetch", "plugin", "alloc", "client"}
  None = None
  face = face
  ocr = ocr
  ghost = ghost
  cat = cat
  dog = dog
SYMMETRY MCRequestSymmetry
INVARIANTS
  TypeOK
  ReferencesCounted
  FinalizedOnce
  CurrentFileIsOwn
  PluginSeesItsImages
  ReplyIsOwn
PROPERTY ImplementsService
