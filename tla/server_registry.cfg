SPECIFICATION Spec
CONSTANTS
  NUL = NUL
  NULL = NULL
  Favicon = Favicon
  AuthErrorMsg = AuthErrorMsg
  AppData = AppData
  Callback = Callback
  Chars <- MCChars
  ClientMethods <- MCMethods
  FaviconUrl <- MCFaviconUrl
  PageUrlSize = 3
  UrlBufferSize = 5
  AuthBuild = FALSE
  PageBuffers = 3
  Contents = {c1, c2}
  RegUrls <- MCRegUrls
  Tokens <- MCTokens
  AppCodes <- MCNoCodes
  AppTypes <- MCOneType
  MaxWire = 0
INVARIANTS
  TypeOK
  FirstRegistrationWins
  CallbackWasAsked

