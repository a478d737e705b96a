SPECIFICATION Spec
CONSTANTS
  NUL = NUL
  NULL = NULL
  Favicon = Favicon
  AuthErrorMsg = AuthErrorMsg
  AppData = AppData
  Callback = Callback
  Chars <- MCChars
  ClientMethods <- MCMethods
  FaviconUrl <- MCFaviconUrl
  PageUrlSize = 3
  UrlBufferSize = 5
  AuthBuild = TRUE
  PageBuffers = 2
  Contents = {c1}
  RegUrls <- MCFewUrls
  Tokens <- MCFewTokens
  AppCodes <- MCCodes
  AppTypes <- MCOneType
  MaxWire = 3
INVARIANTS
  AuthBeforeService
  CodeSent
PROPERTY OneReply

