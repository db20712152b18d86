SPECIFICATION GenSpec
CONSTANTS
  Base64 <- MCBase64
  Percent <- MCPercent
  Digits <- MCDigits
  JSON <- MCJSON
  Json <- MCJson
  Lower <- MCLower
  Dashed <- MCDashed
  CIPHERS <- MCCiphers
  WRITTEN <- MCNodes
  TEXTS <- MCTexts
  SETTINGS <- MCSettings
  LOG_LEVEL <- MCLogLevel
INVARIANTS ListsConvert ReadBackAgrees ProfileIsKept NodesAreRouted
