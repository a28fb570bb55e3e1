CONSTANTS
  Definitions <- MCDefinitions
  Symbols <- MCSymbols
  IntMax = 20
  Names <- MCNames
  Texts <- MCTexts
  Values <- MCValues
  None = None
SPECIFICATION Spec
INVARIANTS TypeOK PlainTextArrives HeaderIsTheServers SettingsUsable
PROPERTY ClientChecksSuffice
