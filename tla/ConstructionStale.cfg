SPECIFICATION Spec
CONSTANTS
  Purchase = {"bought"}
  Supply = {"shop"}
  Device = {"deck", "link"}
  Mod = {"add", "inc"}
  Rule <- MCRule
  DeviceRating <- MCRating
  Values <- MCValues
  ShopUnits <- MCShop
  Places <- MCPlaces
  Amounts <- MCAmounts
  Spreads <- MCSpreads
  MaxRecords <- MCMaxRecords
  Beside <- MCBeside
  Starting <- MCStarting
  Gone = Gone
PROPERTIES
  NothingBecomesOld
CHECK_DEADLOCK FALSE
