\* Two services, what their listeners hear and what a manager configures.
CONSTANTS
  a = a
  b = b
  l1 = l1
  l2 = l2
  p = p
  r = r
  c = c
  Numeral <- MCNumeral
  Hex <- MCHex
  Unclean <- MCUnclean
  Cut <- MCCut
  MaxText = 80
  Builtin <- MCBuiltin
  Services <- MCServices
  Configurables = {a}
  Vendor <- MCVendor
  Device <- MCDevice
  FirstName <- MCFirstName
  Items <- MCItems
  Listeners <- MCListeners
  First <- MCFirst
  Touched <- MCTouched
  Selects <- MCSelects
  Effects <- MCEffects
  Mails <- MCMails
  Junk <- MCJunk
  OwnAddress <- MCOwnAddress
  OwnPort <- MCOwnPort
SPECIFICATION Spec
INVARIANTS TypeOK EveryListenerHearsItOnce WhatIsHeardIsWhatWasSent
PROPERTIES OnlyOwnEchoConfirms SettingsSurviveRestart ManagerIsToldTheSettings
