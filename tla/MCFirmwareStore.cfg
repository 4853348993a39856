\* Three imports of two images, one after the other, and a service that loads.
SPECIFICATION FairSpec
CONSTANTS
  Images = {old, new}
  Importers = {a}
  ImportLimit = 3
  None = none
INVARIANTS
  FirmwareIsKept
PROPERTIES
  ImportIsSeen
