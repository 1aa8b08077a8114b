\* The edges of a byte and of the range of the driver, in 16 bits.
SPECIFICATION Spec
CONSTANTS
  Components = {0, 1, 2, 128, 254, 255}
  MaxBrightnesses = {1, 2, 254, 255, 256, 259}
  LightTypes = {backlight, keyboard}
  BACKLIGHT = backlight
  Word = 65536
INVARIANTS
  TypeOK
  AsBrightAsAsked
  GreyEnds
PROPERTIES
  NeverDarker
