------------------------------- MODULE Lights -------------------------------
(***************************************************************************)
(* The lights HAL (lights/Light.cpp): a colour comes in, its luminance is  *)
(* scaled to what the panel's driver takes, and written to its sysfs file. *)
(*                                                                         *)
(* uint32_t arithmetic is arithmetic modulo Word, 2^32 in the code.        *)
(***************************************************************************)
EXTENDS Integers, Sequences

CONSTANTS
  Components,       \* the values of a byte of a colour that are requested
  MaxBrightnesses,  \* what the driver's max_brightness may say
  LightTypes,       \* the ids setLightState may be called with
  BACKLIGHT,        \* the one that is there
  Word              \* the number of values of a uint32_t

(***************************************************************************)
(* The product in scaleBrightness must fit: with 32 bits, a maximum of up  *)
(* to sixteen million.                                                     *)
(***************************************************************************)
ASSUME LightsAssumption ==
  /\ Components \subseteq 0 .. 255
  /\ Word \in Nat /\ Word > 2 * 255
  /\ MaxBrightnesses \subseteq Nat
  /\ \A max \in MaxBrightnesses : 254 * (max - 1) < Word /\ 2 * max < Word
  /\ BACKLIGHT \in LightTypes

HwLightState == [alpha : Components, red : Components, green : Components, blue : Components]

VARIABLES
  maxBrightness,  \* what max_brightness says, 0 when it cannot be opened
  brightness,     \* the number in the driver's file brightness
  color           \* history: the state it was written for

vars == <<maxBrightness, brightness, color>>

Dark == [alpha |-> 0, red |-> 0, green |-> 0, blue |-> 0]

TypeOK ==
  /\ maxBrightness \in MaxBrightnesses \union {0}
  /\ brightness \in 0 .. (Word \div 254) + 1
  /\ color \in HwLightState \union {Dark}

\* getMaxBrightness: 0 for a file that is not there.  The panel starts dark.
Init ==
  /\ maxBrightness \in MaxBrightnesses \union {0}
  /\ brightness = 0
  /\ color = Dark

-----------------------------------------------------------------------------

\* Mutant: the product is kept in a byte.
ScaleByAlphaInByte(component, alpha) == ((component * alpha) % 256) \div 255

ScaleByAlpha(component, alpha) == (component * alpha) \div 255

\* getBrightness: the luminance of a colour, from 0 to 255.
GetBrightness(state) ==
  (77 * ScaleByAlpha(state.red, state.alpha) + 150 * ScaleByAlpha(state.green, state.alpha)
     + 29 * ScaleByAlpha(state.blue, state.alpha)) \div 256

\* Mutant: zero is not kept apart, and the product rounds down to it.
ScaleProportionally(luminance, max) == (luminance * max) \div 255

\* Mutant: one too many, so that the top is past the maximum.
ScaleFromZero(luminance, max) == (((luminance * ((max - 1) % Word)) % Word) \div 254) + 1

\* Mutant: the quotient is taken first, so that the product may be anything.
ScaleByQuotient(luminance, max) ==
  IF luminance = 0 THEN 0 ELSE ((luminance - 1) * (((max - 1) % Word) \div 254) + 1) % Word

(***************************************************************************)
(* scaleBrightness: 1 .. 255 onto 1 .. max, and 0 stays 0.  With max = 0   *)
(* the unsigned max - 1 wraps.                                             *)
(***************************************************************************)
ScaleBrightness(luminance, max) ==
  IF luminance = 0 THEN 0 ELSE ((((luminance - 1) * ((max - 1) % Word)) % Word) \div 254) + 1

\* The uint32_t goes through set(path, int) to the file.
AsInt(w) == IF w < Word \div 2 THEN w ELSE w - Word

\* set: the file is opened for every write, and nothing is written if that fails.
HandleBacklight(state) ==
  \/ /\ brightness' = AsInt(ScaleBrightness(GetBrightness(state), maxBrightness))
     /\ color' = state
  \/ UNCHANGED <<brightness, color>>

\* Any other light is refused.
SetLightState(id, state) ==
  /\ IF id = BACKLIGHT THEN HandleBacklight(state) ELSE UNCHANGED <<brightness, color>>
  /\ UNCHANGED maxBrightness

Next == \E id \in LightTypes, state \in HwLightState : SetLightState(id, state)

Spec == Init /\ [][Next]_vars

-----------------------------------------------------------------------------

\* The luminance of a colour, rounded down only once.
ExactLuminance(state) ==
  ((77 * state.red + 150 * state.green + 29 * state.blue) * state.alpha) \div (255 * 256)

(***************************************************************************)
(* With a maximum to go by, the panel is as bright as was asked for.  All  *)
(* the roundings of the code together lose less than two of 255 levels of  *)
(* luminance, whatever the driver's range makes of them, and add nothing.  *)
(* Colours of an exact luminance below 2, such as a red of 1, may switch   *)
(* the panel off with a 0, and no brighter ones do.                        *)
(***************************************************************************)
AsBrightAsAsked ==
  maxBrightness > 0 =>
    LET exact == ExactLuminance(color)
    IN IF brightness = 0
       THEN exact <= 1
       ELSE /\ brightness <= maxBrightness /\ exact >= 1
            /\ 254 * (brightness - 1) <= (exact - 1) * (maxBrightness - 1)
            /\ (exact - 2) * (maxBrightness - 1) < 254 * brightness

(***************************************************************************)
(* The framework asks for greys, as opaque colours: luminance keeps each of*)
(* the 255 levels apart, the lowest is the driver's lowest, and the highest*)
(* its highest.                                                            *)
(***************************************************************************)
GreyEnds ==
  maxBrightness > 0 /\ color.alpha = 255 /\ color.red = color.green /\ color.green = color.blue =>
    /\ GetBrightness(color) = color.red
    /\ color.red = 1 => brightness = 1
    /\ color.red = 255 => brightness = maxBrightness

NotDarker(old, new) ==
  old.alpha <= new.alpha /\ old.red <= new.red /\ old.green <= new.green /\ old.blue <= new.blue

(***************************************************************************)
(* No call makes the panel darker that asks for no less of any component,  *)
(* through all the roundings on the way.                                   *)
(***************************************************************************)
NeverDarker ==
  [][maxBrightness > 0 /\ NotDarker(color, color') => brightness <= brightness']_vars
=============================================================================
