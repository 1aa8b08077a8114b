---------------------------- MODULE LightsProofs ----------------------------
(***************************************************************************)
(* Proofs about Lights, for every colour, every maximum whose product with *)
(* 254 fits into a word, and every word of more than nine bits.            *)
(***************************************************************************)
EXTENDS Lights, TLAPS

-----------------------------------------------------------------------------
(***************************************************************************)
(* The arithmetic: products and quotients keep the order, and a luminance  *)
(* is at most 255.                                                         *)
(***************************************************************************)

LEMMA TimesMonotone ==
  ASSUME NEW x \in Nat, NEW y \in Nat, NEW z \in Nat, NEW w \in Nat, x <= y, z <= w
  PROVE  x * z \in Nat /\ y * w \in Nat /\ x * z <= y * w
<1>1. x * z \in Nat /\ y * z \in Nat /\ y * w \in Nat
  OBVIOUS
<1>2. x * z <= y * z
  <2>1. (y - x) * z >= 0
    OBVIOUS
  <2>2. (y - x) * z = y * z - x * z
    OBVIOUS
  <2> QED
    BY <1>1, <2>1, <2>2
<1>3. y * z <= y * w
  <2>1. y * (w - z) >= 0
    OBVIOUS
  <2>2. y * (w - z) = y * w - y * z
    OBVIOUS
  <2> QED
    BY <1>1, <2>1, <2>2
<1> QED
  BY <1>1, <1>2, <1>3

LEMMA ScaleByAlphaRange ==
  ASSUME NEW c \in 0 .. 255, NEW a \in 0 .. 255
  PROVE  ScaleByAlpha(c, a) \in 0 .. 255
<1>1. c * a \in Nat /\ c * a <= 255 * 255
  BY TimesMonotone
<1> QED
  BY <1>1 DEF ScaleByAlpha

LEMMA ScaleByAlphaMonotone ==
  ASSUME NEW c \in 0 .. 255, NEW a \in 0 .. 255, NEW d \in 0 .. 255, NEW b \in 0 .. 255,
         c <= d, a <= b
  PROVE  ScaleByAlpha(c, a) <= ScaleByAlpha(d, b)
<1>1. c * a \in Nat /\ d * b \in Nat /\ c * a <= d * b
  <2>1. c \in Nat /\ a \in Nat /\ d \in Nat /\ b \in Nat
    OBVIOUS
  <2> QED
    BY <2>1, TimesMonotone
<1> QED
  BY <1>1 DEF ScaleByAlpha

Bytes == [alpha : 0 .. 255, red : 0 .. 255, green : 0 .. 255, blue : 0 .. 255]

LEMMA LuminanceMonotone ==
  ASSUME NEW s \in Bytes, NEW t \in Bytes, NotDarker(s, t)
  PROVE  GetBrightness(s) \in 0 .. 255 /\ GetBrightness(s) <= GetBrightness(t)
<1> DEFINE r == ScaleByAlpha(s.red, s.alpha)
           g == ScaleByAlpha(s.green, s.alpha)
           b == ScaleByAlpha(s.blue, s.alpha)
           u == ScaleByAlpha(t.red, t.alpha)
           v == ScaleByAlpha(t.green, t.alpha)
           w == ScaleByAlpha(t.blue, t.alpha)
<1>1. /\ r \in 0 .. 255 /\ g \in 0 .. 255 /\ b \in 0 .. 255
      /\ u \in 0 .. 255 /\ v \in 0 .. 255 /\ w \in 0 .. 255
  <2>1. /\ s.red \in 0 .. 255 /\ s.green \in 0 .. 255 /\ s.blue \in 0 .. 255 /\ s.alpha \in 0 .. 255
        /\ t.red \in 0 .. 255 /\ t.green \in 0 .. 255 /\ t.blue \in 0 .. 255 /\ t.alpha \in 0 .. 255
    BY DEF Bytes
  <2> QED
    BY <2>1, ScaleByAlphaRange, Zenon
<1>2. r <= u /\ g <= v /\ b <= w
  <2>1. /\ s.red \in 0 .. 255 /\ s.green \in 0 .. 255 /\ s.blue \in 0 .. 255 /\ s.alpha \in 0 .. 255
        /\ t.red \in 0 .. 255 /\ t.green \in 0 .. 255 /\ t.blue \in 0 .. 255 /\ t.alpha \in 0 .. 255
    BY DEF Bytes
  <2>2. s.alpha <= t.alpha /\ s.red <= t.red /\ s.green <= t.green /\ s.blue <= t.blue
    BY DEF NotDarker
  <2>3. r <= u
    BY <2>1, <2>2, ScaleByAlphaMonotone, Zenon
  <2>4. g <= v
    BY <2>1, <2>2, ScaleByAlphaMonotone, Zenon
  <2>5. b <= w
    BY <2>1, <2>2, ScaleByAlphaMonotone, Zenon
  <2> QED
    BY <2>3, <2>4, <2>5
<1>3. /\ GetBrightness(s) = (77 * r + 150 * g + 29 * b) \div 256
      /\ GetBrightness(t) = (77 * u + 150 * v + 29 * w) \div 256
  BY DEF GetBrightness
<1> HIDE DEF r, g, b, u, v, w
<1>4. /\ (77 * r + 150 * g + 29 * b) \div 256 \in 0 .. 255
      /\ (77 * r + 150 * g + 29 * b) \div 256 <= (77 * u + 150 * v + 29 * w) \div 256
  BY <1>1, <1>2
<1> QED
  BY <1>3, <1>4

LEMMA LuminanceRange == ASSUME NEW s \in Bytes PROVE GetBrightness(s) \in 0 .. 255
<1>1. NotDarker(s, s)
  BY DEF NotDarker, Bytes
<1> QED
  BY <1>1, LuminanceMonotone

\* An opaque grey's luminance is its level.
LEMMA LuminanceOfGrey ==
  ASSUME NEW s \in Bytes, s.alpha = 255, s.red = s.green, s.green = s.blue
  PROVE  GetBrightness(s) = s.red
<1>1. ScaleByAlpha(s.red, 255) = s.red
  BY DEF ScaleByAlpha, Bytes
<1> QED
  BY <1>1 DEF GetBrightness, Bytes

\* Rounding every component and then the sum loses less than two levels.
LEMMA LuminanceNearExact ==
  ASSUME NEW s \in Bytes
  PROVE  /\ ExactLuminance(s) \in Nat
         /\ GetBrightness(s) <= ExactLuminance(s)
         /\ ExactLuminance(s) <= GetBrightness(s) + 1
<1> DEFINE p == s.red * s.alpha
           q == s.green * s.alpha
           t == s.blue * s.alpha
<1>1. s.red \in Nat /\ s.green \in Nat /\ s.blue \in Nat /\ s.alpha \in Nat
  BY DEF Bytes
<1>2. p \in Nat /\ q \in Nat /\ t \in Nat
  BY <1>1
<1>3. (77 * s.red + 150 * s.green + 29 * s.blue) * s.alpha = 77 * p + 150 * q + 29 * t
  BY <1>1
<1>4. ExactLuminance(s) = (77 * p + 150 * q + 29 * t) \div 65280
  BY <1>3 DEF ExactLuminance
<1>5. GetBrightness(s) = (77 * (p \div 255) + 150 * (q \div 255) + 29 * (t \div 255)) \div 256
  BY DEF GetBrightness, ScaleByAlpha
<1> HIDE DEF p, q, t
<1> DEFINE u == p \div 255
           v == q \div 255
           w == t \div 255
<1>6. /\ u \in Nat /\ 255 * u <= p /\ p <= 255 * u + 254
      /\ v \in Nat /\ 255 * v <= q /\ q <= 255 * v + 254
      /\ w \in Nat /\ 255 * w <= t /\ t <= 255 * w + 254
  BY <1>2
<1> HIDE DEF u, v, w
<1> DEFINE rounded == 77 * u + 150 * v + 29 * w
           whole == 77 * p + 150 * q + 29 * t
<1>7. rounded \in Nat /\ whole \in Nat /\ 255 * rounded <= whole /\ whole <= 255 * rounded + 65024
  BY <1>2, <1>6
<1> HIDE DEF rounded, whole
<1>8. /\ whole \div 65280 \in Nat
      /\ rounded \div 256 <= whole \div 65280 /\ whole \div 65280 <= (rounded \div 256) + 1
  BY <1>7
<1> QED
  BY <1>4, <1>5, <1>8 DEF rounded, whole, u, v, w

\* With a maximum, nothing wraps.
LEMMA ScaleWithin ==
  ASSUME NEW l \in 1 .. 255, NEW max \in MaxBrightnesses, max > 0
  PROVE  /\ (l - 1) * (max - 1) \in Nat
         /\ (l - 1) * (max - 1) <= 254 * (max - 1)
         /\ ScaleBrightness(l, max) = (((l - 1) * (max - 1)) \div 254) + 1
<1>1. max \in Nat /\ max - 1 \in Nat /\ 254 * (max - 1) < Word /\ Word \in Nat /\ max - 1 < Word
  BY LightsAssumption
<1>2. (l - 1) * (max - 1) \in Nat /\ (l - 1) * (max - 1) <= 254 * (max - 1)
  <2>1. l - 1 \in Nat /\ l - 1 <= 254
    OBVIOUS
  <2> QED
    BY <1>1, <2>1, TimesMonotone
<1> DEFINE p == (l - 1) * (max - 1)
<1>3. p \in Nat /\ p < Word
  BY <1>1, <1>2
<1>4. (max - 1) % Word = max - 1
  BY <1>1, Z3
<1> HIDE DEF p
<1>5. p % Word = p
  BY <1>1, <1>3, Z3
<1> QED
  BY <1>2, <1>4, <1>5 DEF ScaleBrightness, p

LEMMA ScaleRange ==
  ASSUME NEW l \in 0 .. 255, NEW max \in MaxBrightnesses, max > 0
  PROVE  /\ ScaleBrightness(l, max) \in 0 .. max
         /\ ScaleBrightness(l, max) = 0 <=> l = 0
         /\ AsInt(ScaleBrightness(l, max)) = ScaleBrightness(l, max)
<1>0. max \in Nat /\ Word \in Nat /\ 2 * max < Word
  BY LightsAssumption
<1>1. CASE l = 0
  BY <1>0, <1>1, LightsAssumption DEF ScaleBrightness, AsInt
<1>2. CASE l # 0
  <2> DEFINE p == (l - 1) * (max - 1)
  <2>1. p \in Nat /\ p <= 254 * (max - 1) /\ ScaleBrightness(l, max) = (p \div 254) + 1
    BY <1>2, ScaleWithin
  <2> HIDE DEF p
  <2>2. p \div 254 \in 0 .. max - 1
    BY <1>0, <2>1
  <2>3. ScaleBrightness(l, max) \in 1 .. max
    BY <1>0, <2>1, <2>2
  <2>4. max <= Word \div 2
    BY LightsAssumption
  <2>5. AsInt(ScaleBrightness(l, max)) = ScaleBrightness(l, max)
    BY <1>0, <2>3, LightsAssumption DEF AsInt
  <2> QED
    BY <1>0, <1>2, <2>3, <2>5
<1> QED
  BY <1>1, <1>2

LEMMA ScaleMonotone ==
  ASSUME NEW l \in 0 .. 255, NEW m \in 0 .. 255, l <= m, NEW max \in MaxBrightnesses, max > 0
  PROVE  ScaleBrightness(l, max) <= ScaleBrightness(m, max)
<1>1. CASE l = 0
  BY <1>1, ScaleRange, LightsAssumption DEF ScaleBrightness
<1>2. CASE l # 0
  <2> DEFINE p == (l - 1) * (max - 1)
             q == (m - 1) * (max - 1)
  <2>1. /\ p \in Nat /\ ScaleBrightness(l, max) = (p \div 254) + 1
        /\ q \in Nat /\ ScaleBrightness(m, max) = (q \div 254) + 1
    BY <1>2, ScaleWithin
  <2>2. p <= q
    <3>1. l - 1 \in Nat /\ m - 1 \in Nat /\ max - 1 \in Nat /\ l - 1 <= m - 1
      BY <1>2, LightsAssumption
    <3> QED
      BY <3>1, TimesMonotone, SMTT(30)
  <2> HIDE DEF p, q
  <2> QED
    BY <2>1, <2>2
<1> QED
  BY <1>1, <1>2

\* Without a maximum the product wraps, and its quotient is still far below a word.
LEMMA ScaleTyped ==
  ASSUME NEW l \in 0 .. 255, NEW max \in MaxBrightnesses \union {0}
  PROVE  AsInt(ScaleBrightness(l, max)) \in 0 .. (Word \div 254) + 1
<1>0. Word \in Nat /\ Word > 510 /\ max \in Nat
  BY LightsAssumption
<1>1. CASE l = 0
  BY <1>0, <1>1 DEF ScaleBrightness, AsInt
<1>2. CASE l # 0
  <2> DEFINE r == ((l - 1) * ((max - 1) % Word)) % Word
  <2>1. (max - 1) % Word \in Nat
    BY <1>0
  <2>2. (l - 1) * ((max - 1) % Word) \in Nat
    <3>1. l - 1 \in Nat
      BY <1>2
    <3> QED
      BY <2>1, <3>1
  <2>3. r \in 0 .. Word - 1
    BY <1>0, <2>2
  <2>4. ScaleBrightness(l, max) = (r \div 254) + 1
    BY <1>2 DEF ScaleBrightness
  <2> HIDE DEF r
  <2>5. ScaleBrightness(l, max) \in 1 .. (Word \div 254) + 1
    BY <1>0, <2>3, <2>4
  <2>6. (Word \div 254) + 1 < Word \div 2
    BY <1>0
  <2> QED
    BY <1>0, <2>5, <2>6 DEF AsInt
<1> QED
  BY <1>1, <1>2

-----------------------------------------------------------------------------
(***************************************************************************)
(* The inductive invariant: the file holds what the last colour scales to. *)
(***************************************************************************)

LightsInv ==
  /\ maxBrightness \in MaxBrightnesses \union {0}
  /\ color \in Bytes
  /\ color \in HwLightState \union {Dark}
  /\ brightness = AsInt(ScaleBrightness(GetBrightness(color), maxBrightness))

LEMMA StatesAreBytes == HwLightState \subseteq Bytes /\ Dark \in Bytes
<1>1. Components \subseteq 0 .. 255
  BY LightsAssumption
<1>2. ASSUME NEW s \in HwLightState PROVE s \in Bytes
  BY <1>1, <1>2 DEF HwLightState, Bytes
<1> QED
  BY <1>2 DEF Bytes, Dark

LEMMA LightsInit == Init => LightsInv
<1> SUFFICES ASSUME Init PROVE LightsInv
  OBVIOUS
<1>1. GetBrightness(Dark) = 0
  BY DEF GetBrightness, Dark, ScaleByAlpha
<1>2. brightness = AsInt(ScaleBrightness(GetBrightness(color), maxBrightness))
  BY <1>1, LightsAssumption DEF Init, ScaleBrightness, AsInt
<1> QED
  BY <1>2, StatesAreBytes DEF Init, LightsInv

LEMMA LightsNext == LightsInv /\ [Next]_vars => LightsInv'
<1> SUFFICES ASSUME LightsInv, [Next]_vars PROVE LightsInv'
  OBVIOUS
<1> USE DEF LightsInv
<1>1. ASSUME NEW id \in LightTypes, NEW state \in HwLightState, SetLightState(id, state)
      PROVE  LightsInv'
  BY <1>1, StatesAreBytes DEF SetLightState, HandleBacklight
<1>2. CASE UNCHANGED vars
  BY <1>2 DEF vars
<1> QED
  BY <1>1, <1>2 DEF Next

LEMMA LightsInvariant == Spec => []LightsInv
  BY LightsInit, LightsNext, PTL DEF Spec

(***************************************************************************)
(* What is written is never negative, not even when the scale wraps for    *)
(* want of a maximum.                                                      *)
(***************************************************************************)
THEOREM LightsTypeCorrect == Spec => []TypeOK
<1>1. LightsInv => TypeOK
  BY LuminanceRange, ScaleTyped DEF LightsInv, TypeOK
<1> QED
  BY <1>1, LightsInvariant, PTL

(***************************************************************************)
(* For every maximum the product fits for, and every colour, all roundings *)
(* together lose less than two levels of luminance and add nothing.        *)
(***************************************************************************)
THEOREM PanelIsAsBrightAsAsked == Spec => []AsBrightAsAsked
<1>1. LightsInv => AsBrightAsAsked
  <2> SUFFICES ASSUME LightsInv, maxBrightness > 0
               PROVE  AsBrightAsAsked
    BY DEF AsBrightAsAsked
  <2> DEFINE max == maxBrightness
             l == GetBrightness(color)
             exact == ExactLuminance(color)
  <2>1. max \in MaxBrightnesses /\ max > 0 /\ max \in Nat
    BY LightsAssumption DEF LightsInv
  <2>2. l \in 0 .. 255 /\ exact \in Nat /\ l <= exact /\ exact <= l + 1
    BY LuminanceRange, LuminanceNearExact DEF LightsInv
  <2>3. brightness = ScaleBrightness(l, max)
    BY <2>1, <2>2, ScaleRange DEF LightsInv
  <2> HIDE DEF max, l, exact
  <2>4. CASE l = 0
    <3>1. brightness = 0
      BY <2>3, <2>4 DEF ScaleBrightness
    <3> QED
      BY <2>2, <2>4, <3>1 DEF AsBrightAsAsked, exact
  <2>5. CASE l # 0
    <3> DEFINE p == (l - 1) * (max - 1)
    <3>1. p \in Nat /\ brightness = (p \div 254) + 1
      <4>1. l \in 1 .. 255
        BY <2>2, <2>5
      <4>2. p \in Nat /\ ScaleBrightness(l, max) = (p \div 254) + 1
        BY <2>1, <4>1, ScaleWithin, ZenonT(30)
      <4> QED
        BY <2>3, <4>2, Zenon
    <3>2. p <= (exact - 1) * (max - 1)
      <4>1. /\ l - 1 \in Nat /\ exact - 1 \in Nat /\ l - 1 <= exact - 1
            /\ max - 1 \in Nat /\ max - 1 <= max - 1
        BY <2>1, <2>2, <2>5
      <4> QED
        BY <4>1, TimesMonotone, SMTT(30)
    <3>3. (exact - 2) * (max - 1) <= p
      <4>1. CASE exact = 1
        BY <2>1, <3>1, <4>1
      <4>2. CASE exact # 1
        <5>1. /\ exact - 2 \in Nat /\ l - 1 \in Nat /\ exact - 2 <= l - 1
              /\ max - 1 \in Nat /\ max - 1 <= max - 1
          BY <2>1, <2>2, <2>5, <4>2
        <5> QED
          BY <5>1, TimesMonotone, SMTT(30)
      <4> QED
        BY <4>1, <4>2
    <3>4. (exact - 1) * (max - 1) \in Int /\ (exact - 2) * (max - 1) \in Int
      BY <2>1, <2>2
    <3> HIDE DEF p
    <3>5. /\ brightness \in Nat /\ brightness > 0 /\ exact >= 1
          /\ 254 * (brightness - 1) <= p /\ p < 254 * brightness
      <4>1. p \in Nat
        BY <3>1
      <4>2. /\ p \div 254 \in Nat
            /\ 254 * (p \div 254) <= p /\ p < 254 * (p \div 254) + 254
        BY <4>1
      <4> HIDE DEF exact
      <4>3. brightness = (p \div 254) + 1
        BY <3>1
      <4> DEFINE k == p \div 254
      <4> HIDE DEF k
      <4>4. /\ brightness \in Nat /\ brightness > 0
            /\ 254 * (brightness - 1) <= p /\ p < 254 * brightness
        BY <4>1, <4>2, <4>3 DEF k
      <4> QED
        BY <2>2, <2>5, <4>4
    <3>6. brightness <= max
      <4>1. ScaleBrightness(l, max) \in 0 .. max
        BY <2>1, <2>2, ScaleRange, Zenon
      <4> QED
        BY <2>1, <2>3, <4>1
    <3>7. /\ 254 * (brightness - 1) <= (exact - 1) * (max - 1)
          /\ (exact - 2) * (max - 1) < 254 * brightness
      BY <3>1, <3>2, <3>3, <3>4, <3>5
    <3> QED
      BY <3>5, <3>6, <3>7 DEF AsBrightAsAsked, exact, max
  <2> QED
    BY <2>2, <2>4, <2>5
<1> QED
  BY <1>1, LightsInvariant, PTL

\* Opaque greys reach both ends of the driver's range, and keep their levels apart.
THEOREM GreysReachTheEnds == Spec => []GreyEnds
<1>1. LightsInv => GreyEnds
  <2> SUFFICES ASSUME LightsInv, maxBrightness > 0, color.alpha = 255,
                      color.red = color.green, color.green = color.blue
               PROVE  /\ GetBrightness(color) = color.red
                      /\ color.red = 1 => brightness = 1
                      /\ color.red = 255 => brightness = maxBrightness
    BY DEF GreyEnds
  <2> DEFINE max == maxBrightness
  <2>1. /\ max \in MaxBrightnesses /\ GetBrightness(color) = color.red
        /\ brightness = AsInt(ScaleBrightness(GetBrightness(color), max))
    BY LuminanceOfGrey DEF LightsInv
  <2>2. max \in Nat
    BY <2>1, LightsAssumption
  <2> HIDE DEF max
  <2>3. ASSUME color.red = 1 PROVE brightness = 1
    <3>1. ScaleBrightness(1, max) = ((0 * (max - 1)) \div 254) + 1
      BY <2>1, ScaleWithin DEF max
    <3>2. ScaleBrightness(1, max) = 1
      BY <2>2, <3>1
    <3> QED
      BY <2>1, <2>3, <3>2, ScaleRange DEF max
  <2>4. ASSUME color.red = 255 PROVE brightness = max
    <3>1. ScaleBrightness(255, max) = ((254 * (max - 1)) \div 254) + 1
      BY <2>1, ScaleWithin DEF max
    <3>2. ScaleBrightness(255, max) = max
      BY <2>2, <3>1
    <3> QED
      BY <2>1, <2>4, <3>2, ScaleRange DEF max
  <2> QED
    BY <2>1, <2>3, <2>4 DEF max
<1> QED
  BY <1>1, LightsInvariant, PTL

\* No request for more of every component darkens the panel.
THEOREM BrighterIsNotDarker == Spec => NeverDarker
<1>1. LightsInv /\ LightsInv' /\ [Next]_vars
        => [maxBrightness > 0 /\ NotDarker(color, color') => brightness <= brightness']_vars
  <2> SUFFICES ASSUME LightsInv, LightsInv', Next, maxBrightness > 0, NotDarker(color, color')
               PROVE  brightness <= brightness'
    OBVIOUS
  <2>1. maxBrightness' = maxBrightness /\ maxBrightness \in MaxBrightnesses
    BY DEF Next, SetLightState, LightsInv
  <2>2. /\ GetBrightness(color) \in 0 .. 255 /\ GetBrightness(color') \in 0 .. 255
        /\ GetBrightness(color) <= GetBrightness(color')
    BY LuminanceRange, LuminanceMonotone DEF LightsInv
  <2>3. /\ brightness = ScaleBrightness(GetBrightness(color), maxBrightness)
        /\ brightness' = ScaleBrightness(GetBrightness(color'), maxBrightness)
    BY <2>1, <2>2, ScaleRange DEF LightsInv
  <2> QED
    BY <2>1, <2>2, <2>3, ScaleMonotone
<1> QED
  BY <1>1, LightsInvariant, PTL DEF Spec, NeverDarker
=============================================================================
