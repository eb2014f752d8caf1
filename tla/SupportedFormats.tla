--------------------------- MODULE SupportedFormats ---------------------------
(***************************************************************************)
(* What an HDMI-RX camera offers: the limits read from the configuration   *)
(* file (HdmirxCameraConfig::loadFromCfg), the formats made of them        *)
(* (HdmirxCameraDevice::initSupportedFormatsLocked) and the numbers the    *)
(* characteristics are filled with.  A vector of formats made from a list  *)
(* of limits is the set of the limits' positions: a format has the size of *)
(* its limit, and two equal limits make two formats.  Ratios are compared  *)
(* by cross multiplication, and a rate is a number of frames per second.   *)
(***************************************************************************)
EXTENDS Integers, Sequences, FiniteSets

CONSTANT FileRows    \* rows a configuration file may list

ASSUME FormatsAssumption == FileRows \subseteq Seq([w : Nat, h : Nat, fps : Int])

(* The rates updateFpsBounds chooses from.                                 *)
FrameRates == {60, 30, 15, 10}
CroppingTypes == {"HORIZONTAL", "VERTICAL"}
MaxFps == 1000

(* HdmirxCameraConfig().                                                   *)
DefaultLimits == <<[w |-> 320,  h |-> 240,  fps |-> 60], [w |-> 640,  h |-> 480,  fps |-> 60],
                   [w |-> 1280, h |-> 720,  fps |-> 60], [w |-> 1920, h |-> 1080, fps |-> 30],
                   [w |-> 3840, h |-> 2160, fps |-> 30]>>

(* updateFpsList compares every row with {{0, 0}, 1000}, not with the row  *)
(* before: prevLimit is set anew in each round.                            *)
GoodRow(row) == row.w > 0 /\ row.h > 0 /\ row.fps < MaxFps

updateFpsList(rows) == IF \A k \in DOMAIN rows : GoodRow(rows[k]) THEN rows ELSE DefaultLimits

(* loadFromCfg: what comes first and is missing ends the reading.  A file  *)
(* is the elements it has, of those whose absence or fault stops the rest. *)
FileElements == {"HdmirxCamera", "Provider", "ignore", "Device", "FpsList"}
loadFromCfg(elements, rows) ==
    IF FileElements \subseteq elements THEN updateFpsList(rows) ELSE DefaultLimits

-----------------------------------------------------------------------------
(* 0.025 of aspect ratio.                                                  *)
isAspectRatioClose(a, b) ==
    /\ 40 * (a.w * b.h - b.w * a.h) < a.h * b.h
    /\ 40 * (b.w * a.h - a.w * b.h) < a.h * b.h

Wider(a, b) == a.w * b.h > b.w * a.h

(* The first limit that is large enough gives the bound, the rates not     *)
(* below it are the format's.                                              *)
LargeEnough(crop, limits, k) ==
    {j \in DOMAIN limits : IF crop = "VERTICAL" THEN limits[k].w <= limits[j].w
                                                ELSE limits[k].h <= limits[j].h}
FirstLargeEnough(crop, limits, k) ==
    CHOOSE j \in LargeEnough(crop, limits, k) : \A i \in LargeEnough(crop, limits, k) : j <= i

(* Fault: the rates up to the bound, and slow ones with them.              *)
updateFpsBounds_UpTo(crop, limits, k) ==
    {rate \in FrameRates \cup {1} : rate <= limits[FirstLargeEnough(crop, limits, k)].fps}

updateFpsBounds(crop, limits, k) ==
    LET bound == limits[FirstLargeEnough(crop, limits, k)].fps
    IN  IF bound < 0 THEN {} ELSE {rate \in FrameRates : bound <= rate}

WithRates(crop, limits) == {k \in DOMAIN limits : updateFpsBounds(crop, limits, k) # {}}

(* The order std::sort uses; the largest is the last.                      *)
NotAbove(crop, a, b) ==
    IF crop = "VERTICAL" THEN a.w < b.w \/ (a.w = b.w /\ a.h <= b.h)
                         ELSE a.h < b.h \/ (a.h = b.h /\ a.w <= b.w)
Largest(crop, limits, formats) ==
    CHOOSE k \in formats : \A j \in formats : NotAbove(crop, limits[j], limits[k])

(* Fault: the comparison for the other direction.                          *)
Croppable_Swapped(crop, format, max) ==
    \/ isAspectRatioClose(format, max)
    \/ crop = "HORIZONTAL" /\ Wider(format, max)
    \/ crop = "VERTICAL" /\ Wider(max, format)

Croppable(crop, format, max) ==
    \/ isAspectRatioClose(format, max)
    \/ crop = "HORIZONTAL" /\ Wider(max, format)
    \/ crop = "VERTICAL" /\ Wider(format, max)

trimSupportedFormats(crop, limits, formats) ==
    {k \in formats : Croppable(crop, limits[k], limits[Largest(crop, limits, formats)])}

Candidates(crop, limits) == trimSupportedFormats(crop, limits, WithRates(crop, limits))

NoSmaller(a, b) == a.w >= b.w /\ a.h >= b.h

(* initSupportedFormatsLocked: the larger of the two largest sizes, then   *)
(* the direction with more formats.                                        *)
PrefersHorizontal(limits) ==
    LET horizontal == Candidates("HORIZONTAL", limits)
        vertical   == Candidates("VERTICAL", limits)
        maxH       == limits[Largest("HORIZONTAL", limits, horizontal)]
        maxV       == limits[Largest("VERTICAL", limits, vertical)]
        more       == Cardinality(horizontal) > Cardinality(vertical)
    IN  IF maxH.w = maxV.w /\ maxH.h = maxV.h THEN more
        ELSE IF NoSmaller(maxH, maxV) THEN TRUE
        ELSE IF NoSmaller(maxV, maxH) THEN FALSE ELSE more

CroppingTypeOf(limits) ==
    IF Candidates("HORIZONTAL", limits) = {} THEN "VERTICAL"
    ELSE IF Candidates("VERTICAL", limits) = {} THEN "HORIZONTAL"
    ELSE IF PrefersHorizontal(limits) THEN "HORIZONTAL" ELSE "VERTICAL"

SupportedFormat(crop, limits, k) ==
    [w |-> limits[k].w, h |-> limits[k].h, rates |-> updateFpsBounds(crop, limits, k)]

initSupportedFormats(limits) ==
    LET crop == CroppingTypeOf(limits)
    IN  {SupportedFormat(crop, limits, k) : k \in Candidates(crop, limits)}

-----------------------------------------------------------------------------
(* What is derived from the formats.                                       *)
AllRates(formats) == UNION {format.rates : format \in formats}

MinFps(formats) == CHOOSE rate \in AllRates(formats) : \A other \in AllRates(formats) : rate <= other

(* calculateMinFps: a range for each rate, and the longest frame, for      *)
(* which 10^9 is divided by half the lowest rate.                          *)
TargetFpsRanges(formats) == {<<rate \div 2, rate>> : rate \in AllRates(formats)}
FrameDurationDivisor(formats) == MinFps(formats) \div 2

(* initDefaultRequests.                                                    *)
DefaultFramerate(formats) ==
    IF 30 \in AllRates(formats) THEN 30
    ELSE CHOOSE rate \in AllRates(formats) : \A other \in AllRates(formats) : other <= rate

DefaultFpsRange(formats) == <<DefaultFramerate(formats) \div 2, DefaultFramerate(formats)>>

Even(n) == n - (n % 2)

(* getCropRect: the part of "in" that is scaled to "out", refused (empty)  *)
(* when "in" is too small for it.                                          *)
NoRect == [left |-> 0, top |-> 0, width |-> 0, height |-> 0]
getCropRect(crop, in, out) ==
    LET scaledH == (out.h * in.w) \div out.w
        scaledW == (out.w * in.h) \div out.h
    IN  IF isAspectRatioClose(in, out)
        THEN [left |-> 0, top |-> 0, width |-> in.w, height |-> in.h]
        ELSE IF crop = "VERTICAL"
        THEN IF scaledH > in.h THEN NoRect
             ELSE [left |-> 0, top |-> Even((in.h - Even(scaledH)) \div 2),
                   width |-> in.w, height |-> Even(scaledH)]
        ELSE IF scaledW > in.w THEN NoRect
             ELSE [left |-> Even((in.w - Even(scaledW)) \div 2), top |-> 0,
                   width |-> Even(scaledW), height |-> in.h]

Inside(rect, in) ==
    /\ rect # NoRect
    /\ rect.left >= 0 /\ rect.top >= 0
    /\ rect.left + rect.width <= in.w /\ rect.top + rect.height <= in.h

(* initOutputCharsKeys: the active array is the last format, in the order  *)
(* they are sorted, that is no smaller than the one kept before it.        *)
LastOf(crop, formats) == CHOOSE a \in formats : \A b \in formats : NotAbove(crop, b, a)

ActiveArray(crop, formats) ==
    LET kept[some \in SUBSET formats] ==
            IF some = {} THEN [w |-> 0, h |-> 0, rates |-> {}]
            ELSE LET last   == LastOf(crop, some)
                     before == kept[some \ {last}]
                 IN  IF NoSmaller(last, before) THEN last ELSE before
    IN  kept[formats]

-----------------------------------------------------------------------------
(* A device that is made: the file is read, then the formats are made.     *)
VARIABLES
    fpsLimits,       \* mCfg.fpsLimits
    mCroppingType,
    mSupportedFormats

formatVars == <<fpsLimits, mCroppingType, mSupportedFormats>>

FormatsInit == fpsLimits = <<>> /\ mCroppingType = "HORIZONTAL" /\ mSupportedFormats = {}

LoadConfiguration ==
    /\ fpsLimits = <<>>
    /\ \E absent \in FileElements \cup {"nothing"}, rows \in FileRows :
          fpsLimits' = loadFromCfg(FileElements \ {absent}, rows)
    /\ UNCHANGED <<mCroppingType, mSupportedFormats>>

initSupportedFormatsLocked ==
    /\ fpsLimits # <<>> /\ mSupportedFormats = {}
    /\ mSupportedFormats' = initSupportedFormats(fpsLimits)
    /\ mCroppingType' = CroppingTypeOf(fpsLimits)
    /\ UNCHANGED fpsLimits

FormatsNext == LoadConfiguration \/ initSupportedFormatsLocked

FormatsTypeOK ==
    /\ fpsLimits \in Seq([w : Nat, h : Nat, fps : Int])
    /\ mCroppingType \in CroppingTypes
    /\ mSupportedFormats \subseteq [w : Nat, h : Nat, rates : SUBSET FrameRates]

(* HdmirxCameraDevice.cpp 697 to 803 and 930 to 967: whatever the file     *)
(* lists, a device that offers formats can be told in numbers: the longest *)
(* frame is no division by zero, the default range is one of the ranges    *)
(* offered, every size can be cut from the active array the way            *)
(* mCroppingType says, and none is larger than the array.  The last but    *)
(* for sizes of close ratios that cross: the array is one of the two.      *)
FormatsUsable ==
    mSupportedFormats # {} =>
       LET array == ActiveArray(mCroppingType, mSupportedFormats)
           crossing == \E a, b \in mSupportedFormats : isAspectRatioClose(a, b)
                                                       /\ ~NoSmaller(a, b) /\ ~NoSmaller(b, a)
       IN  /\ FrameDurationDivisor(mSupportedFormats) > 0
           /\ DefaultFpsRange(mSupportedFormats) \in TargetFpsRanges(mSupportedFormats)
           /\ \A format \in mSupportedFormats :
                 /\ Inside(getCropRect(mCroppingType, array, format), array)
                 /\ crossing \/ NoSmaller(array, format)
===============================================================================
