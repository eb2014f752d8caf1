------------------------------ MODULE BestMode ------------------------------
(***************************************************************************)
(* How MtkHdmiService picks what an output shows: the resolution, from     *)
(* those the sink's EDID lists, and the colour space and depth, from what  *)
(* the sink declares and the bandwidth it takes.  Resolutions keep the     *)
(* numbers of their macros, for the code compares those.  A sink is what   *)
(* setEDIDInfoMore is told of it:                                          *)
(*    modes        resolutions of the three bit masks                      *)
(*    colorimetry  colour spaces it takes: "rgb", "444", "422", "420", and *)
(*                 "420cap" for SINK_YCBCR_420_CAPABILITY                  *)
(*    bits         bits[space]: deep colour depths, out of {10, 12}        *)
(*    hdr          "DV" and "DV_2160P60" of support_dynamic_hdr            *)
(*    rate, clock  ui2_sink_max_tmds_character_rate, ui1_sink_max_tmds_clock*)
(* A mask is a sink's modes and colorimetry alone, as setEDIDInfo has it.  *)
(***************************************************************************)
EXTENDS Naturals, Sequences

AUTO_RESOLUTION == 100
RESOLUTION_720X480P_60HZ == 2
Rate4k60 == 594
Rate4k30 == 297

DeepColors  == {10, 12}
ColorDepths == {8} \cup DeepColors
DeepSpaces  == {"444", "rgb", "420"}
ColorSpaces == DeepSpaces \cup {"422"}
Sinks == [modes : SUBSET (0 .. 34), colorimetry : SUBSET (ColorSpaces \cup {"420cap"}),
          bits : [DeepSpaces -> SUBSET DeepColors], hdr : SUBSET {"DV", "DV_2160P60"},
          rate : Nat, clock : Nat]
Masks == [modes : SUBSET (0 .. 34), colorimetry : SUBSET (ColorSpaces \cup {"420cap"})]
Modes == [space : ColorSpaces, depth : ColorDepths]

PREFERED_RESOLUTIONS == <<30, 29, 27, 28, 26, 25, 24, 23, 22, 21, 13, 14,
                          8, 9, 10, 11, 6, 7, 4, 5, 2, 3>>
Prefered == {PREFERED_RESOLUTIONS[i] : i \in 1 .. 22}

Modes4k60 == {27, 28, 29, 30, 33, 34}
Modes4k30 == 21 .. 26

(* Any of the four words of the EDID is set.                               *)
Connected(mask) == mask.modes # {} \/ mask.colorimetry # {}

(* The first of the preferred resolutions the sink lists; what was asked   *)
(* for when it lists others only.                                          *)
getSuitableResolution(mask, resolution) ==
    IF mask.modes = {} THEN RESOLUTION_720X480P_60HZ
    ELSE IF mask.modes \cap Prefered = {} THEN resolution
    ELSE LET first == CHOOSE i \in 1 .. 22 :
                        /\ PREFERED_RESOLUTIONS[i] \in mask.modes
                        /\ \A j \in 1 .. 22 : j < i => PREFERED_RESOLUTIONS[j] \notin mask.modes
         IN  PREFERED_RESOLUTIONS[first]

(* "determine if 4k sink in which case we should choose YCbCr"             *)
Yuv4kSink(mask) ==
    /\ mask.modes \cap {27, 28} # {}
    /\ mask.colorimetry \cap {"420", "420cap", "444"} # {}

MaxRate(sink) == IF sink.rate # 0 THEN sink.rate ELSE sink.clock

(* The clock suffices for a depth at half the 4k60 rate.                   *)
HasRate(sink, depth) == MaxRate(sink) * 8 >= Rate4k30 * depth

(* Fault: 8 bits as the number of HDMI_NO_DEEP_COLOR.                      *)
Deepest_Enum(depths) == IF 12 \in depths THEN 12 ELSE IF 10 \in depths THEN 10 ELSE 0

Deepest(depths) == IF 12 \in depths THEN 12 ELSE IF 10 \in depths THEN 10 ELSE 8

(* The version of the Dolby Vision data block decides here, but nobody     *)
(* fills it in: it is 0.                                                   *)
isMax4k30DoviSink(sink) ==
    /\ "DV" \in sink.hdr
    /\ ~(MaxRate(sink) >= Rate4k60 /\ "DV_2160P60" \in sink.hdr)

(* Fault: the clock is not looked at.                                      *)
BestMode4k60_AnyClock(sink, asked) ==
    IF sink.colorimetry \cap {"420", "420cap"} # {}
    THEN [space |-> "420", depth |-> Deepest({d \in sink.bits["420"] : d <= asked})]
    ELSE [space |-> "422", depth |-> 8]

(* "force YUV 422/420 for 4k@50/60 modes"                                  *)
BestMode4k60(sink, asked) ==
    IF /\ "DV" \in sink.hdr /\ MaxRate(sink) >= Rate4k60
       /\ "DV_2160P60" \in sink.hdr \/ ~isMax4k30DoviSink(sink)
    THEN [space |-> "422", depth |-> 8]
    ELSE IF sink.colorimetry \cap {"420", "420cap"} # {}
    THEN [space |-> "420",
          depth |-> Deepest({d \in sink.bits["420"] : d <= asked /\ HasRate(sink, d)})]
    ELSE [space |-> "422", depth |-> 8]

(* What the switch over the depth finds at one depth, in its order.        *)
Offered(sink, depth) ==
    IF depth = 8 THEN sink.colorimetry \cap {"444", "rgb", "422"}
                 ELSE {space \in DeepSpaces : depth \in sink.bits[space]}

FirstSpace(spaces) ==
    IF "444" \in spaces THEN "444"
    ELSE IF "rgb" \in spaces \/ spaces = {} THEN "rgb"
    ELSE IF "420" \in spaces THEN "420" ELSE "422"

(* Cases fall through from 12 to 10 to 8 bits.                             *)
FallThrough(sink, asked) ==
    LET depth == Deepest({d \in DeepColors : d <= asked /\ Offered(sink, d) # {}})
    IN  [space |-> FirstSpace(Offered(sink, depth)), depth |-> depth]

(* "bandwidth check for remaining 4k modes"                                *)
Narrowed(sink, resolution, mode) ==
    IF MaxRate(sink) # 0 /\ resolution \in Modes4k30 /\ mode.space # "420"
    THEN [mode EXCEPT !.depth = Deepest({d \in DeepColors : d <= mode.depth /\ HasRate(sink, d)})]
    ELSE mode

(* "force RGB if user requested"                                           *)
Forced(space, mode) ==
    IF space = "rgb" /\ mode.space = "444" THEN [mode EXCEPT !.space = "rgb"] ELSE mode

findBestMode(mask, sink, resolution, space, asked) ==
    IF ~Connected(mask) THEN [space |-> "rgb", depth |-> 8]
    ELSE IF resolution \in Modes4k60 THEN BestMode4k60(sink, asked)
    ELSE LET found == IF "DV" \in sink.hdr THEN [space |-> "422", depth |-> 8]
                                           ELSE FallThrough(sink, asked)
         IN  Narrowed(sink, resolution, Forced(space, found))

-----------------------------------------------------------------------------
(* What a mode must be to be shown by a sink it is meant for: it is not    *)
(* deeper than asked, the deep colour is one the sink declares or deeper   *)
(* ones make up for (of YCbCr 4:4:4 where RGB is forced), and the clock    *)
(* suffices at 4k.                                                         *)
Fits(sink, resolution, asked, mode) ==
    /\ mode.depth <= asked
    /\ mode.depth > 8 =>
        /\ mode.space # "422"
        /\ LET declared == IF mode.space = "rgb"
                           THEN sink.bits["rgb"] \cup sink.bits["444"]
                           ELSE sink.bits[mode.space]
           IN  \E d \in declared : d >= mode.depth
        /\ resolution \in Modes4k60 => mode.space = "420" /\ HasRate(sink, mode.depth)
        /\ resolution \in Modes4k30 /\ MaxRate(sink) # 0 /\ mode.space # "420"
              => HasRate(sink, mode.depth)
=============================================================================
