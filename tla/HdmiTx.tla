------------------------------- MODULE HdmiTx -------------------------------
(***************************************************************************)
(* MtkHdmiService, as MTK_DRM_HDMI_SUPPORT builds it: what the HDMI and    *)
(* the DisplayPort connector show.  The display framework tells it of the  *)
(* sinks (setEDIDInfo, setEDIDInfoMore) and of what the user chose, and is *)
(* told through mCallback what to show.  The choices are properties that   *)
(* outlive the process; the rest is in global variables.  The service has  *)
(* one RPC thread: a call is one step.                                     *)
(***************************************************************************)
EXTENDS BestMode

CONSTANTS
    None,
    EdidSinks,       \* sinks that may be connected; one of them is no sink at all
    Resolutions,     \* what set_video_resolution is called with
    SetSpaces,       \* out of "auto", "rgb" and "ycbcr"
    SetDepths,       \* out of 8, 10 and 12
    SetSwitches,     \* out of "hdr" and "dv"
    DriverDV,        \* HDMI_DV_HDR_DRIVER_SUPPORT_PROPERTY is 1
    MaxCalls,        \* bound on the calls that hand in a sink or a choice
    MaxLost,         \* bound on the calls of mCallback that fail
    MaxRestarts      \* bound on the restarts of the process

Outputs == {"hdmi", "dp"}

(* What onHdmiSettingsChange is told: the colour space and depth, the      *)
(* dynamic range, the resolution.                                          *)
Kinds == {"colour", "hdr", "resolution"}

NoMask == [modes |-> {}, colorimetry |-> {}]
NoSink == [modes |-> {}, colorimetry |-> {}, bits |-> [s \in DeepSpaces |-> {}],
           hdr |-> {}, rate |-> 0, clock |-> 0]
MaskOf(sink) == [modes |-> sink.modes, colorimetry |-> sink.colorimetry]

Settings == [auto : BOOLEAN, resolution : Nat, space : {"auto", "rgb", "ycbcr"},
             depth : ColorDepths, hdr : BOOLEAN, dv : BOOLEAN]
Shown == [colour : Modes, hdr : 0 .. 2, resolution : Nat]
Told  == [colour : Modes \cup {None}, hdr : 0 .. 2 \cup {None}, resolution : Nat \cup {None}]

ASSUME HdmiTxAssumption ==
    /\ EdidSinks \subseteq Sinks
    /\ Resolutions \subseteq 0 .. 255
    /\ SetSpaces \subseteq {"auto", "rgb", "ycbcr"}
    /\ SetDepths \subseteq ColorDepths
    /\ SetSwitches \subseteq {"hdr", "dv"}
    /\ DriverDV \in BOOLEAN
    /\ MaxCalls \in Nat /\ MaxLost \in Nat /\ MaxRestarts \in Nat
    /\ None \notin Shown \cup Outputs

VARIABLES
    mCallback,       \* setHdmiSettingsCallback gave one
    crtcKnown,       \* outputs whose mHdmiCrtcNum or mDpCrtcNum is not -1
    mask,            \* mEdid and mDPInfo
    edidT,           \* mEdidT[1] and mEdidT[0]
    stateChanged,    \* outputs whose mHdmiStateChanged or mDpStateChanged is set
    mode,            \* mColorSpaceMode, mColorDepthMode and mHdrMode; None: -1
    setting,         \* the properties of an output
    deal             \* outputs whose DEAL_..._RESOLUTION_PROP is 1
VARIABLES            \* history
    asked,           \* what the last call wanted the output to show
    told,            \* what mCallback was told of it
    sent,            \* what this call told, of one output
    owner,           \* the output whose mode is in "mode"
    complete,        \* outputs whose last mode was told in full
    calls, lost, restarts

process == <<mCallback, crtcKnown, mask, edidT, stateChanged, mode>>
vars == <<process, setting, deal, asked, told, sent, owner, complete, calls, lost, restarts>>

Init ==
    /\ mCallback = FALSE /\ crtcKnown = {} /\ stateChanged = {} /\ mode = None /\ deal = {}
    /\ mask = [o \in Outputs |-> NoMask]
    /\ edidT = [o \in Outputs |-> NoSink]
    /\ setting = [o \in Outputs |->
                    [auto |-> TRUE, resolution |-> 0, space |-> "auto",
                     depth |-> IF o = "hdmi" THEN 12 ELSE 8, hdr |-> TRUE, dv |-> TRUE]]
    /\ asked = [o \in Outputs |-> None]
    /\ told = [o \in Outputs |-> [k \in Kinds |-> None]]
    /\ sent = {} /\ owner = None /\ complete = {}
    /\ calls = 0 /\ lost = 0 /\ restarts = 0

Call == calls < MaxCalls /\ calls' = calls + 1 /\ UNCHANGED restarts

-----------------------------------------------------------------------------
getHDMIHdrDV(o) ==
    IF ~setting[o].hdr THEN 0 ELSE IF DriverDV /\ setting[o].dv THEN 2 ELSE 1

ChosenResolution(o, m, resolution) ==
    IF resolution >= AUTO_RESOLUTION \/ setting[o].auto
    THEN getSuitableResolution(m, resolution) ELSE resolution

(* The mode setVideoResolution arrives at.                                 *)
FinalMode(o, m, sink, resolution) ==
    LET chosen == ChosenResolution(o, m, resolution)
        final  == IF chosen >= AUTO_RESOLUTION THEN chosen - AUTO_RESOLUTION ELSE chosen
        space  == IF setting[o].space = "auto" THEN (IF Yuv4kSink(m) THEN "444" ELSE "rgb")
                  ELSE IF setting[o].space = "rgb" THEN "rgb" ELSE "444"
    IN  [colour |-> findBestMode(m, sink, final, space, setting[o].depth),
         hdr |-> getHDMIHdrDV(o), resolution |-> final]

(* Fault: the depth is not compared.                                       *)
SameMode_AnyDepth(o, new) ==
    /\ new.resolution = setting[o].resolution
    /\ mode # None /\ mode.colour.space = new.colour.space /\ mode.hdr = new.hdr

SameMode(o, new) ==
    /\ new.resolution = setting[o].resolution
    /\ mode = [colour |-> new.colour, hdr |-> new.hdr]

(* "heard" of what was sent reached the output: nothing without a callback *)
(* or with CRTC -1; a call of the callback may fail.  Nobody looks.        *)
Tell(o, new, heard) ==
    /\ heard \subseteq sent'
    /\ ~mCallback \/ o \notin crtcKnown' => heard = {}
    /\ mCallback /\ o \in crtcKnown' /\ heard # sent' => lost < MaxLost
    /\ lost' = IF mCallback /\ o \in crtcKnown' /\ heard # sent' THEN lost + 1 ELSE lost
    /\ told' = [told EXCEPT ![o] = [k \in Kinds |-> IF k \in heard THEN new[k] ELSE @[k]]]

(* setVideoResolution and setDPResolution.                                 *)
setVideoResolution(o, m, sink, resolution, changed) ==
    LET new == FinalMode(o, m, sink, resolution)
    IN  /\ asked' = [asked EXCEPT ![o] = new]
        /\ IF SameMode(o, new) /\ ~changed
           THEN /\ sent' = IF o = "dp" THEN {"resolution"} ELSE {}
                /\ \E heard \in SUBSET Kinds : Tell(o, new, heard)
                /\ UNCHANGED <<setting, mode, owner, complete, stateChanged>>
           ELSE /\ sent' = Kinds
                /\ \E heard \in SUBSET Kinds :
                      /\ Tell(o, new, heard)
                      /\ complete' = IF heard = Kinds THEN complete \cup {o} ELSE complete \ {o}
                /\ setting' = [setting EXCEPT ![o].resolution = new.resolution]
                /\ mode' = [colour |-> new.colour, hdr |-> new.hdr]
                /\ owner' = o
                /\ stateChanged' = stateChanged \ {o}

Silent == sent' = {} /\ UNCHANGED <<asked, told, owner, complete, lost>>

-----------------------------------------------------------------------------
setHdmiSettingsCallback ==
    /\ mCallback' = TRUE
    /\ UNCHANGED <<calls, restarts, crtcKnown, mask, edidT, stateChanged, mode, setting, deal>> /\ Silent

(* Fault: the state-changed flag is not set.                               *)
setEDIDInfoMore_Unchanged(o, sink) ==
    /\ Call
    /\ edidT' = [edidT EXCEPT ![o] = sink]
    /\ mask' = [mask EXCEPT ![o] = MaskOf(sink)]
    /\ crtcKnown' = crtcKnown \cup {o}
    /\ IF Connected(sink)
       THEN setVideoResolution(o, MaskOf(sink), sink, setting[o].resolution, FALSE)
       ELSE UNCHANGED <<setting, mode, stateChanged>> /\ Silent
    /\ UNCHANGED <<mCallback, deal>>

setEDIDInfoMore(o, sink) ==
    /\ Call
    /\ edidT' = [edidT EXCEPT ![o] = sink]
    /\ mask' = [mask EXCEPT ![o] = MaskOf(sink)]
    /\ crtcKnown' = crtcKnown \cup {o}
    /\ IF Connected(sink)
       THEN setVideoResolution(o, MaskOf(sink), sink, setting[o].resolution, TRUE)
       ELSE UNCHANGED <<setting, mode, stateChanged>> /\ Silent
    /\ UNCHANGED <<mCallback, deal>>

(* The output a flag hands the next call to; the flag is reset.            *)
Dealt == IF "dp" \in deal THEN "dp" ELSE IF "hdmi" \in deal THEN "hdmi" ELSE None

getResolutionMask(masks) == IF Dealt = None THEN NoMask ELSE masks[Dealt]

get_resolution_mask ==
    /\ deal' = deal \ {Dealt}
    /\ UNCHANGED <<calls, restarts, process, setting>> /\ Silent

(* refreshEdid reads the mask it has just been given back through          *)
(* getResolutionMask, and keeps what that returns.                         *)
setEDIDInfo(m) ==
    /\ Call
    /\ IF Connected(m)
       THEN LET refreshed == getResolutionMask([mask EXCEPT !["hdmi"] = m])
            IN  /\ mask' = [mask EXCEPT !["hdmi"] = refreshed]
                /\ deal' = deal \ {Dealt}
                /\ crtcKnown' = crtcKnown
                /\ setVideoResolution("hdmi", refreshed, edidT["hdmi"],
                                      setting["hdmi"].resolution, TRUE)
       ELSE /\ mask' = [mask EXCEPT !["hdmi"] = m]
            /\ UNCHANGED <<crtcKnown, setting, mode, stateChanged, deal>> /\ Silent
    /\ UNCHANGED <<mCallback, edidT>>

set_video_resolution(resolution) ==
    /\ Call
    /\ deal' = deal \ {Dealt}
    /\ crtcKnown' = crtcKnown
    /\ IF Dealt = None
       THEN UNCHANGED <<setting, mode, stateChanged>> /\ Silent
       ELSE setVideoResolution(Dealt, mask[Dealt], edidT[Dealt], resolution,
                               Dealt \in stateChanged)
    /\ UNCHANGED <<mCallback, mask, edidT>>

-----------------------------------------------------------------------------
(* The choices of the user: set_mode_type and set_auto_mode,               *)
(* set_color_format and set_color_depth for HDMI, setHdmiModeValues for    *)
(* the rest.  They only write the property.                                *)
SetProperty(o, property, value) ==
    /\ Call
    /\ setting' = [setting EXCEPT ![o][property] = value]
    /\ UNCHANGED <<process, deal>> /\ Silent

set_auto_mode(enable)  == SetProperty("hdmi", "auto", enable)
set_color_format(space) == SetProperty("hdmi", "space", space)
set_color_depth(depth) == SetProperty("hdmi", "depth", depth)

setHdmiModeValues ==
    \/ \E on \in BOOLEAN, o \in Outputs, property \in SetSwitches : SetProperty(o, property, on)
    \/ \E on \in BOOLEAN : SetProperty("dp", "auto", on)
    \/ \E space \in SetSpaces : SetProperty("dp", "space", space)
    \/ \E depth \in SetDepths : SetProperty("dp", "depth", depth)
    \/ \E o \in Outputs, on \in BOOLEAN :
          /\ Call
          /\ deal' = IF on THEN deal \cup {o} ELSE deal \ {o}
          /\ UNCHANGED <<process, setting>> /\ Silent

(* The process ends and starts anew; its globals are what they were at     *)
(* first, and initialize resets the two flags.                             *)
Restart ==
    /\ restarts < MaxRestarts /\ restarts' = restarts + 1
    /\ mCallback' = FALSE /\ crtcKnown' = {} /\ stateChanged' = {} /\ mode' = None /\ deal' = {}
    /\ mask' = [o \in Outputs |-> NoMask]
    /\ edidT' = [o \in Outputs |-> NoSink]
    /\ owner' = None /\ sent' = {}
    /\ UNCHANGED <<setting, asked, told, complete, calls, lost>>

Next ==
    \/ setHdmiSettingsCallback
    \/ \E o \in Outputs, sink \in EdidSinks : setEDIDInfoMore(o, sink)
    \/ \E sink \in EdidSinks : setEDIDInfo(MaskOf(sink))
    \/ get_resolution_mask
    \/ \E resolution \in Resolutions : set_video_resolution(resolution)
    \/ \E enable \in BOOLEAN : set_auto_mode(enable)
    \/ \E space \in SetSpaces : set_color_format(space)
    \/ \E depth \in SetDepths : set_color_depth(depth)
    \/ setHdmiModeValues
    \/ Restart

Spec == Init /\ [][Next]_vars

-----------------------------------------------------------------------------
TypeOK ==
    /\ mCallback \in BOOLEAN
    /\ crtcKnown \subseteq Outputs /\ stateChanged \subseteq Outputs /\ deal \subseteq Outputs
    /\ mask \in [Outputs -> Masks]
    /\ edidT \in [Outputs -> Sinks]
    /\ mode \in [colour : Modes, hdr : 0 .. 2] \cup {None}
    /\ setting \in [Outputs -> Settings]
    /\ asked \in [Outputs -> Shown \cup {None}]
    /\ told \in [Outputs -> Told]
    /\ sent \subseteq Kinds /\ complete \subseteq Outputs /\ owner \in Outputs \cup {None}
    /\ calls \in 0 .. MaxCalls /\ lost \in 0 .. MaxLost /\ restarts \in 0 .. MaxRestarts

(* An output whose mode the three variables hold, and which was told of it *)
(* in full, shows what the last call for it wanted, whichever calls were   *)
(* skipped since because the mode was the same.                            *)
ToldUnlessShared ==
    \A o \in Outputs : owner = o /\ o \in complete =>
        asked[o] # None /\ \A k \in Kinds : told[o][k] = asked[o][k]

(* A sink that is not the one before is told its mode in full, if it is    *)
(* the same mode too: the state-changed flag.                              *)
NewSinkTold ==
    [][\A o \in Outputs : mask'[o] # mask[o] /\ Connected(mask'[o]) => sent' = Kinds]_vars

(* Whatever the order of sinks, choices and calls, the mode wanted is one  *)
(* the sink can take.                                                      *)
ModesFitSink ==
    [][\A o \in Outputs : asked'[o] # asked[o] =>
          Fits(edidT'[o], asked'[o].resolution, setting[o].depth, asked'[o].colour)]_vars

(* In automatic mode the resolution is one the sink lists, as long as it   *)
(* lists one of the preferred: getSuitableResolution on the newest mask.   *)
AutoIsListed ==
    [][\A o \in Outputs :
          asked'[o] # asked[o] /\ setting[o].auto /\ mask'[o].modes \cap Prefered # {}
             => asked'[o].resolution \in mask'[o].modes]_vars

(* As the comment on the three variables would have it, an output told in  *)
(* full shows what the last call for it wanted.                            *)
ToldIsAsked ==
    \A o \in Outputs : o \in complete /\ asked[o] # None =>
        \A k \in Kinds : told[o][k] = asked[o][k]
=============================================================================
