---------------------------- MODULE ImageConversion ----------------------------
(***************************************************************************)
(* mdp_ctl.cpp of the capture device: how the HDMI picture becomes a YV12  *)
(* buffer (mdp_trigger, by the thread of a request) and how that becomes   *)
(* the buffers of the client (mdp_1in1out and mdp_1in2out, by the output   *)
(* thread).  The picture quality block is one for the process: the thread  *)
(* of a request and the hot-plug thread write it under gMutex, and the     *)
(* input format is chosen by a look at it without.  The MDP itself is      *)
(* outside: a call of it succeeds or fails.                                *)
(***************************************************************************)
EXTENDS Integers

CONSTANTS
    MaxConversions,  \* bound on the conversions
    MaxPackets       \* bound on the HDR packets of the source

ASSUME ConversionAssumption == MaxConversions \in Nat /\ MaxPackets \in Nat

-----------------------------------------------------------------------------
(* Pure parts.  Of a colour space the profile keeps the matrix, of a range *)
(* whether it is full; "setting" is the property the client can set.       *)
Matrices == {"601", "709", "2020", "other"}
Settings == {"auto", "full", "limit", "unset"}

hal2dpprofile(matrix, full, setting, direction) ==
    [matrix |-> IF matrix = "other" THEN "709" ELSE matrix,
     full   |-> direction = "output" \/ setting = "full"
                \/ (setting = "auto" /\ full /\ matrix # "other")]

(* Formats the ISP stream writes, and the sizes of their planes.           *)
OutputFormats == {"NV12", "NV21", "YV12", "I420", "RGB_888", "RGBA_1010102", "YCBCR_422_I"}
PixelBytes == [RGB_888 |-> 3, RGBA_1010102 |-> 4, YCBCR_422_I |-> 2]

PlaneSizes(format, w, h) ==
    CASE format \in {"NV12", "NV21"} -> <<h * w, (h * w) \div 2, 0>>
      [] format \in {"YV12", "I420"} -> <<h * w, (h * w) \div 4, (h * w) \div 4>>
      [] OTHER -> <<h * w * PixelBytes[format], 0, 0>>

MmapSize(format, w, h) ==
    IF format \in DOMAIN PixelBytes THEN h * w * PixelBytes[format] ELSE (h * w * 3) \div 2

(* The pitch of the first plane and of those after it.                     *)
Pitches(format, w) ==
    CASE format \in {"NV12", "NV21"} -> <<w, w>>
      [] format \in {"YV12", "I420"} -> <<w, w \div 2>>
      [] OTHER -> <<w * PixelBytes[format], 0>>

(* What the input is taken for: HDR makes RGB a YUV that came as RGB.      *)
RgbFormats == {"RGB888", "RGBA1010102"}
YuvFormats == {"YUV444_FROMRGB", "YUV444_10L_FROMRGB"}
InputFormat(rgb, deep, hdr) ==
    IF rgb /\ ~hdr THEN IF deep THEN "RGBA1010102" ELSE "RGB888"
                   ELSE IF deep THEN "YUV444_10L_FROMRGB" ELSE "YUV444_FROMRGB"

-----------------------------------------------------------------------------
VARIABLES
    packet,          \* g_hdrinfo: the transfer function it names
    packets,         \* HDR packets so far
    dataSpace,       \* flags of dppqparam's dataSpace
    parsing,         \* the hot-plug thread has a packet it has not parsed
    trigger          \* where mdp_trigger is, and what it has told the MDP
VARIABLES            \* the output thread's conversion
    conv,            \* its kind, where it is, convert_flag
    sized,           \* outputs whose mmap size is set
    mapped,          \* outputs that are mapped
    convs            \* conversions so far
VARIABLES            \* history
    parsedMeanwhile, \* the hot-plug thread has parsed since mdp_trigger set the block
    answer,          \* of the last conversion: what failed, whether it was done, the result
    left             \* what conversions that failed have left mapped or open

pictureVars == <<packet, packets, dataSpace, parsing, trigger, parsedMeanwhile>>
convVars == <<conv, sized, mapped, convs, answer, left>>
imageVars == <<pictureVars, convVars>>

Transfers == {"ST2084", "HLG"}
NoTrigger == [at |-> "idle", matrix |-> "other", rgb |-> FALSE, pq |-> {}, format |-> "none"]
NoConversion == [kind |-> "none", at |-> "idle", flag |-> TRUE, failed |-> "none", done |-> FALSE]

ImageInit ==
    /\ packet = "SDR" /\ packets = 0 /\ dataSpace = {} /\ parsing = FALSE
    /\ trigger = NoTrigger /\ parsedMeanwhile = FALSE
    /\ conv = NoConversion /\ sized = {} /\ mapped = {} /\ convs = 0
    /\ answer = [failed |-> "none", done |-> TRUE, result |-> 0] /\ left = {}
-----------------------------------------------------------------------------
(* The source sends a packet: the hot-plug thread has the device write it, *)
(* then parses it (getHDRInfo).                                            *)
PacketArrives ==
    /\ packets < MaxPackets /\ packets' = packets + 1
    /\ ~parsing /\ parsing' = TRUE
    /\ packet' \in Transfers \cup {"SDR"}
    /\ UNCHANGED <<dataSpace, trigger, parsedMeanwhile, convVars>>

(* Fault: what was there stays.                                            *)
mdp_parse_hdr_info_Adds == dataSpace' = dataSpace \cup ({packet} \cap Transfers) \cup {"LIMITED"}

(* Under gMutex the block is made anew from the packet.                    *)
mdp_parse_hdr_info == dataSpace' = ({packet} \cap Transfers) \cup {"LIMITED"}

HotPlugParses ==
    /\ parsing /\ parsing' = FALSE
    /\ mdp_parse_hdr_info
    /\ parsedMeanwhile' = TRUE
    /\ UNCHANGED <<packet, packets, trigger, convVars>>

(* The thread of a request parses before it triggers.                      *)
RequestParses(matrix, rgb) ==
    /\ trigger.at = "idle"
    /\ mdp_parse_hdr_info
    /\ trigger' = [NoTrigger EXCEPT !.at = "block", !.matrix = matrix, !.rgb = rgb]
    /\ UNCHANGED <<packet, packets, parsing, parsedMeanwhile, convVars>>

(* mdp_trigger: under gMutex the standard of the signal joins the flags    *)
(* and the block is handed to the MDP.                                     *)
TriggerSetsBlock ==
    /\ trigger.at = "block"
    /\ dataSpace' = dataSpace \cup (IF trigger.matrix \in {"709", "2020"} THEN {trigger.matrix} ELSE {})
    /\ trigger' = [trigger EXCEPT !.at = "format", !.pq = dataSpace']
    /\ parsedMeanwhile' = FALSE
    /\ UNCHANGED <<packet, packets, parsing, convVars>>

(* The input format, by the flags as they are now.                         *)
TriggerChoosesFormat ==
    /\ trigger.at = "format"
    /\ \E deep \in BOOLEAN :
          trigger' = [trigger EXCEPT !.at = "told",
                         !.format = InputFormat(trigger.rgb, deep, dataSpace \cap Transfers # {})]
    /\ UNCHANGED <<packet, packets, dataSpace, parsing, parsedMeanwhile, convVars>>

(* The rest of the configuration, or a failure anywhere: -1, and nothing   *)
(* is taken back.                                                          *)
TriggerReturns ==
    /\ trigger.at # "idle"
    /\ trigger' = NoTrigger
    /\ UNCHANGED <<packet, packets, dataSpace, parsing, parsedMeanwhile, convVars>>

-----------------------------------------------------------------------------
(* A conversion, step by step: "output" is the format of an output, "map"  *)
(* its mapping (an allocation, then mmap), "dst" its queueing, "run" the   *)
(* five calls from startStream to dequeueFrameEnd.                         *)
Kinds == {"1in1out", "1in2out"}
Following(kind) ==
    [query |-> "source", source |-> "output0", output0 |-> "map0", map0 |-> "dst0",
     dst0 |-> IF kind = "1in1out" THEN "run" ELSE "output1",
     output1 |-> "map1", map1 |-> "dst1", dst1 |-> "run",
     run |-> IF kind = "1in1out" THEN "release0" ELSE "release1"]
ConvSteps == DOMAIN Following("1in1out")

(* Fault: output 1 that cannot be mapped is an error like that of output 0.*)
ExitOf_Returns(kind, step) ==
    IF \/ step \in {"query", "source", "map0", "map1"}
       \/ kind = "1in1out" /\ step \in {"output0", "dst0"}
    THEN "return" ELSE IF kind = "1in1out" THEN "release0" ELSE "release1"

(* Where a failure goes: a return, or the labels Err (both outputs are     *)
(* released, the second first) and Err0.                                   *)
ExitOf(kind, step) ==
    IF \/ step \in {"query", "source", "map0"}
       \/ kind = "1in1out" /\ step \in {"output0", "dst0"}
    THEN "return" ELSE IF kind = "1in1out" \/ step = "map1" THEN "release0" ELSE "release1"

OutputOf == [map0 |-> 0, map1 |-> 1, release0 |-> 0, release1 |-> 1]

ConvStarts(kind) ==
    /\ conv.at = "idle" /\ convs < MaxConversions /\ convs' = convs + 1
    /\ conv' = [NoConversion EXCEPT !.kind = kind, !.at = "query"]
    /\ sized' = {} /\ mapped' = {}
    /\ UNCHANGED <<answer, left, pictureVars>>

ConvProceeds ==
    /\ conv.at \in ConvSteps
    /\ conv' = [conv EXCEPT !.at = Following(conv.kind)[@], !.done = (conv.at = "run")]
    /\ sized' = sized \cup CASE conv.at = "output0" -> {0} [] conv.at = "output1" -> {1} [] OTHER -> {}
    /\ mapped' = mapped \cup IF conv.at \in DOMAIN OutputOf THEN {OutputOf[conv.at]} ELSE {}
    /\ UNCHANGED <<convs, answer, left, pictureVars>>

(* An output that is mapped has a descriptor as well, share_fd.            *)
Held(outputs) == IF outputs = {} THEN {} ELSE {"mapping", "descriptor"}

Left(what) == {[kind |-> conv.kind, failed |-> conv.at, what |-> w] : w \in what}

ConvReturns(result, failed) ==
    /\ conv' = NoConversion
    /\ answer' = [failed |-> failed, done |-> conv.done, result |-> result]

(* Fault: convert_flag stays set when the stream does not run.             *)
StillConverted_Always(step) == TRUE

(* convert_flag after a step has failed.                                   *)
StillConverted(step) == step # "run"

(* A step fails.  A mapping that fails may have allocated its buffer.      *)
ConvFails ==
    /\ conv.at \in ConvSteps
    /\ \E what \in SUBSET {"descriptor"} :
          /\ what # {} => conv.at \in DOMAIN OutputOf
          /\ IF ExitOf(conv.kind, conv.at) = "return"
             THEN /\ ConvReturns(-1, conv.at)
                  /\ left' = left \cup Left(what \cup Held(mapped))
             ELSE /\ conv' = [conv EXCEPT !.at = ExitOf(conv.kind, @), !.failed = conv.at,
                                          !.flag = StillConverted(conv.at)]
                  /\ left' = left \cup Left(what)
                  /\ UNCHANGED answer
    /\ UNCHANGED <<sized, mapped, convs, pictureVars>>

(* release_va_unmmap: an output whose size was never set is an error, one  *)
(* that was never mapped is not.                                           *)
ConvReleases ==
    /\ conv.at \in {"release0", "release1"}
    /\ LET k == OutputOf[conv.at]
           flag == conv.flag /\ k \in sized
           rest == mapped \ (IF k \in sized THEN {k} ELSE {})
       IN  /\ mapped' = rest
           /\ IF k = 1 THEN conv' = [conv EXCEPT !.at = "release0", !.flag = flag]
                            /\ UNCHANGED <<answer, left>>
              ELSE /\ ConvReturns(IF flag THEN 0 ELSE -1, conv.failed)
                   /\ left' = left \cup Left(Held(rest))
    /\ UNCHANGED <<sized, convs, pictureVars>>

ImageNext ==
    \/ PacketArrives \/ HotPlugParses
    \/ \E matrix \in {"709", "2020"}, rgb \in BOOLEAN : RequestParses(matrix, rgb)
    \/ TriggerSetsBlock \/ TriggerChoosesFormat \/ TriggerReturns
    \/ \E kind \in Kinds : ConvStarts(kind)
    \/ ConvProceeds \/ ConvFails \/ ConvReleases

-----------------------------------------------------------------------------
ImageTypeOK ==
    /\ packet \in Transfers \cup {"SDR"} /\ packets \in 0 .. MaxPackets
    /\ dataSpace \subseteq Transfers \cup {"LIMITED", "709", "2020"}
    /\ parsing \in BOOLEAN /\ parsedMeanwhile \in BOOLEAN
    /\ trigger \in [at : {"idle", "block", "format", "told"}, matrix : Matrices, rgb : BOOLEAN,
                    pq : SUBSET (Transfers \cup {"LIMITED", "709", "2020"}),
                    format : {"none"} \cup RgbFormats \cup YuvFormats]
    /\ conv \in [kind : Kinds \cup {"none"}, at : ConvSteps \cup {"idle", "release0", "release1"},
                 flag : BOOLEAN, failed : ConvSteps \cup {"none"}, done : BOOLEAN]
    /\ sized \subseteq {0, 1} /\ mapped \subseteq {0, 1}
    /\ convs \in 0 .. MaxConversions
    /\ answer \in [failed : ConvSteps \cup {"none"}, done : BOOLEAN, result : {0, -1}]

(* mdp_ctl.cpp 331 to 475: the block the MDP gets names one transfer       *)
(* function and one standard, those of one packet and one signal, though   *)
(* flags are only ever added to it and two threads write it; and RGB gets  *)
(* the input format of HDR if the block does, unless the hot-plug thread   *)
(* parsed a packet between the two.                                        *)
PictureAgrees ==
    /\ ~({"ST2084", "HLG"} \subseteq trigger.pq) /\ ~({"709", "2020"} \subseteq trigger.pq)
    /\ trigger.at = "told" /\ trigger.rgb /\ ~parsedMeanwhile
       => (trigger.format \in YuvFormats) = (trigger.pq \cap Transfers # {})

(* mdp_ctl.cpp 660 to 1097: who gets 0 finds the picture in its buffers.   *)
(* The exceptions are the two steps of mdp_1in2out that go to the labels   *)
(* with convert_flag still set and both sizes known: 1017 to 1021, 1027 to *)
(* 1039.                                                                   *)
ConvertedIfZero == answer.result = 0 => answer.done \/ answer.failed \in {"map1", "dst1"}

(* No mapping and no descriptor outlives a conversion, however it failed,  *)
(* but for both of them when mdp_1in1out cannot queue or configure its     *)
(* output (760 to 772), and the descriptor of an mmap that failed (614).   *)
NothingLeft ==
    \A l \in left : \/ l.kind = "1in1out" /\ l.failed = "dst0"
                    \/ l.what = "descriptor" /\ l.failed \in {"map0", "map1"}
===============================================================================
