--------------------------- MODULE HdmiTx_proofs ---------------------------
(***************************************************************************)
(* Proofs about HdmiTx for every set of sinks, of resolutions and of       *)
(* choices, and any number of calls, of failed callbacks and of restarts;  *)
(* first what getSuitableResolution and findBestMode return.               *)
(***************************************************************************)
EXTENDS HdmiTx, TLAPS

-----------------------------------------------------------------------------
(* The resolution.                                                         *)

(* Among positions of the table of resolutions there is a first.           *)
LEMMA LeastIndex ==
    ASSUME NEW T \in SUBSET (1 .. 22), T # {}
    PROVE  \E n \in T : \A k \in T : ~(k < n)
<1> SUFFICES ASSUME \A n \in T : \E k \in T : k < n
             PROVE  FALSE
    OBVIOUS
<1>1. \A n \in T : n > 4
  <2>1. 1 \notin T /\ 2 \notin T /\ 3 \notin T /\ 4 \notin T
      OBVIOUS
  <2> QED BY <2>1
<1>2. \A n \in T : n > 8
  <2>1. 5 \notin T /\ 6 \notin T /\ 7 \notin T /\ 8 \notin T
      BY <1>1
  <2> QED BY <1>1, <2>1
<1>3. \A n \in T : n > 12
  <2>1. 9 \notin T /\ 10 \notin T /\ 11 \notin T /\ 12 \notin T
      BY <1>2
  <2> QED BY <1>2, <2>1
<1>4. \A n \in T : n > 16
  <2>1. 13 \notin T /\ 14 \notin T /\ 15 \notin T /\ 16 \notin T
      BY <1>3
  <2> QED BY <1>3, <2>1
<1>5. \A n \in T : n > 20
  <2>1. 17 \notin T /\ 18 \notin T /\ 19 \notin T /\ 20 \notin T
      BY <1>4
  <2> QED BY <1>4, <2>1
<1>6. 21 \notin T /\ 22 \notin T
    BY <1>5
<1>7. \E n \in T : n = 21 \/ n = 22
  <2>1. PICK n \in T : TRUE
      OBVIOUS
  <2> QED BY <1>5, <2>1
<1> QED BY <1>6, <1>7

(* The table holds the 22 resolutions of Prefered.                         *)
LEMMA PreferedType ==
    \A i \in 1 .. 22 : PREFERED_RESOLUTIONS[i] \in Nat
<1> TAKE i \in 1 .. 22
<1>1. i \in {1, 2, 3, 4, 5, 6, 7, 8, 9, 10, 11, 12, 13, 14, 15, 16, 17, 18, 19, 20, 21, 22}
    OBVIOUS
<1> QED BY <1>1 DEF PREFERED_RESOLUTIONS

(* getSuitableResolution returns a resolution, and one the sink lists      *)
(* whenever that lists one of the preferred.                               *)
THEOREM SuitableIsListed ==
    ASSUME NEW offered \in Masks, NEW resolution \in Nat
    PROVE  /\ getSuitableResolution(offered, resolution) \in Nat
           /\ offered.modes \cap Prefered # {}
                => getSuitableResolution(offered, resolution) \in offered.modes
<1>1. CASE offered.modes = {}
    BY <1>1 DEF getSuitableResolution, RESOLUTION_720X480P_60HZ
<1>2. CASE offered.modes # {} /\ offered.modes \cap Prefered = {}
    BY <1>2 DEF getSuitableResolution
<1>3. CASE offered.modes \cap Prefered # {}
  <2> DEFINE Listed   == {i \in 1 .. 22 : PREFERED_RESOLUTIONS[i] \in offered.modes}
             First(i) == /\ PREFERED_RESOLUTIONS[i] \in offered.modes
                         /\ \A j \in 1 .. 22 : j < i => PREFERED_RESOLUTIONS[j] \notin offered.modes
             first    == CHOOSE i \in 1 .. 22 : First(i)
  <2>1. offered.modes # {}
      BY <1>3
  <2>2. Listed # {} /\ Listed \in SUBSET (1 .. 22)
      BY <1>3 DEF Prefered
  <2>3. PICK i \in Listed : \A j \in Listed : ~(j < i)
    <3> HIDE DEF Listed
    <3> QED BY <2>2, LeastIndex
  <2>4. i \in 1 .. 22 /\ First(i)
      BY <2>3
  <2>5. first \in 1 .. 22 /\ First(first)
    <3> HIDE DEF First
    <3> QED BY <2>4
  <2>6. getSuitableResolution(offered, resolution) = PREFERED_RESOLUTIONS[first]
      BY <1>3, <2>1 DEF getSuitableResolution
  <2> HIDE DEF first
  <2> QED BY <2>5, <2>6, PreferedType
<1> QED BY <1>1, <1>2, <1>3

-----------------------------------------------------------------------------
(* The colour space and depth.                                             *)

(* Deepest returns one of the depths it is given, or 8 bits.               *)
LEMMA DeepestIsGiven ==
    ASSUME NEW D
    PROVE  /\ Deepest(D) \in ColorDepths
           /\ Deepest(D) # 8 => Deepest(D) \in D
BY DEF Deepest, ColorDepths, DeepColors

(* What findBestMode makes of a sink at 4k60 fits it.                      *)
LEMMA BestMode4k60Fits ==
    ASSUME NEW sink \in Sinks, NEW wanted \in ColorDepths, NEW resolution \in Modes4k60
    PROVE  /\ BestMode4k60(sink, wanted) \in Modes
           /\ Fits(sink, resolution, wanted, BestMode4k60(sink, wanted))
<1> DEFINE best == BestMode4k60(sink, wanted)
           D    == {d \in sink.bits["420"] : d <= wanted /\ HasRate(sink, d)}
<1>1. CASE best = [space |-> "422", depth |-> 8]
    BY <1>1 DEF Fits, Modes, ColorSpaces, ColorDepths, DeepColors
<1>2. CASE best = [space |-> "420", depth |-> Deepest(D)]
  <2>1. best \in Modes
      BY <1>2, DeepestIsGiven DEF Modes, ColorSpaces, DeepSpaces
  <2>2. best.space = "420" /\ best.depth \in ColorDepths
      BY <1>2, DeepestIsGiven
  <2>3. best.depth # 8 => best.depth \in sink.bits["420"] /\ best.depth <= wanted
                          /\ HasRate(sink, best.depth)
      BY <1>2, DeepestIsGiven
  <2>4. best.depth <= wanted
      BY <2>2, <2>3 DEF ColorDepths, DeepColors
  <2>5. resolution \notin Modes4k30
      BY DEF Modes4k60, Modes4k30
  <2> HIDE DEF best
  <2>6. Fits(sink, resolution, wanted, best)
      BY <2>2, <2>3, <2>4, <2>5 DEF Fits, ColorDepths, DeepColors
  <2> QED BY <2>1, <2>6 DEF best
<1> QED BY <1>1, <1>2 DEF BestMode4k60

(* What the fall-through over the depths finds is declared by the sink.    *)
LEMMA FallThroughDeclared ==
    ASSUME NEW sink \in Sinks, NEW wanted \in ColorDepths
    PROVE  /\ FallThrough(sink, wanted) \in Modes
           /\ FallThrough(sink, wanted).depth <= wanted
           /\ FallThrough(sink, wanted).depth > 8 =>
                 /\ FallThrough(sink, wanted).space \in DeepSpaces
                 /\ FallThrough(sink, wanted).depth
                       \in sink.bits[FallThrough(sink, wanted).space]
<1> DEFINE D     == {d \in DeepColors : d <= wanted /\ Offered(sink, d) # {}}
           depth == Deepest(D)
           space == FirstSpace(Offered(sink, depth))
<1>1. FallThrough(sink, wanted) = [space |-> space, depth |-> depth]
    BY DEF FallThrough
<1>2. depth \in ColorDepths /\ (depth # 8 => depth <= wanted /\ Offered(sink, depth) # {})
    BY DeepestIsGiven
<1>3. depth <= wanted
    BY <1>2 DEF ColorDepths, DeepColors
<1>4. space \in ColorSpaces
    BY DEF FirstSpace, ColorSpaces, DeepSpaces
<1>5. ASSUME depth # 8
      PROVE  space \in DeepSpaces /\ depth \in sink.bits[space]
  <2> HIDE DEF depth
  <2>1. Offered(sink, depth) = {s \in DeepSpaces : depth \in sink.bits[s]}
      BY <1>5 DEF Offered
  <2>2. space \in Offered(sink, depth)
      BY <1>2, <1>5, <2>1 DEF FirstSpace, DeepSpaces
  <2> QED BY <2>1, <2>2
<1> HIDE DEF depth, space
<1> QED BY <1>1, <1>2, <1>3, <1>4, <1>5 DEF Modes, ColorDepths, DeepColors

(* RGB in place of YCbCr 4:4:4 leaves the depth, and the reduction at 4k30 *)
(* only takes from it.                                                     *)
LEMMA NarrowedFits ==
    ASSUME NEW sink \in Sinks, NEW wanted \in ColorDepths, NEW found \in Modes,
           NEW resolution \in Nat, resolution \notin Modes4k60, NEW space,
           found.depth <= wanted,
           found.depth > 8 => /\ found.space \in DeepSpaces
                              /\ found.depth \in sink.bits[found.space]
    PROVE  /\ Narrowed(sink, resolution, Forced(space, found)) \in Modes
           /\ Fits(sink, resolution, wanted, Narrowed(sink, resolution, Forced(space, found)))
<1> DEFINE forced == Forced(space, found)
           best   == Narrowed(sink, resolution, forced)
           Declared(s) == IF s = "rgb" THEN sink.bits["rgb"] \cup sink.bits["444"] ELSE sink.bits[s]
<1>1. forced \in Modes /\ forced.depth = found.depth
    BY DEF Forced, Modes, ColorSpaces, DeepSpaces
<1>2. found.depth > 8 => forced.space # "422" /\ found.depth \in Declared(forced.space)
    BY DEF Forced, Modes, DeepSpaces
<1> HIDE DEF forced
<1>3. /\ best \in Modes /\ best.space = forced.space
      /\ best.depth \in ColorDepths
      /\ best.depth > 8 => best.depth <= forced.depth
      /\ best.depth > 8 /\ resolution \in Modes4k30 /\ MaxRate(sink) # 0 /\ best.space # "420"
            => HasRate(sink, best.depth)
  <2> DEFINE D == {d \in DeepColors : d <= forced.depth /\ HasRate(sink, d)}
  <2>1. CASE MaxRate(sink) # 0 /\ resolution \in Modes4k30 /\ forced.space # "420"
    <3>1. best = [forced EXCEPT !.depth = Deepest(D)]
        BY <2>1 DEF Narrowed
    <3>2. Deepest(D) \in ColorDepths /\ (Deepest(D) # 8 => Deepest(D) \in D)
        BY DeepestIsGiven
    <3>3. best \in Modes /\ best.space = forced.space /\ best.depth = Deepest(D)
        BY <1>1, <3>1, <3>2 DEF Modes
    <3> HIDE DEF best
    <3> QED BY <3>2, <3>3
  <2>2. CASE ~(MaxRate(sink) # 0 /\ resolution \in Modes4k30 /\ forced.space # "420")
    <3>1. best = forced
        BY <2>2 DEF Narrowed
    <3> QED BY <1>1, <2>2, <3>1 DEF Modes, ColorDepths, DeepColors
  <2> QED BY <2>1, <2>2
<1> HIDE DEF best
<1>4. best.depth <= wanted
    BY <1>1, <1>3 DEF ColorDepths, DeepColors, Modes
<1>5. ASSUME best.depth > 8
      PROVE  best.space # "422" /\ found.depth \in Declared(best.space) /\ found.depth >= best.depth
    BY <1>1, <1>2, <1>3, <1>5 DEF ColorDepths, DeepColors, Modes
<1>6. Fits(sink, resolution, wanted, best)
    BY <1>3, <1>4, <1>5 DEF Fits
<1> QED BY <1>3, <1>6 DEF best, forced

(* Whatever the sink declares, findBestMode returns a mode that fits it:   *)
(* no deeper than wanted, of a space that carries the depth, within the    *)
(* clock at 4k.  (resolution, space and wanted are what setVideoResolution *)
(* gives it.)                                                              *)
THEOREM BestModeFits ==
    ASSUME NEW offered \in Masks, NEW sink \in Sinks, NEW resolution \in Nat,
           NEW space, NEW wanted \in ColorDepths
    PROVE  /\ findBestMode(offered, sink, resolution, space, wanted) \in Modes
           /\ Fits(sink, resolution, wanted, findBestMode(offered, sink, resolution, space, wanted))
<1> DEFINE found == IF "DV" \in sink.hdr THEN [space |-> "422", depth |-> 8]
                                         ELSE FallThrough(sink, wanted)
<1>1. CASE ~Connected(offered)
    BY <1>1 DEF findBestMode, Fits, Modes, ColorSpaces, DeepSpaces, ColorDepths, DeepColors
<1>2. CASE Connected(offered) /\ resolution \in Modes4k60
    BY <1>2, BestMode4k60Fits DEF findBestMode
<1>3. CASE Connected(offered) /\ resolution \notin Modes4k60
  <2>1. findBestMode(offered, sink, resolution, space, wanted)
           = Narrowed(sink, resolution, Forced(space, found))
      BY <1>3 DEF findBestMode
  <2>2. /\ found \in Modes /\ found.depth <= wanted
        /\ found.depth > 8 => found.space \in DeepSpaces /\ found.depth \in sink.bits[found.space]
    <3>1. CASE "DV" \in sink.hdr
        BY <3>1 DEF Modes, ColorSpaces, ColorDepths, DeepColors
    <3>2. CASE "DV" \notin sink.hdr
        BY <3>2, FallThroughDeclared
    <3> QED BY <3>1, <3>2
  <2> HIDE DEF found
  <2> QED BY <1>3, <2>1, <2>2, NarrowedFits
<1> QED BY <1>1, <1>2, <1>3

-----------------------------------------------------------------------------
(* The service.                                                            *)

(* The mode the three variables hold is the one last wanted of the output  *)
(* that stored it, and so is the resolution in its property.               *)
CacheInv ==
    \A o \in Outputs : owner = o /\ o \in complete =>
        /\ asked[o] # None
        /\ \A k \in Kinds : told[o][k] = asked[o][k]
        /\ mode = [colour |-> asked[o].colour, hdr |-> asked[o].hdr]
        /\ setting[o].resolution = asked[o].resolution

IInv == TypeOK /\ CacheInv

USE HdmiTxAssumption

-----------------------------------------------------------------------------
(* The steps within a call.                                                *)

(* The masks and sinks of the model have their types.                      *)
LEMMA MaskType ==
    /\ NoMask \in Masks /\ NoSink \in Sinks
    /\ \A sink \in Sinks : MaskOf(sink) \in Masks
BY DEF NoMask, NoSink, MaskOf, Masks, Sinks

(* The mode arrived at has its type, and its colour fits the sink.         *)
LEMMA FinalModeFits ==
    ASSUME TypeOK, NEW o \in Outputs, NEW m \in Masks, NEW sink \in Sinks, NEW resolution \in Nat
    PROVE  /\ FinalMode(o, m, sink, resolution) \in Shown
           /\ Fits(sink, FinalMode(o, m, sink, resolution).resolution, setting[o].depth,
                   FinalMode(o, m, sink, resolution).colour)
<1> DEFINE chosen == ChosenResolution(o, m, resolution)
           final  == IF chosen >= AUTO_RESOLUTION THEN chosen - AUTO_RESOLUTION ELSE chosen
           space  == IF setting[o].space = "auto" THEN (IF Yuv4kSink(m) THEN "444" ELSE "rgb")
                     ELSE IF setting[o].space = "rgb" THEN "rgb" ELSE "444"
           colour == findBestMode(m, sink, final, space, setting[o].depth)
<1>1. final \in Nat
  <2>1. chosen \in Nat
      BY SuitableIsListed DEF ChosenResolution
  <2> HIDE DEF chosen
  <2> QED BY <2>1 DEF AUTO_RESOLUTION
<1>2. setting[o].depth \in ColorDepths
    BY DEF TypeOK, Settings
<1> HIDE DEF final, space
<1>3. colour \in Modes /\ Fits(sink, final, setting[o].depth, colour)
    BY <1>1, <1>2, BestModeFits
<1>4. getHDMIHdrDV(o) \in 0 .. 2
    BY DEF getHDMIHdrDV
<1>5. FinalMode(o, m, sink, resolution)
         = [colour |-> colour, hdr |-> getHDMIHdrDV(o), resolution |-> final]
    BY DEF FinalMode, final, space
<1> HIDE DEF colour
<1> QED BY <1>1, <1>3, <1>4, <1>5 DEF Shown

(* setVideoResolution keeps the types and what is known of the cache.      *)
LEMMA SetVideoResolutionStep ==
    ASSUME IInv, NEW o \in Outputs, NEW m \in Masks, NEW sink \in Sinks, NEW resolution \in Nat,
           NEW changed \in BOOLEAN, setVideoResolution(o, m, sink, resolution, changed)
    PROVE  /\ stateChanged' \subseteq Outputs
           /\ mode' \in [colour : Modes, hdr : 0 .. 2] \cup {None}
           /\ setting' \in [Outputs -> Settings]
           /\ asked' \in [Outputs -> Shown \cup {None}]
           /\ told' \in [Outputs -> Told]
           /\ sent' \subseteq Kinds /\ complete' \subseteq Outputs /\ owner' \in Outputs \cup {None}
           /\ lost' \in 0 .. MaxLost
           /\ CacheInv'
<1> DEFINE new == FinalMode(o, m, sink, resolution)
<1>1. new \in Shown
    BY FinalModeFits DEF IInv
<1>2. asked' = [asked EXCEPT ![o] = new]
    BY DEF setVideoResolution
<1>3. PICK heard \in SUBSET Kinds :
         /\ Tell(o, new, heard)
         /\ SameMode(o, new) /\ ~changed
               => /\ sent' = IF o = "dp" THEN {"resolution"} ELSE {}
                  /\ UNCHANGED <<setting, mode, owner, complete, stateChanged>>
         /\ ~(SameMode(o, new) /\ ~changed)
               => /\ sent' = Kinds
                  /\ complete' = IF heard = Kinds THEN complete \cup {o} ELSE complete \ {o}
                  /\ setting' = [setting EXCEPT ![o].resolution = new.resolution]
                  /\ mode' = [colour |-> new.colour, hdr |-> new.hdr]
                  /\ owner' = o
                  /\ stateChanged' = stateChanged \ {o}
  <2> HIDE DEF new
  <2>1. setVideoResolution(o, m, sink, resolution, changed)
      OBVIOUS
  <2>2. CASE SameMode(o, new) /\ ~changed
      BY <2>1, <2>2 DEF setVideoResolution, new
  <2>3. CASE ~(SameMode(o, new) /\ ~changed)
      BY <2>1, <2>3 DEF setVideoResolution, new
  <2> QED BY <2>2, <2>3
<1> HIDE DEF new
<1>4. told' = [told EXCEPT ![o] = [k \in Kinds |-> IF k \in heard THEN new[k] ELSE @[k]]]
    BY <1>3 DEF Tell
<1>5. asked' \in [Outputs -> Shown \cup {None}] /\ asked'[o] = new /\ new # None
  <2>1. new # None
      BY <1>1
  <2> QED BY <1>1, <1>2, <2>1 DEF IInv, TypeOK
<1>6. told' \in [Outputs -> Told]
  <2>1. told[o] \in Told
      BY DEF IInv, TypeOK
  <2>2. [k \in Kinds |-> IF k \in heard THEN new[k] ELSE told[o][k]] \in Told
      BY <1>1, <2>1 DEF Told, Shown, Kinds
  <2> QED BY <1>4, <2>2 DEF IInv, TypeOK
<1>7. lost' \in 0 .. MaxLost
    BY <1>3 DEF Tell, IInv, TypeOK
<1>8. CASE SameMode(o, new) /\ ~changed
  <2>1. CacheInv'
    <3> SUFFICES ASSUME NEW p \in Outputs, owner' = p, p \in complete'
                 PROVE  /\ asked'[p] # None
                        /\ \A k \in Kinds : told'[p][k] = asked'[p][k]
                        /\ mode' = [colour |-> asked'[p].colour, hdr |-> asked'[p].hdr]
                        /\ setting'[p].resolution = asked'[p].resolution
        BY DEF CacheInv
    <3>1. /\ asked[p] # None /\ \A k \in Kinds : told[p][k] = asked[p][k]
          /\ mode = [colour |-> asked[p].colour, hdr |-> asked[p].hdr]
          /\ setting[p].resolution = asked[p].resolution
        BY <1>3, <1>8 DEF IInv, CacheInv
    <3>2. CASE p # o
        BY <1>2, <1>3, <1>4, <1>8, <3>1, <3>2 DEF IInv, TypeOK
    <3>3. CASE p = o
      <4>1. asked[o] \in Shown
          BY <3>1, <3>3 DEF IInv, TypeOK
      <4>2. /\ new.resolution = asked[o].resolution
            /\ new.colour = asked[o].colour /\ new.hdr = asked[o].hdr
          BY <1>8, <3>1, <3>3 DEF SameMode
      <4>3. new = asked[o]
          BY <1>1, <4>1, <4>2 DEF Shown
      <4>4. asked' = asked
          BY <1>2, <4>3 DEF IInv, TypeOK
      <4>5. told'[o] = [k \in Kinds |-> IF k \in heard THEN new[k] ELSE told[o][k]]
          BY <1>4 DEF IInv, TypeOK
      <4>6. \A k \in Kinds : told'[o][k] = asked[o][k]
          BY <3>1, <3>3, <4>3, <4>5
      <4> QED BY <1>3, <1>8, <3>1, <3>3, <4>4, <4>6
    <3> QED BY <3>2, <3>3
  <2> QED BY <1>3, <1>5, <1>6, <1>7, <1>8, <2>1 DEF IInv, TypeOK, Kinds
<1>9. CASE ~(SameMode(o, new) /\ ~changed)
  <2>1. setting' \in [Outputs -> Settings]
    <3>1. [setting[o] EXCEPT !.resolution = new.resolution] \in Settings
        BY <1>1 DEF IInv, TypeOK, Settings, Shown
    <3> QED BY <1>3, <1>9, <3>1 DEF IInv, TypeOK
  <2>2. mode' \in [colour : Modes, hdr : 0 .. 2]
      BY <1>1, <1>3, <1>9 DEF Shown
  <2>3. CacheInv'
    <3> SUFFICES ASSUME NEW p \in Outputs, owner' = p, p \in complete'
                 PROVE  /\ asked'[p] # None
                        /\ \A k \in Kinds : told'[p][k] = asked'[p][k]
                        /\ mode' = [colour |-> asked'[p].colour, hdr |-> asked'[p].hdr]
                        /\ setting'[p].resolution = asked'[p].resolution
        BY DEF CacheInv
    <3>1. p = o /\ heard = Kinds
        BY <1>3, <1>9
    <3>2. told'[o] = [k \in Kinds |-> IF k \in heard THEN new[k] ELSE told[o][k]]
        BY <1>4 DEF IInv, TypeOK
    <3>3. \A k \in Kinds : told'[o][k] = new[k]
        BY <3>1, <3>2
    <3>4. setting'[o].resolution = new.resolution
        BY <1>3, <1>9 DEF IInv, TypeOK, Settings
    <3> QED BY <1>3, <1>5, <1>9, <3>1, <3>3, <3>4
  <2> QED BY <1>3, <1>5, <1>6, <1>7, <1>9, <2>1, <2>2, <2>3 DEF IInv, TypeOK
<1> QED BY <1>8, <1>9

(* A call that tells nothing and leaves the cache leaves what is known of  *)
(* it.                                                                     *)
LEMMA SilentStep ==
    ASSUME IInv, Silent, mode' = mode, setting' \in [Outputs -> Settings],
           \A o \in Outputs : setting'[o].resolution = setting[o].resolution
    PROVE  /\ asked' \in [Outputs -> Shown \cup {None}]
           /\ told' \in [Outputs -> Told]
           /\ sent' \subseteq Kinds /\ complete' \subseteq Outputs /\ owner' \in Outputs \cup {None}
           /\ mode' \in [colour : Modes, hdr : 0 .. 2] \cup {None}
           /\ lost' \in 0 .. MaxLost
           /\ CacheInv'
<1>1. CacheInv'
    BY DEF IInv, Silent, CacheInv
<1> QED BY <1>1 DEF IInv, Silent, TypeOK

-----------------------------------------------------------------------------
(* Each action preserves the invariant.                                    *)

(* setHdmiSettingsCallback and get_resolution_mask touch neither.          *)
LEMMA QuietCallsStep ==
    ASSUME IInv, setHdmiSettingsCallback \/ get_resolution_mask
    PROVE  IInv'
<1>1. /\ Silent /\ mode' = mode /\ setting' = setting /\ calls' = calls /\ restarts' = restarts
      /\ UNCHANGED <<crtcKnown, mask, edidT, stateChanged>>
      /\ mCallback' \in BOOLEAN /\ deal' \subseteq Outputs
    BY DEF setHdmiSettingsCallback, get_resolution_mask, process, IInv, TypeOK
<1> QED BY <1>1, SilentStep DEF IInv, TypeOK

(* The step setEDIDInfoMore keeps the invariant.                           *)
LEMMA SetEDIDInfoMoreStep ==
    ASSUME IInv, NEW o \in Outputs, NEW sink \in EdidSinks, setEDIDInfoMore(o, sink)
    PROVE  IInv'
<1>1. sink \in Sinks /\ MaskOf(sink) \in Masks
    BY MaskType
<1>2. /\ edidT' \in [Outputs -> Sinks] /\ mask' \in [Outputs -> Masks]
      /\ crtcKnown' \subseteq Outputs /\ mCallback' \in BOOLEAN /\ deal' \subseteq Outputs
      /\ calls' \in 0 .. MaxCalls /\ restarts' \in 0 .. MaxRestarts
    BY <1>1 DEF setEDIDInfoMore, Call, IInv, TypeOK
<1>3. CASE Connected(sink)
  <2>1. setVideoResolution(o, MaskOf(sink), sink, setting[o].resolution, TRUE)
      BY <1>3 DEF setEDIDInfoMore
  <2>2. setting[o].resolution \in Nat
      BY DEF IInv, TypeOK, Settings
  <2> QED BY <1>1, <1>2, <2>1, <2>2, SetVideoResolutionStep DEF IInv, TypeOK
<1>4. CASE ~Connected(sink)
  <2>1. Silent /\ UNCHANGED <<setting, mode, stateChanged>>
      BY <1>4 DEF setEDIDInfoMore
  <2> QED BY <1>2, <2>1, SilentStep DEF IInv, TypeOK
<1> QED BY <1>3, <1>4

(* The mask refreshEdid keeps is a mask.                                   *)
LEMMA RefreshedType ==
    ASSUME TypeOK, NEW m \in Masks
    PROVE  getResolutionMask([mask EXCEPT !["hdmi"] = m]) \in Masks
BY MaskType DEF getResolutionMask, Dealt, TypeOK, Outputs

(* The step setEDIDInfo keeps the invariant.                               *)
LEMMA SetEDIDInfoStep ==
    ASSUME IInv, NEW m \in Masks, setEDIDInfo(m)
    PROVE  IInv'
<1> DEFINE refreshed == getResolutionMask([mask EXCEPT !["hdmi"] = m])
<1>1. refreshed \in Masks
    BY RefreshedType DEF IInv
<1>2. CASE Connected(m)
  <2>1. /\ mask' = [mask EXCEPT !["hdmi"] = refreshed]
        /\ deal' = deal \ {Dealt} /\ crtcKnown' = crtcKnown
        /\ setVideoResolution("hdmi", refreshed, edidT["hdmi"], setting["hdmi"].resolution, TRUE)
      BY <1>2 DEF setEDIDInfo
  <2>2. /\ edidT' \in [Outputs -> Sinks] /\ mCallback' \in BOOLEAN
        /\ calls' \in 0 .. MaxCalls /\ restarts' \in 0 .. MaxRestarts
      BY DEF setEDIDInfo, Call, IInv, TypeOK
  <2>3. "hdmi" \in Outputs /\ setting["hdmi"].resolution \in Nat /\ edidT["hdmi"] \in Sinks
      BY DEF IInv, TypeOK, Settings, Outputs
  <2> HIDE DEF refreshed
  <2>4. mask' \in [Outputs -> Masks] /\ crtcKnown' \subseteq Outputs /\ deal' \subseteq Outputs
      BY <1>1, <2>1 DEF IInv, TypeOK
  <2> QED BY <1>1, <2>1, <2>2, <2>3, <2>4, SetVideoResolutionStep DEF IInv, TypeOK
<1>3. CASE ~Connected(m)
  <2>1. /\ mask' = [mask EXCEPT !["hdmi"] = m]
        /\ UNCHANGED <<crtcKnown, setting, mode, stateChanged, deal>> /\ Silent
      BY <1>3 DEF setEDIDInfo
  <2>2. /\ edidT' \in [Outputs -> Sinks] /\ mCallback' \in BOOLEAN
        /\ calls' \in 0 .. MaxCalls /\ restarts' \in 0 .. MaxRestarts
      BY DEF setEDIDInfo, Call, IInv, TypeOK
  <2> QED BY <2>1, <2>2, SilentStep DEF IInv, TypeOK
<1> QED BY <1>2, <1>3

(* The step set_video_resolution keeps the invariant.                      *)
LEMMA SetVideoResolutionCallStep ==
    ASSUME IInv, NEW resolution \in Resolutions, set_video_resolution(resolution)
    PROVE  IInv'
<1>1. /\ edidT' \in [Outputs -> Sinks] /\ mask' \in [Outputs -> Masks]
      /\ crtcKnown' \subseteq Outputs /\ mCallback' \in BOOLEAN /\ deal' \subseteq Outputs
      /\ calls' \in 0 .. MaxCalls /\ restarts' \in 0 .. MaxRestarts
    BY DEF set_video_resolution, Call, IInv, TypeOK
<1>2. resolution \in Nat
    OBVIOUS
<1>3. CASE Dealt = None
  <2>1. Silent /\ UNCHANGED <<setting, mode, stateChanged>>
      BY <1>3 DEF set_video_resolution
  <2> QED BY <1>1, <2>1, SilentStep DEF IInv, TypeOK
<1>4. CASE Dealt # None
  <2>1. \E changed \in BOOLEAN :
           setVideoResolution(Dealt, mask[Dealt], edidT[Dealt], resolution, changed)
    <3>1. CASE Dealt \in stateChanged
      <4>1. setVideoResolution(Dealt, mask[Dealt], edidT[Dealt], resolution, TRUE)
          BY <1>4, <3>1 DEF set_video_resolution, setVideoResolution
      <4> QED BY <4>1
    <3>2. CASE Dealt \notin stateChanged
      <4>1. setVideoResolution(Dealt, mask[Dealt], edidT[Dealt], resolution, FALSE)
          BY <1>4, <3>2 DEF set_video_resolution, setVideoResolution
      <4> QED BY <4>1
    <3> QED BY <3>1, <3>2
  <2>2. Dealt \in Outputs
      BY <1>4 DEF Dealt, Outputs
  <2>3. mask[Dealt] \in Masks /\ edidT[Dealt] \in Sinks
      BY <2>2 DEF IInv, TypeOK
  <2> QED BY <1>1, <1>2, <2>1, <2>2, <2>3, SetVideoResolutionStep DEF IInv, TypeOK
<1> QED BY <1>3, <1>4

(* What the user chooses does not touch the resolution last shown.         *)
LEMMA SetPropertyStep ==
    ASSUME IInv, NEW o \in Outputs, NEW property \in {"auto", "space", "depth", "hdr", "dv"},
           NEW value,
           property \in {"auto", "hdr", "dv"} => value \in BOOLEAN,
           property = "space" => value \in SetSpaces,
           property = "depth" => value \in SetDepths,
           SetProperty(o, property, value)
    PROVE  IInv'
<1>1. /\ Silent /\ UNCHANGED <<process, deal>>
      /\ calls' \in 0 .. MaxCalls /\ restarts' \in 0 .. MaxRestarts
      /\ setting' = [setting EXCEPT ![o][property] = value]
    BY DEF SetProperty, Call, IInv, TypeOK
<1>2. setting[o] \in Settings
    BY DEF IInv, TypeOK
<1>3. /\ [setting[o] EXCEPT ![property] = value] \in Settings
      /\ [setting[o] EXCEPT ![property] = value].resolution = setting[o].resolution
  <2>1. CASE property = "auto"
      BY <1>2, <2>1 DEF Settings
  <2>2. CASE property = "space"
      BY <1>2, <2>2 DEF Settings
  <2>3. CASE property = "depth"
      BY <1>2, <2>3 DEF Settings
  <2>4. CASE property = "hdr"
      BY <1>2, <2>4 DEF Settings
  <2>5. CASE property = "dv"
      BY <1>2, <2>5 DEF Settings
  <2> QED BY <2>1, <2>2, <2>3, <2>4, <2>5
<1>4. /\ setting' \in [Outputs -> Settings]
      /\ \A p \in Outputs : setting'[p].resolution = setting[p].resolution
    BY <1>1, <1>3 DEF IInv, TypeOK
<1> QED BY <1>1, <1>4, SilentStep DEF IInv, TypeOK, process

(* The step setHdmiModeValues keeps the invariant.                         *)
LEMMA SetHdmiModeValuesStep ==
    ASSUME IInv, setHdmiModeValues
    PROVE  IInv'
<1>1. ASSUME NEW on \in BOOLEAN, NEW o \in Outputs, NEW property \in SetSwitches,
             SetProperty(o, property, on)
      PROVE  IInv'
    BY <1>1, SetPropertyStep
<1>2. ASSUME NEW on \in BOOLEAN, SetProperty("dp", "auto", on)
      PROVE  IInv'
    BY <1>2, SetPropertyStep DEF Outputs
<1>3. ASSUME NEW space \in SetSpaces, SetProperty("dp", "space", space)
      PROVE  IInv'
    BY <1>3, SetPropertyStep DEF Outputs
<1>4. ASSUME NEW depth \in SetDepths, SetProperty("dp", "depth", depth)
      PROVE  IInv'
    BY <1>4, SetPropertyStep DEF Outputs
<1>5. ASSUME NEW o \in Outputs, NEW on \in BOOLEAN,
             Call, deal' = IF on THEN deal \cup {o} ELSE deal \ {o},
             UNCHANGED <<process, setting>>, Silent
      PROVE  IInv'
  <2>1. /\ calls' \in 0 .. MaxCalls /\ restarts' \in 0 .. MaxRestarts /\ deal' \subseteq Outputs
      BY <1>5 DEF Call, IInv, TypeOK
  <2> QED BY <1>5, <2>1, SilentStep DEF IInv, TypeOK, process
<1> QED BY <1>1, <1>2, <1>3, <1>4, <1>5 DEF setHdmiModeValues

(* The step Restart keeps the invariant: no output has stored its mode.    *)
LEMMA RestartStep ==
    ASSUME IInv, Restart
    PROVE  IInv'
<1>1. CacheInv'
    BY DEF Restart, CacheInv
<1>2. mask' \in [Outputs -> Masks] /\ edidT' \in [Outputs -> Sinks]
    BY MaskType DEF Restart
<1>3. mCallback' \in BOOLEAN
    BY DEF Restart
<1>4. restarts' \in 0 .. MaxRestarts
    BY DEF Restart, IInv, TypeOK
<1>5. TypeOK'
    BY <1>2, <1>3, <1>4 DEF Restart, IInv, TypeOK
<1> QED BY <1>1, <1>5 DEF IInv

-----------------------------------------------------------------------------
(* The invariant holds.                                                    *)

(* It holds initially.                                                     *)
LEMMA InitIInv == Init => IInv
<1> SUFFICES ASSUME Init PROVE IInv
    OBVIOUS
<1>1. setting \in [Outputs -> Settings]
    BY DEF Init, Settings, ColorDepths, DeepColors
<1>2. mask \in [Outputs -> Masks] /\ edidT \in [Outputs -> Sinks]
    BY MaskType DEF Init
<1>3. told \in [Outputs -> Told]
  <2>1. [k \in Kinds |-> None] \in Told
      BY DEF Told, Kinds
  <2> QED BY <2>1 DEF Init
<1>4. mCallback \in BOOLEAN
    BY DEF Init
<1>5. TypeOK
    BY <1>1, <1>2, <1>3, <1>4 DEF Init, TypeOK
<1>6. CacheInv
    BY DEF Init, CacheInv
<1> QED BY <1>5, <1>6 DEF IInv

(* Every step keeps it.                                                    *)
LEMMA NextIInv == IInv /\ [Next]_vars => IInv'
<1> SUFFICES ASSUME IInv, [Next]_vars PROVE IInv'
    OBVIOUS
<1>1. CASE setHdmiSettingsCallback
    BY <1>1, QuietCallsStep
<1>2. CASE get_resolution_mask
    BY <1>2, QuietCallsStep
<1>3. ASSUME NEW o \in Outputs, NEW sink \in EdidSinks, setEDIDInfoMore(o, sink) PROVE IInv'
    BY <1>3, SetEDIDInfoMoreStep
<1>4. ASSUME NEW sink \in EdidSinks, setEDIDInfo(MaskOf(sink)) PROVE IInv'
    BY <1>4, SetEDIDInfoStep, MaskType
<1>5. ASSUME NEW resolution \in Resolutions, set_video_resolution(resolution) PROVE IInv'
    BY <1>5, SetVideoResolutionCallStep
<1>6. ASSUME NEW enable \in BOOLEAN, set_auto_mode(enable) PROVE IInv'
    BY <1>6, SetPropertyStep DEF set_auto_mode, Outputs
<1>7. ASSUME NEW space \in SetSpaces, set_color_format(space) PROVE IInv'
    BY <1>7, SetPropertyStep DEF set_color_format, Outputs
<1>8. ASSUME NEW depth \in SetDepths, set_color_depth(depth) PROVE IInv'
    BY <1>8, SetPropertyStep DEF set_color_depth, Outputs
<1>9. CASE setHdmiModeValues
    BY <1>9, SetHdmiModeValuesStep
<1>10. CASE Restart
    BY <1>10, RestartStep
<1>11. CASE UNCHANGED vars
    BY <1>11 DEF vars, process, IInv, TypeOK, CacheInv
<1> QED BY <1>1, <1>2, <1>3, <1>4, <1>5, <1>6, <1>7, <1>8, <1>9, <1>10, <1>11 DEF Next

(* The inductive invariant holds in every behaviour.                       *)
THEOREM Invariance == Spec => []IInv
<1> QED BY InitIInv, NextIInv, PTL DEF Spec

(* Every variable keeps its type: no mode outside those the callback knows *)
(* is stored or told.                                                      *)
THEOREM TypeCorrect == Spec => []TypeOK
<1>1. IInv => TypeOK
    BY DEF IInv
<1> QED BY <1>1, Invariance, PTL

(* An output whose mode the shared variables hold shows what was last      *)
(* wanted of it: a call skipped as "the same" changes nothing.             *)
THEOREM ToldUnlessSharedHolds == Spec => []ToldUnlessShared
<1>1. IInv => ToldUnlessShared
    BY DEF IInv, CacheInv, ToldUnlessShared
<1> QED BY <1>1, Invariance, PTL

-----------------------------------------------------------------------------
(* What a step may not do.                                                 *)

(* A mode wanted anew is the one setVideoResolution arrives at for the     *)
(* mask and the sink the output then has.                                  *)
LEMMA AskedIsFinal ==
    ASSUME IInv, Next, NEW o \in Outputs, asked'[o] # asked[o]
    PROVE  \E resolution \in Nat :
              asked'[o] = FinalMode(o, mask'[o], edidT'[o], resolution)
<1>1. \A p \in Outputs : setting[p].resolution \in Nat
    BY DEF IInv, TypeOK, Settings
<1>2. ~Silent
    BY DEF Silent
<1>3. ASSUME NEW p \in Outputs, NEW sink \in EdidSinks, setEDIDInfoMore(p, sink)
      PROVE  \E resolution \in Nat : asked'[o] = FinalMode(o, mask'[o], edidT'[o], resolution)
  <2>1. asked' = [asked EXCEPT ![p] = FinalMode(p, MaskOf(sink), sink, setting[p].resolution)]
      BY <1>2, <1>3 DEF setEDIDInfoMore, setVideoResolution
  <2>2. mask'[p] = MaskOf(sink) /\ edidT'[p] = sink
      BY <1>3 DEF setEDIDInfoMore, IInv, TypeOK
  <2>3. o = p /\ asked'[o] = FinalMode(o, mask'[o], edidT'[o], setting[o].resolution)
      BY <2>1, <2>2 DEF IInv, TypeOK
  <2> QED BY <1>1, <2>3
<1>4. ASSUME NEW m \in Masks, setEDIDInfo(m)
      PROVE  \E resolution \in Nat : asked'[o] = FinalMode(o, mask'[o], edidT'[o], resolution)
  <2> DEFINE refreshed == getResolutionMask([mask EXCEPT !["hdmi"] = m])
  <2>1. asked' = [asked EXCEPT !["hdmi"] = FinalMode("hdmi", refreshed, edidT["hdmi"],
                                                      setting["hdmi"].resolution)]
      BY <1>2, <1>4 DEF setEDIDInfo, setVideoResolution
  <2>2. mask' = [mask EXCEPT !["hdmi"] = refreshed] /\ edidT' = edidT
      BY <1>2, <1>4 DEF setEDIDInfo
  <2> HIDE DEF refreshed
  <2>3. "hdmi" \in Outputs /\ mask'["hdmi"] = refreshed
      BY <2>2 DEF IInv, TypeOK, Outputs
  <2>4. o = "hdmi" /\ asked'[o] = FinalMode(o, mask'[o], edidT'[o], setting[o].resolution)
      BY <2>1, <2>2, <2>3 DEF IInv, TypeOK
  <2> QED BY <1>1, <2>4
<1>5. ASSUME NEW resolution \in Resolutions, set_video_resolution(resolution)
      PROVE  \E r \in Nat : asked'[o] = FinalMode(o, mask'[o], edidT'[o], r)
  <2>1. Dealt # None
      BY <1>2, <1>5 DEF set_video_resolution
  <2>2. Dealt \in Outputs
      BY <2>1 DEF Dealt, Outputs
  <2>3. asked' = [asked EXCEPT ![Dealt] =
                     FinalMode(Dealt, mask[Dealt], edidT[Dealt], resolution)]
      BY <1>5, <2>1 DEF set_video_resolution, setVideoResolution
  <2>4. mask' = mask /\ edidT' = edidT /\ resolution \in Nat
      BY <1>5 DEF set_video_resolution
  <2>5. o = Dealt /\ asked'[o] = FinalMode(o, mask[o], edidT[o], resolution)
      BY <2>2, <2>3 DEF IInv, TypeOK
  <2> QED BY <2>4, <2>5
<1>6. ASSUME NEW p, NEW property, NEW value, SetProperty(p, property, value)
      PROVE  FALSE
    BY <1>2, <1>6 DEF SetProperty
<1> QED
    BY <1>2, <1>3, <1>4, <1>5, <1>6, MaskType
       DEF Next, setHdmiSettingsCallback, get_resolution_mask, set_auto_mode, set_color_format,
           set_color_depth, setHdmiModeValues, Restart

(* Whatever the order of sinks, choices and calls, the mode wanted fits    *)
(* the sink as far as the service was told of it.                          *)
THEOREM ModesFitSinkHolds == Spec => ModesFitSink
<1>1. ASSUME IInv, [Next]_vars
      PROVE  [\A o \in Outputs : asked'[o] # asked[o] =>
                Fits(edidT'[o], asked'[o].resolution, setting[o].depth, asked'[o].colour)]_vars
  <2> SUFFICES ASSUME Next, NEW o \in Outputs, asked'[o] # asked[o]
               PROVE  Fits(edidT'[o], asked'[o].resolution, setting[o].depth, asked'[o].colour)
      BY <1>1
  <2>1. PICK resolution \in Nat : asked'[o] = FinalMode(o, mask'[o], edidT'[o], resolution)
      BY <1>1, AskedIsFinal
  <2>2. mask'[o] \in Masks /\ edidT'[o] \in Sinks
      BY <1>1, NextIInv DEF IInv, TypeOK
  <2> QED BY <1>1, <2>1, <2>2, FinalModeFits DEF IInv
<1> QED BY <1>1, Invariance, PTL DEF Spec, ModesFitSink

(* In automatic mode an output is never asked for a resolution its sink    *)
(* does not list, while there is a preferred one it lists.                 *)
THEOREM AutoIsListedHolds == Spec => AutoIsListed
<1>1. ASSUME IInv, [Next]_vars
      PROVE  [\A o \in Outputs :
                asked'[o] # asked[o] /\ setting[o].auto /\ mask'[o].modes \cap Prefered # {}
                   => asked'[o].resolution \in mask'[o].modes]_vars
  <2> SUFFICES ASSUME Next, NEW o \in Outputs, asked'[o] # asked[o], setting[o].auto,
                      mask'[o].modes \cap Prefered # {}
               PROVE  asked'[o].resolution \in mask'[o].modes
      BY <1>1
  <2>1. PICK resolution \in Nat : asked'[o] = FinalMode(o, mask'[o], edidT'[o], resolution)
      BY <1>1, AskedIsFinal
  <2> DEFINE m      == mask'[o]
             chosen == getSuitableResolution(m, resolution)
  <2>2. m \in Masks
      BY <1>1, NextIInv DEF IInv, TypeOK
  <2>3. chosen \in m.modes
      BY <2>2, SuitableIsListed
  <2>4. chosen \in 0 .. 34
    <3> HIDE DEF chosen, m
    <3> QED BY <2>2, <2>3 DEF Masks
  <2>5. asked'[o].resolution = IF chosen >= AUTO_RESOLUTION THEN chosen - AUTO_RESOLUTION ELSE chosen
      BY <2>1 DEF FinalMode, ChosenResolution
  <2> HIDE DEF chosen, m
  <2>6. asked'[o].resolution = chosen
      BY <2>4, <2>5 DEF AUTO_RESOLUTION
  <2> QED BY <2>3, <2>6 DEF m
<1> QED BY <1>1, Invariance, PTL DEF Spec, AutoIsListed

(* No sink that differs from the one before goes untold because the mode   *)
(* chosen for it is the same.                                              *)
THEOREM NewSinkToldHolds == Spec => NewSinkTold
<1>1. ASSUME IInv, [Next]_vars
      PROVE  [\A o \in Outputs : mask'[o] # mask[o] /\ Connected(mask'[o]) => sent' = Kinds]_vars
  <2> SUFFICES ASSUME Next, NEW o \in Outputs, mask'[o] # mask[o], Connected(mask'[o])
               PROVE  sent' = Kinds
      BY <1>1
  <2>1. ASSUME NEW p, NEW m, NEW sink, NEW resolution,
               setVideoResolution(p, m, sink, resolution, TRUE)
        PROVE  sent' = Kinds
      BY <2>1 DEF setVideoResolution
  <2>2. mask' # mask
      OBVIOUS
  <2>3. ASSUME NEW p \in Outputs, NEW sink \in EdidSinks, setEDIDInfoMore(p, sink)
        PROVE  sent' = Kinds
    <3>1. p = o /\ mask'[o] = MaskOf(sink)
        BY <1>1, <2>3 DEF setEDIDInfoMore, IInv, TypeOK
    <3>2. Connected(sink)
        BY <3>1 DEF Connected, MaskOf
    <3> QED BY <2>1, <2>3, <3>2 DEF setEDIDInfoMore
  <2>4. ASSUME NEW m \in Masks, setEDIDInfo(m)
        PROVE  sent' = Kinds
    <3>1. CASE Connected(m)
        BY <2>1, <2>4, <3>1 DEF setEDIDInfo
    <3>2. CASE ~Connected(m)
      <4>1. mask' = [mask EXCEPT !["hdmi"] = m]
          BY <2>4, <3>2 DEF setEDIDInfo
      <4>2. mask'[o] = m
          BY <1>1, <4>1 DEF IInv, TypeOK
      <4> QED BY <3>2, <4>2
    <3> QED BY <3>1, <3>2
  <2>5. ~Restart
      BY DEF Restart, Connected, NoMask
  <2>6. ASSUME NEW p, NEW property, NEW value, SetProperty(p, property, value)
        PROVE  FALSE
      BY <2>2, <2>6 DEF SetProperty, process
  <2> QED
      BY <2>2, <2>3, <2>4, <2>5, <2>6, MaskType
         DEF Next, setHdmiSettingsCallback, get_resolution_mask, set_video_resolution, set_auto_mode,
             set_color_format, set_color_depth, setHdmiModeValues, process
<1> QED BY <1>1, Invariance, PTL DEF Spec, NewSinkTold
=============================================================================
