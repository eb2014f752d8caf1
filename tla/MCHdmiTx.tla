------------------------------ MODULE MCHdmiTx ------------------------------
(* Sinks for HdmiTx: none, a television that does 4k60 by YCbCr 4:2:0 and  *)
(* one that does 4k30; neither has the clock for 12 bits at its best.      *)
EXTENDS HdmiTx, TLC

MCSink(modes, colorimetry, b444, brgb, b420, rate, clock) ==
    [modes |-> modes, colorimetry |-> colorimetry,
     bits |-> ("444" :> b444 @@ "rgb" :> brgb @@ "420" :> b420),
     hdr |-> {}, rate |-> rate, clock |-> clock]

Tv4k60 == MCSink({27, 25, 13, 4}, {"rgb", "444", "422", "420"}, {10, 12}, {10}, {10, 12}, 400, 300)
Tv4k30 == MCSink({25, 13, 12}, {"rgb", "444", "422"}, {10, 12}, {12}, {}, 0, 400)

MCSinks == {NoSink, Tv4k60, Tv4k30}
MCOneSink == {Tv4k30}
=============================================================================
