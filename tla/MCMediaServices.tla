---------------------------- MODULE MCMediaServices ----------------------------
(* Small instances of MediaServices for TLC.                                *)
EXTENDS MediaServices

MCRow(size, fps) == [w |-> size[1], h |-> size[2], fps |-> fps]

(* Landscape and portrait, two sizes of close ratio that cross, a bound     *)
(* below, between and above the rates, and a row that is refused.           *)
MCRows ==
    {MCRow(size, fps) : size \in {<<320, 240>>, <<720, 1280>>, <<1915, 1090>>, <<1920, 1080>>},
                        fps \in {-1, 24, 60, 100}} \cup {MCRow(<<640, 480>>, MaxFps)}
MCFileRows == UNION {[1 .. n -> MCRows] : n \in 0 .. 3}
===============================================================================
