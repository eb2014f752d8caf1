----------------------------- MODULE MediaServices -----------------------------
(***************************************************************************)
(* Six parts of the HDMI services that share no state with each other:     *)
(* the TV input HAL, the image conversion, the OP-TEE sessions, the tables *)
(* of a capture session, the formats a camera offers, and the CEC service. *)
(* A behaviour picks one of them and exercises it, so that one instance    *)
(* checks them all; the others stay as they begin.                         *)
(***************************************************************************)
EXTENDS TvInput, ImageConversion, HdcpKeys, StreamTables, SupportedFormats, CecService

VARIABLE part        \* the part this behaviour is about

Parts == {"tv", "image", "keys", "tables", "formats", "cec"}

partsVars == <<tvVars, imageVars, keyVars, tableVars, formatVars, cecVars>>
vars == <<part, partsVars>>

Init ==
    /\ part \in Parts
    /\ TvInit /\ ImageInit /\ KeyInit /\ TablesInit /\ FormatsInit /\ CecInit

Tv ==
    /\ part = "tv"
    /\ UNCHANGED <<part, imageVars, keyVars, tableVars, formatVars, cecVars>>
Image ==
    /\ part = "image"
    /\ UNCHANGED <<part, tvVars, keyVars, tableVars, formatVars, cecVars>>
Keys ==
    /\ part = "keys"
    /\ UNCHANGED <<part, tvVars, imageVars, tableVars, formatVars, cecVars>>
Tables ==
    /\ part = "tables"
    /\ UNCHANGED <<part, tvVars, imageVars, keyVars, formatVars, cecVars>>
Formats ==
    /\ part = "formats"
    /\ UNCHANGED <<part, tvVars, imageVars, keyVars, tableVars, cecVars>>
Cec ==
    /\ part = "cec"
    /\ UNCHANGED <<part, tvVars, imageVars, keyVars, tableVars, formatVars>>

Next ==
    \/ Tv /\ TvNext
    \/ Image /\ ImageNext
    \/ Keys /\ KeyNext
    \/ Tables /\ TablesNext
    \/ Formats /\ FormatsNext
    \/ Cec /\ CecNext

(* A player thread runs while its process does; nobody has to call.        *)
Spec ==
    /\ Init /\ [][Next]_vars
    /\ \A p \in Players : WF_vars(Tv /\ tvDied = "no" /\ PlayerSteps(p))

TypeOK ==
    /\ part \in Parts
    /\ TvTypeOK /\ ImageTypeOK /\ KeyTypeOK /\ TablesTypeOK /\ FormatsTypeOK
    /\ CecTypeOK
===============================================================================
