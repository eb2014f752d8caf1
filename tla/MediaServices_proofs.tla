------------------------- MODULE MediaServices_proofs -------------------------
(***************************************************************************)
(* Proofs about the parts MediaServices checks, for any bounds, any        *)
(* streams and any buffers.  The steps of each part are proved to keep its *)
(* invariant; a behaviour of MediaServices takes the steps of one part and *)
(* leaves the rest alone.                                                  *)
(***************************************************************************)
EXTENDS MediaServices, CecService_proofs, SupportedFormats_proofs

-----------------------------------------------------------------------------
(* The OP-TEE sessions.  Where a call of a service is tells whether there  *)
(* is a connection and how far its commands are; a call makes one context  *)
(* at most, so that there are never more than calls.                       *)
KeyCalls == [at : {"idle", "connect", "invoke", "close"}, done : 0 .. 2,
             result : {"ok", "no connection", "refused", "false"}]

KeyTypes ==
    /\ isConnected \in [Services -> BOOLEAN]
    /\ contexts \in [Services -> Nat] /\ unopened \in [Services -> Nat]
    /\ keyCall \in [Services -> KeyCalls]
    /\ keyCalls \in [Services -> 0 .. MaxKeyCalls]

Connections(s) == IF isConnected[s] THEN 1 ELSE 0

KeyCounts(s) ==
    /\ contexts[s] = unopened[s] + Connections(s)
    /\ contexts[s] <= keyCalls[s]
    /\ keyCall[s].at = "connect" /\ ~isConnected[s] => contexts[s] < keyCalls[s]

KeyPlace(s) ==
    /\ keyCall[s].at = "idle" => ~isConnected[s]
    /\ keyCall[s].at = "invoke" => isConnected[s]
    /\ keyCall[s].at \in {"connect", "invoke"} => keyCall[s].result = "ok" /\ keyCall[s].done < 2
    /\ keyCall[s].at = "close" \/ (keyCall[s].at = "idle" /\ keyCalls[s] > 0)
       => (keyCall[s].result = "ok" => keyCall[s].done = 2)

KeyInv == KeyTypes /\ \A s \in Services : KeyCounts(s) /\ KeyPlace(s)

LEMMA TwoCommands ==
    ASSUME NEW s \in Services PROVE Len(Commands[s]) = 2
BY DEF Services, Commands

LEMMA KeyInvInit ==
    ASSUME KeyInit PROVE KeyInv
<1>1. KeyTypes
    BY KeyAssumption DEF KeyInit, KeyTypes, KeyCalls, NoKeyCall, Services
<1>2. ASSUME NEW s \in Services PROVE KeyCounts(s) /\ KeyPlace(s)
    BY <1>2 DEF KeyInit, KeyCounts, KeyPlace, Connections, NoKeyCall
<1> QED BY <1>1, <1>2 DEF KeyInv

(* The service whose call makes no step keeps what is known of it.         *)
SameKeys(s) ==
    /\ isConnected'[s] = isConnected[s] /\ contexts'[s] = contexts[s]
    /\ unopened'[s] = unopened[s] /\ keyCall'[s] = keyCall[s] /\ keyCalls'[s] = keyCalls[s]

LEMMA SameKeysKept ==
    ASSUME NEW s \in Services, KeyCounts(s), KeyPlace(s), SameKeys(s)
    PROVE  KeyCounts(s)' /\ KeyPlace(s)'
BY DEF KeyCounts, KeyPlace, Connections, SameKeys

LEMMA KeyInvStarts ==
    ASSUME KeyInv, NEW s \in Services, KeyCallStarts(s) PROVE KeyInv'
<1> USE KeyAssumption
<1>1. KeyTypes /\ KeyCounts(s) /\ KeyPlace(s) /\ keyCall[s].at = "idle" /\ keyCalls[s] < MaxKeyCalls
    BY DEF KeyInv, KeyCallStarts
<1>2. /\ keyCall' = [keyCall EXCEPT ![s] = [at |-> "connect", done |-> 0, result |-> "ok"]]
      /\ keyCalls' = [keyCalls EXCEPT ![s] = keyCalls[s] + 1]
      /\ isConnected' = isConnected /\ contexts' = contexts /\ unopened' = unopened
  <2>1. [NoKeyCall EXCEPT !.at = "connect"] = [at |-> "connect", done |-> 0, result |-> "ok"]
      BY DEF NoKeyCall
  <2>2. keyCall' = [keyCall EXCEPT ![s] = [NoKeyCall EXCEPT !.at = "connect"]]
      BY DEF KeyCallStarts
  <2> QED BY <2>1, <2>2, Zenon DEF KeyCallStarts
<1>3. keyCalls[s] \in Nat /\ keyCalls[s] + 1 \in 0 .. MaxKeyCalls
    BY <1>1 DEF KeyTypes
<1>4. [at |-> "connect", done |-> 0, result |-> "ok"] \in KeyCalls
    BY DEF KeyCalls
<1>5. KeyTypes'
    BY <1>1, <1>2, <1>3, <1>4 DEF KeyTypes
<1>6. KeyCounts(s)' /\ KeyPlace(s)'
    BY <1>1, <1>2, <1>3 DEF KeyCounts, KeyPlace, Connections, KeyTypes
<1>7. ASSUME NEW t \in Services, t # s PROVE KeyCounts(t)' /\ KeyPlace(t)'
    BY <1>1, <1>2, <1>7, SameKeysKept DEF SameKeys, KeyInv, KeyTypes
<1> QED BY <1>5, <1>6, <1>7 DEF KeyInv

LEMMA OneService ==
    ASSUME KeyInv, NEW s \in Services, KeyTypes', KeyCounts(s)', KeyPlace(s)',
           \A t \in Services : t # s => SameKeys(t)
    PROVE  KeyInv'
BY SameKeysKept DEF KeyInv

(* What the ends of a call, and a command done, make of it.                *)
CallGoes(s, at, done, result) ==
    /\ keyCall' \in [Services -> KeyCalls]
    /\ keyCall'[s].at = at /\ keyCall'[s].done = done /\ keyCall'[s].result = result
    /\ \A t \in Services : t # s => keyCall'[t] = keyCall[t]

LEMMA CallGoesTo ==
    ASSUME KeyTypes, NEW s \in Services, NEW at \in {"idle", "connect", "invoke", "close"},
           keyCall' = [keyCall EXCEPT ![s].at = at]
    PROVE  CallGoes(s, at, keyCall[s].done, keyCall[s].result)
BY DEF KeyTypes, KeyCalls, CallGoes

LEMMA CallEnds ==
    ASSUME KeyTypes, NEW s \in Services, NEW result \in {"no connection", "refused"},
           KeyCallEnds(s, result)
    PROVE  CallGoes(s, "close", keyCall[s].done, result)
BY DEF KeyTypes, KeyCalls, CallGoes, KeyCallEnds

LEMMA CallAnswers ==
    ASSUME KeyTypes, NEW s \in Services,
           keyCall' = [keyCall EXCEPT ![s].at = "idle", ![s].result = Answer(s)]
    PROVE  CallGoes(s, "idle", keyCall[s].done, Answer(s))
<1>1. Answer(s) \in {"ok", "no connection", "refused", "false"}
    BY DEF KeyTypes, KeyCalls, Answer
<1> QED BY <1>1 DEF KeyTypes, KeyCalls, CallGoes

LEMMA CommandDone ==
    ASSUME KeyTypes, NEW s \in Services, NEW n \in 0 .. 2, NEW at \in {"connect", "close"},
           keyCall' = [keyCall EXCEPT ![s].done = n, ![s].at = at]
    PROVE  CallGoes(s, at, n, keyCall[s].result)
BY DEF KeyTypes, KeyCalls, CallGoes

LEMMA KeyInvCloses ==
    ASSUME KeyInv, NEW s \in Services, optee_hdmi_hdcp_close(s)
    PROVE  /\ isConnected' \in [Services -> BOOLEAN] /\ contexts' \in [Services -> Nat]
           /\ ~isConnected'[s] /\ contexts'[s] = unopened[s]
           /\ \A t \in Services : t # s => isConnected'[t] = isConnected[t] /\ contexts'[t] = contexts[t]
<1>1. KeyTypes /\ KeyCounts(s)
    BY DEF KeyInv
<1>2. CASE ~isConnected[s]
    BY <1>1, <1>2 DEF optee_hdmi_hdcp_close, KeyTypes, KeyCounts, Connections
<1>3. CASE isConnected[s]
  <2>1. contexts[s] - 1 = unopened[s] /\ unopened[s] \in Nat
      BY <1>1, <1>3 DEF KeyTypes, KeyCounts, Connections
  <2>2. contexts' = [contexts EXCEPT ![s] = contexts[s] - 1]
        /\ isConnected' = [isConnected EXCEPT ![s] = FALSE]
      BY <1>3 DEF optee_hdmi_hdcp_close
  <2>3. contexts' = [contexts EXCEPT ![s] = unopened[s]]
      BY <2>1, <2>2
  <2> QED BY <1>1, <2>1, <2>2, <2>3 DEF KeyTypes
<1> QED BY <1>2, <1>3

LEMMA KeyInvEnds ==
    ASSUME KeyInv, NEW s \in Services, KeyCallCloses(s) PROVE KeyInv'
<1>1. KeyTypes /\ KeyCounts(s) /\ KeyPlace(s) /\ keyCall[s].at = "close"
    BY DEF KeyInv, KeyCallCloses
<1>2. /\ CallGoes(s, "idle", keyCall[s].done, Answer(s))
      /\ Answer(s) = "ok" => keyCall[s].result = "ok"
    BY <1>1, CallAnswers DEF KeyCallCloses, Answer
<1>3. /\ isConnected' \in [Services -> BOOLEAN] /\ contexts' \in [Services -> Nat]
      /\ ~isConnected'[s] /\ contexts'[s] = unopened[s]
      /\ \A t \in Services : t # s => isConnected'[t] = isConnected[t] /\ contexts'[t] = contexts[t]
    BY KeyInvCloses DEF KeyCallCloses
<1>4. keyCalls' = keyCalls /\ unopened' = unopened
    BY DEF KeyCallCloses
<1>5. unopened[s] <= keyCalls[s] /\ unopened[s] \in Nat
    BY <1>1 DEF KeyCounts, KeyTypes, Connections
<1>6. KeyCounts(s)' /\ KeyPlace(s)'
    BY <1>1, <1>2, <1>3, <1>4, <1>5 DEF KeyCounts, KeyPlace, Connections, CallGoes
<1>7. KeyTypes'
    BY <1>1, <1>2, <1>3, <1>4 DEF KeyTypes, CallGoes
<1> QED BY <1>2, <1>3, <1>4, <1>6, <1>7, OneService DEF SameKeys, CallGoes

LEMMA KeyInvCall ==
    ASSUME KeyInv, NEW s \in Services, optee_hdmi_hdcp_call(s) PROVE KeyInv'
<1>1. /\ KeyTypes /\ KeyCounts(s) /\ KeyPlace(s) /\ keyCall[s].at = "invoke"
      /\ keyCalls' = keyCalls /\ unopened' = unopened
    BY DEF KeyInv, optee_hdmi_hdcp_call
<1>2. /\ isConnected[s] /\ keyCall[s].result = "ok"
      /\ keyCall[s].done \in 0 .. 1
  <2>1. keyCall[s].done \in 0 .. 2
      BY <1>1 DEF KeyTypes, KeyCalls
  <2>2. keyCall[s].done < 2 /\ keyCall[s].result = "ok" /\ isConnected[s]
      BY <1>1 DEF KeyPlace
  <2> QED BY <2>1, <2>2
<1>3. CASE UNCHANGED <<isConnected, contexts>> /\ KeyCallEnds(s, "refused")
  <2>1. CallGoes(s, "close", keyCall[s].done, "refused")
      BY <1>1, <1>3, CallEnds
  <2>2. KeyCounts(s)' /\ KeyPlace(s)' /\ KeyTypes'
      BY <1>1, <1>3, <2>1 DEF KeyCounts, KeyPlace, Connections, CallGoes, KeyTypes
  <2> QED BY <1>1, <1>3, <2>1, <2>2, OneService DEF SameKeys, CallGoes
<1>4. CASE KeyCallEnds(s, "refused") /\ optee_hdmi_hdcp_close(s)
  <2>1. CallGoes(s, "close", keyCall[s].done, "refused")
      BY <1>1, <1>4, CallEnds
  <2>2. /\ isConnected' \in [Services -> BOOLEAN] /\ contexts' \in [Services -> Nat]
        /\ ~isConnected'[s] /\ contexts'[s] = unopened[s]
        /\ \A t \in Services : t # s => isConnected'[t] = isConnected[t] /\ contexts'[t] = contexts[t]
      BY <1>4, KeyInvCloses
  <2>3. unopened[s] <= keyCalls[s] /\ unopened[s] \in Nat
      BY <1>1 DEF KeyCounts, KeyTypes, Connections
  <2>4. KeyCounts(s)' /\ KeyPlace(s)' /\ KeyTypes'
      BY <1>1, <2>1, <2>2, <2>3 DEF KeyCounts, KeyPlace, Connections, CallGoes, KeyTypes
  <2> QED BY <1>1, <2>1, <2>2, <2>4, OneService DEF SameKeys, CallGoes
<1>5. CASE /\ UNCHANGED <<isConnected, contexts>>
           /\ keyCall' = [keyCall EXCEPT ![s].done = @ + 1,
                            ![s].at = IF keyCall[s].done + 1 = Len(Commands[s])
                                      THEN "close" ELSE "connect"]
  <2> DEFINE next == IF keyCall[s].done + 1 = Len(Commands[s]) THEN "close" ELSE "connect"
  <2>1. CallGoes(s, next, keyCall[s].done + 1, keyCall[s].result)
    <3>1. next \in {"connect", "close"}
        OBVIOUS
    <3>2. keyCall[s].done + 1 \in 0 .. 2
        BY <1>2
    <3>3. keyCall' = [keyCall EXCEPT ![s].done = keyCall[s].done + 1, ![s].at = next]
        BY <1>5, Zenon
    <3> HIDE DEF next
    <3> QED BY <1>1, <3>1, <3>2, <3>3, CommandDone, Zenon
  <2>2. (next = "close" /\ keyCall[s].done + 1 = 2) \/ (next = "connect" /\ keyCall[s].done + 1 < 2)
    <3>1. Len(Commands[s]) = 2
        BY TwoCommands
    <3>2. PICK n \in 0 .. 1 : n = keyCall[s].done
        BY <1>2
    <3>3. next = IF n + 1 = 2 THEN "close" ELSE "connect"
        BY <3>1, <3>2
    <3> HIDE DEF next
    <3> QED BY <3>2, <3>3
  <2> HIDE DEF next
  <2>3. KeyCounts(s)' /\ KeyPlace(s)' /\ KeyTypes'
      BY <1>1, <1>2, <1>5, <2>1, <2>2 DEF KeyCounts, KeyPlace, Connections, CallGoes, KeyTypes
  <2> QED BY <1>1, <1>5, <2>1, <2>3, OneService DEF SameKeys, CallGoes
<1> QED BY <1>3, <1>4, <1>5 DEF optee_hdmi_hdcp_call

LEMMA KeyInvConnects ==
    ASSUME KeyInv, NEW s \in Services, optee_hdmi_hdcp_connect(s) PROVE KeyInv'
<1>1. /\ KeyTypes /\ KeyCounts(s) /\ KeyPlace(s) /\ keyCall[s].at = "connect"
      /\ keyCalls' = keyCalls
    BY DEF KeyInv, optee_hdmi_hdcp_connect
<1>2. /\ keyCall[s].result = "ok" /\ keyCall[s].done < 2
      /\ unopened[s] \in Nat /\ contexts[s] \in Nat /\ keyCalls[s] \in Nat
    BY <1>1 DEF KeyPlace, KeyTypes
<1>3. CASE isConnected[s] /\ keyCall' = [keyCall EXCEPT ![s].at = "invoke"]
           /\ UNCHANGED <<isConnected, contexts, unopened>>
  <2>1. CallGoes(s, "invoke", keyCall[s].done, keyCall[s].result)
      BY <1>1, <1>3, CallGoesTo
  <2>2. KeyCounts(s)' /\ KeyPlace(s)' /\ KeyTypes'
      BY <1>1, <1>2, <1>3, <2>1 DEF KeyCounts, KeyPlace, Connections, CallGoes, KeyTypes
  <2> QED BY <1>1, <1>3, <2>1, <2>2, OneService DEF SameKeys, CallGoes
<1>4. CASE ~isConnected[s] /\ KeyCallEnds(s, "no connection")
           /\ UNCHANGED <<isConnected, contexts, unopened>>
  <2>1. CallGoes(s, "close", keyCall[s].done, "no connection")
      BY <1>1, <1>4, CallEnds
  <2>2. KeyCounts(s)' /\ KeyPlace(s)' /\ KeyTypes'
      BY <1>1, <1>2, <1>4, <2>1 DEF KeyCounts, KeyPlace, Connections, CallGoes, KeyTypes
  <2> QED BY <1>1, <1>4, <2>1, <2>2, OneService DEF SameKeys, CallGoes
<1>5. ASSUME ~isConnected[s], contexts' = [contexts EXCEPT ![s] = contexts[s] + 1]
      PROVE  /\ contexts' \in [Services -> Nat]
             /\ contexts'[s] = unopened[s] + 1 /\ contexts'[s] <= keyCalls[s]
             /\ \A t \in Services : t # s => contexts'[t] = contexts[t]
  <2>1. contexts[s] = unopened[s] /\ contexts[s] < keyCalls[s]
      BY <1>1, <1>2, <1>5 DEF KeyCounts, Connections
  <2>2. PICK n \in Nat : n = contexts[s] + 1
      BY <1>2
  <2>3. contexts' = [contexts EXCEPT ![s] = n]
      BY <1>5, <2>2
  <2>4. n = unopened[s] + 1 /\ n <= keyCalls[s]
      BY <1>2, <2>1, <2>2
  <2>5. /\ contexts' \in [Services -> Nat] /\ contexts'[s] = n
        /\ \A t \in Services : t # s => contexts'[t] = contexts[t]
      BY <1>1, <2>3 DEF KeyTypes
  <2> QED BY <2>4, <2>5
<1>6. CASE /\ ~isConnected[s] /\ isConnected' = [isConnected EXCEPT ![s] = TRUE]
           /\ contexts' = [contexts EXCEPT ![s] = contexts[s] + 1]
           /\ keyCall' = [keyCall EXCEPT ![s].at = "invoke"] /\ UNCHANGED unopened
  <2>1. CallGoes(s, "invoke", keyCall[s].done, keyCall[s].result)
      BY <1>1, <1>6, CallGoesTo
  <2>2. /\ isConnected' \in [Services -> BOOLEAN] /\ isConnected'[s]
        /\ \A t \in Services : t # s => isConnected'[t] = isConnected[t]
      BY <1>1, <1>6 DEF KeyTypes
  <2>3. KeyCounts(s)' /\ KeyPlace(s)' /\ KeyTypes'
      BY <1>1, <1>2, <1>5, <1>6, <2>1, <2>2
         DEF KeyCounts, KeyPlace, Connections, CallGoes, KeyTypes
  <2> QED BY <1>1, <1>5, <1>6, <2>1, <2>2, <2>3, OneService DEF SameKeys, CallGoes
<1>7. CASE /\ ~isConnected[s] /\ KeyCallEnds(s, "no connection")
           /\ contexts' = [contexts EXCEPT ![s] = contexts[s] + 1]
           /\ unopened' = [unopened EXCEPT ![s] = unopened[s] + 1] /\ UNCHANGED isConnected
  <2>1. CallGoes(s, "close", keyCall[s].done, "no connection")
      BY <1>1, <1>7, CallEnds
  <2>2. /\ unopened' \in [Services -> Nat] /\ unopened'[s] = unopened[s] + 1
        /\ \A t \in Services : t # s => unopened'[t] = unopened[t]
    <3>1. PICK n \in Nat : n = unopened[s] + 1
        BY <1>2
    <3>2. unopened' = [unopened EXCEPT ![s] = n]
        BY <1>7, <3>1
    <3> QED BY <1>1, <3>1, <3>2 DEF KeyTypes
  <2>3. KeyPlace(s)' /\ KeyTypes'
      BY <1>1, <1>2, <1>5, <1>7, <2>1, <2>2 DEF KeyPlace, CallGoes, KeyTypes
  <2>4. KeyCounts(s)'
    <3>1. contexts'[s] = unopened'[s] /\ contexts'[s] \in Nat
        BY <1>5, <1>7, <2>2
    <3>2. contexts'[s] <= keyCalls'[s]
        BY <1>1, <1>5, <1>7
    <3>3. Connections(s)' = 0
      <4>1. ~isConnected'[s]
          BY <1>7
      <4> QED BY <4>1 DEF Connections
    <3>4. contexts'[s] = unopened'[s] + 0
        BY <3>1
    <3>5. keyCall'[s].at # "connect"
        BY <2>1 DEF CallGoes
    <3> QED BY <3>2, <3>3, <3>4, <3>5, Zenon DEF KeyCounts
  <2> QED BY <1>1, <1>5, <1>7, <2>1, <2>2, <2>3, <2>4, OneService DEF SameKeys, CallGoes
<1> QED BY <1>3, <1>4, <1>6, <1>7 DEF optee_hdmi_hdcp_connect

LEMMA KeyInvNext ==
    ASSUME KeyInv, [KeyNext]_keyVars PROVE KeyInv'
<1>1. CASE UNCHANGED keyVars
    BY <1>1 DEF KeyInv, KeyTypes, KeyCounts, KeyPlace, Connections, keyVars
<1> QED BY <1>1, KeyInvStarts, KeyInvConnects, KeyInvCall, KeyInvEnds DEF KeyNext

LEMMA KeyInvGives ==
    ASSUME KeyInv PROVE KeyTypeOK /\ KeySessionsClosed
<1>1. ASSUME NEW s \in Services
      PROVE  contexts[s] \in 0 .. MaxKeyCalls /\ unopened[s] \in 0 .. MaxKeyCalls
  <2>1. /\ contexts[s] \in Nat /\ unopened[s] \in Nat /\ keyCalls[s] \in 0 .. MaxKeyCalls
        /\ contexts[s] <= keyCalls[s] /\ unopened[s] <= contexts[s]
      BY DEF KeyInv, KeyTypes, KeyCounts, Connections
  <2> QED BY <2>1, KeyAssumption
<1>2. KeyTypeOK
    BY <1>1 DEF KeyInv, KeyTypes, KeyTypeOK, KeyCalls
<1>3. KeySessionsClosed
    BY TwoCommands DEF KeyInv, KeyCounts, KeyPlace, Connections, KeySessionsClosed
<1> QED BY <1>2, <1>3

(* A step of a behaviour is a step of each part, or nothing to it.         *)
LEMMA PartSteps ==
    ASSUME [Next]_vars
    PROVE  /\ [TvNext]_tvVars /\ [ImageNext]_imageVars /\ [KeyNext]_keyVars
           /\ [TablesNext]_tableVars /\ [FormatsNext]_formatVars /\ [CecNext]_cecVars
BY DEF Next, vars, partsVars, Tv, Image, Keys, Tables, Formats, Cec

LEMMA PartsInit ==
    ASSUME Init PROVE TvInit /\ ImageInit /\ KeyInit /\ TablesInit /\ FormatsInit /\ CecInit
BY DEF Init

(* KeySessionsClosed for any number of calls: a context is finalised as    *)
(* often as it was initialised, but for the sessions that could not be     *)
(* opened, and who is answered 0 has had both commands done.               *)
THEOREM KeySessionsClosedHolds == Spec => []KeySessionsClosed
<1>1. Init => KeyInv
    BY KeyInvInit DEF Init
<1>2. KeyInv /\ [Next]_vars => KeyInv'
    BY KeyInvNext, PartSteps
<1>3. KeyInv => KeySessionsClosed
    BY KeyInvGives
<1> QED BY <1>1, <1>2, <1>3, PTL DEF Spec

-----------------------------------------------------------------------------
(* The TV input HAL: its streams and players.                              *)
TvStreamTypes ==
    /\ opened \in StreamIds /\ mdpStream \in BOOLEAN /\ surface \in BOOLEAN
    /\ windowLock \in 0 .. MaxTvStreams
    /\ player \in [Players -> {"none", "sleeps", "converts", "ended"}]
    /\ tvCall \in [at : {"idle", "opens", "creates", "closes", "unwinds"}, id : StreamIds]
    /\ capture \in BOOLEAN /\ reinitHeld \in BOOLEAN /\ tvDied \in {"no", "playing", "capturing"}

(* There is a surface only while there is an MDP stream: that is opened    *)
(* before a surface is made, and the surface goes first.                   *)
SurfaceInv ==
    /\ surface => mdpStream
    /\ tvCall.at = "unwinds" => ~surface
    /\ tvCall.at \in {"opens", "creates"} => mdpStream

(* While m_lock was never initialised under a player, a player converts    *)
(* only under it, and none does between fbm_close and mdp_close.           *)
LockInv ==
    ~reinitHeld =>
       /\ \A p \in Players : player[p] = "converts" => windowLock = p /\ mdpStream
       /\ tvCall.at = "unwinds" => \A p \in Players : player[p] # "converts"
       /\ tvDied # "playing"

StreamInv == TvStreamTypes /\ SurfaceInv /\ LockInv

LEMMA StreamInvInit ==
    ASSUME TvInit PROVE StreamInv
<1>1. TvStreamTypes
  <2>1. NoCall \in [at : {"idle", "opens", "creates", "closes", "unwinds"}, id : StreamIds]
      BY DEF NoCall, StreamIds
  <2>2. 0 \in 0 .. MaxTvStreams /\ 0 \in StreamIds
      BY TvAssumption DEF StreamIds
  <2>3. [p \in Players |-> "none"] \in [Players -> {"none", "sleeps", "converts", "ended"}]
      OBVIOUS
  <2> QED BY <2>1, <2>2, <2>3 DEF TvInit, TvStreamTypes
<1>2. SurfaceInv /\ LockInv
    BY DEF TvInit, SurfaceInv, LockInv, NoCall
<1> QED BY <1>1, <1>2 DEF StreamInv

LEMMA StreamCalls ==
    ASSUME StreamInv, TvCallSteps PROVE StreamInv'
<1> USE TvAssumption DEF StreamInv, StreamIds, NoCall
<1>1. CASE fbm_open_fails
    BY <1>1 DEF fbm_open_fails, TvStreamTypes, SurfaceInv, LockInv
<1>2. CASE create_buffer_queue
  <2>1. TvStreamTypes'
      BY <1>2 DEF create_buffer_queue, TvStreamTypes
  <2>2. SurfaceInv' /\ LockInv'
      BY <1>2 DEF create_buffer_queue, TvStreamTypes, SurfaceInv, LockInv
  <2> QED BY <2>1, <2>2
<1>3. CASE fbm_open
  <2>1. TvStreamTypes'
    <3>1. PICK k : player' = [player EXCEPT ![k] = "sleeps"]
        BY <1>3 DEF fbm_open
    <3>2. player' \in [Players -> {"none", "sleeps", "converts", "ended"}]
        BY <3>1 DEF TvStreamTypes
    <3>3. windowLock' \in 0 .. MaxTvStreams /\ reinitHeld' \in BOOLEAN
        BY <1>3 DEF fbm_open, TvStreamTypes
    <3> QED BY <1>3, <3>2, <3>3 DEF fbm_open, TvStreamTypes
  <2>2. SurfaceInv'
      BY <1>3 DEF fbm_open, SurfaceInv
  <2>3. ASSUME ~reinitHeld' PROVE \A p \in Players : player'[p] # "converts"
    <3>1. ~reinitHeld /\ windowLock = 0
        BY <1>3, <2>3 DEF fbm_open
    <3>2. \A p \in Players : player[p] # "converts"
        BY <3>1 DEF LockInv, Players
    <3> QED BY <1>3, <3>2 DEF fbm_open, TvStreamTypes
  <2> QED BY <1>3, <2>1, <2>2, <2>3 DEF fbm_open, LockInv
<1>4. CASE fbm_close
  <2>1. TvStreamTypes'
      BY <1>4 DEF fbm_close, TvStreamTypes
  <2>2. SurfaceInv'
      BY <1>4 DEF fbm_close, TvStreamTypes, SurfaceInv
  <2>3. LockInv'
      BY <1>4 DEF fbm_close, TvStreamTypes, LockInv, Players
  <2> QED BY <2>1, <2>2, <2>3
<1>5. CASE mdp_close_stream
  <2>1. TvStreamTypes'
      BY <1>5 DEF mdp_close_stream, TvStreamTypes
  <2>2. SurfaceInv' /\ LockInv'
      BY <1>5 DEF mdp_close_stream, SurfaceInv, LockInv
  <2> QED BY <2>1, <2>2
<1> QED BY <1>1, <1>2, <1>3, <1>4, <1>5 DEF TvCallSteps

LEMMA StreamPlayers ==
    ASSUME StreamInv, tvDied = "no", NEW p \in Players, PlayerSteps(p) PROVE StreamInv'
<1> USE TvAssumption DEF StreamInv
<1>1. CASE PlayerLocks(p)
  <2>1. TvStreamTypes'
      BY <1>1 DEF PlayerLocks, TvStreamTypes, Players
  <2>2. ~reinitHeld => \A q \in Players : player[q] # "converts"
      BY <1>1 DEF PlayerLocks, LockInv, Players
  <2>3. tvDied' = "no" /\ SurfaceInv'
      BY <1>1 DEF PlayerLocks, SurfaceInv
  <2> QED BY <1>1, <2>1, <2>2, <2>3 DEF PlayerLocks, TvStreamTypes, LockInv, SurfaceInv
<1>2. CASE PlayerUnlocks(p)
  <2>1. PICK at \in {"sleeps", "ended"} : player' = [player EXCEPT ![p] = at]
      BY <1>2 DEF PlayerUnlocks
  <2>2. TvStreamTypes' /\ SurfaceInv'
      BY <1>2, <2>1 DEF PlayerUnlocks, TvStreamTypes, SurfaceInv
  <2>3. ~reinitHeld => \A q \in Players : player'[q] # "converts"
      BY <1>2, <2>1 DEF PlayerUnlocks, LockInv, TvStreamTypes
  <2> QED BY <1>2, <2>2, <2>3 DEF PlayerUnlocks, LockInv
<1> QED BY <1>1, <1>2 DEF PlayerSteps

LEMMA StreamInvNext ==
    ASSUME StreamInv, [TvNext]_tvVars PROVE StreamInv'
<1>1. CASE UNCHANGED <<streamVars, tvCall, capture, tvDied>>
    BY <1>1 DEF StreamInv, TvStreamTypes, SurfaceInv, LockInv, streamVars
<1>2. ASSUME NEW id \in StreamIds, tv_input_open_stream(id) \/ tv_input_close_stream(id)
      PROVE  StreamInv'
  <2>1. TvStreamTypes'
    <3>1. PICK at \in {"opens", "closes"} : tvCall' = [at |-> at, id |-> id]
        BY <1>2 DEF tv_input_open_stream, tv_input_close_stream
    <3>2. mdpStream' \in BOOLEAN
        BY <1>2 DEF tv_input_open_stream, tv_input_close_stream, StreamInv, TvStreamTypes, streamVars
    <3>3. UNCHANGED <<opened, surface, windowLock, player, capture, reinitHeld, tvDied>>
        BY <1>2 DEF tv_input_open_stream, tv_input_close_stream, streamVars
    <3> QED BY <3>1, <3>2, <3>3 DEF StreamInv, TvStreamTypes
  <2>2. SurfaceInv' /\ LockInv'
      BY <1>2 DEF tv_input_open_stream, tv_input_close_stream, StreamInv, SurfaceInv, LockInv,
                  streamVars
  <2> QED BY <2>1, <2>2 DEF StreamInv
<1>3. CASE tv_input_request_capture \/ captureThread
  <2>1. UNCHANGED streamVars /\ UNCHANGED tvCall /\ capture' \in BOOLEAN
        /\ tvDied' \in {tvDied, "capturing"}
    <3>1. CASE tv_input_request_capture
        BY <3>1 DEF tv_input_request_capture, StreamInv, TvStreamTypes
    <3>2. CASE captureThread
        BY <3>2 DEF captureThread
    <3> QED BY <1>3, <3>1, <3>2
  <2>2. TvStreamTypes'
      BY <2>1 DEF StreamInv, TvStreamTypes, streamVars
  <2>3. SurfaceInv' /\ LockInv'
      BY <2>1 DEF StreamInv, SurfaceInv, LockInv, streamVars
  <2> QED BY <2>2, <2>3 DEF StreamInv
<1>4. ASSUME NEW d \in TvDevices, ObserverRound(d) \/ DeafEnds(d)
      PROVE  UNCHANGED <<streamVars, tvCall, capture, tvDied>>
    BY <1>4 DEF ObserverRound, DeafEnds
<1> QED BY <1>1, <1>2, <1>3, <1>4, StreamCalls, StreamPlayers
        DEF TvNext, tv_input_device_open, tv_input_device_close, tv_input_initialize, TvUevent,
            tvVars, streamVars

(* PlayerHasStream for any number of streams: as long as m_lock is not     *)
(* initialised while a player holds it, a player that converts has an MDP  *)
(* stream, though close_stream deletes that without the lock.              *)
THEOREM PlayerHasStreamHolds == Spec => []PlayerHasStream
<1>1. Init => StreamInv
    BY StreamInvInit DEF Init
<1>2. StreamInv /\ [Next]_vars => StreamInv'
    BY StreamInvNext, PartSteps
<1>3. StreamInv => PlayerHasStream
    BY DEF StreamInv, LockInv, PlayerHasStream
<1> QED BY <1>1, <1>2, <1>3, PTL DEF Spec

(* The uevent threads.  Who waits for an event and has not been asked to   *)
(* end is the thread of the open device; who has called back late has      *)
(* ended.                                                                  *)
Observers == [at : {"none", "waits", "deaf", "ended"}, exit : BOOLEAN,
              pending : Nat, late : Nat]

ObserverTypes ==
    /\ tvDevices \in 0 .. MaxTvDevices /\ tvDevice \in 0 .. tvDevices /\ tvCallback \in BOOLEAN
    /\ observer \in [TvDevices -> Observers]
    /\ tvEvents \in 0 .. MaxTvEvents

ObserverKnown(d) ==
    /\ d > tvDevices => observer[d].at = "none"
    /\ observer[d].at # "ended" => observer[d].late = 0
    /\ observer[d].at = "waits" => observer[d].exit \/ tvDevice = d
    /\ observer[d].late <= 1 /\ observer[d].late + observer[d].pending <= tvEvents

ObserverInv == ObserverTypes /\ \A d \in TvDevices : ObserverKnown(d)

LEMMA ObserverInvInit ==
    ASSUME TvInit PROVE ObserverInv
<1> USE TvAssumption
<1>1. NoObserver \in Observers /\ NoObserver.at = "none" /\ NoObserver.late = 0 /\ NoObserver.pending = 0
    BY DEF NoObserver, Observers
<1>2. ObserverTypes
  <2>1. 0 \in 0 .. MaxTvDevices /\ 0 \in 0 .. MaxTvEvents /\ 0 \in 0 .. 0
      OBVIOUS
  <2> QED BY <1>1, <2>1 DEF TvInit, ObserverTypes
<1>3. \A d \in TvDevices : ObserverKnown(d)
    BY <1>1 DEF TvInit, ObserverKnown
<1> QED BY <1>2, <1>3 DEF ObserverInv

LEMMA ObserverOpens ==
    ASSUME ObserverInv, tv_input_device_open PROVE ObserverInv'
<1> USE TvAssumption
<1>1. /\ ObserverTypes /\ tvDevice = 0 /\ tvDevices < MaxTvDevices
      /\ tvDevice' = tvDevices + 1 /\ tvDevices' = tvDevices + 1 /\ tvCallback' = FALSE
      /\ tvEvents' = tvEvents
    BY DEF ObserverInv, tv_input_device_open
<1>2. PICK at \in {"deaf", "waits"} : observer' = [observer EXCEPT ![tvDevices + 1].at = at]
    BY DEF tv_input_device_open
<1>3. PICK new \in TvDevices : new = tvDevices + 1
  <2>1. tvDevices \in 0 .. MaxTvDevices /\ tvDevices < MaxTvDevices
      BY <1>1 DEF ObserverTypes
  <2> QED BY <2>1 DEF TvDevices
<1>4. observer' = [observer EXCEPT ![new].at = at]
    BY <1>2, <1>3
<1>5. /\ observer' \in [TvDevices -> Observers]
      /\ observer'[new] = [observer[new] EXCEPT !.at = at]
      /\ \A d \in TvDevices : d # new => observer'[d] = observer[d]
    BY <1>1, <1>4 DEF ObserverTypes, Observers
<1>6. ObserverTypes'
  <2>1. tvDevices \in 0 .. MaxTvDevices
      BY <1>1 DEF ObserverTypes
  <2>2. tvDevices' \in 0 .. MaxTvDevices /\ tvDevice' \in 0 .. tvDevices'
      BY <1>1, <2>1
  <2>3. tvCallback' \in BOOLEAN
      BY <1>1
  <2> QED BY <1>1, <1>5, <2>2, <2>3, Zenon DEF ObserverTypes
<1>7. ASSUME NEW d \in TvDevices PROVE ObserverKnown(d)'
  <2>1. ObserverKnown(d)
      BY DEF ObserverInv
  <2>2. CASE d = new
    <3>1. observer[d] \in Observers /\ observer[d].at = "none" /\ observer[d].late = 0
        BY <1>1, <1>3, <2>1, <2>2 DEF ObserverKnown, ObserverTypes, TvDevices
    <3>2. observer'[d].at = at /\ observer'[d].late = 0 /\ observer'[d].pending = observer[d].pending
        BY <1>5, <2>2, <3>1 DEF Observers
    <3> QED BY <1>1, <1>3, <2>1, <2>2, <3>1, <3>2 DEF ObserverKnown, ObserverTypes, Observers, TvDevices
  <2>3. CASE d # new
    <3>1. observer'[d] = observer[d]
        BY <1>5, <2>3
    <3>2. d > tvDevices => d > tvDevices'
        BY <1>1, <1>3, <2>3 DEF ObserverTypes, TvDevices
    <3>3. tvDevice # d
        BY <1>1 DEF TvDevices
    <3> QED BY <1>1, <2>1, <3>1, <3>2, <3>3 DEF ObserverKnown, ObserverTypes, TvDevices
  <2> QED BY <2>2, <2>3
<1> QED BY <1>6, <1>7 DEF ObserverInv

LEMMA ObserverCloses ==
    ASSUME ObserverInv, tv_input_device_close PROVE ObserverInv'
<1> USE TvAssumption
<1>1. /\ ObserverTypes /\ tvDevice # 0 /\ tvDevice' = 0 /\ tvDevices' = tvDevices
      /\ tvCallback' = FALSE /\ tvEvents' = tvEvents
    BY DEF ObserverInv, tv_input_device_close
<1>2. PICK old \in TvDevices : old = tvDevice
  <2>1. tvDevices \in 0 .. MaxTvDevices /\ tvDevice \in 0 .. tvDevices /\ tvDevice # 0
      BY <1>1 DEF ObserverTypes
  <2> QED BY <2>1 DEF TvDevices
<1>3. observer' = [observer EXCEPT ![old].exit = TRUE]
    BY <1>2 DEF tv_input_device_close, hdmi_stop_observing
<1>4. /\ observer' \in [TvDevices -> Observers]
      /\ observer'[old] = [observer[old] EXCEPT !.exit = TRUE]
      /\ \A d \in TvDevices : d # old => observer'[d] = observer[d]
    BY <1>1, <1>3 DEF ObserverTypes, Observers
<1>5. ObserverTypes'
  <2>1. tvDevices \in 0 .. MaxTvDevices
      BY <1>1 DEF ObserverTypes
  <2>2. tvDevices' \in 0 .. MaxTvDevices /\ tvDevice' \in 0 .. tvDevices'
      BY <1>1, <2>1
  <2>3. tvCallback' \in BOOLEAN
      BY <1>1
  <2> QED BY <1>1, <1>4, <2>2, <2>3, Zenon DEF ObserverTypes
<1>6. ASSUME NEW d \in TvDevices PROVE ObserverKnown(d)'
  <2>1. ObserverKnown(d) /\ observer[d] \in Observers
      BY <1>1 DEF ObserverInv, ObserverTypes
  <2>2. CASE d = old
    <3>1. /\ observer'[d].exit /\ observer'[d].at = observer[d].at
          /\ observer'[d].late = observer[d].late /\ observer'[d].pending = observer[d].pending
        BY <1>4, <2>1, <2>2 DEF Observers
    <3> QED BY <1>1, <2>1, <3>1 DEF ObserverKnown
  <2>3. CASE d # old
      BY <1>1, <1>2, <1>4, <2>1, <2>3 DEF ObserverKnown
  <2> QED BY <2>2, <2>3
<1> QED BY <1>5, <1>6 DEF ObserverInv

LEMMA ObserverHears ==
    ASSUME ObserverInv, TvUevent PROVE ObserverInv'
<1> USE TvAssumption
<1>1. /\ ObserverTypes /\ tvEvents < MaxTvEvents /\ tvEvents' = tvEvents + 1
      /\ tvDevice' = tvDevice /\ tvDevices' = tvDevices /\ tvCallback' = tvCallback
    BY DEF ObserverInv, TvUevent, deviceVars
<1>2. observer' = [o \in TvDevices |->
          IF observer[o].at = "waits" THEN [observer[o] EXCEPT !.pending = observer[o].pending + 1]
          ELSE observer[o]]
    BY DEF TvUevent
<1>3. ASSUME NEW d \in TvDevices PROVE observer'[d] \in Observers /\ ObserverKnown(d)'
  <2>1. ObserverKnown(d) /\ observer[d] \in Observers
      BY <1>1 DEF ObserverInv, ObserverTypes
  <2>2. PICK n \in Nat : n = observer[d].pending + 1
      BY <2>1 DEF Observers
  <2>3. observer'[d] = observer[d] \/ observer'[d] = [observer[d] EXCEPT !.pending = n]
      BY <1>2, <2>2
  <2>4. /\ observer'[d] \in Observers /\ observer'[d].at = observer[d].at
        /\ observer'[d].exit = observer[d].exit /\ observer'[d].late = observer[d].late
        /\ observer'[d].pending \in {observer[d].pending, n}
      BY <2>1, <2>3 DEF Observers
  <2>5. observer[d].late \in Nat /\ observer[d].pending \in Nat /\ tvEvents \in Nat
      BY <1>1, <2>1 DEF ObserverTypes, Observers
  <2>6. observer'[d].late + observer'[d].pending <= tvEvents'
      BY <1>1, <2>1, <2>2, <2>4, <2>5 DEF ObserverKnown
  <2> QED BY <1>1, <2>1, <2>4, <2>6 DEF ObserverKnown
<1>4. observer' \in [TvDevices -> Observers]
    BY <1>2, <1>3
<1> QED BY <1>1, <1>3, <1>4 DEF ObserverInv, ObserverTypes

LEMMA ObserverRounds ==
    ASSUME ObserverInv, NEW o \in TvDevices, ObserverRound(o) PROVE ObserverInv'
<1>1. /\ ObserverTypes /\ observer[o].at = "waits" /\ observer[o].pending > 0 /\ ObserverKnown(o)
      /\ tvEvents' = tvEvents
      /\ tvDevice' = tvDevice /\ tvDevices' = tvDevices /\ tvCallback' = tvCallback
    BY DEF ObserverInv, ObserverRound
<1>2. /\ observer[o].pending \in Nat /\ observer[o].late = 0 /\ tvEvents \in Nat
      /\ observer[o].exit \in BOOLEAN
    BY <1>1 DEF ObserverKnown, ObserverTypes, Observers
<1> DEFINE at == IF observer[o].exit THEN "ended" ELSE "waits"
           late == IF tvDevice = o THEN observer[o].late ELSE observer[o].late + 1
           n == observer[o].pending - 1
           new == [at |-> at, exit |-> observer[o].exit, pending |-> n, late |-> late]
<1>3. observer' = [observer EXCEPT ![o] = new]
    BY Zenon DEF ObserverRound
<1>4. at \in {"ended", "waits"} /\ (at = "waits" => ~observer[o].exit /\ tvDevice = o)
    BY <1>1 DEF ObserverKnown
<1>5. late \in 0 .. 1 /\ (tvDevice = o => late = 0)
    BY <1>2
<1>6. n \in Nat /\ late + n <= tvEvents
  <2>1. observer[o].late + observer[o].pending <= tvEvents
      BY <1>1 DEF ObserverKnown
  <2>2. n \in Nat /\ n + 1 = observer[o].pending
      BY <1>1, <1>2
  <2> QED BY <1>2, <1>5, <2>1, <2>2
<1> HIDE DEF at, late, n
<1>7. /\ new \in Observers
      /\ new.at = at /\ new.exit = observer[o].exit /\ new.pending = n /\ new.late = late
    BY <1>2, <1>4, <1>5, <1>6 DEF Observers
<1> HIDE DEF new
<1>8. /\ observer' \in [TvDevices -> Observers] /\ observer'[o] = new
      /\ \A d \in TvDevices : d # o => observer'[d] = observer[d]
    BY <1>1, <1>3, <1>7 DEF ObserverTypes
<1>9. ASSUME NEW d \in TvDevices PROVE ObserverKnown(d)'
  <2>1. ObserverKnown(d)
      BY DEF ObserverInv
  <2>2. CASE d = o
    <3>1. d > tvDevices => observer[d].at = "none"
        BY <2>1 DEF ObserverKnown
    <3>2. ~(d > tvDevices) /\ late <= 1
        BY <1>1, <1>5, <2>2, <3>1
    <3> QED BY <1>1, <1>4, <1>5, <1>6, <1>7, <1>8, <2>2, <3>2 DEF ObserverKnown
  <2>3. CASE d # o
      BY <1>1, <1>8, <2>1, <2>3 DEF ObserverKnown
  <2> QED BY <2>2, <2>3
<1> QED BY <1>1, <1>8, <1>9 DEF ObserverInv, ObserverTypes

LEMMA ObserverDeafEnds ==
    ASSUME ObserverInv, NEW o \in TvDevices, DeafEnds(o) PROVE ObserverInv'
<1>1. /\ ObserverTypes /\ observer[o].at = "deaf" /\ ObserverKnown(o)
      /\ observer' = [observer EXCEPT ![o].at = "ended"] /\ tvEvents' = tvEvents
      /\ tvDevice' = tvDevice /\ tvDevices' = tvDevices /\ tvCallback' = tvCallback
    BY DEF ObserverInv, DeafEnds
<1>2. /\ observer' \in [TvDevices -> Observers]
      /\ observer'[o] = [observer[o] EXCEPT !.at = "ended"]
      /\ \A d \in TvDevices : d # o => observer'[d] = observer[d]
    BY <1>1 DEF ObserverTypes, Observers
<1>3. ASSUME NEW d \in TvDevices PROVE ObserverKnown(d)'
  <2>1. ObserverKnown(d) /\ observer[d] \in Observers
      BY <1>1 DEF ObserverInv, ObserverTypes
  <2>2. CASE d = o
    <3>1. /\ observer'[d].at = "ended" /\ observer'[d].late = observer[d].late
          /\ observer'[d].pending = observer[d].pending
        BY <1>2, <2>1, <2>2 DEF Observers
    <3> QED BY <1>1, <2>1, <2>2, <3>1 DEF ObserverKnown
  <2>3. CASE d # o
      BY <1>1, <1>2, <2>1, <2>3 DEF ObserverKnown
  <2> QED BY <2>2, <2>3
<1> QED BY <1>1, <1>2, <1>3 DEF ObserverInv, ObserverTypes

LEMMA ObserverInvNext ==
    ASSUME ObserverInv, [TvNext]_tvVars PROVE ObserverInv'
<1>1. CASE UNCHANGED <<tvDevice, tvDevices, observer, tvEvents>> /\ tvCallback' \in BOOLEAN
    BY <1>1 DEF ObserverInv, ObserverTypes, ObserverKnown
<1>2. UNCHANGED <<tvDevice, tvDevices, tvCallback, tvEvents>> => tvCallback' \in BOOLEAN
    BY DEF ObserverInv, ObserverTypes
<1>3. CASE tv_input_initialize
    BY <1>1, <1>3 DEF tv_input_initialize
<1>4. ASSUME NEW id \in StreamIds, tv_input_open_stream(id) \/ tv_input_close_stream(id)
      PROVE  UNCHANGED <<deviceVars, tvEvents>>
    BY <1>4 DEF tv_input_open_stream, tv_input_close_stream
<1>5. ASSUME NEW p \in Players, PlayerSteps(p) PROVE UNCHANGED <<deviceVars, tvEvents>>
    BY <1>5 DEF PlayerSteps, PlayerLocks, PlayerUnlocks
<1>6. ASSUME TvCallSteps \/ tv_input_request_capture \/ captureThread
      PROVE  UNCHANGED <<deviceVars, tvEvents>>
    BY <1>6 DEF TvCallSteps, fbm_open_fails, create_buffer_queue, fbm_open, fbm_close,
                mdp_close_stream, tv_input_request_capture, captureThread
<1>7. CASE UNCHANGED <<deviceVars, tvEvents>>
    BY <1>1, <1>2, <1>7 DEF deviceVars
<1>8. CASE UNCHANGED tvVars
    BY <1>7, <1>8 DEF tvVars, deviceVars
<1> QED BY <1>3, <1>4, <1>5, <1>6, <1>7, <1>8, ObserverOpens, ObserverCloses, ObserverHears,
           ObserverRounds, ObserverDeafEnds DEF TvNext

LEMMA TvInvGives ==
    ASSUME StreamInv, ObserverInv PROVE TvTypeOK /\ LateOnce
<1> USE TvAssumption
<1>1. ASSUME NEW d \in TvDevices
      PROVE  observer[d] \in [at : {"none", "waits", "deaf", "ended"}, exit : BOOLEAN,
                              pending : 0 .. MaxTvEvents, late : 0 .. MaxTvEvents]
  <2>1. observer[d] \in Observers /\ ObserverKnown(d) /\ tvEvents \in 0 .. MaxTvEvents
      BY DEF ObserverInv, ObserverTypes
  <2>2. observer[d].late \in Nat /\ observer[d].pending \in Nat
        /\ observer[d].late + observer[d].pending <= tvEvents
      BY <2>1 DEF Observers, ObserverKnown
  <2>3. observer[d].late \in 0 .. MaxTvEvents /\ observer[d].pending \in 0 .. MaxTvEvents
      BY <2>1, <2>2
  <2> QED BY <2>1, <2>3 DEF Observers
<1>2. tvDevice \in 0 .. MaxTvDevices
  <2>1. tvDevices \in 0 .. MaxTvDevices /\ tvDevice \in 0 .. tvDevices
      BY DEF ObserverInv, ObserverTypes
  <2> QED BY <2>1
<1>3. TvTypeOK
    BY <1>1, <1>2 DEF StreamInv, TvStreamTypes, ObserverInv, ObserverTypes, TvTypeOK
<1>4. LateOnce
    BY DEF ObserverInv, ObserverKnown, LateOnce
<1> QED BY <1>3, <1>4

(* LateOnce for any number of devices and of events: a uevent thread that  *)
(* nobody waits for calls back into its freed device once at most.         *)
THEOREM LateOnceHolds == Spec => []LateOnce
<1>1. Init => ObserverInv
    BY ObserverInvInit DEF Init
<1>2. ObserverInv /\ [Next]_vars => ObserverInv'
    BY ObserverInvNext, PartSteps
<1>3. ObserverInv => LateOnce
    BY DEF ObserverInv, ObserverKnown, LateOnce
<1> QED BY <1>1, <1>2, <1>3, PTL DEF Spec

-----------------------------------------------------------------------------
(* The image conversion: what mdp_trigger tells the MDP.                   *)
Flags == Transfers \cup {"LIMITED", "709", "2020"}
Triggers == [at : {"idle", "block", "format", "told"}, matrix : Matrices, rgb : BOOLEAN,
             pq : SUBSET Flags, format : {"none"} \cup RgbFormats \cup YuvFormats]

PictureTypes ==
    /\ packet \in Transfers \cup {"SDR"} /\ packets \in 0 .. MaxPackets
    /\ dataSpace \in SUBSET Flags /\ parsing \in BOOLEAN /\ parsedMeanwhile \in BOOLEAN
    /\ trigger \in Triggers

OneTransfer(flags) == ~({"ST2084", "HLG"} \subseteq flags)
OneStandard(flags) == ~({"709", "2020"} \subseteq flags)

(* The flags are made anew from one packet each time, and the standard is  *)
(* the one flag that joins them; what the MDP was handed is what is there  *)
(* until the next packet is parsed.                                        *)
PictureInv ==
    /\ PictureTypes /\ OneTransfer(dataSpace)
    /\ OneTransfer(trigger.pq) /\ OneStandard(trigger.pq)
    /\ trigger.at = "block" => dataSpace \cap {"709", "2020"} = {}
    /\ trigger.at = "format" /\ ~parsedMeanwhile => dataSpace = trigger.pq
    /\ trigger.at = "told" /\ trigger.rgb /\ ~parsedMeanwhile
       => (trigger.format \in YuvFormats) = (trigger.pq \cap Transfers # {})

(* mdp_parse_hdr_info: at most one transfer function, and no standard.     *)
LEMMA ParsedFlags ==
    ASSUME PictureTypes, mdp_parse_hdr_info
    PROVE  /\ dataSpace' \in SUBSET Flags /\ OneTransfer(dataSpace')
           /\ dataSpace' \cap {"709", "2020"} = {}
BY DEF PictureTypes, mdp_parse_hdr_info, Flags, OneTransfer, Transfers

LEMMA NoTriggerIs ==
    /\ NoTrigger \in Triggers /\ NoTrigger.at = "idle" /\ NoTrigger.pq = {}
    /\ OneTransfer({}) /\ OneStandard({})
BY DEF NoTrigger, Triggers, Matrices, OneTransfer, OneStandard

LEMMA PictureInvInit ==
    ASSUME ImageInit PROVE PictureInv
<1>1. 0 \in 0 .. MaxPackets
    BY ConversionAssumption
<1> QED BY <1>1, NoTriggerIs DEF ImageInit, PictureInv, PictureTypes

LEMMA PictureInvNext ==
    ASSUME PictureInv, [ImageNext]_imageVars PROVE PictureInv'
<1> USE DEF PictureInv
<1>1. CASE UNCHANGED pictureVars
    BY <1>1 DEF PictureTypes, pictureVars
<1>2. CASE PacketArrives
  <2>1. packets \in 0 .. MaxPackets /\ packets < MaxPackets /\ packets' = packets + 1
      BY <1>2 DEF PacketArrives, PictureTypes
  <2>2. packets' \in 0 .. MaxPackets
      BY <2>1, ConversionAssumption
  <2> QED BY <1>2, <2>2 DEF PacketArrives, PictureTypes
<1>3. CASE HotPlugParses
    BY <1>3, ParsedFlags DEF HotPlugParses, PictureTypes
<1>4. ASSUME NEW matrix \in {"709", "2020"}, NEW rgb \in BOOLEAN, RequestParses(matrix, rgb)
      PROVE  PictureInv'
  <2>1. /\ dataSpace' \in SUBSET Flags /\ OneTransfer(dataSpace')
        /\ dataSpace' \cap {"709", "2020"} = {}
      BY <1>4, ParsedFlags DEF RequestParses
  <2>2. trigger' \in Triggers /\ trigger'.at = "block" /\ trigger'.pq = {}
      BY <1>4 DEF RequestParses, NoTrigger, Triggers, Matrices
  <2> QED BY <1>4, <2>1, <2>2, NoTriggerIs DEF RequestParses, PictureTypes
<1>5. CASE TriggerSetsBlock
  <2> DEFINE standard == IF trigger.matrix \in {"709", "2020"} THEN {trigger.matrix} ELSE {}
  <2>1. dataSpace' = dataSpace \cup standard /\ standard \in {{}, {"709"}, {"2020"}}
      BY <1>5 DEF TriggerSetsBlock
  <2> HIDE DEF standard
  <2>2. dataSpace \cap {"709", "2020"} = {}
      BY <1>5 DEF TriggerSetsBlock
  <2>3. dataSpace' \in SUBSET Flags /\ OneTransfer(dataSpace') /\ OneStandard(dataSpace')
      BY <2>1, <2>2 DEF PictureTypes, Flags, OneTransfer, OneStandard
  <2>4. trigger' \in Triggers /\ trigger'.at = "format" /\ trigger'.pq = dataSpace'
      BY <1>5, <2>3 DEF TriggerSetsBlock, PictureTypes, Triggers
  <2> QED BY <1>5, <2>3, <2>4 DEF TriggerSetsBlock, PictureTypes
<1>6. CASE TriggerChoosesFormat
  <2> DEFINE hdr == dataSpace \cap Transfers # {}
  <2>1. PICK deep \in BOOLEAN :
           trigger' = [trigger EXCEPT !.at = "told", !.format = InputFormat(trigger.rgb, deep, hdr)]
      BY <1>6 DEF TriggerChoosesFormat
  <2> DEFINE format == InputFormat(trigger.rgb, deep, hdr)
  <2>2. /\ format \in RgbFormats \cup YuvFormats
        /\ trigger.rgb => (format \in YuvFormats) = hdr
      BY DEF InputFormat, RgbFormats, YuvFormats
  <2> HIDE DEF format, hdr
  <2>3. trigger' = [trigger EXCEPT !.at = "told", !.format = format]
      BY <2>1 DEF format
  <2>4. /\ trigger' \in Triggers /\ trigger'.at = "told" /\ trigger'.pq = trigger.pq
        /\ trigger'.rgb = trigger.rgb /\ trigger'.format = format
      BY <2>2, <2>3 DEF PictureTypes, Triggers
  <2>5. ~parsedMeanwhile => dataSpace = trigger.pq
      BY <1>6 DEF TriggerChoosesFormat
  <2> QED BY <1>6, <2>2, <2>4, <2>5 DEF TriggerChoosesFormat, PictureTypes, hdr
<1>7. CASE TriggerReturns
    BY <1>7, NoTriggerIs DEF TriggerReturns, PictureTypes
<1>8. CASE UNCHANGED imageVars
    BY <1>1, <1>8 DEF imageVars
<1> QED BY <1>1, <1>2, <1>3, <1>4, <1>5, <1>6, <1>7, <1>8
        DEF ImageNext, ConvStarts, ConvProceeds, ConvFails, ConvReleases

(* PictureAgrees for any number of packets: the flags of the block name    *)
(* one transfer function and one standard, and RGB gets the input format   *)
(* of HDR if they name a function and only then, unless a packet was       *)
(* parsed between the block and the format (parsedMeanwhile).              *)
THEOREM PictureAgreesHolds == Spec => []PictureAgrees
<1>1. Init => PictureInv
    BY PictureInvInit DEF Init
<1>2. PictureInv /\ [Next]_vars => PictureInv'
    BY PictureInvNext, PartSteps
<1>3. PictureInv => PictureAgrees
    BY DEF PictureInv, OneTransfer, OneStandard, PictureAgrees
<1> QED BY <1>1, <1>2, <1>3, PTL DEF Spec

(* A conversion.  Until a step fails its place tells which outputs have    *)
(* their size and which are mapped; after that, what failed tells why      *)
(* convert_flag is cleared, or will be by an output without a size.        *)
Releases == {"release0", "release1"}
Conversions == [kind : Kinds \cup {"none"}, at : ConvSteps \cup {"idle"} \cup Releases,
                flag : BOOLEAN, failed : ConvSteps \cup {"none"}, done : BOOLEAN]

ConvTypes ==
    /\ conv \in Conversions
    /\ sized \in SUBSET {0, 1} /\ mapped \in SUBSET {0, 1} /\ convs \in 0 .. MaxConversions
    /\ answer \in [failed : ConvSteps \cup {"none"}, done : BOOLEAN, result : {0, -1}]

Both(kind) == IF kind = "1in1out" THEN {0} ELSE {0, 1}
SizedBefore(kind, step) ==
    IF step \in {"query", "source", "output0"} THEN {}
    ELSE IF step \in {"map0", "dst0", "output1"} THEN {0} ELSE Both(kind)
MappedBefore(kind, step) ==
    IF step \in {"query", "source", "output0", "map0"} THEN {}
    ELSE IF step \in {"dst0", "output1", "map1"} THEN {0} ELSE Both(kind)

ConvPlace ==
    /\ conv.at \in ConvSteps => /\ conv.kind \in Kinds /\ conv.failed = "none" /\ conv.flag
                                /\ sized = SizedBefore(conv.kind, conv.at)
                                /\ mapped = MappedBefore(conv.kind, conv.at)
    /\ conv.kind = "1in1out" => conv.at \notin {"output1", "map1", "dst1", "release1"}
    /\ conv.at \in Releases => mapped \subseteq sized /\ (conv.failed = "none" => conv.done)
    /\ conv.at = "release0" => 1 \notin mapped
                               /\ (conv.failed # "none" => ~conv.flag \/ conv.failed \in {"map1", "dst1"})
    /\ conv.at = "release1" /\ conv.failed # "none" =>
          ~conv.flag \/ conv.failed = "dst1" \/ 1 \notin sized

ConvInv == ConvTypes /\ ConvPlace /\ ConvertedIfZero /\ NothingLeft

LEMMA StepsAre ==
    ConvSteps = {"query", "source", "output0", "map0", "dst0", "output1", "map1", "dst1", "run"}
BY DEF ConvSteps, Following

LEMMA OutputsAre ==
    /\ DOMAIN OutputOf = {"map0", "map1"} \cup Releases
    /\ OutputOf["map0"] = 0 /\ OutputOf["map1"] = 1
    /\ OutputOf["release0"] = 0 /\ OutputOf["release1"] = 1
BY DEF OutputOf, Releases

LEMMA FollowingIs ==
    ASSUME NEW kind \in Kinds
    PROVE  /\ Following(kind)["query"] = "source" /\ Following(kind)["source"] = "output0"
           /\ Following(kind)["output0"] = "map0" /\ Following(kind)["map0"] = "dst0"
           /\ Following(kind)["dst0"] = IF kind = "1in1out" THEN "run" ELSE "output1"
           /\ Following(kind)["output1"] = "map1" /\ Following(kind)["map1"] = "dst1"
           /\ Following(kind)["dst1"] = "run"
           /\ Following(kind)["run"] = IF kind = "1in1out" THEN "release0" ELSE "release1"
BY DEF Following

LEMMA ConvInvInit ==
    ASSUME ImageInit PROVE ConvInv
<1>1. ConvTypes
  <2>1. NoConversion \in Conversions
      BY DEF Conversions, NoConversion
  <2>2. 0 \in 0 .. MaxConversions
      BY ConversionAssumption
  <2>3. [failed |-> "none", done |-> TRUE, result |-> 0]
           \in [failed : ConvSteps \cup {"none"}, done : BOOLEAN, result : {0, -1}]
      OBVIOUS
  <2> QED BY <2>1, <2>2, <2>3 DEF ImageInit, ConvTypes
<1>2. ConvPlace /\ ConvertedIfZero /\ NothingLeft
    BY StepsAre DEF ImageInit, ConvPlace, ConvertedIfZero, NothingLeft, NoConversion, Releases
<1> QED BY <1>1, <1>2 DEF ConvInv

LEMMA ConvInvStarts ==
    ASSUME ConvInv, NEW kind \in Kinds, ConvStarts(kind) PROVE ConvInv'
<1>1. conv' = [kind |-> kind, at |-> "query", flag |-> TRUE, failed |-> "none", done |-> FALSE]
      /\ sized' = {} /\ mapped' = {} /\ answer' = answer /\ left' = left
    BY DEF ConvStarts, NoConversion
<1>2. convs' \in 0 .. MaxConversions
  <2>1. convs \in 0 .. MaxConversions /\ convs < MaxConversions /\ convs' = convs + 1
      BY DEF ConvStarts, ConvInv, ConvTypes
  <2> QED BY <2>1, ConversionAssumption
<1>3. conv' \in Conversions
    BY <1>1, StepsAre DEF Conversions
<1>4. ConvTypes'
    BY <1>1, <1>2, <1>3 DEF ConvInv, ConvTypes
<1>5. ConvPlace'
    BY <1>1, StepsAre DEF ConvPlace, SizedBefore, MappedBefore, Releases
<1> QED BY <1>1, <1>4, <1>5 DEF ConvInv, ConvertedIfZero, NothingLeft

LEMMA ConvInvProceeds ==
    ASSUME ConvInv, ConvProceeds PROVE ConvInv'
<1>1. /\ conv \in Conversions /\ conv.at \in ConvSteps /\ conv.kind \in Kinds
      /\ conv.failed = "none" /\ conv.flag
      /\ sized = SizedBefore(conv.kind, conv.at) /\ mapped = MappedBefore(conv.kind, conv.at)
      /\ conv.kind = "1in1out" => conv.at \notin {"output1", "map1", "dst1", "release1"}
      /\ UNCHANGED <<convs, answer, left>>
    BY DEF ConvInv, ConvTypes, ConvPlace, ConvProceeds
<1> DEFINE next == Following(conv.kind)[conv.at]
<1>2. next \in ConvSteps \cup Releases
    BY <1>1, StepsAre, FollowingIs DEF Releases
<1>3. conv' = [conv EXCEPT !.at = next, !.done = (conv.at = "run")]
    BY DEF ConvProceeds
<1> HIDE DEF next
<1>4. /\ conv' \in Conversions /\ conv'.at = next /\ conv'.kind = conv.kind
      /\ conv'.failed = "none" /\ conv'.flag /\ conv'.done = (conv.at = "run")
    BY <1>1, <1>2, <1>3 DEF Conversions
<1>5. /\ sized' = sized \cup (IF conv.at = "output0" THEN {0} ELSE IF conv.at = "output1" THEN {1} ELSE {})
      /\ mapped' = mapped \cup (IF conv.at = "map0" THEN {0} ELSE IF conv.at = "map1" THEN {1} ELSE {})
  <2>1. sized' = sized \cup (CASE conv.at = "output0" -> {0} [] conv.at = "output1" -> {1} [] OTHER -> {})
        /\ mapped' = mapped \cup (IF conv.at \in DOMAIN OutputOf THEN {OutputOf[conv.at]} ELSE {})
      BY DEF ConvProceeds
  <2> QED BY <1>1, <2>1, StepsAre, OutputsAre DEF Releases
<1>6. next \in ConvSteps => sized' = SizedBefore(conv.kind, next)
    BY <1>1, <1>5, StepsAre, FollowingIs DEF SizedBefore, Both, next, Kinds
<1>7. next \in ConvSteps => mapped' = MappedBefore(conv.kind, next)
    BY <1>1, <1>5, StepsAre, FollowingIs DEF MappedBefore, Both, next, Kinds
<1>8. next \in Releases =>
         /\ conv.at = "run" /\ mapped' = Both(conv.kind) /\ sized' = Both(conv.kind)
         /\ next = IF conv.kind = "1in1out" THEN "release0" ELSE "release1"
    BY <1>1, <1>5, StepsAre, FollowingIs DEF MappedBefore, SizedBefore, Both, next, Kinds, Releases
<1>9. conv.kind = "1in1out" => next \notin {"output1", "map1", "dst1", "release1"}
    BY <1>1, StepsAre, FollowingIs DEF next
<1>10. ConvTypes'
    BY <1>1, <1>4, <1>5 DEF ConvInv, ConvTypes
<1>11. ConvPlace'
  <2>1. CASE next \in ConvSteps
      BY <1>1, <1>4, <1>6, <1>7, <1>9, <2>1, StepsAre DEF ConvPlace, Releases
  <2>2. CASE next \in Releases
    <3>1. conv'.done
        BY <1>4, <1>8, <2>2
    <3>2. mapped' = sized' /\ mapped' = Both(conv.kind)
        BY <1>8, <2>2
    <3>3. next = "release0" => conv.kind = "1in1out"
        BY <1>8, <2>2
    <3>4. next = "release0" => 1 \notin mapped'
        BY <3>2, <3>3 DEF Both
    <3> QED BY <1>4, <1>9, <2>2, <3>1, <3>2, <3>4, StepsAre DEF ConvPlace, Releases
  <2> QED BY <1>2, <2>1, <2>2
<1> QED BY <1>1, <1>10, <1>11 DEF ConvInv, ConvertedIfZero, NothingLeft

(* The exits of a step: ExitOf by its places.                              *)
LEMMA ExitIs ==
    ASSUME NEW kind \in Kinds, NEW step \in ConvSteps,
           kind = "1in1out" => step \notin {"output1", "map1", "dst1", "release1"}
    PROVE  /\ ExitOf(kind, step) \in {"return"} \cup Releases
           /\ ExitOf(kind, step) = "return" =>
                 \/ step \in {"query", "source", "map0"}
                 \/ kind = "1in1out" /\ step \in {"output0", "dst0"}
           /\ ExitOf(kind, step) = "release0" =>
                 (kind = "1in1out" /\ step = "run") \/ (kind = "1in2out" /\ step = "map1")
           /\ ExitOf(kind, step) = "release1" =>
                 kind = "1in2out" /\ step \in {"output0", "dst0", "output1", "dst1", "run"}
BY StepsAre DEF ExitOf, Kinds, Releases

LEMMA ConvInvFails ==
    ASSUME ConvInv, ConvFails PROVE ConvInv'
<1>1. /\ conv \in Conversions /\ conv.at \in ConvSteps /\ conv.kind \in Kinds
      /\ conv.failed = "none" /\ conv.flag
      /\ sized = SizedBefore(conv.kind, conv.at) /\ mapped = MappedBefore(conv.kind, conv.at)
      /\ conv.kind = "1in1out" => conv.at \notin {"output1", "map1", "dst1", "release1"}
      /\ UNCHANGED <<sized, mapped, convs>>
    BY DEF ConvInv, ConvTypes, ConvPlace, ConvFails
<1>2. PICK what \in SUBSET {"descriptor"} :
         /\ what # {} => conv.at \in DOMAIN OutputOf
         /\ IF ExitOf(conv.kind, conv.at) = "return"
            THEN /\ ConvReturns(-1, conv.at)
                 /\ left' = left \cup Left(what \cup Held(mapped))
            ELSE /\ conv' = [conv EXCEPT !.at = ExitOf(conv.kind, conv.at), !.failed = conv.at,
                                         !.flag = StillConverted(conv.at)]
                 /\ left' = left \cup Left(what)
                 /\ UNCHANGED answer
    BY DEF ConvFails
<1>3. "descriptor" \in what => conv.at \in {"map0", "map1"}
    BY <1>1, <1>2, StepsAre, OutputsAre DEF Releases
<1>4. CASE ExitOf(conv.kind, conv.at) = "return"
  <2>1. conv' = NoConversion /\ answer' = [failed |-> conv.at, done |-> conv.done, result |-> -1]
        /\ left' = left \cup Left(what \cup Held(mapped))
      BY <1>2, <1>4 DEF ConvReturns
  <2>2. mapped # {} => conv.kind = "1in1out" /\ conv.at = "dst0"
      BY <1>1, <1>4, ExitIs DEF MappedBefore
  <2>3. NothingLeft'
      BY <1>2, <1>3, <2>1, <2>2 DEF ConvInv, NothingLeft, Left, Held
  <2>4. ConvTypes' /\ ConvPlace' /\ ConvertedIfZero'
      BY <1>1, <2>1, StepsAre
         DEF ConvInv, ConvTypes, ConvPlace, ConvertedIfZero, NoConversion, Conversions, Releases
  <2> QED BY <2>3, <2>4 DEF ConvInv
<1>5. CASE ExitOf(conv.kind, conv.at) # "return"
  <2> DEFINE exit == ExitOf(conv.kind, conv.at)
             still == StillConverted(conv.at)
  <2>1. /\ exit \in Releases
        /\ exit = "release0" => (conv.kind = "1in1out" /\ conv.at = "run")
                                \/ (conv.kind = "1in2out" /\ conv.at = "map1")
        /\ exit = "release1" => conv.kind = "1in2out"
                                /\ conv.at \in {"output0", "dst0", "output1", "dst1", "run"}
      BY <1>1, <1>5, ExitIs
  <2>2. /\ conv' = [conv EXCEPT !.at = exit, !.failed = conv.at, !.flag = still]
        /\ left' = left \cup Left(what) /\ answer' = answer
      BY <1>2, <1>5
  <2>3. still = (conv.at # "run")
      BY DEF StillConverted
  <2> HIDE DEF exit, still
  <2>4. /\ conv' \in Conversions /\ conv'.at = exit /\ conv'.failed = conv.at
        /\ conv'.flag = still /\ conv'.kind = conv.kind
      BY <1>1, <2>1, <2>2, <2>3 DEF Conversions
  <2>5. ConvTypes'
      BY <1>1, <2>2, <2>4 DEF ConvInv, ConvTypes
  <2>6. ConvPlace'
    <3>1. mapped \subseteq sized /\ (exit = "release0" => 1 \notin mapped)
          /\ (conv.at \in {"output0", "dst0", "output1"} => 1 \notin sized)
        BY <1>1, <2>1, StepsAre DEF SizedBefore, MappedBefore, Both
    <3> QED BY <1>1, <2>1, <2>3, <2>4, <3>1, StepsAre DEF ConvPlace, Releases
  <2>7. NothingLeft'
      BY <1>2, <1>3, <2>2 DEF ConvInv, NothingLeft, Left
  <2> QED BY <2>2, <2>5, <2>6, <2>7 DEF ConvInv, ConvertedIfZero
<1> QED BY <1>4, <1>5

LEMMA ConvInvReleases ==
    ASSUME ConvInv, ConvReleases PROVE ConvInv'
<1>1. /\ conv \in Conversions /\ conv.at \in Releases /\ mapped \subseteq sized
      /\ sized \in SUBSET {0, 1}
      /\ conv.failed = "none" => conv.done
      /\ conv.at = "release0" =>
            1 \notin mapped /\ (conv.failed # "none" => ~conv.flag \/ conv.failed \in {"map1", "dst1"})
      /\ conv.at = "release1" /\ conv.failed # "none" =>
            ~conv.flag \/ conv.failed = "dst1" \/ 1 \notin sized
      /\ conv.kind = "1in1out" => conv.at # "release1"
      /\ UNCHANGED <<sized, convs>>
    BY DEF ConvInv, ConvTypes, ConvPlace, ConvReleases, Releases
<1> DEFINE k == OutputOf[conv.at]
           flag == conv.flag /\ k \in sized
           rest == mapped \ (IF k \in sized THEN {k} ELSE {})
<1>2. /\ mapped' = rest
      /\ IF k = 1 THEN conv' = [conv EXCEPT !.at = "release0", !.flag = flag]
                       /\ UNCHANGED <<answer, left>>
         ELSE /\ ConvReturns(IF flag THEN 0 ELSE -1, conv.failed)
              /\ left' = left \cup Left(Held(rest))
    BY DEF ConvReleases
<1>3. k = IF conv.at = "release1" THEN 1 ELSE 0
    BY <1>1, OutputsAre DEF Releases
<1>4. flag \in BOOLEAN /\ (flag <=> conv.flag /\ k \in sized)
    BY <1>1 DEF Conversions
<1>5. rest \subseteq mapped /\ k \notin rest
    BY <1>1
<1> HIDE DEF k, flag, rest
<1>6. CASE conv.at = "release1"
  <2>1. /\ conv' = [conv EXCEPT !.at = "release0", !.flag = flag]
        /\ UNCHANGED <<answer, left>> /\ mapped' = rest
      BY <1>2, <1>3, <1>6
  <2>2. /\ conv' \in Conversions /\ conv'.at = "release0" /\ conv'.flag = flag
        /\ conv'.failed = conv.failed /\ conv'.done = conv.done /\ conv'.kind = conv.kind
      BY <1>1, <1>4, <2>1 DEF Conversions, Releases
  <2>3. ConvTypes'
      BY <1>1, <1>5, <2>1, <2>2 DEF ConvInv, ConvTypes
  <2>4. ConvPlace'
      BY <1>1, <1>3, <1>4, <1>5, <1>6, <2>1, <2>2, StepsAre DEF ConvPlace, Releases
  <2> QED BY <2>1, <2>3, <2>4 DEF ConvInv, ConvertedIfZero, NothingLeft
<1>7. CASE conv.at = "release0"
  <2>1. /\ conv' = NoConversion /\ mapped' = rest
        /\ answer' = [failed |-> conv.failed, done |-> conv.done, result |-> IF flag THEN 0 ELSE -1]
        /\ left' = left \cup Left(Held(rest))
      BY <1>2, <1>3, <1>7 DEF ConvReturns
  <2>2. rest = {}
      BY <1>1, <1>3, <1>5, <1>7
  <2>3. NothingLeft'
      BY <2>1, <2>2 DEF ConvInv, NothingLeft, Left, Held
  <2>4. ConvertedIfZero'
    <3>1. answer'.result = 0 => flag
        BY <2>1
    <3> QED BY <1>1, <1>4, <1>7, <2>1, <3>1 DEF ConvertedIfZero
  <2>5. ConvTypes' /\ ConvPlace'
      BY <1>1, <2>1, <2>2, StepsAre
         DEF ConvInv, ConvTypes, ConvPlace, NoConversion, Conversions, Releases
  <2> QED BY <2>3, <2>4, <2>5 DEF ConvInv
<1> QED BY <1>1, <1>6, <1>7 DEF Releases

LEMMA ConvInvNext ==
    ASSUME ConvInv, [ImageNext]_imageVars PROVE ConvInv'
<1>1. CASE UNCHANGED convVars
    BY <1>1 DEF ConvInv, ConvTypes, ConvPlace, ConvertedIfZero, NothingLeft, convVars
<1>2. ASSUME NEW matrix \in {"709", "2020"}, NEW rgb \in BOOLEAN, RequestParses(matrix, rgb)
      PROVE  UNCHANGED convVars
    BY <1>2 DEF RequestParses
<1> QED BY <1>1, <1>2, ConvInvStarts, ConvInvProceeds, ConvInvFails, ConvInvReleases
        DEF ImageNext, PacketArrives, HotPlugParses, TriggerSetsBlock, TriggerChoosesFormat,
            TriggerReturns, imageVars

LEMMA ImageInvariant == Spec => [](PictureInv /\ ConvInv)
<1>1. Init => PictureInv /\ ConvInv
    BY PictureInvInit, ConvInvInit DEF Init
<1>2. PictureInv /\ ConvInv /\ [Next]_vars => (PictureInv /\ ConvInv)'
    BY PictureInvNext, ConvInvNext, PartSteps
<1> QED BY <1>1, <1>2, PTL DEF Spec

(* ConvertedIfZero for any number of conversions: who gets 0 has a picture,*)
(* but for the two steps of mdp_1in2out that leave convert_flag set.       *)
THEOREM ConvertedIfZeroHolds == Spec => []ConvertedIfZero
<1>1. ConvInv => ConvertedIfZero
    BY DEF ConvInv
<1> QED BY <1>1, ImageInvariant, PTL

(* NothingLeft for any number of conversions: whatever fails, a conversion *)
(* leaves no mapping and no descriptor but in the cases named.             *)
THEOREM NothingLeftHolds == Spec => []NothingLeft
<1>1. ConvInv => NothingLeft
    BY DEF ConvInv
<1> QED BY <1>1, ImageInvariant, PTL

-----------------------------------------------------------------------------
(* The tables of a capture session: their streams.                         *)
LEMMA PutDomain ==
    ASSUME NEW table, NEW ids, NEW value
    PROVE  /\ DOMAIN Put(table, ids, value) = DOMAIN table \cup ids
           /\ \A id \in DOMAIN table \cup ids :
                 Put(table, ids, value)[id] = IF id \in DOMAIN table THEN table[id] ELSE value
BY DEF Put

LEMMA WithoutDomain ==
    ASSUME NEW table, NEW ids
    PROVE  /\ DOMAIN Without(table, ids) = DOMAIN table \ ids
           /\ \A id \in DOMAIN table \ ids : Without(table, ids)[id] = table[id]
BY DEF Without

(* An import adds streams and buffers, and takes none.                     *)
LEMMA ImportIs ==
    ASSUME NEW named, NEW buffers
    PROVE  /\ DOMAIN Import(named, buffers) = DOMAIN mCirculatingBuffers \cup named
           /\ \A id \in DOMAIN mCirculatingBuffers :
                 mCirculatingBuffers[id] \subseteq Import(named, buffers)[id]
           /\ \A id \in named, b \in BufferIds :
                 <<id, b>> \in buffers => b \in Import(named, buffers)[id]
           /\ \A id \in DOMAIN mCirculatingBuffers \cup named : \A b \in Import(named, buffers)[id] :
                 b \in BufferIds
                 \/ (id \in DOMAIN mCirculatingBuffers /\ b \in mCirculatingBuffers[id])
<1> DEFINE table == Put(mCirculatingBuffers, named, {})
           imported(id) == {b \in BufferIds : <<id, b>> \in buffers}
<1>1. /\ DOMAIN table = DOMAIN mCirculatingBuffers \cup named
      /\ \A id \in DOMAIN mCirculatingBuffers \cup named :
            table[id] = IF id \in DOMAIN mCirculatingBuffers THEN mCirculatingBuffers[id] ELSE {}
    BY PutDomain
<1>2. Import(named, buffers) = [id \in DOMAIN table |-> table[id] \cup imported(id)]
    BY DEF Import
<1>3. \A id, b : b \in imported(id) <=> b \in BufferIds /\ <<id, b>> \in buffers
    OBVIOUS
<1> HIDE DEF table, imported
<1>4. \A id \in DOMAIN table : Import(named, buffers)[id] = table[id] \cup imported(id)
    BY <1>2
<1> QED BY <1>1, <1>2, <1>3, <1>4

LEMMA NoEntriesDomain == DOMAIN NoEntries = {}
BY DEF NoEntries

LEMMA RealIds ==
    ASSUME NEW buffers PROVE Ids(Real(buffers)) \subseteq Ids(buffers)
BY DEF Ids, Real

(* A call that is at something has found the session open, so the tables   *)
(* are changed only while it is; and the stream it is to keep is there.    *)
OpenInv == tableCall.at # "idle" => ~streamsClosed /\ tableCall.keep \subseteq DOMAIN mStreamMap

AgreeInv == TablesAgree /\ OpenInv

LEMMA AgreeInit ==
    ASSUME TablesInit PROVE AgreeInv
BY NoEntriesDomain DEF TablesInit, AgreeInv, TablesAgree, OpenInv, NoTableCall

LEMMA AgreeConfigures ==
    ASSUME AgreeInv, tablesDied = "no", NEW config, configureStreams(config) PROVE AgreeInv'
<1>1. DOMAIN mStreamMap' = DOMAIN config
    BY DEF configureStreams
<1> DEFINE new == DOMAIN config \ DOMAIN mStreamMap
           gone == DOMAIN mStreamMap \ DOMAIN config
<1>2. /\ DOMAIN mCirculatingBuffers' = (DOMAIN mCirculatingBuffers \cup new) \ gone
      /\ tablesDied' = IF gone \subseteq DOMAIN mCirculatingBuffers \cup new THEN "no" ELSE "at"
  <2> DEFINE table == Put(mCirculatingBuffers, new, {})
  <2>1. /\ mCirculatingBuffers' = Without(table, gone)
        /\ tablesDied' = IF gone \subseteq DOMAIN table THEN "no" ELSE "at"
      BY DEF configureStreams, CleanUp, EntriesFor
  <2>2. DOMAIN table = DOMAIN mCirculatingBuffers \cup new
      BY PutDomain
  <2> HIDE DEF table
  <2>3. DOMAIN Without(table, gone) = DOMAIN table \ gone
      BY WithoutDomain
  <2> QED BY <2>1, <2>2, <2>3
<1>3. /\ ~streamsClosed /\ streamsClosed' = streamsClosed /\ tableCall' = tableCall
      /\ strange' = strange \ DOMAIN config /\ poisoned' = poisoned /\ tableCall.at = "idle"
    BY DEF configureStreams
<1> QED BY <1>1, <1>2, <1>3 DEF AgreeInv, TablesAgree, OpenInv

LEMMA AgreeRequests ==
    ASSUME AgreeInv, tablesDied = "no", NEW buffers,
           RequestRefused(buffers) \/ RequestImported(buffers)
    PROVE  AgreeInv'
<1>1. CASE RequestRefused(buffers)
  <2>1. PICK imported \in SUBSET Real(buffers), named \in SUBSET Ids(Real(buffers)) :
           /\ mCirculatingBuffers' = Import(named, imported)
           /\ strange' = strange \cup (named \ DOMAIN mStreamMap)
           /\ poisoned' = poisoned \ named
      BY <1>1 DEF RequestRefused
  <2>2. DOMAIN mCirculatingBuffers' = DOMAIN mCirculatingBuffers \cup named
      BY <2>1, ImportIs
  <2> QED BY <1>1, <2>1, <2>2 DEF RequestRefused, AgreeInv, TablesAgree, OpenInv
<1>2. CASE RequestImported(buffers)
  <2>1. /\ DOMAIN mCirculatingBuffers' = DOMAIN mCirculatingBuffers \cup Ids(Real(buffers))
        /\ DOMAIN mStreamMap' = DOMAIN mStreamMap \cup Ids(buffers)
    <3>1. /\ mCirculatingBuffers' = Import(Ids(Real(buffers)), buffers)
          /\ mStreamMap' = Put(mStreamMap, Ids(buffers), "none")
        BY <1>2 DEF RequestImported
    <3>2. DOMAIN Import(Ids(Real(buffers)), buffers) = DOMAIN mCirculatingBuffers \cup Ids(Real(buffers))
        BY ImportIs
    <3>3. DOMAIN Put(mStreamMap, Ids(buffers), "none") = DOMAIN mStreamMap \cup Ids(buffers)
        BY PutDomain
    <3> QED BY <3>1, <3>2, <3>3
  <2>2. poisoned' = (poisoned \cup (Ids(buffers) \ (DOMAIN mStreamMap \cup DOMAIN mCirculatingBuffers)))
                       \ Ids(Real(buffers))
      BY <1>2 DEF RequestImported, NewWithout
  <2>3. /\ tableCall.at = "idle" /\ ~streamsClosed
        /\ UNCHANGED <<tableCall, streamsClosed, strange, tablesDied>>
      BY <1>2 DEF RequestImported
  <2> QED BY <2>1, <2>2, <2>3, RealIds DEF AgreeInv, TablesAgree, OpenInv
<1> QED BY <1>1, <1>2

LEMMA AgreeSwitches ==
    ASSUME AgreeInv, tablesDied = "no",
           switchToOfflineKeeps \/ switchToOfflineEnds \/ \E id \in StreamIdsUsed : switchToOfflineRefused(id)
    PROVE  AgreeInv'
<1>1. CASE switchToOfflineKeeps
    BY <1>1 DEF switchToOfflineKeeps, AgreeInv, TablesAgree, OpenInv
<1>2. CASE switchToOfflineEnds
  <2>1. /\ ~streamsClosed /\ tableCall.keep \subseteq DOMAIN mStreamMap /\ tableCall' = NoTableCall
        /\ UNCHANGED <<streamsClosed, strange, poisoned>>
      BY <1>2 DEF switchToOfflineEnds, AgreeInv, OpenInv
  <2>2. CASE /\ mStreamMap' = NoEntries /\ mCirculatingBuffers' = NoEntries
             /\ tablesDied' = IF DOMAIN mStreamMap \subseteq DOMAIN mCirculatingBuffers THEN "no" ELSE "at"
      BY <2>1, <2>2, NoEntriesDomain DEF AgreeInv, TablesAgree, OpenInv, NoTableCall
  <2>3. CASE /\ mStreamMap' = Without(mStreamMap, tableCall.keep)
             /\ mCirculatingBuffers' = Without(mCirculatingBuffers, tableCall.keep)
             /\ tablesDied' = IF tableCall.keep \subseteq DOMAIN mCirculatingBuffers THEN "no" ELSE "at"
    <3>1. /\ DOMAIN mStreamMap' = DOMAIN mStreamMap \ tableCall.keep
          /\ DOMAIN mCirculatingBuffers' = DOMAIN mCirculatingBuffers \ tableCall.keep
        BY <2>3, WithoutDomain
    <3> QED BY <2>1, <2>3, <3>1 DEF AgreeInv, TablesAgree, OpenInv, NoTableCall
  <2> QED BY <1>2, <2>2, <2>3 DEF switchToOfflineEnds
<1>3. ASSUME NEW id \in StreamIdsUsed, switchToOfflineRefused(id) PROVE AgreeInv'
  <2>1. DOMAIN mStreamMap' = DOMAIN mStreamMap \cup {id}
      BY <1>3, PutDomain DEF switchToOfflineRefused
  <2> QED BY <1>3, <2>1 DEF switchToOfflineRefused, NewWithout, AgreeInv, TablesAgree, OpenInv
<1> QED BY <1>1, <1>2, <1>3

LEMMA AgreeCloses ==
    ASSUME AgreeInv, tablesDied = "no", closeEnds PROVE AgreeInv'
<1>1. /\ DOMAIN mCirculatingBuffers' = DOMAIN mCirculatingBuffers \ DOMAIN mStreamMap
      /\ tablesDied' = IF DOMAIN mStreamMap \subseteq DOMAIN mCirculatingBuffers THEN "no" ELSE "at"
    BY WithoutDomain DEF closeEnds, CleanUp
<1>2. /\ ~streamsClosed /\ streamsClosed' = TRUE /\ tableCall' = NoTableCall
      /\ UNCHANGED <<mStreamMap, strange, poisoned>>
    BY DEF closeEnds, AgreeInv, OpenInv
<1> QED BY <1>1, <1>2 DEF AgreeInv, TablesAgree, OpenInv, NoTableCall

LEMMA AgreeNext ==
    ASSUME AgreeInv, [TablesNext]_tableVars PROVE AgreeInv'
<1>1. ASSUME tablesDied = "no", NEW id \in StreamIdsUsed, NEW b \in BufferIds, updateBufferCaches(id, b)
      PROVE  AgreeInv'
  <2>1. DOMAIN mCirculatingBuffers' = DOMAIN mCirculatingBuffers
      BY <1>1 DEF updateBufferCaches
  <2> QED BY <1>1, <2>1 DEF updateBufferCaches, AgreeInv, TablesAgree, OpenInv
<1>2. CASE ThreadTakes \/ ThreadSettles \/ signalRequestDone
    BY <1>2 DEF ThreadTakes, ThreadSettles, signalRequestDone, AgreeInv, TablesAgree, OpenInv
<1>3. ASSUME NEW at, NEW keep \in Keepable, TakeList(at, keep) PROVE AgreeInv'
  <2>1. keep \subseteq DOMAIN mStreamMap
      BY DEF Keepable, supportOfflineLocked
  <2>2. tableCall'.keep = keep
      BY <1>3 DEF TakeList
  <2> QED BY <1>3, <2>1, <2>2 DEF TakeList, AgreeInv, TablesAgree, OpenInv
<1>4. CASE flushEnds
    BY <1>4 DEF flushEnds, NoTableCall, AgreeInv, TablesAgree, OpenInv
<1>5. CASE UNCHANGED tableVars
    BY <1>5 DEF tableVars, AgreeInv, TablesAgree, OpenInv
<1>6. {} \in Keepable
    BY DEF Keepable
<1> QED BY <1>1, <1>2, <1>3, <1>4, <1>5, <1>6, AgreeConfigures, AgreeRequests, AgreeSwitches,
           AgreeCloses DEF TablesNext

(* TablesAgree for any streams, buffers and number of requests: at() finds *)
(* the streams the other table names, unless one of the two calls that     *)
(* leave a stream without an entry has come before and no buffer has been  *)
(* imported for that stream since, whatever was configured.                *)
THEOREM TablesAgreeHolds == Spec => []TablesAgree
<1>1. Init => AgreeInv
    BY AgreeInit DEF Init
<1>2. AgreeInv /\ [Next]_vars => AgreeInv'
    BY AgreeNext, PartSteps
<1>3. AgreeInv => TablesAgree
    BY DEF AgreeInv
<1> QED BY <1>1, <1>2, <1>3, PTL DEF Spec

(* The requests: each is in one place, and its frame is on the record      *)
(* until its buffers are settled.                                          *)
QueueTypes ==
    /\ mInflightFrames \in SUBSET (1 .. MaxStreamFrames)
    /\ waiting \in Seq(Requests) /\ processing \in SUBSET Requests
    /\ tableCall.moved \in SUBSET Requests
    /\ frameCount \in 0 .. MaxStreamFrames

PlacesInv ==
    /\ tableCall.at = "idle" => tableCall.moved = {}
    /\ tableCall.at # "idle" => waiting = <<>>
    /\ \A k \in DOMAIN waiting : waiting[k].frame <= frameCount
    /\ \A j, k \in DOMAIN waiting : waiting[j].frame = waiting[k].frame => j = k
    /\ \A r \in processing :
          /\ r.frame <= frameCount /\ processing = {r}
          /\ \A k \in DOMAIN waiting : waiting[k].frame # r.frame
          /\ \A m \in tableCall.moved : m.frame # r.frame
    /\ \A m \in tableCall.moved : m.frame <= frameCount

RecordKept ==
    /\ \A k \in DOMAIN waiting : waiting[k].frame \in mInflightFrames
    /\ \A m \in tableCall.moved : m.frame \in mInflightFrames
    /\ \A r \in processing : waitedOut \/ r.buffers = {} \/ r.frame \in mInflightFrames

QueueInv == QueueTypes /\ PlacesInv /\ RecordKept

LEMMA AppendIs ==
    ASSUME NEW S, NEW s \in Seq(S), NEW e \in S
    PROVE  /\ Append(s, e) \in Seq(S)
           /\ \A k \in DOMAIN Append(s, e) :
                 \/ k = Len(s) + 1 /\ Append(s, e)[k] = e
                 \/ k \in DOMAIN s /\ k # Len(s) + 1 /\ Append(s, e)[k] = s[k]
OBVIOUS

LEMMA TailIs ==
    ASSUME NEW S, NEW s \in Seq(S), s # <<>>
    PROVE  /\ Tail(s) \in Seq(S) /\ 1 \in DOMAIN s /\ Head(s) = s[1]
           /\ \A k \in DOMAIN Tail(s) : k \in Nat /\ k # 0 /\ k + 1 \in DOMAIN s /\ Tail(s)[k] = s[k + 1]
OBVIOUS

LEMMA QueueInit ==
    ASSUME TablesInit PROVE QueueInv
<1>1. 0 \in 0 .. MaxStreamFrames
    BY TablesAssumption
<1>2. NoTableCall.at = "idle" /\ NoTableCall.moved = {}
    BY DEF NoTableCall
<1> QED BY <1>1, <1>2 DEF TablesInit, QueueInv, QueueTypes, PlacesInv, RecordKept

LEMMA QueueImported ==
    ASSUME QueueInv, NEW buffers \in RequestBuffers, RequestImported(buffers) PROVE QueueInv'
<1>1. CASE UNCHANGED <<frameCount, waiting, mInflightFrames>>
    BY <1>1 DEF RequestImported, QueueInv, QueueTypes, PlacesInv, RecordKept
<1>2. CASE /\ frameCount < MaxStreamFrames /\ frameCount' = frameCount + 1
           /\ waiting' = Append(waiting, [frame |-> frameCount', buffers |-> buffers])
           /\ mInflightFrames' = mInflightFrames \cup {frameCount'}
  <2> DEFINE n == frameCount'
             request == [frame |-> n, buffers |-> buffers]
  <2>1. n \in 1 .. MaxStreamFrames /\ n > frameCount /\ frameCount \in Nat /\ n \in 0 .. MaxStreamFrames
    <3>1. frameCount \in 0 .. MaxStreamFrames
        BY DEF QueueInv, QueueTypes
    <3> QED BY <1>2, <3>1, TablesAssumption
  <2>2. request \in Requests /\ request.frame = n
      BY <2>1 DEF Requests, RequestBuffers
  <2>3. /\ waiting \in Seq(Requests) /\ waiting' = Append(waiting, request)
        /\ mInflightFrames' = mInflightFrames \cup {n}
        /\ UNCHANGED <<processing, tableCall, waitedOut>> /\ tableCall.at = "idle"
      BY <1>2 DEF QueueInv, QueueTypes, RequestImported
  <2> HIDE DEF n, request
  <2>4. /\ waiting' \in Seq(Requests)
        /\ \A k \in DOMAIN waiting' :
              \/ k = Len(waiting) + 1 /\ waiting'[k] = request
              \/ k \in DOMAIN waiting /\ k # Len(waiting) + 1 /\ waiting'[k] = waiting[k]
      BY <2>2, <2>3, AppendIs
  <2>5. \A r \in Requests : r.frame \in Nat
      BY DEF Requests
  <2>6. /\ \A k \in DOMAIN waiting : waiting[k].frame <= frameCount /\ waiting[k].frame \in Nat
        /\ \A r \in processing : r.frame <= frameCount /\ r.frame \in Nat
      BY <2>3, <2>5 DEF QueueInv, QueueTypes, PlacesInv
  <2>7. /\ \A k \in DOMAIN waiting : waiting[k].frame # n /\ waiting[k].frame <= n
        /\ \A r \in processing : r.frame # n /\ r.frame <= n
      BY <2>1, <2>6
  <2>8. QueueTypes'
      BY <2>1, <2>3, <2>4 DEF QueueInv, QueueTypes, n
  <2>9. tableCall.moved = {}
      BY <2>3 DEF QueueInv, PlacesInv
  <2>10. PlacesInv'
    <3>1. \A k \in DOMAIN waiting' : waiting'[k].frame <= n
        BY <2>1, <2>2, <2>4, <2>7
    <3>2. \A j, k \in DOMAIN waiting' : waiting'[j].frame = waiting'[k].frame => j = k
        BY <2>2, <2>4, <2>7 DEF QueueInv, PlacesInv
    <3>3. \A r \in processing : \A k \in DOMAIN waiting' : waiting'[k].frame # r.frame
        BY <2>2, <2>4, <2>7 DEF QueueInv, PlacesInv
    <3> QED BY <2>3, <2>7, <2>9, <3>1, <3>2, <3>3 DEF QueueInv, PlacesInv, n
  <2>11. RecordKept'
      BY <2>2, <2>3, <2>4 DEF QueueInv, RecordKept
  <2> QED BY <2>8, <2>10, <2>11 DEF QueueInv
<1> QED BY <1>1, <1>2 DEF RequestImported

LEMMA QueueTakes ==
    ASSUME QueueInv, ThreadTakes PROVE QueueInv'
<1>1. /\ waiting \in Seq(Requests) /\ waiting # <<>> /\ processing = {}
      /\ processing' = {Head(waiting)} /\ waiting' = Tail(waiting)
      /\ UNCHANGED <<mInflightFrames, tableCall, frameCount, waitedOut>>
    BY DEF QueueInv, QueueTypes, ThreadTakes
<1>2. /\ waiting' \in Seq(Requests) /\ 1 \in DOMAIN waiting /\ Head(waiting) = waiting[1]
      /\ \A k \in DOMAIN waiting' :
            k \in Nat /\ k # 0 /\ k + 1 \in DOMAIN waiting /\ waiting'[k] = waiting[k + 1]
    BY <1>1, TailIs
<1>3. Head(waiting) \in Requests
    BY <1>1, <1>2
<1>4. tableCall.at = "idle" /\ tableCall.moved = {}
    BY <1>1 DEF QueueInv, PlacesInv
<1>5. \A k \in DOMAIN waiting' : k + 1 # 1
    BY <1>2
<1>6. \A j, k \in DOMAIN waiting' : waiting'[j].frame = waiting'[k].frame => j = k
  <2>1. SUFFICES ASSUME NEW j \in DOMAIN waiting', NEW k \in DOMAIN waiting',
                        waiting'[j].frame = waiting'[k].frame
                 PROVE  j = k
      OBVIOUS
  <2>2. j + 1 = k + 1
      BY <1>2, <2>1 DEF QueueInv, PlacesInv
  <2> QED BY <1>2, <2>2
<1>7. PlacesInv'
    BY <1>1, <1>2, <1>4, <1>5, <1>6 DEF QueueInv, PlacesInv
<1>8. RecordKept'
    BY <1>1, <1>2 DEF QueueInv, RecordKept
<1>9. QueueTypes'
    BY <1>1, <1>2, <1>3 DEF QueueInv, QueueTypes
<1> QED BY <1>7, <1>8, <1>9 DEF QueueInv

LEMMA QueueSettles ==
    ASSUME QueueInv, ThreadSettles PROVE QueueInv'
<1>1. PICK r \in processing :
         /\ processing' = {[r EXCEPT !.buffers = {}]} /\ mInflightFrames' = mInflightFrames \ {r.frame}
    BY DEF ThreadSettles
<1> DEFINE settled == [r EXCEPT !.buffers = {}]
<1>2. r \in Requests /\ settled \in Requests /\ settled.frame = r.frame /\ settled.buffers = {}
    BY DEF QueueInv, QueueTypes, Requests
<1>3. processing' = {settled}
    BY <1>1
<1> HIDE DEF settled
<1>4. UNCHANGED <<waiting, tableCall, frameCount, waitedOut>>
    BY DEF ThreadSettles
<1> QED BY <1>1, <1>2, <1>3, <1>4 DEF QueueInv, QueueTypes, PlacesInv, RecordKept

LEMMA QueueTaken ==
    ASSUME QueueInv, NEW at \in {"flush", "close", "offline"}, NEW keep, TakeList(at, keep)
    PROVE  QueueInv'
<1>1. /\ tableCall' = [at |-> at, keep |-> keep, moved |-> {waiting[k] : k \in DOMAIN waiting}]
      /\ waiting' = <<>> /\ UNCHANGED <<mInflightFrames, processing, frameCount, waitedOut>>
    BY DEF TakeList
<1>2. tableCall'.at # "idle" /\ tableCall'.moved = {waiting[k] : k \in DOMAIN waiting}
    BY <1>1
<1>3. {waiting[k] : k \in DOMAIN waiting} \in SUBSET Requests
    BY DEF QueueInv, QueueTypes
<1> QED BY <1>1, <1>2, <1>3 DEF QueueInv, QueueTypes, PlacesInv, RecordKept

LEMMA QueueEnds ==
    ASSUME QueueInv, flushEnds \/ closeEnds \/ switchToOfflineEnds PROVE QueueInv'
<1>1. /\ tableCall.at # "idle" /\ waiting = <<>> /\ waiting' = <<>>
      /\ tableCall'.at = "idle" /\ tableCall'.moved = {}
      /\ UNCHANGED <<processing, frameCount>>
  <2>1. tableCall.at \in {"flush", "close", "offline"} /\ tableCall' = NoTableCall
        /\ waiting' = waiting /\ processing' = processing /\ frameCount' = frameCount
      BY DEF flushEnds, closeEnds, switchToOfflineEnds
  <2> QED BY <2>1 DEF QueueInv, PlacesInv, NoTableCall
<1>2. \/ mInflightFrames' = mInflightFrames \ MovedFrames /\ (waitedOut => waitedOut')
      \/ mInflightFrames' = {} /\ waitedOut' = (waitedOut \/ processing # {})
  <2>1. CASE flushEnds
      BY <2>1 DEF flushEnds
  <2>2. CASE closeEnds
      BY <2>2 DEF closeEnds
  <2>3. CASE switchToOfflineEnds
      BY <2>3 DEF switchToOfflineEnds
  <2> QED BY <2>1, <2>2, <2>3
<1>3. \A r \in processing : r.frame \notin MovedFrames
    BY DEF QueueInv, PlacesInv, MovedFrames
<1>4. QueueTypes' /\ PlacesInv'
    BY <1>1, <1>2 DEF QueueInv, QueueTypes, PlacesInv
<1>5. RecordKept'
  <2>1. DOMAIN waiting' = {} /\ tableCall'.moved = {}
      BY <1>1
  <2>2. ASSUME NEW r \in processing
        PROVE  waitedOut' \/ r.buffers = {} \/ r.frame \in mInflightFrames'
    <3>1. waitedOut \/ r.buffers = {} \/ r.frame \in mInflightFrames
        BY DEF QueueInv, RecordKept
    <3>2. processing # {}
        OBVIOUS
    <3> QED BY <1>2, <1>3, <3>1, <3>2
  <2> QED BY <1>1, <2>1, <2>2 DEF RecordKept
<1> QED BY <1>4, <1>5 DEF QueueInv

LEMMA QueueNext ==
    ASSUME QueueInv, [TablesNext]_tableVars PROVE QueueInv'
<1>1. CASE UNCHANGED <<mInflightFrames, waiting, processing, tableCall, frameCount, waitedOut>>
    BY <1>1 DEF QueueInv, QueueTypes, PlacesInv, RecordKept
<1>2. CASE signalRequestDone
    BY <1>2 DEF signalRequestDone, QueueInv, QueueTypes, PlacesInv, RecordKept
<1> QED BY <1>1, <1>2, QueueImported, QueueTakes, QueueSettles, QueueTaken, QueueEnds
        DEF TablesNext, configureStreams, RequestRefused, updateBufferCaches, switchToOfflineKeeps,
            switchToOfflineRefused, tableVars

(* The buffers.  Who may hold pointers to them, by where its request is.   *)
LEMMA UsesAre ==
    ASSUME NEW use
    PROVE  use \in Uses <=>
              /\ use[2] # NoBuffer
              /\ \/ \E k \in DOMAIN waiting : use \in waiting[k].buffers
                 \/ \E r \in processing : use \in r.buffers
                 \/ \E m \in tableCall.moved : use \in m.buffers
BY DEF Uses, QueuedUses, Real

LEMMA UsesAreNext ==
    ASSUME NEW use
    PROVE  use \in Uses' <=>
              /\ use[2] # NoBuffer
              /\ \/ \E k \in DOMAIN waiting' : use \in waiting'[k].buffers
                 \/ \E r \in processing' : use \in r.buffers
                 \/ \E m \in tableCall'.moved : use \in m.buffers
BY DEF Uses, QueuedUses, Real

Imported(use) == use[1] \in DOMAIN mCirculatingBuffers /\ use[2] \in mCirculatingBuffers[use[1]]

LEMMA ImportedKept ==
    ASSUME BuffersOutliveRequests, tablesDied = "no", waitedOut' = waitedOut,
           Uses' \subseteq Uses, mCirculatingBuffers' = mCirculatingBuffers
    PROVE  BuffersOutliveRequests'
BY DEF BuffersOutliveRequests

LEMMA NothingImported ==
    ASSUME ~waitedOut' => Uses' = {} PROVE BuffersOutliveRequests'
BY DEF BuffersOutliveRequests

(* What configureStreams' check is for: with nothing in flight nobody holds*)
(* a buffer.                                                               *)
LEMMA NobodyHolds ==
    ASSUME QueueInv, NothingInFlight, tableCall.at = "idle", ~waitedOut PROVE Uses = {}
<1>1. \A k \in DOMAIN waiting : FALSE
    BY DEF QueueInv, RecordKept, NothingInFlight
<1>2. \A r \in processing : r.buffers = {}
    BY DEF QueueInv, RecordKept, NothingInFlight
<1>3. tableCall.moved = {}
    BY DEF QueueInv, PlacesInv
<1> QED BY <1>1, <1>2, <1>3, UsesAre

LEMMA BuffersConfigured ==
    ASSUME QueueInv, NEW config, configureStreams(config) PROVE BuffersOutliveRequests'
<1>1. NothingInFlight /\ tableCall.at = "idle"
      /\ UNCHANGED <<waiting, processing, tableCall, waitedOut>>
    BY DEF configureStreams
<1>2. Uses' = Uses
    BY <1>1 DEF Uses, QueuedUses
<1> QED BY <1>1, <1>2, NobodyHolds, NothingImported

LEMMA BuffersRefused ==
    ASSUME BuffersOutliveRequests, tablesDied = "no", NEW buffers, RequestRefused(buffers)
    PROVE  BuffersOutliveRequests'
<1>1. PICK imported, named : mCirculatingBuffers' = Import(named, imported)
    BY DEF RequestRefused
<1>2. \A id \in DOMAIN mCirculatingBuffers :
         id \in DOMAIN mCirculatingBuffers' /\ mCirculatingBuffers[id] \subseteq mCirculatingBuffers'[id]
  <2> DEFINE new == Import(named, imported)
  <2>1. /\ DOMAIN new = DOMAIN mCirculatingBuffers \cup named
        /\ \A id \in DOMAIN mCirculatingBuffers : mCirculatingBuffers[id] \subseteq new[id]
      BY ImportIs
  <2>2. mCirculatingBuffers' = new
      BY <1>1
  <2> HIDE DEF new
  <2> QED BY <2>1, <2>2
<1>3. Uses' = Uses /\ waitedOut' = waitedOut
    BY DEF RequestRefused, Uses, QueuedUses
<1> QED BY <1>2, <1>3 DEF BuffersOutliveRequests

LEMMA BuffersImported ==
    ASSUME QueueInv, BuffersOutliveRequests, tablesDied = "no", NEW buffers \in RequestBuffers,
           RequestImported(buffers)
    PROVE  BuffersOutliveRequests'
<1>1. mCirculatingBuffers' = Import(Ids(Real(buffers)), buffers)
      /\ UNCHANGED <<processing, tableCall, waitedOut>>
    BY DEF RequestImported
<1>2. \A id \in DOMAIN mCirculatingBuffers :
         id \in DOMAIN mCirculatingBuffers' /\ mCirculatingBuffers[id] \subseteq mCirculatingBuffers'[id]
  <2> DEFINE new == Import(Ids(Real(buffers)), buffers)
  <2>1. /\ DOMAIN new = DOMAIN mCirculatingBuffers \cup Ids(Real(buffers))
        /\ \A id \in DOMAIN mCirculatingBuffers : mCirculatingBuffers[id] \subseteq new[id]
      BY ImportIs
  <2>2. mCirculatingBuffers' = new
      BY <1>1
  <2> HIDE DEF new
  <2> QED BY <2>1, <2>2
<1>3. ASSUME NEW use \in buffers, use[2] # NoBuffer
      PROVE  use[1] \in DOMAIN mCirculatingBuffers' /\ use[2] \in mCirculatingBuffers'[use[1]]
  <2>1. use \in StreamIdsUsed \X (BufferIds \cup {NoBuffer})
      BY DEF RequestBuffers, SentBuffers
  <2>2. use = <<use[1], use[2]>> /\ use[2] \in BufferIds
      BY <1>3, <2>1
  <2>3. use[1] \in Ids(Real(buffers))
      BY <1>3 DEF Ids, Real
  <2> DEFINE new == Import(Ids(Real(buffers)), buffers)
  <2>4. /\ DOMAIN new = DOMAIN mCirculatingBuffers \cup Ids(Real(buffers))
        /\ \A id \in Ids(Real(buffers)), b \in BufferIds : <<id, b>> \in buffers => b \in new[id]
      BY ImportIs
  <2>5. mCirculatingBuffers' = new
      BY <1>1
  <2> HIDE DEF new
  <2> QED BY <1>3, <2>2, <2>3, <2>4, <2>5
<1>4. ASSUME NEW k \in DOMAIN waiting', NEW use \in waiting'[k].buffers
      PROVE  use \in buffers \/ \E j \in DOMAIN waiting : use \in waiting[j].buffers
  <2>1. CASE UNCHANGED waiting
      BY <1>4, <2>1
  <2>2. CASE /\ frameCount < MaxStreamFrames /\ frameCount' = frameCount + 1
             /\ waiting' = Append(waiting, [frame |-> frameCount', buffers |-> buffers])
    <3> DEFINE request == [frame |-> frameCount', buffers |-> buffers]
    <3>1. frameCount' \in 1 .. MaxStreamFrames
      <4>1. frameCount \in 0 .. MaxStreamFrames
          BY DEF QueueInv, QueueTypes
      <4> QED BY <2>2, <4>1, TablesAssumption
    <3>2. request \in Requests /\ request.buffers = buffers /\ waiting \in Seq(Requests)
        BY <3>1 DEF Requests, RequestBuffers, QueueInv, QueueTypes
    <3>3. waiting' = Append(waiting, request)
        BY <2>2
    <3> HIDE DEF request
    <3> QED BY <1>4, <3>2, <3>3, AppendIs
  <2> QED BY <2>1, <2>2 DEF RequestImported
<1>5. ASSUME NEW use \in Uses' PROVE use \in Uses \/ (use \in buffers /\ use[2] # NoBuffer)
    BY <1>1, <1>4, <1>5, UsesAre, UsesAreNext
<1> QED BY <1>1, <1>2, <1>3, <1>5 DEF BuffersOutliveRequests

LEMMA BuffersLetGo ==
    ASSUME BuffersOutliveRequests, tablesDied = "no", QueueInv,
           NEW id \in StreamIdsUsed, NEW b \in BufferIds, updateBufferCaches(id, b)
    PROVE  BuffersOutliveRequests'
<1>1. /\ id \in DOMAIN mCirculatingBuffers /\ <<id, b>> \notin Uses
      /\ mCirculatingBuffers' = [mCirculatingBuffers EXCEPT ![id] = mCirculatingBuffers[id] \ {b}]
      /\ UNCHANGED <<waiting, processing, tableCall, waitedOut>>
    BY DEF updateBufferCaches
<1>2. Uses' = Uses
    BY <1>1 DEF Uses, QueuedUses
<1>3. ASSUME NEW use \in Uses PROVE use = <<use[1], use[2]>>
  <2>1. PICK r \in Requests : use \in r.buffers
      BY UsesAre DEF QueueInv, QueueTypes
  <2> QED BY <2>1 DEF Requests, SentBuffers
<1>4. ASSUME NEW use \in Uses, Imported(use)
      PROVE  use[1] \in DOMAIN mCirculatingBuffers' /\ use[2] \in mCirculatingBuffers'[use[1]]
  <2>1. use[1] # id \/ use[2] # b
      BY <1>1, <1>3
  <2> QED BY <1>1, <1>4, <2>1 DEF Imported
<1> QED BY <1>1, <1>2, <1>4 DEF BuffersOutliveRequests, Imported

LEMMA BuffersThread ==
    ASSUME BuffersOutliveRequests, tablesDied = "no", QueueInv,
           ThreadTakes \/ ThreadSettles \/ signalRequestDone
    PROVE  BuffersOutliveRequests'
<1>1. CASE ThreadTakes
  <2>1. /\ waiting \in Seq(Requests) /\ waiting # <<>>
        /\ processing' = {Head(waiting)} /\ waiting' = Tail(waiting)
        /\ UNCHANGED <<tableCall, mCirculatingBuffers, waitedOut>>
      BY <1>1 DEF QueueInv, QueueTypes, ThreadTakes
  <2>2. /\ 1 \in DOMAIN waiting /\ Head(waiting) = waiting[1]
        /\ \A k \in DOMAIN waiting' : k + 1 \in DOMAIN waiting /\ waiting'[k] = waiting[k + 1]
      BY <2>1, TailIs
  <2>3. Uses' \subseteq Uses
      BY <2>1, <2>2, UsesAre, UsesAreNext
  <2> QED BY <2>1, <2>3, ImportedKept
<1>2. CASE ThreadSettles
  <2>1. PICK r \in processing : processing' = {[r EXCEPT !.buffers = {}]}
      BY <1>2 DEF ThreadSettles
  <2>2. [r EXCEPT !.buffers = {}].buffers = {}
      BY DEF QueueInv, QueueTypes, Requests
  <2>3. UNCHANGED <<waiting, tableCall, mCirculatingBuffers, waitedOut>>
      BY <1>2 DEF ThreadSettles
  <2>4. Uses' \subseteq Uses
      BY <2>1, <2>2, <2>3, UsesAre, UsesAreNext
  <2> QED BY <2>3, <2>4, ImportedKept
<1>3. CASE signalRequestDone
  <2>1. processing' = {} /\ UNCHANGED <<waiting, tableCall, mCirculatingBuffers, waitedOut>>
      BY <1>3 DEF signalRequestDone
  <2>2. Uses' \subseteq Uses
      BY <2>1, UsesAre, UsesAreNext
  <2> QED BY <2>1, <2>2, ImportedKept
<1> QED BY <1>1, <1>2, <1>3

LEMMA BuffersCalls ==
    ASSUME BuffersOutliveRequests, tablesDied = "no", QueueInv,
           (\E at, keep : TakeList(at, keep)) \/ flushEnds \/ closeEnds \/ switchToOfflineEnds
    PROVE  BuffersOutliveRequests'
<1>1. ASSUME NEW at, NEW keep, TakeList(at, keep) PROVE BuffersOutliveRequests'
  <2>1. /\ tableCall' = [at |-> at, keep |-> keep, moved |-> {waiting[k] : k \in DOMAIN waiting}]
        /\ waiting' = <<>> /\ UNCHANGED <<processing, mCirculatingBuffers, waitedOut>>
      BY <1>1 DEF TakeList
  <2>2. tableCall'.moved = {waiting[k] : k \in DOMAIN waiting} /\ DOMAIN waiting' = {}
      BY <2>1
  <2>3. Uses' \subseteq Uses
      BY <2>1, <2>2, UsesAre, UsesAreNext
  <2> QED BY <2>1, <2>3, ImportedKept
<1>2. flushEnds \/ closeEnds \/ switchToOfflineEnds =>
         waiting = <<>> /\ waiting' = <<>> /\ tableCall'.moved = {} /\ processing' = processing
  <2>1. flushEnds \/ closeEnds \/ switchToOfflineEnds =>
           /\ tableCall.at \in {"flush", "close", "offline"} /\ tableCall' = NoTableCall
           /\ waiting' = waiting /\ processing' = processing
      BY DEF flushEnds, closeEnds, switchToOfflineEnds
  <2> QED BY <2>1 DEF QueueInv, PlacesInv, NoTableCall
<1>3. DOMAIN <<>> = {}
    OBVIOUS
<1>4. CASE flushEnds
  <2>1. Uses' \subseteq Uses
      BY <1>2, <1>3, <1>4, UsesAre, UsesAreNext
  <2> QED BY <1>4, <2>1, ImportedKept DEF flushEnds
<1>5. CASE closeEnds \/ switchToOfflineEnds
  <2>1. ~waitedOut' => processing = {}
      BY <1>5 DEF closeEnds, switchToOfflineEnds
  <2>2. ~waitedOut' => Uses' = {}
      BY <1>2, <1>3, <1>5, <2>1, UsesAreNext
  <2> QED BY <2>2, NothingImported
<1> QED BY <1>1, <1>4, <1>5

LEMMA BuffersNext ==
    ASSUME BuffersOutliveRequests, QueueInv, [TablesNext]_tableVars
    PROVE  BuffersOutliveRequests'
<1>1. CASE UNCHANGED <<mCirculatingBuffers, waiting, processing, tableCall, waitedOut, tablesDied>>
    BY <1>1 DEF BuffersOutliveRequests, Uses, QueuedUses
<1>2. CASE switchToOfflineKeeps
    BY <1>2 DEF switchToOfflineKeeps, BuffersOutliveRequests
<1> QED BY <1>1, <1>2, BuffersConfigured, BuffersRefused, BuffersImported, BuffersLetGo,
           BuffersThread, BuffersCalls
        DEF TablesNext, switchToOfflineRefused, tableVars

LEMMA BuffersInit ==
    ASSUME TablesInit PROVE BuffersOutliveRequests
<1>1. waiting = <<>> /\ processing = {} /\ tableCall.moved = {} /\ DOMAIN waiting = {}
    BY DEF TablesInit, NoTableCall
<1>2. Uses = {}
    BY <1>1, UsesAre
<1> QED BY <1>2 DEF BuffersOutliveRequests

(* BuffersOutliveRequests for any streams, buffers and number of requests: *)
(* no buffer a request points to is freed before the request is settled,   *)
(* unless switchToOffline has gone on without it.                          *)
THEOREM BuffersOutliveRequestsHolds == Spec => []BuffersOutliveRequests
<1>1. Init => QueueInv /\ BuffersOutliveRequests
    BY QueueInit, BuffersInit DEF Init
<1>2. QueueInv /\ BuffersOutliveRequests /\ [Next]_vars => (QueueInv /\ BuffersOutliveRequests)'
    BY QueueNext, BuffersNext, PartSteps
<1> QED BY <1>1, <1>2, PTL DEF Spec

-----------------------------------------------------------------------------
(* The types of the two tables, and of the rest of that part.              *)
StreamMapTyped ==
    /\ DOMAIN mStreamMap \subseteq StreamIdsUsed
    /\ \A id \in DOMAIN mStreamMap : mStreamMap[id] \in StreamFormats \cup {"none"}

BuffersTyped ==
    /\ DOMAIN mCirculatingBuffers \subseteq StreamIdsUsed
    /\ \A id \in DOMAIN mCirculatingBuffers : mCirculatingBuffers[id] \in SUBSET BufferIds

TableTypes ==
    /\ StreamMapTyped /\ BuffersTyped
    /\ tableCall \in [at : {"idle", "flush", "close", "offline"}, keep : SUBSET StreamIdsUsed,
                      moved : SUBSET Requests]
    /\ streamsClosed \in BOOLEAN /\ waitedOut \in BOOLEAN
    /\ strange \subseteq StreamIdsUsed /\ poisoned \subseteq StreamIdsUsed
    /\ tablesDied \in {"no", "at", "frame"}

LEMMA StreamMapPut ==
    ASSUME StreamMapTyped, NEW ids \in SUBSET StreamIdsUsed, mStreamMap' = Put(mStreamMap, ids, "none")
    PROVE  StreamMapTyped'
<1>1. mStreamMap' = [id \in DOMAIN mStreamMap \cup ids |->
                        IF id \in DOMAIN mStreamMap THEN mStreamMap[id] ELSE "none"]
    BY DEF Put
<1> QED BY <1>1 DEF StreamMapTyped

LEMMA StreamMapWithout ==
    ASSUME StreamMapTyped, NEW ids, mStreamMap' = Without(mStreamMap, ids)
    PROVE  StreamMapTyped'
<1>1. mStreamMap' = [id \in DOMAIN mStreamMap \ ids |-> mStreamMap[id]]
    BY DEF Without
<1> QED BY <1>1 DEF StreamMapTyped

LEMMA BuffersWithout ==
    ASSUME BuffersTyped, NEW ids, mCirculatingBuffers' = Without(mCirculatingBuffers, ids)
    PROVE  BuffersTyped'
<1>1. mCirculatingBuffers' = [id \in DOMAIN mCirculatingBuffers \ ids |-> mCirculatingBuffers[id]]
    BY DEF Without
<1> QED BY <1>1 DEF BuffersTyped

LEMMA NothingTyped ==
    /\ mStreamMap' = NoEntries => StreamMapTyped'
    /\ mCirculatingBuffers' = NoEntries => BuffersTyped'
BY NoEntriesDomain DEF StreamMapTyped, BuffersTyped

LEMMA TableTypesInit ==
    ASSUME TablesInit PROVE TableTypes
<1>1. NoTableCall \in [at : {"idle", "flush", "close", "offline"}, keep : SUBSET StreamIdsUsed,
                       moved : SUBSET Requests]
    BY DEF NoTableCall
<1> QED BY <1>1, NoEntriesDomain DEF TablesInit, TableTypes, StreamMapTyped, BuffersTyped

LEMMA IdsUsed ==
    ASSUME NEW buffers \in RequestBuffers
    PROVE  /\ Ids(buffers) \subseteq StreamIdsUsed /\ Ids(Real(buffers)) \subseteq StreamIdsUsed
           /\ \A use \in buffers : use[2] # NoBuffer => use[2] \in BufferIds
BY DEF RequestBuffers, SentBuffers, Ids, Real

(* An import keeps the types.                                              *)
LEMMA ImportTypes ==
    ASSUME TableTypes, NEW named \in SUBSET StreamIdsUsed, NEW buffers,
           mCirculatingBuffers' = Import(named, buffers)
    PROVE  BuffersTyped'
<1> DEFINE new == Import(named, buffers)
<1>1. /\ DOMAIN new = DOMAIN mCirculatingBuffers \cup named
      /\ \A id \in DOMAIN mCirculatingBuffers \cup named : \A b \in new[id] :
            b \in BufferIds \/ (id \in DOMAIN mCirculatingBuffers /\ b \in mCirculatingBuffers[id])
    BY ImportIs
<1>2. mCirculatingBuffers' = new
    OBVIOUS
<1> HIDE DEF new
<1>3. \A id \in DOMAIN new : \A b \in new[id] : b \in BufferIds
    BY <1>1 DEF TableTypes, StreamMapTyped, BuffersTyped
<1> QED BY <1>1, <1>2, <1>3 DEF TableTypes, StreamMapTyped, BuffersTyped

LEMMA TypesConfigured ==
    ASSUME TableTypes, NEW config \in Configurations, configureStreams(config) PROVE TableTypes'
<1>1. DOMAIN config \subseteq StreamIdsUsed /\ \A id \in DOMAIN config : config[id] \in StreamFormats
    BY DEF Configurations
<1>2. StreamMapTyped'
  <2>1. PICK overridden \in SUBSET {id \in DOMAIN config : config[id] = "VIDEO"} :
           mStreamMap' = [id \in DOMAIN config |->
              IF id \in DOMAIN mStreamMap \ overridden THEN mStreamMap[id] ELSE config[id]]
      BY DEF configureStreams
  <2>2. \A id \in DOMAIN mStreamMap : mStreamMap[id] \in StreamFormats \cup {"none"}
      BY DEF TableTypes, StreamMapTyped
  <2> QED BY <1>1, <2>1, <2>2 DEF StreamMapTyped
<1>3. BuffersTyped' /\ tablesDied' \in {"no", "at"}
  <2> DEFINE new == DOMAIN config \ DOMAIN mStreamMap
             gone == DOMAIN mStreamMap \ DOMAIN config
             table == Put(mCirculatingBuffers, new, {})
  <2>1. mCirculatingBuffers' = Without(table, gone) /\ tablesDied' \in {"no", "at"}
      BY DEF configureStreams, CleanUp, EntriesFor
  <2>2. new \subseteq StreamIdsUsed
      BY <1>1
  <2> HIDE DEF new
  <2>3. /\ DOMAIN table = DOMAIN mCirculatingBuffers \cup new
        /\ \A id \in DOMAIN mCirculatingBuffers \cup new :
              table[id] = IF id \in DOMAIN mCirculatingBuffers THEN mCirculatingBuffers[id] ELSE {}
      BY PutDomain
  <2> HIDE DEF table
  <2>4. \A id \in DOMAIN table : table[id] \in SUBSET BufferIds
      BY <2>3 DEF TableTypes, StreamMapTyped, BuffersTyped
  <2>5. /\ DOMAIN Without(table, gone) = DOMAIN table \ gone
        /\ \A id \in DOMAIN Without(table, gone) : Without(table, gone)[id] \in SUBSET BufferIds
    <3>1. \A id \in DOMAIN Without(table, gone) : Without(table, gone)[id] \in SUBSET BufferIds
        BY <2>4 DEF Without
    <3> QED BY <3>1, WithoutDomain
  <2>6. DOMAIN table \subseteq StreamIdsUsed
      BY <2>3, <2>2 DEF TableTypes, StreamMapTyped, BuffersTyped
  <2> QED BY <2>1, <2>5, <2>6 DEF BuffersTyped
<1> QED BY <1>1, <1>2, <1>3 DEF configureStreams, TableTypes, StreamMapTyped, BuffersTyped

LEMMA TypesRequests ==
    ASSUME TableTypes, NEW buffers \in RequestBuffers,
           RequestRefused(buffers) \/ RequestImported(buffers)
    PROVE  TableTypes'
<1>1. CASE RequestRefused(buffers)
  <2>1. PICK imported \in SUBSET Real(buffers), named \in SUBSET Ids(Real(buffers)) :
           /\ mCirculatingBuffers' = Import(named, imported)
           /\ strange' = strange \cup (named \ DOMAIN mStreamMap)
      BY <1>1 DEF RequestRefused
  <2>2. BuffersTyped'
      BY <2>1, IdsUsed, ImportTypes
  <2>3. strange' \subseteq StreamIdsUsed /\ poisoned' \subseteq StreamIdsUsed
      BY <1>1, <2>1, IdsUsed DEF RequestRefused, TableTypes, StreamMapTyped, BuffersTyped
  <2> QED BY <1>1, <2>2, <2>3 DEF RequestRefused, TableTypes, StreamMapTyped, BuffersTyped
<1>2. CASE RequestImported(buffers)
  <2>1. BuffersTyped'
      BY <1>2, IdsUsed, ImportTypes DEF RequestImported
  <2>2. StreamMapTyped'
    <3>1. mStreamMap' = Put(mStreamMap, Ids(buffers), "none")
        BY <1>2 DEF RequestImported
    <3> QED BY <3>1, IdsUsed, StreamMapPut DEF TableTypes
  <2>3. poisoned' \subseteq StreamIdsUsed
    <3>1. poisoned' \subseteq poisoned \cup Ids(buffers)
        BY <1>2 DEF RequestImported, NewWithout
    <3> QED BY <3>1, IdsUsed DEF TableTypes
  <2> QED BY <1>2, <2>1, <2>2, <2>3 DEF RequestImported, TableTypes, StreamMapTyped, BuffersTyped
<1> QED BY <1>1, <1>2

LEMMA TypesCalls ==
    ASSUME TableTypes, QueueTypes,
           \/ TakeList("flush", {}) \/ TakeList("close", {})
           \/ \E keep \in Keepable : TakeList("offline", keep)
           \/ flushEnds \/ closeEnds \/ switchToOfflineKeeps \/ switchToOfflineEnds
           \/ \E id \in StreamIdsUsed : switchToOfflineRefused(id)
    PROVE  TableTypes'
<1>1. NoTableCall \in [at : {"idle", "flush", "close", "offline"}, keep : SUBSET StreamIdsUsed,
                       moved : SUBSET Requests]
    BY DEF NoTableCall
<1>2. ASSUME NEW at \in {"flush", "close", "offline"}, NEW keep \in SUBSET StreamIdsUsed,
             TakeList(at, keep)
      PROVE  TableTypes'
  <2>1. {waiting[k] : k \in DOMAIN waiting} \in SUBSET Requests
      BY DEF QueueTypes
  <2>2. tableCall' \in [at : {"idle", "flush", "close", "offline"}, keep : SUBSET StreamIdsUsed,
                        moved : SUBSET Requests]
      BY <1>2, <2>1 DEF TakeList
  <2> QED BY <1>2, <2>2 DEF TakeList, TableTypes, StreamMapTyped, BuffersTyped
<1>3. Keepable \subseteq SUBSET StreamIdsUsed
    BY DEF Keepable
<1>4. CASE flushEnds
    BY <1>1, <1>4 DEF flushEnds, TableTypes, StreamMapTyped, BuffersTyped
<1>5. CASE closeEnds
  <2>1. mCirculatingBuffers' = Without(mCirculatingBuffers, DOMAIN mStreamMap)
        /\ tablesDied' \in {"no", "at"}
      BY <1>5 DEF closeEnds, CleanUp
  <2>2. BuffersTyped'
      BY <2>1, BuffersWithout DEF TableTypes
  <2> QED BY <1>1, <1>5, <2>1, <2>2 DEF closeEnds, TableTypes, StreamMapTyped, BuffersTyped
<1>6. CASE switchToOfflineKeeps
    BY <1>6 DEF switchToOfflineKeeps, TableTypes, StreamMapTyped, BuffersTyped
<1>7. CASE switchToOfflineEnds
  <2>1. StreamMapTyped'
    <3>1. CASE mStreamMap' = NoEntries
        BY <3>1, NothingTyped
    <3>2. CASE mStreamMap' = Without(mStreamMap, tableCall.keep)
        BY <3>2, StreamMapWithout DEF TableTypes
    <3> QED BY <1>7, <3>1, <3>2 DEF switchToOfflineEnds
  <2>2. BuffersTyped'
    <3>1. CASE mCirculatingBuffers' = NoEntries
        BY <3>1, NothingTyped
    <3>2. CASE mCirculatingBuffers' = Without(mCirculatingBuffers, tableCall.keep)
        BY <3>2, BuffersWithout DEF TableTypes
    <3> QED BY <1>7, <3>1, <3>2 DEF switchToOfflineEnds
  <2>3. tablesDied' \in {"no", "at", "frame"} /\ waitedOut' \in BOOLEAN
      BY <1>7 DEF switchToOfflineEnds, TableTypes, StreamMapTyped, BuffersTyped
  <2> QED BY <1>1, <1>7, <2>1, <2>2, <2>3 DEF switchToOfflineEnds, TableTypes, StreamMapTyped, BuffersTyped
<1>8. ASSUME NEW id \in StreamIdsUsed, switchToOfflineRefused(id) PROVE TableTypes'
  <2>1. mStreamMap' = Put(mStreamMap, {id}, "none")
      BY <1>8 DEF switchToOfflineRefused
  <2>2. StreamMapTyped'
      BY <2>1, StreamMapPut DEF TableTypes
  <2> QED BY <1>8, <2>2 DEF switchToOfflineRefused, NewWithout, TableTypes, StreamMapTyped, BuffersTyped
<1> QED BY <1>2, <1>3, <1>4, <1>5, <1>6, <1>7, <1>8

LEMMA TableTypesNext ==
    ASSUME TableTypes, QueueTypes, [TablesNext]_tableVars PROVE TableTypes'
<1>1. ASSUME NEW id \in StreamIdsUsed, NEW b \in BufferIds, updateBufferCaches(id, b)
      PROVE  TableTypes'
  <2>1. /\ DOMAIN mCirculatingBuffers' = DOMAIN mCirculatingBuffers
        /\ \A i \in DOMAIN mCirculatingBuffers : mCirculatingBuffers'[i] \subseteq mCirculatingBuffers[i]
      BY <1>1 DEF updateBufferCaches
  <2> QED BY <1>1, <2>1 DEF updateBufferCaches, TableTypes, StreamMapTyped, BuffersTyped
<1>2. CASE ThreadTakes \/ ThreadSettles \/ signalRequestDone
    BY <1>2 DEF ThreadTakes, ThreadSettles, signalRequestDone, TableTypes, StreamMapTyped, BuffersTyped
<1>3. CASE UNCHANGED tableVars
    BY <1>3 DEF tableVars, TableTypes, StreamMapTyped, BuffersTyped
<1> QED BY <1>1, <1>2, <1>3, TypesConfigured, TypesRequests, TypesCalls DEF TablesNext

LEMMA TablesTyped ==
    ASSUME TableTypes, QueueTypes PROVE TablesTypeOK
BY DEF TableTypes, QueueTypes, StreamMapTyped, BuffersTyped, TablesTypeOK

-----------------------------------------------------------------------------
(* FormatsUsable for whatever a configuration file lists: the formats are  *)
(* those made of good limits, and the array they are cut from is the       *)
(* largest size or one that crosses it.                                    *)
THEOREM FormatsUsableHolds == Spec => []FormatsUsable
<1>1. Init => FormatsInv
    BY PartsInit, FormatsInvInit
<1>2. FormatsInv /\ [Next]_vars => FormatsInv'
    BY PartSteps, FormatsInvNext
<1>3. FormatsInv => FormatsUsable
    BY FormatsInvGives
<1> QED BY <1>1, <1>2, <1>3, PTL DEF Spec

-----------------------------------------------------------------------------
(* What the CEC service has here is what it has by itself.                 *)
LEMMA CecServiceInside == Spec => CecSpec
<1>1. Init => CecInit
    BY PartsInit
<1>2. [Next]_vars => [CecNext]_cecVars
    BY PartSteps
<1> QED BY <1>1, <1>2, PTL DEF Spec, CecSpec

LEMMA ImageTyped ==
    ASSUME PictureInv, ConvInv PROVE ImageTypeOK
BY DEF PictureInv, PictureTypes, Triggers, Flags, ConvInv, ConvTypes, Conversions, Releases, ImageTypeOK

(* Type correctness of all parts, for any bounds.                          *)
THEOREM TypeCorrect == Spec => []TypeOK
<1> DEFINE Types == /\ part \in Parts
                    /\ StreamInv /\ ObserverInv /\ KeyInv
                    /\ TableTypes /\ QueueInv /\ FormatsInv
<1>1. Init => Types
  <2>1. Init => StreamInv /\ ObserverInv /\ KeyInv
      BY PartsInit, StreamInvInit, ObserverInvInit, KeyInvInit
  <2>2. Init => TableTypes /\ QueueInv /\ FormatsInv
      BY PartsInit, TableTypesInit, QueueInit, FormatsInvInit
  <2>3. Init => part \in Parts
      BY DEF Init
  <2> QED BY <2>1, <2>2, <2>3
<1>2. Types /\ [Next]_vars => Types'
  <2> SUFFICES ASSUME Types, [Next]_vars PROVE Types'
      OBVIOUS
  <2>1. StreamInv' /\ ObserverInv' /\ KeyInv'
      BY PartSteps, StreamInvNext, ObserverInvNext, KeyInvNext
  <2>2. QueueInv' /\ FormatsInv'
      BY PartSteps, QueueNext, FormatsInvNext
  <2>3. TableTypes'
      BY PartSteps, TableTypesNext DEF QueueInv
  <2>4. part' = part
      BY DEF Next, vars, Tv, Image, Keys, Tables, Formats, Cec
  <2> QED BY <2>1, <2>2, <2>3, <2>4
<1>3. Types /\ PictureInv /\ ConvInv /\ CecTypeOK => TypeOK
  <2>1. Types => TvTypeOK /\ KeyTypeOK
      BY TvInvGives, KeyInvGives
  <2>2. Types => TablesTypeOK
      BY TablesTyped DEF QueueInv
  <2>3. Types => FormatsTypeOK
      BY FormatsInvGives
  <2> QED BY <2>1, <2>2, <2>3, ImageTyped DEF TypeOK
<1> QED BY <1>1, <1>2, <1>3, ImageInvariant, CecServiceInside, CecTypeCorrect, PTL DEF Spec
=============================================================================
