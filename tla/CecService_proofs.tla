-------------------------- MODULE CecService_proofs --------------------------
(***************************************************************************)
(* Proofs about CecService for any number of adapters and of processes of  *)
(* the framework, and any bounds.                                          *)
(***************************************************************************)
EXTENDS CecService, TLAPS

USE CecServiceAssumption

CallPlaces == {"none", "waits", "tests", "calls"}

ConnectorTypes ==
    /\ construction \in {"scan", "init", "state", "store", "done", "failed"}
    /\ toOpen \subseteq Adapters /\ stateRead \in BOOLEAN
    /\ receiver \in [Adapters -> CallPlaces]
    /\ watcher \in CallPlaces \cup {"starts", "failed"}
    /\ plugEvents \in Seq(BOOLEAN) /\ plugged \in BOOLEAN /\ plugs \in 0 .. MaxPlugs
    /\ mConnect \in BOOLEAN /\ messages \in 0 .. MaxMessages
    /\ stale \in BOOLEAN

CallbackTypes ==
    /\ mCbf \in BOOLEAN /\ mCallback \in Frameworks \cup {Nobody}
    /\ linked \subseteq Frameworks /\ notices \subseteq Frameworks /\ alive \subseteq Frameworks
    /\ setting \in Frameworks \cup {Nobody} /\ chosen \in Frameworks \cup {Nobody}
    /\ setCallbacks \in 0 .. MaxSetCallbacks /\ cecDied \in BOOLEAN

connectorTypeVars == <<construction, toOpen, stateRead, receiver, watcher, plugEvents, plugged, plugs,
                       mConnect, messages, stale>>

LEMMA ConnectorStutter ==
    ASSUME ConnectorTypes, UNCHANGED connectorTypeVars PROVE ConnectorTypes'
BY DEF ConnectorTypes, connectorTypeVars

LEMMA TypesInit ==
    ASSUME CecInit PROVE ConnectorTypes /\ CallbackTypes
<1>1. <<>> \in Seq(BOOLEAN) /\ 0 \in 0 .. MaxPlugs /\ 0 \in 0 .. MaxMessages
      /\ 0 \in 0 .. MaxSetCallbacks
    OBVIOUS
<1>2. ConnectorTypes
    BY <1>1 DEF CecInit, ConnectorTypes, CallPlaces
<1>3. CallbackTypes
    BY <1>1 DEF CecInit, CallbackTypes
<1> QED BY <1>2, <1>3

LEMMA ConnectorTypesNext ==
    ASSUME ConnectorTypes, [CecNext]_cecVars PROVE ConnectorTypes'
<1>1. ASSUME NEW a \in Adapters, OpenAdapter(a) PROVE ConnectorTypes'
    BY <1>1 DEF OpenAdapter, init, ConnectorTypes, CallPlaces, connectorVars
<1>2. ASSUME NEW a \in Adapters, msgEventThread(a) PROVE ConnectorTypes'
  <2>1. messages < MaxMessages /\ messages' = messages + 1 /\ messages \in 0 .. MaxMessages
      BY <1>2 DEF msgEventThread, ConnectorTypes
  <2>2. messages' \in 0 .. MaxMessages
      BY <2>1
  <2>3. receiver' \in [Adapters -> CallPlaces]
      BY <1>2 DEF msgEventThread, ConnectorTypes, CallPlaces
  <2> QED BY <1>2, <2>2, <2>3 DEF msgEventThread, ConnectorTypes, connectorVars, startVars
<1>3. CASE StartWatcher \/ cec_init
    BY <1>3 DEF StartWatcher, cec_init, ConnectorTypes, CallPlaces, connectorVars
<1>4. CASE ReadState \/ StoreState
    BY <1>4 DEF ReadState, StoreState, getHdmiCecState, ConnectorTypes, connectorVars
<1>5. CASE WatcherBinds
    BY <1>5 DEF WatcherBinds, ConnectorTypes, CallPlaces, connectorVars, startVars
<1>6. CASE CableMoves
  <2>1. plugs < MaxPlugs /\ plugs' = plugs + 1 /\ plugs \in 0 .. MaxPlugs
      BY <1>6 DEF CableMoves, ConnectorTypes
  <2>2. plugs' \in 0 .. MaxPlugs
      BY <2>1
  <2>3. plugged' \in BOOLEAN /\ plugEvents' \in Seq(BOOLEAN)
    <3>1. plugged' \in BOOLEAN
        BY <1>6 DEF CableMoves
    <3>2. plugEvents' = (IF Hears THEN Append(plugEvents, plugged') ELSE plugEvents)
          /\ plugEvents \in Seq(BOOLEAN)
        BY <1>6 DEF CableMoves, ConnectorTypes
    <3>3. \A S : \A s \in Seq(S) : \A e \in S : Append(s, e) \in Seq(S)
        OBVIOUS
    <3>4. Append(plugEvents, plugged') \in Seq(BOOLEAN)
        BY <3>1, <3>2, <3>3
    <3> QED BY <3>1, <3>2, <3>4
  <2>4. stale' \in BOOLEAN
      BY <1>6 DEF CableMoves, ConnectorTypes, Hears
  <2> QED BY <1>6, <2>2, <2>3, <2>4 DEF CableMoves, ConnectorTypes, startVars
<1>7. CASE handleCecUEvents
  <2>1. Tail(plugEvents) \in Seq(BOOLEAN) /\ Head(plugEvents) \in BOOLEAN
      BY <1>7 DEF handleCecUEvents, ConnectorTypes
  <2> QED BY <1>7, <2>1 DEF handleCecUEvents, ConnectorTypes, CallPlaces, startVars
<1>8. CASE eventCallback
  <2>1. receiver' \in [Adapters -> CallPlaces]
      BY <1>8 DEF eventCallback, ConnectorTypes, CallPlaces
  <2>2. watcher' \in CallPlaces \cup {"starts", "failed"}
      BY <1>8 DEF eventCallback, Steps, EventTests, EventCalls, ConnectorTypes, CallPlaces
  <2> QED BY <1>8, <2>1, <2>2 DEF eventCallback, ConnectorTypes, connectorVars, startVars
<1>9. CASE UNCHANGED connectorTypeVars
    BY <1>9, ConnectorStutter
<1> QED BY <1>1, <1>2, <1>3, <1>4, <1>5, <1>6, <1>7, <1>8, <1>9
        DEF CecNext, setCallback, setCallbackSets, FrameworkDies, serviceDied, cecVars, startVars,
            connectorVars, callbackVars, connectorTypeVars

-----------------------------------------------------------------------------
(* The framework's callback.                                               *)

(* Between the halves of setCallback there is no callback and no death to  *)
(* report; else the one set last is in use while its process lives, and    *)
(* its death, but no other, is reported.                                   *)
LinkInv ==
    /\ setting # Nobody => mCallback = Nobody /\ chosen = setting
    /\ setting = Nobody /\ chosen \in alive => mCallback = chosen
    /\ linked \cup notices \subseteq {mCallback}
    /\ notices \cap alive = {}
    /\ mCallback \in alive => mCallback \in linked
    /\ mCallback \in alive \/ mCallback \in notices \/ mCallback = Nobody

CallbackInv == CallbackTypes /\ LinkInv

LEMMA ClearStep ==
    ASSUME CallbackInv, NEW reported \in SUBSET notices, Clear(reported)
    PROVE  mCallback' = Nobody /\ linked' = {} /\ notices' = {}
BY DEF CallbackInv, CallbackTypes, LinkInv, Clear, unlinkToDeath

LEMMA CallbackInvNext ==
    ASSUME CallbackInv, [CecNext]_cecVars PROVE CallbackInv'
<1>1. ASSUME NEW callback \in Frameworks \cup {Nobody}, setCallback(callback) PROVE CallbackInv'
  <2>1. mCallback' = Nobody /\ linked' = {} /\ notices' = {}
      BY <1>1, ClearStep DEF setCallback
  <2>2. setCallbacks' \in 0 .. MaxSetCallbacks
    <3>1. setCallbacks < MaxSetCallbacks /\ setCallbacks' = setCallbacks + 1
          /\ setCallbacks \in 0 .. MaxSetCallbacks
        BY <1>1 DEF setCallback, CallbackInv, CallbackTypes
    <3> QED BY <3>1
  <2>3. setting' = callback /\ chosen' = callback /\ UNCHANGED <<mCbf, alive, cecDied>>
      BY <1>1 DEF setCallback
  <2> QED BY <2>1, <2>2, <2>3 DEF CallbackInv, CallbackTypes, LinkInv
<1>2. CASE setCallbackSets
    BY <1>2 DEF setCallbackSets, CallbackInv, CallbackTypes, LinkInv
<1>3. ASSUME NEW f \in Frameworks, FrameworkDies(f) PROVE CallbackInv'
    BY <1>3 DEF FrameworkDies, CallbackInv, CallbackTypes, LinkInv
<1>4. ASSUME NEW f \in Frameworks, serviceDied(f) PROVE CallbackInv'
  <2>1. mCallback' = Nobody /\ linked' = {} /\ notices' = {}
      BY <1>4, ClearStep DEF serviceDied
  <2>2. mCallback = f /\ f \notin alive
      BY <1>4 DEF serviceDied, CallbackInv, LinkInv
  <2>3. UNCHANGED <<mCbf, setting, alive, setCallbacks, chosen, cecDied>>
      BY <1>4 DEF serviceDied
  <2> QED BY <2>1, <2>2, <2>3 DEF CallbackInv, CallbackTypes, LinkInv
<1>5. CASE UNCHANGED callbackVars /\ cecDied' \in BOOLEAN
    BY <1>5 DEF callbackVars, CallbackInv, CallbackTypes, LinkInv
<1>6. eventCallback => cecDied' \in BOOLEAN
    BY DEF eventCallback, Steps, EventCalls, CallbackInv, CallbackTypes
<1>7. cecDied' = cecDied => cecDied' \in BOOLEAN
    BY DEF CallbackInv, CallbackTypes
<1> QED BY <1>1, <1>2, <1>3, <1>4, <1>5, <1>6, <1>7
        DEF CecNext, OpenAdapter, msgEventThread, StartWatcher, cec_init, ReadState, StoreState,
            WatcherBinds, CableMoves, handleCecUEvents, eventCallback, cecVars

(* The types of the CEC service's state, with every adapter's thread.      *)
THEOREM CecTypeCorrect == CecSpec => []CecTypeOK
<1> DEFINE Inv == ConnectorTypes /\ CallbackInv
<1>1. CecInit => Inv
  <2>1. CecInit => LinkInv
      BY DEF CecInit, LinkInv
  <2> QED BY <2>1, TypesInit DEF CallbackInv
<1>2. Inv /\ [CecNext]_cecVars => Inv'
    BY ConnectorTypesNext, CallbackInvNext
<1>3. Inv => CecTypeOK
    BY DEF ConnectorTypes, CallbackInv, CallbackTypes, CecTypeOK, CallPlaces
<1> QED BY <1>1, <1>2, <1>3, PTL DEF CecSpec

(* A notice of death never clears the callback of a living framework, and  *)
(* a dead one is always about to be cleared, whatever is set in between.   *)
THEOREM CallbackFollowsFrameworkHolds == CecSpec => []CallbackFollowsFramework
<1>1. CecInit => CallbackInv
  <2>1. CecInit => LinkInv
      BY DEF CecInit, LinkInv
  <2> QED BY <2>1, TypesInit DEF CallbackInv
<1>2. CallbackInv /\ [CecNext]_cecVars => CallbackInv'
    BY CallbackInvNext
<1>3. CallbackInv => CallbackFollowsFramework
    BY DEF CallbackInv, LinkInv, CallbackFollowsFramework
<1> QED BY <1>1, <1>2, <1>3, PTL DEF CecSpec

-----------------------------------------------------------------------------
(* The state of the cable.                                                 *)

Before == construction \in {"scan", "init", "state"}

(* The events unread end with the present state of the cable.  With none   *)
(* unread, what mConnect holds, or will hold when the constructor has      *)
(* stored what it read, is that state; what may spoil it makes it stale.   *)
CableInv ==
    /\ construction = "scan" => watcher = "none"
    /\ ~Hears => plugEvents = <<>>
    /\ plugEvents # <<>> => plugEvents[Len(plugEvents)] = plugged
    /\ Before => ~stale /\ (mConnect => Hears)
    /\ Before /\ mConnect /\ plugEvents = <<>> => plugged
    /\ construction = "store" /\ ~stale /\ plugEvents = <<>> =>
          stateRead = plugged /\ (mConnect => plugged)
    /\ construction = "done" /\ ~stale /\ plugEvents = <<>> => mConnect = plugged

LEMMA CableInvNext ==
    ASSUME ConnectorTypes, CableInv, [CecNext]_cecVars PROVE CableInv'
<1>1. /\ construction \in {"scan", "init", "state", "store", "done", "failed"}
      /\ plugged \in BOOLEAN /\ mConnect \in BOOLEAN /\ stateRead \in BOOLEAN /\ stale \in BOOLEAN
      /\ plugEvents \in Seq(BOOLEAN)
    BY DEF ConnectorTypes
<1>2. CASE StartWatcher
  <2>1. construction = "scan" /\ construction' \in {"init", "failed"}
        /\ UNCHANGED <<stateRead, plugEvents, plugged, mConnect, stale>>
        /\ ~Hears /\ ~Hears'
      BY <1>2 DEF StartWatcher, connectorVars, Hears, CableInv
  <2> QED BY <2>1 DEF CableInv, Before
<1>3. CASE cec_init
    BY <1>3 DEF cec_init, CableInv, Before, Hears, connectorVars
<1>4. CASE ReadState
    BY <1>1, <1>4 DEF ReadState, getHdmiCecState, CableInv, Before, Hears, connectorVars
<1>5. CASE StoreState
    BY <1>1, <1>5 DEF StoreState, CableInv, Before, Hears, connectorVars
<1>6. CASE WatcherBinds
    BY <1>1, <1>6 DEF WatcherBinds, CableInv, Before, Hears, connectorVars, startVars
<1>7. CASE CableMoves
  <2>1. /\ plugged' = ~plugged /\ plugEvents' = IF Hears THEN Append(plugEvents, plugged') ELSE plugEvents
        /\ stale' = (stale \/ (~Hears /\ construction \in {"store", "done"}))
        /\ Hears' = Hears /\ UNCHANGED <<construction, stateRead, mConnect, watcher>>
      BY <1>7 DEF CableMoves, startVars, Hears
  <2>2. CASE Hears
    <3>1. plugEvents' # <<>> /\ plugEvents'[Len(plugEvents')] = plugged'
        BY <1>1, <2>1, <2>2
    <3> QED BY <2>1, <2>2, <3>1 DEF CableInv, Before
  <2>3. CASE ~Hears
      BY <1>1, <2>1, <2>3 DEF CableInv, Before
  <2> QED BY <2>2, <2>3
<1>8. CASE handleCecUEvents
  <2>1. /\ plugEvents # <<>> /\ plugEvents' = Tail(plugEvents) /\ mConnect' = Head(plugEvents)
        /\ stale' = (construction = "store") /\ Hears /\ Hears' /\ construction # "scan"
        /\ UNCHANGED <<construction, stateRead, plugged>>
      BY <1>8 DEF handleCecUEvents, startVars, Hears, CableInv
  <2>2. plugEvents' = <<>> => mConnect' = plugged
    <3>1. Len(plugEvents) \in Nat \ {0} /\ Len(Tail(plugEvents)) = Len(plugEvents) - 1
          /\ Head(plugEvents) = plugEvents[1]
        BY <1>1, <2>1
    <3>2. Tail(plugEvents) = <<>> => Len(plugEvents) = 1
      <4>1. Len(<<>>) = 0
          OBVIOUS
      <4>2. Tail(plugEvents) = <<>> => Len(Tail(plugEvents)) = 0
          BY <4>1
      <4> QED BY <3>1, <4>2
    <3> QED BY <2>1, <3>1, <3>2 DEF CableInv
  <2>3. plugEvents' # <<>> => plugEvents'[Len(plugEvents')] = plugged
    <3> SUFFICES ASSUME Tail(plugEvents) # <<>> PROVE plugEvents'[Len(plugEvents')] = plugged
        BY <2>1
    <3>1. Len(Tail(plugEvents)) = Len(plugEvents) - 1 /\ Len(Tail(plugEvents)) \in Nat \ {0}
        BY <1>1, <2>1
    <3>2. Tail(plugEvents)[Len(Tail(plugEvents))] = plugEvents[Len(plugEvents)]
        BY <1>1, <2>1, <3>1
    <3> QED BY <2>1, <3>2 DEF CableInv
  <2> QED BY <1>1, <2>1, <2>2, <2>3 DEF CableInv, Before
<1>9. CASE /\ UNCHANGED <<construction, stateRead, plugEvents, plugged, mConnect, stale>>
           /\ Hears' = Hears /\ (watcher = "none" => watcher' = "none")
    BY <1>9 DEF CableInv, Before
<1>10. eventCallback => Hears' = Hears /\ (watcher = "none" => watcher' = "none")
    BY DEF eventCallback, Steps, EventTests, EventCalls, Hears
<1>11. watcher' = watcher => Hears' = Hears
    BY DEF Hears
<1> QED BY <1>2, <1>3, <1>4, <1>5, <1>6, <1>7, <1>8, <1>9, <1>10, <1>11
        DEF CecNext, OpenAdapter, msgEventThread, eventCallback, setCallback, setCallbackSets,
            FrameworkDies, serviceDied, cecVars, startVars, connectorVars, callbackVars

(* The constructor and the uevent thread it has started leave the state of *)
(* the cable in mConnect, unless it is stale: the thread handled a move    *)
(* between the constructor's reading and its assignment, the cable moved   *)
(* after the reading and before the socket was bound, or the reading       *)
(* failed; stale ends with the next event handled afterwards.              *)
THEOREM StartFollowsCableHolds == CecSpec => []StartFollowsCable
<1> DEFINE Inv == ConnectorTypes /\ CableInv
<1>1. CecInit => Inv
  <2>1. CecInit => CableInv
      BY DEF CecInit, CableInv, Before, Hears
  <2> QED BY <2>1, TypesInit
<1>2. Inv /\ [CecNext]_cecVars => Inv'
    BY ConnectorTypesNext, CableInvNext
<1>3. Inv => StartFollowsCable
    BY DEF CableInv, StartFollowsCable
<1> QED BY <1>1, <1>2, <1>3, PTL DEF CecSpec
===============================================================================
