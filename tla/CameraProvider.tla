---------------------------- MODULE CameraProvider ----------------------------
(***************************************************************************)
(* HdmiRxCameraProviderImpl_2_4: one camera, in mCameraStatusMap or not,   *)
(* and a framework callback that is told of it.  The hot-plug thread puts  *)
(* the camera in and takes it out for uevents; six RPC threads set the     *)
(* callback and look the camera up.  mLock is taken by add, remove and the *)
(* assignment of setCallback, not by its loop over the map and not by      *)
(* getCameraDeviceInterface_V3_x.  A copy or a look-up in the map is one   *)
(* step; what two threads at once do to a std::map is not modelled.        *)
(***************************************************************************)
EXTENDS SignalStatus, Sequences, FiniteSets

CONSTANTS
    HotPlug,         \* the hot-plug thread; the constructor before it
    Callers,         \* RPC threads
    Callbacks,       \* what setCallback may be given; None: nullptr
    Refuses,         \* deviceAdded returns at once (cts_gts.status or VTS build)
    MaxEvents        \* bound on the changes of cable and signal

ASSUME ProviderAssumption ==
    /\ Threads = Callers \cup {HotPlug} /\ HotPlug \notin Callers
    /\ None \notin Threads \cup Timings \cup Callbacks
    /\ Refuses \in BOOLEAN /\ MaxEvents \in Nat

(* The events handleHdmiUEvents does something for.                        *)
Uevents == {"PLUG_IN", "PLUG_OUT", "TIMING_LOCK", "TIMING_UNLOCK", "HDR_INFO_CHANGE"}
Entries == {"absent", "PRESENT", "NOT_PRESENT"}

VARIABLES
    cable,           \* 5 V at the connector
    uevents,         \* events in the netlink socket
    hotPlug,         \* where the hot-plug thread is
    entry,           \* the camera in mCameraStatusMap
    mCallbacks,
    call,            \* where an RPC thread is
    told             \* what a callback was told last since it was set
VARIABLES            \* history
    events,          \* changes of cable and signal so far
    unheard,         \* the constructor does not know of the cable, nor has an event come since
    initFailed,      \* the last camera that was added could not be initialised
    crossed,         \* a plug event was handled during a call of setCallback or a look-up
    phantom          \* a look-up has put the camera in

providerVars == <<cable, uevents, hotPlug, entry, mCallbacks, call, told, events,
                  unheard, initFailed, crossed, phantom>>

Idle == [at |-> "idle", saw |-> "absent"]

ProviderInit ==
    /\ SignalInit
    /\ cable \in BOOLEAN /\ (signal # None => cable)
    /\ uevents = <<>> /\ hotPlug = "looks" /\ entry = "absent" /\ mCallbacks = None
    /\ call = [c \in Callers |-> Idle]
    /\ told = [b \in Callbacks |-> "absent"]
    /\ events = 0 /\ unheard = FALSE /\ initFailed = FALSE /\ crossed = FALSE
    /\ phantom = FALSE

-----------------------------------------------------------------------------
(* Outside: the cable and the signal.  Events are lost until the socket is *)
(* bound.                                                                  *)
Bound == hotPlug \notin {"looks", "adds", "binds"}
Report(event) == uevents' = IF Bound THEN Append(uevents, event) ELSE uevents

CableChanges ==
    /\ events < MaxEvents /\ events' = events + 1
    /\ signal = None
    /\ cable' = ~cable
    /\ unheard' = (hotPlug \in {"adds", "binds"})
    /\ Report(IF cable THEN "PLUG_OUT" ELSE "PLUG_IN")
    /\ UNCHANGED <<signalVars, hotPlug, entry, mCallbacks, call, told, initFailed, crossed, phantom>>

SignalChanges ==
    /\ events < MaxEvents /\ events' = events + 1
    /\ cable
    /\ signal' \in (Timings \cup {None}) \ {signal}
    /\ signal' = None \/ signal = None
    /\ Report(IF signal' = None THEN "TIMING_UNLOCK" ELSE "TIMING_LOCK")
    /\ UNCHANGED <<lockStatus, vinfo, hdmiLock, update, misread, cable, hotPlug, entry, mCallbacks,
                   call, told, unheard, initFailed, crossed, phantom>>

HdrChanges ==
    /\ events < MaxEvents /\ events' = events + 1
    /\ signal # None
    /\ Report("HDR_INFO_CHANGE")
    /\ UNCHANGED <<signalVars, cable, hotPlug, entry, mCallbacks, call, told, unheard,
                   initFailed, crossed, phantom>>

-----------------------------------------------------------------------------
(* The constructor: HotplugThread looks at the cable, then init binds the  *)
(* socket, then the thread runs.  A look that does not reach the device is *)
(* taken for no cable.                                                     *)
ConstructorLooks ==
    /\ hotPlug = "looks"
    /\ \E plugged \in {cable, FALSE} :
          /\ hotPlug' = IF plugged THEN "adds" ELSE "binds"
          /\ unheard' = (plugged # cable)
    /\ UNCHANGED <<signalVars, cable, uevents, entry, mCallbacks, call, told, events,
                   initFailed, crossed, phantom>>

ConstructorBinds ==
    /\ hotPlug = "binds"
    /\ hotPlug' = "waits"
    /\ UNCHANGED <<signalVars, cable, uevents, entry, mCallbacks, call, told, events,
                   unheard, initFailed, crossed, phantom>>

Tell(status) == told' = IF mCallbacks = None THEN told ELSE [told EXCEPT ![mCallbacks] = status]

AfterAdding == IF hotPlug = "adds" THEN "binds" ELSE "waits"

InCall == \E c \in Callers : call[c].at # "idle"

addHdmirxCamera ==
    IF entry # "absent" THEN UNCHANGED <<entry, told>> ELSE entry' = "PRESENT" /\ Tell("PRESENT")

(* Fault: only the entry goes.                                             *)
removeHdmirxCamera_Silent == entry' = "absent" /\ UNCHANGED told

(* Fault: the entry stays and is marked.                                   *)
removeHdmirxCamera_Marks ==
    IF entry = "absent" THEN UNCHANGED <<entry, told>> ELSE entry' = "NOT_PRESENT" /\ Tell("NOT_PRESENT")

removeHdmirxCamera ==
    IF entry = "absent" THEN UNCHANGED <<entry, told>> ELSE entry' = "absent" /\ Tell("NOT_PRESENT")

(* deviceAdded: a camera device is made and initialised on trial; one that *)
(* cannot be takes the camera out.                                         *)
deviceAdded ==
    /\ hotPlug \in {"adds", "PLUG_IN"}
    /\ IF Refuses THEN UNCHANGED <<entry, told, initFailed>>
       ELSE \/ initFailed' = FALSE /\ addHdmirxCamera
            \/ initFailed' = TRUE /\ removeHdmirxCamera
    /\ hotPlug' = AfterAdding
    /\ crossed' = (crossed \/ InCall)
    /\ UNCHANGED <<signalVars, cable, uevents, mCallbacks, call, events, unheard, phantom>>

deviceRemoved ==
    /\ hotPlug = "PLUG_OUT"
    /\ removeHdmirxCamera
    /\ hotPlug' = "waits"
    /\ crossed' = (crossed \/ InCall)
    /\ UNCHANGED <<signalVars, cable, uevents, mCallbacks, call, events, unheard, initFailed, phantom>>

(* What updateRXStatus is given for an event.                              *)
LockOf == [TIMING_LOCK |-> "locked", TIMING_UNLOCK |-> "unlocked"]

(* threadLoop takes the next event.                                        *)
handleHdmiUEvents ==
    /\ hotPlug = "waits" /\ uevents # <<>>
    /\ uevents' = Tail(uevents)
    /\ \/ /\ Head(uevents) \in {"PLUG_IN", "PLUG_OUT", "HDR_INFO_CHANGE"}
          /\ hotPlug' = Head(uevents) /\ UNCHANGED update
       \/ /\ Head(uevents) \in DOMAIN LockOf
          /\ hotPlug' = "updates" /\ hdmi_update_lock_status(HotPlug, LockOf[Head(uevents)])
    /\ UNCHANGED <<signal, lockStatus, vinfo, hdmiLock, misread, cable, entry, mCallbacks, call,
                   told, events, unheard, initFailed, crossed, phantom>>

(* updateRXStatus is back.                                                 *)
StatusUpdated ==
    /\ hotPlug = "updates" /\ update[HotPlug].at = "no"
    /\ hotPlug' = "waits"
    /\ UNCHANGED <<signalVars, cable, uevents, entry, mCallbacks, call, told, events,
                   unheard, initFailed, crossed, phantom>>

(* getHDRInfo asks the device to write g_hdrinfo, without m_hdmiLock; with *)
(* no lock there is nothing to write to.                                   *)
getHDRInfo ==
    /\ hotPlug = "HDR_INFO_CHANGE"
    /\ hotPlug' = "waits"
    /\ IF QueryIsNull \/ signal = None THEN UNCHANGED vinfo ELSE vinfo' \in {vinfo, signal}
    /\ UNCHANGED <<signal, lockStatus, hdmiLock, update, misread, cable, uevents, entry,
                   mCallbacks, call, told, events, unheard, initFailed, crossed, phantom>>

HotPlugSteps ==
    \/ ConstructorLooks \/ deviceAdded \/ ConstructorBinds \/ handleHdmiUEvents
    \/ deviceRemoved \/ StatusUpdated \/ getHDRInfo

-----------------------------------------------------------------------------
(* setCallback: the assignment under mLock; then, without it, mCallbacks   *)
(* is compared with nullptr, the map is read, and mCallbacks is called.    *)
(* Every access reads it anew: the callback may be another thread's.       *)
setCallback(c, b) ==
    /\ Bound /\ call[c].at = "idle"
    /\ mCallbacks' = b
    /\ call' = [call EXCEPT ![c].at = "checks"]
    /\ told' = IF b = None THEN told ELSE [told EXCEPT ![b] = "absent"]
    /\ UNCHANGED <<signalVars, cable, uevents, hotPlug, entry, events, unheard,
                   initFailed, crossed, phantom>>

setCallbackChecks(c) ==
    /\ call[c].at = "checks"
    /\ call' = [call EXCEPT ![c].at = IF mCallbacks = None THEN "idle" ELSE "reads"]
    /\ UNCHANGED <<signalVars, cable, uevents, hotPlug, entry, mCallbacks, told, events,
                   unheard, initFailed, crossed, phantom>>

setCallbackReads(c) ==
    /\ call[c].at = "reads"
    /\ call' = [call EXCEPT ![c] = IF entry = "absent" THEN Idle ELSE [at |-> "tells", saw |-> entry]]
    /\ UNCHANGED <<signalVars, cable, uevents, hotPlug, entry, mCallbacks, told, events,
                   unheard, initFailed, crossed, phantom>>

(* A callback that was taken away by now: the process dies (see Crashes of *)
(* CameraService).                                                         *)
setCallbackTells(c) ==
    /\ call[c].at = "tells" /\ mCallbacks # None
    /\ Tell(call[c].saw)
    /\ call' = [call EXCEPT ![c] = Idle]
    /\ UNCHANGED <<signalVars, cable, uevents, hotPlug, entry, mCallbacks, events,
                   unheard, initFailed, crossed, phantom>>

(* getCameraDeviceInterface_V3_x: count, then operator[], which puts in an *)
(* entry for a camera that has gone since: NOT_PRESENT, the zero value.    *)
getCameraDeviceInterface(c) ==
    /\ Bound /\ call[c].at = "idle"
    /\ entry # "absent"
    /\ call' = [call EXCEPT ![c].at = "counted"]
    /\ UNCHANGED <<signalVars, cable, uevents, hotPlug, entry, mCallbacks, told, events,
                   unheard, initFailed, crossed, phantom>>

EntryRead == IF entry = "absent" THEN "NOT_PRESENT" ELSE entry
===============================================================================
