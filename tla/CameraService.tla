----------------------------- MODULE CameraService -----------------------------
(***************************************************************************)
(* The HDMI-RX camera service: the provider with its hot-plug thread and   *)
(* the signal status, and the devices and sessions RPC threads make.  What *)
(* joins them: a look-up that finds the camera makes a device, a request   *)
(* or a configuration of an open session asks for the video information.   *)
(***************************************************************************)
EXTENDS CameraProvider, CaptureDevice

(* The threads that open devices are those that call the provider.         *)
ASSUME ServiceAssumption == Openers = Callers

VARIABLE died        \* the process has crashed

serviceVars == <<signalVars, providerVars, deviceVars, died>>

Init == ProviderInit /\ DeviceInit /\ died = FALSE

-----------------------------------------------------------------------------
(* The second half of a look-up: mCameraStatusMap[name], then the device.  *)
LookUpEnds(c) ==
    /\ call[c].at = "counted"
    /\ entry' = EntryRead
    /\ phantom' = (phantom \/ entry = "absent")
    /\ call' = [call EXCEPT ![c] = Idle]
    /\ IF EntryRead = "PRESENT" /\ Unused(Devices) # {} THEN makeDevice ELSE UNCHANGED deviceVars
    /\ UNCHANGED <<signalVars, cable, uevents, hotPlug, mCallbacks, told, events,
                   unheard, initFailed, crossed, died>>

(* hdmi_query_video_info by a thread that serves an open session: an       *)
(* undefined status is updated first, with "undefined".                    *)
QueryStarts(c) ==
    /\ call[c].at = "idle" /\ OpenSessions # {}
    /\ lockStatus = "undefined"
    /\ call' = [call EXCEPT ![c].at = "queries"]
    /\ hdmi_update_lock_status(c, "undefined")
    /\ UNCHANGED <<signal, lockStatus, vinfo, hdmiLock, misread, cable, uevents, hotPlug, entry,
                   mCallbacks, told, events, unheard, initFailed, crossed, phantom, deviceVars, died>>

QueryEnds(c) ==
    /\ call[c].at = "queries" /\ update[c].at = "no"
    /\ call' = [call EXCEPT ![c] = Idle]
    /\ UNCHANGED <<signalVars, cable, uevents, hotPlug, entry, mCallbacks, told, events,
                   unheard, initFailed, crossed, phantom, deviceVars, died>>

(* setCallback's loop calls through mCallbacks, which another setCallback  *)
(* has set to nullptr.                                                     *)
Crashes(c) ==
    /\ call[c].at = "tells" /\ mCallbacks = None
    /\ died' = TRUE
    /\ UNCHANGED <<signalVars, providerVars, deviceVars>>

Outside == (CableChanges \/ SignalChanges \/ HdrChanges) /\ UNCHANGED <<deviceVars, died>>

HotPlugThread ==
    \/ HotPlugSteps /\ UNCHANGED <<deviceVars, died>>
    \/ Update(HotPlug) /\ UNCHANGED <<providerVars, deviceVars, died>>

CallProceeds(c) ==
    \/ (setCallbackChecks(c) \/ setCallbackReads(c)) /\ UNCHANGED <<deviceVars, died>>
    \/ setCallbackTells(c) /\ UNCHANGED <<deviceVars, died>>
    \/ Update(c) /\ UNCHANGED <<providerVars, deviceVars, died>>
    \/ OpenStep(c) /\ UNCHANGED <<signalVars, providerVars, died>>
    \/ LookUpEnds(c) \/ QueryEnds(c) \/ Crashes(c)

(* An RPC thread serves one call at a time.                                *)
Free(c) == call[c].at = "idle" /\ opening[c].at = "idle"

CallStarts(c) ==
    /\ Free(c)
    /\ \/ \E b \in Callbacks \cup {None} : setCallback(c, b) /\ UNCHANGED <<deviceVars, died>>
       \/ getCameraDeviceInterface(c) /\ UNCHANGED <<deviceVars, died>>
       \/ QueryStarts(c)
       \/ \E d \in Devices : open(c, d) /\ UNCHANGED <<signalVars, providerVars, died>>

Next ==
    /\ ~died
    /\ \/ Outside
       \/ HotPlugThread
       \/ \E c \in Callers : CallStarts(c) \/ CallProceeds(c)
       \/ \E s \in Sessions : /\ dropSession(s) \/ closeSession(s)
                             /\ UNCHANGED <<signalVars, providerVars, died>>

Spec == Init /\ [][Next]_serviceVars

-----------------------------------------------------------------------------
Quiet == uevents = <<>> /\ hotPlug = "waits"

TypeOK ==
    /\ SignalTypeOK /\ DeviceTypeOK
    /\ cable \in BOOLEAN /\ uevents \in Seq(Uevents)
    /\ hotPlug \in Uevents \cup {"looks", "adds", "binds", "waits", "updates"}
    /\ entry \in Entries /\ mCallbacks \in Callbacks \cup {None}
    /\ call \in [Callers -> [at : {"idle", "checks", "reads", "tells", "counted", "queries"},
                             saw : Entries]]
    /\ told \in [Callbacks -> Entries]
    /\ events \in 0 .. MaxEvents
    /\ unheard \in BOOLEAN /\ initFailed \in BOOLEAN /\ crossed \in BOOLEAN
    /\ phantom \in BOOLEAN /\ died \in BOOLEAN

(* hdmi_ctl.cpp 122 to 192: with every event handled and no update under   *)
(* way, a status that says locked is true, and one that says unlocked is,  *)
(* unless the looks of the first update did not reach the device (91 to 94 *)
(* and 106 to 109) and no timing event has come since.  It may also be     *)
(* undefined again: a query that lost the race for the first update does   *)
(* that.                                                                   *)
SignalSettled ==
    Quiet /\ (\A t \in Threads : update[t].at = "no") =>
        /\ lockStatus = "locked" => signal # None
        /\ lockStatus = "unlocked" /\ ~misread => signal = None

(* The provider has the camera exactly while the cable is in, once it has  *)
(* handled the events.  What spoils it is named: a look of the constructor *)
(* that failed (hdmi_ctl.cpp 91 to 94), or a change it missed (it looks    *)
(* before the socket is bound), until the next change; a device that could *)
(* not be initialised; a look-up that put the entry in again.              *)
KnownFollowsCable ==
    Quiet /\ ~unheard /\ ~initFailed /\ ~phantom /\ ~Refuses => (entry = "PRESENT") = cable

(* Cameras "are just reported via cameraDeviceStatusChange callbacks" (194 *)
(* and 195): the callback in place knows what the map holds, unless a call *)
(* of setCallback or a look-up was under way when a plug event was handled.*)
ToldFollowsMap ==
    mCallbacks # None /\ ~crossed
    /\ (\A c \in Callers : call[c].at \notin {"checks", "reads", "tells"})
    => (told[mCallbacks] = "PRESENT") = (entry = "PRESENT")
===============================================================================
