----------------------------- MODULE SignalStatus -----------------------------
(***************************************************************************)
(* hdmi_ctl.cpp of the camera service: what it believes of the HDMI input. *)
(* g_Hdmirx_lock_status and the video information are written under        *)
(* m_hdmiLock, by the hot-plug thread for the kernel's timing events and   *)
(* by the first query, and read without it.  The device node, and with it  *)
(* the signal, is outside: it changes on its own and tells by events.      *)
(***************************************************************************)
EXTENDS Naturals

CONSTANTS
    None,
    Timings,         \* timings a source may send
    Threads          \* threads of the service

LockStatus == {"undefined", "unlocked", "locked"}

VARIABLES
    signal,          \* the timing at the connector; None: no lock
    lockStatus,      \* g_Hdmirx_lock_status
    vinfo,           \* g_vinfo, g_devinfo and g_hdrinfo; None: zeros
    hdmiLock,        \* who holds m_hdmiLock
    update           \* where a thread is in hdmi_update_lock_status
VARIABLE             \* history
    misread          \* the status is that of looks that did not reach the device

signalVars == <<signal, lockStatus, vinfo, hdmiLock, update, misread>>

NotUpdating == [at |-> "no", lock |-> "undefined"]

SignalInit ==
    /\ signal \in Timings \cup {None}
    /\ lockStatus = "undefined" /\ vinfo = None /\ hdmiLock = None
    /\ update = [t \in Threads |-> NotUpdating]
    /\ misread = FALSE

-----------------------------------------------------------------------------
(* hdmi_check_video_locked asks the device.  A node that does not open and *)
(* an ioctl that fails are taken for a device without lock.                *)
hdmi_check_video_locked == {FALSE, signal # None}

hdmi_update_lock_status(t, lock) == update' = [update EXCEPT ![t] = [at |-> "wait", lock |-> lock]]

(* The lock is taken.  Unless the status is undefined it becomes what the  *)
(* caller says, be that undefined.                                         *)
UpdateTakesLock(t) ==
    /\ update[t].at = "wait" /\ hdmiLock = None
    /\ hdmiLock' = t
    /\ IF lockStatus = "undefined"
       THEN update' = [update EXCEPT ![t].at = "poll"] /\ UNCHANGED lockStatus
       ELSE update' = [update EXCEPT ![t].at = "fill"] /\ lockStatus' = update[t].lock
    /\ misread' = FALSE
    /\ UNCHANGED <<signal, vinfo>>

(* Fault: the caller is believed.                                          *)
UpdatePolls_Believes(t) ==
    /\ update[t].at = "poll"
    /\ lockStatus' = IF update[t].lock = "undefined" THEN "unlocked" ELSE update[t].lock
    /\ update' = [update EXCEPT ![t].at = "fill"]
    /\ misread' = FALSE
    /\ UNCHANGED <<signal, vinfo, hdmiLock>>

(* The status is undefined: the device is asked, up to six times 100 ms    *)
(* apart, whatever the caller said.  The last look counts: it sees a lock, *)
(* or is given up, because there is none or because none of the looks has  *)
(* got through.                                                            *)
UpdatePolls(t) ==
    /\ update[t].at = "poll"
    /\ \E locked \in hdmi_check_video_locked :
          /\ lockStatus' = IF locked THEN "locked" ELSE "unlocked"
          /\ misread' = (locked # (signal # None))
    /\ update' = [update EXCEPT ![t].at = "fill"]
    /\ UNCHANGED <<signal, vinfo, hdmiLock>>

(* What the device says is copied, or stays as it was when an ioctl fails; *)
(* anything but a lock zeroes it.                                          *)
UpdateFills(t) ==
    /\ update[t].at = "fill"
    /\ IF lockStatus = "locked"
       THEN \/ signal # None /\ vinfo' = signal
            \/ UNCHANGED vinfo
       ELSE vinfo' = None
    /\ hdmiLock' = None
    /\ update' = [update EXCEPT ![t] = NotUpdating]
    /\ UNCHANGED <<signal, lockStatus, misread>>

Update(t) == UpdateTakesLock(t) \/ UpdatePolls(t) \/ UpdateFills(t)

(* hdmi_query_video_info, hdmi_query_device_info and hdmi_query_hdr_info   *)
(* hand out the pointer or NULL; the first of them updates an undefined    *)
(* status before (see QueryStarts of CameraService).                       *)
QueryIsNull == lockStatus # "locked"

-----------------------------------------------------------------------------
SignalTypeOK ==
    /\ signal \in Timings \cup {None} /\ vinfo \in Timings \cup {None}
    /\ lockStatus \in LockStatus /\ misread \in BOOLEAN
    /\ hdmiLock \in Threads \cup {None}
    /\ update \in [Threads -> [at : {"no", "wait", "poll", "fill"}, lock : LockStatus]]
===============================================================================
