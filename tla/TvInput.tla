-------------------------------- MODULE TvInput --------------------------------
(***************************************************************************)
(* The TV input HAL (tv_input.cpp) and the libraries under it: the streams *)
(* the framework opens and closes, the player thread of fbm_ctl.cpp that   *)
(* converts the HDMI picture into the surface, and the uevent thread of    *)
(* hdmi_event.cpp that tells the framework of changes.  The framework      *)
(* calls one function at a time; the threads run beside it.  The surface,  *)
(* the queue of its buffers and the MDP stream belong to nobody: they are  *)
(* globals of the process, and m_lock guards the surface only.             *)
(***************************************************************************)
EXTENDS Naturals, FiniteSets

CONSTANTS
    MaxTvDevices,    \* bound on the times the device is opened
    MaxTvStreams,    \* bound on the times a stream is opened
    MaxTvEvents      \* bound on the uevents of the connector

ASSUME TvAssumption == MaxTvDevices \in Nat /\ MaxTvStreams \in Nat /\ MaxTvEvents \in Nat

TvDevices == 1 .. MaxTvDevices
Players == 1 .. MaxTvStreams
StreamIds == {0, 1}          \* below HDMI_STREAM_NUM

VARIABLES
    tvDevice,        \* the open device, 0 if there is none
    tvDevices,       \* devices opened so far
    tvCallback,      \* priv->callback is set
    observer,        \* the uevent thread of a device and its socket
    tvEvents,        \* uevents so far
    opened,          \* opened_stream_id; 0 means none, and is an id
    mdpStream,       \* mdp_stream exists
    surface,         \* surface exists
    windowLock,      \* who holds m_lock, 0 if nobody
    player,          \* the thread of a stream that was opened
    tvCall,          \* where the framework's call is, and its stream
    capture          \* a captureThread waits for its fence
VARIABLES            \* history
    reinitHeld,      \* m_lock was initialised while a player held it
    tvDied           \* the process has crashed, and in what

tvVars == <<tvDevice, tvDevices, tvCallback, observer, tvEvents, opened, mdpStream, surface,
            windowLock, player, tvCall, capture, reinitHeld, tvDied>>
streamVars == <<opened, mdpStream, surface, windowLock, player, reinitHeld>>
deviceVars == <<tvDevice, tvDevices, tvCallback, observer>>

Framework == MaxTvStreams + 1        \* as a holder of m_lock
NoCall == [at |-> "idle", id |-> 0]
NoObserver == [at |-> "none", exit |-> FALSE, pending |-> 0, late |-> 0]

TvInit ==
    /\ tvDevice = 0 /\ tvDevices = 0 /\ tvCallback = FALSE
    /\ observer = [d \in TvDevices |-> NoObserver] /\ tvEvents = 0
    /\ opened = 0 /\ mdpStream = FALSE /\ surface = FALSE /\ windowLock = 0
    /\ player = [p \in Players |-> "none"]
    /\ tvCall = NoCall /\ capture = FALSE /\ reinitHeld = FALSE /\ tvDied = "no"

-----------------------------------------------------------------------------
(* tv_input_device_open starts an observer.  Its bind fails while an older *)
(* observer has its socket, for both use one address; it then polls a      *)
(* closed descriptor and hears nothing.                                    *)
tv_input_device_open ==
    /\ tvCall.at = "idle" /\ tvDevice = 0 /\ tvDevices < MaxTvDevices
    /\ LET d == tvDevices + 1
           taken == \E o \in TvDevices : observer[o].at = "waits"
       IN  /\ tvDevice' = d /\ tvDevices' = d
           /\ observer' = [observer EXCEPT ![d].at = IF taken THEN "deaf" ELSE "waits"]
    /\ tvCallback' = FALSE
    /\ UNCHANGED <<streamVars, tvEvents, tvCall, capture, tvDied>>

(* Fault: the thread is let go of and not asked to end.                    *)
hdmi_stop_observing_Drops == UNCHANGED observer

(* requestExit, without the wait.                                          *)
hdmi_stop_observing == observer' = [observer EXCEPT ![tvDevice].exit = TRUE]

(* tv_input_device_close frees the device; streams stay as they are.       *)
tv_input_device_close ==
    /\ tvCall.at = "idle" /\ tvDevice # 0
    /\ hdmi_stop_observing
    /\ tvDevice' = 0 /\ tvCallback' = FALSE
    /\ UNCHANGED <<streamVars, tvDevices, tvEvents, tvCall, capture, tvDied>>

tv_input_initialize ==
    /\ tvCall.at = "idle" /\ tvDevice # 0 /\ ~tvCallback
    /\ tvCallback' = TRUE
    /\ UNCHANGED <<streamVars, tvDevice, tvDevices, observer, tvEvents, tvCall, capture, tvDied>>

-----------------------------------------------------------------------------
(* The uevent thread: exit is looked at between two rounds only.           *)
TvUevent ==
    /\ tvEvents < MaxTvEvents /\ tvEvents' = tvEvents + 1
    /\ observer' = [o \in TvDevices |->
          IF observer[o].at = "waits" THEN [observer[o] EXCEPT !.pending = @ + 1] ELSE observer[o]]
    /\ UNCHANGED <<streamVars, tvDevice, tvDevices, tvCallback, tvCall, capture, tvDied>>

(* One round of threadLoop.  stream_change() is called with the device of  *)
(* the thread, freed or not.                                               *)
ObserverRound(d) ==
    /\ observer[d].at = "waits" /\ observer[d].pending > 0
    /\ observer' = [observer EXCEPT ![d] =
          [at      |-> IF @.exit THEN "ended" ELSE "waits",
           exit    |-> @.exit,
           pending |-> @.pending - 1,
           late    |-> IF tvDevice = d THEN @.late ELSE @.late + 1]]
    /\ UNCHANGED <<streamVars, tvDevice, tvDevices, tvCallback, tvEvents, tvCall, capture, tvDied>>

DeafEnds(d) ==
    /\ observer[d].at = "deaf" /\ observer[d].exit
    /\ observer' = [observer EXCEPT ![d].at = "ended"]
    /\ UNCHANGED <<streamVars, tvDevice, tvDevices, tvCallback, tvEvents, tvCall, capture, tvDied>>

-----------------------------------------------------------------------------
(* open_stream: EEXIST and EBUSY go by opened_stream_id, so stream 0 can   *)
(* be opened again and stream 1 after it.  The signal may be missing.      *)
Streams == Cardinality({p \in Players : player[p] # "none"})

tv_input_open_stream(id) ==
    /\ tvCall.at = "idle" /\ tvDevice # 0
    /\ opened = 0 /\ Streams < MaxTvStreams
    /\ mdpStream' = TRUE
    /\ tvCall' = [at |-> "opens", id |-> id]
    /\ UNCHANGED <<deviceVars, tvEvents, opened, surface, windowLock, player, capture, reinitHeld, tvDied>>

(* fbm_open: a step may fail before or after there is a surface; nothing   *)
(* is taken back.                                                          *)
fbm_open_fails ==
    /\ tvCall.at = "opens"
    /\ surface' \in {surface, TRUE}
    /\ tvCall' = NoCall
    /\ UNCHANGED <<deviceVars, tvEvents, opened, mdpStream, windowLock, player, capture, reinitHeld, tvDied>>

create_buffer_queue ==
    /\ tvCall.at = "opens"
    /\ surface' = TRUE
    /\ tvCall' = [tvCall EXCEPT !.at = "creates"]
    /\ UNCHANGED <<deviceVars, tvEvents, opened, mdpStream, windowLock, player, capture, reinitHeld, tvDied>>

(* pthread_mutex_init, whoever holds m_lock, and pthread_create.           *)
fbm_open ==
    /\ tvCall.at = "creates"
    /\ windowLock' = 0 /\ reinitHeld' = (reinitHeld \/ windowLock # 0)
    /\ player' = [player EXCEPT ![Streams + 1] = "sleeps"]
    /\ opened' = tvCall.id /\ tvCall' = NoCall
    /\ UNCHANGED <<deviceVars, tvEvents, mdpStream, surface, capture, tvDied>>

(* close_stream: fbm_close takes m_lock, then mdp_close, then the id.      *)
tv_input_close_stream(id) ==
    /\ tvCall.at = "idle" /\ tvDevice # 0 /\ id = opened
    /\ tvCall' = [at |-> "closes", id |-> id]
    /\ UNCHANGED <<deviceVars, tvEvents, streamVars, capture, tvDied>>

(* Fault: the surface goes without m_lock.                                 *)
fbm_close_Unlocked ==
    /\ tvCall.at = "closes"
    /\ surface' = FALSE
    /\ tvCall' = [tvCall EXCEPT !.at = "unwinds"]
    /\ UNCHANGED <<deviceVars, tvEvents, opened, mdpStream, windowLock, player, capture, reinitHeld, tvDied>>

fbm_close ==
    /\ tvCall.at = "closes" /\ windowLock = 0
    /\ surface' = FALSE
    /\ tvCall' = [tvCall EXCEPT !.at = "unwinds"]
    /\ UNCHANGED <<deviceVars, tvEvents, opened, mdpStream, windowLock, player, capture, reinitHeld, tvDied>>

mdp_close_stream ==
    /\ tvCall.at = "unwinds"
    /\ mdpStream' = FALSE
    /\ opened' = 0 /\ tvCall' = NoCall
    /\ UNCHANGED <<deviceVars, tvEvents, surface, windowLock, player, capture, reinitHeld, tvDied>>

-----------------------------------------------------------------------------
(* Fault: the end is not looked for.                                       *)
PlayerLocks_Endless(p) ==
    /\ player[p] = "sleeps" /\ windowLock = 0
    /\ player' = [player EXCEPT ![p] = "converts"] /\ windowLock' = p /\ UNCHANGED tvDied
    /\ UNCHANGED <<deviceVars, tvEvents, opened, mdpStream, surface, tvCall, capture, reinitHeld>>

(* process_mdp: without a surface the thread ends; else mdp_trigger uses   *)
(* mdp_stream without a look at it.                                        *)
PlayerLocks(p) ==
    /\ player[p] = "sleeps" /\ windowLock = 0
    /\ IF surface THEN player' = [player EXCEPT ![p] = "converts"] /\ windowLock' = p
                  ELSE player' = [player EXCEPT ![p] = "ended"] /\ UNCHANGED windowLock
    /\ tvDied' = IF surface /\ ~mdpStream THEN "playing" ELSE tvDied
    /\ UNCHANGED <<deviceVars, tvEvents, opened, mdpStream, surface, tvCall, capture, reinitHeld>>

(* m_lock is opened; an error ends the thread, else it sleeps 1 ms.        *)
PlayerUnlocks(p) ==
    /\ player[p] = "converts"
    /\ player' \in {[player EXCEPT ![p] = at] : at \in {"sleeps", "ended"}}
    /\ windowLock' = 0
    /\ UNCHANGED <<deviceVars, tvEvents, opened, mdpStream, surface, tvCall, capture, reinitHeld, tvDied>>

(* request_capture on stream 1, opened or not.  Its thread waits for the   *)
(* fence; mdp_reg_done_callback is never called, so nobody is told.        *)
tv_input_request_capture ==
    /\ tvCall.at = "idle" /\ tvDevice # 0 /\ tvCallback /\ ~capture
    /\ IF mdpStream THEN capture' = TRUE /\ UNCHANGED tvDied
                    ELSE tvDied' = "capturing" /\ UNCHANGED capture
    /\ UNCHANGED <<deviceVars, tvEvents, streamVars, tvCall>>

captureThread ==
    /\ capture /\ capture' = FALSE
    /\ UNCHANGED <<deviceVars, tvEvents, streamVars, tvCall, tvDied>>

-----------------------------------------------------------------------------
PlayerSteps(p) == PlayerLocks(p) \/ PlayerUnlocks(p)
TvCallSteps == fbm_open_fails \/ create_buffer_queue \/ fbm_open \/ fbm_close \/ mdp_close_stream

TvNext ==
    /\ tvDied = "no"
    /\ \/ tv_input_device_open \/ tv_input_device_close \/ tv_input_initialize
       \/ \E id \in StreamIds : tv_input_open_stream(id) \/ tv_input_close_stream(id)
       \/ TvCallSteps \/ tv_input_request_capture \/ captureThread \/ TvUevent
       \/ \E d \in TvDevices : ObserverRound(d) \/ DeafEnds(d)
       \/ \E p \in Players : PlayerSteps(p)

TvTypeOK ==
    /\ tvDevice \in 0 .. MaxTvDevices /\ tvDevices \in 0 .. MaxTvDevices /\ tvCallback \in BOOLEAN
    /\ observer \in [TvDevices -> [at : {"none", "waits", "deaf", "ended"}, exit : BOOLEAN,
                                   pending : 0 .. MaxTvEvents, late : 0 .. MaxTvEvents]]
    /\ tvEvents \in 0 .. MaxTvEvents
    /\ opened \in StreamIds /\ mdpStream \in BOOLEAN /\ surface \in BOOLEAN
    /\ windowLock \in 0 .. MaxTvStreams
    /\ player \in [Players -> {"none", "sleeps", "converts", "ended"}]
    /\ tvCall \in [at : {"idle", "opens", "creates", "closes", "unwinds"}, id : StreamIds]
    /\ capture \in BOOLEAN /\ reinitHeld \in BOOLEAN /\ tvDied \in {"no", "playing", "capturing"}

(* fbm_ctl.cpp 112 to 162 and 226 to 238: a player that converts has an    *)
(* MDP stream, though close_stream deletes it without m_lock; what makes   *)
(* it so is that fbm_close takes the surface away first, under m_lock.  A  *)
(* second fbm_open that initialises m_lock while a player holds it undoes  *)
(* that, and is named.                                                     *)
PlayerHasStream ==
    ~reinitHeld => tvDied # "playing" /\ ((\E p \in Players : player[p] = "converts") => mdpStream)

(* hdmi_ctl.cpp 110 to 118: the observer is not waited for ("to avoid      *)
(* hang-up until next event coming"), so it may call back into a device    *)
(* that was freed, but for one event and no more.                          *)
LateOnce == \A d \in TvDevices : observer[d].late <= 1

(* The player threads are detached and end by what they find: when the     *)
(* surface is gone for good, so are they.                                  *)
PlayersEnd == <>[](~surface) => <>[](tvDied # "no" \/ \A p \in Players : player[p] \in {"none", "ended"})
===============================================================================
