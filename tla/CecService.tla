------------------------------- MODULE CecService -------------------------------
(***************************************************************************)
(* The CEC service around the mediator: the constructor of HWCECMediator,  *)
(* which opens the adapters and starts its threads on the way, the threads *)
(* that receive messages, and the callback of the framework in HdmiCec.    *)
(* The service has one binder thread, the default of its library: calls of *)
(* the framework and death notices are handled one after the other.  The   *)
(* other threads go through the callback beside it, without a lock.  The   *)
(* kernel and the processes of the framework are outside; the query of the *)
(* address, which may set mConnect too, is CecMediator's.  The device is a *)
(* player or a TV: of the other types of ro.hdmi.device_type neither the   *)
(* state of the cable is read nor an event handled, and mConnect is only   *)
(* ever set by that query.                                                 *)
(***************************************************************************)
EXTENDS Naturals, Sequences

CONSTANTS
    Adapters,        \* the numbers of /dev/cec, below MAX_DEVICE_ID + 1
    Frameworks,      \* processes of the framework, each with its callback
    Nobody,
    MaxPlugs,        \* bound on the changes at the connector
    MaxMessages,     \* bound on the messages
    MaxSetCallbacks  \* bound on the calls of setCallback

ASSUME CecServiceAssumption ==
    /\ Nobody \notin Frameworks
    /\ MaxPlugs \in Nat /\ MaxMessages \in Nat /\ MaxSetCallbacks \in Nat

VARIABLES
    construction,    \* where the constructor is
    toOpen,          \* adapters it has not tried
    receiver,        \* where the thread of each adapter is
    watcher,         \* where the uevent thread is
    plugEvents,      \* uevents it has not read
    plugged,         \* driver: a cable is plugged in
    stateRead,       \* what the constructor has read of the cable
    mConnect,
    plugs,           \* changes at the connector so far
    messages         \* messages so far
VARIABLES
    mCbf,            \* eventCallback is registered
    mCallback,
    linked,          \* callbacks whose death is reported to the service
    notices,         \* deaths reported and not yet handled
    setting,         \* the callback setCallback has still to set
    alive,           \* processes of the framework
    setCallbacks     \* calls so far
VARIABLES            \* history
    stale,           \* mConnect may miss a change nobody was there to see
    chosen,          \* the callback the framework set last
    cecDied          \* the process has crashed

startVars == <<construction, toOpen, stateRead>>
connectorVars == <<plugEvents, plugged, plugs>>
callbackVars == <<mCbf, mCallback, linked, notices, setting, alive, setCallbacks, chosen>>
cecVars == <<startVars, connectorVars, receiver, watcher, mConnect, messages, callbackVars,
             stale, cecDied>>

CecInit ==
    /\ construction = "scan" /\ toOpen = Adapters /\ stateRead = FALSE
    /\ receiver = [a \in Adapters |-> "none"] /\ watcher = "none"
    /\ plugEvents = <<>> /\ plugged \in BOOLEAN /\ plugs = 0
    /\ mConnect = FALSE /\ messages = 0
    /\ mCbf = FALSE /\ mCallback = Nobody /\ linked = {} /\ notices = {}
    /\ setting = Nobody /\ alive = Frameworks /\ setCallbacks = 0
    /\ stale = FALSE /\ chosen = Nobody /\ cecDied = FALSE

-----------------------------------------------------------------------------
(* The constructor: an adapter that is there and lets itself be set up     *)
(* gets its thread at once; another is let go of.                          *)
init(a) == receiver' = [receiver EXCEPT ![a] = "waits"]

OpenAdapter(a) ==
    /\ construction = "scan" /\ a \in toOpen
    /\ toOpen' = toOpen \ {a}
    /\ init(a) \/ UNCHANGED receiver
    /\ UNCHANGED <<construction, stateRead, connectorVars, watcher, mConnect, messages,
                   callbackVars, stale, cecDied>>

(* Without an adapter there is no uevent thread.                           *)
StartWatcher ==
    /\ construction = "scan" /\ toOpen = {}
    /\ IF \E a \in Adapters : receiver[a] # "none"
       THEN construction' = "init" /\ watcher' = "starts"
       ELSE construction' = "failed" /\ UNCHANGED watcher
    /\ UNCHANGED <<toOpen, stateRead, connectorVars, receiver, mConnect, messages, callbackVars,
                   stale, cecDied>>

(* cec_init of the first adapter.                                          *)
cec_init ==
    /\ construction = "init"
    /\ construction' \in {"state", "failed"}
    /\ UNCHANGED <<toOpen, stateRead, connectorVars, receiver, watcher, mConnect, messages,
                   callbackVars, stale, cecDied>>

(* Fault: the state of the cable is left to the uevents.                   *)
getHdmiCecState_Skipped == stateRead' = FALSE /\ UNCHANGED stale

getHdmiCecState ==
    \/ stateRead' = plugged /\ UNCHANGED stale
    \/ stateRead' = FALSE /\ stale' = TRUE       \* the node cannot be read, or reads 0xFF

ReadState ==
    /\ construction = "state" /\ construction' = "store"
    /\ getHdmiCecState
    /\ UNCHANGED <<toOpen, connectorVars, receiver, watcher, mConnect, messages, callbackVars, cecDied>>

StoreState ==
    /\ construction = "store" /\ construction' = "done"
    /\ mConnect' = (mConnect \/ stateRead)
    /\ UNCHANGED <<toOpen, stateRead, connectorVars, receiver, watcher, messages, callbackVars,
                   stale, cecDied>>

-----------------------------------------------------------------------------
(* The uevent thread, which hears what happens once its socket is bound.   *)
WatcherBinds ==
    /\ watcher = "starts"
    /\ watcher' \in {"waits", "failed"}
    /\ UNCHANGED <<startVars, connectorVars, receiver, mConnect, messages, callbackVars, stale, cecDied>>

Hears == watcher \notin {"none", "starts", "failed"}

CableMoves ==
    /\ plugs < MaxPlugs /\ plugs' = plugs + 1
    /\ plugged' = ~plugged
    /\ plugEvents' = IF Hears THEN Append(plugEvents, plugged') ELSE plugEvents
    /\ stale' = (stale \/ (~Hears /\ construction \in {"store", "done"}))
    /\ UNCHANGED <<startVars, receiver, watcher, mConnect, messages, callbackVars, cecDied>>

(* Plug-in or plug-out; the framework is told unless its address is the    *)
(* one it had.  The constructor may overwrite mConnect after this.         *)
handleCecUEvents ==
    /\ watcher = "waits" /\ plugEvents # <<>>
    /\ plugEvents' = Tail(plugEvents)
    /\ mConnect' = Head(plugEvents)
    /\ stale' = (construction = "store")
    /\ watcher' \in {"waits"} \cup (IF mCbf THEN {"tests"} ELSE {})
    /\ UNCHANGED <<startVars, plugged, plugs, receiver, messages, callbackVars, cecDied>>

(* The thread of an adapter takes a message from the driver, which may be  *)
(* one that was not received well.                                         *)
msgEventThread(a) ==
    /\ receiver[a] = "waits" /\ messages < MaxMessages
    /\ messages' = messages + 1
    /\ \E next \in {"waits"} \cup (IF mCbf THEN {"tests"} ELSE {}) :
          receiver' = [receiver EXCEPT ![a] = next]
    /\ UNCHANGED <<startVars, connectorVars, watcher, mConnect, callbackVars, stale, cecDied>>

(* eventCallback tests mCallback, then calls through it.                   *)
EventTests(at, next) == at = "tests" /\ next = IF mCallback = Nobody THEN "waits" ELSE "calls"
EventCalls(at, next) == at = "calls" /\ next = "waits" /\ cecDied' = (mCallback = Nobody)

Steps(at, next) ==
    \/ EventTests(at, next) /\ UNCHANGED cecDied
    \/ EventCalls(at, next)

eventCallback ==
    /\ \/ /\ Steps(watcher, watcher') /\ UNCHANGED receiver
       \/ /\ \E a \in Adapters : \E next \in {"waits", "calls"} :
                /\ Steps(receiver[a], next)
                /\ receiver' = [receiver EXCEPT ![a] = next]
          /\ UNCHANGED watcher
    /\ UNCHANGED <<startVars, connectorVars, mConnect, messages, callbackVars, stale>>

-----------------------------------------------------------------------------
(* The binder thread.  Fault: the death of the old callback is reported    *)
(* still.                                                                  *)
unlinkToDeath_Forgotten(reported) == notices' = reported /\ UNCHANGED linked

(* No report of its death comes after this, nor any of those reported and  *)
(* not yet handled.                                                        *)
unlinkToDeath(reported) == linked' = linked \ {mCallback} /\ notices' = reported \ {mCallback}

Clear(reported) ==
    IF mCallback = Nobody THEN notices' = reported /\ UNCHANGED <<mCallback, linked>>
    ELSE unlinkToDeath(reported) /\ mCallback' = Nobody

setCallback(callback) ==
    /\ construction \in {"done", "failed"} /\ setting = Nobody
    /\ \E f \in alive : callback \in {f, Nobody}
    /\ setCallbacks < MaxSetCallbacks /\ setCallbacks' = setCallbacks + 1
    /\ Clear(notices)
    /\ setting' = callback /\ chosen' = callback
    /\ UNCHANGED <<startVars, connectorVars, receiver, watcher, mConnect, messages, mCbf, alive,
                   stale, cecDied>>

(* The new callback; if its process is gone by now, the death is reported  *)
(* at once.                                                                *)
setCallbackSets ==
    /\ setting # Nobody /\ setting' = Nobody
    /\ mCallback' = setting
    /\ IF setting \in alive THEN linked' = linked \cup {setting} /\ UNCHANGED notices
                            ELSE notices' = notices \cup {setting} /\ UNCHANGED linked
    /\ mCbf' = TRUE
    /\ UNCHANGED <<startVars, connectorVars, receiver, watcher, mConnect, messages, alive,
                   setCallbacks, chosen, stale, cecDied>>

FrameworkDies(f) ==
    /\ f \in alive /\ alive' = alive \ {f}
    /\ notices' = notices \cup ({f} \cap linked) /\ linked' = linked \ {f}
    /\ UNCHANGED <<startVars, connectorVars, receiver, watcher, mConnect, messages, mCbf,
                   mCallback, setting, setCallbacks, chosen, stale, cecDied>>

(* serviceDied: setCallback(nullptr), whoever has died.                    *)
serviceDied(f) ==
    /\ f \in notices /\ setting = Nobody
    /\ Clear(notices \ {f})
    /\ UNCHANGED <<startVars, connectorVars, receiver, watcher, mConnect, messages, mCbf, setting,
                   alive, setCallbacks, chosen, stale, cecDied>>

CecNext ==
    /\ ~cecDied
    /\ \/ \E a \in Adapters : OpenAdapter(a) \/ msgEventThread(a)
       \/ StartWatcher \/ cec_init \/ ReadState \/ StoreState
       \/ WatcherBinds \/ CableMoves \/ handleCecUEvents \/ eventCallback
       \/ \E callback \in Frameworks \cup {Nobody} : setCallback(callback)
       \/ setCallbackSets
       \/ \E f \in Frameworks : FrameworkDies(f) \/ serviceDied(f)

CecSpec == CecInit /\ [][CecNext]_cecVars

-----------------------------------------------------------------------------
CecTypeOK ==
    /\ construction \in {"scan", "init", "state", "store", "done", "failed"}
    /\ toOpen \subseteq Adapters /\ stateRead \in BOOLEAN
    /\ receiver \in [Adapters -> {"none", "waits", "tests", "calls"}]
    /\ watcher \in {"none", "starts", "failed", "waits", "tests", "calls"}
    /\ plugEvents \in Seq(BOOLEAN) /\ plugged \in BOOLEAN /\ plugs \in 0 .. MaxPlugs
    /\ mConnect \in BOOLEAN /\ messages \in 0 .. MaxMessages
    /\ mCbf \in BOOLEAN /\ mCallback \in Frameworks \cup {Nobody}
    /\ linked \subseteq Frameworks /\ notices \subseteq Frameworks /\ alive \subseteq Frameworks
    /\ setting \in Frameworks \cup {Nobody} /\ chosen \in Frameworks \cup {Nobody}
    /\ setCallbacks \in 0 .. MaxSetCallbacks /\ stale \in BOOLEAN /\ cecDied \in BOOLEAN

(* hwcec.cpp 271 to 294: the uevent thread starts before the constructor   *)
(* reads the state of the cable.  When both are done mConnect is what the  *)
(* cable is, unless the cable moved after the reading and before the       *)
(* socket was bound, or the thread handled a move between the reading and  *)
(* the assignment, or the state could not be read or read as 0xFF; and the *)
(* next event mends that.                                                  *)
StartFollowsCable ==
    construction = "done" /\ plugEvents = <<>> /\ ~stale => mConnect = plugged

(* HdmiCec.cpp 330 to 342, HdmiCec.h 97 to 100: the callback set last is   *)
(* the one in use for as long as its process lives, though serviceDied     *)
(* clears whatever is set and the notice of an older process may be on its *)
(* way; a callback whose process is gone is about to be cleared; and no    *)
(* death is reported of a callback that is not in use.                     *)
CallbackFollowsFramework ==
    setting = Nobody =>
       /\ chosen \in alive => mCallback = chosen
       /\ mCallback \in alive \/ mCallback \in notices \/ mCallback = Nobody
       /\ linked \cup notices \subseteq {mCallback}
===============================================================================
