----------------------------- MODULE CecMediator -----------------------------
(***************************************************************************)
(* HWCECMediator, the singleton of the CEC HAL: the binder threads that    *)
(* call it through the HdmiCec service, its uevent thread, which follows   *)
(* the plugging of the cable, and the CEC adapter of the kernel below.     *)
(*                                                                         *)
(* Binder calls hold m_lock throughout.  The uevent thread does not take   *)
(* it, but for the two messages that wake the TV: so its query of the      *)
(* physical address interleaves with one made by a binder call, and both   *)
(* go through the same fields.  A query is five steps here, one for every  *)
(* point where it touches those fields or the driver.  The bytes of        *)
(* messages, the device types that go with a logical address and the calls *)
(* that only read (is_connected, get_port_info, get_version) are left out. *)
(***************************************************************************)
EXTENDS Naturals, Sequences, FiniteSets

CONSTANTS
    Callers,       \* binder threads that call into the mediator
    UT,            \* the uevent thread
    DeviceTypes,   \* values of ro.hdmi.device_type: "playback", "tv"
    Operations,    \* the calls the framework makes, out of AllOperations
    Addresses,     \* physical addresses a TV hands out
    Invalid,       \* physical address 0xFFFF
    TvAddress,     \* CEC_TV_PA
    TvPortAddress, \* CEC_TV_PORT_1_PA
    LogicalAddresses,
    Unregistered,  \* CEC_ADDR_UNREGISTERED; the driver's "no address" too
    None,
    Attempts,      \* how often add_logical_address tries: retry = 3, plus one
    MaxChanges,    \* bound: what happens at the HDMI connector
    MaxFailures    \* bound: requests the driver refuses

AllOperations == {"get_physical_address", "add_logical_address",
                  "clear_logical_address", "send_message", "set_option",
                  "register_event_callback"}
Threads  == Callers \cup {UT}
Physical == Addresses \cup {Invalid, TvAddress, TvPortAddress}
Logical  == LogicalAddresses \cup {Unregistered}

ASSUME ThreadsAssumption == UT \notin Callers /\ None \notin Callers \cup {UT}
ASSUME AddressAssumption ==
    /\ Invalid \notin Addresses /\ TvAddress \notin Addresses \cup {Invalid}
    /\ Unregistered \notin LogicalAddresses
ASSUME DeviceAssumption ==
    /\ DeviceTypes \subseteq {"playback", "tv"}
    /\ Operations \subseteq AllOperations
ASSUME BoundsAssumption ==
    Attempts \in Nat \ {0} /\ MaxChanges \in Nat /\ MaxFailures \in Nat

VARIABLES
    m_lock,        \* the thread that holds m_lock, or None
    pc,            \* pc[t]: where thread t is in the code
    addr,          \* addr[t]: the address a query of t reads into
    resume,        \* resume[t]: where t goes on when its query is over
    loaded,        \* loaded[t]: what a query of t has read from mPA
    wanted,        \* wanted[c]: the address c adds
    tries,         \* tries[c]: attempts c has left to add it
    mPA,           \* the physical address
    mPrePA,        \* the physical address at the last plug-in
    pa_temp,       \* mPrePA as handlePlugIn found it
    mConnect,      \* whether the device counts as connected
    port_address,  \* mportinfo->physical_address
    mCbf,          \* an event callback is registered
    mLA,           \* the logical address
    mOptionSystemCecControl,
    mCecDeviceType,\* what the device is, set by the constructor
    mAutoOtp,      \* ro.vendor.hdmicec.otp.hal is set: wake up the TV
    cable,         \* driver: a device is plugged in
    driver_pa,     \* driver: the adapter's physical address
    driver_la,     \* driver: the adapter's logical address
    uevents,       \* plug events the uevent thread has not read
    changes,       \* how much has happened at the connector
    failures,      \* how many requests the driver refused
    handled_pa,    \* history: the address at the last plug event handled
    handling,      \* history: what became of the plug event in work
    asked          \* history: a binder call has queried the address

lockVars    == <<m_lock, resume>>
localVars   == <<loaded, wanted, tries>>
addressVars == <<mPA, mConnect, port_address>>
plugVars    == <<mPrePA, pa_temp, handled_pa, handling>>
optionVars  == <<mCbf, mOptionSystemCecControl, mCecDeviceType, mAutoOtp, asked>>
driverVars  == <<cable, driver_pa, uevents, changes>>
laVars      == <<mLA, driver_la>>
vars == <<lockVars, pc, addr, localVars, addressVars, plugVars, optionVars,
          driverVars, laVars, failures>>

QueryPcs  == {"reset", "query", "store", "load", "publish"}
SendPcs   == {"message", "image_view", "image_view_only", "active_source"}
CallerPcs == QueryPcs \cup {"idle", "message", "image_view", "active_source",
                            "set_flag", "get_la", "set_la", "return_address"}
UeventPcs == QueryPcs \cup {"idle", "plug_in", "plug_out", "compare", "recheck",
                            "notify", "wake", "wake_only", "activate", "image_view",
                            "image_view_only", "active_source", "finish", "forget"}
PlugEvents == {"in", "out"}
NoHandling == [heard |-> FALSE, changed |-> FALSE, told |-> FALSE]

TypeOK ==
    /\ m_lock \in Threads \cup {None}
    /\ pc \in [Threads -> CallerPcs \cup UeventPcs]
    /\ pc[UT] \in UeventPcs
    /\ \A c \in Callers : pc[c] \in CallerPcs
    /\ addr \in [Threads -> Physical]
    /\ resume \in [Threads -> {"compare", "active_source", "return_address"}]
    /\ loaded \in [Threads -> Physical]
    /\ wanted \in [Callers -> Logical]
    /\ tries \in [Callers -> 0 .. Attempts]
    /\ mPA \in Physical /\ mPrePA \in Physical /\ pa_temp \in Physical
    /\ port_address \in Physical /\ handled_pa \in Physical
    /\ mConnect \in BOOLEAN /\ mCbf \in BOOLEAN
    /\ mOptionSystemCecControl \in BOOLEAN
    /\ mCecDeviceType \in DeviceTypes
    /\ mAutoOtp \in BOOLEAN /\ asked \in BOOLEAN
    /\ mLA \in Logical /\ driver_la \in Logical
    /\ cable \in BOOLEAN /\ driver_pa \in Physical
    /\ uevents \in Seq(PlugEvents)
    /\ changes \in 0 .. MaxChanges /\ failures \in 0 .. MaxFailures
    /\ handling \in [heard : BOOLEAN, changed : BOOLEAN, told : BOOLEAN]

(* The mediator when its constructor has succeeded.  A TV has set its own  *)
(* physical address; a playback device has asked for none yet.             *)
Init ==
    /\ mCecDeviceType \in DeviceTypes
    /\ mAutoOtp \in BOOLEAN /\ asked = FALSE
    /\ m_lock = None
    /\ pc = [t \in Threads |-> "idle"]
    /\ addr = [t \in Threads |-> Invalid]
    /\ resume = [t \in Threads |-> "active_source"]
    /\ loaded = [t \in Threads |-> Invalid]
    /\ wanted = [c \in Callers |-> Unregistered]
    /\ tries = [c \in Callers |-> 0]
    /\ mPA = IF mCecDeviceType = "tv" THEN TvAddress ELSE Invalid
    /\ mPrePA = Invalid /\ pa_temp = Invalid
    /\ port_address = IF mCecDeviceType = "tv" THEN TvPortAddress ELSE mPA
    /\ cable \in BOOLEAN /\ mConnect = cable
    /\ mCbf = FALSE /\ mOptionSystemCecControl = FALSE
    /\ mLA = Unregistered /\ driver_la = Unregistered
    /\ driver_pa \in IF mCecDeviceType = "tv" THEN {TvAddress}
                     ELSE IF cable THEN Addresses \cup {Invalid} ELSE {Invalid}
    /\ uevents = <<>> /\ changes = 0 /\ failures = 0
    /\ handled_pa = Invalid /\ handling = NoHandling

At(t, label)   == pc[t] = label
Goto(t, label) == pc' = [pc EXCEPT ![t] = label]

(* The driver refuses what it is asked.                                    *)
Refuse == failures < MaxFailures /\ failures' = failures + 1
Obey   == UNCHANGED failures

-----------------------------------------------------------------------------
(* The HDMI connector, as the driver reports it.  The address a playback   *)
(* device gets may come with the plug event or with a later one.           *)

PlugCable(pa) ==
    /\ ~cable /\ changes < MaxChanges
    /\ pa \in IF mCecDeviceType = "tv" THEN {TvAddress} ELSE Addresses \cup {Invalid}
    /\ cable' = TRUE /\ driver_pa' = pa
    /\ uevents' = Append(uevents, "in") /\ changes' = changes + 1
    /\ UNCHANGED <<lockVars, pc, addr, localVars, addressVars, plugVars,
                   optionVars, laVars, failures>>

ChangeAddress(pa) ==
    /\ cable /\ changes < MaxChanges
    /\ mCecDeviceType = "playback" /\ pa \in Addresses \ {driver_pa}
    /\ driver_pa' = pa
    /\ uevents' = Append(uevents, "in") /\ changes' = changes + 1
    /\ UNCHANGED <<lockVars, pc, addr, localVars, addressVars, plugVars,
                   optionVars, cable, laVars, failures>>

UnplugCable ==
    /\ cable /\ changes < MaxChanges
    /\ cable' = FALSE
    /\ driver_pa' = IF mCecDeviceType = "tv" THEN TvAddress ELSE Invalid
    /\ uevents' = Append(uevents, "out") /\ changes' = changes + 1
    /\ UNCHANGED <<lockVars, pc, addr, localVars, addressVars, plugVars,
                   optionVars, laVars, failures>>

-----------------------------------------------------------------------------
(* get_physical_address, by whichever thread calls it.                     *)

(* "reset mPA to invalid value first"                                      *)
ResetAddress(t) ==
    /\ At(t, "reset")
    /\ mPA' = Invalid
    /\ asked' = (asked \/ t # UT)
    /\ Goto(t, "query")
    /\ UNCHANGED <<lockVars, addr, localVars, mConnect, port_address, plugVars,
                   mCbf, mOptionSystemCecControl, mCecDeviceType, mAutoOtp,
                   driverVars, laVars, failures>>

(* When CEC_ADAP_G_PHYS_ADDR fails, *addr keeps what the caller put there. *)
QueryAddress(t) ==
    /\ At(t, "query")
    /\ \/ addr' = [addr EXCEPT ![t] = driver_pa] /\ Obey
       \/ UNCHANGED addr /\ Refuse
    /\ Goto(t, "store")
    /\ UNCHANGED <<lockVars, localVars, addressVars, plugVars, optionVars,
                   driverVars, laVars>>

StoreAddress(t) ==
    /\ At(t, "store")
    /\ IF addr[t] # Invalid THEN mPA' = addr[t] /\ mConnect' = TRUE
                            ELSE UNCHANGED <<mPA, mConnect>>
    /\ Goto(t, "load")
    /\ UNCHANGED <<lockVars, addr, localVars, port_address, plugVars, optionVars,
                   driverVars, laVars, failures>>

(* The port gets what mPA is by now, not what this query read; and between *)
(* the read of mPA and the write, mPA may change again.                    *)
LoadAddress(t) ==
    /\ At(t, "load")
    /\ loaded' = [loaded EXCEPT ![t] = mPA]
    /\ Goto(t, "publish")
    /\ UNCHANGED <<lockVars, addr, wanted, tries, addressVars, plugVars,
                   optionVars, driverVars, laVars, failures>>

(* Fault: the query always goes back to handlePlugIn.                      *)
PublishAddress_PlugIn(t) ==
    /\ At(t, "publish")
    /\ port_address' = IF mCecDeviceType = "tv" THEN port_address ELSE loaded[t]
    /\ loaded' = [loaded EXCEPT ![t] = Invalid]
    /\ Goto(t, "compare")
    /\ UNCHANGED <<lockVars, addr, wanted, tries, mPA, mConnect, plugVars,
                   optionVars, driverVars, laVars, failures>>

(* A TV's port has an address of its own.                                  *)
PublishAddress(t) ==
    /\ At(t, "publish")
    /\ port_address' = IF mCecDeviceType = "tv" THEN port_address ELSE loaded[t]
    /\ loaded' = [loaded EXCEPT ![t] = Invalid]
    /\ Goto(t, resume[t])
    /\ UNCHANGED <<lockVars, addr, wanted, tries, mPA, mConnect, plugVars,
                   optionVars, driverVars, laVars, failures>>

-----------------------------------------------------------------------------
(* Binder calls.                                                           *)

CanCall(c, operation) ==
    operation \in Operations /\ At(c, "idle") /\ m_lock = None

(* A call that is one step leaves m_lock free; the others take it here...  *)
Begin(c, label) == m_lock' = c /\ Goto(c, label)

(* ...and give it back where AutoMutex is destroyed.                       *)
Return(c) == m_lock' = None /\ Goto(c, "idle")

RegisterCallback(c) ==
    /\ CanCall(c, "register_event_callback")
    /\ mCbf' = TRUE
    /\ UNCHANGED <<lockVars, pc, addr, localVars, addressVars, plugVars,
                   mOptionSystemCecControl, mCecDeviceType, mAutoOtp, asked, driverVars, laVars, failures>>

(* HdmiCec::getPhysicalAddress hands down a variable it has not set.  A TV *)
(* answers at once.                                                        *)
GetPhysicalAddress(c, unset) ==
    /\ CanCall(c, "get_physical_address")
    /\ mCecDeviceType = "playback"
    /\ addr' = [addr EXCEPT ![c] = unset]
    /\ resume' = [resume EXCEPT ![c] = "return_address"]
    /\ Begin(c, "reset")
    /\ UNCHANGED <<localVars, addressVars, plugVars, optionVars, driverVars,
                   laVars, failures>>

ReturnAddress(c) ==
    /\ At(c, "return_address")
    /\ Return(c)
    /\ UNCHANGED <<addr, resume, localVars, addressVars, plugVars, optionVars,
                   driverVars, laVars, failures>>

AddLogicalAddress(c, la) ==
    /\ CanCall(c, "add_logical_address")
    /\ wanted' = [wanted EXCEPT ![c] = la]
    /\ Begin(c, "get_la")
    /\ UNCHANGED <<addr, resume, loaded, tries, addressVars, plugVars, optionVars,
                   driverVars, laVars, failures>>

(* "has same la, not set again".  When the driver does not answer, what    *)
(* the address is compared with was never set.                             *)
GetLogicalAddress(c) ==
    /\ At(c, "get_la")
    /\ \E same \in BOOLEAN :
          /\ \/ same = (driver_la = wanted[c]) /\ Obey
             \/ Refuse
          /\ IF same THEN Return(c) /\ UNCHANGED tries
             ELSE /\ tries' = [tries EXCEPT ![c] = Attempts]
                  /\ Goto(c, "set_la")
                  /\ UNCHANGED m_lock
    /\ UNCHANGED <<addr, resume, loaded, wanted, addressVars, plugVars, optionVars,
                   driverVars, laVars>>

LogicalAddressTaken(c) ==
    /\ At(c, "set_la")
    /\ Obey
    /\ driver_la' = wanted[c]
    /\ mLA' = wanted[c]
    /\ Return(c)
    /\ UNCHANGED <<addr, resume, localVars, addressVars, plugVars, optionVars,
                   driverVars>>

(* Fault: the last attempt is not made.                                    *)
LogicalAddressRefused_OneLess(c) ==
    /\ At(c, "set_la")
    /\ Refuse
    /\ driver_la' \in {driver_la, Unregistered}
    /\ tries' = [tries EXCEPT ![c] = @ - 1]
    /\ IF tries[c] > 2 THEN UNCHANGED <<mLA, m_lock, pc>>
                       ELSE mLA' = wanted[c] /\ Return(c)
    /\ UNCHANGED <<addr, resume, loaded, wanted, addressVars, plugVars, optionVars,
                   driverVars>>

(* The ioctl fails, or the adapter is left without an address; mLA is set  *)
(* when the attempts run out all the same.                                 *)
LogicalAddressRefused(c) ==
    /\ At(c, "set_la")
    /\ Refuse
    /\ driver_la' \in {driver_la, Unregistered}
    /\ tries' = [tries EXCEPT ![c] = @ - 1]
    /\ IF tries[c] > 1 THEN UNCHANGED <<mLA, m_lock, pc>>
                       ELSE mLA' = wanted[c] /\ Return(c)
    /\ UNCHANGED <<addr, resume, loaded, wanted, addressVars, plugVars, optionVars,
                   driverVars>>

ClearLogicalAddress(c) ==
    /\ CanCall(c, "clear_logical_address")
    /\ \/ driver_la' = Unregistered /\ Obey
       \/ UNCHANGED driver_la /\ Refuse
    /\ mLA' = Unregistered
    /\ UNCHANGED <<lockVars, pc, addr, localVars, addressVars, plugVars,
                   optionVars, driverVars>>

SendMessage(c) ==
    /\ CanCall(c, "send_message")
    /\ Begin(c, "message")
    /\ UNCHANGED <<addr, resume, localVars, addressVars, plugVars, optionVars,
                   driverVars, laVars, failures>>

MessageSent(c) ==
    /\ At(c, "message")
    /\ Return(c)
    /\ UNCHANGED <<addr, resume, localVars, addressVars, plugVars, optionVars,
                   driverVars, laVars, failures>>

(* Only HDMI_OPTION_SYSTEM_CEC_CONTROL is kept.                            *)
SetFlag(value) == mOptionSystemCecControl' \in {mOptionSystemCecControl, value}

SetOption(c, value) ==
    /\ CanCall(c, "set_option")
    /\ ~(value /\ mAutoOtp)
    /\ SetFlag(value)
    /\ UNCHANGED <<lockVars, pc, addr, localVars, addressVars, plugVars, mCbf,
                   mCecDeviceType, mAutoOtp, asked, driverVars, laVars, failures>>

(* An option switched on wakes the TV first: Image View On, then Active    *)
(* Source with an address that is queried for it.                          *)
SetOptionWakes(c) ==
    /\ CanCall(c, "set_option")
    /\ mAutoOtp
    /\ Begin(c, "image_view")
    /\ UNCHANGED <<addr, resume, localVars, addressVars, plugVars, optionVars,
                   driverVars, laVars, failures>>

(* Fault: sendActiveSourceLock is called where m_lock is held already.     *)
ImageViewSent_LocksAgain(c) ==
    /\ At(c, "image_view")
    /\ m_lock = None
    /\ m_lock' = c
    /\ addr' = [addr EXCEPT ![c] = Invalid]
    /\ resume' = [resume EXCEPT ![c] = "active_source"]
    /\ Goto(c, "reset")
    /\ UNCHANGED <<localVars, addressVars, plugVars, optionVars, driverVars,
                   laVars, failures>>

ImageViewSent(c) ==
    /\ At(c, "image_view")
    /\ addr' = [addr EXCEPT ![c] = Invalid]
    /\ resume' = [resume EXCEPT ![c] = "active_source"]
    /\ Goto(c, "reset")
    /\ UNCHANGED <<m_lock, localVars, addressVars, plugVars, optionVars,
                   driverVars, laVars, failures>>

ActiveSourceSent(c) ==
    /\ At(c, "active_source")
    /\ Goto(c, "set_flag")
    /\ UNCHANGED <<lockVars, addr, localVars, addressVars, plugVars, optionVars,
                   driverVars, laVars, failures>>

SetOptionReturns(c) ==
    /\ At(c, "set_flag")
    /\ SetFlag(TRUE)
    /\ Return(c)
    /\ UNCHANGED <<addr, resume, localVars, addressVars, plugVars, mCbf,
                   mCecDeviceType, mAutoOtp, asked, driverVars, laVars, failures>>

-----------------------------------------------------------------------------
(* The uevent thread: handleCecUEvents, handlePlugIn and handlePlugOut.    *)

(* Fault: the newest event is handled first.                               *)
TakeUevent_Newest ==
    /\ At(UT, "idle")
    /\ uevents # <<>>
    /\ uevents' = SubSeq(uevents, 1, Len(uevents) - 1)
    /\ Goto(UT, IF uevents[Len(uevents)] = "in" THEN "plug_in" ELSE "plug_out")
    /\ handling' = [NoHandling EXCEPT !.heard = mCbf]
    /\ UNCHANGED <<lockVars, addr, localVars, addressVars, mPrePA, pa_temp,
                   handled_pa, optionVars, cable, driver_pa, changes, laVars,
                   failures>>

TakeUevent ==
    /\ At(UT, "idle")
    /\ uevents # <<>>
    /\ uevents' = Tail(uevents)
    /\ Goto(UT, IF Head(uevents) = "in" THEN "plug_in" ELSE "plug_out")
    /\ handling' = [NoHandling EXCEPT !.heard = mCbf]
    /\ UNCHANGED <<lockVars, addr, localVars, addressVars, mPrePA, pa_temp,
                   handled_pa, optionVars, cable, driver_pa, changes, laVars,
                   failures>>

PlugIn ==
    /\ At(UT, "plug_in")
    /\ mCecDeviceType = "playback"
    /\ mConnect' = TRUE
    /\ pa_temp' = mPrePA
    /\ addr' = [addr EXCEPT ![UT] = Invalid]
    /\ resume' = [resume EXCEPT ![UT] = "compare"]
    /\ Goto(UT, "reset")
    /\ UNCHANGED <<m_lock, localVars, mPA, port_address, mPrePA, handled_pa,
                   handling, optionVars, driverVars, laVars, failures>>

(* "if pa is not same with before, notify to fm to handle."                *)
ComparePlugIn ==
    /\ At(UT, "compare")
    /\ Goto(UT, IF pa_temp = mPA THEN "recheck"
                ELSE IF mCbf THEN "notify" ELSE "finish")
    /\ handling' = [handling EXCEPT !.changed = addr[UT] # handled_pa]
    /\ handled_pa' = addr[UT]
    /\ UNCHANGED <<lockVars, addr, localVars, addressVars, mPrePA, pa_temp,
                   optionVars, driverVars, laVars, failures>>

(* mPA is read again to see whether there is an address at all.            *)
RecheckPlugIn ==
    /\ At(UT, "recheck")
    /\ Goto(UT, IF pa_temp = mPA /\ mPA = Invalid THEN "wake_only" ELSE "finish")
    /\ UNCHANGED <<lockVars, addr, localVars, addressVars, plugVars, optionVars,
                   driverVars, laVars, failures>>

(* The hot-plug callback of a plug-in, of a TV too.                        *)
NotifyPlugIn ==
    /\ At(UT, "notify")
    /\ handling' = [handling EXCEPT !.told = TRUE]
    /\ Goto(UT, IF mCecDeviceType = "tv" THEN "idle"
                ELSE IF mAutoOtp /\ mOptionSystemCecControl THEN "wake"
                ELSE "finish")
    /\ UNCHANGED <<lockVars, addr, localVars, addressVars, mPrePA, pa_temp,
                   handled_pa, optionVars, driverVars, laVars, failures>>

(* Fault: sendImageViewOn is called, without the lock.                     *)
WakeTv_NoLock ==
    /\ At(UT, "wake") \/ At(UT, "wake_only")
    /\ Goto(UT, IF pc[UT] = "wake" THEN "image_view" ELSE "image_view_only")
    /\ UNCHANGED <<lockVars, addr, localVars, addressVars, plugVars, optionVars,
                   driverVars, laVars, failures>>

(* sendImageViewOnLock                                                     *)
WakeTv ==
    /\ At(UT, "wake") \/ At(UT, "wake_only")
    /\ m_lock = None
    /\ m_lock' = UT
    /\ Goto(UT, IF pc[UT] = "wake" THEN "image_view" ELSE "image_view_only")
    /\ UNCHANGED <<addr, resume, localVars, addressVars, plugVars, optionVars,
                   driverVars, laVars, failures>>

(* Fault: the lock is kept where the first message is the only one.        *)
WakeSent_KeepsLock ==
    /\ At(UT, "image_view") \/ At(UT, "image_view_only")
    /\ m_lock' = IF pc[UT] = "image_view" THEN None ELSE m_lock
    /\ Goto(UT, IF pc[UT] = "image_view" THEN "activate" ELSE "finish")
    /\ UNCHANGED <<addr, resume, localVars, addressVars, plugVars, optionVars,
                   driverVars, laVars, failures>>

WakeSent ==
    /\ At(UT, "image_view") \/ At(UT, "image_view_only")
    /\ m_lock' = None
    /\ Goto(UT, IF pc[UT] = "image_view" THEN "activate" ELSE "finish")
    /\ UNCHANGED <<addr, resume, localVars, addressVars, plugVars, optionVars,
                   driverVars, laVars, failures>>

(* sendActiveSourceLock                                                    *)
BecomeActive ==
    /\ At(UT, "activate")
    /\ m_lock = None
    /\ m_lock' = UT
    /\ addr' = [addr EXCEPT ![UT] = Invalid]
    /\ resume' = [resume EXCEPT ![UT] = "active_source"]
    /\ Goto(UT, "reset")
    /\ UNCHANGED <<localVars, addressVars, plugVars, optionVars, driverVars,
                   laVars, failures>>

ActiveSent ==
    /\ At(UT, "active_source")
    /\ m_lock' = None
    /\ Goto(UT, "finish")
    /\ UNCHANGED <<addr, resume, localVars, addressVars, plugVars, optionVars,
                   driverVars, laVars, failures>>

FinishPlugIn ==
    /\ At(UT, "finish")
    /\ mPrePA' = mPA
    /\ Goto(UT, "idle")
    /\ UNCHANGED <<lockVars, addr, localVars, addressVars, pa_temp, handled_pa,
                   handling, optionVars, driverVars, laVars, failures>>

(* A TV sets its own address again; the callback waits for that.           *)
PlugInTv ==
    /\ At(UT, "plug_in")
    /\ mCecDeviceType = "tv"
    /\ mConnect' = TRUE
    /\ \/ /\ Obey
          /\ mPA' = TvAddress
          /\ Goto(UT, IF mCbf THEN "notify" ELSE "idle")
       \/ Refuse /\ Goto(UT, "idle") /\ UNCHANGED mPA
    /\ UNCHANGED <<lockVars, addr, localVars, port_address, plugVars,
                   optionVars, driverVars, laVars>>

(* Fault: a TV forgets its address too.                                    *)
PlugOut_AnyDevice ==
    /\ At(UT, "plug_out")
    /\ mConnect' = FALSE
    /\ handling' = [handling EXCEPT !.told = mCbf]
    /\ Goto(UT, "forget")
    /\ UNCHANGED <<lockVars, addr, localVars, mPA, port_address, mPrePA, pa_temp,
                   handled_pa, optionVars, driverVars, laVars, failures>>

(* mConnect and the callback, if there is one.                             *)
PlugOut ==
    /\ At(UT, "plug_out")
    /\ mConnect' = FALSE
    /\ handling' = [handling EXCEPT !.told = mCbf]
    /\ Goto(UT, IF mCecDeviceType = "tv" THEN "idle" ELSE "forget")
    /\ UNCHANGED <<lockVars, addr, localVars, mPA, port_address, mPrePA, pa_temp,
                   handled_pa, optionVars, driverVars, laVars, failures>>

(* Fault: the address of the last plug-in is not forgotten.                *)
ForgetAddress_KeepsPrevious ==
    /\ At(UT, "forget")
    /\ mPA' = Invalid
    /\ handled_pa' = Invalid
    /\ Goto(UT, "idle")
    /\ UNCHANGED <<lockVars, addr, localVars, mConnect, port_address, mPrePA,
                   pa_temp, handling, optionVars, driverVars, laVars, failures>>

(* "reset mPA to invalid, so that next valid PA will notify to frameworks" *)
ForgetAddress ==
    /\ At(UT, "forget")
    /\ mPA' = Invalid /\ mPrePA' = Invalid
    /\ handled_pa' = Invalid
    /\ Goto(UT, "idle")
    /\ UNCHANGED <<lockVars, addr, localVars, mConnect, port_address, pa_temp,
                   handling, optionVars, driverVars, laVars, failures>>

-----------------------------------------------------------------------------
QueryStep(t) ==
    \/ ResetAddress(t) \/ QueryAddress(t)
    \/ StoreAddress(t) \/ LoadAddress(t) \/ PublishAddress(t)

CallBegins(c) ==
    \/ RegisterCallback(c)
    \/ \E unset \in Addresses \cup {Invalid} : GetPhysicalAddress(c, unset)
    \/ \E la \in LogicalAddresses : AddLogicalAddress(c, la)
    \/ ClearLogicalAddress(c) \/ SendMessage(c)
    \/ \E value \in BOOLEAN : SetOption(c, value)
    \/ SetOptionWakes(c)

CallStep(c) ==
    \/ QueryStep(c) \/ ReturnAddress(c)
    \/ GetLogicalAddress(c) \/ LogicalAddressTaken(c) \/ LogicalAddressRefused(c)
    \/ MessageSent(c)
    \/ ImageViewSent(c) \/ ActiveSourceSent(c) \/ SetOptionReturns(c)

UeventStep ==
    \/ TakeUevent
    \/ PlugIn \/ QueryStep(UT) \/ ComparePlugIn \/ RecheckPlugIn \/ NotifyPlugIn
    \/ WakeTv \/ WakeSent \/ BecomeActive \/ ActiveSent \/ FinishPlugIn
    \/ PlugInTv
    \/ PlugOut \/ ForgetAddress

DriverStep ==
    \/ \E pa \in Physical : PlugCable(pa) \/ ChangeAddress(pa)
    \/ UnplugCable

Next == (\E c \in Callers : CallBegins(c) \/ CallStep(c)) \/ UeventStep \/ DriverStep

Spec == Init /\ [][Next]_vars

(* The threads run.  Nobody has to call, or to touch the cable.            *)
FairSpec == Spec /\ WF_vars(UeventStep) /\ \A c \in Callers : WF_vars(CallStep(c))

-----------------------------------------------------------------------------
(* Properties                                                              *)

(* "only one message send in time": no two threads are in a transmission,  *)
(* though three functions transmit and the uevent thread calls two of them *)
(* from outside m_lock.                                                    *)
OneTransmission ==
    \A t, u \in Threads : pc[t] \in SendPcs /\ pc[u] \in SendPcs => t = u

InQuery(t) == pc[t] \in QueryPcs \ {"reset"}

(* mPA "is save current physical address", mportinfo "is save port         *)
(* information": when no query is under way, a port that get_port_info     *)
(* lists has the address the mediator believes in.                         *)
PortFollowsAddress ==
    mCecDeviceType = "playback" /\ mPA # Invalid /\ (\A t \in Threads : ~InQuery(t))
        => port_address = mPA

(* A plug-in that comes with another physical address than the last plug   *)
(* event had is reported to a framework that listens.                      *)
AddressChangeIsTold ==
    At(UT, "finish") /\ handling.heard /\ handling.changed => handling.told

(* When all plug events are handled and no query is under way, mConnect,   *)
(* which is what is_connected answers, is the state of the connector, and  *)
(* a device that is not connected has no address.                          *)
ConnectFollowsCable ==
    At(UT, "idle") /\ uevents = <<>> /\ (\A t \in Threads : ~InQuery(t)) =>
        /\ mConnect = cable
        /\ mCecDeviceType = "playback" /\ ~cable => mPA = Invalid

(* The logical address messages are sent from is one the adapter has,      *)
(* unless the driver refuses it in all attempts.                           *)
LogicalAddressIsSet ==
    m_lock = None /\ mLA # Unregistered => driver_la = mLA

(* A TV has its address whenever no query is under way and the driver has  *)
(* refused nothing: a query that fails leaves it without.                  *)
TvKeepsAddress ==
    mCecDeviceType = "tv" /\ failures = 0 /\ (\A t \in Threads : ~InQuery(t))
        => mPA = TvAddress

(* As long as no binder call has queried the address, the uevent thread is *)
(* the only one to touch it: every change is told, and when it rests, the  *)
(* connector, mConnect, mPA and the port agree.                            *)
ToldUnlessAsked    == asked \/ AddressChangeIsTold
FollowsUnlessAsked == asked \/ (ConnectFollowsCable /\ PortFollowsAddress)

(* Every call gets through its section, and gives m_lock back.             *)
CallsReturn == \A c \in Callers : m_lock = c ~> m_lock # c

(* When the framework stops calling, the plug events that are there get    *)
(* handled: the uevent thread gets the locks it asks for, and none twice.  *)
UeventsHandled ==
    <>[](\A c \in Callers : At(c, "idle")) =>
        []<>(At(UT, "idle") /\ uevents = <<>>)
=============================================================================
