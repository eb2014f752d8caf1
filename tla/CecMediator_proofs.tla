------------------------ MODULE CecMediator_proofs ------------------------
(***************************************************************************)
(* Proofs about CecMediator for every set of callers and of addresses,     *)
(* either kind of device, and any number of plug events and refusals.      *)
(***************************************************************************)
EXTENDS CecMediator, TLAPS

-----------------------------------------------------------------------------
(* The inductive invariant.                                                *)

(* Who is inside a call, transmits, or queries the address for a message   *)
(* to send has m_lock.  The uevent thread's own query does without.        *)
LockInv ==
    /\ \A c \in Callers : pc[c] # "idle" => m_lock = c
    /\ pc[UT] \in SendPcs => m_lock = UT
    /\ pc[UT] \in QueryPcs /\ resume[UT] = "active_source" => m_lock = UT

(* A query goes back to the thread that made it.                           *)
ResumeInv ==
    /\ resume[UT] \in {"compare", "active_source"}
    /\ \A c \in Callers : resume[c] \in {"active_source", "return_address"}

(* An attempt is made only while there is one left.                        *)
TriesInv == \A c \in Callers : pc[c] = "set_la" => tries[c] > 0

(* As long as the driver has not refused as often as one call tries, an    *)
(* address being added has an attempt left for every refusal to come, and  *)
(* when none is being added the adapter has the address in mLA.            *)
AddedInv ==
    /\ \A c \in Callers : pc[c] = "set_la" => Attempts <= failures + tries[c]
    /\ failures < Attempts /\ mLA # Unregistered
       /\ (\A c \in Callers : pc[c] # "set_la") => driver_la = mLA

IInv == TypeOK /\ LockInv /\ ResumeInv /\ TriesInv /\ AddedInv

USE ThreadsAssumption, AddressAssumption, DeviceAssumption, BoundsAssumption

-----------------------------------------------------------------------------
(* Each action preserves the invariant.                                    *)

(* The step PlugCable keeps the invariant.                                 *)
LEMMA PlugCableStep ==
    ASSUME IInv, NEW pa \in Physical, PlugCable(pa)
    PROVE  IInv'
<1>1. TypeOK'
    BY DEF PlugCable, lockVars, localVars, addressVars, plugVars,
       optionVars, laVars, IInv, TypeOK, ResumeInv, Threads, Physical,
       Logical, CallerPcs, UeventPcs, QueryPcs, PlugEvents, NoHandling
<1>2. LockInv' /\ ResumeInv' /\ TriesInv'
    BY DEF PlugCable, lockVars, localVars, addressVars, plugVars,
       optionVars, laVars, IInv, TypeOK, LockInv, ResumeInv, TriesInv,
       Threads, CallerPcs, UeventPcs, SendPcs, QueryPcs
<1>3. AddedInv'
    BY DEF PlugCable, lockVars, localVars, addressVars, plugVars,
       optionVars, laVars, IInv, TypeOK, AddedInv,
       Threads
<1> QED BY <1>1, <1>2, <1>3 DEF IInv

(* The step ChangeAddress keeps the invariant.                             *)
LEMMA ChangeAddressStep ==
    ASSUME IInv, NEW pa \in Physical, ChangeAddress(pa)
    PROVE  IInv'
<1>1. TypeOK'
    BY DEF ChangeAddress, lockVars, localVars, addressVars, plugVars,
       optionVars, laVars, IInv, TypeOK, ResumeInv, Threads, Physical,
       Logical, CallerPcs, UeventPcs, QueryPcs, PlugEvents, NoHandling
<1>2. LockInv' /\ ResumeInv' /\ TriesInv'
    BY DEF ChangeAddress, lockVars, localVars, addressVars, plugVars,
       optionVars, laVars, IInv, TypeOK, LockInv, ResumeInv, TriesInv,
       Threads, CallerPcs, UeventPcs, SendPcs, QueryPcs
<1>3. AddedInv'
    BY DEF ChangeAddress, lockVars, localVars, addressVars, plugVars,
       optionVars, laVars, IInv, TypeOK, AddedInv,
       Threads
<1> QED BY <1>1, <1>2, <1>3 DEF IInv

(* The step UnplugCable keeps the invariant.                               *)
LEMMA UnplugCableStep ==
    ASSUME IInv, UnplugCable
    PROVE  IInv'
<1>1. TypeOK'
    <2>1. uevents' \in Seq(PlugEvents)
        BY DEF UnplugCable, IInv, TypeOK, PlugEvents
    <2>2. cable' \in BOOLEAN
        BY DEF UnplugCable
    <2>3. driver_pa' \in Physical
        BY DEF UnplugCable, Physical
    <2>4. changes' \in 0 .. MaxChanges
        BY DEF UnplugCable, IInv, TypeOK
    <2>5. UNCHANGED <<lockVars, pc, addr, localVars, addressVars, plugVars,
                          optionVars, laVars, failures>>
        BY DEF UnplugCable
    <2> QED BY <2>1, <2>2, <2>3, <2>4, <2>5 DEF IInv, TypeOK,
            lockVars, localVars, addressVars, plugVars, optionVars, laVars
<1>2. LockInv' /\ ResumeInv' /\ TriesInv'
    BY DEF UnplugCable, lockVars, localVars, addressVars, plugVars,
       optionVars, laVars, IInv, TypeOK, LockInv, ResumeInv, TriesInv,
       Threads, CallerPcs, UeventPcs, SendPcs, QueryPcs
<1>3. AddedInv'
    BY DEF UnplugCable, lockVars, localVars, addressVars, plugVars,
       optionVars, laVars, IInv, TypeOK, AddedInv,
       Threads
<1> QED BY <1>1, <1>2, <1>3 DEF IInv

(* The step ResetAddress keeps the invariant.                              *)
LEMMA ResetAddressStep ==
    ASSUME IInv, NEW t \in Threads, ResetAddress(t)
    PROVE  IInv'
<1>1. TypeOK'
    BY DEF ResetAddress, At, Goto, lockVars, localVars, plugVars,
       optionVars, driverVars, laVars, IInv, TypeOK, ResumeInv, Threads,
       Physical, Logical, CallerPcs, UeventPcs, QueryPcs, PlugEvents,
       NoHandling
<1>2. LockInv' /\ ResumeInv' /\ TriesInv'
    BY DEF ResetAddress, At, Goto, lockVars, localVars, plugVars,
       optionVars, driverVars, laVars, IInv, TypeOK, LockInv, ResumeInv,
       TriesInv, Threads, CallerPcs, UeventPcs, SendPcs, QueryPcs
<1>3. AddedInv'
    BY DEF ResetAddress, At, Goto, lockVars, localVars, plugVars,
       optionVars, driverVars, laVars, IInv, TypeOK, AddedInv, Threads
<1> QED BY <1>1, <1>2, <1>3 DEF IInv

(* The step QueryAddress keeps the invariant.                              *)
LEMMA QueryAddressStep ==
    ASSUME IInv, NEW t \in Threads, QueryAddress(t)
    PROVE  IInv'
<1>1. TypeOK'
    <2>1. addr' \in [Threads -> Physical]
        <3>1. addr \in [Threads -> Physical] /\ driver_pa \in Physical
            BY DEF IInv, TypeOK
        <3>2. addr' = [addr EXCEPT ![t] = driver_pa] \/ UNCHANGED addr
            BY DEF QueryAddress
        <3> QED BY <3>1, <3>2
    <2>3. failures' \in 0 .. MaxFailures
        BY DEF QueryAddress, Refuse, Obey, IInv, TypeOK
    <2>2. UNCHANGED <<lockVars, localVars, addressVars, plugVars, optionVars,
                      driverVars, laVars>> /\ pc' = [pc EXCEPT ![t] = "store"]
        BY DEF QueryAddress, Goto
    <2> QED BY <2>1, <2>2, <2>3 DEF IInv, TypeOK, lockVars, localVars, addressVars,
            plugVars, optionVars, driverVars, laVars, Threads, CallerPcs,
            UeventPcs, QueryPcs
<1>2. LockInv' /\ ResumeInv' /\ TriesInv'
    BY DEF QueryAddress, At, Goto, Refuse, Obey, lockVars, localVars,
       addressVars, plugVars, optionVars, driverVars, laVars, IInv,
       TypeOK, LockInv, ResumeInv, TriesInv, Threads, CallerPcs,
       UeventPcs, SendPcs, QueryPcs
<1>3. AddedInv'
    BY DEF QueryAddress, At, Goto, Refuse, Obey, lockVars, localVars,
       addressVars, plugVars, optionVars, driverVars, laVars, IInv,
       TypeOK, AddedInv, Threads
<1> QED BY <1>1, <1>2, <1>3 DEF IInv

(* The step StoreAddress keeps the invariant.                              *)
LEMMA StoreAddressStep ==
    ASSUME IInv, NEW t \in Threads, StoreAddress(t)
    PROVE  IInv'
<1>1. TypeOK'
    <2>1. mPA' \in Physical
        BY DEF StoreAddress, IInv, TypeOK
    <2>2. mConnect' \in BOOLEAN
        <3>1. CASE addr[t] # Invalid
            BY <3>1 DEF StoreAddress
        <3>2. CASE addr[t] = Invalid
            BY <3>2 DEF StoreAddress, IInv, TypeOK
        <3> QED BY <3>1, <3>2
    <2>3. UNCHANGED <<lockVars, addr, localVars, port_address, plugVars, optionVars,
                       driverVars, laVars, failures>> /\ pc' = [pc EXCEPT ![t] = "load"]
        BY DEF StoreAddress, Goto
    <2> QED BY <2>1, <2>2, <2>3 DEF IInv, TypeOK, lockVars, localVars,
            plugVars, optionVars, driverVars, laVars, Threads, CallerPcs,
            UeventPcs, QueryPcs
<1>2. LockInv' /\ ResumeInv' /\ TriesInv'
    BY DEF StoreAddress, At, Goto, lockVars, localVars, plugVars,
       optionVars, driverVars, laVars, IInv, TypeOK, LockInv, ResumeInv,
       TriesInv, Threads, CallerPcs, UeventPcs, SendPcs, QueryPcs
<1>3. AddedInv'
    BY DEF StoreAddress, At, Goto, lockVars, localVars, plugVars,
       optionVars, driverVars, laVars, IInv, TypeOK, AddedInv, Threads
<1> QED BY <1>1, <1>2, <1>3 DEF IInv

(* The step LoadAddress keeps the invariant.                               *)
LEMMA LoadAddressStep ==
    ASSUME IInv, NEW t \in Threads, LoadAddress(t)
    PROVE  IInv'
<1>1. TypeOK'
    <2>1. loaded' \in [Threads -> Physical]
        BY DEF LoadAddress, IInv, TypeOK
    <2>2. UNCHANGED <<lockVars, addr, wanted, tries, addressVars, plugVars,
                      optionVars, driverVars, laVars, failures>>
          /\ pc' = [pc EXCEPT ![t] = "publish"]
        BY DEF LoadAddress, Goto
    <2> QED BY <2>1, <2>2 DEF IInv, TypeOK, lockVars, addressVars,
            plugVars, optionVars, driverVars, laVars, Threads, CallerPcs,
            UeventPcs, QueryPcs
<1>2. LockInv' /\ ResumeInv' /\ TriesInv'
    BY DEF LoadAddress, At, Goto, lockVars, localVars, addressVars, plugVars,
       optionVars, driverVars, laVars, IInv, TypeOK, LockInv, ResumeInv,
       TriesInv, Threads, CallerPcs, UeventPcs, SendPcs, QueryPcs
<1>3. AddedInv'
    BY DEF LoadAddress, At, Goto, lockVars, localVars, addressVars, plugVars,
       optionVars, driverVars, laVars, IInv, TypeOK, AddedInv, Threads
<1> QED BY <1>1, <1>2, <1>3 DEF IInv

(* The step PublishAddress keeps the invariant.                            *)
LEMMA PublishAddressStep ==
    ASSUME IInv, NEW t \in Threads, PublishAddress(t)
    PROVE  IInv'
<1>1. TypeOK'
    BY DEF PublishAddress, At, Goto, lockVars, localVars, plugVars,
       optionVars, driverVars, laVars, IInv, TypeOK, ResumeInv, Threads,
       Physical, Logical, CallerPcs, UeventPcs, QueryPcs, PlugEvents,
       NoHandling
<1>2. LockInv' /\ ResumeInv' /\ TriesInv'
    BY DEF PublishAddress, At, Goto, lockVars, localVars, plugVars,
       optionVars, driverVars, laVars, IInv, TypeOK, LockInv, ResumeInv,
       TriesInv, Threads, CallerPcs, UeventPcs, SendPcs, QueryPcs
<1>3. AddedInv'
    BY DEF PublishAddress, At, Goto, lockVars, localVars, plugVars,
       optionVars, driverVars, laVars, IInv, TypeOK, AddedInv, Threads
<1> QED BY <1>1, <1>2, <1>3 DEF IInv

(* The step RegisterCallback keeps the invariant.                          *)
LEMMA RegisterCallbackStep ==
    ASSUME IInv, NEW c \in Callers, RegisterCallback(c)
    PROVE  IInv'
<1>1. TypeOK'
    BY DEF RegisterCallback, CanCall, At, lockVars, localVars, addressVars,
       plugVars, driverVars, laVars, IInv, TypeOK, ResumeInv, Threads,
       Physical, Logical, CallerPcs, UeventPcs, QueryPcs, PlugEvents,
       NoHandling
<1>2. LockInv' /\ ResumeInv' /\ TriesInv'
    BY DEF RegisterCallback, CanCall, At, lockVars, localVars, addressVars,
       plugVars, driverVars, laVars, IInv, TypeOK, LockInv, ResumeInv,
       TriesInv, Threads, CallerPcs, UeventPcs, SendPcs, QueryPcs
<1>3. AddedInv'
    BY DEF RegisterCallback, CanCall, At, lockVars, localVars, addressVars,
       plugVars, driverVars, laVars, IInv, TypeOK, AddedInv, Threads
<1> QED BY <1>1, <1>2, <1>3 DEF IInv

(* The step ReturnAddress keeps the invariant.                             *)
LEMMA ReturnAddressStep ==
    ASSUME IInv, NEW c \in Callers, ReturnAddress(c)
    PROVE  IInv'
<1>1. TypeOK'
    BY DEF ReturnAddress, At, Return, Goto, localVars, addressVars,
       plugVars, optionVars, driverVars, laVars, IInv, TypeOK, ResumeInv,
       Threads, Physical, Logical, CallerPcs, UeventPcs, QueryPcs,
       PlugEvents, NoHandling
<1>2. LockInv' /\ ResumeInv' /\ TriesInv'
    BY DEF ReturnAddress, At, Return, Goto, localVars, addressVars,
       plugVars, optionVars, driverVars, laVars, IInv, TypeOK, LockInv,
       ResumeInv, TriesInv, Threads, CallerPcs, UeventPcs, SendPcs,
       QueryPcs
<1>3. AddedInv'
    BY DEF ReturnAddress, At, Return, Goto, localVars, addressVars,
       plugVars, optionVars, driverVars, laVars, IInv, TypeOK,
       AddedInv, Threads
<1> QED BY <1>1, <1>2, <1>3 DEF IInv

(* The step GetLogicalAddress keeps the invariant.                         *)
LEMMA GetLogicalAddressStep ==
    ASSUME IInv, NEW c \in Callers, GetLogicalAddress(c)
    PROVE  IInv'
<1>a. /\ pc[c] = "get_la" /\ failures' \in 0 .. MaxFailures
      /\ failures \in Nat /\ failures' >= failures
    BY DEF GetLogicalAddress, At, Refuse, Obey, IInv, TypeOK
<1>b. UNCHANGED <<addr, resume, loaded, wanted, addressVars, plugVars, optionVars,
                  driverVars, laVars>>
    BY DEF GetLogicalAddress
<1>c. CASE m_lock' = None /\ pc' = [pc EXCEPT ![c] = "idle"] /\ tries' = tries
    <2>1. TypeOK'
        BY <1>a, <1>b, <1>c DEF IInv, TypeOK, addressVars, plugVars,
           optionVars, driverVars, laVars, Threads, CallerPcs
    <2>2. LockInv' /\ ResumeInv' /\ TriesInv'
        BY <1>a, <1>b, <1>c DEF IInv, TypeOK, LockInv, ResumeInv, TriesInv, Threads
    <2>3. AddedInv'
        BY <1>a, <1>b, <1>c DEF IInv, TypeOK, AddedInv, Threads, laVars
    <2> QED BY <2>1, <2>2, <2>3 DEF IInv
<1>d. CASE /\ m_lock' = m_lock /\ pc' = [pc EXCEPT ![c] = "set_la"]
           /\ tries' = [tries EXCEPT ![c] = Attempts]
    <2>1. TypeOK'
        BY <1>a, <1>b, <1>d DEF IInv, TypeOK, addressVars, plugVars,
           optionVars, driverVars, laVars, Threads, CallerPcs
    <2>2. LockInv' /\ ResumeInv' /\ TriesInv'
        BY <1>a, <1>b, <1>d DEF IInv, TypeOK, LockInv, ResumeInv, TriesInv, Threads
    <2>3. pc'[c] = "set_la" /\ tries'[c] = Attempts
          /\ \A d \in Callers \ {c} : pc'[d] = pc[d] /\ tries'[d] = tries[d]
        BY <1>d DEF IInv, TypeOK, Threads
    <2>4. tries \in [Callers -> 0 .. Attempts]
        BY DEF IInv, TypeOK
    <2>5. AddedInv'
        BY <1>a, <2>3, <2>4 DEF IInv, AddedInv
    <2> QED BY <2>1, <2>2, <2>5 DEF IInv
<1>e. \E same \in BOOLEAN :
          IF same THEN Return(c) /\ UNCHANGED tries
          ELSE /\ tries' = [tries EXCEPT ![c] = Attempts]
               /\ Goto(c, "set_la")
               /\ UNCHANGED m_lock
    BY DEF GetLogicalAddress
<1> QED BY <1>c, <1>d, <1>e DEF Return, Goto

(* The step LogicalAddressTaken keeps the invariant.                       *)
LEMMA LogicalAddressTakenStep ==
    ASSUME IInv, NEW c \in Callers, LogicalAddressTaken(c)
    PROVE  IInv'
<1>1. TypeOK'
    BY DEF LogicalAddressTaken, At, Obey, Return, Goto, localVars,
       addressVars, plugVars, optionVars, driverVars, IInv, TypeOK,
       ResumeInv, Threads, Physical, Logical, CallerPcs, UeventPcs,
       QueryPcs, PlugEvents, NoHandling
<1>2. LockInv' /\ ResumeInv' /\ TriesInv'
    BY DEF LogicalAddressTaken, At, Obey, Return, Goto, localVars,
       addressVars, plugVars, optionVars, driverVars, IInv, TypeOK,
       LockInv, ResumeInv, TriesInv, Threads, CallerPcs, UeventPcs,
       SendPcs, QueryPcs
<1>3. AddedInv'
    BY DEF LogicalAddressTaken, At, Obey, Return, Goto, localVars,
       addressVars, plugVars, optionVars, driverVars, IInv, TypeOK,
       AddedInv, Threads
<1> QED BY <1>1, <1>2, <1>3 DEF IInv

(* The step LogicalAddressRefused keeps the invariant.                     *)
LEMMA LogicalAddressRefusedStep ==
    ASSUME IInv, NEW c \in Callers, LogicalAddressRefused(c)
    PROVE  IInv'
<1>1. TypeOK'
    <2>1. /\ failures' \in 0 .. MaxFailures
          /\ tries' \in [Callers -> 0 .. Attempts]
        BY DEF LogicalAddressRefused, Refuse, At, IInv, TypeOK, TriesInv
    <2>2. /\ driver_la' \in Logical /\ mLA' \in Logical
          /\ m_lock' \in Threads \cup {None}
          /\ \E label \in {"idle", "set_la"} : pc' = [pc EXCEPT ![c] = label]
        <3>1. CASE tries[c] > 1
          BY <3>1 DEF LogicalAddressRefused, At, IInv, TypeOK, Threads, Logical
        <3>2. CASE ~(tries[c] > 1)
          BY <3>2 DEF LogicalAddressRefused, Return, Goto, IInv,
                  TypeOK, Logical
        <3> QED BY <3>1, <3>2
    <2>3. UNCHANGED <<addr, resume, loaded, wanted, addressVars, plugVars, optionVars,
                       driverVars>>
        BY DEF LogicalAddressRefused
    <2> QED BY <2>1, <2>2, <2>3 DEF IInv, TypeOK, addressVars,
            plugVars, optionVars, driverVars, Threads, CallerPcs
<1>2. LockInv' /\ ResumeInv' /\ TriesInv'
    <2>1. /\ pc[c] = "set_la" /\ tries \in [Callers -> 0 .. Attempts]
          /\ tries' = [tries EXCEPT ![c] = tries[c] - 1] /\ UNCHANGED resume
        BY DEF LogicalAddressRefused, At, IInv, TypeOK
    <2>2. CASE tries[c] > 1 /\ UNCHANGED <<m_lock, pc>>
        BY <2>1, <2>2 DEF IInv, TypeOK, LockInv, ResumeInv, TriesInv, Threads
    <2>3. CASE m_lock' = None /\ pc' = [pc EXCEPT ![c] = "idle"]
        BY <2>1, <2>3 DEF IInv, TypeOK, LockInv, ResumeInv, TriesInv, Threads
    <2> QED BY <2>2, <2>3 DEF LogicalAddressRefused, Return, Goto
<1>3. AddedInv'
    <2>1. /\ failures' = failures + 1 /\ failures \in Nat /\ Attempts \in Nat
          /\ tries' = [tries EXCEPT ![c] = tries[c] - 1] /\ pc[c] = "set_la"
          /\ tries \in [Callers -> 0 .. Attempts] /\ tries[c] > 0
        BY DEF LogicalAddressRefused, At, Refuse, IInv, TypeOK, TriesInv
    <2>2. \A d \in Callers : pc'[d] = "set_la" => pc[d] = "set_la"
        BY DEF LogicalAddressRefused, At, Return, Goto, IInv, TypeOK, Threads
    <2>3. \A d \in Callers : pc'[d] = "set_la" => Attempts <= failures' + tries'[d]
        BY <2>1, <2>2 DEF IInv, AddedInv
    <2>4. CASE tries[c] > 1
        <3>1. pc'[c] = "set_la"
            BY <2>1, <2>4 DEF LogicalAddressRefused
        <3> QED BY <2>3, <3>1 DEF AddedInv
    <2>5. CASE ~(tries[c] > 1)
        <3>1. failures' >= Attempts
            BY <2>1, <2>5 DEF IInv, AddedInv
        <3> QED BY <2>1, <2>3, <3>1 DEF AddedInv
    <2> QED BY <2>4, <2>5
<1> QED BY <1>1, <1>2, <1>3 DEF IInv

(* The step ClearLogicalAddress keeps the invariant.                       *)
LEMMA ClearLogicalAddressStep ==
    ASSUME IInv, NEW c \in Callers, ClearLogicalAddress(c)
    PROVE  IInv'
<1>1. TypeOK'
    BY DEF ClearLogicalAddress, Refuse, Obey, CanCall, At, lockVars,
       localVars, addressVars, plugVars, optionVars, driverVars, IInv,
       TypeOK, ResumeInv, Threads, Physical, Logical, CallerPcs,
       UeventPcs, QueryPcs, PlugEvents, NoHandling
<1>2. LockInv' /\ ResumeInv' /\ TriesInv'
    BY DEF ClearLogicalAddress, Refuse, Obey, CanCall, At, lockVars,
       localVars, addressVars, plugVars, optionVars, driverVars, IInv,
       TypeOK, LockInv, ResumeInv, TriesInv, Threads, CallerPcs,
       UeventPcs, SendPcs, QueryPcs
<1>3. AddedInv'
    BY DEF ClearLogicalAddress, Refuse, Obey, CanCall, At, lockVars,
       localVars, addressVars, plugVars, optionVars, driverVars, IInv,
       TypeOK, AddedInv, Threads
<1> QED BY <1>1, <1>2, <1>3 DEF IInv

(* The step SendMessage keeps the invariant.                               *)
LEMMA SendMessageStep ==
    ASSUME IInv, NEW c \in Callers, SendMessage(c)
    PROVE  IInv'
<1>1. TypeOK'
    BY DEF SendMessage, CanCall, Begin, At, Goto, localVars, addressVars,
       plugVars, optionVars, driverVars, laVars, IInv, TypeOK, ResumeInv,
       Threads, Physical, Logical, CallerPcs, UeventPcs, QueryPcs,
       PlugEvents, NoHandling
<1>2. LockInv' /\ ResumeInv' /\ TriesInv'
    BY DEF SendMessage, CanCall, Begin, At, Goto, localVars, addressVars,
       plugVars, optionVars, driverVars, laVars, IInv, TypeOK, LockInv,
       ResumeInv, TriesInv, Threads, CallerPcs, UeventPcs, SendPcs,
       QueryPcs
<1>3. AddedInv'
    BY DEF SendMessage, CanCall, Begin, At, Goto, localVars, addressVars,
       plugVars, optionVars, driverVars, laVars, IInv, TypeOK,
       AddedInv, Threads
<1> QED BY <1>1, <1>2, <1>3 DEF IInv

(* The step MessageSent keeps the invariant.                               *)
LEMMA MessageSentStep ==
    ASSUME IInv, NEW c \in Callers, MessageSent(c)
    PROVE  IInv'
<1>1. TypeOK'
    BY DEF MessageSent, At, Return, Goto, localVars, addressVars, plugVars,
       optionVars, driverVars, laVars, IInv, TypeOK, ResumeInv, Threads,
       Physical, Logical, CallerPcs, UeventPcs, QueryPcs, PlugEvents,
       NoHandling
<1>2. LockInv' /\ ResumeInv' /\ TriesInv'
    BY DEF MessageSent, At, Return, Goto, localVars, addressVars, plugVars,
       optionVars, driverVars, laVars, IInv, TypeOK, LockInv, ResumeInv,
       TriesInv, Threads, CallerPcs, UeventPcs, SendPcs, QueryPcs
<1>3. AddedInv'
    BY DEF MessageSent, At, Return, Goto, localVars, addressVars, plugVars,
       optionVars, driverVars, laVars, IInv, TypeOK, AddedInv, Threads
<1> QED BY <1>1, <1>2, <1>3 DEF IInv

(* The step SetOptionWakes keeps the invariant.                            *)
LEMMA SetOptionWakesStep ==
    ASSUME IInv, NEW c \in Callers, SetOptionWakes(c)
    PROVE  IInv'
<1>1. TypeOK'
    BY DEF SetOptionWakes, CanCall, Begin, At, Goto, localVars, addressVars,
       plugVars, optionVars, driverVars, laVars, IInv, TypeOK, ResumeInv,
       Threads, Physical, Logical, CallerPcs, UeventPcs, QueryPcs,
       PlugEvents, NoHandling
<1>2. LockInv' /\ ResumeInv' /\ TriesInv'
    BY DEF SetOptionWakes, CanCall, Begin, At, Goto, localVars, addressVars,
       plugVars, optionVars, driverVars, laVars, IInv, TypeOK, LockInv,
       ResumeInv, TriesInv, Threads, CallerPcs, UeventPcs, SendPcs,
       QueryPcs
<1>3. AddedInv'
    BY DEF SetOptionWakes, CanCall, Begin, At, Goto, localVars, addressVars,
       plugVars, optionVars, driverVars, laVars, IInv, TypeOK,
       AddedInv, Threads
<1> QED BY <1>1, <1>2, <1>3 DEF IInv

(* The step ImageViewSent keeps the invariant.                             *)
LEMMA ImageViewSentStep ==
    ASSUME IInv, NEW c \in Callers, ImageViewSent(c)
    PROVE  IInv'
<1>1. TypeOK'
    BY DEF ImageViewSent, At, Goto, localVars, addressVars, plugVars,
       optionVars, driverVars, laVars, IInv, TypeOK, ResumeInv, Threads,
       Physical, Logical, CallerPcs, UeventPcs, QueryPcs, PlugEvents,
       NoHandling
<1>2. LockInv' /\ ResumeInv' /\ TriesInv'
    BY DEF ImageViewSent, At, Goto, localVars, addressVars, plugVars,
       optionVars, driverVars, laVars, IInv, TypeOK, LockInv, ResumeInv,
       TriesInv, Threads, CallerPcs, UeventPcs, SendPcs, QueryPcs
<1>3. AddedInv'
    BY DEF ImageViewSent, At, Goto, localVars, addressVars, plugVars,
       optionVars, driverVars, laVars, IInv, TypeOK, AddedInv, Threads
<1> QED BY <1>1, <1>2, <1>3 DEF IInv

(* The step ActiveSourceSent keeps the invariant.                          *)
LEMMA ActiveSourceSentStep ==
    ASSUME IInv, NEW c \in Callers, ActiveSourceSent(c)
    PROVE  IInv'
<1>1. TypeOK'
    BY DEF ActiveSourceSent, At, Goto, lockVars, localVars, addressVars,
       plugVars, optionVars, driverVars, laVars, IInv, TypeOK, ResumeInv,
       Threads, Physical, Logical, CallerPcs, UeventPcs, QueryPcs,
       PlugEvents, NoHandling
<1>2. LockInv' /\ ResumeInv' /\ TriesInv'
    BY DEF ActiveSourceSent, At, Goto, lockVars, localVars, addressVars,
       plugVars, optionVars, driverVars, laVars, IInv, TypeOK, LockInv,
       ResumeInv, TriesInv, Threads, CallerPcs, UeventPcs, SendPcs,
       QueryPcs
<1>3. AddedInv'
    BY DEF ActiveSourceSent, At, Goto, lockVars, localVars, addressVars,
       plugVars, optionVars, driverVars, laVars, IInv, TypeOK,
       AddedInv, Threads
<1> QED BY <1>1, <1>2, <1>3 DEF IInv

(* The step SetOptionReturns keeps the invariant.                          *)
LEMMA SetOptionReturnsStep ==
    ASSUME IInv, NEW c \in Callers, SetOptionReturns(c)
    PROVE  IInv'
<1>1. TypeOK'
    <2>1. mOptionSystemCecControl' \in BOOLEAN
        BY DEF SetOptionReturns, At, Return, SetFlag, Goto, localVars,
           addressVars, plugVars, driverVars, laVars, IInv, TypeOK,
           Physical
    <2>2. /\ pc' \in [Threads -> CallerPcs \cup UeventPcs]
          /\ pc'[UT] \in UeventPcs
          /\ \A d \in Callers : pc'[d] \in CallerPcs
        BY DEF SetOptionReturns, At, Return, SetFlag, Goto, localVars,
           addressVars, plugVars, driverVars, laVars, IInv, TypeOK,
           ResumeInv, Threads, CallerPcs, UeventPcs, QueryPcs
    <2> QED BY <2>1, <2>2 DEF SetOptionReturns, At, Return, SetFlag, Goto,
           localVars, addressVars, plugVars, driverVars, laVars, IInv,
           TypeOK
<1>2. LockInv' /\ ResumeInv' /\ TriesInv'
    BY DEF SetOptionReturns, At, Return, SetFlag, Goto, localVars,
       addressVars, plugVars, driverVars, laVars, IInv, TypeOK, LockInv,
       ResumeInv, TriesInv, Threads, CallerPcs, UeventPcs, SendPcs,
       QueryPcs
<1>3. AddedInv'
    BY DEF SetOptionReturns, At, Return, SetFlag, Goto, localVars,
       addressVars, plugVars, driverVars, laVars, IInv, TypeOK,
       AddedInv, Threads
<1> QED BY <1>1, <1>2, <1>3 DEF IInv

(* The step GetPhysicalAddress keeps the invariant.                        *)
LEMMA GetPhysicalAddressStep ==
    ASSUME IInv, NEW c \in Callers,
           NEW unset \in Addresses \cup {Invalid}, GetPhysicalAddress(c, unset)
    PROVE  IInv'
<1>1. TypeOK'
    BY DEF GetPhysicalAddress, CanCall, Begin, At, Goto, localVars,
       addressVars, plugVars, optionVars, driverVars, laVars, IInv,
       TypeOK, ResumeInv, Threads, Physical, Logical, CallerPcs,
       UeventPcs, QueryPcs, PlugEvents, NoHandling
<1>2. LockInv' /\ ResumeInv' /\ TriesInv'
    BY DEF GetPhysicalAddress, CanCall, Begin, At, Goto, localVars,
       addressVars, plugVars, optionVars, driverVars, laVars, IInv,
       TypeOK, LockInv, ResumeInv, TriesInv, Threads, CallerPcs,
       UeventPcs, SendPcs, QueryPcs
<1>3. AddedInv'
    BY DEF GetPhysicalAddress, CanCall, Begin, At, Goto, localVars,
       addressVars, plugVars, optionVars, driverVars, laVars, IInv,
       TypeOK, AddedInv, Threads
<1> QED BY <1>1, <1>2, <1>3 DEF IInv

(* The step AddLogicalAddress keeps the invariant.                         *)
LEMMA AddLogicalAddressStep ==
    ASSUME IInv, NEW c \in Callers,
           NEW la \in LogicalAddresses, AddLogicalAddress(c, la)
    PROVE  IInv'
<1>1. TypeOK'
    BY DEF AddLogicalAddress, CanCall, Begin, At, Goto, addressVars,
       plugVars, optionVars, driverVars, laVars, IInv, TypeOK, ResumeInv,
       Threads, Physical, Logical, CallerPcs, UeventPcs, QueryPcs,
       PlugEvents, NoHandling
<1>2. LockInv' /\ ResumeInv' /\ TriesInv'
    BY DEF AddLogicalAddress, CanCall, Begin, At, Goto, addressVars,
       plugVars, optionVars, driverVars, laVars, IInv, TypeOK, LockInv,
       ResumeInv, TriesInv, Threads, CallerPcs, UeventPcs, SendPcs,
       QueryPcs
<1>3. AddedInv'
    BY DEF AddLogicalAddress, CanCall, Begin, At, Goto, addressVars,
       plugVars, optionVars, driverVars, laVars, IInv, TypeOK,
       AddedInv, Threads
<1> QED BY <1>1, <1>2, <1>3 DEF IInv

(* The step SetOption keeps the invariant.                                 *)
LEMMA SetOptionStep ==
    ASSUME IInv, NEW c \in Callers, NEW value \in BOOLEAN, SetOption(c, value)
    PROVE  IInv'
<1>1. TypeOK'
    BY DEF SetOption, CanCall, SetFlag, At, lockVars, localVars,
       addressVars, plugVars, driverVars, laVars, IInv, TypeOK, ResumeInv,
       Threads, Physical, Logical, CallerPcs, UeventPcs, QueryPcs,
       PlugEvents, NoHandling
<1>2. LockInv' /\ ResumeInv' /\ TriesInv'
    BY DEF SetOption, CanCall, SetFlag, At, lockVars, localVars,
       addressVars, plugVars, driverVars, laVars, IInv, TypeOK, LockInv,
       ResumeInv, TriesInv, Threads, CallerPcs, UeventPcs, SendPcs,
       QueryPcs
<1>3. AddedInv'
    BY DEF SetOption, CanCall, SetFlag, At, lockVars, localVars,
       addressVars, plugVars, driverVars, laVars, IInv, TypeOK,
       AddedInv, Threads
<1> QED BY <1>1, <1>2, <1>3 DEF IInv

(* The step TakeUevent keeps the invariant.                                *)
LEMMA TakeUeventStep ==
    ASSUME IInv, TakeUevent
    PROVE  IInv'
<1>1. TypeOK'
    <2>1. uevents' \in Seq(PlugEvents)
        BY DEF TakeUevent, IInv, TypeOK
    <2>2. handling' = [heard |-> mCbf, changed |-> FALSE, told |-> FALSE]
        BY DEF TakeUevent, NoHandling
    <2>3. /\ \E label \in {"plug_in", "plug_out"} : pc' = [pc EXCEPT ![UT] = label]
          /\ UNCHANGED <<lockVars, addr, localVars, addressVars, mPrePA, pa_temp,
                       handled_pa, optionVars, cable, driver_pa, changes, laVars,
                       failures>>
        BY DEF TakeUevent, Goto
    <2> QED BY <2>1, <2>2, <2>3 DEF IInv, TypeOK, lockVars, localVars,
            addressVars, optionVars, laVars, Threads, UeventPcs
<1>2. LockInv' /\ ResumeInv' /\ TriesInv'
    BY DEF TakeUevent, At, Goto, lockVars, localVars, addressVars,
       optionVars, laVars, IInv, TypeOK, LockInv, ResumeInv, TriesInv,
       Threads, CallerPcs, UeventPcs, SendPcs, QueryPcs
<1>3. AddedInv'
    BY DEF TakeUevent, At, Goto, lockVars, localVars, addressVars,
       optionVars, laVars, IInv, TypeOK, AddedInv,
       Threads
<1> QED BY <1>1, <1>2, <1>3 DEF IInv

(* The step PlugIn keeps the invariant.                                    *)
LEMMA PlugInStep ==
    ASSUME IInv, PlugIn
    PROVE  IInv'
<1>1. TypeOK'
    BY DEF PlugIn, At, Goto, localVars, optionVars, driverVars, laVars,
       IInv, TypeOK, ResumeInv, Threads, Physical, Logical, CallerPcs,
       UeventPcs, QueryPcs, PlugEvents, NoHandling
<1>2. LockInv' /\ ResumeInv' /\ TriesInv'
    BY DEF PlugIn, At, Goto, localVars, optionVars, driverVars, laVars,
       IInv, TypeOK, LockInv, ResumeInv, TriesInv, Threads, CallerPcs,
       UeventPcs, SendPcs, QueryPcs
<1>3. AddedInv'
    BY DEF PlugIn, At, Goto, localVars, optionVars, driverVars, laVars,
       IInv, TypeOK, AddedInv, Threads
<1> QED BY <1>1, <1>2, <1>3 DEF IInv

(* The step ComparePlugIn keeps the invariant.                             *)
LEMMA ComparePlugInStep ==
    ASSUME IInv, ComparePlugIn
    PROVE  IInv'
<1>1. TypeOK'
    <2>1. handling' \in [heard : BOOLEAN, changed : BOOLEAN, told : BOOLEAN]
        BY DEF ComparePlugIn, At, Goto, lockVars, localVars,
           addressVars, optionVars, driverVars, laVars, IInv, TypeOK,
           Physical
    <2>2. /\ pc' \in [Threads -> CallerPcs \cup UeventPcs]
          /\ pc'[UT] \in UeventPcs
          /\ \A c \in Callers : pc'[c] \in CallerPcs
        BY DEF ComparePlugIn, At, Goto, lockVars, localVars,
           addressVars, optionVars, driverVars, laVars, IInv, TypeOK,
           ResumeInv, Threads, CallerPcs, UeventPcs, QueryPcs
    <2> QED BY <2>1, <2>2 DEF ComparePlugIn, At, Goto, lockVars, localVars,
           addressVars, optionVars, driverVars, laVars, IInv, TypeOK
<1>2. LockInv' /\ ResumeInv' /\ TriesInv'
    BY DEF ComparePlugIn, At, Goto, lockVars, localVars, addressVars,
       optionVars, driverVars, laVars, IInv, TypeOK, LockInv, ResumeInv,
       TriesInv, Threads, CallerPcs, UeventPcs, SendPcs, QueryPcs
<1>3. AddedInv'
    BY DEF ComparePlugIn, At, Goto, lockVars, localVars, addressVars,
       optionVars, driverVars, laVars, IInv, TypeOK, AddedInv, Threads
<1> QED BY <1>1, <1>2, <1>3 DEF IInv

(* The step RecheckPlugIn keeps the invariant.                             *)
LEMMA RecheckPlugInStep ==
    ASSUME IInv, RecheckPlugIn
    PROVE  IInv'
<1>1. TypeOK'
    BY DEF RecheckPlugIn, At, Goto, lockVars, localVars, addressVars, plugVars, optionVars,
       driverVars, laVars, IInv, TypeOK, ResumeInv, Threads, Physical,
       Logical, CallerPcs, UeventPcs, QueryPcs, PlugEvents, NoHandling
<1>2. LockInv' /\ ResumeInv' /\ TriesInv'
    BY DEF RecheckPlugIn, At, Goto, lockVars, localVars, addressVars, plugVars, optionVars,
       driverVars, laVars, IInv, TypeOK, LockInv, ResumeInv, TriesInv,
       Threads, CallerPcs, UeventPcs, SendPcs, QueryPcs
<1>3. AddedInv'
    BY DEF RecheckPlugIn, At, Goto, lockVars, localVars, addressVars, plugVars, optionVars,
       driverVars, laVars, IInv, TypeOK, AddedInv,
       Threads
<1> QED BY <1>1, <1>2, <1>3 DEF IInv

(* The step NotifyPlugIn keeps the invariant.                              *)
LEMMA NotifyPlugInStep ==
    ASSUME IInv, NotifyPlugIn
    PROVE  IInv'
<1>1. TypeOK'
    <2>1. handling' \in [heard : BOOLEAN, changed : BOOLEAN, told : BOOLEAN]
        BY DEF NotifyPlugIn, At, Goto, lockVars, localVars, addressVars,
           optionVars, driverVars, laVars, IInv, TypeOK, Physical
    <2>2. /\ pc' \in [Threads -> CallerPcs \cup UeventPcs]
          /\ pc'[UT] \in UeventPcs
          /\ \A c \in Callers : pc'[c] \in CallerPcs
        BY DEF NotifyPlugIn, At, Goto, lockVars, localVars, addressVars,
           optionVars, driverVars, laVars, IInv, TypeOK, ResumeInv,
           Threads, CallerPcs, UeventPcs, QueryPcs
    <2> QED BY <2>1, <2>2 DEF NotifyPlugIn, At, Goto, lockVars, localVars,
           addressVars, optionVars, driverVars, laVars, IInv, TypeOK
<1>2. LockInv' /\ ResumeInv' /\ TriesInv'
    BY DEF NotifyPlugIn, At, Goto, lockVars, localVars, addressVars,
       optionVars, driverVars, laVars, IInv, TypeOK, LockInv, ResumeInv,
       TriesInv, Threads, CallerPcs, UeventPcs, SendPcs, QueryPcs
<1>3. AddedInv'
    BY DEF NotifyPlugIn, At, Goto, lockVars, localVars, addressVars,
       optionVars, driverVars, laVars, IInv, TypeOK, AddedInv, Threads
<1> QED BY <1>1, <1>2, <1>3 DEF IInv

(* The step WakeTv keeps the invariant.                                    *)
LEMMA WakeTvStep ==
    ASSUME IInv, WakeTv
    PROVE  IInv'
<1>1. TypeOK'
    BY DEF WakeTv, At, Goto, localVars, addressVars, plugVars, optionVars,
       driverVars, laVars, IInv, TypeOK, ResumeInv, Threads, Physical,
       Logical, CallerPcs, UeventPcs, QueryPcs, PlugEvents, NoHandling
<1>2. LockInv' /\ ResumeInv' /\ TriesInv'
    BY DEF WakeTv, At, Goto, localVars, addressVars, plugVars, optionVars,
       driverVars, laVars, IInv, TypeOK, LockInv, ResumeInv, TriesInv,
       Threads, CallerPcs, UeventPcs, SendPcs, QueryPcs
<1>3. AddedInv'
    BY DEF WakeTv, At, Goto, localVars, addressVars, plugVars, optionVars,
       driverVars, laVars, IInv, TypeOK, AddedInv,
       Threads
<1> QED BY <1>1, <1>2, <1>3 DEF IInv

(* The step WakeSent keeps the invariant.                                  *)
LEMMA WakeSentStep ==
    ASSUME IInv, WakeSent
    PROVE  IInv'
<1>1. TypeOK'
    BY DEF WakeSent, At, Goto, localVars, addressVars, plugVars, optionVars,
       driverVars, laVars, IInv, TypeOK, ResumeInv, Threads, Physical,
       Logical, CallerPcs, UeventPcs, QueryPcs, PlugEvents, NoHandling
<1>2. LockInv' /\ ResumeInv' /\ TriesInv'
    BY DEF WakeSent, At, Goto, localVars, addressVars, plugVars, optionVars,
       driverVars, laVars, IInv, TypeOK, LockInv, ResumeInv, TriesInv,
       Threads, CallerPcs, UeventPcs, SendPcs, QueryPcs
<1>3. AddedInv'
    BY DEF WakeSent, At, Goto, localVars, addressVars, plugVars, optionVars,
       driverVars, laVars, IInv, TypeOK, AddedInv,
       Threads
<1> QED BY <1>1, <1>2, <1>3 DEF IInv

(* The step BecomeActive keeps the invariant.                              *)
LEMMA BecomeActiveStep ==
    ASSUME IInv, BecomeActive
    PROVE  IInv'
<1>1. TypeOK'
    BY DEF BecomeActive, At, Goto, localVars, addressVars, plugVars,
       optionVars, driverVars, laVars, IInv, TypeOK, ResumeInv, Threads,
       Physical, Logical, CallerPcs, UeventPcs, QueryPcs, PlugEvents,
       NoHandling
<1>2. LockInv' /\ ResumeInv' /\ TriesInv'
    BY DEF BecomeActive, At, Goto, localVars, addressVars, plugVars,
       optionVars, driverVars, laVars, IInv, TypeOK, LockInv, ResumeInv,
       TriesInv, Threads, CallerPcs, UeventPcs, SendPcs, QueryPcs
<1>3. AddedInv'
    BY DEF BecomeActive, At, Goto, localVars, addressVars, plugVars,
       optionVars, driverVars, laVars, IInv, TypeOK, AddedInv, Threads
<1> QED BY <1>1, <1>2, <1>3 DEF IInv

(* The step ActiveSent keeps the invariant.                                *)
LEMMA ActiveSentStep ==
    ASSUME IInv, ActiveSent
    PROVE  IInv'
<1>1. TypeOK'
    BY DEF ActiveSent, At, Goto, localVars, addressVars, plugVars,
       optionVars, driverVars, laVars, IInv, TypeOK, ResumeInv, Threads,
       Physical, Logical, CallerPcs, UeventPcs, QueryPcs, PlugEvents,
       NoHandling
<1>2. LockInv' /\ ResumeInv' /\ TriesInv'
    BY DEF ActiveSent, At, Goto, localVars, addressVars, plugVars,
       optionVars, driverVars, laVars, IInv, TypeOK, LockInv, ResumeInv,
       TriesInv, Threads, CallerPcs, UeventPcs, SendPcs, QueryPcs
<1>3. AddedInv'
    BY DEF ActiveSent, At, Goto, localVars, addressVars, plugVars,
       optionVars, driverVars, laVars, IInv, TypeOK, AddedInv, Threads
<1> QED BY <1>1, <1>2, <1>3 DEF IInv

(* The step FinishPlugIn keeps the invariant.                              *)
LEMMA FinishPlugInStep ==
    ASSUME IInv, FinishPlugIn
    PROVE  IInv'
<1>1. TypeOK'
    BY DEF FinishPlugIn, At, Goto, lockVars, localVars, addressVars,
       optionVars, driverVars, laVars, IInv, TypeOK, ResumeInv, Threads,
       Physical, Logical, CallerPcs, UeventPcs, QueryPcs, PlugEvents,
       NoHandling
<1>2. LockInv' /\ ResumeInv' /\ TriesInv'
    BY DEF FinishPlugIn, At, Goto, lockVars, localVars, addressVars,
       optionVars, driverVars, laVars, IInv, TypeOK, LockInv, ResumeInv,
       TriesInv, Threads, CallerPcs, UeventPcs, SendPcs, QueryPcs
<1>3. AddedInv'
    BY DEF FinishPlugIn, At, Goto, lockVars, localVars, addressVars,
       optionVars, driverVars, laVars, IInv, TypeOK, AddedInv, Threads
<1> QED BY <1>1, <1>2, <1>3 DEF IInv

(* The step PlugInTv keeps the invariant.                                  *)
LEMMA PlugInTvStep ==
    ASSUME IInv, PlugInTv
    PROVE  IInv'
<1>1. TypeOK'
    <2>1. mPA' \in Physical /\ mConnect' \in BOOLEAN /\ failures' \in 0 .. MaxFailures
        BY DEF PlugInTv, At, Goto, Refuse, Obey, lockVars, localVars,
           plugVars, optionVars, driverVars, laVars, IInv, TypeOK,
           Physical
    <2>2. /\ pc' \in [Threads -> CallerPcs \cup UeventPcs]
          /\ pc'[UT] \in UeventPcs
          /\ \A c \in Callers : pc'[c] \in CallerPcs
        BY DEF PlugInTv, At, Goto, Refuse, Obey, lockVars, localVars,
           plugVars, optionVars, driverVars, laVars, IInv, TypeOK,
           ResumeInv, Threads, CallerPcs, UeventPcs, QueryPcs
    <2> QED BY <2>1, <2>2 DEF PlugInTv, At, Goto, Refuse, Obey, lockVars,
           localVars, plugVars, optionVars, driverVars, laVars, IInv,
           TypeOK
<1>2. LockInv' /\ ResumeInv' /\ TriesInv'
    BY DEF PlugInTv, At, Goto, Refuse, Obey, lockVars, localVars, plugVars,
       optionVars, driverVars, laVars, IInv, TypeOK, LockInv, ResumeInv,
       TriesInv, Threads, CallerPcs, UeventPcs, SendPcs, QueryPcs
<1>3. AddedInv'
    BY DEF PlugInTv, At, Goto, Refuse, Obey, lockVars, localVars, plugVars,
       optionVars, driverVars, laVars, IInv, TypeOK, AddedInv, Threads
<1> QED BY <1>1, <1>2, <1>3 DEF IInv

(* The step PlugOut keeps the invariant.                                   *)
LEMMA PlugOutStep ==
    ASSUME IInv, PlugOut
    PROVE  IInv'
<1>1. TypeOK'
    <2>1. handling' \in [heard : BOOLEAN, changed : BOOLEAN, told : BOOLEAN]
        BY DEF PlugOut, IInv, TypeOK
    <2>2. \E label \in {"idle", "forget"} : pc' = [pc EXCEPT ![UT] = label]
        BY DEF PlugOut, Goto
    <2>3. mConnect' \in BOOLEAN
        BY DEF PlugOut
    <2>4. UNCHANGED <<lockVars, addr, localVars, mPA, port_address, mPrePA, pa_temp,
                      handled_pa, optionVars, driverVars, laVars, failures>>
        BY Zenon DEF PlugOut
    <2> QED BY <2>1, <2>2, <2>3, <2>4 DEF IInv, TypeOK, lockVars,
            localVars, optionVars, driverVars, laVars, Threads, UeventPcs
<1>2. LockInv' /\ ResumeInv' /\ TriesInv'
    BY DEF PlugOut, At, Goto, lockVars, localVars, optionVars, driverVars,
       laVars, IInv, TypeOK, LockInv, ResumeInv, TriesInv, Threads,
       CallerPcs, UeventPcs, SendPcs, QueryPcs
<1>3. AddedInv'
    BY DEF PlugOut, At, Goto, lockVars, localVars, optionVars, driverVars,
       laVars, IInv, TypeOK, AddedInv, Threads
<1> QED BY <1>1, <1>2, <1>3 DEF IInv

(* The step ForgetAddress keeps the invariant.                             *)
LEMMA ForgetAddressStep ==
    ASSUME IInv, ForgetAddress
    PROVE  IInv'
<1>1. TypeOK'
    BY DEF ForgetAddress, At, Goto, lockVars, localVars, optionVars,
       driverVars, laVars, IInv, TypeOK, ResumeInv, Threads, Physical,
       Logical, CallerPcs, UeventPcs, QueryPcs, PlugEvents, NoHandling
<1>2. LockInv' /\ ResumeInv' /\ TriesInv'
    BY DEF ForgetAddress, At, Goto, lockVars, localVars, optionVars,
       driverVars, laVars, IInv, TypeOK, LockInv, ResumeInv, TriesInv,
       Threads, CallerPcs, UeventPcs, SendPcs, QueryPcs
<1>3. AddedInv'
    BY DEF ForgetAddress, At, Goto, lockVars, localVars, optionVars,
       driverVars, laVars, IInv, TypeOK, AddedInv,
       Threads
<1> QED BY <1>1, <1>2, <1>3 DEF IInv

-----------------------------------------------------------------------------
(* The theorems.                                                           *)

(* What the constructor leaves satisfies the invariant.                    *)
LEMMA InitInvariant == Init => IInv
<1> SUFFICES ASSUME Init PROVE IInv
    OBVIOUS
<1>1. TypeOK
    <2>1. handling \in [heard : BOOLEAN, changed : BOOLEAN, told : BOOLEAN]
        BY DEF Init, NoHandling
    <2>2. mPA \in Physical
        BY DEF Init, Physical
    <2>3. port_address \in Physical
        BY <2>2 DEF Init, Physical
    <2>4. driver_pa \in Physical
        <3>1. CASE mCecDeviceType = "tv"
            BY <3>1 DEF Init, Physical
        <3>2. CASE mCecDeviceType # "tv"
            <4>1. CASE cable = TRUE
                BY <3>2, <4>1 DEF Init, Physical
            <4>2. CASE cable = FALSE
                BY <3>2, <4>2 DEF Init, Physical
            <4> QED BY <4>1, <4>2 DEF Init
        <3> QED BY <3>1, <3>2
    <2>5. cable \in BOOLEAN /\ mConnect \in BOOLEAN
        BY DEF Init
    <2>6. /\ pc = [t \in Threads |-> "idle"] /\ addr = [t \in Threads |-> Invalid]
          /\ resume = [t \in Threads |-> "active_source"]
          /\ wanted = [c \in Callers |-> Unregistered]
          /\ tries = [c \in Callers |-> 0]
          /\ loaded = [t \in Threads |-> Invalid]
        BY DEF Init
    <2>7. /\ m_lock = None /\ mPrePA = Invalid /\ pa_temp = Invalid
          /\ handled_pa = Invalid /\ mLA = Unregistered
          /\ driver_la = Unregistered /\ uevents = <<>>
          /\ changes = 0 /\ failures = 0
        BY DEF Init
    <2>8. /\ mCbf = FALSE /\ mOptionSystemCecControl = FALSE /\ asked = FALSE
          /\ mCecDeviceType \in DeviceTypes /\ mAutoOtp \in BOOLEAN
        BY DEF Init
    <2>9. /\ pc \in [Threads -> CallerPcs \cup UeventPcs] /\ pc[UT] \in UeventPcs
          /\ \A c \in Callers : pc[c] \in CallerPcs
        BY <2>6 DEF Threads, CallerPcs, UeventPcs
    <2>10. /\ addr \in [Threads -> Physical] /\ loaded \in [Threads -> Physical]
           /\ resume \in [Threads -> {"compare", "active_source", "return_address"}]
           /\ wanted \in [Callers -> Logical]
           /\ tries \in [Callers -> 0 .. Attempts]
        BY <2>6 DEF Physical, Logical
    <2>11. /\ m_lock \in Threads \cup {None} /\ mPrePA \in Physical
           /\ pa_temp \in Physical /\ handled_pa \in Physical
           /\ mLA \in Logical /\ driver_la \in Logical
           /\ uevents \in Seq(PlugEvents)
           /\ changes \in 0 .. MaxChanges /\ failures \in 0 .. MaxFailures
        BY <2>7 DEF Physical, Logical
    <2>12. /\ mCbf \in BOOLEAN /\ mOptionSystemCecControl \in BOOLEAN
           /\ asked \in BOOLEAN /\ mAutoOtp \in BOOLEAN
           /\ mCecDeviceType \in DeviceTypes
        BY <2>8
    <2> QED BY <2>1, <2>2, <2>3, <2>4, <2>5, <2>9, <2>10, <2>11, <2>12
            DEF TypeOK
<1>2. LockInv /\ ResumeInv /\ TriesInv
    BY DEF Init, LockInv, ResumeInv, TriesInv, Threads, SendPcs, QueryPcs
<1>3. AddedInv
    <2>1. mLA = Unregistered /\ \A c \in Callers : pc[c] = "idle"
        BY DEF Init, Threads
    <2> QED BY <2>1 DEF AddedInv
<1> QED BY <1>1, <1>2, <1>3 DEF IInv

(* Every step of every thread, of the driver, and none, keeps it.          *)
LEMMA NextInvariant == IInv /\ [Next]_vars => IInv'
<1> SUFFICES ASSUME IInv, [Next]_vars PROVE IInv'
    OBVIOUS
<1>1. CASE UNCHANGED vars
    BY <1>1 DEF IInv, TypeOK, LockInv, ResumeInv, TriesInv, AddedInv,
       vars, lockVars, localVars, addressVars, plugVars, optionVars,
       driverVars, laVars
<1>2. ASSUME NEW t \in Threads, QueryStep(t) PROVE IInv'
    BY <1>2, ResetAddressStep, QueryAddressStep, StoreAddressStep,
       LoadAddressStep, PublishAddressStep DEF QueryStep
<1>3. ASSUME NEW c \in Callers, CallBegins(c) PROVE IInv'
    BY <1>3, RegisterCallbackStep, GetPhysicalAddressStep,
            AddLogicalAddressStep, ClearLogicalAddressStep, SendMessageStep,
            SetOptionStep, SetOptionWakesStep DEF CallBegins
<1>4. ASSUME NEW c \in Callers, CallStep(c) PROVE IInv'
    BY <1>2, <1>4, ReturnAddressStep, GetLogicalAddressStep,
       LogicalAddressTakenStep, LogicalAddressRefusedStep, MessageSentStep,
       ImageViewSentStep, ActiveSourceSentStep, SetOptionReturnsStep
       DEF CallStep, Threads
<1>5. CASE UeventStep
    BY <1>2, <1>5, TakeUeventStep, PlugInStep, ComparePlugInStep, RecheckPlugInStep,
            NotifyPlugInStep, WakeTvStep, WakeSentStep, BecomeActiveStep,
            ActiveSentStep, FinishPlugInStep, PlugInTvStep, PlugOutStep,
            ForgetAddressStep
       DEF UeventStep, Threads
<1>6. CASE DriverStep
    BY <1>6, PlugCableStep, ChangeAddressStep, UnplugCableStep DEF DriverStep
<1> QED BY <1>1, <1>3, <1>4, <1>5, <1>6 DEF Next

(* The invariant holds in every reachable state.                           *)
THEOREM MediatorInvariant == Spec => []IInv
<1> QED BY InitInvariant, NextInvariant, PTL DEF Spec

(* The mediator's fields and its threads' locals keep to their types.      *)
THEOREM TypeCorrect == Spec => []TypeOK
<1>1. IInv => TypeOK
    BY DEF IInv
<1> QED BY <1>1, MediatorInvariant, PTL

(* No two threads transmit at once: send_message, set_option and the two   *)
(* messages the uevent thread sends on a plug-in exclude each other.       *)
THEOREM TransmissionsExclude == Spec => []OneTransmission
<1>1. IInv => OneTransmission
    BY DEF IInv, TypeOK, LockInv, OneTransmission, Threads, SendPcs
<1> QED BY <1>1, MediatorInvariant, PTL

(* The logical address messages are sent from is the adapter's, in every   *)
(* state in which the driver has refused less often than add_logical_      *)
(* address tries: a retry, a later call or a clear never parts the two.    *)
THEOREM LogicalAddressCorrect == Spec => [](failures < Attempts => LogicalAddressIsSet)
<1>1. IInv => (failures < Attempts => LogicalAddressIsSet)
    BY DEF IInv, LockInv, AddedInv, LogicalAddressIsSet
<1> QED BY <1>1, MediatorInvariant, PTL

-----------------------------------------------------------------------------
(* The address and the cable.                                              *)

(* Labels at which the uevent thread handles no plug event, or has not     *)
(* begun to look at its address...                                         *)
RestPcs == {"idle", "plug_in", "plug_out", "forget"}

(* ...and those at which it has compared the address it queried.           *)
ComparedPcs == {"recheck", "notify", "wake_only", "image_view_only", "finish"}

(* A TV's adapter has the TV's address; its uevent thread never queries    *)
(* it, and as long as the driver refuses nothing a call that does finds    *)
(* it again.                                                               *)
TvInv ==
    mCecDeviceType = "tv" =>
        /\ driver_pa = TvAddress
        /\ pc[UT] \in {"idle", "plug_in", "plug_out", "notify"}
        /\ failures = 0 =>
              /\ \A c \in Callers : pc[c] = "store" => addr[c] = TvAddress
              /\ mPA = TvAddress \/ \E c \in Callers : pc[c] \in {"query", "store"}

(* As long as no binder call has queried the address, none is in a query   *)
(* or has just made one, and the uevent thread's one query is handlePlugIn *)
(* 's: a message needs an option that only such a call switches on.        *)
AskedInv ==
    ~asked =>
        /\ \A c \in Callers : pc[c] \notin {"query", "store", "load", "publish",
                                            "active_source", "set_flag"}
        /\ ~(mAutoOtp /\ mOptionSystemCecControl)
        /\ pc[UT] \in RestPcs \cup QueryPcs \cup {"compare"} \cup ComparedPcs
        /\ pc[UT] \in QueryPcs => resume[UT] = "compare"

(* The last plug event, still to be read or in work, says how the cable    *)
(* is; mConnect follows when it is handled.                                *)
CableInv ==
    ~asked =>
        /\ uevents # <<>> => (cable <=> uevents[Len(uevents)] = "in")
        /\ uevents = <<>> =>
              /\ pc[UT] = "plug_in" => cable
              /\ pc[UT] = "plug_out" => ~cable
              /\ pc[UT] \notin {"plug_in", "plug_out"} => mConnect = cable
              /\ pc[UT] = "forget" => ~cable
              /\ pc[UT] \notin RestPcs => cable
              /\ pc[UT] = "idle" /\ mCecDeviceType = "playback" /\ ~cable => mPA = Invalid

(* What a playback device's uevent thread has read is in mPA, and from     *)
(* there it comes to the port.                                             *)
QueryInv ==
    ~asked /\ mCecDeviceType = "playback" =>
        /\ pc[UT] \in {"reset", "query"} => addr[UT] = Invalid
        /\ pc[UT] \in {"query", "store"} => mPA = Invalid
        /\ pc[UT] \in {"load", "publish", "compare"} => mPA = addr[UT]
        /\ pc[UT] = "publish" => loaded[UT] = mPA
        /\ pc[UT] \notin {"query", "store", "load", "publish"} /\ mPA # Invalid
              => port_address = mPA

(* It is compared with the address at the last plug event.                 *)
ToldInv ==
    /\ handling.heard => mCbf
    /\ ~asked /\ mCecDeviceType = "playback" =>
        /\ pc[UT] \in RestPcs => mPrePA = handled_pa
        /\ pc[UT] \in QueryPcs \cup {"compare"} => pa_temp = handled_pa
        /\ pc[UT] \in ComparedPcs => mPA = handled_pa
        /\ pc[UT] \in {"recheck", "wake_only", "image_view_only"} => ~handling.changed
        /\ AddressChangeIsTold

AddressInv == TvInv /\ AskedInv /\ CableInv /\ QueryInv /\ ToldInv

(* What a step of caller c leaves alone: the uevent thread, the cable.     *)
CallerSide(c) ==
    /\ UNCHANGED <<plugVars, driverVars, mCecDeviceType>>
    /\ \A t \in Threads \ {c} : /\ pc'[t] = pc[t] /\ addr'[t] = addr[t]
                                /\ loaded'[t] = loaded[t] /\ resume'[t] = resume[t]
    /\ mCbf => mCbf'
    /\ asked => asked'
    /\ failures' >= failures

MidQuery == {"query", "store", "load", "publish"}

(* A step of a call that is not in a query leaves the address alone.       *)
OutsideQuery(c) ==
    /\ UNCHANGED <<mPA, mConnect, port_address, asked>>
    /\ pc[c] \notin MidQuery /\ pc'[c] \notin MidQuery
    /\ pc'[c] \in {"active_source", "set_flag"} => pc[c] = "active_source"
    /\ mAutoOtp' /\ mOptionSystemCecControl' =>
          (mAutoOtp /\ mOptionSystemCecControl) \/ pc[c] = "set_flag"

LEMMA CallBeginsFrame ==
    ASSUME IInv, NEW c \in Callers, CallBegins(c)
    PROVE  CallerSide(c) /\ OutsideQuery(c)
<1>1. /\ pc \in [Threads -> CallerPcs \cup UeventPcs] /\ addr \in [Threads -> Physical]
      /\ resume \in [Threads -> {"compare", "active_source", "return_address"}]
      /\ c \in Threads /\ failures \in Nat
    BY DEF IInv, TypeOK, Threads
<1>2. CASE RegisterCallback(c)
    BY <1>1, <1>2 DEF RegisterCallback, CanCall, At, CallerSide, OutsideQuery, MidQuery, lockVars,
       localVars, addressVars
<1>3. CASE \E unset \in Addresses \cup {Invalid} : GetPhysicalAddress(c, unset)
    BY <1>1, <1>3 DEF GetPhysicalAddress, CanCall, Begin, Goto, At, CallerSide, OutsideQuery,
       MidQuery, localVars, addressVars, optionVars
<1>4. CASE (\E la \in LogicalAddresses : AddLogicalAddress(c, la)) \/ SendMessage(c)
           \/ SetOptionWakes(c)
    BY <1>1, <1>4 DEF AddLogicalAddress, SendMessage, SetOptionWakes, CanCall, Begin, Goto, At,
       CallerSide, OutsideQuery, MidQuery, localVars, addressVars, optionVars
<1>5. CASE ClearLogicalAddress(c)
    BY <1>1, <1>5 DEF ClearLogicalAddress, CanCall, Obey, Refuse, At, CallerSide, OutsideQuery,
       MidQuery, lockVars, localVars, addressVars, optionVars
<1>6. CASE \E value \in BOOLEAN : SetOption(c, value)
    BY <1>1, <1>6 DEF SetOption, SetFlag, CanCall, At, CallerSide, OutsideQuery, MidQuery, lockVars,
       localVars, addressVars
<1> QED BY <1>2, <1>3, <1>4, <1>5, <1>6 DEF CallBegins

LEMMA CallStepFrame ==
    ASSUME IInv, NEW c \in Callers, CallStep(c), ~QueryStep(c)
    PROVE  CallerSide(c) /\ OutsideQuery(c)
<1>1. /\ pc \in [Threads -> CallerPcs \cup UeventPcs] /\ addr \in [Threads -> Physical]
      /\ resume \in [Threads -> {"compare", "active_source", "return_address"}]
      /\ c \in Threads /\ failures \in Nat
    BY DEF IInv, TypeOK, Threads
<1>2. CASE ReturnAddress(c) \/ MessageSent(c) \/ LogicalAddressTaken(c)
    BY <1>1, <1>2 DEF ReturnAddress, MessageSent, LogicalAddressTaken, Return, Goto, Obey, At,
       CallerSide, OutsideQuery, MidQuery, localVars, addressVars, optionVars
<1>3. CASE GetLogicalAddress(c)
    BY <1>1, <1>3 DEF GetLogicalAddress, Return, Goto, Obey, Refuse, At,
       CallerSide, OutsideQuery, MidQuery, addressVars, optionVars
<1>4. CASE LogicalAddressRefused(c)
    BY <1>1, <1>4 DEF LogicalAddressRefused, Return, Goto, Refuse, At,
       CallerSide, OutsideQuery, MidQuery, addressVars, optionVars
<1>5. CASE ImageViewSent(c) \/ ActiveSourceSent(c)
    BY <1>1, <1>5 DEF ImageViewSent, ActiveSourceSent, Goto, At, lockVars,
       CallerSide, OutsideQuery, MidQuery, localVars, addressVars, optionVars
<1>6. CASE SetOptionReturns(c)
    BY <1>1, <1>6 DEF SetOptionReturns, SetFlag, Return, Goto, At,
       CallerSide, OutsideQuery, MidQuery, localVars, addressVars
<1> QED BY <1>2, <1>3, <1>4, <1>5, <1>6 DEF CallStep

(* A query of caller c does not touch what the others have.                *)
LEMMA QueryFrame ==
    ASSUME IInv, NEW c \in Callers, QueryStep(c)
    PROVE  CallerSide(c) /\ pc[c] \in QueryPcs /\ UNCHANGED <<mAutoOtp, mOptionSystemCecControl>>
<1>1. /\ pc \in [Threads -> CallerPcs \cup UeventPcs] /\ addr \in [Threads -> Physical]
      /\ loaded \in [Threads -> Physical] /\ c \in Threads /\ failures \in Nat
    BY DEF IInv, TypeOK, Threads
<1>2. CASE ResetAddress(c)
  <2>1. asked => asked'
      BY <1>2, Zenon DEF ResetAddress
  <2> QED BY <1>1, <1>2, <2>1 DEF ResetAddress, At, Goto, CallerSide, QueryPcs, lockVars, localVars
<1>3. CASE QueryAddress(c)
    BY <1>1, <1>3 DEF QueryAddress, At, Goto, Obey, Refuse, CallerSide, QueryPcs, lockVars,
       localVars, optionVars
<1>4. CASE StoreAddress(c)
    BY <1>1, <1>4 DEF StoreAddress, At, Goto, CallerSide, QueryPcs, lockVars, localVars, optionVars
<1>5. CASE LoadAddress(c) \/ PublishAddress(c)
    BY <1>1, <1>5 DEF LoadAddress, PublishAddress, At, Goto, CallerSide, QueryPcs, lockVars,
       optionVars
<1> QED BY <1>2, <1>3, <1>4, <1>5 DEF QueryStep

(* As long as no call has queried the address, the callers leave it alone. *)
LEMMA CallerLeavesAddress ==
    ASSUME IInv, AskedInv, NEW c \in Callers, CallBegins(c) \/ CallStep(c), ~asked'
    PROVE  ~asked /\ CallerSide(c) /\ OutsideQuery(c)
<1>1. ~asked /\ CallerSide(c)
    BY CallBeginsFrame, CallStepFrame, QueryFrame DEF CallerSide, CallStep
<1>2. CASE QueryStep(c)
  <2>1. ~ResetAddress(c)
      BY ThreadsAssumption DEF ResetAddress
  <2> QED BY <1>1, <1>2, <2>1 DEF QueryStep, QueryAddress, StoreAddress, LoadAddress,
          PublishAddress, At, AskedInv
<1> QED BY <1>1, <1>2, CallBeginsFrame, CallStepFrame

LEMMA CallerKeepsAddress ==
    ASSUME IInv, AddressInv, NEW c \in Callers, CallBegins(c) \/ CallStep(c)
    PROVE  AskedInv' /\ CableInv' /\ QueryInv' /\ ToldInv'
<1>1. c # UT /\ UT \in Threads
    BY DEF Threads
<1>2. CallerSide(c)
    BY CallBeginsFrame, CallStepFrame, QueryFrame
<1>3. /\ UNCHANGED <<plugVars, driverVars, mCecDeviceType>>
      /\ pc'[UT] = pc[UT] /\ addr'[UT] = addr[UT] /\ loaded'[UT] = loaded[UT]
      /\ resume'[UT] = resume[UT] /\ (mCbf => mCbf')
    BY <1>1, <1>2 DEF CallerSide
<1>4. CASE asked'
    BY <1>3, <1>4 DEF AskedInv, CableInv, QueryInv, ToldInv, AddressInv, plugVars
<1>5. CASE ~asked'
  <2>1. ~asked /\ UNCHANGED <<mPA, mConnect, port_address>> /\ OutsideQuery(c)
      BY <1>5, CallerLeavesAddress DEF OutsideQuery, AddressInv
  <2>2. AskedInv'
    <3>1. \A d \in Callers : pc'[d] \notin {"query", "store", "load", "publish",
                                            "active_source", "set_flag"}
        BY <1>2, <2>1 DEF AddressInv, AskedInv, OutsideQuery, MidQuery, CallerSide, Threads
    <3>2. ~(mAutoOtp' /\ mOptionSystemCecControl')
        BY <2>1 DEF AddressInv, AskedInv, OutsideQuery
    <3> QED BY <1>3, <2>1, <3>1, <3>2 DEF AddressInv, AskedInv
  <2>3. CableInv' /\ QueryInv'
      BY <1>3, <2>1 DEF AddressInv, CableInv, QueryInv, driverVars
  <2>4. ToldInv'
      BY <1>3, <2>1 DEF AddressInv, ToldInv, plugVars, AddressChangeIsTold, At
  <2> QED BY <2>2, <2>3, <2>4
<1> QED BY <1>4, <1>5

(* A call on a TV finds the TV's address.                                  *)
LEMMA CallerKeepsTv ==
    ASSUME IInv, TvInv, NEW c \in Callers, CallBegins(c) \/ CallStep(c)
    PROVE  TvInv'
<1> SUFFICES ASSUME mCecDeviceType' = "tv" PROVE TvInv'
    BY DEF TvInv
<1>1. c # UT /\ UT \in Threads /\ c \in Threads
    BY DEF Threads
<1>2. CallerSide(c)
    BY CallBeginsFrame, CallStepFrame, QueryFrame
<1>3. /\ driver_pa' = TvAddress /\ mCecDeviceType = "tv" /\ driver_pa = TvAddress
      /\ pc'[UT] \in {"idle", "plug_in", "plug_out", "notify"}
      /\ \A d \in Callers : d # c => pc'[d] = pc[d] /\ addr'[d] = addr[d]
    BY <1>1, <1>2 DEF CallerSide, TvInv, driverVars, Threads
<1>4. /\ pc \in [Threads -> CallerPcs \cup UeventPcs] /\ addr \in [Threads -> Physical]
      /\ failures \in Nat /\ failures' >= failures /\ failures' \in Nat
    BY <1>2, NextInvariant DEF IInv, TypeOK, CallerSide, Next
<1>5. SUFFICES ASSUME failures' = 0, failures = 0
               PROVE  /\ \A d \in Callers : pc'[d] = "store" => addr'[d] = TvAddress
                      /\ mPA' = TvAddress \/ \E d \in Callers : pc'[d] \in {"query", "store"}
    BY <1>3, <1>4 DEF TvInv
<1>6. CASE ~QueryStep(c)
  <2>1. OutsideQuery(c)
      BY <1>6, CallBeginsFrame, CallStepFrame
  <2> QED BY <1>3, <1>5, <2>1 DEF OutsideQuery, MidQuery, TvInv
<1>7. CASE ResetAddress(c)
    BY <1>1, <1>3, <1>4, <1>5, <1>7 DEF ResetAddress, Goto, TvInv
<1>8. CASE QueryAddress(c)
    BY <1>1, <1>3, <1>4, <1>5, <1>8 DEF QueryAddress, Goto, Refuse, TvInv
<1>9. CASE StoreAddress(c)
  <2>1. addr[c] = TvAddress /\ pc' = [pc EXCEPT ![c] = "load"] /\ addr' = addr
      BY <1>3, <1>5, <1>9 DEF StoreAddress, At, Goto, TvInv
  <2>2. mPA' = TvAddress
      BY <1>9, <2>1 DEF StoreAddress
  <2> QED BY <1>1, <1>3, <1>4, <1>5, <2>1, <2>2 DEF TvInv
<1>10. CASE LoadAddress(c) \/ PublishAddress(c)
  <2>1. /\ pc[c] \in {"load", "publish"} /\ pc'[c] # "store"
        /\ UNCHANGED mPA /\ UNCHANGED addr
      BY <1>1, <1>4, <1>10 DEF LoadAddress, PublishAddress, At, Goto, addressVars, IInv, TypeOK
  <2> QED BY <1>1, <1>3, <1>5, <2>1 DEF TvInv
<1> QED BY <1>6, <1>7, <1>8, <1>9, <1>10 DEF QueryStep

(* What a step of the uevent thread leaves alone.                          *)
UeventSide ==
    /\ \A c \in Callers : pc'[c] = pc[c] /\ addr'[c] = addr[c]
    /\ UNCHANGED <<optionVars, cable, driver_pa>>
    /\ failures' = 0 => failures = 0

LEMMA ThreadTypes ==
    ASSUME IInv
    PROVE  /\ pc \in [Threads -> CallerPcs \cup UeventPcs] /\ addr \in [Threads -> Physical]
           /\ loaded \in [Threads -> Physical] /\ UT \in Threads /\ failures \in Nat
           /\ resume \in [Threads -> {"compare", "active_source", "return_address"}]
           /\ \A c \in Callers : c \in Threads /\ c # UT
BY DEF IInv, TypeOK, Threads

(* The last element of a sequence is the last of its tail, if that has one.*)
LEMMA TailEnd ==
    ASSUME NEW S, NEW s \in Seq(S), s # <<>>
    PROVE  /\ Head(s) \in S
           /\ Tail(s) = <<>> => Head(s) = s[Len(s)]
           /\ Tail(s) # <<>> => Tail(s)[Len(Tail(s))] = s[Len(s)]
<1>1. /\ Head(s) = s[1] /\ Head(s) \in S /\ Tail(s) \in Seq(S)
      /\ Len(s) \in Nat /\ Len(s) > 0 /\ Len(Tail(s)) = Len(s) - 1
      /\ \A i \in 1 .. Len(s) - 1 : Tail(s)[i] = s[i + 1]
    OBVIOUS
<1>2. \A t \in Seq(S) : t # <<>> => Len(t) > 0
    OBVIOUS
<1>3. ASSUME Tail(s) = <<>> PROVE Head(s) = s[Len(s)]
  <2>1. Len(<<>>) = 0
      OBVIOUS
  <2>2. Len(Tail(s)) = 0
      BY <1>3, <2>1, Zenon
  <2>3. Len(s) - 1 = 0
      BY <1>1, <2>2, Zenon
  <2>4. Len(s) \in Nat => Len(s) = 1
      BY <2>3
  <2> QED BY <1>1, <2>4
<1>4. ASSUME Tail(s) # <<>> PROVE Tail(s)[Len(Tail(s))] = s[Len(s)]
  <2>1. Len(s) - 1 \in 1 .. Len(s) - 1 /\ (Len(s) - 1) + 1 = Len(s)
      BY <1>1, <1>2, <1>4
  <2> QED BY <1>1, <2>1
<1> QED BY <1>1, <1>3, <1>4

(* Between plug events: the next is taken, and says what happened.         *)
LEMMA TakeUeventAddress == ASSUME IInv, AddressInv, TakeUevent PROVE AddressInv'
<1>1. /\ pc[UT] = "idle" /\ pc'[UT] = IF Head(uevents) = "in" THEN "plug_in" ELSE "plug_out"
      /\ UeventSide /\ uevents # <<>> /\ uevents' = Tail(uevents)
      /\ UNCHANGED <<addr, loaded, resume, mPA, mConnect, port_address, mPrePA, pa_temp, handled_pa>>
      /\ handling' = [NoHandling EXCEPT !.heard = mCbf]
    BY ThreadTypes DEF TakeUevent, At, Goto, UeventSide, lockVars, localVars, addressVars, optionVars
<1>2. uevents \in Seq(PlugEvents) /\ mCbf \in BOOLEAN
    BY DEF IInv, TypeOK
<1>3. /\ uevents' = <<>> => Head(uevents) = uevents[Len(uevents)]
      /\ uevents' # <<>> => uevents'[Len(uevents')] = uevents[Len(uevents)]
      /\ Head(uevents) \in PlugEvents
    BY <1>1, <1>2, TailEnd
<1>4. handling'.heard = mCbf /\ ~handling'.told
    BY <1>1 DEF NoHandling
<1>5. TvInv' /\ AskedInv'
  <2>1. pc'[UT] \in {"plug_in", "plug_out"}
      BY <1>1
  <2>2. TvInv'
      BY <1>1, <2>1 DEF AddressInv, TvInv, UeventSide, optionVars
  <2>3. AskedInv'
      BY <1>1, <2>1 DEF AddressInv, AskedInv, UeventSide, optionVars, RestPcs, QueryPcs
  <2> QED BY <2>2, <2>3
<1>6. CableInv' /\ QueryInv'
    BY <1>1, <1>3 DEF AddressInv, CableInv, QueryInv, UeventSide, optionVars, RestPcs, PlugEvents
<1>7. ToldInv'
    BY <1>1, <1>4 DEF AddressInv, ToldInv, UeventSide, optionVars, RestPcs, QueryPcs, ComparedPcs,
       AddressChangeIsTold, At
<1> QED BY <1>5, <1>6, <1>7 DEF AddressInv

(* A plug-in of a playback device: the query begins.                       *)
LEMMA PlugInAddress == ASSUME IInv, AddressInv, PlugIn PROVE AddressInv'
<1>1. /\ pc[UT] = "plug_in" /\ pc'[UT] = "reset" /\ UeventSide /\ mCecDeviceType = "playback"
      /\ mConnect' = TRUE /\ pa_temp' = mPrePA /\ addr'[UT] = Invalid /\ resume'[UT] = "compare"
      /\ UNCHANGED <<uevents, mPA, port_address, mPrePA, handled_pa, handling>>
    BY ThreadTypes DEF PlugIn, At, Goto, UeventSide, optionVars, driverVars
<1>2. TvInv' /\ AskedInv'
    BY <1>1 DEF AddressInv, TvInv, AskedInv, UeventSide, optionVars, QueryPcs
<1>3. CableInv' /\ QueryInv'
    BY <1>1 DEF AddressInv, CableInv, QueryInv, UeventSide, optionVars, RestPcs
<1>4. ToldInv'
    BY <1>1 DEF AddressInv, ToldInv, UeventSide, optionVars, RestPcs, QueryPcs, ComparedPcs,
       AddressChangeIsTold, At
<1> QED BY <1>2, <1>3, <1>4 DEF AddressInv

(* Its own query, step by step.                                            *)
LEMMA UeventQueryAddress == ASSUME IInv, AddressInv, QueryStep(UT) PROVE AddressInv'
<1>1. /\ UeventSide /\ UNCHANGED <<uevents, resume, pa_temp, mPrePA, handled_pa, handling>>
      /\ pc[UT] \in QueryPcs
  <2>1. CASE ResetAddress(UT)
    <3>1. UNCHANGED asked
        BY <2>1 DEF ResetAddress, IInv, TypeOK
    <3> QED BY <2>1, <3>1, ThreadTypes DEF ResetAddress, At, Goto, UeventSide, QueryPcs, lockVars,
            plugVars, optionVars, driverVars
  <2>2. CASE QueryAddress(UT)
      BY <2>2, ThreadTypes DEF QueryAddress, At, Goto, Obey, Refuse, UeventSide, QueryPcs, lockVars,
         plugVars, driverVars
  <2>3. CASE StoreAddress(UT) \/ LoadAddress(UT) \/ PublishAddress(UT)
      BY <2>3, ThreadTypes DEF StoreAddress, LoadAddress, PublishAddress, At, Goto, UeventSide,
         QueryPcs, lockVars, plugVars, driverVars
  <2> QED BY <2>1, <2>2, <2>3 DEF QueryStep
<1>2. mCecDeviceType # "tv"
    BY <1>1 DEF AddressInv, TvInv, QueryPcs
<1>3. TvInv'
    BY <1>1, <1>2 DEF UeventSide, optionVars, TvInv
<1>4. SUFFICES ASSUME ~asked, asked' = asked
               PROVE  AskedInv' /\ CableInv' /\ QueryInv' /\ ToldInv'
  <2>1. asked' = asked
      BY <1>1 DEF UeventSide, optionVars
  <2>2. ToldInv' \/ ~asked
      BY <1>1, <2>1 DEF AddressInv, ToldInv, UeventSide, optionVars
  <2> QED BY <1>3, <2>1, <2>2 DEF AddressInv, AskedInv, CableInv, QueryInv
<1>5. CASE ResetAddress(UT)
  <2>1. /\ pc[UT] = "reset" /\ pc'[UT] = "query" /\ mPA' = Invalid
        /\ UNCHANGED <<mConnect, port_address, addr, loaded>>
      BY <1>5, ThreadTypes DEF ResetAddress, At, Goto, localVars
  <2> QED BY <1>1, <1>4, <2>1 DEF AddressInv, AskedInv, CableInv, QueryInv, ToldInv, UeventSide,
          optionVars, RestPcs, QueryPcs, ComparedPcs, AddressChangeIsTold, At
<1>6. CASE QueryAddress(UT)
  <2>1. /\ pc[UT] = "query" /\ pc'[UT] = "store"
        /\ UNCHANGED <<mPA, mConnect, port_address, loaded>>
      BY <1>6, ThreadTypes DEF QueryAddress, At, Goto, addressVars, localVars
  <2> QED BY <1>1, <1>4, <2>1 DEF AddressInv, AskedInv, CableInv, QueryInv, ToldInv, UeventSide,
          optionVars, RestPcs, QueryPcs, ComparedPcs, AddressChangeIsTold, At
<1>7. CASE StoreAddress(UT)
  <2>1. /\ pc[UT] = "store" /\ pc'[UT] = "load" /\ UNCHANGED <<port_address, addr, loaded>>
        /\ IF addr[UT] # Invalid THEN mPA' = addr[UT] /\ mConnect' = TRUE
                                 ELSE UNCHANGED <<mPA, mConnect>>
      BY <1>7, ThreadTypes DEF StoreAddress, At, Goto, localVars
  <2> QED BY <1>1, <1>2, <1>4, <2>1 DEF AddressInv, AskedInv, CableInv, QueryInv, ToldInv,
          UeventSide, optionVars, RestPcs, QueryPcs, ComparedPcs, AddressChangeIsTold, At
<1>8. CASE LoadAddress(UT)
  <2>1. /\ pc[UT] = "load" /\ pc'[UT] = "publish" /\ loaded'[UT] = mPA
        /\ UNCHANGED <<mPA, mConnect, port_address, addr>>
      BY <1>8, ThreadTypes DEF LoadAddress, At, Goto, addressVars
  <2> QED BY <1>1, <1>4, <2>1 DEF AddressInv, AskedInv, CableInv, QueryInv, ToldInv, UeventSide,
          optionVars, RestPcs, QueryPcs, ComparedPcs, AddressChangeIsTold, At
<1>9. CASE PublishAddress(UT)
  <2>1. /\ pc[UT] = "publish" /\ pc'[UT] = "compare"
        /\ port_address' = IF mCecDeviceType = "tv" THEN port_address ELSE loaded[UT]
        /\ UNCHANGED <<mPA, mConnect, addr>>
      BY <1>4, <1>9, ThreadTypes DEF PublishAddress, At, Goto, AddressInv, AskedInv, QueryPcs
  <2> QED BY <1>1, <1>2, <1>4, <2>1 DEF AddressInv, AskedInv, CableInv, QueryInv, ToldInv,
          UeventSide, optionVars, RestPcs, QueryPcs, ComparedPcs, AddressChangeIsTold, At
<1> QED BY <1>5, <1>6, <1>7, <1>8, <1>9 DEF QueryStep

(* The comparison, which decides whether the framework is told.            *)
LEMMA ComparePlugInAddress == ASSUME IInv, AddressInv, ComparePlugIn PROVE AddressInv'
<1>1. /\ pc[UT] = "compare" /\ UeventSide
      /\ pc'[UT] = IF pa_temp = mPA THEN "recheck" ELSE IF mCbf THEN "notify" ELSE "finish"
      /\ handling'.heard = handling.heard /\ handling'.changed = (addr[UT] # handled_pa)
      /\ handled_pa' = addr[UT]
      /\ UNCHANGED <<uevents, addr, loaded, resume, mPA, mConnect, port_address, mPrePA, pa_temp>>
    BY ThreadTypes DEF ComparePlugIn, At, Goto, UeventSide, lockVars, localVars, addressVars,
       optionVars, driverVars, IInv, TypeOK
<1>2. TvInv' /\ AskedInv'
    BY <1>1 DEF AddressInv, TvInv, AskedInv, UeventSide,
       optionVars, RestPcs, QueryPcs, ComparedPcs
<1>3. CableInv' /\ QueryInv'
    BY <1>1 DEF AddressInv, CableInv, QueryInv, TvInv, AskedInv, UeventSide,
       optionVars, RestPcs, QueryPcs, ComparedPcs
<1>4. ToldInv'
  <2>1. UNCHANGED mCbf /\ (handling.heard => mCbf)
      BY <1>1 DEF AddressInv, ToldInv, UeventSide, optionVars
  <2>2. asked' = asked /\ mCecDeviceType' = mCecDeviceType
      BY <1>1 DEF UeventSide, optionVars
  <2>3. CASE ~asked /\ mCecDeviceType = "playback"
    <3>1. pa_temp = handled_pa /\ mPA = addr[UT]
        BY <1>1, <2>3 DEF AddressInv, ToldInv, QueryInv
    <3>2. pc'[UT] = "recheck" => ~handling'.changed
        BY <1>1, <3>1
    <3>3. pc'[UT] = "finish" => ~handling'.heard
        BY <1>1, <2>1
    <3>4. pc'[UT] \in {"recheck", "notify", "finish"} /\ mPA' = handled_pa'
        BY <1>1, <3>1
    <3> QED BY <1>1, <2>1, <3>2, <3>3, <3>4 DEF ToldInv, RestPcs, QueryPcs, AddressChangeIsTold, At
  <2> QED BY <1>1, <2>1, <2>2, <2>3 DEF ToldInv
<1> QED BY <1>2, <1>3, <1>4 DEF AddressInv

(* Without a change a device with no address wakes the TV all the same.    *)
LEMMA RecheckPlugInAddress == ASSUME IInv, AddressInv, RecheckPlugIn PROVE AddressInv'
<1>1. /\ pc[UT] = "recheck" /\ pc'[UT] \in {"wake_only", "finish"} /\ UeventSide
      /\ UNCHANGED <<uevents, addr, loaded, resume, mPA, mConnect, port_address, mPrePA, pa_temp, handled_pa,
                     handling>>
    BY ThreadTypes DEF RecheckPlugIn, At, Goto, UeventSide, lockVars, localVars, addressVars,
       plugVars, optionVars, driverVars
<1>2. TvInv' /\ AskedInv'
    BY <1>1 DEF AddressInv, TvInv, AskedInv, UeventSide,
       optionVars, RestPcs, QueryPcs, ComparedPcs
<1>3. CableInv' /\ QueryInv'
    BY <1>1 DEF AddressInv, CableInv, QueryInv, TvInv, AskedInv, UeventSide,
       optionVars, RestPcs, QueryPcs, ComparedPcs
<1>4. ToldInv'
    BY <1>1 DEF AddressInv, ToldInv, TvInv, QueryInv, AskedInv, UeventSide, optionVars, RestPcs,
       QueryPcs, ComparedPcs, AddressChangeIsTold, At
<1> QED BY <1>2, <1>3, <1>4 DEF AddressInv

(* The framework is told.                                                 *)
LEMMA NotifyPlugInAddress == ASSUME IInv, AddressInv, NotifyPlugIn PROVE AddressInv'
<1>1. /\ pc[UT] = "notify" /\ UeventSide
      /\ pc'[UT] = IF mCecDeviceType = "tv" THEN "idle"
                   ELSE IF mAutoOtp /\ mOptionSystemCecControl THEN "wake" ELSE "finish"
      /\ handling'.heard = handling.heard /\ handling'.changed = handling.changed
      /\ handling'.told = TRUE
      /\ UNCHANGED <<uevents, addr, loaded, resume, mPA, mConnect, port_address, mPrePA, pa_temp, handled_pa>>
    BY ThreadTypes DEF NotifyPlugIn, At, Goto, UeventSide, lockVars, localVars, addressVars,
       optionVars, driverVars, IInv, TypeOK
<1>2. TvInv' /\ AskedInv'
    BY <1>1 DEF AddressInv, TvInv, AskedInv, UeventSide,
       optionVars, RestPcs, QueryPcs, ComparedPcs
<1>3. CableInv' /\ QueryInv'
    BY <1>1 DEF AddressInv, CableInv, QueryInv, TvInv, AskedInv, UeventSide,
       optionVars, RestPcs, QueryPcs, ComparedPcs
<1>4. ToldInv'
    BY <1>1 DEF AddressInv, ToldInv, TvInv, QueryInv, AskedInv, UeventSide, optionVars, RestPcs,
       QueryPcs, ComparedPcs, AddressChangeIsTold, At
<1> QED BY <1>2, <1>3, <1>4 DEF AddressInv

(* The address is kept for the comparison at the next plug-in.             *)
LEMMA FinishPlugInAddress == ASSUME IInv, AddressInv, FinishPlugIn PROVE AddressInv'
<1>1. /\ pc[UT] = "finish" /\ pc'[UT] = "idle" /\ UeventSide /\ mPrePA' = mPA
      /\ UNCHANGED <<uevents, addr, loaded, resume, mPA, mConnect, port_address, pa_temp, handled_pa, handling>>
    BY ThreadTypes DEF FinishPlugIn, At, Goto, UeventSide, lockVars, localVars, addressVars,
       optionVars, driverVars
<1>2. TvInv' /\ AskedInv'
    BY <1>1 DEF AddressInv, TvInv, AskedInv, UeventSide,
       optionVars, RestPcs, QueryPcs, ComparedPcs
<1>3. CableInv' /\ QueryInv'
    BY <1>1 DEF AddressInv, CableInv, QueryInv, TvInv, AskedInv, UeventSide,
       optionVars, RestPcs, QueryPcs, ComparedPcs
<1>4. ToldInv'
    BY <1>1 DEF AddressInv, ToldInv, TvInv, QueryInv, AskedInv, UeventSide, optionVars, RestPcs,
       QueryPcs, ComparedPcs, AddressChangeIsTold, At
<1> QED BY <1>2, <1>3, <1>4 DEF AddressInv

(* A TV's plug-in.                                                         *)
LEMMA PlugInTvAddress == ASSUME IInv, AddressInv, PlugInTv PROVE AddressInv'
<1>1. /\ pc[UT] = "plug_in" /\ pc'[UT] \in {"notify", "idle"} /\ UeventSide
      /\ mCecDeviceType = "tv" /\ mConnect' = TRUE
      /\ mPA' = TvAddress \/ (mPA' = mPA /\ failures' # 0)
      /\ UNCHANGED <<uevents, addr, loaded, resume, port_address, mPrePA, pa_temp, handled_pa,
                     handling>>
    BY ThreadTypes DEF PlugInTv, At, Goto, UeventSide, Obey, Refuse, lockVars, localVars,
       plugVars, optionVars, driverVars
<1>2. TvInv' /\ AskedInv'
    BY <1>1 DEF AddressInv, TvInv, AskedInv, UeventSide,
       optionVars, RestPcs, QueryPcs, ComparedPcs
<1>3. CableInv' /\ QueryInv'
    BY <1>1 DEF AddressInv, CableInv, QueryInv, TvInv, AskedInv, UeventSide,
       optionVars, RestPcs, QueryPcs, ComparedPcs
<1>4. ToldInv'
    BY <1>1 DEF AddressInv, ToldInv, TvInv, QueryInv, AskedInv, UeventSide, optionVars, RestPcs,
       QueryPcs, ComparedPcs, AddressChangeIsTold, At
<1> QED BY <1>2, <1>3, <1>4 DEF AddressInv

(* A plug-out; a TV is done with it.                                       *)
LEMMA PlugOutAddress == ASSUME IInv, AddressInv, PlugOut PROVE AddressInv'
<1>1. /\ pc[UT] = "plug_out" /\ UeventSide /\ mConnect' = FALSE /\ cable \in BOOLEAN
      /\ pc'[UT] = IF mCecDeviceType = "tv" THEN "idle" ELSE "forget"
      /\ handling'.heard = handling.heard
      /\ UNCHANGED <<uevents, addr, loaded, resume, mPA, port_address, mPrePA, pa_temp, handled_pa>>
    BY ThreadTypes DEF PlugOut, At, Goto, UeventSide, lockVars, localVars, optionVars,
       driverVars, IInv, TypeOK
<1>2. TvInv' /\ AskedInv'
    BY <1>1 DEF AddressInv, TvInv, AskedInv, UeventSide,
       optionVars, RestPcs, QueryPcs, ComparedPcs
<1>3. CableInv' /\ QueryInv'
    BY <1>1 DEF AddressInv, CableInv, QueryInv, TvInv, AskedInv, UeventSide,
       optionVars, RestPcs, QueryPcs, ComparedPcs
<1>4. ToldInv'
    BY <1>1 DEF AddressInv, ToldInv, TvInv, QueryInv, AskedInv, UeventSide, optionVars, RestPcs,
       QueryPcs, ComparedPcs, AddressChangeIsTold, At
<1> QED BY <1>2, <1>3, <1>4 DEF AddressInv

(* A playback device forgets its address.                                  *)
LEMMA ForgetAddressAddress == ASSUME IInv, AddressInv, ForgetAddress PROVE AddressInv'
<1>1. /\ pc[UT] = "forget" /\ pc'[UT] = "idle" /\ UeventSide
      /\ mPA' = Invalid /\ mPrePA' = Invalid /\ handled_pa' = Invalid
      /\ UNCHANGED <<uevents, addr, loaded, resume, mConnect, port_address, pa_temp, handling>>
    BY ThreadTypes DEF ForgetAddress, At, Goto, UeventSide, lockVars, localVars, optionVars,
       driverVars
<1>2. TvInv' /\ AskedInv'
    BY <1>1 DEF AddressInv, TvInv, AskedInv, UeventSide,
       optionVars, RestPcs, QueryPcs, ComparedPcs
<1>3. CableInv' /\ QueryInv'
    BY <1>1 DEF AddressInv, CableInv, QueryInv, TvInv, AskedInv, UeventSide,
       optionVars, RestPcs, QueryPcs, ComparedPcs
<1>4. ToldInv'
    BY <1>1 DEF AddressInv, ToldInv, TvInv, QueryInv, AskedInv, UeventSide, optionVars, RestPcs,
       QueryPcs, ComparedPcs, AddressChangeIsTold, At
<1> QED BY <1>2, <1>3, <1>4 DEF AddressInv

(* The messages that wake the TV: only the first is sent as long as no     *)
(* call has asked for the address.                                         *)
LEMMA WakeAddress ==
    ASSUME IInv, AddressInv, WakeTv \/ WakeSent \/ BecomeActive \/ ActiveSent PROVE AddressInv'
<1>1. /\ pc[UT] \in {"wake", "wake_only", "image_view", "image_view_only", "activate", "active_source"}
      /\ UeventSide
      /\ pc[UT] = "wake_only" => pc'[UT] = "image_view_only"
      /\ pc[UT] = "image_view_only" => pc'[UT] = "finish"
      /\ UNCHANGED <<uevents, loaded, mPA, mConnect, port_address, mPrePA, pa_temp, handled_pa,
                     handling>>
    BY ThreadTypes DEF WakeTv, WakeSent, BecomeActive, ActiveSent, At, Goto, UeventSide, localVars,
       addressVars, plugVars, optionVars, driverVars
<1>2. TvInv' /\ AskedInv'
    BY <1>1 DEF AddressInv, TvInv, AskedInv, UeventSide, optionVars, RestPcs, QueryPcs, ComparedPcs
<1>3. CableInv' /\ QueryInv'
    BY <1>1 DEF AddressInv, CableInv, QueryInv, AskedInv, UeventSide, optionVars, RestPcs, QueryPcs,
       ComparedPcs
<1>4. ToldInv'
    BY <1>1 DEF AddressInv, ToldInv, AskedInv, UeventSide, optionVars, RestPcs, QueryPcs,
       ComparedPcs, AddressChangeIsTold, At
<1> QED BY <1>2, <1>3, <1>4 DEF AddressInv

(* What happens at the connector comes last in the queue of events.        *)
LEMMA DriverAddress == ASSUME IInv, AddressInv, DriverStep PROVE AddressInv'
<1>1. /\ UNCHANGED <<pc, addr, loaded, resume, mPA, mConnect, port_address, mPrePA, pa_temp,
                     handled_pa, handling, optionVars, failures>>
      /\ mCecDeviceType = "tv" => driver_pa' \in {driver_pa, TvAddress}
      /\ \/ cable' = TRUE /\ uevents' = Append(uevents, "in")
         \/ cable' = FALSE /\ uevents' = Append(uevents, "out")
    BY DEF DriverStep, PlugCable, ChangeAddress, UnplugCable, lockVars, localVars, addressVars,
       plugVars, optionVars, IInv, TypeOK
<1>2. uevents \in Seq(PlugEvents)
    BY DEF IInv, TypeOK
<1>3. uevents' # <<>> /\ uevents'[Len(uevents')] = IF cable' THEN "in" ELSE "out"
    BY <1>1, <1>2
<1>4. TvInv' /\ AskedInv' /\ CableInv'
    BY <1>1, <1>3 DEF AddressInv, TvInv, AskedInv, CableInv, optionVars
<1>5. QueryInv' /\ ToldInv'
    BY <1>1 DEF AddressInv, QueryInv, ToldInv, AddressChangeIsTold, At, optionVars
<1> QED BY <1>4, <1>5 DEF AddressInv

LEMMA InitAddress == ASSUME Init PROVE AddressInv
<1>1. /\ \A t \in Threads : pc[t] = "idle" /\ addr[t] = Invalid
      /\ mPrePA = Invalid /\ handled_pa = Invalid /\ uevents = <<>> /\ mConnect = cable
      /\ ~asked /\ ~mCbf /\ ~mOptionSystemCecControl /\ ~handling.heard
      /\ mPA = IF mCecDeviceType = "tv" THEN TvAddress ELSE Invalid
      /\ mCecDeviceType = "tv" => driver_pa = TvAddress
    BY DEF Init, NoHandling
<1>2. UT \in Threads /\ \A c \in Callers : c \in Threads
    BY DEF Threads
<1> QED BY <1>1, <1>2 DEF AddressInv, TvInv, AskedInv, CableInv, QueryInv, ToldInv, RestPcs,
        QueryPcs, ComparedPcs, AddressChangeIsTold, At

LEMMA NextAddress == ASSUME IInv, AddressInv, [Next]_vars PROVE AddressInv'
<1>1. CASE UNCHANGED vars
    BY <1>1 DEF AddressInv, TvInv, AskedInv, CableInv, QueryInv, ToldInv, AddressChangeIsTold, At,
       vars, lockVars, localVars, addressVars, plugVars, optionVars, driverVars
<1>2. ASSUME NEW c \in Callers, CallBegins(c) \/ CallStep(c) PROVE AddressInv'
    BY <1>2, CallerKeepsAddress, CallerKeepsTv DEF AddressInv
<1>3. CASE UeventStep
    BY <1>3, TakeUeventAddress, PlugInAddress, UeventQueryAddress, ComparePlugInAddress,
       RecheckPlugInAddress, NotifyPlugInAddress, WakeAddress, FinishPlugInAddress, PlugInTvAddress,
       PlugOutAddress, ForgetAddressAddress DEF UeventStep
<1> QED BY <1>1, <1>2, <1>3, DriverAddress DEF Next

(* The invariant on the address and the cable.                             *)
THEOREM AddressInvariant == Spec => [](IInv /\ AddressInv)
<1>1. Init => IInv /\ AddressInv
    BY InitInvariant, InitAddress
<1>2. IInv /\ AddressInv /\ [Next]_vars => (IInv /\ AddressInv)'
    BY NextInvariant, NextAddress
<1> QED BY <1>1, <1>2, PTL DEF Spec

(* A TV has its own physical address whenever no call is querying it, as   *)
(* long as the driver refuses nothing.                                     *)
THEOREM TvAddressKept == Spec => []TvKeepsAddress
<1>1. AddressInv => TvKeepsAddress
    BY DEF AddressInv, TvInv, TvKeepsAddress, InQuery, QueryPcs, Threads
<1> QED BY <1>1, AddressInvariant, PTL

(* Until a binder call queries the address, every change of it that comes  *)
(* with a plug-in is told to a framework that listens.                     *)
THEOREM ChangesTold == Spec => []ToldUnlessAsked
<1>1. ASSUME IInv, AddressInv PROVE ToldUnlessAsked
  <2>1. CASE mCecDeviceType = "playback"
      BY <1>1, <2>1 DEF AddressInv, ToldInv, ToldUnlessAsked
  <2>2. CASE mCecDeviceType = "tv"
      BY <1>1, <2>2 DEF AddressInv, TvInv, ToldUnlessAsked, AddressChangeIsTold, At
  <2> QED BY <1>1, <2>1, <2>2 DEF IInv, TypeOK
<1> QED BY <1>1, AddressInvariant, PTL

(* Until then mConnect, the address and the port agree with the cable      *)
(* whenever all plug events are handled.                                   *)
THEOREM CableFollowed == Spec => []FollowsUnlessAsked
<1>1. ASSUME IInv, AddressInv PROVE FollowsUnlessAsked
  <2>1. UT \in Threads
      BY DEF Threads
  <2>2. asked \/ ConnectFollowsCable
      BY <1>1 DEF AddressInv, CableInv, ConnectFollowsCable, At
  <2>3. asked \/ PortFollowsAddress
      BY <1>1, <2>1 DEF AddressInv, QueryInv, PortFollowsAddress, InQuery, QueryPcs
  <2> QED BY <2>2, <2>3 DEF FollowsUnlessAsked
<1> QED BY <1>1, AddressInvariant, PTL
=============================================================================
