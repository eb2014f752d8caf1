----------------------- MODULE CaptureSession_proofs -----------------------
(***************************************************************************)
(* Proofs about CaptureSession for every set of callers, of intermediate   *)
(* buffers and of streams, and every number of frames.                     *)
(***************************************************************************)
EXTENDS CaptureSession, TLAPS

-----------------------------------------------------------------------------
(* The inductive invariant.                                                *)

(* A caller at one of these labels has mInterfaceLock.                     *)
LockedPcs == CallerPcs \ {"idle", "dump_unlocked", "dump_read_unlocked"}

(* flush() and close(), from the step that empties the request list on.    *)
DrainPcs == {"flush_wait", "flush_drain", "error", "callback", "in_callback",
             "close_join", "close_finish"}

LockInv == \A c \in Callers : pc[c] \in LockedPcs => mInterfaceLock = c

(* A thread has a frame exactly while it works on one.                     *)
CurInv ==
    /\ \A c \in Callers :
          /\ pc[c] \in {"trigger", "submit", "error", "callback", "in_callback"}
                => cur[c] \in Frames
          /\ pc[c] \notin {"trigger", "submit", "error", "callback", "in_callback"}
                => cur[c] = None
          /\ pc[c] = "trigger" => cur[c] = nextFrame
    /\ pc[OT] \in {"wait", "done", "exited"} => cur[OT] = None
    /\ pc[OT] \notin {"wait", "done", "exited"} => cur[OT] \in Frames

(* The frames under way are older than the one the client uses next.       *)
AgeInv ==
    /\ \A i \in DOMAIN mRequestList : mRequestList[i] < nextFrame
    /\ \A c \in Callers : \A i \in DOMAIN moved[c] : moved[c][i] < nextFrame
    /\ \A a \in Actors :
          pc[a] # "trigger" /\ cur[a] # None => cur[a] < nextFrame

(* A thread that has reported a frame has taken it off the record.         *)
SettledInv ==
    \A a \in Actors : pc[a] \in {"callback", "in_callback", "dying"} =>
        cur[a] \notin mInflightFrames

(* Only a flush in progress holds requests taken from the list.            *)
MovedInv ==
    \A c \in Callers :
        pc[c] \notin {"flush_wait", "flush_drain", "error", "callback", "in_callback"}
            => moved[c] = <<>>

(* While one drains the session, and afterwards, nothing is submitted.     *)
DrainInv ==
    /\ \A c \in Callers : pc[c] \in DrainPcs => mRequestList = <<>>
    /\ \A c \in Callers : pc[c] \in DrainPcs \cup {"trigger", "submit"} => ~mClosed
    /\ mClosed => mRequestList = <<>>

(* The session lets go of its thread when it has ended.                    *)
ThreadInv ==
    /\ ~mOutputThread => pc[OT] = "exited"
    /\ mClosed => ~mOutputThread
    /\ \A c \in Callers : pc[c] = "close_finish" => ~mOutputThread

IInv == /\ TypeOK /\ LockInv /\ CurInv /\ AgeInv /\ SettledInv /\ MovedInv
        /\ DrainInv /\ ThreadInv /\ InflightIsPending /\ ClosedIsDrained

USE ActorsAssumption, SlotsAssumption, MaxFrameAssumption

-----------------------------------------------------------------------------
(* The record of in-flight frames.                                         *)

(* A frame stays under way where nothing moves.                            *)
LEMMA PendingKept ==
    ASSUME NEW f, Pending(f), UNCHANGED <<mRequestList, moved, cur>>
    PROVE  Pending(f)'
BY DEF Pending, Queued

(* Taking frames off the record, or none, leaves the others under way.     *)
LEMMA RecordKept ==
    ASSUME InflightIsPending, mInflightFrames' \subseteq mInflightFrames,
           UNCHANGED <<mRequestList, moved, cur>>
    PROVE  InflightIsPending'
BY PendingKept DEF InflightIsPending

(* A thread may let go of a frame that is off the record.                  *)
LEMMA RecordDone ==
    ASSUME InflightIsPending, mInflightFrames' \subseteq mInflightFrames,
           NEW a \in Actors, cur \in [Actors -> Frames \cup {None}],
           cur' = [cur EXCEPT ![a] = None],
           cur[a] \notin mInflightFrames, UNCHANGED <<mRequestList, moved>>
    PROVE  InflightIsPending'
<1> SUFFICES ASSUME NEW f \in mInflightFrames', f \in mInflightFrames
             PROVE  Pending(f)'
    BY DEF InflightIsPending
<1>1. Pending(f) /\ f # cur[a]
    BY DEF InflightIsPending
<1>2. CASE \E b \in Actors : cur[b] = f
    <2>1. PICK b \in Actors : cur[b] = f
        BY <1>2
    <2>2. b # a
        BY <1>1, <2>1
    <2>3. cur'[b] = f
        BY <2>1, <2>2
    <2> QED BY <2>3 DEF Pending
<1>3. CASE Queued(f) \/ \E c \in Callers : \E i \in DOMAIN moved[c] : moved[c][i] = f
    BY <1>3 DEF Pending, Queued
<1> QED BY <1>1, <1>2, <1>3 DEF Pending

-----------------------------------------------------------------------------
(* Each action preserves the invariant.                                    *)

(* The step Enter keeps the invariant.                                     *)
LEMMA EnterStep ==
    ASSUME IInv, NEW c \in Callers, NEW operation \in Operations \ {"dump"},
           Enter(c, operation)
    PROVE  IInv'
<1>1. TypeOK'
    BY DEF Enter, IInv, Goto, workVars, sessionVars, poolVars, threadVars,
       queueVars, clientVars, stateVars, TypeOK, CallerPcs, Actors, Operations
<1>2. LockInv' /\ CurInv' /\ MovedInv'
    BY DEF Enter, IInv, At, Goto, workVars, stateVars, LockInv, CurInv,
       MovedInv, Operations
<1>3. AgeInv' /\ SettledInv'
    BY DEF Enter, IInv, At, Goto, workVars, queueVars, stateVars, AgeInv,
       SettledInv, Operations
<1>4. DrainInv' /\ ThreadInv' /\ ClosedIsDrained'
    BY DEF Enter, IInv, Goto, sessionVars, threadVars, queueVars, stateVars,
       DrainInv, ThreadInv, ClosedIsDrained, DrainPcs, Operations
<1>5. InflightIsPending'
    BY RecordKept DEF Enter, IInv, workVars, queueVars, stateVars
<1> QED BY <1>1, <1>2, <1>3, <1>4, <1>5 DEF IInv

(* The step ConfigureRefused keeps the invariant.                          *)
LEMMA ConfigureRefusedStep ==
    ASSUME IInv, NEW c \in Callers, ConfigureRefused(c)
    PROVE  IInv'
<1>1. TypeOK'
    BY DEF ConfigureRefused, IInv, Goto, Leave, workVars, sessionVars,
       poolVars, threadVars, queueVars, clientVars, stateVars, TypeOK,
       CallerPcs, Actors
<1>2. LockInv' /\ CurInv' /\ MovedInv'
    BY DEF ConfigureRefused, IInv, At, Goto, Leave, workVars, TypeOK, LockInv,
       CurInv, MovedInv, LockedPcs, Actors
<1>3. AgeInv' /\ SettledInv'
    BY DEF ConfigureRefused, IInv, At, Goto, Leave, workVars, queueVars,
       stateVars, AgeInv, SettledInv
<1>4. DrainInv' /\ ThreadInv' /\ ClosedIsDrained'
    BY DEF ConfigureRefused, IInv, Goto, Leave, sessionVars, threadVars,
       queueVars, stateVars, DrainInv, ThreadInv, ClosedIsDrained, DrainPcs
<1>5. InflightIsPending'
    BY RecordKept DEF ConfigureRefused, IInv, workVars, queueVars, stateVars
<1> QED BY <1>1, <1>2, <1>3, <1>4, <1>5 DEF IInv

(* The step ConfigureAccepted keeps the invariant.                         *)
LEMMA ConfigureAcceptedStep ==
    ASSUME IInv, NEW c \in Callers, NEW streams \in SUBSET Streams,
           ConfigureAccepted(c, streams)
    PROVE  IInv'
<1>1. TypeOK'
    BY DEF ConfigureAccepted, IInv, Goto, Leave, workVars, poolVars,
       threadVars, queueVars, clientVars, TypeOK, CallerPcs, Actors
<1>2. LockInv' /\ CurInv' /\ MovedInv'
    BY DEF ConfigureAccepted, IInv, At, Goto, Leave, workVars, TypeOK,
       LockInv, CurInv, MovedInv, LockedPcs, Actors
<1>3. AgeInv' /\ SettledInv'
    BY DEF ConfigureAccepted, IInv, At, Goto, Leave, workVars, queueVars,
       AgeInv, SettledInv
<1>4. DrainInv' /\ ThreadInv' /\ ClosedIsDrained'
    BY DEF ConfigureAccepted, IInv, Goto, Leave, threadVars, queueVars,
       DrainInv, ThreadInv, ClosedIsDrained, DrainPcs
<1>5. InflightIsPending'
    BY RecordKept DEF ConfigureAccepted, IInv, workVars, queueVars
<1> QED BY <1>1, <1>2, <1>3, <1>4, <1>5 DEF IInv

(* The step PrepareRequest keeps the invariant.                            *)
LEMMA PrepareRequestStep ==
    ASSUME IInv, NEW c \in Callers, NEW streams \in SUBSET Streams,
           NEW settings \in BOOLEAN, PrepareRequest(c, streams, settings)
    PROVE  IInv'
<1>a. /\ c \in Actors /\ c # OT /\ pc[c] = "request" /\ ~mClosed /\ nextFrame \in Frames
      /\ pc' = [pc EXCEPT ![c] = "trigger"] /\ cur' = [cur EXCEPT ![c] = nextFrame]
    BY DEF PrepareRequest, At, Goto, Actors
<1>b. UNCHANGED <<mInterfaceLock, op, moved, sessionVars, mInflightFrames,
                  nextFrame, threadVars, queueVars,
                  mProcessCaptureResultLock, clientVars, crashed>>
    BY DEF PrepareRequest
<1>1. TypeOK'
    <2>1. interBuffers' \in [Slots -> SlotStatus] /\ req' \in [Frames -> Requests]
        <3>1. CASE \E s \in Available :
                     /\ interBuffers' = [interBuffers EXCEPT ![s] = "DEQUEUED"]
                     /\ req' = [req EXCEPT ![nextFrame] =
                            [streams |-> streams, slot |-> s, status |-> TRUE]]
            <4>1. PICK s \in Available :
                     /\ interBuffers' = [interBuffers EXCEPT ![s] = "DEQUEUED"]
                     /\ req' = [req EXCEPT ![nextFrame] =
                            [streams |-> streams, slot |-> s, status |-> TRUE]]
                BY <3>1
            <4>2. s \in Slots
                BY DEF Available
            <4>3. [streams |-> streams, slot |-> s, status |-> TRUE] \in Requests
                BY <4>2 DEF Requests
            <4> QED BY <4>1, <4>2, <4>3 DEF IInv, TypeOK, SlotStatus
        <3>2. CASE /\ interBuffers' = interBuffers
                   /\ req' = [req EXCEPT ![nextFrame] =
                          [streams |-> streams, slot |-> None, status |-> TRUE]]
            BY <3>2 DEF IInv, TypeOK, SlotStatus, Requests
        <3> QED BY <3>1, <3>2 DEF PrepareRequest
    <2> QED BY <1>a, <1>b, <2>1 DEF IInv, TypeOK, CallerPcs, ThreadPcs, Actors,
            sessionVars, threadVars, queueVars, clientVars
<1>2. LockInv' /\ CurInv' /\ MovedInv'
    BY <1>a, <1>b DEF IInv, TypeOK, LockInv, CurInv, MovedInv, LockedPcs, CallerPcs, Actors
<1>3. AgeInv' /\ SettledInv'
    BY <1>a, <1>b DEF IInv, TypeOK, CurInv, AgeInv, SettledInv, Actors, queueVars
<1>4. DrainInv' /\ ThreadInv' /\ ClosedIsDrained'
    BY <1>a, <1>b DEF IInv, TypeOK, DrainInv, ThreadInv, ClosedIsDrained, DrainPcs,
       Actors, sessionVars, threadVars, queueVars
<1>5. InflightIsPending'
    <2> SUFFICES ASSUME NEW f \in mInflightFrames PROVE Pending(f)'
        BY <1>b DEF InflightIsPending
    <2>1. Pending(f) /\ cur[c] = None /\ f # None
        BY <1>a, MaxFrameAssumption DEF IInv, TypeOK, InflightIsPending, CurInv
    <2>2. CASE \E b \in Actors : cur[b] = f
        <3>1. PICK b \in Actors : cur[b] = f
            BY <2>2
        <3>2. cur'[b] = f
            BY <1>a, <2>1, <3>1 DEF IInv, TypeOK
        <3> QED BY <3>2 DEF Pending
    <2>3. CASE Queued(f) \/ \E d \in Callers : \E i \in DOMAIN moved[d] : moved[d][i] = f
        BY <1>b, <2>3 DEF Pending, Queued, queueVars
    <2> QED BY <2>1, <2>2, <2>3 DEF Pending
<1> QED BY <1>1, <1>2, <1>3, <1>4, <1>5 DEF IInv

(* The step EndBatch keeps the invariant.                                  *)
LEMMA EndBatchStep ==
    ASSUME IInv, NEW c \in Callers, EndBatch(c)
    PROVE  IInv'
<1>1. TypeOK'
    BY DEF EndBatch, IInv, At, Goto, Leave, AfterCallback, workVars,
       sessionVars, poolVars, threadVars, queueVars, clientVars, stateVars,
       TypeOK, CurInv, CallerPcs, ThreadPcs, Actors, Frames, Operations,
       SlotStatus, Requests, ErrorCodes, Available
<1>2. LockInv' /\ CurInv' /\ MovedInv'
    BY DEF EndBatch, IInv, At, Goto, Leave, workVars, TypeOK, LockInv, CurInv,
       MovedInv, LockedPcs, Actors
<1>3. AgeInv' /\ SettledInv'
    BY DEF EndBatch, IInv, At, Goto, Leave, workVars, queueVars, AgeInv,
       SettledInv
<1>4. DrainInv' /\ ThreadInv' /\ ClosedIsDrained'
    BY DEF EndBatch, IInv, Goto, Leave, sessionVars, threadVars, queueVars,
       DrainInv, ThreadInv, ClosedIsDrained, DrainPcs
<1>5. InflightIsPending'
    BY RecordKept DEF EndBatch, IInv, workVars, queueVars
<1> QED BY <1>1, <1>2, <1>3, <1>4, <1>5 DEF IInv

(* The step TriggerRequest keeps the invariant.                            *)
LEMMA TriggerRequestStep ==
    ASSUME IInv, NEW c \in Callers, NEW status \in BOOLEAN, TriggerRequest(c, status)
    PROVE  IInv'
<1>a. /\ c \in Actors /\ c # OT /\ pc[c] = "trigger"
      /\ cur[c] = nextFrame /\ nextFrame \in Frames /\ ~mClosed
    BY DEF IInv, CurInv, DrainInv, TriggerRequest, At, Actors
<1>b. /\ pc' = [pc EXCEPT ![c] = "submit"] /\ nextFrame' = nextFrame + 1
      /\ mInflightFrames' = mInflightFrames \cup {nextFrame}
      /\ UNCHANGED <<mInterfaceLock, op, workVars, sessionVars, threadVars,
                     queueVars, mProcessCaptureResultLock, clientVars, crashed>>
    BY <1>a DEF TriggerRequest, Goto
<1>1. TypeOK'
    <2>1. interBuffers' \in [Slots -> SlotStatus]
        BY DEF IInv, TypeOK, TriggerRequest, SlotStatus
    <2>2. req' \in [Frames -> Requests]
        <3>1. [req[nextFrame] EXCEPT !.status = status] \in Requests
            <4>1. req[nextFrame] \in Requests
                BY <1>a DEF IInv, TypeOK
            <4>2. PICK streams \in SUBSET Streams, slot \in Slots \cup {None},
                       old \in BOOLEAN :
                       req[nextFrame] =
                           [streams |-> streams, slot |-> slot, status |-> old]
                BY <4>1 DEF Requests
            <4> QED BY <4>2 DEF Requests
        <3>2. req' = [req EXCEPT ![nextFrame] = [req[nextFrame] EXCEPT !.status = status]]
            BY <1>a DEF TriggerRequest
        <3> QED BY <1>a, <3>1, <3>2 DEF IInv, TypeOK
    <2>3. nextFrame' \in 1 .. MaxFrame + 1
        BY <1>a, <1>b DEF Frames
    <2> QED BY <1>a, <1>b, <2>1, <2>2, <2>3 DEF IInv, TypeOK, CallerPcs, ThreadPcs,
            Actors, workVars, sessionVars, threadVars, queueVars, clientVars
<1>2. LockInv' /\ CurInv' /\ MovedInv'
    BY <1>a, <1>b DEF IInv, TypeOK, LockInv, CurInv, MovedInv, LockedPcs, CallerPcs,
       Actors, workVars
<1>3. AgeInv' /\ SettledInv'
    <2>1. \A a \in Actors : a # c /\ cur[a] # None => cur[a] < nextFrame
        BY <1>a DEF IInv, TypeOK, AgeInv, LockInv, LockedPcs, CallerPcs, ThreadPcs, Actors
    <2>2. AgeInv'
        <3>1. \A i \in DOMAIN mRequestList : mRequestList[i] < nextFrame + 1
            BY <1>a DEF IInv, TypeOK, AgeInv, Frames
        <3>2. \A d \in Callers : \A i \in DOMAIN moved[d] : moved[d][i] < nextFrame + 1
            BY <1>a DEF IInv, TypeOK, AgeInv, Frames
        <3>3. \A a \in Actors : cur[a] # None => cur[a] < nextFrame + 1
            <4> SUFFICES ASSUME NEW a \in Actors, cur[a] # None
                         PROVE  cur[a] < nextFrame + 1
                OBVIOUS
            <4>1. cur[a] \in Nat /\ nextFrame \in Nat
                BY <1>a DEF IInv, TypeOK, Frames
            <4>2. a = c \/ cur[a] < nextFrame
                BY <2>1
            <4> QED BY <1>a, <4>1, <4>2
        <3> QED BY <1>b, <3>1, <3>2, <3>3 DEF AgeInv, workVars, queueVars
    <2>3. SettledInv'
        <3> SUFFICES ASSUME NEW a \in Actors,
                            pc'[a] \in {"callback", "in_callback", "dying"}
                     PROVE  cur[a] \notin mInflightFrames \cup {nextFrame}
            BY <1>b DEF SettledInv, workVars
        <3>1. a # c /\ pc[a] \in {"callback", "in_callback", "dying"}
            BY <1>a, <1>b DEF IInv, TypeOK
        <3>2. cur[a] \in Frames /\ cur[a] # None
            BY <1>a, <3>1, MaxFrameAssumption DEF IInv, TypeOK, CurInv, CallerPcs, Actors
        <3> QED BY <1>a, <2>1, <3>1, <3>2 DEF IInv, SettledInv, Frames
    <2> QED BY <2>2, <2>3
<1>4. DrainInv' /\ ThreadInv' /\ ClosedIsDrained'
    BY <1>a, <1>b DEF IInv, TypeOK, DrainInv, ThreadInv, ClosedIsDrained, DrainPcs,
       Actors, sessionVars, threadVars, queueVars
<1>5. InflightIsPending'
    <2> SUFFICES ASSUME NEW f \in mInflightFrames \cup {nextFrame} PROVE Pending(f)'
        BY <1>b DEF InflightIsPending
    <2>1. Pending(f)
        BY <1>a DEF IInv, InflightIsPending, Pending
    <2> QED BY <1>b, <2>1, PendingKept DEF workVars, queueVars
<1> QED BY <1>1, <1>2, <1>3, <1>4, <1>5 DEF IInv

(* The step SubmitRequest keeps the invariant.                             *)
LEMMA SubmitRequestStep ==
    ASSUME IInv, NEW c \in Callers, SubmitRequest(c)
    PROVE  IInv'
<1>a. /\ c \in Actors /\ c # OT /\ pc[c] = "submit" /\ cur[c] \in Frames /\ cur[c] # None
      /\ cur[c] < nextFrame /\ ~mClosed /\ mRequestList \in Seq(Frames)
    BY MaxFrameAssumption DEF IInv, TypeOK, CurInv, AgeInv, DrainInv, SubmitRequest, At, Actors
<1>b. /\ pc' = [pc EXCEPT ![c] = "request"] /\ cur' = [cur EXCEPT ![c] = None]
      /\ mRequestList' = Append(mRequestList, cur[c]) /\ mFirstRequest' = FALSE
      /\ UNCHANGED <<mInterfaceLock, op, moved, mClosed, mCirculatingBuffers,
                     mInflightFrames, poolVars, nextFrame, threadVars,
                     mProcessingRequest, mProcessCaptureResultLock, clientVars,
                     crashed>>
    BY DEF SubmitRequest, Goto
<1>c. mRequestList' \in Seq(Frames)
    BY <1>a, <1>b
<1>d. /\ \A i \in DOMAIN mRequestList :
            i \in DOMAIN mRequestList' /\ mRequestList'[i] = mRequestList[i]
      /\ \A i \in DOMAIN mRequestList' :
            i \in DOMAIN mRequestList \/ mRequestList'[i] = cur[c]
      /\ \E i \in DOMAIN mRequestList' : mRequestList'[i] = cur[c]
    BY <1>a, <1>b
<1>1. TypeOK'
    BY <1>a, <1>b, <1>c DEF IInv, TypeOK, CallerPcs, ThreadPcs, Actors, poolVars,
       threadVars, clientVars
<1>2. LockInv' /\ CurInv' /\ MovedInv'
    BY <1>a, <1>b DEF IInv, TypeOK, LockInv, CurInv, MovedInv, LockedPcs, CallerPcs, Actors
<1>3. AgeInv' /\ SettledInv'
    <2>1. \A i \in DOMAIN mRequestList' : mRequestList'[i] < nextFrame
        BY <1>a, <1>d DEF IInv, AgeInv
    <2> QED BY <1>a, <1>b, <2>1 DEF IInv, TypeOK, AgeInv, SettledInv, Actors
<1>4. DrainInv' /\ ThreadInv' /\ ClosedIsDrained'
    BY <1>a, <1>b DEF IInv, TypeOK, LockInv, DrainInv, ThreadInv, ClosedIsDrained,
       DrainPcs, LockedPcs, CallerPcs, Actors, threadVars
<1>5. InflightIsPending'
    <2> SUFFICES ASSUME NEW f \in mInflightFrames, Pending(f) PROVE Pending(f)'
        BY <1>b DEF IInv, InflightIsPending
    <2>1. CASE f = cur[c] \/ Queued(f)
        BY <1>d, <2>1 DEF Pending, Queued
    <2>2. CASE \E b \in Actors : cur[b] = f /\ b # c
        <3>1. PICK b \in Actors : cur[b] = f /\ b # c
            BY <2>2
        <3>2. cur'[b] = f
            BY <1>b, <3>1 DEF IInv, TypeOK
        <3> QED BY <3>2 DEF Pending
    <2>3. CASE \E d \in Callers : \E i \in DOMAIN moved[d] : moved[d][i] = f
        BY <1>b, <2>3 DEF Pending
    <2> QED BY <2>1, <2>2, <2>3 DEF Pending
<1> QED BY <1>1, <1>2, <1>3, <1>4, <1>5 DEF IInv

(* The step ReportRequestError keeps the invariant.                        *)
LEMMA ReportRequestErrorStep ==
    ASSUME IInv, NEW a \in Actors, ReportRequestError(a)
    PROVE  IInv'
<1>1. TypeOK'
    BY DEF ReportRequestError, IInv, At, Goto, Leave, AfterCallback, workVars,
       sessionVars, poolVars, threadVars, queueVars, clientVars, stateVars,
       TypeOK, CurInv, CallerPcs, ThreadPcs, Actors, ErrorCodes
<1>2. LockInv' /\ CurInv' /\ MovedInv'
    BY DEF ReportRequestError, IInv, At, Goto, workVars, LockInv, CurInv,
       MovedInv, LockedPcs, CallerPcs
<1>3. AgeInv' /\ SettledInv'
    BY DEF ReportRequestError, IInv, At, Goto, workVars, queueVars, AgeInv,
       SettledInv
<1>4. DrainInv' /\ ThreadInv' /\ ClosedIsDrained'
    BY DEF ReportRequestError, IInv, At, Goto, sessionVars, threadVars,
       queueVars, DrainInv, ThreadInv, ClosedIsDrained, DrainPcs
<1>5. InflightIsPending'
    BY RecordKept DEF ReportRequestError, IInv, workVars, queueVars
<1> QED BY <1>1, <1>2, <1>3, <1>4, <1>5 DEF IInv

(* The step EnterCallback keeps the invariant.                             *)
LEMMA EnterCallbackStep ==
    ASSUME IInv, NEW a \in Actors, EnterCallback(a)
    PROVE  IInv'
<1>1. TypeOK'
    BY DEF EnterCallback, IInv, At, Goto, workVars, sessionVars, poolVars,
       threadVars, queueVars, clientVars, TypeOK, CallerPcs, ThreadPcs
<1>2. LockInv' /\ CurInv' /\ MovedInv'
    BY DEF EnterCallback, IInv, At, Goto, workVars, LockInv, CurInv, MovedInv,
       LockedPcs, CallerPcs
<1>3. AgeInv' /\ SettledInv'
    BY DEF EnterCallback, IInv, At, Goto, workVars, queueVars, AgeInv,
       SettledInv
<1>4. DrainInv' /\ ThreadInv' /\ ClosedIsDrained'
    BY DEF EnterCallback, IInv, At, Goto, sessionVars, threadVars, queueVars,
       DrainInv, ThreadInv, ClosedIsDrained, DrainPcs
<1>5. InflightIsPending'
    BY RecordKept DEF EnterCallback, IInv, workVars, queueVars
<1> QED BY <1>1, <1>2, <1>3, <1>4, <1>5 DEF IInv

(* The step DropResult keeps the invariant.                                *)
LEMMA DropResultStep ==
    ASSUME IInv, NEW a \in Actors, DropResult(a)
    PROVE  IInv'
<1>1. TypeOK'
    BY DEF DropResult, IInv, Goto, AfterCallback, sessionVars, poolVars,
       threadVars, queueVars, clientVars, stateVars, TypeOK, CallerPcs,
       ThreadPcs
<1>2. LockInv' /\ CurInv' /\ MovedInv'
    BY DEF DropResult, IInv, At, Goto, AfterCallback, workVars, sessionVars,
       poolVars, threadVars, queueVars, clientVars, stateVars, TypeOK,
       LockInv, CurInv, MovedInv, LockedPcs
<1>3. AgeInv' /\ SettledInv'
    BY DEF DropResult, IInv, Goto, queueVars, stateVars, TypeOK, AgeInv,
       SettledInv
<1>4. DrainInv' /\ ThreadInv' /\ ClosedIsDrained'
    BY DEF DropResult, IInv, At, Goto, AfterCallback, sessionVars, threadVars,
       queueVars, stateVars, DrainInv, ThreadInv, ClosedIsDrained, DrainPcs
<1>5. InflightIsPending'
    BY RecordDone DEF DropResult, IInv, At, queueVars, stateVars, TypeOK,
       SettledInv
<1> QED BY <1>1, <1>2, <1>3, <1>4, <1>5 DEF IInv

(* The step DeliverResult keeps the invariant.                             *)
LEMMA DeliverResultStep ==
    ASSUME IInv, NEW a \in Actors, DeliverResult(a)
    PROVE  IInv'
<1>1. TypeOK'
    BY DEF DeliverResult, IInv, At, Goto, AfterCallback, sessionVars,
       poolVars, threadVars, queueVars, TypeOK, CurInv, CallerPcs, ThreadPcs,
       Actors
<1>2. LockInv' /\ CurInv' /\ MovedInv'
    BY DEF DeliverResult, IInv, At, Goto, AfterCallback, sessionVars,
       poolVars, threadVars, queueVars, TypeOK, LockInv, CurInv, MovedInv,
       LockedPcs
<1>3. AgeInv' /\ SettledInv'
    BY DEF DeliverResult, IInv, Goto, queueVars, TypeOK, AgeInv, SettledInv
<1>4. DrainInv' /\ ThreadInv' /\ ClosedIsDrained'
    BY DEF DeliverResult, IInv, At, Goto, AfterCallback, sessionVars,
       threadVars, queueVars, DrainInv, ThreadInv, ClosedIsDrained, DrainPcs
<1>5. InflightIsPending'
    BY RecordDone DEF DeliverResult, IInv, At, queueVars, TypeOK, SettledInv
<1> QED BY <1>1, <1>2, <1>3, <1>4, <1>5 DEF IInv

(* The step FlushClosed keeps the invariant.                               *)
LEMMA FlushClosedStep ==
    ASSUME IInv, NEW c \in Callers, FlushClosed(c)
    PROVE  IInv'
<1>1. TypeOK'
    BY DEF FlushClosed, IInv, Goto, Leave, workVars, sessionVars, poolVars,
       threadVars, queueVars, clientVars, stateVars, TypeOK, CallerPcs, Actors
<1>2. LockInv' /\ CurInv' /\ MovedInv'
    BY DEF FlushClosed, IInv, At, Goto, Leave, workVars, TypeOK, LockInv,
       CurInv, MovedInv, LockedPcs, Actors
<1>3. AgeInv' /\ SettledInv'
    BY DEF FlushClosed, IInv, At, Goto, Leave, workVars, queueVars, stateVars,
       AgeInv, SettledInv
<1>4. DrainInv' /\ ThreadInv' /\ ClosedIsDrained'
    BY DEF FlushClosed, IInv, Goto, Leave, threadVars, queueVars, stateVars,
       DrainInv, ThreadInv, ClosedIsDrained, DrainPcs
<1>5. InflightIsPending'
    BY RecordKept DEF FlushClosed, IInv, workVars, queueVars, stateVars
<1> QED BY <1>1, <1>2, <1>3, <1>4, <1>5 DEF IInv

(* The step FlushStart keeps the invariant.                                *)
LEMMA FlushStartStep ==
    ASSUME IInv, NEW c \in Callers, FlushStart(c)
    PROVE  IInv'
<1>a. c \in Actors /\ c # OT /\ pc[c] = "flush" /\ ~mClosed /\ moved[c] = <<>>
    BY DEF IInv, MovedInv, FlushStart, At, Actors
<1>b. /\ pc' = [pc EXCEPT ![c] =
                   IF mProcessingRequest THEN "flush_wait" ELSE "flush_drain"]
      /\ moved' = [moved EXCEPT ![c] = mRequestList] /\ mRequestList' = <<>>
      /\ UNCHANGED <<mInterfaceLock, op, cur, sessionVars, mInflightFrames,
                     poolVars, nextFrame, threadVars, mProcessingRequest,
                     mProcessCaptureResultLock, clientVars, crashed>>
    BY DEF FlushStart, Goto
<1>1. TypeOK'
    <2>1. moved' \in [Callers -> Seq(Frames)] /\ mRequestList' \in Seq(Frames)
        BY <1>b DEF IInv, TypeOK
    <2>2. /\ pc' \in [Actors -> CallerPcs \cup ThreadPcs] /\ pc'[OT] \in ThreadPcs
          /\ \A d \in Callers : pc'[d] \in CallerPcs
        BY <1>a, <1>b DEF IInv, TypeOK, CallerPcs, Actors
    <2> QED BY <1>b, <2>1, <2>2 DEF IInv, TypeOK, sessionVars, poolVars,
            threadVars, clientVars
<1>2. LockInv' /\ CurInv' /\ MovedInv'
    BY <1>a, <1>b DEF IInv, TypeOK, LockInv, CurInv, MovedInv, LockedPcs, CallerPcs, Actors
<1>3. AgeInv' /\ SettledInv'
    BY <1>a, <1>b DEF IInv, TypeOK, AgeInv, SettledInv, CurInv, Actors
<1>4. DrainInv' /\ ThreadInv' /\ ClosedIsDrained'
    BY <1>a, <1>b DEF IInv, TypeOK, DrainInv, ThreadInv, ClosedIsDrained, DrainPcs,
       Actors, sessionVars, threadVars
<1>5. InflightIsPending'
    <2> SUFFICES ASSUME NEW f \in mInflightFrames, Pending(f) PROVE Pending(f)'
        BY <1>b DEF IInv, InflightIsPending
    <2>1. CASE Queued(f)
        <3>1. moved'[c] = mRequestList
            BY <1>b DEF IInv, TypeOK
        <3> QED BY <2>1, <3>1 DEF Pending, Queued
    <2>2. CASE \E b \in Actors : cur[b] = f
        BY <1>b, <2>2 DEF Pending
    <2>3. CASE \E d \in Callers : \E i \in DOMAIN moved[d] : moved[d][i] = f
        <3>1. PICK d \in Callers : \E i \in DOMAIN moved[d] : moved[d][i] = f
            BY <2>3
        <3>2. d # c
            BY <1>a, <3>1
        <3>3. moved'[d] = moved[d]
            BY <1>b, <3>2 DEF IInv, TypeOK
        <3> QED BY <3>1, <3>3 DEF Pending
    <2> QED BY <2>1, <2>2, <2>3 DEF Pending
<1> QED BY <1>1, <1>2, <1>3, <1>4, <1>5 DEF IInv

(* The step FlushWake keeps the invariant.                                 *)
LEMMA FlushWakeStep ==
    ASSUME IInv, NEW c \in Callers, FlushWake(c)
    PROVE  IInv'
<1>1. TypeOK'
    BY DEF FlushWake, IInv, At, Goto, workVars, sessionVars, poolVars,
       threadVars, queueVars, clientVars, stateVars, TypeOK, CallerPcs,
       ThreadPcs, Actors
<1>2. LockInv' /\ CurInv' /\ MovedInv'
    BY DEF FlushWake, IInv, At, Goto, workVars, poolVars, LockInv, CurInv,
       MovedInv, LockedPcs, CallerPcs
<1>3. AgeInv' /\ SettledInv'
    BY DEF FlushWake, IInv, At, Goto, workVars, queueVars, stateVars, AgeInv,
       SettledInv
<1>4. DrainInv' /\ ThreadInv' /\ ClosedIsDrained'
    BY DEF FlushWake, IInv, At, Goto, sessionVars, threadVars, queueVars,
       stateVars, DrainInv, ThreadInv, ClosedIsDrained, DrainPcs
<1>5. InflightIsPending'
    BY RecordKept DEF FlushWake, IInv, workVars, queueVars, stateVars
<1> QED BY <1>1, <1>2, <1>3, <1>4, <1>5 DEF IInv

(* The step FlushNext keeps the invariant.                                 *)
LEMMA FlushNextStep ==
    ASSUME IInv, NEW c \in Callers, FlushNext(c)
    PROVE  IInv'
<1>a. /\ c \in Actors /\ c # OT /\ pc[c] = "flush_drain" /\ cur[c] = None
      /\ moved[c] \in Seq(Frames) /\ moved[c] # <<>>
    BY DEF IInv, TypeOK, CurInv, FlushNext, At, Actors
<1>b. /\ pc' = [pc EXCEPT ![c] = "error"]
      /\ cur' = [cur EXCEPT ![c] = Head(moved[c])]
      /\ moved' = [moved EXCEPT ![c] = Tail(moved[c])]
      /\ UNCHANGED <<mInterfaceLock, op, stateVars>>
    BY DEF FlushNext, Goto
<1>c. /\ Head(moved[c]) \in Frames /\ Head(moved[c]) < nextFrame
      /\ Tail(moved[c]) \in Seq(Frames)
      /\ \A i \in DOMAIN Tail(moved[c]) : i + 1 \in DOMAIN moved[c]
                                        /\ Tail(moved[c])[i] = moved[c][i + 1]
      /\ \A i \in DOMAIN moved[c] :
            \/ moved[c][i] = Head(moved[c])
            \/ \E j \in DOMAIN Tail(moved[c]) : Tail(moved[c])[j] = moved[c][i]
    <2>1. Head(moved[c]) = moved[c][1] /\ 1 \in DOMAIN moved[c]
        BY <1>a
    <2>2. \A i \in DOMAIN moved[c] \ {1} :
              i - 1 \in DOMAIN Tail(moved[c]) /\ Tail(moved[c])[i - 1] = moved[c][i]
        BY <1>a
    <2>3. \A i \in DOMAIN Tail(moved[c]) : i + 1 \in DOMAIN moved[c]
                                        /\ Tail(moved[c])[i] = moved[c][i + 1]
        BY <1>a
    <2>4. Tail(moved[c]) \in Seq(Frames) /\ Head(moved[c]) \in Frames
        BY <1>a
    <2> QED BY <2>1, <2>2, <2>3, <2>4 DEF IInv, AgeInv
<1>1. TypeOK'
    <2>1. cur' \in [Actors -> Frames \cup {None}] /\ moved' \in [Callers -> Seq(Frames)]
        BY <1>a, <1>b, <1>c DEF IInv, TypeOK
    <2>2. /\ pc' \in [Actors -> CallerPcs \cup ThreadPcs] /\ pc'[OT] \in ThreadPcs
          /\ \A d \in Callers : pc'[d] \in CallerPcs
        BY <1>a, <1>b DEF IInv, TypeOK, CallerPcs, Actors
    <2> QED BY <1>b, <2>1, <2>2 DEF IInv, TypeOK, stateVars, sessionVars, poolVars,
            queueVars, threadVars, clientVars
<1>2. LockInv' /\ CurInv' /\ MovedInv'
    BY <1>a, <1>b, <1>c DEF IInv, TypeOK, LockInv, CurInv, MovedInv, LockedPcs,
       CallerPcs, Actors, stateVars
<1>3. AgeInv' /\ SettledInv'
    <2>1. \A d \in Callers : \A i \in DOMAIN moved'[d] : moved'[d][i] < nextFrame
        <3> SUFFICES ASSUME NEW d \in Callers, NEW i \in DOMAIN moved'[d]
                     PROVE  moved'[d][i] < nextFrame
            OBVIOUS
        <3>1. CASE d = c
            BY <1>b, <1>c, <3>1 DEF IInv, TypeOK, AgeInv
        <3>2. CASE d # c
            BY <1>b, <3>2 DEF IInv, TypeOK, AgeInv
        <3> QED BY <3>1, <3>2
    <2>2. \A a \in Actors : pc'[a] # "trigger" /\ cur'[a] # None => cur'[a] < nextFrame
        BY <1>a, <1>b, <1>c DEF IInv, TypeOK, AgeInv
    <2>3. SettledInv'
        BY <1>a, <1>b DEF IInv, TypeOK, SettledInv, stateVars
    <2> QED BY <1>b, <2>1, <2>2, <2>3 DEF IInv, AgeInv, stateVars, queueVars
<1>4. DrainInv' /\ ThreadInv' /\ ClosedIsDrained'
    BY <1>a, <1>b DEF IInv, TypeOK, DrainInv, ThreadInv, ClosedIsDrained, DrainPcs,
       Actors, stateVars, sessionVars, threadVars, queueVars
<1>5. InflightIsPending'
    <2> SUFFICES ASSUME NEW f \in mInflightFrames, Pending(f), f # None PROVE Pending(f)'
        BY <1>b, MaxFrameAssumption DEF IInv, TypeOK, InflightIsPending, stateVars
    <2>1. CASE Queued(f)
        BY <1>b, <2>1 DEF Pending, Queued, stateVars, queueVars
    <2>2. CASE \E b \in Actors : cur[b] = f
        <3>1. PICK b \in Actors : cur[b] = f
            BY <2>2
        <3>2. cur'[b] = f
            BY <1>a, <1>b, <3>1 DEF IInv, TypeOK
        <3> QED BY <3>2 DEF Pending
    <2>3. CASE \E d \in Callers : \E i \in DOMAIN moved[d] : moved[d][i] = f
        <3>1. PICK d \in Callers : \E i \in DOMAIN moved[d] : moved[d][i] = f
            BY <2>3
        <3>2. CASE d # c
            <4>1. moved'[d] = moved[d]
                BY <1>b, <3>2 DEF IInv, TypeOK
            <4> QED BY <3>1, <4>1 DEF Pending
        <3>3. CASE d = c
            <4>1. cur'[c] = Head(moved[c]) /\ moved'[c] = Tail(moved[c])
                BY <1>a, <1>b DEF IInv, TypeOK
            <4>2. f = Head(moved[c]) \/ \E j \in DOMAIN Tail(moved[c]) : Tail(moved[c])[j] = f
                BY <1>c, <3>1, <3>3
            <4> QED BY <1>a, <4>1, <4>2 DEF Pending
        <3> QED BY <3>2, <3>3
    <2> QED BY <2>1, <2>2, <2>3 DEF Pending
<1> QED BY <1>1, <1>2, <1>3, <1>4, <1>5 DEF IInv

(* The step FlushReturn keeps the invariant.                               *)
LEMMA FlushReturnStep ==
    ASSUME IInv, NEW c \in Callers, FlushReturn(c)
    PROVE  IInv'
<1>1. TypeOK'
    BY DEF FlushReturn, IInv, At, Goto, Leave, workVars, sessionVars,
       poolVars, threadVars, queueVars, clientVars, stateVars, TypeOK,
       CallerPcs, Actors
<1>2. LockInv' /\ CurInv' /\ MovedInv'
    BY DEF FlushReturn, IInv, At, Goto, Leave, workVars, TypeOK, LockInv,
       CurInv, MovedInv, LockedPcs, Actors
<1>3. AgeInv' /\ SettledInv'
    BY DEF FlushReturn, IInv, At, Goto, Leave, workVars, queueVars, stateVars,
       AgeInv, SettledInv
<1>4. DrainInv' /\ ThreadInv' /\ ClosedIsDrained'
    BY DEF FlushReturn, IInv, Goto, Leave, sessionVars, threadVars, queueVars,
       stateVars, DrainInv, ThreadInv, ClosedIsDrained, DrainPcs
<1>5. InflightIsPending'
    BY RecordKept DEF FlushReturn, IInv, workVars, queueVars, stateVars
<1> QED BY <1>1, <1>2, <1>3, <1>4, <1>5 DEF IInv

(* The step CloseRequestExit keeps the invariant.                          *)
LEMMA CloseRequestExitStep ==
    ASSUME IInv, NEW c \in Callers, CloseRequestExit(c)
    PROVE  IInv'
<1>1. TypeOK'
    BY DEF CloseRequestExit, IInv, At, Goto, workVars, sessionVars, poolVars,
       queueVars, clientVars, TypeOK, CallerPcs, Actors
<1>2. LockInv' /\ CurInv' /\ MovedInv'
    BY DEF CloseRequestExit, IInv, At, Goto, workVars, LockInv, CurInv,
       MovedInv, LockedPcs, CallerPcs
<1>3. AgeInv' /\ SettledInv'
    BY DEF CloseRequestExit, IInv, At, Goto, workVars, queueVars, AgeInv,
       SettledInv
<1>4. DrainInv' /\ ThreadInv' /\ ClosedIsDrained'
    BY DEF CloseRequestExit, IInv, At, Goto, sessionVars, queueVars, DrainInv,
       ThreadInv, ClosedIsDrained, DrainPcs
<1>5. InflightIsPending'
    BY RecordKept DEF CloseRequestExit, IInv, workVars, queueVars
<1> QED BY <1>1, <1>2, <1>3, <1>4, <1>5 DEF IInv

(* The step CloseJoin keeps the invariant.                                 *)
LEMMA CloseJoinStep ==
    ASSUME IInv, NEW c \in Callers, CloseJoin(c)
    PROVE  IInv'
<1>1. TypeOK'
    BY DEF CloseJoin, IInv, At, Goto, workVars, sessionVars, poolVars,
       queueVars, clientVars, TypeOK, CallerPcs, Actors
<1>2. LockInv' /\ CurInv' /\ MovedInv'
    BY DEF CloseJoin, IInv, At, Goto, workVars, LockInv, CurInv, MovedInv,
       LockedPcs, CallerPcs
<1>3. AgeInv' /\ SettledInv'
    BY DEF CloseJoin, IInv, At, Goto, workVars, queueVars, AgeInv, SettledInv
<1>4. DrainInv' /\ ThreadInv' /\ ClosedIsDrained'
    BY DEF CloseJoin, IInv, At, Goto, sessionVars, queueVars, DrainInv,
       ThreadInv, ClosedIsDrained, DrainPcs
<1>5. InflightIsPending'
    BY RecordKept DEF CloseJoin, IInv, workVars, queueVars
<1> QED BY <1>1, <1>2, <1>3, <1>4, <1>5 DEF IInv

(* The step CloseFinish keeps the invariant.                               *)
LEMMA CloseFinishStep ==
    ASSUME IInv, NEW c \in Callers, CloseFinish(c)
    PROVE  IInv'
<1>a. /\ c \in Actors /\ c # OT /\ pc[c] = "close_finish" /\ mInterfaceLock = c
      /\ pc[OT] = "exited" /\ ~mOutputThread /\ mRequestList = <<>>
    BY DEF IInv, LockInv, DrainInv, ThreadInv, DrainPcs, LockedPcs, CallerPcs,
       CloseFinish, At, Actors
<1>b. /\ pc' = [pc EXCEPT ![c] = "idle"] /\ mClosed' = TRUE
      /\ UNCHANGED <<workVars, mFirstRequest, mInflightFrames, poolVars, nextFrame,
                     threadVars, queueVars, mProcessCaptureResultLock,
                     clientVars, crashed>>
    BY DEF CloseFinish, Leave, Goto
<1>1. TypeOK'
    BY DEF CloseFinish, IInv, At, Goto, Leave, workVars, sessionVars, poolVars,
       threadVars, queueVars, clientVars, TypeOK, CallerPcs, ThreadPcs, Actors
<1>2. LockInv' /\ CurInv' /\ MovedInv'
    BY <1>a, <1>b DEF IInv, TypeOK, LockInv, CurInv, MovedInv, LockedPcs, CallerPcs,
       Actors, workVars
<1>3. AgeInv' /\ SettledInv'
    BY <1>a, <1>b DEF IInv, TypeOK, AgeInv, SettledInv, CurInv, Actors, workVars, queueVars
<1>4. mInflightFrames = {}
    <2> SUFFICES ASSUME NEW f \in mInflightFrames, Pending(f), f # None PROVE FALSE
        BY MaxFrameAssumption DEF IInv, TypeOK, InflightIsPending
    <2>1. ~Queued(f)
        BY <1>a DEF Queued
    <2>2. \A d \in Callers : moved[d] = <<>> /\ cur[d] = None
        BY <1>a DEF IInv, TypeOK, LockInv, CurInv, MovedInv, LockedPcs, CallerPcs
    <2>3. cur[OT] = None
        BY <1>a DEF IInv, CurInv
    <2> QED BY <2>1, <2>2, <2>3 DEF Pending, Actors
<1>5. DrainInv' /\ ThreadInv' /\ ClosedIsDrained'
    BY <1>a, <1>b, <1>4 DEF IInv, TypeOK, LockInv, DrainInv, ThreadInv, ClosedIsDrained,
       DrainPcs, LockedPcs, CallerPcs, Actors, threadVars, queueVars
<1>6. InflightIsPending'
    BY <1>b, <1>4 DEF InflightIsPending
<1> QED BY <1>1, <1>2, <1>3, <1>5, <1>6 DEF IInv

(* The step DumpLock keeps the invariant.                                  *)
LEMMA DumpLockStep ==
    ASSUME IInv, NEW c \in Callers, DumpLock(c)
    PROVE  IInv'
<1>1. TypeOK'
    BY DEF DumpLock, IInv, At, Goto, workVars, sessionVars, poolVars,
       threadVars, queueVars, clientVars, stateVars, TypeOK, CallerPcs,
       Actors, Operations
<1>2. LockInv' /\ CurInv' /\ MovedInv'
    BY DEF DumpLock, IInv, Goto, workVars, LockInv, CurInv, MovedInv,
       LockedPcs, CallerPcs
<1>3. AgeInv' /\ SettledInv'
    BY DEF DumpLock, IInv, At, Goto, workVars, queueVars, stateVars, AgeInv,
       SettledInv
<1>4. DrainInv' /\ ThreadInv' /\ ClosedIsDrained'
    BY DEF DumpLock, IInv, Goto, sessionVars, threadVars, queueVars,
       stateVars, DrainInv, ThreadInv, ClosedIsDrained, DrainPcs
<1>5. InflightIsPending'
    BY RecordKept DEF DumpLock, IInv, workVars, queueVars, stateVars
<1> QED BY <1>1, <1>2, <1>3, <1>4, <1>5 DEF IInv

(* The step DumpGiveUp keeps the invariant.                                *)
LEMMA DumpGiveUpStep ==
    ASSUME IInv, NEW c \in Callers, DumpGiveUp(c)
    PROVE  IInv'
<1>1. TypeOK'
    BY DEF DumpGiveUp, IInv, Goto, workVars, sessionVars, poolVars,
       threadVars, queueVars, clientVars, stateVars, TypeOK, CurInv,
       CallerPcs, Actors, Operations
<1>2. LockInv' /\ CurInv' /\ MovedInv'
    BY DEF DumpGiveUp, IInv, At, Goto, workVars, stateVars, LockInv, CurInv,
       MovedInv, LockedPcs
<1>3. AgeInv' /\ SettledInv'
    BY DEF DumpGiveUp, IInv, At, Goto, workVars, queueVars, stateVars, AgeInv,
       SettledInv
<1>4. DrainInv' /\ ThreadInv' /\ ClosedIsDrained'
    BY DEF DumpGiveUp, IInv, Goto, sessionVars, threadVars, queueVars,
       stateVars, DrainInv, ThreadInv, ClosedIsDrained, DrainPcs
<1>5. InflightIsPending'
    BY RecordKept DEF DumpGiveUp, IInv, workVars, queueVars, stateVars
<1> QED BY <1>1, <1>2, <1>3, <1>4, <1>5 DEF IInv

(* The step DumpClosed keeps the invariant.                                *)
LEMMA DumpClosedStep ==
    ASSUME IInv, NEW c \in Callers, DumpClosed(c)
    PROVE  IInv'
<1>1. TypeOK'
    BY DEF DumpClosed, IInv, Goto, workVars, sessionVars, poolVars,
       threadVars, queueVars, clientVars, stateVars, TypeOK, CurInv,
       CallerPcs, Actors
<1>2. LockInv' /\ CurInv' /\ MovedInv'
    BY DEF DumpClosed, IInv, Goto, workVars, stateVars, LockInv, CurInv,
       MovedInv, LockedPcs
<1>3. AgeInv' /\ SettledInv'
    BY DEF DumpClosed, IInv, Goto, workVars, queueVars, stateVars, AgeInv,
       SettledInv
<1>4. DrainInv' /\ ThreadInv' /\ ClosedIsDrained'
    BY DEF DumpClosed, IInv, Goto, threadVars, queueVars, stateVars, DrainInv,
       ThreadInv, ClosedIsDrained, DrainPcs
<1>5. InflightIsPending'
    BY RecordKept DEF DumpClosed, IInv, workVars, queueVars, stateVars
<1> QED BY <1>1, <1>2, <1>3, <1>4, <1>5 DEF IInv

(* The step DumpOpen keeps the invariant.                                  *)
LEMMA DumpOpenStep ==
    ASSUME IInv, NEW c \in Callers, DumpOpen(c)
    PROVE  IInv'
<1>1. TypeOK'
    BY DEF DumpOpen, IInv, Goto, workVars, sessionVars, poolVars, threadVars,
       queueVars, clientVars, stateVars, TypeOK, CurInv, CallerPcs, ThreadPcs,
       Actors
<1>2. LockInv' /\ CurInv' /\ MovedInv'
    BY DEF DumpOpen, IInv, Goto, workVars, stateVars, LockInv, CurInv,
       MovedInv, LockedPcs, CallerPcs
<1>3. AgeInv' /\ SettledInv'
    BY DEF DumpOpen, IInv, Goto, workVars, queueVars, stateVars, AgeInv,
       SettledInv
<1>4. DrainInv' /\ ThreadInv' /\ ClosedIsDrained'
    BY DEF DumpOpen, IInv, Goto, sessionVars, threadVars, queueVars,
       stateVars, DrainInv, ThreadInv, ClosedIsDrained, DrainPcs
<1>5. InflightIsPending'
    BY RecordKept DEF DumpOpen, IInv, workVars, queueVars, stateVars
<1> QED BY <1>1, <1>2, <1>3, <1>4, <1>5 DEF IInv

(* The step DumpPrint keeps the invariant.                                 *)
LEMMA DumpPrintStep ==
    ASSUME IInv, NEW c \in Callers, DumpPrint(c)
    PROVE  IInv'
<1>1. TypeOK'
    BY DEF DumpPrint, IInv, Goto, workVars, sessionVars, poolVars, threadVars,
       queueVars, clientVars, stateVars, TypeOK, CallerPcs, Actors
<1>2. LockInv' /\ CurInv' /\ MovedInv'
    BY DEF DumpPrint, IInv, Goto, workVars, stateVars, TypeOK, LockInv,
       CurInv, MovedInv, LockedPcs, Actors
<1>3. AgeInv' /\ SettledInv'
    BY DEF DumpPrint, IInv, Goto, workVars, queueVars, stateVars, AgeInv,
       SettledInv
<1>4. DrainInv' /\ ThreadInv' /\ ClosedIsDrained'
    BY DEF DumpPrint, IInv, Goto, sessionVars, threadVars, queueVars,
       stateVars, DrainInv, ThreadInv, ClosedIsDrained, DrainPcs
<1>5. InflightIsPending'
    BY RecordKept DEF DumpPrint, IInv, workVars, queueVars, stateVars
<1> QED BY <1>1, <1>2, <1>3, <1>4, <1>5 DEF IInv

(* The step DumpNoThread keeps the invariant.                              *)
LEMMA DumpNoThreadStep ==
    ASSUME IInv, NEW c \in Callers, DumpNoThread(c)
    PROVE  IInv'
<1>1. TypeOK'
    BY DEF DumpNoThread, IInv, workVars, sessionVars, poolVars, threadVars,
       queueVars, clientVars, TypeOK
<1>2. LockInv' /\ CurInv' /\ MovedInv'
    BY DEF DumpNoThread, IInv, workVars, LockInv, CurInv, MovedInv
<1>3. AgeInv' /\ SettledInv'
    BY DEF DumpNoThread, IInv, workVars, queueVars, AgeInv, SettledInv
<1>4. DrainInv' /\ ThreadInv' /\ ClosedIsDrained'
    BY DEF DumpNoThread, IInv, sessionVars, threadVars, queueVars, DrainInv,
       ThreadInv, ClosedIsDrained
<1>5. InflightIsPending'
    BY RecordKept DEF DumpNoThread, IInv, workVars, queueVars
<1> QED BY <1>1, <1>2, <1>3, <1>4, <1>5 DEF IInv

(* The step ThreadTakeRequest keeps the invariant.                         *)
LEMMA ThreadTakeRequestStep ==
    ASSUME IInv, ThreadTakeRequest
    PROVE  IInv'
<1>a. /\ OT \in Actors /\ OT \notin Callers /\ pc[OT] = "wait" /\ cur[OT] = None
      /\ mRequestList \in Seq(Frames) /\ mRequestList # <<>>
    BY DEF IInv, TypeOK, CurInv, ThreadTakeRequest, At, Actors
<1>b. /\ \E label \in {"convert", "error"} : pc' = [pc EXCEPT ![OT] = label]
      /\ cur' = [cur EXCEPT ![OT] = Head(mRequestList)]
      /\ mRequestList' = Tail(mRequestList) /\ mProcessingRequest' = TRUE
      /\ UNCHANGED <<mInterfaceLock, op, moved, sessionVars, mInflightFrames,
                     poolVars, nextFrame, threadVars,
                     mProcessCaptureResultLock, clientVars, crashed>>
    BY DEF ThreadTakeRequest, Goto
<1>c. /\ Head(mRequestList) \in Frames /\ Head(mRequestList) < nextFrame
      /\ Tail(mRequestList) \in Seq(Frames)
      /\ \A i \in DOMAIN Tail(mRequestList) : Tail(mRequestList)[i] < nextFrame
      /\ \A i \in DOMAIN mRequestList :
            \/ mRequestList[i] = Head(mRequestList)
            \/ \E j \in DOMAIN Tail(mRequestList) : Tail(mRequestList)[j] = mRequestList[i]
    <2>1. Head(mRequestList) = mRequestList[1] /\ 1 \in DOMAIN mRequestList
        BY <1>a
    <2>2. \A i \in DOMAIN mRequestList \ {1} :
              i - 1 \in DOMAIN Tail(mRequestList)
              /\ Tail(mRequestList)[i - 1] = mRequestList[i]
        BY <1>a
    <2>3. \A i \in DOMAIN Tail(mRequestList) :
              i + 1 \in DOMAIN mRequestList /\ Tail(mRequestList)[i] = mRequestList[i + 1]
        BY <1>a
    <2>4. Tail(mRequestList) \in Seq(Frames) /\ Head(mRequestList) \in Frames
        BY <1>a
    <2> QED BY <2>1, <2>2, <2>3, <2>4 DEF IInv, AgeInv
<1>1. TypeOK'
    <2>1. cur' \in [Actors -> Frames \cup {None}] /\ mRequestList' \in Seq(Frames)
        BY <1>a, <1>b, <1>c DEF IInv, TypeOK
    <2>2. /\ pc' \in [Actors -> CallerPcs \cup ThreadPcs] /\ pc'[OT] \in ThreadPcs
          /\ \A d \in Callers : pc'[d] \in CallerPcs
        BY <1>a, <1>b DEF IInv, TypeOK, ThreadPcs, Actors
    <2> QED BY <1>b, <2>1, <2>2 DEF IInv, TypeOK, sessionVars, poolVars, threadVars,
            clientVars
<1>2. LockInv' /\ CurInv' /\ MovedInv'
    BY <1>a, <1>b, <1>c DEF IInv, TypeOK, LockInv, CurInv, MovedInv, LockedPcs,
       CallerPcs, Actors
<1>3. AgeInv' /\ SettledInv'
    BY <1>a, <1>b, <1>c DEF IInv, TypeOK, AgeInv, SettledInv, Actors
<1>4. DrainInv' /\ ThreadInv' /\ ClosedIsDrained'
    BY <1>a, <1>b, <1>c DEF IInv, TypeOK, DrainInv, ThreadInv, ClosedIsDrained, DrainPcs,
       Actors, sessionVars, threadVars
<1>5. InflightIsPending'
    <2> SUFFICES ASSUME NEW f \in mInflightFrames, Pending(f), f # None PROVE Pending(f)'
        BY <1>b, MaxFrameAssumption DEF IInv, TypeOK, InflightIsPending
    <2>1. CASE Queued(f)
        <3>1. cur'[OT] = Head(mRequestList)
            BY <1>a, <1>b DEF IInv, TypeOK
        <3>2. f = Head(mRequestList) \/ \E j \in DOMAIN mRequestList' : mRequestList'[j] = f
            BY <1>b, <1>c, <2>1 DEF Queued
        <3> QED BY <1>a, <3>1, <3>2 DEF Pending, Queued
    <2>2. CASE \E b \in Actors : cur[b] = f
        <3>1. PICK b \in Actors : cur[b] = f
            BY <2>2
        <3>2. cur'[b] = f
            BY <1>a, <1>b, <3>1 DEF IInv, TypeOK
        <3> QED BY <3>2 DEF Pending
    <2>3. CASE \E d \in Callers : \E i \in DOMAIN moved[d] : moved[d][i] = f
        BY <1>b, <2>3 DEF Pending
    <2> QED BY <2>1, <2>2, <2>3 DEF Pending
<1> QED BY <1>1, <1>2, <1>3, <1>4, <1>5 DEF IInv

(* The step ThreadExit keeps the invariant.                                *)
LEMMA ThreadExitStep ==
    ASSUME IInv, ThreadExit
    PROVE  IInv'
<1>1. TypeOK'
    BY DEF ThreadExit, IInv, At, Goto, workVars, sessionVars, poolVars,
       threadVars, queueVars, clientVars, stateVars, TypeOK, ThreadPcs, Actors
<1>2. LockInv' /\ CurInv' /\ MovedInv'
    BY DEF ThreadExit, IInv, At, Goto, workVars, stateVars, LockInv, CurInv,
       MovedInv
<1>3. AgeInv' /\ SettledInv'
    BY DEF ThreadExit, IInv, Goto, workVars, queueVars, stateVars, TypeOK,
       AgeInv, SettledInv, ThreadPcs
<1>4. DrainInv' /\ ThreadInv' /\ ClosedIsDrained'
    BY DEF ThreadExit, IInv, Goto, sessionVars, threadVars, queueVars,
       stateVars, DrainInv, ThreadInv, ClosedIsDrained
<1>5. InflightIsPending'
    BY RecordKept DEF ThreadExit, IInv, workVars, queueVars, stateVars
<1> QED BY <1>1, <1>2, <1>3, <1>4, <1>5 DEF IInv

(* The step ConvertSingle keeps the invariant.                             *)
LEMMA ConvertSingleStep ==
    ASSUME IInv, ConvertSingle
    PROVE  IInv'
<1>1. TypeOK'
    BY DEF ConvertSingle, IInv, Goto, workVars, sessionVars, poolVars,
       threadVars, queueVars, clientVars, stateVars, TypeOK, ThreadPcs, Actors
<1>2. LockInv' /\ CurInv' /\ MovedInv'
    BY DEF ConvertSingle, IInv, At, Goto, workVars, stateVars, LockInv,
       CurInv, MovedInv
<1>3. AgeInv' /\ SettledInv'
    BY DEF ConvertSingle, IInv, Goto, workVars, queueVars, stateVars, TypeOK,
       AgeInv, SettledInv, ThreadPcs
<1>4. DrainInv' /\ ThreadInv' /\ ClosedIsDrained'
    BY DEF ConvertSingle, IInv, At, Goto, sessionVars, threadVars, queueVars,
       stateVars, DrainInv, ThreadInv, ClosedIsDrained
<1>5. InflightIsPending'
    BY RecordKept DEF ConvertSingle, IInv, workVars, queueVars, stateVars
<1> QED BY <1>1, <1>2, <1>3, <1>4, <1>5 DEF IInv

(* The step ConvertPair keeps the invariant.                               *)
LEMMA ConvertPairStep ==
    ASSUME IInv, NEW usable \in 0 .. 2, NEW converted \in BOOLEAN,
           ConvertPair(usable, converted)
    PROVE  IInv'
<1>1. TypeOK'
    BY DEF ConvertPair, IInv, At, Goto, workVars, sessionVars, threadVars,
       queueVars, clientVars, TypeOK, CurInv, ThreadPcs, Actors, SlotStatus,
       Requests
<1>2. LockInv' /\ CurInv' /\ MovedInv'
    BY DEF ConvertPair, IInv, At, Goto, workVars, LockInv, CurInv, MovedInv
<1>3. AgeInv' /\ SettledInv'
    BY DEF ConvertPair, IInv, Goto, workVars, queueVars, TypeOK, AgeInv,
       SettledInv, ThreadPcs
<1>4. DrainInv' /\ ThreadInv' /\ ClosedIsDrained'
    BY DEF ConvertPair, IInv, At, Goto, sessionVars, threadVars, queueVars,
       DrainInv, ThreadInv, ClosedIsDrained
<1>5. InflightIsPending'
    BY RecordKept DEF ConvertPair, IInv, workVars, queueVars
<1> QED BY <1>1, <1>2, <1>3, <1>4, <1>5 DEF IInv

(* The step CaptureFenceTimeout keeps the invariant.                       *)
LEMMA CaptureFenceTimeoutStep ==
    ASSUME IInv, CaptureFenceTimeout
    PROVE  IInv'
<1>1. TypeOK'
    BY DEF CaptureFenceTimeout, IInv, workVars, sessionVars, poolVars,
       threadVars, queueVars, clientVars, TypeOK
<1>2. LockInv' /\ CurInv' /\ MovedInv'
    BY DEF CaptureFenceTimeout, IInv, workVars, LockInv, CurInv, MovedInv
<1>3. AgeInv' /\ SettledInv'
    BY DEF CaptureFenceTimeout, IInv, workVars, queueVars, AgeInv, SettledInv
<1>4. DrainInv' /\ ThreadInv' /\ ClosedIsDrained'
    BY DEF CaptureFenceTimeout, IInv, sessionVars, threadVars, queueVars,
       DrainInv, ThreadInv, ClosedIsDrained
<1>5. InflightIsPending'
    BY RecordKept DEF CaptureFenceTimeout, IInv, workVars, queueVars
<1> QED BY <1>1, <1>2, <1>3, <1>4, <1>5 DEF IInv

(* The step FillResult keeps the invariant.                                *)
LEMMA FillResultStep ==
    ASSUME IInv, FillResult
    PROVE  IInv'
<1>1. TypeOK'
    BY DEF FillResult, IInv, At, Goto, workVars, sessionVars, poolVars,
       threadVars, queueVars, clientVars, TypeOK, ThreadPcs, Actors
<1>2. LockInv' /\ CurInv' /\ MovedInv'
    BY DEF FillResult, IInv, At, Goto, workVars, LockInv, CurInv, MovedInv
<1>3. AgeInv' /\ SettledInv'
    BY DEF FillResult, IInv, Goto, workVars, queueVars, TypeOK, AgeInv,
       SettledInv, ThreadPcs
<1>4. DrainInv' /\ ThreadInv' /\ ClosedIsDrained'
    BY DEF FillResult, IInv, At, Goto, sessionVars, threadVars, queueVars,
       DrainInv, ThreadInv, ClosedIsDrained
<1>5. InflightIsPending'
    BY RecordKept DEF FillResult, IInv, workVars, queueVars
<1> QED BY <1>1, <1>2, <1>3, <1>4, <1>5 DEF IInv

(* The step ReportDeviceError keeps the invariant.                         *)
LEMMA ReportDeviceErrorStep ==
    ASSUME IInv, ReportDeviceError
    PROVE  IInv'
<1>1. TypeOK'
    BY DEF ReportDeviceError, IInv, At, Goto, workVars, sessionVars, poolVars,
       threadVars, queueVars, TypeOK, CurInv, CallerPcs, ThreadPcs, Actors,
       ErrorCodes
<1>2. LockInv' /\ CurInv' /\ MovedInv'
    BY DEF ReportDeviceError, IInv, At, Goto, workVars, LockInv, CurInv,
       MovedInv
<1>3. AgeInv' /\ SettledInv'
    BY DEF ReportDeviceError, IInv, Goto, workVars, queueVars, TypeOK, AgeInv,
       SettledInv, ThreadPcs
<1>4. DrainInv' /\ ThreadInv' /\ ClosedIsDrained'
    BY DEF ReportDeviceError, IInv, At, Goto, sessionVars, threadVars,
       queueVars, DrainInv, ThreadInv, ClosedIsDrained
<1>5. InflightIsPending'
    BY RecordKept DEF ReportDeviceError, IInv, workVars, queueVars
<1> QED BY <1>1, <1>2, <1>3, <1>4, <1>5 DEF IInv

(* The step SignalRequestDone keeps the invariant.                         *)
LEMMA SignalRequestDoneStep ==
    ASSUME IInv, SignalRequestDone
    PROVE  IInv'
<1>1. TypeOK'
    BY DEF SignalRequestDone, IInv, At, Goto, sessionVars, poolVars,
       threadVars, clientVars, TypeOK, CurInv, CallerPcs, ThreadPcs, Actors,
       Frames, Operations, SlotStatus, Requests, ErrorCodes
<1>2. LockInv' /\ CurInv' /\ MovedInv'
    BY DEF SignalRequestDone, IInv, Goto, TypeOK, LockInv, CurInv, MovedInv
<1>3. AgeInv' /\ SettledInv'
    BY DEF SignalRequestDone, IInv, Goto, TypeOK, AgeInv, SettledInv
<1>4. DrainInv' /\ ThreadInv' /\ ClosedIsDrained'
    BY DEF SignalRequestDone, IInv, At, Goto, sessionVars, threadVars,
       DrainInv, ThreadInv, ClosedIsDrained
<1>5. InflightIsPending'
    BY RecordDone DEF SignalRequestDone, IInv, At, TypeOK, CurInv, SettledInv,
       Actors
<1> QED BY <1>1, <1>2, <1>3, <1>4, <1>5 DEF IInv

-----------------------------------------------------------------------------
(* The theorems.                                                           *)

(* A session that initialize() has set up satisfies the invariant.         *)
LEMMA InitInvariant == Init => IInv
<1> SUFFICES ASSUME Init PROVE IInv
    OBVIOUS
<1>1. /\ op = [c \in Callers |-> "none"] /\ cur = [a \in Actors |-> None]
      /\ pc = [a \in Actors |-> IF a = OT THEN "wait" ELSE "idle"]
      /\ moved = [c \in Callers |-> <<>>]
      /\ interBuffers = [s \in Slots |-> "FREE"]
      /\ results = [f \in Frames |-> 0] /\ notified = [f \in Frames |-> {}]
    BY DEF Init
<1>2. /\ mInterfaceLock = None /\ mProcessCaptureResultLock = None
      /\ mCirculatingBuffers = {} /\ mInflightFrames = {}
      /\ nextFrame = 1 /\ mRequestList = <<>> /\ crashed = "no"
    BY DEF Init
<1>3. /\ mClosed = FALSE /\ mFirstRequest = FALSE /\ mOutputThread = TRUE
      /\ exitPending = FALSE /\ mProcessingRequest = FALSE
    BY DEF Init
<1>4. pc[OT] = "wait" /\ \A c \in Callers : pc[c] = "idle"
    BY <1>1 DEF Actors
<1>5. TypeOK
    <2>1. req \in [Frames -> Requests]
        BY DEF Init, NoRequest, Requests
    <2>2. /\ pc \in [Actors -> CallerPcs \cup ThreadPcs] /\ pc[OT] \in ThreadPcs
          /\ \A c \in Callers : pc[c] \in CallerPcs
        BY <1>1, <1>4 DEF CallerPcs, ThreadPcs, Actors
    <2>3. /\ op \in [Callers -> Operations \cup {"none"}]
          /\ cur \in [Actors -> Frames \cup {None}]
          /\ moved \in [Callers -> Seq(Frames)]
          /\ interBuffers \in [Slots -> SlotStatus]
          /\ results \in [Frames -> Nat]
          /\ notified \in [Frames -> SUBSET ErrorCodes]
        BY <1>1 DEF SlotStatus
    <2>4. /\ mInterfaceLock \in Callers \cup {None}
          /\ mProcessCaptureResultLock \in Actors \cup {None}
          /\ mCirculatingBuffers \in SUBSET Streams
          /\ mInflightFrames \in SUBSET Frames
          /\ nextFrame \in 1 .. MaxFrame + 1
          /\ mRequestList \in Seq(Frames)
          /\ crashed \in {"no", "fence_timeout", "dump"}
        BY <1>2
    <2>5. /\ mClosed \in BOOLEAN /\ mFirstRequest \in BOOLEAN
          /\ mOutputThread \in BOOLEAN /\ exitPending \in BOOLEAN
          /\ mProcessingRequest \in BOOLEAN
        BY <1>3
    <2> QED BY <2>1, <2>2, <2>3, <2>4, <2>5 DEF TypeOK
<1>6. LockInv /\ CurInv /\ MovedInv
    BY <1>1, <1>4 DEF LockInv, CurInv, MovedInv, LockedPcs, Actors
<1>7. AgeInv /\ SettledInv
    BY <1>1, <1>2 DEF AgeInv, SettledInv
<1>8. DrainInv
    BY <1>2, <1>3, <1>4 DEF DrainInv, DrainPcs
<1>9. ThreadInv /\ ClosedIsDrained
    BY <1>3, <1>4 DEF ThreadInv, ClosedIsDrained
<1>10. InflightIsPending
    BY <1>2 DEF InflightIsPending
<1> QED BY <1>5, <1>6, <1>7, <1>8, <1>9, <1>10 DEF IInv

(* So does a step in which nothing changes.                                *)
LEMMA StutterStep ==
    ASSUME IInv, UNCHANGED vars
    PROVE  IInv'
<1> USE DEF vars, stateVars, workVars, sessionVars, poolVars, threadVars,
            queueVars, clientVars
<1>1. TypeOK'
    BY DEF IInv, TypeOK
<1>2. LockInv' /\ CurInv' /\ MovedInv'
    BY DEF IInv, LockInv, CurInv, MovedInv
<1>3. AgeInv' /\ SettledInv'
    BY DEF IInv, AgeInv, SettledInv
<1>4. DrainInv' /\ ThreadInv' /\ ClosedIsDrained'
    BY DEF IInv, DrainInv, ThreadInv, ClosedIsDrained
<1>5. InflightIsPending'
    BY RecordKept DEF IInv
<1> QED BY <1>1, <1>2, <1>3, <1>4, <1>5 DEF IInv

(* And every step of a caller or of the OutputThread.                      *)
LEMMA NextInvariant == IInv /\ [Next]_vars => IInv'
<1> SUFFICES ASSUME IInv, [Next]_vars PROVE IInv'
    OBVIOUS
<1>1. ASSUME NEW a \in Actors, ReturnStep(a) PROVE IInv'
    BY <1>1, ReportRequestErrorStep, EnterCallbackStep, DropResultStep,
       DeliverResultStep DEF ReturnStep
<1>2. ASSUME NEW c \in Callers, CallStep(c) PROVE IInv'
    BY <1>1, <1>2, ConfigureRefusedStep, ConfigureAcceptedStep,
       PrepareRequestStep, EndBatchStep, TriggerRequestStep,
       SubmitRequestStep, FlushClosedStep, FlushStartStep, FlushWakeStep,
       FlushNextStep, FlushReturnStep, CloseRequestExitStep, CloseJoinStep,
       CloseFinishStep, DumpClosedStep, DumpOpenStep, DumpPrintStep,
       DumpNoThreadStep DEF CallStep, Actors
<1>3. CASE ThreadStep
    BY <1>1, <1>3, ThreadTakeRequestStep, ThreadExitStep, ConvertSingleStep,
       ConvertPairStep, CaptureFenceTimeoutStep, FillResultStep,
       ReportDeviceErrorStep, SignalRequestDoneStep DEF ThreadStep, Actors
<1>4. CASE UNCHANGED vars
    BY <1>4, StutterStep
<1> QED BY <1>2, <1>3, <1>4, EnterStep, DumpLockStep, DumpGiveUpStep DEF Next

(* The invariant holds in every reachable state.                           *)
THEOREM SessionInvariant == Spec => []IInv
<1> QED BY InitInvariant, NextInvariant, PTL DEF Spec

(* The session's fields and its threads' locals keep to their types.       *)
THEOREM TypeCorrect == Spec => []TypeOK
<1>1. IInv => TypeOK
    BY DEF IInv
<1> QED BY <1>1, SessionInvariant, PTL

(* The record of in-flight frames names only frames that are still on the  *)
(* request list, taken by a flush, or in the hands of a thread.            *)
THEOREM RecordCorrect == Spec => []InflightIsPending
<1>1. IInv => InflightIsPending
    BY DEF IInv
<1> QED BY <1>1, SessionInvariant, PTL

(* When close() has finished, the OutputThread has ended and no request or *)
(* in-flight frame is left.                                                *)
THEOREM CloseDrains == Spec => []ClosedIsDrained
<1>1. IInv => ClosedIsDrained
    BY DEF IInv
<1> QED BY <1>1, SessionInvariant, PTL

(* A closed session makes no callback: the three steps that report to the  *)
(* client are taken by the OutputThread, which has ended, or by a caller   *)
(* in flush() or close(), which finds the session closed.                  *)
THEOREM CloseSilences == Spec => QuietAfterClose
<1>1. ASSUME IInv, mClosed, [Next]_vars PROVE UNCHANGED clientVars
    <2>1. pc[OT] = "exited" /\ \A c \in Callers : pc[c] \notin DrainPcs
        BY <1>1 DEF IInv, ClosedIsDrained, DrainInv
    <2>2. \A a \in Actors : ~ReportRequestError(a) /\ ~DeliverResult(a)
        BY <2>1 DEF ReportRequestError, DeliverResult, At, Actors, DrainPcs
    <2>3. ~ReportDeviceError
        BY <2>1 DEF ReportDeviceError, At
    <2>4. ASSUME NEW a \in Actors, ReturnStep(a) PROVE UNCHANGED clientVars
        BY <2>2, <2>4 DEF ReturnStep, EnterCallback, DropResult, stateVars
    <2>5. ASSUME NEW c \in Callers, CallStep(c) PROVE UNCHANGED clientVars
        BY <2>4, <2>5 DEF CallStep, Actors, stateVars, ConfigureRefused,
           ConfigureAccepted, PrepareRequest, EndBatch, TriggerRequest,
           SubmitRequest, FlushClosed, FlushStart, FlushWake, FlushNext,
           FlushReturn, CloseRequestExit, CloseJoin, CloseFinish, DumpClosed,
           DumpOpen, DumpPrint, DumpNoThread
    <2>6. CASE ThreadStep
        BY <2>3, <2>4, <2>6 DEF ThreadStep, Actors, stateVars, ThreadTakeRequest,
           ThreadExit, ConvertSingle, ConvertPair, CaptureFenceTimeout,
           FillResult, SignalRequestDone
    <2>7. CASE UNCHANGED vars
        BY <2>7 DEF vars, stateVars
    <2> QED BY <1>1, <2>5, <2>6, <2>7 DEF Next, Enter, DumpLock, DumpGiveUp, stateVars
<1>2. IInv /\ [Next]_vars => [mClosed => UNCHANGED clientVars]_vars
    BY <1>1
<1> QED BY <1>2, SessionInvariant, PTL DEF Spec, QuietAfterClose
=============================================================================
