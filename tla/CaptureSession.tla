--------------------------- MODULE CaptureSession ---------------------------
(***************************************************************************)
(* One HDMI-RX camera session, HdmirxCameraDeviceSession of device 3.4:    *)
(* the binder threads that call it, its OutputThread, the request list     *)
(* between them, the pool of intermediate gralloc buffers and the record   *)
(* of in-flight frames.                                                    *)
(*                                                                         *)
(* A binder call holds mInterfaceLock from Enter to the step that makes    *)
(* its thread idle again; dumpState takes the same lock by tryLock and     *)
(* goes on without it when the tries run out.  mLock is not a variable:    *)
(* the section it protects is one step, or belongs to the one caller that  *)
(* holds mInterfaceLock.  Images, metadata and fences are abstracted to    *)
(* the outcome the control depends on (a wait that succeeds or times out,  *)
(* a conversion that works or fails).                                      *)
(***************************************************************************)
EXTENDS Naturals, Sequences, FiniteSets

CONSTANTS
    Callers,      \* binder threads that call into the session
    OT,           \* the session's OutputThread
    Slots,        \* interBuffers[0 .. GRALLOC_BUFFER_MAX_NUM - 1]
    Streams,      \* ids of the streams a client configures
    MaxFrame,     \* bound: frame numbers a client uses
    None          \* no thread, no frame, no buffer

Frames == 1 .. MaxFrame
Actors == Callers \cup {OT}

ASSUME ActorsAssumption == OT \notin Callers /\ None \notin Callers \cup {OT}
ASSUME SlotsAssumption == None \notin Slots
ASSUME MaxFrameAssumption == MaxFrame \in Nat \ {0} /\ None \notin Frames

VARIABLES
    mInterfaceLock,     \* owner of the interface lock, or None
    op,                 \* op[c]: the interface method caller c is in
    pc,                 \* pc[a]: where thread a is in the code
    cur,                \* cur[a]: the frame thread a works on
    moved,              \* moved[c]: the requests flush took from the list
    mClosed,            \* close() has finished
    mFirstRequest,      \* no request accepted since configureStreams
    mCirculatingBuffers,\* streams whose imported buffers are mapped
    mInflightFrames,    \* frame numbers accepted and not yet settled
    interBuffers,       \* status of every intermediate buffer
    req,                \* req[f]: the HalRequest of frame f
    nextFrame,          \* the frame number the client uses next
    mOutputThread,      \* the session still owns its OutputThread
    exitPending,        \* requestExit() was called on it
    mRequestList,       \* requests submitted and not yet taken
    mProcessingRequest, \* the OutputThread has taken one
    mProcessCaptureResultLock, \* owner of the result callback lock
    results,            \* results[f]: result callbacks the client got for f
    notified,           \* notified[f]: errors the client was told for f
    crashed             \* why the process died, or "no"

workVars    == <<cur, moved>>
sessionVars == <<mClosed, mFirstRequest, mCirculatingBuffers>>
poolVars    == <<interBuffers, req>>
threadVars  == <<mOutputThread, exitPending>>
queueVars   == <<mRequestList, mProcessingRequest>>
clientVars  == <<results, notified>>
stateVars   == <<sessionVars, mInflightFrames, poolVars, nextFrame, threadVars,
                 queueVars, mProcessCaptureResultLock, clientVars, crashed>>
vars == <<mInterfaceLock, op, pc, workVars, stateVars>>

SlotStatus == {"FREE", "DEQUEUED", "ENQUEUED"}
Operations == {"request", "configure", "flush", "close", "dump"}
ErrorCodes == {"ERROR_REQUEST", "ERROR_DEVICE"}
Requests   == [streams : SUBSET Streams, slot : Slots \cup {None},
               status : BOOLEAN]
NoRequest  == [streams |-> {}, slot |-> None, status |-> FALSE]

CallerPcs == {"idle", "request", "trigger", "submit", "configure", "flush",
              "flush_wait", "flush_drain", "error", "callback",
              "in_callback", "close_join", "close_finish",
              "dump_locked", "dump_unlocked", "dump_read", "dump_read_unlocked"}
ThreadPcs == {"wait", "convert", "error", "result", "callback",
              "in_callback", "device_error", "dying", "done", "exited"}

TypeOK ==
    /\ mInterfaceLock \in Callers \cup {None}
    /\ op \in [Callers -> Operations \cup {"none"}]
    /\ pc \in [Actors -> CallerPcs \cup ThreadPcs]
    /\ pc[OT] \in ThreadPcs
    /\ \A c \in Callers : pc[c] \in CallerPcs
    /\ cur \in [Actors -> Frames \cup {None}]
    /\ moved \in [Callers -> Seq(Frames)]
    /\ mClosed \in BOOLEAN /\ mFirstRequest \in BOOLEAN
    /\ mCirculatingBuffers \in SUBSET Streams
    /\ mInflightFrames \in SUBSET Frames
    /\ interBuffers \in [Slots -> SlotStatus]
    /\ req \in [Frames -> Requests]
    /\ nextFrame \in 1 .. MaxFrame + 1
    /\ mOutputThread \in BOOLEAN /\ exitPending \in BOOLEAN
    /\ mRequestList \in Seq(Frames) /\ mProcessingRequest \in BOOLEAN
    /\ mProcessCaptureResultLock \in Actors \cup {None}
    /\ results \in [Frames -> Nat]
    /\ notified \in [Frames -> SUBSET ErrorCodes]
    /\ crashed \in {"no", "fence_timeout", "dump"}

(* The session after a successful initialize(): every buffer free, the     *)
(* OutputThread running, no stream configured.                             *)
Init ==
    /\ mInterfaceLock = None
    /\ op = [c \in Callers |-> "none"]
    /\ pc = [a \in Actors |-> IF a = OT THEN "wait" ELSE "idle"]
    /\ cur = [a \in Actors |-> None]
    /\ moved = [c \in Callers |-> <<>>]
    /\ mClosed = FALSE /\ mFirstRequest = FALSE
    /\ mCirculatingBuffers = {}
    /\ mInflightFrames = {}
    /\ interBuffers = [s \in Slots |-> "FREE"]
    /\ req = [f \in Frames |-> NoRequest]
    /\ nextFrame = 1
    /\ mOutputThread = TRUE /\ exitPending = FALSE
    /\ mRequestList = <<>> /\ mProcessingRequest = FALSE
    /\ mProcessCaptureResultLock = None
    /\ results = [f \in Frames |-> 0]
    /\ notified = [f \in Frames |-> {}]
    /\ crashed = "no"

At(a, label)   == crashed = "no" /\ pc[a] = label
Goto(a, label) == pc' = [pc EXCEPT ![a] = label]

-----------------------------------------------------------------------------
(* Entering and leaving the methods that hold mInterfaceLock throughout.   *)

Enter(c, operation) ==
    /\ At(c, "idle")
    /\ mInterfaceLock = None
    /\ operation \in Operations \ {"dump"}
    /\ mInterfaceLock' = c
    /\ op' = [op EXCEPT ![c] = operation]
    /\ Goto(c, IF operation = "close" THEN "flush" ELSE operation)
    /\ UNCHANGED <<workVars, stateVars>>

(* What the end of a locked method does: Mutex::Autolock is destroyed.     *)
Leave(c) ==
    /\ mInterfaceLock' = None
    /\ op' = [op EXCEPT ![c] = "none"]
    /\ Goto(c, "idle")

-----------------------------------------------------------------------------
(* configureStreams                                                        *)

(* Refused: the session is closed, or frames are still in flight, or the   *)
(* stream combination is not one the device supports.                      *)
ConfigureRefused(c) ==
    /\ At(c, "configure")
    /\ Leave(c)
    /\ UNCHANGED <<workVars, stateVars>>

(* Fault: the frames in flight are not looked at.                          *)
ConfigureAccepted_InFlight(c, streams) ==
    /\ At(c, "configure")
    /\ ~mClosed
    /\ streams # {}
    /\ mCirculatingBuffers' = streams
    /\ mFirstRequest' = TRUE
    /\ Leave(c)
    /\ UNCHANGED <<workVars, mClosed, mInflightFrames, poolVars, nextFrame,
                   threadVars, queueVars, mProcessCaptureResultLock,
                   clientVars, crashed>>

(* Accepted: streams that are gone lose their imported buffers.            *)
ConfigureAccepted(c, streams) ==
    /\ At(c, "configure")
    /\ ~mClosed
    /\ streams # {}
    /\ mInflightFrames = {}
    /\ mCirculatingBuffers' = streams
    /\ mFirstRequest' = TRUE
    /\ Leave(c)
    /\ UNCHANGED <<workVars, mClosed, mInflightFrames, poolVars, nextFrame,
                   threadVars, queueVars, mProcessCaptureResultLock,
                   clientVars, crashed>>

-----------------------------------------------------------------------------
(* processCaptureRequest: every request of the batch in turn, in the three *)
(* steps other threads can fall between.                                   *)

(* Fault: a buffer that was used once is taken for a returned one.         *)
Available_AnyUsed ==
    LET used == {s \in Slots : interBuffers[s] # "FREE"}
    IN  IF used # {} THEN used ELSE Slots

(* getGrallocBufferIndex: a returned buffer is preferred to a free one.    *)
Available ==
    LET enqueued == {s \in Slots : interBuffers[s] = "ENQUEUED"}
    IN  IF enqueued # {} THEN enqueued
        ELSE {s \in Slots : interBuffers[s] = "FREE"}

(* One output buffer: it is the buffer the video is written to.  Two: an   *)
(* intermediate buffer is taken, allocated first where it is FREE or has   *)
(* another size.                                                           *)
PrepareRequest(c, streams, settings) ==
    /\ At(c, "request")
    /\ ~mClosed
    /\ nextFrame \in Frames
    /\ ~mFirstRequest \/ settings
    /\ streams \subseteq mCirculatingBuffers
    /\ \/ /\ Cardinality(streams) = 1
          /\ req' = [req EXCEPT ![nextFrame] =
                 [streams |-> streams, slot |-> None, status |-> TRUE]]
          /\ UNCHANGED interBuffers
       \/ /\ Cardinality(streams) = 2
          /\ \E s \in Available :
                /\ interBuffers' = [interBuffers EXCEPT ![s] = "DEQUEUED"]
                /\ req' = [req EXCEPT ![nextFrame] =
                       [streams |-> streams, slot |-> s, status |-> TRUE]]
    /\ cur' = [cur EXCEPT ![c] = nextFrame]
    /\ Goto(c, "trigger")
    /\ UNCHANGED <<mInterfaceLock, op, moved, sessionVars, mInflightFrames,
                   nextFrame, threadVars, queueVars,
                   mProcessCaptureResultLock, clientVars, crashed>>

(* The batch is finished, or a request of it is refused: bad arguments, a  *)
(* closed session, no settings on the first request, a buffer that cannot  *)
(* be imported, no intermediate buffer.  A failed allocation leaves the    *)
(* buffer FREE, also when the old memory had to be freed first; where that *)
(* free fails the buffer stays ENQUEUED.                                   *)
EndBatch(c) ==
    /\ At(c, "request")
    /\ Leave(c)
    /\ \/ UNCHANGED interBuffers
       \/ /\ ~mClosed
          /\ \E s \in Available :
                interBuffers' = [interBuffers EXCEPT ![s] = "FREE"]
    /\ UNCHANGED <<workVars, sessionVars, mInflightFrames, req, nextFrame,
                   threadVars, queueVars, mProcessCaptureResultLock,
                   clientVars, crashed>>

(* mdp_trigger, after the wait for a single buffer's acquire fence and the *)
(* queries of the video signal: status says whether all of it worked.  If  *)
(* not, an intermediate buffer goes back at once.                          *)
TriggerRequest(c, status) ==
    /\ At(c, "trigger")
    /\ LET f == cur[c] IN
       /\ req' = [req EXCEPT ![f].status = status]
       /\ interBuffers' = IF ~status /\ req[f].slot # None
                          THEN [interBuffers EXCEPT ![req[f].slot] = "ENQUEUED"]
                          ELSE interBuffers
       /\ mInflightFrames' = mInflightFrames \cup {f}
    /\ nextFrame' = nextFrame + 1
    /\ Goto(c, "submit")
    /\ UNCHANGED <<mInterfaceLock, op, workVars, sessionVars, threadVars,
                   queueVars, mProcessCaptureResultLock, clientVars, crashed>>

SubmitRequest(c) ==
    /\ At(c, "submit")
    /\ mRequestList' = Append(mRequestList, cur[c])
    /\ mFirstRequest' = FALSE
    /\ cur' = [cur EXCEPT ![c] = None]
    /\ Goto(c, "request")
    /\ UNCHANGED <<mInterfaceLock, op, moved, mClosed, mCirculatingBuffers,
                   mInflightFrames, poolVars, nextFrame, threadVars,
                   mProcessingRequest, mProcessCaptureResultLock, clientVars,
                   crashed>>

-----------------------------------------------------------------------------
(* Returning a request to the client: processCaptureRequestError, the tail *)
(* of processCaptureResult, and invokeProcessCaptureResultCallback, on     *)
(* whichever thread runs them.                                             *)

(* Fault: the label after a callback does not depend on the thread.        *)
AfterCallback_SameForAll(a) == "flush_drain"

AfterCallback(a) == IF a = OT THEN "done" ELSE "flush_drain"

(* Shutter and ERROR_REQUEST; notifyError drops the in-flight record.      *)
ReportRequestError(a) ==
    /\ At(a, "error")
    /\ notified' = [notified EXCEPT ![cur[a]] = @ \cup {"ERROR_REQUEST"}]
    /\ mInflightFrames' = mInflightFrames \ {cur[a]}
    /\ Goto(a, "callback")
    /\ UNCHANGED <<mInterfaceLock, op, workVars, sessionVars, poolVars,
                   nextFrame, threadVars, queueVars,
                   mProcessCaptureResultLock, results, crashed>>

EnterCallback(a) ==
    /\ At(a, "callback")
    /\ mProcessCaptureResultLock = None
    /\ mProcessCaptureResultLock' = a
    /\ Goto(a, "in_callback")
    /\ UNCHANGED <<mInterfaceLock, op, workVars, sessionVars, mInflightFrames,
                   poolVars, nextFrame, threadVars, queueVars, clientVars,
                   crashed>>

(* Another thread is in the callback for a second: the result is dropped.  *)
DropResult(a) ==
    /\ At(a, "callback")
    /\ mProcessCaptureResultLock # None
    /\ cur' = [cur EXCEPT ![a] = None]
    /\ Goto(a, AfterCallback(a))
    /\ UNCHANGED <<mInterfaceLock, op, moved, stateVars>>

DeliverResult(a) ==
    /\ At(a, "in_callback")
    /\ results' = [results EXCEPT ![cur[a]] = @ + 1]
    /\ mProcessCaptureResultLock' = None
    /\ cur' = [cur EXCEPT ![a] = None]
    /\ Goto(a, AfterCallback(a))
    /\ UNCHANGED <<mInterfaceLock, op, moved, sessionVars, mInflightFrames,
                   poolVars, nextFrame, threadVars, queueVars, notified,
                   crashed>>

-----------------------------------------------------------------------------
(* flush() and close()                                                     *)

(* Neither does anything to a closed session.                              *)
FlushClosed(c) ==
    /\ At(c, "flush")
    /\ mClosed
    /\ Leave(c)
    /\ UNCHANGED <<workVars, stateVars>>

(* Fault: the requests are copied from the list, not moved.                *)
FlushStart_Copies(c) ==
    /\ At(c, "flush")
    /\ ~mClosed
    /\ moved' = [moved EXCEPT ![c] = mRequestList]
    /\ Goto(c, IF mProcessingRequest THEN "flush_wait" ELSE "flush_drain")
    /\ UNCHANGED <<mInterfaceLock, op, cur, sessionVars, mInflightFrames,
                   poolVars, nextFrame, threadVars, queueVars,
                   mProcessCaptureResultLock, clientVars, crashed>>

(* Fault: the list is cleared where it should be moved.                    *)
FlushStart_Clears(c) ==
    /\ At(c, "flush")
    /\ ~mClosed
    /\ mRequestList' = <<>>
    /\ Goto(c, IF mProcessingRequest THEN "flush_wait" ELSE "flush_drain")
    /\ UNCHANGED <<mInterfaceLock, op, workVars, sessionVars, mInflightFrames,
                   poolVars, nextFrame, threadVars, mProcessingRequest,
                   mProcessCaptureResultLock, clientVars, crashed>>

FlushStart(c) ==
    /\ At(c, "flush")
    /\ ~mClosed
    /\ moved' = [moved EXCEPT ![c] = mRequestList]
    /\ mRequestList' = <<>>
    /\ Goto(c, IF mProcessingRequest THEN "flush_wait" ELSE "flush_drain")
    /\ UNCHANGED <<mInterfaceLock, op, cur, sessionVars, mInflightFrames,
                   poolVars, nextFrame, threadVars, mProcessingRequest,
                   mProcessCaptureResultLock, clientVars, crashed>>

(* The wait has no predicate: mRequestDoneCond, three seconds or a         *)
(* spurious wake-up ends it, so it may end while a request is processed.   *)
FlushWake(c) ==
    /\ At(c, "flush_wait")
    /\ Goto(c, "flush_drain")
    /\ UNCHANGED <<mInterfaceLock, op, workVars, stateVars>>

(* One by one the requests taken from the list are returned as errors.     *)
FlushNext(c) ==
    /\ At(c, "flush_drain")
    /\ moved[c] # <<>>
    /\ cur' = [cur EXCEPT ![c] = Head(moved[c])]
    /\ moved' = [moved EXCEPT ![c] = Tail(moved[c])]
    /\ Goto(c, "error")
    /\ UNCHANGED <<mInterfaceLock, op, stateVars>>

FlushReturn(c) ==
    /\ At(c, "flush_drain")
    /\ op[c] = "flush"
    /\ moved[c] = <<>>
    /\ Leave(c)
    /\ UNCHANGED <<workVars, stateVars>>

(* Fault: the thread is joined without having been asked to exit.          *)
CloseRequestExit_NotAsked(c) ==
    /\ At(c, "flush_drain")
    /\ op[c] = "close"
    /\ moved[c] = <<>>
    /\ Goto(c, "close_join")
    /\ UNCHANGED <<mInterfaceLock, op, workVars, stateVars>>

(* Fault: close() goes on before the flushed requests are returned.        *)
CloseRequestExit_Undrained(c) ==
    /\ At(c, "flush_drain")
    /\ op[c] = "close"
    /\ exitPending' = TRUE
    /\ Goto(c, "close_join")
    /\ UNCHANGED <<mInterfaceLock, op, workVars, sessionVars, mInflightFrames,
                   poolVars, nextFrame, mOutputThread, queueVars,
                   mProcessCaptureResultLock, clientVars, crashed>>

(* close() goes on: the OutputThread is asked to exit and joined, then the *)
(* imported buffers of every stream are freed.                             *)
CloseRequestExit(c) ==
    /\ At(c, "flush_drain")
    /\ op[c] = "close"
    /\ moved[c] = <<>>
    /\ exitPending' = TRUE
    /\ Goto(c, "close_join")
    /\ UNCHANGED <<mInterfaceLock, op, workVars, sessionVars, mInflightFrames,
                   poolVars, nextFrame, mOutputThread, queueVars,
                   mProcessCaptureResultLock, clientVars, crashed>>

CloseJoin(c) ==
    /\ At(c, "close_join")
    /\ pc[OT] = "exited"
    /\ mOutputThread' = FALSE
    /\ Goto(c, "close_finish")
    /\ UNCHANGED <<mInterfaceLock, op, workVars, sessionVars, mInflightFrames,
                   poolVars, nextFrame, exitPending, queueVars,
                   mProcessCaptureResultLock, clientVars, crashed>>

CloseFinish(c) ==
    /\ At(c, "close_finish")
    /\ mCirculatingBuffers' = {}
    /\ mClosed' = TRUE
    /\ Leave(c)
    /\ UNCHANGED <<workVars, mFirstRequest, mInflightFrames, poolVars,
                   nextFrame, threadVars, queueVars,
                   mProcessCaptureResultLock, clientVars, crashed>>

-----------------------------------------------------------------------------
(* dumpState                                                               *)

(* tryLock succeeds.                                                       *)
DumpLock(c) ==
    /\ At(c, "idle")
    /\ mInterfaceLock = None
    /\ mInterfaceLock' = c
    /\ op' = [op EXCEPT ![c] = "dump"]
    /\ Goto(c, "dump_locked")
    /\ UNCHANGED <<workVars, stateVars>>

(* Others held the lock during all 50 tries: dumpState goes on without it. *)
DumpGiveUp(c) ==
    /\ At(c, "idle")
    /\ mInterfaceLock # None
    /\ op' = [op EXCEPT ![c] = "dump"]
    /\ Goto(c, "dump_unlocked")
    /\ UNCHANGED <<mInterfaceLock, workVars, stateVars>>

(* On a closed session dumpState returns at once, lock or no lock.         *)
DumpClosed(c) ==
    /\ crashed = "no" /\ pc[c] \in {"dump_locked", "dump_unlocked"}
    /\ mClosed
    /\ op' = [op EXCEPT ![c] = "none"]
    /\ Goto(c, "idle")
    /\ UNCHANGED <<mInterfaceLock, workVars, stateVars>>

DumpOpen(c) ==
    /\ crashed = "no" /\ pc[c] \in {"dump_locked", "dump_unlocked"}
    /\ ~mClosed
    /\ Goto(c, IF pc[c] = "dump_locked" THEN "dump_read" ELSE "dump_read_unlocked")
    /\ UNCHANGED <<mInterfaceLock, op, workVars, stateVars>>

DumpPrint(c) ==
    /\ crashed = "no" /\ pc[c] \in {"dump_read", "dump_read_unlocked"}
    /\ mOutputThread
    /\ mInterfaceLock' = IF pc[c] = "dump_read" THEN None ELSE mInterfaceLock
    /\ op' = [op EXCEPT ![c] = "none"]
    /\ Goto(c, "idle")
    /\ UNCHANGED <<workVars, stateVars>>

(* mOutputThread->dump(fd) through the pointer that close() has cleared.   *)
DumpNoThread(c) ==
    /\ crashed = "no" /\ pc[c] \in {"dump_read", "dump_read_unlocked"}
    /\ ~mOutputThread
    /\ crashed' = "dump"
    /\ UNCHANGED <<mInterfaceLock, op, pc, workVars, sessionVars,
                   mInflightFrames, poolVars, nextFrame, threadVars,
                   queueVars, mProcessCaptureResultLock, clientVars>>

-----------------------------------------------------------------------------
(* OutputThread::threadLoop                                                *)

ThreadTakeRequest ==
    /\ At(OT, "wait")
    /\ mRequestList # <<>>
    /\ cur' = [cur EXCEPT ![OT] = Head(mRequestList)]
    /\ mRequestList' = Tail(mRequestList)
    /\ mProcessingRequest' = TRUE
    /\ Goto(OT, IF req[Head(mRequestList)].status THEN "convert" ELSE "error")
    /\ UNCHANGED <<mInterfaceLock, op, moved, sessionVars, mInflightFrames,
                   poolVars, nextFrame, threadVars, mProcessCaptureResultLock,
                   clientVars, crashed>>

ThreadExit ==
    /\ At(OT, "wait")
    /\ exitPending
    /\ Goto(OT, "exited")
    /\ UNCHANGED <<mInterfaceLock, op, workVars, stateVars>>

(* A request with one output buffer has its image already.                 *)
ConvertSingle ==
    /\ At(OT, "convert")
    /\ req[cur[OT]].slot = None
    /\ Goto(OT, "result")
    /\ UNCHANGED <<mInterfaceLock, op, workVars, stateVars>>

(* Two output buffers, of which usable have their acquire fence in time.   *)
(* With none the request is returned as an error; with one, the conversion *)
(* mdp_1in1out refuses the RGB image it is given; with two it may work.    *)
(* After a conversion, whatever its outcome, the intermediate buffer goes  *)
(* back.                                                                   *)
ConvertPair(usable, converted) ==
    /\ At(OT, "convert")
    /\ req[cur[OT]].slot # None
    /\ converted => usable = 2
    /\ Goto(OT, IF usable = 0 THEN "error"
                ELSE IF converted THEN "result" ELSE "device_error")
    /\ interBuffers' = IF usable = 0 THEN interBuffers
                       ELSE [interBuffers EXCEPT ![req[cur[OT]].slot] = "ENQUEUED"]
    /\ UNCHANGED <<mInterfaceLock, op, workVars, sessionVars, mInflightFrames,
                   req, nextFrame, threadVars, queueVars,
                   mProcessCaptureResultLock, clientVars, crashed>>

(* The fence of the capture itself times out: req is reset and the error   *)
(* report that follows reads its frame number.                             *)
CaptureFenceTimeout ==
    /\ At(OT, "convert")
    /\ req[cur[OT]].slot # None
    /\ crashed' = "fence_timeout"
    /\ UNCHANGED <<mInterfaceLock, op, pc, workVars, sessionVars,
                   mInflightFrames, poolVars, nextFrame, threadVars,
                   queueVars, mProcessCaptureResultLock, clientVars>>

(* processCaptureResult up to the callback: the shutter, and the end of    *)
(* the in-flight record.  A request that gets here has both its buffers,   *)
(* so the ERROR_BUFFER branch is not taken.                                *)
FillResult ==
    /\ At(OT, "result")
    /\ mInflightFrames' = mInflightFrames \ {cur[OT]}
    /\ Goto(OT, "callback")
    /\ UNCHANGED <<mInterfaceLock, op, workVars, sessionVars, poolVars,
                   nextFrame, threadVars, queueVars,
                   mProcessCaptureResultLock, clientVars, crashed>>

(* Fault: the client is told, but the frame stays on the record.           *)
ReportDeviceError_KeepsRecord ==
    /\ At(OT, "device_error")
    /\ notified' = [notified EXCEPT ![cur[OT]] = @ \cup {"ERROR_DEVICE"}]
    /\ Goto(OT, "dying")
    /\ UNCHANGED <<mInterfaceLock, op, workVars, sessionVars, mInflightFrames,
                   poolVars, nextFrame, threadVars, queueVars,
                   mProcessCaptureResultLock, results, crashed>>

(* onDeviceError: the client is told, the request is dropped, the thread   *)
(* ends.                                                                   *)
ReportDeviceError ==
    /\ At(OT, "device_error")
    /\ notified' = [notified EXCEPT ![cur[OT]] = @ \cup {"ERROR_DEVICE"}]
    /\ mInflightFrames' = mInflightFrames \ {cur[OT]}
    /\ Goto(OT, "dying")
    /\ UNCHANGED <<mInterfaceLock, op, workVars, sessionVars, poolVars,
                   nextFrame, threadVars, queueVars,
                   mProcessCaptureResultLock, results, crashed>>

SignalRequestDone ==
    /\ At(OT, "done") \/ At(OT, "dying")
    /\ mProcessingRequest' = FALSE
    /\ cur' = [cur EXCEPT ![OT] = None]
    /\ Goto(OT, IF pc[OT] = "dying" THEN "exited" ELSE "wait")
    /\ UNCHANGED <<mInterfaceLock, op, moved, sessionVars, mInflightFrames,
                   poolVars, nextFrame, threadVars, mRequestList,
                   mProcessCaptureResultLock, clientVars, crashed>>

-----------------------------------------------------------------------------
ReturnStep(a) ==
    ReportRequestError(a) \/ EnterCallback(a) \/ DropResult(a) \/ DeliverResult(a)

CallStep(c) ==
    \/ ConfigureRefused(c)
    \/ \E streams \in SUBSET Streams : ConfigureAccepted(c, streams)
    \/ \E streams \in SUBSET Streams, settings \in BOOLEAN :
          PrepareRequest(c, streams, settings)
    \/ EndBatch(c)
    \/ \E status \in BOOLEAN : TriggerRequest(c, status)
    \/ SubmitRequest(c)
    \/ FlushClosed(c) \/ FlushStart(c) \/ FlushWake(c) \/ FlushNext(c)
    \/ FlushReturn(c) \/ CloseRequestExit(c) \/ CloseJoin(c) \/ CloseFinish(c)
    \/ DumpClosed(c) \/ DumpOpen(c) \/ DumpPrint(c) \/ DumpNoThread(c)
    \/ ReturnStep(c)

ThreadStep ==
    \/ ThreadTakeRequest \/ ThreadExit \/ ConvertSingle
    \/ \E usable \in 0 .. 2, converted \in BOOLEAN : ConvertPair(usable, converted)
    \/ CaptureFenceTimeout
    \/ FillResult \/ ReportDeviceError \/ SignalRequestDone
    \/ ReturnStep(OT)

Next ==
    \/ \E c \in Callers :
          \/ \E operation \in Operations \ {"dump"} : Enter(c, operation)
          \/ DumpLock(c) \/ DumpGiveUp(c)
          \/ CallStep(c)
    \/ ThreadStep

Spec == Init /\ [][Next]_vars

(* Threads keep running: every wait inside a call and inside threadLoop    *)
(* has a timeout.  Nobody has to call the session.                         *)
FairSpec == Spec /\ WF_vars(ThreadStep) /\ \A c \in Callers : WF_vars(CallStep(c))

-----------------------------------------------------------------------------
(* Properties                                                              *)

(* An accepted request is on its way: on the request list, among the       *)
(* requests a flush has taken, or in the hands of a thread.                *)
Queued(f)  == \E i \in DOMAIN mRequestList : mRequestList[i] = f
Pending(f) == \/ Queued(f)
              \/ \E c \in Callers : \E i \in DOMAIN moved[c] : moved[c][i] = f
              \/ \E a \in Actors : cur[a] = f

(* The request list, flush and the OutputThread never give one request to  *)
(* two threads: no frame is in two of these places, or twice in one.       *)
SingleOwner ==
    LET Places(f) ==
            {<<"list", i>> : i \in {j \in DOMAIN mRequestList : mRequestList[j] = f}}
            \cup (UNION {{<<c, i>> : i \in {j \in DOMAIN moved[c] : moved[c][j] = f}}
                            : c \in Callers})
            \cup {<<a, 0>> : a \in {b \in Actors : cur[b] = f}}
    IN  \A f \in Frames : Cardinality(Places(f)) <= 1

(* Every frame recorded as in flight is still on its way to the client, so *)
(* the check that makes configureStreams refuse does not go stale: a       *)
(* number left behind would refuse every later configuration.              *)
InflightIsPending == \A f \in mInflightFrames : Pending(f)

(* A request up to the end of its conversion.                              *)
InUse(f) ==
    \/ Queued(f)
    \/ \E a \in Actors : cur[a] = f /\ pc[a] \in {"trigger", "submit", "convert"}

(* The video of two requests never meets in one intermediate buffer: the   *)
(* buffer of a triggered request is DEQUEUED until its conversion is over, *)
(* and is that request's alone.                                            *)
SlotsExclusive ==
    \A f \in Frames : InUse(f) /\ req[f].status /\ req[f].slot # None =>
        /\ interBuffers[req[f].slot] = "DEQUEUED"
        /\ \A g \in Frames \ {f} :
              InUse(g) /\ req[g].status => req[g].slot # req[f].slot

(* Neither configureStreams nor close unmaps the imported buffers of a     *)
(* request that the OutputThread has still to fill: bufPtr points into     *)
(* mCirculatingBuffers.                                                    *)
BuffersStayMapped ==
    \A f \in Frames : InUse(f) => req[f].streams \subseteq mCirculatingBuffers

(* A closed session has no thread, no request and no in-flight frame left. *)
ClosedIsDrained ==
    mClosed => /\ pc[OT] = "exited"
               /\ mRequestList = <<>> /\ mInflightFrames = {}

(* Once close() has finished the client hears nothing more of the session. *)
QuietAfterClose == [][mClosed => UNCHANGED clientVars]_vars

Contract == INSTANCE CaptureContract WITH
    state <- [f \in Frames |->
                IF f >= nextFrame THEN "unused"
                ELSE IF results[f] > 0 THEN "returned"
                ELSE IF Pending(f) THEN "accepted"
                ELSE "lost"],
    returns <- results,
    open <- ~mClosed

(* The session keeps the contract of a capture session: see there.         *)
KeepsContract == Contract!Spec

(* Every call that is let in comes back, whatever the OutputThread is      *)
(* doing: flush() waits for it three seconds at most, close() joins it     *)
(* only after asking it to exit.                                           *)
CallsReturn ==
    \A c \in Callers : op[c] # "none" ~> op[c] = "none" \/ crashed # "no"

(* A frame does not stay in flight for ever, unless the OutputThread has   *)
(* ended with a device error.                                              *)
FramesSettle ==
    \A f \in Frames :
        f \in mInflightFrames ~>
            f \notin mInflightFrames \/ pc[OT] = "exited" \/ crashed # "no"

(* mInterfaceLock protects interface methods "from synchronized-entering": *)
(* it is held only while a method, or a dump, is in progress.              *)
LockHeldInsideCalls == mInterfaceLock # None => op[mInterfaceLock] # "none"

(* The destructor's warning that a buffer "is in dequeued" has no occasion:*)
(* a session that is closed has got every intermediate buffer back.        *)
PoolIsWhole == mClosed => \A s \in Slots : interBuffers[s] # "DEQUEUED"

(* A capture whose fence times out is reported ("sync wait timeout") as a  *)
(* device error; the process lives on.                                     *)
FenceTimeoutIsReported == crashed # "fence_timeout"
=============================================================================
