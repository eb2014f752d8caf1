---------------------- MODULE CaptureOwnership_proofs ----------------------
(***************************************************************************)
(* Proofs about CaptureSession: who has a request, which buffers it has,   *)
(* and that a session implements CaptureContract.  They rest on the        *)
(* invariant of CaptureSession_proofs.                                     *)
(***************************************************************************)
EXTENDS CaptureSession_proofs, FiniteSetTheorems

USE ActorsAssumption, SlotsAssumption, MaxFrameAssumption

-----------------------------------------------------------------------------
(* The inductive invariant.                                                *)

(* A frame is in one place: in the list or in what a flush has taken, at   *)
(* one index, or in the hands of one thread.                               *)
OwnerInv ==
    /\ \A i, j \in DOMAIN mRequestList : mRequestList[i] = mRequestList[j] => i = j
    /\ \A c \in Callers : \A i, j \in DOMAIN moved[c] : moved[c][i] = moved[c][j] => i = j
    /\ \A i \in DOMAIN mRequestList, a \in Actors : mRequestList[i] # cur[a]
    /\ \A c \in Callers, a \in Actors : \A i \in DOMAIN moved[c] : moved[c][i] # cur[a]
    /\ \A a, b \in Actors : cur[a] = cur[b] /\ cur[a] # None => a = b

(* A thread at one of these labels works on its request's buffers.         *)
UsingPcs == {"trigger", "submit", "convert"}

(* A triggered request is on the record until it is converted or reported. *)
RecordInv ==
    /\ \A i \in DOMAIN mRequestList : mRequestList[i] \in mInflightFrames
    /\ \A a \in Actors : pc[a] \in {"submit", "convert"} => cur[a] \in mInflightFrames

(* A request that is about to be triggered or converted has not failed.    *)
TriggerInv == \A a \in Actors : pc[a] \in {"trigger", "convert"} => req[cur[a]].status

(* A frame that is not out yet, or on its way, has not been returned.      *)
ResultInv == \A f \in Frames : f >= nextFrame \/ Pending(f) => results[f] = 0

OwnedInv == OwnerInv /\ RecordInv /\ TriggerInv /\ SlotsExclusive /\ BuffersStayMapped /\ ResultInv

-----------------------------------------------------------------------------
(* Facts about states.                                                     *)

(* Beside the caller that has mInterfaceLock, no caller has a request.     *)
LEMMA Alone ==
    ASSUME IInv, NEW c \in Callers, pc[c] \in LockedPcs, NEW d \in Callers, d # c
    PROVE  pc[d] \notin LockedPcs /\ cur[d] = None /\ moved[d] = <<>>
<1>1. pc[d] \notin LockedPcs
    BY DEF IInv, LockInv
<1> QED BY <1>1 DEF IInv, TypeOK, CurInv, MovedInv, LockedPcs, CallerPcs

(* The places of a thread: callers are never at the labels of the other.   *)
LEMMA Places ==
    ASSUME IInv
    PROVE  /\ \A c \in Callers : c \in Actors /\ c # OT /\ pc[c] # "convert"
           /\ OT \in Actors /\ pc[OT] \notin {"trigger", "submit"}
           /\ \A a \in Actors : pc[a] \in UsingPcs => cur[a] \in Frames
BY DEF IInv, TypeOK, CurInv, CallerPcs, ThreadPcs, Actors, UsingPcs

(* A frame in use is on its way.                                           *)
LEMMA InUsePending ==
    ASSUME NEW f, InUse(f) PROVE Pending(f)
BY DEF InUse, Pending

(* Frames on their way are frames, and older than the next, but for the    *)
(* one a caller is about to trigger.                                       *)
LEMMA PendingAge ==
    ASSUME IInv, NEW f \in Frames, Pending(f)
    PROVE  f < nextFrame \/ \E c \in Callers : pc[c] = "trigger" /\ cur[c] = f /\ f = nextFrame
<1>1. \A a \in Actors : cur[a] = f =>
          f < nextFrame \/ \E c \in Callers : pc[c] = "trigger" /\ cur[c] = f /\ f = nextFrame
  <2> SUFFICES ASSUME NEW a \in Actors, cur[a] = f, ~(f < nextFrame)
               PROVE  a \in Callers /\ pc[a] = "trigger" /\ f = nextFrame
      OBVIOUS
  <2>1. pc[a] = "trigger"
      BY DEF IInv, AgeInv
  <2>2. a \in Callers
      BY <2>1, Places DEF Actors
  <2> QED BY <2>1, <2>2 DEF IInv, CurInv
<1> QED BY <1>1 DEF IInv, AgeInv, Pending, Queued

-----------------------------------------------------------------------------
(* What a step that moves nothing keeps.                                   *)

LEMMA OwnerKept ==
    ASSUME OwnerInv, UNCHANGED <<mRequestList, moved, cur>> PROVE OwnerInv'
BY DEF OwnerInv

(* No thread comes to a label where it uses the buffers of its request.    *)
NoNewUse == \A a \in Actors : pc'[a] \in UsingPcs => pc'[a] = pc[a]

LEMMA InUseKept ==
    ASSUME UNCHANGED <<mRequestList, cur>>, NoNewUse, NEW f, InUse(f)'
    PROVE  InUse(f)
BY DEF InUse, Queued, NoNewUse, UsingPcs

LEMMA RecordInvKept ==
    ASSUME RecordInv, NoNewUse, UNCHANGED <<mRequestList, cur, mInflightFrames>>
    PROVE  RecordInv'
BY DEF RecordInv, NoNewUse, UsingPcs

LEMMA TriggerInvKept ==
    ASSUME TriggerInv, NoNewUse, UNCHANGED <<cur, req>>
    PROVE  TriggerInv'
BY DEF TriggerInv, NoNewUse, UsingPcs, Actors

(* Buffers that are DEQUEUED stay so, and no frame comes into use.         *)
LEMMA SlotsKept ==
    ASSUME SlotsExclusive, UNCHANGED req,
           \A f \in Frames : InUse(f)' => InUse(f),
           \A s \in Slots : interBuffers[s] = "DEQUEUED" => interBuffers'[s] = "DEQUEUED",
           req \in [Frames -> Requests]
    PROVE  SlotsExclusive'
<1> SUFFICES ASSUME NEW f \in Frames, InUse(f)', req[f].status, req[f].slot # None
             PROVE  /\ interBuffers'[req[f].slot] = "DEQUEUED"
                    /\ \A g \in Frames \ {f} :
                          InUse(g)' /\ req[g].status => req[g].slot # req[f].slot
    BY DEF SlotsExclusive
<1>1. req[f].slot \in Slots
    BY DEF Requests
<1>2. InUse(f) /\ \A g \in Frames : InUse(g)' => InUse(g)
    OBVIOUS
<1> QED BY <1>1, <1>2 DEF SlotsExclusive

LEMMA MappedKept ==
    ASSUME BuffersStayMapped, UNCHANGED <<req, mCirculatingBuffers>>,
           \A f \in Frames : InUse(f)' => InUse(f)
    PROVE  BuffersStayMapped'
BY DEF BuffersStayMapped

LEMMA ResultKept ==
    ASSUME ResultInv, UNCHANGED <<nextFrame, results>>,
           \A f \in Frames : Pending(f)' => Pending(f)
    PROVE  ResultInv'
BY DEF ResultInv

LEMMA PendingSame ==
    ASSUME UNCHANGED <<mRequestList, moved, cur>>
    PROVE  \A f : Pending(f)' = Pending(f)
BY DEF Pending, Queued

-----------------------------------------------------------------------------
(* Each action keeps the invariant.                                        *)

ownedVars == <<mRequestList, moved, cur, req, mCirculatingBuffers, interBuffers,
               mInflightFrames, nextFrame, results>>

(* A step of a thread that only goes from label to label.                  *)
LEMMA LabelStep ==
    ASSUME IInv, OwnedInv, NoNewUse, UNCHANGED ownedVars PROVE OwnedInv'
<1>1. \A f \in Frames : InUse(f)' => InUse(f)
    BY InUseKept DEF ownedVars
<1>2. OwnerInv' /\ RecordInv' /\ TriggerInv'
    BY OwnerKept, RecordInvKept, TriggerInvKept DEF OwnedInv, ownedVars
<1>3. SlotsExclusive' /\ BuffersStayMapped'
    BY <1>1, SlotsKept, MappedKept DEF IInv, TypeOK, OwnedInv, ownedVars
<1>4. ResultInv'
    BY PendingSame, ResultKept DEF OwnedInv, ownedVars
<1> QED BY <1>2, <1>3, <1>4 DEF OwnedInv

LEMMA LabelActions ==
    ASSUME IInv, OwnedInv, NEW c \in Callers,
           \/ \E operation \in Operations \ {"dump"} : Enter(c, operation)
           \/ ConfigureRefused(c) \/ FlushClosed(c) \/ FlushWake(c) \/ FlushReturn(c)
           \/ CloseRequestExit(c) \/ CloseJoin(c)
           \/ DumpLock(c) \/ DumpGiveUp(c) \/ DumpClosed(c) \/ DumpOpen(c) \/ DumpPrint(c)
           \/ DumpNoThread(c)
    PROVE  OwnedInv'
<1>1. UNCHANGED ownedVars
    BY DEF Enter, ConfigureRefused, FlushClosed, FlushWake, FlushReturn, CloseRequestExit,
       CloseJoin, DumpLock, DumpGiveUp, DumpClosed, DumpOpen, DumpPrint, DumpNoThread, ownedVars,
       workVars, stateVars, sessionVars, poolVars, queueVars, clientVars
<1>2. \A a \in Actors : pc'[a] = pc[a] \/ pc'[a] \notin UsingPcs
    BY DEF Enter, ConfigureRefused, FlushClosed, FlushWake, FlushReturn, CloseRequestExit,
       CloseJoin, DumpLock, DumpGiveUp, DumpClosed, DumpOpen, DumpPrint, DumpNoThread, UsingPcs,
       Goto, Leave, Operations, IInv, TypeOK
<1> QED BY <1>1, <1>2, LabelStep DEF NoNewUse

LEMMA ThreadLabelActions ==
    ASSUME IInv, OwnedInv, ThreadExit \/ ConvertSingle \/ CaptureFenceTimeout PROVE OwnedInv'
<1>1. UNCHANGED ownedVars
    BY DEF ThreadExit, ConvertSingle, CaptureFenceTimeout, ownedVars, workVars, stateVars,
       sessionVars, poolVars, queueVars, clientVars
<1>2. NoNewUse
    BY DEF ThreadExit, ConvertSingle, CaptureFenceTimeout, Goto, UsingPcs, NoNewUse, IInv, TypeOK
<1> QED BY <1>1, <1>2, LabelStep

(* Streams change only when no frame is on the record, hence none in use.  *)
LEMMA ConfigureAcceptedOwned ==
    ASSUME IInv, OwnedInv, NEW c \in Callers, NEW streams \in SUBSET Streams,
           ConfigureAccepted(c, streams)
    PROVE  OwnedInv'
<1>a. /\ pc[c] = "configure" /\ pc' = [pc EXCEPT ![c] = "idle"] /\ mInflightFrames = {}
      /\ UNCHANGED <<mRequestList, moved, cur, req, interBuffers, mInflightFrames, nextFrame,
                     results>>
    BY DEF ConfigureAccepted, At, Goto, Leave, workVars, poolVars, queueVars, clientVars
<1>1. NoNewUse
    BY <1>a DEF NoNewUse, UsingPcs, IInv, TypeOK
<1>2. \A f \in Frames : ~InUse(f)
  <2>1. \A a \in Actors : pc[a] # "trigger"
      BY <1>a, Alone, Places DEF Actors, LockedPcs, CallerPcs
  <2> QED BY <1>a, <2>1 DEF InUse, Queued, OwnedInv, RecordInv
<1>3. \A f \in Frames : InUse(f)' => InUse(f)
    BY <1>a, <1>1, InUseKept
<1>4. OwnerInv' /\ RecordInv' /\ TriggerInv'
    BY <1>a, <1>1, OwnerKept, RecordInvKept, TriggerInvKept DEF OwnedInv
<1>5. SlotsExclusive' /\ BuffersStayMapped'
    BY <1>2, <1>3 DEF SlotsExclusive, BuffersStayMapped
<1>6. ResultInv'
    BY <1>a, PendingSame, ResultKept DEF OwnedInv
<1> QED BY <1>4, <1>5, <1>6 DEF OwnedInv

(* No buffer in use is FREE or ENQUEUED, so that none is taken or freed.   *)
LEMMA EndBatchOwned ==
    ASSUME IInv, OwnedInv, NEW c \in Callers, EndBatch(c) PROVE OwnedInv'
<1>a. /\ pc' = [pc EXCEPT ![c] = "idle"]
      /\ interBuffers' = interBuffers
         \/ \E s \in Available : interBuffers' = [interBuffers EXCEPT ![s] = "FREE"]
      /\ UNCHANGED <<mRequestList, moved, cur, req, mCirculatingBuffers, mInflightFrames,
                     nextFrame, results>>
    BY DEF EndBatch, Leave, Goto, workVars, sessionVars, queueVars, clientVars
<1>1. NoNewUse
    BY <1>a DEF NoNewUse, UsingPcs, IInv, TypeOK
<1>2. \A f \in Frames : InUse(f)' => InUse(f)
    BY <1>a, <1>1, InUseKept
<1>3. \A s \in Slots : interBuffers[s] = "DEQUEUED" => interBuffers'[s] = "DEQUEUED"
    BY <1>a DEF Available, IInv, TypeOK
<1>4. OwnerInv' /\ RecordInv' /\ TriggerInv'
    BY <1>a, <1>1, OwnerKept, RecordInvKept, TriggerInvKept DEF OwnedInv
<1>5. SlotsExclusive' /\ BuffersStayMapped'
    BY <1>a, <1>2, <1>3, SlotsKept, MappedKept DEF IInv, TypeOK, OwnedInv
<1>6. ResultInv'
    BY <1>a, PendingSame, ResultKept DEF OwnedInv
<1> QED BY <1>4, <1>5, <1>6 DEF OwnedInv

(* A frame comes off the record when its one owner has reported it.        *)
LEMMA SettleOwned ==
    ASSUME IInv, OwnedInv, NEW a \in Actors, NEW label, label \notin UsingPcs,
           pc[a] \notin {"submit", "convert"}, cur[a] # None,
           pc' = [pc EXCEPT ![a] = label],
           mInflightFrames' = mInflightFrames \ {cur[a]},
           UNCHANGED <<mRequestList, moved, cur, req, mCirculatingBuffers, interBuffers, nextFrame,
                       results>>
    PROVE  OwnedInv'
<1>1. NoNewUse
    BY DEF NoNewUse, IInv, TypeOK
<1>2. \A f \in Frames : InUse(f)' => InUse(f)
    BY <1>1, InUseKept
<1>3. RecordInv'
  <2>1. \A i \in DOMAIN mRequestList : mRequestList[i] # cur[a]
      BY DEF OwnedInv, OwnerInv
  <2>2. ASSUME NEW b \in Actors, pc'[b] \in {"submit", "convert"}
        PROVE  pc[b] = pc'[b] /\ cur[b] # cur[a]
      BY <1>1, <2>2 DEF OwnedInv, OwnerInv, NoNewUse, UsingPcs
  <2> QED BY <2>1, <2>2 DEF OwnedInv, RecordInv
<1>4. OwnerInv' /\ TriggerInv'
    BY <1>1, OwnerKept, TriggerInvKept DEF OwnedInv
<1>5. SlotsExclusive' /\ BuffersStayMapped'
    BY <1>2, SlotsKept, MappedKept DEF IInv, TypeOK, OwnedInv
<1>6. ResultInv'
    BY PendingSame, ResultKept DEF OwnedInv
<1> QED BY <1>3, <1>4, <1>5, <1>6 DEF OwnedInv

LEMMA ReportRequestErrorOwned ==
    ASSUME IInv, OwnedInv, NEW a \in Actors, ReportRequestError(a) PROVE OwnedInv'
<1>1. pc[a] = "error" /\ cur[a] \in Frames
    BY DEF ReportRequestError, At, IInv, CurInv, Actors
<1> QED BY <1>1, SettleOwned DEF ReportRequestError, Goto, UsingPcs, workVars, sessionVars,
        poolVars, queueVars

LEMMA ThreadReportsOwned ==
    ASSUME IInv, OwnedInv, FillResult \/ ReportDeviceError PROVE OwnedInv'
<1>1. pc[OT] \in {"result", "device_error"} /\ cur[OT] \in Frames /\ OT \in Actors
    BY DEF FillResult, ReportDeviceError, At, IInv, CurInv, Actors
<1> QED BY <1>1, SettleOwned DEF FillResult, ReportDeviceError, Goto, UsingPcs, workVars,
        sessionVars, poolVars, queueVars, clientVars

LEMMA EnterCallbackOwned ==
    ASSUME IInv, OwnedInv, NEW a \in Actors, EnterCallback(a) PROVE OwnedInv'
<1>1. NoNewUse
    BY DEF EnterCallback, Goto, NoNewUse, UsingPcs, IInv, TypeOK
<1>2. UNCHANGED ownedVars
    BY DEF EnterCallback, ownedVars, workVars, sessionVars, poolVars, queueVars, clientVars
<1> QED BY <1>1, <1>2, LabelStep

(* The client's next frame is nowhere yet.                                 *)
LEMMA NextIsFresh ==
    ASSUME IInv, NEW c \in Callers, pc[c] = "request", nextFrame \in Frames
    PROVE  ~Pending(nextFrame)
<1>1. \A d \in Callers : pc[d] # "trigger"
    BY Alone DEF LockedPcs, CallerPcs
<1>2. ~(nextFrame < nextFrame)
    BY DEF Frames
<1> QED BY <1>1, <1>2, PendingAge

(* The request gets a buffer that no other uses, and mapped streams.       *)
LEMMA PrepareRequestOwned ==
    ASSUME IInv, OwnedInv, NEW c \in Callers, NEW streams \in SUBSET Streams,
           NEW settings \in BOOLEAN, PrepareRequest(c, streams, settings)
    PROVE  OwnedInv'
<1>a. /\ c \in Actors /\ pc[c] = "request" /\ nextFrame \in Frames /\ nextFrame # None
      /\ cur[c] = None /\ streams \subseteq mCirculatingBuffers
      /\ cur' = [cur EXCEPT ![c] = nextFrame] /\ pc' = [pc EXCEPT ![c] = "trigger"]
      /\ UNCHANGED <<mRequestList, moved, mCirculatingBuffers, mInflightFrames, nextFrame, results>>
    BY DEF PrepareRequest, At, Goto, Actors, IInv, CurInv, sessionVars, queueVars, clientVars
<1>b. cur \in [Actors -> Frames \cup {None}] /\ pc \in [Actors -> CallerPcs \cup ThreadPcs]
    BY DEF IInv, TypeOK
<1>c. PICK s \in Slots \cup {None} :
          /\ req' = [req EXCEPT ![nextFrame] = [streams |-> streams, slot |-> s, status |-> TRUE]]
          /\ \/ s = None /\ interBuffers' = interBuffers
             \/ s \in Available /\ interBuffers' = [interBuffers EXCEPT ![s] = "DEQUEUED"]
    BY DEF PrepareRequest, Available
<1>1. ~Pending(nextFrame)
    BY <1>a, NextIsFresh
<1>2. OwnerInv'
  <2>1. /\ \A a \in Actors : cur[a] # nextFrame
        /\ \A i \in DOMAIN mRequestList : mRequestList[i] # nextFrame
        /\ \A d \in Callers : \A i \in DOMAIN moved[d] : moved[d][i] # nextFrame
      BY <1>1 DEF Pending, Queued
  <2>2. \A a \in Actors : cur'[a] = IF a = c THEN nextFrame ELSE cur[a]
      BY <1>a, <1>b
  <2> QED BY <1>a, <2>1, <2>2 DEF OwnedInv, OwnerInv
<1>3. RecordInv'
    BY <1>a, <1>b DEF OwnedInv, RecordInv
<1>4. \A f \in Frames : InUse(f)' => f = nextFrame \/ (f # nextFrame /\ InUse(f))
  <2>1. \A f \in Frames : InUse(f)' => f = nextFrame \/ InUse(f)
      BY <1>a, <1>b DEF InUse, Queued
  <2> QED BY <2>1
<1>5. req \in [Frames -> Requests] /\ interBuffers \in [Slots -> SlotStatus]
    BY DEF IInv, TypeOK
<1>6. /\ req'[nextFrame] = [streams |-> streams, slot |-> s, status |-> TRUE]
      /\ \A f \in Frames : f # nextFrame => req'[f] = req[f]
    BY <1>a, <1>c, <1>5
<1>7. BuffersStayMapped'
    BY <1>a, <1>4, <1>6 DEF OwnedInv, BuffersStayMapped
<1>8. SlotsExclusive'
  <2>1. /\ \A t \in Slots : interBuffers[t] = "DEQUEUED" => interBuffers'[t] = "DEQUEUED"
        /\ s # None => s \in Slots /\ interBuffers[s] # "DEQUEUED" /\ interBuffers'[s] = "DEQUEUED"
      BY <1>c, <1>5 DEF Available
  <2>2. ASSUME NEW f \in Frames, InUse(f), req[f].status, req[f].slot # None
        PROVE  interBuffers[req[f].slot] = "DEQUEUED" /\ req[f].slot \in Slots
      BY <1>5, <2>2 DEF OwnedInv, SlotsExclusive, Requests
  <2>3. ASSUME NEW f \in Frames, InUse(f)', req'[f].status, req'[f].slot # None
        PROVE  /\ interBuffers'[req'[f].slot] = "DEQUEUED"
               /\ \A g \in Frames \ {f} : InUse(g)' /\ req'[g].status => req'[g].slot # req'[f].slot
    <3>1. CASE f = nextFrame
        BY <1>4, <1>6, <2>1, <2>2, <2>3, <3>1
    <3>2. CASE f # nextFrame
      <4>1. InUse(f) /\ req'[f] = req[f]
          BY <1>4, <1>6, <2>3, <3>2
      <4>2. interBuffers[req[f].slot] = "DEQUEUED" /\ req[f].slot \in Slots
          BY <2>2, <2>3, <4>1
      <4>3. ASSUME NEW g \in Frames \ {f}, InUse(g)', req'[g].status
            PROVE  req'[g].slot # req[f].slot
        <5>1. CASE g = nextFrame
            BY <1>6, <2>1, <4>2, <5>1, SlotsAssumption
        <5>2. CASE g # nextFrame
            BY <1>4, <1>6, <2>3, <4>1, <4>3, <5>2 DEF OwnedInv, SlotsExclusive
        <5> QED BY <5>1, <5>2
      <4> QED BY <2>1, <4>1, <4>2, <4>3
    <3> QED BY <3>1, <3>2
  <2> QED BY <2>3 DEF SlotsExclusive
<1>9. ResultInv'
  <2>1. \A f \in Frames : Pending(f)' => f = nextFrame \/ Pending(f)
      BY <1>a, <1>b DEF Pending, Queued
  <2>2. nextFrame >= nextFrame
      BY <1>a DEF Frames
  <2> QED BY <1>a, <2>1, <2>2 DEF OwnedInv, ResultInv
<1>10. TriggerInv'
  <2> SUFFICES ASSUME NEW a \in Actors, pc'[a] \in {"trigger", "convert"}
               PROVE  req'[cur'[a]].status
      BY DEF TriggerInv
  <2>1. CASE a = c
      BY <1>a, <1>b, <1>6, <2>1
  <2>2. CASE a # c
    <3>1. cur'[a] = cur[a] /\ pc'[a] = pc[a] /\ cur[a] \in Frames /\ cur[a] # nextFrame
        BY <1>a, <1>b, <1>1, <2>2, Places DEF Pending, UsingPcs
    <3> QED BY <1>6, <3>1 DEF OwnedInv, TriggerInv
  <2> QED BY <2>1, <2>2
<1> QED BY <1>2, <1>3, <1>7, <1>8, <1>9, <1>10 DEF OwnedInv

(* A request that could not be triggered gives its buffer back, which no   *)
(* other request has.                                                      *)
LEMMA TriggerRequestOwned ==
    ASSUME IInv, OwnedInv, NEW c \in Callers, NEW status \in BOOLEAN, TriggerRequest(c, status)
    PROVE  OwnedInv'
<1> DEFINE f == cur[c]
<1>a. /\ c \in Actors /\ pc[c] = "trigger" /\ f = nextFrame /\ f \in Frames /\ req[f].status
      /\ pc' = [pc EXCEPT ![c] = "submit"] /\ nextFrame' = nextFrame + 1
      /\ mInflightFrames' = mInflightFrames \cup {f}
      /\ req' = [req EXCEPT ![f].status = status]
      /\ interBuffers' = IF ~status /\ req[f].slot # None
                         THEN [interBuffers EXCEPT ![req[f].slot] = "ENQUEUED"] ELSE interBuffers
      /\ UNCHANGED <<mRequestList, moved, cur, mCirculatingBuffers, results>>
    BY DEF TriggerRequest, At, Goto, Actors, IInv, CurInv, OwnedInv, TriggerInv, workVars,
           sessionVars, queueVars, clientVars
<1>b. /\ pc \in [Actors -> CallerPcs \cup ThreadPcs] /\ req \in [Frames -> Requests]
      /\ interBuffers \in [Slots -> SlotStatus]
    BY DEF IInv, TypeOK
<1>c. /\ req'[f].status = status /\ req'[f].slot = req[f].slot /\ req'[f].streams = req[f].streams
      /\ \A g \in Frames : g # f => req'[g] = req[g]
    BY <1>a, <1>b DEF Requests
<1>1. \A g \in Frames : InUse(g)' = InUse(g)
    BY <1>a, <1>b DEF InUse, Queued
<1>2. InUse(f)
    BY <1>a DEF InUse
<1>3. OwnerInv'
    BY <1>a, OwnerKept DEF OwnedInv
<1>4. RecordInv'
    BY <1>a, <1>b DEF OwnedInv, RecordInv
<1>5. TriggerInv'
  <2> SUFFICES ASSUME NEW a \in Actors, pc'[a] \in {"trigger", "convert"}
               PROVE  req'[cur[a]].status
      BY <1>a DEF TriggerInv
  <2>1. a # c /\ pc'[a] = pc[a]
      BY <1>a, <1>b
  <2>2. cur[a] # f /\ cur[a] \in Frames
      BY <1>a, <2>1, Places DEF OwnedInv, OwnerInv, UsingPcs
  <2> QED BY <1>c, <2>1, <2>2 DEF OwnedInv, TriggerInv
<1>6. BuffersStayMapped'
    BY <1>a, <1>1, <1>c DEF OwnedInv, BuffersStayMapped
<1>7. SlotsExclusive'
  <2>1. ASSUME NEW g \in Frames, InUse(g), req[g].status, req[g].slot # None
        PROVE  interBuffers[req[g].slot] = "DEQUEUED" /\ req[g].slot \in Slots
               /\ (g # f => req[g].slot # req[f].slot)
      BY <1>a, <1>b, <1>2, <2>1 DEF OwnedInv, SlotsExclusive, Requests
  <2>2. ASSUME NEW g \in Frames, InUse(g)', req'[g].status, req'[g].slot # None
        PROVE  req[g].status /\ req'[g].slot = req[g].slot /\ InUse(g)
               /\ (g = f => status)
      BY <1>a, <1>c, <1>1, <2>2
  <2>3. ASSUME NEW g \in Frames, InUse(g)', req'[g].status, req'[g].slot # None
        PROVE  interBuffers'[req'[g].slot] = "DEQUEUED"
      BY <1>a, <1>b, <2>1, <2>2, <2>3
  <2>4. ASSUME NEW g \in Frames, InUse(g)', req'[g].status, req'[g].slot # None,
               NEW h \in Frames \ {g}, InUse(h)', req'[h].status
        PROVE  req'[h].slot # req'[g].slot
    <3>1. req[h].status /\ req'[h].slot = req[h].slot /\ InUse(h)
        BY <1>a, <1>c, <1>1, <2>4
    <3> QED BY <2>2, <2>4, <3>1 DEF OwnedInv, SlotsExclusive
  <2> QED BY <2>3, <2>4 DEF SlotsExclusive
<1>8. ResultInv'
  <2>1. \A g \in Frames : g >= nextFrame + 1 => g >= nextFrame
      BY <1>a DEF Frames
  <2> QED BY <1>a, <2>1, PendingSame DEF OwnedInv, ResultInv
<1> QED BY <1>3, <1>4, <1>5, <1>6, <1>7, <1>8 DEF OwnedInv

(* The request goes from its caller's hands to the end of the list.        *)
LEMMA SubmitRequestOwned ==
    ASSUME IInv, OwnedInv, NEW c \in Callers, SubmitRequest(c) PROVE OwnedInv'
<1> DEFINE f == cur[c]
<1>a. /\ c \in Actors /\ pc[c] = "submit" /\ f \in Frames /\ f # None
      /\ pc' = [pc EXCEPT ![c] = "request"] /\ cur' = [cur EXCEPT ![c] = None]
      /\ mRequestList' = Append(mRequestList, f)
      /\ UNCHANGED <<moved, req, mCirculatingBuffers, interBuffers, mInflightFrames, nextFrame,
                     results>>
    BY DEF SubmitRequest, At, Goto, Actors, IInv, CurInv, poolVars, clientVars
<1>b. /\ cur \in [Actors -> Frames \cup {None}] /\ pc \in [Actors -> CallerPcs \cup ThreadPcs]
      /\ mRequestList \in Seq(Frames) /\ moved[c] = <<>>
    BY <1>a DEF IInv, TypeOK, MovedInv
<1>c. /\ DOMAIN mRequestList' = 1 .. Len(mRequestList) + 1
      /\ \A i \in DOMAIN mRequestList :
            i \in 1 .. Len(mRequestList) /\ mRequestList'[i] = mRequestList[i]
      /\ mRequestList'[Len(mRequestList) + 1] = f
      /\ DOMAIN mRequestList = 1 .. Len(mRequestList) /\ Len(mRequestList) \in Nat
    BY <1>a, <1>b
<1>d. \A i \in DOMAIN mRequestList' :
          i = Len(mRequestList) + 1 \/ (i \in DOMAIN mRequestList /\ i # Len(mRequestList) + 1)
    BY <1>c
<1>e. \A a \in Actors : cur'[a] = IF a = c THEN None ELSE cur[a]
    BY <1>a, <1>b
<1>f. \A g \in Frames : Queued(g)' => g = f \/ Queued(g)
    BY <1>c, <1>d DEF Queued
<1>1. OwnerInv'
  <2>1. \A i, j \in DOMAIN mRequestList' : mRequestList'[i] = mRequestList'[j] => i = j
    <3>1. \A i \in DOMAIN mRequestList : mRequestList[i] # f
        BY <1>a DEF OwnedInv, OwnerInv
    <3> QED BY <1>c, <1>d, <3>1 DEF OwnedInv, OwnerInv
  <2>2. \A i \in DOMAIN mRequestList', a \in Actors : mRequestList'[i] # cur'[a]
    <3>1. \A i \in DOMAIN mRequestList, a \in Actors : mRequestList[i] # cur[a] /\ mRequestList[i] # None
        BY <1>b DEF OwnedInv, OwnerInv
    <3>2. \A a \in Actors : a # c => cur[a] # f
        BY <1>a DEF OwnedInv, OwnerInv
    <3> QED BY <1>a, <1>c, <1>d, <1>e, <3>1, <3>2
  <2>3. \A d \in Callers, a \in Actors : \A i \in DOMAIN moved[d] : moved[d][i] # cur'[a]
    <3>1. \A d \in Callers : \A i \in DOMAIN moved[d] : moved[d][i] # None
        BY DEF IInv, TypeOK
    <3> QED BY <1>e, <3>1 DEF OwnedInv, OwnerInv
  <2> QED BY <1>a, <1>e, <2>1, <2>2, <2>3 DEF OwnedInv, OwnerInv
<1>2. RecordInv'
  <2>1. f \in mInflightFrames
      BY <1>a DEF OwnedInv, RecordInv
  <2>2. \A i \in DOMAIN mRequestList' : mRequestList'[i] \in mInflightFrames
      BY <1>c, <1>d, <2>1 DEF OwnedInv, RecordInv
  <2> QED BY <1>a, <1>b, <1>e, <2>2 DEF OwnedInv, RecordInv
<1>3. TriggerInv'
    BY <1>a, <1>b, <1>e DEF TriggerInv, OwnedInv
<1>4. \A g \in Frames : InUse(g)' => InUse(g)
    BY <1>a, <1>b, <1>e, <1>f DEF InUse
<1>5. SlotsExclusive' /\ BuffersStayMapped'
    BY <1>a, <1>4, SlotsKept, MappedKept DEF IInv, TypeOK, OwnedInv
<1>6. ResultInv'
  <2>1. \A g \in Frames : Pending(g)' => Pending(g)
      BY <1>a, <1>e, <1>f DEF Pending
  <2> QED BY <1>a, <2>1, ResultKept DEF OwnedInv
<1> QED BY <1>1, <1>2, <1>3, <1>5, <1>6 DEF OwnedInv

(* A thread lets go of its frame, which is then on its way no longer.      *)
LEMMA LetGo ==
    ASSUME IInv, OwnedInv, NEW a \in Actors, cur' = [cur EXCEPT ![a] = None],
           UNCHANGED <<mRequestList, moved>>, NEW f \in Frames, Pending(f)'
    PROVE  Pending(f) /\ f # cur[a]
<1>1. \A b \in Actors : cur'[b] = IF b = a THEN None ELSE cur[b]
    BY DEF IInv, TypeOK
<1>2. CASE \E b \in Actors : cur'[b] = f
    BY <1>1, <1>2 DEF Pending, OwnedInv, OwnerInv
<1>3. CASE Queued(f)' \/ \E c \in Callers : \E i \in DOMAIN moved[c] : moved[c][i] = f
    BY <1>3 DEF Pending, Queued, OwnedInv, OwnerInv
<1> QED BY <1>2, <1>3 DEF Pending

LEMMA ReleaseOwned ==
    ASSUME IInv, OwnedInv, NEW a \in Actors, NEW label, label \notin UsingPcs, pc[a] \notin UsingPcs,
           cur' = [cur EXCEPT ![a] = None], pc' = [pc EXCEPT ![a] = label],
           \A f \in Frames : f # cur[a] => results'[f] = results[f],
           cur[a] = None => results' = results,
           UNCHANGED <<mRequestList, moved, req, mCirculatingBuffers, interBuffers, mInflightFrames,
                       nextFrame>>
    PROVE  OwnedInv'
<1>1. \A b \in Actors : /\ cur'[b] = IF b = a THEN None ELSE cur[b]
                        /\ pc'[b] = IF b = a THEN label ELSE pc[b]
    BY DEF IInv, TypeOK
<1>2. OwnerInv'
  <2>1. /\ \A i \in DOMAIN mRequestList : mRequestList[i] # None
        /\ \A c \in Callers : \A i \in DOMAIN moved[c] : moved[c][i] # None
      BY DEF IInv, TypeOK
  <2> QED BY <1>1, <2>1 DEF OwnedInv, OwnerInv
<1>3. RecordInv' /\ TriggerInv'
    BY <1>1 DEF OwnedInv, RecordInv, TriggerInv, UsingPcs, Actors
<1>4. \A f \in Frames : InUse(f)' => InUse(f)
    BY <1>1 DEF InUse, Queued, UsingPcs
<1>5. SlotsExclusive' /\ BuffersStayMapped'
    BY <1>4, SlotsKept, MappedKept DEF IInv, TypeOK, OwnedInv
<1>6. ResultInv'
  <2>1. \A f \in Frames : Pending(f)' => results[f] = 0 /\ f # cur[a]
      BY LetGo DEF OwnedInv, ResultInv
  <2>2. ASSUME NEW f \in Frames, f >= nextFrame PROVE results[f] = 0 /\ f # cur[a]
    <3>1. cur[a] # None => cur[a] < nextFrame
        BY DEF IInv, AgeInv, UsingPcs
    <3>2. nextFrame \in Nat /\ f \in Nat
        BY DEF IInv, TypeOK, Frames
    <3> QED BY <2>2, <3>1, <3>2 DEF OwnedInv, ResultInv
  <2> QED BY <2>1, <2>2 DEF ResultInv
<1> QED BY <1>2, <1>3, <1>5, <1>6 DEF OwnedInv

LEMMA ReturnOwned ==
    ASSUME IInv, OwnedInv, NEW a \in Actors, DropResult(a) \/ DeliverResult(a) PROVE OwnedInv'
<1>1. pc[a] \notin UsingPcs /\ cur[a] \in Frames /\ AfterCallback(a) \notin UsingPcs
    BY DEF DropResult, DeliverResult, At, UsingPcs, AfterCallback, IInv, CurInv, Actors
<1>2. /\ cur' = [cur EXCEPT ![a] = None] /\ pc' = [pc EXCEPT ![a] = AfterCallback(a)]
      /\ UNCHANGED <<mRequestList, moved, req, mCirculatingBuffers, interBuffers, mInflightFrames,
                     nextFrame>>
    BY DEF DropResult, DeliverResult, Goto, stateVars, sessionVars, poolVars, queueVars
<1>3. \A f \in Frames : f # cur[a] => results'[f] = results[f]
    BY DEF DropResult, DeliverResult, stateVars, clientVars, IInv, TypeOK
<1> QED BY <1>1, <1>2, <1>3, ReleaseOwned

LEMMA SignalRequestDoneOwned ==
    ASSUME IInv, OwnedInv, SignalRequestDone PROVE OwnedInv'
<1>1. OT \in Actors /\ pc[OT] \notin UsingPcs
    BY DEF SignalRequestDone, At, UsingPcs, Actors
<1> QED BY <1>1, ReleaseOwned
        DEF SignalRequestDone, Goto, UsingPcs, sessionVars, poolVars, clientVars

(* A flush takes the whole list, and nobody has taken any before it.       *)
LEMMA FlushStartOwned ==
    ASSUME IInv, OwnedInv, NEW c \in Callers, FlushStart(c) PROVE OwnedInv'
<1>a. /\ pc[c] = "flush" /\ moved' = [moved EXCEPT ![c] = mRequestList] /\ mRequestList' = <<>>
      /\ pc' = [pc EXCEPT ![c] = IF mProcessingRequest THEN "flush_wait" ELSE "flush_drain"]
      /\ UNCHANGED <<cur, req, mCirculatingBuffers, interBuffers, mInflightFrames, nextFrame,
                     results>>
    BY DEF FlushStart, At, Goto, sessionVars, poolVars, clientVars
<1>b. \A d \in Callers : moved'[d] = IF d = c THEN mRequestList ELSE moved[d]
    BY <1>a DEF IInv, TypeOK
<1>c. \A f : ~Queued(f)'
    BY <1>a DEF Queued
<1>1. NoNewUse
    BY <1>a DEF NoNewUse, UsingPcs, IInv, TypeOK
<1>2. OwnerInv'
    BY <1>a, <1>b DEF OwnedInv, OwnerInv
<1>3. RecordInv' /\ TriggerInv'
    BY <1>a, <1>1, TriggerInvKept DEF OwnedInv, RecordInv, NoNewUse, UsingPcs
<1>4. \A f \in Frames : InUse(f)' => InUse(f)
    BY <1>a, <1>c, <1>1 DEF InUse, NoNewUse, UsingPcs
<1>5. SlotsExclusive' /\ BuffersStayMapped'
    BY <1>a, <1>4, SlotsKept, MappedKept DEF IInv, TypeOK, OwnedInv
<1>6. ResultInv'
  <2>1. \A f \in Frames : Pending(f)' => Pending(f)
      BY <1>a, <1>b, <1>c DEF Pending, Queued
  <2> QED BY <1>a, <2>1, ResultKept DEF OwnedInv
<1> QED BY <1>2, <1>3, <1>5, <1>6 DEF OwnedInv

(* It returns them one by one.                                             *)
LEMMA FlushNextOwned ==
    ASSUME IInv, OwnedInv, NEW c \in Callers, FlushNext(c) PROVE OwnedInv'
<1> DEFINE f == Head(moved[c])
<1>a. /\ c \in Actors /\ pc[c] = "flush_drain" /\ cur[c] = None /\ moved[c] # <<>>
      /\ cur' = [cur EXCEPT ![c] = f] /\ moved' = [moved EXCEPT ![c] = Tail(moved[c])]
      /\ pc' = [pc EXCEPT ![c] = "error"]
      /\ UNCHANGED <<mRequestList, req, mCirculatingBuffers, interBuffers, mInflightFrames,
                     nextFrame, results>>
    BY DEF FlushNext, At, Goto, Actors, IInv, CurInv, stateVars, sessionVars, poolVars, queueVars,
           clientVars
<1>b. /\ moved[c] \in Seq(Frames) /\ cur \in [Actors -> Frames \cup {None}]
      /\ moved \in [Callers -> Seq(Frames)] /\ pc \in [Actors -> CallerPcs \cup ThreadPcs]
    BY DEF IInv, TypeOK
<1>c. /\ 1 \in DOMAIN moved[c] /\ moved[c][1] = f /\ f \in Frames /\ f # None
      /\ \A i \in DOMAIN Tail(moved[c]) : /\ i + 1 \in DOMAIN moved[c] /\ i + 1 # 1 /\ i \in Nat
                                          /\ Tail(moved[c])[i] = moved[c][i + 1]
    BY <1>a, <1>b
<1>d. \A a \in Actors : cur'[a] = IF a = c THEN f ELSE cur[a]
    BY <1>a, <1>b
<1>e. /\ \A d \in Callers : d # c => moved[d] = <<>>
      /\ mRequestList = <<>>
    BY <1>a, Alone DEF LockedPcs, CallerPcs, IInv, DrainInv, DrainPcs
<1>f. \A d \in Callers : moved'[d] = IF d = c THEN Tail(moved[c]) ELSE <<>>
    BY <1>a, <1>b, <1>e
<1>1. OwnerInv'
  <2>1. \A i, j \in DOMAIN Tail(moved[c]) : Tail(moved[c])[i] = Tail(moved[c])[j] => i = j
    <3> SUFFICES ASSUME NEW i \in DOMAIN Tail(moved[c]), NEW j \in DOMAIN Tail(moved[c]),
                        Tail(moved[c])[i] = Tail(moved[c])[j]
                 PROVE  i = j
        OBVIOUS
    <3>1. i + 1 = j + 1 /\ i \in Nat /\ j \in Nat
        BY <1>c DEF OwnedInv, OwnerInv
    <3> QED BY <3>1
  <2>2. \A i \in DOMAIN Tail(moved[c]) : Tail(moved[c])[i] # f
      BY <1>c DEF OwnedInv, OwnerInv
  <2>3. \A a \in Actors : \A i \in DOMAIN Tail(moved[c]) : Tail(moved[c])[i] # cur[a]
      BY <1>c DEF OwnedInv, OwnerInv
  <2>4. \A a \in Actors : cur[a] # f
      BY <1>c DEF OwnedInv, OwnerInv
  <2>5. \A d \in Callers : \A i, j \in DOMAIN moved'[d] : moved'[d][i] = moved'[d][j] => i = j
    <3> SUFFICES ASSUME NEW d \in Callers, NEW i \in DOMAIN moved'[d], NEW j \in DOMAIN moved'[d],
                        moved'[d][i] = moved'[d][j]
                 PROVE  i = j
        OBVIOUS
    <3>1. d = c
        BY <1>f
    <3>2. moved'[d] = Tail(moved[c])
        BY <1>f, <3>1
    <3> QED BY <2>1, <3>2
  <2>6. \A d \in Callers, a \in Actors : \A i \in DOMAIN moved'[d] : moved'[d][i] # cur'[a]
    <3>1. \A d \in Callers : d # c => DOMAIN moved'[d] = {}
        BY <1>f
    <3>2. \A a \in Actors : \A i \in DOMAIN Tail(moved[c]) : Tail(moved[c])[i] # cur'[a]
        BY <1>d, <2>2, <2>3
    <3> QED BY <1>f, <3>1, <3>2
  <2>7. \A a, b \in Actors : cur'[a] = cur'[b] /\ cur'[a] # None => a = b
      BY <1>d, <2>4 DEF OwnedInv, OwnerInv
  <2> QED BY <1>a, <1>e, <2>5, <2>6, <2>7 DEF OwnerInv
<1>2. NoNewUse
    BY <1>a, <1>b DEF NoNewUse, UsingPcs
<1>3. \A a \in Actors : pc'[a] \in UsingPcs => cur'[a] = cur[a] /\ pc'[a] = pc[a]
    BY <1>a, <1>b, <1>d DEF UsingPcs
<1>4. RecordInv' /\ TriggerInv'
    BY <1>a, <1>3 DEF OwnedInv, RecordInv, TriggerInv, UsingPcs, Actors
<1>5. \A g \in Frames : InUse(g)' => InUse(g)
    BY <1>a, <1>3 DEF InUse, Queued, UsingPcs
<1>6. SlotsExclusive' /\ BuffersStayMapped'
    BY <1>a, <1>5, SlotsKept, MappedKept DEF IInv, TypeOK, OwnedInv
<1>7. ResultInv'
  <2>1. \A g \in Frames : Pending(g)' => Pending(g)
      BY <1>a, <1>c, <1>d, <1>f DEF Pending, Queued
  <2> QED BY <1>a, <2>1, ResultKept DEF OwnedInv
<1> QED BY <1>1, <1>4, <1>6, <1>7 DEF OwnedInv

(* The OutputThread takes the head of the list.                            *)
LEMMA ThreadTakeRequestOwned ==
    ASSUME IInv, OwnedInv, ThreadTakeRequest PROVE OwnedInv'
<1> DEFINE f == Head(mRequestList)
<1>a. /\ OT \in Actors /\ pc[OT] = "wait" /\ cur[OT] = None /\ mRequestList # <<>>
      /\ cur' = [cur EXCEPT ![OT] = f] /\ mRequestList' = Tail(mRequestList)
      /\ pc' = [pc EXCEPT ![OT] = IF req[f].status THEN "convert" ELSE "error"]
      /\ UNCHANGED <<moved, req, mCirculatingBuffers, interBuffers, mInflightFrames, nextFrame,
                     results>>
    BY DEF ThreadTakeRequest, At, Goto, Actors, IInv, CurInv, sessionVars, poolVars, clientVars
<1>b. /\ mRequestList \in Seq(Frames) /\ cur \in [Actors -> Frames \cup {None}]
      /\ pc \in [Actors -> CallerPcs \cup ThreadPcs]
    BY DEF IInv, TypeOK
<1>c. /\ 1 \in DOMAIN mRequestList /\ mRequestList[1] = f /\ f \in Frames /\ f # None
      /\ \A i \in DOMAIN mRequestList' :
            /\ i + 1 \in DOMAIN mRequestList /\ i + 1 # 1 /\ i \in Nat
            /\ mRequestList'[i] = mRequestList[i + 1]
    BY <1>a, <1>b
<1>d. \A a \in Actors : cur'[a] = IF a = OT THEN f ELSE cur[a]
    BY <1>a, <1>b
<1>e. /\ Queued(f)
      /\ \A g : Queued(g)' => Queued(g)
    BY <1>c DEF Queued
<1>1. OwnerInv'
  <2>1. \A i, j \in DOMAIN mRequestList' : mRequestList'[i] = mRequestList'[j] => i = j
    <3> SUFFICES ASSUME NEW i \in DOMAIN mRequestList', NEW j \in DOMAIN mRequestList',
                        mRequestList'[i] = mRequestList'[j]
                 PROVE  i = j
        OBVIOUS
    <3>1. i + 1 = j + 1 /\ i \in Nat /\ j \in Nat
        BY <1>c DEF OwnedInv, OwnerInv
    <3> QED BY <3>1
  <2>2. \A i \in DOMAIN mRequestList' : mRequestList'[i] # f
      BY <1>c DEF OwnedInv, OwnerInv
  <2>3. \A i \in DOMAIN mRequestList', a \in Actors : mRequestList'[i] # cur[a]
      BY <1>c DEF OwnedInv, OwnerInv
  <2>4. \A a \in Actors : cur[a] # f
      BY <1>c DEF OwnedInv, OwnerInv
  <2>5. \A d \in Callers : \A i \in DOMAIN moved[d] : moved[d][i] # f
    <3>1. \A d \in Callers : moved[d] # <<>> => pc[d] \in DrainPcs
        BY DEF IInv, MovedInv, DrainPcs
    <3>2. \A d \in Callers : moved[d] = <<>>
        BY <1>a, <3>1 DEF IInv, DrainInv
    <3> QED BY <3>2
  <2>6. \A i \in DOMAIN mRequestList', a \in Actors : mRequestList'[i] # cur'[a]
      BY <1>d, <2>2, <2>3
  <2>7. \A d \in Callers, a \in Actors : \A i \in DOMAIN moved[d] : moved[d][i] # cur'[a]
      BY <1>d, <2>5 DEF OwnedInv, OwnerInv
  <2>8. \A a, b \in Actors : cur'[a] = cur'[b] /\ cur'[a] # None => a = b
      BY <1>d, <2>4 DEF OwnedInv, OwnerInv
  <2> QED BY <1>a, <2>1, <2>6, <2>7, <2>8 DEF OwnedInv, OwnerInv
<1>2. \A a \in Actors : a # OT => pc'[a] = pc[a] /\ cur'[a] = cur[a]
    BY <1>a, <1>b, <1>d
<1>3. RecordInv'
  <2>1. f \in mInflightFrames
      BY <1>c DEF OwnedInv, RecordInv
  <2> QED BY <1>a, <1>c, <1>d, <1>2, <2>1 DEF OwnedInv, RecordInv
<1>4. TriggerInv'
    BY <1>a, <1>b, <1>d, <1>2 DEF OwnedInv, TriggerInv, Actors
<1>5. \A g \in Frames : InUse(g)' => InUse(g)
    BY <1>d, <1>e, <1>2 DEF InUse
<1>6. SlotsExclusive' /\ BuffersStayMapped'
    BY <1>a, <1>5, SlotsKept, MappedKept DEF IInv, TypeOK, OwnedInv
<1>7. ResultInv'
  <2>1. \A g \in Frames : Pending(g)' => Pending(g)
      BY <1>a, <1>d, <1>e DEF Pending
  <2> QED BY <1>a, <2>1, ResultKept DEF OwnedInv
<1> QED BY <1>1, <1>3, <1>4, <1>6, <1>7 DEF OwnedInv

(* A converted request needs its intermediate buffer no more; the others   *)
(* have others.                                                            *)
LEMMA ConvertPairOwned ==
    ASSUME IInv, OwnedInv, NEW usable \in 0 .. 2, NEW converted \in BOOLEAN,
           ConvertPair(usable, converted)
    PROVE  OwnedInv'
<1> DEFINE f == cur[OT]
<1>a. /\ OT \in Actors /\ pc[OT] = "convert" /\ f \in Frames /\ f # None /\ req[f].slot # None
      /\ pc' = [pc EXCEPT ![OT] = IF usable = 0 THEN "error"
                                  ELSE IF converted THEN "result" ELSE "device_error"]
      /\ interBuffers' = IF usable = 0 THEN interBuffers
                         ELSE [interBuffers EXCEPT ![req[f].slot] = "ENQUEUED"]
      /\ UNCHANGED <<mRequestList, moved, cur, req, mCirculatingBuffers, mInflightFrames,
                     nextFrame, results>>
    BY DEF ConvertPair, At, Goto, Actors, IInv, CurInv, workVars, sessionVars, queueVars,
           clientVars
<1>b. /\ pc \in [Actors -> CallerPcs \cup ThreadPcs] /\ req \in [Frames -> Requests]
      /\ interBuffers \in [Slots -> SlotStatus]
    BY DEF IInv, TypeOK
<1>1. NoNewUse
    BY <1>a, <1>b DEF NoNewUse, UsingPcs
<1>2. \A g \in Frames : InUse(g)' => InUse(g) /\ g # f
  <2>1. \A g \in Frames : InUse(g)' => InUse(g)
      BY <1>a, <1>1, InUseKept
  <2>2. ~InUse(f)'
    <3>1. ~Queued(f)'
        BY <1>a DEF Queued, OwnedInv, OwnerInv
    <3>2. \A a \in Actors : cur'[a] = f => a = OT
        BY <1>a DEF OwnedInv, OwnerInv
    <3>3. pc'[OT] \notin UsingPcs
        BY <1>a, <1>b DEF UsingPcs
    <3> QED BY <1>a, <3>1, <3>2, <3>3 DEF InUse, UsingPcs
  <2> QED BY <1>a, <2>1, <2>2
<1>3. OwnerInv' /\ RecordInv' /\ TriggerInv'
    BY <1>a, <1>1, OwnerKept, RecordInvKept, TriggerInvKept DEF OwnedInv
<1>4. BuffersStayMapped'
    BY <1>a, <1>2, MappedKept DEF OwnedInv
<1>5. SlotsExclusive'
  <2>1. InUse(f) /\ req[f].slot \in Slots
      BY <1>a, <1>b DEF InUse, Requests
  <2>2. ASSUME NEW g \in Frames, InUse(g)', req[g].status, req[g].slot # None
        PROVE  interBuffers'[req[g].slot] = "DEQUEUED"
    <3>1. InUse(g) /\ g # f /\ req[g].slot \in Slots /\ interBuffers[req[g].slot] = "DEQUEUED"
        BY <1>2, <1>b, <2>2 DEF OwnedInv, SlotsExclusive, Requests
    <3>2. req[f].status => req[f].slot # req[g].slot
        BY <2>1, <2>2, <3>1, <1>a DEF OwnedInv, SlotsExclusive
    <3>3. req[f].status
        BY <1>a DEF OwnedInv, TriggerInv
    <3> QED BY <1>a, <1>b, <2>1, <3>1, <3>2, <3>3
  <2>3. ASSUME NEW g \in Frames, InUse(g)', req[g].status, req[g].slot # None,
               NEW h \in Frames \ {g}, InUse(h)', req[h].status
        PROVE  req[h].slot # req[g].slot
      BY <1>2, <2>3 DEF OwnedInv, SlotsExclusive
  <2> QED BY <1>a, <2>2, <2>3 DEF SlotsExclusive
<1>6. ResultInv'
    BY <1>a, PendingSame, ResultKept DEF OwnedInv
<1> QED BY <1>3, <1>4, <1>5, <1>6 DEF OwnedInv

(* When close() frees the buffers nobody has a frame.                      *)
LEMMA NothingLeft ==
    ASSUME IInv, NEW c \in Callers, pc[c] = "close_finish", NEW f \in Frames
    PROVE  ~Pending(f)
<1>1. cur[c] = None /\ moved[c] = <<>> /\ mRequestList = <<>>
    BY DEF IInv, CurInv, MovedInv, DrainInv, DrainPcs
<1>2. pc[OT] = "exited" /\ cur[OT] = None
    BY DEF IInv, ThreadInv, CurInv
<1>3. \A d \in Callers : cur[d] = None /\ moved[d] = <<>>
    BY <1>1, Alone DEF LockedPcs, CallerPcs
<1> QED BY <1>1, <1>2, <1>3 DEF Pending, Queued, Actors

LEMMA CloseFinishOwned ==
    ASSUME IInv, OwnedInv, NEW c \in Callers, CloseFinish(c) PROVE OwnedInv'
<1>a. /\ pc[c] = "close_finish" /\ pc' = [pc EXCEPT ![c] = "idle"]
      /\ UNCHANGED <<mRequestList, moved, cur, req, interBuffers, mInflightFrames, nextFrame,
                     results>>
    BY DEF CloseFinish, At, Goto, Leave, workVars, poolVars, queueVars, clientVars
<1>1. NoNewUse
    BY <1>a DEF NoNewUse, UsingPcs, IInv, TypeOK
<1>2. \A f \in Frames : ~InUse(f)'
    BY <1>a, <1>1, InUseKept, InUsePending, NothingLeft
<1>3. OwnerInv' /\ RecordInv' /\ TriggerInv'
    BY <1>a, <1>1, OwnerKept, RecordInvKept, TriggerInvKept DEF OwnedInv
<1>4. SlotsExclusive' /\ BuffersStayMapped'
    BY <1>2 DEF SlotsExclusive, BuffersStayMapped
<1>5. ResultInv'
    BY <1>a, PendingSame, ResultKept DEF OwnedInv
<1> QED BY <1>3, <1>4, <1>5 DEF OwnedInv

-----------------------------------------------------------------------------
(* The theorems.                                                           *)

LEMMA InitOwned == ASSUME Init PROVE OwnedInv
<1>1. /\ mRequestList = <<>> /\ mInflightFrames = {} /\ nextFrame = 1
      /\ \A c \in Callers : moved[c] = <<>>
      /\ \A a \in Actors : cur[a] = None /\ pc[a] \notin UsingPcs
      /\ \A f \in Frames : results[f] = 0
    BY DEF Init, UsingPcs
<1>2. \A f \in Frames : ~InUse(f)
    BY <1>1 DEF InUse, Queued
<1> QED BY <1>1, <1>2 DEF OwnedInv, OwnerInv, RecordInv, TriggerInv, SlotsExclusive,
        BuffersStayMapped, ResultInv, UsingPcs

LEMMA NextOwned ==
    ASSUME IInv, OwnedInv, [Next]_vars PROVE OwnedInv'
<1>1. ASSUME NEW a \in Actors, ReturnStep(a) PROVE OwnedInv'
    BY <1>1, ReportRequestErrorOwned, EnterCallbackOwned, ReturnOwned DEF ReturnStep
<1>2. ASSUME NEW c \in Callers, CallStep(c) PROVE OwnedInv'
    BY <1>1, <1>2, LabelActions, ConfigureAcceptedOwned, PrepareRequestOwned, EndBatchOwned,
       TriggerRequestOwned, SubmitRequestOwned, FlushStartOwned, FlushNextOwned, CloseFinishOwned
       DEF CallStep, Actors
<1>3. CASE ThreadStep
    BY <1>1, <1>3, ThreadTakeRequestOwned, ThreadLabelActions, ConvertPairOwned, ThreadReportsOwned,
       SignalRequestDoneOwned DEF ThreadStep, Actors
<1>4. CASE UNCHANGED vars
  <2>1. UNCHANGED ownedVars /\ NoNewUse
      BY <1>4 DEF vars, ownedVars, NoNewUse, workVars, stateVars, sessionVars, poolVars, queueVars,
         clientVars
  <2> QED BY <2>1, LabelStep
<1> QED BY <1>2, <1>3, <1>4, LabelActions DEF Next

(* The invariant of this module holds beside that of CaptureSession_proofs.*)
THEOREM SessionOwnership == Spec => [](IInv /\ OwnedInv)
<1>1. Init => IInv /\ OwnedInv
    BY InitInvariant, InitOwned
<1>2. IInv /\ OwnedInv /\ [Next]_vars => (IInv /\ OwnedInv)'
    BY NextInvariant, NextOwned
<1> QED BY <1>1, <1>2, PTL DEF Spec

(* The list, flush and the OutputThread never give a request to two        *)
(* threads, however calls, the thread and time-outs interleave.            *)
THEOREM SingleOwnerHolds == Spec => []SingleOwner
<1>1. ASSUME IInv, OwnedInv PROVE SingleOwner
  <2> DEFINE Listed(f) == {<<"list", i>> : i \in {j \in DOMAIN mRequestList : mRequestList[j] = f}}
             Taken(f) == UNION {{<<c, i>> : i \in {j \in DOMAIN moved[c] : moved[c][j] = f}}
                                   : c \in Callers}
             InHand(f) == {<<a, 0>> : a \in {b \in Actors : cur[b] = f}}
  <2>1. ASSUME NEW f \in Frames PROVE Cardinality(Listed(f) \cup Taken(f) \cup InHand(f)) <= 1
    <3>1. ASSUME NEW c \in Callers, NEW d \in Callers, moved[c] # <<>>, moved[d] # <<>>
          PROVE  c = d
        BY <1>1, <3>1, Alone DEF IInv, MovedInv, LockedPcs, CallerPcs
    <3>2. ASSUME NEW c \in Callers, moved[c] # <<>> PROVE mRequestList = <<>>
        BY <1>1, <3>2 DEF IInv, MovedInv, DrainInv, DrainPcs
    <3>3. \A p, q \in Listed(f) : p = q
        BY <1>1 DEF OwnedInv, OwnerInv
    <3>4. \A p, q \in Taken(f) : p = q
        BY <1>1, <3>1 DEF OwnedInv, OwnerInv
    <3>5. \A p, q \in InHand(f) : p = q
        BY <1>1 DEF OwnedInv, OwnerInv
    <3>6. Listed(f) # {} => Taken(f) = {} /\ InHand(f) = {}
        BY <1>1, <3>2 DEF OwnedInv, OwnerInv
    <3>7. Taken(f) # {} => InHand(f) = {}
        BY <1>1 DEF OwnedInv, OwnerInv
    <3> DEFINE P == Listed(f) \cup Taken(f) \cup InHand(f)
    <3>8. \A p, q \in P : p = q
        BY <3>3, <3>4, <3>5, <3>6, <3>7
    <3> HIDE DEF P
    <3>9. P = {} \/ \E p : P = {p}
        BY <3>8
    <3>10. Cardinality(P) \in {0, 1}
        BY <3>9, FS_EmptySet, FS_Singleton
    <3> QED BY <3>10 DEF P
  <2> QED BY <2>1 DEF SingleOwner
<1> QED BY <1>1, SessionOwnership, PTL

(* No intermediate buffer is given out twice before its conversion is over.*)
THEOREM SlotsExclusiveHolds == Spec => []SlotsExclusive
<1>1. OwnedInv => SlotsExclusive
    BY DEF OwnedInv
<1> QED BY <1>1, SessionOwnership, PTL

(* No reconfiguration and no close() unmaps a buffer that is to be filled. *)
THEOREM BuffersStayMappedHolds == Spec => []BuffersStayMapped
<1>1. OwnedInv => BuffersStayMapped
    BY DEF OwnedInv
<1> QED BY <1>1, SessionOwnership, PTL

-----------------------------------------------------------------------------
(* A session implements CaptureContract.                                   *)

(* What the client knows of a frame, as the refinement mapping reads it.   *)
StateOf(f) ==
    IF f >= nextFrame THEN "unused"
    ELSE IF results[f] > 0 THEN "returned"
    ELSE IF Pending(f) THEN "accepted"
    ELSE "lost"

(* A frame on its way is accepted once its number has been used.           *)
LEMMA AcceptedIsPending ==
    ASSUME IInv, OwnedInv, NEW f \in Frames
    PROVE  StateOf(f) = "accepted" <=> f < nextFrame /\ Pending(f)
<1>1. nextFrame \in Nat /\ f \in Nat /\ results[f] \in Nat
    BY DEF IInv, TypeOK, Frames
<1> QED BY <1>1 DEF StateOf, OwnedInv, ResultInv

(* A step that leaves each frame where the client knows it to be.          *)
LEMMA SameForClient ==
    ASSUME UNCHANGED <<results, mClosed>>, \A f \in Frames : StateOf(f)' = StateOf(f)
    PROVE  UNCHANGED Contract!vars
<1> DEFINE known == [g \in Frames |-> StateOf(g)]
<1>1. known' = known
    OBVIOUS
<1> QED BY <1>1 DEF Contract!vars, StateOf

LEMMA StateKept ==
    ASSUME IInv, UNCHANGED <<nextFrame, results, mClosed>>,
           \A f \in Frames : f < nextFrame => (Pending(f)' <=> Pending(f))
    PROVE  UNCHANGED Contract!vars
<1>1. ASSUME NEW f \in Frames PROVE StateOf(f)' = StateOf(f)
  <2>1. nextFrame \in Nat /\ f \in Nat
      BY DEF IInv, TypeOK, Frames
  <2> QED BY <2>1 DEF StateOf
<1> QED BY <1>1, SameForClient

(* A step that takes one frame from one state to another, and counts a     *)
(* callback for it exactly if it is returned.                              *)
LEMMA MoveStep ==
    ASSUME UNCHANGED mClosed, ~mClosed, NEW f \in Frames,
           \A g \in Frames : g # f => StateOf(g)' = StateOf(g),
           \/ StateOf(f) = "unused" /\ StateOf(f)' = "accepted" /\ UNCHANGED results
           \/ StateOf(f) = "accepted" /\ StateOf(f)' = "lost" /\ UNCHANGED results
           \/ /\ StateOf(f) = "accepted" /\ StateOf(f)' = "returned"
              /\ results' = [results EXCEPT ![f] = @ + 1]
    PROVE  Contract!Next
<1> DEFINE known == [g \in Frames |-> StateOf(g)]
<1>1. /\ known[f] = StateOf(f)
      /\ known' = [known EXCEPT ![f] = StateOf(f)']
    OBVIOUS
<1>2. ASSUME NEW from, NEW to, StateOf(f) = from, StateOf(f)' = to
      PROVE  Contract!Move(f, from, to)
    BY <1>1, <1>2 DEF Contract!Move, StateOf
<1>3. Contract!Accept(f) \/ Contract!Return(f) \/ Contract!Lose(f)
    BY <1>2 DEF Contract!Accept, Contract!Return, Contract!Lose
<1> QED BY <1>3 DEF Contract!Next

(* What a sequence holds is its head or in its tail.                       *)
LEMMA HeadOrTail ==
    ASSUME NEW s \in Seq(Frames), s # <<>>, NEW x
    PROVE  (\E i \in DOMAIN s : s[i] = x) <=> (x = Head(s) \/ \E i \in DOMAIN Tail(s) : Tail(s)[i] = x)
<1>1. /\ DOMAIN s = 1 .. Len(s) /\ Len(s) \in Nat /\ Len(s) > 0 /\ Head(s) = s[1]
      /\ DOMAIN Tail(s) = 1 .. Len(s) - 1
      /\ \A i \in 1 .. Len(s) - 1 : Tail(s)[i] = s[i + 1]
    OBVIOUS
<1>2. ASSUME NEW i \in DOMAIN s, s[i] = x, i # 1
      PROVE  \E j \in DOMAIN Tail(s) : Tail(s)[j] = x
  <2>1. i - 1 \in 1 .. Len(s) - 1 /\ (i - 1) + 1 = i
      BY <1>1, <1>2
  <2> QED BY <1>1, <1>2, <2>1
<1>3. ASSUME NEW i \in DOMAIN Tail(s) PROVE i + 1 \in DOMAIN s /\ Tail(s)[i] = s[i + 1]
    BY <1>1, <1>3
<1> QED BY <1>1, <1>2, <1>3

(* The thread that has a frame is not in a session that is closed.         *)
LEMMA OpenWhileWorking ==
    ASSUME IInv, NEW a \in Actors, cur[a] # None PROVE ~mClosed
<1>1. CASE a = OT
    BY <1>1 DEF IInv, ClosedIsDrained, CurInv
<1>2. CASE a \in Callers
  <2>1. pc[a] \in {"trigger", "submit", "error", "callback", "in_callback"}
      BY <1>2 DEF IInv, CurInv
  <2> QED BY <1>2, <2>1 DEF IInv, DrainInv, DrainPcs
<1> QED BY <1>1, <1>2 DEF Actors

(* A thread that lets go of a frame moves that frame only: the client has  *)
(* it now, and got it once, or never will.                                 *)
LEMMA LetGoOne ==
    ASSUME IInv, OwnedInv, NEW a \in Actors, cur[a] # None, pc[a] # "trigger",
           cur' = [cur EXCEPT ![a] = None],
           \/ UNCHANGED results
           \/ results' = [results EXCEPT ![cur[a]] = @ + 1],
           UNCHANGED <<mRequestList, moved, nextFrame, mClosed>>
    PROVE  Contract!Next
<1>1. PICK f \in Frames : f = cur[a]
    BY DEF IInv, TypeOK
<1>2. nextFrame \in Nat /\ f \in Nat /\ f < nextFrame /\ Pending(f)
    BY <1>1 DEF IInv, TypeOK, AgeInv, Frames, Pending
<1>3. \A b \in Actors : cur'[b] = IF b = a THEN None ELSE cur[b]
    BY DEF IInv, TypeOK
<1>4. ~Pending(f)'
    BY <1>1, LetGo
<1>r. results \in [Frames -> Nat]
    BY DEF IInv, TypeOK
<1>5. ASSUME NEW g \in Frames, g # f PROVE StateOf(g)' = StateOf(g)
  <2>1. Pending(g)' <=> Pending(g)
      BY <1>1, <1>3, <1>5 DEF Pending, Queued
  <2>2. results'[g] = results[g]
      BY <1>r, <1>1, <1>5
  <2> QED BY <2>1, <2>2 DEF StateOf
<1>6. StateOf(f) = "accepted" /\ results[f] = 0
    BY <1>2, AcceptedIsPending DEF OwnedInv, ResultInv
<1>7. CASE UNCHANGED results
  <2>1. StateOf(f)' = "lost"
      BY <1>2, <1>4, <1>6, <1>7 DEF StateOf
  <2> QED BY <1>5, <1>6, <1>7, <2>1, OpenWhileWorking, MoveStep
<1>8. CASE results' = [results EXCEPT ![cur[a]] = @ + 1]
  <2>1. results' = [results EXCEPT ![f] = @ + 1] /\ results'[f] = 1
      BY <1>r, <1>1, <1>6, <1>8
  <2>2. StateOf(f)' = "returned"
      BY <1>2, <2>1 DEF StateOf
  <2> QED BY <1>5, <1>6, <2>1, <2>2, OpenWhileWorking, MoveStep
<1> QED BY <1>7, <1>8

LEMMA ReturnRefines ==
    ASSUME IInv, OwnedInv, NEW a \in Actors, DropResult(a) \/ DeliverResult(a)
    PROVE  Contract!Next
<1>1. /\ pc[a] # "trigger" /\ cur[a] \in Frames /\ cur' = [cur EXCEPT ![a] = None]
      /\ UNCHANGED <<mRequestList, moved, nextFrame, mClosed>>
    BY DEF DropResult, DeliverResult, At, IInv, CurInv, Actors, stateVars, sessionVars, queueVars
<1>2. UNCHANGED results \/ results' = [results EXCEPT ![cur[a]] = @ + 1]
    BY DEF DropResult, DeliverResult, stateVars, clientVars
<1>3. cur[a] # None
    BY <1>1, MaxFrameAssumption
<1> QED BY <1>1, <1>2, <1>3, LetGoOne

(* After a device error the request is lost; else it has been let go.      *)
LEMMA SignalRequestDoneRefines ==
    ASSUME IInv, OwnedInv, SignalRequestDone
    PROVE  Contract!Next \/ UNCHANGED Contract!vars
<1>1. /\ OT \in Actors /\ pc[OT] \in {"done", "dying"} /\ cur' = [cur EXCEPT ![OT] = None]
      /\ UNCHANGED <<mRequestList, moved, nextFrame, results, mClosed>>
    BY DEF SignalRequestDone, At, Actors, sessionVars, clientVars
<1>2. CASE cur[OT] = None
  <2>1. cur' = cur
      BY <1>1, <1>2 DEF IInv, TypeOK
  <2> QED BY <1>1, <2>1, PendingSame, StateKept
<1>3. CASE cur[OT] # None
  <2> QED BY <1>1, <1>3, LetGoOne
<1> QED BY <1>2, <1>3

(* The number of a frame is used up when mdp_trigger has accepted it.      *)
LEMMA TriggerRefines ==
    ASSUME IInv, OwnedInv, NEW c \in Callers, NEW status \in BOOLEAN, TriggerRequest(c, status)
    PROVE  Contract!Next
<1>1. /\ c \in Actors /\ pc[c] = "trigger" /\ cur[c] = nextFrame /\ nextFrame \in Frames
      /\ nextFrame' = nextFrame + 1 /\ nextFrame # None
      /\ UNCHANGED <<mRequestList, moved, cur, results, mClosed>>
    BY DEF TriggerRequest, At, Actors, IInv, CurInv, workVars, sessionVars, queueVars, clientVars
<1>2. nextFrame \in Nat /\ \A f \in Frames : f \in Nat
    BY <1>1 DEF Frames
<1>3. Pending(nextFrame) /\ results[nextFrame] = 0
    BY <1>1, <1>2 DEF Pending, OwnedInv, ResultInv
<1>4. ASSUME NEW f \in Frames, f # nextFrame PROVE StateOf(f)' = StateOf(f)
  <2>1. f \in Nat /\ (f >= nextFrame + 1 <=> f >= nextFrame)
      BY <1>2, <1>4
  <2>2. Pending(f)' <=> Pending(f)
      BY <1>1, PendingSame
  <2> QED BY <1>1, <2>1, <2>2 DEF StateOf
<1>5. StateOf(nextFrame) = "unused"
    BY <1>2 DEF StateOf
<1> DEFINE f == nextFrame
<1>6. PICK g \in Frames : g = nextFrame
    BY <1>1
<1>7. StateOf(g)' = "accepted"
    BY <1>1, <1>2, <1>3, <1>6, PendingSame DEF StateOf
<1> QED BY <1>1, <1>4, <1>5, <1>6, <1>7, OpenWhileWorking, MoveStep

LEMMA CloseRefines ==
    ASSUME IInv, OwnedInv, NEW c \in Callers, CloseFinish(c) PROVE Contract!Next
<1>1. /\ pc[c] = "close_finish" /\ mClosed' = TRUE
      /\ UNCHANGED <<mRequestList, moved, cur, nextFrame, results>>
    BY DEF CloseFinish, At, workVars, queueVars, clientVars
<1>2. ~mClosed
    BY <1>1 DEF IInv, DrainInv, DrainPcs
<1>3. \A f \in Frames : StateOf(f) # "accepted"
    BY <1>1, NothingLeft, AcceptedIsPending
<1>4. \A f \in Frames : StateOf(f)' = StateOf(f)
    BY <1>1, PendingSame DEF StateOf
<1>5. Contract!Close
    BY <1>1, <1>2, <1>3, <1>4 DEF Contract!Close, StateOf
<1> QED BY <1>5 DEF Contract!Next

(* A request that is handed on stays accepted: prepared under a number     *)
(* that is not used yet, put on the list, taken off it by a flush or by    *)
(* the OutputThread.                                                       *)
LEMMA HandOnRefines ==
    ASSUME IInv, OwnedInv,
           UNCHANGED <<nextFrame, results, mClosed>>,
           \/ \E c \in Callers : \/ \E streams \in SUBSET Streams, settings \in BOOLEAN :
                                       PrepareRequest(c, streams, settings)
                                 \/ SubmitRequest(c) \/ FlushStart(c) \/ FlushNext(c)
           \/ ThreadTakeRequest
    PROVE  UNCHANGED Contract!vars
<1>b. /\ cur \in [Actors -> Frames \cup {None}] /\ moved \in [Callers -> Seq(Frames)]
      /\ mRequestList \in Seq(Frames) /\ nextFrame \in Nat /\ \A f \in Frames : f \in Nat /\ f # None
    BY DEF IInv, TypeOK, Frames
<1>1. ASSUME NEW c \in Callers, NEW streams \in SUBSET Streams, NEW settings \in BOOLEAN,
             PrepareRequest(c, streams, settings), NEW f \in Frames, f < nextFrame
      PROVE  Pending(f)' <=> Pending(f)
  <2>1. /\ c \in Actors /\ cur[c] = None /\ cur' = [cur EXCEPT ![c] = nextFrame]
        /\ UNCHANGED <<mRequestList, moved>>
      BY <1>1 DEF PrepareRequest, At, Actors, IInv, CurInv, queueVars
  <2>2. \A a \in Actors : cur'[a] = IF a = c THEN nextFrame ELSE cur[a]
      BY <1>b, <2>1
  <2> QED BY <1>b, <1>1, <2>1, <2>2 DEF Pending, Queued
<1>2. ASSUME NEW c \in Callers, SubmitRequest(c), NEW f \in Frames
      PROVE  Pending(f)' <=> Pending(f)
  <2>1. /\ c \in Actors /\ cur[c] \in Frames /\ cur' = [cur EXCEPT ![c] = None]
        /\ mRequestList' = Append(mRequestList, cur[c]) /\ UNCHANGED moved
      BY <1>2 DEF SubmitRequest, At, Actors, IInv, CurInv
  <2>2. \A a \in Actors : cur'[a] = IF a = c THEN None ELSE cur[a]
      BY <1>b, <2>1
  <2>3. Queued(f)' <=> Queued(f) \/ f = cur[c]
    <3>1. /\ DOMAIN mRequestList' = DOMAIN mRequestList \cup {Len(mRequestList) + 1}
          /\ \A i \in DOMAIN mRequestList : mRequestList'[i] = mRequestList[i]
          /\ mRequestList'[Len(mRequestList) + 1] = cur[c]
        BY <1>b, <2>1
    <3> QED BY <3>1 DEF Queued
  <2> QED BY <1>b, <2>1, <2>2, <2>3 DEF Pending
<1>3. ASSUME NEW c \in Callers, FlushStart(c), NEW f \in Frames
      PROVE  Pending(f)' <=> Pending(f)
  <2>1. /\ moved[c] = <<>> /\ moved' = [moved EXCEPT ![c] = mRequestList] /\ mRequestList' = <<>>
        /\ UNCHANGED cur
      BY <1>3 DEF FlushStart, At, IInv, MovedInv
  <2>2. \A d \in Callers : moved'[d] = IF d = c THEN mRequestList ELSE moved[d]
      BY <1>b, <2>1
  <2>3. \A i \in DOMAIN moved[c] : FALSE
      BY <2>1
  <2> QED BY <2>1, <2>2, <2>3 DEF Pending, Queued
<1>4. ASSUME NEW c \in Callers, FlushNext(c), NEW f \in Frames
      PROVE  Pending(f)' <=> Pending(f)
  <2>1. /\ c \in Actors /\ cur[c] = None /\ moved[c] # <<>> /\ UNCHANGED mRequestList
        /\ cur' = [cur EXCEPT ![c] = Head(moved[c])] /\ moved' = [moved EXCEPT ![c] = Tail(moved[c])]
      BY <1>4 DEF FlushNext, At, Actors, IInv, CurInv, stateVars, queueVars
  <2>2. /\ \A a \in Actors : cur'[a] = IF a = c THEN Head(moved[c]) ELSE cur[a]
        /\ \A d \in Callers : moved'[d] = IF d = c THEN Tail(moved[c]) ELSE moved[d]
      BY <1>b, <2>1
  <2>3. (\E i \in DOMAIN moved[c] : moved[c][i] = f)
           <=> (f = Head(moved[c]) \/ \E i \in DOMAIN Tail(moved[c]) : Tail(moved[c])[i] = f)
    <3>1. moved[c] \in Seq(Frames)
        BY <1>b
    <3> QED BY <2>1, <3>1, HeadOrTail
  <2> QED BY <1>b, <2>1, <2>2, <2>3 DEF Pending, Queued
<1>5. ASSUME ThreadTakeRequest, NEW f \in Frames
      PROVE  Pending(f)' <=> Pending(f)
  <2>1. /\ OT \in Actors /\ cur[OT] = None /\ mRequestList # <<>> /\ UNCHANGED moved
        /\ cur' = [cur EXCEPT ![OT] = Head(mRequestList)] /\ mRequestList' = Tail(mRequestList)
      BY <1>5 DEF ThreadTakeRequest, At, Actors, IInv, CurInv
  <2>2. \A a \in Actors : cur'[a] = IF a = OT THEN Head(mRequestList) ELSE cur[a]
      BY <1>b, <2>1
  <2>3. Queued(f) <=> f = Head(mRequestList) \/ Queued(f)'
    <3>1. (\E i \in DOMAIN mRequestList : mRequestList[i] = f)
             <=> (f = Head(mRequestList) \/ \E i \in DOMAIN Tail(mRequestList) : Tail(mRequestList)[i] = f)
        BY <1>b, <2>1, HeadOrTail
    <3> QED BY <2>1, <3>1 DEF Queued
  <2> QED BY <1>b, <2>1, <2>2, <2>3 DEF Pending
<1> QED BY <1>1, <1>2, <1>3, <1>4, <1>5, StateKept

(* All other steps do not touch what the client knows.                     *)
LEMMA SilentRefines ==
    ASSUME IInv, UNCHANGED <<mRequestList, moved, cur, nextFrame, results, mClosed>>
    PROVE  UNCHANGED Contract!vars
BY PendingSame, StateKept

LEMMA NextRefines ==
    ASSUME IInv, OwnedInv, [Next]_vars PROVE [Contract!Next]_(Contract!vars)
<1> DEFINE Refined == Contract!Next \/ UNCHANGED Contract!vars
<1>1. ASSUME NEW a \in Actors, ReturnStep(a) PROVE Refined
  <2>1. CASE ReportRequestError(a) \/ EnterCallback(a)
      BY <2>1, SilentRefines DEF ReportRequestError, EnterCallback, workVars, sessionVars,
         queueVars, clientVars
  <2> QED BY <1>1, <2>1, ReturnRefines DEF ReturnStep
<1>2. ASSUME NEW c \in Callers, CallStep(c) PROVE Refined
  <2>1. CASE \/ ConfigureRefused(c) \/ EndBatch(c)
             \/ \E streams \in SUBSET Streams : ConfigureAccepted(c, streams)
             \/ FlushClosed(c) \/ FlushWake(c) \/ FlushReturn(c)
             \/ CloseRequestExit(c) \/ CloseJoin(c)
             \/ DumpClosed(c) \/ DumpOpen(c) \/ DumpPrint(c) \/ DumpNoThread(c)
    <3>1. UNCHANGED <<mRequestList, moved, cur, nextFrame, results, mClosed>>
        BY <2>1 DEF ConfigureRefused, EndBatch, ConfigureAccepted, FlushClosed, FlushWake,
           FlushReturn, CloseRequestExit, CloseJoin, DumpClosed, DumpOpen, DumpPrint,
           DumpNoThread, workVars, stateVars, sessionVars, queueVars, clientVars
    <3> QED BY <3>1, SilentRefines
  <2>2. CASE \/ \E streams \in SUBSET Streams, settings \in BOOLEAN :
                   PrepareRequest(c, streams, settings)
             \/ SubmitRequest(c) \/ FlushStart(c) \/ FlushNext(c)
    <3>1. UNCHANGED <<nextFrame, results, mClosed>>
        BY <2>2 DEF PrepareRequest, SubmitRequest, FlushStart, FlushNext, stateVars, sessionVars,
           clientVars
    <3> QED BY <2>2, <3>1, HandOnRefines
  <2>3. CASE \E status \in BOOLEAN : TriggerRequest(c, status)
      BY <2>3, TriggerRefines
  <2>4. CASE CloseFinish(c)
      BY <2>4, CloseRefines
  <2>5. CASE ReturnStep(c)
      BY <1>1, <2>5 DEF Actors
  <2> QED BY <1>2, <2>1, <2>2, <2>3, <2>4, <2>5 DEF CallStep
<1>3. ASSUME NEW c \in Callers,
             (\E operation \in Operations \ {"dump"} : Enter(c, operation))
             \/ DumpLock(c) \/ DumpGiveUp(c)
      PROVE  Refined
    BY <1>3, SilentRefines DEF Enter, DumpLock, DumpGiveUp, workVars, stateVars, sessionVars,
       queueVars, clientVars
<1>4. CASE ThreadStep
  <2>1. CASE \/ ThreadExit \/ ConvertSingle \/ CaptureFenceTimeout \/ FillResult
             \/ ReportDeviceError
             \/ \E usable \in 0 .. 2, converted \in BOOLEAN : ConvertPair(usable, converted)
      BY <2>1, SilentRefines DEF ThreadExit, ConvertSingle, CaptureFenceTimeout, FillResult,
         ReportDeviceError, ConvertPair, workVars, stateVars, sessionVars, queueVars, clientVars
  <2>2. CASE ThreadTakeRequest
    <3>1. UNCHANGED <<nextFrame, results, mClosed>>
        BY <2>2 DEF ThreadTakeRequest, sessionVars, clientVars
    <3> QED BY <2>2, <3>1, HandOnRefines
  <2> QED BY <1>1, <1>4, <2>1, <2>2, SignalRequestDoneRefines DEF ThreadStep, Actors
<1>5. CASE UNCHANGED vars
    BY <1>5, SilentRefines DEF vars, workVars, stateVars, sessionVars, queueVars, clientVars
<1> QED BY <1>2, <1>3, <1>4, <1>5 DEF Next

(* Whatever calls overlap, whatever fails and whenever the client closes:  *)
(* the session accepts a frame once, while it is open, calls the client    *)
(* back for it at most once, and not after closing, and closes with no     *)
(* frame left accepted.                                                    *)
THEOREM SessionKeepsContract == Spec => KeepsContract
<1>1. Init => Contract!Init
  <2> SUFFICES ASSUME Init PROVE Contract!Init
      OBVIOUS
  <2>1. ~mClosed /\ \A f \in Frames : f >= nextFrame
      BY DEF Init, Frames
  <2>2. results = [f \in Frames |-> 0]
      BY DEF Init
  <2> QED BY <2>1, <2>2 DEF Contract!Init
<1>2. IInv /\ OwnedInv /\ [Next]_vars => [Contract!Next]_(Contract!vars)
    BY NextRefines
<1> QED BY <1>1, <1>2, SessionOwnership, PTL DEF Spec, KeepsContract, Contract!Spec
=============================================================================
