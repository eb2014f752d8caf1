----------------------------- MODULE StreamTables -----------------------------
(***************************************************************************)
(* The two tables of a capture session: mStreamMap, the streams, and       *)
(* mCirculatingBuffers, the buffers imported for each.  Configuring,       *)
(* requests, close() and the switchToOffline() of device 3.6 change both,  *)
(* each its own way, and cleanupBuffersLocked() reads the second by the    *)
(* keys of the first with at(), whose exception nobody catches.  Requests  *)
(* hold pointers into the second until the output thread has settled them. *)
(* A call holds mInterfaceLock, so there is one at a time; what it does    *)
(* under mLock and mCbsLock is one step.  The offline session is here only *)
(* as far as HDMI-RX gets: a request that is kept for it has no frameIn,   *)
(* and making its frame from that ends the process.                        *)
(***************************************************************************)
EXTENDS Naturals, Sequences, FiniteSets

CONSTANTS
    StreamIdsUsed,   \* ids the client uses
    BufferIds,       \* ids of the buffers it sends for a stream
    NoBuffer,        \* BUFFER_ID_NO_BUFFER, sent with no buffer
    mSupportBufMgr,  \* device 3.5 or 3.6, and the client has the callback of 3.5
    MaxStreamFrames  \* bound on the requests that are queued

ASSUME TablesAssumption == MaxStreamFrames \in Nat /\ NoBuffer \notin BufferIds /\ mSupportBufMgr \in BOOLEAN

StreamFormats == {"BLOB", "VIDEO"}
SentBuffers == StreamIdsUsed \X (BufferIds \cup {NoBuffer})

VARIABLES
    mStreamMap,          \* the format of each stream; "none" for an entry operator[] made
    mCirculatingBuffers, \* the imported buffers of each stream
    mInflightFrames,
    waiting,             \* mRequestList: frame number and buffers of each request
    processing,          \* the requests of the output thread: one, or none
    tableCall,           \* where the client's call is, the stream to keep, the requests it took
    streamsClosed        \* mClosed
VARIABLES                \* history
    frameCount,          \* requests queued so far
    strange,             \* ids not configured that a refused request has named
    poisoned,            \* ids a refused switchToOffline or a request without a buffer has put in
                         \* mStreamMap, until a buffer is imported for them
    waitedOut,           \* switchToOffline has gone on after three seconds
    tablesDied           \* the process has crashed, and of what

tableVars == <<mStreamMap, mCirculatingBuffers, mInflightFrames, waiting, processing, tableCall,
               streamsClosed, frameCount, strange, poisoned, waitedOut, tablesDied>>

Put(table, ids, value) ==
    [id \in DOMAIN table \cup ids |-> IF id \in DOMAIN table THEN table[id] ELSE value]
Without(table, ids) == [id \in DOMAIN table \ ids |-> table[id]]
NoEntries == [id \in {} |-> {}]
NoTableCall == [at |-> "idle", keep |-> {}, moved |-> {}]

TablesInit ==
    /\ mStreamMap = NoEntries /\ mCirculatingBuffers = NoEntries
    /\ mInflightFrames = {} /\ waiting = <<>> /\ processing = {}
    /\ tableCall = NoTableCall /\ streamsClosed = FALSE
    /\ frameCount = 0 /\ strange = {} /\ poisoned = {} /\ waitedOut = FALSE /\ tablesDied = "no"

-----------------------------------------------------------------------------
(* isStreamCombinationSupported, once every stream is one isSupported      *)
(* accepts: at most two processed streams and one that stalls.             *)
isStreamCombinationSupported(config) ==
    /\ DOMAIN config # {}
    /\ Cardinality({id \in DOMAIN config : config[id] = "BLOB"}) <= 1
    /\ Cardinality({id \in DOMAIN config : config[id] # "BLOB"}) <= 2

(* Fault: a stream gets its entry when its first buffer comes.             *)
EntriesFor_Later(ids) == mCirculatingBuffers

(* emplace, for the ids mStreamMap does not have: one that has buffers     *)
(* keeps them, and one that is in mStreamMap without an entry gets none.   *)
EntriesFor(ids) == Put(mCirculatingBuffers, ids \ DOMAIN mStreamMap, {})

(* cleanupBuffersLocked for each of the ids.                               *)
CleanUp(ids, table) ==
    /\ mCirculatingBuffers' = Without(table, ids)
    /\ tablesDied' = IF ids \subseteq DOMAIN table THEN "no" ELSE "at"

(* Fault: the requests in flight are not asked for.                        *)
NothingInFlight_Unasked == TRUE

NothingInFlight == mInflightFrames = {}

(* configureStreams: new streams get their entries; a known id keeps what  *)
(* it has, but one asked for as IMPLEMENTATION_DEFINED gets the format of  *)
(* the signal; those not asked for are cleaned up.                         *)
configureStreams(config) ==
    /\ tableCall.at = "idle" /\ ~streamsClosed
    /\ isStreamCombinationSupported(config) /\ NothingInFlight
    /\ \E overridden \in SUBSET {id \in DOMAIN config : config[id] = "VIDEO"} :
          mStreamMap' = [id \in DOMAIN config |->
             IF id \in DOMAIN mStreamMap \ overridden THEN mStreamMap[id] ELSE config[id]]
    /\ CleanUp(DOMAIN mStreamMap \ DOMAIN config, EntriesFor(DOMAIN config))
    /\ strange' = strange \ DOMAIN config
    /\ UNCHANGED <<mInflightFrames, waiting, processing, tableCall, streamsClosed, frameCount,
                   poisoned, waitedOut>>

-----------------------------------------------------------------------------
(* A request and its buffers, two of different streams at most; with the   *)
(* buffer manager the client may leave them to be asked for.               *)
Ids(buffers) == {use[1] : use \in buffers}
Real(buffers) == {use \in buffers : use[2] # NoBuffer}
RequestBuffers ==
    {buffers \in SUBSET SentBuffers :
        /\ Cardinality(buffers) \in 1 .. 2 /\ Cardinality(Ids(buffers)) = Cardinality(buffers)
        /\ Real(buffers) \in {buffers, {}}}

(* importBufferImpl: the entry comes first, then the buffer; no buffer is  *)
(* nothing to import, and an error without a buffer manager.               *)
Allowed(buffers) == mSupportBufMgr \/ Real(buffers) = buffers
Import(named, buffers) ==
    LET table == Put(mCirculatingBuffers, named, {})
    IN  [id \in DOMAIN table |-> table[id] \cup {b \in BufferIds : <<id, b>> \in buffers}]

(* Ids that operator[] puts in mStreamMap and that have no entry for       *)
(* buffers.                                                                *)
NewWithout(ids) == ids \ (DOMAIN mStreamMap \cup DOMAIN mCirculatingBuffers)

(* A buffer cannot be imported, or all are and a fence cannot.             *)
RequestRefused(buffers) ==
    /\ tableCall.at = "idle" /\ ~streamsClosed
    /\ \E imported \in SUBSET Real(buffers), named \in SUBSET Ids(Real(buffers)) :
          /\ Ids(imported) \subseteq named
          /\ mCirculatingBuffers' = Import(named, imported)
          /\ strange' = strange \cup (named \ DOMAIN mStreamMap)
          /\ poisoned' = poisoned \ named
    /\ UNCHANGED <<mStreamMap, mInflightFrames, waiting, processing, tableCall, streamsClosed,
                   frameCount, waitedOut, tablesDied>>

(* All is imported.  mStreamMap[streamId] makes an entry for an id that is *)
(* not configured.  Without an intermediate buffer that is all.            *)
RequestImported(buffers) ==
    /\ tableCall.at = "idle" /\ ~streamsClosed /\ Allowed(buffers)
    /\ mCirculatingBuffers' = Import(Ids(Real(buffers)), buffers)
    /\ mStreamMap' = Put(mStreamMap, Ids(buffers), "none")
    /\ poisoned' = (poisoned \cup NewWithout(Ids(buffers))) \ Ids(Real(buffers))
    /\ \/ /\ frameCount < MaxStreamFrames /\ frameCount' = frameCount + 1
          /\ waiting' = Append(waiting, [frame |-> frameCount', buffers |-> buffers])
          /\ mInflightFrames' = mInflightFrames \cup {frameCount'}
       \/ /\ Cardinality(buffers) = 2
          /\ UNCHANGED <<frameCount, waiting, mInflightFrames>>
    /\ UNCHANGED <<processing, tableCall, streamsClosed, strange, waitedOut, tablesDied>>

QueuedUses == UNION {waiting[k].buffers : k \in DOMAIN waiting}
Uses == Real(QueuedUses \cup UNION {request.buffers : request \in processing \cup tableCall.moved})

(* What processCaptureRequest does first.  The client names buffers it has *)
(* let go of: none that a request uses.                                    *)
updateBufferCaches(id, b) ==
    /\ tableCall.at = "idle" /\ id \in DOMAIN mCirculatingBuffers
    /\ <<id, b>> \notin Uses
    /\ mCirculatingBuffers' = [mCirculatingBuffers EXCEPT ![id] = @ \ {b}]
    /\ UNCHANGED <<mStreamMap, mInflightFrames, waiting, processing, tableCall, streamsClosed,
                   frameCount, strange, poisoned, waitedOut, tablesDied>>

-----------------------------------------------------------------------------
(* The output thread: it takes a request, and when its buffers are used it *)
(* erases the record, then waits for a fence, then signals that it is done.*)
ThreadTakes ==
    /\ processing = {} /\ waiting # <<>>
    /\ processing' = {Head(waiting)} /\ waiting' = Tail(waiting)
    /\ UNCHANGED <<mStreamMap, mCirculatingBuffers, mInflightFrames, tableCall, streamsClosed,
                   frameCount, strange, poisoned, waitedOut, tablesDied>>

ThreadSettles ==
    /\ \E request \in processing :
          /\ request.buffers # {}
          /\ processing' = {[request EXCEPT !.buffers = {}]}
          /\ mInflightFrames' = mInflightFrames \ {request.frame}
    /\ UNCHANGED <<mStreamMap, mCirculatingBuffers, waiting, tableCall, streamsClosed, frameCount,
                   strange, poisoned, waitedOut, tablesDied>>

signalRequestDone ==
    /\ \E request \in processing : request.buffers = {}
    /\ processing' = {}
    /\ UNCHANGED <<mStreamMap, mCirculatingBuffers, mInflightFrames, waiting, tableCall,
                   streamsClosed, frameCount, strange, poisoned, waitedOut, tablesDied>>

-----------------------------------------------------------------------------
(* flush, close and switchToOffline take the list from the output thread   *)
(* and then wait for its request: the first and last for three seconds,    *)
(* close for its end.                                                      *)
TakeList(at, keep) ==
    /\ tableCall.at = "idle" /\ ~streamsClosed
    /\ tableCall' = [at |-> at, keep |-> keep, moved |-> {waiting[k] : k \in DOMAIN waiting}]
    /\ waiting' = <<>>
    /\ UNCHANGED <<mStreamMap, mCirculatingBuffers, mInflightFrames, processing, streamsClosed,
                   frameCount, strange, poisoned, waitedOut, tablesDied>>

MovedFrames == {request.frame : request \in tableCall.moved}

flushEnds ==
    /\ tableCall.at = "flush"
    /\ mInflightFrames' = mInflightFrames \ MovedFrames
    /\ tableCall' = NoTableCall
    /\ UNCHANGED <<mStreamMap, mCirculatingBuffers, waiting, processing, streamsClosed, frameCount,
                   strange, poisoned, waitedOut, tablesDied>>

closeEnds ==
    /\ tableCall.at = "close" /\ processing = {}
    /\ mInflightFrames' = mInflightFrames \ MovedFrames
    /\ CleanUp(DOMAIN mStreamMap, mCirculatingBuffers)
    /\ streamsClosed' = TRUE
    /\ tableCall' = NoTableCall
    /\ UNCHANGED <<mStreamMap, waiting, processing, frameCount, strange, poisoned, waitedOut>>

(* supportOfflineLocked looks with operator[].                             *)
supportOfflineLocked(id) == id \in DOMAIN mStreamMap /\ mStreamMap[id] = "BLOB"

switchToOfflineRefused(id) ==
    /\ tableCall.at = "idle" /\ ~streamsClosed
    /\ ~supportOfflineLocked(id)
    /\ mStreamMap' = Put(mStreamMap, {id}, "none")
    /\ poisoned' = poisoned \cup NewWithout({id})
    /\ UNCHANGED <<mCirculatingBuffers, mInflightFrames, waiting, processing, tableCall,
                   streamsClosed, frameCount, strange, waitedOut, tablesDied>>

(* One stream to keep at most.                                             *)
Keepable == {{}} \cup {{id} : id \in {i \in StreamIdsUsed : supportOfflineLocked(i)}}

canDropRequest(request) == Ids(request.buffers) \cap tableCall.keep = {}

(* A request that is kept: new AllocatedV4L2Frame(nullptr).                *)
switchToOfflineKeeps ==
    /\ tableCall.at = "offline"
    /\ \E request \in tableCall.moved : ~canDropRequest(request)
    /\ tablesDied' = "frame"
    /\ UNCHANGED <<mStreamMap, mCirculatingBuffers, mInflightFrames, waiting, processing, tableCall,
                   streamsClosed, frameCount, strange, poisoned, waitedOut>>

(* The buffers of the stream to keep move to the offline session; when     *)
(* that is up, all else is cleaned up and forgotten, also a request that   *)
(* was not done in time.  The client gets no session, there being no       *)
(* request for it, so the object goes, and its close() frees what moved.   *)
switchToOfflineEnds ==
    /\ tableCall.at = "offline"
    /\ \A request \in tableCall.moved : canDropRequest(request)
    /\ waitedOut' = (waitedOut \/ processing # {})
    /\ \/ /\ mStreamMap' = NoEntries /\ mCirculatingBuffers' = NoEntries /\ mInflightFrames' = {}
          /\ tablesDied' = IF DOMAIN mStreamMap \subseteq DOMAIN mCirculatingBuffers THEN "no" ELSE "at"
       \/ /\ mStreamMap' = Without(mStreamMap, tableCall.keep)
          /\ mCirculatingBuffers' = Without(mCirculatingBuffers, tableCall.keep)
          /\ mInflightFrames' = mInflightFrames \ MovedFrames
          /\ tablesDied' = IF tableCall.keep \subseteq DOMAIN mCirculatingBuffers THEN "no" ELSE "at"
    /\ tableCall' = NoTableCall
    /\ UNCHANGED <<waiting, processing, streamsClosed, frameCount, strange, poisoned>>

Configurations == UNION {[ids -> StreamFormats] : ids \in SUBSET StreamIdsUsed}

TablesNext ==
    /\ tablesDied = "no"
    /\ \/ \E config \in Configurations : configureStreams(config)
       \/ \E buffers \in RequestBuffers : RequestRefused(buffers) \/ RequestImported(buffers)
       \/ \E id \in StreamIdsUsed, b \in BufferIds : updateBufferCaches(id, b)
       \/ ThreadTakes \/ ThreadSettles \/ signalRequestDone
       \/ TakeList("flush", {}) \/ TakeList("close", {})
       \/ \E keep \in Keepable : TakeList("offline", keep)
       \/ flushEnds \/ closeEnds \/ switchToOfflineKeeps \/ switchToOfflineEnds
       \/ \E id \in StreamIdsUsed : switchToOfflineRefused(id)

-----------------------------------------------------------------------------
Requests == [frame : 1 .. MaxStreamFrames, buffers : SUBSET SentBuffers]

TablesTypeOK ==
    /\ DOMAIN mStreamMap \subseteq StreamIdsUsed
    /\ \A id \in DOMAIN mStreamMap : mStreamMap[id] \in StreamFormats \cup {"none"}
    /\ DOMAIN mCirculatingBuffers \subseteq StreamIdsUsed
    /\ \A id \in DOMAIN mCirculatingBuffers : mCirculatingBuffers[id] \subseteq BufferIds
    /\ mInflightFrames \subseteq 1 .. MaxStreamFrames
    /\ waiting \in Seq(Requests) /\ processing \subseteq Requests
    /\ tableCall \in [at : {"idle", "flush", "close", "offline"}, keep : SUBSET StreamIdsUsed,
                      moved : SUBSET Requests]
    /\ streamsClosed \in BOOLEAN /\ waitedOut \in BOOLEAN
    /\ frameCount \in 0 .. MaxStreamFrames
    /\ strange \subseteq StreamIdsUsed /\ poisoned \subseteq StreamIdsUsed
    /\ tablesDied \in {"no", "at", "frame"}

(* The session 2484 to 2515, 2006 to 2012, 532 to 559: both tables have    *)
(* the same streams, so that at() finds what the other table names, and a  *)
(* closed session has freed every buffer.  What spoils it is named: a      *)
(* refused request leaves buffers of a stream nobody configured; a refused *)
(* switchToOffline (3.6, 117 to 125) or a request without a buffer leaves  *)
(* a stream without an entry for its buffers, and configuring it makes     *)
(* none (2499 to 2504): a configuration without it, switchToOffline or     *)
(* close dies, unless a buffer was imported for it by then.                *)
TablesAgree ==
    /\ tablesDied = "at" => poisoned # {}
    /\ tablesDied = "no" =>
          /\ DOMAIN mCirculatingBuffers \ DOMAIN mStreamMap \subseteq strange
          /\ streamsClosed \/ DOMAIN mStreamMap \ DOMAIN mCirculatingBuffers \subseteq poisoned
          /\ streamsClosed => DOMAIN mCirculatingBuffers \subseteq strange

(* A request holds pointers to imported buffers (HalStreamBuffer::bufPtr): *)
(* none is freed before the request is settled, whatever is configured,    *)
(* flushed, switched or closed meanwhile, unless switchToOffline has gone  *)
(* on without the request it waited for.                                   *)
BuffersOutliveRequests ==
    tablesDied = "no" /\ ~waitedOut =>
       \A use \in Uses : use[1] \in DOMAIN mCirculatingBuffers
                         /\ use[2] \in mCirculatingBuffers[use[1]]
===============================================================================
