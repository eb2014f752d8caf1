# TLA+ models of the HDMI HALs

The repository holds three Android HAL services around HDMI: HDMI input as a
camera (`src/hdmirx`), CEC (`src/hdmi_cec`) and HDMI/DP output (`src/hdmi`).
This directory holds TLA+ modules for their concurrent cores, TLC
configurations that check them on small instances, and TLAPS proofs of the
invariants that matter most. `PROJECT.json` relates every definition to the
lines it models, and lists runs, findings and hazards.

    tlc -workers 2 -config CaptureSession_safety.cfg MCCaptureSession
    tlapm CaptureSession_proofs.tla

## The system

| part | state | operations | hard part |
|---|---|---|---|
| capture session (`hdmirx/.../3.4/default/HdmirxCameraDeviceSession.cpp`) | `mInterfaceLock`, `mClosed`, `mInflightFrames`, `mCirculatingBuffers`, `interBuffers`, the OutputThread with `mRequestList` and `mProcessingRequest` | configureStreams, processCaptureRequest, flush, close, dumpState; threadLoop | binder threads against the OutputThread; waits that time out; requests that end as errors; a pool of four buffers |
| session V4L2 half | `mV4l2*` | not reached | none |
| image conversion (`mdp_ctl.cpp`, gralloc and DMA-BUF wrappers) | open device handles | mdp_trigger, mdp_1in1out, mdp_1in2out | formats and strides |
| camera device (`HdmirxCameraDevice.cpp`) | `mSession`, `mLock` | open, dumpState, getCameraCharacteristics | open() drops its lock while it retries |
| signal status (`hdmi_ctl.cpp`) | `g_Hdmirx_lock_status`, `g_vinfo` | query, update, read | written by the hot-plug thread, read by sessions, no lock |
| camera provider (`HdmiRxCameraProviderImpl_2_4.cpp`) | `mCameraStatusMap`, `mCallbacks` | setCallback, getCameraDeviceInterface, HotplugThread | the map is read outside its lock |
| session 3.5 | BufferRequestThread's `mRequestingBuffer` and lists | requestBufferStart, waitForBufferRequestDone | a timeout against a late answer |
| session 3.6 | offline requests | switchToOffline | moves requests between two sessions |
| tv_input and `hdmirx/lib` | one open stream, event callbacks | open/close stream | observers that are stopped but not joined |
| CEC mediator (`hdmi_cec/src/hwcec.cpp`) | `m_lock`, `mPA`, `mPrePA`, `mLA`, `mConnect`, `mportinfo`, `mCbf`, options | the calls of the CEC device; ueventThread; msgEventThread | the uevent thread works outside `m_lock` |
| CEC service (`service/1.0/HdmiCec.cpp`) | `mCallback` | HIDL calls, setCallback, serviceDied | callback cleared while a message thread uses it |
| CEC extra processor, event manager | property, queue | handleEvent | built on request only; not built |
| HDMI-TX service (`hdmi/MtkHdmiService.cpp`) | `mEdid`, `mDPInfo`, the mode applied last, properties | setEDIDInfo(More), set_video_resolution, set_color_*, enable_* | HDMI and DP share globals; half of the calls take no lock |
| OP-TEE sessions (`optee_ctl.cpp`, `MtkHdmiService.cpp`) | context, session, `isConnected` | connect, call, close | half-open sessions |

How they interact.  The provider's hot-plug thread adds and removes the one
camera; the framework opens a device through the provider and gets a session.
Binder threads put requests on the session's list, its OutputThread takes them,
converts the image into the client's buffers and calls the client back.  In the
CEC stack the HIDL service calls the mediator, the mediator's uevent thread and
message threads call the service's event callback, which calls the framework.
The HDMI-TX service is passive: the framework hands EDIDs in and gets settings
back through a callback.

What makes each part correct.

- Session: a request is returned once, by one thread, and not after close; its
  buffers stay mapped while they are written; the pool and the in-flight record
  come back to rest; every call returns.
- Mediator: `mPA`, `mConnect` and the port agree with each other and with the
  connector once things are quiet; a new address is reported; `mLA` is the
  adapter's; one transmission at a time; no call keeps `m_lock`.
- Provider and device: one open session; the framework sees every arrival and
  removal in order.
- HDMI-TX: the mode wanted is one the sink can show, in automatic mode at a
  resolution it lists; a new sink is told; what is recorded as applied was
  applied, to that output.

## Modules

| module | contents |
|---|---|
| `CaptureSession` | the session, its OutputThread, pool, in-flight record |
| `CaptureContract` | what a session promises its client: accepted once, returned at most once (callbacks are counted), closed only when nothing is pending |
| `MCCaptureSession` | symmetry for TLC |
| `CaptureSession_proofs` | proofs about `CaptureSession`: types, locks, what close leaves |
| `CaptureOwnership_proofs` | more about it: who has a request, its buffers, the refinement of `CaptureContract` |
| `CecMediator` | the mediator, its uevent thread and the CEC adapter below |
| `MCCecMediator` | the calls the runs make, symmetry |
| `CecMediator_proofs` | proofs about `CecMediator` |
| `BestMode` | findBestMode, getSuitableResolution and their DisplayPort twins as operators, and what a mode a sink can take is (`Fits`) |
| `HdmiTx` | the output service: sinks, choices of the user, the mode applied last, the callback |
| `MCHdmiTx` | the sinks of the runs |
| `HdmiTx_proofs` | proofs about the two |
| `SignalStatus` | the lock status and video information of `hdmi_ctl.cpp` |
| `CameraProvider` | the provider: hot-plug thread, device map, framework callback; extends `SignalStatus` |
| `CaptureDevice` | device objects, open() with its retries, the life of sessions and of the MDP streams they share |
| `CameraService` | the composition of the three: look-ups make devices, open sessions query the video information |
| `MCCameraService` | threads and symmetry for TLC |
| `CameraService_proofs` | proofs about `CameraService` |
| `TvInput` | TV input HAL: device, streams, player threads, uevent threads, capture requests |
| `ImageConversion` | mdp_trigger and the picture quality block; mdp_1in1out and mdp_1in2out with every failure |
| `HdcpKeys` | OP-TEE sessions for HDCP keys, of the camera and of the output service |
| `StreamTables` | `mStreamMap` and `mCirculatingBuffers` of a capture session, devices 3.4 to 3.6 |
| `SupportedFormats` | formats, rates and cropping made of the configuration file |
| `SupportedFormats_proofs` | proofs about the formats made of any list of limits |
| `CecService` | the CEC service around the mediator: constructor, message threads, the framework's callback |
| `CecService_proofs` | proofs about `CecService` |
| `MediaServices`, `MCMediaServices` | the last six as alternatives of one specification; a set of configuration files |
| `MediaServices_proofs` | proofs about the six parts of `MediaServices` |

Operators named `Action_Something` and headed *Fault* are not used by the
specifications: each is an action as a likely mistake would make it, and there
to show that a property notices the mistake.

### CaptureSession

A binder thread `c` has a program counter `pc[c]`, the method it is in `op[c]`,
the request it works on `cur[c]` and, in flush, the requests it has moved off
the list `moved[c]`. The OutputThread is `OT`. `Enter` takes `mInterfaceLock` as
the `Autolock` at the head of every method does; the steps that follow cut the
method where another thread can come between:

- `processCaptureRequest`: `PrepareRequest` (imports, intermediate buffer),
  `TriggerRequest` (mdp_trigger, in-flight record), `SubmitRequest` (list).
  `EndBatch` is the end of a batch and each early return.
- `flush` and `close`: `FlushStart` moves the list, `FlushWake` ends the wait for
  the request in work (also without its being done: the wait has no predicate
  and a timeout), `FlushNext` and the shared steps `ReportRequestError`,
  `EnterCallback`, `DeliverResult` or `DropResult` return the requests one by
  one; close goes on with `CloseRequestExit`, `CloseJoin`, `CloseFinish`.
- `dumpState`: `DumpLock` or `DumpGiveUp` (50 tries of tryLock used up), then
  `DumpClosed` or `DumpOpen` and `DumpPrint` or `DumpNoThread`.
- `threadLoop`: `ThreadTakeRequest`, one of `ConvertSingle`, `ConvertPair`,
  `CaptureFenceTimeout`, then `FillResult` and the callback, or the error paths,
  and `SignalRequestDone`.

`ConvertPair(usable, converted)` covers the fence waits: with one usable buffer
of two, `mdp_1in1out` is called and refuses the RGB image (`mdp_ctl.cpp:696`).

Abstracted: `mLock` (its sections are inside one step or inside
`mInterfaceLock`), fence descriptors, metadata, image data, buffer sizes and
handles, `native_handle_create` running out of memory, and `updateBufferCaches`
(the client's promise to drop only buffers it no longer uses). The client
numbers its requests upwards. The ERROR_BUFFER branch of `processCaptureResult`
is not reached by any request that gets there.

### CecMediator

`CallBegins(c)` are the calls of the HIDL service, which hold `m_lock`
throughout; a call that is one step leaves it free. `UeventStep` is the uevent
thread: `TakeUevent`, then `handlePlugIn` (`PlugIn`, the query, `ComparePlugIn`,
`RecheckPlugIn`, `NotifyPlugIn`, the wake-up, `FinishPlugIn`; `PlugInTv` for a
TV) or `handlePlugOut` (`PlugOut`, `ForgetAddress`). It takes `m_lock` in `WakeTv`
and `BecomeActive` only. `get_physical_address`, called by both sides, is five
steps: `ResetAddress`, `QueryAddress` (the ioctl), `StoreAddress`, `LoadAddress`,
`PublishAddress`. The kernel is external: `PlugCable`, `ChangeAddress`,
`UnplugCable` change the connector and queue a uevent; `Refuse` makes an ioctl
fail. `handled_pa` and `handling` are history variables for
`AddressChangeIsTold`, and `asked` records that a binder call has queried the
address. `mCecDeviceType` and `mAutoOtp` are chosen initially, as the constructor
reads them from system properties, and never change. `TvKeepsAddress` supposes
that the driver has refused nothing: a query that fails resets the address of a
TV too.

Left out: the message receive threads, the destructor, the uevent thread running
before the constructor has finished, version and vendor queries, `is_connected`
and `get_port_info` (they read `mConnect` and `port_address`), the rejection of
invalid addresses, message bytes and device types.

### HdmiTx and BestMode

The service as `MTK_DRM_HDMI_SUPPORT` builds it, without the XBH chips that fix
the mode. `service.cpp` registers it with `defaultPassthroughServiceImplementation`
and the default of one RPC thread, so that a HIDL call is one step, with or
without `mLock`; the service's own uevent thread touches none of this state.

| variable | code |
|---|---|
| `mask`, `edidT` | `mEdid` and `mDPInfo`; `mEdidT[1]` and `mEdidT[0]` |
| `mode` | `mColorSpaceMode`, `mColorDepthMode`, `mHdrMode`: one record for both outputs |
| `stateChanged`, `crtcKnown` | `mHdmiStateChanged`, `mDpStateChanged`; the CRTC numbers that are not -1 |
| `setting`, `deal` | the properties, per output, which outlive the process; `DEAL_HDMI_RESOLUTION_PROP` and its DP twin, reset by `initialize` |
| `asked`, `told`, `sent`, `owner`, `complete` | history: what the last call wanted, what the callback was told, which output `mode` is of, and whether it was told in full |

`setVideoResolution` stands for `setVideoResolution` and `setDPResolution`; they
differ in that the latter still sends the resolution when the mode is the same.
In the calls that hand in an EDID the state-changed flag is set just before, so
that the model passes it as the argument `changed`. `Tell` picks what of a mode
reaches the display framework: nothing without a callback or with CRTC -1, and
`MaxLost` calls of the callback may fail, which the code only logs. `Restart`
ends the process: the globals are gone, the properties stay. The property
"0xff00", the default of a resolution, is read by `atoi` as 0. `BestMode` keeps the numbers
of the resolutions, for the code compares them, and takes a sink to be what
`setEDIDInfoMore` is told of it; nobody fills in the version of the Dolby Vision
block, so it is 0 in `isMax4k30DoviSink`. `DriverDV` is the property for
the driver's Dolby Vision support being 1, and FALSE its being 0 or unset.

Left out: `enable_hdmi` and the property it writes, which decides nothing; the
record `setVideoConfig` leaves for the boot logo; fractional modes (commented out
in the code); depths other than 8, 10 and 12, which act as 8; the ioctl build.
The case `HDMI_STATUS_OFF` needs the first word to be -2 and all words to be 0,
and never happens.

### SignalStatus, CameraProvider, CaptureDevice, CameraService

One process with `Callers`, RPC threads, and `HotPlug`, which is the constructor of
the provider first and its hot-plug thread afterwards.

| variable | code |
|---|---|
| `signal`, `cable`, `uevents` | outside: the timing at the connector, the 5 V, the netlink socket |
| `lockStatus`, `vinfo`, `hdmiLock` | `g_Hdmirx_lock_status`; `g_vinfo`, `g_devinfo`, `g_hdrinfo`; `m_hdmiLock` |
| `update[t]` | where thread `t` is in `hdmi_update_lock_status`, and its argument |
| `hotPlug` | where the hot-plug thread is: `looks`, `adds` and `binds` are the constructor |
| `entry`, `mCallbacks` | the one camera in `mCameraStatusMap`; the framework's callback |
| `call[c]`, `opening[c]` | where an RPC thread is, in setCallback, a look-up or a query; in open() |
| `device`, `latest`, `session`, `streams` | device objects and `isInitFailed()`; `mSession`; session objects; `mdp_stream` and `mdp_ispStream` |

`hdmi_update_lock_status` is `UpdateTakesLock`, `UpdatePolls` (an undefined status:
the device is asked, up to six times) and `UpdateFills`. A uevent is taken in
`handleHdmiUEvents` and done in `deviceAdded`, `deviceRemoved`, `getHDRInfo` or
`StatusUpdated`; the other kinds of uevent change nothing here. A look at the device may
fail wherever there is one, and then says no cable or no lock (`ConstructorLooks`,
`hdmi_check_video_locked`). `setCallback` is the assignment under `mLock`, then, without
it, the comparison with nullptr, the reading of the map and the call, each of which
reads `mCallbacks` anew; a look-up is cut between `count` and `operator[]`. `open` takes
`mLock`, `openRetries` lets go of it, and a session that cannot be initialised is
deleted before it is given back (`deleteSession`). Each look-up makes a device object
with a lock of its own, so that `mLock` excludes only callers that hold one object. A
session is `open`; `dropped`, when its last reference has gone and its destructor
has not closed it yet, and `mSession` no longer promotes; `failed`, when it could not be
initialised and is about to be deleted; or `closed`. What it does while it is open is
`CaptureSession`.

History variables name what each property leaves out; what they name is in the model,
and not claimed to be harmless. `unheard`: the constructor's look failed, or the cable
moved between it and the binding of the socket, and has not moved since. `initFailed`:
the camera added last could not be initialised and was taken out. `phantom`: a look-up
put the camera in. `crossed`: a plug event was handled during a setCallback or a
look-up. `misread`: the lock status is that of six looks that did not reach the device.
`retried`: an open() on this device has let go of `mLock`. `deletedOpen`: a session was
let go of before it was closed ("deleted before close!").

Left out: uevents that do nothing, a socket that cannot be bound (the thread then
polls a closed descriptor), `hdmi_get_lock_status` (nobody uses its result), the
wrong `sizeof` in the `memset`s of the information blocks, whatever two threads at
once do to the inside of a `std::map`, and calls that only read.

### TvInput

The framework calls one function at a time; beside it run an observer per device
that was opened (`observer`), a player per stream that was opened (`player`) and the
thread of a capture request (`capture`). `open_stream` is `tv_input_open_stream` (the MDP
stream), `create_buffer_queue` (the surface) and `fbm_open` (lock and thread), each of
which may fail and takes nothing back; `close_stream` is its start, `fbm_close` and
`mdp_close_stream`. A round of `process_mdp` is `PlayerLocks` and `PlayerUnlocks`. The
stream numbered 0 cannot be told from no stream (`opened`), which is why a second
stream may be opened beside it. `reinitHeld` records that `fbm_open` initialised
`m_lock` while a player held it.

Left out: `stc_ctl.cpp`, timestamps, stream configurations (their array is one entry
short), and `mdp_reg_done_callback`, which nobody calls, so that a capture is never
answered.

### ImageConversion

The thread of a request parses the HDR packet (`RequestParses`) and triggers
(`TriggerSetsBlock`, `TriggerChoosesFormat`), while the hot-plug thread parses packets
of its own (`HotPlugParses`); `dataSpace` is the field of the block they share. A
conversion goes through the steps of `Following`; `ConvFails` is any of them failing
and `ExitOf` where the code goes then: a return that releases nothing, or a label.
`left` is what a conversion left mapped or open; an output that is mapped has a
descriptor too (`Held`), and both stay where `mdp_1in1out` returns without going to its
label. Taking a good mapping down is supposed to succeed. The plane sizes, pitches and colour
profiles are operators of their own, `hal2dpprofile`, `PlaneSizes`, `MmapSize`, `Pitches`.

Left out: pixels, the MDP, the gralloc wrapper's statistics, source buffers that stay
queued, and the fresh buffer `dmabufAlloc` makes on kernels other than 4.19.

### HdcpKeys

`optee_hdmi_hdcp_connect`, `_call` and `_close` are the same code in both services;
`Commands` says which commands a call has, each with a connect before it. `contexts`
counts `TEEC_InitializeContext` against `TEEC_FinalizeContext`. `setDrmKey` throws the
status away and always answers false (`Answer`), so that only the camera service's
answer says anything of the keys.

### StreamTables

The two tables change under `mInterfaceLock`, so that one call runs at a time beside
the output thread (`ThreadTakes`, `ThreadSettles`, `signalRequestDone`). flush, close and
switchToOffline are a start, `TakeList`, and an end; the end of close waits for the
output thread and the other two may give up waiting. `Put` is `operator[]` or
`emplace`, which keep what is there; configureStreams makes an entry for buffers only
with one in `mStreamMap` (`EntriesFor`), so that an id that `operator[]` put there stays
without. `CaptureSession` takes its buffers as imported for configured streams, and leaves
what an import does to other ids to this module. `strange` and `poisoned` name the ids whose entries
refused calls made. A request that switchToOffline keeps dies on its missing
`frameIn` (`switchToOfflineKeeps`), so that the offline session with requests, and its
threads, are never reached.

### SupportedFormats

`updateFpsList` and `loadFromCfg` read the file, `initSupportedFormats` and its parts
(`updateFpsBounds`, `trimSupportedFormats`, `CroppingTypeOf`) make the formats, the operators after
them what the characteristics say. Floating-point ratios are compared by cross
multiplication. The module's behaviour is two steps: a file is read, a device made.

### CecService

The constructor goes through `construction`: it opens adapters, each of which gets a
message thread at once, starts the uevent thread, initialises, reads the cable, stores
what it read. Uevent thread and message threads go through `eventCallback` in two
steps, the test and the call. The binder thread is one, so that setCallback's two
halves (`setCallback`, `setCallbackSets`) have no other call between them, but a framework may
die there. `serviceDied` clears whatever is set. The device is a player or a TV: for
other types the mediator neither reads the cable nor handles a plug event. A node
that cannot be read, or reads 0xFF, counts as no cable. `stale` names what that, an event
handled between the reading and the assignment, or a cable that moved before the uevent
socket was bound, leaves in `mConnect`. The queries of the address, which
`CecMediator` models, are left out, and so are its destructor and message bytes.

## Runs

Deadlock is not checked for the session, the mediator, the camera service and the
media services: a closed session and a process that died stop, nobody has to call,
and events outside are bounded. It is checked in hdmitx_safety.

| run | instance | shows |
|---|---|---|
| capture_safety | 2 callers, 2 intermediate buffers, 2 streams, 2 frames | types, one owner per request, intermediate buffers exclusive, record not stale, buffers stay mapped, close drains, refinement of `CaptureContract` |
| capture_liveness | 1 caller, 2 buffers, 2 frames, fair | calls return, frames settle |
| capture_dump_lock | 2 callers, 1 frame | finding in dumpState |
| capture_leak, capture_fence | 1 caller, 1 frame | findings in the error paths |
| cec_safety | 1 caller, every call; playback device and TV, wake-up on and off; 3 connector events, 1 refused request of 2 attempts | types, one transmission, retry loop, TV keeps its address; until a binder call queries: changes told, connection, address and port follow the cable |
| cec_liveness | 1 caller, every call, a playback device, fair | calls return, uevents handled |
| cec_lost_plug | 1 caller, every call | finding: queries of two threads share `mPA` |
| hdmitx_safety | two outputs, no sink, a 4k60 and a 4k30 sink, 4 counted calls, a lost callback, a restart | types; an output whose mode is on record shows what was wanted; a new sink is told; modes fit the sink |
| hdmitx_shared | two outputs, one sink, 5 calls | finding: one record of the mode for two outputs |
| camera_service | 2 RPC threads, 2 events, 1 timing, 1 device, 2 sessions, looks that fail, no second retry, symmetry | types; lock status and map follow the connector once things are quiet; the framework knows the map; one session per device; an open session has streams |
| media_services | 2 TV devices, streams and events; 1 conversion, 2 packets; 2 key calls; 2 stream ids, 1 buffer, 2 frames; files of 0 to 3 rows; 2 adapters, 2 frameworks, 2 moves of the cable, 1 message, 3 setCallbacks | types; the parts' safety properties; players end, fair |

media_services is a sum and no composition: its six parts share no state, a
behaviour picks one in its first state, and the others stay as they begin.

Bounds. `MaxFrame` is how many requests a client makes: two are enough for a
request in the OutputThread's hands while another is queued, flushed or
prepared, and for two that could meet in one buffer. Two callers are enough for
one inside and one waiting, or dumping without the lock. The camera
service has six RPC threads (`hdmirx-service.cpp:35`). The CEC service has one
(`hdmi_cec/service/1.0/service.cpp:26` keeps the default), so that one caller is
what runs; that `m_lock` excludes any number of callers is proved. `MaxChanges` events at the connector: plug-in, plug-out and
the same TV again, of which the last may come while the first is handled.
`Attempts` is 4 in the code (`retry = 3`, and the first) and 2 in the runs, one
more than the refusals allowed; the theorem is for every number. Without a
bound on refusals `LogicalAddressIsSet` does not hold, see below.

In camera_service two sessions are enough for one that is open when another is made,
fails, closes late or is let go of. One device object is enough for the races of open();
of sessions of two devices, which nothing keeps from being open at once,
`StreamsWhileOpen` claims nothing. Two events are a change and its undoing, one of them
before the socket is bound or while the other is handled, or a signal that goes and the
cable after it; cable and signal may both be there from the start. `MaxRetry` is 5 in the code and 0 here, which leaves one retry: each opens
the same window. `Refuses` is FALSE: with it no camera is ever added.

In media_services two TV streams meet when the first has number 0; two moves
of a cable are one that is handled late and one after it; three calls of
setCallback are a first framework, its successor and the first again or nobody.
Conversions follow each other without state but the buffers they leave, so one
shows every failure. The rows of a file have landscape and portrait sizes, two of close
ratio that cross, rates below, between and above those the device knows, and one
row that is refused.

The four calls counted in hdmitx_safety hand in a sink, a choice, the flag that
says which output is meant and a resolution; registering the callback, reading
the mask and a restart come on top. The sinks lack the clock for their deepest
colour, so that every bandwidth check decides something.

Fairness. `FairSpec` of the session gives weak fairness to the OutputThread and
to every caller inside a call: no wait in the code is without a timeout, but for
the join in close, which ends when the OutputThread does, and for
`mInterfaceLock`, which is outside `CallStep`. Nothing makes a client call.
`FairSpec` of the mediator is weak fairness of the uevent thread and of calls
inside; `UeventsHandled` therefore supposes that calls stop at some point, for a
mutex may be given to others again and again. `MediaServices` gives weak fairness to
the steps of player threads, and to nothing else: they are threads that never wait
but for `m_lock`, whose holders need nobody else. `PlayersEnd` therefore supposes that the
surface is gone for good, which the framework decides.

### What the violation runs show

Each is a disagreement between the code and its own comments or messages, quoted
in `PROJECT.json`: dumpState of a closed session keeps `mInterfaceLock`; flushed
requests leak their intermediate buffer; a capture fence timeout dereferences a
null request; a binder query hides a new physical address from `handlePlugIn`; a mode set on DisplayPort makes the same mode on
HDMI count as applied (`ToldUnlessShared` says what holds nevertheless).

The models of session and mediator reach five more states of this kind, which have
no run of their own:

- dumpState without the lock passes its test of `isClosed`, close() clears
  `mOutputThread`, dumpState calls through it (`DumpNoThread`);
- add_logical_address is refused in every attempt and saves the address and
  returns success all the same (`LogicalAddressRefused`, `Attempts` refusals);
- the ioctl for the physical address fails and the unset variable of
  `HdmiCec::getPhysicalAddress` becomes the mediator's address
  (`GetPhysicalAddress` with `unset` an address, `QueryAddress` refused);
- a binder query reads the address before the cable is pulled and stores it, with
  `mConnect`, after the plug-out was handled (`StoreAddress`; `ConnectFollowsCable` states
  what a comment at `hwcec.cpp:858` expects);
- two queries interleave at `mportinfo->physical_address = mPA` and the port
  keeps an address of the past (`LoadAddress`, `PublishAddress`).

The last two of these and the CEC finding all need a binder call that queries the
address. `ToldUnlessAsked` and `FollowsUnlessAsked` say that nothing else does:
until the first such call the plug handling is right.

In `HdmiTx` the model follows the code into these:

- `setEDIDInfo` stores the mask and `refreshEdid` reads it back through
  `getResolutionMask`: unless the flag for HDMI is set that yields zeros, or the
  mask of DisplayPort, and the mode becomes the default;
- `setEDIDInfo` leaves `mEdidT` as it was: colour and clock are chosen for the
  sink of the last `setEDIDInfoMore` (`ModesFitSink` is about that sink);
- the mode is put on record although nobody was told of it (no callback yet, or
  a callback that failed), and the next call for it is skipped;
- RGB is forced at a depth that the sink may declare for YCbCr 4:4:4 only.

The other modules reach these, each outside what a property claims and named by a
history variable or an exception in it:

- two open() calls on one device both get a session, when one had to retry: it let go
  of `mLock` after its look for a session (`retried`). Of two sessions of one device, or of
  two devices, the first to close takes the MDP streams of the other;
- a session let go of before it is closed no longer counts as open, and its destructor
  closes it late: the MDP streams that go are those of the session opened since
  (`deletedOpen`);
- six looks at the device that fail leave the lock status unlocked with a signal there,
  until the next timing event (`misread`); a failed look of the constructor leaves the
  camera out until the cable is plugged in again (`unheard`);
- setCallback's loop calls through a callback that another setCallback has cleared
  (`Crashes`), and so does `eventCallback` of the CEC service (`EventCalls`);
- a look-up puts a camera in that was removed after it was counted (`phantom`), and
  later additions find it there and tell nobody;
- mdp_1in2out answers 0 for a picture nobody converted, when its second output cannot
  be mapped or queued (`ConvertedIfZero`); mapping and descriptor of an output that
  mdp_1in1out cannot queue stay, and the descriptor of an mmap that failed (`NothingLeft`);
- a context stays initialised for each session that could not be opened (`unopened`);
- a refused switchToOffline, or a request without a buffer, makes an entry in
  `mStreamMap` on which a later configureStreams or close ends in an exception, and which
  configuring it does not mend (`poisoned`); a refused request leaves imported buffers (`strange`);
- a request that switchToOffline keeps ends the process (`tablesDied = "frame"`), and one
  that goes on after three seconds frees buffers in use (`waitedOut`);
- `m_lock` of the TV input is initialised while a player holds it (`reinitHeld`);
- the rows of a configuration file are never compared with each other, though the
  message says they "must have increasing size and decreasing fps!"
  (`HdmirxCameraUtils.cpp:894`), and the upper bound of a size's rate is used as a lower one
  (`HdmirxCameraDevice.cpp:958`); `FormatsUsable` holds for such files too.

## Proofs

For every number of callers, buffers, streams, frames, addresses and for every
bound. Assumptions are the ASSUMEs of the modules: `OT` and `None` are not
callers, `None` is no buffer and no frame, `MaxFrame` is positive; for the
mediator likewise, addresses are not special values, `Attempts` is positive; for the
camera service, that the threads which open devices are those that call the
provider; for the CEC service, that `Nobody` is no framework; for the formats, that the rows of
a file have natural sizes (the code reads them as unsigned) and a whole rate.

`CaptureSession_proofs`. `TypeOK` is inductive. For the rest the invariant also
says: a method's steps are only taken by the caller that holds
`mInterfaceLock` (or, for dumpState, the two labels without it); a thread has a
request in `cur` at exactly the labels that use it; once close has asked the
thread to exit nothing is on the list, in `moved` or with a caller, and from
`CloseJoin` on the thread is gone for good; every in-flight frame is `Pending`.
Without the part about locks, a second caller could submit between the drain
and the join, and `ClosedIsDrained` would not be preserved by `CloseFinish`.
From it follow `TypeCorrect`, `RecordCorrect`, `CloseDrains` and, as an action
property, `CloseSilences`.

`CaptureOwnership_proofs` adds a second invariant on top of it, `OwnedInv`:
- `OwnerInv`, a frame is in one place: at one index of the list or of what a flush took,
  or in the hands of one thread. `SingleOwner` counts places, and follows from it.
- `RecordInv`, a request on the list, about to be submitted or being converted is on the
  in-flight record. This is the reverse of `InflightIsPending` and what
  makes the test at the head of configureStreams protect the buffers that are mapped; without it
  `BuffersStayMapped` is not inductive.
- `TriggerInv`, a request at `trigger` or `convert` has not failed, so that its
  intermediate buffer is still the DEQUEUED one of `SlotsExclusive`.
- `ResultInv`, a frame not accepted yet, or still on its way, was returned to nobody: the
  refinement maps the client's counts to those of the contract, which a second callback
  for a frame, or one after close, would raise in no step it has.
`SessionKeepsContract` takes the actions one by one: four of them accept, return or
close, for which `ResultInv` and `ClosedIsDrained` give the guards of `CaptureContract`, and the
others move a frame from place to place, which the contract does not see.

`CecMediator_proofs`. The invariant is `TypeOK`, `LockInv` (labels of a binder
call, and the uevent thread's two sections, hold `m_lock`, and the uevent
thread's other labels do not), `ResumeInv` (where a query returns to fits the
thread), `TriesInv` (attempts made are refusals counted) and `AddedInv`
(`LogicalAddressIsSet` as long as fewer than `Attempts` requests were refused).
`TransmissionsExclude` follows from `LockInv`: transmissions happen only at
labels that hold the lock.
The plug-event properties have an invariant of their own, `AddressInv`, of which each part holds
until a binder call has asked for the address (`AskedInv` says what such a call would be
needed for: without the option that only it can set there is no message from the uevent
thread). `CableInv`: the last unread event is the state of the cable, and with none unread the
label of the uevent thread is. `QueryInv` and `ToldInv` follow one address from
the driver through `addr`, `mPA` and the port to its comparison with that of the last
plug event. `TvInv` is apart: it allows calls, and says that one of them is in a query
when a TV is without its address. `CallerSide` is what every step of a call leaves alone; with it the
uevent thread's half of the invariant is kept by all calls at once.

`HdmiTx_proofs`, first of the operators of `BestMode`. `BestModeFits`: for every sink, resolution and choice,
findBestMode returns a mode that `Fits`. `SuitableIsListed`: getSuitableResolution
returns a listed resolution if a preferred one is listed; it rests on a lemma
that a nonempty set of the 22 indices has a least one.

Of `HdmiTx` the invariant is `TypeOK` and `CacheInv`, for an output that owns
the mode on record and was told in full: what it was told is what was asked, and
the mode and the resolution property are those asked for. Without the second half a
skipped call could ask for something else than was told. From it follow
`TypeCorrect` and `ToldUnlessSharedHolds`, and the three action properties, for
every set of sinks and choices and every bound.

`CameraService_proofs` proves every property of the run camera_service.
- Devices. A thread that tries again stands in `retried` with its device (`OpeningInv`). An
  open session has a device whose `mSession` it is unless the device was retried
  (`LatestInv`). A session that failed belongs to a device whose `mLock` is held for its
  deletion, which has no open session (`FailedInv`, `OwnFailedInv`): that is why its
  `mdp_close` takes no streams in use. A session let go of while open is in `deletedOpen`
  (`DroppedInv`). With these `StreamsWhileOpen` is inductive, and `OneSession` follows.
- Who was told. `ToldInv` follows the one reader of the map in setCallback's loop
  through to its call, beside the hot-plug thread.
- The cable. `KnownInv` relates the map to the cable through the queue of events: if the
  queue holds a plug event, the last one says where the cable is, and if it holds none
  the map, or the event in the hot-plug thread's hands, does (`LastOf`, `NoneOf`).
  `Bound \/ Unbegun` covers the constructor, before which no event is queued.
- The signal. `UpdateInv` says that whoever polls or fills holds `m_hdmiLock`;
  `SettledInv` is the same relation between lock status, signal and the last timing
  event, or the update the hot-plug thread still waits to make, with `misread` as the
  exception of `SignalSettled`.

`CecService_proofs`. `LinkInv` relates `mCallback`, the death links and the notices on
their way. `CallbackFollowsFramework` claims nothing between the two halves of setCallback;
`LinkInv` adds that there is no callback and no death to report there, and that a living
callback is linked, without which its death would go unreported. `CableInv` says that the last unread event is the state of
the cable, from the binding of the socket on, and what the constructor still holds to
store; it claims nothing of `mConnect` once `stale` is set. From them follow
`CallbackFollowsFrameworkHolds` and `StartFollowsCableHolds`.

`MediaServices_proofs`. Each part's actions are proved to keep its invariant, and a step of
`MediaServices` is a step of one part that leaves the others' variables alone.
- Keys. `KeyInv` counts contexts per service, opened ones and those given up, and tells from the
  place of a call whether there is a connection and how many commands are done.
- TV input. `SurfaceInv`: a surface only while there is an MDP stream, the surface going
  first. `LockInv`: a player converts only under `m_lock`, and none does between `fbm_close`
  and `mdp_close_stream`, unless the lock was initialised under a player. `ObserverInv` bounds
  what an observer can still report after its stop by the events it was sent.
- Image conversion. `PictureInv`: the block's flags are one packet's, and those the MDP was handed
  are still there when the format is chosen, unless a packet came between. `ConvInv` tells from the
  step reached which outputs have a size and a mapping, and at the labels which failure led there.
- Stream tables. `AgreeInv` adds to `TablesAgree` that only an open session is at work in a call,
  and that what a switchToOffline keeps is in `mStreamMap`.
  `QueueInv` says where a request is and that its frame is on the record until its buffers
  are settled, so that what the record lets through (`NobodyHolds`) frees no buffer in use.
- Formats. `FormatsInv` says that the formats offered are those made of limits with positive sizes;
  `FormatsUsable` is then a fact of arithmetic, proved in `SupportedFormats_proofs`.
- `TypeCorrect` takes the types from the invariants of the parts, `TableTypes` for the streams and
  buffers of the tables, and those of `CecService` from its own proof: a behaviour
  here is one of `CecSpec` (`CecServiceInside`).

`SupportedFormats_proofs` proves what holds of the formats made of any list of limits:
- the array is the last format in the order of the sort, or one close in ratio that
  crosses it (`ActiveArrayIs`, `ArrayCrosses`), so that a format is no larger than the
  array unless two cross (`ArrayHolds`);
- what was kept because it can be cut from the largest size can be cut from the array too
  (`CroppableFromArray`): a ratio between two that are close is close to both
  (`BetweenIsClose`), the rest is cut from the side that is too long (`CutIsInside`);
- every format has a rate, none below 10, so that half the lowest is not zero (`RatesMade`).
The array is computed by recursion over sets of formats. That the recursive function exists
(`KeptSome`), that a finite set has a largest size (`LargestExists`) and a
set of rates a lowest are proved by looking at a least counterexample, which the library's `WFMin`
gives: induction without a predicate as parameter.

An attempt at the proof of `ConvInv` failed because `ExitOf` was a CASE of guards that overlap, which
has a value only by TLC's order of evaluation; it is an IF now.

Only model-checked: liveness (`CallsReturn`, `FramesSettle`, `UeventsHandled`, `PlayersEnd`), which needs ENABLED, and what the
violation runs show. Ratios are exact in `SupportedFormats`, where the code has floats.

## What is left

1. `CecService` composed with the queries of `CecMediator`.

## Not modelled

- No protocol: vendor tags and other generated tables, the manual test program, the
  entries of the static characteristics nothing is computed from.
- Never reached from an entry point: the V4L2 half of the session,
  `BufferRequestThread` of device 3.5 (only the V4L2 output thread calls it), the offline
  session of 3.6 with requests and its threads.
- Not built: the CEC event manager (in no build file), the extra message processor
  (only for one TV configuration).
- The uevent thread of the output service, which does nothing in the DRM build; the
  ioctl build; the build without HDR.
- Image processing, gralloc, the MDP, the kernel and the trusted side are outcomes of
  actions, not modules.
