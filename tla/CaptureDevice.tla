----------------------------- MODULE CaptureDevice -----------------------------
(***************************************************************************)
(* HdmirxCameraDevice and the life of its sessions.  Every look-up makes a *)
(* device object, with an mLock and a weak mSession of its own; a session  *)
(* is made by open() and ends by close(), which its destructor calls as    *)
(* well.  The two MDP streams the sessions convert with are globals of the *)
(* process: mdp_open() makes those that are missing, mdp_close() deletes   *)
(* both.  What a session does while it is open is CaptureSession's.        *)
(***************************************************************************)
EXTENDS Naturals, FiniteSets

CONSTANTS
    Devices,         \* device objects, used once each
    Sessions,        \* session objects, used once each
    NoSession,       \* an mSession that does not promote
    Openers,         \* RPC threads
    MaxRetry         \* MAX_RETRY, the attempts after the first beyond one

ASSUME DeviceAssumption == NoSession \notin Sessions /\ MaxRetry \in Nat

VARIABLES
    device,          \* "none", or what isInitFailed() of the object says
    latest,          \* mSession
    session,         \* a session object, the device it belongs to
    streams,         \* mdp_stream and mdp_ispStream
    opening          \* where a thread is in open()
VARIABLES            \* history
    deletedOpen,     \* a session was "deleted before close!"
    retried          \* devices on which an open() has let go of mLock

deviceVars == <<device, latest, session, streams, opening, deletedOpen, retried>>

NotOpening == [at |-> "idle", on |-> NoSession, tries |-> 0]
NoObject == [state |-> "none", of |-> NoSession]

DeviceInit ==
    /\ device = [d \in Devices |-> "none"]
    /\ latest = [d \in Devices |-> NoSession]
    /\ session = [s \in Sessions |-> NoObject]
    /\ streams = "none"
    /\ opening = [t \in Openers |-> NotOpening]
    /\ deletedOpen = FALSE /\ retried = {}

OpenSessions == {s \in Sessions : session[s].state = "open"}
Made == {s \in Sessions : session[s].state # "none"}
Unused(objects) == {o \in objects : device[o] = "none"}

-----------------------------------------------------------------------------
(* A look-up makes a device object and asks isInitFailed(), which reads    *)
(* the characteristics once: the node may not open, the formats may be     *)
(* none.  The answer stays.                                                *)
makeDevice ==
    /\ Unused(Devices) # {}
    /\ LET d == CHOOSE o \in Unused(Devices) : TRUE
       IN  device' \in {[device EXCEPT ![d] = init] : init \in {"ok", "failed"}}
    /\ UNCHANGED <<latest, session, streams, opening, deletedOpen, retried>>

(* open(): refused without a callback or on a device that could not be     *)
(* initialised; else it takes mLock.  Between two of its steps mLock is    *)
(* free, but for the deletion of a session that failed.                    *)
open(t, d) ==
    /\ opening[t].at = "idle" /\ device[d] = "ok"
    /\ opening' = [opening EXCEPT ![t] = [at |-> "checks", on |-> d, tries |-> 0]]
    /\ UNCHANGED <<device, latest, session, streams, deletedOpen, retried>>

Locked(d) == \E t \in Openers : opening[t].at = "deletes" /\ opening[t].on = d

(* mSession.promote(): a session nobody refers to is not promoted, closed  *)
(* or not.                                                                 *)
InUse(d) == latest[d] # NoSession /\ session[latest[d]].state = "open"

(* CAMERA_IN_USE.                                                          *)
openRefused(t) ==
    /\ opening[t].at = "checks" /\ ~Locked(opening[t].on) /\ InUse(opening[t].on)
    /\ opening' = [opening EXCEPT ![t] = NotOpening]
    /\ UNCHANGED <<device, latest, session, streams, deletedOpen, retried>>

(* mdp_open: stream for stream, so a failure may leave the first.          *)
mdp_open == streams' = "open"
mdp_close == streams' = "none"

(* Fault: open() does not look for a session.                              *)
Proceeds_Unchecked(t) == opening[t].at \in {"checks", "tries"} /\ ~Locked(opening[t].on)

(* The look for an open session comes once, before the first attempt.      *)
Proceeds(t) ==
    /\ opening[t].at = "tries" \/ (opening[t].at = "checks" /\ ~InUse(opening[t].on))
    /\ ~Locked(opening[t].on)

(* The node opens: a session is made and initialised under mLock.          *)
createSession(t) ==
    /\ Proceeds(t)
    /\ \E s \in Sessions :
          /\ session[s] = NoObject
          /\ session' = [session EXCEPT ![s] = [state |-> "open", of |-> opening[t].on]]
          /\ latest' = [latest EXCEPT ![opening[t].on] = s]
    /\ mdp_open
    /\ opening' = [opening EXCEPT ![t] = NotOpening]
    /\ UNCHANGED <<device, deletedOpen, retried>>

(* The session cannot be initialised, with the MDP streams made or not: it *)
(* is deleted, still under mLock ...                                       *)
createSessionFails(t) ==
    /\ Proceeds(t)
    /\ \E s \in Sessions :
          /\ session[s] = NoObject
          /\ session' = [session EXCEPT ![s] = [state |-> "failed", of |-> opening[t].on]]
    /\ mdp_open \/ UNCHANGED streams
    /\ opening' = [opening EXCEPT ![t].at = "deletes"]
    /\ UNCHANGED <<device, latest, deletedOpen, retried>>

(* ... and its destructor closes it.                                       *)
deleteSession(t) ==
    /\ opening[t].at = "deletes"
    /\ \E s \in Sessions :
          /\ session[s] = [state |-> "failed", of |-> opening[t].on]
          /\ session' = [session EXCEPT ![s].state = "closed"]
    /\ mdp_close
    /\ opening' = [opening EXCEPT ![t] = NotOpening]
    /\ UNCHANGED <<device, latest, deletedOpen, retried>>

(* Fault: the attempts are not counted.                                    *)
openRetries_Forever(t) ==
    /\ Proceeds(t)
    /\ opening' = [opening EXCEPT ![t] = [at |-> "tries", on |-> @.on, tries |-> @.tries + 1]]
    /\ retried' = retried \cup {opening[t].on}
    /\ UNCHANGED <<device, latest, session, streams, deletedOpen>>

(* The node does not open: up to MAX_RETRY + 1 attempts more, mLock not    *)
(* held in between.                                                        *)
openRetries(t) ==
    /\ Proceeds(t)
    /\ opening' = [opening EXCEPT ![t] =
          IF @.tries > MaxRetry THEN NotOpening
          ELSE [at |-> "tries", on |-> @.on, tries |-> @.tries + 1]]
    /\ retried' = retried \cup {opening[t].on}
    /\ UNCHANGED <<device, latest, session, streams, deletedOpen>>

(* Fault: a closed session closes again.                                   *)
closeSession_Again(s) ==
    /\ session[s].state \in {"open", "dropped", "closed"}
    /\ session' = [session EXCEPT ![s].state = "closed"]
    /\ mdp_close
    /\ UNCHANGED <<device, latest, opening, deletedOpen, retried>>

(* The last reference to a session that is open is let go: the destructor  *)
(* has yet to close it.                                                    *)
dropSession(s) ==
    /\ session[s].state = "open"
    /\ session' = [session EXCEPT ![s].state = "dropped"]
    /\ deletedOpen' = TRUE
    /\ UNCHANGED <<device, latest, streams, opening, retried>>

(* close() by the client, or by the destructor; what a closed session is   *)
(* asked again changes nothing.                                            *)
closeSession(s) ==
    /\ session[s].state \in {"open", "dropped"}
    /\ session' = [session EXCEPT ![s].state = "closed"]
    /\ mdp_close
    /\ UNCHANGED <<device, latest, opening, deletedOpen, retried>>

OpenStep(t) ==
    \/ openRefused(t) \/ createSession(t) \/ createSessionFails(t) \/ deleteSession(t)
    \/ openRetries(t)

-----------------------------------------------------------------------------
DeviceTypeOK ==
    /\ device \in [Devices -> {"none", "ok", "failed"}]
    /\ latest \in [Devices -> Sessions \cup {NoSession}]
    /\ session \in [Sessions -> [state : {"none", "failed", "open", "dropped", "closed"},
                                 of : Devices \cup {NoSession}]]
    /\ streams \in {"none", "open"}
    /\ opening \in [Openers -> [at : {"idle", "checks", "tries", "deletes"},
                                on : Devices \cup {NoSession}, tries : 0 .. (MaxRetry + 1)]]
    /\ deletedOpen \in BOOLEAN /\ retried \subseteq Devices

(* open() answers CAMERA_IN_USE for a device that has an open session (151 *)
(* to 157), and mSession is that session.  It holds for a device on which  *)
(* no open() has had to retry: the check is not made again after mLock was *)
(* released (164).                                                         *)
OneSession ==
    \A s \in OpenSessions : LET d == session[s].of
                            IN  d \notin retried => latest[d] = s

(* A session that is open has streams to convert with: the attempts of     *)
(* other clients, sessions that fail and sessions that were closed do not  *)
(* take them.  It holds as long as clients close a session before they let *)
(* go of it, no open() has had to retry and all sessions are one device's: *)
(* else two sessions can be unclosed at once, and the close() of the one   *)
(* deletes the streams of the other (HdmirxCameraDeviceSession.cpp 252,    *)
(* 253 and 552).                                                           *)
StreamsWhileOpen ==
    /\ ~deletedOpen /\ retried = {}
    /\ \A a, b \in Made : session[a].of = session[b].of
    => (OpenSessions # {} => streams = "open")
===============================================================================
