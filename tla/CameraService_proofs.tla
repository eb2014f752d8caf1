------------------------ MODULE CameraService_proofs ------------------------
(***************************************************************************)
(* Proofs about CameraService for any number of RPC threads, callbacks,    *)
(* timings, devices, sessions, events and retries.                         *)
(***************************************************************************)
EXTENDS CameraService, TLAPS

USE ProviderAssumption, DeviceAssumption, ServiceAssumption

-----------------------------------------------------------------------------
(* Devices and sessions.                                                   *)

OpeningStates == {"idle", "checks", "tries", "deletes"}
OpeningPlaces == [at : OpeningStates, on : Devices \cup {NoSession}, tries : 0 .. (MaxRetry + 1)]
Objects == [state : {"none", "failed", "open", "dropped", "closed"}, of : Devices \cup {NoSession}]

(* Where an open() is fits the device it is on, and a thread that has let  *)
(* go of mLock to try again says so.                                       *)
OpeningInv ==
    \A t \in Openers :
       /\ opening[t].at # "idle" => opening[t].on \in Devices
       /\ opening[t].at = "tries" => opening[t].on \in retried

(* An open session has a device, whose mSession it is.                     *)
LatestInv ==
    \A s \in OpenSessions :
       /\ session[s].of \in Devices
       /\ session[s].of \notin retried => latest[session[s].of] = s

(* The devices whose mLock is held between two steps.                      *)
Deleting == {opening[t].on : t \in {u \in Openers : opening[u].at = "deletes"}}

(* A session that failed is deleted with mLock held, while its device has  *)
(* no open session.                                                        *)
FailedInv ==
    \A s \in Sessions : session[s].state = "failed" =>
       /\ session[s].of \in Deleting
       /\ session[s].of \notin retried => \A r \in OpenSessions : session[r].of # session[s].of

DroppedInv == \A s \in Sessions : session[s].state = "dropped" => deletedOpen

(* mLock is one thread's: a device has one session that failed at most.     *)
OwnFailedInv ==
    \A s, r \in Sessions :
       session[s].state = "failed" /\ session[r].state = "failed" /\ session[s].of = session[r].of
       => s = r

SessionInv == LatestInv /\ FailedInv /\ OwnFailedInv /\ DroppedInv /\ StreamsWhileOpen

DeviceInv == DeviceTypeOK /\ OpeningInv /\ SessionInv

LEMMA DeviceInvInit ==
    ASSUME Init PROVE DeviceInv
<1>1. OpenSessions = {} /\ \A s \in Sessions : session[s].state = "none"
    BY DEF Init, DeviceInit, OpenSessions, NoObject
<1>2. DeviceTypeOK /\ OpeningInv
  <2>1. 0 \in 0 .. (MaxRetry + 1)
      OBVIOUS
  <2>2. NotOpening \in OpeningPlaces
      BY <2>1 DEF NotOpening, OpeningPlaces, OpeningStates
  <2>3. NoObject \in Objects
      BY DEF NoObject, Objects
  <2>4. \A t \in Openers : opening[t].at = "idle"
      BY DEF Init, DeviceInit, NotOpening
  <2>5. OpeningInv
      BY <2>4 DEF OpeningInv
  <2> QED BY <2>2, <2>3, <2>5 DEF Init, DeviceInit, DeviceTypeOK, OpeningPlaces, OpeningStates, Objects
<1> QED BY <1>1, <1>2 DEF DeviceInv, SessionInv, LatestInv, FailedInv, OwnFailedInv, DroppedInv,
           StreamsWhileOpen

(* What a thread does to where its open() is.                              *)
LEMMA OpeningMoves ==
    ASSUME DeviceTypeOK, OpeningInv, NEW t \in Openers, NEW at \in OpeningStates,
           NEW on \in Devices \cup {NoSession}, NEW tries \in 0 .. (MaxRetry + 1),
           opening' = [opening EXCEPT ![t] = [at |-> at, on |-> on, tries |-> tries]],
           at # "idle" => on \in Devices,
           at = "tries" => on \in retried',
           retried \subseteq retried'
    PROVE  opening' \in [Openers -> OpeningPlaces] /\ OpeningInv'
<1> DEFINE new == [at |-> at, on |-> on, tries |-> tries]
<1>1. new \in OpeningPlaces
    BY DEF OpeningPlaces
<1>2. opening \in [Openers -> OpeningPlaces]
    BY DEF DeviceTypeOK, OpeningPlaces, OpeningStates
<1>3. \A u \in Openers : opening'[u] = IF u = t THEN new ELSE opening[u]
    BY <1>2
<1>4. OpeningInv'
  <2> SUFFICES ASSUME NEW u \in Openers
               PROVE  /\ opening'[u].at # "idle" => opening'[u].on \in Devices
                      /\ opening'[u].at = "tries" => opening'[u].on \in retried'
      BY DEF OpeningInv
  <2>1. CASE u = t
      BY <1>3, <2>1
  <2>2. CASE u # t
      BY <1>3, <2>2 DEF OpeningInv
  <2> QED BY <2>1, <2>2
<1>5. opening' \in [Openers -> OpeningPlaces]
  <2> HIDE DEF new
  <2> QED BY <1>1, <1>2 DEF new
<1> QED BY <1>4, <1>5

(* A thread's open() ends.                                                 *)
LEMMA OpeningEnds ==
    ASSUME DeviceTypeOK, OpeningInv, NEW t \in Openers,
           opening' = [opening EXCEPT ![t] = NotOpening], retried' = retried
    PROVE  opening' \in [Openers -> OpeningPlaces] /\ OpeningInv'
<1>1. opening' = [opening EXCEPT ![t] = [at |-> "idle", on |-> NoSession, tries |-> 0]]
    BY DEF NotOpening
<1>2. 0 \in 0 .. (MaxRetry + 1) /\ "idle" \in OpeningStates
    BY DEF OpeningStates
<1>3. NoSession \in Devices \cup {NoSession} /\ retried \subseteq retried'
    OBVIOUS
<1> QED BY ONLY DeviceTypeOK, OpeningInv, <1>1, <1>2, <1>3, OpeningMoves

(* A thread that does not delete a session holds no mLock between steps.   *)
LEMMA LockedStays ==
    ASSUME DeviceTypeOK, NEW t \in Openers, opening[t].at # "deletes",
           NEW new, opening' = [opening EXCEPT ![t] = new]
    PROVE  Deleting \subseteq Deleting'
<1> SUFFICES ASSUME NEW u \in Openers, opening[u].at = "deletes"
             PROVE  opening[u].on \in Deleting'
    BY DEF Deleting
<1>1. opening'[u] = opening[u]
    BY DEF DeviceTypeOK
<1> QED BY <1>1 DEF Deleting

(* Nothing happens to sessions, and no thread lets go of mLock.            *)
LEMMA SessionsStay ==
    ASSUME DeviceInv, UNCHANGED <<session, latest, streams, deletedOpen>>,
           retried \subseteq retried', Deleting \subseteq Deleting'
    PROVE  SessionInv'
<1>1. OpenSessions' = OpenSessions /\ Made' = Made
    BY DEF OpenSessions, Made
<1>2. LatestInv'
    BY <1>1 DEF DeviceInv, SessionInv, LatestInv
<1>3. FailedInv'
    BY <1>1 DEF DeviceInv, SessionInv, FailedInv
<1>4. DroppedInv'
    BY DEF DeviceInv, SessionInv, DroppedInv
<1>5. StreamsWhileOpen'
    BY <1>1 DEF DeviceInv, SessionInv, StreamsWhileOpen
<1>6. OwnFailedInv'
    BY DEF DeviceInv, SessionInv, OwnFailedInv
<1> QED BY <1>2, <1>3, <1>4, <1>5, <1>6 DEF SessionInv

LEMMA MakeDeviceStep ==
    ASSUME DeviceInv, makeDevice PROVE DeviceInv'
<1>1. PICK d \in Devices, init \in {"ok", "failed"} : device' = [device EXCEPT ![d] = init]
  <2>1. (CHOOSE o \in Unused(Devices) : TRUE) \in Devices
      BY DEF makeDevice, Unused
  <2> QED BY <2>1 DEF makeDevice
<1>2. DeviceTypeOK'
    BY <1>1 DEF DeviceInv, DeviceTypeOK, makeDevice
<1>3. OpeningInv'
    BY DEF DeviceInv, OpeningInv, makeDevice
<1>4. SessionInv'
    BY SessionsStay DEF makeDevice, Deleting
<1> QED BY <1>2, <1>3, <1>4 DEF DeviceInv

LEMMA OpenStarts ==
    ASSUME DeviceInv, NEW t \in Openers, NEW d \in Devices, open(t, d) PROVE DeviceInv'
<1>1. 0 \in 0 .. (MaxRetry + 1) /\ "checks" \in OpeningStates
    BY DEF OpeningStates
<1> DEFINE new == [at |-> "checks", on |-> d, tries |-> 0]
<1>2. opening' = [opening EXCEPT ![t] = new] /\ opening[t].at = "idle"
      /\ UNCHANGED <<device, latest, session, streams, deletedOpen, retried>>
    BY DEF open
<1>3. opening' \in [Openers -> OpeningPlaces] /\ OpeningInv'
    BY <1>1, <1>2, OpeningMoves DEF DeviceInv
<1>4. new \in OpeningPlaces
    BY <1>1 DEF OpeningPlaces
<1>5. SessionInv'
  <2> HIDE DEF new
  <2>1. Deleting \subseteq Deleting'
      BY <1>2, <1>4, LockedStays DEF DeviceInv
  <2> QED BY <1>2, <2>1, SessionsStay
<1> QED BY <1>2, <1>3, <1>5 DEF DeviceInv, DeviceTypeOK, OpeningPlaces, OpeningStates

LEMMA OpenRefusedStep ==
    ASSUME DeviceInv, NEW t \in Openers, openRefused(t) PROVE DeviceInv'
<1>1. opening' = [opening EXCEPT ![t] = NotOpening] /\ opening[t].at = "checks"
      /\ UNCHANGED <<device, latest, session, streams, deletedOpen, retried>>
    BY DEF openRefused
<1>2. opening' \in [Openers -> OpeningPlaces] /\ OpeningInv'
    BY <1>1, OpeningEnds DEF DeviceInv
<1>3. NotOpening \in OpeningPlaces
  <2>1. 0 \in 0 .. (MaxRetry + 1)
      OBVIOUS
  <2> QED BY <2>1 DEF NotOpening, OpeningPlaces, OpeningStates
<1>4. SessionInv'
  <2>1. Deleting \subseteq Deleting'
      BY <1>1, <1>3, LockedStays DEF DeviceInv
  <2> QED BY <1>1, <2>1, SessionsStay
<1> QED BY <1>1, <1>2, <1>4 DEF DeviceInv, DeviceTypeOK, OpeningPlaces, OpeningStates

(* The attempt that counts: the session is the device's only one, unless   *)
(* mLock was released since the look for one.                              *)
LEMMA CreateSessionStep ==
    ASSUME DeviceInv, NEW t \in Openers, createSession(t) PROVE DeviceInv'
<1> DEFINE d == opening[t].on
<1>1. PICK s \in Sessions :
         /\ session[s] = NoObject
         /\ session' = [session EXCEPT ![s] = [state |-> "open", of |-> d]]
         /\ latest' = [latest EXCEPT ![d] = s]
    BY DEF createSession
<1>2. /\ streams' = "open" /\ opening' = [opening EXCEPT ![t] = NotOpening]
      /\ UNCHANGED <<device, deletedOpen, retried>>
    BY DEF createSession, mdp_open
<1>3. d \in Devices /\ d \notin Deleting /\ opening[t].at # "deletes"
    BY DEF createSession, Proceeds, Locked, Deleting, DeviceInv, OpeningInv
<1>4. d \notin retried => ~InUse(d)
    BY DEF createSession, Proceeds, DeviceInv, OpeningInv
<1> HIDE DEF d
<1>5. DeviceTypeOK' /\ OpeningInv'
  <2>1. session' \in [Sessions -> Objects]
      BY <1>1, <1>3 DEF DeviceInv, DeviceTypeOK, Objects
  <2>2. latest' \in [Devices -> Sessions \cup {NoSession}]
      BY <1>1, <1>3 DEF DeviceInv, DeviceTypeOK
  <2>3. opening' \in [Openers -> OpeningPlaces] /\ OpeningInv'
      BY <1>2, OpeningEnds DEF DeviceInv
  <2> QED BY <1>2, <2>1, <2>2, <2>3 DEF DeviceInv, DeviceTypeOK, OpeningPlaces, OpeningStates, Objects
<1>6. \A r \in Sessions : session'[r] = IF r = s THEN [state |-> "open", of |-> d] ELSE session[r]
    BY <1>1 DEF DeviceInv, DeviceTypeOK
<1>7. \A e \in Devices : latest'[e] = IF e = d THEN s ELSE latest[e]
    BY <1>1, <1>3 DEF DeviceInv, DeviceTypeOK
<1>8. OpenSessions' = OpenSessions \cup {s}
    BY <1>6 DEF OpenSessions
<1>9. LatestInv'
  <2> SUFFICES ASSUME NEW r \in OpenSessions'
               PROVE  /\ session'[r].of \in Devices
                      /\ session'[r].of \notin retried' => latest'[session'[r].of] = r
      BY DEF LatestInv
  <2>1. CASE r = s
      BY <1>3, <1>6, <1>7, <2>1
  <2>2. CASE r # s
    <3>1. r \in OpenSessions /\ session'[r] = session[r]
        BY <1>6, <1>8, <2>2 DEF OpenSessions
    <3>2. /\ session[r].of \in Devices
          /\ session[r].of \notin retried => latest[session[r].of] = r
        BY <3>1 DEF DeviceInv, SessionInv, LatestInv
    <3>3. session[r].of = d => d \in retried
        BY <1>4, <3>1, <3>2 DEF InUse, OpenSessions
    <3> QED BY <1>2, <1>7, <3>1, <3>2, <3>3
  <2> QED BY <2>1, <2>2
<1>10. FailedInv'
  <2>1. Deleting \subseteq Deleting'
      BY <1>2, <1>3, LockedStays DEF DeviceInv
  <2> SUFFICES ASSUME NEW r \in Sessions, session'[r].state = "failed"
               PROVE  /\ session'[r].of \in Deleting'
                      /\ session'[r].of \notin retried =>
                            \A q \in OpenSessions' : session'[q].of # session'[r].of
      BY <1>2 DEF FailedInv
  <2>2. session'[r] = session[r] /\ session[r].state = "failed"
      BY <1>6
  <2>3. session[r].of \in Deleting /\ session[r].of # d
      BY <1>3, <2>2 DEF DeviceInv, SessionInv, FailedInv
  <2>4. session[r].of \notin retried => \A q \in OpenSessions : session[q].of # session[r].of
      BY <2>2 DEF DeviceInv, SessionInv, FailedInv
  <2>5. \A q \in OpenSessions' : (q = s) \/ (q \in OpenSessions /\ session'[q] = session[q])
      BY <1>6, <1>8 DEF OpenSessions
  <2> QED BY <1>6, <2>1, <2>2, <2>3, <2>4, <2>5
<1>11. OwnFailedInv' /\ DroppedInv' /\ StreamsWhileOpen'
    BY <1>2, <1>6 DEF DeviceInv, SessionInv, OwnFailedInv, DroppedInv, StreamsWhileOpen
<1> QED BY <1>5, <1>9, <1>10, <1>11 DEF DeviceInv, SessionInv

LEMMA CreateSessionFailsStep ==
    ASSUME DeviceInv, NEW t \in Openers, createSessionFails(t) PROVE DeviceInv'
<1> DEFINE d == opening[t].on
<1>1. PICK s \in Sessions :
         /\ session[s] = NoObject
         /\ session' = [session EXCEPT ![s] = [state |-> "failed", of |-> d]]
    BY DEF createSessionFails
<1>2. /\ streams' \in {streams, "open"} /\ opening' = [opening EXCEPT ![t].at = "deletes"]
      /\ UNCHANGED <<device, latest, deletedOpen, retried>>
    BY DEF createSessionFails, mdp_open
<1>3. /\ d \in Devices /\ d \notin Deleting
      /\ opening[t].at # "deletes" /\ opening \in [Openers -> OpeningPlaces]
    BY DEF createSessionFails, Proceeds, Locked, Deleting, DeviceInv, OpeningInv, DeviceTypeOK, OpeningPlaces,
           OpeningStates
<1>4. d \notin retried => ~InUse(d)
    BY DEF createSessionFails, Proceeds, DeviceInv, OpeningInv
<1> DEFINE new == [at |-> "deletes", on |-> d, tries |-> opening[t].tries]
<1>5. /\ opening' = [opening EXCEPT ![t] = new] /\ new \in OpeningPlaces
      /\ opening[t].tries \in 0 .. (MaxRetry + 1)
  <2>1. opening[t] \in OpeningPlaces
      BY <1>3
  <2>2. [opening[t] EXCEPT !.at = "deletes"] = new
      BY <2>1 DEF OpeningPlaces
  <2>3. opening' = [opening EXCEPT ![t] = new]
      BY <1>2, <2>2
  <2>4. opening[t].on \in Devices \cup {NoSession} /\ opening[t].tries \in 0 .. (MaxRetry + 1)
      BY <2>1 DEF OpeningPlaces
  <2>5. new \in OpeningPlaces
      BY <2>4 DEF OpeningPlaces, OpeningStates
  <2> QED BY <2>3, <2>4, <2>5
<1>6. OpeningInv' /\ opening' \in [Openers -> OpeningPlaces]
  <2>1. "deletes" \in OpeningStates
      BY DEF OpeningStates
  <2>2. DeviceTypeOK /\ OpeningInv /\ retried \subseteq retried'
      BY <1>2 DEF DeviceInv
  <2>3. d \in Devices \cup {NoSession}
      BY <1>3
  <2> HIDE DEF d
  <2> QED BY <1>3, <1>5, <2>1, <2>2, <2>3, OpeningMoves
<1>7. opening'[t] = new
    BY <1>3, <1>5
<1>8. d \in Deleting' /\ Deleting \subseteq Deleting'
  <2>1. d \in Deleting'
      BY <1>7 DEF Deleting
  <2> HIDE DEF new
  <2> QED BY <1>3, <1>5, <2>1, LockedStays DEF DeviceInv
<1> HIDE DEF d, new
<1>9. DeviceTypeOK'
  <2>1. session' \in [Sessions -> Objects]
      BY <1>1, <1>3 DEF DeviceInv, DeviceTypeOK, Objects
  <2> QED BY <1>2, <1>6, <2>1 DEF DeviceInv, DeviceTypeOK, OpeningPlaces, OpeningStates, Objects
<1>10. \A r \in Sessions : session'[r] = IF r = s THEN [state |-> "failed", of |-> d] ELSE session[r]
    BY <1>1 DEF DeviceInv, DeviceTypeOK
<1>11. OpenSessions' = OpenSessions /\ \A r \in OpenSessions : session'[r] = session[r]
    BY <1>1, <1>10 DEF OpenSessions, NoObject
<1>12. LatestInv' /\ DroppedInv'
    BY <1>2, <1>10, <1>11 DEF DeviceInv, SessionInv, LatestInv, DroppedInv
<1>13. FailedInv'
  <2>1. d \notin retried => \A r \in OpenSessions : session[r].of # d
      BY <1>4 DEF DeviceInv, SessionInv, LatestInv, InUse, OpenSessions
  <2> SUFFICES ASSUME NEW r \in Sessions, session'[r].state = "failed"
               PROVE  /\ session'[r].of \in Deleting'
                      /\ session'[r].of \notin retried' =>
                            \A q \in OpenSessions' : session'[q].of # session'[r].of
      BY DEF FailedInv
  <2>2. CASE r = s
      BY <1>2, <1>8, <1>10, <1>11, <2>1, <2>2
  <2>3. CASE r # s
    <3>1. session'[r] = session[r]
        BY <1>10, <2>3
    <3>2. /\ session[r].of \in Deleting
          /\ session[r].of \notin retried => \A q \in OpenSessions : session[q].of # session[r].of
        BY <3>1 DEF DeviceInv, SessionInv, FailedInv
    <3> QED BY <1>2, <1>8, <1>11, <3>1, <3>2
  <2> QED BY <2>2, <2>3
<1>14. StreamsWhileOpen'
  <2>1. Made \subseteq Made' /\ \A r \in Made : session'[r] = session[r]
      BY <1>1, <1>10 DEF Made, NoObject
  <2> QED BY <1>2, <1>11, <2>1 DEF DeviceInv, SessionInv, StreamsWhileOpen
<1>15. OwnFailedInv'
  <2>1. \A r \in Sessions : r # s /\ session'[r].state = "failed" =>
                              session'[r] = session[r] /\ session[r].of # d
      BY <1>3, <1>10 DEF DeviceInv, SessionInv, FailedInv
  <2> QED BY <1>10, <2>1 DEF DeviceInv, SessionInv, OwnFailedInv
<1> QED BY <1>6, <1>9, <1>12, <1>13, <1>14, <1>15 DEF DeviceInv, SessionInv

(* No open session shares its device with one that failed or with another  *)
(* open one, as long as nobody had to retry.                               *)
LEMMA AloneOnDevice ==
    ASSUME DeviceInv, retried = {}, NEW r \in OpenSessions, NEW s \in Sessions,
           session[s].state \in {"failed", "open"}, session[s].of = session[r].of
    PROVE  r = s
<1>1. CASE session[s].state = "failed"
    BY <1>1 DEF DeviceInv, SessionInv, FailedInv
<1>2. CASE session[s].state = "open"
    BY <1>2 DEF DeviceInv, SessionInv, LatestInv, OpenSessions
<1> QED BY <1>1, <1>2

(* A session that was closed takes the streams of no other one.            *)
LEMMA ClosingTakesOwn ==
    ASSUME DeviceInv, NEW s \in Sessions, session[s].state \in {"failed", "open", "dropped"},
           \A r \in Sessions : session'[r] = IF r = s THEN [state |-> "closed", of |-> session[s].of]
                                                      ELSE session[r],
           UNCHANGED <<deletedOpen, retried>>
    PROVE  StreamsWhileOpen'
<1> SUFFICES ASSUME ~deletedOpen, retried = {},
                    \A a, b \in Made' : session'[a].of = session'[b].of,
                    NEW r \in OpenSessions'
             PROVE  FALSE
    BY DEF StreamsWhileOpen
<1>1. r \in OpenSessions /\ r # s /\ session'[r] = session[r] /\ r \in Made' /\ s \in Made'
    BY DEF OpenSessions, Made
<1>2. session[s].of = session[r].of
    BY <1>1
<1>3. session[s].state \in {"failed", "open"}
    BY DEF DeviceInv, SessionInv, DroppedInv
<1> QED BY <1>1, <1>2, <1>3, AloneOnDevice

LEMMA DeleteSessionStep ==
    ASSUME DeviceInv, NEW t \in Openers, deleteSession(t) PROVE DeviceInv'
<1> DEFINE d == opening[t].on
<1>1. PICK s \in Sessions : /\ session[s] = [state |-> "failed", of |-> d]
                            /\ session' = [session EXCEPT ![s].state = "closed"]
    BY DEF deleteSession
<1>2. /\ opening[t].at = "deletes" /\ opening' = [opening EXCEPT ![t] = NotOpening]
      /\ streams' = "none" /\ UNCHANGED <<device, latest, deletedOpen, retried>>
    BY DEF deleteSession, mdp_close
<1>3. d \in Devices /\ d = opening[t].on
  <2>1. opening[t].at # "idle"
      BY <1>2
  <2> QED BY <2>1 DEF DeviceInv, OpeningInv
<1> HIDE DEF d
<1>4. \A r \in Sessions : session'[r] = IF r = s THEN [state |-> "closed", of |-> session[s].of]
                                               ELSE session[r]
    BY <1>1 DEF DeviceInv, DeviceTypeOK
<1>5. DeviceTypeOK' /\ OpeningInv'
  <2>1. session' = [session EXCEPT ![s] = [state |-> "closed", of |-> d]]
    <3>1. [session[s] EXCEPT !.state = "closed"] = [state |-> "closed", of |-> d]
        BY <1>1
    <3> QED BY <1>1, <3>1
  <2>2. session' \in [Sessions -> Objects]
      BY <1>3, <2>1 DEF DeviceInv, DeviceTypeOK, Objects
  <2>3. opening' \in [Openers -> OpeningPlaces] /\ OpeningInv'
      BY <1>2, OpeningEnds DEF DeviceInv
  <2> QED BY <1>2, <2>2, <2>3 DEF DeviceInv, DeviceTypeOK, OpeningPlaces, OpeningStates, Objects
<1>6. OpenSessions' = OpenSessions /\ \A r \in OpenSessions : session'[r] = session[r]
    BY <1>1, <1>4 DEF OpenSessions
<1>7. LatestInv' /\ DroppedInv'
    BY <1>2, <1>4, <1>6 DEF DeviceInv, SessionInv, LatestInv, DroppedInv
<1>8. StreamsWhileOpen'
    BY <1>1, <1>2, <1>4, ClosingTakesOwn
<1>9. FailedInv'
  <2> SUFFICES ASSUME NEW r \in Sessions, session'[r].state = "failed"
               PROVE  /\ session'[r].of \in Deleting'
                      /\ session'[r].of \notin retried' =>
                            \A q \in OpenSessions' : session'[q].of # session'[r].of
      BY DEF FailedInv
  <2>1. r # s /\ session'[r] = session[r] /\ session[r].state = "failed"
      BY <1>4
  <2>2. PICK u \in Openers : opening[u].at = "deletes" /\ opening[u].on = session[r].of
      BY <2>1 DEF DeviceInv, SessionInv, FailedInv, Deleting
  <2>3. u # t
      BY <1>1, <1>3, <2>1, <2>2 DEF DeviceInv, SessionInv, OwnFailedInv
  <2>4. opening'[u] = opening[u]
      BY <1>2, <2>3 DEF DeviceInv, DeviceTypeOK
  <2>5. session[r].of \in Deleting'
      BY <2>2, <2>4 DEF Deleting
  <2>6. session[r].of \notin retried => \A q \in OpenSessions : session[q].of # session[r].of
      BY <2>1 DEF DeviceInv, SessionInv, FailedInv
  <2> QED BY <1>2, <1>6, <2>1, <2>5, <2>6
<1>10. OwnFailedInv'
    BY <1>4 DEF DeviceInv, SessionInv, OwnFailedInv
<1> QED BY <1>5, <1>7, <1>8, <1>9, <1>10 DEF DeviceInv, SessionInv

LEMMA OpenRetriesStep ==
    ASSUME DeviceInv, NEW t \in Openers, openRetries(t) PROVE DeviceInv'
<1>1. /\ retried' = retried \cup {opening[t].on}
      /\ UNCHANGED <<device, latest, session, streams, deletedOpen>>
    BY DEF openRetries
<1>2. /\ opening \in [Openers -> OpeningPlaces] /\ opening[t] \in OpeningPlaces
      /\ opening[t].on \in Devices /\ opening[t].tries \in 0 .. (MaxRetry + 1)
      /\ opening[t].at # "deletes"
    BY DEF openRetries, Proceeds, DeviceInv, OpeningInv, DeviceTypeOK, OpeningPlaces, OpeningStates
<1>3. PICK new \in OpeningPlaces : /\ opening' = [opening EXCEPT ![t] = new]
                                   /\ opening' \in [Openers -> OpeningPlaces] /\ OpeningInv'
  <2>1. CASE opening[t].tries > MaxRetry
    <3> DEFINE new == [at |-> "idle", on |-> NoSession, tries |-> 0]
    <3>1. opening' = [opening EXCEPT ![t] = new]
        BY <1>2, <2>1 DEF openRetries, NotOpening
    <3>2. 0 \in 0 .. (MaxRetry + 1) /\ "idle" \in OpeningStates
        BY DEF OpeningStates
    <3>3. new \in OpeningPlaces
        BY <3>2 DEF OpeningPlaces
    <3>4. opening' \in [Openers -> OpeningPlaces] /\ OpeningInv'
        BY <1>1, <3>1, <3>2, OpeningMoves DEF DeviceInv
    <3> QED BY <3>1, <3>3, <3>4
  <2>2. CASE ~(opening[t].tries > MaxRetry)
    <3> DEFINE new == [at |-> "tries", on |-> opening[t].on, tries |-> opening[t].tries + 1]
    <3>1. opening[t].tries + 1 \in 0 .. (MaxRetry + 1) /\ "tries" \in OpeningStates
        BY <1>2, <2>2 DEF OpeningStates
    <3>2. opening' = [opening EXCEPT ![t] = new]
        BY <1>2, <2>2 DEF openRetries
    <3>3. new \in OpeningPlaces
        BY <1>2, <3>1 DEF OpeningPlaces
    <3>4. opening' \in [Openers -> OpeningPlaces] /\ OpeningInv'
        BY <1>1, <1>2, <3>1, <3>2, OpeningMoves DEF DeviceInv
    <3> QED BY <3>2, <3>3, <3>4
  <2> QED BY <2>1, <2>2
<1>4. DeviceTypeOK'
    BY <1>1, <1>2, <1>3 DEF DeviceInv, DeviceTypeOK, OpeningPlaces, OpeningStates
<1>5. Deleting \subseteq Deleting'
    BY <1>2, <1>3, LockedStays DEF DeviceInv
<1>6. SessionInv'
    BY <1>1, <1>5, SessionsStay
<1> QED BY <1>3, <1>4, <1>6 DEF DeviceInv

LEMMA DropSessionStep ==
    ASSUME DeviceInv, NEW s \in Sessions, dropSession(s) PROVE DeviceInv'
<1>1. /\ session[s].state = "open" /\ session' = [session EXCEPT ![s].state = "dropped"]
      /\ deletedOpen' = TRUE /\ UNCHANGED <<device, latest, streams, opening, retried>>
    BY DEF dropSession
<1>2. session \in [Sessions -> Objects] /\ session[s] \in Objects
    BY DEF DeviceInv, DeviceTypeOK, Objects
<1>3. session' = [session EXCEPT ![s] = [state |-> "dropped", of |-> session[s].of]]
  <2>1. [session[s] EXCEPT !.state = "dropped"] = [state |-> "dropped", of |-> session[s].of]
      BY <1>2 DEF Objects
  <2> QED BY <1>1, <2>1
<1>4. \A r \in Sessions : session'[r] = IF r = s THEN [state |-> "dropped", of |-> session[s].of]
                                               ELSE session[r]
    BY <1>2, <1>3
<1>5. DeviceTypeOK' /\ OpeningInv'
  <2>1. session' \in [Sessions -> Objects]
      BY <1>2, <1>3 DEF Objects
  <2> QED BY <1>1, <2>1 DEF DeviceInv, DeviceTypeOK, OpeningInv, Objects
<1>6. OpenSessions' = OpenSessions \ {s} /\ \A r \in OpenSessions \ {s} : session'[r] = session[r]
    BY <1>4 DEF OpenSessions
<1>7. LatestInv'
    BY <1>1, <1>6 DEF DeviceInv, SessionInv, LatestInv
<1>8. FailedInv' /\ OwnFailedInv'
    BY <1>1, <1>4, <1>6 DEF DeviceInv, SessionInv, FailedInv, OwnFailedInv, Deleting
<1>9. DroppedInv' /\ StreamsWhileOpen'
    BY <1>1 DEF DroppedInv, StreamsWhileOpen
<1> QED BY <1>5, <1>7, <1>8, <1>9 DEF DeviceInv, SessionInv

LEMMA CloseSessionStep ==
    ASSUME DeviceInv, NEW s \in Sessions, closeSession(s) PROVE DeviceInv'
<1>1. /\ session[s].state \in {"open", "dropped"} /\ session' = [session EXCEPT ![s].state = "closed"]
      /\ streams' = "none" /\ UNCHANGED <<device, latest, opening, deletedOpen, retried>>
    BY DEF closeSession, mdp_close
<1>2. session \in [Sessions -> Objects] /\ session[s] \in Objects
    BY DEF DeviceInv, DeviceTypeOK, Objects
<1>3. session' = [session EXCEPT ![s] = [state |-> "closed", of |-> session[s].of]]
  <2>1. [session[s] EXCEPT !.state = "closed"] = [state |-> "closed", of |-> session[s].of]
      BY <1>2 DEF Objects
  <2> QED BY <1>1, <2>1
<1>4. \A r \in Sessions : session'[r] = IF r = s THEN [state |-> "closed", of |-> session[s].of]
                                               ELSE session[r]
    BY <1>2, <1>3
<1>5. DeviceTypeOK' /\ OpeningInv'
  <2>1. session' \in [Sessions -> Objects]
      BY <1>2, <1>3 DEF Objects
  <2> QED BY <1>1, <2>1 DEF DeviceInv, DeviceTypeOK, OpeningInv, Objects
<1>6. OpenSessions' = OpenSessions \ {s} /\ \A r \in OpenSessions \ {s} : session'[r] = session[r]
    BY <1>4 DEF OpenSessions
<1>7. LatestInv'
    BY <1>1, <1>6 DEF DeviceInv, SessionInv, LatestInv
<1>8. FailedInv' /\ OwnFailedInv' /\ DroppedInv'
    BY <1>1, <1>4, <1>6 DEF DeviceInv, SessionInv, FailedInv, OwnFailedInv, DroppedInv, Deleting
<1>9. StreamsWhileOpen'
    BY <1>1, <1>4, ClosingTakesOwn
<1> QED BY <1>5, <1>7, <1>8, <1>9 DEF DeviceInv, SessionInv

LEMMA DeviceStutter ==
    ASSUME DeviceInv, UNCHANGED deviceVars PROVE DeviceInv'
<1>1. DeviceTypeOK' /\ OpeningInv'
    BY DEF DeviceInv, DeviceTypeOK, OpeningInv, deviceVars
<1>2. SessionInv'
    BY SessionsStay DEF deviceVars, Deleting
<1> QED BY <1>1, <1>2 DEF DeviceInv

LEMMA DeviceInvNext ==
    ASSUME DeviceInv, [Next]_serviceVars PROVE DeviceInv'
<1>1. CASE Outside \/ HotPlugThread \/ UNCHANGED serviceVars
    BY <1>1, DeviceStutter DEF Outside, HotPlugThread, serviceVars
<1>2. ASSUME NEW c \in Callers, CallStarts(c) PROVE DeviceInv'
  <2>1. CASE \E d \in Devices : open(c, d)
      BY <2>1, OpenStarts
  <2>2. CASE UNCHANGED deviceVars
      BY <2>2, DeviceStutter
  <2> QED BY <1>2, <2>1, <2>2 DEF CallStarts, QueryStarts
<1>3. ASSUME NEW c \in Callers, CallProceeds(c) PROVE DeviceInv'
  <2>1. CASE OpenStep(c)
      BY <2>1, OpenRefusedStep, CreateSessionStep, CreateSessionFailsStep, DeleteSessionStep,
         OpenRetriesStep DEF OpenStep
  <2>2. CASE LookUpEnds(c)
      BY <2>2, MakeDeviceStep, DeviceStutter DEF LookUpEnds
  <2>3. CASE UNCHANGED deviceVars
      BY <2>3, DeviceStutter
  <2> QED BY <1>3, <2>1, <2>2, <2>3 DEF CallProceeds, QueryEnds, Crashes
<1>4. ASSUME NEW s \in Sessions, dropSession(s) \/ closeSession(s) PROVE DeviceInv'
    BY <1>4, DropSessionStep, CloseSessionStep
<1> QED BY <1>1, <1>2, <1>3, <1>4 DEF Next

(* What a device answers an open() by is the truth: a session that is open *)
(* on it is its mSession, until an open() has released mLock to try again. *)
THEOREM OneSessionHolds == Spec => []OneSession
<1>1. Init => DeviceInv
    BY DeviceInvInit
<1>2. DeviceInv /\ [Next]_serviceVars => DeviceInv'
    BY DeviceInvNext
<1>3. DeviceInv => OneSession
    BY DEF DeviceInv, SessionInv, LatestInv, OneSession
<1> QED BY <1>1, <1>2, <1>3, PTL DEF Spec

(* An open session has its MDP streams, however many sessions were opened, *)
(* failed and closed before it, on one device whose clients close before   *)
(* they let go and whose node opens at the first attempt.                  *)
THEOREM StreamsWhileOpenHolds == Spec => []StreamsWhileOpen
<1>1. Init => DeviceInv
    BY DeviceInvInit
<1>2. DeviceInv /\ [Next]_serviceVars => DeviceInv'
    BY DeviceInvNext
<1>3. DeviceInv => StreamsWhileOpen
    BY DEF DeviceInv, SessionInv
<1> QED BY <1>1, <1>2, <1>3, PTL DEF Spec

-----------------------------------------------------------------------------
(* Types of the signal status and the provider.                            *)

HotPlugPlaces == Uevents \cup {"looks", "adds", "binds", "waits", "updates"}
CallStates == {"idle", "checks", "reads", "tells", "counted", "queries"}
CallPlaces == [at : CallStates, saw : Entries]

ProviderTypes ==
    /\ cable \in BOOLEAN /\ uevents \in Seq(Uevents)
    /\ hotPlug \in HotPlugPlaces
    /\ entry \in Entries /\ mCallbacks \in Callbacks \cup {None}
    /\ call \in [Callers -> CallPlaces]
    /\ told \in [Callbacks -> Entries]
    /\ events \in 0 .. MaxEvents
    /\ unheard \in BOOLEAN /\ initFailed \in BOOLEAN /\ crossed \in BOOLEAN
    /\ phantom \in BOOLEAN /\ died \in BOOLEAN

LEMMA TypesInit ==
    ASSUME Init PROVE SignalTypeOK /\ ProviderTypes
<1>1. SignalTypeOK
    BY DEF Init, ProviderInit, SignalInit, SignalTypeOK, NotUpdating, LockStatus
<1>2. Idle \in CallPlaces
    BY DEF Idle, CallPlaces, CallStates, Entries
<1>3. 0 \in 0 .. MaxEvents /\ <<>> \in Seq(Uevents) /\ "absent" \in Entries
      /\ "looks" \in HotPlugPlaces
    BY DEF Entries, HotPlugPlaces
<1>4. ProviderTypes
    BY <1>2, <1>3 DEF Init, ProviderInit, ProviderTypes
<1> QED BY <1>1, <1>4

(* hdmi_update_lock_status, by whichever thread.                           *)
LEMMA UpdateTypes ==
    ASSUME SignalTypeOK, NEW t \in Threads,
           Update(t) \/ \E lock \in LockStatus : /\ hdmi_update_lock_status(t, lock)
                                               /\ UNCHANGED <<signal, lockStatus, vinfo, hdmiLock, misread>>
    PROVE  SignalTypeOK'
<1> DEFINE Places == [at : {"no", "wait", "poll", "fill"}, lock : LockStatus]
<1>1. update \in [Threads -> Places] /\ update[t] \in Places /\ update[t].lock \in LockStatus
    BY DEF SignalTypeOK
<1>2. "undefined" \in LockStatus /\ "locked" \in LockStatus /\ "unlocked" \in LockStatus
    BY DEF LockStatus
<1>3. CASE UpdateTakesLock(t)
  <2>1. \A at \in {"poll", "fill"} : [update EXCEPT ![t].at = at] \in [Threads -> Places]
      BY <1>1
  <2> QED BY <1>1, <1>3, <2>1 DEF SignalTypeOK, UpdateTakesLock
<1>4. CASE UpdatePolls(t)
    BY <1>1, <1>2, <1>4 DEF SignalTypeOK, UpdatePolls
<1>5. CASE UpdateFills(t)
    BY <1>1, <1>2, <1>5 DEF SignalTypeOK, UpdateFills, NotUpdating
<1>6. CASE \E lock \in LockStatus : /\ hdmi_update_lock_status(t, lock)
                                    /\ UNCHANGED <<signal, lockStatus, vinfo, hdmiLock, misread>>
    BY <1>1, <1>6 DEF SignalTypeOK, hdmi_update_lock_status
<1> QED BY <1>3, <1>4, <1>5, <1>6 DEF Update

LEMMA SignalStutter ==
    ASSUME SignalTypeOK, UNCHANGED signalVars PROVE SignalTypeOK'
BY DEF SignalTypeOK, signalVars

LEMMA SignalTypesNext ==
    ASSUME SignalTypeOK, ProviderTypes, [Next]_serviceVars PROVE SignalTypeOK'
<1>1. CASE Outside
  <2>1. CASE SignalChanges
      BY <2>1 DEF SignalTypeOK, SignalChanges
  <2>2. CASE UNCHANGED signalVars
      BY <2>2, SignalStutter
  <2> QED BY <1>1, <2>1, <2>2 DEF Outside, CableChanges, HdrChanges
<1>2. CASE HotPlugThread
  <2>1. CASE Update(HotPlug)
      BY <2>1, UpdateTypes
  <2>2. CASE handleHdmiUEvents
    <3>1. CASE UNCHANGED update
        BY <2>2, <3>1, SignalStutter DEF handleHdmiUEvents, signalVars
    <3>2. CASE \E lock \in LockStatus : hdmi_update_lock_status(HotPlug, lock)
        BY <2>2, <3>2, UpdateTypes DEF handleHdmiUEvents
    <3>3. \A event \in DOMAIN LockOf : LockOf[event] \in LockStatus
        BY DEF LockOf, LockStatus
    <3> QED BY <2>2, <3>1, <3>2, <3>3 DEF handleHdmiUEvents
  <2>3. CASE getHDRInfo
      BY <2>3 DEF SignalTypeOK, getHDRInfo
  <2>4. CASE UNCHANGED signalVars
      BY <2>4, SignalStutter
  <2> QED BY <1>2, <2>1, <2>2, <2>3, <2>4 DEF HotPlugThread, HotPlugSteps, ConstructorLooks,
           deviceAdded, ConstructorBinds, deviceRemoved, StatusUpdated
<1>3. ASSUME NEW c \in Callers, CallStarts(c) PROVE SignalTypeOK'
  <2>1. CASE QueryStarts(c)
    <3>1. "undefined" \in LockStatus
        BY DEF LockStatus
    <3> QED BY <2>1, <3>1, UpdateTypes DEF QueryStarts
  <2>2. CASE UNCHANGED signalVars
      BY <2>2, SignalStutter
  <2> QED BY <1>3, <2>1, <2>2 DEF CallStarts, setCallback, getCameraDeviceInterface
<1>4. ASSUME NEW c \in Callers, CallProceeds(c) PROVE SignalTypeOK'
  <2>1. CASE Update(c)
      BY <2>1, UpdateTypes
  <2>2. CASE UNCHANGED signalVars
      BY <2>2, SignalStutter
  <2> QED BY <1>4, <2>1, <2>2 DEF CallProceeds, setCallbackChecks, setCallbackReads, setCallbackTells, LookUpEnds,
           QueryEnds, Crashes
<1>5. CASE UNCHANGED signalVars
    BY <1>5, SignalStutter
<1> QED BY <1>1, <1>2, <1>3, <1>4, <1>5 DEF Next, serviceVars

LEMMA ProviderStutter ==
    ASSUME ProviderTypes, UNCHANGED <<providerVars, died>> PROVE ProviderTypes'
BY DEF ProviderTypes, providerVars

(* A thread's call goes on to a place of its own.                          *)
LEMMA CallMoves ==
    ASSUME call \in [Callers -> CallPlaces], NEW c \in Callers,
           \/ \E at \in CallStates :
                 call' = [call EXCEPT ![c].at = at]
           \/ \E at \in CallStates, saw \in Entries :
                 call' = [call EXCEPT ![c] = [at |-> at, saw |-> saw]]
           \/ call' = [call EXCEPT ![c] = Idle]
    PROVE  call' \in [Callers -> CallPlaces]
<1>1. Idle \in CallPlaces
    BY DEF Idle, CallPlaces, CallStates, Entries
<1> QED BY <1>1 DEF CallPlaces, CallStates

(* What the callback in place is told is of the map.                       *)
LEMMA TellTypes ==
    ASSUME told \in [Callbacks -> Entries], mCallbacks \in Callbacks \cup {None},
           NEW status \in Entries, Tell(status)
    PROVE  told' \in [Callbacks -> Entries]
BY DEF Tell

LEMMA MapTypes ==
    ASSUME ProviderTypes, addHdmirxCamera \/ removeHdmirxCamera
    PROVE  entry' \in Entries /\ told' \in [Callbacks -> Entries]
<1>1. {"PRESENT", "NOT_PRESENT", "absent"} \subseteq Entries
    BY DEF Entries
<1>2. CASE UNCHANGED <<entry, told>>
    BY <1>2 DEF ProviderTypes
<1>3. CASE entry' = "PRESENT" /\ Tell("PRESENT")
    BY <1>1, <1>3, TellTypes DEF ProviderTypes
<1>4. CASE entry' = "absent" /\ Tell("NOT_PRESENT")
    BY <1>1, <1>4, TellTypes DEF ProviderTypes
<1> QED BY <1>2, <1>3, <1>4 DEF addHdmirxCamera, removeHdmirxCamera

(* An event is put behind those in the socket.                             *)
LEMMA ReportTypes ==
    ASSUME ProviderTypes, NEW event \in Uevents, Report(event)
    PROVE  uevents' \in Seq(Uevents)
BY DEF ProviderTypes, Report

LEMMA OutsideTypes ==
    ASSUME ProviderTypes, Outside PROVE ProviderTypes'
<1>1. {"PLUG_IN", "PLUG_OUT", "TIMING_LOCK", "TIMING_UNLOCK", "HDR_INFO_CHANGE"} \subseteq Uevents
    BY DEF Uevents
<1>2. events + 1 \in 0 .. MaxEvents /\ events' = events + 1
  <2>1. events < MaxEvents /\ events' = events + 1
      BY DEF Outside, CableChanges, SignalChanges, HdrChanges
  <2>2. events \in 0 .. MaxEvents
      BY DEF ProviderTypes
  <2> QED BY <2>1, <2>2
<1>3. uevents' \in Seq(Uevents)
  <2>1. \E event \in Uevents : Report(event)
      BY <1>1 DEF Outside, CableChanges, SignalChanges, HdrChanges
  <2> QED BY <2>1, ReportTypes
<1>4. CASE CableChanges
    BY <1>2, <1>3, <1>4 DEF ProviderTypes, CableChanges, Outside
<1>5. CASE SignalChanges
    BY <1>2, <1>3, <1>5 DEF ProviderTypes, SignalChanges, Outside
<1>6. CASE HdrChanges
    BY <1>2, <1>3, <1>6 DEF ProviderTypes, HdrChanges, Outside
<1> QED BY <1>4, <1>5, <1>6 DEF Outside

LEMMA HotPlugTypes ==
    ASSUME ProviderTypes, HotPlugThread PROVE ProviderTypes'
<1>1. {"adds", "binds", "waits", "updates"} \subseteq HotPlugPlaces /\ Uevents \subseteq HotPlugPlaces
    BY DEF HotPlugPlaces
<1>2. CASE ConstructorLooks \/ ConstructorBinds \/ StatusUpdated \/ getHDRInfo
    BY <1>1, <1>2 DEF ProviderTypes, ConstructorLooks, ConstructorBinds, StatusUpdated, getHDRInfo,
                      HotPlugThread
<1>3. CASE deviceAdded
  <2>1. entry' \in Entries /\ told' \in [Callbacks -> Entries] /\ initFailed' \in BOOLEAN
    <3>1. CASE Refuses
        BY <1>3, <3>1 DEF deviceAdded, ProviderTypes
    <3>2. CASE ~Refuses
        BY <1>3, <3>2, MapTypes DEF deviceAdded
    <3> QED BY <3>1, <3>2
  <2>2. hotPlug' \in HotPlugPlaces
      BY <1>1, <1>3 DEF deviceAdded, AfterAdding
  <2>3. crossed' \in BOOLEAN
      BY <1>3 DEF deviceAdded, ProviderTypes, InCall
  <2>4. UNCHANGED <<cable, uevents, mCallbacks, call, events, unheard, phantom, died>>
      BY <1>3 DEF deviceAdded, HotPlugThread
  <2> QED BY <2>1, <2>2, <2>3, <2>4 DEF ProviderTypes
<1>4. CASE deviceRemoved
  <2>1. entry' \in Entries /\ told' \in [Callbacks -> Entries]
      BY <1>4, MapTypes DEF deviceRemoved
  <2>2. hotPlug' \in HotPlugPlaces
      BY <1>1, <1>4 DEF deviceRemoved
  <2>3. crossed' \in BOOLEAN
      BY <1>4 DEF deviceRemoved, ProviderTypes, InCall
  <2>4. UNCHANGED <<cable, uevents, mCallbacks, call, events, unheard, initFailed, phantom, died>>
      BY <1>4 DEF deviceRemoved, HotPlugThread
  <2> QED BY <2>1, <2>2, <2>3, <2>4 DEF ProviderTypes
<1>5. CASE handleHdmiUEvents
  <2>1. uevents' \in Seq(Uevents) /\ Head(uevents) \in Uevents
      BY <1>5 DEF handleHdmiUEvents, ProviderTypes
  <2>2. hotPlug' \in HotPlugPlaces
      BY <1>1, <1>5, <2>1 DEF handleHdmiUEvents
  <2> QED BY <1>5, <2>1, <2>2 DEF ProviderTypes, handleHdmiUEvents, HotPlugThread
<1>6. CASE UNCHANGED <<providerVars, died>>
    BY <1>6, ProviderStutter
<1> QED BY <1>2, <1>3, <1>4, <1>5, <1>6 DEF HotPlugThread, HotPlugSteps

LEMMA CallTypes ==
    ASSUME ProviderTypes, NEW c \in Callers, CallStarts(c) \/ CallProceeds(c)
    PROVE  ProviderTypes'
<1>1. call \in [Callers -> CallPlaces] /\ told \in [Callbacks -> Entries]
      /\ mCallbacks \in Callbacks \cup {None} /\ entry \in Entries
    BY DEF ProviderTypes
<1>2. ASSUME NEW b \in Callbacks \cup {None}, setCallback(c, b), died' = died PROVE ProviderTypes'
  <2>1. call' \in [Callers -> CallPlaces]
      BY <1>1, <1>2, CallMoves DEF setCallback, CallStates
  <2>2. told' \in [Callbacks -> Entries]
      BY <1>1, <1>2 DEF setCallback, Entries
  <2> QED BY <1>2, <2>1, <2>2 DEF ProviderTypes, setCallback
<1>3. CASE getCameraDeviceInterface(c) /\ died' = died
  <2>1. call' \in [Callers -> CallPlaces]
      BY <1>1, <1>3, CallMoves DEF getCameraDeviceInterface, CallStates
  <2> QED BY <1>3, <2>1 DEF ProviderTypes, getCameraDeviceInterface
<1>4. CASE QueryStarts(c)
  <2>1. call' \in [Callers -> CallPlaces]
      BY <1>1, <1>4, CallMoves DEF QueryStarts, CallStates
  <2> QED BY <1>4, <2>1 DEF ProviderTypes, QueryStarts
<1>11. CASE setCallbackChecks(c) /\ died' = died
  <2>1. call' \in [Callers -> CallPlaces]
      BY <1>1, <1>11, CallMoves DEF setCallbackChecks, CallStates
  <2> QED BY <1>11, <2>1 DEF ProviderTypes, setCallbackChecks
<1>5. CASE setCallbackReads(c) /\ died' = died
  <2>1. call' \in [Callers -> CallPlaces]
      BY <1>1, <1>5, CallMoves DEF setCallbackReads, CallStates
  <2> QED BY <1>5, <2>1 DEF ProviderTypes, setCallbackReads
<1>6. CASE setCallbackTells(c) /\ died' = died
  <2>1. call' \in [Callers -> CallPlaces]
      BY <1>1, <1>6, CallMoves DEF setCallbackTells, CallStates
  <2>2. call[c].saw \in Entries
      BY <1>1 DEF CallPlaces
  <2>3. told' \in [Callbacks -> Entries]
      BY <1>1, <1>6, <2>2, TellTypes DEF setCallbackTells
  <2> QED BY <1>6, <2>1, <2>3 DEF ProviderTypes, setCallbackTells
<1>7. CASE LookUpEnds(c)
  <2>1. call' \in [Callers -> CallPlaces]
      BY <1>1, <1>7, CallMoves DEF LookUpEnds, CallStates
  <2>2. entry' \in Entries /\ phantom' \in BOOLEAN
      BY <1>1, <1>7 DEF LookUpEnds, EntryRead, Entries, ProviderTypes
  <2> QED BY <1>7, <2>1, <2>2 DEF ProviderTypes, LookUpEnds
<1>8. CASE QueryEnds(c)
  <2>1. call' \in [Callers -> CallPlaces]
      BY <1>1, <1>8, CallMoves DEF QueryEnds, CallStates
  <2> QED BY <1>8, <2>1 DEF ProviderTypes, QueryEnds
<1>9. CASE Crashes(c)
    BY <1>9 DEF ProviderTypes, Crashes, providerVars
<1>10. CASE UNCHANGED <<providerVars, died>>
    BY <1>10, ProviderStutter
<1> QED BY <1>2, <1>3, <1>4, <1>5, <1>6, <1>7, <1>8, <1>9, <1>10, <1>11 DEF CallStarts, CallProceeds

LEMMA ProviderTypesNext ==
    ASSUME ProviderTypes, [Next]_serviceVars PROVE ProviderTypes'
BY OutsideTypes, HotPlugTypes, CallTypes, ProviderStutter DEF Next, serviceVars

(* The variables of the camera service have their types: a thread is where *)
(* its call can be, the socket holds events, a retry counter stays within  *)
(* MAX_RETRY + 1.                                                          *)
THEOREM TypeCorrect == Spec => []TypeOK
<1> DEFINE Inv == SignalTypeOK /\ ProviderTypes /\ DeviceInv
<1>1. Init => Inv
    BY TypesInit, DeviceInvInit
<1>2. Inv /\ [Next]_serviceVars => Inv'
    BY SignalTypesNext, ProviderTypesNext, DeviceInvNext
<1>3. Inv => TypeOK
    BY DEF DeviceInv, ProviderTypes, TypeOK, HotPlugPlaces, CallPlaces, CallStates
<1> QED BY <1>1, <1>2, <1>3, PTL DEF Spec

-----------------------------------------------------------------------------
(* The framework's callback and the map.                                   *)

(* While no plug event falls into a call: what setCallback is about to     *)
(* tell is what the map holds; a callback never believes in a camera that  *)
(* is not there, and, once setCallback is through, knows of one that is.   *)
ToldInv ==
    ~crossed =>
       /\ \A c \in Callers : call[c].at = "tells" => call[c].saw = entry /\ entry # "absent"
       /\ mCallbacks # None /\ entry # "PRESENT" => told[mCallbacks] # "PRESENT"
       /\ mCallbacks # None /\ entry = "PRESENT"
          /\ (\A c \in Callers : call[c].at \notin {"checks", "reads", "tells"})
          => told[mCallbacks] = "PRESENT"

toldVars == <<call, entry, mCallbacks, told, crossed>>

LEMMA ToldStutter ==
    ASSUME ToldInv, UNCHANGED toldVars PROVE ToldInv'
BY DEF ToldInv, toldVars

(* A call that neither tells nor reads, nor did.                           *)
LEMMA ToldOtherCall ==
    ASSUME ProviderTypes, ToldInv, NEW c \in Callers, NEW new \in CallPlaces,
           call[c].at \notin {"checks", "reads", "tells"}, new.at \notin {"checks", "reads", "tells"},
           call' = [call EXCEPT ![c] = new],
           entry' = entry \/ (entry = "absent" /\ entry' = "NOT_PRESENT"),
           UNCHANGED <<mCallbacks, told, crossed>>
    PROVE  ToldInv'
<1>1. \A d \in Callers : call'[d] = IF d = c THEN new ELSE call[d]
    BY DEF ProviderTypes
<1> QED BY <1>1 DEF ToldInv

(* A plug event is handled in no call: the callback is told of the change. *)
LEMMA ToldOfPlugEvent ==
    ASSUME ProviderTypes, ToldInv, UNCHANGED <<call, mCallbacks>>, crossed' = (crossed \/ InCall),
           UNCHANGED <<entry, told>> \/ addHdmirxCamera \/ removeHdmirxCamera
    PROVE  ToldInv'
<1> SUFFICES ASSUME ~crossed' PROVE ToldInv'
    BY DEF ToldInv
<1>1. \A c \in Callers : call[c].at = "idle"
    BY DEF InCall
<1>2. CASE UNCHANGED <<entry, told>>
    BY <1>2 DEF ToldInv
<1>3. CASE entry' = "PRESENT" /\ Tell("PRESENT")
    BY <1>1, <1>3 DEF ToldInv, Tell, ProviderTypes
<1>4. CASE entry' = "absent" /\ Tell("NOT_PRESENT")
    BY <1>1, <1>4 DEF ToldInv, Tell, ProviderTypes
<1> QED BY <1>2, <1>3, <1>4 DEF addHdmirxCamera, removeHdmirxCamera

LEMMA ToldInvHotPlug ==
    ASSUME ProviderTypes, ToldInv, HotPlugThread PROVE ToldInv'
<1>1. CASE deviceAdded
    BY <1>1, ToldOfPlugEvent DEF deviceAdded
<1>2. CASE deviceRemoved
    BY <1>2, ToldOfPlugEvent DEF deviceRemoved
<1>3. CASE UNCHANGED toldVars
    BY <1>3, ToldStutter
<1> QED BY <1>1, <1>2, <1>3 DEF HotPlugThread, HotPlugSteps, ConstructorLooks, ConstructorBinds,
         handleHdmiUEvents, StatusUpdated, getHDRInfo, providerVars, toldVars

LEMMA ToldInvCall ==
    ASSUME ProviderTypes, ToldInv, NEW c \in Callers, CallStarts(c) \/ CallProceeds(c)
    PROVE  ToldInv'
<1>1. call \in [Callers -> CallPlaces] /\ call[c] \in CallPlaces /\ Idle \in CallPlaces
    BY DEF ProviderTypes, Idle, CallPlaces, CallStates, Entries
<1> DEFINE At(at) == [at |-> at, saw |-> call[c].saw]
<1>2. \A at \in CallStates :
         At(at) \in CallPlaces /\ [call EXCEPT ![c].at = at] = [call EXCEPT ![c] = At(at)]
  <2> TAKE at \in CallStates
  <2>1. At(at) \in CallPlaces
      BY <1>1 DEF CallPlaces
  <2>2. [call[c] EXCEPT !.at = at] = At(at)
      BY <1>1 DEF CallPlaces
  <2> QED BY <2>1, <2>2
<1>3. \A new : call' = [call EXCEPT ![c] = new]
               => \A d \in Callers : call'[d] = IF d = c THEN new ELSE call[d]
    BY <1>1
<1>4. Idle.at = "idle"
    BY DEF Idle
<1>5. ASSUME NEW b \in Callbacks \cup {None}, setCallback(c, b) PROVE ToldInv'
  <2>1. /\ call' = [call EXCEPT ![c] = At("checks")] /\ mCallbacks' = b
        /\ UNCHANGED <<entry, crossed>>
      BY <1>2, <1>5 DEF setCallback, CallStates
  <2>2. b # None => told'[b] = "absent"
      BY <1>5 DEF setCallback, ProviderTypes
  <2>3. \A d \in Callers : call'[d] = IF d = c THEN At("checks") ELSE call[d]
      BY <1>3, <2>1
  <2> QED BY <2>1, <2>2, <2>3 DEF ToldInv
<1>13. CASE setCallbackChecks(c)
  <2> DEFINE at == IF mCallbacks = None THEN "idle" ELSE "reads"
  <2>1. call' = [call EXCEPT ![c] = At(at)] /\ UNCHANGED <<entry, mCallbacks, told, crossed>>
      BY <1>2, <1>13 DEF setCallbackChecks, CallStates
  <2>2. \A d \in Callers : call'[d] = IF d = c THEN At(at) ELSE call[d]
      BY <1>3, <2>1
  <2> QED BY <2>1, <2>2 DEF ToldInv
<1>6. CASE getCameraDeviceInterface(c)
  <2>1. call' = [call EXCEPT ![c] = At("counted")] /\ call[c].at = "idle"
        /\ UNCHANGED <<entry, mCallbacks, told, crossed>>
      BY <1>2, <1>6 DEF getCameraDeviceInterface, CallStates
  <2> QED BY <1>2, <2>1, ToldOtherCall DEF CallStates
<1>7. CASE QueryStarts(c)
  <2>1. call' = [call EXCEPT ![c] = At("queries")] /\ call[c].at = "idle"
        /\ UNCHANGED <<entry, mCallbacks, told, crossed>>
      BY <1>2, <1>7 DEF QueryStarts, CallStates
  <2> QED BY <1>2, <2>1, ToldOtherCall DEF CallStates
<1>8. CASE setCallbackReads(c)
  <2>1. CASE entry = "absent"
    <3>1. call' = [call EXCEPT ![c] = Idle] /\ UNCHANGED <<entry, mCallbacks, told, crossed>>
        BY <1>8, <2>1 DEF setCallbackReads
    <3>2. \A d \in Callers : call'[d] = IF d = c THEN Idle ELSE call[d]
        BY <1>3, <3>1
    <3> QED BY <1>4, <2>1, <3>1, <3>2 DEF ToldInv
  <2>2. CASE entry # "absent"
    <3>1. /\ call' = [call EXCEPT ![c] = [at |-> "tells", saw |-> entry]]
          /\ UNCHANGED <<entry, mCallbacks, told, crossed>>
        BY <1>8, <2>2 DEF setCallbackReads
    <3>2. \A d \in Callers : call'[d] = IF d = c THEN [at |-> "tells", saw |-> entry] ELSE call[d]
        BY <1>3, <3>1
    <3> QED BY <2>2, <3>1, <3>2 DEF ToldInv
  <2> QED BY <2>1, <2>2
<1>9. CASE setCallbackTells(c)
  <2>1. /\ call' = [call EXCEPT ![c] = Idle] /\ told' = [told EXCEPT ![mCallbacks] = call[c].saw]
        /\ mCallbacks \in Callbacks /\ call[c].at = "tells"
        /\ UNCHANGED <<entry, mCallbacks, crossed>>
      BY <1>9 DEF setCallbackTells, Tell, ProviderTypes
  <2>2. told'[mCallbacks] = call[c].saw
      BY <2>1 DEF ProviderTypes
  <2>3. \A d \in Callers : call'[d] = IF d = c THEN Idle ELSE call[d]
      BY <1>3, <2>1
  <2> QED BY <1>4, <2>1, <2>2, <2>3 DEF ToldInv
<1>10. CASE LookUpEnds(c)
  <2>1. /\ call' = [call EXCEPT ![c] = Idle] /\ call[c].at = "counted"
        /\ entry' = entry \/ (entry = "absent" /\ entry' = "NOT_PRESENT")
        /\ UNCHANGED <<mCallbacks, told, crossed>>
      BY <1>10 DEF LookUpEnds, EntryRead
  <2> QED BY <1>1, <1>4, <2>1, ToldOtherCall
<1>11. CASE QueryEnds(c)
  <2>1. call' = [call EXCEPT ![c] = Idle] /\ call[c].at = "queries"
        /\ UNCHANGED <<entry, mCallbacks, told, crossed>>
      BY <1>11 DEF QueryEnds
  <2> QED BY <1>1, <1>4, <2>1, ToldOtherCall
<1>12. CASE UNCHANGED providerVars
    BY <1>12, ToldStutter DEF providerVars, toldVars
<1> QED BY <1>5, <1>6, <1>7, <1>8, <1>9, <1>10, <1>11, <1>12, <1>13
    DEF CallStarts, CallProceeds, Crashes

LEMMA ToldInvNext ==
    ASSUME ProviderTypes, ToldInv, [Next]_serviceVars PROVE ToldInv'
<1>1. CASE Outside
    BY <1>1, ToldStutter DEF Outside, CableChanges, SignalChanges, HdrChanges, toldVars
<1>2. CASE UNCHANGED providerVars
    BY <1>2, ToldStutter DEF providerVars, toldVars
<1> QED BY <1>1, <1>2, ToldInvHotPlug, ToldInvCall DEF Next, serviceVars

(* setCallback and the hot-plug thread tell the callback in place what the *)
(* map holds, when neither comes into the other's way, whoever else sets a *)
(* callback, and whatever look-ups put in.                                 *)
THEOREM ToldFollowsMapHolds == Spec => []ToldFollowsMap
<1> DEFINE Inv == ProviderTypes /\ ToldInv
<1>1. Init => Inv
  <2>1. Init => ToldInv
      BY DEF Init, ProviderInit, ToldInv, Idle
  <2> QED BY <2>1, TypesInit
<1>2. Inv /\ [Next]_serviceVars => Inv'
    BY ProviderTypesNext, ToldInvNext
<1>3. Inv => ToldFollowsMap
    BY DEF ToldInv, ToldFollowsMap
<1> QED BY <1>1, <1>2, <1>3, PTL DEF Spec

-----------------------------------------------------------------------------
(* The events in the socket: those of some kinds, of which the last counts.*)

NoneOf(kinds, s) == \A k \in 1 .. Len(s) : s[k] \notin kinds
LastOf(kinds, s, event) ==
    \E k \in 1 .. Len(s) : /\ s[k] = event /\ event \in kinds
                           /\ \A j \in 1 .. Len(s) : j > k => s[j] \notin kinds

(* Another event behind the others: it is the last, or of another kind.    *)
LEMMA EventAppended ==
    ASSUME NEW kinds, NEW s \in Seq(Uevents), NEW new \in Uevents
    PROVE  /\ new \in kinds => /\ ~NoneOf(kinds, Append(s, new))
                               /\ \A event : LastOf(kinds, Append(s, new), event) => event = new
           /\ new \notin kinds => /\ NoneOf(kinds, Append(s, new)) => NoneOf(kinds, s)
                                  /\ \A event : LastOf(kinds, Append(s, new), event)
                                               => LastOf(kinds, s, event)
<1> DEFINE n == Len(s)
           t == Append(s, new)
<1>1. n \in Nat /\ Len(t) = n + 1 /\ t[n + 1] = new /\ \A k \in 1 .. n : t[k] = s[k]
    OBVIOUS
<1> HIDE DEF t
<1>2. n + 1 \in 1 .. Len(t) /\ \A k \in 1 .. n : k \in 1 .. Len(t)
    BY <1>1
<1>3. ASSUME new \in kinds
      PROVE  ~NoneOf(kinds, t) /\ \A event : LastOf(kinds, t, event) => event = new
  <2>1. ~NoneOf(kinds, t)
      BY <1>1, <1>2, <1>3 DEF NoneOf
  <2>2. ASSUME NEW event, LastOf(kinds, t, event) PROVE event = new
    <3>1. PICK k \in 1 .. Len(t) : /\ t[k] = event /\ event \in kinds
                                  /\ \A j \in 1 .. Len(t) : j > k => t[j] \notin kinds
        BY <2>2 DEF LastOf
    <3>2. k = n + 1
        BY <1>1, <1>2, <1>3, <3>1
    <3> QED BY <1>1, <3>1, <3>2
  <2> QED BY <2>1, <2>2
<1>4. ASSUME new \notin kinds
      PROVE  /\ NoneOf(kinds, t) => NoneOf(kinds, s)
             /\ \A event : LastOf(kinds, t, event) => LastOf(kinds, s, event)
  <2>1. NoneOf(kinds, t) => NoneOf(kinds, s)
      BY <1>1, <1>2 DEF NoneOf
  <2>2. ASSUME NEW event, LastOf(kinds, t, event) PROVE LastOf(kinds, s, event)
    <3>1. PICK k \in 1 .. Len(t) : /\ t[k] = event /\ event \in kinds
                                  /\ \A j \in 1 .. Len(t) : j > k => t[j] \notin kinds
        BY <2>2 DEF LastOf
    <3>2. k \in 1 .. n
        BY <1>1, <1>4, <3>1
    <3>3. \A j \in 1 .. n : j > k => s[j] \notin kinds
        BY <1>1, <1>2, <3>1
    <3> QED BY <1>1, <3>1, <3>2, <3>3 DEF LastOf
  <2> QED BY <2>1, <2>2
<1> QED BY <1>3, <1>4 DEF t

(* The first event is taken: the last stays, or was the first.             *)
LEMMA EventTaken ==
    ASSUME NEW kinds, NEW s \in Seq(Uevents), s # <<>>
    PROVE  /\ \A event : LastOf(kinds, Tail(s), event) => LastOf(kinds, s, event)
           /\ NoneOf(kinds, Tail(s)) => IF Head(s) \in kinds THEN LastOf(kinds, s, Head(s))
                                                              ELSE NoneOf(kinds, s)
<1> DEFINE n == Len(s)
           t == Tail(s)
<1>1. n \in Nat /\ n > 0 /\ Len(t) = n - 1 /\ \A k \in 1 .. n - 1 : t[k] = s[k + 1]
    OBVIOUS
<1>2. Head(s) = s[1]
    OBVIOUS
<1> HIDE DEF t
<1>3. \A j \in 1 .. n : j > 1 => j - 1 \in 1 .. n - 1 /\ s[j] = t[j - 1]
  <2> TAKE j \in 1 .. n
  <2> HAVE j > 1
  <2>1. j - 1 \in 1 .. n - 1
      BY <1>1
  <2>2. t[j - 1] = s[(j - 1) + 1]
      BY <1>1, <2>1
  <2>3. (j - 1) + 1 = j
      BY <1>1
  <2> QED BY <2>1, <2>2, <2>3
<1>4. ASSUME NEW event, LastOf(kinds, t, event) PROVE LastOf(kinds, s, event)
  <2>1. PICK k \in 1 .. n - 1 : /\ t[k] = event /\ event \in kinds
                                /\ \A j \in 1 .. n - 1 : j > k => t[j] \notin kinds
      BY <1>1, <1>4 DEF LastOf
  <2>2. k + 1 \in 1 .. n /\ s[k + 1] = event
      BY <1>1, <2>1
  <2>3. ASSUME NEW j \in 1 .. n, j > k + 1 PROVE s[j] \notin kinds
    <3>1. j > 1 /\ j - 1 > k
        BY <1>1, <2>1, <2>3
    <3> QED BY <1>3, <2>1, <3>1
  <2> QED BY <2>1, <2>2, <2>3 DEF LastOf
<1>5. ASSUME NoneOf(kinds, t) PROVE IF Head(s) \in kinds THEN LastOf(kinds, s, Head(s)) ELSE NoneOf(kinds, s)
  <2>1. \A j \in 1 .. n : j > 1 => s[j] \notin kinds
      BY <1>1, <1>3, <1>5 DEF NoneOf
  <2>2. 1 \in 1 .. n /\ \A j \in 1 .. n : j = 1 \/ j > 1
      BY <1>1
  <2>3. CASE Head(s) \in kinds
      BY <1>2, <2>1, <2>2, <2>3 DEF LastOf
  <2>4. CASE Head(s) \notin kinds
      BY <1>2, <2>1, <2>2, <2>4 DEF NoneOf
  <2> QED BY <2>3, <2>4
<1> QED BY <1>4, <1>5 DEF t

-----------------------------------------------------------------------------
(* The map and the cable.                                                  *)

Plugs == {"PLUG_IN", "PLUG_OUT"}

(* Nobody is in a call before the constructor is done, so the map is its.  *)
Unbegun ==
    /\ \A c \in Callers : call[c].at = "idle" /\ opening[c].at = "idle"
    /\ \A d \in Devices : device[d] = "none"
    /\ \A s \in Sessions : session[s].state = "none"
    /\ lockStatus = "undefined"
    /\ \A t \in Threads : update[t] = NotUpdating

(* The plug events ahead end with the present cable; with none ahead, the  *)
(* one in hand is the present cable, or has been handled.                  *)
KnownInv ==
    /\ ~Bound => uevents = <<>>
    /\ ~phantom => entry # "NOT_PRESENT" /\ (hotPlug = "looks" => entry = "absent")
    /\ ~unheard =>
          /\ LastOf(Plugs, uevents, "PLUG_IN") => cable
          /\ LastOf(Plugs, uevents, "PLUG_OUT") => ~cable
          /\ NoneOf(Plugs, uevents) =>
                /\ hotPlug \in {"PLUG_IN", "adds"} => cable
                /\ hotPlug = "PLUG_OUT" => ~cable
                /\ hotPlug \notin {"PLUG_IN", "PLUG_OUT", "adds", "looks"}
                   /\ ~initFailed /\ ~phantom /\ ~Refuses => (entry = "PRESENT") = cable

knownVars == <<cable, uevents, hotPlug, entry, unheard, initFailed, phantom>>

LEMMA KnownInit == ASSUME Init PROVE KnownInv
BY DEF Init, ProviderInit, KnownInv, NoneOf, LastOf

LEMMA KnownStutter ==
    ASSUME KnownInv, UNCHANGED knownVars PROVE KnownInv'
BY DEF KnownInv, knownVars, Bound, NoneOf, LastOf

(* What happens to the cable or the signal is put behind the rest.         *)
LEMMA KnownOutside ==
    ASSUME ProviderTypes, KnownInv, Outside PROVE KnownInv'
<1>1. cable \in BOOLEAN /\ uevents \in Seq(Uevents)
    BY DEF ProviderTypes
<1>2. UNCHANGED <<hotPlug, entry, initFailed, phantom>>
    BY DEF Outside, CableChanges, SignalChanges, HdrChanges
<1>3. CASE CableChanges
  <2> DEFINE new == IF cable THEN "PLUG_OUT" ELSE "PLUG_IN"
  <2>1. new \in Uevents /\ new \in Plugs
      BY DEF Uevents, Plugs
  <2>2. /\ cable' = ~cable /\ uevents' = IF Bound THEN Append(uevents, new) ELSE uevents
        /\ unheard' = (hotPlug \in {"adds", "binds"})
      BY <1>3 DEF CableChanges, Report
  <2>3. new = IF cable THEN "PLUG_OUT" ELSE "PLUG_IN"
      OBVIOUS
  <2> HIDE DEF new
  <2>4. CASE Bound
    <3>1. ~NoneOf(Plugs, uevents') /\ \A event : LastOf(Plugs, uevents', event) => event = new
        BY <1>1, <2>1, <2>2, <2>4, EventAppended
    <3>2. Bound' /\ hotPlug # "looks"
        BY <1>2, <2>4 DEF Bound
    <3>3. LastOf(Plugs, uevents', "PLUG_IN") => cable'
        BY <2>2, <2>3, <3>1
    <3>4. LastOf(Plugs, uevents', "PLUG_OUT") => ~cable'
        BY <2>2, <2>3, <3>1
    <3> QED BY <1>2, <3>1, <3>2, <3>3, <3>4 DEF KnownInv
  <2>5. CASE ~Bound
    <3>1. uevents = <<>> /\ uevents' = <<>> /\ (unheard' \/ hotPlug = "looks")
        BY <2>2, <2>5 DEF KnownInv, Bound
    <3>2. \A event : ~LastOf(Plugs, uevents', event)
        BY <3>1 DEF LastOf
    <3> QED BY <1>2, <2>5, <3>1, <3>2 DEF KnownInv
  <2> QED BY <2>4, <2>5
<1>4. CASE SignalChanges \/ HdrChanges
  <2>1. PICK new \in Uevents \ Plugs : uevents' = IF Bound THEN Append(uevents, new) ELSE uevents
      BY <1>4 DEF SignalChanges, HdrChanges, Report, Uevents, Plugs
  <2>2. UNCHANGED <<cable, unheard>>
      BY <1>4 DEF SignalChanges, HdrChanges
  <2>3. CASE Bound
    <3>1. /\ NoneOf(Plugs, uevents') => NoneOf(Plugs, uevents)
          /\ \A event : LastOf(Plugs, uevents', event) => LastOf(Plugs, uevents, event)
        BY <1>1, <2>1, <2>3, EventAppended
    <3>2. Bound'
        BY <1>2, <2>3 DEF Bound
    <3> QED BY <1>2, <2>2, <3>1, <3>2 DEF KnownInv
  <2>4. CASE ~Bound
      BY <1>2, <2>1, <2>2, <2>4, KnownStutter DEF knownVars
  <2> QED BY <2>3, <2>4
<1> QED BY <1>3, <1>4 DEF Outside

LEMMA KnownHotPlug ==
    ASSUME ProviderTypes, KnownInv, Bound \/ Unbegun, HotPlugThread PROVE KnownInv'
<1>1. cable \in BOOLEAN /\ uevents \in Seq(Uevents) /\ entry \in Entries
    BY DEF ProviderTypes
<1>2. CASE ConstructorLooks
  <2>1. /\ hotPlug = "looks" /\ hotPlug' \in {"adds", "binds"}
        /\ ~unheard' => hotPlug' = (IF cable THEN "adds" ELSE "binds")
        /\ UNCHANGED <<cable, uevents, entry, initFailed, phantom>>
      BY <1>2 DEF ConstructorLooks
  <2>2. uevents' = <<>> /\ ~Bound'
      BY <2>1 DEF KnownInv, Bound
  <2>3. \A event : ~LastOf(Plugs, uevents', event)
      BY <2>2 DEF LastOf
  <2> QED BY <1>1, <2>1, <2>2, <2>3 DEF KnownInv
<1>3. CASE ConstructorBinds
  <2>1. /\ hotPlug = "binds" /\ hotPlug' = "waits"
        /\ UNCHANGED <<cable, uevents, entry, unheard, initFailed, phantom>>
      BY <1>3 DEF ConstructorBinds
  <2> QED BY <2>1 DEF KnownInv, Bound
<1>4. CASE deviceAdded
  <2>1. /\ hotPlug \in {"adds", "PLUG_IN"} /\ hotPlug' \in {"binds", "waits"}
        /\ (Bound' = Bound) /\ UNCHANGED <<cable, uevents, unheard, phantom>>
      BY <1>4 DEF deviceAdded, AfterAdding, Bound
  <2>2. \/ Refuses /\ UNCHANGED entry
        \/ initFailed'
        \/ entry' = (IF entry = "absent" THEN "PRESENT" ELSE entry)
      BY <1>4 DEF deviceAdded, addHdmirxCamera
  <2>3. entry' = entry \/ entry' \in {"PRESENT", "absent"}
      BY <1>4 DEF deviceAdded, addHdmirxCamera, removeHdmirxCamera
  <2>4. entry # "NOT_PRESENT" => entry \in {"absent", "PRESENT"}
      BY <1>1 DEF Entries
  <2> QED BY <2>1, <2>2, <2>3, <2>4 DEF KnownInv
<1>5. CASE deviceRemoved
  <2>1. /\ hotPlug = "PLUG_OUT" /\ hotPlug' = "waits" /\ entry' = "absent"
        /\ UNCHANGED <<cable, uevents, unheard, initFailed, phantom>>
      BY <1>5 DEF deviceRemoved, removeHdmirxCamera
  <2> QED BY <1>1, <2>1 DEF KnownInv, Bound
<1>6. CASE handleHdmiUEvents
  <2>1. /\ hotPlug = "waits" /\ uevents # <<>> /\ uevents' = Tail(uevents)
        /\ UNCHANGED <<cable, entry, unheard, initFailed, phantom>>
      BY <1>6 DEF handleHdmiUEvents
  <2>2. IF Head(uevents) \in Plugs THEN hotPlug' = Head(uevents)
                                   ELSE hotPlug' \in {"HDR_INFO_CHANGE", "updates"}
      BY <1>6 DEF handleHdmiUEvents, LockOf, Plugs
  <2>3. Bound' /\ hotPlug' # "looks"
      BY <2>2 DEF Bound, Plugs
  <2>4. /\ \A event : LastOf(Plugs, uevents', event) => LastOf(Plugs, uevents, event)
        /\ NoneOf(Plugs, uevents') => IF Head(uevents) \in Plugs
                                      THEN LastOf(Plugs, uevents, Head(uevents))
                                      ELSE NoneOf(Plugs, uevents)
      BY <1>1, <2>1, EventTaken
  <2>5. CASE Head(uevents) \in Plugs
    <3>1. NoneOf(Plugs, uevents') => LastOf(Plugs, uevents, hotPlug')
        BY <2>2, <2>4, <2>5
    <3>2. hotPlug' \in {"PLUG_IN", "PLUG_OUT"}
        BY <2>2, <2>5 DEF Plugs
    <3> QED BY <2>1, <2>3, <2>4, <3>1, <3>2 DEF KnownInv
  <2>6. CASE Head(uevents) \notin Plugs
    <3>1. NoneOf(Plugs, uevents') => NoneOf(Plugs, uevents)
        BY <2>4, <2>6
    <3>2. hotPlug' \in {"HDR_INFO_CHANGE", "updates"}
        BY <2>2, <2>6
    <3> QED BY <2>1, <2>3, <2>4, <3>1, <3>2 DEF KnownInv
  <2> QED BY <2>5, <2>6
<1>7. CASE StatusUpdated \/ getHDRInfo
  <2>1. /\ hotPlug \in {"updates", "HDR_INFO_CHANGE"} /\ hotPlug' = "waits"
        /\ UNCHANGED <<cable, uevents, entry, unheard, initFailed, phantom>>
      BY <1>7 DEF StatusUpdated, getHDRInfo
  <2> QED BY <2>1 DEF KnownInv, Bound
<1>8. CASE UNCHANGED providerVars
    BY <1>8, KnownStutter DEF providerVars, knownVars
<1> QED BY <1>2, <1>3, <1>4, <1>5, <1>6, <1>7, <1>8 DEF HotPlugThread, HotPlugSteps

(* Calls change the map only by a look-up that puts the camera in.         *)
LEMMA KnownCall ==
    ASSUME ProviderTypes, KnownInv, Bound \/ Unbegun, NEW c \in Callers,
           CallStarts(c) \/ CallProceeds(c)
    PROVE  KnownInv'
<1>1. CASE LookUpEnds(c)
  <2>1. Bound
      BY <1>1 DEF LookUpEnds, Unbegun
  <2>2. /\ (phantom' \/ entry' = entry) /\ (phantom => phantom')
        /\ UNCHANGED <<cable, uevents, hotPlug, unheard, initFailed>>
      BY <1>1 DEF LookUpEnds, EntryRead
  <2> QED BY <2>1, <2>2 DEF KnownInv, Bound
<1>2. CASE UNCHANGED knownVars
    BY <1>2, KnownStutter
<1> QED BY <1>1, <1>2 DEF CallStarts, CallProceeds, setCallback, getCameraDeviceInterface,
         QueryStarts, setCallbackChecks, setCallbackReads, setCallbackTells, QueryEnds, Crashes, providerVars, knownVars

(* The constructor runs before every call.                                 *)
LEMMA UnbegunStays ==
    ASSUME ProviderTypes, SignalTypeOK, DeviceInv, Bound \/ Unbegun, [Next]_serviceVars
    PROVE  (Bound \/ Unbegun)'
<1>1. CASE Bound
  <2>1. \A c \in Callers : CallStarts(c) \/ CallProceeds(c) => hotPlug' = hotPlug
      BY DEF CallStarts, CallProceeds, setCallback, getCameraDeviceInterface, QueryStarts, LookUpEnds,
             setCallbackChecks, setCallbackReads, setCallbackTells, QueryEnds, Crashes, providerVars
  <2>2. Outside => hotPlug' = hotPlug
      BY DEF Outside, CableChanges, SignalChanges, HdrChanges
  <2>3. HotPlugThread => Bound'
    <3>1. deviceAdded => Bound'
        BY <1>1 DEF deviceAdded, AfterAdding, Bound
    <3>2. handleHdmiUEvents => Bound'
        BY DEF handleHdmiUEvents, Bound
    <3>3. ConstructorLooks => FALSE
        BY <1>1 DEF ConstructorLooks, Bound
    <3> QED BY <1>1, <3>1, <3>2, <3>3 DEF HotPlugThread, HotPlugSteps, ConstructorBinds, deviceRemoved,
               StatusUpdated, getHDRInfo, Bound, providerVars
  <2> QED BY <1>1, <2>1, <2>2, <2>3 DEF Next, serviceVars, providerVars, Bound
<1>2. CASE Unbegun /\ ~Bound
  <2> DEFINE begunVars == <<call, opening, device, session, lockStatus, update>>
  <2>1. UNCHANGED begunVars => Unbegun'
      BY <1>2 DEF Unbegun
  <2>2. Outside => UNCHANGED begunVars
      BY DEF Outside, CableChanges, SignalChanges, HdrChanges, signalVars, deviceVars
  <2>3. \A t \in Threads : ~Update(t)
      BY <1>2 DEF Unbegun, NotUpdating, Update, UpdateTakesLock, UpdatePolls, UpdateFills
  <2>4. HotPlugThread => UNCHANGED begunVars
    <3>1. ConstructorLooks \/ ConstructorBinds \/ deviceAdded => UNCHANGED <<call, lockStatus, update>>
        BY DEF ConstructorLooks, ConstructorBinds, deviceAdded, signalVars
    <3>2. ~handleHdmiUEvents /\ ~deviceRemoved /\ ~StatusUpdated /\ ~getHDRInfo
        BY <1>2 DEF handleHdmiUEvents, deviceRemoved, StatusUpdated, getHDRInfo, Bound
    <3> QED BY <2>3, <3>1, <3>2 DEF HotPlugThread, HotPlugSteps, deviceVars
  <2>5. \A c \in Callers : ~CallStarts(c)
      BY <1>2 DEF Unbegun, CallStarts, setCallback, getCameraDeviceInterface, QueryStarts, OpenSessions,
             open
  <2>6. \A c \in Callers : ~CallProceeds(c)
    <3> TAKE c \in Callers
    <3>1. call[c].at = "idle" /\ opening[c].at = "idle"
        BY <1>2 DEF Unbegun
    <3>2. ~OpenStep(c)
        BY <3>1 DEF OpenStep, openRefused, createSession, createSessionFails, deleteSession,
                      openRetries, Proceeds
    <3> QED BY <2>3, <3>1, <3>2 DEF CallProceeds, setCallbackChecks, setCallbackReads, setCallbackTells, LookUpEnds,
               QueryEnds, Crashes
  <2>7. \A s \in Sessions : ~dropSession(s) /\ ~closeSession(s)
      BY <1>2 DEF Unbegun, dropSession, closeSession
  <2>8. UNCHANGED serviceVars => UNCHANGED begunVars
      BY DEF serviceVars, signalVars, providerVars, deviceVars
  <2> QED BY <2>1, <2>2, <2>4, <2>5, <2>6, <2>7, <2>8 DEF Next
<1> QED BY <1>1, <1>2

BaseInv == SignalTypeOK /\ ProviderTypes /\ DeviceInv /\ (Bound \/ Unbegun)

LEMMA BaseInvInit == ASSUME Init PROVE BaseInv
<1>1. Unbegun
    BY DeviceInvInit DEF Init, ProviderInit, DeviceInit, SignalInit, Unbegun, Idle, NotOpening,
       NoObject
<1> QED BY <1>1, TypesInit, DeviceInvInit DEF BaseInv

LEMMA BaseInvNext == ASSUME BaseInv, [Next]_serviceVars PROVE BaseInv'
BY SignalTypesNext, ProviderTypesNext, DeviceInvNext, UnbegunStays DEF BaseInv

LEMMA KnownNext ==
    ASSUME BaseInv, KnownInv, [Next]_serviceVars PROVE KnownInv'
<1>1. CASE UNCHANGED providerVars
    BY <1>1, KnownStutter DEF providerVars, knownVars
<1> QED BY <1>1, KnownOutside, KnownHotPlug, KnownCall DEF BaseInv, Next, serviceVars

(* However the cable moves, and however far the hot-plug thread is behind, *)
(* the map has the camera exactly while the cable is in when all events    *)
(* are handled; what the constructor or a look-up may spoil is named.      *)
THEOREM KnownFollowsCableHolds == Spec => []KnownFollowsCable
<1> DEFINE Inv == BaseInv /\ KnownInv
<1>1. Init => Inv
    BY BaseInvInit, KnownInit
<1>2. Inv /\ [Next]_serviceVars => Inv'
    BY BaseInvNext, KnownNext
<1>3. Inv => KnownFollowsCable
    BY DEF KnownInv, KnownFollowsCable, Quiet, NoneOf
<1> QED BY <1>1, <1>2, <1>3, PTL DEF Spec

-----------------------------------------------------------------------------
(* The lock status and the signal.                                         *)

Timing == {"TIMING_LOCK", "TIMING_UNLOCK"}
Matches(lock) == lock # "undefined" => (lock = "locked") = (signal # None)

(* The status in hand, if the looks it is of have reached the device.      *)
Matched ==
    /\ lockStatus = "locked" => signal # None
    /\ lockStatus = "unlocked" /\ ~misread => signal = None

(* m_hdmiLock covers the poll and the filling; only the hot-plug thread    *)
(* knows better than "undefined", while it handles a timing event.         *)
UpdateInv ==
    /\ \A t \in Threads : update[t].at \in {"poll", "fill"} => hdmiLock = t
    /\ \A t \in Threads : update[t].at = "poll" => lockStatus = "undefined"
    /\ \A c \in Callers : update[c].lock = "undefined"
    /\ hotPlug # "updates" => update[HotPlug].at = "no"

(* The timing events ahead end with the present signal; with none ahead,   *)
(* the status in hand is the present one, or it has been handled.          *)
SettledInv ==
    /\ LastOf(Timing, uevents, "TIMING_LOCK") => signal # None
    /\ LastOf(Timing, uevents, "TIMING_UNLOCK") => signal = None
    /\ NoneOf(Timing, uevents) =>
          IF update[HotPlug].at = "wait" THEN Matches(update[HotPlug].lock) ELSE Matched

settledVars == <<signal, lockStatus, hdmiLock, update, misread, uevents, hotPlug>>

SignalInv == UpdateInv /\ SettledInv

LEMMA SignalInvInit == ASSUME Init PROVE SignalInv
BY DEF Init, ProviderInit, SignalInit, SignalInv, UpdateInv, SettledInv, NotUpdating, NoneOf, LastOf,
       Matches, Matched

LEMMA SignalInvStutter == ASSUME SignalInv, UNCHANGED settledVars PROVE SignalInv'
BY DEF SignalInv, UpdateInv, SettledInv, settledVars, NoneOf, LastOf, Matches, Matched

(* A thread that updates nothing goes on with something else.              *)
LEMMA SignalInvOther ==
    ASSUME SignalInv, UNCHANGED <<signal, lockStatus, hdmiLock, update, misread, uevents>>,
           hotPlug' = "updates" \/ update[HotPlug].at = "no"
    PROVE  SignalInv'
BY DEF SignalInv, UpdateInv, SettledInv, NoneOf, LastOf, Matches, Matched

LEMMA SignalInvUpdate ==
    ASSUME SignalTypeOK, SignalInv, NEW t \in Threads, Update(t), UNCHANGED <<uevents, hotPlug>>
    PROVE  SignalInv'
<1> DEFINE Places == [at : {"no", "wait", "poll", "fill"}, lock : LockStatus]
<1>1. update \in [Threads -> Places] /\ lockStatus \in LockStatus /\ update[t] \in Places
    BY DEF SignalTypeOK
<1>2. \A c \in Threads : c = HotPlug \/ c \in Callers
    OBVIOUS
<1>3. signal' = signal
    BY DEF Update, UpdateTakesLock, UpdatePolls, UpdateFills
<1>5. \A at \in {"poll", "fill"} : [update EXCEPT ![t].at = at]
                                    = [update EXCEPT ![t] = [at |-> at, lock |-> update[t].lock]]
  <2> TAKE at \in {"poll", "fill"}
  <2>1. [update[t] EXCEPT !.at = at] = [at |-> at, lock |-> update[t].lock]
      BY <1>1
  <2> QED BY <2>1
<1>6. CASE UpdateTakesLock(t)
  <2>1. update[t].at = "wait" /\ hdmiLock = None /\ hdmiLock' = t
      BY <1>6 DEF UpdateTakesLock
  <2>2. \A u \in Threads : update[u].at \notin {"poll", "fill"}
      BY <2>1 DEF SignalInv, UpdateInv
  <2>3. CASE lockStatus = "undefined"
    <3>1. update' = [update EXCEPT ![t] = [at |-> "poll", lock |-> update[t].lock]] /\ lockStatus' = lockStatus
        BY <1>5, <1>6, <2>3 DEF UpdateTakesLock
    <3>2. \A u \in Threads : update'[u] = IF u = t THEN [at |-> "poll", lock |-> update[t].lock] ELSE update[u]
        BY <1>1, <3>1
    <3>3. UpdateInv'
        BY <2>1, <2>2, <2>3, <3>1, <3>2 DEF SignalInv, UpdateInv
    <3>4. SettledInv'
        BY <1>3, <2>3, <3>1, <3>2 DEF SignalInv, SettledInv, NoneOf, LastOf, Matches, Matched
    <3> QED BY <3>3, <3>4 DEF SignalInv
  <2>4. CASE lockStatus # "undefined"
    <3>1. /\ update' = [update EXCEPT ![t] = [at |-> "fill", lock |-> update[t].lock]]
          /\ lockStatus' = update[t].lock
        BY <1>5, <1>6, <2>4 DEF UpdateTakesLock
    <3>2. \A u \in Threads : update'[u] = IF u = t THEN [at |-> "fill", lock |-> update[t].lock] ELSE update[u]
        BY <1>1, <3>1
    <3>3. UpdateInv'
        BY <2>1, <2>2, <3>1, <3>2 DEF SignalInv, UpdateInv
    <3>4. SettledInv'
      <4>1. CASE t = HotPlug
          BY <1>3, <2>1, <3>1, <3>2, <4>1 DEF SignalInv, SettledInv, NoneOf, LastOf, Matches, Matched
      <4>2. CASE t # HotPlug
        <5>1. lockStatus' = "undefined"
            BY <1>2, <3>1, <4>2 DEF SignalInv, UpdateInv
        <5>2. update'[HotPlug] = update[HotPlug]
            BY <3>2, <4>2
        <5> QED BY <1>3, <5>1, <5>2 DEF SignalInv, SettledInv, NoneOf, LastOf, Matches, Matched
      <4> QED BY <4>1, <4>2
    <3> QED BY <3>3, <3>4 DEF SignalInv
  <2> QED BY <2>3, <2>4
<1>7. CASE UpdatePolls(t)
  <2>1. /\ update[t].at = "poll" /\ hdmiLock' = hdmiLock
        /\ update' = [update EXCEPT ![t] = [at |-> "fill", lock |-> update[t].lock]]
        /\ lockStatus' = "locked" => signal # None
        /\ lockStatus' = "unlocked" /\ ~misread' => signal = None
      BY <1>5, <1>7 DEF UpdatePolls, hdmi_check_video_locked
  <2>2. \A u \in Threads : update'[u] = IF u = t THEN [at |-> "fill", lock |-> update[t].lock] ELSE update[u]
      BY <1>1, <2>1
  <2>3. \A u \in Threads : u # t => update[u].at \notin {"poll", "fill"}
      BY <2>1 DEF SignalInv, UpdateInv
  <2>4. UpdateInv'
      BY <2>1, <2>2, <2>3 DEF SignalInv, UpdateInv
  <2>5. Matched'
      BY <1>3, <2>1 DEF Matched
  <2>6. update'[HotPlug].at = "wait" => update'[HotPlug] = update[HotPlug]
      BY <2>2
  <2>7. SettledInv'
      BY <1>3, <2>5, <2>6 DEF SignalInv, SettledInv, NoneOf, LastOf, Matches, Matched
  <2> QED BY <2>4, <2>7 DEF SignalInv
<1>8. CASE UpdateFills(t)
  <2>1. /\ update[t].at = "fill" /\ hdmiLock' = None /\ UNCHANGED <<lockStatus, misread>>
        /\ update' = [update EXCEPT ![t] = [at |-> "no", lock |-> "undefined"]]
      BY <1>8 DEF UpdateFills, NotUpdating
  <2>2. \A u \in Threads : update'[u] = IF u = t THEN [at |-> "no", lock |-> "undefined"] ELSE update[u]
      BY <1>1, <2>1
  <2>3. \A u \in Threads : u # t => update[u].at \notin {"poll", "fill"}
      BY <2>1 DEF SignalInv, UpdateInv
  <2>4. UpdateInv'
      BY <2>1, <2>2, <2>3 DEF SignalInv, UpdateInv
  <2>5. SettledInv'
      BY <1>3, <2>1, <2>2 DEF SignalInv, SettledInv, NoneOf, LastOf, Matches, Matched
  <2> QED BY <2>4, <2>5 DEF SignalInv
<1> QED BY <1>6, <1>7, <1>8 DEF Update

LEMMA SignalInvOutside ==
    ASSUME BaseInv, KnownInv, SignalInv, Outside PROVE SignalInv'
<1>1. uevents \in Seq(Uevents)
    BY DEF BaseInv, ProviderTypes
<1>2. UNCHANGED <<lockStatus, hdmiLock, update, misread, hotPlug>>
    BY DEF Outside, CableChanges, SignalChanges, HdrChanges, signalVars
<1>3. UpdateInv'
    BY <1>2 DEF SignalInv, UpdateInv
<1>4. CASE SignalChanges
  <2> DEFINE new == IF signal' = None THEN "TIMING_UNLOCK" ELSE "TIMING_LOCK"
  <2>1. new \in Uevents /\ new \in Timing
      BY DEF Uevents, Timing
  <2>2. uevents' = IF Bound THEN Append(uevents, new) ELSE uevents
      BY <1>4 DEF SignalChanges, Report
  <2>3. (new = "TIMING_LOCK" => signal' # None) /\ (new = "TIMING_UNLOCK" => signal' = None)
      OBVIOUS
  <2> HIDE DEF new
  <2>4. CASE Bound
    <3>1. ~NoneOf(Timing, uevents') /\ \A event : LastOf(Timing, uevents', event) => event = new
        BY <1>1, <2>1, <2>2, <2>4, EventAppended
    <3>2. SettledInv'
        BY <2>3, <3>1 DEF SettledInv
    <3> QED BY <1>3, <3>2 DEF SignalInv
  <2>5. CASE ~Bound
    <3>1. lockStatus = "undefined" /\ update[HotPlug].at = "no" /\ uevents' = uevents
        BY <2>2, <2>5 DEF BaseInv, Unbegun, NotUpdating
    <3>2. uevents = <<>> => \A event : ~LastOf(Timing, uevents, event)
        BY DEF LastOf
    <3>3. uevents = <<>>
        BY <2>5 DEF KnownInv
    <3> QED BY <1>2, <1>3, <3>1, <3>2, <3>3 DEF SignalInv, SettledInv, Matches, Matched
  <2> QED BY <2>4, <2>5
<1>5. CASE CableChanges \/ HdrChanges
  <2>1. PICK new \in Uevents \ Timing : uevents' = IF Bound THEN Append(uevents, new) ELSE uevents
    <3>1. {"PLUG_IN", "PLUG_OUT", "HDR_INFO_CHANGE"} \subseteq Uevents \ Timing
        BY DEF Uevents, Timing
    <3>2. \E new \in {"PLUG_IN", "PLUG_OUT", "HDR_INFO_CHANGE"} : Report(new)
        BY <1>5 DEF CableChanges, HdrChanges
    <3> QED BY <3>1, <3>2 DEF Report
  <2>2. signal' = signal
      BY <1>5 DEF CableChanges, HdrChanges, signalVars
  <2>3. CASE Bound
    <3>1. /\ NoneOf(Timing, uevents') => NoneOf(Timing, uevents)
          /\ \A event : LastOf(Timing, uevents', event) => LastOf(Timing, uevents, event)
        BY <1>1, <2>1, <2>3, EventAppended
    <3>2. SettledInv'
        BY <1>2, <2>2, <3>1 DEF SignalInv, SettledInv, Matches, Matched
    <3> QED BY <1>3, <3>2 DEF SignalInv
  <2>4. CASE ~Bound
      BY <1>2, <2>1, <2>2, <2>4, SignalInvStutter DEF settledVars
  <2> QED BY <2>3, <2>4
<1> QED BY <1>4, <1>5 DEF Outside

LEMMA SignalInvHotPlug ==
    ASSUME BaseInv, SignalInv, HotPlugThread PROVE SignalInv'
<1>1. uevents \in Seq(Uevents) /\ SignalTypeOK
    BY DEF BaseInv, ProviderTypes
<1>2. CASE Update(HotPlug) /\ UNCHANGED providerVars
    BY <1>1, <1>2, SignalInvUpdate DEF providerVars
<1>3. CASE handleHdmiUEvents
  <2>1. /\ hotPlug = "waits" /\ uevents # <<>> /\ uevents' = Tail(uevents)
        /\ UNCHANGED <<signal, lockStatus, hdmiLock, misread>>
      BY <1>3 DEF handleHdmiUEvents
  <2>2. update[HotPlug].at = "no"
      BY <2>1 DEF SignalInv, UpdateInv
  <2>3. /\ \A event : LastOf(Timing, uevents', event) => LastOf(Timing, uevents, event)
        /\ NoneOf(Timing, uevents') => IF Head(uevents) \in Timing
                                       THEN LastOf(Timing, uevents, Head(uevents))
                                       ELSE NoneOf(Timing, uevents)
      BY <1>1, <2>1, EventTaken
  <2>4. CASE Head(uevents) \in Timing
    <3> DEFINE lock == IF Head(uevents) = "TIMING_LOCK" THEN "locked" ELSE "unlocked"
    <3>1. hotPlug' = "updates"
          /\ update' = [update EXCEPT ![HotPlug] = [at |-> "wait", lock |-> lock]]
        BY <1>3, <2>4 DEF handleHdmiUEvents, hdmi_update_lock_status, LockOf, Timing
    <3>2. \A t \in Threads : update'[t] = IF t = HotPlug THEN [at |-> "wait", lock |-> lock] ELSE update[t]
        BY <1>1, <3>1 DEF SignalTypeOK
    <3>3. UpdateInv'
        BY <2>1, <3>1, <3>2 DEF SignalInv, UpdateInv
    <3>4. LastOf(Timing, uevents, Head(uevents)) => (lock = "locked") = (signal # None)
        BY <2>4 DEF SignalInv, SettledInv, Timing
    <3>5. update'[HotPlug].at = "wait" /\ update'[HotPlug].lock = lock
        BY <3>2
    <3> HIDE DEF lock
    <3>6. SettledInv'
        BY <2>1, <2>3, <2>4, <3>4, <3>5 DEF SignalInv, SettledInv, Matches, Matched
    <3> QED BY <3>3, <3>6 DEF SignalInv
  <2>5. CASE Head(uevents) \notin Timing
    <3>1. update' = update
        BY <1>3, <2>5 DEF handleHdmiUEvents, LockOf, Timing
    <3>2. UpdateInv'
        BY <2>1, <2>2, <3>1 DEF SignalInv, UpdateInv
    <3>3. SettledInv'
        BY <2>1, <2>2, <2>3, <2>5, <3>1 DEF SignalInv, SettledInv, Matches, Matched
    <3> QED BY <3>2, <3>3 DEF SignalInv
  <2> QED BY <2>4, <2>5
<1>4. CASE ConstructorLooks \/ ConstructorBinds \/ deviceAdded \/ deviceRemoved
           \/ StatusUpdated \/ getHDRInfo
  <2>1. UNCHANGED <<signal, lockStatus, hdmiLock, update, misread, uevents>>
      BY <1>4 DEF ConstructorLooks, ConstructorBinds, deviceAdded, deviceRemoved, StatusUpdated,
         getHDRInfo, signalVars
  <2>2. update[HotPlug].at = "no"
      BY <1>4 DEF ConstructorLooks, ConstructorBinds, deviceAdded, deviceRemoved, StatusUpdated,
         getHDRInfo, SignalInv, UpdateInv
  <2> QED BY <2>1, <2>2, SignalInvOther
<1> QED BY <1>2, <1>3, <1>4 DEF HotPlugThread, HotPlugSteps

LEMMA SignalInvCall ==
    ASSUME BaseInv, SignalInv, NEW c \in Callers, CallStarts(c) \/ CallProceeds(c)
    PROVE  SignalInv'
<1>1. SignalTypeOK /\ c \in Threads /\ c # HotPlug
    BY DEF BaseInv
<1>2. CASE Update(c) /\ UNCHANGED providerVars
    BY <1>1, <1>2, SignalInvUpdate DEF providerVars
<1>3. CASE QueryStarts(c)
  <2>1. /\ update' = [update EXCEPT ![c] = [at |-> "wait", lock |-> "undefined"]]
        /\ UNCHANGED <<signal, lockStatus, hdmiLock, misread, uevents, hotPlug>>
      BY <1>3 DEF QueryStarts, hdmi_update_lock_status
  <2>2. \A t \in Threads : update'[t] = IF t = c THEN [at |-> "wait", lock |-> "undefined"] ELSE update[t]
      BY <1>1, <2>1 DEF SignalTypeOK
  <2>3. UpdateInv'
      BY <1>1, <2>1, <2>2 DEF SignalInv, UpdateInv
  <2>4. SettledInv'
      BY <1>1, <2>1, <2>2 DEF SignalInv, SettledInv, NoneOf, LastOf, Matches, Matched
  <2> QED BY <2>3, <2>4 DEF SignalInv
<1>4. CASE UNCHANGED settledVars
    BY <1>4, SignalInvStutter
<1> QED BY <1>2, <1>3, <1>4 DEF CallStarts, CallProceeds, setCallback, getCameraDeviceInterface,
         setCallbackChecks, setCallbackReads, setCallbackTells, LookUpEnds, QueryEnds, Crashes, providerVars,
         signalVars, settledVars

LEMMA SignalInvNext ==
    ASSUME BaseInv, KnownInv, SignalInv, [Next]_serviceVars PROVE SignalInv'
<1>1. CASE UNCHANGED <<signalVars, providerVars>>
    BY <1>1, SignalInvStutter DEF signalVars, providerVars, settledVars
<1> QED BY <1>1, SignalInvOutside, SignalInvHotPlug, SignalInvCall DEF Next, serviceVars

(* The hot-plug thread's updates for events and the first query's race for *)
(* m_hdmiLock; when all are done and every event is handled, the status is *)
(* the device's or undefined.                                              *)
THEOREM SignalSettledHolds == Spec => []SignalSettled
<1> DEFINE Inv == BaseInv /\ KnownInv /\ SignalInv
<1>1. Init => Inv
    BY BaseInvInit, KnownInit, SignalInvInit
<1>2. Inv /\ [Next]_serviceVars => Inv'
    BY BaseInvNext, KnownNext, SignalInvNext
<1>3. Inv => SignalSettled
    BY DEF SignalInv, SettledInv, SignalSettled, Quiet, NoneOf, Matches, Matched
<1> QED BY <1>1, <1>2, <1>3, PTL DEF Spec
===============================================================================
