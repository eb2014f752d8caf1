------------------------------- MODULE HdcpKeys -------------------------------
(***************************************************************************)
(* The sessions with the trusted application that makes the HDCP keys: of  *)
(* the camera service (optee_ctl.cpp) and of the HDMI-TX service           *)
(* (MtkHdmiService.cpp, setDrmKey), the same code but for the commands.    *)
(* Each has a context and a session in globals of its process; what the    *)
(* trusted side does is outside and answers as it likes.                   *)
(***************************************************************************)
EXTENDS Naturals, Sequences

CONSTANT MaxKeyCalls \* bound on the calls of one service

ASSUME KeyAssumption == MaxKeyCalls \in Nat

Services == {"rx", "tx"}

(* get_hdmi, and for RX query_hdmi_key after it.                           *)
Commands == [rx |-> <<"GEN_KEY", "QUERY_KEY">>, tx |-> <<"GEN_1X_KEY", "GEN_2X_KEY">>]

VARIABLES
    isConnected,
    contexts,        \* contexts that are initialised and not finalised
    keyCall          \* where the call of a service is; its result, the commands done
VARIABLES            \* history
    keyCalls,        \* calls so far
    unopened         \* contexts whose session could not be opened

keyVars == <<isConnected, contexts, keyCall, keyCalls, unopened>>

NoKeyCall == [at |-> "idle", done |-> 0, result |-> "ok"]

KeyInit ==
    /\ isConnected = [s \in Services |-> FALSE]
    /\ contexts = [s \in Services |-> 0] /\ unopened = [s \in Services |-> 0]
    /\ keyCall = [s \in Services |-> NoKeyCall] /\ keyCalls = [s \in Services |-> 0]

-----------------------------------------------------------------------------
KeyCallStarts(s) ==
    /\ keyCall[s].at = "idle" /\ keyCalls[s] < MaxKeyCalls
    /\ keyCall' = [keyCall EXCEPT ![s] = [NoKeyCall EXCEPT !.at = "connect"]]
    /\ keyCalls' = [keyCalls EXCEPT ![s] = @ + 1]
    /\ UNCHANGED <<isConnected, contexts, unopened>>

KeyCallEnds(s, result) == keyCall' = [keyCall EXCEPT ![s].at = "close", ![s].result = result]

(* optee_hdmi_hdcp_connect: the context, then the session.  A session that *)
(* cannot be opened leaves the context.                                    *)
optee_hdmi_hdcp_connect(s) ==
    /\ keyCall[s].at = "connect"
    /\ \/ /\ isConnected[s]
          /\ keyCall' = [keyCall EXCEPT ![s].at = "invoke"]
          /\ UNCHANGED <<isConnected, contexts, unopened>>
       \/ /\ ~isConnected[s]
          /\ isConnected' = [isConnected EXCEPT ![s] = TRUE]
          /\ contexts' = [contexts EXCEPT ![s] = @ + 1]
          /\ keyCall' = [keyCall EXCEPT ![s].at = "invoke"] /\ UNCHANGED unopened
       \/ /\ ~isConnected[s] /\ KeyCallEnds(s, "no connection")
          /\ UNCHANGED <<isConnected, contexts, unopened>>
       \/ /\ ~isConnected[s] /\ KeyCallEnds(s, "no connection")
          /\ contexts' = [contexts EXCEPT ![s] = @ + 1]
          /\ unopened' = [unopened EXCEPT ![s] = @ + 1] /\ UNCHANGED isConnected
    /\ UNCHANGED keyCalls

(* Fault: the flag is not looked at.                                       *)
optee_hdmi_hdcp_close_Anyway(s) ==
    /\ isConnected' = [isConnected EXCEPT ![s] = FALSE]
    /\ contexts' = [contexts EXCEPT ![s] = IF @ = 0 THEN 0 ELSE @ - 1]

optee_hdmi_hdcp_close(s) ==
    IF isConnected[s] THEN /\ isConnected' = [isConnected EXCEPT ![s] = FALSE]
                           /\ contexts' = [contexts EXCEPT ![s] = @ - 1]
                      ELSE UNCHANGED <<isConnected, contexts>>

(* optee_hdmi_hdcp_call: a dead target closes the session at once.         *)
optee_hdmi_hdcp_call(s) ==
    /\ keyCall[s].at = "invoke"
    /\ \/ /\ keyCall' = [keyCall EXCEPT ![s].done = @ + 1,
                                        ![s].at = IF keyCall[s].done + 1 = Len(Commands[s])
                                                  THEN "close" ELSE "connect"]
          /\ UNCHANGED <<isConnected, contexts>>
       \/ KeyCallEnds(s, "refused") /\ UNCHANGED <<isConnected, contexts>>
       \/ KeyCallEnds(s, "refused") /\ optee_hdmi_hdcp_close(s)
    /\ UNCHANGED <<keyCalls, unopened>>

(* query_hdmi_hdcp_key and setDrmKey close whatever happened.  The first   *)
(* answers what came of it; the second throws that away and always answers *)
(* false.                                                                  *)
Answer(s) == IF s = "tx" THEN "false" ELSE keyCall[s].result

KeyCallCloses(s) ==
    /\ keyCall[s].at = "close"
    /\ optee_hdmi_hdcp_close(s)
    /\ keyCall' = [keyCall EXCEPT ![s].at = "idle", ![s].result = Answer(s)]
    /\ UNCHANGED <<keyCalls, unopened>>

KeyNext ==
    \E s \in Services :
       KeyCallStarts(s) \/ optee_hdmi_hdcp_connect(s) \/ optee_hdmi_hdcp_call(s) \/ KeyCallCloses(s)

-----------------------------------------------------------------------------
KeyTypeOK ==
    /\ isConnected \in [Services -> BOOLEAN]
    /\ contexts \in [Services -> 0 .. MaxKeyCalls] /\ unopened \in [Services -> 0 .. MaxKeyCalls]
    /\ keyCall \in [Services -> [at : {"idle", "connect", "invoke", "close"}, done : 0 .. 2,
                                 result : {"ok", "no connection", "refused", "false"}]]
    /\ keyCalls \in [Services -> 0 .. MaxKeyCalls]

(* optee_ctl.cpp 26 to 147, MtkHdmiService.cpp 475 to 562: a context is    *)
(* finalised once for each time it was initialised, by whichever of the    *)
(* closes comes first, except where its session could not be opened; and   *)
(* the camera service answers 0 only if its keys were made, on one         *)
(* connection (the answer of setDrmKey says nothing).                      *)
KeySessionsClosed ==
    \A s \in Services :
       /\ contexts[s] = unopened[s] + (IF isConnected[s] THEN 1 ELSE 0)
       /\ keyCall[s].at = "idle" /\ keyCalls[s] > 0 =>
             /\ ~isConnected[s]
             /\ keyCall[s].result = "ok" => keyCall[s].done = Len(Commands[s])
===============================================================================
