------------------------ MODULE SessionProtocolProofs ------------------------
(***************************************************************************)
(* Proofs of the two request/response protocol invariants of Session, for  *)
(* every value of the constants that satisfies SessionAssumption: the      *)
(* deferred launch/attach response (AsyncResponse, sent from               *)
(* DEBUG_configurationDone) and the callbacks of reverse requests          *)
(* (send_request and handle_message).                                      *)
(***************************************************************************)
EXTENDS SessionProofs

USE SessionAssumption

(***************************************************************************)
(* The launch response.  A launch or attach that fails at once is answered *)
(* at once and leaves launch_args unset, so configurationDone (which needs *)
(* them) never runs and never answers again; one that succeeds is answered *)
(* by configurationDone, which runs once.                                  *)
(***************************************************************************)
LaunchInv ==
    /\ launchResp \in {0, 1}
    /\ configured => (launchResp = 1 /\ launchArgs # "none")
    /\ (launchArgs # "none" /\ ~configured) => launchResp = 0

(***************************************************************************)
(* Reverse requests.  A pending request's callback has not run, and no     *)
(* callback has run for a sequence number send_request has not used yet:   *)
(* handle_message removes the entry when it runs the callback, and         *)
(* request_seq only grows.                                                 *)
(***************************************************************************)
CallbackInv ==
    \A s \in ReqSeqs :
        /\ called[s] <= 1
        /\ s \in pending => called[s] = 0
        /\ s >= reqSeq => called[s] = 0

PInv == Inv /\ LaunchInv /\ CallbackInv

\* The variables the two invariants are about.
protoVars == <<launchResp, configured, launchArgs, called, pending, reqSeq>>

-----------------------------------------------------------------------------
\* A step that touches none of the protocol's variables keeps both
\* invariants.
LEMMA ProtoUnchanged ==
    ASSUME LaunchInv, CallbackInv, UNCHANGED protoVars
    PROVE  LaunchInv' /\ CallbackInv'
BY DEF LaunchInv, CallbackInv, protoVars

LEMMA InitPInv == Init => PInv
<1> SUFFICES ASSUME Init PROVE PInv
  OBVIOUS
<1>1. Inv
  BY InitIInv DEF IInv
<1>2. LaunchInv
  BY DEF Init, LaunchInv
<1>3. CallbackInv
  BY DEF Init, CallbackInv, ReqSeqs
<1>4. QED
  BY <1>1, <1>2, <1>3 DEF PInv

LEMMA NextPInv == PInv /\ [Next]_vars => PInv'
<1> SUFFICES ASSUME Inv, LaunchInv, CallbackInv, [Next]_vars
             PROVE  LaunchInv' /\ CallbackInv'
  BY NextInv DEF PInv
<1>1. ASSUME NEW kind \in {"launch", "attach"}, NEW soe \in BOOLEAN,
             LaunchOrAttach(kind, soe)
      PROVE  LaunchInv' /\ CallbackInv'
  <2>2. ~configured /\ launchResp = 0
    BY <1>1 DEF LaunchOrAttach, LaunchInv
  <2>3. LaunchInv'
    BY <1>1, <2>2 DEF LaunchOrAttach, LaunchInv
  <2>4. CallbackInv'
    BY <1>1 DEF LaunchOrAttach, CallbackInv
  <2>5. QED
    BY <2>3, <2>4
<1>2. ASSUME NEW terminal \in BOOLEAN, DEBUG_configurationDone(terminal)
      PROVE  LaunchInv' /\ CallbackInv'
  <2>0. launchArgs # "none" /\ ~configured
    BY <1>2 DEF DEBUG_configurationDone
  <2>1. launchResp = 0 /\ reqSeq = 1 /\ pending = {}
    <3>1. launchResp = 0
      BY <2>0 DEF LaunchInv
    <3>2. reqSeq = 1
      BY <2>0 DEF Inv, NotStarted
    <3>3. pending \subseteq 1 .. reqSeq - 1
      BY DEF Inv, TypeOK
    <3>4. QED
      BY <3>1, <3>2, <3>3
  <2>2. LaunchInv'
    BY <1>2, <2>1 DEF DEBUG_configurationDone, LaunchInv
  <2>3. /\ UNCHANGED called
        /\ reqSeq' \in {reqSeq, reqSeq + 1}
        /\ pending' \subseteq pending \cup {reqSeq}
    BY <1>2 DEF DEBUG_configurationDone, SendRunInTerminal
  <2>4. CallbackInv'
    BY <2>1, <2>3 DEF CallbackInv, ReqSeqs
  <2>5. QED
    BY <2>2, <2>4
<1>3. ASSUME NEW s \in ReqSeqs, HandleResponse(s)
      PROVE  LaunchInv' /\ CallbackInv'
  <2>1. UNCHANGED <<launchResp, configured, launchArgs, reqSeq>>
    BY <1>3 DEF HandleResponse
  <2>2. LaunchInv'
    BY <2>1 DEF LaunchInv
  <2>3. called \in [ReqSeqs -> Nat] /\ reqSeq \in 1 .. 3
    BY DEF Inv, TypeOK
  <2>4. CASE s \in pending
    <3>1. pending' = pending \ {s} /\ called' = [called EXCEPT ![s] = @ + 1]
      BY <1>3, <2>4 DEF HandleResponse
    <3>2. called[s] = 0 /\ s < reqSeq
      BY <1>3, <2>4 DEF CallbackInv, HandleResponse
    <3>3. ASSUME NEW t \in ReqSeqs
          PROVE  /\ called'[t] <= 1
                 /\ t \in pending' => called'[t] = 0
                 /\ t >= reqSeq' => called'[t] = 0
      <4>1. CASE t = s
        <5>1. called'[s] = 1
          BY <2>3, <3>1, <3>2
        <5>2. s \notin pending' /\ ~(s >= reqSeq')
          BY <2>1, <2>3, <3>1, <3>2 DEF ReqSeqs
        <5>3. QED
          BY <4>1, <5>1, <5>2
      <4>2. CASE t # s
        <5>1. called'[t] = called[t] /\ (t \in pending' => t \in pending)
          BY <2>3, <3>1, <4>2
        <5>2. QED
          BY <2>1, <5>1 DEF CallbackInv
      <4>3. QED
        BY <4>1, <4>2
    <3>4. QED
      BY <2>2, <3>3 DEF CallbackInv
  <2>5. CASE s \notin pending
    BY <1>3, <2>5, ProtoUnchanged DEF HandleResponse, protoVars
  <2>6. QED
    BY <2>4, <2>5
<1>4. CASE UNCHANGED protoVars
  BY <1>4, ProtoUnchanged
<1>5. QED
  <2>1. CASE UNCHANGED vars
    BY <2>1, ProtoUnchanged DEF vars, protoVars
  <2>2. CASE Next
    <3>1. CASE \/ Initialize \/ Resume \/ ReverseExec \/ ConsoleResumeCmd
               \/ Pause \/ DEBUG_displaySettings \/ StackTrace
      BY <3>1, <1>4 DEF Initialize, Resume, ReverseExec, ConsoleResumeCmd,
                        Pause, DEBUG_displaySettings, StackTrace, protoVars
    <3>2. CASE \/ DebuggeeStops \/ DebuggeeExits \/ HandleStateEvent
               \/ \E term \in {"absent", "true", "false"} : DEBUG_disconnect(term)
               \/ ConnectionLost
      BY <3>2, <1>4 DEF DebuggeeStops, DebuggeeExits, HandleStateEvent,
                        DEBUG_disconnect, ConnectionLost, protoVars
    <3>3. QED
      BY <2>2, <3>1, <3>2, <1>1, <1>2, <1>3 DEF Next
  <2>3. QED
    BY <2>1, <2>2
-----------------------------------------------------------------------------
\* The deferred launch or attach response (AsyncResponse, answered by
\* DEBUG_configurationDone's do_launch) is sent at most once, and has been
\* sent once configurationDone has run, for every value of the constants.
THEOREM LaunchAnsweredOnceHolds == Spec => []LaunchAnsweredOnce
<1>1. Init => PInv
  BY InitPInv
<1>2. PInv /\ [Next]_vars => PInv'
  BY NextPInv
<1>3. PInv => LaunchAnsweredOnce
  BY DEF PInv, LaunchInv, LaunchAnsweredOnce
<1>4. QED
  BY <1>1, <1>2, <1>3, PTL DEF Spec

\* handle_message runs the callback of a reverse request (runInTerminal,
\* registered by send_request) at most once, however often the client
\* answers, for every value of the constants.
THEOREM CallbackOnceHolds == Spec => []CallbackOnce
<1>1. Init => PInv
  BY InitPInv
<1>2. PInv /\ [Next]_vars => PInv'
  BY NextPInv
<1>3. PInv => CallbackOnce
  BY DEF PInv, CallbackInv, CallbackOnce
<1>4. QED
  BY <1>1, <1>2, <1>3, PTL DEF Spec

=============================================================================
