--------------------------- MODULE SessionProofs ----------------------------
(***************************************************************************)
(* Proofs about the session lifecycle (Session), for every value of the    *)
(* constants that satisfies SessionAssumption.                              *)
(***************************************************************************)
EXTENDS Session, TLAPS

USE SessionAssumption

(***************************************************************************)
(* Before configurationDone nothing has been launched and no reverse       *)
(* request has been sent: do_launch runs, and runInTerminal is sent, only   *)
(* from configurationDone.  TypeOK needs this to bound request_seq, and   *)
(* disconnect before configurationDone finds no process to release.        *)
(***************************************************************************)
NotStarted == ~configured => (reqSeq = 1 /\ inferior = "none" /\ ~hasProcess)

Inv == TypeOK /\ NotStarted

\* TypeOK in three parts, small enough for the provers: the flags, the
\* control state, and the queues and counters.
TypeBool ==
    /\ connected \in BOOLEAN /\ loopOn \in BOOLEAN /\ initialized \in BOOLEAN
    /\ stopOnEntry \in BOOLEAN /\ configured \in BOOLEAN
    /\ hasProcess \in BOOLEAN /\ launched \in BOOLEAN

TypeCtl ==
    /\ launchArgs \in {"none", "launch", "attach"}
    /\ launchResp \in Nat
    /\ inferior \in {"none", "running", "stopped", "exited", "detached"}
    /\ epoch \in Stops
    /\ refs \subseteq Stops
    /\ view \in {"none", "running", "stopped", "ended"}

TypeQueue ==
    /\ pevents \in Seq(StateEvents)
    /\ stoppedSent \in [Stops -> Nat]
    /\ reqSeq \in 1 .. 3
    /\ pending \subseteq 1 .. reqSeq - 1
    /\ called \in [ReqSeqs -> Nat]

(***************************************************************************)
(* Without stepBack, reverseContinue and console resume commands, the      *)
(* handles are of the current stop, and there are none while the debuggee  *)
(* is not stopped: the debuggee only leaves "stopped" through a resume      *)
(* request, which calls before_resume first.                               *)
(***************************************************************************)
HandlesInv ==
    /\ HandlesCurrent
    /\ inferior \in {"none", "running"} => refs = {}

\* The resume paths that skip before_resume are disabled.
ForwardOnly == ~ReverseDebugging /\ ~ConsoleResume

IInv == Inv /\ (ForwardOnly => HandlesInv)

-----------------------------------------------------------------------------
\* Appending to the queue of process events keeps it a queue of events.
LEMMA AppendEvent ==
    ASSUME NEW s \in Seq(StateEvents)
    PROVE  /\ Append(s, "running") \in Seq(StateEvents)
           /\ Append(s, "stopped") \in Seq(StateEvents)
           /\ Append(s, "exited") \in Seq(StateEvents)
BY DEF StateEvents

\* So does appending the 'running' and 'stopped' of a resume that stops.
LEMMA AppendRunStop ==
    ASSUME NEW s \in Seq(StateEvents)
    PROVE  s \o <<"running", "stopped">> \in Seq(StateEvents)
BY DEF StateEvents

\* Reporting a stop keeps the count of 'stopped' events a function to Nat.
LEMMA NotifyType ==
    ASSUME NEW f \in [Stops -> Nat], NEW e \in Stops
    PROVE  [f EXCEPT ![e] = @ + 1] \in [Stops -> Nat]
OBVIOUS

LEMMA InitIInv == Init => IInv
BY DEF Init, IInv, Inv, TypeOK, NotStarted, HandlesInv, HandlesCurrent,
       Stops, ReqSeqs

\* runInTerminal is sent only from the first configurationDone, with
\* request_seq 1, so request_seq stays within 1 .. 2 and pending below it.
LEMMA SendRunInTerminalType ==
    ASSUME reqSeq = 1, pending = {}, NEW terminal \in BOOLEAN,
           SendRunInTerminal(terminal)
    PROVE  /\ reqSeq' \in 1 .. 3
           /\ pending' \subseteq 1 .. reqSeq' - 1
BY DEF SendRunInTerminal

\* Every step keeps the types, and keeps the session unstarted until
\* configurationDone.  One step per action; the control state and the
\* queues are proved apart.
LEMMA NextInv == Inv /\ [Next]_vars => Inv'
<1> SUFFICES ASSUME TypeBool, TypeCtl, TypeQueue, NotStarted, [Next]_vars
             PROVE  TypeBool' /\ TypeCtl' /\ TypeQueue' /\ NotStarted'
  BY DEF Inv, TypeOK, TypeBool, TypeCtl, TypeQueue
<1> USE DEF TypeBool, TypeCtl, TypeQueue, NotStarted, Stops, ReqSeqs
<1>1. CASE Initialize
  <2>1. TypeBool' /\ NotStarted'
    BY <1>1 DEF Initialize
  <2>2. TypeCtl'
    BY <1>1 DEF Initialize
  <2>3. TypeQueue'
    BY <1>1 DEF Initialize
  <2>4. QED
    BY <2>1, <2>2, <2>3
<1>2. ASSUME NEW kind \in {"launch", "attach"}, NEW soe \in BOOLEAN,
             LaunchOrAttach(kind, soe)
      PROVE  TypeBool' /\ TypeCtl' /\ TypeQueue' /\ NotStarted'
  <2>1. TypeBool' /\ NotStarted'
    BY <1>2 DEF LaunchOrAttach
  <2>2. TypeCtl'
    BY <1>2 DEF LaunchOrAttach
  <2>3. TypeQueue'
    BY <1>2 DEF LaunchOrAttach
  <2>4. QED
    BY <2>1, <2>2, <2>3
<1>3. ASSUME NEW terminal \in BOOLEAN, DEBUG_configurationDone(terminal)
      PROVE  TypeBool' /\ TypeCtl' /\ TypeQueue' /\ NotStarted'
  <2>1. reqSeq = 1 /\ pending = {}
    BY <1>3 DEF DEBUG_configurationDone
  <2>2. /\ reqSeq' \in 1 .. 3
        /\ pending' \subseteq 1 .. reqSeq' - 1
    BY <1>3, <2>1, SendRunInTerminalType DEF DEBUG_configurationDone
  <2>3. TypeBool' /\ NotStarted'
    BY <1>3 DEF DEBUG_configurationDone
  <2>4. /\ launchResp' = launchResp + 1
        /\ UNCHANGED <<launchArgs, refs, called>>
    BY <1>3 DEF DEBUG_configurationDone
  <2>5. CASE /\ view' = IF launchArgs = "launch" THEN "ended" ELSE view
             /\ UNCHANGED <<hasProcess, launched, inferior, epoch, pevents,
                            stoppedSent>>
    <3>1. TypeCtl'
      BY <2>4, <2>5
    <3>2. TypeQueue'
      BY <2>2, <2>4, <2>5
    <3>3. QED
      BY <2>3, <3>1, <3>2
  <2>6. CASE /\ StartedStopped
             /\ NotifyTargetStopped
             /\ UNCHANGED pevents
    <3>1. TypeCtl'
      BY <2>4, <2>6 DEF StartedStopped, NotifyTargetStopped
    <3>2. TypeQueue'
      BY <2>2, <2>4, <2>6, NotifyType DEF StartedStopped, NotifyTargetStopped
    <3>3. QED
      BY <2>3, <3>1, <3>2
  <2>7. CASE /\ inferior' = "running"
             /\ pevents' = Append(pevents, "running")
             /\ UNCHANGED <<epoch, view, stoppedSent>>
    <3>1. TypeCtl'
      BY <2>4, <2>7
    <3>2. TypeQueue'
      BY <2>2, <2>4, <2>7, AppendEvent
    <3>3. QED
      BY <2>3, <3>1, <3>2
  <2>8. CASE /\ StartedStopped
             /\ pevents' = pevents \o <<"running", "stopped">>
             /\ NotifyTargetStopped
    <3>1. TypeCtl'
      BY <2>4, <2>8 DEF StartedStopped, NotifyTargetStopped
    <3>2. TypeQueue'
      BY <2>2, <2>4, <2>8, AppendRunStop, NotifyType
      DEF StartedStopped, NotifyTargetStopped
    <3>3. QED
      BY <2>3, <3>1, <3>2
  <2>9. QED
    BY <1>3, <2>5, <2>6, <2>7, <2>8 DEF DEBUG_configurationDone
<1>4. CASE Resume
  <2>1. TypeBool' /\ NotStarted'
    BY <1>4 DEF Resume, BeforeResume
  <2>2. TypeCtl'
    BY <1>4 DEF Resume, BeforeResume
  <2>3. TypeQueue'
    BY <1>4, AppendEvent DEF Resume, BeforeResume
  <2>4. QED
    BY <2>1, <2>2, <2>3
<1>5. CASE ReverseExec
  <2>1. /\ TypeBool' /\ NotStarted'
        /\ UNCHANGED <<launchArgs, launchResp, inferior, refs,
                       stoppedSent, reqSeq, pending, called>>
        /\ view' = "running"
    BY <1>5 DEF ReverseExec
  <2>2. CASE /\ epoch < MaxStops /\ epoch' = epoch + 1
             /\ pevents' = pevents \o <<"running", "stopped">>
    BY <2>1, <2>2, AppendRunStop
  <2>3. CASE UNCHANGED <<epoch, pevents>>
    BY <2>1, <2>3
  <2>4. QED
    BY <1>5, <2>2, <2>3 DEF ReverseExec
<1>6. CASE ConsoleResumeCmd
  <2>1. TypeBool' /\ NotStarted'
    BY <1>6 DEF ConsoleResumeCmd
  <2>2. TypeCtl'
    BY <1>6 DEF ConsoleResumeCmd
  <2>3. TypeQueue'
    BY <1>6, AppendEvent DEF ConsoleResumeCmd
  <2>4. QED
    BY <2>1, <2>2, <2>3
<1>7. CASE Pause
  <2>1. TypeBool' /\ NotStarted'
    BY <1>7 DEF Pause
  <2>2. TypeCtl'
    BY <1>7 DEF Pause
  <2>3. TypeQueue'
    BY <1>7, AppendEvent DEF Pause
  <2>4. QED
    BY <2>1, <2>2, <2>3
<1>8. CASE DEBUG_displaySettings
  <2>1. TypeBool' /\ NotStarted'
    BY <1>8 DEF DEBUG_displaySettings
  <2>2. TypeCtl'
    BY <1>8 DEF DEBUG_displaySettings
  <2>3. TypeQueue'
    BY <1>8 DEF DEBUG_displaySettings
  <2>4. QED
    BY <2>1, <2>2, <2>3
<1>9. CASE StackTrace
  <2>1. TypeBool' /\ NotStarted'
    BY <1>9 DEF StackTrace
  <2>2. TypeCtl'
    BY <1>9 DEF StackTrace
  <2>3. TypeQueue'
    BY <1>9 DEF StackTrace
  <2>4. QED
    BY <2>1, <2>2, <2>3
<1>10. CASE DebuggeeStops
  <2>1. TypeBool' /\ NotStarted'
    BY <1>10 DEF DebuggeeStops
  <2>2. TypeCtl'
    BY <1>10 DEF DebuggeeStops
  <2>3. TypeQueue'
    BY <1>10, AppendEvent DEF DebuggeeStops
  <2>4. QED
    BY <2>1, <2>2, <2>3
<1>11. CASE DebuggeeExits
  <2>1. TypeBool' /\ NotStarted'
    BY <1>11 DEF DebuggeeExits
  <2>2. TypeCtl'
    BY <1>11 DEF DebuggeeExits
  <2>3. TypeQueue'
    BY <1>11, AppendEvent DEF DebuggeeExits
  <2>4. QED
    BY <2>1, <2>2, <2>3
<1>12. CASE HandleStateEvent
  <2>1. /\ TypeBool' /\ NotStarted'
        /\ UNCHANGED <<launchArgs, launchResp, inferior, refs, reqSeq,
                       pending, called>>
        /\ pevents # <<>> /\ pevents' = Tail(pevents)
    BY <1>12 DEF HandleStateEvent
  <2>2. pevents' \in Seq(StateEvents)
    BY <2>1
  <2>3. /\ view' \in {"none", "running", "stopped", "ended"}
        /\ stoppedSent' \in [Stops -> Nat]
        /\ epoch' = epoch
    <3>1. CASE Head(pevents) = "stopped"
      <4>1. /\ epoch' = epoch
            /\ stoppedSent' = [stoppedSent EXCEPT ![epoch] = @ + 1]
            /\ view' = "stopped"
        BY <1>12, <3>1 DEF HandleStateEvent, NotifyTargetStopped
      <4>2. QED
        BY <4>1, NotifyType
    <3>2. CASE Head(pevents) \in {"running", "exited"}
      BY <1>12, <3>2 DEF HandleStateEvent
    <3>3. QED
      <4>1. Head(pevents) \in StateEvents
        BY <2>1
      <4>2. QED
        BY <3>1, <3>2, <4>1 DEF StateEvents
  <2>4. QED
    BY <2>1, <2>2, <2>3
<1>13. ASSUME NEW s \in ReqSeqs, HandleResponse(s)
       PROVE  TypeBool' /\ TypeCtl' /\ TypeQueue' /\ NotStarted'
  <2>1. /\ TypeBool' /\ NotStarted'
        /\ UNCHANGED <<launchArgs, launchResp, inferior, epoch, refs, view,
                       pevents, stoppedSent, reqSeq>>
    BY <1>13 DEF HandleResponse
  <2>2. called' \in [ReqSeqs -> Nat] /\ pending' \subseteq pending
    BY <1>13 DEF HandleResponse
  <2>3. QED
    BY <2>1, <2>2
<1>14. ASSUME NEW term \in {"absent", "true", "false"}, DEBUG_disconnect(term)
       PROVE  TypeBool' /\ TypeCtl' /\ TypeQueue' /\ NotStarted'
  <2>1. /\ TypeBool' /\ NotStarted'
        /\ inferior' \in {"none", "running", "stopped", "exited", "detached"}
        /\ view' = "ended"
        /\ UNCHANGED <<launchArgs, launchResp, epoch, refs, pevents,
                       stoppedSent, reqSeq, pending, called>>
    BY <1>14 DEF DEBUG_disconnect
  <2>2. QED
    BY <2>1
<1>15. CASE ConnectionLost
  <2>1. TypeBool' /\ NotStarted'
    BY <1>15 DEF ConnectionLost
  <2>2. TypeCtl'
    BY <1>15 DEF ConnectionLost
  <2>3. TypeQueue'
    BY <1>15 DEF ConnectionLost
  <2>4. QED
    BY <2>1, <2>2, <2>3
<1>16. CASE UNCHANGED vars
  BY <1>16 DEF vars
<1>17. QED
  BY <1>1, <1>2, <1>3, <1>4, <1>5, <1>6, <1>7, <1>8, <1>9, <1>10, <1>11,
     <1>12, <1>13, <1>14, <1>15, <1>16 DEF Next

-----------------------------------------------------------------------------
(* Handles: with only the forward resume requests, every step keeps        *)
(* HandlesInv.  Only the steps that move refs, epoch or inferior matter.   *)

LEMMA NextHandles ==
    ASSUME ForwardOnly, Inv, HandlesInv, [Next]_vars
    PROVE  HandlesInv'
<1> USE DEF ForwardOnly, Inv, TypeOK, NotStarted, HandlesInv, HandlesCurrent
<1>1. ASSUME NEW terminal \in BOOLEAN, DEBUG_configurationDone(terminal)
      PROVE  HandlesInv'
  <2>1. refs = {} /\ refs' = refs
    BY <1>1 DEF DEBUG_configurationDone
  <2>2. QED
    BY <2>1
<1>2. CASE Resume
  BY <1>2 DEF Resume, BeforeResume
<1>3. CASE ReverseExec \/ ConsoleResumeCmd
  BY <1>3 DEF ReverseExec, ConsoleResumeCmd
<1>4. CASE Pause \/ DebuggeeStops
  <2>1. inferior = "running" /\ refs' = refs
    BY <1>4 DEF Pause, DebuggeeStops
  <2>2. QED
    BY <2>1
<1>5. CASE StackTrace
  <2>1. CASE inferior = "stopped"
    BY <1>5, <2>1 DEF StackTrace
  <2>2. CASE inferior # "stopped"
    BY <1>5, <2>2 DEF StackTrace
  <2>3. QED
    BY <2>1, <2>2
<1>6. CASE DebuggeeExits
  BY <1>6 DEF DebuggeeExits
<1>7. ASSUME NEW term \in {"absent", "true", "false"}, DEBUG_disconnect(term)
      PROVE  HandlesInv'
  <2>1. CASE hasProcess
    <3>1. inferior' \in {"exited", "detached"} /\ UNCHANGED <<epoch, refs>>
      BY <1>7, <2>1 DEF DEBUG_disconnect
    <3>2. QED
      BY <3>1
  <2>2. CASE ~hasProcess
    BY <1>7, <2>2 DEF DEBUG_disconnect
  <2>3. QED
    BY <2>1, <2>2
<1>8. CASE \/ Initialize
           \/ \E kind \in {"launch", "attach"}, soe \in BOOLEAN :
                LaunchOrAttach(kind, soe)
           \/ DEBUG_displaySettings
           \/ \E s \in ReqSeqs : HandleResponse(s)
           \/ ConnectionLost
           \/ UNCHANGED vars
  <2>1. UNCHANGED <<epoch, refs, inferior>>
    BY <1>8 DEF Initialize, LaunchOrAttach, DEBUG_displaySettings,
                HandleResponse, ConnectionLost, vars
  <2>2. QED
    BY <2>1
<1>9. CASE HandleStateEvent
  <2>1. Head(pevents) \in StateEvents
    BY <1>9 DEF HandleStateEvent
  <2>2. UNCHANGED <<epoch, refs, inferior>>
    BY <1>9, <2>1 DEF HandleStateEvent, StateEvents
  <2>3. QED
    BY <2>2
<1>10. QED
  BY <1>1, <1>2, <1>3, <1>4, <1>5, <1>6, <1>7, <1>8, <1>9 DEF Next

LEMMA NextIInv == IInv /\ [Next]_vars => IInv'
BY NextInv, NextHandles DEF IInv

-----------------------------------------------------------------------------
\* Type correctness of the session model: every reachable state is well
\* typed; in particular request_seq stays within 1 .. 3 and every pending
\* reverse request has a sequence number that send_request already used.
THEOREM TypeCorrect == Spec => []TypeOK
<1>1. Init => Inv
  BY InitIInv DEF IInv
<1>2. Inv /\ [Next]_vars => Inv'
  BY NextInv
<1>3. Inv => TypeOK
  BY DEF Inv
<1>4. QED
  BY <1>1, <1>2, <1>3, PTL DEF Spec

\* When the session offers no stepBack or reverseContinue (reverseDebugging
\* off) and no console command resumes the debuggee, the handle tree holds
\* objects of the current stop only: continue, next, stepIn and stepOut all
\* reset var_refs in before_resume.  (The run session_skip_reset shows the
\* property fails without the assumption.)
THEOREM ForwardHandlesCurrent ==
    ASSUME ~ReverseDebugging, ~ConsoleResume
    PROVE  Spec => []HandlesCurrent
<1>1. Init => IInv
  BY InitIInv
<1>2. IInv /\ [Next]_vars => IInv'
  BY NextIInv
<1>3. IInv => HandlesCurrent
  BY DEF IInv, ForwardOnly, HandlesInv
<1>4. QED
  BY <1>1, <1>2, <1>3, PTL DEF Spec

=============================================================================
