------------------------------ MODULE Session -------------------------------
(***************************************************************************)
(* The life of one DebugSession (src/adapter/debugsession.py) as the client *)
(* and LLDB see it: initialize, launch or attach with the response deferred *)
(* to configurationDone, the resume requests and the handle tree they must  *)
(* invalidate, LLDB's process state events queued for the event loop, the   *)
(* runInTerminal reverse request, and disconnect.                           *)
(*                                                                          *)
(* Requests and queued LLDB events are handled one at a time on the event   *)
(* loop, so each handler is one action.  The debuggee runs on its own: its  *)
(* stops and its exit are actions of the backend that queue an event.      *)
(* The stop counter epoch names each stop; the handle tree keeps, for each  *)
(* object it holds, the stop in which it was read (a ghost of the model).   *)
(* The client follows the protocol: one launch or attach, configurationDone *)
(* once after the initialized event, and resume or stackTrace requests only *)
(* while it believes the debuggee stopped.                                  *)
(***************************************************************************)
EXTENDS Naturals, Sequences

CONSTANTS
    MaxStops,          \* bound on the number of stops of the debuggee
    ReverseDebugging,  \* the 'reverseDebugging' parameter (supportsStepBack)
    ConsoleResume,     \* the user may type a resuming command in the console
    LaunchRace         \* the debuggee may stop before configurationDone's check

ASSUME SessionAssumption ==
    /\ MaxStops \in Nat
    /\ ReverseDebugging \in BOOLEAN
    /\ ConsoleResume \in BOOLEAN
    /\ LaunchRace \in BOOLEAN

Stops == 0 .. MaxStops
StateEvents == {"running", "stopped", "exited"}

VARIABLES
    connected,    \* the client connection is open
    loopOn,       \* the event loop still dispatches (event_loop.stop not called)
    initialized,  \* DEBUG_initialize has run
    launchArgs,   \* self.launch_args / self.do_launch: "none", "launch", "attach"
    stopOnEntry,  \* launch_args['stopOnEntry']
    configured,   \* DEBUG_configurationDone has run
    launchResp,   \* responses sent to the launch or attach request
    hasProcess,   \* self.process is a valid SBProcess
    launched,     \* self.process_launched
    inferior,     \* the debuggee: "none", "running", "stopped", "exited", "detached"
    epoch,        \* the number of stops so far
    pevents,      \* LLDB process state events waiting for the event loop
    refs,         \* the stops of the objects held by var_refs (HandleTree)
    view,         \* the client's view: "none", "running", "stopped", "ended"
    stoppedSent,  \* stoppedSent[e]: 'stopped' events sent while epoch = e
    reqSeq,       \* self.request_seq
    pending,      \* DOMAIN self.pending_requests
    called        \* called[s]: times the callback of reverse request s ran

vars == <<connected, loopOn, initialized, launchArgs, stopOnEntry, configured,
          launchResp, hasProcess, launched, inferior, epoch, pevents, refs,
          view, stoppedSent, reqSeq, pending, called>>

\* The reverse requests the session can issue: runInTerminal, once.
ReqSeqs == 1 .. 2

-----------------------------------------------------------------------------
\* before_resume: self.var_refs.reset().
BeforeResume == refs' = {}

\* notify_target_stopped: report the current stop to the client.
NotifyTargetStopped ==
    /\ stoppedSent' = [stoppedSent EXCEPT ![epoch'] = @ + 1]
    /\ view' = "stopped"

Initialize ==
    /\ connected /\ ~initialized
    /\ initialized' = TRUE
    /\ UNCHANGED <<connected, loopOn, launchArgs, stopOnEntry, configured,
                   launchResp, hasProcess, launched, inferior, epoch, pevents,
                   refs, view, stoppedSent, reqSeq, pending, called>>

\* DEBUG_launch and DEBUG_attach: create the target (which may fail with a
\* UserError, answered at once), send 'initialized', and defer the response
\* to configurationDone (AsyncResponse).
LaunchOrAttach(kind, soe) ==
    /\ connected /\ initialized
    /\ launchArgs = "none" /\ launchResp = 0
    /\ \/ /\ launchArgs' = kind
          /\ stopOnEntry' = soe
          /\ UNCHANGED launchResp
       \/ /\ launchResp' = 1
          /\ UNCHANGED <<launchArgs, stopOnEntry>>
    /\ UNCHANGED <<connected, loopOn, initialized, configured, hasProcess,
                   launched, inferior, epoch, pevents, refs, view, stoppedSent,
                   reqSeq, pending, called>>

\* Mutant: send_request registers the request but does not advance
\* request_seq.
SendRunInTerminalSameSeq(terminal) ==
    IF launchArgs = "launch" /\ terminal
      THEN /\ pending' = pending \cup {reqSeq}
           /\ UNCHANGED reqSeq
      ELSE UNCHANGED <<pending, reqSeq>>

\* configure_stdio in complete_launch: an integrated or external terminal
\* is spawned by send_request('runInTerminal', ...), which registers the
\* callback under request_seq and advances it.
SendRunInTerminal(terminal) ==
    IF launchArgs = "launch" /\ terminal
      THEN /\ pending' = pending \cup {reqSeq}
           /\ reqSeq' = reqSeq + 1
      ELSE UNCHANGED <<pending, reqSeq>>

\* Mutant: the launch error escapes do_launch's except clause, so the
\* launch request is never answered.
DEBUG_configurationDoneLost(terminal) ==
    /\ connected /\ launchArgs # "none" /\ ~configured
    /\ configured' = TRUE
    /\ SendRunInTerminal(terminal)
    /\ UNCHANGED <<connected, loopOn, initialized, launchArgs, stopOnEntry,
                   launchResp, hasProcess, launched, inferior, epoch, pevents,
                   refs, view, stoppedSent, called>>

\* The debuggee's state just after a successful complete_launch or
\* complete_attach, read by configurationDone's process.is_stopped check.
\* LLDB's thread runs the debuggee concurrently, so a debuggee that was
\* resumed may already have stopped at a breakpoint.
StartedStopped ==
    /\ inferior' = "stopped"
    /\ epoch < MaxStops
    /\ epoch' = epoch + 1

\* DEBUG_configurationDone: do_launch (complete_launch or complete_attach),
\* whose result or UserError is sent as the launch response, then
\* notify_target_stopped if the process is stopped.
DEBUG_configurationDone(terminal) ==
    /\ connected /\ launchArgs # "none" /\ ~configured
    /\ configured' = TRUE
    /\ launchResp' = launchResp + 1
    /\ SendRunInTerminal(terminal)
    /\ \/ \* launch or attach fails: UserError sent as the launch response;
          \* a failed launch also sends 'terminated'.
          /\ view' = IF launchArgs = "launch" THEN "ended" ELSE view
          /\ UNCHANGED <<hasProcess, launched, inferior, epoch, pevents,
                         stoppedSent>>
       \/ \* stopped at entry: LLDB reports no event for it, so
          \* configurationDone reports the stop itself.
          /\ stopOnEntry
          /\ hasProcess' = TRUE
          /\ launched' = (launchArgs = "launch")
          /\ StartedStopped
          /\ NotifyTargetStopped
          /\ UNCHANGED pevents
       \/ \* running (attach: process.Continue()), still running at the check
          /\ ~stopOnEntry
          /\ hasProcess' = TRUE
          /\ launched' = (launchArgs = "launch")
          /\ inferior' = "running"
          /\ pevents' = Append(pevents, "running")
          /\ UNCHANGED <<epoch, view, stoppedSent>>
       \/ \* running, and stopped again before the is_stopped check
          /\ LaunchRace
          /\ ~stopOnEntry
          /\ hasProcess' = TRUE
          /\ launched' = (launchArgs = "launch")
          /\ StartedStopped
          /\ pevents' = pevents \o <<"running", "stopped">>
          /\ NotifyTargetStopped
    /\ UNCHANGED <<connected, loopOn, initialized, launchArgs, stopOnEntry,
                   refs, called>>

\* Mutant: a resume request that does not call before_resume.
ResumeNoReset ==
    /\ connected /\ view = "stopped"
    /\ UNCHANGED refs
    /\ IF inferior = "stopped"
         THEN /\ inferior' = "running"
              /\ pevents' = Append(pevents, "running")
         ELSE UNCHANGED <<inferior, pevents>>
    /\ view' = "running"
    /\ UNCHANGED <<connected, loopOn, initialized, launchArgs, stopOnEntry,
                   configured, launchResp, hasProcess, launched, epoch,
                   stoppedSent, reqSeq, pending, called>>

\* DEBUG_continue, DEBUG_next, DEBUG_stepIn, DEBUG_stepOut: before_resume,
\* then resume the debuggee (an error leaves it as it was).  The client
\* takes the threads as running once the request is answered.
Resume ==
    /\ connected /\ view = "stopped"
    /\ BeforeResume
    /\ IF inferior = "stopped"
         THEN /\ inferior' = "running"
              /\ pevents' = Append(pevents, "running")
         ELSE UNCHANGED <<inferior, pevents>>
    /\ view' = "running"
    /\ UNCHANGED <<connected, loopOn, initialized, launchArgs, stopOnEntry,
                   configured, launchResp, hasProcess, launched, epoch,
                   stoppedSent, reqSeq, pending, called>>

\* DEBUG_stepBack and DEBUG_reverseContinue: reverse_exec runs the packet
\* commands and a forward stepi, which leaves the debuggee stopped at a new
\* place; a failing command ends reverse_exec early.  No before_resume.
ReverseExec ==
    /\ ReverseDebugging
    /\ connected /\ view = "stopped" /\ inferior = "stopped"
    /\ \/ /\ epoch < MaxStops
          /\ epoch' = epoch + 1
          /\ pevents' = pevents \o <<"running", "stopped">>
       \/ UNCHANGED <<epoch, pevents>>
    /\ view' = "running"
    /\ UNCHANGED <<connected, loopOn, initialized, launchArgs, stopOnEntry,
                   configured, launchResp, hasProcess, launched, inferior,
                   refs, stoppedSent, reqSeq, pending, called>>

\* DEBUG_evaluate in repl context running "continue", "next" and the like:
\* execute_command_in_frame resumes the debuggee; no before_resume.
ConsoleResumeCmd ==
    /\ ConsoleResume
    /\ connected /\ hasProcess /\ inferior = "stopped"
    /\ inferior' = "running"
    /\ pevents' = Append(pevents, "running")
    /\ UNCHANGED <<connected, loopOn, initialized, launchArgs, stopOnEntry,
                   configured, launchResp, hasProcess, launched, epoch, refs,
                   view, stoppedSent, reqSeq, pending, called>>

\* DEBUG_pause: process.Stop(); it fails (UserError) unless running.
Pause ==
    /\ connected /\ hasProcess /\ view = "running"
    /\ inferior = "running" /\ epoch < MaxStops
    /\ inferior' = "stopped"
    /\ epoch' = epoch + 1
    /\ pevents' = Append(pevents, "stopped")
    /\ UNCHANGED <<connected, loopOn, initialized, launchArgs, stopOnEntry,
                   configured, launchResp, hasProcess, launched, refs, view,
                   stoppedSent, reqSeq, pending, called>>

\* DEBUG_displaySettings: update_display_settings, then
\* refresh_client_display sends 'continued' and a 'stopped' event (reason
\* "mode switch") for the selected thread, whatever the process is doing;
\* without a process it raises AttributeError.  The fake stop is not a
\* report of a stop of the debuggee.
DEBUG_displaySettings ==
    /\ connected /\ hasProcess
    /\ view' = "stopped"
    /\ UNCHANGED <<connected, loopOn, initialized, launchArgs, stopOnEntry,
                   configured, launchResp, hasProcess, launched, inferior,
                   epoch, pevents, refs, stoppedSent, reqSeq, pending, called>>

\* DEBUG_stackTrace: a frame handle var_refs.create(frame, ...) per frame;
\* a debuggee that is not stopped has no frames.  scopes and variables
\* create handles under an existing one, for objects of the same stop.
StackTrace ==
    /\ connected /\ view = "stopped"
    /\ refs' = IF inferior = "stopped" THEN refs \cup {epoch} ELSE refs
    /\ UNCHANGED <<connected, loopOn, initialized, launchArgs, stopOnEntry,
                   configured, launchResp, hasProcess, launched, inferior,
                   epoch, pevents, view, stoppedSent, reqSeq, pending, called>>

\* The debuggee, on LLDB's side: it stops (a breakpoint, the end of a step,
\* a signal) or exits, and LLDB queues the state change for the event loop.
DebuggeeStops ==
    /\ inferior = "running" /\ epoch < MaxStops
    /\ inferior' = "stopped"
    /\ epoch' = epoch + 1
    /\ pevents' = Append(pevents, "stopped")
    /\ UNCHANGED <<connected, loopOn, initialized, launchArgs, stopOnEntry,
                   configured, launchResp, hasProcess, launched, refs, view,
                   stoppedSent, reqSeq, pending, called>>

DebuggeeExits ==
    /\ inferior = "running"
    /\ inferior' = "exited"
    /\ pevents' = Append(pevents, "exited")
    /\ UNCHANGED <<connected, loopOn, initialized, launchArgs, stopOnEntry,
                   configured, launchResp, hasProcess, launched, epoch, refs,
                   view, stoppedSent, reqSeq, pending, called>>

\* Mutant: every stop is taken for a restart and not reported.
HandleStateEventDropStop ==
    /\ loopOn /\ pevents # <<>>
    /\ pevents' = Tail(pevents)
    /\ CASE Head(pevents) = "running" ->
              /\ view' = "running"
              /\ UNCHANGED <<epoch, stoppedSent>>
         [] Head(pevents) = "stopped" ->
              UNCHANGED <<epoch, stoppedSent, view>>
         [] Head(pevents) = "exited" ->
              /\ view' = "ended"
              /\ UNCHANGED <<epoch, stoppedSent>>
    /\ UNCHANGED <<connected, loopOn, initialized, launchArgs, stopOnEntry,
                   configured, launchResp, hasProcess, launched, inferior,
                   refs, reqSeq, pending, called>>

\* handle_debugger_event for a process state change, in delivery order:
\* running sends 'continued'; stopped runs notify_target_stopped, which
\* reads the process as it is now; exited sends 'exited' and 'terminated'.
HandleStateEvent ==
    /\ loopOn /\ pevents # <<>>
    /\ pevents' = Tail(pevents)
    /\ CASE Head(pevents) = "running" ->
              /\ view' = "running"
              /\ UNCHANGED <<epoch, stoppedSent>>
         [] Head(pevents) = "stopped" ->
              /\ UNCHANGED epoch
              /\ NotifyTargetStopped
         [] Head(pevents) = "exited" ->
              /\ view' = "ended"
              /\ UNCHANGED <<epoch, stoppedSent>>
    /\ UNCHANGED <<connected, loopOn, initialized, launchArgs, stopOnEntry,
                   configured, launchResp, hasProcess, launched, inferior,
                   refs, reqSeq, pending, called>>

\* Mutant: the callback is run but the pending entry is kept.
HandleResponseKeepPending(s) ==
    /\ connected /\ s < reqSeq
    /\ IF s \in pending
         THEN /\ called' = [called EXCEPT ![s] = @ + 1]
              /\ UNCHANGED pending
         ELSE UNCHANGED <<pending, called>>
    /\ UNCHANGED <<connected, loopOn, initialized, launchArgs, stopOnEntry,
                   configured, launchResp, hasProcess, launched, inferior,
                   epoch, pevents, refs, view, stoppedSent, reqSeq>>

\* handle_message for a response: run and forget the pending callback; a
\* response with no pending request is logged and dropped.
HandleResponse(s) ==
    /\ connected /\ s < reqSeq
    /\ IF s \in pending
         THEN /\ pending' = pending \ {s}
              /\ called' = [called EXCEPT ![s] = @ + 1]
         ELSE UNCHANGED <<pending, called>>
    /\ UNCHANGED <<connected, loopOn, initialized, launchArgs, stopOnEntry,
                   configured, launchResp, hasProcess, launched, inferior,
                   epoch, pevents, refs, view, stoppedSent, reqSeq>>

\* DEBUG_disconnect(args): kill a launched debuggee (or as terminateDebuggee
\* says), detach an attached one, drop the process and stop the event loop.
\* term is the terminateDebuggee argument: "true", "false", or "absent".
DEBUG_disconnect(term) ==
    /\ connected /\ initialized
    /\ IF hasProcess
         THEN inferior' =
                IF inferior = "exited" THEN "exited"
                ELSE IF (IF term = "absent" THEN launched ELSE term = "true")
                     THEN "exited" ELSE "detached"
         ELSE UNCHANGED inferior
    /\ hasProcess' = FALSE
    /\ loopOn' = FALSE
    /\ connected' = FALSE
    /\ view' = "ended"
    /\ UNCHANGED <<initialized, launchArgs, stopOnEntry, configured,
                   launchResp, launched, epoch, pevents, refs, stoppedSent,
                   reqSeq, pending, called>>

\* handle_message(None) when the connection is lost: DEBUG_disconnect(None).
\* With a process, args.get raises AttributeError before Kill or Detach and
\* nothing after it runs; without one, the session is torn down.
ConnectionLost ==
    /\ connected
    /\ connected' = FALSE
    /\ IF hasProcess
         THEN UNCHANGED <<loopOn, hasProcess>>
         ELSE /\ loopOn' = FALSE
              /\ hasProcess' = FALSE
    /\ UNCHANGED <<initialized, launchArgs, stopOnEntry, configured,
                   launchResp, launched, inferior, epoch, pevents, refs, view,
                   stoppedSent, reqSeq, pending, called>>

-----------------------------------------------------------------------------
Init ==
    /\ connected = TRUE
    /\ loopOn = TRUE
    /\ initialized = FALSE
    /\ launchArgs = "none"
    /\ stopOnEntry = FALSE
    /\ configured = FALSE
    /\ launchResp = 0
    /\ hasProcess = FALSE
    /\ launched = FALSE
    /\ inferior = "none"
    /\ epoch = 0
    /\ pevents = <<>>
    /\ refs = {}
    /\ view = "none"
    /\ stoppedSent = [e \in Stops |-> 0]
    /\ reqSeq = 1
    /\ pending = {}
    /\ called = [s \in ReqSeqs |-> 0]

Next ==
    \/ Initialize
    \/ \E kind \in {"launch", "attach"}, soe \in BOOLEAN : LaunchOrAttach(kind, soe)
    \/ \E terminal \in BOOLEAN : DEBUG_configurationDone(terminal)
    \/ Resume
    \/ ReverseExec
    \/ ConsoleResumeCmd
    \/ Pause
    \/ DEBUG_displaySettings
    \/ StackTrace
    \/ DebuggeeStops
    \/ DebuggeeExits
    \/ HandleStateEvent
    \/ \E s \in ReqSeqs : HandleResponse(s)
    \/ \E term \in {"absent", "true", "false"} : DEBUG_disconnect(term)
    \/ ConnectionLost

\* The event loop drains its queue: each event it has taken from LLDB is
\* dispatched once the requests queued before it are handled.
Spec == Init /\ [][Next]_vars /\ WF_vars(HandleStateEvent)

-----------------------------------------------------------------------------
(***************************************************************************)
(* Properties                                                              *)
(***************************************************************************)

\* The types, and a reverse request is pending only once it has been sent
\* (send_request registers request_seq and then advances it).
TypeOK ==
    /\ connected \in BOOLEAN /\ loopOn \in BOOLEAN /\ initialized \in BOOLEAN
    /\ launchArgs \in {"none", "launch", "attach"}
    /\ stopOnEntry \in BOOLEAN /\ configured \in BOOLEAN
    /\ launchResp \in Nat
    /\ hasProcess \in BOOLEAN /\ launched \in BOOLEAN
    /\ inferior \in {"none", "running", "stopped", "exited", "detached"}
    /\ epoch \in Stops
    /\ pevents \in Seq(StateEvents)
    /\ refs \subseteq Stops
    /\ view \in {"none", "running", "stopped", "ended"}
    /\ stoppedSent \in [Stops -> Nat]
    /\ reqSeq \in 1 .. 3
    /\ pending \subseteq 1 .. reqSeq - 1
    /\ called \in [ReqSeqs -> Nat]

\* The spec (4.1, 5, 8): the handle tree is reset before every resume, so
\* every object var_refs holds was read in the current stop; a handle from
\* an earlier stop is never resolved to a stale frame or value.
HandlesCurrent == refs \subseteq {epoch}

\* A debuggee that stops and stays stopped is eventually shown stopped to
\* the client (the last event it gets is 'stopped'), however the events of
\* earlier stops and resumes were interleaved with requests, unless the
\* session's event loop has been stopped.
StopShown ==
    (inferior = "stopped" /\ loopOn)
        ~> (view = "stopped" \/ inferior # "stopped" \/ ~loopOn)

\* Every stop of the debuggee is reported to the client: while the event
\* loop runs, a stop is eventually followed by a 'stopped' event sent for
\* it, unless a later stop has superseded it before its event was handled
\* (notify_target_stopped reports the process as it is then).  Reverse
\* steps, console resumes and a stop racing configurationDone all reach
\* the client through the same queue or through configurationDone itself.
StopReported ==
    \A e \in 1 .. MaxStops :
        (epoch = e /\ loopOn) ~> (stoppedSent[e] >= 1 \/ epoch # e \/ ~loopOn)

\* The spec (1): each stop is interpreted at most once, so the client gets
\* at most one 'stopped' event for it.
StoppedOnce == \A e \in Stops : stoppedSent[e] <= 1

\* The spec (4.6): the deferred launch or attach response is sent exactly
\* once: at most once ever, and by the time configurationDone has run.
LaunchAnsweredOnce ==
    /\ launchResp <= 1
    /\ configured => launchResp = 1

\* The spec (4.6): the callback of a reverse request runs at most once, even
\* when the client answers it twice.
CallbackOnce == \A s \in ReqSeqs : called[s] <= 1

\* The spec (7): losing the client connection is treated like a disconnect,
\* inferior cleanup included: once the client is gone the debuggee has been
\* killed, has exited or has been detached.
DebuggeeReleased ==
    ~connected => inferior \in {"none", "exited", "detached"}

=============================================================================
