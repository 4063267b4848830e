# Verification of the debug session engine (src/adapter/debugsession.py)

This directory holds TLA+ models of the `DebugSession` class: the engine
between a debugging client (request / response / event messages) and LLDB.
It also holds TLC configurations that model-check the models on small
instances, and TLAPS proofs of some of their properties for all instances.

## 1. The system

`DebugSession` runs on two threads.

* The **event loop** thread handles client requests one at a time, in
  `handle_message`. It also handles LLDB notifications, which the listener
  thread queues as `handle_debugger_event` calls, in delivery order and
  between requests. A handler runs to completion before the next message or
  event. All session state (`line_breakpoints`, `fn_breakpoints`,
  `breakpoints`, `var_refs`, `pending_requests`, `filespec_cache`) is
  changed on this thread.
* **LLDB's own thread** calls `on_breakpoint_hit` → `should_stop_on_bp` on
  every hit of a breakpoint that has a script callback. That code reads the
  `BreakpointInfo` the event loop writes.

The spec names these components; the table shows where each lives in the
code:

| component | code | state |
|---|---|---|
| Breakpoint Registry | `DEBUG_setBreakpoints`, `set_source_breakpoints`, `set_dasm_breakpoints`, `DEBUG_setFunctionBreakpoints`, `set_bp_condition`, `DEBUG_setExceptionBreakpoints`, `make_bp_resp`, `BreakpointInfo` | `line_breakpoints`, `fn_breakpoints`, `breakpoints`, LLDB's breakpoints |
| Breakpoint hit evaluation | `set_bp_condition` (event loop) against `on_breakpoint_hit` → `should_stop_on_bp` (LLDB's thread) | one `BreakpointInfo`, LLDB's condition, ignore count and callback |
| Event Normalizer | `handle_debugger_event`, `notify_target_stopped`, `update_threads`, `notify_stdio`, `notify_breakpoint` | `known_threads` |
| Source Locator | `map_filespec_to_local`, `map_filespec_to_local_uncached`, `make_source_map` | `source_map`, `filespec_cache` |
| Request Router | `handle_message`, `send_response`, `send_request` | `pending_requests`, `request_seq` |
| Session lifecycle | `DEBUG_launch`/`attach`, `complete_*`, `DEBUG_configurationDone`, resume requests, `before_resume`, `DEBUG_disconnect` | `target`, `process`, `launch_args`, `do_launch` |
| Handle Tree | `handles.HandleTree` (not in this repository), `before_resume` | `var_refs` |
| Display settings | `DEBUG_displaySettings`, `update_display_settings`, `refresh_client_display` | `global_format`, `show_disassembly`, `deref_pointers` |
| Expression Dispatcher | `evaluate_expr`, `get_expression_type`, bpcond compilers | none |

**Interactions.**
* Every breakpoint request turns off LLDB's breakpoint-changed events
  (`disable_bp_events`) while it reconciles, and turns them back on in
  `finally`. Breakpoint events raised in between are lost, not delayed.
* Console commands (an `evaluate` in the `repl` context) run LLDB commands
  with those events on. Their Added and Removed events later update
  `breakpoints` through `notify_breakpoint`.
* The registry asks the Source Locator for the local path of each resolved
  location.
* LLDB queues process state changes (running, stopped, exited) for the
  event loop. `notify_target_stopped` turns a Stopped event into a client
  'stopped' event, reading the process as it is when the event is handled,
  not as it was when the event was queued.
* The resume requests call `before_resume`, which resets the Handle Tree:
  the frames and values of one stop are not valid in the next one.
* `send_request` (runInTerminal) registers a callback under `request_seq`
  in `pending_requests`; `handle_message` runs it when the client answers.

## 2. Modules

### BreakpointRegistry (+ MCBreakpointRegistry and the proof modules BreakpointRegistryProofs, BreakpointQueueProofs, BreakpointPairProofs, BreakpointOrphanProofs)

**State**

| variable | code |
|---|---|
| `backend` | the ids of LLDB's live breakpoints |
| `natCond` | whether LLDB holds a native condition for the breakpoint |
| `nextId` | LLDB's next breakpoint id; ids are 1, 2, ... and never reused |
| `lineBps` | `line_breakpoints` (file → line → id, `NoBp` = absent) |
| `fnBps` | `fn_breakpoints` |
| `bpInfo` | `breakpoints`: an id maps to a `BreakpointInfo` record with the flags `has`, `exc` (exception_bp), `cond` (a script condition), `log` and `ign` |
| `bpEvents` | whether the listener receives breakpoint events |
| `events` | the queue of breakpoint events waiting for the event loop |
| `req` | the request handler in progress: the lines or names still to delete and to add, and the settings requested |
| `response` | the last response |
| `consoleMade` | ghost: the ids created by console commands |

**Actions**

* A request handler is split into one action per loop iteration of the
  code: `...Start`, then one `...Delete` per dropped line or name, then
  one `...Update`/`...Keep`/`...Create` per requested line or name, then
  `...Done`.
  * Nothing else runs between these actions (`req.cmd # "none"` guards all
    other actions), so the split only orders the loop bodies.
  * The order of lines inside each phase is left free. This covers every
    order a client may send.
* A body that raises in the code ends the request with a failure response
  (`EndRequest(cmd, FALSE)`) and keeps every change made before the raise.
  This is what `handle_message` does with an exception.
* `SetExceptionBreakpoints` cannot raise and is one action.
* `ConsoleCreate` and `ConsoleDelete` are the `breakpoint set` and
  `breakpoint delete` commands run through `DEBUG_evaluate`.
* `HandleBreakpointEvent` is `notify_breakpoint` for Added (register a
  fresh `BreakpointInfo`) and Removed (drop it).

**Abstractions**

* Conditions and settings are reduced to what `set_bp_condition` branches
  on: no condition, a native condition or a script condition, and Booleans
  for log message and ignore count.
* `MapRaises` says whether `map_filespec_to_local` may raise for a
  resolved location. With `suppressMissingSourceFiles` on (the default), it
  calls `os.path.isfile(None)`, which is a `TypeError`, whenever a
  `sourceMap` rule with a null local prefix matches or the location has no
  full path.
* A request's settings also carry `ovf`: its hitCondition parses with
  `int()` but is negative or beyond uint32, so `bp.SetIgnoreCount` raises
  `OverflowError` at 503, which the `except ValueError` does not catch.
  `SetBpConditionFailsInfo` is what `set_bp_condition` then leaves in the
  `BreakpointInfo`: the condition and the rejected count, with the old log
  message. The request fails there. `SetBreakpointsUpdate`,
  `SetBreakpointsCreate` and `SetFunctionBreakpointsCreate` each have this
  branch; for a new line breakpoint it comes before the index write at
  405, as the mapping raise does.
* `DasmFiles` are files set through a disassembly view
  (`set_dasm_breakpoints`), which never map paths.
* Not modelled:
  * `noDebug` (the handlers return at once);
  * LocationsResolved events (they only send a client event);
  * the verification fields of responses;
  * adapter data.

### BreakpointHit (+ MCBreakpointHit, BreakpointSettings)

One breakpoint, seen from the two threads that share its
`BreakpointInfo` and its `SBBreakpoint`. A setBreakpoints request can
arrive while the debuggee runs, so `set_bp_condition` (event loop) and
`should_stop_on_bp` (LLDB's thread) can run at the same time. CPython can
switch threads between any two bytecodes, so each thread is split at its
accesses to the shared state. Each thread has a program counter: `setPc`
for the event loop, `h.pc` for LLDB's thread.

| variable | code |
|---|---|
| `info` | the `BreakpointInfo`: `condition` (a compiled script condition or none), `ignore_count`, `log_message` (a Boolean) |
| `lldb` | the `SBBreakpoint`: a native condition set or not, LLDB's ignore count, the script callback (`"none"`, `"empty"` after `SetScriptCallbackFunction('')`, `"hit"`) |
| `setPc`, `req` | the next step of `set_bp_condition` and the request entry it applies (or applied last) |
| `h` | `should_stop_on_bp`'s next step, the value it loaded for `SetIgnoreCount`, and what the hit's frame makes the native condition, the script condition and the log message evaluate to |
| `lastOk` | the last `set_bp_condition` returned normally |
| `outcome` | ghost: the last hit's result, and whether no step of `set_bp_condition` ran while it was in flight ("clean") |

The actions are the steps of the two threads:
* `set_bp_condition`:
  * `BeginSetBpCondition(r)` is the reset (474-483);
  * `SetCondition` is 485-496;
  * `SetIgnoreCount` is 498-504. A count out of uint32 range raises
    `OverflowError` from the SWIG wrapper, which `except ValueError` does
    not catch, so the request fails there;
  * `SetLogMessage` is 506;
  * `SetCallback` is 508-510.
* The hit on LLDB's thread:
  * `HitArrives`: LLDB's side of the hit, then `on_breakpoint_hit`;
  * `CbCheckIgnore`, `CbLoadIgnore` and `CbStoreIgnore`: line 605, and
    line 606 split into the read of the attribute and the call;
  * `CbCondition`: 608-613;
  * `CbLogMessage`: 615-637.

**Assumptions.** LLDB's side is taken from LLDB's documented behaviour.
It is not in this repository.
* A false native condition means no hit.
* Otherwise a positive ignore count is decremented and the hit is
  skipped.
* Otherwise the callback decides.
* An exception in the callback, or a callback without a function, means
  stop.

**Abstractions.**
* Request inputs are small sets:
  * conditions: none, native, script;
  * hitConditions: none, "0", "1" and "-1". "0" is a truthy string that
    parses to zero. "-1" is accepted by `int()` and refused by
    `SetIgnoreCount`.
  * a condition that does not compile, and a hitCondition that does not
    parse, behave like none (apart from a console message). The MC
    instance leaves them out.
* The double read of `bp_info.condition` at 610 is one step. A reset
  between the two reads makes `None(...)` raise `TypeError`, which
  means stop. Such a hit overlaps a request, so it is not clean.
* A hit on a breakpoint deleted meanwhile (602-604) is not modelled.

### BreakpointSettings: the atomic view, and its refinement

`BreakpointSettings` states what `set_bp_condition` promises, as one
atomic step. This is the view `BreakpointRegistry` takes of it.
* `sinfo` is the `BreakpointInfo`: a script condition or none, a log
  message, and whether the ignore count is non-zero.
* `snat` says whether LLDB holds a native condition.
* `Apply(s)` replaces the settings with the request's. The native
  condition survives a request without one, unless the old
  `BreakpointInfo` held a script condition or an ignore count
  (`NativeAfter`, the reset at 477-483).
* `ApplyFails(s)` is the `OverflowError` path at 503: the condition and
  the rejected count are stored, and the old log message stays. The
  registry takes this path as `SetBpConditionFailsInfo`.

`BreakpointHit` implements it under this mapping:
* Between requests (`setPc = "idle"`), `AbsInfo`/`AbsNat` are `info` and
  `lldb.cond`.
* While a request is being applied, they are what the request will leave:
  the condition it asks for, its log message when its count is in range
  and the old one otherwise, and its count.

So `BeginSetBpCondition` is the abstract step, and every later step of
the request stutters. So does every step of LLDB's thread: it writes only
LLDB's ignore count and the ghost `outcome`.

`SettingsRefined == Abstract!Spec`, with
`Abstract == INSTANCE BreakpointSettings WITH sinfo <- AbsInfo, snat <- AbsNat`,
is a PROPERTY of the `hit` run. It shows that interleaving with hits never
makes the `BreakpointInfo`, or LLDB's native condition, end in a state no
whole request could produce.

What the abstraction leaves out is LLDB's ignore count. It is the one piece
of state the refinement cannot account for, and `hit_stale` shows where it
goes wrong.

### Session (+ MCSession, SessionProofs)

One session's life as the client and LLDB see it.

**State**

| variable | code |
|---|---|
| `connected`, `loopOn` | the client connection; whether `event_loop` still dispatches |
| `initialized`, `launchArgs`, `stopOnEntry`, `configured` | `DEBUG_initialize` ran; `launch_args`/`do_launch`; `stopOnEntry`; `configurationDone` ran |
| `launchResp` | the number of responses sent to the deferred launch or attach request |
| `hasProcess`, `launched` | `self.process` is valid; `process_launched` |
| `inferior` | the debuggee on LLDB's side: none, running, stopped, exited, detached |
| `epoch` | ghost: the number of stops so far; it names each stop |
| `pevents` | LLDB process state events waiting for the event loop |
| `refs` | `var_refs` abstracted to the stops its objects were read in |
| `view` | what the client was last told: running, stopped or ended |
| `stoppedSent` | ghost: the 'stopped' events sent while `epoch` had each value |
| `reqSeq`, `pending`, `called` | `request_seq`, the keys of `pending_requests`, and how often each callback ran |

**Actions**

* One action per request handler: `Initialize`, `LaunchOrAttach`,
  `DEBUG_configurationDone`, `Resume` (continue, next, stepIn, stepOut),
  `ReverseExec` (stepBack, reverseContinue), `ConsoleResumeCmd` (a
  resuming command typed in the console), `Pause`, `DEBUG_displaySettings`,
  `StackTrace`, `HandleResponse`, `DEBUG_disconnect`, and `ConnectionLost`
  (`handle_message(None)`).
* `DEBUG_configurationDone` includes what `do_launch` does: it fails (a
  UserError answered as the launch response), stops at entry (no LLDB
  event; configurationDone reports it), or runs. With `LaunchRace` the
  running debuggee may already be stopped at the `is_stopped` check.
  `SendRunInTerminal` is the `send_request` of `configure_stdio`.
* `DebuggeeStops` and `DebuggeeExits` are LLDB's side: the debuggee
  changes state on its own thread and an event is queued.
* `HandleStateEvent` is `handle_debugger_event` for a state change, in
  queue order.

**Assumptions and abstractions**

* The client follows the protocol: one launch or attach, configurationDone
  once, and resume or stackTrace only while it believes the debuggee is
  stopped (`view = "stopped"`).
* Thread ids, frames and stop reasons are not modelled. `notify_target_stopped`
  is modelled by what matters here: it reports the current stop.
* `ReverseDebugging` and `ConsoleResume` turn on the resume paths that skip
  `before_resume`; `LaunchRace` turns on the race in configurationDone.
* `mem_limit.enable()` (689), whose module is not under `src/`, is taken as
  never raising. If it raised after the `send_response` at 687, the
  `except` branch would answer the launch request a second time.
* Fairness: `WF_vars(HandleStateEvent)`. The event loop handles queued
  LLDB events between requests and never drops one while it runs. No
  fairness is assumed for the client or for the debuggee.
* `CHECK_DEADLOCK FALSE`: after disconnect the event loop stops and the
  session does nothing more, which is the intended end.

## 3. Runs

All runs use one file, lines {1, 2}, one function name, two exception
filter selections and at most 3 breakpoint ids (`MaxBp = 3`). This is
enough for:
* a request that deletes one line and creates another;
* a console breakpoint next to request breakpoints;
* an exception breakpoint recreated once.

`MaxBp = 4` grows the state space forty-fold (10.8M states) without
reaching new kinds of step.

| run | cfg | expect | shows |
|---|---|---|---|
| registry | MCBreakpointRegistry.cfg | pass | with `map_filespec_to_local` free to raise and a hitCondition that overflows `SetIgnoreCount`: TypeOK, InfoPaired, NoStaleAdded, ReconcileExact, LineSettingsReapplied (723,506 states) |
| registry_leak | MCBreakpointRegistryLeak.cfg | violation | NoOrphan: a new line breakpoint whose mapping raised (397), or whose hitCondition overflowed `SetIgnoreCount` (503), is never indexed and leaks |
| registry_fn_reapply | MCBreakpointRegistryFnReapply.cfg | violation | FnSettingsReapplied: reused function breakpoints keep old settings |
| registry_console | MCBreakpointRegistryConsole.cfg | violation | SetBreakpointsSucceeds: after a console delete the file's next setBreakpoints fails |

NoOrphan holds when no mapping raises (`MapRaises = FALSE`). That run is
left out so that the raising paths and the hit module fit in the run
budget: registry_leak shows the case where it fails.

### Breakpoint hit runs

Both use the inputs listed above and `MaxIgnore = 1`. One request can set
an ignore count, the next can drop it, and a hit can be in flight between
any two steps of a request.

| run | cfg | expect | shows |
|---|---|---|---|
| hit | MCBreakpointHit.cfg | pass | TypeOK and NoSpuriousStop: a clean hit, after a request that returned normally, stops only when the request's decision (spec 4.2: false condition, then log message, then stop; a raise stops) is to stop. SettingsRefined: the run implements BreakpointSettings under `AbsInfo`/`AbsNat` (580,381 states) |
| hit_stale | MCBreakpointHitStale.cfg | violation | OptionsApplied: hitCondition "1" then none leaves LLDB's ignore count at 1 (the reset at 479 does not touch LLDB) |

OptionsApplied is broken three ways. TLC shows the shortest. Restricting
the constants shows the others:
* `HitReqs` = {none}: the native condition of an earlier request stays
  set (477).
* `CondReqs` = {none, script} and `HitReqs` = {"0", "1"}: the race at
  606. A hit loads `ignore_count` = 1. A request for "0" then runs to its
  `SetIgnoreCount(0)`. The hit then stores the stale 1.

NoSpuriousStop only judges clean hits after a request that returned
normally. With a negative hitCondition the request fails after storing
-1 and before the log message and the callback. A tracepoint set that way
then halts on every hit. The request's error response is the only sign of
this.

### Session runs

All use `MaxStops = 3`: a stop at entry or after launch, a stop reported
late after a resume, and a pause. The runInTerminal request is sent at most
once, so `reqSeq` stays within 1..3.

| run | cfg | expect | shows |
|---|---|---|---|
| session | MCSession.cfg | pass | with the forward resume requests: TypeOK, HandlesCurrent, LaunchAnsweredOnce, CallbackOnce, and StopShown (a stopped debuggee is eventually shown stopped) (4,750 states) |
| session_all | MCSessionAll.cfg | pass | StopReported: with every option on, each stop of the debuggee is eventually reported by a 'stopped' event, unless a later stop supersedes it or the event loop stops; weak fairness on `HandleStateEvent` only |
| session_skip_reset | MCSessionSkipReset.cfg | violation | HandlesCurrent: stepBack, reverseContinue and console resume commands skip `before_resume` (the trace: stackTrace, then stepBack) |
| session_double_stop | MCSessionDoubleStop.cfg | violation | StoppedOnce: a stop before configurationDone's check is reported twice |

StoppedOnce has a second route that needs no race. Set `LaunchRace =
FALSE` in MCSessionDoubleStop.cfg and TLC finds it:
1. displaySettings fakes a stop while the debuggee runs.
2. The client continues while the debuggee's real Stopped event is still
   queued.
3. The client pauses.
4. The stale event reports the pause's stop, because
   `notify_target_stopped` reads the live process.
5. The pause's own event reports the same stop again.
| session_reverse_fail | MCSessionReverseFail.cfg | violation | StopShown: a failed reverse step answers success and sends no event, so the client shows "running" forever |
| session_connection_lost | MCSessionLost.cfg | violation | DebuggeeReleased: `DEBUG_disconnect(None)` raises before Kill or Detach |

No liveness property is checked for the registry. The registry has nothing that must
eventually happen beyond the end of a request, and every request ends by
construction of the split.

## 4. Proofs

`BreakpointRegistryProofs` proves `TypeCorrect: Spec => []TypeOK` for every
value of the constants allowed by `BRAssumption`.
* Lemmas:
  * `NotifyType`: appending an event keeps the queue typed;
  * `SetBpConditionType`: `set_bp_condition` keeps a `BreakpointInfo` well
    formed;
  * `IdleType`, `ReqStepType` and `EndRequestType`: the request record;
  * `NoInfoType`.
* `NextTypeOK` has one step per action. Under each step there is one
  sub-step per variable the action changes, and a `CASE` for each branch
  where the code raises or returns.

`SessionProofs` proves, for every value of the constants allowed by
`SessionAssumption`:
* `TypeCorrect: Spec => []TypeOK`. TypeOK alone is not inductive:
  `reqSeq <= 3` needs `NotStarted` (before configurationDone, `reqSeq = 1`,
  no process and no debuggee), because runInTerminal is sent only from the
  first configurationDone.
* `ForwardHandlesCurrent`: with `~ReverseDebugging` and `~ConsoleResume`,
  `Spec => []HandlesCurrent`. The inductive invariant `HandlesInv` adds
  that `refs` is empty while the debuggee is not stopped. So a new stop
  (`DebuggeeStops`, `Pause`, the first stop in configurationDone) always
  finds no handles, and `StackTrace` only adds the current stop.
* The proof of each step is split into the flags, the control state and
  the queues (`TypeBool`, `TypeCtl`, `TypeQueue`). Lemmas `AppendEvent`,
  `AppendRunStop`, `NotifyType` and `SendRunInTerminalType` cover the
  updates of the queues and counters.

`BreakpointQueueProofs` proves `NoStaleAddedHolds: Spec => []NoStaleAdded`
for every value of the constants allowed by `BRAssumption`. The inductive
invariant `QInv` adds four facts:
* `QuietRequests`: breakpoint events are disabled while a reconciliation
  runs, so only console commands queue events.
* `BackendUsed` and `FreshIds`: LLDB hands out ids in increasing order.
  Live breakpoints have ids below `nextId`, and no id from `nextId` on has
  a `BreakpointInfo`.
* `QIds`: queued events name ids below `nextId`.
* `QAddedOnce`: no two queued "added" events name the same id.

`QAddedOnce` is what makes the step of `HandleBreakpointEvent` go
through: registering the oldest "added" event's id leaves no other queued
"added" event for it. Four queue lemmas cover the queue operations:
`AppendAdded`, `AppendRemoved`, `HandleHead` and `InfoShrinks`.
`ShrinkStep` and `GrowStep` cover the actions that queue nothing.
TLC checked `QInv` on the four registry configurations before it was
proved.

`SessionProtocolProofs` proves the two protocol invariants the `session`
run checks, for every value of the constants:
* `LaunchAnsweredOnceHolds: Spec => []LaunchAnsweredOnce`;
* `CallbackOnceHolds: Spec => []CallbackOnce`.

Neither invariant is inductive as it stands, so the proofs strengthen it:
* `LaunchInv` adds that configurationDone has run only with launch_args
  set, and that set launch_args before configurationDone mean no response
  yet. A launch that fails at once is answered at once, and it leaves
  `launch_args` unset, which keeps configurationDone from answering again.
* `CallbackInv` adds that a pending entry's callback has not run, and that
  no callback has run for a `request_seq` not yet used. The entry
  `send_request` registers is therefore fresh.

TLC checked both strengthenings as invariants before they were proved.
`NextPInv` has one step each for launch/attach, configurationDone and
responses. The other actions leave the protocol's variables unchanged
(`ProtoUnchanged`).

`BreakpointPairProofs` proves `InfoPairedHolds: Spec => []InfoPaired`
for every value of the constants. It extends `QInv` to `PairInv`:
* `IdleLoud`: between requests, breakpoint events are enabled;
* `IndexUsed`: every id in the line or function index is below `nextId`;
* `PairOK`: for each id, three facts about the queue.
  * `Paired`: a `BreakpointInfo` means a live breakpoint or a queued
    "removed", and a live breakpoint means a `BreakpointInfo` or a queued
    "added".
  * `Gone`/`ThenRemoved`: an id with a queued "added" that is dead again
    has its "removed" queued after it.
  * `NotIndexed`: an id with a queued event is in neither index.

InfoPaired alone fails on a console "breakpoint delete" of a breakpoint
whose "added" is still queued. Handling the "added" registers a
`BreakpointInfo` for a dead breakpoint, and only the queued "removed"
after it restores the pairing. So the invariant has to say where the
events of one id sit in the queue. `NotIndexed` is what lets a
reconciliation delete an indexed id without meeting a queued event for
it. The lemmas:
* `QueueRec`, `PairAppendAdded`, `PairAppendRemoved`, `PairHandleHead`:
  the queue operations;
* `IdxShrink`, `IdxGrow`, `IdxKept`: the indexes;
* `DeletePair` and `CreatePair`: one deletion or creation of a
  reconciliation.

TLC checked `PairInv` on the registry configurations before it was
proved.

`BreakpointOrphanProofs` proves `NoOrphanHolds: NoRaise => (Spec =>
[]NoOrphan)`. `NoRaise` says that neither raise that can come between
registering a new line breakpoint (392) and indexing it (405) can happen:
`~MapRaises` (the mapping at 397) and no request setting with `ovf` (the
`OverflowError` at 503). `registry_leak` shows the orphan either raise
leaves, so the theorem needs both. The inductive invariant is `QInv /\ NoOrphan /\ AddedConsole`,
where `AddedConsole` says every queued "added" event is for a console
breakpoint. Without it, `HandleBreakpointEvent` could give a
`BreakpointInfo` to an unindexed breakpoint. It holds because of
`QuietRequests`. The lemmas `DeleteEntry` and `CreateEntry` carry the
index through one deletion or creation. TLC checked the invariant first
(335,609 states, `MapRaises = FALSE`, no `ovf` setting).

`BreakpointHitProofs` proves three theorems about the hit model for every
set of requests and every `MaxIgnore` allowed by `HitAssumption`. The
assumption is that conditions are among none/native/script/bad, and each
hitCondition is none, junk or an integer no larger than `MaxIgnore`.
Negative integers are allowed, because `int()` accepts them.
* `TypeCorrect: Spec => []TypeOK`. `info.ign` ranges over `IgnoreVals`:
  0, or any parsed hitCondition, including the negative ones
  `SetIgnoreCount` refuses after they are stored. LLDB's count stays in
  `0..MaxIgnore`, because `Uint32` guards every write to it.
* `NoSpuriousStopHolds: Spec => []NoSpuriousStop`. Its inductive
  invariant is `HInv`, which combines four parts:
  * `TypeOK`;
  * `SetInv`: what each step of `set_bp_condition` has written so far.
    - At `cond`/`ign` the info is reset.
    - Once the condition step has run (`CondDone`), the info's condition
      is the request's, and a native request has LLDB's condition set.
      The same holds for the count (`IgnDone`) and the log message
      (`LogDone`).
    - After a normal return, a missing callback means nothing is set.
  * `HitInv`: a clean hit in flight started while no request ran, so it
    saw LLDB's condition. A clean `store` holds the info's current
    count. A clean hit at `log` passed the script condition.
  * `OutInv`: while a request runs, the last outcome is not a clean
    decision.

  `NoSpuriousStop` alone is not inductive. A hit's decision depends on
  what the request wrote to the info and to LLDB at every step, so the
  invariant must say, per position of `setPc`, which of those writes
  have happened. `DecideStop` states the order of the checks in
  `should_stop_on_bp`. For the proof, `Decide` was written as an
  ordered IF chain: its earlier CASE form had overlapping arms, which
  TLA+ does not order.
* `SettingsRefinedHolds: Spec => SettingsRefined`. This is the
  refinement of `BreakpointSettings`, proved step by step:
  * `InitRefined`: `Init` maps to the abstract `Init`.
  * `NextRefined`: `HInv /\ [Next]_vars` implies the abstract step or a
    stutter of `<<AbsInfo, AbsNat>>`.
    - `BeginSetBpCondition(r)` is `Apply(ReqSettings(r))`, or
      `ApplyFails(ReqSettings(r))` when the count is negative. The reset
      of LLDB's condition is `NativeAfter`.
    - The steps in the middle of a request stutter (`AbsKept`).
    - Both ways back to idle stutter (`AbsReturn`): `SetCallback`, and
      the `OverflowError` step of `SetIgnoreCount`. This uses `SetInv`:
      by then the info already holds what the mapping promised.
    - The hit steps never touch `info`, `setPc`, `req` or LLDB's
      condition.

TLC checked `HInv` on the `hit` configuration (580,381 states) before it
was proved.

Out of TLAPS's reach, and left to TLC:
* liveness and ENABLED;
* what a recursive definition computes for all inputs;
* modules with RECURSIVE operators.

## 5. Plan

1. **Session, further.** The handle tree's structure (`HandleTree` from
   the spec, parent handles and `get`), `setVariable` and `scopes` against
   stale handles; exited and detached events after disconnect.
2. **Breakpoint hits, further.** A hit on a breakpoint a request deletes
   meanwhile. Several breakpoints at one location.
3. **Source Locator.** First-match rules, the cache and suppression, with a
   refinement to an abstract "resolve" function.
4. **Stop resolution** in `notify_target_stopped`, covering thread choice
   and exception reclassification.
5. **Hit model, further proofs.** An action property, e.g. that LLDB's
   ignore count is written only from the info's current count or the
   request's, and the refinement of the registry's view of a
   `BreakpointInfo` by `BreakpointHit`.
