------------------------ MODULE BreakpointQueueProofs ------------------------
(***************************************************************************)
(* Proof that no queued "added" breakpoint event finds a BreakpointInfo    *)
(* (NoStaleAdded), for every value of the constants that satisfies         *)
(* BRAssumption: handling it (notify_breakpoint's BreakpointInfo(bp_id))   *)
(* never wipes the settings a request gave the breakpoint.                 *)
(***************************************************************************)
EXTENDS BreakpointRegistryProofs

USE BRAssumption

(***************************************************************************)
(* Why it holds.  LLDB queues an event only while breakpoint events are    *)
(* enabled, and every reconciliation disables them (disable_bp_events) for *)
(* as long as it runs, so only console commands queue events.  Each        *)
(* "added" event is for a fresh id, one LLDB had not handed out before, so *)
(* no BreakpointInfo exists for it, and no two queued "added" events name  *)
(* the same id.  setExceptionBreakpoints creates its breakpoints with      *)
(* events disabled too, under ids above every queued one.                  *)
(***************************************************************************)
QuietRequests == req.cmd # "none" => ~bpEvents

\* LLDB hands out ids in increasing order: live breakpoints and queued
\* events name ids below nextId, and no id from nextId on has a
\* BreakpointInfo.
BackendUsed == \A id \in backend : id < nextId

FreshIds == \A id \in Ids : id >= nextId => ~bpInfo[id].has

\* The three facts about a queue q of events, for the queue lemmas.
QIds(q, n) == \A k \in 1 .. Len(q) : q[k].id < n

QAddedOnce(q) ==
    \A j, k \in 1 .. Len(q) :
        /\ q[j].type = "added" /\ q[k].type = "added"
        /\ q[j].id = q[k].id
        => j = k

QNoStale(q, info) ==
    \A k \in 1 .. Len(q) : q[k].type = "added" => ~info[q[k].id].has

QueueOK == QIds(events, nextId) /\ QAddedOnce(events) /\ QNoStale(events, bpInfo)

QInv == TypeOK /\ QuietRequests /\ BackendUsed /\ FreshIds /\ QueueOK

-----------------------------------------------------------------------------
(* The queue lemmas: what appending an event, and handling the oldest one, *)
(* do to the three facts.                                                  *)

\* Every queued event names a breakpoint id.
LEMMA QueueIds ==
    ASSUME NEW q \in Seq(Event)
    PROVE  \A k \in 1 .. Len(q) : q[k].id \in Ids /\ q[k].type \in {"added", "removed"}
<1>1. \A k \in 1 .. Len(q) : q[k] \in Event
  OBVIOUS
<1>2. QED
  BY <1>1 DEF Event

\* A console "breakpoint set" queues "added" for the fresh id n.
LEMMA AppendAdded ==
    ASSUME NEW q \in Seq(Event), NEW n \in Ids, NEW info \in [Ids -> InfoRec],
           QIds(q, n), QAddedOnce(q), QNoStale(q, info), ~info[n].has
    PROVE  LET q2 == Append(q, [type |-> "added", id |-> n])
           IN  QIds(q2, n + 1) /\ QAddedOnce(q2) /\ QNoStale(q2, info)
<1> DEFINE q2 == Append(q, [type |-> "added", id |-> n])
<1>1. Len(q2) = Len(q) + 1 /\ q2[Len(q) + 1] = [type |-> "added", id |-> n]
      /\ \A k \in 1 .. Len(q) : q2[k] = q[k]
  OBVIOUS
<1>2. \A k \in 1 .. Len(q) : q[k].id \in Ids /\ q[k].id < n
  BY QueueIds DEF QIds
<1>3. QIds(q2, n + 1)
  BY <1>1, <1>2 DEF QIds, Ids
<1>4. QAddedOnce(q2)
  <2> SUFFICES ASSUME NEW j \in 1 .. Len(q2), NEW k \in 1 .. Len(q2),
                      q2[j].type = "added", q2[k].type = "added",
                      q2[j].id = q2[k].id
               PROVE  j = k
    BY DEF QAddedOnce
  <2>1. CASE j <= Len(q) /\ k <= Len(q)
    BY <1>1, <2>1 DEF QAddedOnce
  <2>2. CASE j = Len(q) + 1 /\ k <= Len(q)
    <3>1. q2[j].id = n
      BY <1>1, <2>2
    <3>2. k \in 1 .. Len(q)
      BY <2>2
    <3>3. q2[k].id = q[k].id /\ q[k].id < n
      BY <1>1, <1>2, <3>2
    <3>4. QED
      BY <3>1, <3>3 DEF Ids
  <2>3. CASE k = Len(q) + 1 /\ j <= Len(q)
    <3>1. q2[k].id = n
      BY <1>1, <2>3
    <3>2. j \in 1 .. Len(q)
      BY <2>3
    <3>3. q2[j].id = q[j].id /\ q[j].id < n
      BY <1>1, <1>2, <3>2
    <3>4. QED
      BY <3>1, <3>3 DEF Ids
  <2>4. QED
    BY <1>1, <2>1, <2>2, <2>3
<1>5. QNoStale(q2, info)
  BY <1>1 DEF QNoStale
<1>6. QED
  BY <1>3, <1>4, <1>5

\* A "removed" event for an id below n keeps the three facts.
LEMMA AppendRemoved ==
    ASSUME NEW q \in Seq(Event), NEW n \in Nat, NEW id \in Ids, id < n,
           NEW info, QIds(q, n), QAddedOnce(q), QNoStale(q, info)
    PROVE  LET q2 == Append(q, [type |-> "removed", id |-> id])
           IN  QIds(q2, n) /\ QAddedOnce(q2) /\ QNoStale(q2, info)
<1> DEFINE q2 == Append(q, [type |-> "removed", id |-> id])
<1>1. Len(q2) = Len(q) + 1 /\ q2[Len(q) + 1] = [type |-> "removed", id |-> id]
      /\ \A k \in 1 .. Len(q) : q2[k] = q[k]
  OBVIOUS
<1>2. QIds(q2, n)
  BY <1>1 DEF QIds
<1>3. QAddedOnce(q2)
  BY <1>1 DEF QAddedOnce
<1>4. QNoStale(q2, info)
  BY <1>1 DEF QNoStale
<1>5. QED
  BY <1>2, <1>3, <1>4

\* notify_breakpoint handles the oldest event: BreakpointInfo(bp_id) for
\* "added", del self.breakpoints[bp_id] for "removed".
LEMMA HandleHead ==
    ASSUME NEW q \in Seq(Event), q # << >>, NEW n, NEW info \in [Ids -> InfoRec],
           QIds(q, n), QAddedOnce(q), QNoStale(q, info)
    PROVE  LET info2 == [info EXCEPT ![Head(q).id] =
                           IF Head(q).type = "added" THEN NewInfo ELSE NoInfo]
           IN  QIds(Tail(q), n) /\ QAddedOnce(Tail(q)) /\ QNoStale(Tail(q), info2)
<1> DEFINE info2 == [info EXCEPT ![Head(q).id] =
                       IF Head(q).type = "added" THEN NewInfo ELSE NoInfo]
<1>1. Len(Tail(q)) = Len(q) - 1 /\ Len(q) >= 1
      /\ \A k \in 1 .. Len(q) - 1 : Tail(q)[k] = q[k + 1]
      /\ Head(q) = q[1]
  OBVIOUS
<1>2. QIds(Tail(q), n)
  BY <1>1 DEF QIds
<1>3. QAddedOnce(Tail(q))
  BY <1>1 DEF QAddedOnce
<1>4. QNoStale(Tail(q), info2)
  <2> SUFFICES ASSUME NEW k \in 1 .. Len(q) - 1, q[k + 1].type = "added"
               PROVE  ~info2[q[k + 1].id].has
    BY <1>1 DEF QNoStale
  <2>1. q[k + 1].id \in Ids /\ q[1].id \in Ids /\ q[1].type \in {"added", "removed"}
    BY <1>1, QueueIds
  <2>2. ~info[q[k + 1].id].has
    BY <1>1 DEF QNoStale
  <2>3. CASE q[1].type = "added"
    <3>1. q[1].id # q[k + 1].id
      BY <1>1, <2>3 DEF QAddedOnce
    <3>2. QED
      BY <1>1, <2>1, <2>2, <3>1
  <2>4. CASE q[1].type = "removed"
    BY <1>1, <2>1, <2>2, <2>4 DEF NoInfo
  <2>5. QED
    BY <2>1, <2>3, <2>4
<1>5. QED
  BY <1>2, <1>3, <1>4

\* A step that gives no breakpoint below n a BreakpointInfo it did not have
\* keeps the queued "added" events stale-free.
LEMMA InfoShrinks ==
    ASSUME NEW q \in Seq(Event), NEW n, NEW info, NEW info2,
           QIds(q, n), QNoStale(q, info),
           \A id \in Ids : id < n /\ info2[id].has => info[id].has
    PROVE  QNoStale(q, info2)
BY QueueIds DEF QIds, QNoStale

-----------------------------------------------------------------------------
(* The steps of the registry.                                              *)

\* A step that queues nothing, hands out no id and gives no breakpoint a
\* BreakpointInfo (deletions, updates, the start and end of a request).
LEMMA ShrinkStep ==
    ASSUME TypeOK, BackendUsed, FreshIds, QueueOK,
           events' = events, nextId' = nextId, backend' \subseteq backend,
           \A id \in Ids : bpInfo'[id].has => bpInfo[id].has
    PROVE  BackendUsed' /\ FreshIds' /\ QueueOK'
<1>1. QNoStale(events, bpInfo')
  BY InfoShrinks DEF QueueOK, TypeOK
<1>2. QED
  BY <1>1 DEF BackendUsed, FreshIds, QueueOK

\* A step that creates breakpoint nextId with events disabled.
LEMMA GrowStep ==
    ASSUME TypeOK, BackendUsed, FreshIds, QueueOK,
           events' = events, nextId <= MaxBp, nextId' = nextId + 1,
           backend' = backend \cup {nextId},
           \A id \in Ids : id # nextId => bpInfo'[id] = bpInfo[id]
    PROVE  BackendUsed' /\ FreshIds' /\ QueueOK'
<1>1. nextId \in Nat
  BY DEF TypeOK
<1>2. BackendUsed'
  BY <1>1 DEF BackendUsed, TypeOK, Ids
<1>3. FreshIds'
  BY <1>1 DEF FreshIds, Ids
<1>4. QIds(events', nextId') /\ QAddedOnce(events')
  BY <1>1, QueueIds DEF QueueOK, QIds, TypeOK
<1>5. QNoStale(events', bpInfo')
  <2>1. \A id \in Ids : id < nextId /\ bpInfo'[id].has => bpInfo[id].has
    BY <1>1 DEF Ids
  <2>2. QNoStale(events, bpInfo')
    BY <2>1, InfoShrinks DEF QueueOK, TypeOK
  <2>3. QED
    BY <2>2
<1>6. QED
  BY <1>2, <1>3, <1>4, <1>5 DEF QueueOK

\* A handler's end leaves no request running.
LEMMA EndQuiet ==
    ASSUME NEW cmd, NEW ok, EndRequest(cmd, ok)
    PROVE  QuietRequests'
BY IdleType DEF EndRequest, QuietRequests

\* set_bp_condition leaves the entry in self.breakpoints.
LEMMA SetBpConditionHas ==
    ASSUME NEW i \in InfoRec, NEW s
    PROVE  /\ SetBpConditionInfo(i, s).has = i.has
           /\ SetBpConditionFailsInfo(i, s).has = i.has
BY DEF SetBpConditionInfo, SetBpConditionFailsInfo, InfoRec

LEMMA InitQInv == Init => QInv
<1> SUFFICES ASSUME Init PROVE QInv
  OBVIOUS
<1>1. TypeOK
  BY InitTypeOK
<1>2. QuietRequests /\ BackendUsed /\ FreshIds
  BY IdleType DEF Init, QuietRequests, BackendUsed, FreshIds, NoInfo
<1>3. QueueOK
  BY DEF Init, QueueOK, QIds, QAddedOnce, QNoStale
<1>4. QED
  BY <1>1, <1>2, <1>3 DEF QInv

LEMMA NextQInv == QInv /\ [Next]_vars => QInv'
<1> SUFFICES ASSUME TypeOK, QuietRequests, BackendUsed, FreshIds, QueueOK,
                    [Next]_vars
             PROVE  QuietRequests' /\ BackendUsed' /\ FreshIds' /\ QueueOK'
  BY NextTypeOK DEF QInv
<1>0. /\ events \in Seq(Event) /\ bpInfo \in [Ids -> InfoRec]
      /\ nextId \in 1 .. MaxBp + 1 /\ ReqOK(req) /\ backend \subseteq Ids
  BY DEF TypeOK
\* While a reconciliation runs, LLDB queues nothing.
<1>q. ASSUME NEW t, NEW id, req.cmd # "none" PROVE Notify(t, id) = events
  BY <1>q DEF QuietRequests, Notify
<1>1. ASSUME NEW f \in Files, NEW L \in SUBSET Lines,
             NEW r \in [L -> ReqSettings], SetBreakpointsStart(f, r)
      PROVE  QuietRequests' /\ BackendUsed' /\ FreshIds' /\ QueueOK'
  <2>1. QuietRequests'
    BY <1>1 DEF SetBreakpointsStart, QuietRequests
  <2>2. QED
    BY <1>1, <2>1, ShrinkStep DEF SetBreakpointsStart
<1>2. ASSUME NEW l \in Lines, SetBreakpointsDelete(l)
      PROVE  QuietRequests' /\ BackendUsed' /\ FreshIds' /\ QueueOK'
  <2> DEFINE id == lineBps[req.file][l]
  <2>1. req.cmd = "setBreakpoints"
    BY <1>2 DEF SetBreakpointsDelete
  <2>2. events' = events
    BY <1>2, <2>1, <1>q DEF SetBreakpointsDelete
  <2>3. \A i \in Ids : bpInfo'[i].has => bpInfo[i].has
    BY <1>0, <1>2 DEF SetBreakpointsDelete, NoInfo
  <2>4. QuietRequests'
    <3>1. CASE bpInfo[id].has
      BY <1>2, <2>1, <3>1 DEF SetBreakpointsDelete, QuietRequests
    <3>2. CASE ~bpInfo[id].has
      BY <1>2, <3>2, EndQuiet DEF SetBreakpointsDelete
    <3>3. QED
      BY <3>1, <3>2
  <2>5. QED
    BY <1>2, <2>2, <2>3, <2>4, ShrinkStep DEF SetBreakpointsDelete
<1>3. ASSUME NEW l \in Lines, SetBreakpointsUpdate(l)
      PROVE  QuietRequests' /\ BackendUsed' /\ FreshIds' /\ QueueOK'
  <2> DEFINE id == lineBps[req.file][l]
             s == req.args[l]
  <2>1. req.cmd = "setBreakpoints"
    BY <1>3 DEF SetBreakpointsUpdate
  <2>2. CASE id \in backend /\ bpInfo[id].has
    <3>1. \A i \in Ids : bpInfo'[i].has => bpInfo[i].has
      BY <1>0, <1>3, <2>2, SetBpConditionHas DEF SetBreakpointsUpdate
    <3>2. QuietRequests'
      <4>1. CASE s.ovf
        BY <1>3, <2>2, <4>1, EndQuiet DEF SetBreakpointsUpdate
      <4>2. CASE ~s.ovf
        BY <1>3, <2>1, <2>2, <4>2 DEF SetBreakpointsUpdate, QuietRequests
      <4>3. QED
        BY <4>1, <4>2
    <3>3. QED
      BY <1>3, <2>2, <3>1, <3>2, ShrinkStep DEF SetBreakpointsUpdate
  <2>3. CASE ~(id \in backend /\ bpInfo[id].has)
    <3>1. QuietRequests'
      BY <1>3, <2>3, EndQuiet DEF SetBreakpointsUpdate
    <3>2. QED
      BY <1>3, <2>3, <3>1, ShrinkStep DEF SetBreakpointsUpdate
  <2>4. QED
    BY <2>2, <2>3
<1>4. ASSUME NEW l \in Lines, SetBreakpointsCreate(l)
      PROVE  QuietRequests' /\ BackendUsed' /\ FreshIds' /\ QueueOK'
  <2>1. req.cmd = "setBreakpoints"
    BY <1>4 DEF SetBreakpointsCreate
  <2>2. events' = events
    BY <1>4, <2>1, <1>q DEF SetBreakpointsCreate
  <2>3. \A i \in Ids : i # nextId => bpInfo'[i] = bpInfo[i]
    BY <1>0, <1>4 DEF SetBreakpointsCreate
  <2>4. QuietRequests'
    BY <1>4, <2>1, EndQuiet DEF SetBreakpointsCreate, QuietRequests
  <2>5. QED
    BY <1>4, <2>2, <2>3, <2>4, GrowStep DEF SetBreakpointsCreate
<1>5. CASE SetBreakpointsDone
  BY <1>5, EndQuiet, ShrinkStep DEF SetBreakpointsDone
<1>6. ASSUME NEW N \in SUBSET FnNames, NEW r \in [N -> ReqSettings],
             SetFunctionBreakpointsStart(r)
      PROVE  QuietRequests' /\ BackendUsed' /\ FreshIds' /\ QueueOK'
  <2>1. QuietRequests'
    BY <1>6 DEF SetFunctionBreakpointsStart, QuietRequests
  <2>2. QED
    BY <1>6, <2>1, ShrinkStep DEF SetFunctionBreakpointsStart
<1>7. ASSUME NEW n \in FnNames, SetFunctionBreakpointsDelete(n)
      PROVE  QuietRequests' /\ BackendUsed' /\ FreshIds' /\ QueueOK'
  <2>1. req.cmd = "setFunctionBreakpoints"
    BY <1>7 DEF SetFunctionBreakpointsDelete
  <2>2. events' = events
    BY <1>7, <2>1, <1>q DEF SetFunctionBreakpointsDelete
  <2>3. \A i \in Ids : bpInfo'[i].has => bpInfo[i].has
    BY <1>0, <1>7 DEF SetFunctionBreakpointsDelete, NoInfo
  <2>4. QuietRequests'
    <3>1. CASE bpInfo[fnBps[n]].has
      BY <1>7, <2>1, <3>1 DEF SetFunctionBreakpointsDelete, QuietRequests
    <3>2. CASE ~bpInfo[fnBps[n]].has
      BY <1>7, <3>2, EndQuiet DEF SetFunctionBreakpointsDelete
    <3>3. QED
      BY <3>1, <3>2
  <2>5. QED
    BY <1>7, <2>2, <2>3, <2>4, ShrinkStep DEF SetFunctionBreakpointsDelete
<1>8. ASSUME NEW n \in FnNames, SetFunctionBreakpointsKeep(n)
      PROVE  QuietRequests' /\ BackendUsed' /\ FreshIds' /\ QueueOK'
  <2>1. QuietRequests'
    BY <1>8, EndQuiet DEF SetFunctionBreakpointsKeep, QuietRequests
  <2>2. QED
    BY <1>8, <2>1, ShrinkStep DEF SetFunctionBreakpointsKeep
<1>9. ASSUME NEW n \in FnNames, SetFunctionBreakpointsCreate(n)
      PROVE  QuietRequests' /\ BackendUsed' /\ FreshIds' /\ QueueOK'
  <2>1. req.cmd = "setFunctionBreakpoints"
    BY <1>9 DEF SetFunctionBreakpointsCreate
  <2>2. events' = events
    BY <1>9, <2>1, <1>q DEF SetFunctionBreakpointsCreate
  <2>3. \A i \in Ids : i # nextId => bpInfo'[i] = bpInfo[i]
    BY <1>0, <1>9 DEF SetFunctionBreakpointsCreate
  <2>4. QuietRequests'
    BY <1>9, <2>1, EndQuiet DEF SetFunctionBreakpointsCreate, QuietRequests
  <2>5. QED
    BY <1>9, <2>2, <2>3, <2>4, GrowStep DEF SetFunctionBreakpointsCreate
<1>10. CASE SetFunctionBreakpointsDone
  BY <1>10, EndQuiet, ShrinkStep DEF SetFunctionBreakpointsDone
<1>11. ASSUME NEW fs \in Filters, SetExceptionBreakpoints(fs)
       PROVE  QuietRequests' /\ BackendUsed' /\ FreshIds' /\ QueueOK'
  <2> DEFINE old == {id \in Ids : bpInfo[id].has /\ bpInfo[id].exc}
             new == nextId .. (nextId + NumExceptionBps(fs) - 1)
  <2>1. NumExceptionBps(fs) \in Nat /\ nextId' = nextId + NumExceptionBps(fs)
    BY <1>11 DEF NumExceptionBps, SetExceptionBreakpoints
  <2>2. /\ backend' = (backend \ old) \cup new
        /\ \A i \in Ids : bpInfo'[i] = IF i \in new THEN [NewInfo EXCEPT !.exc = TRUE]
                                      ELSE IF i \in old THEN NoInfo ELSE bpInfo[i]
        /\ UNCHANGED <<events, req, bpEvents>>
    BY <1>11 DEF SetExceptionBreakpoints
  <2>3. QuietRequests'
    BY <2>2 DEF QuietRequests
  <2>4. BackendUsed'
    BY <1>0, <2>1, <2>2 DEF BackendUsed, Ids
  <2>5. FreshIds'
    BY <1>0, <2>1, <2>2 DEF FreshIds, NoInfo, Ids
  <2>6. QIds(events', nextId') /\ QAddedOnce(events')
    BY <1>0, <2>1, <2>2, QueueIds DEF QueueOK, QIds, Ids
  <2>7. QNoStale(events', bpInfo')
    <3>1. \A i \in Ids : i < nextId /\ bpInfo'[i].has => bpInfo[i].has
      BY <1>0, <2>2 DEF NoInfo, Ids
    <3>2. QNoStale(events, bpInfo')
      BY <1>0, <3>1, InfoShrinks DEF QueueOK
    <3>3. QED
      BY <2>2, <3>2
  <2>8. QED
    BY <2>3, <2>4, <2>5, <2>6, <2>7 DEF QueueOK
<1>12. CASE ConsoleCreate
  <2>1. /\ req.cmd = "none" /\ nextId <= MaxBp /\ nextId' = nextId + 1
        /\ backend' = backend \cup {nextId} /\ UNCHANGED <<bpInfo, req, bpEvents>>
        /\ events' = Notify("added", nextId)
    BY <1>12 DEF ConsoleCreate
  <2>2. QuietRequests'
    BY <2>1 DEF QuietRequests
  <2>3. CASE ~bpEvents
    BY <2>1, <2>2, <2>3, GrowStep DEF Notify
  <2>4. CASE bpEvents
    <3>1. nextId \in Ids /\ ~bpInfo[nextId].has
      BY <1>0, <2>1 DEF FreshIds, Ids
    <3>2. events' = Append(events, [type |-> "added", id |-> nextId])
      BY <2>1, <2>4 DEF Notify
    <3>3. QueueOK'
      BY <1>0, <2>1, <3>1, <3>2, AppendAdded DEF QueueOK
    <3>4. BackendUsed' /\ FreshIds'
      BY <1>0, <2>1 DEF BackendUsed, FreshIds, Ids
    <3>5. QED
      BY <2>2, <3>3, <3>4
  <2>5. QED
    BY <2>3, <2>4
<1>13. ASSUME NEW id \in Ids, ConsoleDelete(id)
       PROVE  QuietRequests' /\ BackendUsed' /\ FreshIds' /\ QueueOK'
  <2>1. /\ req.cmd = "none" /\ id \in backend /\ backend' = backend \ {id}
        /\ UNCHANGED <<bpInfo, req, bpEvents, nextId>>
        /\ events' = Notify("removed", id)
    BY <1>13 DEF ConsoleDelete
  <2>2. QuietRequests' /\ BackendUsed' /\ FreshIds'
    BY <2>1 DEF QuietRequests, BackendUsed, FreshIds
  <2>3. CASE ~bpEvents
    BY <2>1, <2>2, <2>3 DEF Notify, QueueOK
  <2>4. CASE bpEvents
    <3>1. id < nextId /\ nextId \in Nat
      BY <1>0, <2>1 DEF BackendUsed
    <3>2. events' = Append(events, [type |-> "removed", id |-> id])
      BY <2>1, <2>4 DEF Notify
    <3>3. QueueOK'
      BY <1>0, <2>1, <3>1, <3>2, AppendRemoved DEF QueueOK
    <3>4. QED
      BY <2>2, <3>3
  <2>5. QED
    BY <2>2, <2>3, <2>4
<1>14. CASE HandleBreakpointEvent
  <2>1. /\ req.cmd = "none" /\ events # << >> /\ events' = Tail(events)
        /\ bpInfo' = [bpInfo EXCEPT ![Head(events).id] =
                        IF Head(events).type = "added" THEN NewInfo ELSE NoInfo]
        /\ UNCHANGED <<backend, nextId, req, bpEvents>>
    BY <1>14 DEF HandleBreakpointEvent
  <2>2. QueueOK'
    BY <1>0, <2>1, HandleHead DEF QueueOK
  <2>3. Head(events).id < nextId
    BY <1>0, <2>1 DEF QueueOK, QIds
  <2>4. FreshIds'
    BY <1>0, <2>1, <2>3 DEF FreshIds, Ids
  <2>5. QED
    BY <2>1, <2>2, <2>4 DEF QuietRequests, BackendUsed
<1>15. CASE UNCHANGED vars
  BY <1>15 DEF vars, QuietRequests, BackendUsed, FreshIds, QueueOK, QIds,
               QAddedOnce, QNoStale
<1>16. QED
  BY <1>1, <1>2, <1>3, <1>4, <1>5, <1>6, <1>7, <1>8, <1>9, <1>10, <1>11,
     <1>12, <1>13, <1>14, <1>15 DEF Next

-----------------------------------------------------------------------------
\* notify_breakpoint never handles an "added" event for a breakpoint that
\* already has a BreakpointInfo, so it never replaces the condition, log
\* message, ignore count or exception flag a request set: for every value
\* of the constants, because every reconciliation runs with breakpoint
\* events disabled and LLDB never reuses an id.
THEOREM NoStaleAddedHolds == Spec => []NoStaleAdded
<1>1. Init => QInv
  BY InitQInv
<1>2. QInv /\ [Next]_vars => QInv'
  BY NextQInv
<1>3. QInv => NoStaleAdded
  BY DEF QInv, QueueOK, QNoStale, NoStaleAdded
<1>4. QED
  BY <1>1, <1>2, <1>3, PTL DEF Spec

=============================================================================
