----------------------- MODULE BreakpointOrphanProofs -----------------------
(***************************************************************************)
(* Proof that the adapter loses no breakpoint it created (NoOrphan) when   *)
(* no step between creating a line breakpoint and indexing it can raise:   *)
(* mapping a resolved location to a local path (397), and set_bp_condition *)
(* with an out-of-range hitCondition (503).  The registry_leak run shows    *)
(* the converse: either exception leaves the breakpoint out of file_bps.   *)
(***************************************************************************)
EXTENDS BreakpointQueueProofs

USE BRAssumption

(***************************************************************************)
(* Why it holds.  Every breakpoint a request creates is indexed in the     *)
(* same step (file_bps[line] = bp_id, fn_breakpoints[name] = bp_id) unless *)
(* the mapping raises; exception breakpoints carry exception_bp; a console *)
(* "breakpoint set" is in consoleMade.  notify_breakpoint gives a fresh    *)
(* BreakpointInfo only to the id of a queued "added" event, and since every *)
(* reconciliation runs with events disabled, only the console queues them. *)
(***************************************************************************)
AddedConsole ==
    \A k \in 1 .. Len(events) :
        events[k].type = "added" => events[k].id \in consoleMade

OInv == QInv /\ NoOrphan /\ AddedConsole

\* Neither exception that can end DEBUG_setBreakpoints between
\* BreakpointCreateByLocation and file_bps[line] = bp_id can occur: the
\* mapping does not raise, and no request carries a hitCondition that
\* SetIgnoreCount refuses.
NoRaise == ~MapRaises /\ \A s \in ReqSettings : ~s.ovf

\* The variables the two facts are about.
orphanVars == <<backend, bpInfo, lineBps, fnBps, consoleMade, events>>

-----------------------------------------------------------------------------
LEMMA OrphanUnchanged ==
    ASSUME NoOrphan, AddedConsole, UNCHANGED orphanVars
    PROVE  NoOrphan' /\ AddedConsole'
BY DEF NoOrphan, AddedConsole, Indexed, orphanVars

\* set_bp_condition keeps the exception_bp flag.
LEMMA SetBpConditionExc ==
    ASSUME NEW i \in InfoRec, NEW s
    PROVE  /\ SetBpConditionInfo(i, s).exc = i.exc
           /\ SetBpConditionFailsInfo(i, s).exc = i.exc
BY DEF SetBpConditionInfo, SetBpConditionFailsInfo, InfoRec

\* A step that leaves the indexes, the queue and consoleMade alone, shrinks
\* the target and gives no breakpoint a BreakpointInfo, or the
\* exception_bp flag's absence, that it did not have.
LEMMA OrphanShrink ==
    ASSUME NoOrphan, AddedConsole,
           UNCHANGED <<lineBps, fnBps, consoleMade, events>>,
           backend' \subseteq backend,
           \A i \in backend' : bpInfo'[i].has /\ ~bpInfo'[i].exc
                                 => bpInfo[i].has /\ ~bpInfo[i].exc
    PROVE  NoOrphan' /\ AddedConsole'
BY DEF NoOrphan, AddedConsole, Indexed

\* Deleting the index entry of breakpoint id, together with the breakpoint,
\* leaves every other breakpoint indexed as it was.
LEMMA DeleteEntry ==
    ASSUME NoOrphan, AddedConsole, TypeOK, NEW id,
           UNCHANGED <<consoleMade, events>>,
           backend' \subseteq backend \ {id},
           \A i \in backend' : bpInfo'[i] = bpInfo[i],
           \A i \in Ids : i # id =>
               \A f \in Files, l \in Lines : lineBps[f][l] = i => lineBps'[f][l] = i,
           \A i \in Ids : i # id => \A n \in FnNames : fnBps[n] = i => fnBps'[n] = i
    PROVE  NoOrphan' /\ AddedConsole'
<1>1. NoOrphan'
  <2> SUFFICES ASSUME NEW i \in backend', bpInfo'[i].has, ~bpInfo'[i].exc
               PROVE  Indexed(i)' \/ i \in consoleMade'
    BY DEF NoOrphan
  <2>1. i \in backend /\ i # id /\ i \in Ids
    BY DEF TypeOK
  <2>2. Indexed(i) \/ i \in consoleMade
    BY <2>1 DEF NoOrphan
  <2>3. QED
    BY <2>1, <2>2 DEF Indexed
<1>2. QED
  BY <1>1 DEF AddedConsole

\* Creating breakpoint id (with events disabled) and indexing it keeps
\* every other breakpoint indexed.
LEMMA CreateEntry ==
    ASSUME NoOrphan, AddedConsole, TypeOK, NEW id,
           UNCHANGED <<consoleMade, events>>,
           backend' = backend \cup {id},
           \/ \E f \in Files, l \in Lines : lineBps'[f][l] = id
           \/ \E n \in FnNames : fnBps'[n] = id,
           \A i \in backend : bpInfo'[i] = bpInfo[i],
           \A i \in backend :
               \A f \in Files, l \in Lines : lineBps[f][l] = i => lineBps'[f][l] = i,
           \A i \in backend : \A n \in FnNames : fnBps[n] = i => fnBps'[n] = i
    PROVE  NoOrphan' /\ AddedConsole'
<1>1. NoOrphan'
  <2> SUFFICES ASSUME NEW i \in backend', bpInfo'[i].has, ~bpInfo'[i].exc
               PROVE  Indexed(i)' \/ i \in consoleMade'
    BY DEF NoOrphan
  <2>1. CASE i = id
    BY <2>1 DEF Indexed
  <2>2. CASE i \in backend
    <3>1. Indexed(i) \/ i \in consoleMade
      BY <2>2 DEF NoOrphan
    <3>2. CASE \E f \in Files, l \in Lines : lineBps[f][l] = i
      <4>1. PICK f \in Files, l \in Lines : lineBps[f][l] = i
        BY <3>2
      <4>2. lineBps'[f][l] = i
        BY <2>2, <4>1
      <4>3. QED
        BY <4>2 DEF Indexed
    <3>3. CASE \E n \in FnNames : fnBps[n] = i
      <4>1. PICK n \in FnNames : fnBps[n] = i
        BY <3>3
      <4>2. fnBps'[n] = i
        BY <2>2, <4>1
      <4>3. QED
        BY <4>2 DEF Indexed
    <3>4. QED
      BY <3>1, <3>2, <3>3 DEF Indexed
  <2>3. QED
    BY <2>1, <2>2
<1>2. QED
  BY <1>1 DEF AddedConsole

\* Queueing an event keeps every queued "added" event a console one, when
\* an "added" event names a breakpoint in the new consoleMade.
LEMMA AppendConsole ==
    ASSUME NEW q \in Seq(Event), NEW C, NEW C2, C \subseteq C2,
           NEW e \in Event, e.type = "added" => e.id \in C2,
           \A k \in 1 .. Len(q) : q[k].type = "added" => q[k].id \in C
    PROVE  \A k \in 1 .. Len(Append(q, e)) :
               Append(q, e)[k].type = "added" => Append(q, e)[k].id \in C2
<1>1. Len(Append(q, e)) = Len(q) + 1 /\ Append(q, e)[Len(q) + 1] = e
      /\ \A k \in 1 .. Len(q) : Append(q, e)[k] = q[k]
  OBVIOUS
<1>2. QED
  BY <1>1

\* notify_breakpoint takes the oldest event off the queue.
LEMMA TailConsole ==
    ASSUME NEW q \in Seq(Event), q # << >>, NEW C,
           \A k \in 1 .. Len(q) : q[k].type = "added" => q[k].id \in C
    PROVE  /\ \A k \in 1 .. Len(Tail(q)) :
                  Tail(q)[k].type = "added" => Tail(q)[k].id \in C
           /\ Head(q).type = "added" => Head(q).id \in C
<1>1. Len(Tail(q)) = Len(q) - 1 /\ Len(q) >= 1 /\ Head(q) = q[1]
      /\ \A k \in 1 .. Len(q) - 1 : Tail(q)[k] = q[k + 1]
  OBVIOUS
<1>2. QED
  BY <1>1

LEMMA InitOInv == Init => OInv
<1> SUFFICES ASSUME Init PROVE OInv
  OBVIOUS
<1>1. QInv
  BY InitQInv
<1>2. NoOrphan /\ AddedConsole
  BY DEF Init, NoOrphan, AddedConsole
<1>3. QED
  BY <1>1, <1>2 DEF OInv

LEMMA NextOInv == NoRaise /\ OInv /\ [Next]_vars => OInv'
<1> SUFFICES ASSUME NoRaise, QInv, NoOrphan, AddedConsole, [Next]_vars
             PROVE  NoOrphan' /\ AddedConsole'
  BY NextQInv DEF OInv
<1>0. /\ TypeOK /\ QuietRequests /\ BackendUsed
      /\ events \in Seq(Event) /\ bpInfo \in [Ids -> InfoRec]
      /\ nextId \in 1 .. MaxBp + 1 /\ ReqOK(req) /\ backend \subseteq Ids
      /\ lineBps \in [Files -> [Lines -> IdOrNone]]
      /\ fnBps \in [FnNames -> IdOrNone]
  BY DEF QInv, TypeOK
<1>q. ASSUME NEW t, NEW id, req.cmd # "none" PROVE Notify(t, id) = events
  BY <1>q, <1>0 DEF QuietRequests, Notify
<1>1. ASSUME NEW f \in Files, NEW L \in SUBSET Lines,
             NEW r \in [L -> ReqSettings], SetBreakpointsStart(f, r)
      PROVE  NoOrphan' /\ AddedConsole'
  BY <1>1, OrphanUnchanged DEF SetBreakpointsStart, orphanVars
<1>2. ASSUME NEW l \in Lines, SetBreakpointsDelete(l)
      PROVE  NoOrphan' /\ AddedConsole'
  <2> DEFINE f == req.file
             id == lineBps[f][l]
  <2>1. req.cmd = "setBreakpoints" /\ f \in Files
    BY <1>0, <1>2 DEF SetBreakpointsDelete, ReqOK
  <2>2. events' = events /\ UNCHANGED <<consoleMade, fnBps>>
    BY <1>2, <2>1, <1>q DEF SetBreakpointsDelete
  <2>3. backend' \subseteq backend \ {id} /\ \A i \in backend' : bpInfo'[i] = bpInfo[i]
    BY <1>0, <1>2 DEF SetBreakpointsDelete
  <2>4. lineBps' = [lineBps EXCEPT ![f][l] = NoBp]
    BY <1>2 DEF SetBreakpointsDelete
  <2>5. \A i \in Ids : i # id =>
            \A f2 \in Files, l2 \in Lines : lineBps[f2][l2] = i => lineBps'[f2][l2] = i
    BY <1>0, <2>1, <2>4
  <2>6. \A i \in Ids : i # id => \A n \in FnNames : fnBps[n] = i => fnBps'[n] = i
    BY <2>2
  <2>7. QED
    BY <1>0, <2>2, <2>3, <2>5, <2>6, DeleteEntry
<1>3. ASSUME NEW l \in Lines, SetBreakpointsUpdate(l)
      PROVE  NoOrphan' /\ AddedConsole'
  <2> DEFINE id == lineBps[req.file][l]
             s == req.args[l]
  <2>1. UNCHANGED <<backend, lineBps, fnBps, consoleMade, events>>
    BY <1>3 DEF SetBreakpointsUpdate
  <2>2. CASE id \in backend /\ bpInfo[id].has
    <3>1. \/ bpInfo' = [bpInfo EXCEPT ![id] = SetBpConditionInfo(bpInfo[id], s)]
          \/ bpInfo' = [bpInfo EXCEPT ![id] = SetBpConditionFailsInfo(bpInfo[id], s)]
      BY <1>3, <2>2 DEF SetBreakpointsUpdate
    <3>2. id \in Ids /\ bpInfo[id] \in InfoRec
      BY <1>0, <2>2
    <3>3. /\ SetBpConditionInfo(bpInfo[id], s).has = bpInfo[id].has
          /\ SetBpConditionInfo(bpInfo[id], s).exc = bpInfo[id].exc
          /\ SetBpConditionFailsInfo(bpInfo[id], s).has = bpInfo[id].has
          /\ SetBpConditionFailsInfo(bpInfo[id], s).exc = bpInfo[id].exc
      BY <3>2, SetBpConditionHas, SetBpConditionExc
    <3>4. \A i \in backend' : bpInfo'[i].has /\ ~bpInfo'[i].exc
                                => bpInfo[i].has /\ ~bpInfo[i].exc
      BY <1>0, <2>1, <3>1, <3>2, <3>3
    <3>5. QED
      BY <2>1, <3>4, OrphanShrink
  <2>3. CASE ~(id \in backend /\ bpInfo[id].has)
    BY <1>3, <2>3, OrphanUnchanged DEF SetBreakpointsUpdate, orphanVars
  <2>4. QED
    BY <2>2, <2>3
<1>4. ASSUME NEW l \in Lines, SetBreakpointsCreate(l)
      PROVE  NoOrphan' /\ AddedConsole'
  <2> DEFINE f == req.file
             id == nextId
  <2>0. ~req.args[l].ovf
    BY <1>0, <1>4 DEF SetBreakpointsCreate, ReqOK, NoRaise
  <2>1. req.cmd = "setBreakpoints" /\ f \in Files /\ lineBps[f][l] = NoBp
    BY <1>0, <1>4 DEF SetBreakpointsCreate, ReqOK
  <2>2. /\ events' = events /\ UNCHANGED <<consoleMade, fnBps>>
        /\ backend' = backend \cup {id}
    BY <1>4, <2>1, <1>q DEF SetBreakpointsCreate
  <2>3. lineBps' = [lineBps EXCEPT ![f][l] = id]
        /\ bpInfo' = [bpInfo EXCEPT ![id] = SetBpConditionInfo(NewInfo, req.args[l])]
    BY <1>4, <2>0 DEF SetBreakpointsCreate, NoRaise
  <2>4. id \notin backend
    BY <1>0 DEF BackendUsed
  <2>5. \A i \in backend : bpInfo'[i] = bpInfo[i]
    BY <1>0, <2>3, <2>4
  <2>6. \A i \in backend :
            \A f2 \in Files, l2 \in Lines : lineBps[f2][l2] = i => lineBps'[f2][l2] = i
    BY <1>0, <2>1, <2>3 DEF Ids, NoBp
  <2>7. \E f2 \in Files, l2 \in Lines : lineBps'[f2][l2] = id
    BY <1>0, <2>1, <2>3
  <2>8. \A i \in backend : \A n \in FnNames : fnBps[n] = i => fnBps'[n] = i
    BY <2>2
  <2>9. QED
    BY <1>0, <2>2, <2>5, <2>6, <2>7, <2>8, CreateEntry
<1>5. CASE SetBreakpointsDone
  BY <1>5, OrphanUnchanged DEF SetBreakpointsDone, orphanVars
<1>6. ASSUME NEW N \in SUBSET FnNames, NEW r \in [N -> ReqSettings],
             SetFunctionBreakpointsStart(r)
      PROVE  NoOrphan' /\ AddedConsole'
  BY <1>6, OrphanUnchanged DEF SetFunctionBreakpointsStart, orphanVars
<1>7. ASSUME NEW n \in FnNames, SetFunctionBreakpointsDelete(n)
      PROVE  NoOrphan' /\ AddedConsole'
  <2> DEFINE id == fnBps[n]
  <2>1. req.cmd = "setFunctionBreakpoints"
    BY <1>7 DEF SetFunctionBreakpointsDelete
  <2>2. events' = events /\ UNCHANGED <<consoleMade, lineBps>>
    BY <1>7, <2>1, <1>q DEF SetFunctionBreakpointsDelete
  <2>3. backend' \subseteq backend \ {id} /\ \A i \in backend' : bpInfo'[i] = bpInfo[i]
    BY <1>0, <1>7 DEF SetFunctionBreakpointsDelete
  <2>4. \A i \in Ids : i # id => \A m \in FnNames : fnBps[m] = i => fnBps'[m] = i
    BY <1>0, <1>7 DEF SetFunctionBreakpointsDelete
  <2>5. \A i \in Ids : i # id =>
            \A f \in Files, l \in Lines : lineBps[f][l] = i => lineBps'[f][l] = i
    BY <2>2
  <2>6. QED
    BY <1>0, <2>2, <2>3, <2>4, <2>5, DeleteEntry
<1>8. ASSUME NEW n \in FnNames, SetFunctionBreakpointsKeep(n)
      PROVE  NoOrphan' /\ AddedConsole'
  BY <1>8, OrphanUnchanged DEF SetFunctionBreakpointsKeep, orphanVars
<1>9. ASSUME NEW n \in FnNames, SetFunctionBreakpointsCreate(n)
      PROVE  NoOrphan' /\ AddedConsole'
  <2> DEFINE id == nextId
  <2>0. ~req.args[n].ovf
    BY <1>0, <1>9 DEF SetFunctionBreakpointsCreate, ReqOK, NoRaise
  <2>1. req.cmd = "setFunctionBreakpoints" /\ fnBps[n] = NoBp
    BY <1>9 DEF SetFunctionBreakpointsCreate
  <2>2. /\ events' = events /\ UNCHANGED <<consoleMade, lineBps>>
        /\ backend' = backend \cup {id}
        /\ fnBps' = [fnBps EXCEPT ![n] = id]
        /\ bpInfo' = [bpInfo EXCEPT ![id] = SetBpConditionInfo(NewInfo, req.args[n])]
    BY <1>9, <2>0, <2>1, <1>q DEF SetFunctionBreakpointsCreate
  <2>3. id \notin backend
    BY <1>0 DEF BackendUsed
  <2>4. \A i \in backend : bpInfo'[i] = bpInfo[i]
    BY <1>0, <2>2, <2>3
  <2>5. \A i \in backend : \A m \in FnNames : fnBps[m] = i => fnBps'[m] = i
    BY <1>0, <2>1, <2>2 DEF Ids, NoBp
  <2>6. fnBps'[n] = id
    BY <1>0, <2>2
  <2>7. QED
    BY <1>0, <2>2, <2>4, <2>5, <2>6, CreateEntry
<1>10. CASE SetFunctionBreakpointsDone
  BY <1>10, OrphanUnchanged DEF SetFunctionBreakpointsDone, orphanVars
<1>11. ASSUME NEW fs \in Filters, SetExceptionBreakpoints(fs)
       PROVE  NoOrphan' /\ AddedConsole'
  <2> DEFINE old == {id \in Ids : bpInfo[id].has /\ bpInfo[id].exc}
             new == nextId .. (nextId + NumExceptionBps(fs) - 1)
  <2>1. /\ backend' = (backend \ old) \cup new
        /\ \A i \in Ids : bpInfo'[i] = IF i \in new THEN [NewInfo EXCEPT !.exc = TRUE]
                                      ELSE IF i \in old THEN NoInfo ELSE bpInfo[i]
        /\ UNCHANGED <<lineBps, fnBps, consoleMade, events>>
    BY <1>11 DEF SetExceptionBreakpoints
  <2>2. NoOrphan'
    <3> SUFFICES ASSUME NEW i \in backend', bpInfo'[i].has, ~bpInfo'[i].exc
                 PROVE  Indexed(i)' \/ i \in consoleMade'
      BY DEF NoOrphan
    <3>1. i \in Ids
      <4>1. new \subseteq Ids
        <5>1. NumExceptionBps(fs) \in Nat
              /\ nextId + NumExceptionBps(fs) <= MaxBp + 1
          BY <1>11 DEF SetExceptionBreakpoints, NumExceptionBps
        <5>2. QED
          BY <1>0, <5>1 DEF Ids
      <4>2. QED
        BY <1>0, <2>1, <4>1
    <3>2. i \notin new
      BY <2>1, <3>1 DEF NewInfo, NoInfo
    <3>3. i \in backend /\ bpInfo'[i] = bpInfo[i]
      BY <2>1, <3>1, <3>2 DEF NoInfo
    <3>4. QED
      BY <2>1, <3>3 DEF NoOrphan, Indexed
  <2>3. QED
    BY <2>1, <2>2 DEF AddedConsole
<1>12. CASE ConsoleCreate
  <2>1. /\ req.cmd = "none" /\ nextId <= MaxBp
        /\ backend' = backend \cup {nextId} /\ consoleMade' = consoleMade \cup {nextId}
        /\ UNCHANGED <<bpInfo, lineBps, fnBps>>
        /\ events' = Notify("added", nextId)
    BY <1>12 DEF ConsoleCreate
  <2>2. NoOrphan'
    BY <2>1 DEF NoOrphan, Indexed
  <2>3. CASE ~bpEvents
    <3>1. events' = events
      BY <2>1, <2>3 DEF Notify
    <3>2. QED
      BY <2>1, <2>2, <3>1 DEF AddedConsole
  <2>4. CASE bpEvents
    <3>1. [type |-> "added", id |-> nextId] \in Event
      BY <1>0, <2>1 DEF Event, Ids
    <3>2. \A k \in 1 .. Len(Append(events, [type |-> "added", id |-> nextId])) :
              Append(events, [type |-> "added", id |-> nextId])[k].type = "added"
              => Append(events, [type |-> "added", id |-> nextId])[k].id
                   \in consoleMade \cup {nextId}
      <4>1. /\ consoleMade \subseteq consoleMade \cup {nextId}
            /\ nextId \in consoleMade \cup {nextId}
            /\ \A k \in 1 .. Len(events) :
                   events[k].type = "added" => events[k].id \in consoleMade
        BY DEF AddedConsole
      <4>2. QED
        BY <1>0, <3>1, <4>1, AppendConsole
    <3>3. events' = Append(events, [type |-> "added", id |-> nextId])
      BY <2>1, <2>4 DEF Notify
    <3>4. QED
      BY <2>1, <2>2, <3>2, <3>3 DEF AddedConsole
  <2>5. QED
    BY <2>2, <2>3, <2>4
<1>13. ASSUME NEW id \in Ids, ConsoleDelete(id)
       PROVE  NoOrphan' /\ AddedConsole'
  <2>1. /\ backend' = backend \ {id}
        /\ UNCHANGED <<bpInfo, lineBps, fnBps, consoleMade>>
        /\ events' = Notify("removed", id)
    BY <1>13 DEF ConsoleDelete
  <2>2. NoOrphan'
    BY <2>1 DEF NoOrphan, Indexed
  <2>3. CASE ~bpEvents
    <3>1. events' = events
      BY <2>1, <2>3 DEF Notify
    <3>2. QED
      BY <2>1, <2>2, <3>1 DEF AddedConsole
  <2>4. CASE bpEvents
    <3>1. [type |-> "removed", id |-> id] \in Event
      BY DEF Event
    <3>2. \A k \in 1 .. Len(Append(events, [type |-> "removed", id |-> id])) :
              Append(events, [type |-> "removed", id |-> id])[k].type = "added"
              => Append(events, [type |-> "removed", id |-> id])[k].id \in consoleMade
      <4>1. \A k \in 1 .. Len(events) :
                events[k].type = "added" => events[k].id \in consoleMade
        BY DEF AddedConsole
      <4>2. QED
        BY <1>0, <3>1, <4>1, AppendConsole
    <3>3. events' = Append(events, [type |-> "removed", id |-> id])
      BY <2>1, <2>4 DEF Notify
    <3>4. QED
      BY <2>1, <2>2, <3>2, <3>3 DEF AddedConsole
  <2>5. QED
    BY <2>2, <2>3, <2>4
<1>14. CASE HandleBreakpointEvent
  <2> DEFINE e == Head(events)
  <2>1. /\ events # << >> /\ events' = Tail(events)
        /\ bpInfo' = [bpInfo EXCEPT ![e.id] =
                        IF e.type = "added" THEN NewInfo ELSE NoInfo]
        /\ UNCHANGED <<backend, lineBps, fnBps, consoleMade>>
    BY <1>14 DEF HandleBreakpointEvent
  <2>2. /\ \A k \in 1 .. Len(Tail(events)) :
              Tail(events)[k].type = "added" => Tail(events)[k].id \in consoleMade
        /\ e.type = "added" => e.id \in consoleMade
    BY <1>0, <2>1, TailConsole DEF AddedConsole
  <2>3. AddedConsole'
    BY <2>1, <2>2 DEF AddedConsole
  <2>4. NoOrphan'
    <3> SUFFICES ASSUME NEW i \in backend', bpInfo'[i].has, ~bpInfo'[i].exc
                 PROVE  Indexed(i)' \/ i \in consoleMade'
      BY DEF NoOrphan
    <3>1. i \in backend /\ i \in Ids
      BY <1>0, <2>1
    <3>2. CASE i = e.id
      <4>1. e.type = "added"
        BY <1>0, <2>1, <3>1, <3>2 DEF NoInfo
      <4>2. i \in consoleMade
        BY <2>2, <3>2, <4>1
      <4>3. QED
        BY <2>1, <4>2
    <3>3. CASE i # e.id
      <4>1. bpInfo'[i] = bpInfo[i]
        BY <1>0, <2>1, <3>1, <3>3
      <4>2. QED
        BY <2>1, <3>1, <4>1 DEF NoOrphan, Indexed
    <3>4. QED
      BY <3>2, <3>3
  <2>5. QED
    BY <2>3, <2>4
<1>15. CASE UNCHANGED vars
  BY <1>15, OrphanUnchanged DEF vars, orphanVars
<1>16. QED
  BY <1>1, <1>2, <1>3, <1>4, <1>5, <1>6, <1>7, <1>8, <1>9, <1>10, <1>11,
     <1>12, <1>13, <1>14, <1>15 DEF Next

-----------------------------------------------------------------------------
\* Unless mapping a resolved location to a local path can raise, or a
\* request carries a hitCondition SetIgnoreCount refuses, every live
\* breakpoint that DEBUG_setBreakpoints or DEBUG_setFunctionBreakpoints
\* created is in file_bps or fn_breakpoints, so a later request can delete
\* it: for every value of the constants.  registry_leak shows the breakpoint
\* either exception leaves behind.
THEOREM NoOrphanHolds == NoRaise => (Spec => []NoOrphan)
<1> SUFFICES ASSUME NoRaise PROVE Spec => []NoOrphan
  OBVIOUS
<1>1. Init => OInv
  BY InitOInv
<1>2. OInv /\ [Next]_vars => OInv'
  BY NextOInv
<1>3. OInv => NoOrphan
  BY DEF OInv
<1>4. QED
  BY <1>1, <1>2, <1>3, PTL DEF Spec
====
