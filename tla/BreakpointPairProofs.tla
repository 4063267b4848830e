------------------------ MODULE BreakpointPairProofs ------------------------
(***************************************************************************)
(* Proof that the BreakpointInfo table and the target's breakpoints agree, *)
(* up to the events still queued (InfoPaired), for every value of the      *)
(* constants that satisfies BRAssumption.                                  *)
(***************************************************************************)
EXTENDS BreakpointQueueProofs

USE BRAssumption

(***************************************************************************)
(* Why it holds.  Requests keep the table and the target in step           *)
(* themselves: each creation registers a BreakpointInfo, and each deletion *)
(* deletes one.  Console commands change the target only, and they do it   *)
(* with events enabled, so the event that repairs the table is queued:     *)
(* * a queued "removed" names a breakpoint that is gone;                   *)
(* * a queued "added" for a breakpoint that is gone is followed by its     *)
(*   "removed";                                                            *)
(* * no request deletes a breakpoint whose "added" is queued, because      *)
(*   requests delete only what the indexes hold, and console breakpoints   *)
(*   are never indexed.                                                    *)
(* Breakpoint events are enabled exactly while no request runs.            *)
(***************************************************************************)
IdleLoud == req.cmd = "none" => bpEvents

\* The ids the line and function indexes hold (NoBp among them).
IdxSet == {lineBps[f][l] : f \in Files, l \in Lines} \cup {fnBps[n] : n \in FnNames}

IndexUsed == \A id \in IdxSet : id < nextId

\* The facts about a queue q, the live ids B and the table info.
Pend(q, t, id) == \E k \in 1 .. Len(q) : q[k] = [type |-> t, id |-> id]

Paired(q, B, info) ==
    /\ \A id \in Ids : info[id].has => id \in B \/ Pend(q, "removed", id)
    /\ \A id \in B : info[id].has \/ Pend(q, "added", id)

Gone(q, B) == \A k \in 1 .. Len(q) : q[k].type = "removed" => q[k].id \notin B

ThenRemoved(q, B) ==
    \A k \in 1 .. Len(q) :
        q[k].type = "added" /\ q[k].id \notin B =>
            \E j \in k + 1 .. Len(q) : q[j] = [type |-> "removed", id |-> q[k].id]

NotIndexed(q, X) == \A k \in 1 .. Len(q) : q[k].type = "added" => q[k].id \notin X

PairOK == /\ Paired(events, backend, bpInfo) /\ Gone(events, backend)
          /\ ThenRemoved(events, backend) /\ NotIndexed(events, IdxSet)

PairInv == QInv /\ IdleLoud /\ IndexUsed /\ PairOK

-----------------------------------------------------------------------------
\* A queued event is a record with a type and an id.
LEMMA QueueRec ==
    ASSUME NEW q \in Seq(Event), NEW k \in 1 .. Len(q)
    PROVE  q[k] = [type |-> q[k].type, id |-> q[k].id]
           /\ q[k].id \in Ids /\ q[k].type \in {"added", "removed"}
<1>1. q[k] \in Event
  OBVIOUS
<1>2. QED
  BY <1>1 DEF Event

\* A step that queues nothing: what it may do to the live ids and the
\* table for the pairing to survive.
LEMMA QuietPair ==
    ASSUME NEW q \in Seq(Event), NEW B, NEW B2, NEW info, NEW info2,
           Paired(q, B, info), Gone(q, B), ThenRemoved(q, B),
           \A id \in Ids : info2[id].has =>
               id \in B2 \/ (info[id].has /\ id \notin B),
           \A id \in B2 : (id \in B /\ (info[id].has => info2[id].has))
                          \/ info2[id].has,
           \A id \in B \ B2 : ~Pend(q, "added", id),
           \A k \in 1 .. Len(q) : q[k].type = "removed" => q[k].id \notin B2 \ B
    PROVE  Paired(q, B2, info2) /\ Gone(q, B2) /\ ThenRemoved(q, B2)
<1>1. \A id \in Ids : info2[id].has => id \in B2 \/ Pend(q, "removed", id)
  BY DEF Paired
<1>2. \A id \in B2 : info2[id].has \/ Pend(q, "added", id)
  BY DEF Paired
<1>3. Gone(q, B2)
  BY DEF Gone
<1>4. ThenRemoved(q, B2)
  <2> SUFFICES ASSUME NEW k \in 1 .. Len(q), q[k].type = "added",
                      q[k].id \notin B2
               PROVE  \E j \in k + 1 .. Len(q) :
                          q[j] = [type |-> "removed", id |-> q[k].id]
    BY DEF ThenRemoved
  <2>1. q[k] = [type |-> "added", id |-> q[k].id]
    BY QueueRec
  <2>2. q[k].id \notin B
    BY <2>1 DEF Pend
  <2>3. QED
    BY <2>2 DEF ThenRemoved
<1>5. QED
  BY <1>1, <1>2, <1>3, <1>4 DEF Paired

\* A console "breakpoint set" with events enabled: breakpoint n goes live
\* and its "added" event is queued.
LEMMA PairAppendAdded ==
    ASSUME NEW q \in Seq(Event), NEW B, NEW info, NEW X, NEW n \in Ids,
           Paired(q, B, info), Gone(q, B), ThenRemoved(q, B), NotIndexed(q, X),
           \A k \in 1 .. Len(q) : q[k].id # n, n \notin X
    PROVE  LET q2 == Append(q, [type |-> "added", id |-> n])
           IN  /\ Paired(q2, B \cup {n}, info) /\ Gone(q2, B \cup {n})
               /\ ThenRemoved(q2, B \cup {n}) /\ NotIndexed(q2, X)
<1> DEFINE q2 == Append(q, [type |-> "added", id |-> n])
<1>1. Len(q2) = Len(q) + 1 /\ q2[Len(q) + 1] = [type |-> "added", id |-> n]
      /\ \A k \in 1 .. Len(q) : q2[k] = q[k]
  OBVIOUS
<1>2. \A t, id : Pend(q, t, id) => Pend(q2, t, id)
  BY <1>1 DEF Pend
<1>3. Pend(q2, "added", n)
  BY <1>1 DEF Pend
<1>4. Paired(q2, B \cup {n}, info)
  BY <1>2, <1>3 DEF Paired
<1>5. Gone(q2, B \cup {n})
  BY <1>1 DEF Gone
<1>6. ThenRemoved(q2, B \cup {n})
  <2> SUFFICES ASSUME NEW k \in 1 .. Len(q2), q2[k].type = "added",
                      q2[k].id \notin B \cup {n}
               PROVE  \E j \in k + 1 .. Len(q2) :
                          q2[j] = [type |-> "removed", id |-> q2[k].id]
    BY DEF ThenRemoved
  <2>1. k \in 1 .. Len(q)
    BY <1>1
  <2>2. PICK j \in k + 1 .. Len(q) : q[j] = [type |-> "removed", id |-> q[k].id]
    BY <1>1, <2>1 DEF ThenRemoved
  <2>3. QED
    BY <1>1, <2>1, <2>2
<1>7. NotIndexed(q2, X)
  BY <1>1 DEF NotIndexed
<1>8. QED
  BY <1>4, <1>5, <1>6, <1>7

\* A console "breakpoint delete" with events enabled: breakpoint id is
\* gone and its "removed" event is queued.
LEMMA PairAppendRemoved ==
    ASSUME NEW q \in Seq(Event), NEW B, NEW info, NEW X, NEW id \in B,
           Paired(q, B, info), Gone(q, B), ThenRemoved(q, B), NotIndexed(q, X)
    PROVE  LET q2 == Append(q, [type |-> "removed", id |-> id])
           IN  /\ Paired(q2, B \ {id}, info) /\ Gone(q2, B \ {id})
               /\ ThenRemoved(q2, B \ {id}) /\ NotIndexed(q2, X)
<1> DEFINE q2 == Append(q, [type |-> "removed", id |-> id])
<1>1. Len(q2) = Len(q) + 1 /\ q2[Len(q) + 1] = [type |-> "removed", id |-> id]
      /\ \A k \in 1 .. Len(q) : q2[k] = q[k]
  OBVIOUS
<1>2. \A t, i : Pend(q, t, i) => Pend(q2, t, i)
  BY <1>1 DEF Pend
<1>3. Pend(q2, "removed", id)
  BY <1>1 DEF Pend
<1>4. Paired(q2, B \ {id}, info)
  BY <1>2, <1>3 DEF Paired
<1>5. Gone(q2, B \ {id})
  BY <1>1 DEF Gone
<1>6. ThenRemoved(q2, B \ {id})
  <2> SUFFICES ASSUME NEW k \in 1 .. Len(q2), q2[k].type = "added",
                      q2[k].id \notin B \ {id}
               PROVE  \E j \in k + 1 .. Len(q2) :
                          q2[j] = [type |-> "removed", id |-> q2[k].id]
    BY DEF ThenRemoved
  <2>1. k \in 1 .. Len(q) /\ q2[k] = q[k]
    BY <1>1
  <2>2. CASE q[k].id = id
    BY <1>1, <2>1, <2>2
  <2>3. CASE q[k].id # id
    <3>1. PICK j \in k + 1 .. Len(q) : q[j] = [type |-> "removed", id |-> q[k].id]
      BY <2>1, <2>3 DEF ThenRemoved
    <3>2. QED
      BY <1>1, <2>1, <3>1
  <2>4. QED
    BY <2>2, <2>3
<1>7. NotIndexed(q2, X)
  BY <1>1 DEF NotIndexed
<1>8. QED
  BY <1>4, <1>5, <1>6, <1>7

\* notify_breakpoint handles the oldest event: the table catches up with
\* the target for that breakpoint.
LEMMA PairHandleHead ==
    ASSUME NEW q \in Seq(Event), q # << >>, NEW B \in SUBSET Ids, NEW X,
           NEW info \in [Ids -> InfoRec],
           Paired(q, B, info), Gone(q, B), ThenRemoved(q, B), NotIndexed(q, X)
    PROVE  LET info2 == [info EXCEPT ![Head(q).id] =
                           IF Head(q).type = "added" THEN NewInfo ELSE NoInfo]
           IN  /\ Paired(Tail(q), B, info2) /\ Gone(Tail(q), B)
               /\ ThenRemoved(Tail(q), B) /\ NotIndexed(Tail(q), X)
<1> DEFINE info2 == [info EXCEPT ![Head(q).id] =
                       IF Head(q).type = "added" THEN NewInfo ELSE NoInfo]
           h == Head(q)
<1>1. /\ Len(q) >= 1 /\ Len(Tail(q)) = Len(q) - 1 /\ h = q[1]
      /\ \A k \in 1 .. Len(q) - 1 : Tail(q)[k] = q[k + 1]
  OBVIOUS
<1>2. h = [type |-> h.type, id |-> h.id] /\ h.id \in Ids
      /\ h.type \in {"added", "removed"}
  <2>1. 1 \in 1 .. Len(q)
    BY <1>1
  <2>2. q[1] = [type |-> q[1].type, id |-> q[1].id] /\ q[1].id \in Ids
        /\ q[1].type \in {"added", "removed"}
    BY <2>1, QueueRec
  <2>3. QED
    BY <1>1, <2>2
\* An event of q other than the head is an event of Tail(q).
<1>3. \A t, i : Pend(q, t, i) /\ i # h.id => Pend(Tail(q), t, i)
  <2> SUFFICES ASSUME NEW t, NEW i, NEW k \in 1 .. Len(q),
                      q[k] = [type |-> t, id |-> i], i # h.id
               PROVE  Pend(Tail(q), t, i)
    BY DEF Pend
  <2>1. k # 1
    BY <1>1
  <2>2. k - 1 \in 1 .. Len(Tail(q)) /\ Tail(q)[k - 1] = q[k]
    BY <1>1, <2>1
  <2>3. QED
    BY <2>2 DEF Pend
<1>4. \A i \in Ids : i # h.id => info2[i] = info[i]
  OBVIOUS
<1>5. info2[h.id].has = (h.type = "added")
  BY <1>2 DEF NewInfo, NoInfo
<1>6. \A i \in Ids : info2[i].has => i \in B \/ Pend(Tail(q), "removed", i)
  <2> SUFFICES ASSUME NEW i \in Ids, info2[i].has
               PROVE  i \in B \/ Pend(Tail(q), "removed", i)
    OBVIOUS
  <2>1. CASE i = h.id
    <3>1. h.type = "added"
      BY <1>5, <2>1
    <3>2. CASE i \notin B
      <4>1. PICK j \in 2 .. Len(q) : q[j] = [type |-> "removed", id |-> i]
        BY <1>1, <2>1, <3>1, <3>2 DEF ThenRemoved
      <4>2. j - 1 \in 1 .. Len(Tail(q)) /\ Tail(q)[j - 1] = q[j]
        BY <1>1
      <4>3. QED
        BY <4>1, <4>2 DEF Pend
    <3>3. QED
      BY <3>2
  <2>2. CASE i # h.id
    BY <1>3, <1>4, <2>2 DEF Paired
  <2>3. QED
    BY <2>1, <2>2
<1>7. \A i \in B : info2[i].has \/ Pend(Tail(q), "added", i)
  <2> SUFFICES ASSUME NEW i \in B
               PROVE  info2[i].has \/ Pend(Tail(q), "added", i)
    OBVIOUS
  <2>1. CASE i = h.id
    <3>1. h.type # "removed"
      BY <1>1, <2>1 DEF Gone
    <3>2. QED
      BY <1>2, <1>5, <2>1, <3>1
  <2>2. CASE i # h.id
    <3>1. i \in Ids
      OBVIOUS
    <3>2. QED
      BY <1>3, <1>4, <2>2, <3>1 DEF Paired
  <2>3. QED
    BY <2>1, <2>2
<1>8. Gone(Tail(q), B) /\ NotIndexed(Tail(q), X)
  BY <1>1 DEF Gone, NotIndexed
<1>9. ThenRemoved(Tail(q), B)
  <2> SUFFICES ASSUME NEW k \in 1 .. Len(Tail(q)), Tail(q)[k].type = "added",
                      Tail(q)[k].id \notin B
               PROVE  \E j \in k + 1 .. Len(Tail(q)) :
                          Tail(q)[j] = [type |-> "removed", id |-> Tail(q)[k].id]
    BY DEF ThenRemoved
  <2>1. k + 1 \in 1 .. Len(q) /\ Tail(q)[k] = q[k + 1]
    BY <1>1
  <2>2. PICK j \in k + 2 .. Len(q) :
                 q[j] = [type |-> "removed", id |-> q[k + 1].id]
    BY <2>1 DEF ThenRemoved
  <2>3. j - 1 \in k + 1 .. Len(Tail(q)) /\ Tail(q)[j - 1] = q[j]
    BY <1>1, <2>1
  <2>4. QED
    BY <2>1, <2>2, <2>3
<1>10. QED
  BY <1>6, <1>7, <1>8, <1>9 DEF Paired

\* Writing v into one slot of the line index adds at most v to IdxSet.
LEMMA LineIdx ==
    ASSUME lineBps \in [Files -> [Lines -> IdOrNone]], NEW f \in Files,
           NEW l \in Lines, NEW v, lineBps' = [lineBps EXCEPT ![f][l] = v],
           fnBps' = fnBps
    PROVE  IdxSet' \subseteq IdxSet \cup {v}
BY DEF IdxSet

\* Writing v into one slot of the function index adds at most v to IdxSet.
LEMMA FnIdx ==
    ASSUME fnBps \in [FnNames -> IdOrNone], NEW n \in FnNames, NEW v,
           fnBps' = [fnBps EXCEPT ![n] = v], lineBps' = lineBps
    PROVE  IdxSet' \subseteq IdxSet \cup {v}
BY DEF IdxSet

\* Indexing nothing new, or only NoBp, keeps the index facts.
LEMMA IdxShrink ==
    ASSUME events \in Seq(Event), nextId \in Nat \ {0}, IndexUsed,
           IdxSet \subseteq Nat,
           NotIndexed(events, IdxSet), events' = events, nextId' = nextId,
           IdxSet' \subseteq IdxSet \cup {NoBp}
    PROVE  IndexUsed' /\ NotIndexed(events', IdxSet')
<1>1. IndexUsed'
  BY DEF IndexUsed, NoBp
<1>2. NotIndexed(events, IdxSet')
  BY QueueIds DEF NotIndexed, NoBp, Ids
<1>3. QED
  BY <1>1, <1>2

\* Indexing the fresh breakpoint nextId keeps the index facts.
LEMMA IdxGrow ==
    ASSUME events \in Seq(Event), nextId \in Nat, IndexUsed, IdxSet \subseteq Nat,
           NotIndexed(events, IdxSet), QIds(events, nextId), events' = events,
           nextId' = nextId + 1, IdxSet' \subseteq IdxSet \cup {nextId}
    PROVE  IndexUsed' /\ NotIndexed(events', IdxSet')
<1>1. IndexUsed'
  BY DEF IndexUsed
<1>2. NotIndexed(events, IdxSet')
  BY QueueIds DEF NotIndexed, QIds, Ids
<1>3. QED
  BY <1>1, <1>2

\* A step that changes neither the queue, the live ids, the indexes nor
\* which breakpoints have a BreakpointInfo keeps the pairing.
LEMMA PairSameHas ==
    ASSUME IndexUsed, PairOK, backend \subseteq Ids,
           UNCHANGED <<events, backend, lineBps, fnBps, nextId>>,
           \A i \in Ids : bpInfo'[i].has = bpInfo[i].has
    PROVE  IndexUsed' /\ PairOK'
<1>1. IdxSet' = IdxSet
  BY DEF IdxSet
<1>2. IndexUsed'
  BY <1>1 DEF IndexUsed
<1>3. Paired(events, backend, bpInfo')
  BY DEF PairOK, Paired
<1>4. QED
  BY <1>1, <1>2, <1>3 DEF PairOK, Gone, ThenRemoved, NotIndexed, Paired, Pend

\* The index holds breakpoint ids or NoBp.
LEMMA IdxType ==
    ASSUME lineBps \in [Files -> [Lines -> IdOrNone]],
           fnBps \in [FnNames -> IdOrNone]
    PROVE  IdxSet \subseteq Nat
BY DEF IdxSet, IdOrNone, Ids, NoBp

\* A handler's end re-enables breakpoint events.
LEMMA EndLoud ==
    ASSUME NEW cmd, NEW ok, EndRequest(cmd, ok)
    PROVE  IdleLoud'
BY DEF EndRequest, IdleLoud

\* A step that leaves the indexes alone and hands out no smaller id keeps
\* the index facts.
LEMMA IdxKept ==
    ASSUME IndexUsed, IdxSet \subseteq Nat, nextId \in Nat, nextId' \in Nat,
           nextId <= nextId', lineBps' = lineBps, fnBps' = fnBps
    PROVE  IdxSet' = IdxSet /\ IndexUsed'
<1>1. IdxSet' = IdxSet
  BY DEF IdxSet
<1>2. QED
  BY <1>1 DEF IndexUsed

-----------------------------------------------------------------------------
(* The two kinds of reconciliation step, shared by setBreakpoints and      *)
(* setFunctionBreakpoints; both run with breakpoint events disabled.       *)

\* Deleting the indexed breakpoint id with its BreakpointInfo.
LEMMA DeletePair ==
    ASSUME QInv, IndexUsed, PairOK, NEW id, id \in IdxSet,
           IdxSet \subseteq Nat,
           events' = events, nextId' = nextId, backend' = backend \ {id},
           bpInfo' = [bpInfo EXCEPT ![id] = NoInfo],
           IdxSet' \subseteq IdxSet \cup {NoBp}
    PROVE  IndexUsed' /\ PairOK'
<1> DEFINE B2 == backend \ {id}
           info2 == [bpInfo EXCEPT ![id] = NoInfo]
<1>0. /\ events \in Seq(Event) /\ bpInfo \in [Ids -> InfoRec]
      /\ nextId \in Nat \ {0} /\ backend \subseteq Ids
  BY DEF QInv, TypeOK
<1>1. IndexUsed' /\ NotIndexed(events', IdxSet')
  BY <1>0, IdxShrink DEF PairOK
<1>2. \A i \in Ids : info2[i].has => i \in B2 \/ (bpInfo[i].has /\ i \notin backend)
  BY <1>0 DEF NoInfo
<1>3. \A i \in B2 : i \in backend /\ (bpInfo[i].has => info2[i].has)
  BY <1>0
<1>4. \A i \in backend \ B2 : ~Pend(events, "added", i)
  BY <1>0, QueueRec DEF Pend, NotIndexed, PairOK
<1>5. \A k \in 1 .. Len(events) :
          events[k].type = "removed" => events[k].id \notin B2 \ backend
  OBVIOUS
<1>6. Paired(events, B2, info2) /\ Gone(events, B2) /\ ThenRemoved(events, B2)
  <2>1. Paired(events, backend, bpInfo) /\ Gone(events, backend)
        /\ ThenRemoved(events, backend)
    BY DEF PairOK
  <2>2. QED
    BY <1>0, <1>2, <1>3, <1>4, <1>5, <2>1, QuietPair
<1>7. QED
  BY <1>1, <1>6 DEF PairOK

\* Creating breakpoint nextId with a BreakpointInfo (indexed or not).
LEMMA CreatePair ==
    ASSUME QInv, IndexUsed, PairOK, IdxSet \subseteq Nat,
           events' = events, nextId <= MaxBp, nextId' = nextId + 1,
           backend' = backend \cup {nextId}, bpInfo'[nextId].has,
           \A i \in Ids : i # nextId => bpInfo'[i] = bpInfo[i],
           IdxSet' \subseteq IdxSet \cup {nextId}
    PROVE  IndexUsed' /\ PairOK'
<1>0. /\ events \in Seq(Event) /\ bpInfo \in [Ids -> InfoRec]
      /\ nextId \in 1 .. MaxBp /\ backend \subseteq Ids
      /\ QIds(events, nextId)
  BY DEF QInv, TypeOK, QueueOK
<1>1. IndexUsed' /\ NotIndexed(events', IdxSet')
  BY <1>0, IdxGrow DEF PairOK
<1>2. \A i \in Ids : bpInfo'[i].has =>
          i \in backend' \/ (bpInfo[i].has /\ i \notin backend)
  BY <1>0
<1>3. \A i \in backend' : (i \in backend /\ (bpInfo[i].has => bpInfo'[i].has))
                          \/ bpInfo'[i].has
  BY <1>0
<1>4. \A i \in backend \ backend' : ~Pend(events, "added", i)
  OBVIOUS
<1>5. \A k \in 1 .. Len(events) :
          events[k].type = "removed" => events[k].id \notin backend' \ backend
  BY <1>0, QueueIds DEF QIds, Ids
<1>6. Paired(events, backend', bpInfo') /\ Gone(events, backend')
      /\ ThenRemoved(events, backend')
  <2>1. Paired(events, backend, bpInfo) /\ Gone(events, backend)
        /\ ThenRemoved(events, backend)
    BY DEF PairOK
  <2>2. QED
    BY <1>0, <1>2, <1>3, <1>4, <1>5, <2>1, QuietPair
<1>7. QED
  BY <1>1, <1>6 DEF PairOK

-----------------------------------------------------------------------------
LEMMA NextPairInv == PairInv /\ [Next]_vars => PairInv'
<1> SUFFICES ASSUME QInv, IdleLoud, IndexUsed, PairOK, [Next]_vars
             PROVE  IdleLoud' /\ IndexUsed' /\ PairOK'
  BY NextQInv DEF PairInv
<1>0. /\ events \in Seq(Event) /\ bpInfo \in [Ids -> InfoRec]
      /\ nextId \in 1 .. MaxBp + 1 /\ ReqOK(req) /\ backend \subseteq Ids
      /\ lineBps \in [Files -> [Lines -> IdOrNone]]
      /\ fnBps \in [FnNames -> IdOrNone]
      /\ IdxSet \subseteq Nat
  BY IdxType DEF QInv, TypeOK
<1>p. /\ Paired(events, backend, bpInfo) /\ Gone(events, backend)
      /\ ThenRemoved(events, backend) /\ NotIndexed(events, IdxSet)
      /\ QIds(events, nextId) /\ QNoStale(events, bpInfo)
  BY DEF PairOK, QInv, QueueOK
<1>q. ASSUME NEW t, NEW id, req.cmd # "none" PROVE Notify(t, id) = events
  BY <1>q DEF QInv, QuietRequests, Notify
\* An "added" event is queued for no breakpoint the index holds, and for no
\* breakpoint that has a BreakpointInfo.
<1>a. ASSUME NEW i, i \in IdxSet \/ (i \in Ids /\ bpInfo[i].has)
      PROVE  ~Pend(events, "added", i)
  BY <1>0, <1>p, <1>a, QueueRec DEF Pend, NotIndexed, QNoStale
<1>1. ASSUME NEW f \in Files, NEW L \in SUBSET Lines,
             NEW r \in [L -> ReqSettings], SetBreakpointsStart(f, r)
      PROVE  IdleLoud' /\ IndexUsed' /\ PairOK'
  BY <1>0, <1>1, PairSameHas DEF SetBreakpointsStart, IdleLoud
<1>2. ASSUME NEW l \in Lines, SetBreakpointsDelete(l)
      PROVE  IdleLoud' /\ IndexUsed' /\ PairOK'
  <2> DEFINE f == req.file
             id == lineBps[f][l]
  <2>1. req.cmd = "setBreakpoints" /\ f \in Files /\ id \in IdOrNone
    BY <1>0, <1>2 DEF SetBreakpointsDelete, ReqOK
  <2>2. /\ events' = events /\ nextId' = nextId
        /\ backend' = backend \ {id}
        /\ bpInfo' = [bpInfo EXCEPT ![id] = NoInfo]
        /\ lineBps' = [lineBps EXCEPT ![f][l] = NoBp] /\ fnBps' = fnBps
    BY <1>2, <2>1, <1>q DEF SetBreakpointsDelete
  <2>3. IdleLoud'
    <3>1. CASE bpInfo[id].has
      <4>1. req' = [req EXCEPT !.del = @ \ {l}]
        BY <1>2, <3>1 DEF SetBreakpointsDelete
      <4>2. QED
        BY <1>0, <2>1, <4>1 DEF IdleLoud, ReqOK
    <3>2. CASE ~bpInfo[id].has
      BY <1>2, <3>2, EndLoud DEF SetBreakpointsDelete
    <3>3. QED
      BY <3>1, <3>2
  <2>4. IdxSet' \subseteq IdxSet \cup {NoBp} /\ id \in IdxSet
    BY <1>0, <2>1, <2>2, LineIdx DEF IdxSet
  <2>5. QED
    BY <1>0, <2>2, <2>3, <2>4, DeletePair DEF QInv
<1>3. ASSUME NEW l \in Lines, SetBreakpointsUpdate(l)
      PROVE  IdleLoud' /\ IndexUsed' /\ PairOK'
  <2> DEFINE id == lineBps[req.file][l]
  <2>0. req.cmd = "setBreakpoints"
    BY <1>3 DEF SetBreakpointsUpdate
  <2>1. CASE id \in backend /\ bpInfo[id].has /\ ~req.args[l].ovf
    <3>1. bpInfo' = [bpInfo EXCEPT ![id] = SetBpConditionInfo(@, req.args[l])]
          /\ req' = [req EXCEPT !.add = @ \ {l}]
      BY <1>3, <2>1 DEF SetBreakpointsUpdate
    <3>2. \A i \in Ids : bpInfo'[i].has = bpInfo[i].has
      BY <1>0, <2>1, <3>1, SetBpConditionHas
    <3>3. IdleLoud'
      BY <1>0, <2>0, <3>1 DEF IdleLoud, ReqOK
    <3>4. QED
      BY <1>0, <1>3, <3>2, <3>3, PairSameHas DEF SetBreakpointsUpdate
  <2>4. CASE id \in backend /\ bpInfo[id].has /\ req.args[l].ovf
    <3>1. bpInfo' = [bpInfo EXCEPT ![id] = SetBpConditionFailsInfo(@, req.args[l])]
          /\ EndRequest("setBreakpoints", FALSE)
      BY <1>3, <2>4 DEF SetBreakpointsUpdate
    <3>2. \A i \in Ids : bpInfo'[i].has = bpInfo[i].has
      BY <1>0, <2>4, <3>1, SetBpConditionHas
    <3>3. IdleLoud'
      BY <3>1, EndLoud
    <3>4. QED
      BY <1>0, <1>3, <3>2, <3>3, PairSameHas DEF SetBreakpointsUpdate
  <2>2. CASE ~(id \in backend /\ bpInfo[id].has)
    <3>1. IdleLoud'
      BY <1>3, <2>2, EndLoud DEF SetBreakpointsUpdate
    <3>2. QED
      BY <1>0, <1>3, <2>2, <3>1, PairSameHas DEF SetBreakpointsUpdate
  <2>3. QED
    BY <2>1, <2>2, <2>4
<1>5. CASE SetBreakpointsDone
  BY <1>0, <1>5, EndLoud, PairSameHas DEF SetBreakpointsDone
<1>4. ASSUME NEW l \in Lines, SetBreakpointsCreate(l)
      PROVE  IdleLoud' /\ IndexUsed' /\ PairOK'
  <2> DEFINE f == req.file
             sl == req.args[l]
  <2>1. req.cmd = "setBreakpoints" /\ f \in Files /\ sl \in Settings
    BY <1>0, <1>4 DEF SetBreakpointsCreate, ReqOK
  <2>2. /\ events' = events /\ nextId <= MaxBp /\ nextId' = nextId + 1
        /\ backend' = backend \cup {nextId} /\ fnBps' = fnBps
    BY <1>4, <2>1, <1>q DEF SetBreakpointsCreate
  <2>3. nextId \in Ids /\ NewInfo \in InfoRec
    BY <1>0, <2>2, NoInfoType DEF Ids
  <2>4. CASE /\ bpInfo' = [bpInfo EXCEPT ![nextId] = SetBpConditionInfo(NewInfo, sl)]
             /\ lineBps' = [lineBps EXCEPT ![f][l] = nextId]
             /\ req' = [req EXCEPT !.add = @ \ {l}]
    <3>1. bpInfo'[nextId].has /\ \A i \in Ids : i # nextId => bpInfo'[i] = bpInfo[i]
      <4>1. SetBpConditionInfo(NewInfo, sl).has = NewInfo.has /\ NewInfo.has
        BY <2>3, SetBpConditionHas DEF NewInfo, NoInfo
      <4>2. QED
        BY <1>0, <2>3, <2>4, <4>1
    <3>2. IdxSet' \subseteq IdxSet \cup {nextId}
      BY <1>0, <2>1, <2>2, <2>4, LineIdx
    <3>3. IdleLoud'
      BY <1>0, <2>1, <2>4 DEF IdleLoud, ReqOK
    <3>4. QED
      BY <1>0, <2>2, <3>1, <3>2, <3>3, CreatePair
  <2>5. CASE /\ bpInfo' = [bpInfo EXCEPT ![nextId] = NewInfo]
             /\ EndRequest("setBreakpoints", FALSE) /\ UNCHANGED lineBps
    <3>1. bpInfo'[nextId].has /\ \A i \in Ids : i # nextId => bpInfo'[i] = bpInfo[i]
      BY <1>0, <2>3, <2>5 DEF NewInfo
    <3>2. IdxSet' = IdxSet
      BY <2>2, <2>5 DEF IdxSet
    <3>3. QED
      BY <1>0, <2>2, <2>5, <3>1, <3>2, CreatePair, EndLoud
  <2>7. CASE /\ bpInfo' = [bpInfo EXCEPT ![nextId] = SetBpConditionFailsInfo(NewInfo, sl)]
             /\ EndRequest("setBreakpoints", FALSE) /\ UNCHANGED lineBps
    <3>1. bpInfo'[nextId].has /\ \A i \in Ids : i # nextId => bpInfo'[i] = bpInfo[i]
      <4>1. SetBpConditionFailsInfo(NewInfo, sl).has = NewInfo.has /\ NewInfo.has
        BY <2>3, SetBpConditionHas DEF NewInfo, NoInfo
      <4>2. QED
        BY <1>0, <2>3, <2>7, <4>1
    <3>2. IdxSet' = IdxSet
      BY <2>2, <2>7 DEF IdxSet
    <3>3. QED
      BY <1>0, <2>2, <2>7, <3>1, <3>2, CreatePair, EndLoud
  <2>6. QED
    BY <1>4, <2>4, <2>5, <2>7 DEF SetBreakpointsCreate
<1>6. ASSUME NEW N \in SUBSET FnNames, NEW r \in [N -> ReqSettings],
             SetFunctionBreakpointsStart(r)
      PROVE  IdleLoud' /\ IndexUsed' /\ PairOK'
  BY <1>0, <1>6, PairSameHas DEF SetFunctionBreakpointsStart, IdleLoud
<1>7. ASSUME NEW n \in FnNames, SetFunctionBreakpointsDelete(n)
      PROVE  IdleLoud' /\ IndexUsed' /\ PairOK'
  <2> DEFINE id == fnBps[n]
  <2>1. req.cmd = "setFunctionBreakpoints" /\ id \in IdOrNone
    BY <1>0, <1>7 DEF SetFunctionBreakpointsDelete
  <2>2. /\ events' = events /\ nextId' = nextId
        /\ backend' = backend \ {id}
        /\ bpInfo' = [bpInfo EXCEPT ![id] = NoInfo]
        /\ fnBps' = [fnBps EXCEPT ![n] = NoBp] /\ lineBps' = lineBps
    BY <1>7, <2>1, <1>q DEF SetFunctionBreakpointsDelete
  <2>3. IdleLoud'
    <3>1. CASE bpInfo[id].has
      <4>1. req' = [req EXCEPT !.del = @ \ {n}]
        BY <1>7, <3>1 DEF SetFunctionBreakpointsDelete
      <4>2. QED
        BY <1>0, <2>1, <4>1 DEF IdleLoud, ReqOK
    <3>2. CASE ~bpInfo[id].has
      BY <1>7, <3>2, EndLoud DEF SetFunctionBreakpointsDelete
    <3>3. QED
      BY <3>1, <3>2
  <2>4. IdxSet' \subseteq IdxSet \cup {NoBp} /\ id \in IdxSet
    BY <1>0, <2>2, FnIdx DEF IdxSet
  <2>5. QED
    BY <1>0, <2>2, <2>3, <2>4, DeletePair DEF QInv
<1>8. ASSUME NEW n \in FnNames, SetFunctionBreakpointsKeep(n)
      PROVE  IdleLoud' /\ IndexUsed' /\ PairOK'
  <2>1. req.cmd = "setFunctionBreakpoints"
    BY <1>8 DEF SetFunctionBreakpointsKeep
  <2>2. IdleLoud'
    BY <1>0, <1>8, <2>1, EndLoud DEF SetFunctionBreakpointsKeep, IdleLoud, ReqOK
  <2>3. QED
    BY <1>0, <1>8, <2>2, PairSameHas DEF SetFunctionBreakpointsKeep
<1>9. ASSUME NEW n \in FnNames, SetFunctionBreakpointsCreate(n)
      PROVE  IdleLoud' /\ IndexUsed' /\ PairOK'
  <2> DEFINE sn == req.args[n]
  <2>1. req.cmd = "setFunctionBreakpoints" /\ sn \in Settings
    BY <1>0, <1>9 DEF SetFunctionBreakpointsCreate, ReqOK
  <2>2. /\ events' = events /\ nextId <= MaxBp /\ nextId' = nextId + 1
        /\ backend' = backend \cup {nextId} /\ lineBps' = lineBps
        /\ fnBps' = [fnBps EXCEPT ![n] = nextId]
        /\ \/ bpInfo' = [bpInfo EXCEPT ![nextId] = SetBpConditionInfo(NewInfo, sn)]
           \/ bpInfo' = [bpInfo EXCEPT ![nextId] = SetBpConditionFailsInfo(NewInfo, sn)]
    BY <1>9, <2>1, <1>q DEF SetFunctionBreakpointsCreate
  <2>3. nextId \in Ids /\ NewInfo \in InfoRec
    BY <1>0, <2>2, NoInfoType DEF Ids
  <2>4. bpInfo'[nextId].has /\ \A i \in Ids : i # nextId => bpInfo'[i] = bpInfo[i]
    <3>1. /\ SetBpConditionInfo(NewInfo, sn).has = NewInfo.has
          /\ SetBpConditionFailsInfo(NewInfo, sn).has = NewInfo.has /\ NewInfo.has
      BY <2>3, SetBpConditionHas DEF NewInfo, NoInfo
    <3>2. QED
      BY <1>0, <2>2, <2>3, <3>1
  <2>5. IdxSet' \subseteq IdxSet \cup {nextId}
    BY <1>0, <2>2, FnIdx
  <2>6. IdleLoud'
    BY <1>0, <1>9, <2>1, EndLoud DEF SetFunctionBreakpointsCreate, IdleLoud, ReqOK
  <2>7. QED
    BY <1>0, <2>2, <2>4, <2>5, <2>6, CreatePair
<1>10. CASE SetFunctionBreakpointsDone
  BY <1>0, <1>10, EndLoud, PairSameHas DEF SetFunctionBreakpointsDone
<1>11. ASSUME NEW fs \in Filters, SetExceptionBreakpoints(fs)
       PROVE  IdleLoud' /\ IndexUsed' /\ PairOK'
  <2> DEFINE old == {id \in Ids : bpInfo[id].has /\ bpInfo[id].exc}
             new == nextId .. (nextId + NumExceptionBps(fs) - 1)
             B2 == (backend \ old) \cup new
             info2 == [id \in Ids |->
                         IF id \in new THEN [NewInfo EXCEPT !.exc = TRUE]
                         ELSE IF id \in old THEN NoInfo
                         ELSE bpInfo[id]]
  <2>1. /\ NumExceptionBps(fs) \in Nat /\ nextId' = nextId + NumExceptionBps(fs)
        /\ nextId + NumExceptionBps(fs) <= MaxBp + 1
        /\ backend' = B2 /\ bpInfo' = info2
        /\ events' = events /\ req' = req /\ bpEvents' = bpEvents
        /\ lineBps' = lineBps /\ fnBps' = fnBps
    BY <1>11 DEF NumExceptionBps, SetExceptionBreakpoints
  <2>2. IdleLoud' /\ IndexUsed' /\ NotIndexed(events', IdxSet')
    <3>1. IdxSet' = IdxSet /\ IndexUsed'
      BY <1>0, <2>1, IdxKept
    <3>2. QED
      BY <1>p, <2>1, <3>1 DEF IdleLoud
  <2>3. \A i \in Ids : info2[i].has => i \in B2 \/ (bpInfo[i].has /\ i \notin backend)
    BY DEF NewInfo, NoInfo
  <2>4. \A i \in B2 : (i \in backend /\ (bpInfo[i].has => info2[i].has))
                      \/ info2[i].has
    <3>1. new \subseteq Ids
      BY <1>0, <2>1 DEF Ids
    <3>2. QED
      BY <1>0, <3>1 DEF NewInfo, NoInfo
  <2>5. \A i \in backend \ B2 : ~Pend(events, "added", i)
    BY <1>a
  <2>6. \A k \in 1 .. Len(events) :
            events[k].type = "removed" => events[k].id \notin B2 \ backend
    BY <1>0, <1>p, QueueIds DEF QIds, Ids
  <2>7. Paired(events, B2, info2) /\ Gone(events, B2) /\ ThenRemoved(events, B2)
    BY <1>0, <1>p, <2>3, <2>4, <2>5, <2>6, QuietPair
  <2>8. QED
    BY <2>1, <2>2, <2>7 DEF PairOK
<1>12. CASE ConsoleCreate
  <2>1. /\ req.cmd = "none" /\ nextId <= MaxBp /\ nextId' = nextId + 1
        /\ backend' = backend \cup {nextId}
        /\ UNCHANGED <<bpInfo, req, bpEvents, lineBps, fnBps>>
        /\ events' = Notify("added", nextId)
    BY <1>12 DEF ConsoleCreate
  <2>2. events' = Append(events, [type |-> "added", id |-> nextId])
    BY <2>1 DEF IdleLoud, Notify
  <2>3. nextId \in Ids /\ nextId \notin IdxSet
        /\ \A k \in 1 .. Len(events) : events[k].id # nextId
    BY <1>0, <1>p, <2>1, QueueIds DEF IndexUsed, QIds, Ids
  <2>4. IdxSet' = IdxSet /\ IndexUsed'
    BY <1>0, <2>1, IdxKept
  <2>5. PairOK'
    <3>1. LET q2 == Append(events, [type |-> "added", id |-> nextId])
              B2 == backend \cup {nextId}
          IN  /\ Paired(q2, B2, bpInfo) /\ Gone(q2, B2)
              /\ ThenRemoved(q2, B2) /\ NotIndexed(q2, IdxSet)
      BY <1>0, <1>p, <2>3, PairAppendAdded
    <3>2. QED
      BY <2>1, <2>2, <2>4, <3>1 DEF PairOK
  <2>7. IdleLoud'
    BY <2>1 DEF IdleLoud
  <2>6. QED
    BY <2>4, <2>5, <2>7
<1>13. ASSUME NEW id \in Ids, ConsoleDelete(id)
       PROVE  IdleLoud' /\ IndexUsed' /\ PairOK'
  <2>1. /\ req.cmd = "none" /\ id \in backend /\ backend' = backend \ {id}
        /\ UNCHANGED <<bpInfo, req, bpEvents, nextId, lineBps, fnBps>>
        /\ events' = Notify("removed", id)
    BY <1>13 DEF ConsoleDelete
  <2>2. events' = Append(events, [type |-> "removed", id |-> id])
    BY <2>1 DEF IdleLoud, Notify
  <2>3. IdxSet' = IdxSet /\ IndexUsed'
    BY <1>0, <2>1, IdxKept
  <2>4. PairOK' /\ IdleLoud'
    <3>1. LET q2 == Append(events, [type |-> "removed", id |-> id])
              B2 == backend \ {id}
          IN  /\ Paired(q2, B2, bpInfo) /\ Gone(q2, B2)
              /\ ThenRemoved(q2, B2) /\ NotIndexed(q2, IdxSet)
      BY <1>0, <1>p, <2>1, PairAppendRemoved
    <3>2. QED
      BY <2>1, <2>2, <2>3, <3>1 DEF PairOK, IdleLoud
  <2>5. QED
    BY <2>3, <2>4
<1>14. CASE HandleBreakpointEvent
  <2>1. /\ events # << >> /\ events' = Tail(events)
        /\ bpInfo' = [bpInfo EXCEPT ![Head(events).id] =
                        IF Head(events).type = "added" THEN NewInfo ELSE NoInfo]
        /\ UNCHANGED <<backend, nextId, req, bpEvents, lineBps, fnBps>>
    BY <1>14 DEF HandleBreakpointEvent
  <2>2. IdxSet' = IdxSet /\ IndexUsed'
    BY <1>0, <2>1, IdxKept
  <2>3. PairOK' /\ IdleLoud'
    <3>1. /\ Paired(events', backend', bpInfo') /\ Gone(events', backend')
          /\ ThenRemoved(events', backend') /\ NotIndexed(events', IdxSet)
      BY <1>0, <1>p, <2>1, PairHandleHead
    <3>2. QED
      BY <2>1, <2>2, <3>1 DEF PairOK, IdleLoud
  <2>4. QED
    BY <2>2, <2>3
<1>15. CASE UNCHANGED vars
  BY <1>0, <1>15, PairSameHas DEF vars, IdleLoud
<1>16. QED
  BY <1>1, <1>2, <1>3, <1>4, <1>5, <1>6, <1>7, <1>8, <1>9, <1>10, <1>11,
     <1>12, <1>13, <1>14, <1>15 DEF Next
-----------------------------------------------------------------------------
LEMMA InitPairInv == Init => PairInv
<1> SUFFICES ASSUME Init PROVE PairInv
  OBVIOUS
<1>1. QInv
  BY InitQInv
<1>2. IdleLoud /\ IndexUsed
  BY IdleType DEF Init, IdleLoud, IndexUsed, IdxSet, NoBp
<1>3. PairOK
  BY DEF Init, PairOK, Paired, Gone, ThenRemoved, NotIndexed, NoInfo
<1>4. QED
  BY <1>1, <1>2, <1>3 DEF PairInv

-----------------------------------------------------------------------------
\* Every BreakpointInfo in self.breakpoints belongs to a breakpoint of the
\* target unless its "removed" event is still queued, and every breakpoint
\* of the target has a BreakpointInfo unless its "added" event is still
\* queued: the deletions of setBreakpoints, setFunctionBreakpoints and
\* setExceptionBreakpoints pair with the console's deletions and
\* notify_breakpoint, for every value of the constants.
THEOREM InfoPairedHolds == Spec => []InfoPaired
<1>1. Init => PairInv
  BY InitPairInv
<1>2. PairInv /\ [Next]_vars => PairInv'
  BY NextPairInv
<1>3. PairInv => InfoPaired
  BY DEF PairInv, PairOK, Paired, Pend, Pending, InfoPaired
<1>4. QED
  BY <1>1, <1>2, <1>3, PTL DEF Spec

=============================================================================
