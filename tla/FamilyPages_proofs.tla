-------------------------- MODULE FamilyPages_proofs --------------------------
(***************************************************************************)
(* Proofs about FamilyPages, for any users, devices, families and tasks.   *)
(***************************************************************************)
EXTENDS FamilyPagesProperties, SequenceTheorems, TLAPS

(***************************************************************************)
(* Facts about the queue of a device.                                      *)
(***************************************************************************)

Queues == outbox \in [Device -> Seq(Write)]

\* The queues after a write was added at the end of one of them.
LEMMA Enqueued ==
  ASSUME Queues, NEW d \in Device, NEW w \in Write, Enqueue(d, w)
  PROVE  /\ Queues'
         /\ \A e \in Device : e # d => outbox'[e] = outbox[e]
         /\ Len(outbox[d]) \in Nat /\ DOMAIN outbox[d] = 1..Len(outbox[d])
         /\ Len(outbox'[d]) = Len(outbox[d]) + 1
         /\ DOMAIN outbox'[d] = 1..Len(outbox[d]) + 1
         /\ \A i \in 1..Len(outbox[d]) : outbox'[d][i] = outbox[d][i]
         /\ outbox'[d][Len(outbox[d]) + 1] = w
<1>1. outbox'[d] = Append(outbox[d], w) /\ outbox[d] \in Seq(Write)
  BY DEF Enqueue, Queues
<1>2. outbox'[d] \in Seq(Write)
  BY <1>1
<1>3. Queues' /\ \A e \in Device : e # d => outbox'[e] = outbox[e]
  BY <1>2 DEF Queues, Enqueue
<1>4. QED BY <1>1, <1>3

Dequeue(d) == outbox[d] # <<>> /\ outbox' = [outbox EXCEPT ![d] = Tail(@)]

\* The queues after the head of one of them was taken.
LEMMA Dequeued ==
  ASSUME Queues, NEW d \in Device, Dequeue(d)
  PROVE  /\ Queues'
         /\ \A e \in Device : e # d => outbox'[e] = outbox[e]
         /\ Len(outbox[d]) \in Nat /\ Len(outbox[d]) >= 1
         /\ DOMAIN outbox[d] = 1..Len(outbox[d])
         /\ Head(outbox[d]) \in Write /\ Head(outbox[d]) = outbox[d][1]
         /\ Len(outbox'[d]) = Len(outbox[d]) - 1
         /\ DOMAIN outbox'[d] = 1..Len(outbox[d]) - 1
         /\ \A i \in 1..Len(outbox[d]) - 1 : outbox'[d][i] = outbox[d][i + 1]
<1>1. outbox'[d] = Tail(outbox[d]) /\ outbox[d] \in Seq(Write) /\ outbox[d] # <<>>
  BY DEF Dequeue, Queues
<1>2. outbox'[d] \in Seq(Write)
  BY <1>1
<1>3. Queues' /\ \A e \in Device : e # d => outbox'[e] = outbox[e]
  BY <1>2 DEF Queues, Dequeue
<1>4. QED BY <1>1, <1>3

Untagged(w) == [kind |-> w.kind, fid |-> w.fid, fams |-> w.fams, by |-> Nobody]

\* The queues after a device was restarted: the same writes, and nobody waits.
LEMMA Restarted ==
  ASSUME Queues, NEW d \in Device, Restart(d)
  PROVE  /\ Queues'
         /\ \A e \in Device : e # d => outbox'[e] = outbox[e]
         /\ DOMAIN outbox'[d] = DOMAIN outbox[d]
         /\ \A i \in DOMAIN outbox[d] : /\ outbox[d][i] \in Write
                                        /\ outbox'[d][i] = Untagged(outbox[d][i])
<1> DEFINE q == outbox[d]
           r == [i \in DOMAIN q |-> [q[i] EXCEPT !.by = Nobody]]
<1>1. /\ outbox' = [outbox EXCEPT ![d] = r] /\ outbox'[d] = r
      /\ \A e \in Device : e # d => outbox'[e] = outbox[e]
  BY DEF Restart, Queues
<1>2. q \in Seq(Write) /\ Len(q) \in Nat /\ DOMAIN q = 1..Len(q)
  BY DEF Queues
<1> HIDE DEF q
<1>3. ASSUME NEW i \in DOMAIN q
      PROVE  q[i] \in Write /\ r[i] = Untagged(q[i]) /\ r[i] \in Write
  <2>1. q[i] \in Write
    BY <1>2
  <2>2. [q[i] EXCEPT !.by = Nobody] = Untagged(q[i]) /\ Untagged(q[i]) \in Write
    BY <2>1 DEF Write, Untagged
  <2>3. QED BY <2>1, <2>2
<1>4. r \in [1..Len(q) -> Write]
  BY <1>2, <1>3
<1> HIDE DEF r
<1>5. r \in Seq(Write)
  BY <1>2, <1>4, SeqDef
<1>6. Queues'
  BY <1>1, <1>5 DEF Queues
<1>7. DOMAIN r = DOMAIN q
  BY DEF r
<1>8. QED BY <1>1, <1>3, <1>6, <1>7 DEF q

(***************************************************************************)
(* Type correctness.                                                       *)
(***************************************************************************)

\* Each kind of write is a write.
LEMMA WriteTypes ==
  ASSUME NEW f \in FamilyId, NEW fams \in SUBSET FamilyId, NEW t \in Task
  PROVE  /\ FamilyWrite(t, f) \in Write /\ ChannelWrite(f) \in Write
         /\ UserWrite(t, f, fams) \in Write /\ SwitchWrite(f) \in Write
  BY DEF Write, WriteKind, FamilyWrite, ChannelWrite, UserWrite, SwitchWrite

\* An operation that is not idle has a family.
Busy == \A t \in Task : op[t].stage # "idle" => op[t].fid \in FamilyId

\* The task that waits for the write w of device d is there, among operations o.
Waited(o, d, w) ==
  w.by # Nobody =>
    /\ w.by \in Task /\ On[w.by] = d /\ w.fid = o[w.by].fid
    /\ \/ w.kind = "family" /\ o[w.by].stage = "creating"
       \/ w.kind = "user" /\ o[w.by].stage = "saving" /\ w.fid \in w.fams

\* No two writes of the queue q of device d have a task in common.
QueueTagged(o, d, q) ==
  /\ \A i \in DOMAIN q : Waited(o, d, q[i])
  /\ \A i, j \in DOMAIN q : i # j /\ q[i].by = q[j].by => q[i].by = Nobody

\* A callback waits for one write, and an answer finds its operation waiting.
Tagged == \A d \in Device : QueueTagged(op, d, outbox[d])

\* What makes the type invariant inductive: an answer never wakes an idle task.
TypeInv == TypeOK /\ Busy /\ Tagged

\* The initial state has the types.
LEMMA TypeInit == Init => TypeInv
<1> SUFFICES ASSUME Init PROVE TypeInv
  OBVIOUS
<1>1. TypeOK /\ Busy
  BY OwnerAssumption, NoFamilyAssumption, MaxTapsAssumption
  DEF Init, TypeOK, Busy, UserDoc, Operation, Stage, Idle
<1>2. \A d \in Device : DOMAIN outbox[d] = {}
  BY DEF Init
<1>3. Tagged
  BY <1>2 DEF Tagged, QueueTagged
<1>4. QED BY <1>1, <1>3 DEF TypeInv

TaskStep(t) == Callback(t) \/ \E f \in FamilyId : CreateTapped(t, f) \/ JoinTapped(t, f)

\* One step of a task of device d, of the device, or of the server for it.
DeviceStep(d) == \/ \E t \in Task : On[t] = d /\ TaskStep(t)
                 \/ FamiliesListed(d) \/ Restart(d) \/ Server(d)
                 \/ \E f \in FamilyId : FamilyTapped(d, f)

\* Every step is a step of a device.
LEMMA NextDevice == [Next]_vars => UNCHANGED vars \/ \E d \in Device : DeviceStep(d)
  BY OnAssumption DEF Next, DeviceStep, TaskStep

Moves(t, o) == op' = [op EXCEPT ![t] = o]
Staged(t, s) == [stage |-> s, fid |-> op[t].fid, seen |-> op[t].seen]

OpType == op \in [Task -> Operation] /\ Busy

\* The ways the code moves an operation on.
LEMMA Moved ==
  ASSUME OpType, NEW t \in Task
  PROVE  /\ \A s \in Stage : GoTo(t, s) => Moves(t, Staged(t, s))
         /\ Finish(t) => Moves(t, Idle)
         /\ \A s \in Stage, fams \in SUBSET FamilyId :
              op' = [op EXCEPT ![t].stage = s, ![t].seen = fams] =>
                Moves(t, [stage |-> s, fid |-> op[t].fid, seen |-> fams])
<1>1. op[t] \in Operation /\ op \in [Task -> Operation]
  BY DEF OpType
<1>2. op[t] = [stage |-> op[t].stage, fid |-> op[t].fid, seen |-> op[t].seen]
  BY <1>1 DEF Operation
<1>3. ASSUME NEW s \in Stage, GoTo(t, s) PROVE Moves(t, Staged(t, s))
  <2>1. [op[t] EXCEPT !.stage = s] = Staged(t, s)
    BY <1>1 DEF Operation, Staged
  <2>2. QED BY <1>1, <1>3, <2>1 DEF GoTo, Moves
<1>4. Finish(t) => Moves(t, Idle)
  BY DEF Finish, Moves
<1>5. ASSUME NEW s \in Stage, NEW fams \in SUBSET FamilyId,
             op' = [op EXCEPT ![t].stage = s, ![t].seen = fams]
      PROVE  Moves(t, [stage |-> s, fid |-> op[t].fid, seen |-> fams])
  <2>1. [[op[t] EXCEPT !.stage = s] EXCEPT !.seen = fams]
          = [stage |-> s, fid |-> op[t].fid, seen |-> fams]
    <3> DEFINE p == [op[t] EXCEPT !.stage = s]
    <3>1. p \in Operation /\ p.stage = s /\ p.fid = op[t].fid
      BY <1>1 DEF Operation
    <3> HIDE DEF p
    <3>2. [p EXCEPT !.seen = fams] = [stage |-> p.stage, fid |-> p.fid, seen |-> fams]
      BY <3>1 DEF Operation
    <3>3. QED BY <3>1, <3>2 DEF p
  <2>2. op' = [op EXCEPT ![t] = [[op[t] EXCEPT !.stage = s] EXCEPT !.seen = fams]]
    BY <1>1, <1>5
  <2>3. QED BY <2>1, <2>2 DEF Moves
<1>6. QED BY <1>3, <1>4, <1>5

\* How a step of task t leaves its operation.
TaskTo(t, o) ==
  \/ Callback(t) /\ o = Idle
  \/ \E f \in FamilyId : /\ CreateTapped(t, f)
                         /\ o = [stage |-> "creating", fid |-> f, seen |-> {}]
  \/ \E f \in FamilyId : /\ JoinTapped(t, f)
                         /\ o = [stage |-> "listing", fid |-> f, seen |-> {}]
  \/ FamilySaved(t) /\ o = Staged(t, "reading")
  \/ FamiliesRead(t) /\ op[t].fid \in SeenFamilies(On[t]) /\ o = Staged(t, "reading")
  \/ FamiliesNotRead(t) /\ o = Staged(t, "stuck")
  \/ \E fams \in SUBSET FamilyId :
       /\ UserAnswered(t) /\ Sees(On[t], fams)
       /\ o = [stage |-> "read", fid |-> op[t].fid, seen |-> fams]
  \/ UserRead(t) /\ o = [stage |-> "saving", fid |-> op[t].fid, seen |-> {}]

\* A step of a task moves its operation on, and no answer was awaited.
LEMMA TaskMoves ==
  ASSUME OpType, NEW t \in Task, TaskStep(t)
  PROVE  /\ op[t].stage \notin {"creating", "saving"}
         /\ Callback(t) => UnderWay(t)
         /\ \E o \in Operation : /\ Moves(t, o) /\ TaskTo(t, o)
                                 /\ o.stage # "idle" => o.fid \in FamilyId
<1> USE DEF OpType
<1>1. op[t] \in Operation /\ Idle \in Operation /\ Idle.stage = "idle"
  BY DEF Operation, Idle, Stage
<1>2. /\ op[t].stage \notin {"creating", "saving"}
      /\ Callback(t) => UnderWay(t)
      /\ Callback(t) => op[t].fid \in FamilyId
  BY DEF TaskStep, Callback, CreateTapped, JoinTapped, Tap, At, UnderWay, Busy,
         FamilySaved, FamilyFailed, FamiliesRead, FamiliesNotRead, UserAnswered,
         UserRead, UserNotRead, UserSaved, UserNotSaved
<1>3. \A s \in Stage : Staged(t, s) \in Operation /\ Staged(t, s).fid = op[t].fid
  BY <1>1 DEF Staged, Operation
<1>4. {"creating", "listing", "reading", "stuck", "read", "saving"} \subseteq Stage
  BY DEF Stage
<1>5. \A s \in Stage, f \in FamilyId, fams \in SUBSET FamilyId :
        [stage |-> s, fid |-> f, seen |-> fams] \in Operation
  BY DEF Operation
<1>6. ASSUME NEW f \in FamilyId, CreateTapped(t, f) \/ JoinTapped(t, f)
      PROVE  \E o \in Operation : /\ Moves(t, o) /\ TaskTo(t, o)
                                  /\ o.stage # "idle" => o.fid \in FamilyId
  BY <1>4, <1>5, <1>6 DEF CreateTapped, JoinTapped, Moves, TaskTo
<1>7. ASSUME Callback(t), Finish(t)
      PROVE  \E o \in Operation : /\ Moves(t, o) /\ TaskTo(t, o)
                                  /\ o.stage # "idle" => o.fid \in FamilyId
  BY <1>1, <1>7, Moved DEF TaskTo
<1>8. CASE FamilySaved(t)
  <2>1. Moves(t, Staged(t, "reading")) /\ TaskTo(t, Staged(t, "reading"))
    BY <1>4, <1>8, Moved DEF FamilySaved, TaskTo
  <2>2. QED BY <1>2, <1>3, <1>4, <1>8, <2>1 DEF Callback
<1>9. CASE FamiliesRead(t) /\ ~Finish(t)
  <2>1. Moves(t, Staged(t, "reading")) /\ TaskTo(t, Staged(t, "reading"))
    BY <1>4, <1>9, Moved DEF FamiliesRead, TaskTo
  <2>2. QED BY <1>2, <1>3, <1>4, <1>9, <2>1 DEF Callback
<1>10. CASE FamiliesNotRead(t)
  <2>1. Moves(t, Staged(t, "stuck")) /\ TaskTo(t, Staged(t, "stuck"))
    BY <1>4, <1>10, Moved DEF FamiliesNotRead, TaskTo
  <2>2. QED BY <1>2, <1>3, <1>4, <1>10, <2>1 DEF Callback
<1>11. CASE UserAnswered(t)
  <2>1. PICK fams \in SUBSET FamilyId :
          /\ Sees(On[t], fams)
          /\ op' = [op EXCEPT ![t].stage = "read", ![t].seen = fams]
    BY <1>11 DEF UserAnswered
  <2> DEFINE o == [stage |-> "read", fid |-> op[t].fid, seen |-> fams]
  <2>2. Moves(t, o)
    BY <1>4, <2>1, Moved
  <2>3. TaskTo(t, o)
    BY <1>11, <2>1 DEF TaskTo
  <2>4. o \in Operation /\ o.fid \in FamilyId
    BY <1>2, <1>4, <1>5, <1>11 DEF Callback
  <2>5. QED BY <1>2, <2>2, <2>3, <2>4
<1>12. CASE UserRead(t)
  <2> DEFINE o == [stage |-> "saving", fid |-> op[t].fid, seen |-> {}]
  <2>1. Moves(t, o)
    BY <1>4, <1>12, Moved DEF UserRead
  <2>2. TaskTo(t, o)
    BY <1>12 DEF TaskTo
  <2>3. o \in Operation /\ o.fid \in FamilyId
    BY <1>2, <1>4, <1>5, <1>12 DEF Callback
  <2>4. QED BY <1>2, <2>1, <2>2, <2>3
<1>13. Callback(t) => \/ Finish(t) \/ FamilySaved(t)
                      \/ FamiliesRead(t) /\ ~Finish(t)
                      \/ FamiliesNotRead(t) \/ UserAnswered(t) \/ UserRead(t)
  BY DEF Callback, FamilyFailed, UserNotRead, UserSaved, UserNotSaved
<1>14. QED
  BY <1>2, <1>6, <1>7, <1>8, <1>9, <1>10, <1>11, <1>12, <1>13 DEF TaskStep

\* The write w that a step of task t adds to its queue.
TaskWrite(t, w) ==
  \/ \E f \in FamilyId : CreateTapped(t, f) /\ w = FamilyWrite(t, f)
  \/ FamilySaved(t) /\ w = ChannelWrite(op[t].fid)
  \/ UserRead(t) /\ w = UserWrite(t, op[t].fid, Appended(op[t].seen, op[t].fid))

\* A step of a task adds at most one write to the queue of its device.
LEMMA TaskWrites ==
  ASSUME OpType, NEW t \in Task, TaskStep(t)
  PROVE  \/ outbox' = outbox /\ ~UserRead(t) /\ ~\E f \in FamilyId : CreateTapped(t, f)
         \/ \E w \in Write : Enqueue(On[t], w) /\ TaskWrite(t, w)
<1>1. CASE FamilySaved(t)
  <2>1. op[t].fid \in FamilyId
    BY <1>1 DEF FamilySaved, At, OpType, Busy
  <2>2. QED BY <1>1, <2>1, WriteTypes DEF FamilySaved, TaskWrite
<1>2. CASE UserRead(t)
  <2>1. op[t].fid \in FamilyId /\ op[t] \in Operation
    BY <1>2 DEF UserRead, At, OpType, Busy
  <2>2. Appended(op[t].seen, op[t].fid) \in SUBSET FamilyId
    BY <2>1 DEF Operation, Appended
  <2>3. QED BY <1>2, <2>1, <2>2, WriteTypes DEF UserRead, TaskWrite
<1>3. ASSUME NEW f \in FamilyId, CreateTapped(t, f)
      PROVE  \E w \in Write : Enqueue(On[t], w) /\ TaskWrite(t, w)
  BY <1>3, WriteTypes DEF CreateTapped, TaskWrite
<1>4. CASE /\ ~FamilySaved(t) /\ ~UserRead(t)
           /\ ~\E f \in FamilyId : CreateTapped(t, f)
  BY <1>4 DEF TaskStep, JoinTapped, Callback, FamilyFailed, FamiliesRead, FamiliesNotRead,
              UserAnswered, UserNotRead, UserSaved, UserNotSaved
<1>5. QED BY <1>1, <1>2, <1>3, <1>4

\* What a step of a task leaves alone.
LEMMA TaskRest ==
  ASSUME NEW t \in Task, TaskStep(t)
  PROVE  /\ UNCHANGED <<users, family, channels>>
         /\ listed' = listed \/ listed' = [listed EXCEPT ![On[t]] = {}]
         /\ taps' = taps \/ TapOn(On[t])
         /\ UserSaved(t) \/ confirmed' = confirmed
         /\ overlapped' = overlapped \/ overlapped' = overlapped \cup {On[t]}
  BY DEF TaskStep, CreateTapped, JoinTapped, Tap, Callback, FamilySaved, FamilyFailed,
         FamiliesRead, FamiliesNotRead, UserAnswered, UserRead, UserNotRead, UserSaved,
         UserNotSaved

\* How the answer to the first write of device d leaves the operation of task t.
Woken(d, t, s) ==
  LET w == Head(outbox[d]) IN
    /\ t \in Task /\ w.by = t /\ Waited(op, d, w) /\ Moves(t, Staged(t, s))
    /\ \/ s = "founded" /\ Accept(d) /\ w.kind = "family"
       \/ s = "saved" /\ Accept(d) /\ w.kind = "user"
       \/ s \in {"notFounded", "notSaved"}

\* An answer takes a write, and wakes the operation that waits for it, if any.
LEMMA ServerMoves ==
  ASSUME TypeInv, NEW d \in Device, Server(d)
  PROVE  /\ Dequeue(d)
         /\ \/ op' = op /\ Head(outbox[d]).by = Nobody
            \/ \E t \in Task, s \in Stage : Woken(d, t, s)
<1> DEFINE w == Head(outbox[d])
<1>1. Dequeue(d) /\ Queues /\ OpType
  BY DEF Server, Accept, Refuse, Dequeue, TypeInv, TypeOK, Queues, OpType
<1>2. w \in Write /\ w = outbox[d][1] /\ 1 \in DOMAIN outbox[d]
  BY <1>1, Dequeued
<1>3. Waited(op, d, w)
  BY <1>2 DEF TypeInv, Tagged, QueueTagged
<1>4. \/ Accept(d) /\ Answer(w, TRUE)
      \/ Refuse(d) /\ Answer(w, FALSE)
  BY DEF Server, Accept, Refuse
<1>5. CASE w.by = Nobody
  BY <1>1, <1>4, <1>5 DEF Answer
<1>6. CASE w.by # Nobody
  <2>1. w.by \in Task /\ w.kind \in {"family", "user"}
    BY <1>3, <1>6 DEF Waited
  <2>2. \A s \in Stage : GoTo(w.by, s) => Moves(w.by, Staged(w.by, s))
    BY <1>1, <2>1, Moved
  <2>3. PICK yes \in BOOLEAN : GoTo(w.by, Result(w.kind, yes)) /\ (yes => Accept(d))
    BY <1>4, <1>6 DEF Answer
  <2>4. Result(w.kind, yes) \in Stage
    BY DEF Result, Stage
  <2>5. Woken(d, w.by, Result(w.kind, yes))
    BY <1>3, <2>1, <2>2, <2>3, <2>4 DEF Woken, Result
  <2>6. QED BY <1>1, <2>1, <2>4, <2>5
<1>7. QED BY <1>5, <1>6

\* What an answer leaves alone.
LEMMA ServerRest ==
  ASSUME NEW d \in Device, Server(d)
  PROVE  UNCHANGED <<listed, taps, overlapped, confirmed>>
  BY DEF Server, Accept, Refuse

\* A restart ends the operations of its device.
LEMMA RestartMoves ==
  ASSUME OpType, NEW d \in Device, Restart(d), NEW t \in Task
  PROVE  IF On[t] = d THEN op'[t] = Idle ELSE op'[t] = op[t]
  BY DEF Restart

\* A step of one device leaves the state of the others alone.
LEMMA OthersKept ==
  ASSUME TypeInv, NEW d \in Device, DeviceStep(d), NEW e \in Device, e # d
  PROVE  /\ outbox'[e] = outbox[e] /\ listed'[e] = listed[e]
         /\ \A t \in Task : On[t] = e => op'[t] = op[t]
<1> USE DEF TypeInv, TypeOK
<1>1. OpType /\ Queues
  BY DEF OpType, Queues
<1>2. ASSUME NEW t \in Task, On[t] = d, TaskStep(t)
      PROVE  /\ outbox'[e] = outbox[e] /\ listed'[e] = listed[e]
             /\ \A o \in Task : On[o] = e => op'[o] = op[o]
  <2>1. outbox'[e] = outbox[e]
    BY <1>1, <1>2, TaskWrites, Enqueued
  <2>2. listed'[e] = listed[e]
    BY <1>2, TaskRest
  <2>3. \A o \in Task : On[o] = e => op'[o] = op[o]
    BY <1>1, <1>2, TaskMoves DEF Moves
  <2>4. QED BY <2>1, <2>2, <2>3
<1>3. CASE FamiliesListed(d)
  BY <1>3 DEF FamiliesListed
<1>4. CASE Restart(d)
  BY <1>1, <1>4, RestartMoves, Restarted DEF Restart
<1>5. CASE \E f \in FamilyId : FamilyTapped(d, f)
  BY <1>5 DEF FamilyTapped, Enqueue
<1>6. CASE Server(d)
  <2>1. outbox'[e] = outbox[e] /\ listed' = listed
    BY <1>1, <1>6, ServerMoves, ServerRest, Dequeued
  <2>2. \A t \in Task : On[t] = e => op'[t] = op[t]
    <3>1. ASSUME NEW o \in Task, NEW s \in Stage, Woken(d, o, s)
          PROVE  \A t \in Task : On[t] = e => op'[t] = op[t]
      <4>1. On[o] = d /\ Moves(o, Staged(o, s))
        BY <3>1, NobodyAssumption DEF Woken, Waited
      <4>2. QED BY <4>1 DEF Moves
    <3>2. QED BY <1>6, <3>1, ServerMoves
  <2>3. QED BY <2>1, <2>2
<1>7. QED BY <1>2, <1>3, <1>4, <1>5, <1>6 DEF DeviceStep

\* Every step leaves operations operations.
LEMMA OpStep ==
  ASSUME TypeInv, NEW d \in Device, DeviceStep(d)
  PROVE  OpType'
<1>1. OpType
  BY DEF TypeInv, TypeOK, OpType
<1>2. ASSUME NEW t \in Task, NEW o \in Operation, Moves(t, o),
             o.stage # "idle" => o.fid \in FamilyId
      PROVE  OpType'
  BY <1>1, <1>2 DEF OpType, Busy, Moves
<1>3. ASSUME NEW t \in Task, TaskStep(t) PROVE OpType'
  BY <1>1, <1>2, <1>3, TaskMoves
<1>4. CASE Server(d)
  <2>1. CASE op' = op
    BY <1>1, <2>1 DEF OpType, Busy
  <2>2. ASSUME NEW t \in Task, NEW s \in Stage, Woken(d, t, s) PROVE OpType'
    <3>1. op[t].stage # "idle" /\ op[t] \in Operation
      BY <1>1, <2>2, NobodyAssumption DEF Woken, Waited, OpType
    <3>2. Staged(t, s) \in Operation /\ Staged(t, s).fid \in FamilyId
      BY <1>1, <3>1 DEF Staged, Operation, OpType, Busy
    <3>3. QED BY <1>2, <2>2, <3>2 DEF Woken
  <2>3. QED BY <1>4, <2>1, <2>2, ServerMoves
<1>5. CASE Restart(d)
  BY <1>1, <1>5 DEF Restart, OpType, Busy, Idle, Operation, Stage
<1>6. CASE FamiliesListed(d) \/ \E f \in FamilyId : FamilyTapped(d, f)
  BY <1>1, <1>6 DEF FamiliesListed, FamilyTapped, OpType, Busy
<1>7. QED BY <1>3, <1>4, <1>5, <1>6 DEF DeviceStep

\* Every step keeps the queues.
LEMMA QueuesStep ==
  ASSUME TypeInv, NEW d \in Device, DeviceStep(d)
  PROVE  Queues'
<1>1. OpType /\ Queues
  BY DEF TypeInv, TypeOK, OpType, Queues
<1>2. ASSUME NEW t \in Task, On[t] = d, TaskStep(t) PROVE Queues'
  BY <1>1, <1>2, TaskWrites, Enqueued DEF Queues
<1>3. ASSUME NEW f \in FamilyId, FamilyTapped(d, f) PROVE Queues'
  <2>1. SwitchWrite(f) \in Write
    BY DEF SwitchWrite, Write, WriteKind
  <2>2. QED BY <1>1, <1>3, <2>1, Enqueued DEF FamilyTapped
<1>4. CASE Server(d)
  BY <1>1, <1>4, ServerMoves, Dequeued
<1>5. CASE Restart(d)
  BY <1>1, <1>5, Restarted
<1>6. CASE FamiliesListed(d)
  BY <1>1, <1>6 DEF FamiliesListed, Queues
<1>7. QED BY <1>2, <1>3, <1>4, <1>5, <1>6 DEF DeviceStep

\* An answer leaves the documents documents.
LEMMA DocsStep ==
  ASSUME TypeInv, NEW d \in Device, Server(d)
  PROVE  /\ users' \in [User -> UserDoc]
         /\ family' \in SUBSET FamilyId /\ channels' \in [FamilyId -> Nat]
<1> DEFINE w == Head(outbox[d])
<1>1. Dequeue(d) /\ Queues
  BY DEF Server, Accept, Refuse, Dequeue, TypeInv, TypeOK, Queues
<1>2. /\ w \in Write /\ w.fid \in FamilyId /\ w.fams \in SUBSET FamilyId
      /\ Owner[d] \in User
  BY <1>1, Dequeued, OwnerAssumption DEF Write
<1>3. CASE Accept(d)
  <2>1. \/ users' = users
        \/ users' = [users EXCEPT ![Owner[d]].familyId = w.fid]
        \/ users' = [users EXCEPT ![Owner[d]].familyId = w.fid,
                                 ![Owner[d]].families = w.fams]
    BY <1>3 DEF Accept, WriteUser
  <2>2. users[Owner[d]] \in UserDoc /\ users \in [User -> UserDoc]
    BY <1>2 DEF TypeInv, TypeOK
  <2>3. /\ [users[Owner[d]] EXCEPT !.familyId = w.fid] \in UserDoc
        /\ [users[Owner[d]] EXCEPT !.familyId = w.fid, !.families = w.fams] \in UserDoc
    BY <1>2, <2>2 DEF UserDoc
  <2>4. users' \in [User -> UserDoc]
    BY <1>2, <2>1, <2>2, <2>3
  <2>5. QED BY <1>2, <1>3, <2>4 DEF Accept, TypeInv, TypeOK
<1>4. CASE Refuse(d)
  BY <1>4 DEF Refuse, TypeInv, TypeOK
<1>5. QED BY <1>3, <1>4 DEF Server

\* Every step leaves the other variables in their types.
LEMMA OtherTypes ==
  ASSUME TypeInv, NEW d \in Device, DeviceStep(d)
  PROVE  TypeOK'
<1> USE MaxTapsAssumption, OwnerAssumption, OnAssumption DEF TypeInv, TypeOK
<1>1. Queues' /\ OpType'
  BY QueuesStep, OpStep
<1>2. SUFFICES /\ users' \in [User -> UserDoc] /\ family' \in SUBSET FamilyId
               /\ channels' \in [FamilyId -> Nat]
               /\ listed' \in [Device -> SUBSET FamilyId]
               /\ taps' \in [Device -> 0..MaxTaps] /\ overlapped' \in SUBSET Device
               /\ confirmed' \in [User -> SUBSET FamilyId]
  BY <1>1 DEF Queues, OpType
<1>3. ASSUME NEW t \in Task, On[t] = d, TaskStep(t)
      PROVE  /\ listed' \in [Device -> SUBSET FamilyId]
             /\ taps' \in [Device -> 0..MaxTaps] /\ overlapped' \in SUBSET Device
             /\ confirmed' \in [User -> SUBSET FamilyId]
  <2>1. listed' \in [Device -> SUBSET FamilyId] /\ overlapped' \in SUBSET Device
    BY <1>3, TaskRest
  <2>2. taps' \in [Device -> 0..MaxTaps]
    <3>1. taps' = taps \/ TapOn(d)
      BY <1>3, TaskRest
    <3>2. TapOn(d) => taps[d] + 1 \in 0..MaxTaps
      BY DEF TapOn
    <3>3. QED BY <3>1, <3>2 DEF TapOn
  <2>3. confirmed' \in [User -> SUBSET FamilyId]
    <3>1. CASE UserSaved(t)
      BY <1>3, <3>1 DEF UserSaved, At, Busy
    <3>2. QED BY <1>3, <3>1, TaskRest
  <2>4. QED BY <2>1, <2>2, <2>3
<1>4. ASSUME NEW f \in FamilyId, FamilyTapped(d, f)
      PROVE  /\ listed' \in [Device -> SUBSET FamilyId]
             /\ taps' \in [Device -> 0..MaxTaps]
  BY <1>4 DEF FamilyTapped, TapOn
<1>5. CASE Server(d)
  BY <1>5, DocsStep, ServerRest
<1>6. CASE FamiliesListed(d)
  BY <1>6 DEF FamiliesListed
<1>7. CASE Restart(d)
  BY <1>7 DEF Restart
<1>8. CASE \E t \in Task : On[t] = d /\ TaskStep(t)
  BY <1>3, <1>8, TaskRest
<1>9. CASE \E f \in FamilyId : FamilyTapped(d, f)
  BY <1>4, <1>9 DEF FamilyTapped
<1>10. QED BY <1>5, <1>6, <1>7, <1>8, <1>9 DEF DeviceStep


\* Operations other than t are as they were; no write of q is awaited by t.
LEMMA TagsKept ==
  ASSUME NEW o1, NEW o2, NEW t, NEW d, NEW q, QueueTagged(o1, d, q),
         \A u \in Task : u # t => o2[u] = o1[u],
         t \in Task => o1[t].stage \notin {"creating", "saving"}
  PROVE  /\ QueueTagged(o2, d, q)
         /\ \A i \in DOMAIN q : q[i].by = t => t = Nobody
<1>1. \A i \in DOMAIN q : q[i].by = t => t = Nobody
  BY DEF QueueTagged, Waited
<1>2. ASSUME NEW i \in DOMAIN q PROVE Waited(o2, d, q[i])
  <2>1. Waited(o1, d, q[i])
    BY <1>2 DEF QueueTagged
  <2>2. QED BY <1>1, <1>2, <2>1 DEF Waited
<1>3. QED BY <1>1, <1>2 DEF QueueTagged

\* Every step keeps the writes with the operations that wait for them.
LEMMA TaggedStep ==
  ASSUME TypeInv, NEW d \in Device, DeviceStep(d)
  PROVE  Tagged'
<1>1. OpType /\ Queues /\ \A e \in Device : QueueTagged(op, e, outbox[e])
  BY DEF TypeInv, TypeOK, OpType, Queues, Tagged
<1>2. SUFFICES QueueTagged(op', d, outbox'[d])
  <2>1. ASSUME NEW e \in Device, e # d PROVE QueueTagged(op', e, outbox'[e])
    <3>1. outbox'[e] = outbox[e] /\ \A t \in Task : On[t] = e => op'[t] = op[t]
      BY <2>1, OthersKept
    <3>2. QED BY <1>1, <3>1 DEF QueueTagged, Waited
  <2>2. QED BY <1>2, <2>1 DEF Tagged
<1> DEFINE q == outbox[d]
           n == Len(q)
\* A write at the end that is awaited by nobody, or by the task that moved.
<1>3. ASSUME NEW w \in Write, Enqueue(d, w), Waited(op', d, w),
             NEW t, t \in Task => op[t].stage \notin {"creating", "saving"},
             \A u \in Task : u # t => op'[u] = op[u],
             w.by \in {Nobody, t}
      PROVE  QueueTagged(op', d, outbox'[d])
  <2>1. /\ n \in Nat /\ DOMAIN q = 1..n /\ DOMAIN outbox'[d] = 1..n + 1
        /\ \A i \in 1..n : outbox'[d][i] = q[i]
        /\ outbox'[d][n + 1] = w
    BY <1>1, <1>3, Enqueued
  <2>2. QueueTagged(op', d, q) /\ \A i \in DOMAIN q : q[i].by = t => t = Nobody
    BY <1>1, <1>3, TagsKept
  <2> HIDE DEF q, n
  <2>3. \A i \in 1..n + 1 : i \in 1..n \/ i = n + 1
    BY <2>1
  <2>4. \A i \in DOMAIN outbox'[d] : Waited(op', d, outbox'[d][i])
    BY <1>3, <2>1, <2>2, <2>3 DEF QueueTagged
  <2>5. ASSUME NEW i \in 1..n + 1, NEW j \in 1..n + 1, i # j,
               outbox'[d][i].by = outbox'[d][j].by
        PROVE  outbox'[d][i].by = Nobody
    <3>1. CASE i \in 1..n /\ j \in 1..n
      BY <2>1, <2>2, <2>5, <3>1 DEF QueueTagged
    <3>2. CASE i \in 1..n /\ j = n + 1
      BY <1>3, <2>1, <2>2, <2>5, <3>2
    <3>3. CASE i = n + 1 /\ j \in 1..n
      BY <1>3, <2>1, <2>2, <2>5, <3>3
    <3>4. QED BY <2>3, <2>5, <3>1, <3>2, <3>3
  <2>6. QED BY <2>1, <2>4, <2>5 DEF QueueTagged
<1>4. ASSUME NEW t \in Task, On[t] = d, TaskStep(t)
      PROVE  QueueTagged(op', d, outbox'[d])
  <2>1. PICK o \in Operation : Moves(t, o) /\ TaskTo(t, o)
    BY <1>1, <1>4, TaskMoves
  <2>2. op[t].stage \notin {"creating", "saving"}
    BY <1>1, <1>4, TaskMoves
  <2>3. op'[t] = o /\ \A u \in Task : u # t => op'[u] = op[u]
    BY <1>1, <2>1 DEF Moves, OpType
  <2>4. CASE outbox' = outbox
    BY <1>1, <2>2, <2>3, <2>4, TagsKept
  <2>5. ASSUME NEW w \in Write, Enqueue(d, w), TaskWrite(t, w)
        PROVE  QueueTagged(op', d, outbox'[d])
    <3>1. CASE \E f \in FamilyId : CreateTapped(t, f) /\ w = FamilyWrite(t, f)
      <4>1. PICK f \in FamilyId : CreateTapped(t, f) /\ w = FamilyWrite(t, f)
        BY <3>1
      <4>2. op'[t] = [stage |-> "creating", fid |-> f, seen |-> {}]
        BY <1>1, <4>1 DEF CreateTapped, OpType
      <4>3. Waited(op', d, w) /\ w.by = t
        BY <1>4, <4>1, <4>2 DEF Waited, FamilyWrite
      <4>4. QED BY <1>3, <2>2, <2>3, <2>5, <4>3
    <3>2. CASE FamilySaved(t) /\ w = ChannelWrite(op[t].fid)
      <4>1. Waited(op', d, w) /\ w.by = Nobody
        BY <3>2 DEF Waited, ChannelWrite
      <4>2. QED BY <1>3, <2>2, <2>3, <2>5, <4>1
    <3>3. CASE UserRead(t) /\ w = UserWrite(t, op[t].fid, Appended(op[t].seen, op[t].fid))
      <4>1. op'[t].stage = "saving" /\ op'[t].fid = op[t].fid
        <5>1. op' = [op EXCEPT ![t].stage = "saving", ![t].seen = {}]
          BY <3>3 DEF UserRead
        <5>2. Moves(t, [stage |-> "saving", fid |-> op[t].fid, seen |-> {}])
          BY <1>1, <5>1, Moved DEF Stage
        <5>3. QED BY <1>1, <5>2 DEF Moves, OpType
      <4>2. Waited(op', d, w) /\ w.by = t
        BY <1>4, <3>3, <4>1 DEF Waited, UserWrite, Appended
      <4>3. QED BY <1>3, <2>2, <2>3, <2>5, <4>2
    <3>4. QED BY <2>5, <3>1, <3>2, <3>3 DEF TaskWrite
  <2>6. QED BY <1>1, <1>4, <2>4, <2>5, TaskWrites
<1>5. ASSUME NEW f \in FamilyId, FamilyTapped(d, f) PROVE QueueTagged(op', d, outbox'[d])
  <2> DEFINE w == SwitchWrite(f)
  <2>1. w \in Write /\ w.by = Nobody /\ Waited(op', d, w)
    BY DEF SwitchWrite, Write, WriteKind, Waited
  <2>2. Enqueue(d, w) /\ op' = op
    BY <1>5 DEF FamilyTapped
  <2> HIDE DEF w
  <2>3. QED BY <1>3, <2>1, <2>2, NobodyAssumption
<1>6. CASE FamiliesListed(d)
  BY <1>1, <1>6 DEF FamiliesListed, QueueTagged, Waited
<1>7. CASE Restart(d)
  <2>1. DOMAIN outbox'[d] = DOMAIN q /\ \A i \in DOMAIN q : outbox'[d][i].by = Nobody
    <3>1. /\ DOMAIN outbox'[d] = DOMAIN q
          /\ \A i \in DOMAIN q : outbox'[d][i] = Untagged(q[i])
      BY <1>1, <1>7, Restarted
    <3>2. \A i \in DOMAIN q : Untagged(q[i]).by = Nobody
      BY DEF Untagged
    <3>3. QED BY <3>1, <3>2
  <2>2. QED BY <2>1 DEF QueueTagged, Waited
<1>8. CASE Server(d)
  <2>1. /\ n \in Nat /\ DOMAIN q = 1..n /\ n >= 1 /\ Head(q) = q[1]
        /\ DOMAIN outbox'[d] = 1..n - 1
        /\ \A i \in 1..n - 1 : outbox'[d][i] = q[i + 1]
    BY <1>1, <1>8, ServerMoves, Dequeued
  <2>2. \A t \in Task : t # Head(q).by => op'[t] = op[t]
    <3>1. ASSUME NEW o \in Task, NEW s \in Stage, Woken(d, o, s)
          PROVE  \A t \in Task : t # Head(q).by => op'[t] = op[t]
      BY <1>1, <3>1 DEF Woken, Moves, OpType
    <3>2. op' = op \/ \E o \in Task, s \in Stage : Woken(d, o, s)
      BY <1>8, ServerMoves
    <3>3. QED BY <3>1, <3>2
  <2> HIDE DEF q, n
  <2>3. QueueTagged(op, d, q)
    BY <1>1 DEF q
  <2>4. ASSUME NEW i \in 1..n - 1 PROVE Waited(op', d, outbox'[d][i])
    <3>1. i + 1 \in DOMAIN q /\ 1 \in DOMAIN q /\ i + 1 # 1
      BY <2>1, <2>4
    <3>2. q[i + 1].by = Nobody \/ q[i + 1].by # q[1].by
      BY <2>3, <3>1 DEF QueueTagged
    <3>3. Waited(op, d, q[i + 1])
      BY <2>3, <3>1 DEF QueueTagged
    <3>4. QED BY <2>1, <2>2, <2>4, <3>2, <3>3 DEF Waited
  <2>5. ASSUME NEW i \in 1..n - 1, NEW j \in 1..n - 1, i # j,
               outbox'[d][i].by = outbox'[d][j].by
        PROVE  outbox'[d][i].by = Nobody
    <3>1. i + 1 \in DOMAIN q /\ j + 1 \in DOMAIN q /\ i + 1 # j + 1
      BY <2>1, <2>5
    <3>2. q[i + 1].by = q[j + 1].by
      BY <2>1, <2>5
    <3>3. QED BY <2>1, <2>3, <2>5, <3>1, <3>2 DEF QueueTagged
  <2>6. QED BY <2>1, <2>4, <2>5 DEF QueueTagged
<1>9. QED BY <1>4, <1>5, <1>6, <1>7, <1>8 DEF DeviceStep

\* Every step keeps the types.
LEMMA TypeStep == TypeInv /\ [Next]_vars => TypeInv'
<1> SUFFICES ASSUME TypeInv, [Next]_vars PROVE TypeInv'
  OBVIOUS
<1>1. CASE UNCHANGED vars
  BY <1>1 DEF vars, TypeInv, TypeOK, Busy, Tagged
<1>2. ASSUME NEW d \in Device, DeviceStep(d) PROVE TypeInv'
  BY <1>2, OtherTypes, OpStep, TaggedStep DEF TypeInv, OpType
<1>3. QED BY <1>1, <1>2, NextDevice

\* Every variable keeps its type, on any number of devices and with any number
\* of overlapping operations: in particular no page ever writes the empty
\* familyId of a new account, and no answer wakes a task that does not wait.
THEOREM TypeCorrect == Spec => []TypeOK
<1>1. TypeInv => TypeOK
  BY DEF TypeInv
<1>2. QED
  BY TypeInit, TypeStep, <1>1, PTL DEF Spec

(***************************************************************************)
(* What a step does to the writes of a device.                             *)
(***************************************************************************)

\* The write w that a step of device d adds to its queue.
StepWrite(d, w) ==
  \/ \E t \in Task : On[t] = d /\ TaskStep(t) /\ TaskWrite(t, w)
  \/ \E f \in FamilyId : FamilyTapped(d, f) /\ w = SwitchWrite(f)

\* Only an answer changes a document; a step that is none adds a write, takes
\* the tags off, or leaves the queue alone.
LEMMA Writes ==
  ASSUME TypeInv, NEW d \in Device, DeviceStep(d)
  PROVE  \/ Server(d)
         \/ /\ UNCHANGED <<users, family, channels>>
            /\ \/ outbox' = outbox \/ Restart(d)
               \/ \E w \in Write : Enqueue(d, w) /\ StepWrite(d, w)
<1>1. OpType
  BY DEF TypeInv, TypeOK, OpType
<1>2. ASSUME NEW t \in Task, On[t] = d, TaskStep(t)
      PROVE  /\ UNCHANGED <<users, family, channels>>
             /\ \/ outbox' = outbox
                \/ \E w \in Write : Enqueue(d, w) /\ StepWrite(d, w)
  BY <1>1, <1>2, TaskRest, TaskWrites DEF StepWrite
<1>3. ASSUME NEW f \in FamilyId, FamilyTapped(d, f)
      PROVE  /\ UNCHANGED <<users, family, channels>>
             /\ \E w \in Write : Enqueue(d, w) /\ StepWrite(d, w)
  <2>1. SwitchWrite(f) \in Write
    BY DEF SwitchWrite, Write, WriteKind
  <2>2. QED BY <1>3, <2>1 DEF FamilyTapped, StepWrite
<1>4. CASE FamiliesListed(d) \/ Restart(d)
  BY <1>4 DEF FamiliesListed, Restart
<1>5. QED BY <1>2, <1>3, <1>4 DEF DeviceStep

\* No page removes a family.
LEMMA FamiliesStay ==
  ASSUME TypeInv, NEW d \in Device, DeviceStep(d)
  PROVE  family \subseteq family'
<1>1. CASE Server(d)
  BY <1>1 DEF Server, Accept, Refuse
<1>2. QED BY <1>1, Writes

(***************************************************************************)
(* Who waits for an answer gets one.                                       *)
(***************************************************************************)

\* The write that task t waits for is in the queue of its device.
Due(t) == \E i \in DOMAIN outbox[On[t]] : outbox[On[t]][i].by = t

AnswersDue == \A t \in Task : op[t].stage \in {"creating", "saving"} => Due(t)

\* A write at the end of a queue leaves those before it where they are.
LEMMA DueEnqueued ==
  ASSUME Queues, NEW d \in Device, NEW w \in Write, Enqueue(d, w),
         NEW t \in Task, On[t] = d, w.by = t \/ Due(t)
  PROVE  Due(t)'
<1>1. /\ Len(outbox[d]) \in Nat /\ DOMAIN outbox[d] = 1..Len(outbox[d])
      /\ DOMAIN outbox'[d] = 1..Len(outbox[d]) + 1
      /\ \A i \in 1..Len(outbox[d]) : outbox'[d][i] = outbox[d][i]
      /\ outbox'[d][Len(outbox[d]) + 1] = w
  BY Enqueued
<1>2. CASE w.by = t
  <2>1. Len(outbox[d]) + 1 \in DOMAIN outbox'[d]
    BY <1>1
  <2>2. QED BY <1>1, <1>2, <2>1 DEF Due
<1>3. CASE Due(t)
  <2>1. \A i \in DOMAIN outbox[d] : i \in DOMAIN outbox'[d]
    BY <1>1
  <2>2. QED BY <1>1, <1>3, <2>1 DEF Due
<1>4. QED BY <1>2, <1>3

\* An answer takes the write of the task it wakes only.
LEMMA DueDequeued ==
  ASSUME Queues, NEW d \in Device, Dequeue(d), NEW t \in Task, On[t] = d,
         Head(outbox[d]).by # t, Due(t)
  PROVE  Due(t)'
<1>1. /\ Len(outbox[d]) \in Nat /\ DOMAIN outbox[d] = 1..Len(outbox[d])
      /\ Head(outbox[d]) = outbox[d][1]
      /\ DOMAIN outbox'[d] = 1..Len(outbox[d]) - 1
      /\ \A i \in 1..Len(outbox[d]) - 1 : outbox'[d][i] = outbox[d][i + 1]
  BY Dequeued
<1>2. PICK i \in DOMAIN outbox[d] : outbox[d][i].by = t
  BY DEF Due
<1>3. i # 1
  BY <1>1, <1>2
<1>4. i - 1 \in 1..Len(outbox[d]) - 1 /\ (i - 1) + 1 = i
  BY <1>1, <1>2, <1>3
<1>5. i - 1 \in DOMAIN outbox'[d] /\ outbox'[d][i - 1] = outbox[d][i]
  BY <1>1, <1>4
<1>6. QED BY <1>2, <1>5 DEF Due

LEMMA DueStep ==
  ASSUME TypeInv, AnswersDue, NEW d \in Device, DeviceStep(d)
  PROVE  AnswersDue'
<1>1. OpType /\ Queues
  BY DEF TypeInv, TypeOK, OpType, Queues
<1> SUFFICES ASSUME NEW t \in Task, op'[t].stage \in {"creating", "saving"}
             PROVE  Due(t)'
  BY DEF AnswersDue
<1>2. CASE On[t] # d
  <2>1. outbox'[On[t]] = outbox[On[t]] /\ op'[t] = op[t]
    BY <1>2, OthersKept, OnAssumption
  <2>2. QED BY <2>1 DEF AnswersDue, Due
<1>3. ASSUME On[t] = d, NEW u \in Task, On[u] = d, TaskStep(u) PROVE Due(t)'
  <2>1. PICK o \in Operation : Moves(u, o) /\ TaskTo(u, o)
    BY <1>1, <1>3, TaskMoves
  <2>2. op'[u] = o /\ (t # u => op'[t] = op[t])
    BY <1>1, <2>1 DEF Moves, OpType
  <2>3. CASE t = u
    <3>1. UserRead(t) \/ \E f \in FamilyId : CreateTapped(t, f)
      BY <2>1, <2>2, <2>3 DEF TaskTo, Idle, Staged
    <3>2. PICK w \in Write : Enqueue(d, w) /\ TaskWrite(t, w)
      BY <1>1, <1>3, <2>3, <3>1, TaskWrites
    <3>3. ~FamilySaved(t)
      BY <3>1 DEF FamilySaved, UserRead, CreateTapped, Tap, At
    <3>4. w.by = t
      BY <3>2, <3>3 DEF TaskWrite, FamilyWrite, UserWrite
    <3>5. QED BY <1>1, <1>3, <3>2, <3>4, DueEnqueued
  <2>4. CASE t # u
    <3>1. Due(t)
      BY <2>2, <2>4 DEF AnswersDue
    <3>2. CASE outbox' = outbox
      BY <3>1, <3>2 DEF Due
    <3>3. ASSUME NEW w \in Write, Enqueue(d, w) PROVE Due(t)'
      BY <1>1, <1>3, <3>1, <3>3, DueEnqueued
    <3>4. QED BY <1>1, <1>3, <3>2, <3>3, TaskWrites
  <2>5. QED BY <2>3, <2>4
<1>4. ASSUME On[t] = d, NEW f \in FamilyId, FamilyTapped(d, f) PROVE Due(t)'
  <2>1. SwitchWrite(f) \in Write /\ Enqueue(d, SwitchWrite(f)) /\ op' = op
    BY <1>4 DEF SwitchWrite, Write, WriteKind, FamilyTapped
  <2>2. Due(t)
    BY <2>1 DEF AnswersDue
  <2>3. QED BY <1>1, <1>4, <2>1, <2>2, DueEnqueued
<1>5. CASE FamiliesListed(d)
  BY <1>5 DEF FamiliesListed, AnswersDue, Due
<1>6. CASE On[t] = d /\ Restart(d)
  BY <1>1, <1>6, RestartMoves DEF Idle
<1>7. CASE On[t] = d /\ Server(d)
  <2>1. Dequeue(d)
    BY <1>7, ServerMoves
  <2>2. op'[t] = op[t] /\ Head(outbox[d]).by # t
    <3>1. CASE op' = op /\ Head(outbox[d]).by = Nobody
      BY <3>1, NobodyAssumption
    <3>2. ASSUME NEW u \in Task, NEW s \in Stage, Woken(d, u, s)
          PROVE  op'[t] = op[t] /\ Head(outbox[d]).by # t
      <4>1. /\ op'[u].stage = s /\ s \notin {"creating", "saving"}
            /\ Head(outbox[d]).by = u
            /\ t # u => op'[t] = op[t]
        BY <1>1, <3>2 DEF Woken, Moves, OpType, Staged
      <4>2. QED BY <4>1
    <3>3. QED BY <1>7, <3>1, <3>2, ServerMoves
  <2>3. Due(t)
    BY <2>2 DEF AnswersDue
  <2>4. QED BY <1>1, <1>7, <2>1, <2>2, <2>3, DueDequeued
<1>8. QED BY <1>2, <1>3, <1>4, <1>5, <1>6, <1>7 DEF DeviceStep

\* The safety half of Answered: an operation that waits for the server has its
\* write in the queue of its device, through answers, refusals and other
\* operations of the same device, until it is answered or the app restarts.
THEOREM WaitingIsAnswered == Spec => []AnswersDue
<1>1. Init => AnswersDue
  BY DEF Init, Idle, AnswersDue
<1>2. TypeInv /\ AnswersDue /\ [Next]_vars => AnswersDue'
  <2>1. UNCHANGED vars /\ AnswersDue => AnswersDue'
    BY DEF vars, AnswersDue, Due
  <2>2. QED BY <2>1, NextDevice, DueStep
<1>3. QED
  BY TypeInit, TypeStep, <1>1, <1>2, PTL DEF Spec

(***************************************************************************)
(* A channel belongs to a family.                                          *)
(***************************************************************************)

\* The app goes on from the write of a family when the family is there.
FoundedExists == \A t \in Task : At(t, "founded") => op[t].fid \in family

\* A channel is written when the family is there.
PendingChannels ==
  \A d \in Device : \A i \in DOMAIN outbox[d] :
    outbox[d][i].kind = "channel" => outbox[d][i].fid \in family

ChannelInv == TypeInv /\ FoundedExists /\ PendingChannels /\ ChannelOfFamily

\* The initial state satisfies the invariant.
LEMMA ChannelInit == Init => ChannelInv
<1> SUFFICES ASSUME Init PROVE ChannelInv
  OBVIOUS
<1>1. TypeInv
  BY TypeInit
<1>2. \A d \in Device : DOMAIN outbox[d] = {}
  BY DEF Init
<1>3. FoundedExists /\ ChannelOfFamily
  BY DEF Init, FoundedExists, At, Idle, ChannelOfFamily
<1>4. QED BY <1>1, <1>2, <1>3 DEF ChannelInv, PendingChannels

\* The app only goes on from the write of a family that is there.
LEMMA FoundedStep ==
  ASSUME TypeInv, FoundedExists, NEW d \in Device, DeviceStep(d)
  PROVE  FoundedExists'
<1>1. OpType /\ family \subseteq family'
  BY FamiliesStay DEF TypeInv, TypeOK, OpType
<1>2. ASSUME NEW t \in Task, NEW o \in Operation, Moves(t, o),
             o.stage = "founded" => o.fid \in family'
      PROVE  FoundedExists'
  <2>1. op'[t] = o /\ \A u \in Task : u # t => op'[u] = op[u]
    BY <1>1, <1>2 DEF Moves, OpType
  <2>2. QED BY <1>1, <1>2, <2>1 DEF FoundedExists, At
<1>3. ASSUME NEW t \in Task, TaskStep(t) PROVE FoundedExists'
  <2>1. PICK o \in Operation : Moves(t, o) /\ TaskTo(t, o)
    BY <1>1, <1>3, TaskMoves
  <2>2. o.stage # "founded"
    BY <2>1 DEF TaskTo, Staged, Idle
  <2>3. QED BY <1>2, <2>1, <2>2
<1>4. CASE Server(d)
  <2>1. CASE op' = op
    BY <1>1, <2>1 DEF FoundedExists, At
  <2>2. ASSUME NEW t \in Task, NEW s \in Stage, Woken(d, t, s) PROVE FoundedExists'
    <3>1. op[t] \in Operation /\ Staged(t, s) \in Operation
      BY <1>1 DEF OpType, Operation, Staged
    <3>2. Staged(t, s).stage = s /\ Staged(t, s).fid = op[t].fid
      BY DEF Staged
    <3>3. s = "founded" => op[t].fid \in family'
      BY <2>2, NobodyAssumption DEF Woken, Waited, Accept
    <3>4. QED BY <1>2, <2>2, <3>1, <3>2, <3>3 DEF Woken
  <2>3. QED BY <1>4, <2>1, <2>2, ServerMoves
<1>5. CASE Restart(d)
  <2>1. \A t \in Task : op'[t] = op[t] \/ op'[t].stage # "founded"
    BY <1>1, <1>5, RestartMoves DEF Idle
  <2>2. QED BY <1>1, <2>1 DEF FoundedExists, At
<1>6. CASE FamiliesListed(d) \/ \E f \in FamilyId : FamilyTapped(d, f)
  BY <1>1, <1>6 DEF FamiliesListed, FamilyTapped, FoundedExists, At
<1>7. QED BY <1>3, <1>4, <1>5, <1>6 DEF DeviceStep

\* Every step keeps the invariant.
LEMMA ChannelStep == ChannelInv /\ [Next]_vars => ChannelInv'
<1> SUFFICES ASSUME ChannelInv, [Next]_vars PROVE ChannelInv'
  OBVIOUS
<1>1. TypeInv /\ TypeInv' /\ FoundedExists /\ Queues
  BY TypeStep DEF ChannelInv, TypeInv, TypeOK, Queues
<1>2. CASE UNCHANGED vars
  BY <1>1, <1>2 DEF vars, ChannelInv, At, FoundedExists, PendingChannels, ChannelOfFamily
<1>3. ASSUME NEW d \in Device, DeviceStep(d) PROVE ChannelInv'
  <2>1. FoundedExists' /\ family \subseteq family'
    BY <1>1, <1>3, FoundedStep, FamiliesStay
  <2>2. SUFFICES PendingChannels' /\ ChannelOfFamily'
    BY <1>1, <2>1 DEF ChannelInv
  <2>3. SUFFICES /\ \A i \in DOMAIN outbox'[d] :
                      outbox'[d][i].kind = "channel" => outbox'[d][i].fid \in family'
                 /\ ChannelOfFamily'
    <3>1. \A e \in Device : e # d => outbox'[e] = outbox[e]
      BY <1>1, <1>3, OthersKept
    <3>2. QED BY <2>1, <2>3, <3>1 DEF PendingChannels, ChannelInv
  <2>4. \A i \in DOMAIN outbox[d] :
          outbox[d][i].kind = "channel" => outbox[d][i].fid \in family
    BY DEF PendingChannels, ChannelInv
  <2>5. channels' = channels => ChannelOfFamily'
    BY <2>1 DEF ChannelOfFamily, ChannelInv
  <2>6. CASE outbox' = outbox /\ channels' = channels
    BY <2>1, <2>4, <2>5, <2>6
  <2>7. CASE Restart(d)
    <3>1. /\ DOMAIN outbox'[d] = DOMAIN outbox[d]
          /\ \A i \in DOMAIN outbox[d] : outbox'[d][i] = Untagged(outbox[d][i])
      BY <1>1, <2>7, Restarted
    <3>2. \A w : Untagged(w).kind = w.kind /\ Untagged(w).fid = w.fid
      BY DEF Untagged
    <3>3. QED BY <2>1, <2>4, <2>5, <2>7, <3>1, <3>2 DEF Restart
  <2>8. ASSUME NEW w \in Write, Enqueue(d, w), StepWrite(d, w), channels' = channels
        PROVE  \A i \in DOMAIN outbox'[d] :
                 outbox'[d][i].kind = "channel" => outbox'[d][i].fid \in family'
    <3>1. w.kind = "channel" => w.fid \in family
      <4>1. \/ w.kind # "channel"
            \/ \E t \in Task : FamilySaved(t) /\ w = ChannelWrite(op[t].fid)
        BY <2>8 DEF StepWrite, TaskWrite, FamilyWrite, UserWrite, SwitchWrite
      <4>2. \A f : ChannelWrite(f).fid = f
        BY DEF ChannelWrite
      <4>3. \A t \in Task : FamilySaved(t) => op[t].fid \in family
        BY <1>1 DEF FamilySaved, FoundedExists
      <4>4. QED BY <4>1, <4>2, <4>3
    <3>2. /\ Len(outbox[d]) \in Nat /\ DOMAIN outbox[d] = 1..Len(outbox[d])
          /\ DOMAIN outbox'[d] = 1..Len(outbox[d]) + 1
          /\ \A i \in 1..Len(outbox[d]) : outbox'[d][i] = outbox[d][i]
          /\ outbox'[d][Len(outbox[d]) + 1] = w
      BY <1>1, <2>8, Enqueued
    <3>3. QED BY <2>1, <2>4, <3>1, <3>2
  <2>9. CASE Server(d)
    <3>1. /\ Len(outbox[d]) \in Nat /\ Len(outbox[d]) >= 1
          /\ DOMAIN outbox[d] = 1..Len(outbox[d])
          /\ Head(outbox[d]) \in Write /\ Head(outbox[d]) = outbox[d][1]
          /\ DOMAIN outbox'[d] = 1..Len(outbox[d]) - 1
          /\ \A i \in 1..Len(outbox[d]) - 1 : outbox'[d][i] = outbox[d][i + 1]
      BY <1>1, <2>9, ServerMoves, Dequeued
    <3>2. \A i \in DOMAIN outbox'[d] :
            outbox'[d][i].kind = "channel" => outbox'[d][i].fid \in family'
      BY <2>1, <2>4, <3>1
    <3>3. Head(outbox[d]).kind = "channel" => Head(outbox[d]).fid \in family
      BY <2>4, <3>1
    <3>4. ChannelOfFamily'
      <4>1. CASE channels' = channels
        BY <2>5, <4>1
      <4>2. CASE channels' # channels
        <5>1. /\ Head(outbox[d]).kind = "channel"
              /\ channels' = [channels EXCEPT ![Head(outbox[d]).fid] = @ + 1]
          BY <2>9, <4>2 DEF Server, Accept, Refuse
        <5>2. QED BY <1>1, <2>1, <3>3, <5>1 DEF ChannelOfFamily, ChannelInv, TypeInv, TypeOK
      <4>3. QED BY <4>1, <4>2
    <3>5. QED BY <3>2, <3>4
  <2>10. QED
    BY <1>1, <1>3, <2>5, <2>6, <2>7, <2>8, <2>9, Writes
<1>4. QED BY <1>2, <1>3, NextDevice

\* No chat channel is without a family, whatever the server refuses and
\* whenever an app is restarted, although nobody waits for the channel's write.
THEOREM ChannelsHaveFamilies == Spec => []ChannelOfFamily
<1>1. ChannelInv => ChannelOfFamily
  BY DEF ChannelInv
<1>2. QED
  BY ChannelInit, ChannelStep, <1>1, PTL DEF Spec

(***************************************************************************)
(* Every family on record exists.                                          *)
(***************************************************************************)

\* The families that have a document, or whose document is among the first
\* k - 1 writes of queue q.
KnownBy(known, q, k) ==
  known \cup {f \in FamilyId : \E j \in DOMAIN q :
                j < k /\ q[j].kind = "family" /\ q[j].fid = f}

WriteKnown(w, known) == /\ w.kind \in {"user", "switch"} => w.fid \in known
                        /\ w.kind = "user" => w.fams \subseteq known

\* The pending writes of a user name families that will be there by then.
PendingKnown ==
  \A d \in Device : \A i \in DOMAIN outbox[d] :
    WriteKnown(outbox[d][i], KnownBy(family, outbox[d], i))

\* What an operation is about to write is among the families its device sees.
OpKnown(o, seen) == /\ o.stage \in {"reading", "read"} => o.fid \in seen
                    /\ o.stage = "read" => o.seen \subseteq seen

\* What a device shows, and what it is about to write, is there or pending.
DeviceKnown == /\ \A d \in Device : listed[d] \subseteq SeenFamilies(d)
               /\ \A t \in Task : OpKnown(op[t], SeenFamilies(On[t]))

KnownInv == TypeInv /\ FoundedExists /\ PendingKnown /\ DeviceKnown /\ FamilyKnown

\* A write at the end of a queue leaves the families known to the others.
LEMMA KnownEnqueued ==
  ASSUME Queues, NEW d \in Device, NEW w \in Write, Enqueue(d, w), family' = family
  PROVE  /\ \A i \in 1..Len(outbox[d]) :
              KnownBy(family, outbox[d], i) \subseteq KnownBy(family', outbox'[d], i)
         /\ SeenFamilies(d) \subseteq KnownBy(family', outbox'[d], Len(outbox[d]) + 1)
         /\ SeenFamilies(d) \subseteq SeenFamilies(d)'
<1> DEFINE n == Len(outbox[d])
<1>1. /\ n \in Nat /\ DOMAIN outbox[d] = 1..n /\ DOMAIN outbox'[d] = 1..n + 1
      /\ \A i \in 1..n : outbox'[d][i] = outbox[d][i]
  BY Enqueued
<1> HIDE DEF n
<1>2. \A j \in DOMAIN outbox[d] : /\ j \in DOMAIN outbox'[d] /\ j < n + 1
                                  /\ outbox'[d][j] = outbox[d][j]
  BY <1>1
<1>3. \A i \in 1..n : KnownBy(family, outbox[d], i) \subseteq KnownBy(family', outbox'[d], i)
  BY <1>2 DEF KnownBy
<1>4. SeenFamilies(d) \subseteq KnownBy(family', outbox'[d], n + 1)
  BY <1>2 DEF KnownBy, SeenFamilies
<1>5. SeenFamilies(d) \subseteq SeenFamilies(d)'
  BY <1>2 DEF SeenFamilies
<1>6. QED BY <1>3, <1>4, <1>5 DEF n

\* The families known to the rest of a queue are those known when its head is
\* answered, provided the write of a family is accepted.
LEMMA KnownDequeued ==
  ASSUME Queues, NEW d \in Device, Dequeue(d), family \subseteq family',
         Head(outbox[d]).kind = "family" => Head(outbox[d]).fid \in family'
  PROVE  /\ \A i \in 1..Len(outbox[d]) - 1 :
              KnownBy(family, outbox[d], i + 1) \subseteq KnownBy(family', outbox'[d], i)
         /\ SeenFamilies(d) \subseteq SeenFamilies(d)'
<1> DEFINE q == outbox[d]
<1>1. /\ Len(q) \in Nat /\ Len(q) >= 1 /\ DOMAIN q = 1..Len(q)
      /\ DOMAIN outbox'[d] = 1..Len(q) - 1
      /\ \A i \in 1..Len(q) - 1 : outbox'[d][i] = q[i + 1]
      /\ Head(q) = q[1]
  BY Dequeued
<1>2. ASSUME NEW f \in FamilyId, NEW j \in DOMAIN q, q[j].kind = "family", q[j].fid = f
      PROVE  \/ f \in family'
             \/ /\ j - 1 \in DOMAIN outbox'[d]
                /\ outbox'[d][j - 1].kind = "family" /\ outbox'[d][j - 1].fid = f
  <2>1. CASE j = 1
    BY <1>1, <1>2, <2>1
  <2>2. CASE j # 1
    <3>1. j - 1 \in 1..Len(q) - 1 /\ (j - 1) + 1 = j
      BY <1>1, <1>2, <2>2
    <3>2. outbox'[d][j - 1] = q[j]
      BY <1>1, <3>1
    <3>3. QED BY <1>1, <1>2, <3>1, <3>2
  <2>3. QED BY <2>1, <2>2
<1>3. ASSUME NEW i \in 1..Len(q) - 1, NEW f \in KnownBy(family, q, i + 1)
      PROVE  f \in KnownBy(family', outbox'[d], i)
  <2>1. CASE f \in family
    BY <2>1 DEF KnownBy
  <2>2. CASE f \notin family
    <3>1. f \in FamilyId /\ \E j \in DOMAIN q : j < i + 1 /\ q[j].kind = "family" /\ q[j].fid = f
      BY <1>3, <2>2 DEF KnownBy
    <3>2. PICK j \in DOMAIN q : j < i + 1 /\ q[j].kind = "family" /\ q[j].fid = f
      BY <3>1
    <3>3. j - 1 < i
      BY <1>1, <3>2
    <3>4. QED BY <1>2, <3>1, <3>2, <3>3 DEF KnownBy
  <2>3. QED BY <2>1, <2>2
<1>4. SeenFamilies(d) \subseteq SeenFamilies(d)'
  BY <1>2 DEF SeenFamilies
<1>5. QED BY <1>3, <1>4

\* What is known only grows, so a write stays in order.
LEMMA KnownGrows ==
  ASSUME NEW w, NEW k1, NEW k2, k1 \subseteq k2, WriteKnown(w, k1)
  PROVE  WriteKnown(w, k2)
  BY DEF WriteKnown

\* A restart leaves what is known alone.
LEMMA KnownRestarted ==
  ASSUME Queues, NEW d \in Device, Restart(d)
  PROVE  /\ \A i : KnownBy(family, outbox[d], i) = KnownBy(family', outbox'[d], i)
         /\ SeenFamilies(d) = SeenFamilies(d)'
<1>1. /\ DOMAIN outbox'[d] = DOMAIN outbox[d] /\ family' = family
      /\ \A i \in DOMAIN outbox[d] : outbox'[d][i] = Untagged(outbox[d][i])
  BY Restarted DEF Restart
<1>2. \A w : Untagged(w).kind = w.kind /\ Untagged(w).fid = w.fid
  BY DEF Untagged
<1>3. \A i \in DOMAIN outbox[d] : /\ outbox'[d][i].kind = outbox[d][i].kind
                                  /\ outbox'[d][i].fid = outbox[d][i].fid
  BY <1>1, <1>2
<1>4. QED BY <1>1, <1>3 DEF KnownBy, SeenFamilies

\* The initial state satisfies the invariant.
LEMMA KnownInit == Init => KnownInv
<1> SUFFICES ASSUME Init PROVE KnownInv
  OBVIOUS
<1>1. ChannelInv
  BY ChannelInit
<1>2. \A d \in Device : DOMAIN outbox[d] = {}
  BY DEF Init
<1>3. PendingKnown
  BY <1>2 DEF PendingKnown
<1>4. DeviceKnown /\ FamilyKnown
  BY DEF Init, DeviceKnown, OpKnown, Idle, FamilyKnown
<1>5. QED BY <1>1, <1>3, <1>4 DEF ChannelInv, KnownInv

\* What a device reads of its user's families is known to it.
LEMMA SeesKnown ==
  ASSUME KnownInv, NEW d \in Device, NEW fams, Sees(d, fams)
  PROVE  fams \subseteq SeenFamilies(d)
<1>1. CASE fams = users[Owner[d]].families
  BY <1>1, OwnerAssumption DEF KnownInv, FamilyKnown, SeenFamilies
<1>2. CASE \E i \in DOMAIN outbox[d] : outbox[d][i].kind = "user" /\ fams = outbox[d][i].fams
  <2>1. PICK i \in DOMAIN outbox[d] : outbox[d][i].kind = "user" /\ fams = outbox[d][i].fams
    BY <1>2
  <2>2. fams \subseteq KnownBy(family, outbox[d], i)
    BY <2>1 DEF KnownInv, PendingKnown, WriteKnown
  <2>3. QED BY <2>2 DEF KnownBy, SeenFamilies
<1>3. QED BY <1>1, <1>2 DEF Sees

\* A device only writes families it knows.
LEMMA KnownWrites ==
  ASSUME KnownInv, NEW d \in Device, NEW w \in Write, StepWrite(d, w)
  PROVE  WriteKnown(w, SeenFamilies(d))
<1>1. CASE w.kind \notin {"user", "switch"}
  BY <1>1 DEF WriteKnown
<1>2. ASSUME NEW t \in Task, On[t] = d, UserRead(t),
             w = UserWrite(t, op[t].fid, Appended(op[t].seen, op[t].fid))
      PROVE  WriteKnown(w, SeenFamilies(d))
  <2>1. op[t].fid \in SeenFamilies(d) /\ op[t].seen \subseteq SeenFamilies(d)
    BY <1>2 DEF UserRead, At, KnownInv, DeviceKnown, OpKnown
  <2>2. w.fid = op[t].fid /\ w.fams = op[t].seen \cup {op[t].fid}
    BY <1>2 DEF UserWrite, Appended
  <2>3. QED BY <2>1, <2>2 DEF WriteKnown
<1>3. ASSUME NEW f \in FamilyId, FamilyTapped(d, f), w = SwitchWrite(f)
      PROVE  WriteKnown(w, SeenFamilies(d))
  <2>1. f \in SeenFamilies(d)
    BY <1>3 DEF FamilyTapped, KnownInv, DeviceKnown
  <2>2. w.fid = f /\ w.kind = "switch"
    BY <1>3 DEF SwitchWrite
  <2>3. QED BY <2>1, <2>2 DEF WriteKnown
<1>4. \A f, t : FamilyWrite(t, f).kind = "family" /\ ChannelWrite(f).kind = "channel"
  BY DEF FamilyWrite, ChannelWrite
<1>5. QED BY <1>1, <1>2, <1>3, <1>4 DEF StepWrite, TaskWrite

\* When the server accepts every family, an answer keeps what is known.
LEMMA FamilyAccepted ==
  ASSUME "family" \notin Refusable, NEW d \in Device, Server(d)
  PROVE  /\ Dequeue(d) /\ family \subseteq family'
         /\ Head(outbox[d]).kind = "family" => Head(outbox[d]).fid \in family'
  BY DEF Server, Accept, Refuse, OfMissingUser, Dequeue

\* Every step keeps the pending writes in order, and what a device sees.
LEMMA PendingStep ==
  ASSUME "family" \notin Refusable, KnownInv, NEW d \in Device, DeviceStep(d)
  PROVE  PendingKnown' /\ \A e \in Device : SeenFamilies(e) \subseteq SeenFamilies(e)'
<1>1. TypeInv /\ Queues /\ family \subseteq family'
  BY FamiliesStay DEF KnownInv, TypeInv, TypeOK, Queues
<1>2. ASSUME NEW e \in Device, outbox'[e] = outbox[e]
      PROVE  /\ \A i \in DOMAIN outbox'[e] :
                  WriteKnown(outbox'[e][i], KnownBy(family', outbox'[e], i))
             /\ SeenFamilies(e) \subseteq SeenFamilies(e)'
  <2>1. \A i \in DOMAIN outbox[e] :
          KnownBy(family, outbox[e], i) \subseteq KnownBy(family', outbox[e], i)
    BY <1>1 DEF KnownBy
  <2>2. \A i \in DOMAIN outbox[e] :
          WriteKnown(outbox[e][i], KnownBy(family, outbox[e], i))
    BY DEF KnownInv, PendingKnown
  <2>3. SeenFamilies(e) \subseteq SeenFamilies(e)'
    BY <1>1, <1>2 DEF SeenFamilies
  <2>4. QED BY <1>2, <2>1, <2>2, <2>3, KnownGrows
<1>3. SUFFICES /\ \A i \in DOMAIN outbox'[d] :
                    WriteKnown(outbox'[d][i], KnownBy(family', outbox'[d], i))
               /\ SeenFamilies(d) \subseteq SeenFamilies(d)'
  <2>1. \A e \in Device : e # d => outbox'[e] = outbox[e]
    BY <1>1, OthersKept
  <2>2. QED BY <1>2, <1>3, <2>1 DEF PendingKnown
<1>4. CASE outbox' = outbox
  BY <1>2, <1>4
<1>5. ASSUME NEW w \in Write, Enqueue(d, w), StepWrite(d, w), family' = family
      PROVE  /\ \A i \in DOMAIN outbox'[d] :
                  WriteKnown(outbox'[d][i], KnownBy(family', outbox'[d], i))
             /\ SeenFamilies(d) \subseteq SeenFamilies(d)'
  <2>1. WriteKnown(w, SeenFamilies(d))
    BY <1>5, KnownWrites
  <2>2. /\ \A i \in 1..Len(outbox[d]) :
             KnownBy(family, outbox[d], i) \subseteq KnownBy(family', outbox'[d], i)
        /\ SeenFamilies(d) \subseteq KnownBy(family', outbox'[d], Len(outbox[d]) + 1)
        /\ SeenFamilies(d) \subseteq SeenFamilies(d)'
    BY <1>1, <1>5, KnownEnqueued
  <2>3. /\ Len(outbox[d]) \in Nat
        /\ DOMAIN outbox[d] = 1..Len(outbox[d])
        /\ DOMAIN outbox'[d] = 1..Len(outbox[d]) + 1
        /\ \A i \in 1..Len(outbox[d]) : outbox'[d][i] = outbox[d][i]
        /\ outbox'[d][Len(outbox[d]) + 1] = w
    BY <1>1, <1>5, Enqueued
  <2>4. ASSUME NEW i \in 1..Len(outbox[d])
        PROVE  WriteKnown(outbox'[d][i], KnownBy(family', outbox'[d], i))
    <3>1. WriteKnown(outbox[d][i], KnownBy(family, outbox[d], i))
      BY <2>3 DEF KnownInv, PendingKnown
    <3>2. QED BY <2>2, <2>3, <3>1, KnownGrows
  <2>5. WriteKnown(w, KnownBy(family', outbox'[d], Len(outbox[d]) + 1))
    BY <2>1, <2>2, KnownGrows
  <2>6. \A i \in DOMAIN outbox'[d] : i \in 1..Len(outbox[d]) \/ i = Len(outbox[d]) + 1
    BY <2>3
  <2>7. QED BY <2>2, <2>3, <2>4, <2>5, <2>6
<1>6. CASE Server(d)
  <2>1. /\ Dequeue(d)
        /\ Head(outbox[d]).kind = "family" => Head(outbox[d]).fid \in family'
    BY <1>6, FamilyAccepted
  <2>2. /\ \A i \in 1..Len(outbox[d]) - 1 :
             KnownBy(family, outbox[d], i + 1) \subseteq KnownBy(family', outbox'[d], i)
        /\ SeenFamilies(d) \subseteq SeenFamilies(d)'
    BY <1>1, <2>1, KnownDequeued
  <2>3. ASSUME NEW i \in DOMAIN outbox'[d]
        PROVE  WriteKnown(outbox'[d][i], KnownBy(family', outbox'[d], i))
    <3>1. /\ i \in 1..Len(outbox[d]) - 1 /\ i + 1 \in DOMAIN outbox[d]
          /\ outbox'[d][i] = outbox[d][i + 1]
      <4>1. /\ Len(outbox[d]) \in Nat /\ DOMAIN outbox[d] = 1..Len(outbox[d])
            /\ DOMAIN outbox'[d] = 1..Len(outbox[d]) - 1
            /\ \A j \in 1..Len(outbox[d]) - 1 : outbox'[d][j] = outbox[d][j + 1]
        BY <1>1, <2>1, Dequeued
      <4>2. QED BY <2>3, <4>1
    <3>2. WriteKnown(outbox[d][i + 1], KnownBy(family, outbox[d], i + 1))
      BY <3>1 DEF KnownInv, PendingKnown
    <3>3. QED BY <2>2, <3>1, <3>2, KnownGrows
  <2>4. QED BY <2>2, <2>3
<1>7. CASE Restart(d)
  <2>1. /\ DOMAIN outbox'[d] = DOMAIN outbox[d]
        /\ \A i \in DOMAIN outbox[d] : outbox'[d][i] = Untagged(outbox[d][i])
    BY <1>1, <1>7, Restarted
  <2>2. \A w, k : WriteKnown(w, k) => WriteKnown(Untagged(w), k)
    BY DEF WriteKnown, Untagged
  <2>3. /\ \A i : KnownBy(family, outbox[d], i) = KnownBy(family', outbox'[d], i)
        /\ SeenFamilies(d) = SeenFamilies(d)'
    BY <1>1, <1>7, KnownRestarted
  <2>4. \A i \in DOMAIN outbox[d] :
          WriteKnown(outbox[d][i], KnownBy(family, outbox[d], i))
    BY DEF KnownInv, PendingKnown
  <2>5. QED BY <2>1, <2>2, <2>3, <2>4
<1>8. QED BY <1>1, <1>4, <1>5, <1>6, <1>7, Writes

\* Only an accepted write changes a user, and only the user of its device.
LEMMA UsersWritten ==
  ASSUME TypeInv, NEW d \in Device, DeviceStep(d)
  PROVE  /\ \A u \in User : u # Owner[d] => users'[u] = users[u]
         /\ \/ users'[Owner[d]].families = users[Owner[d]].families
            \/ /\ Accept(d) /\ Head(outbox[d]).kind = "user"
               /\ users'[Owner[d]].families = Head(outbox[d]).fams
         /\ \/ users'[Owner[d]].familyId = users[Owner[d]].familyId
            \/ /\ Accept(d) /\ Head(outbox[d]).kind \in {"user", "switch"}
               /\ users'[Owner[d]].familyId = Head(outbox[d]).fid
         /\ Accept(d) /\ Head(outbox[d]).kind = "user" =>
              users'[Owner[d]].families = Head(outbox[d]).fams
<1>1. Owner[d] \in User /\ users \in [User -> UserDoc] /\ users[Owner[d]] \in UserDoc
  BY OwnerAssumption DEF TypeInv, TypeOK
<1>2. CASE Accept(d)
  <2> DEFINE w == Head(outbox[d])
  <2>1. WriteUser(d, w)
    BY <1>2 DEF Accept
  <2>2. CASE w.kind = "user"
    <3>1. users' = [users EXCEPT ![Owner[d]].familyId = w.fid, ![Owner[d]].families = w.fams]
      BY <2>1, <2>2 DEF WriteUser
    <3>2. QED BY <1>1, <1>2, <2>2, <3>1 DEF UserDoc
  <2>3. CASE w.kind = "switch"
    <3>1. users' = [users EXCEPT ![Owner[d]].familyId = w.fid]
      BY <2>1, <2>3 DEF WriteUser
    <3>2. QED BY <1>1, <1>2, <2>3, <3>1 DEF UserDoc
  <2>4. CASE w.kind \notin {"user", "switch"}
    BY <2>1, <2>4 DEF WriteUser
  <2>5. QED BY <2>2, <2>3, <2>4
<1>3. CASE ~Accept(d)
  <2>1. users' = users
    BY <1>3, Writes DEF Server, Refuse
  <2>2. QED BY <1>3, <2>1
<1>4. QED BY <1>2, <1>3

\* An accepted write leaves a user with families that exist.
LEMMA FamilyKnownStep ==
  ASSUME KnownInv, NEW d \in Device, DeviceStep(d)
  PROVE  FamilyKnown'
<1>1. TypeInv /\ Queues /\ family \subseteq family'
  BY FamiliesStay DEF KnownInv, TypeInv, TypeOK, Queues
<1>2. Accept(d) => WriteKnown(Head(outbox[d]), family)
  <2>1. SUFFICES ASSUME Accept(d) PROVE WriteKnown(Head(outbox[d]), family)
    OBVIOUS
  <2>2. /\ 1 \in DOMAIN outbox[d] /\ Head(outbox[d]) = outbox[d][1]
        /\ \A j \in DOMAIN outbox[d] : ~(j < 1)
    BY <1>1, <2>1 DEF Accept, Queues
  <2>3. KnownBy(family, outbox[d], 1) = family
    BY <2>2 DEF KnownBy
  <2>4. QED BY <2>2, <2>3 DEF KnownInv, PendingKnown
<1>3. ASSUME NEW u \in User
      PROVE  users'[u].families \subseteq family' /\ users'[u].familyId \in family' \cup {NoFamily}
  <2>1. users[u].families \subseteq family /\ users[u].familyId \in family \cup {NoFamily}
    BY DEF KnownInv, FamilyKnown
  <2>2. CASE u # Owner[d]
    BY <1>1, <2>1, <2>2, UsersWritten
  <2>3. CASE u = Owner[d]
    <3>1. users'[u].families \subseteq family'
      BY <1>1, <1>2, <2>1, <2>3, UsersWritten DEF WriteKnown
    <3>2. users'[u].familyId \in family' \cup {NoFamily}
      BY <1>1, <1>2, <2>1, <2>3, UsersWritten DEF WriteKnown
    <3>3. QED BY <3>1, <3>2
  <2>4. QED BY <2>2, <2>3
<1>4. QED BY <1>3 DEF FamilyKnown

\* A list and an operation only name families their device sees.
LEMMA DeviceKnownStep ==
  ASSUME KnownInv, NEW d \in Device, DeviceStep(d), family \subseteq family',
         \A e \in Device : SeenFamilies(e) \subseteq SeenFamilies(e)'
  PROVE  DeviceKnown'
<1>1. /\ TypeInv /\ OpType /\ FoundedExists
      /\ \A e \in Device : listed[e] \subseteq SeenFamilies(e)
      /\ \A t \in Task : OpKnown(op[t], SeenFamilies(On[t])) /\ On[t] \in Device
  BY OnAssumption DEF KnownInv, DeviceKnown, TypeInv, TypeOK, OpType
<1>2. \A e \in Device : listed'[e] \subseteq SeenFamilies(e)
  <2>1. \A e \in Device : e # d => listed'[e] = listed[e]
    BY <1>1, OthersKept
  <2>2. listed \in [Device -> SUBSET FamilyId]
    BY <1>1 DEF TypeInv, TypeOK
  <2>3. listed'[d] \subseteq SeenFamilies(d)
    <3>1. CASE FamiliesListed(d)
      <4>1. PICK fams \in SUBSET FamilyId :
              fams \subseteq SeenFamilies(d) /\ listed' = [listed EXCEPT ![d] = @ \cup fams]
        BY <3>1 DEF FamiliesListed
      <4>2. listed'[d] = listed[d] \cup fams
        BY <2>2, <4>1
      <4>3. QED BY <1>1, <4>1, <4>2
    <3>2. CASE ~FamiliesListed(d)
      <4>1. listed' = listed \/ listed' = [listed EXCEPT ![d] = {}]
        BY <3>2, TaskRest, ServerRest DEF DeviceStep, FamilyTapped, Restart
      <4>2. QED BY <1>1, <2>2, <4>1
    <3>3. QED BY <3>1, <3>2
  <2>4. QED BY <1>1, <2>1, <2>3
<1>3. SUFFICES \A u \in Task : OpKnown(op'[u], SeenFamilies(On[u]))
  <2>1. \A u \in Task : OpKnown(op'[u], SeenFamilies(On[u])')
    BY <1>1, <1>3 DEF OpKnown
  <2>2. QED BY <1>2, <2>1 DEF DeviceKnown
<1>4. ASSUME NEW t \in Task, NEW o \in Operation, Moves(t, o),
             OpKnown(o, SeenFamilies(On[t]))
      PROVE  \A u \in Task : OpKnown(op'[u], SeenFamilies(On[u]))
  BY <1>1, <1>4 DEF Moves, OpType
<1>5. ASSUME NEW t \in Task, On[t] = d, TaskStep(t)
      PROVE  \A u \in Task : OpKnown(op'[u], SeenFamilies(On[u]))
  <2>1. PICK o \in Operation : Moves(t, o) /\ TaskTo(t, o)
    BY <1>1, <1>5, TaskMoves
  <2>2. OpKnown(o, SeenFamilies(d))
    <3>1. CASE o.stage \notin {"reading", "read"}
      BY <3>1 DEF OpKnown
    <3>2. CASE FamilySaved(t) /\ o = Staged(t, "reading")
      <4>1. op[t].fid \in family
        BY <1>1, <3>2 DEF FamilySaved, FoundedExists
      <4>2. QED BY <3>2, <4>1 DEF OpKnown, Staged, SeenFamilies
    <3>3. CASE op[t].fid \in SeenFamilies(On[t]) /\ o = Staged(t, "reading")
      BY <1>5, <3>3 DEF OpKnown, Staged
    <3>4. ASSUME NEW fams \in SUBSET FamilyId, UserAnswered(t), Sees(On[t], fams),
                 o = [stage |-> "read", fid |-> op[t].fid, seen |-> fams]
          PROVE  OpKnown(o, SeenFamilies(d))
      <4>1. op[t].fid \in SeenFamilies(d)
        BY <1>1, <1>5, <3>4 DEF UserAnswered, At, OpKnown
      <4>2. fams \subseteq SeenFamilies(d)
        BY <1>5, <3>4, SeesKnown
      <4>3. QED BY <3>4, <4>1, <4>2 DEF OpKnown
    <3>5. QED BY <2>1, <3>1, <3>2, <3>3, <3>4 DEF TaskTo, Idle, Staged
  <2>3. QED BY <1>4, <1>5, <2>1, <2>2
<1>6. CASE Server(d)
  <2>1. CASE op' = op
    BY <1>1, <2>1
  <2>2. ASSUME NEW t \in Task, NEW s \in Stage, Woken(d, t, s)
        PROVE  \A u \in Task : OpKnown(op'[u], SeenFamilies(On[u]))
    <3>1. Staged(t, s) \in Operation /\ Staged(t, s).stage \notin {"reading", "read"}
      BY <1>1, <2>2 DEF Woken, Staged, OpType, Operation
    <3>2. QED BY <1>4, <2>2, <3>1 DEF Woken, OpKnown
  <2>3. QED BY <1>1, <1>6, <2>1, <2>2, ServerMoves
<1>7. CASE Restart(d)
  <2>1. \A t \in Task : op'[t] = op[t] \/ op'[t].stage = "idle"
    BY <1>1, <1>7, RestartMoves DEF Idle
  <2>2. QED BY <1>1, <2>1 DEF OpKnown
<1>8. CASE FamiliesListed(d) \/ \E f \in FamilyId : FamilyTapped(d, f)
  BY <1>1, <1>8 DEF FamiliesListed, FamilyTapped
<1>9. QED BY <1>5, <1>6, <1>7, <1>8 DEF DeviceStep

\* Every step keeps the invariant.
LEMMA KnownStep ==
  ASSUME "family" \notin Refusable, KnownInv, [Next]_vars
  PROVE  KnownInv'
<1>1. TypeInv /\ TypeInv' /\ FoundedExists
  BY TypeStep DEF KnownInv
<1>2. CASE UNCHANGED vars
  <2>1. FoundedExists' /\ PendingKnown'
    BY <1>2 DEF vars, KnownInv, At, FoundedExists, PendingKnown
  <2>2. DeviceKnown' /\ FamilyKnown'
    BY <1>2 DEF vars, KnownInv, DeviceKnown, SeenFamilies, FamilyKnown
  <2>3. QED BY <1>1, <2>1, <2>2 DEF KnownInv
<1>3. ASSUME NEW d \in Device, DeviceStep(d) PROVE KnownInv'
  <2>1. FoundedExists' /\ family \subseteq family'
    BY <1>1, <1>3, FoundedStep, FamiliesStay
  <2>2. PendingKnown' /\ \A e \in Device : SeenFamilies(e) \subseteq SeenFamilies(e)'
    BY <1>3, PendingStep
  <2>3. FamilyKnown' /\ DeviceKnown'
    BY <1>3, <2>1, <2>2, FamilyKnownStep, DeviceKnownStep
  <2>4. QED BY <1>1, <2>1, <2>2, <2>3 DEF KnownInv
<1>4. QED BY <1>2, <1>3, NextDevice

\* If the server refuses no Family document, every family on a user's record
\* exists: on any number of devices, with any operations overlapping, from lists
\* and reads however old, across restarts.
THEOREM FamiliesExist ==
  ASSUME "family" \notin Refusable
  PROVE  Spec => []FamilyKnown
<1>1. KnownInv => FamilyKnown
  BY DEF KnownInv
<1>2. KnownInv /\ [Next]_vars => KnownInv'
  BY KnownStep
<1>3. QED
  BY KnownInit, <1>1, <1>2, PTL DEF Spec

\* What a user was told, or is about to be told, to be a member of.
ToldExists == /\ \A t \in Task : At(t, "saved") => op[t].fid \in family
              /\ \A u \in User : confirmed[u] \subseteq family

LEMMA ToldStep ==
  ASSUME KnownInv, ToldExists, NEW d \in Device, DeviceStep(d)
  PROVE  ToldExists'
<1>1. /\ TypeInv /\ OpType /\ Queues /\ family \subseteq family'
      /\ confirmed \in [User -> SUBSET FamilyId]
  BY FamiliesStay DEF KnownInv, TypeInv, TypeOK, OpType, Queues
<1>2. ASSUME NEW u \in User PROVE confirmed'[u] \subseteq family'
  <2>1. CASE confirmed' = confirmed
    BY <1>1, <2>1 DEF ToldExists
  <2>2. ASSUME NEW t \in Task, UserSaved(t) PROVE confirmed'[u] \subseteq family'
    <3>1. op[t].fid \in family
      BY <2>2 DEF UserSaved, ToldExists
    <3>2. confirmed' = [confirmed EXCEPT ![Owner[On[t]]] = @ \cup {op[t].fid}]
      BY <2>2 DEF UserSaved
    <3>3. confirmed'[u] \subseteq confirmed[u] \cup {op[t].fid}
      BY <1>1, <3>2
    <3>4. QED BY <1>1, <3>1, <3>3 DEF ToldExists
  <2>3. QED BY <2>1, <2>2, TaskRest, ServerRest
            DEF DeviceStep, FamiliesListed, Restart, FamilyTapped
<1>3. ASSUME NEW t \in Task, op'[t].stage = "saved" PROVE op'[t].fid \in family'
  <2>1. CASE op'[t] = op[t]
    BY <1>1, <1>3, <2>1 DEF ToldExists, At
  <2>2. ASSUME NEW u \in Task, On[u] = d, TaskStep(u) PROVE op'[t] = op[t]
    <3>1. PICK o \in Operation : Moves(u, o) /\ TaskTo(u, o)
      BY <1>1, <2>2, TaskMoves
    <3>2. o.stage # "saved"
      BY <3>1 DEF TaskTo, Idle, Staged
    <3>3. QED BY <1>1, <1>3, <3>1, <3>2 DEF Moves, OpType
  <2>3. CASE Server(d) /\ op'[t] # op[t]
    <3>1. PICK u \in Task, s \in Stage : Woken(d, u, s)
      BY <1>1, <2>3, ServerMoves
    <3>2. /\ t = u /\ op'[t].stage = s /\ op'[t].fid = op[t].fid
          /\ Accept(d) /\ Head(outbox[d]).kind = "user"
          /\ Head(outbox[d]).fid = op[t].fid
      BY <1>1, <1>3, <2>3, <3>1, NobodyAssumption
         DEF Woken, Waited, Moves, OpType, Staged
    <3>3. Head(outbox[d]).fid \in family
      <4>1. /\ 1 \in DOMAIN outbox[d] /\ Head(outbox[d]) = outbox[d][1]
            /\ \A j \in DOMAIN outbox[d] : ~(j < 1)
        BY <1>1, <3>2 DEF Accept, Queues
      <4>2. KnownBy(family, outbox[d], 1) = family
        BY <4>1 DEF KnownBy
      <4>3. QED BY <3>2, <4>1, <4>2 DEF KnownInv, PendingKnown, WriteKnown
    <3>4. QED BY <1>1, <3>2, <3>3
  <2>4. CASE Restart(d)
    BY <1>1, <1>3, <2>1, <2>4, RestartMoves DEF Idle
  <2>5. CASE FamiliesListed(d) \/ \E f \in FamilyId : FamilyTapped(d, f)
    BY <2>1, <2>5 DEF FamiliesListed, FamilyTapped
  <2>6. QED BY <2>1, <2>2, <2>3, <2>4, <2>5 DEF DeviceStep
<1>4. QED BY <1>2, <1>3 DEF ToldExists, At

\* If the server refuses no Family document, nobody is told to be a member of a
\* family that does not exist: not even by a join that found the family in the
\* queue of its own device.
THEOREM ConfirmedExist ==
  ASSUME "family" \notin Refusable
  PROVE  Spec => [](\A u \in User : confirmed[u] \subseteq family)
<1>1. KnownInv /\ [Next]_vars => KnownInv'
  BY KnownStep
<1>2. Init => ToldExists
  BY DEF Init, Idle, At, ToldExists
<1>3. KnownInv /\ ToldExists /\ [Next]_vars => ToldExists'
  <2>1. UNCHANGED vars /\ ToldExists => ToldExists'
    BY DEF vars, ToldExists, At
  <2>2. QED BY <2>1, NextDevice, ToldStep
<1>4. ToldExists => \A u \in User : confirmed[u] \subseteq family
  BY DEF ToldExists
<1>5. QED
  BY KnownInit, <1>1, <1>2, <1>3, <1>4, PTL DEF Spec

(***************************************************************************)
(* A user with one device, who starts no operation before the last one has *)
(* ended, never loses a family.                                            *)
(***************************************************************************)

\* On a device that was never overlapped, one operation is under way at most.
Alone == \A t, o \in Task :
  On[t] = On[o] /\ On[t] \notin overlapped /\ UnderWay(t) /\ UnderWay(o) => t = o

\* From the list fams that the server has, over the pending ones of queue q,
\* the list only grows.
Grows(fams, q) ==
  \A i \in DOMAIN q : q[i].kind = "user" =>
    /\ fams \subseteq q[i].fams
    /\ \A j \in DOMAIN q : i < j /\ q[j].kind = "user" => q[i].fams \subseteq q[j].fams

\* Nothing the server has, or is about to be told, is missing from the list seen.
Newest(seen, fams, q) ==
  fams \subseteq seen /\ \A i \in DOMAIN q : q[i].kind = "user" => q[i].fams \subseteq seen

Growing ==
  \A d \in Device : Sole(d) => Grows(users[Owner[d]].families, outbox[d])

\* What was read is still the newest when it is about to be written back.
Fresh == \A t \in Task :
  Sole(On[t]) /\ At(t, "read") =>
    Newest(op[t].seen, users[Owner[On[t]]].families, outbox[On[t]])

\* What is about to be confirmed is on record.
SavedKept == \A t \in Task :
  Sole(On[t]) /\ At(t, "saved") => op[t].fid \in users[Owner[On[t]]].families

SoleInv == TypeInv /\ Alone /\ Growing /\ Fresh /\ SavedKept /\ SoleConfirmedKept

\* The initial state satisfies the invariant.
LEMMA SoleInit == Init => SoleInv
<1> SUFFICES ASSUME Init PROVE SoleInv
  OBVIOUS
<1>1. \A d \in Device : DOMAIN outbox[d] = {}
  BY DEF Init
<1>2. Growing
  BY <1>1 DEF Growing, Grows
<1>3. Alone /\ Fresh /\ SavedKept
  BY DEF Init, Alone, Fresh, SavedKept, UnderWay, At, Idle
<1>4. SoleConfirmedKept
  BY OwnerAssumption DEF Init, SoleConfirmedKept
<1>5. QED BY TypeInit, <1>2, <1>3, <1>4 DEF SoleInv

\* A device that was overlapped stays so.
LEMMA SoleBefore ==
  ASSUME NEW d \in Device, DeviceStep(d)
  PROVE  /\ overlapped \subseteq overlapped'
         /\ \A e \in Device : Sole(e)' => Sole(e)
<1>1. overlapped \subseteq overlapped'
  <2>1. ASSUME NEW t \in Task, TaskStep(t) PROVE overlapped \subseteq overlapped'
    BY <2>1, TaskRest
  <2>2. CASE Server(d)
    BY <2>2, ServerRest
  <2>3. CASE FamiliesListed(d) \/ Restart(d) \/ \E f \in FamilyId : FamilyTapped(d, f)
    BY <2>3 DEF FamiliesListed, Restart, FamilyTapped
  <2>4. QED BY <2>1, <2>2, <2>3 DEF DeviceStep
<1>2. QED BY <1>1 DEF Sole

\* How an operation comes to have read the list, or to have it saved.
LEMMA Entered ==
  ASSUME TypeInv, NEW d \in Device, DeviceStep(d), NEW t \in Task, op'[t] # op[t]
  PROVE  /\ op'[t].stage = "read" =>
              /\ On[t] = d /\ UserAnswered(t)
              /\ Sees(d, op'[t].seen)
         /\ op'[t].stage = "saved" =>
              /\ On[t] = d /\ Accept(d) /\ Head(outbox[d]).kind = "user"
              /\ op'[t].fid \in Head(outbox[d]).fams
<1>1. OpType /\ op[t] \in Operation
  BY DEF TypeInv, TypeOK, OpType
<1>2. ASSUME NEW o \in Task, On[o] = d, TaskStep(o)
      PROVE  /\ op'[t].stage = "read" =>
                  On[t] = d /\ UserAnswered(t) /\ Sees(d, op'[t].seen)
             /\ op'[t].stage # "saved"
  <2>1. PICK p \in Operation : Moves(o, p) /\ TaskTo(o, p)
    BY <1>1, <1>2, TaskMoves
  <2>2. o = t /\ op'[t] = p
    BY <1>1, <2>1 DEF Moves, OpType
  <2>3. p.stage # "saved"
    BY <2>1 DEF TaskTo, Staged, Idle
  <2>4. p.stage = "read" => UserAnswered(t) /\ Sees(d, p.seen)
    BY <1>2, <2>1, <2>2 DEF TaskTo, Staged, Idle
  <2>5. QED BY <1>2, <2>2, <2>3, <2>4
<1>3. ASSUME Server(d)
      PROVE  /\ On[t] = d /\ op'[t].stage # "read"
             /\ op'[t].stage = "saved" =>
                  /\ Accept(d) /\ Head(outbox[d]).kind = "user"
                  /\ op'[t].fid \in Head(outbox[d]).fams
  <2>1. PICK o \in Task, s \in Stage : Woken(d, o, s)
    BY <1>3, ServerMoves
  <2>2. o = t /\ op'[t] = Staged(t, s)
    BY <1>1, <2>1 DEF Woken, Moves, OpType
  <2>3. /\ On[t] = d /\ s # "read"
        /\ Head(outbox[d]).fid = op[t].fid
        /\ s = "saved" => /\ Accept(d) /\ Head(outbox[d]).kind = "user"
                          /\ op[t].fid \in Head(outbox[d]).fams
    BY <2>1, <2>2, NobodyAssumption DEF Woken, Waited
  <2>4. QED BY <2>2, <2>3 DEF Staged
<1>4. CASE Server(d)
  BY <1>3, <1>4
<1>5. CASE Restart(d)
  <2>1. op'[t] = Idle
    BY <1>1, <1>5, RestartMoves
  <2>2. QED BY <2>1 DEF Idle
<1>6. CASE FamiliesListed(d) \/ \E f \in FamilyId : FamilyTapped(d, f)
  BY <1>6 DEF FamiliesListed, FamilyTapped
<1>7. QED BY <1>2, <1>4, <1>5, <1>6 DEF DeviceStep

\* A second operation under way marks the device as overlapped.
LEMMA AloneStep ==
  ASSUME TypeInv, Alone, NEW d \in Device, DeviceStep(d)
  PROVE  Alone'
<1>1. OpType /\ overlapped \subseteq overlapped'
  BY SoleBefore DEF TypeInv, TypeOK, OpType
<1>2. CASE \A u \in Task : op'[u].stage \notin {"idle", "stuck"} => UnderWay(u)
  BY <1>1, <1>2 DEF Alone, UnderWay
<1>3. ASSUME NEW t \in Task, TaskStep(t) PROVE Alone'
  <2>1. \A u \in Task : u # t => op'[u] = op[u]
    BY <1>1, <1>3, TaskMoves DEF Moves, OpType
  <2>2. CASE Callback(t)
    <3>1. UnderWay(t)
      BY <1>1, <1>3, <2>2, TaskMoves
    <3>2. QED BY <1>2, <2>1, <3>1 DEF UnderWay
  <2>3. CASE Tap(t)
    <3>1. overlapped' = IF \E o \in Task : On[o] = On[t] /\ UnderWay(o)
                        THEN overlapped \cup {On[t]} ELSE overlapped
      BY <2>3 DEF Tap
    <3>2. ~UnderWay(t)
      BY <2>3 DEF Tap, At, UnderWay
    <3>3. ASSUME NEW u \in Task, NEW o \in Task, On[u] = On[o], u # o,
                 op'[u].stage \notin {"idle", "stuck"}, op'[o].stage \notin {"idle", "stuck"}
          PROVE  On[u] \in overlapped'
      <4>1. CASE u # t /\ o # t
        BY <1>1, <2>1, <3>3, <4>1 DEF Alone, UnderWay
      <4>2. CASE u = t \/ o = t
        <5>1. PICK v \in {u, o} : v # t /\ On[v] = On[t] /\ UnderWay(v)
          BY <2>1, <3>3, <4>2 DEF UnderWay
        <5>2. QED BY <3>1, <3>3, <4>2, <5>1
      <4>3. QED BY <4>1, <4>2
    <3>4. QED BY <3>3 DEF Alone, UnderWay
  <2>4. QED BY <1>3, <2>2, <2>3 DEF TaskStep, CreateTapped, JoinTapped
<1>4. CASE Server(d)
  <2>1. ASSUME NEW t \in Task, NEW s \in Stage, Woken(d, t, s)
        PROVE  \A u \in Task : op'[u].stage \notin {"idle", "stuck"} => UnderWay(u)
    <3>1. UnderWay(t) /\ \A u \in Task : u # t => op'[u] = op[u]
      BY <1>1, <2>1, NobodyAssumption DEF Woken, Waited, UnderWay, Moves, OpType
    <3>2. QED BY <3>1 DEF UnderWay
  <2>2. QED BY <1>2, <1>4, <2>1, ServerMoves DEF UnderWay
<1>5. CASE Restart(d)
  <2>1. \A u \in Task : op'[u] = op[u] \/ op'[u].stage = "idle"
    BY <1>1, <1>5, RestartMoves DEF Idle
  <2>2. QED BY <1>2, <2>1 DEF UnderWay
<1>6. CASE FamiliesListed(d) \/ \E f \in FamilyId : FamilyTapped(d, f)
  BY <1>2, <1>6 DEF FamiliesListed, FamilyTapped, UnderWay
<1>7. QED BY <1>3, <1>4, <1>5, <1>6 DEF DeviceStep

\* A device reads the newest list.
LEMMA SeesNewest ==
  ASSUME TypeInv, NEW d \in Device, NEW fams, Sees(d, fams),
         Grows(users[Owner[d]].families, outbox[d])
  PROVE  Newest(fams, users[Owner[d]].families, outbox[d])
<1> DEFINE q == outbox[d]
           n == Len(q)
<1>1. n \in Nat /\ DOMAIN q = 1..n
  BY DEF TypeInv, TypeOK
<1>2. CASE (\A i \in DOMAIN q : q[i].kind # "user") /\ fams = users[Owner[d]].families
  BY <1>2 DEF Newest
<1>3. CASE \E k \in DOMAIN q : /\ q[k].kind = "user" /\ fams = q[k].fams
                               /\ \A j \in DOMAIN q : j > k => q[j].kind # "user"
  <2>1. PICK k \in DOMAIN q : /\ q[k].kind = "user" /\ fams = q[k].fams
                              /\ \A j \in DOMAIN q : j > k => q[j].kind # "user"
    BY <1>3
  <2>2. ASSUME NEW i \in DOMAIN q, q[i].kind = "user" PROVE q[i].fams \subseteq fams
    <3>1. i = k \/ i < k
      BY <1>1, <2>1, <2>2
    <3>2. QED BY <2>1, <2>2, <3>1 DEF Grows
  <2>3. QED BY <2>1, <2>2 DEF Grows, Newest
<1>4. QED BY <1>2, <1>3 DEF Sees

\* A write of the list is written by the operation that read it.
LEMMA ListWrite ==
  ASSUME SoleInv, NEW d \in Device, Sole(d), NEW w \in Write, StepWrite(d, w),
         w.kind = "user"
  PROVE  /\ Newest(w.fams, users[Owner[d]].families, outbox[d])
         /\ \E t \in Task : On[t] = d /\ UserRead(t)
<1>1. PICK t \in Task :
        /\ On[t] = d /\ UserRead(t)
        /\ w = UserWrite(t, op[t].fid, Appended(op[t].seen, op[t].fid))
  <2>1. \A f, t : /\ FamilyWrite(t, f).kind = "family" /\ ChannelWrite(f).kind = "channel"
                  /\ SwitchWrite(f).kind = "switch"
    BY DEF FamilyWrite, ChannelWrite, SwitchWrite
  <2>2. QED BY <2>1 DEF StepWrite, TaskWrite
<1>2. Newest(op[t].seen, users[Owner[d]].families, outbox[d])
  BY <1>1 DEF SoleInv, Fresh, UserRead
<1>3. w.fams = op[t].seen \cup {op[t].fid}
  BY <1>1 DEF UserWrite, Appended
<1>4. Newest(w.fams, users[Owner[d]].families, outbox[d])
  BY <1>2, <1>3 DEF Newest
<1>5. QED BY <1>1, <1>4

\* A step of the only device of a user keeps its pending lists growing.
LEMMA GrowingStep ==
  ASSUME SoleInv, NEW d \in Device, Sole(d), DeviceStep(d)
  PROVE  Grows(users'[Owner[d]].families, outbox'[d])
<1> DEFINE q == outbox[d]
           n == Len(q)
           have == users[Owner[d]].families
<1>1. /\ TypeInv /\ Queues /\ n \in Nat /\ DOMAIN q = 1..n
      /\ Grows(have, q)
  BY DEF SoleInv, TypeInv, TypeOK, Queues, Growing
<1>2. CASE users' = users /\ outbox' = outbox
  BY <1>1, <1>2
<1>3. CASE users' = users /\ Restart(d)
  <2>1. /\ DOMAIN outbox'[d] = DOMAIN q
        /\ \A i \in DOMAIN q : outbox'[d][i] = Untagged(q[i])
    BY <1>1, <1>3, Restarted
  <2>2. \A w : Untagged(w).kind = w.kind /\ Untagged(w).fams = w.fams
    BY DEF Untagged
  <2> HIDE DEF q
  <2>3. QED BY <1>1, <1>3, <2>1, <2>2 DEF Grows
<1>4. ASSUME NEW w \in Write, Enqueue(d, w), StepWrite(d, w)
      PROVE  Grows(have, outbox'[d])
  <2>1. /\ DOMAIN outbox'[d] = 1..n + 1
        /\ \A i \in 1..n : outbox'[d][i] = q[i]
        /\ outbox'[d][n + 1] = w
    BY <1>1, <1>4, Enqueued
  <2>2. w.kind = "user" => Newest(w.fams, have, q)
    BY <1>4, ListWrite
  <2> HIDE DEF n, q, have
  <2>3. ASSUME NEW i \in 1..n + 1, outbox'[d][i].kind = "user"
        PROVE  /\ have \subseteq outbox'[d][i].fams
               /\ \A j \in 1..n + 1 : i < j /\ outbox'[d][j].kind = "user" =>
                    outbox'[d][i].fams \subseteq outbox'[d][j].fams
    <3>1. CASE i = n + 1
      BY <1>1, <2>1, <2>2, <2>3, <3>1 DEF Newest
    <3>2. CASE i \in 1..n
      <4>1. q[i].kind = "user" /\ i \in DOMAIN q /\ outbox'[d][i] = q[i]
        BY <1>1, <2>1, <2>3, <3>2
      <4>2. ASSUME NEW j \in 1..n + 1, i < j, outbox'[d][j].kind = "user"
            PROVE  q[i].fams \subseteq outbox'[d][j].fams
        <5>1. CASE j = n + 1
          BY <2>1, <2>2, <4>1, <4>2, <5>1 DEF Newest
        <5>2. CASE j \in 1..n
          BY <1>1, <2>1, <4>1, <4>2, <5>2 DEF Grows
        <5>3. QED BY <1>1, <5>1, <5>2
      <4>3. have \subseteq q[i].fams
        BY <1>1, <4>1 DEF Grows
      <4>4. QED BY <4>1, <4>2, <4>3
    <3>3. QED BY <1>1, <3>1, <3>2
  <2>4. QED BY <2>1, <2>3 DEF Grows
<1>5. CASE Server(d)
  <2>1. /\ n >= 1 /\ Head(q) = q[1] /\ DOMAIN outbox'[d] = 1..n - 1
        /\ \A i \in 1..n - 1 : outbox'[d][i] = q[i + 1]
    BY <1>1, <1>5, ServerMoves, Dequeued
  <2>2. \/ users'[Owner[d]].families = have
        \/ q[1].kind = "user" /\ users'[Owner[d]].families = q[1].fams
    BY <1>1, <2>1, UsersWritten
  <2> HIDE DEF n, q, have
  <2>3. ASSUME NEW i \in 1..n - 1, outbox'[d][i].kind = "user"
        PROVE  /\ users'[Owner[d]].families \subseteq outbox'[d][i].fams
               /\ \A j \in 1..n - 1 : i < j /\ outbox'[d][j].kind = "user" =>
                    outbox'[d][i].fams \subseteq outbox'[d][j].fams
    <3>1. /\ i + 1 \in DOMAIN q /\ outbox'[d][i] = q[i + 1] /\ 1 \in DOMAIN q
          /\ 1 < i + 1
      BY <1>1, <2>1
    <3>2. users'[Owner[d]].families \subseteq q[i + 1].fams
      BY <1>1, <2>2, <2>3, <3>1 DEF Grows
    <3>3. ASSUME NEW j \in 1..n - 1, i < j, outbox'[d][j].kind = "user"
          PROVE  q[i + 1].fams \subseteq q[j + 1].fams
      <4>1. j + 1 \in DOMAIN q /\ i + 1 < j + 1 /\ outbox'[d][j] = q[j + 1]
        BY <1>1, <2>1, <3>3
      <4>2. QED BY <1>1, <2>3, <3>1, <3>3, <4>1 DEF Grows
    <3>4. QED BY <2>1, <3>1, <3>2, <3>3
  <2>4. QED BY <2>1, <2>3 DEF Grows
<1>6. QED BY <1>1, <1>2, <1>3, <1>4, <1>5, Writes

\* What an operation has read stays the newest until it writes.
LEMMA FreshStep ==
  ASSUME SoleInv, NEW d \in Device, DeviceStep(d), NEW t \in Task,
         Sole(On[t]), op'[t].stage = "read"
  PROVE  Newest(op'[t].seen, users'[Owner[On[t]]].families, outbox'[On[t]])
<1> DEFINE q == outbox[d]
           have == users[Owner[d]].families
<1>1. TypeInv /\ Queues /\ OpType /\ On[t] \in Device
  BY OnAssumption DEF SoleInv, TypeInv, TypeOK, Queues, OpType
<1>2. CASE On[t] # d
  <2>1. op'[t] = op[t] /\ outbox'[On[t]] = outbox[On[t]]
    BY <1>1, <1>2, OthersKept
  <2>2. users'[Owner[On[t]]] = users[Owner[On[t]]]
    BY <1>1, <1>2, UsersWritten, OwnerAssumption DEF Sole
  <2>3. QED BY <2>1, <2>2 DEF SoleInv, Fresh, At
<1>3. CASE On[t] = d /\ op'[t] # op[t]
  <2>1. UserAnswered(t) /\ Sees(d, op'[t].seen)
    BY <1>1, <1>3, Entered
  <2>2. Newest(op'[t].seen, have, q)
    BY <1>1, <1>3, <2>1, SeesNewest DEF SoleInv, Growing
  <2>3. UNCHANGED <<users, outbox>>
    BY <2>1 DEF UserAnswered
  <2>4. QED BY <1>3, <2>2, <2>3
<1>4. CASE On[t] = d /\ op'[t] = op[t]
  <2>1. Newest(op[t].seen, have, q) /\ UnderWay(t)
    BY <1>4 DEF SoleInv, Fresh, At, UnderWay
  <2>2. CASE UNCHANGED <<users, outbox>>
    BY <1>4, <2>1, <2>2
  <2>3. ~Restart(d)
    BY <1>1, <1>4, RestartMoves DEF Idle
  <2>4. ASSUME NEW w \in Write, Enqueue(d, w), StepWrite(d, w), users' = users
        PROVE  Newest(op'[t].seen, users'[Owner[d]].families, outbox'[d])
    <3>1. w.kind # "user"
      <4>1. ASSUME w.kind = "user" PROVE FALSE
        <5>1. PICK o \in Task : On[o] = d /\ UserRead(o)
          BY <1>4, <2>4, <4>1, ListWrite
        <5>2. UnderWay(o)
          BY <5>1 DEF UserRead, At, UnderWay
        <5>3. o = t
          BY <1>4, <2>1, <5>1, <5>2 DEF SoleInv, Alone, Sole
        <5>4. op'[t].stage = "saving"
          <6>1. op' = [op EXCEPT ![t].stage = "saving", ![t].seen = {}]
            BY <5>1, <5>3 DEF UserRead
          <6>2. Moves(t, [stage |-> "saving", fid |-> op[t].fid, seen |-> {}])
            BY <1>1, <6>1, Moved DEF Stage
          <6>3. QED BY <1>1, <6>2 DEF Moves, OpType
        <5>5. QED BY <5>4
      <4>2. QED BY <4>1
    <3>2. /\ Len(q) \in Nat /\ DOMAIN q = 1..Len(q)
          /\ DOMAIN outbox'[d] = 1..Len(q) + 1
          /\ \A i \in 1..Len(q) : outbox'[d][i] = q[i]
          /\ outbox'[d][Len(q) + 1] = w
      BY <1>1, <2>4, Enqueued
    <3> HIDE DEF q, have
    <3>3. \A i \in DOMAIN outbox'[d] : outbox'[d][i].kind = "user" =>
            outbox'[d][i].fams \subseteq op[t].seen
      BY <2>1, <3>1, <3>2 DEF Newest
    <3>4. QED BY <1>4, <2>1, <2>4, <3>3 DEF Newest, have
  <2>5. CASE Server(d)
    <3>1. /\ Len(q) \in Nat /\ DOMAIN q = 1..Len(q) /\ Len(q) >= 1
          /\ Head(q) = q[1] /\ DOMAIN outbox'[d] = 1..Len(q) - 1
          /\ \A i \in 1..Len(q) - 1 : outbox'[d][i] = q[i + 1]
      BY <1>1, <2>5, ServerMoves, Dequeued
    <3>2. \/ users'[Owner[d]].families = have
          \/ q[1].kind = "user" /\ users'[Owner[d]].families = q[1].fams
      BY <1>1, <3>1, UsersWritten
    <3> HIDE DEF q, have
    <3>3. users'[Owner[d]].families \subseteq op[t].seen
      BY <2>1, <3>1, <3>2 DEF Newest
    <3>4. \A i \in DOMAIN outbox'[d] : outbox'[d][i].kind = "user" =>
            outbox'[d][i].fams \subseteq op[t].seen
      BY <2>1, <3>1 DEF Newest
    <3>5. QED BY <1>4, <3>3, <3>4 DEF Newest
  <2>6. QED BY <1>1, <1>4, <2>2, <2>3, <2>4, <2>5, Writes
<1>5. QED BY <1>2, <1>3, <1>4

\* No step takes a family from a user with one such device.
LEMMA NothingLost ==
  ASSUME SoleInv, NEW d \in Device, DeviceStep(d), NEW e \in Device, Sole(e)
  PROVE  users[Owner[e]].families \subseteq users'[Owner[e]].families
<1>1. TypeInv
  BY DEF SoleInv
<1>2. CASE e # d
  BY <1>1, <1>2, UsersWritten, OwnerAssumption DEF Sole
<1>3. CASE e = d /\ Accept(d) /\ Head(outbox[d]).kind = "user"
  <2>1. 1 \in DOMAIN outbox[d] /\ Head(outbox[d]) = outbox[d][1]
    BY <1>1, <1>3 DEF Accept, TypeInv, TypeOK
  <2>2. users[Owner[d]].families \subseteq Head(outbox[d]).fams
    BY <1>3, <2>1 DEF SoleInv, Growing, Grows
  <2>3. QED BY <1>1, <1>3, <2>2, UsersWritten
<1>4. CASE e = d /\ ~(Accept(d) /\ Head(outbox[d]).kind = "user")
  BY <1>1, <1>4, UsersWritten
<1>5. QED BY <1>2, <1>3, <1>4

\* What the app is about to confirm, and what it has confirmed, is on record.
LEMMA ConfirmedStep ==
  ASSUME SoleInv, NEW d \in Device, DeviceStep(d)
  PROVE  SavedKept' /\ SoleConfirmedKept'
<1>1. TypeInv /\ On \in [Task -> Device] /\ Owner \in [Device -> User]
  BY OnAssumption, OwnerAssumption DEF SoleInv
<1>2. ASSUME NEW t \in Task, Sole(On[t]), op'[t].stage = "saved"
      PROVE  op'[t].fid \in users'[Owner[On[t]]].families
  <2>1. CASE op'[t] = op[t]
    <3>1. op[t].fid \in users[Owner[On[t]]].families
      BY <1>2, <2>1 DEF SoleInv, SavedKept, At
    <3>2. QED BY <1>1, <1>2, <2>1, <3>1, NothingLost
  <2>2. CASE op'[t] # op[t]
    <3>1. /\ On[t] = d /\ Accept(d) /\ Head(outbox[d]).kind = "user"
          /\ op'[t].fid \in Head(outbox[d]).fams
      BY <1>1, <1>2, <2>2, Entered
    <3>2. QED BY <1>1, <3>1, UsersWritten
  <2>3. QED BY <2>1, <2>2
<1>3. ASSUME NEW e \in Device, Sole(e)
      PROVE  confirmed'[Owner[e]] \subseteq users'[Owner[e]].families
  <2>1. /\ confirmed[Owner[e]] \subseteq users[Owner[e]].families
        /\ users[Owner[e]].families \subseteq users'[Owner[e]].families
    BY <1>3, NothingLost DEF SoleInv, SoleConfirmedKept
  <2>2. CASE confirmed' = confirmed
    BY <2>1, <2>2
  <2>3. ASSUME NEW t \in Task, On[t] = d, UserSaved(t)
        PROVE  confirmed'[Owner[e]] \subseteq users'[Owner[e]].families
    <3>1. /\ Owner[e] # Owner[d] => confirmed'[Owner[e]] = confirmed[Owner[e]]
          /\ Owner[e] = Owner[d] =>
               confirmed'[Owner[e]] = confirmed[Owner[e]] \cup {op[t].fid}
      BY <1>1, <2>3 DEF UserSaved, TypeInv, TypeOK
    <3>2. Owner[e] = Owner[d] => op[t].fid \in users[Owner[e]].families
      BY <1>3, <2>3 DEF SoleInv, SavedKept, UserSaved, Sole
    <3>3. QED BY <2>1, <3>1, <3>2
  <2>4. confirmed' = confirmed \/ \E t \in Task : On[t] = d /\ UserSaved(t)
    BY TaskRest, ServerRest DEF DeviceStep, FamiliesListed, Restart, FamilyTapped
  <2>5. QED BY <2>2, <2>3, <2>4
<1>4. \A e \in Device : Sole(e)' => Sole(e)
  BY SoleBefore
<1>5. SavedKept'
  <2>1. \A t \in Task : Sole(On[t])' => Sole(On[t])
    BY <1>1, <1>4
  <2>2. QED BY <1>2, <2>1 DEF SavedKept, At
<1>6. SoleConfirmedKept'
  BY <1>3, <1>4 DEF SoleConfirmedKept
<1>7. QED BY <1>5, <1>6

\* Every step keeps the invariant, and takes no family from such a user.
LEMMA SoleStep ==
  ASSUME SoleInv, [Next]_vars
  PROVE  /\ SoleInv'
         /\ \A d \in Device : Sole(d) =>
              users[Owner[d]].families \subseteq users'[Owner[d]].families
<1>1. TypeInv /\ TypeInv' /\ On \in [Task -> Device]
  BY TypeStep, OnAssumption DEF SoleInv
<1>2. CASE UNCHANGED vars
  BY <1>1, <1>2 DEF vars, SoleInv, Alone, UnderWay, Growing, Fresh, SavedKept, At,
                    SoleConfirmedKept, Sole
<1>3. ASSUME NEW d \in Device, DeviceStep(d)
      PROVE  /\ SoleInv'
             /\ \A e \in Device : Sole(e) =>
                  users[Owner[e]].families \subseteq users'[Owner[e]].families
  <2>1. Alone' /\ SavedKept' /\ SoleConfirmedKept'
    BY <1>1, <1>3, AloneStep, ConfirmedStep DEF SoleInv
  <2>2. \A e \in Device : Sole(e)' => Sole(e)
    BY <1>3, SoleBefore
  <2>3. \A e \in Device : Sole(e) => Grows(users'[Owner[e]].families, outbox'[e])
    <3>1. ASSUME NEW e \in Device, Sole(e), e # d
          PROVE  Grows(users'[Owner[e]].families, outbox'[e])
      <4>1. outbox'[e] = outbox[e] /\ users'[Owner[e]] = users[Owner[e]]
        BY <1>1, <1>3, <3>1, OthersKept, UsersWritten, OwnerAssumption DEF Sole
      <4>2. QED BY <3>1, <4>1 DEF SoleInv, Growing
    <3>2. QED BY <1>3, <3>1, GrowingStep
  <2>4. Growing'
    BY <2>2, <2>3 DEF Growing
  <2>5. Fresh'
    <3>1. \A t \in Task : Sole(On[t])' => Sole(On[t])
      BY <1>1, <2>2
    <3>2. QED BY <1>3, <3>1, FreshStep DEF Fresh, At
  <2>6. QED BY <1>1, <1>3, <2>1, <2>4, <2>5, NothingLost DEF SoleInv
<1>4. QED BY <1>2, <1>3, NextDevice

\* A user with one device, who starts nothing before the last operation has
\* ended, keeps every family the app said was created or joined, whatever the
\* server refuses and however often the app is restarted.
THEOREM SoleUserKeepsFamilies == Spec => []SoleConfirmedKept
<1>1. SoleInv => SoleConfirmedKept
  BY DEF SoleInv
<1>2. SoleInv /\ [Next]_vars => SoleInv'
  BY SoleStep
<1>3. QED
  BY SoleInit, <1>1, <1>2, PTL DEF Spec

\* No write of such a user takes a family off the record.
THEOREM SoleUserNeverLeaves == Spec => SoleNeverLeaves
<1>1. SoleInv /\ [Next]_vars => SoleInv'
  BY SoleStep
<1>2. SoleInv /\ [Next]_vars =>
        [\A d \in Device : Sole(d) =>
           users[Owner[d]].families \subseteq users'[Owner[d]].families]_vars
  BY SoleStep
<1>3. QED
  BY SoleInit, <1>1, <1>2, PTL DEF Spec, SoleNeverLeaves

(***************************************************************************)
(* Refinement: users with one device each, devices with one operation at a *)
(* time, and a server that refuses no write but those of channels.         *)
(***************************************************************************)

\* The families that the user writes of queue q add; those of its first k - 1.
Fids(q) == {f \in FamilyId : \E j \in DOMAIN q : q[j].kind = "user" /\ q[j].fid = f}
Before(q, k) ==
  {f \in FamilyId : \E j \in DOMAIN q : j < k /\ q[j].kind = "user" /\ q[j].fid = f}

\* Each pending write adds its one family to what will be there by then, and a
\* switch is to a family that will have been joined.
Exact(u, q) ==
  \A i \in DOMAIN q :
    /\ q[i].kind = "user" => /\ u.exists
                             /\ q[i].fams = u.families \cup Before(q, i) \cup {q[i].fid}
    /\ q[i].kind = "switch" => q[i].fid \in u.families \cup Before(q, i)

\* The families device d takes its user to have.
Taken(d) == users[Owner[d]].families \cup Fids(outbox[d])

PendingExact == \A d \in Device : Exact(users[Owner[d]], outbox[d])
ListedTaken == \A d \in Device : listed[d] \subseteq Taken(d)
ReadTaken == \A t \in Task :
  At(t, "read") => users[Owner[On[t]]].exists /\ op[t].seen = Taken(On[t])

ExactInv == KnownInv /\ PendingExact /\ ListedTaken /\ ReadTaken

OneDeviceEach == \A d, e \in Device : Owner[d] = Owner[e] => d = e
OneTaskEach == \A t, o \in Task : On[t] = On[o] => t = o
ChannelsRefusable == Refusable \subseteq {"channel"}

\* What a write at the end of a queue adds.
LEMMA FidsEnqueued ==
  ASSUME Queues, NEW d \in Device, NEW w \in Write, Enqueue(d, w)
  PROVE  /\ \A i \in 1..Len(outbox[d]) : Before(outbox'[d], i) = Before(outbox[d], i)
         /\ Before(outbox'[d], Len(outbox[d]) + 1) = Fids(outbox[d])
         /\ w.kind = "user" => Fids(outbox'[d]) = Fids(outbox[d]) \cup {w.fid}
         /\ w.kind # "user" => Fids(outbox'[d]) = Fids(outbox[d])
<1> DEFINE q == outbox[d]
           n == Len(q)
<1>1. /\ n \in Nat /\ DOMAIN q = 1..n /\ DOMAIN outbox'[d] = 1..n + 1
      /\ \A i \in 1..n : outbox'[d][i] = q[i]
      /\ outbox'[d][n + 1] = w /\ w.fid \in FamilyId
  BY Enqueued DEF Write
<1> HIDE DEF n, q
<1>2. \A i \in 1..n : Before(outbox'[d], i) = Before(q, i)
  BY <1>1 DEF Before
<1>3. Before(outbox'[d], n + 1) = Fids(q)
  BY <1>1 DEF Before, Fids
<1>4. w.kind = "user" => Fids(outbox'[d]) = Fids(q) \cup {w.fid}
  BY <1>1 DEF Fids
<1>5. w.kind # "user" => Fids(outbox'[d]) = Fids(q)
  BY <1>1 DEF Fids
<1>6. QED BY <1>2, <1>3, <1>4, <1>5 DEF n, q

\* What the head of a queue added.
LEMMA FidsDequeued ==
  ASSUME Queues, NEW d \in Device, Dequeue(d)
  PROVE  LET added == IF Head(outbox[d]).kind = "user" THEN {Head(outbox[d]).fid} ELSE {}
         IN  /\ \A i \in 1..Len(outbox[d]) - 1 :
                  Before(outbox[d], i + 1) = Before(outbox'[d], i) \cup added
             /\ Fids(outbox[d]) = Fids(outbox'[d]) \cup added
             /\ Before(outbox[d], 1) = {}
<1> DEFINE q == outbox[d]
           n == Len(q)
           added == IF Head(q).kind = "user" THEN {Head(q).fid} ELSE {}
<1>1. /\ n \in Nat /\ n >= 1 /\ DOMAIN q = 1..n /\ DOMAIN outbox'[d] = 1..n - 1
      /\ \A i \in 1..n - 1 : outbox'[d][i] = q[i + 1]
      /\ Head(q) = q[1] /\ q[1].fid \in FamilyId
  BY Dequeued DEF Write
<1> HIDE DEF n, q
<1>2. \A j \in DOMAIN q : j = 1 \/ /\ j - 1 \in DOMAIN outbox'[d]
                                   /\ outbox'[d][j - 1] = q[j]
  BY <1>1
<1>3. \A j \in DOMAIN outbox'[d] : j + 1 \in DOMAIN q /\ outbox'[d][j] = q[j + 1]
  BY <1>1
<1>4. Before(q, 1) = {}
  BY <1>1 DEF Before
<1>5. ASSUME NEW i \in 1..n - 1 PROVE Before(q, i + 1) = Before(outbox'[d], i) \cup added
  <2>1. \A f \in Before(q, i + 1) : f \in Before(outbox'[d], i) \cup added
    <3>1. SUFFICES ASSUME NEW j \in DOMAIN q, j < i + 1, q[j].kind = "user",
                          q[j].fid \in FamilyId
                   PROVE  q[j].fid \in Before(outbox'[d], i) \cup added
      BY DEF Before
    <3>2. CASE j = 1
      BY <1>1, <3>1, <3>2
    <3>3. CASE j # 1
      <4>1. j - 1 < i
        BY <1>1, <3>1
      <4>2. QED BY <1>2, <3>1, <3>3, <4>1 DEF Before
    <3>4. QED BY <3>2, <3>3
  <2>2. \A f \in Before(outbox'[d], i) : f \in Before(q, i + 1)
    <3>1. SUFFICES ASSUME NEW j \in DOMAIN outbox'[d], j < i,
                          outbox'[d][j].kind = "user", outbox'[d][j].fid \in FamilyId
                   PROVE  outbox'[d][j].fid \in Before(q, i + 1)
      BY DEF Before
    <3>2. j + 1 < i + 1
      BY <1>1, <3>1
    <3>3. QED BY <1>3, <3>1, <3>2 DEF Before
  <2>3. \A f \in added : f \in Before(q, i + 1)
    <3>1. 1 \in DOMAIN q /\ 1 < i + 1
      BY <1>1
    <3>2. QED BY <1>1, <3>1 DEF Before
  <2> HIDE DEF added
  <2>4. QED BY <2>1, <2>2, <2>3
<1>6. Fids(q) = Fids(outbox'[d]) \cup added
  <2>1. \A f \in Fids(q) : f \in Fids(outbox'[d]) \cup added
    BY <1>1, <1>2 DEF Fids
  <2>2. \A f \in Fids(outbox'[d]) : f \in Fids(q)
    BY <1>3 DEF Fids
  <2>3. \A f \in added : f \in Fids(q)
    <3>1. 1 \in DOMAIN q
      BY <1>1
    <3>2. QED BY <1>1, <3>1 DEF Fids
  <2> HIDE DEF added
  <2>4. QED BY <2>1, <2>2, <2>3
<1>7. QED BY <1>4, <1>5, <1>6 DEF n, q

\* A restart adds nothing.
LEMMA FidsRestarted ==
  ASSUME Queues, NEW d \in Device, Restart(d), NEW u, Exact(u, outbox[d])
  PROVE  Exact(u, outbox'[d]) /\ Fids(outbox'[d]) = Fids(outbox[d])
<1>1. /\ DOMAIN outbox'[d] = DOMAIN outbox[d]
      /\ \A i \in DOMAIN outbox[d] : outbox'[d][i] = Untagged(outbox[d][i])
  BY Restarted
<1>2. \A w : /\ Untagged(w).kind = w.kind /\ Untagged(w).fid = w.fid
             /\ Untagged(w).fams = w.fams
  BY DEF Untagged
<1>3. \A i \in DOMAIN outbox[d] : /\ outbox'[d][i].kind = outbox[d][i].kind
                                  /\ outbox'[d][i].fid = outbox[d][i].fid
                                  /\ outbox'[d][i].fams = outbox[d][i].fams
  BY <1>1, <1>2
<1>4. /\ Fids(outbox'[d]) = Fids(outbox[d])
      /\ \A i : Before(outbox'[d], i) = Before(outbox[d], i)
  BY <1>1, <1>3 DEF Fids, Before
<1>5. QED BY <1>1, <1>3, <1>4 DEF Exact

\* A device reads all the families it takes its user to have.
LEMMA SeesTaken ==
  ASSUME TypeInv, PendingExact, NEW d \in Device, NEW fams, Sees(d, fams)
  PROVE  fams = Taken(d)
<1> DEFINE q == outbox[d]
           have == users[Owner[d]].families
<1>1. /\ Len(q) \in Nat /\ DOMAIN q = 1..Len(q)
      /\ \A i \in DOMAIN q : q[i].fid \in FamilyId
      /\ Exact(users[Owner[d]], q)
  <2>1. q \in Seq(Write) /\ Exact(users[Owner[d]], q)
    BY DEF TypeInv, TypeOK, PendingExact
  <2> HIDE DEF q
  <2>2. \A i \in DOMAIN q : q[i] \in Write
    BY <2>1
  <2>3. QED BY <2>1, <2>2 DEF Write
<1>2. CASE (\A i \in DOMAIN q : q[i].kind # "user") /\ fams = have
  BY <1>2 DEF Taken, Fids
<1>3. CASE \E k \in DOMAIN q : /\ q[k].kind = "user" /\ fams = q[k].fams
                               /\ \A j \in DOMAIN q : j > k => q[j].kind # "user"
  <2>1. PICK k \in DOMAIN q : /\ q[k].kind = "user" /\ fams = q[k].fams
                              /\ \A j \in DOMAIN q : j > k => q[j].kind # "user"
    BY <1>3
  <2>2. fams = have \cup Before(q, k) \cup {q[k].fid}
    BY <1>1, <2>1 DEF Exact
  <2> HIDE DEF q
  <2>3. \A j \in DOMAIN q : q[j].kind = "user" => j < k \/ j = k
    BY <1>1, <2>1
  <2>4. Fids(q) = Before(q, k) \cup {q[k].fid}
    BY <1>1, <2>1, <2>3 DEF Fids, Before
  <2>5. QED BY <2>2, <2>4 DEF Taken, q
<1>4. QED BY <1>2, <1>3 DEF Sees

\* No page writes or removes the document of an account.
LEMMA ExistsKept ==
  ASSUME TypeInv, NEW d \in Device, DeviceStep(d), NEW u \in User
  PROVE  users'[u].exists = users[u].exists
<1>1. CASE users' = users
  BY <1>1
<1>2. CASE Accept(d) /\ users' # users
  <2> DEFINE w == Head(outbox[d])
  <2>1. \/ users' = [users EXCEPT ![Owner[d]].familyId = w.fid]
        \/ users' = [users EXCEPT ![Owner[d]].familyId = w.fid,
                                 ![Owner[d]].families = w.fams]
    BY <1>2 DEF Accept, WriteUser
  <2>2. users \in [User -> UserDoc] /\ users[u] \in UserDoc
    BY DEF TypeInv, TypeOK
  <2> HIDE DEF w
  <2>3. QED BY <2>1, <2>2 DEF UserDoc
<1>3. QED BY <1>1, <1>2, Writes DEF Server, Refuse

\* The operation that writes the list has read all the families its device
\* takes the user to have; a switch is to one of them.
LEMMA ExactWrite ==
  ASSUME ExactInv, NEW d \in Device, NEW w \in Write, StepWrite(d, w)
  PROVE  /\ w.kind = "user" => /\ users[Owner[d]].exists
                               /\ w.fams = Taken(d) \cup {w.fid}
                               /\ \E t \in Task : On[t] = d /\ UserRead(t)
         /\ w.kind = "switch" => w.fid \in Taken(d)
<1>1. \A f, t : /\ FamilyWrite(t, f).kind = "family" /\ ChannelWrite(f).kind = "channel"
                /\ SwitchWrite(f).kind = "switch" /\ SwitchWrite(f).fid = f
  BY DEF FamilyWrite, ChannelWrite, SwitchWrite
<1>2. ASSUME w.kind = "user"
      PROVE  /\ users[Owner[d]].exists /\ w.fams = Taken(d) \cup {w.fid}
             /\ \E t \in Task : On[t] = d /\ UserRead(t)
  <2>1. PICK t \in Task :
          /\ On[t] = d /\ UserRead(t)
          /\ w = UserWrite(t, op[t].fid, Appended(op[t].seen, op[t].fid))
    BY <1>1, <1>2 DEF StepWrite, TaskWrite
  <2>2. users[Owner[d]].exists /\ op[t].seen = Taken(d)
    BY <2>1 DEF ExactInv, ReadTaken, UserRead
  <2>3. w.fid = op[t].fid /\ w.fams = op[t].seen \cup {op[t].fid}
    BY <2>1 DEF UserWrite, Appended
  <2>4. QED BY <2>1, <2>2, <2>3
<1>3. ASSUME w.kind = "switch" PROVE w.fid \in Taken(d)
  <2>1. PICK f \in FamilyId : FamilyTapped(d, f) /\ w = SwitchWrite(f)
    <3>1. \A t, f, fams : UserWrite(t, f, fams).kind = "user"
      BY DEF UserWrite
    <3>2. QED BY <1>1, <1>3, <3>1 DEF StepWrite, TaskWrite
  <2>2. QED BY <1>1, <2>1 DEF FamilyTapped, ExactInv, ListedTaken
<1>4. QED BY <1>2, <1>3

\* The server writes the list it is told, which adds one family to the one it has.
LEMMA ExactAnswer ==
  ASSUME ExactInv, ChannelsRefusable, NEW d \in Device, Server(d)
  PROVE  LET w == Head(outbox[d])
             added == IF w.kind = "user" THEN {w.fid} ELSE {}
         IN  /\ w.kind = "user" => Accept(d)
             /\ users'[Owner[d]].families = users[Owner[d]].families \cup added
<1> DEFINE w == Head(outbox[d])
<1>1. TypeInv /\ Queues /\ Dequeue(d) /\ DeviceStep(d)
  BY ServerMoves DEF ExactInv, KnownInv, TypeInv, TypeOK, Queues, DeviceStep
<1>2. 1 \in DOMAIN outbox[d] /\ w = outbox[d][1] /\ Before(outbox[d], 1) = {}
  <2>1. 1 \in DOMAIN outbox[d] /\ w = outbox[d][1]
    BY <1>1, Dequeued
  <2>2. Before(outbox[d], 1) = {}
    BY <1>1, FidsDequeued
  <2>3. QED BY <2>1, <2>2
<1>3. w.kind = "user" =>
        users[Owner[d]].exists /\ w.fams = users[Owner[d]].families \cup {w.fid}
  BY <1>2 DEF ExactInv, PendingExact, Exact
<1>4. w.kind = "user" => Accept(d)
  BY <1>3 DEF Server, Refuse, OfMissingUser, ChannelsRefusable
<1>5. QED BY <1>1, <1>3, <1>4, UsersWritten

\* What a step does to the families a device takes its user to have.
LEMMA TakenStep ==
  ASSUME ExactInv, OneDeviceEach, ChannelsRefusable, NEW d \in Device, DeviceStep(d)
  PROVE  /\ \A e \in Device : e # d =>
              users'[Owner[e]] = users[Owner[e]] /\ outbox'[e] = outbox[e]
         /\ Exact(users'[Owner[d]], outbox'[d])
         /\ Taken(d) \subseteq Taken(d)'
         /\ Taken(d)' = Taken(d) \/ \E t \in Task : On[t] = d /\ UserRead(t)
<1> DEFINE q == outbox[d]
           n == Len(q)
           u == users[Owner[d]]
<1>1. /\ TypeInv /\ Queues /\ n \in Nat /\ DOMAIN q = 1..n
      /\ Exact(u, q) /\ Taken(d) = u.families \cup Fids(q)
      /\ Taken(d)' = users'[Owner[d]].families \cup Fids(outbox'[d])
  BY DEF ExactInv, KnownInv, TypeInv, TypeOK, Queues, PendingExact, Taken
<1>2. \A e \in Device : e # d =>
        users'[Owner[e]] = users[Owner[e]] /\ outbox'[e] = outbox[e]
  BY <1>1, OthersKept, UsersWritten, OwnerAssumption DEF OneDeviceEach
<1>3. SUFFICES /\ Exact(users'[Owner[d]], outbox'[d])
               /\ Taken(d) \subseteq Taken(d)'
               /\ Taken(d)' = Taken(d) \/ \E t \in Task : On[t] = d /\ UserRead(t)
  BY <1>2
<1>4. CASE UNCHANGED <<users, outbox>>
  BY <1>1, <1>4
<1>5. CASE users' = users /\ Restart(d)
  BY <1>1, <1>5, FidsRestarted
<1>6. ASSUME NEW w \in Write, Enqueue(d, w), StepWrite(d, w), users' = users
      PROVE  /\ Exact(users'[Owner[d]], outbox'[d])
             /\ Taken(d) \subseteq Taken(d)'
             /\ Taken(d)' = Taken(d) \/ \E t \in Task : On[t] = d /\ UserRead(t)
  <2>1. /\ DOMAIN outbox'[d] = 1..n + 1
        /\ \A i \in 1..n : outbox'[d][i] = q[i]
        /\ outbox'[d][n + 1] = w
    BY <1>1, <1>6, Enqueued
  <2>2. /\ \A i \in 1..n : Before(outbox'[d], i) = Before(q, i)
        /\ Before(outbox'[d], n + 1) = Fids(q)
        /\ w.kind = "user" => Fids(outbox'[d]) = Fids(q) \cup {w.fid}
        /\ w.kind # "user" => Fids(outbox'[d]) = Fids(q)
    BY <1>1, <1>6, FidsEnqueued
  <2>3. /\ w.kind = "user" => /\ u.exists /\ w.fams = Taken(d) \cup {w.fid}
                              /\ \E t \in Task : On[t] = d /\ UserRead(t)
        /\ w.kind = "switch" => w.fid \in Taken(d)
    BY <1>6, ExactWrite
  <2>4. Taken(d) \subseteq Taken(d)'
    BY <1>1, <1>6, <2>2
  <2>5. Taken(d)' = Taken(d) \/ \E t \in Task : On[t] = d /\ UserRead(t)
    BY <1>1, <1>6, <2>2, <2>3
  <2> HIDE DEF n, q, u
  <2>6. \A i \in DOMAIN outbox'[d] : i \in 1..n \/ i = n + 1
    BY <1>1, <2>1
  <2>7. Exact(u, outbox'[d])
    BY <1>1, <2>1, <2>2, <2>3, <2>6 DEF Exact
  <2>8. QED BY <1>6, <2>4, <2>5, <2>7 DEF u
<1>7. CASE Server(d)
  <2> DEFINE added == IF Head(q).kind = "user" THEN {Head(q).fid} ELSE {}
             v == users'[Owner[d]]
  <2>1. /\ n >= 1 /\ DOMAIN outbox'[d] = 1..n - 1
        /\ \A i \in 1..n - 1 : outbox'[d][i] = q[i + 1]
    BY <1>1, <1>7, ServerMoves, Dequeued
  <2>2. /\ \A i \in 1..n - 1 : Before(q, i + 1) = Before(outbox'[d], i) \cup added
        /\ Fids(q) = Fids(outbox'[d]) \cup added
    BY <1>1, <1>7, ServerMoves, FidsDequeued
  <2>3. v.families = u.families \cup added /\ v.exists = u.exists
    BY <1>1, <1>7, ExactAnswer, ExistsKept, OwnerAssumption
  <2> HIDE DEF n, q, u, v, added
  <2>4. \A i \in DOMAIN outbox'[d] : i + 1 \in DOMAIN q /\ outbox'[d][i] = q[i + 1]
    BY <1>1, <2>1
  <2>5. Exact(v, outbox'[d])
    BY <1>1, <2>1, <2>2, <2>3, <2>4 DEF Exact
  <2>6. Taken(d)' = Taken(d)
    BY <1>1, <2>2, <2>3 DEF u, v, q
  <2>7. QED BY <2>5, <2>6 DEF v
<1>8. QED BY <1>1, <1>4, <1>5, <1>6, <1>7, Writes

\* Every step keeps the invariant.
LEMMA ExactStep ==
  ASSUME ExactInv, OneDeviceEach, OneTaskEach, ChannelsRefusable, [Next]_vars
  PROVE  ExactInv'
<1>1. KnownInv /\ KnownInv' /\ TypeInv /\ OpType /\ On \in [Task -> Device]
  BY KnownStep, OnAssumption
  DEF ExactInv, KnownInv, ChannelsRefusable, TypeInv, TypeOK, OpType
<1>2. CASE UNCHANGED vars
  BY <1>1, <1>2 DEF vars, ExactInv, PendingExact, ListedTaken, ReadTaken, Taken, At
<1>3. ASSUME NEW d \in Device, DeviceStep(d) PROVE ExactInv'
  <2>1. /\ \A e \in Device : e # d =>
             users'[Owner[e]] = users[Owner[e]] /\ outbox'[e] = outbox[e]
        /\ Exact(users'[Owner[d]], outbox'[d])
        /\ Taken(d) \subseteq Taken(d)'
        /\ Taken(d)' = Taken(d) \/ \E t \in Task : On[t] = d /\ UserRead(t)
    BY <1>3, TakenStep
  <2>2. PendingExact'
    BY <2>1 DEF ExactInv, PendingExact
  <2>3. \A e \in Device : e # d => Taken(e)' = Taken(e)
    BY <2>1 DEF Taken
  <2>4. ListedTaken'
    <3>1. \A e \in Device : e # d => listed'[e] = listed[e]
      BY <1>1, <1>3, OthersKept
    <3>2. listed'[d] \subseteq Taken(d)
      <4>1. listed \in [Device -> SUBSET FamilyId] /\ listed[d] \subseteq Taken(d)
        BY <1>1 DEF TypeInv, TypeOK, ExactInv, ListedTaken
      <4>2. CASE FamiliesListed(d)
        <5>1. PICK fams \in SUBSET FamilyId :
                Sees(d, fams) /\ listed' = [listed EXCEPT ![d] = @ \cup fams]
          BY <4>2 DEF FamiliesListed
        <5>2. fams = Taken(d)
          BY <1>1, <5>1, SeesTaken DEF ExactInv
        <5>3. listed'[d] = listed[d] \cup fams
          BY <4>1, <5>1
        <5>4. QED BY <4>1, <5>2, <5>3
      <4>3. CASE ~FamiliesListed(d)
        <5>1. listed' = listed \/ listed' = [listed EXCEPT ![d] = {}]
          BY <1>3, <4>3, TaskRest, ServerRest DEF DeviceStep, FamilyTapped, Restart
        <5>2. QED BY <4>1, <5>1
      <4>4. QED BY <4>2, <4>3
    <3>3. \A e \in Device : listed'[e] \subseteq Taken(e)'
      BY <2>1, <2>3, <3>1, <3>2 DEF ExactInv, ListedTaken
    <3>4. QED BY <3>3 DEF ListedTaken
  <2>5. ASSUME NEW t \in Task, op'[t].stage = "read"
        PROVE  users'[Owner[On[t]]].exists /\ op'[t].seen = Taken(On[t])'
    <3>1. users'[Owner[On[t]]].exists = users[Owner[On[t]]].exists
      BY <1>1, <1>3, ExistsKept, OwnerAssumption
    <3>2. CASE op'[t] = op[t]
      <4>1. users[Owner[On[t]]].exists /\ op[t].seen = Taken(On[t])
        BY <2>5, <3>2 DEF ExactInv, ReadTaken, At
      <4>2. Taken(On[t])' = Taken(On[t])
        <5>1. CASE On[t] # d
          BY <1>1, <2>3, <5>1
        <5>2. ASSUME On[t] = d, NEW o \in Task, On[o] = d, UserRead(o) PROVE FALSE
          <6>1. o = t
            BY <5>2 DEF OneTaskEach
          <6>2. op' = [op EXCEPT ![t].stage = "saving", ![t].seen = {}]
            BY <5>2, <6>1 DEF UserRead
          <6>3. Moves(t, [stage |-> "saving", fid |-> op[t].fid, seen |-> {}])
            BY <1>1, <6>2, Moved DEF Stage
          <6>4. QED BY <1>1, <2>5, <6>3 DEF Moves, OpType
        <5>3. QED BY <2>1, <5>1, <5>2
      <4>3. QED BY <3>1, <3>2, <4>1, <4>2
    <3>3. CASE op'[t] # op[t]
      <4>1. On[t] = d /\ UserAnswered(t) /\ Sees(d, op'[t].seen)
        BY <1>1, <1>3, <2>5, <3>3, Entered
      <4>2. op'[t].seen = Taken(d)
        BY <1>1, <4>1, SeesTaken DEF ExactInv
      <4>3. Taken(d)' = Taken(d)
        BY <4>1 DEF UserAnswered, Taken
      <4>4. users[Owner[d]].exists
        BY <4>1 DEF UserAnswered
      <4>5. QED BY <3>1, <4>1, <4>2, <4>3, <4>4
    <3>4. QED BY <3>2, <3>3
  <2>6. ReadTaken'
    BY <2>5 DEF ReadTaken, At
  <2>7. QED BY <1>1, <2>2, <2>4, <2>6 DEF ExactInv
<1>4. QED BY <1>2, <1>3, NextDevice

\* The initial state satisfies the invariant.
LEMMA ExactInit == Init => ExactInv
<1> SUFFICES ASSUME Init PROVE ExactInv
  OBVIOUS
<1>1. \A d \in Device : DOMAIN outbox[d] = {} /\ listed[d] = {}
  BY DEF Init
<1>2. PendingExact /\ ListedTaken /\ ReadTaken
  BY <1>1 DEF PendingExact, Exact, ListedTaken, ReadTaken, Init, At, Idle
<1>3. QED BY KnownInit, <1>2 DEF ExactInv

\* Every step is a step of Membership or changes nothing it speaks of.
LEMMA StepMaps ==
  ASSUME ExactInv, ChannelsRefusable, [Next]_vars
  PROVE  [Abstract!Next]_(Abstract!vars)
<1> DEFINE members == [u \in User |-> users[u].families]
           current == [u \in User |-> users[u].familyId]
<1>1. SUFFICES \/ UNCHANGED <<users, family>>
               \/ \E f \in FamilyId : Abstract!Found(f)
               \/ \E u \in User, f \in FamilyId : Abstract!Join(u, f) \/ Abstract!Switch(u, f)
  BY DEF Abstract!Next, Abstract!vars
<1>2. CASE UNCHANGED vars
  BY <1>2 DEF vars
<1>3. ASSUME NEW d \in Device, DeviceStep(d)
      PROVE  \/ UNCHANGED <<users, family>>
             \/ \E f \in FamilyId : Abstract!Found(f)
             \/ \E u \in User, f \in FamilyId : Abstract!Join(u, f) \/ Abstract!Switch(u, f)
  <2> DEFINE w == Head(outbox[d])
  <2>1. TypeInv /\ Queues /\ Owner[d] \in User
    BY OwnerAssumption DEF ExactInv, KnownInv, TypeInv, TypeOK, Queues
  <2>2. CASE ~Accept(d)
    BY <1>3, <2>1, <2>2, Writes DEF Server, Refuse
  <2>3. CASE Accept(d)
    <3>1. /\ w \in Write /\ w.fid \in FamilyId /\ 1 \in DOMAIN outbox[d]
          /\ w = outbox[d][1] /\ Before(outbox[d], 1) = {}
          /\ WriteUser(d, w)
          /\ family' = IF w.kind = "family" THEN family \cup {w.fid} ELSE family
      <4>1. Dequeue(d)
        BY <2>3 DEF Accept, Dequeue
      <4>2. w \in Write /\ 1 \in DOMAIN outbox[d] /\ w = outbox[d][1]
        BY <2>1, <4>1, Dequeued
      <4>3. QED BY <2>1, <2>3, <4>1, <4>2, FidsDequeued DEF Accept, Write
    <3>2. WriteKnown(w, family)
      <4>1. KnownBy(family, outbox[d], 1) = family
        BY <2>1 DEF Queues, KnownBy
      <4>2. QED BY <3>1, <4>1 DEF ExactInv, KnownInv, PendingKnown
    <3>3. users \in [User -> UserDoc] /\ users[Owner[d]] \in UserDoc
      BY <2>1 DEF TypeInv, TypeOK
    <3> HIDE DEF w
    <3>4. CASE w.kind = "family"
      <4>1. Abstract!Found(w.fid)
        BY <3>1, <3>4 DEF WriteUser, Abstract!Found
      <4>2. QED BY <3>1, <4>1
    <3>5. CASE w.kind = "channel"
      BY <3>1, <3>5 DEF WriteUser
    <3>6. CASE w.kind = "user"
      <4>1. users' = [users EXCEPT ![Owner[d]].familyId = w.fid, ![Owner[d]].families = w.fams]
        BY <3>1, <3>6 DEF WriteUser
      <4>2. w.fid \in family /\ w.fams = users[Owner[d]].families \cup {w.fid}
        BY <3>1, <3>2, <3>6 DEF WriteKnown, ExactInv, PendingExact, Exact
      <4>3. \A u \in User : /\ users'[u].families = IF u = Owner[d] THEN w.fams
                                                    ELSE users[u].families
                            /\ users'[u].familyId = IF u = Owner[d] THEN w.fid
                                                    ELSE users[u].familyId
        BY <3>3, <4>1 DEF UserDoc
      <4>4. /\ members' = [members EXCEPT ![Owner[d]] = @ \cup {w.fid}]
            /\ current' = [current EXCEPT ![Owner[d]] = w.fid]
        BY <2>1, <4>2, <4>3
      <4>5. \E u \in User, f \in FamilyId : Abstract!Join(u, f)
        BY <2>1, <3>1, <3>6, <4>2, <4>4 DEF Abstract!Join
      <4>6. QED BY <4>5
    <3>7. CASE w.kind = "switch"
      <4>1. users' = [users EXCEPT ![Owner[d]].familyId = w.fid]
        BY <3>1, <3>7 DEF WriteUser
      <4>2. w.fid \in users[Owner[d]].families
        BY <3>1, <3>7 DEF ExactInv, PendingExact, Exact
      <4>3. \A u \in User : /\ users'[u].families = users[u].families
                            /\ users'[u].familyId = IF u = Owner[d] THEN w.fid
                                                    ELSE users[u].familyId
        BY <3>3, <4>1 DEF UserDoc
      <4>4. members' = members /\ current' = [current EXCEPT ![Owner[d]] = w.fid]
        BY <2>1, <4>3
      <4>5. \E u \in User, f \in FamilyId : Abstract!Switch(u, f)
        BY <2>1, <3>1, <3>7, <4>2, <4>4 DEF Abstract!Switch
      <4>6. QED BY <4>5
    <3>8. QED BY <3>1, <3>4, <3>5, <3>6, <3>7 DEF Write, WriteKind
  <2>4. QED BY <2>2, <2>3
<1>4. QED BY <1>2, <1>3, NextDevice

\* The pages implement Membership, for any number of users: what the server has
\* and what every device has yet to tell it add up to one family at a time.
THEOREM PagesImplementMembership ==
  ASSUME OneDeviceEach, OneTaskEach, ChannelsRefusable
  PROVE  Spec => ImplementsMembership
<1>1. Init => Abstract!Init
  BY DEF Init, Abstract!Init
<1>2. ExactInv /\ [Next]_vars => ExactInv'
  BY ExactStep
<1>3. ExactInv /\ [Next]_vars => [Abstract!Next]_(Abstract!vars)
  BY StepMaps
<1>4. QED
  BY ExactInit, <1>1, <1>2, <1>3, PTL DEF Spec, ImplementsMembership, Abstract!Spec
===============================================================================
