------------------------- MODULE AtomicCommandProofs -------------------------
(***************************************************************************)
(* Proofs about AtomicCommand, for any finite or infinite sets of calls.   *)
(* IInv is the inductive invariant; each of its parts is one reason why    *)
(* the properties of AtomicCommand hold.                                   *)
(***************************************************************************)
EXTENDS AtomicCommand, SequenceTheorems, TLAPS

Positions == 1 .. Len(queue)
Admitted == {"sleeping", "fetching", "launching", "running"}

\* The mutex: one operation holds it, the others wait in the queue, once each.
LockInv ==
    /\ \A op \in Ops : pc[op] \in Holding <=> op = holder
    /\ \A op \in Ops : pc[op] = "queued" => \E i \in Positions : queue[i] = op
    /\ \A i \in Positions : pc[queue[i]] = "queued"
    /\ \A i, j \in Positions : queue[i] = queue[j] => i = j
    /\ queue # <<>> => holder # NoOp

\* The newest request is at the end of the queue or not in it, and never in
\* front of another one: the holder it would be is stale.
LatestInv ==
    /\ \A i \in Positions : i < Len(queue) => queue[i] # latest
    /\ queue # <<>> => latest # holder

\* Work starts after the admission; its promise settles when it ends or when
\* its context is cancelled.
WorkInv ==
    \A op \in Ops :
        /\ closure[op] # "none" => pc[op] \in {"launching", "running", "done"}
        /\ promise[op] # "none" => closure[op] # "none"
        /\ promise[op] = "resolved" => closure[op] = "ended"
        /\ promise[op] = "rejected" => closure[op] = "ended" \/ op \in cancelled

\* An admitted operation can be cancelled through _prevCommandContext, or is
\* cancelled already.
ContextInv ==
    \A op \in Ops : pc[op] \in Admitted => prevCtx = op \/ op \in cancelled

\* _executingCommand and the type of the newest request, as far as a refusal
\* relies on them.
KindInv ==
    /\ \A w \in Watchers : pc[w] \in Admitted => executing = "autowatcher"
    /\ latestType = "user" =>
         latest \in Users /\ pc[latest] \in Holding \cup {"queued"}

\* While a user command waits or is handed the mutex, the newest request is a
\* user's that waits or is handed the mutex; between callbacks its type says so.
UserInv ==
    /\ \A u \in Users : pc[u] \in {"queued", "granted"} =>
         latest \in Users /\ pc[latest] \in {"queued", "granted"}
    /\ Quiescent => \A u \in Users : pc[u] = "queued" => latestType = "user"

IInv ==
    /\ TypeOK /\ LockInv /\ LatestInv /\ WorkInv /\ ContextInv
    /\ KindInv /\ UserInv
    /\ AbandonedClosureIsTold /\ WaitersPreemptHolder /\ FetchWindowIsHolders

-----------------------------------------------------------------------------
(* Types *)

\* The parts of TypeOK that the hand-over of the mutex touches.
LEMMA FinallyTypes ==
    ASSUME TypeOK, NEW op \in Ops,
           NEW r \in {"ok", "failed", "stale", "unlaunched"}, Finally(op, r)
    PROVE  /\ latestType' = "none" /\ executing' = "none"
           /\ outcome' \in [Ops -> {"none", "ok", "failed", "stale", "refused", "unlaunched"}]
           /\ disposed' \in SUBSET Ops
           /\ holder' \in Ops \cup {NoOp} /\ queue' \in Seq(Ops)
           /\ pc' \in [Ops -> Holding \cup {"idle", "queued", "done"}]
<1>1. CASE queue = <<>>
  BY <1>1 DEF Finally, TypeOK, Holding
<1>2. CASE queue # <<>>
  <2>1. Head(queue) \in Ops /\ Tail(queue) \in Seq(Ops)
    BY <1>2 DEF TypeOK
  <2>2. QED BY <1>2, <2>1 DEF Finally, TypeOK, Holding
<1>3. QED BY <1>1, <1>2

\* The parts of TypeOK that a request for the mutex touches.
LEMMA AcquireTypes ==
    ASSUME TypeOK, NEW op \in Ops, Acquire(op)
    PROVE  /\ holder' \in Ops \cup {NoOp} /\ queue' \in Seq(Ops)
           /\ pc' \in [Ops -> Holding \cup {"idle", "queued", "done"}]
<1>1. CASE Locked
  <2>1. Append(queue, op) \in Seq(Ops) BY DEF TypeOK
  <2>2. QED BY <1>1, <2>1 DEF Acquire, TypeOK, Holding
<1>2. CASE ~Locked
  BY <1>2 DEF Acquire, TypeOK, Holding
<1>3. QED BY <1>1, <1>2

LEMMA CancelTypes ==
    ASSUME TypeOK, NEW c \in Ops \cup {NoOp}, CancelContextOf(c)
    PROVE  /\ cancelled' \in SUBSET Ops
           /\ promise' \in [Ops -> {"none", "pending", "resolved", "rejected"}]
BY DEF CancelContextOf, TypeOK

\* Type correctness of a step.
LEMMA TypeStep == TypeOK /\ [Next]_vars => TypeOK'
<1> SUFFICES ASSUME TypeOK, [Next]_vars PROVE TypeOK'
  OBVIOUS
<1> USE DEF idVars, lockVars, ctxVars, taskVars, workVars, Holding, Kinds
<1>1. ASSUME NEW w \in Watchers, RefuseWatch(w) PROVE TypeOK'
  BY <1>1 DEF RefuseWatch, TypeOK, Ops
<1>2. ASSUME NEW w \in Watchers, CallWatch(w) PROVE TypeOK'
  <2>1. w \in Ops BY DEF Ops
  <2>2. /\ cancelled' \in SUBSET Ops
        /\ promise' \in [Ops -> {"none", "pending", "resolved", "rejected"}]
    BY <1>2, CancelTypes DEF CallWatch, TypeOK
  <2>3. Acquire(w) BY <1>2 DEF CallWatch
  <2>4. QED BY <1>2, <2>1, <2>2, <2>3, AcquireTypes DEF CallWatch, TypeOK, Locked
<1>3. ASSUME NEW w \in Watchers, RefuseWatchLocked(w) PROVE TypeOK'
  BY <1>3 DEF RefuseWatchLocked, TypeOK, Ops
<1>4. ASSUME NEW u \in Users, CallUser(u) PROVE TypeOK'
  <2>1. u \in Ops BY DEF Ops
  <2>2. /\ cancelled' \in SUBSET Ops
        /\ promise' \in [Ops -> {"none", "pending", "resolved", "rejected"}]
    BY <1>4, CancelTypes DEF CallUser, TypeOK
  <2>3. Acquire(u) BY <1>4 DEF CallUser
  <2>4. QED BY <1>4, <2>1, <2>2, <2>3, AcquireTypes DEF CallUser, TypeOK, Locked
<1>5. CASE Cancel
  <2>1. /\ cancelled' \in SUBSET Ops
        /\ promise' \in [Ops -> {"none", "pending", "resolved", "rejected"}]
    BY <1>5, CancelTypes DEF Cancel, TypeOK
  <2>2. QED BY <1>5, <2>1 DEF Cancel, TypeOK
<1>6. ASSUME NEW s \in Scopes, ResolveTask(s) PROVE TypeOK'
  BY <1>6 DEF ResolveTask, TypeOK
<1>7. ASSUME NEW op \in Ops, CancelOwnContext(op) PROVE TypeOK'
  <2>1. /\ cancelled' \in SUBSET Ops
        /\ promise' \in [Ops -> {"none", "pending", "resolved", "rejected"}]
    BY <1>7, CancelTypes DEF CancelOwnContext, TypeOK
  <2>2. QED BY <1>7, <2>1 DEF CancelOwnContext, TypeOK
<1>8. ASSUME NEW op \in Ops, Step(op) PROVE TypeOK'
  <2>1. CASE DropStale(op)
    BY <2>1, FinallyTypes DEF DropStale, TypeOK
  <2>2. CASE Admit(op)
    BY <2>2 DEF Admit, KindOf, Proceed, BeginFetch, StartClosure, TypeOK
  <2>3. CASE WakeUp(op)
    BY <2>3 DEF WakeUp, Proceed, BeginFetch, StartClosure, TypeOK
  <2>4. CASE FetchDone(op)
    BY <2>4 DEF FetchDone, StartClosure, TypeOK
  <2>5. CASE FetchFails(op)
    BY <2>5, FinallyTypes DEF FetchFails, TypeOK
  <2>6. CASE Launched(op)
    BY <2>6 DEF Launched, TypeOK
  <2>7. CASE LaunchFails(op)
    BY <2>7, FinallyTypes DEF LaunchFails, TypeOK
  <2>8. CASE LateCancel(op)
    BY <2>8 DEF LateCancel, TypeOK
  <2>9. CASE Settle(op)
    BY <2>9, FinallyTypes DEF Settle, TypeOK
  <2>10. QED
    BY <1>8, <2>1, <2>2, <2>3, <2>4, <2>5, <2>6, <2>7, <2>8, <2>9 DEF Step
<1>9. ASSUME NEW op \in Ops, ClosureEnds(op) PROVE TypeOK'
  BY <1>9 DEF ClosureEnds, TypeOK
<1>10. CASE UNCHANGED vars
  BY <1>10 DEF vars, TypeOK
<1>11. QED
  BY <1>1, <1>2, <1>3, <1>4, <1>5, <1>6, <1>7, <1>8, <1>9, <1>10 DEF Next, Terminated

-----------------------------------------------------------------------------
(* The mutex *)

Queueing == LockInv /\ LatestInv

LEMMA PositionsIn ==
    ASSUME TypeOK
    PROVE  \A i \in Positions : queue[i] \in Ops
BY DEF TypeOK, Positions

\* A call that asks for the mutex is the newest request.
LEMMA RequestLock ==
    ASSUME TypeOK, Queueing, NEW op \in Ops, pc[op] = "idle",
           Acquire(op), latest' = op
    PROVE  Queueing'
<1> USE DEF Holding, Queueing, Positions
<1>1. op # holder /\ \A i \in Positions : queue[i] # op
  BY DEF LockInv
<1>2. CASE Locked
  <2>1. /\ holder' = holder
        /\ Len(queue') = Len(queue) + 1
        /\ \A i \in 1 .. Len(queue) : queue'[i] = queue[i]
        /\ queue'[Len(queue) + 1] = op
        /\ Len(queue) \in Nat
    BY <1>2 DEF Acquire, TypeOK
  <2>2. pc' = [pc EXCEPT ![op] = "queued"]
    BY <1>2 DEF Acquire
  <2>3. LockInv'
    <3>1. \A o \in Ops : pc'[o] \in Holding <=> o = holder'
      BY <1>1, <2>1, <2>2 DEF LockInv, TypeOK
    <3>2. \A o \in Ops : pc'[o] = "queued" =>
             \E i \in 1 .. Len(queue') : queue'[i] = o
      <4> TAKE o \in Ops
      <4>1. CASE o = op
        <5>1. Len(queue) + 1 \in 1 .. Len(queue') BY <2>1
        <5>2. QED BY <4>1, <5>1, <2>1
      <4>2. CASE o # op
        <5> HAVE pc'[o] = "queued"
        <5>1. PICK i \in 1 .. Len(queue) : queue[i] = o
          BY <4>2, <2>2 DEF LockInv, TypeOK
        <5>2. i \in 1 .. Len(queue') BY <2>1
        <5>3. QED BY <5>1, <5>2, <2>1
      <4>3. QED BY <4>1, <4>2
    <3>3. \A i \in 1 .. Len(queue') : pc'[queue'[i]] = "queued"
      <4> TAKE i \in 1 .. Len(queue')
      <4>1. CASE i = Len(queue) + 1
        BY <4>1, <2>1, <2>2 DEF TypeOK
      <4>2. CASE i # Len(queue) + 1
        <5>1. i \in 1 .. Len(queue) BY <4>2, <2>1
        <5>2. queue[i] \in Ops /\ queue[i] # op BY <5>1, <1>1, PositionsIn
        <5>3. QED BY <5>1, <5>2, <2>1, <2>2 DEF LockInv, TypeOK
      <4>3. QED BY <4>1, <4>2
    <3>4. \A i, j \in 1 .. Len(queue') : queue'[i] = queue'[j] => i = j
      BY <1>1, <2>1 DEF LockInv
    <3>5. holder' # NoOp
      BY <1>2, <2>1 DEF Locked
    <3>6. QED BY <3>1, <3>2, <3>3, <3>4, <3>5 DEF LockInv
  <2>4. LatestInv'
    <3>1. \A i \in 1 .. Len(queue') : i < Len(queue') => queue'[i] # latest'
      BY <1>1, <2>1
    <3>2. QED BY <3>1, <1>1, <2>1 DEF LatestInv
  <2>5. QED BY <2>3, <2>4
<1>3. CASE ~Locked
  <2>1. /\ queue' = queue /\ queue = <<>> /\ holder' = op
        /\ pc' = [pc EXCEPT ![op] = "granted"]
    BY <1>3 DEF Acquire, LockInv, Locked
  <2>2. \A o \in Ops : pc[o] \notin Holding /\ pc[o] # "queued"
    BY <1>3, <2>1, OpsAssumption DEF LockInv, Locked
  <2>3. QED BY <2>1, <2>2 DEF LockInv, LatestInv, TypeOK
<1>4. QED BY <1>2, <1>3

\* The finally block of the holder hands the mutex to the first waiter.
LEMMA ReleaseLock ==
    ASSUME TypeOK, Queueing, NEW op \in Ops, pc[op] \in Holding,
           NEW r, Finally(op, r), latest' = latest
    PROVE  Queueing'
<1> USE DEF Holding, Queueing, Positions
<1>1. op = holder /\ \A i \in Positions : queue[i] # op
  BY DEF LockInv
<1>2. CASE queue = <<>>
  <2>1. /\ holder' = NoOp /\ queue' = queue
        /\ pc' = [pc EXCEPT ![op] = "done"]
    BY <1>2 DEF Finally
  <2>2. \A o \in Ops : pc[o] # "queued"
    BY <1>2 DEF LockInv
  <2>3. QED BY <1>1, <1>2, <2>1, <2>2, OpsAssumption DEF LockInv, LatestInv, TypeOK
<1>3. CASE queue # <<>>
  <2> DEFINE h == Head(queue)
  <2>1. /\ holder' = h /\ queue' = Tail(queue)
        /\ pc' = [pc EXCEPT ![op] = "done", ![h] = "granted"]
    BY <1>3 DEF Finally
  <2>2. /\ Len(queue) \in Nat /\ Len(queue) > 0 /\ h = queue[1]
        /\ Len(queue') = Len(queue) - 1
        /\ \A i \in 1 .. Len(queue') : queue'[i] = queue[i + 1]
    BY <1>3, <2>1 DEF TypeOK
  <2>3. h \in Ops /\ h # op /\ pc[h] = "queued"
    BY <1>1, <2>2, PositionsIn DEF LockInv
  <2>4. \A i \in 1 .. Len(queue') : queue'[i] # h
    BY <2>2 DEF LockInv
  <2> HIDE DEF h
  <2>5. \A o \in Ops : pc'[o] \in Holding <=> o = holder'
    BY <1>1, <2>1, <2>3 DEF LockInv, TypeOK
  <2>6. \A o \in Ops : pc'[o] = "queued" =>
             \E i \in 1 .. Len(queue') : queue'[i] = o
    <3> TAKE o \in Ops
    <3> HAVE pc'[o] = "queued"
    <3>1. o # h /\ pc[o] = "queued"
      BY <2>1, <2>3 DEF TypeOK
    <3>2. PICK i \in 1 .. Len(queue) : queue[i] = o
      BY <3>1 DEF LockInv
    <3>3. i # 1 BY <3>1, <3>2, <2>2
    <3>4. i - 1 \in 1 .. Len(queue') BY <3>3, <2>2
    <3>5. queue'[i - 1] = queue[(i - 1) + 1] BY <3>4, <2>2
    <3>6. (i - 1) + 1 = i OBVIOUS
    <3>7. QED BY <3>2, <3>4, <3>5, <3>6
  <2>7. \A i \in 1 .. Len(queue') : pc'[queue'[i]] = "queued"
    <3> TAKE i \in 1 .. Len(queue')
    <3>1. /\ queue'[i] \in Ops /\ queue'[i] # op /\ queue'[i] # h
          /\ pc[queue'[i]] = "queued"
      BY <1>1, <2>2, <2>4, PositionsIn DEF LockInv
    <3>2. QED BY <3>1, <2>1, <2>3 DEF TypeOK
  <2>8. \A i, j \in 1 .. Len(queue') : queue'[i] = queue'[j] => i = j
    BY <2>2 DEF LockInv
  <2>9. holder' # NoOp
    BY <2>1, <2>3, OpsAssumption
  <2>10. LatestInv'
    <3>1. \A i \in 1 .. Len(queue') : i < Len(queue') => queue'[i] # latest'
      BY <2>2 DEF LatestInv
    <3>2. queue' # <<>> => latest' # holder'
      BY <2>1, <2>2 DEF LatestInv
    <3>3. QED BY <3>1, <3>2 DEF LatestInv
  <2>11. QED
    BY <2>5, <2>6, <2>7, <2>8, <2>9, <2>10 DEF LockInv
<1>4. QED BY <1>2, <1>3

\* Every other step moves no operation to or from the mutex and its queue, and
\* may only make a refused call the newest request.
LEMMA KeepLock ==
    ASSUME TypeOK, Queueing, UNCHANGED lockVars,
           \A o \in Ops : pc'[o] \in Holding <=> pc[o] \in Holding,
           \A o \in Ops : pc'[o] = "queued" <=> pc[o] = "queued",
           \/ latest' = latest
           \/ latest' \in Ops /\ pc[latest'] = "idle"
    PROVE  Queueing'
<1>1. LockInv'
  <2>1. \A i \in Positions : queue[i] \in Ops
    BY PositionsIn
  <2>2. queue' = queue /\ holder' = holder
    BY DEF lockVars
  <2>3. \A i \in Positions : pc'[queue[i]] = "queued"
    BY <2>1 DEF Queueing, LockInv
  <2>4. \A o \in Ops : pc'[o] = "queued" => \E i \in 1 .. Len(queue) : queue[i] = o
    BY DEF Queueing, LockInv, Positions
  <2>5. \A o \in Ops : pc'[o] \in Holding <=> o = holder
    BY DEF Queueing, LockInv
  <2>6. QED BY <2>2, <2>3, <2>4, <2>5 DEF Queueing, LockInv, Positions
<1>2. LatestInv'
  BY DEF Queueing, LockInv, LatestInv, lockVars, Positions, Holding
<1>3. QED BY <1>1, <1>2 DEF Queueing

\* Where the finally block of the holder leaves every operation.
LEMMA FinallyPc ==
    ASSUME TypeOK, Queueing, NEW op \in Ops, pc[op] \in Holding,
           NEW r, Finally(op, r)
    PROVE  /\ pc'[op] = "done"
           /\ \A o \in Ops \ {op} :
                \/ pc'[o] = pc[o]
                \/ pc[o] = "queued" /\ pc'[o] = "granted" /\ holder' = o
<1>1. CASE queue = <<>>
  BY <1>1 DEF Finally, TypeOK
<1>2. CASE queue # <<>>
  <2> DEFINE h == Head(queue)
  <2>1. /\ holder' = h
        /\ pc' = [pc EXCEPT ![op] = "done", ![h] = "granted"]
    BY <1>2 DEF Finally
  <2>2. 1 \in Positions /\ h = queue[1]
    BY <1>2 DEF TypeOK, Positions
  <2>3. h \in Ops /\ pc[h] = "queued" /\ h # op
    BY <2>2, PositionsIn DEF Queueing, LockInv, Holding
  <2> HIDE DEF h
  <2>4. QED BY <2>1, <2>3 DEF TypeOK
<1>3. QED BY <1>1, <1>2

\* Where a request for the mutex leaves every operation.
LEMMA AcquirePc ==
    ASSUME TypeOK, NEW op \in Ops, Acquire(op)
    PROVE  /\ pc'[op] = IF Locked THEN "queued" ELSE "granted"
           /\ \A o \in Ops \ {op} : pc'[o] = pc[o]
BY DEF Acquire, TypeOK

\* The queue and the newest request stay in order.
LEMMA LockStep == TypeOK /\ Queueing /\ [Next]_vars => Queueing'
<1> SUFFICES ASSUME TypeOK, Queueing, [Next]_vars PROVE Queueing'
  OBVIOUS
<1> USE DEF idVars
<1>1. ASSUME NEW w \in Watchers, RefuseWatch(w) PROVE Queueing'
  <2>1. w \in Ops BY DEF Ops
  <2>2. QED BY <1>1, <2>1, KeepLock DEF RefuseWatch, TypeOK, Holding
<1>2. ASSUME NEW w \in Watchers, CallWatch(w) PROVE Queueing'
  <2>1. w \in Ops BY DEF Ops
  <2>2. QED BY <1>2, <2>1, RequestLock DEF CallWatch
<1>3. ASSUME NEW w \in Watchers, RefuseWatchLocked(w) PROVE Queueing'
  <2>1. w \in Ops BY DEF Ops
  <2>2. QED BY <1>3, <2>1, KeepLock DEF RefuseWatchLocked, TypeOK, Holding
<1>4. ASSUME NEW u \in Users, CallUser(u) PROVE Queueing'
  <2>1. u \in Ops BY DEF Ops
  <2>2. QED BY <1>4, <2>1, RequestLock DEF CallUser
<1>5. CASE Cancel
  BY <1>5, KeepLock DEF Cancel
<1>6. ASSUME NEW s \in Scopes, ResolveTask(s) PROVE Queueing'
  BY <1>6, KeepLock DEF ResolveTask
<1>7. ASSUME NEW op \in Ops, CancelOwnContext(op) PROVE Queueing'
  BY <1>7, KeepLock DEF CancelOwnContext
<1>8. ASSUME NEW op \in Ops, Step(op) PROVE Queueing'
  <2> USE DEF Holding
  <2>1. CASE DropStale(op)
    BY <2>1, ReleaseLock DEF DropStale
  <2>2. CASE Admit(op)
    BY <2>2, KeepLock DEF Admit, Proceed, BeginFetch, StartClosure, TypeOK
  <2>3. CASE WakeUp(op)
    BY <2>3, KeepLock DEF WakeUp, Proceed, BeginFetch, StartClosure, TypeOK
  <2>4. CASE FetchDone(op)
    BY <2>4, KeepLock DEF FetchDone, StartClosure, TypeOK
  <2>5. CASE FetchFails(op)
    BY <2>5, ReleaseLock DEF FetchFails
  <2>6. CASE Launched(op)
    BY <2>6, KeepLock DEF Launched, TypeOK
  <2>7. CASE LaunchFails(op)
    BY <2>7, ReleaseLock DEF LaunchFails
  <2>8. CASE LateCancel(op)
    BY <2>8, KeepLock DEF LateCancel
  <2>9. CASE Settle(op)
    BY <2>9, ReleaseLock DEF Settle
  <2>10. QED
    BY <1>8, <2>1, <2>2, <2>3, <2>4, <2>5, <2>6, <2>7, <2>8, <2>9 DEF Step
<1>9. ASSUME NEW op \in Ops, ClosureEnds(op) PROVE Queueing'
  BY <1>9, KeepLock DEF ClosureEnds
<1>10. CASE UNCHANGED vars
  BY <1>10, KeepLock DEF vars
<1>11. QED
  BY <1>1, <1>2, <1>3, <1>4, <1>5, <1>6, <1>7, <1>8, <1>9, <1>10 DEF Next, Terminated

-----------------------------------------------------------------------------
(* The closures and their contexts *)

Working == WorkInv /\ ContextInv /\ AbandonedClosureIsTold

\* A cancellation settles the promise it reaches, and no other.
LEMMA CancelEffect ==
    ASSUME TypeOK, NEW c \in Ops \cup {NoOp}, CancelContextOf(c)
    PROVE  /\ cancelled \subseteq cancelled'
           /\ c \in Ops => c \in cancelled'
           /\ \A o \in Ops : \/ promise'[o] = promise[o]
                            \/ /\ promise[o] = "pending" /\ promise'[o] = "rejected"
                               /\ o \in cancelled'
BY OpsAssumption DEF CancelContextOf, TypeOK

\* A step that cancels a context and moves at most an idle operation.
LEMMA CancelWork ==
    ASSUME TypeOK, Working, NEW c \in Ops \cup {NoOp}, CancelContextOf(c),
           UNCHANGED <<closure, disposed, outcome>>,
           prevCtx' = prevCtx \/ (prevCtx' = NoOp /\ c = prevCtx),
           \A o \in Ops : \/ pc'[o] = pc[o]
                          \/ pc[o] = "idle" /\ pc'[o] \in {"queued", "granted"}
    PROVE  Working'
<1>1. /\ cancelled \subseteq cancelled'
      /\ c \in Ops => c \in cancelled'
      /\ \A o \in Ops : \/ promise'[o] = promise[o]
                       \/ /\ promise[o] = "pending" /\ promise'[o] = "rejected"
                          /\ o \in cancelled'
  BY CancelEffect
<1>2. WorkInv'
  <2> SUFFICES ASSUME NEW o \in Ops
               PROVE  /\ closure'[o] # "none" => pc'[o] \in {"launching", "running", "done"}
                      /\ promise'[o] # "none" => closure'[o] # "none"
                      /\ promise'[o] = "resolved" => closure'[o] = "ended"
                      /\ promise'[o] = "rejected" => closure'[o] = "ended" \/ o \in cancelled'
    BY DEF WorkInv
  <2>1. QED BY <1>1 DEF Working, WorkInv
<1>3. ContextInv'
  <2> SUFFICES ASSUME NEW o \in Ops, pc'[o] \in Admitted
               PROVE  prevCtx' = o \/ o \in cancelled'
    BY DEF ContextInv
  <2>1. pc[o] \in Admitted BY DEF Admitted
  <2>2. QED BY <1>1, <2>1 DEF Working, ContextInv
<1>4. AbandonedClosureIsTold'
  BY <1>1 DEF Working, AbandonedClosureIsTold, Told
<1>5. QED BY <1>2, <1>3, <1>4 DEF Working

\* The finally block of the holder: a closure that still runs is cancelled, its
\* context is disposed, or its task was not launched.
LEMMA FinallyWork ==
    ASSUME TypeOK, Queueing, Working, NEW op \in Ops, pc[op] \in Holding,
           NEW r \in {"ok", "failed", "stale", "unlaunched"}, Finally(op, r),
           UNCHANGED <<prevCtx, cancelled, workVars>>,
           closure[op] = "running" => op \in cancelled \/ r = "unlaunched"
    PROVE  Working'
<1>1. /\ pc'[op] = "done"
      /\ \A o \in Ops \ {op} :
           \/ pc'[o] = pc[o]
           \/ pc[o] = "queued" /\ pc'[o] = "granted" /\ holder' = o
  BY FinallyPc
<1>2. /\ disposed \subseteq disposed'
      /\ op \in Watchers /\ pc[op] # "granted" => op \in disposed'
      /\ outcome' = [outcome EXCEPT ![op] = r]
  BY DEF Finally
<1>3. WorkInv'
  BY <1>1 DEF Working, WorkInv, workVars
<1>4. ContextInv'
  BY <1>1 DEF Working, ContextInv, Admitted
<1>5. AbandonedClosureIsTold'
  <2> SUFFICES ASSUME NEW o \in Ops, closure[o] = "running", pc'[o] = "done"
               PROVE  o \in cancelled \cup disposed' \/ (o \in Users /\ outcome'[o] = "unlaunched")
    BY DEF AbandonedClosureIsTold, Told, workVars
  <2>1. CASE o = op
    <3>1. pc[op] # "granted" BY <2>1 DEF Working, WorkInv
    <3>2. QED BY <1>2, <2>1, <3>1 DEF Ops, TypeOK
  <2>2. CASE o # op
    <3>1. pc[o] = "done" /\ outcome'[o] = outcome[o]
      BY <1>1, <1>2, <2>2 DEF TypeOK
    <3>2. QED BY <1>2, <3>1 DEF Working, AbandonedClosureIsTold, Told
  <2>3. QED BY <2>1, <2>2
<1>6. QED BY <1>3, <1>4, <1>5 DEF Working

\* Closures, promises and contexts stay in step.
LEMMA WorkStep == TypeOK /\ Queueing /\ Working /\ [Next]_vars => Working'
<1> SUFFICES ASSUME TypeOK, Queueing, Working, [Next]_vars PROVE Working'
  OBVIOUS
<1> USE DEF idVars, lockVars, ctxVars, taskVars, workVars
<1>1. ASSUME NEW w \in Watchers, RefuseWatch(w) PROVE Working'
  <2>1. w \in Ops /\ closure[w] = "none"
    BY <1>1 DEF RefuseWatch, Ops, Working, WorkInv, TypeOK
  <2>2. QED
    BY <1>1, <2>1 DEF RefuseWatch, Working, WorkInv, ContextInv, Admitted,
                      AbandonedClosureIsTold, Told, TypeOK
<1>2. ASSUME NEW w \in Watchers, CallWatch(w) PROVE Working'
  <2>1. w \in Ops BY DEF Ops
  <2>2. /\ pc[w] = "idle" /\ pc'[w] \in {"queued", "granted"}
        /\ \A o \in Ops \ {w} : pc'[o] = pc[o]
    BY <1>2, <2>1, AcquirePc DEF CallWatch
  <2>3. CASE Locked
    <3>1. /\ CancelContextOf(prevCtx) /\ prevCtx \in Ops \cup {NoOp}
          /\ UNCHANGED <<closure, disposed, outcome>>
          /\ prevCtx' = prevCtx \/ prevCtx' = NoOp
      BY <1>2, <2>3 DEF CallWatch, TypeOK
    <3>2. \A o \in Ops : \/ pc'[o] = pc[o]
                         \/ pc[o] = "idle" /\ pc'[o] \in {"queued", "granted"}
      BY <2>2
    <3>3. QED BY <3>1, <3>2, CancelWork, Zenon
  <2>4. CASE ~Locked
    BY <1>2, <2>2, <2>4 DEF CallWatch, Working, WorkInv, ContextInv, Admitted,
                            AbandonedClosureIsTold, Told
  <2>5. QED BY <2>3, <2>4
<1>3. ASSUME NEW w \in Watchers, RefuseWatchLocked(w) PROVE Working'
  <2>1. w \in Ops /\ closure[w] = "none"
    BY <1>3 DEF RefuseWatchLocked, Ops, Working, WorkInv, TypeOK
  <2>2. QED
    BY <1>3, <2>1 DEF RefuseWatchLocked, Working, WorkInv, ContextInv, Admitted,
                      AbandonedClosureIsTold, Told, TypeOK
<1>4. ASSUME NEW u \in Users, CallUser(u) PROVE Working'
  <2>1. u \in Ops BY DEF Ops
  <2>2. /\ pc[u] = "idle" /\ pc'[u] \in {"queued", "granted"}
        /\ \A o \in Ops \ {u} : pc'[o] = pc[o]
    BY <1>4, <2>1, AcquirePc DEF CallUser
  <2>3. CASE Locked
    <3>1. /\ CancelContextOf(prevCtx) /\ prevCtx \in Ops \cup {NoOp}
          /\ UNCHANGED <<closure, disposed, outcome>>
          /\ prevCtx' = prevCtx \/ prevCtx' = NoOp
      BY <1>4, <2>3 DEF CallUser, TypeOK
    <3>2. \A o \in Ops : \/ pc'[o] = pc[o]
                         \/ pc[o] = "idle" /\ pc'[o] \in {"queued", "granted"}
      BY <2>2
    <3>3. QED BY <3>1, <3>2, CancelWork, Zenon
  <2>4. CASE ~Locked
    BY <1>4, <2>2, <2>4 DEF CallUser, Working, WorkInv, ContextInv, Admitted,
                            AbandonedClosureIsTold, Told
  <2>5. QED BY <2>3, <2>4
<1>5. CASE Cancel
  <2>1. /\ CancelContextOf(prevCtx) /\ prevCtx \in Ops \cup {NoOp}
        /\ UNCHANGED <<closure, disposed, outcome>>
        /\ prevCtx' = NoOp
        /\ pc' = pc
    BY <1>5 DEF Cancel, TypeOK
  <2>2. QED BY <2>1, CancelWork, Zenon
<1>6. ASSUME NEW s \in Scopes, ResolveTask(s) PROVE Working'
  BY <1>6 DEF ResolveTask, Working, WorkInv, ContextInv, AbandonedClosureIsTold, Told
<1>7. ASSUME NEW op \in Ops, CancelOwnContext(op) PROVE Working'
  <2>1. /\ CancelContextOf(op) /\ op \in Ops \cup {NoOp}
        /\ UNCHANGED <<closure, disposed, outcome>>
        /\ prevCtx' = prevCtx
        /\ pc' = pc
    BY <1>7 DEF CancelOwnContext
  <2>2. QED BY <2>1, CancelWork, Zenon
<1>8. ASSUME NEW op \in Ops, Step(op) PROVE Working'
  <2>1. CASE DropStale(op)
    <3>1. closure[op] # "running" BY <2>1 DEF DropStale, Working, WorkInv
    <3>2. QED BY <2>1, <3>1, FinallyWork DEF DropStale, Holding
  <2>2. CASE Admit(op)
    <3>1. /\ prevCtx' = op /\ pc[op] = "granted"
          /\ UNCHANGED <<cancelled, disposed, outcome>>
          /\ \A o \in Ops \ {op} : /\ pc'[o] = pc[o] /\ closure'[o] = closure[o]
                                  /\ promise'[o] = promise[o]
      BY <2>2 DEF Admit, Proceed, BeginFetch, StartClosure, TypeOK
    <3>2. \/ /\ pc'[op] \in {"sleeping", "fetching"}
             /\ closure'[op] = closure[op] /\ promise'[op] = promise[op]
          \/ /\ pc'[op] \in {"launching", "running"}
             /\ closure'[op] = "running" /\ promise'[op] = "pending"
      BY <2>2 DEF Admit, Proceed, BeginFetch, StartClosure, TypeOK
    <3>3. closure[op] = "none"
      BY <3>1 DEF Working, WorkInv
    <3>4. \A o \in Ops \ {op} : pc[o] \notin Holding
      BY <3>1 DEF Queueing, LockInv, Holding
    <3>5. WorkInv' BY <3>1, <3>2, <3>3 DEF Working, WorkInv
    <3>6. ContextInv' BY <3>1, <3>4 DEF ContextInv, Admitted, Holding
    <3>7. AbandonedClosureIsTold'
      BY <3>1, <3>2 DEF Working, AbandonedClosureIsTold, Told
    <3>8. QED BY <3>5, <3>6, <3>7 DEF Working
  <2>3. CASE WakeUp(op)
    BY <2>3 DEF WakeUp, Proceed, BeginFetch, StartClosure, Working, WorkInv,
                ContextInv, Admitted, AbandonedClosureIsTold, Told, TypeOK
  <2>4. CASE FetchDone(op)
    BY <2>4 DEF FetchDone, StartClosure, Working, WorkInv, ContextInv, Admitted,
                AbandonedClosureIsTold, Told, TypeOK
  <2>5. CASE FetchFails(op)
    <3>1. closure[op] # "running" BY <2>5 DEF FetchFails, Working, WorkInv
    <3>2. QED BY <2>5, <3>1, FinallyWork DEF FetchFails, Holding
  <2>6. CASE Launched(op)
    BY <2>6 DEF Launched, Working, WorkInv, ContextInv, Admitted,
                AbandonedClosureIsTold, Told, TypeOK
  <2>7. CASE LaunchFails(op)
    BY <2>7, FinallyWork DEF LaunchFails, Holding
  <2>8. CASE LateCancel(op)
    BY <2>8 DEF LateCancel, Working, WorkInv, ContextInv, Admitted,
                AbandonedClosureIsTold, Told, TypeOK
  <2>9. CASE Settle(op)
    <3>1. closure[op] = "running" => op \in cancelled
      BY <2>9 DEF Settle, Working, WorkInv
    <3>2. QED BY <2>9, <3>1, FinallyWork DEF Settle, Holding
  <2>10. QED
    BY <1>8, <2>1, <2>2, <2>3, <2>4, <2>5, <2>6, <2>7, <2>8, <2>9 DEF Step
<1>9. ASSUME NEW op \in Ops, ClosureEnds(op) PROVE Working'
  BY <1>9 DEF ClosureEnds, Working, WorkInv, ContextInv, Admitted,
              AbandonedClosureIsTold, Told, TypeOK
<1>10. CASE UNCHANGED vars
  BY <1>10 DEF vars, Working, WorkInv, ContextInv, AbandonedClosureIsTold, Told
<1>11. QED
  BY <1>1, <1>2, <1>3, <1>4, <1>5, <1>6, <1>7, <1>8, <1>9, <1>10 DEF Next, Terminated

-----------------------------------------------------------------------------
(* The fetch window *)

\* The fetch flag follows the holder.
LEMMA FetchStep ==
    TypeOK /\ Queueing /\ FetchWindowIsHolders /\ [Next]_vars => FetchWindowIsHolders'
<1> SUFFICES ASSUME TypeOK, Queueing, FetchWindowIsHolders, [Next]_vars
             PROVE  FetchWindowIsHolders'
  OBVIOUS
<1> USE DEF idVars, lockVars, ctxVars, taskVars, workVars
<1>1. ASSUME NEW op \in Ops, pc[op] = "idle", Acquire(op), UNCHANGED taskVars
      PROVE  FetchWindowIsHolders'
  <2>1. /\ pc'[op] \in {"queued", "granted"}
        /\ \A o \in Ops \ {op} : pc'[o] = pc[o]
    BY <1>1, AcquirePc
  <2>2. CASE Locked
    <3>1. holder' = holder BY <1>1, <2>2 DEF Acquire
    <3>2. QED BY <1>1, <2>1, <2>2, <3>1 DEF FetchWindowIsHolders, Locked, Ops
  <2>3. CASE ~Locked
    BY <1>1, <2>1, <2>3 DEF FetchWindowIsHolders
  <2>4. QED BY <2>2, <2>3
<1>2. ASSUME NEW op \in Ops, pc[op] \in Holding, NEW r, Finally(op, r),
             UNCHANGED taskVars, pc[op] # "fetching"
      PROVE  FetchWindowIsHolders'
  <2>1. op = holder /\ ~fetching
    BY <1>2 DEF Queueing, LockInv, FetchWindowIsHolders
  <2>2. QED BY <1>2, <2>1, FinallyPc DEF FetchWindowIsHolders
<1>3. ASSUME NEW w \in Watchers, RefuseWatch(w) PROVE FetchWindowIsHolders'
  BY <1>3 DEF RefuseWatch, FetchWindowIsHolders, Locked, TypeOK, Ops
<1>4. ASSUME NEW w \in Watchers, CallWatch(w) PROVE FetchWindowIsHolders'
  BY <1>1, <1>4 DEF CallWatch, Ops
<1>5. ASSUME NEW w \in Watchers, RefuseWatchLocked(w) PROVE FetchWindowIsHolders'
  BY <1>5 DEF RefuseWatchLocked, FetchWindowIsHolders, Locked, TypeOK, Ops
<1>6. ASSUME NEW u \in Users, CallUser(u) PROVE FetchWindowIsHolders'
  BY <1>1, <1>6 DEF CallUser, Ops
<1>7. CASE Cancel
  BY <1>7 DEF Cancel, FetchWindowIsHolders, Locked
<1>8. ASSUME NEW s \in Scopes, ResolveTask(s) PROVE FetchWindowIsHolders'
  BY <1>8 DEF ResolveTask, FetchWindowIsHolders, Locked
<1>9. ASSUME NEW op \in Ops, CancelOwnContext(op) PROVE FetchWindowIsHolders'
  BY <1>9 DEF CancelOwnContext, FetchWindowIsHolders, Locked
<1>10. ASSUME NEW op \in Ops, Step(op) PROVE FetchWindowIsHolders'
  <2> USE DEF Holding
  <2>1. CASE DropStale(op)
    BY <2>1, <1>2 DEF DropStale
  <2>2. ASSUME pc[op] \in {"granted", "sleeping"}, UNCHANGED lockVars,
               \/ pc' = [pc EXCEPT ![op] = "sleeping"] /\ UNCHANGED taskVars
               \/ Proceed(op)
        PROVE  FetchWindowIsHolders'
    <3>1. op = holder /\ Locked /\ ~fetching
      BY <2>2, OpsAssumption DEF Queueing, LockInv, Locked, FetchWindowIsHolders
    <3>2. QED
      BY <2>2, <3>1 DEF Proceed, BeginFetch, StartClosure, FetchWindowIsHolders,
                        Locked, TypeOK, Ops
  <2>3. CASE Admit(op)
    BY <2>2, <2>3 DEF Admit
  <2>4. CASE WakeUp(op)
    BY <2>2, <2>4 DEF WakeUp
  <2>5. CASE FetchDone(op)
    BY <2>5 DEF FetchDone, StartClosure, FetchWindowIsHolders, TypeOK
  <2>6. CASE FetchFails(op)
    <3>1. /\ pc'[op] = "done"
          /\ \A o \in Ops \ {op} : pc'[o] = pc[o] \/ pc'[o] = "granted"
      BY <2>6, FinallyPc DEF FetchFails
    <3>2. QED BY <2>6, <3>1 DEF FetchFails, FetchWindowIsHolders
  <2>7. CASE Launched(op)
    BY <2>7 DEF Launched, FetchWindowIsHolders, Locked, TypeOK
  <2>8. CASE LaunchFails(op)
    BY <2>8, <1>2 DEF LaunchFails
  <2>9. CASE LateCancel(op)
    BY <2>9 DEF LateCancel, FetchWindowIsHolders, Locked
  <2>10. CASE Settle(op)
    BY <2>10, <1>2 DEF Settle
  <2>11. QED
    BY <1>10, <2>1, <2>3, <2>4, <2>5, <2>6, <2>7, <2>8, <2>9, <2>10 DEF Step
<1>11. ASSUME NEW op \in Ops, ClosureEnds(op) PROVE FetchWindowIsHolders'
  BY <1>11 DEF ClosureEnds, FetchWindowIsHolders, Locked
<1>12. CASE UNCHANGED vars
  BY <1>12 DEF vars, FetchWindowIsHolders, Locked
<1>13. QED
  BY <1>3, <1>4, <1>5, <1>6, <1>7, <1>8, <1>9, <1>10, <1>11, <1>12 DEF Next, Terminated

-----------------------------------------------------------------------------
(* Requests: who is refused, who is dropped, who waits for whom *)

Requests == KindInv /\ UserInv /\ WaitersPreemptHolder

\* Between callbacks, cancelling _prevCommandContext reaches the holder.
LEMMA HolderReached ==
    ASSUME TypeOK, Queueing, Working, Quiescent, Locked
    PROVE  /\ holder \in Ops /\ pc[holder] \in Admitted
           /\ prevCtx = holder \/ holder \in cancelled
<1>1. holder \in Ops BY DEF TypeOK, Locked
<1>2. pc[holder] \in Holding BY <1>1 DEF Queueing, LockInv
<1>3. pc[holder] # "granted" BY <1>1 DEF Quiescent, Ready
<1>4. QED BY <1>1, <1>2, <1>3 DEF Working, ContextInv, Admitted, Holding

\* Between callbacks no user command waits unless the newest request says so.
LEMMA NoUserWaits ==
    ASSUME UserInv, Quiescent, latestType # "user"
    PROVE  \A u \in Users : pc[u] \notin {"queued", "granted"}
BY DEF UserInv, Quiescent, Ready, Ops

\* The finally block of the holder.
LEMMA FinallyRequests ==
    ASSUME TypeOK, Queueing, Requests, NEW op \in Ops, pc[op] \in Holding,
           NEW r, Finally(op, r), latest' = latest,
           pc[op] = "granted" => latest # op
    PROVE  Requests'
<1>1. /\ pc'[op] = "done"
      /\ \A o \in Ops \ {op} :
           \/ pc'[o] = pc[o]
           \/ pc[o] = "queued" /\ pc'[o] = "granted" /\ holder' = o
  BY FinallyPc
<1>2. op = holder /\ \A o \in Ops \ {op} : pc[o] \notin Holding
  BY DEF Queueing, LockInv
<1>3. latestType' = "none"
  BY DEF Finally
<1>4. KindInv'
  BY <1>1, <1>2, <1>3 DEF KindInv, Admitted, Holding, Ops
<1>5. Quiescent' => queue = <<>> /\ queue' = <<>>
  <2>1. CASE queue = <<>>
    BY <2>1 DEF Finally
  <2>2. CASE queue # <<>>
    <3>1. Head(queue) \in Ops BY <2>2 DEF TypeOK
    <3>2. pc'[Head(queue)] = "granted" BY <2>2, <3>1 DEF Finally, TypeOK
    <3>3. QED BY <3>1, <3>2 DEF Quiescent, Ready
  <2>3. QED BY <2>1, <2>2
<1>6. UserInv'
  <2>1. \A u \in Users : pc'[u] \in {"queued", "granted"} =>
            latest' \in Users /\ pc'[latest'] \in {"queued", "granted"}
    <3> SUFFICES ASSUME NEW u \in Users, pc'[u] \in {"queued", "granted"}
                 PROVE  latest \in Users /\ pc'[latest] \in {"queued", "granted"}
      OBVIOUS
    <3>1. u \in Ops /\ pc[u] \in {"queued", "granted"} BY <1>1 DEF Ops
    <3>2. latest \in Users /\ pc[latest] \in {"queued", "granted"}
      BY <3>1 DEF Requests, UserInv
    <3>3. latest \in Ops \ {op}
      BY <1>1, <1>2, <3>1, <3>2 DEF Ops, Holding
    <3>4. QED BY <1>1, <3>2, <3>3
  <2>2. Quiescent' => \A u \in Users : pc'[u] # "queued"
    <3> SUFFICES ASSUME Quiescent', NEW u \in Users, pc'[u] = "queued" PROVE FALSE
      OBVIOUS
    <3>1. u \in Ops /\ pc[u] = "queued" BY <1>1 DEF Ops
    <3>2. QED BY <1>5, <3>1 DEF Queueing, LockInv, Positions
  <2>3. QED BY <2>1, <2>2 DEF UserInv
<1>7. WaitersPreemptHolder'
  BY <1>5 DEF WaitersPreemptHolder
<1>8. QED BY <1>4, <1>6, <1>7 DEF Requests

\* A request for the mutex, which cancels what holds it.
LEMMA AcquireWaiters ==
    ASSUME TypeOK, Queueing, Working, Quiescent, NEW op \in Ops, Acquire(op),
           IF Locked THEN CancelContextOf(prevCtx) ELSE UNCHANGED <<cancelled, promise>>
    PROVE  WaitersPreemptHolder'
<1>1. CASE Locked
  <2>1. holder' = holder BY <1>1 DEF Acquire
  <2>2. prevCtx \in cancelled' \/ prevCtx = NoOp
    BY <1>1, OpsAssumption DEF CancelContextOf, TypeOK
  <2>3. cancelled \subseteq cancelled' BY <1>1 DEF CancelContextOf
  <2>4. holder \in cancelled' BY <1>1, <2>2, <2>3, HolderReached DEF Locked
  <2>5. QED BY <2>1, <2>4 DEF WaitersPreemptHolder
<1>2. CASE ~Locked
  BY <1>2 DEF Acquire, Queueing, LockInv, Locked, WaitersPreemptHolder
<1>3. QED BY <1>1, <1>2

\* A callback that moves no operation.
LEMMA QuietRequests ==
    ASSUME Requests, Quiescent, UNCHANGED <<idVars, lockVars, pc>>,
           cancelled \subseteq cancelled'
    PROVE  Requests'
BY DEF Requests, KindInv, UserInv, WaitersPreemptHolder, idVars, lockVars

\* A callback that moves an admitted operation on.
LEMMA MoveRequests ==
    ASSUME TypeOK, Requests, Quiescent, UNCHANGED <<idVars, lockVars, cancelled>>,
           NEW op \in Ops, pc[op] \in Admitted, pc'[op] \in Admitted,
           \A o \in Ops \ {op} : pc'[o] = pc[o]
    PROVE  Requests'
<1> USE DEF idVars, lockVars, Admitted, Holding
<1>1. KindInv' BY DEF Requests, KindInv, Ops
<1>2. UserInv' BY DEF Requests, UserInv, Ops
<1>3. WaitersPreemptHolder' BY DEF Requests, WaitersPreemptHolder
<1>4. QED BY <1>1, <1>2, <1>3 DEF Requests

\* Refusals, drops and waits stay justified.
LEMMA RequestStep ==
    TypeOK /\ Queueing /\ Working /\ Requests /\ [Next]_vars => Requests'
<1> SUFFICES ASSUME TypeOK, Queueing, Working, Requests, [Next]_vars PROVE Requests'
  OBVIOUS
<1>1. ASSUME NEW w \in Watchers, RefuseWatch(w) PROVE Requests'
  <2>1. /\ w \in Ops /\ w \notin Users
        /\ Quiescent /\ pc[w] = "idle" /\ pc' = [pc EXCEPT ![w] = "done"]
        /\ UNCHANGED <<idVars, lockVars, cancelled>>
    BY <1>1, OpsAssumption DEF RefuseWatch, Ops, ctxVars
  <2>2. \A o \in Ops \ {w} : pc'[o] = pc[o] BY <2>1
  <2>3. KindInv' BY <2>1, <2>2 DEF Requests, KindInv, idVars, Ops, Admitted, TypeOK
  <2>4. UserInv' BY <2>1, <2>2 DEF Requests, UserInv, idVars, Ops
  <2>5. WaitersPreemptHolder'
    BY <2>1 DEF Requests, WaitersPreemptHolder, lockVars
  <2>6. QED BY <2>3, <2>4, <2>5 DEF Requests
<1>2. ASSUME NEW w \in Watchers, CallWatch(w) PROVE Requests'
  <2>1. /\ w \in Ops /\ w \notin Users /\ Quiescent /\ Acquire(w)
        /\ latestType # "user" /\ latestType' # "user" /\ executing' = executing
    BY <1>2, OpsAssumption DEF CallWatch, Ops
  <2>2. /\ pc'[w] \in {"queued", "granted"}
        /\ \A o \in Ops \ {w} : pc'[o] = pc[o]
    BY <2>1, AcquirePc
  <2>3. KindInv' BY <2>1, <2>2 DEF Requests, KindInv, Ops, Admitted
  <2>4. \A u \in Users : pc'[u] \notin {"queued", "granted"}
    BY <2>1, <2>2, NoUserWaits DEF Requests, Ops
  <2>5. UserInv' BY <2>4 DEF UserInv
  <2>6. WaitersPreemptHolder'
    BY <1>2, <2>1, AcquireWaiters DEF CallWatch
  <2>7. QED BY <2>3, <2>5, <2>6 DEF Requests
<1>3. ASSUME NEW w \in Watchers, RefuseWatchLocked(w) PROVE Requests'
  <2>1. /\ w \in Ops /\ w \notin Users /\ Quiescent
        /\ latestType # "user" /\ latestType' # "user" /\ executing # "autowatcher"
        /\ pc' = [pc EXCEPT ![w] = "done"] /\ UNCHANGED <<holder, queue, cancelled>>
    BY <1>3, OpsAssumption DEF RefuseWatchLocked, Ops, lockVars, ctxVars
  <2>2. pc'[w] = "done" /\ \A o \in Ops \ {w} : pc'[o] = pc[o]
    BY <2>1 DEF TypeOK
  <2>3. KindInv' BY <2>1, <2>2 DEF Requests, KindInv, Ops, Admitted
  <2>4. \A u \in Users : pc'[u] \notin {"queued", "granted"}
    BY <2>1, <2>2, NoUserWaits DEF Requests, Ops
  <2>5. UserInv' BY <2>4 DEF UserInv
  <2>6. WaitersPreemptHolder' BY <2>1 DEF Requests, WaitersPreemptHolder
  <2>7. QED BY <2>3, <2>5, <2>6 DEF Requests
<1>4. ASSUME NEW u \in Users, CallUser(u) PROVE Requests'
  <2>1. /\ u \in Ops /\ Quiescent /\ Acquire(u)
        /\ latest' = u /\ latestType' = "user" /\ executing' = executing
    BY <1>4 DEF CallUser, Ops
  <2>2. /\ pc'[u] \in {"queued", "granted"}
        /\ \A o \in Ops \ {u} : pc'[o] = pc[o]
    BY <2>1, AcquirePc
  <2>3. KindInv' BY <2>1, <2>2 DEF Requests, KindInv, Ops, Admitted, Holding
  <2>4. UserInv' BY <2>1, <2>2 DEF UserInv
  <2>5. WaitersPreemptHolder'
    BY <1>4, <2>1, AcquireWaiters DEF CallUser
  <2>6. QED BY <2>3, <2>4, <2>5 DEF Requests
<1>5. CASE Cancel
  BY <1>5, QuietRequests DEF Cancel, CancelContextOf
<1>6. ASSUME NEW s \in Scopes, ResolveTask(s) PROVE Requests'
  BY <1>6, QuietRequests DEF ResolveTask, ctxVars
<1>7. ASSUME NEW op \in Ops, CancelOwnContext(op) PROVE Requests'
  BY <1>7, QuietRequests DEF CancelOwnContext, CancelContextOf
<1>8. ASSUME NEW op \in Ops, Step(op) PROVE Requests'
  <2>1. CASE DropStale(op)
    BY <2>1, FinallyRequests DEF DropStale, Holding
  <2>2. CASE Admit(op)
    <3>1. /\ pc[op] = "granted" /\ pc'[op] \in Admitted
          /\ \A o \in Ops \ {op} : pc'[o] = pc[o]
          /\ latest = op /\ executing' = KindOf(op)
          /\ UNCHANGED <<latest, latestType, holder, queue>>
      BY <2>2 DEF Admit, Proceed, BeginFetch, StartClosure, TypeOK, Admitted, lockVars
    <3>2. /\ op = holder /\ queue = <<>>
          /\ \A o \in Ops \ {op} : pc[o] \notin Holding /\ pc[o] # "queued"
      BY <3>1 DEF Queueing, LockInv, LatestInv, Holding, Positions
    <3>3. KindInv'
      BY <3>1, <3>2, OpsAssumption DEF Requests, KindInv, KindOf, Admitted, Holding, Ops
    <3>4. UserInv'
      BY <3>1, <3>2 DEF UserInv, Admitted, Holding, Ops
    <3>5. WaitersPreemptHolder' BY <3>1, <3>2 DEF WaitersPreemptHolder
    <3>6. QED BY <3>3, <3>4, <3>5 DEF Requests
  <2>3. CASE WakeUp(op)
    BY <2>3, MoveRequests
       DEF WakeUp, Proceed, BeginFetch, StartClosure, Admitted, TypeOK, ctxVars
  <2>4. CASE FetchDone(op)
    BY <2>4, MoveRequests DEF FetchDone, StartClosure, Admitted, TypeOK, ctxVars
  <2>5. CASE FetchFails(op)
    BY <2>5, FinallyRequests DEF FetchFails, Holding
  <2>6. CASE Launched(op)
    BY <2>6, MoveRequests DEF Launched, Admitted, TypeOK, ctxVars
  <2>7. CASE LaunchFails(op)
    BY <2>7, FinallyRequests DEF LaunchFails, Holding
  <2>8. CASE LateCancel(op)
    BY <2>8, QuietRequests DEF LateCancel, ctxVars
  <2>9. CASE Settle(op)
    BY <2>9, FinallyRequests DEF Settle, Holding
  <2>10. QED
    BY <1>8, <2>1, <2>2, <2>3, <2>4, <2>5, <2>6, <2>7, <2>8, <2>9 DEF Step
<1>9. ASSUME NEW op \in Ops, ClosureEnds(op) PROVE Requests'
  BY <1>9, QuietRequests DEF ClosureEnds, ctxVars
<1>10. CASE UNCHANGED vars
  BY <1>10 DEF vars, Requests, KindInv, UserInv, WaitersPreemptHolder, idVars,
               lockVars, workVars, ctxVars, Quiescent, Ready
<1>11. QED
  BY <1>1, <1>2, <1>3, <1>4, <1>5, <1>6, <1>7, <1>8, <1>9, <1>10 DEF Next, Terminated

-----------------------------------------------------------------------------
(* The theorems *)

LEMMA InitInv == Init => IInv
<1> SUFFICES ASSUME Init PROVE IInv
  OBVIOUS
<1> USE DEF Init
<1>1. TypeOK
  <2>1. queue \in Seq(Ops) BY EmptySeq
  <2>2. pc \in [Ops -> Holding \cup {"idle", "queued", "done"}] OBVIOUS
  <2>3. outcome \in [Ops -> {"none", "ok", "failed", "stale", "refused", "unlaunched"}]
    OBVIOUS
  <2>4. QED BY <2>1, <2>2, <2>3 DEF TypeOK
<1>2. LockInv BY OpsAssumption DEF LockInv, Positions, Holding
<1>3. LatestInv BY DEF LatestInv, Positions
<1>4. WorkInv /\ ContextInv BY DEF WorkInv, ContextInv, Admitted
<1>5. KindInv /\ UserInv BY DEF KindInv, UserInv, Admitted, Ops
<1>6. AbandonedClosureIsTold /\ WaitersPreemptHolder /\ FetchWindowIsHolders
  BY DEF AbandonedClosureIsTold, WaitersPreemptHolder, FetchWindowIsHolders
<1>7. QED BY <1>1, <1>2, <1>3, <1>4, <1>5, <1>6 DEF IInv

\* Every step of the serialiser preserves the inductive invariant.
LEMMA StepInv == IInv /\ [Next]_vars => IInv'
<1> SUFFICES ASSUME IInv, [Next]_vars PROVE IInv'
  OBVIOUS
<1>1. TypeOK /\ Queueing /\ Working /\ Requests /\ FetchWindowIsHolders
  BY DEF IInv, Queueing, Working, Requests
<1>2. TypeOK' /\ Queueing' /\ Working' /\ Requests' /\ FetchWindowIsHolders'
  BY <1>1, TypeStep, LockStep, WorkStep, RequestStep, FetchStep
<1>3. QED BY <1>2 DEF IInv, Queueing, Working, Requests

THEOREM Invariance == Spec => []IInv
BY InitInv, StepInv, PTL DEF Spec

\* The state of the serialiser keeps its types.
THEOREM TypeCorrect == Spec => []TypeOK
<1>1. IInv => TypeOK BY DEF IInv
<1>2. QED BY <1>1, Invariance, PTL

\* A closure that outlives its call was told to stop, whatever the order of
\* calls, cancellations, timers and failures.
THEOREM AbandonedTold == Spec => []AbandonedClosureIsTold
<1>1. IInv => AbandonedClosureIsTold BY DEF IInv
<1>2. QED BY <1>1, Invariance, PTL

\* Two commands are at work at the same time only if one was told to stop.
THEOREM Exclusive == Spec => []ExclusiveCommand
<1>1. IInv => ExclusiveCommand
  <2> SUFFICES ASSUME IInv, NEW a \in Ops, NEW b \in Ops, a # b,
                      closure[a] = "running", closure[b] = "running"
               PROVE  \E op \in {a, b} : Told(op) \/ outcome[op] = "unlaunched"
    BY DEF ExclusiveCommand
  <2>1. \E op \in {a, b} : pc[op] \notin Holding
    BY DEF IInv, LockInv
  <2>2. \A op \in {a, b} : pc[op] \in Holding \cup {"done"}
    BY DEF IInv, WorkInv, Holding
  <2>3. PICK op \in {a, b} : pc[op] = "done"
    BY <2>1, <2>2
  <2>4. QED BY <2>3 DEF IInv, AbandonedClosureIsTold
<1>2. QED BY <1>1, Invariance, PTL

\* Between callbacks, what a new command or cancel() cancels is the command in
\* the mutex.
THEOREM CancelReaches == Spec => []CancelReachesHolder
<1>1. IInv => CancelReachesHolder
  BY HolderReached DEF IInv, Queueing, Working, CancelReachesHolder
<1>2. QED BY <1>1, Invariance, PTL

\* Nobody waits behind a command that was not told to stop.
THEOREM WaitersPreempt == Spec => []WaitersPreemptHolder
<1>1. IInv => WaitersPreemptHolder BY DEF IInv
<1>2. QED BY <1>1, Invariance, PTL

\* The fetch flag is up only while the holder of the mutex fetches.
THEOREM FetchWindow == Spec => []FetchWindowIsHolders
<1>1. IInv => FetchWindowIsHolders BY DEF IInv
<1>2. QED BY <1>1, Invariance, PTL

\* A watcher is only refused because of a user command.
THEOREM RefusedForUser == Spec => RefusedOnlyForUser
<1>1. IInv /\ [Next]_vars =>
        [\A w \in Watchers :
            outcome[w] = "none" /\ outcome'[w] = "refused"
                => \E u \in Users : pc[u] \in Holding \cup {"queued"}]_vars
  <2> SUFFICES ASSUME IInv, [Next]_vars, NEW w \in Watchers,
                      outcome[w] = "none", outcome'[w] = "refused"
               PROVE  \E u \in Users : pc[u] \in Holding \cup {"queued"}
    OBVIOUS
  <2>1. ASSUME NEW v \in Watchers, RefuseWatch(v)
        PROVE  \E u \in Users : pc[u] \in Holding \cup {"queued"}
    BY <2>1 DEF RefuseWatch, IInv, KindInv
  <2>2. ASSUME NEW v \in Watchers, RefuseWatchLocked(v)
        PROVE  \E u \in Users : pc[u] \in Holding \cup {"queued"}
    <3>1. Quiescent /\ Locked /\ executing # "autowatcher"
      BY <2>2 DEF RefuseWatchLocked
    <3>2. holder \in Ops /\ pc[holder] \in Admitted
      BY <3>1, HolderReached DEF IInv, Queueing, Working
    <3>3. holder \in Users
      BY <3>1, <3>2 DEF IInv, KindInv, Ops
    <3>4. QED BY <3>2, <3>3 DEF Admitted, Holding
  <2>3. ASSUME NEW op \in Ops,
               NEW r \in {"ok", "failed", "stale", "unlaunched"}, Finally(op, r)
        PROVE  FALSE
    BY <2>3 DEF Finally, IInv, TypeOK, Ops
  <2>4. CASE UNCHANGED outcome
    BY <2>4
  <2>5. QED
    BY <2>1, <2>2, <2>3, <2>4
       DEF Next, Step, CallWatch, CallUser, Cancel, ResolveTask, CancelOwnContext,
           DropStale, Admit, WakeUp, FetchDone, FetchFails, Launched, LaunchFails,
           LateCancel, Settle, ClosureEnds, Terminated, vars
<1>2. QED BY <1>1, Invariance, PTL DEF RefusedOnlyForUser, Spec

\* A user command is only dropped for a newer user command that still waits.
THEOREM DroppedForUser == Spec => DroppedOnlyForNewerUser
<1>1. IInv /\ [Next]_vars =>
        [\A u \in Users :
            outcome[u] = "none" /\ outcome'[u] = "stale"
                => latest \in Users \ {u} /\ pc[latest] = "queued"]_vars
  <2> SUFFICES ASSUME IInv, [Next]_vars, NEW u \in Users,
                      outcome[u] = "none", outcome'[u] = "stale"
               PROVE  latest \in Users \ {u} /\ pc[latest] = "queued"
    OBVIOUS
  <2>1. u \in Ops BY DEF Ops
  <2>2. ASSUME NEW op \in Ops, DropStale(op)
        PROVE  latest \in Users \ {u} /\ pc[latest] = "queued"
    <3>1. op = u BY <2>1, <2>2 DEF DropStale, Finally, IInv, TypeOK
    <3>2. /\ pc[u] = "granted" /\ latest # u
          /\ latest \in Users /\ pc[latest] \in {"queued", "granted"}
      BY <2>2, <3>1 DEF DropStale, IInv, UserInv
    <3>3. pc[latest] # "granted"
      BY <2>1, <3>2 DEF IInv, LockInv, Holding, Ops
    <3>4. QED BY <3>2, <3>3
  <2>3. ASSUME NEW op \in Ops, NEW r \in {"ok", "failed", "unlaunched"}, Finally(op, r)
        PROVE  FALSE
    BY <2>1, <2>3 DEF Finally, IInv, TypeOK
  <2>4. ASSUME NEW w \in Watchers, RefuseWatch(w) \/ RefuseWatchLocked(w)
        PROVE  FALSE
    BY <2>1, <2>4 DEF RefuseWatch, RefuseWatchLocked, IInv, TypeOK, Ops
  <2>5. CASE UNCHANGED outcome
    BY <2>5
  <2>6. QED
    BY <2>2, <2>3, <2>4, <2>5
       DEF Next, Step, CallWatch, CallUser, Cancel, ResolveTask, CancelOwnContext,
           Admit, WakeUp, FetchDone, FetchFails, Launched, LaunchFails,
           LateCancel, Settle, ClosureEnds, Terminated, vars
<1>2. QED BY <1>1, Invariance, PTL DEF DroppedOnlyForNewerUser, Spec

-----------------------------------------------------------------------------
(* What the refinement needs beyond IInv *)

Waiting == {"queued", "granted"}

\* No user command waits in front of a watcher.
UsersBehind ==
    /\ \A w \in Watchers : pc[w] = "queued" => holder \notin Users
    /\ \A i, j \in Positions :
         i < j /\ queue[j] \in Watchers => queue[i] \notin Users

SlotInv ==
    /\ \A op \in Ops : pc[op] \in Admitted =>
         prevCtx \in {op, NoOp} /\ (op \in Users => executing # "autowatcher")
    /\ \A op \in Ops : pc[op] \in Waiting =>
         latest \in Ops /\ pc[latest] \in Waiting
    /\ \A op \in Ops : pc[op] # "done" => outcome[op] = "none"
    /\ UsersBehind

LEMMA InitSlot == Init => SlotInv
BY OpsAssumption DEF Init, SlotInv, UsersBehind, Positions, Waiting, Admitted, Ops

\* A request for the mutex: a watcher asks only when no user command is there.
LEMMA AcquireSlot ==
    ASSUME IInv, SlotInv, NEW op \in Ops, pc[op] = "idle", Acquire(op),
           latest' = op, UNCHANGED <<executing, outcome>>,
           prevCtx' \in {prevCtx, NoOp},
           op \in Watchers => /\ \A u \in Users : pc[u] \notin Waiting
                              /\ holder \notin Users
    PROVE  SlotInv'
<1> USE DEF Waiting, Admitted
<1>1. /\ pc'[op] \in Waiting
      /\ \A o \in Ops \ {op} : pc'[o] = pc[o]
  BY AcquirePc DEF IInv
<1>2. /\ \A o \in Ops : pc'[o] \in Admitted =>
           prevCtx' \in {o, NoOp} /\ (o \in Users => executing' # "autowatcher")
      /\ \A o \in Ops : pc'[o] \in Waiting => latest' \in Ops /\ pc'[latest'] \in Waiting
      /\ \A o \in Ops : pc'[o] # "done" => outcome'[o] = "none"
  BY <1>1 DEF SlotInv
<1>3. UsersBehind'
  <2>1. CASE Locked
    <3>1. /\ holder' = holder
          /\ Len(queue') = Len(queue) + 1
          /\ \A i \in 1 .. Len(queue) : queue'[i] = queue[i]
          /\ queue'[Len(queue) + 1] = op
          /\ Len(queue) \in Nat
      <4>1. queue \in Seq(Ops) BY DEF IInv, TypeOK
      <4>2. QED BY <2>1, <4>1 DEF Acquire
    <3>2. \A w \in Watchers : pc'[w] = "queued" => holder' \notin Users
      BY <1>1, <3>1 DEF SlotInv, UsersBehind, Ops
    <3>3. \A i \in 1 .. Len(queue) : queue[i] \in Ops /\ pc[queue[i]] = "queued"
      BY PositionsIn DEF IInv, LockInv, Positions
    <3>4. ASSUME NEW i \in 1 .. Len(queue'), NEW j \in 1 .. Len(queue'),
                 i < j, queue'[j] \in Watchers
          PROVE  queue'[i] \notin Users
      <4>1. i \in 1 .. Len(queue) BY <3>1, <3>4
      <4>2. CASE j = Len(queue) + 1
        BY <3>1, <3>3, <3>4, <4>1, <4>2
      <4>3. CASE j # Len(queue) + 1
        <5>1. j \in 1 .. Len(queue) BY <3>1, <4>3
        <5>2. QED BY <3>1, <3>4, <4>1, <5>1 DEF SlotInv, UsersBehind, Positions
      <4>4. QED BY <4>2, <4>3
    <3>5. QED BY <3>2, <3>4 DEF UsersBehind, Positions
  <2>2. CASE ~Locked
    <3>1. queue' = queue /\ queue = <<>> /\ pc'[op] = "granted"
      BY <2>2, AcquirePc DEF Acquire, IInv, LockInv, Locked
    <3>2. \A o \in Ops : pc[o] # "queued" BY <3>1 DEF IInv, LockInv, Positions
    <3>3. QED BY <1>1, <3>1, <3>2 DEF UsersBehind, Positions, Ops
  <2>3. QED BY <2>1, <2>2
<1>4. QED BY <1>2, <1>3 DEF SlotInv

\* The finally block of the holder.
LEMMA FinallySlot ==
    ASSUME IInv, SlotInv, NEW op \in Ops, pc[op] \in Holding, NEW r, Finally(op, r),
           UNCHANGED <<latest, prevCtx>>, pc[op] = "granted" => latest # op
    PROVE  SlotInv'
<1> USE DEF Waiting, Admitted, Holding
<1>1. /\ pc'[op] = "done"
      /\ \A o \in Ops \ {op} :
           \/ pc'[o] = pc[o]
           \/ pc[o] = "queued" /\ pc'[o] = "granted" /\ holder' = o
  BY FinallyPc DEF IInv, Queueing
<1>2. op = holder /\ executing' = "none"
  BY DEF IInv, LockInv, Finally
<1>3. outcome' = [outcome EXCEPT ![op] = r] BY DEF Finally
<1>4. /\ \A o \in Ops : pc'[o] \in Admitted =>
           prevCtx' \in {o, NoOp} /\ (o \in Users => executing' # "autowatcher")
      /\ \A o \in Ops : pc'[o] # "done" => outcome'[o] = "none"
  BY <1>1, <1>2, <1>3 DEF SlotInv, IInv, TypeOK
<1>5. \A o \in Ops : pc'[o] \in Waiting => latest' \in Ops /\ pc'[latest'] \in Waiting
  <2> SUFFICES ASSUME NEW o \in Ops, pc'[o] \in Waiting
               PROVE  latest \in Ops /\ pc'[latest] \in Waiting
    OBVIOUS
  <2>1. pc[o] \in Waiting BY <1>1
  <2>2. latest \in Ops /\ pc[latest] \in Waiting BY <2>1 DEF SlotInv
  <2>3. latest # op BY <2>2
  <2>4. QED BY <1>1, <2>2, <2>3
<1>6. UsersBehind'
  <2>1. CASE queue = <<>>
    <3>1. queue' = <<>> BY <2>1 DEF Finally
    <3>2. \A o \in Ops : pc'[o] # "queued"
      BY <1>1, <2>1 DEF IInv, LockInv, Positions
    <3>3. QED BY <3>1, <3>2 DEF UsersBehind, Positions, Ops
  <2>2. CASE queue # <<>>
    <3>1. /\ holder' = queue[1] /\ queue' = Tail(queue)
          /\ Len(queue) \in Nat /\ Len(queue) > 0
      BY <2>2 DEF Finally, IInv, TypeOK
    <3>2. /\ Len(queue') = Len(queue) - 1
          /\ \A i \in 1 .. Len(queue') : queue'[i] = queue[i + 1]
      BY <2>2, <3>1 DEF IInv, TypeOK
    <3>3. ASSUME NEW w \in Watchers, pc'[w] = "queued" PROVE holder' \notin Users
      <4>1. w \in Ops /\ pc[w] = "queued" BY <1>1, <3>3 DEF Ops
      <4>2. PICK j \in 1 .. Len(queue) : queue[j] = w
        BY <4>1 DEF IInv, LockInv, Positions
      <4>3. CASE j = 1
        BY <3>1, <4>2, <4>3, OpsAssumption
      <4>4. CASE j # 1
        <5>1. 1 \in Positions /\ j \in Positions /\ 1 < j
          BY <3>1, <4>4 DEF Positions
        <5>2. QED BY <3>1, <4>2, <5>1 DEF SlotInv, UsersBehind
      <4>5. QED BY <4>3, <4>4
    <3>4. ASSUME NEW i \in 1 .. Len(queue'), NEW j \in 1 .. Len(queue'),
                 i < j, queue'[j] \in Watchers
          PROVE  queue'[i] \notin Users
      <4>1. i + 1 \in Positions /\ j + 1 \in Positions /\ i + 1 < j + 1
        BY <3>1, <3>2, <3>4 DEF Positions
      <4>2. QED BY <3>2, <3>4, <4>1 DEF SlotInv, UsersBehind
    <3>5. QED BY <3>3, <3>4 DEF UsersBehind, Positions
  <2>3. QED BY <2>1, <2>2
<1>7. QED BY <1>4, <1>5, <1>6 DEF SlotInv

\* A step that admits nobody and moves no waiter.
LEMMA MoveSlot ==
    ASSUME IInv, SlotInv, UNCHANGED <<lockVars, latest, executing, outcome>>,
           prevCtx' \in {prevCtx, NoOp},
           \A o \in Ops : \/ pc'[o] = pc[o]
                          \/ pc[o] \in Admitted /\ pc'[o] \in Admitted
    PROVE  SlotInv'
BY DEF SlotInv, UsersBehind, Positions, lockVars, Waiting, Admitted, Ops

\* The newest operation is admitted: nobody else waits.
LEMMA AdmitSlot ==
    ASSUME IInv, SlotInv, NEW op \in Ops, Admit(op) PROVE SlotInv'
<1> USE DEF Waiting, Admitted, Holding, lockVars
<1>1. /\ pc[op] = "granted" /\ op = holder /\ latest = op
      /\ prevCtx' = op /\ executing' = KindOf(op)
      /\ UNCHANGED <<latest, lockVars, outcome>>
  BY DEF Admit, IInv, LockInv
<1>2. /\ pc'[op] \in Admitted
      /\ \A o \in Ops \ {op} : pc'[o] = pc[o]
  BY DEF Admit, Proceed, BeginFetch, StartClosure, IInv, TypeOK
<1>3. queue = <<>> BY <1>1 DEF IInv, LatestInv
<1>4. \A o \in Ops : pc[o] # "queued" BY <1>3 DEF IInv, LockInv, Positions
<1>5. \A o \in Ops \ {op} : pc[o] \notin Holding BY <1>1 DEF IInv, LockInv
<1>6. UsersBehind'
  BY <1>1, <1>2, <1>3, <1>4 DEF UsersBehind, Positions, Ops
<1>7. QED BY <1>1, <1>2, <1>4, <1>5, <1>6 DEF SlotInv, KindOf

-----------------------------------------------------------------------------
(* The serialiser implements CommandSlot *)

LEMMA Phases ==
    \A p : /\ PhaseOf(p) = "idle" <=> p \notin Holding \cup {"queued", "done"}
           /\ PhaseOf(p) = "waiting" <=> p \in {"queued", "granted"}
           /\ PhaseOf(p) = "inside" <=> p \in Admitted
           /\ PhaseOf(p) = "over" <=> p = "done"
BY DEF PhaseOf, Holding, Admitted

Phase == [op \in Ops |-> PhaseOf(pc[op])]
AtWork == {op \in Ops : closure[op] = "running"}
Lost == {u \in Users : outcome[u] = "unlaunched"}

\* One operation changes its phase.
LEMMA PhaseMoves ==
    ASSUME NEW op \in Ops, \A o \in Ops \ {op} : PhaseOf(pc'[o]) = PhaseOf(pc[o])
    PROVE  Phase' = [Phase EXCEPT ![op] = PhaseOf(pc'[op])]
BY DEF Phase

LEMMA PhaseStays ==
    ASSUME \A o \in Ops : PhaseOf(pc'[o]) = PhaseOf(pc[o])
    PROVE  Phase' = Phase
BY DEF Phase

\* Nobody but the holder is inside.
LEMMA InsideHolds ==
    ASSUME LockInv, NEW op \in Ops
    PROVE  /\ Phase[op] = "inside" => op = holder
           /\ op \in Promise!In("inside") <=> op \in Ops /\ pc[op] \in Admitted
BY Phases DEF LockInv, Promise!In, Promise!Ops, Ops, Phase, Admitted, Holding

LEMMA PromiseInit == Init => Promise!Init
BY Phases DEF Init, Promise!Init, Promise!Ops, Ops, PhaseOf

LEMMA SlotStep == IInv /\ SlotInv /\ [Next]_vars => SlotInv'
<1> SUFFICES ASSUME IInv, SlotInv, [Next]_vars PROVE SlotInv'
  OBVIOUS
<1> USE DEF idVars, ctxVars, Waiting, Admitted
<1>1. ASSUME NEW w \in Watchers, RefuseWatch(w) PROVE SlotInv'
  <2>1. w \in Ops /\ pc[w] = "idle" /\ pc' = [pc EXCEPT ![w] = "done"]
    BY <1>1 DEF RefuseWatch, Ops
  <2>2. outcome' = [outcome EXCEPT ![w] = "refused"]
    BY <1>1 DEF RefuseWatch
  <2>3. UNCHANGED <<idVars, lockVars, ctxVars>> BY <1>1 DEF RefuseWatch
  <2>4. UsersBehind'
    BY <2>1, <2>3 DEF SlotInv, UsersBehind, Positions, lockVars, Ops, IInv, TypeOK
  <2>5. QED BY <2>1, <2>2, <2>3, <2>4 DEF SlotInv, IInv, TypeOK
<1>2. ASSUME NEW w \in Watchers, CallWatch(w) PROVE SlotInv'
  <2>1. w \in Ops /\ w \notin Users BY OpsAssumption DEF Ops
  <2>2. \A u \in Users : pc[u] \notin Waiting
    BY <1>2, NoUserWaits DEF CallWatch, IInv
  <2>3. holder \notin Users
    BY <1>2, HolderReached, OpsAssumption
       DEF CallWatch, Locked, IInv, Queueing, Working, SlotInv, Ops
  <2>4. QED BY <1>2, <2>1, <2>2, <2>3, AcquireSlot DEF CallWatch
<1>3. ASSUME NEW w \in Watchers, RefuseWatchLocked(w) PROVE SlotInv'
  <2>1. /\ w \in Ops /\ pc[w] = "idle" /\ pc' = [pc EXCEPT ![w] = "done"]
        /\ outcome' = [outcome EXCEPT ![w] = "refused"]
        /\ executing' = "none" /\ UNCHANGED <<lockVars, ctxVars>>
    BY <1>3 DEF RefuseWatchLocked, Ops
  <2>2. \A u \in Users : pc[u] \notin Waiting
    BY <1>3, NoUserWaits DEF RefuseWatchLocked, IInv
  <2>3. holder \in Users
    BY <1>3, HolderReached DEF RefuseWatchLocked, IInv, Queueing, Working, KindInv, Ops
  <2>4. \A v \in Watchers : pc[v] \notin Waiting
    BY <1>3, <2>3 DEF RefuseWatchLocked, Quiescent, Ready, SlotInv, UsersBehind, Ops
  <2>5. \A o \in Ops : pc'[o] \notin Waiting
    BY <2>1, <2>2, <2>4 DEF Ops, IInv, TypeOK
  <2>6. \A i \in Positions : FALSE
    BY <2>2, <2>4, PositionsIn DEF IInv, LockInv, Ops
  <2>7. UsersBehind'
    BY <2>1, <2>5, <2>6 DEF UsersBehind, Positions, lockVars, Ops
  <2>8. QED BY <2>1, <2>5, <2>7 DEF SlotInv, IInv, TypeOK
<1>4. ASSUME NEW u \in Users, CallUser(u) PROVE SlotInv'
  <2>1. u \in Ops /\ u \notin Watchers BY OpsAssumption DEF Ops
  <2>2. QED BY <1>4, <2>1, AcquireSlot DEF CallUser
<1>5. CASE Cancel
  BY <1>5, MoveSlot DEF Cancel
<1>6. ASSUME NEW s \in Scopes, ResolveTask(s) PROVE SlotInv'
  BY <1>6, MoveSlot DEF ResolveTask
<1>7. ASSUME NEW op \in Ops, CancelOwnContext(op) PROVE SlotInv'
  BY <1>7, MoveSlot DEF CancelOwnContext
<1>8. ASSUME NEW op \in Ops, Step(op) PROVE SlotInv'
  <2>1. CASE DropStale(op)
    BY <2>1, FinallySlot DEF DropStale, Holding
  <2>2. CASE Admit(op)
    BY <2>2, AdmitSlot
  <2>3. CASE WakeUp(op)
    BY <2>3, MoveSlot DEF WakeUp, Proceed, BeginFetch, StartClosure, IInv, TypeOK
  <2>4. CASE FetchDone(op)
    BY <2>4, MoveSlot DEF FetchDone, StartClosure, IInv, TypeOK
  <2>5. CASE FetchFails(op)
    BY <2>5, FinallySlot DEF FetchFails, Holding
  <2>6. CASE Launched(op)
    BY <2>6, MoveSlot DEF Launched, IInv, TypeOK
  <2>7. CASE LaunchFails(op)
    BY <2>7, FinallySlot DEF LaunchFails, Holding
  <2>8. CASE LateCancel(op)
    BY <2>8, MoveSlot DEF LateCancel
  <2>9. CASE Settle(op)
    BY <2>9, FinallySlot DEF Settle, Holding
  <2>10. QED
    BY <1>8, <2>1, <2>2, <2>3, <2>4, <2>5, <2>6, <2>7, <2>8, <2>9 DEF Step
<1>9. ASSUME NEW op \in Ops, ClosureEnds(op) PROVE SlotInv'
  BY <1>9, MoveSlot DEF ClosureEnds
<1>10. CASE UNCHANGED vars
  BY <1>10, MoveSlot DEF vars
<1>11. QED
  BY <1>1, <1>2, <1>3, <1>4, <1>5, <1>6, <1>7, <1>8, <1>9, <1>10 DEF Next, Terminated

-----------------------------------------------------------------------------
(* Steps of the serialiser are steps of CommandSlot *)

Sees == cancelled \cup disposed

\* A request: whoever is inside is told.
LEMMA RequestAsks ==
    ASSUME IInv, SlotInv, Quiescent, NEW op \in Ops, pc[op] = "idle", Acquire(op),
           IF Locked THEN CancelContextOf(prevCtx) ELSE UNCHANGED <<cancelled, promise>>,
           UNCHANGED <<disposed, closure, outcome>>,
           op \in Watchers => \A u \in Users : pc[u] \notin Waiting \cup Admitted
    PROVE  Promise!Ask(op)
<1>1. Phase[op] = "idle" /\ Phase' = [Phase EXCEPT ![op] = "waiting"]
  <2>1. pc'[op] \in Waiting /\ \A o \in Ops \ {op} : pc'[o] = pc[o]
    BY AcquirePc DEF IInv, Waiting
  <2>2. QED BY <2>1, PhaseMoves, Phases DEF Phase, Waiting, Holding
<1>2. Sees' = Sees \cup Promise!In("inside")
  <2>1. CASE Locked
    <3>1. /\ holder \in Ops /\ pc[holder] \in Admitted
          /\ prevCtx = holder \/ holder \in cancelled
          /\ prevCtx \in {holder, NoOp}
      BY <2>1, HolderReached DEF IInv, Queueing, Working, SlotInv
    <3>2. Promise!In("inside") = {holder}
      <4>1. \A o \in Ops : o \in Promise!In("inside") <=> pc[o] \in Admitted
        BY InsideHolds DEF IInv
      <4>2. \A o \in Ops : pc[o] \in Admitted => o = holder
        BY DEF IInv, LockInv, Admitted, Holding
      <4>3. Promise!In("inside") \subseteq Ops BY DEF Promise!In, Promise!Ops, Ops
      <4>4. QED BY <3>1, <4>1, <4>2, <4>3
    <3>3. cancelled' = cancelled \cup ({prevCtx} \ {NoOp})
      BY <2>1 DEF CancelContextOf
    <3>4. holder # NoOp BY <2>1 DEF Locked
    <3>5. QED BY <3>1, <3>2, <3>3, <3>4 DEF Sees
  <2>2. CASE ~Locked
    <3>1. Promise!In("inside") = {}
      <4>1. \A o \in Ops : pc[o] \notin Admitted
        BY <2>2, OpsAssumption DEF Locked, IInv, LockInv, Admitted, Holding
      <4>2. QED BY <4>1, InsideHolds DEF IInv, Promise!In, Promise!Ops, Ops
    <3>2. QED BY <2>2, <3>1 DEF Sees
  <2>3. QED BY <2>1, <2>2
<1>3. op \in Watchers => ~Promise!UserIsThere
  BY Phases DEF Promise!UserIsThere, Promise!In, Promise!Ops, Ops, Waiting, Admitted
<1>4. AtWork' = AtWork /\ Lost' = Lost BY DEF AtWork, Lost
<1>5. QED
  BY <1>1, <1>2, <1>3, <1>4
     DEF Promise!Ask, Promise!Moves, Phase, Sees, AtWork, Lost

\* The finally block of an operation that was inside.
LEMMA FinallyLeaves ==
    ASSUME IInv, SlotInv, NEW op \in Ops, pc[op] \in Admitted,
           NEW r \in {"ok", "failed", "unlaunched"}, Finally(op, r),
           UNCHANGED <<cancelled, closure>>,
           closure[op] = "running" =>
               \/ op \in cancelled \/ op \in Watchers
               \/ op \in Users /\ r = "unlaunched"
    PROVE  Promise!Leave(op)
<1>1. Phase[op] = "inside" /\ Phase' = [Phase EXCEPT ![op] = "over"]
  <2>1. /\ pc'[op] = "done"
        /\ \A o \in Ops \ {op} :
             \/ pc'[o] = pc[o]
             \/ pc[o] = "queued" /\ pc'[o] = "granted"
    BY FinallyPc DEF IInv, Queueing, Admitted, Holding
  <2>2. \A o \in Ops \ {op} : PhaseOf(pc'[o]) = PhaseOf(pc[o])
    BY <2>1, Phases
  <2>3. QED BY <2>1, <2>2, PhaseMoves, Phases DEF Phase
<1>2. disposed' = IF op \in Watchers THEN disposed \cup {op} ELSE disposed
  BY DEF Finally, Admitted
<1>3. Sees' \in {Sees, Sees \cup {op}}
  <2>1. CASE op \in Watchers BY <1>2, <2>1 DEF Sees
  <2>2. CASE op \notin Watchers BY <1>2, <2>2 DEF Sees
  <2>3. QED BY <2>1, <2>2
<1>4. outcome' = [outcome EXCEPT ![op] = r] /\ outcome[op] = "none"
  BY DEF Finally, SlotInv, Admitted
<1>5. outcome \in [Ops -> {"none", "ok", "failed", "stale", "refused", "unlaunched"}]
  BY DEF IInv, TypeOK
<1>6. Lost' = IF op \in Users /\ r = "unlaunched" THEN Lost \cup {op} ELSE Lost
  BY <1>4, <1>5 DEF Lost, Ops
<1>7. AtWork' = AtWork BY DEF AtWork
<1>8. op \in AtWork => op \in Sees' \cup Lost'
  BY <1>2, <1>6 DEF AtWork, Sees
<1>9. Lost' \in {Lost, Lost \cup ({op} \cap Users)}
  BY <1>6
<1>10. QED
  BY <1>1, <1>3, <1>7, <1>8, <1>9
     DEF Promise!Leave, Promise!Moves, Phase, Sees, AtWork, Lost

LEMMA StepKeepsPromise ==
    IInv /\ SlotInv /\ [Next]_vars => [Promise!Next]_(Promise!vars)
<1> SUFFICES ASSUME IInv, SlotInv, [Next]_vars
             PROVE  Promise!Next \/ UNCHANGED Promise!vars
  OBVIOUS
<1> USE DEF idVars, ctxVars, taskVars, workVars, Waiting, Admitted
<1> DEFINE Stutters == Phase' = Phase /\ Sees' = Sees /\ AtWork' = AtWork /\ Lost' = Lost
<1>a. Stutters => UNCHANGED Promise!vars
  BY DEF Promise!vars, Phase, Sees, AtWork, Lost
<1>b. ASSUME NEW op \in Ops,
             \/ Promise!Ask(op) \/ Promise!Enter(op) \/ Promise!Drop(op)
             \/ Promise!Begin(op) \/ Promise!End(op)
             \/ Promise!Tell(op) \/ Promise!Leave(op)
      PROVE  Promise!Next
  BY <1>b DEF Promise!Next, Promise!Ops, Ops
<1>c. \A w \in Watchers : Promise!Refuse(w) => Promise!Next
  BY DEF Promise!Next
<1>1. ASSUME NEW w \in Watchers, RefuseWatch(w) \/ RefuseWatchLocked(w)
      PROVE  Promise!Refuse(w)
  <2>1. /\ w \in Ops /\ w \notin Users
        /\ pc[w] = "idle" /\ pc' = [pc EXCEPT ![w] = "done"]
        /\ outcome' = [outcome EXCEPT ![w] = "refused"]
        /\ UNCHANGED <<cancelled, disposed, closure>>
    BY <1>1, OpsAssumption DEF RefuseWatch, RefuseWatchLocked, Ops
  <2>2. \E u \in Users : pc[u] \in Waiting \cup Admitted
    <3>1. CASE RefuseWatch(w)
      BY <3>1 DEF RefuseWatch, IInv, KindInv, Holding
    <3>2. CASE RefuseWatchLocked(w)
      BY <3>2, HolderReached
         DEF RefuseWatchLocked, IInv, Queueing, Working, KindInv, Ops
    <3>3. QED BY <1>1, <3>1, <3>2
  <2>3. Promise!UserIsThere
    BY <2>2, Phases DEF Promise!UserIsThere, Promise!In, Promise!Ops, Ops
  <2>4. Phase[w] = "idle" /\ Phase' = [Phase EXCEPT ![w] = "over"]
    <3>1. pc'[w] = "done" /\ \A o \in Ops \ {w} : pc'[o] = pc[o]
      BY <2>1 DEF IInv, TypeOK
    <3>2. QED BY <2>1, <3>1, PhaseMoves, Phases DEF Phase, Holding
  <2>5. Lost' = Lost BY <2>1 DEF Lost, IInv, TypeOK, Ops
  <2>6. AtWork' = AtWork /\ Sees' = Sees BY <2>1 DEF AtWork, Sees
  <2>7. QED
    BY <2>3, <2>4, <2>5, <2>6
       DEF Promise!Refuse, Promise!Moves, Phase, Sees, AtWork, Lost
<1>2. ASSUME NEW w \in Watchers, CallWatch(w) PROVE Promise!Ask(w)
  <2>1. w \in Ops BY DEF Ops
  <2>2. \A u \in Users : pc[u] \notin Waiting
    BY <1>2, NoUserWaits DEF CallWatch, IInv
  <2>3. \A u \in Users : pc[u] \notin Admitted
    BY <1>2, OpsAssumption
       DEF CallWatch, Locked, IInv, LockInv, SlotInv, Ops, Holding
  <2>4. QED BY <1>2, <2>1, <2>2, <2>3, RequestAsks DEF CallWatch
<1>3. ASSUME NEW u \in Users, CallUser(u) PROVE Promise!Ask(u)
  <2>1. u \in Ops /\ u \notin Watchers BY OpsAssumption DEF Ops
  <2>2. QED BY <1>3, <2>1, RequestAsks DEF CallUser
<1>4. CASE Cancel
  <2>1. /\ holder \in Ops /\ pc[holder] \in Admitted /\ prevCtx \in {holder, NoOp}
    BY <1>4, HolderReached DEF Cancel, IInv, Queueing, Working, SlotInv
  <2>2. cancelled' = cancelled \cup ({prevCtx} \ {NoOp})
    BY <1>4 DEF Cancel, CancelContextOf
  <2>3. Phase' = Phase /\ AtWork' = AtWork /\ Lost' = Lost
    BY <1>4 DEF Cancel, Phase, AtWork, Lost
  <2>4. CASE prevCtx = NoOp
    <3>1. Sees' = Sees BY <1>4, <2>2, <2>4 DEF Cancel, Sees
    <3>2. QED BY <1>a, <2>3, <3>1
  <2>5. CASE prevCtx = holder
    <3>1. Sees' = Sees \cup {holder}
      BY <1>4, <2>1, <2>2, <2>5, OpsAssumption DEF Cancel, Sees
    <3>2. Phase[holder] = "inside" BY <2>1, Phases DEF Phase
    <3>3. Promise!Tell(holder)
      BY <2>3, <3>1, <3>2 DEF Promise!Tell, Phase, Sees, AtWork, Lost
    <3>4. QED BY <1>b, <2>1, <3>3
  <2>6. QED BY <2>1, <2>4, <2>5
<1>5. ASSUME NEW s \in Scopes, ResolveTask(s) PROVE Stutters
  BY <1>5 DEF ResolveTask, Phase, Sees, AtWork, Lost
<1>6. ASSUME NEW op \in Ops, CancelOwnContext(op) PROVE Promise!Tell(op)
  <2>1. pc[op] \in Admitted \cup {"done"}
    BY <1>6 DEF CancelOwnContext, IInv, WorkInv
  <2>2. cancelled' = cancelled \cup {op}
    BY <1>6, OpsAssumption DEF CancelOwnContext, CancelContextOf
  <2>3. Phase[op] \in {"inside", "over"} BY <2>1, Phases DEF Phase
  <2>4. /\ Phase' = Phase /\ AtWork' = AtWork /\ Lost' = Lost
        /\ Sees' = Sees \cup {op}
    BY <1>6, <2>2 DEF CancelOwnContext, Phase, AtWork, Lost, Sees
  <2>5. QED BY <2>3, <2>4 DEF Promise!Tell, Phase, Sees, AtWork, Lost
<1>7. ASSUME NEW op \in Ops, Step(op) PROVE Promise!Next \/ Stutters
  <2>1. CASE DropStale(op)
    <3>1. /\ op \in Ops /\ pc[op] = "granted" /\ latest # op
          /\ latest \in Ops /\ pc[latest] \in Waiting
      BY <2>1 DEF DropStale, SlotInv
    <3>2. op \in Users => latest \in Users
      BY <3>1 DEF IInv, UserInv
    <3>3. latest \in Promise!In("waiting") \ {op}
      BY <3>1, Phases DEF Promise!In, Promise!Ops, Ops
    <3>4. Phase[op] = "waiting" /\ Phase' = [Phase EXCEPT ![op] = "over"]
      <4>1. /\ pc'[op] = "done"
            /\ \A o \in Ops \ {op} :
                 \/ pc'[o] = pc[o]
                 \/ pc[o] = "queued" /\ pc'[o] = "granted"
        BY <2>1, FinallyPc DEF DropStale, IInv, Queueing, Holding
      <4>2. \A o \in Ops \ {op} : PhaseOf(pc'[o]) = PhaseOf(pc[o])
        BY <4>1, Phases
      <4>3. QED BY <3>1, <4>1, <4>2, PhaseMoves, Phases DEF Phase
    <3>5. Sees' = Sees /\ AtWork' = AtWork
      BY <2>1 DEF DropStale, Finally, Sees, AtWork
    <3>6. outcome' = [outcome EXCEPT ![op] = "stale"] /\ outcome[op] = "none"
      BY <2>1, <3>1 DEF DropStale, Finally, SlotInv
    <3>7. Lost' = Lost BY <3>6 DEF Lost, IInv, TypeOK, Ops
    <3>8. Promise!Drop(op)
      BY <3>2, <3>3, <3>4, <3>5, <3>7
         DEF Promise!Drop, Promise!Moves, Phase, Sees, AtWork, Lost
    <3>9. QED BY <1>b, <3>8
  <2>2. CASE Admit(op)
    <3>1. /\ pc[op] = "granted" /\ op = holder
          /\ UNCHANGED <<cancelled, disposed, outcome>>
      BY <2>2 DEF Admit, IInv, LockInv, Holding
    <3>2. pc'[op] \in Admitted /\ \A o \in Ops \ {op} : pc'[o] = pc[o]
      BY <2>2 DEF Admit, Proceed, BeginFetch, StartClosure, IInv, TypeOK
    <3>3. Promise!In("inside") = {}
      <4>1. \A o \in Ops : pc[o] \notin Admitted
        BY <3>1 DEF IInv, LockInv, Holding
      <4>2. QED BY <4>1, InsideHolds DEF IInv, Promise!In, Promise!Ops, Ops
    <3>4. Phase[op] = "waiting" /\ Phase' = [Phase EXCEPT ![op] = "inside"]
      BY <3>1, <3>2, PhaseMoves, Phases DEF Phase
    <3>5. Sees' = Sees /\ Lost' = Lost BY <3>1 DEF Sees, Lost
    <3>6. AtWork' \in {AtWork, AtWork \cup {op}}
      <4>1. closure' = closure \/ closure' = [closure EXCEPT ![op] = "running"]
        BY <2>2 DEF Admit, Proceed, BeginFetch, StartClosure
      <4>2. QED BY <4>1 DEF AtWork, IInv, TypeOK
    <3>7. Promise!Enter(op)
      BY <3>3, <3>4, <3>5, <3>6
         DEF Promise!Enter, Promise!Moves, Phase, Sees, AtWork, Lost
    <3>8. QED BY <1>b, <3>7
  <2>3. ASSUME Quiescent, pc[op] \in {"sleeping", "fetching"}, StartClosure(op),
               UNCHANGED <<ctxVars, outcome>>
        PROVE  Promise!Begin(op)
    <3>1. closure[op] = "none" /\ closure' = [closure EXCEPT ![op] = "running"]
      BY <2>3 DEF StartClosure, IInv, WorkInv, TypeOK
    <3>2. pc'[op] \in Admitted /\ \A o \in Ops \ {op} : pc'[o] = pc[o]
      BY <2>3 DEF StartClosure, IInv, TypeOK
    <3>3. \A o \in Ops : PhaseOf(pc'[o]) = PhaseOf(pc[o])
      BY <2>3, <3>2, Phases
    <3>4. Phase' = Phase /\ Phase[op] = "inside"
      BY <2>3, <3>3, PhaseStays, Phases DEF Phase
    <3>5. AtWork' = AtWork \cup {op} /\ op \notin AtWork
      BY <3>1 DEF AtWork, IInv, TypeOK
    <3>6. Sees' = Sees /\ Lost' = Lost BY <2>3 DEF Sees, Lost
    <3>7. QED
      BY <3>4, <3>5, <3>6 DEF Promise!Begin, Phase, Sees, AtWork, Lost
  <2>4. ASSUME pc[op] \in Admitted, pc'[op] \in Admitted,
               \A o \in Ops \ {op} : pc'[o] = pc[o],
               UNCHANGED <<ctxVars, closure, outcome>>
        PROVE  Stutters
    <3>1. \A o \in Ops : PhaseOf(pc'[o]) = PhaseOf(pc[o]) BY <2>4, Phases
    <3>2. QED BY <2>4, <3>1, PhaseStays DEF Sees, AtWork, Lost
  <2>5. CASE WakeUp(op)
    <3>1. CASE StartClosure(op)
      BY <1>b, <2>3, <2>5, <3>1 DEF WakeUp
    <3>2. CASE BeginFetch(op)
      BY <2>4, <2>5, <3>2 DEF WakeUp, BeginFetch, IInv, TypeOK
    <3>3. QED BY <2>5, <3>1, <3>2 DEF WakeUp, Proceed
  <2>6. CASE FetchDone(op)
    BY <1>b, <2>3, <2>6 DEF FetchDone
  <2>7. CASE FetchFails(op)
    <3>1. closure[op] = "none" BY <2>7 DEF FetchFails, IInv, WorkInv, TypeOK
    <3>2. QED BY <1>b, <2>7, <3>1, FinallyLeaves DEF FetchFails
  <2>8. CASE Launched(op)
    BY <2>4, <2>8 DEF Launched, IInv, TypeOK
  <2>9. CASE LaunchFails(op)
    BY <1>b, <2>9, FinallyLeaves DEF LaunchFails, Ops
  <2>10. CASE LateCancel(op)
    BY <2>10 DEF LateCancel, Phase, Sees, AtWork, Lost
  <2>11. CASE Settle(op)
    <3>1. closure[op] = "running" => op \in cancelled
      BY <2>11 DEF Settle, IInv, WorkInv
    <3>2. PICK r \in {"ok", "failed"} : Finally(op, r)
      BY <2>11 DEF Settle
    <3>3. Promise!Leave(op)
      BY <2>11, <3>1, <3>2, FinallyLeaves DEF Settle
    <3>4. QED BY <1>b, <3>3
  <2>12. QED
    BY <1>7, <2>1, <2>2, <2>5, <2>6, <2>7, <2>8, <2>9, <2>10, <2>11 DEF Step
<1>8. ASSUME NEW op \in Ops, ClosureEnds(op) PROVE Promise!End(op)
  <2>1. AtWork' = AtWork \ {op} /\ op \in AtWork
    BY <1>8 DEF ClosureEnds, AtWork, IInv, TypeOK
  <2>2. Phase' = Phase /\ Sees' = Sees /\ Lost' = Lost
    BY <1>8 DEF ClosureEnds, Phase, Sees, Lost
  <2>3. QED BY <2>1, <2>2 DEF Promise!End, Phase, Sees, AtWork, Lost
<1>9. CASE UNCHANGED vars
  BY <1>9, <1>a DEF vars, Phase, Sees, AtWork, Lost
<1>10. QED
  BY <1>a, <1>b, <1>c, <1>1, <1>2, <1>3, <1>4, <1>5, <1>6, <1>7, <1>8, <1>9
     DEF Next, Terminated, Ops

\* For any calls, in any order and with any failure, the serialiser does what
\* CommandSlot allows: each of its steps is one step of CommandSlot or none.
THEOREM Implements == Spec => KeepsPromise
<1>1. Spec => [](IInv /\ SlotInv)
  BY InitInv, StepInv, InitSlot, SlotStep, PTL DEF Spec
<1>2. QED
  BY <1>1, PromiseInit, StepKeepsPromise, PTL DEF Spec, KeepsPromise, Promise!Spec

=============================================================================
