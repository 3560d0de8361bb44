-------------------------- MODULE BatchExecutorProofs --------------------------
(***************************************************************************)
(* Theorems about BatchExecutor, for every set of workers, all numbers of  *)
(* rows and ranks, every max_batch_size, and a batch function that may     *)
(* raise.                                                                  *)
(***************************************************************************)
EXTENDS BatchExecutor, FiniteSetTheorems, FunctionTheorems, TLAPS

\* The task of a worker that waits is that worker's next row.
Awaited(task) ==
    /\ task \in Task
    /\ future[task.worker] = "pending"
    /\ task.row = Len(scores[task.worker]) + 1

Queued(w)    == \E k \in DOMAIN queue : queue[k].worker = w
Collected(w) == \E k \in DOMAIN items : items[k].worker = w

\* No two tasks of a sequence are of one worker.
OnePerWorker(tasks) ==
    \A j, k \in DOMAIN tasks : tasks[j].worker = tasks[k].worker => j = k

\* The inductive invariant: tasks in flight and waiting workers correspond one
\* to one.
InFlightInv ==
    /\ \A k \in DOMAIN queue : Awaited(queue[k])
    /\ \A k \in DOMAIN items : Awaited(items[k])
    /\ OnePerWorker(queue)
    /\ OnePerWorker(items)
    /\ \A w \in Workers : ~(Queued(w) /\ Collected(w))
    /\ \A w \in Workers :
          future[w] = "pending" =>
              (Queued(w) \/ Collected(w)) /\ Len(scores[w]) < rows[w]

\* The thread starts a batch with nothing in its hands.
StartsEmpty == pc = "first" => items = <<>>

ExecutorInv == TypeOK /\ InFlightInv /\ StartsEmpty /\ OwnScores
-------------------------------------------------------------------------------
(* Sequences.                                                              *)

\* Taking the head of a queue.
LEMMA HeadTail ==
    ASSUME NEW S, NEW q \in Seq(S), q # <<>>
    PROVE  /\ Len(q) \in Nat \ {0} /\ 1 \in DOMAIN q
           /\ Head(q) = q[1] /\ Head(q) \in S
           /\ Tail(q) \in Seq(S)
           /\ DOMAIN Tail(q) = 1..Len(q) - 1
           /\ \A k \in DOMAIN Tail(q) : k + 1 \in DOMAIN q /\ Tail(q)[k] = q[k + 1]
           /\ \A k \in DOMAIN q : k # 1 => k - 1 \in DOMAIN Tail(q) /\ Tail(q)[k - 1] = q[k]
<1>1. Len(q) \in Nat \ {0} /\ DOMAIN q = 1..Len(q)
  OBVIOUS
<1>2. Head(q) = q[1] /\ Head(q) \in S
  BY <1>1
<1>3. Tail(q) \in Seq(S) /\ Len(Tail(q)) = Len(q) - 1
  OBVIOUS
<1>4. DOMAIN Tail(q) = 1..Len(q) - 1
  BY <1>3
<1>5. \A k \in 1..Len(q) - 1 : Tail(q)[k] = q[k + 1]
  BY <1>1
<1> QED
  BY <1>1, <1>2, <1>3, <1>4, <1>5

\* Adding at the end of a sequence.
LEMMA AppendEnd ==
    ASSUME NEW S, NEW q \in Seq(S), NEW x \in S
    PROVE  /\ Append(q, x) \in Seq(S)
           /\ Len(Append(q, x)) = Len(q) + 1
           /\ DOMAIN q = 1..Len(q) /\ Len(q) \in Nat
           /\ DOMAIN Append(q, x) = 1..Len(q) + 1
           /\ \A k \in DOMAIN q : Append(q, x)[k] = q[k]
           /\ Append(q, x)[Len(q) + 1] = x
  OBVIOUS

-------------------------------------------------------------------------------
(* The executor's gets.                                                    *)

\* A task that moves from the queue to the batch stays in flight.
LEMMA GetKeepsInFlight ==
    ASSUME TypeOK, InFlightInv, queue # <<>>,
           queue' = Tail(queue), items' = Append(items, Head(queue)),
           UNCHANGED workerVars
    PROVE  /\ InFlightInv'
           /\ queue' \in Seq(Task) /\ items' \in Seq(Task)
<1> DEFINE h == Head(queue)
<1>1. queue \in Seq(Task) /\ items \in Seq(Task)
  BY DEF TypeOK
<1>2. /\ Len(queue) \in Nat \ {0} /\ 1 \in DOMAIN queue
      /\ h = queue[1] /\ h \in Task
      /\ queue' \in Seq(Task)
      /\ DOMAIN queue' = 1..Len(queue) - 1
      /\ \A k \in DOMAIN queue' : k + 1 \in DOMAIN queue /\ queue'[k] = queue[k + 1]
      /\ \A k \in DOMAIN queue :
            k # 1 => k - 1 \in DOMAIN queue' /\ queue'[k - 1] = queue[k]
  BY <1>1, HeadTail
<1>3. /\ items' \in Seq(Task)
      /\ DOMAIN items = 1..Len(items) /\ Len(items) \in Nat
      /\ DOMAIN items' = 1..Len(items) + 1
      /\ \A k \in DOMAIN items : items'[k] = items[k]
      /\ items'[Len(items) + 1] = h
  BY <1>1, <1>2, AppendEnd
<1> HIDE DEF h
<1>4. future' = future /\ scores' = scores /\ rows' = rows
  BY DEF workerVars
<1>5. (\A k \in DOMAIN queue : Awaited(queue[k]))'
  BY <1>2, <1>4 DEF InFlightInv, Awaited
<1>6. (\A k \in DOMAIN items : Awaited(items[k]))'
  <2>1. Awaited(h)
    BY <1>2 DEF InFlightInv
  <2> QED
    BY <2>1, <1>3, <1>4 DEF InFlightInv, Awaited
<1>7. OnePerWorker(queue)'
  <2> SUFFICES ASSUME NEW j \in DOMAIN queue', NEW k \in DOMAIN queue',
                      queue'[j].worker = queue'[k].worker
               PROVE  j = k
    BY DEF OnePerWorker
  <2>1. j + 1 = k + 1
    BY <1>2 DEF InFlightInv, OnePerWorker
  <2> QED
    BY <2>1, <1>2
<1>8. Queued(h.worker) /\ ~Collected(h.worker) /\ h.worker \in Workers
  BY <1>2 DEF Queued, InFlightInv, Task
<1>9. OnePerWorker(items)'
  <2> SUFFICES ASSUME NEW j \in DOMAIN items', NEW k \in DOMAIN items',
                      items'[j].worker = items'[k].worker
               PROVE  j = k
    BY DEF OnePerWorker
  <2>1. CASE j \in DOMAIN items /\ k \in DOMAIN items
    BY <2>1, <1>3 DEF InFlightInv, OnePerWorker
  <2>2. CASE j \notin DOMAIN items \/ k \notin DOMAIN items
    BY <2>2, <1>3, <1>8 DEF Collected
  <2> QED
    BY <2>1, <2>2
<1>10. \A w \in Workers : Collected(w)' <=> Collected(w) \/ w = h.worker
  BY <1>3 DEF Collected
<1>11. \A w \in Workers : Queued(w)' <=> Queued(w) /\ w # h.worker
  <2> SUFFICES ASSUME NEW w \in Workers
               PROVE  Queued(w)' <=> Queued(w) /\ w # h.worker
    OBVIOUS
  <2>1. ASSUME Queued(w)'
        PROVE  Queued(w) /\ w # h.worker
    <3>1. PICK k \in DOMAIN queue' : queue'[k].worker = w
      BY <2>1 DEF Queued
    <3>2. k + 1 \in DOMAIN queue /\ queue[k + 1].worker = w /\ k + 1 # 1
      BY <3>1, <1>2
    <3> QED
      BY <3>2, <1>2 DEF Queued, InFlightInv, OnePerWorker
  <2>2. ASSUME Queued(w), w # h.worker
        PROVE  Queued(w)'
    <3>1. PICK k \in DOMAIN queue : queue[k].worker = w
      BY <2>2 DEF Queued
    <3>2. k # 1
      BY <3>1, <2>2, <1>2
    <3> QED
      BY <3>1, <3>2, <1>2 DEF Queued
  <2> QED
    BY <2>1, <2>2
<1>12. \A w \in Workers : ~(Queued(w) /\ Collected(w))'
  BY <1>10, <1>11 DEF InFlightInv
<1>13. \A w \in Workers :
          future'[w] = "pending" =>
              (Queued(w) \/ Collected(w))' /\ Len(scores'[w]) < rows'[w]
  BY <1>10, <1>11 DEF InFlightInv, workerVars
<1> QED
  BY <1>2, <1>3, <1>5, <1>6, <1>7, <1>9, <1>12, <1>13 DEF InFlightInv

-------------------------------------------------------------------------------
(* One lemma for each kind of step.                                        *)

\* A worker's submission puts its next row in flight.
LEMMA SubmitStep ==
    ASSUME ExecutorInv, NEW w \in Workers, Submit(w)
    PROVE  ExecutorInv'
<1> DEFINE task == [worker |-> w, row |-> Len(scores[w]) + 1]
<1>1. /\ queue \in Seq(Task) /\ scores \in [Workers -> Seq(Task)]
      /\ future \in [Workers -> {"set", "pending", "raised"}]
  BY DEF ExecutorInv, TypeOK
<1>2. /\ queue' = Append(queue, task)
      /\ future[w] = "set" /\ Len(scores[w]) < rows[w]
      /\ future' = [future EXCEPT ![w] = "pending"]
      /\ rows' = rows /\ scores' = scores /\ pc' = pc /\ items' = items
  BY DEF Submit
<1>3. task \in Task /\ task.worker = w
  BY <1>1 DEF Task
<1>4. /\ queue' \in Seq(Task)
      /\ DOMAIN queue = 1..Len(queue) /\ Len(queue) \in Nat
      /\ DOMAIN queue' = 1..Len(queue) + 1
      /\ \A k \in DOMAIN queue : queue'[k] = queue[k]
      /\ queue'[Len(queue) + 1] = task
  BY <1>1, <1>2, <1>3, AppendEnd
<1>5. TypeOK'
  BY <1>2, <1>4 DEF ExecutorInv, TypeOK
<1>6. ~Queued(w) /\ ~Collected(w)
  BY <1>2 DEF ExecutorInv, InFlightInv, Awaited, Queued, Collected
<1>7. Awaited(task)'
  BY <1>1, <1>2, <1>3 DEF Awaited
<1>8. \A t \in Task : Awaited(t) => t.worker # w
  BY <1>2 DEF Awaited
<1>9. (\A k \in DOMAIN items : Awaited(items[k]))'
  BY <1>1, <1>2 DEF ExecutorInv, InFlightInv, Awaited, Task
<1>10. (\A k \in DOMAIN queue : Awaited(queue[k]))'
  <2> SUFFICES ASSUME NEW k \in DOMAIN queue'
               PROVE  Awaited(queue[k])'
    OBVIOUS
  <2>1. CASE k \in DOMAIN queue
    <3>1. queue'[k] = queue[k] /\ Awaited(queue[k])
      BY <2>1, <1>4 DEF ExecutorInv, InFlightInv
    <3>2. queue[k] \in Task /\ queue[k].worker \in Workers
      BY <3>1 DEF Awaited, Task
    <3>3. future'[queue[k].worker] = "pending" /\ scores' = scores
      BY <3>1, <3>2, <1>1, <1>2 DEF Awaited
    <3> QED
      BY <3>1, <3>2, <3>3 DEF Awaited
  <2>2. CASE k = Len(queue) + 1
    BY <2>2, <1>2, <1>4, <1>7 DEF Awaited
  <2> QED
    BY <2>1, <2>2, <1>4
<1>11. \A v \in Workers : Queued(v)' <=> Queued(v) \/ v = w
  BY <1>3, <1>4 DEF Queued
<1>12. \A v \in Workers : Collected(v)' <=> Collected(v)
  BY <1>2 DEF Collected
<1>13. OnePerWorker(queue)' /\ OnePerWorker(items)'
  <2>1. OnePerWorker(items)'
    BY <1>2 DEF ExecutorInv, InFlightInv, OnePerWorker
  <2>2. ASSUME NEW j \in DOMAIN queue', NEW k \in DOMAIN queue',
               queue'[j].worker = queue'[k].worker
        PROVE  j = k
    <3>1. CASE j \in DOMAIN queue /\ k \in DOMAIN queue
      BY <3>1, <2>2, <1>4 DEF ExecutorInv, InFlightInv, OnePerWorker
    <3>2. CASE j \notin DOMAIN queue \/ k \notin DOMAIN queue
      BY <3>2, <2>2, <1>3, <1>4, <1>6 DEF Queued
    <3> QED
      BY <3>1, <3>2
  <2> QED
    BY <2>1, <2>2 DEF OnePerWorker
<1>14. (\A v \in Workers :
           future[v] = "pending" =>
              (Queued(v) \/ Collected(v)) /\ Len(scores[v]) < rows[v])'
  BY <1>1, <1>2, <1>11, <1>12 DEF ExecutorInv, InFlightInv
<1>15. InFlightInv'
  <2>1. \A v \in Workers : ~(Queued(v) /\ Collected(v))'
    BY <1>6, <1>11, <1>12 DEF ExecutorInv, InFlightInv
  <2> QED
    BY <2>1, <1>9, <1>10, <1>13, <1>14 DEF InFlightInv
<1>16. StartsEmpty' /\ OwnScores'
  BY <1>2 DEF ExecutorInv, StartsEmpty, OwnScores
<1> QED
  BY <1>5, <1>15, <1>16 DEF ExecutorInv

\* The three gets.
LEMMA GetStep ==
    ASSUME ExecutorInv, TakeFirst \/ Take \/ Fill
    PROVE  ExecutorInv'
<1>1. queue # <<>> /\ queue' = Tail(queue) /\ UNCHANGED workerVars
  BY DEF TakeFirst, Take, Fill
<1>2. items' = Append(items, Head(queue))
  <2>1. CASE TakeFirst
    <3>1. items = <<>> /\ items' = <<Head(queue)>>
      BY <2>1 DEF TakeFirst, ExecutorInv, StartsEmpty
    <3> QED
      BY <3>1
  <2>2. CASE Take \/ Fill
    BY <2>2 DEF Take, Fill
  <2> QED
    BY <2>1, <2>2
<1>3. pc' \in {"take", "fill", "call"}
  BY DEF TakeFirst, Take, Fill
<1>4. InFlightInv' /\ queue' \in Seq(Task) /\ items' \in Seq(Task)
  BY <1>1, <1>2, GetKeepsInFlight DEF ExecutorInv
<1>5. TypeOK'
  BY <1>1, <1>3, <1>4 DEF ExecutorInv, TypeOK, workerVars
<1>6. StartsEmpty' /\ OwnScores'
  BY <1>1, <1>3 DEF ExecutorInv, StartsEmpty, OwnScores, workerVars
<1> QED
  BY <1>4, <1>5, <1>6 DEF ExecutorInv

\* The end of what can be had without waiting.
LEMMA FoundEmptyStep ==
    ASSUME ExecutorInv, FoundEmpty
    PROVE  ExecutorInv'
<1>1. /\ UNCHANGED <<rows, scores, future, queue, items>>
      /\ pc' \in {"call", "fill"}
  BY DEF FoundEmpty, workerVars
<1>2. TypeOK'
  BY <1>1 DEF ExecutorInv, TypeOK
<1>3. InFlightInv'
  BY <1>1 DEF ExecutorInv, InFlightInv, Awaited, Queued, Collected, OnePerWorker
<1>4. StartsEmpty' /\ OwnScores'
  BY <1>1 DEF ExecutorInv, StartsEmpty, OwnScores
<1> QED
  BY <1>2, <1>3, <1>4 DEF ExecutorInv

\* A batch is answered: its workers have their own scores, or the exception,
\* and the rows still queued are of other workers.
LEMMA CallStep ==
    ASSUME ExecutorInv, Call
    PROVE  ExecutorInv'
<1>1. /\ queue \in Seq(Task) /\ items \in Seq(Task)
      /\ scores \in [Workers -> Seq(Task)] /\ rows \in [Workers -> RowCounts]
      /\ future \in [Workers -> {"set", "pending", "raised"}]
      /\ \A w \in Workers : Len(scores[w]) <= rows[w]
  BY DEF ExecutorInv, TypeOK
<1>2. /\ rows' = rows /\ queue' = queue /\ pc' = "first" /\ items' = <<>>
  BY DEF Call
<1>3. \A w \in Workers : w \in Failed(items) <=> Collected(w)
  BY DEF Failed, Collected
<1>4. /\ future' \in [Workers -> {"set", "pending", "raised"}]
      /\ \A w \in Workers : Collected(w) => future'[w] # "pending"
      /\ \A w \in Workers : ~Collected(w) => future'[w] = future[w]
  BY <1>1, <1>3 DEF Call
<1>5. \A w \in Workers :
         \/ scores'[w] = scores[w]
         \/ /\ Collected(w)
            /\ scores'[w] = Append(scores[w], [worker |-> w, row |-> Len(scores[w]) + 1])
            /\ Len(scores[w]) < rows[w]
  <2> SUFFICES ASSUME NEW w \in Workers, scores'[w] # scores[w]
               PROVE  /\ Collected(w)
                      /\ scores'[w] = Append(scores[w], [worker |-> w, row |-> Len(scores[w]) + 1])
                      /\ Len(scores[w]) < rows[w]
    OBVIOUS
  <2> DEFINE got == {k \in DOMAIN items : items[k].worker = w}
             k0  == CHOOSE k \in got : TRUE
  <2>1. got # {} /\ scores'[w] = Append(scores[w], items[k0])
    BY DEF Call, Answer
  <2>2. k0 \in got
    BY <2>1
  <2> HIDE DEF k0
  <2>3. k0 \in DOMAIN items /\ items[k0].worker = w /\ Awaited(items[k0])
    BY <2>2 DEF ExecutorInv, InFlightInv
  <2>4. items[k0] = [worker |-> w, row |-> Len(scores[w]) + 1]
    BY <2>3 DEF Awaited, Task
  <2>5. Collected(w) /\ future[w] = "pending"
    BY <2>3 DEF Collected, Awaited
  <2> QED
    BY <2>1, <2>4, <2>5 DEF ExecutorInv, InFlightInv
<1>6. DOMAIN scores' = Workers /\ scores' = [w \in Workers |-> scores'[w]]
  BY <1>1 DEF Call
<1>7. \A w \in Workers : /\ scores'[w] \in Seq(Task)
                         /\ Len(scores'[w]) <= rows[w]
                         /\ \A k \in DOMAIN scores'[w] :
                               scores'[w][k] = [worker |-> w, row |-> k]
  <2> SUFFICES ASSUME NEW w \in Workers
               PROVE  /\ scores'[w] \in Seq(Task)
                      /\ Len(scores'[w]) <= rows[w]
                      /\ \A k \in DOMAIN scores'[w] :
                            scores'[w][k] = [worker |-> w, row |-> k]
    OBVIOUS
  <2>1. scores[w] \in Seq(Task) /\ rows[w] \in Nat /\ Len(scores[w]) <= rows[w]
    BY <1>1, RowCountsAssumption
  <2>2. \A k \in DOMAIN scores[w] : scores[w][k] = [worker |-> w, row |-> k]
    BY DEF ExecutorInv, OwnScores
  <2>3. CASE scores'[w] = scores[w]
    BY <2>1, <2>2, <2>3
  <2>4. CASE scores'[w] # scores[w]
    <3> DEFINE task == [worker |-> w, row |-> Len(scores[w]) + 1]
    <3>1. task \in Task
      BY <2>1 DEF Task
    <3>2. scores'[w] = Append(scores[w], task) /\ Len(scores[w]) < rows[w]
      BY <2>4, <1>5
    <3>3. /\ scores'[w] \in Seq(Task) /\ Len(scores'[w]) = Len(scores[w]) + 1
          /\ DOMAIN scores[w] = 1..Len(scores[w]) /\ Len(scores[w]) \in Nat
          /\ DOMAIN scores'[w] = 1..Len(scores[w]) + 1
          /\ \A k \in DOMAIN scores[w] : scores'[w][k] = scores[w][k]
          /\ scores'[w][Len(scores[w]) + 1] = task
      BY <2>1, <3>1, <3>2, AppendEnd
    <3>4. ASSUME NEW k \in DOMAIN scores'[w]
          PROVE  scores'[w][k] = [worker |-> w, row |-> k]
      BY <3>3, <2>2
    <3> QED
      BY <2>1, <3>2, <3>3, <3>4
  <2> QED
    BY <2>3, <2>4
<1>8. TypeOK'
  <2>1. scores' \in [Workers -> Seq(Task)]
    BY <1>6, <1>7
  <2>2. items' \in Seq(Task)
    BY <1>2
  <2> QED
    BY <2>1, <2>2, <1>1, <1>2, <1>4, <1>7 DEF TypeOK
<1>9. \A w \in Workers : ~Collected(w)'
  BY <1>2 DEF Collected
<1>10. \A w \in Workers : Queued(w)' <=> Queued(w)
  BY <1>2 DEF Queued
<1>11. (\A k \in DOMAIN queue : Awaited(queue[k]))'
  <2> SUFFICES ASSUME NEW k \in DOMAIN queue
               PROVE  Awaited(queue[k])'
    BY <1>2
  <2>1. Awaited(queue[k]) /\ queue[k].worker \in Workers
    BY DEF ExecutorInv, InFlightInv, Awaited, Task
  <2>2. ~Collected(queue[k].worker)
    BY <2>1 DEF Queued, ExecutorInv, InFlightInv
  <2> QED
    BY <2>1, <2>2, <1>2, <1>4, <1>5 DEF Awaited
<1>12. (\A w \in Workers :
           future[w] = "pending" =>
              (Queued(w) \/ Collected(w)) /\ Len(scores[w]) < rows[w])'
  BY <1>2, <1>4, <1>5, <1>10 DEF ExecutorInv, InFlightInv
<1>13. InFlightInv'
  BY <1>2, <1>9, <1>11, <1>12 DEF ExecutorInv, InFlightInv, OnePerWorker
<1>14. StartsEmpty' /\ OwnScores'
  BY <1>2, <1>7 DEF StartsEmpty, OwnScores
<1> QED
  BY <1>8, <1>13, <1>14 DEF ExecutorInv

-------------------------------------------------------------------------------
(* The invariant and what it implies.                                      *)

\* Nothing is in flight to begin with.
LEMMA ExecutorInit == Init => ExecutorInv
<1> SUFFICES ASSUME Init
             PROVE  ExecutorInv
  OBVIOUS
<1>1. TypeOK
  <2>1. \A w \in Workers : scores[w] = <<>> /\ rows[w] \in Nat
    BY RowCountsAssumption DEF Init
  <2> QED
    BY <2>1 DEF Init, TypeOK
<1>2. InFlightInv
  BY DEF Init, InFlightInv, OnePerWorker, Queued, Collected
<1>3. StartsEmpty /\ OwnScores
  BY DEF Init, StartsEmpty, OwnScores
<1> QED
  BY <1>1, <1>2, <1>3 DEF ExecutorInv

\* Every step keeps the invariant.
LEMMA ExecutorStep == ExecutorInv /\ [Next]_vars => ExecutorInv'
<1> SUFFICES ASSUME ExecutorInv, [Next]_vars
             PROVE  ExecutorInv'
  OBVIOUS
<1>1. ASSUME NEW w \in Workers, Submit(w)
      PROVE  ExecutorInv'
  BY <1>1, SubmitStep
<1>2. CASE TakeFirst \/ Take \/ Fill
  BY <1>2, GetStep
<1>3. CASE FoundEmpty
  BY <1>3, FoundEmptyStep
<1>4. CASE Call
  BY <1>4, CallStep
<1>5. CASE UNCHANGED vars
  <2>1. UNCHANGED <<rows, scores, future, queue, pc, items>>
    BY <1>5 DEF vars, workerVars
  <2> QED
    BY <2>1 DEF ExecutorInv, TypeOK, InFlightInv, StartsEmpty, OwnScores,
                Awaited, Queued, Collected, OnePerWorker
<1> QED
  BY <1>1, <1>2, <1>3, <1>4, <1>5 DEF Next, Executor

\* The inductive invariant: in every reachable state the tasks in flight and
\* the workers that wait correspond one to one, and scores are in place.
THEOREM ExecutorCorrect == Spec => []ExecutorInv
<1>1. Init => ExecutorInv
  BY ExecutorInit
<1>2. ExecutorInv /\ [Next]_vars => ExecutorInv'
  BY ExecutorStep
<1> QED
  BY <1>1, <1>2, PTL DEF Spec

\* Every variable keeps its type, and no worker gets more scores than rows.
THEOREM TypeCorrect == Spec => []TypeOK
<1>1. ExecutorInv => TypeOK
  BY DEF ExecutorInv
<1> QED
  BY <1>1, ExecutorCorrect, PTL

-------------------------------------------------------------------------------
(* Every future is in flight.                                              *)

\* The tasks in flight are those of the queue and, after them, those collected.
LEMMA InFlightElements ==
    ASSUME TypeOK
    PROVE  /\ InFlight \in Seq(Task)
           /\ Len(InFlight) = Len(queue) + Len(items)
           /\ DOMAIN queue = 1..Len(queue) /\ Len(queue) \in Nat
           /\ DOMAIN items = 1..Len(items) /\ Len(items) \in Nat
           /\ DOMAIN InFlight = 1..Len(queue) + Len(items)
           /\ \A k \in DOMAIN queue : InFlight[k] = queue[k]
           /\ \A k \in DOMAIN InFlight :
                 k \notin DOMAIN queue =>
                     k - Len(queue) \in DOMAIN items /\ InFlight[k] = items[k - Len(queue)]
           /\ \A k \in DOMAIN items :
                 Len(queue) + k \in DOMAIN InFlight /\ InFlight[Len(queue) + k] = items[k]
<1>1. queue \in Seq(Task) /\ items \in Seq(Task)
  BY DEF TypeOK
<1> QED
  BY <1>1 DEF InFlight

\* In flight there is one task for each waiting worker, its next row, and none
\* for any other.
LEMMA InFlightWorkers ==
    ASSUME ExecutorInv
    PROVE  /\ \A k \in DOMAIN InFlight : Awaited(InFlight[k])
           /\ \A j, k \in DOMAIN InFlight :
                 InFlight[j].worker = InFlight[k].worker => j = k
           /\ \A w \in Workers :
                 future[w] = "pending" => \E k \in DOMAIN InFlight : InFlight[k].worker = w
<1>1. TypeOK /\ InFlightInv
  BY DEF ExecutorInv
<1>2. \A k \in DOMAIN InFlight : Awaited(InFlight[k])
  BY <1>1, InFlightElements DEF InFlightInv
<1>3. ASSUME NEW j \in DOMAIN InFlight, NEW k \in DOMAIN InFlight,
             InFlight[j].worker = InFlight[k].worker
      PROVE  j = k
  <2>1. InFlight[j].worker \in Workers
    BY <1>2 DEF Awaited, Task
  <2>2. CASE j \in DOMAIN queue /\ k \in DOMAIN queue
    BY <2>2, <1>1, <1>3, InFlightElements DEF InFlightInv, OnePerWorker
  <2>3. CASE j \notin DOMAIN queue /\ k \notin DOMAIN queue
    <3>1. j - Len(queue) = k - Len(queue)
      BY <2>3, <1>1, <1>3, InFlightElements DEF InFlightInv, OnePerWorker
    <3> QED
      BY <3>1, <1>1, InFlightElements
  <2>4. ~(j \in DOMAIN queue /\ k \notin DOMAIN queue)
    <3> SUFFICES ASSUME j \in DOMAIN queue, k \notin DOMAIN queue
                 PROVE  FALSE
      OBVIOUS
    <3>1. Queued(InFlight[j].worker)
      BY <1>1, InFlightElements DEF Queued
    <3>2. k - Len(queue) \in DOMAIN items /\ items[k - Len(queue)] = InFlight[k]
      BY <1>1, InFlightElements
    <3>3. Collected(InFlight[k].worker)
      BY <3>2 DEF Collected
    <3> QED
      BY <2>1, <3>1, <3>3, <1>1, <1>3 DEF InFlightInv
  <2>5. ~(j \notin DOMAIN queue /\ k \in DOMAIN queue)
    <3> SUFFICES ASSUME k \in DOMAIN queue, j \notin DOMAIN queue
                 PROVE  FALSE
      OBVIOUS
    <3>1. Queued(InFlight[k].worker)
      BY <1>1, InFlightElements DEF Queued
    <3>2. j - Len(queue) \in DOMAIN items /\ items[j - Len(queue)] = InFlight[j]
      BY <1>1, InFlightElements
    <3>3. Collected(InFlight[j].worker)
      BY <3>2 DEF Collected
    <3> QED
      BY <2>1, <3>1, <3>3, <1>1, <1>3 DEF InFlightInv
  <2> QED
    BY <2>2, <2>3, <2>4, <2>5
<1>4. ASSUME NEW w \in Workers, future[w] = "pending"
      PROVE  \E k \in DOMAIN InFlight : InFlight[k].worker = w
  <2>1. CASE Queued(w)
    BY <2>1, <1>1, InFlightElements DEF Queued
  <2>2. CASE Collected(w)
    BY <2>2, <1>1, InFlightElements DEF Collected
  <2> QED
    BY <2>1, <2>2, <1>1, <1>4 DEF InFlightInv
<1> QED
  BY <1>2, <1>3, <1>4

\* No future is dropped and none is set twice: the tasks in flight are the next
\* rows of the workers that wait, one each.
THEOREM EveryFutureInFlightHolds == Spec => []EveryFutureInFlight
<1>1. ExecutorInv => EveryFutureInFlight
  <2> SUFFICES ASSUME ExecutorInv
               PROVE  EveryFutureInFlight
    OBVIOUS
  <2> DEFINE n       == Len(InFlight)
             pending == {w \in Workers : future[w] = "pending"}
             F       == [k \in 1..n |-> InFlight[k].worker]
  <2>1. InFlight \in Seq(Task) /\ n \in Nat /\ DOMAIN InFlight = 1..n
    BY InFlightElements DEF ExecutorInv
  <2>2. F \in Bijection(1..n, pending)
    <3>1. \A k \in 1..n : InFlight[k].worker \in pending
      BY <2>1, InFlightWorkers DEF Awaited, Task
    <3>2. F \in [1..n -> pending]
      BY <3>1
    <3>3. \A j, k \in 1..n : F[j] = F[k] => j = k
      BY <2>1, InFlightWorkers
    <3>4. \A w \in pending : \E k \in 1..n : F[k] = w
      BY <2>1, InFlightWorkers
    <3> QED
      BY <3>2, <3>3, <3>4, Fun_IsBij
  <2>3. n = Cardinality(pending)
    <3>1. ExistsBijection(1..n, pending)
      BY <2>2 DEF ExistsBijection
    <3> QED
      BY <3>1, <2>1, FS_CountingElements
  <2>4. ASSUME NEW w \in Workers
        PROVE  {InFlight[k].row : k \in {j \in DOMAIN InFlight : InFlight[j].worker = w}}
                  = IF future[w] = "pending" THEN {Len(scores[w]) + 1} ELSE {}
    <3>1. CASE future[w] = "pending"
      <4>1. PICK k \in DOMAIN InFlight : InFlight[k].worker = w
        BY <3>1, InFlightWorkers
      <4>2. {j \in DOMAIN InFlight : InFlight[j].worker = w} = {k}
        BY <4>1, InFlightWorkers
      <4>3. InFlight[k].row = Len(scores[w]) + 1
        BY <4>1, InFlightWorkers DEF Awaited
      <4> QED
        BY <3>1, <4>2, <4>3
    <3>2. CASE future[w] # "pending"
      <4>1. {j \in DOMAIN InFlight : InFlight[j].worker = w} = {}
        BY <3>2, InFlightWorkers DEF Awaited
      <4> QED
        BY <3>2, <4>1
    <3> QED
      BY <3>1, <3>2
  <2> QED
    BY <2>3, <2>4 DEF EveryFutureInFlight
<1> QED
  BY <1>1, ExecutorCorrect, PTL

\* A worker's scores are those of its own rows, in their order.
THEOREM OwnScoresHolds == Spec => []OwnScores
<1>1. ExecutorInv => OwnScores
  BY DEF ExecutorInv
<1> QED
  BY <1>1, ExecutorCorrect, PTL
===============================================================================
