------------------------------- MODULE ZrtProofs -------------------------------
(***************************************************************************)
(* Proofs about ZRT, for any number of tasks, any priorities and any naps: *)
(* what holds wherever the tick comes, and what holds until it comes where *)
(* a list is being changed.                                                *)
(***************************************************************************)
EXTENDS ZrtLists

(***************************************************************************)
(* Mutual exclusion, whatever the run list and the wait queue have become. *)
(***************************************************************************)

\* While a task is between lock and unlock the counter is not positive.
Guarded == \A t \in Tasks : pc[t] = "critical" => val <= 0

Alone == \A t, u \in Tasks : pc[t] = "critical" /\ pc[u] = "critical" => t = u

\* The inductive invariant.
Exclusion ==
  /\ val \in Int /\ val <= 1
  /\ DOMAIN pc = Tasks
  /\ Guarded
  /\ Alone

\* It holds when zrt_main starts.
LEMMA InitExclusion == Init => Exclusion
  BY DEF Init, Exclusion, Guarded, Alone

\* A step that leaves the counter alone and moves one task anywhere but into the
\* critical section keeps it.
LEMMA MoveKeeps ==
  ASSUME Exclusion, NEW t \in Tasks, NEW there, there # "critical",
         Go(t, there), val' = val
  PROVE  Exclusion'
  BY DEF Exclusion, Guarded, Alone, Go

\* zrt_mutex_lock enters the critical section only if it found the counter at 1,
\* when nobody can be there, and leaves it at 0.
LEMMA LockKeeps == ASSUME Exclusion, NEW t \in Tasks, Lock(t) PROVE Exclusion'
<1>1. val' = val - 1 /\ val' \in Int /\ val' <= 1
  BY DEF Exclusion, Lock
<1>2. CASE val' < 0
  <2>1. Go(t, "join")
    BY <1>2 DEF Lock, Tested
  <2> QED
    BY <1>1, <1>2, <2>1 DEF Exclusion, Guarded, Alone, Go
<1>3. CASE ~(val' < 0)
  <2>1. Go(t, "critical") /\ val = 1
    BY <1>1, <1>3 DEF Lock, Tested, Exclusion
  <2>2. \A u \in Tasks : pc[u] # "critical"
    BY <2>1 DEF Exclusion, Guarded
  <2> QED
    BY <1>1, <2>1, <2>2 DEF Exclusion, Guarded, Alone, Go
<1> QED
  BY <1>2, <1>3

\* Only the task that leaves the critical section sets the counter back to 1.
LEMMA UnlockKeeps == ASSUME Exclusion, NEW t \in Tasks, Unlock(t) PROVE Exclusion'
<1>1. val' = 1 /\ pc[t] = "critical" /\ Go(t, "take")
  BY DEF Unlock, At
<1>2. \A u \in Tasks : u # t => pc[u] # "critical"
  BY <1>1 DEF Exclusion, Alone
<1> QED
  BY <1>1, <1>2 DEF Exclusion, Guarded, Alone, Go

\* Every step of a task keeps the invariant.
LEMMA StepKeeps == ASSUME Exclusion, NEW t \in Tasks, Step(t) PROVE Exclusion'
<1>1. CASE Lock(t)
  BY <1>1, LockKeeps
<1>2. CASE Join(t)
  BY <1>2, MoveKeeps DEF Join
<1>3. CASE Enqueue(t)
  BY <1>3, MoveKeeps DEF Enqueue
<1>4. CASE Sleep(t)
  BY <1>4, MoveKeeps DEF Sleep, mutex
<1>5. CASE AddTimer(t)
  BY <1>5, MoveKeeps DEF AddTimer, mutex
<1>6. CASE Suspend(t)
  <2>1. CASE stmt[t] = 5
    BY <1>6, <2>1, MoveKeeps DEF Suspend, mutex
  <2>2. CASE stmt[t] # 5
    BY <1>6, <2>2, MoveKeeps DEF Suspend, mutex
  <2> QED
    BY <2>1, <2>2
<1>7. CASE Schedule(t)
  BY <1>7, MoveKeeps DEF Schedule, mutex
<1>8. CASE Switch(t)
  BY <1>8, MoveKeeps DEF Switch, mutex
<1>15. CASE Arrive(t)
  <2>1. val' = val /\ (Go(t, "retry") \/ Go(t, "run"))
    BY <1>15 DEF Arrive, mutex
  <2> QED
    BY <2>1, MoveKeeps
<1>16. CASE \E new \in Tasks : Create(t, new)
  <2>1. PICK new \in Tasks : Go(new, "run") /\ val' = val
    BY <1>16 DEF Create, mutex
  <2> QED
    BY <2>1, MoveKeeps
<1>9. CASE Unlock(t)
  BY <1>9, UnlockKeeps
<1>10. CASE TakeQueue(t)
  BY <1>10, MoveKeeps DEF TakeQueue, mutex
<1>11. CASE EmptyQueue(t)
  BY <1>11, MoveKeeps DEF EmptyQueue
<1>12. CASE Wake(t)
  <2>1. val' = val
    BY <1>12 DEF Wake, mutex
  <2>2. Go(t, "schedule") \/ Go(t, "run") \/ Go(t, "insert")
    BY <1>12 DEF Wake
  <2> QED
    BY <2>1, <2>2, MoveKeeps
<1>13. CASE Insert(t)
  <2>1. CASE stmt[t] = 4
    BY <1>13, <2>1, MoveKeeps DEF Insert, mutex
  <2>2. CASE stmt[t] # 4
    BY <1>13, <2>2, MoveKeeps DEF Insert, mutex
  <2> QED
    BY <2>1, <2>2
<1>14. CASE NextEntry(t)
  BY <1>14, MoveKeeps DEF NextEntry, mutex
<1> QED
  BY <1>1, <1>2, <1>3, <1>4, <1>5, <1>6, <1>7, <1>8, <1>9, <1>10, <1>11, <1>12,
     <1>13, <1>14, <1>15, <1>16 DEF Step

\* The tick moves no task and does not touch the counter.
LEMMA NextExclusion == Exclusion /\ [Next]_vars => Exclusion'
<1> SUFFICES ASSUME Exclusion, [Next]_vars PROVE Exclusion'
  OBVIOUS
<1>1. CASE UNCHANGED vars
  BY <1>1 DEF Exclusion, Guarded, Alone, vars, mutex, threads
<1>2. CASE Tick
  BY <1>2 DEF Exclusion, Guarded, Alone, Tick, mutex, threads
<1>3. CASE \E t \in Tasks : Step(t)
  BY <1>3, StepKeeps
<1> QED
  BY <1>1, <1>2, <1>3 DEF Next

\* At most one task is between zrt_mutex_lock and zrt_mutex_unlock, for any
\* number of tasks created at any time, any priorities and any ticks, until the tick
\* comes in the middle of ___switch_to, or a walk or an entry is lost.
THEOREM MutexHolds == Spec => []MutualExclusion
<1>1. Exclusion => MutualExclusion
  BY DEF Exclusion, Alone, MutualExclusion
<1> QED
  BY <1>1, InitExclusion, NextExclusion, PTL DEF Spec

(***************************************************************************)
(* Types, wherever the tick comes: a broken list leads to wrong tasks, or  *)
(* round and round, but never out of the tasks.                            *)
(***************************************************************************)
Entries == Tasks \union {NULL}

ListTyped == list \in Lists /\ current \in Nodes
QueueTyped == queue \in Entries /\ qnext \in [Tasks -> Entries]
TimerTyped == timers \in Seq(Tasks) /\ left \in [Tasks -> Nat]
TaskTyped ==
  /\ pc \in [Tasks -> Places] /\ op \in [Tasks -> {"none", "lock", "unlock", "sleep"}]
  /\ stmt \in [Tasks -> 1..5] /\ entry \in [Tasks -> Entries] /\ place \in [Tasks -> Ends]

\* What a task is about to use is there, unless the scheduler hangs.
Ready(t) ==
  /\ pc[t] = "switch" /\ ~hung => place[t] \in Nodes
  /\ pc[t] = "insert" /\ ~hung => entry[t] \in Tasks /\ place[t] \in Nodes
  /\ pc[t] = "insert" => stmt[t] \in 1..4
  /\ pc[t] = "next" => entry[t] \in Tasks
  /\ pc[t] \notin {"suspend", "insert"} => stmt[t] = 1

Sane ==
  /\ ListTyped /\ QueueTyped /\ TimerTyped /\ TaskTyped /\ hung \in BOOLEAN
  /\ \A t \in Tasks : Ready(t)

Needs == need \in [Tasks -> BOOLEAN]

LEMMA SaneTyped == Sane /\ Exclusion /\ Needs => TypeOK
BY DEF Sane, Exclusion, Needs, TypeOK, ListTyped, QueueTyped, TimerTyped, TaskTyped, Lists, Ends,
       Entries

\* Where the current task goes next, and its locals, while the other tasks stand.
LEMMA ReadyFrame ==
  ASSUME Sane, NEW t \in Tasks, ~hung,
         \A u \in Tasks \ {t} : /\ pc'[u] = pc[u] /\ stmt'[u] = stmt[u]
                                /\ entry'[u] = entry[u] /\ place'[u] = place[u],
         Ready(t)'
  PROVE  \A u \in Tasks : Ready(u)'
<1>1. ASSUME NEW u \in Tasks \ {t} PROVE Ready(u)'
  <2>1. Ready(u)
    BY DEF Sane
  <2> QED
    BY <2>1 DEF Ready
<1> QED
  BY <1>1

LEMMA MutexSane ==
  ASSUME Sane, NEW t \in Tasks,
         Lock(t) \/ Join(t) \/ Enqueue(t) \/ Unlock(t) \/ TakeQueue(t) \/ EmptyQueue(t)
  PROVE  Sane'
<1> USE DEF Lock, Join, Enqueue, Unlock, TakeQueue, EmptyQueue, At, Go
<1>1. ~hung /\ UNCHANGED <<list, current, timers, left, stmt, place, hung>>
  BY DEF sleep
<1>2. ListTyped' /\ TimerTyped' /\ hung' \in BOOLEAN
  BY <1>1 DEF Sane, ListTyped, TimerTyped
<1>3. QueueTyped'
  BY DEF Sane, QueueTyped, Entries, mutex
<1>4. TaskTyped'
  <2>1. pc' \in [Tasks -> Places]
    BY DEF Sane, TaskTyped, Places
  <2>2. op' \in [Tasks -> {"none", "lock", "unlock", "sleep"}]
    BY DEF Sane, TaskTyped
  <2>3. entry' \in [Tasks -> Entries]
    BY DEF Sane, TaskTyped, QueueTyped
  <2> QED
    BY <1>1, <2>1, <2>2, <2>3 DEF Sane, TaskTyped
<1>5. \A u \in Tasks \ {t} : /\ pc'[u] = pc[u] /\ stmt'[u] = stmt[u]
                             /\ entry'[u] = entry[u] /\ place'[u] = place[u]
  BY <1>1 DEF Sane, TaskTyped
<1>6. Ready(t)'
  <2>1. stmt[t] = 1
    BY DEF Sane, Ready
  <2>2. pc'[t] \in {"join", "critical", "enqueue", "suspend", "take", "empty", "wake"}
    BY DEF Sane, TaskTyped
  <2> QED
    BY <1>1, <2>1, <2>2 DEF Ready
<1> HIDE DEF Lock, Join, Enqueue, Unlock, TakeQueue, EmptyQueue, At, Go
<1>7. \A u \in Tasks : Ready(u)'
  BY <1>1, <1>5, <1>6, ReadyFrame
<1> QED
  BY <1>2, <1>3, <1>4, <1>7 DEF Sane

\* What zrt_timerAdd makes of the list of timers.
LEMMA TimersAre ==
  ASSUME TimerTyped, NEW t \in Tasks
  PROVE  /\ TimersWith(t) \in Seq(Tasks)
         /\ entry[t] = NULL => TimersWith(t) = <<t>>
         /\ entry[t] \in Range(timers) /\ entry[t] # NULL =>
              \E i \in 1..Len(timers) : Inserted(TimersWith(t), timers, i, t)
<1>1. CASE entry[t] = NULL
  BY <1>1 DEF TimersWith
<1>2. CASE entry[t] # NULL /\ entry[t] \notin Range(timers)
  BY <1>2 DEF TimersWith, TimerTyped
<1>3. CASE entry[t] # NULL /\ entry[t] \in Range(timers)
  <2> DEFINE i == CHOOSE j \in DOMAIN timers : timers[j] = entry[t]
  <2>1. \E j \in DOMAIN timers : timers[j] = entry[t]
    BY <1>3 DEF Range
  <2>2. i \in 1..Len(timers)
    BY <2>1 DEF TimerTyped
  <2>3. TimersWith(t) = InsertAt(timers, i + 1, t)
    BY <1>3 DEF TimersWith
  <2> HIDE DEF i
  <2>4. timers \in Seq(Tasks) /\ i \in 0..Len(timers)
    BY <2>2 DEF TimerTyped
  <2> QED
    BY <1>3, <2>2, <2>3, <2>4, InsertAtIs
<1> QED
  BY <1>1, <1>2, <1>3

LEMMA SleepSane ==
  ASSUME Sane, NEW t \in Tasks, Sleep(t) \/ AddTimer(t)
  PROVE  Sane'
<1>1. ~hung /\ UNCHANGED <<list, current, queue, qnext, stmt, place, hung>>
  BY DEF Sleep, AddTimer, At, mutex
<1>2. ListTyped' /\ QueueTyped' /\ hung' \in BOOLEAN
  BY <1>1 DEF Sane, ListTyped, QueueTyped
<1>3. TimerTyped'
  <2>1. CASE Sleep(t)
    <3>1. PICK ticks \in Naps : left' = [left EXCEPT ![t] = ticks]
      BY <2>1 DEF Sleep
    <3>2. ticks \in Nat /\ timers' = timers
      BY <2>1, Bounds DEF Sleep
    <3> QED
      BY <3>1, <3>2 DEF Sane, TimerTyped
  <2>2. CASE AddTimer(t)
    <3>1. timers' = TimersWith(t) /\ left' = left
      BY <2>2 DEF AddTimer
    <3> QED
      BY <3>1, TimersAre DEF Sane, TimerTyped
  <2> QED
    BY <2>1, <2>2
<1>4. entry' \in [Tasks -> Entries]
  <2>1. CASE Sleep(t)
    <3>1. PICK ticks \in Naps :
            LET ends == {i \in DOMAIN timers : left[timers[i]] <= ticks \/ i = Len(timers)}
            IN  entry' = [entry EXCEPT ![t] = IF timers = <<>> THEN NULL
                                              ELSE timers[Least(ends)]]
      BY <2>1 DEF Sleep
    <3> DEFINE ends == {i \in DOMAIN timers : left[timers[i]] <= ticks \/ i = Len(timers)}
    <3>2. ASSUME timers # <<>> PROVE timers[Least(ends)] \in Tasks
      <4>1. timers \in Seq(Tasks) /\ Len(timers) \in 1..Len(timers)
        BY <3>2 DEF Sane, TimerTyped
      <4>2. Len(timers) \in ends /\ ends \subseteq 1..Len(timers)
        BY <4>1
      <4>3. Least(ends) \in ends
        <5> HIDE DEF ends
        <5> QED
          BY <4>2, LeastIn
      <4> QED
        BY <4>1, <4>2, <4>3
    <3> HIDE DEF ends
    <3>3. entry' = [entry EXCEPT ![t] = IF timers = <<>> THEN NULL ELSE timers[Least(ends)]]
      BY <3>1 DEF ends
    <3> QED
      BY <3>2, <3>3 DEF Sane, TaskTyped, Entries
  <2>2. CASE AddTimer(t)
    BY <2>2 DEF AddTimer, Forget, Sane, TaskTyped, Entries
  <2> QED
    BY <2>1, <2>2
<1>5. /\ pc' \in [Tasks -> Places] /\ op' \in [Tasks -> {"none", "lock", "unlock", "sleep"}]
      /\ pc'[t] \in {"timer", "suspend"}
      /\ \A u \in Tasks \ {t} : pc'[u] = pc[u] /\ entry'[u] = entry[u]
  BY DEF Sleep, AddTimer, Go, Forget, Sane, TaskTyped, Places
<1>6. TaskTyped'
  BY <1>1, <1>4, <1>5 DEF Sane, TaskTyped
<1>7. stmt[t] = 1
  BY DEF Sleep, AddTimer, At, Sane, Ready
<1>8. Ready(t)'
  BY <1>1, <1>5, <1>7 DEF Ready
<1>9. \A u \in Tasks : Ready(u)'
  BY <1>1, <1>5, <1>8, ReadyFrame
<1> QED
  BY <1>2, <1>3, <1>6, <1>9 DEF Sane

LEMMA SuspendSane ==
  ASSUME Sane, NEW t \in Tasks, Suspend(t)
  PROVE  Sane'
<1>1. ~hung /\ UNCHANGED <<current, queue, qnext, timers, left, op, entry, place, hung>>
  BY DEF Suspend, At, mutex, sleep
<1>2. stmt[t] \in 1..5 /\ t \in Nodes
  BY Bounds DEF Sane, TaskTyped
<1>3. list' \in Lists
  BY <1>2, SuspendType DEF Suspend, Sane, ListTyped
<1>4. /\ pc' \in [Tasks -> Places] /\ stmt' \in [Tasks -> 1..5]
      /\ pc'[t] \in {"schedule", "suspend"} /\ (pc'[t] = "schedule" => stmt'[t] = 1)
      /\ \A u \in Tasks \ {t} : pc'[u] = pc[u] /\ stmt'[u] = stmt[u]
  <2>1. CASE stmt[t] = 5
    BY <2>1 DEF Suspend, Go, Sane, TaskTyped, Places
  <2>2. CASE stmt[t] # 5
    <3>1. stmt[t] + 1 \in 1..5
      BY <1>2, <2>2
    <3> QED
      BY <2>2, <3>1 DEF Suspend, Go, Sane, TaskTyped, Places
  <2> QED
    BY <2>1, <2>2
<1>5. ListTyped' /\ QueueTyped' /\ TimerTyped' /\ TaskTyped' /\ hung' \in BOOLEAN
  BY <1>1, <1>3, <1>4 DEF Sane, ListTyped, QueueTyped, TimerTyped, TaskTyped
<1>6. Ready(t)'
  BY <1>4 DEF Ready
<1>7. \A u \in Tasks : Ready(u)'
  BY <1>1, <1>4, <1>6, ReadyFrame
<1> QED
  BY <1>5, <1>7 DEF Sane

LEMMA ScheduleSane ==
  ASSUME Sane, NEW t \in Tasks, Schedule(t)
  PROVE  Sane'
<1>1. ~hung /\ UNCHANGED <<current, queue, qnext, timers, left, op, entry, stmt>>
  BY DEF Schedule, At, mutex, sleep
<1> DEFINE p == PickTask(list, t)
<1>2. Picked(p)
  BY Bounds, PickType DEF Sane, ListTyped
<1>3. list' = p.list /\ place' = [place EXCEPT ![t] = p.task] /\ hung' = ~p.ok
  BY DEF Schedule
<1> HIDE DEF p
<1>4. /\ pc' \in [Tasks -> Places] /\ pc'[t] = "switch" /\ stmt[t] = 1
      /\ \A u \in Tasks \ {t} : pc'[u] = pc[u]
  BY DEF Schedule, At, Go, Sane, TaskTyped, Places, Ready
<1>5. /\ place' \in [Tasks -> Ends] /\ place'[t] = p.task
      /\ \A u \in Tasks \ {t} : place'[u] = place[u]
  BY <1>2, <1>3 DEF Picked, Sane, TaskTyped
<1>6. hung' \in BOOLEAN /\ (~hung' => place'[t] \in Nodes)
  BY <1>2, <1>3, <1>5 DEF Picked
<1>7. ListTyped' /\ QueueTyped' /\ TimerTyped' /\ TaskTyped'
  BY <1>1, <1>2, <1>3, <1>4, <1>5 DEF Sane, ListTyped, QueueTyped, TimerTyped, TaskTyped, Picked
<1>8. Ready(t)'
  BY <1>1, <1>4, <1>6 DEF Ready
<1>9. \A u \in Tasks : Ready(u)'
  BY <1>1, <1>4, <1>5, <1>8, ReadyFrame
<1> QED
  BY <1>6, <1>7, <1>9 DEF Sane

LEMMA SwitchSane ==
  ASSUME Sane, NEW t \in Tasks, Switch(t)
  PROVE  Sane'
<1>1. ~hung /\ UNCHANGED <<list, queue, qnext, timers, left, op, entry, stmt, hung>>
  BY DEF Switch, At, mutex, sleep
<1>2. current' \in Nodes
  BY DEF Switch, At, Sane, Ready
<1>3. /\ pc' \in [Tasks -> Places] /\ pc'[t] = "left" /\ stmt[t] = 1
      /\ \A u \in Tasks \ {t} : pc'[u] = pc[u]
  BY DEF Switch, At, Go, Sane, TaskTyped, Places, Ready
<1>4. /\ place' \in [Tasks -> Ends]
      /\ \A u \in Tasks \ {t} : place'[u] = place[u]
  BY DEF Switch, Sane, TaskTyped, Ends
<1>5. ListTyped' /\ QueueTyped' /\ TimerTyped' /\ TaskTyped' /\ hung' \in BOOLEAN
  BY <1>1, <1>2, <1>3, <1>4 DEF Sane, ListTyped, QueueTyped, TimerTyped, TaskTyped
<1>6. Ready(t)'
  BY <1>1, <1>3 DEF Ready
<1>7. \A u \in Tasks : Ready(u)'
  BY <1>1, <1>3, <1>4, <1>6, ReadyFrame
<1> QED
  BY <1>5, <1>7 DEF Sane

LEMMA ArriveSane ==
  ASSUME Sane, NEW t \in Tasks, Arrive(t)
  PROVE  Sane'
<1>1. ~hung /\ UNCHANGED <<list, current, queue, qnext, timers, left, op, entry, stmt, place, hung>>
  BY DEF Arrive, mutex, sleep
<1>2. /\ pc' \in [Tasks -> Places] /\ pc'[t] \in {"retry", "run"} /\ stmt[t] = 1
      /\ \A u \in Tasks \ {t} : pc'[u] = pc[u]
  BY DEF Arrive, Go, Sane, TaskTyped, Places, Ready
<1>3. ListTyped' /\ QueueTyped' /\ TimerTyped' /\ TaskTyped' /\ hung' \in BOOLEAN
  BY <1>1, <1>2 DEF Sane, ListTyped, QueueTyped, TimerTyped, TaskTyped
<1>4. Ready(t)'
  BY <1>1, <1>2 DEF Ready
<1>5. \A u \in Tasks : Ready(u)'
  BY <1>1, <1>2, <1>4, ReadyFrame
<1> QED
  BY <1>3, <1>5 DEF Sane

LEMMA CreateSane ==
  ASSUME Sane, NEW t \in Tasks, NEW new \in Tasks, Create(t, new)
  PROVE  Sane'
<1> DEFINE s == PlaceFor(list, new)
<1>1. /\ ~hung /\ UNCHANGED <<current, queue, qnext, timers, left, op, entry, stmt, place>>
      /\ pc[new] = "absent" /\ pc' = [pc EXCEPT ![new] = "run"]
  BY DEF Create, At, Go, mutex, sleep
<1>2. hung' = (s = NULL) /\ list' = IF s = NULL THEN list ELSE InsertBefore(list, new, s)
  BY DEF Create
<1>3. s \in Ends /\ list \in Lists /\ new \in Nodes
  BY PlaceType, Bounds DEF Sane, ListTyped
<1> HIDE DEF s
<1>4. list' \in Lists
  BY <1>2, <1>3, InsertType DEF Ends
<1>5. /\ pc' \in [Tasks -> Places] /\ pc'[new] = "run" /\ stmt[new] = 1
      /\ \A u \in Tasks \ {new} : pc'[u] = pc[u]
  BY <1>1 DEF Sane, TaskTyped, Places, Ready
<1>6. ListTyped' /\ QueueTyped' /\ TimerTyped' /\ TaskTyped' /\ hung' \in BOOLEAN
  BY <1>1, <1>2, <1>4, <1>5 DEF Sane, ListTyped, QueueTyped, TimerTyped, TaskTyped
<1>7. Ready(new)'
  BY <1>1, <1>5 DEF Ready
<1>8. \A u \in Tasks : Ready(u)'
  BY <1>1, <1>5, <1>7, ReadyFrame
<1> QED
  BY <1>6, <1>8 DEF Sane

LEMMA WakeSane ==
  ASSUME Sane, NEW t \in Tasks, Wake(t)
  PROVE  Sane'
<1>1. ~hung /\ UNCHANGED <<list, current, queue, qnext, timers, left, op, entry, stmt>>
  BY DEF Wake, At, mutex, sleep
<1>2. stmt[t] = 1 /\ entry[t] \in Entries
  BY DEF Wake, At, Sane, Ready, TaskTyped
<1>3. CASE entry[t] = NULL
  <2>1. /\ pc' \in [Tasks -> Places] /\ pc'[t] \in {"schedule", "run"}
        /\ \A u \in Tasks \ {t} : pc'[u] = pc[u]
        /\ UNCHANGED <<place, hung>>
    BY <1>3 DEF Wake, Go, Sane, TaskTyped, Places
  <2>2. ListTyped' /\ QueueTyped' /\ TimerTyped' /\ TaskTyped' /\ hung' \in BOOLEAN
    BY <1>1, <2>1 DEF Sane, ListTyped, QueueTyped, TimerTyped, TaskTyped
  <2>3. Ready(t)'
    BY <1>1, <1>2, <2>1 DEF Ready
  <2>4. \A u \in Tasks : Ready(u)'
    BY <1>1, <2>1, <2>3, ReadyFrame
  <2> QED
    BY <2>2, <2>4 DEF Sane
<1>4. CASE entry[t] # NULL
  <2>1. PlaceFor(list, entry[t]) \in Ends
    BY <1>2, <1>4, PlaceType DEF Entries, Sane, ListTyped
  <2>2. /\ pc' \in [Tasks -> Places] /\ pc'[t] = "insert"
        /\ \A u \in Tasks \ {t} : pc'[u] = pc[u]
    BY <1>4 DEF Wake, Go, Sane, TaskTyped, Places
  <2>3. /\ place' \in [Tasks -> Ends] /\ hung' = (place'[t] = NULL)
        /\ \A u \in Tasks \ {t} : place'[u] = place[u]
    BY <1>4, <2>1 DEF Wake, Sane, TaskTyped
  <2>4. hung' \in BOOLEAN /\ (~hung' => place'[t] \in Nodes)
    BY <2>3 DEF Ends
  <2>5. ListTyped' /\ QueueTyped' /\ TimerTyped' /\ TaskTyped'
    BY <1>1, <2>2, <2>3 DEF Sane, ListTyped, QueueTyped, TimerTyped, TaskTyped
  <2>6. Ready(t)'
    BY <1>1, <1>2, <1>4, <2>2, <2>4 DEF Ready, Entries
  <2>7. \A u \in Tasks : Ready(u)'
    BY <1>1, <2>2, <2>3, <2>6, ReadyFrame
  <2> QED
    BY <2>4, <2>5, <2>7 DEF Sane
<1> QED
  BY <1>3, <1>4

LEMMA InsertSane ==
  ASSUME Sane, NEW t \in Tasks, Insert(t)
  PROVE  Sane'
<1>1. ~hung /\ UNCHANGED <<current, queue, qnext, timers, left, op, entry, place, hung>>
  BY DEF Insert, At, mutex, sleep
<1>2. stmt[t] \in 1..4 /\ entry[t] \in Tasks /\ place[t] \in Nodes
  BY DEF Insert, At, Sane, Ready
<1>3. list' \in Lists
  BY <1>2, Bounds, StatementType DEF Insert, Sane, ListTyped
<1>4. /\ pc' \in [Tasks -> Places] /\ stmt' \in [Tasks -> 1..5]
      /\ pc'[t] \in {"next", "insert"} /\ (pc'[t] = "next" => stmt'[t] = 1)
      /\ (pc'[t] = "insert" => stmt'[t] \in 1..4)
      /\ \A u \in Tasks \ {t} : pc'[u] = pc[u] /\ stmt'[u] = stmt[u]
  <2>1. CASE stmt[t] = 4
    BY <2>1 DEF Insert, Go, Sane, TaskTyped, Places
  <2>2. CASE stmt[t] # 4
    <3>1. stmt[t] + 1 \in 1..4
      BY <1>2, <2>2
    <3> QED
      BY <2>2, <3>1 DEF Insert, Go, Sane, TaskTyped, Places
  <2> QED
    BY <2>1, <2>2
<1>5. ListTyped' /\ QueueTyped' /\ TimerTyped' /\ TaskTyped' /\ hung' \in BOOLEAN
  BY <1>1, <1>3, <1>4 DEF Sane, ListTyped, QueueTyped, TimerTyped, TaskTyped
<1>6. Ready(t)'
  BY <1>1, <1>2, <1>4 DEF Ready
<1>7. \A u \in Tasks : Ready(u)'
  BY <1>1, <1>4, <1>6, ReadyFrame
<1> QED
  BY <1>5, <1>7 DEF Sane

LEMMA NextEntrySane ==
  ASSUME Sane, NEW t \in Tasks, NextEntry(t)
  PROVE  Sane'
<1>1. ~hung /\ UNCHANGED <<list, current, queue, qnext, timers, left, op, stmt, place>>
  BY DEF NextEntry, At, mutex, sleep
<1>2. stmt[t] = 1 /\ entry[t] \in Tasks /\ qnext[entry[t]] \in Entries
  BY DEF NextEntry, At, Sane, Ready, QueueTyped
<1>3. /\ pc' \in [Tasks -> Places] /\ pc'[t] = "wake"
      /\ \A u \in Tasks \ {t} : pc'[u] = pc[u]
  BY DEF NextEntry, Go, Sane, TaskTyped, Places
<1>4. entry' \in [Tasks -> Entries] /\ \A u \in Tasks \ {t} : entry'[u] = entry[u]
  BY <1>2 DEF NextEntry, Sane, TaskTyped
<1>5. hung' \in BOOLEAN
  BY DEF NextEntry
<1>6. ListTyped' /\ QueueTyped' /\ TimerTyped' /\ TaskTyped'
  BY <1>1, <1>3, <1>4 DEF Sane, ListTyped, QueueTyped, TimerTyped, TaskTyped
<1>7. Ready(t)'
  BY <1>1, <1>2, <1>3 DEF Ready
<1>8. \A u \in Tasks : Ready(u)'
  BY <1>1, <1>3, <1>4, <1>7, ReadyFrame
<1> QED
  BY <1>5, <1>6, <1>8 DEF Sane

\* The last of the first timers that has expired, or 0.
Expired(due, i) ==
  /\ i \in 0..Len(timers)
  /\ i = 0 \/ timers[i] \in due
  /\ \A j \in i + 1 .. Len(timers) : timers[j] \notin due

LEMMA RemainingIs ==
  ASSUME TimerTyped, NEW due
  PROVE  \E i : /\ Expired(due, i)
                /\ Remaining(due) = SubSeq(timers, i + 1, Len(timers))
                /\ Remaining(due) \in Seq(Tasks)
<1> DEFINE S == {i \in 0..Len(timers) : i = 0 \/ timers[i] \in due}
<1>1. Len(timers) \in Nat /\ S \in SUBSET (0..Len(timers)) /\ 0 \in S
  BY DEF TimerTyped
<1>2. PICK i \in S : \A j \in S : j <= i
  <2> HIDE DEF S
  <2> QED
    BY <1>1, GreatestOf
<1>3. Expired(due, i)
  <2>1. ASSUME NEW j \in i + 1 .. Len(timers) PROVE timers[j] \notin due
    <3>1. j \in 0..Len(timers) /\ ~(j <= i)
      BY <1>1
    <3>2. j \notin S
      BY <1>2, <3>1
    <3> QED
      BY <3>1, <3>2
  <2> QED
    BY <1>1, <2>1 DEF Expired
<1> DEFINE last == CHOOSE k \in 0..Len(timers) : Expired(due, k)
<1>4. last \in 0..Len(timers) /\ Expired(due, last)
  BY <1>3 DEF Expired
<1>5. Remaining(due) = SubSeq(timers, last + 1, Len(timers))
  <2>1. \A k \in 0..Len(timers) :
          Expired(due, k) <=> /\ k = 0 \/ timers[k] \in due
                              /\ \A j \in k + 1 .. Len(timers) : timers[j] \notin due
    BY DEF Expired
  <2>2. last = CHOOSE k \in 0..Len(timers) :
                 /\ k = 0 \/ timers[k] \in due
                 /\ \A j \in k + 1 .. Len(timers) : timers[j] \notin due
    BY <2>1, Zenon
  <2> QED
    BY <2>2, Zenon DEF Remaining
<1> HIDE DEF last
<1>6. SubSeq(timers, last + 1, Len(timers)) \in Seq(Tasks)
  BY <1>4 DEF TimerTyped
<1> QED
  BY <1>4, <1>5, <1>6

LEMMA EmptySorted ==
  ASSUME NEW s, s = [i \in 1..1 |-> Idle]
  PROVE  Sorted(Empty, s, 1) /\ \A n : On(n, s, 1) <=> n = Idle
<1>1. 1..1 = {1} /\ s[1] = Idle /\ s \in [1..1 -> Nodes] /\ 1..1 - 1 = {} /\ 2..1 = {}
  BY Bounds
<1>2. \A n : On(n, s, 1) <=> n = Idle
  BY <1>1 DEF On
<1>3. /\ \A n \in Nodes : Empty.next[n] = NULL /\ Empty.prev[n] = NULL
      /\ Empty.head = Idle
  BY DEF Empty
<1>4. Strung(Empty, s, 1)
  BY <1>1, <1>3, EmptyType, Bounds DEF Strung
<1>5. Clear(Empty, s, 1, {}) /\ Descends(s, 1)
  BY <1>1, <1>3 DEF Clear, Descends
<1> QED
  BY <1>2, <1>4, <1>5 DEF Sorted, Linked

\* The list in which _premain alone stands before the idle task.
LEMMA FirstSorted ==
  \E u : /\ Sorted(InsertBefore(Empty, 1, Idle), u, 2)
         /\ \A n : On(n, u, 2) <=> n = 1 \/ n = Idle
<1>1. PICK e : e = [i \in 1..1 |-> Idle]
  OBVIOUS
<1>2. Sorted(Empty, e, 1) /\ \A n : On(n, e, 1) <=> n = Idle
  BY <1>1, EmptySorted
<1>3. 1 \in Tasks /\ ~On(1, e, 1)
  BY <1>2, Bounds
<1>4. Fits(e, 1, 1, 1) /\ e[1] = Idle
  BY <1>1 DEF Fits
<1>5. PICK u : /\ Sorted(InsertBefore(Empty, 1, e[1]), u, 1 + 1)
               /\ \A n : On(n, u, 1 + 1) <=> n = 1 \/ On(n, e, 1)
  BY <1>2, <1>3, <1>4, InsertSorted
<1>6. 1 + 1 = 2
  OBVIOUS
<1> QED
  BY <1>2, <1>4, <1>5, <1>6

LEMMA InitSane == Init => Sane
<1> SUFFICES ASSUME Init PROVE Sane
  OBVIOUS
<1>1. list \in Lists /\ list.head # NULL
  BY FirstSorted, Bounds DEF Init, Sorted, Linked, Strung
<1>2. current \in Nodes
  BY <1>1 DEF Init, Lists, Ends
<1>3. QueueTyped /\ TimerTyped /\ hung \in BOOLEAN
  <2>1. <<>> \in Seq(Tasks)
    OBVIOUS
  <2>2. QueueTyped /\ hung \in BOOLEAN
    BY DEF Init, QueueTyped, Entries
  <2>3. left \in [Tasks -> Nat] /\ timers = <<>>
    BY DEF Init
  <2> QED
    BY <2>1, <2>2, <2>3 DEF TimerTyped
<1>4. TaskTyped
  BY DEF Init, TaskTyped, Places, Entries, Ends
<1>5. \A t \in Tasks : Ready(t)
  BY DEF Init, Ready
<1> QED
  BY <1>1, <1>2, <1>3, <1>4, <1>5 DEF Sane, ListTyped

LEMMA RunSane ==
  ASSUME Sane, ~hung, Run, UNCHANGED <<mutex, threads>>
  PROVE  Sane'
<1> DEFINE passed == [t \in Tasks |-> Counted(left[t])]
           due    == {t \in Range(timers) : passed[t] = 0}
           woken  == WakeDue(list, timers, due)
           picked == PickTask(woken.list, current)
<1>1. ~hung /\ UNCHANGED <<queue, qnext, pc, op, stmt, entry, place>>
  BY DEF mutex, threads
<1>2. /\ left' = passed /\ timers' = Remaining(due)
      /\ IF woken.ok /\ picked.ok
         THEN list' = picked.list /\ current' = picked.task /\ hung' = FALSE
         ELSE hung' = TRUE /\ UNCHANGED <<list, current>>
  BY Zenon DEF Run
<1>3. passed \in [Tasks -> Nat]
  BY DEF Sane, TimerTyped, Counted
<1>4. woken \in Results
  <2> HIDE DEF due
  <2>1. list \in Lists /\ timers \in Seq(Tasks)
    BY DEF Sane, ListTyped, TimerTyped
  <2>2. PICK f \in [0..Len(timers) -> Results] : WakeDue(list, timers, due) = f[Len(timers)]
    BY <2>1, CourseExists
  <2> QED
    BY <2>1, <2>2
<1>5. Picked(picked)
  <2> HIDE DEF woken
  <2> QED
    BY <1>4, PickType DEF Results, Sane, ListTyped
<1> HIDE DEF passed, due, woken, picked
<1>6. Remaining(due) \in Seq(Tasks)
  BY RemainingIs DEF Sane
<1>7. ListTyped' /\ QueueTyped' /\ TimerTyped' /\ TaskTyped' /\ hung' \in BOOLEAN
  BY <1>1, <1>2, <1>3, <1>5, <1>6
     DEF Sane, ListTyped, QueueTyped, TimerTyped, TaskTyped, Picked
<1>8. ASSUME NEW u \in Tasks PROVE Ready(u)'
  <2>1. Ready(u)
    BY DEF Sane
  <2> QED
    BY <1>1, <2>1 DEF Ready
<1> QED
  BY <1>7, <1>8 DEF Sane

LEMMA TickSane == Sane /\ Tick => Sane'
<1> SUFFICES ASSUME Sane, Tick PROVE Sane'
  OBVIOUS
<1>1. CASE Run
  BY <1>1, RunSane DEF Tick
<1>2. CASE LoseContext
  <2>1. UNCHANGED <<list, current, queue, qnext, timers, left, pc, op, stmt, entry, place>>
        /\ hung' = TRUE
    BY <1>2 DEF Tick, LoseContext, mutex, sleep, threads
  <2>2. ASSUME NEW u \in Tasks PROVE Ready(u)'
    <3>1. Ready(u)
      BY DEF Sane
    <3> QED
      BY <2>1, <3>1 DEF Ready
  <2> QED
    BY <2>1, <2>2 DEF Sane, ListTyped, QueueTyped, TimerTyped, TaskTyped
<1> QED
  BY <1>1, <1>2 DEF Tick

LEMMA NextSane == Sane /\ [Next]_vars => Sane'
<1> SUFFICES ASSUME Sane, [Next]_vars PROVE Sane'
  OBVIOUS
<1>1. CASE UNCHANGED vars
  BY <1>1 DEF Sane, ListTyped, QueueTyped, TimerTyped, TaskTyped, Ready, vars, mutex, sleep,
              threads
<1>2. CASE Tick
  BY <1>2, TickSane
<1>3. ASSUME NEW t \in Tasks, Step(t) PROVE Sane'
  BY <1>3, MutexSane, SleepSane, SuspendSane, ScheduleSane, SwitchSane, ArriveSane, CreateSane,
     WakeSane, InsertSane, NextEntrySane DEF Step
<1> QED
  BY <1>1, <1>2, <1>3 DEF Next

LEMMA InitNeeds == Init => Needs
BY DEF Init, Needs

LEMMA NextNeeds == Needs /\ [Next]_vars => Needs'
<1> SUFFICES ASSUME Needs, [Next]_vars PROVE Needs'
  OBVIOUS
<1>1. CASE need' = need
  BY <1>1 DEF Needs
<1>2. CASE need' # need
  <2>1. PICK t \in Tasks : Unlock(t) \/ Wake(t)
    BY <1>2 DEF Next, Step, vars, threads, Tick, Create, Lock, Join, Enqueue, Sleep, AddTimer,
                Suspend, Schedule, Switch, Arrive, TakeQueue, EmptyQueue, Insert, NextEntry
  <2>2. need' = [need EXCEPT ![t] = queue # NULL] \/ need' = [need EXCEPT ![t] = FALSE]
    BY <1>2, <2>1 DEF Unlock, Wake
  <2>3. (queue # NULL) \in BOOLEAN
    OBVIOUS
  <2> QED
    BY <2>2, <2>3 DEF Needs
<1> QED
  BY <1>1, <1>2

\* Every variable keeps its type, for any number of tasks, any priorities and any
\* ticks: a list that the tick has broken is still made of the tasks, and a task
\* the scheduler switches to is there, or the scheduler hangs.
THEOREM SchedulerTypeCorrect == Spec => []TypeOK
BY InitExclusion, NextExclusion, InitSane, NextSane, InitNeeds, NextNeeds, SaneTyped,
   PTL DEF Spec

(***************************************************************************)
(* The scheduler, until the tick comes where a list is being changed.  The *)
(* run list is a sequence of tasks, s, of length m; during zrt_suspend and *)
(* zrt_insertTask l is the list before their first statement.  ch[Idle]    *)
(* are the tasks in the wait queue of the mutex, ch[t] those that t has    *)
(* taken out of it and not yet woken.                                      *)
(***************************************************************************)
Doing(here) == current \in Tasks /\ pc[current] = here

ListInv(l, s, m) ==
  /\ Sorted(l, s, m)
  /\ Doing("suspend") => list = Suspending(l, current, stmt[current])
  /\ Doing("insert") =>
       /\ list = Inserting(l, entry[current], place[current], stmt[current])
       /\ \E j : Fits(s, m, entry[current], j) /\ place[current] = s[j]
  /\ ~Doing("suspend") /\ ~Doing("insert") => list = l
  /\ IF Doing("switch") THEN place[current] = s[1]
     ELSE current = s[1] \/ (Doing("schedule") /\ ~On(current, s, m))

First(q) == IF q = <<>> THEN NULL ELSE q[1]
Waits(ch, t) == \E r \in Nodes : \E i \in 1..Len(ch[r]) : ch[r][i] = t

ChainInv(ch) ==
  /\ ch \in [Nodes -> Seq(Tasks)]
  /\ \A r \in Nodes : \A i \in 1..Len(ch[r]) :
       qnext[ch[r][i]] = IF i = Len(ch[r]) THEN NULL ELSE ch[r][i + 1]
  /\ \A r, v \in Nodes : \A i \in 1..Len(ch[r]), j \in 1..Len(ch[v]) :
       ch[r][i] = ch[v][j] => r = v /\ i = j
  /\ queue = First(ch[Idle])

\* Who waits is woken by the task that holds the mutex.
MutexInv ==
  /\ val \in Int
  /\ queue # NULL => \E u \in Tasks : pc[u] \in {"critical", "take", "empty"}
  /\ val <= 0 => \E u \in Tasks : pc[u] = "critical"

TimerInv ==
  /\ \A i, k \in 1..Len(timers) : timers[i] = timers[k] => i = k
  /\ \A i, k \in 1..Len(timers) :
       i < k /\ left[timers[k]] < left[timers[i]] => timers[i] \in misplaced

\* A task that is not in the list, or is taking itself out of it, waits for the mutex or
\* sleeps, and no other does, or it has not been created.
Leaving(t) == current = t /\ pc[t] = "suspend"
Away(t, s, m) == ~On(t, s, m) \/ Leaving(t)

Whereabouts(t, ch, s, m) ==
  /\ Waits(ch, t) => op[t] = "lock" /\ Away(t, s, m)
  /\ t \in Range(timers) => op[t] = "sleep" /\ Away(t, s, m)
  /\ pc[t] = "absent" => op[t] = "none" /\ ~On(t, s, m)
  /\ Away(t, s, m) => \/ op[t] = "lock" /\ Waits(ch, t)
                      \/ op[t] = "sleep" /\ (t \in Range(timers) \/ t \in misplaced)
                      \/ pc[t] = "absent"

\* What a task has read of the queue and of the timers is still so.
Local(t, ch) ==
  /\ pc[t] \notin {"wake", "insert", "next"} => ch[t] = <<>>
  /\ pc[t] \in {"wake", "insert"} => entry[t] = First(ch[t])
  /\ pc[t] = "next" => op[entry[t]] = "lock" /\ qnext[entry[t]] = First(ch[t])
  /\ pc[t] = "empty" => entry[t] = queue
  /\ pc[t] \in {"join", "enqueue"} => val <= 0 /\ op[t] = "lock"
  /\ pc[t] = "enqueue" => qnext[t] = queue
  /\ pc[t] = "timer" => /\ op[t] = "sleep"
                        /\ IF timers = <<>> THEN entry[t] = NULL ELSE entry[t] \in Range(timers)

Scheduled(l, s, m, ch) ==
  /\ ListInv(l, s, m) /\ ChainInv(ch) /\ MutexInv /\ TimerInv
  /\ \A t \in Tasks : /\ Whereabouts(t, ch, s, m) /\ Local(t, ch)
                      /\ t # current => ~Exposed(t)

\* The running task is the head of the list, unless it is about to switch.
LEMMA AtHead ==
  ASSUME NEW l, NEW s, NEW m, NEW ch, Scheduled(l, s, m, ch), NEW t \in Tasks, current = t,
         pc[t] \notin {"switch", "schedule"}
  PROVE  /\ t = s[1] /\ On(t, s, m) /\ m # 1
         /\ pc[t] # "suspend" => ~Waits(ch, t) /\ t \notin Range(timers)
<1>1. t = s[1]
  BY DEF Scheduled, ListInv, Doing
<1>2. On(t, s, m) /\ m # 1
  BY <1>1, Bounds DEF Scheduled, ListInv, Sorted, Linked, Strung, On
<1>3. pc[t] # "suspend" => ~Away(t, s, m)
  BY <1>2 DEF Away, Leaving
<1>4. Whereabouts(t, ch, s, m)
  BY DEF Scheduled
<1> QED
  BY <1>1, <1>2, <1>3, <1>4 DEF Whereabouts

\* A task that stands, and that no one inserts, wakes or puts to sleep.
Stands(u, s, m, ch, s2, m2, ch2) ==
  /\ pc'[u] = pc[u] /\ op'[u] = op[u] /\ entry'[u] = entry[u] /\ ch2[u] = ch[u]
  /\ Waits(ch2, u) <=> Waits(ch, u)
  /\ On(u, s2, m2) <=> On(u, s, m)
  /\ u \in Range(timers') <=> u \in Range(timers)
  /\ u \in misplaced => u \in misplaced'

LEMMA OtherStands ==
  ASSUME NEW s, NEW m, NEW ch, NEW s2, NEW m2, NEW ch2, NEW u \in Tasks,
         Whereabouts(u, ch, s, m), Local(u, ch), ~Exposed(u),
         Stands(u, s, m, ch, s2, m2, ch2)
  PROVE  Whereabouts(u, ch2, s2, m2)' /\ Local(u, ch2)' /\ ~Exposed(u)'
<1>1. ~Exposed(u)'
  BY DEF Exposed, Stands
<1>2. Away(u, s2, m2)' <=> Away(u, s, m)
  BY <1>1 DEF Away, Leaving, Exposed, Stands
<1>3. Whereabouts(u, ch2, s2, m2)'
  BY <1>2 DEF Whereabouts, Stands
<1>4. Local(u, ch2)'
  BY DEF Local, Exposed, Stands
<1> QED
  BY <1>1, <1>3, <1>4

\* A step of the running task, the others stand.
LEMMA StepScheduled ==
  ASSUME NEW l, NEW s, NEW m, NEW ch, Scheduled(l, s, m, ch), NEW t \in Tasks,
         current = t, current' = t, NEW l2, NEW s2, NEW m2, NEW ch2,
         ListInv(l2, s2, m2)', ChainInv(ch2)', MutexInv', TimerInv',
         Whereabouts(t, ch2, s2, m2)', Local(t, ch2)',
         \A u \in Tasks \ {t} : Stands(u, s, m, ch, s2, m2, ch2)
  PROVE  Scheduled(l2, s2, m2, ch2)'
<1>1. ASSUME NEW u \in Tasks \ {t}
      PROVE  Whereabouts(u, ch2, s2, m2)' /\ Local(u, ch2)' /\ ~Exposed(u)'
  <2>1. Whereabouts(u, ch, s, m) /\ Local(u, ch) /\ ~Exposed(u)
    BY DEF Scheduled
  <2> QED
    BY <2>1, OtherStands
<1>2. ASSUME NEW u \in Tasks
      PROVE  Whereabouts(u, ch2, s2, m2)' /\ Local(u, ch2)' /\ (u # current' => ~Exposed(u)')
  BY <1>1
<1> QED
  BY <1>2 DEF Scheduled

\* The running task is in the list and neither waits nor sleeps.
LEMMA RunningHere ==
  ASSUME NEW s, NEW m, NEW ch, NEW t \in Tasks, On(t, s, m), ~Waits(ch, t),
         t \notin Range(timers'), pc'[t] \notin {"suspend", "absent"}
  PROVE  Whereabouts(t, ch, s, m)'
BY DEF Whereabouts, Away, Leaving

\* The list stands while a task that neither suspends, inserts nor switches goes on.
LEMMA ListStands ==
  ASSUME NEW l, NEW s, NEW m, ListInv(l, s, m), NEW t \in Tasks, current = t, current' = t,
         list' = list, pc[t] \notin {"suspend", "insert", "switch", "schedule"},
         pc'[t] \notin {"insert", "switch"}, pc'[t] = "suspend" => stmt'[t] = 1
  PROVE  ListInv(l, s, m)'
<1>1. list = l /\ current = s[1]
  BY DEF ListInv, Doing
<1>2. Suspending(l, t, 1) = l
  BY SuspendingIs
<1> QED
  BY <1>1, <1>2 DEF ListInv, Doing

\* The queue and the chains stand if the entries in them do.
LEMMA ChainsStand ==
  ASSUME NEW ch, ChainInv(ch), queue' = queue,
         \A u \in Tasks : Waits(ch, u) => qnext'[u] = qnext[u]
  PROVE  ChainInv(ch)'
<1>1. ASSUME NEW r \in Nodes, NEW i \in 1..Len(ch[r]) PROVE qnext'[ch[r][i]] = qnext[ch[r][i]]
  <2>1. ch[r][i] \in Tasks /\ Waits(ch, ch[r][i])
    BY DEF ChainInv, Waits
  <2> QED
    BY <2>1
<1> QED
  BY <1>1 DEF ChainInv

\* Who holds the mutex goes on holding it.
LEMMA MutexStands ==
  ASSUME MutexInv, queue' = queue, val' = val, NEW t \in Tasks,
         \A u \in Tasks \ {t} : pc'[u] = pc[u], pc[t] \notin {"critical", "take", "empty"}
  PROVE  MutexInv'
BY DEF MutexInv

LEMMA LockScheduled ==
  ASSUME Sane, NEW l, NEW s, NEW m, NEW ch, Scheduled(l, s, m, ch), NEW t \in Tasks, Lock(t)
  PROVE  Scheduled(l, s, m, ch)'
<1>1. /\ current = t /\ current' = t /\ pc[t] \in {"run", "retry"}
      /\ UNCHANGED <<list, queue, timers, left, misplaced, stmt, entry, place, hung>>
      /\ val' = val - 1
  BY DEF Lock, At, sleep
<1>2. t = s[1] /\ On(t, s, m) /\ ~Waits(ch, t) /\ t \notin Range(timers)
  BY <1>1, AtHead
<1>3. \A u \in Tasks \ {t} : pc'[u] = pc[u] /\ op'[u] = op[u] /\ qnext'[u] = qnext[u]
  BY DEF Lock, Go, Sane, TaskTyped, QueueTyped
<1>4. pc'[t] = IF val' < 0 THEN "join" ELSE "critical"
  BY DEF Lock, Go, Sane, TaskTyped, Tested
<1>5. val' < 0 => op'[t] = "lock"
  BY DEF Lock, Sane, TaskTyped, Tested
<1>6. ListInv(l, s, m)'
  BY <1>1, <1>4, ListStands DEF Scheduled
<1>7. ChainInv(ch)'
  BY <1>1, <1>2, <1>3, ChainsStand DEF Scheduled
<1>8. MutexInv'
  <2>1. CASE val' < 0
    <3>1. val <= 0 /\ val' \in Int
      BY <1>1, <2>1 DEF Scheduled, MutexInv
    <3> QED
      BY <1>1, <1>3, <3>1 DEF Scheduled, MutexInv
  <2>2. CASE ~(val' < 0)
    BY <1>1, <1>3, <1>4, <2>2 DEF Scheduled, MutexInv
  <2> QED
    BY <2>1, <2>2
<1>9. TimerInv'
  BY <1>1 DEF Scheduled, TimerInv
<1>10. Whereabouts(t, ch, s, m)'
  BY <1>1, <1>2, <1>4, RunningHere
<1>11. Local(t, ch)'
  <2>1. ch[t] = <<>>
    BY <1>1 DEF Scheduled, Local
  <2> QED
    BY <1>4, <1>5, <1>8, <2>1 DEF Local, MutexInv
<1>12. \A u \in Tasks \ {t} : Stands(u, s, m, ch, s, m, ch)
  BY <1>1, <1>3 DEF Stands
<1> QED
  BY <1>1, <1>6, <1>7, <1>8, <1>9, <1>10, <1>11, <1>12, StepScheduled

LEMMA JoinScheduled ==
  ASSUME Sane, NEW l, NEW s, NEW m, NEW ch, Scheduled(l, s, m, ch), NEW t \in Tasks, Join(t)
  PROVE  Scheduled(l, s, m, ch)'
<1>1. /\ current = t /\ current' = t /\ pc[t] = "join"
      /\ UNCHANGED <<list, val, queue, timers, left, misplaced, op, stmt, entry, place, hung>>
  BY DEF Join, At, sleep
<1>2. t = s[1] /\ On(t, s, m) /\ ~Waits(ch, t) /\ t \notin Range(timers)
  BY <1>1, AtHead
<1>3. \A u \in Tasks \ {t} : pc'[u] = pc[u] /\ qnext'[u] = qnext[u]
  BY DEF Join, Go, Sane, TaskTyped, QueueTyped
<1>4. pc'[t] = "enqueue" /\ qnext'[t] = queue
  BY DEF Join, Go, Sane, TaskTyped, QueueTyped
<1>5. ListInv(l, s, m)'
  BY <1>1, <1>4, ListStands DEF Scheduled
<1>6. ChainInv(ch)'
  BY <1>1, <1>2, <1>3, ChainsStand DEF Scheduled
<1>7. MutexInv'
  BY <1>1, <1>3, MutexStands DEF Scheduled
<1>8. TimerInv'
  BY <1>1 DEF Scheduled, TimerInv
<1>9. Whereabouts(t, ch, s, m)'
  BY <1>1, <1>2, <1>4, RunningHere
<1>10. Local(t, ch)'
  <2>1. ch[t] = <<>> /\ val <= 0 /\ op[t] = "lock"
    BY <1>1 DEF Scheduled, Local
  <2> QED
    BY <1>1, <1>4, <2>1 DEF Local
<1>11. \A u \in Tasks \ {t} : Stands(u, s, m, ch, s, m, ch)
  BY <1>1, <1>3 DEF Stands
<1> QED
  BY <1>1, <1>5, <1>6, <1>7, <1>8, <1>9, <1>10, <1>11, StepScheduled

\* The wait queue with another task before it.
Queued(ch, t) == [ch EXCEPT ![Idle] = <<t>> \o ch[Idle]]

LEMMA QueuedIs ==
  ASSUME NEW ch, ChainInv(ch), NEW t \in Tasks
  PROVE  /\ Queued(ch, t) \in [Nodes -> Seq(Tasks)]
         /\ \A r \in Nodes \ {Idle} : Queued(ch, t)[r] = ch[r]
         /\ Len(ch[Idle]) \in Nat /\ Len(Queued(ch, t)[Idle]) = Len(ch[Idle]) + 1
         /\ \A i \in 1..Len(ch[Idle]) + 1 :
              Queued(ch, t)[Idle][i] = IF i = 1 THEN t ELSE ch[Idle][i - 1]
         /\ \A u : Waits(Queued(ch, t), u) <=> u = t \/ Waits(ch, u)
<1> DEFINE q == <<t>> \o ch[Idle]
           ch2 == Queued(ch, t)
<1>1. ch \in [Nodes -> Seq(Tasks)] /\ Idle \in Nodes
  BY Bounds DEF ChainInv
<1>2. ch[Idle] \in Seq(Tasks) /\ Len(ch[Idle]) \in Nat
  BY <1>1
<1>3. /\ q \in Seq(Tasks) /\ Len(q) = Len(ch[Idle]) + 1
      /\ \A i \in 1..Len(ch[Idle]) + 1 : q[i] = IF i = 1 THEN t ELSE ch[Idle][i - 1]
  BY <1>2
<1>4. ch2 \in [Nodes -> Seq(Tasks)] /\ ch2[Idle] = q /\ \A r \in Nodes \ {Idle} : ch2[r] = ch[r]
  <2> HIDE DEF q
  <2> QED
    BY <1>1, <1>3 DEF Queued, q
<1> HIDE DEF q, ch2
<1>5. ASSUME NEW u PROVE Waits(ch2, u) <=> u = t \/ Waits(ch, u)
  <2>1. ASSUME NEW r \in Nodes, NEW i \in 1..Len(ch2[r]), ch2[r][i] = u
        PROVE  u = t \/ Waits(ch, u)
    <3>1. CASE r # Idle
      BY <1>4, <2>1, <3>1 DEF Waits
    <3>2. CASE r = Idle /\ i = 1
      BY <1>3, <1>4, <2>1, <3>2
    <3>3. CASE r = Idle /\ i # 1
      <4>1. i - 1 \in 1..Len(ch[Idle]) /\ ch[Idle][i - 1] = u
        BY <1>2, <1>3, <1>4, <2>1, <3>3
      <4> QED
        BY <1>1, <4>1 DEF Waits
    <3> QED
      BY <3>1, <3>2, <3>3
  <2>2. Waits(ch2, t)
    <3>1. 1 \in 1..Len(ch2[Idle]) /\ ch2[Idle][1] = t
      BY <1>2, <1>3, <1>4
    <3> QED
      BY <1>1, <3>1 DEF Waits
  <2>3. ASSUME NEW r \in Nodes, NEW i \in 1..Len(ch[r]), ch[r][i] = u
        PROVE  Waits(ch2, u)
    <3>1. CASE r # Idle
      BY <1>4, <2>3, <3>1 DEF Waits
    <3>2. CASE r = Idle
      <4>1. i \in 1..Len(ch[Idle]) /\ ch[Idle][i] = u
        BY <2>3, <3>2
      <4>2. i + 1 \in 1..Len(ch[Idle]) + 1 /\ i + 1 # 1 /\ (i + 1) - 1 = i
        BY <1>2, <4>1
      <4>3. i + 1 \in 1..Len(ch2[Idle]) /\ ch2[Idle][i + 1] = u
        BY <1>3, <1>4, <4>1, <4>2
      <4> QED
        BY <1>1, <4>3 DEF Waits
    <3> QED
      BY <3>1, <3>2
  <2> QED
    BY <2>1, <2>2, <2>3 DEF Waits
<1> QED
  BY <1>2, <1>3, <1>4, <1>5 DEF ch2

LEMMA ChainsQueued ==
  ASSUME NEW ch, ChainInv(ch), NEW t \in Tasks, ~Waits(ch, t), qnext[t] = queue,
         qnext' = qnext, queue' = t
  PROVE  ChainInv(Queued(ch, t))'
<1> DEFINE c == Queued(ch, t)
           n == Len(ch[Idle])
<1>1. /\ c \in [Nodes -> Seq(Tasks)] /\ \A r \in Nodes \ {Idle} : c[r] = ch[r]
      /\ n \in Nat /\ Len(c[Idle]) = n + 1
      /\ \A i \in 1..n + 1 : c[Idle][i] = IF i = 1 THEN t ELSE ch[Idle][i - 1]
  BY QueuedIs
<1>2. ch[Idle] \in Seq(Tasks) /\ Idle \in Nodes
  BY Bounds DEF ChainInv
<1>3. n = 0 <=> ch[Idle] = <<>>
  BY <1>2
<1> HIDE DEF c
<1>4. ASSUME NEW r \in Nodes, NEW i \in 1..Len(c[r])
      PROVE  qnext[c[r][i]] = IF i = Len(c[r]) THEN NULL ELSE c[r][i + 1]
  <2>1. CASE r # Idle
    BY <1>1, <2>1 DEF ChainInv
  <2>2. CASE r = Idle /\ i = 1
    <3>1. c[r][i] = t /\ qnext[t] = First(ch[Idle])
      BY <1>1, <2>2 DEF ChainInv
    <3>2. CASE n = 0
      BY <1>1, <1>3, <2>2, <3>1, <3>2 DEF First
    <3>3. CASE n # 0
      <4>1. i + 1 \in 1..n + 1 /\ i + 1 # 1 /\ (i + 1) - 1 = 1
        BY <1>1, <2>2, <3>3
      <4>2. c[Idle][i + 1] = ch[Idle][1]
        BY <1>1, <4>1
      <4>3. i # Len(c[Idle])
        BY <1>1, <2>2, <3>3
      <4>4. First(ch[Idle]) = ch[Idle][1]
        BY <1>3, <3>3 DEF First
      <4> QED
        BY <2>2, <3>1, <4>2, <4>3, <4>4
    <3> QED
      BY <3>2, <3>3
  <2>3. CASE r = Idle /\ i # 1
    <3>1. i \in 2..n + 1
      BY <1>1, <2>3
    <3>2. i - 1 \in 1..n /\ (i - 1) + 1 = i /\ (i + 1) - 1 = i
      BY <1>1, <3>1
    <3>3. c[r][i] = ch[Idle][i - 1]
      BY <1>1, <2>3
    <3>4. qnext[ch[Idle][i - 1]] = IF i - 1 = n THEN NULL ELSE ch[Idle][i]
      BY <1>2, <3>2 DEF ChainInv
    <3>5. CASE i - 1 = n
      BY <1>1, <2>3, <3>1, <3>3, <3>4, <3>5
    <3>6. CASE i - 1 # n
      <4>1. i + 1 \in 1..n + 1 /\ i # n + 1 /\ i + 1 # 1
        BY <1>1, <3>1, <3>6
      <4>2. c[Idle][i + 1] = ch[Idle][i]
        BY <1>1, <3>2, <4>1
      <4> QED
        BY <1>1, <2>3, <3>3, <3>4, <3>6, <4>1, <4>2
    <3> QED
      BY <3>5, <3>6
  <2> QED
    BY <2>1, <2>2, <2>3
<1>5. ASSUME NEW r \in Nodes, NEW v \in Nodes, NEW i \in 1..Len(c[r]), NEW j \in 1..Len(c[v]),
             c[r][i] = c[v][j]
      PROVE  r = v /\ i = j
  <2> DEFINE At2(x, k) == IF x = Idle THEN k - 1 ELSE k
  <2>1. ASSUME NEW x \in Nodes, NEW k \in 1..Len(c[x]), x # Idle \/ k # 1
        PROVE  /\ At2(x, k) \in 1..Len(ch[x]) /\ c[x][k] = ch[x][At2(x, k)] /\ c[x][k] # t
    <3>1. At2(x, k) \in 1..Len(ch[x]) /\ c[x][k] = ch[x][At2(x, k)]
      BY <1>1, <2>1
    <3> HIDE DEF At2
    <3>2. ch[x][At2(x, k)] # t
      BY <3>1 DEF Waits
    <3> QED
      BY <3>1, <3>2
  <2>2. ASSUME NEW x \in Nodes, NEW k \in 1..Len(c[x]), ~(x # Idle \/ k # 1)
        PROVE  c[x][k] = t
    BY <1>1, <2>2
  <2>3. CASE (r # Idle \/ i # 1) /\ (v # Idle \/ j # 1)
    <3>1. /\ At2(r, i) \in 1..Len(ch[r]) /\ c[r][i] = ch[r][At2(r, i)]
          /\ At2(v, j) \in 1..Len(ch[v]) /\ c[v][j] = ch[v][At2(v, j)]
      BY <2>1, <2>3
    <3>2. r = v /\ At2(r, i) = At2(v, j)
      <4> HIDE DEF At2
      <4>1. ch[r][At2(r, i)] = ch[v][At2(v, j)]
        BY <1>5, <3>1
      <4>2. \A i1 \in 1..Len(ch[r]), j1 \in 1..Len(ch[v]) : ch[r][i1] = ch[v][j1] => r = v /\ i1 = j1
        BY DEF ChainInv
      <4> QED
        BY <3>1, <4>1, <4>2, Zenon
    <3> QED
      BY <1>1, <3>2
  <2>4. CASE ~(r # Idle \/ i # 1) \/ ~(v # Idle \/ j # 1)
    BY <1>5, <2>1, <2>2, <2>4
  <2> QED
    BY <2>3, <2>4
<1>6. queue' = First(c[Idle])
  <2>1. c[Idle] # <<>> /\ c[Idle][1] = t
    BY <1>1
  <2> QED
    BY <2>1 DEF First
<1>7. ChainInv(c)'
  BY <1>1, <1>4, <1>5, <1>6 DEF ChainInv
<1> QED
  BY <1>7 DEF c

LEMMA EnqueueScheduled ==
  ASSUME Sane, NEW l, NEW s, NEW m, NEW ch, Scheduled(l, s, m, ch), NEW t \in Tasks, Enqueue(t)
  PROVE  Scheduled(l, s, m, Queued(ch, t))'
<1>1. /\ current = t /\ current' = t /\ pc[t] = "enqueue" /\ queue' = t
      /\ UNCHANGED <<list, val, qnext, timers, left, misplaced, op, stmt, entry, place, hung>>
  BY DEF Enqueue, At, sleep
<1>2. t = s[1] /\ On(t, s, m) /\ ~Waits(ch, t) /\ t \notin Range(timers)
  BY <1>1, AtHead
<1>3. pc'[t] = "suspend" /\ \A u \in Tasks \ {t} : pc'[u] = pc[u]
  BY DEF Enqueue, Go, Sane, TaskTyped
<1>4. stmt[t] = 1
  BY <1>1 DEF Sane, Ready
<1>5. ListInv(l, s, m)'
  BY <1>1, <1>3, <1>4, ListStands DEF Scheduled
<1>6. val <= 0 /\ op[t] = "lock" /\ ch[t] = <<>> /\ qnext[t] = queue
  BY <1>1 DEF Scheduled, Local
<1>7. ChainInv(Queued(ch, t))'
  BY <1>1, <1>2, <1>6, ChainsQueued DEF Scheduled
<1>8. MutexInv'
  <2>1. val' \in Int /\ val' <= 0
    BY <1>1, <1>6 DEF Scheduled, MutexInv
  <2>2. PICK u \in Tasks : pc[u] = "critical"
    BY <1>6 DEF Scheduled, MutexInv
  <2>3. pc'[u] = "critical"
    BY <1>1, <1>3, <2>2
  <2> QED
    BY <2>1, <2>3 DEF MutexInv
<1>9. TimerInv'
  BY <1>1 DEF Scheduled, TimerInv
<1>10. /\ \A u : Waits(Queued(ch, t), u) <=> u = t \/ Waits(ch, u)
       /\ \A u \in Tasks : Queued(ch, t)[u] = ch[u]
  BY QueuedIs, Bounds DEF Scheduled
<1>11. Whereabouts(t, Queued(ch, t), s, m)'
  BY <1>1, <1>2, <1>3, <1>6, <1>10 DEF Whereabouts, Away, Leaving
<1>12. Local(t, Queued(ch, t))'
  BY <1>3, <1>6, <1>10 DEF Local
<1>13. \A u \in Tasks \ {t} : Stands(u, s, m, ch, s, m, Queued(ch, t))
  BY <1>1, <1>3, <1>10 DEF Stands
<1> QED
  BY <1>1, <1>5, <1>7, <1>8, <1>9, <1>11, <1>12, <1>13, StepScheduled

LEMMA SleepScheduled ==
  ASSUME Sane, NEW l, NEW s, NEW m, NEW ch, Scheduled(l, s, m, ch), NEW t \in Tasks, Sleep(t)
  PROVE  Scheduled(l, s, m, ch)'
<1>1. /\ current = t /\ current' = t /\ pc[t] = "run"
      /\ UNCHANGED <<list, val, queue, qnext, timers, misplaced, stmt, place, hung>>
  BY DEF Sleep, At, mutex
<1>2. t = s[1] /\ On(t, s, m) /\ ~Waits(ch, t) /\ t \notin Range(timers)
  BY <1>1, AtHead
<1>3. /\ pc'[t] = "timer" /\ op'[t] = "sleep"
      /\ \A u \in Tasks \ {t} : pc'[u] = pc[u] /\ op'[u] = op[u]
  BY DEF Sleep, Go, Sane, TaskTyped
<1>4. PICK ticks \in Naps :
        /\ left' = [left EXCEPT ![t] = ticks]
        /\ entry' = [entry EXCEPT ![t] =
             IF timers = <<>> THEN NULL
             ELSE timers[Least({i \in DOMAIN timers : left[timers[i]] <= ticks \/ i = Len(timers)})]]
  BY Zenon DEF Sleep
<1>5. timers \in Seq(Tasks) /\ DOMAIN timers = 1..Len(timers) /\ Len(timers) \in Nat
  BY DEF Sane, TimerTyped
<1>6. \A i \in 1..Len(timers) : timers[i] \in Range(timers) /\ timers[i] # t
  BY <1>2, <1>5 DEF Range
<1>7. /\ \A u \in Tasks \ {t} : left'[u] = left[u] /\ entry'[u] = entry[u]
      /\ IF timers = <<>> THEN entry'[t] = NULL ELSE entry'[t] \in Range(timers)
  <2> DEFINE ends == {i \in DOMAIN timers : left[timers[i]] <= ticks \/ i = Len(timers)}
  <2>1. ASSUME timers # <<>> PROVE Least(ends) \in DOMAIN timers
    <3>1. ends \in SUBSET Nat
      BY <1>5
    <3>2. Len(timers) \in ends
      BY <1>5, <2>1
    <3>3. Least(ends) \in ends
      <4> HIDE DEF ends
      <4> QED
        BY <3>1, <3>2, LeastIn
    <3> QED
      BY <3>3
  <2> DEFINE e == Least(ends)
  <2>2. entry' = [entry EXCEPT ![t] = IF timers = <<>> THEN NULL ELSE timers[e]]
    BY <1>4
  <2>3. timers # <<>> => timers[e] \in Range(timers)
    BY <1>5, <1>6, <2>1
  <2> HIDE DEF e
  <2> QED
    BY <1>4, <2>2, <2>3 DEF Sane, TimerTyped, TaskTyped
<1>8. ListInv(l, s, m)'
  BY <1>1, <1>3, ListStands DEF Scheduled
<1>9. ChainInv(ch)'
  BY <1>1, ChainsStand DEF Scheduled
<1>10. MutexInv'
  BY <1>1, <1>3, MutexStands DEF Scheduled
<1>11. TimerInv'
  <2>1. \A i \in 1..Len(timers) : left'[timers[i]] = left[timers[i]]
    BY <1>5, <1>6, <1>7
  <2> QED
    BY <1>1, <2>1 DEF Scheduled, TimerInv
<1>12. Whereabouts(t, ch, s, m)'
  BY <1>1, <1>2, <1>3, RunningHere
<1>13. Local(t, ch)'
  <2>1. ch[t] = <<>>
    BY <1>1 DEF Scheduled, Local
  <2> QED
    BY <1>1, <1>3, <1>7, <2>1 DEF Local
<1>14. \A u \in Tasks \ {t} : Stands(u, s, m, ch, s, m, ch)
  BY <1>1, <1>3, <1>7 DEF Stands
<1> QED
  BY <1>1, <1>8, <1>9, <1>10, <1>11, <1>12, <1>13, <1>14, StepScheduled

\* zrt_timerAdd puts the timer into the list, once.
LEMMA TimersWithIs ==
  ASSUME TimerTyped, NEW t \in Tasks, t \notin Range(timers),
         \A i, k \in 1..Len(timers) : timers[i] = timers[k] => i = k,
         IF timers = <<>> THEN entry[t] = NULL ELSE entry[t] \in Range(timers)
  PROVE  /\ TimersWith(t) \in Seq(Tasks)
         /\ \A i, k \in 1..Len(TimersWith(t)) : TimersWith(t)[i] = TimersWith(t)[k] => i = k
         /\ \A u : u \in Range(TimersWith(t)) <=> u = t \/ u \in Range(timers)
<1>1. timers \in Seq(Tasks) /\ DOMAIN timers = 1..Len(timers) /\ Len(timers) \in Nat
  BY DEF TimerTyped
<1>2. \A i \in 1..Len(timers) : timers[i] \in Range(timers) /\ timers[i] # t
  BY <1>1 DEF Range
<1>3. CASE timers = <<>>
  <2>1. TimersWith(t) = <<t>>
    BY <1>3 DEF TimersWith
  <2>2. <<t>> \in Seq(Tasks) /\ Len(<<t>>) = 1 /\ <<t>>[1] = t /\ DOMAIN <<t>> = {1}
    OBVIOUS
  <2>3. Range(<<t>>) = {t}
    BY <2>2 DEF Range
  <2>4. Range(timers) = {}
    BY <1>1, <1>3 DEF Range
  <2> QED
    BY <2>1, <2>2, <2>3, <2>4
<1>4. CASE timers # <<>>
  <2>1. entry[t] \in Range(timers)
    BY <1>4
  <2>2. entry[t] # NULL
    BY <1>1, <2>1, Bounds DEF Range
  <2> DEFINE i == CHOOSE j \in DOMAIN timers : timers[j] = entry[t]
             q == TimersWith(t)
  <2>3. i \in 1..Len(timers)
    <3>1. \E j \in DOMAIN timers : timers[j] = entry[t]
      BY <2>1 DEF Range
    <3> QED
      BY <1>1, <3>1
  <2>4. q = InsertAt(timers, i + 1, t)
    BY <2>1, <2>2, Zenon DEF TimersWith
  <2> HIDE DEF i
  <2>5. q \in Seq(Tasks) /\ Inserted(q, timers, i, t)
    <3>1. i \in 0..Len(timers)
      BY <2>3
    <3> HIDE DEF q
    <3> QED
      BY <1>1, <2>4, <3>1, InsertAtIs
  <2> HIDE DEF q
  <2>6. /\ Len(q) = Len(timers) + 1 /\ DOMAIN q = 1..Len(timers) + 1
        /\ \A j \in 1..Len(timers) + 1 :
             q[j] = IF j <= i THEN timers[j] ELSE IF j = i + 1 THEN t ELSE timers[j - 1]
    <3>1. DOMAIN q = 1..Len(q)
      BY <2>5
    <3> QED
      BY <2>5, <3>1 DEF Inserted
  <2>7. \A j \in 1..Len(timers) + 1 : j > i + 1 => j - 1 \in 1..Len(timers)
    BY <1>1, <2>3
  <2>8. \A j \in 1..Len(timers) + 1 : j <= i => j \in 1..Len(timers)
    BY <1>1, <2>3
  <2>9. \A j, k \in 1..Len(q) : q[j] = q[k] => j = k
    <3> SUFFICES ASSUME NEW j \in 1..Len(timers) + 1, NEW k \in 1..Len(timers) + 1, q[j] = q[k]
                 PROVE  j = k
      BY <2>6
    <3> QED
      BY <1>1, <1>2, <2>3, <2>6, <2>7, <2>8
  <2>10. ASSUME NEW u PROVE u \in Range(q) <=> u = t \/ u \in Range(timers)
    <3>1. ASSUME NEW j \in 1..Len(timers) + 1, q[j] = u PROVE u = t \/ u \in Range(timers)
      BY <1>1, <1>2, <2>3, <2>6, <2>7, <2>8, <3>1
    <3>2. t \in Range(q)
      <4>1. i + 1 \in 1..Len(timers) + 1 /\ q[i + 1] = t
        BY <1>1, <2>3, <2>6
      <4> QED
        BY <2>6, <4>1 DEF Range
    <3>3. ASSUME NEW j \in 1..Len(timers), timers[j] = u PROVE u \in Range(q)
      <4>1. CASE j <= i
        <5>1. j \in 1..Len(timers) + 1 /\ q[j] = u
          BY <1>1, <2>6, <3>3, <4>1
        <5> QED
          BY <2>6, <5>1 DEF Range
      <4>2. CASE ~(j <= i)
        <5>1. j + 1 \in 1..Len(timers) + 1 /\ ~(j + 1 <= i) /\ j + 1 # i + 1 /\ (j + 1) - 1 = j
          BY <1>1, <2>3, <4>2
        <5>2. q[j + 1] = u
          BY <2>6, <3>3, <5>1
        <5> QED
          BY <2>6, <5>1, <5>2 DEF Range
      <4> QED
        BY <4>1, <4>2
    <3> QED
      BY <1>1, <2>6, <3>1, <3>2, <3>3 DEF Range
  <2> QED
    BY <2>5, <2>9, <2>10 DEF q
<1> QED
  BY <1>3, <1>4

LEMMA AddTimerScheduled ==
  ASSUME Sane, NEW l, NEW s, NEW m, NEW ch, Scheduled(l, s, m, ch), NEW t \in Tasks, AddTimer(t)
  PROVE  Scheduled(l, s, m, ch)'
<1>1. /\ current = t /\ current' = t /\ pc[t] = "timer" /\ timers' = TimersWith(t)
      /\ UNCHANGED <<list, val, queue, qnext, left, op, stmt, place, hung>>
  BY DEF AddTimer, At, mutex
<1>2. t = s[1] /\ On(t, s, m) /\ ~Waits(ch, t) /\ t \notin Range(timers)
  BY <1>1, AtHead
<1>3. /\ pc'[t] = "suspend"
      /\ \A u \in Tasks \ {t} : pc'[u] = pc[u] /\ entry'[u] = entry[u]
  BY DEF AddTimer, Go, Forget, Sane, TaskTyped
<1>4. stmt[t] = 1
  BY <1>1 DEF Sane, Ready
<1>5. op[t] = "sleep" /\ ch[t] = <<>>
      /\ IF timers = <<>> THEN entry[t] = NULL ELSE entry[t] \in Range(timers)
  BY <1>1 DEF Scheduled, Local
<1>6. /\ timers' \in Seq(Tasks)
      /\ \A i, k \in 1..Len(timers') : timers'[i] = timers'[k] => i = k
      /\ \A u : u \in Range(timers') <=> u = t \/ u \in Range(timers)
  <2>1. \A i, k \in 1..Len(timers) : timers[i] = timers[k] => i = k
    BY DEF Scheduled, TimerInv
  <2> QED
    BY <1>1, <1>2, <1>5, <2>1, TimersWithIs DEF Sane
<1>7. misplaced' = {timers'[i] : i \in {j \in DOMAIN timers' :
                     \E k \in DOMAIN timers' : k > j /\ left[timers'[k]] < left[timers'[j]]}}
                  \union misplaced
  BY Zenon DEF AddTimer
<1>8. ListInv(l, s, m)'
  BY <1>1, <1>3, <1>4, ListStands DEF Scheduled
<1>9. ChainInv(ch)'
  BY <1>1, ChainsStand DEF Scheduled
<1>10. MutexInv'
  BY <1>1, <1>3, MutexStands DEF Scheduled
<1>11. TimerInv'
  <2>1. ASSUME NEW i \in 1..Len(timers'), NEW k \in 1..Len(timers'),
               i < k, left[timers'[k]] < left[timers'[i]]
        PROVE  timers'[i] \in misplaced'
    <3>1. i \in DOMAIN timers' /\ k \in DOMAIN timers' /\ k > i
      BY <1>6, <2>1
    <3> QED
      BY <1>7, <2>1, <3>1
  <2> QED
    BY <1>1, <1>6, <2>1 DEF TimerInv
<1>12. Whereabouts(t, ch, s, m)'
  BY <1>1, <1>2, <1>3, <1>5, <1>6 DEF Whereabouts, Away, Leaving
<1>13. Local(t, ch)'
  BY <1>3, <1>5 DEF Local
<1>14. \A u \in Tasks \ {t} : Stands(u, s, m, ch, s, m, ch)
  <2>1. misplaced \subseteq misplaced'
    BY <1>7
  <2> QED
    BY <1>1, <1>3, <1>6, <2>1 DEF Stands
<1> QED
  BY <1>1, <1>8, <1>9, <1>10, <1>11, <1>12, <1>13, <1>14, StepScheduled

\* Within zrt_suspend, and after its last statement.
LEMMA SuspendScheduled ==
  ASSUME Sane, NEW l, NEW s, NEW m, NEW ch, Scheduled(l, s, m, ch), NEW t \in Tasks, Suspend(t)
  PROVE  \E l2, s2, m2 : Scheduled(l2, s2, m2, ch)'
<1>1. /\ current = t /\ current' = t /\ pc[t] = "suspend"
      /\ list' = SuspendStatement(list, t, stmt[t])
      /\ UNCHANGED <<val, queue, qnext, timers, left, misplaced, op, entry, place, hung>>
  BY DEF Suspend, At, mutex, sleep
<1>2. t = s[1] /\ On(t, s, m) /\ m # 1
  BY <1>1, AtHead
<1>3. /\ pc'[t] = IF stmt[t] = 5 THEN "schedule" ELSE "suspend"
      /\ stmt[t] \in 1..5 /\ stmt'[t] = IF stmt[t] = 5 THEN 1 ELSE stmt[t] + 1
      /\ \A u \in Tasks \ {t} : pc'[u] = pc[u]
  BY DEF Suspend, Go, Sane, TaskTyped
<1>4. list = Suspending(l, t, stmt[t]) /\ Sorted(l, s, m)
  BY <1>1 DEF Scheduled, ListInv, Doing
<1>5. ChainInv(ch)'
  BY <1>1, ChainsStand DEF Scheduled
<1>6. MutexInv'
  BY <1>1, <1>3, MutexStands DEF Scheduled
<1>7. TimerInv'
  BY <1>1 DEF Scheduled, TimerInv
<1>8. Whereabouts(t, ch, s, m) /\ ch[t] = <<>>
  BY <1>1 DEF Scheduled, Local
<1>9. Local(t, ch)'
  BY <1>3, <1>8 DEF Local
<1>10. CASE stmt[t] # 5
  <2>1. ListInv(l, s, m)'
    <3>1. stmt[t] \in 1..4
      BY <1>3, <1>10
    <3>2. list' = Suspending(l, t, stmt[t] + 1)
      BY <1>1, <1>4, <3>1, SuspendingIs
    <3> QED
      BY <1>1, <1>2, <1>3, <1>4, <1>10, <3>2 DEF ListInv, Doing
  <2>2. Whereabouts(t, ch, s, m)'
    BY <1>1, <1>3, <1>8, <1>10 DEF Whereabouts, Away, Leaving
  <2>3. \A u \in Tasks \ {t} : Stands(u, s, m, ch, s, m, ch)
    BY <1>1, <1>3 DEF Stands
  <2>4. Scheduled(l, s, m, ch)'
    BY <1>1, <1>5, <1>6, <1>7, <1>9, <2>1, <2>2, <2>3, StepScheduled
  <2> QED
    BY <2>4
<1>11. CASE stmt[t] = 5
  <2> DEFINE s2 == Without(s, m, 1)
             m2 == m - 1
  <2>a. PICK l2 : l2 = list'
    OBVIOUS
  <2>1. Sorted(l2, s2, m2)
    BY <2>a, <1>1, <1>2, <1>4, <1>11, SuspendSorted
  <2>2. \A n : On(n, s2, m2) <=> On(n, s, m) /\ n # t
    <3>1. /\ m \in Nat \ {0} /\ 1 \in 1..m - 1 /\ s \in [1..m -> Nodes]
          /\ \A k, h \in 1..m : s[k] = s[h] => k = h
      BY <1>2, <1>4 DEF Sorted, Linked, Strung
    <3> QED
      BY <1>2, <3>1, OnWithout
  <2> HIDE DEF s2, m2
  <2>3. ListInv(l2, s2, m2)'
    <3>1. /\ Doing("schedule")'
          /\ ~Doing("suspend")' /\ ~Doing("insert")' /\ ~Doing("switch")'
      BY <1>1, <1>3, <1>11 DEF Doing
    <3>2. ~On(current', s2, m2)
      BY <1>1, <2>2
    <3> QED
      BY <2>a, <2>1, <3>1, <3>2 DEF ListInv
  <2>4. Whereabouts(t, ch, s2, m2)'
    BY <1>1, <1>3, <1>8, <1>11, <2>2 DEF Whereabouts, Away, Leaving
  <2>5. \A u \in Tasks \ {t} : Stands(u, s, m, ch, s2, m2, ch)
    BY <1>1, <1>3, <2>2 DEF Stands
  <2>6. Scheduled(l2, s2, m2, ch)'
    BY <1>1, <1>5, <1>6, <1>7, <1>9, <2>3, <2>4, <2>5, StepScheduled
  <2> QED
    BY <2>6
<1> QED
  BY <1>10, <1>11

LEMMA ScheduleScheduled ==
  ASSUME Sane, NEW l, NEW s, NEW m, NEW ch, Scheduled(l, s, m, ch), NEW t \in Tasks, Schedule(t)
  PROVE  ~hung' /\ \E l2, s2, m2 : Scheduled(l2, s2, m2, ch)'
<1> DEFINE p == PickTask(list, t)
<1>1. /\ current = t /\ current' = t /\ pc[t] = "schedule"
      /\ list' = p.list /\ place' = [place EXCEPT ![t] = p.task] /\ hung' = ~p.ok
      /\ UNCHANGED <<val, queue, qnext, timers, left, misplaced, op, entry, stmt>>
  BY DEF Schedule, At, mutex, sleep
<1>2. /\ pc'[t] = "switch" /\ place'[t] = p.task
      /\ \A u \in Tasks \ {t} : pc'[u] = pc[u]
  <2> HIDE DEF p
  <2> QED
    BY <1>1 DEF Schedule, Go, Sane, TaskTyped
<1>3. list = l /\ Sorted(l, s, m) /\ t \in Nodes
  BY <1>1, Bounds DEF Scheduled, ListInv, Doing
<1>4. /\ PickTask(l, t).ok
      /\ \E u : /\ Sorted(PickTask(l, t).list, u, m)
                /\ \A n : On(n, u, m) <=> On(n, s, m)
                /\ PickTask(l, t).task = u[1]
  BY <1>3, PickSorted
<1>a. PICK l2 : l2 = p.list
  OBVIOUS
<1>5. PICK s2 : Sorted(l2, s2, m) /\ (\A n : On(n, s2, m) <=> On(n, s, m)) /\ p.task = s2[1]
  BY <1>a, <1>3, <1>4
<1>6. ~hung'
  BY <1>1, <1>3, <1>4
<1> HIDE DEF p
<1>7. ListInv(l2, s2, m)'
  <2>1. Doing("switch")' /\ ~Doing("suspend")' /\ ~Doing("insert")'
    BY <1>1, <1>2 DEF Doing
  <2>2. Sorted(l2, s2, m) /\ list' = l2 /\ place'[current'] = s2[1]
    BY <1>1, <1>2, <1>5, <1>a
  <2> QED
    BY <2>1, <2>2 DEF ListInv
<1>8. ChainInv(ch)'
  BY <1>1, ChainsStand DEF Scheduled
<1>9. MutexInv'
  BY <1>1, <1>2, MutexStands DEF Scheduled
<1>10. TimerInv'
  BY <1>1 DEF Scheduled, TimerInv
<1>11. Whereabouts(t, ch, s, m) /\ ch[t] = <<>>
  BY <1>1 DEF Scheduled, Local
<1>12. Local(t, ch)'
  BY <1>2, <1>11 DEF Local
<1>13. Whereabouts(t, ch, s2, m)'
  BY <1>1, <1>2, <1>5, <1>11 DEF Whereabouts, Away, Leaving
<1>14. \A u \in Tasks \ {t} : Stands(u, s, m, ch, s2, m, ch)
  BY <1>1, <1>2, <1>5 DEF Stands
<1>15. Scheduled(l2, s2, m, ch)'
  BY <1>1, <1>7, <1>8, <1>9, <1>10, <1>12, <1>13, <1>14, StepScheduled
<1> QED
  BY <1>6, <1>15

LEMMA SwitchScheduled ==
  ASSUME Sane, NEW l, NEW s, NEW m, NEW ch, Scheduled(l, s, m, ch), NEW t \in Tasks, Switch(t)
  PROVE  Scheduled(l, s, m, ch)'
<1>1. /\ current = t /\ pc[t] = "switch" /\ current' = place[t]
      /\ UNCHANGED <<list, val, queue, qnext, timers, left, misplaced, op, entry, stmt, hung>>
  BY DEF Switch, At, mutex, sleep
<1>2. /\ pc'[t] = "left" /\ \A u \in Tasks \ {t} : pc'[u] = pc[u]
  BY DEF Switch, Go, Sane, TaskTyped
<1>3. list = l /\ Sorted(l, s, m) /\ current' = s[1]
  BY <1>1 DEF Scheduled, ListInv, Doing
<1>4. \A u \in Tasks : ~Exposed(u)'
  BY <1>1, <1>2 DEF Scheduled, Exposed
<1>5. ListInv(l, s, m)'
  <2>1. ~Doing("suspend")' /\ ~Doing("insert")' /\ ~Doing("switch")'
    BY <1>4 DEF Doing, Exposed
  <2> QED
    BY <1>1, <1>3, <2>1 DEF ListInv
<1>6. ChainInv(ch)'
  BY <1>1, ChainsStand DEF Scheduled
<1>7. MutexInv'
  BY <1>1, <1>2, MutexStands DEF Scheduled
<1>8. TimerInv'
  BY <1>1 DEF Scheduled, TimerInv
<1>9. Whereabouts(t, ch, s, m) /\ ch[t] = <<>>
  BY <1>1 DEF Scheduled, Local
<1>10. Whereabouts(t, ch, s, m)' /\ Local(t, ch)'
  BY <1>1, <1>2, <1>9 DEF Whereabouts, Away, Leaving, Local
<1>11. ASSUME NEW u \in Tasks \ {t} PROVE Whereabouts(u, ch, s, m)' /\ Local(u, ch)'
  <2>1. Whereabouts(u, ch, s, m) /\ Local(u, ch) /\ ~Exposed(u)
    BY <1>1 DEF Scheduled
  <2>2. Stands(u, s, m, ch, s, m, ch)
    BY <1>1, <1>2 DEF Stands
  <2> QED
    BY <2>1, <2>2, OtherStands
<1> QED
  BY <1>4, <1>5, <1>6, <1>7, <1>8, <1>10, <1>11 DEF Scheduled

LEMMA ArriveScheduled ==
  ASSUME Sane, NEW l, NEW s, NEW m, NEW ch, Scheduled(l, s, m, ch), NEW t \in Tasks, Arrive(t)
  PROVE  Scheduled(l, s, m, ch)'
<1>1. /\ pc[t] = "left"
      /\ UNCHANGED <<list, current, val, queue, qnext, timers, left, misplaced, op, entry, stmt,
                     place, hung>>
  BY DEF Arrive, mutex, sleep
<1>2. /\ pc'[t] \in {"retry", "run"} /\ \A u \in Tasks \ {t} : pc'[u] = pc[u]
  BY DEF Arrive, Go, Sane, TaskTyped
<1>3. \A u \in Tasks : (Exposed(u)' <=> Exposed(u))
  BY <1>1, <1>2 DEF Exposed
<1>4. \A here \in {"suspend", "insert", "switch", "schedule"} : Doing(here)' <=> Doing(here)
  BY <1>1, <1>2 DEF Doing
<1>5. ListInv(l, s, m)'
  <2>1. ListInv(l, s, m)
    BY DEF Scheduled
  <2>2. /\ Doing("suspend")' <=> Doing("suspend")
        /\ Doing("insert")' <=> Doing("insert")
        /\ Doing("switch")' <=> Doing("switch")
        /\ Doing("schedule")' <=> Doing("schedule")
    BY <1>4
  <2> QED
    BY <1>1, <2>1, <2>2 DEF ListInv
<1>6. ChainInv(ch)'
  BY <1>1, ChainsStand DEF Scheduled
<1>7. MutexInv'
  BY <1>1, <1>2, MutexStands DEF Scheduled
<1>8. TimerInv'
  BY <1>1 DEF Scheduled, TimerInv
<1>9. Whereabouts(t, ch, s, m) /\ ch[t] = <<>>
  BY <1>1 DEF Scheduled, Local
<1>10. Whereabouts(t, ch, s, m)' /\ Local(t, ch)'
  BY <1>1, <1>2, <1>9 DEF Whereabouts, Away, Leaving, Local
<1>11. ASSUME NEW u \in Tasks \ {t} PROVE Whereabouts(u, ch, s, m)' /\ Local(u, ch)'
  <2>1. Whereabouts(u, ch, s, m) /\ Local(u, ch)
    BY DEF Scheduled
  <2>2. UNCHANGED <<current, timers, misplaced, op, qnext, queue, entry, val>> /\ pc'[u] = pc[u]
    BY <1>1, <1>2
  <2> QED
    BY <1>1, <2>1, <2>2 DEF Whereabouts, Away, Leaving, Local
<1>12. \A u \in Tasks : u # current' => ~Exposed(u)'
  BY <1>1, <1>3 DEF Scheduled
<1> QED
  BY <1>5, <1>6, <1>7, <1>8, <1>10, <1>11, <1>12 DEF Scheduled

LEMMA CreateScheduled ==
  ASSUME Sane, NEW l, NEW s, NEW m, NEW ch, Scheduled(l, s, m, ch), NEW t \in Tasks,
         NEW new \in Tasks, Create(t, new)
  PROVE  ~hung' /\ \E l2, s2, m2 : Scheduled(l2, s2, m2, ch)'
<1>1. /\ current = t /\ current' = t /\ pc[t] \in {"run", "critical"} /\ pc[new] = "absent"
      /\ UNCHANGED <<val, queue, qnext, timers, left, misplaced, op, entry, stmt, place>>
  BY DEF Create, At, mutex, sleep
<1>2. pc'[new] = "run" /\ \A u \in Tasks \ {new} : pc'[u] = pc[u]
  BY DEF Create, Go, Sane, TaskTyped
<1>3. t = s[1] /\ t # new /\ m # 1
  BY <1>1, AtHead
<1>4. list = l /\ Sorted(l, s, m)
  BY <1>1 DEF Scheduled, ListInv, Doing
<1>5. ~On(new, s, m) /\ op[new] = "none" /\ ~Waits(ch, new) /\ new \notin Range(timers)
      /\ ch[new] = <<>>
  BY <1>1 DEF Scheduled, Whereabouts, Local
<1>6. PICK j : Fits(s, m, new, j) /\ PlaceFor(l, new) = s[j]
  BY <1>4, PlaceIs DEF Sorted, Linked
<1>7. s[j] # NULL
  BY <1>4, <1>6, Bounds DEF Fits, Sorted, Linked, Strung
<1>8. ~hung' /\ list' = InsertBefore(l, new, s[j])
  BY <1>4, <1>6, <1>7 DEF Create
<1>9. PICK s2 : /\ Sorted(InsertBefore(l, new, s[j]), s2, m + 1)
                /\ \A n : On(n, s2, m + 1) <=> n = new \/ On(n, s, m)
                /\ m # 1 => s2[1] = s[1]
  BY <1>4, <1>5, <1>6, InsertSorted
<1>10. PICK l2 : l2 = InsertBefore(l, new, s[j])
  OBVIOUS
<1>11. PICK m2 : m2 = m + 1
  OBVIOUS
<1>12. /\ Sorted(l2, s2, m2) /\ list' = l2 /\ current' = s2[1]
       /\ \A n : On(n, s2, m2) <=> n = new \/ On(n, s, m)
  BY <1>1, <1>3, <1>8, <1>9, <1>10, <1>11
<1>13. ListInv(l2, s2, m2)'
  <2>1. ~Doing("suspend")' /\ ~Doing("insert")' /\ ~Doing("switch")'
    BY <1>1, <1>2, <1>3 DEF Doing
  <2> QED
    BY <1>12, <2>1 DEF ListInv
<1>14. ChainInv(ch)'
  BY <1>1, ChainsStand DEF Scheduled
<1>15. MutexInv'
  BY <1>1, <1>2, MutexStands DEF Scheduled
<1>16. TimerInv'
  BY <1>1 DEF Scheduled, TimerInv
<1>17. ASSUME NEW u \in Tasks \ {new}
       PROVE  Whereabouts(u, ch, s2, m2)' /\ Local(u, ch)' /\ (u # current' => ~Exposed(u)')
  <2>1. Whereabouts(u, ch, s, m) /\ Local(u, ch) /\ ~Exposed(u)
    BY <1>1 DEF Scheduled, Exposed
  <2>2. Stands(u, s, m, ch, s2, m2, ch)
    BY <1>1, <1>2, <1>12 DEF Stands
  <2> QED
    BY <2>1, <2>2, OtherStands
<1>18. Whereabouts(new, ch, s2, m2)'
  <2>1. On(new, s2, m2) /\ ~Waits(ch, new) /\ new \notin Range(timers') /\ pc'[new] = "run"
    BY <1>1, <1>2, <1>5, <1>12
  <2> QED
    BY <2>1 DEF Whereabouts, Away, Leaving
<1>19. Local(new, ch)' /\ ~Exposed(new)'
  BY <1>2, <1>5 DEF Local, Exposed
<1> QED
  BY <1>8, <1>13, <1>14, <1>15, <1>16, <1>17, <1>18, <1>19 DEF Scheduled

LEMMA UnlockScheduled ==
  ASSUME Sane, NEW l, NEW s, NEW m, NEW ch, Scheduled(l, s, m, ch), NEW t \in Tasks, Unlock(t)
  PROVE  Scheduled(l, s, m, ch)'
<1>1. /\ current = t /\ current' = t /\ pc[t] = "critical" /\ val' = 1
      /\ UNCHANGED <<list, queue, qnext, timers, left, misplaced, stmt, entry, place, hung>>
  BY DEF Unlock, At, sleep
<1>2. t = s[1] /\ On(t, s, m) /\ ~Waits(ch, t) /\ t \notin Range(timers)
  BY <1>1, AtHead
<1>3. pc'[t] = "take" /\ \A u \in Tasks \ {t} : pc'[u] = pc[u] /\ op'[u] = op[u]
  BY DEF Unlock, Go, Sane, TaskTyped
<1>4. ListInv(l, s, m)'
  BY <1>1, <1>3, ListStands DEF Scheduled
<1>5. ChainInv(ch)'
  BY <1>1, ChainsStand DEF Scheduled
<1>6. MutexInv'
  BY <1>1, <1>3 DEF MutexInv
<1>7. TimerInv'
  BY <1>1 DEF Scheduled, TimerInv
<1>8. Whereabouts(t, ch, s, m)'
  BY <1>1, <1>2, <1>3, RunningHere
<1>9. Local(t, ch)'
  <2>1. ch[t] = <<>>
    BY <1>1 DEF Scheduled, Local
  <2> QED
    BY <1>3, <2>1 DEF Local
<1>10. \A u \in Tasks \ {t} : Stands(u, s, m, ch, s, m, ch)
  BY <1>1, <1>3 DEF Stands
<1> QED
  BY <1>1, <1>4, <1>5, <1>6, <1>7, <1>8, <1>9, <1>10, StepScheduled

LEMMA TakeQueueScheduled ==
  ASSUME Sane, NEW l, NEW s, NEW m, NEW ch, Scheduled(l, s, m, ch), NEW t \in Tasks, TakeQueue(t)
  PROVE  Scheduled(l, s, m, ch)'
<1>1. /\ current = t /\ current' = t /\ pc[t] = "take"
      /\ UNCHANGED <<list, val, queue, qnext, timers, left, misplaced, op, stmt, place, hung>>
  BY DEF TakeQueue, At, sleep, mutex
<1>2. t = s[1] /\ On(t, s, m) /\ ~Waits(ch, t) /\ t \notin Range(timers)
  BY <1>1, AtHead
<1>3. /\ pc'[t] = "empty" /\ entry'[t] = queue
      /\ \A u \in Tasks \ {t} : pc'[u] = pc[u] /\ entry'[u] = entry[u]
  BY DEF TakeQueue, Go, Sane, TaskTyped
<1>4. ListInv(l, s, m)'
  BY <1>1, <1>3, ListStands DEF Scheduled
<1>5. ChainInv(ch)'
  BY <1>1, ChainsStand DEF Scheduled
<1>6. MutexInv'
  <2>1. \A u \in Tasks : pc[u] = "critical" => pc'[u] = "critical"
    BY <1>1, <1>3
  <2> QED
    BY <1>1, <1>3, <2>1 DEF Scheduled, MutexInv
<1>7. TimerInv'
  BY <1>1 DEF Scheduled, TimerInv
<1>8. Whereabouts(t, ch, s, m)'
  BY <1>1, <1>2, <1>3, RunningHere
<1>9. Local(t, ch)'
  <2>1. ch[t] = <<>>
    BY <1>1 DEF Scheduled, Local
  <2> QED
    BY <1>1, <1>3, <2>1 DEF Local
<1>10. \A u \in Tasks \ {t} : Stands(u, s, m, ch, s, m, ch)
  BY <1>1, <1>3 DEF Stands
<1> QED
  BY <1>1, <1>4, <1>5, <1>6, <1>7, <1>8, <1>9, <1>10, StepScheduled

\* The wait queue becomes the chain of t.
Taken(ch, t) == [ch EXCEPT ![t] = ch[Idle], ![Idle] = <<>>]

LEMMA ChainsTaken ==
  ASSUME NEW ch, ChainInv(ch), NEW t \in Tasks, ch[t] = <<>>, qnext' = qnext, queue' = NULL
  PROVE  /\ ChainInv(Taken(ch, t))' /\ Taken(ch, t)[t] = ch[Idle]
         /\ \A u \in Tasks \ {t} : Taken(ch, t)[u] = ch[u]
         /\ \A u : Waits(Taken(ch, t), u) <=> Waits(ch, u)
<1> DEFINE c == Taken(ch, t)
<1>1. ch \in [Nodes -> Seq(Tasks)] /\ Idle \in Nodes /\ t \in Nodes /\ t # Idle
  BY Bounds DEF ChainInv
<1>2. <<>> \in Seq(Tasks) /\ Len(<<>>) = 0
  OBVIOUS
<1>3. /\ c \in [Nodes -> Seq(Tasks)] /\ c[t] = ch[Idle] /\ c[Idle] = <<>>
      /\ \A r \in Nodes : r # t /\ r # Idle => c[r] = ch[r]
  BY <1>1, <1>2 DEF Taken
<1> HIDE DEF c
<1> DEFINE Was(r) == IF r = t THEN Idle ELSE r
<1>4. \A r \in Nodes : c[r] # <<>> => c[r] = ch[Was(r)] /\ Was(r) \in Nodes /\ r # Idle
  BY <1>1, <1>3
<1>5. \A r \in Nodes : \A i \in 1..Len(c[r]) : c[r] # <<>>
  BY <1>2
<1>6. \A r, v \in Nodes : r # Idle /\ v # Idle /\ Was(r) = Was(v) => r = v
  BY <1>1
<1> HIDE DEF Was
<1>7. ASSUME NEW r \in Nodes, NEW i \in 1..Len(c[r])
      PROVE  qnext[c[r][i]] = IF i = Len(c[r]) THEN NULL ELSE c[r][i + 1]
  BY <1>4, <1>5 DEF ChainInv
<1>8. ASSUME NEW r \in Nodes, NEW v \in Nodes, NEW i \in 1..Len(c[r]), NEW j \in 1..Len(c[v]),
             c[r][i] = c[v][j]
      PROVE  r = v /\ i = j
  <2>1. /\ Was(r) \in Nodes /\ Was(v) \in Nodes /\ c[r] = ch[Was(r)] /\ c[v] = ch[Was(v)]
        /\ r # Idle /\ v # Idle
    BY <1>4, <1>5
  <2>2. Was(r) = Was(v) /\ i = j
    BY <1>8, <2>1 DEF ChainInv
  <2> QED
    BY <1>6, <2>1, <2>2
<1>9. queue' = First(c[Idle])
  BY <1>3 DEF First
<1>10. ChainInv(c)'
  BY <1>3, <1>7, <1>8, <1>9 DEF ChainInv
<1>11. ASSUME NEW u PROVE Waits(c, u) <=> Waits(ch, u)
  <2>1. ASSUME Waits(c, u) PROVE Waits(ch, u)
    BY <1>4, <1>5, <2>1 DEF Waits
  <2>2. ASSUME NEW r \in Nodes, NEW i \in 1..Len(ch[r]), ch[r][i] = u PROVE Waits(c, u)
    <3>1. r # t
      BY <1>2, <2>2
    <3>2. \E v \in Nodes : c[v] = ch[r]
      BY <1>1, <1>3, <3>1
    <3> QED
      BY <2>2, <3>2 DEF Waits
  <2> QED
    BY <2>1, <2>2 DEF Waits
<1>12. /\ c[t] = ch[Idle] /\ \A u \in Tasks \ {t} : c[u] = ch[u]
  BY <1>3, Bounds
<1> QED
  BY <1>10, <1>11, <1>12 DEF c

LEMMA EmptyQueueScheduled ==
  ASSUME Sane, NEW l, NEW s, NEW m, NEW ch, Scheduled(l, s, m, ch), NEW t \in Tasks, EmptyQueue(t)
  PROVE  Scheduled(l, s, m, Taken(ch, t))'
<1>1. /\ current = t /\ current' = t /\ pc[t] = "empty" /\ queue' = NULL
      /\ UNCHANGED <<list, val, qnext, timers, left, misplaced, op, stmt, entry, place, hung>>
  BY DEF EmptyQueue, At, sleep
<1>2. t = s[1] /\ On(t, s, m) /\ ~Waits(ch, t) /\ t \notin Range(timers)
  BY <1>1, AtHead
<1>3. pc'[t] = "wake" /\ \A u \in Tasks \ {t} : pc'[u] = pc[u]
  BY DEF EmptyQueue, Go, Sane, TaskTyped
<1>4. ch[t] = <<>> /\ entry[t] = queue /\ queue = First(ch[Idle])
  BY <1>1 DEF Scheduled, Local, ChainInv
<1>5. ListInv(l, s, m)'
  BY <1>1, <1>3, ListStands DEF Scheduled
<1>6. /\ ChainInv(Taken(ch, t))' /\ Taken(ch, t)[t] = ch[Idle]
      /\ \A u \in Tasks \ {t} : Taken(ch, t)[u] = ch[u]
      /\ \A u : Waits(Taken(ch, t), u) <=> Waits(ch, u)
  BY <1>1, <1>4, ChainsTaken DEF Scheduled
<1>7. MutexInv'
  <2>1. \A u \in Tasks : pc[u] = "critical" => pc'[u] = "critical"
    BY <1>1, <1>3
  <2> QED
    BY <1>1, <2>1 DEF Scheduled, MutexInv
<1>8. TimerInv'
  BY <1>1 DEF Scheduled, TimerInv
<1>9. Whereabouts(t, Taken(ch, t), s, m)'
  BY <1>1, <1>2, <1>3, <1>6, RunningHere
<1>10. Local(t, Taken(ch, t))'
  BY <1>1, <1>3, <1>4, <1>6 DEF Local
<1>11. \A u \in Tasks \ {t} : Stands(u, s, m, ch, s, m, Taken(ch, t))
  BY <1>1, <1>3, <1>6 DEF Stands
<1> QED
  BY <1>1, <1>5, <1>6, <1>7, <1>8, <1>9, <1>10, <1>11, StepScheduled

\* The first of a chain, and NULL if there is none.
LEMMA FirstIs ==
  ASSUME NEW q \in Seq(Tasks)
  PROVE  /\ First(q) = NULL <=> q = <<>>
         /\ q # <<>> => First(q) = q[1] /\ 1 \in 1..Len(q) /\ q[1] \in Tasks
<1>1. q # <<>> => 1 \in 1..Len(q) /\ q[1] \in Tasks
  OBVIOUS
<1> QED
  BY <1>1, Bounds DEF First

LEMMA WakeScheduled ==
  ASSUME Sane, NEW l, NEW s, NEW m, NEW ch, Scheduled(l, s, m, ch), NEW t \in Tasks, Wake(t)
  PROVE  ~hung' /\ Scheduled(l, s, m, ch)'
<1>1. /\ current = t /\ current' = t /\ pc[t] = "wake" /\ ~hung
      /\ UNCHANGED <<list, val, queue, qnext, timers, left, misplaced, op, stmt, entry>>
  BY DEF Wake, At, sleep, mutex
<1>2. t = s[1] /\ On(t, s, m) /\ ~Waits(ch, t) /\ t \notin Range(timers)
  BY <1>1, AtHead
<1>3. pc'[t] \in {"run", "schedule", "insert"} /\ \A u \in Tasks \ {t} : pc'[u] = pc[u]
  BY DEF Wake, Go, Sane, TaskTyped
<1>4. ChainInv(ch)'
  BY <1>1, ChainsStand DEF Scheduled
<1>5. MutexInv'
  BY <1>1, <1>3, MutexStands DEF Scheduled
<1>6. TimerInv'
  BY <1>1 DEF Scheduled, TimerInv
<1>7. Whereabouts(t, ch, s, m)'
  BY <1>1, <1>2, <1>3, RunningHere
<1>8. entry[t] = First(ch[t]) /\ ch[t] \in Seq(Tasks)
  BY <1>1, Bounds DEF Scheduled, Local, ChainInv
<1>9. \A u \in Tasks \ {t} : Stands(u, s, m, ch, s, m, ch)
  BY <1>1, <1>3 DEF Stands
<1>10. list = l /\ Sorted(l, s, m) /\ stmt[t] = 1
  BY <1>1 DEF Scheduled, ListInv, Doing, Sane, Ready
<1>11. CASE entry[t] = NULL
  <2>1. pc'[t] \in {"run", "schedule"} /\ hung' = hung
    BY <1>11 DEF Wake, Go, Sane, TaskTyped
  <2>2. ListInv(l, s, m)'
    BY <1>1, <2>1, ListStands DEF Scheduled
  <2>3. ch[t] = <<>>
    BY <1>8, <1>11, FirstIs
  <2>4. Local(t, ch)'
    BY <2>1, <2>3 DEF Local
  <2> QED
    BY <1>1, <1>4, <1>5, <1>6, <1>7, <1>9, <2>1, <2>2, <2>4, StepScheduled
<1>12. CASE entry[t] # NULL
  <2>1. entry[t] \in Tasks
    BY <1>12 DEF Sane, TaskTyped, Entries
  <2>2. pc'[t] = "insert" /\ place'[t] = PlaceFor(list, entry[t]) /\ hung' = (place'[t] = NULL)
    BY <1>12 DEF Wake, Go, Sane, TaskTyped
  <2>3. PICK j : Fits(s, m, entry[t], j) /\ PlaceFor(l, entry[t]) = s[j]
    BY <1>10, <2>1, PlaceIs DEF Sorted, Linked
  <2>4. s[j] \in Nodes
    BY <1>10, <2>3 DEF Sorted, Linked, Strung, Fits
  <2>5. ~hung'
    BY <1>10, <2>2, <2>3, <2>4, Bounds
  <2>6. ListInv(l, s, m)'
    <3>1. /\ Doing("insert")' /\ ~Doing("suspend")' /\ ~Doing("switch")'
          /\ current' = s[1]
      BY <1>1, <1>2, <2>2 DEF Doing
    <3>2. Inserting(l, entry[t], place'[t], 1) = l
      BY InsertingIs
    <3>3. list' = Inserting(l, entry'[current'], place'[current'], stmt'[current'])
      BY <1>1, <1>10, <3>2
    <3>4. \E k : Fits(s, m, entry'[current'], k) /\ place'[current'] = s[k]
      BY <1>1, <1>10, <2>2, <2>3
    <3> QED
      BY <1>10, <3>1, <3>3, <3>4 DEF ListInv
  <2>7. Local(t, ch)'
    BY <1>1, <1>8, <2>2 DEF Local
  <2> QED
    BY <1>1, <1>4, <1>5, <1>6, <1>7, <1>9, <2>5, <2>6, <2>7, StepScheduled
<1> QED
  BY <1>11, <1>12

LEMMA NextEntryScheduled ==
  ASSUME Sane, NEW l, NEW s, NEW m, NEW ch, Scheduled(l, s, m, ch), NEW t \in Tasks, NextEntry(t)
  PROVE  ~hung' /\ Scheduled(l, s, m, ch)'
<1>1. /\ current = t /\ current' = t /\ pc[t] = "next" /\ hung' = (op[entry[t]] # "lock")
      /\ UNCHANGED <<list, val, queue, qnext, timers, left, misplaced, op, stmt, place>>
  BY DEF NextEntry, At, sleep, mutex
<1>2. t = s[1] /\ On(t, s, m) /\ ~Waits(ch, t) /\ t \notin Range(timers)
  BY <1>1, AtHead
<1>3. op[entry[t]] = "lock" /\ qnext[entry[t]] = First(ch[t])
  BY <1>1 DEF Scheduled, Local
<1>4. /\ pc'[t] = "wake" /\ entry'[t] = First(ch[t])
      /\ \A u \in Tasks \ {t} : pc'[u] = pc[u] /\ entry'[u] = entry[u]
  BY <1>3 DEF NextEntry, Go, Sane, TaskTyped
<1>5. ListInv(l, s, m)'
  BY <1>1, <1>4, ListStands DEF Scheduled
<1>6. ChainInv(ch)'
  BY <1>1, ChainsStand DEF Scheduled
<1>7. MutexInv'
  BY <1>1, <1>4, MutexStands DEF Scheduled
<1>8. TimerInv'
  BY <1>1 DEF Scheduled, TimerInv
<1>9. Whereabouts(t, ch, s, m)'
  BY <1>1, <1>2, <1>4, RunningHere
<1>10. Local(t, ch)'
  BY <1>1, <1>4 DEF Local
<1>11. \A u \in Tasks \ {t} : Stands(u, s, m, ch, s, m, ch)
  BY <1>1, <1>4 DEF Stands
<1>12. ~hung'
  BY <1>1, <1>3
<1> QED
  BY <1>1, <1>5, <1>6, <1>7, <1>8, <1>9, <1>10, <1>11, <1>12, StepScheduled

\* The chain of t without its first.
Popped(ch, t) == [ch EXCEPT ![t] = Tail(ch[t])]

LEMMA TailIs ==
  ASSUME NEW q \in Seq(Tasks), q # <<>>
  PROVE  /\ Tail(q) \in Seq(Tasks) /\ Len(q) \in Nat \ {0} /\ Len(Tail(q)) = Len(q) - 1
         /\ \A i \in 1..Len(q) - 1 : Tail(q)[i] = q[i + 1]
OBVIOUS

LEMMA ChainsPopped ==
  ASSUME NEW ch, ChainInv(ch), NEW t \in Tasks, ch[t] # <<>>, NEW x, x = First(ch[t]),
         qnext' = qnext, queue' = queue
  PROVE  /\ ChainInv(Popped(ch, t))' /\ qnext[x] = First(Popped(ch, t)[t])
         /\ \A u \in Tasks \ {t} : Popped(ch, t)[u] = ch[u]
         /\ \A u : Waits(Popped(ch, t), u) <=> Waits(ch, u) /\ u # x
<1> DEFINE c == Popped(ch, t)
           n == Len(ch[t])
<1>1. ch \in [Nodes -> Seq(Tasks)] /\ Idle \in Nodes /\ t \in Nodes /\ t # Idle
  BY Bounds DEF ChainInv
<1>2. ch[t] \in Seq(Tasks) /\ x = ch[t][1] /\ n \in Nat \ {0} /\ 1 \in 1..n
  BY <1>1, FirstIs, TailIs
<1>3. /\ c \in [Nodes -> Seq(Tasks)] /\ Len(c[t]) = n - 1
      /\ \A i \in 1..n - 1 : c[t][i] = ch[t][i + 1]
      /\ \A r \in Nodes \ {t} : c[r] = ch[r]
  <2>1. /\ Tail(ch[t]) \in Seq(Tasks) /\ Len(Tail(ch[t])) = n - 1
        /\ \A i \in 1..n - 1 : Tail(ch[t])[i] = ch[t][i + 1]
    BY <1>2, TailIs
  <2> DEFINE q == Tail(ch[t])
  <2>2. q \in Seq(Tasks) /\ Len(q) = n - 1 /\ \A i \in 1..n - 1 : q[i] = ch[t][i + 1]
    BY <2>1
  <2>3. c = [ch EXCEPT ![t] = q]
    BY DEF Popped
  <2> HIDE DEF q, c
  <2>4. c[t] = q /\ c \in [Nodes -> Seq(Tasks)] /\ \A r \in Nodes \ {t} : c[r] = ch[r]
    BY <1>1, <2>2, <2>3
  <2> QED
    BY <2>2, <2>4
<1> HIDE DEF c, n
<1> DEFINE Was(r, i) == IF r = t THEN i + 1 ELSE i
<1>4. \A r \in Nodes : \A i \in 1..Len(c[r]) :
        /\ Was(r, i) \in 1..Len(ch[r]) /\ c[r][i] = ch[r][Was(r, i)]
        /\ i = Len(c[r]) <=> Was(r, i) = Len(ch[r])
        /\ r = t => Was(r, i) # 1
  BY <1>1, <1>2, <1>3 DEF n
<1>5. ASSUME NEW r \in Nodes, NEW i \in 1..Len(c[r]), i # Len(c[r])
      PROVE  i + 1 \in 1..Len(c[r]) /\ Was(r, i + 1) = Was(r, i) + 1
  BY <1>2, <1>3, <1>5
<1>6. ASSUME NEW r \in Nodes, NEW i \in 1..Len(c[r])
      PROVE  qnext[c[r][i]] = IF i = Len(c[r]) THEN NULL ELSE c[r][i + 1]
  <2>1. c[r][i] = ch[r][Was(r, i)] /\ Was(r, i) \in 1..Len(ch[r])
    BY <1>4
  <2>2. qnext[ch[r][Was(r, i)]]
          = IF Was(r, i) = Len(ch[r]) THEN NULL ELSE ch[r][Was(r, i) + 1]
    <3> HIDE DEF Was
    <3> QED
      BY <2>1 DEF ChainInv
  <2>3. CASE i = Len(c[r])
    BY <1>4, <2>1, <2>2, <2>3
  <2>4. CASE i # Len(c[r])
    <3>1. i + 1 \in 1..Len(c[r]) /\ Was(r, i + 1) = Was(r, i) + 1
      BY <1>5, <2>4
    <3>2. c[r][i + 1] = ch[r][Was(r, i + 1)] /\ Was(r, i) # Len(ch[r])
      <4> HIDE DEF Was
      <4> QED
        BY <1>4, <2>4, <3>1
    <3> HIDE DEF Was
    <3> QED
      BY <2>1, <2>2, <2>4, <3>1, <3>2
  <2> QED
    BY <2>3, <2>4
<1>7. ASSUME NEW r \in Nodes, NEW v \in Nodes, NEW i \in 1..Len(c[r]), NEW j \in 1..Len(c[v]),
             c[r][i] = c[v][j]
      PROVE  r = v /\ i = j
  <2>1. r = v /\ Was(r, i) = Was(v, j)
    <3> HIDE DEF Was
    <3>1. /\ Was(r, i) \in 1..Len(ch[r]) /\ Was(v, j) \in 1..Len(ch[v])
          /\ ch[r][Was(r, i)] = ch[v][Was(v, j)]
      BY <1>4, <1>7
    <3> QED
      BY <3>1 DEF ChainInv
  <2> QED
    BY <2>1
<1>8. queue = First(c[Idle])
  BY <1>1, <1>3 DEF ChainInv
<1>9. ChainInv(c)'
  BY <1>3, <1>6, <1>7, <1>8 DEF ChainInv
<1>10. qnext[x] = First(c[t])
  <2>1. qnext[x] = IF 1 = n THEN NULL ELSE ch[t][1 + 1]
    <3>1. \A i \in 1..n : qnext[ch[t][i]] = IF i = n THEN NULL ELSE ch[t][i + 1]
      BY <1>1 DEF ChainInv, n
    <3> QED
      BY <1>2, <3>1
  <2>2. c[t] \in Seq(Tasks)
    BY <1>1, <1>3
  <2>3. CASE n = 1
    BY <1>3, <2>1, <2>2, <2>3 DEF First
  <2>4. CASE n # 1
    <3>1. c[t] # <<>> /\ 1 \in 1..n - 1
      BY <1>2, <1>3, <2>4
    <3> QED
      BY <1>3, <2>1, <2>4, <3>1 DEF First
  <2> QED
    BY <2>3, <2>4
<1>11. ASSUME NEW u PROVE Waits(c, u) <=> Waits(ch, u) /\ u # x
  <2>1. ASSUME NEW r \in Nodes, NEW i \in 1..Len(c[r]), c[r][i] = u
        PROVE  Waits(ch, u) /\ u # x
    <3>1. Was(r, i) \in 1..Len(ch[r]) /\ ch[r][Was(r, i)] = u /\ (r = t => Was(r, i) # 1)
      BY <1>4, <2>1
    <3> HIDE DEF Was
    <3>2. Waits(ch, u)
      BY <3>1 DEF Waits
    <3>3. u # x
      <4>1. u = x => r = t /\ Was(r, i) = 1
        BY <1>1, <1>2, <3>1 DEF ChainInv, n
      <4> QED
        BY <3>1, <4>1
    <3> QED
      BY <3>2, <3>3
  <2>2. ASSUME NEW r \in Nodes, NEW i \in 1..Len(ch[r]), ch[r][i] = u, u # x
        PROVE  Waits(c, u)
    <3>1. CASE r # t
      BY <1>3, <2>2, <3>1 DEF Waits
    <3>2. CASE r = t
      <4>1. i \in 2..n
        BY <1>2, <2>2, <3>2 DEF n
      <4>2. i - 1 \in 1..n - 1 /\ (i - 1) + 1 = i
        BY <1>2, <4>1
      <4>3. i - 1 \in 1..Len(c[t]) /\ c[t][i - 1] = u
        BY <1>3, <2>2, <3>2, <4>2
      <4> QED
        BY <1>1, <4>3 DEF Waits
    <3> QED
      BY <3>1, <3>2
  <2> QED
    BY <2>1, <2>2 DEF Waits
<1>12. \A u \in Tasks \ {t} : c[u] = ch[u]
  BY <1>3, Bounds
<1> QED
  BY <1>9, <1>10, <1>11, <1>12 DEF c

\* Within zrt_insertTask, and after its last statement.
LEMMA InsertScheduled ==
  ASSUME Sane, NEW l, NEW s, NEW m, NEW ch, Scheduled(l, s, m, ch), NEW t \in Tasks, Insert(t),
         ~hung
  PROVE  \E l2, s2, m2, ch2 : Scheduled(l2, s2, m2, ch2)'
<1>0. PICK x : x = entry[t]
  OBVIOUS
<1>1. /\ current = t /\ current' = t /\ pc[t] = "insert"
      /\ list' = InsertStatement(list, x, place[t], stmt[t])
      /\ UNCHANGED <<val, queue, qnext, timers, left, misplaced, op, entry, place, hung>>
  BY <1>0 DEF Insert, At, mutex, sleep
<1>2. t = s[1] /\ On(t, s, m) /\ m # 1 /\ ~Waits(ch, t) /\ t \notin Range(timers)
  BY <1>1, AtHead
<1>3. /\ stmt[t] \in 1..4 /\ x \in Tasks /\ x = First(ch[t]) /\ ch[t] \in Seq(Tasks)
  BY <1>0, <1>1, Bounds DEF Sane, Ready, Scheduled, Local, ChainInv
<1>4. /\ pc'[t] = IF stmt[t] = 4 THEN "next" ELSE "insert"
      /\ stmt'[t] = IF stmt[t] = 4 THEN 1 ELSE stmt[t] + 1
      /\ \A u \in Tasks \ {t} : pc'[u] = pc[u]
  BY DEF Insert, Go, Sane, TaskTyped
<1>5. /\ list = Inserting(l, x, place[t], stmt[t]) /\ Sorted(l, s, m) /\ m # 1
      /\ \E j : Fits(s, m, x, j) /\ place[t] = s[j]
  BY <1>0, <1>1, <1>2 DEF Scheduled, ListInv, Doing
<1>6. MutexInv'
  BY <1>1, <1>4, MutexStands DEF Scheduled
<1>7. TimerInv'
  BY <1>1 DEF Scheduled, TimerInv
<1>8. CASE stmt[t] # 4
  <2>1. stmt[t] \in 1..3
    BY <1>3, <1>8
  <2>2. list' = Inserting(l, x, place[t], stmt[t] + 1)
    BY <1>1, <1>5, <2>1, InsertingIs
  <2>3. ListInv(l, s, m)'
    <3>1. Doing("insert")' /\ ~Doing("suspend")' /\ ~Doing("switch")' /\ current' = s[1]
      BY <1>1, <1>2, <1>4, <1>8 DEF Doing
    <3>2. list' = Inserting(l, entry'[current'], place'[current'], stmt'[current'])
      BY <1>0, <1>1, <1>4, <1>8, <2>2
    <3>3. \E j : Fits(s, m, entry'[current'], j) /\ place'[current'] = s[j]
      BY <1>0, <1>1, <1>5
    <3> QED
      BY <1>5, <3>1, <3>2, <3>3 DEF ListInv
  <2>4. ChainInv(ch)'
    BY <1>1, ChainsStand DEF Scheduled
  <2>5. Whereabouts(t, ch, s, m)'
    BY <1>1, <1>2, <1>4, <1>8, RunningHere
  <2>6. Local(t, ch)'
    BY <1>0, <1>1, <1>3, <1>4, <1>8 DEF Local
  <2>7. \A u \in Tasks \ {t} : Stands(u, s, m, ch, s, m, ch)
    BY <1>1, <1>4 DEF Stands
  <2>8. Scheduled(l, s, m, ch)'
    BY <1>1, <1>6, <1>7, <2>3, <2>4, <2>5, <2>6, <2>7, StepScheduled
  <2> QED
    BY <2>8
<1>9. CASE stmt[t] = 4
  <2> DEFINE c == Popped(ch, t)
  <2>1. ch[t] # <<>>
    BY <1>3, Bounds, FirstIs
  <2>2. Waits(ch, x)
    BY <1>3, <2>1, FirstIs, Bounds DEF Waits
  <2>3. /\ ChainInv(c)' /\ qnext[x] = First(c[t])
        /\ \A u \in Tasks \ {t} : c[u] = ch[u]
        /\ \A u : Waits(c, u) <=> Waits(ch, u) /\ u # x
    BY <1>1, <1>3, <2>1, ChainsPopped DEF Scheduled
  <2>4. /\ op[x] = "lock" /\ ~On(x, s, m) /\ x \notin Range(timers) /\ x # t
        /\ pc[x] # "absent"
    <3>1. Whereabouts(x, ch, s, m) /\ x # t
      BY <1>2, <1>3, <2>2 DEF Scheduled
    <3> QED
      BY <1>1, <2>2, <3>1 DEF Whereabouts, Away, Leaving
  <2>5. PICK j : Fits(s, m, x, j) /\ place[t] = s[j]
    BY <1>5
  <2>6. PICK l2 : l2 = InsertBefore(l, x, s[j])
    OBVIOUS
  <2>7. list' = l2
    BY <1>1, <1>5, <1>9, <2>5, <2>6, InsertingIs
  <2>8. PICK s2 : /\ Sorted(l2, s2, m + 1)
                  /\ \A n : On(n, s2, m + 1) <=> n = x \/ On(n, s, m)
                  /\ m # 1 => s2[1] = s[1]
    BY <1>3, <1>5, <2>4, <2>5, <2>6, InsertSorted
  <2>9. ListInv(l2, s2, m + 1)'
    <3>1. /\ ~Doing("insert")' /\ ~Doing("suspend")' /\ ~Doing("switch")'
          /\ current' = s2[1]
      BY <1>1, <1>2, <1>4, <1>9, <2>8 DEF Doing
    <3> QED
      BY <2>7, <2>8, <3>1 DEF ListInv
  <2> HIDE DEF c
  <2>10. Whereabouts(t, c, s2, m + 1)'
    <3>1. /\ On(t, s2, m + 1) /\ ~Waits(c, t) /\ t \notin Range(timers')
          /\ pc'[t] \notin {"suspend", "absent"}
      BY <1>1, <1>2, <1>4, <1>9, <2>3, <2>8
    <3> QED
      BY <3>1, RunningHere
  <2>11. Local(t, c)'
    BY <1>0, <1>1, <1>4, <1>9, <2>3, <2>4 DEF Local
  <2>12. Whereabouts(x, c, s2, m + 1)'
    <3>1. On(x, s2, m + 1) /\ ~Waits(c, x) /\ x \notin Range(timers')
      BY <1>1, <2>3, <2>4, <2>8
    <3>2. pc'[x] # "absent"
      <4>1. x \in Tasks \ {t}
        BY <1>2, <1>3, <2>4
      <4> QED
        BY <1>4, <2>4, <4>1
    <3> QED
      BY <1>1, <2>4, <3>1, <3>2 DEF Whereabouts, Away, Leaving
  <2>13. ASSUME NEW u \in Tasks \ {t}
         PROVE  Whereabouts(u, c, s2, m + 1)' /\ Local(u, c)' /\ ~Exposed(u)'
    <3>1. Whereabouts(u, ch, s, m) /\ Local(u, ch) /\ ~Exposed(u)
      BY <1>1 DEF Scheduled
    <3>2. CASE u = x
      <4>1. ~Exposed(u)'
        BY <1>4, <3>1 DEF Exposed
      <4>2. Local(u, c)'
        BY <1>1, <1>4, <2>3, <3>1 DEF Local, Exposed
      <4> QED
        BY <2>12, <3>2, <4>1, <4>2
    <3>3. CASE u # x
      <4>1. Stands(u, s, m, ch, s2, m + 1, c)
        BY <1>1, <1>4, <2>3, <2>8, <3>3 DEF Stands
      <4> QED
        BY <3>1, <4>1, OtherStands
    <3> QED
      BY <3>2, <3>3
  <2>14. \A u \in Tasks : /\ Whereabouts(u, c, s2, m + 1)' /\ Local(u, c)'
                          /\ u # current' => ~Exposed(u)'
    BY <1>1, <2>10, <2>11, <2>13
  <2>15. Scheduled(l2, s2, m + 1, c)'
    BY <1>6, <1>7, <2>3, <2>9, <2>14 DEF Scheduled
  <2> QED
    BY <2>15
<1> QED
  BY <1>8, <1>9

LEMMA SuffixIs ==
  ASSUME NEW S, NEW q \in Seq(S), NEW i \in 0..Len(q)
  PROVE  /\ SubSeq(q, i + 1, Len(q)) \in Seq(S)
         /\ Len(SubSeq(q, i + 1, Len(q))) = Len(q) - i
         /\ DOMAIN SubSeq(q, i + 1, Len(q)) = 1..Len(q) - i
         /\ \A k \in 1..Len(q) - i : SubSeq(q, i + 1, Len(q))[k] = q[i + k]
<1> DEFINE b == SubSeq(q, i + 1, Len(q))
<1>1. b \in Seq(S) /\ Len(b) = Len(q) - i /\ \A k \in 1..Len(q) - i : b[k] = q[i + k]
  OBVIOUS
<1> HIDE DEF b
<1>2. DOMAIN b = 1..Len(q) - i
  BY <1>1
<1> QED
  BY <1>1, <1>2 DEF b

\* A tick that comes where no list is being changed: it wakes those whose timers have
\* expired, and of those it drops only sleepers whose timers were misplaced.
LEMMA TickTimers ==
  ASSUME TimerTyped, TimerInv, NEW due, due \subseteq Range(timers),
         \A t \in Tasks : t \in due => left[t] <= 1,
         \A t \in Range(timers) : t \notin due => left[t] > 1,
         timers' = Remaining(due), misplaced' = misplaced \ due,
         \A t \in Tasks : left'[t] = Counted(left[t])
  PROVE  /\ TimerInv'
         /\ \A t \in Tasks : t \in Range(timers') => t \in Range(timers) /\ t \notin due
         /\ \A t \in Tasks : t \in Range(timers) /\ t \notin due =>
              t \in Range(timers') \/ t \in misplaced'
<1>1. timers \in Seq(Tasks) /\ DOMAIN timers = 1..Len(timers) /\ Len(timers) \in Nat
      /\ left \in [Tasks -> Nat]
  BY DEF TimerTyped
<1>2. PICK i : /\ Expired(due, i)
               /\ Remaining(due) = SubSeq(timers, i + 1, Len(timers))
               /\ Remaining(due) \in Seq(Tasks)
  BY RemainingIs
<1>3. i \in 0..Len(timers)
  BY <1>2 DEF Expired
<1>4. PICK q : q = timers'
  OBVIOUS
<1>5. /\ q \in Seq(Tasks) /\ Len(q) = Len(timers) - i /\ DOMAIN q = 1..Len(timers) - i
      /\ \A k \in 1..Len(timers) - i : q[k] = timers[i + k]
  <2>1. q = SubSeq(timers, i + 1, Len(timers))
    BY <1>2, <1>4
  <2> QED
    BY <1>1, <1>3, <2>1, SuffixIs
<1>6. \A k \in 1..Len(timers) - i :
        i + k \in 1..Len(timers) /\ timers[i + k] \notin due /\ timers[i + k] \in Tasks
  <2>1. \A k \in 1..Len(timers) - i : i + k \in i + 1 .. Len(timers) /\ i + k \in 1..Len(timers)
    BY <1>1, <1>3
  <2>2. \A j \in i + 1 .. Len(timers) : timers[j] \notin due
    BY <1>2 DEF Expired
  <2>3. \A j \in 1..Len(timers) : timers[j] \in Tasks
    BY <1>1
  <2> QED
    BY <2>1, <2>2, <2>3
<1>7. ASSUME NEW k \in 1..Len(q), NEW h \in 1..Len(q), q[k] = q[h] PROVE k = h
  <2>1. k \in 1..Len(timers) - i /\ h \in 1..Len(timers) - i
    BY <1>5
  <2>2. i + k = i + h
    BY <1>5, <1>6, <1>7, <2>1 DEF TimerInv
  <2> QED
    BY <1>3, <2>1, <2>2
<1>8. ASSUME NEW k \in 1..Len(q), NEW h \in 1..Len(q), k < h, left'[q[h]] < left'[q[k]]
      PROVE  q[k] \in misplaced'
  <2>1. k \in 1..Len(timers) - i /\ h \in 1..Len(timers) - i
    BY <1>5
  <2>2. /\ i + k \in 1..Len(timers) /\ i + h \in 1..Len(timers) /\ i + k < i + h
        /\ q[k] = timers[i + k] /\ q[h] = timers[i + h] /\ q[k] \notin due
        /\ q[k] \in Tasks /\ q[h] \in Tasks
    BY <1>3, <1>5, <1>6, <1>8, <2>1
  <2>3. left[q[h]] < left[q[k]]
    BY <1>1, <1>8, <2>2 DEF Counted
  <2>4. q[k] \in misplaced
    BY <2>2, <2>3 DEF TimerInv
  <2> QED
    BY <2>2, <2>4
<1>9. TimerInv'
  BY <1>4, <1>7, <1>8 DEF TimerInv
<1>10. ASSUME NEW t \in Range(q) PROVE t \in Range(timers) /\ t \notin due
  <2>1. PICK k \in 1..Len(timers) - i : t = timers[i + k]
    BY <1>5 DEF Range
  <2> QED
    BY <1>1, <1>6, <2>1 DEF Range
<1>11. ASSUME NEW t \in Tasks, t \in Range(timers), t \notin due
       PROVE  t \in Range(q) \/ t \in misplaced'
  <2>1. PICK k \in 1..Len(timers) : timers[k] = t
    BY <1>1, <1>11 DEF Range
  <2>2. CASE k > i
    <3>1. k - i \in 1..Len(timers) - i /\ i + (k - i) = k
      BY <1>1, <1>3, <2>2
    <3> QED
      BY <1>5, <2>1, <3>1 DEF Range
  <2>3. CASE ~(k > i)
    <3>1. i # 0 /\ timers[i] \in due /\ i \in 1..Len(timers)
      BY <1>2, <1>3, <2>3 DEF Expired
    <3>2. k # i
      BY <1>11, <2>1, <3>1
    <3>3. k < i
      BY <2>3, <3>1, <3>2
    <3>4. left[timers[i]] <= 1 /\ left[t] > 1 /\ left[timers[i]] \in Nat /\ left[t] \in Nat
      <4>1. timers[i] \in Tasks
        BY <1>1, <3>1
      <4> QED
        BY <1>1, <1>11, <3>1, <4>1
    <3>5. left[timers[i]] < left[timers[k]]
      BY <2>1, <3>4
    <3>6. t \in misplaced
      BY <2>1, <3>1, <3>3, <3>5 DEF TimerInv
    <3> QED
      BY <1>11, <3>6
  <2> QED
    BY <2>2, <2>3
<1> QED
  BY <1>4, <1>9, <1>10, <1>11

LEMMA RunScheduled ==
  ASSUME Sane, NEW l, NEW s, NEW m, NEW ch, Scheduled(l, s, m, ch), Run,
         UNCHANGED <<mutex, threads>>, current # Idle => ~Exposed(current)
  PROVE  /\ ~hung'
         /\ \E l2, s2, m2 :
              /\ Scheduled(l2, s2, m2, ch)' /\ list' = l2 /\ current' = s2[1]
              /\ current = s[1] /\ current # Idle =>
                   \A n : On(n, s2, m2) => Prio(n) <= Prio(s2[1])
<1> DEFINE passed == [t \in Tasks |-> Counted(left[t])]
           due    == {t \in Range(timers) : passed[t] = 0}
           woken  == WakeDue(list, timers, due)
           picked == PickTask(woken.list, current)
<1>1. UNCHANGED <<val, queue, qnext, pc, op, stmt, entry, place>>
  BY DEF mutex, threads
<1>2. /\ left' = passed /\ timers' = Remaining(due) /\ misplaced' = misplaced \ due
      /\ IF woken.ok /\ picked.ok
         THEN list' = picked.list /\ current' = picked.task /\ hung' = FALSE
         ELSE hung' = TRUE /\ UNCHANGED <<list, current>>
  BY Zenon DEF Run
<1>3. timers \in Seq(Tasks) /\ DOMAIN timers = 1..Len(timers) /\ Len(timers) \in Nat
      /\ left \in [Tasks -> Nat] /\ Range(timers) \subseteq Tasks /\ current \in Nodes
  BY DEF Sane, TimerTyped, ListTyped, Range
<1>4. \A t \in Tasks : ~Exposed(t)
  BY <1>3, Bounds DEF Scheduled
<1>5. list = l /\ Sorted(l, s, m)
  BY <1>4 DEF Scheduled, ListInv, Doing, Exposed
<1>6. /\ due \subseteq Range(timers) /\ \A t \in Tasks : left'[t] = Counted(left[t])
      /\ \A t \in Tasks : t \in due => left[t] <= 1
      /\ \A t \in Range(timers) : t \notin due => left[t] > 1
  BY <1>2, <1>3 DEF Counted
<1> HIDE DEF passed, due, woken, picked
<1>7. \A t \in Tasks : Away(t, s, m) <=> ~On(t, s, m)
  BY <1>4 DEF Away, Leaving, Exposed
<1>8. \A t \in Tasks : t \in Range(timers) => op[t] = "sleep" /\ ~On(t, s, m)
  BY <1>7 DEF Scheduled, Whereabouts
<1>9. woken.ok /\ \E u, n : /\ Sorted(woken.list, u, n)
                            /\ \A x : On(x, u, n) <=> On(x, s, m) \/ x \in due
                            /\ s[1] # Idle => u[1] = s[1]
  <2>1. \A i \in 1..Len(timers) : timers[i] \in due => ~On(timers[i], s, m)
    BY <1>3, <1>6, <1>8
  <2>2. \A i, k \in 1..Len(timers) : timers[i] = timers[k] => i = k
    BY DEF Scheduled, TimerInv
  <2>3. /\ woken.ok
        /\ \E u, n : /\ Sorted(woken.list, u, n)
                     /\ \A x : On(x, u, n) <=> On(x, s, m) \/ Woken(timers, due, Len(timers), x)
                     /\ s[1] # Idle => u[1] = s[1]
    <3>1. Sorted(list, s, m) /\ timers \in Seq(Tasks)
      BY <1>3, <1>5
    <3>2. woken = WakeDue(list, timers, due)
      BY DEF woken
    <3>3. PICK r : r = WakeDue(list, timers, due)
      OBVIOUS
    <3>4. /\ r.ok
          /\ \E u, n : /\ Sorted(r.list, u, n)
                       /\ \A x : On(x, u, n) <=> On(x, s, m) \/ Woken(timers, due, Len(timers), x)
                       /\ s[1] # Idle => u[1] = s[1]
      BY <2>1, <2>2, <3>1, <3>3, WakeDueSorted
    <3> QED
      BY <3>2, <3>3, <3>4
  <2>4. \A x : Woken(timers, due, Len(timers), x) <=> x \in due
    BY <1>3, <1>6 DEF Woken, Range
  <2> QED
    BY <2>3, <2>4
<1>10. PICK u, m2 : /\ Sorted(woken.list, u, m2)
                    /\ \A x : On(x, u, m2) <=> On(x, s, m) \/ x \in due
                    /\ s[1] # Idle => u[1] = s[1]
  BY <1>9
<1>11. /\ picked.ok
       /\ \E v : /\ Sorted(picked.list, v, m2)
                 /\ \A n : On(n, v, m2) <=> On(n, u, m2)
                 /\ picked.task = v[1]
                 /\ current = u[1] => \A n : On(n, v, m2) => Prio(n) <= Prio(v[1])
  BY <1>3, <1>10, PickSorted DEF picked
<1>12. ~hung' /\ list' = picked.list /\ current' = picked.task
  BY <1>2, <1>9, <1>11
<1>13. PICK l2 : l2 = picked.list
  OBVIOUS
<1>14. PICK s2 : /\ Sorted(l2, s2, m2)
                 /\ \A n : On(n, s2, m2) <=> On(n, s, m) \/ n \in due
                 /\ current' = s2[1]
                 /\ current = u[1] => \A n : On(n, s2, m2) => Prio(n) <= Prio(s2[1])
  BY <1>10, <1>11, <1>12, <1>13
<1>15. \A t \in Tasks : ~Exposed(t)'
  BY <1>1, <1>4 DEF Exposed
<1>16. ListInv(l2, s2, m2)'
  <2>1. ~Doing("suspend")' /\ ~Doing("insert")' /\ ~Doing("switch")'
    BY <1>15 DEF Doing, Exposed
  <2> QED
    BY <1>12, <1>13, <1>14, <2>1 DEF ListInv
<1>17. ChainInv(ch)'
  BY <1>1, ChainsStand DEF Scheduled
<1>18. MutexInv'
  BY <1>1 DEF Scheduled, MutexInv
<1>19. /\ TimerInv'
       /\ \A t \in Tasks : t \in Range(timers') => t \in Range(timers) /\ t \notin due
       /\ \A t \in Tasks : t \in Range(timers) /\ t \notin due =>
            t \in Range(timers') \/ t \in misplaced'
  BY <1>2, <1>6, TickTimers DEF Scheduled, Sane
<1>20. ASSUME NEW t \in Tasks PROVE Whereabouts(t, ch, s2, m2)'
  <2>1. Away(t, s2, m2)' <=> ~On(t, s2, m2)
    BY <1>15 DEF Away, Leaving, Exposed
  <2>2. Waits(ch, t) => op[t] = "lock" /\ ~On(t, s, m)
    BY <1>7 DEF Scheduled, Whereabouts
  <2>3. ~On(t, s, m) => \/ op[t] = "lock" /\ Waits(ch, t)
                        \/ op[t] = "sleep" /\ (t \in Range(timers) \/ t \in misplaced)
                        \/ pc[t] = "absent"
    BY <1>7 DEF Scheduled, Whereabouts
  <2>4. t \in due => op[t] = "sleep"
    BY <1>6, <1>8
  <2>5. Waits(ch, t) => op'[t] = "lock" /\ ~On(t, s2, m2)
    BY <1>1, <1>14, <2>2, <2>4
  <2>6. t \in Range(timers') => op'[t] = "sleep" /\ ~On(t, s2, m2)
    BY <1>1, <1>8, <1>14, <1>19
  <2>7. ~On(t, s2, m2) => \/ op'[t] = "lock" /\ Waits(ch, t)
                          \/ op'[t] = "sleep" /\ (t \in Range(timers') \/ t \in misplaced')
                          \/ pc'[t] = "absent"
    BY <1>1, <1>2, <1>14, <1>19, <2>3
  <2>8. pc'[t] = "absent" => op'[t] = "none" /\ ~On(t, s2, m2)
    <3>1. pc[t] = "absent" => op[t] = "none" /\ ~On(t, s, m)
      BY DEF Scheduled, Whereabouts
    <3> QED
      BY <1>1, <1>14, <2>4, <3>1
  <2> QED
    BY <2>1, <2>5, <2>6, <2>7, <2>8 DEF Whereabouts
<1>21. ASSUME NEW t \in Tasks PROVE Local(t, ch)'
  <2>1. Local(t, ch) /\ ~Exposed(t)
    BY <1>4 DEF Scheduled
  <2> QED
    BY <1>1, <2>1 DEF Local, Exposed
<1>22. Scheduled(l2, s2, m2, ch)'
  BY <1>15, <1>16, <1>17, <1>18, <1>19, <1>20, <1>21 DEF Scheduled
<1>23. current = s[1] /\ current # Idle => \A n : On(n, s2, m2) => Prio(n) <= Prio(s2[1])
  BY <1>10, <1>14
<1> QED
  BY <1>12, <1>13, <1>14, <1>22, <1>23

(***************************************************************************)
(* The scheduler starts with one task before the idle task.                *)
(***************************************************************************)
LEMMA InitScheduled ==
  ASSUME Init
  PROVE  ~hung /\ \E l, s, m, ch : Scheduled(l, s, m, ch)
<1>6. PICK s, m : /\ Sorted(list, s, m) /\ \A n : On(n, s, m) <=> n = 1 \/ n = Idle
  BY FirstSorted DEF Init
<1>8. PICK l : l = list
  OBVIOUS
<1>9. \A t \in Tasks : pc[t] = IF t = 1 THEN "run" ELSE "absent"
  BY DEF Init
<1>10. ListInv(l, s, m)
  <2>1. ~Doing("suspend") /\ ~Doing("insert") /\ ~Doing("switch")
    BY <1>9 DEF Doing
  <2>2. current = s[1]
    BY <1>6 DEF Init, Sorted, Linked, Strung
  <2> QED
    BY <1>6, <1>8, <2>1, <2>2 DEF ListInv
<1>11. PICK ch : ch = [r \in Nodes |-> <<>>]
  OBVIOUS
<1>12. ch \in [Nodes -> Seq(Tasks)] /\ \A r \in Nodes : ch[r] = <<>> /\ Len(ch[r]) = 0
  <2>1. <<>> \in Seq(Tasks) /\ Len(<<>>) = 0
    OBVIOUS
  <2> QED
    BY <1>11, <2>1
<1>13. ChainInv(ch)
  <2>1. queue = First(ch[Idle])
    BY <1>12, Bounds DEF Init, First
  <2> QED
    BY <1>12, <2>1 DEF ChainInv
<1>14. MutexInv
  BY DEF Init, MutexInv
<1>15. timers = <<>> /\ Len(timers) = 0 /\ DOMAIN timers = {}
  BY DEF Init
<1>16. TimerInv
  BY <1>15 DEF TimerInv
<1>17. Range(timers) = {}
  BY <1>15 DEF Range
<1>18. ASSUME NEW t \in Tasks
       PROVE  Whereabouts(t, ch, s, m) /\ Local(t, ch) /\ ~Exposed(t)
  <2>1. ~Waits(ch, t)
    BY <1>12 DEF Waits
  <2>2. (Away(t, s, m) <=> t # 1) /\ op[t] = "none" /\ (~On(t, s, m) <=> t # 1)
    BY <1>6, <1>9, Bounds DEF Away, Leaving, Init
  <2>3. Local(t, ch)
    BY <1>9, <1>12, Bounds DEF Local
  <2> QED
    BY <1>9, <1>17, <2>1, <2>2, <2>3 DEF Whereabouts, Exposed
<1>19. Scheduled(l, s, m, ch)
  BY <1>10, <1>13, <1>14, <1>16, <1>18 DEF Scheduled
<1> QED
  BY <1>19 DEF Init

\* The inductive invariant.
Sound == races \in Nat /\ (races = 0 => ~hung /\ \E l, s, m, ch : Scheduled(l, s, m, ch))

LEMMA InitSound == Init => Sound
<1> SUFFICES ASSUME Init PROVE Sound
  OBVIOUS
<1>1. races = 0
  BY DEF Init
<1>2. ~hung /\ \E l, s, m, ch : Scheduled(l, s, m, ch)
  BY InitScheduled
<1> QED
  BY <1>1, <1>2 DEF Sound

LEMMA StepSound ==
  ASSUME Sane, NEW l, NEW s, NEW m, NEW ch, Scheduled(l, s, m, ch), ~hung,
         NEW t \in Tasks, Step(t)
  PROVE  ~hung' /\ \E l2, s2, m2, ch2 : Scheduled(l2, s2, m2, ch2)'
<1>1. CASE Lock(t)
  BY <1>1, LockScheduled DEF Lock
<1>2. CASE Join(t)
  BY <1>2, JoinScheduled DEF Join
<1>3. CASE Enqueue(t)
  BY <1>3, EnqueueScheduled DEF Enqueue
<1>4. CASE Sleep(t)
  BY <1>4, SleepScheduled DEF Sleep
<1>5. CASE AddTimer(t)
  BY <1>5, AddTimerScheduled DEF AddTimer
<1>6. CASE Suspend(t)
  BY <1>6, SuspendScheduled DEF Suspend
<1>7. CASE Schedule(t)
  BY <1>7, ScheduleScheduled
<1>8. CASE Switch(t)
  BY <1>8, SwitchScheduled DEF Switch
<1>15. CASE Arrive(t)
  BY <1>15, ArriveScheduled DEF Arrive
<1>16. CASE \E new \in Tasks : Create(t, new)
  BY <1>16, CreateScheduled
<1>9. CASE Unlock(t)
  BY <1>9, UnlockScheduled DEF Unlock
<1>10. CASE TakeQueue(t)
  BY <1>10, TakeQueueScheduled DEF TakeQueue
<1>11. CASE EmptyQueue(t)
  BY <1>11, EmptyQueueScheduled DEF EmptyQueue
<1>12. CASE Wake(t)
  BY <1>12, WakeScheduled
<1>13. CASE Insert(t)
  BY <1>13, InsertScheduled DEF Insert
<1>14. CASE NextEntry(t)
  BY <1>14, NextEntryScheduled
<1> QED
  BY <1>1, <1>2, <1>3, <1>4, <1>5, <1>6, <1>7, <1>8, <1>9, <1>10, <1>11, <1>12, <1>13, <1>14,
     <1>15, <1>16 DEF Step

LEMMA UnchangedScheduled ==
  ASSUME NEW l, NEW s, NEW m, NEW ch, Scheduled(l, s, m, ch), UNCHANGED vars
  PROVE  Scheduled(l, s, m, ch)'
<1>1. UNCHANGED <<list, current, val, queue, qnext, timers, left, misplaced, pc, op, stmt,
                  entry, place>>
  BY DEF vars, mutex, sleep, threads
<1>2. ListInv(l, s, m)'
  BY <1>1 DEF Scheduled, ListInv, Doing
<1>3. ChainInv(ch)' /\ MutexInv' /\ TimerInv'
  BY <1>1 DEF Scheduled, ChainInv, MutexInv, TimerInv
<1>4. ASSUME NEW t \in Tasks
      PROVE  Whereabouts(t, ch, s, m)' /\ Local(t, ch)' /\ (t # current' => ~Exposed(t)')
  <2>1. Whereabouts(t, ch, s, m) /\ Local(t, ch) /\ (t # current => ~Exposed(t))
    BY DEF Scheduled
  <2> QED
    BY <1>1, <2>1 DEF Whereabouts, Away, Leaving, Local, Exposed
<1> QED
  BY <1>2, <1>3, <1>4 DEF Scheduled

LEMMA NextSound == Sane /\ Sound /\ [Next]_vars => Sound'
<1> SUFFICES ASSUME Sane, Sound, [Next]_vars PROVE Sound'
  OBVIOUS
<1>1. CASE UNCHANGED vars
  <2>1. races' = races /\ hung' = hung
    BY <1>1 DEF vars
  <2>2. ASSUME races = 0 PROVE \E l, s, m, ch : Scheduled(l, s, m, ch)'
    BY <1>1, <2>2, UnchangedScheduled DEF Sound
  <2> QED
    BY <2>1, <2>2 DEF Sound
<1>2. CASE Tick
  <2>1. /\ races' = IF Straddling \/ (current # Idle /\ Exposed(current)) THEN races + 1
                    ELSE races
        /\ ~hung /\ (LoseContext \/ Run) /\ UNCHANGED <<mutex, threads>>
    BY <1>2 DEF Tick
  <2>2. ASSUME races' = 0 PROVE ~hung' /\ \E l, s, m, ch : Scheduled(l, s, m, ch)'
    <3>1. races = 0 /\ (current # Idle => ~Exposed(current)) /\ ~Straddling
      BY <2>1, <2>2 DEF Sound
    <3>2. PICK l, s, m, ch : Scheduled(l, s, m, ch)
      BY <3>1 DEF Sound
    <3>3. Run
      BY <2>1, <3>1 DEF LoseContext, Exposed
    <3> QED
      BY <2>1, <3>1, <3>2, <3>3, RunScheduled
  <2>3. races' \in Nat
    BY <2>1 DEF Sound
  <2> QED
    BY <2>2, <2>3 DEF Sound
<1>3. ASSUME NEW t \in Tasks, Step(t) PROVE Sound'
  <2>1. races' = races
    BY <1>3 DEF Step, Lock, Join, Enqueue, Sleep, AddTimer, Suspend, Schedule, Switch, Arrive,
                Create, Unlock, TakeQueue, EmptyQueue, Wake, Insert, NextEntry
  <2>2. ASSUME races = 0 PROVE ~hung' /\ \E l, s, m, ch : Scheduled(l, s, m, ch)'
    <3>1. ~hung
      BY <2>2 DEF Sound
    <3>2. PICK l, s, m, ch : Scheduled(l, s, m, ch)
      BY <2>2 DEF Sound
    <3> QED
      BY <1>3, <3>1, <3>2, StepSound
  <2> QED
    BY <2>1, <2>2 DEF Sound
<1> QED
  BY <1>1, <1>2, <1>3 DEF Next

(***************************************************************************)
(* What holds of the scheduler when no list is being changed.              *)
(***************************************************************************)
LEMMA AtRestIs ==
  ASSUME NEW l, NEW s, NEW m, NEW ch, Scheduled(l, s, m, ch), AtRest
  PROVE  list = l /\ Sorted(l, s, m)
BY Bounds DEF Scheduled, ListInv, AtRest, Doing

\* The tasks of a list are those that something in it points to.
LEMMA ListedIs ==
  ASSUME NEW l, NEW s, NEW m, Linked(l, s, m)
  PROVE  \A n : n \in ({l.head} \union Range(l.next)) \ {NULL} <=> On(n, s, m)
<1>1. /\ m \in Nat \ {0} /\ s \in [1..m -> Nodes] /\ s[m] = Idle
      /\ l.next \in [Nodes -> Ends] /\ l.head = s[1] /\ l.next[Idle] = NULL
      /\ \A i \in 1..m - 1 : l.next[s[i]] = s[i + 1]
  BY DEF Linked, Strung, Lists
<1>2. ASSUME NEW n, n # NULL, n = l.head \/ n \in Range(l.next) PROVE On(n, s, m)
  <2>1. CASE n = l.head
    BY <1>1, <2>1 DEF On
  <2>2. CASE n \in Range(l.next)
    <3>1. PICK x \in Nodes : n = l.next[x]
      BY <1>1, <2>2 DEF Range
    <3>2. PICK i \in 1..m : s[i] = x
      BY <1>2, <3>1 DEF Linked, Clear, On
    <3>3. i # m
      BY <1>1, <1>2, <3>1, <3>2
    <3>4. i \in 1..m - 1 /\ i + 1 \in 1..m
      BY <1>1, <3>3
    <3> QED
      BY <1>1, <3>1, <3>2, <3>4 DEF On
  <2> QED
    BY <1>2, <2>1, <2>2
<1>3. ASSUME NEW i \in 1..m PROVE s[i] # NULL /\ (s[i] = l.head \/ s[i] \in Range(l.next))
  <2>1. s[i] # NULL
    BY <1>1, Bounds
  <2>2. CASE i = 1
    BY <1>1, <2>1, <2>2
  <2>3. CASE i # 1
    <3>1. i - 1 \in 1..m - 1 /\ (i - 1) + 1 = i /\ i - 1 \in 1..m
      BY <1>1, <2>3
    <3>2. l.next[s[i - 1]] = s[i] /\ s[i - 1] \in Nodes
      BY <1>1, <3>1
    <3> QED
      BY <1>1, <2>1, <3>2 DEF Range
  <2> QED
    BY <2>2, <2>3
<1> QED
  BY <1>2, <1>3 DEF On

\* The walk from the head of a list reaches its tasks, and ends.
LEMMA ReachedIs ==
  ASSUME NEW l, NEW s, NEW m, Strung(l, s, m), NEW w, w = Walk(l, l.head)
  PROVE  /\ ~Endless(w)
         /\ \A n : n \in {w[k] : k \in 0..NTasks + 1} \ {NULL} <=> On(n, s, m)
<1>1. /\ m \in Nat \ {0} /\ s \in [1..m -> Nodes] /\ l.head = s[1] /\ 1 \in 1..m
      /\ \A i, j \in 1..m : s[i] = s[j] => i = j
  BY DEF Strung
<1>2. m <= NTasks + 1
  BY <1>1, ListBounded
<1>3. \A k \in 0..NTasks + 1 : w[k] = IF 1 + k <= m THEN s[1 + k] ELSE NULL
  BY <1>1, LinkedWalk
<1>4. w[NTasks + 1] = NULL
  BY <1>1, <1>2, <1>3, Bounds
<1>5. ASSUME NEW k \in 0..NTasks + 1, w[k] # NULL PROVE On(w[k], s, m)
  <2>1. 1 + k \in 1..m /\ w[k] = s[1 + k]
    BY <1>1, <1>3, <1>5, Bounds
  <2> QED
    BY <2>1 DEF On
<1>6. ASSUME NEW i \in 1..m PROVE s[i] # NULL /\ \E k \in 0..NTasks + 1 : w[k] = s[i]
  <2>1. i - 1 \in 0..NTasks + 1 /\ 1 + (i - 1) = i /\ i <= m
    BY <1>1, <1>2, Bounds
  <2>2. w[i - 1] = s[i]
    BY <1>3, <2>1
  <2> QED
    BY <1>1, <2>1, <2>2, Bounds
<1> QED
  BY <1>4, <1>5, <1>6 DEF Endless, On

LEMMA SoundList == Sound => RunListSound
<1> SUFFICES ASSUME Sound, races = 0, AtRest
             PROVE  /\ ~hung
                    /\ LET w == Walk(list, list.head)
                           reached == {w[k] : k \in 0..NTasks + 1} \ {NULL}
                       IN  /\ ~Endless(w) /\ Listed = reached /\ list.next[Idle] = NULL
                           /\ Idle \in reached
                    /\ \A n \in Listed : list.next[n] # NULL =>
                         /\ list.prev[list.next[n]] = n
                         /\ n # list.head => Prio(n) >= Prio(list.next[n])
                    /\ list.prev[list.head] = NULL
  BY DEF RunListSound
<1>1. ~hung
  BY DEF Sound
<1>2. PICK s, m : Sorted(list, s, m)
  <2>1. PICK l, s, m, ch : Scheduled(l, s, m, ch)
    BY DEF Sound
  <2>2. list = l /\ Sorted(l, s, m)
    BY <2>1, AtRestIs
  <2> QED
    BY <2>2
<1>3. /\ Strung(list, s, m) /\ Linked(list, s, m) /\ m \in Nat \ {0} /\ s[m] = Idle
      /\ list.next[Idle] = NULL /\ list.head = s[1] /\ list.prev[s[1]] = NULL
      /\ \A i, j \in 1..m : s[i] = s[j] => i = j
      /\ \A i \in 1..m - 1 : list.next[s[i]] = s[i + 1] /\ list.prev[s[i + 1]] = s[i]
  BY <1>2 DEF Sorted, Linked, Strung
<1> DEFINE w == Walk(list, list.head)
           reached == {w[k] : k \in 0..NTasks + 1} \ {NULL}
<1>4. ~Endless(w) /\ \A n : n \in reached <=> On(n, s, m)
  BY <1>3, ReachedIs
<1>5. \A n : n \in Listed <=> On(n, s, m)
  BY <1>3, ListedIs DEF Listed
<1> HIDE DEF w, reached
<1>6. Idle \in reached
  BY <1>3, <1>4 DEF On
<1>7. reached = Listed
  <2>1. \A n : n \in reached <=> n \in Listed
    BY <1>4, <1>5
  <2>2. reached \subseteq Listed /\ Listed \subseteq reached
    BY <2>1
  <2> QED
    BY <2>2
<1>8. ASSUME NEW n \in Listed, list.next[n] # NULL
      PROVE  /\ list.prev[list.next[n]] = n
             /\ n # list.head => Prio(n) >= Prio(list.next[n])
  <2>1. PICK i \in 1..m : s[i] = n
    BY <1>5 DEF On
  <2>2. i # m
    BY <1>3, <1>8, <2>1
  <2>3. i \in 1..m - 1 /\ i + 1 \in 1..m /\ (i # 1 => i \in 2..m /\ i + 1 \in 2..m /\ i <= i + 1)
    BY <1>3, <2>2
  <2>4. list.next[n] = s[i + 1] /\ list.prev[s[i + 1]] = n
    BY <1>3, <2>1, <2>3
  <2>5. n # list.head => Prio(s[i]) >= Prio(s[i + 1])
    BY <1>2, <1>3, <2>1, <2>3 DEF Sorted, Descends
  <2> QED
    BY <2>1, <2>4, <2>5
<1> QED
  BY <1>1, <1>3, <1>4, <1>6, <1>7, <1>8 DEF w, reached

\* The walk through the wait queue meets the tasks of its chain.
QueueWalk(q) ==
  q = [k \in 0..NTasks |-> IF k = 0 THEN queue ELSE IF q[k - 1] = NULL THEN NULL
                           ELSE qnext[q[k - 1]]]

LEMMA QueueReached ==
  ASSUME NEW ch, ChainInv(ch), NEW i \in 1..Len(ch[Idle])
  PROVE  InQueue(ch[Idle][i])
<1> DEFINE c == ch[Idle]
           n == Len(c)
           Nth(k) == IF k < n THEN c[k + 1] ELSE NULL
<1>1. c \in Seq(Tasks) /\ n \in Nat /\ queue = First(c)
  BY Bounds DEF ChainInv
<1>2. \A k \in 1..n : /\ c[k] \in Tasks /\ c[k] # NULL
                      /\ qnext[c[k]] = IF k = n THEN NULL ELSE c[k + 1]
  BY <1>1, Bounds DEF ChainInv
<1>3. \A j, k \in 1..n : c[j] = c[k] => j = k
  BY Bounds DEF ChainInv
<1> HIDE DEF c
<1>4. n <= NTasks + 1
  <2>1. [k \in 1..n |-> c[k]] \in [1..n -> Nodes]
    BY <1>2, Bounds
  <2>2. \A j, k \in 1..n : [h \in 1..n |-> c[h]][j] = [h \in 1..n |-> c[h]][k] => j = k
    BY <1>3
  <2> QED
    BY <1>1, <2>1, <2>2, ListBounded
<1>5. Nth(0) = queue
  <2>1. CASE n = 0
    <3>1. c = <<>>
      BY <1>1, <2>1
    <3>2. Nth(0) = NULL
      BY <2>1
    <3> QED
      BY <1>1, <3>1, <3>2, FirstIs
  <2>2. CASE n # 0
    BY <1>1, <2>2, FirstIs
  <2> QED
    BY <2>1, <2>2
<1>6. ASSUME NEW k \in 1..NTasks
      PROVE  Nth(k) = IF Nth(k - 1) = NULL THEN NULL ELSE qnext[Nth(k - 1)]
  <2>0. k \in Nat \ {0} /\ (k - 1) + 1 = k
    BY Bounds
  <2>1. CASE k - 1 < n
    <3>1. k \in 1..n /\ Nth(k - 1) = c[k]
      BY <1>1, <2>0, <2>1
    <3>2. Nth(k) = IF k = n THEN NULL ELSE c[k + 1]
      BY <1>1, <2>0, <3>1
    <3> QED
      BY <1>2, <3>1, <3>2
  <2>2. CASE ~(k - 1 < n)
    BY <1>1, <2>0, <2>2
  <2> QED
    BY <2>1, <2>2
<1> DEFINE q == CHOOSE f : QueueWalk(f)
           W == [k \in 0..NTasks |-> Nth(k)]
<1>7. \E f : QueueWalk(f)
  <2>1. \A k \in 0..NTasks : k = 0 \/ (k \in 1..NTasks /\ k - 1 \in 0..NTasks)
    BY Bounds
  <2>2. \A k \in 0..NTasks : W[k] = Nth(k)
    OBVIOUS
  <2>3. ASSUME NEW k \in 0..NTasks
        PROVE  W[k] = IF k = 0 THEN queue ELSE IF W[k - 1] = NULL THEN NULL ELSE qnext[W[k - 1]]
    <3> HIDE DEF W, Nth
    <3> QED
      BY <1>5, <1>6, <2>1, <2>2
  <2>4. W = [k \in 0..NTasks |-> W[k]]
    OBVIOUS
  <2>5. QueueWalk(W)
    <3> HIDE DEF W
    <3> QED
      BY <2>3, <2>4 DEF QueueWalk
  <2> QED
    BY <2>5
<1>8. QueueWalk(q)
  BY <1>7
<1> HIDE DEF q, W
<1>9. /\ q[0] = queue
      /\ \A k \in 1..NTasks : q[k] = IF q[k - 1] = NULL THEN NULL ELSE qnext[q[k - 1]]
  BY <1>8, Bounds DEF QueueWalk
<1> DEFINE S == {k \in Nat : q[k] = Nth(k)}
<1> HIDE DEF Nth
<1>10. 0 \in S
  BY <1>5, <1>9
<1>11. ASSUME NEW k \in 0..NTasks - 1, k \in S PROVE k + 1 \in S
  <2>1. k + 1 \in 1..NTasks /\ (k + 1) - 1 = k /\ k + 1 \in Nat /\ q[k] = Nth(k)
    BY <1>11, Bounds
  <2> QED
    BY <1>6, <1>9, <2>1
<1>12. 0..NTasks \subseteq S
  <2> HIDE DEF S
  <2>1. \A k \in 0..NTasks - 1 : k \in S => k + 1 \in S
    BY <1>11
  <2> QED
    BY <1>10, <2>1, Bounds, BoundedInduction, Zenon
<1>13. i - 1 \in 0..NTasks /\ i - 1 < n /\ (i - 1) + 1 = i
  BY <1>1, <1>4, Bounds DEF c
<1>14. q[i - 1] = c[i]
  BY <1>12, <1>13 DEF Nth
<1>15. \A t : InQueue(t) <=> \E k \in 0..NTasks : q[k] = t
  BY DEF InQueue, q, QueueWalk
<1> QED
  BY <1>13, <1>14, <1>15 DEF c

LEMMA SoundForgets == Sound => NobodyForgotten
<1> SUFFICES ASSUME Sound, races = 0, AtRest, NEW t \in Tasks, t \notin Listed,
                    pc[t] # "absent"
             PROVE  CASE op[t] = "lock" ->
                           \E u \in Tasks : \/ pc[u] = "critical" /\ InQueue(t)
                                            \/ pc[u] \in {"take", "empty", "wake", "next"}
                      [] op[t] = "sleep" -> t \in Range(timers) \/ t \in misplaced
                      [] OTHER -> FALSE
  BY DEF NobodyForgotten
<1>1. PICK l, s, m, ch : Scheduled(l, s, m, ch)
  BY DEF Sound
<1>2. list = l /\ Linked(l, s, m)
  BY <1>1, AtRestIs DEF Sorted
<1>3. ~On(t, s, m)
  BY <1>2, ListedIs DEF Listed
<1>4. \/ op[t] = "lock" /\ Waits(ch, t)
      \/ op[t] = "sleep" /\ (t \in Range(timers) \/ t \in misplaced)
  BY <1>1, <1>3, Zenon DEF Scheduled, Whereabouts, Away
<1>5. ASSUME Waits(ch, t)
      PROVE  \E u \in Tasks : \/ pc[u] = "critical" /\ InQueue(t)
                              \/ pc[u] \in {"take", "empty", "wake", "next"}
  <2>1. PICK r \in Nodes : \E i \in 1..Len(ch[r]) : ch[r][i] = t
    BY <1>5 DEF Waits
  <2>2. PICK i \in 1..Len(ch[r]) : ch[r][i] = t
    BY <2>1
  <2>3. ch[r] \in Seq(Tasks) /\ ch[r] # <<>>
    BY <1>1, <2>2 DEF Scheduled, ChainInv
  <2>4. CASE r = Idle
    <3>1. queue # NULL /\ InQueue(t)
      BY <1>1, <2>2, <2>3, <2>4, FirstIs, QueueReached DEF Scheduled, ChainInv
    <3> QED
      BY <1>1, <3>1 DEF Scheduled, MutexInv
  <2>5. CASE r \in Tasks
    <3>1. pc[r] \in {"wake", "insert", "next"}
      BY <1>1, <2>3, <2>5 DEF Scheduled, Local
    <3>2. pc[r] # "insert"
      BY <1>1, <2>5, Bounds DEF Scheduled, Exposed, AtRest
    <3> QED
      BY <2>5, <3>1, <3>2
  <2> QED
    BY <2>4, <2>5, Bounds
<1> QED
  BY <1>4, <1>5

\* The tick, from the inductive invariant.
LEMMA TickPicks ==
  ASSUME Sane, Sound, Tick, races' = 0, current # Idle, current \in Listed
  PROVE  \A n \in Listed' : Prio(n) <= Prio(current')
<1>1. races = 0 /\ ~Exposed(current) /\ ~Straddling
  BY DEF Sound, Tick
<1>2. PICK l, s, m, ch : Scheduled(l, s, m, ch)
  BY <1>1 DEF Sound
<1>3. list = l /\ Sorted(l, s, m)
  BY <1>1, <1>2 DEF Scheduled, ListInv, Doing, Exposed
<1>4. On(current, s, m)
  BY <1>3, ListedIs DEF Listed, Sorted
<1>5. current = s[1]
  BY <1>1, <1>2, <1>4 DEF Scheduled, ListInv, Doing, Exposed
<1>6. PICK l2, s2, m2 : /\ Scheduled(l2, s2, m2, ch)' /\ list' = l2 /\ current' = s2[1]
                        /\ current = s[1] /\ current # Idle =>
                             \A n : On(n, s2, m2) => Prio(n) <= Prio(s2[1])
  <2>1. Run /\ UNCHANGED <<mutex, threads>>
    BY <1>1 DEF Tick, LoseContext, Exposed
  <2> QED
    BY <1>1, <1>2, <2>1, RunScheduled
<1>7. Linked(l2, s2, m2)
  BY <1>6 DEF Scheduled, ListInv, Sorted
<1>8. Listed' = ({l2.head} \union Range(l2.next)) \ {NULL}
  BY <1>6 DEF Listed
<1>9. \A n \in Listed' : On(n, s2, m2)
  BY <1>7, <1>8, ListedIs
<1> QED
  BY <1>5, <1>6, <1>9

\* Unless the tick came where a list is being changed, the run list is a list,
\* however many tasks there are and whatever their priorities: each is in it once,
\* the back links mirror the links, idle is the last, and behind the head the
\* priorities descend.
THEOREM RunListIsSound == Spec => []RunListSound
BY InitSane, NextSane, InitSound, NextSound, SoundList, PTL DEF Spec

\* Unless the tick came where a list is being changed, a task that is not in the
\* run list is in the queue of a mutex that someone holds or is releasing, or a
\* timer will wake it, or zrt_timerAdd has misplaced its timer.
THEOREM NobodyIsForgotten == Spec => []NobodyForgotten
BY InitSane, NextSane, InitSound, NextSound, SoundForgets, PTL DEF Spec

\* A tick gives the processor to a task of the highest priority, unless it came while
\* the processor idled or a task had just suspended itself.
THEOREM TickPicksHighest == Spec => PicksHighest
<1>1. ASSUME Sane, Sound, [Next]_vars
      PROVE  [Tick /\ races' = 0 /\ ~hung' /\ current # Idle /\ current \in Listed =>
                \A n \in Listed' : Prio(n) <= Prio(current')]_vars
  BY <1>1, TickPicks
<1> QED
  BY <1>1, InitSane, NextSane, InitSound, NextSound, PTL DEF Spec, PicksHighest
================================================================================
