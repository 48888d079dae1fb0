---------------------------------- MODULE Zrt ----------------------------------
(***************************************************************************)
(* ZRT, the preemptive scheduler of the ZPUino core: zrt_task.c (the run   *)
(* list, mutexes) and zrt_timer.c (zrt_sleep), with the timer tick of      *)
(* start.S, which saves the running task and switches to another.          *)
(*                                                                         *)
(* A step is what happens between two points where the tick can come: the  *)
(* code between __disable_interrupts and __enable_interrupts is one step,  *)
(* and where interrupts are enabled each statement that touches the run    *)
(* list or the wait queue is one.  A mutex's wait queue and the list of    *)
(* timers are made of entries on the stacks of the waiting tasks, so an    *)
(* entry is named by its task.                                             *)
(*                                                                         *)
(* The model ends, with hung, where the code no longer has a course of its *)
(* own: a list is walked without end or through NULL, an entry is read on  *)
(* a stack that its task has unwound, or the tick has saved in a TCB a     *)
(* context that is not that task's.                                        *)
(***************************************************************************)
EXTENDS Integers, Sequences, FiniteSets, SequencesExt, Functions

CONSTANTS NTasks,      \* bound: tasks created besides the idle task; 1 is _premain
          Priority,    \* their sched_priority
          Naps,        \* the ticks zrt_sleep is called with
          MaxRaces     \* bound: ticks that come where they can break a list

Tasks == 1..NTasks
Idle == 0
Nodes == 0..NTasks
NULL == -1

ASSUME ZrtAssumption ==
  /\ NTasks \in Nat \ {0} /\ Naps \subseteq Nat /\ MaxRaces \in Nat
  /\ Priority \in [Tasks -> Nat \ {0}]

VARIABLES
  list,      \* the run list: next and prev of each task, and zrt_taskhead
  current,   \* zrt_currentTask
  val,       \* mutex->val
  queue,     \* mutex->queue
  qnext,     \* q.next of the wait queue entry of each task
  timers,    \* the tasks in the list of zrt_timershead, in its order
  left,      \* ticks until the timer of each task expires
  pc, op,    \* where each task is, and in which call, or after which
  stmt,      \* the statement of zrt_suspend or zrt_insertTask it is at
  entry,     \* the wait queue entry it wakes
  place,     \* the task it inserts that one before, or switches to
  need,      \* need_resched
  hung,      \* the model ends: a walk, an entry or a context is lost
  races,     \* history: how often the tick came where it can break a list
  misplaced  \* history: sleepers whose timer was put before one that ends earlier

mutex   == <<val, queue, qnext>>
sleep   == <<timers, left, misplaced>>
threads == <<pc, op, stmt, entry, place, need>>
vars    == <<list, current, mutex, sleep, threads, hung, races>>

(***************************************************************************)
(* The run list.                                                           *)
(***************************************************************************)
Prio(n) == IF n = Idle THEN 0 ELSE Priority[n]

\* The tasks met from n on, NULL from the end of the list on.
Walk(l, n) ==
  LET w[k \in 0..NTasks + 1] ==
        IF k = 0 THEN n ELSE IF w[k - 1] = NULL THEN NULL ELSE l.next[w[k - 1]]
  IN  w

\* The places of a walk that satisfy P before the walk ends.
Met(w, P(_)) == {k \in 0..NTasks + 1 : w[k] # NULL /\ P(w[k])}
Least(S) == CHOOSE k \in S : \A j \in S : k <= j
Endless(w) == w[NTasks + 1] # NULL

\* The statements that link t before s.
InsertStatement(l, t, s, k) ==
  CASE k = 1 -> [l EXCEPT !.next[t] = s]
    [] k = 2 -> [l EXCEPT !.prev[t] = l.prev[s]]
    [] k = 3 -> [l EXCEPT !.prev[s] = t]
    [] k = 4 -> IF l.prev[t] = NULL THEN [l EXCEPT !.head = t]
                                    ELSE [l EXCEPT !.next[l.prev[t]] = t]

InsertBefore(l, t, s) ==
  LET linked  == InsertStatement(l, t, s, 1)
      before  == InsertStatement(linked, t, s, 2)
      between == InsertStatement(before, t, s, 3)
  IN  InsertStatement(between, t, s, 4)

\* The task zrt_insertTask links t before: the first one after the head whose
\* priority is not higher, or else the head.  NULL: the scan does not end or there
\* is no list.
PlaceFor(l, t) ==
  LET w == Walk(l, l.next[l.head])
      fits == Met(w, LAMBDA n : Prio(n) <= Prio(t))
  IN  IF l.head = NULL THEN NULL
      ELSE IF fits # {} THEN w[Least(fits)] ELSE IF Endless(w) THEN NULL ELSE l.head

\* Mutant: the head stays
SuspendKeepsHead(l, t, k) ==
  CASE k = 1 -> IF l.prev[t] # NULL THEN [l EXCEPT !.next[l.prev[t]] = l.next[t]] ELSE l
    [] k = 2 -> l
    [] k = 3 -> IF l.next[t] # NULL THEN [l EXCEPT !.prev[l.next[t]] = l.prev[t]] ELSE l
    [] k = 4 -> [l EXCEPT !.next[t] = NULL]
    [] k = 5 -> [l EXCEPT !.prev[t] = NULL]

\* The statements of zrt_suspend.
SuspendStatement(l, t, k) ==
  CASE k = 1 -> IF l.prev[t] # NULL THEN [l EXCEPT !.next[l.prev[t]] = l.next[t]] ELSE l
    [] k = 2 -> IF l.head = t THEN [l EXCEPT !.head = l.next[t]] ELSE l
    [] k = 3 -> IF l.next[t] # NULL THEN [l EXCEPT !.prev[l.next[t]] = l.prev[t]] ELSE l
    [] k = 4 -> [l EXCEPT !.next[t] = NULL]
    [] k = 5 -> [l EXCEPT !.prev[t] = NULL]

\* Mutant: the next task is picked, and the list is not a ring
PickNext(l, c) == [ok |-> TRUE, list |-> l, task |-> l.next[c]]

\* Mutant: the running task keeps its place
PickFirst(l, c) == [ok |-> TRUE, list |-> l, task |-> l.head]

\* zrt_pickTask: the running task moves behind all of its priority or a higher
\* one, and the head of the list is picked.
PickTask(l, c) ==
  LET w == Walk(l, l.next[c])
      lower == Met(w, LAMBDA n : Prio(n) < Prio(c))
      sibling == w[Least(lower)]
      behind == IF l.prev[c] = NULL THEN l ELSE [l EXCEPT !.next[l.prev[c]] = l.next[c]]
      unlinked == [behind EXCEPT !.prev[behind.next[c]] = l.prev[c],
                                 !.head = IF l.head = c THEN behind.next[c] ELSE l.head]
      moved == InsertBefore(unlinked, c, sibling)
      picked(m) == [ok |-> m.head # NULL, list |-> m, task |-> m.head]
  IN  IF l.next[c] = NULL THEN picked(l)
      ELSE IF lower = {} THEN [ok |-> FALSE, list |-> l, task |-> NULL]
      ELSE IF l.prev[sibling] = c THEN picked(l)
      ELSE picked(moved)

\* zrt_wakeup, in an interrupt.
WakeUp(result, t) ==
  LET s == PlaceFor(result.list, t)
  IN  IF ~result.ok \/ s = NULL THEN [result EXCEPT !.ok = FALSE]
      ELSE [result EXCEPT !.list = InsertBefore(result.list, t, s)]

\* zrt_wakeup of those tasks of q that are due, in turn.
WakeDue(l, q, due) ==
  LET woken[k \in 0..Len(q)] ==
        IF k = 0 THEN [ok |-> TRUE, list |-> l]
        ELSE IF q[k] \in due THEN WakeUp(woken[k - 1], q[k]) ELSE woken[k - 1]
  IN  woken[Len(q)]

Empty == [next |-> [n \in Nodes |-> NULL], prev |-> [n \in Nodes |-> NULL], head |-> Idle]

\* Where a task can be: not created yet, in its own code, or at a statement of ZRT.
Places == {"absent", "run", "critical", "retry", "join", "enqueue", "timer", "suspend",
           "schedule", "switch", "left", "take", "empty", "wake", "insert", "next"}

\* start.S creates _premain, and zrt_main starts the head of the list.
Init ==
  /\ list = InsertBefore(Empty, 1, Idle)
  /\ current = list.head
  /\ val = 1 /\ queue = NULL /\ qnext = [t \in Tasks |-> NULL]
  /\ timers = <<>> /\ left = [t \in Tasks |-> 0] /\ misplaced = {}
  /\ pc = [t \in Tasks |-> IF t = 1 THEN "run" ELSE "absent"]
  /\ op = [t \in Tasks |-> "none"]
  /\ stmt = [t \in Tasks |-> 1]
  /\ entry = [t \in Tasks |-> NULL] /\ place = [t \in Tasks |-> NULL]
  /\ need = [t \in Tasks |-> FALSE]
  /\ hung = FALSE /\ races = 0

(***************************************************************************)
(* The tasks.                                                              *)
(***************************************************************************)
\* A task on whose stack the processor still is, while zrt_currentTask is another.
Straddling == \E t \in Tasks : pc[t] = "left"

At(t, here) == current = t /\ pc[t] = here /\ ~hung /\ ~Straddling
Go(t, there) == pc' = [pc EXCEPT ![t] = there]

\* A local variable that is not read again.
Forget(t) == entry' = [entry EXCEPT ![t] = NULL]

\* zrt_createTask, called by t.
Create(t, new) ==
  /\ At(t, "run") \/ At(t, "critical")
  /\ pc[new] = "absent"
  /\ LET s == PlaceFor(list, new)
     IN  /\ hung' = (s = NULL)
         /\ list' = IF s = NULL THEN list ELSE InsertBefore(list, new, s)
  /\ Go(new, "run")
  /\ UNCHANGED <<current, mutex, sleep, op, stmt, entry, place, need, races>>

\* Mutant: the old value is tested
Old(before, after) == before

\* pv
Tested(before, after) == after

\* zrt_mutex_lock up to its __enable_interrupts, also after retry_lock.
Lock(t) ==
  /\ At(t, "run") \/ At(t, "retry")
  /\ val' = val - 1
  /\ IF Tested(val, val') < 0
     THEN Go(t, "join") /\ op' = [op EXCEPT ![t] = "lock"] /\ UNCHANGED qnext
     ELSE /\ Go(t, "critical") /\ op' = [op EXCEPT ![t] = "none"]
          /\ qnext' = [qnext EXCEPT ![t] = NULL]
  /\ UNCHANGED <<list, current, queue, sleep, stmt, entry, place, need, hung, races>>

\* Mutant: the queue is not linked behind the new entry
JoinAlone(t) ==
  /\ At(t, "join")
  /\ qnext' = [qnext EXCEPT ![t] = NULL]
  /\ Go(t, "enqueue")
  /\ UNCHANGED <<list, current, val, queue, sleep, op, stmt, entry, place, need, hung,
                 races>>

\* The two statements of zrt_waitqueue_add.
Join(t) ==
  /\ At(t, "join")
  /\ qnext' = [qnext EXCEPT ![t] = queue]
  /\ Go(t, "enqueue")
  /\ UNCHANGED <<list, current, val, queue, sleep, op, stmt, entry, place, need, hung,
                 races>>

Enqueue(t) ==
  /\ At(t, "enqueue")
  /\ queue' = t
  /\ Go(t, "suspend")
  /\ UNCHANGED <<list, current, val, qnext, sleep, op, stmt, entry, place, need, hung,
                 races>>

\* zrt_sleep up to the search of zrt_timerAdd, which ends at the first timer
\* that does not expire later, or at the last one.
Sleep(t) ==
  /\ At(t, "run")
  /\ \E ticks \in Naps :
       /\ left' = [left EXCEPT ![t] = ticks]
       /\ LET ends == {i \in DOMAIN timers : left[timers[i]] <= ticks \/ i = Len(timers)}
          IN  entry' = [entry EXCEPT ![t] = IF timers = <<>> THEN NULL
                                            ELSE timers[Least(ends)]]
  /\ op' = [op EXCEPT ![t] = "sleep"] /\ Go(t, "timer")
  /\ UNCHANGED <<list, current, mutex, timers, misplaced, stmt, place, need, hung, races>>

\* The list with the timer of t linked behind the one the search ended at, which
\* may have left the list.
TimersWith(t) ==
  IF entry[t] = NULL THEN <<t>>
  ELSE IF entry[t] \notin Range(timers) THEN timers
  ELSE LET i == CHOOSE j \in DOMAIN timers : timers[j] = entry[t]
       IN  InsertAt(timers, i + 1, t)

AddTimer(t) ==
  /\ At(t, "timer")
  /\ timers' = TimersWith(t)
  /\ misplaced' = {timers'[i] : i \in {j \in DOMAIN timers' :
                     \E k \in DOMAIN timers' : k > j /\ left[timers'[k]] < left[timers'[j]]}}
                  \union misplaced
  /\ Go(t, "suspend") /\ Forget(t)
  /\ UNCHANGED <<list, current, mutex, left, op, stmt, place, need, hung, races>>

Suspend(t) ==
  /\ At(t, "suspend")
  /\ list' = SuspendStatement(list, t, stmt[t])
  /\ stmt' = [stmt EXCEPT ![t] = IF stmt[t] = 5 THEN 1 ELSE stmt[t] + 1]
  /\ Go(t, IF stmt[t] = 5 THEN "schedule" ELSE "suspend")
  /\ UNCHANGED <<current, mutex, sleep, op, entry, place, need, hung, races>>

\* zrt_schedule picks a task.  Interrupts are enabled before it is switched to.
Schedule(t) ==
  /\ At(t, "schedule")
  /\ LET p == PickTask(list, t)
     IN  list' = p.list /\ place' = [place EXCEPT ![t] = p.task] /\ hung' = ~p.ok
  /\ Go(t, "switch")
  /\ UNCHANGED <<current, mutex, sleep, op, stmt, entry, need, races>>

\* ___switch_to saves the context of t and makes the other task the current one,
Switch(t) ==
  /\ At(t, "switch")
  /\ current' = place[t]
  /\ Go(t, "left")
  /\ place' = [place EXCEPT ![t] = NULL]
  /\ UNCHANGED <<list, mutex, sleep, op, stmt, entry, need, hung, races>>

\* and takes up that one's stack and program counter.  When t runs again it tries the
\* lock again, or its call has returned.
Arrive(t) ==
  /\ pc[t] = "left" /\ ~hung
  /\ Go(t, IF op[t] = "lock" THEN "retry" ELSE "run")
  /\ UNCHANGED <<list, current, mutex, sleep, op, stmt, entry, place, need, hung, races>>

Unlock(t) ==
  /\ At(t, "critical")
  /\ val' = 1
  /\ need' = [need EXCEPT ![t] = queue # NULL]
  /\ op' = [op EXCEPT ![t] = "unlock"]
  /\ Go(t, "take")
  /\ UNCHANGED <<list, current, queue, qnext, sleep, stmt, entry, place, hung, races>>

\* zrt_waitqueue_wakeup takes the queue in two statements,
TakeQueue(t) ==
  /\ At(t, "take")
  /\ entry' = [entry EXCEPT ![t] = queue]
  /\ Go(t, "empty")
  /\ UNCHANGED <<list, current, mutex, sleep, op, stmt, place, need, hung, races>>

EmptyQueue(t) ==
  /\ At(t, "empty")
  /\ queue' = NULL
  /\ Go(t, "wake")
  /\ UNCHANGED <<list, current, val, qnext, sleep, op, stmt, entry, place, need, hung,
                 races>>

\* goes through its entries,
Wake(t) ==
  /\ At(t, "wake")
  /\ IF entry[t] = NULL
     THEN /\ Go(t, IF need[t] THEN "schedule" ELSE "run")
          /\ need' = [need EXCEPT ![t] = FALSE]
          /\ UNCHANGED <<place, hung>>
     ELSE /\ place' = [place EXCEPT ![t] = PlaceFor(list, entry[t])]
          /\ hung' = (place'[t] = NULL)
          /\ Go(t, "insert") /\ UNCHANGED need
  /\ UNCHANGED <<list, current, mutex, sleep, op, stmt, entry, races>>

\* inserts each task in the run list,
Insert(t) ==
  /\ At(t, "insert")
  /\ list' = InsertStatement(list, entry[t], place[t], stmt[t])
  /\ stmt' = [stmt EXCEPT ![t] = IF stmt[t] = 4 THEN 1 ELSE stmt[t] + 1]
  /\ Go(t, IF stmt[t] = 4 THEN "next" ELSE "insert")
  /\ UNCHANGED <<current, mutex, sleep, op, entry, place, need, hung, races>>

\* and reads the next entry from the stack of the woken task, which may have run
\* and left zrt_mutex_lock.
NextEntry(t) ==
  /\ At(t, "next")
  /\ entry' = [entry EXCEPT ![t] = qnext[entry[t]]]
  /\ hung' = (op[entry[t]] # "lock")
  /\ Go(t, "wake")
  /\ UNCHANGED <<list, current, mutex, sleep, op, stmt, place, need, races>>

Step(t) ==
  \/ \E new \in Tasks : Create(t, new)
  \/ Lock(t) \/ Join(t) \/ Enqueue(t)
  \/ Sleep(t) \/ AddTimer(t)
  \/ Suspend(t) \/ Schedule(t) \/ Switch(t) \/ Arrive(t)
  \/ Unlock(t) \/ TakeQueue(t) \/ EmptyQueue(t) \/ Wake(t) \/ Insert(t) \/ NextEntry(t)

(***************************************************************************)
(* The tick.                                                               *)
(***************************************************************************)
\* Where a task must not lose the processor.
Exposed(t) ==
  pc[t] \in {"join", "enqueue", "timer", "suspend", "switch", "empty", "insert", "next"}

\* What is left of a sleep after one more tick.
Counted(ticks) == IF ticks = 0 THEN 0 ELSE ticks - 1

\* The timers behind the last one that has expired: all before it are dropped.
Remaining(due) ==
  LET last == CHOOSE i \in 0..Len(timers) :
                /\ i = 0 \/ timers[i] \in due
                /\ \A j \in i + 1 .. Len(timers) : timers[j] \notin due
  IN  SubSeq(timers, last + 1, Len(timers))

\* The tick saves the program counter and the stack pointer in the TCB of the current
\* task.  In the middle of ___switch_to that TCB has been filled in already, or is
\* that of the other task, whose own context is overwritten.
LoseContext ==
  /\ Straddling \/ (current # Idle /\ pc[current] = "switch")
  /\ hung' = TRUE
  /\ UNCHANGED <<list, current, sleep>>

\* zrt_timerRun(), zrt_sched_tail(), and the switch to the task that picks.
Run ==
  /\ ~Straddling
  /\ LET passed == [t \in Tasks |-> Counted(left[t])]
         due    == {t \in Range(timers) : passed[t] = 0}
         woken  == WakeDue(list, timers, due)
         picked == PickTask(woken.list, current)
     IN  /\ left' = passed
         /\ misplaced' = misplaced \ due
         /\ timers' = Remaining(due)
         /\ IF woken.ok /\ picked.ok
            THEN list' = picked.list /\ current' = picked.task /\ hung' = FALSE
            ELSE hung' = TRUE /\ UNCHANGED <<list, current>>

Tick ==
  /\ ~hung
  /\ LoseContext \/ Run
  /\ races' = IF Straddling \/ (current # Idle /\ Exposed(current)) THEN races + 1
              ELSE races
  /\ races' <= MaxRaces
  /\ UNCHANGED <<mutex, threads>>

Next == Tick \/ \E t \in Tasks : Step(t)

Spec == Init /\ [][Next]_vars

(***************************************************************************)
(* Properties.                                                             *)
(***************************************************************************)
\* Every variable has its type: no step makes a task of what is none.
TypeOK ==
  /\ list \in [next : [Nodes -> Nodes \union {NULL}], prev : [Nodes -> Nodes \union {NULL}],
               head : Nodes \union {NULL}]
  /\ current \in Nodes /\ val \in Int /\ val <= 1
  /\ queue \in Tasks \union {NULL} /\ qnext \in [Tasks -> Tasks \union {NULL}]
  /\ timers \in Seq(Tasks) /\ left \in [Tasks -> Nat]
  /\ pc \in [Tasks -> Places] /\ stmt \in [Tasks -> 1..5]
  /\ entry \in [Tasks -> Tasks \union {NULL}] /\ place \in [Tasks -> Nodes \union {NULL}]
  /\ op \in [Tasks -> {"none", "lock", "unlock", "sleep"}]
  /\ need \in [Tasks -> BOOLEAN] /\ hung \in BOOLEAN

\* "Mutex locked by others": at most one task is between lock and unlock, wherever
\* the tick comes, until a walk, an entry or a context is lost.  What is lost is
\* named in hung: a tick in the middle of ___switch_to, for one, after which the
\* stack of one task may be run as another.
MutualExclusion ==
  hung \/ \A t, u \in Tasks : pc[t] = "critical" /\ pc[u] = "critical" => t = u

\* The tasks in the run list.
Listed == ({list.head} \union Range(list.next)) \ {NULL}
AtRest == current = Idle \/ pc[current] \notin {"suspend", "insert"}

\* Unless the tick came at an exposed place, the run list is a list: every task
\* is reached once from the head, back links mirror the links, idle is the last,
\* and behind the head the priorities descend.
RunListSound ==
  races = 0 /\ AtRest =>
    /\ ~hung
    /\ LET w == Walk(list, list.head)
           reached == {w[k] : k \in 0..NTasks + 1} \ {NULL}
       IN  ~Endless(w) /\ Listed = reached /\ list.next[Idle] = NULL /\ Idle \in reached
    /\ \A n \in Listed : list.next[n] # NULL =>
         /\ list.prev[list.next[n]] = n
         /\ n # list.head => Prio(n) >= Prio(list.next[n])
    /\ list.prev[list.head] = NULL

\* Unless the tick came at an exposed place, a task that has been created and is not
\* in the run list will be put there: it is in the queue of a mutex that is held or
\* being released, or a timer will wake it, or zrt_timerAdd has put its timer before
\* one that ends earlier.
InQueue(t) ==
  LET q[k \in 0..NTasks] == IF k = 0 THEN queue ELSE IF q[k - 1] = NULL THEN NULL
                            ELSE qnext[q[k - 1]]
  IN  \E k \in 0..NTasks : q[k] = t

NobodyForgotten ==
  races = 0 /\ AtRest =>
    \A t \in Tasks \ Listed : pc[t] # "absent" =>
      CASE op[t] = "lock" -> \E u \in Tasks : \/ pc[u] = "critical" /\ InQueue(t)
                                              \/ pc[u] \in {"take", "empty", "wake", "next"}
        [] op[t] = "sleep" -> t \in Range(timers) \/ t \in misplaced
        [] OTHER -> FALSE

\* A tick gives the processor to a task of the highest priority, unless it came
\* while the processor idled or a task had just suspended itself.
PicksHighest ==
  [][Tick /\ races' = 0 /\ ~hung' /\ current # Idle /\ current \in Listed =>
       \A n \in Listed' : Prio(n) <= Prio(current')]_vars
================================================================================
