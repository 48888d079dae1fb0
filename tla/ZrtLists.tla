-------------------------------- MODULE ZrtLists --------------------------------
(***************************************************************************)
(* Lemmas about the operators of Zrt: what the lists of ZRT are made of,   *)
(* whatever they have become, and what zrt_insertTask, zrt_suspend,        *)
(* zrt_wakeup and zrt_pickTask make of a list that is sound.               *)
(***************************************************************************)
EXTENDS Zrt, Induction, FiniteSetTheorems

(***************************************************************************)
(* The types of the operators, for any list.                               *)
(***************************************************************************)
Ends == Nodes \union {NULL}
Lists == [next : [Nodes -> Ends], prev : [Nodes -> Ends], head : Ends]

LEMMA Bounds ==
  /\ NTasks \in Nat /\ Tasks \subseteq Nodes /\ Idle \in Nodes /\ NULL \notin Nodes
  /\ Idle \notin Tasks /\ Nodes = Tasks \union {Idle} /\ NTasks + 1 \in Nat
  /\ Naps \subseteq Nat /\ 1 \in Tasks
BY ZrtAssumption DEF Tasks, Nodes, Idle, NULL

LEMMA LeastIn ==
  ASSUME NEW S \in SUBSET Nat, S # {}
  PROVE  Least(S) \in S /\ \A j \in S : Least(S) <= j
<1>1. \E k \in S : \A j \in S : k <= j
  BY LeastOf
<1> QED
  BY <1>1 DEF Least

\* One step of a walk.
After(l, n) == IF n = NULL THEN NULL ELSE l.next[n]

IsWalk(w, l, n) ==
  w = [k \in 0..NTasks + 1 |-> IF k = 0 THEN n ELSE IF w[k - 1] = NULL THEN NULL
                               ELSE l.next[w[k - 1]]]

LEMMA WalkExists ==
  ASSUME NEW l \in Lists, NEW n \in Ends
  PROVE  \E w \in [0..NTasks + 1 -> Ends] : IsWalk(w, l, n)
<1> DEFINE g == [k \in Nat |-> [e \in Ends |-> After(l, e)]]
<1>1. \A e \in Ends : After(l, e) \in Ends
  BY DEF After, Lists, Ends
<1>2. g \in [Nat -> [Ends -> Ends]]
  BY <1>1
<1> HIDE DEF g
<1>3. PICK w \in [0..NTasks + 1 -> Ends] : Follows(w, n, g, NTasks + 1)
  BY <1>2, Bounds, Recursion
<1>4. w[0] = n
  BY <1>3 DEF Follows
<1>5. ASSUME NEW k \in 1..NTasks + 1
      PROVE  w[k] = After(l, w[k - 1])
  <2>1. w[k - 1] \in Ends /\ k \in Nat
    BY Bounds
  <2>2. w[k] = g[k][w[k - 1]]
    BY <1>3 DEF Follows
  <2> QED
    BY <2>1, <2>2 DEF g
<1>6. \A k \in 0..NTasks + 1 : k = 0 \/ k \in 1..NTasks + 1
  BY Bounds
<1>7. w = [k \in 0..NTasks + 1 |-> IF k = 0 THEN n ELSE After(l, w[k - 1])]
  BY <1>4, <1>5, <1>6
<1> QED
  BY <1>7, Zenon DEF IsWalk, After

LEMMA WalkType ==
  ASSUME NEW l \in Lists, NEW n \in Ends
  PROVE  /\ Walk(l, n) \in [0..NTasks + 1 -> Ends] /\ Walk(l, n)[0] = n
         /\ \A k \in 1..NTasks + 1 : Walk(l, n)[k] = After(l, Walk(l, n)[k - 1])
<1>1. Walk(l, n) = CHOOSE w : IsWalk(w, l, n)
  BY DEF Walk, IsWalk
<1>2. IsWalk(Walk(l, n), l, n)
  BY <1>1, WalkExists
<1> DEFINE w == Walk(l, n)
<1> HIDE DEF w
<1>3. IsWalk(w, l, n)
  BY <1>2 DEF w
<1>4. w[0] = n /\ \A k \in 1..NTasks + 1 : w[k] = After(l, w[k - 1])
  BY <1>3, Bounds DEF IsWalk, After
<1>5. w \in [0..NTasks + 1 -> Ends]
  <2>1. DOMAIN w = 0..NTasks + 1
    BY <1>3 DEF IsWalk
  <2> DEFINE S == {k \in Nat : k <= NTasks + 1 => w[k] \in Ends}
  <2>2. 0 \in S
    BY <1>4
  <2>3. ASSUME NEW k \in 0..NTasks, k \in S PROVE k + 1 \in S
    <3>1. k + 1 \in 1..NTasks + 1 /\ (k + 1) - 1 = k
      BY Bounds
    <3>2. w[k + 1] = After(l, w[k])
      BY <1>4, <3>1
    <3>3. w[k] \in Ends
      BY <2>3, <3>1, Bounds
    <3> QED
      BY <3>1, <3>2, <3>3 DEF After, Lists, Ends
  <2>4. 0..NTasks + 1 \subseteq S
    <3> HIDE DEF S
    <3>1. (NTasks + 1) - 1 = NTasks
      BY Bounds
    <3> QED
      BY <2>2, <2>3, <3>1, Bounds, BoundedInduction
  <2>5. \A k \in 0..NTasks + 1 : w[k] \in Ends
    BY <2>4, Bounds
  <2>6. w = [k \in 0..NTasks + 1 |-> w[k]]
    BY <1>3 DEF IsWalk
  <2> QED
    BY <2>5, <2>6
<1> QED
  BY <1>4, <1>5 DEF w

\* The places of a walk where something is met.
LEMMA FirstMet ==
  ASSUME NEW S \in SUBSET (0..NTasks + 1), S # {}
  PROVE  Least(S) \in S /\ \A j \in S : Least(S) <= j
BY Bounds, LeastIn

LEMMA PlaceType ==
  ASSUME NEW l \in Lists, NEW t \in Tasks
  PROVE  PlaceFor(l, t) \in Ends
<1> DEFINE w == Walk(l, l.next[l.head])
           fits == {k \in 0..NTasks + 1 : w[k] # NULL /\ Prio(w[k]) <= Prio(t)}
<1>1. PlaceFor(l, t) = IF l.head = NULL THEN NULL
                       ELSE IF fits # {} THEN w[Least(fits)]
                       ELSE IF Endless(w) THEN NULL ELSE l.head
  BY DEF PlaceFor, Met
<1>2. ASSUME l.head # NULL, fits # {} PROVE w[Least(fits)] \in Ends
  <2>1. l.next[l.head] \in Ends
    BY <1>2 DEF Lists, Ends
  <2>2. w \in [0..NTasks + 1 -> Ends]
    BY <2>1, WalkType
  <2>3. Least(fits) \in 0..NTasks + 1
    BY <1>2, FirstMet
  <2> QED
    BY <2>2, <2>3
<1>3. NULL \in Ends /\ l.head \in Ends
  BY DEF Lists, Ends
<1> QED
  BY <1>1, <1>2, <1>3

LEMMA StatementType ==
  ASSUME NEW l \in Lists, NEW t \in Nodes, NEW s \in Nodes, NEW k \in 1..4
  PROVE  InsertStatement(l, t, s, k) \in Lists
<1>1. CASE k = 1
  BY <1>1 DEF InsertStatement, Lists, Ends
<1>2. CASE k = 2
  BY <1>2 DEF InsertStatement, Lists, Ends
<1>3. CASE k = 3
  BY <1>3 DEF InsertStatement, Lists, Ends
<1>4. CASE k = 4
  BY <1>4 DEF InsertStatement, Lists, Ends
<1> QED
  BY <1>1, <1>2, <1>3, <1>4

LEMMA SuspendType ==
  ASSUME NEW l \in Lists, NEW t \in Nodes, NEW k \in 1..5
  PROVE  SuspendStatement(l, t, k) \in Lists
<1>1. CASE k = 1
  BY <1>1 DEF SuspendStatement, Lists, Ends
<1>2. CASE k = 2
  BY <1>2 DEF SuspendStatement, Lists, Ends
<1>3. CASE k = 3
  BY <1>3 DEF SuspendStatement, Lists, Ends
<1>4. CASE k = 4
  BY <1>4 DEF SuspendStatement, Lists, Ends
<1>5. CASE k = 5
  BY <1>5 DEF SuspendStatement, Lists, Ends
<1> QED
  BY <1>1, <1>2, <1>3, <1>4, <1>5

LEMMA InsertType ==
  ASSUME NEW l \in Lists, NEW t \in Nodes, NEW s \in Nodes
  PROVE  InsertBefore(l, t, s) \in Lists
<1> DEFINE linked  == InsertStatement(l, t, s, 1)
           before  == InsertStatement(linked, t, s, 2)
           between == InsertStatement(before, t, s, 3)
<1>1. linked \in Lists
  BY StatementType
<1>2. before \in Lists
  <2> HIDE DEF linked
  <2> QED
    BY <1>1, StatementType
<1>3. between \in Lists
  <2> HIDE DEF before
  <2> QED
    BY <1>2, StatementType
<1>4. InsertStatement(between, t, s, 4) \in Lists
  <2> HIDE DEF between
  <2> QED
    BY <1>3, StatementType
<1> QED
  BY <1>4 DEF InsertBefore

\* What picking a task gives, and waking one.
Picked(p) == p.ok \in BOOLEAN /\ p.list \in Lists /\ p.task \in Ends /\ (p.ok => p.task \in Nodes)
Results == [ok : BOOLEAN, list : Lists]

LEMMA WakeType ==
  ASSUME NEW r \in Results, NEW t \in Tasks
  PROVE  WakeUp(r, t) \in Results
<1> DEFINE s == PlaceFor(r.list, t)
<1>1. s \in Ends
  BY PlaceType DEF Results
<1>2. WakeUp(r, t) = IF ~r.ok \/ s = NULL THEN [r EXCEPT !.ok = FALSE]
                     ELSE [r EXCEPT !.list = InsertBefore(r.list, t, s)]
  BY DEF WakeUp
<1>3. CASE ~r.ok \/ s = NULL
  <2>1. WakeUp(r, t) = [ok |-> FALSE, list |-> r.list]
    BY <1>2, <1>3 DEF Results
  <2> QED
    BY <2>1 DEF Results
<1>4. CASE ~(~r.ok \/ s = NULL)
  <2> HIDE DEF s
  <2>1. InsertBefore(r.list, t, s) \in Lists
    BY <1>1, <1>4, Bounds, InsertType DEF Ends, Results
  <2>2. WakeUp(r, t) = [ok |-> r.ok, list |-> InsertBefore(r.list, t, s)]
    BY <1>2, <1>4 DEF Results
  <2> QED
    BY <2>1, <2>2 DEF Results
<1> QED
  BY <1>3, <1>4

LEMMA PickType ==
  ASSUME NEW l \in Lists, NEW c \in Nodes
  PROVE  Picked(PickTask(l, c))
<1> DEFINE w == Walk(l, l.next[c])
           lower == {k \in 0..NTasks + 1 : w[k] # NULL /\ Prio(w[k]) < Prio(c)}
           sibling == w[Least(lower)]
           behind == IF l.prev[c] = NULL THEN l ELSE [l EXCEPT !.next[l.prev[c]] = l.next[c]]
           unlinked == [behind EXCEPT !.prev[behind.next[c]] = l.prev[c],
                                      !.head = IF l.head = c THEN behind.next[c] ELSE l.head]
           moved == InsertBefore(unlinked, c, sibling)
           pick(m) == [ok |-> m.head # NULL, list |-> m, task |-> m.head]
<1>1. PickTask(l, c) = IF l.next[c] = NULL THEN pick(l)
                       ELSE IF lower = {} THEN [ok |-> FALSE, list |-> l, task |-> NULL]
                       ELSE IF l.prev[sibling] = c THEN pick(l)
                       ELSE pick(moved)
  BY DEF PickTask, Met
<1>2. ASSUME NEW m \in Lists PROVE Picked(pick(m))
  BY DEF Picked, Lists, Ends
<1>3. Picked([ok |-> FALSE, list |-> l, task |-> NULL])
  BY DEF Picked, Ends
<1>4. ASSUME l.next[c] # NULL, lower # {} PROVE moved \in Lists
  <2>1. l.next[c] \in Nodes
    BY <1>4 DEF Lists, Ends
  <2>2. w \in [0..NTasks + 1 -> Ends]
    BY <2>1, WalkType DEF Ends
  <2>3. Least(lower) \in lower
    BY <1>4, FirstMet
  <2>4. sibling \in Nodes
    BY <2>2, <2>3 DEF Ends
  <2>5. behind \in Lists /\ behind.next[c] = l.next[c] /\ behind.prev = l.prev
    BY <2>1 DEF Lists, Ends
  <2>6. unlinked \in Lists
    <3> HIDE DEF behind
    <3> QED
      BY <2>1, <2>5 DEF Lists, Ends
  <2> HIDE DEF unlinked, sibling
  <2> QED
    BY <2>4, <2>6, InsertType
<1> HIDE DEF moved, pick, w, lower, sibling
<1> QED
  BY <1>1, <1>2, <1>3, <1>4

\* f is the course of zrt_wakeup over those tasks of q that are due.
Course(f, l, q, due) ==
  /\ f[0] = [ok |-> TRUE, list |-> l]
  /\ \A k \in 1..Len(q) : f[k] = IF q[k] \in due THEN WakeUp(f[k - 1], q[k]) ELSE f[k - 1]

IsCourse(f, l, q, due) ==
  f = [k \in 0..Len(q) |-> IF k = 0 THEN [ok |-> TRUE, list |-> l]
                           ELSE IF q[k] \in due THEN WakeUp(f[k - 1], q[k]) ELSE f[k - 1]]

LEMMA CourseExists ==
  ASSUME NEW l \in Lists, NEW q \in Seq(Tasks), NEW due
  PROVE  \E f \in [0..Len(q) -> Results] :
           Course(f, l, q, due) /\ WakeDue(l, q, due) = f[Len(q)]
<1> DEFINE one(k, r) == IF k \in 1..Len(q) /\ q[k] \in due THEN WakeUp(r, q[k]) ELSE r
           g == [k \in Nat |-> [r \in Results |-> one(k, r)]]
<1>1. \A k \in Nat : \A r \in Results : one(k, r) \in Results
  BY WakeType
<1>2. g \in [Nat -> [Results -> Results]]
  BY <1>1
<1>3. [ok |-> TRUE, list |-> l] \in Results
  BY DEF Results
<1> HIDE DEF g
<1>4. PICK f \in [0..Len(q) -> Results] : Follows(f, [ok |-> TRUE, list |-> l], g, Len(q))
  BY <1>2, <1>3, Recursion
<1>5. ASSUME NEW k \in 1..Len(q)
      PROVE  f[k] = IF q[k] \in due THEN WakeUp(f[k - 1], q[k]) ELSE f[k - 1]
  <2>1. f[k - 1] \in Results /\ k \in Nat
    OBVIOUS
  <2>2. f[k] = g[k][f[k - 1]]
    BY <1>4 DEF Follows
  <2> QED
    BY <2>1, <2>2 DEF g
<1>6. Course(f, l, q, due)
  BY <1>4, <1>5 DEF Follows, Course
<1>7. \A k \in 0..Len(q) : k = 0 \/ k \in 1..Len(q)
  OBVIOUS
<1>8. IsCourse(f, l, q, due)
  BY <1>4, <1>5, <1>7 DEF Follows, IsCourse
<1> DEFINE h == CHOOSE x : IsCourse(x, l, q, due)
<1>9. WakeDue(l, q, due) = h[Len(q)]
  BY DEF WakeDue, IsCourse
<1>10. IsCourse(h, l, q, due)
  BY <1>8
<1> HIDE DEF h
<1>11. h \in [0..Len(q) -> Results] /\ Course(h, l, q, due)
  <2>1. Course(h, l, q, due)
    <3>1. h[0] = [ok |-> TRUE, list |-> l]
      BY <1>10 DEF IsCourse
    <3>2. ASSUME NEW k \in 1..Len(q)
          PROVE  h[k] = IF q[k] \in due THEN WakeUp(h[k - 1], q[k]) ELSE h[k - 1]
      <4>1. k \in 0..Len(q) /\ k # 0
        OBVIOUS
      <4> QED
        BY <1>10, <4>1, Zenon DEF IsCourse
    <3> QED
      BY <3>1, <3>2 DEF Course
  <2> DEFINE S == {k \in Nat : k <= Len(q) => h[k] \in Results}
  <2>2. 0 \in S
    BY <1>3, <2>1 DEF Course
  <2>3. ASSUME NEW k \in 0..Len(q) - 1, k \in S PROVE k + 1 \in S
    <3>1. k + 1 \in 1..Len(q) /\ (k + 1) - 1 = k /\ h[k] \in Results
      BY <2>3
    <3>2. q[k + 1] \in Tasks
      BY <3>1
    <3>3. h[k + 1] \in {WakeUp(h[k], q[k + 1]), h[k]}
      BY <2>1, <3>1 DEF Course
    <3>4. h[k + 1] \in Results
      BY <3>1, <3>2, <3>3, WakeType
    <3> QED
      BY <3>1, <3>4
  <2>4. 0..Len(q) \subseteq S
    <3> HIDE DEF S
    <3>1. Len(q) \in Nat /\ \A k \in 0..Len(q) - 1 : k \in S => k + 1 \in S
      BY <2>3
    <3> QED
      BY <2>2, <3>1, BoundedInduction, Zenon
  <2>5. h = [k \in 0..Len(q) |-> h[k]]
    BY <1>10 DEF IsCourse
  <2>6. \A k \in 0..Len(q) : h[k] \in Results
    BY <2>4
  <2> QED
    BY <2>1, <2>5, <2>6
<1> QED
  BY <1>9, <1>11

LEMMA EmptyType == Empty \in Lists
BY Bounds DEF Empty, Lists, Ends

\* q is s with x behind its i-th element.
Inserted(q, s, i, x) ==
  /\ Len(q) = Len(s) + 1
  /\ \A j \in 1..Len(q) : q[j] = IF j <= i THEN s[j] ELSE IF j = i + 1 THEN x ELSE s[j - 1]

LEMMA InsertAtIs ==
  ASSUME NEW S, NEW s \in Seq(S), NEW i \in 0..Len(s), NEW x \in S
  PROVE  InsertAt(s, i + 1, x) \in Seq(S) /\ Inserted(InsertAt(s, i + 1, x), s, i, x)
<1> DEFINE a == SubSeq(s, 1, i)
           b == SubSeq(s, i + 1, Len(s))
<1>1. a \in Seq(S) /\ Len(a) = i /\ \A j \in 1..i : a[j] = s[j]
  OBVIOUS
<1>2. b \in Seq(S) /\ Len(b) = Len(s) - i /\ \A j \in 1..Len(s) - i : b[j] = s[i + j]
  OBVIOUS
<1>3. InsertAt(s, i + 1, x) = a \o <<x>> \o b
  <2>1. (i + 1) - 1 = i
    OBVIOUS
  <2> QED
    BY <2>1 DEF InsertAt
<1> HIDE DEF a, b
<1>4. a \o <<x>> \in Seq(S) /\ Len(a \o <<x>>) = i + 1
      /\ \A j \in 1..i + 1 : (a \o <<x>>)[j] = IF j <= i THEN s[j] ELSE x
  BY <1>1
<1> DEFINE c == a \o <<x>>
<1> HIDE DEF c
<1>5. c \in Seq(S) /\ Len(c) = i + 1 /\ \A j \in 1..i + 1 : c[j] = IF j <= i THEN s[j] ELSE x
  BY <1>4 DEF c
<1>6. c \o b \in Seq(S) /\ Len(c \o b) = Len(s) + 1
  <2>1. c \in Seq(S) /\ Len(c) = i + 1
    BY <1>5
  <2>2. b \in Seq(S) /\ Len(b) = Len(s) - i /\ Len(s) \in Nat
    BY <1>2
  <2>3. c \o b \in Seq(S) /\ Len(c \o b) = Len(c) + Len(b)
    BY <2>1, <2>2
  <2>4. Len(c) + Len(b) = Len(s) + 1
    BY <2>1, <2>2
  <2> QED
    BY <2>3, <2>4
<1>7. ASSUME NEW j \in 1..Len(s) + 1
      PROVE  (c \o b)[j] = IF j <= i THEN s[j] ELSE IF j = i + 1 THEN x ELSE s[j - 1]
  <2>1. CASE j <= i + 1
    BY <1>2, <1>5, <2>1
  <2>2. CASE j > i + 1
    <3>1. (c \o b)[j] = b[j - (i + 1)]
      BY <1>2, <1>5, <2>2
    <3>2. j - (i + 1) \in 1..Len(s) - i /\ i + (j - (i + 1)) = j - 1
      BY <2>2
    <3>3. b[j - (i + 1)] = s[j - 1]
      BY <1>2, <3>2
    <3> QED
      BY <2>2, <3>1, <3>3
  <2>3. j <= i + 1 \/ j > i + 1
    OBVIOUS
  <2> QED
    BY <2>1, <2>2, <2>3, Zenon
<1>8. InsertAt(s, i + 1, x) = c \o b
  BY <1>3 DEF c
<1> DEFINE q == c \o b
<1>9. q \in Seq(S) /\ Len(q) = Len(s) + 1
  BY <1>6
<1>10. \A j \in 1..Len(s) + 1 : q[j] = IF j <= i THEN s[j] ELSE IF j = i + 1 THEN x ELSE s[j - 1]
  BY <1>7
<1>11. InsertAt(s, i + 1, x) = q
  BY <1>8
<1> HIDE DEF q
<1>12. Inserted(q, s, i, x)
  BY <1>9, <1>10, Zenon DEF Inserted
<1> QED
  BY <1>9, <1>11, <1>12, Zenon

(***************************************************************************)
(* The run list as a sequence.                                             *)
(***************************************************************************)
On(n, s, m) == \E i \in 1..m : s[i] = n

\* The list l is s[1], ..., s[m], and the idle task is its last.
Strung(l, s, m) ==
  /\ l \in Lists /\ m \in Nat \ {0} /\ s \in [1..m -> Nodes] /\ s[m] = Idle
  /\ \A i, j \in 1..m : s[i] = s[j] => i = j
  /\ l.head = s[1] /\ l.prev[s[1]] = NULL /\ l.next[Idle] = NULL
  /\ \A i \in 1..m - 1 : l.next[s[i]] = s[i + 1] /\ l.prev[s[i + 1]] = s[i]

\* The tasks that are not in the list, but for those of T, have no links.
Clear(l, s, m, T) ==
  \A n \in Nodes \ T : ~On(n, s, m) => l.next[n] = NULL /\ l.prev[n] = NULL

Linked(l, s, m) == Strung(l, s, m) /\ Clear(l, s, m, {})

\* Behind the head the priorities descend.
Descends(s, m) == \A i, j \in 2..m : i <= j => Prio(s[i]) >= Prio(s[j])

LEMMA PrioIs ==
  /\ \A n \in Nodes : Prio(n) \in Nat /\ (n # Idle => Prio(n) >= 1)
  /\ Prio(Idle) = 0
BY ZrtAssumption, Bounds DEF Prio

\* A list is no longer than there are tasks.
LEMMA ListBounded ==
  ASSUME NEW m \in Nat, NEW s \in [1..m -> Nodes], \A i, j \in 1..m : s[i] = s[j] => i = j
  PROVE  m <= NTasks + 1
<1>1. IsFiniteSet(1..m) /\ Cardinality(1..m) = m
  BY FS_Interval
<1>2. IsFiniteSet(Nodes) /\ Cardinality(Nodes) = NTasks + 1
  <2>1. 0 \in Int /\ NTasks \in Int /\ NTasks - 0 + 1 = NTasks + 1 /\ ~(0 > NTasks)
    BY Bounds
  <2>2. IsFiniteSet(0..NTasks)
        /\ Cardinality(0..NTasks) = IF 0 > NTasks THEN 0 ELSE NTasks - 0 + 1
    BY <2>1, FS_Interval
  <2> QED
    BY <2>1, <2>2 DEF Nodes
<1>3. ~(m > NTasks + 1)
  <2> SUFFICES ASSUME m > NTasks + 1 PROVE FALSE
    OBVIOUS
  <2>1. Cardinality(Nodes) < Cardinality(1..m)
    BY <1>1, <1>2, Bounds
  <2>2. \E x, y \in 1..m : x # y /\ s[x] = s[y]
    BY <1>1, <1>2, <2>1, FS_PigeonHole
  <2> QED
    BY <2>2
<1> QED
  BY <1>3, Bounds

\* A walk from one of its tasks goes through the rest of the list, and ends.
LEMMA LinkedWalk ==
  ASSUME NEW l, NEW s, NEW m, Strung(l, s, m), NEW i \in 1..m
  PROVE  \A k \in 0..NTasks + 1 : Walk(l, s[i])[k] = IF i + k <= m THEN s[i + k] ELSE NULL
<1>1. l \in Lists /\ m \in Nat /\ s \in [1..m -> Nodes] /\ s[i] \in Nodes
  BY DEF Strung
<1> DEFINE w == Walk(l, s[i])
           S == {k \in Nat : w[k] = IF i + k <= m THEN s[i + k] ELSE NULL}
<1>2. w[0] = s[i] /\ \A k \in 1..NTasks + 1 : w[k] = After(l, w[k - 1])
  BY <1>1, WalkType DEF Ends
<1> HIDE DEF w
<1>3. 0 \in S
  BY <1>1, <1>2
<1>4. ASSUME NEW k \in 0..NTasks, k \in S PROVE k + 1 \in S
  <2>1. k \in Nat /\ k + 1 \in 1..NTasks + 1 /\ (k + 1) - 1 = k
    BY Bounds
  <2>2. w[k + 1] = After(l, w[k])
    BY <1>2, <2>1
  <2>3. w[k] = IF i + k <= m THEN s[i + k] ELSE NULL
    BY <1>4
  <2>4. CASE i + k < m
    <3>1. i + k \in 1..m - 1 /\ i + (k + 1) = (i + k) + 1 /\ s[i + k] \in Nodes
      BY <1>1, <2>1, <2>4
    <3>2. l.next[s[i + k]] = s[i + k + 1]
      BY <3>1 DEF Strung
    <3>3. s[i + k] # NULL
      BY <3>1, Bounds
    <3>4. w[k + 1] = s[i + (k + 1)]
      BY <1>1, <2>2, <2>3, <2>4, <3>1, <3>2, <3>3 DEF After
    <3> QED
      BY <1>1, <2>1, <2>4, <3>4
  <2>5. CASE i + k = m
    <3>1. w[k] = Idle
      <4>1. w[k] = s[m]
        BY <1>1, <2>3, <2>5
      <4> QED
        BY <4>1 DEF Strung
    <3>2. w[k + 1] = NULL
      BY <2>2, <3>1, Bounds DEF After, Strung
    <3> QED
      BY <1>1, <2>1, <2>5, <3>2
  <2>6. CASE i + k > m
    BY <1>1, <2>1, <2>2, <2>3, <2>6 DEF After
  <2> QED
    BY <1>1, <2>1, <2>4, <2>5, <2>6
<1>5. 0..NTasks + 1 \subseteq S
  <2> HIDE DEF S
  <2>1. \A k \in 0..(NTasks + 1) - 1 : k \in S => k + 1 \in S
    BY <1>4, Bounds
  <2> QED
    BY <1>3, <2>1, Bounds, BoundedInduction, Zenon
<1> QED
  BY <1>5 DEF w

\* What zrt_insertTask makes of the links, before x, whose predecessor is p.
LEMMA InsertIs ==
  ASSUME NEW l \in Lists, NEW t \in Nodes, NEW x \in Nodes, t # x, l.prev[x] # t,
         NEW r, r = InsertBefore(l, t, x), NEW p, p = l.prev[x]
  PROVE  /\ r \in Lists
         /\ r.head = IF p = NULL THEN t ELSE l.head
         /\ r.prev[t] = p /\ r.prev[x] = t /\ r.next[t] = x
         /\ \A n \in Nodes : n # t /\ n # x => r.prev[n] = l.prev[n]
         /\ \A n \in Nodes : n # t => r.next[n] = IF n = p THEN t ELSE l.next[n]
<1> DEFINE linked  == InsertStatement(l, t, x, 1)
           before  == InsertStatement(linked, t, x, 2)
           between == InsertStatement(before, t, x, 3)
<1>1. /\ linked \in Lists /\ linked.head = l.head /\ linked.prev = l.prev
      /\ linked.next = [l.next EXCEPT ![t] = x]
  <2>1. linked \in Lists
    BY StatementType
  <2> QED
    BY <2>1 DEF InsertStatement, Lists
<1>2. /\ before \in Lists /\ before.head = l.head /\ before.prev = [l.prev EXCEPT ![t] = p]
      /\ before.next = linked.next
  <2> HIDE DEF linked
  <2>1. before \in Lists
    BY <1>1, StatementType
  <2> QED
    BY <1>1, <2>1 DEF InsertStatement, Lists
<1>3. /\ between \in Lists /\ between.head = l.head /\ between.next = linked.next
      /\ between.prev = [before.prev EXCEPT ![x] = t]
  <2> HIDE DEF before
  <2>1. between \in Lists
    BY <1>2, StatementType
  <2> QED
    BY <1>2, <2>1 DEF InsertStatement, Lists
<1>4. between.prev[t] = p /\ between.next[t] = x
  BY <1>1, <1>2, <1>3 DEF Lists
<1>5. r \in Lists
  BY InsertType
<1>6. r = InsertStatement(between, t, x, 4)
  BY DEF InsertBefore
<1>7. l.next \in [Nodes -> Ends] /\ l.prev \in [Nodes -> Ends] /\ p \in Ends
  BY DEF Lists
<1> HIDE DEF linked, before, between
<1>8. CASE p = NULL
  <2>1. r = [between EXCEPT !.head = t]
    BY <1>4, <1>6, <1>8 DEF InsertStatement
  <2>2. r.head = t /\ r.next = between.next /\ r.prev = between.prev
    BY <1>3, <2>1 DEF Lists
  <2>3. r.next = [l.next EXCEPT ![t] = x] /\ r.prev = [[l.prev EXCEPT ![t] = p] EXCEPT ![x] = t]
    BY <1>1, <1>2, <1>3, <2>2
  <2>4. \A n \in Nodes : n # p
    BY <1>8, Bounds
  <2>5. r.head = IF p = NULL THEN t ELSE l.head
    BY <1>8, <2>2
  <2>6. r.prev[t] = p /\ r.prev[x] = t /\ r.next[t] = x
    BY <1>7, <2>3
  <2>7. \A n \in Nodes : n # t /\ n # x => r.prev[n] = l.prev[n]
    BY <1>7, <2>3
  <2>8. \A n \in Nodes : n # t => r.next[n] = IF n = p THEN t ELSE l.next[n]
    BY <1>7, <2>3, <2>4
  <2> QED
    BY <1>5, <2>5, <2>6, <2>7, <2>8
<1>9. CASE p # NULL
  <2>1. r = [between EXCEPT !.next[p] = t]
    BY <1>4, <1>6, <1>9 DEF InsertStatement
  <2>2. p \in Nodes
    BY <1>7, <1>9 DEF Ends
  <2>3. r.head = l.head /\ r.next = [between.next EXCEPT ![p] = t] /\ r.prev = between.prev
    BY <1>3, <2>1, <2>2 DEF Lists
  <2> QED
    BY <1>1, <1>2, <1>3, <1>4, <1>5, <1>7, <1>9, <2>2, <2>3
<1> QED
  BY <1>8, <1>9

\* The sequence s with t at the j-th place.
With(s, m, t, j) == [i \in 1..m + 1 |-> IF i < j THEN s[i] ELSE IF i = j THEN t ELSE s[i - 1]]

LEMMA WithIs ==
  ASSUME NEW m \in Nat \ {0}, NEW s \in [1..m -> Nodes], NEW t \in Nodes, ~On(t, s, m),
         NEW j \in 1..m, \A i, k \in 1..m : s[i] = s[k] => i = k,
         NEW u, u = With(s, m, t, j)
  PROVE  /\ u \in [1..m + 1 -> Nodes] /\ u[m + 1] = s[m]
         /\ \A i \in 1..m + 1 : u[i] = IF i < j THEN s[i] ELSE IF i = j THEN t ELSE s[i - 1]
         /\ \A i, k \in 1..m + 1 : u[i] = u[k] => i = k
         /\ \A n : On(n, u, m + 1) <=> n = t \/ On(n, s, m)
<1>1. \A i \in 1..m + 1 : u[i] = IF i < j THEN s[i] ELSE IF i = j THEN t ELSE s[i - 1]
  BY DEF With
<1>2. \A i \in 1..m + 1 : /\ i < j => i \in 1..m
                          /\ i > j => i - 1 \in 1..m
  OBVIOUS
<1>3. u \in [1..m + 1 -> Nodes]
  BY <1>2 DEF With
<1>4. m + 1 \in 1..m + 1 /\ ~(m + 1 < j) /\ m + 1 # j /\ (m + 1) - 1 = m
  OBVIOUS
<1>5. u[m + 1] = s[m]
  BY <1>1, <1>4
<1>6. \A i, k \in 1..m + 1 : u[i] = u[k] => i = k
  <2> SUFFICES ASSUME NEW i \in 1..m + 1, NEW k \in 1..m + 1, u[i] = u[k] PROVE i = k
    OBVIOUS
  <2>1. \A h \in 1..m : s[h] # t
    BY DEF On
  <2> QED
    BY <1>1, <1>2, <2>1
<1>7. ASSUME NEW n PROVE On(n, u, m + 1) <=> n = t \/ On(n, s, m)
  <2>1. ASSUME NEW i \in 1..m + 1, u[i] = n PROVE n = t \/ On(n, s, m)
    BY <1>1, <1>2, <2>1 DEF On
  <2>2. j \in 1..m + 1 /\ u[j] = t
    BY <1>1
  <2>3. ASSUME NEW i \in 1..m, s[i] = n PROVE On(n, u, m + 1)
    <3>1. CASE i < j
      <4>1. i \in 1..m + 1 /\ u[i] = s[i]
        BY <1>1, <3>1
      <4> QED
        BY <2>3, <4>1 DEF On
    <3>2. CASE ~(i < j)
      <4>1. i + 1 \in 1..m + 1 /\ u[i + 1] = s[i]
        BY <1>1, <3>2
      <4> QED
        BY <2>3, <4>1 DEF On
    <3> QED
      BY <3>1, <3>2
  <2> QED
    BY <2>1, <2>2, <2>3 DEF On
<1> QED
  BY <1>1, <1>3, <1>5, <1>6, <1>7

\* Before the j-th task of the list: what it becomes.
LEMMA InsertStrung ==
  ASSUME NEW l, NEW s, NEW m, NEW t \in Tasks, Strung(l, s, m), Clear(l, s, m, {t}),
         ~On(t, s, m), NEW j \in 1..m
  PROVE  Linked(InsertBefore(l, t, s[j]), With(s, m, t, j), m + 1)
<1> DEFINE x == s[j]
           p == l.prev[x]
           r == InsertBefore(l, t, x)
           u == With(s, m, t, j)
<1>1. /\ l \in Lists /\ m \in Nat \ {0} /\ s \in [1..m -> Nodes] /\ t \in Nodes
      /\ \A i, k \in 1..m : s[i] = s[k] => i = k
  BY Bounds DEF Strung
<1>2. x \in Nodes /\ t # x
  BY <1>1 DEF On
<1>3. p = IF j = 1 THEN NULL ELSE s[j - 1]
  <2>1. CASE j = 1
    BY <2>1 DEF Strung
  <2>2. CASE j # 1
    <3>1. j - 1 \in 1..m - 1 /\ (j - 1) + 1 = j
      BY <1>1, <2>2
    <3> QED
      BY <2>2, <3>1 DEF Strung
  <2> QED
    BY <2>1, <2>2
<1>4. p # t
  BY <1>1, <1>3, Bounds DEF On
<1> HIDE DEF p
<1>5. l.prev[x] # t
  BY <1>4 DEF p
<1>6. /\ r \in Lists
      /\ r.head = IF p = NULL THEN t ELSE l.head
      /\ r.prev[t] = p /\ r.prev[x] = t /\ r.next[t] = x
      /\ \A n \in Nodes : n # t /\ n # x => r.prev[n] = l.prev[n]
      /\ \A n \in Nodes : n # t => r.next[n] = IF n = p THEN t ELSE l.next[n]
  <2> HIDE DEF x
  <2> QED
    BY <1>1, <1>2, <1>5, InsertIs DEF p
<1>7. /\ u \in [1..m + 1 -> Nodes] /\ u[m + 1] = s[m]
      /\ \A i \in 1..m + 1 : u[i] = IF i < j THEN s[i] ELSE IF i = j THEN t ELSE s[i - 1]
      /\ \A i, k \in 1..m + 1 : u[i] = u[k] => i = k
      /\ \A n : On(n, u, m + 1) <=> n = t \/ On(n, s, m)
  BY <1>1, WithIs
<1> HIDE DEF r, u, x
<1>8. r.head = u[1]
  <2>1. 1 \in 1..m + 1
    BY <1>1
  <2>2. CASE j = 1
    BY <1>3, <1>6, <1>7, <2>1, <2>2
  <2>3. CASE j # 1
    <3>1. p # NULL
      BY <1>1, <1>3, <2>3, Bounds
    <3>2. l.head = s[1]
      BY DEF Strung
    <3> QED
      BY <1>6, <1>7, <2>1, <2>3, <3>1, <3>2
  <2> QED
    BY <2>2, <2>3
<1>9. r.prev[u[1]] = NULL
  <2>1. 1 \in 1..m + 1 /\ 1 \in 1..m
    BY <1>1
  <2>2. CASE j = 1
    BY <1>3, <1>6, <1>7, <2>1, <2>2
  <2>3. CASE j # 1
    <3>1. u[1] = s[1] /\ s[1] # x /\ s[1] # t /\ s[1] \in Nodes
      BY <1>1, <1>7, <2>1, <2>3 DEF x, On
    <3> QED
      BY <1>6, <3>1 DEF Strung
  <2> QED
    BY <2>2, <2>3
<1>10. r.next[Idle] = NULL
  <2>1. Idle = s[m] /\ m \in 1..m
    BY <1>1 DEF Strung
  <2>2. Idle # p
    <3>1. CASE j = 1
      BY <1>3, <3>1, Bounds
    <3>2. CASE j # 1
      <4>1. j - 1 \in 1..m /\ j - 1 # m
        BY <1>1, <3>2
      <4> QED
        BY <1>1, <1>3, <2>1, <3>2, <4>1
    <3> QED
      BY <3>1, <3>2
  <2> QED
    BY <1>6, <2>2, Bounds DEF Strung
<1>11. ASSUME NEW i \in 1..(m + 1) - 1 PROVE r.next[u[i]] = u[i + 1] /\ r.prev[u[i + 1]] = u[i]
  <2>1. i \in 1..m + 1 /\ i + 1 \in 1..m + 1 /\ i \in 1..m
    BY <1>1
  <2>2. CASE i + 1 < j
    <3>1. u[i] = s[i] /\ u[i + 1] = s[i + 1] /\ i \in 1..m - 1 /\ i + 1 \in 1..m
      BY <1>1, <1>7, <2>1, <2>2
    <3>2. l.next[s[i]] = s[i + 1] /\ l.prev[s[i + 1]] = s[i]
      BY <3>1 DEF Strung
    <3>3. s[i] # t /\ s[i + 1] # t
      BY <2>1, <3>1 DEF On
    <3>4. s[i + 1] # x
      BY <1>1, <2>2, <3>1 DEF x
    <3>5. s[i] # p
      <4>1. j - 1 \in 1..m /\ j # 1 /\ i # j - 1
        BY <1>1, <2>2
      <4> QED
        BY <1>1, <1>3, <2>1, <4>1
    <3> QED
      BY <1>1, <1>6, <2>1, <3>1, <3>2, <3>3, <3>4, <3>5
  <2>3. CASE i + 1 = j
    <3>1. u[i] = s[i] /\ u[i + 1] = t /\ p = s[i]
      BY <1>3, <1>7, <2>1, <2>3
    <3>2. s[i] # t /\ s[i] \in Nodes
      BY <1>1, <2>1 DEF On
    <3> QED
      BY <1>6, <3>1, <3>2
  <2>4. CASE i = j
    <3>1. u[i] = t /\ u[i + 1] = x
      BY <1>7, <2>1, <2>4 DEF x
    <3> QED
      BY <1>6, <3>1
  <2>5. CASE i > j
    <3>1. u[i] = s[i - 1] /\ u[i + 1] = s[i] /\ i - 1 \in 1..m - 1 /\ (i - 1) + 1 = i /\ i - 1 \in 1..m
      BY <1>1, <1>7, <2>1, <2>5
    <3>2. l.next[s[i - 1]] = s[i] /\ l.prev[s[i]] = s[i - 1]
      BY <3>1 DEF Strung
    <3>3. s[i - 1] # t /\ s[i] # t
      BY <2>1, <3>1 DEF On
    <3>4. s[i] # x
      BY <1>1, <2>1, <2>5 DEF x
    <3>5. s[i - 1] # p
      <4>1. CASE j = 1
        BY <1>1, <1>3, <3>1, <4>1, Bounds
      <4>2. CASE j # 1
        <5>1. j - 1 \in 1..m /\ i - 1 # j - 1
          BY <1>1, <2>5, <4>2
        <5> QED
          BY <1>1, <1>3, <3>1, <4>2, <5>1
      <4> QED
        BY <4>1, <4>2
    <3> QED
      BY <1>1, <1>6, <2>1, <3>1, <3>2, <3>3, <3>4, <3>5
  <2> QED
    BY <1>1, <2>1, <2>2, <2>3, <2>4, <2>5
<1>12. Strung(r, u, m + 1)
  <2>1. m + 1 \in Nat \ {0} /\ s[m] = Idle
    BY <1>1 DEF Strung
  <2> QED
    BY <1>6, <1>7, <1>8, <1>9, <1>10, <1>11, <2>1 DEF Strung
<1>13. Clear(r, u, m + 1, {})
  <2> SUFFICES ASSUME NEW n \in Nodes, ~On(n, u, m + 1) PROVE r.next[n] = NULL /\ r.prev[n] = NULL
    BY DEF Clear
  <2>1. n # t /\ ~On(n, s, m)
    BY <1>7
  <2>2. l.next[n] = NULL /\ l.prev[n] = NULL
    BY <2>1 DEF Clear
  <2>3. n # x
    BY <2>1 DEF x, On
  <2>4. n # p
    <3>1. j - 1 \in 1..m \/ j = 1
      BY <1>1
    <3> QED
      BY <1>3, <2>1, <3>1, Bounds DEF On
  <2> QED
    BY <1>6, <2>1, <2>2, <2>3, <2>4
<1> QED
  BY <1>12, <1>13 DEF Linked, r, u, x

\* t fits in before the j-th task, which is the head only if there is no other.
Fits(s, m, t, j) ==
  /\ j \in 1..m /\ (j = 1 => m = 1)
  /\ \A i \in 2..m : IF i < j THEN Prio(s[i]) >= Prio(t) ELSE Prio(s[i]) <= Prio(t)

LEMMA WithDescends ==
  ASSUME NEW m \in Nat \ {0}, NEW s \in [1..m -> Nodes], Descends(s, m), NEW t \in Nodes,
         NEW j, Fits(s, m, t, j)
  PROVE  Descends(With(s, m, t, j), m + 1)
<1> DEFINE u == With(s, m, t, j)
<1>1. \A i \in 1..m + 1 : u[i] = IF i < j THEN s[i] ELSE IF i = j THEN t ELSE s[i - 1]
  BY DEF With
<1>2. \A i \in 1..m : Prio(s[i]) \in Nat
  BY PrioIs
<1>3. j \in 1..m /\ Prio(t) \in Nat
  BY PrioIs DEF Fits
<1> HIDE DEF u
<1> SUFFICES ASSUME NEW i \in 2..m + 1, NEW k \in 2..m + 1, i < k
             PROVE  Prio(u[i]) >= Prio(u[k])
  <2>1. \A i \in 2..m + 1 : Prio(u[i]) \in Nat
    <3> SUFFICES ASSUME NEW i \in 2..m + 1 PROVE Prio(u[i]) \in Nat
      OBVIOUS
    <3>1. CASE i < j
      BY <1>1, <1>2, <1>3, <3>1
    <3>2. CASE i = j
      BY <1>1, <1>3, <3>2
    <3>3. CASE i > j
      <4>1. u[i] = s[i - 1] /\ i - 1 \in 1..m
        BY <1>1, <1>3, <3>3
      <4> QED
        BY <1>2, <4>1
    <3> QED
      BY <1>3, <3>1, <3>2, <3>3
  <2> QED
    BY <2>1 DEF Descends, u
<1>4. CASE k < j
  <2>1. u[i] = s[i] /\ u[k] = s[k] /\ i \in 2..m /\ k \in 2..m
    BY <1>1, <1>3, <1>4
  <2> QED
    BY <2>1 DEF Descends
<1>5. CASE k = j
  <2>1. u[i] = s[i] /\ u[k] = t /\ i \in 2..m /\ i < j
    BY <1>1, <1>3, <1>5
  <2> QED
    BY <1>2, <1>3, <2>1 DEF Fits
<1>6. CASE k > j /\ i < j
  <2>1. u[i] = s[i] /\ u[k] = s[k - 1] /\ i \in 2..m /\ k - 1 \in 2..m /\ i <= k - 1
    BY <1>1, <1>3, <1>6
  <2> QED
    BY <2>1 DEF Descends
<1>7. CASE k > j /\ i = j
  <2>1. u[i] = t /\ u[k] = s[k - 1] /\ k - 1 \in 2..m /\ ~(k - 1 < j)
    BY <1>1, <1>3, <1>7
  <2> QED
    BY <1>2, <1>3, <2>1 DEF Fits
<1>8. CASE k > j /\ i > j
  <2>1. u[i] = s[i - 1] /\ u[k] = s[k - 1] /\ k - 1 \in 2..m /\ i - 1 \in 1..m /\ i - 1 <= k - 1
    BY <1>1, <1>3, <1>8
  <2>2. i - 1 \in 2..m
    <3>1. j # 1
      BY <2>1 DEF Fits
    <3> QED
      BY <1>3, <1>8, <3>1
  <2> QED
    BY <2>1, <2>2 DEF Descends
<1> QED
  BY <1>3, <1>4, <1>5, <1>6, <1>7, <1>8

\* A walk from nowhere.
LEMMA NullWalk ==
  ASSUME NEW l \in Lists
  PROVE  \A k \in 0..NTasks + 1 : Walk(l, NULL)[k] = NULL
<1> DEFINE w == Walk(l, NULL)
           S == {k \in Nat : w[k] = NULL}
<1>1. w[0] = NULL /\ \A k \in 1..NTasks + 1 : w[k] = After(l, w[k - 1])
  BY WalkType DEF Ends
<1> HIDE DEF w
<1>2. 0 \in S
  BY <1>1
<1>3. \A k \in 0..(NTasks + 1) - 1 : k \in S => k + 1 \in S
  <2> SUFFICES ASSUME NEW k \in 0..(NTasks + 1) - 1, k \in S PROVE k + 1 \in S
    OBVIOUS
  <2>1. k + 1 \in 1..NTasks + 1 /\ (k + 1) - 1 = k
    BY Bounds
  <2> QED
    BY <1>1, <2>1 DEF After
<1>4. 0..NTasks + 1 \subseteq S
  <2> HIDE DEF S
  <2> QED
    BY <1>2, <1>3, Bounds, BoundedInduction, Zenon
<1> QED
  BY <1>4 DEF w

\* The walk that zrt_insertTask and zrt_pickTask begin behind the head.
LEMMA TailWalk ==
  ASSUME NEW l, NEW s, NEW m, Strung(l, s, m), m # 1,
         NEW w, w = Walk(l, l.next[s[1]])
  PROVE  /\ m \in 2..NTasks + 1
         /\ \A k \in 0..NTasks + 1 : w[k] = IF k + 2 <= m THEN s[k + 2] ELSE NULL
<1>1. m \in Nat \ {0} /\ s \in [1..m -> Nodes] /\ \A i, k \in 1..m : s[i] = s[k] => i = k
  BY DEF Strung
<1>2. m \in 2..NTasks + 1
  BY <1>1, ListBounded, Bounds
<1>3. l.next[s[1]] = s[2]
  <2>1. 1 \in 1..m - 1 /\ 1 + 1 = 2
    BY <1>2
  <2> QED
    BY <2>1 DEF Strung
<1>4. \A k \in 0..NTasks + 1 : w[k] = IF 2 + k <= m THEN s[2 + k] ELSE NULL
  <2>1. 2 \in 1..m
    BY <1>2
  <2> QED
    BY <1>3, <2>1, LinkedWalk
<1> QED
  BY <1>1, <1>2, <1>4

LEMMA PlaceIs ==
  ASSUME NEW l, NEW s, NEW m, NEW t \in Tasks, Strung(l, s, m), Descends(s, m)
  PROVE  \E j : Fits(s, m, t, j) /\ PlaceFor(l, t) = s[j]
<1> DEFINE w == Walk(l, l.next[l.head])
           fits == {k \in 0..NTasks + 1 : w[k] # NULL /\ Prio(w[k]) <= Prio(t)}
<1>1. PlaceFor(l, t) = IF l.head = NULL THEN NULL
                       ELSE IF fits # {} THEN w[Least(fits)]
                       ELSE IF Endless(w) THEN NULL ELSE l.head
  BY DEF PlaceFor, Met
<1>2. /\ l \in Lists /\ m \in Nat \ {0} /\ s \in [1..m -> Nodes] /\ l.head = s[1]
      /\ s[m] = Idle /\ l.next[Idle] = NULL
  BY DEF Strung
<1>3. l.head # NULL
  BY <1>2, Bounds
<1>4. CASE m = 1
  <2>1. l.next[l.head] = NULL
    BY <1>2, <1>4
  <2>2. \A k \in 0..NTasks + 1 : w[k] = NULL
    BY <1>2, <2>1, NullWalk
  <2> HIDE DEF w
  <2>3. fits = {} /\ ~Endless(w)
    BY <2>2, Bounds DEF Endless
  <2>4. PlaceFor(l, t) = s[1]
    BY <1>1, <1>2, <1>3, <2>3
  <2>5. Fits(s, m, t, 1)
    BY <1>4 DEF Fits
  <2> QED
    BY <2>4, <2>5
<1>5. CASE m # 1
  <2>1. /\ m \in 2..NTasks + 1
        /\ \A k \in 0..NTasks + 1 : w[k] = IF k + 2 <= m THEN s[k + 2] ELSE NULL
    BY <1>2, <1>5, TailWalk
  <2> HIDE DEF w
  <2>2. m - 2 \in fits
    <3>1. m - 2 \in 0..NTasks + 1 /\ (m - 2) + 2 = m
      BY <2>1, Bounds
    <3>2. w[m - 2] = Idle
      BY <1>2, <2>1, <3>1
    <3> QED
      BY <3>1, <3>2, PrioIs, Bounds
  <2> DEFINE k == Least(fits)
  <2>3. k \in fits /\ \A i \in fits : k <= i
    <3> HIDE DEF fits
    <3>1. fits \in SUBSET (0..NTasks + 1)
      BY DEF fits
    <3> QED
      BY <2>2, <3>1, FirstMet
  <2>4. PlaceFor(l, t) = w[k]
    BY <1>1, <1>3, <2>2
  <2> HIDE DEF k
  <2>5. k \in 0..NTasks + 1 /\ k + 2 <= m /\ w[k] = s[k + 2] /\ Prio(s[k + 2]) <= Prio(t)
    BY <2>1, <2>3
  <2>6. k + 2 \in 2..m
    BY <2>5, <2>1
  <2>7. ASSUME NEW i \in 2..m
        PROVE  IF i < k + 2 THEN Prio(s[i]) >= Prio(t) ELSE Prio(s[i]) <= Prio(t)
    <3>1. Prio(s[i]) \in Nat /\ Prio(t) \in Nat /\ Prio(s[k + 2]) \in Nat
      BY <1>2, <2>6, PrioIs, Bounds
    <3>2. CASE i < k + 2
      <4>1. i - 2 \in 0..NTasks + 1 /\ (i - 2) + 2 = i /\ ~(k <= i - 2)
        BY <2>1, <2>5, <3>2, Bounds
      <4>2. w[i - 2] = s[i] /\ s[i] # NULL
        BY <1>2, <2>1, <4>1, Bounds
      <4>3. ~(Prio(s[i]) <= Prio(t))
        BY <2>3, <4>1, <4>2
      <4> QED
        BY <3>1, <3>2, <4>3
    <3>3. CASE ~(i < k + 2)
      <4>1. Prio(s[k + 2]) >= Prio(s[i])
        BY <2>5, <2>6, <3>3 DEF Descends
      <4> QED
        BY <2>5, <3>1, <3>3, <4>1
    <3> QED
      BY <3>2, <3>3
  <2>8. Fits(s, m, t, k + 2)
    <3>1. k + 2 \in 1..m /\ k + 2 # 1
      BY <2>5, <2>6
    <3> QED
      BY <2>7, <3>1 DEF Fits
  <2> QED
    BY <2>4, <2>5, <2>8
<1> QED
  BY <1>4, <1>5

\* A sound list with its sequence.
Sorted(l, s, m) == Linked(l, s, m) /\ Descends(s, m)

\* zrt_insertTask, all four statements, of a task that is not in the list before a place
\* where it fits.
LEMMA InsertSorted ==
  ASSUME NEW l, NEW s, NEW m, Sorted(l, s, m), NEW t \in Tasks, ~On(t, s, m),
         NEW j, Fits(s, m, t, j)
  PROVE  \E u : /\ Sorted(InsertBefore(l, t, s[j]), u, m + 1)
                /\ \A n : On(n, u, m + 1) <=> n = t \/ On(n, s, m)
                /\ m # 1 => u[1] = s[1]
<1> DEFINE u == With(s, m, t, j)
<1>1. Strung(l, s, m) /\ Clear(l, s, m, {}) /\ Descends(s, m)
  BY DEF Sorted, Linked
<1>2. /\ m \in Nat \ {0} /\ s \in [1..m -> Nodes] /\ t \in Nodes
      /\ \A i, k \in 1..m : s[i] = s[k] => i = k
  BY <1>1, Bounds DEF Strung
<1>3. j \in 1..m /\ (m # 1 => j # 1)
  BY DEF Fits
<1>4. Linked(InsertBefore(l, t, s[j]), u, m + 1)
  <2>1. Clear(l, s, m, {t})
    BY <1>1 DEF Clear
  <2> QED
    BY <1>1, <1>3, <2>1, InsertStrung
<1>5. Descends(u, m + 1)
  BY <1>1, <1>2, WithDescends
<1>6. \A n : On(n, u, m + 1) <=> n = t \/ On(n, s, m)
  BY <1>2, <1>3, WithIs
<1>7. m # 1 => u[1] = s[1]
  BY <1>2, <1>3 DEF With
<1> HIDE DEF u
<1> QED
  BY <1>4, <1>5, <1>6, <1>7 DEF Sorted

\* zrt_wakeup of a task that is not in the list puts it there; a head that is not the
\* idle task stays.
LEMMA WakeSorted ==
  ASSUME NEW r \in Results, r.ok, NEW s, NEW m, Sorted(r.list, s, m), NEW t \in Tasks,
         ~On(t, s, m)
  PROVE  /\ WakeUp(r, t).ok
         /\ \E u : /\ Sorted(WakeUp(r, t).list, u, m + 1)
                   /\ \A n : On(n, u, m + 1) <=> n = t \/ On(n, s, m)
                   /\ m # 1 => u[1] = s[1]
<1> DEFINE l == r.list
<1>1. Strung(l, s, m) /\ Descends(s, m)
  BY DEF Sorted, Linked
<1>2. PICK j : Fits(s, m, t, j) /\ PlaceFor(l, t) = s[j]
  BY <1>1, PlaceIs
<1>3. s[j] # NULL
  BY <1>1, <1>2, Bounds DEF Fits, Strung
<1>4. WakeUp(r, t) = [r EXCEPT !.list = InsertBefore(r.list, t, s[j])]
  BY <1>2, <1>3 DEF WakeUp
<1>5. WakeUp(r, t).ok /\ WakeUp(r, t).list = InsertBefore(l, t, s[j])
  BY <1>4 DEF Results
<1>6. Sorted(l, s, m)
  OBVIOUS
<1> HIDE DEF l
<1>7. PICK u : /\ Sorted(InsertBefore(l, t, s[j]), u, m + 1)
               /\ \A n : On(n, u, m + 1) <=> n = t \/ On(n, s, m)
               /\ m # 1 => u[1] = s[1]
  BY <1>2, <1>6, InsertSorted
<1>8. Sorted(WakeUp(r, t).list, u, m + 1)
  BY <1>5, <1>7
<1> QED
  BY <1>5, <1>7, <1>8

\* The tasks woken among the first k of q.
Woken(q, due, k, n) == \E i \in 1..k : q[i] = n /\ n \in due

\* zrt_wakeup of tasks that are not in the list, one after the other.
LEMMA WakeDueSorted ==
  ASSUME NEW l, NEW s, NEW m, Sorted(l, s, m), NEW q \in Seq(Tasks), NEW due,
         \A i, k \in 1..Len(q) : q[i] = q[k] => i = k,
         \A i \in 1..Len(q) : q[i] \in due => ~On(q[i], s, m)
  PROVE  /\ WakeDue(l, q, due).ok
         /\ \E u, n : /\ Sorted(WakeDue(l, q, due).list, u, n)
                      /\ \A x : On(x, u, n) <=> On(x, s, m) \/ Woken(q, due, Len(q), x)
                      /\ s[1] # Idle => u[1] = s[1]
<1>1. l \in Lists
  BY DEF Sorted, Linked, Strung
<1>2. PICK f \in [0..Len(q) -> Results] : Course(f, l, q, due) /\ WakeDue(l, q, due) = f[Len(q)]
  BY <1>1, CourseExists
<1> DEFINE Good(k, u, n) ==
             /\ f[k].ok /\ Sorted(f[k].list, u, n)
             /\ \A x : On(x, u, n) <=> On(x, s, m) \/ Woken(q, due, k, x)
             /\ s[1] # Idle => u[1] = s[1]
           S == {k \in Nat : \E u, n : Good(k, u, n)}
<1>3. 0 \in S
  <2>1. Good(0, s, m)
    BY <1>2 DEF Course, Woken
  <2> QED
    BY <2>1
<1>4. ASSUME NEW k \in 0..Len(q) - 1, k \in S PROVE k + 1 \in S
  <2>1. PICK u, n : Good(k, u, n)
    BY <1>4
  <2>2. k \in 0..Len(q) /\ k + 1 \in 1..Len(q) /\ (k + 1) - 1 = k /\ f[k] \in Results
    OBVIOUS
  <2>3. q[k + 1] \in Tasks
    BY <2>2
  <2>4. \A x : Woken(q, due, k + 1, x) <=> Woken(q, due, k, x) \/ (x = q[k + 1] /\ x \in due)
    BY <2>2 DEF Woken
  <2>5. CASE q[k + 1] \in due
    <3>1. f[k + 1] = WakeUp(f[k], q[k + 1])
      BY <1>2, <2>2, <2>5 DEF Course
    <3>2. ~On(q[k + 1], u, n)
      <4>1. ~On(q[k + 1], s, m)
        BY <2>2, <2>5
      <4>2. ~Woken(q, due, k, q[k + 1])
        BY <2>2 DEF Woken
      <4> QED
        BY <2>1, <4>1, <4>2
    <3>3. /\ f[k + 1].ok
          /\ \E v : /\ Sorted(f[k + 1].list, v, n + 1)
                    /\ \A x : On(x, v, n + 1) <=> x = q[k + 1] \/ On(x, u, n)
                    /\ n # 1 => v[1] = u[1]
      <4>1. f[k] \in Results /\ f[k].ok /\ Sorted(f[k].list, u, n)
        BY <2>1, <2>2
      <4> DEFINE g == WakeUp(f[k], q[k + 1])
      <4>2. /\ g.ok
            /\ \E v : /\ Sorted(g.list, v, n + 1)
                      /\ \A x : On(x, v, n + 1) <=> x = q[k + 1] \/ On(x, u, n)
                      /\ n # 1 => v[1] = u[1]
        BY <2>3, <3>2, <4>1, WakeSorted
      <4> HIDE DEF g
      <4> QED
        BY <3>1, <4>2, Zenon DEF g
    <3>4. PICK v : /\ Sorted(f[k + 1].list, v, n + 1)
                   /\ \A x : On(x, v, n + 1) <=> x = q[k + 1] \/ On(x, u, n)
                   /\ n # 1 => v[1] = u[1]
      BY <3>3
    <3>5. s[1] # Idle => n # 1
      BY <2>1 DEF Sorted, Linked, Strung
    <3>6. Good(k + 1, v, n + 1)
      BY <2>1, <2>4, <2>5, <3>3, <3>4, <3>5
    <3> QED
      BY <2>2, <3>6
  <2>6. CASE q[k + 1] \notin due
    <3>1. f[k + 1] = f[k]
      BY <1>2, <2>2, <2>6 DEF Course
    <3>2. Good(k + 1, u, n)
      BY <2>1, <2>4, <2>6, <3>1
    <3> QED
      BY <2>2, <3>2
  <2> QED
    BY <2>5, <2>6
<1>5. Len(q) \in S
  <2> HIDE DEF S
  <2>1. Len(q) \in Nat /\ \A k \in 0..Len(q) - 1 : k \in S => k + 1 \in S
    BY <1>4
  <2>2. 0..Len(q) \subseteq S
    BY <1>3, <2>1, BoundedInduction, Zenon
  <2> QED
    BY <2>1, <2>2
<1> QED
  BY <1>2, <1>5

\* The sequence s without its i-th task.
Without(s, m, i) == [k \in 1..m - 1 |-> IF k < i THEN s[k] ELSE s[k + 1]]

LEMMA WithoutIs ==
  ASSUME NEW m \in Nat \ {0}, NEW i \in 1..m - 1, NEW s \in [1..m -> Nodes],
         \A k, h \in 1..m : s[k] = s[h] => k = h, NEW b, b = Without(s, m, i)
  PROVE  /\ b \in [1..m - 1 -> Nodes] /\ b[m - 1] = s[m] /\ m - 1 \in Nat \ {0}
         /\ \A k \in 1..m - 1 : b[k] = IF k < i THEN s[k] ELSE s[k + 1]
         /\ \A k, h \in 1..m - 1 : b[k] = b[h] => k = h
         /\ \A n : On(n, b, m - 1) <=> On(n, s, m) /\ n # s[i]
         /\ Descends(s, m) => Descends(b, m - 1)
<1>1. /\ m - 1 \in Nat \ {0} /\ i \in 1..m
      /\ \A k \in 1..m - 1 : k \in 1..m /\ k + 1 \in 1..m
  OBVIOUS
<1>2. b \in [1..m - 1 -> Nodes] /\ \A k \in 1..m - 1 : b[k] = IF k < i THEN s[k] ELSE s[k + 1]
  BY <1>1 DEF Without
<1>3. b[m - 1] = s[m]
  BY <1>1, <1>2
<1>4. \A k, h \in 1..m - 1 : b[k] = b[h] => k = h
  BY <1>1, <1>2
<1>5. ASSUME NEW n PROVE On(n, b, m - 1) <=> On(n, s, m) /\ n # s[i]
  <2>1. ASSUME NEW k \in 1..m - 1, b[k] = n PROVE On(n, s, m) /\ n # s[i]
    <3>1. CASE k < i
      BY <1>1, <1>2, <2>1, <3>1 DEF On
    <3>2. CASE ~(k < i)
      <4>1. n = s[k + 1] /\ k + 1 \in 1..m /\ k + 1 # i
        BY <1>1, <1>2, <2>1, <3>2
      <4> QED
        BY <1>1, <4>1 DEF On
    <3> QED
      BY <3>1, <3>2
  <2>2. ASSUME NEW k \in 1..m, s[k] = n, n # s[i] PROVE On(n, b, m - 1)
    <3>1. CASE k < i
      <4>1. k \in 1..m - 1 /\ b[k] = n
        BY <1>2, <2>2, <3>1
      <4> QED
        BY <4>1 DEF On
    <3>2. CASE k > i
      <4>1. k - 1 \in 1..m - 1 /\ ~(k - 1 < i) /\ (k - 1) + 1 = k
        BY <1>1, <3>2
      <4>2. b[k - 1] = n
        BY <1>2, <2>2, <4>1
      <4> QED
        BY <4>1, <4>2 DEF On
    <3>3. k = i \/ k < i \/ k > i
      OBVIOUS
    <3> QED
      BY <2>2, <3>1, <3>2, <3>3
  <2> QED
    BY <2>1, <2>2 DEF On
<1>6. Descends(s, m) => Descends(b, m - 1)
  <2> SUFFICES ASSUME Descends(s, m), NEW k \in 2..m - 1, NEW h \in 2..m - 1, k <= h
               PROVE  Prio(b[k]) >= Prio(b[h])
    BY DEF Descends
  <2> DEFINE from(x) == IF x < i THEN x ELSE x + 1
  <2>1. from(k) \in 2..m /\ from(h) \in 2..m /\ from(k) <= from(h)
    OBVIOUS
  <2>2. b[k] = s[from(k)] /\ b[h] = s[from(h)]
    BY <1>2
  <2> QED
    BY <2>1, <2>2 DEF Descends
<1> QED
  BY <1>1, <1>2, <1>3, <1>4, <1>5, <1>6

LEMMA OnWithout ==
  ASSUME NEW m \in Nat \ {0}, NEW i \in 1..m - 1, NEW s \in [1..m -> Nodes],
         \A k, h \in 1..m : s[k] = s[h] => k = h, NEW n
  PROVE  On(n, Without(s, m, i), m - 1) <=> On(n, s, m) /\ n # s[i]
BY WithoutIs

\* A list one task of which has been unlinked.
LEMMA WithoutStrung ==
  ASSUME NEW l, NEW s, NEW m, Linked(l, s, m), NEW i \in 1..m - 1, NEW r \in Lists,
         r.head = IF i = 1 THEN s[2] ELSE s[1],
         r.prev[s[i + 1]] = l.prev[s[i]],
         \A n \in Nodes : n # s[i] /\ n # s[i + 1] => r.prev[n] = l.prev[n],
         \A n \in Nodes : n # s[i] => r.next[n] = IF n = l.prev[s[i]] THEN s[i + 1] ELSE l.next[n]
  PROVE  Strung(r, Without(s, m, i), m - 1) /\ Clear(r, Without(s, m, i), m - 1, {s[i]})
<1> DEFINE b == Without(s, m, i)
<1>1. Strung(l, s, m) /\ Clear(l, s, m, {})
  BY DEF Linked
<1>2. /\ m \in Nat \ {0} /\ s \in [1..m -> Nodes] /\ s[m] = Idle
      /\ \A k, h \in 1..m : s[k] = s[h] => k = h
  BY <1>1 DEF Strung
<1>3. b \in [1..m - 1 -> Nodes] /\ b[m - 1] = s[m] /\ m - 1 \in Nat \ {0}
  BY <1>2, WithoutIs
<1>4. \A k \in 1..m - 1 : b[k] = IF k < i THEN s[k] ELSE s[k + 1]
  BY <1>2, WithoutIs
<1>5. \A k, h \in 1..m - 1 : b[k] = b[h] => k = h
  BY <1>2, WithoutIs
<1>6. \A n : On(n, b, m - 1) <=> On(n, s, m) /\ n # s[i]
  BY <1>2, WithoutIs
<1> HIDE DEF b
<1>7. i \in 1..m /\ i + 1 \in 1..m /\ s[i] \in Nodes /\ s[i + 1] \in Nodes /\ s[i] # s[i + 1]
  BY <1>2
<1>8. l.prev[s[i]] = IF i = 1 THEN NULL ELSE s[i - 1]
  <2>1. i # 1 => i - 1 \in 1..m - 1 /\ (i - 1) + 1 = i
    BY <1>2
  <2> QED
    BY <1>1, <2>1 DEF Strung
<1>9. r.head = b[1] /\ r.prev[b[1]] = NULL
  <2>1. 1 \in 1..m - 1 /\ 1 \in 1..m
    BY <1>2, <1>3
  <2>2. CASE i = 1
    BY <1>4, <1>8, <2>1, <2>2
  <2>3. CASE i # 1
    <3>1. b[1] = s[1] /\ s[1] # s[i] /\ s[1] # s[i + 1] /\ s[1] \in Nodes
      BY <1>2, <1>4, <1>7, <2>1, <2>3
    <3> QED
      BY <1>1, <2>3, <3>1 DEF Strung
  <2> QED
    BY <2>2, <2>3
<1>10. r.next[Idle] = NULL
  <2>1. Idle # s[i] /\ l.next[Idle] = NULL /\ Idle \in Nodes
    BY <1>1, <1>2, <1>7, Bounds DEF Strung
  <2>2. Idle # l.prev[s[i]]
    <3>1. i # 1 => i - 1 \in 1..m /\ i - 1 # m
      BY <1>2, <1>7
    <3> QED
      BY <1>2, <1>8, <3>1, Bounds
  <2> QED
    BY <2>1, <2>2
<1>11. ASSUME NEW k \in 1..(m - 1) - 1
       PROVE  r.next[b[k]] = b[k + 1] /\ r.prev[b[k + 1]] = b[k]
  <2>1. /\ k \in 1..m - 1 /\ k + 1 \in 1..m - 1 /\ (k + 1) + 1 \in 1..m
        /\ k \in 1..m /\ k + 1 \in 1..m
    BY <1>2, <1>3
  <2>2. \A h \in 1..m : s[h] \in Nodes
    BY <1>2
  <2>3. CASE k + 1 < i
    <3>1. b[k] = s[k] /\ b[k + 1] = s[k + 1]
      BY <1>4, <2>1, <2>3
    <3>2. l.next[s[k]] = s[k + 1] /\ l.prev[s[k + 1]] = s[k]
      BY <1>1, <2>1 DEF Strung
    <3>3. s[k] # s[i] /\ s[k + 1] # s[i] /\ s[k + 1] # s[i + 1]
      BY <1>2, <1>7, <2>1, <2>3
    <3>4. s[k] # l.prev[s[i]]
      <4>1. i # 1 /\ i - 1 \in 1..m /\ k # i - 1
        BY <1>2, <1>7, <2>1, <2>3
      <4> QED
        BY <1>2, <1>8, <2>1, <4>1
    <3> QED
      BY <2>1, <2>2, <3>1, <3>2, <3>3, <3>4
  <2>4. CASE k + 1 = i
    <3>1. b[k] = s[k] /\ b[k + 1] = s[i + 1]
      BY <1>4, <2>1, <2>4
    <3>2. i # 1 /\ l.prev[s[i]] = s[k]
      BY <1>8, <2>4
    <3>3. s[k] # s[i] /\ s[k] \in Nodes
      BY <1>2, <1>7, <2>1, <2>4
    <3> QED
      BY <3>1, <3>2, <3>3
  <2>5. CASE k + 1 > i
    <3>1. b[k] = s[k + 1] /\ b[k + 1] = s[(k + 1) + 1]
      BY <1>4, <2>1, <2>5
    <3>2. l.next[s[k + 1]] = s[(k + 1) + 1] /\ l.prev[s[(k + 1) + 1]] = s[k + 1]
      BY <1>1, <2>1 DEF Strung
    <3>3. s[k + 1] # s[i] /\ s[(k + 1) + 1] # s[i] /\ s[(k + 1) + 1] # s[i + 1]
      BY <1>2, <1>7, <2>1, <2>5
    <3>4. s[k + 1] # l.prev[s[i]]
      <4>1. i # 1 => i - 1 \in 1..m /\ k + 1 # i - 1
        BY <1>2, <1>7, <2>5
      <4> QED
        BY <1>2, <1>8, <2>1, <2>2, <4>1, Bounds
    <3> QED
      BY <2>1, <2>2, <3>1, <3>2, <3>3, <3>4
  <2> QED
    BY <2>1, <2>3, <2>4, <2>5
<1>12. Strung(r, b, m - 1)
  BY <1>2, <1>3, <1>5, <1>9, <1>10, <1>11 DEF Strung
<1>13. ASSUME NEW n \in Nodes \ {s[i]}, ~On(n, b, m - 1)
       PROVE  r.next[n] = NULL /\ r.prev[n] = NULL
  <2>1. ~On(n, s, m)
    BY <1>6, <1>13
  <2>2. n # s[i + 1]
    BY <1>7, <2>1 DEF On
  <2>3. n # l.prev[s[i]]
    <3>1. i # 1 => i - 1 \in 1..m
      BY <1>2, <1>7
    <3> QED
      BY <1>8, <2>1, <3>1, Bounds DEF On
  <2> QED
    BY <1>1, <2>1, <2>2, <2>3 DEF Clear
<1> QED
  BY <1>12, <1>13 DEF Clear, b

\* The statements of zrt_suspend, up to the k-th.
Suspending(l, t, k) ==
  LET one   == SuspendStatement(l, t, 1)
      two   == SuspendStatement(one, t, 2)
      three == SuspendStatement(two, t, 3)
      four  == SuspendStatement(three, t, 4)
  IN  CASE k = 1 -> l [] k = 2 -> one [] k = 3 -> two [] k = 4 -> three [] k = 5 -> four

LEMMA SuspendingIs ==
  ASSUME NEW l, NEW t
  PROVE  /\ Suspending(l, t, 1) = l
         /\ \A k \in 1..4 : Suspending(l, t, k + 1) = SuspendStatement(Suspending(l, t, k), t, k)
<1>1. \A k \in 1..4 : k = 1 \/ k = 2 \/ k = 3 \/ k = 4
  OBVIOUS
<1>2. Suspending(l, t, 2) = SuspendStatement(Suspending(l, t, 1), t, 1)
  BY DEF Suspending
<1>3. Suspending(l, t, 3) = SuspendStatement(Suspending(l, t, 2), t, 2)
  BY DEF Suspending
<1>4. Suspending(l, t, 4) = SuspendStatement(Suspending(l, t, 3), t, 3)
  BY DEF Suspending
<1>5. Suspending(l, t, 5) = SuspendStatement(Suspending(l, t, 4), t, 4)
  BY DEF Suspending
<1>6. Suspending(l, t, 1) = l
  BY DEF Suspending
<1> QED
  BY <1>1, <1>2, <1>3, <1>4, <1>5, <1>6

LEMMA LastStatement ==
  ASSUME NEW l, NEW t
  PROVE  SuspendStatement(l, t, 5) = [l EXCEPT !.prev[t] = NULL]
BY DEF SuspendStatement

\* zrt_suspend of the head of the list, all five statements.
LEMMA SuspendSorted ==
  ASSUME NEW l, NEW s, NEW m, NEW t \in Tasks, Sorted(l, s, m), s[1] = t,
         NEW r, r = SuspendStatement(Suspending(l, t, 5), t, 5)
  PROVE  m # 1 /\ Sorted(r, Without(s, m, 1), m - 1)
<1>1. Strung(l, s, m) /\ Clear(l, s, m, {}) /\ l \in Lists /\ t \in Nodes
  BY Bounds DEF Sorted, Linked, Strung
<1>2. m # 1
  BY Bounds DEF Sorted, Linked, Strung
<1>3. /\ m \in Nat \ {0} /\ s \in [1..m -> Nodes]
      /\ \A i, k \in 1..m : s[i] = s[k] => i = k
  BY <1>1 DEF Strung
<1>4. l.prev[t] = NULL /\ l.head = t /\ l.next[t] = s[2] /\ s[2] \in Nodes /\ s[2] # t /\ s[2] # NULL
  <2>1. 1 \in 1..m - 1 /\ 2 \in 1..m /\ 1 \in 1..m /\ 1 + 1 = 2
    BY <1>2, <1>3
  <2> QED
    BY <1>1, <1>3, <2>1, Bounds DEF Strung
<1> DEFINE one   == SuspendStatement(l, t, 1)
           two   == SuspendStatement(one, t, 2)
           three == SuspendStatement(two, t, 3)
           four  == SuspendStatement(three, t, 4)
<1>5. one = l
  BY <1>4 DEF SuspendStatement
<1>6. two \in Lists /\ two.head = s[2] /\ two.next = l.next /\ two.prev = l.prev
  <2>1. two = [l EXCEPT !.head = s[2]]
    BY <1>4, <1>5 DEF SuspendStatement
  <2> QED
    BY <1>1, <1>4, <2>1 DEF Lists, Ends
<1>7. /\ three \in Lists /\ three.head = s[2] /\ three.next = l.next
      /\ three.prev = [l.prev EXCEPT ![s[2]] = NULL]
  <2> HIDE DEF two
  <2>1. three = [two EXCEPT !.prev[s[2]] = NULL]
    BY <1>4, <1>6 DEF SuspendStatement
  <2> QED
    BY <1>1, <1>4, <1>6, <2>1 DEF Lists, Ends
<1>8. /\ four \in Lists /\ four.head = s[2] /\ four.next = [l.next EXCEPT ![t] = NULL]
      /\ four.prev = three.prev
  <2> HIDE DEF three
  <2>1. four = [three EXCEPT !.next[t] = NULL]
    BY DEF SuspendStatement
  <2> QED
    BY <1>1, <1>7, <2>1 DEF Lists, Ends
<1>9. r = SuspendStatement(four, t, 5)
  BY DEF Suspending
<1>10. /\ r \in Lists /\ r.head = s[2] /\ r.next = [l.next EXCEPT ![t] = NULL]
       /\ r.prev = [[l.prev EXCEPT ![s[2]] = NULL] EXCEPT ![t] = NULL]
  <2> HIDE DEF four
  <2>1. r = [four EXCEPT !.prev[t] = NULL]
    BY <1>9, LastStatement
  <2>2. r.head = four.head /\ r.next = four.next /\ r.prev = [four.prev EXCEPT ![t] = NULL]
    BY <1>8, <2>1 DEF Lists
  <2>3. r \in Lists
    BY <1>1, <1>8, <2>1 DEF Lists, Ends
  <2> QED
    BY <1>7, <1>8, <2>2, <2>3
<1>11. l.next \in [Nodes -> Ends] /\ l.prev \in [Nodes -> Ends]
  BY <1>1 DEF Lists
<1>12. /\ r.prev[s[2]] = NULL /\ r.next[t] = NULL /\ r.prev[t] = NULL
       /\ \A n \in Nodes : n # t /\ n # s[2] => r.prev[n] = l.prev[n]
       /\ \A n \in Nodes : n # t => r.next[n] = l.next[n]
  BY <1>1, <1>4, <1>10, <1>11
<1>13. Strung(r, Without(s, m, 1), m - 1) /\ Clear(r, Without(s, m, 1), m - 1, {t})
  <2>1. 1 \in 1..m - 1 /\ 1 + 1 = 2
    BY <1>2, <1>3
  <2>2. \A n \in Nodes : n # l.prev[s[1]]
    BY <1>4, Bounds
  <2> QED
    BY <1>4, <1>10, <1>12, <2>1, <2>2, WithoutStrung DEF Sorted
<1>14. Clear(r, Without(s, m, 1), m - 1, {})
  BY <1>12, <1>13 DEF Clear
<1>15. Descends(Without(s, m, 1), m - 1)
  <2>1. 1 \in 1..m - 1
    BY <1>2, <1>3
  <2> QED
    BY <1>3, <2>1, WithoutIs DEF Sorted
<1> QED
  BY <1>2, <1>13, <1>14, <1>15 DEF Sorted, Linked

\* zrt_pickTask returns, the list holds the same tasks as before, and its head is picked;
\* if the running task was the head, one of the highest priority.
LEMMA PickSorted ==
  ASSUME NEW l, NEW s, NEW m, Sorted(l, s, m), NEW c \in Nodes
  PROVE  /\ PickTask(l, c).ok
         /\ \E u : /\ Sorted(PickTask(l, c).list, u, m)
                   /\ \A n : On(n, u, m) <=> On(n, s, m)
                   /\ PickTask(l, c).task = u[1]
                   /\ c = s[1] => \A n : On(n, u, m) => Prio(n) <= Prio(u[1])
<1> DEFINE w == Walk(l, l.next[c])
           lower == {k \in 0..NTasks + 1 : w[k] # NULL /\ Prio(w[k]) < Prio(c)}
           sibling == w[Least(lower)]
           behind == IF l.prev[c] = NULL THEN l ELSE [l EXCEPT !.next[l.prev[c]] = l.next[c]]
           unlinked == [behind EXCEPT !.prev[behind.next[c]] = l.prev[c],
                                      !.head = IF l.head = c THEN behind.next[c] ELSE l.head]
           moved == InsertBefore(unlinked, c, sibling)
           pick(x) == [ok |-> x.head # NULL, list |-> x, task |-> x.head]
           Right(p) == /\ p.ok
                       /\ \E u : /\ Sorted(p.list, u, m)
                                 /\ \A n : On(n, u, m) <=> On(n, s, m)
                                 /\ p.task = u[1]
                                 /\ c = s[1] => \A n : On(n, u, m) => Prio(n) <= Prio(u[1])
<1>1. PickTask(l, c) = IF l.next[c] = NULL THEN pick(l)
                       ELSE IF lower = {} THEN [ok |-> FALSE, list |-> l, task |-> NULL]
                       ELSE IF l.prev[sibling] = c THEN pick(l)
                       ELSE pick(moved)
  BY DEF PickTask, Met
<1>2. Strung(l, s, m) /\ Clear(l, s, m, {}) /\ Descends(s, m)
  BY DEF Sorted, Linked
<1>3. /\ l \in Lists /\ m \in Nat \ {0} /\ s \in [1..m -> Nodes] /\ s[m] = Idle
      /\ \A i, k \in 1..m : s[i] = s[k] => i = k
  BY <1>2 DEF Strung
<1>4. ASSUME NEW x, NEW u, Sorted(x, u, m), \A n : On(n, u, m) <=> On(n, s, m),
             c = s[1] => \A n : On(n, u, m) => Prio(n) <= Prio(u[1])
      PROVE  Right(pick(x))
  <2>1. x.head = u[1] /\ u[1] # NULL
    BY <1>3, <1>4, Bounds DEF Sorted, Linked, Strung
  <2> QED
    BY <1>4, <2>1
<1>5. \A i \in 1..m : Prio(s[i]) \in Nat
  BY <1>3, PrioIs
<1> HIDE DEF pick, Right
<1>6. CASE l.next[c] = NULL
  <2>1. ASSUME c = s[1] PROVE m = 1
    <3>1. m # 1 => 1 \in 1..m - 1 /\ s[1 + 1] \in Nodes
      BY <1>3
    <3>2. m # 1 => l.next[s[1]] = s[1 + 1]
      BY <1>2, <3>1 DEF Strung
    <3> QED
      BY <1>6, <2>1, <3>1, <3>2, Bounds
  <2>2. ASSUME c = s[1], NEW n, On(n, s, m) PROVE Prio(n) <= Prio(s[1])
    BY <1>3, <2>1, <2>2, PrioIs DEF On
  <2>3. Right(pick(l))
    BY <1>4, <2>2
  <2> QED
    BY <1>1, <1>6, <2>3 DEF Right
<1>7. CASE l.next[c] # NULL
  <2>1. \E i \in 1..m : s[i] = c
    BY <1>2, <1>7 DEF Clear, On
  <2>2. PICK i \in 1..m - 1 : s[i] = c
    <3>1. l.next[Idle] = NULL
      BY <1>2 DEF Strung
    <3> QED
      BY <1>3, <1>7, <2>1, <3>1
  <2>3. c \in Tasks /\ i \in 1..m /\ i + 1 \in 1..m /\ l.next[c] = s[i + 1]
    <3>1. i \in 1..m /\ i + 1 \in 1..m /\ i # m
      BY <1>3
    <3>2. c # Idle
      BY <1>3, <2>2, <3>1
    <3> QED
      BY <1>2, <2>2, <3>1, <3>2, Bounds DEF Strung
  <2>4. \A k \in 0..NTasks + 1 : w[k] = IF (i + 1) + k <= m THEN s[(i + 1) + k] ELSE NULL
    BY <1>2, <2>3, LinkedWalk
  <2>5. m <= NTasks + 1 /\ m # 1
    BY <1>3, ListBounded, Bounds
  <2> HIDE DEF w
  <2>6. Prio(c) \in Nat /\ Prio(c) >= 1 /\ Prio(c) = Prio(s[i])
    BY <2>2, <2>3, PrioIs, Bounds
  <2>7. (m - i) - 1 \in lower
    <3>1. (m - i) - 1 \in 0..NTasks + 1 /\ (i + 1) + ((m - i) - 1) = m
      BY <1>3, <2>3, <2>5, Bounds
    <3>2. w[(m - i) - 1] = Idle
      BY <1>3, <2>4, <3>1
    <3> QED
      BY <2>6, <3>1, <3>2, PrioIs, Bounds
  <2> DEFINE k == Least(lower)
  <2>8. k \in lower /\ \A h \in lower : k <= h
    <3> HIDE DEF lower
    <3>1. lower \in SUBSET (0..NTasks + 1)
      BY DEF lower
    <3> QED
      BY <2>7, <3>1, FirstMet
  <2> DEFINE j == (i + 1) + k
  <2>9. k \in 0..NTasks + 1 /\ j <= m /\ sibling = s[j] /\ Prio(s[j]) < Prio(c)
    BY <2>4, <2>8
  <2>10. \A h \in i + 1 .. j - 1 : Prio(s[h]) >= Prio(c)
    <3> SUFFICES ASSUME NEW h \in i + 1 .. j - 1 PROVE Prio(s[h]) >= Prio(c)
      OBVIOUS
    <3>1. h \in 1..m /\ h - (i + 1) \in 0..NTasks + 1 /\ h - (i + 1) < k
          /\ (i + 1) + (h - (i + 1)) = h
      BY <1>3, <2>3, <2>5, <2>9, Bounds
    <3>2. h - (i + 1) \notin lower
      BY <2>8, <2>9, <3>1
    <3>3. w[h - (i + 1)] = s[h] /\ s[h] # NULL
      BY <1>3, <2>4, <3>1, Bounds
    <3> QED
      BY <1>5, <2>6, <3>1, <3>2, <3>3
  <2>11. PickTask(l, c) = IF l.prev[sibling] = c THEN pick(l) ELSE pick(moved)
    BY <1>1, <1>7, <2>7
  <2>12. j \in i + 1 .. m
    BY <2>3, <2>9
  <2> HIDE DEF lower, k, j, sibling
  <2>13. l.prev[sibling] = s[j - 1] /\ j - 1 \in 1..m
    <3>1. j - 1 \in 1..m - 1 /\ (j - 1) + 1 = j
      BY <1>3, <2>3, <2>12
    <3> QED
      BY <1>2, <2>9, <3>1 DEF Strung
  <2>14. CASE j = i + 1
    <3>1. l.prev[sibling] = c
      BY <2>2, <2>13, <2>14
    <3>2. ASSUME c = s[1], NEW n, On(n, s, m) PROVE Prio(n) <= Prio(s[1])
      <4>1. i = 1
        BY <1>3, <2>2, <2>3, <3>2
      <4>2. PICK h \in 1..m : s[h] = n
        BY <3>2 DEF On
      <4>3. CASE h = 1
        BY <1>5, <4>2, <4>3
      <4>4. CASE h # 1
        <5>1. h \in 2..m /\ 2 \in 2..m /\ 2 <= h /\ 1 \in 1..m /\ 2 \in 1..m
          BY <1>3, <2>5, <4>4
        <5>2. Prio(s[2]) >= Prio(s[h])
          BY <1>2, <5>1 DEF Descends
        <5>3. Prio(s[2]) < Prio(s[1])
          BY <2>9, <2>14, <3>2, <4>1
        <5> QED
          BY <1>5, <4>2, <5>1, <5>2, <5>3
      <4> QED
        BY <4>3, <4>4
    <3>3. Right(pick(l))
      BY <1>4, <3>2
    <3> QED
      BY <2>11, <3>1, <3>3 DEF Right
  <2>15. CASE j # i + 1
    <3>1. l.prev[sibling] # c
      <4>1. j - 1 # i
        BY <2>12, <2>15
      <4> QED
        BY <1>3, <2>2, <2>3, <2>13, <4>1
    <3> DEFINE p == l.prev[c]
    <3>2. p = IF i = 1 THEN NULL ELSE s[i - 1]
      <4>1. i # 1 => i - 1 \in 1..m - 1 /\ (i - 1) + 1 = i
        BY <1>3
      <4> QED
        BY <1>2, <2>2, <4>1 DEF Strung
    <3>3. /\ s[i + 1] \in Nodes /\ s[i + 1] # c /\ p # c
          /\ p \in Ends /\ (p # NULL => p \in Nodes)
      <4>1. i # 1 => i - 1 \in 1..m /\ i - 1 # i
        BY <1>3, <2>3
      <4> QED
        BY <1>3, <2>2, <2>3, <3>2, <4>1, Bounds DEF Ends
    <3>4. /\ behind \in Lists /\ behind.next[c] = s[i + 1] /\ behind.head = l.head
          /\ behind.prev = l.prev
          /\ \A n \in Nodes : behind.next[n] = IF n = p THEN s[i + 1] ELSE l.next[n]
      <4>1. CASE p = NULL
        BY <1>3, <2>3, <3>3, <4>1, Bounds
      <4>2. CASE p # NULL
        <5>1. behind = [l EXCEPT !.next[p] = s[i + 1]] /\ p \in Nodes
          BY <2>3, <3>3, <4>2
        <5> HIDE DEF behind, p
        <5> QED
          BY <1>3, <2>3, <3>3, <5>1 DEF Lists, Ends
      <4> QED
        BY <4>1, <4>2
    <3>5. l.head = c <=> i = 1
      <4>1. 1 \in 1..m
        BY <1>3
      <4> QED
        BY <1>2, <1>3, <2>2, <2>3, <4>1 DEF Strung
    <3>6. unlinked = [behind EXCEPT !.prev[s[i + 1]] = p,
                                    !.head = IF i = 1 THEN s[i + 1] ELSE l.head]
      BY <3>4, <3>5
    <3> HIDE DEF unlinked, behind, p
    <3>7. /\ unlinked \in Lists /\ unlinked.prev[s[i + 1]] = p
          /\ unlinked.head = IF i = 1 THEN s[i + 1] ELSE l.head
          /\ unlinked.prev = [l.prev EXCEPT ![s[i + 1]] = p]
          /\ unlinked.next = behind.next
      <4>1. l.head \in Ends
        BY <1>3 DEF Lists
      <4> QED
        BY <3>3, <3>4, <3>6, <4>1 DEF Lists, Ends
    <3>8. /\ unlinked.head = IF i = 1 THEN s[2] ELSE s[1]
          /\ unlinked.prev[s[i + 1]] = l.prev[s[i]]
          /\ \A n \in Nodes : n # s[i] /\ n # s[i + 1] => unlinked.prev[n] = l.prev[n]
          /\ \A n \in Nodes : n # s[i] =>
               unlinked.next[n] = IF n = l.prev[s[i]] THEN s[i + 1] ELSE l.next[n]
      <4>1. l.head = s[1] /\ l.prev \in [Nodes -> Ends]
        BY <1>2, <1>3 DEF Strung, Lists
      <4>2. p = l.prev[s[i]]
        BY <2>2 DEF p
      <4> QED
        BY <3>3, <3>4, <3>7, <4>1, <4>2
    <3> DEFINE b == Without(s, m, i)
               u == With(b, m - 1, c, j - 1)
    <3>9. Strung(unlinked, b, m - 1) /\ Clear(unlinked, b, m - 1, {c})
      BY <2>2, <3>7, <3>8, WithoutStrung DEF Sorted
    <3>10. b \in [1..m - 1 -> Nodes] /\ m - 1 \in Nat \ {0}
      BY <1>3, WithoutIs
    <3>11. \A h \in 1..m - 1 : b[h] = IF h < i THEN s[h] ELSE s[h + 1]
      BY <1>3, WithoutIs
    <3>12. \A g, h \in 1..m - 1 : b[g] = b[h] => g = h
      BY <1>3, WithoutIs
    <3>13. \A n : On(n, b, m - 1) <=> On(n, s, m) /\ n # c
      <4>1. \A n : On(n, Without(s, m, i), m - 1) <=> On(n, s, m) /\ n # s[i]
        BY <1>3, OnWithout
      <4> QED
        BY <2>2, <4>1
    <3>14. Descends(b, m - 1)
      BY <1>2, <1>3, WithoutIs
    <3> HIDE DEF b
    <3>15. ~On(c, b, m - 1)
      BY <3>13
    <3>16. j - 1 \in 1..m - 1 /\ sibling = b[j - 1] /\ j - 1 # 1
      <4>1. j - 1 \in 1..m - 1 /\ (j - 1) + 1 = j /\ ~(j - 1 < i) /\ j - 1 # 1
        BY <1>3, <2>3, <2>12, <2>15
      <4> QED
        BY <2>9, <3>11, <4>1
    <3>17. (m - 1) + 1 = m
      BY <1>3
    <3>18. Linked(moved, u, m)
      <4>1. Linked(InsertBefore(unlinked, c, b[j - 1]), u, (m - 1) + 1)
        BY <2>3, <3>9, <3>15, <3>16, InsertStrung
      <4> QED
        BY <3>16, <3>17, <4>1
    <3>19. Fits(b, m - 1, c, j - 1)
      <4> SUFFICES ASSUME NEW h \in 2..m - 1
                   PROVE  IF h < j - 1 THEN Prio(b[h]) >= Prio(c) ELSE Prio(b[h]) <= Prio(c)
        BY <3>16 DEF Fits
      <4>1. h + 1 \in 2..m /\ h \in 1..m - 1 /\ h + 1 \in 1..m /\ h \in 2..m
        BY <1>3
      <4>2. CASE h < i
        <5>1. b[h] = s[h] /\ h < j - 1 /\ i \in 2..m /\ h <= i
          BY <1>3, <2>3, <2>12, <3>11, <4>1, <4>2
        <5>2. Prio(s[h]) >= Prio(s[i])
          BY <1>2, <4>1, <5>1 DEF Descends
        <5> QED
          BY <2>6, <5>1, <5>2
      <4>3. CASE ~(h < i) /\ h < j - 1
        <5>1. b[h] = s[h + 1] /\ h + 1 \in i + 1 .. j - 1
          BY <2>3, <2>12, <3>11, <4>1, <4>3
        <5> QED
          BY <2>10, <4>3, <5>1
      <4>4. CASE ~(h < j - 1)
        <5>1. b[h] = s[h + 1] /\ j \in 2..m /\ j <= h + 1 /\ j \in 1..m
          BY <2>3, <2>12, <3>11, <4>1, <4>4
        <5>2. Prio(s[j]) >= Prio(s[h + 1])
          BY <1>2, <4>1, <5>1 DEF Descends
        <5> QED
          BY <1>5, <2>6, <2>9, <4>1, <4>4, <5>1, <5>2
      <4> QED
        BY <4>2, <4>3, <4>4
    <3>20. Descends(u, m)
      <4>1. c \in Nodes /\ Descends(u, (m - 1) + 1)
        BY <3>10, <3>14, <3>19, WithDescends
      <4> QED
        BY <3>17, <4>1
    <3>21. \A n : On(n, u, m) <=> On(n, s, m)
      <4>1. \A n : On(n, u, (m - 1) + 1) <=> n = c \/ On(n, b, m - 1)
        BY <3>10, <3>12, <3>15, <3>16, WithIs
      <4>2. On(c, s, m)
        BY <2>2, <2>3 DEF On
      <4> HIDE DEF u
      <4> QED
        BY <3>13, <3>17, <4>1, <4>2
    <3>22. u[1] = b[1]
      <4>1. 1 \in 1..(m - 1) + 1 /\ 1 < j - 1
        BY <1>3, <2>3, <2>12, <2>15
      <4> QED
        BY <4>1 DEF With
    <3>23. ASSUME c = s[1], NEW n, On(n, u, m) PROVE Prio(n) <= Prio(u[1])
      <4>1. i = 1 /\ u[1] = s[2]
        <5>1. i = 1 /\ 1 \in 1..m - 1 /\ 1 + 1 = 2
          BY <1>3, <2>2, <2>3, <3>10, <3>23
        <5> QED
          BY <3>11, <3>22, <5>1
      <4>2. On(n, s, m)
        BY <3>21, <3>23
      <4>3. PICK h \in 1..m : s[h] = n
        BY <4>2 DEF On
      <4>4. 2 \in 1..m /\ 2 \in 2..m
        BY <1>3, <2>5
      <4>5. CASE h = 1
        <5>1. 2 \in i + 1 .. j - 1
          BY <2>12, <2>15, <4>1
        <5>2. Prio(s[2]) >= Prio(c)
          BY <2>10, <5>1
        <5> QED
          BY <1>5, <2>6, <3>23, <4>1, <4>3, <4>4, <4>5, <5>2
      <4>6. CASE h # 1
        <5>1. h \in 2..m /\ 2 <= h
          BY <4>6
        <5>2. Prio(s[2]) >= Prio(s[h])
          BY <1>2, <4>4, <5>1 DEF Descends
        <5> QED
          BY <1>5, <4>1, <4>3, <4>4, <5>2
      <4> QED
        BY <4>5, <4>6
    <3> HIDE DEF u, moved
    <3>24. Right(pick(moved))
      BY <1>4, <3>18, <3>20, <3>21, <3>23 DEF Sorted
    <3> QED
      BY <2>11, <3>1, <3>24 DEF Right
  <2> QED
    BY <2>14, <2>15
<1> QED
  BY <1>6, <1>7

\* The statements of zrt_insertTask that link t before x, up to the k-th.
Inserting(l, t, x, k) ==
  LET one   == InsertStatement(l, t, x, 1)
      two   == InsertStatement(one, t, x, 2)
      three == InsertStatement(two, t, x, 3)
  IN  CASE k = 1 -> l [] k = 2 -> one [] k = 3 -> two [] k = 4 -> three

LEMMA InsertingIs ==
  ASSUME NEW l, NEW t, NEW x
  PROVE  /\ Inserting(l, t, x, 1) = l
         /\ \A k \in 1..3 : Inserting(l, t, x, k + 1) = InsertStatement(Inserting(l, t, x, k), t, x, k)
         /\ InsertBefore(l, t, x) = InsertStatement(Inserting(l, t, x, 4), t, x, 4)
<1>1. \A k \in 1..3 : k = 1 \/ k = 2 \/ k = 3
  OBVIOUS
<1>2. Inserting(l, t, x, 2) = InsertStatement(Inserting(l, t, x, 1), t, x, 1)
  BY DEF Inserting
<1>3. Inserting(l, t, x, 3) = InsertStatement(Inserting(l, t, x, 2), t, x, 2)
  BY DEF Inserting
<1>4. Inserting(l, t, x, 4) = InsertStatement(Inserting(l, t, x, 3), t, x, 3)
  BY DEF Inserting
<1>5. Inserting(l, t, x, 1) = l
  BY DEF Inserting
<1>6. InsertBefore(l, t, x) = InsertStatement(Inserting(l, t, x, 4), t, x, 4)
  BY DEF Inserting, InsertBefore
<1> QED
  BY <1>1, <1>2, <1>3, <1>4, <1>5, <1>6
================================================================================
