--------------------------- MODULE CapturesProofs ---------------------------
(***************************************************************************)
(* Proofs about the commands that keep private objects: the staged storage    *)
(* they share, the capture of an agent's work (AgentCapture) and the quality   *)
(* checks (TraceQc).  What every step of staged storage leaves true is proved  *)
(* once, in the first part, and used by both.                                *)
(***************************************************************************)
EXTENDS AgentCapture, TraceQc, TLAPS

(***************************************************************************)
(* Staged storage.                                                          *)
(***************************************************************************)
Objects == Runs \X Nat \X Nat
IsRun(x) ==
  /\ x = [pc |-> x.pc, does |-> x.does, key |-> x.key, turn |-> x.turn, try |-> x.try, base |-> x.base, again |-> x.again]
  /\ x.turn \in Nat /\ x.try \in Nat
Rows == [status : {"active", "abandoned"}, lapsed : BOOLEAN, object : {"none", "pending", "stored"}]

\* Where the object of a run's attempt is not stored yet, and where it is not published yet.
Early == {"look", "reserve", "prepare", "seal", "upload"}
Open == Early \cup {"confirm", "commit"}
Sealed(r) == runs[r].base[1] \in {"new", "of"}
Older(a) == a[2] < runs[a[1]].turn \/ (a[2] = runs[a[1]].turn /\ a[3] < runs[a[1]].try)
Used(a) == Older(a) \/ (a = Attempt(a[1]) /\ runs[a[1]].pc \notin Early)
\* An object whose attempt is over and forgotten: it is published, or was never stored.
Out(a) == /\ a \in Objects /\ a \notin DOMAIN attempts
          /\ Older(a) \/ (a = Attempt(a[1]) /\ runs[a[1]].pc \notin Open)
Noted(a) == a \in DOMAIN attempts /\ attempts[a].object \in {"pending", "stored"}

RunsOk == runs = [r \in Runs |-> runs[r]] /\ \A r \in Runs : IsRun(runs[r])
RowsOk == /\ attempts = [a \in DOMAIN attempts |-> attempts[a]]
          /\ DOMAIN attempts \subseteq Objects
          /\ \A a \in DOMAIN attempts : attempts[a] \in Rows
VaultOk == vault \subseteq Objects /\ \A a \in vault : Used(a)
\* An object that an active attempt has confirmed is there.
StoredOk == \A a \in DOMAIN attempts : attempts[a].status = "active" /\ attempts[a].object = "stored" => a \in vault
RunOk(r) ==
  /\ runs[r].pc \in {"seal", "upload", "confirm"} => Sealed(r)
  /\ runs[r].pc \in {"upload", "confirm"} => Attempt(r) \in DOMAIN attempts /\ attempts[Attempt(r)].object = "pending"
  /\ runs[r].pc = "confirm" => Attempt(r) \in vault
  /\ runs[r].pc = "commit" =>
       IF Sealed(r) THEN IF Attempt(r) \in DOMAIN attempts THEN attempts[Attempt(r)].object = "stored" ELSE Attempt(r) \notin vault
       ELSE Attempt(r) \notin vault
StagedInv == RunsOk /\ RowsOk /\ VaultOk /\ StoredOk /\ \A r \in Runs : RunOk(r)

\* What a step leaves alone: objects that are out stay out and stay stored, and what is stored without
\* being out is noted.
OutStay == \A a \in Objects : Out(a) => Out(a)'
OutStayStored == \A a \in vault : Out(a) => a \in vault'
NotedStay == \A a \in vault' : (a \in vault /\ (Noted(a) => Noted(a)')) \/ Noted(a)'
Steady == StagedInv' /\ OutStay /\ OutStayStored /\ NotedStay

\* How a run looks after each kind of move.
Moves(r, x) == runs' = [runs EXCEPT ![r] = x] /\ IsRun(x)
Same(r, x) == x.turn = runs[r].turn /\ x.try = runs[r].try /\ x.key = runs[r].key /\ x.does = runs[r].does

LEMMA GoMoves ==
  ASSUME RunsOk, NEW r \in Runs, NEW pc, Go(r, pc)
  PROVE  \E x : Moves(r, x) /\ Same(r, x) /\ x.pc = pc /\ x.base = runs[r].base /\ x.again = runs[r].again
<1> DEFINE x == [runs[r] EXCEPT !.pc = pc]
<1>1. IsRun(runs[r])
  BY DEF RunsOk
<1>2. IsRun(x) /\ Same(r, x) /\ x.pc = pc /\ x.base = runs[r].base /\ x.again = runs[r].again
  BY <1>1 DEF IsRun, Same
<1>3. runs' = [runs EXCEPT ![r] = x]
  BY DEF Go, RunsOk
<1> HIDE DEF x
<1> QED BY <1>2, <1>3 DEF Moves

LEMMA BaseMoves ==
  ASSUME RunsOk, NEW r \in Runs, NEW base, NEW pc, Base(r, base, pc)
  PROVE  \E x : Moves(r, x) /\ Same(r, x) /\ x.pc = pc /\ x.base = base /\ x.again = runs[r].again
<1> DEFINE y == [runs[r] EXCEPT !.base = base]
           x == [y EXCEPT !.pc = pc]
<1>1. IsRun(runs[r])
  BY DEF RunsOk
<1>2. IsRun(y) /\ Same(r, y) /\ y.base = base /\ y.again = runs[r].again
  BY <1>1 DEF IsRun, Same
<1>3. IsRun(x) /\ Same(r, x) /\ x.pc = pc /\ x.base = base /\ x.again = runs[r].again
  <2> HIDE DEF y
  <2> QED BY <1>2 DEF IsRun, Same
<1>4. runs' = [runs EXCEPT ![r] = x]
  BY DEF Base, RunsOk
<1> HIDE DEF x
<1> QED BY <1>3, <1>4 DEF Moves

LEMMA ChangedMoves ==
  ASSUME RunsOk, NEW r \in Runs, Changed(r)
  PROVE  \E x : Moves(r, x) /\ Same(r, x) /\ x.pc = "undo" /\ x.base = runs[r].base
<1> DEFINE yes == TRUE
           y == [runs[r] EXCEPT !.pc = "undo"]
           x == [y EXCEPT !.again = yes]
<1>1. IsRun(runs[r])
  BY DEF RunsOk
<1>2. IsRun(y) /\ Same(r, y) /\ y.pc = "undo" /\ y.base = runs[r].base
  BY <1>1 DEF IsRun, Same
<1>3. IsRun(x) /\ Same(r, x) /\ x.pc = "undo" /\ x.base = runs[r].base
  <2> HIDE DEF y, yes
  <2> QED BY <1>2 DEF IsRun, Same
<1>4. runs' = [runs EXCEPT ![r] = x]
  BY DEF Changed, RunsOk
<1> HIDE DEF x
<1> QED BY <1>3, <1>4 DEF Moves

LEMMA NoRunIs == IsRun(NoRun) /\ NoRun.pc = "idle" /\ NoRun.turn = 0 /\ NoRun.try = 1 /\ NoRun.base = <<>> /\ ~NoRun.again
  BY DEF NoRun, IsRun

LEMMA BegunIs ==
  ASSUME RunsOk, NEW r \in Runs, NEW pc, NEW does, NEW key
  PROVE  LET x == Begun(r, pc, does, key)
         IN IsRun(x) /\ x.pc = pc /\ x.does = does /\ x.key = key /\ x.turn = runs[r].turn + 1 /\ x.try = 1 /\ x.base = <<>>
            /\ ~x.again
<1> DEFINE n == runs[r].turn + 1
           x1 == [NoRun EXCEPT !.pc = pc]
           x2 == [x1 EXCEPT !.does = does]
           x3 == [x2 EXCEPT !.key = key]
           x4 == [x3 EXCEPT !.turn = n]
           Fields(x) == IsRun(x) /\ x.pc = pc /\ x.try = 1 /\ x.base = <<>> /\ ~x.again
<1>1. n \in Nat
  BY DEF RunsOk, IsRun
<1>2. Fields(x1)
  BY NoRunIs DEF IsRun
<1>3. Fields(x2) /\ x2.does = does
  <2> HIDE DEF x1
  <2> QED BY <1>2 DEF IsRun
<1>4. Fields(x3) /\ x3.does = does /\ x3.key = key
  <2> HIDE DEF x2
  <2> QED BY <1>3 DEF IsRun
<1>5. Fields(x4) /\ x4.does = does /\ x4.key = key /\ x4.turn = n
  <2> HIDE DEF x3, n
  <2> QED BY <1>1, <1>4 DEF IsRun
<1>6. Begun(r, pc, does, key) = x4
  BY DEF Begun
<1> HIDE DEF x4
<1> QED BY <1>5, <1>6

LEMMA Moved ==
  ASSUME RunsOk, NEW r \in Runs, NEW x, Moves(r, x)
  PROVE  RunsOk' /\ runs'[r] = x /\ \A q \in Runs : q # r => runs'[q] = runs[q]
BY DEF RunsOk, Moves

LEMMA ObjectParts == \A a \in Objects : a[1] \in Runs /\ a[2] \in Nat /\ a[3] \in Nat /\ a = <<a[1], a[2], a[3]>>
  BY DEF Objects

LEMMA AttemptParts ==
  ASSUME RunsOk, NEW r \in Runs
  PROVE  /\ Attempt(r) \in Objects /\ Attempt(r)[1] = r /\ Attempt(r)[2] = runs[r].turn /\ Attempt(r)[3] = runs[r].try
         /\ ~Older(Attempt(r))
BY DEF RunsOk, IsRun, Attempt, Objects, Older

\* Objects of other runs, and older ones, stay as they are for every move; the others follow their run.
Forward(r, x) == x.turn > runs[r].turn \/ (x.turn = runs[r].turn /\ x.try >= runs[r].try)
LEMMA MovedObjects ==
  ASSUME RunsOk, NEW r \in Runs, NEW x, Moves(r, x), Forward(r, x)
  PROVE  /\ RunsOk' /\ runs'[r] = x /\ \A q \in Runs : q # r => runs'[q] = runs[q] /\ Attempt(q)' = Attempt(q)
         /\ x.turn \in Nat /\ x.try \in Nat
         /\ Attempt(r)' = <<r, x.turn, x.try>>
         /\ \A a \in Objects : Older(a) => Older(a)'
         /\ \A a \in Objects : a[1] # r => (Older(a)' <=> Older(a))
         /\ \A a \in Objects : a = Attempt(r) /\ (x.turn > runs[r].turn \/ x.try > runs[r].try) => Older(a)'
         /\ x.turn = runs[r].turn /\ x.try = runs[r].try => Attempt(r)' = Attempt(r)
<1>1. RunsOk' /\ runs'[r] = x /\ \A q \in Runs : q # r => runs'[q] = runs[q]
  BY Moved
<1>2. x.turn \in Nat /\ x.try \in Nat /\ runs[r].turn \in Nat /\ runs[r].try \in Nat
  BY DEF Moves, IsRun, RunsOk
<1>3. \A a \in Objects : Older(a) => Older(a)'
  <2> TAKE a \in Objects
  <2>1. a[1] \in Runs /\ a[2] \in Nat /\ a[3] \in Nat
    BY ObjectParts
  <2>2. CASE a[1] # r
    BY <1>1, <2>1, <2>2 DEF Older
  <2>3. CASE a[1] = r
    BY <1>1, <1>2, <2>1, <2>3 DEF Older, Forward
  <2> QED BY <2>2, <2>3
<1>4. \A a \in Objects : a[1] # r => (Older(a)' <=> Older(a))
  BY <1>1, ObjectParts DEF Older
<1>5. \A a \in Objects : a = Attempt(r) /\ (x.turn > runs[r].turn \/ x.try > runs[r].try) => Older(a)'
  <2> SUFFICES ASSUME NEW a \in Objects, a = Attempt(r), x.turn > runs[r].turn \/ x.try > runs[r].try PROVE Older(a)'
    OBVIOUS
  <2>1. a[1] = r /\ a[2] = runs[r].turn /\ a[3] = runs[r].try
    BY <1>1, AttemptParts
  <2> QED BY <1>1, <1>2, <2>1 DEF Older, Forward
<1> QED BY <1>1, <1>2, <1>3, <1>4, <1>5 DEF Attempt

MayMove(r, x) ==
  \/ x.turn > runs[r].turn /\ x.pc \notin {"seal", "upload", "confirm", "commit"}
  \/ /\ x.turn = runs[r].turn /\ x.try = runs[r].try
     /\ \/ x.pc \notin Open
        \/ runs[r].pc = "look" /\ x.pc = "reserve"
        \/ runs[r].pc = "prepare" /\ x.pc = "seal" /\ x.base[1] \in {"new", "of"}
        \/ runs[r].pc = "prepare" /\ x.pc = "commit" /\ x.base[1] \notin {"new", "of"}

LEMMA MoveIsCalm ==
  ASSUME StagedInv, NEW r \in Runs, NEW x, Moves(r, x), MayMove(r, x), attempts' = attempts,
         vault' \subseteq vault, \A a \in vault \ vault' : Out(a)
  PROVE  StagedInv' /\ OutStay /\ NotedStay
<1>1. RunsOk
  BY DEF StagedInv
<1>2. Forward(r, x)
  BY <1>1 DEF MayMove, Forward, RunsOk, IsRun
<1>3. /\ RunsOk' /\ runs'[r] = x /\ \A q \in Runs : q # r => runs'[q] = runs[q] /\ Attempt(q)' = Attempt(q)
      /\ x.turn \in Nat /\ x.try \in Nat
      /\ \A a \in Objects : Older(a) => Older(a)'
      /\ \A a \in Objects : a = Attempt(r) /\ x.turn > runs[r].turn => Older(a)'
      /\ x.turn = runs[r].turn /\ x.try = runs[r].try => Attempt(r)' = Attempt(r)
  BY <1>1, <1>2, MovedObjects
<1>4. runs[r].turn \in Nat
  BY <1>1 DEF RunsOk, IsRun
<1>5. RowsOk' /\ StoredOk'
  BY DEF StagedInv, RowsOk, StoredOk, Out
<1>6. VaultOk'
  <2> SUFFICES ASSUME NEW a \in vault' PROVE Used(a)'
    BY DEF StagedInv, VaultOk
  <2>1. a \in Objects /\ Used(a) /\ a[1] \in Runs
    BY ObjectParts DEF StagedInv, VaultOk
  <2>2. CASE Older(a)
    BY <1>3, <2>1, <2>2 DEF Used
  <2>3. CASE a = Attempt(a[1]) /\ runs[a[1]].pc \notin Early /\ a[1] # r
    BY <1>3, <2>1, <2>3 DEF Used
  <2>4. CASE a = Attempt(r) /\ runs[r].pc \notin Early /\ x.turn > runs[r].turn
    BY <1>3, <2>1, <2>4 DEF Used
  <2>5. CASE a = Attempt(r) /\ runs[r].pc \notin Early /\ ~(x.turn > runs[r].turn)
    <3>1. x.pc \notin Early /\ x.turn = runs[r].turn /\ x.try = runs[r].try
      BY <1>3, <1>4, <2>5 DEF MayMove, Early, Open
    <3>2. a[1] = r
      BY <1>1, <2>5, AttemptParts
    <3> QED BY <1>3, <2>5, <3>1, <3>2 DEF Used
  <2> QED BY <2>1, <2>2, <2>3, <2>4, <2>5 DEF Used
<1>7. OutStay
  <2> SUFFICES ASSUME NEW a \in Objects, Out(a) PROVE Out(a)'
    BY DEF OutStay
  <2>1. a[1] \in Runs
    BY ObjectParts
  <2>2. CASE Older(a)
    BY <1>3, <2>2 DEF Out
  <2>3. CASE a = Attempt(a[1]) /\ runs[a[1]].pc \notin Open /\ a[1] # r
    BY <1>3, <2>1, <2>3 DEF Out
  <2>4. CASE a = Attempt(r) /\ runs[r].pc \notin Open /\ x.turn > runs[r].turn
    BY <1>3, <2>4 DEF Out
  <2>5. CASE a = Attempt(r) /\ runs[r].pc \notin Open /\ ~(x.turn > runs[r].turn)
    <3>1. x.pc \notin Open /\ x.turn = runs[r].turn /\ x.try = runs[r].try
      BY <1>3, <1>4, <2>5 DEF MayMove, Early, Open
    <3>2. a[1] = r
      BY <1>1, <2>5, AttemptParts
    <3> QED BY <1>3, <2>5, <3>1, <3>2 DEF Out
  <2> QED BY <2>2, <2>3, <2>4, <2>5 DEF Out
<1>8. \A q \in Runs : RunOk(q)'
  <2> TAKE q \in Runs
  <2>1. RunOk(q)
    BY DEF StagedInv
  <2>2. CASE q # r
    <3>1. runs[q].pc = "confirm" => Attempt(q) \in vault'
      BY <1>1, <2>1, AttemptParts DEF RunOk, Out, Open
    <3> QED BY <1>3, <2>1, <2>2, <3>1 DEF RunOk, Sealed
  <2>3. CASE q = r /\ x.pc \notin {"seal", "commit"}
    BY <1>3, <2>3 DEF RunOk, MayMove, Open, Early
  <2>4. CASE q = r /\ x.pc = "seal"
    BY <1>3, <2>4 DEF RunOk, Sealed, MayMove, Open, Early
  <2>5. CASE q = r /\ x.pc = "commit"
    <3>1. runs[r].pc = "prepare" /\ x.base[1] \notin {"new", "of"} /\ Attempt(r)' = Attempt(r)
      BY <1>3, <2>5 DEF MayMove, Open, Early
    <3>2. Attempt(r) \notin vault
      <4> SUFFICES ASSUME Used(Attempt(r)) PROVE FALSE
        BY DEF StagedInv, VaultOk
      <4> QED BY <1>1, <3>1, AttemptParts DEF Used, Early
    <3> QED BY <1>3, <2>5, <3>1, <3>2 DEF RunOk, Sealed
  <2> QED BY <2>2, <2>3, <2>4, <2>5
<1>9. NotedStay
  BY DEF NotedStay, Noted
<1> QED BY <1>3, <1>5, <1>6, <1>7, <1>8, <1>9 DEF StagedInv

LEMMA MoveIsSteady ==
  ASSUME StagedInv, NEW r \in Runs, NEW x, Moves(r, x), MayMove(r, x), UNCHANGED <<vault, attempts>>
  PROVE  Steady
BY MoveIsCalm DEF Steady, OutStayStored

\* A row that a step does not write, or only takes the activity from.
RowStays(a) ==
  /\ a \in DOMAIN attempts' => /\ a \in DOMAIN attempts /\ attempts'[a].object = attempts[a].object
                               /\ attempts'[a].status = "active" => attempts[a].status = "active"
  /\ Noted(a) => a \in DOMAIN attempts'

LEMMA StayingRows ==
  ASSUME StagedInv, RowsOk', NEW a \in Objects, RowStays(a)
  PROVE  /\ a \notin DOMAIN attempts => a \notin DOMAIN attempts'
         /\ Noted(a) <=> Noted(a)'
         /\ a \in DOMAIN attempts /\ attempts[a].object = "pending" => a \in DOMAIN attempts' /\ attempts'[a].object = "pending"
         /\ a \in DOMAIN attempts' /\ a \in DOMAIN attempts => attempts'[a].object = attempts[a].object
BY DEF RowStays, Noted

LEMMA RowsAreCalm ==
  ASSUME StagedInv, NEW r \in Runs, NEW x, Moves(r, x), Forward(r, x), vault' = vault, RowsOk',
         NEW o, o = Attempt(r), \A a \in Objects : a # o => RowStays(a),
         o \in DOMAIN attempts' /\ attempts'[o].status = "active" /\ attempts'[o].object = "stored" => o \in vault,
         RunOk(r)',
         o \in vault => Used(o)',
         Out(o) => Out(o)'
  PROVE  StagedInv' /\ OutStay /\ OutStayStored /\ \A a \in vault : a # o /\ Noted(a) => Noted(a)'
<1>1. RunsOk
  BY DEF StagedInv
<1>2. /\ RunsOk' /\ runs'[r] = x /\ \A q \in Runs : q # r => runs'[q] = runs[q] /\ Attempt(q)' = Attempt(q)
      /\ \A a \in Objects : Older(a) => Older(a)'
  BY <1>1, MovedObjects
<1>3. StoredOk'
  <2> SUFFICES ASSUME NEW a \in DOMAIN attempts', attempts'[a].status = "active", attempts'[a].object = "stored" PROVE a \in vault'
    BY DEF StoredOk
  <2>1. CASE a # o
    BY <2>1 DEF RowsOk, RowStays, StagedInv, StoredOk
  <2> QED BY <2>1
<1>4. VaultOk'
  <2> SUFFICES ASSUME NEW a \in vault PROVE Used(a)'
    BY DEF StagedInv, VaultOk
  <2>1. a \in Objects /\ Used(a) /\ a[1] \in Runs
    BY ObjectParts DEF StagedInv, VaultOk
  <2>2. CASE a[1] # r \/ Older(a)
    BY <1>2, <2>1, <2>2 DEF Used
  <2>3. CASE a[1] = r /\ ~Older(a)
    BY <2>1, <2>3 DEF Used
  <2> QED BY <2>2, <2>3
<1>5. OutStay
  <2> SUFFICES ASSUME NEW a \in Objects, Out(a) PROVE Out(a)'
    BY DEF OutStay
  <2>1. a[1] \in Runs
    BY ObjectParts
  <2>2. CASE a # o
    <3>1. a \notin DOMAIN attempts'
      BY <2>2, StayingRows DEF Out
    <3>2. CASE Older(a)
      BY <1>2, <3>1, <3>2 DEF Out
    <3>3. CASE ~Older(a)
      <4>1. a = Attempt(a[1]) /\ a[1] # r /\ runs[a[1]].pc \notin Open
        BY <2>2, <3>3 DEF Out
      <4> QED BY <1>2, <2>1, <3>1, <4>1 DEF Out
    <3> QED BY <3>2, <3>3
  <2> QED BY <2>2
<1>6. \A q \in Runs : RunOk(q)'
  <2> SUFFICES ASSUME NEW q \in Runs, q # r PROVE RunOk(q)'
    OBVIOUS
  <2> DEFINE b == Attempt(q)
  <2>1. RunOk(q) /\ runs'[q] = runs[q] /\ Attempt(q)' = b
    BY <1>2 DEF StagedInv
  <2>2. b \in Objects /\ b # o
    BY <1>1, AttemptParts
  <2>3. /\ b \notin DOMAIN attempts => b \notin DOMAIN attempts'
        /\ b \in DOMAIN attempts /\ attempts[b].object = "pending" => b \in DOMAIN attempts' /\ attempts'[b].object = "pending"
        /\ b \in DOMAIN attempts' /\ b \in DOMAIN attempts => attempts'[b].object = attempts[b].object
        /\ b \in DOMAIN attempts /\ b \notin DOMAIN attempts' => attempts[b].object \notin {"pending", "stored"}
    BY <2>2 DEF RowStays, Noted
  <2>4. Sealed(q)' <=> Sealed(q)
    BY <2>1 DEF Sealed
  <2>6. (runs[q].pc \in {"seal", "upload", "confirm"} => Sealed(q)')
    BY <2>1, <2>4 DEF RunOk
  <2>7. runs[q].pc \in {"upload", "confirm"} => b \in DOMAIN attempts' /\ attempts'[b].object = "pending"
    BY <2>1, <2>3 DEF RunOk
  <2>8. runs[q].pc = "confirm" => b \in vault'
    BY <2>1 DEF RunOk
  <2>9. runs[q].pc = "commit" =>
          IF Sealed(q)' THEN IF b \in DOMAIN attempts' THEN attempts'[b].object = "stored" ELSE b \notin vault'
          ELSE b \notin vault'
    BY <2>1, <2>3, <2>4 DEF RunOk
  <2> QED BY <2>1, <2>6, <2>7, <2>8, <2>9 DEF RunOk
<1>7. OutStayStored
  BY DEF OutStayStored
<1>8. \A a \in vault : a # o /\ Noted(a) => Noted(a)'
  BY StayingRows DEF StagedInv, VaultOk
<1> QED BY <1>2, <1>3, <1>4, <1>5, <1>6, <1>7, <1>8 DEF StagedInv

LEMMA RowsAreSteady ==
  ASSUME StagedInv, NEW r \in Runs, NEW x, Moves(r, x), Forward(r, x), vault' = vault, RowsOk',
         NEW o, o = Attempt(r), \A a \in Objects : a # o => RowStays(a),
         o \in DOMAIN attempts' /\ attempts'[o].status = "active" /\ attempts'[o].object = "stored" => o \in vault,
         RunOk(r)',
         o \in vault => Used(o)' /\ (Noted(o) => Noted(o)'),
         Out(o) => Out(o)'
  PROVE  Steady
BY RowsAreCalm DEF Steady, NotedStay

\* abandon takes the activity from rows, and forgets those that note no object.
LEMMA AbandonIs ==
  ASSUME NEW rows, \A a \in DOMAIN rows : rows[a] \in Rows, NEW lost
  PROVE  LET new == Abandon(rows, lost)
         IN /\ new = [a \in DOMAIN new |-> new[a]] /\ DOMAIN new \subseteq DOMAIN rows
            /\ \A a \in DOMAIN new : /\ new[a] \in Rows /\ new[a].object = rows[a].object
                                     /\ new[a].status = "active" => rows[a].status = "active"
            /\ \A a \in DOMAIN rows : rows[a].object # "none" => a \in DOMAIN new
            /\ \A a \in DOMAIN rows \ lost : a \in DOMAIN new /\ new[a] = rows[a]
<1> DEFINE kept == {b \in DOMAIN rows : b \in lost => rows[b].object # "none"}
           Ended(a) == [rows[a] EXCEPT !.status = "abandoned"]
           value(a) == IF a \in lost /\ rows[a].status = "active" THEN Ended(a) ELSE rows[a]
           new == [a \in kept |-> value(a)]
<1>1. \A a \in kept : Ended(a) \in Rows /\ Ended(a).object = rows[a].object /\ Ended(a).status = "abandoned"
  BY DEF Rows
<1>2. new = Abandon(rows, lost)
  BY DEF Abandon
<1> HIDE DEF Ended
<1>3. \A a \in kept : new[a] = value(a)
  OBVIOUS
<1>4. \A a \in DOMAIN new : new[a] \in Rows /\ new[a].object = rows[a].object /\ (new[a].status = "active" => rows[a].status = "active")
  BY <1>1, <1>3
<1>5. \A a \in DOMAIN rows \ lost : a \in DOMAIN new /\ new[a] = rows[a]
  BY <1>3
<1>6. /\ new = [a \in DOMAIN new |-> new[a]] /\ DOMAIN new \subseteq DOMAIN rows
      /\ \A a \in DOMAIN rows : rows[a].object # "none" => a \in DOMAIN new
  OBVIOUS
<1> HIDE DEF new
<1> QED BY <1>2, <1>4, <1>5, <1>6

LEMMA ReserveIsSteady ==
  ASSUME StagedInv, NEW r \in Runs, Reserve(r)
  PROVE  Steady
<1> DEFINE o == Attempt(r)
           row == [NoAttempt EXCEPT !.status = "active"]
           fresh == Put(o, row)
           lost == {claims[runs[r].key]}
<1>1. RunsOk /\ runs[r].pc = "reserve"
  BY DEF StagedInv, Reserve, At
<1>2. PICK x : Moves(r, x) /\ Same(r, x) /\ x.pc = "prepare"
  BY <1>1, GoMoves DEF Reserve
<1>3. Forward(r, x) /\ Attempt(r)' = o /\ runs'[r] = x /\ \A q \in Runs : q # r => runs'[q] = runs[q]
  BY <1>1, <1>2, MovedObjects DEF Forward, Same, RunsOk, IsRun
<1>4. o \in Objects /\ o[1] = r /\ ~Older(o)
  BY <1>1, AttemptParts
<1>5. row \in Rows /\ row.object = "none"
  BY DEF NoAttempt, Rows
<1>6. o \notin vault /\ ~Out(o)
  BY <1>1, <1>4 DEF StagedInv, VaultOk, Used, Early, Out, Open
<1>7. attempts' = fresh \/ attempts' = Abandon(fresh, lost)
  BY DEF Reserve
<1> HIDE DEF o, row, lost
<1>8. /\ fresh = [a \in DOMAIN fresh |-> fresh[a]] /\ DOMAIN fresh = DOMAIN attempts \cup {o}
      /\ fresh[o] = row /\ \A a \in DOMAIN attempts : a # o => fresh[a] = attempts[a]
  BY DEF Put, With
<1> HIDE DEF fresh
<1>9. \A a \in DOMAIN fresh : a \in Objects /\ fresh[a] \in Rows
  BY <1>4, <1>5, <1>8 DEF StagedInv, RowsOk
<1>10. /\ RowsOk'
       /\ \A a \in DOMAIN attempts' : /\ a \in DOMAIN fresh /\ attempts'[a].object = fresh[a].object
                                      /\ attempts'[a].status = "active" => fresh[a].status = "active"
       /\ \A a \in DOMAIN fresh : fresh[a].object # "none" => a \in DOMAIN attempts'
  <2>1. CASE attempts' = fresh
    BY <1>8, <1>9, <2>1 DEF RowsOk
  <2>2. CASE attempts' = Abandon(fresh, lost)
    BY <1>9, <2>2, AbandonIs DEF RowsOk
  <2> QED BY <1>7, <2>1, <2>2
<1>11. \A a \in Objects : a # o => RowStays(a)
  BY <1>8, <1>10 DEF RowStays, Noted
<1>12. o \in DOMAIN attempts' => attempts'[o].object = "none"
  BY <1>5, <1>8, <1>10
<1>13. RunOk(r)'
  BY <1>2, <1>3 DEF RunOk
<1>14. vault' = vault
  BY DEF Reserve
<1> QED BY <1>2, <1>3, <1>6, <1>10, <1>11, <1>12, <1>13, <1>14, RowsAreSteady DEF o

LEMMA RowWritten ==
  ASSUME RowsOk, NEW o \in DOMAIN attempts, NEW value \in {"pending", "stored"}, attempts' = [attempts EXCEPT ![o].object = value]
  PROVE  /\ RowsOk' /\ attempts'[o].object = value /\ o \in DOMAIN attempts'
         /\ \A a \in Objects : a # o => RowStays(a)
<1> DEFINE row == [attempts[o] EXCEPT !.object = value]
<1>1. row \in Rows /\ row.object = value
  BY DEF RowsOk, Rows
<1>2. attempts' = [attempts EXCEPT ![o] = row]
  BY DEF RowsOk
<1> HIDE DEF row
<1>3. DOMAIN attempts' = DOMAIN attempts /\ attempts'[o] = row /\ \A a \in DOMAIN attempts : a # o => attempts'[a] = attempts[a]
  BY <1>2 DEF RowsOk
<1>4. RowsOk'
  BY <1>1, <1>2, <1>3 DEF RowsOk
<1> QED BY <1>1, <1>3, <1>4 DEF RowStays, Noted

LEMMA HeldRow ==
  ASSUME NEW r \in Runs, Held(r)
  PROVE  Attempt(r) \in DOMAIN attempts /\ attempts[Attempt(r)].status = "active"
BY DEF Held, Live, Row, NoAttempt

LEMMA WriteDownIsSteady ==
  ASSUME StagedInv, NEW r \in Runs, WriteDown(r)
  PROVE  Steady
<1> DEFINE o == Attempt(r)
<1>1. RunsOk /\ RowsOk /\ runs[r].pc = "seal" /\ RunOk(r)
  BY DEF StagedInv, WriteDown, At
<1>2. PICK x : Moves(r, x) /\ Same(r, x) /\ x.pc = "upload" /\ x.base = runs[r].base
  BY <1>1, GoMoves DEF WriteDown
<1>3. Forward(r, x) /\ Attempt(r)' = o /\ runs'[r] = x
  BY <1>1, <1>2, MovedObjects DEF Forward, Same, RunsOk, IsRun
<1>4. o \in Objects /\ o[1] = r /\ ~Older(o)
  BY <1>1, AttemptParts
<1>5. o \notin vault /\ ~Out(o)
  BY <1>1, <1>4 DEF StagedInv, VaultOk, Used, Early, Out, Open
<1>6. o \in DOMAIN attempts /\ attempts' = [attempts EXCEPT ![o].object = "pending"]
  BY HeldRow DEF WriteDown
<1>7. RowsOk' /\ o \in DOMAIN attempts' /\ attempts'[o].object = "pending" /\ \A a \in Objects : a # o => RowStays(a)
  <2> HIDE DEF o
  <2> QED BY <1>1, <1>6, RowWritten
<1>8. RunOk(r)'
  BY <1>1, <1>2, <1>3, <1>7 DEF RunOk, Sealed
<1>9. vault' = vault
  BY DEF WriteDown
<1> HIDE DEF o
<1> QED BY <1>2, <1>3, <1>5, <1>7, <1>8, <1>9, RowsAreSteady DEF o

LEMMA ConfirmIsSteady ==
  ASSUME StagedInv, NEW r \in Runs, Confirm(r)
  PROVE  Steady
<1> DEFINE o == Attempt(r)
<1>1. RunsOk /\ RowsOk /\ runs[r].pc = "confirm" /\ RunOk(r)
  BY DEF StagedInv, Confirm, At
<1>2. PICK x : Moves(r, x) /\ Same(r, x) /\ x.pc = "commit" /\ x.base = runs[r].base
  BY <1>1, GoMoves DEF Confirm
<1>3. Forward(r, x) /\ Attempt(r)' = o /\ runs'[r] = x
  BY <1>1, <1>2, MovedObjects DEF Forward, Same, RunsOk, IsRun
<1>4. o \in Objects /\ o[1] = r /\ ~Older(o)
  BY <1>1, AttemptParts
<1>5. o \in vault /\ ~Out(o) /\ o \in DOMAIN attempts
  BY <1>1, <1>4 DEF RunOk, Out
<1>6. attempts' = [attempts EXCEPT ![o].object = "stored"]
  BY DEF Confirm
<1>7. RowsOk' /\ o \in DOMAIN attempts' /\ attempts'[o].object = "stored" /\ \A a \in Objects : a # o => RowStays(a)
  <2> HIDE DEF o
  <2> QED BY <1>1, <1>5, <1>6, RowWritten
<1>8. RunOk(r)'
  BY <1>1, <1>2, <1>3, <1>7 DEF RunOk, Sealed
<1>9. vault' = vault
  BY DEF Confirm
<1>10. Used(o)' /\ Noted(o)'
  BY <1>2, <1>3, <1>4, <1>7 DEF Used, Early, Noted
<1> HIDE DEF o
<1> QED BY <1>2, <1>3, <1>5, <1>7, <1>8, <1>9, <1>10, RowsAreSteady DEF o

\* Both ends of an upload.
LEMMA UploadIsSteady ==
  ASSUME StagedInv, NEW r \in Runs, Upload(r) \/ UploadFails(r)
  PROVE  Steady
<1> DEFINE o == Attempt(r)
<1>1. RunsOk /\ RowsOk /\ runs[r].pc = "upload" /\ RunOk(r)
  BY DEF StagedInv, Upload, UploadFails, At
<1>2. PICK x : /\ Moves(r, x) /\ Same(r, x) /\ x.base = runs[r].base
               /\ x.pc = "undo" \/ (x.pc = "confirm" /\ Attempt(r) \in vault')
  <2>1. CASE Upload(r)
    BY <1>1, <2>1, GoMoves DEF Upload
  <2>2. CASE UploadFails(r)
    BY <1>1, <2>2, GoMoves DEF UploadFails
  <2> QED BY <2>1, <2>2
<1>3. /\ RunsOk' /\ Attempt(r)' = o /\ runs'[r] = x
      /\ \A q \in Runs : q # r => runs'[q] = runs[q] /\ Attempt(q)' = Attempt(q)
      /\ \A a \in Objects : Older(a) => Older(a)'
  BY <1>1, <1>2, MovedObjects DEF Forward, Same, RunsOk, IsRun
<1>4. o \in Objects /\ o[1] = r /\ ~Older(o)
  BY <1>1, AttemptParts
<1>5. o \notin vault /\ ~Out(o) /\ o \in DOMAIN attempts /\ attempts[o].object = "pending"
  BY <1>1, <1>4 DEF StagedInv, VaultOk, Used, Early, RunOk, Out
<1>6. attempts' = attempts /\ vault \subseteq vault' /\ vault' \subseteq vault \cup {o}
  BY DEF Upload, UploadFails
<1> HIDE DEF o
<1>7. RowsOk' /\ StoredOk'
  BY <1>1, <1>6 DEF RowsOk, StoredOk, StagedInv
<1>8. VaultOk'
  <2> SUFFICES ASSUME NEW a \in vault' PROVE a \in Objects /\ Used(a)'
    BY DEF VaultOk
  <2>1. CASE a = o
    BY <1>2, <1>3, <1>4, <2>1 DEF Used, Early
  <2>2. CASE a \in vault /\ a # o
    <3>1. a \in Objects /\ Used(a) /\ a[1] \in Runs
      BY <2>2, ObjectParts DEF StagedInv, VaultOk
    <3>2. Older(a) \/ (a[1] # r /\ a = Attempt(a[1]) /\ runs[a[1]].pc \notin Early)
      BY <2>2, <3>1 DEF Used, o
    <3> QED BY <1>3, <3>1, <3>2 DEF Used
  <2> QED BY <1>6, <2>1, <2>2
<1>9. OutStay
  <2> SUFFICES ASSUME NEW a \in Objects, Out(a) PROVE Out(a)'
    BY DEF OutStay
  <2>1. a # o /\ a[1] \in Runs
    BY <1>5, ObjectParts
  <2>2. Older(a) \/ (a[1] # r /\ a = Attempt(a[1]) /\ runs[a[1]].pc \notin Open)
    BY <2>1 DEF Out, o
  <2> QED BY <1>3, <1>6, <2>1, <2>2 DEF Out
<1>10. \A q \in Runs : RunOk(q)'
  <2> TAKE q \in Runs
  <2>1. CASE q = r
    BY <1>1, <1>2, <1>3, <1>5, <1>6, <2>1 DEF RunOk, Sealed, o
  <2>2. CASE q # r
    <3>1. RunOk(q) /\ Attempt(q) \in Objects /\ Attempt(q)[1] = q
      BY <1>1, AttemptParts DEF StagedInv
    <3>2. Attempt(q) \in vault' <=> Attempt(q) \in vault
      BY <1>4, <1>6, <2>2, <3>1
    <3> QED BY <1>3, <1>6, <2>2, <3>1, <3>2 DEF RunOk, Sealed
  <2> QED BY <2>1, <2>2
<1>11. OutStayStored /\ NotedStay
  BY <1>5, <1>6 DEF OutStayStored, NotedStay, Noted
<1> QED BY <1>3, <1>7, <1>8, <1>9, <1>10, <1>11 DEF Steady, StagedInv

LEMMA UndoMoves ==
  ASSUME RunsOk, NEW r \in Runs, Undo(r)
  PROVE  \E x : /\ Moves(r, x) /\ x.turn = runs[r].turn /\ x.key = runs[r].key /\ x.does = runs[r].does /\ x.base = runs[r].base
                /\ \/ x.pc = "reserve" /\ x.try = runs[r].try + 1 /\ runs[r].again
                   \/ x.pc = "failed" /\ x.try = runs[r].try /\ x.again = runs[r].again
<1> DEFINE run == runs[r]
           y1 == [run EXCEPT !.pc = "reserve"]
           n == run.try + 1
           y2 == [y1 EXCEPT !.try = n]
           no == FALSE
           y3 == [y2 EXCEPT !.again = no]
           z == [run EXCEPT !.pc = "failed"]
           As(x) == IsRun(x) /\ x.turn = run.turn /\ x.key = run.key /\ x.does = run.does /\ x.base = run.base
<1>1. IsRun(run)
  BY DEF RunsOk
<1>2. As(z) /\ z.pc = "failed" /\ z.try = run.try /\ z.again = run.again
  BY <1>1 DEF IsRun
<1>3. As(y1) /\ y1.pc = "reserve" /\ y1.try = run.try
  BY <1>1 DEF IsRun
<1>4. As(y2) /\ y2.pc = "reserve" /\ y2.try = n
  <2>1. n \in Nat
    BY <1>1 DEF IsRun
  <2> HIDE DEF y1, n
  <2> QED BY <1>3, <2>1 DEF IsRun
<1>5. As(y3) /\ y3.pc = "reserve" /\ y3.try = n
  <2> HIDE DEF y2, no
  <2> QED BY <1>4 DEF IsRun
<1>6. [run EXCEPT !.pc = "reserve", !.try = @ + 1, !.again = FALSE] = y3
  BY <1>1 DEF IsRun
<1>7. runs' = [runs EXCEPT ![r] = IF run.again /\ run.try < TRIES THEN y3 ELSE z]
  BY <1>6 DEF Undo
<1> HIDE DEF y3, z
<1>8. CASE run.again /\ run.try < TRIES
  BY <1>5, <1>7, <1>8 DEF Moves
<1>9. CASE ~(run.again /\ run.try < TRIES)
  BY <1>2, <1>7, <1>9 DEF Moves
<1> QED BY <1>8, <1>9

LEMMA AbandonStays ==
  ASSUME StagedInv, NEW lost, attempts' = Abandon(attempts, lost)
  PROVE  /\ RowsOk'
         /\ \A a \in Objects : RowStays(a)
<1>1. \A a \in DOMAIN attempts : attempts[a] \in Rows /\ a \in Objects
  BY DEF StagedInv, RowsOk
<1>2. /\ attempts' = [a \in DOMAIN attempts' |-> attempts'[a]] /\ DOMAIN attempts' \subseteq DOMAIN attempts
      /\ \A a \in DOMAIN attempts' : /\ attempts'[a] \in Rows /\ attempts'[a].object = attempts[a].object
                                     /\ attempts'[a].status = "active" => attempts[a].status = "active"
      /\ \A a \in DOMAIN attempts : attempts[a].object # "none" => a \in DOMAIN attempts'
  BY <1>1, AbandonIs
<1> QED BY <1>1, <1>2 DEF RowsOk, RowStays, Noted

LEMMA UndoIsSteady ==
  ASSUME StagedInv, NEW r \in Runs, Undo(r)
  PROVE  Steady
<1>0. PICK o : o = Attempt(r)
  OBVIOUS
<1>1. RunsOk /\ RowsOk /\ runs[r].pc = "undo"
  BY DEF StagedInv, Undo, At
<1>2. PICK x : /\ Moves(r, x) /\ x.turn = runs[r].turn
               /\ (x.pc = "reserve" /\ x.try = runs[r].try + 1) \/ (x.pc = "failed" /\ x.try = runs[r].try)
  BY <1>1, UndoMoves
<1>3. Forward(r, x)
  BY <1>1, <1>2 DEF Forward, RunsOk, IsRun
<1>4. /\ runs'[r] = x /\ (x.try = runs[r].try => Attempt(r)' = o)
      /\ \A a \in Objects : a = o /\ x.try > runs[r].try => Older(a)'
  BY <1>0, <1>1, <1>2, <1>3, MovedObjects
<1>5. o \in Objects /\ o[1] = r /\ runs[r].try + 1 > runs[r].try
  BY <1>0, <1>1, AttemptParts DEF RunsOk, IsRun
<1>6. attempts' = Abandon(attempts, {o}) /\ vault' = vault
  BY <1>0 DEF Undo
<1>7. RowsOk' /\ \A a \in Objects : RowStays(a)
  BY <1>6, AbandonStays
<1>8. RunOk(r)'
  BY <1>2, <1>4 DEF RunOk
<1>9. Used(o)'
  BY <1>2, <1>4, <1>5 DEF Used, Early
<1>10. Out(o) => Out(o)'
  BY <1>2, <1>4, <1>5, <1>7 DEF Out, Open, Early, RowStays
<1>11. Noted(o) => Noted(o)'
  BY <1>5, <1>7, StayingRows
<1>12. o \in DOMAIN attempts' /\ attempts'[o].status = "active" /\ attempts'[o].object = "stored" => o \in vault
  BY <1>5, <1>7 DEF RowStays, StagedInv, StoredOk
<1> QED BY <1>0, <1>2, <1>3, <1>6, <1>7, <1>8, <1>9, <1>10, <1>11, <1>12, RowsAreSteady

\* Rows change and no run moves.
LEMMA RestingIsSteady ==
  ASSUME StagedInv, RowsOk', \A a \in Objects : RowStays(a), UNCHANGED <<vault, runs>>
  PROVE  Steady
<1>1. RunsOk' /\ VaultOk'
  BY DEF StagedInv, RunsOk, IsRun, VaultOk, Used, Older, Attempt
<1>2. StoredOk'
  BY DEF StagedInv, StoredOk, RowStays, RowsOk
<1>3. OutStay
  BY DEF OutStay, Out, Older, Attempt, RowStays
<1>4. OutStayStored
  BY DEF OutStayStored
<1>5. NotedStay
  BY StayingRows DEF NotedStay, StagedInv, VaultOk
<1>6. \A q \in Runs : RunOk(q)'
  <2> TAKE q \in Runs
  <2> DEFINE b == Attempt(q)
  <2>1. RunOk(q) /\ runs'[q] = runs[q] /\ Attempt(q)' = b /\ (Sealed(q)' <=> Sealed(q))
    BY DEF StagedInv, Attempt, Sealed
  <2>2. b \in Objects
    BY AttemptParts DEF StagedInv
  <2>3. /\ b \notin DOMAIN attempts => b \notin DOMAIN attempts'
        /\ b \in DOMAIN attempts /\ attempts[b].object = "pending" => b \in DOMAIN attempts' /\ attempts'[b].object = "pending"
        /\ b \in DOMAIN attempts' /\ b \in DOMAIN attempts => attempts'[b].object = attempts[b].object
        /\ b \in DOMAIN attempts /\ b \notin DOMAIN attempts' => attempts[b].object \notin {"pending", "stored"}
    BY <2>2 DEF RowStays, Noted
  <2>6. (runs[q].pc \in {"seal", "upload", "confirm"} => Sealed(q)')
    BY <2>1 DEF RunOk
  <2>7. runs[q].pc \in {"upload", "confirm"} => b \in DOMAIN attempts' /\ attempts'[b].object = "pending"
    BY <2>1, <2>3 DEF RunOk
  <2>8. runs[q].pc = "confirm" => b \in vault'
    BY <2>1 DEF RunOk
  <2>9. runs[q].pc = "commit" =>
          IF Sealed(q)' THEN IF b \in DOMAIN attempts' THEN attempts'[b].object = "stored" ELSE b \notin vault'
          ELSE b \notin vault'
    BY <2>1, <2>3 DEF RunOk
  <2> QED BY <2>1, <2>6, <2>7, <2>8, <2>9 DEF RunOk
<1> QED BY <1>1, <1>2, <1>3, <1>4, <1>5, <1>6 DEF Steady, StagedInv

LEMMA LapseIsSteady ==
  ASSUME StagedInv, NEW o \in DOMAIN attempts, Lapse(o)
  PROVE  Steady
<1> DEFINE yes == TRUE
           row == [attempts[o] EXCEPT !.lapsed = yes]
<1>1. row \in Rows /\ row.object = attempts[o].object /\ row.status = attempts[o].status
  <2>1. attempts[o] \in Rows /\ yes \in BOOLEAN
    BY DEF StagedInv, RowsOk
  <2> HIDE DEF yes
  <2> QED BY <2>1 DEF Rows
<1>2. attempts' = [attempts EXCEPT ![o] = row]
  BY DEF Lapse, StagedInv, RowsOk
<1> HIDE DEF row
<1>3. DOMAIN attempts' = DOMAIN attempts /\ attempts'[o] = row /\ \A a \in DOMAIN attempts : a # o => attempts'[a] = attempts[a]
  BY <1>2 DEF StagedInv, RowsOk
<1>4. RowsOk'
  BY <1>1, <1>2, <1>3 DEF StagedInv, RowsOk
<1>5. \A a \in Objects : RowStays(a)
  BY <1>1, <1>3 DEF RowStays, Noted
<1>6. UNCHANGED <<vault, runs>>
  BY DEF Lapse
<1> QED BY <1>4, <1>5, <1>6, RestingIsSteady

LEMMA AbandonLapsedIsSteady ==
  ASSUME StagedInv, AbandonLapsed
  PROVE  Steady
<1>1. PICK lost : attempts' = Abandon(attempts, lost)
  BY DEF AbandonLapsed
<1>2. UNCHANGED <<vault, runs>>
  BY DEF AbandonLapsed
<1> QED BY <1>1, <1>2, AbandonStays, RestingIsSteady

\* Objects that are out are removed while no run moves.
LEMMA RemovalIsCalm ==
  ASSUME StagedInv, UNCHANGED <<attempts, runs>>, vault' \subseteq vault, \A a \in vault \ vault' : Out(a)
  PROVE  StagedInv' /\ OutStay /\ NotedStay
<1>1. RunsOk' /\ RowsOk' /\ StoredOk' /\ VaultOk'
  BY DEF StagedInv, RunsOk, IsRun, RowsOk, StoredOk, VaultOk, Used, Older, Attempt, Out
<1>2. OutStay /\ NotedStay
  BY DEF OutStay, NotedStay, Noted, Out, Older, Attempt
<1>3. \A q \in Runs : RunOk(q)'
  <2> TAKE q \in Runs
  <2>1. RunOk(q) /\ (runs[q].pc = "confirm" => Attempt(q) \in vault')
    BY AttemptParts DEF StagedInv, RunOk, Out, Open
  <2> QED BY <2>1 DEF RunOk, Sealed, Attempt
<1> QED BY <1>1, <1>2, <1>3 DEF StagedInv

LEMMA ReclaimIsSteady ==
  ASSUME StagedInv, NEW o \in DOMAIN attempts, Reclaim(o)
  PROVE  Steady
<1>1. attempts[o].status = "abandoned" /\ attempts[o].object = "stored" /\ vault' = vault \ {o} /\ UNCHANGED runs
  BY DEF Reclaim, Reclaimable, Row
<1>2. /\ attempts' = [a \in DOMAIN attempts' |-> attempts'[a]] /\ DOMAIN attempts' = DOMAIN attempts \ {o}
      /\ \A a \in DOMAIN attempts : a # o => attempts'[a] = attempts[a]
  BY DEF Reclaim, Drop
<1>3. RunsOk' /\ RowsOk' /\ StoredOk' /\ VaultOk'
  BY <1>1, <1>2 DEF StagedInv, RunsOk, IsRun, RowsOk, StoredOk, VaultOk, Used, Older, Attempt
<1>4. OutStay
  BY <1>1, <1>2 DEF OutStay, Out, Older, Attempt
<1>5. OutStayStored
  BY <1>1 DEF OutStayStored, Out
<1>6. NotedStay
  BY <1>1, <1>2 DEF NotedStay, Noted
<1>7. \A q \in Runs : RunOk(q)'
  <2> TAKE q \in Runs
  <2> DEFINE b == Attempt(q)
  <2>1. RunOk(q) /\ runs'[q] = runs[q] /\ Attempt(q)' = b /\ (Sealed(q)' <=> Sealed(q))
    BY <1>1 DEF StagedInv, Attempt, Sealed
  <2>2. CASE b # o
    <3>1. b \in vault' <=> b \in vault
      BY <1>1, <2>2
    <3>2. b \in DOMAIN attempts' <=> b \in DOMAIN attempts
      BY <1>2, <2>2
    <3>3. b \in DOMAIN attempts => attempts'[b] = attempts[b]
      BY <1>2, <2>2
    <3> QED BY <2>1, <3>1, <3>2, <3>3 DEF RunOk
  <2>3. CASE b = o
    <3>1. b \notin vault' /\ b \notin DOMAIN attempts' /\ runs[q].pc \notin {"upload", "confirm"}
      BY <1>1, <1>2, <2>1, <2>3 DEF RunOk
    <3> QED BY <2>1, <3>1 DEF RunOk
  <2> QED BY <2>2, <2>3
<1> QED BY <1>3, <1>4, <1>5, <1>6, <1>7 DEF Steady, StagedInv

\* What a commit publishes is out and stored; what it discards is noted.
LEMMA PublishIs ==
  ASSUME StagedInv, NEW r \in Runs, NEW discarded \in BOOLEAN, runs[r].pc = "commit", Held(r), Publish(r, discarded),
         NEW o, o = Attempt(r)
  PROVE  /\ StagedInv' /\ OutStay /\ OutStayStored /\ vault' = vault
         /\ \A a \in vault : a # o /\ Noted(a) => Noted(a)'
         /\ o \in Objects
         /\ ~Sealed(r) => o \notin vault
         /\ discarded /\ o \in vault => Noted(o)'
         /\ ~discarded /\ Sealed(r) => o \in vault /\ Out(o)' /\ Attempt(r)' = o
         /\ \E x : Moves(r, x) /\ Same(r, x) /\ x.pc \in {"done", "undo"} /\ x.base = runs[r].base /\ x.again = runs[r].again
<1>1. RunsOk /\ RowsOk /\ RunOk(r)
  BY DEF StagedInv
<1>2. PICK x : Moves(r, x) /\ Same(r, x) /\ x.pc \in {"done", "undo"} /\ x.base = runs[r].base /\ x.again = runs[r].again
  <2>1. CASE Go(r, "done")
    BY <1>1, <2>1, GoMoves
  <2>2. CASE Go(r, "undo")
    BY <1>1, <2>2, GoMoves
  <2> QED BY <2>1, <2>2 DEF Publish
<1>3. Forward(r, x) /\ Attempt(r)' = o /\ runs'[r] = x
  BY <1>1, <1>2, MovedObjects DEF Forward, Same, RunsOk, IsRun
<1>4. o \in Objects /\ o[1] = r /\ ~Older(o)
  BY <1>1, AttemptParts
<1>5. o \in DOMAIN attempts /\ attempts[o].status = "active" /\ ~Out(o)
  BY HeldRow DEF Out
<1>6. /\ Sealed(r) => attempts[o].object = "stored" /\ o \in vault
      /\ ~Sealed(r) => o \notin vault
  BY <1>1, <1>5 DEF RunOk, StagedInv, StoredOk
<1>7. /\ attempts' = IF discarded THEN Abandon(attempts, {o}) ELSE IF attempts[o].object = "pending" THEN attempts ELSE Drop(o)
      /\ vault' = vault
  BY <1>5 DEF Publish, Row
<1>8. /\ RowsOk' /\ \A a \in Objects : a # o => RowStays(a)
      /\ o \in DOMAIN attempts' => attempts'[o].object = attempts[o].object
      /\ discarded => RowStays(o)
      /\ ~discarded /\ attempts[o].object = "stored" => o \notin DOMAIN attempts'
  <2>1. CASE discarded
    BY <1>4, <1>7, <2>1, AbandonStays DEF RowStays
  <2>2. CASE ~discarded /\ attempts[o].object = "pending"
    BY <1>1, <1>7, <2>2 DEF RowsOk, RowStays, Noted
  <2>3. CASE ~discarded /\ attempts[o].object # "pending"
    <3>1. attempts' = Drop(o)
      BY <1>7, <2>3
    <3>2. /\ attempts' = [a \in DOMAIN attempts' |-> attempts'[a]] /\ DOMAIN attempts' = DOMAIN attempts \ {o}
          /\ \A a \in DOMAIN attempts : a # o => attempts'[a] = attempts[a]
      BY <3>1 DEF Drop
    <3>3. \A a \in Objects : a # o => RowStays(a)
      BY <3>2 DEF RowStays, Noted
    <3>4. RowsOk'
      BY <1>1, <3>2 DEF RowsOk
    <3> QED BY <2>3, <3>2, <3>3, <3>4
  <2> QED BY <2>1, <2>2, <2>3
<1>9. RunOk(r)'
  BY <1>2, <1>3 DEF RunOk
<1>10. Used(o)'
  BY <1>2, <1>3, <1>4 DEF Used, Early
<1>11. o \in DOMAIN attempts' /\ attempts'[o].status = "active" /\ attempts'[o].object = "stored" => o \in vault
  BY <1>5, <1>8 DEF StagedInv, StoredOk
<1>12. StagedInv' /\ OutStay /\ OutStayStored /\ \A a \in vault : a # o /\ Noted(a) => Noted(a)'
  BY <1>2, <1>3, <1>5, <1>7, <1>8, <1>9, <1>10, <1>11, RowsAreCalm
<1>13. discarded /\ o \in vault => Noted(o)'
  BY <1>4, <1>5, <1>6, <1>8 DEF RowStays, Noted
<1>14. ~discarded /\ Sealed(r) => o \in vault /\ Out(o)'
  BY <1>2, <1>3, <1>4, <1>6, <1>8 DEF Out, Open, Early
<1> QED BY <1>2, <1>3, <1>4, <1>6, <1>7, <1>12, <1>13, <1>14

\* Where a step of staged storage leaves its run.
LEMMA StagedStepMoves ==
  ASSUME StagedInv, NEW r \in Runs, StagedStep(r)
  PROVE  /\ Steady
         /\ \E x : /\ Moves(r, x) /\ x.turn = runs[r].turn /\ x.key = runs[r].key /\ x.does = runs[r].does
                   /\ x.base = runs[r].base
                   /\ \/ x.try = runs[r].try /\ x.again = runs[r].again
                      \/ x.pc = "reserve" /\ x.try = runs[r].try + 1 /\ runs[r].again
                   /\ \/ runs[r].pc = "reserve" /\ x.pc = "done" /\ runs[r].key \in done
                      \/ runs[r].pc = "reserve" /\ x.pc \in {"failed", "prepare"}
                      \/ runs[r].pc = "seal" /\ x.pc = "upload"
                      \/ runs[r].pc = "upload" /\ x.pc \in {"confirm", "undo"}
                      \/ runs[r].pc = "confirm" /\ x.pc = "commit"
                      \/ runs[r].pc \in {"prepare", "seal", "commit"} /\ x.pc = "undo"
                      \/ runs[r].pc = "undo" /\ (x.pc = "failed" \/ (x.pc = "reserve" /\ runs[r].again))
         /\ vault \subseteq vault' /\ done' = done
<1>1. RunsOk
  BY DEF StagedInv
<1> DEFINE Went(pc) == \E x : /\ Moves(r, x) /\ Same(r, x) /\ x.pc = pc /\ x.base = runs[r].base /\ x.again = runs[r].again
<1>2. \A pc : Go(r, pc) => Went(pc)
  BY <1>1, GoMoves
<1>3. ASSUME NEW pc, Go(r, pc), pc \notin Open, UNCHANGED <<vault, attempts>>
      PROVE  Steady
  <2>1. PICK x : Moves(r, x) /\ Same(r, x) /\ x.pc = pc
    BY <1>2, <1>3
  <2>2. MayMove(r, x)
    BY <1>3, <2>1 DEF MayMove, Same
  <2> QED BY <1>3, <2>1, <2>2, MoveIsSteady
<1>4. CASE Replay(r)
  <2>1. Go(r, "done") /\ runs[r].pc = "reserve" /\ runs[r].key \in done /\ UNCHANGED <<vault, attempts, done>>
    BY <1>4 DEF Replay, At
  <2>2. Steady
    BY <1>3, <2>1 DEF Open, Early
  <2> QED BY <1>2, <2>1, <2>2 DEF Same
<1>5. CASE InProgress(r)
  <2>1. Go(r, "failed") /\ runs[r].pc = "reserve" /\ UNCHANGED <<vault, attempts, done>>
    BY <1>5 DEF InProgress, At
  <2>2. Steady
    BY <1>3, <2>1 DEF Open, Early
  <2> QED BY <1>2, <2>1, <2>2 DEF Same
<1>6. CASE Fenced(r)
  <2>1. Go(r, "undo") /\ runs[r].pc \in {"prepare", "seal", "commit"} /\ UNCHANGED <<vault, attempts, done>>
    BY <1>6 DEF Fenced
  <2>2. Steady
    BY <1>3, <2>1 DEF Open, Early
  <2> QED BY <1>2, <2>1, <2>2 DEF Same
<1>7. CASE Reserve(r)
  <2>1. Go(r, "prepare") /\ runs[r].pc = "reserve" /\ UNCHANGED <<vault, done>>
    BY <1>7 DEF Reserve, At
  <2> QED BY <1>2, <1>7, <2>1, ReserveIsSteady DEF Same
<1>8. CASE WriteDown(r)
  <2>1. Go(r, "upload") /\ runs[r].pc = "seal" /\ UNCHANGED <<vault, done>>
    BY <1>8 DEF WriteDown, At
  <2> QED BY <1>2, <1>8, <2>1, WriteDownIsSteady DEF Same
<1>9. CASE Upload(r) \/ UploadFails(r)
  <2>1. (Go(r, "confirm") \/ Go(r, "undo")) /\ runs[r].pc = "upload" /\ vault \subseteq vault' /\ done' = done
    BY <1>9 DEF Upload, UploadFails, At
  <2> QED BY <1>2, <1>9, <2>1, UploadIsSteady DEF Same
<1>10. CASE Confirm(r)
  <2>1. Go(r, "commit") /\ runs[r].pc = "confirm" /\ UNCHANGED <<vault, done>>
    BY <1>10 DEF Confirm, At
  <2> QED BY <1>2, <1>10, <2>1, ConfirmIsSteady DEF Same
<1>11. CASE Undo(r)
  <2>1. runs[r].pc = "undo" /\ UNCHANGED <<vault, done>>
    BY <1>11 DEF Undo, At
  <2>2. PICK x : /\ Moves(r, x) /\ x.turn = runs[r].turn /\ x.key = runs[r].key /\ x.does = runs[r].does /\ x.base = runs[r].base
                 /\ \/ x.pc = "reserve" /\ x.try = runs[r].try + 1 /\ runs[r].again
                    \/ x.pc = "failed" /\ x.try = runs[r].try /\ x.again = runs[r].again
    BY <1>1, <1>11, UndoMoves
  <2> QED BY <1>11, <2>1, <2>2, UndoIsSteady
<1> QED BY <1>4, <1>5, <1>6, <1>7, <1>8, <1>9, <1>10, <1>11 DEF StagedStep

(***************************************************************************)
(* The capture.                                                            *)
(***************************************************************************)
CaptureShape ==
  /\ capture = [status |-> capture.status, parts |-> capture.parts, root |-> capture.root, expired |-> capture.expired]
  /\ trace = [view |-> trace.view, root |-> trace.root, raw |-> trace.raw, old |-> trace.old, sources |-> trace.sources,
              state |-> trace.state, deleted |-> trace.deleted]
  /\ capture.root \in Nat /\ trace.root = capture.root
  /\ HasTrace <=> capture.root # 0
\* What can be opened, and whether it has to be there.
Shown == Range(capture.parts) \cup trace.sources \cup ({trace.raw} \ {None})
ToKeep == ~trace.deleted /\ (HasTrace \/ capture.status # "EXPIRED")
ShownOk ==
  /\ \A a \in Shown \cup trace.old : Out(a)
  /\ \A a \in trace.old : a \notin Shown
  /\ trace.raw \notin Range(capture.parts) \cup trace.sources
  /\ ToKeep => Shown \subseteq vault
\* What a job is about to remove is shown nowhere.
JobOk(j) ==
  /\ j = [type |-> j.type, arg |-> j.arg, refs |-> j.refs, attempts |-> j.attempts, held |-> j.held]
  /\ j.type = "DeleteTraceObjects" => trace.deleted
  /\ j.type = "DeleteExpiredCapture" => ~HasTrace /\ capture.status = "EXPIRED"
  /\ j.type = "ProjectAgentCapture" => j.arg \in Nat \ {0}
  /\ \A a \in j.refs : a = None \/ (Out(a) /\ a \notin Shown)
TrackedOk == \A a \in CaptureObjects : a \in Named \/ Noted(a)
CommandOk(r) ==
  LET run == runs[r] IN
  /\ run.pc \notin {"idle", "over"} /\ run.does[1] \in {"save", "view"} => run.does[2] \in Nat \ {0}
  /\ run.pc \in {"seal", "upload", "confirm", "commit"} /\ run.does[1] = "part" => run.base \in {<<"duplicate">>, <<"new">>}
  /\ run.pc \in {"remove", "forget"} => run.does[1] = "old"
  /\ run.pc = "forget" => \A a \in run.does[2].refs : (a = None \/ Out(a)) /\ a \notin vault
CaptureInv ==
  /\ StagedInv /\ CaptureShape /\ ShownOk /\ TrackedOk /\ ViewsShowTheirRoot
  /\ \A j \in jobs : JobOk(j)
  /\ \A r \in Runs : CommandOk(r)

LEMMA NoneIsNoObject == None \notin Objects
  BY DEF None, Objects

\* Commands of runs that do not move.
LEMMA CommandStays ==
  ASSUME CaptureInv, StagedInv', OutStay, NotedStay, NEW q \in Runs, runs'[q] = runs[q]
  PROVE  CommandOk(q)'
<1>1. CommandOk(q)
  BY DEF CaptureInv
<1>2. ASSUME runs[q].pc = "forget", NEW a \in runs[q].does[2].refs
      PROVE  (a = None \/ Out(a)') /\ a \notin vault'
  <2>1. (a = None \/ Out(a)) /\ a \notin vault
    BY <1>1, <1>2 DEF CommandOk
  <2>2. CASE a = None
    BY <2>2, NoneIsNoObject DEF StagedInv, VaultOk
  <2>3. CASE Out(a)
    <3>1. Out(a)'
      BY <2>3 DEF OutStay, Out
    <3>2. ~Noted(a)'
      BY <3>1 DEF Out, Noted
    <3> QED BY <2>1, <3>1, <3>2 DEF NotedStay
  <2> QED BY <2>1, <2>2, <2>3
<1> QED BY <1>1, <1>2 DEF CommandOk

\* What a run may be doing, but for the removal of replaced views.
Fits(x) ==
  /\ x.pc \notin {"idle", "over"} /\ x.does[1] \in {"save", "view"} => x.does[2] \in Nat \ {0}
  /\ x.pc \in {"seal", "upload", "confirm", "commit"} /\ x.does[1] = "part" => x.base \in {<<"duplicate">>, <<"new">>}
  /\ x.pc \notin {"remove", "forget"}

LEMMA CommandsStay ==
  ASSUME CaptureInv, StagedInv', OutStay, NotedStay, NEW r \in Runs, NEW x, Moves(r, x), Fits(x)
  PROVE  \A q \in Runs : CommandOk(q)'
<1>1. runs'[r] = x /\ \A q \in Runs : q # r => runs'[q] = runs[q]
  BY Moved DEF CaptureInv, StagedInv
<1> TAKE q \in Runs
<1>2. CASE q = r
  BY <1>1, <1>2 DEF CommandOk, Fits
<1>3. CASE q # r
  BY <1>1, <1>3, CommandStays
<1> QED BY <1>2, <1>3

\* Steps of the storage leave the capture as it is.
LEMMA CaptureFrame ==
  ASSUME CaptureInv, Steady, OnlyStaged, \A q \in Runs : CommandOk(q)'
  PROVE  CaptureInv'
<1> USE DEF OnlyStaged
<1>1. CaptureShape' /\ ViewsShowTheirRoot'
  BY DEF CaptureInv, CaptureShape, ViewsShowTheirRoot, HasTrace
<1>2. Shown' = Shown /\ (ToKeep' <=> ToKeep) /\ Named' = Named /\ (HasTrace' <=> HasTrace)
  BY DEF Shown, ToKeep, Named, HasTrace
<1>3. \A a : Out(a) => Out(a)'
  BY DEF Steady, OutStay, Out
<1>4. ShownOk'
  BY <1>2, <1>3 DEF CaptureInv, ShownOk, Steady, OutStayStored
<1>5. \A j \in jobs' : JobOk(j)'
  BY <1>2, <1>3 DEF CaptureInv, JobOk
<1>6. TrackedOk'
  BY <1>2 DEF CaptureInv, TrackedOk, CaptureObjects, Steady, NotedStay
<1> QED BY <1>1, <1>4, <1>5, <1>6 DEF CaptureInv, Steady

LEMMA FittingMove ==
  ASSUME CaptureInv, NEW r \in Runs, NEW x, Moves(r, x), MayMove(r, x), Fits(x), UNCHANGED <<vault, attempts>>
  PROVE  Steady /\ \A q \in Runs : CommandOk(q)'
<1>1. Steady
  BY MoveIsSteady DEF CaptureInv
<1> QED BY <1>1, CommandsStay DEF Steady

LEMMA MoveKeepsCapture ==
  ASSUME CaptureInv, OnlyStaged, NEW r \in Runs, NEW x, Moves(r, x), MayMove(r, x), Fits(x), UNCHANGED <<vault, attempts>>
  PROVE  CaptureInv'
BY FittingMove, CaptureFrame

LEMMA StagedStepKeepsCapture ==
  ASSUME CaptureInv, OnlyStaged, NEW r \in Runs, StagedStep(r)
  PROVE  CaptureInv'
<1>1. Steady
  BY StagedStepMoves DEF CaptureInv
<1>2. PICK x : /\ Moves(r, x) /\ x.does = runs[r].does /\ x.base = runs[r].base
               /\ \/ runs[r].pc = "reserve" /\ x.pc = "done"
                  \/ runs[r].pc = "reserve" /\ x.pc \in {"failed", "prepare"}
                  \/ runs[r].pc = "seal" /\ x.pc = "upload"
                  \/ runs[r].pc = "upload" /\ x.pc \in {"confirm", "undo"}
                  \/ runs[r].pc = "confirm" /\ x.pc = "commit"
                  \/ runs[r].pc \in {"prepare", "seal", "commit"} /\ x.pc = "undo"
                  \/ runs[r].pc = "undo" /\ x.pc \in {"reserve", "failed"}
  BY StagedStepMoves DEF CaptureInv
<1>3. Fits(x)
  BY <1>2 DEF CaptureInv, CommandOk, Fits
<1> QED BY <1>1, <1>2, <1>3, CommandsStay, CaptureFrame DEF Steady

\* Upkeep: leases end, and cleanup.
LEMMA UpkeepIsSteady ==
  ASSUME StagedInv, Cleanup \/ \E a \in DOMAIN attempts : Lapse(a)
  PROVE  Steady /\ UNCHANGED <<claims, done, runs>>
<1>1. CASE \E a \in DOMAIN attempts : Lapse(a)
  BY <1>1, LapseIsSteady DEF Lapse
<1>2. CASE AbandonLapsed
  BY <1>2, AbandonLapsedIsSteady DEF AbandonLapsed
<1>3. CASE \E a \in DOMAIN attempts : Reclaim(a)
  BY <1>3, ReclaimIsSteady DEF Reclaim
<1> QED BY <1>1, <1>2, <1>3 DEF Cleanup

LEMMA MaintenanceKeepsCapture ==
  ASSUME CaptureInv, Maintenance
  PROVE  CaptureInv'
<1>1. Steady /\ UNCHANGED runs
  BY UpkeepIsSteady DEF CaptureInv, Maintenance
<1>2. \A q \in Runs : CommandOk(q)'
  BY <1>1, CommandStays DEF Steady
<1> QED BY <1>1, <1>2, CaptureFrame DEF Maintenance

LEMMA RunSets == Clients \subseteq Runs /\ WORKER \in Runs
  BY AgentCaptureAssumption

\* A run that only goes somewhere, with what it does and read.
LEMMA GoFits ==
  ASSUME CaptureInv, UNCHANGED <<vault, attempts>>, NEW r \in Runs, NEW pc, Go(r, pc),
         pc \notin Open \cup {"remove", "forget"}, runs[r].pc \notin {"idle", "over"}
  PROVE  Steady /\ \A q \in Runs : CommandOk(q)'
<1>1. PICK x : Moves(r, x) /\ Same(r, x) /\ x.pc = pc
  BY GoMoves DEF CaptureInv, StagedInv
<1>2. MayMove(r, x)
  BY <1>1 DEF MayMove, Same
<1>3. Fits(x)
  BY <1>1 DEF CaptureInv, CommandOk, Fits, Same, Open, Early
<1> QED BY <1>1, <1>2, <1>3, FittingMove

LEMMA GoKeepsCapture ==
  ASSUME CaptureInv, OnlyStaged, UNCHANGED <<vault, attempts>>, NEW r \in Runs, NEW pc, Go(r, pc),
         pc \notin Open \cup {"remove", "forget"}, runs[r].pc \notin {"idle", "over"}
  PROVE  CaptureInv'
BY GoFits, CaptureFrame

LEMMA BeginFits ==
  ASSUME CaptureInv, UNCHANGED <<vault, attempts>>, NEW r \in Runs,
         NEW pc \in {"look", "reserve"}, NEW does, NEW key, runs' = [runs EXCEPT ![r] = Begun(r, pc, does, key)],
         does[1] \in {"save", "view"} => does[2] \in Nat \ {0}
  PROVE  Steady /\ \A q \in Runs : CommandOk(q)'
<1> DEFINE x == Begun(r, pc, does, key)
<1>1. IsRun(x) /\ x.pc = pc /\ x.does = does /\ x.turn = runs[r].turn + 1
  BY BegunIs DEF CaptureInv, StagedInv
<1>2. runs' = [runs EXCEPT ![r] = x] /\ runs[r].turn \in Nat
  BY DEF CaptureInv, StagedInv, RunsOk, IsRun
<1> HIDE DEF x
<1>3. x.turn > runs[r].turn /\ x.pc \notin {"seal", "upload", "confirm", "commit"}
  BY <1>1, <1>2
<1>4. Moves(r, x) /\ MayMove(r, x)
  BY <1>1, <1>2, <1>3 DEF Moves, MayMove
<1>5. Fits(x)
  BY <1>1 DEF Fits
<1> QED BY <1>4, <1>5, FittingMove

LEMMA BeginKeepsCapture ==
  ASSUME CaptureInv, OnlyStaged, UNCHANGED <<vault, attempts>>, NEW r \in Runs,
         NEW pc \in {"look", "reserve"}, NEW does, NEW key, runs' = [runs EXCEPT ![r] = Begun(r, pc, does, key)],
         does[1] \in {"save", "view"} => does[2] \in Nat \ {0}
  PROVE  CaptureInv'
BY BeginFits, CaptureFrame

\* What a command read, and the step to what it seals or to the commit.
LEMMA BaseKeepsCapture ==
  ASSUME CaptureInv, OnlyStaged, UNCHANGED <<vault, attempts>>, NEW r \in Runs, NEW base, NEW pc, Base(r, base, pc),
         runs[r].pc = "prepare", (pc = "seal" /\ base[1] \in {"new", "of"}) \/ (pc = "commit" /\ base[1] \notin {"new", "of"}),
         runs[r].does[1] = "part" => base \in {<<"duplicate">>, <<"new">>}
  PROVE  CaptureInv'
<1>1. PICK x : Moves(r, x) /\ Same(r, x) /\ x.pc = pc /\ x.base = base
  BY BaseMoves DEF CaptureInv, StagedInv
<1>2. MayMove(r, x)
  BY <1>1 DEF MayMove, Same
<1>3. Fits(x)
  BY <1>1 DEF CaptureInv, CommandOk, Fits, Same
<1> QED BY <1>1, <1>2, <1>3, MoveKeepsCapture

LEMMA ChangedKeepsCapture ==
  ASSUME CaptureInv, OnlyStaged, NEW r \in Runs, Changed(r), runs[r].pc = "commit"
  PROVE  CaptureInv'
<1>1. PICK x : Moves(r, x) /\ Same(r, x) /\ x.pc = "undo"
  BY ChangedMoves DEF CaptureInv, StagedInv
<1>2. MayMove(r, x)
  BY <1>1 DEF MayMove, Same, Open, Early
<1>3. Fits(x) /\ UNCHANGED <<vault, attempts>>
  BY <1>1 DEF CaptureInv, CommandOk, Fits, Same, Changed
<1> QED BY <1>1, <1>2, <1>3, MoveKeepsCapture

LEMMA StartKeepsCapture ==
  ASSUME CaptureInv, NEW r \in Clients, Start(r)
  PROVE  CaptureInv'
<1>1. Requests[r].does[1] \in {"save", "view"} => Requests[r].does[2] \in Nat \ {0}
  BY AgentCaptureAssumption
<1>2. /\ OnlyStaged /\ UNCHANGED <<vault, attempts>>
      /\ runs' = [runs EXCEPT ![r] = Begun(r, "reserve", Requests[r].does, Requests[r].key)]
  BY DEF Start
<1> QED BY <1>1, <1>2, BeginKeepsCapture, RunSets

LEMMA PreparePartKeepsCapture ==
  ASSUME CaptureInv, NEW r \in Runs, PreparePart(r)
  PROVE  CaptureInv'
<1>1. OnlyStaged /\ UNCHANGED <<vault, attempts>> /\ runs[r].pc = "prepare"
  BY DEF PreparePart, At
<1>2. CASE Base(r, <<"duplicate">>, "commit")
  BY <1>1, <1>2, BaseKeepsCapture
<1>3. CASE Base(r, <<"new">>, "seal")
  BY <1>1, <1>3, BaseKeepsCapture
<1>4. CASE Go(r, "undo")
  BY <1>1, <1>4, GoKeepsCapture DEF Open, Early
<1> QED BY <1>2, <1>3, <1>4 DEF PreparePart

LEMMA PrepareSaveKeepsCapture ==
  ASSUME CaptureInv, NEW r \in Runs, PrepareSave(r)
  PROVE  CaptureInv'
<1>1. OnlyStaged /\ UNCHANGED <<vault, attempts>> /\ runs[r].pc = "prepare" /\ runs[r].does[1] = "save"
  BY DEF PrepareSave, At, Kind
<1>2. CASE Base(r, <<"duplicate">>, "commit")
  BY <1>1, <1>2, BaseKeepsCapture
<1>3. CASE Base(r, <<"of", capture.root>>, "seal")
  <2> DEFINE base == <<"of", capture.root>>
  <2>1. base[1] = "of"
    OBVIOUS
  <2> HIDE DEF base
  <2>2. Base(r, base, "seal")
    BY <1>3 DEF base
  <2> QED BY <1>1, <2>1, <2>2, BaseKeepsCapture
<1>4. CASE Go(r, "undo")
  BY <1>1, <1>4, GoKeepsCapture DEF Open, Early
<1> QED BY <1>2, <1>3, <1>4 DEF PrepareSave

LEMMA PrepareViewKeepsCapture ==
  ASSUME CaptureInv, NEW r \in Runs, PrepareView(r)
  PROVE  CaptureInv'
<1>1. OnlyStaged /\ UNCHANGED <<vault, attempts>> /\ runs[r].pc = "prepare" /\ runs[r].does[1] = "view"
  BY DEF PrepareView, At, Kind
<1>2. CASE Base(r, <<"nothing">>, "commit")
  BY <1>1, <1>2, BaseKeepsCapture
<1>3. CASE Base(r, <<"of", trace, capture.status>>, "seal")
  <2> DEFINE base == <<"of", trace, capture.status>>
  <2>1. base[1] = "of"
    OBVIOUS
  <2> HIDE DEF base
  <2>2. Base(r, base, "seal")
    BY <1>3 DEF base
  <2> QED BY <1>1, <2>1, <2>2, BaseKeepsCapture
<1>4. CASE Go(r, "undo")
  BY <1>1, <1>4, GoKeepsCapture DEF Open, Early
<1> QED BY <1>2, <1>3, <1>4 DEF PrepareView

LEMMA LookKeepsCapture ==
  ASSUME CaptureInv, NEW r \in Runs, Look(r)
  PROVE  CaptureInv'
<1>1. OnlyStaged /\ UNCHANGED <<vault, attempts>> /\ runs[r].pc = "look"
  BY DEF Look, At
<1>2. CASE Go(r, "done")
  BY <1>1, <1>2, GoKeepsCapture DEF Open, Early
<1>3. CASE Buildable(Arg(r))
  <2> DEFINE key == <<"view", Arg(r), trace>>
             y == [runs[r] EXCEPT !.pc = "reserve"]
             x == [y EXCEPT !.key = key]
  <2>1. IsRun(runs[r])
    BY DEF CaptureInv, StagedInv, RunsOk
  <2>2. IsRun(y) /\ y.pc = "reserve" /\ y.turn = runs[r].turn /\ y.try = runs[r].try /\ y.does = runs[r].does
    BY <2>1 DEF IsRun
  <2>3. IsRun(x) /\ x.pc = "reserve" /\ x.turn = runs[r].turn /\ x.try = runs[r].try /\ x.does = runs[r].does
    <3> HIDE DEF y, key
    <3> QED BY <2>2 DEF IsRun
  <2>4. runs' = [runs EXCEPT ![r] = x]
    BY <1>3 DEF Look, CaptureInv, StagedInv, RunsOk
  <2> HIDE DEF x
  <2>5. Moves(r, x) /\ MayMove(r, x) /\ Fits(x)
    BY <1>1, <2>3, <2>4 DEF Moves, MayMove, CaptureInv, CommandOk, Fits
  <2> QED BY <1>1, <2>5, MoveKeepsCapture
<1> QED BY <1>2, <1>3 DEF Look

LEMMA ViewAfterSaveKeepsCapture ==
  ASSUME CaptureInv, NEW r \in Runs, ViewAfterSave(r)
  PROVE  CaptureInv'
<1> DEFINE does == <<"view", Arg(r)>>
<1>1. does[2] \in Nat \ {0}
  BY DEF ViewAfterSave, At, Kind, Arg, CaptureInv, CommandOk
<1>2. OnlyStaged /\ UNCHANGED <<vault, attempts>> /\ runs' = [runs EXCEPT ![r] = Begun(r, "look", does, NoKey)]
  BY DEF ViewAfterSave
<1> HIDE DEF does
<1> QED BY <1>1, <1>2, BeginKeepsCapture

LEMMA OverKeepsCapture ==
  ASSUME CaptureInv, NEW r \in Clients, Over(r)
  PROVE  CaptureInv'
<1>1. OnlyStaged /\ UNCHANGED <<vault, attempts>> /\ Go(r, "over") /\ runs[r].pc \notin {"idle", "over"}
  BY DEF Over, At
<1> QED BY <1>1, GoKeepsCapture, RunSets DEF Open, Early

LEMMA CrashKeepsCapture ==
  ASSUME CaptureInv, NEW r \in Runs, Crash(r)
  PROVE  CaptureInv'
<1>1. OnlyStaged /\ UNCHANGED <<vault, attempts>> /\ runs[r].pc \notin {"idle", "over"} /\ (Go(r, "idle") \/ Go(r, "over"))
  BY DEF Crash
<1> QED BY <1>1, GoKeepsCapture DEF Open, Early

\* Steps that leave the objects of the capture and of its trace as they are.
SameObjects ==
  /\ capture'.parts = capture.parts /\ trace'.sources = trace.sources /\ trace'.old = trace.old /\ trace'.raw = trace.raw
  /\ trace.deleted => trace'.deleted
  /\ ~HasTrace /\ capture.status = "EXPIRED" => ~HasTrace' /\ capture'.status = "EXPIRED"
  /\ ToKeep' => ToKeep

LEMMA SameObjectsFrame ==
  ASSUME CaptureInv, Steady, SameObjects, CaptureShape', ViewsShowTheirRoot',
         \A j \in jobs' : j \in jobs \/ JobOk(j) \/ JobOk(j)', \A q \in Runs : CommandOk(q)'
  PROVE  CaptureInv'
<1>2. Shown' = Shown /\ Named' = Named
  BY DEF SameObjects, Shown, Named
<1>3. \A a : Out(a) => Out(a)'
  BY DEF Steady, OutStay, Out
<1>4. ShownOk'
  BY <1>2, <1>3 DEF CaptureInv, ShownOk, Steady, OutStayStored, SameObjects
<1>5. \A j \in jobs' : JobOk(j)'
  BY <1>2, <1>3 DEF CaptureInv, JobOk, SameObjects
<1>6. TrackedOk'
  BY <1>2 DEF CaptureInv, TrackedOk, CaptureObjects, Steady, NotedStay
<1> QED BY <1>4, <1>5, <1>6 DEF CaptureInv, Steady

\* A commit that publishes no object.
LEMMA PublishNothing ==
  ASSUME CaptureInv, NEW r \in Runs, NEW discarded \in BOOLEAN, runs[r].pc = "commit", Held(r), Publish(r, discarded),
         discarded \/ ~Sealed(r)
  PROVE  Steady /\ \A q \in Runs : CommandOk(q)'
<1> DEFINE o == Attempt(r)
<1>1. /\ StagedInv' /\ OutStay /\ OutStayStored /\ vault' = vault
      /\ \A a \in vault : a # o /\ Noted(a) => Noted(a)'
      /\ ~Sealed(r) => o \notin vault
      /\ \E x : Moves(r, x) /\ Same(r, x) /\ x.pc \in {"done", "undo"} /\ x.base = runs[r].base /\ x.again = runs[r].again
  BY PublishIs DEF CaptureInv
<1>2. \A a \in Objects : a = o /\ discarded /\ a \in vault => Noted(a)'
  BY PublishIs DEF CaptureInv
<1>3. \A a \in vault : Noted(a) => Noted(a)'
  BY <1>1, <1>2 DEF CaptureInv, StagedInv, VaultOk
<1>4. Steady
  BY <1>1, <1>3 DEF Steady, NotedStay
<1>5. PICK x : Moves(r, x) /\ Same(r, x) /\ x.pc \in {"done", "undo"}
  BY <1>1
<1>6. Fits(x)
  BY <1>5 DEF CaptureInv, CommandOk, Fits, Same
<1> QED BY <1>4, <1>5, <1>6, CommandsStay DEF Steady

\* A new object is published: it is stored, out, and was named nowhere.
LEMMA PublishObject ==
  ASSUME CaptureInv, NEW r \in Runs, runs[r].pc = "commit", Held(r), Publish(r, FALSE), Sealed(r)
  PROVE  \E o : /\ o = Attempt(r) /\ o \in Objects /\ o \in vault /\ Out(o)' /\ ~Out(o)
                /\ StagedInv' /\ OutStay /\ OutStayStored /\ vault' = vault
                /\ \A a \in vault : a # o /\ Noted(a) => Noted(a)'
                /\ \A q \in Runs : CommandOk(q)'
<1>0. PICK o : o = Attempt(r)
  OBVIOUS
<1> DEFINE no == FALSE
<1>1. no \in BOOLEAN /\ Publish(r, no) /\ ~no
  OBVIOUS
<1> HIDE DEF no
<1>2. /\ StagedInv' /\ OutStay /\ OutStayStored /\ vault' = vault
      /\ \A a \in vault : a # o /\ Noted(a) => Noted(a)'
      /\ o \in Objects /\ o \in vault /\ Out(o)'
      /\ \E x : Moves(r, x) /\ Same(r, x) /\ x.pc \in {"done", "undo"} /\ x.base = runs[r].base /\ x.again = runs[r].again
  BY <1>0, <1>1, PublishIs DEF CaptureInv
<1>3. ~Out(o)
  BY <1>0, HeldRow DEF Out
<1>4. PICK x : Moves(r, x) /\ Same(r, x) /\ x.pc \in {"done", "undo"}
  BY <1>2
<1>5. Fits(x)
  BY <1>4 DEF CaptureInv, CommandOk, Fits, Same
<1>7. \A q \in Runs : CommandOk(q)'
  <2>1. runs'[r] = x /\ \A q \in Runs : q # r => runs'[q] = runs[q]
    BY <1>4, Moved DEF CaptureInv, StagedInv
  <2> TAKE q \in Runs
  <2>2. CASE q = r
    BY <1>5, <2>1, <2>2 DEF CommandOk, Fits
  <2>3. CASE q # r
    <3>1. CommandOk(q) /\ runs'[q] = runs[q]
      BY <2>1, <2>3 DEF CaptureInv
    <3>2. ASSUME runs[q].pc = "forget", NEW a \in runs[q].does[2].refs
          PROVE  (a = None \/ Out(a)') /\ a \notin vault'
      BY <1>2, <3>1, <3>2 DEF CommandOk, OutStay, Out
    <3> QED BY <3>1, <3>2 DEF CommandOk
  <2> QED BY <2>2, <2>3
<1> QED BY <1>0, <1>2, <1>3, <1>7

\* The object of a commit becomes one of those that are shown.
LEMMA NewObjectFrame ==
  ASSUME CaptureInv, CaptureShape', ViewsShowTheirRoot', NEW r \in Runs, runs[r].pc = "commit", Held(r), Publish(r, FALSE), Sealed(r),
         Shown' \subseteq Shown \cup {Attempt(r)}, trace'.old \subseteq trace.old \cup Shown, trace'.old \cap Shown' = {},
         trace'.raw \notin Range(capture'.parts) \cup trace'.sources,
         Named \subseteq Named' \cup {None}, Attempt(r) \in Named',
         ToKeep, trace.deleted => trace'.deleted,
         ~HasTrace /\ capture.status = "EXPIRED" => ~HasTrace' /\ capture'.status = "EXPIRED",
         \A j \in jobs' : j \in jobs \/ JobOk(j)'
  PROVE  CaptureInv'
<1>1. PICK o : /\ o = Attempt(r) /\ o \in Objects /\ o \in vault /\ Out(o)' /\ ~Out(o)
               /\ StagedInv' /\ OutStay /\ OutStayStored /\ vault' = vault
               /\ \A a \in vault : a # o /\ Noted(a) => Noted(a)'
               /\ \A q \in Runs : CommandOk(q)'
  BY PublishObject
<1>2. \A a : Out(a) => Out(a)' /\ a # o
  BY <1>1 DEF OutStay, Out
<1>3. Shown' \subseteq Shown \cup {o} /\ \A a \in Shown \cup trace.old : Out(a)
  BY <1>1 DEF CaptureInv, ShownOk
<1>4. ShownOk'
  BY <1>1, <1>2, <1>3 DEF CaptureInv, ShownOk
<1>5. \A j \in jobs' : JobOk(j)'
  BY <1>2, <1>3 DEF CaptureInv, JobOk
<1>6. TrackedOk'
  <2> SUFFICES ASSUME NEW a \in CaptureObjects' PROVE a \in Named' \/ Noted(a)'
    BY DEF TrackedOk
  <2>1. a \in CaptureObjects /\ a # None /\ a \in vault
    BY <1>1, NoneIsNoObject DEF CaptureObjects, CaptureInv, StagedInv, VaultOk
  <2>2. a \in Named \/ Noted(a)
    BY <2>1 DEF CaptureInv, TrackedOk
  <2> QED BY <1>1, <2>1, <2>2
<1> QED BY <1>1, <1>4, <1>5, <1>6 DEF CaptureInv

LEMMA CommitPartKeepsCapture ==
  ASSUME CaptureInv, NEW r \in Runs, CommitPart(r)
  PROVE  CaptureInv'
<1>1. /\ runs[r].pc = "commit" /\ runs[r].does[1] = "part" /\ Held(r) /\ runs[r].base \in {<<"duplicate">>, <<"new">>}
      /\ CaptureShape /\ ShownOk
  BY DEF CommitPart, At, Kind, CaptureInv, CommandOk
<1>2. CASE PartMay /\ Stored(r)
  <2> DEFINE discarded == runs[r].base = <<"new">>
  <2>1. discarded \in BOOLEAN /\ Publish(r, discarded) /\ OnlyStaged
    BY <1>2 DEF CommitPart
  <2>2. discarded \/ ~Sealed(r)
    BY <1>1 DEF Sealed
  <2> HIDE DEF discarded
  <2> QED BY <1>1, <2>1, <2>2, PublishNothing, CaptureFrame
<1>3. CASE Changed(r) /\ OnlyStaged
  BY <1>1, <1>3, ChangedKeepsCapture
<1>4. CASE Refuse(r) /\ OnlyStaged
  <2>1. Go(r, "undo") /\ UNCHANGED <<vault, attempts>>
    BY <1>4 DEF Refuse
  <2> QED BY <1>1, <1>4, <2>1, GoKeepsCapture DEF Open, Early
<1>5. CASE /\ PartMay /\ ~Stored(r) /\ runs[r].base # <<"duplicate">> /\ Publish(r, FALSE) /\ capture.status = "AWAITING_UPLOAD"
           /\ capture' = [capture EXCEPT !.parts = With(@, Arg(r), Attempt(r))]
           /\ UNCHANGED <<trace, jobs, failed, built>>
  <2>1. Sealed(r)
    BY <1>1, <1>5 DEF Sealed
  <2> DEFINE o == Attempt(r)
             parts == With(capture.parts, Arg(r), o)
  <2>2. Range(parts) = Range(capture.parts) \cup {o}
    BY <1>5 DEF Range, With, Stored
  <2>3. capture' = [capture EXCEPT !.parts = parts]
    BY <1>1, <1>5 DEF CaptureShape
  <2> HIDE DEF parts
  <2>4. /\ capture'.parts = parts /\ capture'.root = capture.root /\ capture'.status = capture.status
        /\ CaptureShape' /\ ViewsShowTheirRoot' /\ (HasTrace' <=> HasTrace)
    BY <1>1, <1>5, <2>3 DEF CaptureShape, ViewsShowTheirRoot, HasTrace, CaptureInv
  <2>5. o \notin Shown /\ o \notin trace.old /\ o # None
    BY <1>1, HeldRow, NoneIsNoObject, AttemptParts DEF ShownOk, Out, CaptureInv, StagedInv
  <2>6. Shown' = Shown \cup {o} /\ Named' = Named \cup {o}
    BY <1>5, <2>2, <2>4 DEF Shown, Named
  <2>7. trace'.raw \notin Range(capture'.parts) \cup trace'.sources
    BY <1>1, <1>5, <2>2, <2>4, <2>5 DEF ShownOk, Shown
  <2>8. trace'.old = trace.old /\ trace'.old \cap Shown' = {}
    BY <1>1, <1>5, <2>5, <2>6 DEF ShownOk
  <2>9. ToKeep
    BY <1>5 DEF ToKeep, PartMay
  <2>10. UNCHANGED <<trace, jobs>>
    BY <1>5
  <2> HIDE DEF o
  <2> QED BY <1>1, <1>5, <2>1, <2>4, <2>6, <2>7, <2>8, <2>9, <2>10, NewObjectFrame DEF o
<1> QED BY <1>1, <1>2, <1>3, <1>4, <1>5 DEF CommitPart

LEMMA RefuseKeepsCapture ==
  ASSUME CaptureInv, OnlyStaged, NEW r \in Runs, Refuse(r), runs[r].pc = "commit"
  PROVE  CaptureInv'
<1>1. Go(r, "undo") /\ UNCHANGED <<vault, attempts>>
  BY DEF Refuse
<1> QED BY <1>1, GoKeepsCapture DEF Open, Early

LEMMA CommitDuplicateKeepsCapture ==
  ASSUME CaptureInv, NEW r \in Runs, runs[r].pc = "commit", Held(r), CommitDuplicate(r)
  PROVE  CaptureInv'
<1> DEFINE yes == TRUE
<1>1. yes \in BOOLEAN /\ Publish(r, yes) /\ yes
  BY DEF CommitDuplicate
<1> HIDE DEF yes
<1>2. Steady /\ \A q \in Runs : CommandOk(q)'
  BY <1>1, PublishNothing
<1>3. CASE OnlyStaged
  BY <1>2, <1>3, CaptureFrame
<1>4. CASE /\ capture.status = "AWAITING_UPLOAD" /\ capture' = [capture EXCEPT !.status = "SAVED"]
           /\ trace' = [trace EXCEPT !.state = "COMPLETED"] /\ UNCHANGED <<jobs, failed, built>>
  <2>1. CaptureShape
    BY DEF CaptureInv
  <2>2. /\ capture'.status = "SAVED" /\ capture'.parts = capture.parts /\ capture'.root = capture.root
        /\ capture' = [status |-> capture'.status, parts |-> capture'.parts, root |-> capture'.root, expired |-> capture'.expired]
    BY <1>4, <2>1 DEF CaptureShape
  <2>3. /\ trace' = [view |-> trace'.view, root |-> trace'.root, raw |-> trace'.raw, old |-> trace'.old,
                     sources |-> trace'.sources, state |-> trace'.state, deleted |-> trace'.deleted]
        /\ trace'.view = trace.view /\ trace'.root = trace.root /\ trace'.raw = trace.raw /\ trace'.old = trace.old
        /\ trace'.sources = trace.sources /\ trace'.deleted = trace.deleted
    BY <1>4, <2>1 DEF CaptureShape
  <2>4. CaptureShape' /\ ViewsShowTheirRoot'
    BY <1>4, <2>1, <2>2, <2>3 DEF CaptureShape, HasTrace, ViewsShowTheirRoot, CaptureInv
  <2>5. SameObjects
    BY <1>4, <2>2, <2>3 DEF SameObjects, HasTrace, ToKeep
  <2> QED BY <1>2, <1>4, <2>4, <2>5, SameObjectsFrame
<1> QED BY <1>3, <1>4 DEF CommitDuplicate

LEMMA CommitNewKeepsCapture ==
  ASSUME CaptureInv, NEW r \in Runs, runs[r].pc = "commit", runs[r].does[1] = "save", Held(r), Sealed(r), CommitNew(r),
         capture.status = "AWAITING_UPLOAD", ~trace.deleted
  PROVE  CaptureInv'
<1> DEFINE o == Attempt(r)
           status == IF Final(r) THEN "SAVED" ELSE capture.status
           state == IF Final(r) THEN "COMPLETED" ELSE "RECORDING"
           root == Arg(r)
           sources == trace.sources \cup {o}
<1>1. CaptureShape /\ ShownOk /\ root \in Nat \ {0}
  BY DEF CaptureInv, CommandOk, Arg
<1>2. /\ capture' = [capture EXCEPT !.root = root, !.status = status]
      /\ trace' = [trace EXCEPT !.view = "PENDING", !.root = root, !.sources = sources, !.state = state]
      /\ jobs' = jobs \cup {Job("ProjectAgentCapture", root)} /\ Publish(r, FALSE) /\ UNCHANGED built
  BY <1>1 DEF CommitNew, CaptureShape
<1> HIDE DEF status, state, root, sources
<1>3. /\ capture'.status = status /\ capture'.parts = capture.parts /\ capture'.root = root
      /\ capture' = [status |-> capture'.status, parts |-> capture'.parts, root |-> capture'.root, expired |-> capture'.expired]
  BY <1>1, <1>2 DEF CaptureShape
<1>4. /\ trace' = [view |-> trace'.view, root |-> trace'.root, raw |-> trace'.raw, old |-> trace'.old,
                   sources |-> trace'.sources, state |-> trace'.state, deleted |-> trace'.deleted]
      /\ trace'.view = "PENDING" /\ trace'.root = root /\ trace'.raw = trace.raw /\ trace'.old = trace.old
      /\ trace'.sources = sources /\ trace'.deleted = trace.deleted
  BY <1>1, <1>2 DEF CaptureShape
<1>5. CaptureShape' /\ ViewsShowTheirRoot' /\ HasTrace'
  BY <1>1, <1>3, <1>4 DEF CaptureShape, HasTrace, ViewsShowTheirRoot
<1>6. o \notin Shown /\ o \notin trace.old /\ o # None
  BY <1>1, HeldRow, NoneIsNoObject, AttemptParts DEF ShownOk, Out, CaptureInv, StagedInv
<1>7. Shown' = Shown \cup {o} /\ Named' = Named \cup {o}
  BY <1>3, <1>4 DEF Shown, Named, sources
<1>8. trace'.raw \notin Range(capture'.parts) \cup trace'.sources
  <2>1. trace.raw # o
    BY <1>6 DEF Shown
  <2> QED BY <1>1, <1>3, <1>4, <2>1 DEF ShownOk, sources
<1>9. trace'.old = trace.old /\ trace'.old \cap Shown' = {}
  BY <1>1, <1>4, <1>6, <1>7 DEF ShownOk
<1>10. \A j \in jobs' : j \in jobs \/ JobOk(j)'
  <2> SUFFICES ASSUME NEW j, j = Job("ProjectAgentCapture", root) PROVE JobOk(j)'
    BY <1>2
  <2>1. /\ j = [type |-> j.type, arg |-> j.arg, refs |-> j.refs, attempts |-> j.attempts, held |-> j.held]
        /\ j.type = "ProjectAgentCapture" /\ j.arg = root /\ j.refs = {None}
    BY DEF Job
  <2> QED BY <1>1, <2>1 DEF JobOk
<1>11. ToKeep /\ (~HasTrace /\ capture.status = "EXPIRED" => FALSE)
  BY DEF ToKeep
<1> HIDE DEF o
<1> QED BY <1>2, <1>4, <1>5, <1>7, <1>8, <1>9, <1>10, <1>11, NewObjectFrame DEF o

LEMMA CommitSaveKeepsCapture ==
  ASSUME CaptureInv, NEW r \in Runs, CommitSave(r)
  PROVE  CaptureInv'
<1>1. runs[r].pc = "commit" /\ runs[r].does[1] = "save" /\ Held(r)
  BY DEF CommitSave, At, Kind
<1>2. CASE Refuse(r) /\ OnlyStaged
  BY <1>1, <1>2, RefuseKeepsCapture
<1>3. CASE CommitDuplicate(r)
  BY <1>1, <1>3, CommitDuplicateKeepsCapture
<1>4. CASE Changed(r) /\ OnlyStaged
  BY <1>1, <1>4, ChangedKeepsCapture
<1>5. CASE SaveMay(Arg(r)) /\ ~Duplicate(Arg(r)) /\ runs[r].base = <<"of", capture.root>> /\ ~trace.deleted /\ CommitNew(r)
  <2>1. Sealed(r) /\ capture.status = "AWAITING_UPLOAD"
    BY <1>5 DEF Sealed, SaveMay
  <2> QED BY <1>1, <1>5, <2>1, CommitNewKeepsCapture
<1> QED BY <1>2, <1>3, <1>4, <1>5 DEF CommitSave

LEMMA CommitViewKeepsCapture ==
  ASSUME CaptureInv, NEW r \in Runs, CommitView(r)
  PROVE  CaptureInv'
<1> DEFINE o == Attempt(r)
           refs == trace.old \cup (IF trace.raw = None THEN {} ELSE {trace.raw})
<1>1. runs[r].pc = "commit" /\ runs[r].does[1] = "view" /\ Held(r) /\ CaptureShape /\ ShownOk
  BY DEF CommitView, At, Kind, CaptureInv
<1>2. CASE Publish(r, TRUE) /\ OnlyStaged
  <2> DEFINE yes == TRUE
  <2>1. yes \in BOOLEAN /\ Publish(r, yes) /\ yes
    BY <1>2
  <2> HIDE DEF yes
  <2> QED BY <1>1, <1>2, <2>1, PublishNothing, CaptureFrame
<1>3. CASE Changed(r) /\ OnlyStaged
  BY <1>1, <1>3, ChangedKeepsCapture
<1>4. CASE /\ capture.root = Arg(r) /\ ~trace.deleted /\ runs[r].base = <<"of", trace, capture.status>> /\ Publish(r, FALSE)
           /\ trace' = [trace EXCEPT !.view = "READY", !.raw = o, !.old = refs]
           /\ built' = built \cup {<<Arg(r), o>>}
           /\ jobs' = IF refs = {} THEN jobs ELSE jobs \cup {Job("DeleteSupersededProjections", 0)}
           /\ UNCHANGED <<capture, failed>>
  <2> HIDE DEF refs, o
  <2>1. Sealed(r)
    <3> DEFINE base == <<"of", trace, capture.status>>
    <3>1. base[1] = "of"
      OBVIOUS
    <3> QED BY <1>4, <3>1 DEF Sealed
  <2>2. Arg(r) \in Nat \ {0} /\ trace.root = Arg(r) /\ HasTrace
    BY <1>1, <1>4 DEF Arg, CaptureInv, CommandOk, CaptureShape
  <2>3. /\ trace' = [view |-> trace'.view, root |-> trace'.root, raw |-> trace'.raw, old |-> trace'.old,
                     sources |-> trace'.sources, state |-> trace'.state, deleted |-> trace'.deleted]
        /\ trace'.view = "READY" /\ trace'.root = Arg(r) /\ trace'.raw = o /\ trace'.old = refs
        /\ trace'.sources = trace.sources /\ trace'.deleted = trace.deleted
    BY <1>1, <1>4, <2>2 DEF CaptureShape
  <2>4. CaptureShape' /\ HasTrace'
    BY <1>1, <1>4, <2>2, <2>3 DEF CaptureShape, HasTrace
  <2>5. ViewsShowTheirRoot'
    BY <1>4, <2>3 DEF ViewsShowTheirRoot
  <2>6. o \notin Shown /\ o \notin trace.old /\ o # None
    BY <1>1, HeldRow, NoneIsNoObject, AttemptParts DEF ShownOk, Out, CaptureInv, StagedInv, o
  <2>7. Shown' = (Range(capture.parts) \cup trace.sources) \cup {o} /\ Shown' \subseteq Shown \cup {o} /\ o \in Named'
    BY <1>4, <2>3, <2>6 DEF Shown, Named
  <2>8. refs \subseteq trace.old \cup Shown /\ trace'.old \cap Shown' = {}
    BY <1>1, <2>3, <2>6, <2>7 DEF ShownOk, Shown, refs
  <2>9. trace'.raw \notin Range(capture'.parts) \cup trace'.sources
    BY <1>4, <2>3, <2>6 DEF Shown
  <2>10. Named \subseteq Named' \cup {None}
    BY <1>4, <2>3 DEF Named, refs
  <2>11. \A j \in jobs' : j \in jobs \/ JobOk(j)'
    <3> SUFFICES ASSUME NEW j, j = Job("DeleteSupersededProjections", 0) PROVE JobOk(j)'
      BY <1>4
    <3>1. /\ j = [type |-> j.type, arg |-> j.arg, refs |-> j.refs, attempts |-> j.attempts, held |-> j.held]
          /\ j.type = "DeleteSupersededProjections" /\ j.refs = {None}
      BY DEF Job
    <3> QED BY <3>1 DEF JobOk
  <2>12. ToKeep
    BY <1>4, <2>2 DEF ToKeep
  <2> QED BY <1>1, <1>4, <2>1, <2>2, <2>3, <2>4, <2>5, <2>7, <2>8, <2>9, <2>10, <2>11, <2>12, NewObjectFrame DEF o
<1> QED BY <1>2, <1>3, <1>4 DEF CommitView

LEMMA StillIsSteady ==
  ASSUME CaptureInv, UNCHANGED <<vault, attempts, runs>>
  PROVE  Steady /\ \A q \in Runs : CommandOk(q)'
<1>1. RowsOk' /\ \A a \in Objects : RowStays(a)
  BY DEF CaptureInv, StagedInv, RowsOk, RowStays, Noted
<1>2. Steady
  BY <1>1, RestingIsSteady DEF CaptureInv
<1> QED BY <1>2, CommandStays DEF Steady

LEMMA EndingsKeepCapture ==
  ASSUME CaptureInv, Expire \/ Sweep \/ DeleteTrace
  PROVE  CaptureInv'
<1> DEFINE yes == TRUE
<1>1. UNCHANGED <<vault, attempts, runs>> /\ CaptureShape
  BY DEF Expire, Sweep, DeleteTrace, CaptureInv
<1>2. Steady /\ \A q \in Runs : CommandOk(q)'
  BY <1>1, StillIsSteady
<1>3. CASE Expire
  <2>1. capture' = [capture EXCEPT !.expired = yes] /\ UNCHANGED <<trace, jobs, built>>
    BY <1>3 DEF Expire
  <2> HIDE DEF yes
  <2>2. CaptureShape' /\ ViewsShowTheirRoot' /\ SameObjects
    BY <1>1, <2>1 DEF CaptureShape, HasTrace, ViewsShowTheirRoot, SameObjects, ToKeep, CaptureInv
  <2> QED BY <1>2, <2>1, <2>2, SameObjectsFrame
<1>4. CASE Sweep
  <2>1. /\ capture.status = "AWAITING_UPLOAD" /\ capture' = [capture EXCEPT !.status = "EXPIRED"] /\ built' = built
        /\ trace' = trace \/ (HasTrace /\ trace' = [trace EXCEPT !.state = "INTERRUPTED"])
        /\ jobs' = IF HasTrace THEN jobs ELSE jobs \cup {Job("DeleteExpiredCapture", 0)}
    BY <1>4 DEF Sweep
  <2>2. /\ capture'.status = "EXPIRED" /\ capture'.parts = capture.parts /\ capture'.root = capture.root
        /\ capture' = [status |-> capture'.status, parts |-> capture'.parts, root |-> capture'.root, expired |-> capture'.expired]
    BY <1>1, <2>1 DEF CaptureShape
  <2>3. /\ trace' = [view |-> trace'.view, root |-> trace'.root, raw |-> trace'.raw, old |-> trace'.old,
                     sources |-> trace'.sources, state |-> trace'.state, deleted |-> trace'.deleted]
        /\ trace'.view = trace.view /\ trace'.root = trace.root /\ trace'.raw = trace.raw /\ trace'.old = trace.old
        /\ trace'.sources = trace.sources /\ trace'.deleted = trace.deleted
    BY <1>1, <2>1 DEF CaptureShape
  <2>4. CaptureShape' /\ ViewsShowTheirRoot'
    BY <1>1, <2>1, <2>2, <2>3 DEF CaptureShape, HasTrace, ViewsShowTheirRoot, CaptureInv
  <2>5. SameObjects
    BY <2>1, <2>2, <2>3 DEF SameObjects, HasTrace, ToKeep
  <2>6. ASSUME NEW j, j = Job("DeleteExpiredCapture", 0), ~HasTrace PROVE JobOk(j)'
    <3>1. /\ j = [type |-> j.type, arg |-> j.arg, refs |-> j.refs, attempts |-> j.attempts, held |-> j.held]
          /\ j.type = "DeleteExpiredCapture" /\ j.refs = {None}
      BY <2>6 DEF Job
    <3>2. ~HasTrace' /\ capture'.status = "EXPIRED"
      BY <2>2, <2>3, <2>6 DEF HasTrace
    <3> QED BY <3>1, <3>2 DEF JobOk
  <2>7. \A j \in jobs' : j \in jobs \/ JobOk(j)'
    BY <2>1, <2>6
  <2> QED BY <1>2, <2>4, <2>5, <2>7, SameObjectsFrame
<1>5. CASE DeleteTrace
  <2>1. trace' = [trace EXCEPT !.deleted = yes] /\ UNCHANGED <<capture, built>> /\ jobs' = jobs \cup {Job("DeleteTraceObjects", 0)} /\ yes
    BY <1>5 DEF DeleteTrace
  <2> HIDE DEF yes
  <2>2. /\ trace' = [view |-> trace'.view, root |-> trace'.root, raw |-> trace'.raw, old |-> trace'.old,
                     sources |-> trace'.sources, state |-> trace'.state, deleted |-> trace'.deleted]
        /\ trace'.view = trace.view /\ trace'.root = trace.root /\ trace'.raw = trace.raw /\ trace'.old = trace.old
        /\ trace'.sources = trace.sources /\ trace'.deleted
    BY <1>1, <2>1 DEF CaptureShape
  <2>3. CaptureShape' /\ ViewsShowTheirRoot'
    BY <1>1, <2>1, <2>2 DEF CaptureShape, HasTrace, ViewsShowTheirRoot, CaptureInv
  <2>4. SameObjects
    BY <2>1, <2>2 DEF SameObjects, HasTrace, ToKeep
  <2>5. ASSUME NEW j, j = Job("DeleteTraceObjects", 0) PROVE JobOk(j)'
    <3>1. /\ j = [type |-> j.type, arg |-> j.arg, refs |-> j.refs, attempts |-> j.attempts, held |-> j.held]
          /\ j.type = "DeleteTraceObjects" /\ j.refs = {None}
      BY <2>5 DEF Job
    <3> QED BY <2>2, <3>1 DEF JobOk
  <2>6. \A j \in jobs' : j \in jobs \/ JobOk(j)'
    BY <2>1, <2>5
  <2> QED BY <1>2, <2>3, <2>4, <2>6, SameObjectsFrame
<1> QED BY <1>3, <1>4, <1>5

LEMMA ViewFailedKeepsCapture ==
  ASSUME CaptureInv, NEW r \in Clients, ViewFailed(r)
  PROVE  CaptureInv'
<1>1. /\ runs[r].pc = "failed" /\ runs[r].does[1] = "view" /\ Go(r, "over") /\ CaptureShape
      /\ UNCHANGED <<vault, attempts, capture, jobs, built>>
  BY DEF ViewFailed, At, Kind, CaptureInv
<1>2. Steady /\ \A q \in Runs : CommandOk(q)'
  BY <1>1, GoFits, RunSets DEF Open, Early
<1>3. CASE trace' = trace
  <2>1. OnlyStaged
    BY <1>3 DEF ViewFailed, OnlyStaged
  <2> QED BY <1>2, <2>1, CaptureFrame
<1>4. CASE capture.root = Arg(r) /\ trace' = [trace EXCEPT !.view = "ERROR"]
  <2>1. HasTrace
    BY <1>1, <1>4, RunSets DEF CaptureInv, CommandOk, CaptureShape, Arg
  <2>2. /\ trace' = [view |-> trace'.view, root |-> trace'.root, raw |-> trace'.raw, old |-> trace'.old,
                     sources |-> trace'.sources, state |-> trace'.state, deleted |-> trace'.deleted]
        /\ trace'.view = "ERROR" /\ trace'.root = trace.root /\ trace'.raw = trace.raw /\ trace'.old = trace.old
        /\ trace'.sources = trace.sources /\ trace'.deleted = trace.deleted
    BY <1>1, <1>4 DEF CaptureShape
  <2>3. CaptureShape' /\ ViewsShowTheirRoot'
    BY <1>1, <2>1, <2>2 DEF CaptureShape, HasTrace, ViewsShowTheirRoot
  <2>4. SameObjects
    BY <1>1, <2>1, <2>2 DEF SameObjects, ToKeep
  <2> QED BY <1>1, <1>2, <2>3, <2>4, SameObjectsFrame
<1> QED BY <1>3, <1>4 DEF ViewFailed

\* A job whose claim or count of failures changed.
JobLike(n, j) ==
  /\ n = [type |-> n.type, arg |-> n.arg, refs |-> n.refs, attempts |-> n.attempts, held |-> n.held]
  /\ n.type = j.type /\ n.arg = j.arg

LEMMA HeldEdit ==
  ASSUME NEW j, JobLike(j, j), NEW v
  PROVE  JobLike([j EXCEPT !.held = v], j) /\ [j EXCEPT !.held = v].refs = j.refs
<1>1. j = [type |-> j.type, arg |-> j.arg, refs |-> j.refs, attempts |-> j.attempts, held |-> j.held]
  BY DEF JobLike
<1> QED BY <1>1 DEF JobLike

LEMMA AttemptsEdit ==
  ASSUME NEW j, JobLike(j, j), NEW v
  PROVE  JobLike([j EXCEPT !.attempts = v], j) /\ [j EXCEPT !.attempts = v].refs = j.refs
<1>1. j = [type |-> j.type, arg |-> j.arg, refs |-> j.refs, attempts |-> j.attempts, held |-> j.held]
  BY DEF JobLike
<1> QED BY <1>1 DEF JobLike

LEMMA RefsEdit ==
  ASSUME NEW j, JobLike(j, j), NEW v
  PROVE  JobLike([j EXCEPT !.refs = v], j) /\ [j EXCEPT !.refs = v].refs = v
<1>1. j = [type |-> j.type, arg |-> j.arg, refs |-> j.refs, attempts |-> j.attempts, held |-> j.held]
  BY DEF JobLike
<1> QED BY <1>1 DEF JobLike

LEMMA LikeItself ==
  ASSUME NEW j, NEW n, JobLike(n, j)
  PROVE  JobLike(n, n) /\ \A m : JobLike(m, n) => JobLike(m, j)
BY DEF JobLike

LEMMA LikeJobs ==
  ASSUME NEW j, JobOk(j), NEW n, JobLike(n, j), n.refs = j.refs
  PROVE  JobOk(n)
BY DEF JobOk, JobLike

LEMMA CountFailureKeepsJobs ==
  ASSUME CaptureInv, NEW j \in jobs, CountFailure(j)
  PROVE  \A i \in jobs' : i \in jobs \/ JobOk(i)
<1> DEFINE no == FALSE
           n == j.attempts + 1
           y == [j EXCEPT !.held = no]
           e == [y EXCEPT !.attempts = n]
<1>1. JobOk(j) /\ JobLike(j, j)
  BY DEF CaptureInv, JobOk, JobLike
<1>2. JobLike(y, j) /\ y.refs = j.refs
  <2> HIDE DEF no
  <2> QED BY <1>1, HeldEdit
<1>3. JobLike(e, j) /\ e.refs = j.refs
  <2>1. JobLike(y, y)
    BY <1>2, LikeItself
  <2>2. JobLike(e, y) /\ e.refs = y.refs
    <3> HIDE DEF y, n
    <3> QED BY <2>1, AttemptsEdit
  <2> HIDE DEF e, y
  <2> QED BY <1>2, <2>2, LikeItself
<1>4. JobOk(e)
  <2> HIDE DEF e
  <2> QED BY <1>1, <1>3, LikeJobs
<1>5. e = [j EXCEPT !.held = FALSE, !.attempts = @ + 1]
  BY <1>1 DEF JobLike
<1>6. jobs' = (jobs \ {j}) \cup {e} \/ jobs' = jobs \ {j}
  <2> HIDE DEF e
  <2> QED BY <1>5 DEF CountFailure
<1> HIDE DEF e
<1> QED BY <1>4, <1>6

LEMMA HeldJob ==
  ASSUME CaptureInv, NEW j \in jobs, NEW v
  PROVE  JobOk([j EXCEPT !.held = v])
<1>1. JobOk(j) /\ JobLike(j, j)
  BY DEF CaptureInv, JobOk, JobLike
<1> DEFINE e == [j EXCEPT !.held = v]
<1>2. JobLike(e, j) /\ e.refs = j.refs
  BY <1>1, HeldEdit
<1> HIDE DEF e
<1>3. JobOk(e)
  BY <1>1, <1>2, LikeJobs
<1> QED BY <1>3 DEF e

\* Only jobs change.
LEMMA JobsFrame ==
  ASSUME CaptureInv, Steady, UNCHANGED <<capture, trace, built>>,
         \A j \in jobs' : j \in jobs \/ JobOk(j) \/ JobOk(j)', \A q \in Runs : CommandOk(q)'
  PROVE  CaptureInv'
<1>1. CaptureShape' /\ ViewsShowTheirRoot' /\ SameObjects
  BY DEF CaptureInv, CaptureShape, ViewsShowTheirRoot, SameObjects, HasTrace, ToKeep
<1> QED BY <1>1, SameObjectsFrame

LEMMA WorkerJobsKeepCapture ==
  ASSUME CaptureInv, NEW j \in jobs, ClaimView(j) \/ JobDone(j) \/ JobFailed(j) \/ FreeJob(j)
  PROVE  CaptureInv'
<1> DEFINE yes == TRUE
           no == FALSE
<1>1. UNCHANGED <<vault, attempts, capture, trace, built>>
  BY DEF ClaimView, JobDone, JobFailed, FreeJob
<1>2. CASE ClaimView(j)
  <2> DEFINE does == <<"view", j.arg>>
  <2>1. jobs' = (jobs \ {j}) \cup {[j EXCEPT !.held = yes]} /\ runs' = [runs EXCEPT ![WORKER] = Begun(WORKER, "look", does, NoKey)]
    BY <1>2 DEF ClaimView
  <2>2. does[2] \in Nat \ {0}
    BY <1>2 DEF ClaimView, CaptureInv, JobOk
  <2> HIDE DEF does, yes
  <2>3. Steady /\ \A q \in Runs : CommandOk(q)'
    BY <1>1, <2>1, <2>2, BeginFits, RunSets
  <2>4. \A i \in jobs' : i \in jobs \/ JobOk(i)
    BY <2>1, HeldJob
  <2> QED BY <1>1, <2>3, <2>4, JobsFrame
<1>3. CASE JobDone(j)
  <2>1. Go(WORKER, "idle") /\ runs[WORKER].pc = "done" /\ jobs' = jobs \ {j}
    BY <1>3 DEF JobDone, At
  <2>2. Steady /\ \A q \in Runs : CommandOk(q)'
    BY <1>1, <2>1, GoFits, RunSets DEF Open, Early
  <2> QED BY <1>1, <2>1, <2>2, JobsFrame
<1>4. CASE JobFailed(j)
  <2>1. Go(WORKER, "idle") /\ runs[WORKER].pc = "failed" /\ CountFailure(j)
    BY <1>4 DEF JobFailed, At
  <2>2. Steady /\ \A q \in Runs : CommandOk(q)'
    BY <1>1, <2>1, GoFits, RunSets DEF Open, Early
  <2> QED BY <1>1, <2>1, <2>2, CountFailureKeepsJobs, JobsFrame
<1>5. CASE FreeJob(j)
  <2>1. jobs' = (jobs \ {j}) \cup {[j EXCEPT !.held = no]} /\ UNCHANGED runs
    BY <1>5 DEF FreeJob
  <2> HIDE DEF no
  <2>2. Steady /\ \A q \in Runs : CommandOk(q)'
    BY <1>1, <2>1, StillIsSteady
  <2>3. \A i \in jobs' : i \in jobs \/ JobOk(i)
    BY <2>1, HeldJob
  <2> QED BY <1>1, <2>2, <2>3, JobsFrame
<1> QED BY <1>2, <1>3, <1>4, <1>5

\* Objects are removed, or no longer named.
LEMMA RemovalFrame ==
  ASSUME CaptureInv, StagedInv', OutStay, NotedStay, CaptureShape', ViewsShowTheirRoot',
         Range(capture'.parts) \subseteq Range(capture.parts), trace'.sources = trace.sources, trace'.raw = trace.raw,
         trace'.old \subseteq trace.old, trace'.deleted = trace.deleted,
         HasTrace' <=> HasTrace, capture'.status = capture.status,
         ToKeep => Shown \cap vault \subseteq vault', \A a \in vault' : a \in Named => a \in Named',
         \A j \in jobs' : j \in jobs \/ JobOk(j), \A q \in Runs : CommandOk(q)'
  PROVE  CaptureInv'
<1>1. Shown' \subseteq Shown /\ (ToKeep' <=> ToKeep)
  BY DEF Shown, ToKeep
<1>2. \A a : Out(a) => Out(a)'
  BY DEF OutStay, Out
<1>3. ShownOk'
  <2>1. \A a \in Shown' \cup trace'.old : Out(a)'
    BY <1>1, <1>2 DEF CaptureInv, ShownOk
  <2>2. \A a \in trace'.old : a \notin Shown'
    BY <1>1 DEF CaptureInv, ShownOk
  <2>3. trace'.raw \notin Range(capture'.parts) \cup trace'.sources
    BY DEF CaptureInv, ShownOk
  <2>4. ToKeep' => Shown' \subseteq vault'
    BY <1>1 DEF CaptureInv, ShownOk
  <2> QED BY <2>1, <2>2, <2>3, <2>4 DEF ShownOk
<1>4. \A j \in jobs' : JobOk(j)'
  BY <1>1, <1>2 DEF CaptureInv, JobOk
<1>5. TrackedOk'
  BY DEF CaptureInv, TrackedOk, CaptureObjects, NotedStay
<1> QED BY <1>3, <1>4, <1>5 DEF CaptureInv

LEMMA DeleteObjectsKeepsCapture ==
  ASSUME CaptureInv, NEW j \in jobs, DeleteObjects(j)
  PROVE  CaptureInv'
<1> DEFINE gone == IF j.type = "DeleteTraceObjects" THEN Named ELSE Range(capture.parts)
<1>1. CaptureShape /\ ShownOk /\ JobOk(j) /\ UNCHANGED <<attempts, runs, trace, built>>
  BY DEF DeleteObjects, CaptureInv
<1>2. vault' \subseteq vault /\ vault \ vault' \subseteq gone
  BY DEF DeleteObjects
<1>3. \A a \in vault \ vault' : Out(a)
  <2> TAKE a \in vault \ vault'
  <2>1. a \in gone /\ a # None
    BY <1>2, NoneIsNoObject DEF CaptureInv, StagedInv, VaultOk
  <2>2. a \in Shown \cup trace.old
    BY <2>1 DEF Shown, Named
  <2> QED BY <1>1, <2>2 DEF ShownOk
<1>4. StagedInv' /\ OutStay /\ NotedStay
  BY <1>1, <1>2, <1>3, RemovalIsCalm DEF CaptureInv
<1>5. \A q \in Runs : CommandOk(q)'
  BY <1>1, <1>4, CommandStays
<1>6. ~ToKeep
  BY <1>1 DEF DeleteObjects, JobOk, ToKeep
<1>7. CASE vault' = vault \ gone /\ capture' = [capture EXCEPT !.parts = <<>>] /\ jobs' = jobs \ {j}
  <2>1. capture'.parts = <<>> /\ capture'.status = capture.status /\ CaptureShape'
    BY <1>1, <1>7 DEF CaptureShape, HasTrace
  <2>2. Range(capture'.parts) = {}
    BY <2>1 DEF Range
  <2>3. \A a \in vault' : a \in Named => a \in Named'
    BY <1>1, <1>7 DEF Named
  <2>4. ViewsShowTheirRoot' /\ (HasTrace' <=> HasTrace)
    BY <1>1 DEF ViewsShowTheirRoot, CaptureInv, HasTrace
  <2> QED BY <1>1, <1>4, <1>5, <1>6, <1>7, <2>1, <2>2, <2>3, <2>4, RemovalFrame
<1>8. CASE CountFailure(j) /\ UNCHANGED capture
  <2>1. \A i \in jobs' : i \in jobs \/ JobOk(i)
    BY <1>8, CountFailureKeepsJobs
  <2>2. CaptureShape' /\ ViewsShowTheirRoot' /\ (HasTrace' <=> HasTrace) /\ Named' = Named
    BY <1>1, <1>8 DEF CaptureShape, HasTrace, ViewsShowTheirRoot, CaptureInv, Named
  <2> QED BY <1>1, <1>4, <1>5, <1>6, <1>8, <2>1, <2>2, RemovalFrame
<1> QED BY <1>7, <1>8 DEF DeleteObjects

LEMMA ClaimOldKeepsCapture ==
  ASSUME CaptureInv, NEW j \in jobs, ClaimOld(j)
  PROVE  CaptureInv'
<1> DEFINE yes == TRUE
           refs == (IF j.refs = {None} THEN trace.old ELSE j.refs) \ {trace.raw}
           y == [j EXCEPT !.refs = refs]
           e == [y EXCEPT !.held = yes]
           does == <<"old", e>>
           x == Begun(WORKER, "remove", does, NoKey)
<1>1. JobOk(j) /\ JobLike(j, j) /\ ShownOk
  BY DEF CaptureInv, JobOk, JobLike
<1>2. JobLike(y, j) /\ y.refs = refs
  <2> HIDE DEF refs
  <2> QED BY <1>1, RefsEdit
<1>3. JobLike(e, j) /\ e.refs = refs
  <2>1. JobLike(y, y)
    BY <1>2, LikeItself
  <2>2. JobLike(e, y) /\ e.refs = y.refs
    <3> HIDE DEF y, yes
    <3> QED BY <2>1, HeldEdit
  <2> HIDE DEF e, y
  <2> QED BY <1>2, <2>2, LikeItself
<1>4. \A a \in refs : a = None \/ (Out(a) /\ a \notin Shown)
  BY <1>1 DEF ShownOk, JobOk
<1>5. e = [j EXCEPT !.refs = (IF @ = {None} THEN trace.old ELSE @) \ {trace.raw}, !.held = TRUE]
  BY <1>1 DEF JobLike
<1> HIDE DEF refs, e
<1>6. JobOk(e)
  BY <1>1, <1>3, <1>4 DEF JobLike, JobOk
<1>7. /\ jobs' = (jobs \ {j}) \cup {e} /\ runs' = [runs EXCEPT ![WORKER] = x]
      /\ UNCHANGED <<vault, attempts, capture, trace, built>>
  BY <1>5 DEF ClaimOld
<1>8. does[1] = "old"
  OBVIOUS
<1> HIDE DEF does
<1>9. /\ IsRun(x) /\ x.pc = "remove" /\ x.does = does /\ x.turn = runs[WORKER].turn + 1 /\ runs[WORKER].turn \in Nat
      /\ WORKER \in Runs
  BY BegunIs, RunSets DEF CaptureInv, StagedInv, RunsOk, IsRun
<1> HIDE DEF x
<1>10. Moves(WORKER, x)
  BY <1>7, <1>9 DEF Moves
<1>11. MayMove(WORKER, x)
  <2>1. x.turn > runs[WORKER].turn /\ x.pc \notin {"seal", "upload", "confirm", "commit"}
    BY <1>9
  <2> QED BY <2>1 DEF MayMove
<1>12. Steady
  BY <1>7, <1>9, <1>10, <1>11, MoveIsSteady DEF CaptureInv
<1>13. \A q \in Runs : CommandOk(q)'
  <2>1. runs'[WORKER] = x /\ \A q \in Runs : q # WORKER => runs'[q] = runs[q]
    BY <1>9, <1>10, Moved DEF CaptureInv, StagedInv
  <2> TAKE q \in Runs
  <2>2. CASE q = WORKER
    BY <1>8, <1>9, <2>1, <2>2 DEF CommandOk
  <2>3. CASE q # WORKER
    BY <1>12, <2>1, <2>3, CommandStays DEF Steady
  <2> QED BY <2>2, <2>3
<1>14. \A i \in jobs' : i \in jobs \/ JobOk(i)
  BY <1>6, <1>7
<1> QED BY <1>7, <1>12, <1>13, <1>14, JobsFrame

LEMMA RemoveOldKeepsCapture ==
  ASSUME CaptureInv, NEW j \in jobs, RemoveOld(j)
  PROVE  CaptureInv'
<1>1. CaptureShape /\ ShownOk /\ JobOk(j) /\ UNCHANGED <<attempts, capture, trace, jobs, built>> /\ runs[WORKER].pc = "remove" /\ WORKER \in Runs
  BY RunSets DEF RemoveOld, At, CaptureInv
<1>2. runs[WORKER].does[1] = "old" /\ runs[WORKER].does[2] = j
  BY <1>1 DEF RemoveOld, Mine, Kind, Arg, CaptureInv, CommandOk
<1>3. /\ vault' \subseteq vault /\ vault \ vault' \subseteq j.refs
      /\ (Go(WORKER, "forget") /\ vault' = vault \ j.refs) \/ Go(WORKER, "failed")
  BY DEF RemoveOld
<1>4. PICK x : /\ Moves(WORKER, x) /\ Same(WORKER, x)
               /\ (x.pc = "forget" /\ vault' = vault \ j.refs) \/ x.pc = "failed"
  BY <1>1, <1>3, GoMoves DEF CaptureInv, StagedInv
<1>5. MayMove(WORKER, x)
  BY <1>4 DEF MayMove, Same, Open, Early
<1>6. \A a \in vault \ vault' : Out(a) /\ a \notin Shown
  BY <1>1, <1>3, NoneIsNoObject DEF JobOk, CaptureInv, StagedInv, VaultOk
<1>7. StagedInv' /\ OutStay /\ NotedStay
  BY <1>1, <1>3, <1>4, <1>5, <1>6, MoveIsCalm DEF CaptureInv
<1>8. \A q \in Runs : CommandOk(q)'
  <2>1. runs'[WORKER] = x /\ \A q \in Runs : q # WORKER => runs'[q] = runs[q]
    BY <1>1, <1>4, Moved DEF CaptureInv, StagedInv
  <2> TAKE q \in Runs
  <2>2. CASE q = WORKER
    <3>1. x.pc = "forget" => \A a \in j.refs : (a = None \/ Out(a)') /\ a \notin vault'
      BY <1>1, <1>4, <1>7, NoneIsNoObject DEF JobOk, OutStay, Out, StagedInv, VaultOk
    <3> QED BY <1>2, <1>4, <2>1, <2>2, <3>1 DEF CommandOk, Same
  <2>3. CASE q # WORKER
    BY <1>7, <2>1, <2>3, CommandStays
  <2> QED BY <2>2, <2>3
<1>9. CaptureShape' /\ ViewsShowTheirRoot' /\ (HasTrace' <=> HasTrace) /\ Named' = Named
  BY <1>1 DEF CaptureShape, HasTrace, ViewsShowTheirRoot, CaptureInv, Named
<1>10. Shown \cap vault \subseteq vault'
  BY <1>6
<1> QED BY <1>1, <1>7, <1>8, <1>9, <1>10, RemovalFrame

LEMMA ForgetOldKeepsCapture ==
  ASSUME CaptureInv, NEW j \in jobs, ForgetOld(j)
  PROVE  CaptureInv'
<1>1. CaptureShape /\ UNCHANGED <<vault, attempts, capture, jobs, built>> /\ runs[WORKER].pc = "forget" /\ WORKER \in Runs
  BY RunSets DEF ForgetOld, At, CaptureInv
<1>2. /\ runs[WORKER].does[1] = "old" /\ runs[WORKER].does[2] = j
      /\ \A a \in j.refs : a \notin vault
  BY <1>1 DEF ForgetOld, Mine, Kind, Arg, CaptureInv, CommandOk
<1> DEFINE old == trace.old \ j.refs
<1>3. trace' = [trace EXCEPT !.old = old] /\ Go(WORKER, "done")
  BY <1>1 DEF ForgetOld, CaptureShape
<1>4. Steady /\ \A q \in Runs : CommandOk(q)'
  BY <1>1, <1>3, GoFits DEF Open, Early
<1> HIDE DEF old
<1>5. /\ trace' = [view |-> trace'.view, root |-> trace'.root, raw |-> trace'.raw, old |-> trace'.old,
                   sources |-> trace'.sources, state |-> trace'.state, deleted |-> trace'.deleted]
      /\ trace'.view = trace.view /\ trace'.root = trace.root /\ trace'.raw = trace.raw /\ trace'.old = old
      /\ trace'.sources = trace.sources /\ trace'.deleted = trace.deleted
  BY <1>1, <1>3 DEF CaptureShape
<1>6. CaptureShape' /\ ViewsShowTheirRoot' /\ (HasTrace' <=> HasTrace)
  BY <1>1, <1>5 DEF CaptureShape, HasTrace, ViewsShowTheirRoot, CaptureInv
<1>7. \A a \in vault' : a \in Named => a \in Named'
  BY <1>1, <1>2, <1>5 DEF Named, old
<1>8. trace'.old \subseteq trace.old
  BY <1>5 DEF old
<1> QED BY <1>1, <1>4, <1>5, <1>6, <1>7, <1>8, RemovalFrame DEF Steady

LEMMA StagedStart ==
  ASSUME StagedInit
  PROVE  StagedInv
<1>1. \A r \in Runs : runs[r] = NoRun
  BY DEF StagedInit
<1>2. RunsOk
  BY <1>1, NoRunIs DEF StagedInit, RunsOk
<1>3. DOMAIN attempts = {} /\ RowsOk /\ vault = {}
  BY DEF StagedInit, RowsOk
<1>4. VaultOk /\ StoredOk
  BY <1>3 DEF VaultOk, StoredOk
<1>5. \A r \in Runs : RunOk(r)
  BY <1>1, NoRunIs DEF RunOk
<1> QED BY <1>2, <1>3, <1>4, <1>5 DEF StagedInv

LEMMA CaptureStart ==
  ASSUME CaptureInit
  PROVE  CaptureInv
<1>1. StagedInv /\ vault = {} /\ \A r \in Runs : runs[r] = NoRun
  BY StagedStart DEF CaptureInit, StagedInit
<1>2. CaptureShape
  BY DEF CaptureInit, CaptureShape, NoTrace, HasTrace
<1>3. Shown = {} /\ trace.old = {} /\ Range(capture.parts) = {} /\ trace.sources = {}
  <2>1. Range(<<>>) = {}
    BY DEF Range
  <2> QED BY <2>1 DEF CaptureInit, Shown, NoTrace
<1>4. ShownOk
  BY <1>3 DEF ShownOk
<1>5. TrackedOk
  BY <1>1 DEF TrackedOk, CaptureObjects
<1>6. ViewsShowTheirRoot /\ jobs = {}
  BY DEF CaptureInit, ViewsShowTheirRoot, NoTrace
<1>7. \A r \in Runs : CommandOk(r)
  BY <1>1, NoRunIs DEF CommandOk
<1> QED BY <1>1, <1>2, <1>4, <1>5, <1>6, <1>7 DEF CaptureInv

LEMMA CommandStepKeepsCapture ==
  ASSUME CaptureInv, NEW r \in Runs, CommandStep(r)
  PROVE  CaptureInv'
<1>1. CASE StagedStep(r) /\ OnlyStaged
  BY <1>1, StagedStepKeepsCapture
<1>2. CASE PreparePart(r)
  BY <1>2, PreparePartKeepsCapture
<1>3. CASE CommitPart(r)
  BY <1>3, CommitPartKeepsCapture
<1>4. CASE PrepareSave(r)
  BY <1>4, PrepareSaveKeepsCapture
<1>5. CASE CommitSave(r)
  BY <1>5, CommitSaveKeepsCapture
<1>6. CASE Look(r)
  BY <1>6, LookKeepsCapture
<1>7. CASE PrepareView(r)
  BY <1>7, PrepareViewKeepsCapture
<1>8. CASE CommitView(r)
  BY <1>8, CommitViewKeepsCapture
<1> QED BY <1>1, <1>2, <1>3, <1>4, <1>5, <1>6, <1>7, <1>8 DEF CommandStep

LEMMA CaptureStepKeeps ==
  ASSUME CaptureInv, [CaptureNext]_captureVars
  PROVE  CaptureInv'
<1>1. ASSUME NEW r \in Clients, Start(r) PROVE CaptureInv'
  BY <1>1, StartKeepsCapture
<1>2. ASSUME NEW r \in Clients, ClientStep(r) PROVE CaptureInv'
  <2>1. r \in Runs
    BY RunSets
  <2>2. CASE CommandStep(r)
    BY <2>1, <2>2, CommandStepKeepsCapture
  <2>3. CASE ViewAfterSave(r)
    BY <2>1, <2>3, ViewAfterSaveKeepsCapture
  <2>4. CASE ViewFailed(r)
    BY <2>4, ViewFailedKeepsCapture
  <2>5. CASE Over(r)
    BY <2>5, OverKeepsCapture
  <2> QED BY <1>2, <2>2, <2>3, <2>4, <2>5 DEF ClientStep
<1>3. ASSUME NEW r \in Clients \cup {WORKER}, Crash(r) PROVE CaptureInv'
  BY <1>3, RunSets, CrashKeepsCapture
<1>4. CASE WorkerStep
  <2>1. CASE CommandStep(WORKER)
    BY <2>1, RunSets, CommandStepKeepsCapture
  <2>2. ASSUME NEW j \in jobs,
               DeleteObjects(j) \/ ClaimView(j) \/ ClaimOld(j) \/ RemoveOld(j) \/ ForgetOld(j) \/ JobDone(j) \/ JobFailed(j) \/ FreeJob(j)
        PROVE  CaptureInv'
    <3>1. CASE DeleteObjects(j)
      BY <3>1, DeleteObjectsKeepsCapture
    <3>2. CASE ClaimOld(j)
      BY <3>2, ClaimOldKeepsCapture
    <3>3. CASE RemoveOld(j)
      BY <3>3, RemoveOldKeepsCapture
    <3>4. CASE ForgetOld(j)
      BY <3>4, ForgetOldKeepsCapture
    <3>5. CASE ClaimView(j) \/ JobDone(j) \/ JobFailed(j) \/ FreeJob(j)
      BY <3>5, WorkerJobsKeepCapture
    <3> QED BY <2>2, <3>1, <3>2, <3>3, <3>4, <3>5
  <2> QED BY <1>4, <2>1, <2>2 DEF WorkerStep
<1>5. CASE Maintenance
  BY <1>5, MaintenanceKeepsCapture
<1>6. CASE Expire \/ Sweep \/ DeleteTrace
  BY <1>6, EndingsKeepCapture
<1>7. CASE UNCHANGED captureVars
  <2>1. OnlyStaged /\ UNCHANGED <<vault, attempts, runs>>
    BY <1>7 DEF captureVars, OnlyStaged
  <2> QED BY <2>1, StillIsSteady, CaptureFrame
<1> QED BY <1>1, <1>2, <1>3, <1>4, <1>5, <1>6, <1>7 DEF CaptureNext

\* Whatever crashed, lapsed, failed or was asked twice: every object of a capture that is to be kept is
\* stored, and every object that is stored is named by the capture or noted in the row of its attempt
\* (StagedStorage.execute and cleanup, AgentCaptureIngestion, the deletions of the worker).
THEOREM CapturedObjectsStay == CaptureSpec => []ObjectsStayAndAreTracked
<1>1. CaptureInit => CaptureInv
  BY CaptureStart
<1>2. CaptureInv /\ [CaptureNext]_captureVars => CaptureInv'
  BY CaptureStepKeeps
<1>3. CaptureInv => ObjectsStayAndAreTracked
  <2> SUFFICES ASSUME CaptureInv PROVE ObjectsStayAndAreTracked
    OBVIOUS
  <2>1. PublishedObjectsStay
    BY DEF CaptureInv, ShownOk, Shown, ToKeep, PublishedObjectsStay
  <2>2. ObjectsAreTracked
    BY DEF CaptureInv, TrackedOk, Noted, Row, ObjectsAreTracked
  <2> QED BY <2>1, <2>2 DEF ObjectsStayAndAreTracked
<1> QED BY <1>1, <1>2, <1>3, PTL DEF CaptureSpec

\* A view that is shown as ready was built from the parts of the root it is shown with, however the
\* client's process, the worker and newer saves race for it (projectCapture's comparison at the commit).
THEOREM ReadyViewsShowTheirRoot == CaptureSpec => []ViewsShowTheirRoot
<1>1. CaptureInit => CaptureInv
  BY CaptureStart
<1>2. CaptureInv /\ [CaptureNext]_captureVars => CaptureInv'
  BY CaptureStepKeeps
<1>3. CaptureInv => ViewsShowTheirRoot
  BY DEF CaptureInv
<1> QED BY <1>1, <1>2, <1>3, PTL DEF CaptureSpec

(***************************************************************************)
(* The quality checks.                                                      *)
(***************************************************************************)
QcShape ==
  /\ source = [version |-> source.version, ready |-> source.ready, deleted |-> source.deleted, removed |-> source.removed]
  /\ mark = [version |-> mark.version, state |-> mark.state, attempts |-> mark.attempts, retryable |-> mark.retryable,
             retries |-> mark.retries]
  /\ job = [version |-> job.version, status |-> job.status, attempts |-> job.attempts, token |-> job.token, lapsed |-> job.lapsed]
  /\ source.version \in Versions /\ job.version \in 0..source.version /\ mark.version = job.version
  /\ job.attempts \in 0..QC_ATTEMPT_LIMIT /\ (job.status = "pending" => job.attempts < QC_ATTEMPT_LIMIT)
  /\ mark.retries \in 0..MAX_RETRIES /\ (mark.retryable => mark.retries < MAX_RETRIES)
  /\ claimed \in [Versions -> Nat]
RemovedOk == (source.removed => source.deleted) /\ DeletedTracesKeepNoReports
\* What the mark of a ready source says is what the queue does.
Matches ==
  Ready(source) /\ mark.version = source.version =>
    /\ mark.state = "queued" => job.status = "pending"
    /\ mark.state = "running" => job.status = "processing" \/ Replayed
    /\ mark.state = "failed" => job.status = "failed"
    /\ mark.state = "complete" => source.version \in DOMAIN reports
\* A version is claimed at most as often as its attempts, of each of its retries.
CountsOk ==
  /\ \A v \in Versions : claimed[v] <= QC_ATTEMPT_LIMIT * (MAX_RETRIES + 1)
  /\ ~source.removed => \A v \in Versions : v > job.version => claimed[v] = 0
  /\ ~source.removed /\ job.version # 0 => claimed[job.version] <= QC_ATTEMPT_LIMIT * mark.retries + job.attempts
ReportsOk == \A v \in DOMAIN reports : reports[v] \in vault /\ Out(reports[v])
\* A request of the owner that has a result has left a report; a worker's key is new with each turn.
DoneOk ==
  /\ \A k, v : <<"asked", <<k, v>>>> \in done => v \in DOMAIN reports \/ source.removed
  /\ \A r \in Workers, n \in Nat : <<r, n>> \in done => n <= runs[r].turn
\* A run whose key no other run has at the same time.
Alone(r) == r \in Owners => ~Repeated(r)
CheckOk(r) ==
  LET run == runs[r] IN
  /\ run.try = 1 /\ ~run.again
  /\ run.pc # "idle" => run.does[2] \in Versions /\ run.does[2] <= source.version
  /\ run.pc \notin {"idle", "claim"} /\ run.base = <<"superseded">> => ~(Authorized(r) /\ Current(r))
  /\ r \in Workers => run.pc # "claim"
  /\ r \in Workers /\ run.pc # "idle" => run.key = <<r, run.turn>>
  /\ r \in Owners /\ run.pc \notin {"idle", "claim"} => run.key = Asked(r, run.does[2])
  /\ run.pc \in Open /\ Alone(r) => run.key \notin done
  /\ run.pc = "claim" /\ Alone(r) => Asked(r, run.does[2]) \notin done
  /\ run.pc \in {"seal", "upload", "confirm", "commit"} =>
       \/ run.base = <<"new">>
       \/ run.base = <<"cached">> /\ (source.removed \/ run.does[2] \in DOMAIN reports)
       \/ run.base[1] = "reused" /\ (source.removed \/ \E v \in DOMAIN reports : reports[v] = run.base[2])
  /\ run.pc = "done" /\ Authorized(r) /\ Current(r) =>
       \/ mark.version = source.version /\ mark.state = "complete"
       \/ ~Alone(r) /\ (source.removed \/ source.version \in DOMAIN reports)
QcInv ==
  /\ StagedInv /\ QcShape /\ RemovedOk /\ Matches /\ CountsOk /\ ReportsOk /\ DoneOk
  /\ \A r \in Checkers : CheckOk(r)

JobIs(j) == j = [version |-> j.version, status |-> j.status, attempts |-> j.attempts, token |-> j.token, lapsed |-> j.lapsed]
MarkIs(m) == m = [version |-> m.version, state |-> m.state, attempts |-> m.attempts, retryable |-> m.retryable, retries |-> m.retries]

LEMMA NoJobIs == JobIs(NoJob) /\ NoJob.version = 0 /\ NoJob.status = "none" /\ NoJob.attempts = 0
  BY DEF NoJob, JobIs

LEMMA NoMarkIs == MarkIs(NoMark) /\ NoMark.version = 0 /\ NoMark.state = "none" /\ NoMark.retries = 0 /\ ~NoMark.retryable
  BY DEF NoMark, MarkIs

LEMMA FreshIs ==
  ASSUME NEW version
  PROVE  LET j == Fresh(version) IN JobIs(j) /\ j.version = version /\ j.status = "pending" /\ j.attempts = 0
<1> DEFINE y == [NoJob EXCEPT !.version = version]
           z == [y EXCEPT !.status = "pending"]
<1>1. JobIs(y) /\ y.version = version /\ y.attempts = 0
  BY NoJobIs DEF JobIs
<1>2. JobIs(z) /\ z.version = version /\ z.attempts = 0 /\ z.status = "pending"
  <2> HIDE DEF y
  <2> QED BY <1>1 DEF JobIs
<1>3. Fresh(version) = z
  BY DEF Fresh
<1> HIDE DEF z
<1> QED BY <1>2, <1>3

LEMMA StatusEdit ==
  ASSUME NEW j, JobIs(j), NEW s
  PROVE  LET n == [j EXCEPT !.status = s]
         IN JobIs(n) /\ n.version = j.version /\ n.status = s /\ n.attempts = j.attempts /\ n.token = j.token /\ n.lapsed = j.lapsed
BY DEF JobIs

LEMMA KeptIs ==
  ASSUME NEW version, NEW m, MarkIs(m)
  PROVE  LET n == Kept(version, m)
         IN /\ MarkIs(n) /\ n.version = version /\ n.retries = (IF m.version = version THEN m.retries ELSE 0)
            /\ n.retryable => m.version = version /\ m.retryable
<1>1. CASE m.version = version
  BY <1>1 DEF Kept
<1>2. CASE m.version # version
  <2> DEFINE n == [NoMark EXCEPT !.version = version]
  <2>1. MarkIs(n) /\ n.version = version /\ n.retries = 0 /\ ~n.retryable
    BY NoMarkIs DEF MarkIs
  <2> HIDE DEF n
  <2> QED BY <1>2, <2>1 DEF Kept, n
<1> QED BY <1>1, <1>2

LEMMA MarkedIs ==
  ASSUME NEW version, NEW m, MarkIs(m), NEW state, NEW tries, NEW retryable
  PROVE  LET n == Marked(version, m, state, tries, retryable)
         IN /\ MarkIs(n) /\ n.version = version /\ n.state = state /\ n.retryable = retryable
            /\ n.retries = (IF m.version = version THEN m.retries ELSE 0)
<1> DEFINE k == Kept(version, m)
           y1 == [k EXCEPT !.state = state]
           y2 == [y1 EXCEPT !.attempts = tries]
           y3 == [y2 EXCEPT !.retryable = retryable]
           retries == IF m.version = version THEN m.retries ELSE 0
<1>1. MarkIs(k) /\ k.version = version /\ k.retries = retries
  BY KeptIs
<1> HIDE DEF k, retries
<1>2. MarkIs(y1) /\ y1.version = version /\ y1.retries = retries /\ y1.state = state
  BY <1>1 DEF MarkIs
<1>3. MarkIs(y2) /\ y2.version = version /\ y2.retries = retries /\ y2.state = state
  <2> HIDE DEF y1
  <2> QED BY <1>2 DEF MarkIs
<1>4. MarkIs(y3) /\ y3.version = version /\ y3.retries = retries /\ y3.state = state /\ y3.retryable = retryable
  <2> HIDE DEF y2
  <2> QED BY <1>3 DEF MarkIs
<1>5. Marked(version, m, state, tries, retryable) = y3
  BY DEF Marked, k
<1> HIDE DEF y3
<1> QED BY <1>4, <1>5 DEF retries

\* A mark that nobody may retry (queued or running).
LEMMA MarkedAtWork ==
  ASSUME NEW version, NEW m, MarkIs(m), NEW state, NEW tries
  PROVE  LET n == Marked(version, m, state, tries, FALSE)
         IN /\ MarkIs(n) /\ n.version = version /\ n.state = state /\ ~n.retryable
            /\ n.retries = (IF m.version = version THEN m.retries ELSE 0)
<1> DEFINE no == FALSE
<1>1. ~no
  OBVIOUS
<1> HIDE DEF no
<1>2. LET n == Marked(version, m, state, tries, no)
      IN /\ MarkIs(n) /\ n.version = version /\ n.state = state /\ ~n.retryable
         /\ n.retries = (IF m.version = version THEN m.retries ELSE 0)
  BY <1>1, MarkedIs
<1> QED BY <1>2 DEF no

LEMMA IdleIs ==
  ASSUME RunsOk, NEW r \in Runs
  PROVE  LET x == Idle(r) IN IsRun(x) /\ x.pc = "idle" /\ x.turn = runs[r].turn /\ x.try = 1 /\ ~x.again
<1> DEFINE n == runs[r].turn
           x == [NoRun EXCEPT !.turn = n]
<1>1. n \in Nat
  BY DEF RunsOk, IsRun
<1>2. IsRun(x) /\ x.pc = "idle" /\ x.turn = n /\ x.try = 1 /\ ~x.again
  <2> HIDE DEF n
  <2> QED BY <1>1, NoRunIs DEF IsRun
<1>3. Idle(r) = x
  BY DEF Idle
<1> HIDE DEF x
<1> QED BY <1>2, <1>3

LEMMA QcSets ==
  /\ Checkers \subseteq Runs /\ Workers \subseteq Runs /\ Owners \subseteq Runs /\ "asked" \notin Runs
  /\ QC_ATTEMPT_LIMIT \in Nat \ {0} /\ MAX_RETRIES \in Nat
  /\ \A r \in Checkers : (r \in Workers /\ r \notin Owners) \/ (r \in Owners /\ r \notin Workers)
BY TraceQcAssumption DEF Checkers

\* The source goes on, and keeps its reports until it is removed.
Onward ==
  /\ source'.version \in Versions /\ source'.version >= source.version
  /\ (source.deleted => source'.deleted) /\ (source.removed => source'.removed)
  /\ \A v \in DOMAIN reports : source'.removed \/ (v \in DOMAIN reports' /\ reports'[v] = reports[v])

LEMMA CheckStays ==
  ASSUME QcInv, Onward, NEW q \in Checkers, runs'[q] = runs[q],
         Authorized(q)' => Authorized(q) /\ (mark.state = "complete" /\ mark.version = source.version => mark'.state = "complete" /\ mark'.version = mark.version),
         runs[q].pc \in Open /\ Alone(q) => runs[q].key \notin done',
         runs[q].pc = "claim" /\ Alone(q) => Asked(q, runs[q].does[2]) \notin done'
  PROVE  CheckOk(q)'
<1>1. CheckOk(q) /\ source.version \in Nat /\ source'.version \in Nat
  BY DEF QcInv, QcShape, Versions, Onward
<1>2. runs[q].pc # "idle" => runs[q].does[2] <= source'.version /\ runs[q].does[2] \in Nat /\ (Current(q)' => Current(q))
  BY <1>1 DEF CheckOk, Onward, Versions, Current, Version
<1>3. runs[q].pc \notin {"idle", "claim"} /\ runs[q].base = <<"superseded">> => ~(Authorized(q)' /\ Current(q)')
  BY <1>1, <1>2 DEF CheckOk
<1>4. runs[q].pc \in {"seal", "upload", "confirm", "commit"} =>
       \/ runs[q].base = <<"new">>
       \/ runs[q].base = <<"cached">> /\ (source'.removed \/ runs[q].does[2] \in DOMAIN reports')
       \/ runs[q].base[1] = "reused" /\ (source'.removed \/ \E v \in DOMAIN reports' : reports'[v] = runs[q].base[2])
  BY <1>1 DEF CheckOk, Onward
<1>5. runs[q].pc = "done" /\ Authorized(q)' /\ Current(q)' =>
        \/ mark'.version = source'.version /\ mark'.state = "complete"
        \/ ~Alone(q) /\ (source'.removed \/ source'.version \in DOMAIN reports')
  <2> SUFFICES ASSUME runs[q].pc = "done", Authorized(q)', Current(q)', ~(~Alone(q) /\ (source'.removed \/ source'.version \in DOMAIN reports'))
               PROVE  mark'.version = source'.version /\ mark'.state = "complete"
    OBVIOUS
  <2>1. Authorized(q) /\ Current(q)
    BY <1>2
  <2>2. source'.version = source.version
    BY <1>1, <2>1 DEF Current, Version
  <2>3. mark.version = source.version /\ mark.state = "complete"
    BY <1>1, <2>1, <2>2 DEF CheckOk, Onward
  <2> QED BY <2>2, <2>3
<1> QED BY <1>1, <1>2, <1>3, <1>4, <1>5 DEF CheckOk, Onward

LEMMA ReplayedStays == ASSUME UNCHANGED <<source, job, reports>> PROVE Replayed' <=> Replayed
BY DEF Replayed, Repeated

\* Steps that move the runs and leave the checks' rows as they are.
LEMMA QcFrame ==
  ASSUME QcInv, Steady, OnlyRun, done' = done, \A q \in Workers : runs'[q].turn >= runs[q].turn, RunsOk',
         \A q \in Checkers : CheckOk(q)'
  PROVE  QcInv'
<1>1. QcShape' /\ RemovedOk' /\ Matches' /\ CountsOk'
  BY ReplayedStays DEF OnlyRun, QcInv, QcShape, RemovedOk, DeletedTracesKeepNoReports, Matches, Ready, CountsOk
<1>2. ReportsOk'
  BY DEF OnlyRun, QcInv, ReportsOk, Steady, OutStay, OutStayStored, Out
<1>3. DoneOk'
  <2>1. \A k, v : <<"asked", <<k, v>>>> \in done' => v \in DOMAIN reports' \/ source'.removed
    BY DEF OnlyRun, QcInv, DoneOk
  <2>2. \A r \in Workers, n \in Nat : <<r, n>> \in done' => n <= runs'[r].turn
    <3> TAKE r \in Workers, n \in Nat
    <3> HAVE <<r, n>> \in done'
    <3>1. n <= runs[r].turn
      BY DEF QcInv, DoneOk
    <3>2. runs[r].turn \in Nat /\ runs'[r].turn \in Nat
      BY QcSets DEF QcInv, StagedInv, RunsOk, IsRun
    <3> QED BY <3>1, <3>2
  <2> QED BY <2>1, <2>2 DEF DoneOk
<1> QED BY <1>1, <1>2, <1>3 DEF QcInv, Steady

LEMMA ChecksStay ==
  ASSUME QcInv, OnlyRun, done' = done, NEW r \in Checkers, NEW x, Moves(r, x)
  PROVE  \A q \in Checkers : q # r => CheckOk(q)'
<1> TAKE q \in Checkers
<1> HAVE q # r
<1>1. runs'[q] = runs[q] /\ CheckOk(q)
  BY Moved, QcSets DEF QcInv, StagedInv
<1>2. Onward
  BY DEF QcInv, QcShape, OnlyRun, Onward, Versions
<1>3. Authorized(q)' => Authorized(q)
  BY <1>1 DEF Authorized, OnlyRun, Version, Token
<1> QED BY <1>1, <1>2, <1>3, CheckStays DEF OnlyRun, CheckOk

\* A run of a check that goes on with what it checks.
Checks(r, x) ==
  /\ Moves(r, x) /\ x.turn = runs[r].turn /\ x.try = runs[r].try /\ x.key = runs[r].key /\ x.does = runs[r].does
  /\ x.again = runs[r].again
LEMMA CheckGoesOn ==
  ASSUME QcInv, OnlyRun, done' = done, Steady, NEW r \in Checkers, NEW x, Checks(r, x), runs[r].pc \notin {"idle", "claim"},
         x.pc \notin {"idle", "claim"}, x.pc \in Open => runs[r].pc \in Open,
         x.base = <<"superseded">> => runs[r].base = <<"superseded">> \/ ~(Authorized(r) /\ Current(r)),
         x.pc \in {"seal", "upload", "confirm", "commit"} =>
           \/ x.base = <<"new">>
           \/ x.base = <<"cached">> /\ (source.removed \/ x.does[2] \in DOMAIN reports)
           \/ x.base[1] = "reused" /\ (source.removed \/ \E v \in DOMAIN reports : reports[v] = x.base[2]),
         x.pc = "done" => ~Alone(r) /\ (source.removed \/ x.does[2] \in DOMAIN reports)
  PROVE  QcInv'
<1>1. RunsOk' /\ runs'[r] = x /\ \A q \in Runs : q # r => runs'[q] = runs[q]
  BY Moved, QcSets DEF QcInv, StagedInv, Checks
<1>2. CheckOk(r) /\ r \in Runs
  BY QcSets DEF QcInv
<1>3. (Authorized(r)' <=> Authorized(r)) /\ (Current(r)' <=> Current(r))
  BY <1>1 DEF Authorized, Current, Version, Token, OnlyRun, Checks
<1>4. CheckOk(r)'
  BY <1>1, <1>2, <1>3 DEF CheckOk, Checks, OnlyRun, Current, Version
<1>5. \A q \in Checkers : CheckOk(q)'
  BY <1>4, ChecksStay DEF Checks
<1>6. \A q \in Workers : runs'[q].turn >= runs[q].turn
  BY <1>1, QcSets DEF QcInv, StagedInv, RunsOk, IsRun, Checks
<1> QED BY <1>1, <1>5, <1>6, QcFrame

LEMMA StagedStepKeepsQc ==
  ASSUME QcInv, OnlyRun, NEW r \in Checkers, StagedStep(r)
  PROVE  QcInv'
<1>1. Steady /\ done' = done /\ r \in Runs /\ CheckOk(r)
  BY StagedStepMoves, QcSets DEF QcInv
<1>2. PICK x : /\ Moves(r, x) /\ x.turn = runs[r].turn /\ x.key = runs[r].key /\ x.does = runs[r].does
               /\ x.base = runs[r].base
               /\ \/ x.try = runs[r].try /\ x.again = runs[r].again
                  \/ x.pc = "reserve" /\ x.try = runs[r].try + 1 /\ runs[r].again
               /\ \/ runs[r].pc = "reserve" /\ x.pc = "done" /\ runs[r].key \in done
                  \/ runs[r].pc = "reserve" /\ x.pc \in {"failed", "prepare"}
                  \/ runs[r].pc = "seal" /\ x.pc = "upload"
                  \/ runs[r].pc = "upload" /\ x.pc \in {"confirm", "undo"}
                  \/ runs[r].pc = "confirm" /\ x.pc = "commit"
                  \/ runs[r].pc \in {"prepare", "seal", "commit"} /\ x.pc = "undo"
                  \/ runs[r].pc = "undo" /\ x.pc = "failed"
  BY <1>1, StagedStepMoves DEF QcInv, CheckOk
<1>3. Checks(r, x)
  BY <1>1, <1>2 DEF Checks, CheckOk
<1>4. x.pc = "done" => ~Alone(r) /\ (source.removed \/ x.does[2] \in DOMAIN reports)
  <2> SUFFICES ASSUME x.pc = "done" PROVE ~Alone(r) /\ (source.removed \/ x.does[2] \in DOMAIN reports)
    OBVIOUS
  <2>1. runs[r].pc = "reserve" /\ runs[r].key \in done
    BY <1>2
  <2>2. ~Alone(r) /\ r \in Owners
    BY <1>1, <2>1 DEF CheckOk, Open, Early, Alone
  <2>3. runs[r].key = <<"asked", <<KeyOf[r], runs[r].does[2]>>>>
    BY <1>1, <2>1, <2>2 DEF CheckOk, Asked
  <2> QED BY <1>2, <2>1, <2>2, <2>3 DEF QcInv, DoneOk
<1>5. runs[r].pc \notin {"idle", "claim"} /\ x.pc \notin {"idle", "claim"}
  BY <1>2
<1>6. x.pc \in Open => runs[r].pc \in Open
  BY <1>2 DEF Open, Early
<1>7. x.pc \in {"seal", "upload", "confirm", "commit"} => runs[r].pc \in {"seal", "upload", "confirm", "commit"}
  BY <1>2
<1> QED BY <1>1, <1>2, <1>3, <1>4, <1>5, <1>6, <1>7, CheckGoesOn DEF CheckOk

LEMMA BaseChecks ==
  ASSUME QcInv, NEW r \in Checkers, NEW base, NEW pc, Base(r, base, pc)
  PROVE  \E x : Checks(r, x) /\ x.pc = pc /\ x.base = base
<1>1. PICK x : Moves(r, x) /\ Same(r, x) /\ x.pc = pc /\ x.base = base /\ x.again = runs[r].again
  BY BaseMoves, QcSets DEF QcInv, StagedInv
<1> QED BY <1>1 DEF Checks, Same

LEMMA GoChecks ==
  ASSUME QcInv, NEW r \in Checkers, NEW pc, Go(r, pc)
  PROVE  \E x : Checks(r, x) /\ x.pc = pc /\ x.base = runs[r].base
<1>1. PICK x : Moves(r, x) /\ Same(r, x) /\ x.pc = pc /\ x.base = runs[r].base /\ x.again = runs[r].again
  BY GoMoves, QcSets DEF QcInv, StagedInv
<1> QED BY <1>1 DEF Checks, Same

LEMMA CheckMayMove ==
  ASSUME QcInv, NEW r \in Checkers, NEW x, Checks(r, x), UNCHANGED <<vault, attempts>>,
         \/ x.pc \notin Open
         \/ runs[r].pc = "look" /\ x.pc = "reserve"
         \/ runs[r].pc = "prepare" /\ x.pc = "seal" /\ x.base[1] \in {"new", "of"}
         \/ runs[r].pc = "prepare" /\ x.pc = "commit" /\ x.base[1] \notin {"new", "of"}
  PROVE  Steady
<1>1. MayMove(r, x) /\ Moves(r, x)
  BY DEF MayMove, Checks
<1> QED BY <1>1, QcSets, MoveIsSteady DEF QcInv

LEMMA LookAtSourceKeepsQc ==
  ASSUME QcInv, NEW r \in Checkers, LookAtSource(r)
  PROVE  QcInv'
<1>1. runs[r].pc = "look" /\ OnlyRun /\ UNCHANGED <<vault, attempts, done>> /\ CheckOk(r)
  BY DEF LookAtSource, At, OnlyQc, QcInv
<1>2. CASE Go(r, "reserve")
  <2>1. PICK x : Checks(r, x) /\ x.pc = "reserve" /\ x.base = runs[r].base
    BY <1>2, GoChecks
  <2>2. Steady
    BY <1>1, <2>1, CheckMayMove
  <2> QED BY <1>1, <2>1, <2>2, CheckGoesOn DEF Open, Early
<1>3. CASE ~(Current(r) /\ Authorized(r)) /\ Base(r, <<"superseded">>, "failed")
  <2>1. PICK x : Checks(r, x) /\ x.pc = "failed"
    BY <1>3, BaseChecks
  <2>2. Steady
    BY <1>1, <2>1, CheckMayMove DEF Open, Early
  <2> QED BY <1>1, <1>3, <2>1, <2>2, CheckGoesOn DEF Open, Early
<1> QED BY <1>2, <1>3 DEF LookAtSource

LEMMA PrepareKeepsQc ==
  ASSUME QcInv, NEW r \in Checkers, Prepare(r)
  PROVE  QcInv'
<1>1. runs[r].pc = "prepare" /\ OnlyRun /\ UNCHANGED <<vault, attempts, done>> /\ CheckOk(r)
  BY DEF Prepare, At, OnlyQc, QcInv
<1>2. CASE Version(r) \in DOMAIN reports /\ Base(r, <<"cached">>, "commit")
  <2>1. PICK x : Checks(r, x) /\ x.pc = "commit" /\ x.base = <<"cached">>
    BY <1>2, BaseChecks
  <2>2. Steady
    BY <1>1, <2>1, CheckMayMove
  <2>3. x.does[2] \in DOMAIN reports
    BY <1>2, <2>1 DEF Checks, Version
  <2> QED BY <1>1, <2>1, <2>2, <2>3, CheckGoesOn DEF Open, Early
<1>3. CASE ~Current(r) /\ Base(r, <<"superseded">>, "undo")
  <2>1. PICK x : Checks(r, x) /\ x.pc = "undo"
    BY <1>3, BaseChecks
  <2>2. Steady
    BY <1>1, <2>1, CheckMayMove DEF Open, Early
  <2> QED BY <1>1, <1>3, <2>1, <2>2, CheckGoesOn DEF Open, Early
<1>4. ASSUME NEW v \in Alike(r), Base(r, <<"reused", reports[v]>>, "commit") PROVE QcInv'
  <2> DEFINE base == <<"reused", reports[v]>>
  <2>1. base[1] = "reused" /\ base[2] = reports[v] /\ v \in DOMAIN reports /\ base # <<"superseded">>
    BY DEF Alike
  <2>2. PICK x : Checks(r, x) /\ x.pc = "commit" /\ x.base = base
    BY <1>4, BaseChecks
  <2> HIDE DEF base
  <2>3. Steady
    BY <1>1, <2>1, <2>2, CheckMayMove
  <2> QED BY <1>1, <2>1, <2>2, <2>3, CheckGoesOn DEF Open, Early
<1>5. CASE Base(r, <<"new">>, "seal")
  <2>1. PICK x : Checks(r, x) /\ x.pc = "seal" /\ x.base = <<"new">>
    BY <1>5, BaseChecks
  <2>2. Steady
    BY <1>1, <2>1, CheckMayMove
  <2> QED BY <1>1, <2>1, <2>2, CheckGoesOn DEF Open, Early
<1>6. CASE Base(r, <<Evaluation[ContentOf[Version(r)]]>>, "undo")
  <2> DEFINE base == <<Evaluation[ContentOf[Version(r)]]>>
  <2>1. base # <<"superseded">>
    BY <1>1, TraceQcAssumption DEF CheckOk, Version, Versions
  <2>2. PICK x : Checks(r, x) /\ x.pc = "undo" /\ x.base = base
    BY <1>6, BaseChecks
  <2> HIDE DEF base
  <2>3. Steady
    BY <1>1, <2>2, CheckMayMove DEF Open, Early
  <2> QED BY <1>1, <2>1, <2>2, <2>3, CheckGoesOn DEF Open, Early
<1> QED BY <1>2, <1>3, <1>4, <1>5, <1>6 DEF Prepare

LEMMA UpkeepKeepsQc ==
  ASSUME QcInv, OnlyRun, Cleanup \/ \E a \in DOMAIN attempts : Lapse(a)
  PROVE  QcInv'
<1>1. Steady /\ UNCHANGED <<done, runs>>
  BY UpkeepIsSteady DEF QcInv
<1>3. \A q \in Checkers : CheckOk(q)'
  BY <1>1 DEF QcInv, CheckOk, OnlyRun, Authorized, Current, Version, Token
<1> QED BY <1>1, <1>3, QcFrame, QcSets DEF QcInv, StagedInv, RunsOk, IsRun, Steady

\* A run that shares its key with no other request has a key of its own.
LEMMA KeysDiffer ==
  ASSUME QcInv, NEW r \in Checkers, runs[r].pc \notin {"idle", "claim"}, NEW q \in Checkers, q # r, Alone(q)
  PROVE  /\ runs[q].pc \notin {"idle", "claim"} => runs[q].key # runs[r].key
         /\ runs[q].pc = "claim" => Asked(q, runs[q].does[2]) # runs[r].key
<1>1. CheckOk(r) /\ CheckOk(q) /\ r # "asked" /\ q # "asked"
  BY QcSets DEF QcInv
<1>2. (r \in Workers /\ runs[r].key = <<r, runs[r].turn>>) \/ (r \in Owners /\ runs[r].key = <<"asked", <<KeyOf[r], runs[r].does[2]>>>>)
  BY <1>1, QcSets DEF CheckOk, Asked
<1>3. runs[q].pc \notin {"idle", "claim"} =>
        (q \in Workers /\ runs[q].key = <<q, runs[q].turn>>) \/ (q \in Owners /\ runs[q].key = <<"asked", <<KeyOf[q], runs[q].does[2]>>>>)
  BY <1>1, QcSets DEF CheckOk, Asked
<1>4. runs[q].pc = "claim" => q \in Owners
  BY <1>1, QcSets DEF CheckOk
<1>5. q \in Owners /\ r \in Owners => KeyOf[q] # KeyOf[r]
  BY DEF Alone, Repeated
<1> QED BY <1>1, <1>2, <1>3, <1>4, <1>5 DEF Asked

LEMMA PublishReportKeepsQc ==
  ASSUME QcInv, NEW r \in Checkers, runs[r].pc = "commit", Held(r), Authorized(r), Current(r), PublishReport(r)
  PROVE  QcInv'
<1> DEFINE v == runs[r].does[2]
           key == runs[r].key
<1>1. /\ CheckOk(r) /\ QcShape /\ v = source.version /\ job.version = v /\ mark.version = v /\ v \in Versions /\ v \in Nat \ {0}
      /\ ~source.deleted /\ ~source.removed /\ r \in Runs
  BY QcSets DEF QcInv, Authorized, Current, Version, QcShape, RemovedOk, Versions
<1>2. \/ runs[r].base = <<"new">>
      \/ runs[r].base = <<"cached">> /\ v \in DOMAIN reports
      \/ runs[r].base[1] = "reused" /\ runs[r].base # <<"new">> /\ \E w \in DOMAIN reports : reports[w] = runs[r].base[2]
  BY <1>1 DEF CheckOk
<1>3. UNCHANGED <<source, job, claimed>>
  BY DEF PublishReport
<1>4. PICK discarded \in BOOLEAN :
        /\ Publish(r, discarded)
        /\ \/ v \in DOMAIN reports /\ reports' = reports
           \/ v \notin DOMAIN reports /\ ~discarded /\ reports' = With(reports, v, Object(r))
  <2>1. CASE v \in DOMAIN reports
    <3> DEFINE discarded == runs[r].base = <<"new">>
    <3>1. discarded \in BOOLEAN /\ Publish(r, discarded) /\ reports' = reports
      BY <2>1 DEF PublishReport, Version
    <3> HIDE DEF discarded
    <3> QED BY <2>1, <3>1
  <2>2. CASE v \notin DOMAIN reports
    <3> DEFINE no == FALSE
    <3>1. no \in BOOLEAN /\ ~no /\ Publish(r, no) /\ reports' = With(reports, v, Object(r))
      BY <2>2 DEF PublishReport, Version
    <3> HIDE DEF no
    <3> QED BY <2>2, <3>1
  <2> QED BY <2>1, <2>2
<1>5. PICK o : o = Attempt(r)
  OBVIOUS
<1>6. /\ StagedInv' /\ OutStay /\ OutStayStored /\ vault' = vault
      /\ ~discarded /\ Sealed(r) => o \in vault /\ Out(o)'
      /\ \E x : Moves(r, x) /\ Same(r, x) /\ x.pc \in {"done", "undo"} /\ x.base = runs[r].base /\ x.again = runs[r].again
  BY <1>1, <1>4, <1>5, PublishIs DEF QcInv
<1>7. PICK x : Moves(r, x) /\ Same(r, x) /\ x.pc \in {"done", "undo"} /\ x.base = runs[r].base /\ x.again = runs[r].again
  BY <1>6
<1>8. RunsOk' /\ runs'[r] = x /\ \A q \in Runs : q # r => runs'[q] = runs[q]
  BY <1>1, <1>7, Moved DEF QcInv, StagedInv
<1>9. /\ v \in DOMAIN reports' /\ \A w \in DOMAIN reports : w \in DOMAIN reports' /\ reports'[w] = reports[w]
      /\ \A w \in DOMAIN reports' : w \in DOMAIN reports \/ (w = v /\ v \notin DOMAIN reports /\ ~discarded /\ reports'[w] = Object(r))
  <2>1. CASE v \in DOMAIN reports /\ reports' = reports
    BY <2>1
  <2>2. CASE v \notin DOMAIN reports /\ ~discarded /\ reports' = With(reports, v, Object(r))
    <3>1. PICK y : y = Object(r)
      OBVIOUS
    <3> DEFINE g == With(reports, v, y)
    <3>2. DOMAIN g = DOMAIN reports \cup {v} /\ g[v] = y /\ \A z \in DOMAIN reports : g[z] = reports[z]
      <4> HIDE DEF v
      <4> QED BY <2>2 DEF With
    <3>3. reports' = g
      BY <2>2, <3>1
    <3> HIDE DEF g
    <3> QED BY <2>2, <3>1, <3>2, <3>3
  <2> QED BY <1>4, <2>1, <2>2
<1>10. ReportsOk'
  <2>1. \A w \in DOMAIN reports : \A b : b = reports[w] => b \in vault /\ Out(b)'
    BY <1>6 DEF QcInv, ReportsOk, OutStay, Out
  <2>2. v \notin DOMAIN reports /\ ~discarded => \A b : b = Object(r) => b \in vault /\ Out(b)'
    <3> SUFFICES ASSUME v \notin DOMAIN reports, ~discarded, NEW b, b = Object(r) PROVE b \in vault /\ Out(b)'
      OBVIOUS
    <3>1. CASE runs[r].base = <<"new">>
      <4>1. Sealed(r) /\ b = o
        BY <1>5, <3>1 DEF Sealed, Object
      <4> QED BY <1>6, <4>1
    <3>2. CASE runs[r].base # <<"new">>
      BY <1>2, <2>1, <3>2 DEF Object
    <3> QED BY <3>1, <3>2
  <2>3. SUFFICES ASSUME NEW w \in DOMAIN reports' PROVE reports'[w] \in vault' /\ Out(reports[w])'
    BY DEF ReportsOk
  <2>4. PICK b : b = reports'[w]
    OBVIOUS
  <2>5. b \in vault /\ Out(b)'
    <3>1. CASE w \in DOMAIN reports
      BY <1>9, <2>1, <2>4, <3>1
    <3>2. CASE w \notin DOMAIN reports
      BY <1>9, <2>2, <2>4, <3>2
    <3> QED BY <3>1, <3>2
  <2> QED BY <1>6, <2>4, <2>5
<1>11. MarkIs(mark') /\ mark'.version = v /\ mark'.retries = mark.retries /\ mark'.state = "complete" /\ ~mark'.retryable
  <2> DEFINE k == Kept(v, mark)
             no == FALSE
             y1 == [k EXCEPT !.state = "complete"]
             y2 == [y1 EXCEPT !.retryable = no]
  <2>1. MarkIs(mark)
    BY <1>1 DEF QcShape, MarkIs
  <2>2. MarkIs(k) /\ k.version = v /\ k.retries = mark.retries
    BY <1>1, <2>1, KeptIs
  <2>3. mark' = y2
    BY DEF PublishReport, Version
  <2>4. ~no
    OBVIOUS
  <2> HIDE DEF k, no
  <2>5. MarkIs(y1) /\ y1.version = v /\ y1.retries = mark.retries /\ y1.state = "complete"
    BY <2>2 DEF MarkIs
  <2>6. MarkIs(y2) /\ y2.version = v /\ y2.retries = mark.retries /\ y2.state = "complete" /\ ~y2.retryable
    <3> HIDE DEF y1
    <3> QED BY <2>4, <2>5 DEF MarkIs
  <2> HIDE DEF y2
  <2> QED BY <2>3, <2>6
<1>12. QcShape' /\ RemovedOk' /\ CountsOk'
  <2>1. QcShape'
    BY <1>1, <1>3, <1>11 DEF QcShape, MarkIs
  <2>2. RemovedOk'
    BY <1>1, <1>3 DEF RemovedOk, DeletedTracesKeepNoReports
  <2>3. CountsOk'
    BY <1>1, <1>3, <1>11 DEF QcInv, CountsOk
  <2> QED BY <2>1, <2>2, <2>3
<1>13. Matches'
  BY <1>1, <1>3, <1>9, <1>11 DEF Matches
<1>14. done' = done \cup {key}
  BY <1>4 DEF Publish
<1>15. DoneOk'
  <2>1. \A k, w : <<"asked", <<k, w>>>> \in done' => w \in DOMAIN reports' \/ source'.removed
    <3> SUFFICES ASSUME NEW k, NEW w, <<"asked", <<k, w>>>> \in done' PROVE w \in DOMAIN reports' \/ source'.removed
      OBVIOUS
    <3>1. CASE <<"asked", <<k, w>>>> \in done
      BY <1>3, <1>9, <3>1 DEF QcInv, DoneOk
    <3>2. CASE <<"asked", <<k, w>>>> = key
      BY <1>1, <1>9, <3>2, QcSets DEF CheckOk, Asked
    <3> QED BY <1>14, <3>1, <3>2
  <2>2. \A q \in Workers, n \in Nat : <<q, n>> \in done' => n <= runs'[q].turn
    <3> SUFFICES ASSUME NEW q \in Workers, NEW n \in Nat, <<q, n>> \in done' PROVE n <= runs'[q].turn
      OBVIOUS
    <3>1. runs'[q].turn = runs[q].turn /\ runs[q].turn \in Nat
      BY <1>7, <1>8, QcSets DEF Same, QcInv, StagedInv, RunsOk, IsRun
    <3>2. CASE <<q, n>> \in done
      BY <3>1, <3>2 DEF QcInv, DoneOk
    <3>3. CASE <<q, n>> = key
      BY <1>1, <3>1, <3>3, QcSets DEF CheckOk, Asked
    <3> QED BY <1>14, <3>2, <3>3
  <2> QED BY <2>1, <2>2 DEF DoneOk
<1>16. \A q \in Checkers : CheckOk(q)'
  <2> SUFFICES ASSUME NEW q \in Checkers PROVE CheckOk(q)'
    OBVIOUS
  <2>1. CASE q # r
    <3>1. runs'[q] = runs[q] /\ CheckOk(q)
      BY <1>8, <2>1, QcSets DEF QcInv
    <3>2. Onward
      BY <1>1, <1>3, <1>9 DEF Onward, QcInv, QcShape, Versions
    <3>3. Authorized(q)' => Authorized(q)
      BY <1>3, <3>1 DEF Authorized, Version, Token
    <3>4. (runs[q].pc \in Open /\ Alone(q) => runs[q].key # key) /\ (runs[q].pc = "claim" /\ Alone(q) => Asked(q, runs[q].does[2]) # key)
      BY <2>1, KeysDiffer DEF Open, Early
    <3>5. (runs[q].pc \in Open /\ Alone(q) => runs[q].key \notin done') /\ (runs[q].pc = "claim" /\ Alone(q) => Asked(q, runs[q].does[2]) \notin done')
      BY <1>14, <3>1, <3>4 DEF CheckOk
    <3> QED BY <1>1, <1>11, <3>1, <3>2, <3>3, <3>5, CheckStays
  <2>2. CASE q = r
    <3>1. runs'[r].try = 1 /\ ~runs'[r].again /\ runs'[r].pc \in {"done", "undo"} /\ runs'[r].base = runs[r].base
          /\ runs'[r].does = runs[r].does /\ runs'[r].key = runs[r].key /\ runs'[r].turn = runs[r].turn
      BY <1>1, <1>7, <1>8 DEF Same, CheckOk
    <3>2. runs[r].base # <<"superseded">>
      BY <1>1 DEF CheckOk
    <3> QED BY <1>1, <1>3, <1>11, <2>2, <3>1, <3>2 DEF CheckOk, Open, Early
  <2> QED BY <2>1, <2>2
<1> QED BY <1>6, <1>10, <1>12, <1>13, <1>15, <1>16 DEF QcInv

\* What the other steps have in common: they publish no command and no report.
LEMMA QcRows ==
  ASSUME QcInv, StagedInv', OutStay, (reports' = reports /\ OutStayStored) \/ DOMAIN reports' = {}, Onward, done' = done,
         \A q \in Workers : runs'[q].turn >= runs[q].turn,
         QcShape', RemovedOk', Matches', CountsOk', \A q \in Checkers : CheckOk(q)'
  PROVE  QcInv'
<1>1. ReportsOk'
  <2> SUFFICES ASSUME NEW v \in DOMAIN reports', NEW b, b = reports'[v] PROVE b \in vault' /\ Out(b)'
    BY DEF ReportsOk
  <2>1. reports' = reports /\ OutStayStored
    OBVIOUS
  <2>2. b \in vault /\ Out(b)
    BY <2>1 DEF QcInv, ReportsOk
  <2> QED BY <2>1, <2>2 DEF OutStay, OutStayStored, Out
<1>2. DoneOk'
  <2>1. \A k, v : <<"asked", <<k, v>>>> \in done' => v \in DOMAIN reports' \/ source'.removed
    BY DEF QcInv, DoneOk, Onward
  <2>2. \A r \in Workers, n \in Nat : <<r, n>> \in done' => n <= runs'[r].turn
    <3> TAKE r \in Workers, n \in Nat
    <3> HAVE <<r, n>> \in done'
    <3>1. n <= runs[r].turn
      BY DEF QcInv, DoneOk
    <3>2. runs[r].turn \in Nat /\ runs'[r].turn \in Nat
      BY QcSets DEF QcInv, StagedInv, RunsOk, IsRun
    <3> QED BY <3>1, <3>2
  <2> QED BY <2>1, <2>2 DEF DoneOk
<1> QED BY <1>1, <1>2 DEF QcInv

\* The rows change, and no run moves: no check becomes authorized, and none that is loses its mark.
Unsettled == mark.state = "complete" /\ mark.version = source.version => mark'.state = "complete" /\ mark'.version = mark.version
LEMMA RowsKeepQc ==
  ASSUME QcInv, UNCHANGED <<attempts, done, runs>>,
         (reports' = reports /\ vault' = vault) \/ (DOMAIN reports' = {} /\ vault' \subseteq vault /\ \A a \in vault \ vault' : Out(a)),
         Onward, \A q \in Checkers : Authorized(q)' => Authorized(q) /\ Unsettled,
         QcShape', RemovedOk', Matches', CountsOk'
  PROVE  QcInv'
<1>1. StagedInv' /\ OutStay
  BY RemovalIsCalm DEF QcInv
<1>2. (reports' = reports /\ OutStayStored) \/ DOMAIN reports' = {}
  BY DEF OutStayStored
<1>3. \A q \in Checkers : CheckOk(q)'
  <2> TAKE q \in Checkers
  <2>1. runs'[q] = runs[q] /\ CheckOk(q)
    BY DEF QcInv
  <2>2. Authorized(q)' => Authorized(q) /\ Unsettled
    OBVIOUS
  <2>3. (runs[q].pc \in Open /\ Alone(q) => runs[q].key \notin done') /\ (runs[q].pc = "claim" /\ Alone(q) => Asked(q, runs[q].does[2]) \notin done')
    BY <2>1 DEF CheckOk
  <2> QED BY <2>1, <2>2, <2>3, CheckStays DEF Unsettled
<1>4. \A q \in Workers : runs'[q].turn >= runs[q].turn
  BY QcSets DEF QcInv, StagedInv, RunsOk, IsRun
<1> QED BY <1>1, <1>2, <1>3, <1>4, QcRows

\* One run moves, to where it holds no attempt or has just begun.
LEMMA RunKeepsQc ==
  ASSUME QcInv, UNCHANGED <<vault, attempts, done, source, reports>>, NEW r \in Checkers, NEW x, Moves(r, x), MayMove(r, x),
         \A q \in Checkers : q # r => (Authorized(q)' => Authorized(q) /\ Unsettled),
         CheckOk(r)', QcShape', RemovedOk', Matches', CountsOk'
  PROVE  QcInv'
<1>1. Steady /\ RunsOk' /\ runs'[r] = x /\ \A q \in Runs : q # r => runs'[q] = runs[q]
  BY MoveIsSteady, Moved, QcSets DEF QcInv, StagedInv
<1>2. Onward
  BY DEF QcInv, QcShape, Onward, Versions
<1>3. \A q \in Checkers : CheckOk(q)'
  <2> SUFFICES ASSUME NEW q \in Checkers, q # r PROVE CheckOk(q)'
    OBVIOUS
  <2>1. runs'[q] = runs[q] /\ CheckOk(q)
    BY <1>1, QcSets DEF QcInv
  <2>2. Authorized(q)' => Authorized(q) /\ Unsettled
    OBVIOUS
  <2>3. (runs[q].pc \in Open /\ Alone(q) => runs[q].key \notin done') /\ (runs[q].pc = "claim" /\ Alone(q) => Asked(q, runs[q].does[2]) \notin done')
    BY <2>1 DEF CheckOk
  <2> QED BY <1>2, <2>1, <2>2, <2>3, CheckStays DEF Unsettled
<1>4. \A q \in Workers : runs'[q].turn >= runs[q].turn
  <2> TAKE q \in Workers
  <2>1. runs[q].turn \in Nat /\ runs'[q].turn \in Nat
    BY <1>1, QcSets DEF QcInv, StagedInv, RunsOk, IsRun
  <2>2. x.turn >= runs[r].turn
    <3>1. x.turn \in Nat /\ runs[r].turn \in Nat
      BY QcSets DEF Moves, QcInv, StagedInv, RunsOk, IsRun
    <3> QED BY <3>1 DEF MayMove
  <2> QED BY <1>1, <2>1, <2>2, QcSets
<1> QED BY <1>1, <1>2, <1>3, <1>4, QcRows DEF Steady

LEMMA CommitKeepsQc ==
  ASSUME QcInv, NEW r \in Checkers, Commit(r)
  PROVE  QcInv'
<1>1. CASE Authorized(r) /\ Current(r)
  BY <1>1, PublishReportKeepsQc DEF Commit, At
<1>2. CASE ~(Authorized(r) /\ Current(r))
  <2>1. runs[r].pc = "commit" /\ OnlyRun /\ UNCHANGED <<vault, attempts, done>> /\ Base(r, <<"superseded">>, "undo")
    BY <1>2 DEF Commit, At, OnlyQc
  <2>2. PICK x : Checks(r, x) /\ x.pc = "undo"
    BY <2>1, BaseChecks
  <2>3. Steady
    BY <2>1, <2>2, CheckMayMove DEF Open, Early
  <2> QED BY <1>2, <2>1, <2>2, <2>3, CheckGoesOn DEF Open, Early
<1> QED BY <1>1, <1>2

\* A run that rests again; what it leaves of the rows is the step's.
LEMMA RestKeepsQc ==
  ASSUME QcInv, UNCHANGED <<vault, attempts, done, source, reports>>, NEW r \in Checkers,
         runs' = [runs EXCEPT ![r] = Idle(r)],
         \A q \in Checkers : q # r => (Authorized(q)' => Authorized(q) /\ Unsettled),
         QcShape', RemovedOk', Matches', CountsOk'
  PROVE  QcInv'
<1>1. PICK x : x = Idle(r)
  OBVIOUS
<1>2. IsRun(x) /\ x.pc = "idle" /\ x.turn = runs[r].turn /\ x.try = 1 /\ ~x.again /\ r \in Runs
  BY <1>1, IdleIs, QcSets DEF QcInv, StagedInv
<1>3. Moves(r, x)
  BY <1>1, <1>2 DEF Moves
<1>4. runs'[r] = x
  BY <1>2, <1>3, Moved DEF QcInv, StagedInv
<1>5. MayMove(r, x)
  BY <1>2 DEF MayMove, Open, Early, QcInv, CheckOk
<1>6. CheckOk(r)'
  BY <1>2, <1>4 DEF CheckOk, Open, Early
<1> QED BY <1>3, <1>5, <1>6, RunKeepsQc

LEMMA SameRows ==
  ASSUME QcInv, UNCHANGED <<source, mark, job, reports, claimed>>
  PROVE  QcShape' /\ RemovedOk' /\ Matches' /\ CountsOk'
BY ReplayedStays DEF QcInv, QcShape, RemovedOk, DeletedTracesKeepNoReports, Matches, Ready, CountsOk

LEMMA CheckCrashKeepsQc ==
  ASSUME QcInv, NEW r \in Checkers, CheckCrash(r)
  PROVE  QcInv'
<1>1. UNCHANGED <<vault, attempts, done, source, mark, job, reports, claimed>> /\ runs' = [runs EXCEPT ![r] = Idle(r)]
  BY DEF CheckCrash, OnlyRun
<1>2. \A q \in Checkers : q # r => (Authorized(q)' => Authorized(q) /\ Unsettled)
  <2> SUFFICES ASSUME NEW q \in Checkers, q # r, Authorized(q)' PROVE Authorized(q) /\ Unsettled
    OBVIOUS
  <2>1. runs'[q] = runs[q]
    BY <1>1, QcSets DEF QcInv, StagedInv, RunsOk
  <2> QED BY <1>1, <2>1 DEF Authorized, Version, Token, Unsettled
<1> QED BY <1>1, <1>2, SameRows, RestKeepsQc

LEMMA DoneJob ==
  ASSUME QcInv, NEW j, JobIs(j), j.version = job.version, j.attempts = job.attempts, j.status \in {"done", "failed", "pending"},
         j.status = "pending" => j.attempts < QC_ATTEMPT_LIMIT, ~source.removed,
         job' = j, UNCHANGED <<source, reports, claimed>>,
         MarkIs(mark'), mark'.version = mark.version, mark'.retries = mark.retries, mark'.retryable => mark.retries < MAX_RETRIES
  PROVE  QcShape' /\ RemovedOk' /\ CountsOk' /\ \A q \in Checkers : ~Authorized(q)'
<1>1. QcShape'
  BY DEF QcInv, QcShape, JobIs, MarkIs
<1>2. RemovedOk'
  BY DEF QcInv, RemovedOk, DeletedTracesKeepNoReports
<1>3. CountsOk'
  BY DEF QcInv, CountsOk
<1>4. \A q \in Checkers : ~Authorized(q)'
  BY DEF Authorized
<1> QED BY <1>1, <1>2, <1>3, <1>4

LEMMA AuthorizedIs ==
  ASSUME QcInv, NEW r \in Checkers, runs[r].pc # "idle", Authorized(r)
  PROVE  job.version = Version(r) /\ mark.version = job.version /\ Version(r) \in Versions /\ job.status = "processing" /\ ~source.removed
BY NoJobIs DEF QcInv, Authorized, QcShape, CheckOk, Version, RemovedOk, DeletedTracesKeepNoReports

LEMMA FinishKeepsQc ==
  ASSUME QcInv, NEW r \in Checkers, Finish(r)
  PROVE  QcInv'
<1>1. runs[r].pc = "done" /\ UNCHANGED <<vault, attempts, done, source, mark, reports, claimed>> /\ CheckOk(r)
  BY DEF Finish, At, OnlyQc, QcInv
<1>2. CASE Authorized(r) /\ job' = [job EXCEPT !.status = "done"] /\ runs' = [runs EXCEPT ![r] = Idle(r)]
  <2>1. PICK j : j = [job EXCEPT !.status = "done"]
    OBVIOUS
  <2>2. JobIs(j) /\ j.version = job.version /\ j.status = "done" /\ j.attempts = job.attempts
    BY <2>1, StatusEdit DEF QcInv, QcShape, JobIs
  <2>3. job.version = Version(r) /\ mark.version = job.version /\ job.status = "processing" /\ ~source.removed
    BY <1>1, <1>2, AuthorizedIs
  <2>4. MarkIs(mark') /\ (mark.retryable => mark.retries < MAX_RETRIES)
    BY <1>1 DEF QcInv, QcShape, MarkIs
  <2>5. QcShape' /\ RemovedOk' /\ CountsOk' /\ \A q \in Checkers : ~Authorized(q)'
    BY <1>1, <1>2, <2>1, <2>2, <2>3, <2>4, DoneJob
  <2>6. Matches'
    <3> SUFFICES ASSUME Ready(source), mark.version = source.version, ~(mark.state = "complete")
                 PROVE  mark.state \notin {"queued", "failed"} /\ Replayed'
      BY <1>1 DEF QcInv, Matches, Ready
    <3>1. ~Alone(r) /\ source.version \in DOMAIN reports
      BY <1>1, <1>2, <2>3 DEF CheckOk, Ready, Current
    <3>2. r \in Owners /\ Repeated(r)
      BY <3>1 DEF Alone
    <3>3. job'.token[1] = r
      BY <1>2, <2>1, StatusEdit DEF Authorized, Token, QcInv, QcShape, JobIs
    <3>4. Replayed'
      BY <1>1, <1>2, <2>1, <2>2, <3>1, <3>2, <3>3 DEF Replayed, Repeated
    <3> QED BY <3>4, <2>3 DEF QcInv, Matches
  <2> QED BY <1>1, <1>2, <2>5, <2>6, RestKeepsQc
<1>3. CASE ~(Authorized(r) /\ Current(r)) /\ Base(r, <<"superseded">>, "failed") /\ UNCHANGED job
  <2>1. PICK x : Checks(r, x) /\ x.pc = "failed"
    BY <1>3, BaseChecks
  <2>2. Steady
    BY <1>1, <2>1, CheckMayMove DEF Open, Early
  <2> QED BY <1>1, <1>3, <2>1, <2>2, CheckGoesOn DEF Open, Early, OnlyRun
<1> QED BY <1>2, <1>3 DEF Finish

LEMMA FailKeepsQc ==
  ASSUME QcInv, NEW r \in Checkers, Fail(r)
  PROVE  QcInv'
<1> DEFINE over == job.attempts >= QC_ATTEMPT_LIMIT \/ runs[r].base = <<"limit">>
           v == Version(r)
<1>1. runs[r].pc = "failed" /\ UNCHANGED <<vault, attempts, done, source, reports, claimed>> /\ CheckOk(r)
      /\ runs' = [runs EXCEPT ![r] = Idle(r)]
  BY DEF Fail, At, OnlyQc, QcInv
<1>2. CASE ~Authorized(r) /\ UNCHANGED <<job, mark>>
  <2>1. \A q \in Checkers : q # r => (Authorized(q)' => Authorized(q) /\ Unsettled)
    <3> SUFFICES ASSUME NEW q \in Checkers, q # r, Authorized(q)' PROVE Authorized(q) /\ Unsettled
      OBVIOUS
    <3>1. runs'[q] = runs[q]
      BY <1>1, QcSets DEF QcInv, StagedInv, RunsOk
    <3> QED BY <1>2, <3>1 DEF Authorized, Version, Token, Unsettled
  <2> QED BY <1>1, <1>2, <2>1, SameRows, RestKeepsQc
<1>3. ASSUME Authorized(r), NEW s \in {"done", "failed", "pending"}, job' = [job EXCEPT !.status = s],
             s = "pending" => job.attempts < QC_ATTEMPT_LIMIT,
             MarkIs(mark'), mark'.version = mark.version, mark'.retries = mark.retries, mark'.retryable => mark.retries < MAX_RETRIES,
             Matches'
      PROVE  QcInv'
  <2>1. PICK j : j = [job EXCEPT !.status = s]
    OBVIOUS
  <2>2. JobIs(j) /\ j.version = job.version /\ j.status = s /\ j.attempts = job.attempts
    BY <2>1, StatusEdit DEF QcInv, QcShape, JobIs
  <2>3. ~source.removed
    BY <1>1, <1>3, AuthorizedIs
  <2>4. QcShape' /\ RemovedOk' /\ CountsOk' /\ \A q \in Checkers : ~Authorized(q)'
    BY <1>1, <1>3, <2>1, <2>2, <2>3, DoneJob
  <2> QED BY <1>1, <1>3, <2>4, RestKeepsQc
<1>4. MarkIs(mark) /\ (mark.retryable => mark.retries < MAX_RETRIES) /\ QcShape
  BY DEF QcInv, QcShape, MarkIs
<1>5. CASE Authorized(r) /\ (runs[r].base = <<"superseded">> \/ ~(Current(r) /\ Ready(source)))
           /\ job' = [job EXCEPT !.status = "done"] /\ UNCHANGED mark
  <2>1. job.version = v /\ mark.version = job.version
    BY <1>1, <1>5, AuthorizedIs
  <2>2. ~(Ready(source) /\ mark.version = source.version)
    BY <1>1, <1>5, <2>1 DEF CheckOk, Ready, Current
  <2>3. Matches'
    BY <1>1, <1>5, <2>2 DEF Matches, Ready
  <2> QED BY <1>3, <1>4, <1>5, <2>3
<1>6. CASE /\ Authorized(r)
           /\ job' = [job EXCEPT !.status = IF over THEN "failed" ELSE "pending"]
           /\ mark' = Marked(v, mark, IF over THEN "failed" ELSE "queued", job.attempts,
                             over /\ runs[r].base # <<"limit">> /\ Kept(v, mark).retries < MAX_RETRIES)
  <2>1. job.version = v /\ mark.version = v /\ v \in Versions
    BY <1>1, <1>6, AuthorizedIs
  <2>2. PICK s \in {"failed", "pending"}, t \in {"failed", "queued"} :
           s = (IF over THEN "failed" ELSE "pending") /\ t = (IF over THEN "failed" ELSE "queued")
    OBVIOUS
  <2>3. PICK again \in BOOLEAN : again = (over /\ runs[r].base # <<"limit">> /\ Kept(v, mark).retries < MAX_RETRIES)
    OBVIOUS
  <2>4. Kept(v, mark).retries = mark.retries
    BY <1>4, <2>1, KeptIs
  <2>5. again => mark.retries < MAX_RETRIES
    BY <2>3, <2>4
  <2>6. job' = [job EXCEPT !.status = s] /\ mark' = Marked(v, mark, t, job.attempts, again)
    BY <1>6, <2>2, <2>3
  <2>7. s = "pending" => job.attempts < QC_ATTEMPT_LIMIT
    BY <1>4, <2>2, QcSets DEF QcShape
  <2>8. MarkIs(mark') /\ mark'.version = v /\ mark'.state = t /\ mark'.retryable = again /\ mark'.retries = mark.retries
    <3> HIDE DEF v
    <3> QED BY <1>4, <2>1, <2>6, MarkedIs
  <2>9. job'.status = s
    BY <1>4, <2>6, StatusEdit DEF QcShape, JobIs
  <2>10. Matches'
    BY <2>2, <2>8, <2>9 DEF Matches
  <2> QED BY <1>3, <1>6, <2>1, <2>5, <2>6, <2>7, <2>8, <2>10
<1> QED BY <1>2, <1>5, <1>6 DEF Fail

\* What the leases that ran out leave of the job and of the mark.
LEMMA AfterIs ==
  ASSUME QcInv, NEW j, j = JobAfter, NEW m, m = MarkAfter
  PROVE  /\ JobIs(j) /\ j.version = job.version /\ j.attempts = job.attempts /\ (j.status = "pending" => j.attempts < QC_ATTEMPT_LIMIT)
         /\ j = job \/ j.status \in {"done", "failed", "pending"}
         /\ MarkIs(m) /\ m.version = mark.version /\ m.retries = mark.retries /\ (m.retryable => m.retries < MAX_RETRIES)
         /\ mark.state = "complete" /\ mark.version = source.version => m = mark
         /\ Ready(source) /\ m.version = source.version =>
              /\ m.state = "queued" => j.status = "pending"
              /\ m.state = "running" => j.status = "processing" \/ (j = job /\ Replayed)
              /\ m.state = "failed" => j.status = "failed"
              /\ m.state = "complete" => source.version \in DOMAIN reports
         /\ source.removed => j = job /\ m = mark
<1>1. QcShape /\ JobIs(job) /\ MarkIs(mark) /\ Matches /\ RemovedOk /\ job.attempts \in 0..QC_ATTEMPT_LIMIT
  BY DEF QcInv, QcShape, JobIs, MarkIs
<1>2. source.removed => ~Expired
  BY <1>1, NoJobIs DEF Expired, RemovedOk, DeletedTracesKeepNoReports
<1>3. CASE ~Expired
  <2>1. j = job /\ m = mark
    BY <1>3 DEF JobAfter, MarkAfter
  <2> QED BY <1>1, <2>1 DEF QcShape, Matches
<1>4. CASE Expired /\ State(source, mark) = "complete"
  <2>1. j = [job EXCEPT !.status = "done"] /\ m = mark
    BY <1>4 DEF JobAfter, MarkAfter
  <2>2. JobIs(j) /\ j.version = job.version /\ j.status = "done" /\ j.attempts = job.attempts
    BY <1>1, <2>1, StatusEdit
  <2>3. Ready(source) /\ mark.version = source.version => mark.state = "complete"
    BY <1>4 DEF State
  <2> QED BY <1>1, <1>2, <1>4, <2>1, <2>2, <2>3 DEF QcShape, Matches
<1>5. CASE Expired /\ State(source, mark) # "complete"
  <2> DEFINE over == job.attempts >= QC_ATTEMPT_LIMIT
  <2>1. PICK s \in {"failed", "pending"}, t \in {"failed", "queued"} :
           s = (IF over THEN "failed" ELSE "pending") /\ t = (IF over THEN "failed" ELSE "queued")
    OBVIOUS
  <2>2. j = [job EXCEPT !.status = s]
    BY <1>5, <2>1 DEF JobAfter
  <2>3. JobIs(j) /\ j.version = job.version /\ j.status = s /\ j.attempts = job.attempts
    BY <1>1, <2>2, StatusEdit
  <2>4. s = "pending" => job.attempts < QC_ATTEMPT_LIMIT
    BY <1>1, <2>1, QcSets
  <2>5. ~(mark.state = "complete" /\ mark.version = source.version)
    BY <1>5 DEF State
  <2>6. CASE Ready(source) /\ job.version = source.version
    <3>1. PICK again \in BOOLEAN : again = (over /\ Kept(job.version, mark).retries < MAX_RETRIES)
      OBVIOUS
    <3>2. Kept(job.version, mark).retries = mark.retries
      BY <1>1, KeptIs DEF QcShape
    <3>3. m = Marked(job.version, mark, t, job.attempts, again)
      BY <1>5, <2>1, <2>6, <3>1 DEF MarkAfter
    <3>4. MarkIs(m) /\ m.version = mark.version /\ m.state = t /\ m.retryable = again /\ m.retries = mark.retries
      BY <1>1, <3>3, MarkedIs DEF QcShape
    <3> QED BY <1>2, <1>5, <2>1, <2>3, <2>4, <2>5, <3>1, <3>2, <3>4
  <2>7. CASE ~(Ready(source) /\ job.version = source.version)
    <3>1. m = mark
      BY <1>5, <2>7 DEF MarkAfter
    <3> QED BY <1>1, <1>2, <1>5, <2>3, <2>4, <2>7, <3>1 DEF QcShape
  <2> QED BY <2>6, <2>7
<1> QED BY <1>3, <1>4, <1>5

LEMMA LimitProduct ==
  ASSUME NEW n \in 0..MAX_RETRIES, NEW k \in 0..QC_ATTEMPT_LIMIT
  PROVE  /\ QC_ATTEMPT_LIMIT * n \in Int /\ QC_ATTEMPT_LIMIT * (n + 1) = QC_ATTEMPT_LIMIT * n + QC_ATTEMPT_LIMIT
         /\ QC_ATTEMPT_LIMIT * n + k <= QC_ATTEMPT_LIMIT * (MAX_RETRIES + 1)
<1>1. QC_ATTEMPT_LIMIT \in Nat /\ MAX_RETRIES \in Nat /\ n \in Nat /\ k \in Nat /\ k <= QC_ATTEMPT_LIMIT
  BY QcSets
<1>2. QC_ATTEMPT_LIMIT * n \in Int /\ QC_ATTEMPT_LIMIT * (n + 1) = QC_ATTEMPT_LIMIT * n + QC_ATTEMPT_LIMIT
  BY <1>1
<1>3. PICK d \in Nat : MAX_RETRIES + 1 = (n + 1) + d
  <2>1. MAX_RETRIES - n \in Nat /\ MAX_RETRIES + 1 = (n + 1) + (MAX_RETRIES - n)
    BY <1>1
  <2> QED BY <2>1
<1>4. QC_ATTEMPT_LIMIT * (MAX_RETRIES + 1) = QC_ATTEMPT_LIMIT * (n + 1) + QC_ATTEMPT_LIMIT * d
  BY <1>1, <1>3
<1>5. QC_ATTEMPT_LIMIT * d \in Nat
  BY <1>1
<1> QED BY <1>1, <1>2, <1>4, <1>5

\* claim: the job that leases and attempts leave, or nothing.
LEMMA ClaimKeepsQc ==
  ASSUME QcInv, NEW r \in Checkers, NEW key, NEW may, Claim(r, key, may), runs[r].pc \in {"idle", "claim"},
         \/ r \in Workers /\ key = <<r, runs[r].turn + 1>>
         \/ r \in Owners /\ runs[r].pc = "claim" /\ key = Asked(r, Version(r)) /\ may = (JobAfter.version = Version(r) /\ JobAfter.attempts = 0)
  PROVE  QcInv'
<1>1. UNCHANGED <<vault, attempts, done, source, reports>> /\ r \in Runs /\ CheckOk(r) /\ StagedInv /\ RunsOk /\ QcShape /\ RemovedOk /\ CountsOk
  BY QcSets DEF Claim, OnlyQc, QcInv, StagedInv
<1>2. PICK j, m : j = JobAfter /\ m = MarkAfter
  OBVIOUS
<1>3. /\ JobIs(j) /\ j.version = job.version /\ j.attempts = job.attempts /\ (j.status = "pending" => j.attempts < QC_ATTEMPT_LIMIT)
      /\ j = job \/ j.status \in {"done", "failed", "pending"}
      /\ MarkIs(m) /\ m.version = mark.version /\ m.retries = mark.retries /\ (m.retryable => m.retries < MAX_RETRIES)
      /\ mark.state = "complete" /\ mark.version = source.version => m = mark
      /\ Ready(source) /\ m.version = source.version =>
           /\ m.state = "queued" => j.status = "pending"
           /\ m.state = "running" => j.status = "processing" \/ (j = job /\ Replayed)
           /\ m.state = "failed" => j.status = "failed"
           /\ m.state = "complete" => source.version \in DOMAIN reports
      /\ source.removed => j = job /\ m = mark
  BY <1>2, AfterIs
<1>4. CASE job' = j /\ mark' = m /\ runs' = [runs EXCEPT ![r] = Idle(r)] /\ UNCHANGED claimed
  <2>1. QcShape'
    BY <1>1, <1>3, <1>4 DEF QcShape, JobIs, MarkIs
  <2>2. RemovedOk' /\ CountsOk'
    BY <1>1, <1>3, <1>4 DEF RemovedOk, DeletedTracesKeepNoReports, CountsOk
  <2>3. Matches'
    <3>1. j = job => (Replayed' <=> Replayed)
      BY <1>1, <1>4, ReplayedStays
    <3> QED BY <1>1, <1>3, <1>4, <3>1 DEF Matches, Ready
  <2>4. \A q \in Checkers : q # r => (Authorized(q)' => Authorized(q) /\ Unsettled)
    <3> SUFFICES ASSUME NEW q \in Checkers, q # r, Authorized(q)' PROVE Authorized(q) /\ Unsettled
      OBVIOUS
    <3>1. runs'[q] = runs[q]
      BY <1>1, <1>4, QcSets DEF RunsOk
    <3>2. job' = job
      BY <1>3, <1>4 DEF Authorized
    <3> QED BY <1>3, <1>4, <3>1, <3>2 DEF Authorized, Version, Token, Unsettled
  <2> QED BY <1>1, <1>4, <2>1, <2>2, <2>3, <2>4, RestKeepsQc
<1>5. CASE /\ j.status = "pending" /\ (j.version # source.version \/ ~Ready(source) \/ State(source, m) = "complete")
           /\ job' = [j EXCEPT !.status = "done"] /\ mark' = m /\ runs' = [runs EXCEPT ![r] = Idle(r)] /\ UNCHANGED claimed
  <2>1. PICK n : n = [j EXCEPT !.status = "done"]
    OBVIOUS
  <2>2. JobIs(n) /\ n.version = job.version /\ n.status = "done" /\ n.attempts = job.attempts
    BY <1>3, <2>1, StatusEdit
  <2>3. ~source.removed
    BY <1>1, <1>3, <1>5, NoJobIs DEF RemovedOk, DeletedTracesKeepNoReports
  <2>4. QcShape' /\ RemovedOk' /\ CountsOk' /\ \A q \in Checkers : ~Authorized(q)'
    BY <1>1, <1>3, <1>5, <2>1, <2>2, <2>3, DoneJob
  <2>5. Matches'
    <3>1. Ready(source) /\ m.version = source.version => m.state = "complete"
      BY <1>1, <1>3, <1>5 DEF State, QcShape
    <3> QED BY <1>1, <1>3, <1>5, <3>1 DEF Matches, Ready
  <2> QED BY <1>1, <1>5, <2>4, <2>5, RestKeepsQc
<1>6. CASE /\ j.status = "pending" /\ may /\ j.version = source.version /\ Ready(source)
           /\ Claimed(r, key, j.version, j.attempts + 1)
  <2> DEFINE v == source.version
             tries == j.attempts + 1
             token == <<r, runs[r].turn + 1>>
             no == FALSE
             n1 == [j EXCEPT !.status = "processing"]
             n2 == [n1 EXCEPT !.attempts = tries]
             n3 == [n2 EXCEPT !.token = token]
             n4 == [n3 EXCEPT !.lapsed = no]
  <2>1. v \in Versions /\ v \in Nat \ {0} /\ job.version = v /\ mark.version = v /\ ~source.removed /\ tries \in 1..QC_ATTEMPT_LIMIT
        /\ runs[r].turn \in Nat
    BY <1>1, <1>3, <1>6, QcSets DEF QcShape, Versions, RemovedOk, Ready, RunsOk, IsRun
  <2>2. JobIs(n4) /\ n4.version = v /\ n4.status = "processing" /\ n4.attempts = tries /\ n4.token = token
    <3>1. JobIs(n1) /\ n1.version = v /\ n1.status = "processing"
      BY <1>3, <1>6, StatusEdit
    <3>2. JobIs(n2) /\ n2.version = v /\ n2.status = "processing" /\ n2.attempts = tries
      <4> HIDE DEF n1, v, tries
      <4> QED BY <3>1 DEF JobIs
    <3>3. JobIs(n3) /\ n3.version = v /\ n3.status = "processing" /\ n3.attempts = tries /\ n3.token = token
      <4> HIDE DEF n2, v, tries, token
      <4> QED BY <3>2 DEF JobIs
    <3> HIDE DEF n3, v, tries, token, no
    <3> QED BY <3>3 DEF JobIs
  <2>3. job' = n4 /\ mark' = Marked(v, m, "running", tries, FALSE)
    BY <1>2, <1>6 DEF Claimed
  <2>4. MarkIs(mark') /\ mark'.version = v /\ mark'.state = "running" /\ ~mark'.retryable /\ mark'.retries = mark.retries
    <3>1. mark' = Marked(v, m, "running", tries, no) /\ ~no
      BY <2>3
    <3>2. m.version = v /\ m.retries = mark.retries /\ MarkIs(m)
      BY <1>3, <2>1
    <3> HIDE DEF v, tries, no
    <3> QED BY <3>1, <3>2, MarkedIs
  <2>5. PICK x : x = Begun(r, "look", <<"check", v>>, key)
    OBVIOUS
  <2>6. IsRun(x) /\ x.pc = "look" /\ x.does = <<"check", v>> /\ x.key = key /\ x.turn = runs[r].turn + 1 /\ x.try = 1 /\ x.base = <<>>
        /\ ~x.again
    BY <1>1, <2>5, BegunIs
  <2>7. Moves(r, x) /\ claimed' = [claimed EXCEPT ![v] = @ + 1]
    BY <1>6, <2>5, <2>6 DEF Claimed, Moves
  <2>8. runs'[r] = x /\ \A q \in Runs : q # r => runs'[q] = runs[q]
    BY <1>1, <2>7, Moved
  <2>9. MayMove(r, x)
    BY <2>1, <2>6 DEF MayMove
  <2> HIDE DEF n4
  <2>10. \A q \in Checkers : q # r => (Authorized(q)' => Authorized(q) /\ Unsettled)
    BY <2>2, <2>3 DEF Authorized, Token
  <2>11. QcShape'
    <3>1. claimed' \in [Versions -> Nat]
      BY <1>1, <2>1, <2>7 DEF QcShape
    <3>2. JobIs(job') /\ job'.version = v /\ job'.attempts = tries /\ job'.status # "pending"
      BY <2>2, <2>3
    <3>3. v \in 0..source'.version /\ tries \in 0..QC_ATTEMPT_LIMIT
      BY <1>1, <2>1
    <3>4. mark'.retries \in 0..MAX_RETRIES
      BY <1>1, <2>4 DEF QcShape
    <3> HIDE DEF v, tries
    <3> QED BY <1>1, <2>4, <3>1, <3>2, <3>3, <3>4 DEF QcShape, JobIs, MarkIs
  <2>12. RemovedOk' /\ Matches'
    BY <1>1, <2>1, <2>2, <2>3, <2>4 DEF RemovedOk, DeletedTracesKeepNoReports, Matches
  <2>13. CountsOk'
    <3>1. mark.retries \in 0..MAX_RETRIES /\ claimed[v] \in Nat /\ claimed \in [Versions -> Nat] /\ j.attempts \in Nat
      BY <1>1, <1>3, <2>1 DEF QcShape
    <3>2. claimed[v] <= QC_ATTEMPT_LIMIT * mark.retries + j.attempts
      BY <1>1, <1>3, <2>1 DEF CountsOk
    <3>3. QC_ATTEMPT_LIMIT * mark.retries \in Int /\ QC_ATTEMPT_LIMIT * mark.retries + tries <= QC_ATTEMPT_LIMIT * (MAX_RETRIES + 1)
      <4> HIDE DEF tries
      <4> QED BY <2>1, <3>1, LimitProduct
    <3>4. PICK p : p = QC_ATTEMPT_LIMIT * mark.retries
      OBVIOUS
    <3>5. PICK l : l = QC_ATTEMPT_LIMIT * (MAX_RETRIES + 1)
      OBVIOUS
    <3>6. claimed'[v] = claimed[v] + 1 /\ \A w \in Versions : w # v => claimed'[w] = claimed[w]
      BY <2>1, <2>7, <3>1
    <3>7. claimed'[v] <= p + tries /\ p + tries <= l /\ p \in Int
      BY <3>1, <3>2, <3>3, <3>4, <3>5, <3>6
    <3>8. claimed'[v] <= l
      <4>1. l \in Int
        BY <3>5, QcSets
      <4> QED BY <2>1, <3>1, <3>6, <3>7, <4>1
    <3>9. \A w \in Versions : claimed'[w] <= l
      BY <1>1, <3>5, <3>6, <3>8 DEF CountsOk
    <3>10. \A w \in Versions : w > v => claimed'[w] = 0
      <4> SUFFICES ASSUME NEW w \in Versions, w > v PROVE claimed'[w] = 0
        OBVIOUS
      <4>1. w # v
        BY <2>1 DEF Versions
      <4> QED BY <1>1, <2>1, <3>6, <4>1 DEF CountsOk
    <3>11. job'.version = v /\ job'.attempts = tries /\ mark'.retries = mark.retries
      BY <2>2, <2>3, <2>4
    <3> QED BY <3>4, <3>5, <3>7, <3>9, <3>10, <3>11 DEF CountsOk
  <2>14. Alone(r) => key \notin done
    <3>1. CASE r \in Workers /\ key = <<r, runs[r].turn + 1>>
      BY <2>1, <3>1 DEF QcInv, DoneOk
    <3>2. CASE r \in Owners /\ runs[r].pc = "claim" /\ key = Asked(r, Version(r))
      BY <1>1, <3>2 DEF CheckOk, Version
    <3> QED BY <3>1, <3>2
  <2>15. CheckOk(r)'
    <3>1. r \in Workers => key = <<r, x.turn>>
      BY <2>6, QcSets
    <3>2. r \in Owners => key = Asked(r, v)
      BY <1>2, <1>6, QcSets
    <3>3. v <= source'.version /\ done' = done
      BY <1>1, <2>1
    <3>4. x.does[2] = v
      BY <2>6
    <3>5. /\ runs'[r].pc = "look" /\ runs'[r].key = key /\ runs'[r].does[2] = v /\ runs'[r].try = 1 /\ ~runs'[r].again
          /\ runs'[r].base # <<"superseded">> /\ runs'[r].turn = x.turn
      <4>1. runs'[r] = x
        BY <2>8
      <4>2. x.base # <<"superseded">>
        BY <2>6
      <4>3. x.pc = "look" /\ x.key = key /\ x.try = 1
        BY <2>6
      <4>4. ~x.again
        BY <2>6
      <4> HIDE DEF v
      <4> QED BY <3>4, <4>1, <4>2, <4>3, <4>4, Zenon
    <3> HIDE DEF v
    <3> QED BY <2>1, <2>14, <3>1, <3>2, <3>3, <3>5 DEF CheckOk, Open, Early
  <2> QED BY <1>1, <2>7, <2>9, <2>10, <2>11, <2>12, <2>13, <2>15, RunKeepsQc
<1> QED BY <1>2, <1>4, <1>5, <1>6 DEF Claim

LEMMA ClaimsKeepQc ==
  ASSUME QcInv, NEW r \in Checkers, ClaimNext(r) \/ ClaimAsked(r)
  PROVE  QcInv'
<1>1. CASE ClaimNext(r)
  <2>1. r \in Workers /\ runs[r].pc = "idle" /\ Claim(r, <<r, runs[r].turn + 1>>, TRUE)
    BY <1>1 DEF ClaimNext, At
  <2> DEFINE yes == TRUE
  <2>2. Claim(r, <<r, runs[r].turn + 1>>, yes)
    BY <2>1
  <2> HIDE DEF yes
  <2> QED BY <2>1, <2>2, ClaimKeepsQc
<1>2. CASE ClaimAsked(r)
  <2>1. r \in Owners /\ runs[r].pc = "claim"
        /\ Claim(r, Asked(r, Version(r)), JobAfter.version = Version(r) /\ JobAfter.attempts = 0)
    BY <1>2 DEF ClaimAsked, At
  <2> DEFINE may == JobAfter.version = Version(r) /\ JobAfter.attempts = 0
  <2>2. Claim(r, Asked(r, Version(r)), may) /\ may = (JobAfter.version = Version(r) /\ JobAfter.attempts = 0)
    BY <2>1
  <2> HIDE DEF may
  <2> QED BY <2>1, <2>2, ClaimKeepsQc
<1> QED BY <1>1, <1>2

\* A version that becomes ready, or whose job is missing, is queued once.
LEMMA EnqueueIs ==
  ASSUME QcInv, NEW src, source' = src, Enqueue(src), UNCHANGED <<reports, claimed>>,
         src = [version |-> src.version, ready |-> src.ready, deleted |-> src.deleted, removed |-> src.removed],
         src.version \in Versions, src.version >= source.version, src.version = source.version => src = source,
         src.deleted = source.deleted, src.removed = source.removed
  PROVE  /\ QcShape' /\ RemovedOk' /\ Matches' /\ CountsOk'
         /\ \A q \in Checkers : Authorized(q)' => UNCHANGED <<job, mark>>
<1>1. QcShape /\ RemovedOk /\ Matches /\ CountsOk /\ source.version \in Nat \ {0} /\ src.version \in Nat \ {0}
      /\ job.version \in Nat /\ job.version <= source.version /\ MarkIs(mark) /\ mark.version = job.version
  BY DEF QcInv, QcShape, Versions, MarkIs
<1>2. CASE UNCHANGED <<mark, job>> /\ (Ready(src) => src = source)
  <2>1. QcShape' /\ RemovedOk' /\ CountsOk'
    BY <1>1, <1>2 DEF QcShape, RemovedOk, DeletedTracesKeepNoReports, CountsOk
  <2>2. Matches'
    BY <1>1, <1>2, ReplayedStays DEF Matches
  <2> QED BY <1>2, <2>1, <2>2
<1>3. CASE Ready(src) /\ (State(src, mark) \in {"complete", "failed"} \/ job.version = src.version)
           /\ job' = (IF job.version = src.version THEN job ELSE NoJob) /\ UNCHANGED mark
  <2>1. job.version = src.version
    BY <1>1, <1>3 DEF State
  <2>2. src.version = source.version
    BY <1>1, <2>1
  <2> QED BY <1>2, <1>3, <2>1, <2>2
<1>4. CASE Ready(src) /\ job.version # src.version /\ job' = Fresh(src.version) /\ mark' = Marked(src.version, mark, "queued", 0, FALSE)
  <2> DEFINE v == src.version
  <2>1. job.version < v /\ ~source.removed /\ ~src.removed /\ v \in Versions /\ v \in Nat \ {0}
    BY <1>1, <1>4 DEF Ready, RemovedOk
  <2>2. JobIs(job') /\ job'.version = v /\ job'.status = "pending" /\ job'.attempts = 0
    <3> HIDE DEF v
    <3>1. job' = Fresh(v)
      BY <1>4 DEF v
    <3> QED BY <3>1, FreshIs
  <2>3. MarkIs(mark') /\ mark'.version = v /\ mark'.state = "queued" /\ ~mark'.retryable /\ mark'.retries = 0
    <3> DEFINE no == FALSE
    <3>1. mark' = Marked(v, mark, "queued", 0, no) /\ ~no
      BY <1>4
    <3>2. mark.version # v
      BY <1>1, <1>4
    <3> HIDE DEF v, no
    <3> QED BY <1>1, <3>1, <3>2, MarkedIs
  <2>4. QcShape'
    <3>1. 0 \in 0..QC_ATTEMPT_LIMIT /\ 0 < QC_ATTEMPT_LIMIT /\ 0 \in 0..MAX_RETRIES
      BY QcSets
    <3> QED BY <1>1, <2>1, <2>2, <2>3, <3>1 DEF QcShape, JobIs, MarkIs
  <2>5. RemovedOk' /\ Matches'
    BY <2>1, <2>2, <2>3 DEF RemovedOk, DeletedTracesKeepNoReports, Matches
  <2>6. CountsOk'
    <3>1. claimed[v] = 0 /\ \A w \in Versions : w > v => claimed[w] = 0
      BY <1>1, <2>1 DEF CountsOk, Versions
    <3>2. QC_ATTEMPT_LIMIT * 0 + 0 = 0
      BY QcSets
    <3> HIDE DEF v
    <3> QED BY <1>1, <2>1, <2>2, <2>3, <3>1, <3>2 DEF CountsOk
  <2>7. \A q \in Checkers : ~Authorized(q)'
    BY <2>2 DEF Authorized
  <2> QED BY <2>4, <2>5, <2>6, <2>7
<1>5. CASE ~Ready(src) /\ UNCHANGED <<mark, job>>
  BY <1>2, <1>5
<1> QED BY <1>3, <1>4, <1>5 DEF Enqueue

LEMMA SourceIs == ASSUME QcInv PROVE source = [version |-> source.version, ready |-> source.ready, deleted |-> source.deleted, removed |-> source.removed]
                                     /\ source.version \in Versions /\ source.version \in Nat
  BY DEF QcInv, QcShape, Versions

LEMMA ChangeKeepsQc ==
  ASSUME QcInv, Change
  PROVE  QcInv'
<1>1. PICK ready \in BOOLEAN : LET src == [source EXCEPT !.version = @ + 1, !.ready = ready] IN source' = src /\ Enqueue(src)
  BY DEF Change
<1> DEFINE n == source.version + 1
           y1 == [source EXCEPT !.version = n]
           src == [y1 EXCEPT !.ready = ready]
           IsSource(s) == s = [version |-> s.version, ready |-> s.ready, deleted |-> s.deleted, removed |-> s.removed]
<1>2. UNCHANGED <<vault, attempts, done, runs, reports, claimed>> /\ source.version < LastVersion
  BY DEF Change
<1>3. source' = src /\ Enqueue(src)
  BY <1>1
<1>4. n \in Versions /\ n > source.version
  BY <1>2, SourceIs, TraceQcAssumption DEF Versions
<1>5. IsSource(y1) /\ y1.version = n /\ y1.deleted = source.deleted /\ y1.removed = source.removed
  <2> HIDE DEF n
  <2> QED BY SourceIs
<1>6. IsSource(src) /\ src.version = n /\ src.deleted = source.deleted /\ src.removed = source.removed
  <2> HIDE DEF y1, n
  <2> QED BY <1>5
<1>7. PICK s : s = src
  OBVIOUS
<1> HIDE DEF src
<1>8. /\ source' = s /\ Enqueue(s) /\ IsSource(s) /\ s.version \in Versions /\ s.version > source.version /\ s.deleted = source.deleted
      /\ s.removed = source.removed
  BY <1>3, <1>4, <1>6, <1>7
<1> HIDE DEF n
<1>9. /\ QcShape' /\ RemovedOk' /\ Matches' /\ CountsOk'
      /\ \A q \in Checkers : Authorized(q)' => UNCHANGED <<job, mark>>
  <2>1. s.version >= source.version /\ s.version # source.version
    BY <1>8, SourceIs DEF Versions
  <2> QED BY <1>2, <1>8, <2>1, EnqueueIs
<1>10. Onward
  BY <1>2, <1>8, SourceIs DEF Onward, Versions
<1>11. \A q \in Checkers : Authorized(q)' => Authorized(q) /\ Unsettled
  BY <1>2, <1>9 DEF Authorized, Version, Token, Unsettled
<1> QED BY <1>2, <1>9, <1>10, <1>11, RowsKeepQc

LEMMA EnqueueSource ==
  ASSUME QcInv, Enqueue(source), UNCHANGED <<source, reports, claimed>>
  PROVE  /\ QcShape' /\ RemovedOk' /\ Matches' /\ CountsOk'
         /\ \A q \in Checkers : Authorized(q)' => UNCHANGED <<job, mark>>
<1>1. PICK s : s = source
  OBVIOUS
<1>2. source' = s /\ Enqueue(s) /\ s = [version |-> s.version, ready |-> s.ready, deleted |-> s.deleted, removed |-> s.removed]
      /\ s.version \in Versions /\ s.version >= source.version /\ s.deleted = source.deleted /\ s.removed = source.removed
  BY <1>1, SourceIs DEF Versions
<1> QED BY <1>1, <1>2, EnqueueIs

LEMMA DiscoverKeepsQc ==
  ASSUME QcInv, Discover
  PROVE  QcInv'
<1>1. UNCHANGED <<vault, attempts, done, runs, source, reports, claimed>> /\ Enqueue(source)
  BY DEF Discover, OnlyQc
<1>2. /\ QcShape' /\ RemovedOk' /\ Matches' /\ CountsOk'
      /\ \A q \in Checkers : Authorized(q)' => UNCHANGED <<job, mark>>
  BY <1>1, EnqueueSource
<1>3. Onward
  BY <1>1, SourceIs DEF Onward, Versions
<1>4. \A q \in Checkers : Authorized(q)' => Authorized(q) /\ Unsettled
  BY <1>1, <1>2 DEF Authorized, Version, Token, Unsettled
<1> QED BY <1>1, <1>2, <1>3, <1>4, RowsKeepQc

LEMMA AskKeepsQc ==
  ASSUME QcInv, NEW r \in Checkers, Ask(r)
  PROVE  QcInv'
<1>1. UNCHANGED <<vault, attempts, done, source, reports, claimed>> /\ Enqueue(source) /\ r \in Owners /\ r \in Runs /\ runs[r].pc = "idle"
      /\ Ready(source) /\ source.version \notin DOMAIN reports /\ RunsOk /\ CheckOk(r)
  BY QcSets DEF Ask, OnlyQc, At, QcInv, StagedInv
<1>2. /\ QcShape' /\ RemovedOk' /\ Matches' /\ CountsOk'
      /\ \A q \in Checkers : Authorized(q)' => UNCHANGED <<job, mark>>
  BY <1>1, EnqueueSource
<1> DEFINE y1 == [runs[r] EXCEPT !.pc = "claim"]
           does == <<"check", source.version>>
           y2 == [y1 EXCEPT !.does = does]
<1>3. IsRun(runs[r]) /\ does[2] = source.version
  BY <1>1 DEF RunsOk
<1>4. IsRun(y1) /\ Same(r, y1) /\ y1.pc = "claim" /\ y1.again = runs[r].again
  BY <1>3 DEF IsRun, Same
<1>5. IsRun(y2) /\ y2.turn = runs[r].turn /\ y2.try = runs[r].try /\ y2.pc = "claim" /\ y2.again = runs[r].again /\ y2.does = does
  <2> HIDE DEF y1, does
  <2> QED BY <1>4 DEF IsRun, Same
<1>6. runs' = [runs EXCEPT ![r] = y2]
  BY <1>1 DEF Ask, RunsOk
<1>7. PICK x : x = y2
  OBVIOUS
<1> HIDE DEF y2, does
<1>8. Moves(r, x) /\ MayMove(r, x) /\ x.pc = "claim" /\ x.does[2] = source.version /\ x.try = 1 /\ ~x.again
  BY <1>1, <1>3, <1>5, <1>6, <1>7 DEF Moves, MayMove, Open, Early, CheckOk
<1>9. runs'[r] = x /\ \A q \in Runs : q # r => runs'[q] = runs[q]
  BY <1>1, <1>8, Moved
<1>10. \A q \in Checkers : q # r => (Authorized(q)' => Authorized(q) /\ Unsettled)
  <2> SUFFICES ASSUME NEW q \in Checkers, q # r, Authorized(q)' PROVE Authorized(q) /\ Unsettled
    OBVIOUS
  <2>1. runs'[q] = runs[q] /\ UNCHANGED <<job, mark>>
    BY <1>2, <1>9, QcSets
  <2> QED BY <2>1 DEF Authorized, Version, Token, Unsettled
<1>11. Asked(r, source.version) \notin done
  BY <1>1 DEF QcInv, DoneOk, Ready, RemovedOk, Asked
<1>12. CheckOk(r)'
  <2>1. runs'[r].pc = "claim" /\ runs'[r].does[2] = source.version /\ runs'[r].try = 1 /\ ~runs'[r].again
    BY <1>8, <1>9
  <2>2. source.version \in Versions /\ source.version <= source'.version /\ done' = done /\ r \notin Workers
    BY <1>1, SourceIs, QcSets
  <2> QED BY <1>11, <2>1, <2>2 DEF CheckOk, Open, Early
<1> QED BY <1>1, <1>2, <1>8, <1>10, <1>12, RunKeepsQc

LEMMA RetryKeepsQc ==
  ASSUME QcInv, Retry
  PROVE  QcInv'
<1> DEFINE v == source.version
           n == mark.retries + 1
           no == FALSE
           y == Marked(v, mark, "queued", 0, no)
           z == [y EXCEPT !.retries = n]
<1>1. UNCHANGED <<vault, attempts, done, runs, source, reports, claimed>> /\ Ready(source) /\ mark.version = v /\ job.version = v
      /\ mark.retryable /\ job' = Fresh(v) /\ job.status = "failed"
  BY DEF Retry, OnlyQc, State
<1>2. QcShape /\ RemovedOk /\ CountsOk /\ MarkIs(mark) /\ v \in Versions /\ v \in Nat \ {0} /\ mark.retries \in 0..MAX_RETRIES
      /\ mark.retries < MAX_RETRIES /\ n \in 0..MAX_RETRIES /\ job.attempts \in 0..QC_ATTEMPT_LIMIT
  BY <1>1, QcSets DEF QcInv, QcShape, MarkIs, Versions
<1>3. ~source.removed
  BY <1>1, <1>2 DEF Ready, RemovedOk
<1>4. MarkIs(y) /\ y.version = v /\ y.state = "queued" /\ ~y.retryable /\ y.retries = mark.retries
  <2>1. ~no
    OBVIOUS
  <2> HIDE DEF v, no
  <2> QED BY <1>1, <1>2, <2>1, MarkedIs
<1>5. MarkIs(z) /\ z.version = v /\ z.state = "queued" /\ ~z.retryable /\ z.retries = n
  <2> HIDE DEF y, n, v
  <2> QED BY <1>4 DEF MarkIs
<1>6. mark' = z
  <2>1. y.retries + 1 = n
    BY <1>4
  <2>2. mark' = [y EXCEPT !.retries = @ + 1]
    BY DEF Retry
  <2> HIDE DEF y
  <2> QED BY <2>1, <2>2
<1>7. JobIs(job') /\ job'.version = v /\ job'.status = "pending" /\ job'.attempts = 0
  <2> HIDE DEF v
  <2> QED BY <1>1, FreshIs
<1> HIDE DEF z
<1>8. QcShape'
  <2>1. 0 \in 0..QC_ATTEMPT_LIMIT /\ 0 < QC_ATTEMPT_LIMIT
    BY QcSets
  <2> HIDE DEF n
  <2> QED BY <1>1, <1>2, <1>5, <1>6, <1>7, <2>1 DEF QcShape, JobIs, MarkIs
<1>9. RemovedOk' /\ Matches'
  BY <1>1, <1>2, <1>3, <1>5, <1>6, <1>7 DEF RemovedOk, DeletedTracesKeepNoReports, Matches
<1>10. CountsOk'
  <2>1. PICK p, p1 : p = QC_ATTEMPT_LIMIT * mark.retries /\ p1 = QC_ATTEMPT_LIMIT * n
    OBVIOUS
  <2>2. p \in Int /\ p1 = p + QC_ATTEMPT_LIMIT
    <3> HIDE DEF v
    <3> QED BY <1>2, <2>1, LimitProduct
  <2>3. claimed[v] <= p + job.attempts /\ claimed[v] \in Nat
    BY <1>1, <1>2, <1>3, <2>1 DEF CountsOk, QcShape
  <2>4. claimed[v] <= p1 + 0
    BY <1>2, <2>2, <2>3, QcSets
  <2>5. mark'.retries = n /\ job'.version = v /\ job'.attempts = 0
    BY <1>5, <1>6, <1>7
  <2> HIDE DEF n, v
  <2> QED BY <1>1, <1>2, <1>3, <2>1, <2>4, <2>5 DEF CountsOk
<1>11. Onward
  BY <1>1, SourceIs DEF Onward, Versions
<1>12. \A q \in Checkers : Authorized(q)' => Authorized(q) /\ Unsettled
  BY <1>7 DEF Authorized
<1> QED BY <1>1, <1>8, <1>9, <1>10, <1>11, <1>12, RowsKeepQc

LEMMA LeaseEndsKeepsQc ==
  ASSUME QcInv, LeaseEnds
  PROVE  QcInv'
<1> DEFINE yes == TRUE
           z == [job EXCEPT !.lapsed = yes]
<1>1. UNCHANGED <<vault, attempts, done, runs, source, mark, reports, claimed>> /\ job' = z
  BY DEF LeaseEnds
<1>2. JobIs(z) /\ z.version = job.version /\ z.status = job.status /\ z.attempts = job.attempts /\ z.lapsed = yes
  <2> HIDE DEF yes
  <2> QED BY DEF QcInv, QcShape, JobIs
<1> HIDE DEF z
<1>3. QcShape'
  BY <1>1, <1>2 DEF QcInv, QcShape, JobIs
<1>4. RemovedOk'
  <2>1. ~source.removed
    BY NoJobIs DEF LeaseEnds, QcInv, RemovedOk, DeletedTracesKeepNoReports
  <2> QED BY <1>1, <2>1 DEF RemovedOk, DeletedTracesKeepNoReports
<1>5. Matches' /\ CountsOk'
  <2>1. Replayed => FALSE
    BY DEF LeaseEnds, Replayed
  <2> QED BY <1>1, <1>2, <2>1 DEF QcInv, Matches, Ready, CountsOk
<1>6. Onward
  BY <1>1, SourceIs DEF Onward, Versions
<1>7. \A q \in Checkers : Authorized(q)' => Authorized(q) /\ Unsettled
  BY <1>1, <1>2 DEF Authorized
<1> QED BY <1>1, <1>3, <1>4, <1>5, <1>6, <1>7, RowsKeepQc

LEMMA DeleteKeepsQc ==
  ASSUME QcInv, Delete
  PROVE  QcInv'
<1> DEFINE yes == TRUE
           z == [source EXCEPT !.deleted = yes]
<1>1. UNCHANGED <<vault, attempts, done, runs, job, mark, reports, claimed>> /\ source' = z
  BY DEF Delete
<1>2. z = [version |-> z.version, ready |-> z.ready, deleted |-> z.deleted, removed |-> z.removed]
      /\ z.version = source.version /\ z.removed = source.removed /\ z.deleted = yes
  <2> HIDE DEF yes
  <2> QED BY SourceIs
<1> HIDE DEF z
<1>3. QcShape'
  BY <1>1, <1>2 DEF QcInv, QcShape
<1>4. RemovedOk' /\ Matches' /\ CountsOk'
  BY <1>1, <1>2 DEF QcInv, RemovedOk, DeletedTracesKeepNoReports, Matches, Ready, CountsOk
<1>5. Onward
  BY <1>1, <1>2, SourceIs DEF Onward, Versions
<1>6. \A q \in Checkers : Authorized(q)' => Authorized(q) /\ Unsettled
  BY <1>1 DEF Authorized, Version, Token, Unsettled
<1> QED BY <1>1, <1>3, <1>4, <1>5, <1>6, RowsKeepQc

LEMMA DeleteTraceObjectsKeepsQc ==
  ASSUME QcInv, DeleteTraceObjects
  PROVE  QcInv'
<1> DEFINE yes == TRUE
           z == [source EXCEPT !.removed = yes]
<1>1. /\ UNCHANGED <<attempts, done, runs, claimed>> /\ source' = z /\ source.deleted /\ job' = NoJob /\ mark' = NoMark /\ reports' = <<>>
      /\ vault' = vault \ {reports[v] : v \in DOMAIN reports}
  BY DEF DeleteTraceObjects
<1>2. z = [version |-> z.version, ready |-> z.ready, deleted |-> z.deleted, removed |-> z.removed]
      /\ z.version = source.version /\ z.removed = yes /\ z.deleted = source.deleted
  <2> HIDE DEF yes
  <2> QED BY SourceIs
<1> HIDE DEF z
<1>3. DOMAIN reports' = {} /\ vault' \subseteq vault
  BY <1>1
<1>4. \A a \in vault \ vault' : Out(a)
  BY <1>1 DEF QcInv, ReportsOk
<1>5. QcShape'
  <2>1. 0 \in 0..source.version /\ 0 \in 0..QC_ATTEMPT_LIMIT /\ 0 \in 0..MAX_RETRIES
    BY SourceIs, QcSets
  <2> QED BY <1>1, <1>2, <2>1, NoJobIs, NoMarkIs DEF QcInv, QcShape, JobIs, MarkIs
<1>6. RemovedOk' /\ Matches' /\ CountsOk'
  BY <1>1, <1>2 DEF QcInv, RemovedOk, DeletedTracesKeepNoReports, Matches, Ready, CountsOk
<1>7. Onward
  BY <1>1, <1>2, SourceIs DEF Onward, Versions
<1>8. \A q \in Checkers : Authorized(q)' => Authorized(q) /\ Unsettled
  BY <1>1, NoJobIs DEF Authorized
<1> QED BY <1>1, <1>3, <1>4, <1>5, <1>6, <1>7, <1>8, RowsKeepQc

LEMMA QcStart ==
  ASSUME QcInit
  PROVE  QcInv
<1>1. StagedInv /\ vault = {} /\ done = {} /\ runs = [r \in Runs |-> NoRun]
  BY StagedStart DEF QcInit, StagedInit
<1>2. source.version = 1 /\ source.ready /\ ~source.deleted /\ ~source.removed
      /\ source = [version |-> source.version, ready |-> source.ready, deleted |-> source.deleted, removed |-> source.removed]
  BY DEF QcInit
<1>3. DOMAIN reports = {} /\ mark = NoMark /\ job = NoJob /\ claimed = [v \in Versions |-> 0]
  BY DEF QcInit
<1>4. QcShape
  <2>1. 1 \in Versions /\ 0 \in 0..1 /\ 0 \in 0..QC_ATTEMPT_LIMIT /\ 0 \in 0..MAX_RETRIES
    BY TraceQcAssumption DEF Versions
  <2>2. claimed \in [Versions -> Nat]
    BY <1>3
  <2> QED BY <1>2, <1>3, <2>1, <2>2, NoJobIs, NoMarkIs DEF QcShape, JobIs, MarkIs
<1>5. RemovedOk /\ Matches
  BY <1>2, <1>3, NoMarkIs DEF RemovedOk, DeletedTracesKeepNoReports, Matches
<1>6. CountsOk
  <2>1. 0 <= QC_ATTEMPT_LIMIT * (MAX_RETRIES + 1)
    <3>1. 0 \in 0..MAX_RETRIES /\ 0 \in 0..QC_ATTEMPT_LIMIT /\ QC_ATTEMPT_LIMIT * 0 + 0 = 0
      BY QcSets
    <3> QED BY <3>1, LimitProduct
  <2>2. \A v \in Versions : claimed[v] = 0
    BY <1>3
  <2> QED BY <1>3, <2>1, <2>2, NoJobIs DEF CountsOk
<1>7. ReportsOk /\ DoneOk
  BY <1>1, <1>3 DEF ReportsOk, DoneOk
<1>8. \A r \in Checkers : CheckOk(r)
  <2> TAKE r \in Checkers
  <2>1. runs[r] = NoRun
    BY <1>1, QcSets
  <2> QED BY <2>1, NoRunIs DEF CheckOk, Open, Early
<1> QED BY <1>1, <1>4, <1>5, <1>6, <1>7, <1>8 DEF QcInv

LEMMA QcStepKeeps ==
  ASSUME QcInv, [QcNext]_qcVars
  PROVE  QcInv'
<1>1. ASSUME NEW r \in Checkers, RunStep(r) PROVE QcInv'
  <2>1. CASE StagedStep(r) /\ OnlyRun
    BY <2>1, StagedStepKeepsQc
  <2> QED BY <1>1, <2>1, ClaimsKeepQc, LookAtSourceKeepsQc, PrepareKeepsQc, CommitKeepsQc, FinishKeepsQc, FailKeepsQc DEF RunStep
<1>2. CASE Upkeep
  BY <1>2, LeaseEndsKeepsQc, UpkeepKeepsQc DEF Upkeep
<1>3. CASE UNCHANGED qcVars
  <2>1. UNCHANGED <<vault, attempts, claims, done, runs, faults, source, mark, job, reports, claimed>>
    BY <1>3 DEF qcVars
  <2>2. QcShape' /\ RemovedOk' /\ Matches' /\ CountsOk'
    BY <2>1, SameRows
  <2>3. Onward
    BY <2>1, SourceIs DEF Onward, Versions
  <2>4. \A q \in Checkers : Authorized(q)' => Authorized(q) /\ Unsettled
    BY <2>1 DEF Authorized, Version, Token, Unsettled
  <2> QED BY <2>1, <2>2, <2>3, <2>4, RowsKeepQc
<1> QED BY <1>1, <1>2, <1>3, AskKeepsQc, CheckCrashKeepsQc, ChangeKeepsQc, DiscoverKeepsQc, RetryKeepsQc, DeleteKeepsQc, DeleteTraceObjectsKeepsQc
    DEF QcNext

\* What the owner is shown of a source's checks is what the queue does about it, reports stay as long as
\* the trace, a version is claimed a bounded number of times, and nothing of a removed trace comes back,
\* whatever the number of workers, requests of the owner, versions, crashes and lost leases; only a mark
\* may go on to say "running" of a report that is there, when the request that ended the job was answered
\* with the result of another request with its key (trace-qc.ts: claim, performJob and its catch, run, retry, deleteTraceObjects).
THEOREM ShownReportsAreCurrent == QcSpec => []ReportsAreCurrent
<1>1. QcInit => QcInv
  BY QcStart
<1>2. QcInv /\ [QcNext]_qcVars => QcInv'
  BY QcStepKeeps
<1>3. QcInv => ReportsAreCurrent
  <2> SUFFICES ASSUME QcInv PROVE ReportsAreCurrent
    OBVIOUS
  <2>1. DeletedTracesKeepNoReports
    BY DEF QcInv, RemovedOk
  <2>2. \A v \in DOMAIN reports : reports[v] \in vault
    BY DEF QcInv, ReportsOk
  <2>3. \A v \in Versions : claimed[v] <= QC_ATTEMPT_LIMIT * (MAX_RETRIES + 1)
    BY DEF QcInv, CountsOk
  <2>4. mark.version = job.version /\ Matches /\ source.version # 0
    BY DEF QcInv, QcShape, Versions
  <2>5. Ready(source) =>
          CASE State(source, mark) = "queued" -> job.version = source.version /\ job.status = "pending"
            [] State(source, mark) = "running" -> job.version = source.version /\ (job.status = "processing" \/ Replayed)
            [] State(source, mark) = "failed" -> job.version = source.version /\ job.status = "failed"
            [] State(source, mark) = "complete" -> source.version \in DOMAIN reports
            [] OTHER -> TRUE
    BY <2>4 DEF Matches, State
  <2> QED BY <2>1, <2>2, <2>3, <2>5 DEF ReportsAreCurrent, MarksMatchJobs
<1> QED BY <1>1, <1>2, <1>3, PTL DEF QcSpec
=============================================================================
