--------------------------- MODULE TaskListProofs ---------------------------
(***************************************************************************)
(* Why no two workers ever have the same task: what each worker was last   *)
(* told about a lease is what the stored record says (LeaseHonoured), and  *)
(* a record names one worker (IdsUnique).  And why the stored list keeps   *)
(* the contract of a task source (KeepsContract).                          *)
(***************************************************************************)
EXTENDS TaskList, TLAPS

(* An extension that waits for the lock was granted whole seconds.         *)
GrantsWhole == \A w \in Worker : ask[w].to = "extend" => ask[w].granted > 0

LInv == TaskTypeOK /\ IdsUnique /\ LeaseHonoured /\ GrantsWhole

USE TaskAssumption

-----------------------------------------------------------------------------
(* Cut to a whole second, a lease of a second or more still has a tick to  *)
(* run: claim and extend_lease never hand out a lease that is over.        *)
LEMMA LeaseRuns ==
    ASSUME TaskTypeOK, NEW seconds \in Nat \ {0}
    PROVE  TicksTo(seconds) \in Nat /\ TicksTo(seconds) > 0
<1>1. seconds * TicksPerSecond \in Nat /\ seconds * TicksPerSecond >= TicksPerSecond
  <2>1. /\ seconds \in Nat /\ seconds - 1 \in Nat
        /\ TicksPerSecond \in Nat /\ TicksPerSecond > 0
    OBVIOUS
  <2>2. (seconds - 1) * TicksPerSecond \in Nat
    BY <2>1
  <2>3. seconds * TicksPerSecond = (seconds - 1) * TicksPerSecond + TicksPerSecond
    BY <2>1
  <2> QED BY <2>1, <2>2, <2>3
<1>2. phase \in Nat /\ phase < TicksPerSecond
  BY DEF TaskTypeOK
<1> QED BY <1>1, <1>2 DEF TicksTo

(* _expire changes nothing but state and holder of the claims that lapsed. *)
LEMMA ExpireKeeps ==
    ASSUME TaskTypeOK
    PROVE  /\ Expire(tasks) \in Seq(Task)
           /\ Len(Expire(tasks)) = Len(tasks)
           /\ DOMAIN Expire(tasks) = DOMAIN tasks
           /\ \A i \in DOMAIN tasks :
                 /\ Expire(tasks)[i] \in Task
                 /\ Expire(tasks)[i] = Expired(tasks[i])
                 /\ Expire(tasks)[i].id = tasks[i].id
                 /\ Expire(tasks)[i].left = tasks[i].left
                 /\ tasks[i].left > 0 => Expire(tasks)[i] = tasks[i]
<1>1. tasks \in [1 .. Len(tasks) -> Task] /\ Len(tasks) \in Nat
  BY DEF TaskTypeOK
<1>2. \A r \in Task :
         /\ Expired(r) \in Task /\ Expired(r).id = r.id /\ Expired(r).left = r.left
         /\ r.left > 0 => Expired(r) = r
  <2>1. SUFFICES ASSUME NEW r \in Task
                 PROVE  /\ Expired(r) \in Task
                        /\ Expired(r).id = r.id /\ Expired(r).left = r.left
                        /\ r.left > 0 => Expired(r) = r
    OBVIOUS
  <2>2. r.left \in Nat
    BY DEF Task
  <2>3. CASE Lapsed(r)
    <3>1. r.left = 0
      BY <2>3 DEF Lapsed
    <3>2. Expired(r) = [r EXCEPT !.state = "todo", !.by = NoWorker]
      BY <2>3 DEF Expired
    <3>3. /\ [r EXCEPT !.state = "todo", !.by = NoWorker] \in Task
          /\ [r EXCEPT !.state = "todo", !.by = NoWorker].id = r.id
          /\ [r EXCEPT !.state = "todo", !.by = NoWorker].left = r.left
      BY DEF Task, States
    <3> QED BY <3>1, <3>2, <3>3
  <2>4. CASE ~Lapsed(r)
    BY <2>4 DEF Expired
  <2> QED BY <2>3, <2>4
<1>3. DOMAIN Expire(tasks) = 1 .. Len(tasks) /\ DOMAIN tasks = 1 .. Len(tasks)
  BY <1>1 DEF Expire
<1>4. Expire(tasks) \in [1 .. Len(tasks) -> Task]
  BY <1>1, <1>2, <1>3 DEF Expire
<1>5. Expire(tasks) \in Seq(Task) /\ Len(Expire(tasks)) = Len(tasks)
  BY <1>1, <1>4
<1> QED BY <1>1, <1>2, <1>3, <1>5 DEF Expire

(* Nothing asked is something to ask, and grants nothing. *)
LEMMA IdleIsAsk == Idle \in Ask /\ Idle.to # "extend"
BY DEF Idle, Ask

(* One worker asks for something else, never for an empty extension. *)
LEMMA AskRewritten ==
    ASSUME LInv, NEW w \in Worker, NEW q \in Ask, q.to = "extend" => q.granted > 0,
           ask' = [ask EXCEPT ![w] = q]
    PROVE  ask' \in [Worker -> Ask] /\ GrantsWhole'
BY DEF LInv, TaskTypeOK, GrantsWhole

(* Replacing one element of a sequence leaves the others alone.            *)
LEMMA SeqExcept ==
    ASSUME NEW S, NEW s \in Seq(S), NEW i \in DOMAIN s, NEW r \in S
    PROVE  /\ [s EXCEPT ![i] = r] \in Seq(S)
           /\ Len([s EXCEPT ![i] = r]) = Len(s)
           /\ DOMAIN [s EXCEPT ![i] = r] = DOMAIN s
           /\ [s EXCEPT ![i] = r][i] = r
           /\ \A j \in DOMAIN s \ {i} : [s EXCEPT ![i] = r][j] = s[j]
OBVIOUS

(* Claim, release and extend_lease rewrite one record of the expired list  *)
(* and tell its worker how long the lease is: no id changes, and neither   *)
(* does any other record whose lease still runs.                           *)
LEMMA Rewritten ==
    ASSUME LInv,
           NEW w \in Worker, NEW i \in DOMAIN tasks, NEW r \in Task,
           r.id = tasks[i].id,
           r.left > 0 => r.state = "claimed" /\ r.by = w,
           Expire(tasks)[i].state = "todo" \/ Expire(tasks)[i].by = w,
           tasks' = [Expire(tasks) EXCEPT ![i] = r],
           hand' = [hand EXCEPT ![w][r.id] = r.left]
    PROVE  /\ tasks' \in Seq(Task)
           /\ hand' \in [Worker -> [Id -> Nat]]
           /\ IdsUnique'
           /\ LeaseHonoured'
<1>1. /\ tasks' \in Seq(Task) /\ DOMAIN tasks' = DOMAIN tasks /\ tasks'[i] = r
      /\ \A j \in DOMAIN tasks \ {i} : tasks'[j] = Expire(tasks)[j]
  BY ExpireKeeps, SeqExcept DEF LInv
<1>2. \A j \in DOMAIN tasks : tasks'[j].id = tasks[j].id
  BY <1>1, ExpireKeeps DEF LInv
<1>3. IdsUnique'
  BY <1>1, <1>2 DEF LInv, IdsUnique
<1>4. r.id \in Id /\ r.left \in Nat
  BY DEF Task
<1>5. /\ hand \in [Worker -> [Id -> Nat]]
      /\ hand' \in [Worker -> [Id -> Nat]]
      /\ hand'[w][r.id] = r.left
      /\ \A v \in Worker, id \in Id :
            ~(v = w /\ id = r.id) => hand'[v][id] = hand[v][id]
  BY <1>4 DEF LInv, TaskTypeOK
<1>6. ASSUME NEW v \in Worker, NEW id \in Id, hand'[v][id] > 0
      PROVE  \E j \in DOMAIN tasks' :
                /\ tasks'[j].id = id /\ tasks'[j].state = "claimed"
                /\ tasks'[j].by = v /\ tasks'[j].left = hand'[v][id]
  <2>1. CASE v = w /\ id = r.id
    BY <2>1, <1>1, <1>5, <1>6
  <2>2. CASE ~(v = w /\ id = r.id)
    <3>1. hand'[v][id] = hand[v][id]
      BY <2>2, <1>5
    <3>2. PICK j \in DOMAIN tasks :
             /\ tasks[j].id = id /\ tasks[j].state = "claimed"
             /\ tasks[j].by = v /\ tasks[j].left = hand[v][id]
      BY <1>6, <3>1 DEF LInv, LeaseHonoured
    <3>3. Expire(tasks)[j] = tasks[j]
      BY <1>6, <3>1, <3>2, ExpireKeeps DEF LInv
    <3>4. j # i
      BY <2>2, <3>2, <3>3
    <3>5. tasks'[j] = tasks[j]
      BY <1>1, <3>3, <3>4
    <3> QED BY <1>1, <3>1, <3>2, <3>5
  <2> QED BY <2>1, <2>2
<1> QED BY <1>1, <1>3, <1>5, <1>6 DEF LeaseHonoured

-----------------------------------------------------------------------------
(* A claim hands out a task nobody holds. *)
LEMMA ClaimStep ==
    ASSUME LInv, NEW w \in Worker, Claim(w)
    PROVE  LInv'
<1>1. PICK i \in DOMAIN tasks, seconds \in Leases :
         /\ Expire(tasks)[i].state = "todo"
         /\ tasks' = [Expire(tasks) EXCEPT ![i] = [Expire(tasks)[i] EXCEPT
                        !.state = "claimed", !.by = w, !.left = TicksTo(seconds)]]
         /\ hand' = [hand EXCEPT ![w][tasks[i].id] = TicksTo(seconds)]
  BY DEF Claim
<1>2. UNCHANGED <<phase, runLeft, stopped, ask>>
  BY DEF Claim
<1>3. TicksTo(seconds) \in Nat /\ TicksTo(seconds) > 0
  BY LeaseRuns DEF LInv
<1> DEFINE r == [Expire(tasks)[i] EXCEPT !.state = "claimed", !.by = w,
                                         !.left = TicksTo(seconds)]
<1>4. Expire(tasks)[i] \in Task /\ Expire(tasks)[i].id = tasks[i].id
  BY ExpireKeeps DEF LInv
<1>5. /\ r \in Task /\ r.id = tasks[i].id
      /\ r.state = "claimed" /\ r.by = w /\ r.left = TicksTo(seconds)
  BY <1>3, <1>4 DEF Task, States
<1>6. tasks' = [Expire(tasks) EXCEPT ![i] = r]
  BY <1>1
<1> HIDE DEF r
<1>7. /\ Expire(tasks)[i].state = "todo"
      /\ hand' = [hand EXCEPT ![w][r.id] = r.left]
  BY <1>1, <1>5
<1>8. /\ tasks' \in Seq(Task) /\ hand' \in [Worker -> [Id -> Nat]]
      /\ IdsUnique' /\ LeaseHonoured'
  BY <1>5, <1>6, <1>7, Rewritten
<1> QED BY <1>2, <1>8 DEF LInv, TaskTypeOK, GrantsWhole

(* Settling a task ends the lease of the worker that holds it. *)
LEMMA Settles ==
    ASSUME LInv, NEW w \in Worker, NEW i \in DOMAIN tasks, Settle(w, i)
    PROVE  /\ tasks' \in Seq(Task) /\ hand' \in [Worker -> [Id -> Nat]]
           /\ IdsUnique' /\ LeaseHonoured'
<1>1. PICK outcome \in {"done", "failed"} :
         /\ Holds(w, i)
         /\ tasks' = [Expire(tasks) EXCEPT ![i] = [Expire(tasks)[i] EXCEPT
                        !.state = outcome, !.by = NoWorker, !.left = 0]]
         /\ hand' = [hand EXCEPT ![w][tasks[i].id] = 0]
  BY DEF Settle
<1> DEFINE r == [Expire(tasks)[i] EXCEPT !.state = outcome, !.by = NoWorker,
                                         !.left = 0]
<1>2. /\ Expire(tasks)[i] \in Task /\ Expire(tasks)[i].id = tasks[i].id
      /\ Expire(tasks)[i] = Expired(tasks[i])
  BY ExpireKeeps DEF LInv
<1>3. r \in Task /\ r.id = tasks[i].id /\ r.left = 0
  BY <1>2 DEF Task, States
<1>4. tasks' = [Expire(tasks) EXCEPT ![i] = r]
  BY <1>1
<1> HIDE DEF r
<1>5. /\ Expire(tasks)[i].by = w
      /\ hand' = [hand EXCEPT ![w][r.id] = r.left]
  BY <1>1, <1>2, <1>3 DEF Holds
<1>6. ~(r.left > 0)
  BY <1>3
<1> QED BY <1>3, <1>4, <1>5, <1>6, Rewritten

(* Whether the application settles it or the agent's tool. *)
LEMMA ReleaseStep ==
    ASSUME LInv, NEW w \in Worker, Release(w) \/ Complete(w)
    PROVE  LInv'
<1>1. PICK i \in DOMAIN tasks : Settle(w, i)
  BY DEF Release, Complete
<1>2. /\ tasks' \in Seq(Task) /\ hand' \in [Worker -> [Id -> Nat]]
      /\ IdsUnique' /\ LeaseHonoured'
  BY <1>1, Settles
<1>3. UNCHANGED <<phase, runLeft, stopped>>
  BY DEF Release, Complete
<1>4. ask' = ask \/ ask' = [ask EXCEPT ![w] = Idle]
  BY DEF Release, Complete
<1>5. ask' \in [Worker -> Ask] /\ GrantsWhole'
  <2>1. CASE ask' = ask
    BY <2>1 DEF LInv, TaskTypeOK, GrantsWhole
  <2>2. CASE ask' = [ask EXCEPT ![w] = Idle]
    BY <2>2, IdleIsAsk, AskRewritten
  <2> QED BY <1>4, <2>1, <2>2
<1> QED BY <1>2, <1>3, <1>5 DEF LInv, TaskTypeOK

(* The tool has found a task its worker holds. *)
LEMMA AskCompletionStep ==
    ASSUME LInv, NEW w \in Worker, AskCompletion(w)
    PROVE  LInv'
<1>1. PICK i \in DOMAIN tasks :
         ask' = [ask EXCEPT ![w] = [to |-> "complete", id |-> tasks[i].id, granted |-> 0]]
  BY DEF AskCompletion
<1>2. UNCHANGED <<tasks, phase, runLeft, stopped, hand>>
  BY DEF AskCompletion
<1>3. tasks[i].id \in Id
  BY ExpireKeeps DEF LInv, Task
<1>4. ask' \in [Worker -> Ask] /\ GrantsWhole'
  <2> DEFINE q == [to |-> "complete", id |-> tasks[i].id, granted |-> 0]
  <2>1. q \in Ask /\ q.to = "complete"
    BY <1>3 DEF Ask
  <2>2. ask' = [ask EXCEPT ![w] = q]
    BY <1>1
  <2> HIDE DEF q
  <2> QED BY <2>1, <2>2, AskRewritten
<1> QED BY <1>2, <1>4 DEF LInv, TaskTypeOK, IdsUnique, LeaseHonoured

(* An extension moves the end of the lease of the worker that holds it. *)
LEMMA ExtendStep ==
    ASSUME LInv, NEW w \in Worker, Extend(w)
    PROVE  LInv'
<1> DEFINE g == ask[w].granted
<1>1. PICK i \in DOMAIN tasks :
         /\ tasks[i].id = ask[w].id
         /\ Holds(w, i)
         /\ tasks' = [Expire(tasks) EXCEPT ![i] = [Expire(tasks)[i] EXCEPT
                        !.left = TicksTo(g)]]
         /\ hand' = [hand EXCEPT ![w][ask[w].id] = TicksTo(g)]
  BY DEF Extend
<1>2. /\ ask' = [ask EXCEPT ![w] = Idle] /\ ask[w].to = "extend"
      /\ UNCHANGED <<phase, runLeft, stopped>>
  BY DEF Extend
<1>3. g \in Nat \ {0}
  <2>1. ask[w] \in Ask
    BY DEF LInv, TaskTypeOK
  <2> QED BY <1>2, <2>1 DEF LInv, GrantsWhole, Ask
<1>4. TicksTo(g) \in Nat /\ TicksTo(g) > 0
  BY <1>3, LeaseRuns DEF LInv
<1> HIDE DEF g
<1> DEFINE r == [Expire(tasks)[i] EXCEPT !.left = TicksTo(g)]
<1>5. /\ Expire(tasks)[i] \in Task /\ Expire(tasks)[i].id = tasks[i].id
      /\ Expire(tasks)[i] = Expired(tasks[i])
  BY ExpireKeeps DEF LInv
<1>6. Expire(tasks)[i].by = w /\ Expire(tasks)[i].state = "claimed"
  BY <1>1, <1>5 DEF Holds
<1>7. /\ r \in Task /\ r.id = tasks[i].id
      /\ r.state = "claimed" /\ r.by = w /\ r.left = TicksTo(g)
  BY <1>4, <1>5, <1>6 DEF Task
<1>8. tasks' = [Expire(tasks) EXCEPT ![i] = r]
  BY <1>1
<1> HIDE DEF r
<1>9. hand' = [hand EXCEPT ![w][r.id] = r.left]
  BY <1>1, <1>7
<1>10. /\ tasks' \in Seq(Task) /\ hand' \in [Worker -> [Id -> Nat]]
       /\ IdsUnique' /\ LeaseHonoured'
  BY <1>6, <1>7, <1>8, <1>9, Rewritten
<1>11. ask' \in [Worker -> Ask] /\ GrantsWhole'
  BY <1>2, IdleIsAsk, AskRewritten
<1> QED BY <1>2, <1>10, <1>11 DEF LInv, TaskTypeOK

(* A claim that finds nothing only stores the expiries. *)
LEMMA ClaimNothingStep ==
    ASSUME LInv, NEW w \in Worker, ClaimNothing(w)
    PROVE  LInv'
<1>1. tasks' = Expire(tasks) /\ UNCHANGED <<phase, runLeft, stopped, ask, hand>>
  BY DEF ClaimNothing
<1>2. TaskTypeOK' /\ GrantsWhole'
  BY <1>1, ExpireKeeps DEF LInv, TaskTypeOK, GrantsWhole
<1>3. IdsUnique'
  BY <1>1, ExpireKeeps DEF LInv, IdsUnique
<1>4. ASSUME NEW v \in Worker, NEW id \in Id, hand'[v][id] > 0
      PROVE  \E j \in DOMAIN tasks' :
                /\ tasks'[j].id = id /\ tasks'[j].state = "claimed"
                /\ tasks'[j].by = v /\ tasks'[j].left = hand'[v][id]
  <2>1. PICK j \in DOMAIN tasks :
           /\ tasks[j].id = id /\ tasks[j].state = "claimed"
           /\ tasks[j].by = v /\ tasks[j].left = hand[v][id]
    BY <1>1, <1>4 DEF LInv, LeaseHonoured
  <2>2. tasks'[j] = tasks[j] /\ j \in DOMAIN tasks'
    BY <1>1, <1>4, <2>1, ExpireKeeps DEF LInv
  <2> QED BY <1>1, <2>1, <2>2
<1>5. LeaseHonoured'
  BY <1>4 DEF LeaseHonoured
<1> QED BY <1>2, <1>3, <1>5 DEF LInv

(* A batch lands whole behind the stored tasks, with ids that are new. *)
LEMMA AddManyStep ==
    ASSUME LInv, AddMany
    PROVE  LInv'
<1>1. PICK ids \in Batches :
         /\ \A k, l \in DOMAIN ids : ids[k] = ids[l] => k = l
         /\ \A k \in DOMAIN ids : \A i \in DOMAIN tasks : tasks[i].id # ids[k]
         /\ tasks' = tasks \o [k \in DOMAIN ids |->
               [id |-> ids[k], state |-> "todo", by |-> NoWorker, left |-> 0]]
  BY DEF AddMany
<1>2. UNCHANGED <<phase, runLeft, stopped, ask, hand>>
  BY DEF AddMany
<1> DEFINE new == [k \in DOMAIN ids |->
               [id |-> ids[k], state |-> "todo", by |-> NoWorker, left |-> 0]]
<1>3. PICK n \in 1 .. 2 : ids \in [1 .. n -> Id]
  BY DEF Batches
<1>4. /\ new \in Seq(Task) /\ Len(new) = n /\ tasks \in Seq(Task)
      /\ \A k \in 1 .. n : new[k].id = ids[k]
  <2>1. DOMAIN ids = 1 .. n
    BY <1>3
  <2>2. \A k \in 1 .. n : [id |-> ids[k], state |-> "todo", by |-> NoWorker, left |-> 0]
                             \in Task
    BY <1>3 DEF Task, States
  <2>3. new \in [1 .. n -> Task] /\ n \in Nat
    BY <2>1, <2>2
  <2>4. new \in Seq(Task) /\ Len(new) = n
    BY <2>3
  <2> QED BY <2>1, <2>4 DEF LInv, TaskTypeOK
<1>5. tasks' = tasks \o new /\ DOMAIN ids = 1 .. n /\ Len(tasks) \in Nat
  BY <1>1, <1>3, <1>4
<1> HIDE DEF new
<1>6. /\ tasks' \in Seq(Task) /\ Len(tasks') = Len(tasks) + n
      /\ DOMAIN tasks = 1 .. Len(tasks) /\ DOMAIN tasks' = 1 .. Len(tasks) + n
      /\ \A i \in 1 .. Len(tasks) : tasks'[i] = tasks[i]
      /\ \A k \in 1 .. n : tasks'[Len(tasks) + k] = new[k]
  BY <1>4, <1>5
<1>7. TaskTypeOK' /\ GrantsWhole'
  BY <1>2, <1>6 DEF LInv, TaskTypeOK, GrantsWhole
<1>8. IdsUnique'
  <2>1. /\ \A k, l \in 1 .. n : ids[k] = ids[l] => k = l
        /\ \A k \in 1 .. n, i \in 1 .. Len(tasks) : tasks[i].id # ids[k]
    BY <1>1, <1>5, <1>6
  <2>2. ASSUME NEW i \in 1 .. Len(tasks) + n, i \notin 1 .. Len(tasks)
        PROVE  /\ i - Len(tasks) \in 1 .. n
               /\ tasks'[i].id = ids[i - Len(tasks)]
    <3>1. i - Len(tasks) \in 1 .. n /\ i = Len(tasks) + (i - Len(tasks))
      BY <1>5, <2>2
    <3>2. tasks'[i] = new[i - Len(tasks)]
      BY <1>6, <3>1
    <3> QED BY <1>4, <3>1, <3>2
  <2>3. ASSUME NEW i \in 1 .. Len(tasks) + n, NEW j \in 1 .. Len(tasks) + n,
               tasks'[i].id = tasks'[j].id
        PROVE  i = j
    <3>1. CASE i \in 1 .. Len(tasks) /\ j \in 1 .. Len(tasks)
      <4>1. tasks[i].id = tasks[j].id
        BY <1>6, <2>3, <3>1
      <4> QED BY <1>6, <3>1, <4>1 DEF LInv, IdsUnique
    <3>2. CASE i \notin 1 .. Len(tasks) /\ j \notin 1 .. Len(tasks)
      <4>1. i - Len(tasks) = j - Len(tasks)
        BY <2>1, <2>2, <2>3, <3>2
      <4> QED BY <1>5, <4>1
    <3>3. CASE i \in 1 .. Len(tasks) /\ j \notin 1 .. Len(tasks)
      <4>1. tasks'[i].id = tasks[i].id
        BY <1>6, <3>3
      <4>2. tasks[i].id = ids[j - Len(tasks)] /\ j - Len(tasks) \in 1 .. n
        BY <2>2, <2>3, <3>3, <4>1
      <4> QED BY <2>1, <3>3, <4>2
    <3>4. CASE i \notin 1 .. Len(tasks) /\ j \in 1 .. Len(tasks)
      <4>1. tasks'[j].id = tasks[j].id
        BY <1>6, <3>4
      <4>2. tasks[j].id = ids[i - Len(tasks)] /\ i - Len(tasks) \in 1 .. n
        BY <2>2, <2>3, <3>4, <4>1
      <4> QED BY <2>1, <3>4, <4>2
    <3> QED BY <3>1, <3>2, <3>3, <3>4
  <2> QED BY <1>6, <2>3 DEF IdsUnique
<1>9. LeaseHonoured'
  BY <1>2, <1>5, <1>6 DEF LInv, LeaseHonoured
<1> QED BY <1>7, <1>8, <1>9 DEF LInv

(* The first half of extend_lease grants whole seconds, at least one. *)
LEMMA AskExtensionStep ==
    ASSUME LInv, NEW w \in Worker, AskExtension(w)
    PROVE  LInv'
<1> DEFINE remaining == runLeft[w] \div TicksPerSecond
<1>1. PICK i \in DOMAIN tasks, seconds \in Leases :
         ask' = [ask EXCEPT ![w] =
             [to |-> "extend", id |-> tasks[i].id,
              granted |-> IF w \in Capped THEN Smaller(seconds, remaining)
                          ELSE seconds]]
  BY DEF AskExtension
<1>2. /\ w \in Capped => remaining > 0
      /\ UNCHANGED <<tasks, phase, runLeft, stopped, hand>>
  BY DEF AskExtension
<1>3. remaining \in Nat /\ seconds \in Nat /\ seconds > 0
  <2>1. runLeft[w] \in Nat
    BY DEF LInv, TaskTypeOK
  <2>2. TicksPerSecond \in Nat /\ TicksPerSecond > 0
    OBVIOUS
  <2>3. runLeft[w] \div TicksPerSecond \in Nat
    BY <2>1, <2>2
  <2> QED BY <2>3
<1> HIDE DEF remaining
<1> DEFINE g == IF w \in Capped THEN Smaller(seconds, remaining) ELSE seconds
<1>4. g \in Nat /\ g > 0
  BY <1>2, <1>3 DEF Smaller
<1>5. tasks[i].id \in Id
  BY ExpireKeeps DEF LInv, Task
<1>6. ask' = [ask EXCEPT ![w] = [to |-> "extend", id |-> tasks[i].id, granted |-> g]]
  BY <1>1
<1> HIDE DEF g
<1>7. ask' \in [Worker -> Ask] /\ GrantsWhole'
  <2> DEFINE q == [to |-> "extend", id |-> tasks[i].id, granted |-> g]
  <2>1. q \in Ask /\ q.granted > 0
    BY <1>4, <1>5 DEF Ask
  <2>2. ask' = [ask EXCEPT ![w] = q]
    BY <1>6
  <2> HIDE DEF q
  <2> QED BY <2>1, <2>2, AskRewritten
<1> QED BY <1>2, <1>7 DEF LInv, TaskTypeOK, IdsUnique, LeaseHonoured

(* The clock runs for the stored lease and for the worker alike. *)
LEMMA TickStep ==
    ASSUME LInv, Tick
    PROVE  LInv'
<1>1. /\ phase' = (phase + 1) % TicksPerSecond
      /\ tasks' = [i \in DOMAIN tasks |-> [tasks[i] EXCEPT !.left = Sooner(@)]]
      /\ runLeft' = [w \in Worker |-> Sooner(runLeft[w])]
      /\ hand' = [w \in Worker |-> [id \in Id |-> Sooner(hand[w][id])]]
      /\ UNCHANGED <<stopped, ask>>
  BY DEF Tick
<1>2. \A n \in Nat : Sooner(n) \in Nat /\ (Sooner(n) > 0 => n > 0)
  BY DEF Sooner
<1>3. phase' \in 0 .. TicksPerSecond - 1
  BY <1>1 DEF LInv, TaskTypeOK
<1>4. tasks \in [1 .. Len(tasks) -> Task] /\ Len(tasks) \in Nat
      /\ DOMAIN tasks = 1 .. Len(tasks)
  BY DEF LInv, TaskTypeOK
<1>5. ASSUME NEW r \in Task
      PROVE  /\ [r EXCEPT !.left = Sooner(@)] \in Task
             /\ [r EXCEPT !.left = Sooner(@)].id = r.id
             /\ [r EXCEPT !.left = Sooner(@)].state = r.state
             /\ [r EXCEPT !.left = Sooner(@)].by = r.by
             /\ [r EXCEPT !.left = Sooner(@)].left = Sooner(r.left)
  BY <1>2 DEF Task
<1>6. /\ tasks' \in [1 .. Len(tasks) -> Task]
      /\ DOMAIN tasks' = DOMAIN tasks
      /\ \A i \in DOMAIN tasks :
            /\ tasks'[i].id = tasks[i].id /\ tasks'[i].state = tasks[i].state
            /\ tasks'[i].by = tasks[i].by /\ tasks'[i].left = Sooner(tasks[i].left)
  BY <1>1, <1>4, <1>5
<1>7. tasks' \in Seq(Task)
  BY <1>4, <1>6
<1>8. /\ runLeft' \in [Worker -> Nat]
      /\ hand' \in [Worker -> [Id -> Nat]]
      /\ \A v \in Worker, id \in Id :
            hand[v][id] \in Nat /\ hand'[v][id] = Sooner(hand[v][id])
  BY <1>1, <1>2 DEF LInv, TaskTypeOK
<1>9. TaskTypeOK' /\ GrantsWhole'
  BY <1>1, <1>3, <1>7, <1>8 DEF LInv, TaskTypeOK, GrantsWhole
<1>10. IdsUnique'
  BY <1>6 DEF LInv, IdsUnique
<1>11. ASSUME NEW v \in Worker, NEW id \in Id, hand'[v][id] > 0
       PROVE  \E j \in DOMAIN tasks' :
                 /\ tasks'[j].id = id /\ tasks'[j].state = "claimed"
                 /\ tasks'[j].by = v /\ tasks'[j].left = hand'[v][id]
  <2>1. hand[v][id] > 0
    <3>1. hand[v][id] \in Nat /\ Sooner(hand[v][id]) > 0
      BY <1>8, <1>11
    <3> QED BY <1>2, <3>1
  <2>2. PICK j \in DOMAIN tasks :
           /\ tasks[j].id = id /\ tasks[j].state = "claimed"
           /\ tasks[j].by = v /\ tasks[j].left = hand[v][id]
    BY <2>1 DEF LInv, LeaseHonoured
  <2>3. /\ j \in DOMAIN tasks' /\ tasks'[j].id = id
        /\ tasks'[j].state = "claimed" /\ tasks'[j].by = v
        /\ tasks'[j].left = hand'[v][id]
    BY <1>6, <1>8, <2>2
  <2> QED BY <2>3
<1>12. LeaseHonoured'
  BY <1>11 DEF LeaseHonoured
<1> QED BY <1>9, <1>10, <1>12 DEF LInv

(* The invariant holds of the empty list and of workers told nothing.      *)
LEMMA InitLInv == Init => LInv
BY DEF Init, LInv, TaskTypeOK, IdsUnique, LeaseHonoured, GrantsWhole, Idle, Task, Ask

(* Every step keeps the invariant. *)
LEMMA NextLInv == LInv /\ [Next]_vars => LInv'
<1> SUFFICES ASSUME LInv, [Next]_vars PROVE LInv'
  OBVIOUS
<1>1. CASE AddMany
  BY <1>1, AddManyStep
<1>2. CASE Tick
  BY <1>2, TickStep
<1>3. ASSUME NEW w \in Worker, WorkerStep(w) PROVE LInv'
  <2>1. CASE Claim(w)
    BY <2>1, ClaimStep
  <2>2. CASE ClaimNothing(w)
    BY <2>2, ClaimNothingStep
  <2>3. CASE Release(w) \/ Complete(w)
    BY <2>3, ReleaseStep
  <2>4. CASE AskExtension(w)
    BY <2>4, AskExtensionStep
  <2>5. CASE Extend(w)
    BY <2>5, ExtendStep
  <2>6. CASE Refused(w)
    <3>1. ask' \in [Worker -> Ask] /\ GrantsWhole'
      BY <2>6, IdleIsAsk, AskRewritten DEF Refused
    <3> QED BY <2>6, <3>1 DEF Refused, LInv, TaskTypeOK, IdsUnique, LeaseHonoured
  <2>7. CASE Stop(w)
    BY <2>7 DEF Stop, LInv, TaskTypeOK, IdsUnique, LeaseHonoured, GrantsWhole
  <2>8. CASE AskCompletion(w)
    BY <2>8, AskCompletionStep
  <2> QED BY <1>3, <2>1, <2>2, <2>3, <2>4, <2>5, <2>6, <2>7, <2>8 DEF WorkerStep
<1>4. CASE UNCHANGED vars
  BY <1>4 DEF vars, LInv, TaskTypeOK, IdsUnique, LeaseHonoured, GrantsWhole
<1> QED BY <1>1, <1>2, <1>3, <1>4 DEF Next

(* The stored list and what the workers were told agree at every moment.   *)
THEOREM LeaseInvariance == Spec => []LInv
BY InitLInv, NextLInv, PTL DEF Spec

-----------------------------------------------------------------------------
(* The stored list keeps its shape: no lease is negative, no grant empty.  *)
THEOREM TaskTypeCorrect == Spec => []TaskTypeOK
<1>1. LInv => TaskTypeOK
  BY DEF LInv
<1> QED BY <1>1, LeaseInvariance, PTL

(* add_many never stores an id twice. *)
THEOREM UniqueIds == Spec => []IdsUnique
<1>1. LInv => IdsUnique
  BY DEF LInv
<1> QED BY <1>1, LeaseInvariance, PTL

(* A worker inside the lease it was told of is the stored holder. *)
THEOREM HonouredLeases == Spec => []LeaseHonoured
<1>1. LInv => LeaseHonoured
  BY DEF LInv
<1> QED BY <1>1, LeaseInvariance, PTL

(* No two workers are inside a lease on the same task at the same moment.  *)
THEOREM OneHolder == Spec => []LeasesExclusive
<1>1. LInv => LeasesExclusive
  <2>1. SUFFICES ASSUME LInv, NEW v \in Worker, NEW w \in Worker, NEW id \in Id,
                        hand[v][id] > 0, hand[w][id] > 0
                 PROVE  v = w
    BY DEF LeasesExclusive
  <2>2. PICK i \in DOMAIN tasks : tasks[i].id = id /\ tasks[i].by = v
    BY <2>1 DEF LInv, LeaseHonoured
  <2>3. PICK j \in DOMAIN tasks : tasks[j].id = id /\ tasks[j].by = w
    BY <2>1 DEF LInv, LeaseHonoured
  <2>4. i = j
    BY <2>1, <2>2, <2>3 DEF LInv, IdsUnique
  <2> QED BY <2>2, <2>3, <2>4
<1> QED BY <1>1, LeaseInvariance, PTL

-----------------------------------------------------------------------------
(* What the contract sees of a record.                                     *)
Shown(r) == [id |-> r.id, state |-> r.state, by |-> r.by]

(* records() and find() show the expired list, record by record.           *)
LEMMA ViewIs ==
    ASSUME TaskTypeOK
    PROVE  /\ DOMAIN View = DOMAIN tasks
           /\ View = [i \in DOMAIN tasks |-> Shown(Expire(tasks)[i])]
           /\ \A i \in DOMAIN tasks : View[i] = Shown(Expire(tasks)[i])
BY ExpireKeeps DEF View, Shown

(* Expiring twice is expiring once. *)
LEMMA ExpiredStays == ASSUME NEW r \in Task PROVE Expired(Expired(r)) = Expired(r)
<1>1. CASE Lapsed(r)
  <2>1. Expired(r).state = "todo"
    BY <1>1 DEF Expired, Task
  <2> QED BY <2>1 DEF Expired, Lapsed
<1>2. CASE ~Lapsed(r)
  BY <1>2 DEF Expired
<1> QED BY <1>1, <1>2

(* Claim, release and extend_lease show one record anew and no other.      *)
LEMMA ViewRewritten ==
    ASSUME LInv, NEW i \in DOMAIN tasks, NEW r \in Task, ~Lapsed(r),
           tasks' = [Expire(tasks) EXCEPT ![i] = r]
    PROVE  View' = [View EXCEPT ![i] = Shown(r)]
<1>1. /\ DOMAIN tasks' = DOMAIN tasks /\ tasks'[i] = r
      /\ \A j \in DOMAIN tasks \ {i} : tasks'[j] = Expire(tasks)[j]
  BY ExpireKeeps, SeqExcept DEF LInv
<1>2. ASSUME NEW j \in DOMAIN tasks
      PROVE  Shown(Expired(tasks'[j])) = IF j = i THEN Shown(r) ELSE View[j]
  <2>1. CASE j = i
    BY <1>1, <2>1 DEF Expired
  <2>2. CASE j # i
    <3>1. tasks'[j] = Expired(tasks[j]) /\ tasks[j] \in Task
      BY <1>1, <2>2, ExpireKeeps DEF LInv, TaskTypeOK
    <3>2. Shown(Expired(tasks'[j])) = Shown(Expired(tasks[j]))
      BY <3>1, ExpiredStays
    <3> QED BY <2>2, <3>2, ViewIs, ExpireKeeps DEF LInv
  <2> QED BY <2>1, <2>2
<1>3. View' = [j \in DOMAIN tasks |-> Shown(Expired(tasks'[j]))]
  BY <1>1 DEF View, Shown
<1>4. View' = [j \in DOMAIN tasks |-> IF j = i THEN Shown(r) ELSE View[j]]
  BY <1>2, <1>3
<1> QED BY <1>4, ViewIs DEF LInv

(* A claim takes the earliest claimable task. *)
LEMMA ClaimTakes ==
    ASSUME LInv, NEW w \in Worker, Claim(w)
    PROVE  \E i \in DOMAIN View : Contract!Take(w, i)
<1>1. PICK i \in DOMAIN tasks, seconds \in Leases :
         /\ Expire(tasks)[i].state = "todo"
         /\ \A j \in 1 .. i - 1 : Expire(tasks)[j].state # "todo"
         /\ tasks' = [Expire(tasks) EXCEPT ![i] = [Expire(tasks)[i] EXCEPT
                        !.state = "claimed", !.by = w, !.left = TicksTo(seconds)]]
  BY DEF Claim
<1>2. TicksTo(seconds) \in Nat /\ TicksTo(seconds) > 0
  BY LeaseRuns DEF LInv
<1> DEFINE r == [Expire(tasks)[i] EXCEPT !.state = "claimed", !.by = w,
                                         !.left = TicksTo(seconds)]
<1>3. Expire(tasks)[i] \in Task
  BY ExpireKeeps DEF LInv
<1>4. /\ r \in Task /\ r.id = Expire(tasks)[i].id
      /\ r.state = "claimed" /\ r.by = w /\ r.left = TicksTo(seconds)
  BY <1>2, <1>3 DEF Task, States
<1>5. tasks' = [Expire(tasks) EXCEPT ![i] = r]
  BY <1>1
<1> HIDE DEF r
<1>6. View' = [View EXCEPT ![i] = Shown(r)]
  <2>1. ~Lapsed(r)
    BY <1>2, <1>4 DEF Lapsed
  <2> QED BY <1>4, <1>5, <2>1, ViewRewritten
<1>7. /\ i \in DOMAIN View /\ View[i] = Shown(Expire(tasks)[i])
      /\ \A j \in 1 .. i - 1 : j \in DOMAIN tasks /\ View[j] = Shown(Expire(tasks)[j])
  BY ViewIs, ExpireKeeps DEF LInv, TaskTypeOK
<1>8. View' = [View EXCEPT ![i].state = "claimed", ![i].by = w]
  <2> DEFINE e == [View[i] EXCEPT !.state = "claimed", !.by = w]
  <2>0. View[i] \in [id : {r.id}, state : States, by : Worker \cup {NoWorker}]
    BY <1>3, <1>4, <1>7 DEF Shown, Task
  <2>1. e \in [id : {r.id}, state : {"claimed"}, by : {w}]
    BY <2>0
  <2>2. Shown(r) \in [id : {r.id}, state : {"claimed"}, by : {w}]
    BY <1>4 DEF Shown
  <2> HIDE DEF e
  <2>3. Shown(r) = e
    BY <2>1, <2>2
  <2> QED BY <1>6, <1>7, <2>3 DEF e
<1>9. Contract!Todo(i) /\ \A j \in 1 .. i - 1 : ~Contract!Todo(j)
  <2>1. View[i].state = "todo"
    BY <1>1, <1>7 DEF Shown
  <2>2. ASSUME NEW j \in 1 .. i - 1 PROVE View[j].state # "todo"
    <3>1. View[j] = Shown(Expire(tasks)[j]) /\ Expire(tasks)[j].state # "todo"
      BY <1>1, <1>7
    <3> QED BY <3>1 DEF Shown
  <2> QED BY <2>1, <2>2 DEF Contract!Todo
<1> QED BY <1>7, <1>8, <1>9 DEF Contract!Take

(* The holder's release is a settlement. *)
LEMMA SettleSettles ==
    ASSUME LInv, NEW w \in Worker, NEW i \in DOMAIN tasks, Settle(w, i)
    PROVE  \E outcome \in {"done", "failed"} : Contract!Settle(w, i, outcome)
<1>1. PICK outcome \in {"done", "failed"} :
         /\ Holds(w, i)
         /\ tasks' = [Expire(tasks) EXCEPT ![i] = [Expire(tasks)[i] EXCEPT
                        !.state = outcome, !.by = NoWorker, !.left = 0]]
  BY DEF Settle
<1> DEFINE r == [Expire(tasks)[i] EXCEPT !.state = outcome, !.by = NoWorker,
                                         !.left = 0]
<1>2. Expire(tasks)[i] \in Task /\ Expire(tasks)[i] = Expired(tasks[i])
  BY ExpireKeeps DEF LInv
<1>3. /\ r \in Task /\ r.id = Expire(tasks)[i].id
      /\ r.state = outcome /\ r.by = NoWorker /\ r.left = 0
  BY <1>2 DEF Task, States
<1>4. tasks' = [Expire(tasks) EXCEPT ![i] = r]
  BY <1>1
<1> HIDE DEF r
<1>5. View' = [View EXCEPT ![i] = Shown(r)]
  BY <1>3, <1>4, ViewRewritten DEF Lapsed
<1>6. i \in DOMAIN View /\ View[i] = Shown(Expire(tasks)[i])
  BY ViewIs DEF LInv
<1>7. View' = [View EXCEPT ![i].state = outcome, ![i].by = NoWorker]
  <2> DEFINE e == [View[i] EXCEPT !.state = outcome, !.by = NoWorker]
  <2>0. View[i] \in [id : {r.id}, state : States, by : Worker \cup {NoWorker}]
    BY <1>2, <1>3, <1>6 DEF Shown, Task
  <2>1. e \in [id : {r.id}, state : {outcome}, by : {NoWorker}]
    BY <2>0
  <2>2. Shown(r) \in [id : {r.id}, state : {outcome}, by : {NoWorker}]
    BY <1>3 DEF Shown
  <2> HIDE DEF e
  <2>3. Shown(r) = e
    BY <2>1, <2>2
  <2> QED BY <1>5, <1>6, <2>3 DEF e
<1>8. View[i].state = "claimed" /\ View[i].by = w
  BY <1>1, <1>2, <1>6 DEF Holds, Shown
<1> QED BY <1>7, <1>8 DEF Contract!Settle

(* An extension moves the end of a lease, which the contract does not show.*)
LEMMA ExtendUnseen ==
    ASSUME LInv, NEW w \in Worker, Extend(w)
    PROVE  View' = View
<1> DEFINE g == ask[w].granted
<1>1. PICK i \in DOMAIN tasks :
         tasks' = [Expire(tasks) EXCEPT ![i] = [Expire(tasks)[i] EXCEPT
                        !.left = TicksTo(g)]]
  BY DEF Extend
<1>2. g \in Nat \ {0}
  <2>1. ask[w] \in Ask /\ ask[w].to = "extend"
    BY DEF LInv, TaskTypeOK, Extend
  <2> QED BY <2>1 DEF LInv, GrantsWhole, Ask
<1>3. TicksTo(g) \in Nat /\ TicksTo(g) > 0
  BY <1>2, LeaseRuns DEF LInv
<1> HIDE DEF g
<1> DEFINE r == [Expire(tasks)[i] EXCEPT !.left = TicksTo(g)]
<1>4. Expire(tasks)[i] \in Task
  BY ExpireKeeps DEF LInv
<1>5. r \in Task /\ r.left > 0 /\ Shown(r) = Shown(Expire(tasks)[i])
  BY <1>3, <1>4 DEF Task, Shown
<1>6. tasks' = [Expire(tasks) EXCEPT ![i] = r]
  BY <1>1
<1> HIDE DEF r
<1>7. View' = [View EXCEPT ![i] = Shown(r)]
  <2>1. ~Lapsed(r)
    BY <1>5 DEF Lapsed
  <2> QED BY <1>5, <1>6, <2>1, ViewRewritten
<1> QED BY <1>5, <1>7, ViewIs DEF LInv

(* Neither does it show that a claim stored expiries and found nothing.    *)
LEMMA ClaimNothingUnseen ==
    ASSUME LInv, NEW w \in Worker, ClaimNothing(w)
    PROVE  View' = View
<1>1. tasks' = Expire(tasks)
  BY DEF ClaimNothing
<1>2. ASSUME NEW i \in DOMAIN tasks
      PROVE  Expired(tasks'[i]) = Expired(tasks[i])
  <2>1. tasks'[i] = Expired(tasks[i]) /\ tasks[i] \in Task
    BY <1>1, ExpireKeeps DEF LInv, TaskTypeOK
  <2> QED BY <2>1, ExpiredStays
<1>3. DOMAIN tasks' = DOMAIN tasks
  BY <1>1, ExpireKeeps DEF LInv
<1>4. View = [i \in DOMAIN tasks |-> Shown(Expired(tasks[i]))]
  BY DEF View, Shown
<1>5. View' = [i \in DOMAIN tasks |-> Shown(Expired(tasks'[i]))]
  BY <1>3 DEF View, Shown
<1> QED BY <1>2, <1>4, <1>5

(* A batch arrives behind the tasks that are there. *)
LEMMA AddManyArrives ==
    ASSUME LInv, AddMany
    PROVE  Contract!Next
<1>1. PICK ids \in Batches :
         /\ \A k, l \in DOMAIN ids : ids[k] = ids[l] => k = l
         /\ \A k \in DOMAIN ids : \A i \in DOMAIN tasks : tasks[i].id # ids[k]
         /\ tasks' = tasks \o [k \in DOMAIN ids |->
               [id |-> ids[k], state |-> "todo", by |-> NoWorker, left |-> 0]]
  BY DEF AddMany
<1>2. PICK n \in 1 .. 2 : ids \in [1 .. n -> Id]
  BY DEF Batches
<1> DEFINE new == [k \in 1 .. n |->
               [id |-> ids[k], state |-> "todo", by |-> NoWorker, left |-> 0]]
           seen == [k \in 1 .. n |-> [id |-> ids[k], state |-> "todo", by |-> NoWorker]]
<1>3. DOMAIN ids = 1 .. n /\ n \in Nat
  BY <1>2
<1>4. /\ new \in Seq(Task) /\ Len(new) = n
      /\ \A k \in 1 .. n : Shown(Expired(new[k])) = seen[k]
  <2>1. \A k \in 1 .. n :
           LET r == [id |-> ids[k], state |-> "todo", by |-> NoWorker, left |-> 0]
           IN  r \in Task /\ Expired(r) = r /\ Shown(r) = seen[k]
    BY <1>2 DEF Task, States, Expired, Lapsed, Shown
  <2>2. new \in [1 .. n -> Task]
    BY <2>1
  <2>3. new \in Seq(Task) /\ Len(new) = n
    BY <1>3, <2>2
  <2> QED BY <2>1, <2>3
<1>5. tasks' = tasks \o new
  BY <1>1, <1>3
<1> HIDE DEF new
<1>6. /\ Len(tasks) \in Nat /\ DOMAIN tasks = 1 .. Len(tasks)
      /\ DOMAIN tasks' = 1 .. Len(tasks) + n
      /\ \A i \in 1 .. Len(tasks) : tasks'[i] = tasks[i]
      /\ \A i \in 1 .. Len(tasks) + n :
            i > Len(tasks) => tasks'[i] = new[i - Len(tasks)]
  BY <1>3, <1>4, <1>5 DEF LInv, TaskTypeOK
<1> DEFINE Row == [id : Id, state : States, by : Worker \cup {NoWorker}]
<1>7. Len(tasks) \in Nat /\ View \in Seq(Row) /\ Len(View) = Len(tasks)
  <2>1. Len(tasks) \in Nat /\ DOMAIN View = 1 .. Len(tasks)
    BY <1>6, ViewIs DEF LInv
  <2>2. ASSUME NEW i \in 1 .. Len(tasks) PROVE View[i] \in Row
    <3>1. View[i] = Shown(Expire(tasks)[i]) /\ Expire(tasks)[i] \in Task
      BY <1>6, ViewIs, ExpireKeeps DEF LInv
    <3> QED BY <3>1 DEF Task, Shown
  <2>3. View = [i \in 1 .. Len(tasks) |-> View[i]]
    BY <1>6, ViewIs DEF LInv
  <2>4. View \in [1 .. Len(tasks) -> Row]
    BY <2>2, <2>3
  <2> HIDE DEF Row
  <2> QED BY <2>1, <2>4
<1>8. seen \in Seq(Row) /\ Len(seen) = n
  <2>1. seen \in [1 .. n -> Row]
    BY <1>2 DEF States
  <2> HIDE DEF Row, seen
  <2> QED BY <1>3, <2>1
<1> HIDE DEF seen, Row
<1>9. View' = [i \in 1 .. Len(tasks) + n |-> Shown(Expired(tasks'[i]))]
  BY <1>6 DEF View, Shown
<1>10. /\ View \o seen \in [1 .. Len(tasks) + n -> Row]
       /\ \A i \in 1 .. Len(tasks) + n :
             (View \o seen)[i] = IF i <= Len(tasks) THEN View[i] ELSE seen[i - Len(tasks)]
  <2>1. View \o seen \in Seq(Row) /\ Len(View \o seen) = Len(tasks) + n
    BY <1>7, <1>8
  <2>2. \A i \in 1 .. Len(tasks) + n :
           (View \o seen)[i] = IF i <= Len(View) THEN View[i] ELSE seen[i - Len(View)]
    BY <1>3, <1>7, <1>8
  <2> DEFINE both == View \o seen
  <2>3. both \in Seq(Row) /\ Len(both) = Len(tasks) + n
    BY <2>1
  <2> HIDE DEF both
  <2>4. both \in [1 .. Len(tasks) + n -> Row]
    BY <2>3
  <2> QED BY <1>7, <2>2, <2>4 DEF both
<1>11. View' = View \o seen
  <2>1. ASSUME NEW i \in 1 .. Len(tasks) + n
        PROVE  Shown(Expired(tasks'[i])) = (View \o seen)[i]
    <3>1. CASE i <= Len(tasks)
      <4>1. i \in DOMAIN tasks /\ tasks'[i] = tasks[i]
        BY <1>3, <1>6, <1>7, <3>1
      <4>2. Shown(Expired(tasks[i])) = View[i]
        BY <4>1, ViewIs, ExpireKeeps DEF LInv
      <4> QED BY <1>10, <3>1, <4>1, <4>2
    <3>2. CASE ~(i <= Len(tasks))
      <4>1. i - Len(tasks) \in 1 .. n /\ i > Len(tasks)
        BY <1>3, <1>7, <3>2
      <4>2. Shown(Expired(tasks'[i])) = seen[i - Len(tasks)]
        BY <1>4, <1>6, <4>1
      <4> QED BY <1>10, <3>2, <4>2
    <3> QED BY <3>1, <3>2
  <2>2. View \o seen = [i \in 1 .. Len(tasks) + n |-> (View \o seen)[i]]
    BY <1>10
  <2> QED BY <1>9, <2>1, <2>2
<1>12. \A k \in DOMAIN ids : \A i \in DOMAIN View : View[i].id # ids[k]
  BY <1>1, ViewIs, ExpireKeeps DEF LInv, Shown
<1>13. Contract!Arrive(ids)
  BY <1>1, <1>3, <1>11, <1>12 DEF Contract!Arrive, seen
<1> QED BY <1>2, <1>13 DEF Contract!Next

(* The leases the clock ends are tasks that lapse; it fails none of them.  *)
LEMMA TickLapses ==
    ASSUME LInv, Tick
    PROVE  Contract!Next
<1> DEFINE S == {i \in DOMAIN tasks : tasks[i].state = "claimed" /\ tasks[i].left = 1}
<1>1. tasks' = [i \in DOMAIN tasks |-> [tasks[i] EXCEPT !.left = Sooner(@)]]
  BY DEF Tick
<1>2. \A i \in DOMAIN tasks : tasks[i] \in Task /\ View[i] = Shown(Expired(tasks[i]))
  BY ViewIs, ExpireKeeps DEF LInv, TaskTypeOK
<1>3. ASSUME NEW i \in DOMAIN tasks
      PROVE  /\ i \in S => View[i].state = "claimed"
             /\ Shown(Expired(tasks'[i])) =
                   IF i \in S THEN [View[i] EXCEPT !.state = "todo", !.by = NoWorker]
                   ELSE View[i]
  <2> DEFINE q == tasks[i]
             r == [q EXCEPT !.left = Sooner(q.left)]
  <2>1. q \in Task /\ tasks'[i] = r /\ View[i] = Shown(Expired(q))
    BY <1>1, <1>2
  <2>2. i \in S <=> q.state = "claimed" /\ q.left = 1
    OBVIOUS
  <2> HIDE DEF q, S
  <2>3. /\ r.left = Sooner(q.left) /\ r.id = q.id /\ r.state = q.state /\ r.by = q.by
        /\ r \in Task /\ q.left \in Nat
    BY <2>1 DEF Task, Sooner
  <2> HIDE DEF r
  <2>4. ASSUME NEW p \in Task
        PROVE  Shown(Expired(p)) = IF Lapsed(p)
                 THEN [id |-> p.id, state |-> "todo", by |-> NoWorker]
                 ELSE [id |-> p.id, state |-> p.state, by |-> p.by]
    BY DEF Shown, Expired, Task
  <2>5. CASE i \in S
    <3>1. ~Lapsed(q) /\ Lapsed(r)
      BY <2>2, <2>3, <2>5 DEF Lapsed, Sooner
    <3>2. View[i] = [id |-> q.id, state |-> "claimed", by |-> q.by]
      BY <2>1, <2>2, <2>4, <2>5, <3>1
    <3>3. Shown(Expired(r)) = [id |-> q.id, state |-> "todo", by |-> NoWorker]
      BY <2>3, <2>4, <3>1
    <3>4. [View[i] EXCEPT !.state = "todo", !.by = NoWorker]
            = [id |-> q.id, state |-> "todo", by |-> NoWorker]
      <4> DEFINE e == [View[i] EXCEPT !.state = "todo", !.by = NoWorker]
      <4>0. View[i] \in [id : {q.id}, state : {"claimed"}, by : {q.by}]
        BY <3>2
      <4>1. e \in [id : {q.id}, state : {"todo"}, by : {NoWorker}]
        BY <4>0
      <4> HIDE DEF e
      <4>2. e = [id |-> q.id, state |-> "todo", by |-> NoWorker]
        BY <4>1
      <4> QED BY <4>2 DEF e
    <3> QED BY <2>1, <2>5, <3>2, <3>3, <3>4
  <2>6. CASE i \notin S
    <3>1. Lapsed(q) <=> Lapsed(r)
      BY <2>2, <2>3, <2>6 DEF Lapsed, Sooner
    <3>2. Shown(Expired(r)) = Shown(Expired(q))
      BY <2>1, <2>3, <2>4, <3>1
    <3> QED BY <2>1, <2>6, <3>2
  <2> QED BY <2>5, <2>6
<1>4. DOMAIN View = DOMAIN tasks /\ DOMAIN tasks' = DOMAIN tasks
  BY <1>1, ViewIs DEF LInv
<1>5. View' = [i \in DOMAIN tasks |-> Shown(Expired(tasks'[i]))]
  BY <1>4 DEF View, Shown
<1> HIDE DEF S
<1>6. View' = [i \in DOMAIN View |->
                 IF i \in S THEN [View[i] EXCEPT !.state = "todo", !.by = NoWorker]
                 ELSE View[i]]
  BY <1>3, <1>4, <1>5
<1>7. S \in SUBSET DOMAIN View
  BY <1>4 DEF S
<1>8. \A i \in S : View[i].state = "claimed"
  BY <1>3, <1>4, <1>7
<1>9. Contract!Lapse(S)
  BY <1>6, <1>8 DEF Contract!Lapse
<1> QED BY <1>7, <1>9 DEF Contract!Next

(* The stored list keeps the contract of a task source: a claim takes the  *)
(* earliest claimable task, only its holder settles it, a lapsed claim is  *)
(* claimable again, and nothing else changes what records() shows.         *)
THEOREM KeepsContract == Spec => ImplementsContract
<1>1. Init => Contract!Init
  BY DEF Init, Contract!Init, View
<1>2. ASSUME LInv, [Next]_vars PROVE [Contract!Next]_View
  <2>1. CASE AddMany
    BY <1>2, <2>1, AddManyArrives
  <2>2. CASE Tick
    BY <1>2, <2>2, TickLapses
  <2>3. ASSUME NEW w \in Worker, Claim(w) PROVE Contract!Next
    BY <1>2, <2>3, ClaimTakes DEF Contract!Next
  <2>4. ASSUME NEW w \in Worker, Release(w) \/ Complete(w) PROVE Contract!Next
    <3>1. PICK i \in DOMAIN tasks : Settle(w, i)
      BY <2>4 DEF Release, Complete
    <3>2. i \in DOMAIN View
      BY <1>2, ViewIs DEF LInv
    <3> QED BY <1>2, <3>1, <3>2, SettleSettles DEF Contract!Next
  <2>5. ASSUME NEW w \in Worker, Extend(w) \/ ClaimNothing(w) PROVE View' = View
    BY <1>2, <2>5, ExtendUnseen, ClaimNothingUnseen
  <2>6. ASSUME NEW w \in Worker,
               AskCompletion(w) \/ AskExtension(w) \/ Refused(w) \/ Stop(w)
        PROVE  View' = View
    BY <2>6 DEF AskCompletion, AskExtension, Refused, Stop, View
  <2>7. CASE UNCHANGED vars
    BY <2>7 DEF vars, View
  <2> QED BY <1>2, <2>1, <2>2, <2>3, <2>4, <2>5, <2>6, <2>7 DEF Next, WorkerStep
<1> QED BY <1>1, <1>2, LeaseInvariance, PTL DEF Spec, ImplementsContract, Contract!Spec
=============================================================================
