------------------------------ MODULE TaskList ------------------------------
(***************************************************************************)
(* StoreTaskSource (tasks.py): the task list a harness keeps in its        *)
(* durable store, and the workers that claim, extend and release tasks.    *)
(*                                                                         *)
(* The store's lock makes the body of claim, release, add_many and the     *)
(* second half of extend_lease one step each (AbstractLock).  Time passes  *)
(* in ticks, TicksPerSecond of them a second, because claimed_until is a   *)
(* whole second and the clock is not.  Deadlines are kept as the ticks     *)
(* left to them: claimed_until is now + left, and left = 0 once the lease  *)
(* is over.                                                                *)
(***************************************************************************)
EXTENDS Naturals, Sequences

CONSTANTS
    Worker,         \* the names workers claim under
    Id,             \* task ids
    AutoId,         \* the id add_many makes up for each position, "t-1", "t-2", ...
    Explicit,       \* the ids callers choose themselves
    MaxTasks,       \* bound on the length of the list
    TicksPerSecond, \* resolution of the clock
    Leases,         \* the lease lengths asked for, in seconds
    RunTicks,       \* the wall-clock budget of a run, in ticks
    Capped,         \* the workers whose run has such a budget
    NoWorker, NoAsk

ASSUME TaskAssumption ==
    /\ MaxTasks \in Nat
    /\ TicksPerSecond \in Nat \ {0}
    /\ Leases \subseteq Nat \ {0}
    /\ RunTicks \in Nat
    /\ Capped \subseteq Worker
    /\ NoWorker \notin Worker
    /\ AutoId \in [1 .. MaxTasks -> Id]
    /\ \A k, l \in 1 .. MaxTasks : AutoId[k] = AutoId[l] => k = l
    /\ Explicit \subseteq Id
    /\ NoAsk \notin Id

VARIABLES
    tasks,      \* the stored list: each [id, state, by, left]
    phase,      \* ticks into the current second
    runLeft,    \* ticks left to the run of each worker
    stopped,    \* workers whose run is cancelled, or out of steps or money
    ask,        \* the extension or completion a worker waits for the lock with
    hand        \* ticks left to the lease a worker was last told it has

vars == <<tasks, phase, runLeft, stopped, ask, hand>>

States == {"todo", "claimed", "done", "failed"}
Task == [id : Id, state : States, by : Worker \cup {NoWorker}, left : Nat]

Ask == [to : {"none", "extend", "complete"}, id : Id \cup {NoAsk}, granted : Nat]
Idle == [to |-> "none", id |-> NoAsk, granted |-> 0]

TaskTypeOK ==
    /\ tasks \in Seq(Task)
    /\ phase \in 0 .. TicksPerSecond - 1
    /\ runLeft \in [Worker -> Nat]
    /\ stopped \subseteq Worker
    /\ ask \in [Worker -> Ask]
    /\ hand \in [Worker -> [Id -> Nat]]

Init ==
    /\ tasks = <<>>
    /\ phase = 0
    /\ runLeft = [w \in Worker |-> RunTicks]
    /\ stopped = {}
    /\ ask = [w \in Worker |-> Idle]
    /\ hand = [w \in Worker |-> [id \in Id |-> 0]]

-----------------------------------------------------------------------------
(* Variant of Lapsed: a lease is over one tick early.                      *)
LapsedEarly(r) == r.state = "claimed" /\ r.left <= 1

Lapsed(r) == r.state = "claimed" /\ r.left = 0

(* Variant of Expired: a lapsed claim counts as a failure.                 *)
ExpiredFailed(r) ==
    IF Lapsed(r) THEN [r EXCEPT !.state = "failed", !.by = NoWorker] ELSE r

(* _expire: a lease is over at its expiry, and the task is todo again.     *)
Expired(r) == IF Lapsed(r) THEN [r EXCEPT !.state = "todo", !.by = NoWorker] ELSE r
Expire(s) == [i \in DOMAIN s |-> Expired(s[i])]

(* Variant of TicksTo: the lease starts at the previous second.            *)
TicksShort(seconds) == (seconds - 1) * TicksPerSecond - phase

(* Ticks to int(now + seconds): the timestamp is cut to a whole second.    *)
TicksTo(seconds) == seconds * TicksPerSecond - phase

Smaller(m, n) == IF m <= n THEN m ELSE n

(* The ids of a batch: the caller's, or made up from the final positions.  *)
Batches ==
    {ids \in [1 .. 1 -> Id] \cup [1 .. 2 -> Id] :
        \/ \A k \in DOMAIN ids : ids[k] \in Explicit
        \/ \A k \in DOMAIN ids :
              Len(tasks) + k <= MaxTasks /\ ids[k] = AutoId[Len(tasks) + k]}

(* Variant of AddMany: ids are only compared with the stored ones.         *)
AddRepeated ==
    \E ids \in Batches :
        /\ Len(tasks) + Len(ids) <= MaxTasks
        /\ \A k \in DOMAIN ids : \A i \in DOMAIN tasks : tasks[i].id # ids[k]
        /\ tasks' = tasks \o [k \in DOMAIN ids |->
               [id |-> ids[k], state |-> "todo", by |-> NoWorker, left |-> 0]]
        /\ UNCHANGED <<phase, runLeft, stopped, ask, hand>>

(* add_many: the whole batch, unless one id is taken, by then or by it.    *)
AddMany ==
    \E ids \in Batches :
        /\ Len(tasks) + Len(ids) <= MaxTasks
        /\ \A k, l \in DOMAIN ids : ids[k] = ids[l] => k = l
        /\ \A k \in DOMAIN ids : \A i \in DOMAIN tasks : tasks[i].id # ids[k]
        /\ tasks' = tasks \o [k \in DOMAIN ids |->
               [id |-> ids[k], state |-> "todo", by |-> NoWorker, left |-> 0]]
        /\ UNCHANGED <<phase, runLeft, stopped, ask, hand>>

(* claim: expire, take the first task in todo, write, tell the worker.     *)
Claim(w) ==
    \E i \in DOMAIN tasks, seconds \in Leases :
        LET now == Expire(tasks) IN
        /\ now[i].state = "todo"
        /\ \A j \in 1 .. i - 1 : now[j].state # "todo"
        /\ tasks' = [now EXCEPT ![i] = [now[i] EXCEPT
                        !.state = "claimed", !.by = w, !.left = TicksTo(seconds)]]
        /\ hand' = [hand EXCEPT ![w][tasks[i].id] = TicksTo(seconds)]
        /\ UNCHANGED <<phase, runLeft, stopped, ask>>

(* claim finds nothing to hand out, but keeps the expiries it computed.    *)
ClaimNothing(w) ==
    LET now == Expire(tasks) IN
    /\ \A i \in DOMAIN tasks : now[i].state # "todo"
    /\ tasks' = now
    /\ UNCHANGED <<phase, runLeft, stopped, ask, hand>>

(* Variant of Holds: whoever claimed it, as the contract's docstring warns.*)
HeldByAnyone(w, i) == Expired(tasks[i]).state = "claimed"

(* The task of that id is claimed by this worker, after expiry: the guard  *)
(* of release and of extend_lease, every other case of which raises and    *)
(* writes nothing.                                                         *)
Holds(w, i) ==
    /\ Expired(tasks[i]).state = "claimed"
    /\ Expired(tasks[i]).by = w

Settle(w, i) ==
    \E outcome \in {"done", "failed"} :
        /\ Holds(w, i)
        /\ tasks' = [Expire(tasks) EXCEPT ![i] = [Expire(tasks)[i] EXCEPT
                        !.state = outcome, !.by = NoWorker, !.left = 0]]
        /\ hand' = [hand EXCEPT ![w][tasks[i].id] = 0]

(* release: only the holder, and the outcome is terminal.                  *)
Release(w) ==
    /\ \E i \in DOMAIN tasks : Settle(w, i)
    /\ UNCHANGED <<phase, runLeft, stopped, ask>>

(* complete_task finds the task without the lock, held by its worker, and  *)
(* the outcome asked for is one of the two.                                *)
AskCompletion(w) ==
    /\ ask[w] = Idle
    /\ \E i \in DOMAIN tasks :
          /\ Holds(w, i)
          /\ ask' = [ask EXCEPT ![w] = [to |-> "complete", id |-> tasks[i].id, granted |-> 0]]
    /\ UNCHANGED <<tasks, phase, runLeft, stopped, hand>>

(* Its release, once it has the lock. *)
Complete(w) ==
    /\ ask[w].to = "complete"
    /\ \E i \in DOMAIN tasks : tasks[i].id = ask[w].id /\ Settle(w, i)
    /\ ask' = [ask EXCEPT ![w] = Idle]
    /\ UNCHANGED <<phase, runLeft, stopped>>

(* Variant of AskExtension: the run's clock is not consulted.              *)
AskUnbounded(w) ==
    /\ ask[w] = Idle
    /\ w \notin stopped
    /\ \E i \in DOMAIN tasks, seconds \in Leases :
          ask' = [ask EXCEPT ![w] = [to |-> "extend", id |-> tasks[i].id, granted |-> seconds]]
    /\ UNCHANGED <<tasks, phase, runLeft, stopped, hand>>

(* extend_lease, before the lock: the run may still spend, and a whole     *)
(* second of it is left; the grant is cut to what is left.                 *)
AskExtension(w) ==
    LET remaining == runLeft[w] \div TicksPerSecond IN
    /\ ask[w] = Idle
    /\ w \notin stopped
    /\ w \in Capped => remaining > 0
    /\ \E i \in DOMAIN tasks, seconds \in Leases :
          ask' = [ask EXCEPT ![w] =
              [to |-> "extend", id |-> tasks[i].id,
               granted |-> IF w \in Capped THEN Smaller(seconds, remaining)
                           ELSE seconds]]
    /\ UNCHANGED <<tasks, phase, runLeft, stopped, hand>>

(* extend_lease, once it has the lock: the lease runs from now.            *)
Extend(w) ==
    /\ ask[w].to = "extend"
    /\ \E i \in DOMAIN tasks :
        /\ tasks[i].id = ask[w].id
        /\ Holds(w, i)
        /\ tasks' = [Expire(tasks) EXCEPT ![i] = [Expire(tasks)[i] EXCEPT
                        !.left = TicksTo(ask[w].granted)]]
        /\ hand' = [hand EXCEPT ![w][ask[w].id] = TicksTo(ask[w].granted)]
    /\ ask' = [ask EXCEPT ![w] = Idle]
    /\ UNCHANGED <<phase, runLeft, stopped>>

(* Either is refused there, or the lock wait runs out.                     *)
Refused(w) ==
    /\ ask[w] # Idle
    /\ ask' = [ask EXCEPT ![w] = Idle]
    /\ UNCHANGED <<tasks, phase, runLeft, stopped, hand>>

(* The run of a worker is cancelled or spends its last step or dollar.     *)
Stop(w) ==
    /\ w \notin stopped
    /\ stopped' = stopped \cup {w}
    /\ UNCHANGED <<tasks, phase, runLeft, ask, hand>>

Sooner(n) == IF n = 0 THEN 0 ELSE n - 1

(* A tick of the wall clock. *)
Tick ==
    /\ phase' = (phase + 1) % TicksPerSecond
    /\ tasks' = [i \in DOMAIN tasks |-> [tasks[i] EXCEPT !.left = Sooner(@)]]
    /\ runLeft' = [w \in Worker |-> Sooner(runLeft[w])]
    /\ hand' = [w \in Worker |-> [id \in Id |-> Sooner(hand[w][id])]]
    /\ UNCHANGED <<stopped, ask>>

WorkerStep(w) ==
    \/ Claim(w) \/ ClaimNothing(w) \/ Release(w)
    \/ AskCompletion(w) \/ Complete(w)
    \/ AskExtension(w) \/ Extend(w) \/ Refused(w) \/ Stop(w)

Next == AddMany \/ Tick \/ \E w \in Worker : WorkerStep(w)

Spec == Init /\ [][Next]_vars

(* Time passes.  Nothing is asked of the workers: any of them may be dead. *)
FairSpec == Spec /\ WF_vars(Tick)

-----------------------------------------------------------------------------
(* No two workers are ever told they have the same task for the same       *)
(* moment: claim leases it out again only once every lease handed out      *)
(* before is over, however leases were extended, cut short or lapsed.      *)
LeasesExclusive ==
    \A v, w \in Worker, id \in Id : hand[v][id] > 0 /\ hand[w][id] > 0 => v = w

(* What a worker was told is what the store says, so a worker that acts    *)
(* within its lease is never refused.                                      *)
LeaseHonoured ==
    \A w \in Worker, id \in Id : hand[w][id] > 0 =>
        \E i \in DOMAIN tasks :
            /\ tasks[i].id = id /\ tasks[i].state = "claimed" /\ tasks[i].by = w
            /\ tasks[i].left = hand[w][id]

(* Ids stay unique, in batches and across made-up and chosen ids.          *)
IdsUnique == \A i, j \in DOMAIN tasks : tasks[i].id = tasks[j].id => i = j

(* A lease is over when it lapses, and an extension cannot keep it going   *)
(* for ever: every claim of a worker with a capped run ends.               *)
ClaimsEnd ==
    \A i \in 1 .. MaxTasks :
        (i \in DOMAIN tasks /\ tasks[i].state = "claimed" /\ tasks[i].by \in Capped)
            ~> (i \in DOMAIN tasks /\ (Lapsed(tasks[i]) \/ tasks[i].state # "claimed"))

-----------------------------------------------------------------------------
(* What records() and find() show implements the contract.                 *)
View == [i \in DOMAIN tasks |->
           LET r == Expired(tasks[i]) IN [id |-> r.id, state |-> r.state, by |-> r.by]]
Contract == INSTANCE TaskSource WITH list <- View
ImplementsContract == Contract!Spec
=============================================================================
