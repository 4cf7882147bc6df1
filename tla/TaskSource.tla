----------------------------- MODULE TaskSource -----------------------------
(***************************************************************************)
(* The contract of AgentTaskSource (tasks.py): four task states, one       *)
(* holder at a time, and the earliest claimable task first.                *)
(***************************************************************************)
EXTENDS Naturals, Sequences

CONSTANTS
    Worker,     \* the names workers claim under
    Id,         \* task ids
    NoWorker    \* holder of a task nobody has claimed

VARIABLE list   \* the tasks in order, each [id, state, by]

Todo(i) == list[i].state = "todo"
Terminal(i) == list[i].state \in {"done", "failed"}

Init == list = <<>>

(* New tasks arrive at the end of the list. *)
Arrive(ids) ==
    /\ \A k, l \in DOMAIN ids : ids[k] = ids[l] => k = l
    /\ \A k \in DOMAIN ids : \A i \in DOMAIN list : list[i].id # ids[k]
    /\ list' = list \o [k \in DOMAIN ids |->
                          [id |-> ids[k], state |-> "todo", by |-> NoWorker]]

(* A worker takes the earliest claimable task. *)
Take(w, i) ==
    /\ Todo(i)
    /\ \A j \in 1 .. i - 1 : ~Todo(j)
    /\ list' = [list EXCEPT ![i].state = "claimed", ![i].by = w]

(* Leases lapse: the tasks are claimable again, never failed. *)
Lapse(S) ==
    /\ \A i \in S : list[i].state = "claimed"
    /\ list' = [i \in DOMAIN list |->
                  IF i \in S THEN [list[i] EXCEPT !.state = "todo", !.by = NoWorker]
                  ELSE list[i]]

(* The holder, and nobody else, records how the task ended. *)
Settle(w, i, outcome) ==
    /\ list[i].state = "claimed" /\ list[i].by = w
    /\ list' = [list EXCEPT ![i].state = outcome, ![i].by = NoWorker]

Next ==
    \/ \E n \in 1 .. 2 : \E ids \in [1 .. n -> Id] : Arrive(ids)
    \/ \E i \in DOMAIN list, w \in Worker :
          \/ Take(w, i)
          \/ \E outcome \in {"done", "failed"} : Settle(w, i, outcome)
    \/ \E S \in SUBSET DOMAIN list : Lapse(S)

Spec == Init /\ [][Next]_list
=============================================================================
