------------------------------- MODULE RunTree -------------------------------
(***************************************************************************)
(* A tree of runs that draws on one ledger: a run calls subagents as       *)
(* tools, and each of them is a run of its own (subagents.py,              *)
(* subagent_runner.py, the loop of runtime.py).                            *)
(*                                                                         *)
(* Tools run one after the other, so the live runs form a stack; only the  *)
(* last of them does anything.  A run's subagent tools carry the context   *)
(* the run was sent with: that is the host's to arrange, and is assumed.   *)
(* Output ceilings bound a single request and are left out.                *)
(***************************************************************************)
EXTENDS Naturals, Sequences

CONSTANTS
    Roots,          \* the budgets of the contexts the host may make
    Declared,       \* the budgets that subagents declare
    Ceiling,        \* max_steps_ceiling of the agent, or NoCap
    MaxDepth,       \* MAX_DEPTH
    Costs,          \* what a response may report as its cost
    TicksPerSecond,
    MaxCalls,       \* bound on the tool calls of a reply
    MaxTime,        \* bound on the clock
    NoCap,          \* None: no limit, no cost reported
    Never           \* not cancelled

Cap == Nat \cup {NoCap}
RunBudget == [steps : Nat, cost : Cap, seconds : Cap]
Stage == {"loop", "asking", "tools"}
RunContext == [context : RunBudget, budget : RunBudget, at : Stage, calls : Nat]

ASSUME TreeAssumption ==
    /\ Roots \subseteq RunBudget /\ Declared \subseteq RunBudget
    /\ Ceiling \in Cap /\ NoCap \notin Nat /\ Never \notin Nat
    /\ MaxDepth \in Nat \ {0} /\ TicksPerSecond \in Nat \ {0}
    /\ Costs \subseteq Cap
    /\ MaxCalls \in Nat /\ MaxTime \in Nat

VARIABLES
    root,       \* the budget of the context the host made
    stack,      \* the live runs, the root first
    steps,      \* the ledger: steps taken,
    cost,       \*   what the metered ones cost,
    unmetered,  \*   how many reported no cost,
    clock,      \*   and ticks since it was started
    stopped     \* the steps taken when the tree was cancelled, or Never

account == <<root, steps, cost, unmetered>>
vars == <<stack, account, clock, stopped>>

Smaller(m, n) == IF m <= n THEN m ELSE n

(* _lesser *)
Lesser(a, b) == IF a = NoCap THEN b ELSE IF b = NoCap THEN a ELSE Smaller(a, b)

(* Variant: what remains, as the reference computes it.                    *)
NestedRemaining(declared, parent) ==
    [steps |-> Smaller(parent.steps - steps, declared.steps),
     cost |-> Lesser(parent.cost, declared.cost),
     seconds |-> Lesser(parent.seconds, declared.seconds)]

(* Variant: a child starts afresh. *)
NestedFresh(declared, parent) ==
    [steps |-> steps + declared.steps,
     cost |-> parent.cost,
     seconds |-> parent.seconds]

(* nested_within: the tree may reach what the child declares on top of     *)
(* what it has spent, but not more than its caller may.                    *)
Nested(declared, parent) ==
    [steps |-> Smaller(parent.steps, steps + declared.steps),
     cost |-> Lesser(parent.cost,
                     IF declared.cost = NoCap THEN NoCap ELSE cost + declared.cost),
     seconds |-> Lesser(parent.seconds,
                        IF declared.seconds = NoCap THEN NoCap
                        ELSE clock \div TicksPerSecond + declared.seconds)]

(* _bounded_run: the agent's own ceiling, for this run. *)
Bounded(context) ==
    [context EXCEPT !.steps =
        IF Ceiling = NoCap THEN @ ELSE Smaller(@, steps + Ceiling)]

(* Variant: cancellation is not looked at. *)
SpentOnly(budget) ==
    \/ steps >= budget.steps
    \/ budget.cost # NoCap /\ (unmetered > 0 \/ cost >= budget.cost)
    \/ budget.seconds # NoCap /\ clock >= budget.seconds * TicksPerSecond

(* Variant: an unreported cost counts for nothing. *)
SpentMetered(budget) ==
    \/ stopped # Never
    \/ steps >= budget.steps
    \/ budget.cost # NoCap /\ cost >= budget.cost
    \/ budget.seconds # NoCap /\ clock >= budget.seconds * TicksPerSecond

(* exhaustion: why the tree may not spend again. *)
Exhaustion(budget) ==
    \/ stopped # Never
    \/ steps >= budget.steps
    \/ budget.cost # NoCap /\ (unmetered > 0 \/ cost >= budget.cost)
    \/ budget.seconds # NoCap /\ clock >= budget.seconds * TicksPerSecond

(* A run starts with its loop, unless its session holds calls that a       *)
(* person has approved since: those run before the first check.            *)
Starts(context) ==
    [context : {context}, budget : {Bounded(context)}, at : {"loop"}, calls : {0}]
    \cup [context : {context}, budget : {Bounded(context)}, at : {"tools"},
          calls : 1 .. MaxCalls]

TypeOK ==
    /\ root \in RunBudget
    /\ stack \in Seq(RunContext)
    /\ steps \in Nat /\ cost \in Nat /\ unmetered \in Nat
    /\ clock \in Nat
    /\ stopped \in Nat \cup {Never}

Init ==
    /\ steps = 0 /\ cost = 0 /\ unmetered = 0
    /\ clock = 0
    /\ stopped = Never
    /\ root \in Roots
    /\ \E run \in Starts(root) : stack = <<run>>

-----------------------------------------------------------------------------
Live == Len(stack) > 0
Top == stack[Len(stack)]
At(stage) == Live /\ Top.at = stage
Become(run) == stack' = [stack EXCEPT ![Len(stack)] = run]

(* The run is over, and its result, whatever it is, goes to its caller.    *)
Return == stack' = SubSeq(stack, 1, Len(stack) - 1)

(* The loop stops before a step it may not take. *)
StopEarly ==
    /\ At("loop")
    /\ Exhaustion(Top.budget)
    /\ Return
    /\ UNCHANGED <<account, clock, stopped>>

Ask ==
    /\ At("loop")
    /\ ~Exhaustion(Top.budget)
    /\ Become([Top EXCEPT !.at = "asking"])
    /\ UNCHANGED <<account, clock, stopped>>

(* Variant: a step is charged when the turn ends, not when it asks again.  *)
ChargeAtEnd(usd) ==
    /\ steps' = IF stack' = SubSeq(stack, 1, Len(stack) - 1) THEN steps + 1 ELSE steps
    /\ cost' = IF usd = NoCap THEN cost ELSE cost + usd
    /\ unmetered' = IF usd = NoCap THEN 1 ELSE unmetered

(* record_steps and record_cost. *)
Charge(usd) ==
    /\ steps' = steps + 1
    /\ cost' = IF usd = NoCap THEN cost ELSE cost + usd
    /\ unmetered' = IF usd = NoCap THEN unmetered + 1 ELSE unmetered

(* The model answers: with calls, or finally, or in error. *)
Answer ==
    /\ At("asking")
    /\ \/ Return
       \/ \E n \in 1 .. MaxCalls : Become([Top EXCEPT !.at = "tools", !.calls = n])
    /\ \E usd \in Costs : Charge(usd)
    /\ UNCHANGED <<root, clock, stopped>>

(* The client raises.  Nothing is charged. *)
Fail ==
    /\ At("asking")
    /\ Return
    /\ UNCHANGED <<account, clock, stopped>>

(* Variant: a result without a call. *)
UseToolAgain ==
    /\ At("tools")
    /\ Become([Top EXCEPT !.calls = @ - 1])
    /\ UNCHANGED <<account, clock, stopped>>

(* A tool that is no subagent, or one whose input or preparation raises:   *)
(* either way there is a result.                                           *)
UseTool ==
    /\ At("tools")
    /\ Top.calls > 0
    /\ Become([Top EXCEPT !.calls = @ - 1])
    /\ UNCHANGED <<account, clock, stopped>>

(* SubagentRunner.run: refused, as exhausted or as nested too deep.        *)
Refuse ==
    /\ At("tools")
    /\ Top.calls > 0
    /\ Exhaustion(Top.context) \/ Len(stack) >= MaxDepth
    /\ Become([Top EXCEPT !.calls = @ - 1])
    /\ UNCHANGED <<account, clock, stopped>>

(* Or the child runs, within what its caller's context leaves it.          *)
Spawn(declared) ==
    /\ At("tools")
    /\ Top.calls > 0
    /\ ~Exhaustion(Top.context)
    /\ Len(stack) < MaxDepth
    /\ \E run \in Starts(Nested(declared, Top.context)) :
        stack' = Append([stack EXCEPT ![Len(stack)] = [Top EXCEPT !.calls = @ - 1]], run)
    /\ UNCHANGED <<account, clock, stopped>>

(* Every call has its result: another step, or the wait for a person.      *)
Proceed ==
    /\ At("tools")
    /\ Top.calls = 0
    /\ Become([Top EXCEPT !.at = "loop"]) \/ Return
    /\ UNCHANGED <<account, clock, stopped>>

(* A call that is not authorized ends the run, as does what resuming       *)
(* raises.                                                                 *)
Unauthorized ==
    /\ At("tools")
    /\ Top.calls > 0
    /\ Return
    /\ UNCHANGED <<account, clock, stopped>>

(* cancel, by anybody and at any time. *)
Cancel ==
    /\ stopped = Never
    /\ stopped' = steps
    /\ UNCHANGED <<stack, account, clock>>

Tick ==
    /\ clock < MaxTime
    /\ clock' = clock + 1
    /\ UNCHANGED <<stack, account, stopped>>

Step ==
    \/ StopEarly \/ Ask \/ Answer \/ Fail
    \/ UseTool \/ Refuse \/ Proceed \/ Unauthorized
    \/ \E declared \in Declared : Spawn(declared)

Next == Step \/ Cancel \/ Tick

Spec == Init /\ [][Next]_vars

(* Models and tools answer or raise. *)
FairSpec == Spec /\ WF_vars(Step)

-----------------------------------------------------------------------------
(* "BUDGETS NEST; THEY DO NOT RESET" (subagents.py 66): what the whole     *)
(* tree has spent is within the root's steps, and within those of every    *)
(* run that is still going, whatever the runs below it were given.         *)
TreeWithinBudget ==
    /\ steps <= root.steps
    /\ \A k \in DOMAIN stack : steps <= stack[k].context.steps

(* A cost cap is passed by at most the step that passes it, and a tree     *)
(* under a cap takes no step after one that reported no cost               *)
(* (subagents.py 169-174, 219-223, 228).                                   *)
CostCapHolds ==
    root.cost # NoCap =>
        /\ unmetered <= 1
        /\ cost <= root.cost \/ \E usd \in Costs \ {NoCap} : cost < root.cost + usd

(* "The in-flight call is allowed to finish and the NEXT step is refused"  *)
(* (subagents.py 187-188): wherever in the tree.                           *)
StopsWhenCancelled == stopped # Never => steps <= stopped + 1

(* A child that is sent may take a step: the tree is not refused what it   *)
(* has left (subagents.py 72-83).  Excepted are a declaration of nothing,  *)
(* and a child with a cap in a tree that has a step without a cost.        *)
ChildMayStep ==
    [][\A declared \in Declared :
        Spawn(declared) /\ declared.steps > 0 /\ declared.cost # 0 /\ declared.seconds # 0
            /\ (declared.cost # NoCap => unmetered = 0) /\ Ceiling # 0
        => ~Exhaustion(stack'[Len(stack')].budget)]_vars

(* Whatever calls whatever, and however often, every run ends             *)
(* (subagents.py 11-15).                                                   *)
TreeEnds == <>(stack = <<>>)

=============================================================================
