---------------------------- MODULE RunTreeProofs ----------------------------
(***************************************************************************)
(* Proofs about RunTree, for any budgets, depth, costs and times.          *)
(***************************************************************************)
EXTENDS RunTree, TLAPS

(* Only the last run of the stack acts; the others wait for a tool.        *)
CallersWait == \A k \in 1 .. Len(stack) - 1 : stack[k].at = "tools"

(* A cap that is at most another, where there is one.                      *)
WithinCap(inner, outer) == outer # NoCap => inner # NoCap /\ inner <= outer

(* What a run may reach is within what its callers and the root may.       *)
CeilingsNest ==
    \A k \in 1 .. Len(stack) :
        /\ stack[k].budget.steps <= stack[k].context.steps
        /\ stack[k].budget.cost = stack[k].context.cost
        /\ stack[k].context.steps <= root.steps
        /\ WithinCap(stack[k].context.cost, root.cost)
        /\ \A j \in 1 .. k : stack[k].context.steps <= stack[j].context.steps

(* What is known of the ledger while a request is out: the step it will    *)
(* cost is there to be spent.                                              *)
InFlight ==
    Len(stack) > 0 /\ stack[Len(stack)].at = "asking" =>
        /\ steps < stack[Len(stack)].context.steps
        /\ stopped # Never => steps <= stopped
        /\ root.cost # NoCap => unmetered = 0 /\ cost < root.cost

TreeInv ==
    /\ TypeOK
    /\ CallersWait
    /\ CeilingsNest
    /\ InFlight
    /\ TreeWithinBudget
    /\ CostCapHolds
    /\ StopsWhenCancelled

-----------------------------------------------------------------------------
(* Rewriting the last element of a sequence, dropping it, adding one.      *)
LEMMA Rewrites ==
    ASSUME NEW S, NEW s \in Seq(S), Len(s) > 0, NEW r \in S
    PROVE  /\ [s EXCEPT ![Len(s)] = r] \in Seq(S)
           /\ Len([s EXCEPT ![Len(s)] = r]) = Len(s)
           /\ [s EXCEPT ![Len(s)] = r][Len(s)] = r
           /\ \A k \in 1 .. Len(s) - 1 : [s EXCEPT ![Len(s)] = r][k] = s[k]
OBVIOUS

LEMMA Drops ==
    ASSUME NEW S, NEW s \in Seq(S), Len(s) > 0
    PROVE  /\ SubSeq(s, 1, Len(s) - 1) \in Seq(S)
           /\ Len(SubSeq(s, 1, Len(s) - 1)) = Len(s) - 1
           /\ \A k \in 1 .. Len(s) - 1 : SubSeq(s, 1, Len(s) - 1)[k] = s[k]
  <1>1. Len(s) \in Nat
    OBVIOUS
  <1>2. \A k \in 1 .. Len(s) - 1 : s[k] \in S
    BY <1>1
  <1>3. SubSeq(s, 1, Len(s) - 1) = [k \in 1 .. Len(s) - 1 |-> s[k]]
    BY <1>1
  <1> DEFINE t == [k \in 1 .. Len(s) - 1 |-> s[k]]
  <1>4. t \in Seq(S) /\ Len(t) = Len(s) - 1
    BY <1>1, <1>2
  <1> QED BY <1>3, <1>4

LEMMA Appends ==
    ASSUME NEW S, NEW s \in Seq(S), NEW r \in S
    PROVE  /\ Append(s, r) \in Seq(S)
           /\ Len(Append(s, r)) = Len(s) + 1
           /\ Append(s, r)[Len(s) + 1] = r
           /\ \A k \in 1 .. Len(s) : Append(s, r)[k] = s[k]
OBVIOUS

(* The lesser of two caps is a cap within both. *)
LEMMA LesserWithin ==
    ASSUME TreeAssumption, NEW a \in Cap, NEW b \in Cap
    PROVE  /\ Lesser(a, b) \in Cap
           /\ WithinCap(Lesser(a, b), a)
BY DEF Lesser, Smaller, Cap, WithinCap, TreeAssumption

-----------------------------------------------------------------------------
(* The budget of a child is one, and within its caller's. *)
LEMMA NestedWithin ==
    ASSUME TypeOK, NEW declared \in RunBudget, NEW parent \in RunBudget
    PROVE  /\ Nested(declared, parent) \in RunBudget
           /\ Nested(declared, parent).steps <= parent.steps
           /\ WithinCap(Nested(declared, parent).cost, parent.cost)
  <1> DEFINE c == IF declared.cost = NoCap THEN NoCap ELSE cost + declared.cost
             t == IF declared.seconds = NoCap THEN NoCap
                  ELSE clock \div TicksPerSecond + declared.seconds
             n == Smaller(parent.steps, steps + declared.steps)
  <1>1. c \in Cap
    BY DEF TypeOK, RunBudget, Cap
  <1>2. t \in Cap
    <2>1. clock \div TicksPerSecond \in Nat
      BY TreeAssumption DEF TypeOK, TreeAssumption
    <2> QED BY <2>1 DEF RunBudget, Cap
  <1>3. n \in Nat /\ n <= parent.steps
    BY DEF TypeOK, RunBudget, Smaller
  <1>4. parent.cost \in Cap /\ parent.seconds \in Cap
    BY DEF RunBudget
  <1>5. /\ Lesser(parent.cost, c) \in Cap /\ WithinCap(Lesser(parent.cost, c), parent.cost)
        /\ Lesser(parent.seconds, t) \in Cap
    BY <1>1, <1>2, <1>4, LesserWithin, TreeAssumption
  <1>6. Nested(declared, parent) = [steps |-> n, cost |-> Lesser(parent.cost, c),
                                    seconds |-> Lesser(parent.seconds, t)]
    BY DEF Nested
  <1> HIDE DEF c, t, n
  <1> QED BY <1>3, <1>5, <1>6 DEF RunBudget

(* A run that starts has the budget of its context, cut to the ceiling.    *)
LEMMA RunStarts ==
    ASSUME NEW context \in RunBudget, steps \in Nat, NEW run \in Starts(context)
    PROVE  /\ run \in RunContext
           /\ run.at # "asking"
           /\ run.context = context
           /\ run.budget = Bounded(context)
           /\ run.budget.steps <= context.steps
           /\ run.budget.cost = context.cost
  <1> DEFINE n == IF Ceiling = NoCap THEN context.steps
                  ELSE Smaller(context.steps, steps + Ceiling)
  <1>1. n \in Nat /\ n <= context.steps
    BY TreeAssumption DEF TreeAssumption, RunBudget, Cap, Smaller
  <1>2. Bounded(context) = [context EXCEPT !.steps = n]
    BY DEF Bounded
  <1> HIDE DEF n
  <1>3. /\ Bounded(context) \in RunBudget
        /\ Bounded(context).steps = n /\ Bounded(context).cost = context.cost
    BY <1>1, <1>2 DEF RunBudget
  <1>4. /\ run \in [context : {context}, budget : {Bounded(context)}, at : Stage, calls : Nat]
        /\ run.at # "asking"
    BY TreeAssumption DEF TreeAssumption, Starts, Stage
  <1> QED BY <1>1, <1>3, <1>4 DEF RunContext

-----------------------------------------------------------------------------
(* No live run may take the tree further than any of its callers. *)
LEMMA TopIsLeast ==
    ASSUME TypeOK, CeilingsNest, Len(stack) > 0
    PROVE  /\ \A k \in 1 .. Len(stack) :
                /\ stack[k].context.steps \in Nat
                /\ Top.context.steps <= stack[k].context.steps
                /\ stack[k].context.steps <= root.steps
           /\ Top.context.steps <= root.steps
           /\ WithinCap(Top.context.cost, root.cost)
  <1>1. Len(stack) \in Nat /\ Len(stack) \in 1 .. Len(stack)
    BY DEF TypeOK
  <1>2. \A k \in 1 .. Len(stack) : stack[k] \in RunContext
    BY DEF TypeOK
  <1>3. \A k \in 1 .. Len(stack) : stack[k].context.steps \in Nat
    BY <1>2 DEF RunContext, RunBudget
  <1> QED BY <1>1, <1>3 DEF CeilingsNest, Top

(* The last run changes its stage or its calls, but does not ask, and the  *)
(* ledger stays: nothing else is affected.                                 *)
LEMMA Moved ==
    ASSUME TreeInv, Len(stack) > 0, NEW r \in RunContext,
           Become(r), r.at # "asking",
           r.context = Top.context, r.budget = Top.budget,
           UNCHANGED <<account, clock, stopped>>
    PROVE  TreeInv'
  <1>1. /\ stack' \in Seq(RunContext) /\ Len(stack') = Len(stack)
        /\ stack'[Len(stack)] = r
        /\ \A k \in 1 .. Len(stack) - 1 : stack'[k] = stack[k]
    BY Rewrites DEF Become, TreeInv, TypeOK
  <1>2. \A k \in 1 .. Len(stack) : /\ stack'[k].context = stack[k].context
                                   /\ stack'[k].budget = stack[k].budget
    BY <1>1 DEF Top, TreeInv, TypeOK
  <1>3. DOMAIN stack' = 1 .. Len(stack) /\ DOMAIN stack = 1 .. Len(stack)
    BY <1>1 DEF TreeInv, TypeOK
  <1>4. TypeOK' /\ CallersWait'
    <2>1. TypeOK'
      BY <1>1 DEF TreeInv, TypeOK, account
    <2>2. CallersWait'
      BY <1>1 DEF TreeInv, CallersWait
    <2> QED BY <2>1, <2>2
  <1>5. CeilingsNest'
    BY <1>1, <1>2 DEF TreeInv, CeilingsNest, WithinCap, account
  <1>6. InFlight'
    BY <1>1 DEF InFlight
  <1>7. TreeWithinBudget'
    BY <1>2, <1>3 DEF TreeInv, TreeWithinBudget, account
  <1>8. CostCapHolds' /\ StopsWhenCancelled'
    BY DEF TreeInv, CostCapHolds, StopsWhenCancelled, account
  <1> QED BY <1>4, <1>5, <1>6, <1>7, <1>8 DEF TreeInv

(* The last run is over, and the ledger stays. *)
LEMMA Returned ==
    ASSUME TreeInv, Len(stack) > 0, Return, UNCHANGED <<account, clock, stopped>>
    PROVE  TreeInv'
  <1>1. /\ stack' \in Seq(RunContext) /\ Len(stack') = Len(stack) - 1
        /\ \A k \in 1 .. Len(stack) - 1 : stack'[k] = stack[k]
        /\ Len(stack) \in Nat
    BY Drops DEF Return, TreeInv, TypeOK
  <1>2. DOMAIN stack' = 1 .. Len(stack) - 1 /\ DOMAIN stack = 1 .. Len(stack)
    BY <1>1 DEF TreeInv, TypeOK
  <1>3. TypeOK' /\ CallersWait'
    BY <1>1 DEF TreeInv, TypeOK, CallersWait, account
  <1>4. CeilingsNest'
    <2>1. root' = root /\ CeilingsNest
      BY DEF TreeInv, account
    <2>2. \A k \in 1 .. Len(stack') : stack'[k] = stack[k] /\ k \in 1 .. Len(stack)
      BY <1>1
    <2> SUFFICES ASSUME NEW k \in 1 .. Len(stack')
                 PROVE  /\ stack'[k].budget.steps <= stack'[k].context.steps
                        /\ stack'[k].budget.cost = stack'[k].context.cost
                        /\ stack'[k].context.steps <= root'.steps
                        /\ WithinCap(stack'[k].context.cost, root'.cost)
                        /\ \A j \in 1 .. k :
                              stack'[k].context.steps <= stack'[j].context.steps
      BY DEF CeilingsNest, WithinCap
    <2>3. \A j \in 1 .. k : j \in 1 .. Len(stack')
      BY <1>1
    <2> QED BY <2>1, <2>2, <2>3 DEF CeilingsNest
  <1>5. InFlight'
    BY <1>1 DEF TreeInv, InFlight, CallersWait
  <1>6. TreeWithinBudget'
    BY <1>1, <1>2 DEF TreeInv, TreeWithinBudget, account
  <1>7. CostCapHolds' /\ StopsWhenCancelled'
    BY DEF TreeInv, CostCapHolds, StopsWhenCancelled, account
  <1> QED BY <1>3, <1>4, <1>5, <1>6, <1>7 DEF TreeInv

(* A request goes out: a step is left in every account above it.           *)
LEMMA AskStep ==
    ASSUME TreeInv, Ask
    PROVE  TreeInv'
  <1> DEFINE r == [Top EXCEPT !.at = "asking"]
  <1>1. Len(stack) > 0 /\ Len(stack) \in Nat /\ Top \in RunContext /\ ~Exhaustion(Top.budget)
    BY DEF Ask, At, Live, Top, TreeInv, TypeOK
  <1>2. r \in RunContext /\ r.at = "asking" /\ r.context = Top.context /\ r.budget = Top.budget
    BY <1>1 DEF RunContext, Stage
  <1>3. stack' = [stack EXCEPT ![Len(stack)] = r] /\ UNCHANGED <<account, clock, stopped>>
    BY DEF Ask, Become
  <1> HIDE DEF r
  <1>4. /\ stack' \in Seq(RunContext) /\ Len(stack') = Len(stack)
        /\ stack'[Len(stack)] = r
        /\ \A k \in 1 .. Len(stack) - 1 : stack'[k] = stack[k]
    BY <1>1, <1>2, <1>3, Rewrites DEF TreeInv, TypeOK
  <1>5. \A k \in 1 .. Len(stack) : /\ stack'[k].context = stack[k].context
                                   /\ stack'[k].budget = stack[k].budget
    BY <1>1, <1>2, <1>4 DEF Top
  <1>6. DOMAIN stack' = 1 .. Len(stack) /\ DOMAIN stack = 1 .. Len(stack)
    BY <1>4 DEF TreeInv, TypeOK
  <1>7. TypeOK' /\ CallersWait'
    BY <1>3, <1>4 DEF TreeInv, TypeOK, CallersWait, account
  <1>8. CeilingsNest'
    <2>1. root' = root /\ CeilingsNest
      BY <1>3 DEF TreeInv, account
    <2> QED BY <1>4, <1>5, <2>1 DEF CeilingsNest, WithinCap
  <1>9. InFlight'
    <2>1. /\ Top.budget.steps <= Top.context.steps /\ Top.budget.cost = Top.context.cost
          /\ WithinCap(Top.context.cost, root.cost)
      BY <1>1 DEF TreeInv, CeilingsNest, Top
    <2>2. Top.context.steps \in Nat /\ Top.budget.steps \in Nat /\ Top.budget.cost \in Cap
      BY <1>1 DEF RunContext, RunBudget
    <2>3. steps < Top.context.steps /\ stopped = Never
      BY <1>1, <2>1, <2>2 DEF Exhaustion, TreeInv, TypeOK
    <2>4. root.cost # NoCap => unmetered = 0 /\ cost < root.cost
      BY <1>1, <2>1, <2>2, TreeAssumption
         DEF Exhaustion, WithinCap, TreeInv, TypeOK, TreeAssumption, RunBudget, Cap
    <2> QED BY <1>2, <1>3, <1>4, <2>3, <2>4 DEF InFlight, account
  <1>10. TreeWithinBudget'
    BY <1>3, <1>5, <1>6 DEF TreeInv, TreeWithinBudget, account
  <1>11. CostCapHolds' /\ StopsWhenCancelled'
    BY <1>3 DEF TreeInv, CostCapHolds, StopsWhenCancelled, account
  <1> QED BY <1>7, <1>8, <1>9, <1>10, <1>11 DEF TreeInv

(* A step is charged.  The accounts above have it, since it was there when *)
(* the request went out and nothing else has spent since.                  *)
LEMMA AnswerStep ==
    ASSUME TreeInv, Answer
    PROVE  TreeInv'
  <1>1. Len(stack) > 0 /\ Len(stack) \in Nat /\ Top \in RunContext /\ Top.at = "asking"
    <2>1. At("asking")
      BY DEF Answer
    <2> QED BY <2>1 DEF At, Live, Top, TreeInv, TypeOK
  <1>2. PICK usd \in Costs : Charge(usd)
    BY DEF Answer
  <1>3. UNCHANGED <<root, clock, stopped>>
    BY DEF Answer
  <1>4. /\ steps' = steps + 1 /\ steps' \in Nat
        /\ cost' \in Nat /\ unmetered' \in Nat
        /\ usd # NoCap => usd \in Nat /\ cost' = cost + usd /\ unmetered' = unmetered
        /\ usd = NoCap => cost' = cost /\ unmetered' = unmetered + 1
    BY <1>2, TreeAssumption DEF Charge, TreeInv, TypeOK, TreeAssumption, Cap
  <1>5. /\ steps < Top.context.steps
        /\ stopped # Never => steps <= stopped
        /\ root.cost # NoCap => unmetered = 0 /\ cost < root.cost
    BY <1>1 DEF TreeInv, InFlight, Top
  <1>6. /\ stack' \in Seq(RunContext) /\ Len(stack') <= Len(stack) /\ Len(stack') \in Nat
        /\ \A k \in 1 .. Len(stack') : /\ stack'[k].context = stack[k].context
                                       /\ stack'[k].budget = stack[k].budget
        /\ \A k \in 1 .. Len(stack') : stack'[k].at = "tools"
    <2>1. CASE Return
      <3>1. /\ stack' \in Seq(RunContext) /\ Len(stack') = Len(stack) - 1
            /\ \A k \in 1 .. Len(stack) - 1 : stack'[k] = stack[k]
        BY <1>1, <2>1, Drops DEF Return, TreeInv, TypeOK
      <3> QED BY <1>1, <3>1 DEF TreeInv, CallersWait
    <2>2. CASE \E n \in 1 .. MaxCalls : Become([Top EXCEPT !.at = "tools", !.calls = n])
      <3>1. PICK n \in 1 .. MaxCalls : Become([Top EXCEPT !.at = "tools", !.calls = n])
        BY <2>2
      <3> DEFINE r == [Top EXCEPT !.at = "tools", !.calls = n]
      <3>2. r \in RunContext /\ r.at = "tools" /\ r.context = Top.context /\ r.budget = Top.budget
        <4>1. n \in Nat
          BY TreeAssumption DEF TreeAssumption
        <4> QED BY <1>1, <4>1 DEF RunContext, Stage
      <3>3. stack' = [stack EXCEPT ![Len(stack)] = r]
        BY <3>1 DEF Become
      <3> HIDE DEF r
      <3>4. /\ stack' \in Seq(RunContext) /\ Len(stack') = Len(stack)
            /\ stack'[Len(stack)] = r
            /\ \A k \in 1 .. Len(stack) - 1 : stack'[k] = stack[k]
        BY <1>1, <3>2, <3>3, Rewrites DEF TreeInv, TypeOK
      <3> QED BY <1>1, <3>2, <3>4 DEF Top, TreeInv, CallersWait
    <2> QED BY <2>1, <2>2 DEF Answer
  <1>7. \A k \in 1 .. Len(stack) :
           /\ stack[k].context.steps \in Nat
           /\ Top.context.steps <= stack[k].context.steps
           /\ stack[k].context.steps <= root.steps
    BY <1>1, TopIsLeast DEF TreeInv
  <1>8. TypeOK' /\ CallersWait'
    BY <1>3, <1>4, <1>6 DEF TreeInv, TypeOK, CallersWait
  <1>9. CeilingsNest'
    BY <1>1, <1>3, <1>6 DEF TreeInv, CeilingsNest, WithinCap
  <1>10. InFlight'
    BY <1>6 DEF InFlight
  <1>11. TreeWithinBudget'
    <2>1. DOMAIN stack' = 1 .. Len(stack') /\ \A k \in 1 .. Len(stack') : k \in 1 .. Len(stack)
      BY <1>1, <1>6
    <2>2. steps \in Nat /\ root.steps \in Nat /\ Top.context.steps \in Nat
          /\ steps + 1 <= Top.context.steps
      BY <1>1, <1>5, TreeAssumption
         DEF TreeInv, TypeOK, TreeAssumption, RunBudget, RunContext
    <2>3. \A k \in 1 .. Len(stack) : steps + 1 <= stack[k].context.steps
      BY <1>7, <2>2
    <2>4. steps + 1 <= root.steps
      BY <1>1, <1>7, <2>2
    <2> QED BY <1>3, <1>4, <1>6, <2>1, <2>3, <2>4 DEF TreeWithinBudget
  <1>12. CostCapHolds'
    <2> SUFFICES ASSUME root.cost # NoCap
                 PROVE  /\ unmetered' <= 1
                        /\ \/ cost' <= root.cost
                           \/ \E u \in Costs \ {NoCap} : cost' < root.cost + u
      BY <1>3 DEF CostCapHolds
    <2>1. unmetered = 0 /\ cost < root.cost /\ root.cost \in Nat /\ cost \in Nat
      BY <1>5, TreeAssumption DEF TreeAssumption, RunBudget, Cap, TreeInv, TypeOK
    <2>2. CASE usd = NoCap
      BY <1>4, <2>1, <2>2
    <2>3. CASE usd # NoCap
      BY <1>4, <2>1, <2>3
    <2> QED BY <2>2, <2>3
  <1>13. StopsWhenCancelled'
    BY <1>3, <1>4, <1>5 DEF StopsWhenCancelled, TreeInv, TypeOK
  <1> QED BY <1>8, <1>9, <1>10, <1>11, <1>12, <1>13 DEF TreeInv

(* A child is sent, within its caller's account. *)
LEMMA SpawnStep ==
    ASSUME TreeInv, NEW declared \in Declared, Spawn(declared)
    PROVE  TreeInv'
  <1> DEFINE r == [Top EXCEPT !.calls = @ - 1]
             s == [stack EXCEPT ![Len(stack)] = r]
             n == Nested(declared, Top.context)
  <1>1. /\ Len(stack) > 0 /\ Len(stack) \in Nat /\ Top \in RunContext
        /\ Top.at = "tools" /\ Top.calls > 0 /\ ~Exhaustion(Top.context)
    BY DEF Spawn, At, Live, Top, TreeInv, TypeOK
  <1>2. /\ r \in RunContext /\ r.at = "tools"
        /\ r.context = Top.context /\ r.budget = Top.budget
    BY <1>1 DEF RunContext, Stage
  <1>3. (\E run \in Starts(n) : stack' = Append(s, run)) /\ UNCHANGED <<account, clock, stopped>>
    BY DEF Spawn
  <1>4. Top.context \in RunBudget /\ declared \in RunBudget
    BY <1>1, TreeAssumption DEF RunContext, TreeAssumption
  <1>5. /\ n \in RunBudget /\ n.steps <= Top.context.steps
        /\ WithinCap(n.cost, Top.context.cost)
    BY <1>4, NestedWithin DEF TreeInv
  <1> HIDE DEF r, n
  <1>6. /\ s \in Seq(RunContext) /\ Len(s) = Len(stack) /\ s[Len(stack)] = r
        /\ \A k \in 1 .. Len(stack) - 1 : s[k] = stack[k]
    BY <1>1, <1>2, Rewrites DEF TreeInv, TypeOK
  <1> HIDE DEF s
  <1> PICK run \in Starts(n) : stack' = Append(s, run)
    BY <1>3
  <1>7. /\ run \in RunContext /\ run.at # "asking" /\ run.context = n
        /\ run.budget.steps <= n.steps /\ run.budget.cost = n.cost
    BY <1>5, RunStarts DEF TreeInv, TypeOK
  <1>8. /\ stack' \in Seq(RunContext) /\ Len(stack') = Len(stack) + 1
        /\ stack'[Len(stack) + 1] = run
        /\ \A k \in 1 .. Len(stack) : stack'[k] = s[k]
    BY <1>6, <1>7, Appends
  <1>9. \A k \in 1 .. Len(stack) : /\ stack'[k].context = stack[k].context
                                   /\ stack'[k].budget = stack[k].budget
                                   /\ stack'[k].at = "tools"
    BY <1>1, <1>2, <1>6, <1>8 DEF Top, TreeInv, CallersWait
  <1>10. TypeOK' /\ CallersWait'
    BY <1>1, <1>3, <1>8, <1>9 DEF TreeInv, TypeOK, CallersWait, account
  <1>11. /\ \A k \in 1 .. Len(stack) :
              /\ stack[k].context.steps \in Nat
              /\ Top.context.steps <= stack[k].context.steps
         /\ Top.context.steps <= root.steps
         /\ WithinCap(Top.context.cost, root.cost)
    BY <1>1, TopIsLeast DEF TreeInv
  <1>12. /\ \A k \in 1 .. Len(stack) : n.steps <= stack[k].context.steps
         /\ n.steps <= root.steps /\ n.steps \in Nat
    BY <1>1, <1>4, <1>5, <1>11, TreeAssumption DEF RunBudget, TreeAssumption, TreeInv, TypeOK
  <1>13. WithinCap(n.cost, root.cost)
    BY <1>4, <1>5, <1>11, TreeAssumption DEF WithinCap, RunBudget, Cap, TreeAssumption, TreeInv, TypeOK
  <1>14. CeilingsNest'
    <2> SUFFICES ASSUME NEW k \in 1 .. Len(stack')
                 PROVE  /\ stack'[k].budget.steps <= stack'[k].context.steps
                        /\ stack'[k].budget.cost = stack'[k].context.cost
                        /\ stack'[k].context.steps <= root.steps
                        /\ WithinCap(stack'[k].context.cost, root.cost)
                        /\ \A j \in 1 .. k :
                              stack'[k].context.steps <= stack'[j].context.steps
      BY <1>3 DEF CeilingsNest, WithinCap, account
    <2>1. CASE k \in 1 .. Len(stack)
      BY <1>1, <1>9, <2>1 DEF TreeInv, CeilingsNest
    <2>2. CASE k = Len(stack) + 1
      <3>1. \A j \in 1 .. k : j \in 1 .. Len(stack) \/ j = k
        BY <1>1, <2>2
      <3> QED BY <1>7, <1>8, <1>9, <1>12, <1>13, <2>2, <3>1
    <2> QED BY <1>1, <1>8, <2>1, <2>2
  <1>15. InFlight'
    BY <1>7, <1>8 DEF InFlight
  <1>16. TreeWithinBudget'
    <2>1. /\ steps < Top.context.steps /\ steps \in Nat
      BY <1>1, <1>4 DEF Exhaustion, TreeInv, TypeOK, RunBudget
    <2>2. steps <= n.steps
      <3>1. n.steps = Smaller(Top.context.steps, steps + declared.steps)
        BY DEF n, Nested
      <3> QED BY <1>4, <2>1, <3>1 DEF Smaller, RunBudget
    <2>3. DOMAIN stack' = 1 .. Len(stack) + 1 /\ DOMAIN stack = 1 .. Len(stack)
      BY <1>1, <1>8 DEF TreeInv, TypeOK
    <2>4. \A k \in 1 .. Len(stack) + 1 : k \in 1 .. Len(stack) \/ k = Len(stack) + 1
      BY <1>1
    <2> QED BY <1>3, <1>7, <1>8, <1>9, <2>2, <2>3, <2>4 DEF TreeInv, TreeWithinBudget, account
  <1>17. CostCapHolds' /\ StopsWhenCancelled'
    BY <1>3 DEF TreeInv, CostCapHolds, StopsWhenCancelled, account
  <1> QED BY <1>10, <1>14, <1>15, <1>16, <1>17 DEF TreeInv

(* The tree is cancelled, or time passes. *)
LEMMA OutsideStep ==
    ASSUME TreeInv, Cancel \/ Tick
    PROVE  TreeInv'
  <1>1. UNCHANGED <<stack, account>>
    BY DEF Cancel, Tick
  <1>2. stopped' = stopped \/ stopped' = steps
    BY DEF Cancel, Tick
  <1>3. TypeOK'
    BY <1>1 DEF Cancel, Tick, TreeInv, TypeOK, account
  <1>4. CallersWait' /\ CeilingsNest' /\ TreeWithinBudget' /\ CostCapHolds'
    BY <1>1 DEF TreeInv, CallersWait, CeilingsNest, TreeWithinBudget, CostCapHolds, account
  <1>5. InFlight' /\ StopsWhenCancelled'
    BY <1>1, <1>2 DEF TreeInv, TypeOK, InFlight, StopsWhenCancelled, account
  <1> QED BY <1>3, <1>4, <1>5 DEF TreeInv

-----------------------------------------------------------------------------
(* The inductive invariant holds of every tree. *)
THEOREM TreeInvariance == Spec => []TreeInv
  <1>1. Init => TreeInv
    <2> SUFFICES ASSUME Init PROVE TreeInv
      OBVIOUS
    <2>1. root \in RunBudget /\ root.steps \in Nat
      BY TreeAssumption DEF Init, TreeAssumption, RunBudget
    <2> PICK run \in Starts(root) : stack = <<run>>
      BY DEF Init
    <2>2. /\ run \in RunContext /\ run.at # "asking" /\ run.context = root
          /\ run.budget.steps <= root.steps /\ run.budget.cost = root.cost
      BY <2>1, RunStarts DEF Init
    <2>3. stack \in Seq(RunContext) /\ Len(stack) = 1 /\ stack[1] = run /\ DOMAIN stack = {1}
      BY <2>2
    <2>4. TypeOK /\ CallersWait
      BY <2>1, <2>3 DEF Init, TypeOK, CallersWait
    <2>5. CeilingsNest
      <3>1. WithinCap(root.cost, root.cost)
        BY <2>1, TreeAssumption DEF WithinCap, RunBudget, Cap, TreeAssumption
      <3>2. \A k \in 1 .. Len(stack) : k = 1 /\ \A j \in 1 .. k : j = 1
        BY <2>3
      <3> QED BY <2>1, <2>2, <2>3, <3>1, <3>2 DEF CeilingsNest
    <2>6. InFlight
      BY <2>2, <2>3 DEF InFlight
    <2>7. TreeWithinBudget
      BY <2>1, <2>2, <2>3 DEF Init, TreeWithinBudget
    <2>8. CostCapHolds
      <3>1. root.cost # NoCap => root.cost \in Nat
        BY <2>1 DEF RunBudget, Cap
      <3> QED BY <3>1 DEF Init, CostCapHolds
    <2>9. StopsWhenCancelled
      BY DEF Init, StopsWhenCancelled
    <2> QED BY <2>4, <2>5, <2>6, <2>7, <2>8, <2>9 DEF TreeInv
  <1>2. TreeInv /\ [Next]_vars => TreeInv'
    <2> SUFFICES ASSUME TreeInv, [Next]_vars PROVE TreeInv'
      OBVIOUS
    <2>1. CASE StopEarly \/ Fail \/ Unauthorized
      <3>1. Len(stack) > 0 /\ Return /\ UNCHANGED <<account, clock, stopped>>
        BY <2>1 DEF StopEarly, Fail, Unauthorized, At, Live
      <3> QED BY <3>1, Returned
    <2>2. CASE UseTool \/ Refuse
      <3> DEFINE r == [Top EXCEPT !.calls = @ - 1]
      <3>1. /\ Len(stack) > 0 /\ Top.at = "tools" /\ Top.calls > 0
            /\ Become(r) /\ UNCHANGED <<account, clock, stopped>>
        BY <2>2 DEF UseTool, Refuse, At, Live
      <3>2. Top \in RunContext
        BY <3>1 DEF Top, TreeInv, TypeOK
      <3>3. r \in RunContext /\ r.at = "tools" /\ r.context = Top.context /\ r.budget = Top.budget
        BY <3>1, <3>2 DEF RunContext
      <3> HIDE DEF r
      <3> QED BY <3>1, <3>3, Moved
    <2>3. CASE Proceed
      <3> DEFINE r == [Top EXCEPT !.at = "loop"]
      <3>1. /\ Len(stack) > 0
            /\ Become(r) \/ Return
            /\ UNCHANGED <<account, clock, stopped>>
        BY <2>3 DEF Proceed, At, Live
      <3>2. Top \in RunContext
        BY <3>1 DEF Top, TreeInv, TypeOK
      <3>3. r \in RunContext /\ r.at = "loop" /\ r.context = Top.context /\ r.budget = Top.budget
        BY <3>2 DEF RunContext, Stage
      <3> HIDE DEF r
      <3> QED BY <3>1, <3>3, Moved, Returned
    <2>4. CASE Ask BY <2>4, AskStep
    <2>5. CASE Answer BY <2>5, AnswerStep
    <2>6. CASE \E declared \in Declared : Spawn(declared) BY <2>6, SpawnStep
    <2>7. CASE Cancel \/ Tick BY <2>7, OutsideStep
    <2>8. CASE UNCHANGED vars
      <3>1. UNCHANGED <<stack, account, clock, stopped>>
        BY <2>8 DEF vars
      <3> QED BY <3>1 DEF TreeInv, TypeOK, CallersWait, CeilingsNest, InFlight,
                          TreeWithinBudget, CostCapHolds, StopsWhenCancelled, account
    <2> QED BY <2>1, <2>2, <2>3, <2>4, <2>5, <2>6, <2>7, <2>8 DEF Next, Step
  <1> QED BY <1>1, <1>2, PTL DEF Spec

(* Every state of every tree has its types (subagents.py 127-192). *)
THEOREM TreeTyped == Spec => []TypeOK
BY TreeInvariance, PTL DEF TreeInv

(* No tree of runs takes more steps than its root, or than any run that is *)
(* still going, may: whatever budgets the subagents declare, however deep  *)
(* and however often they are called (subagents.py 63-110).                *)
THEOREM BudgetKept == Spec => []TreeWithinBudget
BY TreeInvariance, PTL DEF TreeInv

(* A cost cap is passed by one step at most (subagents.py 204-240).        *)
THEOREM CostKept == Spec => []CostCapHolds
BY TreeInvariance, PTL DEF TreeInv

(* A cancelled tree takes at most the step that is out (subagents.py 182-192). *)
THEOREM CancelKept == Spec => []StopsWhenCancelled
BY TreeInvariance, PTL DEF TreeInv

-----------------------------------------------------------------------------
(* Now lies within the second that has begun.                              *)
LEMMA SecondBegun ==
    ASSUME NEW T \in Nat \ {0}, NEW c \in Nat, NEW n \in Nat \ {0}
    PROVE  c \div T + n \in Nat /\ c < (c \div T + n) * T
  <1> DEFINE q == c \div T
  <1>1. q \in Nat /\ c < T * q + T
    BY SMT
  <1> HIDE DEF q
  <1>2. n - 1 \in Nat /\ (n - 1) * T \in Nat
    BY SMT
  <1>3. (q + n) * T = T * q + T + (n - 1) * T
    BY <1>1, SMT
  <1>4. T * q \in Nat
    BY <1>1, SMT
  <1>5. q + n \in Nat /\ c < (q + n) * T
    BY <1>1, <1>2, <1>3, <1>4
  <1> QED BY <1>5 DEF q

(* What is left to a child that is sent: a step, a second that has begun,  *)
(* and money where there is a cap.                                         *)
LEMMA ChildFits ==
    ASSUME TypeOK, NEW declared \in Declared, Spawn(declared),
           declared.steps > 0, declared.cost # 0, declared.seconds # 0,
           declared.cost # NoCap => unmetered = 0, Ceiling # 0
    PROVE  ~Exhaustion(stack'[Len(stack')].budget)
  <1> DEFINE parent == Top.context
             n == Nested(declared, parent)
             b == Bounded(n)
             m == IF Ceiling = NoCap THEN n.steps ELSE Smaller(n.steps, steps + Ceiling)
             price == IF declared.cost = NoCap THEN NoCap ELSE cost + declared.cost
             time == IF declared.seconds = NoCap THEN NoCap
                     ELSE clock \div TicksPerSecond + declared.seconds
  <1>1. /\ Len(stack) > 0 /\ Len(stack) \in Nat /\ Top \in RunContext
        /\ ~Exhaustion(parent)
        /\ \E run \in Starts(n) :
              stack' = Append([stack EXCEPT ![Len(stack)] = [Top EXCEPT !.calls = @ - 1]], run)
    BY DEF Spawn, At, Live, Top, TypeOK
  <1>2. parent \in RunBudget /\ declared \in RunBudget
    BY <1>1, TreeAssumption DEF RunContext, TreeAssumption
  <1> HIDE DEF parent
  <1>3. n = [steps |-> Smaller(parent.steps, steps + declared.steps),
             cost |-> Lesser(parent.cost, price), seconds |-> Lesser(parent.seconds, time)]
    BY DEF Nested
  <1>4. n \in RunBudget
    BY <1>2, NestedWithin
  <1> HIDE DEF n
  <1>5. b = [n EXCEPT !.steps = m]
    BY DEF Bounded
  <1>6. b.steps = m /\ b.cost = n.cost /\ b.seconds = n.seconds
    BY <1>4, <1>5 DEF RunBudget
  <1>7. stack'[Len(stack')].budget = b
    <2> PICK run \in Starts(n) :
              stack' = Append([stack EXCEPT ![Len(stack)] = [Top EXCEPT !.calls = @ - 1]], run)
      BY <1>1
    <2>2. run \in RunContext /\ run.budget = b
      BY <1>4, RunStarts DEF TypeOK
    <2>3. [stack EXCEPT ![Len(stack)] = [Top EXCEPT !.calls = @ - 1]] \in Seq(RunContext)
      <3> DEFINE r == [Top EXCEPT !.calls = @ - 1]
      <3>1. Top.calls > 0
        BY DEF Spawn
      <3>2. r \in RunContext
        BY <1>1, <3>1 DEF RunContext
      <3> HIDE DEF r
      <3>3. [stack EXCEPT ![Len(stack)] = r] \in Seq(RunContext)
        BY <1>1, <3>2, Rewrites DEF TypeOK
      <3> QED BY <3>3 DEF r
    <2> DEFINE s == [stack EXCEPT ![Len(stack)] = [Top EXCEPT !.calls = @ - 1]]
    <2>4. s \in Seq(RunContext) /\ stack' = Append(s, run)
      BY <2>3
    <2> HIDE DEF s
    <2>5. Len(stack') = Len(s) + 1 /\ stack'[Len(s) + 1] = run
      BY <2>2, <2>4, Appends
    <2> QED BY <2>2, <2>5
  <1> HIDE DEF b
  <1>8. /\ stopped = Never /\ steps < parent.steps
        /\ parent.cost # NoCap => unmetered = 0 /\ cost < parent.cost
        /\ parent.seconds # NoCap => clock < parent.seconds * TicksPerSecond
    <2>1. /\ parent.steps \in Nat /\ parent.cost \in Cap /\ parent.seconds \in Cap
          /\ steps \in Nat /\ cost \in Nat /\ unmetered \in Nat /\ clock \in Nat
      BY <1>2 DEF RunBudget, TypeOK
    <2>2. parent.seconds # NoCap => parent.seconds * TicksPerSecond \in Nat
      BY <2>1, TreeAssumption DEF Cap, TreeAssumption
    <2> QED BY <1>1, <2>1, <2>2 DEF Exhaustion, Cap
  <1>9. ~(steps >= b.steps)
    <2>1. n.steps \in Nat /\ n.steps > steps
      BY <1>2, <1>3, <1>8 DEF RunBudget, Smaller, TypeOK
    <2>2. Ceiling # NoCap => Ceiling \in Nat \ {0}
      BY TreeAssumption DEF TreeAssumption, Cap
    <2> QED BY <1>6, <2>1, <2>2 DEF Smaller, TypeOK
  <1>10. b.cost # NoCap => ~(unmetered > 0 \/ cost >= b.cost)
    <2>1. parent.cost \in Cap /\ declared.cost \in Cap /\ cost \in Nat
      BY <1>2 DEF RunBudget, TypeOK
    <2>2. price # NoCap => price \in Nat /\ cost < price /\ unmetered = 0
      BY <2>1, TreeAssumption DEF Cap, TreeAssumption
    <2>3. b.cost = Lesser(parent.cost, price)
      BY <1>3, <1>6
    <2> HIDE DEF price
    <2> QED BY <1>8, <2>1, <2>2, <2>3 DEF Lesser, Smaller, Cap
  <1>11. b.seconds # NoCap => ~(clock >= b.seconds * TicksPerSecond)
    <2>1. parent.seconds \in Cap /\ declared.seconds \in Cap /\ clock \in Nat
      BY <1>2 DEF RunBudget, TypeOK
    <2>2. time # NoCap => time \in Nat /\ clock < time * TicksPerSecond
      BY <2>1, SecondBegun, TreeAssumption DEF Cap, TreeAssumption
    <2>3. b.seconds = Lesser(parent.seconds, time)
      BY <1>3, <1>6
    <2> HIDE DEF time
    <2>4. b.seconds # NoCap => /\ b.seconds \in Nat
                               /\ clock < b.seconds * TicksPerSecond
      BY <1>8, <2>1, <2>2, <2>3 DEF Lesser, Smaller, Cap
    <2>5. b.seconds # NoCap => b.seconds * TicksPerSecond \in Nat
      BY <2>4, TreeAssumption DEF TreeAssumption
    <2> QED BY <2>1, <2>4, <2>5
  <1> QED BY <1>7, <1>8, <1>9, <1>10, <1>11 DEF Exhaustion

(* A child that is sent may take a step: what is declared and what is left *)
(* to its caller are both more than the tree has spent (subagents.py 72-83).*)
THEOREM ChildStarts == Spec => ChildMayStep
  <1>1. ASSUME TypeOK, [Next]_vars
        PROVE  [\A declared \in Declared :
                  Spawn(declared) /\ declared.steps > 0 /\ declared.cost # 0
                      /\ declared.seconds # 0
                      /\ (declared.cost # NoCap => unmetered = 0) /\ Ceiling # 0
                  => ~Exhaustion(stack'[Len(stack')].budget)]_vars
    BY <1>1, ChildFits
  <1> QED BY <1>1, TreeTyped, PTL DEF Spec, ChildMayStep
=============================================================================
