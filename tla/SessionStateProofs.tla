-------------------------- MODULE SessionStateProofs --------------------------
(***************************************************************************)
(* How far a worker with a stale copy can go: it may take the document     *)
(* back to another run, but not finish one that is not its own.            *)
(***************************************************************************)
EXTENDS SessionState, TLAPS

(* A document is of a run that was begun. *)
Dated(d) == d \in Doc /\ d.run <= begun

(* It does not say of a run that goes on that it is over. *)
Honest(d) == \A w \in Worker : pc[w] = "turn" => ~(d.run = me[w] /\ d.over)

(* Runs have ids of their own. *)
OwnRuns ==
    /\ \A w \in Worker : me[w] <= begun
    /\ \A w \in Worker : pc[w] = "turn" => me[w] > 0
    /\ \A v, w \in Worker : v # w /\ pc[v] = "turn" /\ pc[w] = "turn" => me[v] # me[w]

(* Both hold of the document and of every copy somebody may write back:    *)
(* run() writes what it read, however old that is.                         *)
StateInv ==
    /\ TypeOK
    /\ OwnRuns
    /\ Dated(doc) /\ Honest(doc)
    /\ \A w \in Worker :
          cache[w] # Unread \/ pc[w] \in {"begin", "mode"} => Dated(cache[w]) /\ Honest(cache[w])

(* What begin_run writes, whatever the copy held. *)
LEMMA RunPut ==
    ASSUME NEW x \in Doc, NEW n \in Nat
    PROVE  LET d == [x EXCEPT !.run = n, !.over = FALSE]
           IN  d \in Doc /\ d.run = n /\ ~d.over
BY DEF Doc

(* Reading copies an honest document. *)
LEMMA OpenKeeps ==
    ASSUME StateInv, NEW w \in Worker, Open(w) PROVE StateInv'
<1>1. TypeOK'
  BY DEF StateInv, TypeOK, Open
<1>2. OwnRuns'
  BY DEF StateInv, OwnRuns, Open
<1>3. Dated(doc)' /\ Honest(doc)'
  BY DEF StateInv, Dated, Honest, Open
<1>4. ASSUME NEW v \in Worker, cache'[v] # Unread \/ pc'[v] \in {"begin", "mode"}
      PROVE  Dated(cache[v])' /\ Honest(cache[v])'
  BY <1>4 DEF StateInv, TypeOK, Dated, Honest, Open
<1> QED BY <1>1, <1>2, <1>3, <1>4 DEF StateInv

(* Writing the mode back takes the document to the copy, which is honest too. *)
LEMMA UsingModeKeeps ==
    ASSUME StateInv, NEW w \in Worker, UsingMode(w) PROVE StateInv'
<1>1. TypeOK'
  BY DEF StateInv, TypeOK, Doc, Dated, Write, UsingMode
<1>2. OwnRuns'
  BY DEF StateInv, OwnRuns, UsingMode
<1>3. Dated(doc)' /\ Honest(doc)'
  BY DEF StateInv, Dated, Honest, Doc, Write, UsingMode
<1>4. ASSUME NEW v \in Worker, cache'[v] # Unread \/ pc'[v] \in {"begin", "mode"}
      PROVE  Dated(cache[v])' /\ Honest(cache[v])'
  BY <1>4 DEF StateInv, Dated, Honest, Doc, Write, UsingMode
<1> QED BY <1>1, <1>2, <1>3, <1>4 DEF StateInv

(* A new run has an id that no run had, and the document says it goes on. *)
LEMMA BeginRunKeeps ==
    ASSUME StateInv, NEW w \in Worker, BeginRun(w) PROVE StateInv'
<1> DEFINE d == [cache[w] EXCEPT !.run = begun + 1, !.over = FALSE]
<1>0. begun \in Nat /\ cache[w] \in Doc
  BY DEF StateInv, TypeOK, BeginRun, Dated
<1>1. d \in Doc /\ d.run = begun + 1 /\ ~d.over
  <2>1. begun + 1 \in Nat
    BY <1>0
  <2> QED BY <1>0, <2>1, RunPut, Zenon
<1>2. /\ doc' = d /\ cache' = [cache EXCEPT ![w] = d]
      /\ me' = [me EXCEPT ![w] = begun + 1] /\ begun' = begun + 1
      /\ pc' = [pc EXCEPT ![w] = "turn"]
  BY DEF BeginRun, Write
<1> HIDE DEF d
<1>3. TypeOK'
  BY <1>1, <1>2 DEF StateInv, TypeOK
<1>4. OwnRuns'
  BY <1>2 DEF StateInv, TypeOK, OwnRuns
<1>5. Dated(doc)' /\ Honest(doc)'
  BY <1>0, <1>1, <1>2 DEF Dated, Honest
<1>6. ASSUME NEW v \in Worker, cache'[v] # Unread \/ pc'[v] \in {"begin", "mode"}
      PROVE  Dated(cache[v])' /\ Honest(cache[v])'
  <2>1. CASE v = w
    <3>1. cache'[v] = doc'
      BY <1>2, <2>1 DEF StateInv, TypeOK
    <3> QED BY <1>5, <3>1
  <2>2. CASE v # w
    <3>1. /\ cache'[v] = cache[v] /\ Dated(cache[v]) /\ Honest(cache[v])
          /\ cache[v].run \in Nat
      BY <1>2, <1>6, <2>2 DEF StateInv, Dated, Doc
    <3> QED BY <1>0, <1>2, <3>1 DEF StateInv, TypeOK, Dated, Honest
  <2> QED BY <2>1, <2>2
<1> QED BY <1>3, <1>4, <1>5, <1>6 DEF StateInv

(* A dropped copy says nothing. *)
LEMMA LockKeeps ==
    ASSUME StateInv, NEW w \in Worker, Lock(w) PROVE StateInv'
<1>1. TypeOK'
  BY DEF StateInv, TypeOK, Lock
<1>2. OwnRuns'
  BY DEF StateInv, OwnRuns, Lock
<1>3. Dated(doc)' /\ Honest(doc)'
  BY DEF StateInv, Dated, Honest, Lock
<1>4. ASSUME NEW v \in Worker, cache'[v] # Unread \/ pc'[v] \in {"begin", "mode"}
      PROVE  Dated(cache[v])' /\ Honest(cache[v])'
  BY <1>4 DEF StateInv, Dated, Honest, Lock
<1> QED BY <1>1, <1>2, <1>3, <1>4 DEF StateInv

(* As Open. *)
LEMMA ReloadKeeps ==
    ASSUME StateInv, NEW w \in Worker, Reload(w) PROVE StateInv'
<1>1. TypeOK'
  BY DEF StateInv, TypeOK, Reload
<1>2. OwnRuns'
  BY DEF StateInv, OwnRuns, Reload
<1>3. Dated(doc)' /\ Honest(doc)'
  BY DEF StateInv, Dated, Honest, Reload
<1>4. ASSUME NEW v \in Worker, cache'[v] # Unread \/ pc'[v] \in {"begin", "mode"}
      PROVE  Dated(cache[v])' /\ Honest(cache[v])'
  BY <1>4 DEF StateInv, Dated, Honest, Reload
<1> QED BY <1>1, <1>2, <1>3, <1>4 DEF StateInv

(* The run marked over is the worker's own, and it does not go on. *)
LEMMA FinishRunKeeps ==
    ASSUME StateInv, NEW w \in Worker, FinishRun(w) PROVE StateInv'
<1>1. pc[w] = "turn" /\ pc' = [pc EXCEPT ![w] = "idle"] /\ UNCHANGED <<me, begun>>
  BY DEF FinishRun
<1>2. OwnRuns'
  BY <1>1 DEF StateInv, OwnRuns
<1>3. CASE UNCHANGED <<doc, cache>>
  <2>1. TypeOK'
    BY <1>1, <1>3 DEF StateInv, TypeOK
  <2>2. Dated(doc)' /\ Honest(doc)'
    BY <1>1, <1>3 DEF StateInv, Dated, Honest
  <2>3. ASSUME NEW v \in Worker, cache'[v] # Unread \/ pc'[v] \in {"begin", "mode"}
        PROVE  Dated(cache[v])' /\ Honest(cache[v])'
    BY <1>1, <1>3, <2>3 DEF StateInv, Dated, Honest
  <2> QED BY <1>2, <2>1, <2>2, <2>3 DEF StateInv
<1>4. CASE ~UNCHANGED <<doc, cache>>
  <2> DEFINE d == [cache[w] EXCEPT !.run = me[w], !.over = TRUE]
  <2>1. cache[w] \in Doc /\ me[w] \in Nat /\ me[w] <= begun
    BY <1>4 DEF StateInv, TypeOK, OwnRuns, FinishRun
  <2>2. d \in Doc /\ d.run = me[w]
    BY <2>1 DEF Doc
  <2>3. doc' = d /\ cache' = [cache EXCEPT ![w] = d]
    BY <1>4 DEF FinishRun, Write
  <2> HIDE DEF d
  <2>4. TypeOK'
    BY <1>1, <2>2, <2>3 DEF StateInv, TypeOK
  <2>5. Dated(doc)' /\ Honest(doc)'
    BY <1>1, <2>1, <2>2, <2>3 DEF StateInv, TypeOK, OwnRuns, Dated, Honest
  <2>6. ASSUME NEW v \in Worker, cache'[v] # Unread \/ pc'[v] \in {"begin", "mode"}
        PROVE  Dated(cache[v])' /\ Honest(cache[v])'
    <3>1. CASE v = w
      <4>1. cache'[v] = doc'
        BY <2>3, <3>1 DEF StateInv, TypeOK
      <4> QED BY <2>5, <4>1
    <3>2. CASE v # w
      BY <1>1, <2>3, <2>6, <3>2 DEF StateInv, Dated, Honest
    <3> QED BY <3>1, <3>2
  <2> QED BY <1>2, <2>4, <2>5, <2>6 DEF StateInv
<1> QED BY <1>3, <1>4

(* Fewer runs go on. *)
LEMMA LeaveKeeps ==
    ASSUME StateInv, NEW w \in Worker, Leave(w) PROVE StateInv'
<1>1. TypeOK'
  BY DEF StateInv, TypeOK, Leave
<1>2. OwnRuns'
  BY DEF StateInv, OwnRuns, Leave
<1>3. Dated(doc)' /\ Honest(doc)'
  BY DEF StateInv, Dated, Honest, Leave
<1>4. ASSUME NEW v \in Worker, cache'[v] # Unread \/ pc'[v] \in {"begin", "mode"}
      PROVE  Dated(cache[v])' /\ Honest(cache[v])'
  BY <1>4 DEF StateInv, Dated, Honest, Leave
<1> QED BY <1>1, <1>2, <1>3, <1>4 DEF StateInv

(* The empty document is of no run. *)
LEMMA ForgetKeeps ==
    ASSUME StateInv, NEW w \in Worker, Forget(w) PROVE StateInv'
<1>1. TypeOK'
  BY DEF StateInv, TypeOK, Doc, Empty, NoRun, Forget
<1>2. OwnRuns'
  BY DEF StateInv, OwnRuns, Forget
<1>3. Dated(doc)' /\ Honest(doc)'
  BY DEF StateInv, TypeOK, Dated, Honest, Doc, Empty, NoRun, Forget
<1>4. ASSUME NEW v \in Worker, cache'[v] # Unread \/ pc'[v] \in {"begin", "mode"}
      PROVE  Dated(cache[v])' /\ Honest(cache[v])'
  BY <1>4 DEF StateInv, Dated, Honest, Forget
<1> QED BY <1>1, <1>2, <1>3, <1>4 DEF StateInv

(* Nobody has begun a run. *)
LEMMA StateStarts == Init => StateInv
BY DEF Init, StateInv, TypeOK, OwnRuns, Dated, Honest, Doc, Empty, NoRun

(* Every action of every worker keeps it. *)
LEMMA StateStep == StateInv /\ [Next]_vars => StateInv'
<1> SUFFICES ASSUME StateInv, [Next]_vars PROVE StateInv'
  OBVIOUS
<1>1. CASE UNCHANGED vars
  BY <1>1 DEF vars, StateInv, TypeOK, OwnRuns, Dated, Honest
<1> QED BY <1>1, OpenKeeps, UsingModeKeeps, BeginRunKeeps, LockKeeps, ReloadKeeps, FinishRunKeeps,
           LeaveKeeps, ForgetKeeps DEF Next

(* TypeOK: the document, the copies and the run ids have their types, for  *)
(* any number of workers (session.py).                                     *)
THEOREM StateTyped == Spec => []TypeOK
<1>1. StateInv => TypeOK
  BY DEF StateInv
<1> QED BY <1>1, StateStarts, StateStep, PTL DEF Spec

(* LiveNotOver: a late worker may put its own run in place of the live one *)
(* (finding 3), but no worker marks a run of somebody else finished while  *)
(* it goes on, whichever copies it writes back: the id it writes with the  *)
(* status is its own (session.py 351).                                     *)
THEOREM NobodyEndsAnother == Spec => []LiveNotOver
<1>1. StateInv => LiveNotOver
  BY DEF StateInv, Honest, LiveNotOver
<1> QED BY <1>1, StateStarts, StateStep, PTL DEF Spec
===============================================================================
