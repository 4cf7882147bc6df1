---------------------------- MODULE SessionState ----------------------------
(***************************************************************************)
(* The ephemeral document of a session as the Session instances of several *)
(* workers write it (session.py).  An instance reads the document once and *)
(* caches it; each write puts the whole cached document back with one key  *)
(* changed.  The keys are the run in flight and the mode, which stands for *)
(* model and provider as well.                                             *)
(*                                                                         *)
(* Every get and put of the store is a step.  A run id is a number here.   *)
(***************************************************************************)
EXTENDS Naturals

CONSTANTS
    Worker,
    Mode,
    MaxRuns,    \* bound on the runs begun
    Unread      \* nothing cached

NoRun == 0
Doc == [run : Nat, over : BOOLEAN, mode : Mode \cup {Unread}]
Empty == [run |-> NoRun, over |-> FALSE, mode |-> Unread]

VARIABLES
    doc,        \* what the store holds
    cache,      \* _cached_state of each worker's Session
    pc,         \* what the worker does with it
    me,         \* the id of its run
    begun       \* runs begun so far

vars == <<doc, cache, pc, me, begun>>

TypeOK ==
    /\ doc \in Doc
    /\ cache \in [Worker -> Doc \cup {Unread}]
    /\ pc \in [Worker -> {"idle", "begin", "mode", "turn"}]
    /\ me \in [Worker -> Nat]
    /\ begun \in Nat

Init ==
    /\ doc = Empty
    /\ cache = [w \in Worker |-> Unread]
    /\ pc = [w \in Worker |-> "idle"]
    /\ me = [w \in Worker |-> NoRun]
    /\ begun = 0

(* A Session is resolved and its state read, to send or to set the mode.   *)
Open(w) ==
    /\ pc[w] = "idle"
    /\ cache' = [cache EXCEPT ![w] = doc]
    /\ \E l \in {"begin", "mode"} : pc' = [pc EXCEPT ![w] = l]
    /\ UNCHANGED <<doc, me, begun>>

(* _write: the document becomes new, and so does what is cached. *)
Write(w, new) ==
    /\ doc' = new
    /\ cache' = [cache EXCEPT ![w] = new]

UsingMode(w) ==
    /\ pc[w] = "mode"
    /\ \E m \in Mode : Write(w, [cache[w] EXCEPT !.mode = m])
    /\ pc' = [pc EXCEPT ![w] = "idle"]
    /\ UNCHANGED <<me, begun>>

BeginRun(w) ==
    /\ pc[w] = "begin"
    /\ begun < MaxRuns
    /\ begun' = begun + 1
    /\ me' = [me EXCEPT ![w] = begun + 1]
    /\ Write(w, [cache[w] EXCEPT !.run = begun + 1, !.over = FALSE])
    /\ pc' = [pc EXCEPT ![w] = "turn"]

(* lock drops what is cached; run() reads it again. *)
Lock(w) ==
    /\ pc[w] = "turn"
    /\ cache' = [cache EXCEPT ![w] = Unread]
    /\ UNCHANGED <<doc, pc, me, begun>>

Reload(w) ==
    /\ pc[w] = "turn"
    /\ cache[w] = Unread
    /\ cache' = [cache EXCEPT ![w] = doc]
    /\ UNCHANGED <<doc, pc, me, begun>>

(* _finish_run, for complete_run and fail_run. *)
FinishRun(w) ==
    /\ pc[w] = "turn"
    /\ cache[w] # Unread
    /\ IF cache[w].run \in {NoRun, me[w]}
       THEN Write(w, [cache[w] EXCEPT !.run = me[w], !.over = TRUE])
       ELSE UNCHANGED <<doc, cache>>
    /\ pc' = [pc EXCEPT ![w] = "idle"]
    /\ UNCHANGED <<me, begun>>

(* The turn waits for a person, or its process dies. *)
Leave(w) ==
    /\ pc[w] # "idle"
    /\ pc' = [pc EXCEPT ![w] = "idle"]
    /\ UNCHANGED <<doc, cache, me, begun>>

(* forget *)
Forget(w) ==
    /\ pc[w] = "idle"
    /\ doc' = Empty
    /\ cache' = [cache EXCEPT ![w] = Unread]
    /\ UNCHANGED <<pc, me, begun>>

Next == \E w \in Worker :
    \/ Open(w) \/ UsingMode(w) \/ BeginRun(w) \/ Lock(w) \/ Reload(w)
    \/ FinishRun(w) \/ Leave(w) \/ Forget(w)

Spec == Init /\ [][Next]_vars

-----------------------------------------------------------------------------
(* "A run that is not the one in flight does not overwrite it.  A late     *)
(* worker reporting on a superseded run would otherwise mark the live one  *)
(* finished" (session.py 341-343).                                         *)
SupersededKeepsOff ==
    [][\A w \in Worker : FinishRun(w) /\ doc' # doc => doc.run \in {NoRun, me[w]}]_vars

(* What the comment fears does not happen all the same: a late worker may  *)
(* put its own run in place of the live one, but the document never says   *)
(* of a run that still goes on that it is finished (session.py 338-356).   *)
LiveNotOver == \A w \in Worker : pc[w] = "turn" => ~(doc.run = me[w] /\ doc.over)

=============================================================================
