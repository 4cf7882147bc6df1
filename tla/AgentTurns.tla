----------------------------- MODULE AgentTurns -----------------------------
(***************************************************************************)
(* Turns of AgentRuntime (runtime.py) on one session: workers that send    *)
(* and resume at the same time, the stored thread (thread.py,              *)
(* thread_rows.py) they share, the approvals a person records in it, and   *)
(* the session lock.  What the runs write into the session's ephemeral     *)
(* document is in SessionState; a turn does not act on it.                 *)
(*                                                                         *)
(* Reads and writes of a store are single steps, a tool that runs is one.  *)
(* A call stands for its tool and its approval as well; it comes once.     *)
(* Appends to the thread take its lock (AbstractLock) and so are atomic.   *)
(***************************************************************************)
EXTENDS Naturals, Sequences

CONSTANTS
    Worker,         \* the workers that send on this session
    Call,           \* the calls the model may make
    Gated,          \* those whose tool the mode wants approved
    Offers,         \* the sets of tools a run may be offered
    Unserialisable, \* calls whose tool may return what json.dumps refuses
    MaxTalk,        \* bound on the thread for replies and decisions
    MaxRows,        \* bound on the thread for the start of a turn
    MaxFaults,      \* bound on the turns cut off, and on results refused
    None            \* no run, lock holder or scope

Outcome == {"ran", "refused", "unavailable", "denied", "unanswered", "failed"}
Row == [type : {"user"}]
    \cup [type : {"assistant"}, calls : SUBSET Call, requests : SUBSET Call,
          scope : SUBSET Call]
    \cup [type : {"result"}, results : SUBSET (Call \X Outcome),
          decisions : SUBSET (Call \X BOOLEAN)]

ASSUME TurnAssumption ==
    /\ Gated \subseteq Call
    /\ Offers \subseteq SUBSET Call
    /\ Unserialisable \subseteq Call
    /\ MaxTalk \in Nat /\ MaxRows \in Nat /\ MaxFaults \in Nat
    /\ None \notin Worker

VARIABLES
    rows,       \* the stored thread
    ran,        \* how often the tool of each call has run
    holder,     \* the worker that holds the session lock
    pc,         \* where each worker is in _turn
    offered,    \* the tools its run is offered
    todo,       \* calls it still has to run
    got,        \* results it has for the row it will record
    waits,      \* workers whose step asked a person
    faults      \* turns cut off, or ended by the result of an approved call

turn == <<pc, offered, todo, got, waits>>
vars == <<rows, ran, holder, turn, faults>>

Points == {"idle", "narrow", "look", "lock", "resolve", "run", "prompt", "step",
           "refuse", "invoke"}

TypeOK ==
    /\ rows \in Seq(Row)
    /\ ran \in [Call -> Nat]
    /\ holder \in Worker \cup {None}
    /\ pc \in [Worker -> Points]
    /\ offered \in [Worker -> SUBSET Call]
    /\ todo \in [Worker -> SUBSET Call]
    /\ got \in [Worker -> SUBSET (Call \X Outcome)]
    /\ waits \subseteq Worker
    /\ faults \in Nat

Init ==
    /\ rows = <<>>
    /\ ran = [c \in Call |-> 0]
    /\ holder = None
    /\ pc = [w \in Worker |-> "idle"]
    /\ offered = [w \in Worker |-> {}]
    /\ todo = [w \in Worker |-> {}]
    /\ got = [w \in Worker |-> {}]
    /\ waits = {}
    /\ faults = 0

-----------------------------------------------------------------------------
(* Reading the thread.                                                     *)

IsResult(i) == rows[i].type = "result"
Requests(i) == IF rows[i].type = "assistant" THEN rows[i].requests ELSE {}
Calls(i) == IF rows[i].type = "assistant" THEN rows[i].calls ELSE {}
HasResult(c) ==
    \E i \in DOMAIN rows : IsResult(i) /\ \E o \in Outcome : <<c, o>> \in rows[i].results

(* The last turn that called tools, or 0. *)
Asking ==
    IF \A i \in DOMAIN rows : Calls(i) = {} THEN 0
    ELSE CHOOSE i \in DOMAIN rows :
            Calls(i) # {} /\ \A j \in DOMAIN rows : j > i => Calls(j) = {}

(* The first run of result rows after it: thread_view folds them into one. *)
Answers ==
    {k \in DOMAIN rows :
        \E j \in Asking + 1 .. k :
            /\ \A l \in j .. k : IsResult(l)
            /\ \A l \in Asking + 1 .. j - 1 : ~IsResult(l)}

(* Variant: the rows after the first of a block are not folded in.         *)
ResultedFirst(c) ==
    \E k \in Answers, o \in Outcome : k - 1 \notin Answers /\ <<c, o>> \in rows[k].results

(* What that row says of a call; a later decision replaces an earlier one. *)
Resulted(c) == \E k \in Answers, o \in Outcome : <<c, o>> \in rows[k].results
Decides(k, c, yes) == c \in Requests(Asking) /\ <<c, yes>> \in rows[k].decisions

Decided(c, yes) ==
    \E k \in Answers :
        /\ Decides(k, c, yes)
        /\ \A l \in Answers : l > k => ~Decides(l, c, ~yes)

(* _unresolved: the gated calls of that turn without a result. *)
Unresolved ==
    IF Asking = 0 THEN {} ELSE {c \in Calls(Asking) : c \in Gated /\ ~Resulted(c)}

(* approval_tool_scope: the tools stored with the requests, while nobody   *)
(* has said anything since.                                                *)
Scope ==
    IF \A i \in DOMAIN rows : IsResult(i) THEN None
    ELSE LET last == CHOOSE i \in DOMAIN rows :
                        ~IsResult(i) /\ \A j \in DOMAIN rows : j > i => IsResult(j)
         IN  IF Requests(last) = {} THEN None ELSE rows[last].scope

-----------------------------------------------------------------------------
Goto(w, l) == pc' = [pc EXCEPT ![w] = l]
Reply(S, requests, scope) ==
    [type |-> "assistant", calls |-> S, requests |-> requests, scope |-> scope]
Results(pairs) == [type |-> "result", results |-> pairs, decisions |-> {}]
Release(w) == holder' = IF holder = w THEN None ELSE holder

(* The turn is over for the worker: it returns, raises or dies.  A session *)
(* lock it holds is free.                                                  *)
Leave(w) ==
    /\ Goto(w, "idle")
    /\ Release(w)
    /\ offered' = [offered EXCEPT ![w] = {}]
    /\ todo' = [todo EXCEPT ![w] = {}]
    /\ got' = [got EXCEPT ![w] = {}]
    /\ waits' = waits \ {w}

-----------------------------------------------------------------------------
(* send, with or without a prompt. *)
Start(w) ==
    /\ pc[w] = "idle"
    /\ Len(rows) < MaxRows
    /\ Goto(w, "narrow")
    /\ UNCHANGED <<rows, ran, holder, offered, todo, got, waits, faults>>

(* The tools the run is offered, narrowed to a pending approval's scope.   *)
Narrow(w) ==
    /\ pc[w] = "narrow"
    /\ \E tools \in Offers :
        offered' = [offered EXCEPT ![w] = IF Scope = None THEN tools ELSE tools \cap Scope]
    /\ Goto(w, "look")
    /\ UNCHANGED <<rows, ran, holder, todo, got, waits, faults>>

(* _resolve_approvals looks once without the session lock. *)
Look(w) ==
    /\ pc[w] = "look"
    /\ Goto(w, IF Unresolved = {} THEN "prompt" ELSE "lock")
    /\ UNCHANGED <<rows, ran, holder, offered, todo, got, waits, faults>>

(* Variant: without the lock. *)
TakeNothing(w) ==
    /\ pc[w] = "lock"
    /\ holder' = w
    /\ Goto(w, "resolve")
    /\ UNCHANGED <<rows, ran, offered, todo, got, waits, faults>>

(* The session lock is had. *)
Take(w) ==
    /\ pc[w] = "lock"
    /\ holder = None
    /\ holder' = w
    /\ Goto(w, "resolve")
    /\ UNCHANGED <<rows, ran, offered, todo, got, waits, faults>>

(* The wait for the lock is over: session_locked.                          *)
LockBusy(w) ==
    /\ pc[w] = "lock"
    /\ holder # None
    /\ Leave(w)
    /\ UNCHANGED <<rows, ran, faults>>

(* Variant: what nobody has answered counts as denied. *)
VerdictHasty(c) == IF Decided(c, TRUE) THEN "unavailable" ELSE "denied"

(* Variant: a denial without a reason leaves nothing to record.            *)
VerdictUnsaid(c) ==
    IF Decided(c, TRUE) THEN "unavailable"
    ELSE IF Decided(c, FALSE) THEN None ELSE "unanswered"

(* What resolve records for a call that it does not run.                   *)
Verdict(c) ==
    IF Decided(c, TRUE) THEN "unavailable"
    ELSE IF Decided(c, FALSE) THEN "denied" ELSE "unanswered"

(* Variant: what the run was offered when it started. *)
BoundedByOffer(w) == offered[w]

(* The tools resolve leaves to the run: those in the scope of the rows it  *)
(* has read, none if there is no scope.                                    *)
Bounded(w) == IF Scope = None THEN {} ELSE offered[w] \cap Scope

(* Variant: the lock is left once the snapshot is read. *)
ResolveReleasing(w) ==
    /\ pc[w] = "resolve"
    /\ Release(w)
    /\ LET runnable == {c \in Unresolved \cap Bounded(w) : Decided(c, TRUE)} IN
        /\ todo' = [todo EXCEPT ![w] = runnable]
        /\ got' = [got EXCEPT ![w] = {<<c, Verdict(c)>> : c \in Unresolved \ runnable}]
        /\ Goto(w, IF Unresolved = {} THEN "prompt" ELSE "run")
    /\ UNCHANGED <<rows, ran, offered, waits, faults>>

(* resolve reads calls, decisions and scope from one snapshot.             *)
Resolve(w) ==
    /\ pc[w] = "resolve"
    /\ IF Unresolved = {}
       THEN /\ Goto(w, "prompt")
            /\ Release(w)
            /\ UNCHANGED <<offered, todo, got>>
       ELSE LET runnable == {c \in Unresolved \cap Bounded(w) : Decided(c, TRUE)} IN
            /\ offered' = [offered EXCEPT ![w] = Bounded(w)]
            /\ todo' = [todo EXCEPT ![w] = runnable]
            /\ got' = [got EXCEPT ![w] = {<<c, Verdict(c)>> : c \in Unresolved \ runnable}]
            /\ Goto(w, "run")
            /\ UNCHANGED holder
    /\ UNCHANGED <<rows, ran, waits, faults>>

(* The tool of a call has run and its result is kept; a tool that fails    *)
(* has a result as well.                                                   *)
Did(w, c, o) ==
    /\ todo' = [todo EXCEPT ![w] = @ \ {c}]
    /\ got' = [got EXCEPT ![w] = @ \cup {<<c, o>>}]
    /\ UNCHANGED <<pc, holder, offered, waits>>

(* _invoke on a tool that is offered: its effect happens.                  *)
Effect(w, c) ==
    /\ ran' = [ran EXCEPT ![c] = @ + 1]
    /\ Did(w, c, "ran")

(* It happens, but its result cannot be written as JSON: that is outside   *)
(* of the try, and ends the turn.                                          *)
Unwritten(w, c) ==
    /\ c \in Unserialisable
    /\ ran' = [ran EXCEPT ![c] = @ + 1]
    /\ Leave(w)

Fault ==
    /\ faults < MaxFaults
    /\ faults' = faults + 1

(* Variant: a refusal is raised. *)
RunApprovedRaising(w, c) ==
    /\ pc[w] = "run"
    /\ c \in todo[w]
    /\ \/ Effect(w, c) /\ UNCHANGED faults
       \/ Unwritten(w, c) /\ Fault
       \/ Leave(w) /\ UNCHANGED <<ran, faults>>
    /\ UNCHANGED rows

(* _run_approved: refused by the authorizer at the call, or run.           *)
RunApproved(w, c) ==
    /\ pc[w] = "run"
    /\ c \in todo[w]
    /\ \/ Effect(w, c) /\ UNCHANGED faults
       \/ Unwritten(w, c) /\ Fault
       \/ Did(w, c, "refused") /\ UNCHANGED <<ran, faults>>
    /\ UNCHANGED rows

(* resolve records the row and leaves the lock.                            *)
Record(w) ==
    /\ pc[w] = "run"
    /\ todo[w] = {}
    /\ rows' = Append(rows, Results(got[w]))
    /\ got' = [got EXCEPT ![w] = {}]
    /\ Release(w)
    /\ Goto(w, "prompt")
    /\ UNCHANGED <<ran, offered, todo, waits, faults>>

(* The prompt is recorded, unless it is empty: the turn only resumes.      *)
Prompt(w) ==
    /\ pc[w] = "prompt"
    /\ \/ Len(rows) < MaxTalk /\ rows' = Append(rows, [type |-> "user"])
       \/ UNCHANGED rows
    /\ Goto(w, "step")
    /\ UNCHANGED <<ran, holder, offered, todo, got, waits, faults>>

(* The budget stops the loop before a step, whenever that is.              *)
Exhausted(w) ==
    /\ pc[w] = "step"
    /\ Leave(w)
    /\ UNCHANGED <<rows, ran, faults>>

(* The model answers with calls S, which are new.  The row is recorded     *)
(* with the approvals that the calls need.                                 *)
Answer(w, S, requests) ==
    /\ pc[w] = "step"
    /\ Len(rows) < MaxTalk
    /\ \A i \in DOMAIN rows : S \cap Calls(i) = {}
    /\ rows' = Append(rows, Reply(S, requests, IF requests = {} THEN {} ELSE offered[w]))

Respond(w, S) ==
    /\ Answer(w, S, S \cap Gated)
    /\ IF S = {}
       THEN Leave(w)
       ELSE /\ todo' = [todo EXCEPT ![w] = S \ Gated]
            /\ waits' = IF S \cap Gated = {} THEN waits ELSE waits \cup {w}
            /\ Goto(w, "invoke")
            /\ UNCHANGED <<holder, offered, got>>
    /\ UNCHANGED <<ran, faults>>

(* A step that finishes in error: its calls are refused and the run fails. *)
FailedStep(w, S) ==
    /\ Answer(w, S, {})
    /\ IF S = {}
       THEN Leave(w)
       ELSE /\ got' = [got EXCEPT ![w] = {<<c, "failed">> : c \in S}]
            /\ Goto(w, "refuse")
            /\ UNCHANGED <<holder, offered, todo, waits>>
    /\ UNCHANGED <<ran, faults>>

RefuseAll(w) ==
    /\ pc[w] = "refuse"
    /\ rows' = Append(rows, Results(got[w]))
    /\ Leave(w)
    /\ UNCHANGED <<ran, faults>>

(* The calls that need nobody run at once.  One that is not offered, or    *)
(* not authorized, ends the turn.                                          *)
Invoke(w, c) ==
    /\ pc[w] = "invoke"
    /\ c \in todo[w]
    /\ \/ c \in offered[w] /\ (Effect(w, c) \/ Unwritten(w, c))
       \/ Leave(w) /\ UNCHANGED ran
    /\ UNCHANGED <<rows, faults>>

(* Their results are recorded; the turn is over if it waits for a person.  *)
RecordResults(w) ==
    /\ pc[w] = "invoke"
    /\ todo[w] = {}
    /\ rows' = IF got[w] = {} THEN rows ELSE Append(rows, Results(got[w]))
    /\ IF w \in waits
       THEN Leave(w)
       ELSE /\ got' = [got EXCEPT ![w] = {}]
            /\ Goto(w, "step")
            /\ UNCHANGED <<holder, offered, todo, waits>>
    /\ UNCHANGED <<ran, faults>>

(* record_approval: a person answers a request, once or again.             *)
Decide(c, yes) ==
    /\ \E i \in DOMAIN rows : c \in Requests(i)
    /\ Len(rows) < MaxTalk
    /\ rows' = Append(rows, [type |-> "result", results |-> {}, decisions |-> {<<c, yes>>}])
    /\ UNCHANGED <<ran, holder, turn, faults>>

(* The process of a worker dies, or what it calls next (the model, a       *)
(* store, a listener) raises.                                              *)
CutOff(w) ==
    /\ pc[w] # "idle"
    /\ Fault
    /\ Leave(w)
    /\ UNCHANGED <<rows, ran>>

-----------------------------------------------------------------------------
(* A turn goes on by itself once it has started. *)
Step(w) ==
    \/ Narrow(w) \/ Look(w) \/ Take(w) \/ LockBusy(w) \/ Resolve(w) \/ Record(w)
    \/ Prompt(w) \/ Exhausted(w) \/ RefuseAll(w) \/ RecordResults(w)
    \/ \E S \in SUBSET Call : Respond(w, S) \/ FailedStep(w, S)
    \/ \E c \in Call : RunApproved(w, c) \/ Invoke(w, c)

Send == \E w \in Worker : Start(w)

Next ==
    \/ Send
    \/ \E w \in Worker : Step(w) \/ CutOff(w)
    \/ \E c \in Call, yes \in BOOLEAN : Decide(c, yes)

Spec == Init /\ [][Next]_vars

(* Callers keep coming, and a turn that is not cut off goes on. *)
FairSpec == Spec /\ WF_vars(Send) /\ \A w \in Worker : WF_vars(Step(w))

-----------------------------------------------------------------------------
(* What the thread says of a call. *)
Requested(c) == \E i \in DOMAIN rows : c \in Requests(i)
Scoped(c) == \E i \in DOMAIN rows : c \in Requests(i) /\ c \in rows[i].scope
Approved(c) == \E i \in DOMAIN rows : IsResult(i) /\ <<c, TRUE>> \in rows[i].decisions
Denied(c) == \E i \in DOMAIN rows : IsResult(i) /\ <<c, FALSE>> \in rows[i].decisions
Told(c, o) == \E i \in DOMAIN rows : IsResult(i) /\ <<c, o>> \in rows[i].results

(* The gated calls as Approvals has them; a fault is a cut.                *)
Contract == INSTANCE Approvals
    WITH Call <- Gated,
         asked <- {c \in Gated : Requested(c)},
         allowed <- {c \in Gated : Scoped(c)},
         approved <- {c \in Gated : Approved(c)},
         denied <- {c \in Gated : Denied(c)},
         ran <- [c \in Gated |-> ran[c]],
         told <- {p \in Gated \X Outcome : Requested(p[1]) /\ Told(p[1], p[2])},
         cuts <- faults

(* Whoever sends and resumes, however their rows come to lie: a gated call *)
(* runs as Approvals says, and a result says of it what happened to it.    *)
(* "approved: run, once; denied: the reason, as the result the model sees; *)
(* no decision: refused" (runtime.py 643-646).                             *)
ApprovalsHonoured == Contract!Spec

(* "A call that already has a result is done and never runs again": the    *)
(* effect of a call, gated or not, never happens once any row of the       *)
(* thread holds a result for it, whoever resumes and however rows of other *)
(* turns lie between (runtime.py 648-649, 658-662).                        *)
NeverAgain == [][\A c \in Call : ran'[c] > ran[c] => ~HasResult(c)]_vars

(* A call whose tool needs approval runs only after a person has approved  *)
(* it, without an answer it fails closed; and only if its tool was among   *)
(* those the asking run was offered, though the resuming run may be        *)
(* offered more and may have looked at the thread before the request was   *)
(* in it (runtime.py 608, 670-676, 689-697).                               *)
ApprovedOnly == [][\A c \in Gated : ran'[c] > ran[c] => Approved(c) /\ Scoped(c)]_vars

(* "approved: run, once" (runtime.py 643): a call runs again only after a  *)
(* crash or an exception ended a turn before its results were recorded,    *)
(* once for each: the exception may be that the result of this or another  *)
(* approved call could not be written (runtime.py 808).                    *)
RunsBounded == \A c \in Call : ran[c] <= 1 + faults

(* While no turn is cut off or ended by a result, a call whose only        *)
(* results say that it did not run did not run: nobody is told "not run",  *)
(* "denied" or "no response" about an effect that happened (runtime.py     *)
(* 679-702, 763-783).                                                      *)
NoFalseRefusal ==
    faults = 0 =>
        \A c \in Call :
            HasResult(c) /\ ran[c] > 0 =>
                \E i \in DOMAIN rows : IsResult(i) /\ <<c, "ran">> \in rows[i].results

Waiting(c) == c \in Unresolved /\ ~HasResult(c)

(* A call that waits for approval is answered by some turn, unless the     *)
(* model has asked for others since: the session can move on               *)
(* (runtime.py 767-771, "Recorded rather than raised").  Its tool must in  *)
(* the end return what can be written: MaxFaults bounds how often not.     *)
Answered == \A c \in Gated : Waiting(c) ~> ~Waiting(c)

TellsOf(i, c) == IsResult(i) /\ \E o \in Outcome : <<c, o>> \in rows[i].results

(* The model is told once what became of a call that a person was asked    *)
(* about, by whichever worker, unless somebody has spoken in the thread    *)
(* between the request and the first result: then _unresolved may overlook *)
(* that result (runtime.py 648-649, 658-662, 741).                         *)
ToldOnce ==
    \A c \in Gated : \A a, i, j \in DOMAIN rows :
        c \in Requests(a) /\ i < j /\ TellsOf(i, c) /\ TellsOf(j, c) =>
            \E k \in a + 1 .. i - 1 : ~IsResult(k)

(* "A call that has a result is DONE, whatever its decision says"          *)
(* (runtime.py 750): once a row says that a call ran, no later row tells   *)
(* the model anything else about it.                                       *)
DoneIsDone ==
    \A c \in Call : \A i, j \in DOMAIN rows :
        i < j /\ IsResult(i) /\ IsResult(j) =>
            ~ \E o \in Outcome \ {"ran"} :
                  <<c, "ran">> \in rows[i].results /\ <<c, o>> \in rows[j].results

=============================================================================
