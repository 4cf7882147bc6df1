--------------------------- MODULE AgentTurnsProofs ---------------------------
(***************************************************************************)
(* Why an approved call runs once: what the thread says of each call       *)
(* (ThreadShape), and what each worker may still run or record (Shape).    *)
(* Then that the turns keep what Approvals promises, and what the model is *)
(* told of a call (PendingShape).                                          *)
(***************************************************************************)
EXTENDS AgentTurns, TLAPS

(* What else the thread says of a call. *)
Called(c) == \E i \in DOMAIN rows : c \in Calls(i)
SaysRan(c) == Told(c, "ran")

(* A call is made once, requests are made for gated calls of their reply,  *)
(* and results follow the call.                                            *)
CallsOnce ==
    \A i, j \in DOMAIN rows, c \in Call : c \in Calls(i) /\ c \in Calls(j) => i = j
RequestsMade == \A i \in DOMAIN rows : Requests(i) \subseteq Calls(i) \cap Gated
ResultsLate ==
    \A i \in DOMAIN rows, c \in Call, o \in Outcome :
        IsResult(i) /\ <<c, o>> \in rows[i].results => \E j \in 1 .. i - 1 : c \in Calls(j)

(* There is a last row that is no result, and a last reply with calls.     *)
LastTalk ==
    \/ \A i \in DOMAIN rows : IsResult(i)
    \/ \E i \in DOMAIN rows :
          ~IsResult(i) /\ \A j \in DOMAIN rows : j > i => IsResult(j)
LastCalls ==
    \/ \A i \in DOMAIN rows : Calls(i) = {}
    \/ \E i \in DOMAIN rows :
          Calls(i) # {} /\ \A j \in DOMAIN rows : j > i => Calls(j) = {}

ThreadShape == CallsOnce /\ RequestsMade /\ ResultsLate /\ LastTalk /\ LastCalls

(* A call a worker may run or has a result for, one it may run or has run. *)
Mine(w, c) == c \in todo[w] \/ \E o \in Outcome : <<c, o>> \in got[w]
Live(w, c) == c \in todo[w] \/ <<c, "ran">> \in got[w]

Answering == {"invoke", "refuse"}

(* What a worker may do with its calls at each point.                      *)
Shape(w) ==
    /\ pc[w] \in {"resolve", "run"} => holder = w
    /\ pc[w] \notin {"run"} \cup Answering => todo[w] = {} /\ got[w] = {}
    /\ \A c \in Call : Mine(w, c) => Called(c)
    /\ pc[w] = "run" =>
          \A c \in Call :
             /\ Mine(w, c) => c \in Gated
             /\ Live(w, c) => Approved(c) /\ Scoped(c) /\ ~HasResult(c)
             /\ c \in todo[w] => \A o \in Outcome : <<c, o>> \notin got[w]
    /\ pc[w] = "invoke" =>
          \A c \in Call :
             /\ Mine(w, c) => c \notin Gated
             /\ c \in todo[w] => ~HasResult(c)
             /\ \A o \in Outcome : <<c, o>> \in got[w] => o = "ran"
    /\ pc[w] = "refuse" =>
          todo[w] = {} /\ \A c \in Call : Mine(w, c) => ~Requested(c)

(* Replies of different workers have different calls.                      *)
Apart(v, w) ==
    v # w /\ pc[v] \in Answering /\ pc[w] \in Answering =>
        \A c \in Call : ~(Mine(v, c) /\ Mine(w, c))

TurnInv ==
    /\ TypeOK
    /\ ThreadShape
    /\ \A w \in Worker : Shape(w)
    /\ \A v, w \in Worker : Apart(v, w)

(* How often a call may have run.                                          *)
RanShape ==
    /\ \A c \in Call : ran[c] > 0 => Called(c)
    /\ \A c \in Gated :
          /\ ran[c] > 0 => Requested(c)
          /\ \/ ran[c] <= faults
             \/ /\ ran[c] <= faults + 1
                /\ SaysRan(c) \/ \E w \in Worker : pc[w] = "run" /\ <<c, "ran">> \in got[w]
    /\ \A c \in Call \ Gated :
          ran[c] <= 1 /\ (HasResult(c) /\ ran[c] > 0 => SaysRan(c))
    /\ \A w \in Worker, c \in Call :
          /\ pc[w] = "invoke" /\ c \in todo[w] => ran[c] = 0
          /\ pc[w] = "refuse" /\ Mine(w, c) => ran[c] = 0

USE TurnAssumption

-----------------------------------------------------------------------------
(* What a row of each type has. *)
LEMMA RowParts ==
    ASSUME NEW r \in Row
    PROVE  /\ r.type \in {"user", "assistant", "result"}
           /\ r.type = "assistant" =>
                 /\ r.calls \subseteq Call /\ r.requests \subseteq Call
                 /\ r.scope \subseteq Call
           /\ r.type = "result" =>
                 r.results \subseteq Call \X Outcome /\ r.decisions \subseteq Call \X BOOLEAN
BY DEF Row

(* The rows a turn and a person write. *)
LEMMA UserRow ==
    [type |-> "user"] \in Row /\ [type |-> "user"].type = "user"
BY DEF Row

LEMMA ReplyRow ==
    ASSUME NEW S \in SUBSET Call, NEW Q \in SUBSET Call, NEW T \in SUBSET Call
    PROVE  /\ Reply(S, Q, T) \in Row
           /\ Reply(S, Q, T).type = "assistant" /\ Reply(S, Q, T).calls = S
           /\ Reply(S, Q, T).requests = Q /\ Reply(S, Q, T).scope = T
BY DEF Row, Reply

LEMMA ResultsRow ==
    ASSUME NEW P \in SUBSET (Call \X Outcome)
    PROVE  /\ Results(P) \in Row /\ Results(P).type = "result"
           /\ Results(P).results = P /\ Results(P).decisions = {}
BY DEF Row, Results

LEMMA DecisionRow ==
    ASSUME NEW c \in Call, NEW yes \in BOOLEAN
    PROVE  LET r == [type |-> "result", results |-> {}, decisions |-> {<<c, yes>>}]
           IN  r \in Row /\ r.type = "result" /\ r.results = {}
BY DEF Row

-----------------------------------------------------------------------------
(* A row that is appended leaves the others where they are. *)
LEMMA Appended ==
    ASSUME TypeOK, NEW r \in Row, rows' = Append(rows, r)
    PROVE  /\ rows' \in Seq(Row)
           /\ Len(rows) \in Nat
           /\ DOMAIN rows = 1 .. Len(rows) /\ DOMAIN rows' = 1 .. Len(rows) + 1
           /\ \A i \in DOMAIN rows : i \in DOMAIN rows' /\ rows'[i] = rows[i]
           /\ rows'[Len(rows) + 1] = r
           /\ \A i \in DOMAIN rows' : i \in DOMAIN rows \/ i = Len(rows) + 1
BY DEF TypeOK

(* What is read of it, and of the others. *)
LEMMA AppendedParts ==
    ASSUME TypeOK, NEW r \in Row, rows' = Append(rows, r)
    PROVE  /\ \A i \in DOMAIN rows :
                 /\ IsResult(i)' <=> IsResult(i)
                 /\ Calls(i)' = Calls(i) /\ Requests(i)' = Requests(i)
           /\ \A n \in Nat : n = Len(rows) + 1 =>
                 /\ IsResult(n)' <=> r.type = "result"
                 /\ Calls(n)' = IF r.type = "assistant" THEN r.calls ELSE {}
                 /\ Requests(n)' = IF r.type = "assistant" THEN r.requests ELSE {}
<1>1. ASSUME NEW i \in DOMAIN rows
      PROVE  /\ IsResult(i)' <=> IsResult(i)
             /\ Calls(i)' = Calls(i) /\ Requests(i)' = Requests(i)
  <2>1. rows'[i] = rows[i]
    BY Appended
  <2> QED BY <2>1 DEF IsResult, Calls, Requests
<1>2. ASSUME NEW n \in Nat, n = Len(rows) + 1
      PROVE  /\ IsResult(n)' <=> r.type = "result"
             /\ Calls(n)' = IF r.type = "assistant" THEN r.calls ELSE {}
             /\ Requests(n)' = IF r.type = "assistant" THEN r.requests ELSE {}
  <2>1. rows'[n] = r
    BY <1>2, Appended
  <2> QED BY <2>1 DEF IsResult, Calls, Requests
<1> QED BY <1>1, <1>2

(* What the thread says after it. *)
LEMMA Heard ==
    ASSUME TypeOK, NEW r \in Row, rows' = Append(rows, r), NEW c \in Call
    PROVE  /\ Called(c)' <=> Called(c) \/ (r.type = "assistant" /\ c \in r.calls)
           /\ Requested(c)' <=> Requested(c) \/ (r.type = "assistant" /\ c \in r.requests)
           /\ Scoped(c) => Scoped(c)'
           /\ Approved(c) => Approved(c)'
           /\ SaysRan(c)' <=> SaysRan(c) \/ (r.type = "result" /\ <<c, "ran">> \in r.results)
           /\ HasResult(c)' <=>
                 \/ HasResult(c)
                 \/ r.type = "result" /\ \E o \in Outcome : <<c, o>> \in r.results
<1> DEFINE n == Len(rows) + 1
<1>1. /\ n \in Nat /\ n \in DOMAIN rows' /\ rows'[n] = r
      /\ \A i \in DOMAIN rows : i \in DOMAIN rows' /\ rows'[i] = rows[i]
      /\ \A i \in DOMAIN rows' : i \in DOMAIN rows \/ i = n
  BY Appended
<1> HIDE DEF n
<1> SUFFICES ASSUME NEW CONSTANT m \in Nat, m = n
    PROVE  /\ Called(c)' <=> Called(c) \/ (r.type = "assistant" /\ c \in r.calls)
           /\ Requested(c)' <=> Requested(c) \/ (r.type = "assistant" /\ c \in r.requests)
           /\ Scoped(c) => Scoped(c)'
           /\ Approved(c) => Approved(c)'
           /\ SaysRan(c)' <=> SaysRan(c) \/ (r.type = "result" /\ <<c, "ran">> \in r.results)
           /\ HasResult(c)' <=>
                 \/ HasResult(c)
                 \/ r.type = "result" /\ \E o \in Outcome : <<c, o>> \in r.results
  BY <1>1
<1>2. /\ m \in DOMAIN rows' /\ rows'[m] = r
      /\ \A i \in DOMAIN rows' : i \in DOMAIN rows \/ i = m
  BY <1>1
<1>3. /\ \A i \in DOMAIN rows : /\ IsResult(i)' <=> IsResult(i)
                                /\ Calls(i)' = Calls(i) /\ Requests(i)' = Requests(i)
      /\ IsResult(m)' <=> r.type = "result"
      /\ Calls(m)' = IF r.type = "assistant" THEN r.calls ELSE {}
      /\ Requests(m)' = IF r.type = "assistant" THEN r.requests ELSE {}
  BY AppendedParts DEF n
<1>4. Called(c)' <=> Called(c) \/ (r.type = "assistant" /\ c \in r.calls)
  BY <1>1, <1>2, <1>3 DEF Called
<1>5. Requested(c)' <=> Requested(c) \/ (r.type = "assistant" /\ c \in r.requests)
  BY <1>1, <1>2, <1>3 DEF Requested
<1>6. (Scoped(c) => Scoped(c)') /\ (Approved(c) => Approved(c)')
  BY <1>1, <1>3 DEF Scoped, Approved
<1>7. SaysRan(c)' <=> SaysRan(c) \/ (r.type = "result" /\ <<c, "ran">> \in r.results)
  BY <1>1, <1>2, <1>3 DEF SaysRan, Told
<1>8. HasResult(c)' <=> \/ HasResult(c)
                        \/ r.type = "result" /\ \E o \in Outcome : <<c, o>> \in r.results
  BY <1>1, <1>2, <1>3 DEF HasResult
<1> QED BY <1>4, <1>5, <1>6, <1>7, <1>8

(* A row keeps the thread in shape if its calls are new, its requests are  *)
(* for gated ones of them, and its results for calls that were made.       *)
LEMMA ShapeKept ==
    ASSUME TypeOK, ThreadShape, NEW r \in Row, rows' = Append(rows, r),
           r.type = "assistant" =>
              /\ r.requests \subseteq r.calls \cap Gated
              /\ \A i \in DOMAIN rows : r.calls \cap Calls(i) = {},
           r.type = "result" =>
              \A c \in Call, o \in Outcome : <<c, o>> \in r.results => Called(c)
    PROVE  ThreadShape'
<1> DEFINE n == Len(rows) + 1
<1>1. /\ n \in Nat /\ n \in DOMAIN rows' /\ rows'[n] = r
      /\ DOMAIN rows = 1 .. n - 1 /\ DOMAIN rows' = 1 .. n
      /\ \A i \in DOMAIN rows : i \in DOMAIN rows' /\ rows'[i] = rows[i]
      /\ \A i \in DOMAIN rows' : i \in DOMAIN rows \/ i = n
  BY Appended
<1> HIDE DEF n
<1> SUFFICES ASSUME NEW CONSTANT m \in Nat, m = n PROVE ThreadShape'
  BY <1>1
<1>2. /\ m \in DOMAIN rows' /\ rows'[m] = r
      /\ DOMAIN rows = 1 .. m - 1 /\ DOMAIN rows' = 1 .. m
      /\ \A i \in DOMAIN rows' : i \in DOMAIN rows \/ i = m
      /\ \A i \in DOMAIN rows : i < m /\ i \in Nat
  BY <1>1
<1>3. /\ \A i \in DOMAIN rows : /\ IsResult(i)' <=> IsResult(i)
                                /\ Calls(i)' = Calls(i) /\ Requests(i)' = Requests(i)
      /\ IsResult(m)' <=> r.type = "result"
      /\ Calls(m)' = IF r.type = "assistant" THEN r.calls ELSE {}
      /\ Requests(m)' = IF r.type = "assistant" THEN r.requests ELSE {}
  BY AppendedParts DEF n
<1>4. CallsOnce'
  BY <1>2, <1>3 DEF ThreadShape, CallsOnce
<1>5. RequestsMade'
  BY <1>2, <1>3 DEF ThreadShape, RequestsMade
<1>6. ResultsLate'
  <2> SUFFICES ASSUME NEW i \in DOMAIN rows', NEW c \in Call, NEW o \in Outcome,
                      IsResult(i)', <<c, o>> \in rows'[i].results
               PROVE  \E j \in 1 .. i - 1 : c \in Calls(j)'
    BY DEF ResultsLate
  <2>1. CASE i \in DOMAIN rows
    <3>1. PICK j \in 1 .. i - 1 : c \in Calls(j)
      BY <1>1, <1>3, <2>1 DEF ThreadShape, ResultsLate
    <3>2. j \in DOMAIN rows
      BY <1>2, <2>1
    <3> QED BY <1>3, <3>1, <3>2
  <2>2. CASE i = m
    <3>1. PICK j \in DOMAIN rows : c \in Calls(j)
      BY <1>2, <1>3, <2>2 DEF Called
    <3>2. j \in 1 .. i - 1
      BY <1>2, <2>2
    <3> QED BY <1>3, <3>1, <3>2
  <2> QED BY <1>2, <2>1, <2>2
<1>7. LastTalk'
  <2>1. CASE r.type # "result"
    <3>1. ~IsResult(m)' /\ \A j \in DOMAIN rows' : ~(j > m)
      BY <1>2, <1>3, <2>1
    <3> QED BY <1>2, <3>1 DEF LastTalk
  <2>2. CASE r.type = "result"
    BY <1>1, <1>2, <1>3, <2>2 DEF ThreadShape, LastTalk
  <2> QED BY <2>1, <2>2
<1>8. LastCalls'
  <2>1. CASE Calls(m)' # {}
    <3>1. \A j \in DOMAIN rows' : ~(j > m)
      BY <1>2
    <3> QED BY <1>2, <2>1, <3>1 DEF LastCalls
  <2>2. CASE Calls(m)' = {}
    BY <1>1, <1>2, <1>3, <2>2 DEF ThreadShape, LastCalls
  <2> QED BY <2>1, <2>2
<1> QED BY <1>4, <1>5, <1>6, <1>7, <1>8 DEF ThreadShape

(* Nothing is said where no row is added. *)
LEMMA Unheard ==
    ASSUME UNCHANGED rows
    PROVE  /\ \A c \in Call :
                 /\ Called(c)' <=> Called(c)
                 /\ Requested(c)' <=> Requested(c)
                 /\ Scoped(c)' <=> Scoped(c)
                 /\ Approved(c)' <=> Approved(c)
                 /\ SaysRan(c)' <=> SaysRan(c)
                 /\ HasResult(c)' <=> HasResult(c)
           /\ ThreadShape => ThreadShape'
<1>1. ASSUME NEW c \in Call
      PROVE  /\ Called(c)' <=> Called(c)
             /\ Requested(c)' <=> Requested(c)
             /\ Scoped(c)' <=> Scoped(c)
             /\ Approved(c)' <=> Approved(c)
             /\ SaysRan(c)' <=> SaysRan(c)
             /\ HasResult(c)' <=> HasResult(c)
  BY DEF Called, Requested, Scoped, Approved, SaysRan, Told, HasResult, Calls, Requests, IsResult
<1>2. ASSUME ThreadShape PROVE ThreadShape'
  BY <1>2 DEF ThreadShape, CallsOnce, RequestsMade, ResultsLate, LastTalk, LastCalls,
              Calls, Requests, IsResult
<1> QED BY <1>1, <1>2

(* A result is for a call that was made, a request for one that is gated.  *)
LEMMA SaidOfCalls ==
    ASSUME TypeOK, ThreadShape, NEW c \in Call
    PROVE  /\ HasResult(c) => Called(c)
           /\ Requested(c) => Called(c) /\ c \in Gated
           /\ Scoped(c) => Requested(c)
           /\ SaysRan(c) => HasResult(c)
<1>1. HasResult(c) => Called(c)
  <2> SUFFICES ASSUME HasResult(c) PROVE Called(c)
    OBVIOUS
  <2>1. PICK i \in DOMAIN rows, o \in Outcome : IsResult(i) /\ <<c, o>> \in rows[i].results
    BY DEF HasResult
  <2>2. PICK j \in 1 .. i - 1 : c \in Calls(j)
    BY <2>1 DEF ThreadShape, ResultsLate
  <2>3. j \in DOMAIN rows
    BY <2>1, <2>2 DEF TypeOK
  <2> QED BY <2>2, <2>3 DEF Called
<1>2. Requested(c) => Called(c) /\ c \in Gated
  BY DEF ThreadShape, RequestsMade, Requested, Called
<1>3. Scoped(c) => Requested(c)
  BY DEF Scoped, Requested
<1>4. SaysRan(c) => HasResult(c)
  BY DEF SaysRan, Told, HasResult, Outcome
<1> QED BY <1>1, <1>2, <1>3, <1>4

-----------------------------------------------------------------------------
(* What waits to be resolved are gated calls that were made. *)
LEMMA UnresolvedGated ==
    ASSUME TypeOK, ThreadShape, NEW c \in Unresolved
    PROVE  c \in Call /\ c \in Gated /\ Called(c)
<1>1. Asking # 0 /\ c \in Calls(Asking) /\ c \in Gated
  BY DEF Unresolved
<1>2. Asking \in DOMAIN rows
  BY <1>1 DEF Asking, ThreadShape, LastCalls
<1> QED BY <1>1, <1>2 DEF Called

(* What is run after an approval: a call that a person has approved, that  *)
(* the asking run was offered, and that has no result anywhere.  Where the *)
(* scope is there, the asking reply is the last row that is no result, so  *)
(* that nothing is hidden behind another row.                              *)
LEMMA RunnableRight ==
    ASSUME TypeOK, ThreadShape,
           NEW c \in Unresolved, Scope # None, c \in Scope, Decided(c, TRUE)
    PROVE  Approved(c) /\ Scoped(c) /\ ~HasResult(c)
<1> DEFINE last == CHOOSE i \in DOMAIN rows :
                      ~IsResult(i) /\ \A j \in DOMAIN rows : j > i => IsResult(j)
<1>1. /\ last \in DOMAIN rows /\ ~IsResult(last)
      /\ \A j \in DOMAIN rows : j > last => IsResult(j)
  <2>1. ~ \A i \in DOMAIN rows : IsResult(i)
    BY DEF Scope
  <2> QED BY <2>1 DEF ThreadShape, LastTalk
<1>2. Requests(last) # {} /\ Scope = rows[last].scope
  BY DEF Scope
<1> HIDE DEF last
<1>3. Calls(last) # {} /\ Requests(last) \subseteq Calls(last)
  BY <1>1, <1>2 DEF ThreadShape, RequestsMade
<1>4. /\ Asking \in DOMAIN rows /\ Calls(Asking) # {}
      /\ \A j \in DOMAIN rows : j > Asking => Calls(j) = {}
      /\ c \in Calls(Asking) /\ ~Resulted(c)
  <2>1. Asking # 0 /\ c \in Calls(Asking) /\ ~Resulted(c)
    BY DEF Unresolved
  <2> QED BY <2>1 DEF Asking, ThreadShape, LastCalls
<1>5. \A i \in DOMAIN rows : i \in Nat /\ i > 0
  BY DEF TypeOK
<1>6. last = Asking
  <2>1. ~IsResult(Asking)
    BY <1>4 DEF IsResult, Calls
  <2>2. ~(Asking > last) /\ ~(last > Asking)
    BY <1>1, <1>3, <1>4, <2>1
  <2> QED BY <1>1, <1>4, <1>5, <2>2
<1>7. \A k \in DOMAIN rows : k \in Answers <=> k > Asking
  <2> SUFFICES ASSUME NEW k \in DOMAIN rows PROVE k \in Answers <=> k > Asking
    OBVIOUS
  <2>1. ASSUME k \in Answers PROVE k > Asking
    <3>1. PICK j \in Asking + 1 .. k : TRUE
      BY <2>1 DEF Answers
    <3> QED BY <1>4, <1>5, <3>1
  <2>2. ASSUME k > Asking PROVE k \in Answers
    <3> DEFINE j == Asking + 1
    <3>1. j \in Asking + 1 .. k
      BY <1>4, <1>5, <2>2
    <3>2. \A l \in j .. k : l \in DOMAIN rows /\ l > Asking
      BY <1>4, <1>5, <2>2 DEF TypeOK
    <3>3. \A l \in j .. k : IsResult(l)
      BY <1>1, <1>6, <3>2
    <3>4. \A l \in Asking + 1 .. j - 1 : FALSE
      BY <1>4, <1>5
    <3> QED BY <3>1, <3>3, <3>4 DEF Answers
  <2> QED BY <2>1, <2>2
<1>8. Approved(c) /\ c \in Requests(Asking)
  <2>1. PICK k \in Answers : Decides(k, c, TRUE)
    BY DEF Decided
  <2>2. k \in DOMAIN rows
    BY DEF Answers
  <2>3. IsResult(k)
    BY <1>1, <1>6, <1>7, <2>2
  <2> QED BY <2>1, <2>2, <2>3 DEF Decides, Approved
<1>9. Scoped(c)
  BY <1>2, <1>4, <1>6, <1>8 DEF Scoped
<1>10. ~HasResult(c)
  <2> SUFFICES ASSUME HasResult(c) PROVE FALSE
    OBVIOUS
  <2>0. c \in Call
    BY UnresolvedGated
  <2>1. PICK i \in DOMAIN rows, o \in Outcome : IsResult(i) /\ <<c, o>> \in rows[i].results
    BY DEF HasResult
  <2>2. PICK j \in 1 .. i - 1 : c \in Calls(j)
    BY <2>0, <2>1 DEF ThreadShape, ResultsLate
  <2>3. j \in DOMAIN rows /\ j < i
    BY <1>5, <2>1, <2>2 DEF TypeOK
  <2>4. j = Asking
    BY <1>4, <2>0, <2>2, <2>3 DEF ThreadShape, CallsOnce
  <2>5. i \in Answers
    BY <1>7, <2>3, <2>4
  <2> QED BY <1>4, <2>1, <2>5 DEF Resulted
<1> QED BY <1>8, <1>9, <1>10

-----------------------------------------------------------------------------
(* The other workers are where they were, and keep the lock they hold.     *)
Others(w) ==
    \A v \in Worker \ {w} :
        /\ pc'[v] = pc[v] /\ todo'[v] = todo[v] /\ got'[v] = got[v]
        /\ holder = v => holder' = v

(* What a step of one worker must not do to the others: take back what the *)
(* thread says, request calls that were made before, record results of     *)
(* calls that are not its own, or take over calls that were made before.   *)
LEMMA Frame ==
    ASSUME TurnInv, NEW w \in Worker, Others(w), TypeOK', ThreadShape', Shape(w)',
           \A c \in Call :
              /\ Called(c) => Called(c)'
              /\ Scoped(c) => Scoped(c)'
              /\ Approved(c) => Approved(c)'
              /\ Requested(c)' => Requested(c) \/ ~Called(c)
              /\ HasResult(c)' => HasResult(c) \/ Mine(w, c)
              /\ pc'[w] \in Answering /\ Mine(w, c)' =>
                    ~Called(c) \/ (pc[w] \in Answering /\ Mine(w, c))
    PROVE  TurnInv'
<1>1. ASSUME NEW v \in Worker, v # w
      PROVE  Shape(v)' /\ \A c \in Call : Mine(v, c)' <=> Mine(v, c)
  <2>1. /\ pc'[v] = pc[v] /\ todo'[v] = todo[v] /\ got'[v] = got[v]
        /\ holder = v => holder' = v
        /\ Shape(v) /\ Shape(w) /\ Apart(v, w)
    BY <1>1 DEF Others, TurnInv
  <2>2. \A c \in Call : /\ Mine(v, c)' <=> Mine(v, c)
                        /\ Live(v, c)' <=> Live(v, c)
                        /\ Live(v, c) => Mine(v, c)
    BY <2>1 DEF Mine, Live, Outcome
  <2>3. ASSUME NEW c \in Call, Mine(v, c), Mine(w, c)
        PROVE  ~(pc[v] = "run" /\ Scoped(c)) /\ pc[v] # "invoke"
    <3>1. /\ pc[v] \in {"run", "invoke", "refuse"} /\ pc[w] \in {"run", "invoke", "refuse"}
          /\ ~(pc[v] = "run" /\ pc[w] = "run")
      BY <1>1, <2>1, <2>3 DEF Shape, Mine, Answering
    <3>2. Scoped(c) => Requested(c)
      BY SaidOfCalls DEF TurnInv
    <3> QED BY <1>1, <2>1, <2>3, <3>1, <3>2 DEF Shape, Apart, Answering
  <2>4. ASSUME NEW c \in Call
        PROVE  /\ Mine(v, c) => Called(c)'
               /\ pc[v] = "run" /\ Live(v, c) => Approved(c)' /\ Scoped(c)' /\ ~HasResult(c)'
               /\ pc[v] = "invoke" /\ c \in todo[v] => ~HasResult(c)'
               /\ pc[v] = "refuse" /\ Mine(v, c) => ~Requested(c)'
    <3>1. /\ Mine(v, c) => Called(c)
          /\ pc[v] = "run" /\ Live(v, c) => Approved(c) /\ Scoped(c) /\ ~HasResult(c)
          /\ pc[v] = "invoke" /\ c \in todo[v] => ~HasResult(c)
          /\ pc[v] = "refuse" /\ Mine(v, c) => ~Requested(c)
      BY <2>1 DEF Shape
    <3>2. c \in todo[v] => Mine(v, c)
      BY DEF Mine
    <3> QED BY <2>2, <2>3, <3>1, <3>2
  <2>5. Shape(v)'
    BY <2>1, <2>2, <2>4 DEF Shape
  <2> QED BY <2>2, <2>5
<1>2. ASSUME NEW v \in Worker, v # w PROVE Apart(v, w)' /\ Apart(w, v)'
  <2>1. /\ pc'[v] = pc[v] /\ Shape(v) /\ Apart(v, w)
        /\ \A c \in Call : Mine(v, c)' <=> Mine(v, c)
    BY <1>1, <1>2 DEF Others, TurnInv
  <2>2. \A c \in Call : Mine(v, c) => Called(c)
    BY <2>1 DEF Shape
  <2> QED BY <2>1, <2>2 DEF Apart
<1>3. ASSUME NEW u \in Worker, NEW v \in Worker, u # w, v # w PROVE Apart(u, v)'
  <2>1. /\ pc'[u] = pc[u] /\ pc'[v] = pc[v] /\ Apart(u, v)
        /\ \A c \in Call : Mine(u, c)' <=> Mine(u, c)
        /\ \A c \in Call : Mine(v, c)' <=> Mine(v, c)
    BY <1>1, <1>3 DEF Others, TurnInv
  <2> QED BY <2>1 DEF Apart
<1>4. \A u \in Worker : Shape(u)'
  BY <1>1
<1>5. \A u, v \in Worker : Apart(u, v)'
  <2>1. Apart(w, w)'
    BY DEF Apart
  <2> QED BY <1>2, <1>3, <2>1
<1> QED BY <1>4, <1>5 DEF TurnInv

(* A step that adds no row. *)
LEMMA QuietFrame ==
    ASSUME TurnInv, NEW w \in Worker, Others(w), TypeOK', UNCHANGED rows, Shape(w)',
           \A c \in Call : pc'[w] \in Answering /\ Mine(w, c)' =>
                              ~Called(c) \/ (pc[w] \in Answering /\ Mine(w, c))
    PROVE  TurnInv'
<1>1. ThreadShape'
  BY Unheard DEF TurnInv
<1>2. \A c \in Call :
         /\ Called(c) => Called(c)'
         /\ Scoped(c) => Scoped(c)'
         /\ Approved(c) => Approved(c)'
         /\ Requested(c)' => Requested(c) \/ ~Called(c)
         /\ HasResult(c)' => HasResult(c) \/ Mine(w, c)
  BY Unheard
<1> QED BY <1>1, <1>2, Frame

(* A worker without calls, at a point where it needs none.                 *)
LEMMA AtRest ==
    ASSUME NEW w \in Worker, pc'[w] \notin {"resolve", "run"} \cup Answering,
           todo'[w] = {}, got'[w] = {}
    PROVE  /\ Shape(w)'
           /\ \A c \in Call : ~Mine(w, c)'
BY DEF Shape, Mine, Live, Answering

(* The end of a turn. *)
LEMMA Left ==
    ASSUME TypeOK, NEW w \in Worker, Leave(w)
    PROVE  /\ pc' \in [Worker -> Points] /\ holder' \in Worker \cup {None}
           /\ offered' \in [Worker -> SUBSET Call] /\ todo' \in [Worker -> SUBSET Call]
           /\ got' \in [Worker -> SUBSET (Call \X Outcome)] /\ waits' \subseteq Worker
           /\ pc'[w] = "idle" /\ todo'[w] = {} /\ got'[w] = {}
           /\ Others(w)
BY DEF TypeOK, Leave, Goto, Release, Points, Others

(* A step after which the worker has no calls and no row is added. *)
LEMMA RestFrame ==
    ASSUME TurnInv, NEW w \in Worker, Others(w), TypeOK', UNCHANGED rows,
           pc'[w] \notin {"resolve", "run"} \cup Answering, todo'[w] = {}, got'[w] = {}
    PROVE  TurnInv'
<1>1. Shape(w)' /\ \A c \in Call : ~Mine(w, c)'
  BY AtRest
<1> QED BY <1>1, QuietFrame

(* Such a step is the end of a turn. *)
LEMMA LeaveKeeps ==
    ASSUME TurnInv, NEW w \in Worker, Leave(w), UNCHANGED rows,
           ran' \in [Call -> Nat], faults' \in Nat
    PROVE  TurnInv'
<1>1. TypeOK
  BY DEF TurnInv
<1>2. TypeOK'
  BY <1>1, Left DEF TypeOK
<1>3. /\ Others(w) /\ todo'[w] = {} /\ got'[w] = {}
      /\ pc'[w] \notin {"resolve", "run"} \cup Answering
  BY <1>1, Left DEF Answering
<1> QED BY <1>2, <1>3, RestFrame

(* A worker at a point without calls goes on to another. *)
LEMMA GotoKeeps ==
    ASSUME TurnInv, NEW w \in Worker, NEW l \in Points, Goto(w, l),
           pc[w] \notin {"run"} \cup Answering, l \notin {"resolve", "run"} \cup Answering,
           offered' \in [Worker -> SUBSET Call], holder' \in Worker \cup {None},
           \A v \in Worker \ {w} : holder = v => holder' = v,
           UNCHANGED <<rows, ran, todo, got, waits, faults>>
    PROVE  TurnInv'
<1>1. TypeOK /\ todo[w] = {} /\ got[w] = {}
  BY DEF TurnInv, Shape
<1>2. TypeOK' /\ pc'[w] = l /\ \A v \in Worker \ {w} : pc'[v] = pc[v]
  BY <1>1 DEF TypeOK, Goto
<1>3. Others(w)
  BY <1>2 DEF Others
<1> QED BY <1>1, <1>2, <1>3, RestFrame

LEMMA StartKeeps ==
    ASSUME TurnInv, NEW w \in Worker, Start(w) PROVE TurnInv'
<1>1. TypeOK
  BY DEF TurnInv
<1> QED BY <1>1, GotoKeeps DEF Start, TypeOK, Points, Answering

LEMMA NarrowKeeps ==
    ASSUME TurnInv, NEW w \in Worker, Narrow(w) PROVE TurnInv'
<1>1. TypeOK
  BY DEF TurnInv
<1>2. offered' \in [Worker -> SUBSET Call]
  BY <1>1 DEF Narrow, TypeOK, TurnAssumption
<1> QED BY <1>1, <1>2, GotoKeeps DEF Narrow, TypeOK, Points, Answering

LEMMA LookKeeps ==
    ASSUME TurnInv, NEW w \in Worker, Look(w) PROVE TurnInv'
<1>1. TypeOK
  BY DEF TurnInv
<1>2. \E l \in {"prompt", "lock"} : Goto(w, l)
  BY DEF Look
<1> QED BY <1>1, <1>2, GotoKeeps DEF Look, TypeOK, Points, Answering

LEMMA TakeKeeps ==
    ASSUME TurnInv, NEW w \in Worker, Take(w) PROVE TurnInv'
<1>1. TypeOK /\ todo[w] = {} /\ got[w] = {}
  BY DEF TurnInv, Shape, Take, Answering
<1>2. TypeOK' /\ pc'[w] = "resolve" /\ \A v \in Worker \ {w} : pc'[v] = pc[v]
  BY <1>1 DEF TypeOK, Take, Goto, Points
<1>3. Others(w)
  BY <1>2 DEF Others, Take, TurnAssumption
<1>4. Shape(w)' /\ \A c \in Call : ~Mine(w, c)'
  BY <1>1, <1>2 DEF Shape, Mine, Live, Take, Answering
<1> QED BY <1>2, <1>3, <1>4, QuietFrame DEF Take

LEMMA LockBusyKeeps ==
    ASSUME TurnInv, NEW w \in Worker, LockBusy(w) PROVE TurnInv'
BY LeaveKeeps DEF LockBusy, TurnInv, TypeOK

LEMMA ExhaustedKeeps ==
    ASSUME TurnInv, NEW w \in Worker, Exhausted(w) PROVE TurnInv'
BY LeaveKeeps DEF Exhausted, TurnInv, TypeOK

LEMMA CutOffKeeps ==
    ASSUME TurnInv, NEW w \in Worker, CutOff(w) PROVE TurnInv'
BY LeaveKeeps DEF CutOff, Fault, TurnInv, TypeOK

(* What resolve gives the worker to run, and to record. *)
LEMMA ResolveKeeps ==
    ASSUME TurnInv, NEW w \in Worker, Resolve(w) PROVE TurnInv'
<1>1. TypeOK /\ ThreadShape /\ pc[w] = "resolve" /\ holder = w /\ todo[w] = {} /\ got[w] = {}
  BY DEF TurnInv, Shape, Resolve, Answering
<1>2. CASE Unresolved = {}
  <2>1. holder' \in Worker \cup {None} /\ \A v \in Worker \ {w} : holder = v => holder' = v
    BY <1>1, <1>2 DEF Resolve, Release
  <2>2. Goto(w, "prompt") /\ UNCHANGED <<rows, ran, offered, todo, got, waits, faults>>
    BY <1>2 DEF Resolve
  <2> QED BY <1>1, <2>1, <2>2, GotoKeeps DEF TypeOK, Points, Answering
<1>3. CASE Unresolved # {}
  <2> DEFINE runnable == {c \in Unresolved \cap Bounded(w) : Decided(c, TRUE)}
             verdicts == {<<c, Verdict(c)>> : c \in Unresolved \ runnable}
  <2>1. /\ offered' = [offered EXCEPT ![w] = Bounded(w)]
        /\ todo' = [todo EXCEPT ![w] = runnable]
        /\ got' = [got EXCEPT ![w] = verdicts]
        /\ pc' = [pc EXCEPT ![w] = "run"]
        /\ UNCHANGED <<rows, ran, waits, faults, holder>>
    BY <1>3 DEF Resolve, Goto
  <2>2. \A c \in Unresolved : c \in Call /\ c \in Gated /\ Called(c)
    BY <1>1, UnresolvedGated
  <2>3. Bounded(w) \in SUBSET Call
    BY <1>1 DEF Bounded, TypeOK
  <2>4. \A c : Verdict(c) \in Outcome /\ Verdict(c) # "ran"
    BY DEF Verdict, Outcome
  <2>5. \A c \in runnable : c \in Unresolved /\ Approved(c) /\ Scoped(c) /\ ~HasResult(c)
    <3> SUFFICES ASSUME NEW c \in runnable
                 PROVE  c \in Unresolved /\ Approved(c) /\ Scoped(c) /\ ~HasResult(c)
      OBVIOUS
    <3>1. c \in Unresolved /\ Scope # None /\ c \in Scope /\ Decided(c, TRUE)
      BY DEF Bounded
    <3> QED BY <1>1, <3>1, RunnableRight
  <2>6. \A c, o : <<c, o>> \in verdicts => c \in Unresolved /\ c \notin runnable /\ o # "ran"
    BY <2>4
  <2>7. runnable \in SUBSET Call /\ verdicts \in SUBSET (Call \X Outcome)
    <3>1. \A c \in Unresolved : <<c, Verdict(c)>> \in Call \X Outcome
      BY <2>2, <2>4
    <3>2. \A x \in verdicts : \E c \in Unresolved : x = <<c, Verdict(c)>>
      OBVIOUS
    <3>3. \A x \in verdicts : x \in Call \X Outcome
      BY <3>1, <3>2
    <3> QED BY <2>2, <3>3
  <2> HIDE DEF runnable, verdicts
  <2>8. /\ TypeOK' /\ pc'[w] = "run" /\ todo'[w] = runnable /\ got'[w] = verdicts
        /\ Others(w)
    BY <1>1, <2>1, <2>3, <2>7 DEF TypeOK, Points, Others
  <2>9. \A c \in Call : /\ Mine(w, c)' => c \in Unresolved
                        /\ Live(w, c)' => c \in runnable
                        /\ c \in todo'[w] => \A o \in Outcome : <<c, o>> \notin got'[w]
    BY <2>5, <2>6, <2>8 DEF Mine, Live
  <2>10. Shape(w)'
    <3>1. \A c \in Call :
             /\ Mine(w, c)' => Called(c)' /\ c \in Gated
             /\ Live(w, c)' => Approved(c)' /\ Scoped(c)' /\ ~HasResult(c)'
      BY <2>1, <2>2, <2>5, <2>9, Unheard
    <3> QED BY <1>1, <2>1, <2>8, <2>9, <3>1 DEF Shape, Answering
  <2> QED BY <2>1, <2>8, <2>10, QuietFrame DEF Answering
<1> QED BY <1>2, <1>3

(* The tool of a call ran, or was refused, and its result is kept. *)
LEMMA DidParts ==
    ASSUME TypeOK, NEW w \in Worker, NEW c \in todo[w], NEW o \in Outcome, Did(w, c, o)
    PROVE  /\ todo' \in [Worker -> SUBSET Call]
           /\ got' \in [Worker -> SUBSET (Call \X Outcome)]
           /\ todo'[w] = todo[w] \ {c} /\ got'[w] = got[w] \cup {<<c, o>>}
           /\ UNCHANGED <<pc, holder, offered, waits>>
           /\ Others(w)
           /\ \A d \in Call : /\ Mine(w, d)' => Mine(w, d)
                              /\ o = "ran" \/ o = "refused" =>
                                    (Live(w, d)' => Live(w, d))
<1>1. /\ todo' \in [Worker -> SUBSET Call]
      /\ got' \in [Worker -> SUBSET (Call \X Outcome)]
      /\ todo'[w] = todo[w] \ {c} /\ got'[w] = got[w] \cup {<<c, o>>}
      /\ UNCHANGED <<pc, holder, offered, waits>>
      /\ Others(w)
  BY DEF TypeOK, Did, Others
<1>2. \A d \in Call : /\ Mine(w, d)' => Mine(w, d)
                      /\ Live(w, d)' => Live(w, d)
  BY <1>1 DEF Mine, Live
<1> QED BY <1>1, <1>2

(* Running what was approved, or refusing it. *)
LEMMA RunApprovedKeeps ==
    ASSUME TurnInv, NEW w \in Worker, NEW c \in Call, RunApproved(w, c) PROVE TurnInv'
<1>1. TypeOK /\ Shape(w) /\ pc[w] = "run" /\ c \in todo[w] /\ UNCHANGED rows
  BY DEF TurnInv, RunApproved
<1>2. ran' \in [Call -> Nat] /\ faults' \in Nat
  <2>1. ran' = ran \/ ran' = [ran EXCEPT ![c] = @ + 1]
    BY DEF RunApproved, Effect, Unwritten
  <2>2. faults' = faults \/ faults' = faults + 1
    BY DEF RunApproved, Fault
  <2> QED BY <1>1, <2>1, <2>2 DEF TypeOK
<1>3. CASE UNCHANGED faults /\ \E o \in {"ran", "refused"} : Did(w, c, o)
  <2>1. PICK o \in {"ran", "refused"} : Did(w, c, o)
    BY <1>3
  <2>2. /\ todo' \in [Worker -> SUBSET Call]
        /\ got' \in [Worker -> SUBSET (Call \X Outcome)]
        /\ todo'[w] = todo[w] \ {c} /\ got'[w] = got[w] \cup {<<c, o>>}
        /\ UNCHANGED <<pc, holder, offered, waits>>
        /\ Others(w)
        /\ \A d \in Call : (Mine(w, d)' => Mine(w, d)) /\ (Live(w, d)' => Live(w, d))
    BY <1>1, <2>1, DidParts DEF Outcome
  <2>3. TypeOK'
    BY <1>1, <1>2, <2>2 DEF TypeOK
  <2>4. \A d \in Call : d \in todo'[w] => \A p \in Outcome : <<d, p>> \notin got'[w]
    BY <1>1, <2>2 DEF Shape
  <2>5. \A d \in Call :
           /\ Mine(w, d)' => Called(d)' /\ d \in Gated
           /\ Live(w, d)' => Approved(d)' /\ Scoped(d)' /\ ~HasResult(d)'
    BY <1>1, <2>2, Unheard DEF Shape
  <2>6. Shape(w)'
    BY <1>1, <2>2, <2>4, <2>5 DEF Shape, Answering
  <2> QED BY <1>1, <1>3, <2>2, <2>3, <2>6, QuietFrame DEF Answering
<1>4. CASE Leave(w)
  BY <1>1, <1>2, <1>4, LeaveKeeps
<1> QED BY <1>3, <1>4 DEF RunApproved, Effect, Unwritten

(* Running a call that needs nobody. *)
LEMMA InvokeKeeps ==
    ASSUME TurnInv, NEW w \in Worker, NEW c \in Call, Invoke(w, c) PROVE TurnInv'
<1>1. TypeOK /\ Shape(w) /\ pc[w] = "invoke" /\ c \in todo[w] /\ UNCHANGED <<rows, faults>>
  BY DEF TurnInv, Invoke
<1>2. ran' \in [Call -> Nat] /\ faults' \in Nat
  BY <1>1 DEF Invoke, Effect, Unwritten, TypeOK
<1>3. CASE Did(w, c, "ran")
  <2>1. /\ todo' \in [Worker -> SUBSET Call]
        /\ got' \in [Worker -> SUBSET (Call \X Outcome)]
        /\ todo'[w] = todo[w] \ {c} /\ got'[w] = got[w] \cup {<<c, "ran">>}
        /\ UNCHANGED <<pc, holder, offered, waits>>
        /\ Others(w)
        /\ \A d \in Call : Mine(w, d)' => Mine(w, d)
    BY <1>1, <1>3, DidParts DEF Outcome
  <2>2. TypeOK'
    BY <1>1, <1>2, <2>1 DEF TypeOK
  <2>3. \A d \in Call : /\ Mine(w, d)' => Called(d)' /\ d \notin Gated
                        /\ d \in todo'[w] => ~HasResult(d)'
                        /\ \A o \in Outcome : <<d, o>> \in got'[w] => o = "ran"
    BY <1>1, <2>1, Unheard DEF Shape
  <2>4. Shape(w)'
    BY <1>1, <2>1, <2>3 DEF Shape, Answering
  <2> QED BY <1>1, <2>1, <2>2, <2>4, QuietFrame DEF Answering
<1>4. CASE Leave(w)
  BY <1>1, <1>2, <1>4, LeaveKeeps
<1> QED BY <1>3, <1>4 DEF Invoke, Effect, Unwritten

-----------------------------------------------------------------------------
(* A row of results that a worker has. *)
LEMMA ResultsHeard ==
    ASSUME TurnInv, NEW w \in Worker, rows' = Append(rows, Results(got[w]))
    PROVE  /\ rows' \in Seq(Row)
           /\ ThreadShape'
           /\ \A c \in Call :
                 /\ Called(c)' <=> Called(c)
                 /\ Requested(c)' <=> Requested(c)
                 /\ Scoped(c) => Scoped(c)'
                 /\ Approved(c) => Approved(c)'
                 /\ SaysRan(c)' <=> SaysRan(c) \/ <<c, "ran">> \in got[w]
                 /\ HasResult(c)' <=> HasResult(c) \/ \E o \in Outcome : <<c, o>> \in got[w]
<1> DEFINE r == Results(got[w])
<1>1. TypeOK /\ ThreadShape /\ Shape(w) /\ got[w] \in SUBSET (Call \X Outcome)
  BY DEF TurnInv, TypeOK
<1>2. r \in Row /\ r.type = "result" /\ r.results = got[w]
  BY <1>1, ResultsRow
<1>3. \A c \in Call, o \in Outcome : <<c, o>> \in got[w] => Called(c)
  BY <1>1 DEF Shape, Mine
<1> HIDE DEF r
<1>4. rows' = Append(rows, r)
  BY DEF r
<1>5. ThreadShape'
  BY <1>1, <1>2, <1>3, <1>4, ShapeKept
<1>6. rows' \in Seq(Row)
  BY <1>1, <1>2, <1>4, Appended
<1>7. ASSUME NEW c \in Call
      PROVE  /\ Called(c)' <=> Called(c)
             /\ Requested(c)' <=> Requested(c)
             /\ Scoped(c) => Scoped(c)'
             /\ Approved(c) => Approved(c)'
             /\ SaysRan(c)' <=> SaysRan(c) \/ <<c, "ran">> \in got[w]
             /\ HasResult(c)' <=> HasResult(c) \/ \E o \in Outcome : <<c, o>> \in got[w]
  BY <1>1, <1>2, <1>4, Heard
<1> QED BY <1>5, <1>6, <1>7

(* A worker that has recorded its results has no more calls. *)
LEMMA ResultsFrame ==
    ASSUME TurnInv, NEW w \in Worker, rows' = Append(rows, Results(got[w])),
           Others(w), rows' \in Seq(Row) => TypeOK',
           pc'[w] \notin {"resolve", "run"} \cup Answering, todo'[w] = {}, got'[w] = {}
    PROVE  TurnInv'
<1>1. TypeOK' /\ ThreadShape'
  BY ResultsHeard
<1>2. Shape(w)' /\ \A c \in Call : ~Mine(w, c)'
  BY AtRest
<1>3. \A c \in Call :
              /\ Called(c) => Called(c)'
              /\ Scoped(c) => Scoped(c)'
              /\ Approved(c) => Approved(c)'
              /\ Requested(c)' => Requested(c) \/ ~Called(c)
              /\ HasResult(c)' => HasResult(c) \/ Mine(w, c)
              /\ pc'[w] \in Answering /\ Mine(w, c)' =>
                    ~Called(c) \/ (pc[w] \in Answering /\ Mine(w, c))
  BY <1>2, ResultsHeard DEF Mine
<1> QED BY <1>1, <1>2, <1>3, Frame

LEMMA RecordKeeps ==
    ASSUME TurnInv, NEW w \in Worker, Record(w) PROVE TurnInv'
<1>1. TypeOK
  BY DEF TurnInv
<1>2. /\ rows' \in Seq(Row) => TypeOK'
      /\ Others(w)
      /\ pc'[w] = "prompt" /\ todo'[w] = {} /\ got'[w] = {}
      /\ rows' = Append(rows, Results(got[w]))
  BY <1>1 DEF TypeOK, Record, Others, Goto, Release, Points
<1> QED BY <1>2, ResultsFrame DEF Answering

LEMMA RefuseAllKeeps ==
    ASSUME TurnInv, NEW w \in Worker, RefuseAll(w) PROVE TurnInv'
<1>1. TypeOK /\ Leave(w) /\ rows' = Append(rows, Results(got[w])) /\ UNCHANGED <<ran, faults>>
  BY DEF TurnInv, RefuseAll
<1>2. /\ rows' \in Seq(Row) => TypeOK'
      /\ Others(w)
      /\ pc'[w] = "idle" /\ todo'[w] = {} /\ got'[w] = {}
  BY <1>1, Left DEF TypeOK
<1> QED BY <1>1, <1>2, ResultsFrame DEF Answering

LEMMA RecordResultsKeeps ==
    ASSUME TurnInv, NEW w \in Worker, RecordResults(w) PROVE TurnInv'
<1>1. TypeOK /\ todo[w] = {} /\ UNCHANGED <<ran, faults>>
  BY DEF TurnInv, RecordResults
<1>2. /\ rows' \in Seq(Row) => TypeOK'
      /\ Others(w)
      /\ pc'[w] \in {"idle", "step"} /\ todo'[w] = {} /\ got'[w] = {}
  <2>1. CASE w \in waits
    BY <1>1, <2>1, Left DEF TypeOK, RecordResults
  <2>2. CASE w \notin waits
    BY <1>1, <2>2 DEF TypeOK, RecordResults, Others, Goto, Points
  <2> QED BY <2>1, <2>2
<1>3. CASE got[w] = {}
  <2>1. UNCHANGED rows
    BY <1>3 DEF RecordResults
  <2> QED BY <1>1, <1>2, <2>1, RestFrame DEF TypeOK, Answering
<1>4. CASE got[w] # {}
  <2>1. rows' = Append(rows, Results(got[w]))
    BY <1>4 DEF RecordResults
  <2> QED BY <1>2, <2>1, ResultsFrame DEF Answering
<1> QED BY <1>3, <1>4

(* The prompt says nothing of a call. *)
LEMMA PromptHeard ==
    ASSUME TypeOK, rows' = Append(rows, [type |-> "user"])
    PROVE  /\ rows' \in Seq(Row)
           /\ ThreadShape => ThreadShape'
           /\ \A c \in Call :
                 /\ Called(c)' <=> Called(c)
                 /\ Requested(c)' <=> Requested(c)
                 /\ Scoped(c) => Scoped(c)'
                 /\ Approved(c) => Approved(c)'
                 /\ SaysRan(c)' <=> SaysRan(c)
                 /\ HasResult(c)' <=> HasResult(c)
<1> DEFINE r == [type |-> "user"]
<1>1. r \in Row /\ r.type = "user"
  BY UserRow
<1> HIDE DEF r
<1>2. rows' = Append(rows, r)
  BY DEF r
<1>3. rows' \in Seq(Row) /\ (ThreadShape => ThreadShape')
  BY <1>1, <1>2, ShapeKept, Appended
<1>4. ASSUME NEW c \in Call
      PROVE  /\ Called(c)' <=> Called(c)
             /\ Requested(c)' <=> Requested(c)
             /\ Scoped(c) => Scoped(c)'
             /\ Approved(c) => Approved(c)'
             /\ SaysRan(c)' <=> SaysRan(c)
             /\ HasResult(c)' <=> HasResult(c)
  BY <1>1, <1>2, Heard
<1> QED BY <1>3, <1>4

LEMMA PromptKeeps ==
    ASSUME TurnInv, NEW w \in Worker, Prompt(w) PROVE TurnInv'
<1>1. TypeOK /\ ThreadShape /\ todo[w] = {} /\ got[w] = {}
  BY DEF TurnInv, Shape, Prompt, Answering
<1>2. /\ rows' \in Seq(Row) => TypeOK'
      /\ Others(w)
      /\ pc'[w] = "step" /\ todo'[w] = {} /\ got'[w] = {}
  BY <1>1 DEF TypeOK, Prompt, Others, Goto, Points
<1>3. Shape(w)' /\ \A c \in Call : ~Mine(w, c)'
  BY <1>2, AtRest DEF Answering
<1>4. CASE UNCHANGED rows
  BY <1>1, <1>2, <1>3, <1>4, QuietFrame DEF TypeOK
<1>5. CASE rows' = Append(rows, [type |-> "user"])
  <2>1. TypeOK' /\ ThreadShape'
    BY <1>1, <1>2, <1>5, PromptHeard
  <2> QED BY <1>1, <1>2, <1>3, <1>5, <2>1, PromptHeard, Frame DEF Answering
<1> QED BY <1>4, <1>5 DEF Prompt

-----------------------------------------------------------------------------
(* The row of a reply says that its calls, which are new, were made.       *)
LEMMA ReplyHeard ==
    ASSUME TurnInv, NEW w \in Worker, NEW S \in SUBSET Call, NEW Q \in SUBSET (S \cap Gated),
           Answer(w, S, Q)
    PROVE  /\ rows' \in Seq(Row)
           /\ ThreadShape'
           /\ \A c \in S : ~Called(c)
           /\ \A c \in Call :
                 /\ Called(c)' <=> Called(c) \/ c \in S
                 /\ Requested(c)' <=> Requested(c) \/ c \in Q
                 /\ Scoped(c) => Scoped(c)'
                 /\ Approved(c) => Approved(c)'
                 /\ SaysRan(c)' <=> SaysRan(c)
                 /\ HasResult(c)' <=> HasResult(c)
<1> DEFINE T == IF Q = {} THEN {} ELSE offered[w]
           r == Reply(S, Q, T)
<1>1. TypeOK /\ ThreadShape /\ T \in SUBSET Call
  BY DEF TurnInv, TypeOK
<1>2. r \in Row /\ r.type = "assistant" /\ r.calls = S /\ r.requests = Q
  BY <1>1, ReplyRow
<1>3. rows' = Append(rows, r) /\ \A i \in DOMAIN rows : S \cap Calls(i) = {}
  BY DEF Answer
<1> HIDE DEF r
<1>4. rows' \in Seq(Row)
  BY <1>1, <1>2, <1>3, Appended
<1>5. ThreadShape'
  BY <1>1, <1>2, <1>3, ShapeKept
<1>6. \A c \in S : ~Called(c)
  BY <1>3 DEF Called
<1>7. ASSUME NEW c \in Call
      PROVE  /\ Called(c)' <=> Called(c) \/ c \in S
             /\ Requested(c)' <=> Requested(c) \/ c \in Q
             /\ Scoped(c) => Scoped(c)'
             /\ Approved(c) => Approved(c)'
             /\ SaysRan(c)' <=> SaysRan(c)
             /\ HasResult(c)' <=> HasResult(c)
  BY <1>1, <1>2, <1>3, Heard
<1> QED BY <1>4, <1>5, <1>6, <1>7

(* The worker of a reply has only calls of that reply. *)
LEMMA ReplyFrame ==
    ASSUME TurnInv, NEW w \in Worker, NEW S \in SUBSET Call, NEW Q \in SUBSET (S \cap Gated),
           Answer(w, S, Q), Others(w), rows' \in Seq(Row) => TypeOK', Shape(w)',
           \A c \in Call : Mine(w, c)' => c \in S
    PROVE  TurnInv'
<1>1. TypeOK' /\ ThreadShape'
  BY ReplyHeard
<1>2. \A c \in Call :
         /\ Called(c) => Called(c)'
         /\ Scoped(c) => Scoped(c)'
         /\ Approved(c) => Approved(c)'
         /\ Requested(c)' => Requested(c) \/ ~Called(c)
         /\ HasResult(c)' => HasResult(c) \/ Mine(w, c)
         /\ pc'[w] \in Answering /\ Mine(w, c)' =>
               ~Called(c) \/ (pc[w] \in Answering /\ Mine(w, c))
  BY ReplyHeard
<1> QED BY <1>1, <1>2, Frame

LEMMA RespondKeeps ==
    ASSUME TurnInv, NEW w \in Worker, NEW S \in SUBSET Call, Respond(w, S) PROVE TurnInv'
<1> DEFINE Q == S \cap Gated
<1>1. /\ TypeOK /\ ThreadShape /\ todo[w] = {} /\ got[w] = {}
      /\ UNCHANGED <<ran, faults>> /\ Answer(w, S, Q) /\ Q \in SUBSET (S \cap Gated)
  BY DEF TurnInv, Shape, Respond, Answer, Answering
<1> HIDE DEF Q
<1>2. CASE S = {}
  <2>1. Leave(w)
    BY <1>2 DEF Respond
  <2>2. /\ rows' \in Seq(Row) => TypeOK'
        /\ Others(w)
        /\ pc'[w] = "idle" /\ todo'[w] = {} /\ got'[w] = {}
    BY <1>1, <2>1, Left DEF TypeOK
  <2>3. Shape(w)' /\ \A c \in Call : ~Mine(w, c)'
    BY <2>2, AtRest DEF Answering
  <2> QED BY <1>1, <2>2, <2>3, ReplyFrame
<1>3. CASE S # {}
  <2>1. /\ rows' \in Seq(Row) => TypeOK'
        /\ Others(w)
        /\ pc'[w] = "invoke" /\ todo'[w] = S \ Gated /\ got'[w] = {}
    <3>1. /\ todo' = [todo EXCEPT ![w] = S \ Gated] /\ pc' = [pc EXCEPT ![w] = "invoke"]
          /\ UNCHANGED <<holder, offered, got>> /\ waits' \in {waits, waits \cup {w}}
      BY <1>3 DEF Respond, Goto
    <3>2. S \ Gated \in SUBSET Call /\ waits' \subseteq Worker
      BY <1>1, <3>1 DEF TypeOK
    <3> QED BY <1>1, <3>1, <3>2 DEF TypeOK, Others, Points
  <2>2. \A c \in Call : /\ Mine(w, c)' => c \in S /\ c \notin Gated /\ Called(c)'
                        /\ c \in todo'[w] => ~HasResult(c)'
    <3> SUFFICES ASSUME NEW c \in Call
                 PROVE  /\ Mine(w, c)' => c \in S /\ c \notin Gated /\ Called(c)'
                        /\ c \in todo'[w] => ~HasResult(c)'
      OBVIOUS
    <3>1. /\ c \in S => ~Called(c) /\ Called(c)'
          /\ HasResult(c)' <=> HasResult(c)
      BY <1>1, ReplyHeard
    <3>2. HasResult(c) => Called(c)
      BY <1>1, SaidOfCalls
    <3> QED BY <2>1, <3>1, <3>2 DEF Mine
  <2>3. Shape(w)'
    BY <2>1, <2>2 DEF Shape, Answering
  <2> QED BY <1>1, <2>1, <2>2, <2>3, ReplyFrame
<1> QED BY <1>2, <1>3

LEMMA FailedStepKeeps ==
    ASSUME TurnInv, NEW w \in Worker, NEW S \in SUBSET Call, FailedStep(w, S) PROVE TurnInv'
<1>1. /\ TypeOK /\ ThreadShape /\ todo[w] = {} /\ got[w] = {}
      /\ UNCHANGED <<ran, faults>> /\ Answer(w, S, {}) /\ {} \in SUBSET (S \cap Gated)
  BY DEF TurnInv, Shape, FailedStep, Answer, Answering
<1>2. CASE S = {}
  <2>1. Leave(w)
    BY <1>2 DEF FailedStep
  <2>2. /\ rows' \in Seq(Row) => TypeOK'
        /\ Others(w)
        /\ pc'[w] = "idle" /\ todo'[w] = {} /\ got'[w] = {}
    BY <1>1, <2>1, Left DEF TypeOK
  <2>3. Shape(w)' /\ \A c \in Call : ~Mine(w, c)'
    BY <2>2, AtRest DEF Answering
  <2> QED BY <1>1, <2>2, <2>3, ReplyFrame
<1>3. CASE S # {}
  <2> DEFINE said == {<<c, "failed">> : c \in S}
  <2>1. said \in SUBSET (Call \X Outcome) /\ \A c, o : <<c, o>> \in said => c \in S
    BY DEF Outcome
  <2> HIDE DEF said
  <2>2. got' = [got EXCEPT ![w] = said]
    BY <1>3 DEF FailedStep, said
  <2>3. /\ rows' \in Seq(Row) => TypeOK'
        /\ Others(w)
        /\ pc'[w] = "refuse" /\ todo'[w] = {} /\ got'[w] = said
    BY <1>1, <1>3, <2>1, <2>2 DEF TypeOK, FailedStep, Others, Goto, Points
  <2>4. \A c \in Call : Mine(w, c)' => c \in S /\ Called(c)' /\ ~Requested(c)'
    <3> SUFFICES ASSUME NEW c \in Call, Mine(w, c)'
                 PROVE  c \in S /\ Called(c)' /\ ~Requested(c)'
      OBVIOUS
    <3>1. c \in S
      BY <2>1, <2>3 DEF Mine
    <3>2. ~Called(c) /\ Called(c)' /\ (Requested(c)' <=> Requested(c))
      BY <1>1, <3>1, ReplyHeard
    <3>3. Requested(c) => Called(c)
      BY <1>1, SaidOfCalls
    <3> QED BY <3>1, <3>2, <3>3
  <2>5. Shape(w)'
    BY <2>3, <2>4 DEF Shape, Answering
  <2> QED BY <1>1, <2>3, <2>4, <2>5, ReplyFrame
<1> QED BY <1>2, <1>3

(* What a person says takes nothing back. *)
LEMMA DecisionHeard ==
    ASSUME TurnInv, NEW c \in Call, NEW yes \in BOOLEAN, Decide(c, yes)
    PROVE  /\ TypeOK' /\ ThreadShape'
           /\ \A d \in Call :
                 /\ Called(d)' <=> Called(d)
                 /\ Requested(d)' <=> Requested(d)
                 /\ Scoped(d) => Scoped(d)'
                 /\ Approved(d) => Approved(d)'
                 /\ SaysRan(d)' <=> SaysRan(d)
                 /\ HasResult(d)' <=> HasResult(d)
<1> DEFINE r == [type |-> "result", results |-> {}, decisions |-> {<<c, yes>>}]
<1>1. TypeOK /\ ThreadShape
  BY DEF TurnInv
<1>2. r \in Row /\ r.type = "result" /\ r.results = {}
  BY DecisionRow
<1> HIDE DEF r
<1>3. rows' = Append(rows, r) /\ UNCHANGED <<ran, holder, turn, faults>>
  BY DEF Decide, r
<1>4. ThreadShape'
  BY <1>1, <1>2, <1>3, ShapeKept
<1>5. TypeOK'
  BY <1>1, <1>2, <1>3, Appended DEF TypeOK, turn
<1>6. ASSUME NEW d \in Call
      PROVE  /\ Called(d)' <=> Called(d)
             /\ Requested(d)' <=> Requested(d)
             /\ Scoped(d) => Scoped(d)'
             /\ Approved(d) => Approved(d)'
             /\ SaysRan(d)' <=> SaysRan(d)
             /\ HasResult(d)' <=> HasResult(d)
  BY <1>1, <1>2, <1>3, Heard
<1> QED BY <1>4, <1>5, <1>6

LEMMA DecideKeeps ==
    ASSUME TurnInv, NEW c \in Call, NEW yes \in BOOLEAN, Decide(c, yes) PROVE TurnInv'
<1>1. /\ TypeOK' /\ ThreadShape'
      /\ \A d \in Call : /\ Called(d)' <=> Called(d)
                         /\ Requested(d)' <=> Requested(d)
                         /\ Scoped(d) => Scoped(d)'
                         /\ Approved(d) => Approved(d)'
                         /\ HasResult(d)' <=> HasResult(d)
  BY DecisionHeard
<1>2. UNCHANGED <<pc, todo, got, holder>>
  BY DEF Decide, turn
<1>3. \A w \in Worker : Shape(w) /\ \A d \in Call : Live(w, d) => Mine(w, d)
  BY DEF TurnInv, Live, Mine, Outcome
<1>4. \A w \in Worker, d \in Call : (Mine(w, d)' <=> Mine(w, d)) /\ (Live(w, d)' <=> Live(w, d))
  BY <1>2 DEF Mine, Live
<1>5. \A w \in Worker : Shape(w)'
  BY <1>1, <1>2, <1>3, <1>4 DEF Shape
<1>6. \A v, w \in Worker : Apart(v, w)'
  BY <1>2, <1>4 DEF TurnInv, Apart
<1> QED BY <1>1, <1>5, <1>6 DEF TurnInv

-----------------------------------------------------------------------------
LEMMA TurnStarts == Init => TurnInv
<1> SUFFICES ASSUME Init PROVE TurnInv
  OBVIOUS
<1>1. TypeOK
  BY DEF Init, TypeOK, Points, Row
<1>2. DOMAIN rows = {}
  BY DEF Init
<1>3. ThreadShape
  BY <1>2 DEF ThreadShape, CallsOnce, RequestsMade, ResultsLate, LastTalk, LastCalls
<1>4. \A w \in Worker : Shape(w) /\ pc[w] \notin Answering
  BY DEF Init, Shape, Mine, Live, Answering
<1> QED BY <1>1, <1>3, <1>4 DEF TurnInv, Apart

LEMMA TurnStep == TurnInv /\ [Next]_vars => TurnInv'
<1> SUFFICES ASSUME TurnInv, [Next]_vars PROVE TurnInv'
  OBVIOUS
<1>1. CASE Send
  BY <1>1, StartKeeps DEF Send
<1>2. ASSUME NEW w \in Worker, Step(w) PROVE TurnInv'
  <2>1. CASE Narrow(w) \/ Look(w) \/ Take(w) \/ LockBusy(w)
    BY <2>1, NarrowKeeps, LookKeeps, TakeKeeps, LockBusyKeeps
  <2>2. CASE Resolve(w) \/ Record(w) \/ Prompt(w) \/ Exhausted(w)
    BY <2>2, ResolveKeeps, RecordKeeps, PromptKeeps, ExhaustedKeeps
  <2>3. CASE RefuseAll(w) \/ RecordResults(w)
    BY <2>3, RefuseAllKeeps, RecordResultsKeeps
  <2>4. CASE \E S \in SUBSET Call : Respond(w, S) \/ FailedStep(w, S)
    BY <2>4, RespondKeeps, FailedStepKeeps
  <2>5. CASE \E c \in Call : RunApproved(w, c) \/ Invoke(w, c)
    BY <2>5, RunApprovedKeeps, InvokeKeeps
  <2> QED BY <1>2, <2>1, <2>2, <2>3, <2>4, <2>5 DEF Step
<1>3. CASE \E w \in Worker : CutOff(w)
  BY <1>3, CutOffKeeps
<1>4. CASE \E c \in Call, yes \in BOOLEAN : Decide(c, yes)
  BY <1>4, DecideKeeps
<1>5. CASE UNCHANGED vars
  <2>1. /\ UNCHANGED <<rows, ran, holder, pc, offered, todo, got, waits, faults>>
    BY <1>5 DEF vars, turn
  <2>2. ThreadShape' /\ TypeOK'
    BY <2>1, Unheard DEF TurnInv, TypeOK
  <2>3. \A c \in Call : /\ Called(c)' <=> Called(c)
                        /\ Requested(c)' <=> Requested(c)
                        /\ Scoped(c)' <=> Scoped(c)
                        /\ Approved(c)' <=> Approved(c)
                        /\ HasResult(c)' <=> HasResult(c)
    BY <2>1, Unheard
  <2>4. \A w \in Worker, c \in Call :
           (Mine(w, c)' <=> Mine(w, c)) /\ (Live(w, c)' <=> Live(w, c))
    BY <2>1 DEF Mine, Live
  <2>5. \A w \in Worker : Shape(w)'
    BY <2>1, <2>3, <2>4 DEF TurnInv, Shape
  <2>6. \A v, w \in Worker : Apart(v, w)'
    BY <2>1, <2>4 DEF TurnInv, Apart
  <2> QED BY <2>2, <2>5, <2>6 DEF TurnInv
<1> QED BY <1>1, <1>2, <1>3, <1>4, <1>5 DEF Next

(* Every state a run of turns reaches has the shape above. *)
THEOREM TurnInvariance == Spec => []TurnInv
BY TurnStarts, TurnStep, PTL DEF Spec

(* TypeOK of the turns: rows, results and lock holders are of their types. *)
THEOREM TurnsTyped == Spec => []TypeOK
<1>1. TurnInv => TypeOK
  BY DEF TurnInv
<1> QED BY <1>1, TurnInvariance, PTL

-----------------------------------------------------------------------------
(* Only a call the worker may run runs. *)
LEMMA RunsMine ==
    ASSUME TurnInv, [Next]_vars, NEW c \in Call, ran'[c] > ran[c]
    PROVE  \E w \in Worker :
              /\ c \in todo[w] /\ UNCHANGED rows
              /\ RunApproved(w, c) \/ Invoke(w, c)
<1>1. ran \in [Call -> Nat]
  BY DEF TurnInv, TypeOK
<1>2. ran' # ran
  BY <1>1
<1>3. PICK w \in Worker, d \in Call : RunApproved(w, d) \/ Invoke(w, d)
  BY <1>2 DEF Next, Send, Start, Step, Narrow, Look, Take, LockBusy, Resolve, Record, Prompt,
              Exhausted, RefuseAll, RecordResults, Respond, FailedStep, CutOff, Decide, vars
<1>4. d \in todo[w] /\ UNCHANGED rows /\ ran' = [ran EXCEPT ![d] = @ + 1]
  BY <1>2, <1>3 DEF RunApproved, Invoke, Effect, Unwritten
<1>5. d = c
  BY <1>1, <1>4
<1> QED BY <1>3, <1>4, <1>5

(* What runs has no result, and if it is gated it was approved and its     *)
(* tool was in the scope of the request.                                   *)
LEMMA RunsRight ==
    ASSUME TurnInv, [Next]_vars, NEW c \in Call, ran'[c] > ran[c]
    PROVE  ~HasResult(c) /\ (c \in Gated => Approved(c) /\ Scoped(c))
<1>1. PICK w \in Worker : c \in todo[w] /\ (RunApproved(w, c) \/ Invoke(w, c))
  BY RunsMine
<1>2. Shape(w) /\ Mine(w, c) /\ Live(w, c)
  BY <1>1 DEF TurnInv, Mine, Live
<1>3. CASE RunApproved(w, c)
  BY <1>2, <1>3 DEF RunApproved, Shape
<1>4. CASE Invoke(w, c)
  BY <1>1, <1>2, <1>4 DEF Invoke, Shape
<1> QED BY <1>1, <1>3, <1>4

(* NeverAgain: the effect of a call does not happen once any row of the    *)
(* thread holds a result for it (runtime.py 648-649, 658-662).             *)
THEOREM DoneStays == Spec => NeverAgain
<1>1. TurnInv /\ [Next]_vars => [\A c \in Call : ran'[c] > ran[c] => ~HasResult(c)]_vars
  BY RunsRight
<1> QED BY <1>1, TurnInvariance, PTL DEF Spec, NeverAgain

(* ApprovedOnly: a gated call runs only after a person has approved it,    *)
(* and only if its tool was among those the asking run was offered         *)
(* (runtime.py 608, 670-676, 689-697).                                     *)
THEOREM RunsApproved == Spec => ApprovedOnly
<1>1. TurnInv /\ [Next]_vars =>
        [\A c \in Gated : ran'[c] > ran[c] => Approved(c) /\ Scoped(c)]_vars
  BY RunsRight DEF TurnAssumption
<1> QED BY <1>1, TurnInvariance, PTL DEF Spec, ApprovedOnly

-----------------------------------------------------------------------------
(* A step of one worker leaves the others where they are. *)
LEMMA OthersStay ==
    ASSUME TypeOK, NEW w \in Worker, Start(w) \/ Step(w) \/ CutOff(w) PROVE Others(w)
<1>1. CASE Start(w) \/ Narrow(w) \/ Look(w) \/ Take(w) \/ Resolve(w) \/ Record(w) \/ Prompt(w)
  BY <1>1 DEF TypeOK, Others, Start, Narrow, Look, Take, Resolve, Record, Prompt, Goto, Release,
              TurnAssumption
<1>2. CASE Leave(w)
  BY <1>2, Left
<1>3. CASE LockBusy(w) \/ Exhausted(w) \/ RefuseAll(w) \/ CutOff(w)
  BY <1>2, <1>3 DEF LockBusy, Exhausted, RefuseAll, CutOff
<1>4. CASE RecordResults(w) /\ ~Leave(w)
  BY <1>4 DEF TypeOK, Others, RecordResults, Goto
<1>5. ASSUME NEW S \in SUBSET Call, Respond(w, S) \/ FailedStep(w, S), ~Leave(w)
      PROVE  Others(w)
  BY <1>5 DEF TypeOK, Others, Respond, FailedStep, Goto
<1>6. ASSUME NEW c \in Call, RunApproved(w, c) \/ Invoke(w, c), ~Leave(w) PROVE Others(w)
  BY <1>6, DidParts DEF RunApproved, Invoke, Effect, Unwritten, Outcome
<1> QED BY <1>1, <1>2, <1>3, <1>4, <1>5, <1>6 DEF Step

(* What a step that runs nothing must not do: take back what the thread    *)
(* says, lose the news that a call ran, record that a call did not run if  *)
(* it did, or give a worker a call that ran.                               *)
LEMMA RanFrame ==
    ASSUME TurnInv, RanShape, TypeOK', UNCHANGED ran, faults' \in {faults, faults + 1},
           \A c \in Call :
              /\ Called(c) => Called(c)'
              /\ Requested(c) => Requested(c)'
              /\ SaysRan(c) => SaysRan(c)'
              /\ HasResult(c)' => HasResult(c) \/ SaysRan(c)' \/ c \in Gated \/ ran[c] = 0,
           \A w \in Worker, c \in Call :
              /\ pc[w] = "run" /\ <<c, "ran">> \in got[w] =>
                    \/ faults' = faults + 1
                    \/ SaysRan(c)'
                    \/ pc'[w] = "run" /\ <<c, "ran">> \in got'[w]
              /\ pc'[w] = "invoke" /\ c \in todo'[w] => ran[c] = 0
              /\ pc'[w] = "refuse" /\ Mine(w, c)' => ran[c] = 0
    PROVE  RanShape'
<1>1. ran \in [Call -> Nat] /\ faults \in Nat
  BY DEF TurnInv, TypeOK
<1>2. \A c \in Call : ran'[c] > 0 => Called(c)'
  BY DEF RanShape
<1>3. ASSUME NEW c \in Gated
      PROVE  /\ ran'[c] > 0 => Requested(c)'
             /\ \/ ran'[c] <= faults'
                \/ /\ ran'[c] <= faults' + 1
                   /\ SaysRan(c)' \/ \E w \in Worker : pc'[w] = "run" /\ <<c, "ran">> \in got'[w]
  <2>1. c \in Call /\ ran[c] \in Nat
    BY <1>1 DEF TurnAssumption
  <2>2. /\ ran[c] > 0 => Requested(c)
        /\ \/ ran[c] <= faults
           \/ /\ ran[c] <= faults + 1
              /\ SaysRan(c) \/ \E w \in Worker : pc[w] = "run" /\ <<c, "ran">> \in got[w]
    BY DEF RanShape
  <2>3. CASE ran[c] <= faults \/ faults' = faults + 1
    BY <1>1, <2>1, <2>2, <2>3
  <2>4. CASE ran[c] <= faults + 1 /\ faults' = faults /\ SaysRan(c)
    BY <2>1, <2>2, <2>4
  <2>5. ASSUME NEW w \in Worker, pc[w] = "run" /\ <<c, "ran">> \in got[w],
               ran[c] <= faults + 1, faults' = faults
        PROVE  SaysRan(c)' \/ (pc'[w] = "run" /\ <<c, "ran">> \in got'[w])
    BY <1>1, <2>1, <2>5
  <2> QED BY <2>1, <2>2, <2>3, <2>4, <2>5
<1>4. \A c \in Call \ Gated :
          ran'[c] <= 1 /\ (HasResult(c)' /\ ran'[c] > 0 => SaysRan(c)')
  BY <1>1 DEF RanShape
<1> QED BY <1>2, <1>3, <1>4 DEF RanShape

(* The same where one worker steps. *)
LEMMA OwnRanFrame ==
    ASSUME TurnInv, RanShape, TypeOK', UNCHANGED ran, faults' \in {faults, faults + 1},
           NEW w \in Worker, Others(w),
           \A c \in Call :
              /\ Called(c) => Called(c)'
              /\ Requested(c) => Requested(c)'
              /\ SaysRan(c) => SaysRan(c)'
              /\ HasResult(c)' => HasResult(c) \/ SaysRan(c)' \/ c \in Gated \/ ran[c] = 0
              /\ pc[w] = "run" /\ <<c, "ran">> \in got[w] =>
                    \/ faults' = faults + 1
                    \/ SaysRan(c)'
                    \/ pc'[w] = "run" /\ <<c, "ran">> \in got'[w]
              /\ pc'[w] = "invoke" /\ c \in todo'[w] => ran[c] = 0
              /\ pc'[w] = "refuse" /\ Mine(w, c)' => ran[c] = 0
    PROVE  RanShape'
<1>1. ASSUME NEW v \in Worker, v # w, NEW c \in Call
      PROVE  /\ pc[v] = "run" /\ <<c, "ran">> \in got[v] =>
                   pc'[v] = "run" /\ <<c, "ran">> \in got'[v]
             /\ pc'[v] = "invoke" /\ c \in todo'[v] => ran[c] = 0
             /\ pc'[v] = "refuse" /\ Mine(v, c)' => ran[c] = 0
  <2>1. pc'[v] = pc[v] /\ todo'[v] = todo[v] /\ got'[v] = got[v]
    BY <1>1 DEF Others
  <2>2. Mine(v, c)' <=> Mine(v, c)
    BY <2>1 DEF Mine
  <2> QED BY <2>1, <2>2 DEF RanShape
<1>2. \A v \in Worker, c \in Call :
              /\ pc[v] = "run" /\ <<c, "ran">> \in got[v] =>
                    \/ faults' = faults + 1
                    \/ SaysRan(c)'
                    \/ pc'[v] = "run" /\ <<c, "ran">> \in got'[v]
              /\ pc'[v] = "invoke" /\ c \in todo'[v] => ran[c] = 0
              /\ pc'[v] = "refuse" /\ Mine(v, c)' => ran[c] = 0
  BY <1>1
<1> QED BY <1>2, RanFrame

(* A step of a worker that adds no row. *)
LEMMA QuietRan ==
    ASSUME TurnInv, RanShape, TypeOK', UNCHANGED <<rows, ran>>, faults' \in {faults, faults + 1},
           NEW w \in Worker, Others(w),
           \/ pc[w] # "run"
           \/ faults' = faults + 1
           \/ pc'[w] = "run" /\ got[w] \subseteq got'[w],
           pc'[w] \notin Answering
    PROVE  RanShape'
<1>1. \A c \in Call :
         /\ Called(c)' <=> Called(c)
         /\ Requested(c)' <=> Requested(c)
         /\ SaysRan(c)' <=> SaysRan(c)
         /\ HasResult(c)' <=> HasResult(c)
  BY Unheard
<1> QED BY <1>1, OwnRanFrame DEF Answering

(* An approved call that runs has not run since the last fault: nothing    *)
(* says that it ran, and the worker that holds the lock has no result.     *)
LEMMA ApprovedRan ==
    ASSUME TurnInv, RanShape, TurnInv', NEW w \in Worker, NEW c \in Call, RunApproved(w, c)
    PROVE  RanShape'
<1>1. /\ TypeOK /\ TypeOK' /\ Shape(w) /\ pc[w] = "run" /\ c \in todo[w]
      /\ UNCHANGED rows /\ Others(w)
  BY OthersStay DEF TurnInv, RunApproved, Step
<1>2. Mine(w, c) /\ Live(w, c)
  BY <1>1 DEF Mine, Live
<1>3. c \in Gated /\ Scoped(c) /\ ~HasResult(c) /\ Called(c) /\ holder = w
  BY <1>1, <1>2 DEF Shape
<1>4. CASE Did(w, c, "refused") /\ UNCHANGED <<ran, faults>>
  <2>1. pc'[w] = "run" /\ got[w] \subseteq got'[w]
    BY <1>1, <1>4, DidParts DEF Outcome
  <2> QED BY <1>1, <1>4, <2>1, QuietRan DEF Answering, TypeOK
<1>5. CASE (Effect(w, c) /\ UNCHANGED faults) \/ (Unwritten(w, c) /\ Fault)
  <2>1. /\ ran \in [Call -> Nat] /\ faults \in Nat
        /\ ran'[c] = ran[c] + 1 /\ \A d \in Call \ {c} : ran'[d] = ran[d]
    BY <1>1, <1>5 DEF TypeOK, Effect, Unwritten
  <2>2. \/ /\ faults' = faults /\ UNCHANGED pc
           /\ todo'[w] = todo[w] \ {c} /\ got'[w] = got[w] \cup {<<c, "ran">>}
        \/ faults' = faults + 1 /\ pc'[w] = "idle"
    <3>1. CASE Effect(w, c) /\ UNCHANGED faults
      BY <1>1, <3>1, DidParts DEF Effect, Outcome
    <3>2. CASE Unwritten(w, c) /\ Fault
      BY <1>1, <3>2, Left DEF Unwritten, Fault
    <3> QED BY <1>5, <3>1, <3>2
  <2>3. \A d \in Call : /\ Called(d)' <=> Called(d)
                        /\ Requested(d)' <=> Requested(d)
                        /\ SaysRan(d)' <=> SaysRan(d)
                        /\ HasResult(d)' <=> HasResult(d)
    BY <1>1, Unheard
  <2>4. Requested(c) /\ ~SaysRan(c)
    BY <1>1, <1>3, SaidOfCalls DEF TurnInv
  <2>5. ran[c] <= faults
    <3>1. ASSUME NEW v \in Worker, pc[v] = "run", <<c, "ran">> \in got[v] PROVE FALSE
      <4>1. v = w
        BY <1>3, <3>1 DEF TurnInv, Shape
      <4> QED BY <1>1, <3>1, <4>1 DEF Shape, Outcome
    <3> QED BY <1>3, <2>4, <3>1 DEF RanShape
  <2>6. \A d \in Call : ran'[d] > 0 => Called(d)'
    BY <1>3, <2>1, <2>3 DEF RanShape
  <2>7. ASSUME NEW d \in Gated
        PROVE  /\ ran'[d] > 0 => Requested(d)'
               /\ \/ ran'[d] <= faults'
                  \/ /\ ran'[d] <= faults' + 1
                     /\ SaysRan(d)' \/ \E v \in Worker :
                                          pc'[v] = "run" /\ <<d, "ran">> \in got'[v]
    <3>1. d \in Call /\ ran[d] \in Nat
      BY <2>1 DEF TurnAssumption
    <3>2. ran'[d] > 0 => Requested(d)'
      BY <2>1, <2>3, <2>4, <3>1 DEF RanShape
    <3>3. CASE faults' = faults + 1
      <4>1. ran[d] <= faults \/ ran[d] <= faults + 1
        BY DEF RanShape
      <4>2. ran'[d] <= faults'
        <5>1. CASE d = c
          BY <2>1, <2>5, <3>1, <3>3, <5>1
        <5>2. CASE d # c
          BY <2>1, <3>1, <3>3, <4>1, <5>2
        <5> QED BY <5>1, <5>2
      <4> QED BY <3>2, <4>2
    <3>4. CASE /\ faults' = faults /\ UNCHANGED pc
               /\ todo'[w] = todo[w] \ {c} /\ got'[w] = got[w] \cup {<<c, "ran">>}
      <4>1. \A v \in Worker : pc[v] = "run" /\ <<d, "ran">> \in got[v] =>
                               pc'[v] = "run" /\ <<d, "ran">> \in got'[v]
        BY <1>1, <3>4 DEF Others
      <4>2. CASE d = c
        <5>1. pc'[w] = "run" /\ <<d, "ran">> \in got'[w]
          BY <1>1, <3>4, <4>2
        <5>2. ran'[d] <= faults' + 1
          BY <2>1, <2>5, <3>4, <4>2
        <5> QED BY <3>2, <5>1, <5>2
      <4>3. CASE d # c
        BY <2>1, <2>3, <3>1, <3>2, <3>4, <4>1, <4>3 DEF RanShape
      <4> QED BY <4>2, <4>3
    <3> QED BY <2>2, <3>3, <3>4
  <2>8. \A d \in Call \ Gated :
            ran'[d] <= 1 /\ (HasResult(d)' /\ ran'[d] > 0 => SaysRan(d)')
    BY <1>3, <2>1, <2>3 DEF RanShape
  <2>9. ASSUME NEW v \in Worker, NEW d \in Call
        PROVE  /\ pc'[v] = "invoke" /\ d \in todo'[v] => ran'[d] = 0
               /\ pc'[v] = "refuse" /\ Mine(v, d)' => ran'[d] = 0
    <3>1. CASE v = w
      BY <1>1, <2>2, <3>1
    <3>2. CASE v # w
      <4>1. /\ pc'[v] = pc[v] /\ todo'[v] = todo[v] /\ (Mine(v, d)' <=> Mine(v, d))
            /\ Shape(v)
        BY <1>1, <3>2 DEF Others, Mine, TurnInv
      <4>2. d = c => ~(pc[v] = "invoke" /\ d \in todo[v]) /\ ~(pc[v] = "refuse" /\ Mine(v, d))
        BY <1>3, <2>4, <4>1 DEF Shape, Mine
      <4> QED BY <2>1, <4>1, <4>2 DEF RanShape
    <3> QED BY <3>1, <3>2
  <2> QED BY <2>6, <2>7, <2>8, <2>9 DEF RanShape
<1> QED BY <1>4, <1>5 DEF RunApproved

(* A call that needs nobody runs once, for its own worker. *)
LEMMA InvokedRan ==
    ASSUME TurnInv, RanShape, TurnInv', NEW w \in Worker, NEW c \in Call, Invoke(w, c)
    PROVE  RanShape'
<1>1. /\ TypeOK /\ TypeOK' /\ Shape(w) /\ pc[w] = "invoke" /\ c \in todo[w]
      /\ UNCHANGED <<rows, faults>> /\ Others(w)
  BY OthersStay DEF TurnInv, Invoke, Step
<1>2. Mine(w, c) /\ c \notin Gated /\ Called(c) /\ ~HasResult(c) /\ ran[c] = 0
  BY <1>1 DEF Shape, Mine, RanShape
<1>3. CASE Leave(w) /\ UNCHANGED ran
  <2>1. pc'[w] = "idle"
    BY <1>1, <1>3, Left
  <2> QED BY <1>1, <1>3, <2>1, QuietRan DEF Answering, TypeOK
<1>4. CASE Effect(w, c) \/ Unwritten(w, c)
  <2>1. /\ ran \in [Call -> Nat] /\ faults \in Nat
        /\ ran'[c] = 1 /\ \A d \in Call \ {c} : ran'[d] = ran[d]
    BY <1>1, <1>2, <1>4 DEF TypeOK, Effect, Unwritten
  <2>2. \A d \in Call : /\ Called(d)' <=> Called(d)
                        /\ Requested(d)' <=> Requested(d)
                        /\ SaysRan(d)' <=> SaysRan(d)
                        /\ HasResult(d)' <=> HasResult(d)
    BY <1>1, Unheard
  <2>3. pc'[w] \in {"idle", "invoke"} /\ todo'[w] \subseteq todo[w] \ {c}
    <3>1. CASE Did(w, c, "ran")
      BY <1>1, <3>1, DidParts DEF Outcome
    <3>2. CASE Leave(w)
      BY <1>1, <3>2, Left
    <3> QED BY <1>4, <3>1, <3>2 DEF Effect, Unwritten
  <2>4. \A d \in Call : ran'[d] > 0 => Called(d)'
    BY <1>2, <2>1, <2>2 DEF RanShape
  <2>5. ASSUME NEW d \in Gated
        PROVE  /\ ran'[d] > 0 => Requested(d)'
               /\ \/ ran'[d] <= faults'
                  \/ /\ ran'[d] <= faults' + 1
                     /\ SaysRan(d)' \/ \E v \in Worker :
                                          pc'[v] = "run" /\ <<d, "ran">> \in got'[v]
    <3>1. d \in Call /\ ran'[d] = ran[d] /\ faults' = faults
      BY <1>1, <1>2, <2>1 DEF TurnAssumption
    <3>2. \A v \in Worker : pc[v] = "run" => pc'[v] = "run" /\ got'[v] = got[v]
      BY <1>1 DEF Others
    <3> QED BY <2>2, <3>1, <3>2 DEF RanShape
  <2>6. \A d \in Call \ Gated :
            ran'[d] <= 1 /\ (HasResult(d)' /\ ran'[d] > 0 => SaysRan(d)')
    BY <1>2, <2>1, <2>2 DEF RanShape
  <2>7. ASSUME NEW v \in Worker, NEW d \in Call
        PROVE  /\ pc'[v] = "invoke" /\ d \in todo'[v] => ran'[d] = 0
               /\ pc'[v] = "refuse" /\ Mine(v, d)' => ran'[d] = 0
    <3>1. CASE v = w
      BY <1>1, <2>1, <2>3, <3>1 DEF RanShape
    <3>2. CASE v # w
      <4>1. /\ pc'[v] = pc[v] /\ todo'[v] = todo[v] /\ (Mine(v, d)' <=> Mine(v, d))
            /\ Apart(v, w)
        BY <1>1, <3>2 DEF Others, Mine, TurnInv
      <4>2. d = c => ~(pc[v] = "invoke" /\ d \in todo[v]) /\ ~(pc[v] = "refuse" /\ Mine(v, d))
        BY <1>1, <1>2, <3>2, <4>1 DEF Apart, Answering, Mine
      <4> QED BY <2>1, <4>1, <4>2 DEF RanShape
    <3> QED BY <3>1, <3>2
  <2> QED BY <2>4, <2>5, <2>6, <2>7 DEF RanShape
<1> QED BY <1>3, <1>4 DEF Invoke

(* Results that are recorded say of each call what happened to it.         *)
LEMMA RecordedRan ==
    ASSUME TurnInv, RanShape, TurnInv', NEW w \in Worker,
           Record(w) \/ RefuseAll(w) \/ RecordResults(w)
    PROVE  RanShape'
<1>1. /\ TypeOK /\ TypeOK' /\ Shape(w) /\ UNCHANGED <<ran, faults>> /\ Others(w) /\ faults \in Nat
      /\ pc[w] \in {"run", "invoke", "refuse"} /\ (pc[w] = "run" => Record(w))
  BY OthersStay DEF TurnInv, Step, TypeOK, Record, RefuseAll, RecordResults
<1>2. pc'[w] \notin {"invoke", "refuse"}
  <2>1. CASE Leave(w)
    BY <1>1, <2>1, Left
  <2>2. CASE ~Leave(w)
    BY <1>1, <2>2 DEF Record, RefuseAll, RecordResults, Goto, TypeOK
  <2> QED BY <2>1, <2>2
<1>3. CASE UNCHANGED rows /\ pc[w] # "run"
  BY <1>1, <1>2, <1>3, QuietRan DEF Answering
<1>4. CASE rows' = Append(rows, Results(got[w]))
  <2>1. ASSUME NEW c \in Call
        PROVE  /\ Called(c)' <=> Called(c)
               /\ Requested(c)' <=> Requested(c)
               /\ SaysRan(c)' <=> SaysRan(c) \/ <<c, "ran">> \in got[w]
               /\ HasResult(c)' <=> HasResult(c) \/ \E o \in Outcome : <<c, o>> \in got[w]
    BY <1>4, ResultsHeard
  <2>2. ASSUME NEW c \in Call, NEW o \in Outcome, <<c, o>> \in got[w]
        PROVE  c \in Gated \/ o = "ran" \/ ran[c] = 0
    <3>1. Mine(w, c)
      BY <2>2 DEF Mine
    <3> QED BY <1>1, <2>2, <3>1 DEF Shape, RanShape
  <2> QED BY <1>1, <1>2, <2>1, <2>2, OwnRanFrame
<1> QED BY <1>1, <1>3, <1>4 DEF Record, RefuseAll, RecordResults

(* The calls of a reply are new, so that they have not run.                *)
LEMMA RepliedRan ==
    ASSUME TurnInv, RanShape, TurnInv', NEW w \in Worker, NEW S \in SUBSET Call,
           Respond(w, S) \/ FailedStep(w, S)
    PROVE  RanShape'
<1>1. /\ TypeOK /\ TypeOK' /\ UNCHANGED <<ran, faults>> /\ Others(w) /\ pc[w] = "step"
      /\ faults \in Nat /\ todo[w] = {} /\ got[w] = {} /\ ran \in [Call -> Nat]
  BY OthersStay DEF TurnInv, Step, TypeOK, Respond, FailedStep, Answer, Shape, Answering
<1>2. \E Q \in SUBSET (S \cap Gated) : Answer(w, S, Q)
  BY DEF Respond, FailedStep
<1>3. /\ \A c \in S : ~Called(c)
      /\ \A c \in Call : /\ Called(c) => Called(c)'
                         /\ Requested(c) => Requested(c)'
                         /\ SaysRan(c)' <=> SaysRan(c)
                         /\ HasResult(c)' <=> HasResult(c)
  <2>1. PICK Q \in SUBSET (S \cap Gated) : Answer(w, S, Q)
    BY <1>2
  <2> QED BY <2>1, ReplyHeard
<1>4. \A c \in Call : Mine(w, c)' => c \in S
  <2>1. CASE Leave(w)
    BY <1>1, <2>1, Left DEF Mine
  <2>2. CASE Respond(w, S) /\ ~Leave(w)
    <3>1. todo'[w] = S \ Gated /\ got'[w] = {}
      BY <1>1, <2>2 DEF Respond, TypeOK
    <3> QED BY <3>1 DEF Mine
  <2>3. CASE FailedStep(w, S) /\ ~Leave(w)
    <3>1. todo'[w] = {} /\ got'[w] = {<<c, "failed">> : c \in S}
      BY <1>1, <2>3 DEF FailedStep, TypeOK
    <3> QED BY <3>1 DEF Mine
  <2> QED BY <2>1, <2>2, <2>3
<1>5. \A c \in S : ran[c] = 0
  BY <1>1, <1>3 DEF RanShape
<1> QED BY <1>1, <1>3, <1>4, <1>5, OwnRanFrame DEF Mine

LEMMA RanStep ==
    ASSUME TurnInv, RanShape, TurnInv', [Next]_vars PROVE RanShape'
<1>1. TypeOK /\ TypeOK' /\ faults \in Nat
  BY DEF TurnInv, TypeOK
<1>2. ASSUME NEW w \in Worker,
             \/ Start(w) \/ Narrow(w) \/ Look(w) \/ Take(w) \/ LockBusy(w) \/ Resolve(w)
             \/ Exhausted(w) \/ CutOff(w)
      PROVE  RanShape'
  <2>1. /\ Others(w) /\ UNCHANGED <<rows, ran>>
        /\ (pc[w] # "run" /\ faults' = faults) \/ faults' = faults + 1
    BY <1>1, <1>2, OthersStay DEF Step, Start, Narrow, Look, Take, LockBusy, Resolve, Exhausted,
                                  CutOff, Fault
  <2>2. pc'[w] \notin Answering
    <3>1. CASE Leave(w)
      BY <1>1, <3>1, Left DEF Answering
    <3>2. CASE ~Leave(w)
      BY <1>1, <1>2, <3>2 DEF Start, Narrow, Look, Take, LockBusy, Resolve, Exhausted, CutOff,
                              Goto, TypeOK, Answering
    <3> QED BY <3>1, <3>2
  <2> QED BY <1>1, <2>1, <2>2, QuietRan
<1>3. ASSUME NEW w \in Worker, Prompt(w) PROVE RanShape'
  <2>1. /\ Others(w) /\ UNCHANGED <<ran, faults>> /\ pc[w] = "prompt" /\ pc'[w] = "step"
    BY <1>1, <1>3, OthersStay DEF Step, Prompt, Goto, TypeOK
  <2>2. CASE UNCHANGED rows
    BY <1>1, <2>1, <2>2, QuietRan DEF Answering
  <2>3. CASE rows' = Append(rows, [type |-> "user"])
    BY <1>1, <2>1, <2>3, PromptHeard, OwnRanFrame
  <2> QED BY <1>3, <2>2, <2>3 DEF Prompt
<1>4. ASSUME NEW w \in Worker, Step(w) PROVE RanShape'
  BY <1>2, <1>3, <1>4, ApprovedRan, InvokedRan, RecordedRan, RepliedRan DEF Step
<1>5. ASSUME NEW c \in Call, NEW yes \in BOOLEAN, Decide(c, yes) PROVE RanShape'
  <2>1. UNCHANGED <<ran, pc, todo, got, faults>>
    BY <1>5 DEF Decide, turn
  <2>2. \A w \in Worker, d \in Call : Mine(w, d)' <=> Mine(w, d)
    BY <2>1 DEF Mine
  <2>3. \A w \in Worker, d \in Call :
              /\ pc'[w] = "invoke" /\ d \in todo'[w] => ran[d] = 0
              /\ pc'[w] = "refuse" /\ Mine(w, d)' => ran[d] = 0
    BY <2>1, <2>2 DEF RanShape
  <2> QED BY <1>1, <1>5, <2>1, <2>3, DecisionHeard, RanFrame
<1>6. CASE UNCHANGED vars
  <2>1. UNCHANGED <<rows, ran, pc, todo, got, faults>>
    BY <1>6 DEF vars, turn
  <2>2. \A w \in Worker, d \in Call : Mine(w, d)' <=> Mine(w, d)
    BY <2>1 DEF Mine
  <2>3. \A w \in Worker, d \in Call :
              /\ pc'[w] = "invoke" /\ d \in todo'[w] => ran[d] = 0
              /\ pc'[w] = "refuse" /\ Mine(w, d)' => ran[d] = 0
    BY <2>1, <2>2 DEF RanShape
  <2> QED BY <1>1, <2>1, <2>3, Unheard, RanFrame
<1> QED BY <1>2, <1>4, <1>5, <1>6 DEF Next, Send

(* The shape of the turns and how often calls have run, in every state.    *)
THEOREM RanInvariance == Spec => [](TurnInv /\ RanShape)
<1>1. Init => TurnInv /\ RanShape
  <2> SUFFICES ASSUME Init PROVE TurnInv /\ RanShape
    OBVIOUS
  <2>1. TurnInv
    BY TurnStarts
  <2>2. /\ \A c \in Call : ran[c] = 0
        /\ faults = 0 /\ \A w \in Worker : pc[w] = "idle"
    BY DEF Init
  <2> QED BY <2>1, <2>2 DEF RanShape, TurnAssumption
<1>2. TurnInv /\ RanShape /\ [Next]_vars => (TurnInv /\ RanShape)'
  BY TurnStep, RanStep
<1> QED BY <1>1, <1>2, PTL DEF Spec

(* RunsBounded: a call runs once, and once more for each crash or          *)
(* exception that ended a turn before its results were recorded, be it     *)
(* that a result could not be written (runtime.py 643, 808).               *)
THEOREM RunsOnce == Spec => []RunsBounded
<1>1. TurnInv /\ RanShape => RunsBounded
  <2> SUFFICES ASSUME TurnInv, RanShape, NEW c \in Call PROVE ran[c] <= 1 + faults
    BY DEF RunsBounded
  <2>1. ran[c] \in Nat /\ faults \in Nat
    BY DEF TurnInv, TypeOK
  <2>2. ran[c] <= faults \/ ran[c] <= faults + 1 \/ ran[c] <= 1
    BY DEF RanShape
  <2> QED BY <2>1, <2>2
<1> QED BY <1>1, RanInvariance, PTL

(* NoFalseRefusal: while no turn is cut off or ended by a result that      *)
(* cannot be written, nobody is told "not run", "denied" or "no response"  *)
(* about an effect that happened (runtime.py 679-702, 763-783).            *)
THEOREM RefusalsTrue == Spec => []NoFalseRefusal
<1>1. TurnInv /\ RanShape => NoFalseRefusal
  <2> SUFFICES ASSUME TurnInv, RanShape, faults = 0, NEW c \in Call, HasResult(c), ran[c] > 0
               PROVE  SaysRan(c)
    BY DEF NoFalseRefusal, SaysRan, Told
  <2>1. ran[c] \in Nat
    BY DEF TurnInv, TypeOK
  <2>2. CASE c \notin Gated
    BY <2>2 DEF RanShape
  <2>3. CASE c \in Gated
    <3>1. ASSUME NEW w \in Worker, pc[w] = "run", <<c, "ran">> \in got[w] PROVE FALSE
      BY <3>1 DEF TurnInv, Shape, Live
    <3> QED BY <2>1, <2>3, <3>1 DEF RanShape
  <2> QED BY <2>2, <2>3
<1> QED BY <1>1, RanInvariance, PTL

-----------------------------------------------------------------------------
(* A result that is told says what happened. *)
Truth(c, o) ==
    /\ o = "ran" => ran[c] > 0
    /\ o = "denied" => Denied(c)
    /\ o \in {"refused", "unavailable"} => Approved(c)
    /\ o # "failed"

(* What a worker has to record of approved calls is true. *)
TruthShape ==
    \A w \in Worker : pc[w] = "run" =>
        \A c \in Call, o \in Outcome : <<c, o>> \in got[w] => Truth(c, o)

(* All that a row adds. *)
LEMMA Added ==
    ASSUME TypeOK, NEW r \in Row, rows' = Append(rows, r), NEW c \in Call, NEW o \in Outcome
    PROVE  /\ Requested(c)' <=> Requested(c) \/ (r.type = "assistant" /\ c \in r.requests)
           /\ Scoped(c)' <=>
                 Scoped(c) \/ (r.type = "assistant" /\ c \in r.requests /\ c \in r.scope)
           /\ Approved(c)' <=> Approved(c) \/ (r.type = "result" /\ <<c, TRUE>> \in r.decisions)
           /\ Denied(c)' <=> Denied(c) \/ (r.type = "result" /\ <<c, FALSE>> \in r.decisions)
           /\ Told(c, o)' <=> Told(c, o) \/ (r.type = "result" /\ <<c, o>> \in r.results)
<1> DEFINE n == Len(rows) + 1
<1>1. /\ n \in Nat /\ n \in DOMAIN rows' /\ rows'[n] = r
      /\ \A i \in DOMAIN rows : i \in DOMAIN rows' /\ rows'[i] = rows[i]
      /\ \A i \in DOMAIN rows' : i \in DOMAIN rows \/ i = n
  BY Appended
<1>2. /\ \A i \in DOMAIN rows : /\ IsResult(i)' <=> IsResult(i)
                                /\ Requests(i)' = Requests(i)
      /\ \A k \in Nat : k = n => /\ IsResult(k)' <=> r.type = "result"
                                 /\ Requests(k)' = IF r.type = "assistant" THEN r.requests ELSE {}
  BY AppendedParts
<1> HIDE DEF n
<1> SUFFICES ASSUME NEW CONSTANT m \in Nat, m = n
    PROVE  /\ Requested(c)' <=> Requested(c) \/ (r.type = "assistant" /\ c \in r.requests)
           /\ Scoped(c)' <=>
                 Scoped(c) \/ (r.type = "assistant" /\ c \in r.requests /\ c \in r.scope)
           /\ Approved(c)' <=> Approved(c) \/ (r.type = "result" /\ <<c, TRUE>> \in r.decisions)
           /\ Denied(c)' <=> Denied(c) \/ (r.type = "result" /\ <<c, FALSE>> \in r.decisions)
           /\ Told(c, o)' <=> Told(c, o) \/ (r.type = "result" /\ <<c, o>> \in r.results)
  BY <1>1
<1>3. /\ m \in DOMAIN rows' /\ rows'[m] = r
      /\ \A i \in DOMAIN rows' : i \in DOMAIN rows \/ i = m
      /\ IsResult(m)' <=> r.type = "result"
      /\ Requests(m)' = IF r.type = "assistant" THEN r.requests ELSE {}
  BY <1>1, <1>2
<1>4. Requested(c)' <=> Requested(c) \/ (r.type = "assistant" /\ c \in r.requests)
  BY Heard
<1>5. Scoped(c)' <=> Scoped(c) \/ (r.type = "assistant" /\ c \in r.requests /\ c \in r.scope)
  BY <1>1, <1>2, <1>3 DEF Scoped
<1>6. Approved(c)' <=> Approved(c) \/ (r.type = "result" /\ <<c, TRUE>> \in r.decisions)
  BY <1>1, <1>2, <1>3 DEF Approved
<1>7. Denied(c)' <=> Denied(c) \/ (r.type = "result" /\ <<c, FALSE>> \in r.decisions)
  BY <1>1, <1>2, <1>3 DEF Denied
<1>8. Told(c, o)' <=> Told(c, o) \/ (r.type = "result" /\ <<c, o>> \in r.results)
  BY <1>1, <1>2, <1>3 DEF Told
<1> QED BY <1>4, <1>5, <1>6, <1>7, <1>8

(* Nothing is added where there is no row. *)
LEMMA NothingAdded ==
    ASSUME UNCHANGED rows, NEW c \in Call, NEW o \in Outcome
    PROVE  /\ Requested(c)' <=> Requested(c)
           /\ Scoped(c)' <=> Scoped(c)
           /\ Approved(c)' <=> Approved(c)
           /\ Denied(c)' <=> Denied(c)
           /\ Told(c, o)' <=> Told(c, o)
BY Unheard DEF Denied, Told, IsResult

(* What a person answered in the block that is read is in the thread. *)
LEMMA DecidedHeard ==
    ASSUME TypeOK, NEW c \in Call
    PROVE  /\ Decided(c, TRUE) => Approved(c)
           /\ Decided(c, FALSE) => Denied(c)
<1>1. ASSUME NEW k \in Answers PROVE k \in DOMAIN rows /\ IsResult(k)
  <2>1. k \in DOMAIN rows /\ \E j \in Asking + 1 .. k : \A l \in j .. k : IsResult(l)
    BY DEF Answers
  <2>2. k \in Nat
    BY <2>1 DEF TypeOK
  <2>3. PICK j \in Asking + 1 .. k : \A l \in j .. k : IsResult(l)
    BY <2>1
  <2>4. k \in j .. k
    BY <2>2, <2>3
  <2> QED BY <2>1, <2>3, <2>4
<1> QED BY <1>1 DEF Decided, Decides, Approved, Denied

-----------------------------------------------------------------------------
(* A step adds one row or none, and a tool that has run has run for good.  *)
LEMMA RowsGrow ==
    ASSUME TypeOK, [Next]_vars
    PROVE  rows' = rows \/ \E r \in Row : rows' = Append(rows, r)
<1>1. ASSUME NEW w \in Worker, Results(got[w]) \notin Row PROVE FALSE
  <2>1. got[w] \in SUBSET (Call \X Outcome)
    BY DEF TypeOK
  <2> QED BY <1>1, <2>1, ResultsRow
<1>2. ASSUME NEW w \in Worker, NEW S \in SUBSET Call, Respond(w, S) \/ FailedStep(w, S)
      PROVE  \E r \in Row : rows' = Append(rows, r)
  <2>1. offered[w] \in SUBSET Call
    BY DEF TypeOK
  <2>2. \A Q \in SUBSET S : Reply(S, Q, IF Q = {} THEN {} ELSE offered[w]) \in Row
    BY <2>1, ReplyRow
  <2>3. PICK Q \in SUBSET S : Answer(w, S, Q)
    BY <1>2 DEF Respond, FailedStep
  <2> QED BY <2>2, <2>3 DEF Answer
<1>3. ASSUME NEW c \in Call, NEW yes \in BOOLEAN, Decide(c, yes)
      PROVE  \E r \in Row : rows' = Append(rows, r)
  BY <1>3, DecisionRow DEF Decide
<1>4. ASSUME NEW w \in Worker,
             \/ Start(w) \/ Narrow(w) \/ Look(w) \/ Take(w) \/ LockBusy(w) \/ Resolve(w)
             \/ Record(w) \/ Prompt(w) \/ Exhausted(w) \/ RefuseAll(w) \/ RecordResults(w)
             \/ CutOff(w) \/ (\E c \in Call : RunApproved(w, c) \/ Invoke(w, c))
      PROVE  rows' = rows \/ \E r \in Row : rows' = Append(rows, r)
  BY <1>1, <1>4, UserRow DEF Start, Narrow, Look, Take, LockBusy, Resolve, Record, Prompt,
         Exhausted, RefuseAll, RecordResults, CutOff, RunApproved, Invoke
<1> QED BY <1>2, <1>3, <1>4 DEF Next, Send, Step, vars

LEMMA RanGrows ==
    ASSUME TypeOK, [Next]_vars, NEW c \in Call PROVE ran[c] > 0 => ran'[c] > 0
<1>1. ran \in [Call -> Nat]
  BY DEF TypeOK
<1>2. ran' = ran \/ \E d \in Call : ran' = [ran EXCEPT ![d] = @ + 1]
  BY DEF Next, Send, Start, Step, Narrow, Look, Take, LockBusy, Resolve, Record, Prompt, Effect,
         Exhausted, RefuseAll, RecordResults, Respond, FailedStep, CutOff, Decide, vars,
         RunApproved, Invoke, Unwritten
<1> QED BY <1>1, <1>2

(* What is true of a call stays true. *)
LEMMA TruthStays ==
    ASSUME TypeOK, [Next]_vars, NEW c \in Call, NEW o \in Outcome, Truth(c, o)
    PROVE  Truth(c, o)'
<1>1. (Approved(c) => Approved(c)') /\ (Denied(c) => Denied(c)')
  <2>1. CASE rows' = rows
    BY <2>1, NothingAdded
  <2>2. ASSUME NEW r \in Row, rows' = Append(rows, r)
        PROVE  (Approved(c) => Approved(c)') /\ (Denied(c) => Denied(c)')
    BY <2>2, Added
  <2> QED BY <2>1, <2>2, RowsGrow
<1>2. ran[c] > 0 => ran'[c] > 0
  BY RanGrows
<1> QED BY <1>1, <1>2 DEF Truth

(* What resolve has to record of the calls it does not run. *)
LEMMA VerdictTrue ==
    ASSUME TypeOK, NEW c \in Call PROVE Verdict(c) \in Outcome /\ Truth(c, Verdict(c))
<1>1. /\ Decided(c, TRUE) => Approved(c)
      /\ Decided(c, FALSE) => Denied(c)
  BY DecidedHeard
<1> QED BY <1>1 DEF Verdict, Truth, Outcome

LEMMA ResolveTrue ==
    ASSUME TurnInv, NEW w \in Worker, Resolve(w), NEW c \in Call, NEW o \in Outcome,
           pc'[w] = "run", <<c, o>> \in got'[w]
    PROVE  Truth(c, o)
<1>1. TypeOK /\ pc[w] = "resolve"
  BY DEF TurnInv, Resolve
<1>2. Unresolved # {}
  BY <1>1 DEF Resolve, Goto, TypeOK
<1>3. PICK d \in Unresolved : <<c, o>> = <<d, Verdict(d)>>
  <2> DEFINE runnable == {d \in Unresolved \cap Bounded(w) : Decided(d, TRUE)}
             verdicts == {<<d, Verdict(d)>> : d \in Unresolved \ runnable}
  <2>1. got' = [got EXCEPT ![w] = verdicts]
    BY <1>2 DEF Resolve
  <2>2. \A x \in verdicts : \E d \in Unresolved : x = <<d, Verdict(d)>>
    OBVIOUS
  <2> HIDE DEF verdicts
  <2>3. got'[w] = verdicts
    BY <1>1, <2>1 DEF TypeOK
  <2> QED BY <2>2, <2>3
<1>4. c = d /\ o = Verdict(d)
  BY <1>3
<1> QED BY <1>1, <1>4, VerdictTrue

LEMMA RunTrue ==
    ASSUME TurnInv, TruthShape, NEW w \in Worker, NEW d \in Call, RunApproved(w, d), [Next]_vars,
           NEW c \in Call, NEW o \in Outcome, pc'[w] = "run", <<c, o>> \in got'[w]
    PROVE  Truth(c, o)'
<1>1. TypeOK /\ Shape(w) /\ pc[w] = "run" /\ d \in todo[w]
  BY DEF TurnInv, RunApproved
<1>2. Approved(d)
  BY <1>1 DEF Shape, Live
<1>3. CASE <<c, o>> \in got[w]
  BY <1>1, <1>3, TruthStays DEF TruthShape
<1>4. ~Leave(w)
  BY <1>1, Left
<1>5. CASE Did(w, d, "ran") /\ ran' = [ran EXCEPT ![d] = @ + 1]
  <2>1. got'[w] = got[w] \cup {<<d, "ran">>}
    BY <1>1, <1>5, DidParts DEF Outcome
  <2>2. ran'[d] > 0
    BY <1>1, <1>5 DEF TypeOK
  <2> QED BY <1>3, <2>1, <2>2 DEF Truth
<1>6. CASE Did(w, d, "refused") /\ UNCHANGED ran
  <2>1. got'[w] = got[w] \cup {<<d, "refused">>}
    BY <1>1, <1>6, DidParts DEF Outcome
  <2>2. Approved(d)'
    BY <1>2, Unheard DEF RunApproved
  <2> QED BY <1>3, <2>1, <2>2 DEF Truth
<1> QED BY <1>4, <1>5, <1>6 DEF RunApproved, Effect, Unwritten

LEMMA TruthStep ==
    ASSUME TurnInv, TruthShape, [Next]_vars PROVE TruthShape'
<1> SUFFICES ASSUME NEW v \in Worker, pc'[v] = "run", NEW c \in Call, NEW o \in Outcome,
                    <<c, o>> \in got'[v]
             PROVE  Truth(c, o)'
  BY DEF TruthShape
<1>1. TypeOK
  BY DEF TurnInv
<1>2. CASE pc[v] = "run" /\ <<c, o>> \in got[v]
  BY <1>1, <1>2, TruthStays DEF TruthShape
<1>3. CASE Resolve(v)
  BY <1>1, <1>3, ResolveTrue, TruthStays
<1>4. ASSUME NEW d \in Call, RunApproved(v, d) PROVE Truth(c, o)'
  BY <1>4, RunTrue
<1>5. ASSUME NEW w \in Worker, Start(w) \/ Step(w) \/ CutOff(w), w # v PROVE Truth(c, o)'
  BY <1>1, <1>2, <1>5, OthersStay DEF Others
<1>6. ASSUME NEW d \in Call, NEW yes \in BOOLEAN, Decide(d, yes) PROVE Truth(c, o)'
  BY <1>2, <1>6 DEF Decide, turn
<1>7. CASE UNCHANGED vars
  BY <1>2, <1>7 DEF vars, turn
<1>8. CASE Leave(v)
  BY <1>1, <1>8, Left
<1>9. ASSUME \/ Start(v) \/ Narrow(v) \/ Look(v) \/ Take(v) \/ Record(v) \/ Prompt(v)
             \/ (RecordResults(v) /\ ~Leave(v))
             \/ \E S \in SUBSET Call : (Respond(v, S) \/ FailedStep(v, S)) /\ ~Leave(v)
      PROVE FALSE
  BY <1>1, <1>9 DEF TypeOK, Start, Narrow, Look, Take, Record, Prompt, RecordResults,
                    Respond, FailedStep, Goto
<1>10. ASSUME NEW d \in Call, Invoke(v, d), ~Leave(v) PROVE FALSE
  BY <1>10 DEF Invoke, Effect, Unwritten, Did
<1>11. CASE LockBusy(v) \/ Exhausted(v) \/ RefuseAll(v) \/ CutOff(v)
  BY <1>8, <1>11 DEF LockBusy, Exhausted, RefuseAll, CutOff
<1>12. CASE Start(v) \/ Step(v) \/ CutOff(v)
  BY <1>3, <1>4, <1>8, <1>9, <1>10, <1>11, <1>12 DEF Step
<1> QED BY <1>5, <1>6, <1>7, <1>12 DEF Next, Send

-----------------------------------------------------------------------------
(* The steps of Approvals that the steps of the code are. *)

(* A step is none where nothing of what Approvals reads changes. *)
LEMMA Unseen ==
    ASSUME UNCHANGED faults,
           \A c \in Gated :
              /\ ran'[c] = ran[c]
              /\ Requested(c)' <=> Requested(c)
              /\ Scoped(c)' <=> Scoped(c)
              /\ Approved(c)' <=> Approved(c)
              /\ Denied(c)' <=> Denied(c)
              /\ Requested(c) => \A o \in Outcome : Told(c, o)' <=> Told(c, o)
    PROVE  UNCHANGED Contract!vars
<1>1. [c \in Gated |-> ran'[c]] = [c \in Gated |-> ran[c]]
  OBVIOUS
<1>2. {c \in Gated : Requested(c)'} = {c \in Gated : Requested(c)}
  OBVIOUS
<1>3. {c \in Gated : Scoped(c)'} = {c \in Gated : Scoped(c)}
  OBVIOUS
<1>4. {c \in Gated : Approved(c)'} = {c \in Gated : Approved(c)}
  OBVIOUS
<1>5. {c \in Gated : Denied(c)'} = {c \in Gated : Denied(c)}
  OBVIOUS
<1>6. {p \in Gated \X Outcome : Requested(p[1])' /\ Told(p[1], p[2])'}
        = {p \in Gated \X Outcome : Requested(p[1]) /\ Told(p[1], p[2])}
  <2>1. ASSUME NEW p \in Gated \X Outcome
        PROVE  Requested(p[1])' /\ Told(p[1], p[2])' <=> Requested(p[1]) /\ Told(p[1], p[2])
    <3>1. p[1] \in Gated /\ p[2] \in Outcome
      OBVIOUS
    <3> QED BY <3>1
  <2> QED BY <2>1
<1> QED BY <1>1, <1>2, <1>3, <1>4, <1>5, <1>6 DEF Contract!vars

(* Where nothing is added to the thread and no gated call runs.            *)
LEMMA UnseenQuiet ==
    ASSUME UNCHANGED <<rows, faults>>, \A c \in Gated : ran'[c] = ran[c]
    PROVE  UNCHANGED Contract!vars
<1>1. \A c \in Gated : c \in Call
  BY DEF TurnAssumption
<1>2. \A c \in Gated :
         /\ Requested(c)' <=> Requested(c)
         /\ Scoped(c)' <=> Scoped(c)
         /\ Approved(c)' <=> Approved(c)
         /\ Denied(c)' <=> Denied(c)
         /\ \A o \in Outcome : Told(c, o)' <=> Told(c, o)
  BY <1>1, NothingAdded DEF Outcome
<1> QED BY <1>2, Unseen

LEMMA ContractStarts == Init => Contract!Init
<1> SUFFICES ASSUME Init PROVE Contract!Init
  OBVIOUS
<1>1. DOMAIN rows = {} /\ faults = 0
  BY DEF Init
<1>2. \A c \in Gated : ran[c] = 0
  BY DEF Init, TurnAssumption
<1>3. \A c : /\ ~Requested(c) /\ ~Scoped(c) /\ ~Approved(c) /\ ~Denied(c)
  BY <1>1 DEF Requested, Scoped, Approved, Denied
<1>4. [c \in Gated |-> ran[c]] = [c \in Gated |-> 0]
  BY <1>2
<1> QED BY <1>1, <1>3, <1>4 DEF Contract!Init

(* A reply asks for its gated calls, within the tools of the run.          *)
LEMMA RespondAsks ==
    ASSUME TurnInv, NEW w \in Worker, NEW S \in SUBSET Call, Respond(w, S)
    PROVE  \/ UNCHANGED Contract!vars
           \/ Contract!Ask(S \cap Gated, S \cap Gated \cap offered[w])
<1> DEFINE Q == S \cap Gated
           T == IF Q = {} THEN {} ELSE offered[w]
           r == Reply(S, Q, T)
<1>1. TypeOK /\ ThreadShape /\ offered[w] \in SUBSET Call
  BY DEF TurnInv, TypeOK
<1>2. r \in Row /\ r.type = "assistant" /\ r.calls = S /\ r.requests = Q /\ r.scope = T
  BY <1>1, ReplyRow
<1>3. rows' = Append(rows, r) /\ UNCHANGED <<ran, faults>>
  BY DEF Respond, Answer
<1>4. \A c \in Q : ~Requested(c)
  <2>1. \A c \in S : ~Called(c)
    BY DEF Respond, Answer, Called
  <2> QED BY <1>1, <2>1, SaidOfCalls
<1> HIDE DEF r
<1>5. \A c \in Gated : c \in Call
  BY DEF TurnAssumption
<1>6. ASSUME NEW c \in Gated
      PROVE  /\ Requested(c)' <=> Requested(c) \/ c \in Q
             /\ Scoped(c)' <=> Scoped(c) \/ (c \in Q /\ c \in T)
             /\ Approved(c)' <=> Approved(c)
             /\ Denied(c)' <=> Denied(c)
             /\ \A o \in Outcome : Told(c, o)' <=> Told(c, o)
  BY <1>1, <1>2, <1>3, <1>5, Added DEF Outcome
<1>7. CASE Q = {}
  BY <1>3, <1>6, <1>7, Unseen
<1>8. CASE Q # {}
  <2>1. T = offered[w]
    BY <1>8
  <2>2. ASSUME NEW c \in Q PROVE \A o \in Outcome : ~Told(c, o)
    <3>1. c \in Call /\ ~HasResult(c)
      BY <1>1, <1>4, SaidOfCalls DEF Respond, Answer, Called
    <3> QED BY <3>1 DEF HasResult, Told
  <2> HIDE DEF Q, T
  <2>3. {c \in Gated : Requested(c)'} = {c \in Gated : Requested(c)} \cup Q
    BY <1>6 DEF Q
  <2>4. {c \in Gated : Scoped(c)'} = {c \in Gated : Scoped(c)} \cup (Q \cap offered[w])
    BY <1>6, <2>1 DEF Q
  <2>5. {c \in Gated : Approved(c)'} = {c \in Gated : Approved(c)}
    BY <1>6
  <2>6. {c \in Gated : Denied(c)'} = {c \in Gated : Denied(c)}
    BY <1>6
  <2>7. {p \in Gated \X Outcome : Requested(p[1])' /\ Told(p[1], p[2])'}
          = {p \in Gated \X Outcome : Requested(p[1]) /\ Told(p[1], p[2])}
    <3>1. ASSUME NEW p \in Gated \X Outcome
          PROVE  Requested(p[1])' /\ Told(p[1], p[2])' <=> Requested(p[1]) /\ Told(p[1], p[2])
      <4>1. p[1] \in Gated /\ p[2] \in Outcome
        OBVIOUS
      <4> QED BY <1>6, <2>2, <4>1
    <3> QED BY <3>1
  <2>8. /\ Q # {} /\ Q \cap {c \in Gated : Requested(c)} = {}
        /\ Q \cap offered[w] \subseteq Q
    BY <1>4, <1>8
  <2>9. Contract!Ask(Q, Q \cap offered[w])
    BY <1>3, <2>3, <2>4, <2>5, <2>6, <2>7, <2>8 DEF Contract!Ask
  <2> QED BY <2>9 DEF Q
<1> QED BY <1>7, <1>8

(* A person answers. *)
LEMMA DecideAnswers ==
    ASSUME TurnInv, NEW c \in Call, NEW yes \in BOOLEAN, Decide(c, yes)
    PROVE  c \in Gated /\ (Contract!Approve(c) \/ Contract!Deny(c))
<1> DEFINE r == [type |-> "result", results |-> {}, decisions |-> {<<c, yes>>}]
<1>1. TypeOK /\ ThreadShape /\ Requested(c)
  BY DEF TurnInv, Decide, Requested
<1>2. c \in Gated
  BY <1>1, SaidOfCalls
<1>3. r \in Row /\ r.type = "result" /\ r.results = {} /\ r.decisions = {<<c, yes>>}
  BY DecisionRow
<1> HIDE DEF r
<1>4. rows' = Append(rows, r) /\ UNCHANGED <<ran, faults>>
  BY DEF Decide, r
<1>5. \A d \in Gated : d \in Call
  BY DEF TurnAssumption
<1>6. ASSUME NEW d \in Gated
      PROVE  /\ Requested(d)' <=> Requested(d)
             /\ Scoped(d)' <=> Scoped(d)
             /\ Approved(d)' <=> Approved(d) \/ (d = c /\ yes = TRUE)
             /\ Denied(d)' <=> Denied(d) \/ (d = c /\ yes = FALSE)
             /\ \A o \in Outcome : Told(d, o)' <=> Told(d, o)
  BY <1>1, <1>3, <1>4, <1>5, Added DEF Outcome
<1>7. {d \in Gated : Requested(d)'} = {d \in Gated : Requested(d)}
  BY <1>6
<1>8. {d \in Gated : Scoped(d)'} = {d \in Gated : Scoped(d)}
  BY <1>6
<1>9. {p \in Gated \X Outcome : Requested(p[1])' /\ Told(p[1], p[2])'}
        = {p \in Gated \X Outcome : Requested(p[1]) /\ Told(p[1], p[2])}
  <2>1. ASSUME NEW p \in Gated \X Outcome
        PROVE  Requested(p[1])' /\ Told(p[1], p[2])' <=> Requested(p[1]) /\ Told(p[1], p[2])
    <3>1. p[1] \in Gated /\ p[2] \in Outcome
      OBVIOUS
    <3> QED BY <1>6, <3>1
  <2> QED BY <2>1
<1>10. CASE yes = TRUE
  <2>1. {d \in Gated : Approved(d)'} = {d \in Gated : Approved(d)} \cup {c}
    BY <1>2, <1>6, <1>10
  <2>2. {d \in Gated : Denied(d)'} = {d \in Gated : Denied(d)}
    BY <1>6, <1>10
  <2> QED BY <1>1, <1>2, <1>4, <1>7, <1>8, <1>9, <2>1, <2>2 DEF Contract!Approve
<1>11. CASE yes = FALSE
  <2>1. {d \in Gated : Denied(d)'} = {d \in Gated : Denied(d)} \cup {c}
    BY <1>2, <1>6, <1>11
  <2>2. {d \in Gated : Approved(d)'} = {d \in Gated : Approved(d)}
    BY <1>6, <1>11
  <2> QED BY <1>1, <1>2, <1>4, <1>7, <1>8, <1>9, <2>1, <2>2 DEF Contract!Deny
<1> QED BY <1>2, <1>10, <1>11

(* An approved call runs, and its result may end the turn; or it is        *)
(* refused and nothing is seen of it yet.                                  *)
LEMMA RunApprovedRuns ==
    ASSUME TurnInv, RanShape, NEW w \in Worker, NEW c \in Call, RunApproved(w, c)
    PROVE  UNCHANGED Contract!vars \/ (c \in Gated /\ Contract!Run(c))
<1>1. /\ TypeOK /\ ThreadShape /\ Shape(w) /\ pc[w] = "run" /\ c \in todo[w]
      /\ UNCHANGED rows
  BY DEF TurnInv, RunApproved
<1>2. /\ c \in Gated /\ Requested(c) /\ Approved(c) /\ Scoped(c) /\ ~HasResult(c) /\ holder = w
      /\ \A o \in Outcome : <<c, o>> \notin got[w]
  BY <1>1, SaidOfCalls DEF Shape, Mine, Live
<1>3. CASE UNCHANGED <<ran, faults>>
  BY <1>1, <1>3, UnseenQuiet
<1>4. CASE ran' = [ran EXCEPT ![c] = @ + 1] /\ faults' \in {faults, faults + 1}
  <2>1. [d \in Gated |-> ran'[d]] = [[d \in Gated |-> ran[d]] EXCEPT ![c] = @ + 1]
    BY <1>1, <1>2, <1>4 DEF TypeOK, TurnAssumption
  <2>2. ~SaysRan(c)
    BY <1>1, <1>2, SaidOfCalls
  <2>3. \A v \in Worker : ~(pc[v] = "run" /\ <<c, "ran">> \in got[v])
    BY <1>2 DEF TurnInv, Shape, Outcome
  <2>4. ran[c] <= faults
    BY <1>2, <2>2, <2>3 DEF RanShape
  <2>5. \A p \in Gated \X Outcome : p[1] = c => ~Told(p[1], p[2])
    BY <1>2 DEF HasResult, Told
  <2>6. /\ {d \in Gated : Requested(d)'} = {d \in Gated : Requested(d)}
        /\ {d \in Gated : Scoped(d)'} = {d \in Gated : Scoped(d)}
        /\ {d \in Gated : Approved(d)'} = {d \in Gated : Approved(d)}
        /\ {d \in Gated : Denied(d)'} = {d \in Gated : Denied(d)}
        /\ {p \in Gated \X Outcome : Requested(p[1])' /\ Told(p[1], p[2])'}
            = {p \in Gated \X Outcome : Requested(p[1]) /\ Told(p[1], p[2])}
    BY <1>1 DEF Requested, Scoped, Approved, Denied, Told, IsResult, Requests
  <2>7. c \in {d \in Gated : Approved(d)} \cap {d \in Gated : Scoped(d)}
    BY <1>2
  <2>8. [d \in Gated |-> ran[d]][c] = ran[c]
    BY <1>2
  <2>9. ~Contract!Settled(c)
    BY <2>5 DEF Contract!Settled
  <2> QED BY <1>1, <1>2, <1>4, <2>1, <2>4, <2>6, <2>7, <2>8, <2>9 DEF Contract!Run
<1> QED BY <1>3, <1>4 DEF RunApproved, Effect, Unwritten, Fault

(* What resolve records is told, and all of it is true.                    *)
LEMMA RecordTells ==
    ASSUME TurnInv, TruthShape, NEW w \in Worker, Record(w)
    PROVE  \E P \in SUBSET Contract!Facts : Contract!Tell(P)
<1> DEFINE r == Results(got[w])
           P == {p \in Gated \X Outcome : Requested(p[1]) /\ <<p[1], p[2]>> \in got[w]}
<1>1. /\ TypeOK /\ ThreadShape /\ pc[w] = "run" /\ got[w] \in SUBSET (Call \X Outcome)
      /\ UNCHANGED <<ran, faults>>
  BY DEF TurnInv, TypeOK, Record
<1>2. /\ r \in Row /\ r.type = "result" /\ r.results = got[w] /\ r.decisions = {}
  BY <1>1, ResultsRow
<1> HIDE DEF r
<1>3. rows' = Append(rows, r)
  BY DEF Record, r
<1>4. \A c \in Gated : c \in Call
  BY DEF TurnAssumption
<1>5. ASSUME NEW c \in Gated
      PROVE  /\ Requested(c)' <=> Requested(c)
             /\ Scoped(c)' <=> Scoped(c)
             /\ Approved(c)' <=> Approved(c)
             /\ Denied(c)' <=> Denied(c)
             /\ \A o \in Outcome : Told(c, o)' <=> Told(c, o) \/ <<c, o>> \in got[w]
  BY <1>1, <1>2, <1>3, <1>4, Added DEF Outcome
<1>6. /\ {d \in Gated : Requested(d)'} = {d \in Gated : Requested(d)}
      /\ {d \in Gated : Scoped(d)'} = {d \in Gated : Scoped(d)}
      /\ {d \in Gated : Approved(d)'} = {d \in Gated : Approved(d)}
      /\ {d \in Gated : Denied(d)'} = {d \in Gated : Denied(d)}
  BY <1>5
<1>7. {p \in Gated \X Outcome : Requested(p[1])' /\ Told(p[1], p[2])'}
        = {p \in Gated \X Outcome : Requested(p[1]) /\ Told(p[1], p[2])} \cup P
  <2>1. ASSUME NEW p \in Gated \X Outcome
        PROVE  Requested(p[1])' /\ Told(p[1], p[2])'
                  <=> (Requested(p[1]) /\ Told(p[1], p[2])) \/ p \in P
    <3>1. p[1] \in Gated /\ p[2] \in Outcome
      OBVIOUS
    <3> QED BY <1>5, <3>1
  <2> QED BY <2>1
<1>8. P \in SUBSET Contract!Facts
  <2>1. ASSUME NEW p \in P
        PROVE  /\ p \in {c \in Gated : Requested(c)} \X
                          {"ran", "denied", "refused", "unavailable", "unanswered"}
               /\ Contract!Fact(p[1], p[2])
    <3>1. PICK c \in Gated, o \in Outcome : p = <<c, o>> /\ Requested(c) /\ <<c, o>> \in got[w]
      OBVIOUS
    <3>2. Truth(c, o)
      BY <1>1, <1>4, <3>1 DEF TruthShape
    <3>3. o \in {"ran", "denied", "refused", "unavailable", "unanswered"}
      BY <3>2 DEF Truth, Outcome
    <3>4. [d \in Gated |-> ran[d]][c] = ran[c]
      OBVIOUS
    <3>5. Contract!Fact(c, o)
      BY <3>2, <3>3, <3>4 DEF Contract!Fact, Truth
    <3> QED BY <3>1, <3>3, <3>5
  <2> HIDE DEF P
  <2> QED BY <2>1 DEF Contract!Facts
<1>9. [c \in Gated |-> ran'[c]] = [c \in Gated |-> ran[c]]
  BY <1>1
<1> HIDE DEF P
<1>10. Contract!Tell(P)
  BY <1>1, <1>6, <1>7, <1>9 DEF Contract!Tell
<1> QED BY <1>8, <1>10

(* Other rows say nothing of a call that a person was asked about. *)
LEMMA OtherRows ==
    ASSUME TurnInv, NEW w \in Worker,
           \/ Prompt(w) \/ RefuseAll(w) \/ RecordResults(w)
           \/ \E S \in SUBSET Call : FailedStep(w, S)
    PROVE  UNCHANGED Contract!vars
<1>1. TypeOK /\ ThreadShape /\ Shape(w) /\ UNCHANGED <<ran, faults>>
  BY DEF TurnInv, Prompt, RefuseAll, RecordResults, FailedStep
<1>2. CASE UNCHANGED rows
  BY <1>1, <1>2, UnseenQuiet
<1>3. \A c \in Gated : c \in Call
  BY DEF TurnAssumption
<1>4. ASSUME NEW r \in Row, rows' = Append(rows, r),
             r.type = "assistant" => r.requests = {},
             r.type = "result" =>
                /\ r.decisions = {}
                /\ \A c \in Gated : Requested(c) => \A o \in Outcome : <<c, o>> \notin r.results
      PROVE  UNCHANGED Contract!vars
  <2>1. ASSUME NEW c \in Gated
        PROVE  /\ Requested(c)' <=> Requested(c)
               /\ Scoped(c)' <=> Scoped(c)
               /\ Approved(c)' <=> Approved(c)
               /\ Denied(c)' <=> Denied(c)
               /\ Requested(c) => \A o \in Outcome : Told(c, o)' <=> Told(c, o)
    BY <1>1, <1>3, <1>4, Added DEF Outcome
  <2> QED BY <1>1, <2>1, Unseen
<1>5. CASE Prompt(w)
  BY <1>2, <1>4, <1>5, UserRow DEF Prompt
<1>6. ASSUME NEW S \in SUBSET Call, FailedStep(w, S) PROVE UNCHANGED Contract!vars
  <2>1. rows' = Append(rows, Reply(S, {}, {}))
    BY <1>6 DEF FailedStep, Answer
  <2> QED BY <1>4, <2>1, ReplyRow
<1>7. CASE (RefuseAll(w) \/ RecordResults(w)) /\ rows' # rows
  <2>1. rows' = Append(rows, Results(got[w])) /\ pc[w] \in {"refuse", "invoke"}
    BY <1>7 DEF RefuseAll, RecordResults
  <2>2. got[w] \in SUBSET (Call \X Outcome)
    BY <1>1 DEF TypeOK
  <2>3. ASSUME NEW c \in Gated, Requested(c), NEW o \in Outcome PROVE <<c, o>> \notin got[w]
    BY <1>1, <1>3, <2>1, <2>3 DEF Shape, Mine
  <2> QED BY <1>4, <2>1, <2>2, <2>3, ResultsRow
<1> QED BY <1>2, <1>5, <1>6, <1>7

(* Steps of a turn that add no row and run no gated call. *)
LEMMA OtherSteps ==
    ASSUME TurnInv, NEW w \in Worker,
           \/ Start(w) \/ Narrow(w) \/ Look(w) \/ Take(w) \/ LockBusy(w) \/ Resolve(w)
           \/ Exhausted(w) \/ \E c \in Call : Invoke(w, c)
    PROVE  UNCHANGED Contract!vars
<1>1. CASE \/ Start(w) \/ Narrow(w) \/ Look(w) \/ Take(w) \/ LockBusy(w) \/ Resolve(w)
           \/ Exhausted(w)
  BY <1>1, UnseenQuiet DEF Start, Narrow, Look, Take, LockBusy, Resolve, Exhausted
<1>2. ASSUME NEW c \in Call, Invoke(w, c) PROVE UNCHANGED Contract!vars
  <2>1. c \notin Gated /\ ran \in [Call -> Nat]
    BY <1>2 DEF TurnInv, TypeOK, Shape, Mine, Invoke
  <2>2. ran' = ran \/ ran' = [ran EXCEPT ![c] = @ + 1]
    BY <1>2 DEF Invoke, Effect, Unwritten
  <2>3. \A d \in Gated : ran'[d] = ran[d]
    BY <2>1, <2>2 DEF TurnAssumption
  <2> QED BY <1>2, <2>3, UnseenQuiet DEF Invoke
<1> QED BY <1>1, <1>2

LEMMA CutOffCuts ==
    ASSUME NEW w \in Worker, CutOff(w) PROVE Contract!Cut
<1>1. UNCHANGED <<rows, ran>> /\ faults' = faults + 1
  BY DEF CutOff, Fault
<1>2. /\ {d \in Gated : Requested(d)'} = {d \in Gated : Requested(d)}
      /\ {d \in Gated : Scoped(d)'} = {d \in Gated : Scoped(d)}
      /\ {d \in Gated : Approved(d)'} = {d \in Gated : Approved(d)}
      /\ {d \in Gated : Denied(d)'} = {d \in Gated : Denied(d)}
      /\ {p \in Gated \X Outcome : Requested(p[1])' /\ Told(p[1], p[2])'}
            = {p \in Gated \X Outcome : Requested(p[1]) /\ Told(p[1], p[2])}
  BY <1>1 DEF Requested, Scoped, Approved, Denied, Told, IsResult, Requests
<1>3. [c \in Gated |-> ran'[c]] = [c \in Gated |-> ran[c]]
  BY <1>1
<1> QED BY <1>1, <1>2, <1>3 DEF Contract!Cut

LEMMA ContractStep ==
    ASSUME TurnInv, RanShape, TruthShape, [Next]_vars
    PROVE  [Contract!Next]_Contract!vars
<1>1. ASSUME NEW w \in Worker, NEW S \in SUBSET Call, Respond(w, S)
      PROVE  [Contract!Next]_Contract!vars
  <2>1. S \cap Gated \in SUBSET Gated /\ S \cap Gated \cap offered[w] \in SUBSET (S \cap Gated)
    OBVIOUS
  <2> QED BY <1>1, <2>1, RespondAsks DEF Contract!Next
<1>2. ASSUME NEW w \in Worker, NEW c \in Call, RunApproved(w, c)
      PROVE  [Contract!Next]_Contract!vars
  BY <1>2, RunApprovedRuns DEF Contract!Next
<1>3. ASSUME NEW w \in Worker, Record(w) PROVE [Contract!Next]_Contract!vars
  BY <1>3, RecordTells DEF Contract!Next
<1>4. ASSUME NEW c \in Call, NEW yes \in BOOLEAN, Decide(c, yes)
      PROVE  [Contract!Next]_Contract!vars
  BY <1>4, DecideAnswers DEF Contract!Next
<1>5. ASSUME NEW w \in Worker, CutOff(w) PROVE [Contract!Next]_Contract!vars
  BY <1>5, CutOffCuts DEF Contract!Next
<1>6. CASE UNCHANGED vars
  BY <1>6, UnseenQuiet DEF vars
<1> QED BY <1>1, <1>2, <1>3, <1>4, <1>5, <1>6, OtherRows, OtherSteps DEF Next, Send, Step

(* ApprovalsHonoured: the turns implement Approvals; a turn cut off, or    *)
(* ended by the result of an approved call, is a cut (runtime.py 643-646,  *)
(* 808).                                                                   *)
THEOREM ApprovalsKept == Spec => ApprovalsHonoured
<1>1. Init => TruthShape /\ Contract!Init
  <2>1. Init => TruthShape
    BY DEF Init, TruthShape
  <2> QED BY <2>1, ContractStarts
<1>2. TurnInv /\ TruthShape /\ [Next]_vars => TruthShape'
  BY TruthStep
<1>3. TurnInv /\ RanShape /\ TruthShape /\ [Next]_vars => [Contract!Next]_Contract!vars
  BY ContractStep
<1> QED BY <1>1, <1>2, <1>3, RanInvariance, PTL DEF Spec, ApprovalsHonoured, Contract!Spec

-----------------------------------------------------------------------------
(* Somebody has spoken between two rows. *)
Spoken(a, i) == \E k \in a + 1 .. i - 1 : ~IsResult(k)

(* A worker holds no call of a request that was answered, unless the       *)
(* answer is hidden behind what somebody said.                             *)
PendingShape ==
    \A w \in Worker : pc[w] = "run" =>
        \A c \in Gated : Mine(w, c) =>
            \A a, i \in DOMAIN rows : c \in Requests(a) /\ TellsOf(i, c) => Spoken(a, i)

(* A row that is added hides nothing, and nothing is hidden by it.         *)
LEMMA RowsKept ==
    ASSUME TypeOK, NEW r \in Row, rows' = Append(rows, r), NEW a \in DOMAIN rows,
           NEW i \in DOMAIN rows, NEW c
    PROVE  /\ Spoken(a, i)' <=> Spoken(a, i)
           /\ TellsOf(i, c)' <=> TellsOf(i, c)
<1>1. /\ rows'[i] = rows[i] /\ \A k \in DOMAIN rows : IsResult(k)' <=> IsResult(k)
  BY Appended, AppendedParts
<1>2. \A k \in a + 1 .. i - 1 : k \in DOMAIN rows
  BY DEF TypeOK
<1>3. Spoken(a, i)' <=> Spoken(a, i)
  BY <1>1, <1>2 DEF Spoken
<1>4. TellsOf(i, c)' <=> TellsOf(i, c)
  BY <1>1 DEF TellsOf
<1> QED BY <1>3, <1>4

LEMMA TellsResult ==
    ASSUME TypeOK, ThreadShape, NEW c \in Call, NEW i \in DOMAIN rows, TellsOf(i, c)
    PROVE  HasResult(c) /\ Called(c)
<1>1. HasResult(c)
  BY DEF HasResult, TellsOf
<1> QED BY <1>1, SaidOfCalls

(* Where a row says nothing of calls that a person was asked about, what   *)
(* is asked and told together was so before.                               *)
LEMMA OldNews ==
    ASSUME TypeOK, ThreadShape, NEW r \in Row, rows' = Append(rows, r),
           NEW c \in Gated, NEW a \in DOMAIN rows', NEW i \in DOMAIN rows',
           c \in Requests(a)', TellsOf(i, c)',
           r.type = "assistant" /\ c \in r.requests => ~Called(c),
           r.type = "result" /\ Requested(c) => \A o \in Outcome : <<c, o>> \notin r.results
    PROVE  /\ a \in DOMAIN rows /\ i \in DOMAIN rows
           /\ c \in Requests(a) /\ TellsOf(i, c)
<1> DEFINE n == Len(rows) + 1
<1>1. /\ n \in Nat /\ rows'[n] = r
      /\ \A k \in DOMAIN rows' : k \in DOMAIN rows \/ k = n
  BY Appended
<1>2. /\ \A k \in DOMAIN rows : Requests(k)' = Requests(k)
      /\ \A m \in Nat : m = n => /\ IsResult(m)' <=> r.type = "result"
                                 /\ Requests(m)' = IF r.type = "assistant" THEN r.requests ELSE {}
  BY AppendedParts
<1> HIDE DEF n
<1>3. c \in Call
  BY DEF TurnAssumption
<1>4. i = n => r.type = "result" /\ \E o \in Outcome : <<c, o>> \in r.results
  <2> SUFFICES ASSUME i = n PROVE r.type = "result" /\ \E o \in Outcome : <<c, o>> \in r.results
    OBVIOUS
  <2>1. IsResult(i)' /\ \E o \in Outcome : <<c, o>> \in rows'[i].results
    BY DEF TellsOf
  <2> QED BY <1>1, <1>2, <2>1
<1>5. i \in DOMAIN rows => TellsOf(i, c) /\ Called(c)
  <2> SUFFICES ASSUME i \in DOMAIN rows PROVE TellsOf(i, c) /\ Called(c)
    OBVIOUS
  <2>1. TellsOf(i, c)
    BY RowsKept
  <2> QED BY <1>3, <2>1, TellsResult
<1>6. a \in DOMAIN rows
  <2> SUFFICES ASSUME a = n PROVE FALSE
    BY <1>1
  <2>1. c \in IF r.type = "assistant" THEN r.requests ELSE {}
    BY <1>1, <1>2
  <2>2. r.type = "assistant" /\ c \in r.requests
    BY <2>1
  <2> QED BY <1>1, <1>4, <1>5, <2>2
<1>7. c \in Requests(a) /\ Requested(c)
  BY <1>2, <1>6 DEF Requested
<1>8. i \in DOMAIN rows
  BY <1>1, <1>4, <1>7
<1> QED BY <1>5, <1>6, <1>7, <1>8

(* No worker takes over a call that is to be run.                          *)
Keeps == \A v \in Worker : pc'[v] = "run" =>
            pc[v] = "run" /\ \A c \in Call : Mine(v, c)' => Mine(v, c)

(* Such a row changes nothing, nor does a step without a row. *)
LEMMA ToldFrame ==
    ASSUME TypeOK, ThreadShape, ToldOnce, PendingShape, Keeps,
           NEW r \in Row, rows' = Append(rows, r),
           \A c \in Gated :
              /\ r.type = "assistant" /\ c \in r.requests => ~Called(c)
              /\ r.type = "result" /\ Requested(c) => \A o \in Outcome : <<c, o>> \notin r.results
    PROVE  ToldOnce' /\ PendingShape'
<1>1. ASSUME NEW c \in Gated, NEW a \in DOMAIN rows', NEW i \in DOMAIN rows',
             c \in Requests(a)', TellsOf(i, c)'
      PROVE  /\ a \in DOMAIN rows /\ i \in DOMAIN rows
             /\ c \in Requests(a) /\ TellsOf(i, c)
             /\ Spoken(a, i) => Spoken(a, i)'
  <2>1. /\ a \in DOMAIN rows /\ i \in DOMAIN rows
        /\ c \in Requests(a) /\ TellsOf(i, c)
    BY <1>1, OldNews
  <2> QED BY <2>1, RowsKept
<1>2. ToldOnce'
  <2> SUFFICES ASSUME NEW c \in Gated, NEW a \in DOMAIN rows', NEW i \in DOMAIN rows',
                      NEW j \in DOMAIN rows',
                      c \in Requests(a)', i < j, TellsOf(i, c)', TellsOf(j, c)'
               PROVE  Spoken(a, i)'
    BY DEF ToldOnce, Spoken
  <2>1. /\ a \in DOMAIN rows /\ i \in DOMAIN rows /\ j \in DOMAIN rows
        /\ c \in Requests(a) /\ TellsOf(i, c) /\ TellsOf(j, c)
        /\ Spoken(a, i) => Spoken(a, i)'
    BY <1>1
  <2>2. Spoken(a, i)
    BY <2>1 DEF ToldOnce, Spoken
  <2> QED BY <2>1, <2>2
<1>3. PendingShape'
  <2> SUFFICES ASSUME NEW v \in Worker, pc'[v] = "run", NEW c \in Gated, Mine(v, c)',
                      NEW a \in DOMAIN rows', NEW i \in DOMAIN rows',
                      c \in Requests(a)', TellsOf(i, c)'
               PROVE  Spoken(a, i)'
    BY DEF PendingShape
  <2>1. pc[v] = "run" /\ Mine(v, c)
    BY DEF Keeps, TurnAssumption
  <2>2. /\ a \in DOMAIN rows /\ i \in DOMAIN rows /\ c \in Requests(a) /\ TellsOf(i, c)
        /\ Spoken(a, i) => Spoken(a, i)'
    BY <1>1
  <2> QED BY <2>1, <2>2 DEF PendingShape
<1> QED BY <1>2, <1>3

LEMMA ToldQuiet ==
    ASSUME ToldOnce, PendingShape, Keeps, UNCHANGED rows
    PROVE  ToldOnce' /\ PendingShape'
<1>1. \A a, i, c : /\ Spoken(a, i)' <=> Spoken(a, i)
                   /\ TellsOf(i, c)' <=> TellsOf(i, c)
                   /\ Requests(a)' = Requests(a)
  BY DEF Spoken, TellsOf, Requests, IsResult
<1>2. ToldOnce'
  BY <1>1 DEF ToldOnce, Spoken
<1>3. PendingShape'
  BY <1>1 DEF PendingShape, Keeps, TurnAssumption
<1> QED BY <1>2, <1>3

(* A result that resolve overlooks is hidden: were there results only      *)
(* between the reply and it, it would be one of the folded block.          *)
LEMMA Overlooked ==
    ASSUME TypeOK, ThreadShape, NEW c \in Unresolved,
           NEW a \in DOMAIN rows, NEW i \in DOMAIN rows, c \in Requests(a), TellsOf(i, c)
    PROVE  Spoken(a, i)
<1>1. c \in Call /\ c \in Calls(Asking) /\ ~Resulted(c) /\ Asking \in DOMAIN rows
  <2>1. Asking # 0 /\ c \in Calls(Asking) /\ ~Resulted(c)
    BY DEF Unresolved
  <2> QED BY <2>1, UnresolvedGated DEF Asking, ThreadShape, LastCalls
<1>2. a = Asking
  <2>1. c \in Calls(a)
    BY DEF ThreadShape, RequestsMade
  <2> QED BY <1>1, <2>1 DEF ThreadShape, CallsOnce
<1>3. PICK o \in Outcome : IsResult(i) /\ <<c, o>> \in rows[i].results
  BY DEF TellsOf
<1>4. a < i
  <2>1. PICK j \in 1 .. i - 1 : c \in Calls(j)
    BY <1>1, <1>3 DEF ThreadShape, ResultsLate
  <2>2. j \in DOMAIN rows /\ i \in Nat /\ j < i
    BY <2>1 DEF TypeOK
  <2>3. j = a
    BY <1>1, <1>2, <2>1, <2>2 DEF ThreadShape, CallsOnce
  <2> QED BY <2>2, <2>3
<1>5. i \notin Answers
  BY <1>1, <1>3 DEF Resulted
<1> SUFFICES ASSUME ~Spoken(a, i) PROVE FALSE
  OBVIOUS
<1>6. a \in Nat /\ i \in Nat
  BY DEF TypeOK
<1>7. a + 1 \in a + 1 .. i
  BY <1>4, <1>6
<1>8. \A l \in a + 1 .. i : IsResult(l)
  <2>1. \A l \in a + 1 .. i : l = i \/ l \in a + 1 .. i - 1
    BY <1>6
  <2> QED BY <1>3, <2>1 DEF Spoken
<1>9. \A l \in a + 1 .. (a + 1) - 1 : FALSE
  BY <1>6
<1> QED BY <1>2, <1>5, <1>7, <1>8, <1>9 DEF Answers

(* What resolve takes up has no result, or a hidden one. *)
LEMMA ToldResolve ==
    ASSUME TurnInv, ToldOnce, PendingShape, NEW w \in Worker, Resolve(w)
    PROVE  ToldOnce' /\ PendingShape'
<1>1. TypeOK /\ ThreadShape /\ Others(w) /\ UNCHANGED rows /\ todo[w] = {} /\ got[w] = {}
      /\ pc[w] = "resolve"
  BY OthersStay DEF TurnInv, Resolve, Step, Shape, Answering
<1>2. CASE Unresolved = {}
  <2>1. pc'[w] = "prompt"
    BY <1>1, <1>2 DEF Resolve, Goto, TypeOK
  <2>2. Keeps
    BY <1>1, <2>1 DEF Keeps, Others, Mine
  <2> QED BY <1>1, <2>2, ToldQuiet
<1>3. CASE Unresolved # {}
  <2>1. \A a, i, c : /\ Spoken(a, i)' <=> Spoken(a, i)
                     /\ TellsOf(i, c)' <=> TellsOf(i, c)
                     /\ Requests(a)' = Requests(a)
    BY <1>1 DEF Spoken, TellsOf, Requests, IsResult
  <2>2. ToldOnce'
    BY <1>1, <2>1 DEF ToldOnce, Spoken
  <2>3. \A c \in Call : Mine(w, c)' => c \in Unresolved
    <3> DEFINE runnable == {c \in Unresolved \cap Bounded(w) : Decided(c, TRUE)}
               verdicts == {<<c, Verdict(c)>> : c \in Unresolved \ runnable}
    <3>1. todo' = [todo EXCEPT ![w] = runnable] /\ got' = [got EXCEPT ![w] = verdicts]
      BY <1>3 DEF Resolve
    <3>2. \A c \in runnable : c \in Unresolved
      OBVIOUS
    <3>3. \A c, o : <<c, o>> \in verdicts => c \in Unresolved
      OBVIOUS
    <3> HIDE DEF runnable, verdicts
    <3>4. todo'[w] = runnable /\ got'[w] = verdicts
      BY <1>1, <3>1 DEF TypeOK
    <3> QED BY <3>2, <3>3, <3>4 DEF Mine
  <2>4. PendingShape'
    <3> SUFFICES ASSUME NEW v \in Worker, pc'[v] = "run", NEW c \in Gated, Mine(v, c)',
                        NEW a \in DOMAIN rows, NEW i \in DOMAIN rows,
                        c \in Requests(a), TellsOf(i, c)
                 PROVE  Spoken(a, i)
      BY <1>1, <2>1 DEF PendingShape
    <3>1. CASE v = w
      BY <1>1, <2>3, <3>1, Overlooked DEF TurnAssumption
    <3>2. CASE v # w
      <4>1. pc[v] = "run" /\ (Mine(v, c)' <=> Mine(v, c))
        BY <1>1, <3>2 DEF Others, Mine
      <4> QED BY <4>1 DEF PendingShape
    <3> QED BY <3>1, <3>2
  <2> QED BY <2>2, <2>4
<1> QED BY <1>2, <1>3

(* What is recorded of an approved call is all that is told of it, or the  *)
(* first that was told is hidden.                                          *)
LEMMA ToldRecord ==
    ASSUME TurnInv, ToldOnce, PendingShape, NEW w \in Worker, Record(w)
    PROVE  ToldOnce' /\ PendingShape'
<1> DEFINE n == Len(rows) + 1
           r == Results(got[w])
<1>1. /\ TypeOK /\ ThreadShape /\ Others(w) /\ pc[w] = "run" /\ holder = w
      /\ got[w] \in SUBSET (Call \X Outcome) /\ pc'[w] = "prompt"
  BY OthersStay DEF TurnInv, Record, Step, Shape, TypeOK, Goto
<1>2. r \in Row /\ r.type = "result" /\ r.results = got[w]
  BY <1>1, ResultsRow
<1> HIDE DEF r
<1>3. rows' = Append(rows, r)
  BY DEF Record, r
<1>4. PendingShape'
  <2>1. ASSUME NEW v \in Worker, pc'[v] = "run" PROVE FALSE
    <3>1. v # w /\ pc[v] = "run"
      BY <1>1, <2>1 DEF Others
    <3> QED BY <1>1, <3>1 DEF TurnInv, Shape
  <2> QED BY <2>1 DEF PendingShape
<1>5. /\ n \in Nat /\ rows'[n] = r /\ DOMAIN rows = 1 .. n - 1
      /\ \A k \in DOMAIN rows' : k \in DOMAIN rows \/ k = n
  BY <1>1, <1>2, <1>3, Appended
<1>6. /\ \A k \in DOMAIN rows : Requests(k)' = Requests(k)
      /\ \A m \in Nat : m = n => Requests(m)' = {}
  BY <1>1, <1>2, <1>3, AppendedParts
<1> HIDE DEF n
<1>7. ToldOnce'
  <2> SUFFICES ASSUME NEW c \in Gated, NEW a \in DOMAIN rows', NEW i \in DOMAIN rows',
                      NEW j \in DOMAIN rows',
                      c \in Requests(a)', i < j, TellsOf(i, c)', TellsOf(j, c)'
               PROVE  Spoken(a, i)'
    BY DEF ToldOnce, Spoken
  <2>1. a \in DOMAIN rows /\ c \in Requests(a)
    BY <1>5, <1>6
  <2>2. i \in DOMAIN rows
    <3>1. \A k \in DOMAIN rows' : k \in Nat /\ k <= n
      BY <1>5
    <3> QED BY <1>5, <3>1
  <2>3. TellsOf(i, c) /\ (Spoken(a, i)' <=> Spoken(a, i))
    BY <1>1, <1>2, <1>3, <2>1, <2>2, RowsKept
  <2>4. CASE j \in DOMAIN rows
    <3>1. TellsOf(j, c)
      BY <1>1, <1>2, <1>3, <2>4, RowsKept
    <3> QED BY <2>1, <2>2, <2>3, <2>4, <3>1 DEF ToldOnce, Spoken
  <2>5. CASE j = n
    <3>1. \E o \in Outcome : <<c, o>> \in got[w]
      BY <1>2, <1>5, <2>5 DEF TellsOf
    <3>2. Mine(w, c)
      BY <3>1 DEF Mine
    <3> QED BY <1>1, <2>1, <2>2, <2>3, <3>2 DEF PendingShape
  <2> QED BY <1>5, <2>4, <2>5
<1> QED BY <1>4, <1>7

(* Steps of a worker that is not at run afterwards, or was there before.   *)
LEMMA OwnKeeps ==
    ASSUME NEW w \in Worker, Others(w),
           pc'[w] = "run" => pc[w] = "run" /\ \A c \in Call : Mine(w, c)' => Mine(w, c)
    PROVE  Keeps
<1> SUFFICES ASSUME NEW v \in Worker, v # w
             PROVE  pc'[v] = pc[v] /\ \A c \in Call : Mine(v, c)' => Mine(v, c)
  BY DEF Keeps
<1> QED BY DEF Others, Mine

LEMMA ToldStep ==
    ASSUME TurnInv, ToldOnce, PendingShape, [Next]_vars PROVE ToldOnce' /\ PendingShape'
<1>1. TypeOK /\ ThreadShape /\ \A c \in Gated : c \in Call
  BY DEF TurnInv, TurnAssumption
<1>2. ASSUME NEW w \in Worker, Leave(w) PROVE Keeps
  <2>1. Others(w) /\ pc'[w] = "idle"
    BY <1>1, <1>2, Left
  <2> QED BY <2>1, OwnKeeps
<1>3. ASSUME NEW w \in Worker, NEW l \in Points \ {"run"}, Goto(w, l), Others(w) PROVE Keeps
  <2>1. pc'[w] = l
    BY <1>1, <1>3 DEF Goto, TypeOK
  <2> QED BY <1>3, <2>1, OwnKeeps
<1>4. ASSUME NEW w \in Worker,
             \/ Start(w) \/ Narrow(w) \/ Look(w) \/ Take(w) \/ LockBusy(w)
             \/ Exhausted(w) \/ CutOff(w)
      PROVE  ToldOnce' /\ PendingShape'
  <2>1. Keeps
    BY <1>1, <1>2, <1>3, <1>4, OthersStay DEF Step, Start, Narrow, Look, Take, LockBusy,
           Exhausted, CutOff, Points
  <2>2. UNCHANGED rows
    BY <1>4 DEF Start, Narrow, Look, Take, LockBusy, Exhausted, CutOff
  <2> QED BY <2>1, <2>2, ToldQuiet
<1>5. ASSUME NEW w \in Worker, NEW c \in Call, RunApproved(w, c) \/ Invoke(w, c)
      PROVE  ToldOnce' /\ PendingShape'
  <2>1. UNCHANGED rows /\ c \in todo[w]
    BY <1>5 DEF RunApproved, Invoke
  <2>2. ASSUME NEW o \in Outcome, Did(w, c, o) PROVE Keeps
    <3>1. Others(w) /\ UNCHANGED pc /\ \A d \in Call : Mine(w, d)' => Mine(w, d)
      BY <1>1, <2>1, <2>2, DidParts
    <3> QED BY <3>1, OwnKeeps
  <2>3. Keeps
    BY <1>2, <1>5, <2>2 DEF RunApproved, Invoke, Effect, Unwritten, Outcome
  <2> QED BY <2>1, <2>3, ToldQuiet
<1>6. ASSUME NEW w \in Worker, Prompt(w) PROVE ToldOnce' /\ PendingShape'
  <2>1. Keeps
    BY <1>1, <1>3, <1>6, OthersStay DEF Step, Prompt, Points
  <2> QED BY <1>1, <1>6, <2>1, ToldQuiet, ToldFrame, UserRow DEF Prompt
<1>7. ASSUME NEW w \in Worker, RefuseAll(w) \/ RecordResults(w)
      PROVE  ToldOnce' /\ PendingShape'
  <2>1. Keeps
    BY <1>1, <1>2, <1>3, <1>7, OthersStay DEF Step, RefuseAll, RecordResults, Points
  <2>2. CASE rows' = Append(rows, Results(got[w]))
    <3>1. got[w] \in SUBSET (Call \X Outcome) /\ Shape(w) /\ pc[w] \in {"refuse", "invoke"}
      BY <1>1, <1>7 DEF TypeOK, TurnInv, RefuseAll, RecordResults
    <3>2. ASSUME NEW c \in Gated, Requested(c), NEW o \in Outcome PROVE <<c, o>> \notin got[w]
      BY <1>1, <3>1, <3>2 DEF Shape, Mine
    <3> QED BY <1>1, <2>1, <2>2, <3>1, <3>2, ResultsRow, ToldFrame
  <2> QED BY <1>7, <2>1, <2>2, ToldQuiet DEF RefuseAll, RecordResults
<1>8. ASSUME NEW w \in Worker, NEW S \in SUBSET Call, Respond(w, S) \/ FailedStep(w, S)
      PROVE  ToldOnce' /\ PendingShape'
  <2>1. Keeps
    BY <1>1, <1>2, <1>3, <1>8, OthersStay DEF Step, Respond, FailedStep, Points
  <2>2. PICK Q \in SUBSET S : Answer(w, S, Q)
    BY <1>8 DEF Respond, FailedStep
  <2> DEFINE T == IF Q = {} THEN {} ELSE offered[w]
  <2>3. T \in SUBSET Call
    BY <1>1 DEF TypeOK
  <2> HIDE DEF T
  <2>4. rows' = Append(rows, Reply(S, Q, T)) /\ \A c \in S : ~Called(c)
    BY <2>2 DEF Answer, Called, T
  <2> QED BY <1>1, <2>1, <2>3, <2>4, ReplyRow, ToldFrame
<1>9. ASSUME NEW c \in Call, NEW yes \in BOOLEAN, Decide(c, yes)
      PROVE  ToldOnce' /\ PendingShape'
  <2>1. Keeps
    BY <1>9 DEF Decide, turn, Keeps, Mine
  <2> QED BY <1>1, <1>9, <2>1, DecisionRow, ToldFrame DEF Decide
<1>10. CASE UNCHANGED vars
  <2>1. Keeps
    BY <1>10 DEF vars, turn, Keeps, Mine
  <2> QED BY <1>10, <2>1, ToldQuiet DEF vars
<1> QED BY <1>4, <1>5, <1>6, <1>7, <1>8, <1>9, <1>10, ToldResolve, ToldRecord
       DEF Next, Send, Step

(* ToldOnce: what became of a call that a person was asked about is told   *)
(* once, unless somebody spoke between the request and the first result    *)
(* (runtime.py 648-649, 658-662, 741).                                     *)
THEOREM NotToldAgain == Spec => []ToldOnce
<1>1. Init => ToldOnce /\ PendingShape
  BY DEF Init, ToldOnce, PendingShape
<1>2. TurnInv /\ ToldOnce /\ PendingShape /\ [Next]_vars => (ToldOnce /\ PendingShape)'
  BY ToldStep
<1> QED BY <1>1, <1>2, TurnInvariance, PTL DEF Spec
=============================================================================
