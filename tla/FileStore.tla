----------------------------- MODULE FileStore -----------------------------
(***************************************************************************)
(* One key of a FileSessionStore (stores/file.py): get, put and forget of  *)
(* workers that share the directory, one action per file-system call.      *)
(* None of the three takes the lock.                                       *)
(*                                                                         *)
(* Temporaries of distinct puts have distinct names.  On Windows a         *)
(* replacement may be refused while somebody reads the target, and is      *)
(* retried until a deadline.                                               *)
(***************************************************************************)
EXTENDS Naturals

CONSTANTS
    Worker,
    Payload,
    TTLs,       \* seconds to live, or Never
    Never,      \* a document without an expiry
    MaxClock,   \* bound on the clock
    None        \* no document

VARIABLES
    file,       \* the document at the key's path: [payload, ends], or None
    temp,       \* the temporary of each worker
    seen,       \* the document that each worker's get has read
    at,         \* where each worker is in its operation
    clock,
    kept        \* the document put without a TTL since the last put or forget

vars == <<file, temp, seen, at, clock, kept>>

Init ==
    /\ file = None
    /\ temp = [w \in Worker |-> None]
    /\ seen = [w \in Worker |-> None]
    /\ at = [w \in Worker |-> "idle"]
    /\ clock = 0
    /\ kept = None

-----------------------------------------------------------------------------
Over(document) == document.ends # Never /\ document.ends <= clock

(* get: the text of the file, if there is one. *)
Read(w) ==
    /\ at[w] = "idle"
    /\ file # None
    /\ seen' = [seen EXCEPT ![w] = file]
    /\ at' = [at EXCEPT ![w] = "judging"]
    /\ UNCHANGED <<file, temp, clock, kept>>

(* What it has read is returned, or is over and will be removed.           *)
Judge(w) ==
    /\ at[w] = "judging"
    /\ at' = [at EXCEPT ![w] = IF Over(seen[w]) THEN "purging" ELSE "idle"]
    /\ UNCHANGED <<file, temp, seen, clock, kept>>

(* The forget of get: whatever is at the path by now.                      *)
Purge(w) ==
    /\ at[w] = "purging"
    /\ file' = None
    /\ at' = [at EXCEPT ![w] = "idle"]
    /\ UNCHANGED <<temp, seen, clock, kept>>

(* put: the whole document, to a temporary. *)
Write(w) ==
    /\ at[w] = "idle"
    /\ \E payload \in Payload, ttl \in TTLs :
          temp' = [temp EXCEPT ![w] =
              [payload |-> payload, ends |-> IF ttl = Never THEN Never ELSE clock + ttl]]
    /\ at' = [at EXCEPT ![w] = "replacing"]
    /\ UNCHANGED <<file, seen, clock, kept>>

Replace(w) ==
    /\ at[w] = "replacing"
    /\ file' = temp[w]
    /\ kept' = IF temp[w].ends = Never THEN temp[w] ELSE None
    /\ temp' = [temp EXCEPT ![w] = None]
    /\ at' = [at EXCEPT ![w] = "idle"]
    /\ UNCHANGED <<seen, clock>>

(* The replacement is refused to the end: put raises.                      *)
GiveUp(w) ==
    /\ at[w] = "replacing"
    /\ temp' = [temp EXCEPT ![w] = None]
    /\ at' = [at EXCEPT ![w] = "idle"]
    /\ UNCHANGED <<file, seen, clock, kept>>

Forget(w) ==
    /\ at[w] = "idle"
    /\ file' = None
    /\ kept' = None
    /\ UNCHANGED <<temp, seen, at, clock>>

(* A process killed anywhere leaves its temporary behind.                  *)
Die(w) ==
    /\ at[w] # "dead"
    /\ at' = [at EXCEPT ![w] = "dead"]
    /\ UNCHANGED <<file, temp, seen, clock, kept>>

Tick ==
    /\ clock < MaxClock
    /\ clock' = clock + 1
    /\ UNCHANGED <<file, temp, seen, at, kept>>

WorkerStep(w) ==
    \/ Read(w) \/ Judge(w) \/ Purge(w)
    \/ Write(w) \/ Replace(w) \/ GiveUp(w)
    \/ Forget(w) \/ Die(w)

Next == Tick \/ \E w \in Worker : WorkerStep(w)

Spec == Init /\ [][Next]_vars

-----------------------------------------------------------------------------
(* "ttl_seconds of None keeps the payload until it is removed"             *)
(* (stores/base.py:60): once put has returned, the document is there until *)
(* somebody overwrites or forgets it.  The purge of an older document that *)
(* get has seen expire (file.py 79-82) breaks this.                        *)
PutKept == kept # None => file = kept
=============================================================================
