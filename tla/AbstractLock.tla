---------------------------- MODULE AbstractLock ----------------------------
(***************************************************************************)
(* What SessionStore.with_lock promises its callers (stores/base.py): the  *)
(* callbacks that run under one key run one at a time, whichever process   *)
(* or thread runs them, and a process that dies takes its hold with it.    *)
(***************************************************************************)
CONSTANTS
    Thread,     \* the threads that ask for the lock
    Proc,       \* the operating system processes (pids)
    Home,       \* the process each thread runs in
    Nobody      \* the value of holder when no callback is running

VARIABLES
    holder,     \* the thread whose callback is running
    down        \* the processes that are dead

vars == <<holder, down>>

Init == holder = Nobody /\ down = {}

(* A free lock is granted to a thread of a live process. *)
Acquire(t) ==
    /\ holder = Nobody
    /\ Home[t] \notin down
    /\ holder' = t
    /\ UNCHANGED down

(* The callback returns or raises. *)
Release(t) ==
    /\ holder = t
    /\ holder' = Nobody
    /\ UNCHANGED down

(* A process dies, with the callback it may be running. *)
Crash(p) ==
    /\ p \notin down
    /\ down' = down \cup {p}
    /\ holder' = IF holder # Nobody /\ Home[holder] = p THEN Nobody ELSE holder

(* The operating system gives the pid to a new process. *)
Restart(p) ==
    /\ p \in down
    /\ down' = down \ {p}
    /\ UNCHANGED holder

Next ==
    \/ \E t \in Thread : Acquire(t) \/ Release(t)
    \/ \E p \in Proc : Crash(p) \/ Restart(p)

Spec == Init /\ [][Next]_vars
=============================================================================
