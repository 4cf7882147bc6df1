---------------------------- MODULE FileOwnerLock ----------------------------
(***************************************************************************)
(* The cross-process lock of FileSessionStore: a directory published by    *)
(* rename, holding one owner record named by a fresh nonce                 *)
(* (stores/_file_owner_lock.py).  Every file-system call another process   *)
(* can run between is an action of its own.                                *)
(*                                                                         *)
(* One key.  A nonce is 128 random bits, so it never recurs; here a nonce  *)
(* may be drawn again once neither the disk nor any thread mentions it,    *)
(* which no step can tell from a new one.  Author is the pid its record    *)
(* carries.  Candidate directories appear only as the thread that is       *)
(* trying to publish one; wall-clock waiting is the choice between Again   *)
(* and GiveUp.                                                             *)
(***************************************************************************)
EXTENDS Naturals, FiniteSets

CONSTANTS
    Thread,          \* the threads that call with_lock
    Proc,            \* pids
    Nonce,           \* owner nonces
    Home,            \* the pid each thread runs under
    Author,          \* the pid the owner record with this nonce carries
    Identity,        \* the boot and pid-namespace identity it carries
    Space,           \* the boot and pid namespace each process really is in
    Unknown,         \* the identity recorded when none can be established
    Mortal,          \* the processes that may die
    Reused,          \* the dead pids the system may give to a new process
    DieMidRelease,   \* they may die with a release temporary on the disk
    RenameOverEmpty, \* POSIX rename replaces an empty directory, Windows not
    MaxFaults,       \* bound on the refused file-system calls of a behaviour
    NoNonce          \* no nonce

ASSUME LockAssumption ==
    /\ Home \in [Thread -> Proc]
    /\ Author \in [Nonce -> Proc]
    /\ \A n \in Nonce : Identity[n] \in {Unknown, Space[Author[n]]}
    /\ Mortal \subseteq Proc
    /\ Reused \subseteq Proc
    /\ NoNonce \notin Nonce \cup Thread
    /\ RenameOverEmpty \in BOOLEAN
    /\ DieMidRelease \in BOOLEAN
    /\ MaxFaults \in Nat

VARIABLES
    canonical,  \* the lock path: "absent", a "dir"ectory, or a "foreign" file
    owners,     \* nonces with an owner file in the lock directory
    temps,      \* nonces with a release temporary in the lock directory
    released,   \* nonces whose owner file says released
    dead,       \* pids that name no process
    pc,         \* where each thread is in with_file_owner_lock
    mine,       \* the nonce of the thread's own attempt
    job,        \* the nonce of the record it inspects or releases
    mode,       \* why it does: "inspect", "exit" (its own) or "flush"
    sawTemp,    \* threads that unlink a release temporary before the record
    todo,       \* pending releases it still has to retry before a rename
    pend,       \* releases that failed: the process must "release" or "rmdir"
    faults      \* refused file-system calls so far

disk == <<canonical, owners, temps, released>>
local == <<pc, mine, job, mode, sawTemp, todo, pend>>
vars == <<disk, dead, local, faults>>

Inspecting == {"list", "read", "probe"}
Releasing  == {"relRead", "relWrite", "relReplace"}
Cleaning   == {"cleanTemp", "cleanOwner", "cleanDir"}
Busy == Inspecting \cup Releasing \cup Cleaning
Points == Busy \cup {"idle", "flush", "wait", "callback", "dead"}

TypeOK ==
    /\ canonical \in {"absent", "dir", "foreign"}
    /\ owners \subseteq Nonce
    /\ temps \subseteq Nonce
    /\ released \subseteq Nonce
    /\ dead \subseteq Proc
    /\ pc \in [Thread -> Points]
    /\ mine \in [Thread -> Nonce \cup {NoNonce}]
    /\ job \in [Thread -> Nonce \cup {NoNonce}]
    /\ mode \in [Thread -> {"none", "inspect", "exit", "flush"}]
    /\ sawTemp \subseteq Thread
    /\ todo \in [Thread -> SUBSET Nonce]
    /\ pend \in [Nonce -> {"none", "release", "rmdir"}]
    /\ faults \in Nat

Init ==
    /\ canonical \in {"absent", "foreign"}
    /\ owners = {} /\ temps = {} /\ released = {}
    /\ dead = {}
    /\ pc = [t \in Thread |-> "idle"]
    /\ mine = [t \in Thread |-> NoNonce]
    /\ job = [t \in Thread |-> NoNonce]
    /\ mode = [t \in Thread |-> "none"]
    /\ sawTemp = {}
    /\ todo = [t \in Thread |-> {}]
    /\ pend = [n \in Nonce |-> "none"]
    /\ faults = 0

-----------------------------------------------------------------------------
(* A nonce that nothing mentions. *)
Fresh(n) ==
    /\ n \notin owners \cup temps
    /\ pend[n] = "none"
    /\ \A t \in Thread : mine[t] # n /\ job[t] # n /\ n \notin todo[t]

(* secrets.token_hex, for a process p and the identity it could establish: *)
(* nonces are only compared, so which fresh one it is makes no difference. *)
Drawable(p, id) == {n \in Nonce : Fresh(n) /\ Author[n] = p /\ Identity[n] = id}
Draw(p, id) == CHOOSE n \in Nonce : n \in Drawable(p, id)

(* Variant of PendingOf: no call retries them.                             *)
NoneOf(p) == {}

(* The pending releases of a process: _pending is a map in its memory. *)
PendingOf(p) == {n \in Nonce : Author[n] = p /\ pend[n] # "none"}

(* same_identity: an identity that was not established matches nothing. *)
SameRealm(n, m) == Identity[n] # Unknown /\ Identity[n] = Identity[m]

(* Variants of LooksDead: an owner counts as dead without proof, never.    *)
TakenForDead(asker, p) == {TRUE}
NeverDead(asker, p) == {FALSE}

(* pid_is_dead, asked by a process for the pid p: only a pid the kernel    *)
(* does not know is dead, and a pid of another namespace says nothing.     *)
LooksDead(asker, p) == IF Space[p] = Space[asker] THEN {p \in dead} ELSE BOOLEAN

(* Variant of CanRename: a populated directory is replaced too.            *)
RenameOverAny == canonical # "foreign"

(* os.rename(candidate, lock) succeeds. *)
CanRename ==
    \/ canonical = "absent"
    \/ RenameOverEmpty /\ canonical = "dir" /\ owners = {} /\ temps = {}

(* The directory is one _inspect may judge: one record, at most its own    *)
(* release temporary besides.                                              *)
OnlyRecord(n) == owners = {n} /\ temps \subseteq {n}

At(t, l) == pc[t] = l
Goto(t, l) == pc' = [pc EXCEPT ![t] = l]

(* The thread is back outside with_file_owner_lock. *)
Leave(t) ==
    /\ Goto(t, "idle")
    /\ mine' = [mine EXCEPT ![t] = NoNonce]
    /\ job' = [job EXCEPT ![t] = NoNonce]
    /\ mode' = [mode EXCEPT ![t] = "none"]
    /\ sawTemp' = sawTemp \ {t}
    /\ todo' = [todo EXCEPT ![t] = {}]

(* The thread drops the record it was busy with and goes to l. *)
Drop(t, l) ==
    /\ Goto(t, l)
    /\ job' = [job EXCEPT ![t] = NoNonce]
    /\ mode' = [mode EXCEPT ![t] = "none"]
    /\ sawTemp' = sawTemp \ {t}
    /\ UNCHANGED mine

(* The inspection, the flush of one pending release or the thread's own    *)
(* release returns.                                                        *)
Return(t) ==
    \/ /\ mode[t] = "inspect"
       /\ Drop(t, "wait")
       /\ UNCHANGED <<todo, pend>>
    \/ /\ mode[t] = "flush"
       /\ Drop(t, "flush")
       /\ todo' = [todo EXCEPT ![t] = @ \ {job[t]}]
       /\ pend' = [pend EXCEPT ![job[t]] = "none"]
    \/ /\ mode[t] = "exit"
       /\ Leave(t)
       /\ UNCHANGED pend

(* Variant of Raise: a failed release is not remembered.                   *)
RaiseForgetting(t) ==
    \/ /\ mode[t] = "inspect"
       /\ Drop(t, "wait")
       /\ UNCHANGED <<todo, pend>>
    \/ /\ mode[t] \in {"flush", "exit"}
       /\ Leave(t)
       /\ UNCHANGED pend

(* It raises instead.  An inspection reports a refused call as "held"; a   *)
(* release becomes or stays pending, and remembers that its record is gone.*)
Raise(t) ==
    \/ /\ mode[t] = "inspect"
       /\ Drop(t, "wait")
       /\ UNCHANGED <<todo, pend>>
    \/ /\ mode[t] \in {"flush", "exit"}
       /\ Leave(t)
       /\ pend' = [pend EXCEPT ![job[t]] =
                     IF pc[t] = "cleanDir" THEN "rmdir" ELSE "release"]

-----------------------------------------------------------------------------
(* with_file_owner_lock is called: a fresh nonce names the candidate.      *)
Begin(t) ==
    /\ At(t, "idle")
    /\ \E id \in {Unknown, Space[Home[t]]} :
        /\ Drawable(Home[t], id) # {}
        /\ mine' = [mine EXCEPT ![t] = Draw(Home[t], id)]
    /\ Goto(t, "flush")
    /\ todo' = [todo EXCEPT ![t] = PendingOf(Home[t])]
    /\ UNCHANGED <<disk, dead, job, mode, sawTemp, pend, faults>>

(* Variant of Flush: without the gate of the pending release.              *)
FlushUngated(t) ==
    /\ At(t, "flush")
    /\ \E n \in todo[t] :
        \/ /\ pend[n] = "none"
           /\ todo' = [todo EXCEPT ![t] = @ \ {n}]
           /\ UNCHANGED <<pc, job, mode>>
        \/ /\ pend[n] # "none"
           /\ job' = [job EXCEPT ![t] = n]
           /\ mode' = [mode EXCEPT ![t] = "flush"]
           /\ Goto(t, IF pend[n] = "rmdir" THEN "cleanDir" ELSE "relRead")
           /\ UNCHANGED todo
    /\ UNCHANGED <<disk, dead, mine, sawTemp, pend, faults>>

(* _flush_pending takes up one pending release, under its gate; one that   *)
(* another thread has finished meanwhile is skipped.                       *)
Flush(t) ==
    /\ At(t, "flush")
    /\ \E n \in todo[t] :
        /\ \A u \in Thread : mode[u] = "flush" => job[u] # n
        /\ \/ /\ pend[n] = "none"
              /\ todo' = [todo EXCEPT ![t] = @ \ {n}]
              /\ UNCHANGED <<pc, job, mode>>
           \/ /\ pend[n] # "none"
              /\ job' = [job EXCEPT ![t] = n]
              /\ mode' = [mode EXCEPT ![t] = "flush"]
              /\ Goto(t, IF pend[n] = "rmdir" THEN "cleanDir" ELSE "relRead")
              /\ UNCHANGED todo
    /\ UNCHANGED <<disk, dead, mine, sawTemp, pend, faults>>

(* lstat finds a regular file, a link or a device: session_locked. *)
Refuse(t) ==
    /\ At(t, "flush") /\ todo[t] = {}
    /\ canonical = "foreign"
    /\ Leave(t)
    /\ UNCHANGED <<disk, dead, pend, faults>>

(* The rename publishes the directory and its record at once; the callback *)
(* starts.                                                                 *)
Publish(t) ==
    /\ At(t, "flush") /\ todo[t] = {}
    /\ CanRename
    /\ canonical' = "dir"
    /\ owners' = {mine[t]}
    /\ temps' = {}
    /\ Goto(t, "callback")
    /\ UNCHANGED <<released, dead, mine, job, mode, sawTemp, todo, pend, faults>>

(* The rename is refused: inspect who holds the lock. *)
Blocked(t) ==
    /\ At(t, "flush") /\ todo[t] = {}
    /\ canonical = "dir" /\ ~CanRename
    /\ Goto(t, "list")
    /\ mode' = [mode EXCEPT ![t] = "inspect"]
    /\ UNCHANGED <<disk, dead, mine, job, sawTemp, todo, pend, faults>>

(* _inspect lists the directory. *)
List(t) ==
    /\ At(t, "list")
    /\ \/ \E n \in Nonce :
            /\ canonical = "dir" /\ OnlyRecord(n)
            /\ job' = [job EXCEPT ![t] = n]
            /\ sawTemp' = IF n \in temps THEN sawTemp \cup {t} ELSE sawTemp
            /\ Goto(t, "read")
            /\ UNCHANGED <<mine, mode, todo, pend>>
       \/ /\ ~(canonical = "dir" /\ \E n \in Nonce : OnlyRecord(n))
          /\ Return(t)
    /\ UNCHANGED <<disk, dead, faults>>

CleanPoint(t) == IF t \in sawTemp THEN "cleanTemp" ELSE "cleanOwner"

(* Variant of Read: a record of any realm is judged.                       *)
ReadAnyRealm(t) ==
    /\ At(t, "read")
    /\ IF job[t] \in owners
       THEN /\ Goto(t, IF job[t] \in released THEN CleanPoint(t) ELSE "probe")
            /\ UNCHANGED <<mine, job, mode, sawTemp, todo, pend>>
       ELSE Return(t)
    /\ UNCHANGED <<disk, dead, faults>>

(* It reads the record it saw: gone, foreign, released, or to be probed.   *)
Read(t) ==
    /\ At(t, "read")
    /\ IF job[t] \in owners /\ SameRealm(job[t], mine[t])
       THEN /\ Goto(t, IF job[t] \in released THEN CleanPoint(t) ELSE "probe")
            /\ UNCHANGED <<mine, job, mode, sawTemp, todo, pend>>
       ELSE Return(t)
    /\ UNCHANGED <<disk, dead, faults>>

(* The pid of an unreleased record is probed. *)
Probe(t) ==
    /\ At(t, "probe")
    /\ \E gone \in LooksDead(Home[t], Author[job[t]]) :
        IF gone
        THEN /\ Goto(t, CleanPoint(t))
             /\ UNCHANGED <<mine, job, mode, sawTemp, todo, pend>>
        ELSE Return(t)
    /\ UNCHANGED <<disk, dead, faults>>

(* clean_owner: the release temporary first, then the record by its name,  *)
(* and the directory only if this thread unlinked the record.              *)
CleanTemp(t) ==
    /\ At(t, "cleanTemp")
    /\ temps' = temps \ {job[t]}
    /\ Goto(t, "cleanOwner")
    /\ UNCHANGED <<canonical, owners, released, dead, mine, job, mode, sawTemp,
                   todo, pend, faults>>

CleanOwner(t) ==
    /\ At(t, "cleanOwner")
    /\ IF job[t] \in owners
       THEN /\ owners' = owners \ {job[t]}
            /\ released' = released \ {job[t]}
            /\ Goto(t, "cleanDir")
            /\ UNCHANGED <<mine, job, mode, sawTemp, todo, pend>>
       ELSE Return(t) /\ UNCHANGED <<owners, released>>
    /\ UNCHANGED <<canonical, temps, dead, faults>>

(* Variant of CleanDir: the directory goes with whatever is in it.         *)
CleanTree(t) ==
    /\ At(t, "cleanDir")
    /\ canonical' = IF canonical = "dir" THEN "absent" ELSE canonical
    /\ owners' = {} /\ temps' = {} /\ released' = {}
    /\ Return(t)
    /\ UNCHANGED <<dead, faults>>

(* rmdir is not recursive: a populated directory survives it. *)
CleanDir(t) ==
    /\ At(t, "cleanDir")
    /\ canonical' = IF canonical = "dir" /\ owners = {} /\ temps = {}
                    THEN "absent" ELSE canonical
    /\ Return(t)
    /\ UNCHANGED <<owners, temps, released, dead, faults>>

(* The inspection has come back "held" or "retry": try again, or give up   *)
(* at the deadline, which removes the candidate.                           *)
Again(t) ==
    /\ At(t, "wait")
    /\ Goto(t, "flush")
    /\ todo' = [todo EXCEPT ![t] = PendingOf(Home[t])]
    /\ UNCHANGED <<disk, dead, mine, job, mode, sawTemp, pend, faults>>

GiveUp(t) ==
    /\ At(t, "wait")
    /\ Leave(t)
    /\ UNCHANGED <<disk, dead, pend, faults>>

(* The callback returns or raises; the release of its record starts. *)
Exit(t) ==
    /\ At(t, "callback")
    /\ Goto(t, "relRead")
    /\ job' = [job EXCEPT ![t] = mine[t]]
    /\ mode' = [mode EXCEPT ![t] = "exit"]
    /\ UNCHANGED <<disk, dead, mine, sawTemp, todo, pend, faults>>

(* _release reads its record: gone, already released, or to be rewritten.  *)
RelRead(t) ==
    /\ At(t, "relRead")
    /\ IF job[t] \in owners
       THEN /\ Goto(t, IF job[t] \in released THEN "cleanTemp" ELSE "relWrite")
            /\ UNCHANGED <<mine, job, mode, sawTemp, todo, pend>>
       ELSE Return(t)
    /\ UNCHANGED <<disk, dead, faults>>

(* The released record is written beside the current one ... *)
RelWrite(t) ==
    /\ At(t, "relWrite")
    /\ IF canonical = "dir"
       THEN /\ temps' = temps \cup {job[t]}
            /\ Goto(t, "relReplace")
            /\ UNCHANGED <<mine, job, mode, sawTemp, todo, pend>>
       ELSE Raise(t) /\ UNCHANGED temps
    /\ UNCHANGED <<canonical, owners, released, dead, faults>>

(* ... and replaces it atomically. *)
RelReplace(t) ==
    /\ At(t, "relReplace")
    /\ IF job[t] \in temps
       THEN /\ temps' = temps \ {job[t]}
            /\ owners' = owners \cup {job[t]}
            /\ released' = released \cup {job[t]}
            /\ Goto(t, "cleanOwner")
            /\ UNCHANGED <<mine, job, mode, sawTemp, todo, pend>>
       ELSE Raise(t) /\ UNCHANGED <<owners, temps, released>>
    /\ UNCHANGED <<canonical, dead, faults>>

(* A call is refused for good: a reader holds the file open on Windows, or *)
(* permission is denied, five times in a row where the code retries.       *)
Fault(t) ==
    /\ pc[t] \in Busy
    /\ faults < MaxFaults
    /\ faults' = faults + 1
    /\ Raise(t)
    /\ UNCHANGED <<disk, dead>>

(* A process dies: its threads and its pending releases are gone, the disk *)
(* stays as it is.                                                         *)
Crash(p) ==
    /\ p \in Mortal \ dead
    /\ DieMidRelease \/ \A n \in temps : Author[n] # p
    /\ dead' = dead \cup {p}
    /\ pc' = [t \in Thread |-> IF Home[t] = p THEN "dead" ELSE pc[t]]
    /\ mine' = [t \in Thread |-> IF Home[t] = p THEN NoNonce ELSE mine[t]]
    /\ job' = [t \in Thread |-> IF Home[t] = p THEN NoNonce ELSE job[t]]
    /\ mode' = [t \in Thread |-> IF Home[t] = p THEN "none" ELSE mode[t]]
    /\ sawTemp' = {t \in sawTemp : Home[t] # p}
    /\ todo' = [t \in Thread |-> IF Home[t] = p THEN {} ELSE todo[t]]
    /\ pend' = [n \in Nonce |-> IF Author[n] = p THEN "none" ELSE pend[n]]
    /\ UNCHANGED <<disk, faults>>

(* The pid names a new process. *)
Restart(p) ==
    /\ p \in Reused \cap dead
    /\ dead' = dead \ {p}
    /\ pc' = [t \in Thread |-> IF Home[t] = p THEN "idle" ELSE pc[t]]
    /\ UNCHANGED <<disk, mine, job, mode, sawTemp, todo, pend, faults>>

Acquiring(t) ==
    \/ Begin(t) \/ Flush(t) \/ Refuse(t) \/ Publish(t) \/ Blocked(t)
    \/ Again(t) \/ GiveUp(t)
Inspection(t) == List(t) \/ Read(t) \/ Probe(t)
Cleanup(t) == CleanTemp(t) \/ CleanOwner(t) \/ CleanDir(t)
Release(t) == Exit(t) \/ RelRead(t) \/ RelWrite(t) \/ RelReplace(t)

Step(t) == Acquiring(t) \/ Inspection(t) \/ Cleanup(t) \/ Release(t)

Next ==
    \/ \E t \in Thread : Step(t) \/ Fault(t)
    \/ \E p \in Proc : Crash(p) \/ Restart(p)

Spec == Init /\ [][Next]_vars

(* The operating system schedules every live thread, callbacks end, and    *)
(* threads keep asking for the lock.                                       *)
FairSpec == Spec /\ \A t \in Thread : WF_vars(Step(t))

-----------------------------------------------------------------------------
(* What the lock must do. *)

InCallback(t) == pc[t] = "callback"

(* No two callbacks run at once: with_lock is exclusive across threads,    *)
(* processes, crashes, pid reuse and refused file-system calls.            *)
MutualExclusion ==
    \A t, u \in Thread : InCallback(t) /\ InCallback(u) => t = u

(* Nobody takes the record of a running callback away: until the holder    *)
(* itself starts to release, its record is the only one in the directory   *)
(* and does not say released.                                              *)
HolderKeepsRecord ==
    \A t \in Thread : InCallback(t) =>
        canonical = "dir" /\ owners = {mine[t]} /\ mine[t] \notin released

(* Unknown or foreign identities never authorise recovery: a record is     *)
(* only ever removed by a thread of its own process or of the same         *)
(* established realm.                                                      *)
OnlyRealmRecovers ==
    [][\A n \in owners \ owners' : \E t \in Thread :
          /\ pc[t] = "cleanOwner" /\ pc'[t] = "cleanDir" /\ job[t] = n
          /\ (Author[n] = Home[t] \/ SameRealm(n, mine[t]))]_vars

(* While no pid is reused, every unreleased record of a live process has   *)
(* somebody bound to release it: the thread that holds it, or an entry of  *)
(* the process's pending map.  No failure of a file-system call leaks one. *)
RecordAccountedFor ==
    \A n \in owners \ released : Author[n] \notin dead =>
        pend[n] # "none" \/ \E t \in Thread : mine[t] = n

(* A record the process still owes a release is retried until it is gone.  *)
PendingRetired == \A n \in Nonce : pend[n] # "none" ~> pend[n] = "none"

(* Again and again the lock can be taken, or a live thread is using it:    *)
(* the death of a holder never wedges the key.  (A foreign file at the     *)
(* lock path is for the operator to remove.)                               *)
LockUsable ==
    []<>(canonical = "foreign" \/ CanRename \/ \E t \in Thread : InCallback(t))

-----------------------------------------------------------------------------
(* Why it holds: the inductive invariant.                                  *)

(* A lock path that is no directory holds nothing, and at most one record  *)
(* is ever published.                                                      *)
DiskShape ==
    /\ canonical # "dir" => owners = {} /\ temps = {}
    /\ released \subseteq owners
    /\ \A m, n \in owners : m = n

(* What a thread is busy with, and in whose name.                          *)
ThreadShape ==
    \A t \in Thread :
        /\ pc[t] = "dead" <=> Home[t] \in dead
        /\ mine[t] = NoNonce <=> pc[t] \in {"idle", "dead"}
        /\ mine[t] # NoNonce => Author[mine[t]] = Home[t]
        /\ mode[t] = "none" <=> pc[t] \notin Busy
        /\ mode[t] = "none" => job[t] = NoNonce
        /\ mode[t] = "inspect" => pc[t] \notin Releasing
        /\ mode[t] \in {"exit", "flush"} => pc[t] \notin Inspecting
        /\ mode[t] # "none" /\ pc[t] # "list" => job[t] # NoNonce
        /\ mode[t] = "exit" => job[t] = mine[t]
        /\ mode[t] = "flush" => pend[job[t]] # "none" /\ Author[job[t]] = Home[t]
        /\ \A n \in todo[t] : Author[n] = Home[t]
        /\ mode[t] = "inspect" /\ pc[t] \notin {"list", "read"} =>
              SameRealm(job[t], mine[t])

(* One thread, or one pending release, answers for a nonce, and its        *)
(* process is alive.                                                       *)
Claims ==
    /\ \A t, u \in Thread : mine[t] = mine[u] /\ mine[t] # NoNonce => t = u
    /\ \A t, u \in Thread :
          mode[t] = "flush" /\ mode[u] = "flush" /\ job[t] = job[u] => t = u
    /\ \A n \in Nonce : pend[n] # "none" =>
          Author[n] \notin dead /\ \A t \in Thread : mine[t] # n

Unclaimed(n) == pend[n] = "none" /\ \A t \in Thread : mine[t] # n

(* The thread has not published its record yet ... *)
Unpublished(t) == pc[t] \in {"flush", "wait"} \/ mode[t] \in {"inspect", "flush"}

(* ... so nobody else can know its nonce.                                  *)
CandidatePrivate ==
    \A t \in Thread : Unpublished(t) =>
        /\ mine[t] \notin owners \cup temps
        /\ pend[mine[t]] = "none"
        /\ \A u \in Thread : job[u] # mine[t] /\ mine[t] \notin todo[u]

(* A record an inspector has decided to remove, if it is still there, says *)
(* released or has nobody left to answer for it.                           *)
CleanupAuthority ==
    \A t \in Thread :
        pc[t] \in Cleaning /\ mode[t] = "inspect" /\ job[t] \in owners =>
            job[t] \in released \/ Unclaimed(job[t])

(* A thread about to rewrite its record still has it in place.             *)
RewriterKeepsRecord ==
    \A t \in Thread : pc[t] \in {"relWrite", "relReplace"} =>
        canonical = "dir" /\ owners = {job[t]} /\ job[t] \notin released

IInv ==
    /\ TypeOK /\ DiskShape /\ ThreadShape /\ Claims /\ CandidatePrivate
    /\ CleanupAuthority /\ RewriterKeepsRecord /\ HolderKeepsRecord

-----------------------------------------------------------------------------
(* The abstract lock this protocol implements. *)
Nobody == NoNonce
Holder ==
    IF \E t \in Thread : InCallback(t)
    THEN CHOOSE t \in Thread : InCallback(t)
    ELSE Nobody
Abstract == INSTANCE AbstractLock WITH holder <- Holder, down <- dead
ExclusiveCallbacks == Abstract!Spec
=============================================================================
