------------------------ MODULE FileOwnerLockProofs ------------------------
(***************************************************************************)
(* Why the file owner lock is exclusive, for any number of threads,        *)
(* processes, crashes, reused pids and refused file-system calls.          *)
(*                                                                         *)
(* IInv is inductive: it holds at first (InitIInv) and every action keeps  *)
(* it (one lemma per action, one step per part of IInv).  The theorems at  *)
(* the end follow from it.                                                 *)
(***************************************************************************)
EXTENDS FileOwnerLock, TLAPS

USE LockAssumption

(* The part of TypeOK that Return and Raise may change.                    *)
LocalTypeOK ==
    /\ pc \in [Thread -> Points]
    /\ mine \in [Thread -> Nonce \cup {NoNonce}]
    /\ job \in [Thread -> Nonce \cup {NoNonce}]
    /\ mode \in [Thread -> {"none", "inspect", "exit", "flush"}]
    /\ sawTemp \subseteq Thread
    /\ todo \in [Thread -> SUBSET Nonce]
    /\ pend \in [Nonce -> {"none", "release", "rmdir"}]

(* An operation that returns leaves its thread well-formed.                *)
LEMMA ReturnType ==
  ASSUME TypeOK, ThreadShape, NEW t \in Thread, Return(t)
  PROVE  LocalTypeOK'
  <1> USE DEF LocalTypeOK, TypeOK, Drop, Leave, Goto, Points
  <1>1. CASE mode[t] = "inspect"
    BY <1>1 DEF Return
  <1>2. CASE mode[t] = "flush"
    <2>1. job[t] \in Nonce /\ todo[t] \subseteq Nonce
      BY <1>2 DEF ThreadShape, Inspecting
    <2>2. todo' \in [Thread -> SUBSET Nonce]
      BY <1>2, <2>1 DEF Return
    <2>3. pend' \in [Nonce -> {"none", "release", "rmdir"}]
      BY <1>2, <2>1 DEF Return
    <2> QED BY <1>2, <2>2, <2>3 DEF Return
  <1>3. CASE mode[t] = "exit"
    BY <1>3 DEF Return
  <1> QED BY <1>1, <1>2, <1>3 DEF Return

(* So does one that raises, and the pending entry it leaves is one of two. *)
LEMMA RaiseType ==
  ASSUME TypeOK, ThreadShape, NEW t \in Thread, Raise(t)
  PROVE  LocalTypeOK'
  <1> USE DEF LocalTypeOK, TypeOK, Drop, Leave, Goto, Points
  <1>1. CASE mode[t] = "inspect"
    BY <1>1 DEF Raise
  <1>2. CASE mode[t] \in {"flush", "exit"}
    <2>1. job[t] \in Nonce
      BY <1>2 DEF ThreadShape, Inspecting
    <2> QED BY <1>2, <2>1 DEF Raise
  <1> QED BY <1>1, <1>2 DEF Raise

-----------------------------------------------------------------------------
(* The invariant holds at first: nobody holds, owes or inspects anything.  *)
LEMMA InitIInv == Init => IInv
  BY DEF Init, IInv, TypeOK, DiskShape, ThreadShape, Claims, CandidatePrivate,
     CleanupAuthority, RewriterKeepsRecord, HolderKeepsRecord, InCallback,
     Unpublished, Points, Busy, Inspecting, Releasing, Cleaning

(* A new attempt draws a nonce nothing mentions.                           *)
LEMMA BeginStep ==
  ASSUME IInv, NEW t \in Thread, Begin(t)
  PROVE  IInv'
  <1>1. TypeOK'
    BY DEF Begin, disk, Fresh, Drawable, Draw, PendingOf, Goto, IInv, TypeOK,
       Points, Busy, Cleaning
  <1>2. DiskShape'
    BY DEF Begin, disk, Goto, IInv, TypeOK, DiskShape
  <1>3. ThreadShape'
    BY DEF Begin, Fresh, Drawable, Draw, PendingOf, At, Goto, IInv, TypeOK,
       ThreadShape, Busy, Inspecting, Releasing, Cleaning
  <1>4. Claims'
    BY DEF Begin, Fresh, Drawable, Draw, Goto, IInv, TypeOK, Claims
  <1>5. CandidatePrivate'
    BY DEF Begin, disk, Fresh, Drawable, Draw, PendingOf, Goto, IInv, TypeOK,
       CandidatePrivate, Unpublished
  <1>6. CleanupAuthority'
    BY DEF Begin, disk, Fresh, Drawable, Draw, Goto, IInv, TypeOK,
       CleanupAuthority, Unclaimed, Busy, Cleaning
  <1>7. RewriterKeepsRecord'
    BY DEF Begin, disk, Goto, IInv, TypeOK, RewriterKeepsRecord
  <1>8. HolderKeepsRecord'
    BY DEF Begin, disk, Goto, IInv, TypeOK, HolderKeepsRecord, InCallback
  <1> QED BY <1>1, <1>2, <1>3, <1>4, <1>5, <1>6, <1>7, <1>8 DEF IInv

(* A thread takes up a pending release under its gate.                     *)
LEMMA FlushStep ==
  ASSUME IInv, NEW t \in Thread, Flush(t)
  PROVE  IInv'
  <1>1. TypeOK'
    BY DEF Flush, disk, Goto, IInv, TypeOK, Points, Busy, Releasing, Cleaning
  <1>2. DiskShape'
    BY DEF Flush, disk, Goto, IInv, TypeOK, DiskShape
  <1>3. ThreadShape'
    BY DEF Flush, At, Goto, IInv, TypeOK, ThreadShape, Busy, Inspecting,
       Releasing, Cleaning
  <1>4. Claims'
    BY DEF Flush, Goto, IInv, TypeOK, Claims
  <1>5. CandidatePrivate'
    BY DEF Flush, disk, At, Goto, IInv, TypeOK, CandidatePrivate, Unpublished
  <1>6. CleanupAuthority'
    BY DEF Flush, disk, Goto, IInv, TypeOK, CleanupAuthority, Unclaimed
  <1>7. RewriterKeepsRecord'
    BY DEF Flush, disk, Goto, IInv, TypeOK, RewriterKeepsRecord
  <1>8. HolderKeepsRecord'
    BY DEF Flush, disk, Goto, IInv, TypeOK, HolderKeepsRecord, InCallback
  <1> QED BY <1>1, <1>2, <1>3, <1>4, <1>5, <1>6, <1>7, <1>8 DEF IInv

(* A thread that meets a foreign lock path leaves.                         *)
LEMMA RefuseStep ==
  ASSUME IInv, NEW t \in Thread, Refuse(t)
  PROVE  IInv'
  <1>1. TypeOK'
    BY DEF Refuse, disk, Leave, Goto, IInv, TypeOK, Points, Busy, Cleaning
  <1>2. DiskShape'
    BY DEF Refuse, disk, Goto, IInv, TypeOK, DiskShape
  <1>3. ThreadShape'
    BY DEF Refuse, Leave, At, Goto, IInv, TypeOK, ThreadShape, Busy,
       Inspecting, Releasing, Cleaning
  <1>4. Claims'
    BY DEF Refuse, Leave, Goto, IInv, TypeOK, Claims
  <1>5. CandidatePrivate'
    BY DEF Refuse, disk, Leave, Goto, IInv, TypeOK, CandidatePrivate,
       Unpublished, ThreadShape, Busy, Inspecting, Releasing, Cleaning
  <1>6. CleanupAuthority'
    BY DEF Refuse, disk, Leave, Goto, IInv, TypeOK, CleanupAuthority,
       Unclaimed
  <1>7. RewriterKeepsRecord'
    BY DEF Refuse, Leave, Goto, IInv, TypeOK, RewriterKeepsRecord
  <1>8. HolderKeepsRecord'
    BY DEF Refuse, Leave, Goto, IInv, TypeOK, HolderKeepsRecord, InCallback
  <1> QED BY <1>1, <1>2, <1>3, <1>4, <1>5, <1>6, <1>7, <1>8 DEF IInv

(* A published record is the only one, and its holder the only holder.     *)
LEMMA PublishStep ==
  ASSUME IInv, NEW t \in Thread, Publish(t)
  PROVE  IInv'
  <1>1. TypeOK'
    BY DEF Publish, At, Goto, IInv, TypeOK, Points, Busy, Cleaning,
       ThreadShape
  <1>2. DiskShape'
    BY DEF Publish, CanRename, Goto, IInv, TypeOK, DiskShape
  <1>3. ThreadShape'
    BY DEF Publish, At, Goto, IInv, TypeOK, ThreadShape, Busy, Inspecting,
       Releasing, Cleaning
  <1>4. Claims'
    BY DEF Publish, Goto, IInv, TypeOK, Claims
  <1>5. CandidatePrivate'
    BY DEF Publish, At, Goto, IInv, TypeOK, CandidatePrivate, Unpublished,
       ThreadShape, Busy, Inspecting, Releasing, Cleaning, Claims
  <1>6. CleanupAuthority'
    BY DEF Publish, At, Goto, IInv, TypeOK, CleanupAuthority, Unclaimed, Busy,
       Cleaning, CandidatePrivate, Unpublished
  <1>7. RewriterKeepsRecord'
    BY DEF Publish, CanRename, Goto, IInv, TypeOK, RewriterKeepsRecord
  <1>8. HolderKeepsRecord'
    <2> USE DEF Publish, disk, CanRename, At, Goto, Busy, Inspecting,
       Releasing, Cleaning
    <2>1. mine[t] \notin released
      BY DEF IInv, TypeOK, DiskShape, CandidatePrivate, Unpublished
    <2>2. ASSUME NEW u \in Thread, u # t PROVE ~InCallback(u)
      BY <2>2 DEF IInv, HolderKeepsRecord
    <2> QED BY <2>1, <2>2 DEF IInv, TypeOK, HolderKeepsRecord, InCallback
  <1> QED BY <1>1, <1>2, <1>3, <1>4, <1>5, <1>6, <1>7, <1>8 DEF IInv

(* A refused rename starts an inspection.                                  *)
LEMMA BlockedStep ==
  ASSUME IInv, NEW t \in Thread, Blocked(t)
  PROVE  IInv'
  <1>1. TypeOK'
    BY DEF Blocked, disk, Goto, IInv, TypeOK, Points, Busy, Inspecting,
       Cleaning
  <1>2. DiskShape'
    BY DEF Blocked, disk, Goto, IInv, TypeOK, DiskShape
  <1>3. ThreadShape'
    BY DEF Blocked, At, Goto, IInv, TypeOK, ThreadShape, Busy, Inspecting,
       Releasing, Cleaning
  <1>4. Claims'
    BY DEF Blocked, Goto, IInv, TypeOK, Claims
  <1>5. CandidatePrivate'
    BY DEF Blocked, disk, At, Goto, IInv, TypeOK, CandidatePrivate,
       Unpublished
  <1>6. CleanupAuthority'
    BY DEF Blocked, disk, Goto, IInv, TypeOK, CleanupAuthority, Unclaimed,
       Busy, Cleaning
  <1>7. RewriterKeepsRecord'
    BY DEF Blocked, disk, Goto, IInv, TypeOK, RewriterKeepsRecord
  <1>8. HolderKeepsRecord'
    BY DEF Blocked, disk, Goto, IInv, TypeOK, HolderKeepsRecord, InCallback
  <1> QED BY <1>1, <1>2, <1>3, <1>4, <1>5, <1>6, <1>7, <1>8 DEF IInv

(* A waiting thread tries again, with the releases pending by then.        *)
LEMMA AgainStep ==
  ASSUME IInv, NEW t \in Thread, Again(t)
  PROVE  IInv'
  <1>1. TypeOK'
    BY DEF Again, disk, PendingOf, Goto, IInv, TypeOK, Points, Busy, Cleaning
  <1>2. DiskShape'
    BY DEF Again, disk, Goto, IInv, TypeOK, DiskShape
  <1>3. ThreadShape'
    BY DEF Again, PendingOf, At, Goto, IInv, TypeOK, ThreadShape, Busy,
       Inspecting, Releasing, Cleaning
  <1>4. Claims'
    BY DEF Again, Goto, IInv, TypeOK, Claims
  <1>5. CandidatePrivate'
    BY DEF Again, disk, PendingOf, At, Goto, IInv, TypeOK, CandidatePrivate,
       Unpublished
  <1>6. CleanupAuthority'
    BY DEF Again, disk, Goto, IInv, TypeOK, CleanupAuthority, Unclaimed, Busy,
       Cleaning
  <1>7. RewriterKeepsRecord'
    BY DEF Again, disk, Goto, IInv, TypeOK, RewriterKeepsRecord
  <1>8. HolderKeepsRecord'
    BY DEF Again, disk, Goto, IInv, TypeOK, HolderKeepsRecord, InCallback
  <1> QED BY <1>1, <1>2, <1>3, <1>4, <1>5, <1>6, <1>7, <1>8 DEF IInv

(* A waiting thread gives up at its deadline.                              *)
LEMMA GiveUpStep ==
  ASSUME IInv, NEW t \in Thread, GiveUp(t)
  PROVE  IInv'
  <1>1. TypeOK'
    BY DEF GiveUp, disk, Leave, Goto, IInv, TypeOK, Points, Busy, Cleaning
  <1>2. DiskShape'
    BY DEF GiveUp, disk, Goto, IInv, TypeOK, DiskShape
  <1>3. ThreadShape'
    BY DEF GiveUp, Leave, At, Goto, IInv, TypeOK, ThreadShape, Busy,
       Inspecting, Releasing, Cleaning
  <1>4. Claims'
    BY DEF GiveUp, Leave, Goto, IInv, TypeOK, Claims
  <1>5. CandidatePrivate'
    BY DEF GiveUp, disk, Leave, Goto, IInv, TypeOK, CandidatePrivate,
       Unpublished, ThreadShape, Busy, Inspecting, Releasing, Cleaning
  <1>6. CleanupAuthority'
    BY DEF GiveUp, disk, Leave, Goto, IInv, TypeOK, CleanupAuthority,
       Unclaimed
  <1>7. RewriterKeepsRecord'
    BY DEF GiveUp, disk, Leave, Goto, IInv, TypeOK, RewriterKeepsRecord
  <1>8. HolderKeepsRecord'
    BY DEF GiveUp, disk, Leave, Goto, IInv, TypeOK, HolderKeepsRecord,
       InCallback
  <1> QED BY <1>1, <1>2, <1>3, <1>4, <1>5, <1>6, <1>7, <1>8 DEF IInv

(* The inspector remembers the one record it saw.                          *)
LEMMA ListStep ==
  ASSUME IInv, NEW t \in Thread, List(t)
  PROVE  IInv'
  <1>1. TypeOK'
    <2> USE DEF List, disk, Return, Drop, Leave, OnlyRecord, At, Goto, Busy,
       Inspecting, Releasing, Cleaning
    <2>1. Return(t) => LocalTypeOK'
      BY ReturnType DEF IInv
    <2> QED BY <2>1 DEF IInv, TypeOK, LocalTypeOK, Points
  <1>2. DiskShape'
    BY DEF List, disk, Goto, IInv, TypeOK, DiskShape
  <1>3. ThreadShape'
    BY DEF List, Return, Drop, Leave, At, Goto, IInv, TypeOK, ThreadShape,
       Busy, Inspecting, Releasing, Cleaning
  <1>4. Claims'
    BY DEF List, Return, Drop, Leave, At, Goto, IInv, TypeOK, Claims,
       ThreadShape, Busy, Releasing, Cleaning
  <1>5. CandidatePrivate'
    BY DEF List, disk, Return, Drop, Leave, OnlyRecord, Goto, IInv, TypeOK,
       CandidatePrivate, Unpublished, ThreadShape, Busy, Inspecting,
       Releasing, Cleaning
  <1>6. CleanupAuthority'
    BY DEF List, disk, Return, Drop, Leave, Goto, IInv, TypeOK,
       CleanupAuthority, Unclaimed, Busy, Cleaning
  <1>7. RewriterKeepsRecord'
    BY DEF List, disk, Return, Drop, Leave, Goto, IInv, TypeOK,
       RewriterKeepsRecord
  <1>8. HolderKeepsRecord'
    BY DEF List, disk, Return, Drop, Leave, Goto, IInv, TypeOK,
       HolderKeepsRecord, InCallback
  <1> QED BY <1>1, <1>2, <1>3, <1>4, <1>5, <1>6, <1>7, <1>8 DEF IInv

(* An inspector goes on only with a record of its own realm.               *)
LEMMA ReadStep ==
  ASSUME IInv, NEW t \in Thread, Read(t)
  PROVE  IInv'
  <1>1. TypeOK'
    <2> USE DEF Read, disk, Return, Drop, Leave, CleanPoint, At, Goto, Busy,
       Inspecting, Releasing, Cleaning
    <2>1. Return(t) => LocalTypeOK'
      BY ReturnType DEF IInv
    <2> QED BY <2>1 DEF IInv, TypeOK, LocalTypeOK, Points
  <1>2. DiskShape'
    BY DEF Read, disk, Goto, IInv, TypeOK, DiskShape
  <1>3. ThreadShape'
    BY DEF Read, Return, Drop, Leave, CleanPoint, At, Goto, IInv, TypeOK,
       ThreadShape, Busy, Inspecting, Releasing, Cleaning
  <1>4. Claims'
    BY DEF Read, Return, Drop, Leave, Goto, IInv, TypeOK, Claims
  <1>5. CandidatePrivate'
    BY DEF Read, disk, Return, Drop, Leave, At, Goto, IInv, TypeOK,
       CandidatePrivate, Unpublished, ThreadShape, Busy, Inspecting,
       Releasing, Cleaning
  <1>6. CleanupAuthority'
    BY DEF Read, disk, Return, Drop, Leave, Goto, IInv, TypeOK,
       CleanupAuthority, Unclaimed, Busy, Cleaning
  <1>7. RewriterKeepsRecord'
    BY DEF Read, disk, Return, Drop, Leave, CleanPoint, Goto, IInv, TypeOK,
       RewriterKeepsRecord
  <1>8. HolderKeepsRecord'
    BY DEF Read, disk, Return, Drop, Leave, CleanPoint, Goto, IInv, TypeOK,
       HolderKeepsRecord, InCallback
  <1> QED BY <1>1, <1>2, <1>3, <1>4, <1>5, <1>6, <1>7, <1>8 DEF IInv

(* A record whose pid the kernel does not know has nobody left to answer   *)
(* for it.                                                                 *)
LEMMA ProbeStep ==
  ASSUME IInv, NEW t \in Thread, Probe(t)
  PROVE  IInv'
  <1>1. TypeOK'
    <2> USE DEF Probe, disk, Return, Drop, Leave, CleanPoint, LooksDead, At,
       Goto, Busy, Inspecting, Releasing, Cleaning
    <2>1. Return(t) => LocalTypeOK'
      BY ReturnType DEF IInv
    <2> QED BY <2>1 DEF IInv, TypeOK, LocalTypeOK, Points
  <1>2. DiskShape'
    BY DEF Probe, disk, Goto, IInv, TypeOK, DiskShape
  <1>3. ThreadShape'
    BY DEF Probe, Return, Drop, Leave, CleanPoint, At, Goto, IInv, TypeOK,
       ThreadShape, Busy, Inspecting, Releasing, Cleaning
  <1>4. Claims'
    BY DEF Probe, Return, Drop, Leave, Goto, IInv, TypeOK, Claims
  <1>5. CandidatePrivate'
    BY DEF Probe, disk, Return, Drop, Leave, At, Goto, IInv, TypeOK,
       CandidatePrivate, Unpublished, ThreadShape, Busy, Inspecting,
       Releasing, Cleaning
  <1>6. CleanupAuthority'
    BY DEF Probe, LooksDead, At, Goto, IInv, TypeOK, ThreadShape, Busy,
       Inspecting, Cleaning, SameRealm
  <1>7. RewriterKeepsRecord'
    BY DEF Probe, disk, Return, Drop, Leave, CleanPoint, Goto, IInv, TypeOK,
       RewriterKeepsRecord
  <1>8. HolderKeepsRecord'
    BY DEF Probe, disk, Return, Drop, Leave, CleanPoint, Goto, IInv, TypeOK,
       HolderKeepsRecord, InCallback
  <1> QED BY <1>1, <1>2, <1>3, <1>4, <1>5, <1>6, <1>7, <1>8 DEF IInv

(* Unlinking a release temporary touches no record.                        *)
LEMMA CleanTempStep ==
  ASSUME IInv, NEW t \in Thread, CleanTemp(t)
  PROVE  IInv'
  <1>1. TypeOK'
    BY DEF CleanTemp, Goto, IInv, TypeOK, Points, Busy, Cleaning
  <1>2. DiskShape'
    BY DEF CleanTemp, Goto, IInv, TypeOK, DiskShape
  <1>3. ThreadShape'
    BY DEF CleanTemp, At, Goto, IInv, TypeOK, ThreadShape, Busy, Inspecting,
       Releasing, Cleaning
  <1>4. Claims'
    BY DEF CleanTemp, Goto, IInv, TypeOK, Claims
  <1>5. CandidatePrivate'
    BY DEF CleanTemp, Goto, IInv, TypeOK, CandidatePrivate, Unpublished
  <1>6. CleanupAuthority'
    BY DEF CleanTemp, At, Goto, IInv, TypeOK, CleanupAuthority, Unclaimed,
       Busy, Cleaning
  <1>7. RewriterKeepsRecord'
    BY DEF CleanTemp, Goto, IInv, TypeOK, RewriterKeepsRecord
  <1>8. HolderKeepsRecord'
    BY DEF CleanTemp, Goto, IInv, TypeOK, HolderKeepsRecord, InCallback
  <1> QED BY <1>1, <1>2, <1>3, <1>4, <1>5, <1>6, <1>7, <1>8 DEF IInv

(* The record that is unlinked is released, or nobody answers for it.      *)
LEMMA CleanOwnerStep ==
  ASSUME IInv, NEW t \in Thread, CleanOwner(t)
  PROVE  IInv'
  <1>1. TypeOK'
    <2> USE DEF CleanOwner, disk, Return, Drop, Leave, At, Goto, Busy,
       Inspecting, Releasing, Cleaning
    <2>1. Return(t) => LocalTypeOK'
      BY ReturnType DEF IInv
    <2> QED BY <2>1 DEF IInv, TypeOK, LocalTypeOK, Points
  <1>2. DiskShape'
    BY DEF CleanOwner, Goto, IInv, TypeOK, DiskShape
  <1>3. ThreadShape'
    BY DEF CleanOwner, Return, Drop, Leave, At, Goto, IInv, TypeOK,
       ThreadShape, Busy, Inspecting, Releasing, Cleaning, Claims
  <1>4. Claims'
    BY DEF CleanOwner, Return, Drop, Leave, Goto, IInv, TypeOK, Claims
  <1>5. CandidatePrivate'
    BY DEF CleanOwner, Return, Drop, Leave, Goto, IInv, TypeOK,
       CandidatePrivate, Unpublished, ThreadShape, Busy, Inspecting,
       Releasing, Cleaning
  <1>6. CleanupAuthority'
    BY DEF CleanOwner, Return, Drop, Leave, Goto, IInv, TypeOK,
       CleanupAuthority, Unclaimed
  <1>7. RewriterKeepsRecord'
    BY DEF CleanOwner, Return, Drop, Leave, At, Goto, IInv, TypeOK,
       RewriterKeepsRecord, ThreadShape, Busy, Releasing, Cleaning, Claims,
       CleanupAuthority, Unclaimed
  <1>8. HolderKeepsRecord'
    BY DEF CleanOwner, Return, Drop, Leave, At, Goto, IInv, TypeOK,
       HolderKeepsRecord, InCallback, ThreadShape, Busy, Cleaning, Claims,
       CleanupAuthority, Unclaimed
  <1> QED BY <1>1, <1>2, <1>3, <1>4, <1>5, <1>6, <1>7, <1>8 DEF IInv

(* Removing an empty directory removes no record.                          *)
LEMMA CleanDirStep ==
  ASSUME IInv, NEW t \in Thread, CleanDir(t)
  PROVE  IInv'
  <1>1. TypeOK'
    <2> USE DEF CleanDir, disk, Return, Drop, Leave, At, Goto, Busy,
       Inspecting, Releasing, Cleaning
    <2>1. Return(t) => LocalTypeOK'
      BY ReturnType DEF IInv
    <2> QED BY <2>1 DEF IInv, TypeOK, LocalTypeOK, Points
  <1>2. DiskShape'
    BY DEF CleanDir, Goto, IInv, TypeOK, DiskShape
  <1>3. ThreadShape'
    BY DEF CleanDir, Return, Drop, Leave, Goto, IInv, TypeOK, ThreadShape,
       Busy, Inspecting, Releasing, Cleaning, Claims
  <1>4. Claims'
    BY DEF CleanDir, Return, Drop, Leave, Goto, IInv, TypeOK, Claims
  <1>5. CandidatePrivate'
    BY DEF CleanDir, Return, Drop, Leave, Goto, IInv, TypeOK,
       CandidatePrivate, Unpublished, ThreadShape, Busy, Inspecting,
       Releasing, Cleaning
  <1>6. CleanupAuthority'
    BY DEF CleanDir, Return, Drop, Leave, Goto, IInv, TypeOK,
       CleanupAuthority, Unclaimed
  <1>7. RewriterKeepsRecord'
    <2> USE DEF CleanDir, disk, Return, Drop, Leave, At, Goto, Busy,
       Inspecting, Releasing, Cleaning
    <2>1. owners # {} => canonical' = canonical
      OBVIOUS
    <2>2. \A u \in Thread : pc'[u] \in {"relWrite", "relReplace"} =>
             pc[u] = pc'[u] /\ job'[u] = job[u]
      BY DEF IInv, TypeOK
    <2> QED BY <2>1, <2>2 DEF IInv, RewriterKeepsRecord
  <1>8. HolderKeepsRecord'
    <2> USE DEF CleanDir, disk, Return, Drop, Leave, At, Goto, Busy,
       Inspecting, Releasing, Cleaning
    <2>1. owners # {} => canonical' = canonical
      OBVIOUS
    <2>2. \A u \in Thread : pc'[u] = "callback" =>
             pc[u] = "callback" /\ mine'[u] = mine[u]
      BY DEF IInv, TypeOK
    <2> QED BY <2>1, <2>2 DEF IInv, HolderKeepsRecord, InCallback
  <1> QED BY <1>1, <1>2, <1>3, <1>4, <1>5, <1>6, <1>7, <1>8 DEF IInv

(* The end of the callback makes the holder its own releaser.              *)
LEMMA ExitStep ==
  ASSUME IInv, NEW t \in Thread, Exit(t)
  PROVE  IInv'
  <1>1. TypeOK'
    BY DEF Exit, disk, Goto, IInv, TypeOK, Points, Busy, Releasing, Cleaning
  <1>2. DiskShape'
    BY DEF Exit, disk, Goto, IInv, TypeOK, DiskShape
  <1>3. ThreadShape'
    BY DEF Exit, At, Goto, IInv, TypeOK, ThreadShape, Busy, Inspecting,
       Releasing, Cleaning
  <1>4. Claims'
    BY DEF Exit, Goto, IInv, TypeOK, Claims
  <1>5. CandidatePrivate'
    BY DEF Exit, disk, Goto, IInv, TypeOK, CandidatePrivate, Unpublished,
       ThreadShape, Busy, Inspecting, Releasing, Cleaning, Claims
  <1>6. CleanupAuthority'
    BY DEF Exit, disk, Goto, IInv, TypeOK, CleanupAuthority, Unclaimed
  <1>7. RewriterKeepsRecord'
    BY DEF Exit, disk, Goto, IInv, TypeOK, RewriterKeepsRecord
  <1>8. HolderKeepsRecord'
    BY DEF Exit, disk, Goto, IInv, TypeOK, HolderKeepsRecord, InCallback
  <1> QED BY <1>1, <1>2, <1>3, <1>4, <1>5, <1>6, <1>7, <1>8 DEF IInv

(* The releaser still finds its record, or has nothing left to do.         *)
LEMMA RelReadStep ==
  ASSUME IInv, NEW t \in Thread, RelRead(t)
  PROVE  IInv'
  <1>1. TypeOK'
    <2> USE DEF RelRead, disk, Return, Drop, Leave, At, Goto, Busy,
       Inspecting, Releasing, Cleaning
    <2>1. Return(t) => LocalTypeOK'
      BY ReturnType DEF IInv
    <2> QED BY <2>1 DEF IInv, TypeOK, LocalTypeOK, Points
  <1>2. DiskShape'
    BY DEF RelRead, disk, Goto, IInv, TypeOK, DiskShape
  <1>3. ThreadShape'
    BY DEF RelRead, Return, Drop, Leave, At, Goto, IInv, TypeOK, ThreadShape,
       Busy, Inspecting, Releasing, Cleaning, Claims
  <1>4. Claims'
    BY DEF RelRead, Return, Drop, Leave, Goto, IInv, TypeOK, Claims
  <1>5. CandidatePrivate'
    BY DEF RelRead, disk, Return, Drop, Leave, Goto, IInv, TypeOK,
       CandidatePrivate, Unpublished, ThreadShape, Busy, Inspecting,
       Releasing, Cleaning
  <1>6. CleanupAuthority'
    BY DEF RelRead, disk, Return, Drop, Leave, Goto, IInv, TypeOK,
       CleanupAuthority, Unclaimed, Busy, Cleaning
  <1>7. RewriterKeepsRecord'
    BY DEF RelRead, disk, Return, Drop, Leave, Goto, IInv, TypeOK,
       RewriterKeepsRecord, Busy, Cleaning, DiskShape
  <1>8. HolderKeepsRecord'
    BY DEF RelRead, disk, Return, Drop, Leave, Goto, IInv, TypeOK,
       HolderKeepsRecord, InCallback
  <1> QED BY <1>1, <1>2, <1>3, <1>4, <1>5, <1>6, <1>7, <1>8 DEF IInv

(* The release temporary is written beside the record it belongs to.       *)
LEMMA RelWriteStep ==
  ASSUME IInv, NEW t \in Thread, RelWrite(t)
  PROVE  IInv'
  <1>1. TypeOK'
    <2> USE DEF RelWrite, disk, Raise, Drop, Leave, At, Goto, Busy,
       Inspecting, Releasing, Cleaning
    <2>1. Raise(t) => LocalTypeOK'
      BY RaiseType DEF IInv
    <2>2. job[t] \in Nonce
      BY DEF IInv, TypeOK, ThreadShape
    <2> QED BY <2>1, <2>2 DEF IInv, TypeOK, LocalTypeOK, Points
  <1>2. DiskShape'
    BY DEF RelWrite, Goto, IInv, TypeOK, DiskShape
  <1>3. ThreadShape'
    BY DEF RelWrite, Raise, Drop, Leave, At, Goto, IInv, TypeOK, ThreadShape,
       Busy, Inspecting, Releasing, Cleaning
  <1>4. Claims'
    BY DEF RelWrite, Raise, Drop, Leave, Goto, IInv, TypeOK, Claims,
       ThreadShape, Busy, Cleaning
  <1>5. CandidatePrivate'
    BY DEF RelWrite, Raise, Drop, Leave, Goto, IInv, TypeOK, CandidatePrivate,
       Unpublished, ThreadShape, Busy, Inspecting, Releasing, Cleaning
  <1>6. CleanupAuthority'
    BY DEF RelWrite, Raise, Drop, Leave, Goto, IInv, TypeOK, CleanupAuthority,
       Unclaimed, ThreadShape, Busy, Cleaning
  <1>7. RewriterKeepsRecord'
    BY DEF RelWrite, At, Goto, IInv, TypeOK, RewriterKeepsRecord
  <1>8. HolderKeepsRecord'
    BY DEF RelWrite, Raise, Drop, Leave, Goto, IInv, TypeOK,
       HolderKeepsRecord, InCallback
  <1> QED BY <1>1, <1>2, <1>3, <1>4, <1>5, <1>6, <1>7, <1>8 DEF IInv

(* The replaced record is the same one, now released.                      *)
LEMMA RelReplaceStep ==
  ASSUME IInv, NEW t \in Thread, RelReplace(t)
  PROVE  IInv'
  <1>1. TypeOK'
    <2> USE DEF RelReplace, disk, Raise, Drop, Leave, At, Goto, Busy,
       Inspecting, Releasing, Cleaning
    <2>1. Raise(t) => LocalTypeOK'
      BY RaiseType DEF IInv
    <2> QED BY <2>1 DEF IInv, TypeOK, LocalTypeOK, Points
  <1>2. DiskShape'
    BY DEF RelReplace, At, Goto, IInv, TypeOK, DiskShape, Busy, Cleaning,
       RewriterKeepsRecord
  <1>3. ThreadShape'
    BY DEF RelReplace, Raise, Drop, Leave, At, Goto, IInv, TypeOK,
       ThreadShape, Busy, Inspecting, Releasing, Cleaning
  <1>4. Claims'
    BY DEF RelReplace, Raise, Drop, Leave, Goto, IInv, TypeOK, Claims,
       ThreadShape, Busy, Cleaning
  <1>5. CandidatePrivate'
    <2> USE DEF RelReplace, disk, Raise, Drop, Leave, At, Goto, Busy,
       Inspecting, Releasing, Cleaning
    <2>1. owners' = owners /\ temps' \subseteq temps
      BY DEF IInv, RewriterKeepsRecord
    <2> QED BY <2>1 DEF IInv, TypeOK, ThreadShape, Claims, CandidatePrivate,
       Unpublished
  <1>6. CleanupAuthority'
    BY DEF RelReplace, Raise, Drop, Leave, Goto, IInv, TypeOK,
       CleanupAuthority, Unclaimed, ThreadShape, Busy, Cleaning
  <1>7. RewriterKeepsRecord'
    BY DEF RelReplace, Raise, Drop, Leave, At, Goto, IInv, TypeOK,
       RewriterKeepsRecord, ThreadShape, Busy, Inspecting, Cleaning, Claims
  <1>8. HolderKeepsRecord'
    BY DEF RelReplace, Raise, Drop, Leave, At, Goto, IInv, TypeOK,
       HolderKeepsRecord, InCallback, ThreadShape, Busy, Releasing, Cleaning,
       Claims, CleanupAuthority, Unclaimed, RewriterKeepsRecord
  <1> QED BY <1>1, <1>2, <1>3, <1>4, <1>5, <1>6, <1>7, <1>8 DEF IInv

(* A refused call ends an inspection or leaves a release pending.          *)
LEMMA FaultStep ==
  ASSUME IInv, NEW t \in Thread, Fault(t)
  PROVE  IInv'
  <1>1. TypeOK'
    <2> USE DEF Fault, disk, Raise, Drop, Leave, At, Goto, Busy, Inspecting,
       Releasing, Cleaning
    <2>1. Raise(t) => LocalTypeOK'
      BY RaiseType DEF IInv
    <2> QED BY <2>1 DEF IInv, TypeOK, LocalTypeOK, Points
  <1>2. DiskShape'
    BY DEF Fault, disk, Goto, IInv, TypeOK, DiskShape
  <1>3. ThreadShape'
    BY DEF Fault, Raise, Drop, Leave, Goto, IInv, TypeOK, ThreadShape, Busy,
       Inspecting, Releasing, Cleaning
  <1>4. Claims'
    BY DEF Fault, Raise, Drop, Leave, Goto, IInv, TypeOK, Claims, ThreadShape,
       Busy, Cleaning
  <1>5. CandidatePrivate'
    BY DEF Fault, disk, Raise, Drop, Leave, Goto, IInv, TypeOK,
       CandidatePrivate, Unpublished, ThreadShape, Busy, Inspecting,
       Releasing, Cleaning
  <1>6. CleanupAuthority'
    BY DEF Fault, disk, Raise, Drop, Leave, Goto, IInv, TypeOK,
       CleanupAuthority, Unclaimed, ThreadShape, Busy, Cleaning
  <1>7. RewriterKeepsRecord'
    BY DEF Fault, disk, Raise, Drop, Leave, Goto, IInv, TypeOK,
       RewriterKeepsRecord
  <1>8. HolderKeepsRecord'
    BY DEF Fault, disk, Raise, Drop, Leave, Goto, IInv, TypeOK,
       HolderKeepsRecord, InCallback
  <1> QED BY <1>1, <1>2, <1>3, <1>4, <1>5, <1>6, <1>7, <1>8 DEF IInv

(* A dead process answers for nothing.                                     *)
LEMMA CrashStep ==
  ASSUME IInv, NEW p \in Proc, Crash(p)
  PROVE  IInv'
  <1>1. TypeOK'
    BY DEF Crash, disk, Goto, IInv, TypeOK, Points, Busy, Cleaning
  <1>2. DiskShape'
    BY DEF Crash, disk, Goto, IInv, TypeOK, DiskShape
  <1>3. ThreadShape'
    BY DEF Crash, Goto, IInv, TypeOK, ThreadShape, Busy, Inspecting,
       Releasing, Cleaning
  <1>4. Claims'
    BY DEF Crash, Goto, IInv, TypeOK, Claims
  <1>5. CandidatePrivate'
    BY DEF Crash, disk, Goto, IInv, TypeOK, CandidatePrivate, Unpublished,
       ThreadShape, Busy, Inspecting, Releasing, Cleaning
  <1>6. CleanupAuthority'
    BY DEF Crash, disk, Goto, IInv, TypeOK, CleanupAuthority, Unclaimed
  <1>7. RewriterKeepsRecord'
    BY DEF Crash, disk, Goto, IInv, TypeOK, RewriterKeepsRecord
  <1>8. HolderKeepsRecord'
    BY DEF Crash, disk, Goto, IInv, TypeOK, HolderKeepsRecord, InCallback
  <1> QED BY <1>1, <1>2, <1>3, <1>4, <1>5, <1>6, <1>7, <1>8 DEF IInv

(* A reused pid starts with nothing to answer for.                         *)
LEMMA RestartStep ==
  ASSUME IInv, NEW p \in Proc, Restart(p)
  PROVE  IInv'
  <1>1. TypeOK'
    BY DEF Restart, disk, Goto, IInv, TypeOK, Points, Busy, Cleaning
  <1>2. DiskShape'
    BY DEF Restart, disk, Goto, IInv, TypeOK, DiskShape
  <1>3. ThreadShape'
    BY DEF Restart, Goto, IInv, TypeOK, ThreadShape, Busy, Inspecting,
       Releasing, Cleaning
  <1>4. Claims'
    BY DEF Restart, Goto, IInv, TypeOK, Claims
  <1>5. CandidatePrivate'
    BY DEF Restart, disk, Goto, IInv, TypeOK, CandidatePrivate, Unpublished
  <1>6. CleanupAuthority'
    BY DEF Restart, disk, Goto, IInv, TypeOK, CleanupAuthority, Unclaimed,
       Busy, Cleaning
  <1>7. RewriterKeepsRecord'
    BY DEF Restart, disk, Goto, IInv, TypeOK, RewriterKeepsRecord
  <1>8. HolderKeepsRecord'
    BY DEF Restart, disk, Goto, IInv, TypeOK, HolderKeepsRecord, InCallback
  <1> QED BY <1>1, <1>2, <1>3, <1>4, <1>5, <1>6, <1>7, <1>8 DEF IInv

(* A step of nobody changes nothing the invariant is about.                *)
LEMMA StutterStep == ASSUME IInv, UNCHANGED vars PROVE IInv'
  BY DEF vars, disk, local, IInv, TypeOK, DiskShape, ThreadShape, Claims,
         CandidatePrivate, Unpublished, CleanupAuthority, Unclaimed,
         RewriterKeepsRecord, HolderKeepsRecord, InCallback

(* Every step of the protocol preserves the inductive invariant.           *)
LEMMA NextIInv == IInv /\ [Next]_vars => IInv'
  <1> SUFFICES ASSUME IInv, [Next]_vars PROVE IInv'
    OBVIOUS
  <1>1. ASSUME NEW t \in Thread, Step(t) PROVE IInv'
    <2>1. CASE Acquiring(t)
      BY <2>1, BeginStep, FlushStep, RefuseStep, PublishStep, BlockedStep,
         AgainStep, GiveUpStep DEF Acquiring
    <2>2. CASE Inspection(t)
      BY <2>2, ListStep, ReadStep, ProbeStep DEF Inspection
    <2>3. CASE Cleanup(t)
      BY <2>3, CleanTempStep, CleanOwnerStep, CleanDirStep DEF Cleanup
    <2>4. CASE Release(t)
      BY <2>4, ExitStep, RelReadStep, RelWriteStep, RelReplaceStep DEF Release
    <2> QED BY <1>1, <2>1, <2>2, <2>3, <2>4 DEF Step
  <1>2. ASSUME NEW t \in Thread, Fault(t) PROVE IInv'
    BY <1>2, FaultStep
  <1>3. ASSUME NEW p \in Proc, Crash(p) PROVE IInv'
    BY <1>3, CrashStep
  <1>4. ASSUME NEW p \in Proc, Restart(p) PROVE IInv'
    BY <1>4, RestartStep
  <1>5. CASE UNCHANGED vars
    BY <1>5, StutterStep
  <1> QED BY <1>1, <1>2, <1>3, <1>4, <1>5 DEF Next

-----------------------------------------------------------------------------
(* The inductive invariant holds in every reachable state of the lock, for *)
(* any number of threads, processes, nonces, crashes and refused calls.    *)
THEOREM Invariance == Spec => []IInv
  <1> QED BY InitIInv, NextIInv, PTL DEF Spec

(* Every variable of the lock keeps its type.                              *)
THEOREM TypeCorrect == Spec => []TypeOK
  <1>1. IInv => TypeOK
    BY DEF IInv
  <1> QED BY Invariance, <1>1, PTL

(* Two running callbacks would each have the one record in the directory.  *)
LEMMA IInvExcludes == IInv => MutualExclusion
  BY DEF IInv, ThreadShape, Claims, HolderKeepsRecord, MutualExclusion,
     InCallback

(* with_lock never lets two callbacks run at once.                         *)
THEOREM Exclusion == Spec => []MutualExclusion
  <1> QED BY Invariance, IInvExcludes, PTL

(* clean_owner never takes the record of a running callback away.          *)
THEOREM HolderUndisturbed == Spec => []HolderKeepsRecord
  <1>1. IInv => HolderKeepsRecord
    BY DEF IInv
  <1> QED BY Invariance, <1>1, PTL

(* Only a thread of the same process or of the same established realm      *)
(* removes a record.                                                       *)
THEOREM RealmBoundRecovery == Spec => OnlyRealmRecovers
  <1> DEFINE Removal(n) == \E t \in Thread :
          /\ pc[t] = "cleanOwner" /\ pc'[t] = "cleanDir" /\ job[t] = n
          /\ (Author[n] = Home[t] \/ SameRealm(n, mine[t]))
  <1>1. ASSUME IInv, [Next]_vars, NEW n \in owners \ owners' PROVE Removal(n)
    <2>1. ASSUME NEW t \in Thread, CleanOwner(t) PROVE Removal(n)
      <3>1. job[t] = n /\ pc[t] = "cleanOwner" /\ pc'[t] = "cleanDir"
        BY <1>1, <2>1 DEF CleanOwner, At, Goto, IInv, TypeOK
      <3>2. mode[t] # "none"
        BY <1>1, <3>1 DEF IInv, ThreadShape, Busy, Cleaning
      <3>3. Author[n] = Home[t] \/ SameRealm(n, mine[t])
        BY <1>1, <3>1, <3>2 DEF IInv, TypeOK, ThreadShape
      <3> QED BY <3>1, <3>3
    <2>2. ASSUME NEW t \in Thread, Step(t), ~CleanOwner(t) PROVE FALSE
      BY <1>1, <2>2 DEF Step, Acquiring, Inspection, Cleanup, Release, disk,
         Begin, Flush, Refuse, Publish, Blocked, Again, GiveUp, List, Read, Probe,
         CleanTemp, CleanDir, Exit, RelRead, RelWrite, RelReplace, CanRename,
         IInv, DiskShape
    <2>3. ASSUME NEW t \in Thread, Fault(t) PROVE FALSE
      BY <1>1, <2>3 DEF Fault, disk
    <2>4. ASSUME NEW p \in Proc, Crash(p) \/ Restart(p) PROVE FALSE
      BY <1>1, <2>4 DEF Crash, Restart, disk
    <2>5. CASE UNCHANGED vars
      BY <1>1, <2>5 DEF vars, disk
    <2> QED BY <1>1, <2>1, <2>2, <2>3, <2>4, <2>5 DEF Next
  <1>2. IInv /\ [Next]_vars => [\A n \in owners \ owners' : Removal(n)]_vars
    BY <1>1
  <1> QED BY Invariance, <1>2, PTL DEF Spec, OnlyRealmRecovers

(* The refinement mapping: the running callback is the abstract holder.    *)
LEMMA HolderIs == ASSUME MutualExclusion, NEW t \in Thread, InCallback(t) PROVE Holder = t
  BY DEF Holder, MutualExclusion

(* Without a running callback the abstract lock is free.                   *)
LEMMA NoHolder == (\A t \in Thread : ~InCallback(t)) => Holder = Nobody
  BY DEF Holder

(* A step that starts and ends no callback leaves the abstract holder alone.*)
LEMMA SameHolder ==
  ASSUME MutualExclusion, MutualExclusion',
         \A t \in Thread : InCallback(t) <=> InCallback(t)'
  PROVE  Holder' = Holder
  <1>1. CASE \E t \in Thread : InCallback(t)
    <2>1. PICK t \in Thread : InCallback(t)
      BY <1>1
    <2>2. Holder = t
      BY <2>1, HolderIs
    <2>3. Holder' = t
      BY <2>1 DEF Holder, MutualExclusion
    <2> QED BY <2>2, <2>3
  <1>2. CASE \A t \in Thread : ~InCallback(t)
    BY <1>2 DEF Holder, Nobody
  <1> QED BY <1>1, <1>2

(* Such a step, with no death in it, is invisible to the abstract lock.    *)
LEMMA CallbackKept ==
  ASSUME IInv, IInv', \A t \in Thread : InCallback(t) <=> InCallback(t)', UNCHANGED dead
  PROVE  UNCHANGED Abstract!vars
  <1>1. MutualExclusion /\ MutualExclusion'
    BY IInvExcludes, PTL
  <1> QED BY <1>1, SameHolder DEF Abstract!vars

(* The protocol implements the abstract lock: publishing a directory is    *)
(* Acquire, the end of the callback is Release, and every other step of a  *)
(* thread is invisible.                                                    *)
THEOREM ImplementsLock == Spec => ExclusiveCallbacks
  <1>1. Init => Abstract!Init
    <2> SUFFICES ASSUME Init PROVE Abstract!Init
      OBVIOUS
    <2>1. \A t \in Thread : ~InCallback(t)
      BY DEF Init, InCallback
    <2> QED BY <2>1, NoHolder DEF Init, Abstract!Init
  <1>2. ASSUME IInv, IInv', [Next]_vars PROVE [Abstract!Next]_(Abstract!vars)
    <2>0. MutualExclusion /\ MutualExclusion'
      BY <1>2, IInvExcludes, PTL
    <2>1. ASSUME NEW t \in Thread, Publish(t) PROVE Abstract!Acquire(t)
      <3>1. \A u \in Thread : ~InCallback(u)
        BY <1>2, <2>1 DEF IInv, HolderKeepsRecord, Publish, CanRename
      <3>2. InCallback(t)'
        BY <1>2, <2>1 DEF Publish, Goto, InCallback, IInv, TypeOK
      <3>3. Holder' = t
        BY <2>0, <3>2 DEF Holder, MutualExclusion
      <3>4. Home[t] \notin dead
        BY <1>2, <2>1 DEF Publish, At, IInv, ThreadShape
      <3> QED BY <2>1, <3>1, <3>3, <3>4, NoHolder DEF Publish,
         Abstract!Acquire
    <2>2. ASSUME NEW t \in Thread, Exit(t) PROVE Abstract!Release(t)
      <3>1. Holder = t
        BY <2>0, <2>2, HolderIs DEF Exit, At, InCallback
      <3>2. \A u \in Thread : ~InCallback(u)'
        BY <1>2, <2>0, <2>2 DEF Exit, At, Goto, InCallback, MutualExclusion,
           IInv, TypeOK
      <3>3. Holder' = Nobody
        BY <3>2 DEF Holder, Nobody
      <3> QED BY <2>2, <3>1, <3>3 DEF Exit, Abstract!Release
    <2>3. ASSUME NEW t \in Thread, Step(t), ~Publish(t), ~Exit(t)
          PROVE UNCHANGED Abstract!vars
      <3>1. UNCHANGED dead /\ \A u \in Thread : InCallback(u) <=> InCallback(u)'
        BY <1>2, <2>3 DEF Step, Acquiring, Inspection, Cleanup, Release,
           Begin, Flush, Refuse, Blocked, Again, GiveUp, List, Read, Probe,
           CleanTemp, CleanOwner, CleanDir, RelRead, RelWrite, RelReplace,
           Return, Raise, Drop, Leave, CleanPoint, At, Goto, InCallback, IInv, TypeOK
      <3> QED BY <1>2, <3>1, CallbackKept
    <2>4. ASSUME NEW t \in Thread, Fault(t) PROVE UNCHANGED Abstract!vars
      <3>1. UNCHANGED dead /\ \A u \in Thread : InCallback(u) <=> InCallback(u)'
        BY <1>2, <2>4 DEF Fault, Raise, Drop, Leave, Goto, InCallback, IInv,
           TypeOK,
           Busy, Inspecting, Releasing, Cleaning
      <3> QED BY <1>2, <3>1, CallbackKept
    <2>5. ASSUME NEW p \in Proc, Crash(p) PROVE Abstract!Crash(p)
      <3>1. \A u \in Thread : InCallback(u)' <=> InCallback(u) /\ Home[u] # p
        BY <1>2, <2>5 DEF Crash, InCallback
      <3>2. CASE \E t \in Thread : InCallback(t)
        <4>1. PICK t \in Thread : InCallback(t)
          BY <3>2
        <4>2. Holder = t /\ t # Nobody
          BY <2>0, <4>1, HolderIs DEF Nobody
        <4>3. CASE Home[t] = p
          <5>1. \A u \in Thread : ~InCallback(u)'
            BY <2>0, <3>1, <4>1, <4>3 DEF MutualExclusion
          <5> QED BY <2>5, <4>2, <4>3, <5>1 DEF Crash, Abstract!Crash, Holder,
             Nobody
        <4>4. CASE Home[t] # p
          <5>1. Holder' = t
            BY <2>0, <3>1, <4>1, <4>4 DEF Holder, MutualExclusion
          <5> QED BY <2>5, <4>2, <4>4, <5>1 DEF Crash, Abstract!Crash
        <4> QED BY <4>3, <4>4
      <3>3. CASE \A t \in Thread : ~InCallback(t)
        <4>1. Holder = Nobody /\ Holder' = Nobody
          BY <3>1, <3>3 DEF Holder, Nobody
        <4> QED BY <2>5, <4>1 DEF Crash, Abstract!Crash
      <3> QED BY <3>2, <3>3
    <2>6. ASSUME NEW p \in Proc, Restart(p) PROVE Abstract!Restart(p)
      <3>1. \A u \in Thread : InCallback(u) <=> InCallback(u)'
        BY <1>2, <2>6 DEF Restart, InCallback, IInv, TypeOK, ThreadShape
      <3>2. Holder' = Holder
        BY <2>0, <3>1, SameHolder
      <3> QED BY <2>6, <3>2 DEF Restart, Abstract!Restart
    <2>7. CASE UNCHANGED vars
      <3>1. UNCHANGED dead /\ \A u \in Thread : InCallback(u) <=> InCallback(u)'
        BY <2>7 DEF vars, local, InCallback
      <3> QED BY <1>2, <3>1, CallbackKept
    <2> QED BY <1>2, <2>1, <2>2, <2>3, <2>4, <2>5, <2>6, <2>7 DEF Next,
       Abstract!Next
  <1>3. IInv /\ IInv' /\ [Next]_vars => [Abstract!Next]_(Abstract!vars)
    BY <1>2
  <1> QED BY Invariance, <1>1, <1>3, PTL DEF Spec, ExclusiveCallbacks,
     Abstract!Spec

-----------------------------------------------------------------------------
(* Who answers for a record.                                               *)

(* A record that is still there when its own process cleans up after it    *)
(* says released, and so does one of which only the directory is pending.  *)
ReleaseDone ==
    /\ \A t \in Thread :
          pc[t] \in Cleaning /\ mode[t] \in {"exit", "flush"} /\ job[t] \in owners
          => job[t] \in released
    /\ \A n \in owners : pend[n] = "rmdir" => n \in released

(* RecordAccountedFor without its condition on reused pids: it holds of    *)
(* every record whose pid no other process can be given.                   *)
Accounted ==
    \A n \in owners \ released : Author[n] \notin dead \cup Reused =>
        pend[n] # "none" \/ \E t \in Thread : mine[t] = n

AInv == IInv /\ ReleaseDone /\ Accounted

(* A new attempt adds somebody who answers for a nonce.                    *)
LEMMA BeginAccounts ==
  ASSUME AInv, NEW t \in Thread, Begin(t)
  PROVE  ReleaseDone' /\ Accounted'
  <1>1. ReleaseDone'
    BY DEF Begin, disk, At, Goto, AInv, IInv, ThreadShape, Busy, Releasing,
       ReleaseDone
  <1>2. Accounted'
    BY DEF Begin, disk, At, AInv, IInv, TypeOK, ThreadShape, Accounted
  <1> QED BY <1>1, <1>2

(* A release that is taken up stays pending; one that needs the directory  *)
(* only is of a record that says released.                                 *)
LEMMA FlushAccounts ==
  ASSUME AInv, NEW t \in Thread, Flush(t)
  PROVE  ReleaseDone' /\ Accounted'
  <1>1. ReleaseDone'
    BY DEF Flush, disk, Goto, AInv, IInv, TypeOK, Cleaning, ReleaseDone
  <1>2. Accounted'
    BY DEF Flush, disk, AInv, Accounted
  <1> QED BY <1>1, <1>2

(* The nonce that is dropped was never published.                          *)
LEMMA RefuseAccounts ==
  ASSUME AInv, NEW t \in Thread, Refuse(t)
  PROVE  ReleaseDone' /\ Accounted'
  <1>1. ReleaseDone'
    BY DEF Refuse, Leave, disk, Goto, AInv, IInv, TypeOK, ReleaseDone
  <1>2. Accounted'
    BY DEF Refuse, Leave, disk, At, AInv, IInv, CandidatePrivate, Unpublished,
       Accounted
  <1> QED BY <1>1, <1>2

(* The one record there is then is that of the thread that published it.   *)
LEMMA PublishAccounts ==
  ASSUME AInv, NEW t \in Thread, Publish(t)
  PROVE  ReleaseDone' /\ Accounted'
  <1>1. ReleaseDone'
    BY DEF Publish, At, Goto, AInv, IInv, TypeOK, ThreadShape, Cleaning,
       Claims, ReleaseDone
  <1>2. Accounted'
    BY DEF Publish, Accounted
  <1> QED BY <1>1, <1>2

(* A refused rename changes no record.                                     *)
LEMMA BlockedAccounts ==
  ASSUME AInv, NEW t \in Thread, Blocked(t)
  PROVE  ReleaseDone' /\ Accounted'
  <1>1. ReleaseDone'
    BY DEF Blocked, disk, Goto, AInv, IInv, TypeOK, ReleaseDone
  <1>2. Accounted'
    BY DEF Blocked, disk, AInv, Accounted
  <1> QED BY <1>1, <1>2

(* A new try changes no record.                                            *)
LEMMA AgainAccounts ==
  ASSUME AInv, NEW t \in Thread, Again(t)
  PROVE  ReleaseDone' /\ Accounted'
  <1>1. ReleaseDone'
    BY DEF Again, disk, At, Goto, AInv, IInv, ThreadShape, Busy, Releasing,
       ReleaseDone
  <1>2. Accounted'
    BY DEF Again, disk, AInv, Accounted
  <1> QED BY <1>1, <1>2

(* The nonce that is given up was never published.                         *)
LEMMA GiveUpAccounts ==
  ASSUME AInv, NEW t \in Thread, GiveUp(t)
  PROVE  ReleaseDone' /\ Accounted'
  <1>1. ReleaseDone'
    BY DEF GiveUp, Leave, disk, Goto, AInv, IInv, TypeOK, ReleaseDone
  <1>2. Accounted'
    BY DEF GiveUp, Leave, disk, At, AInv, IInv, CandidatePrivate, Unpublished,
       Accounted
  <1> QED BY <1>1, <1>2

(* An inspection answers for no record and lets go of none.                *)
LEMMA ListAccounts ==
  ASSUME AInv, NEW t \in Thread, List(t)
  PROVE  ReleaseDone' /\ Accounted'
  <1>1. ReleaseDone'
    BY DEF List, Return, Drop, disk, At, Goto, AInv, IInv, TypeOK,
       ThreadShape, Inspecting, ReleaseDone
  <1>2. Accounted'
    BY DEF List, Return, Drop, disk, At, AInv, IInv, ThreadShape, Inspecting,
       Accounted
  <1> QED BY <1>1, <1>2

(* Reading a record answers for none.                                      *)
LEMMA ReadAccounts ==
  ASSUME AInv, NEW t \in Thread, Read(t)
  PROVE  ReleaseDone' /\ Accounted'
  <1>1. ReleaseDone'
    BY DEF Read, Return, Drop, disk, At, Goto, AInv, IInv, TypeOK,
       ThreadShape, Inspecting, ReleaseDone
  <1>2. Accounted'
    BY DEF Read, Return, Drop, disk, At, AInv, IInv, ThreadShape, Inspecting,
       Accounted
  <1> QED BY <1>1, <1>2

(* Nor does probing its owner.                                             *)
LEMMA ProbeAccounts ==
  ASSUME AInv, NEW t \in Thread, Probe(t)
  PROVE  ReleaseDone' /\ Accounted'
  <1>1. ReleaseDone'
    BY DEF Probe, Return, Drop, disk, At, Goto, AInv, IInv, TypeOK,
       ThreadShape, Inspecting, ReleaseDone
  <1>2. Accounted'
    BY DEF Probe, Return, Drop, disk, At, AInv, IInv, ThreadShape, Inspecting,
       Accounted
  <1> QED BY <1>1, <1>2

(* A release temporary is no record.                                       *)
LEMMA CleanTempAccounts ==
  ASSUME AInv, NEW t \in Thread, CleanTemp(t)
  PROVE  ReleaseDone' /\ Accounted'
  <1>1. ReleaseDone'
    BY DEF CleanTemp, At, Goto, AInv, IInv, ThreadShape, Busy, Releasing,
       ReleaseDone
  <1>2. Accounted'
    BY DEF CleanTemp, AInv, Accounted
  <1> QED BY <1>1, <1>2

(* Who has let go of a record without unlinking it finds it gone.          *)
LEMMA CleanOwnerAccounts ==
  ASSUME AInv, NEW t \in Thread, CleanOwner(t)
  PROVE  ReleaseDone' /\ Accounted'
  <1>1. ReleaseDone'
    BY DEF CleanOwner, Return, Drop, Leave, Goto, AInv, IInv, TypeOK,
       ReleaseDone
  <1>2. Accounted'
    BY DEF CleanOwner, Return, Drop, Leave, AInv, IInv, TypeOK, ThreadShape,
       Accounted
  <1> QED BY <1>1, <1>2

(* The end of a release: the record is gone, or says released.             *)
LEMMA CleanDirAccounts ==
  ASSUME AInv, NEW t \in Thread, CleanDir(t)
  PROVE  ReleaseDone' /\ Accounted'
  <1>1. ReleaseDone'
    BY DEF CleanDir, Return, Drop, Leave, Goto, AInv, IInv, TypeOK,
       ReleaseDone
  <1>2. Accounted'
    BY DEF CleanDir, Return, Drop, Leave, At, AInv, IInv, TypeOK, ThreadShape,
       Busy, Releasing, ReleaseDone, Accounted
  <1> QED BY <1>1, <1>2

(* The thread still answers for its record while it releases it.           *)
LEMMA ExitAccounts ==
  ASSUME AInv, NEW t \in Thread, Exit(t)
  PROVE  ReleaseDone' /\ Accounted'
  <1>1. ReleaseDone'
    BY DEF Exit, disk, At, Goto, AInv, Cleaning, ReleaseDone
  <1>2. Accounted'
    BY DEF Exit, disk, AInv, Accounted
  <1> QED BY <1>1, <1>2

(* It goes on to unlink a record only when that says released.             *)
LEMMA RelReadAccounts ==
  ASSUME AInv, NEW t \in Thread, RelRead(t)
  PROVE  ReleaseDone' /\ Accounted'
  <1>1. ReleaseDone'
    BY DEF RelRead, Return, Drop, Leave, disk, Goto, AInv, IInv, TypeOK,
       Cleaning, ReleaseDone
  <1>2. Accounted'
    BY DEF RelRead, Return, Drop, Leave, disk, AInv, IInv, TypeOK,
       ThreadShape, Accounted
  <1> QED BY <1>1, <1>2

(* A release whose directory is gone is remembered.                        *)
LEMMA RelWriteAccounts ==
  ASSUME AInv, NEW t \in Thread, RelWrite(t)
  PROVE  ReleaseDone' /\ Accounted'
  <1>1. ReleaseDone'
    BY DEF RelWrite, Raise, Leave, At, Goto, AInv, IInv, TypeOK, ThreadShape,
       Busy, Inspecting, Cleaning, ReleaseDone
  <1>2. Accounted'
    BY DEF RelWrite, Raise, Leave, At, AInv, IInv, TypeOK, ThreadShape,
       Releasing, CandidatePrivate, Unpublished, Accounted
  <1> QED BY <1>1, <1>2

(* A record that is replaced says released.                                *)
LEMMA RelReplaceAccounts ==
  ASSUME AInv, NEW t \in Thread, RelReplace(t)
  PROVE  ReleaseDone' /\ Accounted'
  <1>1. ReleaseDone'
    BY DEF RelReplace, Raise, Leave, At, Goto, AInv, IInv, TypeOK,
       ThreadShape, Releasing, ReleaseDone
  <1>2. Accounted'
    BY DEF RelReplace, Raise, Leave, At, AInv, IInv, TypeOK, ThreadShape,
       Releasing, CandidatePrivate, Unpublished, Accounted
  <1> QED BY <1>1, <1>2

(* A release that a refused call ends is remembered, and how far it got.   *)
LEMMA FaultAccounts ==
  ASSUME AInv, NEW t \in Thread, Fault(t)
  PROVE  ReleaseDone' /\ Accounted'
  <1>1. ReleaseDone'
    BY DEF Fault, Raise, Drop, Leave, disk, Goto, AInv, IInv, TypeOK,
       ThreadShape, Busy, Releasing, ReleaseDone
  <1>2. Accounted'
    BY DEF Fault, Raise, Drop, Leave, disk, AInv, IInv, TypeOK, ThreadShape,
       CandidatePrivate, Unpublished, Accounted
  <1> QED BY <1>1, <1>2

(* A dead process is bound to nothing.                                     *)
LEMMA CrashAccounts ==
  ASSUME AInv, NEW p \in Proc, Crash(p)
  PROVE  ReleaseDone' /\ Accounted'
  <1>1. ReleaseDone'
    BY DEF Crash, disk, AInv, IInv, TypeOK, ReleaseDone, Cleaning
  <1>2. Accounted'
    BY DEF Crash, disk, AInv, IInv, TypeOK, ThreadShape, Accounted
  <1> QED BY <1>1, <1>2

(* A pid that can be reused is none that Accounted is about.               *)
LEMMA RestartAccounts ==
  ASSUME AInv, NEW p \in Proc, Restart(p)
  PROVE  ReleaseDone' /\ Accounted'
  <1>1. ReleaseDone'
    BY DEF Restart, disk, AInv, IInv, TypeOK, ReleaseDone, Cleaning
  <1>2. Accounted'
    BY DEF Restart, disk, AInv, Accounted
  <1> QED BY <1>1, <1>2

(* Every step keeps somebody bound to release each record of a live        *)
(* process whose pid is not reused.                                        *)
LEMMA NextAccounts == AInv /\ [Next]_vars => AInv'
  <1> SUFFICES ASSUME AInv, [Next]_vars PROVE AInv'
    OBVIOUS
  <1>1. IInv'
    BY NextIInv DEF AInv
  <1>2. ASSUME NEW t \in Thread, Step(t) PROVE ReleaseDone' /\ Accounted'
    <2>1. CASE Acquiring(t)
      BY <2>1, BeginAccounts, FlushAccounts, RefuseAccounts, PublishAccounts,
         BlockedAccounts, AgainAccounts, GiveUpAccounts DEF Acquiring
    <2>2. CASE Inspection(t)
      BY <2>2, ListAccounts, ReadAccounts, ProbeAccounts DEF Inspection
    <2>3. CASE Cleanup(t)
      BY <2>3, CleanTempAccounts, CleanOwnerAccounts, CleanDirAccounts DEF Cleanup
    <2>4. CASE Release(t)
      BY <2>4, ExitAccounts, RelReadAccounts, RelWriteAccounts,
         RelReplaceAccounts DEF Release
    <2> QED BY <1>2, <2>1, <2>2, <2>3, <2>4 DEF Step
  <1>3. ASSUME NEW t \in Thread, Fault(t) PROVE ReleaseDone' /\ Accounted'
    BY <1>3, FaultAccounts
  <1>4. ASSUME NEW p \in Proc, Crash(p) PROVE ReleaseDone' /\ Accounted'
    BY <1>4, CrashAccounts
  <1>5. ASSUME NEW p \in Proc, Restart(p) PROVE ReleaseDone' /\ Accounted'
    BY <1>5, RestartAccounts
  <1>6. ASSUME UNCHANGED vars PROVE ReleaseDone' /\ Accounted'
    <2>1. ReleaseDone'
      BY <1>6 DEF vars, disk, local, AInv, ReleaseDone, Cleaning
    <2>2. Accounted'
      BY <1>6 DEF vars, disk, local, AInv, Accounted
    <2> QED BY <2>1, <2>2
  <1> QED BY <1>1, <1>2, <1>3, <1>4, <1>5, <1>6 DEF Next, AInv

(* An unreleased record of a live process whose pid no new process can be  *)
(* given has somebody bound to release it, whatever calls the file system  *)
(* refuses and whoever else dies.                                          *)
THEOREM RecordsAnswered == Spec => [](ReleaseDone /\ Accounted)
  <1>1. Init => AInv
    BY InitIInv DEF AInv, Init, ReleaseDone, Accounted, Cleaning
  <1>2. AInv => ReleaseDone /\ Accounted
    BY DEF AInv
  <1> QED BY <1>1, <1>2, NextAccounts, PTL DEF Spec

(* Where no pid is reused that is every record of a live process: no       *)
(* failure of a file-system call leaks one (_file_owner_lock.py 177-238).  *)
THEOREM NoneLeaks == ASSUME Reused = {} PROVE Spec => []RecordAccountedFor
  <1>1. Accounted => RecordAccountedFor
    BY DEF Accounted, RecordAccountedFor
  <1> QED BY <1>1, RecordsAnswered, PTL
=============================================================================
