-------------------------- MODULE MCFileOwnerLock --------------------------
(***************************************************************************)
(* Instances of FileOwnerLock for TLC.                                     *)
(*                                                                         *)
(* t1 and t2 run in p1 and share its pending releases, t3 runs in p2, both *)
(* processes in one namespace.  The nonces a1.. and b1.. are the pools of  *)
(* p1 and p2; with PartIdentity p2 fails to establish its identity for     *)
(* some of its acquisitions (b3, b4).                                      *)
(***************************************************************************)
EXTENDS FileOwnerLock, TLC

CONSTANTS t1, t2, t3, p1, p2, a1, a2, a3, a4, a5, b1, b2, b3, b4, host

PoolA == {a1, a2, a3, a4, a5}

MCAuthor == [n \in Nonce |-> IF n \in PoolA THEN p1 ELSE p2]

SharedHome == [t \in Thread |-> IF t = t3 THEN p2 ELSE p1]
SharedSpace == [p \in Proc |-> host]
SharedIdentity == [n \in Nonce |-> host]
PartIdentity == [n \in Nonce |-> IF n \in {b3, b4} THEN Unknown ELSE host]

(* Draw may prefer one fresh nonce to another, but the states it leads to  *)
(* differ only by a permutation of one process's nonces of one identity.   *)
NonceSymmetry ==
    Permutations(PoolA) \cup Permutations({b1, b2}) \cup Permutations({b3, b4})
=============================================================================
