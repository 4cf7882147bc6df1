--------------------------- MODULE PageArithmetic ---------------------------
(***************************************************************************)
(* What divmod(position, PAGE_SIZE) of address_index.py gives: facts about *)
(* \div and % for a page size P that is not known.                         *)
(***************************************************************************)
EXTENDS Integers, TLAPS

(* A position is the start of its page and an offset on it. *)
LEMMA Divided ==
  ASSUME NEW P \in Nat \ {0}, NEW i \in Nat
  PROVE  /\ i = P * (i \div P) + (i % P)
         /\ i \div P \in Nat /\ i % P \in 0 .. P - 1
  BY SMT

(* A positive multiple of the page size is a page at least. *)
LEMMA PageAtLeast ==
  ASSUME NEW P \in Nat \ {0}, NEW n \in Int, n >= 1
  PROVE  P * n >= P /\ P * n >= n
  BY Z3

(* A later position is on a later page, or further down the same one. *)
LEMMA Ordered ==
  ASSUME NEW P \in Nat \ {0},
         NEW p \in Nat, NEW r \in 0 .. P - 1, NEW q \in Nat, NEW s \in 0 .. P - 1,
         P * p + r < P * q + s
  PROVE  p < q \/ (p = q /\ r < s)
  <1>1. CASE p > q
    <2>1. P * (p - q) < s - r
      BY SMT
    <2>2. P * (p - q) >= P
      BY <1>1, PageAtLeast
    <2> QED BY <2>1, <2>2
  <1>2. CASE p = q
    BY <1>2
  <1> QED BY <1>1, <1>2

(* No two places are the same position. *)
LEMMA DividedOnce ==
  ASSUME NEW P \in Nat \ {0},
         NEW p \in Nat, NEW r \in 0 .. P - 1, NEW q \in Nat, NEW s \in 0 .. P - 1,
         P * p + r = P * q + s
  PROVE  p = q /\ r = s
  <1>1. CASE p > q
    <2>1. P * (p - q) = s - r
      BY SMT
    <2>2. P * (p - q) >= P
      BY <1>1, PageAtLeast
    <2> QED BY <2>1, <2>2
  <1>2. CASE q > p
    <2>1. P * (q - p) = r - s
      BY SMT
    <2>2. P * (q - p) >= P
      BY <1>2, PageAtLeast
    <2> QED BY <2>1, <2>2
  <1>3. CASE p = q
    BY <1>3
  <1> QED BY <1>1, <1>2, <1>3

(* Positions are ordered as their pages and offsets are. *)
LEMMA PositionOrder ==
  ASSUME NEW P \in Nat \ {0}, NEW i \in Nat, NEW j \in Nat, i < j
  PROVE  i \div P < j \div P \/ (i \div P = j \div P /\ i % P < j % P)
  <1>1. /\ i = P * (i \div P) + (i % P) /\ i \div P \in Nat /\ i % P \in 0 .. P - 1
        /\ j = P * (j \div P) + (j % P) /\ j \div P \in Nat /\ j % P \in 0 .. P - 1
    BY Divided
  <1>2. P * (i \div P) + (i % P) < P * (j \div P) + (j % P)
    BY <1>1
  <1> QED BY <1>1, <1>2, Ordered

(* The next position is the next place on the page or opens the next page. *)
LEMMA NextPosition ==
  ASSUME NEW P \in Nat \ {0}, NEW i \in Nat
  PROVE  IF (i % P) + 1 < P
         THEN (i + 1) \div P = i \div P /\ (i + 1) % P = (i % P) + 1
         ELSE (i + 1) \div P = i \div P + 1 /\ (i + 1) % P = 0
  <1> DEFINE k == i + 1
  <1>1. i = P * (i \div P) + (i % P) /\ i \div P \in Nat /\ i % P \in 0 .. P - 1
    BY Divided
  <1>2. k \in Nat
    OBVIOUS
  <1>3. k = P * (k \div P) + (k % P) /\ k \div P \in Nat /\ k % P \in 0 .. P - 1
    BY <1>2, Divided
  <1>4. CASE (i % P) + 1 < P
    <2>1. P * (k \div P) + (k % P) = P * (i \div P) + ((i % P) + 1)
      BY <1>1, <1>3
    <2>2. k \div P = i \div P /\ k % P = (i % P) + 1
      BY <1>1, <1>3, <1>4, <2>1, DividedOnce
    <2> QED BY <1>4, <2>2
  <1>5. CASE ~((i % P) + 1 < P)
    <2>1. (i % P) + 1 = P
      BY <1>1, <1>5
    <2>2. PICK q \in Nat, s \in 0 .. P - 1 : q = i \div P + 1 /\ s = 0
      BY <1>1
    <2>3. P * (k \div P) + (k % P) = P * q + s
      BY <1>1, <1>3, <2>1, <2>2
    <2>4. k \div P = q /\ k % P = s
      BY <1>3, <2>3, DividedOnce
    <2> QED BY <1>5, <2>2, <2>4
  <1> QED BY <1>4, <1>5

(* ceil((i + 1) / P) is one more than the page of position i. *)
LEMMA PagesUpTo ==
  ASSUME NEW P \in Nat \ {0}, NEW i \in Nat
  PROVE  (i + 1 + P - 1) \div P = i \div P + 1
  <1> DEFINE k == i + 1 + P - 1
  <1>1. i = P * (i \div P) + (i % P) /\ i \div P \in Nat /\ i % P \in 0 .. P - 1
    BY Divided
  <1>2. k \in Nat
    OBVIOUS
  <1>3. k = P * (k \div P) + (k % P) /\ k \div P \in Nat /\ k % P \in 0 .. P - 1
    BY <1>2, Divided
  <1>4. P * (k \div P) + (k % P) = P * (i \div P + 1) + (i % P)
    BY <1>1, <1>3
  <1>5. k \div P = i \div P + 1
    BY <1>1, <1>3, <1>4, DividedOnce
  <1> QED BY <1>5

(* No position needs no page, and the first position opens the first. *)
LEMMA FirstPage ==
  ASSUME NEW P \in Nat \ {0}
  PROVE  0 \div P = 0 /\ 0 % P = 0 /\ (0 + P - 1) \div P = 0
  <1>1. \A i \in 0 .. P - 1 : i \div P = 0 /\ i % P = i
    <2> SUFFICES ASSUME NEW i \in 0 .. P - 1 PROVE i \div P = 0 /\ i % P = i
      OBVIOUS
    <2>0. i \in Nat
      OBVIOUS
    <2>1. i = P * (i \div P) + (i % P) /\ i \div P \in Nat /\ i % P \in 0 .. P - 1
      BY <2>0, Divided
    <2>2. CASE i \div P >= 1
      <3>1. P * (i \div P) >= P
        BY <2>1, <2>2, PageAtLeast
      <3> QED BY <2>1, <3>1
    <2>3. CASE i \div P = 0
      <3>1. P * (i \div P) = 0
        BY <2>3
      <3> QED BY <2>1, <2>3, <3>1
    <2> QED BY <2>1, <2>2, <2>3
  <1> QED BY <1>1

(* There are at most as many pages as positions. *)
LEMMA PagesFew ==
  ASSUME NEW P \in Nat \ {0}, NEW i \in Nat
  PROVE  i \div P \in 0 .. i
  <1>1. i = P * (i \div P) + (i % P) /\ i \div P \in Nat /\ i % P \in 0 .. P - 1
    BY Divided
  <1>2. CASE i \div P >= 1
    <2>1. P * (i \div P) >= i \div P
      BY <1>1, <1>2, PageAtLeast
    <2> QED BY <1>1, <2>1
  <1> QED BY <1>1, <1>2
=============================================================================
