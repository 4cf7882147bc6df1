----------------------------- MODULE AddressLog -----------------------------
(***************************************************************************)
(* What the address index of a participant promises (address_index.py):    *)
(* a list of session addresses that only ever grows at its end, each with  *)
(* the resources recorded for it, which are never taken off it.            *)
(***************************************************************************)
EXTENDS Sequences

CONSTANTS
    Address,    \* the session addresses of one participant
    Resource    \* what may be kept under an address: slot, kind and key

VARIABLES
    log,        \* the indexed addresses, in the order of their positions
    held        \* the resources indexed for each address

vars == <<log, held>>

Listed(a) == \E i \in DOMAIN log : log[i] = a

Init == log = <<>> /\ held = [a \in Address |-> {}]

(* A new address arrives with its first resource. *)
Add(a, r) ==
    /\ ~Listed(a)
    /\ log' = Append(log, a)
    /\ held' = [held EXCEPT ![a] = {r}]

(* An indexed address gets one more. *)
Attach(a, r) ==
    /\ Listed(a)
    /\ held' = [held EXCEPT ![a] = @ \cup {r}]
    /\ UNCHANGED log

Next == \E a \in Address, r \in Resource : Add(a, r) \/ Attach(a, r)

Spec == Init /\ [][Next]_vars
=============================================================================
