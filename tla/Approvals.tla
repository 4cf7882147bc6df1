------------------------------ MODULE Approvals ------------------------------
(***************************************************************************)
(* What approvals promise (AgentRuntime._resolve_approvals in runtime.py): *)
(* the model asks for calls that need a person, a person answers, and a    *)
(* call runs only as it was approved, once, and what the model is told of  *)
(* it is what happened to it.  Who resumes, and when, is left open.        *)
(***************************************************************************)
EXTENDS Naturals

CONSTANTS
    Call        \* the calls that need a person

VARIABLES
    asked,      \* calls a person has been asked about
    allowed,    \* those whose tool the asking run was offered
    approved,   \* calls somebody has approved
    denied,     \* calls somebody has denied
    ran,        \* how often the tool of each call has run
    told,       \* what the model has been told of each call
    cuts        \* turns cut off so far, with what they had not told

vars == <<asked, allowed, approved, denied, ran, told, cuts>>

Init ==
    /\ asked = {} /\ allowed = {}
    /\ approved = {} /\ denied = {}
    /\ ran = [c \in Call |-> 0]
    /\ told = {}
    /\ cuts = 0

(* New calls S are asked about; the tools of T are offered.                *)
Ask(S, T) ==
    /\ S # {} /\ S \cap asked = {} /\ T \subseteq S
    /\ asked' = asked \cup S
    /\ allowed' = allowed \cup T
    /\ UNCHANGED <<approved, denied, ran, told, cuts>>

(* A person answers, once or again.                                        *)
Approve(c) ==
    /\ c \in asked
    /\ approved' = approved \cup {c}
    /\ UNCHANGED <<asked, allowed, denied, ran, told, cuts>>

Deny(c) ==
    /\ c \in asked
    /\ denied' = denied \cup {c}
    /\ UNCHANGED <<asked, allowed, approved, ran, told, cuts>>

Settled(c) == \E p \in told : p[1] = c

(* An approved call runs while nothing is settled about it, and once more  *)
(* for each turn that was cut off; its own result may end the turn.        *)
Run(c) ==
    /\ c \in approved \cap allowed
    /\ ~Settled(c)
    /\ ran[c] <= cuts
    /\ ran' = [ran EXCEPT ![c] = @ + 1]
    /\ cuts' \in {cuts, cuts + 1}
    /\ UNCHANGED <<asked, allowed, approved, denied, told>>

(* What may be said of a call: a result if it ran, that it was denied if   *)
(* it was, that it could not run if it was approved, or that nobody spoke. *)
Fact(c, o) ==
    \/ o = "ran" /\ ran[c] > 0
    \/ o = "denied" /\ c \in denied
    \/ o \in {"refused", "unavailable"} /\ c \in approved
    \/ o = "unanswered"

Facts ==
    {p \in asked \X {"ran", "denied", "refused", "unavailable", "unanswered"} : Fact(p[1], p[2])}

Tell(P) ==
    /\ told' = told \cup P
    /\ UNCHANGED <<asked, allowed, approved, denied, ran, cuts>>

(* A turn is cut off; what it has done and not told stays untold.          *)
Cut ==
    /\ cuts' = cuts + 1
    /\ UNCHANGED <<asked, allowed, approved, denied, ran, told>>

Next ==
    \/ \E S \in SUBSET Call : \E T \in SUBSET S : Ask(S, T)
    \/ \E c \in Call : Approve(c) \/ Deny(c) \/ Run(c)
    \/ \E P \in SUBSET Facts : Tell(P)
    \/ Cut

Spec == Init /\ [][Next]_vars
=============================================================================
