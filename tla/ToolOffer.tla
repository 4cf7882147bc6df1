----------------------------- MODULE ToolOffer -----------------------------
(***************************************************************************)
(* What a turn may use: the names of its mode, narrowed by its caller, are *)
(* resolved by the registry (ToolRegistry), filtered by the ToolAuthorizer *)
(* (tools.py) and offered to the model by AgentRuntime._offer; the         *)
(* authorizer is asked again at each call.                                 *)
(*                                                                         *)
(* A turn keeps the tools it has resolved.  One that is under way when the *)
(* registry changes is not affected, and is not followed any further.  The *)
(* host's policies are its own code: what they answer is any answer.       *)
(***************************************************************************)
EXTENDS ToolRegistry

CONSTANTS
    CompleteTask,   \* the name "complete_task"
    Modes,          \* the lists of tools that modes have
    Requests,       \* the lists callers narrow them to, or None
    Authorizers,    \* the authorizers a runtime may have, or None
    Unset,          \* an option that an agent does not override
    NoTurn

(* The options of an authorizer, and what an agent overrides.              *)
Options == [enabled : BOOLEAN, offer : BOOLEAN, call : BOOLEAN]
Overrides == [enabled : BOOLEAN \cup {Unset}, offer : BOOLEAN \cup {Unset},
              call : BOOLEAN \cup {Unset}]

(* A policy that would never be consulted is refused at construction.      *)
Consulted(o) == o.enabled \/ (~o.offer /\ ~o.call)

ASSUME OfferAssumption ==
    /\ CompleteTask \in Name
    /\ Modes \subseteq Seq(Name \cup {Star})
    /\ None \notin Modes
    /\ Requests \subseteq Seq(Name \cup {Star}) \cup {None}
    /\ \A a \in Authorizers \ {None} :
          a \in [root : Options, agent : Overrides] /\ Consulted(a.root)

VARIABLE turn       \* the turn that is followed

vars == <<registry, turn>>

Offered == [under : Name, called : Name, by : Owner,
            source : {"static", "factory", "provider"}]
Turn == [mode : Modes, offered : SUBSET Offered, checks : {"no", "none", "call"},
         ran : SUBSET (Name \X {"asked", "unasked"})]

TypeOK == RegistryTypeOK /\ turn \in Turn \cup {NoTurn}

Init == RegistryInit /\ turn = NoTurn

-----------------------------------------------------------------------------
Lists(list, n) == \E i \in DOMAIN list : list[i] = n

(* _narrowed_tools: a name outside of the mode's list is refused.          *)
Narrowable(mode, request) ==
    request # None /\ ~Lists(request, Star) /\ ~Lists(mode, Star) =>
        \A i \in DOMAIN request : Lists(mode, request[i])

Narrowed(mode, request) ==
    IF request = None \/ Lists(request, Star) THEN mode ELSE request

(* A named agent's list is a ceiling; a legacy runtime may have been told  *)
(* to let callers replace it.                                              *)
Admits(mode, request, widening) ==
    kind = "named" \/ ~widening => Narrowable(mode, request)

Names(mode, request, widening) ==
    IF kind = "named" \/ ~widening THEN Narrowed(mode, request)
    ELSE IF request \in {None, <<>>} THEN mode ELSE request

(* The authorizer's options for this namespace.                            *)
Over(own, inherited) == IF own = Unset THEN inherited ELSE own
Scoped(a) ==
    IF kind # "named" THEN a.root
    ELSE [enabled |-> Over(a.agent.enabled, a.root.enabled),
          offer |-> Over(a.agent.offer, a.root.offer),
          call |-> Over(a.agent.call, a.root.call)]

(* Variant: any authorizer that is enabled will do.                        *)
SafeEnabled(a, resolved) ==
    kind = "named" /\ (\E t \in resolved : t.under = CompleteTask) =>
        a # None /\ Scoped(a).enabled

(* Named task completion needs an explicit call policy. *)
Safe(a, resolved) ==
    kind = "named" /\ (\E t \in resolved : t.under = CompleteTask) =>
        a # None /\ Scoped(a).enabled /\ Scoped(a).call

(* How the calls of the tools it offers are checked.                       *)
Checks(a) ==
    IF a = None \/ ~Scoped(a).enabled THEN "no"
    ELSE IF Scoped(a).call THEN "call" ELSE "none"

(* allowed: all of them, unless there is a policy that refuses some.       *)
Allows(a, resolved, offered) ==
    IF a # None /\ Scoped(a).enabled /\ Scoped(a).offer
    THEN offered \subseteq resolved ELSE offered = resolved

(* _offer, at the start of a turn. *)
Begin(mode, request, widening, a) ==
    /\ turn = NoTurn
    /\ Admits(mode, request, widening)
    /\ a # None => Consulted(Scoped(a))
    /\ \E found \in [DOMAIN providers -> SUBSET Name], builds \in [Name -> Name] :
        LET names == Selected(Names(mode, request, widening), found)
            resolved == Resolved(names, found, builds)
        IN  /\ Resolvable(names, found, builds)
            /\ Safe(a, resolved)
            /\ \E offered \in SUBSET resolved :
                /\ Allows(a, resolved, offered)
                /\ turn' = [mode |-> mode, offered |-> offered,
                            checks |-> Checks(a), ran |-> {}]
    /\ UNCHANGED registry

(* The model calls a tool it is offered: its handler runs, after the call  *)
(* policy has let it, if there is one.  A refused call changes nothing.    *)
Call(t) ==
    /\ turn' = [turn EXCEPT !.ran = @ \cup
            {<<t.called, IF turn.checks = "call" THEN "asked" ELSE "unasked">>}]
    /\ UNCHANGED registry

End ==
    /\ turn # NoTurn
    /\ turn' = NoTurn
    /\ UNCHANGED registry

Change == RegistryNext /\ turn' = NoTurn

Next ==
    \/ Change
    \/ \E mode \in Modes, request \in Requests, widening \in BOOLEAN, a \in Authorizers :
          Begin(mode, request, widening, a)
    \/ End
    \/ turn # NoTurn /\ \E t \in turn.offered : Call(t)

Spec == Init /\ [][Next]_vars

-----------------------------------------------------------------------------
(* What a strict registry offers is what its mode asked for: each tool     *)
(* answers to the name under which it was listed, which is the name that   *)
(* approvals are set on, no two answer to one name, and each has the       *)
(* owner and source that descriptors report, whatever providers find and   *)
(* factories build (tools.py 200-255, runtime.py 284-297).                 *)
OfferFaithful ==
    Strict /\ turn # NoTurn => \A t \in turn.offered :
        /\ t.called = t.under
        /\ \A u \in turn.offered : u.called = t.called => u = t
        /\ IF t.source = "provider"
           THEN Claims(t.called) = {} /\ \E i \in DOMAIN providers : providers[i].by = t.by
           ELSE Claims(t.called) = {[by |-> t.by, source |-> t.source]}

(* "The mode list is the ceiling": a named agent is offered nothing else,  *)
(* and "Named task completion requires enabled authorization and an        *)
(* explicit call policy": no task is completed by a named agent's model    *)
(* unless the policy was asked about that call, whoever overrides what in  *)
(* the authorizer and whatever registers, finds or builds the tool         *)
(* (README.md 78-81, runtime.py 275-283, tools.py 276-280, 319-335).       *)
CompletionGuarded ==
    kind = "named" /\ turn # NoTurn =>
        /\ \A t \in turn.offered : Lists(turn.mode, t.called) \/ Lists(turn.mode, Star)
        /\ <<CompleteTask, "unasked">> \notin turn.ran
=============================================================================
