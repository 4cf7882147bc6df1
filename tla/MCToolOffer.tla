---------------------------- MODULE MCToolOffer ----------------------------
(***************************************************************************)
(* Instances of ToolOffer: two names, one of them complete_task, two       *)
(* owners, up to two providers.                                            *)
(***************************************************************************)
EXTENDS ToolOffer, TLC

CONSTANTS search, l0, l1

OwnersAlike == Permutations(Owner)

TestSorted == <<CompleteTask, search>>
TestAutoLabel == (0 :> l0) @@ (1 :> l1)
TestModes == {<<CompleteTask, search>>, <<search>>, <<Star>>}
TestRequests == {None, <<>>, <<CompleteTask>>, <<Star>>}

Auth(enabled, offer, call, own, ownCall) ==
    [root |-> [enabled |-> enabled, offer |-> offer, call |-> call],
     agent |-> [enabled |-> own, offer |-> Unset, call |-> ownCall]]

(* None; off; an offer policy; both; a call policy that the agent drops,   *)
(* adds or turns off with the rest.                                        *)
TestAuthorizers ==
    {None,
     Auth(FALSE, FALSE, FALSE, Unset, Unset),
     Auth(TRUE, TRUE, FALSE, Unset, Unset),
     Auth(TRUE, TRUE, TRUE, Unset, Unset),
     Auth(TRUE, FALSE, TRUE, Unset, FALSE),
     Auth(FALSE, FALSE, FALSE, TRUE, TRUE),
     Auth(TRUE, FALSE, TRUE, FALSE, Unset)}
=============================================================================
