CONSTANTS
    Name = {complete, search}
    Sorted <- TestSorted
    Star = Star
    Owner = {o1, o2}
    Label = {l0, l1}
    AutoLabel <- TestAutoLabel
    MaxProviders = 2
    None = None
    CompleteTask = complete
    Modes <- TestModes
    Requests <- TestRequests
    Authorizers <- TestAuthorizers
    Unset = Unset
    NoTurn = NoTurn
    search = search
    l0 = l0
    l1 = l1
SYMMETRY OwnersAlike
SPECIFICATION Spec
INVARIANTS
    TypeOK
    ClaimsExclusive
    OfferFaithful
    CompletionGuarded
