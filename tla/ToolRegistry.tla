---------------------------- MODULE ToolRegistry ----------------------------
(***************************************************************************)
(* One ToolRegistry (tools.py): the tools, factories and providers that    *)
(* the parts of an application register under its names, and how a list    *)
(* of names resolves.                                                      *)
(*                                                                         *)
(* A registration is known by the label of its owner.  What a provider     *)
(* finds, and the name of the tool a factory builds, are found out each    *)
(* time the registry resolves, so they are parameters of Resolvable and    *)
(* Resolved and not part of the state.                                     *)
(***************************************************************************)
EXTENDS Naturals, Sequences

CONSTANTS
    Name,           \* tool names
    Sorted,         \* all of them, in order
    Star,           \* "*", every tool there is
    Owner,          \* labels of owners
    Label,          \* names of providers
    AutoLabel,      \* the label a provider without a name gets, by their number
    MaxProviders,   \* bound on the providers
    None            \* not registered, no predecessor

Claim == [by : Owner, source : {"static", "factory"}]

ASSUME RegistryAssumption ==
    /\ Sorted \in Seq(Name)
    /\ \A n \in Name : \E i \in DOMAIN Sorted : Sorted[i] = n
    /\ Star \notin Name
    /\ None \notin Owner \cup Claim
    /\ MaxProviders \in Nat
    /\ AutoLabel \in [0 .. MaxProviders - 1 -> Label]

VARIABLES
    kind,           \* of a named agent, refusing duplicates, or legacy
    tools,          \* owner of the static tool under each name
    factories,      \* owner of the factory under each name
    metadata,       \* last claim on each name
    providers       \* the providers, first registered first

registry == <<kind, tools, factories, metadata, providers>>

(* A provider's label is a key: none is there twice.                       *)
RegistryTypeOK ==
    /\ kind \in {"named", "refusing", "legacy"}
    /\ tools \in [Name -> Owner \cup {None}]
    /\ factories \in [Name -> Owner \cup {None}]
    /\ metadata \in [Name -> Claim \cup {None}]
    /\ providers \in Seq([label : Label, by : Owner])
    /\ \A i, j \in DOMAIN providers : providers[i].label = providers[j].label => i = j

RegistryInit ==
    /\ kind \in {"named", "refusing", "legacy"}
    /\ tools = [n \in Name |-> None]
    /\ factories = [n \in Name |-> None]
    /\ metadata = [n \in Name |-> None]
    /\ providers = <<>>

-----------------------------------------------------------------------------
(* Registration.                                                           *)

Strict == kind # "legacy"

(* _claim raises otherwise: a replacement names the last claimant, and a   *)
(* strict registry lets nobody else take a name.                           *)
Claimable(n, predecessor) ==
    IF predecessor # None
    THEN metadata[n] # None /\ metadata[n].by = predecessor
    ELSE Strict => metadata[n] = None

(* Variant: a replacement of one kind leaves the other kind alone.         *)
Same(f, n, predecessor) == f

(* The names that _claim leaves in a table.                                *)
Kept(f, n, predecessor) ==
    IF Strict \/ predecessor # None THEN [f EXCEPT ![n] = None] ELSE f

ClaimTool(n, by, predecessor) ==
    /\ Claimable(n, predecessor)
    /\ tools' = [tools EXCEPT ![n] = by]
    /\ factories' = Kept(factories, n, predecessor)
    /\ metadata' = [metadata EXCEPT ![n] = [by |-> by, source |-> "static"]]
    /\ UNCHANGED <<kind, providers>>

ClaimFactory(n, by, predecessor) ==
    /\ Claimable(n, predecessor)
    /\ tools' = Kept(tools, n, predecessor)
    /\ factories' = [factories EXCEPT ![n] = by]
    /\ metadata' = [metadata EXCEPT ![n] = [by |-> by, source |-> "factory"]]
    /\ UNCHANGED <<kind, providers>>

Register(n, by) == ClaimTool(n, by, None)
Replace(n, by, predecessor) == ClaimTool(n, by, predecessor)
RegisterFactory(n, by) == ClaimFactory(n, by, None)
ReplaceFactory(n, by, predecessor) == ClaimFactory(n, by, predecessor)

At(label) == {i \in DOMAIN providers : providers[i].label = label}

(* Variant: a provider that is registered again is there twice.            *)
PutProviderAgain(label, by) ==
    providers' = Append(providers, [label |-> label, by |-> by])

(* A provider registered again keeps its place.                            *)
PutProvider(label, by) ==
    IF At(label) = {}
    THEN providers' = Append(providers, [label |-> label, by |-> by])
    ELSE providers' = [i \in DOMAIN providers |->
            IF i \in At(label) THEN [label |-> label, by |-> by] ELSE providers[i]]

RegisterProvider(label, by) ==
    /\ Strict => At(label) = {}
    /\ At(label) = {} => Len(providers) < MaxProviders
    /\ PutProvider(label, by)
    /\ UNCHANGED <<kind, tools, factories, metadata>>

(* Outside of named agents a provider may come without a name.             *)
RegisterAnonymous(by) ==
    /\ kind # "named"
    /\ Len(providers) < MaxProviders
    /\ RegisterProvider(AutoLabel[Len(providers)], by)

ReplaceProvider(label, by, predecessor) ==
    /\ \E i \in At(label) : providers[i].by = predecessor
    /\ PutProvider(label, by)
    /\ UNCHANGED <<kind, tools, factories, metadata>>

RegistryNext ==
    \E by \in Owner :
        \/ \E n \in Name : Register(n, by) \/ RegisterFactory(n, by)
        \/ \E n \in Name, p \in Owner : Replace(n, by, p) \/ ReplaceFactory(n, by, p)
        \/ \E l \in Label : RegisterProvider(l, by)
        \/ \E l \in Label, p \in Owner : ReplaceProvider(l, by, p)
        \/ RegisterAnonymous(by)

-----------------------------------------------------------------------------
(* Resolution, with what the providers have found and the factories build. *)

Finders(n, found) == {i \in DOMAIN providers : n \in found[i]}

(* In a strict registry a provider may not find a name that is taken.  One *)
(* that finds a name twice is refused too, which changes no state; in a    *)
(* legacy registry the second tool has the same owner as the first.        *)
Gathered(found) ==
    Strict => \A n \in Name :
        /\ Finders(n, found) # {} => metadata[n] = None
        /\ \A i, j \in Finders(n, found) : i = j

Available(found) ==
    {n \in Name : tools[n] # None \/ factories[n] # None \/ Finders(n, found) # {}}

(* In the order in which they are resolved; with "*", the sorted order.    *)
Selected(list, found) ==
    IF \E i \in DOMAIN list : list[i] = Star
    THEN [i \in {j \in DOMAIN Sorted : Sorted[j] \in Available(found)} |-> Sorted[i]]
    ELSE list

(* A tool comes before what a provider finds, and that before a factory.   *)
Built(n, found) == tools[n] = None /\ Finders(n, found) = {}

(* Variant: the name of what a factory builds is not looked at.            *)
ResolvableAnyName(names, found, builds) ==
    Gathered(found) /\ \A k \in DOMAIN names : names[k] \in Available(found)

(* resolve_detailed raises otherwise.                                      *)
Resolvable(names, found, builds) ==
    /\ Gathered(found)
    /\ \A k \in DOMAIN names :
        /\ names[k] \in Available(found)
        /\ Strict /\ Built(names[k], found) => builds[names[k]] = names[k]

(* The positions before k whose factory built the name at k: the claim on  *)
(* their own name has become the claim on it.                              *)
Renames(names, k, found, builds) ==
    {j \in DOMAIN names :
        /\ j < k
        /\ Built(names[j], found)
        /\ builds[names[j]] # names[j]
        /\ builds[names[j]] = names[k]}

Own(n, found) ==
    IF Finders(n, found) = {} THEN metadata[n]
    ELSE [by |-> providers[CHOOSE i \in Finders(n, found) :
                              \A j \in Finders(n, found) : j <= i].by,
          source |-> "provider"]

(* The claim on the name at k by the time it is resolved.                  *)
Claimed(names, k, found, builds) ==
    LET last(i) == CHOOSE j \in Renames(names, i, found, builds) :
                       \A l \in Renames(names, i, found, builds) : l <= j
        claim[i \in DOMAIN names] ==
            IF Renames(names, i, found, builds) = {} THEN Own(names[i], found)
            ELSE claim[last(i)]
    IN  IF Renames(names, k, found, builds) = {} THEN Own(names[k], found)
        ELSE claim[last(k)]

(* What the name at k resolves to: the tool's own name, and its claim.     *)
Detail(names, k, found, builds) ==
    LET n == names[k] IN
    IF tools[n] # None
    THEN [under |-> n, called |-> n, by |-> tools[n], source |-> "static"]
    ELSE IF Finders(n, found) # {}
    THEN LET c == Claimed(names, k, found, builds) IN
         [under |-> n, called |-> n, by |-> c.by, source |-> c.source]
    ELSE [under |-> n, called |-> builds[n], by |-> factories[n], source |-> "factory"]

(* One for each name, the last time it is listed.                          *)
Resolved(names, found, builds) ==
    {Detail(names, k, found, builds) :
        k \in {i \in DOMAIN names : \A j \in DOMAIN names : names[j] = names[i] => j <= i}}

-----------------------------------------------------------------------------
(* The registrations under a name. *)
Claims(n) ==
    {c \in Claim : \/ c.source = "static" /\ c.by = tools[n]
                   \/ c.source = "factory" /\ c.by = factories[n]}

(* "A named-agent repeated registration fails even for the same owner;     *)
(* replace makes intended replacement explicit" (README.md 91-93): in a    *)
(* strict registry a name has one registration at most, whatever was       *)
(* registered and replaced under it, as a tool or as a factory, and the    *)
(* claim that a collision or a replacement is judged by is that one        *)
(* (tools.py 102-179).                                                     *)
ClaimsExclusive ==
    Strict => \A n \in Name :
        Claims(n) = IF metadata[n] = None THEN {} ELSE {metadata[n]}
=============================================================================
