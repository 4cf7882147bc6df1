-------------------------- MODULE ToolOfferProofs --------------------------
(***************************************************************************)
(* Proofs about ToolRegistry and ToolOffer, for any names, owners, lists   *)
(* of modes and callers, authorizers and number of providers.              *)
(*                                                                         *)
(* Sole says of each name what ClaimsExclusive says of the set of its      *)
(* registrations; with it a claim that passes Claimable clears the only    *)
(* registration there is.  The turn is proved about at the step that       *)
(* begins it, since every change of the registry lets go of it.            *)
(*                                                                         *)
(* Whose claim a provided tool is reported with in a legacy registry is a  *)
(* recursive function of the names before it.  What it returns is proved   *)
(* about by its least counterexample (Least, ChainExists, ChainType).      *)
(***************************************************************************)
EXTENDS ToolOffer, WellFoundedInduction, TLAPS

Is(n, source) == metadata[n] # None /\ metadata[n].source = source

(* What metadata says of a name is what is registered under it. *)
Sole ==
    Strict => \A n \in Name :
        /\ tools[n] = IF Is(n, "static") THEN metadata[n].by ELSE None
        /\ factories[n] = IF Is(n, "factory") THEN metadata[n].by ELSE None

(* What is registered under a name has left a claim there.                 *)
Registered == \A n \in Name : tools[n] # None \/ factories[n] # None => metadata[n] # None

(* The claims that a name may be reported with. *)
Found == [by : Owner, source : {"static", "factory", "provider"}]

(* A named agent's turn that can complete tasks asks about its calls. *)
Asks ==
    kind = "named" /\ turn # NoTurn =>
        \A t \in turn.offered : t.called = CompleteTask => turn.checks = "call"

TurnShape ==
    turn # NoTurn =>
        turn = [mode |-> turn.mode, offered |-> turn.offered,
                checks |-> turn.checks, ran |-> turn.ran]

Inv == RegistryTypeOK /\ Sole /\ TurnShape /\ OfferFaithful /\ CompletionGuarded /\ Asks

-----------------------------------------------------------------------------
(* Registration.                                                           *)

(* What Sole says is what ClaimsExclusive says (tools.py 164-179).         *)
LEMMA SoleClaims ==
    ASSUME RegistryTypeOK, Sole, Strict, NEW n \in Name
    PROVE  Claims(n) = IF metadata[n] = None THEN {} ELSE {metadata[n]}
<1>1. CASE metadata[n] = None
    BY <1>1, RegistryAssumption DEF RegistryTypeOK, Sole, Is, Claims, Claim
<1>2. CASE metadata[n] # None
  <2>1. metadata[n] \in Claim
    BY <1>2 DEF RegistryTypeOK
  <2>2. ASSUME NEW c \in Claims(n)
        PROVE  c = metadata[n]
    BY <1>2, <2>1, <2>2, RegistryAssumption DEF Sole, Is, Claims, Claim
  <2>3. metadata[n] \in Claims(n)
    BY <1>2, <2>1 DEF Sole, Is, Claims, Claim
  <2> QED
    BY <1>2, <2>2, <2>3
<1> QED
    BY <1>1, <1>2

(* A static tool that is registered or replaces another (tools.py 102-106, *)
(* 138-144).                                                               *)
LEMMA ToolClaimed ==
    ASSUME RegistryTypeOK, Sole, NEW n \in Name, NEW by \in Owner,
           NEW p \in Owner \cup {None}, ClaimTool(n, by, p)
    PROVE  RegistryTypeOK' /\ Sole'
<1>1. [by |-> by, source |-> "static"] \in Claim
    BY DEF Claim
<1>2. factories' \in [Name -> Owner \cup {None}]
    BY DEF ClaimTool, Kept, RegistryTypeOK
<1>3. RegistryTypeOK'
    BY <1>1, <1>2 DEF ClaimTool, RegistryTypeOK
<1>4. ASSUME Strict
      PROVE  Sole'
  <2>1. tools'[n] = by /\ factories'[n] = None
    BY <1>4 DEF ClaimTool, Kept, RegistryTypeOK
  <2>2. metadata'[n] = [by |-> by, source |-> "static"] /\ metadata'[n] # None
    BY <1>1, RegistryAssumption DEF ClaimTool, RegistryTypeOK
  <2>3. \A m \in Name \ {n} :
           tools'[m] = tools[m] /\ factories'[m] = factories[m] /\ metadata'[m] = metadata[m]
    BY DEF ClaimTool, Kept, RegistryTypeOK
  <2> QED
    BY <1>4, <2>1, <2>2, <2>3 DEF Sole, Is
<1> QED
    BY <1>3, <1>4 DEF Sole, Strict, ClaimTool

(* A factory (tools.py 113-119, 146-152).                                  *)
LEMMA FactoryClaimed ==
    ASSUME RegistryTypeOK, Sole, NEW n \in Name, NEW by \in Owner,
           NEW p \in Owner \cup {None}, ClaimFactory(n, by, p)
    PROVE  RegistryTypeOK' /\ Sole'
<1>1. [by |-> by, source |-> "factory"] \in Claim
    BY DEF Claim
<1>2. tools' \in [Name -> Owner \cup {None}]
    BY DEF ClaimFactory, Kept, RegistryTypeOK
<1>3. RegistryTypeOK'
    BY <1>1, <1>2 DEF ClaimFactory, RegistryTypeOK
<1>4. ASSUME Strict
      PROVE  Sole'
  <2>1. factories'[n] = by /\ tools'[n] = None
    BY <1>4 DEF ClaimFactory, Kept, RegistryTypeOK
  <2>2. metadata'[n] = [by |-> by, source |-> "factory"] /\ metadata'[n] # None
    BY <1>1, RegistryAssumption DEF ClaimFactory, RegistryTypeOK
  <2>3. \A m \in Name \ {n} :
           tools'[m] = tools[m] /\ factories'[m] = factories[m] /\ metadata'[m] = metadata[m]
    BY DEF ClaimFactory, Kept, RegistryTypeOK
  <2> QED
    BY <1>4, <2>1, <2>2, <2>3 DEF Sole, Is
<1> QED
    BY <1>3, <1>4 DEF Sole, Strict, ClaimFactory

(* A provider takes the place of its label or a new one (tools.py 121-136, *)
(* 154-162).                                                               *)
LEMMA ProviderPut ==
    ASSUME RegistryTypeOK, Sole, NEW l \in Label, NEW by \in Owner,
           PutProvider(l, by), UNCHANGED <<kind, tools, factories, metadata>>
    PROVE  RegistryTypeOK' /\ Sole'
<1> DEFINE new == [label |-> l, by |-> by]
<1>1. new \in [label : Label, by : Owner]
    OBVIOUS
<1>2. providers \in Seq([label : Label, by : Owner])
    BY DEF RegistryTypeOK
<1>3. /\ providers' \in Seq([label : Label, by : Owner])
      /\ \A i, j \in DOMAIN providers' : providers'[i].label = providers'[j].label => i = j
  <2>1. CASE At(l) = {}
    <3>1. providers' = Append(providers, new)
        BY <2>1 DEF PutProvider
    <3>2. /\ providers' \in Seq([label : Label, by : Owner])
          /\ DOMAIN providers' = 1 .. Len(providers) + 1
          /\ \A i \in 1 .. Len(providers) : providers'[i] = providers[i]
          /\ providers'[Len(providers) + 1] = new
        BY <1>1, <1>2, <3>1
    <3>3. \A i \in 1 .. Len(providers) : providers[i].label # l
        BY <1>2, <2>1 DEF At
    <3> QED
        BY <1>2, <3>2, <3>3 DEF RegistryTypeOK
  <2>2. CASE At(l) # {}
    <3>1. providers' = [i \in DOMAIN providers |-> IF i \in At(l) THEN new ELSE providers[i]]
        BY <2>2 DEF PutProvider
    <3>2. providers' \in Seq([label : Label, by : Owner])
        BY <1>1, <1>2, <3>1
    <3>3. \A i \in DOMAIN providers : providers'[i].label = providers[i].label
        BY <3>1 DEF At
    <3> QED
        BY <3>1, <3>2, <3>3 DEF RegistryTypeOK
  <2> QED
    BY <2>1, <2>2
<1>4. RegistryTypeOK'
    BY <1>3 DEF RegistryTypeOK
<1> QED
    BY <1>4 DEF Sole, Is, Strict

(* Every operation of the registry.                                        *)
LEMMA RegistryStep ==
    ASSUME RegistryTypeOK, Sole, RegistryNext
    PROVE  RegistryTypeOK' /\ Sole'
<1>1. ASSUME NEW by \in Owner, NEW n \in Name, Register(n, by) \/ RegisterFactory(n, by)
      PROVE  RegistryTypeOK' /\ Sole'
    BY <1>1, ToolClaimed, FactoryClaimed DEF Register, RegisterFactory
<1>2. ASSUME NEW by \in Owner, NEW n \in Name, NEW p \in Owner,
             Replace(n, by, p) \/ ReplaceFactory(n, by, p)
      PROVE  RegistryTypeOK' /\ Sole'
    BY <1>2, ToolClaimed, FactoryClaimed DEF Replace, ReplaceFactory
<1>3. ASSUME NEW by \in Owner, NEW l \in Label, RegisterProvider(l, by)
      PROVE  RegistryTypeOK' /\ Sole'
    BY <1>3, ProviderPut DEF RegisterProvider
<1>4. ASSUME NEW by \in Owner, NEW l \in Label, NEW p \in Owner, ReplaceProvider(l, by, p)
      PROVE  RegistryTypeOK' /\ Sole'
    BY <1>4, ProviderPut DEF ReplaceProvider
<1>5. ASSUME NEW by \in Owner, RegisterAnonymous(by)
      PROVE  RegistryTypeOK' /\ Sole'
  <2>1. Len(providers) \in 0 .. MaxProviders - 1
    BY <1>5, RegistryAssumption DEF RegisterAnonymous, RegistryTypeOK
  <2>2. AutoLabel[Len(providers)] \in Label
    BY <2>1, RegistryAssumption
  <2> QED
    BY <1>5, <2>2, <1>3 DEF RegisterAnonymous
<1> QED
    BY <1>1, <1>2, <1>3, <1>4, <1>5 DEF RegistryNext

(* A registration comes with its claim (tools.py 164-179).                 *)
LEMMA RegisteredStep ==
    ASSUME RegistryTypeOK, Registered, RegistryNext
    PROVE  Registered'
<1>1. ASSUME NEW n \in Name, NEW by \in Owner, NEW p \in Owner \cup {None},
             ClaimTool(n, by, p) \/ ClaimFactory(n, by, p)
      PROVE  Registered'
  <2>1. [by |-> by, source |-> "static"] # None /\ [by |-> by, source |-> "factory"] # None
    BY RegistryAssumption DEF Claim
  <2>2. metadata'[n] # None
    BY <1>1, <2>1 DEF ClaimTool, ClaimFactory, RegistryTypeOK
  <2>3. \A m \in Name \ {n} :
           tools'[m] = tools[m] /\ factories'[m] = factories[m] /\ metadata'[m] = metadata[m]
    BY <1>1 DEF ClaimTool, ClaimFactory, Kept, RegistryTypeOK
  <2> QED
    BY <2>2, <2>3 DEF Registered
<1>2. CASE UNCHANGED <<tools, factories, metadata>>
    BY <1>2 DEF Registered
<1> QED
    BY <1>1, <1>2 DEF RegistryNext, Register, RegisterFactory, Replace, ReplaceFactory,
        RegisterProvider, ReplaceProvider, RegisterAnonymous

-----------------------------------------------------------------------------
(* Resolution.                                                             *)

(* The names that are resolved are names, by their places.                 *)
LEMMA SelectedNames ==
    ASSUME RegistryTypeOK, NEW list \in Seq(Name \cup {Star}), NEW found,
           \A k \in DOMAIN Selected(list, found) :
               Selected(list, found)[k] \in Available(found)
    PROVE  /\ DOMAIN Selected(list, found) \subseteq Nat
           /\ \A k \in DOMAIN Selected(list, found) :
                 /\ Selected(list, found)[k] \in Name
                 /\ Lists(list, Selected(list, found)[k]) \/ Lists(list, Star)
<1>1. Available(found) \subseteq Name
    BY DEF Available
<1>2. CASE \E i \in DOMAIN list : list[i] = Star
  <2> DEFINE places == {j \in DOMAIN Sorted : Sorted[j] \in Available(found)}
  <2>1. Selected(list, found) = [i \in places |-> Sorted[i]]
    BY <1>2 DEF Selected
  <2>2. places \subseteq Nat
    BY RegistryAssumption
  <2> QED
    BY <1>1, <1>2, <2>1, <2>2 DEF Lists
<1>3. CASE ~ \E i \in DOMAIN list : list[i] = Star
  <2>1. Selected(list, found) = list
    BY <1>3 DEF Selected
  <2> QED
    BY <1>1, <2>1 DEF Lists
<1> QED
    BY <1>2, <1>3

(* In a strict registry a name resolves to a tool of that name, from the   *)
(* one registration or the one provider that has it (tools.py 223-253).    *)
LEMMA StrictDetail ==
    ASSUME RegistryTypeOK, Sole, Strict, NEW names, NEW k \in DOMAIN names,
           DOMAIN names \subseteq Nat, \A j \in DOMAIN names : names[j] \in Name,
           NEW found \in [DOMAIN providers -> SUBSET Name], NEW builds \in [Name -> Name],
           Resolvable(names, found, builds), NEW t, t = Detail(names, k, found, builds)
    PROVE  /\ t.called = names[k] /\ t.under = names[k]
           /\ IF t.source = "provider"
              THEN Claims(t.called) = {} /\ \E i \in DOMAIN providers : providers[i].by = t.by
              ELSE Claims(t.called) = {[by |-> t.by, source |-> t.source]}
<1> DEFINE n == names[k]
<1>1. n \in Name /\ n \in Available(found)
    BY DEF Resolvable
<1>2. Claims(n) = IF metadata[n] = None THEN {} ELSE {metadata[n]}
    BY <1>1, SoleClaims
<1>3. metadata[n] # None =>
        metadata[n] = [by |-> metadata[n].by, source |-> metadata[n].source]
    BY <1>1 DEF RegistryTypeOK, Claim
<1>4. CASE tools[n] # None
  <2>1. t = [under |-> n, called |-> n, by |-> tools[n], source |-> "static"]
    BY <1>4 DEF Detail
  <2>2. metadata[n] # None /\ metadata[n].source = "static" /\ metadata[n].by = tools[n]
    BY <1>1, <1>4 DEF Sole, Is
  <2> QED
    BY <1>2, <1>3, <2>1, <2>2
<1>5. CASE tools[n] = None /\ Finders(n, found) # {}
  <2>1. metadata[n] = None /\ \A i, j \in Finders(n, found) : i = j
    BY <1>1, <1>5 DEF Resolvable, Gathered
  <2>2. Renames(names, k, found, builds) = {}
    BY <1>1 DEF Renames, Resolvable
  <2>3. Claimed(names, k, found, builds) = Own(n, found)
    BY <2>2 DEF Claimed
  <2>4. PICK i \in Finders(n, found) : \A j \in Finders(n, found) : j <= i
    <3>1. PICK i \in Finders(n, found) : TRUE
        BY <1>5
    <3>2. i \in Nat
        BY <3>1 DEF Finders, RegistryTypeOK
    <3> QED
        BY <2>1, <3>1, <3>2
  <2> DEFINE last == CHOOSE j \in Finders(n, found) : \A l \in Finders(n, found) : l <= j
  <2>5. last \in Finders(n, found)
    BY <2>4
  <2>6. Own(n, found) = [by |-> providers[last].by, source |-> "provider"]
    BY <1>5 DEF Own
  <2>7. t = [under |-> n, called |-> n, by |-> providers[last].by, source |-> "provider"]
    BY <1>5, <2>3, <2>6 DEF Detail
  <2>8. last \in DOMAIN providers
    BY <2>5 DEF Finders
  <2>9. /\ t.under = n /\ t.called = n
        /\ t.by = providers[last].by /\ t.source = "provider"
    BY <2>7
  <2>10. Claims(t.called) = {}
    BY <1>2, <2>1, <2>9
  <2>11. \E m \in DOMAIN providers : providers[m].by = t.by
    BY <2>8, <2>9
  <2> QED
    BY <2>9, <2>10, <2>11
<1>6. CASE tools[n] = None /\ Finders(n, found) = {}
  <2>1. builds[n] = n
    BY <1>6 DEF Resolvable, Built
  <2>2. factories[n] # None
    BY <1>1, <1>6 DEF Available
  <2>3. t = [under |-> n, called |-> n, by |-> factories[n], source |-> "factory"]
    BY <1>6, <2>1 DEF Detail
  <2>4. metadata[n] # None /\ metadata[n].source = "factory" /\ metadata[n].by = factories[n]
    BY <1>1, <2>2 DEF Sole, Is
  <2> QED
    BY <1>2, <1>3, <2>3, <2>4
<1> QED
    BY <1>4, <1>5, <1>6

-----------------------------------------------------------------------------
(* Claims that pass from name to name, as a factory lends its own.         *)

(* The least-number principle: induction over data rests on it here.       *)
LEMMA Least ==
    ASSUME NEW S \in SUBSET Nat, S # {}
    PROVE  \E m \in S : \A i \in S : m <= i
<1>1. PICK m \in S : \A i \in S : ~ (<<i, m>> \in OpToRel(<, Nat))
    BY NatLessThanWellFounded, WFMin, Zenon
<1>2. \A i \in S : ~ (i < m)
  <2> SUFFICES ASSUME NEW i \in S, i < m PROVE FALSE
    OBVIOUS
  <2>1. <<i, m>> \in Nat \X Nat
    OBVIOUS
  <2>2. <<i, m>> \in OpToRel(<, Nat)
    BY <2>1, Zenon DEF OpToRel
  <2> QED
    BY <1>1, <2>2, Zenon
<1> QED
    BY <1>2

(* A bounded set of numbers has a greatest one.                            *)
LEMMA Greatest ==
    ASSUME NEW S \in SUBSET Nat, S # {}, NEW b \in Nat, \A i \in S : i <= b
    PROVE  \E m \in S : \A i \in S : i <= m
<1> DEFINE Bounds == {c \in Nat : \A i \in S : i <= c}
<1>1. PICK c \in Bounds : \A d \in Bounds : c <= d
  <2>1. b \in Bounds
    OBVIOUS
  <2> QED
    BY <2>1, Least
<1>2. CASE c \in S
    BY <1>2
<1>3. CASE c \notin S
  <2>1. \A i \in S : i < c
    BY <1>3
  <2>2. c # 0
    BY <2>1, \E i \in S : TRUE
  <2>3. c - 1 \in Bounds
    BY <2>1, <2>2
  <2> QED
    BY <1>1, <2>3
<1> QED
    BY <1>2, <1>3

(* f is found at each number by stepping down to a root, with prev.        *)
Chain(f, D, root, own, prev) ==
    f = [i \in D |-> IF i \in root THEN own[i] ELSE f[prev[i]]]

(* There is such a function when each step leads to a smaller number: a    *)
(* least n below which there is none would be one more than a good one.    *)
LEMMA ChainExists ==
    ASSUME NEW D \in SUBSET Nat, NEW b \in Nat, \A i \in D : i < b,
           NEW own, NEW root \in SUBSET D, NEW prev \in [D -> Nat],
           \A i \in D \ root : prev[i] \in D /\ prev[i] < i
    PROVE  \E f : Chain(f, D, root, own, prev)
<1> DEFINE Part(n) == {i \in D : i < n}
           Solves(f, n) == Chain(f, Part(n), root, own, prev)
           Bad == {n \in Nat : ~ \E f : Solves(f, n)}
<1>1. SUFFICES ASSUME Bad # {} PROVE FALSE
  <2>1. PICK f : Solves(f, b)
    BY <1>1 DEF Bad
  <2>2. Part(b) = D
    OBVIOUS
  <2> HIDE DEF Part
  <2> QED
    BY <2>1, <2>2
<1>2. PICK n \in Bad : \A m \in Bad : n <= m
  <2> HIDE DEF Bad
  <2>1. Bad \in SUBSET Nat
    BY DEF Bad
  <2> QED
    BY <1>1, <2>1, Least
<1>3. n # 0
  <2>1. \A i \in D : ~ (i < 0)
    OBVIOUS
  <2>2. Solves([i \in {} |-> 0], 0)
    BY <2>1 DEF Chain
  <2> QED
    BY <1>2, <2>2
<1>4. PICK g : Solves(g, n - 1)
  <2>1. n \in Nat /\ n - 1 \in Nat /\ ~ (n <= n - 1)
    BY <1>2, <1>3
  <2>2. n - 1 \notin Bad
    BY <1>2, <2>1
  <2> HIDE DEF Solves
  <2> QED
    BY <2>1, <2>2
<1> DEFINE f == [i \in Part(n) |-> IF i \in root THEN own[i] ELSE g[prev[i]]]
<1>5. \A i \in Part(n - 1) : i \in Part(n) /\ f[i] = g[i]
    BY <1>4 DEF Chain
<1>6. \A i \in Part(n) \ root : prev[i] \in Part(n - 1)
    BY <1>2, <1>3
<1>7. Solves(f, n)
  <2>1. \A i \in Part(n) \ root : g[prev[i]] = f[prev[i]]
    BY <1>5, <1>6
  <2>2. \A i \in Part(n) : (IF i \in root THEN own[i] ELSE g[prev[i]])
                         = (IF i \in root THEN own[i] ELSE f[prev[i]])
    BY <2>1
  <2> QED
    BY <2>2 DEF Chain
<1> QED
    BY <1>2, <1>7

(* Its values are values of roots.                                         *)
LEMMA ChainType ==
    ASSUME NEW D \in SUBSET Nat, NEW own, NEW V, NEW root \in SUBSET D, NEW prev \in [D -> Nat],
           \A i \in D \ root : prev[i] \in D /\ prev[i] < i,
           \A i \in root : own[i] \in V,
           NEW f, Chain(f, D, root, own, prev)
    PROVE  f \in [D -> V]
<1> USE DEF Chain
<1> DEFINE Bad == {i \in D : f[i] \notin V}
<1>1. SUFFICES ASSUME Bad # {} PROVE FALSE
    OBVIOUS
<1>2. PICK i \in Bad : \A j \in Bad : i <= j
  <2>1. Bad \in SUBSET Nat
    OBVIOUS
  <2> HIDE DEF Bad
  <2> QED
    BY <1>1, <2>1, Least
<1>3. i \notin root
    BY <1>2
<1>4. prev[i] \in D /\ prev[i] < i /\ f[prev[i]] = f[i]
    BY <1>2, <1>3
<1> QED
    BY <1>2, <1>4

(* Providers have owners.                                                  *)
LEMMA ProviderOwned ==
    ASSUME RegistryTypeOK, NEW i \in DOMAIN providers
    PROVE  providers[i].by \in Owner
<1> DEFINE Entry == [label : Label, by : Owner]
<1>1. providers \in Seq(Entry)
    BY DEF RegistryTypeOK
<1>2. providers[i] \in Entry
  <2> HIDE DEF Entry
  <2> QED
    BY <1>1
<1> QED
    BY <1>2

(* A name that resolves has a claim of its own: what its provider, or the  *)
(* metadata of its registration, says (tools.py 237-241).                  *)
LEMMA OwnClaim ==
    ASSUME RegistryTypeOK, Registered, NEW found, NEW n \in Available(found)
    PROVE  Own(n, found) \in Found
<1>1. CASE Finders(n, found) = {}
  <2>1. n \in Name /\ metadata[n] # None
    BY <1>1 DEF Available, Registered
  <2>2. metadata[n] \in Claim
    BY <2>1 DEF RegistryTypeOK
  <2> QED
    BY <1>1, <2>2 DEF Own, Claim, Found
<1>2. CASE Finders(n, found) # {}
  <2> DEFINE S == Finders(n, found)
             last == CHOOSE i \in S : \A j \in S : j <= i
  <2>1. S \in SUBSET Nat /\ S \subseteq DOMAIN providers
    BY DEF Finders, RegistryTypeOK
  <2>2. Len(providers) \in Nat /\ \A i \in S : i <= Len(providers)
    BY DEF Finders, RegistryTypeOK
  <2>3. \E i \in S : \A j \in S : j <= i
    <3> HIDE DEF S
    <3> QED BY <1>2, <2>1, <2>2, Greatest DEF S
  <2>4. last \in DOMAIN providers
    BY <2>1, <2>3
  <2>5. Own(n, found) = [by |-> providers[last].by, source |-> "provider"]
    BY <1>2 DEF Own
  <2>6. \A i \in DOMAIN providers : providers[i].by \in Owner
    BY ProviderOwned
  <2>7. providers[last].by \in Owner
    BY <2>4, <2>6
  <2> QED
    BY <2>5, <2>7 DEF Found
<1> QED
    BY <1>1, <1>2

(* The claim that a provided tool is reported with in a legacy registry is *)
(* one that a name before it had, or its own (tools.py 237-252).           *)
LEMMA ClaimedType ==
    ASSUME RegistryTypeOK, Registered, NEW names, NEW b \in Nat, NEW k \in DOMAIN names,
           DOMAIN names \subseteq Nat, \A j \in DOMAIN names : j < b,
           NEW found, NEW builds,
           \A j \in DOMAIN names : names[j] \in Available(found)
    PROVE  Claimed(names, k, found, builds) \in Found
<1> DEFINE D == DOMAIN names
           R(i) == Renames(names, i, found, builds)
           last(i) == CHOOSE j \in R(i) : \A l \in R(i) : l <= j
           root == {i \in D : R(i) = {}}
           own == [i \in D |-> Own(names[i], found)]
           prev == [i \in D |-> IF R(i) = {} THEN 0 ELSE last(i)]
           claim[i \in D] == IF R(i) = {} THEN Own(names[i], found) ELSE claim[last(i)]
<1>1. ASSUME NEW i \in D, R(i) # {}
      PROVE  last(i) \in D /\ last(i) < i
  <2>1. R(i) \in SUBSET Nat /\ i \in Nat /\ \A j \in R(i) : j \in D /\ j < i /\ j <= i
    BY DEF Renames
  <2>2. \E j \in R(i) : \A l \in R(i) : l <= j
    <3> HIDE DEF R
    <3> QED
        BY <1>1, <2>1, Greatest
  <2> QED
    BY <2>1, <2>2
<1>2. prev \in [D -> Nat] /\ \A i \in D \ root : prev[i] \in D /\ prev[i] < i
  <2> HIDE DEF R, last
  <2> QED
    BY <1>1 DEF prev
<1>3. \A i \in D : own[i] \in Found
    BY OwnClaim
<1>4. \E f : Chain(f, D, root, own, prev)
  <2>1. D \in SUBSET Nat /\ (\A i \in D : i < b) /\ root \in SUBSET D
    OBVIOUS
  <2> HIDE DEF D, root, own, prev
  <2> QED
    BY <1>2, <2>1, ChainExists
<1>5. \A f : Chain(f, D, root, own, prev)
          <=> f = [i \in D |-> IF R(i) = {} THEN Own(names[i], found) ELSE f[last(i)]]
  <2> HIDE DEF R, last
  <2> QED
    BY DEF Chain
<1>6. claim = [i \in D |-> IF R(i) = {} THEN Own(names[i], found) ELSE claim[last(i)]]
  <2>1. \E f : f = [i \in D |-> IF R(i) = {} THEN Own(names[i], found) ELSE f[last(i)]]
    <3> HIDE DEF D, R, last, root, own, prev
    <3> QED
        BY <1>4, <1>5
  <2> HIDE DEF D, R, last
  <2> QED
    BY <2>1 DEF claim
<1>7. claim \in [D -> Found]
  <2>1. Chain(claim, D, root, own, prev)
    <3> HIDE DEF D, R, last, root, own, prev, claim
    <3> QED
        BY <1>5, <1>6
  <2>2. D \in SUBSET Nat /\ root \in SUBSET D /\ \A i \in root : own[i] \in Found
    BY <1>3
  <2> HIDE DEF D, root, own, prev, claim
  <2> QED
    BY <1>2, <2>1, <2>2, ChainType
<1>8. Claimed(names, k, found, builds) = IF R(k) = {} THEN Own(names[k], found) ELSE claim[last(k)]
    BY DEF Claimed
<1> QED
  <2> HIDE DEF R, last, claim, own
  <2> QED
    BY <1>1, <1>3, <1>7, <1>8 DEF own

(* What a name resolves to has an owner and a source (tools.py 223-253).   *)
LEMMA DetailType ==
    ASSUME RegistryTypeOK, Registered, NEW names, NEW b \in Nat, NEW k \in DOMAIN names,
           DOMAIN names \subseteq Nat, \A j \in DOMAIN names : j < b,
           NEW found, NEW builds \in [Name -> Name],
           \A j \in DOMAIN names : names[j] \in Available(found)
    PROVE  Detail(names, k, found, builds) \in Offered
<1> DEFINE n == names[k]
<1>1. n \in Name /\ n \in Available(found)
    BY DEF Available
<1>2. CASE tools[n] # None
    BY <1>1, <1>2 DEF Detail, Offered, RegistryTypeOK
<1>3. CASE tools[n] = None /\ Finders(n, found) # {}
  <2> DEFINE c == Claimed(names, k, found, builds)
  <2>1. c \in Found
    BY ClaimedType
  <2>2. Detail(names, k, found, builds) = [under |-> n, called |-> n, by |-> c.by, source |-> c.source]
    BY <1>3 DEF Detail
  <2> HIDE DEF c
  <2> QED
    BY <1>1, <2>1, <2>2 DEF Offered, Found
<1>4. CASE tools[n] = None /\ Finders(n, found) = {}
  <2>1. factories[n] \in Owner
    BY <1>1, <1>4 DEF Available, RegistryTypeOK
  <2>2. Detail(names, k, found, builds) =
            [under |-> n, called |-> builds[n], by |-> factories[n], source |-> "factory"]
    BY <1>4 DEF Detail
  <2> QED
    BY <1>1, <2>1, <2>2 DEF Offered
<1> QED
    BY <1>2, <1>3, <1>4

(* The names that are resolved are finitely many.                          *)
LEMMA SelectedBounded ==
    ASSUME NEW list \in Seq(Name \cup {Star}), NEW found
    PROVE  \E b \in Nat : \A k \in DOMAIN Selected(list, found) : k \in Nat /\ k < b
<1>1. CASE \E i \in DOMAIN list : list[i] = Star
  <2>1. DOMAIN Selected(list, found) \subseteq DOMAIN Sorted
    BY <1>1 DEF Selected
  <2>2. Len(Sorted) \in Nat /\ DOMAIN Sorted = 1 .. Len(Sorted)
    BY RegistryAssumption
  <2>3. \A k \in DOMAIN Sorted : k \in Nat /\ k < Len(Sorted) + 1
    BY <2>2
  <2> QED
    BY <2>1, <2>2, <2>3
<1>2. CASE ~ \E i \in DOMAIN list : list[i] = Star
  <2>1. Selected(list, found) = list
    BY <1>2 DEF Selected
  <2>2. Len(list) \in Nat /\ DOMAIN list = 1 .. Len(list)
    OBVIOUS
  <2>3. \A k \in DOMAIN list : k \in Nat /\ k < Len(list) + 1
    BY <2>2
  <2> QED
    BY <2>1, <2>2, <2>3
<1> QED
    BY <1>1, <1>2

-----------------------------------------------------------------------------
(* Turns.                                                                  *)

(* What _narrowed_tools and the ceiling let through (runtime.py 927-935).  *)
LEMMA NamesListed ==
    ASSUME NEW mode \in Modes, NEW request \in Requests, NEW widening \in BOOLEAN,
           Admits(mode, request, widening), NEW n \in Name \cup {Star}
    PROVE  LET list == Names(mode, request, widening) IN
           /\ list \in Seq(Name \cup {Star})
           /\ kind = "named" /\ Lists(list, n) => Lists(mode, n) \/ Lists(mode, Star)
<1>1. mode \in Seq(Name \cup {Star}) /\ request \in Seq(Name \cup {Star}) \cup {None}
    BY OfferAssumption
<1>2. Names(mode, request, widening) \in Seq(Name \cup {Star})
    BY <1>1 DEF Names, Narrowed
<1>3. ASSUME kind = "named", Lists(Names(mode, request, widening), n)
      PROVE  Lists(mode, n) \/ Lists(mode, Star)
    BY <1>3 DEF Names, Narrowed, Admits, Narrowable, Lists
<1> QED
    BY <1>2, <1>3

(* A turn begins: the offer is what the registry and the mode say, and     *)
(* completion is guarded (runtime.py 263-299, 402-413).                    *)
LEMMA BeginStep ==
    ASSUME Inv, NEW mode \in Modes, NEW request \in Requests, NEW widening \in BOOLEAN,
           NEW a \in Authorizers, Begin(mode, request, widening, a)
    PROVE  Inv'
<1> DEFINE list == Names(mode, request, widening)
<1>1. PICK found \in [DOMAIN providers -> SUBSET Name], builds \in [Name -> Name] :
        LET names == Selected(list, found)
            resolved == Resolved(names, found, builds)
        IN  /\ Resolvable(names, found, builds)
            /\ Safe(a, resolved)
            /\ \E offered \in SUBSET resolved :
                /\ Allows(a, resolved, offered)
                /\ turn' = [mode |-> mode, offered |-> offered,
                            checks |-> Checks(a), ran |-> {}]
    BY DEF Begin
<1> DEFINE names == Selected(list, found)
           resolved == Resolved(names, found, builds)
<1>2. Resolvable(names, found, builds) /\ Safe(a, resolved)
    BY <1>1
<1>3. PICK offered \in SUBSET resolved :
        turn' = [mode |-> mode, offered |-> offered, checks |-> Checks(a), ran |-> {}]
    BY <1>1
<1>4. UNCHANGED registry
    BY DEF Begin
<1>5. Admits(mode, request, widening) /\ list \in Seq(Name \cup {Star})
    BY NamesListed DEF Begin
<1>6. /\ DOMAIN names \subseteq Nat
      /\ \A k \in DOMAIN names :
            names[k] \in Name /\ (Lists(list, names[k]) \/ Lists(list, Star))
  <2>1. \A k \in DOMAIN names : names[k] \in Available(found)
    BY <1>2 DEF Resolvable
  <2> HIDE DEF list
  <2> QED
    BY <1>5, <2>1, SelectedNames DEF Inv
<1>7. \A t \in resolved : \E k \in DOMAIN names :
        /\ t = Detail(names, k, found, builds)
        /\ \A j \in DOMAIN names : names[j] = names[k] => j <= k
    BY DEF Resolved
<1> HIDE DEF list, names, resolved
<1>8. ASSUME Strict, NEW t \in resolved
      PROVE  /\ t.called = t.under
             /\ t.called \in Name
             /\ Lists(list, t.called) \/ Lists(list, Star)
             /\ \A u \in resolved : u.called = t.called => u = t
             /\ IF t.source = "provider"
                THEN Claims(t.called) = {} /\ \E i \in DOMAIN providers : providers[i].by = t.by
                ELSE Claims(t.called) = {[by |-> t.by, source |-> t.source]}
  <2>1. \A k \in DOMAIN names :
           LET d == Detail(names, k, found, builds) IN
           /\ d.called = names[k] /\ d.under = names[k]
           /\ IF d.source = "provider"
              THEN Claims(d.called) = {} /\ \E i \in DOMAIN providers : providers[i].by = d.by
              ELSE Claims(d.called) = {[by |-> d.by, source |-> d.source]}
    BY <1>2, <1>6, <1>8, StrictDetail DEF Inv
  <2>2. PICK k \in DOMAIN names :
            /\ t = Detail(names, k, found, builds)
            /\ \A j \in DOMAIN names : names[j] = names[k] => j <= k
    BY <1>7, <1>8
  <2>3. ASSUME NEW u \in resolved, u.called = t.called
        PROVE  u = t
    <3>1. PICK j \in DOMAIN names :
            /\ u = Detail(names, j, found, builds)
            /\ \A l \in DOMAIN names : names[l] = names[j] => l <= j
        BY <1>7, <2>3
    <3>2. names[j] = names[k]
        BY <2>1, <2>2, <2>3, <3>1
    <3>3. j <= k /\ k <= j
        BY <2>2, <3>1, <3>2
    <3>4. j \in Nat /\ k \in Nat
        BY <1>6
    <3>5. j = k
        BY <3>3, <3>4
    <3> QED
        BY <2>2, <3>1, <3>5
  <2>4. t.called = names[k] /\ t.under = names[k]
    BY <2>1, <2>2
  <2>5. IF t.source = "provider"
        THEN Claims(t.called) = {} /\ \E i \in DOMAIN providers : providers[i].by = t.by
        ELSE Claims(t.called) = {[by |-> t.by, source |-> t.source]}
    BY <2>1, <2>2
  <2> QED
    BY <1>6, <2>3, <2>4, <2>5
<1>9. /\ turn'.mode = mode /\ turn'.offered = offered
      /\ turn'.checks = Checks(a) /\ turn'.ran = {}
    BY <1>3
<1>10. TurnShape'
    BY <1>3, <1>9 DEF TurnShape
<1>11. /\ RegistryTypeOK' /\ Sole' /\ kind' = kind /\ providers' = providers
       /\ \A n : Claims(n)' = Claims(n)
    BY <1>4 DEF Inv, RegistryTypeOK, Sole, Is, Strict, Claims, registry
<1>12. OfferFaithful'
    BY <1>8, <1>9, <1>11 DEF OfferFaithful, Strict
<1>13. kind = "named" => Strict
    BY DEF Strict
<1>14. CompletionGuarded'
  <2>1. ASSUME kind = "named", NEW t \in offered
        PROVE  Lists(mode, t.called) \/ Lists(mode, Star)
    <3>1. t.called \in Name /\ (Lists(list, t.called) \/ Lists(list, Star))
        BY <1>8, <1>13, <2>1
    <3> QED
        BY <1>5, <2>1, <3>1, NamesListed DEF list
  <2> QED
    BY <1>9, <1>11, <2>1 DEF CompletionGuarded
<1>15. Asks'
  <2>1. ASSUME kind = "named", NEW t \in offered, t.called = CompleteTask
        PROVE  Checks(a) = "call"
    <3>1. t.under = CompleteTask
        BY <1>8, <1>13, <2>1
    <3>2. a # None /\ Scoped(a).enabled /\ Scoped(a).call
        BY <1>2, <2>1, <3>1 DEF Safe
    <3> QED
        BY <3>2 DEF Checks
  <2> QED
    BY <1>9, <1>11, <2>1 DEF Asks
<1> QED
    BY <1>10, <1>11, <1>12, <1>14, <1>15 DEF Inv

(* A turn begins with tools that have names, owners and sources.           *)
LEMMA BeginType ==
    ASSUME TypeOK, Registered, NEW mode \in Modes, NEW request \in Requests,
           NEW widening \in BOOLEAN, NEW a \in Authorizers, Begin(mode, request, widening, a)
    PROVE  turn' \in Turn
<1> DEFINE list == Names(mode, request, widening)
<1>1. PICK found \in [DOMAIN providers -> SUBSET Name], builds \in [Name -> Name] :
        LET names == Selected(list, found)
            resolved == Resolved(names, found, builds)
        IN  /\ Resolvable(names, found, builds)
            /\ \E offered \in SUBSET resolved :
                turn' = [mode |-> mode, offered |-> offered,
                         checks |-> Checks(a), ran |-> {}]
    BY DEF Begin
<1> DEFINE names == Selected(list, found)
<1>2. \A k \in DOMAIN names : names[k] \in Available(found)
    BY <1>1 DEF Resolvable
<1>3. PICK b \in Nat : \A k \in DOMAIN names : k \in Nat /\ k < b
  <2>1. list \in Seq(Name \cup {Star})
    BY NamesListed DEF Begin
  <2> HIDE DEF list
  <2> QED
    BY <2>1, SelectedBounded
<1>4. PICK offered \in SUBSET Resolved(names, found, builds) :
        turn' = [mode |-> mode, offered |-> offered, checks |-> Checks(a), ran |-> {}]
    BY <1>1
<1> HIDE DEF names
<1>5. \A k \in DOMAIN names : Detail(names, k, found, builds) \in Offered
    BY <1>2, <1>3, DetailType DEF TypeOK
<1>6. offered \subseteq Offered
    BY <1>5 DEF Resolved
<1>7. Checks(a) \in {"no", "none", "call"}
    BY DEF Checks
<1> QED
    BY <1>4, <1>6, <1>7 DEF Turn

(* A tool is called (tools.py 276-280, 360-372).                           *)
LEMMA CallStep ==
    ASSUME Inv, turn # NoTurn, NEW t \in turn.offered, Call(t)
    PROVE  Inv'
<1> DEFINE how == IF turn.checks = "call" THEN "asked" ELSE "unasked"
<1>1. turn' = [mode |-> turn.mode, offered |-> turn.offered, checks |-> turn.checks,
               ran |-> turn.ran \cup {<<t.called, how>>}]
    BY DEF Call, Inv, TurnShape
<1>2. /\ turn'.mode = turn.mode /\ turn'.offered = turn.offered
      /\ turn'.checks = turn.checks
      /\ turn'.ran = turn.ran \cup {<<t.called, how>>}
    BY <1>1
<1>3. TurnShape'
    BY <1>1, <1>2 DEF TurnShape
<1>4. /\ RegistryTypeOK' /\ Sole' /\ kind' = kind /\ providers' = providers
      /\ \A n : Claims(n)' = Claims(n)
    BY DEF Call, Inv, RegistryTypeOK, Sole, Is, Strict, Claims, registry
<1>5. OfferFaithful'
    BY <1>2, <1>4 DEF Inv, OfferFaithful, Strict
<1>6. Asks'
    BY <1>2, <1>4 DEF Inv, Asks
<1>7. kind = "named" => <<t.called, how>> # <<CompleteTask, "unasked">>
    BY DEF Inv, Asks
<1>8. CompletionGuarded'
    BY <1>2, <1>4, <1>7 DEF Inv, CompletionGuarded
<1> QED
    BY <1>3, <1>4, <1>5, <1>6, <1>8 DEF Inv

(* Every reachable state.                                                  *)
THEOREM OfferInvariance == Spec => []Inv
<1>1. Init => Inv
  <2> SUFFICES ASSUME Init PROVE Inv
    OBVIOUS
  <2>1. RegistryTypeOK
    BY DEF Init, RegistryInit, RegistryTypeOK
  <2>2. Sole
    BY DEF Init, RegistryInit, Sole, Is
  <2> QED
    BY <2>1, <2>2 DEF Init, Inv, TurnShape, OfferFaithful, CompletionGuarded, Asks
<1>2. Inv /\ [Next]_vars => Inv'
  <2> SUFFICES ASSUME Inv, [Next]_vars PROVE Inv'
    OBVIOUS
  <2>1. CASE Change
    <3>1. RegistryTypeOK' /\ Sole'
        BY <2>1, RegistryStep DEF Change, Inv
    <3> QED
        BY <2>1, <3>1 DEF Change, Inv, TurnShape, OfferFaithful, CompletionGuarded, Asks
  <2>2. CASE End
    <3>1. RegistryTypeOK' /\ Sole'
        BY <2>2 DEF End, Inv, registry, RegistryTypeOK, Sole, Is, Strict
    <3> QED
        BY <2>2, <3>1 DEF End, Inv, TurnShape, OfferFaithful, CompletionGuarded, Asks
  <2>3. ASSUME NEW mode \in Modes, NEW request \in Requests, NEW widening \in BOOLEAN,
               NEW a \in Authorizers, Begin(mode, request, widening, a)
        PROVE  Inv'
    BY <2>3, BeginStep
  <2>4. ASSUME turn # NoTurn, NEW t \in turn.offered, Call(t)
        PROVE  Inv'
    BY <2>4, CallStep
  <2>5. CASE UNCHANGED vars
    BY <2>5 DEF vars, registry, Inv, RegistryTypeOK, Sole, Is, Strict, TurnShape,
        OfferFaithful, CompletionGuarded, Asks, Claims
  <2> QED
    BY <2>1, <2>2, <2>3, <2>4, <2>5 DEF Next
<1> QED
    BY <1>1, <1>2, PTL DEF Spec

(* A name has one registration in a strict registry, and the claim that    *)
(* collisions and replacements are judged by is that one.                  *)
THEOREM OneClaim == Spec => []ClaimsExclusive
<1>1. Inv => ClaimsExclusive
    BY SoleClaims DEF Inv, ClaimsExclusive
<1> QED
    BY <1>1, OfferInvariance, PTL

(* What a strict registry offers answers to the listed name and is         *)
(* reported with its registrant.                                           *)
THEOREM OfferRight == Spec => []OfferFaithful
<1>1. Inv => OfferFaithful
    BY DEF Inv
<1> QED
    BY <1>1, OfferInvariance, PTL

(* A named agent stays below its mode's ceiling and completes no task      *)
(* without its call policy.                                                *)
THEOREM CompletionSafe == Spec => []CompletionGuarded
<1>1. Inv => CompletionGuarded
    BY DEF Inv
<1> QED
    BY <1>1, OfferInvariance, PTL

(* What is registered, offered and run keeps its type.  In particular each *)
(* tool that any registry offers is reported with an owner and a source    *)
(* there are, legacy ones included, where claims pass from name to name.   *)
THEOREM OfferTyped == Spec => []TypeOK
<1> DEFINE TypeInv == TypeOK /\ Registered
<1>1. Init => TypeInv
    BY DEF Init, RegistryInit, RegistryTypeOK, TypeOK, Registered
<1>2. TypeInv /\ Inv /\ Inv' /\ [Next]_vars => TypeInv'
  <2> SUFFICES ASSUME TypeInv, Inv, Inv', [Next]_vars PROVE TypeInv'
    OBVIOUS
  <2>1. RegistryTypeOK'
    BY DEF Inv
  <2>2. CASE Change
    BY <2>1, <2>2, RegisteredStep DEF Change, TypeOK
  <2>3. CASE End
    BY <2>1, <2>3 DEF End, registry, TypeOK, Registered
  <2>4. ASSUME NEW mode \in Modes, NEW request \in Requests, NEW widening \in BOOLEAN,
               NEW a \in Authorizers, Begin(mode, request, widening, a)
        PROVE  TypeInv'
    <3>1. turn' \in Turn
        BY <2>4, BeginType
    <3>2. Registered'
        BY <2>4 DEF Begin, registry, Registered
    <3> QED
        BY <2>1, <3>1, <3>2 DEF TypeOK
  <2>5. ASSUME turn # NoTurn, NEW t \in turn.offered, Call(t)
        PROVE  TypeInv'
    <3>1. turn \in Turn /\ t.called \in Name
        BY <2>5 DEF TypeOK, Turn, Offered
    <3>2. turn' \in Turn
        BY <2>5, <3>1 DEF Call, Turn
    <3>3. Registered'
        BY <2>5 DEF Call, registry, Registered
    <3> QED
        BY <2>1, <3>2, <3>3 DEF TypeOK
  <2>6. CASE UNCHANGED vars
    BY <2>1, <2>6 DEF vars, registry, TypeOK, Registered
  <2> QED
    BY <2>2, <2>3, <2>4, <2>5, <2>6 DEF Next
<1>3. TypeInv => TypeOK
    OBVIOUS
<1> QED
    BY <1>1, <1>2, <1>3, OfferInvariance, PTL DEF Spec
=============================================================================
