---------------------------- MODULE AddressIndex ----------------------------
(***************************************************************************)
(* StoreAddressIndex and IndexedSessionStore (address_index.py): the index *)
(* of the addresses of one participant, in pages of fixed size, and the    *)
(* stores that record a resource there before they write it.               *)
(*                                                                         *)
(* An append is four writes: the journal in the head, the page, the entry  *)
(* and the head again, which commits it.  Each is an action, and the       *)
(* caller may be interrupted between any two.  Writers hold the store's    *)
(* lock (AbstractLock), so what a writer reads goes with its next write;   *)
(* page takes no lock, and each of its reads is an action.                 *)
(***************************************************************************)
EXTENDS Naturals, Sequences

CONSTANTS
    Address,        \* the session addresses of the participant
    Resource,       \* what may be kept under one: slot, kind and key
    Worker,         \* callers that write
    Reader,         \* callers of page
    PageSize,       \* PAGE_SIZE
    MaxAddresses,   \* max_addresses_per_participant, the same for all
    Cursors,        \* the cursors page is asked for
    Limits,         \* and the limits
    MaxFaults,      \* bound on the interruptions of a behaviour
    None            \* no entry, journal, holder, call or scan

PageNo == 0 .. MaxAddresses
Entry == [resources : SUBSET Resource, position : Nat]
Journal == [address : Address, position : Nat, entry : Entry]
Scan == [next : Nat, end : Nat, no : PageNo \cup {None}, ids : Seq(Address),
         from : Nat, seen : Seq(Address)]

ASSUME IndexAssumption ==
    /\ PageSize \in Nat \ {0}
    /\ MaxAddresses \in Nat \ {0}
    /\ Cursors \subseteq Nat
    /\ Limits \subseteq Nat \ {0}
    /\ MaxFaults \in Nat
    /\ None \notin Worker /\ None \notin PageNo
    /\ None \notin Entry /\ None \notin Journal /\ None \notin Scan
    /\ None \notin Address \X Resource

VARIABLES
    head,       \* [count, pages, journal]
    page,       \* the addresses on each page, <<>> for one not written yet
    entry,      \* for each address [resources, position], or None
    data,       \* the <<address, resource>> pairs the stores hold
    lock,       \* the worker that holds the index lock
    pc,         \* where each worker is
    call,       \* the <<address, resource>> it records; None in recover()
    own,        \* workers that append an address of their own
    scan,       \* what each reader has read so far
    corrupt,    \* somebody was told that the index is invalid
    faults      \* interruptions so far

index == <<head, page, entry>>
work == <<lock, pc, call, own>>
vars == <<index, data, work, scan, corrupt, faults>>

TypeOK ==
    /\ head \in [count : Nat, pages : Nat, journal : Journal \cup {None}]
    /\ page \in [PageNo -> Seq(Address)]
    /\ entry \in [Address -> Entry \cup {None}]
    /\ data \subseteq Address \X Resource
    /\ lock \in Worker \cup {None}
    /\ pc \in [Worker -> {"idle", "recover", "entry", "commit", "record", "put"}]
    /\ call \in [Worker -> (Address \X Resource) \cup {None}]
    /\ own \subseteq Worker
    /\ scan \in [Reader -> Scan \cup {None}]
    /\ corrupt \in BOOLEAN
    /\ faults \in Nat

Init ==
    /\ head = [count |-> 0, pages |-> 0, journal |-> None]
    /\ page = [n \in PageNo |-> <<>>]
    /\ entry = [a \in Address |-> None]
    /\ data = {}
    /\ lock = None
    /\ pc = [w \in Worker |-> "idle"]
    /\ call = [w \in Worker |-> None]
    /\ own = {}
    /\ scan = [s \in Reader |-> None]
    /\ corrupt = FALSE
    /\ faults = 0

-----------------------------------------------------------------------------
Number(i) == i \div PageSize
Offset(i) == i % PageSize

(* _head: the number of pages is the one the count asks for. *)
HeadValid == head.pages = Number(head.count + PageSize - 1)

(* _page_ids: a page holds no more than it may. *)
PageValid(n) == Len(page[n]) <= PageSize

(* The address at position i of the pages written so far. *)
Linked(i) == Offset(i) < Len(page[Number(i)])
At(i) == page[Number(i)][Offset(i) + 1]

(* Variant of JournalValid: a page that is written already is a conflict.  *)
JournalUnlinked ==
    /\ head.journal.position = head.count
    /\ Len(page[Number(head.count)]) = Offset(head.count)

(* What _recover demands of a journal.                                     *)
JournalValid ==
    /\ head.journal.position = head.count
    /\ head.journal.entry.position = head.count
    /\ PageValid(Number(head.count))
    /\ \/ Len(page[Number(head.count)]) = Offset(head.count)
       \/ /\ Len(page[Number(head.count)]) = Offset(head.count) + 1
          /\ At(head.count) = head.journal.address

(* What record demands of an entry it finds.                               *)
EntryValid(a) ==
    /\ entry[a].position < head.count
    /\ PageValid(Number(entry[a].position))
    /\ Linked(entry[a].position) /\ At(entry[a].position) = a

Goto(w, l) == pc' = [pc EXCEPT ![w] = l]

(* The callback under the lock returns or raises: the lock is free again.  *)
Leave(w, l) ==
    /\ Goto(w, l)
    /\ lock' = None
    /\ own' = own \ {w}

(* Variant of Finish: the store writes whatever was called.                *)
FinishPutting(w) ==
    /\ Leave(w, "put")
    /\ UNCHANGED <<call, corrupt>>

(* It returns, and the store writes the resource, if one was recorded.     *)
Finish(w) ==
    /\ Leave(w, IF call[w] = None THEN "idle" ELSE "put")
    /\ UNCHANGED <<call, corrupt>>

(* It raises ValueError.                                                   *)
Invalid(w) ==
    /\ Leave(w, "idle")
    /\ call' = [call EXCEPT ![w] = None]
    /\ corrupt' = TRUE

-----------------------------------------------------------------------------
(* Variant of Begin: record does not recover first.                        *)
BeginUnrecovered(w) ==
    /\ pc[w] = "idle" /\ lock = None
    /\ lock' = w
    /\ \E c \in (Address \X Resource) \cup {None} :
        /\ call' = [call EXCEPT ![w] = c]
        /\ Goto(w, IF c = None THEN "recover" ELSE "record")
    /\ UNCHANGED <<index, data, own, scan, corrupt, faults>>

(* record, for a resource of an address, or recover is called. *)
Begin(w) ==
    /\ pc[w] = "idle" /\ lock = None
    /\ lock' = w
    /\ Goto(w, "recover")
    /\ \E c \in (Address \X Resource) \cup {None} : call' = [call EXCEPT ![w] = c]
    /\ UNCHANGED <<index, data, own, scan, corrupt, faults>>

(* _recover up to its first write: a journalled address that is not on its *)
(* page yet is put there.                                                  *)
Link(w) ==
    /\ pc[w] = "recover"
    /\ \/ /\ head.journal = None /\ HeadValid
          /\ IF call[w] = None
             THEN Finish(w)
             ELSE Goto(w, "record") /\ UNCHANGED <<lock, call, own, corrupt>>
          /\ UNCHANGED page
       \/ /\ head.journal # None /\ HeadValid /\ JournalValid
          /\ page' = IF Linked(head.count) THEN page
                     ELSE [page EXCEPT ![Number(head.count)] =
                             Append(@, head.journal.address)]
          /\ Goto(w, "entry")
          /\ UNCHANGED <<lock, call, own, corrupt>>
       \/ /\ ~(HeadValid /\ (head.journal = None \/ JournalValid))
          /\ Invalid(w)
          /\ UNCHANGED page
    /\ UNCHANGED <<head, entry, data, scan, faults>>

(* The entry follows, as the journal has it ... *)
PutEntry(w) ==
    /\ pc[w] = "entry"
    /\ entry' = [entry EXCEPT ![head.journal.address] = head.journal.entry]
    /\ Goto(w, "commit")
    /\ UNCHANGED <<head, page, data, lock, call, own, scan, corrupt, faults>>

(* ... and the head commits the append.  It was the worker's own, or one   *)
(* somebody else had left; after that record goes on with its own.         *)
Commit(w) ==
    /\ pc[w] = "commit"
    /\ head' = [count |-> head.count + 1, pages |-> Number(head.count) + 1,
                journal |-> None]
    /\ IF call[w] = None \/ w \in own
       THEN Finish(w)
       ELSE Goto(w, "record") /\ UNCHANGED <<lock, call, own, corrupt>>
    /\ UNCHANGED <<page, entry, data, scan, faults>>

(* record finds the address with the resource. *)
Known(w) ==
    /\ pc[w] = "record"
    /\ LET a == call[w][1] IN
        /\ entry[a] # None
        /\ IF ~EntryValid(a) THEN Invalid(w)
           ELSE call[w][2] \in entry[a].resources /\ Finish(w)
    /\ UNCHANGED <<index, data, scan, faults>>

(* Variant of Attach: the entry keeps the new resource only.               *)
AttachAlone(w) ==
    /\ pc[w] = "record"
    /\ LET a == call[w][1]
           r == call[w][2]
       IN
        /\ entry[a] # None /\ EntryValid(a) /\ r \notin entry[a].resources
        /\ entry' = [entry EXCEPT ![a].resources = {r}]
    /\ Finish(w)
    /\ UNCHANGED <<head, page, data, scan, faults>>

(* It finds the address and adds the resource to its entry. *)
Attach(w) ==
    /\ pc[w] = "record"
    /\ LET a == call[w][1]
           r == call[w][2]
       IN
        /\ entry[a] # None /\ EntryValid(a) /\ r \notin entry[a].resources
        /\ entry' = [entry EXCEPT ![a].resources = @ \cup {r}]
    /\ Finish(w)
    /\ UNCHANGED <<head, page, data, scan, faults>>

(* The address is new, but the participant has as many as it may have.     *)
Refuse(w) ==
    /\ pc[w] = "record"
    /\ entry[call[w][1]] = None /\ head.count >= MaxAddresses
    /\ Leave(w, "idle")
    /\ call' = [call EXCEPT ![w] = None]
    /\ UNCHANGED <<index, data, scan, corrupt, faults>>

(* Variants of Prepare: the quota is off by one; the append is journalled  *)
(* and left to the next caller.                                            *)
PrepareOneMore(w) ==
    /\ pc[w] = "record"
    /\ LET a == call[w][1] IN
        /\ entry[a] = None /\ head.count <= MaxAddresses
        /\ head' = [head EXCEPT !.journal =
               [address |-> a, position |-> head.count,
                entry |-> [resources |-> {call[w][2]}, position |-> head.count]]]
    /\ own' = own \cup {w}
    /\ Goto(w, "recover")
    /\ UNCHANGED <<page, entry, data, lock, call, scan, corrupt, faults>>

PrepareOnly(w) ==
    /\ pc[w] = "record"
    /\ LET a == call[w][1] IN
        /\ entry[a] = None /\ head.count < MaxAddresses
        /\ head' = [head EXCEPT !.journal =
               [address |-> a, position |-> head.count,
                entry |-> [resources |-> {call[w][2]}, position |-> head.count]]]
    /\ Finish(w)
    /\ UNCHANGED <<page, entry, data, scan, faults>>

(* The address is new: its append is journalled and carried out.           *)
Prepare(w) ==
    /\ pc[w] = "record"
    /\ LET a == call[w][1] IN
        /\ entry[a] = None /\ head.count < MaxAddresses
        /\ head' = [head EXCEPT !.journal =
               [address |-> a, position |-> head.count,
                entry |-> [resources |-> {call[w][2]}, position |-> head.count]]]
    /\ own' = own \cup {w}
    /\ Goto(w, "recover")
    /\ UNCHANGED <<page, entry, data, lock, call, scan, corrupt, faults>>

(* IndexedSessionStore.put: once record has returned, the resource itself. *)
Put(w) ==
    /\ pc[w] = "put"
    /\ data' = data \cup {call[w]}
    /\ Goto(w, "idle")
    /\ call' = [call EXCEPT ![w] = None]
    /\ UNCHANGED <<index, lock, own, scan, corrupt, faults>>

(* forget leaves the index as it is. *)
Forget(w) ==
    /\ pc[w] = "idle"
    /\ \E d \in data : data' = data \ {d}
    /\ UNCHANGED <<index, work, scan, corrupt, faults>>

(* A write raises, or the process dies: the lock goes, nothing else does.  *)
Interrupt(w) ==
    /\ pc[w] # "idle"
    /\ faults < MaxFaults
    /\ faults' = faults + 1
    /\ pc' = [pc EXCEPT ![w] = "idle"]
    /\ lock' = IF lock = w THEN None ELSE lock
    /\ own' = own \ {w}
    /\ call' = [call EXCEPT ![w] = None]
    /\ UNCHANGED <<index, data, scan, corrupt>>

-----------------------------------------------------------------------------
(* Variant of Smaller: the count of the head is not consulted.             *)
Former(m, n) == m

Smaller(m, n) == IF m <= n THEN m ELSE n

(* page reads the head: it raises IndexRecoveryRequired for a journal, and *)
(* ValueError for a head that is invalid.                                  *)
Open(s) ==
    /\ scan[s] = None
    /\ IF HeadValid
       THEN /\ head.journal = None
            /\ \E cursor \in Cursors, limit \in Limits :
                  scan' = [scan EXCEPT ![s] =
                      [next |-> cursor, end |-> Smaller(cursor + limit, head.count),
                       no |-> None, ids |-> <<>>, from |-> cursor, seen |-> <<>>]]
            /\ UNCHANGED corrupt
       ELSE corrupt' = TRUE /\ UNCHANGED scan
    /\ UNCHANGED <<index, data, work, faults>>

(* It reads the page of the next position, once ... *)
Turn(s) ==
    /\ scan[s] # None
    /\ scan[s].next < scan[s].end
    /\ scan[s].no # Number(scan[s].next)
    /\ scan' = [scan EXCEPT ![s].no = Number(scan[s].next),
                            ![s].ids = page[Number(scan[s].next)]]
    /\ UNCHANGED <<index, data, work, corrupt, faults>>

(* ... and the entry of the address it finds there.                        *)
Pick(s) ==
    /\ scan[s] # None
    /\ scan[s].next < scan[s].end
    /\ scan[s].no = Number(scan[s].next)
    /\ LET i == scan[s].next
           ids == scan[s].ids
           a == ids[Offset(i) + 1]
       IN
       IF Len(ids) <= PageSize /\ Len(ids) > Offset(i)
          /\ entry[a] # None /\ entry[a].position = i
       THEN /\ scan' = [scan EXCEPT ![s].next = i + 1, ![s].seen = Append(@, a)]
            /\ UNCHANGED corrupt
       ELSE scan' = [scan EXCEPT ![s] = None] /\ corrupt' = TRUE
    /\ UNCHANGED <<index, data, work, faults>>

(* The range is read: page returns its entries. *)
Close(s) ==
    /\ scan[s] # None
    /\ scan[s].next >= scan[s].end
    /\ scan' = [scan EXCEPT ![s] = None]
    /\ UNCHANGED <<index, data, work, corrupt, faults>>

Writing(w) ==
    \/ Link(w) \/ PutEntry(w) \/ Commit(w)
    \/ Known(w) \/ Attach(w) \/ Refuse(w) \/ Prepare(w) \/ Put(w)

Reading(s) == Open(s) \/ Turn(s) \/ Pick(s) \/ Close(s)

Next ==
    \/ \E w \in Worker : Begin(w) \/ Writing(w) \/ Forget(w) \/ Interrupt(w)
    \/ \E s \in Reader : Reading(s)

Spec == Init /\ [][Next]_vars

(* Callers that are not interrupted go on, and callers keep coming.        *)
FairSpec ==
    Spec /\ WF_vars(\E w \in Worker : Begin(w)) /\ \A w \in Worker : WF_vars(Writing(w))

-----------------------------------------------------------------------------
(* Position i is committed, and what it says. *)
Committed(i) == i < head.count
Indexed(a, r) ==
    entry[a] # None /\ Committed(entry[a].position) /\ r \in entry[a].resources

(* "No resource data is written until this succeeds": whatever is stored   *)
(* can be found through the index, after any interruptions.                *)
DataIndexed == \A d \in data : Indexed(d[1], d[2])

(* No interruption leaves an index that recovery, a later append or a      *)
(* reader between two writes takes for an invalid one.                     *)
NeverCorrupt == ~corrupt

(* The quota holds, the append on its way included.                        *)
QuotaKept == head.count + (IF head.journal = None THEN 0 ELSE 1) <= MaxAddresses

(* Page after page, a reader sees the addresses of the positions it asked  *)
(* for, whatever is appended meanwhile.                                    *)
FaithfulScan(r) ==
    \A k \in DOMAIN r.seen : LET i == r.from + k - 1 IN
        Committed(i) /\ r.seen[k] = At(i)
ScanFaithful == \A s \in Reader : scan[s] # None => FaithfulScan(scan[s])

(* An interrupted append does not stay in the way of readers.              *)
AppendRecovered == head.journal # None ~> head.journal = None

-----------------------------------------------------------------------------
(* Why they hold: the inductive invariant.                                 *)

(* How many addresses page n has when c are committed. *)
Fill(c, n) == IF n < Number(c) THEN PageSize ELSE IF n = Number(c) THEN Offset(c) ELSE 0

(* The pages hold the committed addresses and at most the journalled one.  *)
PagesFilled ==
    /\ HeadValid
    /\ \A n \in PageNo :
        \/ Len(page[n]) = Fill(head.count, n)
        \/ /\ head.journal # None /\ n = Number(head.count)
           /\ Len(page[n]) = Offset(head.count) + 1
           /\ At(head.count) = head.journal.address

(* The journal is for the next position, and for an address that is new.   *)
JournalShape ==
    head.journal # None =>
        /\ head.journal.position = head.count
        /\ head.journal.entry.position = head.count
        /\ \E r \in Resource : head.journal.entry.resources = {r}
        /\ \A i \in 0 .. head.count - 1 : At(i) # head.journal.address

(* Pages and entries agree, but for the entry of the journal.              *)
EntriesLinked ==
    /\ \A i \in 0 .. head.count - 1 : entry[At(i)] # None /\ entry[At(i)].position = i
    /\ \A a \in Address : entry[a] # None =>
        \/ Committed(entry[a].position) /\ At(entry[a].position) = a
        \/ /\ head.journal # None /\ head.journal.address = a
           /\ entry[a] = head.journal.entry
           /\ Linked(head.count)

Locking == {"recover", "entry", "commit", "record"}

(* Who holds the lock, and what it has done already.                       *)
WorkShape ==
    \A w \in Worker :
        /\ lock = w <=> pc[w] \in Locking
        /\ pc[w] = "record" => head.journal = None
        /\ pc[w] \in {"entry", "commit"} => head.journal # None /\ Linked(head.count)
        /\ pc[w] = "commit" => entry[head.journal.address] = head.journal.entry
        /\ pc[w] \in {"record", "put"} => call[w] # None
        /\ pc[w] = "put" => Indexed(call[w][1], call[w][2])
        /\ w \in own =>
            /\ pc[w] \in {"recover", "entry", "commit"}
            /\ head.journal # None /\ call[w] # None
            /\ call[w][1] = head.journal.address
            /\ call[w][2] \in head.journal.entry.resources

(* A reader's page is as good as the index for the positions it asked for. *)
SoundScan(r) ==
    /\ r.next = r.from + Len(r.seen)
    /\ r.end <= head.count
    /\ r.no # None =>
        /\ Len(r.ids) <= PageSize
        /\ \A i \in 0 .. r.end - 1 : Number(i) = r.no =>
              Offset(i) < Len(r.ids) /\ r.ids[Offset(i) + 1] = At(i)
ScanShape == \A s \in Reader : scan[s] # None => SoundScan(scan[s])

IndexInv ==
    /\ TypeOK /\ PagesFilled /\ JournalShape /\ EntriesLinked /\ WorkShape
    /\ ScanShape /\ QuotaKept /\ DataIndexed /\ ScanFaithful /\ NeverCorrupt

-----------------------------------------------------------------------------
(* The abstract list the index implements: what is committed.              *)
Listing == [i \in 1 .. head.count |-> At(i - 1)]
Holdings == [a \in Address |->
    IF entry[a] # None /\ Committed(entry[a].position) THEN entry[a].resources ELSE {}]

Log == INSTANCE AddressLog WITH log <- Listing, held <- Holdings

(* An interrupted append appears in the list all at once or not at all,    *)
(* and nothing that is listed is ever lost or moved.                       *)
ImplementsLog == Log!Spec
=============================================================================
