------------------------- MODULE AddressIndexProofs -------------------------
(***************************************************************************)
(* Why the address index survives interruptions, for any addresses, page   *)
(* size, quota, callers and number of interruptions.                       *)
(*                                                                         *)
(* IndexInv is inductive.  Its parts about head, pages and entries are     *)
(* kept by whatever leaves those alone (IndexLeftAlone); the five writes   *)
(* of an append and of an attachment get a lemma each, and so do the reads *)
(* of page.                                                                *)
(***************************************************************************)
EXTENDS AddressIndex, PageArithmetic

(* The page size and the quota are positive numbers. *)
LEMMA Sizes == PageSize \in Nat \ {0} /\ MaxAddresses \in Nat \ {0}
  BY IndexAssumption

(* Nothing is no entry, no journal, no scan, no call and no page. *)
LEMMA Nothing ==
  /\ None \notin Worker /\ None \notin PageNo /\ None \notin Entry
  /\ None \notin Journal /\ None \notin Scan /\ None \notin Address \X Resource
  BY IndexAssumption

(* Pages and offsets of positions, in the terms of the specification. *)
LEMMA Places ==
  /\ \A i \in Nat : Number(i) \in Nat /\ Offset(i) \in 0 .. PageSize - 1
  /\ \A i, j \in Nat : i < j =>
        Number(i) < Number(j) \/ (Number(i) = Number(j) /\ Offset(i) < Offset(j))
  /\ \A i \in Nat : IF Offset(i) + 1 < PageSize
        THEN Number(i + 1) = Number(i) /\ Offset(i + 1) = Offset(i) + 1
        ELSE Number(i + 1) = Number(i) + 1 /\ Offset(i + 1) = 0
  /\ \A i \in Nat : Number(i + 1 + PageSize - 1) = Number(i) + 1
  /\ \A i \in 0 .. MaxAddresses : Number(i) \in PageNo
  <1>1. \A i \in Nat : Number(i) \in Nat /\ Offset(i) \in 0 .. PageSize - 1
    BY Sizes, Divided DEF Number, Offset
  <1>2. \A i, j \in Nat : i < j =>
          Number(i) < Number(j) \/ (Number(i) = Number(j) /\ Offset(i) < Offset(j))
    BY Sizes, PositionOrder DEF Number, Offset
  <1>3. \A i \in Nat : IF Offset(i) + 1 < PageSize
          THEN Number(i + 1) = Number(i) /\ Offset(i + 1) = Offset(i) + 1
          ELSE Number(i + 1) = Number(i) + 1 /\ Offset(i + 1) = 0
    BY Sizes, NextPosition DEF Number, Offset
  <1>4. \A i \in Nat : Number(i + 1 + PageSize - 1) = Number(i) + 1
    BY Sizes, PagesUpTo DEF Number
  <1>5. ASSUME NEW i \in 0 .. MaxAddresses PROVE Number(i) \in PageNo
    <2>1. i \in Nat /\ i <= MaxAddresses
      BY Sizes
    <2>2. i \div PageSize \in 0 .. i
      BY Sizes, <2>1, PagesFew
    <2> QED BY Sizes, <2>1, <2>2 DEF Number, PageNo
  <1> QED BY <1>1, <1>2, <1>3, <1>4, <1>5

(* Every committed position has an address on its page. *)
LEMMA CommittedLinked ==
  ASSUME TypeOK, PagesFilled, QuotaKept, NEW i \in 0 .. head.count - 1
  PROVE  /\ Number(i) \in PageNo
         /\ Offset(i) + 1 \in 1 .. Len(page[Number(i)])
         /\ Linked(i) /\ At(i) \in Address
  <1>1. head.count \in Nat /\ head.count <= MaxAddresses
    BY Sizes DEF TypeOK, QuotaKept
  <1>2. i \in Nat /\ i < head.count /\ i \in 0 .. MaxAddresses
    BY <1>1, Sizes
  <1>3. Number(i) \in PageNo
    BY <1>2, Places
  <1>4. page[Number(i)] \in Seq(Address) /\ Len(page[Number(i)]) \in Nat
    BY <1>3 DEF TypeOK
  <1>5. Offset(i) < Len(page[Number(i)])
    <2>1. Offset(i) \in 0 .. PageSize - 1 /\ Number(i) \in Nat
      BY <1>2, Places
    <2>2. Number(head.count) \in Nat /\ Offset(head.count) \in 0 .. PageSize - 1
      BY <1>1, Places
    <2>3. Number(i) < Number(head.count)
          \/ (Number(i) = Number(head.count) /\ Offset(i) < Offset(head.count))
      BY <1>1, <1>2, Places
    <2> QED BY <1>3, <1>4, <2>1, <2>2, <2>3, Sizes DEF PagesFilled, Fill
  <1>6. Offset(i) \in Nat
    BY <1>2, Places, Sizes
  <1> QED BY <1>3, <1>4, <1>5, <1>6 DEF Linked, At

(* What leaves the index alone leaves alone what the invariant says of it. *)
LEMMA IndexLeftAlone ==
  ASSUME PagesFilled, JournalShape, EntriesLinked, QuotaKept, UNCHANGED index
  PROVE  PagesFilled' /\ JournalShape' /\ EntriesLinked' /\ QuotaKept'
  BY DEF index, PagesFilled, HeadValid, Fill, JournalShape, EntriesLinked, QuotaKept,
         At, Linked, Committed

(* The index is empty at first, and nobody is at work.                     *)
LEMMA InitIndexInv == Init => IndexInv
  <1> SUFFICES ASSUME Init PROVE IndexInv
    OBVIOUS
  <1>1. TypeOK
    <2>1. page \in [PageNo -> Seq(Address)]
      BY DEF Init
    <2> QED BY <2>1 DEF Init, TypeOK
  <1>2. PagesFilled
    <2>1. Number(0) = 0 /\ Offset(0) = 0 /\ Number(0 + PageSize - 1) = 0
      BY FirstPage, Sizes DEF Number, Offset
    <2> QED BY <2>1, Sizes DEF Init, PagesFilled, HeadValid, Fill, PageNo
  <1>3. JournalShape /\ EntriesLinked
    BY DEF Init, JournalShape, EntriesLinked
  <1>4. WorkShape /\ ScanShape
    BY Nothing DEF Init, WorkShape, ScanShape, Locking
  <1>5. QuotaKept /\ DataIndexed /\ ScanFaithful /\ NeverCorrupt
    BY Sizes DEF Init, QuotaKept, DataIndexed, ScanFaithful, NeverCorrupt
  <1> QED BY <1>1, <1>2, <1>3, <1>4, <1>5 DEF IndexInv

-----------------------------------------------------------------------------
(* No page is too long. *)
LEMMA PagesSmall ==
  ASSUME IndexInv, NEW n \in PageNo
  PROVE  Len(page[n]) \in 0 .. PageSize /\ PageValid(n)
  <1>1. head.count \in Nat /\ Len(page[n]) \in Nat
    BY DEF IndexInv, TypeOK
  <1>2. Offset(head.count) \in 0 .. PageSize - 1
    BY <1>1, Places
  <1> QED BY <1>1, <1>2, Sizes DEF IndexInv, PagesFilled, Fill, PageValid

(* The quota leaves room on the pages for the position after the last. *)
LEMMA TailPage ==
  ASSUME IndexInv, head.count < MaxAddresses
  PROVE  Number(head.count) \in PageNo /\ head.count \in Nat
         /\ Offset(head.count) \in 0 .. PageSize - 1
  <1>1. head.count \in 0 .. MaxAddresses
    BY Sizes DEF IndexInv, TypeOK
  <1> QED BY <1>1, Places, Sizes

(* A journal leaves room for its address. *)
LEMMA JournalRoom ==
  ASSUME IndexInv, head.journal # None
  PROVE  head.count < MaxAddresses /\ head.journal \in Journal
  BY Sizes DEF IndexInv, QuotaKept, TypeOK

(* _recover never raises: every journal it meets is one it can carry out. *)
LEMMA JournalSound ==
  ASSUME IndexInv, head.journal # None
  PROVE  JournalValid
  <1>1. Number(head.count) \in PageNo /\ Offset(head.count) \in 0 .. PageSize - 1
    BY JournalRoom, TailPage
  <1>2. PageValid(Number(head.count))
    BY <1>1, PagesSmall
  <1>3. Number(head.count) \in Nat /\ Len(page[Number(head.count)]) \in Nat
    BY <1>1, PagesSmall, Sizes DEF PageNo
  <1> QED BY <1>1, <1>2, <1>3 DEF IndexInv, PagesFilled, Fill, JournalShape, JournalValid

(* Without a journal every entry is the one of a committed position. *)
LEMMA EntrySound ==
  ASSUME IndexInv, head.journal = None, NEW a \in Address, entry[a] # None
  PROVE  EntryValid(a) /\ Committed(entry[a].position)
  <1>1. Committed(entry[a].position) /\ At(entry[a].position) = a
    BY DEF IndexInv, EntriesLinked
  <1>2. entry[a].position \in Nat
    BY DEF IndexInv, TypeOK, Entry
  <1>3. entry[a].position \in 0 .. head.count - 1
    BY <1>1, <1>2 DEF Committed, IndexInv, TypeOK
  <1>4. Number(entry[a].position) \in PageNo /\ Linked(entry[a].position)
    BY <1>3, CommittedLinked DEF IndexInv
  <1> QED BY <1>1, <1>4, PagesSmall DEF EntryValid, Committed

(* What readers hold is as good as before when the index has not changed. *)
LEMMA ScansLeftAlone ==
  ASSUME IndexInv, UNCHANGED <<index, scan>>
  PROVE  ScanShape' /\ ScanFaithful'
  BY DEF IndexInv, index, ScanShape, SoundScan,
     ScanFaithful, FaithfulScan, At, Committed

(* So is what the stores hold. *)
LEMMA DataLeftAlone ==
  ASSUME IndexInv, UNCHANGED index, data' \subseteq data
  PROVE  DataIndexed'
  BY DEF IndexInv, index, DataIndexed, Indexed, Committed

(* A call takes the lock and starts by recovering. *)
LEMMA BeginStep ==
  ASSUME IndexInv, NEW w \in Worker, Begin(w)
  PROVE  IndexInv'
  <1>1. TypeOK'
    BY DEF Begin, Goto, index, IndexInv, TypeOK
  <1>2. PagesFilled' /\ JournalShape' /\ EntriesLinked' /\ QuotaKept'
    BY IndexLeftAlone DEF Begin, IndexInv
  <1>3. WorkShape'
    BY Nothing DEF Begin, Goto, index, IndexInv, TypeOK, WorkShape, Locking, Linked, Indexed,
       Committed
  <1>4. ScanShape' /\ ScanFaithful' /\ DataIndexed' /\ NeverCorrupt'
    BY ScansLeftAlone, DataLeftAlone DEF Begin, IndexInv, NeverCorrupt
  <1> QED BY <1>1, <1>2, <1>3, <1>4 DEF IndexInv

(* The resource that is put has been indexed under the lock. *)
LEMMA PutStep ==
  ASSUME IndexInv, NEW w \in Worker, Put(w)
  PROVE  IndexInv'
  <1>1. call[w] \in Address \X Resource /\ Indexed(call[w][1], call[w][2])
    BY DEF Put, IndexInv, TypeOK, WorkShape
  <1>2. TypeOK'
    BY <1>1 DEF Put, Goto, index, IndexInv, TypeOK
  <1>3. PagesFilled' /\ JournalShape' /\ EntriesLinked' /\ QuotaKept'
    BY IndexLeftAlone DEF Put, IndexInv
  <1>4. WorkShape'
    BY Nothing DEF Put, Goto, index, IndexInv, TypeOK, WorkShape, Locking, Linked, Indexed,
       Committed
  <1>5. DataIndexed'
    BY <1>1 DEF Put, index, IndexInv, DataIndexed, Indexed, Committed
  <1>6. ScanShape' /\ ScanFaithful' /\ NeverCorrupt'
    BY ScansLeftAlone DEF Put, IndexInv, NeverCorrupt
  <1> QED BY <1>2, <1>3, <1>4, <1>5, <1>6 DEF IndexInv

(* Forgetting data leaves everything else alone. *)
LEMMA ForgetStep ==
  ASSUME IndexInv, NEW w \in Worker, Forget(w)
  PROVE  IndexInv'
  <1>1. TypeOK'
    BY DEF Forget, index, work, IndexInv, TypeOK
  <1>2. PagesFilled' /\ JournalShape' /\ EntriesLinked' /\ QuotaKept'
    BY IndexLeftAlone DEF Forget, IndexInv
  <1>3. WorkShape'
    BY DEF Forget, index, work, IndexInv, WorkShape, Linked, Indexed, Committed
  <1>4. ScanShape' /\ ScanFaithful' /\ DataIndexed' /\ NeverCorrupt'
    BY ScansLeftAlone, DataLeftAlone DEF Forget, IndexInv, NeverCorrupt
  <1> QED BY <1>1, <1>2, <1>3, <1>4 DEF IndexInv

(* An interruption leaves the index to the next caller as it is. *)
LEMMA InterruptStep ==
  ASSUME IndexInv, NEW w \in Worker, Interrupt(w)
  PROVE  IndexInv'
  <1>1. TypeOK'
    BY DEF Interrupt, index, IndexInv, TypeOK
  <1>2. PagesFilled' /\ JournalShape' /\ EntriesLinked' /\ QuotaKept'
    BY IndexLeftAlone DEF Interrupt, IndexInv
  <1>3. WorkShape'
    BY Nothing DEF Interrupt, index, IndexInv, TypeOK, WorkShape, Locking, Linked, Indexed,
       Committed
  <1>4. ScanShape' /\ ScanFaithful' /\ DataIndexed' /\ NeverCorrupt'
    BY ScansLeftAlone, DataLeftAlone DEF Interrupt, IndexInv, NeverCorrupt
  <1> QED BY <1>1, <1>2, <1>3, <1>4 DEF IndexInv

(* A refused append changes nothing. *)
LEMMA RefuseStep ==
  ASSUME IndexInv, NEW w \in Worker, Refuse(w)
  PROVE  IndexInv'
  <1>1. TypeOK'
    BY DEF Refuse, Leave, Goto, index, IndexInv, TypeOK
  <1>2. PagesFilled' /\ JournalShape' /\ EntriesLinked' /\ QuotaKept'
    BY IndexLeftAlone DEF Refuse, IndexInv
  <1>3. WorkShape'
    BY Nothing DEF Refuse, Leave, Goto, index, IndexInv, TypeOK, WorkShape, Locking, Linked,
       Indexed, Committed
  <1>4. ScanShape' /\ ScanFaithful' /\ DataIndexed' /\ NeverCorrupt'
    BY ScansLeftAlone, DataLeftAlone DEF Refuse, IndexInv, NeverCorrupt
  <1> QED BY <1>1, <1>2, <1>3, <1>4 DEF IndexInv

(* A resource that is known already is indexed. *)
LEMMA KnownStep ==
  ASSUME IndexInv, NEW w \in Worker, Known(w)
  PROVE  IndexInv'
  <1>1. call[w] \in Address \X Resource /\ head.journal = None
    BY DEF Known, IndexInv, TypeOK, WorkShape
  <1>2. EntryValid(call[w][1]) /\ Indexed(call[w][1], call[w][2]) /\ Finish(w)
    BY <1>1, EntrySound DEF Known, Indexed
  <1>3. TypeOK'
    BY <1>2 DEF Known, Finish, Leave, Goto, index, IndexInv, TypeOK
  <1>4. PagesFilled' /\ JournalShape' /\ EntriesLinked' /\ QuotaKept'
    BY IndexLeftAlone DEF Known, IndexInv
  <1>5. WorkShape'
    BY <1>1, <1>2, Nothing DEF Known, Finish, Leave, Goto, index, IndexInv, TypeOK, WorkShape,
       Locking, Linked, Indexed, Committed
  <1>6. ScanShape' /\ ScanFaithful' /\ DataIndexed' /\ NeverCorrupt'
    BY <1>2, ScansLeftAlone, DataLeftAlone DEF Known, Finish, IndexInv, NeverCorrupt
  <1> QED BY <1>3, <1>4, <1>5, <1>6 DEF IndexInv

-----------------------------------------------------------------------------
(* Readers change nothing but what they have read. *)
LEMMA ReaderLeavesAlone ==
  ASSUME IndexInv, UNCHANGED <<index, data, work, faults>>
  PROVE  /\ PagesFilled' /\ JournalShape' /\ EntriesLinked' /\ QuotaKept'
         /\ WorkShape' /\ DataIndexed'
  <1>1. PagesFilled' /\ JournalShape' /\ EntriesLinked' /\ QuotaKept' /\ DataIndexed'
    BY IndexLeftAlone, DataLeftAlone DEF IndexInv
  <1>2. WorkShape'
    BY DEF index, work, IndexInv, WorkShape, Linked, Indexed, Committed
  <1> QED BY <1>1, <1>2

(* A read is right when what the reader has after it is. *)
LEMMA ReadRight ==
  ASSUME IndexInv, NEW s \in Reader, NEW r \in Scan, SoundScan(r), FaithfulScan(r),
         scan' = [scan EXCEPT ![s] = r], UNCHANGED <<index, data, work, corrupt, faults>>
  PROVE  IndexInv'
  <1>1. scan'[s] = r /\ \A u \in Reader : u # s => scan'[u] = scan[u]
    BY DEF IndexInv, TypeOK
  <1>2. TypeOK'
    BY DEF index, work, IndexInv, TypeOK
  <1>3. ScanShape'
    <2> SUFFICES ASSUME NEW u \in Reader, scan'[u] # None PROVE SoundScan(scan[u])'
      BY DEF ScanShape
    <2>1. SoundScan(scan'[u])
      BY <1>1 DEF IndexInv, ScanShape
    <2> QED BY <2>1 DEF index, SoundScan, At
  <1>4. ScanFaithful'
    <2> SUFFICES ASSUME NEW u \in Reader, scan'[u] # None PROVE FaithfulScan(scan[u])'
      BY DEF ScanFaithful
    <2>1. FaithfulScan(scan'[u])
      BY <1>1 DEF IndexInv, ScanFaithful
    <2> QED BY <2>1 DEF index, FaithfulScan, Committed, At
  <1> QED BY <1>2, <1>3, <1>4, ReaderLeavesAlone DEF IndexInv, NeverCorrupt

(* The positions a reader has before it are committed. *)
LEMMA NextCommitted ==
  ASSUME IndexInv, NEW s \in Reader, scan[s] # None
  PROVE  /\ scan[s] \in Scan
         /\ \A i \in 0 .. scan[s].end - 1 : i \in 0 .. head.count - 1
         /\ scan[s].next < scan[s].end => scan[s].next \in 0 .. scan[s].end - 1
  <1>1. scan[s] \in Scan /\ scan[s].end <= head.count /\ head.count \in Nat
    BY DEF IndexInv, TypeOK, ScanShape, SoundScan
  <1> QED BY <1>1 DEF Scan

(* A scan starts with nothing read, and ends where the index does. *)
LEMMA OpenStep ==
  ASSUME IndexInv, NEW s \in Reader, Open(s)
  PROVE  IndexInv'
  <1>1. HeadValid /\ UNCHANGED corrupt
    BY DEF Open, IndexInv, PagesFilled
  <1>2. PICK cursor \in Cursors, limit \in Limits :
          scan' = [scan EXCEPT ![s] =
              [next |-> cursor, end |-> Smaller(cursor + limit, head.count),
               no |-> None, ids |-> <<>>, from |-> cursor, seen |-> <<>>]]
    BY <1>1 DEF Open
  <1>3. cursor \in Nat /\ limit \in Nat /\ head.count \in Nat
    BY IndexAssumption DEF IndexInv, TypeOK
  <1>4. Smaller(cursor + limit, head.count) \in 0 .. head.count
    BY <1>3 DEF Smaller
  <1> DEFINE new == [next |-> cursor, end |-> Smaller(cursor + limit, head.count),
                     no |-> None, ids |-> <<>>, from |-> cursor, seen |-> <<>>]
  <1>5. new \in Scan
    BY <1>3, <1>4 DEF Scan
  <1>6. SoundScan(new)
    BY <1>3, <1>4, <1>5 DEF SoundScan
  <1>7. FaithfulScan(new)
    BY DEF FaithfulScan
  <1> QED BY <1>1, <1>2, <1>5, <1>6, <1>7, ReadRight DEF Open

(* The page a reader turns to has every committed address it may want. *)
LEMMA TurnStep ==
  ASSUME IndexInv, NEW s \in Reader, Turn(s)
  PROVE  IndexInv'
  <1> DEFINE n == Number(scan[s].next)
  <1>1. scan[s] \in Scan /\ scan[s] # None /\ scan[s].next \in 0 .. head.count - 1
    BY NextCommitted DEF Turn
  <1>2. n \in PageNo /\ page[n] \in Seq(Address) /\ Len(page[n]) <= PageSize
    BY <1>1, CommittedLinked, PagesSmall, Sizes DEF IndexInv, TypeOK
  <1> DEFINE new == [scan[s] EXCEPT !.no = n, !.ids = page[n]]
  <1>3. new \in Scan
    BY <1>1, <1>2 DEF Scan
  <1>4. /\ new.no = n /\ new.ids = page[n] /\ new.next = scan[s].next
        /\ new.end = scan[s].end /\ new.from = scan[s].from /\ new.seen = scan[s].seen
    BY <1>1 DEF Scan
  <1>5. SoundScan(scan[s]) /\ FaithfulScan(scan[s])
    BY <1>1 DEF IndexInv, ScanShape, ScanFaithful
  <1>6. ASSUME NEW i \in 0 .. scan[s].end - 1, Number(i) = n
        PROVE  Offset(i) < Len(page[n]) /\ page[n][Offset(i) + 1] = At(i)
    <2>1. Linked(i)
      BY <1>1, NextCommitted, CommittedLinked DEF IndexInv
    <2> QED BY <1>6, <2>1 DEF Linked, At
  <1>7. SoundScan(new)
    BY <1>2, <1>4, <1>5, <1>6 DEF SoundScan
  <1>8. FaithfulScan(new)
    BY <1>4, <1>5 DEF FaithfulScan
  <1> QED BY <1>3, <1>7, <1>8, ReadRight DEF Turn

(* The entry of a committed position is there, and it is the right one. *)
LEMMA PickStep ==
  ASSUME IndexInv, NEW s \in Reader, Pick(s)
  PROVE  IndexInv'
  <1> DEFINE i == scan[s].next
             a == scan[s].ids[Offset(i) + 1]
             new == [scan[s] EXCEPT !.next = i + 1, !.seen = Append(@, a)]
  <1>1. scan[s] \in Scan /\ scan[s] # None /\ i \in 0 .. scan[s].end - 1
        /\ i \in 0 .. head.count - 1
    BY NextCommitted DEF Pick
  <1>2. scan[s].no \in PageNo
    BY <1>1, Nothing, CommittedLinked DEF Pick, IndexInv
  <1>3. Len(scan[s].ids) <= PageSize /\ Offset(i) < Len(scan[s].ids) /\ a = At(i)
    BY <1>1, <1>2, Nothing DEF Pick, IndexInv, ScanShape, SoundScan
  <1>4. a \in Address /\ entry[a] # None /\ entry[a].position = i
    BY <1>1, <1>3, CommittedLinked DEF IndexInv, EntriesLinked
  <1>5. scan' = [scan EXCEPT ![s] = new] /\ UNCHANGED corrupt
    BY <1>3, <1>4 DEF Pick
  <1>6. scan[s].seen \in Seq(Address) /\ scan[s].from \in Nat /\ i \in Nat
    BY <1>1 DEF Scan
  <1>7. Append(scan[s].seen, a) \in Seq(Address)
    BY <1>4, <1>6
  <1>8. new \in Scan
    <2>1. PICK m \in Nat : m = i + 1
      BY <1>6
    <2>2. PICK q \in Seq(Address) : q = Append(scan[s].seen, a)
      BY <1>7
    <2>3. ASSUME NEW r \in Scan PROVE [r EXCEPT !.next = m, !.seen = q] \in Scan
      BY DEF Scan
    <2>4. [scan[s] EXCEPT !.next = m, !.seen = q] \in Scan
      BY <1>1, <2>3
    <2> QED BY <2>1, <2>2, <2>4
  <1>9. /\ new.next = i + 1 /\ new.from = scan[s].from /\ new.seen = Append(scan[s].seen, a)
        /\ new.end = scan[s].end /\ new.ids = scan[s].ids /\ new.no = scan[s].no
    BY <1>1 DEF Scan
  <1>10. SoundScan(scan[s]) /\ FaithfulScan(scan[s])
    BY <1>1 DEF IndexInv, ScanShape, ScanFaithful
  <1>11. i = scan[s].from + Len(scan[s].seen)
    BY <1>10 DEF SoundScan
  <1>12. SoundScan(new)
    <2>1. i + 1 = scan[s].from + Len(Append(scan[s].seen, a))
      BY <1>4, <1>6, <1>11
    <2> QED BY <1>9, <1>10, <2>1 DEF SoundScan
  <1>13. FaithfulScan(new)
    <2> SUFFICES ASSUME NEW k \in DOMAIN new.seen
                 PROVE  /\ Committed(new.from + k - 1)
                        /\ new.seen[k] = At(new.from + k - 1)
      BY DEF FaithfulScan
    <2>1. k \in 1 .. Len(scan[s].seen) + 1
      BY <1>4, <1>6, <1>9
    <2>2. CASE k = Len(scan[s].seen) + 1
      <3>1. new.from + k - 1 = i
        BY <1>6, <1>9, <1>11, <2>2
      <3>2. new.seen[k] = a
        BY <1>4, <1>6, <1>9, <2>2
      <3>3. Committed(i)
        BY <1>1 DEF Committed, IndexInv, TypeOK
      <3> QED BY <1>3, <3>1, <3>2, <3>3
    <2>3. CASE k \in 1 .. Len(scan[s].seen)
      <3>1. new.seen[k] = scan[s].seen[k] /\ k \in DOMAIN scan[s].seen
        BY <1>4, <1>6, <1>9, <2>3
      <3> QED BY <1>9, <1>10, <3>1 DEF FaithfulScan
    <2> QED BY <1>6, <2>1, <2>2, <2>3
  <1> QED BY <1>5, <1>8, <1>12, <1>13, ReadRight DEF Pick

(* A scan that is over is forgotten. *)
LEMMA CloseStep ==
  ASSUME IndexInv, NEW s \in Reader, Close(s)
  PROVE  IndexInv'
  <1>1. TypeOK'
    BY DEF Close, index, work, IndexInv, TypeOK
  <1>2. ScanShape' /\ ScanFaithful'
    BY DEF Close, index, IndexInv, TypeOK, ScanShape, SoundScan,
     ScanFaithful, FaithfulScan, At, Committed
  <1> QED BY <1>1, <1>2, ReaderLeavesAlone DEF Close, IndexInv, NeverCorrupt

-----------------------------------------------------------------------------
(* The page takes the journalled address; the others stay where they are.  *)
LEMMA PageGrows ==
  ASSUME IndexInv, head.journal # None, ~Linked(head.count), UNCHANGED head,
         page' = [page EXCEPT ![Number(head.count)] = Append(@, head.journal.address)]
  PROVE  /\ page' \in [PageNo -> Seq(Address)]
         /\ \A i \in 0 .. head.count - 1 : At(i)' = At(i) /\ Linked(i)'
         /\ PagesFilled' /\ Linked(head.count)'
  <1> DEFINE n == Number(head.count)
             a == head.journal.address
  <1>1. n \in PageNo /\ head.count \in Nat /\ Offset(head.count) \in 0 .. PageSize - 1
        /\ a \in Address
    BY JournalRoom, TailPage DEF Journal
  <1>2. page[n] \in Seq(Address) /\ n \in Nat /\ Offset(head.count) \in Nat
    BY <1>1, Places, Sizes DEF IndexInv, TypeOK
  <1>3. Len(page[n]) = Offset(head.count)
    BY <1>1, <1>2 DEF IndexInv, PagesFilled, Fill, Linked
  <1>4. page'[n] = Append(page[n], a) /\ \A k \in PageNo : k # n => page'[k] = page[k]
    BY <1>1 DEF IndexInv, TypeOK
  <1>5. page' \in [PageNo -> Seq(Address)]
    BY <1>1, <1>2 DEF IndexInv, TypeOK
  <1>6. Len(page'[n]) = Offset(head.count) + 1 /\ page'[n][Offset(head.count) + 1] = a
    BY <1>1, <1>2, <1>3, <1>4
  <1>7. ASSUME NEW i \in 0 .. head.count - 1 PROVE At(i)' = At(i) /\ Linked(i)'
    <2>1. Number(i) \in PageNo /\ Offset(i) + 1 \in 1 .. Len(page[Number(i)]) /\ Linked(i)
      BY CommittedLinked DEF IndexInv
    <2>2. CASE Number(i) = n
      <3>1. Offset(i) + 1 \in 1 .. Len(page[n])
        BY <2>1, <2>2
      <3>2. /\ page'[n][Offset(i) + 1] = page[n][Offset(i) + 1]
            /\ Offset(i) < Len(page'[n])
        <4>1. PICK k \in 1 .. Len(page[n]) : k = Offset(i) + 1
          BY <3>1
        <4>2. page'[n][k] = page[n][k] /\ Len(page'[n]) = Len(page[n]) + 1
          BY <1>1, <1>2, <1>4
        <4>3. i \in Nat
          BY <1>1
        <4>4. Offset(i) \in 0 .. PageSize - 1
          BY <4>3, Places
        <4>5. Offset(i) \in Nat
          BY <4>4, Sizes
        <4> QED BY <1>2, <4>1, <4>2, <4>5
      <3> QED BY <2>2, <3>2 DEF At, Linked
    <2>3. CASE Number(i) # n
      BY <1>4, <2>1, <2>3 DEF At, Linked
    <2> QED BY <2>2, <2>3
  <1>8. PagesFilled'
    <2>1. HeadValid'
      BY DEF IndexInv, PagesFilled, HeadValid
    <2>2. At(head.count)' = a
      BY <1>6 DEF At
    <2>3. ASSUME NEW k \in PageNo, k # n PROVE Len(page'[k]) = Fill(head.count, k)
      BY <1>4, <2>3 DEF IndexInv, PagesFilled
    <2> QED BY <1>6, <2>1, <2>2, <2>3 DEF PagesFilled
  <1>9. Linked(head.count)'
    BY <1>1, <1>6, Sizes DEF Linked
  <1> QED BY <1>5, <1>7, <1>8, <1>9

(* _recover without a journal is over; with one it puts the address on its *)
(* page, unless it is there.                                               *)
LEMMA LinkStep ==
  ASSUME IndexInv, NEW w \in Worker, Link(w)
  PROVE  IndexInv'
  <1>0. HeadValid /\ (head.journal # None => JournalValid)
    BY JournalSound DEF IndexInv, PagesFilled
  <1>1. CASE head.journal = None
    <2>1. CASE call[w] = None
      <3>1. UNCHANGED <<index, data, scan, call, corrupt, faults>> /\ Leave(w, "idle")
        BY <1>0, <1>1, <2>1 DEF Link, Finish, index
      <3>2. TypeOK'
        BY <3>1 DEF Leave, Goto, index, IndexInv, TypeOK
      <3>3. WorkShape'
        BY <3>1, Nothing DEF Link, Leave, Goto, index, IndexInv, TypeOK, WorkShape, Locking,
           Linked, Indexed, Committed
      <3> QED BY <3>1, <3>2, <3>3, IndexLeftAlone, ScansLeftAlone, DataLeftAlone
              DEF IndexInv, NeverCorrupt
    <2>2. CASE call[w] # None
      <3>1. UNCHANGED <<index, data, scan, call, corrupt, faults, lock, own>>
            /\ Goto(w, "record")
        BY <1>0, <1>1, <2>2 DEF Link, index
      <3>2. TypeOK'
        BY <3>1 DEF Goto, index, IndexInv, TypeOK
      <3>3. WorkShape'
        BY <1>1, <2>2, <3>1, Nothing DEF Link, Goto, index, IndexInv, TypeOK, WorkShape,
           Locking, Linked, Indexed, Committed
      <3> QED BY <3>1, <3>2, <3>3, IndexLeftAlone, ScansLeftAlone, DataLeftAlone
              DEF IndexInv, NeverCorrupt
    <2> QED BY <2>1, <2>2
  <1>2. CASE head.journal # None
    <2>1. /\ page' = IF Linked(head.count) THEN page
                     ELSE [page EXCEPT ![Number(head.count)] =
                             Append(@, head.journal.address)]
          /\ Goto(w, "entry")
          /\ UNCHANGED <<head, entry, data, scan, call, corrupt, faults, lock, own>>
      BY <1>0, <1>2 DEF Link
    <2>2. /\ page' \in [PageNo -> Seq(Address)]
          /\ \A i \in 0 .. head.count - 1 : At(i)' = At(i)
          /\ PagesFilled' /\ Linked(head.count)'
      <3>1. CASE Linked(head.count)
        BY <2>1, <3>1 DEF IndexInv, TypeOK, PagesFilled, HeadValid, Fill, At, Linked
      <3>2. CASE ~Linked(head.count)
        BY <1>2, <2>1, <3>2, PageGrows
      <3> QED BY <3>1, <3>2
    <2>3. TypeOK'
      BY <2>1, <2>2 DEF Goto, IndexInv, TypeOK
    <2>4. JournalShape'
      BY <2>1, <2>2 DEF IndexInv, JournalShape
    <2>5. EntriesLinked'
      <3>1. \A i \in 0 .. head.count - 1 : entry[At(i)'] # None /\ entry[At(i)'].position = i
        BY <2>2 DEF IndexInv, EntriesLinked
      <3>2. ASSUME NEW a \in Address, entry[a] # None,
                   Committed(entry[a].position), At(entry[a].position) = a
            PROVE  At(entry[a].position)' = a
        <4>1. entry[a].position \in 0 .. head.count - 1
          BY <3>2 DEF IndexInv, TypeOK, Entry, Committed
        <4> QED BY <2>1, <2>2, <3>2, <4>1 DEF At
      <3> QED BY <2>1, <2>2, <3>1, <3>2 DEF IndexInv, EntriesLinked, Committed
    <2>6. WorkShape'
      BY <1>2, <2>1, <2>2, Nothing DEF Link, Goto, IndexInv, TypeOK, WorkShape, Locking,
         Indexed, Committed
    <2>7. ScanShape'
      <3> SUFFICES ASSUME NEW s \in Reader, scan[s] # None PROVE SoundScan(scan[s])'
        BY <2>1 DEF ScanShape
      <3>1. SoundScan(scan[s]) /\ \A i \in 0 .. scan[s].end - 1 : i \in 0 .. head.count - 1
        BY NextCommitted DEF IndexInv, ScanShape
      <3> QED BY <2>1, <2>2, <3>1 DEF SoundScan
    <2>8. ScanFaithful'
      <3> SUFFICES ASSUME NEW s \in Reader, scan[s] # None, NEW k \in DOMAIN scan[s].seen
                   PROVE  /\ Committed(scan[s].from + k - 1)'
                          /\ scan[s].seen[k] = At(scan[s].from + k - 1)'
        BY <2>1 DEF ScanFaithful, FaithfulScan
      <3> DEFINE i == scan[s].from + k - 1
      <3>1. Committed(i) /\ scan[s].seen[k] = At(i)
        BY DEF IndexInv, ScanFaithful, FaithfulScan
      <3>2. scan[s].from \in Nat /\ k \in Nat \ {0}
        BY NextCommitted DEF Scan
      <3>3. i \in 0 .. head.count - 1
        BY <3>1, <3>2 DEF Committed, IndexInv, TypeOK
      <3>4. At(i)' = At(i)
        BY <2>1, <2>2, <3>3 DEF At
      <3> QED BY <2>1, <3>1, <3>4 DEF Committed
    <2>9. QuotaKept' /\ DataIndexed' /\ NeverCorrupt'
      BY <2>1 DEF IndexInv, QuotaKept, DataIndexed, Indexed, Committed, NeverCorrupt
    <2> QED BY <2>2, <2>3, <2>4, <2>5, <2>6, <2>7, <2>8, <2>9 DEF IndexInv
  <1> QED BY <1>1, <1>2

(* What is indexed is not what is being appended. *)
LEMMA IndexedBefore ==
  ASSUME IndexInv, head.journal # None, NEW a \in Address, NEW r, Indexed(a, r)
  PROVE  a # head.journal.address
  <1>1. entry[a] # None /\ Committed(entry[a].position) /\ entry[a].position \in Nat
    BY DEF Indexed, IndexInv, TypeOK, Entry
  <1>2. ~Committed(head.count) /\ entry[a].position \in 0 .. head.count - 1
    BY <1>1 DEF Committed, IndexInv, TypeOK
  <1> QED BY <1>1, <1>2 DEF IndexInv, EntriesLinked, JournalShape

(* The entry of the journal touches no committed one. *)
LEMMA PutEntryStep ==
  ASSUME IndexInv, NEW w \in Worker, PutEntry(w)
  PROVE  IndexInv'
  <1> DEFINE a == head.journal.address
  <1>1. /\ head.journal # None /\ Linked(head.count) /\ a \in Address
        /\ head.journal.entry \in Entry
    BY JournalRoom DEF PutEntry, IndexInv, WorkShape, Locking, Journal
  <1>2. entry' = [entry EXCEPT ![a] = head.journal.entry] /\ UNCHANGED <<head, page>>
    BY DEF PutEntry
  <1>3. entry'[a] = head.journal.entry /\ \A b \in Address : b # a => entry'[b] = entry[b]
    BY <1>1, <1>2 DEF IndexInv, TypeOK
  <1>4. \A b \in Address, r \in Resource : Indexed(b, r) => Indexed(b, r)'
    <2> SUFFICES ASSUME NEW b \in Address, NEW r \in Resource, Indexed(b, r)
                 PROVE  Indexed(b, r)'
      OBVIOUS
    <2>1. entry'[b] = entry[b]
      BY <1>1, <1>3, IndexedBefore
    <2> QED BY <1>2, <2>1 DEF Indexed, Committed
  <1>5. TypeOK'
    BY <1>1 DEF PutEntry, Goto, IndexInv, TypeOK
  <1>6. PagesFilled' /\ JournalShape' /\ QuotaKept'
    BY <1>2 DEF IndexInv, PagesFilled, HeadValid, Fill, JournalShape, QuotaKept, At
  <1>7. EntriesLinked'
    <2>1. \A i \in 0 .. head.count - 1 : At(i) \in Address /\ At(i) # a
      BY <1>1, CommittedLinked DEF IndexInv, JournalShape
    <2>2. entry'[a] = head.journal.entry /\ Linked(head.count)'
      BY <1>1, <1>2, <1>3 DEF Linked
    <2> QED BY <1>1, <1>2, <1>3, <2>1, <2>2 DEF IndexInv, EntriesLinked, Committed, At, Linked
  <1>8. WorkShape'
    BY <1>1, <1>2, <1>3, <1>4, Nothing
    DEF PutEntry, Goto, IndexInv, TypeOK, WorkShape, Locking, Linked
  <1>9. DataIndexed'
    BY <1>4 DEF PutEntry, IndexInv, TypeOK, DataIndexed
  <1>10. ScanShape' /\ ScanFaithful' /\ NeverCorrupt'
    BY <1>2 DEF PutEntry, IndexInv, ScanShape, SoundScan, ScanFaithful, FaithfulScan, At,
       Committed, NeverCorrupt
  <1> QED BY <1>5, <1>6, <1>7, <1>8, <1>9, <1>10 DEF IndexInv

(* A committed append is the position after the last, whole. *)
LEMMA CommitStep ==
  ASSUME IndexInv, NEW w \in Worker, Commit(w)
  PROVE  IndexInv'
  <1> DEFINE c == head.count
             a == head.journal.address
  <1>1. /\ head.journal # None /\ Linked(c) /\ a \in Address
        /\ entry[a] = head.journal.entry /\ head.journal.entry \in Entry
    BY JournalRoom DEF Commit, IndexInv, WorkShape, Locking, Journal
  <1>2. c \in Nat /\ c < MaxAddresses /\ Number(c) \in PageNo /\ Number(c) \in Nat
        /\ Offset(c) \in 0 .. PageSize - 1
    BY <1>1, JournalRoom, TailPage, Places
  <1>3. head' = [count |-> c + 1, pages |-> Number(c) + 1, journal |-> None]
        /\ UNCHANGED <<page, entry, data, scan, faults>>
    BY DEF Commit
  <1>4. head'.count = c + 1 /\ head'.pages = Number(c) + 1 /\ head'.journal = None
    BY <1>3
  <1>5. Len(page[Number(c)]) = Offset(c) + 1 /\ At(c) = a
    BY <1>1, <1>2 DEF IndexInv, PagesFilled, Fill, Linked
  <1>6. entry[a] # None /\ entry[a].position = c
    BY <1>1, Nothing DEF IndexInv, JournalShape
  <1>7. \A b \in Address, r \in Resource : Indexed(b, r) => Indexed(b, r)'
    BY <1>2, <1>3, <1>4 DEF Indexed, Committed, IndexInv, TypeOK, Entry
  <1>8. UNCHANGED <<call, corrupt>>
    BY DEF Commit, Finish
  <1>9. TypeOK'
    <2>1. head' \in [count : Nat, pages : Nat, journal : Journal \cup {None}]
      BY <1>2, <1>3
    <2> QED BY <1>3, <1>8, <2>1 DEF Commit, Finish, Leave, Goto, IndexInv, TypeOK
  <1>10. PagesFilled'
    <2>1. HeadValid'
      BY <1>2, <1>4, Places DEF HeadValid
    <2>2. ASSUME NEW n \in PageNo PROVE Len(page[n]) = Fill(c + 1, n)
      <3>1. n \in Nat /\ (n # Number(c) => Len(page[n]) = Fill(c, n))
        BY Sizes DEF PageNo, IndexInv, PagesFilled
      <3>2. IF Offset(c) + 1 < PageSize
            THEN Number(c + 1) = Number(c) /\ Offset(c + 1) = Offset(c) + 1
            ELSE Number(c + 1) = Number(c) + 1 /\ Offset(c + 1) = 0
        BY <1>2, Places
      <3> QED BY <1>2, <1>5, <3>1, <3>2, Sizes DEF Fill
    <2> QED BY <1>3, <1>4, <2>1, <2>2 DEF PagesFilled
  <1>11. EntriesLinked'
    <2>1. \A i \in 0 .. c : entry[At(i)] # None /\ entry[At(i)].position = i
      BY <1>2, <1>5, <1>6 DEF IndexInv, EntriesLinked
    <2>2. \A b \in Address : entry[b] # None =>
             entry[b].position < c + 1 /\ At(entry[b].position) = b
      BY <1>2, <1>5, <1>6 DEF IndexInv, TypeOK, Entry, EntriesLinked, Committed
    <2> QED BY <1>2, <1>3, <1>4, <2>1, <2>2 DEF EntriesLinked, Committed, At
  <1>12. WorkShape'
    <2>1. CASE call[w] = None \/ w \in own
      <3>1. Finish(w)
        BY <2>1 DEF Commit
      <3>2. call[w] # None => Indexed(call[w][1], call[w][2])'
        <4>1. CASE w \in own
          <5>1. call'[w][1] = a /\ call'[w][2] \in entry'[a].resources
            BY <1>1, <1>3, <1>8, <4>1 DEF IndexInv, WorkShape
          <5>2. entry'[a] # None /\ entry'[a].position < head'.count
            BY <1>2, <1>3, <1>4, <1>6
          <5> QED BY <5>1, <5>2 DEF Indexed, Committed
        <4> QED BY <2>1, <4>1
      <3> QED BY <1>3, <1>4, <1>7, <1>8, <3>1, <3>2, Nothing
              DEF Commit, Finish, Leave, Goto, IndexInv, TypeOK, WorkShape, Locking
    <2>2. CASE ~(call[w] = None \/ w \in own)
      <3>1. Goto(w, "record") /\ UNCHANGED <<lock, call, own>>
        BY <2>2 DEF Commit
      <3> QED BY <1>3, <1>4, <1>7, <2>2, <3>1, Nothing
              DEF Commit, Goto, IndexInv, TypeOK, WorkShape, Locking
    <2> QED BY <2>1, <2>2
  <1>13. DataIndexed'
    BY <1>3, <1>7 DEF IndexInv, TypeOK, DataIndexed
  <1>14. ScanShape' /\ ScanFaithful'
    <2>1. ASSUME NEW s \in Reader, scan[s] # None PROVE SoundScan(scan[s])'
      <3>1. SoundScan(scan[s]) /\ scan[s].end \in Nat
        BY <2>1, NextCommitted DEF IndexInv, ScanShape, Scan
      <3>2. scan[s].end <= c + 1
        BY <1>2, <3>1 DEF SoundScan
      <3> QED BY <1>3, <1>4, <3>1, <3>2 DEF SoundScan, At
    <2>2. ASSUME NEW s \in Reader, scan[s] # None PROVE FaithfulScan(scan[s])'
      <3> SUFFICES ASSUME NEW k \in DOMAIN scan[s].seen
                   PROVE  /\ Committed(scan[s].from + k - 1)'
                          /\ scan[s].seen[k] = At(scan[s].from + k - 1)'
        BY <1>3 DEF FaithfulScan
      <3>1. /\ Committed(scan[s].from + k - 1)
            /\ scan[s].seen[k] = At(scan[s].from + k - 1)
        BY <2>2 DEF IndexInv, ScanFaithful, FaithfulScan
      <3>2. scan[s].from \in Nat /\ k \in Nat
        BY <2>2, NextCommitted DEF Scan
      <3> QED BY <1>2, <1>3, <1>4, <3>1, <3>2 DEF Committed, At
    <2> QED BY <1>3, <2>1, <2>2 DEF ScanShape, ScanFaithful
  <1>15. JournalShape' /\ QuotaKept' /\ NeverCorrupt'
    BY <1>1, <1>2, <1>4, <1>8, Sizes DEF IndexInv, JournalShape, QuotaKept, NeverCorrupt
  <1> QED BY <1>9, <1>10, <1>11, <1>12, <1>13, <1>14, <1>15 DEF IndexInv

(* One more resource of an indexed address. *)
LEMMA AttachStep ==
  ASSUME IndexInv, NEW w \in Worker, Attach(w)
  PROVE  IndexInv'
  <1> DEFINE a == call[w][1]
             r == call[w][2]
  <1>1. /\ call[w] \in Address \X Resource /\ a \in Address /\ r \in Resource
        /\ head.journal = None
    BY DEF Attach, IndexInv, TypeOK, WorkShape
  <1>2. entry[a] \in Entry /\ entry[a] # None /\ Committed(entry[a].position)
    BY <1>1, EntrySound DEF Attach, IndexInv, TypeOK
  <1>3. /\ entry' = [entry EXCEPT ![a].resources = @ \cup {r}]
        /\ Finish(w) /\ UNCHANGED <<head, page, data, scan, faults, call, corrupt>>
    BY DEF Attach, Finish
  <1> DEFINE new == [entry[a] EXCEPT !.resources = @ \cup {r}]
  <1>4. new \in Entry /\ new.position = entry[a].position
        /\ new.resources = entry[a].resources \cup {r}
    BY <1>1, <1>2 DEF Entry
  <1>5. entry'[a] = new /\ new # None
        /\ \A b \in Address : b # a => entry'[b] = entry[b]
    BY <1>1, <1>3, <1>4, Nothing DEF IndexInv, TypeOK
  <1>6. \A b \in Address : /\ entry[b] # None <=> entry'[b] # None
                           /\ entry[b] # None => entry'[b].position = entry[b].position
    BY <1>2, <1>4, <1>5
  <1>7. \A b \in Address, q \in Resource : Indexed(b, q) => Indexed(b, q)'
    BY <1>3, <1>4, <1>5, <1>6 DEF Indexed, Committed
  <1>8. Indexed(a, r)'
    BY <1>1, <1>2, <1>3, <1>4, <1>5 DEF Indexed, Committed
  <1>9. TypeOK'
    BY <1>1, <1>3, <1>4 DEF Finish, Leave, Goto, IndexInv, TypeOK
  <1>10. PagesFilled' /\ JournalShape' /\ QuotaKept'
    BY <1>3 DEF IndexInv, PagesFilled, HeadValid, Fill, JournalShape, QuotaKept, At
  <1>11. EntriesLinked'
    <2>1. \A i \in 0 .. head.count - 1 : At(i) \in Address
      BY CommittedLinked DEF IndexInv
    <2> QED BY <1>1, <1>3, <1>6, <2>1 DEF IndexInv, EntriesLinked, Committed, At
  <1>12. WorkShape'
    BY <1>1, <1>3, <1>7, <1>8, Nothing
    DEF Attach, Finish, Leave, Goto, IndexInv, TypeOK, WorkShape, Locking
  <1>13. DataIndexed'
    BY <1>3, <1>7 DEF IndexInv, TypeOK, DataIndexed
  <1>14. ScanShape' /\ ScanFaithful' /\ NeverCorrupt'
    BY <1>3 DEF IndexInv, ScanShape, SoundScan, ScanFaithful, FaithfulScan, At, Committed,
       NeverCorrupt
  <1> QED BY <1>9, <1>10, <1>11, <1>12, <1>13, <1>14 DEF IndexInv

(* A journal is written for an address that is new, within the quota. *)
LEMMA PrepareStep ==
  ASSUME IndexInv, NEW w \in Worker, Prepare(w)
  PROVE  IndexInv'
  <1> DEFINE a == call[w][1]
             r == call[w][2]
             new == [address |-> a, position |-> head.count,
                     entry |-> [resources |-> {r}, position |-> head.count]]
  <1>1. /\ a \in Address /\ r \in Resource /\ call[w] # None
        /\ head.journal = None /\ head.count \in Nat
    BY DEF Prepare, IndexInv, TypeOK, WorkShape
  <1>2. /\ entry[a] = None /\ head.count < MaxAddresses
        /\ head' = [head EXCEPT !.journal = new]
        /\ UNCHANGED <<page, entry, data, lock, call, scan, corrupt, faults>>
    BY DEF Prepare
  <1>3. new \in Journal
    BY <1>1 DEF Journal, Entry
  <1>4. head'.count = head.count /\ head'.pages = head.pages /\ head'.journal = new
        /\ new # None
    BY <1>2, <1>3, Nothing DEF IndexInv, TypeOK
  <1>5. TypeOK'
    BY <1>2, <1>3 DEF Prepare, Goto, IndexInv, TypeOK
  <1>6. PagesFilled'
    BY <1>1, <1>2, <1>4 DEF IndexInv, PagesFilled, HeadValid
  <1>7. JournalShape'
    BY <1>1, <1>2, <1>4 DEF IndexInv, JournalShape, EntriesLinked, At
  <1>8. EntriesLinked'
    BY <1>1, <1>2, <1>4 DEF IndexInv, EntriesLinked, Committed, At
  <1>9. WorkShape'
    BY <1>1, <1>2, <1>4, Nothing
    DEF Prepare, Goto, IndexInv, TypeOK, WorkShape, Locking, Indexed, Committed
  <1>10. DataIndexed'
    BY <1>2, <1>4 DEF IndexInv, DataIndexed, Indexed, Committed
  <1>11. ScanShape' /\ ScanFaithful'
    BY <1>2, <1>4 DEF IndexInv, ScanShape, SoundScan, ScanFaithful, FaithfulScan, At, Committed
  <1>12. QuotaKept' /\ NeverCorrupt'
    BY <1>1, <1>2, <1>4, Sizes DEF IndexInv, QuotaKept, NeverCorrupt
  <1> QED BY <1>5, <1>6, <1>7, <1>8, <1>9, <1>10, <1>11, <1>12 DEF IndexInv

-----------------------------------------------------------------------------
(* Every step keeps the invariant. *)
LEMMA NextIndexInv == IndexInv /\ [Next]_vars => IndexInv'
  <1> SUFFICES ASSUME IndexInv, [Next]_vars PROVE IndexInv'
    OBVIOUS
  <1>1. ASSUME NEW w \in Worker, Begin(w) \/ Writing(w) \/ Forget(w) \/ Interrupt(w)
        PROVE  IndexInv'
    BY <1>1, BeginStep, LinkStep, PutEntryStep, CommitStep, KnownStep, AttachStep, RefuseStep,
       PrepareStep, PutStep, ForgetStep, InterruptStep DEF Writing
  <1>2. ASSUME NEW s \in Reader, Reading(s) PROVE IndexInv'
    BY <1>2, OpenStep, TurnStep, PickStep, CloseStep DEF Reading
  <1>3. CASE UNCHANGED vars
    <2>1. TypeOK'
      BY <1>3 DEF vars, index, work, IndexInv, TypeOK
    <2>2. WorkShape'
      BY <1>3 DEF vars, index, work, IndexInv, WorkShape, Linked, Indexed, Committed
    <2> QED BY <1>3, <2>1, <2>2, IndexLeftAlone, ScansLeftAlone, DataLeftAlone
            DEF vars, index, IndexInv, NeverCorrupt
  <1> QED BY <1>1, <1>2, <1>3 DEF Next

(* The invariant holds at every moment, however many calls are interrupted.*)
THEOREM IndexInvariance == Spec => []IndexInv
  BY InitIndexInv, NextIndexInv, PTL DEF Spec

(* No caller is ever told that the index is invalid: what an interrupted   *)
(* append leaves behind is always something _recover can finish.           *)
THEOREM RecoverySound == Spec => []NeverCorrupt
  <1>1. IndexInv => NeverCorrupt
    BY DEF IndexInv
  <1> QED BY <1>1, IndexInvariance, PTL

(* No resource data is stored before its address and it are in the index.  *)
THEOREM IndexedFirst == Spec => []DataIndexed
  <1>1. IndexInv => DataIndexed
    BY DEF IndexInv
  <1> QED BY <1>1, IndexInvariance, PTL

(* Readers without the lock see committed positions, in order.             *)
THEOREM ReadersRight == Spec => []ScanFaithful
  <1>1. IndexInv => ScanFaithful
    BY DEF IndexInv
  <1> QED BY <1>1, IndexInvariance, PTL

(* Heads, pages and entries keep their types, faults or not: a position is *)
(* never negative and a page holds addresses only (address_index.py).      *)
THEOREM IndexTyped == Spec => []TypeOK
  <1>1. IndexInv => TypeOK
    BY DEF IndexInv
  <1> QED BY <1>1, IndexInvariance, PTL

(* A participant never has more addresses than the quota, the one that is  *)
(* being appended included.                                                *)
THEOREM QuotaHolds == Spec => []QuotaKept
  <1>1. IndexInv => QuotaKept
    BY DEF IndexInv
  <1> QED BY <1>1, IndexInvariance, PTL

-----------------------------------------------------------------------------
(* What is listed and held depends on committed positions only.            *)
LEMMA ListKept ==
  ASSUME IndexInv, UNCHANGED <<head, entry>>,
         \A i \in 0 .. head.count - 1 : At(i)' = At(i)
  PROVE  UNCHANGED <<Listing, Holdings>>
  <1>1. head.count \in Nat
    BY DEF IndexInv, TypeOK
  <1>2. Listing' = Listing
    <2>1. \A j \in 1 .. head.count : j - 1 \in 0 .. head.count - 1
      BY <1>1
    <2>2. \A j \in 1 .. head.count : At(j - 1)' = At(j - 1)
      BY <2>1
    <2> QED BY <2>2 DEF Listing
  <1> QED BY <1>2 DEF Holdings, Committed

(* Writes of an append before the last one are invisible in the list.      *)
LEMMA LinkUnseen ==
  ASSUME IndexInv, NEW w \in Worker, Link(w)
  PROVE  UNCHANGED <<Listing, Holdings>>
  <1>1. UNCHANGED <<head, entry>>
    BY DEF Link
  <1>2. CASE UNCHANGED page
    BY <1>1, <1>2, ListKept DEF At
  <1>3. CASE page' # page
    <2>1. /\ head.journal # None /\ ~Linked(head.count)
          /\ page' = [page EXCEPT ![Number(head.count)] = Append(@, head.journal.address)]
      BY <1>3 DEF Link
    <2> QED BY <1>1, <2>1, PageGrows, ListKept
  <1> QED BY <1>2, <1>3

(* So is the entry, which is not committed yet.                            *)
LEMMA EntryUnseen ==
  ASSUME IndexInv, NEW w \in Worker, PutEntry(w)
  PROVE  UNCHANGED <<Listing, Holdings>>
  <1> DEFINE a == head.journal.address
  <1>1. /\ head.journal # None /\ a \in Address
        /\ head.journal.entry.position = head.count /\ head.count \in Nat
    BY JournalRoom DEF PutEntry, IndexInv, WorkShape, Locking, Journal, JournalShape, TypeOK
  <1>2. entry' = [entry EXCEPT ![a] = head.journal.entry] /\ UNCHANGED <<head, page>>
    BY DEF PutEntry
  <1>3. entry'[a] = head.journal.entry /\ \A b \in Address : b # a => entry'[b] = entry[b]
    BY <1>1, <1>2 DEF IndexInv, TypeOK
  <1>4. ~Committed(entry'[a].position)
    BY <1>1, <1>3 DEF Committed
  <1>5. entry[a] # None => ~Committed(entry[a].position)
    <2> SUFFICES ASSUME entry[a] # None, Committed(entry[a].position) PROVE FALSE
      OBVIOUS
    <2>1. entry[a].position \in 0 .. head.count - 1
      BY <1>1 DEF IndexInv, TypeOK, Entry, Committed
    <2>2. At(entry[a].position) # a
      BY <1>1, <2>1 DEF IndexInv, JournalShape
    <2>3. entry[a] = head.journal.entry
      BY <1>1, <2>2 DEF IndexInv, EntriesLinked
    <2> QED BY <1>1, <2>3 DEF Committed
  <1>6. Holdings' = Holdings
    BY <1>2, <1>3, <1>4, <1>5 DEF Holdings, Committed
  <1> QED BY <1>2, <1>6 DEF Listing, At

(* Preparing an append changes neither.                                    *)
LEMMA PrepareUnseen ==
  ASSUME IndexInv, NEW w \in Worker, Prepare(w)
  PROVE  UNCHANGED <<Listing, Holdings>>
  <1>1. head'.count = head.count /\ UNCHANGED <<page, entry>>
    BY DEF Prepare, IndexInv, TypeOK
  <1> QED BY <1>1 DEF Listing, Holdings, At, Committed

(* Holdings changes at one address when it is the same at all others.      *)
LEMMA HoldingsUpdate ==
  ASSUME NEW a \in Address, NEW S,
         \A b \in Address : Holdings'[b] = IF b = a THEN S ELSE Holdings[b]
  PROVE  Holdings' = [Holdings EXCEPT ![a] = S]
  <1>1. Holdings' = [b \in Address |-> Holdings'[b]]
    BY DEF Holdings
  <1>2. [Holdings EXCEPT ![a] = S]
          = [b \in Address |-> IF b = a THEN S ELSE Holdings[b]]
    BY DEF Holdings
  <1> QED BY <1>1, <1>2

(* The commit lists the address of the journal with its first resource.    *)
LEMMA CommitAdds ==
  ASSUME IndexInv, NEW w \in Worker, Commit(w)
  PROVE  \E r \in Resource : Log!Add(head.journal.address, r)
  <1> DEFINE c == head.count
             a == head.journal.address
  <1>1. /\ head.journal # None /\ Linked(c) /\ a \in Address
        /\ entry[a] = head.journal.entry /\ entry[a].position = c /\ c \in Nat
    BY JournalRoom DEF Commit, IndexInv, WorkShape, Locking, Journal, JournalShape, TypeOK
  <1>2. PICK r \in Resource : entry[a].resources = {r}
    BY <1>1 DEF IndexInv, JournalShape
  <1>3. head'.count = c + 1 /\ UNCHANGED <<page, entry>>
    BY DEF Commit
  <1>4. At(c) = a
    <2>1. Number(c) \in PageNo /\ Offset(c) \in 0 .. PageSize - 1 /\ Number(c) \in Nat
      BY <1>1, JournalRoom, TailPage, Places
    <2> QED BY <1>1, <2>1 DEF IndexInv, PagesFilled, Fill, Linked
  <1>5. ~Log!Listed(a)
    <2>1. \A j \in 1 .. c : j - 1 \in 0 .. c - 1
      BY <1>1
    <2>2. \A j \in 1 .. c : At(j - 1) # a
      BY <1>1, <2>1 DEF IndexInv, JournalShape
    <2> QED BY <2>2 DEF Log!Listed, Listing
  <1>6. Listing' = Append(Listing, a)
    <2>1. Listing \in Seq(Address) /\ Len(Listing) = c
      <3>1. \A j \in 1 .. c : At(j - 1) \in Address
        <4>1. \A j \in 1 .. c : j - 1 \in 0 .. c - 1
          BY <1>1
        <4> QED BY <4>1, CommittedLinked DEF IndexInv
      <3>2. Listing \in [1 .. c -> Address]
        BY <3>1 DEF Listing
      <3>3. Listing \in Seq(Address) /\ DOMAIN Listing = 1 .. c
        BY <1>1, <3>2
      <3> QED BY <1>1, <3>3
    <2>2. Listing' = [j \in 1 .. c + 1 |-> At(j - 1)]
      BY <1>3 DEF Listing, At
    <2>3. Append(Listing, a) = [j \in 1 .. c + 1 |-> IF j = c + 1 THEN a ELSE Listing[j]]
      BY <1>1, <2>1
    <2>4. ASSUME NEW j \in 1 .. c + 1
          PROVE  At(j - 1) = IF j = c + 1 THEN a ELSE Listing[j]
      <3>1. CASE j = c + 1
        <4>1. j - 1 = c
          BY <1>1, <3>1
        <4> QED BY <1>4, <3>1, <4>1
      <3>2. CASE j # c + 1
        <4>1. j \in 1 .. c
          BY <1>1, <3>2
        <4> QED BY <3>2, <4>1 DEF Listing
      <3> QED BY <3>1, <3>2
    <2> QED BY <2>2, <2>3, <2>4
  <1>7. Holdings' = [Holdings EXCEPT ![a] = {r}]
    <2>1. ASSUME NEW b \in Address, b # a, entry[b] # None
          PROVE  Committed(entry[b].position) /\ entry[b].position < head'.count
      <3>1. Committed(entry[b].position) /\ entry[b].position \in Nat
        BY <2>1 DEF IndexInv, EntriesLinked, TypeOK, Entry
      <3> QED BY <1>1, <1>3, <3>1 DEF Committed
    <2>2. entry[a].position < head'.count /\ entry[a] # None
      BY <1>1, <1>3, JournalRoom, Nothing DEF Journal
    <2>3. ASSUME NEW b \in Address
          PROVE  Holdings'[b] = IF b = a THEN {r} ELSE Holdings[b]
      <3>1. Holdings'[b] = IF entry[b] # None /\ entry[b].position < head'.count
                           THEN entry[b].resources ELSE {}
        BY <1>3 DEF Holdings, Committed
      <3>2. CASE b = a
        BY <1>2, <2>2, <3>1, <3>2
      <3>3. CASE b # a
        BY <2>1, <3>1, <3>3 DEF Holdings, Committed
      <3> QED BY <3>2, <3>3
    <2> QED BY <1>1, <2>3, HoldingsUpdate
  <1> QED BY <1>5, <1>6, <1>7 DEF Log!Add

(* An attachment adds one resource to an address that is listed.           *)
LEMMA AttachAttaches ==
  ASSUME IndexInv, NEW w \in Worker, Attach(w)
  PROVE  \E a \in Address, r \in Resource : Log!Attach(a, r)
  <1> DEFINE a == call[w][1]
             r == call[w][2]
  <1>1. /\ call[w] \in Address \X Resource /\ a \in Address /\ r \in Resource
        /\ head.journal = None /\ head.count \in Nat
    BY DEF Attach, IndexInv, TypeOK, WorkShape
  <1>2. /\ entry[a] \in Entry /\ entry[a] # None
        /\ Committed(entry[a].position) /\ At(entry[a].position) = a
    BY <1>1, EntrySound DEF Attach, IndexInv, TypeOK, EntryValid
  <1>3. entry' = [entry EXCEPT ![a].resources = @ \cup {r}] /\ UNCHANGED <<head, page>>
    BY DEF Attach
  <1>4. Log!Listed(a)
    <2>1. entry[a].position + 1 \in 1 .. head.count
          /\ (entry[a].position + 1) - 1 = entry[a].position
      BY <1>1, <1>2 DEF Entry, Committed
    <2>2. Listing[entry[a].position + 1] = a
      BY <1>2, <2>1 DEF Listing
    <2>3. DOMAIN Listing = 1 .. head.count
      BY DEF Listing
    <2> QED BY <2>1, <2>2, <2>3 DEF Log!Listed
  <1>5. Holdings' = [Holdings EXCEPT ![a] = @ \cup {r}]
    <2>1. /\ entry'[a].resources = entry[a].resources \cup {r}
          /\ entry'[a].position = entry[a].position /\ entry'[a] # None
          /\ \A b \in Address : b # a => entry'[b] = entry[b]
      <3>1. [entry[a] EXCEPT !.resources = @ \cup {r}] \in Entry
        BY <1>1, <1>2 DEF Entry
      <3> QED BY <1>1, <1>2, <1>3, <3>1, Nothing DEF Entry, IndexInv, TypeOK
    <2>2. ASSUME NEW b \in Address
          PROVE  Holdings'[b] = IF b = a THEN Holdings[b] \cup {r} ELSE Holdings[b]
      <3>1. Holdings'[b] = IF entry'[b] # None /\ entry'[b].position < head.count
                           THEN entry'[b].resources ELSE {}
        BY <1>3 DEF Holdings, Committed
      <3>2. Holdings[b] = IF entry[b] # None /\ entry[b].position < head.count
                          THEN entry[b].resources ELSE {}
        BY DEF Holdings, Committed
      <3>3. CASE b = a
        <4>1. Holdings[a] = entry[a].resources
          BY <1>2, <3>2, <3>3 DEF Committed
        <4>2. Holdings'[a] = entry'[a].resources
          BY <1>2, <2>1, <3>1, <3>3 DEF Committed
        <4> QED BY <2>1, <3>3, <4>1, <4>2
      <3>4. CASE b # a
        <4>1. entry'[b] = entry[b]
          BY <2>1, <3>4
        <4> QED BY <3>1, <3>2, <3>4, <4>1
      <3> QED BY <3>3, <3>4
    <2> QED BY <1>1, <2>2, HoldingsUpdate
  <1>6. Listing' = Listing
    BY <1>3 DEF Listing, At
  <1> QED BY <1>1, <1>4, <1>5, <1>6 DEF Log!Attach

(* The pages, entries and journal implement the abstract list: the write   *)
(* that commits an append is Add, the one of an attachment is Attach, and  *)
(* everything else, interruptions included, is invisible.                  *)
THEOREM ImplementsList == Spec => ImplementsLog
  <1>1. Init => Log!Init
    <2> SUFFICES ASSUME Init PROVE Log!Init
      OBVIOUS
    <2>1. Listing = <<>>
      BY DEF Init, Listing
    <2>2. Holdings = [a \in Address |-> {}]
      BY DEF Init, Holdings
    <2> QED BY <2>1, <2>2 DEF Log!Init
  <1>2. ASSUME IndexInv, [Next]_vars PROVE [Log!Next]_(Log!vars)
    <2>1. ASSUME UNCHANGED index PROVE UNCHANGED <<Listing, Holdings>>
      BY <2>1 DEF index, Listing, Holdings, At, Committed
    <2>2. ASSUME NEW w \in Worker, Commit(w) PROVE Log!Next
      <3>1. head.journal.address \in Address
        BY <1>2, <2>2, JournalRoom DEF Commit, IndexInv, WorkShape, Locking, Journal
      <3> QED BY <1>2, <2>2, <3>1, CommitAdds DEF Log!Next
    <2>3. ASSUME NEW w \in Worker, Attach(w) PROVE Log!Next
      BY <1>2, <2>3, AttachAttaches DEF Log!Next
    <2>4. ASSUME NEW w \in Worker, Link(w) \/ PutEntry(w) \/ Prepare(w)
          PROVE  UNCHANGED <<Listing, Holdings>>
      BY <1>2, <2>4, LinkUnseen, EntryUnseen, PrepareUnseen
    <2>5. ASSUME NEW w \in Worker,
                 \/ Begin(w) \/ Known(w) \/ Refuse(w) \/ Put(w)
                 \/ Forget(w) \/ Interrupt(w)
          PROVE  UNCHANGED index
      BY <2>5 DEF Begin, Known, Refuse, Put, Forget, Interrupt
    <2>6. ASSUME NEW s \in Reader, Reading(s) PROVE UNCHANGED index
      BY <2>6 DEF Reading, Open, Turn, Pick, Close
    <2>7. CASE UNCHANGED vars
      BY <2>1, <2>7 DEF vars, Log!vars
    <2> QED BY <1>2, <2>1, <2>2, <2>3, <2>4, <2>5, <2>6, <2>7
            DEF Next, Writing, Log!vars
  <1> QED BY <1>1, <1>2, IndexInvariance, PTL DEF Spec, ImplementsLog, Log!Spec
=============================================================================
