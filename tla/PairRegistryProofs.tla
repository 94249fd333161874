--------------------------- MODULE PairRegistryProofs ---------------------------
(***************************************************************************)
(* Proofs about PairRegistry: for any number of threads, the registry      *)
(* lists one record of an id (OneRecordPerId); and as long as no two       *)
(* requests overlapped, a pair whose registration was answered stays       *)
(* (GrantedPairsStay) and a write changes one record at most               *)
(* (OneRecordPerWrite).                                                    *)
(***************************************************************************)
EXTENDS PairRegistry, FiniteSetTheorems, WellFoundedInduction, TLAPS

USE RegistryAssumption

-------------------------------------------------------------------------------
(***************************************************************************)
(* The inductive invariant.                                                *)
(***************************************************************************)
OnePerId(records) == \A r, s \in records : r.id = s.id => r = s

\* What a file holds, or a thread is about to write into one, whole or in part:
\* whichever of them comes to bear the name pairs.json.
OnePerIdEverywhere ==
    /\ \A n \in Inode : OnePerId(inode[n].records)
    /\ \A t \in Thread : OnePerId(task[t].records)

\* The registry is never the file that the next save will truncate.
NamesApart == tmp # None => tmp # json

Busy(t) == pc[t] # "idle"

Alone == \A t, u \in Thread : Busy(t) /\ Busy(u) => t = u

\* A record that may take the place of r.
Succeeds(record, r) ==
    r.id = record.id =>
        /\ r.files = record.files
        /\ r.overlap = "structural" => record.overlap = "structural"

Saving == {"open", "write", "replace"}

\* The one request in progress still knows the registry that it has read, and
\* its temporary file is its own.
KnowsRegistry(t) ==
    /\ pc[t] \in {"list"} \cup Saving => \A r \in list : Succeeds(task[t].record, r)
    /\ pc[t] \in Saving => task[t].records = withRecord(list, task[t].record)
    /\ pc[t] \in {"write", "replace"} => task[t].fd = tmp
    /\ pc[t] = "write" => inode[tmp] = Torn
    /\ pc[t] = "replace" => inode[tmp] = Document(task[t].records)

OneByOne ==
    ~ overlapped => Alone /\ \A t \in Thread : KnowsRegistry(t)

RegistryInv ==
    TypeOK /\ OnePerIdEverywhere /\ NamesApart /\ OneByOne /\ GrantedPairsStay

-------------------------------------------------------------------------------
(***************************************************************************)
(* The smallest and the largest of a set of numbers, and what the code     *)
(* gets with them: an inode that nobody has, and an id that nobody has.    *)
(***************************************************************************)
LEMMA SmallestNat ==
  ASSUME NEW S \in SUBSET Nat, S # {}
  PROVE  \E x \in S : \A y \in S : x <= y
<1> DEFINE Less == {ss \in Nat \X Nat : ss[1] < ss[2]}
<1>1. IsWellFoundedOn(Less, Nat)
  BY NatLessThanWellFounded DEF OpToRel
<1>2. PICK x \in S : \A y \in S : <<y, x>> \notin Less
  <2> HIDE DEF Less
  <2>1. QED
    BY <1>1, WFMin
<1>3. ASSUME NEW y \in S PROVE x <= y
  <2>1. <<y, x>> \in Nat \X Nat /\ <<y, x>>[1] = y /\ <<y, x>>[2] = x
    OBVIOUS
  <2>2. ~ (y < x)
    BY <1>2, <2>1
  <2>3. QED
    BY <2>2
<1>4. QED
  BY <1>3

LEMMA MinIsMember ==
  ASSUME NEW S \in SUBSET Nat, S # {}
  PROVE  Min(S) \in S
  BY SmallestNat DEF Min

LEMMA MaxIsLargest ==
  ASSUME NEW n \in Nat, NEW S \in SUBSET (0 .. n), S # {}
  PROVE  Max(S) \in S /\ \A y \in S : Max(S) >= y
<1> DEFINE Gaps == {n - y : y \in S}
<1>1. Gaps \in SUBSET Nat /\ Gaps # {}
  <2>1. \A y \in S : n - y \in Nat
    OBVIOUS
  <2>2. PICK y \in S : n - y \in Gaps
    OBVIOUS
  <2>3. QED
    BY <2>1, <2>2
<1>2. \E d \in Gaps : \A e \in Gaps : d <= e
  <2> HIDE DEF Gaps
  <2>1. QED
    BY <1>1, SmallestNat
<1>3. PICK x \in S : \A e \in Gaps : n - x <= e
  BY <1>2
<1>4. \A y \in S : x >= y
  BY <1>3
<1>5. QED
  BY <1>4 DEF Max

LEMMA ListIsRecords == TypeOK => list \subseteq Record
  BY DEF TypeOK, list

\* PairRegistry.next_pair_id is no id of the registry.
LEMMA NextIdIsFree ==
  ASSUME TypeOK
  PROVE  \A r \in list : r.id # next_pair_id
<1> DEFINE Ids == {r.id : r \in list} \cup {0}
<1>1. Ids \in SUBSET (0 .. MaxId) /\ Ids # {}
  BY ListIsRecords DEF Record, Id
<1>2. Max(Ids) \in 0 .. MaxId /\ \A y \in Ids : Max(Ids) >= y
  BY <1>1, MaxIsLargest
<1>3. next_pair_id = Max(Ids) + 1
  BY DEF next_pair_id
<1>4. \A r \in list : r.id \in Ids
  OBVIOUS
<1> HIDE DEF Ids
<1>5. ASSUME NEW r \in list PROVE r.id # next_pair_id
  BY <1>1, <1>2, <1>3, <1>4
<1>6. QED
  BY <1>5

LEMMA InodesCounted ==
  /\ Cardinality(Thread) \in Nat
  /\ Inode \in SUBSET (Nat \ {None})
  /\ IsFiniteSet(Inode) /\ Cardinality(Inode) = Cardinality(Thread) + 2
<1>1. Cardinality(Thread) \in Nat
  BY FS_CardinalityType
<1> DEFINE n == Cardinality(Thread) + 2
<1>2. IsFiniteSet(1 .. n) /\ Cardinality(1 .. n) = n
  <2>1. n \in Int /\ n >= 1
    BY <1>1
  <2> HIDE DEF n
  <2>2. QED
    BY <2>1, FS_Interval
<1>3. QED
  BY <1>1, <1>2 DEF Inode, None

\* A new temporary file is an inode that no name and no thread has.
LEMMA UnusedInode ==
  ASSUME TypeOK, tmp = None
  PROVE  Min(Unused) \in Unused /\ Unused \subseteq Inode
<1> DEFINE Open_ == {task[u].fd : u \in Thread}
           fd == [u \in Thread |-> task[u].fd]
<1>1. IsFiniteSet(Open_) /\ Cardinality(Open_) <= Cardinality(Thread)
  <2>1. fd \in Surjection(Thread, Open_)
    BY DEF Surjection
  <2>2. QED
    BY <2>1, FS_Surjection
<1>2. /\ IsFiniteSet(Open_ \cup {json})
      /\ Cardinality(Open_ \cup {json}) <= Cardinality(Thread) + 1
  <2> HIDE DEF Open_
  <2>1. Cardinality(Open_) \in Nat
    BY <1>1, FS_CardinalityType
  <2>2. /\ IsFiniteSet(Open_ \cup {json})
        /\ Cardinality(Open_ \cup {json})
             = IF json \in Open_ THEN Cardinality(Open_) ELSE Cardinality(Open_) + 1
    BY <1>1, FS_AddElement
  <2>3. QED
    BY <1>1, <2>1, <2>2, InodesCounted
<1>3. Unused # {}
  <2>1. SUFFICES ASSUME Unused = {} PROVE FALSE
    OBVIOUS
  <2>2. Inode \in SUBSET (Open_ \cup {json})
    BY <2>1, InodesCounted DEF Unused
  <2> HIDE DEF Open_
  <2>3. Cardinality(Inode) <= Cardinality(Open_ \cup {json})
    BY <1>2, <2>2, FS_Subset
  <2>4. QED
    BY <1>2, <2>3, InodesCounted, FS_CardinalityType
<1>4. Unused \in SUBSET Nat /\ Unused \subseteq Inode
  BY InodesCounted DEF Unused
<1>5. QED
  BY <1>3, <1>4, MinIsMember

-------------------------------------------------------------------------------
(***************************************************************************)
(* Records and tasks.                                                      *)
(***************************************************************************)
LEMMA IdleIsTask == Idle \in Task /\ Idle.fd = None /\ Idle.records = {}
  BY DEF Idle, Task

\* A request that begins.
LEMMA BegunTask ==
  ASSUME NEW kind \in {"register", "auto", "validate", "overlap"}, NEW record \in Record
  PROVE  /\ [Idle EXCEPT !.kind = kind, !.record = record] \in Task \ {Idle}
         /\ [Idle EXCEPT !.kind = kind, !.record = record].record = record
         /\ [Idle EXCEPT !.kind = kind, !.record = record].fd = None
         /\ [Idle EXCEPT !.kind = kind, !.record = record].records = {}
  BY DEF Idle, Task

\* save() keeps one record per id, the one it saves among them.
LEMMA WithRecordProperties ==
  ASSUME NEW records \in SUBSET Record, NEW record \in Record
  PROVE  /\ withRecord(records, record) \in SUBSET Record
         /\ record \in withRecord(records, record)
         /\ OnePerId(records) => OnePerId(withRecord(records, record))
         /\ \A r \in records : r.id # record.id => r \in withRecord(records, record)
         /\ \A r \in withRecord(records, record) : r.id = record.id => r = record
         /\ withRecord(records, record) \ records \subseteq {record}
  BY DEF withRecord, OnePerId

\* The record that a request without overlap has read still stands.
LEMMA SucceedsItself ==
  ASSUME RegistryInv, NEW record \in list, NEW new \in Record, new.id = record.id,
         new.files = record.files,
         record.overlap = "structural" => new.overlap = "structural"
  PROVE  \A r \in list : Succeeds(new, r)
<1>1. OnePerId(list)
  BY DEF RegistryInv, TypeOK, OnePerIdEverywhere, list, OnePerId
<1>2. QED
  BY <1>1 DEF OnePerId, Succeeds

-------------------------------------------------------------------------------
(***************************************************************************)
(* Every action keeps the invariant.                                       *)
(***************************************************************************)

LEMMA BeginStep ==
  ASSUME RegistryInv, NEW t \in Thread, NEW label \in {"number", "list"},
         NEW kind \in {"register", "auto", "validate", "overlap"}, NEW record \in Record,
         Begin(t, kind, record), Goto(t, label),
         label = "list" => \A r \in list : Succeeds(record, r)
  PROVE  RegistryInv'
<1> DEFINE new == [Idle EXCEPT !.kind = kind, !.record = record]
<1>1. /\ new \in Task \ {Idle} /\ new.record = record
      /\ new.fd = None /\ new.records = {}
  BY BegunTask
<1> HIDE DEF new
<1>2. /\ task' \in [Thread -> Task] /\ task'[t] = new
      /\ pc' \in [Thread -> Label] /\ pc'[t] = label
      /\ \A u \in Thread \ {t} : task'[u] = task[u] /\ pc'[u] = pc[u]
  BY <1>1 DEF RegistryInv, TypeOK, Begin, Goto, Label, new
<1>3. UNCHANGED <<inode, json, tmp, granted>> /\ list' = list
  BY DEF Begin, list
<1>4. requests' \in 0 .. MaxRequests /\ overlapped' \in BOOLEAN
  BY DEF RegistryInv, TypeOK, Begin
<1>5. TypeOK'
  BY <1>1, <1>2, <1>3, <1>4 DEF RegistryInv, TypeOK
<1>6. OnePerIdEverywhere'
  BY <1>1, <1>2, <1>3 DEF RegistryInv, OnePerIdEverywhere, OnePerId
<1>7. NamesApart'
  BY <1>3 DEF RegistryInv, NamesApart
<1>8. ASSUME ~ overlapped' PROVE KnowsRegistry(t)' /\ \A u \in Thread \ {t} : pc'[u] = "idle"
  <2>1. \A u \in Thread \ {t} : pc'[u] = "idle"
    BY <1>2, <1>8 DEF Begin
  <2>2. KnowsRegistry(t)'
    BY <1>1, <1>2, <1>3 DEF KnowsRegistry, Saving
  <2>3. QED
    BY <2>1, <2>2
<1>9. OneByOne'
  BY <1>8 DEF OneByOne, Alone, Busy, KnowsRegistry, Saving
<1>10. GrantedPairsStay'
  BY <1>3 DEF RegistryInv, GrantedPairsStay, Begin
<1>11. QED
  BY <1>5, <1>6, <1>7, <1>9, <1>10 DEF RegistryInv

\* The step of one thread, seen from the others: they are idle if no two
\* requests overlapped.
LEMMA OthersIdle ==
  ASSUME RegistryInv, ~ overlapped, NEW t \in Thread, Busy(t)
  PROVE  KnowsRegistry(t) /\ \A u \in Thread \ {t} : pc[u] = "idle"
  BY DEF RegistryInv, OneByOne, Alone, Busy

LEMMA FinishStep ==
  ASSUME RegistryInv, NEW t \in Thread, Finish(t),
         UNCHANGED <<inode, json, tmp, granted, requests, overlapped>>
  PROVE  RegistryInv'
<1>1. /\ task' \in [Thread -> Task] /\ task'[t] = Idle
      /\ pc' \in [Thread -> Label] /\ pc'[t] = "idle"
      /\ \A u \in Thread \ {t} : task'[u] = task[u] /\ pc'[u] = pc[u]
  BY IdleIsTask DEF RegistryInv, TypeOK, Finish, Goto, Label
<1>2. list' = list
  BY DEF list
<1>3. TypeOK'
  BY <1>1, IdleIsTask DEF RegistryInv, TypeOK
<1>4. OnePerIdEverywhere'
  BY <1>1, IdleIsTask DEF RegistryInv, OnePerIdEverywhere, OnePerId
<1>5. OneByOne'
  BY <1>1, <1>2 DEF RegistryInv, OneByOne, Alone, Busy, KnowsRegistry, Saving
<1>6. NamesApart' /\ GrantedPairsStay'
  BY <1>2 DEF RegistryInv, NamesApart, GrantedPairsStay
<1>7. QED
  BY <1>3, <1>4, <1>5, <1>6 DEF RegistryInv

LEMMA NumberStep ==
  ASSUME RegistryInv, NEW t \in Thread, Number(t)
  PROVE  RegistryInv'
<1>1. CASE next_pair_id \notin Id
  BY <1>1, FinishStep DEF Number
<1>2. CASE next_pair_id \in Id
  <2> DEFINE new == [task[t] EXCEPT !.record.id = next_pair_id]
  <2>1. task[t] \in Task /\ task[t].record \in Record /\ task[t] # Idle /\ task[t].fd = None
    BY DEF RegistryInv, TypeOK, Number
  <2>2. /\ new \in Task /\ new.record \in Record /\ new.record.id = next_pair_id
        /\ new.fd = None /\ new.records = task[t].records /\ new # Idle
    <3> DEFINE numbered == [task[t].record EXCEPT !.id = next_pair_id]
    <3>1. numbered \in Record /\ numbered.id = next_pair_id
      BY <1>2, <2>1 DEF Record
    <3>2. new = [task[t] EXCEPT !.record = numbered]
      OBVIOUS
    <3> HIDE DEF numbered, new
    <3>3. /\ new \in Task /\ new.record = numbered
          /\ new.fd = None /\ new.records = task[t].records
      BY <2>1, <3>1, <3>2 DEF Task
    <3>4. new # Idle
      BY <3>1, <3>3 DEF Idle, NoRecord, Record, Id
    <3>5. QED
      BY <3>1, <3>3, <3>4
  <2> HIDE DEF new
  <2>3. /\ task' \in [Thread -> Task] /\ task'[t] = new
        /\ pc' \in [Thread -> Label] /\ pc'[t] = "list"
        /\ \A u \in Thread \ {t} : task'[u] = task[u] /\ pc'[u] = pc[u]
    BY <1>2, <2>2 DEF RegistryInv, TypeOK, Number, Goto, Label, new
  <2>4. UNCHANGED <<inode, json, tmp, granted, requests, overlapped>> /\ list' = list
    BY DEF Number, list
  <2>5. TypeOK'
    BY <2>2, <2>3, <2>4 DEF RegistryInv, TypeOK
  <2>6. OnePerIdEverywhere'
    BY <2>2, <2>3, <2>4 DEF RegistryInv, OnePerIdEverywhere, OnePerId
  <2>7. \A r \in list : Succeeds(new.record, r)
    BY <2>2, NextIdIsFree DEF RegistryInv, Succeeds
  <2>8. OneByOne'
    <3> SUFFICES ASSUME ~ overlapped PROVE Alone' /\ \A u \in Thread : KnowsRegistry(u)'
      BY <2>4 DEF OneByOne
    <3>1. \A u \in Thread \ {t} : pc[u] = "idle"
      BY OthersIdle DEF Number, Busy
    <3>2. QED
      BY <2>3, <2>4, <2>7, <3>1 DEF Alone, Busy, KnowsRegistry, Saving
  <2>9. NamesApart' /\ GrantedPairsStay'
    BY <2>4 DEF RegistryInv, NamesApart, GrantedPairsStay
  <2>10. QED
    BY <2>5, <2>6, <2>8, <2>9 DEF RegistryInv
<1>3. QED
  BY <1>1, <1>2

LEMMA ListStep ==
  ASSUME RegistryInv, NEW t \in Thread, ListForSave(t)
  PROVE  RegistryInv'
<1> DEFINE records == withRecord(list, task[t].record)
           new == [task[t] EXCEPT !.records = records]
<1>1. task[t] \in Task /\ task[t].record \in Record /\ task[t] # Idle /\ task[t].fd = None
  BY DEF RegistryInv, TypeOK, ListForSave
<1>2. records \in SUBSET Record /\ OnePerId(records) /\ records # {}
  <2>1. list \in SUBSET Record /\ OnePerId(list)
    BY ListIsRecords DEF RegistryInv, OnePerIdEverywhere, TypeOK, list, OnePerId
  <2>2. QED
    BY <1>1, <2>1, WithRecordProperties
<1> HIDE DEF records
<1>3. /\ new \in Task /\ new.record = task[t].record /\ new.records = records
      /\ new.fd = None /\ new # Idle
  BY <1>1, <1>2 DEF Task, Idle
<1> HIDE DEF new
<1>4. /\ task' \in [Thread -> Task] /\ task'[t] = new
      /\ pc' \in [Thread -> Label] /\ pc'[t] = "open"
      /\ \A u \in Thread \ {t} : task'[u] = task[u] /\ pc'[u] = pc[u]
  BY <1>3 DEF RegistryInv, TypeOK, ListForSave, Goto, Label, new, records
<1>5. UNCHANGED <<inode, json, tmp, granted, requests, overlapped>> /\ list' = list
  BY DEF ListForSave, list
<1>6. TypeOK'
  BY <1>1, <1>3, <1>4, <1>5 DEF RegistryInv, TypeOK
<1>7. OnePerIdEverywhere'
  BY <1>2, <1>3, <1>4, <1>5 DEF RegistryInv, OnePerIdEverywhere
<1>8. OneByOne'
  <2> SUFFICES ASSUME ~ overlapped PROVE Alone' /\ \A u \in Thread : KnowsRegistry(u)'
    BY <1>5 DEF OneByOne
  <2>1. KnowsRegistry(t) /\ pc[t] = "list" /\ \A u \in Thread \ {t} : pc[u] = "idle"
    BY OthersIdle DEF ListForSave, Busy
  <2>2. KnowsRegistry(t)'
    BY <1>3, <1>4, <1>5, <2>1 DEF KnowsRegistry, Saving, records, withRecord
  <2>3. QED
    BY <1>4, <2>1, <2>2 DEF Alone, Busy, KnowsRegistry, Saving
<1>9. NamesApart' /\ GrantedPairsStay'
  BY <1>5 DEF RegistryInv, NamesApart, GrantedPairsStay
<1>10. QED
  BY <1>6, <1>7, <1>8, <1>9 DEF RegistryInv

LEMMA OpenStep ==
  ASSUME RegistryInv, NEW t \in Thread, Open(t)
  PROVE  RegistryInv'
<1>1. PICK n \in IF tmp # None THEN {tmp} ELSE {Min(Unused)} :
        /\ tmp' = n
        /\ inode' = [inode EXCEPT ![n] = Torn]
        /\ task' = [task EXCEPT ![t].fd = n]
  BY DEF Open
<1>2. n \in Inode /\ n # None /\ n # json
  <2>1. CASE tmp # None
    BY <1>1, <2>1, InodesCounted DEF RegistryInv, TypeOK, NamesApart
  <2>2. CASE tmp = None
    <3>1. n \in Unused /\ n \in Inode
      BY <1>1, <2>2, UnusedInode DEF RegistryInv
    <3>2. QED
      BY <3>1, InodesCounted DEF Unused
  <2>3. QED
    BY <2>1, <2>2
<1>3. Torn \in [whole : BOOLEAN, records : SUBSET Record] /\ Torn.records = {}
  BY DEF Torn
<1>4. /\ inode' \in [Inode -> [whole : BOOLEAN, records : SUBSET Record]]
      /\ inode'[n] = Torn
      /\ \A m \in Inode \ {n} : inode'[m] = inode[m]
  BY <1>1, <1>2, <1>3 DEF RegistryInv, TypeOK
<1> DEFINE new == [task[t] EXCEPT !.fd = n]
<1>5. task[t] \in Task /\ task[t].record \in Record /\ task[t] # Idle
  BY DEF RegistryInv, TypeOK, Open
<1>6. /\ new \in Task /\ new.record = task[t].record /\ new.records = task[t].records
      /\ new.fd = n /\ new # Idle
  BY <1>2, <1>5 DEF Task, Idle
<1> HIDE DEF new
<1>7. /\ task' \in [Thread -> Task] /\ task'[t] = new
      /\ pc' \in [Thread -> Label] /\ pc'[t] = "write"
      /\ \A u \in Thread \ {t} : task'[u] = task[u] /\ pc'[u] = pc[u]
  BY <1>1, <1>6 DEF RegistryInv, TypeOK, Open, Goto, Label, new
<1>8. UNCHANGED <<json, granted, requests, overlapped>> /\ list' = list
  BY <1>2, <1>4 DEF Open, list, RegistryInv, TypeOK
<1>9. TypeOK'
  BY <1>1, <1>2, <1>4, <1>5, <1>6, <1>7, <1>8 DEF RegistryInv, TypeOK
<1>10. OnePerIdEverywhere'
  BY <1>3, <1>4, <1>6, <1>7 DEF RegistryInv, OnePerIdEverywhere, OnePerId
<1>11. OneByOne'
  <2> SUFFICES ASSUME ~ overlapped PROVE Alone' /\ \A u \in Thread : KnowsRegistry(u)'
    BY <1>8 DEF OneByOne
  <2>1. KnowsRegistry(t) /\ pc[t] = "open" /\ \A u \in Thread \ {t} : pc[u] = "idle"
    BY OthersIdle DEF Open, Busy
  <2>2. KnowsRegistry(t)'
    BY <1>1, <1>4, <1>6, <1>7, <1>8, <2>1 DEF KnowsRegistry, Saving, withRecord
  <2>3. QED
    BY <1>7, <2>1, <2>2 DEF Alone, Busy, KnowsRegistry, Saving
<1>12. NamesApart' /\ GrantedPairsStay'
  BY <1>1, <1>2, <1>8 DEF RegistryInv, NamesApart, GrantedPairsStay
<1>13. QED
  BY <1>9, <1>10, <1>11, <1>12 DEF RegistryInv

LEMMA DocumentType ==
  ASSUME NEW records \in SUBSET Record
  PROVE  /\ Document(records) \in [whole : BOOLEAN, records : SUBSET Record]
         /\ Document(records).whole /\ Document(records).records = records
         /\ Torn \in [whole : BOOLEAN, records : SUBSET Record]
         /\ Torn.records = {}
  BY DEF Document, Torn

\* As long as no two requests overlapped, the file that is written is not the
\* registry, and it was truncated.
LEMMA OwnTemporaryFile ==
  ASSUME RegistryInv, NEW t \in Thread, pc[t] = "write", ~ overlapped
  PROVE  /\ KnowsRegistry(t)
         /\ task[t].fd = tmp /\ tmp # json /\ inode[tmp] = Torn
<1>1. KnowsRegistry(t)
  BY OthersIdle DEF Busy
<1>2. task[t].fd = tmp /\ inode[tmp] = Torn
  BY <1>1 DEF KnowsRegistry
<1>3. tmp # json
  BY <1>2 DEF RegistryInv, TypeOK, NamesApart
<1>4. QED
  BY <1>1, <1>2, <1>3

LEMMA WriteStep ==
  ASSUME RegistryInv, NEW t \in Thread, Write(t)
  PROVE  RegistryInv'
<1> DEFINE n == task[t].fd
           records == task[t].records
<1>1. /\ task[t] \in Task /\ pc[t] = "write" /\ n \in Inode
      /\ records \in SUBSET Record /\ OnePerId(records)
  BY DEF RegistryInv, TypeOK, Write, Task, OnePerIdEverywhere
<1>2. PICK content \in {Document(records)} \cup (IF inode[n] = Torn THEN {} ELSE {Torn}) :
        inode' = [inode EXCEPT ![n] = content]
  BY DEF Write
<1>3. /\ content \in [whole : BOOLEAN, records : SUBSET Record]
      /\ content.whole \/ content = Torn
      /\ OnePerId(content.records)
  BY <1>1, <1>2, DocumentType DEF OnePerId
<1>4. /\ inode' \in [Inode -> [whole : BOOLEAN, records : SUBSET Record]]
      /\ inode'[n] = content
      /\ \A m \in Inode \ {n} : inode'[m] = inode[m]
  BY <1>1, <1>2, <1>3 DEF RegistryInv, TypeOK
<1>5. /\ pc' \in [Thread -> Label] /\ pc'[t] = "replace"
      /\ \A u \in Thread \ {t} : pc'[u] = pc[u]
  BY DEF RegistryInv, TypeOK, Write, Goto, Label
<1>6. UNCHANGED <<json, tmp, task, granted, requests, overlapped>>
  BY DEF Write
<1>7. TypeOK'
  BY <1>1, <1>3, <1>4, <1>5, <1>6 DEF RegistryInv, TypeOK
<1>8. OnePerIdEverywhere'
  BY <1>3, <1>4, <1>6 DEF RegistryInv, OnePerIdEverywhere
<1>9. ASSUME ~ overlapped PROVE list' = list
  <2>1. n # json
    BY <1>1, <1>9, OwnTemporaryFile
  <2>2. QED
    BY <1>4, <1>6, <2>1 DEF list, RegistryInv, TypeOK
<1>10. OneByOne'
  <2> SUFFICES ASSUME ~ overlapped PROVE Alone' /\ \A u \in Thread : KnowsRegistry(u)'
    BY <1>6 DEF OneByOne
  <2>1. \A u \in Thread \ {t} : pc[u] = "idle"
    BY <1>1, OthersIdle DEF Busy
  <2>2. KnowsRegistry(t) /\ n = tmp /\ inode[tmp] = Torn
    BY <1>1, OwnTemporaryFile
  <2>3. content = Document(records)
    BY <1>2, <2>2
  <2>4. KnowsRegistry(t)'
    BY <1>1, <1>4, <1>5, <1>6, <1>9, <2>2, <2>3 DEF KnowsRegistry, Saving, withRecord
  <2>5. QED
    BY <1>5, <2>1, <2>4 DEF Alone, Busy, KnowsRegistry, Saving
<1>11. NamesApart' /\ GrantedPairsStay'
  BY <1>6, <1>9 DEF RegistryInv, NamesApart, GrantedPairsStay
<1>12. QED
  BY <1>7, <1>8, <1>10, <1>11 DEF RegistryInv

\* What the rename makes of the registry, when no two requests overlapped.
LEMMA RenamedRegistry ==
  ASSUME RegistryInv, NEW t \in Thread, pc[t] = "replace", ~ overlapped,
         tmp # None, json' = tmp, UNCHANGED inode
  PROVE  /\ list' = withRecord(list, task[t].record)
         /\ task[t].record \in Record
         /\ \A r \in list : Succeeds(task[t].record, r)
<1>1. KnowsRegistry(t)
  BY OthersIdle DEF Busy
<1>2. /\ inode[tmp] = Document(task[t].records)
      /\ task[t].records = withRecord(list, task[t].record)
      /\ \A r \in list : Succeeds(task[t].record, r)
  BY <1>1 DEF KnowsRegistry, Saving
<1>3. list' = inode[tmp].records
  BY DEF list
<1>4. QED
  BY <1>2, <1>3 DEF Document, RegistryInv, TypeOK

\* A record stays under its id with its products, whatever record is saved
\* that succeeds it.
LEMMA SavedBeside ==
  ASSUME NEW records \in SUBSET Record, NEW record \in Record,
         NEW r \in records, Succeeds(record, r)
  PROVE  \E s \in withRecord(records, record) :
            /\ s.id = r.id /\ s.files = r.files
            /\ r.overlap = "structural" => s.overlap = "structural"
<1>1. CASE r.id = record.id
  BY <1>1, WithRecordProperties DEF Succeeds
<1>2. CASE r.id # record.id
  BY <1>2 DEF withRecord
<1>3. QED
  BY <1>1, <1>2

LEMMA ReplaceStep ==
  ASSUME RegistryInv, NEW t \in Thread, Replace(t)
  PROVE  RegistryInv'
<1>1. CASE tmp = None
  BY <1>1, FinishStep DEF Replace
<1>2. CASE tmp # None
  <2>1. /\ pc[t] = "replace" /\ task[t] \in Task /\ task[t].record \in Record
        /\ json' = tmp /\ tmp' = None
        /\ UNCHANGED <<inode, requests, overlapped>>
    BY <1>2 DEF RegistryInv, TypeOK, Replace
  \* the task and the place of t, which goes on if auto-register saves again
  <2>2. \E new \in Task :
          /\ task' = [task EXCEPT ![t] = new] /\ new.fd = None
          /\ new.records \in {{}, task[t].records}
          /\ \/ new = Idle /\ pc' = [pc EXCEPT ![t] = "idle"]
             \/ /\ new # Idle /\ pc' = [pc EXCEPT ![t] = "list"]
                /\ new.record \in Record /\ new.record.id = task[t].record.id
                /\ new.record.files = task[t].record.files
                /\ new.record.overlap = task[t].record.overlap
    <3>1. CASE task[t].kind = "auto"
      <4>1. PICK outcome \in BOOLEAN :
              task' = [task EXCEPT ![t].kind = "validate", ![t].fd = None,
                                   ![t].record.valid = outcome]
        BY <1>2, <3>1 DEF Replace
      <4> DEFINE record == [task[t].record EXCEPT !.valid = outcome]
                 new == [task[t] EXCEPT !.kind = "validate", !.fd = None, !.record = record]
      <4>2. /\ record \in Record /\ record.id = task[t].record.id
            /\ record.files = task[t].record.files
            /\ record.overlap = task[t].record.overlap
        BY <2>1 DEF Record
      <4>3. task' = [task EXCEPT ![t] = new]
        BY <4>1
      <4> HIDE DEF record
      <4>4. /\ new \in Task /\ new.fd = None /\ new.record = record
            /\ new.records = task[t].records /\ new # Idle
        BY <2>1, <4>2 DEF Task, Idle
      <4>5. pc' = [pc EXCEPT ![t] = "list"]
        BY <1>2, <3>1 DEF Replace, Goto
      <4> HIDE DEF new
      <4>6. QED
        BY <4>2, <4>3, <4>4, <4>5
    <3>2. CASE task[t].kind # "auto"
      BY <1>2, <3>2, IdleIsTask DEF Replace, Finish, Goto
    <3>3. QED
      BY <3>1, <3>2
  <2>3. PICK new \in Task :
          /\ task' = [task EXCEPT ![t] = new] /\ new.fd = None
          /\ new.records \in {{}, task[t].records}
          /\ \/ new = Idle /\ pc' = [pc EXCEPT ![t] = "idle"]
             \/ /\ new # Idle /\ pc' = [pc EXCEPT ![t] = "list"]
                /\ new.record \in Record /\ new.record.id = task[t].record.id
                /\ new.record.files = task[t].record.files
                /\ new.record.overlap = task[t].record.overlap
    BY <2>2
  <2>4. /\ task' \in [Thread -> Task] /\ task'[t] = new
        /\ pc' \in [Thread -> Label]
        /\ \/ new = Idle /\ pc'[t] = "idle"
           \/ /\ new # Idle /\ pc'[t] = "list"
              /\ new.record \in Record /\ new.record.id = task[t].record.id
              /\ new.record.files = task[t].record.files
              /\ new.record.overlap = task[t].record.overlap
        /\ \A u \in Thread \ {t} : task'[u] = task[u] /\ pc'[u] = pc[u]
    BY <2>3 DEF RegistryInv, TypeOK, Label
  <2>5. granted' = granted \/ granted' = granted \cup {task[t].record}
    BY <1>2 DEF Replace
  <2>6. TypeOK'
    <3>1. granted' \subseteq Record
      BY <2>1, <2>5 DEF RegistryInv, TypeOK
    <3>2. QED
      BY <1>2, <2>1, <2>3, <2>4, <3>1 DEF RegistryInv, TypeOK
  <2>7. OnePerIdEverywhere'
    BY <2>1, <2>3, <2>4 DEF RegistryInv, OnePerIdEverywhere, OnePerId
  <2>8. NamesApart'
    BY <2>1 DEF NamesApart
  <2>9. ASSUME ~ overlapped
        PROVE  /\ list \in SUBSET Record
               /\ list' = withRecord(list, task[t].record)
               /\ \A r \in list : Succeeds(task[t].record, r)
    BY <1>2, <2>1, <2>9, RenamedRegistry, ListIsRecords DEF RegistryInv
  <2>10. OneByOne'
    <3> SUFFICES ASSUME ~ overlapped PROVE Alone' /\ \A u \in Thread : KnowsRegistry(u)'
      BY <2>1 DEF OneByOne
    <3>1. \A u \in Thread \ {t} : pc[u] = "idle"
      BY <2>1, OthersIdle DEF Busy
    <3>2. \A r \in list' : r.id = task[t].record.id => r = task[t].record
      BY <2>9 DEF withRecord
    <3>3. KnowsRegistry(t)'
      BY <2>4, <3>2 DEF KnowsRegistry, Saving, Succeeds
    <3>4. QED
      BY <2>4, <3>1, <3>3 DEF Alone, Busy, KnowsRegistry, Saving
  <2>11. GrantedPairsStay'
    <3> SUFFICES ASSUME ~ overlapped, NEW g \in granted'
                 PROVE  \E s \in list' : s.id = g.id /\ s.files = g.files
      BY <2>1 DEF GrantedPairsStay
    <3>1. CASE g \in granted
      <4>1. PICK r \in list : r.id = g.id /\ r.files = g.files
        BY <3>1 DEF RegistryInv, GrantedPairsStay
      <4>2. QED
        BY <2>1, <2>9, <4>1, SavedBeside
    <3>2. CASE g = task[t].record
      BY <2>9, <3>2 DEF withRecord
    <3>3. QED
      BY <2>5, <3>1, <3>2
  <2>12. QED
    BY <2>6, <2>7, <2>8, <2>10, <2>11 DEF RegistryInv
<1>3. QED
  BY <1>1, <1>2

LEMMA CrashStep ==
  ASSUME RegistryInv, Crash
  PROVE  RegistryInv'
<1>1. \A t \in Thread : task'[t] = Idle /\ pc'[t] = "idle"
  BY DEF Crash
<1>2. task' \in [Thread -> Task] /\ pc' \in [Thread -> Label]
  BY IdleIsTask DEF Crash, Label
<1>3. UNCHANGED <<inode, json, tmp, granted, requests, overlapped>> /\ list' = list
  BY DEF Crash, list
<1>4. TypeOK'
  BY <1>1, <1>2, <1>3, IdleIsTask DEF RegistryInv, TypeOK
<1>5. OnePerIdEverywhere'
  BY <1>1, <1>3, IdleIsTask DEF RegistryInv, OnePerIdEverywhere, OnePerId
<1>6. OneByOne'
  BY <1>1 DEF OneByOne, Alone, Busy, KnowsRegistry, Saving
<1>7. NamesApart' /\ GrantedPairsStay'
  BY <1>3 DEF RegistryInv, NamesApart, GrantedPairsStay
<1>8. QED
  BY <1>4, <1>5, <1>6, <1>7 DEF RegistryInv

LEMMA StutterStep ==
  ASSUME RegistryInv, UNCHANGED vars
  PROVE  RegistryInv'
<1>1. list' = list
  BY DEF vars, list
<1>2. UNCHANGED <<inode, json, tmp, pc, task, granted, requests, overlapped>>
  BY DEF vars
<1>3. TypeOK' /\ OnePerIdEverywhere' /\ NamesApart'
  BY <1>2 DEF RegistryInv, TypeOK, OnePerIdEverywhere, NamesApart
<1>4. OneByOne' /\ GrantedPairsStay'
  BY <1>1, <1>2
  DEF RegistryInv, OneByOne, Alone, Busy, KnowsRegistry, GrantedPairsStay
<1>5. QED
  BY <1>3, <1>4 DEF RegistryInv

LEMMA WithIsRecord ==
  ASSUME NEW id \in Id, NEW files \in Files, NEW overlap \in {"given", "structural"}
  PROVE  /\ With(id, files, overlap) \in Record
         /\ With(id, files, overlap).id = id
         /\ With(id, files, overlap).files = files
         /\ With(id, files, overlap).overlap = overlap
  BY DEF With, Record

LEMMA RegisterStep ==
  ASSUME RegistryInv, NEW t \in Thread, Register(t)
  PROVE  RegistryInv'
<1>1. PICK files \in Files,
           id \in {next_pair_id} \cup {i \in Id : \A r \in list : r.id # i} :
        /\ id \in Id
        /\ Begin(t, "register", With(id, files, "given"))
        /\ Goto(t, "list")
  BY DEF Register
<1> DEFINE record == With(id, files, "given")
<1>2. record \in Record /\ record.id = id
  BY <1>1, WithIsRecord
<1>3. \A r \in list : r.id # id
  BY NextIdIsFree DEF RegistryInv
<1>4. \A r \in list : Succeeds(record, r)
  BY <1>2, <1>3 DEF Succeeds
<1> HIDE DEF record
<1>5. Begin(t, "register", record) /\ Goto(t, "list")
  BY <1>1 DEF record
<1>6. QED
  BY <1>2, <1>4, <1>5, BeginStep

LEMMA RecognizeStep ==
  ASSUME RegistryInv, NEW t \in Thread, Recognize(t)
  PROVE  RegistryInv'
<1>1. PICK files \in Files :
        LET same == {r \in list : r.files = files} IN
        IF same # {}
        THEN \E r \in same : /\ Begin(t, "auto", With(r.id, files, "structural"))
                             /\ Goto(t, "list")
        ELSE /\ Begin(t, "auto", With(1, files, "structural"))
             /\ Goto(t, "number")
  BY DEF Recognize
<1>2. ASSUME NEW r \in list, r.files = files,
             Begin(t, "auto", With(r.id, files, "structural")), Goto(t, "list")
      PROVE  RegistryInv'
  <2> DEFINE record == With(r.id, files, "structural")
  <2>1. r \in Record
    BY ListIsRecords DEF RegistryInv
  <2>2. /\ record \in Record /\ record.id = r.id /\ record.files = r.files
        /\ record.overlap = "structural"
    BY <1>2, <2>1, WithIsRecord DEF Record
  <2> HIDE DEF record
  <2>3. \A s \in list : Succeeds(record, s)
    BY <2>2, SucceedsItself
  <2>4. Begin(t, "auto", record) /\ Goto(t, "list")
    BY <1>2 DEF record
  <2>5. QED
    BY <2>2, <2>3, <2>4, BeginStep
<1>3. ASSUME Begin(t, "auto", With(1, files, "structural")), Goto(t, "number")
      PROVE  RegistryInv'
  <2> DEFINE record == With(1, files, "structural")
  <2>1. record \in Record
    BY WithIsRecord DEF Id
  <2> HIDE DEF record
  <2>2. Begin(t, "auto", record) /\ Goto(t, "number")
    BY <1>3 DEF record
  <2>3. QED
    BY <2>1, <2>2, BeginStep
<1>4. QED
  BY <1>1, <1>2, <1>3

LEMMA ValidateStep ==
  ASSUME RegistryInv, NEW t \in Thread, Validate(t)
  PROVE  RegistryInv'
<1>1. PICK r \in list, outcome \in BOOLEAN :
        Begin(t, "validate", [r EXCEPT !.valid = outcome]) /\ Goto(t, "list")
  BY DEF Validate
<1> DEFINE record == [r EXCEPT !.valid = outcome]
<1>2. r \in Record
  BY ListIsRecords DEF RegistryInv
<1>3. /\ record \in Record /\ record.id = r.id /\ record.files = r.files
      /\ record.overlap = r.overlap
  BY <1>2 DEF Record
<1> HIDE DEF record
<1>4. \A s \in list : Succeeds(record, s)
  BY <1>3, SucceedsItself
<1>5. Begin(t, "validate", record) /\ Goto(t, "list")
  BY <1>1 DEF record
<1>6. QED
  BY <1>3, <1>4, <1>5, BeginStep

LEMMA OverlapStep ==
  ASSUME RegistryInv, NEW t \in Thread, RecomputeOverlap(t)
  PROVE  RegistryInv'
<1>1. PICK r \in list :
        Begin(t, "overlap", [r EXCEPT !.overlap = "structural"]) /\ Goto(t, "list")
  BY DEF RecomputeOverlap
<1> DEFINE record == [r EXCEPT !.overlap = "structural"]
<1>2. r \in Record
  BY ListIsRecords DEF RegistryInv
<1>3. /\ record \in Record /\ record.id = r.id /\ record.files = r.files
      /\ record.overlap = "structural"
  BY <1>2 DEF Record
<1> HIDE DEF record
<1>4. \A s \in list : Succeeds(record, s)
  BY <1>3, SucceedsItself
<1>5. Begin(t, "overlap", record) /\ Goto(t, "list")
  BY <1>1 DEF record
<1>6. QED
  BY <1>3, <1>4, <1>5, BeginStep

LEMMA RegistryInit == Init => RegistryInv
<1> SUFFICES ASSUME Init PROVE RegistryInv
  OBVIOUS
<1>1. list = {}
  BY DEF Init, list
<1>2. TypeOK
  <2>1. Torn \in [whole : BOOLEAN, records : SUBSET Record]
    BY DEF Torn
  <2>2. \A n \in Inode : inode[n] = Torn
    BY DEF Init
  <2>3. inode \in [Inode -> [whole : BOOLEAN, records : SUBSET Record]]
    BY <2>1 DEF Init
  <2>4. \A t \in Thread : task[t] = Idle /\ pc[t] = "idle"
    BY DEF Init
  <2>5. task \in [Thread -> Task] /\ pc \in [Thread -> Label]
    BY IdleIsTask DEF Init, Label
  <2>6. /\ json = None /\ tmp = None /\ granted \subseteq Record
        /\ requests \in 0 .. MaxRequests
    BY DEF Init
  <2>7. overlapped \in BOOLEAN
    BY DEF Init
  <2>8. QED
    BY <2>2, <2>3, <2>4, <2>5, <2>6, <2>7, IdleIsTask DEF TypeOK
<1>3. OnePerIdEverywhere
  BY IdleIsTask, DocumentType DEF Init, OnePerIdEverywhere, OnePerId
<1>4. OneByOne /\ NamesApart /\ GrantedPairsStay
  BY DEF Init, OneByOne, Alone, Busy, KnowsRegistry, Saving, NamesApart, GrantedPairsStay
<1>5. QED
  BY <1>2, <1>3, <1>4 DEF RegistryInv

LEMMA RegistryStep == RegistryInv /\ [Next]_vars => RegistryInv'
<1> SUFFICES ASSUME RegistryInv, [Next]_vars PROVE RegistryInv'
  OBVIOUS
<1>1. ASSUME NEW t \in Thread, Raise(t) PROVE RegistryInv'
  BY <1>1, FinishStep DEF Raise
<1>2. ASSUME NEW t \in Thread, Save(t) PROVE RegistryInv'
  BY <1>2, ListStep, OpenStep, WriteStep, ReplaceStep DEF Save
<1>3. QED
  BY <1>1, <1>2, RegisterStep, RecognizeStep, NumberStep, ValidateStep, OverlapStep,
     CrashStep, StutterStep
  DEF Next

\* Every document, and every list that a thread is about to write, has one
\* record per id; and a request that no other overlaps still knows the registry
\* that it has read.
THEOREM RegistryInvHolds == Spec => []RegistryInv
<1>1. QED
  BY RegistryInit, RegistryStep, PTL DEF Spec

-------------------------------------------------------------------------------
\* Every request works on what its types say it does.
THEOREM RegistryTypes == Spec => []TypeOK
<1>1. RegistryInv => TypeOK
  BY DEF RegistryInv
<1>2. QED
  BY <1>1, RegistryInvHolds, PTL

\* However the saves of any number of threads interleave, and wherever the
\* server dies, the registry never lists two records of one id.
THEOREM RegistryListsOneRecordPerId == Spec => []OneRecordPerId
<1>1. RegistryInv => OneRecordPerId
  BY DEF RegistryInv, TypeOK, OnePerIdEverywhere, OnePerId, OneRecordPerId, list
<1>2. QED
  BY <1>1, RegistryInvHolds, PTL

\* Unless two requests overlapped, every pair whose registration was answered
\* is listed under its id with its products.
THEOREM RegisteredPairsStay == Spec => []GrantedPairsStay
<1>1. RegistryInv => GrantedPairsStay
  BY DEF RegistryInv
<1>2. QED
  BY <1>1, RegistryInvHolds, PTL

\* A step changes the list by the rename of a save, or not at all, as long as
\* no two requests overlapped.
LEMMA ListChanges ==
  ASSUME RegistryInv, Next, ~ overlapped'
  PROVE  \/ list' = list
         \/ \E record \in Record : /\ list' = withRecord(list, record)
                                   /\ \A r \in list : Succeeds(record, r)
<1>1. ~ overlapped
  BY DEF Next, Register, Recognize, Number, Validate, RecomputeOverlap, Raise, Save,
         ListForSave, Open, Write, Replace, Crash, Begin
<1>2. CASE UNCHANGED <<json, inode>>
  BY <1>2 DEF list
<1>3. ASSUME NEW t \in Thread, Open(t) PROVE list' = list
  <2>1. PICK n \in IF tmp # None THEN {tmp} ELSE {Min(Unused)} :
          inode' = [inode EXCEPT ![n] = Torn]
    BY <1>3 DEF Open
  <2>2. n # json
    BY <2>1, UnusedInode DEF RegistryInv, NamesApart, Unused
  <2>3. QED
    BY <1>3, <2>1, <2>2 DEF Open, list, RegistryInv, TypeOK
<1>4. ASSUME NEW t \in Thread, Write(t) PROVE list' = list
  <2>1. task[t].fd # json
    BY <1>1, <1>4, OwnTemporaryFile DEF Write
  <2>2. QED
    BY <1>4, <2>1 DEF Write, list, RegistryInv, TypeOK
<1>5. ASSUME NEW t \in Thread, Replace(t), json' # json
      PROVE  \E record \in Record : /\ list' = withRecord(list, record)
                                    /\ \A r \in list : Succeeds(record, r)
  BY <1>1, <1>5, RenamedRegistry DEF Replace
<1>6. QED
  BY <1>2, <1>3, <1>4, <1>5
  DEF Next, Register, Recognize, Number, Validate, RecomputeOverlap, Raise, Save,
      ListForSave, Replace, Crash, Begin

\* Unless two requests overlapped, a step that writes the registry changes one
\* record at most, and takes back no overlap computed from footprints.
THEOREM WritesChangeOneRecord == Spec => OneRecordPerWrite
<1> DEFINE One == ~ overlapped' =>
             /\ Cardinality(list' \ list) <= 1
             /\ \A r \in list : \E s \in list' :
                   r.id = s.id /\ (r.overlap = "structural" => s.overlap = r.overlap)
<1>1. ASSUME RegistryInv, Next PROVE One
  <2> SUFFICES ASSUME ~ overlapped' PROVE One
    OBVIOUS
  <2>1. CASE list' = list
    <3>1. list' \ list = {}
      BY <2>1
    <3>2. QED
      BY <2>1, <3>1, FS_EmptySet
  <2>2. ASSUME NEW record \in Record, list' = withRecord(list, record),
               \A r \in list : Succeeds(record, r)
        PROVE  One
    <3>1. list \in SUBSET Record
      BY <1>1, ListIsRecords DEF RegistryInv
    <3>2. list' \ list \in SUBSET {record}
      BY <2>2 DEF withRecord
    <3>3. Cardinality(list' \ list) <= 1
      <4>1. IsFiniteSet({record}) /\ Cardinality({record}) = 1
        BY FS_Singleton
      <4>2. Cardinality(list' \ list) <= Cardinality({record})
        BY <3>2, <4>1, FS_Subset
      <4>3. QED
        BY <4>1, <4>2
    <3>4. \A r \in list : \E s \in withRecord(list, record) :
             r.id = s.id /\ (r.overlap = "structural" => s.overlap = r.overlap)
      BY <2>2, <3>1, SavedBeside
    <3>5. QED
      BY <2>2, <3>3, <3>4
  <2>3. QED
    BY <1>1, <2>1, <2>2, ListChanges
<1>2. RegistryInv /\ [Next]_vars => [One]_vars
  BY <1>1
<1>3. QED
  BY <1>2, RegistryInvHolds, PTL DEF Spec, OneRecordPerWrite
===============================================================================
