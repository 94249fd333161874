----------------------------- MODULE PairRegistry -----------------------------
(***************************************************************************)
(* The pair registry (backend/app/pairs.py, api/pairs.py): requests of     *)
(* several threads that register pairs, validate them and recompute their  *)
(* overlap, each a read of metadata/pairs.json, some slow work, and a save *)
(* that reads all records again, replaces one and writes the file anew     *)
(* through the temporary name pairs.json.tmp that all threads share.       *)
(*                                                                         *)
(* A file is an inode: truncating a temporary file that another thread has *)
(* open, or renaming it while that thread writes, acts on the inode that   *)
(* both hold.  metadata/pairs.csv, a copy that nothing reads, is left out. *)
(***************************************************************************)
EXTENDS Integers, FiniteSets, FiniteSetsExt

CONSTANTS
    Thread,         \* the threads that serve requests
    Files,          \* the pairs of raw products that may be registered
    MaxId,          \* bound: pair numbers
    MaxRequests     \* bound: requests that are started

ASSUME RegistryAssumption ==
    /\ IsFiniteSet(Thread)
    /\ MaxId \in Nat \ {0} /\ MaxRequests \in Nat

VARIABLES
    inode,      \* what each inode holds: records, or Torn
    json, tmp,  \* the inode that each of the two names stands for, or None
    pc,         \* where each thread is
    task,       \* what each thread works on
    granted,    \* registrations that were answered with a pair id
    requests,   \* how many requests were started
    overlapped  \* whether two requests were ever in progress at once

vars == <<inode, json, tmp, pc, task, granted, requests, overlapped>>

None == 0
Inode == 1 .. Cardinality(Thread) + 2
Id == 1 .. MaxId

\* overlap: the status the user gave, or the one computed from footprints.
Record == [id : Id, files : Files, overlap : {"given", "structural"},
           valid : BOOLEAN]

\* What an inode holds: a document of records, or bytes that are none.
Document(records) == [whole |-> TRUE, records |-> records]
Torn == [whole |-> FALSE, records |-> {}]

NoRecord == [id |-> 0, files |-> "none", overlap |-> "given", valid |-> FALSE]
Idle == [kind |-> "none", record |-> NoRecord, records |-> {}, fd |-> None]

Init ==
    /\ inode = [n \in Inode |-> Torn]
    /\ json = None /\ tmp = None
    /\ pc = [t \in Thread |-> "idle"]
    /\ task = [t \in Thread |-> Idle]
    /\ granted = {} /\ requests = 0 /\ overlapped = FALSE

-------------------------------------------------------------------------------
\* PairRegistry

\* A document that cannot be parsed counts as an empty registry.
list == IF json = None THEN {} ELSE inode[json].records

next_pair_id == Max({r.id : r \in list} \cup {0}) + 1

With(id, files, overlap) ==
    [id |-> id, files |-> files, overlap |-> overlap, valid |-> FALSE]

\* save(), after its list().  Mutant: the old record is not taken out.
withRecordAdded(records, record) == records \cup {record}

withRecord(records, record) == {r \in records : r.id # record.id} \cup {record}

Begin(t, kind, record) ==
    /\ requests < MaxRequests
    /\ pc[t] = "idle"
    /\ requests' = requests + 1
    /\ overlapped' = (overlapped \/ \E u \in Thread \ {t} : pc[u] # "idle")
    /\ task' = [task EXCEPT ![t] = [Idle EXCEPT !.kind = kind, !.record = record]]
    /\ UNCHANGED <<inode, json, tmp, granted>>

Goto(t, label) == pc' = [pc EXCEPT ![t] = label]

\* The end of a request, by its answer or by an exception.
Finish(t) ==
    /\ Goto(t, "idle")
    /\ task' = [task EXCEPT ![t] = Idle]

-------------------------------------------------------------------------------
\* The requests, up to their save

\* POST /pairs/register: the id is settled first, the next one or a free one
\* that the user names; then both products are loaded.
Register(t) ==
    \E files \in Files, id \in {next_pair_id} \cup {i \in Id : \A r \in list : r.id # i} :
        /\ id \in Id
        /\ Begin(t, "register", With(id, files, "given"))
        /\ Goto(t, "list")

\* POST /pairs/auto-register: the record of the same files, or a new id from a
\* second read.
Recognize(t) ==
    \E files \in Files :
        LET same == {r \in list : r.files = files} IN
        IF same # {}
        THEN \E r \in same : /\ Begin(t, "auto", With(r.id, files, "structural"))
                             /\ Goto(t, "list")
        ELSE /\ Begin(t, "auto", With(1, files, "structural"))
             /\ Goto(t, "number")

Number(t) ==
    /\ pc[t] = "number"
    /\ IF next_pair_id \in Id
       THEN /\ task' = [task EXCEPT ![t].record.id = next_pair_id]
            /\ Goto(t, "list")
       ELSE Finish(t)
    /\ UNCHANGED <<inode, json, tmp, granted, requests, overlapped>>

\* POST /pairs/{id}/validate and /pairs/{id}/overlap.  Mutant: validation
\* saves a record built anew from the products.
ValidateAnew(t) ==
    \E r \in list, outcome \in BOOLEAN :
        /\ Begin(t, "validate", [With(r.id, r.files, "given") EXCEPT !.valid = outcome])
        /\ Goto(t, "list")

Validate(t) ==
    \E r \in list, outcome \in BOOLEAN :
        /\ Begin(t, "validate", [r EXCEPT !.valid = outcome])
        /\ Goto(t, "list")

RecomputeOverlap(t) ==
    \E r \in list :
        /\ Begin(t, "overlap", [r EXCEPT !.overlap = "structural"])
        /\ Goto(t, "list")

\* The work between the first read and the save may fail.
Raise(t) ==
    /\ pc[t] \in {"number", "list"}
    /\ Finish(t)
    /\ UNCHANGED <<inode, json, tmp, granted, requests, overlapped>>

-------------------------------------------------------------------------------
\* save

ListForSave(t) ==
    /\ pc[t] = "list"
    /\ task' = [task EXCEPT ![t].records = withRecord(list, task[t].record)]
    /\ Goto(t, "open")
    /\ UNCHANGED <<inode, json, tmp, granted, requests, overlapped>>

\* tmp.write_text opens the shared name: an existing file is truncated, a
\* missing one created.
Unused == Inode \ ({json, tmp} \cup {task[u].fd : u \in Thread})

\* Mutant: straight into pairs.json.
OpenInPlace(t) ==
    /\ pc[t] = "open"
    /\ \E n \in IF json # None THEN {json} ELSE {Min(Unused)} :
          /\ json' = n /\ tmp' = n
          /\ inode' = [inode EXCEPT ![n] = Torn]
          /\ task' = [task EXCEPT ![t].fd = n]
    /\ Goto(t, "write")
    /\ UNCHANGED <<granted, requests, overlapped>>

Open(t) ==
    /\ pc[t] = "open"
    /\ \E n \in IF tmp # None THEN {tmp} ELSE {Min(Unused)} :
          /\ tmp' = n
          /\ inode' = [inode EXCEPT ![n] = Torn]
          /\ task' = [task EXCEPT ![t].fd = n]
    /\ Goto(t, "write")
    /\ UNCHANGED <<json, granted, requests, overlapped>>

\* The text replaces what the inode holds from its start: if another thread
\* has written it since it was truncated, a longer text leaves its end behind.
Write(t) ==
    /\ pc[t] = "write"
    /\ LET n == task[t].fd IN
       \E content \in {Document(task[t].records)} \cup (IF inode[n] = Torn THEN {} ELSE {Torn}) :
          inode' = [inode EXCEPT ![n] = content]
    /\ Goto(t, "replace")
    /\ UNCHANGED <<json, tmp, task, granted, requests, overlapped>>

\* tmp.replace(json_path): whatever file has the name now; without one it
\* raises.  auto-register then validates the record it has and saves again.
Replace(t) ==
    /\ pc[t] = "replace"
    /\ \/ /\ tmp = None
          /\ Finish(t)
          /\ UNCHANGED <<json, tmp, granted>>
       \/ /\ tmp # None
          /\ json' = tmp /\ tmp' = None
          /\ IF task[t].kind = "auto"
             THEN /\ \E outcome \in BOOLEAN :
                        task' = [task EXCEPT ![t].kind = "validate", ![t].fd = None,
                                             ![t].record.valid = outcome]
                  /\ Goto(t, "list")
                  /\ UNCHANGED granted
             ELSE /\ Finish(t)
                  /\ granted' = IF task[t].kind = "register"
                                THEN granted \cup {task[t].record} ELSE granted
    /\ UNCHANGED <<inode, requests, overlapped>>

Save(t) == ListForSave(t) \/ Open(t) \/ Write(t) \/ Replace(t)

\* The server dies; the files stay as they are.
Crash ==
    /\ \E t \in Thread : pc[t] # "idle"
    /\ pc' = [t \in Thread |-> "idle"]
    /\ task' = [t \in Thread |-> Idle]
    /\ UNCHANGED <<inode, json, tmp, granted, requests, overlapped>>

-------------------------------------------------------------------------------
Next ==
    \/ \E t \in Thread :
          \/ Register(t) \/ Recognize(t) \/ Number(t)
          \/ Validate(t) \/ RecomputeOverlap(t)
          \/ Raise(t) \/ Save(t)
    \/ Crash

Spec == Init /\ [][Next]_vars

-------------------------------------------------------------------------------
\* Types: a name stands for an inode, a document holds records, and a request
\* works on a record and has a file open when it is about to write into one.
Label == {"idle", "number", "list", "open", "write", "replace"}

Task == [kind : {"none", "register", "auto", "validate", "overlap"},
         record : Record \cup {NoRecord}, records : SUBSET Record,
         fd : Inode \cup {None}]

TypeOK ==
    /\ inode \in [Inode -> [whole : BOOLEAN, records : SUBSET Record]]
    /\ \A n \in Inode : inode[n].whole \/ inode[n] = Torn
    /\ json \in Inode \cup {None} /\ tmp \in Inode \cup {None}
    /\ pc \in [Thread -> Label]
    /\ task \in [Thread -> Task]
    /\ \A t \in Thread :
          /\ pc[t] \in {"write", "replace"} <=> task[t].fd # None
          /\ pc[t] = "idle" <=> task[t] = Idle
          /\ pc[t] # "idle" => task[t].record \in Record
    /\ granted \subseteq Record
    /\ requests \in 0 .. MaxRequests /\ overlapped \in BOOLEAN

\* However saves interleave, the registry never lists two records of one id:
\* PairRegistry.get, which answers the first it finds, answers the only one.
OneRecordPerId == \A r, s \in list : r.id = s.id => r = s

\* Unless two requests overlapped, every pair whose registration was answered
\* is listed under its id with its products, whatever requests came later and
\* wherever the server died.
GrantedPairsStay ==
    ~ overlapped => \A g \in granted : \E r \in list :
                       r.id = g.id /\ r.files = g.files

\* Unless two requests overlapped, a step that writes the registry changes
\* one record at most, and takes back no overlap computed from footprints.
OneRecordPerWrite ==
    [][~ overlapped' =>
         /\ Cardinality(list' \ list) <= 1
         /\ \A r \in list : \E s \in list' :
               r.id = s.id /\ (r.overlap = "structural" => s.overlap = r.overlap)]_vars
===============================================================================
