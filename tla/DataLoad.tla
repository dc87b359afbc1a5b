------------------------------- MODULE DataLoad -------------------------------
(***************************************************************************)
(* ingest_data.py: the case documents of a directory become rows of one     *)
(* agency schema in one transaction, by several loaders at once, and        *)
(* db_adapters.py: which of those rows a case's knowledge entities are.     *)
(*                                                                          *)
(* A document is a case with its nested records.  Each record carries the   *)
(* source system's integer id, the UUID it will have here, and references   *)
(* by integer; the loader replaces the integers by means of a map that it   *)
(* builds per case.  Of the columns only keys and references are kept, and  *)
(* is_default, which a partial unique index of the addresses reads.         *)
(*                                                                          *)
(* Postgres runs the statements of several transactions concurrently (READ  *)
(* COMMITTED): a statement sees what is committed and what its own          *)
(* transaction wrote, and waits for a transaction that has written a row    *)
(* with an equal key.                                                       *)
(***************************************************************************)
EXTENDS Naturals, Sequences, FiniteSets, AgencySchema, CaseRows

-----------------------------------------------------------------------------
VARIABLES
  db,        \* db[t]: the committed rows of table t
  inactive,  \* <<table, id>> of the rows with is_active = false
  phase,     \* phase[o]: loader o is "idle", has a transaction "open", or has
             \* "committed" it and not said so yet
  files,     \* the files it still has to load, and in the first of them the
  step,      \* place in TABLE_ORDER
  written,   \* written[o][t]: the rows of its open transaction
  directory, \* history: what it loads
  committed, \* history: the documents of the loads whose COMMIT took effect
  done       \* history: the documents of the loads that said "Done."

loaderVars == <<phase, files, step, written, directory>>
vars == <<db, inactive, phase, files, step, written, directory, committed, done>>

NoRows == [t \in Tables |-> {}]

Init ==
  /\ db = NoRows /\ inactive = {} /\ committed = {} /\ done = {}
  /\ phase = [o \in Loaders |-> "idle"]
  /\ files = [o \in Loaders |-> <<>>]
  /\ step = [o \in Loaders |-> 1]
  /\ written = [o \in Loaders |-> NoRows]
  /\ directory = [o \in Loaders |-> <<>>]

(* The unique keys of a table: the primary key, and those of its model.  A  *)
(* partial index holds the rows its condition is true of.                   *)
Model == [t \in Tables |-> CHOOSE m \in Models : m.name = t]

Indexed(t, r, key) ==
  /\ \A column \in key.columns : r[column] # Null
  /\ key.where = "default and active" => r.is_default /\ <<t, r.id>> \notin inactive

SameKey(t, r, s) ==
  \/ r.id = s.id
  \/ \E key \in Model[t].unique :
       /\ \A column \in key.columns : r[column] = s[column]
       /\ Indexed(t, r, key) /\ Indexed(t, s, key)

-----------------------------------------------------------------------------
(* A load                                                                   *)

Start(o) ==
  /\ phase[o] = "idle"
  /\ \E d \in Directories :
       /\ directory' = [directory EXCEPT ![o] = d]
       /\ files' = [files EXCEPT ![o] = d]
  /\ phase' = [phase EXCEPT ![o] = "open"]
  /\ UNCHANGED <<db, inactive, step, written, committed, done>>

Current(o) == TABLE_ORDER[step[o]]
Values(o)  == LoadRows(Head(files[o]))[Current(o)]
Sees(o, t) == db[t] \cup written[o][t]

(* Mutant of New: INSERT without ON CONFLICT.                               *)
NewAll(o) == Values(o)

(* ON CONFLICT (id) DO NOTHING: one row of each id that is not there.       *)
New(o) == {r \in Values(o) : \A s \in Sees(o, Current(o)) : s.id # r.id}

Fresh(o) == {CHOOSE r \in New(o) : r.id = i : i \in {r.id : r \in New(o)}}

Inserting(o) == phase[o] = "open" /\ files[o] # <<>>

(* A row of o's statement has a key that the open transaction of p wrote.   *)
(* (A statement that waits has written nothing yet: what it may have        *)
(* written can only end it earlier, as Die does.)                           *)
Waits(o, p) ==
  /\ o # p /\ Inserting(o)
  /\ \E r \in Fresh(o), s \in written[p][Current(o)] : SameKey(Current(o), r, s)

Waiting(o) == \E p \in Loaders : Waits(o, p)

(* Types, NOT NULL and foreign keys.                                        *)
RefersWell(o, r) ==
  /\ r.id \in Uuids
  /\ \A ref \in Model[Current(o)].refs :
       \/ r[ref.column] = Null /\ ~ ref.required
       \/ /\ r[ref.column] \in Uuids
          /\ \E s \in Sees(o, ref.to) \cup (IF ref.to = Current(o) THEN Fresh(o) ELSE {}) :
               s.id = r[ref.column]

UniqueKeys(o) ==
  \A r \in Fresh(o), s \in Fresh(o) \cup Sees(o, Current(o)) :
    r # s => ~ SameKey(Current(o), r, s)

(* Values of the wrong type fail the statement even in a row that is there. *)
Typed(t, r) ==
  /\ r.id \in Uuids
  /\ \A ref \in Model[t].refs : r[ref.column] \in Uuids \/ (r[ref.column] = Null /\ ~ ref.required)

Accepted(o) ==
  /\ \A r \in Values(o) : Typed(Current(o), r)
  /\ \A r \in Fresh(o) : RefersWell(o, r)
  /\ UniqueKeys(o)

(* Mutant of Upsert: one transaction per file.                              *)
UpsertCommitsFile(o) ==
  /\ Inserting(o) /\ ~ Waiting(o) /\ Accepted(o)
  /\ \/ /\ step[o] < 10 /\ step' = [step EXCEPT ![o] = @ + 1]
        /\ written' = [written EXCEPT ![o][Current(o)] = @ \cup Fresh(o)]
        /\ UNCHANGED <<files, db>>
     \/ /\ step[o] = 10
        /\ step' = [step EXCEPT ![o] = 1]
        /\ files' = [files EXCEPT ![o] = Tail(@)]
        /\ db' = [t \in Tables |-> db[t] \cup written[o][t]
                    \cup (IF t = Current(o) THEN Fresh(o) ELSE {})]
        /\ written' = [written EXCEPT ![o] = NoRows]
  /\ UNCHANGED <<inactive, phase, directory, committed, done>>

(* upsert of one table, and the next table or file.                         *)
Upsert(o) ==
  /\ Inserting(o) /\ ~ Waiting(o) /\ Accepted(o)
  /\ written' = [written EXCEPT ![o][Current(o)] = @ \cup Fresh(o)]
  /\ \/ step[o] < 10 /\ step' = [step EXCEPT ![o] = @ + 1] /\ UNCHANGED files
     \/ /\ step[o] = 10
        /\ step' = [step EXCEPT ![o] = 1]
        /\ files' = [files EXCEPT ![o] = Tail(@)]
  /\ UNCHANGED <<db, inactive, phase, directory, committed, done>>

DocumentsOf(d) == UNION {CasesIn(d[i]) : i \in DOMAIN d}

(* The end of engine.begin(), after the last file.                          *)
Commit(o) ==
  /\ phase[o] = "open" /\ files[o] = <<>>
  /\ phase' = [phase EXCEPT ![o] = "committed"]
  /\ db' = [t \in Tables |-> db[t] \cup written[o][t]]
  /\ written' = [written EXCEPT ![o] = NoRows]
  /\ committed' = committed \cup DocumentsOf(directory[o])
  /\ UNCHANGED <<inactive, files, step, directory, done>>

Close(o) ==
  /\ phase' = [phase EXCEPT ![o] = "idle"]
  /\ written' = [written EXCEPT ![o] = NoRows]
  /\ files' = [files EXCEPT ![o] = <<>>]
  /\ step' = [step EXCEPT ![o] = 1]
  /\ directory' = [directory EXCEPT ![o] = <<>>]

(* engine.dispose(), then "Done."                                           *)
Report(o) ==
  /\ phase[o] = "committed"
  /\ done' = done \cup DocumentsOf(directory[o])
  /\ Close(o)
  /\ UNCHANGED <<db, inactive, committed>>

(* Nothing more is written or said; an open transaction is rolled back.     *)
Abandon(o) == Close(o) /\ UNCHANGED <<db, inactive, committed, done>>

(* The statement is refused, or its transaction is chosen to end a deadlock.*)
Refused(o) ==
  /\ Inserting(o)
  /\ \/ ~ Waiting(o) /\ ~ Accepted(o)
     \/ \E others \in SUBSET Loaders :
          o \in others /\ \A p \in others : \E q \in others : Waits(p, q)
  /\ Abandon(o)

(* The process or its connection dies, or the next file does not parse.     *)
(* After the commit: the answer to COMMIT is lost, dispose() fails, or the  *)
(* process is killed before it says "Done."; the rows stay.                 *)
Die(o) == phase[o] # "idle" /\ Abandon(o)

(* Not in this repository: the court's own application ends a record.       *)
Deactivate(t, r) ==
  /\ Cardinality(inactive) < MaxInactive
  /\ inactive' = inactive \cup {<<t, r.id>>}
  /\ UNCHANGED <<db, loaderVars, committed, done>>

Next ==
  \/ \E o \in Loaders : Start(o) \/ Upsert(o) \/ Commit(o) \/ Report(o) \/ Refused(o) \/ Die(o)
  \/ \E t \in Tables : \E r \in db[t] : Deactivate(t, r)

Spec == Init /\ [][Next]_vars

-----------------------------------------------------------------------------
(* Discovery: what a session sees of the rows                               *)

Active(t) == {r \in db[t] : <<t, r.id>> \notin inactive}

(* A relationship: the active rows of t that refer to r by this column.     *)
Related(t, column, r) == {x \in Active(t) : x[column] = r.id}

Children(t, c) == Related(t, "case_record_id", c)

(* What is reached through other rows.                                      *)
Through(t, column, parents) == UNION {Related(t, column, r) : r \in parents}

discover_all(c) ==
  [t \in Tables |->
     CASE t = "case_record"         -> {c}
       [] t = "address_detail"      -> Through(t, "party_detail_id", Children("party_detail", c))
       [] t = "imposed_disposition" -> Through(t, "case_charge_id", Children("case_charge", c))
       [] t = "imposed_sanction"    -> Through(t, "case_charge_id", Children("case_charge", c))
       [] OTHER                     -> Children(t, c)]

-----------------------------------------------------------------------------
(* Every row, and everything it refers to, belongs to the case its own      *)
(* document was about, although cases use the same integer ids, share files *)
(* and come in several versions; so discovery, which follows the references *)
(* of parties and charges, gives a case no row of another.                  *)
CaseOf(t, r) == IF t = "case_record" THEN r.id ELSE r.case_record_id

StaysInCase ==
  /\ \A c \in Cases :
       LET own == UuidsOf(c)
           ofCase == UNION {UuidsOf(d) : d \in {v \in Cases : v.uuid = c.uuid}} IN
       \A t \in Tables : \A r \in db[t] :
         r.id \in own =>
           /\ CaseOf(t, r) = c.uuid
           /\ \A ref \in Model[t].refs : r[ref.column] \in ofCase \cup {Null}
  /\ \A c \in Active("case_record"), t \in Tables : \A r \in discover_all(c)[t] :
       CaseOf(t, r) = c.id

(* A load is whole or absent.  The rows in the schema are exactly those of  *)
(* the documents of loads that committed: one that was refused, died before *)
(* its commit or lost a deadlock left nothing, and one that skipped rows    *)
(* because another load had written them did not rely on rows that were     *)
(* then rolled back.  What said "Done." is among them; what is among them   *)
(* need not have said so.                                                   *)
DoneMeansLoaded ==
  /\ done \subseteq committed
  /\ \A t \in Tables :
       {r.id : r \in db[t]} =
       UNION {{r.id : r \in RowsOf[c][t]} : c \in committed}

(* Loading again what a load has committed, with or without its "Done.", is *)
(* refused at no statement, waits for nobody and inserts nothing, whoever   *)
(* else is loading.                                                         *)
RerunIsIdempotent ==
  \A o \in Loaders :
    Inserting(o) /\ DocumentsOf(directory[o]) \subseteq committed =>
      Accepted(o) /\ ~ Waiting(o) /\ Fresh(o) = {}

-----------------------------------------------------------------------------
(* Inductive strengthenings, proved in DataLoadProofs.                      *)

AnyRow == UNION {RowsOf[c][t] : c \in Cases, t \in Tables}

TypeInv ==
  /\ db \in [Tables -> SUBSET AnyRow]
  /\ written \in [Loaders -> [Tables -> SUBSET AnyRow]]
  /\ phase \in [Loaders -> {"idle", "open", "committed"}]
  /\ files \in [Loaders -> Seq(Seq(Cases))]
  /\ directory \in [Loaders -> Seq(Seq(Cases))]
  /\ step \in [Loaders -> 1 .. 10]
  /\ committed \subseteq Cases /\ done \subseteq Cases

(* Committed or not.                                                        *)
AllRows(t) == db[t] \cup UNION {written[o][t] : o \in Loaders}

(* A row comes from the document of a case and refers to nothing else.      *)
Belongs(t, r) ==
  \E c \in Cases :
    /\ r \in RowsOf[c][t]
    /\ CaseOf(t, r) = c.uuid
    /\ \A ref \in Model[t].refs : r[ref.column] = Null \/ r[ref.column] \in UuidsOf(c)

RowsInv == \A t \in Tables : \A r \in AllRows(t) : Belongs(t, r)

(* Waiting for each other keeps loaders from inserting one id twice.        *)
UniqueInv == \A t \in Tables : \A r, s \in AllRows(t) : r.id = s.id => r = s

Ids(rows) == {r.id : r \in rows}

(* How many files of its directory o has finished, and what it has of each. *)
Past(o) == Len(directory[o]) - Len(files[o])

FilesInv ==
  \A o \in Loaders :
    /\ Past(o) \in 0 .. Len(directory[o])
    /\ \A i \in 1 .. Len(files[o]) : files[o][i] = directory[o][Past(o) + i]

PhaseInv ==
  \A o \in Loaders :
    /\ phase[o] = "idle" => step[o] = 1 /\ directory[o] = <<>>
    /\ phase[o] = "committed" => DocumentsOf(directory[o]) \subseteq committed

Loaded(o, i, j) == i <= Past(o) \/ (i = Past(o) + 1 /\ j < step[o])

LoadedInv ==
  \A o \in Loaders : \A i \in 1 .. Len(directory[o]), j \in 1 .. 10 :
    Loaded(o, i, j) =>
      /\ Ids(LoadRows(directory[o][i])[TABLE_ORDER[j]]) \subseteq Ids(Sees(o, TABLE_ORDER[j]))
      /\ \A r \in LoadRows(directory[o][i])[TABLE_ORDER[j]] : Typed(TABLE_ORDER[j], r)

TypedInv == \A c \in committed, t \in Tables : \A r \in RowsOf[c][t] : Typed(t, r)

WrittenInv ==
  \A o \in Loaders, t \in Tables : \A r \in written[o][t] :
    \E i \in 1 .. Len(directory[o]) : r.id \in Ids(LoadRows(directory[o][i])[t])

LoadInv ==
  /\ TypeInv
  /\ FilesInv
  /\ PhaseInv
  /\ LoadedInv
  /\ TypedInv
  /\ WrittenInv
  /\ DoneMeansLoaded
=============================================================================
