------------------------------ MODULE CaseRows ------------------------------
(* The case documents there are to load, and the rows one becomes: the pure *)
(* half of ingest_data.py.                                                  *)
EXTENDS Naturals, Sequences

CONSTANTS
  Cases,       \* the documents there are, several versions of a case included
  Directories, \* what a loader may find: its files in name order, each a
               \* sequence of documents
  Uuids,       \* what a UUID column accepts
  Null,
  Loaders,
  MaxInactive  \* bound: rows deactivated

-----------------------------------------------------------------------------
(* The documents                                                            *)

Pairs(records) == {<<x.id, x.uuid>> : x \in records}

(* Every record of the document, nested ones included.                      *)
IdPairs(case) ==
  Pairs({case}) \cup Pairs(case.criminal) \cup Pairs(case.vehicles)
  \cup Pairs(case.parties) \cup (UNION {Pairs(p.addresses) : p \in case.parties})
  \cup Pairs(case.charges) \cup Pairs(case.charge_dispositions)
  \cup (UNION {Pairs(d.imposed_disposition) : d \in case.charge_dispositions})
  \cup Pairs(case.hearings) \cup Pairs(case.payments) \cup Pairs(case.sanctions)

UuidsOf(case) == {p[2] : p \in IdPairs(case)}

(* Its references to records, of this document or not.                      *)
References(case) ==
  {x.case_record_id : x \in case.criminal \cup case.vehicles \cup case.parties
                              \cup case.charge_dispositions \cup case.hearings
                              \cup case.sanctions}
  \cup (UNION {{x.party_detail_id : x \in p.addresses} : p \in case.parties})
  \cup {x.legal_representative_id : x \in case.hearings}
  \cup {x.next_case_appearance_id : x \in case.hearings}
  \cup {x.case_charge_id : x \in case.sanctions}

(* An integer stands for one record of its document (another document may   *)
(* use it for another record) and is no UUID; a UUID stands for one record  *)
(* of one case; and a file has one document of a case.                      *)
ASSUME DocumentsAssumption ==
  /\ Directories \subseteq Seq(Seq(Cases))
  /\ \A c \in Cases : References(c) \cap Uuids = {}
  /\ \A c \in Cases : UuidsOf(c) \subseteq Uuids
  /\ \A c \in Cases : \A p, q \in IdPairs(c) : p[1] = q[1] => p[2] = q[2]
  /\ \A d \in Directories : \A i \in DOMAIN d : \A j, k \in DOMAIN d[i] :
       d[i][j].uuid = d[i][k].uuid => j = k
  /\ \A c, d \in Cases : c.uuid = d.uuid \/ UuidsOf(c) \cap UuidsOf(d) = {}
  /\ Null \notin Uuids /\ MaxInactive \in Nat

-----------------------------------------------------------------------------
(* build_id_map, remap_ids, build_rows, load_rows                           *)

IdMap(pairs) ==
  [i \in {p[1] : p \in pairs} |-> (CHOOSE p \in pairs : p[1] = i)[2]]

(* An integer the map does not know stays, and no UUID column accepts it.   *)
Remap(ids, value) == IF value \in DOMAIN ids THEN ids[value] ELSE value

(* Addresses, charges, dispositions and payments are given the key of what  *)
(* they are nested in; the others bring their references with them.  A      *)
(* charge is in the light list, among the dispositions, or in both, and     *)
(* becomes one row.                                                         *)
BuildRows(case, ids) ==
  LET Id(value)   == Remap(ids, value)
      Own(x)      == [id |-> Id(x.id), case_record_id |-> Id(x.case_record_id)]
      OfThis(x)   == [id |-> Id(x.id), case_record_id |-> Id(case.id)]
      Address(x)  == [id |-> Id(x.id), case_record_id |-> Id(case.id),
                      party_detail_id |-> Id(x.party_detail_id), is_default |-> x.is_default]
      \* case_record_id: charge_disposition.get(..., case_id), always there
      Imposed(x, d) == [id |-> Id(x.id), case_record_id |-> Id(d.case_record_id),
                        case_charge_id |-> Id(d.id)]
      Hearing(x)  == [id |-> Id(x.id), case_record_id |-> Id(x.case_record_id),
                      legal_representative_id |-> Id(x.legal_representative_id),
                      next_case_appearance_id |-> Id(x.next_case_appearance_id)]
      Sanction(x) == [id |-> Id(x.id), case_record_id |-> Id(x.case_record_id),
                      case_charge_id |-> Id(x.case_charge_id)]
  IN
  [case_record         |-> {[id |-> Id(case.id), ticket_number |-> case.ticket_number]},
   criminal            |-> {Own(x) : x \in case.criminal},
   vehicle_detail      |-> {Own(x) : x \in case.vehicles},
   party_detail        |-> {Own(x) : x \in case.parties},
   case_charge         |-> {OfThis(x) : x \in case.charges}
                           \cup {OfThis(x) : x \in case.charge_dispositions},
   case_appearance     |-> {Hearing(x) : x \in case.hearings},
   payment_record      |-> {OfThis(x) : x \in case.payments},
   address_detail      |-> UNION {{Address(x) : x \in p.addresses} : p \in case.parties},
   imposed_sanction    |-> {Sanction(x) : x \in case.sanctions},
   imposed_disposition |-> UNION {{Imposed(x, d) : x \in d.imposed_disposition}
                                    : d \in case.charge_dispositions}]

TABLE_ORDER ==
  <<"case_record", "criminal", "vehicle_detail", "party_detail", "case_charge",
    "case_appearance", "payment_record", "address_detail", "imposed_sanction",
    "imposed_disposition">>

Tables == {TABLE_ORDER[i] : i \in 1 .. 10}

RowsOf == [c \in Cases |-> BuildRows(c, IdMap(IdPairs(c)))]

CasesIn(file) == {file[i] : i \in DOMAIN file}

(* Mutant of LoadRows: one id map for the whole file.                       *)
LoadRowsOneMap(file) ==
  LET ids == IdMap(UNION {IdPairs(c) : c \in CasesIn(file)}) IN
  [t \in Tables |-> UNION {BuildRows(c, ids)[t] : c \in CasesIn(file)}]

LoadRows(file) ==
  [t \in Tables |-> UNION {RowsOf[c][t] : c \in CasesIn(file)}]
=============================================================================
