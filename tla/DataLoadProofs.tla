---------------------------- MODULE DataLoadProofs ----------------------------
(***************************************************************************)
(* Proofs about DataLoad, for any documents, directories and number of      *)
(* loaders that satisfy DocumentsAssumption.                                *)
(***************************************************************************)
EXTENDS DataLoad, TLAPS

-----------------------------------------------------------------------------
(* The rows of one document                                                 *)

IdsOf(c) == IdMap(IdPairs(c))

(* build_id_map: a record's integer is replaced by its own UUID.            *)
LEMMA IdMapIsTrue ==
  ASSUME NEW c \in Cases
  PROVE  /\ \A p \in IdPairs(c) : Remap(IdsOf(c), p[1]) = p[2]
         /\ \A v \in DOMAIN IdsOf(c) : Remap(IdsOf(c), v) \in UuidsOf(c)
<1> DEFINE pairs == IdPairs(c)
           Of(i) == CHOOSE p \in pairs : p[1] = i
<1>1. DOMAIN IdsOf(c) = {p[1] : p \in pairs}
  BY DEF IdsOf, IdMap
<1>2. \A i \in DOMAIN IdsOf(c) : IdsOf(c)[i] = Of(i)[2]
  BY DEF IdsOf, IdMap
<1>3. \A i \in DOMAIN IdsOf(c) : Of(i) \in pairs /\ Of(i)[1] = i
  BY <1>1
<1>4. \A p, q \in pairs : p[1] = q[1] => p[2] = q[2]
  BY DocumentsAssumption
<1>5. \A p \in pairs : IdsOf(c)[p[1]] = p[2]
  BY <1>1, <1>2, <1>3, <1>4
<1> QED
  BY <1>1, <1>2, <1>3, <1>5 DEF Remap, UuidsOf

LEMMA CaseKept ==
  ASSUME NEW c \in Cases
  PROVE  Remap(IdsOf(c), c.id) = c.uuid /\ c.uuid \in UuidsOf(c)
<1>1. <<c.id, c.uuid>> \in IdPairs(c)
  BY DEF IdPairs, Pairs
<1> QED
  BY <1>1, IdMapIsTrue DEF UuidsOf

(* remap_ids: what becomes of a reference is a UUID of the document, or none *)
(* at all.                                                                  *)
LEMMA ReferenceStays ==
  ASSUME NEW c \in Cases, NEW v \in References(c), Remap(IdsOf(c), v) \in Uuids
  PROVE  Remap(IdsOf(c), v) \in UuidsOf(c)
<1>1. v \notin Uuids
  BY DocumentsAssumption
<1>2. v \in DOMAIN IdsOf(c)
  BY <1>1 DEF Remap
<1> QED
  BY <1>2, IdMapIsTrue

(* build_rows, table by table.                                              *)
LEMMA RowsAre ==
  ASSUME NEW c \in Cases
  PROVE  LET Id(v) == Remap(IdsOf(c), v) IN
    /\ RowsOf[c]["case_record"] = {[id |-> Id(c.id), ticket_number |-> c.ticket_number]}
    /\ RowsOf[c]["criminal"] =
         {[id |-> Id(x.id), case_record_id |-> Id(x.case_record_id)] : x \in c.criminal}
    /\ RowsOf[c]["vehicle_detail"] =
         {[id |-> Id(x.id), case_record_id |-> Id(x.case_record_id)] : x \in c.vehicles}
    /\ RowsOf[c]["party_detail"] =
         {[id |-> Id(x.id), case_record_id |-> Id(x.case_record_id)] : x \in c.parties}
    /\ RowsOf[c]["case_charge"] =
         {[id |-> Id(x.id), case_record_id |-> Id(c.id)] : x \in c.charges}
         \cup {[id |-> Id(x.id), case_record_id |-> Id(c.id)] : x \in c.charge_dispositions}
    /\ RowsOf[c]["case_appearance"] =
         {[id |-> Id(x.id), case_record_id |-> Id(x.case_record_id),
           legal_representative_id |-> Id(x.legal_representative_id),
           next_case_appearance_id |-> Id(x.next_case_appearance_id)] : x \in c.hearings}
    /\ RowsOf[c]["payment_record"] =
         {[id |-> Id(x.id), case_record_id |-> Id(c.id)] : x \in c.payments}
    /\ RowsOf[c]["address_detail"] =
         UNION {{[id |-> Id(x.id), case_record_id |-> Id(c.id),
                  party_detail_id |-> Id(x.party_detail_id), is_default |-> x.is_default]
                    : x \in p.addresses} : p \in c.parties}
    /\ RowsOf[c]["imposed_sanction"] =
         {[id |-> Id(x.id), case_record_id |-> Id(x.case_record_id),
           case_charge_id |-> Id(x.case_charge_id)] : x \in c.sanctions}
    /\ RowsOf[c]["imposed_disposition"] =
         UNION {{[id |-> Id(x.id), case_record_id |-> Id(d.case_record_id),
                  case_charge_id |-> Id(d.id)] : x \in d.imposed_disposition}
                    : d \in c.charge_dispositions}
<1>1. RowsOf[c] = BuildRows(c, IdsOf(c))
  BY DEF RowsOf, IdsOf
<1> QED
  BY <1>1, SMTT(30) DEF BuildRows

(* The ten tables.                                                          *)
LEMMA TablesAre ==
  Tables = {"case_record", "criminal", "vehicle_detail", "party_detail", "case_charge",
            "case_appearance", "payment_record", "address_detail", "imposed_sanction",
            "imposed_disposition"}
<1>1. 1 .. 10 = {1, 2, 3, 4, 5, 6, 7, 8, 9, 10}
  OBVIOUS
<1>2. /\ TABLE_ORDER[1] = "case_record" /\ TABLE_ORDER[2] = "criminal"
      /\ TABLE_ORDER[3] = "vehicle_detail" /\ TABLE_ORDER[4] = "party_detail"
      /\ TABLE_ORDER[5] = "case_charge" /\ TABLE_ORDER[6] = "case_appearance"
      /\ TABLE_ORDER[7] = "payment_record" /\ TABLE_ORDER[8] = "address_detail"
      /\ TABLE_ORDER[9] = "imposed_sanction" /\ TABLE_ORDER[10] = "imposed_disposition"
  BY DEF TABLE_ORDER
<1> QED
  BY <1>1, <1>2 DEF Tables

(* Each table's model, by name.                                             *)
LEMMA ModelsAre ==
  /\ Model["case_record"] = CaseRecord /\ Model["criminal"] = Criminal
  /\ Model["vehicle_detail"] = VehicleDetail /\ Model["party_detail"] = PartyDetail
  /\ Model["case_charge"] = CaseCharge /\ Model["case_appearance"] = CaseAppearance
  /\ Model["payment_record"] = PaymentRecord /\ Model["address_detail"] = AddressDetail
  /\ Model["imposed_sanction"] = ImposedSanction
  /\ Model["imposed_disposition"] = ImposedDisposition
<1>1. /\ CaseRecord.name = "case_record" /\ Criminal.name = "criminal"
      /\ VehicleDetail.name = "vehicle_detail" /\ PartyDetail.name = "party_detail"
      /\ CaseCharge.name = "case_charge" /\ CaseAppearance.name = "case_appearance"
      /\ PaymentRecord.name = "payment_record" /\ AddressDetail.name = "address_detail"
      /\ ImposedSanction.name = "imposed_sanction"
      /\ ImposedDisposition.name = "imposed_disposition"
  BY DEF Table, CaseRecord, Criminal, VehicleDetail, PartyDetail, CaseCharge, CaseAppearance,
         PaymentRecord, AddressDetail, ImposedSanction, ImposedDisposition
<1>2. \A m, n \in Models : m.name = n.name => m = n
  BY <1>1 DEF Models
<1>3. \A m \in Models : m.name \in Tables => Model[m.name] = m
  <2> SUFFICES ASSUME NEW m \in Models, m.name \in Tables PROVE Model[m.name] = m
    OBVIOUS
  <2>1. Model[m.name] = CHOOSE n \in Models : n.name = m.name
    BY DEF Model
  <2> QED
    BY <2>1, <1>2
<1>4. Tables = {"case_record", "criminal", "vehicle_detail", "party_detail", "case_charge",
                "case_appearance", "payment_record", "address_detail", "imposed_sanction",
                "imposed_disposition"}
  BY TablesAre
<1>5. /\ CaseRecord \in Models /\ Criminal \in Models /\ VehicleDetail \in Models
      /\ PartyDetail \in Models /\ CaseCharge \in Models /\ CaseAppearance \in Models
      /\ PaymentRecord \in Models /\ AddressDetail \in Models
      /\ ImposedSanction \in Models /\ ImposedDisposition \in Models
  BY DEF Models
<1> QED
  BY <1>1, <1>3, <1>4, <1>5

(* The references of each table.                                            *)
LEMMA RefsAre ==
  LET Case == [column |-> "case_record_id", to |-> "case_record", required |-> TRUE]
      Charge == [column |-> "case_charge_id", to |-> "case_charge", required |-> FALSE] IN
  /\ CaseRecord.refs = {}
  /\ Criminal.refs = {Case} /\ VehicleDetail.refs = {Case}
  /\ PartyDetail.refs = {Case} /\ CaseCharge.refs = {Case}
  /\ CaseAppearance.refs =
       {Case, [column |-> "legal_representative_id", to |-> "party_detail", required |-> FALSE],
        [column |-> "next_case_appearance_id", to |-> "case_appearance", required |-> FALSE]}
  /\ PaymentRecord.refs =
       {[column |-> "case_record_id", to |-> "case_record", required |-> FALSE]}
  /\ AddressDetail.refs =
       {Case, [column |-> "party_detail_id", to |-> "party_detail", required |-> TRUE]}
  /\ ImposedSanction.refs = {Case, Charge} /\ ImposedDisposition.refs = {Case, Charge}
  BY DEF Table, CaseRecord, Criminal, VehicleDetail, PartyDetail, CaseCharge, CaseAppearance,
         PaymentRecord, AddressDetail, ImposedSanction, ImposedDisposition, OfCase,
         Required, Optional

(* Every record of a document has its own UUID as the id of its row.        *)
LEMMA RecordsKept ==
  ASSUME NEW c \in Cases
  PROVE  LET Kept(records) == \A x \in records : Remap(IdsOf(c), x.id) \in UuidsOf(c) IN
    /\ Kept(c.criminal) /\ Kept(c.vehicles) /\ Kept(c.parties) /\ Kept(c.charges)
    /\ Kept(c.charge_dispositions) /\ Kept(c.hearings) /\ Kept(c.payments)
    /\ Kept(c.sanctions)
    /\ \A p \in c.parties : Kept(p.addresses)
    /\ \A d \in c.charge_dispositions : Kept(d.imposed_disposition)
<1> DEFINE Kept(records) == \A x \in records : Remap(IdsOf(c), x.id) \in UuidsOf(c)
<1>1. ASSUME NEW records, Pairs(records) \subseteq IdPairs(c) PROVE Kept(records)
  <2> SUFFICES ASSUME NEW x \in records PROVE Remap(IdsOf(c), x.id) \in UuidsOf(c)
    OBVIOUS
  <2>1. <<x.id, x.uuid>> \in IdPairs(c)
    BY <1>1 DEF Pairs
  <2> QED
    BY <2>1, IdMapIsTrue DEF UuidsOf
<1>2. /\ Pairs(c.criminal) \subseteq IdPairs(c) /\ Pairs(c.vehicles) \subseteq IdPairs(c)
      /\ Pairs(c.parties) \subseteq IdPairs(c) /\ Pairs(c.charges) \subseteq IdPairs(c)
      /\ Pairs(c.charge_dispositions) \subseteq IdPairs(c)
      /\ Pairs(c.hearings) \subseteq IdPairs(c) /\ Pairs(c.payments) \subseteq IdPairs(c)
      /\ Pairs(c.sanctions) \subseteq IdPairs(c)
      /\ (UNION {Pairs(p.addresses) : p \in c.parties}) \subseteq IdPairs(c)
      /\ (UNION {Pairs(d.imposed_disposition) : d \in c.charge_dispositions}) \subseteq IdPairs(c)
  BY Zenon DEF IdPairs
<1>3. ASSUME NEW p \in c.parties PROVE Pairs(p.addresses) \subseteq IdPairs(c)
  BY <1>2
<1>4. ASSUME NEW d \in c.charge_dispositions
      PROVE  Pairs(d.imposed_disposition) \subseteq IdPairs(c)
  BY <1>2
<1> HIDE DEF Kept
<1>5. /\ Kept(c.criminal) /\ Kept(c.vehicles) /\ Kept(c.parties) /\ Kept(c.charges)
      /\ Kept(c.charge_dispositions) /\ Kept(c.hearings) /\ Kept(c.payments)
      /\ Kept(c.sanctions)
      /\ \A p \in c.parties : Kept(p.addresses)
      /\ \A d \in c.charge_dispositions : Kept(d.imposed_disposition)
  BY <1>1, <1>2, <1>3, <1>4
<1> QED
  BY <1>5 DEF Kept

-----------------------------------------------------------------------------
(* Types and the statement of a table                                       *)

LEMMA HeadTail ==
  ASSUME NEW S, NEW s \in Seq(S), s # <<>>
  PROVE  /\ Len(s) \in Nat \ {0} /\ Head(s) = s[1] /\ Head(s) \in S
         /\ Tail(s) \in Seq(S) /\ Len(Tail(s)) = Len(s) - 1
         /\ \A i \in 1 .. Len(s) - 1 : Tail(s)[i] = s[i + 1]
  OBVIOUS

LEMMA CurrentIsTable ==
  ASSUME TypeInv, NEW o \in Loaders
  PROVE  Current(o) \in Tables
  BY DEF TypeInv, Current, Tables

LEMMA LoadedRows ==
  ASSUME NEW file \in Seq(Cases), NEW t \in Tables
  PROVE  /\ LoadRows(file)[t] \subseteq AnyRow
         /\ \A r : r \in LoadRows(file)[t] <=> \E c \in CasesIn(file) : r \in RowsOf[c][t]
         /\ CasesIn(file) \subseteq Cases
<1>1. CasesIn(file) \subseteq Cases
  BY DEF CasesIn
<1>2. LoadRows(file)[t] = UNION {RowsOf[c][t] : c \in CasesIn(file)}
  BY DEF LoadRows
<1>3. \A r : r \in LoadRows(file)[t] <=> \E c \in CasesIn(file) : r \in RowsOf[c][t]
  BY <1>2
<1> QED
  BY <1>1, <1>3 DEF AnyRow

(* ON CONFLICT DO NOTHING: of each new id one row, and of no other.         *)
LEMMA FreshAre ==
  ASSUME NEW o \in Loaders
  PROVE  /\ Fresh(o) \subseteq New(o) /\ New(o) \subseteq Values(o)
         /\ \A r, s \in Fresh(o) : r.id = s.id => r = s
         /\ \A r \in New(o) : \E s \in Fresh(o) : s.id = r.id
<1> DEFINE Of(i) == CHOOSE r \in New(o) : r.id = i
<1>1. \A i \in {r.id : r \in New(o)} : Of(i) \in New(o) /\ Of(i).id = i
  OBVIOUS
<1>2. Fresh(o) = {Of(i) : i \in {r.id : r \in New(o)}}
  BY DEF Fresh
<1>3. New(o) \subseteq Values(o)
  BY DEF New
<1> HIDE DEF Of
<1> QED
  BY <1>1, <1>2, <1>3

LEMMA ValuesAre ==
  ASSUME TypeInv, NEW o \in Loaders, Inserting(o)
  PROVE  /\ Head(files[o]) \in Seq(Cases) /\ Values(o) \subseteq AnyRow
         /\ \A r \in Values(o) : \E c \in Cases : r \in RowsOf[c][Current(o)]
<1>1. files[o] \in Seq(Seq(Cases)) /\ files[o] # <<>>
  BY DEF TypeInv, Inserting
<1>2. Head(files[o]) \in Seq(Cases)
  BY <1>1, HeadTail
<1> QED
  BY <1>2, CurrentIsTable, LoadedRows DEF Values

LEMMA DirectoryCases ==
  ASSUME TypeInv, NEW o \in Loaders
  PROVE  /\ DocumentsOf(directory[o]) \subseteq Cases
         /\ \A c : c \in DocumentsOf(directory[o]) <=>
              \E i \in 1 .. Len(directory[o]) : c \in CasesIn(directory[o][i])
<1> DEFINE d == directory[o]
<1>1. d \in Seq(Seq(Cases)) /\ DOMAIN d = 1 .. Len(d)
  BY DEF TypeInv
<1>2. \A c : c \in DocumentsOf(d) <=> \E i \in DOMAIN d : c \in CasesIn(d[i])
  BY DEF DocumentsOf
<1>3. \A i \in DOMAIN d : CasesIn(d[i]) \subseteq Cases
  BY <1>1 DEF CasesIn
<1> QED
  BY <1>1, <1>2, <1>3

LEMMA InitTypes == Init => TypeInv
  BY DEF Init, TypeInv, NoRows

LEMMA NextTypes ==
  ASSUME TypeInv, [Next]_vars
  PROVE  TypeInv'
<1> USE DEF TypeInv
<1>1. ASSUME NEW o \in Loaders, Start(o) PROVE TypeInv'
  BY <1>1, DocumentsAssumption DEF Start
<1>2. ASSUME NEW o \in Loaders, Upsert(o) PROVE TypeInv'
  <2>1. Fresh(o) \subseteq AnyRow
    BY <1>2, FreshAre, ValuesAre DEF Upsert
  <2>2. written' \in [Loaders -> [Tables -> SUBSET AnyRow]]
    BY <1>2, <2>1, CurrentIsTable DEF Upsert
  <2>3. Tail(files[o]) \in Seq(Seq(Cases))
    BY <1>2, HeadTail DEF Upsert, Inserting
  <2>4. step' \in [Loaders -> 1 .. 10]
    <3>1. step[o] \in 1 .. 10 /\ (step[o] < 10 => step[o] + 1 \in 1 .. 10)
      OBVIOUS
    <3>2. \/ step[o] < 10 /\ step' = [step EXCEPT ![o] = step[o] + 1]
          \/ step' = [step EXCEPT ![o] = 1]
      BY <1>2 DEF Upsert
    <3>3. step \in [Loaders -> 1 .. 10]
      OBVIOUS
    <3> HIDE DEF TypeInv
    <3> QED
      BY <3>1, <3>2, <3>3
  <2>5. files' \in [Loaders -> Seq(Seq(Cases))]
    BY <1>2, <2>3 DEF Upsert
  <2> QED
    BY <1>2, <2>2, <2>4, <2>5 DEF Upsert
<1>3. ASSUME NEW o \in Loaders, Close(o)
      PROVE  /\ written' \in [Loaders -> [Tables -> SUBSET AnyRow]]
             /\ phase' \in [Loaders -> {"idle", "open", "committed"}] /\ step' \in [Loaders -> 1 .. 10]
             /\ files' \in [Loaders -> Seq(Seq(Cases))]
             /\ directory' \in [Loaders -> Seq(Seq(Cases))]
  BY <1>3 DEF Close, NoRows
<1>4. ASSUME NEW o \in Loaders, Commit(o) PROVE TypeInv'
  <2>1. committed' \subseteq Cases
    BY <1>4, DirectoryCases DEF Commit
  <2>2. db' \in [Tables -> SUBSET AnyRow]
    BY <1>4 DEF Commit
  <2> QED
    BY <1>4, <2>1, <2>2 DEF Commit, NoRows
<1>5. ASSUME NEW o \in Loaders, Report(o) PROVE TypeInv'
  <2>1. done' \subseteq Cases
    BY <1>5, DirectoryCases DEF Report
  <2> QED
    BY <1>3, <1>5, <2>1 DEF Report
<1>8. ASSUME NEW o \in Loaders, Abandon(o) PROVE TypeInv'
  BY <1>3, <1>8 DEF Abandon
<1>6. ASSUME NEW t \in Tables, NEW r \in db[t], Deactivate(t, r) PROVE TypeInv'
  BY <1>6 DEF Deactivate, loaderVars
<1>7. CASE UNCHANGED vars
  BY <1>7 DEF vars
<1> QED
  BY <1>1, <1>2, <1>4, <1>5, <1>6, <1>7, <1>8 DEF Next, Refused, Die

-----------------------------------------------------------------------------
(* What the open transactions have loaded                                   *)

(* The conjuncts of LoadInv that speak of one loader.                       *)
FilesOf(o) ==
  /\ Past(o) \in 0 .. Len(directory[o])
  /\ \A i \in 1 .. Len(files[o]) : files[o][i] = directory[o][Past(o) + i]

PhaseOf(o) ==
  /\ phase[o] = "idle" => step[o] = 1 /\ directory[o] = <<>>
  /\ phase[o] = "committed" => DocumentsOf(directory[o]) \subseteq committed

LoadedOf(o) ==
  \A i \in 1 .. Len(directory[o]), j \in 1 .. 10 :
    Loaded(o, i, j) =>
      /\ Ids(LoadRows(directory[o][i])[TABLE_ORDER[j]]) \subseteq Ids(Sees(o, TABLE_ORDER[j]))
      /\ \A r \in LoadRows(directory[o][i])[TABLE_ORDER[j]] : Typed(TABLE_ORDER[j], r)

WrittenOf(o) ==
  \A t \in Tables : \A r \in written[o][t] :
    \E i \in 1 .. Len(directory[o]) : r.id \in Ids(LoadRows(directory[o][i])[t])

LoaderInv(o) == FilesOf(o) /\ PhaseOf(o) /\ LoadedOf(o) /\ WrittenOf(o)

LEMMA ByLoader ==
  (FilesInv /\ PhaseInv /\ LoadedInv /\ WrittenInv) <=> \A o \in Loaders : LoaderInv(o)
  BY DEF FilesInv, PhaseInv, LoadedInv, WrittenInv, LoaderInv, FilesOf, PhaseOf, LoadedOf,
         WrittenOf

(* A loader that does nothing keeps what it has: rows are never deleted.    *)
LEMMA OtherLoaderKeeps ==
  ASSUME NEW o \in Loaders, LoaderInv(o),
         phase'[o] = phase[o], files'[o] = files[o], step'[o] = step[o],
         written'[o] = written[o], directory'[o] = directory[o],
         committed \subseteq committed',
         \A t \in Tables : db[t] \subseteq db'[t]
  PROVE  LoaderInv(o)'
<1>1. Past(o)' = Past(o)
  BY DEF Past
<1>2. FilesOf(o)' /\ PhaseOf(o)' /\ WrittenOf(o)'
  BY <1>1 DEF LoaderInv, FilesOf, PhaseOf, WrittenOf, DocumentsOf
<1>3. \A j \in 1 .. 10 : Ids(Sees(o, TABLE_ORDER[j])) \subseteq Ids(Sees(o, TABLE_ORDER[j]))'
  BY DEF Ids, Sees, Tables
<1>4. \A i, j : Loaded(o, i, j)' <=> Loaded(o, i, j)
  BY <1>1 DEF Loaded
<1>5. LoadedOf(o)'
  BY <1>3, <1>4 DEF LoaderInv, LoadedOf
<1> QED
  BY <1>2, <1>5 DEF LoaderInv

(* A loader that begins or has ended has nothing yet.                       *)
LEMMA FreshLoader ==
  ASSUME TypeInv, TypeInv', NEW o \in Loaders,
         files'[o] = directory'[o], step'[o] = 1, \A t \in Tables : written'[o][t] = {},
         phase'[o] = "open" \/ (phase'[o] = "idle" /\ directory'[o] = <<>>)
  PROVE  LoaderInv(o)'
<1>1. directory'[o] \in Seq(Seq(Cases)) /\ Len(directory'[o]) \in Nat
  BY DEF TypeInv
<1>2. Past(o)' = 0
  BY <1>1 DEF Past
<1>3. FilesOf(o)'
  BY <1>1, <1>2 DEF FilesOf
<1>4. \A i \in 1 .. Len(directory'[o]), j \in 1 .. 10 : ~ Loaded(o, i, j)'
  BY <1>1, <1>2 DEF Loaded
<1>5. LoadedOf(o)'
  BY <1>4 DEF LoadedOf
<1> QED
  BY <1>3, <1>5 DEF LoaderInv, PhaseOf, WrittenOf

(* The statement of a table leaves none of its rows out: each is there, or  *)
(* one with its id is inserted.                                             *)
LEMMA UpsertLoads ==
  ASSUME TypeInv, TypeInv', NEW o \in Loaders, LoaderInv(o), Upsert(o)
  PROVE  LoaderInv(o)'
<1> DEFINE file == Head(files[o])
<1> PICK t \in Tables : t = Current(o)
  BY CurrentIsTable
<1>1. /\ files[o] \in Seq(Seq(Cases)) /\ files[o] # <<>> /\ t \in Tables
      /\ directory[o] \in Seq(Seq(Cases)) /\ step[o] \in 1 .. 10
      /\ directory'[o] = directory[o] /\ phase'[o] = "open" /\ db' = db
  BY CurrentIsTable DEF TypeInv, Upsert, Inserting
<1>2. /\ Len(files[o]) \in Nat \ {0} /\ file = files[o][1]
      /\ Tail(files[o]) \in Seq(Seq(Cases)) /\ Len(Tail(files[o])) = Len(files[o]) - 1
      /\ \A i \in 1 .. Len(files[o]) - 1 : Tail(files[o])[i] = files[o][i + 1]
      /\ Len(directory[o]) \in Nat
  BY <1>1, HeadTail
<1> DEFINE past == Past(o)
           m == Len(files[o])
           n == Len(directory[o])
<1>3. /\ past \in 0 .. n - 1 /\ m \in Nat \ {0} /\ n \in Nat /\ m = n - past
      /\ \A i \in 1 .. m : files[o][i] = directory[o][past + i]
      /\ file = directory[o][past + 1]
  <2>1. past \in 0 .. n /\ \A i \in 1 .. m : files[o][i] = directory[o][past + i]
    BY DEF LoaderInv, FilesOf
  <2>2. past = n - m
    BY DEF Past
  <2> HIDE DEF past, m, n
  <2>3. m \in Nat \ {0} /\ n \in Nat /\ file = files[o][1]
    BY <1>2 DEF m, n
  <2> HIDE DEF file
  <2>4. past \in 0 .. n - 1 /\ m = n - past /\ 1 \in 1 .. m
    BY <2>1, <2>2, <2>3
  <2> QED
    BY <2>1, <2>3, <2>4
<1>4. \/ /\ step[o] < 10 /\ step'[o] = step[o] + 1 /\ files'[o] = files[o] /\ Past(o)' = past
      \/ /\ step[o] = 10 /\ step'[o] = 1 /\ files'[o] = Tail(files[o])
         /\ Past(o)' = past + 1
  <2>1. \/ step[o] < 10 /\ step' = [step EXCEPT ![o] = step[o] + 1] /\ files' = files
        \/ /\ step[o] = 10 /\ step' = [step EXCEPT ![o] = 1]
           /\ files' = [files EXCEPT ![o] = Tail(files[o])]
    BY DEF Upsert
  <2>2. \/ step[o] < 10 /\ step'[o] = step[o] + 1 /\ files'[o] = files[o]
        \/ step[o] = 10 /\ step'[o] = 1 /\ files'[o] = Tail(files[o])
    BY <2>1 DEF TypeInv
  <2>3. Past(o)' = n - Len(files'[o]) /\ past = n - m
    BY <1>1 DEF Past
  <2>4. CASE files'[o] = files[o]
    <3>1. Len(files'[o]) = m
      BY <2>4
    <3>2. Len(Tail(files[o])) = m - 1
      BY <1>2
    <3>3. Past(o)' = past
      BY <3>1, <2>3
    <3> HIDE DEF past, m, n
    <3>4. m # m - 1
      BY <1>3
    <3>5. files'[o] # Tail(files[o])
      BY <3>1, <3>2, <3>4
    <3> QED
      BY <2>2, <2>4, <3>3, <3>5
  <2>5. CASE files'[o] = Tail(files[o])
    <3>1. Len(files'[o]) = m - 1
      BY <2>5, <1>2
    <3> HIDE DEF past, m, n
    <3>2. Past(o)' = past + 1
      BY <3>1, <2>3, <1>3
    <3>3. files'[o] # files[o]
      BY <3>1, <1>3 DEF m
    <3> QED
      BY <2>2, <3>2, <3>3
  <2> QED
    BY <2>2, <2>4, <2>5
<1>5. FilesOf(o)'
  <2>1. CASE files'[o] = files[o] /\ Past(o)' = past
    BY <2>1, <1>1 DEF LoaderInv, FilesOf
  <2>2. CASE files'[o] = Tail(files[o]) /\ Past(o)' = past + 1
    <3>1. Len(files'[o]) = m - 1 /\ \A i \in 1 .. m - 1 : files'[o][i] = files[o][i + 1]
      BY <2>2, <1>2
    <3> HIDE DEF past, m, n
    <3>2. past + 1 \in 0 .. n
      BY <1>3
    <3>3. ASSUME NEW i \in 1 .. m - 1 PROVE files'[o][i] = directory[o][(past + 1) + i]
      <4>1. i + 1 \in 1 .. m /\ past + (i + 1) = (past + 1) + i
        BY <1>3
      <4> QED
        BY <3>1, <4>1, <1>3
    <3> QED
      BY <2>2, <3>1, <3>2, <3>3, <1>1 DEF FilesOf, n
  <2> QED
    BY <1>4, <2>1, <2>2
<1>6. PhaseOf(o)'
  BY <1>1 DEF PhaseOf
<1>7. /\ written'[o][t] = written[o][t] \cup Fresh(o)
      /\ \A u \in Tables : u # t => written'[o][u] = written[o][u]
  BY <1>1 DEF Upsert, TypeInv
<1>8. Values(o) = LoadRows(directory[o][past + 1])[t]
  BY <1>3 DEF Values
<1>9. WrittenOf(o)'
  <2> SUFFICES ASSUME NEW u \in Tables, NEW r \in written'[o][u]
               PROVE  \E i \in 1 .. Len(directory[o]) : r.id \in Ids(LoadRows(directory[o][i])[u])
    BY <1>1 DEF WrittenOf
  <2>1. CASE r \in written[o][u]
    BY <2>1 DEF LoaderInv, WrittenOf
  <2>2. CASE u = t /\ r \in Fresh(o)
    <3>1. r.id \in Ids(LoadRows(directory[o][past + 1])[u])
      BY <2>2, <1>8, FreshAre DEF Ids
    <3>2. past + 1 \in 1 .. Len(directory[o])
      <4> HIDE DEF past, m
      <4> QED
        BY <1>3
    <3> QED
      BY <3>1, <3>2
  <2> QED
    BY <2>1, <2>2, <1>7
<1>10. Ids(Values(o)) \subseteq Ids(Sees(o, t))'
  <2> SUFFICES ASSUME NEW r \in Values(o) PROVE \E s \in Sees(o, t)' : s.id = r.id
    BY DEF Ids
  <2>1. CASE r \in New(o)
    <3>1. PICK s \in Fresh(o) : s.id = r.id
      BY <2>1, FreshAre
    <3>2. s \in Sees(o, t)'
      <4>1. s \in written'[o][t]
        BY <1>7
      <4> QED
        BY <4>1 DEF Sees
    <3> QED
      BY <3>1, <3>2
  <2>2. CASE r \notin New(o)
    <3>1. PICK s \in Sees(o, t) : s.id = r.id
      BY <2>2 DEF New
    <3>2. s \in db[t] \/ s \in written[o][t]
      BY <3>1 DEF Sees
    <3>3. s \in db'[t] \/ s \in written'[o][t]
      BY <3>2, <1>1, <1>7
    <3>4. s \in Sees(o, t)'
      <4> QED
        BY <3>3 DEF Sees
    <3> QED
      BY <3>1, <3>4
  <2> QED
    BY <2>1, <2>2
<1>14. \A r \in Values(o) : Typed(t, r)
  BY DEF Upsert, Accepted
<1>11. \A u \in Tables : Ids(Sees(o, u)) \subseteq Ids(Sees(o, u))'
  BY <1>1, <1>7 DEF Ids, Sees
<1>12. \A i \in 1 .. Len(directory[o]), j \in 1 .. 10 :
         Loaded(o, i, j)' => Loaded(o, i, j) \/ (i = past + 1 /\ j = step[o])
  <2> SUFFICES ASSUME NEW i \in 1 .. n, NEW j \in 1 .. 10, Loaded(o, i, j)'
               PROVE  Loaded(o, i, j) \/ (i = past + 1 /\ j = step[o])
    OBVIOUS
  <2>1. i <= Past(o)' \/ (i = Past(o)' + 1 /\ j < step'[o])
    BY DEF Loaded
  <2>2. Loaded(o, i, j) <=> i <= past \/ (i = past + 1 /\ j < step[o])
    BY DEF Loaded
  <2> HIDE DEF past, m, n
  <2>3. i \in Nat /\ j \in 1 .. 10 /\ past \in Nat /\ step[o] \in 1 .. 10
    BY <1>1, <1>3
  <2> QED
    BY <1>4, <2>1, <2>2, <2>3
<1>13. LoadedOf(o)'
  <2> SUFFICES ASSUME NEW i \in 1 .. Len(directory[o]), NEW j \in 1 .. 10, Loaded(o, i, j)'
               PROVE  /\ Ids(LoadRows(directory[o][i])[TABLE_ORDER[j]])
                           \subseteq Ids(Sees(o, TABLE_ORDER[j]))'
                      /\ \A r \in LoadRows(directory[o][i])[TABLE_ORDER[j]] :
                           Typed(TABLE_ORDER[j], r)
    BY <1>1 DEF LoadedOf, Typed
  <2>1. TABLE_ORDER[j] \in Tables
    BY DEF Tables
  <2>2. CASE Loaded(o, i, j)
    BY <2>1, <2>2, <1>11 DEF LoaderInv, LoadedOf
  <2>3. CASE i = past + 1 /\ j = step[o]
    <3>1. TABLE_ORDER[j] = t
      BY <2>3 DEF Current
    <3>2. LoadRows(directory[o][i])[t] = Values(o)
      BY <2>3, <1>8
    <3>3. Sees(o, TABLE_ORDER[j])' = Sees(o, t)'
      <4> QED
        BY <3>1 DEF Sees
    <3> QED
      BY <3>1, <3>2, <3>3, <1>10, <1>14
  <2> QED
    BY <2>2, <2>3, <1>12
<1> QED
  BY <1>5, <1>6, <1>9, <1>13 DEF LoaderInv

-----------------------------------------------------------------------------
(* "Done." means loaded                                                     *)

LEMMA SameIds ==
  ASSUME NEW t, NEW rows, NEW documents
  PROVE  {r.id : r \in rows} = (UNION {{r.id : r \in RowsOf[c][t]} : c \in documents})
         <=> \A x : x \in Ids(rows) <=> \E c \in documents : x \in Ids(RowsOf[c][t])
<1> DEFINE A == {r.id : r \in rows}
           B(c) == {r.id : r \in RowsOf[c][t]}
<1>1. Ids(rows) = A /\ \A c : Ids(RowsOf[c][t]) = B(c)
  BY DEF Ids
<1>2. \A x : x \in UNION {B(c) : c \in documents} <=> \E c \in documents : x \in B(c)
  OBVIOUS
<1> HIDE DEF A, B
<1>3. A = (UNION {B(c) : c \in documents})
      <=> \A x : x \in A <=> \E c \in documents : x \in B(c)
  BY <1>2
<1>4. A = (UNION {B(c) : c \in documents})
      <=> \A x : x \in Ids(rows) <=> \E c \in documents : x \in Ids(RowsOf[c][t])
  BY <1>1, <1>3
<1> QED
  BY <1>4 DEF A, B

(* At the commit the transaction has a row of every id of its directory,    *)
(* its own or a committed one, and no other row.                            *)
LEMMA CommitLoads ==
  ASSUME LoadInv, NEW o \in Loaders, Commit(o)
  PROVE  DoneMeansLoaded' /\ TypedInv'
<1>1. /\ FilesOf(o) /\ LoadedOf(o) /\ WrittenOf(o) /\ TypeInv
      /\ directory[o] \in Seq(Seq(Cases)) /\ files[o] = <<>>
  BY ByLoader DEF LoadInv, LoaderInv, TypeInv, Commit
<1>2. Past(o) = Len(directory[o]) /\ Len(directory[o]) \in Nat
  BY <1>1 DEF Past
<1>3. /\ \A t \in Tables : db'[t] = db[t] \cup written[o][t]
      /\ \A c : c \in committed' <=>
           c \in committed \/ \E i \in 1 .. Len(directory[o]) : c \in CasesIn(directory[o][i])
  BY <1>1, DirectoryCases DEF Commit
<1>4. \A i \in 1 .. Len(directory[o]) : directory[o][i] \in Seq(Cases)
  BY <1>1
<1>5. ASSUME NEW t \in Tables, NEW i \in 1 .. Len(directory[o])
      PROVE  Ids(LoadRows(directory[o][i])[t]) \subseteq Ids(Sees(o, t))
  <2>1. PICK j \in 1 .. 10 : t = TABLE_ORDER[j]
    BY DEF Tables
  <2>2. Loaded(o, i, j)
    BY <1>2 DEF Loaded
  <2> QED
    BY <1>1, <2>1, <2>2 DEF LoadedOf
<1>6. ASSUME NEW t \in Tables, NEW x
      PROVE  x \in Ids(Sees(o, t)) <=>
               x \in Ids(db[t])
               \/ \E i \in 1 .. Len(directory[o]) : x \in Ids(LoadRows(directory[o][i])[t])
  <2>1. x \in Ids(Sees(o, t)) <=> x \in Ids(db[t]) \/ x \in Ids(written[o][t])
    BY DEF Ids, Sees
  <2>2. ASSUME x \in Ids(written[o][t])
        PROVE  \E i \in 1 .. Len(directory[o]) : x \in Ids(LoadRows(directory[o][i])[t])
    BY <1>1, <2>2 DEF WrittenOf, Ids
  <2> QED
    BY <2>1, <2>2, <1>5
<1>7. ASSUME NEW t \in Tables, NEW i \in 1 .. Len(directory[o]), NEW x
      PROVE  x \in Ids(LoadRows(directory[o][i])[t]) <=>
               \E c \in CasesIn(directory[o][i]) : x \in Ids(RowsOf[c][t])
  BY <1>4, LoadedRows DEF Ids
<1>8. \A t \in Tables : \A x : x \in Ids(db[t]) <=> \E c \in committed : x \in Ids(RowsOf[c][t])
  <2>1. \A t \in Tables :
          {r.id : r \in db[t]} = (UNION {{r.id : r \in RowsOf[c][t]} : c \in committed})
    BY DEF LoadInv, DoneMeansLoaded
  <2>2. ASSUME NEW t \in Tables
        PROVE  \A x : x \in Ids(db[t]) <=> \E c \in committed : x \in Ids(RowsOf[c][t])
    <3>1. {r.id : r \in db[t]} = (UNION {{r.id : r \in RowsOf[c][t]} : c \in committed})
      BY <2>1
    <3> SUFFICES ASSUME NEW x
                 PROVE  x \in Ids(db[t]) <=> \E c \in committed : x \in Ids(RowsOf[c][t])
      OBVIOUS
    <3>2. x \in Ids(db[t]) <=> x \in UNION {{r.id : r \in RowsOf[c][t]} : c \in committed}
      BY ONLY <3>1 DEF Ids
    <3>3. x \in UNION {{r.id : r \in RowsOf[c][t]} : c \in committed}
          <=> \E c \in committed : x \in {r.id : r \in RowsOf[c][t]}
      BY ONLY Zenon
    <3> QED
      BY ONLY <3>2, <3>3 DEF Ids
  <2> QED
    BY <2>2
<1>9. \A t \in Tables : Ids(db'[t]) = Ids(Sees(o, t))
  BY <1>3 DEF Sees
<1>10. ASSUME NEW t \in Tables, NEW x
       PROVE  x \in Ids(db'[t]) <=> \E c \in committed' : x \in Ids(RowsOf[c][t])
  BY <1>3, <1>6, <1>7, <1>8, <1>9
<1>11. DoneMeansLoaded'
  <2>1. done' \subseteq committed'
    BY DEF LoadInv, DoneMeansLoaded, Commit
  <2> QED
    BY <1>10, <2>1, SameIds DEF DoneMeansLoaded
<1>12. ASSUME NEW c \in committed', NEW t \in Tables, NEW r \in RowsOf[c][t] PROVE Typed(t, r)
  <2>1. CASE c \in committed
    BY <2>1 DEF LoadInv, TypedInv
  <2>2. CASE c \notin committed
    <3>1. PICK i \in 1 .. Len(directory[o]) : c \in CasesIn(directory[o][i])
      BY <2>2, <1>3
    <3>2. r \in LoadRows(directory[o][i])[t]
      BY <3>1, <1>4, LoadedRows
    <3>3. PICK j \in 1 .. 10 : t = TABLE_ORDER[j]
      BY DEF Tables
    <3>4. Loaded(o, i, j)
      BY <1>2 DEF Loaded
    <3> QED
      BY <1>1, <3>2, <3>3, <3>4 DEF LoadedOf
  <2> QED
    BY <2>1, <2>2
<1> QED
  BY <1>11, <1>12 DEF TypedInv, Typed

(* What its own rows were is committed now.                                 *)
LEMMA CommitKeeps ==
  ASSUME NEW o \in Loaders, LoaderInv(o), TypeInv, Commit(o)
  PROVE  LoaderInv(o)'
<1>1. /\ phase'[o] = "committed" /\ files'[o] = files[o] /\ step'[o] = step[o]
      /\ directory'[o] = directory[o] /\ \A t \in Tables : written'[o][t] = {}
      /\ DocumentsOf(directory[o]) \subseteq committed'
      /\ \A t \in Tables : db'[t] = db[t] \cup written[o][t]
  BY DEF Commit, TypeInv, NoRows
<1>2. Past(o)' = Past(o)
  BY <1>1 DEF Past
<1>3. FilesOf(o)' /\ PhaseOf(o)' /\ WrittenOf(o)'
  BY <1>1, <1>2 DEF LoaderInv, FilesOf, PhaseOf, WrittenOf, DocumentsOf
<1>4. \A j \in 1 .. 10 : Ids(Sees(o, TABLE_ORDER[j])) \subseteq Ids(Sees(o, TABLE_ORDER[j]))'
  BY <1>1 DEF Ids, Sees, Tables
<1>5. \A i, j : Loaded(o, i, j)' <=> Loaded(o, i, j)
  BY <1>1, <1>2 DEF Loaded
<1>6. LoadedOf(o)'
  BY <1>1, <1>4, <1>5 DEF LoaderInv, LoadedOf, Typed
<1> QED
  BY <1>3, <1>6 DEF LoaderInv

LEMMA InitLoads == Init => LoadInv
<1> SUFFICES ASSUME Init PROVE LoadInv
  OBVIOUS
<1>1. TypeInv
  BY InitTypes
<1>2. FilesInv /\ PhaseInv /\ LoadedInv /\ WrittenInv
  BY DEF Init, NoRows, FilesInv, PhaseInv, LoadedInv, WrittenInv, Past
<1>3. DoneMeansLoaded /\ TypedInv
  BY DEF Init, NoRows, DoneMeansLoaded, TypedInv
<1> QED
  BY <1>1, <1>2, <1>3 DEF LoadInv

LEMMA NextLoads ==
  ASSUME LoadInv, [Next]_vars
  PROVE  LoadInv'
<1>1. TypeInv /\ TypeInv' /\ \A o \in Loaders : LoaderInv(o)
  BY NextTypes, ByLoader DEF LoadInv
<1>2. ASSUME \A o \in Loaders : LoaderInv(o)' PROVE FilesInv' /\ PhaseInv' /\ LoadedInv' /\ WrittenInv'
  BY <1>2 DEF FilesInv, PhaseInv, LoadedInv, WrittenInv, LoaderInv, FilesOf, PhaseOf, LoadedOf,
              WrittenOf
<1>3. ASSUME UNCHANGED <<db, committed>>, done' \subseteq committed
      PROVE  DoneMeansLoaded' /\ TypedInv'
  BY <1>3 DEF LoadInv, DoneMeansLoaded, TypedInv, Typed
<1>13. done \subseteq committed
  BY DEF LoadInv, DoneMeansLoaded
<1>4. ASSUME NEW o \in Loaders, NEW p \in Loaders, o # p,
             UNCHANGED <<phase[p], files[p], step[p], written[p], directory[p]>>,
             committed \subseteq committed', \A t \in Tables : db[t] \subseteq db'[t]
      PROVE  LoaderInv(p)'
  BY <1>1, <1>4, OtherLoaderKeeps
<1>5. ASSUME NEW o \in Loaders, Start(o) PROVE LoadInv'
  <2>1. LoaderInv(o)'
    <3>1. step[o] = 1 /\ directory[o] = <<>> /\ WrittenOf(o)
      BY <1>1, <1>5 DEF Start, LoaderInv, PhaseOf
    <3>2. \A t \in Tables : written[o][t] = {}
      BY <3>1 DEF WrittenOf
    <3>3. /\ files'[o] = directory'[o] /\ phase'[o] = "open" /\ step'[o] = 1
          /\ \A t \in Tables : written'[o][t] = {}
      BY <1>1, <1>5, <3>1, <3>2 DEF Start, TypeInv
    <3> QED
      BY <1>1, <3>3, FreshLoader
  <2>2. \A p \in Loaders : p # o =>
          UNCHANGED <<phase[p], files[p], step[p], written[p], directory[p]>>
    BY <1>1, <1>5 DEF Start, TypeInv
  <2>3. UNCHANGED <<db, committed, done>>
    BY <1>5 DEF Start
  <2> QED
    BY <1>1, <1>2, <1>3, <1>4, <1>13, <2>1, <2>2, <2>3 DEF LoadInv
<1>6. ASSUME NEW o \in Loaders, Upsert(o) PROVE LoadInv'
  <2>1. LoaderInv(o)'
    BY <1>1, <1>6, UpsertLoads
  <2>2. \A p \in Loaders : p # o =>
          UNCHANGED <<phase[p], files[p], step[p], written[p], directory[p]>>
    BY <1>1, <1>6 DEF Upsert, TypeInv
  <2>3. UNCHANGED <<db, committed, done>>
    BY <1>6 DEF Upsert
  <2> QED
    BY <1>1, <1>2, <1>3, <1>4, <1>13, <2>1, <2>2, <2>3 DEF LoadInv
<1>7. ASSUME NEW o \in Loaders, Close(o), UNCHANGED <<db, committed>>
      PROVE  \A p \in Loaders : LoaderInv(p)'
  <2>1. /\ files'[o] = <<>> /\ directory'[o] = <<>> /\ step'[o] = 1 /\ phase'[o] = "idle"
        /\ \A t \in Tables : written'[o][t] = {}
    BY <1>1, <1>7 DEF Close, TypeInv, NoRows
  <2>2. LoaderInv(o)'
    BY <1>1, <2>1, FreshLoader
  <2>3. \A p \in Loaders : p # o =>
          UNCHANGED <<phase[p], files[p], step[p], written[p], directory[p]>>
    BY <1>1, <1>7 DEF Close, TypeInv
  <2> QED
    BY <1>4, <1>7, <2>2, <2>3
<1>8. ASSUME NEW o \in Loaders, Commit(o) PROVE LoadInv'
  <2>1. /\ \A t \in Tables : db[t] \subseteq db'[t] /\ db'[t] = db[t] \cup written[o][t]
        /\ committed \subseteq committed' /\ DocumentsOf(directory[o]) \subseteq committed'
    BY <1>8 DEF Commit
  <2>2. \A p \in Loaders : p # o =>
          UNCHANGED <<phase[p], files[p], step[p], written[p], directory[p]>>
    BY <1>1, <1>8 DEF Commit, TypeInv
  <2>3. \A p \in Loaders : p # o => LoaderInv(p)'
    BY <1>4, <1>8, <2>1, <2>2
  <2>4. LoaderInv(o)'
    BY <1>1, <1>8, <2>1, CommitKeeps
  <2> QED
    BY <1>1, <1>2, <1>8, <2>3, <2>4, CommitLoads DEF LoadInv
<1>9. ASSUME NEW o \in Loaders, Abandon(o) PROVE LoadInv'
  <2>1. UNCHANGED <<db, committed, done>> /\ Close(o)
    BY <1>9 DEF Abandon
  <2>2. \A p \in Loaders : LoaderInv(p)'
    BY <1>7, <2>1
  <2> QED
    BY <1>1, <1>2, <1>3, <1>13, <2>1, <2>2 DEF LoadInv
<1>14. ASSUME NEW o \in Loaders, Report(o) PROVE LoadInv'
  <2>1. UNCHANGED <<db, committed>> /\ Close(o)
    BY <1>14 DEF Report
  <2>2. \A p \in Loaders : LoaderInv(p)'
    BY <1>7, <2>1
  <2>3. done' \subseteq committed
    BY <1>1, <1>13, <1>14 DEF Report, LoaderInv, PhaseOf
  <2> QED
    BY <1>1, <1>2, <1>3, <2>1, <2>2, <2>3 DEF LoadInv
<1>10. ASSUME UNCHANGED <<db, loaderVars, committed, done>> PROVE LoadInv'
  <2>1. \A p \in Loaders : LoaderInv(p)'
    BY <1>1, <1>10, OtherLoaderKeeps DEF loaderVars
  <2> QED
    BY <1>1, <1>2, <1>3, <1>10, <1>13, <2>1 DEF LoadInv
<1>11. ASSUME NEW t \in Tables, NEW r \in db[t], Deactivate(t, r) PROVE LoadInv'
  BY <1>10, <1>11 DEF Deactivate
<1>12. CASE UNCHANGED vars
  BY <1>10, <1>12 DEF vars, loaderVars
<1> QED
  BY <1>5, <1>6, <1>8, <1>9, <1>11, <1>12, <1>14 DEF Next, Refused, Die

(* The schema holds every record of the documents of each load that         *)
(* committed, whether or not it lived to say "Done.", and no record of one  *)
(* that was refused, died before its commit or was ended in a deadlock,     *)
(* whatever other loaders did at the time; what said "Done." has committed. *)
THEOREM DoneIsLoaded == Spec => []DoneMeansLoaded
<1>1. LoadInv => DoneMeansLoaded
  BY DEF LoadInv
<1> QED
  BY <1>1, InitLoads, NextLoads, PTL DEF Spec

(* Whoever loads committed documents again, after a lost "Done." or beside  *)
(* the load that commits them, is refused at no statement, waits for nobody *)
(* and inserts nothing.                                                     *)
THEOREM RerunChangesNothing == Spec => []RerunIsIdempotent
<1>1. ASSUME LoadInv PROVE RerunIsIdempotent
  <2> SUFFICES ASSUME NEW o \in Loaders, Inserting(o), DocumentsOf(directory[o]) \subseteq committed
               PROVE  Accepted(o) /\ ~ Waiting(o) /\ Fresh(o) = {}
    BY DEF RerunIsIdempotent
  <2>1. TypeInv /\ FilesOf(o) /\ Current(o) \in Tables
    BY <1>1, ByLoader, CurrentIsTable DEF LoadInv, LoaderInv
  <2> DEFINE t == Current(o)
             file == Head(files[o])
  <2>2. PICK i \in 1 .. Len(directory[o]) : file = directory[o][i]
    <3>1. files[o] \in Seq(Seq(Cases)) /\ files[o] # <<>> /\ directory[o] \in Seq(Seq(Cases))
      BY <2>1 DEF TypeInv, Inserting
    <3>2. Len(files[o]) \in Nat \ {0} /\ file = files[o][1] /\ Len(directory[o]) \in Nat
      BY <3>1, HeadTail
    <3>3. file = directory[o][Past(o) + 1]
      BY <2>1, <3>2 DEF FilesOf
    <3>4. Past(o) + 1 \in 1 .. Len(directory[o])
      <4>1. Past(o) = Len(directory[o]) - Len(files[o]) /\ Past(o) \in 0 .. Len(directory[o])
        BY <2>1 DEF FilesOf, Past
      <4> DEFINE past == Past(o)
                 m == Len(files[o])
                 n == Len(directory[o])
      <4>2. m \in Nat \ {0} /\ n \in Nat /\ past = n - m /\ past \in 0 .. n
        BY <3>2, <4>1
      <4> HIDE DEF past, m, n
      <4>3. past + 1 \in 1 .. n
        BY <4>2
      <4> QED
        BY <4>3 DEF past, n
    <3> QED
      BY <3>3, <3>4
  <2>3. CasesIn(file) \subseteq committed
    BY <2>1, <2>2, DirectoryCases
  <2>4. \A r \in Values(o) : \E c \in committed : r \in RowsOf[c][t]
    <3>1. file \in Seq(Cases)
      BY <2>1, ValuesAre
    <3> QED
      BY <2>1, <2>3, <3>1, LoadedRows DEF Values
  <2>5. \A r \in Values(o) : Typed(t, r)
    BY <1>1, <2>1, <2>4 DEF LoadInv, TypedInv
  <2>6. ASSUME NEW r \in Values(o) PROVE \E s \in Sees(o, t) : s.id = r.id
    <3>1. PICK c \in committed : r \in RowsOf[c][t]
      BY <2>4
    <3>2. r.id \in UNION {{x.id : x \in RowsOf[d][t]} : d \in committed}
      BY <3>1
    <3>3. r.id \in {x.id : x \in db[t]}
      BY <1>1, <2>1, <3>2 DEF LoadInv, DoneMeansLoaded
    <3> QED
      BY <3>3 DEF Sees
  <2>7. Fresh(o) = {}
    <3>1. New(o) = {}
      BY <2>6 DEF New
    <3> QED
      BY <3>1, FreshAre
  <2> QED
    BY <2>5, <2>7 DEF Accepted, UniqueKeys, Waiting, Waits
<1> QED
  BY <1>1, InitLoads, NextLoads, PTL DEF Spec

-----------------------------------------------------------------------------
(* The rows of a document and their case                                    *)

CaseRef == [column |-> "case_record_id", to |-> "case_record", required |-> TRUE]

(* An address comes from a party of the document, a disposition from one of *)
(* its charge dispositions.                                                 *)
LEMMA AddressRow ==
  ASSUME NEW c \in Cases, NEW r \in RowsOf[c]["address_detail"]
  PROVE  \E p \in c.parties : \E x \in p.addresses :
           /\ r.id = Remap(IdsOf(c), x.id) /\ r.case_record_id = Remap(IdsOf(c), c.id)
           /\ r.party_detail_id = Remap(IdsOf(c), x.party_detail_id)
<1> DEFINE Id(v) == Remap(IdsOf(c), v)
           Row(x) == [id |-> Id(x.id), case_record_id |-> Id(c.id),
                      party_detail_id |-> Id(x.party_detail_id), is_default |-> x.is_default]
<1>1. RowsOf[c]["address_detail"] = UNION {{Row(x) : x \in p.addresses} : p \in c.parties}
  BY RowsAre
<1>2. \A x : /\ Row(x).id = Id(x.id) /\ Row(x).case_record_id = Id(c.id)
            /\ Row(x).party_detail_id = Id(x.party_detail_id)
  OBVIOUS
<1> HIDE DEF Row
<1>3. PICK p \in c.parties : r \in {Row(x) : x \in p.addresses}
  BY <1>1
<1>4. PICK x \in p.addresses : r = Row(x)
  BY <1>3
<1> QED
  BY <1>2, <1>4

LEMMA DispositionRow ==
  ASSUME NEW c \in Cases, NEW r \in RowsOf[c]["imposed_disposition"]
  PROVE  \E d \in c.charge_dispositions : \E x \in d.imposed_disposition :
           /\ r.id = Remap(IdsOf(c), x.id)
           /\ r.case_record_id = Remap(IdsOf(c), d.case_record_id)
           /\ r.case_charge_id = Remap(IdsOf(c), d.id)
<1> DEFINE Id(v) == Remap(IdsOf(c), v)
           Row(x, d) == [id |-> Id(x.id), case_record_id |-> Id(d.case_record_id),
                         case_charge_id |-> Id(d.id)]
<1>1. RowsOf[c]["imposed_disposition"] =
        UNION {{Row(x, d) : x \in d.imposed_disposition} : d \in c.charge_dispositions}
  BY RowsAre
<1>2. \A x, d : /\ Row(x, d).id = Id(x.id) /\ Row(x, d).case_record_id = Id(d.case_record_id)
               /\ Row(x, d).case_charge_id = Id(d.id)
  OBVIOUS
<1> HIDE DEF Row
<1>3. PICK d \in c.charge_dispositions : r \in {Row(x, d) : x \in d.imposed_disposition}
  BY <1>1
<1>4. PICK x \in d.imposed_disposition : r = Row(x, d)
  BY <1>3
<1> QED
  BY <1>2, <1>4

LEMMA RowIds ==
  ASSUME NEW c \in Cases, NEW t \in Tables, NEW r \in RowsOf[c][t]
  PROVE  r.id \in UuidsOf(c)
<1> DEFINE Id(v) == Remap(IdsOf(c), v)
<1>1. CASE t = "case_record"
  BY <1>1, RowsAre, CaseKept
<1>2. CASE t = "criminal"
  <2>1. PICK x \in c.criminal : r.id = Id(x.id)
    BY <1>2, RowsAre
  <2> QED BY <2>1, RecordsKept
<1>3. CASE t = "vehicle_detail"
  <2>1. PICK x \in c.vehicles : r.id = Id(x.id)
    BY <1>3, RowsAre
  <2> QED BY <2>1, RecordsKept
<1>4. CASE t = "party_detail"
  <2>1. PICK x \in c.parties : r.id = Id(x.id)
    BY <1>4, RowsAre
  <2> QED BY <2>1, RecordsKept
<1>5. CASE t = "case_charge"
  <2>1. PICK x \in c.charges \cup c.charge_dispositions : r.id = Id(x.id)
    BY <1>5, RowsAre
  <2> QED BY <2>1, RecordsKept
<1>6. CASE t = "case_appearance"
  <2>1. PICK x \in c.hearings : r.id = Id(x.id)
    BY <1>6, RowsAre
  <2> QED BY <2>1, RecordsKept
<1>7. CASE t = "payment_record"
  <2>1. PICK x \in c.payments : r.id = Id(x.id)
    BY <1>7, RowsAre
  <2> QED BY <2>1, RecordsKept
<1>8. CASE t = "address_detail"
  <2>1. PICK p \in c.parties : \E x \in p.addresses : r.id = Id(x.id)
    BY <1>8, AddressRow
  <2> QED BY <2>1, RecordsKept
<1>9. CASE t = "imposed_sanction"
  <2>1. PICK x \in c.sanctions : r.id = Id(x.id)
    BY <1>9, RowsAre
  <2> QED BY <2>1, RecordsKept
<1>10. CASE t = "imposed_disposition"
  <2>1. PICK d \in c.charge_dispositions : \E x \in d.imposed_disposition : r.id = Id(x.id)
    BY <1>10, DispositionRow
  <2> QED BY <2>1, RecordsKept
<1> QED
  BY TablesAre, <1>1, <1>2, <1>3, <1>4, <1>5, <1>6, <1>7, <1>8, <1>9, <1>10

(* A row either has its case from the loader, or a reference to one that    *)
(* Postgres checks; the other references that Postgres takes are of the     *)
(* document.                                                                *)
LEMMA RowReferences ==
  ASSUME NEW c \in Cases, NEW t \in Tables, NEW r \in RowsOf[c][t],
         \A ref \in Model[t].refs : r[ref.column] \in Uuids \/ (r[ref.column] = Null /\ ~ ref.required)
  PROVE  /\ \A ref \in Model[t].refs : r[ref.column] = Null \/ r[ref.column] \in UuidsOf(c)
         /\ CaseOf(t, r) = c.uuid \/ (CaseRef \in Model[t].refs /\ t # "case_record")
<1> DEFINE Id(v) == Remap(IdsOf(c), v)
<1>1. \A v \in References(c) : Id(v) \in Uuids => Id(v) \in UuidsOf(c)
  BY ReferenceStays
<1>2. Id(c.id) = c.uuid /\ c.uuid \in UuidsOf(c)
  BY CaseKept
<1> HIDE DEF Id
<1>3. CASE t = "case_record"
  BY <1>2, <1>3, RowsAre, ModelsAre, RefsAre DEF CaseOf, Id
<1>4. CASE t \in {"criminal", "vehicle_detail", "party_detail"}
  <2>1. PICK x \in c.criminal \cup c.vehicles \cup c.parties : r.case_record_id = Id(x.case_record_id)
    BY <1>4, RowsAre DEF Id
  <2>2. Model[t].refs = {CaseRef}
    BY <1>4, ModelsAre, RefsAre DEF CaseRef
  <2>3. x.case_record_id \in References(c)
    BY <2>1 DEF References
  <2> QED
    BY <1>1, <1>4, <2>1, <2>2, <2>3 DEF CaseRef
<1>5. CASE t = "case_charge"
  <2>1. r.case_record_id = c.uuid
    BY <1>2, <1>5, RowsAre DEF Id
  <2>2. Model[t].refs = {CaseRef}
    BY <1>5, ModelsAre, RefsAre DEF CaseRef
  <2> QED
    BY <1>2, <1>5, <2>1, <2>2 DEF CaseOf, CaseRef
<1>6. CASE t = "payment_record"
  <2>1. r.case_record_id = c.uuid
    BY <1>2, <1>6, RowsAre DEF Id
  <2>2. \A ref \in Model[t].refs : ref.column = "case_record_id"
    BY <1>6, ModelsAre, RefsAre
  <2> QED
    BY <1>2, <1>6, <2>1, <2>2 DEF CaseOf
<1>7. CASE t = "case_appearance"
  <2>1. PICK x \in c.hearings :
          /\ r.case_record_id = Id(x.case_record_id)
          /\ r.legal_representative_id = Id(x.legal_representative_id)
          /\ r.next_case_appearance_id = Id(x.next_case_appearance_id)
    BY <1>7, RowsAre DEF Id
  <2>2. /\ CaseRef \in Model[t].refs
        /\ \A ref \in Model[t].refs :
             ref.column \in {"case_record_id", "legal_representative_id", "next_case_appearance_id"}
    BY <1>7, ModelsAre, RefsAre DEF CaseRef
  <2>3. /\ x.case_record_id \in References(c) /\ x.legal_representative_id \in References(c)
        /\ x.next_case_appearance_id \in References(c)
    BY <2>1 DEF References
  <2> QED
    BY <1>1, <1>7, <2>1, <2>2, <2>3
<1>8. CASE t = "address_detail"
  <2>1. PICK p \in c.parties : \E x \in p.addresses :
          r.case_record_id = c.uuid /\ r.party_detail_id = Id(x.party_detail_id)
    BY <1>2, <1>8, AddressRow DEF Id
  <2>2. PICK x \in p.addresses :
          r.case_record_id = c.uuid /\ r.party_detail_id = Id(x.party_detail_id)
    BY <2>1
  <2>3. \A ref \in Model[t].refs : ref.column \in {"case_record_id", "party_detail_id"}
    BY <1>8, ModelsAre, RefsAre
  <2>4. x.party_detail_id \in References(c)
    BY <2>2 DEF References
  <2> QED
    BY <1>1, <1>2, <1>8, <2>2, <2>3, <2>4 DEF CaseOf
<1>9. CASE t = "imposed_sanction"
  <2>1. PICK x \in c.sanctions :
          r.case_record_id = Id(x.case_record_id) /\ r.case_charge_id = Id(x.case_charge_id)
    BY <1>9, RowsAre DEF Id
  <2>2. /\ CaseRef \in Model[t].refs
        /\ \A ref \in Model[t].refs : ref.column \in {"case_record_id", "case_charge_id"}
    BY <1>9, ModelsAre, RefsAre DEF CaseRef
  <2>3. x.case_record_id \in References(c) /\ x.case_charge_id \in References(c)
    BY <2>1 DEF References
  <2> QED
    BY <1>1, <1>9, <2>1, <2>2, <2>3
<1>10. CASE t = "imposed_disposition"
  <2>1. PICK d \in c.charge_dispositions :
          r.case_record_id = Id(d.case_record_id) /\ r.case_charge_id = Id(d.id)
    BY <1>10, DispositionRow DEF Id
  <2>2. /\ CaseRef \in Model[t].refs
        /\ \A ref \in Model[t].refs : ref.column \in {"case_record_id", "case_charge_id"}
    BY <1>10, ModelsAre, RefsAre DEF CaseRef
  <2>3. d.case_record_id \in References(c) /\ Id(d.id) \in UuidsOf(c)
    <3>1. d.case_record_id \in References(c)
      BY <2>1 DEF References
    <3>2. Id(d.id) \in UuidsOf(c)
      BY <2>1, RecordsKept DEF Id
    <3> QED BY <3>1, <3>2
  <2> QED
    BY <1>1, <1>10, <2>1, <2>2, <2>3
<1> QED
  BY TablesAre, <1>3, <1>4, <1>5, <1>6, <1>7, <1>8, <1>9, <1>10

(* A row whose references Postgres has checked belongs to its document's    *)
(* case: the case row it found has that very UUID.                          *)
LEMMA FreshBelongs ==
  ASSUME TypeInv, RowsInv, NEW o \in Loaders, Upsert(o), NEW r \in Fresh(o)
  PROVE  Belongs(Current(o), r)
<1> DEFINE t == Current(o)
<1>1. Inserting(o) /\ RefersWell(o, r) /\ t \in Tables
  BY CurrentIsTable DEF Upsert, Accepted
<1>2. PICK c \in Cases : r \in RowsOf[c][t]
  BY <1>1, FreshAre, ValuesAre
<1>3. \A ref \in Model[t].refs :
        \/ r[ref.column] = Null /\ ~ ref.required
        \/ /\ r[ref.column] \in Uuids
           /\ \E s \in Sees(o, ref.to) \cup (IF ref.to = t THEN Fresh(o) ELSE {}) :
                s.id = r[ref.column]
  BY <1>1 DEF RefersWell
<1> HIDE DEF t
<1>4. /\ \A ref \in Model[t].refs : r[ref.column] = Null \/ r[ref.column] \in UuidsOf(c)
      /\ CaseOf(t, r) = c.uuid \/ (CaseRef \in Model[t].refs /\ t # "case_record")
  BY <1>1, <1>2, <1>3, RowReferences
<1>5. CaseOf(t, r) = c.uuid
  <2> SUFFICES ASSUME CaseRef \in Model[t].refs, t # "case_record" PROVE CaseOf(t, r) = c.uuid
    BY <1>4
  <2>1. /\ CaseRef.column = "case_record_id" /\ CaseRef.to = "case_record" /\ CaseRef.required
    BY DEF CaseRef
  <2>2. /\ r.case_record_id \in Uuids
        /\ \E s \in Sees(o, "case_record") : s.id = r.case_record_id
    BY <1>3, <2>1
  <2>3. PICK s \in Sees(o, "case_record") : s.id = r.case_record_id
    BY <2>2
  <2>4. "case_record" \in Tables /\ s \in AllRows("case_record")
    BY TablesAre DEF Sees, AllRows
  <2>5. PICK e \in Cases : s.id = e.uuid
    BY <2>4 DEF RowsInv, Belongs, CaseOf
  <2>6. e.uuid \in UuidsOf(e) /\ e.uuid \in UuidsOf(c)
    <3>1. r.case_record_id # Null
      BY <2>2, DocumentsAssumption
    <3> QED
      BY <1>4, <2>1, <2>3, <2>5, <3>1, CaseKept
  <2>7. c.uuid = e.uuid
    BY <2>6, DocumentsAssumption
  <2> QED
    BY <2>3, <2>5, <2>7 DEF CaseOf
<1> QED
  BY <1>2, <1>4, <1>5 DEF Belongs, t

-----------------------------------------------------------------------------
(* Rows of several loaders                                                  *)

(* Only a statement adds rows; all it adds is Fresh.                        *)
LEMMA RowsAfter ==
  ASSUME TypeInv, [Next]_vars
  PROVE  \/ \A t \in Tables : AllRows(t)' \subseteq AllRows(t)
         \/ \E o \in Loaders :
              /\ Upsert(o)
              /\ \A t \in Tables : \A r \in AllRows(t)' :
                   r \in AllRows(t) \/ (t = Current(o) /\ r \in Fresh(o))
<1>1. ASSUME UNCHANGED <<db, written>>
      PROVE  \A t \in Tables : AllRows(t)' \subseteq AllRows(t)
  BY <1>1 DEF AllRows
<1>2. ASSUME NEW o \in Loaders, written' = [written EXCEPT ![o] = NoRows], NEW t \in Tables,
             db'[t] \subseteq db[t] \cup written[o][t]
      PROVE  AllRows(t)' \subseteq AllRows(t)
  <2> SUFFICES ASSUME NEW r \in AllRows(t)' PROVE r \in AllRows(t)
    OBVIOUS
  <2>1. r \in db'[t] \/ \E p \in Loaders : r \in written'[p][t]
    BY DEF AllRows
  <2>2. \A p \in Loaders : written'[p][t] \subseteq written[p][t]
    BY <1>2 DEF NoRows, TypeInv
  <2> QED
    BY <1>2, <2>1, <2>2 DEF AllRows
<1>3. ASSUME NEW o \in Loaders, Upsert(o), NEW t \in Tables, NEW r \in AllRows(t)'
      PROVE  r \in AllRows(t) \/ (t = Current(o) /\ r \in Fresh(o))
  <2>1. CASE r \in db'[t]
    BY <1>3, <2>1 DEF Upsert, AllRows
  <2>2. CASE \E p \in Loaders : r \in written'[p][t]
    <3>1. PICK p \in Loaders : r \in written'[p][t]
      BY <2>2
    <3>2. r \in written[p][t] \/ (p = o /\ t = Current(o) /\ r \in Fresh(o))
      BY <1>3, <3>1 DEF Upsert, TypeInv
    <3> QED
      BY <3>2 DEF AllRows
  <2> QED
    BY <2>1, <2>2 DEF AllRows
<1>4. ASSUME NEW o \in Loaders, Commit(o)
      PROVE  \A t \in Tables : AllRows(t)' \subseteq AllRows(t)
  BY <1>2, <1>4 DEF Commit
<1>5. ASSUME NEW o \in Loaders, Abandon(o) \/ Report(o)
      PROVE  \A t \in Tables : AllRows(t)' \subseteq AllRows(t)
  BY <1>2, <1>5 DEF Abandon, Report, Close
<1>6. ASSUME NEW o \in Loaders, Start(o)
      PROVE  \A t \in Tables : AllRows(t)' \subseteq AllRows(t)
  BY <1>1, <1>6 DEF Start
<1>7. ASSUME NEW t \in Tables, NEW r \in db[t], Deactivate(t, r)
      PROVE  \A u \in Tables : AllRows(u)' \subseteq AllRows(u)
  BY <1>1, <1>7 DEF Deactivate, loaderVars
<1>8. CASE UNCHANGED vars
  BY <1>1, <1>8 DEF vars
<1> QED
  BY <1>3, <1>4, <1>5, <1>6, <1>7, <1>8 DEF Next, Refused, Die

RowInv == TypeInv /\ RowsInv /\ UniqueInv

LEMMA InitRows == Init => RowInv
  BY InitTypes DEF Init, NoRows, RowInv, RowsInv, UniqueInv, AllRows

LEMMA NextRows ==
  ASSUME RowInv, [Next]_vars
  PROVE  RowInv'
<1>1. TypeInv /\ TypeInv' /\ RowsInv /\ UniqueInv
  BY NextTypes DEF RowInv
<1>2. CASE \A t \in Tables : AllRows(t)' \subseteq AllRows(t)
  <2>1. RowsInv'
    BY <1>1, <1>2 DEF RowsInv, Belongs, CaseOf
  <2>2. UniqueInv'
    BY <1>1, <1>2 DEF UniqueInv
  <2> QED
    BY <1>1, <2>1, <2>2 DEF RowInv
<1>3. ASSUME NEW o \in Loaders, Upsert(o),
             \A t \in Tables : \A r \in AllRows(t)' :
               r \in AllRows(t) \/ (t = Current(o) /\ r \in Fresh(o))
      PROVE  RowInv'
  <2>1. RowsInv'
    <3> SUFFICES ASSUME NEW t \in Tables, NEW r \in AllRows(t)' PROVE Belongs(t, r)
      BY DEF RowsInv, Belongs, CaseOf
    <3>1. CASE r \in AllRows(t)
      BY <1>1, <3>1 DEF RowsInv
    <3>2. CASE t = Current(o) /\ r \in Fresh(o)
      BY <1>1, <1>3, <3>2, FreshBelongs
    <3> QED
      BY <1>3, <3>1, <3>2
  <2>2. UniqueInv'
    <3> SUFFICES ASSUME NEW t \in Tables, NEW r \in AllRows(t)', NEW s \in AllRows(t)',
                        r.id = s.id
                 PROVE  r = s
      BY DEF UniqueInv
    \* a new row's id is neither seen nor in an open transaction
    <3>1. ASSUME NEW x \in Fresh(o), t = Current(o), NEW y \in AllRows(t) PROVE x.id # y.id
      <4> SUFFICES ASSUME x.id = y.id PROVE FALSE
        OBVIOUS
      <4>1. x \in New(o)
        BY <3>1, FreshAre
      <4>2. y \notin Sees(o, t)
        BY <3>1, <4>1 DEF New
      <4>3. PICK p \in Loaders : y \in written[p][t] /\ p # o
        BY <3>1, <4>2 DEF AllRows, Sees
      <4>4. Waits(o, p)
        BY <1>3, <3>1, <4>3 DEF Waits, SameKey, Upsert
      <4> QED
        BY <1>3, <4>4 DEF Waiting, Upsert
    <3>2. CASE r \in AllRows(t) /\ s \in AllRows(t)
      BY <1>1, <3>2 DEF UniqueInv
    <3>3. CASE t = Current(o) /\ r \in Fresh(o) /\ s \in AllRows(t)
      BY <3>1, <3>3
    <3>4. CASE t = Current(o) /\ s \in Fresh(o) /\ r \in AllRows(t)
      BY <3>1, <3>4
    <3>5. CASE r \in Fresh(o) /\ s \in Fresh(o)
      BY <3>5, FreshAre
    <3> QED
      BY <1>3, <3>2, <3>3, <3>4, <3>5
  <2> QED
    BY <1>1, <2>1, <2>2 DEF RowInv
<1> QED
  BY <1>2, <1>3, RowsAfter, <1>1

(* The case a row belongs to is the case of any document that has its UUID. *)
LEMMA OneCase ==
  ASSUME NEW c \in Cases, NEW d \in Cases, NEW i \in UuidsOf(c), i \in UuidsOf(d)
  PROVE  c.uuid = d.uuid
  BY DocumentsAssumption

(* The tables discovery reaches through another.                            *)
Hung == [address_detail      |-> [column |-> "party_detail_id", to |-> "party_detail"],
         imposed_disposition |-> [column |-> "case_charge_id", to |-> "case_charge"],
         imposed_sanction    |-> [column |-> "case_charge_id", to |-> "case_charge"]]

LEMMA HungTables ==
  /\ DOMAIN Hung \subseteq Tables \ {"case_record"}
  /\ \A t \in DOMAIN Hung :
       /\ Hung[t].to \in Tables \ {"case_record"}
       /\ \E ref \in Model[t].refs : ref.column = Hung[t].column
<1>1. DOMAIN Hung = {"address_detail", "imposed_disposition", "imposed_sanction"}
  BY DEF Hung
<1>2. \A t \in DOMAIN Hung : Hung[t].to \in {"party_detail", "case_charge"}
  BY <1>1 DEF Hung
<1>3. /\ \E ref \in Model["address_detail"].refs : ref.column = "party_detail_id"
      /\ \E ref \in Model["imposed_disposition"].refs : ref.column = "case_charge_id"
      /\ \E ref \in Model["imposed_sanction"].refs : ref.column = "case_charge_id"
  BY ModelsAre, RefsAre
<1>4. /\ Hung["address_detail"].column = "party_detail_id"
      /\ Hung["imposed_disposition"].column = "case_charge_id"
      /\ Hung["imposed_sanction"].column = "case_charge_id"
  BY DEF Hung
<1> QED
  BY <1>1, <1>2, <1>3, <1>4, TablesAre

(* A row hung on a party or a charge carries the same case as that row.     *)
LEMMA SameCase ==
  ASSUME RowInv, NEW t \in DOMAIN Hung, NEW x \in db[t], NEW p \in db[Hung[t].to],
         x[Hung[t].column] = p.id
  PROVE  x.case_record_id = p.case_record_id
<1> DEFINE u == Hung[t].to
<1>1. t \in Tables /\ t # "case_record" /\ u \in Tables /\ u # "case_record"
  BY HungTables
<1>2. Belongs(t, x) /\ Belongs(u, p)
  BY <1>1 DEF RowInv, RowsInv, AllRows
<1> HIDE DEF u
<1>3. PICK c \in Cases :
        /\ x \in RowsOf[c][t] /\ CaseOf(t, x) = c.uuid
        /\ \A ref \in Model[t].refs : x[ref.column] = Null \/ x[ref.column] \in UuidsOf(c)
  BY <1>2 DEF Belongs
<1>4. PICK d \in Cases : p \in RowsOf[d][u] /\ CaseOf(u, p) = d.uuid
  BY <1>2 DEF Belongs
<1>5. p.id \in UuidsOf(d) /\ p.id # Null
  <2>1. p.id \in UuidsOf(d)
    BY <1>1, <1>4, RowIds
  <2> QED
    BY <2>1, DocumentsAssumption
<1>6. x[Hung[t].column] \in UuidsOf(c)
  BY <1>3, <1>5, HungTables
<1> QED
  BY <1>1, <1>3, <1>4, <1>5, <1>6, OneCase DEF CaseOf

(* What discovery gives a case carries the key of the case.                 *)
LEMMA FoundInCase ==
  ASSUME RowInv, NEW c \in Active("case_record"), NEW t \in Tables, NEW r \in discover_all(c)[t]
  PROVE  CaseOf(t, r) = c.id
<1>1. DOMAIN Hung = {"address_detail", "imposed_disposition", "imposed_sanction"}
  BY DEF Hung
<1>2. CASE t = "case_record"
  BY <1>2 DEF discover_all, CaseOf
<1>3. CASE t \in DOMAIN Hung
  <2>1. discover_all(c)[t] = Through(t, Hung[t].column, Children(Hung[t].to, c))
    BY <1>3 DEF discover_all, Hung
  <2>2. PICK p \in Active(Hung[t].to) :
          /\ p.case_record_id = c.id
          /\ r \in Active(t) /\ r[Hung[t].column] = p.id
    BY <2>1 DEF Through, Children, Related
  <2>3. r.case_record_id = p.case_record_id
    BY <1>3, <2>2, SameCase DEF Active
  <2> QED
    BY <1>3, <2>2, <2>3, HungTables DEF CaseOf
<1>4. CASE t # "case_record" /\ t \notin DOMAIN Hung
  <2>1. discover_all(c)[t] = Children(t, c)
    BY <1>1, <1>4 DEF discover_all
  <2> QED
    BY <1>4, <2>1 DEF Children, Related, CaseOf
<1> QED
  BY <1>2, <1>3, <1>4

(* Every row belongs to the case whose document brought it, and refers to   *)
(* nothing of another; so discovery gives a case nothing of another, even   *)
(* where it goes by a party or a charge.                                    *)
THEOREM RowsStayInCase == Spec => []StaysInCase
<1>1. ASSUME RowInv, NEW c \in Cases, NEW t \in Tables, NEW r \in db[t], r.id \in UuidsOf(c)
      PROVE  /\ CaseOf(t, r) = c.uuid
             /\ \A ref \in Model[t].refs :
                  r[ref.column] \in (UNION {UuidsOf(d) : d \in {v \in Cases : v.uuid = c.uuid}})
                                     \cup {Null}
  <2>1. Belongs(t, r)
    BY <1>1 DEF RowInv, RowsInv, AllRows
  <2>2. PICK e \in Cases :
          /\ r \in RowsOf[e][t] /\ CaseOf(t, r) = e.uuid
          /\ \A ref \in Model[t].refs : r[ref.column] = Null \/ r[ref.column] \in UuidsOf(e)
    BY <2>1 DEF Belongs
  <2>3. e.uuid = c.uuid
    BY <1>1, <2>2, RowIds, OneCase
  <2> QED
    BY <2>2, <2>3
<1>2. RowInv => StaysInCase
  BY <1>1, FoundInCase DEF StaysInCase
<1> QED
  BY <1>2, InitRows, NextRows, PTL DEF Spec
=============================================================================
