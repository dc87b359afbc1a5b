----------------------------- MODULE AgencySchema -----------------------------
(***************************************************************************)
(* The tables of an agency schema as the models of agency.py declare them:  *)
(* what refers to what and what must be unique, the part of a table that    *)
(* decides whether DDL and inserts succeed.  Plain columns, defaults and    *)
(* relationship() declarations are left out.                                *)
(*                                                                          *)
(* A table is [name, refs, unique].  A reference is [column, to, required]: *)
(* a ForeignKey, required unless nullable.  A unique key is [columns,       *)
(* where]: "always" but for the partial indexes, whose WHERE clause is      *)
(* named.  (NULLs never collide in either case.)                            *)
(***************************************************************************)
EXTENDS Naturals

Table(name, refs, unique) == [name |-> name, refs |-> refs, unique |-> unique]

Required(column, table) == [column |-> column, to |-> table, required |-> TRUE]
Optional(column, table) == [column |-> column, to |-> table, required |-> FALSE]
Unique(columns)         == [columns |-> columns, where |-> "always"]
UniqueIf(columns, cond) == [columns |-> columns, where |-> cond]

OfCase == Required("case_record_id", "case_record")

CaseRecord == Table("case_record", {}, {Unique({"ticket_number"})})

Criminal == Table("criminal", {OfCase}, {Unique({"case_record_id"})})

VehicleDetail == Table("vehicle_detail", {OfCase}, {})

PartyDetail == Table("party_detail", {OfCase}, {Unique({"id", "case_record_id"})})

AddressDetail ==
  Table("address_detail", {OfCase, Required("party_detail_id", "party_detail")},
        {UniqueIf({"party_detail_id"}, "default and active")})

CaseCharge == Table("case_charge", {OfCase}, {})

PaymentRecord == Table("payment_record", {Optional("case_record_id", "case_record")}, {})

ImposedDisposition ==
  Table("imposed_disposition", {OfCase, Optional("case_charge_id", "case_charge")},
        {UniqueIf({"case_record_id", "case_charge_id"}, "charge not null")})

ImposedSanction ==
  Table("imposed_sanction", {OfCase, Optional("case_charge_id", "case_charge")}, {})

CaseAppearance ==
  Table("case_appearance",
        {OfCase, Optional("legal_representative_id", "party_detail"),
         Optional("next_case_appearance_id", "case_appearance")}, {})

Models ==
  {CaseRecord, Criminal, VehicleDetail, PartyDetail, AddressDetail, CaseCharge,
   PaymentRecord, ImposedDisposition, ImposedSanction, CaseAppearance}

Names(tables) == {t.name : t \in tables}

(* The tables t refers to, itself left out.                                 *)
Needs(t) == {r.to : r \in t.refs} \ {t.name}
=============================================================================
