---------------------------- MODULE AgencyVersion ----------------------------
(***************************************************************************)
(* The agency schema as the one Alembic version creates and drops it.  The  *)
(* file was generated from the models of agency.py once.  create_tables.py  *)
(* uses the models and run_migrations this file;                            *)
(* tests/contract/test_schema_parity.py compares the columns and the        *)
(* indexes the two make, not their references nor the triggers.             *)
(*                                                                          *)
(* Each create_table also gets an optimistic_lock trigger; upgrade and      *)
(* downgrade are one script each, run in the order of the statements.       *)
(***************************************************************************)
EXTENDS Naturals, Sequences, AgencySchema

CaseKey(t)   == [column |-> "case_record_id", to |-> "case_record", required |-> t]
ChargeKey    == [column |-> "case_charge_id", to |-> "case_charge", required |-> FALSE]
Index(columns, where) == [columns |-> columns, where |-> where]

CreateCaseRecord == Table("case_record", {}, {Index({"ticket_number"}, "always")})

CreateCaseCharge == Table("case_charge", {CaseKey(TRUE)}, {})

CreateCriminal ==
  Table("criminal", {CaseKey(TRUE)}, {Index({"case_record_id"}, "always")})

CreatePartyDetail ==
  Table("party_detail", {CaseKey(TRUE)}, {Index({"id", "case_record_id"}, "always")})

(* Mutant of CreatePaymentRecord: the version file lags behind the model.     *)
CreatePaymentRecordStale == Table("payment_record", {CaseKey(TRUE)}, {})

CreatePaymentRecord == Table("payment_record", {CaseKey(FALSE)}, {})

CreateVehicleDetail == Table("vehicle_detail", {CaseKey(TRUE)}, {})

CreateAddressDetail ==
  Table("address_detail",
        {CaseKey(TRUE),
         [column |-> "party_detail_id", to |-> "party_detail", required |-> TRUE]},
        {Index({"party_detail_id"}, "default and active")})

CreateCaseAppearance ==
  Table("case_appearance",
        {CaseKey(TRUE),
         [column |-> "legal_representative_id", to |-> "party_detail", required |-> FALSE],
         [column |-> "next_case_appearance_id", to |-> "case_appearance", required |-> FALSE]},
        {})

CreateImposedDisposition ==
  Table("imposed_disposition", {CaseKey(TRUE), ChargeKey},
        {Index({"case_record_id", "case_charge_id"}, "charge not null")})

CreateImposedSanction == Table("imposed_sanction", {CaseKey(TRUE), ChargeKey}, {})

(* Mutant of Creates: addresses before the parties they refer to.            *)
CreatesAddressFirst ==
  <<CreateCaseRecord, CreateCaseCharge, CreateCriminal, CreateAddressDetail,
    CreatePartyDetail, CreatePaymentRecord, CreateVehicleDetail,
    CreateCaseAppearance, CreateImposedDisposition, CreateImposedSanction>>

Creates ==
  <<CreateCaseRecord, CreateCaseCharge, CreateCriminal, CreatePartyDetail,
    CreatePaymentRecord, CreateVehicleDetail, CreateAddressDetail,
    CreateCaseAppearance, CreateImposedDisposition, CreateImposedSanction>>

Drops ==
  <<"imposed_sanction", "imposed_disposition", "case_appearance",
    "address_detail", "vehicle_detail", "payment_record", "party_detail",
    "criminal", "case_charge", "case_record">>

Created == {Creates[i] : i \in DOMAIN Creates}
Dropped == {Drops[i] : i \in DOMAIN Drops}

(* The script runs on a schema with these tables: CREATE TABLE finds no     *)
(* table of that name, and every table a foreign key names.                 *)
UpgradeRuns(tables) ==
  \A i \in DOMAIN Creates :
    LET before == Names(tables) \cup {Creates[j].name : j \in 1 .. i - 1} IN
    Creates[i].name \notin before /\ Needs(Creates[i]) \subseteq before

(* DROP TABLE finds its table, and no other table still refers to it.       *)
DowngradeRuns(tables) ==
  \A i \in DOMAIN Drops :
    LET left == {t \in tables : t.name \notin {Drops[j] : j \in 1 .. i - 1}} IN
    Drops[i] \in Names(left) /\ \A t \in left : Drops[i] \notin Needs(t)
=============================================================================
