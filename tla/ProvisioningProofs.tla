-------------------------- MODULE ProvisioningProofs --------------------------
(***************************************************************************)
(* Proofs about Provisioning, for any agencies, operators and bounds.       *)
(***************************************************************************)
EXTENDS Provisioning, TLAPS

(* The version file creates the tables of the models, and drops them all.   *)
LEMMA NoDrift == Created = Models /\ Dropped = Names(Models)
<1> USE DEF Table, Required, Optional, Unique, UniqueIf, OfCase, CaseKey, ChargeKey, Index
<1>1. /\ CreateCaseRecord = CaseRecord /\ CreateCaseCharge = CaseCharge
      /\ CreateCriminal = Criminal /\ CreatePartyDetail = PartyDetail
      /\ CreatePaymentRecord = PaymentRecord /\ CreateVehicleDetail = VehicleDetail
  BY DEF CreateCaseRecord, CaseRecord, CreateCaseCharge, CaseCharge, CreateCriminal,
         Criminal, CreatePartyDetail, PartyDetail, CreatePaymentRecord, PaymentRecord,
         CreateVehicleDetail, VehicleDetail
<1>2. /\ CreateAddressDetail = AddressDetail /\ CreateCaseAppearance = CaseAppearance
      /\ CreateImposedDisposition = ImposedDisposition
      /\ CreateImposedSanction = ImposedSanction
  BY DEF CreateAddressDetail, AddressDetail, CreateCaseAppearance, CaseAppearance,
         CreateImposedDisposition, ImposedDisposition, CreateImposedSanction, ImposedSanction
<1>3. Created = {CreateCaseRecord, CreateCaseCharge, CreateCriminal, CreatePartyDetail,
                 CreatePaymentRecord, CreateVehicleDetail, CreateAddressDetail,
                 CreateCaseAppearance, CreateImposedDisposition, CreateImposedSanction}
  <2>1. DOMAIN Creates = 1 .. 10
    BY DEF Creates
  <2>2. 1 .. 10 = {1, 2, 3, 4, 5, 6, 7, 8, 9, 10}
    OBVIOUS
  <2>3. /\ Creates[1] = CreateCaseRecord /\ Creates[2] = CreateCaseCharge
        /\ Creates[3] = CreateCriminal /\ Creates[4] = CreatePartyDetail
        /\ Creates[5] = CreatePaymentRecord /\ Creates[6] = CreateVehicleDetail
        /\ Creates[7] = CreateAddressDetail /\ Creates[8] = CreateCaseAppearance
        /\ Creates[9] = CreateImposedDisposition /\ Creates[10] = CreateImposedSanction
    BY DEF Creates
  <2> QED
    BY <2>1, <2>2, <2>3 DEF Created
<1>4. Created = Models
  BY <1>1, <1>2, <1>3 DEF Models
<1>5. Dropped = {"imposed_sanction", "imposed_disposition", "case_appearance",
                 "address_detail", "vehicle_detail", "payment_record", "party_detail",
                 "criminal", "case_charge", "case_record"}
  <2>1. DOMAIN Drops = 1 .. 10
    BY DEF Drops
  <2>2. 1 .. 10 = {1, 2, 3, 4, 5, 6, 7, 8, 9, 10}
    OBVIOUS
  <2>3. /\ Drops[1] = "imposed_sanction" /\ Drops[2] = "imposed_disposition"
        /\ Drops[3] = "case_appearance" /\ Drops[4] = "address_detail"
        /\ Drops[5] = "vehicle_detail" /\ Drops[6] = "payment_record"
        /\ Drops[7] = "party_detail" /\ Drops[8] = "criminal"
        /\ Drops[9] = "case_charge" /\ Drops[10] = "case_record"
    BY DEF Drops
  <2> QED
    BY <2>1, <2>2, <2>3 DEF Dropped
<1>6. /\ CaseRecord.name = "case_record" /\ Criminal.name = "criminal"
      /\ VehicleDetail.name = "vehicle_detail" /\ PartyDetail.name = "party_detail"
      /\ AddressDetail.name = "address_detail" /\ CaseCharge.name = "case_charge"
      /\ PaymentRecord.name = "payment_record"
      /\ ImposedDisposition.name = "imposed_disposition"
      /\ ImposedSanction.name = "imposed_sanction"
      /\ CaseAppearance.name = "case_appearance"
  BY DEF CaseRecord, Criminal, VehicleDetail, PartyDetail, AddressDetail, CaseCharge,
         PaymentRecord, ImposedDisposition, ImposedSanction, CaseAppearance
<1>7. Names(Models) = Dropped
  BY <1>5, <1>6 DEF Names, Models
<1> QED
  BY <1>4, <1>7

(* A schema is created whole or not at all: the upgrade script does not run *)
(* on a schema with a case_record table.                                    *)
LEMMA UpgradeNeedsEmpty == ~ UpgradeRuns(Models)
<1>1. 1 \in DOMAIN Creates /\ Creates[1].name = "case_record"
  BY DEF Creates, CreateCaseRecord, Table
<1>2. "case_record" \in Names(Models)
  BY DEF Names, Models, CaseRecord, Table
<1> QED
  BY <1>1, <1>2 DEF UpgradeRuns

-----------------------------------------------------------------------------
(* Where a command stands: what is left to run is a rest of its order, and  *)
(* the script it is in is the first of it.                                  *)
RestOf(c, l) ==
  \/ l = <<>>
  \/ c.target # "all" /\ l = <<c.target>>
  \/ c.target = "all" /\ c.kind = "upgrade" /\ l \in {<<"config", "agency">>, <<"agency">>}
  \/ c.target = "all" /\ c.kind = "downgrade" /\ l \in {<<"agency", "config">>, <<"config">>}

Placed ==
  \A o \in Operators :
    /\ RestOf(cmd[o], left[o])
    /\ pc[o] \in {"config", "config script"} => left[o] # <<>> /\ Head(left[o]) = "config"
    /\ pc[o] \in {"list", "schema", "schema script"} => left[o] # <<>> /\ Head(left[o]) = "agency"
    /\ pc[o] = "schema script" => queue[o] # <<>>
    /\ pc[o] = "ok" => left[o] = <<>>

TypeInv == TypeOK /\ Placed

LEMMA OrdersType ==
  /\ <<"config", "agency">> \in Seq({"config", "agency"})
  /\ <<"agency", "config">> \in Seq({"config", "agency"})
  /\ <<"config">> \in Seq({"config", "agency"})
  /\ <<"agency">> \in Seq({"config", "agency"})
OBVIOUS

LEMMA RestFacts ==
  ASSUME NEW c \in Commands, NEW l, RestOf(c, l), l # <<>>
  PROVE  /\ l \in Seq({"config", "agency"})
         /\ Head(l) \in {"config", "agency"}
         /\ Tail(l) \in Seq({"config", "agency"})
         /\ RestOf(c, Tail(l))
<1>1. c.target \in {"config", "agency", "all"} /\ c.kind \in {"upgrade", "downgrade"}
  BY DEF Commands, Targets
<1>2. l \in {<<"config", "agency">>, <<"agency", "config">>, <<"config">>, <<"agency">>}
  BY <1>1 DEF RestOf
<1>3. l \in Seq({"config", "agency"})
  BY <1>2, OrdersType
<1>4. /\ Head(<<"config", "agency">>) = "config" /\ Tail(<<"config", "agency">>) = <<"agency">>
      /\ Head(<<"agency", "config">>) = "agency" /\ Tail(<<"agency", "config">>) = <<"config">>
      /\ Head(<<"config">>) = "config" /\ Tail(<<"config">>) = <<>>
      /\ Head(<<"agency">>) = "agency" /\ Tail(<<"agency">>) = <<>>
  OBVIOUS
<1>5. Head(l) \in {"config", "agency"} /\ Tail(l) \in Seq({"config", "agency"})
  BY <1>2, <1>3, <1>4
<1>6. RestOf(c, Tail(l))
  BY <1>1, <1>2, <1>4 DEF RestOf
<1> QED
  BY <1>3, <1>5, <1>6

LEMMA OrderRest ==
  ASSUME NEW c \in Commands
  PROVE  Order(c) \in Seq({"config", "agency"}) /\ RestOf(c, Order(c)) /\ Order(c) # <<>>
<1>1. c.target \in {"config", "agency", "all"} /\ c.kind \in {"upgrade", "downgrade"}
  BY DEF Commands, Targets
<1>2. \/ c.target # "all" /\ Order(c) = <<c.target>>
      \/ c.target = "all" /\ c.kind = "upgrade" /\ Order(c) = <<"config", "agency">>
      \/ c.target = "all" /\ c.kind = "downgrade" /\ Order(c) = <<"agency", "config">>
  BY <1>1 DEF Order
<1>3. RestOf(c, Order(c)) /\ Order(c) # <<>>
  BY <1>2 DEF RestOf
<1>4. Order(c) \in {<<"config", "agency">>, <<"agency", "config">>, <<"config">>, <<"agency">>}
  BY <1>1, <1>2
<1> QED
  BY <1>3, <1>4, OrdersType

LEMMA TypeInitially == Init => TypeInv
BY ProvisioningAssumption
   DEF Init, TypeInv, TypeOK, Placed, RestOf, Commands, UpgradeAll, Targets, Stopped, Names

LEMMA TypeStep == TypeInv /\ [Next]_vars => TypeInv'
<1> SUFFICES ASSUME TypeInv, [Next]_vars PROVE TypeInv'
  OBVIOUS
<1> USE DEF TypeInv, Goto, database, Stopped
<1>1. ASSUME NEW o \in Operators, NEW c \in Commands, Begin(o, c) PROVE TypeInv'
  <2>1. Order(c) \in Seq({"config", "agency"}) /\ RestOf(c, Order(c))
    BY OrderRest
  <2>2. TypeOK'
    <3>1. /\ cmd' \in [Operators -> Commands] /\ left' \in [Operators -> Seq({"config", "agency"})]
          /\ queue' \in [Operators -> Seq(Agencies)]
      <4>1. <<>> \in Seq(Agencies)
        OBVIOUS
      <4>2. /\ cmd \in [Operators -> Commands] /\ left \in [Operators -> Seq({"config", "agency"})]
            /\ queue \in [Operators -> Seq(Agencies)]
        BY DEF TypeOK
      <4> QED
        BY <1>1, <2>1, <4>1, <4>2 DEF Begin
    <3>2. pc' \in [Operators -> Stopped \cup {"run", "config", "config script", "list",
                                              "schema", "schema script"}]
      BY <1>1 DEF Begin, TypeOK
    <3>3. commands' \in 0 .. MaxCommands
      <4>1. \/ commands' = commands
            \/ commands < MaxCommands /\ commands' = commands + 1
        BY <1>1 DEF Begin
      <4>2. commands \in 0 .. MaxCommands
        BY DEF TypeOK
      <4> QED
        BY <4>1, <4>2, ProvisioningAssumption
    <3>4. alone' \in [Operators -> BOOLEAN]
      <4> DEFINE only(q) == q = o /\ \A r \in Operators \ {o} : pc[r] \in Stopped
      <4>1. alone' = [q \in Operators |-> only(q)]
        BY <1>1 DEF Begin
      <4>2. \A q : only(q) \in BOOLEAN
        OBVIOUS
      <4> HIDE DEF only
      <4> QED
        BY <4>1, <4>2
    <3>5. UNCHANGED <<config, agencies, tables, guarded, version, faults, outside>>
      BY <1>1 DEF Begin
    <3> QED
      BY <3>1, <3>2, <3>3, <3>4, <3>5 DEF TypeOK
  <2>3. Placed'
    BY <1>1, <2>1 DEF Begin, TypeOK, Placed
  <2> QED
    BY <2>2, <2>3
<1>2. ASSUME NEW o \in Operators, NextRun(o) PROVE TypeInv'
  <2>1. left[o] # <<>> => Head(left[o]) \in {"config", "agency"}
    BY RestFacts DEF Placed, TypeOK
  <2>2. TypeOK'
    BY <1>2 DEF NextRun, TypeOK
  <2>3. Placed'
    BY <1>2, <2>1 DEF NextRun, TypeOK, Placed
  <2> QED
    BY <2>2, <2>3
(* RunDone and Abort, the two ends of an Alembic run.                       *)
<1>3. ASSUME NEW o \in Operators, left[o] # <<>>, RunDone(o), UNCHANGED <<cmd, queue>>
      PROVE  left' \in [Operators -> Seq({"config", "agency"})] /\ Placed'
  <2>1. Tail(left[o]) \in Seq({"config", "agency"}) /\ RestOf(cmd[o], Tail(left[o]))
    BY <1>3, RestFacts DEF Placed, TypeOK
  <2> QED
    BY <1>3, <2>1 DEF RunDone, TypeOK, Placed
<1>4. ASSUME NEW o \in Operators, Abort(o), UNCHANGED <<cmd, queue>>
      PROVE  left' \in [Operators -> Seq({"config", "agency"})] /\ Placed'
  BY <1>4 DEF Abort, TypeOK, Placed
<1>5. ASSUME NEW o \in Operators, PlanConfig(o) PROVE TypeInv'
  <2>1. left[o] # <<>> /\ Head(left[o]) = "config"
    BY <1>5 DEF PlanConfig, Placed
  <2>2. CASE RunDone(o)
    BY <1>3, <1>5, <2>1, <2>2 DEF PlanConfig, RunDone, TypeOK
  <2>3. CASE Abort(o)
    BY <1>4, <1>5, <2>3 DEF PlanConfig, Abort, TypeOK
  <2>4. CASE Goto(o, "config script") /\ UNCHANGED left
    BY <1>5, <2>1, <2>4 DEF PlanConfig, TypeOK, Placed
  <2> QED
    BY <1>5, <2>2, <2>3, <2>4 DEF PlanConfig
<1>6. ASSUME NEW o \in Operators, RunConfig(o) PROVE TypeInv'
  <2>1. left[o] # <<>>
    BY <1>6 DEF RunConfig, Placed
  <2>2. config' \in {"base", "head"} /\ agencies' \in Seq(Agencies)
    <3>1. <<>> \in Seq(Agencies) /\ <<Seed>> \in Seq(Agencies)
      BY ProvisioningAssumption
    <3>2. \/ config' = "head" /\ agencies' = <<Seed>>
          \/ config' = "base" /\ agencies' = <<>>
          \/ UNCHANGED <<config, agencies>>
      BY <1>6 DEF RunConfig, UpgradeConfig, DowngradeConfig
    <3> QED
      BY <3>1, <3>2 DEF TypeOK
  <2>3. UNCHANGED <<tables, guarded, version, cmd, queue, commands, faults, outside, alone>>
    BY <1>6 DEF RunConfig
  <2>4. CASE RunDone(o)
    BY <1>3, <2>1, <2>2, <2>3, <2>4 DEF RunDone, TypeOK
  <2>5. CASE Abort(o)
    BY <1>4, <2>2, <2>3, <2>5 DEF Abort, TypeOK
  <2> QED
    BY <1>6, <2>4, <2>5 DEF RunConfig
<1>7. ASSUME NEW o \in Operators, ListAgencies(o) PROVE TypeInv'
  <2>1. CASE Abort(o) /\ UNCHANGED queue
    BY <1>4, <1>7, <2>1 DEF ListAgencies, Abort, TypeOK
  <2>2. CASE queue' = [queue EXCEPT ![o] = agencies] /\ Goto(o, "schema") /\ UNCHANGED left
    BY <1>7, <2>2 DEF ListAgencies, TypeOK, Placed
  <2> QED
    BY <1>7, <2>1, <2>2 DEF ListAgencies
<1>8. ASSUME NEW o \in Operators, queue[o] # <<>>, SchemaDone(o), UNCHANGED <<cmd, left>>,
             pc[o] \in {"schema", "schema script"}
      PROVE  queue' \in [Operators -> Seq(Agencies)] /\ pc' = [pc EXCEPT ![o] = "schema"] /\ Placed'
  <2>1. Tail(queue[o]) \in Seq(Agencies)
    <3>1. queue[o] # <<>> /\ queue[o] \in Seq(Agencies)
      BY <1>8 DEF TypeOK
    <3> QED
      BY <3>1
  <2>2. queue' = [queue EXCEPT ![o] = Tail(@)] /\ pc' = [pc EXCEPT ![o] = "schema"]
    BY <1>8 DEF SchemaDone
  <2>3. queue' \in [Operators -> Seq(Agencies)]
    BY <2>1, <2>2 DEF TypeOK
  <2>4. Placed'
    BY <1>8, <2>2 DEF TypeOK, Placed
  <2> QED
    BY <2>2, <2>3, <2>4
<1>9. ASSUME NEW o \in Operators, PlanSchema(o) PROVE TypeInv'
  <2>1. left[o] # <<>>
    BY <1>9 DEF PlanSchema, Placed
  <2>2. UNCHANGED <<database, cmd, commands, faults, outside, alone>>
    BY <1>9 DEF PlanSchema
  <2>3. CASE RunDone(o) /\ UNCHANGED queue
    BY <1>3, <2>1, <2>2, <2>3 DEF RunDone, TypeOK
  <2>4. CASE queue[o] # <<>> /\ SchemaDone(o) /\ UNCHANGED left
    BY <1>8, <1>9, <2>2, <2>4 DEF PlanSchema, TypeOK
  <2>5. CASE Abort(o) /\ UNCHANGED queue
    BY <1>4, <2>2, <2>5 DEF Abort, TypeOK
  <2>6. CASE queue[o] # <<>> /\ Goto(o, "schema script") /\ UNCHANGED <<left, queue>>
    BY <1>9, <2>2, <2>6 DEF PlanSchema, TypeOK, Placed
  <2> QED
    BY <1>9, <2>3, <2>4, <2>5, <2>6 DEF PlanSchema
<1>10. ASSUME NEW o \in Operators, RunSchema(o) PROVE TypeInv'
  <2>1. queue[o] # <<>> /\ Head(queue[o]) \in Agencies
    <3>1. queue[o] # <<>> /\ queue[o] \in Seq(Agencies)
      BY <1>10 DEF RunSchema, Placed, TypeOK
    <3> QED
      BY <3>1
  <2>2. /\ tables' \in [Agencies -> SUBSET (Models \cup Created)]
        /\ guarded' \in [Agencies -> SUBSET Names(Created)]
        /\ version' \in [Agencies -> {"base", "head"}]
    <3> DEFINE a == Head(queue[o])
    <3>1. CASE UpgradeSchema(a)
      BY <2>1, <3>1 DEF UpgradeSchema, TypeOK
    <3>2. CASE DowngradeSchema(a)
      BY <2>1, <3>2 DEF DowngradeSchema, TypeOK
    <3>3. CASE UNCHANGED <<tables, guarded, version>>
      BY <3>3 DEF TypeOK
    <3> QED
      BY <1>10, <3>1, <3>2, <3>3 DEF RunSchema
  <2>3. UNCHANGED <<config, agencies, cmd, commands, faults, outside, alone>>
    BY <1>10 DEF RunSchema
  <2>4. CASE SchemaDone(o) /\ UNCHANGED left
    BY <1>8, <1>10, <2>1, <2>2, <2>3, <2>4 DEF RunSchema, TypeOK
  <2>5. CASE Abort(o) /\ UNCHANGED queue
    BY <1>4, <2>2, <2>3, <2>5 DEF Abort, TypeOK
  <2> QED
    BY <1>10, <2>4, <2>5 DEF RunSchema
<1>11. ASSUME NEW o \in Operators, Die(o) PROVE TypeInv'
  <2>1. Abort(o) /\ UNCHANGED <<database, cmd, queue, commands, outside, alone>>
    BY <1>11 DEF Die
  <2>2. faults' \in 0 .. MaxFaults
    <3>1. faults \in 0 .. MaxFaults /\ faults < MaxFaults /\ faults' = faults + 1
      BY <1>11 DEF Die, TypeOK
    <3> QED
      BY <3>1, ProvisioningAssumption
  <2> QED
    BY <1>4, <2>1, <2>2 DEF Abort, TypeOK
<1>outside. ASSUME Outside, agencies' \in Seq(Agencies),
              tables' \in [Agencies -> SUBSET (Models \cup Created)]
       PROVE  TypeInv'
  <2>1. /\ outside' \in 0 .. MaxOutside
        /\ alone' \in [Operators -> BOOLEAN]
        /\ UNCHANGED <<config, version, guarded, cmd, pc, left, queue, commands, faults>>
    <3>1. outside \in 0 .. MaxOutside
      BY DEF TypeOK
    <3>2. /\ outside < MaxOutside /\ outside' = outside + 1
          /\ alone' = [o \in Operators |-> FALSE]
          /\ UNCHANGED <<config, version, guarded, cmd, pc, left, queue, commands, faults>>
      BY <1>outside DEF Outside
    <3> QED
      BY <3>1, <3>2, ProvisioningAssumption
  <2>2. TypeOK'
    BY <1>outside, <2>1 DEF TypeOK
  <2>3. Placed'
    BY <2>1 DEF Placed
  <2> QED
    BY <2>2, <2>3
<1>12. ASSUME NEW a \in Agencies, CreateTables(a) PROVE TypeInv'
  <2>1. Outside
    BY <1>12 DEF CreateTables
  <2>2. tables' \in [Agencies -> SUBSET (Models \cup Created)] /\ UNCHANGED agencies
    BY <1>12 DEF CreateTables, TypeOK
  <2> QED
    BY <1>outside, <2>1, <2>2 DEF TypeOK
<1>13. ASSUME NEW a \in Agencies, Register(a) PROVE TypeInv'
  <2>1. Outside
    BY <1>13 DEF Register
  <2>2. agencies' \in Seq(Agencies) /\ UNCHANGED tables
    <3>1. agencies \in Seq(Agencies)
      BY DEF TypeOK
    <3>2. agencies' = Append(agencies, a) /\ UNCHANGED tables
      BY <1>13 DEF Register
    <3> QED
      BY <3>1, <3>2
  <2> QED
    BY <1>outside, <2>1, <2>2 DEF TypeOK
<1>14. CASE UNCHANGED vars
  BY <1>14 DEF vars, TypeOK, Placed
<1> QED
  BY <1>1, <1>2, <1>5, <1>6, <1>7, <1>9, <1>10, <1>11, <1>12, <1>13, <1>14
     DEF Next, Progress

LEMMA TypeInvariance == Spec => []TypeInv
BY TypeInitially, TypeStep, PTL DEF Spec

(* Every state the commands can reach is well typed.                        *)
THEOREM Typing == Spec => []TypeOK
<1>1. TypeInv => TypeOK
  BY DEF TypeInv
<1> QED
  BY <1>1, TypeInvariance, PTL

-----------------------------------------------------------------------------
(* The version row tells the truth: every transaction that touches a schema *)
(* takes it from nothing to everything or back.                             *)
LEMMA ScriptEffect ==
  ASSUME TypeInv, VersionIsTrue, NEW o \in Operators, RunSchema(o)
  PROVE  \/ UNCHANGED <<tables, guarded, version>>
         \/ \E a \in Agencies :
              /\ tables' = [tables EXCEPT ![a] = Models]
              /\ guarded' = [guarded EXCEPT ![a] = Names(Models)]
              /\ version' = [version EXCEPT ![a] = "head"]
         \/ \E a \in Agencies :
              /\ tables' = [tables EXCEPT ![a] = {}]
              /\ guarded' = [guarded EXCEPT ![a] = {}]
              /\ version' = [version EXCEPT ![a] = "base"]
<1> DEFINE a == Head(queue[o])
<1>1. a \in Agencies
  <2>1. queue[o] # <<>> /\ queue[o] \in Seq(Agencies)
    BY DEF RunSchema, TypeInv, TypeOK, Placed
  <2> QED
    BY <2>1
<1>2. tables[a] \in {{}, Models} /\ guarded[a] \in {{}, Names(Models)}
      /\ (tables[a] = {} => guarded[a] = {})
  BY <1>1 DEF VersionIsTrue, TypeInv, TypeOK, Names
<1>3. CASE UpgradeSchema(a)
  <2>1. tables[a] = {} /\ guarded[a] = {}
    BY <1>2, <1>3, UpgradeNeedsEmpty DEF UpgradeSchema
  <2>2. tables[a] \cup Created = Models /\ guarded[a] \cup Names(Created) = Names(Models)
    BY <2>1, NoDrift
  <2> QED
    BY <1>1, <1>3, <2>2 DEF UpgradeSchema
<1>4. CASE DowngradeSchema(a)
  <2>1. {t \in tables[a] : t.name \notin Dropped} = {} /\ guarded[a] \ Dropped = {}
    BY <1>2, NoDrift DEF Names
  <2> QED
    BY <1>1, <1>4, <2>1 DEF DowngradeSchema
<1> QED
  BY <1>3, <1>4 DEF RunSchema

LEMMA VersionStep ==
  ASSUME TypeInv, VersionIsTrue, [Next]_vars
  PROVE  VersionIsTrue'
<1>1. ASSUME UNCHANGED <<tables, guarded, version>> PROVE VersionIsTrue'
  BY <1>1 DEF VersionIsTrue
<1>2. ASSUME NEW o \in Operators, RunSchema(o) PROVE VersionIsTrue'
  <2>1. CASE UNCHANGED <<tables, guarded, version>>
    BY <1>1, <2>1
  <2>2. ASSUME NEW a \in Agencies, NEW ts, NEW gs, NEW v,
               \/ ts = Models /\ gs = Names(Models) /\ v = "head"
               \/ ts = {} /\ gs = {} /\ v = "base",
               tables' = [tables EXCEPT ![a] = ts], guarded' = [guarded EXCEPT ![a] = gs],
               version' = [version EXCEPT ![a] = v]
        PROVE  VersionIsTrue'
    <3>1. ASSUME NEW b \in Agencies, b # a
          PROVE  /\ tables'[b] = tables[b] /\ guarded'[b] = guarded[b]
                 /\ version'[b] = version[b]
      BY <2>2, <3>1 DEF TypeInv, TypeOK
    <3>2. tables'[a] = ts /\ guarded'[a] = gs /\ version'[a] = v
      BY <2>2 DEF TypeInv, TypeOK
    <3> QED
      BY <2>2, <3>1, <3>2 DEF VersionIsTrue
  <2>3. ASSUME NEW a \in Agencies, tables' = [tables EXCEPT ![a] = Models],
               guarded' = [guarded EXCEPT ![a] = Names(Models)],
               version' = [version EXCEPT ![a] = "head"]
        PROVE  VersionIsTrue'
    BY <2>2, <2>3
  <2>4. ASSUME NEW a \in Agencies, tables' = [tables EXCEPT ![a] = {}],
               guarded' = [guarded EXCEPT ![a] = {}],
               version' = [version EXCEPT ![a] = "base"]
        PROVE  VersionIsTrue'
    BY <2>2, <2>4
  <2> QED
    BY <1>2, <2>1, <2>3, <2>4, ScriptEffect
<1>3. ASSUME NEW a \in Agencies, CreateTables(a) PROVE VersionIsTrue'
  <2>1. tables[a] \in {{}, Models} /\ UNCHANGED <<guarded, version>>
    BY <1>3 DEF VersionIsTrue, CreateTables, Outside
  <2>2. tables[a] \cup {t \in Models : t.name \notin Names(tables[a])} = Models
    BY <2>1 DEF Names
  <2>3. tables' = [tables EXCEPT ![a] = Models]
    BY <1>3, <2>2 DEF CreateTables
  <2>4. version[a] = "head" => tables[a] = Models
    BY DEF VersionIsTrue
  <2>5. \A b \in Agencies : tables'[b] = IF b = a THEN Models ELSE tables[b]
    BY <2>3 DEF TypeInv, TypeOK
  <2> QED
    BY <2>1, <2>5 DEF VersionIsTrue
<1>4. ASSUME NEW o \in Operators, NEW c \in Commands, Begin(o, c) PROVE VersionIsTrue'
  BY <1>1, <1>4 DEF Begin, database
<1>5. ASSUME NEW o \in Operators, Progress(o), ~ RunSchema(o) PROVE VersionIsTrue'
  BY <1>1, <1>5 DEF Progress, NextRun, PlanConfig, RunConfig, ListAgencies, PlanSchema, database
<1>6. ASSUME NEW o \in Operators, Die(o) PROVE VersionIsTrue'
  BY <1>1, <1>6 DEF Die, database
<1>7. ASSUME NEW a \in Agencies, Register(a) PROVE VersionIsTrue'
  BY <1>1, <1>7 DEF Register, Outside
<1>8. CASE UNCHANGED vars
  BY <1>1, <1>8 DEF vars
<1> QED
  BY <1>2, <1>3, <1>4, <1>5, <1>6, <1>7, <1>8 DEF Next

(* Whatever commands race or die, and whoever creates tables beside them,   *)
(* a schema's version row says the truth about its tables and triggers.     *)
THEOREM VersionRowIsTrue == Spec => []VersionIsTrue
<1>1. Init => VersionIsTrue
  BY DEF Init, VersionIsTrue
<1>2. TypeInv /\ VersionIsTrue /\ [Next]_vars => VersionIsTrue'
  BY VersionStep
<1> QED
  BY <1>1, <1>2, TypeInvariance, PTL DEF Spec

-----------------------------------------------------------------------------
(* What a command nobody interferes with has done, read off what it has     *)
(* left: the strengthening of ConfigLast and ExitMeansDone.                 *)
Both == {<<"config", "agency">>, <<"agency", "config">>}
ConfigDue(l) == l \in {<<"config">>} \cup Both
AgencyDue(l) == l \in {<<"agency">>} \cup Both
Goal(c) == IF c.kind = "upgrade" THEN "head" ELSE "base"

Done(o) ==
  /\ \A r \in Operators \ {o} : pc[r] \in Stopped
  /\ cmd[o].target \in {"config", "all"} /\ ~ ConfigDue(left[o]) => config = Goal(cmd[o])
  /\ cmd[o].target \in {"agency", "all"} /\ ~ AgencyDue(left[o])
       => \A a \in Registered : version[a] = Goal(cmd[o])
  /\ pc[o] \in {"schema", "schema script"} =>
       \A a \in Registered :
         version[a] = Goal(cmd[o]) \/ \E i \in DOMAIN queue[o] : queue[o][i] = a

DoneInv == \A o \in Operators : alone[o] => Done(o)

LEMMA DueFacts ==
  ASSUME NEW c \in Commands, NEW l, RestOf(c, l)
  PROVE  /\ l = <<>> => ~ ConfigDue(l) /\ ~ AgencyDue(l)
         /\ l # <<>> /\ Head(l) = "config" =>
              ConfigDue(l) /\ (AgencyDue(l) => AgencyDue(Tail(l)))
         /\ l # <<>> /\ Head(l) = "agency" =>
              AgencyDue(l) /\ (ConfigDue(l) => ConfigDue(Tail(l)))
         /\ l # <<>> /\ Head(l) = "config" /\ c.target \in {"agency", "all"} =>
              c.target = "all" /\ (c.kind = "upgrade" => AgencyDue(l))
              /\ (c.kind = "downgrade" => ~ AgencyDue(l))
<1>1. c.target \in {"config", "agency", "all"} /\ c.kind \in {"upgrade", "downgrade"}
  BY DEF Commands, Targets
<1>2. /\ Head(<<"config", "agency">>) = "config" /\ Tail(<<"config", "agency">>) = <<"agency">>
      /\ Head(<<"agency", "config">>) = "agency" /\ Tail(<<"agency", "config">>) = <<"config">>
      /\ Head(<<"config">>) = "config" /\ Tail(<<"config">>) = <<>>
      /\ Head(<<"agency">>) = "agency" /\ Tail(<<"agency">>) = <<>>
  OBVIOUS
<1>3. ~ ConfigDue(<<>>) /\ ~ AgencyDue(<<>>) /\ ~ AgencyDue(<<"config">>)
  BY DEF ConfigDue, AgencyDue, Both
<1>4. CASE l = <<>>
  BY <1>3, <1>4
<1>5. CASE l = <<"config">>
  BY <1>1, <1>2, <1>3, <1>5 DEF RestOf, ConfigDue
<1>6. CASE l = <<"agency">>
  BY <1>1, <1>2, <1>6 DEF AgencyDue, ConfigDue, Both
<1>7. CASE l = <<"config", "agency">>
  BY <1>1, <1>2, <1>7 DEF RestOf, AgencyDue, ConfigDue, Both
<1>8. CASE l = <<"agency", "config">>
  BY <1>1, <1>2, <1>8 DEF AgencyDue, ConfigDue, Both
<1> QED
  BY <1>1, <1>4, <1>5, <1>6, <1>7, <1>8 DEF RestOf

LEMMA InTail ==
  ASSUME NEW S, NEW q \in Seq(S), q # <<>>, NEW i \in DOMAIN q, q[i] # Head(q)
  PROVE  i - 1 \in DOMAIN Tail(q) /\ Tail(q)[i - 1] = q[i]
<1>1. DOMAIN q = 1 .. Len(q) /\ Head(q) = q[1]
  OBVIOUS
<1>2. i # 1 /\ i - 1 \in 1 .. Len(q) - 1
  BY <1>1
<1>3. Len(Tail(q)) = Len(q) - 1 /\ \A j \in 1 .. Len(q) - 1 : Tail(q)[j] = q[j + 1]
  BY <1>1
<1>4. DOMAIN Tail(q) = 1 .. Len(q) - 1
  BY <1>1, <1>3
<1> QED
  BY <1>2, <1>3, <1>4

(* The steps of a command's own.                                            *)
LEMMA OwnStep ==
  ASSUME TypeInv, NEW o \in Operators, Done(o), Progress(o) \/ Die(o)
  PROVE  Done(o)'
<1> USE DEF Goto
<1> DEFINE c == cmd[o]
           l == left[o]
<1>1. /\ c \in Commands /\ RestOf(c, l)
      /\ c.kind \in {"upgrade", "downgrade"} /\ c.target \in {"config", "agency", "all"}
      /\ cmd' = cmd
  BY DEF TypeInv, TypeOK, Placed, Commands, Targets, Progress, NextRun, PlanConfig,
         RunConfig, ListAgencies, PlanSchema, RunSchema, Die
<1>2. \A r \in Operators \ {o} : pc'[r] \in Stopped
  <2>1. \E place : pc' = [pc EXCEPT ![o] = place]
    BY DEF Progress, NextRun, PlanConfig, RunConfig, ListAgencies, PlanSchema, RunSchema,
           Die, RunDone, Abort, SchemaDone
  <2> QED
    BY <2>1 DEF TypeInv, TypeOK, Done
<1>3. ASSUME UNCHANGED <<config, agencies, version, left>>,
             pc'[o] \notin {"schema", "schema script"}
      PROVE  Done(o)'
  BY <1>1, <1>2, <1>3 DEF Done, Registered
<1>4. CASE NextRun(o)
  BY <1>3, <1>4 DEF NextRun, database, TypeInv, TypeOK
<1>5. CASE PlanConfig(o)
  <2>1. l # <<>> /\ Head(l) = "config"
    BY <1>5 DEF PlanConfig, TypeInv, Placed
  <2>2. UNCHANGED <<config, agencies, version>>
    BY <1>5 DEF PlanConfig, database
  <2>3. CASE Plan(c, config) = "nothing" /\ RunDone(o)
    <3>1. config = Goal(c)
      BY <1>1, <2>3 DEF Plan, Goal, Commands, TypeInv, TypeOK
    <3>2. left'[o] = Tail(l) /\ pc'[o] = "run"
      BY <2>3 DEF RunDone, TypeInv, TypeOK
    <3>3. ~ AgencyDue(left'[o]) => ~ AgencyDue(l)
      BY <1>1, <2>1, <3>2, DueFacts
    <3> QED
      BY <1>1, <1>2, <2>2, <3>1, <3>2, <3>3 DEF Done, Registered
  <2>4. CASE Abort(o)
    BY <1>3, <2>2, <2>4 DEF Abort, TypeInv, TypeOK
  <2>5. CASE Goto(o, "config script") /\ UNCHANGED left
    BY <1>3, <2>2, <2>5 DEF TypeInv, TypeOK
  <2> QED
    BY <1>5, <2>3, <2>4, <2>5 DEF PlanConfig
<1>6. CASE RunConfig(o)
  <2>1. l # <<>> /\ Head(l) = "config"
    BY <1>6 DEF RunConfig, TypeInv, Placed
  <2>2. UNCHANGED version
    BY <1>6 DEF RunConfig
  <2>3. CASE Abort(o) /\ UNCHANGED <<config, agencies>>
    BY <1>3, <2>2, <2>3 DEF Abort, TypeInv, TypeOK
  <2>4. CASE RunDone(o) /\ (UpgradeConfig \/ DowngradeConfig)
    <3>1. config' = Goal(c)
      BY <1>1, <1>6, <2>4 DEF RunConfig, UpgradeConfig, DowngradeConfig, Goal, Abort, RunDone,
                              TypeInv, TypeOK
    <3>2. left'[o] = Tail(l) /\ pc'[o] = "run"
      BY <2>4 DEF RunDone, TypeInv, TypeOK
    <3>3. c.target \in {"agency", "all"} /\ ~ AgencyDue(left'[o]) => c.kind = "downgrade"
      BY <1>1, <2>1, <3>2, DueFacts
    <3>4. c.kind = "downgrade" => Registered' = {}
      <4>1. c.kind = "downgrade" => agencies' = <<>>
        BY <1>6, <2>4 DEF RunConfig, DowngradeConfig, Abort, RunDone, TypeInv, TypeOK
      <4>2. DOMAIN <<>> = {}
        OBVIOUS
      <4> QED
        BY <4>1, <4>2 DEF Registered
    <3> QED
      BY <1>1, <1>2, <3>1, <3>2, <3>3, <3>4 DEF Done
  <2> QED
    BY <1>6, <2>3, <2>4 DEF RunConfig
<1>7. CASE ListAgencies(o)
  <2>1. UNCHANGED <<config, agencies, version>>
    BY <1>7 DEF ListAgencies, database
  <2>2. CASE Abort(o)
    BY <1>3, <2>1, <2>2 DEF Abort, TypeInv, TypeOK
  <2>3. CASE queue' = [queue EXCEPT ![o] = agencies] /\ UNCHANGED left
    <3>1. queue'[o] = agencies /\ left'[o] = l
      BY <2>3 DEF TypeInv, TypeOK
    <3> QED
      BY <1>1, <1>2, <2>1, <3>1 DEF Done, Registered
  <2> QED
    BY <1>7, <2>2, <2>3 DEF ListAgencies
<1>8. ASSUME SchemaDone(o), UNCHANGED <<config, agencies, left>>, queue[o] # <<>>,
             pc[o] \in {"schema", "schema script"},
             version'[Head(queue[o])] = Goal(c),
             \A a \in Agencies : a # Head(queue[o]) => version'[a] = version[a]
      PROVE  Done(o)'
  <2>1. queue[o] \in Seq(Agencies) /\ agencies \in Seq(Agencies)
    BY DEF TypeInv, TypeOK
  <2>2. queue'[o] = Tail(queue[o])
    BY <1>8 DEF SchemaDone, TypeInv, TypeOK
  <2>3. ASSUME NEW a \in Registered
        PROVE  version'[a] = Goal(c) \/ \E i \in DOMAIN queue'[o] : queue'[o][i] = a
    <3>1. a \in Agencies
      BY <2>1 DEF Registered
    <3>2. CASE version[a] = Goal(c)
      BY <1>8, <3>1, <3>2
    <3>3. ASSUME NEW i \in DOMAIN queue[o], queue[o][i] = a, a # Head(queue[o])
          PROVE  i - 1 \in DOMAIN Tail(queue[o]) /\ Tail(queue[o])[i - 1] = a
      BY <1>8, <2>1, <3>3, InTail
    <3> QED
      BY <1>8, <2>2, <3>1, <3>2, <3>3 DEF Done
  <2>4. \A a \in Registered : version[a] = Goal(c) => version'[a] = Goal(c)
    <3>1. Registered \subseteq Agencies
      BY <2>1 DEF Registered
    <3> QED
      BY <1>8, <3>1
  <2>5. left'[o] = l /\ Registered' = Registered
    BY <1>8 DEF Registered
  <2> QED
    BY <1>1, <1>2, <1>8, <2>3, <2>4, <2>5 DEF Done
<1>9. CASE PlanSchema(o)
  <2>1. l # <<>> /\ Head(l) = "agency"
    BY <1>9 DEF PlanSchema, TypeInv, Placed
  <2>2. UNCHANGED <<config, agencies, version>>
    BY <1>9 DEF PlanSchema, database
  <2>3. CASE queue[o] = <<>> /\ RunDone(o)
    <3>1. \A a \in Registered : version[a] = Goal(c)
      BY <1>9, <2>3 DEF PlanSchema, Done
    <3>2. left'[o] = Tail(l) /\ pc'[o] = "run"
      BY <2>3 DEF RunDone, TypeInv, TypeOK
    <3>3. ~ ConfigDue(left'[o]) => ~ ConfigDue(l)
      BY <1>1, <2>1, <3>2, DueFacts
    <3> QED
      BY <1>1, <1>2, <2>2, <3>1, <3>2, <3>3 DEF Done, Registered
  <2>4. CASE queue[o] # <<>> /\ Plan(c, version[Head(queue[o])]) = "nothing"
             /\ SchemaDone(o) /\ UNCHANGED left
    <3>1. Head(queue[o]) \in Agencies
      <4>1. queue[o] \in Seq(Agencies) /\ queue[o] # <<>>
        BY <2>4 DEF TypeInv, TypeOK
      <4> QED
        BY <4>1
    <3>2. version[Head(queue[o])] = Goal(c)
      BY <1>1, <2>4, <3>1 DEF Plan, Goal, Commands, TypeInv, TypeOK
    <3>3. pc[o] = "schema"
      BY <1>9 DEF PlanSchema
    <3> QED
      BY <1>8, <2>2, <2>4, <3>2, <3>3
  <2>5. CASE Abort(o)
    BY <1>3, <2>2, <2>5 DEF Abort, TypeInv, TypeOK
  <2>6. CASE queue[o] # <<>> /\ Goto(o, "schema script") /\ UNCHANGED <<left, queue>>
    <3>1. left'[o] = l /\ queue'[o] = queue[o] /\ Registered' = Registered
      BY <2>2, <2>6 DEF Registered
    <3>2. pc[o] = "schema"
      BY <1>9 DEF PlanSchema
    <3> QED
      BY <1>1, <1>2, <2>2, <3>1, <3>2 DEF Done
  <2> QED
    BY <1>9, <2>3, <2>4, <2>5, <2>6 DEF PlanSchema
<1>10. CASE RunSchema(o)
  <2>1. UNCHANGED <<config, agencies>> /\ pc[o] = "schema script" /\ queue[o] # <<>>
    BY <1>10 DEF RunSchema, TypeInv, Placed
  <2>2. Head(queue[o]) \in Agencies
    <3>1. queue[o] \in Seq(Agencies) /\ queue[o] # <<>>
      BY <2>1 DEF TypeInv, TypeOK
    <3> QED
      BY <3>1
  <2>3. CASE Abort(o) /\ UNCHANGED <<tables, guarded, version, queue>>
    BY <1>3, <2>1, <2>3 DEF Abort, TypeInv, TypeOK
  <2>4. CASE c.kind = "upgrade" /\ UpgradeSchema(Head(queue[o])) /\ SchemaDone(o) /\ UNCHANGED left
    <3>1. /\ version'[Head(queue[o])] = Goal(c)
          /\ \A a \in Agencies : a # Head(queue[o]) => version'[a] = version[a]
      BY <2>2, <2>4 DEF UpgradeSchema, Goal, TypeInv, TypeOK
    <3> QED
      BY <1>8, <2>1, <2>4, <3>1
  <2>5. CASE c.kind # "upgrade" /\ DowngradeSchema(Head(queue[o])) /\ SchemaDone(o) /\ UNCHANGED left
    <3>1. /\ version'[Head(queue[o])] = Goal(c)
          /\ \A a \in Agencies : a # Head(queue[o]) => version'[a] = version[a]
      BY <2>2, <2>5 DEF DowngradeSchema, Goal, TypeInv, TypeOK
    <3> QED
      BY <1>8, <2>1, <2>5, <3>1
  <2> QED
    BY <1>10, <2>3, <2>4, <2>5 DEF RunSchema
<1>11. CASE Die(o)
  BY <1>3, <1>11 DEF Die, Abort, database, TypeInv, TypeOK
<1> QED
  BY <1>4, <1>5, <1>6, <1>7, <1>9, <1>10, <1>11 DEF Progress

LEMMA DoneStep == TypeInv /\ DoneInv /\ [Next]_vars => DoneInv'
<1> SUFFICES ASSUME TypeInv, DoneInv, [Next]_vars, NEW o \in Operators, alone'[o]
             PROVE  Done(o)'
  BY DEF DoneInv
<1>1. ASSUME NEW q \in Operators, Progress(q) \/ Die(q) PROVE Done(o)'
  <2>1. alone' = alone /\ pc[q] \notin Stopped
    BY <1>1 DEF Progress, NextRun, PlanConfig, RunConfig, ListAgencies, PlanSchema,
                RunSchema, Die, Stopped
  <2>2. Done(o)
    BY <2>1 DEF DoneInv
  <2>3. q = o
    BY <2>1, <2>2 DEF Done
  <2> QED
    BY <1>1, <2>2, <2>3, OwnStep
<1>2. ASSUME NEW q \in Operators, NEW c \in Commands, Begin(q, c) PROVE Done(o)'
  <2>1. q = o /\ \A r \in Operators \ {q} : pc[r] \in Stopped
    BY <1>2 DEF Begin
  <2>2. cmd'[o] = c /\ left'[o] = Order(c) /\ pc' = [pc EXCEPT ![o] = "run"]
    BY <1>2, <2>1 DEF Begin, Goto, TypeInv, TypeOK
  <2>3. /\ c.target \in {"config", "all"} => ConfigDue(Order(c))
        /\ c.target \in {"agency", "all"} => AgencyDue(Order(c))
    BY DEF Order, ConfigDue, AgencyDue, Both
  <2>4. pc'[o] = "run" /\ \A r \in Operators \ {o} : pc'[r] \in Stopped
    BY <2>1, <2>2 DEF TypeInv, TypeOK
  <2> QED
    BY <2>2, <2>3, <2>4 DEF Done
<1>3. ASSUME NEW a \in Agencies, CreateTables(a) \/ Register(a) PROVE FALSE
  BY <1>3 DEF CreateTables, Register, Outside
<1>4. CASE UNCHANGED vars
  <2>1. Done(o)
    BY <1>4 DEF vars, DoneInv
  <2> QED
    <3>1. Registered' = Registered
      BY <1>4 DEF vars, Registered
    <3>2. UNCHANGED <<config, version, cmd, pc, left, queue>>
      BY <1>4 DEF vars
    <3> QED
      BY <2>1, <3>1, <3>2 DEF Done
<1> QED
  BY <1>1, <1>2, <1>3, <1>4 DEF Next

LEMMA DoneInvariance == Spec => [](TypeInv /\ DoneInv)
<1>1. Init => DoneInv
  BY DEF Init, DoneInv
<1> QED
  BY <1>1, DoneStep, TypeInvariance, PTL DEF Spec

(* A downgrade of everything drops the list of agencies last.               *)
THEOREM ConfigGoesLast == Spec => []ConfigLast
<1>1. TypeInv /\ DoneInv => ConfigLast
  <2> SUFFICES ASSUME TypeInv, DoneInv, NEW o \in Operators,
                      pc[o] = "config script", cmd[o].kind = "downgrade",
                      cmd[o].target = "all", alone[o], NEW a \in Registered
               PROVE  version[a] = "base"
    BY DEF ConfigLast
  <2>1. cmd[o] \in Commands /\ RestOf(cmd[o], left[o]) /\ left[o] # <<>> /\ Head(left[o]) = "config"
    BY DEF TypeInv, TypeOK, Placed
  <2>2. ~ AgencyDue(left[o])
    BY <2>1, DueFacts
  <2>3. Done(o)
    BY DEF DoneInv
  <2> QED
    BY <2>2, <2>3 DEF Done, Goal
<1> QED
  BY <1>1, DoneInvariance, PTL

(* Exit code 0 means the command did what it says.                          *)
THEOREM ExitCodeIsTrue == Spec => []ExitMeansDone
<1>1. TypeInv /\ DoneInv => ExitMeansDone
  <2> SUFFICES ASSUME TypeInv, DoneInv, NEW o \in Operators, pc[o] = "ok", alone[o]
               PROVE  /\ cmd[o].target \in {"config", "all"} => config = Goal(cmd[o])
                      /\ cmd[o].target \in {"agency", "all"} =>
                           \A a \in Registered : version[a] = Goal(cmd[o])
    BY DEF ExitMeansDone, Goal
  <2>1. left[o] = <<>>
    BY DEF TypeInv, Placed
  <2>2. ~ ConfigDue(<<>>) /\ ~ AgencyDue(<<>>)
    BY DEF ConfigDue, AgencyDue, Both
  <2>3. Done(o)
    BY DEF DoneInv
  <2> QED
    BY <2>1, <2>2, <2>3 DEF Done
<1> QED
  BY <1>1, DoneInvariance, PTL
=============================================================================
