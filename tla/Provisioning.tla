----------------------------- MODULE Provisioning -----------------------------
(***************************************************************************)
(* How an agency gets its tables: run_migrations (Alembic for the config    *)
(* schema, then for the schema of every registered agency), the             *)
(* create_tables script, and agencies being registered, by several          *)
(* operators at once and with commands that die half way.                   *)
(*                                                                          *)
(* There is one config revision and one agency revision, so a schema's      *)
(* version is "base" or "head".  The config migration and the migration of  *)
(* each agency schema are one transaction each: the version row, the tables *)
(* and the triggers change together or not at all; the schemas already      *)
(* migrated by a command that fails stay migrated.  Two transactions on one *)
(* schema are serialised by their table locks, the second finding what the  *)
(* first committed; what an operator read before (the version, the list of  *)
(* agencies) may be stale by then.                                          *)
(*                                                                          *)
(* "revision" (writing a new version file) is not modelled.                 *)
(***************************************************************************)
EXTENDS Naturals, Sequences, FiniteSets, AgencyVersion, ProvisioningConstants

VARIABLES
  config,    \* version of the config schema
  agencies,  \* config.agencies in the order of agency_id
  tables,    \* tables[a]: the tables in schema a
  guarded,   \* guarded[a]: those with an optimistic_lock trigger, by name
  version,   \* version[a]: what a.alembic_version says
  cmd,       \* the command an operator runs
  pc, left, queue,  \* its place; Alembic runs left; schemas left in this run
  commands, faults, outside,
  alone      \* history: nobody else changed anything since o's command began

database == <<config, agencies, tables, guarded, version>>
vars == <<config, agencies, tables, guarded, version, cmd, pc, left, queue,
          commands, faults, outside, alone>>

Targets  == {"config", "agency", "all"}
Commands == [kind : {"upgrade"}, revision : {"head"}, target : Targets]
       \cup [kind : {"downgrade"}, revision : {"base", "-1"}, target : Targets]
UpgradeAll == [kind |-> "upgrade", revision |-> "head", target |-> "all"]

Stopped == {"idle", "ok", "failed"}

Init ==
  /\ config = "base" /\ agencies = <<>>
  /\ tables = [a \in Agencies |-> {}]
  /\ guarded = [a \in Agencies |-> {}]
  /\ version = [a \in Agencies |-> "base"]
  /\ cmd = [o \in Operators |-> UpgradeAll]
  /\ pc = [o \in Operators |-> "idle"]
  /\ left = [o \in Operators |-> <<>>]
  /\ queue = [o \in Operators |-> <<>>]
  /\ commands = 0 /\ faults = 0 /\ outside = 0
  /\ alone = [o \in Operators |-> FALSE]

Registered == {agencies[i] : i \in DOMAIN agencies}

Goto(o, place) == pc' = [pc EXCEPT ![o] = place]

-----------------------------------------------------------------------------
(* run_migrations                                                           *)

(* Mutant of Order: a downgrade runs in the order of an upgrade.            *)
OrderUpgrade(c) == IF c.target = "all" THEN <<"config", "agency">> ELSE <<c.target>>

(* run_all: dependency order, reversed for a downgrade.                     *)
Order(c) ==
  IF c.target # "all" THEN <<c.target>>
  ELSE IF c.kind = "upgrade" THEN <<"config", "agency">> ELSE <<"agency", "config">>

(* main                                                                     *)
Begin(o, c) ==
  /\ pc[o] \in Stopped
  /\ \/ o = Deployer /\ c = UpgradeAll /\ UNCHANGED commands
     \/ commands < MaxCommands /\ commands' = commands + 1
  /\ cmd' = [cmd EXCEPT ![o] = c]
  /\ left' = [left EXCEPT ![o] = Order(c)]
  /\ queue' = [queue EXCEPT ![o] = <<>>]
  /\ Goto(o, "run")
  /\ alone' = [q \in Operators |-> q = o /\ \A r \in Operators \ {o} : pc[r] \in Stopped]
  /\ UNCHANGED <<database, faults, outside>>

(* The next Alembic run, or exit 0.                                         *)
NextRun(o) ==
  /\ pc[o] = "run"
  /\ Goto(o, IF left[o] = <<>> THEN "ok"
             ELSE IF Head(left[o]) = "config" THEN "config" ELSE "list")
  /\ UNCHANGED <<database, cmd, left, queue, commands, faults, outside, alone>>

RunDone(o) == left' = [left EXCEPT ![o] = Tail(@)] /\ Goto(o, "run")

(* Mutant of Abort: the exit code of Alembic is not looked at.              *)
AbortIgnored(o) == RunDone(o)

(* run_command: sys.exit with Alembic's exit code; what is left is not run. *)
Abort(o) == Goto(o, "failed") /\ UNCHANGED left

(* What Alembic does to reach c.revision from the version it reads: nothing,*)
(* the one script, or (a relative step below base) an error.                *)
Plan(c, at) ==
  CASE c.kind = "upgrade"    -> IF at = "head" THEN "nothing" ELSE "script"
    [] c.revision = "base"   -> IF at = "base" THEN "nothing" ELSE "script"
    [] c.revision = "-1"     -> IF at = "base" THEN "error" ELSE "script"

(* config/env.py                                                            *)
PlanConfig(o) ==
  LET plan == Plan(cmd[o], config) IN
  /\ pc[o] = "config"
  /\ \/ plan = "nothing" /\ RunDone(o)
     \/ plan = "error" /\ Abort(o)
     \/ plan = "script" /\ Goto(o, "config script") /\ UNCHANGED left
  /\ UNCHANGED <<database, cmd, queue, commands, faults, outside, alone>>

(* upgrade(): the tables, their triggers and the first agency.              *)
UpgradeConfig ==
  config = "base" /\ config' = "head" /\ agencies' = <<Seed>>

(* downgrade(): the tables, and with them every registration.               *)
DowngradeConfig ==
  config = "head" /\ config' = "base" /\ agencies' = <<>>

(* The script fails when somebody else ran it since the version was read.   *)
RunConfig(o) ==
  LET up == cmd[o].kind = "upgrade" IN
  /\ pc[o] = "config script"
  /\ \/ up /\ UpgradeConfig /\ RunDone(o)
     \/ ~ up /\ DowngradeConfig /\ RunDone(o)
     \/ config = (IF up THEN "head" ELSE "base") /\ Abort(o) /\ UNCHANGED <<config, agencies>>
  /\ UNCHANGED <<tables, guarded, version, cmd, queue, commands, faults, outside, alone>>

(* agency/env.py: get_agency_schemas, once per run.                         *)
ListAgencies(o) ==
  /\ pc[o] = "list"
  /\ \/ /\ config = "head"
        /\ queue' = [queue EXCEPT ![o] = agencies] /\ Goto(o, "schema")
        /\ UNCHANGED left
     \/ config = "base" /\ Abort(o) /\ UNCHANGED queue
  /\ UNCHANGED <<database, cmd, commands, faults, outside, alone>>

SchemaDone(o) == queue' = [queue EXCEPT ![o] = Tail(@)] /\ Goto(o, "schema")

PlanSchema(o) ==
  LET plan == Plan(cmd[o], version[Head(queue[o])]) IN
  /\ pc[o] = "schema"
  /\ \/ queue[o] = <<>> /\ RunDone(o) /\ UNCHANGED queue
     \/ queue[o] # <<>> /\ plan = "nothing" /\ SchemaDone(o) /\ UNCHANGED left
     \/ queue[o] # <<>> /\ plan = "error" /\ Abort(o) /\ UNCHANGED queue
     \/ queue[o] # <<>> /\ plan = "script" /\ Goto(o, "schema script") /\ UNCHANGED <<left, queue>>
  /\ UNCHANGED <<database, cmd, commands, faults, outside, alone>>

(* The agency version on schema a, tables, triggers and version row at once.*)
UpgradeSchema(a) ==
  /\ UpgradeRuns(tables[a])
  /\ tables' = [tables EXCEPT ![a] = @ \cup Created]
  /\ guarded' = [guarded EXCEPT ![a] = @ \cup Names(Created)]
  /\ version' = [version EXCEPT ![a] = "head"]

DowngradeSchema(a) ==
  /\ DowngradeRuns(tables[a])
  /\ tables' = [tables EXCEPT ![a] = {t \in @ : t.name \notin Dropped}]
  /\ guarded' = [guarded EXCEPT ![a] = @ \ Dropped]
  /\ version' = [version EXCEPT ![a] = "base"]

RunSchema(o) ==
  LET a == Head(queue[o])
      up == cmd[o].kind = "upgrade" IN
  /\ pc[o] = "schema script"
  /\ \/ up /\ UpgradeSchema(a) /\ SchemaDone(o) /\ UNCHANGED left
     \/ ~ up /\ DowngradeSchema(a) /\ SchemaDone(o) /\ UNCHANGED left
     \/ /\ IF up THEN ~ UpgradeRuns(tables[a]) ELSE ~ DowngradeRuns(tables[a])
        /\ Abort(o) /\ UNCHANGED <<tables, guarded, version, queue>>
  /\ UNCHANGED <<config, agencies, cmd, commands, faults, outside, alone>>

(* A command dies anywhere: its open transaction is rolled back.            *)
Die(o) ==
  /\ pc[o] \notin Stopped /\ faults < MaxFaults /\ faults' = faults + 1
  /\ Abort(o)
  /\ UNCHANGED <<database, cmd, queue, commands, outside, alone>>

-----------------------------------------------------------------------------
(* Outside the migrations                                                   *)

Outside ==
  /\ outside < MaxOutside /\ outside' = outside + 1
  /\ alone' = [o \in Operators |-> FALSE]
  /\ UNCHANGED <<config, version, guarded, cmd, pc, left, queue, commands, faults>>

(* create_tables.py: the schema and the tables it lacks (checkfirst), from  *)
(* the models; no trigger and no version row.                               *)
CreateTables(a) ==
  /\ Outside
  /\ tables' = [tables EXCEPT ![a] =
       @ \cup {t \in Models : t.name \notin Names(@)}]
  /\ UNCHANGED agencies

(* A row is inserted into config.agencies.                                  *)
Register(a) ==
  /\ Outside
  /\ config = "head" /\ a \notin Registered
  /\ agencies' = Append(agencies, a)
  /\ UNCHANGED tables

-----------------------------------------------------------------------------
Progress(o) ==
  \/ NextRun(o) \/ PlanConfig(o) \/ RunConfig(o) \/ ListAgencies(o)
  \/ PlanSchema(o) \/ RunSchema(o)

Next ==
  \/ \E o \in Operators : (\E c \in Commands : Begin(o, c)) \/ Progress(o) \/ Die(o)
  \/ \E a \in Agencies : CreateTables(a) \/ Register(a)

Spec == Init /\ [][Next]_vars

(* Commands run to their end, and the deployer runs upgrade again.          *)
FairSpec ==
  /\ Spec
  /\ \A o \in Operators : WF_vars(Progress(o))
  /\ WF_vars(Begin(Deployer, UpgradeAll))

-----------------------------------------------------------------------------
TypeOK ==
  /\ config \in {"base", "head"}
  /\ agencies \in Seq(Agencies)
  /\ tables \in [Agencies -> SUBSET (Models \cup Created)]
  /\ guarded \in [Agencies -> SUBSET Names(Created)]
  /\ version \in [Agencies -> {"base", "head"}]
  /\ cmd \in [Operators -> Commands]
  /\ pc \in [Operators -> Stopped \cup {"run", "config", "config script", "list",
                                        "schema", "schema script"}]
  /\ left \in [Operators -> Seq({"config", "agency"})]
  /\ queue \in [Operators -> Seq(Agencies)]
  /\ commands \in 0 .. MaxCommands /\ faults \in 0 .. MaxFaults
  /\ outside \in 0 .. MaxOutside
  /\ alone \in [Operators -> BOOLEAN]

(* The version row says the truth about a schema whatever commands raced or *)
(* died on it: at head it has every table of the models -- the ones a       *)
(* create_tables run would make, no drift -- each with its optimistic_lock  *)
(* trigger; at base it has no trigger, and all of the models' tables or     *)
(* none.                                                                    *)
VersionIsTrue ==
  \A a \in Agencies :
    IF version[a] = "head"
    THEN tables[a] = Models /\ guarded[a] = Names(Models)
    ELSE tables[a] \in {{}, Models} /\ guarded[a] = {}

(* A downgrade of everything that nobody interfered with never reaches the  *)
(* drop of the config schema, which loses the list of agencies, while an    *)
(* agency on that list still is at head.                                    *)
ConfigLast ==
  \A o \in Operators :
    pc[o] = "config script" /\ cmd[o].kind = "downgrade" /\ cmd[o].target = "all" /\ alone[o]
      => \A a \in Registered : version[a] = "base"

(* Exit code 0 means the command did what it says, for config and for every *)
(* registered agency, if nobody interfered.                                 *)
ExitMeansDone ==
  \A o \in Operators :
    LET goal == IF cmd[o].kind = "upgrade" THEN "head" ELSE "base" IN
    pc[o] = "ok" /\ alone[o] =>
      /\ cmd[o].target \in {"config", "all"} => config = goal
      /\ cmd[o].target \in {"agency", "all"} => \A a \in Registered : version[a] = goal

(* An agency whose tables create_tables made stops the migration of its own *)
(* schema and of every agency after it.                                     *)
Blocked(a) ==
  \E i, j \in DOMAIN agencies :
    i <= j /\ agencies[j] = a
    /\ version[agencies[i]] = "base" /\ tables[agencies[i]] # {}

(* However commands raced and died, running upgrade again brings every      *)
(* registered agency that is not blocked to head, and keeps it there.       *)
ReachesHead ==
  \A a \in Agencies :
    <>[](config = "head" /\ (a \in Registered /\ ~ Blocked(a) => version[a] = "head"))
=============================================================================
