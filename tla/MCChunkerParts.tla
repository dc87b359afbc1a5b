--------------------------- MODULE MCChunkerParts ---------------------------
(***************************************************************************)
(* The small instance of Chunker and, side by side with it, of the two      *)
(* parts that make the rows its documents come from: Provisioning and       *)
(* DataLoad.  One part is in focus in a behaviour; the others stay where    *)
(* they began, so that the state spaces add up and do not multiply.  When   *)
(* the chunker is not in focus it first splits the empty document.          *)
(***************************************************************************)
EXTENDS MCChunker, MCDataLoad, ProvisioningConstants

VARIABLES
  focus,  \* the part this behaviour is about
  \* Provisioning
  config, agencies, tables, guarded, version, cmd, place, left, queue,
  commands, faults, outside, alone,
  \* DataLoad
  db, inactive, phase, files, step, written, directory, committed, done

provisioning ==
  <<config, agencies, tables, guarded, version, cmd, place, left, queue,
    commands, faults, outside, alone>>
load == <<db, inactive, phase, files, step, written, directory, committed, done>>

P == INSTANCE Provisioning WITH pc <- place
D == INSTANCE DataLoad

MCInit ==
  /\ focus \in {"chunker", "provisioning", "data load"}
  /\ Init /\ P!Init /\ D!Init
  /\ focus # "chunker" => document = <<>> /\ budget = 1

InFocus(part) == focus = part /\ pc = "done" /\ UNCHANGED <<focus, vars>>

Chunk     == Next /\ UNCHANGED <<focus, provisioning, load>>
Provision == InFocus("provisioning") /\ P!Next /\ UNCHANGED load
Load      == InFocus("data load") /\ D!Next /\ UNCHANGED provisioning

(* The fairness of FairSpec of Chunker and of FairSpec of Provisioning,     *)
(* while that part is in focus.                                             *)
MCSpec ==
  /\ MCInit /\ [][Chunk \/ Provision \/ Load]_<<focus, vars, provisioning, load>>
  /\ WF_vars(Next)
  /\ \A o \in Operators : WF_provisioning(InFocus("provisioning") /\ P!Progress(o))
  /\ WF_provisioning(InFocus("provisioning") /\ P!Begin(Deployer, P!UpgradeAll))

-----------------------------------------------------------------------------
(* The properties of Provisioning and DataLoad, where the comments say more. *)

(* The version row of a schema says the truth about its tables and triggers, *)
(* and the version file makes what the models declare.                      *)
VersionIsTrue == focus = "provisioning" => P!VersionIsTrue

(* An undisturbed downgrade of everything drops the config schema, and the  *)
(* list of agencies in it, only when every agency is at base.               *)
ConfigLast == focus = "provisioning" => P!ConfigLast

(* Exit code 0 of an undisturbed run_migrations means it is done.           *)
ExitMeansDone == focus = "provisioning" => P!ExitMeansDone

(* Running "upgrade" again reaches every agency create_tables did not block. *)
ReachesHead == focus = "provisioning" => P!ReachesHead

(* Each row, what it refers to and what discovery finds through it belong   *)
(* to the case of its document.                                             *)
StaysInCase == focus = "data load" => D!StaysInCase

(* The schema holds the rows of whole loads only, among them those that     *)
(* said "Done."                                                             *)
DoneMeansLoaded == focus = "data load" => D!DoneMeansLoaded

(* Loading again what was committed changes nothing and is not refused.     *)
RerunIsIdempotent == focus = "data load" => D!RerunIsIdempotent
=============================================================================
