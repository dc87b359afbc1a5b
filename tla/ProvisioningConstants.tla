------------------------ MODULE ProvisioningConstants ------------------------
(* The parameters of Provisioning.                                          *)
EXTENDS Naturals

CONSTANTS
  Agencies,     \* names agencies may have
  Seed,         \* southern_ute, registered by the config version itself
  Operators,    \* people or jobs that run commands
  Deployer,     \* the one that keeps running "upgrade" until it succeeds
  MaxCommands,  \* bound: other commands
  MaxFaults,    \* bound: commands that die on a lost connection or a kill
  MaxOutside    \* bound: create_tables runs and registrations

ASSUME ProvisioningAssumption ==
  /\ Seed \in Agencies /\ Deployer \in Operators
  /\ MaxCommands \in Nat /\ MaxFaults \in Nat /\ MaxOutside \in Nat
=============================================================================
