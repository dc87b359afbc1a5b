------------------------------ MODULE MCDataLoad ------------------------------
(***************************************************************************)
(* Three cases of two source systems that use the same integers.  Integers  *)
(* below 100 are legacy ids, those above are UUIDs (the hundreds name the   *)
(* case); the case of hundred 1 comes in two versions, of which the second  *)
(* has a new disposition of the same charge, and the case of hundred 3      *)
(* refers to a charge it does not have and has the ticket of hundred 2's.   *)
(***************************************************************************)
EXTENDS CaseRows, TLC

CONSTANT nothing  \* NULL

Empty == [criminal |-> {}, vehicles |-> {}, parties |-> {}, charges |-> {},
          charge_dispositions |-> {}, hearings |-> {}, payments |-> {}, sanctions |-> {}]

Disposition(uuid) ==
  [id |-> 4, uuid |-> 104, case_record_id |-> 1, imposed_disposition |-> {[id |-> uuid % 100, uuid |-> uuid]}]

Full ==
  [Empty EXCEPT
     !.criminal = {[id |-> 9, uuid |-> 109, case_record_id |-> 1]},
     !.parties = {[id |-> 2, uuid |-> 102, case_record_id |-> 1,
                   addresses |-> {[id |-> 3, uuid |-> 103, party_detail_id |-> 2, is_default |-> TRUE]}]},
     !.charges = {[id |-> 4, uuid |-> 104]},
     !.charge_dispositions = {Disposition(105)},
     !.hearings = {[id |-> 7, uuid |-> 107, case_record_id |-> 1,
                    legal_representative_id |-> 2, next_case_appearance_id |-> nothing]},
     !.sanctions = {[id |-> 6, uuid |-> 106, case_record_id |-> 1, case_charge_id |-> 4]}]

case1 == [id |-> 1, uuid |-> 101, ticket_number |-> 11] @@ Full
case1v2 == [case1 EXCEPT !.charge_dispositions = {Disposition(115)}]

case2 ==
  [id |-> 1, uuid |-> 201, ticket_number |-> 21] @@
  [Empty EXCEPT
     !.parties = {[id |-> 4, uuid |-> 204, case_record_id |-> 1, addresses |-> {}]},
     !.vehicles = {[id |-> 5, uuid |-> 205, case_record_id |-> 1],
                   [id |-> 8, uuid |-> 208, case_record_id |-> 1]},
     !.payments = {[id |-> 3, uuid |-> 203]},
     !.sanctions = {[id |-> 6, uuid |-> 206, case_record_id |-> 1, case_charge_id |-> nothing]}]

case3 ==
  [id |-> 2, uuid |-> 302, ticket_number |-> 21] @@
  [Empty EXCEPT
     !.sanctions = {[id |-> 6, uuid |-> 306, case_record_id |-> 2, case_charge_id |-> 4]}]

MCCases == {case1, case1v2, case2, case3}
MCDirectories ==
  {<<<<case1, case2>>>>, <<<<case2>>, <<case1>>>>, <<<<case1v2>>>>, <<<<case1>>, <<case3>>>>}
MCUuids == 100 .. 399
=============================================================================
