-------------------------- MODULE ChatServiceProofs --------------------------
(***************************************************************************)
(* Proofs about the chat service for every set of requests, connections    *)
(* and tool calls, every assignment of agencies and sessions, and every    *)
(* number of faults.                                                       *)
(***************************************************************************)
EXTENDS ChatService, TLAPS

(* Holders are told apart by their request and by what they do in it.       *)
LEMMA HoldersDiffer ==
  /\ \A r \in Requests : Run(r) \in Holders /\ Run(r) # Nobody
  /\ \A r \in Requests, t \in Tools : <<r, t>> \in Holders /\ <<r, t>> # Nobody
  /\ \A r, q \in Requests : Run(r) = Run(q) => r = q
  /\ \A r, q \in Requests, t \in Tools : Run(r) # <<q, t>>
  /\ \A r, q \in Requests, t, u \in Tools : <<r, t>> = <<q, u>> => r = q /\ t = u
BY ServiceAssumption DEF Run, Holders

(* Taking a connection makes one more holder, with one connection.          *)
LEMMA Taken ==
  ASSUME TypeOK, HeldByWorkers, NEW h \in Holders, ~Holds(h), Take(h)
  PROVE  /\ \A k \in Holders : Holds(k)' <=> k = h \/ Holds(k)
         /\ \A c, d \in Conns : owner'[c] = owner'[d] /\ owner'[c] # Nobody => c = d
         /\ \A c \in Conns : owner'[c] \in {h, owner[c]}
         /\ \A c \in Conns : owner'[c] # owner[c] => owner[c] = Nobody
         /\ owner' \in [Conns -> Holders \cup {Nobody}]
BY ServiceAssumption DEF TypeOK, HeldByWorkers, Holds, Take

(* Letting go makes one holder less and leaves the others theirs.           *)
LEMMA Released ==
  ASSUME TypeOK, HeldByWorkers, NEW h \in Holders, LetGo(h)
  PROVE  /\ \A k \in Holders : Holds(k)' <=> k # h /\ Holds(k)
         /\ \A c, d \in Conns : owner'[c] = owner'[d] /\ owner'[c] # Nobody => c = d
         /\ \A c \in Conns : owner'[c] \in {Nobody, owner[c]}
         /\ \A c \in Conns : owner[c] # h => owner'[c] = owner[c]
         /\ \A c \in Conns : owner[c] = h => owner'[c] = Nobody
         /\ owner' \in [Conns -> Holders \cup {Nobody}]
BY ServiceAssumption DEF TypeOK, HeldByWorkers, Holds, LetGo

(* Only the holder's connection is set.                                     *)
LEMMA WasSet ==
  ASSUME TypeOK, NEW h, NEW s \in [Conns -> Settings], Set(h, s)
  PROVE  /\ setting' \in [Conns -> Settings]
         /\ \A c \in Conns : setting'[c] = IF owner[c] = h THEN s[c] ELSE setting[c]
BY DEF TypeOK, Set

(* The values the checkpointer gives a connection.                          *)
LEMMA SettingsGiven ==
  ASSUME TypeOK
  PROVE  /\ Fresh \in Settings
         /\ [c \in Conns |-> Fresh] \in [Conns -> Settings]
         /\ [c \in Conns |-> [setting[c] EXCEPT !.autocommit = TRUE,
                                                !.dictRows = TRUE]]
              \in [Conns -> Settings]
         /\ \A r \in Requests : /\ Pinned(r) \in [Conns -> Settings]
                                /\ Restored(r) \in [Conns -> Settings]
         /\ \A reset \in BOOLEAN :
              [c \in Conns |-> [setting[c] EXCEPT
                                  !.path = IF reset THEN Public ELSE @]]
                \in [Conns -> Settings]
<1> USE ServiceAssumption DEF TypeOK, Settings, Schemas
<1>1. Fresh \in Settings /\ [c \in Conns |-> Fresh] \in [Conns -> Settings]
  BY DEF Fresh
<1>2. [c \in Conns |-> [setting[c] EXCEPT !.autocommit = TRUE, !.dictRows = TRUE]]
        \in [Conns -> Settings]
  OBVIOUS
<1>3. \A r \in Requests : Pinned(r) \in [Conns -> Settings]
  BY DEF Pinned
<1>4. \A r \in Requests : Restored(r) \in [Conns -> Settings]
  BY DEF Restored
<1>5. \A reset \in BOOLEAN :
        [c \in Conns |-> [setting[c] EXCEPT !.path = IF reset THEN Public ELSE @]]
          \in [Conns -> Settings]
  OBVIOUS
<1> QED BY <1>1, <1>2, <1>3, <1>4, <1>5

LEMMA InitOK == Init => ServiceInv
<1> SUFFICES ASSUME Init PROVE ServiceInv
  OBVIOUS
<1> USE ServiceAssumption
<1>1. TypeOK
  <2>1. setting \in [Conns -> Settings]
    BY DEF Init, Settings, Fresh, Schemas
  <2>2. "arriving" \in Locations /\ "unused" \in CallStages
    BY DEF Locations, CallStages
  <2>3. 0 \in 0 .. MaxFaults
    OBVIOUS
  <2> QED BY <2>1, <2>2, <2>3 DEF Init, TypeOK
<1>2. HeldByWorkers
  BY HoldersDiffer
  DEF Init, HeldByWorkers, Holds, Borrowing, Saving, Restoring
<1>3. PathInv /\ TablesReady /\ CleanInv
  BY DEF Init, PathInv, TablesReady, CleanInv, Saving, Restoring, Tuned
<1>4. HistoryInv
  BY DEF Init, HistoryInv, Saved, Active
<1> QED BY <1>1, <1>2, <1>3, <1>4 DEF ServiceInv

(* A step that neither takes nor returns a connection leaves the holders.   *)
LEMMA SameHolders ==
  ASSUME UNCHANGED owner
  PROVE  \A k \in Holders : Holds(k)' <=> Holds(k)
BY DEF Holds

(* Where requests and their calls can be.                                   *)
LEMMA Places ==
  ASSUME TypeOK
  PROVE  /\ pc \in [Requests -> Locations]
         /\ call \in [Requests -> [Tools -> CallStages]]
BY DEF TypeOK

(* A connection is taken and given back together with the step of its holder. *)
LEMMA HolderStep ==
  ASSUME ServiceInv, [Next]_vars
  PROVE  HeldByWorkers'
<1> USE ServiceAssumption DEF ServiceInv, poolVars, dbVars
<1>1. CASE UNCHANGED vars
  <2>1. \A k \in Holders : Holds(k)' <=> Holds(k)
    BY <1>1, SameHolders DEF vars
  <2> QED BY <1>1, Places, <2>1, HoldersDiffer DEF vars, HeldByWorkers,
       Borrowing, Saving, Restoring, Ended, Calling
<1>2. ASSUME NEW r \in Requests, Arrive(r) PROVE HeldByWorkers'
  <2>1. ~Holds(Run(r))
    BY <1>2, HoldersDiffer DEF Arrive, HeldByWorkers, Borrowing, Saving,
         Restoring, Ended
  <2>2. Take(Run(r))
    BY <1>2 DEF Arrive
  <2>3. \A k \in Holders : Holds(k)' <=> k = Run(r) \/ Holds(k)
    BY <2>1, <2>2, Taken, HoldersDiffer
  <2>4. \A c, d \in Conns : owner'[c] = owner'[d] /\ owner'[c] # Nobody => c = d
    BY <2>1, <2>2, Taken, HoldersDiffer
  <2> QED BY <1>2, Places, <2>3, <2>4, HoldersDiffer DEF Arrive, Goto,
       HeldByWorkers, Borrowing, Saving, Restoring, Ended, Calling
<1>3. ASSUME NEW r \in Requests, Validated(r) PROVE HeldByWorkers'
  <2>1. LetGo(Run(r))
    BY <1>3 DEF Validated
  <2>3. \A k \in Holders : Holds(k)' <=> k # Run(r) /\ Holds(k)
    BY <2>1, Released, HoldersDiffer
  <2>4. \A c, d \in Conns : owner'[c] = owner'[d] /\ owner'[c] # Nobody => c = d
    BY <2>1, Released, HoldersDiffer
  <2> QED BY <1>3, Places, <2>3, <2>4, HoldersDiffer DEF Validated, Goto,
       HeldByWorkers, Borrowing, Saving, Restoring, Ended, Calling
<1>4. ASSUME NEW r \in Requests, Rejected(r) PROVE HeldByWorkers'
  <2>1. LetGo(Run(r))
    BY <1>4 DEF Rejected
  <2>3. \A k \in Holders : Holds(k)' <=> k # Run(r) /\ Holds(k)
    BY <2>1, Released, HoldersDiffer
  <2>4. \A c, d \in Conns : owner'[c] = owner'[d] /\ owner'[c] # Nobody => c = d
    BY <2>1, Released, HoldersDiffer
  <2> QED BY <1>4, Places, <2>3, <2>4, HoldersDiffer DEF Rejected, Goto,
       HeldByWorkers, Borrowing, Saving, Restoring, Ended, Calling
<1>5. ASSUME NEW r \in Requests, WaitTimesOut(r) PROVE HeldByWorkers'
  <2>1. \A k \in Holders : Holds(k)' <=> Holds(k)
    BY <1>5, SameHolders DEF WaitTimesOut
  <2> QED BY <1>5, Places, <2>1, HoldersDiffer DEF WaitTimesOut, Goto,
       HeldByWorkers, Borrowing, Saving, Restoring, Ended, Calling
<1>6. ASSUME NEW r \in Requests, Connect(r) PROVE HeldByWorkers'
  <2>1. ~Holds(Run(r))
    BY <1>6, HoldersDiffer DEF Connect, HeldByWorkers, Borrowing, Saving,
         Restoring, Ended
  <2>2. Take(Run(r))
    BY <1>6 DEF Connect
  <2>3. \A k \in Holders : Holds(k)' <=> k = Run(r) \/ Holds(k)
    BY <2>1, <2>2, Taken, HoldersDiffer
  <2>4. \A c, d \in Conns : owner'[c] = owner'[d] /\ owner'[c] # Nobody => c = d
    BY <2>1, <2>2, Taken, HoldersDiffer
  <2> QED BY <1>6, Places, <2>3, <2>4, HoldersDiffer DEF Connect, Goto,
       HeldByWorkers, Borrowing, Saving, Restoring, Ended, Calling
<1>7. ASSUME NEW r \in Requests, Tune(r) PROVE HeldByWorkers'
  <2>1. \A k \in Holders : Holds(k)' <=> Holds(k)
    BY <1>7, SameHolders DEF Tune
  <2> QED BY <1>7, Places, <2>1, HoldersDiffer DEF Tune, Goto,
       HeldByWorkers, Borrowing, Saving, Restoring, Ended, Calling
<1>8. ASSUME NEW r \in Requests, TuneFails(r) PROVE HeldByWorkers'
  <2>1. LetGo(Run(r))
    BY <1>8 DEF TuneFails
  <2>3. \A k \in Holders : Holds(k)' <=> k # Run(r) /\ Holds(k)
    BY <2>1, Released, HoldersDiffer
  <2>4. \A c, d \in Conns : owner'[c] = owner'[d] /\ owner'[c] # Nobody => c = d
    BY <2>1, Released, HoldersDiffer
  <2> QED BY <1>8, Places, <2>3, <2>4, HoldersDiffer DEF TuneFails, Goto,
       HeldByWorkers, Borrowing, Saving, Restoring, Ended, Calling
<1>9. ASSUME NEW r \in Requests, Pin(r) PROVE HeldByWorkers'
  <2>1. \A k \in Holders : Holds(k)' <=> Holds(k)
    BY <1>9, SameHolders DEF Pin
  <2> QED BY <1>9, Places, <2>1, HoldersDiffer DEF Pin, Goto, HeldByWorkers,
       Borrowing, Saving, Restoring, Ended, Calling
<1>10. ASSUME NEW r \in Requests, Prepare(r) PROVE HeldByWorkers'
  <2>1. \A k \in Holders : Holds(k)' <=> Holds(k)
    BY <1>10, SameHolders DEF Prepare
  <2> QED BY <1>10, Places, <2>1, HoldersDiffer DEF Prepare, Goto,
       HeldByWorkers, Borrowing, Saving, Restoring, Ended, Calling
<1>11. ASSUME NEW r \in Requests, PrepareFails(r) PROVE HeldByWorkers'
  <2>1. \A k \in Holders : Holds(k)' <=> Holds(k)
    BY <1>11, SameHolders DEF PrepareFails
  <2> QED BY <1>11, Places, <2>1, HoldersDiffer DEF PrepareFails, Goto,
       HeldByWorkers, Borrowing, Saving, Restoring, Ended, Calling
<1>12. ASSUME NEW r \in Requests, Interrupt(r) PROVE HeldByWorkers'
  <2>1. \A k \in Holders : Holds(k)' <=> Holds(k)
    BY <1>12, SameHolders DEF Interrupt
  <2> QED BY <1>12, Places, <2>1, HoldersDiffer DEF Interrupt, Goto,
       HeldByWorkers, Borrowing, Saving, Restoring, Ended, Calling
<1>13. ASSUME NEW r \in Requests, Restore(r) PROVE HeldByWorkers'
  <2>1. LetGo(Run(r))
    BY <1>13 DEF Restore
  <2>3. \A k \in Holders : Holds(k)' <=> k # Run(r) /\ Holds(k)
    BY <2>1, Released, HoldersDiffer
  <2>4. \A c, d \in Conns : owner'[c] = owner'[d] /\ owner'[c] # Nobody => c = d
    BY <2>1, Released, HoldersDiffer
  <2> QED BY <1>13, Places, <2>3, <2>4, HoldersDiffer DEF Restore, Outcome,
       Goto, HeldByWorkers, Borrowing, Saving, Restoring, Ended, Calling
<1>14. ASSUME NEW r \in Requests, RestoreFails(r) PROVE HeldByWorkers'
  <2>1. LetGo(Run(r))
    BY <1>14 DEF RestoreFails
  <2>3. \A k \in Holders : Holds(k)' <=> k # Run(r) /\ Holds(k)
    BY <2>1, Released, HoldersDiffer
  <2>4. \A c, d \in Conns : owner'[c] = owner'[d] /\ owner'[c] # Nobody => c = d
    BY <2>1, Released, HoldersDiffer
  <2> QED BY <1>14, Places, <2>3, <2>4, HoldersDiffer DEF RestoreFails,
       Outcome, Goto, HeldByWorkers, Borrowing, Saving, Restoring, Ended, Calling
<1>15. ASSUME NEW r \in Requests, RestoreCancelled(r) PROVE HeldByWorkers'
  <2>1. LetGo(Run(r))
    BY <1>15 DEF RestoreCancelled
  <2>3. \A k \in Holders : Holds(k)' <=> k # Run(r) /\ Holds(k)
    BY <2>1, Released, HoldersDiffer
  <2>4. \A c, d \in Conns : owner'[c] = owner'[d] /\ owner'[c] # Nobody => c = d
    BY <2>1, Released, HoldersDiffer
  <2> QED BY <1>15, Places, <2>3, <2>4, HoldersDiffer DEF RestoreCancelled,
       Goto, HeldByWorkers, Borrowing, Saving, Restoring, Ended, Calling
<1>16. ASSUME NEW r \in Requests, ReadHistory(r) PROVE HeldByWorkers'
  <2>1. \A k \in Holders : Holds(k)' <=> Holds(k)
    BY <1>16, SameHolders DEF ReadHistory
  <2> QED BY <1>16, Places, <2>1, HoldersDiffer DEF ReadHistory, Goto,
       HeldByWorkers, Borrowing, Saving, Restoring, Ended, Calling
<1>17. ASSUME NEW r \in Requests, NodeDone(r) PROVE HeldByWorkers'
  <2>1. \A k \in Holders : Holds(k)' <=> Holds(k)
    BY <1>17, SameHolders DEF NodeDone
  <2> QED BY <1>17, Places, <2>1, HoldersDiffer DEF NodeDone, HeldByWorkers,
       Borrowing, Saving, Restoring, Ended, Calling
<1>18. ASSUME NEW r \in Requests, SaveAnswer(r) PROVE HeldByWorkers'
  <2>1. \A k \in Holders : Holds(k)' <=> Holds(k)
    BY <1>18, SameHolders DEF SaveAnswer
  <2> QED BY <1>18, Places, <2>1, HoldersDiffer DEF SaveAnswer, Goto,
       HeldByWorkers, Borrowing, Saving, Restoring, Ended, Calling
<1>19. ASSUME NEW r \in Requests, NEW t \in Tools, StartCall(r, t) PROVE HeldByWorkers'
  <2>1. \A k \in Holders : Holds(k)' <=> Holds(k)
    BY <1>19, SameHolders DEF StartCall
  <2> QED BY <1>19, Places, <2>1, HoldersDiffer DEF StartCall, CallIs,
       HeldByWorkers, Borrowing, Saving, Restoring, Ended, Calling
<1>20. ASSUME NEW r \in Requests, NEW t \in Tools, CallConnects(r, t) PROVE HeldByWorkers'
  <2>1. ~Holds(<<r, t>>)
    BY <1>20, HoldersDiffer DEF CallConnects, HeldByWorkers, Borrowing,
         Saving, Restoring, Ended
  <2>2. Take(<<r, t>>)
    BY <1>20 DEF CallConnects
  <2>3. \A k \in Holders : Holds(k)' <=> k = <<r, t>> \/ Holds(k)
    BY <2>1, <2>2, Taken, HoldersDiffer
  <2>4. \A c, d \in Conns : owner'[c] = owner'[d] /\ owner'[c] # Nobody => c = d
    BY <2>1, <2>2, Taken, HoldersDiffer
  <2> QED BY <1>20, Places, <2>3, <2>4, HoldersDiffer DEF CallConnects,
       CallIs, HeldByWorkers, Borrowing, Saving, Restoring, Ended, Calling
<1>21. ASSUME NEW r \in Requests, NEW t \in Tools, CallReturns(r, t) PROVE HeldByWorkers'
  <2>1. LetGo(<<r, t>>)
    BY <1>21 DEF CallReturns
  <2>3. \A k \in Holders : Holds(k)' <=> k # <<r, t>> /\ Holds(k)
    BY <2>1, Released, HoldersDiffer
  <2>4. \A c, d \in Conns : owner'[c] = owner'[d] /\ owner'[c] # Nobody => c = d
    BY <2>1, Released, HoldersDiffer
  <2> QED BY <1>21, Places, <2>3, <2>4, HoldersDiffer DEF CallReturns,
       CallIs, HeldByWorkers, Borrowing, Saving, Restoring, Ended, Calling
<1>22. ASSUME NEW r \in Requests, NEW t \in Tools, CallFails(r, t) PROVE HeldByWorkers'
  <2>1. LetGo(<<r, t>>)
    BY <1>22 DEF CallFails
  <2>3. \A k \in Holders : Holds(k)' <=> k # <<r, t>> /\ Holds(k)
    BY <2>1, Released, HoldersDiffer
  <2>4. \A c, d \in Conns : owner'[c] = owner'[d] /\ owner'[c] # Nobody => c = d
    BY <2>1, Released, HoldersDiffer
  <2> QED BY <1>22, Places, <2>3, <2>4, HoldersDiffer DEF CallFails, CallIs,
       RunFails, HeldByWorkers, Borrowing, Saving, Restoring, Ended, Calling
<1>23. ASSUME NEW r \in Requests, NEW t \in Tools, CallGivesUp(r, t) PROVE HeldByWorkers'
  <2>1. \A k \in Holders : Holds(k)' <=> Holds(k)
    BY <1>23, SameHolders DEF CallGivesUp
  <2> QED BY <1>23, Places, <2>1, HoldersDiffer DEF CallGivesUp, CallIs,
       RunFails, HeldByWorkers, Borrowing, Saving, Restoring, Ended, Calling
<1>24. CASE Crash
  <2>1. \A h \in Holders : ~Holds(h)'
    BY <1>24, HoldersDiffer DEF Crash, Holds, Holders
  <2> QED BY <1>24, <2>1, HoldersDiffer DEF Crash, HeldByWorkers, Borrowing,
       Saving, Restoring, Ended, Calling
<1> QED
  BY <1>1, <1>2, <1>3, <1>4, <1>5, <1>6, <1>7, <1>8, <1>9,
     <1>10, <1>11, <1>12, <1>13, <1>14, <1>15, <1>16, <1>17, <1>18,
     <1>19, <1>20, <1>21, <1>22, <1>23, <1>24
  DEF Next, Progress, Failure, CallEnds

(* Nobody else changes the search_path of a run.                            *)
LEMMA PathStep ==
  ASSUME ServiceInv, [Next]_vars
  PROVE  PathInv'
<1> USE ServiceAssumption DEF ServiceInv, poolVars, dbVars
<1>1. CASE UNCHANGED vars
  <2> QED BY <1>1, Places, HoldersDiffer DEF vars, PathInv, Borrowing,
     Saving, Restoring, Ended
<1>2. ASSUME NEW r \in Requests, Arrive(r) PROVE PathInv'
  <2>1. (\A c \in Conns : owner'[c] \in {Run(r), owner[c]}) /\ UNCHANGED setting
    BY <1>2, HoldersDiffer DEF Arrive, Take, TypeOK
  <2> QED BY <1>2, Places, <2>1, HoldersDiffer DEF Arrive, Goto, PathInv,
     Borrowing, Saving, Restoring, Ended
<1>3. ASSUME NEW r \in Requests, Validated(r) PROVE PathInv'
  <2>1. \A c \in Conns : owner'[c] \in {Nobody, owner[c]} /\ owner'[c] # Run(r)
    BY <1>3, HoldersDiffer DEF Validated, LetGo, TypeOK
  <2> QED BY <1>3, Places, <2>1, HoldersDiffer DEF Validated, Goto,
     PathInv, Borrowing, Saving, Restoring, Ended
<1>4. ASSUME NEW r \in Requests, Rejected(r) PROVE PathInv'
  <2>1. \A c \in Conns : owner'[c] \in {Nobody, owner[c]} /\ owner'[c] # Run(r)
    BY <1>4, HoldersDiffer DEF Rejected, LetGo, TypeOK
  <2> QED BY <1>4, Places, <2>1, HoldersDiffer DEF Rejected, Goto,
     PathInv, Borrowing, Saving, Restoring, Ended
<1>5. ASSUME NEW r \in Requests, WaitTimesOut(r) PROVE PathInv'
  <2>1. UNCHANGED owner
    BY <1>5 DEF WaitTimesOut
  <2> QED BY <1>5, Places, <2>1, HoldersDiffer DEF WaitTimesOut, Goto,
     PathInv, Borrowing, Saving, Restoring, Ended
<1>6. ASSUME NEW r \in Requests, Connect(r) PROVE PathInv'
  <2>1. (\A c \in Conns : owner'[c] \in {Run(r), owner[c]}) /\ UNCHANGED setting
    BY <1>6, HoldersDiffer DEF Connect, Take, TypeOK
  <2> QED BY <1>6, Places, <2>1, HoldersDiffer DEF Connect, Goto, PathInv,
     Borrowing, Saving, Restoring, Ended
<1>7. ASSUME NEW r \in Requests, Tune(r) PROVE PathInv'
  <2>1. UNCHANGED owner /\ pc' = [pc EXCEPT ![r] = "pinning"]
    BY <1>7 DEF Tune, Goto
  <2>2. \A c \in Conns : owner[c] # Run(r) => setting'[c] = setting[c]
    BY <1>7 DEF Tune, Set
  <2> QED BY <2>1, <2>2, Places, HoldersDiffer
     DEF PathInv, Borrowing, Saving, Restoring, Ended
<1>8. ASSUME NEW r \in Requests, TuneFails(r) PROVE PathInv'
  <2>1. \A c \in Conns : owner'[c] \in {Nobody, owner[c]} /\ owner'[c] # Run(r)
    BY <1>8, HoldersDiffer DEF TuneFails, LetGo, TypeOK
  <2> QED BY <1>8, Places, <2>1, HoldersDiffer DEF TuneFails, Goto,
     PathInv, Borrowing, Saving, Restoring, Ended
<1>9. ASSUME NEW r \in Requests, Pin(r) PROVE PathInv'
  <2>1. UNCHANGED owner
    BY <1>9 DEF Pin
  <2>2. \A c \in Conns : owner[c] # Run(r) => setting'[c] = setting[c]
    BY <1>9 DEF Pin, Set
  <2>3. \A c \in Conns : owner[c] = Run(r) => setting'[c].path = AgencyOf[r]
    BY <1>9 DEF Pin, Set, Pinned, TypeOK, Settings
  <2> QED BY <1>9, Places, <2>1, <2>2, <2>3, HoldersDiffer DEF Pin, Goto,
     PathInv, Borrowing, Saving, Restoring, Ended
<1>10. ASSUME NEW r \in Requests, Prepare(r) PROVE PathInv'
  <2>1. UNCHANGED owner
    BY <1>10 DEF Prepare
  <2> QED BY <1>10, Places, <2>1, HoldersDiffer DEF Prepare, Goto, PathInv,
     Borrowing, Saving, Restoring, Ended
<1>11. ASSUME NEW r \in Requests, PrepareFails(r) PROVE PathInv'
  <2>1. UNCHANGED owner
    BY <1>11 DEF PrepareFails
  <2> QED BY <1>11, Places, <2>1, HoldersDiffer DEF PrepareFails, Goto,
     PathInv, Borrowing, Saving, Restoring, Ended
<1>12. ASSUME NEW r \in Requests, Interrupt(r) PROVE PathInv'
  <2>1. UNCHANGED owner
    BY <1>12 DEF Interrupt
  <2> QED BY <1>12, Places, <2>1, HoldersDiffer DEF Interrupt, Goto,
     PathInv, Borrowing, Saving, Restoring, Ended
<1>13. ASSUME NEW r \in Requests, Restore(r) PROVE PathInv'
  <2>1. \A c \in Conns : owner'[c] \in {Nobody, owner[c]} /\ owner'[c] # Run(r)
    BY <1>13, HoldersDiffer DEF Restore, LetGo, TypeOK
  <2>2. \A c \in Conns : owner[c] # Run(r) => setting'[c] = setting[c]
    BY <1>13 DEF Restore, Set
  <2> QED BY <1>13, Places, <2>1, <2>2, HoldersDiffer DEF Restore, Outcome,
     Goto, PathInv, Borrowing, Saving, Restoring, Ended
<1>14. ASSUME NEW r \in Requests, RestoreFails(r) PROVE PathInv'
  <2>1. \A c \in Conns : owner'[c] \in {Nobody, owner[c]} /\ owner'[c] # Run(r)
    BY <1>14, HoldersDiffer DEF RestoreFails, LetGo, TypeOK
  <2>2. \A c \in Conns : owner[c] # Run(r) => setting'[c] = setting[c]
    BY <1>14 DEF RestoreFails, Set
  <2> QED BY <1>14, Places, <2>1, <2>2, HoldersDiffer DEF RestoreFails,
     Outcome, Goto, PathInv, Borrowing, Saving, Restoring, Ended
<1>15. ASSUME NEW r \in Requests, RestoreCancelled(r) PROVE PathInv'
  <2>1. \A c \in Conns : owner'[c] \in {Nobody, owner[c]} /\ owner'[c] # Run(r)
    BY <1>15, HoldersDiffer DEF RestoreCancelled, LetGo, TypeOK
  <2>2. \A c \in Conns : owner[c] # Run(r) => setting'[c] = setting[c]
    BY <1>15 DEF RestoreCancelled, Set
  <2> QED BY <1>15, Places, <2>1, <2>2, HoldersDiffer DEF RestoreCancelled,
     Goto, PathInv, Borrowing, Saving, Restoring, Ended
<1>16. ASSUME NEW r \in Requests, ReadHistory(r) PROVE PathInv'
  <2>1. UNCHANGED owner
    BY <1>16 DEF ReadHistory
  <2> QED BY <1>16, Places, <2>1, HoldersDiffer DEF ReadHistory, Goto,
     PathInv, Borrowing, Saving, Restoring, Ended
<1>17. ASSUME NEW r \in Requests, NodeDone(r) PROVE PathInv'
  <2>1. UNCHANGED owner
    BY <1>17 DEF NodeDone
  <2> QED BY <1>17, Places, <2>1, HoldersDiffer DEF NodeDone, PathInv,
     Borrowing, Saving, Restoring, Ended
<1>18. ASSUME NEW r \in Requests, SaveAnswer(r) PROVE PathInv'
  <2>1. UNCHANGED owner
    BY <1>18 DEF SaveAnswer
  <2> QED BY <1>18, Places, <2>1, HoldersDiffer DEF SaveAnswer, Goto,
     PathInv, Borrowing, Saving, Restoring, Ended
<1>19. ASSUME NEW r \in Requests, NEW t \in Tools, StartCall(r, t) PROVE PathInv'
  <2>1. UNCHANGED owner
    BY <1>19 DEF StartCall
  <2> QED BY <1>19, Places, <2>1, HoldersDiffer DEF StartCall, CallIs,
     PathInv, Borrowing, Saving, Restoring, Ended
<1>20. ASSUME NEW r \in Requests, NEW t \in Tools, CallConnects(r, t) PROVE PathInv'
  <2>1. (\A c \in Conns : owner'[c] \in {<<r, t>>, owner[c]}) /\ UNCHANGED setting
    BY <1>20, HoldersDiffer DEF CallConnects, Take, TypeOK
  <2> QED BY <1>20, Places, <2>1, HoldersDiffer DEF CallConnects, CallIs,
     PathInv, Borrowing, Saving, Restoring, Ended
<1>21. ASSUME NEW r \in Requests, NEW t \in Tools, CallReturns(r, t) PROVE PathInv'
  <2>1. \A c \in Conns : owner'[c] \in {Nobody, owner[c]} /\ owner'[c] # <<r, t>>
    BY <1>21, HoldersDiffer DEF CallReturns, LetGo, TypeOK
  <2> QED BY <1>21, Places, <2>1, HoldersDiffer DEF CallReturns, CallIs,
     PathInv, Borrowing, Saving, Restoring, Ended
<1>22. ASSUME NEW r \in Requests, NEW t \in Tools, CallFails(r, t) PROVE PathInv'
  <2>1. \A c \in Conns : owner'[c] \in {Nobody, owner[c]} /\ owner'[c] # <<r, t>>
    BY <1>22, HoldersDiffer DEF CallFails, LetGo, TypeOK
  <2> QED BY <1>22, Places, <2>1, HoldersDiffer DEF CallFails, CallIs,
     RunFails, PathInv, Borrowing, Saving, Restoring, Ended
<1>23. ASSUME NEW r \in Requests, NEW t \in Tools, CallGivesUp(r, t) PROVE PathInv'
  <2>1. UNCHANGED owner
    BY <1>23 DEF CallGivesUp
  <2> QED BY <1>23, Places, <2>1, HoldersDiffer DEF CallGivesUp, CallIs,
     RunFails, PathInv, Borrowing, Saving, Restoring, Ended
<1>24. CASE Crash
  <2> QED BY <1>24, Places, HoldersDiffer DEF Crash, PathInv, Borrowing,
     Saving, Restoring, Ended
<1> QED
  BY <1>1, <1>2, <1>3, <1>4, <1>5, <1>6, <1>7, <1>8, <1>9,
     <1>10, <1>11, <1>12, <1>13, <1>14, <1>15, <1>16, <1>17, <1>18,
     <1>19, <1>20, <1>21, <1>22, <1>23, <1>24
  DEF Next, Progress, Failure, CallEnds

(* Tables are there before the checkpointer is used.                        *)
LEMMA TablesStep ==
  ASSUME ServiceInv, [Next]_vars
  PROVE  TablesReady'
<1> USE ServiceAssumption DEF ServiceInv, poolVars, dbVars
<1>1. CASE UNCHANGED vars
  BY <1>1, Places DEF vars, TablesReady, Borrowing, Saving, Restoring,
     Ended
<1>2. ASSUME NEW r \in Requests, Arrive(r) PROVE TablesReady'
  BY <1>2, Places DEF Arrive, Goto, TablesReady, Borrowing, Saving,
     Restoring, Ended
<1>3. ASSUME NEW r \in Requests, Validated(r) PROVE TablesReady'
  BY <1>3, Places DEF Validated, Goto, TablesReady, Borrowing, Saving,
     Restoring, Ended
<1>4. ASSUME NEW r \in Requests, Rejected(r) PROVE TablesReady'
  BY <1>4, Places DEF Rejected, Goto, TablesReady, Borrowing, Saving,
     Restoring, Ended
<1>5. ASSUME NEW r \in Requests, WaitTimesOut(r) PROVE TablesReady'
  BY <1>5, Places DEF WaitTimesOut, Goto, TablesReady, Borrowing, Saving,
     Restoring, Ended
<1>6. ASSUME NEW r \in Requests, Connect(r) PROVE TablesReady'
  BY <1>6, Places DEF Connect, Goto, TablesReady, Borrowing, Saving,
     Restoring, Ended
<1>7. ASSUME NEW r \in Requests, Tune(r) PROVE TablesReady'
  BY <1>7, Places DEF Tune, Goto, TablesReady, Borrowing, Saving,
     Restoring, Ended
<1>8. ASSUME NEW r \in Requests, TuneFails(r) PROVE TablesReady'
  BY <1>8, Places DEF TuneFails, Goto, TablesReady, Borrowing, Saving,
     Restoring, Ended
<1>9. ASSUME NEW r \in Requests, Pin(r) PROVE TablesReady'
  BY <1>9, Places
  DEF Pin, Goto, TablesReady, TypeOK, Saving
<1>10. ASSUME NEW r \in Requests, Prepare(r) PROVE TablesReady'
  <2>1. PICK c \in Conns : owner[c] = Run(r)
    BY <1>10 DEF Prepare, HeldByWorkers, Holds, Borrowing
  <2>2. setting[c].path = AgencyOf[r]
    BY <1>10, <2>1 DEF Prepare, PathInv
  <2>3. AgencyOf[r] \in tables'
    BY <1>10, <2>1, <2>2 DEF Prepare, SetUpSchemas
  <2>4. tables \subseteq tables' /\ pc' = [pc EXCEPT ![r] = "reading"]
    BY <1>10 DEF Prepare, Goto
  <2> QED BY <2>3, <2>4, Places DEF TablesReady, Saving
<1>11. ASSUME NEW r \in Requests, PrepareFails(r) PROVE TablesReady'
  BY <1>11, Places DEF PrepareFails, Goto, TablesReady, Borrowing, Saving,
     Restoring, Ended
<1>12. ASSUME NEW r \in Requests, Interrupt(r) PROVE TablesReady'
  BY <1>12, Places DEF Interrupt, Goto, TablesReady, Borrowing, Saving,
     Restoring, Ended
<1>13. ASSUME NEW r \in Requests, Restore(r) PROVE TablesReady'
  BY <1>13, Places DEF Restore, Outcome, Goto, TablesReady, Borrowing,
     Saving, Restoring, Ended
<1>14. ASSUME NEW r \in Requests, RestoreFails(r) PROVE TablesReady'
  BY <1>14, Places DEF RestoreFails, Outcome, Goto, TablesReady, Borrowing,
     Saving, Restoring, Ended
<1>15. ASSUME NEW r \in Requests, RestoreCancelled(r) PROVE TablesReady'
  BY <1>15, Places DEF RestoreCancelled, Goto, TablesReady, Borrowing,
     Saving, Restoring, Ended
<1>16. ASSUME NEW r \in Requests, ReadHistory(r) PROVE TablesReady'
  BY <1>16, Places DEF ReadHistory, Goto, TablesReady, Borrowing, Saving,
     Restoring, Ended
<1>17. ASSUME NEW r \in Requests, NodeDone(r) PROVE TablesReady'
  BY <1>17, Places DEF NodeDone, TablesReady, Borrowing, Saving, Restoring,
     Ended
<1>18. ASSUME NEW r \in Requests, SaveAnswer(r) PROVE TablesReady'
  BY <1>18, Places DEF SaveAnswer, Finalize, Goto, TablesReady, Borrowing,
     Saving, Restoring, Ended
<1>19. ASSUME NEW r \in Requests, NEW t \in Tools, StartCall(r, t) PROVE TablesReady'
  BY <1>19, Places DEF StartCall, CallIs, TablesReady, Borrowing, Saving,
     Restoring, Ended
<1>20. ASSUME NEW r \in Requests, NEW t \in Tools, CallConnects(r, t) PROVE TablesReady'
  BY <1>20, Places DEF CallConnects, CallIs, TablesReady, Borrowing,
     Saving, Restoring, Ended
<1>21. ASSUME NEW r \in Requests, NEW t \in Tools, CallReturns(r, t) PROVE TablesReady'
  BY <1>21, Places DEF CallReturns, CallIs, TablesReady, Borrowing, Saving,
     Restoring, Ended
<1>22. ASSUME NEW r \in Requests, NEW t \in Tools, CallFails(r, t) PROVE TablesReady'
  BY <1>22, Places DEF CallFails, CallIs, RunFails, TablesReady, Borrowing,
     Saving, Restoring, Ended
<1>23. ASSUME NEW r \in Requests, NEW t \in Tools, CallGivesUp(r, t) PROVE TablesReady'
  BY <1>23, Places DEF CallGivesUp, CallIs, RunFails, TablesReady,
     Borrowing, Saving, Restoring, Ended
<1>24. CASE Crash
  BY <1>24, Places DEF Crash, TablesReady, Borrowing, Saving, Restoring,
     Ended
<1> QED
  BY <1>1, <1>2, <1>3, <1>4, <1>5, <1>6, <1>7, <1>8, <1>9,
     <1>10, <1>11, <1>12, <1>13, <1>14, <1>15, <1>16, <1>17, <1>18,
     <1>19, <1>20, <1>21, <1>22, <1>23, <1>24
  DEF Next, Progress, Failure, CallEnds

(* Only the runs that set a connection hold one that differs from a new one. *)
LEMMA CleanStep ==
  ASSUME ServiceInv, [Next]_vars
  PROVE  CleanInv'
<1> USE ServiceAssumption DEF ServiceInv, poolVars, dbVars
<1>1. CASE UNCHANGED vars
  BY <1>1, Places, HoldersDiffer DEF vars, CleanInv, Tuned, Borrowing,
     Saving, Restoring, Ended
<1>2. ASSUME NEW r \in Requests, Arrive(r) PROVE CleanInv'
  <2>1. \A c \in Conns : owner[c] # Nobody => owner'[c] = owner[c]
    BY <1>2 DEF Arrive, Take, TypeOK
  <2> QED BY <1>2, Places, <2>1, HoldersDiffer DEF Arrive, Goto, CleanInv,
     Tuned, Borrowing, Saving, Restoring, Ended
<1>3. ASSUME NEW r \in Requests, Validated(r) PROVE CleanInv'
  <2>1. \A c \in Conns : owner[c] # Run(r) => owner'[c] = owner[c]
    BY <1>3 DEF Validated, LetGo, TypeOK
  <2> QED BY <1>3, Places, <2>1, HoldersDiffer DEF Validated, Goto,
     CleanInv, Tuned, Borrowing, Saving, Restoring, Ended
<1>4. ASSUME NEW r \in Requests, Rejected(r) PROVE CleanInv'
  <2>1. \A c \in Conns : owner[c] # Run(r) => owner'[c] = owner[c]
    BY <1>4 DEF Rejected, LetGo, TypeOK
  <2> QED BY <1>4, Places, <2>1, HoldersDiffer DEF Rejected, Goto,
     CleanInv, Tuned, Borrowing, Saving, Restoring, Ended
<1>5. ASSUME NEW r \in Requests, WaitTimesOut(r) PROVE CleanInv'
  BY <1>5, Places, HoldersDiffer DEF WaitTimesOut, Goto, CleanInv, Tuned,
     Borrowing, Saving, Restoring, Ended
<1>6. ASSUME NEW r \in Requests, Connect(r) PROVE CleanInv'
  <2>1. \A c \in Conns : owner[c] # Nobody => owner'[c] = owner[c]
    BY <1>6 DEF Connect, Take, TypeOK
  <2> QED BY <1>6, Places, <2>1, HoldersDiffer DEF Connect, Goto,
     CleanInv, Tuned, Borrowing, Saving, Restoring, Ended
<1>7. ASSUME NEW r \in Requests, Tune(r) PROVE CleanInv'
  <2>1. \A c \in Conns : owner[c] # Run(r) => setting'[c] = setting[c]
    BY <1>7 DEF Tune, Set
  <2>2. owner' = owner /\ cancelled' = cancelled /\ pc[r] = "tuning" /\
          pc' = [pc EXCEPT ![r] = "pinning"]
    BY <1>7 DEF Tune, Goto
  <2>3. PICK c \in Conns : owner[c] = Run(r) /\
          dictBefore' = [dictBefore EXCEPT ![r] = setting[c].dictRows]
    BY <1>7 DEF Tune
  <2>4. ~cancelled => setting[c] = Fresh
    BY <2>2, <2>3, HoldersDiffer DEF CleanInv, Tuned, Borrowing, Saving,
         Restoring, Ended
  <2>5. ~cancelled => ~setting[c].dictRows
    BY <2>4 DEF Fresh
  <2>6. dictBefore \in [Requests -> BOOLEAN]
    BY DEF TypeOK
  <2>7. ~cancelled => \A q \in Requests : pc'[q] \in Tuned => ~dictBefore'[q]
    BY <2>2, <2>3, <2>5, <2>6, Places DEF CleanInv, Tuned, Borrowing,
         Saving, Restoring, Ended
  <2>8. ~cancelled => \A d \in Conns : setting'[d] # Fresh =>
          \E q \in Requests : owner'[d] = Run(q) /\ pc'[q] \in Tuned
    BY <2>1, <2>2, Places DEF CleanInv, Tuned, Borrowing, Saving, Restoring,
         Ended
  <2> QED BY <2>2, <2>7, <2>8 DEF CleanInv
<1>8. ASSUME NEW r \in Requests, TuneFails(r) PROVE CleanInv'
  <2>1. \A c \in Conns : owner[c] # Run(r) => owner'[c] = owner[c]
    BY <1>8 DEF TuneFails, LetGo, TypeOK
  <2> QED BY <1>8, Places, <2>1, HoldersDiffer DEF TuneFails, Goto,
     CleanInv, Tuned, Borrowing, Saving, Restoring, Ended
<1>9. ASSUME NEW r \in Requests, Pin(r) PROVE CleanInv'
  <2>1. \A c \in Conns : owner[c] # Run(r) => setting'[c] = setting[c]
    BY <1>9 DEF Pin, Set
  <2> QED BY <1>9, Places, <2>1, HoldersDiffer DEF Pin, Goto, CleanInv,
     Tuned, Borrowing, Saving, Restoring, Ended
<1>10. ASSUME NEW r \in Requests, Prepare(r) PROVE CleanInv'
  BY <1>10, Places, HoldersDiffer DEF Prepare, Goto, CleanInv, Tuned,
     Borrowing, Saving, Restoring, Ended
<1>11. ASSUME NEW r \in Requests, PrepareFails(r) PROVE CleanInv'
  BY <1>11, Places, HoldersDiffer DEF PrepareFails, Goto, CleanInv, Tuned,
     Borrowing, Saving, Restoring, Ended
<1>12. ASSUME NEW r \in Requests, Interrupt(r) PROVE CleanInv'
  BY <1>12, Places, HoldersDiffer DEF Interrupt, Goto, CleanInv, Tuned,
     Borrowing, Saving, Restoring, Ended
<1>13. ASSUME NEW r \in Requests, Restore(r) PROVE CleanInv'
  <2>1. \A c \in Conns : owner[c] # Run(r) => owner'[c] = owner[c]
    BY <1>13 DEF Restore, LetGo, TypeOK
  <2>2. \A c \in Conns : owner[c] # Run(r) => setting'[c] = setting[c]
    BY <1>13 DEF Restore, Set
  <2>3. ~cancelled => dictBefore[r] = FALSE
    BY <1>13 DEF Restore, CleanInv, Tuned, TypeOK
  <2>4. \A c \in Conns : owner[c] = Run(r) => setting'[c] =
          [path |-> Public, autocommit |-> FALSE, dictRows |-> dictBefore[r]]
    BY <1>13 DEF Restore, Set, Restored
  <2>5. ~cancelled => \A c \in Conns : owner[c] = Run(r) => setting'[c] = Fresh
    BY <2>3, <2>4 DEF Fresh
  <2> QED BY <1>13, Places, <2>1, <2>2, <2>3, <2>4, <2>5, HoldersDiffer DEF
     Restore, Outcome, Goto, CleanInv, Tuned, Borrowing, Saving,
     Restoring, Ended
<1>14. ASSUME NEW r \in Requests, RestoreFails(r) PROVE CleanInv'
  <2>1. \A c \in Conns : owner[c] # Run(r) => owner'[c] = owner[c]
    BY <1>14 DEF RestoreFails, LetGo, TypeOK
  <2>2. \A c \in Conns : owner[c] # Run(r) => setting'[c] = setting[c]
    BY <1>14 DEF RestoreFails, Set
  <2>3. \A c \in Conns : owner[c] = Run(r) => setting'[c] = Fresh
    BY <1>14 DEF RestoreFails, Set
  <2> QED BY <1>14, Places, <2>1, <2>2, <2>3, HoldersDiffer DEF
     RestoreFails, Outcome, Goto, CleanInv, Tuned, Borrowing, Saving,
     Restoring, Ended
<1>15. ASSUME NEW r \in Requests, RestoreCancelled(r) PROVE CleanInv'
  BY <1>15 DEF RestoreCancelled, CleanInv
<1>16. ASSUME NEW r \in Requests, ReadHistory(r) PROVE CleanInv'
  BY <1>16, Places, HoldersDiffer DEF ReadHistory, Goto, CleanInv, Tuned,
     Borrowing, Saving, Restoring, Ended
<1>17. ASSUME NEW r \in Requests, NodeDone(r) PROVE CleanInv'
  BY <1>17, Places, HoldersDiffer DEF NodeDone, CleanInv, Tuned, Borrowing,
     Saving, Restoring, Ended
<1>18. ASSUME NEW r \in Requests, SaveAnswer(r) PROVE CleanInv'
  BY <1>18, Places, HoldersDiffer DEF SaveAnswer, Goto, CleanInv, Tuned,
     Borrowing, Saving, Restoring, Ended
<1>19. ASSUME NEW r \in Requests, NEW t \in Tools, StartCall(r, t) PROVE CleanInv'
  BY <1>19, Places, HoldersDiffer DEF StartCall, CallIs, CleanInv, Tuned,
     Borrowing, Saving, Restoring, Ended
<1>20. ASSUME NEW r \in Requests, NEW t \in Tools, CallConnects(r, t) PROVE CleanInv'
  <2>1. \A c \in Conns : owner[c] # Nobody => owner'[c] = owner[c]
    BY <1>20 DEF CallConnects, Take, TypeOK
  <2> QED BY <1>20, Places, <2>1, HoldersDiffer DEF CallConnects, CallIs,
     CleanInv, Tuned, Borrowing, Saving, Restoring, Ended
<1>21. ASSUME NEW r \in Requests, NEW t \in Tools, CallReturns(r, t) PROVE CleanInv'
  <2>1. \A c \in Conns : owner[c] # <<r, t>> => owner'[c] = owner[c]
    BY <1>21 DEF CallReturns, LetGo, TypeOK
  <2>2. ~cancelled => \A c \in Conns : owner[c] = <<r, t>> => setting[c] = Fresh
    <3>1. SUFFICES ASSUME ~cancelled, NEW c \in Conns, owner[c] = <<r, t>>,
                          setting[c] # Fresh
                   PROVE  FALSE
      OBVIOUS
    <3>2. PICK q \in Requests : owner[c] = Run(q)
      BY <3>1 DEF CleanInv
    <3> QED BY <1>21, <3>1, <3>2, HoldersDiffer
  <2> QED BY <1>21, Places, <2>1, <2>2, HoldersDiffer DEF CallReturns,
     CallIs, CleanInv, Tuned, Borrowing, Saving, Restoring, Ended
<1>22. ASSUME NEW r \in Requests, NEW t \in Tools, CallFails(r, t) PROVE CleanInv'
  <2>1. \A c \in Conns : owner[c] # <<r, t>> => owner'[c] = owner[c]
    BY <1>22 DEF CallFails, LetGo, TypeOK
  <2>2. ~cancelled => \A c \in Conns : owner[c] = <<r, t>> => setting[c] = Fresh
    <3>1. SUFFICES ASSUME ~cancelled, NEW c \in Conns, owner[c] = <<r, t>>,
                          setting[c] # Fresh
                   PROVE  FALSE
      OBVIOUS
    <3>2. PICK q \in Requests : owner[c] = Run(q)
      BY <3>1 DEF CleanInv
    <3> QED BY <1>22, <3>1, <3>2, HoldersDiffer
  <2> QED BY <1>22, Places, <2>1, <2>2, HoldersDiffer DEF CallFails,
     CallIs, RunFails, CleanInv, Tuned, Borrowing, Saving, Restoring,
     Ended
<1>23. ASSUME NEW r \in Requests, NEW t \in Tools, CallGivesUp(r, t) PROVE CleanInv'
  BY <1>23, Places, HoldersDiffer DEF CallGivesUp, CallIs, RunFails,
     CleanInv, Tuned, Borrowing, Saving, Restoring, Ended
<1>24. CASE Crash
  BY <1>24, Places, HoldersDiffer DEF Crash, CleanInv, Tuned, Borrowing,
     Saving, Restoring, Ended
<1> QED
  BY <1>1, <1>2, <1>3, <1>4, <1>5, <1>6, <1>7, <1>8, <1>9,
     <1>10, <1>11, <1>12, <1>13, <1>14, <1>15, <1>16, <1>17, <1>18,
     <1>19, <1>20, <1>21, <1>22, <1>23, <1>24
  DEF Next, Progress, Failure, CallEnds

(* Types; a schema is marked as ready only with its tables.                 *)
LEMMA TypeStep ==
  ASSUME ServiceInv, [Next]_vars
  PROVE  TypeOK'
<1> USE ServiceAssumption DEF ServiceInv, poolVars, dbVars
<1>1. CASE UNCHANGED vars
  BY <1>1 DEF vars, TypeOK
<1>2. ASSUME NEW r \in Requests, Arrive(r) PROVE TypeOK'
  <2>1. owner' \in [Conns -> Holders \cup {Nobody}]
    BY <1>2, HoldersDiffer DEF Arrive, Take, TypeOK
  <2>2. pc' \in [Requests -> Locations]
    BY <1>2, Places DEF Arrive, Goto, Locations, Ended, Borrowing, Saving,
         Restoring
  <2> QED BY <1>2, <2>1, <2>2 DEF Arrive, TypeOK
<1>3. ASSUME NEW r \in Requests, Validated(r) PROVE TypeOK'
  <2>1. owner' \in [Conns -> Holders \cup {Nobody}]
    BY <1>3, HoldersDiffer DEF Validated, LetGo, TypeOK
  <2>2. pc' \in [Requests -> Locations]
    BY <1>3, Places DEF Validated, Goto, Locations, Ended, Borrowing,
         Saving, Restoring
  <2> QED BY <1>3, <2>1, <2>2 DEF Validated, TypeOK
<1>4. ASSUME NEW r \in Requests, Rejected(r) PROVE TypeOK'
  <2>1. owner' \in [Conns -> Holders \cup {Nobody}]
    BY <1>4, HoldersDiffer DEF Rejected, LetGo, TypeOK
  <2>2. pc' \in [Requests -> Locations]
    BY <1>4, Places DEF Rejected, Goto, Locations, Ended, Borrowing, Saving,
         Restoring
  <2> QED BY <1>4, <2>1, <2>2 DEF Rejected, TypeOK, Fault
<1>5. ASSUME NEW r \in Requests, WaitTimesOut(r) PROVE TypeOK'
  <2>1. pc' \in [Requests -> Locations]
    BY <1>5, Places DEF WaitTimesOut, Goto, Locations, Ended, Borrowing,
         Saving, Restoring
  <2> QED BY <1>5, <2>1 DEF WaitTimesOut, TypeOK
<1>6. ASSUME NEW r \in Requests, Connect(r) PROVE TypeOK'
  <2>1. owner' \in [Conns -> Holders \cup {Nobody}]
    BY <1>6, HoldersDiffer DEF Connect, Take, TypeOK
  <2>2. pc' \in [Requests -> Locations]
    BY <1>6, Places DEF Connect, Goto, Locations, Ended, Borrowing, Saving,
         Restoring
  <2> QED BY <1>6, <2>1, <2>2 DEF Connect, TypeOK
<1>7. ASSUME NEW r \in Requests, Tune(r) PROVE TypeOK'
  <2>1. setting' \in [Conns -> Settings]
    BY <1>7, WasSet, SettingsGiven DEF Tune
  <2>2. pc' \in [Requests -> Locations]
    BY <1>7, Places DEF Tune, Goto, Locations, Ended, Borrowing, Saving,
         Restoring
  <2>3. dictBefore' \in [Requests -> BOOLEAN]
    BY <1>7 DEF Tune, TypeOK, Settings
  <2> QED BY <1>7, <2>1, <2>2, <2>3 DEF Tune, TypeOK
<1>8. ASSUME NEW r \in Requests, TuneFails(r) PROVE TypeOK'
  <2>1. owner' \in [Conns -> Holders \cup {Nobody}]
    BY <1>8, HoldersDiffer DEF TuneFails, LetGo, TypeOK
  <2>2. pc' \in [Requests -> Locations]
    BY <1>8, Places DEF TuneFails, Goto, Locations, Ended, Borrowing,
         Saving, Restoring
  <2> QED BY <1>8, <2>1, <2>2 DEF TuneFails, TypeOK, Fault
<1>9. ASSUME NEW r \in Requests, Pin(r) PROVE TypeOK'
  <2>1. setting' \in [Conns -> Settings]
    BY <1>9, WasSet, SettingsGiven DEF Pin
  <2>2. pc' \in [Requests -> Locations]
    BY <1>9, Places DEF Pin, Goto, Locations, Ended, Borrowing, Saving,
         Restoring
  <2> QED BY <1>9, <2>1, <2>2 DEF Pin, TypeOK
<1>10. ASSUME NEW r \in Requests, Prepare(r) PROVE TypeOK'
  <2>1. pc' \in [Requests -> Locations]
    BY <1>10, Places DEF Prepare, Goto, Locations, Ended, Borrowing, Saving,
         Restoring
  <2>2. SetUpSchemas(r) \subseteq Schemas
    BY DEF SetUpSchemas, TypeOK, Settings
  <2>3. AgencyOf[r] \in SetUpSchemas(r)
    BY <1>10, HeldByWorkers, PathInv DEF Prepare, HeldByWorkers, Holds,
         PathInv, SetUpSchemas, Borrowing
  <2> QED BY <1>10, <2>1, <2>2, <2>3 DEF Prepare, TypeOK
<1>11. ASSUME NEW r \in Requests, PrepareFails(r) PROVE TypeOK'
  <2>1. pc' \in [Requests -> Locations]
    BY <1>11, Places DEF PrepareFails, Goto, Locations, Ended, Borrowing,
         Saving, Restoring
  <2>2. SetUpSchemas(r) \subseteq Schemas
    BY DEF SetUpSchemas, TypeOK, Settings
  <2> QED BY <1>11, <2>1, <2>2 DEF PrepareFails, TypeOK, Fault
<1>12. ASSUME NEW r \in Requests, Interrupt(r) PROVE TypeOK'
  <2>1. pc' \in [Requests -> Locations]
    BY <1>12, Places DEF Interrupt, Goto, Locations, Ended, Borrowing,
         Saving, Restoring
  <2> QED BY <1>12, <2>1 DEF Interrupt, TypeOK, Fault
<1>13. ASSUME NEW r \in Requests, Restore(r) PROVE TypeOK'
  <2>1. owner' \in [Conns -> Holders \cup {Nobody}]
    BY <1>13, HoldersDiffer DEF Restore, LetGo, TypeOK
  <2>2. setting' \in [Conns -> Settings]
    BY <1>13, WasSet, SettingsGiven DEF Restore
  <2>3. pc' \in [Requests -> Locations]
    BY <1>13, Places DEF Restore, Goto, Outcome, Locations, Ended,
         Borrowing, Saving, Restoring
  <2> QED BY <1>13, <2>1, <2>2, <2>3 DEF Restore, TypeOK
<1>14. ASSUME NEW r \in Requests, RestoreFails(r) PROVE TypeOK'
  <2>1. owner' \in [Conns -> Holders \cup {Nobody}]
    BY <1>14, HoldersDiffer DEF RestoreFails, LetGo, TypeOK
  <2>2. setting' \in [Conns -> Settings]
    BY <1>14, WasSet, SettingsGiven DEF RestoreFails
  <2>3. pc' \in [Requests -> Locations]
    BY <1>14, Places DEF RestoreFails, Goto, Outcome, Locations, Ended,
         Borrowing, Saving, Restoring
  <2> QED BY <1>14, <2>1, <2>2, <2>3 DEF RestoreFails, TypeOK, Fault
<1>15. ASSUME NEW r \in Requests, RestoreCancelled(r) PROVE TypeOK'
  <2>1. owner' \in [Conns -> Holders \cup {Nobody}]
    BY <1>15, HoldersDiffer DEF RestoreCancelled, LetGo, TypeOK
  <2>2. setting' \in [Conns -> Settings]
    BY <1>15, WasSet, SettingsGiven DEF RestoreCancelled
  <2>3. pc' \in [Requests -> Locations]
    BY <1>15, Places DEF RestoreCancelled, Goto, Locations, Ended,
         Borrowing, Saving, Restoring
  <2> QED BY <1>15, <2>1, <2>2, <2>3 DEF RestoreCancelled, TypeOK, Fault
<1>16. ASSUME NEW r \in Requests, ReadHistory(r) PROVE TypeOK'
  <2>1. pc' \in [Requests -> Locations]
    BY <1>16, Places DEF ReadHistory, Goto, Locations, Ended, Borrowing,
         Saving, Restoring
  <2>2. PICK c \in Conns :
          base' = [base EXCEPT ![r] = history[setting[c].path][Thread(r)]]
    BY <1>16 DEF ReadHistory
  <2>3. setting[c].path \in Schemas /\ Thread(r) \in Threads
    BY <1>16 DEF TypeOK, Settings, Thread, Threads, Sessions
  <2>4. base' \in [Requests -> SUBSET Requests]
    BY <1>16, <2>2, <2>3 DEF TypeOK
  <2>5. alone' \in [Requests -> BOOLEAN]
    BY <1>16 DEF ReadHistory, TypeOK
  <2> QED BY <1>16, <2>1, <2>2, <2>3, <2>4, <2>5 DEF ReadHistory, TypeOK
<1>17. ASSUME NEW r \in Requests, NodeDone(r) PROVE TypeOK'
  <2>1. base[r] \in SUBSET Requests
    BY <1>17 DEF TypeOK, Finalize
  <2>2. PICK c \in Conns :
          history' = [history EXCEPT ![setting[c].path][Thread(r)] = base[r]]
    BY <1>17 DEF NodeDone, Checkpoint
  <2>3. setting[c].path \in Schemas /\ Thread(r) \in Threads
    BY <1>17 DEF TypeOK, Settings, Thread, Threads, Sessions
  <2>4. history' \in [Schemas -> [Threads -> SUBSET Requests]]
    BY <1>17, <2>1, <2>2, <2>3 DEF TypeOK
  <2> QED BY <1>17, <2>1, <2>2, <2>3, <2>4 DEF NodeDone, TypeOK
<1>18. ASSUME NEW r \in Requests, SaveAnswer(r) PROVE TypeOK'
  <2>1. pc' \in [Requests -> Locations]
    BY <1>18, Places DEF SaveAnswer, Goto, Locations, Ended, Borrowing,
         Saving, Restoring
  <2>2. Finalize(r) \in SUBSET Requests
    BY <1>18 DEF TypeOK, Finalize
  <2>3. PICK c \in Conns :
          history' = [history EXCEPT ![setting[c].path][Thread(r)] = Finalize(r)]
    BY <1>18 DEF SaveAnswer, Checkpoint
  <2>4. setting[c].path \in Schemas /\ Thread(r) \in Threads
    BY <1>18 DEF TypeOK, Settings, Thread, Threads, Sessions
  <2>5. history' \in [Schemas -> [Threads -> SUBSET Requests]]
    BY <1>18, <2>2, <2>3, <2>4 DEF TypeOK
  <2> QED BY <1>18, <2>1, <2>2, <2>3, <2>4, <2>5 DEF SaveAnswer, TypeOK
<1>19. ASSUME NEW r \in Requests, NEW t \in Tools, StartCall(r, t) PROVE TypeOK'
  <2>1. call' \in [Requests -> [Tools -> CallStages]]
    BY <1>19, Places DEF StartCall, CallIs, CallStages, Calling
  <2> QED BY <1>19, <2>1 DEF StartCall, TypeOK
<1>20. ASSUME NEW r \in Requests, NEW t \in Tools, CallConnects(r, t) PROVE TypeOK'
  <2>1. owner' \in [Conns -> Holders \cup {Nobody}]
    BY <1>20, HoldersDiffer DEF CallConnects, Take, TypeOK
  <2>2. call' \in [Requests -> [Tools -> CallStages]]
    BY <1>20, Places DEF CallConnects, CallIs, CallStages, Calling
  <2> QED BY <1>20, <2>1, <2>2 DEF CallConnects, TypeOK
<1>21. ASSUME NEW r \in Requests, NEW t \in Tools, CallReturns(r, t) PROVE TypeOK'
  <2>1. owner' \in [Conns -> Holders \cup {Nobody}]
    BY <1>21, HoldersDiffer DEF CallReturns, LetGo, TypeOK
  <2>2. call' \in [Requests -> [Tools -> CallStages]]
    BY <1>21, Places DEF CallReturns, CallIs, CallStages, Calling
  <2> QED BY <1>21, <2>1, <2>2 DEF CallReturns, TypeOK
<1>22. ASSUME NEW r \in Requests, NEW t \in Tools, CallFails(r, t) PROVE TypeOK'
  <2>1. owner' \in [Conns -> Holders \cup {Nobody}]
    BY <1>22, HoldersDiffer DEF CallFails, LetGo, TypeOK
  <2>2. call' \in [Requests -> [Tools -> CallStages]]
    BY <1>22, Places DEF CallFails, CallIs, CallStages, Calling
  <2>3. pc' \in [Requests -> Locations]
    BY <1>22, Places DEF CallFails, RunFails, Locations, Borrowing, Restoring
  <2> QED BY <1>22, <2>1, <2>2, <2>3 DEF CallFails, TypeOK, Fault
<1>23. ASSUME NEW r \in Requests, NEW t \in Tools, CallGivesUp(r, t) PROVE TypeOK'
  <2>1. call' \in [Requests -> [Tools -> CallStages]]
    BY <1>23, Places DEF CallGivesUp, CallIs, CallStages, Calling
  <2>2. pc' \in [Requests -> Locations]
    BY <1>23, Places DEF CallGivesUp, RunFails, Locations, Borrowing, Restoring
  <2> QED BY <1>23, <2>1, <2>2 DEF CallGivesUp, TypeOK
<1>24. CASE Crash
  <2>1. setting' \in [Conns -> Settings]
    BY <1>24, SettingsGiven DEF Crash
  <2>2. pc' \in [Requests -> Locations]
    BY <1>24, Places DEF Crash, Locations, Ended
  <2>3. call' \in [Requests -> [Tools -> CallStages]]
    BY <1>24, Places DEF Crash, CallStages, Calling
  <2> QED BY <1>24, <2>1, <2>2, <2>3 DEF Crash, TypeOK, Fault
<1> QED
  BY <1>1, <1>2, <1>3, <1>4, <1>5, <1>6, <1>7, <1>8, <1>9,
     <1>10, <1>11, <1>12, <1>13, <1>14, <1>15, <1>16, <1>17, <1>18,
     <1>19, <1>20, <1>21, <1>22, <1>23, <1>24
  DEF Next, Progress, Failure, CallEnds

(* A run that starts has read every turn saved before it.                    *)
LEMMA HistoryStep ==
  ASSUME ServiceInv, [Next]_vars
  PROVE  HistoryInv'
<1> USE ServiceAssumption DEF ServiceInv, poolVars, dbVars
<1>1. CASE UNCHANGED vars
  BY <1>1, Places DEF vars, HistoryInv, Borrowing, Saving, Restoring,
     Ended, Saved, Active
<1>2. ASSUME NEW r \in Requests, Arrive(r) PROVE HistoryInv'
  BY <1>2, Places DEF Arrive, Goto, HistoryInv, Borrowing, Saving,
     Restoring, Ended, Saved, Active
<1>3. ASSUME NEW r \in Requests, Validated(r) PROVE HistoryInv'
  BY <1>3, Places DEF Validated, Goto, HistoryInv, Borrowing, Saving,
     Restoring, Ended, Saved, Active
<1>4. ASSUME NEW r \in Requests, Rejected(r) PROVE HistoryInv'
  BY <1>4, Places DEF Rejected, Goto, HistoryInv, Borrowing, Saving,
     Restoring, Ended, Saved, Active
<1>5. ASSUME NEW r \in Requests, WaitTimesOut(r) PROVE HistoryInv'
  BY <1>5, Places DEF WaitTimesOut, Goto, HistoryInv, Borrowing, Saving,
     Restoring, Ended, Saved, Active
<1>6. ASSUME NEW r \in Requests, Connect(r) PROVE HistoryInv'
  BY <1>6, Places DEF Connect, Goto, HistoryInv, Borrowing, Saving,
     Restoring, Ended, Saved, Active
<1>7. ASSUME NEW r \in Requests, Tune(r) PROVE HistoryInv'
  <2>1. UNCHANGED <<history, base, alone>> /\ pc' = [pc EXCEPT ![r] = "pinning"]
    BY <1>7 DEF Tune, Goto
  <2> QED BY <1>7, <2>1, Places DEF HistoryInv, Saved, Active
<1>8. ASSUME NEW r \in Requests, TuneFails(r) PROVE HistoryInv'
  BY <1>8, Places DEF TuneFails, Goto, HistoryInv, Borrowing, Saving,
     Restoring, Ended, Saved, Active
<1>9. ASSUME NEW r \in Requests, Pin(r) PROVE HistoryInv'
  BY <1>9, Places DEF Pin, Goto, HistoryInv, Borrowing, Saving, Restoring,
     Ended, Saved, Active
<1>10. ASSUME NEW r \in Requests, Prepare(r) PROVE HistoryInv'
  BY <1>10, Places DEF Prepare, Goto, HistoryInv, Borrowing, Saving,
     Restoring, Ended, Saved, Active
<1>11. ASSUME NEW r \in Requests, PrepareFails(r) PROVE HistoryInv'
  BY <1>11, Places DEF PrepareFails, Goto, HistoryInv, Borrowing, Saving,
     Restoring, Ended, Saved, Active
<1>12. ASSUME NEW r \in Requests, Interrupt(r) PROVE HistoryInv'
  BY <1>12, Places DEF Interrupt, Goto, HistoryInv, Borrowing, Saving,
     Restoring, Ended, Saved, Active
<1>13. ASSUME NEW r \in Requests, Restore(r) PROVE HistoryInv'
  BY <1>13, Places DEF Restore, Outcome, Goto, HistoryInv, Borrowing,
     Saving, Restoring, Ended, Saved, Active
<1>14. ASSUME NEW r \in Requests, RestoreFails(r) PROVE HistoryInv'
  BY <1>14, Places DEF RestoreFails, Outcome, Goto, HistoryInv, Borrowing,
     Saving, Restoring, Ended, Saved, Active
<1>15. ASSUME NEW r \in Requests, RestoreCancelled(r) PROVE HistoryInv'
  BY <1>15, Places DEF RestoreCancelled, Goto, HistoryInv, Borrowing,
     Saving, Restoring, Ended, Saved, Active
<1>16. ASSUME NEW r \in Requests, ReadHistory(r) PROVE HistoryInv'
  <2>1. PICK c \in Conns : owner[c] = Run(r) /\
          base' = [base EXCEPT ![r] = history[setting[c].path][Thread(r)]]
    BY <1>16 DEF ReadHistory
  <2>2. setting[c].path = AgencyOf[r]
    BY <1>16, <2>1 DEF ReadHistory, PathInv, Saving
  <2>3. base' = [base EXCEPT ![r] = history[AgencyOf[r]][Thread(r)]]
    BY <2>1, <2>2
  <2>4. /\ UNCHANGED history /\ pc[r] = "reading"
        /\ pc' = [pc EXCEPT ![r] = "running"]
    BY <1>16 DEF ReadHistory, Goto
  <2>5. \A q \in Requests : alone'[q] =
          IF q = r THEN Active(Thread(r)) = {} ELSE alone[q] /\ q \notin Active(Thread(r))
    BY <1>16 DEF ReadHistory
  <2>6. ASSUME NEW q \in Requests, Saved(q)'
        PROVE  q # r /\ Saved(q) /\ q \in history[AgencyOf[q]][Thread(q)]
    BY <1>16, <2>4, <2>5, <2>6, Places DEF Saved, HistoryInv
  <2>7. ASSUME NEW p \in Requests, NEW q \in Requests, Saved(p)',
               q \in Active(Thread(p))'
        PROVE  p \in base'[q]
    <3>1. p # r /\ Saved(p) /\ p \in history[AgencyOf[p]][Thread(p)]
      BY <2>6, <2>7
    <3>2. pc'[q] = "running" /\ Thread(q) = Thread(p)
      BY <2>7 DEF Active
    <3>3. CASE q = r
      <4>1. AgencyOf[q] = AgencyOf[p]
        BY <3>2 DEF Thread
      <4> QED BY <1>16, <2>3, <3>1, <3>2, <3>3, <4>1 DEF TypeOK
    <3>4. CASE q # r
      <4>1. pc[q] = "running" /\ base'[q] = base[q]
        BY <1>16, <2>3, <2>4, <3>2, <3>4, Places DEF TypeOK
      <4> QED BY <3>1, <3>2, <4>1 DEF HistoryInv, Active
    <3> QED BY <3>3, <3>4
  <2>8. ASSUME NEW p \in Requests, NEW q \in Requests, q # p, pc'[p] = "running",
               q \in Active(Thread(p))'
        PROVE  ~alone'[p]
    <3>1. pc'[q] = "running" /\ Thread(q) = Thread(p)
      BY <2>8 DEF Active
    <3>2. CASE p = r
      BY <1>16, <2>4, <2>5, <2>8, <3>1, <3>2, Places DEF Active
    <3>3. CASE q = r
      BY <1>16, <2>4, <2>5, <2>8, <3>1, <3>3, Places DEF Active
    <3>4. CASE p # r /\ q # r
      BY <1>16, <2>4, <2>5, <2>8, <3>1, <3>4, Places DEF Active, HistoryInv
    <3> QED BY <3>2, <3>3, <3>4
  <2> QED BY <2>4, <2>6, <2>7, <2>8 DEF HistoryInv
<1>17. ASSUME NEW r \in Requests, NodeDone(r) PROVE HistoryInv'
  <2>1. PICK c \in Conns : owner[c] = Run(r) /\
          history' = [history EXCEPT ![setting[c].path][Thread(r)] = base[r]]
    BY <1>17 DEF NodeDone, Checkpoint
  <2>2. setting[c].path = AgencyOf[r]
    BY <1>17, <2>1 DEF NodeDone, PathInv, Saving
  <2>3. history' = [history EXCEPT ![AgencyOf[r]][Thread(r)] = base[r]]
    BY <2>1, <2>2
  <2>4. UNCHANGED <<pc, base, alone>> /\ pc[r] = "running"
    BY <1>17 DEF NodeDone
  <2>5. \A q \in Requests : Thread(q) \in Threads /\ AgencyOf[q] \in Schemas
    BY DEF Thread, Threads, Sessions, Schemas
  <2>6. ASSUME NEW q \in Requests, Saved(q)' PROVE q \in history'[AgencyOf[q]][Thread(q)]
    <3>1. Saved(q) /\ q \in history[AgencyOf[q]][Thread(q)]
      BY <2>4, <2>6 DEF Saved, HistoryInv
    <3>2. CASE Thread(q) = Thread(r)
      <4>1. AgencyOf[q] = AgencyOf[r]
        BY <3>2 DEF Thread
      <4>2. q \in base[r]
        BY <1>17, <2>4, <3>1, <3>2 DEF HistoryInv, Active
      <4> QED BY <1>17, <2>3, <2>5, <3>2, <4>1, <4>2 DEF TypeOK
    <3>3. CASE Thread(q) # Thread(r)
      BY <1>17, <2>3, <2>5, <2>6, <3>1, <3>3 DEF TypeOK
    <3> QED BY <3>2, <3>3
  <2> QED BY <2>4, <2>6 DEF HistoryInv, Saved, Active
<1>18. ASSUME NEW r \in Requests, SaveAnswer(r) PROVE HistoryInv'
  <2>1. PICK c \in Conns : owner[c] = Run(r) /\
          history' = [history EXCEPT ![setting[c].path][Thread(r)] = Finalize(r)]
    BY <1>18 DEF SaveAnswer, Checkpoint
  <2>2. setting[c].path = AgencyOf[r]
    BY <1>18, <2>1 DEF SaveAnswer, PathInv, Saving
  <2>3. history' = [history EXCEPT ![AgencyOf[r]][Thread(r)] = Finalize(r)]
    BY <2>1, <2>2
  <2>4. /\ UNCHANGED <<base, alone>> /\ pc[r] = "running"
        /\ pc' = [pc EXCEPT ![r] = "closing"]
    BY <1>18 DEF SaveAnswer, Goto
  <2>5. \A q \in Requests : Thread(q) \in Threads /\ AgencyOf[q] \in Schemas
    BY DEF Thread, Threads, Sessions, Schemas
  <2>6. ASSUME NEW q \in Requests, Saved(q)' PROVE q \in history'[AgencyOf[q]][Thread(q)]
    <3>1. CASE q = r
      BY <1>18, <2>3, <2>5, <3>1 DEF TypeOK, Finalize
    <3>2. CASE q # r
      <4>1. Saved(q) /\ q \in history[AgencyOf[q]][Thread(q)]
        BY <1>18, <2>4, <2>6, <3>2, Places DEF Saved, HistoryInv
      <4>2. CASE Thread(q) = Thread(r)
        <5>1. AgencyOf[q] = AgencyOf[r]
          BY <4>2 DEF Thread
        <5>2. q \in Finalize(r)
          BY <1>18, <2>4, <4>1, <4>2 DEF HistoryInv, Active, Finalize
        <5> QED BY <1>18, <2>3, <2>5, <4>2, <5>1, <5>2 DEF TypeOK
      <4>3. CASE Thread(q) # Thread(r)
        BY <1>18, <2>3, <2>5, <2>6, <4>1, <4>3 DEF TypeOK
      <4> QED BY <4>2, <4>3
    <3> QED BY <3>1, <3>2
  <2>7. ASSUME NEW p \in Requests, NEW q \in Requests, Saved(p)',
               q \in Active(Thread(p))'
        PROVE  p \in base'[q]
    <3>1. q # r /\ pc[q] = "running" /\ Thread(q) = Thread(p)
      BY <1>18, <2>4, <2>7, Places DEF Active
    <3>2. CASE p = r
      BY <1>18, <2>4, <2>7, <3>1, <3>2 DEF HistoryInv, Saved, Active
    <3>3. CASE p # r
      BY <1>18, <2>4, <2>7, <3>1, <3>3, Places DEF HistoryInv, Saved, Active
    <3> QED BY <3>2, <3>3
  <2>8. \A p, q \in Requests : q # p /\ pc'[p] = "running" /\ q \in Active(Thread(p))'
          => ~alone'[p]
    BY <1>18, <2>4, Places DEF HistoryInv, Active
  <2> QED BY <2>6, <2>7, <2>8 DEF HistoryInv
<1>19. ASSUME NEW r \in Requests, NEW t \in Tools, StartCall(r, t) PROVE HistoryInv'
  BY <1>19, Places DEF StartCall, CallIs, HistoryInv, Borrowing, Saving,
     Restoring, Ended, Saved, Active
<1>20. ASSUME NEW r \in Requests, NEW t \in Tools, CallConnects(r, t) PROVE HistoryInv'
  BY <1>20, Places DEF CallConnects, CallIs, HistoryInv, Borrowing, Saving,
     Restoring, Ended, Saved, Active
<1>21. ASSUME NEW r \in Requests, NEW t \in Tools, CallReturns(r, t) PROVE HistoryInv'
  BY <1>21, Places DEF CallReturns, CallIs, HistoryInv, Borrowing, Saving,
     Restoring, Ended, Saved, Active
<1>22. ASSUME NEW r \in Requests, NEW t \in Tools, CallFails(r, t) PROVE HistoryInv'
  BY <1>22, Places DEF CallFails, CallIs, RunFails, HistoryInv, Borrowing,
     Saving, Restoring, Ended, Saved, Active
<1>23. ASSUME NEW r \in Requests, NEW t \in Tools, CallGivesUp(r, t) PROVE HistoryInv'
  BY <1>23, Places DEF CallGivesUp, CallIs, RunFails, HistoryInv,
     Borrowing, Saving, Restoring, Ended, Saved, Active
<1>24. CASE Crash
  BY <1>24, Places DEF Crash, HistoryInv, Borrowing, Saving, Restoring,
     Ended, Saved, Active
<1> QED
  BY <1>1, <1>2, <1>3, <1>4, <1>5, <1>6, <1>7, <1>8, <1>9,
     <1>10, <1>11, <1>12, <1>13, <1>14, <1>15, <1>16, <1>17, <1>18,
     <1>19, <1>20, <1>21, <1>22, <1>23, <1>24
  DEF Next, Progress, Failure, CallEnds

(* Everything the service keeps, as one inductive invariant.                *)
THEOREM ServiceInvariant == Spec => []ServiceInv
<1>1. ServiceInv /\ [Next]_vars => ServiceInv'
  BY TypeStep, HolderStep, PathStep, TablesStep, CleanStep, HistoryStep
  DEF ServiceInv
<1> QED BY InitOK, <1>1, PTL DEF Spec

(* Types hold, and an agency marked as ready has its checkpoint tables.     *)
THEOREM ServiceTypeCorrect == Spec => []TypeOK
<1>1. ServiceInv => TypeOK
  BY DEF ServiceInv
<1> QED BY ServiceInvariant, <1>1, PTL


(* A borrowed connection always has one holder that still works with it.   *)
THEOREM NothingLeaks == Spec => []HeldByWorkers
<1>1. ServiceInv => HeldByWorkers
  BY DEF ServiceInv
<1> QED BY ServiceInvariant, <1>1, PTL


(* A run reads and writes its checkpoints in its own agency's schema.       *)
THEOREM SaverInOwnSchema == Spec => []SaverPinned
<1>1. ServiceInv => SaverPinned
  BY DEF ServiceInv, PathInv, SaverPinned
<1> QED BY ServiceInvariant, <1>1, PTL


(* A run that uses the checkpointer finds its tables.                       *)
THEOREM SaverFindsTables == Spec => []TablesReady
<1>1. ServiceInv => TablesReady
  BY DEF ServiceInv
<1> QED BY ServiceInvariant, <1>1, PTL


(* A turn that no other run of its session overlapped is never lost.        *)
THEOREM TurnsAreKept == Spec => []TurnsSurvive
<1>1. ServiceInv => TurnsSurvive
  BY DEF ServiceInv, HistoryInv, Saved, TurnsSurvive
<1> QED BY ServiceInvariant, <1>1, PTL


(* Only a cancelled restore leaves a connection in the pool that is not new. *)
THEOREM PoolStaysClean == Spec => []CleanUnlessCancelled
<1>1. ServiceInv => CleanUnlessCancelled
  BY HoldersDiffer DEF ServiceInv, CleanInv, CleanUnlessCancelled
<1> QED BY ServiceInvariant, <1>1, PTL


-----------------------------------------------------------------------------
(* The checkpointer as SessionStore.                                       *)

(* A checkpoint is written to the history of the run's own thread.          *)
LEMMA WrittenToOwn ==
  ASSUME PathInv, NEW r \in Requests, NEW turns, pc[r] = "running", Checkpoint(r, turns)
  PROVE  history' = [history EXCEPT ![AgencyOf[r]][Thread(r)] = turns]
BY DEF Checkpoint, PathInv, Saving

LEMMA ThreadParts ==
  ASSUME NEW r \in Requests
  PROVE  /\ Thread(r) \in Threads /\ Thread(r)[1] = AgencyOf[r]
         /\ AgencyOf[r] \in Schemas
BY ServiceAssumption DEF Thread, Threads, Sessions, Schemas

(* Steps that do not touch what is saved.                                   *)
LEMMA OnlyRunsSave ==
  ASSUME [Next]_vars,
         \A r \in Requests : ~NodeDone(r) /\ ~SaveAnswer(r)
  PROVE  UNCHANGED history
BY DEF Next, vars, dbVars, Progress, Failure, CallEnds, Arrive, Validated, WaitTimesOut, Connect,
       Tune, Pin, Prepare, ReadHistory, Restore, Rejected, TuneFails, PrepareFails, Interrupt,
       RestoreFails, RestoreCancelled, StartCall, CallConnects, CallReturns, CallGivesUp,
       CallFails, Crash

(* A run writes while its connection is pinned, so nothing goes astray.      *)
LEMMA StrayStep ==
  ASSUME ServiceInv, NothingStray, [Next]_vars
  PROVE  NothingStray'
<1>1. ASSUME NEW r \in Requests, NEW turns \in SUBSET Requests,
             history' = [history EXCEPT ![AgencyOf[r]][Thread(r)] = turns]
      PROVE  NothingStray'
  BY <1>1, ThreadParts DEF NothingStray, ServiceInv, TypeOK
<1>2. ASSUME NEW r \in Requests, NodeDone(r) PROVE NothingStray'
  <2>1. base[r] \in SUBSET Requests
    BY DEF ServiceInv, TypeOK
  <2> QED BY <1>1, <1>2, <2>1, WrittenToOwn DEF NodeDone, ServiceInv
<1>3. ASSUME NEW r \in Requests, SaveAnswer(r) PROVE NothingStray'
  <2>1. Finalize(r) \in SUBSET Requests
    BY DEF ServiceInv, TypeOK, Finalize
  <2> QED BY <1>1, <1>3, <2>1, WrittenToOwn DEF SaveAnswer, ServiceInv
<1>4. CASE \A r \in Requests : ~NodeDone(r) /\ ~SaveAnswer(r)
  BY <1>4, OnlyRunsSave DEF NothingStray
<1> QED BY <1>2, <1>3, <1>4

(* Where nothing is astray, a thread's turns are those in its own schema.    *)
LEMMA KeptInOwn ==
  ASSUME NEW h, NEW t \in Threads, \A s \in Schemas : s # t[1] => h[s][t] = {}
  PROVE  UNION {h[s][t] : s \in Schemas} = h[t[1]][t]
<1>1. t[1] \in Schemas
  BY DEF Threads, Schemas
<1>2. \A x : (\E s \in Schemas : x \in h[s][t]) <=> x \in h[t[1]][t]
  BY <1>1
<1> QED BY <1>2

LEMMA OwnWrite ==
  ASSUME TypeOK, NothingStray, NothingStray', NEW r \in Requests, NEW turns \in SUBSET Requests,
         history' = [history EXCEPT ![AgencyOf[r]][Thread(r)] = turns]
  PROVE  [t \in Threads |-> Kept(t)]' =
           [[t \in Threads |-> Kept(t)] EXCEPT ![Thread(r)] = turns]
<1>1. \A t \in Threads : Kept(t) = history[t[1]][t]
  BY KeptInOwn DEF Kept, NothingStray
<1>2. ASSUME NEW t \in Threads PROVE Kept(t)' = history'[t[1]][t]
  <2>1. PICK h : h = history'
    OBVIOUS
  <2>2. \A s \in Schemas : s # t[1] => h[s][t] = {}
    BY <2>1 DEF NothingStray
  <2>3. UNION {h[s][t] : s \in Schemas} = h[t[1]][t]
    BY <2>2, KeptInOwn
  <2> QED BY <2>1, <2>3 DEF Kept
<1>3. \A t \in Threads : history'[t[1]][t] =
        IF t = Thread(r) THEN turns ELSE history[t[1]][t]
  <2> SUFFICES ASSUME NEW t \in Threads
               PROVE  history'[t[1]][t] = IF t = Thread(r) THEN turns ELSE history[t[1]][t]
    OBVIOUS
  <2>1. t[1] \in Schemas
    BY DEF Threads, Schemas
  <2> QED BY <2>1, ThreadParts DEF TypeOK
<1> QED BY <1>1, <1>2, <1>3

(* A step between new, open and closed that saves and reads nothing.         *)
LEMMA QuietStep ==
  ASSUME UNCHANGED <<history, base>>,
         \A q \in Requests : Status(q)' \in {Status(q), "closed"}
  PROVE  Store!Abandon
BY DEF Store!Abandon, Kept

(* A request that goes on, short of running, or stops.                      *)
LEMMA QuietMove ==
  ASSUME TypeOK, UNCHANGED <<history, base>>, NEW r \in Requests, NEW l,
         pc' = [pc EXCEPT ![r] = l],
         \/ l \in Restoring \cup Ended
         \/ {pc[r], l} \cap ({"running"} \cup Restoring \cup Ended) = {}
  PROVE  Store!Abandon
<1>1. ASSUME NEW q \in Requests PROVE Status(q)' \in {Status(q), "closed"}
  <2>1. CASE q # r
    BY <2>1 DEF Status, TypeOK
  <2>2. CASE q = r /\ l \in Restoring \cup Ended
    BY <2>2 DEF Status, TypeOK, Restoring, Ended
  <2>3. CASE q = r /\ {pc[r], l} \cap ({"running"} \cup Restoring \cup Ended) = {}
    BY <2>3 DEF Status, TypeOK
  <2> QED BY <2>1, <2>2, <2>3
<1> QED BY <1>1, QuietStep

(* Each step of the service is a step of SessionStore or a stutter.          *)
LEMMA StoreStep ==
  ASSUME ServiceInv, NothingStray, NothingStray', [Next]_vars
  PROVE  [Store!Next]_(Store!vars)
<1> USE DEF ServiceInv, poolVars, dbVars
<1>1. CASE UNCHANGED vars
  BY <1>1, QuietStep DEF vars, Status, Store!Next
<1>2. ASSUME NEW r \in Requests,
             \/ Arrive(r) \/ Validated(r) \/ WaitTimesOut(r) \/ Connect(r) \/ Tune(r)
             \/ Pin(r) \/ Prepare(r)
      PROVE  Store!Abandon
  <2>1. \E l \in {"validating", "connecting", "failed", "tuning", "pinning", "reading", "preparing"} :
          pc' = [pc EXCEPT ![r] = l]
    BY <1>2 DEF Arrive, Validated, WaitTimesOut, Connect, Tune, Pin, Prepare, Goto
  <2>2. /\ pc[r] \in {"arriving", "validating", "connecting", "tuning", "pinning", "preparing"}
        /\ UNCHANGED <<history, base>>
    BY <1>2 DEF Arrive, Validated, WaitTimesOut, Connect, Tune, Pin, Prepare
  <2> QED BY <2>1, <2>2, QuietMove DEF Restoring, Ended
<1>3. ASSUME NEW r \in Requests, Failure(r) \/ Restore(r)
      PROVE  Store!Abandon
  <2>1. \E l \in {"failed", "aborting", "answered"} : pc' = [pc EXCEPT ![r] = l]
    BY <1>3 DEF Failure, Rejected, TuneFails, PrepareFails, Interrupt, Restore, RestoreFails,
                RestoreCancelled, Goto, Outcome
  <2>2. UNCHANGED <<history, base>>
    BY <1>3 DEF Failure, Rejected, TuneFails, PrepareFails, Interrupt, Restore, RestoreFails,
                RestoreCancelled
  <2> QED BY <2>1, <2>2, QuietMove DEF Restoring, Ended
<1>4. ASSUME NEW r \in Requests, NEW t \in Tools,
             StartCall(r, t) \/ CallConnects(r, t) \/ CallReturns(r, t)
      PROVE  Store!Abandon
  <2>1. UNCHANGED <<pc, history, base>>
    BY <1>4 DEF StartCall, CallConnects, CallReturns
  <2> QED BY <2>1, QuietStep DEF Status
<1>5. ASSUME NEW r \in Requests, NEW t \in Tools, CallGivesUp(r, t) \/ CallFails(r, t)
      PROVE  Store!Abandon
  <2>1. RunFails(r) /\ UNCHANGED <<history, base>>
    BY <1>5 DEF CallGivesUp, CallFails
  <2>2. CASE pc[r] = "running"
    <3>1. pc' = [pc EXCEPT ![r] = "aborting"]
      BY <2>1, <2>2 DEF RunFails
    <3> QED BY <2>1, <3>1, QuietMove DEF Restoring
  <2>3. CASE pc[r] # "running"
    <3>1. pc' = pc
      BY <2>1, <2>3 DEF RunFails, TypeOK
    <3> QED BY <2>1, <3>1, QuietStep DEF Status
  <2> QED BY <2>2, <2>3
<1>6. CASE Crash
  <2>1. \A q \in Requests : Status(q)' \in {Status(q), "closed"}
    BY <1>6 DEF Crash, Status, Ended, Restoring
  <2>2. UNCHANGED <<history, base>>
    BY <1>6 DEF Crash
  <2> QED BY <2>1, <2>2, QuietStep DEF Store!Next
<1>7. ASSUME NEW r \in Requests, ReadHistory(r)
      PROVE  Store!Begin(r)
  <2>1. base' = [base EXCEPT ![r] = Kept(Thread(r))]
    <3>1. base' = [base EXCEPT ![r] = history[AgencyOf[r]][Thread(r)]]
      BY <1>7 DEF ReadHistory, PathInv, Saving
    <3>2. Kept(Thread(r)) = history[AgencyOf[r]][Thread(r)]
      BY ThreadParts, KeptInOwn DEF Kept, NothingStray
    <3> QED BY <3>1, <3>2
  <2>2. pc[r] = "reading" /\ pc' = [pc EXCEPT ![r] = "running"] /\ UNCHANGED history
    BY <1>7 DEF ReadHistory, Goto
  <2>3. [q \in Requests |-> Status(q)]' = [[q \in Requests |-> Status(q)] EXCEPT ![r] = "open"]
    BY <2>2 DEF Status, TypeOK, Restoring, Ended
  <2>4. Status(r) = "new"
    BY <2>2 DEF Status, Restoring, Ended
  <2>5. [t \in Threads |-> Kept(t)]' = [t \in Threads |-> Kept(t)]
    BY <2>2 DEF Kept
  <2>6. [q \in Requests |-> Status(q)][r] = "new"
    BY <2>4
  <2>7. [t \in Threads |-> Kept(t)][[q \in Requests |-> Thread(q)][r]] = Kept(Thread(r))
    BY ThreadParts
  <2> QED BY <2>1, <2>3, <2>5, <2>6, <2>7 DEF Store!Begin
<1>8. ASSUME NEW r \in Requests, NodeDone(r)
      PROVE  Store!Refresh(r)
  <2>1. base[r] \in SUBSET Requests
    BY DEF TypeOK
  <2>2. history' = [history EXCEPT ![AgencyOf[r]][Thread(r)] = base[r]]
    BY <1>8, WrittenToOwn DEF NodeDone
  <2>3. [t \in Threads |-> Kept(t)]' =
          [[t \in Threads |-> Kept(t)] EXCEPT ![Thread(r)] = base[r]]
    BY <2>1, <2>2, OwnWrite
  <2>4. Status(r) = "open" /\ UNCHANGED <<pc, base>>
    BY <1>8 DEF NodeDone, Status, Restoring, Ended
  <2> QED BY <2>3, <2>4 DEF Store!Refresh, Store!Save, Status
<1>9. ASSUME NEW r \in Requests, SaveAnswer(r)
      PROVE  Store!Finish(r)
  <2>1. Finalize(r) \in SUBSET Requests
    BY DEF TypeOK, Finalize
  <2>2. history' = [history EXCEPT ![AgencyOf[r]][Thread(r)] = Finalize(r)]
    BY <1>9, WrittenToOwn DEF SaveAnswer
  <2>3. [t \in Threads |-> Kept(t)]' =
          [[t \in Threads |-> Kept(t)] EXCEPT ![Thread(r)] = base[r] \cup {r}]
    BY <2>1, <2>2, OwnWrite DEF Finalize
  <2>4. pc[r] = "running" /\ pc' = [pc EXCEPT ![r] = "closing"] /\ UNCHANGED base
    BY <1>9 DEF SaveAnswer, Goto
  <2>5. [q \in Requests |-> Status(q)]' = [[q \in Requests |-> Status(q)] EXCEPT ![r] = "closed"]
    BY <2>4 DEF Status, TypeOK, Restoring, Ended
  <2>6. Status(r) = "open"
    BY <2>4 DEF Status, Restoring, Ended
  <2> QED BY <2>3, <2>4, <2>5, <2>6 DEF Store!Finish, Store!Save
<1> QED
  BY <1>1, <1>2, <1>3, <1>4, <1>5, <1>6, <1>7, <1>8, <1>9
     DEF Next, Progress, CallEnds, Store!Next

(* Whatever connections the runs get, in whatever state, the checkpointer    *)
(* implements one history per agency and session.                           *)
THEOREM CheckpointerIsStore == Spec => KeepsSessions
<1>1. Init => NothingStray /\ Store!Init
  <2> SUFFICES ASSUME Init PROVE NothingStray /\ Store!Init
    OBVIOUS
  <2>1. NothingStray
    BY DEF Init, NothingStray
  <2>2. \A t \in Threads : Kept(t) = {}
    BY DEF Init, Kept
  <2>3. \A r \in Requests : Status(r) = "new"
    BY DEF Init, Status, Restoring, Ended
  <2> QED BY <2>1, <2>2, <2>3 DEF Init, Store!Init
<1>2. ServiceInv /\ NothingStray /\ [Next]_vars => NothingStray'
  BY StrayStep
<1>3. ServiceInv /\ NothingStray /\ NothingStray' /\ [Next]_vars => [Store!Next]_(Store!vars)
  BY StoreStep
<1> QED BY ServiceInvariant, <1>1, <1>2, <1>3, PTL DEF Spec, KeepsSessions, Store!Spec

=============================================================================
