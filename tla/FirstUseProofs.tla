---------------------------- MODULE FirstUseProofs ----------------------------
(***************************************************************************)
(* Proofs about FirstUse, for every set of processes, coroutines, models   *)
(* and payload fields, and every MaxEvents.                                 *)
(*                                                                          *)
(* The lock makes the check of the model exclusive in a process (Locked);   *)
(* so the answer a coroutine verifies is the one stable is about            *)
(* (ModelInv).  What a coroutine holds of the collection is intact until a  *)
(* delete (CollInv), which is what the memo inherits when it is set.        *)
(***************************************************************************)
EXTENDS FirstUse, TLAPS

Ensuring == {"ensure", "exists", "create", "schema", "index", "mark"}

(* What is known of the model at every place of a call.                     *)
ModelInv ==
  /\ \A p \in Procs : info[p] \in {NoModel, Expected}
  /\ \A p \in Procs : stable[p] /\ info[p] # NoModel => served = Expected
  /\ \A c \in Callers : pc[c] = "verify" /\ stable[ProcOf[c]] => vec[c] = served
  /\ \A c \in Callers : pc[c] \in Ensuring \cup {"apply", "embed"} /\ op[c] # "recreate"
                      => info[ProcOf[c]] # NoModel
  /\ \A c \in Callers : op[c] = "write" => pc[c] \in Ensuring \cup {"apply"}
  /\ \A c \in Callers : op[c] = "recreate" => pc[c] \in Ensuring \cup {"drop", "discard"}
  /\ \A c \in Callers : pc[c] \in {"drop", "discard"} => op[c] = "recreate"
  /\ \A c \in Callers : op[c] = "write" => vec[c] # NoModel
  /\ \A c \in Callers : op[c] = "write" /\ stable[ProcOf[c]] => vec[c] = served
  /\ PointsOfExpectedModel

(* What a coroutine that found or made the collection may rely on.          *)
CollInv ==
  /\ \A c \in Callers : intact[c] => coll = "hybrid" /\ Fields \ todo[c] \subseteq fields
  /\ \A c \in Callers : pc[c] = "mark" => todo[c] = {}
  /\ \A p \in Procs : sound[p] => ensured[p]
  /\ EnsuredIsUsable

(* A call that ends leaves its locals at rest.                              *)
LEMMA Returned ==
  ASSUME TypeOK, NEW c \in Callers, NEW outcome \in Ended, Return(c, outcome)
  PROVE  /\ pc' \in [Callers -> Places]
         /\ op' \in [Callers -> {"list", "write", "recreate"}]
         /\ todo' \in [Callers -> SUBSET Fields]
         /\ vec' \in [Callers -> Models \cup {NoModel}]
         /\ intact' \in [Callers -> BOOLEAN]
BY DEF TypeOK, Return, Goto, Places

LEMMA Held ==
  ASSUME TypeOK, NEW c \in Callers, Holds(c)
  PROVE  /\ pc' \in [Callers -> Places]
         /\ op' \in [Callers -> {"list", "write", "recreate"}]
         /\ todo' \in [Callers -> SUBSET Fields]
         /\ vec' \in [Callers -> Models \cup {NoModel}]
         /\ intact' \in [Callers -> BOOLEAN]
BY DEF TypeOK, Holds, Goto, Places

LEMMA RaisedEnds == \A c \in Callers : Raised(c) \in Ended
BY DEF Raised, Ended

LEMMA TypingStep == TypeOK /\ ModelInv /\ [Next]_vars => TypeOK'
<1> SUFFICES ASSUME TypeOK, ModelInv, [Next]_vars PROVE TypeOK' OBVIOUS
<1> USE FirstUseAssumption DEF TypeOK, Ended, Places
<1>1. ASSUME NEW c \in Callers, Start(c) PROVE TypeOK'
  BY <1>1 DEF Start, Take, Goto, qdrant, memo, local
<1>2. ASSUME NEW c \in Callers, Retest(c) PROVE TypeOK'
  BY <1>2 DEF Retest, Take, Goto, qdrant, memo, local
<1>3. ASSUME NEW c \in Callers, AnswerInfo(c) PROVE TypeOK'
  BY <1>3 DEF AnswerInfo, Goto, qdrant, memo, local
<1>4. ASSUME NEW c \in Callers, VerifyInfo(c) PROVE TypeOK'
  BY <1>4 DEF VerifyInfo, Goto, Unlock, Matches, Return, qdrant, memo, local
<1>5. ASSUME NEW c \in Callers, FailInfo(c) PROVE TypeOK'
  BY <1>5 DEF FailInfo, Goto, Unlock, Return, Event, qdrant, memo, local
<1>6. ASSUME NEW c \in Callers, CancelWait(c) PROVE TypeOK'
  BY <1>6 DEF CancelWait, Goto, Return, Event, qdrant, memo, local
<1>7. ASSUME NEW c \in Callers, TestEnsured(c) PROVE TypeOK'
  BY <1>7 DEF TestEnsured, Goto, Usable, Return, qdrant, memo, local
<1>8. ASSUME NEW c \in Callers, TestExists(c) PROVE TypeOK'
  BY <1>8 DEF TestExists, Goto, qdrant, memo, local
<1>9. ASSUME NEW c \in Callers, Create(c) PROVE TypeOK'
  <2>1. CASE coll = "none"
    BY <1>9, <2>1, Held DEF Create, memo
  <2>2. CASE coll # "none"
    BY <1>9, <2>2, Returned, RaisedEnds DEF Create, memo
  <2> QED BY <2>1, <2>2
<1>10. ASSUME NEW c \in Callers, RequireHybrid(c) PROVE TypeOK'
  <2>1. CASE coll = "hybrid"
    BY <1>10, <2>1, Held DEF RequireHybrid, qdrant, memo
  <2>2. CASE coll # "hybrid"
    BY <1>10, <2>2, Returned, RaisedEnds DEF RequireHybrid, qdrant, memo
  <2> QED BY <2>1, <2>2
<1>11. ASSUME NEW c \in Callers, IndexField(c) PROVE TypeOK'
  <2>1. CASE coll # "none" /\ todo[c] # {}
    BY <1>11, <2>1 DEF IndexField, memo
  <2>2. CASE coll = "none" /\ todo[c] # {}
    BY <1>11, <2>2, Returned, RaisedEnds DEF IndexField, memo
  <2>3. CASE todo[c] = {}
    BY <1>11, <2>3 DEF IndexField, Goto, memo, local
  <2> QED BY <2>1, <2>2, <2>3
<1>12. ASSUME NEW c \in Callers, MarkEnsured(c) PROVE TypeOK'
  BY <1>12 DEF MarkEnsured, Goto, Return, Usable, qdrant, memo, local
<1>13. ASSUME NEW c \in Callers, FailEnsure(c) PROVE TypeOK'
  BY <1>13 DEF FailEnsure, Goto, Return, Raised, Event, qdrant, memo, local
<1>14. ASSUME NEW c \in Callers, ListPoints(c) PROVE TypeOK'
  BY <1>14 DEF ListPoints, Goto, Return, qdrant, memo, local
<1>15. ASSUME NEW c \in Callers, Embed(c) PROVE TypeOK'
  BY <1>15 DEF Embed, Goto, qdrant, memo, local
<1>16. ASSUME NEW c \in Callers, UpsertPoints(c) PROVE TypeOK'
  <2>1. CASE Accepts(vec[c])
    <3>1. vec[c] \in Models \cup {NoModel} /\ stable[ProcOf[c]] \in BOOLEAN
      OBVIOUS
    <3>2. vec[c] \in Models
      BY <1>16 DEF UpsertPoints, ModelInv
    <3> QED BY <1>16, <2>1, <3>1, <3>2, Returned DEF UpsertPoints, memo
  <2>2. CASE ~ Accepts(vec[c])
    BY <1>16, <2>2, Returned DEF UpsertPoints, memo
  <2> QED BY <2>1, <2>2
<1>17. ASSUME NEW c \in Callers, FailCall(c) PROVE TypeOK'
  BY <1>17 DEF FailCall, Goto, Return, Event, qdrant, memo, local
<1>18. ASSUME NEW c \in Callers, StartRecreate(c) PROVE TypeOK'
  BY <1>18 DEF StartRecreate, Goto, Event, qdrant, memo, local
<1>19. ASSUME NEW c \in Callers, DropCollection(c) PROVE TypeOK'
  BY <1>19 DEF DropCollection, Goto, qdrant, memo, local
<1>20. ASSUME NEW c \in Callers, Discard(c) PROVE TypeOK'
  BY <1>20 DEF Discard, Goto, qdrant, memo, local
<1>21. ASSUME NEW m \in Models, Redeploy(m) PROVE TypeOK'
  BY <1>21 DEF Redeploy, Event, qdrant, local
<1>22. ASSUME NEW p \in Procs, Restart(p) PROVE TypeOK'
  <2>1. events' \in 0 .. MaxEvents
    BY <1>22 DEF Restart, Event
  <2>2. UNCHANGED <<served, coll, fields, points>>
    BY <1>22 DEF Restart, qdrant
  <2>3. /\ pc' \in [Callers -> Places]
        /\ op' \in [Callers -> {"list", "write", "recreate"}]
        /\ todo' \in [Callers -> SUBSET Fields]
        /\ vec' \in [Callers -> Models \cup {NoModel}]
        /\ intact' \in [Callers -> BOOLEAN]
    BY <1>22 DEF Restart
  <2>4. /\ info' \in [Procs -> Models \cup {NoModel}]
        /\ lock' \in [Procs -> Callers \cup {Nobody}]
        /\ ensured' \in [Procs -> BOOLEAN]
        /\ sound' \in [Procs -> BOOLEAN]
        /\ stable' \in [Procs -> BOOLEAN]
    BY <1>22 DEF Restart
  <2> QED BY <2>1, <2>2, <2>3, <2>4
<1>23. CASE UNCHANGED vars
  BY <1>23 DEF vars
<1> QED BY <1>1, <1>2, <1>3, <1>4, <1>5, <1>6, <1>7, <1>8, <1>9, <1>10, <1>11, <1>12, <1>13, <1>14, <1>15, <1>16, <1>17, <1>18, <1>19, <1>20, <1>21, <1>22, <1>23 DEF Next, Progress, Disturb

LEMMA LockStep == TypeOK /\ LockHeldByChecker /\ [Next]_vars => LockHeldByChecker'
<1> SUFFICES ASSUME TypeOK /\ LockHeldByChecker, [Next]_vars PROVE LockHeldByChecker' OBVIOUS
<1> USE FirstUseAssumption DEF TypeOK, LockHeldByChecker, Ended
<1>1. ASSUME NEW c \in Callers, Start(c) PROVE LockHeldByChecker'
  BY <1>1 DEF Start, Take, Goto, qdrant, memo, local
<1>2. ASSUME NEW c \in Callers, Retest(c) PROVE LockHeldByChecker'
  BY <1>2 DEF Retest, Take, Goto, qdrant, memo, local
<1>3. ASSUME NEW c \in Callers, AnswerInfo(c) PROVE LockHeldByChecker'
  BY <1>3 DEF AnswerInfo, Goto, qdrant, memo, local
<1>4. ASSUME NEW c \in Callers, VerifyInfo(c) PROVE LockHeldByChecker'
  BY <1>4 DEF VerifyInfo, Goto, Unlock, Matches, Return, qdrant, memo, local
<1>5. ASSUME NEW c \in Callers, FailInfo(c) PROVE LockHeldByChecker'
  BY <1>5 DEF FailInfo, Goto, Unlock, Return, Event, qdrant, memo, local
<1>6. ASSUME NEW c \in Callers, CancelWait(c) PROVE LockHeldByChecker'
  BY <1>6 DEF CancelWait, Goto, Return, Event, qdrant, memo, local
<1>7. ASSUME NEW c \in Callers, TestEnsured(c) PROVE LockHeldByChecker'
  BY <1>7 DEF TestEnsured, Goto, Usable, Return, qdrant, memo, local
<1>8. ASSUME NEW c \in Callers, TestExists(c) PROVE LockHeldByChecker'
  BY <1>8 DEF TestExists, Goto, qdrant, memo, local
<1>9. ASSUME NEW c \in Callers, Create(c) PROVE LockHeldByChecker'
  BY <1>9 DEF Create, Holds, Goto, Return, Raised, qdrant, memo, local
<1>10. ASSUME NEW c \in Callers, RequireHybrid(c) PROVE LockHeldByChecker'
  BY <1>10 DEF RequireHybrid, Holds, Goto, Return, Raised, qdrant, memo, local
<1>11. ASSUME NEW c \in Callers, IndexField(c) PROVE LockHeldByChecker'
  BY <1>11 DEF IndexField, Goto, Return, Raised, qdrant, memo, local
<1>12. ASSUME NEW c \in Callers, MarkEnsured(c) PROVE LockHeldByChecker'
  BY <1>12 DEF MarkEnsured, Goto, Return, Usable, qdrant, memo, local
<1>13. ASSUME NEW c \in Callers, FailEnsure(c) PROVE LockHeldByChecker'
  BY <1>13 DEF FailEnsure, Goto, Return, Raised, Event, qdrant, memo, local
<1>14. ASSUME NEW c \in Callers, ListPoints(c) PROVE LockHeldByChecker'
  BY <1>14 DEF ListPoints, Goto, Return, qdrant, memo, local
<1>15. ASSUME NEW c \in Callers, Embed(c) PROVE LockHeldByChecker'
  BY <1>15 DEF Embed, Goto, qdrant, memo, local
<1>16. ASSUME NEW c \in Callers, UpsertPoints(c) PROVE LockHeldByChecker'
  BY <1>16 DEF UpsertPoints, Goto, Return, Accepts, qdrant, memo, local
<1>17. ASSUME NEW c \in Callers, FailCall(c) PROVE LockHeldByChecker'
  BY <1>17 DEF FailCall, Goto, Return, Event, qdrant, memo, local
<1>18. ASSUME NEW c \in Callers, StartRecreate(c) PROVE LockHeldByChecker'
  BY <1>18 DEF StartRecreate, Goto, Event, qdrant, memo, local
<1>19. ASSUME NEW c \in Callers, DropCollection(c) PROVE LockHeldByChecker'
  BY <1>19 DEF DropCollection, Goto, qdrant, memo, local
<1>20. ASSUME NEW c \in Callers, Discard(c) PROVE LockHeldByChecker'
  BY <1>20 DEF Discard, Goto, qdrant, memo, local
<1>21. ASSUME NEW m \in Models, Redeploy(m) PROVE LockHeldByChecker'
  BY <1>21 DEF Redeploy, Event, qdrant, local
<1>22. ASSUME NEW p \in Procs, Restart(p) PROVE LockHeldByChecker'
  BY <1>22 DEF Restart, Event, qdrant
<1>23. CASE UNCHANGED vars
  BY <1>23 DEF vars
<1> QED BY <1>1, <1>2, <1>3, <1>4, <1>5, <1>6, <1>7, <1>8, <1>9, <1>10, <1>11, <1>12, <1>13, <1>14, <1>15, <1>16, <1>17, <1>18, <1>19, <1>20, <1>21, <1>22, <1>23 DEF Next, Progress, Disturb

LEMMA ModelStep == TypeOK /\ LockHeldByChecker /\ ModelInv /\ [Next]_vars => ModelInv'
<1> SUFFICES ASSUME TypeOK /\ LockHeldByChecker /\ ModelInv, [Next]_vars PROVE ModelInv' OBVIOUS
<1> USE FirstUseAssumption DEF TypeOK, LockHeldByChecker, ModelInv, PointsOfExpectedModel, Ended, Ensuring
<1>1. ASSUME NEW c \in Callers, Start(c) PROVE ModelInv'
  BY <1>1 DEF Start, Take, Goto, qdrant, memo, local
<1>2. ASSUME NEW c \in Callers, Retest(c) PROVE ModelInv'
  BY <1>2 DEF Retest, Take, Goto, qdrant, memo, local
<1>3. ASSUME NEW c \in Callers, AnswerInfo(c) PROVE ModelInv'
  BY <1>3 DEF AnswerInfo, Goto, qdrant, memo, local
<1>4. ASSUME NEW c \in Callers, VerifyInfo(c) PROVE ModelInv'
  <2>1. CASE Matches(vec[c])
    BY <1>4, <2>1 DEF VerifyInfo, Goto, Unlock, Matches, qdrant, local
  <2>2. CASE ~ Matches(vec[c])
    BY <1>4, <2>2 DEF VerifyInfo, Goto, Unlock, Return, qdrant, local
  <2> QED BY <2>1, <2>2
<1>5. ASSUME NEW c \in Callers, FailInfo(c) PROVE ModelInv'
  BY <1>5 DEF FailInfo, Goto, Unlock, Return, Event, qdrant, memo, local
<1>6. ASSUME NEW c \in Callers, CancelWait(c) PROVE ModelInv'
  BY <1>6 DEF CancelWait, Goto, Return, Event, qdrant, memo, local
<1>7. ASSUME NEW c \in Callers, TestEnsured(c) PROVE ModelInv'
  BY <1>7 DEF TestEnsured, Goto, Usable, Return, qdrant, memo, local
<1>8. ASSUME NEW c \in Callers, TestExists(c) PROVE ModelInv'
  BY <1>8 DEF TestExists, Goto, qdrant, memo, local
<1>9. ASSUME NEW c \in Callers, Create(c) PROVE ModelInv'
  BY <1>9 DEF Create, Holds, Goto, Return, Raised, qdrant, memo, local
<1>10. ASSUME NEW c \in Callers, RequireHybrid(c) PROVE ModelInv'
  <2>1. CASE coll = "hybrid"
    BY <1>10, <2>1 DEF RequireHybrid, Holds, Goto, qdrant, memo
  <2>2. CASE coll # "hybrid"
    BY <1>10, <2>2 DEF RequireHybrid, Return, Raised, Goto, qdrant, memo
  <2> QED BY <2>1, <2>2
<1>11. ASSUME NEW c \in Callers, IndexField(c) PROVE ModelInv'
  <2>1. CASE coll # "none" /\ todo[c] # {}
    BY <1>11, <2>1 DEF IndexField, memo
  <2>2. CASE coll = "none" /\ todo[c] # {}
    BY <1>11, <2>2 DEF IndexField, Return, Raised, Goto, memo
  <2>3. CASE todo[c] = {}
    BY <1>11, <2>3 DEF IndexField, Goto, memo, local
  <2> QED BY <2>1, <2>2, <2>3
<1>12. ASSUME NEW c \in Callers, MarkEnsured(c) PROVE ModelInv'
  BY <1>12 DEF MarkEnsured, Goto, Return, Usable, qdrant, memo, local
<1>13. ASSUME NEW c \in Callers, FailEnsure(c) PROVE ModelInv'
  BY <1>13 DEF FailEnsure, Goto, Return, Raised, Event, qdrant, memo, local
<1>14. ASSUME NEW c \in Callers, ListPoints(c) PROVE ModelInv'
  BY <1>14 DEF ListPoints, Goto, Return, qdrant, memo, local
<1>15. ASSUME NEW c \in Callers, Embed(c) PROVE ModelInv'
  BY <1>15 DEF Embed, Goto, qdrant, memo, local
<1>16. ASSUME NEW c \in Callers, UpsertPoints(c) PROVE ModelInv'
  BY <1>16 DEF UpsertPoints, Goto, Return, Accepts, qdrant, memo, local
<1>17. ASSUME NEW c \in Callers, FailCall(c) PROVE ModelInv'
  BY <1>17 DEF FailCall, Goto, Return, Event, qdrant, memo, local
<1>18. ASSUME NEW c \in Callers, StartRecreate(c) PROVE ModelInv'
  BY <1>18 DEF StartRecreate, Goto, Event, qdrant, memo, local
<1>19. ASSUME NEW c \in Callers, DropCollection(c) PROVE ModelInv'
  BY <1>19 DEF DropCollection, Goto, qdrant, memo, local
<1>20. ASSUME NEW c \in Callers, Discard(c) PROVE ModelInv'
  BY <1>20 DEF Discard, Goto, qdrant, memo, local
<1>21. ASSUME NEW m \in Models, Redeploy(m) PROVE ModelInv'
  BY <1>21 DEF Redeploy, Event, qdrant, local
<1>22. ASSUME NEW p \in Procs, Restart(p) PROVE ModelInv'
  BY <1>22 DEF Restart, Event, qdrant
<1>23. CASE UNCHANGED vars
  BY <1>23 DEF vars
<1> QED BY <1>1, <1>2, <1>3, <1>4, <1>5, <1>6, <1>7, <1>8, <1>9, <1>10, <1>11, <1>12, <1>13, <1>14, <1>15, <1>16, <1>17, <1>18, <1>19, <1>20, <1>21, <1>22, <1>23 DEF Next, Progress, Disturb

LEMMA CollStep == TypeOK /\ CollInv /\ [Next]_vars => CollInv'
<1> SUFFICES ASSUME TypeOK /\ CollInv, [Next]_vars PROVE CollInv' OBVIOUS
<1> USE FirstUseAssumption DEF TypeOK, CollInv, EnsuredIsUsable, Ended
<1>1. ASSUME NEW c \in Callers, Start(c) PROVE CollInv'
  BY <1>1 DEF Start, Take, Goto, qdrant, memo, local
<1>2. ASSUME NEW c \in Callers, Retest(c) PROVE CollInv'
  BY <1>2 DEF Retest, Take, Goto, qdrant, memo, local
<1>3. ASSUME NEW c \in Callers, AnswerInfo(c) PROVE CollInv'
  BY <1>3 DEF AnswerInfo, Goto, qdrant, memo, local
<1>4. ASSUME NEW c \in Callers, VerifyInfo(c) PROVE CollInv'
  <2>1. CASE Matches(vec[c])
    BY <1>4, <2>1 DEF VerifyInfo, Goto, Unlock, Matches, qdrant, local
  <2>2. CASE ~ Matches(vec[c])
    BY <1>4, <2>2 DEF VerifyInfo, Goto, Unlock, Return, qdrant, local
  <2> QED BY <2>1, <2>2
<1>5. ASSUME NEW c \in Callers, FailInfo(c) PROVE CollInv'
  BY <1>5 DEF FailInfo, Goto, Unlock, Return, Event, qdrant, memo, local
<1>6. ASSUME NEW c \in Callers, CancelWait(c) PROVE CollInv'
  BY <1>6 DEF CancelWait, Goto, Return, Event, qdrant, memo, local
<1>7. ASSUME NEW c \in Callers, TestEnsured(c) PROVE CollInv'
  BY <1>7 DEF TestEnsured, Goto, Usable, Return, qdrant, memo, local
<1>8. ASSUME NEW c \in Callers, TestExists(c) PROVE CollInv'
  BY <1>8 DEF TestExists, Goto, qdrant, memo, local
<1>9. ASSUME NEW c \in Callers, Create(c) PROVE CollInv'
  BY <1>9 DEF Create, Holds, Goto, Return, Raised, qdrant, memo, local
<1>10. ASSUME NEW c \in Callers, RequireHybrid(c) PROVE CollInv'
  BY <1>10 DEF RequireHybrid, Holds, Goto, Return, Raised, qdrant, memo, local
<1>11. ASSUME NEW c \in Callers, IndexField(c) PROVE CollInv'
  <2>1. CASE coll # "none" /\ todo[c] # {}
    <3>1. PICK f \in todo[c] :
            fields' = fields \cup {f} /\ todo' = [todo EXCEPT ![c] = @ \ {f}]
      BY <1>11, <2>1 DEF IndexField
    <3>2. UNCHANGED <<coll, pc, intact, ensured, sound>>
      BY <1>11, <2>1 DEF IndexField
    <3> QED BY <3>1, <3>2, <2>1
  <2>2. CASE coll = "none" /\ todo[c] # {}
    BY <1>11, <2>2 DEF IndexField, Return, Raised, Goto, memo
  <2>3. CASE todo[c] = {}
    BY <1>11, <2>3 DEF IndexField, Goto, memo, local
  <2> QED BY <2>1, <2>2, <2>3
<1>12. ASSUME NEW c \in Callers, MarkEnsured(c) PROVE CollInv'
  <2>1. todo[c] = {} /\ (intact[c] => coll = "hybrid" /\ fields = Fields)
    BY <1>12 DEF MarkEnsured
  <2>2. EnsuredIsUsable'
    <3> SUFFICES ASSUME NEW p \in Procs, ensured'[p], sound'[p]
                 PROVE  coll' = "hybrid" /\ fields' = Fields
      BY DEF EnsuredIsUsable
    <3>1. UNCHANGED <<coll, fields>>
      BY <1>12 DEF MarkEnsured, qdrant
    <3>2. CASE p = ProcOf[c] /\ intact[c]
      BY <2>1, <3>1, <3>2
    <3>3. CASE p # ProcOf[c] \/ ~ intact[c]
      <4>1. sound[p]
        BY <1>12, <3>3 DEF MarkEnsured
      <4> QED BY <3>1, <4>1
    <3> QED BY <3>2, <3>3
  <2>3. \A d \in Callers : (intact[d] => coll = "hybrid" /\ Fields \ todo[d] \subseteq fields)'
    BY <1>12, <2>1 DEF MarkEnsured, Usable, Return, Goto, qdrant, local
  <2>4. \A d \in Callers : (pc[d] = "mark" => todo[d] = {})'
    BY <1>12, <2>1 DEF MarkEnsured, Usable, Return, Goto, local
  <2>5. \A p \in Procs : (sound[p] => ensured[p])'
    BY <1>12 DEF MarkEnsured
  <2> QED BY <2>2, <2>3, <2>4, <2>5
<1>13. ASSUME NEW c \in Callers, FailEnsure(c) PROVE CollInv'
  BY <1>13 DEF FailEnsure, Goto, Return, Raised, Event, qdrant, memo, local
<1>14. ASSUME NEW c \in Callers, ListPoints(c) PROVE CollInv'
  BY <1>14 DEF ListPoints, Goto, Return, qdrant, memo, local
<1>15. ASSUME NEW c \in Callers, Embed(c) PROVE CollInv'
  BY <1>15 DEF Embed, Goto, qdrant, memo, local
<1>16. ASSUME NEW c \in Callers, UpsertPoints(c) PROVE CollInv'
  BY <1>16 DEF UpsertPoints, Goto, Return, Accepts, qdrant, memo, local
<1>17. ASSUME NEW c \in Callers, FailCall(c) PROVE CollInv'
  BY <1>17 DEF FailCall, Goto, Return, Event, qdrant, memo, local
<1>18. ASSUME NEW c \in Callers, StartRecreate(c) PROVE CollInv'
  BY <1>18 DEF StartRecreate, Goto, Event, qdrant, memo, local
<1>19. ASSUME NEW c \in Callers, DropCollection(c) PROVE CollInv'
  BY <1>19 DEF DropCollection, Goto, qdrant, memo, local
<1>20. ASSUME NEW c \in Callers, Discard(c) PROVE CollInv'
  BY <1>20 DEF Discard, Goto, qdrant, memo, local
<1>21. ASSUME NEW m \in Models, Redeploy(m) PROVE CollInv'
  BY <1>21 DEF Redeploy, Event, qdrant, local
<1>22. ASSUME NEW p \in Procs, Restart(p) PROVE CollInv'
  BY <1>22 DEF Restart, Event, qdrant
<1>23. CASE UNCHANGED vars
  BY <1>23 DEF vars
<1> QED BY <1>1, <1>2, <1>3, <1>4, <1>5, <1>6, <1>7, <1>8, <1>9, <1>10, <1>11, <1>12, <1>13, <1>14, <1>15, <1>16, <1>17, <1>18, <1>19, <1>20, <1>21, <1>22, <1>23 DEF Next, Progress, Disturb

-----------------------------------------------------------------------------
Inv == TypeOK /\ LockHeldByChecker /\ ModelInv /\ CollInv

LEMMA Initially == Init => Inv
BY FirstUseAssumption
   DEF Init, Inv, TypeOK, LockHeldByChecker, ModelInv, CollInv, EnsuredIsUsable,
       PointsOfExpectedModel, Ended, Places, Ensuring

LEMMA Invariance == Spec => []Inv
<1>1. Inv /\ [Next]_vars => Inv'
  BY TypingStep, LockStep, ModelStep, CollStep DEF Inv
<1> QED BY <1>1, Initially, PTL DEF Spec

(* Type correctness of the two memos, the collection and every call.        *)
THEOREM Typing == Spec => []TypeOK
BY Invariance, PTL DEF Inv

(* The asyncio.Lock of ensure_ready is never left taken: its holder is      *)
(* always a live coroutine that is checking the model.                      *)
THEOREM LockSafe == Spec => []LockHeldByChecker
BY Invariance, PTL DEF Inv

(* Vectors written by a process whose check of the inference service is not *)
(* outdated by a redeploy are vectors of EMBEDDING_MODEL.                   *)
THEOREM ModelChecked == Spec => []PointsOfExpectedModel
<1>1. Inv => PointsOfExpectedModel
  BY DEF Inv, ModelInv
<1> QED BY <1>1, Invariance, PTL

(* A remembered collection is complete unless it was deleted meanwhile, for *)
(* any number of processes and threads creating it at once.                 *)
THEOREM MemoIsTrue == Spec => []EnsuredIsUsable
<1>1. Inv => EnsuredIsUsable
  BY DEF Inv, CollInv
<1> QED BY <1>1, Invariance, PTL
=============================================================================
