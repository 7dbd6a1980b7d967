------------------------ MODULE RegenCoalescer_proofs ------------------------
(***************************************************************************)
(* Theorems about RegenCoalescer, for any number of writers and versions   *)
(* and any timer settings.                                                 *)
(***************************************************************************)
EXTENDS RegenCoalescer, TLAPS

\* The coalescer that Get constructs has its types.
LEMMA TypesInitially == Init => TypeOK
  BY TimerAssumption DEF Init, TypeOK

\* Every step of writers, goroutine and process keeps them.
LEMMA TypesStep == TypeOK /\ [Next]_vars => TypeOK'
<1> SUFFICES ASSUME TypeOK, [Next]_vars
             PROVE  TypeOK'
  OBVIOUS
<1> USE TimerAssumption, BoundAssumption DEF TypeOK, Regenerating, published, timers, Rest
<1>1. ASSUME NEW w \in Writers, Write(w) PROVE TypeOK'
  BY <1>1 DEF Write
<1>2. ASSUME NEW w \in Writers, Kick(w) PROVE TypeOK'
  BY <1>2 DEF Kick
<1>3. CASE FirstKick
  BY <1>3 DEF FirstKick
<1>4. CASE FurtherKick
  BY <1>4 DEF FurtherKick
<1>5. CASE Tick
  BY <1>5 DEF Tick
<1>6. CASE Fire
  BY <1>6 DEF Fire
<1>7. CASE Exit
  BY <1>7 DEF Exit
<1>8. CASE Mark
  BY <1>8 DEF Mark
<1>9. CASE List
  BY <1>9 DEF List
<1>10. CASE WriteData
  BY <1>10 DEF WriteData
<1>11. CASE WriteRepomd
  BY <1>11 DEF WriteRepomd
<1>12. CASE Sign
  BY <1>12 DEF Sign
<1>13. CASE Sweep
  BY <1>13 DEF Sweep
<1>14. CASE Finish
  BY <1>14 DEF Finish
<1>15. CASE Fail
  BY <1>15 DEF Fail
<1>16. CASE Shutdown
  BY <1>16 DEF Shutdown
<1>17. CASE Restart
  BY <1>17 DEF Restart
<1>18. CASE UNCHANGED vars
  BY <1>18 DEF vars
<1>19. QED
  BY <1>1, <1>2, <1>3, <1>4, <1>5, <1>6, <1>7, <1>8, <1>9, <1>10,
     <1>11, <1>12, <1>13, <1>14, <1>15, <1>16, <1>17, <1>18 DEF Next, Goroutine

(* Type correctness of the coalescer, its timers, the published files and  *)
(* the writers.                                                            *)
THEOREM RegenTypes == Spec => []TypeOK
  BY TypesInitially, TypesStep, PTL DEF Spec

-----------------------------------------------------------------------------
\* Data files are written before the index that names them and swept after.
LEMMA DataStep == DataInv /\ [Next]_vars => DataInv'
<1> SUFFICES ASSUME DataInv, [Next]_vars
             PROVE  DataInv'
  OBVIOUS
<1>0. TypeOK'
  BY TypesStep DEF DataInv
<1> USE <1>0 DEF DataInv, IndexHasData, published, timers, Rest
<1>1. ASSUME NEW w \in Writers, Write(w) \/ Kick(w) PROVE DataInv'
  BY <1>1 DEF Write, Kick
<1>2. CASE FirstKick \/ FurtherKick \/ Fire \/ Exit \/ Tick \/ Shutdown
  BY <1>2 DEF FirstKick, FurtherKick, Fire, Exit, Tick, Shutdown
<1>3. CASE Mark \/ List
  BY <1>3 DEF Mark, List
<1>4. CASE WriteData
  BY <1>4 DEF WriteData
<1>5. CASE WriteRepomd \/ Sign
  BY <1>5 DEF WriteRepomd, Sign
<1>6. CASE Sweep
  BY <1>6 DEF Sweep
<1>7. CASE Finish \/ Fail \/ Restart
  BY <1>7 DEF Finish, Fail, Restart
<1>8. CASE UNCHANGED vars
  BY <1>8 DEF vars
<1>9. QED
  BY <1>1, <1>2, <1>3, <1>4, <1>5, <1>6, <1>7, <1>8 DEF Next, Goroutine

(* The data files that repomd.xml names exist in every state, failed       *)
(* regenerations, shutdowns and crashes included.                          *)
THEOREM IndexAlwaysHasData == Spec => []IndexHasData
<1>1. Init => DataInv
  BY TypesInitially DEF Init, DataInv, IndexHasData
<1>2. DataInv => IndexHasData
  BY DEF DataInv
<1>3. QED
  BY <1>1, <1>2, DataStep, PTL DEF Spec

-----------------------------------------------------------------------------
(* The step of the argument that no kick is lost.  A regeneration that     *)
(* neither fails nor dies ends what the kick that started it owes; a write *)
(* that it did not read has a kick of its own in the buffer, or a handler  *)
(* that is about to put it there.                                          *)
LEMMA FreshStep == FreshInv /\ [Next]_vars => FreshInv'
<1> SUFFICES ASSUME FreshInv, [Next]_vars
             PROVE  FreshInv'
  OBVIOUS
<1>0. TypeOK'
  BY TypesStep DEF FreshInv
<1> USE <1>0 DEF FreshInv, Owed, Stages, StateOwed, Regenerating, published, timers, Rest
<1>1. ASSUME NEW w \in Writers, Write(w) PROVE FreshInv'
  <2>1. writer'[w] = "committed"
    BY <1>1 DEF Write, TypeOK
  <2>2. QED
    BY <1>1, <2>1, BoundAssumption DEF Write, TypeOK
<1>2. ASSUME NEW w \in Writers, Kick(w) PROVE FreshInv'
  BY <1>2 DEF Kick
<1>3. CASE FirstKick \/ FurtherKick
  BY <1>3 DEF FirstKick, FurtherKick
<1>4. CASE Tick \/ Fire \/ Shutdown
  BY <1>4 DEF Tick, Fire, Shutdown
<1>5. CASE Exit
  BY <1>5 DEF Exit
<1>6. CASE Mark \/ List \/ WriteData
  BY <1>6 DEF Mark, List, WriteData, TypeOK
<1>7. CASE WriteRepomd
  BY <1>7 DEF WriteRepomd, TypeOK
<1>8. CASE Sign \/ Sweep \/ Finish
  BY <1>8 DEF Sign, Sweep, Finish
<1>9. CASE Fail \/ Restart
  BY <1>9 DEF Fail, Restart
<1>10. CASE UNCHANGED vars
  BY <1>10 DEF vars
<1>11. QED
  BY <1>1, <1>2, <1>3, <1>4, <1>5, <1>6, <1>7, <1>8, <1>9, <1>10
     DEF Next, Goroutine

(* No kick is lost: as long as no regeneration fails and no process dies,  *)
(* a waiting goroutine with an empty buffer and no handler on its way to   *)
(* Kick means that what was committed last is published, signed and marked *)
(* clean.                                                                  *)
THEOREM NoKickIsLost == Spec => []QuietIsFresh
<1>1. Init => FreshInv
  BY TypesInitially DEF Init, FreshInv, Owed, Stages, StateOwed
<1>2. FreshInv => QuietIsFresh
  BY DEF FreshInv, Owed, Stages, StateOwed, QuietIsFresh, Quiet, Regenerating
<1>3. FreshInv /\ [Next]_vars => FreshInv'
  BY FreshStep
<1>4. QED
  BY <1>1, <1>2, <1>3, PTL DEF Spec
=============================================================================
