------------------------- MODULE HotspotGuardProofs -------------------------
(***************************************************************************)
(* The safety properties of HotspotGuard, for any processes and            *)
(* interfaces.  They are conjuncts of IInv, which is inductive.            *)
(***************************************************************************)
EXTENDS HotspotGuard, TLAPS

USE HotspotAssumption DEF At, Busy, Goto

(* The initial states satisfy the invariant. *)
LEMMA InitInvariant == Init => IInv
<1> SUFFICES ASSUME Init PROVE IInv
  OBVIOUS
<1>1. TypeOK
  BY DEF Init, TypeOK
<1>2. CleanIsAlone /\ SeenStillHolds /\ GuardAsOrdered
  BY DEF Init, CleanIsAlone, SeenStillHolds, Checked, GuardAsOrdered
<1>3. CutsOnlyIfMoved /\ FailedStartRelocks /\ UserIsTold
  BY DEF Init, CutsOnlyIfMoved, FailedStartRelocks, UserIsTold
<1> QED
  BY <1>1, <1>2, <1>3 DEF IInv

(* Every nmcli call, marker write, failure and change of the network
   preserves it. *)
LEMMA StepInvariant == IInv /\ [Next]_vars => IInv'
<1> SUFFICES ASSUME IInv, [Next]_vars PROVE IInv'
  OBVIOUS
<1>0. /\ TypeOK /\ CleanIsAlone /\ SeenStillHolds /\ GuardAsOrdered
      /\ CutsOnlyIfMoved /\ FailedStartRelocks /\ UserIsTold
  BY DEF IInv

<1>1. ASSUME NEW p \in Procs, BeginStart(p) PROVE IInv'
  <2>1. TypeOK'
    BY <1>0, <1>1 DEF TypeOK, BeginStart, Begin, network, guard
  <2>2. CleanIsAlone'
    BY <1>0, <1>1 DEF TypeOK, CleanIsAlone, BeginStart, Begin, network,
       guard
  <2>3. SeenStillHolds'
    BY <1>0, <1>1 DEF TypeOK, SeenStillHolds, Checked, BeginStart, Begin,
       network, guard
  <2>4. GuardAsOrdered'
    BY <1>0, <1>1 DEF TypeOK, CleanIsAlone, GuardAsOrdered, BeginStart,
       Begin, network, guard
  <2>5. CutsOnlyIfMoved'
    BY <1>0, <1>1 DEF CutsOnlyIfMoved, BeginStart, Begin, network, guard
  <2>6. FailedStartRelocks'
    BY <1>0, <1>1 DEF TypeOK, CleanIsAlone, FailedStartRelocks,
       BeginStart, Begin, network, guard
  <2>7. UserIsTold'
    BY <1>0, <1>1 DEF TypeOK, CleanIsAlone, UserIsTold, GuardEnabled,
       Visible, BeginStart, Begin, network, guard
  <2> QED
    BY <2>1, <2>2, <2>3, <2>4, <2>5, <2>6, <2>7 DEF IInv
<1>2. ASSUME NEW p \in Procs, ReadProfile(p) PROVE IInv'
  <2>1. TypeOK'
    <3>1. CASE Finish(p)
      BY <1>0, <1>2, <3>1 DEF TypeOK, ReadProfile, Finish, network, guard
    <3>2. CASE ~Finish(p)
      <4>1. /\ pc' = [pc EXCEPT ![p] = "st_route"]
            /\ iface' = [iface EXCEPT ![p] = apIface]
            /\ UNCHANGED <<guarded, hist, network, guard>>
        BY <1>2, <3>2 DEF ReadProfile
      <4> QED
        BY <1>0, <4>1 DEF TypeOK, network, guard, hist
    <3> QED
      BY <3>1, <3>2
  <2>2. CleanIsAlone'
    BY <1>0, <1>2 DEF TypeOK, CleanIsAlone, ReadProfile, Finish, Visible,
       network, guard, hist
  <2>3. SeenStillHolds'
    BY <1>0, <1>2 DEF TypeOK, SeenStillHolds, Checked, ReadProfile,
       Finish, Visible, network, guard, hist
  <2>4. GuardAsOrdered'
    BY <1>0, <1>2 DEF TypeOK, CleanIsAlone, GuardAsOrdered, ReadProfile,
       Finish, Visible, network, guard, hist
  <2>5. CutsOnlyIfMoved'
    BY <1>0, <1>2 DEF CutsOnlyIfMoved, ReadProfile, Finish, Visible,
       network, guard, hist
  <2>6. FailedStartRelocks'
    BY <1>0, <1>2 DEF TypeOK, CleanIsAlone, FailedStartRelocks,
       ReadProfile, Finish, Visible, network, guard, hist
  <2>7. UserIsTold'
    BY <1>0, <1>2 DEF TypeOK, CleanIsAlone, UserIsTold, GuardEnabled,
       Visible, ReadProfile, Finish, network, guard, hist
  <2> QED
    BY <2>1, <2>2, <2>3, <2>4, <2>5, <2>6, <2>7 DEF IInv
<1>3. ASSUME NEW p \in Procs, ReadRoute(p) PROVE IInv'
  <2>1. TypeOK'
    <3>1. CASE Finish(p)
      BY <1>0, <1>3, <3>1 DEF TypeOK, ReadRoute, Finish, network, guard
    <3>2. CASE ~Finish(p)
      BY <1>0, <1>3, <3>2 DEF TypeOK, ReadRoute, network, guard, hist
    <3> QED
      BY <3>1, <3>2
  <2>2. CleanIsAlone'
    BY <1>0, <1>3 DEF TypeOK, CleanIsAlone, ReadRoute, Finish, network,
       guard, hist
  <2>3. SeenStillHolds'
    BY <1>0, <1>3 DEF TypeOK, SeenStillHolds, Checked, ReadRoute, Finish,
       network, guard, hist
  <2>4. GuardAsOrdered'
    BY <1>0, <1>3 DEF TypeOK, CleanIsAlone, GuardAsOrdered, ReadRoute,
       Finish, network, guard, hist
  <2>5. CutsOnlyIfMoved'
    BY <1>0, <1>3 DEF CutsOnlyIfMoved, ReadRoute, Finish, network, guard,
       hist
  <2>6. FailedStartRelocks'
    BY <1>0, <1>3 DEF TypeOK, CleanIsAlone, FailedStartRelocks, ReadRoute,
       Finish, network, guard, hist
  <2>7. UserIsTold'
    BY <1>0, <1>3 DEF TypeOK, CleanIsAlone, UserIsTold, GuardEnabled,
       Visible, ReadRoute, Finish, network, guard, hist
  <2> QED
    BY <2>1, <2>2, <2>3, <2>4, <2>5, <2>6, <2>7 DEF IInv
<1>4. ASSUME NEW p \in Procs, ReadGuard(p) PROVE IInv'
  <2>1. TypeOK'
    <3>1. CASE Finish(p)
      BY <1>0, <1>4, <3>1 DEF TypeOK, ReadGuard, Finish, network, guard
    <3>2. CASE ~Finish(p)
      BY <1>0, <1>4, <3>2 DEF TypeOK, ReadGuard, network, guard, hist
    <3> QED
      BY <3>1, <3>2
  <2>2. CleanIsAlone'
    BY <1>0, <1>4 DEF TypeOK, CleanIsAlone, ReadGuard, Finish, network,
       guard, hist
  <2>3. SeenStillHolds'
    BY <1>0, <1>4 DEF TypeOK, SeenStillHolds, Checked, ReadGuard, Finish,
       network, guard, hist
  <2>4. GuardAsOrdered'
    BY <1>0, <1>4 DEF TypeOK, CleanIsAlone, GuardAsOrdered, ReadGuard,
       Finish, network, guard, hist
  <2>5. CutsOnlyIfMoved'
    BY <1>0, <1>4 DEF CutsOnlyIfMoved, ReadGuard, Finish, network, guard,
       hist
  <2>6. FailedStartRelocks'
    BY <1>0, <1>4 DEF TypeOK, CleanIsAlone, FailedStartRelocks, ReadGuard,
       Finish, network, guard, hist
  <2>7. UserIsTold'
    BY <1>0, <1>4 DEF TypeOK, CleanIsAlone, UserIsTold, GuardEnabled,
       Visible, ReadGuard, Finish, network, guard, hist
  <2> QED
    BY <2>1, <2>2, <2>3, <2>4, <2>5, <2>6, <2>7 DEF IInv
<1>5. ASSUME NEW p \in Procs, Unlock(p) PROVE IInv'
  <2>1. TypeOK'
    BY <1>0, <1>5 DEF TypeOK, Unlock, Modify, Then, Finish, network
  <2>2. CleanIsAlone'
    BY <1>0, <1>5 DEF TypeOK, CleanIsAlone, Unlock, Modify, Then, Finish,
       network
  <2>3. SeenStillHolds'
    BY <1>0, <1>5 DEF TypeOK, SeenStillHolds, Checked, Unlock, Modify,
       Then, Finish, network
  <2>4. GuardAsOrdered'
    BY <1>0, <1>5 DEF TypeOK, CleanIsAlone, GuardAsOrdered, Unlock,
       Modify, Then, Finish, network
  <2>5. CutsOnlyIfMoved'
    BY <1>0, <1>5 DEF CutsOnlyIfMoved, Unlock, Modify, Then, Finish,
       network
  <2>6. FailedStartRelocks'
    BY <1>0, <1>5 DEF TypeOK, CleanIsAlone, FailedStartRelocks, Unlock,
       Modify, Then, Finish, network
  <2>7. UserIsTold'
    BY <1>0, <1>5 DEF TypeOK, CleanIsAlone, UserIsTold, GuardEnabled,
       Visible, Unlock, Modify, Then, Finish, network
  <2> QED
    BY <2>1, <2>2, <2>3, <2>4, <2>5, <2>6, <2>7 DEF IInv
<1>6. ASSUME NEW p \in Procs, UnlockMark(p) PROVE IInv'
  <2>1. TypeOK'
    BY <1>0, <1>6 DEF TypeOK, UnlockMark, WriteMarker, Then, Finish,
       network
  <2>2. CleanIsAlone'
    BY <1>0, <1>6 DEF TypeOK, CleanIsAlone, UnlockMark, WriteMarker, Then,
       Finish, network
  <2>3. SeenStillHolds'
    BY <1>0, <1>6 DEF TypeOK, SeenStillHolds, Checked, UnlockMark,
       WriteMarker, Then, Finish, network
  <2>4. GuardAsOrdered'
    BY <1>0, <1>6 DEF TypeOK, CleanIsAlone, GuardAsOrdered, UnlockMark,
       WriteMarker, Then, Finish, network
  <2>5. CutsOnlyIfMoved'
    BY <1>0, <1>6 DEF CutsOnlyIfMoved, UnlockMark, WriteMarker, Then,
       Finish, network
  <2>6. FailedStartRelocks'
    BY <1>0, <1>6 DEF TypeOK, CleanIsAlone, FailedStartRelocks,
       GuardAsOrdered, UnlockMark, WriteMarker, Then, Finish, network
  <2>7. UserIsTold'
    BY <1>0, <1>6 DEF TypeOK, CleanIsAlone, UserIsTold, GuardEnabled,
       Visible, GuardAsOrdered, UnlockMark, WriteMarker, Then, Finish,
       network
  <2> QED
    BY <2>1, <2>2, <2>3, <2>4, <2>5, <2>6, <2>7 DEF IInv
<1>7. ASSUME NEW p \in Procs, UnlockCheck(p) PROVE IInv'
  <2>1. TypeOK'
    BY <1>0, <1>7 DEF TypeOK, UnlockCheck, Then, Finish, network, guard
  <2>2. CleanIsAlone'
    BY <1>0, <1>7 DEF TypeOK, CleanIsAlone, UnlockCheck, Then, Finish,
       network, guard
  <2>3. SeenStillHolds'
    BY <1>0, <1>7 DEF TypeOK, SeenStillHolds, Checked, UnlockCheck, Then,
       Finish, network, guard
  <2>4. GuardAsOrdered'
    BY <1>0, <1>7 DEF TypeOK, CleanIsAlone, GuardAsOrdered, UnlockCheck,
       Then, Finish, network, guard
  <2>5. CutsOnlyIfMoved'
    BY <1>0, <1>7 DEF CutsOnlyIfMoved, UnlockCheck, Then, Finish, network,
       guard
  <2>6. FailedStartRelocks'
    BY <1>0, <1>7 DEF TypeOK, CleanIsAlone, FailedStartRelocks,
       UnlockCheck, Then, Finish, network, guard
  <2>7. UserIsTold'
    BY <1>0, <1>7 DEF TypeOK, CleanIsAlone, UserIsTold, GuardEnabled,
       Visible, UnlockCheck, Then, Finish, network, guard
  <2> QED
    BY <2>1, <2>2, <2>3, <2>4, <2>5, <2>6, <2>7 DEF IInv
<1>8. ASSUME NEW p \in Procs, Up(p) PROVE IInv'
  <2>1. TypeOK'
    BY <1>0, <1>8 DEF TypeOK, Up, Activate, Moves, AfterFailure, guard
  <2>2. CleanIsAlone'
    BY <1>0, <1>8 DEF TypeOK, CleanIsAlone, Up, Activate, Moves,
       AfterFailure, guard
  <2>3. SeenStillHolds'
    BY <1>0, <1>8 DEF TypeOK, SeenStillHolds, Checked, Up, Activate,
       Moves, AfterFailure, guard
  <2>4. GuardAsOrdered'
    BY <1>0, <1>8 DEF TypeOK, CleanIsAlone, GuardAsOrdered, Up, Activate,
       Moves, AfterFailure, guard
  <2>5. CutsOnlyIfMoved'
    BY <1>0, <1>8 DEF CutsOnlyIfMoved, SeenStillHolds, Checked, TypeOK,
       Up, Activate, Moves, AfterFailure, guard
  <2>6. FailedStartRelocks'
    BY <1>0, <1>8 DEF TypeOK, CleanIsAlone, FailedStartRelocks, Up,
       Activate, Moves, AfterFailure, guard
  <2>7. UserIsTold'
    BY <1>0, <1>8 DEF TypeOK, CleanIsAlone, UserIsTold, GuardEnabled,
       Visible, Up, Activate, Moves, AfterFailure, guard
  <2> QED
    BY <2>1, <2>2, <2>3, <2>4, <2>5, <2>6, <2>7 DEF IInv
<1>9. ASSUME NEW p \in Procs, Relock(p) PROVE IInv'
  <2>1. TypeOK'
    BY <1>0, <1>9 DEF TypeOK, Relock, Modify, Then, Finish, network
  <2>2. CleanIsAlone'
    BY <1>0, <1>9 DEF TypeOK, CleanIsAlone, Relock, Modify, Then, Finish,
       network
  <2>3. SeenStillHolds'
    BY <1>0, <1>9 DEF TypeOK, SeenStillHolds, Checked, Relock, Modify,
       Then, Finish, network
  <2>4. GuardAsOrdered'
    BY <1>0, <1>9 DEF TypeOK, CleanIsAlone, GuardAsOrdered, Relock,
       Modify, Then, Finish, network
  <2>5. CutsOnlyIfMoved'
    BY <1>0, <1>9 DEF CutsOnlyIfMoved, Relock, Modify, Then, Finish,
       network
  <2>6. FailedStartRelocks'
    BY <1>0, <1>9 DEF TypeOK, CleanIsAlone, FailedStartRelocks, Relock,
       Modify, Then, Finish, network
  <2>7. UserIsTold'
    BY <1>0, <1>9 DEF TypeOK, CleanIsAlone, UserIsTold, GuardEnabled,
       Visible, Relock, Modify, Then, Finish, network
  <2> QED
    BY <2>1, <2>2, <2>3, <2>4, <2>5, <2>6, <2>7 DEF IInv
<1>10. ASSUME NEW p \in Procs, RelockMark(p) PROVE IInv'
  <2>1. TypeOK'
    BY <1>0, <1>10 DEF TypeOK, RelockMark, WriteMarker, Then, Finish,
       network
  <2>2. CleanIsAlone'
    BY <1>0, <1>10 DEF TypeOK, CleanIsAlone, RelockMark, WriteMarker,
       Then, Finish, network
  <2>3. SeenStillHolds'
    BY <1>0, <1>10 DEF TypeOK, SeenStillHolds, Checked, RelockMark,
       WriteMarker, Then, Finish, network
  <2>4. GuardAsOrdered'
    BY <1>0, <1>10 DEF TypeOK, CleanIsAlone, GuardAsOrdered, RelockMark,
       WriteMarker, Then, Finish, network
  <2>5. CutsOnlyIfMoved'
    BY <1>0, <1>10 DEF CutsOnlyIfMoved, RelockMark, WriteMarker, Then,
       Finish, network
  <2>6. FailedStartRelocks'
    BY <1>0, <1>10 DEF TypeOK, CleanIsAlone, FailedStartRelocks,
       GuardAsOrdered, RelockMark, WriteMarker, Then, Finish, network
  <2>7. UserIsTold'
    BY <1>0, <1>10 DEF TypeOK, CleanIsAlone, UserIsTold, GuardEnabled,
       Visible, GuardAsOrdered, RelockMark, WriteMarker, Then, Finish,
       network
  <2> QED
    BY <2>1, <2>2, <2>3, <2>4, <2>5, <2>6, <2>7 DEF IInv
<1>11. ASSUME NEW p \in Procs, BeginGuard(p) PROVE IInv'
  <2>1. TypeOK'
    BY <1>0, <1>11 DEF TypeOK, BeginGuard, Begin, network, guard
  <2>2. CleanIsAlone'
    BY <1>0, <1>11 DEF TypeOK, CleanIsAlone, BeginGuard, Begin, network,
       guard
  <2>3. SeenStillHolds'
    BY <1>0, <1>11 DEF TypeOK, SeenStillHolds, Checked, BeginGuard, Begin,
       network, guard
  <2>4. GuardAsOrdered'
    BY <1>0, <1>11 DEF TypeOK, CleanIsAlone, GuardAsOrdered, BeginGuard,
       Begin, network, guard
  <2>5. CutsOnlyIfMoved'
    BY <1>0, <1>11 DEF CutsOnlyIfMoved, BeginGuard, Begin, network, guard
  <2>6. FailedStartRelocks'
    BY <1>0, <1>11 DEF TypeOK, CleanIsAlone, FailedStartRelocks,
       BeginGuard, Begin, network, guard
  <2>7. UserIsTold'
    BY <1>0, <1>11 DEF TypeOK, CleanIsAlone, UserIsTold, GuardEnabled,
       Visible, BeginGuard, Begin, network, guard
  <2> QED
    BY <2>1, <2>2, <2>3, <2>4, <2>5, <2>6, <2>7 DEF IInv
<1>12. ASSUME NEW p \in Procs, Enable(p) PROVE IInv'
  <2>1. TypeOK'
    BY <1>0, <1>12 DEF TypeOK, Enable, Modify, Then, Finish, network
  <2>2. CleanIsAlone'
    BY <1>0, <1>12 DEF TypeOK, CleanIsAlone, Enable, Modify, Then, Finish,
       network
  <2>3. SeenStillHolds'
    BY <1>0, <1>12 DEF TypeOK, SeenStillHolds, Checked, Enable, Modify,
       Then, Finish, network
  <2>4. GuardAsOrdered'
    BY <1>0, <1>12 DEF TypeOK, CleanIsAlone, GuardAsOrdered, Enable,
       Modify, Then, Finish, network
  <2>5. CutsOnlyIfMoved'
    BY <1>0, <1>12 DEF CutsOnlyIfMoved, Enable, Modify, Then, Finish,
       network
  <2>6. FailedStartRelocks'
    BY <1>0, <1>12 DEF TypeOK, CleanIsAlone, FailedStartRelocks, Enable,
       Modify, Then, Finish, network
  <2>7. UserIsTold'
    BY <1>0, <1>12 DEF TypeOK, CleanIsAlone, UserIsTold, GuardEnabled,
       Visible, Enable, Modify, Then, Finish, network
  <2> QED
    BY <2>1, <2>2, <2>3, <2>4, <2>5, <2>6, <2>7 DEF IInv
<1>13. ASSUME NEW p \in Procs, EnableMark(p) PROVE IInv'
  <2>1. TypeOK'
    BY <1>0, <1>13 DEF TypeOK, EnableMark, WriteMarker, Then, Finish,
       network
  <2>2. CleanIsAlone'
    BY <1>0, <1>13 DEF TypeOK, CleanIsAlone, EnableMark, WriteMarker,
       Then, Finish, network
  <2>3. SeenStillHolds'
    BY <1>0, <1>13 DEF TypeOK, SeenStillHolds, Checked, EnableMark,
       WriteMarker, Then, Finish, network
  <2>4. GuardAsOrdered'
    BY <1>0, <1>13 DEF TypeOK, CleanIsAlone, GuardAsOrdered, EnableMark,
       WriteMarker, Then, Finish, network
  <2>5. CutsOnlyIfMoved'
    BY <1>0, <1>13 DEF CutsOnlyIfMoved, EnableMark, WriteMarker, Then,
       Finish, network
  <2>6. FailedStartRelocks'
    BY <1>0, <1>13 DEF TypeOK, CleanIsAlone, FailedStartRelocks,
       GuardAsOrdered, EnableMark, WriteMarker, Then, Finish, network
  <2>7. UserIsTold'
    BY <1>0, <1>13 DEF TypeOK, CleanIsAlone, UserIsTold, GuardEnabled,
       Visible, GuardAsOrdered, EnableMark, WriteMarker, Then, Finish,
       network
  <2> QED
    BY <2>1, <2>2, <2>3, <2>4, <2>5, <2>6, <2>7 DEF IInv
<1>14. ASSUME NEW p \in Procs, Disable(p) PROVE IInv'
  <2>1. TypeOK'
    BY <1>0, <1>14 DEF TypeOK, Disable, Modify, Then, Finish, network
  <2>2. CleanIsAlone'
    BY <1>0, <1>14 DEF TypeOK, CleanIsAlone, Disable, Modify, Then,
       Finish, network
  <2>3. SeenStillHolds'
    BY <1>0, <1>14 DEF TypeOK, SeenStillHolds, Checked, Disable, Modify,
       Then, Finish, network
  <2>4. GuardAsOrdered'
    BY <1>0, <1>14 DEF TypeOK, CleanIsAlone, GuardAsOrdered, Disable,
       Modify, Then, Finish, network
  <2>5. CutsOnlyIfMoved'
    BY <1>0, <1>14 DEF CutsOnlyIfMoved, Disable, Modify, Then, Finish,
       network
  <2>6. FailedStartRelocks'
    BY <1>0, <1>14 DEF TypeOK, CleanIsAlone, FailedStartRelocks, Disable,
       Modify, Then, Finish, network
  <2>7. UserIsTold'
    BY <1>0, <1>14 DEF TypeOK, CleanIsAlone, UserIsTold, GuardEnabled,
       Visible, Disable, Modify, Then, Finish, network
  <2> QED
    BY <2>1, <2>2, <2>3, <2>4, <2>5, <2>6, <2>7 DEF IInv
<1>15. ASSUME NEW p \in Procs, DisableMark(p) PROVE IInv'
  <2>1. TypeOK'
    BY <1>0, <1>15 DEF TypeOK, DisableMark, WriteMarker, Then, Finish,
       network
  <2>2. CleanIsAlone'
    BY <1>0, <1>15 DEF TypeOK, CleanIsAlone, DisableMark, WriteMarker,
       Then, Finish, network
  <2>3. SeenStillHolds'
    BY <1>0, <1>15 DEF TypeOK, SeenStillHolds, Checked, DisableMark,
       WriteMarker, Then, Finish, network
  <2>4. GuardAsOrdered'
    BY <1>0, <1>15 DEF TypeOK, CleanIsAlone, GuardAsOrdered, DisableMark,
       WriteMarker, Then, Finish, network
  <2>5. CutsOnlyIfMoved'
    BY <1>0, <1>15 DEF CutsOnlyIfMoved, DisableMark, WriteMarker, Then,
       Finish, network
  <2>6. FailedStartRelocks'
    BY <1>0, <1>15 DEF TypeOK, CleanIsAlone, FailedStartRelocks,
       GuardAsOrdered, DisableMark, WriteMarker, Then, Finish, network
  <2>7. UserIsTold'
    BY <1>0, <1>15 DEF TypeOK, CleanIsAlone, UserIsTold, GuardEnabled,
       Visible, GuardAsOrdered, DisableMark, WriteMarker, Then, Finish,
       network
  <2> QED
    BY <2>1, <2>2, <2>3, <2>4, <2>5, <2>6, <2>7 DEF IInv
<1>16. ASSUME NEW p \in Procs, Return(p) PROVE IInv'
  <2>1. TypeOK'
    BY <1>0, <1>16 DEF TypeOK, Return, Finish, network, guard
  <2>2. CleanIsAlone'
    BY <1>0, <1>16 DEF TypeOK, CleanIsAlone, Return, Finish, network,
       guard
  <2>3. SeenStillHolds'
    BY <1>0, <1>16 DEF TypeOK, SeenStillHolds, Checked, Return, Finish,
       network, guard
  <2>4. GuardAsOrdered'
    BY <1>0, <1>16 DEF TypeOK, CleanIsAlone, GuardAsOrdered, Return,
       Finish, network, guard
  <2>5. CutsOnlyIfMoved'
    BY <1>0, <1>16 DEF CutsOnlyIfMoved, Return, Finish, network, guard
  <2>6. FailedStartRelocks'
    BY <1>0, <1>16 DEF TypeOK, CleanIsAlone, FailedStartRelocks, Return,
       Finish, network, guard
  <2>7. UserIsTold'
    BY <1>0, <1>16 DEF TypeOK, CleanIsAlone, UserIsTold, GuardEnabled,
       Visible, Return, Finish, network, guard
  <2> QED
    BY <2>1, <2>2, <2>3, <2>4, <2>5, <2>6, <2>7 DEF IInv
<1>17. ASSUME NEW p \in Procs, Crash(p) PROVE IInv'
  <2>1. TypeOK'
    BY <1>0, <1>17 DEF TypeOK, Crash, Finish, network, guard
  <2>2. CleanIsAlone'
    BY <1>0, <1>17 DEF TypeOK, CleanIsAlone, Crash, Finish, network, guard
  <2>3. SeenStillHolds'
    BY <1>0, <1>17 DEF TypeOK, SeenStillHolds, Checked, Crash, Finish,
       network, guard
  <2>4. GuardAsOrdered'
    BY <1>0, <1>17 DEF TypeOK, CleanIsAlone, GuardAsOrdered, Crash,
       Finish, network, guard
  <2>5. CutsOnlyIfMoved'
    BY <1>0, <1>17 DEF CutsOnlyIfMoved, Crash, Finish, network, guard
  <2>6. FailedStartRelocks'
    BY <1>0, <1>17 DEF TypeOK, CleanIsAlone, FailedStartRelocks, Crash,
       Finish, network, guard
  <2>7. UserIsTold'
    BY <1>0, <1>17 DEF TypeOK, CleanIsAlone, UserIsTold, GuardEnabled,
       Visible, Crash, Finish, network, guard
  <2> QED
    BY <2>1, <2>2, <2>3, <2>4, <2>5, <2>6, <2>7 DEF IInv
<1>18. ASSUME RouteChange PROVE IInv'
  <2>1. TypeOK'
    BY <1>0, <1>18 DEF TypeOK, RouteChange, Moves, guard
  <2>2. CleanIsAlone'
    BY <1>0, <1>18 DEF TypeOK, CleanIsAlone, RouteChange, Moves, guard
  <2>3. SeenStillHolds'
    BY <1>0, <1>18 DEF TypeOK, SeenStillHolds, Checked, RouteChange,
       Moves, guard
  <2>4. GuardAsOrdered'
    BY <1>0, <1>18 DEF TypeOK, CleanIsAlone, GuardAsOrdered, RouteChange,
       Moves, guard
  <2>5. CutsOnlyIfMoved'
    BY <1>0, <1>18 DEF CutsOnlyIfMoved, RouteChange, Moves, guard
  <2>6. FailedStartRelocks'
    BY <1>0, <1>18 DEF TypeOK, CleanIsAlone, FailedStartRelocks,
       RouteChange, Moves, guard
  <2>7. UserIsTold'
    BY <1>0, <1>18 DEF TypeOK, CleanIsAlone, UserIsTold, GuardEnabled,
       Visible, RouteChange, Moves, guard
  <2> QED
    BY <2>1, <2>2, <2>3, <2>4, <2>5, <2>6, <2>7 DEF IInv
<1>19. ASSUME ProfileEdit PROVE IInv'
  <2>1. TypeOK'
    BY <1>0, <1>19 DEF TypeOK, ProfileEdit, Moves, guard
  <2>2. CleanIsAlone'
    BY <1>0, <1>19 DEF TypeOK, CleanIsAlone, ProfileEdit, Moves, guard
  <2>3. SeenStillHolds'
    BY <1>0, <1>19 DEF TypeOK, SeenStillHolds, Checked, ProfileEdit,
       Moves, guard
  <2>4. GuardAsOrdered'
    BY <1>0, <1>19 DEF TypeOK, CleanIsAlone, GuardAsOrdered, ProfileEdit,
       Moves, guard
  <2>5. CutsOnlyIfMoved'
    BY <1>0, <1>19 DEF CutsOnlyIfMoved, ProfileEdit, Moves, guard
  <2>6. FailedStartRelocks'
    BY <1>0, <1>19 DEF TypeOK, CleanIsAlone, FailedStartRelocks,
       ProfileEdit, Moves, guard
  <2>7. UserIsTold'
    BY <1>0, <1>19 DEF TypeOK, CleanIsAlone, UserIsTold, GuardEnabled,
       Visible, ProfileEdit, Moves, guard
  <2> QED
    BY <2>1, <2>2, <2>3, <2>4, <2>5, <2>6, <2>7 DEF IInv
<1>20. ASSUME HotspotDown PROVE IInv'
  <2>1. TypeOK'
    BY <1>0, <1>20 DEF TypeOK, HotspotDown, guard, hist
  <2>2. CleanIsAlone'
    BY <1>0, <1>20 DEF TypeOK, CleanIsAlone, HotspotDown, guard, hist
  <2>3. SeenStillHolds'
    BY <1>0, <1>20 DEF TypeOK, SeenStillHolds, Checked, HotspotDown,
       guard, hist
  <2>4. GuardAsOrdered'
    BY <1>0, <1>20 DEF TypeOK, CleanIsAlone, GuardAsOrdered, HotspotDown,
       guard, hist
  <2>5. CutsOnlyIfMoved'
    BY <1>0, <1>20 DEF CutsOnlyIfMoved, HotspotDown, guard, hist
  <2>6. FailedStartRelocks'
    BY <1>0, <1>20 DEF TypeOK, CleanIsAlone, FailedStartRelocks,
       HotspotDown, guard, hist
  <2>7. UserIsTold'
    BY <1>0, <1>20 DEF TypeOK, CleanIsAlone, UserIsTold, GuardEnabled,
       Visible, HotspotDown, guard, hist
  <2> QED
    BY <2>1, <2>2, <2>3, <2>4, <2>5, <2>6, <2>7 DEF IInv
<1>21. ASSUME UNCHANGED vars PROVE IInv'
  <2>1. TypeOK'
    BY <1>0, <1>21 DEF TypeOK, vars, network, guard, hist
  <2>2. CleanIsAlone'
    BY <1>0, <1>21 DEF TypeOK, CleanIsAlone, vars, network, guard, hist
  <2>3. SeenStillHolds'
    BY <1>0, <1>21 DEF TypeOK, SeenStillHolds, Checked, vars, network,
       guard, hist
  <2>4. GuardAsOrdered'
    BY <1>0, <1>21 DEF TypeOK, CleanIsAlone, GuardAsOrdered, vars,
       network, guard, hist
  <2>5. CutsOnlyIfMoved'
    BY <1>0, <1>21 DEF CutsOnlyIfMoved, vars, network, guard, hist
  <2>6. FailedStartRelocks'
    BY <1>0, <1>21 DEF TypeOK, CleanIsAlone, FailedStartRelocks, vars,
       network, guard, hist
  <2>7. UserIsTold'
    BY <1>0, <1>21 DEF TypeOK, CleanIsAlone, UserIsTold, GuardEnabled,
       Visible, vars, network, guard, hist
  <2> QED
    BY <2>1, <2>2, <2>3, <2>4, <2>5, <2>6, <2>7 DEF IInv
<1> QED
  BY <1>1, <1>2, <1>3, <1>4, <1>5, <1>6, <1>7, <1>8, <1>9, <1>10, <1>11,
     <1>12, <1>13, <1>14, <1>15, <1>16, <1>17, <1>18, <1>19, <1>20, <1>21
     DEF Next, Start, GuardCommand

(* Every variable of the hotspot commands keeps its type. *)
THEOREM TypeCorrect == Spec => []TypeOK
<1>1. IInv => TypeOK
  BY DEF IInv
<1> QED
  BY <1>1, InitInvariant, StepInvariant, PTL DEF Spec

(* The inductive invariant holds however many commands overlap. *)
THEOREM Invariance == Spec => []IInv
BY InitInvariant, StepInvariant, PTL DEF Spec

(* hotspot_start_safe takes the default route down only if the route or the
   profile changed after preflight had read it. *)
THEOREM SafeStart == Spec => []CutsOnlyIfMoved
<1>1. IInv => CutsOnlyIfMoved
  BY DEF IInv
<1> QED
  BY <1>1, Invariance, PTL

(* A failed start puts the guard it removed back. *)
THEOREM FailedStartsRelock == Spec => []FailedStartRelocks
<1>1. IInv => FailedStartRelocks
  BY DEF IInv
<1> QED
  BY <1>1, Invariance, PTL

(* Guard commands that did what they said leave profile and marker agreeing. *)
THEOREM GuardIsTold == Spec => []UserIsTold
<1>1. IInv => UserIsTold
  BY DEF IInv
<1> QED
  BY <1>1, Invariance, PTL
=============================================================================
