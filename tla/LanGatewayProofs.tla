-------------------------- MODULE LanGatewayProofs --------------------------
(***************************************************************************)
(* The safety properties of LanGateway, for any processes, clients and     *)
(* networks.  IInv is inductive: Init implies it, every step preserves it, *)
(* and OneClient and SuccessSettles are among its conjuncts.               *)
(***************************************************************************)
EXTENDS LanGateway, TLAPS

USE LanAssumption DEF At, Busy, Goto, NoPlan

(* The initial states satisfy the invariant. *)
LEMMA InitInvariant == Init => IInv
<1> SUFFICES ASSUME Init PROVE IInv
  OBVIOUS
<1>1. TypeOK
  BY DEF Init, TypeOK, PcValues, Rules
<1>2. PlansAreRules /\ AloneIsAlone /\ LoadsIntoEmpty /\ Achieved /\ SuccessSettles
  BY DEF Init, PlansAreRules, ApplySteps, AloneIsAlone, LoadsIntoEmpty, Achieved,
         SuccessSettles
<1>3. OneClient
  BY DEF Init, OneClient, TableClients
<1> QED
  BY <1>1, <1>2, <1>3 DEF IInv

(* Every program run, file write, failure and reboot preserves it. *)
LEMMA StepInvariant == IInv /\ [Next]_vars => IInv'
<1> SUFFICES ASSUME IInv, [Next]_vars PROVE IInv'
  OBVIOUS
<1>0. /\ TypeOK /\ PlansAreRules /\ AloneIsAlone /\ LoadsIntoEmpty
      /\ OneClient /\ Achieved /\ SuccessSettles
  BY DEF IInv

<1>1. ASSUME NEW p \in Procs, BeginApply(p) PROVE IInv'
  <2>1. TypeOK'
    BY <1>0, <1>1 DEF TypeOK, PcValues, Rules, BeginApply, Begin, kernel,
       files
  <2>2. PlansAreRules'
    BY <1>0, <1>1 DEF TypeOK, PlansAreRules, ApplySteps, Rules,
       BeginApply, Begin, kernel, files
  <2>3. AloneIsAlone'
    <3>0. \A r \in alone' : Busy(r)'
      BY <1>0, <1>1 DEF TypeOK, AloneIsAlone, BeginApply, Begin, kernel,
         files
    <3> SUFFICES ASSUME NEW q \in Procs, NEW r \in Procs, q # r, Busy(q)', Busy(r)'
                 PROVE  q \notin alone' /\ overlapped'
      BY <3>0 DEF AloneIsAlone
    <3>1. CASE q # p /\ r # p
      BY <3>1, <1>0, <1>1 DEF TypeOK, AloneIsAlone, BeginApply, Begin,
         kernel, files
    <3>2. Begin(p, "ap_file")
      BY <1>1 DEF BeginApply
    <3>3. CASE q = p \/ r = p
      BY <3>2, <3>3, <1>0 DEF TypeOK, AloneIsAlone, Begin
    <3> QED
      BY <3>1, <3>3
  <2>4. LoadsIntoEmpty'
    BY <1>0, <1>1 DEF TypeOK, AloneIsAlone, LoadsIntoEmpty, BeginApply,
       Begin, kernel, files
  <2>5. OneClient'
    <3>1. table' = table /\ deleteFailed' = deleteFailed /\ (overlapped => overlapped')
      BY <1>1 DEF BeginApply, Begin, kernel, files
    <3> QED
      BY <1>0, <3>1 DEF OneClient, TableClients
  <2>6. Achieved'
    BY <1>0, <1>1 DEF TypeOK, AloneIsAlone, Achieved, BeginApply, Begin,
       kernel, files
  <2>7. SuccessSettles'
    BY <1>0, <1>1 DEF TypeOK, AloneIsAlone, SuccessSettles, BeginApply,
       Begin, kernel, files
  <2> QED
    BY <2>1, <2>2, <2>3, <2>4, <2>5, <2>6, <2>7 DEF IInv
<1>2. ASSUME NEW p \in Procs, ApplyFile(p) PROVE IInv'
  <2>1. TypeOK'
    BY <1>0, <1>2 DEF TypeOK, PcValues, PlansAreRules, ApplySteps, Rules,
       ApplyFile, kernel, hist
  <2>2. PlansAreRules'
    BY <1>0, <1>2 DEF TypeOK, PlansAreRules, ApplySteps, ApplyFile,
       kernel, hist
  <2>3. AloneIsAlone'
    BY <1>0, <1>2 DEF TypeOK, AloneIsAlone, ApplyFile, kernel, hist
  <2>4. LoadsIntoEmpty'
    BY <1>0, <1>2 DEF TypeOK, AloneIsAlone, LoadsIntoEmpty, ApplyFile,
       kernel, hist
  <2>5. OneClient'
    BY <1>0, <1>2 DEF OneClient, TableClients, ApplyFile, kernel, hist
  <2>6. Achieved'
    BY <1>0, <1>2 DEF TypeOK, AloneIsAlone, Achieved, ApplyFile, kernel,
       hist
  <2>7. SuccessSettles'
    BY <1>0, <1>2 DEF TypeOK, AloneIsAlone, SuccessSettles, ApplyFile,
       kernel, hist
  <2> QED
    BY <2>1, <2>2, <2>3, <2>4, <2>5, <2>6, <2>7 DEF IInv
<1>3. ASSUME NEW p \in Procs, ApplyCheck(p) PROVE IInv'
  <2>1. TypeOK'
    BY <1>0, <1>3 DEF TypeOK, PcValues, ApplyCheck, Finish, kernel, files
  <2>2. PlansAreRules'
    BY <1>0, <1>3 DEF TypeOK, PlansAreRules, ApplySteps, ApplyCheck,
       Finish, kernel, files
  <2>3. AloneIsAlone'
    BY <1>0, <1>3 DEF TypeOK, AloneIsAlone, ApplyCheck, Finish, kernel,
       files
  <2>4. LoadsIntoEmpty'
    BY <1>0, <1>3 DEF TypeOK, AloneIsAlone, LoadsIntoEmpty, ApplyCheck,
       Finish, kernel, files
  <2>5. OneClient'
    BY <1>0, <1>3 DEF OneClient, TableClients, ApplyCheck, Finish, kernel,
       files
  <2>6. Achieved'
    BY <1>0, <1>3 DEF TypeOK, AloneIsAlone, Achieved, ApplyCheck, Finish,
       kernel, files
  <2>7. SuccessSettles'
    BY <1>0, <1>3 DEF TypeOK, AloneIsAlone, SuccessSettles, ApplyCheck,
       Finish, kernel, files
  <2> QED
    BY <2>1, <2>2, <2>3, <2>4, <2>5, <2>6, <2>7 DEF IInv
<1>4. ASSUME NEW p \in Procs, ApplyForward(p) PROVE IInv'
  <2>1. TypeOK'
    BY <1>0, <1>4 DEF TypeOK, PcValues, ApplyForward, files, hist
  <2>2. PlansAreRules'
    BY <1>0, <1>4 DEF TypeOK, PlansAreRules, ApplySteps, ApplyForward,
       files, hist
  <2>3. AloneIsAlone'
    BY <1>0, <1>4 DEF TypeOK, AloneIsAlone, ApplyForward, files, hist
  <2>4. LoadsIntoEmpty'
    BY <1>0, <1>4 DEF TypeOK, AloneIsAlone, LoadsIntoEmpty, ApplyForward,
       files, hist
  <2>5. OneClient'
    BY <1>0, <1>4 DEF OneClient, TableClients, ApplyForward, files, hist
  <2>6. Achieved'
    BY <1>0, <1>4 DEF TypeOK, AloneIsAlone, Achieved, ApplyForward, files,
       hist
  <2>7. SuccessSettles'
    BY <1>0, <1>4 DEF TypeOK, AloneIsAlone, SuccessSettles, ApplyForward,
       files, hist
  <2> QED
    BY <2>1, <2>2, <2>3, <2>4, <2>5, <2>6, <2>7 DEF IInv
<1>5. ASSUME NEW p \in Procs, ApplyDelete(p) PROVE IInv'
  <2>1. TypeOK'
    BY <1>0, <1>5 DEF TypeOK, PcValues, ApplyDelete, TableGone, DeleteUnrun, files
  <2>2. PlansAreRules'
    BY <1>0, <1>5 DEF TypeOK, PlansAreRules, ApplySteps, ApplyDelete,
       TableGone, DeleteUnrun, files
  <2>3. AloneIsAlone'
    BY <1>0, <1>5 DEF TypeOK, AloneIsAlone, ApplyDelete, TableGone, DeleteUnrun, files
  <2>4. LoadsIntoEmpty'
    BY <1>0, <1>5 DEF TypeOK, AloneIsAlone, LoadsIntoEmpty, ApplyDelete,
       TableGone, DeleteUnrun, files
  <2>5. OneClient'
    BY <1>0, <1>5 DEF OneClient, TableClients, ApplyDelete, TableGone,
       DeleteUnrun, files
  <2>6. Achieved'
    <3>1. pc'[p] = "ap_load" /\ plan' = plan /\ alone' = alone /\ nftFile' = nftFile
          /\ forward' = forward /\ \A a \in Procs \ {p} : pc'[a] = pc[a]
      BY <1>0, <1>5 DEF TypeOK, ApplyDelete, files
    <3>2. \A a \in alone : a \in Procs /\ (a # p => FALSE)
      BY <1>0, <1>5 DEF TypeOK, AloneIsAlone, ApplyDelete
    <3>3. ok'[p] => ok[p] /\ (p \in unrun' \/ table' = {})
      BY <1>0, <1>5 DEF TypeOK, ApplyDelete, TableGone, DeleteUnrun
    <3> QED
      BY <1>0, <1>5, <3>1, <3>2, <3>3 DEF Achieved, ApplyDelete
  <2>7. SuccessSettles'
    BY <1>0, <1>5 DEF TypeOK, AloneIsAlone, SuccessSettles, ApplyDelete,
       TableGone, DeleteUnrun, files
  <2> QED
    BY <2>1, <2>2, <2>3, <2>4, <2>5, <2>6, <2>7 DEF IInv
<1>6. ASSUME NEW p \in Procs, ApplyLoad(p) PROVE IInv'
  <2>1. TypeOK'
    BY <1>0, <1>6 DEF TypeOK, PcValues, PlansAreRules, ApplySteps, Rules,
       ApplyLoad, Finish, files
  <2>2. PlansAreRules'
    BY <1>0, <1>6 DEF TypeOK, PlansAreRules, ApplySteps, ApplyLoad,
       Finish, files
  <2>3. AloneIsAlone'
    BY <1>0, <1>6 DEF TypeOK, AloneIsAlone, ApplyLoad, Finish, files
  <2>4. LoadsIntoEmpty'
    BY <1>0, <1>6 DEF TypeOK, AloneIsAlone, LoadsIntoEmpty, ApplyLoad,
       Finish, files
  <2>5. OneClient'
    BY <1>0, <1>6 DEF OneClient, TableClients, LoadsIntoEmpty, ApplyLoad,
       Finish, files
  <2>6. Achieved'
    BY <1>0, <1>6 DEF TypeOK, AloneIsAlone, Achieved, ApplyLoad, Finish,
       files
  <2>7. SuccessSettles'
    BY <1>0, <1>6 DEF TypeOK, AloneIsAlone, SuccessSettles, ApplyLoad,
       Finish, files
  <2> QED
    BY <2>1, <2>2, <2>3, <2>4, <2>5, <2>6, <2>7 DEF IInv
<1>7. ASSUME NEW p \in Procs, ApplyMark(p) PROVE IInv'
  <2>1. TypeOK'
    BY <1>0, <1>7 DEF TypeOK, PcValues, ApplyMark, kernel, hist
  <2>2. PlansAreRules'
    BY <1>0, <1>7 DEF TypeOK, PlansAreRules, ApplySteps, ApplyMark,
       kernel, hist
  <2>3. AloneIsAlone'
    BY <1>0, <1>7 DEF TypeOK, AloneIsAlone, ApplyMark, kernel, hist
  <2>4. LoadsIntoEmpty'
    BY <1>0, <1>7 DEF TypeOK, AloneIsAlone, LoadsIntoEmpty, ApplyMark,
       kernel, hist
  <2>5. OneClient'
    BY <1>0, <1>7 DEF OneClient, TableClients, ApplyMark, kernel, hist
  <2>6. Achieved'
    BY <1>0, <1>7 DEF TypeOK, AloneIsAlone, Achieved, ApplyMark, kernel,
       hist
  <2>7. SuccessSettles'
    BY <1>0, <1>7 DEF TypeOK, AloneIsAlone, SuccessSettles, Achieved,
       ApplyMark, kernel, hist
  <2> QED
    BY <2>1, <2>2, <2>3, <2>4, <2>5, <2>6, <2>7 DEF IInv
<1>8. ASSUME NEW p \in Procs, BeginRemove(p) PROVE IInv'
  <2>1. TypeOK'
    BY <1>0, <1>8 DEF TypeOK, PcValues, BeginRemove, Begin, kernel, files
  <2>2. PlansAreRules'
    BY <1>0, <1>8 DEF TypeOK, PlansAreRules, ApplySteps, BeginRemove,
       Begin, kernel, files
  <2>3. AloneIsAlone'
    <3>0. \A r \in alone' : Busy(r)'
      BY <1>0, <1>8 DEF TypeOK, AloneIsAlone, BeginRemove, Begin,
         kernel, files
    <3> SUFFICES ASSUME NEW q \in Procs, NEW r \in Procs, q # r, Busy(q)', Busy(r)'
                 PROVE  q \notin alone' /\ overlapped'
      BY <3>0 DEF AloneIsAlone
    <3>1. CASE q # p /\ r # p
      BY <3>1, <1>0, <1>8 DEF TypeOK, AloneIsAlone, BeginRemove, Begin,
         kernel, files
    <3>2. Begin(p, "rm_delete")
      BY <1>8 DEF BeginRemove
    <3>3. CASE q = p \/ r = p
      BY <3>2, <3>3, <1>0 DEF TypeOK, AloneIsAlone, Begin
    <3> QED
      BY <3>1, <3>3
  <2>4. LoadsIntoEmpty'
    BY <1>0, <1>8 DEF TypeOK, AloneIsAlone, LoadsIntoEmpty, BeginRemove,
       Begin, kernel, files
  <2>5. OneClient'
    BY <1>0, <1>8 DEF OneClient, TableClients, BeginRemove, Begin, kernel,
       files
  <2>6. Achieved'
    BY <1>0, <1>8 DEF TypeOK, AloneIsAlone, Achieved, BeginRemove, Begin,
       kernel, files
  <2>7. SuccessSettles'
    BY <1>0, <1>8 DEF TypeOK, AloneIsAlone, SuccessSettles, BeginRemove,
       Begin, kernel, files
  <2> QED
    BY <2>1, <2>2, <2>3, <2>4, <2>5, <2>6, <2>7 DEF IInv
<1>9. ASSUME NEW p \in Procs, RemoveDelete(p) PROVE IInv'
  <2>1. TypeOK'
    BY <1>0, <1>9 DEF TypeOK, PcValues, RemoveDelete, Finish, TableGone,
       DeleteUnrun, files
  <2>a. /\ \A a \in Procs \ {p} : pc'[a] = pc[a] /\ plan'[a] = plan[a]
        /\ pc[p] = "rm_delete" /\ nftFile' = nftFile
        /\ \/ pc'[p] = "rm_mark" /\ alone' = alone
           \/ pc'[p] = "idle" /\ alone' = alone \ {p}
    BY <1>0, <1>9 DEF TypeOK, RemoveDelete, Finish, files
  <2>b. overlapped' \in {overlapped, \E q, r \in Procs : q # r /\ Busy(q) /\ Busy(r)}
    BY <1>9 DEF RemoveDelete, TableGone, DeleteUnrun
  <2>2. PlansAreRules'
    BY <1>0, <2>a DEF TypeOK, PlansAreRules, ApplySteps
  <2>3. AloneIsAlone'
    <3>1. \A r \in alone' : Busy(r)'
      BY <1>0, <2>a DEF TypeOK, AloneIsAlone
    <3> SUFFICES ASSUME NEW q \in Procs, NEW r \in Procs, q # r, Busy(q)', Busy(r)'
                 PROVE  q \notin alone' /\ overlapped'
      BY <3>1 DEF AloneIsAlone
    <3>2. Busy(q) /\ Busy(r)
      BY <2>a
    <3> QED
      BY <1>0, <2>a, <2>b, <3>2 DEF AloneIsAlone
  <2>4. LoadsIntoEmpty'
    <3>1. CASE TableGone
      BY <3>1 DEF TableGone, LoadsIntoEmpty
    <3>2. CASE Finish(p) /\ UNCHANGED <<table, overlapped, deleteFailed>>
      BY <1>0, <3>2 DEF TypeOK, LoadsIntoEmpty, Finish
    <3>3. CASE DeleteUnrun(p) /\ Goto(p, "rm_mark") /\ UNCHANGED deleteFailed
      BY <1>0, <3>3 DEF TypeOK, LoadsIntoEmpty, DeleteUnrun
    <3> QED
      BY <1>9, <3>1, <3>2, <3>3 DEF RemoveDelete
  <2>5. OneClient'
    BY <1>0, <1>9 DEF OneClient, TableClients, RemoveDelete, Finish,
       TableGone, DeleteUnrun, files
  <2>6. Achieved'
    <3>1. CASE pc[p]' = "rm_mark"
      BY <1>0, <1>9, <3>1 DEF TypeOK, AloneIsAlone, Achieved,
         RemoveDelete, Finish, TableGone, DeleteUnrun, files
    <3>2. CASE Finish(p)
      BY <1>0, <1>9, <3>2 DEF TypeOK, AloneIsAlone, Achieved,
         RemoveDelete, Finish, TableGone, DeleteUnrun, files
    <3> QED
      BY <1>0, <1>9, <3>1, <3>2 DEF TypeOK, RemoveDelete
  <2>7. SuccessSettles'
    <3>1. CASE pc[p]' = "rm_mark"
      BY <1>0, <1>9, <3>1 DEF TypeOK, AloneIsAlone, SuccessSettles,
         RemoveDelete, Finish, TableGone, DeleteUnrun, files
    <3>2. CASE Finish(p)
      BY <1>0, <1>9, <3>2 DEF TypeOK, AloneIsAlone, SuccessSettles,
         RemoveDelete, Finish, TableGone, DeleteUnrun, files
    <3> QED
      BY <1>0, <1>9, <3>1, <3>2 DEF TypeOK, RemoveDelete
  <2> QED
    BY <2>1, <2>2, <2>3, <2>4, <2>5, <2>6, <2>7 DEF IInv
<1>10. ASSUME NEW p \in Procs, RemoveMark(p) PROVE IInv'
  <2>1. TypeOK'
    BY <1>0, <1>10 DEF TypeOK, PcValues, RemoveMark, kernel, hist
  <2>2. PlansAreRules'
    BY <1>0, <1>10 DEF TypeOK, PlansAreRules, ApplySteps, RemoveMark,
       kernel, hist
  <2>3. AloneIsAlone'
    BY <1>0, <1>10 DEF TypeOK, AloneIsAlone, RemoveMark, kernel, hist
  <2>4. LoadsIntoEmpty'
    BY <1>0, <1>10 DEF TypeOK, AloneIsAlone, LoadsIntoEmpty, RemoveMark,
       kernel, hist
  <2>5. OneClient'
    BY <1>0, <1>10 DEF OneClient, TableClients, RemoveMark, kernel, hist
  <2>6. Achieved'
    BY <1>0, <1>10 DEF TypeOK, AloneIsAlone, Achieved, RemoveMark, kernel,
       hist
  <2>7. SuccessSettles'
    BY <1>0, <1>10 DEF TypeOK, AloneIsAlone, SuccessSettles, Achieved,
       RemoveMark, kernel, hist
  <2> QED
    BY <2>1, <2>2, <2>3, <2>4, <2>5, <2>6, <2>7 DEF IInv
<1>11. ASSUME NEW p \in Procs, Return(p) PROVE IInv'
  <2>1. TypeOK'
    BY <1>0, <1>11 DEF TypeOK, PcValues, Return, Finish, kernel, files
  <2>2. PlansAreRules'
    BY <1>0, <1>11 DEF TypeOK, PlansAreRules, ApplySteps, Return, Finish,
       kernel, files
  <2>3. AloneIsAlone'
    BY <1>0, <1>11 DEF TypeOK, AloneIsAlone, Return, Finish, kernel, files
  <2>4. LoadsIntoEmpty'
    BY <1>0, <1>11 DEF TypeOK, AloneIsAlone, LoadsIntoEmpty, Return,
       Finish, kernel, files
  <2>5. OneClient'
    BY <1>0, <1>11 DEF OneClient, TableClients, Return, Finish, kernel,
       files
  <2>6. Achieved'
    BY <1>0, <1>11 DEF TypeOK, AloneIsAlone, Achieved, Return, Finish,
       kernel, files
  <2>7. SuccessSettles'
    BY <1>0, <1>11 DEF TypeOK, AloneIsAlone, SuccessSettles, Return,
       Finish, kernel, files
  <2> QED
    BY <2>1, <2>2, <2>3, <2>4, <2>5, <2>6, <2>7 DEF IInv
<1>12. ASSUME NEW p \in Procs, Crash(p) PROVE IInv'
  <2>1. TypeOK'
    BY <1>0, <1>12 DEF TypeOK, PcValues, Crash, Finish, kernel, files
  <2>2. PlansAreRules'
    BY <1>0, <1>12 DEF TypeOK, PlansAreRules, ApplySteps, Crash, Finish,
       kernel, files
  <2>3. AloneIsAlone'
    BY <1>0, <1>12 DEF TypeOK, AloneIsAlone, Crash, Finish, kernel, files
  <2>4. LoadsIntoEmpty'
    BY <1>0, <1>12 DEF TypeOK, AloneIsAlone, LoadsIntoEmpty, Crash,
       Finish, kernel, files
  <2>5. OneClient'
    BY <1>0, <1>12 DEF OneClient, TableClients, Crash, Finish, kernel,
       files
  <2>6. Achieved'
    BY <1>0, <1>12 DEF TypeOK, AloneIsAlone, Achieved, Crash, Finish,
       kernel, files
  <2>7. SuccessSettles'
    BY <1>0, <1>12 DEF TypeOK, AloneIsAlone, SuccessSettles, Crash,
       Finish, kernel, files
  <2> QED
    BY <2>1, <2>2, <2>3, <2>4, <2>5, <2>6, <2>7 DEF IInv
<1>13. ASSUME NetChange PROVE IInv'
  <2>1. TypeOK'
    BY <1>0, <1>13 DEF TypeOK, PcValues, NetChange, kernel, files, hist
  <2>2. PlansAreRules'
    BY <1>0, <1>13 DEF TypeOK, PlansAreRules, ApplySteps, NetChange,
       kernel, files, hist
  <2>3. AloneIsAlone'
    BY <1>0, <1>13 DEF TypeOK, AloneIsAlone, NetChange, kernel, files,
       hist
  <2>4. LoadsIntoEmpty'
    BY <1>0, <1>13 DEF TypeOK, AloneIsAlone, LoadsIntoEmpty, NetChange,
       kernel, files, hist
  <2>5. OneClient'
    BY <1>0, <1>13 DEF OneClient, TableClients, NetChange, kernel, files,
       hist
  <2>6. Achieved'
    BY <1>0, <1>13 DEF TypeOK, AloneIsAlone, Achieved, NetChange, kernel,
       files, hist
  <2>7. SuccessSettles'
    BY <1>0, <1>13 DEF TypeOK, AloneIsAlone, SuccessSettles, NetChange,
       kernel, files, hist
  <2> QED
    BY <2>1, <2>2, <2>3, <2>4, <2>5, <2>6, <2>7 DEF IInv
<1>14. ASSUME Reboot PROVE IInv'
  <2>1. TypeOK'
    BY <1>0, <1>14 DEF TypeOK, PcValues, Reboot, files
  <2>2. PlansAreRules'
    BY <1>0, <1>14 DEF TypeOK, PlansAreRules, ApplySteps, Reboot, files
  <2>3. AloneIsAlone'
    BY <1>0, <1>14 DEF TypeOK, AloneIsAlone, Reboot, files
  <2>4. LoadsIntoEmpty'
    BY <1>0, <1>14 DEF TypeOK, AloneIsAlone, LoadsIntoEmpty, Reboot, files
  <2>5. OneClient'
    BY <1>0, <1>14 DEF OneClient, TableClients, Reboot, files
  <2>6. Achieved'
    BY <1>0, <1>14 DEF TypeOK, AloneIsAlone, Achieved, Reboot, files
  <2>7. SuccessSettles'
    BY <1>0, <1>14 DEF TypeOK, AloneIsAlone, SuccessSettles, Reboot, files
  <2> QED
    BY <2>1, <2>2, <2>3, <2>4, <2>5, <2>6, <2>7 DEF IInv
<1>15. ASSUME UNCHANGED vars PROVE IInv'
  <2>1. TypeOK'
    BY <1>0, <1>15 DEF TypeOK, PcValues, vars, kernel, files, hist
  <2>2. PlansAreRules'
    BY <1>0, <1>15 DEF TypeOK, PlansAreRules, ApplySteps, vars, kernel,
       files, hist
  <2>3. AloneIsAlone'
    BY <1>0, <1>15 DEF TypeOK, AloneIsAlone, vars, kernel, files, hist
  <2>4. LoadsIntoEmpty'
    BY <1>0, <1>15 DEF TypeOK, AloneIsAlone, LoadsIntoEmpty, vars, kernel,
       files, hist
  <2>5. OneClient'
    BY <1>0, <1>15 DEF OneClient, TableClients, vars, kernel, files, hist
  <2>6. Achieved'
    BY <1>0, <1>15 DEF TypeOK, AloneIsAlone, Achieved, vars, kernel,
       files, hist
  <2>7. SuccessSettles'
    BY <1>0, <1>15 DEF TypeOK, AloneIsAlone, SuccessSettles, vars, kernel,
       files, hist
  <2> QED
    BY <2>1, <2>2, <2>3, <2>4, <2>5, <2>6, <2>7 DEF IInv
<1> QED
  BY <1>1, <1>2, <1>3, <1>4, <1>5, <1>6, <1>7, <1>8, <1>9, <1>10, <1>11,
     <1>12, <1>13, <1>14, <1>15 DEF Next, Apply, Remove

(* Every variable keeps its type: what the commands, the table, the files and
   the history hold, for any instance. *)
THEOREM TypeCorrect == Spec => []TypeOK
<1>1. IInv => TypeOK
  BY DEF IInv
<1> QED
  BY <1>1, InitInvariant, StepInvariant, PTL DEF Spec

(* The inductive invariant holds however many applies and removes overlap. *)
THEOREM Invariance == Spec => []IInv
BY InitInvariant, StepInvariant, PTL DEF Spec

(* lan_gateway_root_apply redirects one client at a time, unless commands
   overlapped or an apply kept the old table since it was last absent. *)
THEOREM OneClientAtATime == Spec => []OneClient
<1>1. IInv => OneClient
  BY DEF IInv
<1> QED
  BY <1>1, Invariance, PTL

(* An apply or remove that no other command overlapped and that reports
   success has established the file, the marker and forwarding, and a table
   with its client alone or none, unless nft could not be started to delete
   the old one. *)
THEOREM SuccessIsReal == Spec => []SuccessSettles
<1>1. IInv => SuccessSettles
  BY DEF IInv
<1> QED
  BY <1>1, Invariance, PTL
=============================================================================
