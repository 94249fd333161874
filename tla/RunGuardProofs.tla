---------------------------- MODULE RunGuardProofs ----------------------------
(***************************************************************************)
(* Machine-checked proofs about RunGuard, for any number of processes,     *)
(* workers, run directories and names.                                     *)
(***************************************************************************)
EXTENDS RunGuard, TLAPS

USE ProcAssumption, NameAssumption, NullAssumption

LEMMA KeysAreKeys == \A r \in RunRoot : KeysOf(r) \subseteq Key
  BY DEF KeysOf, Key

\* A request that fails in acquire() keeps every type.
LEMMA AbandonType ==
  ASSUME TypeOK, NEW w \in Worker, Abandon(w)
  PROVE  TypeOK'
  BY DEF TypeOK, Abandon, Orphaned, Goto, AtRest, Busy, Acquiring, InBody,
         Releasing

LEMMA CreateType ==
  ASSUME TypeOK, NEW w \in Worker, pc[w] \in Busy, CreateLockFile(w)
  PROVE  TypeOK'
  BY DEF TypeOK, CreateLockFile, Goto, AtRest, Busy, Acquiring, InBody,
         Releasing

\* The type invariant is preserved by every action of the guard.
LEMMA TypeStep == TypeOK /\ [Next]_vars => TypeOK'
<1> SUFFICES ASSUME TypeOK, [Next]_vars PROVE TypeOK'
  OBVIOUS
<1> USE DEF AtRest, Busy, Acquiring, InBody, Releasing
<1>1. ASSUME NEW w \in Worker, NEW r \in RunRoot, Register(w, r) PROVE TypeOK'
  BY <1>1, KeysAreKeys DEF Register, TypeOK, Goto
<1>2. ASSUME NEW w \in Worker, NEW r \in RunRoot, Reject(w, r) PROVE TypeOK'
  BY <1>2 DEF Reject, TypeOK, Goto
<1>3. ASSUME NEW w \in Worker, Create(w) PROVE TypeOK'
  BY <1>3, AbandonType, CreateType DEF Create, TypeOK, Goto
<1>4. ASSUME NEW w \in Worker, Examine(w) PROVE TypeOK'
  BY <1>4, AbandonType DEF Examine, TypeOK, Goto
<1>5. ASSUME NEW w \in Worker, Mark(w) PROVE TypeOK'
  BY <1>5 DEF Mark, TypeOK, Goto
<1>6. ASSUME NEW w \in Worker, Rewrite(w) PROVE TypeOK'
  BY <1>6 DEF Rewrite, TypeOK, Goto, Status
<1>7. ASSUME NEW w \in Worker, Unlink(w) PROVE TypeOK'
  BY <1>7 DEF Unlink, TypeOK, Goto
<1>8. ASSUME NEW w \in Worker, Recreate(w) PROVE TypeOK'
  BY <1>8, AbandonType, CreateType DEF Recreate
<1>9. ASSUME NEW w \in Worker, WriteToken(w) PROVE TypeOK'
  BY <1>9, AbandonType DEF WriteToken, TypeOK, Goto
<1>10. ASSUME NEW w \in Worker, Refuse(w) PROVE TypeOK'
  BY <1>10 DEF Refuse, TypeOK, Goto
<1>11. ASSUME NEW w \in Worker, StartRun(w) PROVE TypeOK'
  BY <1>11 DEF StartRun, TypeOK, Goto, Status
<1>12. ASSUME NEW w \in Worker, FinishRun(w) PROVE TypeOK'
  BY <1>12 DEF FinishRun, TypeOK, Goto, Status
<1>13. ASSUME NEW w \in Worker, ReadLockFile(w) PROVE TypeOK'
  BY <1>13 DEF ReadLockFile, TypeOK, Goto
<1>14. ASSUME NEW w \in Worker, RemoveLockFile(w) PROVE TypeOK'
  BY <1>14 DEF RemoveLockFile, TypeOK, Goto, Orphaned
<1>15. ASSUME NEW w \in Worker, Unregister(w) PROVE TypeOK'
  BY <1>15 DEF Unregister, TypeOK, Goto
<1>16. ASSUME NEW r \in RunRoot, Age(r) PROVE TypeOK'
  BY <1>16 DEF Age, TypeOK
<1>17. ASSUME NEW r \in RunRoot, Reset(r) PROVE TypeOK'
  BY <1>17 DEF Reset, TypeOK, Status
<1>18. ASSUME NEW p \in Proc, Crash(p) PROVE TypeOK'
  BY <1>18 DEF Crash, TypeOK
<1>19. CASE UNCHANGED vars
  BY <1>19 DEF vars, TypeOK
<1>20. QED
  BY <1>1, <1>2, <1>3, <1>4, <1>5, <1>6, <1>7, <1>8, <1>9, <1>10, <1>11,
     <1>12, <1>13, <1>14, <1>15, <1>16, <1>17, <1>18, <1>19
  DEF Next, Step, Acquire, Body, Release

\* Type correctness of the run guard.
THEOREM TypeCorrect == Spec => []TypeOK
<1>1. Init => TypeOK
  BY DEF Init, TypeOK, Status, AtRest, Busy, Acquiring, InBody, Releasing
<1>2. QED
  BY <1>1, TypeStep, PTL DEF Spec

-------------------------------------------------------------------------------
(***************************************************************************)
(* The inductive invariant: a request inside guarded_run owns both of its  *)
(* registry keys, and a lock file whose token is alive belongs to the      *)
(* request that created it and is still between its creation and its       *)
(* removal.                                                                *)
(***************************************************************************)
KeysAreHeld ==
    \A w \in Worker : pc[w] \in Busy =>
        \A k \in KeysOf(root[w]) : registry[ProcOf[w]][k] = w

HasFile == {"token", "release", "remove"} \cup InBody

FileIsHeld ==
    \A r \in RunRoot, w \in Worker :
        lockfile[r] = w => pc[w] \in HasFile /\ root[w] = r

\* Two live requests of a process have no key in common.
LEMMA HeldKeysExclude ==
  ASSUME TypeOK, KeysAreHeld
  PROVE  OneRunPerName
<1> SUFFICES ASSUME NEW v \in Worker, NEW w \in Worker,
                    v # w, ProcOf[v] = ProcOf[w],
                    pc[v] \in Busy, pc[w] \in Busy,
                    NameOf[root[v]] = NameOf[root[w]]
             PROVE  FALSE
  BY DEF OneRunPerName
<1>1. registry[ProcOf[v]][NameOf[root[v]]] = v
  BY DEF KeysAreHeld, KeysOf
<1>2. registry[ProcOf[w]][NameOf[root[w]]] = w
  BY DEF KeysAreHeld, KeysOf
<1>3. QED
  BY <1>1, <1>2

\* A step that keeps the registry and makes no resting worker busy, nor moves
\* a busy one to another root, keeps KeysAreHeld.
LEMMA RegistryUntouched ==
  ASSUME KeysAreHeld, UNCHANGED registry,
         \A w \in Worker :
            pc'[w] \in Busy => pc[w] \in Busy /\ root'[w] = root[w]
  PROVE  KeysAreHeld'
  BY DEF KeysAreHeld, KeysOf

\* A request that drops its RunLock takes no key from another one.
LEMMA AbandonKeepsKeys ==
  ASSUME TypeOK, KeysAreHeld, NEW w \in Worker, Abandon(w)
  PROVE  KeysAreHeld'
<1> SUFFICES ASSUME NEW v \in Worker, pc'[v] \in Busy,
                    NEW k \in KeysOf(root'[v])
             PROVE  registry'[ProcOf[v]][k] = v
  BY DEF KeysAreHeld, KeysOf
<1>1. v # w /\ pc[v] \in Busy /\ root'[v] = root[v]
  BY DEF Abandon, Goto, TypeOK, AtRest, Busy, Acquiring, InBody, Releasing
<1>2. root[v] \in RunRoot
  BY <1>1 DEF TypeOK, AtRest, Busy, Acquiring, InBody, Releasing
<1>3. registry[ProcOf[v]][k] = v /\ k \in Key
  BY <1>1, <1>2, KeysAreKeys DEF KeysAreHeld
<1>4. QED
  BY <1>1, <1>3 DEF Abandon, Orphaned, TypeOK

LEMMA CreateKeepsKeys ==
  ASSUME TypeOK, KeysAreHeld, NEW w \in Worker, pc[w] \in Busy,
         CreateLockFile(w)
  PROVE  KeysAreHeld'
  BY RegistryUntouched DEF CreateLockFile, Goto, TypeOK

\* KeysAreHeld is preserved by every action of the guard.
LEMMA KeysStep == TypeOK /\ KeysAreHeld /\ [Next]_vars => KeysAreHeld'
<1> SUFFICES ASSUME TypeOK, KeysAreHeld, [Next]_vars PROVE KeysAreHeld'
  OBVIOUS
<1>1. ASSUME NEW w \in Worker, NEW r \in RunRoot, Register(w, r)
      PROVE  KeysAreHeld'
  <2> SUFFICES ASSUME NEW v \in Worker, pc'[v] \in Busy,
                      NEW k \in KeysOf(root'[v])
               PROVE  registry'[ProcOf[v]][k] = v
    BY DEF KeysAreHeld, KeysOf
  <2>1. CASE v = w
    <3>1. root'[v] = r
      BY <1>1, <2>1 DEF Register, TypeOK
    <3>2. k \in Key
      BY <3>1, KeysAreKeys
    <3>3. QED
      BY <1>1, <2>1, <3>1, <3>2 DEF Register, TypeOK
  <2>2. CASE v # w
    <3>1. pc[v] \in Busy /\ root'[v] = root[v]
      BY <1>1, <2>2 DEF Register, Goto, TypeOK
    <3>2. root[v] \in RunRoot
      BY <3>1 DEF TypeOK, AtRest, Busy, Acquiring, InBody, Releasing
    <3>3. registry[ProcOf[v]][k] = v /\ k \in Key
      BY <3>1, <3>2, KeysAreKeys DEF KeysAreHeld
    <3>4. ProcOf[v] = ProcOf[w] => k \notin KeysOf(r)
      BY <1>1, <3>3 DEF Register, Free
    <3>5. QED
      BY <1>1, <2>2, <3>3, <3>4 DEF Register, TypeOK
  <2>3. QED
    BY <2>1, <2>2
<1>2. ASSUME NEW w \in Worker, NEW r \in RunRoot, Reject(w, r)
      PROVE  KeysAreHeld'
  BY <1>2, RegistryUntouched
  DEF Reject, Goto, TypeOK, AtRest, Busy, Acquiring, InBody, Releasing
<1>3. ASSUME NEW w \in Worker, Create(w) PROVE KeysAreHeld'
  <2>1. pc[w] \in Busy
    BY <1>3 DEF Create, Busy, Acquiring
  <2>2. QED
    BY <1>3, <2>1, AbandonKeepsKeys, CreateKeepsKeys, RegistryUntouched
    DEF Create, Goto, TypeOK
<1>4. ASSUME NEW w \in Worker, Examine(w) PROVE KeysAreHeld'
  <2>1. pc[w] \in Busy
    BY <1>4 DEF Examine, Busy, Acquiring
  <2>2. QED
    BY <1>4, <2>1, AbandonKeepsKeys, RegistryUntouched
    DEF Examine, Goto, TypeOK
<1>5. ASSUME NEW w \in Worker, Recreate(w) PROVE KeysAreHeld'
  <2>1. pc[w] \in Busy
    BY <1>5 DEF Recreate, Busy, Acquiring
  <2>2. QED
    BY <1>5, <2>1, AbandonKeepsKeys, CreateKeepsKeys DEF Recreate
<1>6. ASSUME NEW w \in Worker, WriteToken(w) PROVE KeysAreHeld'
  <2>1. pc[w] \in Busy
    BY <1>6 DEF WriteToken, Busy, Acquiring
  <2>2. QED
    BY <1>6, <2>1, AbandonKeepsKeys, RegistryUntouched
    DEF WriteToken, Goto, TypeOK
<1>7. ASSUME NEW w \in Worker,
             Mark(w) \/ Rewrite(w) \/ Unlink(w) \/ Body(w)
               \/ ReadLockFile(w) \/ RemoveLockFile(w)
      PROVE  KeysAreHeld'
  <2>1. pc[w] \in Busy /\ UNCHANGED <<registry, root>>
    BY <1>7 DEF Mark, Rewrite, Unlink, Body, Refuse, StartRun, FinishRun,
                ReadLockFile, RemoveLockFile, Busy, Acquiring, InBody,
                Releasing
  <2>2. \A v \in Worker : v # w => pc'[v] = pc[v]
    BY <1>7 DEF Mark, Rewrite, Unlink, Body, Refuse, StartRun, FinishRun,
                ReadLockFile, RemoveLockFile, Goto, TypeOK
  <2>3. QED
    BY <2>1, <2>2, RegistryUntouched
<1>8. ASSUME NEW w \in Worker, Unregister(w) PROVE KeysAreHeld'
  <2> SUFFICES ASSUME NEW v \in Worker, pc'[v] \in Busy,
                      NEW k \in KeysOf(root'[v])
               PROVE  registry'[ProcOf[v]][k] = v
    BY DEF KeysAreHeld, KeysOf
  <2>1. v # w /\ pc[v] \in Busy /\ root'[v] = root[v]
    BY <1>8 DEF Unregister, Goto, TypeOK, AtRest, Busy, Acquiring, InBody,
                Releasing
  <2>2. root[v] \in RunRoot
    BY <2>1 DEF TypeOK, AtRest, Busy, Acquiring, InBody, Releasing
  <2>3. registry[ProcOf[v]][k] = v /\ k \in Key
    BY <2>1, <2>2, KeysAreKeys DEF KeysAreHeld
  <2>4. QED
    BY <1>8, <2>1, <2>3 DEF Unregister, TypeOK
<1>9. ASSUME NEW p \in Proc, Crash(p) PROVE KeysAreHeld'
  <2> SUFFICES ASSUME NEW v \in Worker, pc'[v] \in Busy,
                      NEW k \in KeysOf(root'[v])
               PROVE  registry'[ProcOf[v]][k] = v
    BY DEF KeysAreHeld, KeysOf
  <2>1. ProcOf[v] # p /\ pc[v] \in Busy /\ root'[v] = root[v]
    BY <1>9 DEF Crash, AtRest, Busy, Acquiring, InBody, Releasing
  <2>2. QED
    BY <1>9, <2>1 DEF Crash, KeysAreHeld, TypeOK
<1>10. ASSUME NEW r \in RunRoot, Age(r) \/ Reset(r) PROVE KeysAreHeld'
  BY <1>10, RegistryUntouched DEF Age, Reset
<1>11. CASE UNCHANGED vars
  BY <1>11, RegistryUntouched DEF vars
<1>12. QED
  BY <1>1, <1>2, <1>3, <1>4, <1>5, <1>6, <1>7, <1>8, <1>9, <1>10, <1>11
  DEF Next, Step, Acquire, Body, Release

\* In one process no two live requests share a run directory's last component.
THEOREM OneRunPerNameHolds == Spec => []OneRunPerName
<1>1. Init => TypeOK /\ KeysAreHeld
  BY DEF Init, TypeOK, KeysAreHeld, Status, AtRest, Busy, Acquiring, InBody,
         Releasing
<1>2. TypeOK /\ KeysAreHeld /\ [Next]_vars => (TypeOK /\ KeysAreHeld)'
  BY TypeStep, KeysStep
<1>3. TypeOK /\ KeysAreHeld => OneRunPerName
  BY HeldKeysExclude
<1>4. QED
  BY <1>1, <1>2, <1>3, PTL DEF Spec

-------------------------------------------------------------------------------
(***************************************************************************)
(* Refinement: every step of the guard is a step of SingleWriter or leaves *)
(* the set of writers as it is.                                            *)
(***************************************************************************)
LEMMA SameWriters ==
  ASSUME \A v \in Worker : /\ pc'[v] \in InBody <=> pc[v] \in InBody
                           /\ pc[v] \in InBody => root'[v] = root[v]
  PROVE  UNCHANGED Writing
  BY DEF Writing

\* Taking a request outside the body to another place outside it.
LEMMA MoveOutside ==
  ASSUME TypeOK, NEW w \in Worker, pc[w] \notin InBody, pc'[w] \notin InBody,
         \A v \in Worker : v # w => pc'[v] = pc[v] /\ root'[v] = root[v]
  PROVE  UNCHANGED Writing
<1>1. \A v \in Worker : /\ pc'[v] \in InBody <=> pc[v] \in InBody
                        /\ pc[v] \in InBody => root'[v] = root[v]
  OBVIOUS
<1>2. QED
  BY <1>1, SameWriters

\* A request that leaves the body leaves the set of writers.
LEMMA LeaveBody ==
  ASSUME TypeOK, NEW w \in Worker, pc[w] \in InBody, Goto(w, "release"),
         UNCHANGED root
  PROVE  Promise!Finish(w, root[w])
<1>1. <<w, root[w]>> \in Writing
  BY DEF Writing
<1>2. \A v \in Worker : pc'[v] \in InBody <=> pc[v] \in InBody /\ v # w
  BY DEF Goto, TypeOK, InBody
<1>3. Writing' = Writing \ {<<w, root[w]>>}
  BY <1>2 DEF Writing
<1>4. QED
  BY <1>1, <1>3 DEF Promise!Finish

\* A request that enters the body starts to write: by OneRunPerName nobody
\* in its process is writing the same root.
LEMMA EnterBody ==
  ASSUME TypeOK, KeysAreHeld, NEW w \in Worker, pc[w] = "token",
         Goto(w, "body"), UNCHANGED root
  PROVE  Promise!Start(w, root[w])
<1>1. pc[w] \in Busy /\ pc[w] \notin InBody /\ InBody \subseteq Busy
  BY DEF Busy, Acquiring, InBody
<1>2. ASSUME NEW pair \in Writing PROVE pair[1] # w
  BY <1>1 DEF Writing
<1>3. ASSUME NEW pair \in Writing, ProcOf[pair[1]] = ProcOf[w]
      PROVE  pair[2] # root[w]
  <2>1. PICK v \in Worker : pc[v] \in InBody /\ pair = <<v, root[v]>>
    BY DEF Writing
  <2>2. NameOf[root[v]] # NameOf[root[w]]
    BY <1>1, <1>3, <2>1, HeldKeysExclude DEF OneRunPerName
  <2>3. QED
    BY <2>1, <2>2
<1>4. \A v \in Worker : pc'[v] \in InBody <=> pc[v] \in InBody \/ v = w
  BY DEF Goto, TypeOK, InBody
<1>5. Writing' = Writing \cup {<<w, root[w]>>}
  BY <1>4 DEF Writing
<1>6. QED
  BY <1>2, <1>3, <1>5 DEF Promise!Start

LEMMA RefinementStep ==
  ASSUME TypeOK, KeysAreHeld, [Next]_vars
  PROVE  [Promise!Next]_Writing
<1>1. ASSUME NEW w \in Worker, NEW r \in RunRoot,
             Register(w, r) \/ Reject(w, r)
      PROVE  UNCHANGED Writing
  BY <1>1, MoveOutside
  DEF Register, Reject, Goto, TypeOK, AtRest, Busy, Acquiring, InBody,
      Releasing
<1>2. ASSUME NEW w \in Worker, Abandon(w), pc[w] \notin InBody
      PROVE  UNCHANGED Writing
  BY <1>2, MoveOutside DEF Abandon, Goto, TypeOK, InBody
<1>3. ASSUME NEW w \in Worker, CreateLockFile(w), pc[w] \notin InBody
      PROVE  UNCHANGED Writing
  BY <1>3, MoveOutside DEF CreateLockFile, Goto, TypeOK, InBody
<1>4. ASSUME NEW w \in Worker, Create(w) \/ Recreate(w)
      PROVE  UNCHANGED Writing
  BY <1>2, <1>3, <1>4, MoveOutside DEF Create, Recreate, Goto, TypeOK, InBody
<1>5. ASSUME NEW w \in Worker,
             Examine(w) \/ Mark(w) \/ Rewrite(w) \/ Unlink(w)
      PROVE  UNCHANGED Writing
  BY <1>2, <1>5, MoveOutside
  DEF Examine, Mark, Rewrite, Unlink, Goto, TypeOK, InBody
<1>6. ASSUME NEW w \in Worker, Release(w)
      PROVE  UNCHANGED Writing
  BY <1>6, MoveOutside
  DEF Release, ReadLockFile, RemoveLockFile, Unregister, Goto, TypeOK, InBody
<1>7. ASSUME NEW w \in Worker, WriteToken(w)
      PROVE  UNCHANGED Writing \/ Promise!Start(w, root[w])
  BY <1>2, <1>7, EnterBody DEF WriteToken, InBody
<1>8. ASSUME NEW w \in Worker, Refuse(w) \/ FinishRun(w)
      PROVE  Promise!Finish(w, root[w])
  BY <1>8, LeaveBody DEF Refuse, FinishRun, InBody
<1>9. ASSUME NEW w \in Worker, StartRun(w)
      PROVE  UNCHANGED Writing
  BY <1>9, SameWriters DEF StartRun, Goto, TypeOK, InBody
<1>10. ASSUME NEW r \in RunRoot, Age(r) \/ Reset(r)
       PROVE  UNCHANGED Writing
  BY <1>10 DEF Age, Reset, Writing
<1>11. ASSUME NEW p \in Proc, Crash(p)
       PROVE  UNCHANGED Writing \/ \E w \in Worker : Promise!Die(ProcOf[w])
  <2>1. \A v \in Worker :
           /\ pc'[v] \in InBody <=> pc[v] \in InBody /\ ProcOf[v] # p
           /\ pc'[v] \in InBody => root'[v] = root[v]
    BY <1>11 DEF Crash, InBody
  <2>2. Writing' = {pair \in Writing : ProcOf[pair[1]] # p}
    BY <2>1 DEF Writing
  <2>3. CASE \E w \in Worker : ProcOf[w] = p
    BY <2>2, <2>3 DEF Promise!Die
  <2>4. CASE \A w \in Worker : ProcOf[w] # p
    BY <2>1, <2>4, SameWriters
  <2>5. QED
    BY <2>3, <2>4
<1>12. CASE UNCHANGED vars
  BY <1>12 DEF vars, Writing
<1>13. \A w \in Worker : pc[w] \in InBody => root[w] \in RunRoot
  BY DEF TypeOK, AtRest, InBody
<1>14. \A w \in Worker : pc[w] = "token" => root[w] \in RunRoot
  BY DEF TypeOK, AtRest
<1>15. ASSUME NEW w \in Worker, Step(w)
       PROVE  UNCHANGED Writing \/ Promise!Next
  BY <1>4, <1>5, <1>6, <1>7, <1>8, <1>9, <1>13, <1>14, <1>15
  DEF Step, Acquire, Body, Promise!Next, WriteToken, Refuse, FinishRun, InBody
<1>16. QED
  BY <1>1, <1>10, <1>11, <1>12, <1>15 DEF Next, Promise!Next

\* The run guard implements SingleWriter: in one process, the bodies of two
\* runs on one root never overlap, whatever crashes, resets and clocks do.
THEOREM GuardImplementsSingleWriter == Spec => ImplementsSingleWriter
<1>1. Init => Promise!Init
  BY DEF Init, Promise!Init, Writing, InBody
<1>2. Init => TypeOK /\ KeysAreHeld
  BY DEF Init, TypeOK, KeysAreHeld, Status, AtRest, Busy, Acquiring, InBody,
         Releasing
<1>3. TypeOK /\ KeysAreHeld /\ [Next]_vars => (TypeOK /\ KeysAreHeld)'
  BY TypeStep, KeysStep
<1>4. TypeOK /\ KeysAreHeld /\ [Next]_vars => [Promise!Next]_Writing
  BY RefinementStep
<1>5. QED
  BY <1>1, <1>2, <1>3, <1>4, PTL DEF Spec, ImplementsSingleWriter, Promise!Spec

-------------------------------------------------------------------------------
(***************************************************************************)
(* Lock files and status files, with one server process on the data        *)
(* directory (the deployment of backend/Dockerfile).                       *)
(***************************************************************************)
LEMMA OthersWorkElsewhere ==
  ASSUME TypeOK, KeysAreHeld, OneProcess, NEW v \in Worker, NEW w \in Worker,
         v # w, pc[v] \in Busy, pc[w] \in Busy
  PROVE  root[v] # root[w]
  BY HeldKeysExclude DEF OneRunPerName, OneProcess

LEMMA StepperIsBusy ==
  ASSUME NEW w \in Worker, Step(w)
  PROVE  pc[w] \in Busy
  BY DEF Step, Acquire, Body, Release, Create, Examine, Mark, Rewrite, Unlink,
         Recreate, WriteToken, Refuse, StartRun, FinishRun, ReadLockFile,
         RemoveLockFile, Unregister, Busy, Acquiring, InBody, Releasing

\* A step of w is invisible to a request elsewhere: not its place, nor its
\* lock file, nor its status file.
LEMMA StepIsLocal ==
  ASSUME TypeOK, KeysAreHeld, FileIsHeld, OneProcess,
         NEW v \in Worker, NEW w \in Worker, v # w, pc[v] \in Busy, Step(w)
  PROVE  /\ pc'[v] = pc[v] /\ root'[v] = root[v]
         /\ lockfile'[root[v]] = lockfile[root[v]]
         /\ status'[root[v]] = status[root[v]]
<1>1. pc[w] \in Busy
  BY StepperIsBusy
<1>2. root[v] # root[w] /\ root[v] \in RunRoot /\ root[w] \in RunRoot
  BY <1>1, OthersWorkElsewhere
  DEF TypeOK, AtRest, Busy, Acquiring, InBody, Releasing
<1>3. lockfile[root[v]] # w
  BY <1>2 DEF FileIsHeld
<1>4. ASSUME Abandon(w)
      PROVE  /\ pc'[v] = pc[v] /\ root'[v] = root[v]
             /\ lockfile'[root[v]] = lockfile[root[v]]
             /\ status'[root[v]] = status[root[v]]
  BY <1>2, <1>3, <1>4 DEF Abandon, Orphaned, Goto, TypeOK
<1>5. ASSUME CreateLockFile(w)
      PROVE  /\ pc'[v] = pc[v] /\ root'[v] = root[v]
             /\ lockfile'[root[v]] = lockfile[root[v]]
             /\ status'[root[v]] = status[root[v]]
  BY <1>2, <1>5 DEF CreateLockFile, Goto, TypeOK
<1>6. CASE Create(w) \/ Examine(w) \/ Recreate(w) \/ WriteToken(w)
  BY <1>4, <1>5, <1>6
  DEF Create, Examine, Recreate, WriteToken, Goto, TypeOK
<1>7. CASE Mark(w) \/ Rewrite(w) \/ Unlink(w)
  BY <1>2, <1>7 DEF Mark, Rewrite, Unlink, Goto, TypeOK
<1>8. CASE Body(w)
  BY <1>2, <1>8 DEF Body, Refuse, StartRun, FinishRun, Goto, TypeOK
<1>9. CASE Release(w)
  BY <1>2, <1>9
  DEF Release, ReadLockFile, RemoveLockFile, Unregister, Goto, TypeOK
<1>10. QED
  BY <1>6, <1>7, <1>8, <1>9 DEF Step, Acquire

\* FileIsHeld holds with any number of processes: only a crash or a failure
\* separates a token from its RunLock, and then it becomes Orphan.
LEMMA FileStep ==
  ASSUME TypeOK, FileIsHeld, [Next]_vars
  PROVE  FileIsHeld'
<1> USE DEF HasFile, InBody
<1> SUFFICES ASSUME NEW r \in RunRoot, NEW v \in Worker, lockfile'[r] = v
             PROVE  pc'[v] \in HasFile /\ root'[v] = r
  BY DEF FileIsHeld
<1>1. ASSUME NEW w \in Worker, NEW q \in RunRoot, Register(w, q) \/ Reject(w, q)
      PROVE  pc'[v] \in HasFile /\ root'[v] = r
  BY <1>1 DEF Register, Reject, Goto, TypeOK, FileIsHeld, AtRest
<1>2. ASSUME NEW w \in Worker, Abandon(w)
      PROVE  pc'[v] \in HasFile /\ root'[v] = r
  BY <1>2 DEF Abandon, Orphaned, Goto, TypeOK, FileIsHeld
<1>3. ASSUME NEW w \in Worker, CreateLockFile(w), pc[w] \notin HasFile
      PROVE  pc'[v] \in HasFile /\ root'[v] = r
  BY <1>3 DEF CreateLockFile, Goto, TypeOK, FileIsHeld
<1>4. ASSUME NEW w \in Worker, Acquire(w)
      PROVE  pc'[v] \in HasFile /\ root'[v] = r
  <2>1. CASE Create(w) \/ Recreate(w)
    BY <1>2, <1>3, <2>1 DEF Create, Recreate, Goto, TypeOK, FileIsHeld
  <2>2. CASE Examine(w) \/ Mark(w) \/ Rewrite(w)
    BY <1>2, <2>2 DEF Examine, Mark, Rewrite, Goto, TypeOK, FileIsHeld
  <2>3. CASE Unlink(w)
    BY <2>3 DEF Unlink, Goto, TypeOK, FileIsHeld
  <2>4. CASE WriteToken(w)
    BY <1>2, <2>4 DEF WriteToken, Goto, TypeOK, FileIsHeld
  <2>5. QED
    BY <1>4, <2>1, <2>2, <2>3, <2>4 DEF Acquire
<1>5. ASSUME NEW w \in Worker, Body(w)
      PROVE  pc'[v] \in HasFile /\ root'[v] = r
  BY <1>5 DEF Body, Refuse, StartRun, FinishRun, Goto, TypeOK, FileIsHeld
<1>6. ASSUME NEW w \in Worker, Release(w)
      PROVE  pc'[v] \in HasFile /\ root'[v] = r
  <2>1. CASE ReadLockFile(w)
    <3>1. lockfile[r] = v /\ pc[v] \in HasFile /\ root[v] = r
      BY <2>1 DEF ReadLockFile, FileIsHeld
    <3>2. root'[v] = r /\ (v # w => pc'[v] = pc[v])
      BY <2>1, <3>1 DEF ReadLockFile, Goto, TypeOK
    <3>3. v = w => pc'[v] = "remove"
      BY <2>1, <3>1 DEF ReadLockFile, Goto, TypeOK
    <3>4. QED
      BY <3>1, <3>2, <3>3
  <2>2. CASE RemoveLockFile(w)
    <3>1. r # root[w] => lockfile[r] = v
      BY <2>2 DEF RemoveLockFile, TypeOK
    <3>2. r = root[w] => lockfile[r] = v /\ v # w
      BY <2>2 DEF RemoveLockFile, TypeOK, Orphaned
    <3>3. pc[v] \in HasFile /\ root[v] = r /\ v # w
      BY <3>1, <3>2 DEF FileIsHeld
    <3>4. QED
      BY <2>2, <3>3 DEF RemoveLockFile, Goto, TypeOK
  <2>3. CASE Unregister(w)
    BY <2>3 DEF Unregister, Goto, TypeOK, FileIsHeld
  <2>4. QED
    BY <1>6, <2>1, <2>2, <2>3 DEF Release
<1>7. ASSUME NEW q \in RunRoot, Age(q) \/ Reset(q)
      PROVE  pc'[v] \in HasFile /\ root'[v] = r
  BY <1>7 DEF Age, Reset, TypeOK, FileIsHeld
<1>8. ASSUME NEW p \in Proc, Crash(p)
      PROVE  pc'[v] \in HasFile /\ root'[v] = r
  BY <1>8 DEF Crash, TypeOK, FileIsHeld
<1>9. CASE UNCHANGED vars
  BY <1>9 DEF vars, FileIsHeld
<1>10. QED
  BY <1>1, <1>4, <1>5, <1>6, <1>7, <1>8, <1>9 DEF Next, Step

\* The invariant of the lock files of a single process.
LockInv ==
    TypeOK /\ KeysAreHeld /\ FileIsHeld /\ LockFileIsOwn
           /\ TakesOverOnlyDeadLocks

\* What a request knows of the file under its lock's name.
FileKnown(w) ==
    /\ pc[w] \in HasFile => lockfile[root[w]] \in {w, None}
    /\ pc[w] \in {"examine", "mark", "rewrite", "unlink"}
           => lockfile[root[w]] \in {Orphan, None}

LEMMA FileKnownIsLockInv ==
  ASSUME OneProcess
  PROVE  /\ LockFileIsOwn /\ TakesOverOnlyDeadLocks
              <=> \A w \in Worker : FileKnown(w)
  BY DEF LockFileIsOwn, TakesOverOnlyDeadLocks, FileKnown, HasFile

\* The stepping request itself.
LEMMA OwnStepKnows ==
  ASSUME TypeOK, KeysAreHeld, FileIsHeld, OneProcess,
         NEW w \in Worker, FileKnown(w), Step(w)
  PROVE  FileKnown(w)'
<1> USE DEF HasFile, InBody
<1>1. pc[w] \in Busy /\ root[w] \in RunRoot
  BY StepperIsBusy DEF TypeOK, AtRest, Busy, Acquiring, Releasing
<1>2. ASSUME Abandon(w) PROVE FileKnown(w)'
  BY <1>2 DEF Abandon, Goto, TypeOK, FileKnown
<1>3. ASSUME CreateLockFile(w) PROVE FileKnown(w)'
  BY <1>1, <1>3 DEF CreateLockFile, Goto, TypeOK, FileKnown
<1>4. CASE Create(w)
  <2>1. CASE lockfile[root[w]] # None /\ Goto(w, "examine")
               /\ UNCHANGED <<root, lockfile>>
    <3>1. lockfile[root[w]] \notin Worker
      <4> SUFFICES ASSUME lockfile[root[w]] \in Worker PROVE FALSE
        OBVIOUS
      <4> DEFINE v == lockfile[root[w]]
      <4>1. pc[v] \in HasFile /\ root[v] = root[w]
        BY <1>1 DEF FileIsHeld
      <4>2. v # w /\ pc[v] \in Busy
        BY <1>4, <4>1 DEF Create, Busy, Acquiring, Releasing
      <4>3. QED
        BY <1>1, <4>1, <4>2, OthersWorkElsewhere
    <3>2. lockfile[root[w]] = Orphan
      BY <1>1, <2>1, <3>1 DEF TypeOK
    <3>3. QED
      BY <1>1, <2>1, <3>2 DEF Goto, TypeOK, FileKnown
  <2>2. QED
    BY <1>2, <1>3, <1>4, <2>1 DEF Create
<1>5. CASE Examine(w) \/ Mark(w) \/ Rewrite(w)
  BY <1>1, <1>2, <1>5 DEF Examine, Mark, Rewrite, Goto, TypeOK, FileKnown
<1>6. CASE Unlink(w)
  BY <1>1, <1>6 DEF Unlink, Goto, TypeOK, FileKnown
<1>7. CASE Recreate(w)
  BY <1>2, <1>3, <1>7 DEF Recreate
<1>8. CASE WriteToken(w)
  BY <1>1, <1>2, <1>8 DEF WriteToken, Goto, TypeOK, FileKnown
<1>9. CASE Body(w)
  BY <1>1, <1>9 DEF Body, Refuse, StartRun, FinishRun, Goto, TypeOK, FileKnown
<1>10. CASE Release(w)
  <2>1. CASE ReadLockFile(w)
    BY <1>1, <2>1 DEF ReadLockFile, Goto, TypeOK, FileKnown
  <2>2. CASE RemoveLockFile(w) \/ Unregister(w)
    BY <1>1, <2>2
    DEF RemoveLockFile, Unregister, Goto, TypeOK, FileKnown
  <2>3. QED
    BY <1>10, <2>1, <2>2 DEF Release
<1>11. QED
  BY <1>4, <1>5, <1>6, <1>7, <1>8, <1>9, <1>10 DEF Step, Acquire

LEMMA LockStep == LockInv /\ [Next]_vars => LockInv'
<1> SUFFICES ASSUME LockInv, [Next]_vars PROVE LockInv'
  OBVIOUS
<1>1. TypeOK' /\ KeysAreHeld' /\ FileIsHeld'
  BY TypeStep, KeysStep, FileStep DEF LockInv
<1>2. CASE ~OneProcess
  BY <1>1, <1>2
  DEF LockInv, LockFileIsOwn, TakesOverOnlyDeadLocks, OneProcess
<1>3. CASE OneProcess
  <2>1. SUFFICES ASSUME NEW v \in Worker PROVE FileKnown(v)'
    BY <1>1, <1>3 DEF LockInv, LockFileIsOwn, TakesOverOnlyDeadLocks,
                      FileKnown, HasFile, OneProcess
  <2>2. FileKnown(v)
    BY <1>3, FileKnownIsLockInv DEF LockInv
  <2> USE DEF HasFile, InBody
  <2>3. ASSUME NEW w \in Worker, Step(w) PROVE FileKnown(v)'
    <3>1. CASE v = w
      BY <1>3, <2>2, <2>3, <3>1, OwnStepKnows DEF LockInv
    <3>2. CASE v # w /\ pc[v] \in Busy
      BY <1>3, <2>2, <2>3, <3>2, StepIsLocal DEF LockInv, FileKnown
    <3>3. CASE v # w /\ pc[v] \notin Busy
      <4>1. pc'[v] = pc[v]
        BY <2>3, <3>3
        DEF Step, Acquire, Body, Release, Create, Examine, Mark, Rewrite,
            Unlink, Recreate, WriteToken, Refuse, StartRun, FinishRun,
            ReadLockFile, RemoveLockFile, Unregister, CreateLockFile, Abandon,
            Goto, LockInv, TypeOK
      <4>2. QED
        BY <3>3, <4>1 DEF FileKnown, Busy, Acquiring, Releasing
    <3>4. QED
      BY <3>1, <3>2, <3>3
  <2>4. ASSUME NEW w \in Worker, NEW r \in RunRoot,
               Register(w, r) \/ Reject(w, r)
        PROVE  FileKnown(v)'
    BY <2>2, <2>4 DEF Register, Reject, Goto, LockInv, TypeOK, FileKnown
  <2>5. ASSUME NEW r \in RunRoot, Age(r) \/ Reset(r) PROVE FileKnown(v)'
    <3>1. pc[v] \in Busy => root[v] \in RunRoot
      BY DEF LockInv, TypeOK, AtRest, Busy, Acquiring, Releasing
    <3>2. QED
      BY <2>2, <2>5, <3>1
      DEF Age, Reset, LockInv, TypeOK, FileKnown, Busy, Acquiring, Releasing
  <2>6. ASSUME NEW p \in Proc, Crash(p) PROVE FileKnown(v)'
    <3>1. CASE ProcOf[v] = p
      BY <2>6, <3>1 DEF Crash, FileKnown
    <3>2. CASE ProcOf[v] # p
      <4>1. \A w \in Worker : ProcOf[w] # p
        BY <1>3, <3>2 DEF OneProcess
      <4>2. pc[v] \in Busy => root[v] \in RunRoot
        BY DEF LockInv, TypeOK, AtRest, Busy, Acquiring, Releasing
      <4>3. QED
        BY <2>2, <2>6, <4>1, <4>2
        DEF Crash, LockInv, TypeOK, FileKnown, Busy, Acquiring, Releasing
    <3>3. QED
      BY <3>1, <3>2
  <2>7. CASE UNCHANGED vars
    BY <2>2, <2>7 DEF vars, FileKnown
  <2>8. QED
    BY <2>3, <2>4, <2>5, <2>6, <2>7 DEF Next
<1>4. QED
  BY <1>2, <1>3

LEMMA LockInit == Init => LockInv
  BY DEF Init, LockInv, TypeOK, KeysAreHeld, FileIsHeld, LockFileIsOwn,
         TakesOverOnlyDeadLocks, Status, AtRest, Busy, Acquiring, InBody,
         Releasing

\* With one process, release() deletes only the lock of its own run, however
\* long a run and whatever another thread read before.
THEOREM LockFileIsOwnHolds == Spec => []LockFileIsOwn
<1>1. LockInv => LockFileIsOwn
  BY DEF LockInv
<1>2. QED
  BY <1>1, LockInit, LockStep, PTL DEF Spec

\* With one process, acquire() judges stale, marks and unlinks only locks that
\* no living run owns, even when a run outlasts the budget after which a lock
\* counts as stale.
THEOREM TakeoversAreOfTheDead == Spec => []TakesOverOnlyDeadLocks
<1>1. LockInv => TakesOverOnlyDeadLocks
  BY DEF LockInv
<1>2. QED
  BY <1>1, LockInit, LockStep, PTL DEF Spec

\* With one process, no other run writes the status of a running body.
THEOREM NoClobberHolds == Spec => NoClobber
<1> DEFINE Kept == OneProcess =>
             \A w \in Worker :
                pc[w] = "running" /\ status'[root[w]] # status[root[w]]
                  => \/ pc'[w] = "release" /\ status'[root[w]] # "INTERRUPTED"
                     \/ status'[root[w]] = "none"
<1>1. ASSUME LockInv, [Next]_vars PROVE [Kept]_vars
  <2> SUFFICES ASSUME OneProcess, NEW v \in Worker, pc[v] = "running",
                      status'[root[v]] # status[root[v]]
               PROVE  \/ pc'[v] = "release" /\ status'[root[v]] # "INTERRUPTED"
                      \/ status'[root[v]] = "none"
    OBVIOUS
  <2>1. pc[v] \in Busy /\ root[v] \in RunRoot
    BY <1>1 DEF LockInv, TypeOK, AtRest, Busy, InBody
  <2>2. ASSUME NEW w \in Worker, Step(w), v # w PROVE FALSE
    BY <1>1, <2>1, <2>2, StepIsLocal DEF LockInv
  <2>3. ASSUME Step(v)
        PROVE  pc'[v] = "release" /\ status'[root[v]] # "INTERRUPTED"
    <3>1. FinishRun(v)
      BY <2>3 DEF Step, Acquire, Body, Release, Create, Examine, Mark,
                  Rewrite, Unlink, Recreate, WriteToken, Refuse, StartRun,
                  FinishRun, ReadLockFile, RemoveLockFile, Unregister
    <3>2. QED
      BY <1>1, <2>1, <3>1 DEF FinishRun, Goto, LockInv, TypeOK
  <2>4. ASSUME NEW w \in Worker, NEW r \in RunRoot,
               Register(w, r) \/ Reject(w, r)
        PROVE  FALSE
    BY <2>4 DEF Register, Reject
  <2>5. ASSUME NEW r \in RunRoot, Age(r) \/ Reset(r)
        PROVE  status'[root[v]] = "none"
    BY <1>1, <2>1, <2>5 DEF Age, Reset, LockInv, TypeOK
  <2>6. ASSUME NEW p \in Proc, Crash(p) PROVE FALSE
    BY <2>6 DEF Crash
  <2>7. CASE UNCHANGED vars
    BY <2>7 DEF vars
  <2>8. QED
    BY <1>1, <2>2, <2>3, <2>4, <2>5, <2>6, <2>7 DEF Next
<1>2. QED
  BY <1>1, LockInit, LockStep, PTL DEF Spec, NoClobber
===============================================================================
