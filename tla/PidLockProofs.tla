--------------------------- MODULE PidLockProofs ---------------------------
(***************************************************************************)
(* Proofs about PidLock for every set of callers and processes, every      *)
(* mixture of Gateways and panel, and every bound.                         *)
(***************************************************************************)
EXTENDS PidLock, TLAPS

\* The directories the code writes are values of Owner.
LEMMA OwnerTypes ==
  /\ Missing \in Owner
  /\ \A c \in Client : Bare(c) \in Owner
  /\ \A c \in Client, n \in Nat : [by |-> c, gen |-> n] \in Owner
  BY DEF Owner, Missing, Bare

\* What the end of a release or reclamation leaves well typed.
LEMMA FinishTypes ==
  ASSUME TypeOK, NEW c \in Client, NEW l \in Pc, Finish(c, l)
  PROVE  /\ pc' \in [Client -> Pc] /\ mark' \in [Client -> Nat]
         /\ target' \in [Client -> Owner] /\ lease' \in [Client -> Nat]
         /\ retiredByMe' \in [Client -> BOOLEAN]
         /\ after' \in [Client -> {"idle", "gate", "wait", "releaseFailed"}]
<1> USE OwnerTypes DEF TypeOK, Finish, Goto
<1>1. pc' \in [Client -> Pc] /\ mark' \in [Client -> Nat]
  OBVIOUS
<1>2. target' \in [Client -> Owner] /\ lease' \in [Client -> Nat]
  OBVIOUS
<1>3. retiredByMe' \in [Client -> BOOLEAN]
  OBVIOUS
<1>4. after' \in [Client -> {"idle", "gate", "wait", "releaseFailed"}]
  OBVIOUS
<1>5. QED
  BY <1>1, <1>2, <1>3, <1>4

\* Every step keeps every variable in its type.
LEMMA TypeStep == TypeOK /\ [Next]_vars => TypeOK'
<1> SUFFICES ASSUME TypeOK, [Next]_vars PROVE TypeOK'
  OBVIOUS
<1> USE OwnerTypes DEF TypeOK, Pc, AcquirePc,
        PublishPc, RetirePc, ReleasePc, disk, own, Goto, Fault, NoFault, Failed, Releasing
<1>1. ASSUME NEW c \in Client, Acquire(c) PROVE TypeOK'
  BY <1>1 DEF Acquire
<1>2. ASSUME NEW c \in Client, Gate(c) PROVE TypeOK'
  BY <1>2 DEF Gate
<1>3. ASSUME NEW c \in Client, Mkdir(c) PROVE TypeOK'
  BY <1>3 DEF Mkdir
<1>4. ASSUME NEW c \in Client, RmLockDir(c) PROVE TypeOK'
  BY <1>4 DEF RmLockDir
<1>5. ASSUME NEW c \in Client, WriteOwner(c) PROVE TypeOK'
  <2>1. CASE NoFault /\ gen' = [gen EXCEPT ![c] = @ + 1]
    <3>1. gen' \in [Client -> Nat] /\ gen'[c] \in Nat
      BY <2>1
    <3>2. lease' \in [Client -> Nat] /\ base' \in Owner
      BY <1>5, <3>1 DEF WriteOwner
    <3>3. QED
      BY <1>5, <2>1, <3>1, <3>2 DEF WriteOwner
  <2>2. CASE Fault /\ base' \in {Missing, base}
    BY <1>5, <2>2 DEF WriteOwner
  <2>3. QED
    BY <1>5, <2>1, <2>2 DEF WriteOwner
<1>6. ASSUME NEW c \in Client, Lstat(c) PROVE TypeOK'
  BY <1>6 DEF Lstat
<1>7. ASSUME NEW c \in Client, ReadOwner(c) PROVE TypeOK'
  BY <1>7 DEF ReadOwner
<1>8. ASSUME NEW c \in Client, Wait(c) PROVE TypeOK'
  BY <1>8 DEF Wait
<1>9. ASSUME NEW c \in Client, GiveUp(c) PROVE TypeOK'
  BY <1>9 DEF GiveUp
<1>10. ASSUME NEW c \in Client, PanelGate(c) PROVE TypeOK'
  BY <1>10 DEF PanelGate
<1>11. ASSUME NEW c \in Client, Publish(c) PROVE TypeOK'
  BY <1>11 DEF Publish
<1>12. ASSUME NEW c \in Client, GateAfterPublish(c) PROVE TypeOK'
  BY <1>12 DEF GateAfterPublish
<1>13. ASSUME NEW c \in Client, Abandon(c) PROVE TypeOK'
  <2>1. base' \in Owner /\ retired' \subseteq Owner
    BY <1>13 DEF Abandon
  <2>2. pc' \in [Client -> Pc] /\ lease' \in [Client -> Nat]
    BY <1>13 DEF Abandon, DropLease
  <2>3. retiredByMe' \in [Client -> BOOLEAN]
    BY <1>13 DEF Abandon, DropLease
  <2>4. faults' \in Nat
    BY <1>13 DEF Abandon
  <2>5. QED
    BY <1>13, <2>1, <2>2, <2>3, <2>4 DEF Abandon
<1>14. ASSUME NEW c \in Client, MkdirMarker(c) PROVE TypeOK'
  BY <1>14 DEF MkdirMarker
<1>15. ASSUME NEW c \in Client, PublishMarker(c) PROVE TypeOK'
  BY <1>15 DEF PublishMarker
<1>16. ASSUME NEW c \in Client, WriteMarker(c) PROVE TypeOK'
  BY <1>16 DEF WriteMarker
<1>17. ASSUME NEW c \in Client, Recheck(c) PROVE TypeOK'
  BY <1>17 DEF Recheck
<1>18. ASSUME NEW c \in Client, Verify(c) PROVE TypeOK'
  BY <1>18 DEF Verify
<1>19. ASSUME NEW c \in Client, Rename(c) PROVE TypeOK'
  <2>1. base' \in Owner /\ retired' \subseteq Owner /\ faults' \in Nat
    BY <1>19 DEF Rename
  <2>2. pc' \in [Client -> Pc] /\ retiredByMe' \in [Client -> BOOLEAN]
    BY <1>19 DEF Rename
  <2>3. after' \in [Client -> {"idle", "gate", "wait", "releaseFailed"}]
    BY <1>19 DEF Rename
  <2>4. QED
    BY <1>19, <2>1, <2>2, <2>3 DEF Rename
<1>20. ASSUME NEW c \in Client, RmRetired(c) PROVE TypeOK'
  BY <1>20 DEF RmRetired
<1>21. ASSUME NEW c \in Client, CheckMarker(c) PROVE TypeOK'
  <2>1. CASE Finish(c, "idle")
    BY <1>21, <2>1, FinishTypes DEF CheckMarker
  <2>2. CASE KeepLease /\ (Goto(c, "rmMarker") \/ Goto(c, "releaseFailed"))
    <3>1. pc' \in [Client -> Pc]
      BY <2>2
    <3>2. QED
      BY <1>21, <2>2, <3>1 DEF CheckMarker, KeepLease
  <2>3. QED
    BY <1>21, <2>1, <2>2 DEF CheckMarker
<1>22. ASSUME NEW c \in Client, RmMarker(c) PROVE TypeOK'
  <2>1. marker' \in Owner /\ faults' \in Nat
    BY <1>22 DEF RmMarker
  <2>2. CASE Finish(c, after[c]) \/ Finish(c, "idle")
    BY <1>22, <2>1, <2>2, FinishTypes DEF RmMarker
  <2>3. CASE KeepLease /\ (Goto(c, "rmdirMarker") \/ Goto(c, "releaseFailed"))
    <3>1. pc' \in [Client -> Pc]
      BY <2>3
    <3>2. QED
      BY <1>22, <2>1, <2>3, <3>1 DEF RmMarker, KeepLease
  <2>4. QED
    BY <1>22, <2>2, <2>3 DEF RmMarker
<1>23. ASSUME NEW c \in Client, Release(c) PROVE TypeOK'
  BY <1>23 DEF Release, MyToken
<1>24. ASSUME NEW c \in Client, ReleaseGate(c) PROVE TypeOK'
  BY <1>24 DEF ReleaseGate
<1>25. ASSUME NEW c \in Client, RetryRetired(c) PROVE TypeOK'
  <2>1. retired' \subseteq Owner /\ faults' \in Nat
    BY <1>25 DEF RetryRetired
  <2>2. CASE Finish(c, "idle")
    BY <1>25, <2>1, <2>2, FinishTypes DEF RetryRetired
  <2>3. CASE KeepLease /\ Goto(c, "releaseFailed")
    BY <1>25, <2>1, <2>3 DEF RetryRetired, KeepLease
  <2>4. CASE /\ Goto(c, "checkMarker") /\ after' = [after EXCEPT ![c] = "idle"]
             /\ UNCHANGED <<mark, target, lease, retiredByMe>>
    BY <1>25, <2>1, <2>4 DEF RetryRetired
  <2>5. QED
    BY <1>25, <2>2, <2>3, <2>4 DEF RetryRetired
<1>26. ASSUME NEW c \in Client, RetryPending(c) PROVE TypeOK'
  BY <1>26 DEF RetryPending
<1>27. ASSUME NEW p \in Proc, Crash(p) PROVE TypeOK'
  BY <1>27 DEF Crash
<1>28. ASSUME NEW p \in Proc, Restart(p) PROVE TypeOK'
  BY <1>28 DEF Restart
<1>29. CASE Cleanup
  BY <1>29 DEF Cleanup
<1>30. CASE UNCHANGED vars
  BY <1>30 DEF vars
<1>31. QED
  BY <1>1, <1>2, <1>3, <1>4, <1>5, <1>6, <1>7, <1>8, <1>9, <1>10, <1>11, <1>12, <1>13,
     <1>14, <1>15, <1>16, <1>17, <1>18, <1>19, <1>20, <1>21, <1>22, <1>23, <1>24, <1>25,
     <1>26, <1>27, <1>28, <1>29, <1>30 DEF Next, Step

\* Steps that leave the lock directory alone, and the steps on the verified
\* directory itself.
LEMMA PlainStep ==
  ASSUME IInv, TypeOK', NEW c \in Client,
         \/ Acquire(c) \/ Gate(c) \/ Mkdir(c) \/ Lstat(c) \/ Wait(c) \/ GiveUp(c)
         \/ PanelGate(c) \/ GateAfterPublish(c) \/ MkdirMarker(c) \/ Verify(c)
         \/ Rename(c) \/ RmRetired(c) \/ Release(c) \/ ReleaseGate(c) \/ RetryPending(c)
  PROVE  IInv'
<1> USE NobodyAssumption DEF IInv, DownInv, LeaseInv, RetireInv, ReleaseInv, AfterInv,
   TokenInv, MakerInv,
        MarkerInv, ReclaimInv, StaleKnown, RetiredInv, HolderKeepsDirectory, Holding, MyToken, MyMarker,
        Releasing, SameOwner, PidAlive, TypeOK, Owner, Missing, Bare, AcquirePc, PublishPc,
        RetirePc, ReleasePc, Goto, Failed, Fault, NoFault, disk, own
<1>1. CASE Acquire(c)
  BY <1>1 DEF Acquire
<1>2. CASE Gate(c)
  BY <1>2 DEF Gate
<1>3. CASE Mkdir(c)
  BY <1>3 DEF Mkdir
<1>4. CASE Lstat(c)
  BY <1>4 DEF Lstat
<1>5. CASE Wait(c)
  BY <1>5 DEF Wait
<1>6. CASE GiveUp(c)
  BY <1>6 DEF GiveUp
<1>7. CASE PanelGate(c)
  BY <1>7 DEF PanelGate, MarkerActive, MarkerInvalid
<1>8. CASE GateAfterPublish(c)
  BY <1>8 DEF GateAfterPublish
<1>9. CASE MkdirMarker(c)
  BY <1>9 DEF MkdirMarker
<1>10. CASE Verify(c)
  BY <1>10 DEF Verify
<1>11. CASE Rename(c)
  BY <1>11 DEF Rename
<1>12. CASE RmRetired(c)
  BY <1>12 DEF RmRetired
<1>13. CASE Release(c)
  BY <1>13 DEF Release
<1>14. CASE ReleaseGate(c)
  BY <1>14 DEF ReleaseGate, MarkerActive, MarkerInvalid
<1>15. CASE RetryPending(c)
  BY <1>15 DEF RetryPending, MarkerState
<1>16. QED
  BY <1>1, <1>2, <1>3, <1>4, <1>5, <1>6, <1>7, <1>8, <1>9, <1>10, <1>11, <1>12, <1>13, <1>14, <1>15

\* The Gateway's removal of a directory whose owner file it could not write.
LEMMA RmLockDirStep ==
  ASSUME IInv, TypeOK', NEW c \in Client, RmLockDir(c)
  PROVE  IInv'
<1> USE NobodyAssumption DEF IInv, TypeOK, Goto, NoFault, Fault, disk, own, RmLockDir
<1>1. DownInv'
  BY DEF DownInv, Failed, Releasing
<1>2. LeaseInv'
  BY DEF LeaseInv, AfterInv, Releasing, Failed, AcquirePc, PublishPc, ReleasePc
<1>3. RetireInv'
  BY DEF RetireInv, LeaseInv, AfterInv, Releasing, Failed, AcquirePc, PublishPc, ReleasePc
<1>4. ReleaseInv'
  BY DEF ReleaseInv, RetireInv, LeaseInv, MyToken, Releasing, Failed, AcquirePc, PublishPc,
     ReleasePc, RetirePc
<1>5. AfterInv'
  BY DEF AfterInv, Releasing, Failed, LeaseInv, AcquirePc, PublishPc, ReleasePc
<1>6. TokenInv'
  BY DEF TokenInv, Owner, Missing, Bare
<1>7. MakerInv'
  BY DEF MakerInv, Bare, Missing, HolderKeepsDirectory, Holding, MyToken, LeaseInv,
     RetireInv, PublishPc, Failed, AfterInv
<1>8. MarkerInv'
  BY DEF MarkerInv, MyMarker, Bare, Missing, Failed
<1>9. ReclaimInv'
  BY DEF ReclaimInv, StaleKnown, Releasing, TokenInv, LeaseInv, MakerInv, Bare, Missing,
     HolderKeepsDirectory, Holding, MyToken, SameOwner, PidAlive, DownInv, RetireInv, AfterInv,
     AcquirePc, PublishPc, ReleasePc, Failed
<1>10. RetiredInv'
  BY DEF RetiredInv, Owner, Missing, HolderKeepsDirectory, Holding, MyToken, LeaseInv,
     RetireInv, PublishPc
<1>11. HolderKeepsDirectory'
  BY DEF HolderKeepsDirectory, Holding, MyToken, MakerInv, Bare, Missing, LeaseInv,
     RetireInv, ReleaseInv, AfterInv, AcquirePc, PublishPc, Releasing
<1>12. QED
  BY <1>1, <1>2, <1>3, <1>4, <1>5, <1>6, <1>7, <1>8, <1>9, <1>10, <1>11

\* The Gateway's owner file turns its bare directory into a lease.
LEMMA WriteOwnerStep ==
  ASSUME IInv, TypeOK', NEW c \in Client, WriteOwner(c)
  PROVE  IInv'
<1> USE NobodyAssumption DEF IInv, TypeOK, Goto, NoFault, Fault, disk, own, WriteOwner
<1>1. DownInv'
  BY DEF DownInv, Failed, Releasing
<1>2. LeaseInv'
  BY DEF LeaseInv, AfterInv, Releasing, Failed, AcquirePc, PublishPc, ReleasePc
<1>3. RetireInv'
  BY DEF RetireInv, LeaseInv, AfterInv, Releasing, Failed, AcquirePc, PublishPc, ReleasePc
<1>4. ReleaseInv'
  BY DEF ReleaseInv, Releasing, RetirePc, ReleasePc, MyToken, Missing
<1>5. AfterInv'
  BY DEF AfterInv, Releasing, Failed, LeaseInv, AcquirePc, PublishPc, ReleasePc
<1>6. TokenInv'
  BY DEF TokenInv, Owner, Missing, Bare
<1>7. MakerInv'
  BY DEF MakerInv, Bare, Missing, HolderKeepsDirectory, Holding, MyToken, LeaseInv,
     RetireInv, PublishPc, Failed, AfterInv
<1>8. MarkerInv'
  BY DEF MarkerInv, MyMarker, Bare, Missing, Failed
<1>9. ReclaimInv'
  <2>1. \A d \in Client : gen[d] <= gen'[d]
    OBVIOUS
  <2>2. \A d \in Client : lease'[d] = lease[d] \/ lease'[d] > gen[d]
    OBVIOUS
  <2>3. \A d \in Client : pc[d] = "rename" /\ ~Releasing(d) => base.gen # 0
    BY DEF ReclaimInv, StaleKnown, Releasing
  <2>4. QED
    BY <2>1, <2>2, <2>3 DEF ReclaimInv, StaleKnown, Releasing, Owner, MakerInv, Bare, Missing
<1>10. RetiredInv'
  BY DEF RetiredInv, Owner, Missing, HolderKeepsDirectory, Holding, MyToken, LeaseInv,
     RetireInv, PublishPc
<1>11. HolderKeepsDirectory'
  BY DEF HolderKeepsDirectory, Holding, MyToken, MakerInv, Bare, Missing, LeaseInv,
     RetireInv, ReleaseInv, AfterInv, AcquirePc, PublishPc, Releasing
<1>12. QED
  BY <1>1, <1>2, <1>3, <1>4, <1>5, <1>6, <1>7, <1>8, <1>9, <1>10, <1>11

\* Reading the owner of a directory that may have changed hands since lstat.
LEMMA ReadOwnerStep ==
  ASSUME IInv, TypeOK', NEW c \in Client, ReadOwner(c)
  PROVE  IInv'
<1> USE NobodyAssumption DEF IInv, TypeOK, Goto, NoFault, Fault, disk, own, ReadOwner
<1>1. DownInv'
  BY DEF DownInv, Failed, Releasing
<1>2. LeaseInv'
  BY DEF LeaseInv, AfterInv, Releasing, Failed, AcquirePc, PublishPc, ReleasePc
<1>3. RetireInv'
  BY DEF RetireInv, LeaseInv, AfterInv, Releasing, Failed, AcquirePc, PublishPc, ReleasePc
<1>4. ReleaseInv'
  BY DEF ReleaseInv, Releasing, LeaseInv, AcquirePc, MyToken
<1>5. AfterInv'
  BY DEF AfterInv, Releasing, Failed, LeaseInv, AcquirePc, PublishPc, ReleasePc
<1>6. TokenInv'
  BY DEF TokenInv, Owner, Missing, Bare
<1>7. MakerInv'
  BY DEF MakerInv, Bare, Missing, HolderKeepsDirectory, Holding, MyToken, LeaseInv,
     RetireInv, PublishPc, Failed, AfterInv
<1>8. MarkerInv'
  BY DEF MarkerInv, MyMarker, Bare, Missing, Failed
<1>9. ReclaimInv'
  BY DEF ReclaimInv, StaleKnown, Releasing, TokenInv, LeaseInv, DownInv, PidAlive,
     AcquirePc, Owner, Missing
<1>10. RetiredInv'
  BY DEF RetiredInv, Owner, Missing, HolderKeepsDirectory, Holding, MyToken, LeaseInv,
     RetireInv, PublishPc
<1>11. HolderKeepsDirectory'
  BY DEF HolderKeepsDirectory, Holding, MyToken, MakerInv, Bare, Missing, LeaseInv,
     RetireInv, ReleaseInv, AfterInv, AcquirePc, PublishPc, Releasing
<1>12. QED
  BY <1>1, <1>2, <1>3, <1>4, <1>5, <1>6, <1>7, <1>8, <1>9, <1>10, <1>11

\* The panel's move of a complete directory into the canonical place.
LEMMA PublishStep ==
  ASSUME IInv, TypeOK', NEW c \in Client, Publish(c)
  PROVE  IInv'
<1> USE NobodyAssumption DEF IInv, TypeOK, Goto, NoFault, Fault, disk, own, Publish
<1>1. DownInv'
  BY DEF DownInv, Failed, Releasing
<1>2. LeaseInv'
  BY DEF LeaseInv, AfterInv, Releasing, Failed, AcquirePc, PublishPc, ReleasePc
<1>3. RetireInv'
  BY DEF RetireInv, LeaseInv, AfterInv, Releasing, Failed, AcquirePc, PublishPc, ReleasePc
<1>4. ReleaseInv'
  BY DEF ReleaseInv, Releasing, RetirePc, ReleasePc, MyToken, Missing
<1>5. AfterInv'
  BY DEF AfterInv, Releasing, Failed, LeaseInv, AcquirePc, PublishPc, ReleasePc
<1>6. TokenInv'
  BY DEF TokenInv, Owner, Missing, Bare
<1>7. MakerInv'
  BY DEF MakerInv, Bare, Missing, HolderKeepsDirectory, Holding, MyToken, LeaseInv,
     RetireInv, PublishPc, Failed, AfterInv
<1>8. MarkerInv'
  BY DEF MarkerInv, MyMarker, Bare, Missing, Failed
<1>9. ReclaimInv'
  <2>1. \A d \in Client : gen[d] <= gen'[d]
    OBVIOUS
  <2>2. \A d \in Client : lease'[d] = lease[d] \/ lease'[d] > gen[d]
    OBVIOUS
  <2>3. \A d \in Client : pc[d] = "rename" /\ ~Releasing(d) => base.gen # 0
    BY DEF ReclaimInv, StaleKnown, Releasing
  <2>4. QED
    BY <2>1, <2>2, <2>3 DEF ReclaimInv, StaleKnown, Releasing, Owner, MakerInv, Bare, Missing
<1>10. RetiredInv'
  BY DEF RetiredInv, Owner, Missing, HolderKeepsDirectory, Holding, MyToken, LeaseInv,
     RetireInv, PublishPc
<1>11. HolderKeepsDirectory'
  BY DEF HolderKeepsDirectory, Holding, MyToken, MakerInv, Bare, Missing, LeaseInv,
     RetireInv, ReleaseInv, AfterInv, AcquirePc, PublishPc, Releasing
<1>12. QED
  BY <1>1, <1>2, <1>3, <1>4, <1>5, <1>6, <1>7, <1>8, <1>9, <1>10, <1>11

\* The panel retires a published directory that it may not keep.
LEMMA AbandonStep ==
  ASSUME IInv, TypeOK', NEW c \in Client, Abandon(c)
  PROVE  IInv'
<1> USE NobodyAssumption DEF IInv, TypeOK, Goto, NoFault, Fault, disk, own, Abandon, DropLease
<1>1. DownInv'
  BY DEF DownInv, Failed, Releasing
<1>2. LeaseInv'
  BY DEF LeaseInv, AfterInv, Releasing, Failed, AcquirePc, PublishPc, ReleasePc
<1>3. RetireInv'
  BY DEF RetireInv, LeaseInv, AfterInv, Releasing, Failed, AcquirePc, PublishPc, ReleasePc
<1>4. ReleaseInv'
  BY DEF ReleaseInv, RetireInv, LeaseInv, MyToken, Releasing, Failed, AcquirePc, PublishPc,
     ReleasePc, RetirePc
<1>5. AfterInv'
  BY DEF AfterInv, Releasing, Failed, LeaseInv, AcquirePc, PublishPc, ReleasePc
<1>6. TokenInv'
  BY DEF TokenInv, Owner, Missing, Bare
<1>7. MakerInv'
  BY DEF MakerInv, Bare, Missing, HolderKeepsDirectory, Holding, MyToken, LeaseInv,
     RetireInv, PublishPc, Failed, AfterInv
<1>8. MarkerInv'
  BY DEF MarkerInv, MyMarker, Bare, Missing, Failed
<1>9. ReclaimInv'
  BY DEF ReclaimInv, StaleKnown, Releasing, TokenInv, LeaseInv, MakerInv, Bare, Missing,
     HolderKeepsDirectory, Holding, MyToken, SameOwner, PidAlive, DownInv, RetireInv, AfterInv,
     AcquirePc, PublishPc, ReleasePc, Failed
<1>10. RetiredInv'
  BY DEF RetiredInv, Owner, Missing, HolderKeepsDirectory, Holding, MyToken, LeaseInv,
     RetireInv, PublishPc
<1>11. HolderKeepsDirectory'
  BY DEF HolderKeepsDirectory, Holding, MyToken, MakerInv, Bare, Missing, LeaseInv,
     RetireInv, ReleaseInv, AfterInv, AcquirePc, PublishPc, Releasing
<1>12. QED
  BY <1>1, <1>2, <1>3, <1>4, <1>5, <1>6, <1>7, <1>8, <1>9, <1>10, <1>11

\* The panel's move of a complete transition marker into place.
LEMMA PublishMarkerStep ==
  ASSUME IInv, TypeOK', NEW c \in Client, PublishMarker(c)
  PROVE  IInv'
<1> USE NobodyAssumption DEF IInv, TypeOK, Goto, NoFault, Fault, disk, own, PublishMarker
<1>1. DownInv'
  BY DEF DownInv, Failed, Releasing
<1>2. LeaseInv'
  BY DEF LeaseInv, AfterInv, Releasing, Failed, AcquirePc, PublishPc, ReleasePc
<1>3. RetireInv'
  BY DEF RetireInv, LeaseInv, AfterInv, Releasing, Failed, AcquirePc, PublishPc, ReleasePc
<1>4. ReleaseInv'
  BY DEF ReleaseInv, RetireInv, LeaseInv, MyToken, Releasing, Failed, AcquirePc, PublishPc,
     ReleasePc, RetirePc
<1>5. AfterInv'
  BY DEF AfterInv, Releasing, Failed, LeaseInv, AcquirePc, PublishPc, ReleasePc
<1>6. TokenInv'
  BY DEF TokenInv, Owner, Missing, Bare
<1>7. MakerInv'
  BY DEF MakerInv, Bare, Missing, HolderKeepsDirectory, Holding, MyToken, LeaseInv,
     RetireInv, PublishPc, Failed, AfterInv
<1>8. MarkerInv'
  BY DEF MarkerInv, MyMarker, Bare, Missing, Failed
<1>9. ReclaimInv'
  <2>1. \A d \in Client : gen[d] <= gen'[d] /\ gen'[d] \in Nat
    OBVIOUS
  <2>2. lease' = lease /\ target' = target /\ base' = base
    OBVIOUS
  <2>3. \A d \in Client : ~Releasing(d) =>
          /\ pc'[d] = "rename" => pc[d] = "rename"
          /\ pc'[d] \in StaleKnown => pc[d] \in StaleKnown
    BY DEF Releasing, Failed, StaleKnown
  <2>4. \A d \in Client : Releasing(d)' <=> Releasing(d)
    BY <2>2 DEF Releasing
  <2>5. \A d \in Client : target[d].gen \in Nat
    BY DEF Owner
  <2>6. QED
    BY <2>1, <2>2, <2>3, <2>4, <2>5 DEF ReclaimInv
<1>10. RetiredInv'
  BY DEF RetiredInv, Owner, Missing, HolderKeepsDirectory, Holding, MyToken, LeaseInv,
     RetireInv, PublishPc
<1>11. HolderKeepsDirectory'
  BY DEF HolderKeepsDirectory, Holding, MyToken, MakerInv, Bare, Missing, LeaseInv,
     RetireInv, ReleaseInv, AfterInv, AcquirePc, PublishPc, Releasing
<1>12. QED
  BY <1>1, <1>2, <1>3, <1>4, <1>5, <1>6, <1>7, <1>8, <1>9, <1>10, <1>11

\* The Gateway's marker file turns its bare marker directory into its own.
LEMMA WriteMarkerStep ==
  ASSUME IInv, TypeOK', NEW c \in Client, WriteMarker(c)
  PROVE  IInv'
<1> USE NobodyAssumption DEF IInv, TypeOK, Goto, NoFault, Fault, disk, own, WriteMarker
<1>1. DownInv'
  BY DEF DownInv, Failed, Releasing
<1>2. LeaseInv'
  BY DEF LeaseInv, AfterInv, Releasing, Failed, AcquirePc, PublishPc, ReleasePc
<1>3. RetireInv'
  BY DEF RetireInv, LeaseInv, AfterInv, Releasing, Failed, AcquirePc, PublishPc, ReleasePc
<1>4. ReleaseInv'
  BY DEF ReleaseInv, RetireInv, LeaseInv, MyToken, Releasing, Failed, AcquirePc, PublishPc,
     ReleasePc, RetirePc
<1>5. AfterInv'
  BY DEF AfterInv, Releasing, Failed, LeaseInv, AcquirePc, PublishPc, ReleasePc
<1>6. TokenInv'
  BY DEF TokenInv, Owner, Missing, Bare
<1>7. MakerInv'
  BY DEF MakerInv, Bare, Missing, HolderKeepsDirectory, Holding, MyToken, LeaseInv,
     RetireInv, PublishPc, Failed, AfterInv
<1>8. MarkerInv'
  BY DEF MarkerInv, MyMarker, Bare, Missing, Failed
<1>9. ReclaimInv'
  <2>1. \A d \in Client : gen[d] <= gen'[d] /\ gen'[d] \in Nat
    OBVIOUS
  <2>2. lease' = lease /\ target' = target /\ base' = base
    OBVIOUS
  <2>3. \A d \in Client : ~Releasing(d) =>
          /\ pc'[d] = "rename" => pc[d] = "rename"
          /\ pc'[d] \in StaleKnown => pc[d] \in StaleKnown
    BY DEF Releasing, Failed, StaleKnown
  <2>4. \A d \in Client : Releasing(d)' <=> Releasing(d)
    BY <2>2 DEF Releasing
  <2>5. \A d \in Client : target[d].gen \in Nat
    BY DEF Owner
  <2>6. QED
    BY <2>1, <2>2, <2>3, <2>4, <2>5 DEF ReclaimInv
<1>10. RetiredInv'
  BY DEF RetiredInv, Owner, Missing, HolderKeepsDirectory, Holding, MyToken, LeaseInv,
     RetireInv, PublishPc
<1>11. HolderKeepsDirectory'
  BY DEF HolderKeepsDirectory, Holding, MyToken, MakerInv, Bare, Missing, LeaseInv,
     RetireInv, ReleaseInv, AfterInv, AcquirePc, PublishPc, Releasing
<1>12. QED
  BY <1>1, <1>2, <1>3, <1>4, <1>5, <1>6, <1>7, <1>8, <1>9, <1>10, <1>11

\* A reclaimer that owns the marker looks at the lock's owner again.
LEMMA RecheckStep ==
  ASSUME IInv, TypeOK', NEW c \in Client, Recheck(c)
  PROVE  IInv'
<1> USE NobodyAssumption DEF IInv, TypeOK, Goto, NoFault, Fault, disk, own, Recheck
<1>1. DownInv'
  BY DEF DownInv, Failed, Releasing
<1>2. LeaseInv'
  BY DEF LeaseInv, AfterInv, Releasing, Failed, AcquirePc, PublishPc, ReleasePc
<1>3. RetireInv'
  BY DEF RetireInv, LeaseInv, AfterInv, Releasing, Failed, AcquirePc, PublishPc, ReleasePc
<1>4. ReleaseInv'
  BY DEF ReleaseInv, Releasing, RetirePc, ReleasePc, LeaseInv, MyToken
<1>5. AfterInv'
  BY DEF AfterInv, Releasing, Failed, LeaseInv, AcquirePc, PublishPc, ReleasePc
<1>6. TokenInv'
  BY DEF TokenInv, Owner, Missing, Bare
<1>7. MakerInv'
  BY DEF MakerInv, Bare, Missing, HolderKeepsDirectory, Holding, MyToken, LeaseInv,
     RetireInv, PublishPc, Failed, AfterInv
<1>8. MarkerInv'
  BY DEF MarkerInv, MyMarker, Bare, Missing, Failed
<1>9. ReclaimInv'
  BY DEF ReclaimInv, StaleKnown, Releasing
<1>10. RetiredInv'
  BY DEF RetiredInv, Owner, Missing, HolderKeepsDirectory, Holding, MyToken, LeaseInv,
     RetireInv, PublishPc
<1>11. HolderKeepsDirectory'
  BY DEF HolderKeepsDirectory, Holding, MyToken, MakerInv, Bare, Missing, LeaseInv,
     RetireInv, ReleaseInv, AfterInv, AcquirePc, PublishPc, Releasing
<1>12. QED
  BY <1>1, <1>2, <1>3, <1>4, <1>5, <1>6, <1>7, <1>8, <1>9, <1>10, <1>11

\* The look at the marker that comes before its removal.
LEMMA CheckMarkerStep ==
  ASSUME IInv, TypeOK', NEW c \in Client, CheckMarker(c)
  PROVE  IInv'
<1> USE NobodyAssumption DEF IInv, TypeOK, Goto, NoFault, Fault, disk, own, CheckMarker,
   KeepLease, Finish
<1>1. DownInv'
  BY DEF DownInv, Failed, Releasing
<1>2. LeaseInv'
  BY DEF LeaseInv, AfterInv, Releasing, Failed, AcquirePc, PublishPc, ReleasePc
<1>3. RetireInv'
  BY DEF RetireInv, LeaseInv, AfterInv, Releasing, Failed, AcquirePc, PublishPc, ReleasePc
<1>4. ReleaseInv'
  BY DEF ReleaseInv, RetireInv, LeaseInv, MyToken, Releasing, Failed, AcquirePc, PublishPc,
     ReleasePc, RetirePc
<1>5. AfterInv'
  BY DEF AfterInv, Releasing, Failed, LeaseInv, AcquirePc, PublishPc, ReleasePc
<1>6. TokenInv'
  BY DEF TokenInv, Owner, Missing, Bare
<1>7. MakerInv'
  BY DEF MakerInv, Bare, Missing, HolderKeepsDirectory, Holding, MyToken, LeaseInv,
     RetireInv, PublishPc, Failed, AfterInv
<1>8. MarkerInv'
  BY DEF MarkerInv, MyMarker, Bare, Missing, Failed
<1>9. ReclaimInv'
  BY DEF ReclaimInv, StaleKnown, Releasing, Failed, LeaseInv, ReleaseInv, RetireInv,
     AfterInv, SameOwner
<1>10. RetiredInv'
  BY DEF RetiredInv, Owner, Missing, HolderKeepsDirectory, Holding, MyToken, LeaseInv,
     RetireInv, PublishPc
<1>11. HolderKeepsDirectory'
  BY DEF HolderKeepsDirectory, Holding, MyToken, MakerInv, Bare, Missing, LeaseInv,
     RetireInv, ReleaseInv, AfterInv, AcquirePc, PublishPc, Releasing
<1>12. QED
  BY <1>1, <1>2, <1>3, <1>4, <1>5, <1>6, <1>7, <1>8, <1>9, <1>10, <1>11

\* The removal of the marker, which ends a release or a reclamation.
LEMMA RmMarkerStep ==
  ASSUME IInv, TypeOK', NEW c \in Client, RmMarker(c)
  PROVE  IInv'
<1> USE NobodyAssumption DEF IInv, TypeOK, Goto, NoFault, Fault, disk, own, RmMarker,
   KeepLease, Finish
<1>1. DownInv'
  BY DEF DownInv, Failed, Releasing
<1>2. LeaseInv'
  BY DEF LeaseInv, AfterInv, Releasing, Failed, AcquirePc, PublishPc, ReleasePc
<1>3. RetireInv'
  BY DEF RetireInv, LeaseInv, AfterInv, Releasing, Failed, AcquirePc, PublishPc, ReleasePc
<1>4. ReleaseInv'
  BY DEF ReleaseInv, RetireInv, LeaseInv, MyToken, Releasing, Failed, AcquirePc, PublishPc,
     ReleasePc, RetirePc
<1>5. AfterInv'
  BY DEF AfterInv, Releasing, Failed, LeaseInv, AcquirePc, PublishPc, ReleasePc
<1>6. TokenInv'
  <2>1. gen' = gen /\ base' = base /\ mark'[c] \in {0, mark[c]} /\ lease'[c] \in {0, lease[c]}
    OBVIOUS
  <2>2. \A d \in Client \ {c} : mark'[d] = mark[d] /\ lease'[d] = lease[d]
    OBVIOUS
  <2>3. marker' \in {marker, Bare(c), Missing}
    OBVIOUS
  <2>4. QED
    BY <2>1, <2>2, <2>3 DEF TokenInv, Missing, Bare
<1>7. MakerInv'
  BY DEF MakerInv, Bare, Missing, HolderKeepsDirectory, Holding, MyToken, LeaseInv,
     RetireInv, PublishPc, Failed, AfterInv
<1>8. MarkerInv'
  BY DEF MarkerInv, MyMarker, Bare, Missing, Failed
<1>9. ReclaimInv'
  BY DEF ReclaimInv, StaleKnown, Releasing, Failed, LeaseInv, ReleaseInv, RetireInv,
     AfterInv, SameOwner
<1>10. RetiredInv'
  BY DEF RetiredInv, Owner, Missing, HolderKeepsDirectory, Holding, MyToken, LeaseInv,
     RetireInv, PublishPc
<1>11. HolderKeepsDirectory'
  BY DEF HolderKeepsDirectory, Holding, MyToken, MakerInv, Bare, Missing, LeaseInv,
     RetireInv, ReleaseInv, AfterInv, AcquirePc, PublishPc, Releasing
<1>12. QED
  BY <1>1, <1>2, <1>3, <1>4, <1>5, <1>6, <1>7, <1>8, <1>9, <1>10, <1>11

\* A panel's release called again after its directory was already retired.
LEMMA RetryRetiredStep ==
  ASSUME IInv, TypeOK', NEW c \in Client, RetryRetired(c)
  PROVE  IInv'
<1> USE NobodyAssumption DEF IInv, TypeOK, Goto, NoFault, Fault, disk, own, RetryRetired,
   KeepLease, Finish, MarkerState, MyMarker
<1>1. DownInv'
  BY DEF DownInv, Failed, Releasing
<1>2. LeaseInv'
  BY DEF LeaseInv, AfterInv, Releasing, Failed, AcquirePc, PublishPc, ReleasePc
<1>3. RetireInv'
  BY DEF RetireInv, LeaseInv, AfterInv, Releasing, Failed, AcquirePc, PublishPc, ReleasePc
<1>4. ReleaseInv'
  BY DEF ReleaseInv, RetireInv, LeaseInv, MyToken, Releasing, Failed, AcquirePc, PublishPc,
     ReleasePc, RetirePc
<1>5. AfterInv'
  BY DEF AfterInv, Releasing, Failed, LeaseInv, AcquirePc, PublishPc, ReleasePc
<1>6. TokenInv'
  BY DEF TokenInv, Owner, Missing, Bare
<1>7. MakerInv'
  BY DEF MakerInv, Bare, Missing, HolderKeepsDirectory, Holding, MyToken, LeaseInv,
     RetireInv, PublishPc, Failed, AfterInv
<1>8. MarkerInv'
  BY DEF MarkerInv, MyMarker, Bare, Missing, Failed
<1>9. ReclaimInv'
  BY DEF ReclaimInv, StaleKnown, Releasing, Failed, LeaseInv, ReleaseInv, RetireInv,
     AfterInv, SameOwner
<1>10. RetiredInv'
  BY DEF RetiredInv, Owner, Missing, HolderKeepsDirectory, Holding, MyToken, LeaseInv,
     RetireInv, PublishPc
<1>11. HolderKeepsDirectory'
  BY DEF HolderKeepsDirectory, Holding, MyToken, MakerInv, Bare, Missing, LeaseInv,
     RetireInv, ReleaseInv, AfterInv, AcquirePc, PublishPc, Releasing
<1>12. QED
  BY <1>1, <1>2, <1>3, <1>4, <1>5, <1>6, <1>7, <1>8, <1>9, <1>10, <1>11

\* The death of a process.
LEMMA CrashStep ==
  ASSUME IInv, TypeOK', NEW p \in Proc, Crash(p)
  PROVE  IInv'
<1> USE NobodyAssumption, ProcOfAssumption DEF IInv, TypeOK, disk, Crash
<1>1. DownInv'
  BY DEF DownInv
<1>2. LeaseInv'
  BY DEF LeaseInv, AcquirePc, PublishPc, ReleasePc
<1>3. RetireInv'
  BY DEF RetireInv
<1>4. ReleaseInv'
  BY DEF ReleaseInv, Releasing, MyToken, RetirePc, ReleasePc
<1>5. AfterInv'
  BY DEF AfterInv, Releasing
<1>6. TokenInv'
  BY DEF TokenInv
<1>7. MakerInv'
  BY DEF MakerInv, Bare
<1>8. MarkerInv'
  BY DEF MarkerInv, MyMarker, Bare
<1>9. ReclaimInv'
  <2>1. \A d \in Client : lease'[d] \in {0, lease[d]} /\ gen'[d] = gen[d] /\ base' = base
    OBVIOUS
  <2>2. \A d \in Client : pc'[d] \in StaleKnown =>
          pc'[d] = pc[d] /\ target'[d] = target[d] /\ (Releasing(d)' <=> Releasing(d))
    BY DEF StaleKnown, Releasing
  <2>3. QED
    BY <2>1, <2>2 DEF ReclaimInv, StaleKnown, Owner
<1>10. RetiredInv'
  BY DEF RetiredInv
<1>11. HolderKeepsDirectory'
  BY DEF HolderKeepsDirectory, Holding, MyToken
<1>12. QED
  BY <1>1, <1>2, <1>3, <1>4, <1>5, <1>6, <1>7, <1>8, <1>9, <1>10, <1>11

\* A restarted process, and the user's own removals.
LEMMA RestartOrCleanupStep ==
  ASSUME IInv, TypeOK', Cleanup \/ \E p \in Proc : Restart(p)
  PROVE  IInv'
<1> USE NobodyAssumption, ProcOfAssumption DEF IInv, DownInv, LeaseInv, RetireInv,
   ReleaseInv, AfterInv,
        TokenInv, MakerInv, MarkerInv, ReclaimInv, StaleKnown, RetiredInv, HolderKeepsDirectory,
        Holding, MyToken, MyMarker, Releasing, SameOwner, PidAlive, TypeOK, Owner,
        Missing, Bare, AcquirePc, PublishPc, RetirePc, ReleasePc, disk, own
<1>1. CASE Cleanup
  BY <1>1 DEF Cleanup
<1>2. ASSUME NEW p \in Proc, Restart(p) PROVE IInv'
  BY <1>2 DEF Restart
<1>3. QED
  BY <1>1, <1>2

\* Every step preserves the inductive invariant.
LEMMA InvStep == IInv /\ [Next]_vars => IInv'
<1> SUFFICES ASSUME IInv, [Next]_vars PROVE IInv'
  OBVIOUS
<1>1. TypeOK'
  BY TypeStep DEF IInv
<1>2. ASSUME NEW c \in Client, Acquire(c) \/ Step(c) \/ Release(c) PROVE IInv'
  BY <1>1, <1>2, PlainStep, RmLockDirStep, WriteOwnerStep, ReadOwnerStep, PublishStep,
     AbandonStep, PublishMarkerStep, WriteMarkerStep, RecheckStep, CheckMarkerStep,
     RmMarkerStep, RetryRetiredStep DEF Step
<1>3. CASE Cleanup \/ \E p \in Proc : Crash(p) \/ Restart(p)
  BY <1>1, <1>3, CrashStep, RestartOrCleanupStep
<1>4. CASE UNCHANGED vars
  BY <1>4 DEF vars, IInv, TypeOK, DownInv, LeaseInv, RetireInv, ReleaseInv, AfterInv, TokenInv,
     MakerInv, MarkerInv, ReclaimInv, RetiredInv, HolderKeepsDirectory, Holding, MyToken,
     MyMarker, Releasing
<1>5. QED
  BY <1>2, <1>3, <1>4 DEF Next

\* The inductive invariant holds before any caller starts.
LEMMA InvInit == Init => IInv
<1> SUFFICES ASSUME Init PROVE IInv
  OBVIOUS
<1> USE DEF Init
<1>1. TypeOK
  BY DEF TypeOK, Owner, Missing, Pc, AcquirePc, PublishPc, RetirePc, ReleasePc
<1>2. DownInv /\ LeaseInv /\ RetireInv /\ ReleaseInv /\ AfterInv
  BY ProcOfAssumption DEF DownInv, LeaseInv, RetireInv, ReleaseInv, AfterInv, Releasing,
     AcquirePc, PublishPc, ReleasePc
<1>3. TokenInv /\ MakerInv /\ MarkerInv
  BY NobodyAssumption DEF TokenInv, MakerInv, MarkerInv, Missing
<1>4. ReclaimInv /\ RetiredInv /\ HolderKeepsDirectory
  BY DEF ReclaimInv, StaleKnown, RetiredInv, HolderKeepsDirectory, Holding, Releasing
<1>5. QED
  BY <1>1, <1>2, <1>3, <1>4 DEF IInv

\* Every variable keeps its type in every behaviour.
THEOREM TypeCorrect == Spec => []TypeOK
<1>1. Init => TypeOK
  BY InvInit DEF IInv
<1>2. QED
  BY <1>1, TypeStep, PTL DEF Spec

\* Every caller's progress agrees with the lock's two directories, with the tokens
\* drawn so far and with which processes live, in every reachable state.
THEOREM Invariance == Spec => []IInv
  BY InvInit, InvStep, PTL DEF Spec

\* A lease in force keeps its directory, whatever reclaimers and retried
\* releases do meanwhile.
THEOREM DirectoryKept == Spec => []HolderKeepsDirectory
<1>1. IInv => HolderKeepsDirectory
  BY DEF IInv
<1>2. QED
  BY <1>1, Invariance, PTL

\* Two callers never hold the lock together: both would own the one directory.
THEOREM LockMutualExclusion == Spec => []MutualExclusion
<1>1. IInv => MutualExclusion
  BY DEF IInv, HolderKeepsDirectory, MutualExclusion, MyToken
<1>2. QED
  BY <1>1, Invariance, PTL
----------------------------------------------------------------------------
(* The transition marker *)

\* A marker changes only by the operation that made it, or by hand after it.
THEOREM MarkerTheorem == Spec => MarkerOfItsCreator
<1> DEFINE Creator ==
      \/ pc' = pc
      \/ /\ pc[marker.by] \in {"writeMarker", "rmMarker", "rmdirMarker"}
         /\ pc'[marker.by] # pc[marker.by]
         /\ marker.gen \in {0, mark[marker.by]}
<1>1. ASSUME IInv, [Next]_vars, marker # Missing, marker' # marker
      PROVE  Creator
  <2> USE DEF IInv, TypeOK, disk, own, Goto
  <2>1. ASSUME NEW c \in Client, WriteMarker(c) PROVE Creator
    BY <1>1, <2>1 DEF WriteMarker, MarkerInv, Bare, Failed
  <2>2. ASSUME NEW c \in Client, RmMarker(c) PROVE Creator
    <3>1. pc[c] \in {"rmMarker", "rmdirMarker"}
      BY <2>2 DEF RmMarker
    <3>2. marker.by = c /\ marker.gen \in {0, mark[c]}
      BY <1>1, <3>1 DEF MarkerInv, MyMarker, Bare
    <3>3. \/ Goto(c, "rmdirMarker") /\ pc[c] = "rmMarker"
          \/ pc'[c] \in {"idle", "gate", "wait", "releaseFailed"}
      BY <1>1, <2>2 DEF RmMarker, Finish, AfterInv
    <3>4. pc'[c] # pc[c]
      BY <1>1, <3>1, <3>3
    <3>5. QED
      BY <3>1, <3>2, <3>4
  <2>3. ASSUME NEW c \in Client, MkdirMarker(c) \/ PublishMarker(c) PROVE FALSE
    BY <1>1, <2>3 DEF MkdirMarker, PublishMarker
  <2>4. CASE Cleanup
    BY <2>4 DEF Cleanup
  <2>5. CASE \E p \in Proc : Crash(p) \/ Restart(p)
    BY <1>1, <2>5 DEF Crash, Restart
  <2>6. ASSUME NEW c \in Client,
               \/ Acquire(c) \/ Gate(c) \/ Mkdir(c) \/ RmLockDir(c) \/ WriteOwner(c)
               \/ Lstat(c) \/ ReadOwner(c) \/ Wait(c) \/ GiveUp(c)
               \/ PanelGate(c) \/ Publish(c) \/ GateAfterPublish(c) \/ Abandon(c)
        PROVE  FALSE
    BY <1>1, <2>6 DEF Acquire, Gate, Mkdir, RmLockDir, WriteOwner, Lstat, ReadOwner, Wait,
       GiveUp, PanelGate, Publish, GateAfterPublish, Abandon
  <2>7. ASSUME NEW c \in Client,
               \/ Recheck(c) \/ Verify(c) \/ Rename(c) \/ RmRetired(c) \/ CheckMarker(c)
               \/ Release(c) \/ ReleaseGate(c) \/ RetryRetired(c) \/ RetryPending(c)
        PROVE  FALSE
    BY <1>1, <2>7 DEF Recheck, Verify, Rename, RmRetired, CheckMarker, Release, ReleaseGate,
       RetryRetired, RetryPending
  <2>8. CASE UNCHANGED vars
    BY <1>1, <2>8 DEF vars
  <2>9. QED
    BY <1>1, <2>1, <2>2, <2>3, <2>4, <2>5, <2>6, <2>7, <2>8 DEF Next, Step
<1>2. IInv /\ [Next]_vars => [marker # Missing /\ marker' # marker => Creator]_vars
  BY <1>1
<1>3. QED
  BY <1>2, Invariance, PTL DEF Spec, MarkerOfItsCreator

----------------------------------------------------------------------------
(* Nothing left behind *)

\* Without faults and deaths the directories and the marker keep, in every step of
\* a caller, one that is about to remove them or that holds the lock.
LEMMA CleanCallerStep ==
  ASSUME IInv, CleanInv, Undisturbed, faults' = 0, NEW c \in Client,
         Acquire(c) \/ Step(c) \/ Release(c)
  PROVE  MarkedInv' /\ DirectoriesInv'
<1> USE NobodyAssumption DEF IInv, CleanInv, Undisturbed, MarkedInv, DirectoriesInv, MarkedPc,
        RetirePc, MakerInv, MarkerInv, LeaseInv, RetireInv, ReleaseInv, TokenInv,
        HolderKeepsDirectory, Holding, MyToken, MyMarker, Releasing, SameOwner, PidAlive,
        TypeOK, Owner, Missing, Bare, AcquirePc, PublishPc, ReleasePc, Goto, Fault, NoFault,
        disk, own
<1>1. CASE Acquire(c)
  <2>1. MarkedInv'
    BY <1>1 DEF Acquire
  <2>2. DirectoriesInv'
    BY <1>1 DEF Acquire
  <2>3. QED
    BY <2>1, <2>2
<1>2. CASE Gate(c)
  <2>1. MarkedInv'
    BY <1>2 DEF Gate
  <2>2. DirectoriesInv'
    BY <1>2 DEF Gate
  <2>3. QED
    BY <2>1, <2>2
<1>3. CASE Mkdir(c)
  <2>1. MarkedInv'
    BY <1>3 DEF Mkdir
  <2>2. DirectoriesInv'
    BY <1>3 DEF Mkdir
  <2>3. QED
    BY <2>1, <2>2
<1>4. CASE RmLockDir(c)
  <2>1. MarkedInv'
    BY <1>4 DEF RmLockDir
  <2>2. DirectoriesInv'
    BY <1>4 DEF RmLockDir
  <2>3. QED
    BY <2>1, <2>2
<1>5. CASE WriteOwner(c)
  <2>1. MarkedInv'
    BY <1>5 DEF WriteOwner
  <2>2. DirectoriesInv'
    BY <1>5 DEF WriteOwner
  <2>3. QED
    BY <2>1, <2>2
<1>6. CASE Lstat(c)
  <2>1. MarkedInv'
    BY <1>6 DEF Lstat
  <2>2. DirectoriesInv'
    BY <1>6 DEF Lstat
  <2>3. QED
    BY <2>1, <2>2
<1>7. CASE ReadOwner(c)
  <2>0. pc' \in {[pc EXCEPT ![c] = l] : l \in {"gate", "wait", "idle"}}
    <3>1. base.gen # 0 => PidAlive(base.by)
      BY ProcOfAssumption
    <3>2. QED
      BY <1>7, <3>1 DEF ReadOwner
  <2>1. MarkedInv'
    BY <1>7, <2>0 DEF ReadOwner
  <2>2. DirectoriesInv'
    BY <1>7, <2>0 DEF ReadOwner
  <2>3. QED
    BY <2>1, <2>2
<1>8. CASE Wait(c)
  <2>1. MarkedInv'
    BY <1>8 DEF Wait
  <2>2. DirectoriesInv'
    BY <1>8 DEF Wait
  <2>3. QED
    BY <2>1, <2>2
<1>9. CASE GiveUp(c)
  <2>1. MarkedInv'
    BY <1>9 DEF GiveUp, Failed
  <2>2. DirectoriesInv'
    BY <1>9 DEF GiveUp, Failed
  <2>3. QED
    BY <2>1, <2>2
<1>10. CASE PanelGate(c)
  <2>1. MarkedInv'
    BY <1>10 DEF PanelGate, MarkerActive, MarkerInvalid
  <2>2. DirectoriesInv'
    BY <1>10 DEF PanelGate, MarkerActive, MarkerInvalid
  <2>3. QED
    BY <2>1, <2>2
<1>11. CASE Publish(c)
  <2>1. MarkedInv'
    BY <1>11 DEF Publish
  <2>2. DirectoriesInv'
    BY <1>11 DEF Publish
  <2>3. QED
    BY <2>1, <2>2
<1>12. CASE GateAfterPublish(c)
  <2>1. MarkedInv'
    BY <1>12 DEF GateAfterPublish
  <2>2. DirectoriesInv'
    BY <1>12 DEF GateAfterPublish
  <2>3. QED
    BY <2>1, <2>2
<1>13. CASE Abandon(c)
  <2>1. MarkedInv'
    BY <1>13 DEF Abandon, DropLease
  <2>2. DirectoriesInv'
    BY <1>13 DEF Abandon, DropLease
  <2>3. QED
    BY <2>1, <2>2
<1>14. CASE MkdirMarker(c)
  <2>1. MarkedInv'
    BY <1>14 DEF MkdirMarker
  <2>2. DirectoriesInv'
    BY <1>14 DEF MkdirMarker
  <2>3. QED
    BY <2>1, <2>2
<1>15. CASE PublishMarker(c)
  <2>1. MarkedInv'
    BY <1>15 DEF PublishMarker, Failed
  <2>2. DirectoriesInv'
    BY <1>15 DEF PublishMarker, Failed
  <2>3. QED
    BY <2>1, <2>2
<1>16. CASE WriteMarker(c)
  <2>1. MarkedInv'
    BY <1>16 DEF WriteMarker, Failed
  <2>2. DirectoriesInv'
    BY <1>16 DEF WriteMarker, Failed
  <2>3. QED
    BY <2>1, <2>2
<1>17. CASE Recheck(c)
  <2>1. MarkedInv'
    BY <1>17 DEF Recheck
  <2>2. DirectoriesInv'
    BY <1>17 DEF Recheck
  <2>3. QED
    BY <2>1, <2>2
<1>18. CASE Verify(c)
  <2>0. Goto(c, "rename") /\ after' = after
    <3>1. target[c] = MyToken(c) /\ base = MyToken(c) /\ MyMarker(c)
      BY <1>18 DEF Verify
    <3>2. PidAlive(c) /\ Releasing(c)
      BY <1>18, ProcOfAssumption DEF Verify
    <3>3. QED
      BY <1>18, <3>1, <3>2 DEF Verify
  <2>1. MarkedInv'
    BY <1>18, <2>0 DEF Verify
  <2>2. DirectoriesInv'
    BY <1>18, <2>0 DEF Verify
  <2>3. QED
    BY <2>1, <2>2
<1>19. CASE Rename(c)
  <2>1. MarkedInv'
    BY <1>19 DEF Rename
  <2>2. DirectoriesInv'
    BY <1>19 DEF Rename
  <2>3. QED
    BY <2>1, <2>2
<1>20. CASE RmRetired(c)
  <2>1. MarkedInv'
    BY <1>20 DEF RmRetired
  <2>2. DirectoriesInv'
    BY <1>20 DEF RmRetired
  <2>3. QED
    BY <2>1, <2>2
<1>21. CASE CheckMarker(c)
  <2>1. MarkedInv'
    BY <1>21 DEF CheckMarker, Finish, KeepLease
  <2>2. DirectoriesInv'
    BY <1>21 DEF CheckMarker, Finish, KeepLease
  <2>3. QED
    BY <2>1, <2>2
<1>22. CASE RmMarker(c)
  <2>1. MarkedInv'
    BY <1>22 DEF RmMarker, Finish, KeepLease
  <2>2. DirectoriesInv'
    <3>1. CASE KeepLease /\ Goto(c, "rmdirMarker")
      BY <1>22, <3>1 DEF RmMarker, KeepLease
    <3>2. CASE pc[c] = "rmdirMarker" /\ Finish(c, "idle")
      <4>1. retiredByMe[c] /\ base.by # c /\ \A r \in retired : r.by # c
        BY <3>2
      <4>2. \A d \in Client \ {c} : /\ pc'[d] = pc[d] /\ lease'[d] = lease[d]
                                     /\ retiredByMe'[d] = retiredByMe[d]
        BY <3>2 DEF Finish
      <4>3. ~retiredByMe'[c]
        BY <3>2 DEF Finish
      <4>4. base' = base /\ retired' = retired
        BY <1>22 DEF RmMarker
      <4>5. QED
        BY <4>1, <4>2, <4>3, <4>4
    <3>3. QED
      BY <1>22, <3>1, <3>2 DEF RmMarker
  <2>3. QED
    BY <2>1, <2>2
<1>23. CASE Release(c)
  <2>1. MarkedInv'
    BY <1>23 DEF Release
  <2>2. DirectoriesInv'
    BY <1>23 DEF Release
  <2>3. QED
    BY <2>1, <2>2
<1>24. CASE ReleaseGate(c)
  <2>1. MarkedInv'
    BY <1>24 DEF ReleaseGate, MarkerActive, MarkerInvalid
  <2>2. DirectoriesInv'
    BY <1>24 DEF ReleaseGate, MarkerActive, MarkerInvalid
  <2>3. QED
    BY <2>1, <2>2
<1>25. CASE RetryRetired(c)
  <2>1. MarkedInv'
    BY <1>25 DEF RetryRetired, Finish, KeepLease, MarkerState
  <2>2. DirectoriesInv'
    BY <1>25 DEF RetryRetired, Finish, KeepLease, MarkerState
  <2>3. QED
    BY <2>1, <2>2
<1>26. CASE RetryPending(c)
  <2>1. MarkedInv'
    BY <1>26 DEF RetryPending, MarkerState
  <2>2. DirectoriesInv'
    BY <1>26 DEF RetryPending, MarkerState
  <2>3. QED
    BY <2>1, <2>2
<1>27. QED
  BY <1>1, <1>2, <1>3, <1>4, <1>5, <1>6, <1>7, <1>8, <1>9, <1>10, <1>11, <1>12, <1>13, <1>14, <1>15, <1>16, <1>17, <1>18, <1>19, <1>20, <1>21, <1>22, <1>23, <1>24, <1>25, <1>26 DEF Step

\* No reclaimer, death or clean-up by hand interferes meanwhile.
LEMMA CleanStep == IInv /\ CleanInv /\ [Next]_vars => CleanInv'
<1> SUFFICES ASSUME IInv, CleanInv, [Next]_vars, Undisturbed'
             PROVE  (\A p \in Proc : up'[p]) /\ MarkedInv' /\ DirectoriesInv'
  BY DEF CleanInv
<1> USE DEF Undisturbed
<1>1. ASSUME NEW c \in Client, Acquire(c) \/ Step(c) \/ Release(c)
      PROVE  up' = up /\ faults \in {faults', faults' - 1} /\ crashes' = crashes
  BY <1>1 DEF Step, Acquire, Gate, Mkdir, RmLockDir, WriteOwner, Lstat, ReadOwner, Wait, GiveUp,
     PanelGate, Publish, GateAfterPublish, Abandon, MkdirMarker, PublishMarker, WriteMarker,
     Recheck, Verify, Rename, RmRetired, CheckMarker, RmMarker, ReleaseGate, RetryRetired,
     RetryPending, Release, Fault, NoFault, IInv, TypeOK
<1>2. ASSUME NEW c \in Client, Acquire(c) \/ Step(c) \/ Release(c)
      PROVE  (\A p \in Proc : up'[p]) /\ MarkedInv' /\ DirectoriesInv'
  <2>1. Undisturbed
    BY <1>1, <1>2 DEF IInv, TypeOK
  <2>2. MarkedInv' /\ DirectoriesInv'
    BY <1>2, <2>1, CleanCallerStep
  <2>3. QED
    BY <1>1, <1>2, <2>1, <2>2 DEF CleanInv
<1>3. ASSUME NEW p \in Proc, Crash(p) PROVE FALSE
  BY <1>3 DEF Crash, IInv, TypeOK
<1>4. ASSUME NEW p \in Proc, Restart(p) PROVE FALSE
  BY <1>4 DEF Restart, CleanInv
<1>5. CASE Cleanup
  <2>1. Undisturbed
    BY <1>5 DEF Cleanup
  <2>2. marker # Missing => marker.by \in Client
    BY DEF IInv, TypeOK, TokenInv, Owner, Missing
  <2>3. base # Missing => base.by \in Client
    BY DEF IInv, TypeOK, TokenInv, Owner, Missing
  <2>4. ~(marker # Missing /\ pc[marker.by] \notin RetirePc)
    BY <2>1, <2>2 DEF CleanInv, MarkedInv, MarkedPc, RetirePc
  <2>5. ~(/\ base # Missing /\ base.gen = 0
          /\ pc[base.by] \notin {"gateAfterMkdir", "rmLockDir", "writeOwner"})
    BY <2>1, <2>3 DEF CleanInv, DirectoriesInv, IInv, HolderKeepsDirectory, Holding, MyToken
  <2>6. QED
    BY <1>5, <2>4, <2>5 DEF Cleanup
<1>6. CASE UNCHANGED vars
  BY <1>6 DEF vars, CleanInv, MarkedInv, DirectoriesInv, MarkedPc, RetirePc, Releasing, MyMarker,
     Holding, MyToken
<1>7. QED
  BY <1>2, <1>3, <1>4, <1>5, <1>6 DEF Next

\* When no filesystem call fails and no process dies, a caller that is idle has left
\* no lock directory, marker or renamed directory on the disk, however its acquisition
\* or release ended.
THEOREM NothingLeft == Spec => []NothingLeftBehind
<1>1. Init => CleanInv
  BY NobodyAssumption DEF Init, CleanInv, MarkedInv, DirectoriesInv, MarkedPc, RetirePc, Missing
<1>2. IInv /\ CleanInv => NothingLeftBehind
  BY DEF IInv, LeaseInv, CleanInv, Undisturbed, MarkedInv, DirectoriesInv, MarkedPc, Holding,
     NothingLeftBehind
<1>3. QED
  BY <1>1, <1>2, CleanStep, Invariance, PTL DEF Spec

----------------------------------------------------------------------------
(* The protocol implements Mutex *)

Holders == {c \in Client : Holding(c)}

\* A step that takes at most one lease out of force is a release or a stutter.
LEMMA OneReleases ==
  ASSUME NEW c \in Client,
         \A d \in Client \ {c} : lease'[d] = lease[d] /\ retiredByMe'[d] = retiredByMe[d],
         Holding(c)' => Holding(c)
  PROVE  [Lock!Next]_Holders
<1>1. \A d \in Client \ {c} : Holding(d)' <=> Holding(d)
  BY DEF Holding
<1>2. CASE Holding(c) /\ ~Holding(c)'
  <2>1. c \in Holders /\ Holders' = Holders \ {c}
    BY <1>1, <1>2 DEF Holders
  <2>2. QED
    BY <2>1 DEF Lock!Next, Lock!Release, Holders
<1>3. CASE Holding(c) <=> Holding(c)'
  <2>1. Holders' = Holders
    BY <1>1, <1>3 DEF Holders
  <2>2. QED
    BY <2>1
<1>4. QED
  BY <1>2, <1>3

\* A lease begins when no other is in force.
LEMMA OneAcquires ==
  ASSUME NEW c \in Client, IInv, base.gen = 0,
         \A d \in Client \ {c} : lease'[d] = lease[d] /\ retiredByMe'[d] = retiredByMe[d],
         Holding(c)'
  PROVE  Lock!Next
<1>1. \A d \in Client : ~Holding(d)
  BY DEF IInv, HolderKeepsDirectory, Holding, MyToken
<1>2. Holders = {} /\ Holders' = {c}
  BY <1>1 DEF Holders, Holding
<1>3. QED
  BY <1>2 DEF Lock!Next, Lock!Acquire, Holders

\* Every step of the protocol is a step of Mutex on the set of holders, or none.
LEMMA RefineStep == IInv /\ [Next]_vars => [Lock!Next]_Holders
<1> SUFFICES ASSUME IInv, [Next]_vars PROVE [Lock!Next]_Holders
  OBVIOUS
<1> USE DEF IInv, TypeOK, disk, own
<1>1. ASSUME NEW c \in Client, WriteOwner(c) PROVE [Lock!Next]_Holders
  <2>1. base.gen = 0
    BY <1>1 DEF WriteOwner, MakerInv, Bare
  <2>2. CASE Holding(c)'
    BY <1>1, <2>1, <2>2, OneAcquires DEF WriteOwner
  <2>3. CASE ~Holding(c)'
    BY <1>1, <2>3, OneReleases DEF WriteOwner
  <2>4. QED
    BY <2>2, <2>3
<1>2. ASSUME NEW c \in Client, Publish(c) PROVE [Lock!Next]_Holders
  <2>1. CASE base = Missing
    <3>1. base.gen = 0
      BY <2>1 DEF Missing
    <3>2. CASE Holding(c)'
      BY <1>2, <3>1, <3>2, OneAcquires DEF Publish
    <3>3. CASE ~Holding(c)'
      BY <1>2, <3>3, OneReleases DEF Publish
    <3>4. QED
      BY <3>2, <3>3
  <2>2. CASE base # Missing
    BY <1>2, <2>2, OneReleases DEF Publish, Holding
  <2>3. QED
    BY <2>1, <2>2
<1>3. ASSUME NEW c \in Client, Abandon(c) PROVE [Lock!Next]_Holders
  BY <1>3, OneReleases DEF Abandon, DropLease, Holding
<1>4. ASSUME NEW c \in Client, Rename(c) PROVE [Lock!Next]_Holders
  BY <1>4, OneReleases DEF Rename, Holding, Releasing, RetireInv
<1>5. ASSUME NEW c \in Client, CheckMarker(c) \/ RmMarker(c) \/ RetryRetired(c)
      PROVE  [Lock!Next]_Holders
  BY <1>5, OneReleases DEF CheckMarker, RmMarker, RetryRetired, Finish, KeepLease, Holding
<1>6. ASSUME UNCHANGED <<lease, retiredByMe>> PROVE [Lock!Next]_Holders
  BY <1>6 DEF Holders, Holding
<1>7. ASSUME NEW c \in Client,
             \/ Acquire(c) \/ Gate(c) \/ Mkdir(c) \/ RmLockDir(c)
             \/ Lstat(c) \/ ReadOwner(c) \/ Wait(c) \/ GiveUp(c)
             \/ PanelGate(c) \/ GateAfterPublish(c)
             \/ MkdirMarker(c) \/ PublishMarker(c) \/ WriteMarker(c) \/ Recheck(c)
             \/ Verify(c) \/ RmRetired(c) \/ Release(c) \/ ReleaseGate(c) \/ RetryPending(c)
      PROVE  UNCHANGED <<lease, retiredByMe>>
  BY <1>7 DEF Acquire, Gate, Mkdir, RmLockDir, Lstat, ReadOwner, Wait, GiveUp, PanelGate,
     GateAfterPublish, MkdirMarker, PublishMarker, WriteMarker, Recheck, Verify, RmRetired,
     Release, ReleaseGate, RetryPending
<1>8. ASSUME NEW p \in Proc, Crash(p) PROVE [Lock!Next]_Holders
  <2>1. Holders' = {c \in Holders : ProcOf[c] # p}
    BY <1>8 DEF Crash, Holders, Holding
  <2>2. QED
    BY <2>1 DEF Lock!Next, Lock!Die, Holders
<1>9. CASE Cleanup \/ UNCHANGED vars \/ \E p \in Proc : Restart(p)
  BY <1>6, <1>9 DEF Cleanup, vars, Restart
<1>10. QED
  BY <1>1, <1>2, <1>3, <1>4, <1>5, <1>6, <1>7, <1>8, <1>9 DEF Next, Step

\* Gateways and panels together behave like one mutual-exclusion lock that a
\* caller loses only by its own release or the death of its process.
THEOREM LockRefinement == Spec => Refinement
<1>1. Init => Lock!Init
  BY DEF Init, Lock!Init, Holding
<1>2. IInv /\ [Next]_vars => [Lock!Next]_Holders
  BY RefineStep
<1>3. QED
  BY <1>1, <1>2, Invariance, PTL DEF Spec, Refinement, Lock!Spec, Holders
=============================================================================
