---------------------------- MODULE LevelDBMoves ----------------------------
(***************************************************************************)
(* The LevelDB backend while goroutines query accounts and arrays of       *)
(* e-mails and move e-mails between active accounts: UpdateBinding is the  *)
(* one method that takes a second lock of an account, and so the one that  *)
(* can close a circle of waiting.  While no access fails and the process   *)
(* runs on, nothing ends such a circle.                                    *)
(***************************************************************************)
EXTENDS LevelDBStore

MovesInit == StoreInit([a \in Address |-> NewDoc(UserLevelFree)])

MovesBegin(t) ==
    /\ \/ \E a \in Address, e \in Email : Invoke(t, UpdateBinding(a, e))
       \/ \E a \in Address : Invoke(t, QueryAccount(a))
       \/ Invoke(t, QueryReflectsByEmails(Email))
    /\ UNCHANGED <<account, reflect, old, locks>>

(* The steps of these three methods.                                       *)
MethodStep(t) == LockStep(t) \/ QueryAccountRead(t) \/ ReadReflectOf(t) \/ BindStep(t)

MovesNext == \E t \in Thread : MovesBegin(t) \/ MethodStep(t)

MovesSpec == MovesInit /\ [][MovesNext]_storeVars

(* The scheduler of Go goes on with a goroutine that can run, and a        *)
(* goroutine can run unless the mutex it waits for is somebody's.  Nobody  *)
(* has to call a method, and no section of a lock is taken to end.         *)
Scheduling == \A t \in Thread : WF_storeVars(MethodStep(t))

MovesFairSpec == MovesSpec /\ Scheduling

-----------------------------------------------------------------------------

(* t waits for a mutex that u has.                                         *)
WaitsFor(t, u) ==
    \E g \in {Outer(t), Inner(t)}, h \in {Outer(u), Inner(u)} :
        lockPc[g] = "lock" /\ lockOwner[lockMu[g]] = h

(* Locks are asked for while others are held (UpdateBinding, DeleteBinding *)
(* and the e-mail and old account inside): two goroutines wait for each    *)
(* other only when each moves an e-mail from the other's account to its    *)
(* own, and no goroutine waits for itself.                                 *)
OnlyCrossMovesBlock ==
    \A t, u \in Thread : WaitsFor(t, u) /\ WaitsFor(u, t) =>
        /\ t # u
        /\ op[t].pc = "old" /\ op[t].owner = op[u].addr
        /\ op[u].pc = "old" /\ op[u].owner = op[t].addr

(* Goroutines that all wait for one another.                               *)
Circle == \E stuck \in SUBSET Thread \ {{}} :
              \A t \in stuck : \E u \in stuck : WaitsFor(t, u)

(* A call of a method returns, or goroutines wait for one another in a     *)
(* circle for ever: no lock is left behind by a goroutine that has         *)
(* returned, no mutex is passed on for ever while somebody waits for it,   *)
(* and a lock deleted from the table under a waiter does not strand it.    *)
CallsReturn == \A t \in Thread : Running(t) ~> (~Running(t) \/ []Circle)

=============================================================================
