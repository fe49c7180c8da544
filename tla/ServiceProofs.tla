---------------------------- MODULE ServiceProofs ----------------------------
(***************************************************************************)
(* Theorems about DatabaseService, for every number of calls, connections, *)
(* pool limits and every configuration, and about ServerLifecycle, the     *)
(* process that runs the service, for every number of clients as well.     *)
(***************************************************************************)
EXTENDS ServerLifecycle, TLAPS

-----------------------------------------------------------------------------
(* The service                                                               *)

\* A call that is under way works on a configured connection, and so does
\* Close while it has one in hand.
Located ==
    /\ \A k \in Calls : pc[k] \notin {"idle", "done"} =>
          cur[k] \in Conns /\ req[k] \in Requests
    /\ cpc \in {"lock", "take", "unlock", "shut"} => cconn \in Conns

TypeInv == TypeOK /\ Located

-----------------------------------------------------------------------------
LEMMA InitType == Init => TypeInv
BY ServiceAssumption DEF Init, TypeInv, TypeOK, Located, PCs, Conns

\* A call entering or refused keeps every variable in its range.
LEMMA EnterType ==
    ASSUME TypeInv, NEW k \in Calls, NEW r \in Requests, Start(k, r) \/ Reject(k, r)
    PROVE  TypeInv'
<1>1. r \in Request /\ AllowWrite \subseteq Conns /\ AllowDDL \subseteq Conns /\ NConns \in Nat \ {0}
  BY ServiceAssumption
<1>2. CASE Start(k, r)
  <2>1. (IF r.op = "list" THEN 1 ELSE r.conn) \in Conns
    BY <1>1, <1>2 DEF Start, Accepted, Conns, Request
  <2>2. Deadline(k) \in {"plain", "armed", "done"}
    BY DEF Deadline
  <2>3. TypeOK'
    BY <1>1, <1>2, <2>1, <2>2 DEF Start, TypeInv, TypeOK, PCs, Conns, poolVars, closeVars
  <2>4. Located'
    BY <1>1, <1>2, <2>1 DEF Start, TypeInv, TypeOK, Located, closeVars
  <2> QED BY <2>3, <2>4 DEF TypeInv
<1>3. CASE Reject(k, r)
  BY <1>3 DEF Reject, TypeInv, TypeOK, Located, PCs, poolVars, closeVars
<1> QED BY <1>2, <1>3

\* What Finish does to the variables it assigns, on either outcome.
LEMMA FinishType ==
    ASSUME TypeInv, NEW k \in Calls, NEW ok \in BOOLEAN, Finish(k, ok),
           pc[k] \notin {"idle", "done"}
    PROVE  /\ req' \in [Calls -> Requests \cup {None}]
           /\ pc' \in [Calls -> PCs]
           /\ cur' \in [Calls -> 0..NConns]
           /\ ctx' \in [Calls -> {"plain", "armed", "done"}]
           /\ pool' \in [Calls -> Calls \cup {None}]
           /\ stmt' \in [Calls -> {"none", "sent", "applied", "refused"}]
           /\ reply' \in [Calls -> {"none", "ok", "error"}]
           /\ summary' \in [Calls -> [Conns -> {"none", "ready", "error"}]]
           /\ \A j \in Calls : pc'[j] \notin {"idle", "done"} =>
                 cur'[j] \in Conns /\ req'[j] \in Requests
<1>0. NConns \in Nat \ {0}
  BY ServiceAssumption
<1>1. CASE Return(k, ok)
  BY <1>1 DEF Return, TypeInv, TypeOK, Located, PCs
<1>2. Record(k, ok) => summary' \in [Calls -> [Conns -> {"none", "ready", "error"}]]
  BY DEF Record, TypeInv, TypeOK, Located
<1>3. CASE NextProbe(k, ok)
  <2>1. cur[k] + 1 \in Conns
    BY <1>0, <1>3 DEF NextProbe, TypeInv, TypeOK, Located, Conns
  <2>2. Deadline(k) \in {"armed", "done"}
    BY DEF Deadline
  <2> QED BY <1>0, <1>2, <1>3, <2>1, <2>2 DEF NextProbe, TypeInv, TypeOK, Located, PCs, Conns
<1>4. CASE LastProbe(k, ok)
  BY <1>2, <1>4 DEF LastProbe, TypeInv, TypeOK, Located, PCs
<1> QED BY <1>1, <1>3, <1>4 DEF Finish

\* Changing whom one pool has lent its connections to.
LEMMA LentType ==
    ASSUME NEW f \in [Conns -> [Calls -> SUBSET Calls]], NEW c, NEW p, NEW S,
           (c \in Conns /\ p \in Calls) => S \in SUBSET Calls
    PROVE  [f EXCEPT ![c][p] = S] \in [Conns -> [Calls -> SUBSET Calls]]
<1>1. ASSUME c \in Conns PROVE [f[c] EXCEPT ![p] = S] \in [Calls -> SUBSET Calls]
  BY <1>1, Zenon
<1> QED BY <1>1

\* Giving a pool connection back, or the mutex, keeps its type.
LEMMA ReleaseType ==
    ASSUME TypeInv, NEW k \in Calls
    PROVE  /\ Release(k) => lent' \in [Conns -> [Calls -> SUBSET Calls]]
           /\ Unlock(k) => mu' \in [Conns -> Calls \cup {Closer, None}]
<1> DEFINE S == lent[cur[k]][pool[k]] \ {k}
<1>1. lent \in [Conns -> [Calls -> SUBSET Calls]]
  BY DEF TypeInv, TypeOK
<1>2. (cur[k] \in Conns /\ pool[k] \in Calls) => S \in SUBSET Calls
  BY <1>1
<1>3. [lent EXCEPT ![cur[k]][pool[k]] = S] \in [Conns -> [Calls -> SUBSET Calls]]
  <2> HIDE DEF S
  <2> QED BY <1>1, <1>2, LentType
<1>4. Release(k) => lent' = [lent EXCEPT ![cur[k]][pool[k]] = S]
  BY DEF Release
<1>5. Unlock(k) => mu' \in [Conns -> Calls \cup {Closer, None}]
  BY DEF Unlock, TypeInv, TypeOK
<1> QED BY <1>3, <1>4, <1>5

\* A step that finishes the work on a connection.
LEMMA AnswerType ==
    ASSUME TypeInv, NEW k \in Calls, NEW ok \in BOOLEAN, Finish(k, ok),
           pc[k] \notin {"idle", "done"},
           UNCHANGED mu \/ Unlock(k), UNCHANGED lent \/ Release(k),
           UNCHANGED <<gone, db, live, closeVars>>
    PROVE  TypeInv'
<1>1. /\ mu' \in [Conns -> Calls \cup {Closer, None}]
      /\ lent' \in [Conns -> [Calls -> SUBSET Calls]]
  BY ReleaseType DEF TypeInv, TypeOK
<1>2. /\ gone' \subseteq Calls
      /\ db' \in [Conns -> Calls \cup {None}]
      /\ live' \in [Conns -> SUBSET Calls]
      /\ cpc' \in {"idle", "next", "lock", "take", "unlock", "shut", "done"}
      /\ todo' \subseteq Conns
      /\ cconn' \in 0..NConns
      /\ hand' \in Calls \cup {None}
      /\ cpc' \in {"lock", "take", "unlock", "shut"} => cconn' \in Conns
  BY DEF TypeInv, TypeOK, Located, closeVars
<1>3. TypeOK'
  BY <1>1, <1>2, FinishType DEF TypeOK
<1>4. Located'
  BY <1>2, FinishType DEF Located
<1> QED BY <1>3, <1>4 DEF TypeInv

LEMMA CallType ==
    ASSUME TypeInv, NEW k \in Calls, CallNext(k)
    PROVE  TypeInv'
<1>1. CASE Lock(k)
  BY <1>1 DEF Lock, TypeInv, TypeOK, Located, PCs, poolVars, closeVars
<1>2. CASE Check(k)
  BY <1>2 DEF Check, TypeInv, TypeOK, Located, PCs, poolVars, closeVars
<1>3. CASE Create(k)
  BY <1>3 DEF Create, TypeInv, TypeOK, Located, PCs, poolVars, closeVars
<1>4. CASE CreateFail(k)
  BY <1>4 DEF CreateFail, TypeInv, TypeOK, Located, PCs, poolVars, closeVars
<1>5. CASE Opened(k)
  BY <1>5 DEF Opened, Unlock, Deadline, TypeInv, TypeOK, Located, PCs, poolVars, closeVars
<1>6. CASE OpenFailed(k)
  BY <1>6, AnswerType DEF OpenFailed, poolVars
<1>7. CASE Acquire(k)
  <2> DEFINE S == lent[cur[k]][pool[k]] \cup {k}
  <2>1. lent \in [Conns -> [Calls -> SUBSET Calls]]
    BY DEF TypeInv, TypeOK
  <2>2. (cur[k] \in Conns /\ pool[k] \in Calls) => S \in SUBSET Calls
    BY <2>1
  <2>3. [lent EXCEPT ![cur[k]][pool[k]] = S] \in [Conns -> [Calls -> SUBSET Calls]]
    <3> HIDE DEF S
    <3> QED BY <2>1, <2>2, LentType
  <2>4. lent' \in [Conns -> [Calls -> SUBSET Calls]]
    BY <1>7, <2>3 DEF Acquire
  <2> QED BY <1>7, <2>4 DEF Acquire, TypeInv, TypeOK, Located, PCs, closeVars
<1>8. CASE AcquireFail(k)
  BY <1>8, AnswerType DEF AcquireFail, poolVars
<1>9. CASE ExecDone(k)
  BY <1>9, AnswerType DEF ExecDone, poolVars
<1>10. CASE RunFail(k)
  BY <1>10, AnswerType DEF RunFail, poolVars
<1>11. CASE GotRows(k)
  BY <1>11 DEF GotRows, TypeInv, TypeOK, Located, PCs, poolVars, closeVars
<1>12. CASE Exhaust(k)
  BY <1>12, AnswerType DEF Exhaust, poolVars
<1>13. CASE MoreQueries(k)
  BY <1>13, ReleaseType DEF MoreQueries, TypeInv, TypeOK, Located, PCs, poolVars, closeVars
<1>14. CASE RowsFail(k)
  BY <1>14, AnswerType DEF RowsFail, poolVars
<1>15. ASSUME NEW ok \in BOOLEAN, Leave(k, ok) PROVE TypeInv'
  BY <1>15 DEF Leave, TypeInv, TypeOK, Located, PCs, poolVars, closeVars
<1>16. CASE CloseRows(k)
  BY <1>16, ReleaseType DEF CloseRows, TypeInv, TypeOK, Located, PCs, poolVars, closeVars
<1>17. CASE Apply(k)
  BY <1>17 DEF Apply, TypeInv, TypeOK, Located, PCs, poolVars, closeVars
<1>18. CASE Refuse(k)
  BY <1>18 DEF Refuse, TypeInv, TypeOK, Located, PCs, poolVars, closeVars
<1>19. CASE Expire(k)
  BY <1>19 DEF Expire, TypeInv, TypeOK, Located, PCs, poolVars, closeVars
<1>20. CASE HangUp(k)
  BY <1>20 DEF HangUp, TypeInv, TypeOK, Located, PCs, poolVars, closeVars
<1> QED
  BY <1>1, <1>2, <1>3, <1>4, <1>5, <1>6, <1>7, <1>8, <1>9, <1>10, <1>11, <1>12,
     <1>13, <1>14, <1>15, <1>16, <1>17, <1>18, <1>19, <1>20
  DEF CallNext, Step, Database

LEMMA CloseType ==
    ASSUME TypeInv, CloseStart \/ CloseLock \/ CloseStep
    PROVE  TypeInv'
<1> USE DEF TypeInv, TypeOK, Located, callVars, poolVars
<1>1. CASE CloseStart
  BY <1>1 DEF CloseStart
<1>2. CASE CloseLock
  BY <1>2 DEF CloseLock
<1>3. ASSUME NEW c \in Conns, CloseNext(c) PROVE TypeInv'
  BY <1>3 DEF CloseNext, Conns
<1>4. CASE CloseTake
  BY <1>4 DEF CloseTake
<1>5. CASE CloseUnlock
  BY <1>5 DEF CloseUnlock
<1>6. CASE CloseDB
  BY <1>6 DEF CloseDB
<1>7. CASE CloseEnd
  BY <1>7 DEF CloseEnd
<1> QED BY <1>1, <1>2, <1>3, <1>4, <1>5, <1>6, <1>7 DEF CloseStep

LEMMA StepType == TypeInv /\ [Next]_vars => TypeInv'
<1> SUFFICES ASSUME TypeInv, [Next]_vars PROVE TypeInv'
  OBVIOUS
<1>1. ASSUME NEW k \in Calls, NEW r \in Requests, Start(k, r) \/ Reject(k, r) PROVE TypeInv'
  BY <1>1, EnterType
<1>2. ASSUME NEW k \in Calls, CallNext(k) PROVE TypeInv'
  BY <1>2, CallType
<1>3. CASE CloseStart \/ CloseLock \/ CloseStep
  BY <1>3, CloseType
<1>4. CASE Quiesced \/ UNCHANGED vars
  BY <1>4 DEF Quiesced, vars, callVars, poolVars, closeVars, TypeInv, TypeOK, Located
<1> QED BY <1>1, <1>2, <1>3, <1>4 DEF Next

\* Type correctness: TypeOK holds throughout, for every instance of the
\* service (service.go 19-31 and the locals of its methods).
THEOREM TypeCorrect == Spec => []TypeOK
<1>1. TypeInv => TypeOK
  BY DEF TypeInv
<1> QED BY InitType, StepType, <1>1, PTL DEF Spec

-----------------------------------------------------------------------------
(* The mutex of open() and Close.                                            *)

\* Whoever is in a critical section holds that connection's mutex, and a call
\* that found c.db unset still finds it so when it stores the new pool.
Critical == {"check", "create", "unlock"}
Guarded ==
    /\ \A k \in Calls : pc[k] \in Critical => mu[cur[k]] = k
    /\ cpc \in {"take", "unlock"} => mu[cconn] = Closer
    /\ \A k \in Calls : pc[k] = "create" => db[cur[k]] = None

PoolInv == TypeInv /\ Guarded /\ NoOrphanPool

\* Finish leaves every other call alone and sends this one to done or lock.
LEMMA FinishFrame ==
    ASSUME TypeInv, NEW k \in Calls, NEW ok \in BOOLEAN, Finish(k, ok)
    PROVE  /\ pc'[k] \in {"done", "lock"}
           /\ \A j \in Calls \ {k} :
                 pc'[j] = pc[j] /\ cur'[j] = cur[j] /\ pool'[j] = pool[j]
<1>1. CASE Return(k, ok)
  BY <1>1 DEF Return, TypeInv, TypeOK
<1>2. CASE NextProbe(k, ok)
  BY <1>2 DEF NextProbe, TypeInv, TypeOK
<1>3. CASE LastProbe(k, ok)
  BY <1>3 DEF LastProbe, TypeInv, TypeOK
<1> QED BY <1>1, <1>2, <1>3 DEF Finish

\* A step outside the critical sections that touches no shared field.
LEMMA PoolFrame ==
    ASSUME PoolInv, UNCHANGED <<mu, db, live, closeVars>>,
           \A j \in Calls : pc'[j] \in Critical => pc'[j] = pc[j] /\ cur'[j] = cur[j]
    PROVE  Guarded' /\ NoOrphanPool'
BY DEF PoolInv, Guarded, Critical, NoOrphanPool, closeVars

\* The steps of a call that leave its critical section alone.
Outside(k) ==
    \/ Acquire(k) \/ AcquireFail(k) \/ ExecDone(k) \/ RunFail(k)
    \/ GotRows(k) \/ Exhaust(k) \/ MoreQueries(k) \/ RowsFail(k)
    \/ (\E ok \in BOOLEAN : Leave(k, ok)) \/ CloseRows(k)
    \/ Database(k) \/ Expire(k) \/ HangUp(k)

LEMMA OutsidePool ==
    ASSUME PoolInv, NEW k \in Calls, Outside(k)
    PROVE  Guarded' /\ NoOrphanPool'
<1>1. TypeInv
  BY DEF PoolInv
<1>2. CASE AcquireFail(k) \/ ExecDone(k) \/ RunFail(k) \/ Exhaust(k) \/ RowsFail(k)
  <2>1. PICK ok \in BOOLEAN : Finish(k, ok)
    BY <1>2 DEF AcquireFail, ExecDone, RunFail, Exhaust, RowsFail
  <2>2. UNCHANGED <<mu, db, live, closeVars>>
    BY <1>2 DEF AcquireFail, ExecDone, RunFail, Exhaust, RowsFail, poolVars
  <2> QED BY <1>1, <2>1, <2>2, FinishFrame, PoolFrame DEF Critical
<1>3. CASE Acquire(k) \/ GotRows(k) \/ MoreQueries(k) \/ CloseRows(k)
           \/ \E ok \in BOOLEAN : Leave(k, ok)
  <2>1. UNCHANGED <<mu, db, live, closeVars, cur>>
    BY <1>3 DEF Acquire, GotRows, MoreQueries, CloseRows, Leave, poolVars
  <2>2. \A j \in Calls : pc'[j] \in Critical => pc'[j] = pc[j]
    BY <1>1, <1>3 DEF Acquire, GotRows, MoreQueries, CloseRows, Leave, Critical,
       TypeInv, TypeOK
  <2> QED BY <2>1, <2>2, PoolFrame
<1>4. CASE Database(k) \/ Expire(k) \/ HangUp(k)
  BY <1>4, PoolFrame DEF Database, Apply, Refuse, Expire, HangUp, poolVars
<1> QED BY <1>2, <1>3, <1>4 DEF Outside

\* The steps of open().
LEMMA OpenPool ==
    ASSUME PoolInv, NEW k \in Calls,
           \/ Lock(k) \/ Check(k) \/ Create(k) \/ CreateFail(k)
           \/ Opened(k) \/ OpenFailed(k)
    PROVE  Guarded' /\ NoOrphanPool'
<1> USE DEF PoolInv
<1>1. Closer \notin Calls /\ None \notin Calls /\ Closer # None
  BY ServiceAssumption
<1>2. pc[k] \notin {"idle", "done"} => cur[k] \in Conns
  BY DEF TypeInv, Located
<1>3. CASE Lock(k)
  BY <1>1, <1>2, <1>3 DEF Lock, Guarded, NoOrphanPool, TypeInv, TypeOK, Critical, closeVars
<1>4. CASE Check(k)
  BY <1>1, <1>2, <1>4 DEF Check, Guarded, NoOrphanPool, TypeInv, TypeOK, Critical,
     poolVars, closeVars
<1>5. CASE Create(k)
  <2>1. Guarded'
    BY <1>1, <1>2, <1>5 DEF Create, Guarded, TypeInv, TypeOK, Critical, closeVars
  <2>2. NoOrphanPool'
    BY <1>1, <1>2, <1>5 DEF Create, Guarded, NoOrphanPool, TypeInv, TypeOK, Critical, closeVars
  <2> QED BY <2>1, <2>2
<1>6. CASE CreateFail(k)
  BY <1>1, <1>2, <1>6 DEF CreateFail, Guarded, NoOrphanPool, TypeInv, TypeOK, Critical,
     poolVars, closeVars
<1>7. CASE Opened(k)
  BY <1>1, <1>2, <1>7 DEF Opened, Unlock, Guarded, NoOrphanPool, TypeInv, TypeOK,
     Critical, closeVars
<1>8. CASE OpenFailed(k)
  <2>1. /\ pc'[k] \in {"done", "lock"}
        /\ \A j \in Calls \ {k} : pc'[j] = pc[j] /\ cur'[j] = cur[j]
    BY <1>8, FinishFrame DEF OpenFailed
  <2>2. /\ mu[cur[k]] = k
        /\ mu' = [mu EXCEPT ![cur[k]] = None]
        /\ UNCHANGED <<db, cpc, cconn>>
    BY <1>8 DEF OpenFailed, Unlock, Guarded, Critical, closeVars
  <2>3. ASSUME NEW j \in Calls, pc'[j] \in Critical
        PROVE  /\ mu'[cur'[j]] = j
               /\ pc'[j] = "create" => db'[cur'[j]] = None
    <3>1. j # k
      BY <2>1, <2>3 DEF Critical
    <3>2. pc[j] \in Critical /\ cur'[j] = cur[j] /\ pc'[j] = pc[j]
      BY <2>1, <2>3, <3>1
    <3>3. mu[cur[j]] = j /\ (pc[j] = "create" => db[cur[j]] = None)
      BY <3>2 DEF Guarded
    <3> QED BY <1>1, <2>2, <3>1, <3>2, <3>3 DEF TypeInv, TypeOK
  <2>4. cpc' \in {"take", "unlock"} => mu'[cconn'] = Closer
    BY <1>1, <2>2 DEF Guarded, TypeInv, TypeOK
  <2>5. Guarded'
    BY <2>3, <2>4 DEF Guarded, Critical
  <2> QED BY <1>8, <2>5 DEF OpenFailed, NoOrphanPool, closeVars
<1> QED BY <1>3, <1>4, <1>5, <1>6, <1>7, <1>8

\* The steps of Close.
LEMMA ClosePool ==
    ASSUME PoolInv, CloseStart \/ CloseLock \/ CloseStep
    PROVE  Guarded' /\ NoOrphanPool'
<1> USE DEF PoolInv, TypeInv, TypeOK, Located, Guarded, NoOrphanPool, callVars, poolVars
<1>1. Closer \notin Calls /\ None \notin Calls /\ Closer # None
  BY ServiceAssumption
<1>2. CASE CloseStart
  BY <1>2 DEF CloseStart
<1>3. CASE CloseLock
  BY <1>1, <1>3 DEF CloseLock, Critical
<1>4. ASSUME NEW c \in Conns, CloseNext(c) PROVE Guarded' /\ NoOrphanPool'
  BY <1>4 DEF CloseNext
<1>5. CASE CloseTake
  BY <1>1, <1>5 DEF CloseTake
<1>6. CASE CloseUnlock
  BY <1>1, <1>6 DEF CloseUnlock, Critical
<1>7. CASE CloseDB
  BY <1>7 DEF CloseDB
<1>8. CASE CloseEnd
  BY <1>8 DEF CloseEnd
<1> QED BY <1>2, <1>3, <1>4, <1>5, <1>6, <1>7, <1>8 DEF CloseStep

LEMMA StepPool == PoolInv /\ [Next]_vars => PoolInv'
<1> SUFFICES ASSUME PoolInv, [Next]_vars PROVE PoolInv'
  OBVIOUS
<1>1. TypeInv'
  BY StepType DEF PoolInv
<1>2. ASSUME NEW k \in Calls, NEW r \in Requests, Start(k, r) \/ Reject(k, r)
      PROVE  Guarded' /\ NoOrphanPool'
  <2>1. UNCHANGED <<mu, db, live, closeVars>>
    BY <1>2 DEF Start, Reject, poolVars
  <2>2. \A j \in Calls : pc'[j] \in Critical => pc'[j] = pc[j] /\ cur'[j] = cur[j]
    BY <1>2 DEF Start, Reject, Critical, PoolInv, TypeInv, TypeOK
  <2> QED BY <2>1, <2>2, PoolFrame
<1>3. ASSUME NEW k \in Calls, CallNext(k) PROVE Guarded' /\ NoOrphanPool'
  BY <1>3, OutsidePool, OpenPool DEF CallNext, Step, Outside
<1>4. ASSUME CloseStart \/ CloseLock \/ CloseStep PROVE Guarded' /\ NoOrphanPool'
  BY <1>4, ClosePool
<1>5. ASSUME Quiesced \/ UNCHANGED vars PROVE Guarded' /\ NoOrphanPool'
  BY <1>5, PoolFrame DEF Quiesced, vars, callVars, poolVars, closeVars
<1>6. Guarded' /\ NoOrphanPool'
  BY <1>2, <1>3, <1>4, <1>5 DEF Next
<1> QED BY <1>1, <1>6 DEF PoolInv

\* No open pool is ever lost: whatever the order in which any number of first
\* uses and Close meet on a connection, the pool is in c.db or in Close's hand.
THEOREM PoolsNeverOrphaned == Spec => []NoOrphanPool
<1>1. Init => PoolInv
  BY InitType DEF Init, PoolInv, Guarded, Critical, NoOrphanPool
<1>2. PoolInv => NoOrphanPool
  BY DEF PoolInv
<1> QED BY <1>1, <1>2, StepPool, PTL DEF Spec

-----------------------------------------------------------------------------
(* Connections lent by the pools.                                            *)
LentInv == TypeInv /\ LentWhileRunning

\* Nobody takes or gives back a connection: calls that hold one stay where
\* they are with the same pool, and calls that hold none still hold none.
LEMMA LentFrame ==
    ASSUME LentInv, UNCHANGED lent,
           \A j \in Calls :
              \/ pc[j] \notin Holding /\ pc'[j] \notin Holding
              \/ /\ pc[j] \in Holding /\ pc'[j] \in Holding
                 /\ cur'[j] = cur[j] /\ pool'[j] = pool[j]
    PROVE  LentWhileRunning'
BY DEF LentInv, LentWhileRunning

\* One call gives its connection back and no longer runs anything.
LEMMA LentRelease ==
    ASSUME LentInv, NEW k \in Calls, Release(k),
           pc[k] \in Holding, pc'[k] \notin Holding,
           \A j \in Calls \ {k} :
              pc'[j] = pc[j] /\ cur'[j] = cur[j] /\ pool'[j] = pool[j]
    PROVE  LentWhileRunning'
<1> SUFFICES ASSUME NEW c \in Conns, NEW p \in Calls
             PROVE  lent'[c][p] = {j \in Calls : pc'[j] \in Holding /\ cur'[j] = c /\ pool'[j] = p}
  BY DEF LentWhileRunning
<1>1. lent \in [Conns -> [Calls -> SUBSET Calls]]
  BY DEF LentInv, TypeInv, TypeOK
<1>2. lent[c][p] = {j \in Calls : pc[j] \in Holding /\ cur[j] = c /\ pool[j] = p}
  BY DEF LentInv, LentWhileRunning
<1>3. lent'[c][p] = lent[c][p] \ {k}
  <2>1. CASE cur[k] = c /\ pool[k] = p
    BY <1>1, <2>1 DEF Release
  <2>2. CASE ~(cur[k] = c /\ pool[k] = p)
    <3>1. lent'[c][p] = lent[c][p]
      BY <1>1, <2>2 DEF Release
    <3> QED BY <1>2, <2>2, <3>1
  <2> QED BY <2>1, <2>2
<1> QED BY <1>2, <1>3

LEMMA CallLent ==
    ASSUME LentInv, NEW k \in Calls, CallNext(k)
    PROVE  LentWhileRunning'
<1>1. TypeInv
  BY DEF LentInv
<1>2. CASE ExecDone(k) \/ RunFail(k) \/ Exhaust(k) \/ RowsFail(k)
  <2>1. PICK ok \in BOOLEAN : Finish(k, ok)
    BY <1>2 DEF ExecDone, RunFail, Exhaust, RowsFail
  <2>2. Release(k) /\ pc[k] \in Holding
    BY <1>2 DEF ExecDone, RunFail, Exhaust, RowsFail, Holding
  <2> QED BY <1>1, <2>1, <2>2, FinishFrame, LentRelease DEF Holding
<1>3. CASE MoreQueries(k) \/ CloseRows(k)
  <2>1. Release(k) /\ pc[k] \in Holding /\ pc'[k] \notin Holding
    BY <1>1, <1>3 DEF MoreQueries, CloseRows, Holding, TypeInv, TypeOK
  <2>2. \A j \in Calls \ {k} : pc'[j] = pc[j] /\ cur'[j] = cur[j] /\ pool'[j] = pool[j]
    BY <1>1, <1>3 DEF MoreQueries, CloseRows, TypeInv, TypeOK
  <2> QED BY <2>1, <2>2, LentRelease
<1>4. CASE AcquireFail(k) \/ OpenFailed(k)
  <2>1. PICK ok \in BOOLEAN : Finish(k, ok)
    BY <1>4 DEF AcquireFail, OpenFailed
  <2>2. UNCHANGED lent /\ pc[k] \notin Holding
    BY <1>4 DEF AcquireFail, OpenFailed, Holding, poolVars
  <2>3. pc'[k] \notin Holding
    BY <1>1, <2>1, FinishFrame DEF Holding
  <2>4. \A j \in Calls \ {k} : pc'[j] = pc[j] /\ cur'[j] = cur[j] /\ pool'[j] = pool[j]
    BY <1>1, <2>1, FinishFrame
  <2> QED BY <2>2, <2>3, <2>4, LentFrame
<1>5. CASE Acquire(k)
  <2>1. /\ lent \in [Conns -> [Calls -> SUBSET Calls]] /\ pc \in [Calls -> PCs]
        /\ pc[k] = "acquire" /\ pc' = [pc EXCEPT ![k] = "run"]
        /\ lent' = [lent EXCEPT ![cur[k]][pool[k]] = @ \cup {k}]
        /\ UNCHANGED <<cur, pool>>
        /\ \A c \in Conns, p \in Calls :
              lent[c][p] = {j \in Calls : pc[j] \in Holding /\ cur[j] = c /\ pool[j] = p}
    BY <1>5 DEF Acquire, LentInv, TypeInv, TypeOK, LentWhileRunning
  <2> SUFFICES ASSUME NEW c \in Conns, NEW p \in Calls
               PROVE  lent'[c][p] = {j \in Calls : pc'[j] \in Holding /\ cur'[j] = c /\ pool'[j] = p}
    BY DEF LentWhileRunning
  <2>2. CASE cur[k] = c /\ pool[k] = p
    <3>1. lent'[c][p] = lent[c][p] \cup {k}
      BY <2>1, <2>2
    <3> QED BY <2>1, <2>2, <3>1 DEF Holding
  <2>3. CASE ~(cur[k] = c /\ pool[k] = p)
    <3>1. lent'[c][p] = lent[c][p]
      BY <2>1, <2>3
    <3> QED BY <2>1, <2>3, <3>1 DEF Holding
  <2> QED BY <2>2, <2>3
<1>6. CASE Lock(k) \/ Check(k) \/ Create(k) \/ CreateFail(k) \/ Opened(k)
  <2>1. /\ UNCHANGED lent
        /\ pc[k] \notin Holding /\ pc'[k] \notin Holding
        /\ \A j \in Calls \ {k} : pc'[j] = pc[j] /\ cur'[j] = cur[j] /\ pool'[j] = pool[j]
    BY <1>1, <1>6 DEF Lock, Check, Create, CreateFail, Opened, Holding, poolVars,
       TypeInv, TypeOK
  <2> QED BY <2>1, LentFrame
<1>7. CASE GotRows(k) \/ \E ok \in BOOLEAN : Leave(k, ok)
  <2>1. /\ UNCHANGED <<lent, cur, pool>>
        /\ pc[k] \in Holding /\ pc'[k] \in Holding
        /\ \A j \in Calls \ {k} : pc'[j] = pc[j]
    BY <1>1, <1>7 DEF GotRows, Leave, Holding, poolVars, TypeInv, TypeOK
  <2> QED BY <2>1, LentFrame
<1>8. CASE Database(k) \/ Expire(k) \/ HangUp(k)
  BY <1>8, LentFrame DEF Database, Apply, Refuse, Expire, HangUp, poolVars
<1> QED BY <1>2, <1>3, <1>4, <1>5, <1>6, <1>7, <1>8 DEF CallNext, Step

LEMMA StepLent == LentInv /\ [Next]_vars => LentInv'
<1> SUFFICES ASSUME LentInv, [Next]_vars PROVE LentInv'
  OBVIOUS
<1>1. TypeInv'
  BY StepType DEF LentInv
<1>2. ASSUME NEW k \in Calls, NEW r \in Requests, Start(k, r) \/ Reject(k, r)
      PROVE  LentWhileRunning'
  <2>1. /\ UNCHANGED <<lent, pool>>
        /\ pc[k] \notin Holding /\ pc'[k] \notin Holding
        /\ \A j \in Calls \ {k} : pc'[j] = pc[j] /\ cur'[j] = cur[j]
    BY <1>2 DEF Start, Reject, Holding, poolVars, LentInv, TypeInv, TypeOK
  <2> QED BY <2>1, LentFrame
<1>3. ASSUME NEW k \in Calls, CallNext(k) PROVE LentWhileRunning'
  BY <1>3, CallLent
<1>4. ASSUME CloseStart \/ CloseLock \/ CloseStep PROVE LentWhileRunning'
  <2>1. UNCHANGED <<lent, pc, cur, pool>>
    BY <1>4 DEF CloseStart, CloseLock, CloseStep, CloseNext, CloseTake, CloseUnlock,
       CloseDB, CloseEnd, callVars, poolVars
  <2> QED BY <2>1, LentFrame
<1>5. ASSUME Quiesced \/ UNCHANGED vars PROVE LentWhileRunning'
  BY <1>5, LentFrame DEF Quiesced, vars, callVars, poolVars
<1>6. LentWhileRunning'
  BY <1>2, <1>3, <1>4, <1>5 DEF Next
<1> QED BY <1>1, <1>6 DEF LentInv

\* No call leaks a pool connection and none waits for one while it holds one:
\* on every path out of every operation, for every pool size.
THEOREM ConnectionsReturned == Spec => []LentWhileRunning
<1>1. Init => LentInv
  BY InitType DEF Init, LentInv, LentWhileRunning, Holding
<1>2. LentInv => LentWhileRunning
  BY DEF LentInv
<1> QED BY <1>1, <1>2, StepLent, PTL DEF Spec

-----------------------------------------------------------------------------
(* ListConnections.                                                          *)

\* Of one call: rows come from a statement that was carried out, only Query
\* and the metadata calls leave their rows unread, and the loop over the
\* connections has a status for those it has passed.
ListingOf(k) ==
    /\ pc[k] \in {"rows", "leaving"} => stmt[k] = "applied"
    /\ pc[k] = "leaving" => req[k].op # "list"
    /\ (pc[k] \notin {"idle", "done"} /\ req[k].op = "list") =>
          \A c \in Conns : c < cur[k] => summary[k][c] # "none"
    /\ (pc[k] = "done" /\ req[k].op = "list") =>
          reply[k] = "ok" /\ \A c \in Conns : summary[k][c] # "none"

Listing == \A k \in Calls : ListingOf(k)
ListInv == TypeInv /\ Listing

Untouched(j) ==
    /\ pc'[j] = pc[j] /\ cur'[j] = cur[j] /\ req'[j] = req[j] /\ stmt'[j] = stmt[j]
    /\ reply'[j] = reply[j] /\ summary'[j] = summary[j]

LEMMA ListingLocal ==
    ASSUME Listing, NEW k \in Calls, ListingOf(k)', \A j \in Calls \ {k} : Untouched(j)
    PROVE  Listing'
<1>1. ASSUME NEW j \in Calls \ {k} PROVE ListingOf(j)'
  BY <1>1 DEF Listing, ListingOf, Untouched
<1> QED BY <1>1 DEF Listing

LEMMA FinishListing ==
    ASSUME ListInv, NEW k \in Calls, NEW ok \in BOOLEAN, Finish(k, ok),
           pc[k] \notin {"idle", "done"}
    PROVE  Listing'
<1>0. ListingOf(k) /\ NConns \in Nat \ {0} /\ cur[k] \in Conns
  BY ServiceAssumption DEF ListInv, Listing, TypeInv, Located
<1>1. \A j \in Calls \ {k} : Untouched(j)
  BY DEF Finish, Return, NextProbe, LastProbe, Record, Untouched, ListInv, TypeInv, TypeOK
<1>2. CASE Return(k, ok)
  <2>1. pc'[k] = "done" /\ req'[k].op # "list"
    BY <1>2 DEF Return, ListInv, TypeInv, TypeOK
  <2> QED BY <1>1, <2>1, ListingLocal DEF ListInv, ListingOf
<1>3. CASE NextProbe(k, ok)
  <2>1. /\ pc'[k] = "lock" /\ cur'[k] = cur[k] + 1 /\ req'[k] = req[k]
        /\ req[k].op = "list"
    BY <1>3 DEF NextProbe, ListInv, TypeInv, TypeOK
  <2>2. summary'[k][cur[k]] # "none" /\ \A c \in Conns \ {cur[k]} : summary'[k][c] = summary[k][c]
    BY <1>0, <1>3 DEF NextProbe, Record, ListInv, TypeInv, TypeOK
  <2>3. \A c \in Conns : c < cur[k] + 1 => c < cur[k] \/ c = cur[k]
    BY <1>0 DEF Conns
  <2>4. ListingOf(k)'
    BY <1>0, <2>1, <2>2, <2>3 DEF ListingOf
  <2> QED BY <1>1, <2>4, ListingLocal DEF ListInv
<1>4. CASE LastProbe(k, ok)
  <2>1. /\ pc'[k] = "done" /\ reply'[k] = "ok" /\ req[k].op = "list" /\ cur[k] = NConns
    BY <1>4 DEF LastProbe, ListInv, TypeInv, TypeOK
  <2>2. summary'[k][cur[k]] # "none" /\ \A c \in Conns \ {cur[k]} : summary'[k][c] = summary[k][c]
    BY <1>0, <1>4 DEF LastProbe, Record, ListInv, TypeInv, TypeOK
  <2>3. \A c \in Conns : c < cur[k] \/ c = cur[k]
    BY <1>0, <2>1 DEF Conns
  <2>4. ListingOf(k)'
    BY <1>0, <2>1, <2>2, <2>3 DEF ListingOf
  <2> QED BY <1>1, <2>4, ListingLocal DEF ListInv
<1> QED BY <1>2, <1>3, <1>4 DEF Finish

LEMMA CallListing ==
    ASSUME ListInv, NEW k \in Calls, CallNext(k)
    PROVE  Listing'
<1>0. ListingOf(k)
  BY DEF ListInv, Listing
<1>1. CASE OpenFailed(k) \/ AcquireFail(k) \/ ExecDone(k) \/ RunFail(k) \/ Exhaust(k) \/ RowsFail(k)
  <2>1. pc[k] \notin {"idle", "done"} /\ \E ok \in BOOLEAN : Finish(k, ok)
    BY <1>1 DEF OpenFailed, AcquireFail, ExecDone, RunFail, Exhaust, RowsFail
  <2> QED BY <2>1, FinishListing
<1>2. CASE \/ Lock(k) \/ Check(k) \/ Create(k) \/ CreateFail(k) \/ Opened(k)
           \/ Acquire(k) \/ GotRows(k) \/ MoreQueries(k)
           \/ (\E ok \in BOOLEAN : Leave(k, ok)) \/ CloseRows(k)
           \/ Database(k) \/ Expire(k) \/ HangUp(k)
  <2>1. \A j \in Calls \ {k} : Untouched(j)
    BY <1>2 DEF Lock, Check, Create, CreateFail, Opened, Acquire, GotRows, MoreQueries,
       Leave, CloseRows, Database, Apply, Refuse, Expire, HangUp, Untouched,
       ListInv, TypeInv, TypeOK
  <2>2. UNCHANGED <<req, cur, summary>>
    BY <1>2 DEF Lock, Check, Create, CreateFail, Opened, Acquire, GotRows, MoreQueries,
       Leave, CloseRows, Database, Apply, Refuse, Expire, HangUp
  <2>3. \/ /\ pc[k] \notin {"idle", "done"} /\ pc'[k] \in PCs \ {"idle", "done", "rows", "leaving"}
        \/ pc'[k] = "rows" /\ pc[k] = "run" /\ stmt[k] = "applied" /\ stmt'[k] = stmt[k]
        \/ pc'[k] = "leaving" /\ pc[k] = "rows" /\ stmt'[k] = stmt[k] /\ req[k].op # "list"
        \/ pc'[k] = "done" /\ pc[k] = "leaving"
        \/ /\ pc'[k] = pc[k] /\ reply'[k] = reply[k]
           /\ stmt'[k] = stmt[k] \/ stmt[k] # "applied"
    BY <1>2 DEF Lock, Check, Create, CreateFail, Opened, Acquire, GotRows, MoreQueries,
       Leave, CloseRows, Database, Apply, Refuse, Expire, HangUp, PCs,
       ListInv, TypeInv, TypeOK
  <2>4. ListingOf(k)'
    BY <1>0, <2>2, <2>3 DEF ListingOf
  <2> QED BY <2>1, <2>4, ListingLocal DEF ListInv
<1> QED BY <1>1, <1>2 DEF CallNext, Step

LEMMA StepListing == ListInv /\ [Next]_vars => ListInv'
<1> SUFFICES ASSUME ListInv, [Next]_vars PROVE ListInv'
  OBVIOUS
<1>1. TypeInv'
  BY StepType DEF ListInv
<1>2. ASSUME NEW k \in Calls, NEW r \in Requests, Start(k, r) \/ Reject(k, r) PROVE Listing'
  <2>1. \A j \in Calls \ {k} : Untouched(j)
    BY <1>2 DEF Start, Reject, Untouched, ListInv, TypeInv, TypeOK
  <2>2. /\ req'[k] = r
        /\ \/ pc'[k] = "lock" /\ (r.op = "list" => cur'[k] = 1)
           \/ pc'[k] = "done" /\ r.op # "list"
    BY <1>2 DEF Start, Reject, Accepted, ListInv, TypeInv, TypeOK
  <2>3. \A c \in Conns : ~(c < 1)
    BY ServiceAssumption DEF Conns
  <2>4. ListingOf(k)'
    BY <2>2, <2>3 DEF ListingOf
  <2> QED BY <2>1, <2>4, ListingLocal DEF ListInv
<1>3. ASSUME NEW k \in Calls, CallNext(k) PROVE Listing'
  BY <1>3, CallListing
<1>4. ASSUME CloseStart \/ CloseLock \/ CloseStep \/ Quiesced \/ UNCHANGED vars PROVE Listing'
  <2>1. UNCHANGED callVars
    BY <1>4 DEF CloseStart, CloseLock, CloseStep, CloseNext, CloseTake, CloseUnlock,
       CloseDB, CloseEnd, Quiesced, vars
  <2> QED BY <2>1 DEF callVars, ListInv, Listing, ListingOf
<1> QED BY <1>1, <1>2, <1>3, <1>4 DEF ListInv, Next

LEMMA ListInvariant == Spec => []ListInv
<1>1. Init => ListInv
  BY InitType DEF Init, ListInv, Listing, ListingOf
<1> QED BY <1>1, StepListing, PTL DEF Spec

\* ListConnections (service.go 97-120) has a status for every configured
\* connection when it returns, and it always returns one.
THEOREM ListingsComplete == Spec => []ListingComplete
<1>1. ListInv => ListingComplete
  BY DEF ListInv, Listing, ListingOf, ListingComplete
<1> QED BY <1>1, ListInvariant, PTL

\* Only Record writes a status, and it writes ready only when the probe's rows
\* were read to their end.
LEMMA StepReady ==
    ASSUME ListInv, [Next]_vars, NEW k \in Calls, NEW c \in Conns,
           summary[k][c] # "ready", summary'[k][c] = "ready"
    PROVE  cur[k] = c /\ stmt[k] = "applied"
<1>1. PICK j \in Calls : \E ok \in BOOLEAN :
          /\ Finish(j, ok)
          /\ ok => pc[j] = "rows" \/ req[j].op \in {"exec", "ddl"}
  BY ZenonT(40) DEF Next, Start, Reject, CallNext, Step, Lock, Check, Create, CreateFail, Opened,
     OpenFailed, Acquire, AcquireFail, ExecDone, RunFail, GotRows, Exhaust, MoreQueries,
     RowsFail, Leave, CloseRows, Database, Apply, Refuse, Expire, HangUp, CloseStart,
     CloseLock, CloseStep, CloseNext, CloseTake, CloseUnlock, CloseDB, CloseEnd,
     Quiesced, vars, callVars
<1>2. PICK ok \in BOOLEAN : /\ Finish(j, ok)
                            /\ ok => pc[j] = "rows" \/ req[j].op \in {"exec", "ddl"}
  BY <1>1
<1>3. req[j].op = "list" /\ Record(j, ok)
  BY <1>2 DEF Finish, Return, NextProbe, LastProbe
<1>4. j = k /\ cur[k] = c /\ ok
  BY <1>3 DEF Record, ListInv, TypeInv, TypeOK
<1>5. pc[k] = "rows"
  BY <1>2, <1>3, <1>4
<1> QED BY <1>4, <1>5 DEF ListInv, Listing, ListingOf

\* ListConnections calls a connection ready only after that connection's
\* database has carried out the probe (service.go 97-120, dialects' Probe).
THEOREM ReadyEarned == Spec => ReadyIsEarned
<1> DEFINE Earned == \A k \in Calls, c \in Conns :
                        summary[k][c] # "ready" /\ summary'[k][c] = "ready"
                           => cur[k] = c /\ stmt[k] = "applied"
<1>1. ListInv /\ [Next]_vars => [Earned]_vars
  BY StepReady
<1>2. Spec => [][Earned]_vars
  BY <1>1, ListInvariant, PTL DEF Spec
<1> QED BY <1>2 DEF ReadyIsEarned

-----------------------------------------------------------------------------
(* DatabaseService implements CallContract, whatever the databases, the      *)
(* clock and Close do.                                                       *)

\* What the contract sees of a call.
PhaseOf(k)  == IF pc[k] = "idle" THEN "idle"
               ELSE IF pc[k] = "done" THEN "replied" ELSE "pending"
AnswerOf(k) == IF pc[k] = "done" THEN reply[k] ELSE "none"
Changed(k)  == req[k] # None /\ Mutating(req[k]) /\ stmt[k] = "applied"

\* A call that changes data sends one statement, and only if its request was
\* accepted; it has rows only if it is a query, and then the change is made;
\* and it does not say ok before the change.
Before == {"lock", "check", "create", "unlock", "acquire"}
Effects ==
    /\ \A k \in Calls : pc[k] = "idle" => req[k] = None /\ stmt[k] = "none"
    /\ \A k \in Calls : pc[k] # "idle" => req[k] \in Requests
    /\ \A k \in Calls : pc[k] \notin {"idle", "done"} \/ stmt[k] # "none" => Accepted(req[k])
    /\ \A k \in Calls : pc[k] \in Before /\ Mutating(req[k]) => stmt[k] = "none"
    /\ \A k \in Calls : pc[k] \in {"rows", "leaving"} /\ Mutating(req[k])
                           => req[k].op = "query" /\ stmt[k] = "applied"
    /\ \A k \in Calls : pc[k] = "leaving" => reply[k] \in {"ok", "error"}
    /\ \A k \in Calls : pc[k] = "done" /\ reply[k] = "ok" /\ Mutating(req[k])
                           => stmt[k] = "applied"

EffectInv == TypeInv /\ Effects

-----------------------------------------------------------------------------
\* The guards of the code are the rule of the README, but for the queries that
\* write.  Of what they accept, an exec and a ddl change data, a query may, and
\* nothing else does.
LEMMA Guards ==
    ASSUME NEW r \in Requests
    PROVE  /\ Accepted(r) <=> Permitted(r) \/ Slips(r)
           /\ Accepted(r) /\ Mutating(r) => r.op \in {"query", "exec", "ddl"}
           /\ Accepted(r) /\ r.op \in {"exec", "ddl"} => Mutating(r)
BY ServiceAssumption DEF Request, Accepted, Permitted, Slips, Mutating, Conns

\* A step of one call keeps Effects if it keeps it of that call.
EffectsOf(k) ==
    /\ pc[k] = "idle" => req[k] = None /\ stmt[k] = "none"
    /\ pc[k] # "idle" => req[k] \in Requests
    /\ pc[k] \notin {"idle", "done"} \/ stmt[k] # "none" => Accepted(req[k])
    /\ pc[k] \in Before /\ Mutating(req[k]) => stmt[k] = "none"
    /\ pc[k] \in {"rows", "leaving"} /\ Mutating(req[k])
          => req[k].op = "query" /\ stmt[k] = "applied"
    /\ pc[k] = "leaving" => reply[k] \in {"ok", "error"}
    /\ pc[k] = "done" /\ reply[k] = "ok" /\ Mutating(req[k]) => stmt[k] = "applied"

LEMMA Split == Effects <=> \A k \in Calls : EffectsOf(k)
BY DEF Effects, EffectsOf

Same(j) == pc'[j] = pc[j] /\ req'[j] = req[j] /\ stmt'[j] = stmt[j] /\ reply'[j] = reply[j]

LEMMA OneCall ==
    ASSUME Effects, NEW k \in Calls, EffectsOf(k)', \A j \in Calls \ {k} : Same(j)
    PROVE  Effects'
<1>1. ASSUME NEW j \in Calls PROVE EffectsOf(j)'
  <2>1. CASE j = k
    BY <2>1
  <2>2. CASE j # k
    <3>1. EffectsOf(j) /\ Same(j)
      BY <2>2, Split
    <3> QED BY <3>1 DEF EffectsOf, Same, Accepted, Mutating
  <2> QED BY <2>1, <2>2
<1> QED BY <1>1 DEF Effects, EffectsOf

-----------------------------------------------------------------------------
\* What Finish does to its own call, and to no other.
LEMMA FinishEffects ==
    ASSUME EffectInv, NEW k \in Calls, NEW ok \in BOOLEAN, Finish(k, ok),
           pc[k] \notin {"idle", "done"},
           (ok /\ Mutating(req[k])) => stmt[k] = "applied"
    PROVE  Effects'
<1>0. /\ EffectsOf(k) /\ req[k] \in Requests
      /\ Mutating(req[k]) => req[k].op \in {"query", "exec", "ddl"}
  BY Split, Guards DEF EffectInv, EffectsOf
<1>1. CASE Return(k, ok)
  <2>1. \A j \in Calls \ {k} : Same(j)
    BY <1>1 DEF Return, Same, EffectInv, TypeInv, TypeOK
  <2>2. /\ pc'[k] = "done" /\ req'[k] = req[k] /\ stmt'[k] = stmt[k]
        /\ reply'[k] = "ok" => ok
    BY <1>1 DEF Return, EffectInv, TypeInv, TypeOK
  <2>3. EffectsOf(k)'
    BY <1>0, <2>2 DEF EffectsOf, Accepted, Mutating, Before
  <2> QED BY <2>1, <2>3, OneCall DEF EffectInv
<1>2. CASE NextProbe(k, ok)
  <2>1. \A j \in Calls \ {k} : Same(j)
    BY <1>2 DEF NextProbe, Same, EffectInv, TypeInv, TypeOK
  <2>2. pc'[k] = "lock" /\ req'[k] = req[k] /\ stmt'[k] = "none"
    BY <1>2 DEF NextProbe, EffectInv, TypeInv, TypeOK
  <2>3. EffectsOf(k)'
    BY <1>0, <2>2 DEF EffectsOf, Accepted, Mutating, Before
  <2> QED BY <2>1, <2>3, OneCall DEF EffectInv
<1>3. CASE LastProbe(k, ok)
  <2>1. \A j \in Calls \ {k} : Same(j)
    BY <1>3 DEF LastProbe, Same, EffectInv, TypeInv, TypeOK
  <2>2. /\ pc'[k] = "done" /\ req'[k] = req[k] /\ stmt'[k] = stmt[k]
        /\ ~Mutating(req[k])
    BY <1>0, <1>3 DEF LastProbe, EffectInv, TypeInv, TypeOK
  <2>3. EffectsOf(k)'
    BY <1>0, <2>2 DEF EffectsOf, Accepted, Mutating, Before
  <2> QED BY <2>1, <2>3, OneCall DEF EffectInv
<1> QED BY <1>1, <1>2, <1>3 DEF Finish

LEMMA CallEffects ==
    ASSUME EffectInv, NEW k \in Calls, CallNext(k)
    PROVE  Effects'
<1>0. /\ EffectsOf(k)
      /\ pc[k] \notin {"idle", "done"} => Accepted(req[k]) /\ req[k] \in Requests
  BY Split DEF EffectInv, EffectsOf
<1>1. CASE OpenFailed(k) \/ AcquireFail(k) \/ RunFail(k) \/ RowsFail(k)
  <2>1. Finish(k, FALSE) /\ pc[k] \notin {"idle", "done"}
    BY <1>1 DEF OpenFailed, AcquireFail, RunFail, RowsFail
  <2> QED BY <2>1, FinishEffects
<1>2. CASE ExecDone(k) \/ Exhaust(k)
  <2>1. Finish(k, TRUE) /\ pc[k] \notin {"idle", "done"}
    BY <1>2 DEF ExecDone, Exhaust
  <2>2. Mutating(req[k]) => stmt[k] = "applied"
    BY <1>0, <1>2 DEF ExecDone, Exhaust, EffectsOf
  <2> QED BY <2>1, <2>2, FinishEffects
<1>3. CASE Lock(k) \/ Check(k) \/ Create(k) \/ CreateFail(k) \/ Opened(k)
  <2>1. \A j \in Calls \ {k} : Same(j)
    BY <1>3 DEF Lock, Check, Create, CreateFail, Opened, Same, EffectInv, TypeInv, TypeOK
  <2>2. /\ pc[k] \in Before /\ pc'[k] \in Before
        /\ UNCHANGED <<req[k], stmt[k], reply[k]>>
    BY <1>3 DEF Lock, Check, Create, CreateFail, Opened, Before, EffectInv, TypeInv, TypeOK
  <2>3. EffectsOf(k)'
    BY <1>0, <2>2 DEF EffectsOf, Accepted, Mutating, Before
  <2> QED BY <2>1, <2>3, OneCall DEF EffectInv
<1>4. CASE Acquire(k)
  <2>1. \A j \in Calls \ {k} : Same(j)
    BY <1>4 DEF Acquire, Same, EffectInv, TypeInv, TypeOK
  <2>2. pc[k] = "acquire" /\ pc'[k] = "run" /\ stmt'[k] = "sent" /\ req'[k] = req[k]
    BY <1>4 DEF Acquire, EffectInv, TypeInv, TypeOK
  <2>3. EffectsOf(k)'
    BY <1>0, <2>2 DEF EffectsOf, Accepted, Mutating, Before
  <2> QED BY <2>1, <2>3, OneCall DEF EffectInv
<1>5. CASE GotRows(k)
  <2>1. \A j \in Calls \ {k} : Same(j)
    BY <1>5 DEF GotRows, Same, EffectInv, TypeInv, TypeOK
  <2>2. /\ pc[k] = "run" /\ pc'[k] = "rows" /\ stmt'[k] = stmt[k] /\ req'[k] = req[k]
        /\ req[k].op \in {"list", "metadata", "query"}
    BY <1>5 DEF GotRows, EffectInv, TypeInv, TypeOK
  <2>3. Mutating(req[k]) => req[k].op = "query" /\ stmt[k] = "applied"
    BY <1>0, <1>5, <2>2, Guards DEF GotRows
  <2>4. EffectsOf(k)'
    BY <1>0, <2>2, <2>3 DEF EffectsOf, Accepted, Mutating, Before
  <2> QED BY <2>1, <2>4, OneCall DEF EffectInv
<1>6. CASE MoreQueries(k)
  <2>1. \A j \in Calls \ {k} : Same(j)
    BY <1>6 DEF MoreQueries, Same, EffectInv, TypeInv, TypeOK
  <2>2. pc[k] = "rows" /\ pc'[k] = "acquire" /\ stmt'[k] = "none" /\ req'[k] = req[k]
    BY <1>6 DEF MoreQueries, EffectInv, TypeInv, TypeOK
  <2>3. EffectsOf(k)'
    BY <1>0, <2>2 DEF EffectsOf, Accepted, Mutating, Before
  <2> QED BY <2>1, <2>3, OneCall DEF EffectInv
<1>7. CASE \E ok \in BOOLEAN : Leave(k, ok)
  <2>1. \A j \in Calls \ {k} : Same(j)
    BY <1>7 DEF Leave, Same, EffectInv, TypeInv, TypeOK
  <2>2. /\ pc[k] = "rows" /\ pc'[k] = "leaving" /\ reply'[k] \in {"ok", "error"}
        /\ UNCHANGED <<stmt[k], req[k]>>
    BY <1>7 DEF Leave, EffectInv, TypeInv, TypeOK
  <2>3. EffectsOf(k)'
    BY <1>0, <2>2 DEF EffectsOf, Accepted, Mutating, Before
  <2> QED BY <2>1, <2>3, OneCall DEF EffectInv
<1>8. CASE CloseRows(k)
  <2>1. \A j \in Calls \ {k} : Same(j)
    BY <1>8 DEF CloseRows, Same, EffectInv, TypeInv, TypeOK
  <2>2. pc[k] = "leaving" /\ pc'[k] = "done" /\ UNCHANGED <<stmt[k], req[k], reply[k]>>
    BY <1>8 DEF CloseRows, EffectInv, TypeInv, TypeOK
  <2>3. EffectsOf(k)'
    BY <1>0, <2>2 DEF EffectsOf, Accepted, Mutating, Before
  <2> QED BY <2>1, <2>3, OneCall DEF EffectInv
<1>9. CASE Database(k)
  <2>1. \A j \in Calls \ {k} : Same(j)
    BY <1>9 DEF Database, Apply, Refuse, Same, EffectInv, TypeInv, TypeOK
  <2>2. /\ stmt[k] = "sent" /\ stmt'[k] # "none" /\ UNCHANGED <<pc[k], req[k], reply[k]>>
        /\ stmt'[k] = "applied" \/ pc[k] = "run"
    BY <1>9 DEF Database, Apply, Refuse, EffectInv, TypeInv, TypeOK
  <2>3. EffectsOf(k)'
    BY <1>0, <2>2 DEF EffectsOf, Accepted, Mutating, Before
  <2> QED BY <2>1, <2>3, OneCall DEF EffectInv
<1>10. CASE Expire(k) \/ HangUp(k)
  BY <1>10 DEF Expire, HangUp, EffectInv, Effects, Accepted, Mutating
<1> QED BY <1>1, <1>2, <1>3, <1>4, <1>5, <1>6, <1>7, <1>8, <1>9, <1>10 DEF CallNext, Step

LEMMA EnterEffects ==
    ASSUME EffectInv, NEW k \in Calls, NEW r \in Requests, Start(k, r) \/ Reject(k, r)
    PROVE  Effects'
<1>1. \A j \in Calls \ {k} : Same(j)
  BY DEF Start, Reject, Same, EffectInv, TypeInv, TypeOK
<1>2. EffectsOf(k)
  BY Split DEF EffectInv
<1>3. /\ pc[k] = "idle" /\ req'[k] = r /\ stmt'[k] = stmt[k]
      /\ \/ pc'[k] = "lock" /\ Accepted(r)
         \/ pc'[k] = "done" /\ reply'[k] = "error"
  BY DEF Start, Reject, EffectInv, TypeInv, TypeOK
<1>4. EffectsOf(k)'
  BY <1>2, <1>3 DEF EffectsOf, Accepted, Mutating, Before
<1> QED BY <1>1, <1>4, OneCall DEF EffectInv

LEMMA StepEffects == EffectInv /\ [Next]_vars => EffectInv'
<1> SUFFICES ASSUME EffectInv, [Next]_vars PROVE EffectInv'
  OBVIOUS
<1>1. TypeInv'
  BY StepType DEF EffectInv
<1>2. ASSUME NEW k \in Calls, NEW r \in Requests, Start(k, r) \/ Reject(k, r) PROVE Effects'
  BY <1>2, EnterEffects
<1>3. ASSUME NEW k \in Calls, CallNext(k) PROVE Effects'
  BY <1>3, CallEffects
<1>4. ASSUME CloseStart \/ CloseLock \/ CloseStep \/ Quiesced \/ UNCHANGED vars PROVE Effects'
  <2>1. UNCHANGED callVars
    BY <1>4 DEF CloseStart, CloseLock, CloseStep, CloseNext, CloseTake, CloseUnlock,
       CloseDB, CloseEnd, Quiesced, vars
  <2> QED BY <2>1 DEF callVars, EffectInv, Effects, Accepted, Mutating
<1> QED BY <1>1, <1>2, <1>3, <1>4 DEF EffectInv, Next

LEMMA InitEffects == Init => EffectInv
BY InitType DEF Init, EffectInv, Effects, Before

-----------------------------------------------------------------------------
\* The variables of the contract, seen call by call.
LEMMA View ==
    /\ Contract!Init <=> /\ req = [k \in Calls |-> None]
                         /\ [k \in Calls |-> PhaseOf(k)] = [k \in Calls |-> "idle"]
                         /\ {k \in Calls : Changed(k)} = {}
                         /\ [k \in Calls |-> AnswerOf(k)] = [k \in Calls |-> "none"]
    /\ UNCHANGED Contract!vars <=>
          /\ UNCHANGED req
          /\ [k \in Calls |-> PhaseOf(k)]' = [k \in Calls |-> PhaseOf(k)]
          /\ {k \in Calls : Changed(k)}' = {k \in Calls : Changed(k)}
          /\ [k \in Calls |-> AnswerOf(k)]' = [k \in Calls |-> AnswerOf(k)]
BY DEF Contract!Init, Contract!vars, PhaseOf, Changed, AnswerOf

\* A step of one call that the contract does not see.
Hidden(k) ==
    /\ UNCHANGED req
    /\ PhaseOf(k)' = PhaseOf(k)
    /\ AnswerOf(k)' = AnswerOf(k)
    /\ Changed(k)' <=> Changed(k)

LEMMA Unseen ==
    ASSUME NEW k \in Calls, Hidden(k), \A j \in Calls \ {k} : Same(j)
    PROVE  UNCHANGED Contract!vars
<1>1. \A j \in Calls : /\ PhaseOf(j)' = PhaseOf(j) /\ AnswerOf(j)' = AnswerOf(j)
                       /\ Changed(j)' <=> Changed(j)
  BY DEF Hidden, Same, PhaseOf, AnswerOf, Changed, Mutating
<1> QED BY <1>1, View DEF Hidden

\* The answer of a pending call.
LEMMA Answering ==
    ASSUME EffectInv, NEW k \in Calls, \A j \in Calls \ {k} : Same(j), UNCHANGED req,
           pc[k] \notin {"idle", "done"}, pc'[k] = "done", stmt'[k] = stmt[k],
           reply'[k] \in {"ok", "error"},
           (reply'[k] = "ok" /\ Mutating(req[k])) => stmt[k] = "applied"
    PROVE  Contract!Next
<1>1. /\ req[k] \in Requests /\ req[k] # None
      /\ req[k].op \in {"exec", "ddl"} => Mutating(req[k])
  BY Split, Guards, ServiceAssumption DEF EffectInv, EffectsOf
<1>2. /\ PhaseOf(k) = "pending" /\ PhaseOf(k)' = "replied" /\ AnswerOf(k)' = reply'[k]
      /\ Changed(k)' <=> Changed(k)
      /\ \A j \in Calls \ {k} : /\ PhaseOf(j)' = PhaseOf(j) /\ AnswerOf(j)' = AnswerOf(j)
                                /\ Changed(j)' <=> Changed(j)
  BY DEF PhaseOf, AnswerOf, Changed, Same, Mutating
<1>3. /\ [j \in Calls |-> PhaseOf(j)]' = [[j \in Calls |-> PhaseOf(j)] EXCEPT ![k] = "replied"]
      /\ [j \in Calls |-> AnswerOf(j)]' = [[j \in Calls |-> AnswerOf(j)] EXCEPT ![k] = reply'[k]]
      /\ {j \in Calls : Changed(j)}' = {j \in Calls : Changed(j)}
  BY <1>2
<1>4. (reply'[k] = "ok" /\ req[k] \in {r \in Requests : r.op \in {"exec", "ddl"}})
         => k \in {j \in Calls : Changed(j)}
  BY <1>1 DEF Changed
<1>5. \E a \in {"ok", "error"} : Contract!Answer(k, a)
  <2> PICK a \in {"ok", "error"} : reply'[k] = a
    OBVIOUS
  <2> Contract!Answer(k, a)
    BY <1>2, <1>3, <1>4 DEF Contract!Answer, PhaseOf, AnswerOf, Changed
  <2> QED OBVIOUS
<1> QED BY <1>5 DEF Contract!Next

-----------------------------------------------------------------------------
LEMMA FinishSteps ==
    ASSUME EffectInv, NEW k \in Calls, NEW ok \in BOOLEAN, Finish(k, ok),
           pc[k] \notin {"idle", "done"},
           (ok /\ Mutating(req[k])) => stmt[k] = "applied"
    PROVE  [Contract!Next]_Contract!vars
<1>0. /\ req[k] \in Requests /\ Accepted(req[k])
      /\ Mutating(req[k]) => req[k].op \in {"query", "exec", "ddl"}
  BY Split, Guards DEF EffectInv, EffectsOf
<1>1. CASE Return(k, ok)
  <2>1. \A j \in Calls \ {k} : Same(j)
    BY <1>1 DEF Return, Same, EffectInv, TypeInv, TypeOK
  <2>2. /\ pc'[k] = "done" /\ UNCHANGED req /\ stmt'[k] = stmt[k]
        /\ reply'[k] \in {"ok", "error"}
        /\ reply'[k] = "ok" => ok
    BY <1>1 DEF Return, EffectInv, TypeInv, TypeOK
  <2> QED BY <2>1, <2>2, Answering
<1>2. CASE NextProbe(k, ok)
  <2>1. \A j \in Calls \ {k} : Same(j)
    BY <1>2 DEF NextProbe, Same, EffectInv, TypeInv, TypeOK
  <2>2. pc'[k] = "lock" /\ UNCHANGED req /\ ~Mutating(req[k])
    BY <1>0, <1>2 DEF NextProbe, EffectInv, TypeInv, TypeOK
  <2>3. Hidden(k)
    BY <2>2 DEF Hidden, PhaseOf, AnswerOf, Changed, Mutating
  <2> QED BY <2>1, <2>3, Unseen
<1>3. CASE LastProbe(k, ok)
  <2>1. \A j \in Calls \ {k} : Same(j)
    BY <1>3 DEF LastProbe, Same, EffectInv, TypeInv, TypeOK
  <2>2. /\ pc'[k] = "done" /\ UNCHANGED req /\ stmt'[k] = stmt[k]
        /\ reply'[k] = "ok" /\ ~Mutating(req[k])
    BY <1>0, <1>3 DEF LastProbe, EffectInv, TypeInv, TypeOK
  <2> QED BY <2>1, <2>2, Answering
<1> QED BY <1>1, <1>2, <1>3 DEF Finish

\* The change itself: the database carries out the statement of a call.
LEMMA ApplySteps ==
    ASSUME EffectInv, NEW k \in Calls, Apply(k)
    PROVE  [Contract!Next]_Contract!vars
<1>1. \A j \in Calls \ {k} : Same(j)
  BY DEF Apply, Same, EffectInv, TypeInv, TypeOK
<1>2. /\ stmt[k] = "sent" /\ stmt'[k] = "applied"
      /\ UNCHANGED <<req, pc, reply>>
  BY DEF Apply, EffectInv, TypeInv, TypeOK
<1>3. /\ EffectsOf(k) /\ pc[k] # "idle" /\ req[k] \in Requests
      /\ Permitted(req[k]) \/ Slips(req[k])
  BY <1>2, Split, Guards DEF EffectInv, EffectsOf
<1>4. CASE ~Mutating(req[k])
  <2>1. Hidden(k)
    BY <1>2, <1>4 DEF Hidden, PhaseOf, AnswerOf, Changed, Mutating
  <2> QED BY <1>1, <2>1, Unseen
<1>5. CASE Mutating(req[k])
  <2>1. /\ PhaseOf(k) # "idle" /\ AnswerOf(k) # "ok"
        /\ k \notin {j \in Calls : Changed(j)}
    BY <1>2, <1>3, <1>5 DEF PhaseOf, AnswerOf, Changed, EffectsOf
  <2>2. \A j \in Calls : /\ PhaseOf(j)' = PhaseOf(j) /\ AnswerOf(j)' = AnswerOf(j)
                         /\ j # k => (Changed(j)' <=> Changed(j))
    BY <1>1, <1>2 DEF PhaseOf, AnswerOf, Changed, Same, Mutating
  <2>3. Changed(k)'
    BY <1>2, <1>3, <1>5, ServiceAssumption DEF Changed, Mutating
  <2>4. /\ [j \in Calls |-> PhaseOf(j)]' = [j \in Calls |-> PhaseOf(j)]
        /\ [j \in Calls |-> AnswerOf(j)]' = [j \in Calls |-> AnswerOf(j)]
        /\ {j \in Calls : Changed(j)}' = {j \in Calls : Changed(j)} \cup {k}
    BY <2>2, <2>3
  <2>5. Contract!TakeEffect(k)
    BY <1>2, <1>3, <1>5, <2>1, <2>4 DEF Contract!TakeEffect, PhaseOf, AnswerOf, Changed
  <2> QED BY <2>5 DEF Contract!Next
<1> QED BY <1>4, <1>5

\* Every other step of a call answers it or is hidden.
LEMMA CallSteps ==
    ASSUME EffectInv, NEW k \in Calls, CallNext(k)
    PROVE  [Contract!Next]_Contract!vars
<1>0. EffectsOf(k)
  BY Split DEF EffectInv
<1>1. CASE OpenFailed(k) \/ AcquireFail(k) \/ RunFail(k) \/ RowsFail(k)
  <2>1. Finish(k, FALSE) /\ pc[k] \notin {"idle", "done"}
    BY <1>1 DEF OpenFailed, AcquireFail, RunFail, RowsFail
  <2> QED BY <2>1, FinishSteps
<1>2. CASE ExecDone(k) \/ Exhaust(k)
  <2>1. Finish(k, TRUE) /\ pc[k] \notin {"idle", "done"}
    BY <1>2 DEF ExecDone, Exhaust
  <2>2. Mutating(req[k]) => stmt[k] = "applied"
    BY <1>0, <1>2 DEF ExecDone, Exhaust, EffectsOf
  <2> QED BY <2>1, <2>2, FinishSteps
<1>3. CASE \/ Lock(k) \/ Check(k) \/ Create(k) \/ CreateFail(k) \/ Opened(k)
           \/ Acquire(k) \/ GotRows(k) \/ MoreQueries(k) \/ Refuse(k)
           \/ (\E ok \in BOOLEAN : Leave(k, ok)) \/ Expire(k) \/ HangUp(k)
  <2>1. \A j \in Calls \ {k} : Same(j)
    BY <1>3 DEF Lock, Check, Create, CreateFail, Opened, Acquire, GotRows, MoreQueries,
       Refuse, Leave, Expire, HangUp, Same, EffectInv, TypeInv, TypeOK
  <2>2. UNCHANGED req
    BY <1>3 DEF Lock, Check, Create, CreateFail, Opened, Acquire, GotRows, MoreQueries,
       Refuse, Leave, Expire, HangUp
  <2>3. /\ pc[k] = "idle" <=> pc'[k] = "idle"
        /\ pc[k] = "done" <=> pc'[k] = "done"
        /\ pc[k] = "done" => reply'[k] = reply[k]
    BY <1>3 DEF Lock, Check, Create, CreateFail, Opened, Acquire, GotRows, MoreQueries,
       Refuse, Leave, Expire, HangUp, EffectInv, TypeInv, TypeOK
  <2>4. Mutating(req[k]) => (stmt[k] = "applied" <=> stmt'[k] = "applied")
    <3>1. CASE Acquire(k)
      <4>1. pc[k] \in Before /\ stmt'[k] = "sent"
        BY <3>1 DEF Acquire, Before, EffectInv, TypeInv, TypeOK
      <4> QED BY <4>1, <1>0 DEF EffectsOf
    <3>2. CASE MoreQueries(k)
      <4>1. pc[k] = "rows" /\ req[k].op = "metadata"
        BY <3>2 DEF MoreQueries
      <4> QED BY <4>1, <1>0 DEF EffectsOf
    <3>3. CASE Refuse(k)
      BY <3>3 DEF Refuse, EffectInv, TypeInv, TypeOK
    <3>4. CASE UNCHANGED stmt
      BY <3>4
    <3> QED BY <1>3, <3>1, <3>2, <3>3, <3>4
        DEF Lock, Check, Create, CreateFail, Opened, GotRows, Leave, Expire, HangUp
  <2>5. Hidden(k)
    BY <2>2, <2>3, <2>4 DEF Hidden, PhaseOf, AnswerOf, Changed, Mutating
  <2> QED BY <2>1, <2>5, Unseen
<1>4. CASE CloseRows(k)
  <2>1. \A j \in Calls \ {k} : Same(j)
    BY <1>4 DEF CloseRows, Same, EffectInv, TypeInv, TypeOK
  <2>2. pc[k] = "leaving" /\ pc'[k] = "done" /\ UNCHANGED <<req, stmt, reply>>
    BY <1>4 DEF CloseRows, EffectInv, TypeInv, TypeOK
  <2>3. reply[k] \in {"ok", "error"} /\ (Mutating(req[k]) => stmt[k] = "applied")
    BY <1>0, <2>2 DEF EffectsOf
  <2> QED BY <2>1, <2>2, <2>3, Answering
<1>5. CASE Apply(k)
  BY <1>5, ApplySteps
<1> QED BY <1>1, <1>2, <1>3, <1>4, <1>5 DEF CallNext, Step, Database

\* A call enters: it is pending or refused, as the contract permits.
LEMMA EnterSteps ==
    ASSUME EffectInv, NEW k \in Calls, NEW r \in Requests, Start(k, r) \/ Reject(k, r)
    PROVE  Contract!Next
<1>1. \A j \in Calls \ {k} : Same(j)
  BY DEF Start, Reject, Same, EffectInv, TypeInv, TypeOK
<1>2. /\ pc[k] = "idle" /\ req' = [req EXCEPT ![k] = r] /\ UNCHANGED stmt
      /\ req[k] = None /\ stmt[k] = "none" /\ req'[k] = r
  BY DEF Start, Reject, EffectInv, Effects, TypeInv, TypeOK
<1>3. \A j \in Calls \ {k} : PhaseOf(j)' = PhaseOf(j) /\ AnswerOf(j)' = AnswerOf(j)
  BY <1>1 DEF PhaseOf, AnswerOf, Same
<1>4. \A j \in Calls : Changed(j)' <=> Changed(j)
  BY <1>1, <1>2 DEF Changed, Same, Mutating
<1>5. {j \in Calls : Changed(j)}' = {j \in Calls : Changed(j)}
  BY <1>4
<1>6. CASE Start(k, r)
  <2>1. /\ PhaseOf(k) = "idle" /\ PhaseOf(k)' = "pending" /\ AnswerOf(k)' = AnswerOf(k)
        /\ Permitted(r) \/ Slips(r)
    BY <1>2, <1>6, Guards DEF Start, PhaseOf, AnswerOf, EffectInv, TypeInv, TypeOK
  <2>2. /\ [j \in Calls |-> PhaseOf(j)]' = [[j \in Calls |-> PhaseOf(j)] EXCEPT ![k] = "pending"]
        /\ [j \in Calls |-> AnswerOf(j)]' = [j \in Calls |-> AnswerOf(j)]
    BY <1>3, <2>1
  <2>3. Contract!Invoke(k, r)
    BY <1>2, <1>5, <2>1, <2>2 DEF Contract!Invoke, PhaseOf, AnswerOf, Changed
  <2> QED BY <2>3 DEF Contract!Next
<1>7. CASE Reject(k, r)
  <2>1. /\ PhaseOf(k) = "idle" /\ PhaseOf(k)' = "replied" /\ AnswerOf(k)' = "error"
        /\ ~(Permitted(r) \/ Slips(r))
    BY <1>2, <1>7, Guards DEF Reject, PhaseOf, AnswerOf, EffectInv, TypeInv, TypeOK
  <2>2. /\ [j \in Calls |-> PhaseOf(j)]' = [[j \in Calls |-> PhaseOf(j)] EXCEPT ![k] = "replied"]
        /\ [j \in Calls |-> AnswerOf(j)]' = [[j \in Calls |-> AnswerOf(j)] EXCEPT ![k] = "error"]
    BY <1>3, <2>1
  <2>3. Contract!Refused(k, r)
    BY <1>2, <1>5, <2>1, <2>2 DEF Contract!Refused, PhaseOf, AnswerOf, Changed
  <2> QED BY <2>3 DEF Contract!Next
<1> QED BY <1>6, <1>7

LEMMA ServiceSteps == EffectInv /\ [Next]_vars => [Contract!Next]_Contract!vars
<1> SUFFICES ASSUME EffectInv, [Next]_vars PROVE [Contract!Next]_Contract!vars
  OBVIOUS
<1>1. ASSUME NEW k \in Calls, NEW r \in Requests, Start(k, r) \/ Reject(k, r)
      PROVE  [Contract!Next]_Contract!vars
  BY <1>1, EnterSteps
<1>2. ASSUME NEW k \in Calls, CallNext(k) PROVE [Contract!Next]_Contract!vars
  BY <1>2, CallSteps
<1>3. ASSUME CloseStart \/ CloseLock \/ CloseStep \/ Quiesced \/ UNCHANGED vars
      PROVE  UNCHANGED Contract!vars
  <2>1. UNCHANGED callVars
    BY <1>3 DEF CloseStart, CloseLock, CloseStep, CloseNext, CloseTake, CloseUnlock,
       CloseDB, CloseEnd, Quiesced, vars
  <2> QED BY <2>1, View DEF callVars, PhaseOf, AnswerOf, Changed, Mutating
<1> QED BY <1>1, <1>2, <1>3 DEF Next

LEMMA ServiceStarts == Init => Contract!Init
BY View DEF Init, PhaseOf, AnswerOf, Changed

\* service.go keeps the contract of its callers for every configuration: a
\* database is changed only by a statement that the README's rule permits or
\* by a query whose change its first keyword hides, at most once per call and
\* not after its ok, and the ok of Exec and DDL means that it was changed.
THEOREM ServiceImplementsContract == Spec => ImplementsContract
<1>1. Spec => []EffectInv
  BY InitEffects, StepEffects, PTL DEF Spec
<1>2. Spec => Contract!Spec
  BY <1>1, ServiceStarts, ServiceSteps, PTL DEF Spec, Contract!Spec
<1> QED BY <1>2 DEF ImplementsContract

-----------------------------------------------------------------------------
(* The process that runs it                                                  *)

\* A call under way has its client connection; once main is past Shutdown no
\* client connection is left.
Accounted ==
    /\ \A k \in Calls : pc[k] \notin {"idle", "done"} => conn[k] = "open"
    /\ main \in {"shutdown", "waitErr", "deferred"} => serve # "listening"
    /\ main \in {"waitErr", "deferred"} => \A k \in Calls : conn[k] # "open"
    /\ cpc # "idle" => /\ main \in {"deferred", "exited"}
                       /\ \A k \in Calls : conn[k] # "open"

\* What Close has passed is closed, and stays so.
Swept ==
    /\ cpc # "idle" => \A c \in Conns \ todo : db[c] = None /\ live[c] = {}
    /\ cpc \in {"unlock", "shut"} => db[cconn] = None
    /\ cpc = "done" => todo = {}
    /\ exit = "success" => cpc = "done"

ServerInv == ServerTypeOK /\ Accounted /\ Swept
ServiceInv == TypeInv /\ NoOrphanPool

-----------------------------------------------------------------------------
LEMMA ServerSteps == [ServerNext]_allVars => [Next]_vars
BY DEF ServerNext, allVars, AcceptConn, Handle, DropConn, HandlerStep, LateEffect,
   ServeFails, ServeReturns, Signal, SelectErr, SelectDone, TimerFires, Drained,
   ShutdownTimesOut, MainReturns, WaitErrFails, ServiceCloses, Exit, Exited, MainStep,
   Next, CallNext, Database

\* The process only runs the service: every behaviour of the process is one of
\* DatabaseService, so its theorems hold of the server (main.go 22-73).
THEOREM ServerRunsService == ServerSpec => Spec
<1>1. ServerInit => Init
  BY DEF ServerInit
<1> QED BY <1>1, ServerSteps, PTL DEF ServerSpec, Spec

LEMMA ServiceHolds == ServerSpec => []ServiceInv
<1>1. Spec => []TypeInv
  BY InitType, StepType, PTL DEF Spec
<1> QED BY <1>1, ServerRunsService, PoolsNeverOrphaned, PTL DEF ServiceInv

-----------------------------------------------------------------------------
\* A call that is not under way does nothing but, at most, take effect late;
\* and a call moves no other.
LEMMA CallAlone ==
    ASSUME TypeInv, NEW k \in Calls, CallNext(k)
    PROVE  /\ UNCHANGED closeVars
           /\ \A j \in Calls \ {k} : pc'[j] = pc[j]
           /\ pc[k] \in {"idle", "done"} => UNCHANGED <<pc, db, live>>
<1>1. CASE Step(k) \/ Lock(k)
  <2>1. UNCHANGED closeVars /\ pc[k] \notin {"idle", "done"}
    BY <1>1 DEF Step, Lock, Check, Create, CreateFail, Opened, OpenFailed, Acquire,
       AcquireFail, ExecDone, RunFail, GotRows, Exhaust, MoreQueries, RowsFail, Leave,
       CloseRows
  <2>2. \A j \in Calls \ {k} : pc'[j] = pc[j]
    BY <1>1, ZenonT(40) DEF Step, Lock, Check, Create, CreateFail, Opened, OpenFailed, Acquire,
       AcquireFail, ExecDone, RunFail, GotRows, Exhaust, MoreQueries, RowsFail, Leave,
       CloseRows, Finish, Return, NextProbe, LastProbe, TypeInv, TypeOK
  <2> QED BY <2>1, <2>2
<1>2. CASE Database(k) \/ Expire(k) \/ HangUp(k)
  BY <1>2 DEF Database, Apply, Refuse, Expire, HangUp, poolVars
<1> QED BY <1>1, <1>2 DEF CallNext

-----------------------------------------------------------------------------
LEMMA InitServer == ServerInit => ServerInv
<1> SUFFICES ASSUME ServerInit PROVE ServerInv
  OBVIOUS
<1>1. ServerTypeOK
  BY DEF ServerInit, ServerTypeOK
<1>2. Accounted
  <2>1. cpc = "idle" /\ \A k \in Calls : pc[k] = "idle"
    BY DEF ServerInit, Init
  <2> QED BY <2>1 DEF ServerInit, Accounted
<1>3. Swept
  <2>1. cpc = "idle"
    BY DEF ServerInit, Init
  <2> QED BY <2>1 DEF ServerInit, Swept
<1> QED BY <1>1, <1>2, <1>3 DEF ServerInv

LEMMA StepServerType == ServerTypeOK /\ [ServerNext]_allVars => ServerTypeOK'
<1> SUFFICES ASSUME ServerTypeOK, [ServerNext]_allVars PROVE ServerTypeOK'
  OBVIOUS
<1>1. ASSUME NEW k \in Calls, AcceptConn(k) \/ DropConn(k) PROVE ServerTypeOK'
  BY <1>1 DEF AcceptConn, DropConn, ServerTypeOK
<1>2. CASE UNCHANGED serverVars
  BY <1>2 DEF serverVars, ServerTypeOK
<1>3. CASE ServeFails \/ ServeReturns \/ Signal \/ TimerFires
  BY <1>3 DEF ServeFails, ServeReturns, Signal, TimerFires, Running, ServerTypeOK
<1>4. CASE SelectErr \/ SelectDone \/ ShutdownTimesOut \/ MainReturns \/ WaitErrFails \/ Exit
  BY <1>4 DEF SelectErr, SelectDone, ShutdownTimesOut, MainReturns, WaitErrFails, Exit,
     Fatal, ServerTypeOK
<1>5. CASE Drained
  BY <1>5 DEF Drained, ServerTypeOK
<1>6. CASE UNCHANGED allVars
  BY <1>2, <1>6 DEF allVars
<1>7. ASSUME NEW k \in Calls, \/ HandlerStep(k) \/ LateEffect(k)
                              \/ \E r \in Requests : Handle(k, r)
      PROVE  ServerTypeOK'
  BY <1>2, <1>7 DEF HandlerStep, LateEffect, Handle
<1>8. CASE ServiceCloses
  BY <1>2, <1>8 DEF ServiceCloses
<1> QED BY <1>1, <1>3, <1>4, <1>5, <1>6, <1>7, <1>8 DEF ServerNext, MainStep, Exited

\* Every variable of the process keeps its type, and the result of the server
\* goroutine is on the channel only when the goroutine is over (main.go 83-86).
THEOREM ServerTypeCorrect == ServerSpec => []ServerTypeOK
<1>1. ServerInit => ServerTypeOK
  BY InitServer DEF ServerInv
<1> QED BY <1>1, StepServerType, PTL DEF ServerSpec

-----------------------------------------------------------------------------
LEMMA StepAccounted ==
    ASSUME ServerInv, TypeInv, [ServerNext]_allVars
    PROVE  Accounted'
<1> USE DEF ServerInv
<1>1. ASSUME NEW k \in Calls, AcceptConn(k) \/ DropConn(k) PROVE Accounted'
  BY <1>1 DEF AcceptConn, DropConn, Running, ServerTypeOK, Accounted, vars, callVars, closeVars
<1>2. ASSUME NEW k \in Calls, NEW r \in Requests, Handle(k, r) PROVE Accounted'
  <2>1. /\ conn[k] = "open" /\ cpc = "idle" /\ cpc' = cpc /\ UNCHANGED <<main, serve, conn>>
        /\ main \notin {"waitErr", "deferred"}
    BY <1>2 DEF Handle, Start, Reject, Accounted, serverVars, closeVars
  <2>2. \A j \in Calls \ {k} : pc'[j] = pc[j]
    BY <1>2 DEF Handle, Start, Reject, TypeInv, TypeOK
  <2> QED BY <2>1, <2>2 DEF Accounted
<1>3. ASSUME NEW k \in Calls, HandlerStep(k) \/ LateEffect(k) PROVE Accounted'
  <2>1. CallNext(k) /\ UNCHANGED serverVars
    BY <1>3 DEF HandlerStep, LateEffect, CallNext, Database
  <2>2. /\ UNCHANGED <<cpc, main, serve, conn>>
        /\ \A j \in Calls \ {k} : pc'[j] = pc[j]
        /\ pc[k] \in {"idle", "done"} => pc' = pc
    BY <2>1, CallAlone DEF serverVars, closeVars
  <2> QED BY <2>2 DEF Accounted
<1>4. CASE ServeFails \/ ServeReturns \/ Signal \/ TimerFires
  BY <1>4 DEF ServeFails, ServeReturns, Signal, TimerFires, Running, Accounted,
     ServerTypeOK, vars, callVars, closeVars
<1>5. CASE SelectErr \/ SelectDone \/ ShutdownTimesOut \/ WaitErrFails \/ Exit
  BY <1>5 DEF SelectErr, SelectDone, ShutdownTimesOut, WaitErrFails, Exit, Fatal,
     Accounted, ServerTypeOK, vars, callVars, closeVars
<1>6. CASE Drained
  BY <1>6 DEF Drained, Quiet, Accounted, ServerTypeOK, vars, callVars, closeVars
<1>7. CASE MainReturns
  BY <1>7 DEF MainReturns, CloseStart, Accounted, callVars
<1>8. CASE ServiceCloses
  <2>1. UNCHANGED <<pc, main, serve, conn>> /\ main = "deferred"
    BY <1>8 DEF ServiceCloses, CloseLock, CloseStep, CloseNext, CloseTake, CloseUnlock,
       CloseDB, CloseEnd, serverVars, callVars
  <2> QED BY <2>1 DEF Accounted
<1>9. CASE UNCHANGED allVars
  BY <1>9 DEF allVars, vars, serverVars, callVars, closeVars, Accounted
<1> QED BY <1>1, <1>2, <1>3, <1>4, <1>5, <1>6, <1>7, <1>8, <1>9
    DEF ServerNext, MainStep, Exited

\* While Close runs, nothing but Close touches c.db or closes a pool.
LEMMA StepSwept ==
    ASSUME ServerInv, ServiceInv, ServiceInv', [ServerNext]_allVars
    PROVE  Swept'
<1> USE DEF ServerInv, ServiceInv
<1>0. cpc # "idle" => \A k \in Calls : pc[k] \in {"idle", "done"}
  BY DEF Accounted
<1>1. ASSUME UNCHANGED <<db, live, exit>>, UNCHANGED closeVars PROVE Swept'
  BY <1>1 DEF Swept, closeVars
<1>2. ASSUME NEW k \in Calls, CallNext(k), UNCHANGED serverVars PROVE Swept'
  <2>1. CASE pc[k] \in {"idle", "done"}
    BY <1>1, <1>2, <2>1, CallAlone DEF serverVars
  <2>2. CASE pc[k] \notin {"idle", "done"}
    <3>1. cpc = "idle" /\ cpc' = "idle" /\ exit' = exit
      BY <1>0, <1>2, <2>2, CallAlone DEF serverVars, closeVars
    <3> QED BY <3>1 DEF Swept
  <2> QED BY <2>1, <2>2
<1>3. CASE MainReturns
  BY <1>3 DEF MainReturns, CloseStart, Swept, ServerTypeOK
<1>4. CASE ServiceCloses
  <2>0. exit' = exit /\ exit = "none" /\ cpc # "done" /\ cpc # "idle"
    BY <1>4 DEF ServiceCloses, CloseLock, CloseStep, CloseNext, CloseTake, CloseUnlock,
       CloseDB, CloseEnd, serverVars, ServerTypeOK
  <2>1. CASE CloseLock \/ \E c \in Conns : CloseNext(c)
    BY <2>0, <2>1 DEF CloseLock, CloseNext, Swept, poolVars
  <2>2. CASE CloseTake
    BY <2>0, <2>2 DEF CloseTake, Swept, TypeInv, TypeOK, Located
  <2>3. CASE CloseUnlock
    BY <2>0, <2>3 DEF CloseUnlock, Swept
  <2>4. CASE CloseDB
    <3>1. cconn \in Conns /\ db[cconn] = None /\ cpc = "shut" /\ live[cconn] \subseteq Calls
      BY <2>4 DEF CloseDB, Swept, TypeInv, TypeOK, Located
    <3>2. live[cconn] \subseteq {hand}
      BY <3>1, ServiceAssumption DEF NoOrphanPool
    <3>3. live'[cconn] = {} /\ db' = db /\ \A c \in Conns \ {cconn} : live'[c] = live[c]
      BY <2>4, <3>1, <3>2 DEF CloseDB, TypeInv, TypeOK
    <3> QED BY <2>0, <2>4, <3>1, <3>3 DEF CloseDB, Swept
  <2>5. CASE CloseEnd
    BY <2>0, <2>5 DEF CloseEnd, Swept, poolVars
  <2> QED BY <1>4, <2>1, <2>2, <2>3, <2>4, <2>5 DEF ServiceCloses, CloseStep
<1>5. CASE Exit
  BY <1>5 DEF Exit, Swept, vars, poolVars, closeVars
<1>6. CASE SelectErr \/ ShutdownTimesOut \/ WaitErrFails
  BY <1>6 DEF SelectErr, ShutdownTimesOut, WaitErrFails, Fatal, Swept, vars, poolVars, closeVars
<1>7. ASSUME NEW k \in Calls, NEW r \in Requests, Handle(k, r) PROVE Swept'
  BY <1>1, <1>7 DEF Handle, Start, Reject, poolVars, serverVars
<1>8. CASE UNCHANGED vars /\ UNCHANGED exit
  BY <1>1, <1>8 DEF vars, poolVars
<1>9. ASSUME NEW k \in Calls, AcceptConn(k) \/ DropConn(k) PROVE Swept'
  BY <1>8, <1>9 DEF AcceptConn, DropConn
<1>10. CASE ServeFails \/ ServeReturns \/ Signal \/ TimerFires \/ SelectDone \/ Drained
  BY <1>8, <1>10 DEF ServeFails, ServeReturns, Signal, TimerFires, SelectDone, Drained
<1>11. CASE UNCHANGED allVars
  BY <1>8, <1>11 DEF allVars, serverVars
<1> QED BY <1>2, <1>3, <1>4, <1>5, <1>6, <1>7, <1>9, <1>10, <1>11
    DEF ServerNext, MainStep, Exited, HandlerStep, LateEffect, CallNext, Database

LEMMA ServerInvariant == ServerSpec => []ServerInv
<1>1. ServerInv /\ ServiceInv /\ ServiceInv' /\ [ServerNext]_allVars => ServerInv'
  BY StepServerType, StepAccounted, StepSwept DEF ServerInv, ServiceInv
<1> QED BY <1>1, InitServer, ServiceHolds, PTL DEF ServerSpec

\* runHTTPServer returns only after Shutdown, so main's deferred Close never
\* runs beside a tool call, whatever clients, handlers and signals do.
THEOREM CloseMeetsNoCall == ServerSpec => []CloseRunsAlone
<1>1. ServerInv => CloseRunsAlone
  BY DEF ServerInv, Accounted, CloseRunsAlone
<1> QED BY <1>1, ServerInvariant, PTL

\* A process that exits with success (main.go 35-73) has answered every
\* request it began and left no pool open.
THEOREM SuccessIsClean == ServerSpec => []CleanExit
<1>1. ServerInv => CleanExit
  BY DEF ServerInv, Accounted, Swept, CleanExit
<1> QED BY <1>1, ServerInvariant, PTL
=============================================================================
