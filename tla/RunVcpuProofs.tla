---------------------------- MODULE RunVcpuProofs ----------------------------
(***************************************************************************)
(* Safety of the threads of the hypervisor, for any number of vCPUs.       *)
(***************************************************************************)
EXTENDS RunVcpu, FiniteSetTheorems, TLAPS

\* Every step keeps the types.
LEMMA TypeStep ==
  ASSUME TypeOK, [Next]_vars
  PROVE  TypeOK'
<1> USE RunAssumption DEF TypeOK, console, Pc, Alive, OkExit, ErrExit, Mutex, Goto, At, Lock, Unlock, Free, Vcpu
<1>1. CASE UNCHANGED vars
  BY <1>1 DEF vars, console
<1>2. ASSUME NEW v \in Vcpu, HostStep(v) \/ GuestExit(v) PROVE TypeOK'
  <2>1. CASE Top(v)
    BY <2>1 DEF Top
  <2>2. CASE TryMem(v)
    BY <2>2 DEF TryMem
  <2>3. CASE TryNet(v)
    BY <2>3 DEF TryNet
  <2>4. CASE ServeIrq(v)
    BY <2>4 DEF ServeIrq
  <2>5. CASE ServeIdle(v)
    BY <2>5 DEF ServeIdle
  <2>6. CASE ServePanic(v)
    BY <2>6 DEF ServePanic
  <2>7. CASE NetIrqLock(v)
    BY <2>7 DEF NetIrqLock
  <2>8. CASE NetIrqPulse(v)
    BY <2>8 DEF NetIrqPulse
  <2>9. CASE SerialLock(v)
    BY <2>9 DEF SerialLock
  <2>10. CASE SerialWrite(v)
    BY <2>10 DEF SerialWrite, record_exit, FetchAdd, Counter
  <2>11. CASE Io(v)
    BY <2>11 DEF Io, record_exit, FetchAdd, Counter
  <2>12. CASE BlkRead(v)
    BY <2>12 DEF BlkRead, record_exit, FetchAdd, Counter
  <2>13. CASE Hlt(v)
    BY <2>13 DEF Hlt, record_exit, FetchAdd, Counter
  <2>14. CASE Count(v)
    BY <2>14 DEF Count, record_exit_end, FetchAdd, Counter
  <2>15. CASE Other(v)
    BY <2>15 DEF Other
  <2>16. CASE NetMmio(v)
    BY <2>16 DEF NetMmio
  <2>17. CASE NetMmioPoisoned(v)
    BY <2>17 DEF NetMmioPoisoned
  <2>18. CASE NetPrint(v)
    BY <2>18 DEF NetPrint
  <2>19. CASE NetPrinted(v)
    <3>1. metrics' \in [Counter -> Nat]
      BY <2>19 DEF NetPrinted, record_exit, FetchAdd, Counter
    <3>2. pc' \in [Vcpu -> Pc] /\ poisoned' \subseteq Mutex
      BY <2>19 DEF NetPrinted
    <3>3. holder' \in [Mutex -> Vcpu \cup {None}]
      BY <2>19 DEF NetPrinted
    <3> QED BY <2>19, <3>1, <3>2, <3>3 DEF NetPrinted
  <2>20. CASE NetMmioRecord(v)
    BY <2>20 DEF NetMmioRecord, record_exit, FetchAdd, Counter
  <2>21. CASE NetMmioCount(v)
    BY <2>21 DEF NetMmioCount, record_exit_end, FetchAdd, Counter
  <2>22. CASE BlkWrite(v)
    BY <2>22 DEF BlkWrite
  <2>23. CASE BlkWritePoisoned(v)
    BY <2>23 DEF BlkWritePoisoned, record_error, FetchAdd, Counter
  <2>24. CASE BlkWriteDone(v)
    BY <2>24 DEF BlkWriteDone
  <2>34. CASE BlkWritePanic(v)
    BY <2>34 DEF BlkWritePanic
  <2>25. CASE BlkIrqLock(v)
    BY <2>25 DEF BlkIrqLock
  <2>26. CASE BlkIrqPulse(v)
    BY <2>26 DEF BlkIrqPulse, record_error, FetchAdd, Counter
  <2>27. CASE BlkCount(v)
    BY <2>27 DEF BlkCount, record_exit, FetchAdd, Counter
  <2>28. CASE Shutdown(v)
    BY <2>28 DEF Shutdown
  <2>29. CASE Bye(v)
    BY <2>29 DEF Bye
  <2>30. CASE Eagain(v)
    BY <2>30 DEF Eagain
  <2>31. CASE Eintr(v)
    BY <2>31 DEF Eintr
  <2>32. CASE Fatal(v)
    <3>1. metrics' \in [Counter -> Nat]
      BY <2>32 DEF Fatal, record_error, FetchAdd, Counter
    <3> QED BY <2>32, <3>1 DEF Fatal
  <2>33. CASE GuestExit(v)
    <3>1. PICK e \in OkExit \cup ErrExit : RunReturn(v, e)
      BY <2>33 DEF GuestExit
    <3>2. metrics' \in [Counter -> Nat]
      BY <3>1 DEF RunReturn, record_vcpu_exit, FetchAdd, Counter
    <3> QED BY <3>1, <3>2 DEF RunReturn
  <2> QED BY <1>2, <2>1, <2>2, <2>3, <2>4, <2>5, <2>6, <2>7, <2>8, <2>9, <2>10,
             <2>11, <2>12, <2>13, <2>14, <2>15, <2>16, <2>17, <2>18, <2>19,
             <2>20, <2>21, <2>22, <2>23, <2>24, <2>25, <2>26, <2>27, <2>28,
             <2>29, <2>30, <2>31, <2>32, <2>33, <2>34 DEF HostStep
<1>3. CASE Main
  BY <1>3 DEF Main, Spawn, SetHandler, JoinAll
<1>4. CASE CtrlC \/ CloseStdout
  BY <1>4 DEF CtrlC, CloseStdout
<1>5. CASE Terminated
  BY <1>5 DEF Terminated, vars, console
<1> QED BY <1>1, <1>2, <1>3, <1>4, <1>5 DEF Next

\* Every step keeps LocksFollow: what an action locks or releases is what its
\* thread has at the place it goes to.
LEMMA LocksStep ==
  ASSUME TypeOK, LocksFollow, [Next]_vars
  PROVE  LocksFollow'
<1> USE RunAssumption DEF LocksFollow, MemAt, NetAt, IrqAt, OutAt, TypeOK, Mutex, Goto, At, Lock, Unlock, Free, Vcpu
<1>1. CASE UNCHANGED vars
  BY <1>1 DEF vars, console
<1>2. ASSUME NEW v \in Vcpu, HostStep(v) \/ GuestExit(v) PROVE LocksFollow'
  <2>1. CASE Top(v)
    BY <2>1 DEF Top
  <2>2. CASE TryMem(v)
    BY <2>2 DEF TryMem
  <2>3. CASE TryNet(v)
    BY <2>3 DEF TryNet
  <2>4. CASE ServeIrq(v)
    BY <2>4 DEF ServeIrq
  <2>5. CASE ServeIdle(v)
    BY <2>5 DEF ServeIdle
  <2>6. CASE ServePanic(v)
    BY <2>6 DEF ServePanic
  <2>7. CASE NetIrqLock(v)
    BY <2>7 DEF NetIrqLock
  <2>8. CASE NetIrqPulse(v)
    BY <2>8 DEF NetIrqPulse
  <2>9. CASE SerialLock(v)
    <3>1. /\ pc[v] = "handle" /\ pc' = [pc EXCEPT ![v] = "serial"]
          /\ holder["stdout"] = None /\ holder'["stdout"] = v
          /\ \A m \in {"guest_mem", "virtio_net", "vm_fd"} : holder'[m] = holder[m]
      BY <2>9 DEF SerialLock
    <3> QED BY <3>1
  <2>10. CASE SerialWrite(v)
    BY <2>10 DEF SerialWrite
  <2>11. CASE Io(v)
    BY <2>11 DEF Io
  <2>12. CASE BlkRead(v)
    BY <2>12 DEF BlkRead
  <2>13. CASE Hlt(v)
    BY <2>13 DEF Hlt
  <2>14. CASE Count(v)
    BY <2>14 DEF Count
  <2>15. CASE Other(v)
    BY <2>15 DEF Other
  <2>16. CASE NetMmio(v)
    BY <2>16 DEF NetMmio
  <2>17. CASE NetMmioPoisoned(v)
    BY <2>17 DEF NetMmioPoisoned
  <2>18. CASE NetPrint(v)
    BY <2>18 DEF NetPrint
  <2>19. CASE NetPrinted(v)
    BY <2>19 DEF NetPrinted
  <2>20. CASE NetMmioRecord(v)
    BY <2>20 DEF NetMmioRecord
  <2>21. CASE NetMmioCount(v)
    BY <2>21 DEF NetMmioCount
  <2>22. CASE BlkWrite(v)
    BY <2>22 DEF BlkWrite
  <2>23. CASE BlkWritePoisoned(v)
    BY <2>23 DEF BlkWritePoisoned
  <2>24. CASE BlkWriteDone(v)
    BY <2>24 DEF BlkWriteDone
  <2>34. CASE BlkWritePanic(v)
    BY <2>34 DEF BlkWritePanic
  <2>25. CASE BlkIrqLock(v)
    BY <2>25 DEF BlkIrqLock
  <2>26. CASE BlkIrqPulse(v)
    BY <2>26 DEF BlkIrqPulse
  <2>27. CASE BlkCount(v)
    BY <2>27 DEF BlkCount
  <2>28. CASE Shutdown(v)
    BY <2>28 DEF Shutdown
  <2>29. CASE Bye(v)
    BY <2>29 DEF Bye
  <2>30. CASE Eagain(v)
    BY <2>30 DEF Eagain
  <2>31. CASE Eintr(v)
    BY <2>31 DEF Eintr
  <2>32. CASE Fatal(v)
    BY <2>32 DEF Fatal
  <2>33. CASE GuestExit(v)
    BY <2>33 DEF GuestExit, RunReturn
  <2> QED BY <1>2, <2>1, <2>2, <2>3, <2>4, <2>5, <2>6, <2>7, <2>8, <2>9, <2>10,
             <2>11, <2>12, <2>13, <2>14, <2>15, <2>16, <2>17, <2>18, <2>19,
             <2>20, <2>21, <2>22, <2>23, <2>24, <2>25, <2>26, <2>27, <2>28,
             <2>29, <2>30, <2>31, <2>32, <2>33, <2>34 DEF HostStep
<1>3. CASE Main
  BY <1>3 DEF Main, Spawn, SetHandler, JoinAll
<1>4. CASE CtrlC \/ CloseStdout
  BY <1>4 DEF CtrlC, CloseStdout
<1>5. CASE Terminated
  BY <1>5 DEF Terminated, vars, console
<1> QED BY <1>1, <1>2, <1>3, <1>4, <1>5 DEF Next
-----------------------------------------------------------------------------
\* Every variable keeps its type.
THEOREM TypeCorrect == Spec => []TypeOK
<1>1. Init => TypeOK
  <2> SUFFICES ASSUME Init PROVE TypeOK
    OBVIOUS
  <2>1. metrics \in [Counter -> Nat]
    BY DEF Init, MetricsInit
  <2>2. /\ holder \in [Mutex -> Vcpu \cup {None}]
        /\ pc \in [Vcpu -> Pc] /\ exit \in [Vcpu -> OkExit \cup ErrExit]
    BY DEF Init, Pc, OkExit
  <2> QED BY <2>1, <2>2 DEF Init, TypeOK
<1>2. TypeOK /\ [Next]_vars => TypeOK'
  BY TypeStep
<1> QED BY <1>1, <1>2, PTL DEF Spec

\* The mutexes of run_vcpu exclude: each is held exactly where the code has
\* it, also when a panic releases several at once.
THEOREM LocksInvariant == Spec => []LocksFollow
<1>1. Init => LocksFollow
  BY RunAssumption DEF Init, LocksFollow, MemAt, NetAt, IrqAt, OutAt, Mutex, Vcpu
<1>2. TypeOK /\ LocksFollow /\ [Next]_vars => LocksFollow'
  BY LocksStep
<1> QED BY <1>1, <1>2, TypeCorrect, PTL DEF Spec

\* No mutex is taken into the guest, round the loop or into the grave, so
\* nobody waits for a holder that does not come back.
THEOREM HoldersStayInHost == Spec => []HolderInHost
<1>1. TypeOK /\ LocksFollow => HolderInHost
  <2> SUFFICES ASSUME TypeOK, LocksFollow, NEW m \in Mutex, holder[m] # None
               PROVE  pc[holder[m]] \in Alive \ {"top", "run", "handle"}
    BY DEF HolderInHost
  <2>1. holder[m] \in Vcpu
    BY DEF TypeOK
  <2>2. pc[holder[m]] \in MemAt \cup NetAt \cup IrqAt \cup OutAt
    BY <2>1 DEF LocksFollow, Mutex
  <2> QED BY <2>2 DEF MemAt, NetAt, IrqAt, OutAt, Alive
<1> QED BY <1>1, TypeCorrect, LocksInvariant, PTL

\* The threads of run_vcpu never wait for each other in a circle: in any set
\* of threads, the holder of vm_fd or of the standard output waits for
\* nothing, else the holder of virtio_net waits for nobody in the set, else
\* the holder of guest_mem, else nobody in the set is waited for.
THEOREM NoDeadlock == Spec => []NoWaitCycle
<1>1. TypeOK /\ LocksFollow => NoWaitCycle
  <2> SUFFICES ASSUME TypeOK, LocksFollow, NEW S \in (SUBSET Vcpu) \ {{}}
               PROVE  \E v \in S : \A m \in Mutex : WaitsFor(v, m) => holder[m] \notin S
    BY DEF NoWaitCycle
  <2> USE DEF LocksFollow, MemAt, NetAt, IrqAt, OutAt, WaitsFor, At, Mutex
  <2>1. CASE holder["vm_fd"] \in S
    <3>1. pc[holder["vm_fd"]] \in IrqAt
      BY <2>1
    <3> QED BY <2>1, <3>1
  <2>2. CASE holder["stdout"] \in S
    <3>1. pc[holder["stdout"]] \in OutAt
      BY <2>2
    <3> QED BY <2>2, <3>1
  <2>3. CASE /\ holder["vm_fd"] \notin S /\ holder["stdout"] \notin S
             /\ holder["virtio_net"] \in S
    <3>1. pc[holder["virtio_net"]] \in NetAt
      BY <2>3
    <3> QED BY <2>3, <3>1
  <2>4. CASE /\ holder["vm_fd"] \notin S /\ holder["stdout"] \notin S
             /\ holder["virtio_net"] \notin S /\ holder["guest_mem"] \in S
    <3>1. pc[holder["guest_mem"]] \in MemAt
      BY <2>4
    <3> QED BY <2>4, <3>1
  <2>5. CASE \A m \in Mutex : holder[m] \notin S
    <3>1. PICK v \in S : TRUE
      OBVIOUS
    <3> QED BY <2>5, <3>1
  <2> QED BY <2>1, <2>2, <2>3, <2>4, <2>5
<1> QED BY <1>1, TypeCorrect, LocksInvariant, PTL
-----------------------------------------------------------------------------
\* The threads with a kind to record are finitely many.
LEMMA UncountedFinite ==
  ASSUME NEW U \in SUBSET Vcpu
  PROVE  /\ IsFiniteSet(U) /\ Cardinality(U) \in Nat
         /\ \A T \in SUBSET U : Cardinality(T) <= Cardinality(U)
         /\ \A v \in U : Cardinality(U \ {v}) = Cardinality(U) - 1
         /\ \A v \in Vcpu : Cardinality(U \cup {v}) <= Cardinality(U) + 1
<1>1. IsFiniteSet(Vcpu)
  BY RunAssumption, FS_Interval DEF Vcpu
<1>2. IsFiniteSet(U)
  BY <1>1, FS_Subset
<1>3. Cardinality(U) \in Nat
  BY <1>2, FS_CardinalityType
<1>4. \A T \in SUBSET U : Cardinality(T) <= Cardinality(U)
  BY <1>2, FS_Subset
<1>5. \A v \in U : Cardinality(U \ {v}) = Cardinality(U) - 1
  BY <1>2, FS_RemoveElement
<1>6. ASSUME NEW v \in Vcpu
      PROVE  Cardinality(U \cup {v}) <= Cardinality(U) + 1
  <2>1. CASE v \in U
    <3>1. U \cup {v} = U
      BY <2>1
    <3>2. Cardinality(U \cup {v}) = Cardinality(U)
      BY <3>1, Zenon
    <3> QED BY <1>3, <3>2
  <2>2. CASE v \notin U
    <3>1. Cardinality(U \cup {v}) = Cardinality(U) + 1
      BY <1>2, <2>2, FS_AddElement, Zenon
    <3> QED BY <1>3, <3>1
  <2> QED BY <2>1, <2>2
<1> QED BY <1>2, <1>3, <1>4, <1>5, <1>6

\* Every step keeps ExitsCover.  A step records nothing, an exit, a kind or
\* the second exit of record_*_exit; only the first adds to Uncounted, and a
\* kind leaves it.
LEMMA CoverStep ==
  ASSUME TypeOK, ExitsCover, [Next]_vars
  PROVE  ExitsCover'
<1> DEFINE Quiet == /\ Uncounted' \subseteq Uncounted
                    /\ UNCHANGED metrics \/ FetchAdd("errors")
           Exit(v) == /\ Uncounted' \subseteq Uncounted \cup {v}
                      /\ FetchAdd("vcpu_exits")
           Kind(v) == /\ v \in Uncounted /\ Uncounted' = Uncounted \ {v}
                      /\ \E k \in {"io_exits", "mmio_exits", "hlt_exits"} : FetchAdd(k)
           Second == Uncounted' \subseteq Uncounted /\ FetchAdd("vcpu_exits")
<1>1. Quiet => ExitsCover'
  <2> SUFFICES ASSUME Quiet PROVE ExitsCover'
    OBVIOUS
  <2>1. Cardinality(Uncounted') <= Cardinality(Uncounted) /\ Cardinality(Uncounted') \in Nat
    BY UncountedFinite, Uncounted \in SUBSET Vcpu, Uncounted' \in SUBSET Vcpu DEF Uncounted
  <2>2. Cardinality(Uncounted) \in Nat
    BY UncountedFinite, Uncounted \in SUBSET Vcpu DEF Uncounted
  <2> QED BY <2>1, <2>2 DEF ExitsCover, FetchAdd, Counter, TypeOK
<1>2. ASSUME NEW v \in Vcpu, Exit(v)
      PROVE  ExitsCover'
  <2>1. Cardinality(Uncounted') <= Cardinality(Uncounted \cup {v})
    BY <1>2, UncountedFinite, Uncounted \cup {v} \in SUBSET Vcpu DEF Uncounted
  <2>2. Cardinality(Uncounted \cup {v}) <= Cardinality(Uncounted) + 1
    BY UncountedFinite, Uncounted \in SUBSET Vcpu DEF Uncounted
  <2>3. /\ Cardinality(Uncounted) \in Nat /\ Cardinality(Uncounted') \in Nat
        /\ Cardinality(Uncounted \cup {v}) \in Nat
    BY UncountedFinite, Uncounted \in SUBSET Vcpu, Uncounted' \in SUBSET Vcpu,
       Uncounted \cup {v} \in SUBSET Vcpu DEF Uncounted
  <2> QED BY <1>2, <2>1, <2>2, <2>3 DEF ExitsCover, FetchAdd, Counter, TypeOK
<1>3. ASSUME NEW v \in Vcpu, Kind(v)
      PROVE  ExitsCover'
  <2>1. /\ Cardinality(Uncounted') = Cardinality(Uncounted) - 1
        /\ Cardinality(Uncounted) \in Nat /\ Cardinality(Uncounted') \in Nat
    BY <1>3, UncountedFinite, Uncounted \in SUBSET Vcpu, Uncounted' \in SUBSET Vcpu
       DEF Uncounted
  <2> QED BY <1>3, <2>1 DEF ExitsCover, FetchAdd, Counter, TypeOK
<1>4. ASSUME Second
      PROVE  ExitsCover'
  <2>1. /\ Cardinality(Uncounted') <= Cardinality(Uncounted)
        /\ Cardinality(Uncounted) \in Nat /\ Cardinality(Uncounted') \in Nat
    BY <1>4, UncountedFinite, Uncounted \in SUBSET Vcpu, Uncounted' \in SUBSET Vcpu
       DEF Uncounted
  <2> QED BY <1>4, <2>1 DEF ExitsCover, FetchAdd, Counter, TypeOK
<1> USE DEF Uncounted, TypeOK, Goto, At, OkExit, ErrExit, console
<1>5. CASE UNCHANGED vars
  <2>1. Quiet
    BY <1>5 DEF vars
  <2> QED BY <1>1, <2>1
<1>6. ASSUME NEW v \in Vcpu, HostStep(v)
      PROVE  Quiet \/ Kind(v) \/ Second
  <2>1. CASE \/ Top(v) \/ TryMem(v) \/ TryNet(v) \/ ServeIrq(v) \/ ServeIdle(v)
             \/ ServePanic(v) \/ NetIrqLock(v) \/ NetIrqPulse(v)
    BY <2>1 DEF Top, TryMem, TryNet, ServeIrq, ServeIdle, ServePanic, NetIrqLock,
                NetIrqPulse
  <2>2. CASE \/ SerialLock(v) \/ Other(v) \/ NetMmio(v) \/ NetMmioPoisoned(v)
             \/ NetPrint(v) \/ BlkWrite(v) \/ BlkWriteDone(v)
             \/ BlkWritePanic(v) \/ BlkIrqLock(v)
    BY <2>2 DEF SerialLock, Other, NetMmio, NetMmioPoisoned, NetPrint, BlkWrite,
                BlkWriteDone, BlkWritePanic, BlkIrqLock
  <2>3. CASE Shutdown(v) \/ Bye(v) \/ Eagain(v) \/ Eintr(v)
    BY <2>3 DEF Shutdown, Bye, Eagain, Eintr
  <2>4. CASE Fatal(v)
    BY <2>4 DEF Fatal, record_error
  <2>5. CASE BlkWritePoisoned(v)
    BY <2>5 DEF BlkWritePoisoned, record_error
  <2>6. CASE BlkIrqPulse(v)
    BY <2>6 DEF BlkIrqPulse, record_error
  <2>7. CASE SerialWrite(v) \/ Io(v) \/ BlkRead(v) \/ NetMmioRecord(v) \/ BlkCount(v)
    BY <2>7 DEF SerialWrite, Io, BlkRead, NetMmioRecord, BlkCount, record_exit
  <2>8. CASE Hlt(v)
    BY <2>8 DEF Hlt, record_exit
  <2>9. CASE NetPrinted(v)
    BY <2>9 DEF NetPrinted, record_exit
  <2>10. CASE Count(v) \/ NetMmioCount(v)
    BY <2>10 DEF Count, NetMmioCount, record_exit_end
  <2> QED BY <1>6, <2>1, <2>2, <2>3, <2>4, <2>5, <2>6, <2>7, <2>8, <2>9, <2>10
          DEF HostStep
<1>7. ASSUME NEW v \in Vcpu, GuestExit(v)
      PROVE  Quiet \/ Exit(v)
  BY <1>7 DEF GuestExit, RunReturn, record_vcpu_exit
<1>8. CASE Main \/ CtrlC \/ CloseStdout \/ Terminated
  <2>1. Quiet
    BY <1>8 DEF Main, Spawn, SetHandler, JoinAll, CtrlC, CloseStdout, Terminated, vars
  <2> QED BY <1>1, <2>1
<1> HIDE DEF Quiet, Exit, Kind, Second, Uncounted
<1> QED BY <1>1, <1>2, <1>3, <1>4, <1>5, <1>6, <1>7, <1>8 DEF Next

\* An exit is on record for every kind on record and for every kind that is
\* still to come.
THEOREM CoverInvariant == Spec => []ExitsCover
<1>1. Init => ExitsCover
  <2> SUFFICES ASSUME Init PROVE ExitsCover
    OBVIOUS
  <2>1. Uncounted = {}
    BY DEF Init, Uncounted, OkExit
  <2>2. Cardinality(Uncounted) = 0
    BY <2>1, FS_EmptySet
  <2> QED BY <2>2 DEF Init, MetricsInit, ExitsCover, Counter
<1>2. TypeOK /\ ExitsCover /\ [Next]_vars => ExitsCover'
  BY CoverStep
<1> QED BY <1>1, <1>2, TypeCorrect, PTL DEF Spec

\* A reader of the counters never finds more exits of a kind than exits:
\* RunReturn records the exit before its handler records the kind.
THEOREM KindsCovered == Spec => []KindsWithinExits
<1>1. TypeOK /\ ExitsCover => KindsWithinExits
  <2> SUFFICES ASSUME TypeOK, ExitsCover PROVE KindsWithinExits
    OBVIOUS
  <2>1. Cardinality(Uncounted) \in Nat
    BY UncountedFinite, Uncounted \in SUBSET Vcpu DEF Uncounted
  <2> QED BY <2>1 DEF TypeOK, ExitsCover, KindsWithinExits, Counter
<1> QED BY <1>1, TypeCorrect, CoverInvariant, PTL
=============================================================================
