---------------------------- MODULE RelayProofs -----------------------------
(***************************************************************************)
(* Theorems about the relay for any number of workers, rooms, addresses and *)
(* shards, any caps and any clock.                                          *)
(***************************************************************************)
EXTENDS RelayCounts, RelayTypes

\* The rest of the sweeping tasks' locals.
SweepOK ==
  /\ pc \in [Procs -> WorkerPC \cup CleanerPC]
  /\ idx \in [Procs -> 0 .. NumShards - 1]
  /\ owed \in [Procs -> SUBSET Rooms]
  /\ swept \in SUBSET (Rooms \X Addrs)

\* The sweep registers idx, owed and swept keep their types.
LEMMA SweepStep ==
  ASSUME IInv, [Next]_vars
  PROVE  SweepOK'
  <1>0. SweepOK
    BY DEF IInv, TypeOK, SweepOK
  <1>1. ASSUME NEW w \in Workers, Working(w) PROVE SweepOK'
    <2>1. PICK l \in WorkerPC : Move(w, l)
      BY <1>1, WorkingMove
    <2> QED BY <1>0, <2>1, Zenon DEF SweepOK, Move, sweepVars
  <1>2. ASSUME NEW p \in Procs, SweepShard(p) \/ SubtractEvicted(p) PROVE SweepOK'
    <2>1. /\ swept' = swept
          /\ pc' = pc \/ \E l \in WorkerPC \cup CleanerPC : pc' = [pc EXCEPT ![p] = l]
      BY <1>2 DEF SweepShard, SubtractEvicted, AfterSweep, Goto, WorkerPC, CleanerPC
    <2>2. \/ idx' = idx \/ idx' = [idx EXCEPT ![p] = 0]
          \/ idx' = [idx EXCEPT ![p] = @ + 1] /\ idx[p] + 1 # NumShards
      BY <1>2 DEF SweepShard, SubtractEvicted
    <2>3. idx' \in [Procs -> 0 .. NumShards - 1]
      <3>1. idx[p] + 1 # NumShards => idx[p] + 1 \in 0 .. NumShards - 1
        BY <1>0, RelayAssumption DEF SweepOK
      <3>2. 0 \in 0 .. NumShards - 1
        BY RelayAssumption
      <3> QED BY <1>0, <2>2, <3>1, <3>2 DEF SweepOK
    <2>4. \E S \in SUBSET Rooms : owed' = [owed EXCEPT ![p] = S]
      <3>1. TotalEvicted(p) \in SUBSET Rooms
        BY <1>0 DEF SweepOK, TotalEvicted, Evicted, ShardRooms
      <3> QED BY <1>2, <3>1 DEF SweepShard, SubtractEvicted
    <2> QED BY <1>0, <2>1, <2>3, <2>4 DEF SweepOK
  <1>3. CASE SweepPendingShard
    <2> DEFINE i == idx[Cleaner]
    <2>1. /\ owed' = owed
          /\ swept' = swept \cup StaleKeys(i, at[Cleaner])
          /\ pc' = pc \/ pc' = [pc EXCEPT ![Cleaner] = "pendSub"]
          /\ \/ idx' = [idx EXCEPT ![Cleaner] = 0]
             \/ idx' = [idx EXCEPT ![Cleaner] = i + 1] /\ i + 1 # NumShards
      BY <1>3 DEF SweepPendingShard, Goto
    <2>2. idx' \in [Procs -> 0 .. NumShards - 1]
      <3>1. i + 1 # NumShards => i + 1 \in 0 .. NumShards - 1
        BY <1>0, RelayAssumption DEF SweepOK, Procs
      <3>2. 0 \in 0 .. NumShards - 1
        BY RelayAssumption
      <3> HIDE DEF i
      <3> QED BY <1>0, <2>1, <3>1, <3>2 DEF SweepOK
    <2>3. StaleKeys(i, at[Cleaner]) \in SUBSET (Rooms \X Addrs)
      BY DEF StaleKeys
    <2> QED BY <1>0, <2>1, <2>2, <2>3 DEF SweepOK, CleanerPC
  <1>4. CASE RoomTick \/ SubtractPending \/ SubtractPendingIp \/ Tick \/ UNCHANGED vars
    <2>1. /\ UNCHANGED <<owed, idx>> /\ swept' \subseteq swept
          /\ pc' = pc \/ \E l \in CleanerPC : pc' = [pc EXCEPT ![Cleaner] = l]
      BY <1>4 DEF RoomTick, SubtractPending, SubtractPendingIp, Tick, vars, sweepVars, Goto,
                  CleanerPC
    <2> QED BY <1>0, <2>1 DEF SweepOK
  <1> QED BY <1>1, <1>2, <1>3, <1>4, NextCases

RestOK ==
  /\ MapsOK /\ LocalsOK /\ now \in Nat
  /\ issued \in Seq(Rooms \X Addrs)
  /\ targets \in [Workers -> SUBSET Addrs]

\* TypeOK is preserved by every step.
LEMMA TypeStep ==
  ASSUME IInv, [Next]_vars
  PROVE  TypeOK'
  <1>0. RestOK /\ at \in [Procs -> Nat]
    BY DEF IInv, TypeOK, RestOK, MapsOK, LocalsOK
  <1>1. ASSUME NEW w \in Workers, Working(w) PROVE RestOK'
    BY <1>0, <1>1, MapsStep, LocalsStep DEF RestOK
  <1>2. ASSUME NEW p \in Procs, SweepShard(p) PROVE RestOK'
    <2>1. /\ UNCHANGED <<now, issued, targets, req, arc, at, pendVars>>
          /\ evict_stale_rooms(idx[p], at[p])
      BY <1>2 DEF SweepShard
    <2>2. at[p] \in Nat
      BY <1>0
    <2> QED BY <1>0, <2>1, <2>2, EvictTypes DEF RestOK, MapsOK, LocalsOK, pendVars
  <1>3. ASSUME NEW p \in Procs, SubtractEvicted(p) PROVE RestOK'
    <2>1. /\ UNCHANGED <<now, issued, targets, req, arc, rooms, entries, ip_counts, pendVars>>
          /\ at' \in {at, [at EXCEPT ![p] = now]}
      BY <1>3 DEF SubtractEvicted
    <2> QED BY <1>0, <2>1, Zenon DEF RestOK, MapsOK, LocalsOK, pendVars
  <1>4. ASSUME SweepPendingShard PROVE RestOK'
    <2> DEFINE S == StaleKeys(idx[Cleaner], at[Cleaner])
    <2>1. /\ UNCHANGED <<now, issued, targets, req, arc, at, rooms, entries, ip_counts, pending_ip>>
          /\ pending_regs' = [r \in Rooms |-> [a \in Addrs |->
                   IF <<r, a>> \in S THEN NoPending ELSE pending_regs[r][a]]]
      BY <1>4 DEF SweepPendingShard, roomVars
    <2> HIDE DEF S
    <2>2. pending_regs' \in [Rooms -> [Addrs -> PendingReg]]
      <3>1. NoPending \in PendingReg
        BY DEF NoPending, PendingReg
      <3> QED BY <1>0, <2>1, <3>1 DEF RestOK, MapsOK
    <2> QED BY <1>0, <2>1, <2>2 DEF RestOK, MapsOK, LocalsOK
  <1>5. ASSUME SubtractPendingIp PROVE RestOK'
    <2>1. UNCHANGED <<now, issued, targets, req, arc, rooms, entries, ip_counts, pending_regs>>
      BY <1>5 DEF SubtractPendingIp, roomVars
    <2>2. at' \in {at, [at EXCEPT ![Cleaner] = 0]}
      BY <1>5 DEF SubtractPendingIp
    <2>3. pending_ip' \in [IPs -> Nat]
      BY <1>0, <1>5 DEF SubtractPendingIp, remove_pending_ip, RestOK, MapsOK
    <2> QED BY <1>0, <2>1, <2>2, <2>3 DEF RestOK, MapsOK, LocalsOK
  <1>6. ASSUME RoomTick \/ SubtractPending \/ Tick \/ UNCHANGED vars PROVE RestOK'
    <2>1. /\ UNCHANGED <<issued, targets, req, arc, rooms, entries, ip_counts,
                         pending_regs, pending_ip>>
          /\ now' \in {now, now + 1} /\ at' \in {at, [at EXCEPT ![Cleaner] = now]}
      BY <1>6 DEF RoomTick, SubtractPending, Tick, vars, roomVars, pendVars
    <2> QED BY <1>0, <2>1 DEF RestOK, MapsOK, LocalsOK
  <1>7. RestOK'
    BY <1>1, <1>2, <1>3, <1>4, <1>5, <1>6, NextCases
  <1>8. RoomCount' /\ PendingCount' /\ SweepOK'
    BY RoomCountStep, PendingCountStep, SweepStep
  <1>9. total_room_count' \in Nat /\ pending_total' \in Nat
    \* because they count
    <2>1. /\ LiveRooms' \in SUBSET Rooms /\ OwedRooms' \in SUBSET (Procs \X Rooms)
          /\ PendingKeys' \in SUBSET (Rooms \X Addrs) /\ swept' \in SUBSET (Rooms \X Addrs)
      BY <1>8 DEF SweepOK, LiveRooms, OwedRooms, PendingKeys
    <2>2. /\ IsFiniteSet(Rooms) /\ IsFiniteSet(Procs \X Rooms)
          /\ IsFiniteSet(Rooms \X Addrs)
      BY RelayAssumption, RoomAssumption, FS_Singleton, FS_Union, FS_Product, Zenon DEF Procs
    <2>3. /\ Cardinality(LiveRooms') \in Nat /\ Cardinality(OwedRooms') \in Nat
          /\ Cardinality(PendingKeys') \in Nat /\ Cardinality(swept') \in Nat
      BY <2>1, <2>2, FS_Subset, FS_CardinalityType
    <2> QED BY <1>8, <2>3 DEF RoomCount, PendingCount
  <1> QED BY <1>7, <1>8, <1>9 DEF TypeOK, RestOK, MapsOK, LocalsOK, SweepOK

----------------------------------------------------------------------------
(* The theorems.                                                            *)

\* The initial state satisfies the inductive invariant.
LEMMA InitIInv == Init => IInv
  <1> SUFFICES ASSUME Init PROVE IInv
    OBVIOUS
  <1>1. MapsOK
    BY EmptyEntryType DEF Init, MapsOK, NoPending, PendingReg, NoEntry
  <1>2. LocalsOK /\ SweepOK
    BY RelayAssumption DEF Init, LocalsOK, SweepOK, Procs, WorkerPC, CleanerPC
  <1>3. /\ now \in Nat /\ issued \in Seq(Rooms \X Addrs) /\ total_room_count \in Nat
        /\ targets \in [Workers -> SUBSET Addrs] /\ pending_total \in Nat
    BY DEF Init
  <1>4. TypeOK
    BY <1>1, <1>2, <1>3 DEF TypeOK, MapsOK, LocalsOK, SweepOK
  <1>5. Control /\ Exclusion
    BY RelayAssumption
       DEF Init, Control, Exclusion, Procs, WorkerPC, CleanerPC, HoldsShard, HoldsPendingShard
  <1>6. LiveRooms = {} /\ OwedRooms = {} /\ PendingKeys = {} /\ swept = {}
    BY DEF Init, LiveRooms, OwedRooms, PendingKeys, NoEntry
  <1>7. \A ip \in IPs : OfIp(PendingKeys, ip) = {} /\ OfIp(swept, ip) = {}
    BY <1>6 DEF OfIp
  <1>8. Cardinality({}) = 0
    BY FS_EmptySet
  <1>9. total_room_count = 0 /\ pending_total = 0 /\ \A ip \in IPs : pending_ip[ip] = 0
    BY DEF Init
  <1>10. RoomCount /\ PendingCount
    BY <1>6, <1>7, <1>8, <1>9 DEF RoomCount, PendingCount
  <1> QED BY <1>4, <1>5, <1>10 DEF IInv

\* ... and every step preserves it.
LEMMA IInvStep == IInv /\ [Next]_vars => IInv'
  BY ControlStep, ExclusionStep, RoomCountStep, PendingCountStep, TypeStep DEF IInv

\* Every variable keeps its type, for every value of the constants: the relay's
\* fetch_sub and saturating_sub never take a counter below zero.
THEOREM TypeCorrect == Spec => []TypeOK
  <1>1. IInv => TypeOK
    BY DEF IInv
  <1> QED BY <1>1, InitIInv, IInvStep, PTL DEF Spec

\* total_room_count never drifts from the rooms in the shards by more than the
\* evictions a running sweep has yet to subtract.
THEOREM RoomCountCorrect == Spec => []RoomCount
  <1>1. IInv => RoomCount
    BY DEF IInv
  <1> QED BY <1>1, InitIInv, IInvStep, PTL DEF Spec

\* pending_total and the per-IP pending counts never drift from the pending
\* store by more than the keys a running cleanup has yet to subtract.
THEOREM PendingCountCorrect == Spec => []PendingCount
  <1>1. IInv => PendingCount
    BY DEF IInv
  <1> QED BY <1>1, InitIInv, IInvStep, PTL DEF Spec
=============================================================================
