---------------------------- MODULE RelayCounts -----------------------------
(***************************************************************************)
(* The proofs that the steps of the relay keep RoomCount and PendingCount.  *)
(***************************************************************************)
EXTENDS RelayInv, FiniteSetTheorems

----------------------------------------------------------------------------
(* Counting.                                                                *)

\* Taking a subset out of a finite set, and adding a disjoint one.
LEMMA CardDifference ==
  ASSUME NEW K, IsFiniteSet(K), NEW S, S \subseteq K
  PROVE  /\ IsFiniteSet(K \ S) /\ IsFiniteSet(S)
         /\ Cardinality(K \ S) = Cardinality(K) - Cardinality(S)
         /\ Cardinality(S) \in Nat /\ Cardinality(K) \in Nat
         /\ Cardinality(S) <= Cardinality(K)
  <1>1. IsFiniteSet(S) /\ IsFiniteSet(K \ S)
    BY FS_Subset
  <1>2. (K \ S) \cup S = K /\ (K \ S) \cap S = {}
    OBVIOUS
  <1>3. Cardinality(K) = Cardinality(K \ S) + Cardinality(S) - Cardinality({})
    BY <1>1, <1>2, FS_Union
  <1>4. /\ Cardinality(K) \in Nat /\ Cardinality(S) \in Nat
        /\ Cardinality(K \ S) \in Nat /\ Cardinality({}) = 0
    BY <1>1, FS_CardinalityType, FS_EmptySet
  <1> QED BY <1>1, <1>3, <1>4

\* Disjoint finite sets: the cardinality of the union is the sum.
LEMMA CardDisjoint ==
  ASSUME NEW K, IsFiniteSet(K), NEW S, IsFiniteSet(S), K \cap S = {}
  PROVE  /\ IsFiniteSet(K \cup S)
         /\ Cardinality(K \cup S) = Cardinality(K) + Cardinality(S)
  <1>1. Cardinality(K \cup S) = Cardinality(K) + Cardinality(S) - Cardinality({})
    BY FS_Union
  <1> QED BY <1>1, FS_Union, FS_CardinalityType, FS_EmptySet

\* The rooms one task owes the counter, as pairs.
LEMMA OwedPairs ==
  ASSUME NEW p, NEW S, IsFiniteSet(S)
  PROVE  IsFiniteSet({p} \X S) /\ Cardinality({p} \X S) = Cardinality(S)
  <1>1. IsFiniteSet({p}) /\ Cardinality({p}) = 1
    BY FS_Singleton
  <1> QED BY <1>1, FS_Product, FS_CardinalityType

\* The sets RoomCount counts are finite.
LEMMA RoomSetsFinite == IsFiniteSet(LiveRooms) /\ IsFiniteSet(OwedRooms)
  <1>1. IsFiniteSet(Procs)
    BY RelayAssumption, FS_Singleton, FS_Union, Zenon DEF Procs
  <1>2. IsFiniteSet(Procs \X Rooms)
    BY <1>1, RelayAssumption, FS_Product
  <1> QED BY <1>2, RelayAssumption, FS_Subset DEF LiveRooms, OwedRooms

\* RoomCount is preserved by every step.
LEMMA RoomCountStep ==
  ASSUME IInv, [Next]_vars
  PROVE  RoomCount'
  <1>0. /\ RoomCount
        /\ rooms \in [Rooms -> EntryIds \cup {NoEntry}]
        /\ owed \in [Procs -> SUBSET Rooms]
        /\ total_room_count \in Nat
    BY DEF IInv, TypeOK
  <1>f. ASSUME UNCHANGED <<rooms, owed, total_room_count>> PROVE RoomCount'
    BY <1>0, <1>f DEF RoomCount, LiveRooms, OwedRooms
  <1>e. ASSUME NEW s, NEW t, evict_stale_rooms(s, t)
        PROVE  /\ Evicted(s, t) \subseteq LiveRooms
               /\ LiveRooms' = LiveRooms \ Evicted(s, t)
    <2>1. rooms' = [r \in Rooms |-> IF r \in Evicted(s, t) THEN NoEntry ELSE rooms[r]]
      BY <1>e, EvictRooms
    <2> QED BY <2>1 DEF LiveRooms, Evicted, ShardRooms
  <1>1. ASSUME NEW w \in Workers, Working(w) PROVE RoomCount'
    <2>1. CASE CreateCheck(w)
      <3>1. owed' = owed /\ OwedRooms' = OwedRooms
        BY <2>1 DEF CreateCheck, sweepVars, OwedRooms
      <3>2. CASE UNCHANGED <<rooms, total_room_count>>
        BY <1>f, <3>1, <3>2
      <3>3. ASSUME NEW s, evict_stale_rooms(s, now),
                   total_room_count' = total_room_count - Cardinality(Evicted(s, now))
            PROVE  RoomCount'
        <4> DEFINE E == Evicted(s, now)
        <4>1. E \subseteq LiveRooms /\ LiveRooms' = LiveRooms \ E
          BY <1>e, <3>3
        <4> HIDE DEF E
        <4>2. IsFiniteSet(E) /\ Cardinality(LiveRooms') = Cardinality(LiveRooms) - Cardinality(E)
          BY <4>1, RoomSetsFinite, CardDifference
        <4>3. Cardinality(OwedRooms') = Cardinality(OwedRooms)
          BY <3>1
        <4>4. total_room_count' = total_room_count - Cardinality(E)
          BY <3>3 DEF E
        <4>5. /\ Cardinality(E) \in Nat /\ Cardinality(LiveRooms) \in Nat
              /\ Cardinality(OwedRooms) \in Nat
          BY <4>2, RoomSetsFinite, FS_CardinalityType
        <4> QED BY <1>0, <4>2, <4>3, <4>4, <4>5 DEF RoomCount
      <3> QED BY <2>1, <3>2, <3>3 DEF CreateCheck, roomVars
    <2>2. CASE Create(w)
      <3> DEFINE r == req[w].room
      <3>1. /\ owed' = owed /\ total_room_count' = total_room_count + 1
            /\ pc[w] = "create"
        BY <2>2 DEF Create, sweepVars
      <3>2. PICK e \in EntryIds : rooms' = [rooms EXCEPT ![r] = e]
        BY <2>2, Zenon DEF Create
      <3>3. e # NoEntry /\ r \in Rooms /\ rooms[r] = NoEntry
        BY <3>1, RelayAssumption DEF IInv, Exclusion, Control, Request, NoEntry
      <3>4. LiveRooms' = LiveRooms \cup {r} /\ r \notin LiveRooms /\ OwedRooms' = OwedRooms
        BY <1>0, <3>1, <3>2, <3>3 DEF LiveRooms, OwedRooms
      <3>5. Cardinality(LiveRooms') = Cardinality(LiveRooms) + 1
        BY <3>4, RoomSetsFinite, FS_AddElement, Zenon
      <3>6. Cardinality(LiveRooms) \in Nat /\ Cardinality(OwedRooms) \in Nat
        BY RoomSetsFinite, FS_CardinalityType
      <3>7. Cardinality(OwedRooms') = Cardinality(OwedRooms)
        BY <3>4
      <3> QED BY <1>0, <3>1, <3>5, <3>6, <3>7 DEF RoomCount
    <2>3. CASE ~ CreateCheck(w) /\ ~ Create(w)
      <3>1. UNCHANGED <<rooms, owed, total_room_count>>
        BY <1>1, <2>3, Zenon
           DEF Working, ArriveReg, RegPlain, RegCookie, ArriveMsg, MsgLookup,
               DeletePendingReg, CheckRooms, JoinPendingCheck, JoinCheck, Join, Lookup,
               EntryCookie, EntryPlain, PendingCaps, StorePendingReg, InsertPendingReg,
               MsgEntry, Forward, roomVars, sweepVars
      <3> QED BY <1>f, <3>1
    <2> QED BY <2>1, <2>2, <2>3
  <1>2. ASSUME NEW p \in Procs, SweepShard(p) PROVE RoomCount'
    <2> DEFINE E == Evicted(idx[p], at[p])
    <2>1. /\ pc[p] = "sweep" /\ total_room_count' = total_room_count
          /\ evict_stale_rooms(idx[p], at[p])
          /\ owed' = [owed EXCEPT ![p] = owed[p] \cup E]
      BY <1>2 DEF SweepShard, TotalEvicted
    <2>2. E \subseteq LiveRooms /\ LiveRooms' = LiveRooms \ E
      BY <1>e, <2>1
    <2>3. \A r \in owed[p] : r \notin E
      <3>1. \A r \in owed[p] : Shard[r] < idx[p]
        BY <2>1 DEF IInv, Control
      <3>2. \A r \in E : Shard[r] = idx[p] /\ r \in Rooms
        BY DEF Evicted, ShardRooms
      <3> QED BY <3>1, <3>2, LocalTypes, RelayAssumption
    <2>4. OwedRooms' = OwedRooms \cup ({p} \X E) /\ OwedRooms \cap ({p} \X E) = {}
      <3> HIDE DEF E
      <3>1. E \subseteq Rooms
        BY <2>2 DEF LiveRooms
      <3>2. ASSUME NEW x
            PROVE  x \in OwedRooms' <=> x \in OwedRooms \/ x \in {p} \X E
        BY <1>0, <2>1, <3>1 DEF OwedRooms
      <3> QED BY <2>3, <3>2 DEF OwedRooms
    <2>5. IsFiniteSet(E)
      BY <2>2, RoomSetsFinite, FS_Subset
    <2> HIDE DEF E
    <2>6. Cardinality(OwedRooms') = Cardinality(OwedRooms) + Cardinality(E)
      <3>1. IsFiniteSet({p} \X E) /\ Cardinality({p} \X E) = Cardinality(E)
        BY <2>5, OwedPairs, Zenon
      <3> QED BY <2>4, <3>1, CardDisjoint, RoomSetsFinite
    <2>7. Cardinality(LiveRooms') = Cardinality(LiveRooms) - Cardinality(E)
      BY <2>2, CardDifference, RoomSetsFinite
    <2> QED BY <1>0, <2>1, <2>5, <2>6, <2>7, RoomSetsFinite, FS_CardinalityType
            DEF RoomCount
  <1>3. ASSUME NEW p \in Procs, SubtractEvicted(p) PROVE RoomCount'
    <2>1. /\ rooms' = rooms /\ owed' = [owed EXCEPT ![p] = {}]
          /\ total_room_count' = total_room_count - Cardinality(owed[p])
      BY <1>3 DEF SubtractEvicted
    <2>2. OwedRooms' = OwedRooms \ ({p} \X owed[p])
      BY <1>0, <2>1 DEF OwedRooms
    <2>3. {p} \X owed[p] \subseteq OwedRooms /\ owed[p] \subseteq Rooms
      BY <1>0 DEF OwedRooms
    <2>4. LiveRooms' = LiveRooms /\ IsFiniteSet(owed[p])
      BY <2>1, <2>3, RelayAssumption, FS_Subset DEF LiveRooms
    <2>5. Cardinality(OwedRooms') = Cardinality(OwedRooms) - Cardinality(owed[p])
      <3>1. Cardinality({p} \X owed[p]) = Cardinality(owed[p])
        BY <2>4, OwedPairs, Zenon
      <3> QED BY <2>2, <2>3, <3>1, CardDifference, RoomSetsFinite
    <2> QED BY <1>0, <2>1, <2>4, <2>5, RoomSetsFinite, FS_CardinalityType DEF RoomCount
  <1>4. CASE RoomTick \/ SweepPendingShard \/ SubtractPending \/ SubtractPendingIp
             \/ Tick \/ UNCHANGED vars
    <2>1. UNCHANGED <<rooms, owed, total_room_count>>
      BY <1>4 DEF RoomTick, SweepPendingShard, SubtractPending, SubtractPendingIp, Tick,
                  vars, roomVars, sweepVars
    <2> QED BY <1>f, <2>1
  <1> QED BY <1>1, <1>2, <1>3, <1>4, NextCases

\* OfIp commutes with the set operations, and counts a single key once.
LEMMA OfIpFacts ==
  ASSUME NEW K \in SUBSET (Rooms \X Addrs), NEW S \in SUBSET (Rooms \X Addrs), NEW ip
  PROVE  /\ IsFiniteSet(OfIp(K, ip)) /\ Cardinality(OfIp(K, ip)) \in Nat
         /\ S \subseteq K => /\ Cardinality(OfIp(K \ S, ip))
                                  = Cardinality(OfIp(K, ip)) - Cardinality(OfIp(S, ip))
                             /\ Cardinality(OfIp(S, ip)) <= Cardinality(OfIp(K, ip))
  <1>1. IsFiniteSet(Rooms \X Addrs)
    BY RelayAssumption, RoomAssumption, FS_Product
  <1>2. IsFiniteSet(OfIp(K, ip)) /\ IsFiniteSet(OfIp(S, ip))
    BY <1>1, FS_Subset DEF OfIp
  <1>3. ASSUME S \subseteq K
        PROVE  /\ Cardinality(OfIp(K \ S, ip))
                    = Cardinality(OfIp(K, ip)) - Cardinality(OfIp(S, ip))
               /\ Cardinality(OfIp(S, ip)) <= Cardinality(OfIp(K, ip))
    <2>1. OfIp(K \ S, ip) = OfIp(K, ip) \ OfIp(S, ip) /\ OfIp(S, ip) \subseteq OfIp(K, ip)
      BY <1>3 DEF OfIp
    <2> QED BY <1>2, <2>1, CardDifference, Zenon
  <1> QED BY <1>2, <1>3, FS_CardinalityType

\* The keys of one IP in a disjoint union are counted separately.
LEMMA OfIpUnion ==
  ASSUME NEW K \in SUBSET (Rooms \X Addrs), NEW S \in SUBSET (Rooms \X Addrs), NEW ip,
         \A k \in S : k \notin K
  PROVE  Cardinality(OfIp(K \cup S, ip)) = Cardinality(OfIp(K, ip)) + Cardinality(OfIp(S, ip))
  <1>1. /\ OfIp(K \cup S, ip) = OfIp(K, ip) \cup OfIp(S, ip)
        /\ OfIp(K, ip) \cap OfIp(S, ip) = {}
    BY DEF OfIp
  <1>2. IsFiniteSet(OfIp(K, ip)) /\ IsFiniteSet(OfIp(S, ip))
    BY OfIpFacts, Zenon
  <1> QED BY <1>1, <1>2, CardDisjoint, Zenon

\* One key counts once for its own IP and not for any other.
LEMMA OfIpSingle ==
  ASSUME NEW k, NEW ip
  PROVE  Cardinality(OfIp({k}, ip)) = IF IpKey[k[2]] = ip THEN 1 ELSE 0
  <1>1. CASE IpKey[k[2]] = ip
    <2>1. OfIp({k}, ip) = {k}
      BY <1>1 DEF OfIp
    <2> QED BY <1>1, <2>1, FS_Singleton
  <1>2. CASE IpKey[k[2]] # ip
    <2>1. OfIp({k}, ip) = {}
      BY <1>2 DEF OfIp
    <2> QED BY <1>2, <2>1, FS_EmptySet
  <1> QED BY <1>1, <1>2

\* The counters follow one key out of the store, and one into it.
LEMMA DeleteKey ==
  ASSUME IInv, NEW r \in Rooms, NEW a \in Addrs, pending_regs[r][a] # NoPending,
         pending_regs' = [pending_regs EXCEPT ![r][a] = NoPending],
         pending_total' = pending_total - 1,
         pending_ip' = remove_pending_ip(pending_ip, IpKey[a]),
         swept' = swept, pc'[Cleaner] = pc[Cleaner]
  PROVE  PendingCount'
  <1> DEFINE k == <<r, a>>
  <1>0. /\ PendingCount /\ swept \in SUBSET (Rooms \X Addrs)
        /\ pending_regs \in [Rooms -> [Addrs -> PendingReg]]
        /\ pending_total \in Nat /\ pending_ip \in [IPs -> Nat]
        /\ IpKey[a] \in IPs
    BY RoomAssumption DEF IInv, TypeOK
  <1>1. /\ PendingKeys \in SUBSET (Rooms \X Addrs) /\ k \in PendingKeys
        /\ k[2] = a /\ {k} \subseteq PendingKeys /\ {k} \in SUBSET (Rooms \X Addrs)
    BY DEF PendingKeys
  <1>2. PendingKeys' = PendingKeys \ {k}
    BY <1>0 DEF PendingKeys
  <1>3. IsFiniteSet(PendingKeys) /\ IsFiniteSet(swept)
    BY <1>0, <1>1, RelayAssumption, RoomAssumption, FS_Product, FS_Subset, Zenon
  <1> HIDE DEF k
  <1>4. /\ Cardinality(PendingKeys') = Cardinality(PendingKeys) - 1
        /\ Cardinality(PendingKeys) \in Nat /\ Cardinality(swept) \in Nat
    BY <1>1, <1>2, <1>3, FS_RemoveElement, FS_CardinalityType
  <1>5. pending_total' = Cardinality(PendingKeys')
                           + IF pc'[Cleaner] = "ipSub" THEN 0 ELSE Cardinality(swept')
    <2>1. pending_total = Cardinality(PendingKeys)
                           + IF pc[Cleaner] = "ipSub" THEN 0 ELSE Cardinality(swept)
      BY <1>0 DEF PendingCount
    <2> QED BY <1>4, <2>1
  <1>6. ASSUME NEW ip \in IPs
        PROVE  pending_ip'[ip] = Cardinality(OfIp(PendingKeys', ip))
                                   + Cardinality(OfIp(swept', ip))
    <2>1. /\ Cardinality(OfIp(PendingKeys', ip))
               = Cardinality(OfIp(PendingKeys, ip)) - Cardinality(OfIp({k}, ip))
          /\ Cardinality(OfIp({k}, ip)) <= Cardinality(OfIp(PendingKeys, ip))
          /\ Cardinality(OfIp(PendingKeys, ip)) \in Nat
          /\ Cardinality(OfIp(swept, ip)) \in Nat
      <3>1. /\ Cardinality(OfIp(PendingKeys \ {k}, ip))
                 = Cardinality(OfIp(PendingKeys, ip)) - Cardinality(OfIp({k}, ip))
            /\ Cardinality(OfIp({k}, ip)) <= Cardinality(OfIp(PendingKeys, ip))
        BY <1>1, OfIpFacts
      <3>2. /\ Cardinality(OfIp(PendingKeys, ip)) \in Nat
            /\ Cardinality(OfIp(swept, ip)) \in Nat
        BY <1>0, <1>1, OfIpFacts, Zenon
      <3> QED BY <1>2, <3>1, <3>2
    <2>2. pending_ip[ip] = Cardinality(OfIp(PendingKeys, ip)) + Cardinality(OfIp(swept, ip))
      BY <1>0 DEF PendingCount
    <2>3. Cardinality(OfIp({k}, ip)) = IF IpKey[a] = ip THEN 1 ELSE 0
      BY <1>1, OfIpSingle
    <2>4. CASE IpKey[a] = ip
      <3>1. Cardinality(OfIp({k}, ip)) = 1
        BY <2>3, <2>4
      <3>2. pending_ip[ip] > 0
        BY <2>1, <2>2, <3>1
      <3>3. pending_ip'[ip] = pending_ip[ip] - 1
        BY <1>0, <2>4, <3>2 DEF remove_pending_ip
      <3> QED BY <2>1, <2>2, <3>1, <3>3
    <2>5. CASE IpKey[a] # ip
      <3>1. Cardinality(OfIp({k}, ip)) = 0 /\ pending_ip'[ip] = pending_ip[ip]
        BY <1>0, <2>3, <2>5 DEF remove_pending_ip
      <3> QED BY <2>1, <2>2, <3>1
    <2> QED BY <2>4, <2>5
  <1> QED BY <1>5, <1>6 DEF PendingCount

\* store_pending_reg with a new key keeps the pending counters exact.
LEMMA InsertKey ==
  ASSUME IInv, NEW r \in Rooms, NEW a \in Addrs, NEW p, p # NoPending,
         pending_regs[r][a] = NoPending,
         pending_regs' = [pending_regs EXCEPT ![r][a] = p],
         pending_total' = pending_total + 1,
         pending_ip' = [pending_ip EXCEPT ![IpKey[a]] = @ + 1],
         swept' = swept, pc'[Cleaner] = pc[Cleaner]
  PROVE  PendingCount'
  <1> DEFINE k == <<r, a>>
  <1>0. /\ PendingCount /\ swept \in SUBSET (Rooms \X Addrs)
        /\ pending_regs \in [Rooms -> [Addrs -> PendingReg]]
        /\ pending_total \in Nat /\ pending_ip \in [IPs -> Nat]
        /\ IpKey[a] \in IPs
    BY RoomAssumption DEF IInv, TypeOK
  <1>1. /\ PendingKeys \in SUBSET (Rooms \X Addrs) /\ k \notin PendingKeys
        /\ k[2] = a /\ {k} \in SUBSET (Rooms \X Addrs)
    BY DEF PendingKeys
  <1>2. PendingKeys' = PendingKeys \cup {k}
    BY <1>0 DEF PendingKeys
  <1>3. IsFiniteSet(PendingKeys) /\ IsFiniteSet(swept)
    BY <1>0, <1>1, RelayAssumption, RoomAssumption, FS_Product, FS_Subset, Zenon
  <1> HIDE DEF k
  <1>4. /\ Cardinality(PendingKeys') = Cardinality(PendingKeys) + 1
        /\ Cardinality(PendingKeys) \in Nat /\ Cardinality(swept) \in Nat
    BY <1>1, <1>2, <1>3, FS_AddElement, FS_CardinalityType, Zenon
  <1>5. pending_total' = Cardinality(PendingKeys')
                           + IF pc'[Cleaner] = "ipSub" THEN 0 ELSE Cardinality(swept')
    <2>1. pending_total = Cardinality(PendingKeys)
                           + IF pc[Cleaner] = "ipSub" THEN 0 ELSE Cardinality(swept)
      BY <1>0 DEF PendingCount
    <2> QED BY <1>4, <2>1
  <1>6. ASSUME NEW ip \in IPs
        PROVE  pending_ip'[ip] = Cardinality(OfIp(PendingKeys', ip))
                                   + Cardinality(OfIp(swept', ip))
    <2>1. /\ Cardinality(OfIp(PendingKeys', ip))
               = Cardinality(OfIp(PendingKeys, ip)) + Cardinality(OfIp({k}, ip))
          /\ Cardinality(OfIp(PendingKeys, ip)) \in Nat
          /\ Cardinality(OfIp(swept, ip)) \in Nat
      <3>1. Cardinality(OfIp(PendingKeys \cup {k}, ip))
               = Cardinality(OfIp(PendingKeys, ip)) + Cardinality(OfIp({k}, ip))
        <4> DEFINE S == {k}
        <4>1. S \in SUBSET (Rooms \X Addrs) /\ \A x \in S : x \notin PendingKeys
          BY <1>1
        <4> HIDE DEF S
        <4>2. Cardinality(OfIp(PendingKeys \cup S, ip))
                = Cardinality(OfIp(PendingKeys, ip)) + Cardinality(OfIp(S, ip))
          BY <1>1, <4>1, OfIpUnion
        <4> QED BY <4>2 DEF S
      <3>2. /\ Cardinality(OfIp(PendingKeys, ip)) \in Nat
            /\ Cardinality(OfIp(swept, ip)) \in Nat
        BY <1>0, <1>1, OfIpFacts, Zenon
      <3> QED BY <1>2, <3>1, <3>2
    <2>2. pending_ip[ip] = Cardinality(OfIp(PendingKeys, ip)) + Cardinality(OfIp(swept, ip))
      BY <1>0 DEF PendingCount
    <2>3. Cardinality(OfIp({k}, ip)) = IF IpKey[a] = ip THEN 1 ELSE 0
      BY <1>1, OfIpSingle
    <2> QED BY <1>0, <2>1, <2>2, <2>3
  <1> QED BY <1>5, <1>6 DEF PendingCount

\* PendingCount is preserved by every step.
LEMMA PendingCountStep ==
  ASSUME IInv, [Next]_vars
  PROVE  PendingCount'
  <1>0. /\ PendingCount /\ swept \in SUBSET (Rooms \X Addrs)
        /\ pending_regs \in [Rooms -> [Addrs -> PendingReg]]
        /\ pending_total \in Nat /\ pending_ip \in [IPs -> Nat]
    BY DEF IInv, TypeOK
  <1>k. PendingKeys \in SUBSET (Rooms \X Addrs)
    BY DEF PendingKeys
  <1>n. /\ IsFiniteSet(PendingKeys) /\ IsFiniteSet(swept)
        /\ Cardinality(PendingKeys) \in Nat /\ Cardinality(swept) \in Nat
    BY <1>0, <1>k, RelayAssumption, RoomAssumption, FS_Product, FS_Subset, FS_CardinalityType, Zenon
  <1>f. ASSUME UNCHANGED <<pending_total, pending_ip, swept>>, PendingKeys' = PendingKeys,
               pc'[Cleaner] = "ipSub" <=> pc[Cleaner] = "ipSub"
        PROVE  PendingCount'
    BY <1>0, <1>f DEF PendingCount, OfIp
  <1>1. ASSUME NEW w \in Workers, Working(w) PROVE PendingCount'
    <2> DEFINE r == req[w].room
               a == req[w].src
    <2>0. pc'[Cleaner] = pc[Cleaner] /\ swept' = swept
      BY <1>1, WorkingMove, RelayAssumption, LocalTypes DEF Move, sweepVars, Procs
    <2>p. pc[w] # "idle" => r \in Rooms /\ a \in Addrs
      BY DEF IInv, Control, Request
    <2>n. NewPending(w) # NoPending
      <3>1. FreshCookie # 0
        BY DEF FreshCookie, IInv, TypeOK
      <3> QED BY <3>1 DEF NewPending, NoPending
    <2>1. CASE DeletePendingReg(w)
      <3>1. pc[w] # "idle" /\ delete_pending_reg(r, a)
        BY <2>1 DEF DeletePendingReg
      <3>2. CASE pending_regs[r][a] # NoPending
        <4>1. /\ pending_regs' = [pending_regs EXCEPT ![r][a] = NoPending]
              /\ pending_total' = pending_total - 1
              /\ pending_ip' = remove_pending_ip(pending_ip, IpKey[a])
          BY <3>1, <3>2 DEF delete_pending_reg
        <4> QED BY <2>0, <2>p, <3>1, <3>2, <4>1, DeleteKey, Zenon
      <3>3. CASE pending_regs[r][a] = NoPending
        <4>1. UNCHANGED <<pending_regs, pending_total, pending_ip>>
          BY <3>1, <3>3 DEF delete_pending_reg, pendVars
        <4> QED BY <1>f, <2>0, <4>1 DEF PendingKeys
      <3> QED BY <3>2, <3>3
    <2>2. CASE StorePendingReg(w)
      <3>1. pc[w] # "idle" /\ UNCHANGED <<pending_total, pending_ip>>
        BY <2>2 DEF StorePendingReg
      <3>2. \/ pending_regs' = pending_regs
            \/ /\ pending_regs[r][a] # NoPending
               /\ pending_regs' = [pending_regs EXCEPT ![r][a] = NewPending(w)]
        BY <2>2 DEF StorePendingReg
      <3>3. PendingKeys' = PendingKeys
        BY <1>0, <2>p, <2>n, <3>1, <3>2 DEF PendingKeys
      <3> QED BY <1>f, <2>0, <3>1, <3>3
    <2>3. CASE InsertPendingReg(w)
      <3>1. /\ pc[w] = "insert" /\ pending_total' = pending_total + 1
            /\ pending_regs' = [pending_regs EXCEPT ![r][a] = NewPending(w)]
            /\ pending_ip' = [pending_ip EXCEPT ![IpKey[a]] = @ + 1]
        BY <2>3 DEF InsertPendingReg
      <3>2. pending_regs[r][a] = NoPending /\ r \in Rooms /\ a \in Addrs
        BY <2>p, <3>1 DEF IInv, Exclusion
      <3> QED BY <2>0, <2>n, <3>1, <3>2, InsertKey, ZenonT(30)
    <2>4. CASE ~ DeletePendingReg(w) /\ ~ StorePendingReg(w) /\ ~ InsertPendingReg(w)
      <3>1. UNCHANGED pendVars
        BY <1>1, <2>4, Zenon
           DEF Working, ArriveReg, RegPlain, RegCookie, ArriveMsg, MsgLookup, CheckRooms,
               CreateCheck, Create, JoinPendingCheck, Join, Lookup,
               EntryCookie, EntryPlain, PendingCaps, MsgEntry, Forward
      <3> QED BY <1>f, <2>0, <3>1 DEF pendVars, PendingKeys
    <2> QED BY <2>1, <2>2, <2>3, <2>4
  <1>2. ASSUME NEW p \in Procs, SweepShard(p) \/ SubtractEvicted(p) PROVE PendingCount'
    <2>1. UNCHANGED <<pending_regs, pending_total, pending_ip, swept>>
      BY <1>2 DEF SweepShard, SubtractEvicted, pendVars
    <2>2. pc'[Cleaner] = "ipSub" <=> pc[Cleaner] = "ipSub"
      BY <1>2, LocalTypes DEF SweepShard, SubtractEvicted, AfterSweep, Goto, Procs
    <2> QED BY <1>f, <2>1, <2>2 DEF PendingKeys
  <1>3. CASE SweepPendingShard
    <2> DEFINE S == StaleKeys(idx[Cleaner], at[Cleaner])
    <2>1. /\ UNCHANGED <<pending_total, pending_ip>> /\ swept' = swept \cup S
          /\ pending_regs' = [r \in Rooms |-> [a \in Addrs |->
                   IF <<r, a>> \in S THEN NoPending ELSE pending_regs[r][a]]]
          /\ pc[Cleaner] = "pendSweep"
      BY <1>3 DEF SweepPendingShard
    <2>2. pc'[Cleaner] \in {"pendSweep", "pendSub"}
      BY <1>3, LocalTypes DEF SweepPendingShard, Goto, Procs
    <2>3. S \subseteq PendingKeys /\ S \in SUBSET (Rooms \X Addrs)
      BY DEF StaleKeys, PendingKeys
    <2>4. PendingKeys' = PendingKeys \ S
      <3> HIDE DEF S
      <3> QED BY <2>1, <2>3 DEF PendingKeys
    <2>5. \A k \in S : k \notin swept
      <3>1. \A k \in S : Shard[k[1]] = idx[Cleaner] /\ k[1] \in Rooms
        BY DEF StaleKeys
      <3>2. \A k \in swept : Shard[k[1]] < idx[Cleaner]
        BY <2>1 DEF IInv, Control
      <3> QED BY <3>1, <3>2, RelayAssumption
    <2> HIDE DEF S
    <2>6. IsFiniteSet(S) /\ swept \cap S = {}
      BY <1>n, <2>3, <2>5, FS_Subset
    <2>7. Cardinality(S) \in Nat
      BY <2>6, FS_CardinalityType
    <2>8. Cardinality(PendingKeys') = Cardinality(PendingKeys) - Cardinality(S)
      BY <1>n, <2>3, <2>4, CardDifference
    <2>9. Cardinality(swept') = Cardinality(swept) + Cardinality(S)
      BY <1>n, <2>1, <2>6, CardDisjoint
    <2>10. pending_total = Cardinality(PendingKeys) + Cardinality(swept)
      BY <1>0, <2>1 DEF PendingCount
    <2>11. pending_total' = Cardinality(PendingKeys')
                              + IF pc'[Cleaner] = "ipSub" THEN 0 ELSE Cardinality(swept')
      BY <1>n, <2>1, <2>2, <2>7, <2>8, <2>9, <2>10
    <2>12. ASSUME NEW ip \in IPs
           PROVE  pending_ip'[ip] = Cardinality(OfIp(PendingKeys', ip))
                                      + Cardinality(OfIp(swept', ip))
      <3>1. Cardinality(OfIp(PendingKeys \ S, ip))
              = Cardinality(OfIp(PendingKeys, ip)) - Cardinality(OfIp(S, ip))
        BY <1>k, <2>3, OfIpFacts
      <3>2. Cardinality(OfIp(swept \cup S, ip))
              = Cardinality(OfIp(swept, ip)) + Cardinality(OfIp(S, ip))
        BY <1>0, <2>3, <2>5, OfIpUnion
      <3>3. /\ Cardinality(OfIp(PendingKeys, ip)) \in Nat
            /\ Cardinality(OfIp(swept, ip)) \in Nat /\ Cardinality(OfIp(S, ip)) \in Nat
        BY <1>0, <1>k, <2>3, OfIpFacts, Zenon
      <3>4. pending_ip[ip] = Cardinality(OfIp(PendingKeys, ip)) + Cardinality(OfIp(swept, ip))
        BY <1>0 DEF PendingCount
      <3> QED BY <2>1, <2>4, <3>1, <3>2, <3>3, <3>4
    <2> QED BY <2>11, <2>12 DEF PendingCount
  <1>4. CASE SubtractPending
    <2>1. /\ UNCHANGED <<pending_regs, pending_ip, swept>>
          /\ pc[Cleaner] = "pendSub" /\ pc'[Cleaner] = "ipSub"
          /\ pending_total' = pending_total - Cardinality(swept)
      BY <1>4, LocalTypes DEF SubtractPending, Goto, Procs, sweepVars
    <2>2. PendingKeys' = PendingKeys
      BY <2>1 DEF PendingKeys
    <2>3. pending_total' = Cardinality(PendingKeys)
      BY <1>0, <1>n, <2>1 DEF PendingCount
    <2> QED BY <1>0, <1>n, <2>1, <2>2, <2>3 DEF PendingCount, OfIp

  <1>5. CASE SubtractPendingIp
    <2>1. UNCHANGED <<pending_regs, pending_total>> /\ pc[Cleaner] = "ipSub"
      BY <1>5 DEF SubtractPendingIp
    <2>2. PendingKeys' = PendingKeys
      BY <2>1 DEF PendingKeys
    <2>3. CASE swept = {} /\ pc'[Cleaner] = "idle" /\ UNCHANGED <<pending_ip, swept>>
      BY <1>0, <1>n, <2>1, <2>2, <2>3, FS_EmptySet DEF PendingCount, OfIp
    <2>4. ASSUME NEW k \in swept, swept' = swept \ {k}, UNCHANGED pc,
                 pending_ip' = remove_pending_ip(pending_ip, IpKey[k[2]])
          PROVE  PendingCount'
      <3>1. k[2] \in Addrs /\ IpKey[k[2]] \in IPs /\ {k} \in SUBSET (Rooms \X Addrs)
        BY <1>0, <2>4, RoomAssumption
      <3>2. ASSUME NEW ip \in IPs
            PROVE  pending_ip'[ip] = Cardinality(OfIp(PendingKeys', ip))
                                       + Cardinality(OfIp(swept', ip))
        <4>1. /\ Cardinality(OfIp(swept \ {k}, ip))
                   = Cardinality(OfIp(swept, ip)) - Cardinality(OfIp({k}, ip))
              /\ Cardinality(OfIp({k}, ip)) <= Cardinality(OfIp(swept, ip))
          BY <1>0, <3>1, OfIpFacts, Zenon
        <4>2. /\ Cardinality(OfIp(PendingKeys, ip)) \in Nat
              /\ Cardinality(OfIp(swept, ip)) \in Nat
          BY <1>0, <1>k, OfIpFacts, Zenon
        <4>3. pending_ip[ip] = Cardinality(OfIp(PendingKeys, ip))
                                 + Cardinality(OfIp(swept, ip))
          BY <1>0 DEF PendingCount
        <4>4. CASE IpKey[k[2]] = ip
          <5>1. Cardinality(OfIp({k}, ip)) = 1
            BY <4>4, OfIpSingle
          <5>2. pending_ip[ip] > 0
            BY <4>1, <4>2, <4>3, <5>1
          <5>3. pending_ip'[ip] = pending_ip[ip] - 1
            BY <1>0, <2>4, <4>4, <5>2 DEF remove_pending_ip
          <5> QED BY <2>2, <2>4, <4>1, <4>2, <4>3, <5>1, <5>3
        <4>5. CASE IpKey[k[2]] # ip
          <5>1. Cardinality(OfIp({k}, ip)) = 0
            BY <4>5, OfIpSingle
          <5>2. pending_ip'[ip] = pending_ip[ip]
            BY <1>0, <2>4, <3>1, <4>5 DEF remove_pending_ip
          <5> QED BY <2>2, <2>4, <4>1, <4>2, <4>3, <5>1, <5>2
        <4> QED BY <4>4, <4>5
      <3> QED BY <1>0, <2>1, <2>2, <2>4, <3>2, Zenon DEF PendingCount
    <2> QED BY <1>5, <2>3, <2>4, LocalTypes DEF SubtractPendingIp, Goto, Procs
  <1>6. CASE RoomTick \/ Tick \/ UNCHANGED vars
    <2>1. UNCHANGED <<pending_regs, pending_total, pending_ip, swept>>
      BY <1>6 DEF RoomTick, Tick, vars, pendVars, sweepVars
    <2>2. pc'[Cleaner] = "ipSub" <=> pc[Cleaner] = "ipSub"
      BY <1>6, LocalTypes DEF RoomTick, Tick, Goto, Procs, vars
    <2> QED BY <1>f, <2>1, <2>2 DEF PendingKeys
  <1> QED BY <1>1, <1>2, <1>3, <1>4, <1>5, <1>6, NextCases

=============================================================================
