----------------------------- MODULE RelayTypes -----------------------------
(***************************************************************************)
(* The proofs that the steps of the workers keep the types of their locals  *)
(* and of the shared maps.                                                  *)
(***************************************************************************)
EXTENDS RelayInv

----------------------------------------------------------------------------
(* The functions on a RoomEntry return RoomEntries.                         *)

\* The entry RoomEntry::new returns is well formed.
LEMMA EmptyEntryType == EmptyEntry \in RoomEntry
  BY DEF EmptyEntry, RoomEntry, NoPending, PendingReg, Absent

\* remove_stale_clients only clears fields.
LEMMA RemoveStaleType ==
  ASSUME NEW e \in RoomEntry, NEW t \in Nat
  PROVE  remove_stale_clients(e, t) \in RoomEntry
  <1> DEFINE ls == [a \in Addrs |->
                      IF a \in StaleClients(e, t) THEN Absent ELSE e.last_seen[a]]
             pd == [a \in Addrs |->
                      IF Expired(e.pending[a], t) THEN NoPending ELSE e.pending[a]]
  <1>1. ls \in [Addrs -> Nat \cup {Absent}]
    BY DEF RoomEntry
  <1>2. pd \in [Addrs -> PendingReg]
    BY DEF RoomEntry, NoPending, PendingReg
  <1>3. remove_stale_clients(e, t) = [last_seen |-> ls, pending |-> pd, t |-> e.t]
    BY DEF remove_stale_clients
  <1> HIDE DEF ls, pd
  <1> QED BY <1>1, <1>2, <1>3 DEF RoomEntry

\* admit, add_pending, remove_pending and the two refreshes of EntryPlain.
LEMMA EntryUpdateTypes ==
  ASSUME NEW e \in RoomEntry, NEW a \in Addrs, NEW t \in Nat, NEW c \in Nat
  PROVE  /\ admit(e, a, t) \in RoomEntry
         /\ add_pending(e, a, c, t) \in RoomEntry
         /\ remove_pending(e, a) \in RoomEntry
         /\ [e EXCEPT !.last_seen[a] = t] \in RoomEntry
         /\ [e EXCEPT !.pending[a].created_at = t] \in RoomEntry
  BY Zenon DEF RoomEntry, PendingReg, NoPending, admit, add_pending, remove_pending

----------------------------------------------------------------------------
(* Types.                                                                   *)

LocalsOK ==
  /\ req \in [Workers -> Request \cup {NoReq}]
  /\ arc \in [Workers -> EntryIds \cup {NoEntry}]
  /\ at \in [Procs -> Nat]

\* The end of a handler, and the start of one, keep the locals typed.
LEMMA DoneType ==
  ASSUME LocalsOK, NEW w \in Workers, Done(w)
  PROVE  LocalsOK'
  BY DEF LocalsOK, Done, Procs

\* Taking a datagram from the queue types the worker's locals.
LEMMA StartType ==
  ASSUME LocalsOK, now \in Nat, NEW w \in Workers, NEW l, NEW r \in Rooms, NEW a \in Addrs,
         NEW c \in Nat, Start(w, l, r, a, c),
         arc' = arc \/ \E e \in EntryIds \cup {NoEntry} : arc' = [arc EXCEPT ![w] = e]
  PROVE  LocalsOK'
  BY DEF LocalsOK, Start, Procs, Request

\* Going on keeps the request; the Arc may be set and the clock read.
LEMMA GoType ==
  ASSUME LocalsOK, now \in Nat, NEW w \in Workers, req' = req,
         arc' = arc \/ \E e \in EntryIds \cup {NoEntry} : arc' = [arc EXCEPT ![w] = e],
         at' = at \/ at' = [at EXCEPT ![w] = now]
  PROVE  LocalsOK'
  BY DEF LocalsOK, Procs

\* The locals of the workers, their targets and the cookies stay typed.
LEMMA LocalsStep ==
  ASSUME IInv, NEW w \in Workers, Working(w)
  PROVE  /\ LocalsOK' /\ now' = now
         /\ issued' \in Seq(Rooms \X Addrs)
         /\ targets' \in [Workers -> SUBSET Addrs]
  <1>0. /\ LocalsOK /\ now \in Nat
        /\ issued \in Seq(Rooms \X Addrs)
        /\ targets \in [Workers -> SUBSET Addrs]
        /\ rooms \in [Rooms -> EntryIds \cup {NoEntry}]
        /\ arc \in [Workers -> EntryIds \cup {NoEntry}]
        /\ pc[w] # "idle" => req[w].room \in Rooms /\ req[w].src \in Addrs
    BY DEF IInv, TypeOK, LocalsOK, Control, Request
  <1>i. ASSUME pc[w] # "idle",
               issued' \in {issued, Append(issued, <<req[w].room, req[w].src>>)}
        PROVE  issued' \in Seq(Rooms \X Addrs)
    <2>1. <<req[w].room, req[w].src>> \in Rooms \X Addrs
      BY <1>0, <1>i
    <2>2. \A k \in Rooms \X Addrs : Append(issued, k) \in Seq(Rooms \X Addrs)
      BY <1>0
    <2> QED BY <1>0, <1>i, <2>1, <2>2, Zenon
  <1>d. Done(w) => LocalsOK'
    BY <1>0, DoneType
  <1>g. ASSUME req' = req, at' = at \/ at' = [at EXCEPT ![w] = now],
               arc' = arc \/ \E e \in EntryIds \cup {NoEntry} : arc' = [arc EXCEPT ![w] = e]
        PROVE  LocalsOK'
    BY <1>0, <1>g, GoType
  <1>1. CASE ArriveReg(w)
    <2>1. UNCHANGED <<now, issued, targets, arc>>
      BY <1>1 DEF ArriveReg, RegPlain, RegCookie
    <2>2. \E r \in Rooms, a \in Addrs, c \in Nat, l \in WorkerPC : Start(w, l, r, a, c)
      BY <1>0, <1>1 DEF ArriveReg, RegPlain, RegCookie, WorkerPC
    <2> QED BY <1>0, <2>1, <2>2, StartType
  <1>2. CASE ArriveMsg(w)
    <2>1. UNCHANGED <<now, issued, targets>>
      BY <1>2 DEF ArriveMsg, MsgLookup
    <2>2. PICK r \in Rooms, a \in Addrs :
             Start(w, "msg", r, a, 0) /\ arc' = [arc EXCEPT ![w] = rooms[r]]
      BY <1>2, Zenon DEF ArriveMsg, MsgLookup
    <2>3. rooms[r] \in EntryIds \cup {NoEntry}
      BY <1>0
    <2> QED BY <1>0, <2>1, <2>2, <2>3, StartType, Zenon
  <1>3. CASE DeletePendingReg(w) \/ CheckRooms(w) \/ PendingCaps(w)
    <2>1. UNCHANGED <<now, issued, targets>>
      BY <1>3 DEF DeletePendingReg, CheckRooms, PendingCaps
    <2>2. \/ Done(w)
          \/ UNCHANGED <<req, arc>> /\ (at' = at \/ at' = [at EXCEPT ![w] = now])
      BY <1>3 DEF DeletePendingReg, CheckRooms, PendingCaps
    <2> QED BY <1>0, <1>d, <1>g, <2>1, <2>2
  <1>4. CASE CreateCheck(w)
    <2>1. UNCHANGED <<now, issued, targets, arc>> /\ (Done(w) \/ UNCHANGED <<req, at>>)
      BY <1>4 DEF CreateCheck
    <2> QED BY <1>0, <1>d, <1>g, <2>1
  <1>5. CASE Create(w) \/ Join(w)
    <2>1. UNCHANGED <<now, issued, targets>> /\ Done(w)
      BY <1>5 DEF Create, Join
    <2> QED BY <1>0, <1>d, <2>1
  <1>6. CASE JoinPendingCheck(w)
    <2>1. /\ UNCHANGED <<now, issued, targets>> /\ pc[w] = "admit"
          /\ \/ Done(w)
             \/ arc' = [arc EXCEPT ![w] = rooms[req[w].room]] /\ UNCHANGED <<req, at>>
      BY <1>6 DEF JoinPendingCheck, JoinCheck
    <2>2. rooms[req[w].room] \in EntryIds \cup {NoEntry}
      BY <1>0, <2>1
    <2> QED BY <1>0, <1>d, <1>g, <2>1, <2>2
  <1>7. CASE Lookup(w)
    <2>1. /\ UNCHANGED <<now, issued, targets, req, at>> /\ pc[w] = "lookup"
          /\ arc' = [arc EXCEPT ![w] = rooms[req[w].room]]
      BY <1>7 DEF Lookup
    <2>2. rooms[req[w].room] \in EntryIds \cup {NoEntry}
      BY <1>0, <2>1
    <2> QED BY <1>0, <1>g, <2>1, <2>2, Zenon
  <1>8. CASE EntryCookie(w)
    <2>1. /\ UNCHANGED <<now, issued, targets>>
          /\ \/ Done(w)
             \/ arc' = [arc EXCEPT ![w] = arc[w]] /\ UNCHANGED <<req, at>>
      BY <1>8 DEF EntryCookie, JoinCheck
    <2>2. arc[w] \in EntryIds \cup {NoEntry}
      BY <1>0
    <2> QED BY <1>0, <1>d, <1>g, <2>1, <2>2
  <1>9. CASE EntryPlain(w) \/ InsertPendingReg(w)
    <2>1. /\ UNCHANGED <<now, targets>> /\ Done(w) /\ pc[w] # "idle"
          /\ issued' \in {issued, Append(issued, <<req[w].room, req[w].src>>)}
      BY <1>9 DEF EntryPlain, InsertPendingReg
    <2>2. issued' \in Seq(Rooms \X Addrs)
      BY <1>i, <2>1
    <2> QED BY <1>0, <1>d, <2>1, <2>2
  <1>10. CASE StorePendingReg(w)
    <2>1. /\ UNCHANGED <<now, targets>> /\ pc[w] # "idle"
          /\ Done(w) \/ UNCHANGED <<req, arc, at>>
          /\ issued' \in {issued, Append(issued, <<req[w].room, req[w].src>>)}
      BY <1>10 DEF StorePendingReg
    <2>2. issued' \in Seq(Rooms \X Addrs)
      BY <1>i, <2>1
    <2> QED BY <1>0, <1>d, <1>g, <2>1, <2>2
  <1>11. CASE MsgEntry(w)
    <2>1. /\ UNCHANGED <<now, issued>>
          /\ Done(w) \/ UNCHANGED <<req, arc, at>>
          /\ \/ targets' = targets
             \/ targets' = [targets EXCEPT ![w] = MsgTargets(entries[arc[w]], req[w].src)]
      BY <1>11 DEF MsgEntry
    <2>2. MsgTargets(entries[arc[w]], req[w].src) \in SUBSET Addrs
      BY DEF MsgTargets, Clients
    <2> QED BY <1>0, <1>d, <1>g, <2>1, <2>2
  <1>12. CASE Forward(w)
    <2>1. UNCHANGED <<now, issued>> /\ Done(w) /\ targets' = [targets EXCEPT ![w] = {}]
      BY <1>12 DEF Forward
    <2> QED BY <1>0, <1>d, <2>1
  <1> QED
    BY <1>1, <1>2, <1>3, <1>4, <1>5, <1>6, <1>7, <1>8, <1>9, <1>10, <1>11, <1>12
       DEF Working

\* The shared maps that are not counters.
MapsOK ==
  /\ rooms \in [Rooms -> EntryIds \cup {NoEntry}]
  /\ entries \in [EntryIds -> RoomEntry]
  /\ ip_counts \subseteq IPs \X Rooms
  /\ pending_regs \in [Rooms -> [Addrs -> PendingReg]]
  /\ pending_ip \in [IPs -> Nat]

\* Freeing entries leaves a heap of entries, whichever one was written.
LEMMA DropArcsType ==
  ASSUME NEW heap \in [EntryIds -> RoomEntry]
  PROVE  DropArcs(heap) \in [EntryIds -> RoomEntry]
  BY EmptyEntryType DEF DropArcs

\* Writing one well-typed entry and dropping dead Arcs keeps the heap typed.
LEMMA HeapUpdate ==
  ASSUME NEW heap \in [EntryIds -> RoomEntry], NEW id, NEW new \in RoomEntry
  PROVE  DropArcs([heap EXCEPT ![id] = new]) \in [EntryIds -> RoomEntry]
  <1>1. [heap EXCEPT ![id] = new] \in [EntryIds -> RoomEntry]
    BY Zenon
  <1> QED BY <1>1, DropArcsType, Zenon

\* Writing one pending registration keeps the pending store typed.
LEMMA PendingUpdate ==
  ASSUME NEW f \in [Rooms -> [Addrs -> PendingReg]], NEW r \in Rooms, NEW a \in Addrs,
         NEW p \in PendingReg
  PROVE  [f EXCEPT ![r][a] = p] \in [Rooms -> [Addrs -> PendingReg]]
  <1>1. [f[r] EXCEPT ![a] = p] \in [Addrs -> PendingReg]
    OBVIOUS
  <1> QED BY <1>1

\* evict_stale_rooms keeps the room maps typed.
LEMMA EvictTypes ==
  ASSUME MapsOK, NEW s, NEW t \in Nat, evict_stale_rooms(s, t)
  PROVE  /\ rooms' \in [Rooms -> EntryIds \cup {NoEntry}]
         /\ entries' \in [EntryIds -> RoomEntry]
         /\ ip_counts' \subseteq IPs \X Rooms
  <1> DEFINE heap == [e \in EntryIds |-> IF \E r \in ShardRooms(s) : rooms[r] = e
                                        THEN remove_stale_clients(entries[e], t)
                                        ELSE entries[e]]
  <1>1. heap \in [EntryIds -> RoomEntry]
    BY RemoveStaleType DEF MapsOK
  <1>2. entries' = DropArcs(heap) /\ ip_counts' = ip_counts \ Unlinked(s, t)
    BY DEF evict_stale_rooms
  <1> HIDE DEF heap
  <1>3. rooms' = [r \in Rooms |-> IF r \in Evicted(s, t) THEN NoEntry ELSE rooms[r]]
    BY EvictRooms
  <1> QED BY <1>1, <1>2, <1>3, DropArcsType DEF MapsOK

\* The admission check of an existing room keeps the room maps typed.
LEMMA JoinCheckTypes ==
  ASSUME MapsOK, now \in Nat, NEW w \in Workers, NEW id \in EntryIds, NEW l,
         JoinCheck(w, id, l)
  PROVE  /\ rooms' = rooms
         /\ entries' \in [EntryIds -> RoomEntry]
         /\ ip_counts' \subseteq IPs \X Rooms
  <1>1. remove_stale_clients(entries[id], now) \in RoomEntry
    BY RemoveStaleType DEF MapsOK
  <1>2. /\ rooms' = rooms /\ ip_counts' \subseteq ip_counts
        /\ entries' = DropArcs([entries EXCEPT ![id] =
                                  remove_stale_clients(entries[id], now)])
    BY DEF JoinCheck
  <1> QED BY <1>1, <1>2, HeapUpdate, Zenon DEF MapsOK

\* The maps stay typed when a worker takes a step.
LEMMA MapsStep ==
  ASSUME IInv, NEW w \in Workers, Working(w)
  PROVE  MapsOK'
  <1> DEFINE r == req[w].room
             a == req[w].src
             E == [EntryIds -> RoomEntry]
  <1>0. /\ MapsOK /\ now \in Nat /\ at[w] \in Nat /\ Len(issued) \in Nat
        /\ pc[w] # "idle" => r \in Rooms /\ a \in Addrs /\ IpKey[a] \in IPs
        /\ HoldsEntry(w) \/ pc[w] = "entry" => arc[w] \in EntryIds /\ entries[arc[w]] \in RoomEntry
        /\ rooms \in [Rooms -> EntryIds \cup {NoEntry}]
        /\ entries \in E
        /\ ip_counts \subseteq IPs \X Rooms
    BY RoomAssumption DEF IInv, TypeOK, MapsOK, Control, Request, Procs, HoldsEntry
  <1>p. ASSUME UNCHANGED pendVars, rooms' = rooms, entries' \in E, ip_counts' \subseteq IPs \X Rooms
        PROVE  MapsOK'
    BY <1>0, <1>p DEF MapsOK, pendVars
  <1>r. ASSUME UNCHANGED roomVars, pending_regs' \in [Rooms -> [Addrs -> PendingReg]],
               pending_ip' \in [IPs -> Nat]
        PROVE  MapsOK'
    BY <1>0, <1>r DEF MapsOK, roomVars
  <1>1. CASE ArriveReg(w) \/ ArriveMsg(w) \/ CheckRooms(w) \/ Lookup(w) \/ PendingCaps(w)
    <2>1. UNCHANGED <<roomVars, pendVars>>
      BY <1>1 DEF ArriveReg, RegPlain, RegCookie, ArriveMsg, MsgLookup, CheckRooms, Lookup,
                  PendingCaps
    <2> QED BY <1>0, <2>1 DEF MapsOK, roomVars, pendVars
  <1>2. CASE DeletePendingReg(w)
    <2>1. UNCHANGED roomVars /\ pc[w] # "idle" /\ delete_pending_reg(r, a)
      BY <1>2 DEF DeletePendingReg
    <2>2. pending_regs' \in [Rooms -> [Addrs -> PendingReg]]
      <3>1. NoPending \in PendingReg
        BY DEF NoPending, PendingReg
      <3>2. pending_regs' \in {pending_regs, [pending_regs EXCEPT ![r][a] = NoPending]}
        BY <2>1 DEF delete_pending_reg, pendVars
      <3>3. pending_regs \in [Rooms -> [Addrs -> PendingReg]] /\ r \in Rooms /\ a \in Addrs
        BY <1>0, <2>1 DEF MapsOK
      <3>4. [pending_regs EXCEPT ![r][a] = NoPending] \in [Rooms -> [Addrs -> PendingReg]]
        BY <3>1, <3>3, PendingUpdate, Zenon
      <3> QED BY <3>2, <3>3, <3>4, Zenon
    <2>3. pending_ip' \in [IPs -> Nat]
      BY <1>0, <2>1 DEF MapsOK, delete_pending_reg, pendVars, remove_pending_ip
    <2> QED BY <1>r, <2>1, <2>2, <2>3
  <1>3. CASE StorePendingReg(w) \/ InsertPendingReg(w)
    <2>1. /\ UNCHANGED roomVars /\ pc[w] # "idle"
          /\ pending_regs' \in {pending_regs, [pending_regs EXCEPT ![r][a] = NewPending(w)]}
          /\ pending_ip' \in {pending_ip, [pending_ip EXCEPT ![IpKey[a]] = @ + 1]}
      BY <1>3 DEF StorePendingReg, InsertPendingReg
    <2>2. NewPending(w) \in PendingReg
      BY <1>0 DEF NewPending, FreshCookie, PendingReg
    <2>3. pending_regs' \in [Rooms -> [Addrs -> PendingReg]]
      <3>1. pending_regs \in [Rooms -> [Addrs -> PendingReg]] /\ r \in Rooms /\ a \in Addrs
        BY <1>0, <2>1 DEF MapsOK
      <3>2. [pending_regs EXCEPT ![r][a] = NewPending(w)] \in [Rooms -> [Addrs -> PendingReg]]
        BY <2>2, <3>1, PendingUpdate, Zenon
      <3> QED BY <2>1, <3>1, <3>2, Zenon
    <2>4. pending_ip' \in [IPs -> Nat]
      BY <1>0, <2>1 DEF MapsOK
    <2> QED BY <1>r, <2>1, <2>3, <2>4
  <1>4. CASE CreateCheck(w)
    <2>1. UNCHANGED pendVars /\ (UNCHANGED roomVars \/ evict_stale_rooms(Shard[r], now))
      BY <1>4, Zenon DEF CreateCheck
    <2> QED BY <1>0, <2>1, EvictTypes DEF MapsOK, roomVars, pendVars
  <1>5. CASE Create(w)
    <2>1. pc[w] # "idle" /\ UNCHANGED pendVars /\ ip_counts' = ip_counts \cup {<<IpKey[a], r>>}
      BY <1>5 DEF Create
    <2>2. PICK e \in EntryIds : /\ rooms' = [rooms EXCEPT ![r] = e]
                                /\ entries' = [entries EXCEPT ![e] = admit(EmptyEntry, a, now)]
      BY <1>5, Zenon DEF Create
    <2>3. admit(EmptyEntry, a, now) \in RoomEntry
      BY <1>0, <2>1, EmptyEntryType, EntryUpdateTypes, Zenon
    <2>4. entries' \in E
      BY <1>0, <2>2, <2>3
    <2> QED BY <1>0, <2>1, <2>2, <2>4 DEF MapsOK, pendVars
  <1>6. CASE JoinPendingCheck(w)
    <2>1. /\ pc[w] = "admit" /\ rooms[r] # NoEntry /\ UNCHANGED pendVars
          /\ JoinCheck(w, rooms[r], "joinPending")
      BY <1>6 DEF JoinPendingCheck
    <2>2. rooms[r] \in EntryIds
      BY <1>0, <2>1
    <2> QED BY <1>0, <1>p, <2>1, <2>2, JoinCheckTypes

  <1>7. CASE Join(w)
    <2> DEFINE e == entries[arc[w]]
               old == IF pc[w] = "joinRoom" THEN remove_pending(e, a) ELSE e
    <2>1. /\ HoldsEntry(w) /\ UNCHANGED pendVars /\ rooms' = rooms
          /\ ip_counts' \in {ip_counts, ip_counts \cup {<<IpKey[a], r>>}}
          /\ entries' = DropArcs([entries EXCEPT ![arc[w]] = admit(old, a, now)])
      BY <1>7 DEF Join
    <2>2. pc[w] # "idle" /\ arc[w] \in EntryIds
      BY <1>0, <2>1 DEF HoldsEntry
    <2>3. old \in RoomEntry
      BY <1>0, <2>1, <2>2, EntryUpdateTypes, Zenon
    <2> HIDE DEF old
    <2>4. admit(old, a, now) \in RoomEntry
      BY <1>0, <2>2, <2>3, EntryUpdateTypes, Zenon
    <2>5. entries' \in E
      BY <1>0, <2>1, <2>4, HeapUpdate, ZenonT(30)
    <2>6. <<IpKey[a], r>> \in IPs \X Rooms
      BY <1>0, <2>2
    <2>7. ip_counts' \subseteq IPs \X Rooms
      BY <1>0, <2>1, <2>6
    <2> QED BY <1>p, <2>1, <2>5, <2>7, Zenon
  <1>8. CASE EntryCookie(w)
    <2> DEFINE e == entries[arc[w]]
    <2>1. pc[w] = "entry" /\ UNCHANGED pendVars
      BY <1>8, Zenon DEF EntryCookie
    <2>2. arc[w] \in EntryIds /\ e \in RoomEntry /\ remove_pending(e, a) \in RoomEntry
      BY <1>0, <2>1, EntryUpdateTypes, ZenonT(30)
    <2>3. \/ rooms' = rooms /\ entries' = DropArcs(entries) /\ ip_counts' = ip_counts
          \/ /\ rooms' = rooms /\ ip_counts' = ip_counts
             /\ entries' = DropArcs([entries EXCEPT ![arc[w]] = remove_pending(e, a)])
          \/ JoinCheck(w, arc[w], "joinRoom")
      BY <1>0, <1>8, <2>2, Zenon DEF EntryCookie
    <2>4. rooms' = rooms /\ entries' \in E /\ ip_counts' \subseteq IPs \X Rooms
      BY <1>0, <2>2, <2>3, DropArcsType, HeapUpdate, JoinCheckTypes, ZenonT(30)
    <2> QED BY <1>p, <2>1, <2>4
  <1>9. CASE EntryPlain(w)
    <2> DEFINE e == remove_stale_clients(entries[arc[w]], now)
    <2>1. /\ pc[w] = "entry" /\ UNCHANGED pendVars /\ rooms' = rooms
          /\ ip_counts' \subseteq ip_counts
      BY <1>9, Zenon DEF EntryPlain
    <2>2. \E new \in {e, PlainRegistered(e, a), PlainReissued(e, a),
                      add_pending(e, a, FreshCookie, now)} :
            entries' = DropArcs([entries EXCEPT ![arc[w]] = new])
      BY <1>9, ZenonT(30) DEF EntryPlain
    <2>3. e \in RoomEntry
      BY <1>0, <2>1, RemoveStaleType
    <2> HIDE DEF e
    <2>4. /\ PlainRegistered(e, a) \in RoomEntry /\ PlainReissued(e, a) \in RoomEntry
          /\ add_pending(e, a, FreshCookie, now) \in RoomEntry
      <3>1. FreshCookie \in Nat /\ a \in Addrs
        BY <1>0, <2>1 DEF FreshCookie
      <3> QED BY <1>0, <2>3, <3>1, EntryUpdateTypes, Zenon DEF PlainRegistered, PlainReissued
    <2>5. entries' \in E
      <3>1. PICK new \in RoomEntry : entries' = DropArcs([entries EXCEPT ![arc[w]] = new])
        BY <2>2, <2>3, <2>4
      <3> QED BY <1>0, <3>1, HeapUpdate, ZenonT(30)
    <2> QED BY <1>0, <1>p, <2>1, <2>5
  <1>10. CASE MsgEntry(w) \/ Forward(w)
    <2>1. /\ UNCHANGED <<pendVars, rooms, ip_counts>>
          /\ entries' = entries \/ entries' = DropArcs(entries)
      BY <1>10 DEF MsgEntry, Forward
    <2> QED BY <1>0, <1>p, <2>1, DropArcsType
  <1> QED
    BY <1>1, <1>2, <1>3, <1>4, <1>5, <1>6, <1>7, <1>8, <1>9, <1>10 DEF Working

=============================================================================
