------------------------------ MODULE RelayInv ------------------------------
(***************************************************************************)
(* The inductive invariant of the relay, and the proofs that its steps keep *)
(* Control and Exclusion.                                                   *)
(***************************************************************************)
EXTENDS Relay, TLAPS

----------------------------------------------------------------------------
(* The inductive invariant.  Control says where the local variables of a    *)
(* task may be non-trivial; Exclusion that the locks exclude and that what  *)
(* was checked under a lock still holds when it is used.                    *)

Control ==
  /\ \A w \in Workers : pc[w] \in WorkerPC
  /\ pc[Cleaner] \in CleanerPC
  /\ \A w \in Workers : pc[w] # "idle" => req[w] \in Request
  /\ \A w \in Workers : pc[w] \in {"entry", "joinPending", "joinRoom", "msg", "forward"}
                          => arc[w] \in EntryIds
  /\ \A p \in Procs : pc[p] \notin {"sweep", "pendSweep"} => idx[p] = 0
  /\ \A p \in Procs : pc[p] \notin {"sweep", "sub"} => owed[p] = {}
  /\ \A p \in Procs : pc[p] = "sweep" => \A r \in owed[p] : Shard[r] < idx[p]
  /\ pc[Cleaner] \notin {"pendSweep", "pendSub", "ipSub"} => swept = {}
  /\ pc[Cleaner] = "pendSweep" => \A k \in swept : Shard[k[1]] < idx[Cleaner]

Exclusion ==
  /\ \A w, v \in Workers : w # v /\ HoldsShard(w) /\ HoldsShard(v)
                             => Shard[req[w].room] # Shard[req[v].room]
  /\ \A w, v \in Workers : w # v /\ HoldsPendingShard(w) /\ HoldsPendingShard(v)
                             => Shard[req[w].room] # Shard[req[v].room]
  /\ \A w \in Workers : pc[w] = "create" => rooms[req[w].room] = NoEntry
  /\ \A w \in Workers : pc[w] = "insert"
                          => pending_regs[req[w].room][req[w].src] = NoPending

IInv == TypeOK /\ Control /\ Exclusion /\ RoomCount /\ PendingCount

\* What the variables that Control speaks of look like.
LEMMA LocalTypes ==
  ASSUME IInv
  PROVE  /\ pc \in [Procs -> WorkerPC \cup CleanerPC]
         /\ req \in [Workers -> Request \cup {NoReq}]
         /\ arc \in [Workers -> EntryIds \cup {NoEntry}]
         /\ idx \in [Procs -> 0 .. NumShards - 1]
         /\ owed \in [Procs -> SUBSET Rooms]
         /\ swept \subseteq Rooms \X Addrs
         /\ Control
  BY DEF IInv, TypeOK

\* A worker's step outside a sweep: it moves to l, touches no other task's
\* locals, and keeps a request (and an Arc where one is needed) while busy.
Move(w, l) ==
  /\ pc[w] \in WorkerPC \ {"sweep", "sub"}
  /\ l \in WorkerPC \ {"sub"}
  /\ pc' = [pc EXCEPT ![w] = l]
  /\ \A v \in Workers \ {w} : req'[v] = req[v] /\ arc'[v] = arc[v]
  /\ l # "idle" => req'[w] \in Request
  /\ l \in {"entry", "joinPending", "joinRoom", "msg", "forward"} => arc'[w] \in EntryIds
  /\ UNCHANGED sweepVars

\* Such a step preserves Control.
LEMMA MoveControl ==
  ASSUME IInv, NEW w \in Workers, NEW l, Move(w, l)
  PROVE  Control'
  BY LocalTypes, RelayAssumption DEF Control, Move, Procs, WorkerPC, CleanerPC, sweepVars

\* A handler that ends makes such a step.
LEMMA DoneMove ==
  ASSUME IInv, NEW w \in Workers, Done(w), UNCHANGED sweepVars,
         pc[w] \in WorkerPC \ {"sweep", "sub"}
  PROVE  Move(w, "idle")
  BY LocalTypes DEF Move, Done, Goto, WorkerPC

\* So does one that goes on with its request and its Arc.
LEMMA GotoMove ==
  ASSUME IInv, NEW w \in Workers, NEW l \in WorkerPC \ {"sub"}, Goto(w, l),
         pc[w] \in WorkerPC \ {"sweep", "sub", "idle"}, UNCHANGED <<req, sweepVars>>,
         \A v \in Workers \ {w} : arc'[v] = arc[v],
         l \in {"entry", "joinPending", "joinRoom", "msg", "forward"} => arc'[w] \in EntryIds
  PROVE  Move(w, l)
  BY LocalTypes DEF Move, Goto, Control

\* So does taking a datagram.
LEMMA StartMove ==
  ASSUME IInv, NEW w \in Workers, NEW l \in WorkerPC \ {"sub"},
         NEW r \in Rooms, NEW a \in Addrs, NEW c \in Nat, Start(w, l, r, a, c),
         UNCHANGED sweepVars, \A v \in Workers \ {w} : arc'[v] = arc[v],
         l \in {"entry", "joinPending", "joinRoom", "msg", "forward"} => arc'[w] \in EntryIds
  PROVE  Move(w, l)
  BY LocalTypes DEF Move, Start, Goto, Request, WorkerPC

\* Every step of a worker that is not a sweep step is a Move.
Working(w) ==
  \/ ArriveReg(w) \/ ArriveMsg(w)
  \/ DeletePendingReg(w) \/ CheckRooms(w)
  \/ CreateCheck(w) \/ Create(w) \/ JoinPendingCheck(w) \/ Join(w)
  \/ Lookup(w) \/ EntryCookie(w) \/ EntryPlain(w)
  \/ PendingCaps(w) \/ StorePendingReg(w) \/ InsertPendingReg(w)
  \/ MsgEntry(w) \/ Forward(w)

\* Every step of a worker moves its own pc to another label of handle_reg or
\* handle_msg and leaves the positions of the other tasks alone.
LEMMA WorkingMove ==
  ASSUME IInv, NEW w \in Workers, Working(w)
  PROVE  \E l \in WorkerPC \ {"sub"} : Move(w, l)
  <1> USE LocalTypes
  <1>1. CASE ArriveReg(w)
    <2>1. PICK r \in Rooms, a \in Addrs :
            RegPlain(w, r, a) \/ \E c \in 1 .. Len(issued) : RegCookie(w, r, a, c)
      BY <1>1 DEF ArriveReg
    <2>2. CASE RegPlain(w, r, a)
      <3>1. Start(w, "lookup", r, a, 0) /\ UNCHANGED <<arc, sweepVars>>
        BY <2>2 DEF RegPlain
      <3> QED BY <3>1, StartMove DEF WorkerPC
    <2>3. ASSUME NEW c \in 1 .. Len(issued), RegCookie(w, r, a, c)
          PROVE  \E l \in WorkerPC \ {"sub"} : Move(w, l)
      <3>1. UNCHANGED <<arc, sweepVars>>
        BY <2>3 DEF RegCookie
      <3>2. PICK l \in {"lookup", "delExpired", "delMatched"} : Start(w, l, r, a, c)
        BY <2>3 DEF RegCookie
      <3>3. c \in Nat
        OBVIOUS
      <3> QED BY <3>1, <3>2, <3>3, StartMove DEF WorkerPC
    <2> QED BY <2>1, <2>2, <2>3
  <1>2. CASE ArriveMsg(w)
    <2>1. PICK r \in Rooms, a \in Addrs : MsgLookup(w, r, a)
      BY <1>2 DEF ArriveMsg
    <2>2. /\ Start(w, "msg", r, a, 0) /\ UNCHANGED sweepVars
          /\ rooms[r] # NoEntry /\ arc' = [arc EXCEPT ![w] = rooms[r]]
      BY <2>1 DEF MsgLookup
    <2>3. rooms[r] \in EntryIds
      BY <2>2 DEF IInv, TypeOK
    <2> QED BY <2>2, <2>3, StartMove DEF WorkerPC
  <1>3. CASE DeletePendingReg(w)
    <2>1. /\ pc[w] \in {"delExpired", "delMatched"} /\ UNCHANGED sweepVars
          /\ Done(w) \/ (Goto(w, "checkRooms") /\ UNCHANGED <<req, arc>>)
      BY <1>3 DEF DeletePendingReg
    <2> QED BY <2>1, DoneMove, GotoMove DEF WorkerPC
  <1>4. CASE CheckRooms(w)
    <2>1. /\ pc[w] = "checkRooms" /\ UNCHANGED <<req, arc, sweepVars>>
          /\ Goto(w, "sweep") \/ Goto(w, "admit")
      BY <1>4 DEF CheckRooms
    <2> QED BY <2>1, GotoMove DEF WorkerPC
  <1>5. CASE CreateCheck(w)
    <2>1. /\ pc[w] = "admit" /\ UNCHANGED <<arc, sweepVars>>
          /\ Done(w) \/ (Goto(w, "create") /\ UNCHANGED req)
      BY <1>5 DEF CreateCheck
    <2> QED BY <2>1, DoneMove, GotoMove DEF WorkerPC
  <1>6. CASE Create(w)
    <2>1. pc[w] = "create" /\ Done(w) /\ UNCHANGED sweepVars
      BY <1>6 DEF Create
    <2> QED BY <2>1, DoneMove DEF WorkerPC
  <1>7. CASE JoinPendingCheck(w)
    <2> DEFINE id == rooms[req[w].room]
    <2>1. /\ pc[w] = "admit" /\ id # NoEntry /\ UNCHANGED sweepVars
          /\ \/ Done(w)
             \/ Goto(w, "joinPending") /\ arc' = [arc EXCEPT ![w] = id] /\ UNCHANGED req
      BY <1>7 DEF JoinPendingCheck, JoinCheck
    <2>2. id \in EntryIds
      BY <2>1 DEF IInv, TypeOK, Control, Request
    <2> QED BY <2>1, <2>2, DoneMove, GotoMove DEF WorkerPC
  <1>8. CASE Join(w)
    <2>1. pc[w] \in {"joinPending", "joinRoom"} /\ Done(w) /\ UNCHANGED sweepVars
      BY <1>8 DEF Join, HoldsEntry
    <2> QED BY <2>1, DoneMove DEF WorkerPC
  <1>9. CASE Lookup(w)
    <2> DEFINE id == rooms[req[w].room]
    <2>1. /\ pc[w] = "lookup" /\ UNCHANGED <<req, sweepVars>>
          /\ arc' = [arc EXCEPT ![w] = id]
          /\ Goto(w, IF id = NoEntry THEN "reissue" ELSE "entry")
      BY <1>9 DEF Lookup
    <2>2. id # NoEntry => id \in EntryIds
      BY <2>1 DEF IInv, TypeOK, Control, Request
    <2> QED BY <2>1, <2>2, GotoMove DEF WorkerPC
  <1>10. CASE EntryCookie(w)
    <2>1. /\ pc[w] = "entry" /\ UNCHANGED sweepVars
          /\ \/ Done(w)
             \/ Goto(w, "joinRoom") /\ arc' = [arc EXCEPT ![w] = arc[w]] /\ UNCHANGED req
      BY <1>10 DEF EntryCookie, JoinCheck
    <2>2. arc[w] \in EntryIds
      BY <2>1 DEF Control
    <2> QED BY <2>1, <2>2, DoneMove, GotoMove DEF WorkerPC
  <1>11. CASE EntryPlain(w)
    <2>1. pc[w] = "entry" /\ Done(w) /\ UNCHANGED sweepVars
      BY <1>11 DEF EntryPlain
    <2> QED BY <2>1, DoneMove DEF WorkerPC
  <1>12. CASE PendingCaps(w)
    <2>1. /\ pc[w] = "reissue" /\ UNCHANGED sweepVars
          /\ Done(w) \/ (Goto(w, "store") /\ UNCHANGED <<req, arc>>)
      BY <1>12 DEF PendingCaps
    <2> QED BY <2>1, DoneMove, GotoMove DEF WorkerPC
  <1>13. CASE StorePendingReg(w)
    <2>1. /\ pc[w] = "store" /\ UNCHANGED sweepVars
          /\ Done(w) \/ (Goto(w, "insert") /\ UNCHANGED <<req, arc>>)
      BY <1>13 DEF StorePendingReg
    <2> QED BY <2>1, DoneMove, GotoMove DEF WorkerPC
  <1>14. CASE InsertPendingReg(w)
    <2>1. pc[w] = "insert" /\ Done(w) /\ UNCHANGED sweepVars
      BY <1>14 DEF InsertPendingReg
    <2> QED BY <2>1, DoneMove DEF WorkerPC
  <1>15. CASE MsgEntry(w)
    <2>1. /\ pc[w] = "msg" /\ UNCHANGED sweepVars
          /\ Done(w) \/ (Goto(w, "forward") /\ UNCHANGED <<req, arc>>)
      BY <1>15 DEF MsgEntry
    <2>2. arc[w] \in EntryIds
      BY <2>1 DEF Control
    <2> QED BY <2>1, <2>2, DoneMove, GotoMove DEF WorkerPC
  <1>16. CASE Forward(w)
    <2>1. pc[w] = "forward" /\ Done(w) /\ UNCHANGED sweepVars
      BY <1>16 DEF Forward
    <2> QED BY <2>1, DoneMove DEF WorkerPC
  <1> QED
    BY <1>1, <1>2, <1>3, <1>4, <1>5, <1>6, <1>7, <1>8, <1>9, <1>10, <1>11, <1>12,
       <1>13, <1>14, <1>15, <1>16 DEF Working

\* The steps of Next, sorted.
LEMMA NextCases ==
  ASSUME [Next]_vars
  PROVE  \/ \E w \in Workers : Working(w)
         \/ \E p \in Procs : SweepShard(p) \/ SubtractEvicted(p)
         \/ RoomTick \/ SweepPendingShard \/ SubtractPending \/ SubtractPendingIp
         \/ Tick \/ UNCHANGED vars
  BY DEF Next, Handle, Cleanup, Working, Procs

\* Control is preserved by every step.
LEMMA ControlStep ==
  ASSUME IInv, [Next]_vars
  PROVE  Control'
  <1> USE LocalTypes, RelayAssumption DEF Goto, Procs
  <1>1. ASSUME NEW w \in Workers, Working(w) PROVE Control'
    BY <1>1, WorkingMove, MoveControl
  <1>2. ASSUME NEW p \in Procs, SweepShard(p) PROVE Control'
    <2>1. /\ pc[p] = "sweep" /\ UNCHANGED <<arc, req, swept>>
          /\ owed' = [owed EXCEPT ![p] = @ \cup Evicted(idx[p], at[p])]
          /\ IF idx[p] + 1 = NumShards
             THEN pc' = [pc EXCEPT ![p] = "sub"] /\ idx' = [idx EXCEPT ![p] = 0]
             ELSE pc' = pc /\ idx' = [idx EXCEPT ![p] = @ + 1]
      BY <1>2 DEF SweepShard, TotalEvicted
    <2>2. \A r \in Evicted(idx[p], at[p]) : Shard[r] = idx[p]
      BY DEF Evicted, ShardRooms
    <2> QED BY <2>1, <2>2 DEF Control, WorkerPC, CleanerPC
  <1>3. ASSUME NEW p \in Procs, SubtractEvicted(p) PROVE Control'
    <2>1. /\ pc[p] = "sub" /\ UNCHANGED <<arc, req, idx, swept>>
          /\ owed' = [owed EXCEPT ![p] = {}]
          /\ pc' = [pc EXCEPT ![p] = IF p = Cleaner THEN "pendSweep" ELSE "admit"]
      BY <1>3 DEF SubtractEvicted, AfterSweep
    <2> QED BY <2>1 DEF Control, WorkerPC, CleanerPC
  <1>4. CASE RoomTick
    <2>1. /\ pc[Cleaner] = "idle" /\ pc' = [pc EXCEPT ![Cleaner] = "sweep"]
          /\ UNCHANGED <<arc, req, idx, owed, swept>>
      BY <1>4 DEF RoomTick, sweepVars
    <2> QED BY <2>1 DEF Control, WorkerPC, CleanerPC
  <1>5. CASE SweepPendingShard
    <2> DEFINE s == idx[Cleaner]
               stale == StaleKeys(s, at[Cleaner])
    <2>1. /\ pc[Cleaner] = "pendSweep" /\ swept' = swept \cup stale
          /\ UNCHANGED <<arc, req, owed>>
          /\ IF s + 1 = NumShards
             THEN pc' = [pc EXCEPT ![Cleaner] = "pendSub"] /\ idx' = [idx EXCEPT ![Cleaner] = 0]
             ELSE pc' = pc /\ idx' = [idx EXCEPT ![Cleaner] = s + 1]
      BY <1>5 DEF SweepPendingShard
    <2>2. \A k \in stale : Shard[k[1]] = s
      BY DEF StaleKeys
    <2>3. \A k \in swept : Shard[k[1]] \in Nat /\ Shard[k[1]] < s
      BY <2>1 DEF Control
    <2> HIDE DEF stale
    <2> QED BY <2>1, <2>2, <2>3 DEF Control, WorkerPC, CleanerPC
  <1>6. CASE SubtractPending
    <2>1. /\ pc[Cleaner] = "pendSub" /\ pc' = [pc EXCEPT ![Cleaner] = "ipSub"]
          /\ UNCHANGED <<arc, req, idx, owed, swept>>
      BY <1>6 DEF SubtractPending, sweepVars
    <2> QED BY <2>1 DEF Control, WorkerPC, CleanerPC
  <1>7. CASE SubtractPendingIp
    <2>1. /\ pc[Cleaner] = "ipSub" /\ UNCHANGED <<arc, req, idx, owed>>
          /\ \/ swept = {} /\ pc' = [pc EXCEPT ![Cleaner] = "idle"] /\ swept' = swept
             \/ pc' = pc
      BY <1>7 DEF SubtractPendingIp
    <2> QED BY <2>1 DEF Control, WorkerPC, CleanerPC
  <1>8. CASE Tick \/ UNCHANGED vars
    <2>1. UNCHANGED <<pc, arc, req, idx, owed, swept>>
      BY <1>8 DEF Tick, vars, sweepVars
    <2> QED BY <2>1 DEF Control
  <1> QED BY <1>1, <1>2, <1>3, <1>4, <1>5, <1>6, <1>7, <1>8, NextCases

----------------------------------------------------------------------------
(* Locks.                                                                   *)

\* evict_stale_rooms only takes rooms out of the map.
LEMMA EvictRooms ==
  ASSUME NEW s, NEW t, evict_stale_rooms(s, t)
  PROVE  /\ rooms' = [r \in Rooms |-> IF r \in Evicted(s, t) THEN NoEntry ELSE rooms[r]]
         /\ \A r \in Rooms : rooms[r] = NoEntry => rooms'[r] = NoEntry
  BY DEF evict_stale_rooms

\* A worker that comes to hold a lock found it free, and holds it for the
\* request it already had; a key that appears in a map was put there by the
\* worker that holds the lock for it.
AcquiresShard(w) ==
  pc'[w] \in {"create", "joinPending", "joinRoom"}
    => /\ req' = req /\ ShardFree(Shard[req[w].room])
       /\ pc'[w] = "create" => rooms'[req[w].room] = NoEntry

AcquiresPendingShard(w) ==
  pc'[w] = "insert"
    => /\ req' = req /\ PendingShardFree(Shard[req[w].room])
       /\ pending_regs'[req[w].room][req[w].src] = NoPending

AddsRoom(w) ==
  \A r \in Rooms : rooms[r] = NoEntry
    => rooms'[r] = NoEntry \/ (pc[w] = "create" /\ r = req[w].room)

AddsPending(w) ==
  \A r \in Rooms, a \in Addrs : pending_regs[r][a] = NoPending
    => \/ pending_regs'[r][a] = NoPending
       \/ pc[w] = "insert" /\ r = req[w].room /\ a = req[w].src

Acquires(w) ==
  AcquiresShard(w) /\ AcquiresPendingShard(w) /\ AddsRoom(w) /\ AddsPending(w)

\* Most steps take no lock and add nothing.
LEMMA AcquiresNothing ==
  ASSUME NEW w \in Workers, pc \in [Procs -> WorkerPC \cup CleanerPC], NEW l,
         l \notin {"create", "joinPending", "joinRoom", "insert"},
         Goto(w, l), UNCHANGED <<rooms, pending_regs>>
  PROVE  Acquires(w)
  <1>1. pc'[w] = l
    BY DEF Goto, Procs
  <1> QED BY <1>1 DEF Acquires, AcquiresShard, AcquiresPendingShard, AddsRoom, AddsPending

\* Every worker step that takes a lock, creates a room or stores a pending
\* registration finds the lock free and the slot empty.
LEMMA Acquire ==
  ASSUME IInv, NEW w \in Workers, Working(w)
  PROVE  Acquires(w)
  <1>0. /\ pc \in [Procs -> WorkerPC \cup CleanerPC]
        /\ rooms \in [Rooms -> EntryIds \cup {NoEntry}]
        /\ pending_regs \in [Rooms -> [Addrs -> PendingReg]]
        /\ pc[w] # "idle" => req[w].room \in Rooms /\ req[w].src \in Addrs
    BY DEF IInv, TypeOK, Control, Request
  <1>l. ASSUME NEW l, Goto(w, l) PROVE pc'[w] = l
    BY <1>0, <1>l DEF Goto, Procs
  <1>1. CASE ArriveReg(w) \/ ArriveMsg(w) \/ CheckRooms(w) \/ Lookup(w) \/ PendingCaps(w)
    <2>1. UNCHANGED <<rooms, pending_regs>>
      BY <1>1, ZenonT(30) DEF ArriveReg, RegPlain, RegCookie, ArriveMsg, MsgLookup, CheckRooms, Lookup,
                  PendingCaps, roomVars, pendVars
    <2>2. \E l \in {"lookup", "delExpired", "delMatched", "msg", "sweep", "admit",
                    "reissue", "entry", "store", "idle"} : Goto(w, l)
      BY <1>1, ZenonT(30) DEF ArriveReg, RegPlain, RegCookie, ArriveMsg, MsgLookup, CheckRooms, Lookup,
                  PendingCaps, Start, Done
    <2> QED BY <1>0, <2>1, <2>2, AcquiresNothing, SMTT(30)
  <1>2. CASE DeletePendingReg(w)
    <2>1. rooms' = rooms /\ pc[w] # "idle"
      BY <1>2 DEF DeletePendingReg, roomVars
    <2>2. \E l \in {"idle", "checkRooms"} : Goto(w, l)
      BY <1>2 DEF DeletePendingReg, Done
    <2>3. \/ pending_regs' = [pending_regs EXCEPT ![req[w].room][req[w].src] = NoPending]
          \/ pending_regs' = pending_regs
      BY <1>2 DEF DeletePendingReg, delete_pending_reg, pendVars
    <2>4. AddsRoom(w) /\ AddsPending(w)
      BY <1>0, <2>1, <2>3 DEF AddsRoom, AddsPending
    <2> QED BY <1>l, <2>2, <2>4 DEF Acquires, AcquiresShard, AcquiresPendingShard
  <1>3. CASE CreateCheck(w)
    <2>1. /\ pending_regs' = pending_regs /\ ShardFree(Shard[req[w].room])
          /\ pc[w] = "admit" /\ rooms[req[w].room] = NoEntry
          /\ Goto(w, "idle") \/ (Goto(w, "create") /\ req' = req)
      BY <1>3 DEF CreateCheck, Done, pendVars
    <2>2. evict_stale_rooms(Shard[req[w].room], now) \/ UNCHANGED rooms
      BY <1>3 DEF CreateCheck, roomVars
    <2>3. \A r \in Rooms : rooms[r] = NoEntry => rooms'[r] = NoEntry
      BY <2>2, EvictRooms
    <2>4. AddsRoom(w) /\ AddsPending(w)
      BY <2>1, <2>3 DEF AddsRoom, AddsPending
    <2>5. rooms'[req[w].room] = NoEntry
      BY <1>0, <2>1, <2>3
    <2> QED BY <1>l, <2>1, <2>4, <2>5 DEF Acquires, AcquiresShard, AcquiresPendingShard
  <1>4. CASE Create(w)
    <2>1. pending_regs' = pending_regs /\ pc[w] = "create" /\ Goto(w, "idle")
      BY <1>4 DEF Create, Done, pendVars
    <2>2. \E e \in EntryIds : rooms' = [rooms EXCEPT ![req[w].room] = e]
      BY <1>4, ZenonT(30) DEF Create
    <2>3. AddsRoom(w) /\ AddsPending(w)
      BY <1>0, <2>1, <2>2 DEF AddsRoom, AddsPending
    <2> QED BY <1>l, <2>1, <2>3 DEF Acquires, AcquiresShard, AcquiresPendingShard
  <1>5. CASE JoinPendingCheck(w) \/ EntryCookie(w)
    <2>1. UNCHANGED <<rooms, pending_regs>> /\ ShardFree(Shard[req[w].room])
      BY <1>5, Zenon DEF JoinPendingCheck, EntryCookie, JoinCheck, pendVars
    <2>2. \/ Goto(w, "idle")
          \/ (Goto(w, "joinPending") \/ Goto(w, "joinRoom")) /\ req' = req
      BY <1>5, Zenon DEF JoinPendingCheck, EntryCookie, JoinCheck, Done
    <2>3. AddsRoom(w) /\ AddsPending(w)
      BY <2>1 DEF AddsRoom, AddsPending
    <2> QED BY <1>l, <2>1, <2>2, <2>3 DEF Acquires, AcquiresShard, AcquiresPendingShard
  <1>6. CASE Join(w) \/ EntryPlain(w) \/ MsgEntry(w) \/ Forward(w)
    <2>1. UNCHANGED <<rooms, pending_regs>>
      BY <1>6, ZenonT(30) DEF Join, EntryPlain, MsgEntry, Forward, pendVars
    <2>2. Goto(w, "idle") \/ Goto(w, "forward")
      BY <1>6, Zenon DEF Join, EntryPlain, MsgEntry, Forward, Done
    <2> QED BY <1>0, <2>1, <2>2, AcquiresNothing
  <1>7. CASE StorePendingReg(w)
    <2> DEFINE r == req[w].room
               a == req[w].src
    <2>1. rooms' = rooms /\ pc[w] = "store" /\ PendingShardFree(Shard[r])
      BY <1>7 DEF StorePendingReg, roomVars
    <2>2. \/ /\ pending_regs[r][a] # NoPending /\ Goto(w, "idle")
             /\ pending_regs' = [pending_regs EXCEPT ![r][a] = NewPending(w)]
          \/ /\ pending_regs[r][a] = NoPending /\ pending_regs' = pending_regs
             /\ Goto(w, "idle") \/ (Goto(w, "insert") /\ req' = req)
      BY <1>7 DEF StorePendingReg, Done
    <2>3. /\ AddsRoom(w)
          /\ \A q \in Rooms, b \in Addrs : pending_regs[q][b] = NoPending
               => pending_regs'[q][b] = NoPending
      <3>1. pending_regs[r][a] # NoPending
              => \A q \in Rooms, b \in Addrs : pending_regs[q][b] = NoPending
                   => [pending_regs EXCEPT ![r][a] = NewPending(w)][q][b] = NoPending
        BY <1>0
      <3> QED BY <2>1, <2>2, <3>1, ZenonT(30) DEF AddsRoom
    <2>4. AddsPending(w)
      BY <2>3 DEF AddsPending
    <2> QED BY <1>l, <2>1, <2>2, <2>3, <2>4 DEF Acquires, AcquiresShard, AcquiresPendingShard
  <1>8. CASE InsertPendingReg(w)
    <2>1. /\ rooms' = rooms /\ pc[w] = "insert" /\ Goto(w, "idle")
          /\ pending_regs' = [pending_regs EXCEPT ![req[w].room][req[w].src] = NewPending(w)]
      BY <1>8 DEF InsertPendingReg, Done, roomVars
    <2>2. AddsRoom(w) /\ AddsPending(w)
      BY <1>0, <2>1 DEF AddsRoom, AddsPending
    <2> QED BY <1>l, <2>1, <2>2 DEF Acquires, AcquiresShard, AcquiresPendingShard
  <1> QED
    BY <1>1, <1>2, <1>3, <1>4, <1>5, <1>6, <1>7, <1>8, Zenon DEF Working

\* Exclusion is preserved by every step.
LEMMA ExclusionStep ==
  ASSUME IInv, [Next]_vars
  PROVE  Exclusion'
  <1>0. Exclusion
    BY DEF IInv
  <1>q. \A v \in Workers : pc[v] # "idle" => req[v].room \in Rooms /\ req[v].src \in Addrs
    BY DEF IInv, Control, Request
  <1>1. ASSUME NEW w \in Workers, Working(w) PROVE Exclusion'
    <2>1. PICK l \in WorkerPC : Move(w, l)
      BY <1>1, WorkingMove
    <2>2. \A v \in Workers \ {w} : req'[v] = req[v] /\ pc'[v] = pc[v]
      BY <2>1, LocalTypes DEF Move, Procs
    <2>3. AcquiresShard(w) /\ AcquiresPendingShard(w) /\ AddsRoom(w) /\ AddsPending(w)
      BY <1>1, Acquire DEF Acquires
    <2>4. ASSUME NEW u \in Workers, NEW v \in Workers, u # v, HoldsShard(u)', HoldsShard(v)'
          PROVE  Shard[req'[u].room] # Shard[req'[v].room]
      <3>1. \A x \in Workers : x # w /\ HoldsShard(x)' => HoldsShard(x) /\ req'[x] = req[x]
        BY <2>2 DEF HoldsShard
      <3>2. HoldsShard(w)' => req' = req /\ ShardFree(Shard[req[w].room])
        BY <2>3 DEF HoldsShard, AcquiresShard
      <3>3. CASE u # w /\ v # w
        BY <1>0, <2>4, <3>1, <3>3 DEF Exclusion
      <3>4. CASE u = w \/ v = w
        BY <2>4, <3>1, <3>2, <3>4 DEF ShardFree
      <3> QED BY <3>3, <3>4
    <2>5. ASSUME NEW u \in Workers, NEW v \in Workers, u # v,
                 HoldsPendingShard(u)', HoldsPendingShard(v)'
          PROVE  Shard[req'[u].room] # Shard[req'[v].room]
      <3>1. \A x \in Workers : x # w /\ HoldsPendingShard(x)'
                               => HoldsPendingShard(x) /\ req'[x] = req[x]
        BY <2>2 DEF HoldsPendingShard
      <3>2. HoldsPendingShard(w)' => req' = req /\ PendingShardFree(Shard[req[w].room])
        BY <2>3 DEF HoldsPendingShard, AcquiresPendingShard
      <3>3. CASE u # w /\ v # w
        BY <1>0, <2>5, <3>1, <3>3 DEF Exclusion
      <3>4. CASE u = w \/ v = w
        BY <2>5, <3>1, <3>2, <3>4 DEF PendingShardFree
      <3> QED BY <3>3, <3>4
    <2>6. ASSUME NEW v \in Workers, pc'[v] = "create" PROVE rooms'[req'[v].room] = NoEntry
      <3>1. CASE v = w
        BY <2>3, <2>6, <3>1 DEF AcquiresShard
      <3>2. CASE v # w
        <4>1. pc[v] = "create" /\ req'[v] = req[v] /\ rooms[req[v].room] = NoEntry
          BY <1>0, <2>2, <2>6, <3>2 DEF Exclusion
        <4>2. pc[w] = "create" => req[v].room # req[w].room
          BY <1>0, <3>2, <4>1 DEF Exclusion, HoldsShard
        <4> QED BY <1>q, <2>3, <4>1, <4>2 DEF AddsRoom
      <3> QED BY <3>1, <3>2
    <2>7. ASSUME NEW v \in Workers, pc'[v] = "insert"
          PROVE  pending_regs'[req'[v].room][req'[v].src] = NoPending
      <3>1. CASE v = w
        BY <2>3, <2>7, <3>1 DEF AcquiresPendingShard
      <3>2. CASE v # w
        <4>1. /\ pc[v] = "insert" /\ req'[v] = req[v]
              /\ pending_regs[req[v].room][req[v].src] = NoPending
          BY <1>0, <2>2, <2>7, <3>2 DEF Exclusion
        <4>2. pc[w] = "insert" => req[v].room # req[w].room
          BY <1>0, <3>2, <4>1 DEF Exclusion, HoldsPendingShard
        <4> QED BY <1>q, <2>3, <4>1, <4>2 DEF AddsPending
      <3> QED BY <3>1, <3>2
    <2> QED BY <2>4, <2>5, <2>6, <2>7 DEF Exclusion
  <1>s. ASSUME req' = req,
               \A w \in Workers : pc'[w] = pc[w] \/ pc'[w] \in {"sub", "admit", "pendSweep"},
               \A r \in Rooms : rooms[r] = NoEntry => rooms'[r] = NoEntry,
               \A r \in Rooms, a \in Addrs : pending_regs[r][a] = NoPending
                                               => pending_regs'[r][a] = NoPending
        PROVE  Exclusion'
    BY <1>0, <1>q, <1>s DEF Exclusion, HoldsShard, HoldsPendingShard
  <1>2. ASSUME NEW p \in Procs, SweepShard(p) \/ SubtractEvicted(p) PROVE Exclusion'
    <2>1. /\ UNCHANGED <<req, pending_regs>>
          /\ rooms' = rooms \/ evict_stale_rooms(idx[p], at[p])
      BY <1>2 DEF SweepShard, SubtractEvicted, pendVars
    <2>2. \A r \in Rooms : rooms[r] = NoEntry => rooms'[r] = NoEntry
      BY <2>1, EvictRooms
    <2>3. \A w \in Workers : pc'[w] = pc[w] \/ pc'[w] \in {"sub", "admit", "pendSweep"}
      BY <1>2, LocalTypes DEF SweepShard, SubtractEvicted, AfterSweep, Goto, Procs
    <2> QED BY <1>s, <2>1, <2>2, <2>3
  <1>3. CASE RoomTick \/ SweepPendingShard \/ SubtractPending \/ SubtractPendingIp
    <2>1. UNCHANGED <<req, rooms>> /\ (pc' = pc \/ \E l \in CleanerPC : Goto(Cleaner, l))
      BY <1>3 DEF RoomTick, SweepPendingShard, SubtractPending, SubtractPendingIp, roomVars,
                  CleanerPC
    <2>2. \A w \in Workers : pc'[w] = pc[w]
      BY <2>1, LocalTypes, RelayAssumption DEF Goto, Procs
    <2>3. \/ pending_regs' = pending_regs
          \/ \E S : pending_regs' = [r \in Rooms |-> [a \in Addrs |->
                      IF <<r, a>> \in S THEN NoPending ELSE pending_regs[r][a]]]
      BY <1>3, Zenon
         DEF RoomTick, SweepPendingShard, SubtractPending, SubtractPendingIp, pendVars
    <2>4. \A r \in Rooms, a \in Addrs : pending_regs[r][a] = NoPending
                                          => pending_regs'[r][a] = NoPending
      BY <2>3, Zenon
    <2> QED BY <1>s, <2>1, <2>2, <2>4
  <1>4. CASE Tick \/ UNCHANGED vars
    <2>1. UNCHANGED <<pc, req, rooms, pending_regs>>
      BY <1>4 DEF Tick, vars, roomVars, pendVars
    <2> QED BY <1>s, <2>1
  <1> QED BY <1>1, <1>2, <1>3, <1>4, NextCases

=============================================================================
