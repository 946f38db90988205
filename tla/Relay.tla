------------------------------- MODULE Relay -------------------------------
(***************************************************************************)
(* The rendezvous relay (crates/qvole-relay/src/relay.rs).  A pool of       *)
(* worker tasks handles REG and MSG datagrams; a cleanup task sweeps stale  *)
(* rooms and pending registrations.  They share room shards, per-IP room    *)
(* links, the pre-cookie pending store and two atomic counters.             *)
(*                                                                          *)
(* One action is one critical section of the code: what runs between taking *)
(* the first lock and releasing the last.  A section that reads a counter   *)
(* shared with other shards and acts on it afterwards is split in two, and  *)
(* the process keeps its locks in between.  std::sync::Mutex guards are not *)
(* variables: the locks a process holds follow from its pc (HoldsShard,     *)
(* HoldsEntry, HoldsPendingShard).                                          *)
(*                                                                          *)
(* A datagram that the rate limiters, the parser or the write path drop     *)
(* changes none of this state, so those drops are steps that do not occur.  *)
(***************************************************************************)
EXTENDS RelayRoom, Sequences

CONSTANTS
  Rooms,                    \* room names
  NumShards, Shard,         \* NUM_SHARDS and shard_idx, [Rooms -> 0..NumShards-1]
  Workers, Cleaner,         \* worker tasks and the cleanup task
  EntryIds,                 \* addresses of RoomEntry allocations, 1..n
  NoReq,                    \* an idle worker has no request
  MaxRooms, MaxRoomsPerIP, MaxClientsHard, MaxClientsPerPrefix,
  MaxPendingPerIP, MaxPendingGlobal, MaxPendingPerRoom,
  MaxTime, MaxCookies,      \* bounds of the model: clock, cookies issued
  MaxStall                  \* ticks a task may spend between two clock reads

ASSUME RelayAssumption ==
  /\ IsFiniteSet(Rooms) /\ IsFiniteSet(Workers)
  /\ NumShards \in Nat \ {0}
  /\ Shard \in [Rooms -> 0 .. NumShards - 1]
  /\ Workers # {} /\ Cleaner \notin Workers
  /\ EntryIds \subseteq Nat \ {0}
  /\ NoReq \notin [room : Rooms, src : Addrs, cookie : Nat]
  /\ {MaxRooms, MaxRoomsPerIP, MaxClientsHard, MaxClientsPerPrefix} \subseteq Nat \ {0}
  /\ {MaxPendingPerIP, MaxPendingGlobal, MaxPendingPerRoom} \subseteq Nat \ {0}
  /\ {MaxTime, MaxCookies, MaxStall} \subseteq Nat

VARIABLES
  now,                \* Instant::now()
  issued,             \* issued[c] = <<room, src>> the cookie c was sent for
  rooms,              \* shards: the entry a room name maps to
  entries,            \* the RoomEntry behind each Arc
  ip_counts,          \* <<ip, room>> links behind count_ip_rooms
  total_room_count,
  pending_regs,       \* pending_shards: pre-cookie registrations
  pending_total,
  pending_ip,         \* pending_ip_shards
  pc, req, arc,       \* per task: position, datagram, cloned Arc
  at,                 \* the Instant the task captured last
  idx,                \* the next shard its sweep visits
  owed,               \* rooms its sweep evicted, not yet subtracted
  swept,              \* keys the cleaner evicted, not yet subtracted
  targets             \* addresses a worker is about to write MSGD to

roomVars == <<rooms, entries, ip_counts, total_room_count>>
pendVars == <<pending_regs, pending_total, pending_ip>>
sweepVars == <<idx, owed, swept>>
vars == <<now, issued, roomVars, pendVars, pc, req, arc, at, sweepVars, targets>>

Procs == Workers \cup {Cleaner}
NoEntry == 0
Request == [room : Rooms, src : Addrs, cookie : Nat]

WorkerPC == {"idle", "delExpired", "delMatched", "checkRooms", "sweep", "sub",
             "admit", "create", "joinPending", "joinRoom", "lookup", "entry",
             "reissue", "store", "insert", "msg", "forward"}
CleanerPC == {"idle", "sweep", "sub", "pendSweep", "pendSub", "ipSub"}

Init ==
  /\ now = 0
  /\ issued = << >>
  /\ rooms = [r \in Rooms |-> NoEntry]
  /\ entries = [e \in EntryIds |-> EmptyEntry]
  /\ ip_counts = {}
  /\ total_room_count = 0
  /\ pending_regs = [r \in Rooms |-> [a \in Addrs |-> NoPending]]
  /\ pending_total = 0
  /\ pending_ip = [ip \in IPs |-> 0]
  /\ pc = [p \in Procs |-> "idle"]
  /\ req = [w \in Workers |-> NoReq]
  /\ arc = [w \in Workers |-> NoEntry]
  /\ at = [p \in Procs |-> 0]
  /\ idx = [p \in Procs |-> 0]
  /\ owed = [p \in Procs |-> {}]
  /\ swept = {}
  /\ targets = [w \in Workers |-> {}]

----------------------------------------------------------------------------
(* Locks.                                                                   *)

HoldsShard(w) == pc[w] \in {"create", "joinPending", "joinRoom"}
HoldsEntry(w) == pc[w] \in {"joinPending", "joinRoom"}
HoldsPendingShard(w) == pc[w] = "insert"

ShardFree(s) == \A w \in Workers : HoldsShard(w) => Shard[req[w].room] # s
EntryFree(e) == \A w \in Workers : HoldsEntry(w) => arc[w] # e
PendingShardFree(s) ==
  \A w \in Workers : HoldsPendingShard(w) => Shard[req[w].room] # s

(* A worker's position, and the end of a handler.  Dropping the last Arc    *)
(* frees the entry: DropArcs is applied to the heap after every step that   *)
(* unlinks a room or ends a handler holding an Arc.                         *)

Goto(p, label) == pc' = [pc EXCEPT ![p] = label]

Done(w) ==
  /\ Goto(w, "idle")
  /\ req' = [req EXCEPT ![w] = NoReq]
  /\ arc' = [arc EXCEPT ![w] = NoEntry]
  /\ at' = [at EXCEPT ![w] = 0]

DropArcs(heap) ==
  [e \in EntryIds |->
     IF (\E r \in Rooms : rooms'[r] = e) \/ (\E w \in Workers : arc'[w] = e)
     THEN heap[e] ELSE EmptyEntry]

\* The shared caps, as every check compares them.  (Mutants: > for >=.)
RoomsFull_OffByOne(n) == n > MaxRooms
RoomsFull(n) == n >= MaxRooms

count_ip_rooms(links, ip) == Cardinality({r \in Rooms : <<ip, r>> \in links})
IpRoomsFull_OffByOne(links, ip) == count_ip_rooms(links, ip) > MaxRoomsPerIP
IpRoomsFull(links, ip) == count_ip_rooms(links, ip) >= MaxRoomsPerIP

ClientsFull(e) == Cardinality(Clients(e)) >= MaxClientsHard

PrefixFull(e, ip) == count_prefix_clients(e, ip) >= MaxClientsPerPrefix

PendingFull(n) == n >= MaxPendingGlobal

\* Cookies come from a CSPRNG and never repeat; a worker between the check
\* and the insert has its cookie reserved.
CookieLeft ==
  Len(issued) + Cardinality({w \in Workers : pc[w] \in {"store", "insert"}})
    < MaxCookies
FreshCookie == Len(issued) + 1

----------------------------------------------------------------------------
(* Sweeping one room shard, with its lock held: evict_stale_rooms.          *)

ShardRooms(s) == {r \in Rooms : Shard[r] = s /\ rooms[r] # NoEntry}

Evicted(s, t) == {r \in ShardRooms(s) : evictable(entries[rooms[r]], t)}

Unlinked(s, t) ==
  {link \in ip_counts : /\ link[2] \in ShardRooms(s)
                        /\ link[1] \in unlinked_ips(entries[rooms[link[2]]], t)}

evict_stale_rooms(s, t) ==
  /\ \A r \in ShardRooms(s) : EntryFree(rooms[r])
  /\ rooms' = [r \in Rooms |-> IF r \in Evicted(s, t) THEN NoEntry ELSE rooms[r]]
  /\ entries' = DropArcs([e \in EntryIds |->
                            IF \E r \in ShardRooms(s) : rooms[r] = e
                            THEN remove_stale_clients(entries[e], t)
                            ELSE entries[e]])
  /\ ip_counts' = ip_counts \ Unlinked(s, t)

(* evict_stale_rooms_all and the room half of the cleanup tick: one shard   *)
(* lock at a time, against the Instant captured when the sweep began; the   *)
(* counter is corrected once, after the last shard.                         *)

\* (Mutant: the shard's count replaces the running total.)
TotalEvicted_LastShard(p) == Evicted(idx[p], at[p])
TotalEvicted(p) == owed[p] \cup Evicted(idx[p], at[p])

SweepShard(p) ==
  /\ pc[p] = "sweep"
  /\ ShardFree(idx[p])
  /\ arc' = arc
  /\ evict_stale_rooms(idx[p], at[p])
  /\ owed' = [owed EXCEPT ![p] = TotalEvicted(p)]
  /\ IF idx[p] + 1 = NumShards
     THEN Goto(p, "sub") /\ idx' = [idx EXCEPT ![p] = 0]
     ELSE pc' = pc /\ idx' = [idx EXCEPT ![p] = @ + 1]
  /\ UNCHANGED <<now, issued, total_room_count, pendVars, req, at, swept, targets>>

\* (Mutant: sweep until the relay is below its cap.)
AfterSweep_Retry(p) == IF p = Cleaner THEN "pendSweep" ELSE "checkRooms"
AfterSweep(p) == IF p = Cleaner THEN "pendSweep" ELSE "admit"

SubtractEvicted(p) ==
  /\ pc[p] = "sub"
  /\ total_room_count' = total_room_count - Cardinality(owed[p])
  /\ owed' = [owed EXCEPT ![p] = {}]
  /\ Goto(p, AfterSweep(p))
  /\ at' = IF p = Cleaner THEN [at EXCEPT ![p] = now] ELSE at
  /\ UNCHANGED <<now, issued, rooms, entries, ip_counts, pendVars, req, arc,
                 idx, swept, targets>>

----------------------------------------------------------------------------
(* The cleanup task (the room_tick arm in run): sweep the rooms, then       *)
(* remove_stale_pending_regs, which clears every pending shard first and    *)
(* corrects the counters afterwards, the per-IP ones one at a time.         *)

\* Mutant: the Instant is captured once, when the task starts.
RoomTick_OldInstant ==
  /\ pc[Cleaner] = "idle"
  /\ Goto(Cleaner, "sweep")
  /\ UNCHANGED <<now, issued, roomVars, pendVars, req, arc, at, sweepVars, targets>>

RoomTick ==
  /\ pc[Cleaner] = "idle"
  /\ Goto(Cleaner, "sweep")
  /\ at' = [at EXCEPT ![Cleaner] = now]
  /\ UNCHANGED <<now, issued, roomVars, pendVars, req, arc, sweepVars, targets>>

\* (Mutant: a tick late.)
StaleKeys_Late(s, t) ==
  {k \in Rooms \X Addrs : /\ Shard[k[1]] = s
                          /\ pending_regs[k[1]][k[2]] # NoPending
                          /\ Expired(pending_regs[k[1]][k[2]], t - 1)}

StaleKeys(s, t) ==
  {k \in Rooms \X Addrs : /\ Shard[k[1]] = s
                          /\ pending_regs[k[1]][k[2]] # NoPending
                          /\ Expired(pending_regs[k[1]][k[2]], t)}

SweepPendingShard ==
  LET s == idx[Cleaner]
      stale == StaleKeys(s, at[Cleaner])
  IN /\ pc[Cleaner] = "pendSweep"
     /\ PendingShardFree(s)
     /\ pending_regs' = [r \in Rooms |-> [a \in Addrs |->
                           IF <<r, a>> \in stale THEN NoPending
                                                 ELSE pending_regs[r][a]]]
     /\ swept' = swept \cup stale
     /\ IF s + 1 = NumShards
        THEN Goto(Cleaner, "pendSub") /\ idx' = [idx EXCEPT ![Cleaner] = 0]
        ELSE pc' = pc /\ idx' = [idx EXCEPT ![Cleaner] = s + 1]
     /\ UNCHANGED <<now, issued, roomVars, pending_total, pending_ip, req, arc,
                    at, owed, targets>>

SubtractPending ==
  /\ pc[Cleaner] = "pendSub"
  /\ pending_total' = pending_total - Cardinality(swept)
  /\ Goto(Cleaner, "ipSub")
  /\ UNCHANGED <<now, issued, roomVars, pending_regs, pending_ip, req, arc, at,
                 sweepVars, targets>>

\* remove_pending_ip: saturating_sub, the key is dropped at zero.
remove_pending_ip(counts, ip) ==
  [counts EXCEPT ![ip] = IF @ > 0 THEN @ - 1 ELSE 0]

SubtractPendingIp ==
  /\ pc[Cleaner] = "ipSub"
  /\ \/ /\ swept = {}
        /\ Goto(Cleaner, "idle")
        /\ at' = [at EXCEPT ![Cleaner] = 0]
        /\ UNCHANGED <<pending_ip, swept>>
     \/ \E k \in swept :
          /\ pending_ip' = remove_pending_ip(pending_ip, IpKey[k[2]])
          /\ swept' = swept \ {k}
          /\ UNCHANGED <<pc, at>>
  /\ UNCHANGED <<now, issued, roomVars, pending_regs, pending_total, req, arc,
                 idx, owed, targets>>

----------------------------------------------------------------------------
(* REG with a cookie (handle_reg 693-920).  First the pending store.        *)

Start(w, label, r, a, c) ==
  /\ pc[w] = "idle"
  /\ Goto(w, label)
  /\ req' = [req EXCEPT ![w] = [room |-> r, src |-> a, cookie |-> c]]
  /\ at' = [at EXCEPT ![w] = now]

CookieMatches(p, c) == p.cookie = c

RegCookie(w, r, a, c) ==
  LET p == pending_regs[r][a]
  IN /\ PendingShardFree(Shard[r])
     /\ \/ p = NoPending /\ Start(w, "lookup", r, a, c)
        \/ CookieMatches(p, c) /\ Expired(p, now) /\ Start(w, "delExpired", r, a, c)
        \/ CookieMatches(p, c) /\ ~ Expired(p, now) /\ Start(w, "delMatched", r, a, c)
     /\ UNCHANGED <<now, issued, roomVars, pendVars, arc, sweepVars, targets>>

\* delete_pending_reg: removes whatever is stored under the key by now, and
\* counts it only if something was.  (Mutant: counts it always.)
delete_pending_reg_Always(r, a) ==
  /\ pending_regs' = [pending_regs EXCEPT ![r][a] = NoPending]
  /\ pending_total' = pending_total - 1
  /\ pending_ip' = remove_pending_ip(pending_ip, IpKey[a])

delete_pending_reg(r, a) ==
  IF pending_regs[r][a] # NoPending
  THEN /\ pending_regs' = [pending_regs EXCEPT ![r][a] = NoPending]
       /\ pending_total' = pending_total - 1
       /\ pending_ip' = remove_pending_ip(pending_ip, IpKey[a])
  ELSE UNCHANGED pendVars

DeletePendingReg(w) ==
  /\ pc[w] \in {"delExpired", "delMatched"}
  /\ PendingShardFree(Shard[req[w].room])
  /\ delete_pending_reg(req[w].room, req[w].src)
  /\ \/ pc[w] = "delExpired" /\ Done(w)
     \/ pc[w] = "delMatched" /\ Goto(w, "checkRooms") /\ UNCHANGED <<req, arc, at>>
  /\ UNCHANGED <<now, issued, roomVars, sweepVars, targets>>

\* reg_cookie_create_or_admit: sweep all shards, holding no lock, if the relay
\* looks full.
CheckRooms(w) ==
  /\ pc[w] = "checkRooms"
  /\ IF RoomsFull(total_room_count)
     THEN Goto(w, "sweep") /\ at' = [at EXCEPT ![w] = now]
     ELSE Goto(w, "admit") /\ at' = at
  /\ UNCHANGED <<now, issued, roomVars, pendVars, req, arc, sweepVars, targets>>
\* The room does not exist: re-sweep the target shard if still full, re-check
\* the caps, and go on to create it with the shard lock held.
CreateCheck(w) ==
  LET s == Shard[req[w].room]
  IN /\ pc[w] = "admit"
     /\ rooms[req[w].room] = NoEntry
     /\ ShardFree(s)
     /\ arc' = arc
     /\ \/ /\ RoomsFull(total_room_count)
           /\ evict_stale_rooms(s, now)
           /\ total_room_count' = total_room_count - Cardinality(Evicted(s, now))
        \/ ~ RoomsFull(total_room_count) /\ UNCHANGED roomVars
     /\ IF \/ RoomsFull(total_room_count')
           \/ IpRoomsFull(ip_counts', IpKey[req[w].src])
        THEN Done(w)
        ELSE Goto(w, "create") /\ UNCHANGED <<req, at>>
     /\ UNCHANGED <<now, issued, pendVars, sweepVars, targets>>

Create(w) ==
  LET r == req[w].room
      a == req[w].src
      unused == {e \in EntryIds : /\ \A q \in Rooms : rooms[q] # e
                                  /\ \A v \in Workers : arc[v] # e}
  IN /\ pc[w] = "create"
     /\ \E e \in unused :
          /\ \A f \in unused : e <= f
          /\ rooms' = [rooms EXCEPT ![r] = e]
          /\ entries' = [entries EXCEPT ![e] = admit(EmptyEntry, a, now)]
     /\ total_room_count' = total_room_count + 1
     /\ ip_counts' = ip_counts \cup {<<IpKey[a], r>>}
     /\ Done(w)
     /\ UNCHANGED <<now, issued, pendVars, sweepVars, targets>>

\* The caps a completed cookie is checked against in an existing room.
Admissible(e, a, links) ==
  /\ a \notin Clients(e) => /\ ~ ClientsFull(e)
                            /\ ~ PrefixFull(e, IpKey[a])
  /\ \/ ClientsOfIp(e, IpKey[a]) # {}
     \/ ~ IpRoomsFull(links, IpKey[a])

\* Evict the entry's stale clients and their links, then check the caps; keep
\* the shard and entry locks and admit at label, or drop the datagram.
JoinCheck(w, id, label) ==
  LET e == remove_stale_clients(entries[id], now)
      links == {l \in ip_counts : ~ (/\ l[2] = req[w].room
                                     /\ l[1] \in unlinked_ips(entries[id], now))}
  IN /\ rooms' = rooms
     /\ ip_counts' = links
     /\ IF Admissible(e, req[w].src, links)
        THEN Goto(w, label) /\ arc' = [arc EXCEPT ![w] = id] /\ UNCHANGED <<req, at>>
        ELSE Done(w)
     /\ entries' = DropArcs([entries EXCEPT ![id] = e])
     /\ UNCHANGED total_room_count

JoinPendingCheck(w) ==
  LET id == rooms[req[w].room]
  IN /\ pc[w] = "admit"
     /\ id # NoEntry
     /\ ShardFree(Shard[req[w].room]) /\ EntryFree(id)
     /\ JoinCheck(w, id, "joinPending")
     /\ UNCHANGED <<now, issued, pendVars, sweepVars, targets>>

\* Admission.  Only the in-room path takes the in-room pending entry away, and
\* the two paths differ in whether src itself counts as "IP already in room".
Join(w) ==
  LET r == req[w].room
      a == req[w].src
      e == entries[arc[w]]
      mine == ClientsOfIp(e, IpKey[a])
      others == IF pc[w] = "joinRoom" THEN mine \ {a} ELSE mine
  IN /\ HoldsEntry(w)
     /\ rooms' = rooms
     /\ ip_counts' = IF others = {} THEN ip_counts \cup {<<IpKey[a], r>>} ELSE ip_counts
     /\ Done(w)
     /\ entries' = DropArcs([entries EXCEPT ![arc[w]] =
                       admit(IF pc[w] = "joinRoom" THEN remove_pending(e, a) ELSE e, a, now)])
     /\ UNCHANGED <<now, issued, total_room_count, pendVars, sweepVars, targets>>

----------------------------------------------------------------------------
(* REG without a cookie (handle_reg 922-1030), and the tail both paths      *)
(* share: look the room up, release the shard lock, act on the Arc or store *)
(* a pending registration.                                                  *)

RegPlain(w, r, a) ==
  /\ ~ IpRoomsFull(ip_counts, IpKey[a])
  /\ Start(w, "lookup", r, a, 0)
  /\ UNCHANGED <<now, issued, roomVars, pendVars, arc, sweepVars, targets>>

Lookup(w) ==
  LET id == rooms[req[w].room]
  IN /\ pc[w] = "lookup"
     /\ ShardFree(Shard[req[w].room])
     /\ arc' = [arc EXCEPT ![w] = id]
     /\ Goto(w, IF id = NoEntry THEN "reissue" ELSE "entry")
     /\ UNCHANGED <<now, issued, roomVars, pendVars, req, at, sweepVars, targets>>

\* The shard and entry locks are taken again; nothing checks that the Arc is
\* still the one the room maps to.
EntryCookie(w) ==
  LET a == req[w].src
      p == entries[arc[w]].pending[a]
  IN /\ pc[w] = "entry" /\ req[w].cookie # 0
     /\ ShardFree(Shard[req[w].room]) /\ EntryFree(arc[w])
     /\ \/ /\ ~ CookieMatches(p, req[w].cookie)
           /\ Done(w)
           /\ rooms' = rooms
           /\ entries' = DropArcs(entries)
           /\ UNCHANGED <<ip_counts, total_room_count>>
        \/ /\ CookieMatches(p, req[w].cookie) /\ Expired(p, now)
           /\ Done(w)
           /\ rooms' = rooms
           /\ entries' = DropArcs([entries EXCEPT ![arc[w]] = remove_pending(@, a)])
           /\ UNCHANGED <<ip_counts, total_room_count>>
        \/ /\ CookieMatches(p, req[w].cookie) /\ ~ Expired(p, now)
           /\ JoinCheck(w, arc[w], "joinRoom")
     /\ UNCHANGED <<now, issued, pendVars, sweepVars, targets>>
\* What a REG without a cookie does to an entry whose stale clients are gone:
\* refresh an admitted client (its last_seen, not the entry's t), re-issue the
\* cookie of a pending one, or add a pending registration.
PendingRoomLeft(e, a) ==
  /\ pending_ip[IpKey[a]] + pending_count_for_ip(e, IpKey[a]) < MaxPendingPerIP
  /\ Cardinality(PendingOf(e)) < MaxPendingPerRoom
  /\ CookieLeft

PlainRegistered(e, a) == [e EXCEPT !.last_seen[a] = now]
PlainReissued(e, a) == [e EXCEPT !.pending[a].created_at = now]

EntryPlain(w) ==
  LET r == req[w].room
      a == req[w].src
      old == entries[arc[w]]
      e == remove_stale_clients(old, now)
      full == ClientsFull(e)
      fresh == a \notin Clients(e) /\ ~ full /\ a \notin PendingOf(e)
      Becomes(new) == entries' = DropArcs([entries EXCEPT ![arc[w]] = new])
  IN /\ pc[w] = "entry" /\ req[w].cookie = 0
     /\ ShardFree(Shard[r]) /\ EntryFree(arc[w])
     /\ rooms' = rooms
     /\ ip_counts' = {l \in ip_counts : ~ (l[2] = r /\ l[1] \in unlinked_ips(old, now))}
     /\ Done(w)
     /\ \/ a \in Clients(e) /\ Becomes(PlainRegistered(e, a)) /\ issued' = issued
        \/ a \notin Clients(e) /\ full /\ Becomes(e) /\ issued' = issued
        \/ /\ a \notin Clients(e) /\ ~ full /\ a \in PendingOf(e)
           /\ Becomes(PlainReissued(e, a)) /\ issued' = issued
        \/ fresh /\ ~ PendingRoomLeft(e, a) /\ Becomes(e) /\ issued' = issued
        \/ /\ fresh /\ PendingRoomLeft(e, a)
           /\ Becomes(add_pending(e, a, FreshCookie, now))
           /\ issued' = Append(issued, <<r, a>>)
     /\ UNCHANGED <<now, total_room_count, pendVars, sweepVars, targets>>

\* The room does not exist: the caps before a pending registration is stored.
\* Only the cookie path checks the room links here; the other did on arrival.
PendingCaps(w) ==
  LET ip == IpKey[req[w].src]
  IN /\ pc[w] = "reissue"
     /\ IF /\ req[w].cookie # 0 => ~ IpRoomsFull(ip_counts, ip)
           /\ pending_ip[ip] < MaxPendingPerIP
           /\ CookieLeft
        THEN Goto(w, "store") /\ at' = [at EXCEPT ![w] = now] /\ UNCHANGED <<req, arc>>
        ELSE Done(w)
     /\ UNCHANGED <<now, issued, roomVars, pendVars, sweepVars, targets>>

\* store_pending_reg: a key that exists is replaced; a new one is inserted if
\* the global count, shared by all pending shards, is below its cap.
NewPending(w) == [cookie |-> FreshCookie, created_at |-> at[w]]

StorePendingReg(w) ==
  LET r == req[w].room
      a == req[w].src
  IN /\ pc[w] = "store"
     /\ PendingShardFree(Shard[r])
     /\ \/ /\ pending_regs[r][a] # NoPending
           /\ pending_regs' = [pending_regs EXCEPT ![r][a] = NewPending(w)]
           /\ issued' = Append(issued, <<r, a>>)
           /\ Done(w)
        \/ /\ pending_regs[r][a] = NoPending
           /\ IF PendingFull(pending_total)
              THEN Done(w)
              ELSE Goto(w, "insert") /\ UNCHANGED <<req, arc, at>>
           /\ UNCHANGED <<pending_regs, issued>>
     /\ UNCHANGED <<now, roomVars, pending_total, pending_ip, sweepVars, targets>>

InsertPendingReg(w) ==
  LET r == req[w].room
      a == req[w].src
  IN /\ pc[w] = "insert"
     /\ pending_regs' = [pending_regs EXCEPT ![r][a] = NewPending(w)]
     /\ pending_total' = pending_total + 1
     /\ pending_ip' = [pending_ip EXCEPT ![IpKey[a]] = @ + 1]
     /\ issued' = Append(issued, <<r, a>>)
     /\ Done(w)
     /\ UNCHANGED <<now, roomVars, sweepVars, targets>>

----------------------------------------------------------------------------
(* MSG (handle_msg): clone the room's Arc under the shard lock, collect the *)
(* other clients under the entry lock alone, then write to them unlocked.   *)

MsgLookup(w, r, a) ==
  /\ ShardFree(Shard[r])
  /\ rooms[r] # NoEntry
  /\ Start(w, "msg", r, a, 0)
  /\ arc' = [arc EXCEPT ![w] = rooms[r]]
  /\ UNCHANGED <<now, issued, roomVars, pendVars, sweepVars, targets>>

MsgTargets(e, a) == IF a \in Clients(e) THEN Clients(e) \ {a} ELSE {}

MsgEntry(w) ==
  LET to == MsgTargets(entries[arc[w]], req[w].src)
  IN /\ pc[w] = "msg"
     /\ EntryFree(arc[w])
     /\ rooms' = rooms
     /\ \/ /\ to # {}
           /\ Goto(w, "forward")
           /\ targets' = [targets EXCEPT ![w] = to]
           /\ UNCHANGED <<req, arc, at, entries>>
        \/ \* unregistered, alone in the room, or rate limited
           /\ Done(w)
           /\ entries' = DropArcs(entries)
           /\ UNCHANGED targets
     /\ UNCHANGED <<now, issued, ip_counts, total_room_count, pendVars, sweepVars>>

Forward(w) ==
  /\ pc[w] = "forward"
  /\ rooms' = rooms
  /\ targets' = [targets EXCEPT ![w] = {}]
  /\ Done(w)
  /\ entries' = DropArcs(entries)
  /\ UNCHANGED <<now, issued, ip_counts, total_room_count, pendVars, sweepVars>>

----------------------------------------------------------------------------
\* A task runs from one clock read to its end without awaiting anything but
\* locks and socket writes, so it is overtaken by at most MaxStall ticks.
Tick ==
  /\ now < MaxTime
  /\ \A p \in Procs : pc[p] # "idle" => now - at[p] < MaxStall
  /\ now' = now + 1
  /\ UNCHANGED <<issued, roomVars, pendVars, pc, req, arc, at, sweepVars, targets>>

\* Any datagram: any source, any room, no cookie or any cookie ever issued,
\* so late, duplicated and misdirected ones are among them.
ArriveReg(w) ==
  \E r \in Rooms, a \in Addrs :
    \/ RegPlain(w, r, a)
    \/ \E c \in 1 .. Len(issued) : RegCookie(w, r, a, c)

ArriveMsg(w) == \E r \in Rooms, a \in Addrs : MsgLookup(w, r, a)

Handle(w) ==
  \/ DeletePendingReg(w) \/ CheckRooms(w) \/ SweepShard(w) \/ SubtractEvicted(w)
  \/ CreateCheck(w) \/ Create(w) \/ JoinPendingCheck(w) \/ Join(w)
  \/ Lookup(w) \/ EntryCookie(w) \/ EntryPlain(w)
  \/ PendingCaps(w) \/ StorePendingReg(w) \/ InsertPendingReg(w)
  \/ MsgEntry(w) \/ Forward(w)

Cleanup ==
  \/ RoomTick \/ SweepShard(Cleaner) \/ SubtractEvicted(Cleaner)
  \/ SweepPendingShard \/ SubtractPending \/ SubtractPendingIp

Next ==
  \/ \E w \in Workers : ArriveReg(w) \/ ArriveMsg(w) \/ Handle(w)
  \/ Cleanup
  \/ Tick

Spec == Init /\ [][Next]_vars

\* The runtime keeps running every task that is not blocked: a handler that
\* has begun goes on, and the cleanup interval keeps firing.  Clients owe
\* nothing, and nothing forces the clock.
Fairness == (\A w \in Workers : WF_vars(Handle(w))) /\ WF_vars(Cleanup)
----------------------------------------------------------------------------
(* Properties.                                                              *)

\* Every variable has its type; in particular fetch_sub never takes
\* total_room_count or pending_total below zero.
TypeOK ==
  /\ now \in Nat
  /\ issued \in Seq(Rooms \X Addrs)
  /\ rooms \in [Rooms -> EntryIds \cup {NoEntry}]
  /\ entries \in [EntryIds -> RoomEntry]
  /\ ip_counts \subseteq IPs \X Rooms
  /\ total_room_count \in Nat
  /\ pending_regs \in [Rooms -> [Addrs -> PendingReg]]
  /\ pending_total \in Nat
  /\ pending_ip \in [IPs -> Nat]
  /\ pc \in [Procs -> WorkerPC \cup CleanerPC]
  /\ req \in [Workers -> Request \cup {NoReq}]
  /\ arc \in [Workers -> EntryIds \cup {NoEntry}]
  /\ at \in [Procs -> Nat]
  /\ idx \in [Procs -> 0 .. NumShards - 1]
  /\ owed \in [Procs -> SUBSET Rooms]
  /\ swept \subseteq Rooms \X Addrs
  /\ targets \in [Workers -> SUBSET Addrs]

LiveRooms == {r \in Rooms : rooms[r] # NoEntry}
OwedRooms == {pr \in Procs \X Rooms : pr[2] \in owed[pr[1]]}

\* The atomic room counter, which the room cap is checked against, never
\* drifts: it is the number of rooms in the shards plus the evictions that
\* running sweeps have made and not yet subtracted.
RoomCount == total_room_count = Cardinality(LiveRooms) + Cardinality(OwedRooms)

PendingKeys == {k \in Rooms \X Addrs : pending_regs[k[1]][k[2]] # NoPending}
OfIp(keys, ip) == {k \in keys : IpKey[k[2]] = ip}

\* The pending counters stay exact through store, replace, delete and sweep,
\* up to the keys the cleaner has removed and not yet subtracted; so the
\* saturating_sub in remove_pending_ip never hides a lost count.
PendingCount ==
  /\ pending_total = Cardinality(PendingKeys)
                       + IF pc[Cleaner] = "ipSub" THEN 0 ELSE Cardinality(swept)
  /\ \A ip \in IPs : pending_ip[ip] = Cardinality(OfIp(PendingKeys, ip))
                                        + Cardinality(OfIp(swept, ip))

\* How many workers can be past a cap check, each under its own shard lock.
Racers == IF Cardinality(Workers) < NumShards THEN Cardinality(Workers) ELSE NumShards

\* max_rooms is checked before the counter is raised, under one of many shard
\* locks: racing completions exceed it by at most one room per other worker.
RoomSoftCap == Cardinality(LiveRooms) <= MaxRooms + Racers - 1

\* The same for the rooms one IP is linked to ...
IpSoftCap ==
  \A ip \in IPs : count_ip_rooms(ip_counts, ip) <= MaxRoomsPerIP + Racers - 1






\* A client that registered within the last RegTTL ticks stays in its room: no
\* sweep, with whatever old Instant, and no failed admission removes it.
FreshClientKept ==
  [][\A r \in LiveRooms : \A a \in Clients(entries[rooms[r]]) :
       now - entries[rooms[r]].last_seen[a] <= RegTTL
         => rooms'[r] = rooms[r] /\ a \in Clients(entries'[rooms[r]])]_vars

\* What the comment at relay.rs:753 and the test comment at tests.rs:707 say:
\* the shard lock is held from the lookup to the entry lock, so a REG is never
\* answered out of an entry the room map has dropped.
RegdInRoom == \A w \in Workers : HoldsEntry(w) => rooms[req[w].room] = arc[w]

\* An IP is linked to a room only while it has a client there.
LinkHasMember ==
  \A l \in ip_counts : /\ l[2] \in LiveRooms
                       /\ ClientsOfIp(entries[rooms[l[2]]], l[1]) # {}
\* Every datagram taken from the queue is finished with: the shard, entry and
\* pending locks the handlers wait for are always released again.
HandlersFinish == \A w \in Workers : pc[w] # "idle" ~> pc[w] = "idle"

\* A room all of whose clients are stale does not stay: the cleanup task
\* evicts it, unless a new admission revives it first.
StaleRoomCollected ==
  \A r \in Rooms : (r \in LiveRooms /\ evictable(entries[rooms[r]], now))
    ~> ~ (r \in LiveRooms /\ evictable(entries[rooms[r]], now))

\* An expired pending registration does not occupy the store for ever.
ExpiredPendingCollected ==
  \A r \in Rooms, a \in Addrs :
    (<<r, a>> \in PendingKeys /\ Expired(pending_regs[r][a], now))
      ~> ~ (<<r, a>> \in PendingKeys /\ Expired(pending_regs[r][a], now))

=============================================================================
