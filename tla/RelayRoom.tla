----------------------------- MODULE RelayRoom -----------------------------
(***************************************************************************)
(* One room of the relay (crates/qvole-relay/src/room.rs): the RoomEntry    *)
(* record and the functions on it, all of which the relay calls with the    *)
(* entry's lock held.  Time is a natural number of ticks.                   *)
(*                                                                          *)
(* A source address stands for itself; its resolved_addr is always the      *)
(* address itself, so it is not kept.  pending_by_ip is the number of keys  *)
(* of pending with that IP: add_pending and remove_pending update both      *)
(* under one lock, so it is computed here instead of stored.                *)
(***************************************************************************)
EXTENDS Integers, FiniteSets

CONSTANTS
  Addrs,              \* source addresses ("ip:port") that send datagrams
  IPs,                \* rate-limit keys: an IPv4 address, an IPv6 /64
  IpKey,              \* [Addrs -> IPs], ip_key(src)
  RegTTL,             \* ticks an admitted client stays fresh (reg_ttl)
  PendingTTL          \* ticks a cookie stays valid (PENDING_REG_TTL_MS)

ASSUME RoomAssumption ==
  /\ IsFiniteSet(Addrs)
  /\ IsFiniteSet(IPs)
  /\ IpKey \in [Addrs -> IPs]
  /\ RegTTL \in Nat
  /\ PendingTTL \in Nat

\* last_seen of an address that is not in udp_clients.
Absent == -1

\* A pending registration carries a cookie (a positive number) and its
\* creation time; cookie 0 is "no pending registration".
NoPending == [cookie |-> 0, created_at |-> 0]

PendingReg == [cookie : Nat, created_at : Nat]

RoomEntry ==
  [last_seen : [Addrs -> Nat \cup {Absent}],
   pending   : [Addrs -> PendingReg],
   t         : Nat]

EmptyEntry ==
  [last_seen |-> [a \in Addrs |-> Absent],
   pending   |-> [a \in Addrs |-> NoPending],
   t         |-> 0]

\* The keys of udp_clients and of pending.
Clients(e) == {a \in Addrs : e.last_seen[a] # Absent}
PendingOf(e) == {a \in Addrs : e.pending[a] # NoPending}

Expired(p, now) == now - p.created_at > PendingTTL

ClientsOfIp(e, ip) == {a \in Clients(e) : IpKey[a] = ip}

count_prefix_clients(e, ip) == Cardinality(ClientsOfIp(e, ip))

pending_count_for_ip(e, ip) ==
  Cardinality({a \in PendingOf(e) : IpKey[a] = ip})

\* Mutant: >= for >.
StaleClients_Early(e, now) == {a \in Clients(e) : now - e.last_seen[a] >= RegTTL}
StaleClients(e, now) == {a \in Clients(e) : now - e.last_seen[a] > RegTTL}

----------------------------------------------------------------------------
(* remove_stale_clients: drops clients idle for longer than RegTTL and      *)
(* expired pending registrations.  The IPs it reports as unlinked are       *)
(* computed against udp_clients BEFORE the removal, as in the code: a stale *)
(* client counts as "still in the room" for another stale client.           *)

remove_stale_clients(e, now) ==
  [last_seen |-> [a \in Addrs |->
                    IF a \in StaleClients(e, now) THEN Absent ELSE e.last_seen[a]],
   pending   |-> [a \in Addrs |->
                    IF Expired(e.pending[a], now) THEN NoPending ELSE e.pending[a]],
   t         |-> e.t]


unlinked_ips(e, now) ==
  {ip \in IPs : \E a \in StaleClients(e, now) :
                  /\ IpKey[a] = ip
                  /\ ClientsOfIp(e, ip) = {a}}

----------------------------------------------------------------------------
add_pending(e, a, cookie, now) ==
  [e EXCEPT !.pending[a] = [cookie |-> cookie, created_at |-> now]]

remove_pending(e, a) == [e EXCEPT !.pending[a] = NoPending]

\* udp_clients.insert(src, UdpClient::new(..)); entry.t = now
admit(e, a, now) ==
  [last_seen |-> [e.last_seen EXCEPT ![a] = now], pending |-> e.pending, t |-> now]

\* evict_stale_rooms drops a room when no client is left and entry.t, the
\* time of its last admission, is itself older than RegTTL.
evictable(e, now) ==
  /\ Clients(remove_stale_clients(e, now)) = {}
  /\ now - e.t > RegTTL
=============================================================================
