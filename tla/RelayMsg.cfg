SPECIFICATION Spec
CONSTANTS
  a1 = a1  a2 = a2  a3 = a3  ip1 = ip1  ip2 = ip2
  r1 = r1  r2 = r2  r3 = r3  w1 = w1  w2 = w2
  Addrs <- TwoAddrs
  IPs <- TwoIps
  IpKey <- OwnIps
  RegTTL = 0
  PendingTTL = 0
  Rooms <- OneRoom
  NumShards = 1
  Shard <- OneRoomShard
  Workers <- TwoWorkers
  Cleaner = Cleaner
  EntryIds = {1, 2, 3}
  NoReq = NoReq
  MaxRooms = 1
  MaxRoomsPerIP = 1
  MaxClientsHard = 2
  MaxClientsPerPrefix = 1
  MaxPendingPerIP = 1
  MaxPendingGlobal = 2
  MaxPendingPerRoom = 2
  MaxTime = 1
  MaxCookies = 2
  MaxStall = 0
SYMMETRY WorkerSymmetry
INVARIANTS TypeOK 
