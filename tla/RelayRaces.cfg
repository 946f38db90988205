SPECIFICATION RegSpec
CONSTANTS
  a1 = a1  a2 = a2  a3 = a3  ip1 = ip1  ip2 = ip2
  r1 = r1  r2 = r2  r3 = r3  w1 = w1  w2 = w2
  Addrs <- OneAddr
  IPs <- OneIp
  IpKey <- SoleIp
  RegTTL = 0
  PendingTTL = 1
  Rooms <- ThreeRooms
  NumShards = 2
  Shard <- SharedShard
  Workers <- TwoWorkers
  Cleaner = Cleaner
  EntryIds = {1, 2, 3, 4, 5}
  NoReq = NoReq
  MaxRooms = 1
  MaxRoomsPerIP = 3
  MaxClientsHard = 1
  MaxClientsPerPrefix = 1
  MaxPendingPerIP = 3
  MaxPendingGlobal = 3
  MaxPendingPerRoom = 1
  MaxTime = 1
  MaxCookies = 3
  MaxStall = 0
SYMMETRY WorkerSymmetry
INVARIANTS RoomCount RoomSoftCap
 
