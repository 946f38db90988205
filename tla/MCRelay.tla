------------------------------ MODULE MCRelay ------------------------------
(***************************************************************************)
(* Small instances of the relay for TLC.                                    *)
(***************************************************************************)
EXTENDS Relay, TLC

CONSTANTS a1, a2, a3, ip1, ip2, r1, r2, r3, w1, w2

\* Two sources behind one IP (peers behind one NAT) or one each; a third of
\* its own.
OneAddr == {a1}
TwoAddrs == {a1, a2}
ThreeAddrs == {a1, a2, a3}
OneIp == {ip1}
TwoIps == {ip1, ip2}
SoleIp == a1 :> ip1
SameIp == (a1 :> ip1) @@ (a2 :> ip1)
OwnIps == (a1 :> ip1) @@ (a2 :> ip2)
MixedIps == (a1 :> ip1) @@ (a2 :> ip1) @@ (a3 :> ip2)

OneRoom == {r1}
TwoRooms == {r1, r2}
ThreeRooms == {r1, r2, r3}
OneRoomShard == r1 :> 0
OneRoomEach == (r1 :> 0) @@ (r2 :> 1)
SharedShard == (r1 :> 0) @@ (r2 :> 1) @@ (r3 :> 1)

OneWorker == {w1}
TwoWorkers == {w1, w2}
WorkerSymmetry == Permutations(Workers)

\* Registrations alone, between two ticks of the cleanup task.
RegSpec == Init /\ [][(\E w \in Workers : ArriveReg(w) \/ Handle(w)) \/ Tick]_vars

\* Registrations and the cleanup task.
RegCleanNext == \/ \E w \in Workers : ArriveReg(w) \/ Handle(w)
                \/ Cleanup \/ Tick
RegCleanSpec == Init /\ [][RegCleanNext]_vars
FairRegCleanSpec == RegCleanSpec /\ Fairness
=============================================================================
