----------------------------- MODULE Handshake -----------------------------
(***************************************************************************)
(* What the key exchange promises, without its messages: a run that         *)
(* succeeds names a run with the same code that was answering it, the       *)
(* address is one that run gave for itself, and the two take complementary  *)
(* roles.                                                                   *)
(***************************************************************************)
EXTENDS Integers

CONSTANTS
  Sessions,           \* runs of register_and_exchange, of all users
  Codes, Code,        \* [Sessions -> Codes], the code each run was given
  Point,              \* [Sessions -> Nat], the order of the blinded M-points
  Addrs               \* addresses a run may give for itself

VARIABLES
  engaged,            \* <<p, q, a>>: p has told q, confidentially, it is at a
  outcome             \* how each run ended

absVars == <<engaged, outcome>>

Pending == [status |-> "running"]
Failed == [status |-> "failed"]

\* The larger M-point is the server.
Authenticated(p, q, a) ==
  [status |-> "done", peer |-> q, addr |-> a, is_server |-> Point[p] > Point[q]]

AbsInit ==
  /\ engaged = {}
  /\ outcome = [s \in Sessions |-> Pending]

Engage(p, q, a) ==
  /\ outcome[p] = Pending
  /\ engaged' = engaged \cup {<<p, q, a>>}
  /\ UNCHANGED outcome

\* p concludes from what q told it, having told q as much: now or before.
Accept(p, q, a) ==
  /\ outcome[p] = Pending
  /\ Code[p] = Code[q]
  /\ <<q, p, a>> \in engaged
  /\ \E b \in Addrs : engaged' = engaged \cup {<<p, q, b>>}
  /\ outcome' = [outcome EXCEPT ![p] = Authenticated(p, q, a)]

GiveUp(p) ==
  /\ outcome[p] = Pending
  /\ outcome' = [outcome EXCEPT ![p] = Failed]
  /\ UNCHANGED engaged

AbsNext ==
  \E p \in Sessions :
    \/ GiveUp(p)
    \/ \E q \in Sessions \ {p}, a \in Addrs : Engage(p, q, a) \/ Accept(p, q, a)

AbsSpec == AbsInit /\ [][AbsNext]_absVars
=============================================================================
